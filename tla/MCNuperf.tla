------------------------------ MODULE MCNuperf ------------------------------
(***************************************************************************)
(* Command lines for Nuperf: every tail of up to three tokens behind the   *)
(* build command (of one behind the quoted "build run"), every tail of up  *)
(* to four behind `project init`, and the other commands with a few words. *)
(***************************************************************************)
EXTENDS Nuperf

BuildTail == {"--input", "keys/keys.txt", "-o", "--dump-json-schema", "-mBBHash",
              "--option", "--option=a=1", "--from-json", "--from-xml=", "-xm",
              "--", "-h", "--nope"}
InitTail == {"dir", "--add-build", "--add-build=Makefile", "CMakeLists.txt",
             "--input", "--"}
CommandWord == {"version", "list-methods", "list-targets", "registry", "methods",
         "targets", "list", "build", "run", "project", "init", "help",
         "--help", "-h", "build run", "install"}

MCToken == BuildTail \cup InitTail \cup CommandWord
MCValue == MCToken \cup {"BBHash", "a=1", "Makefile", "-", ""}

Tails(tokens, n) == UNION {[1..k -> tokens] : k \in 0..n}

MCCommandLine == UNION {
    { h \o t : h \in {<<"build">>, <<"build", "run">>}, t \in Tails(BuildTail, 3) },
    { <<"build run">> \o t : t \in Tails(BuildTail, 1) },
    { <<"project", "init">> \o t : t \in Tails(InitTail, 4) },
    Tails(CommandWord, 2),
    { <<"registry", "methods", "list">> \o t : t \in Tails({"-h", "list"}, 1) },
    { <<"help", "registry", "targets", "list">> } }

MCWord == MCToken

MCWords == [t \in MCToken |->
                IF t = "build run" THEN <<"build", "run">> ELSE <<t>>]

Long(name, inline) ==
    [kind |-> "long", junk |-> FALSE, name |-> name, inline |-> inline]
Short(junk, name, inline) ==
    [kind |-> "short", junk |-> junk, name |-> name, inline |-> inline]
Other(kind) ==
    [kind |-> kind, junk |-> FALSE, name |-> Unknown, inline |-> None]

MCForm == [t \in MCToken |->
    CASE t = "--input"              -> Long("input", None)
      [] t = "--option"             -> Long("option", None)
      [] t = "--option=a=1"         -> Long("option", "a=1")
      [] t = "-o"                   -> Short(FALSE, "output", None)
      [] t = "--dump-json-schema"   -> Long("dump-json-schema", None)
      [] t = "--from-json"          -> Long("from-json", None)
      [] t = "--from-xml="          -> Long("from-xml", "")
      [] t = "--add-build"          -> Long("add-build", None)
      [] t = "--add-build=Makefile" -> Long("add-build", "Makefile")
      [] t \in {"--nope", "--help"} -> Long(Unknown, None)
      [] t = "-mBBHash"             -> Short(FALSE, "method", "BBHash")
      [] t = "-xm"                  -> Short(TRUE, "method", None)
      [] t = "-h"                   -> Short(FALSE, Unknown, None)
      [] t = "--"                   -> Other("end")
      [] OTHER                      -> Other("word")]

\* Nothing yet, and a workspace the user already works in.
MCWorkspace ==
    { [dirs |-> {}, files |-> [f \in File |-> "absent"]],
      [dirs |-> {"keys", "scripts"}, files |-> [f \in File |-> "user"]] }

=============================================================================
