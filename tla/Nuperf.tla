------------------------------- MODULE Nuperf -------------------------------
(***************************************************************************)
(* One `nuperf` command line from argv to the exit status (src/main.cpp):  *)
(* main's dispatch, the help it prints, resolve_command_path, the reading  *)
(* of options by Klyspec, the call of cmd_build_run with what was read,    *)
(* and cmd_project_init step by step.                                      *)
(*                                                                         *)
(* A token is a string whose letters are not looked at: Form says how      *)
(* Klyspec takes it apart and Words what it adds to a joined path (a       *)
(* quoted "build run" is one token and two words).  cmd_build_run is one   *)
(* step here; module BuildRun takes it apart.  The plugins, nuperf_init    *)
(* and nuperf_shutdown around all this are module PluginLoader's.          *)
(*                                                                         *)
(* The workspace is the directory `project init` fills; for a build it is  *)
(* the directory the process runs in, and a file of it has the one name    *)
(* File gives it.                                                          *)
(***************************************************************************)
EXTENDS Positions, Sequences

CONSTANTS
    Token,          \* the strings of the command lines
    Value,          \* tokens, and the parts of a token that are a value
    Word,           \* what a token is made of, between its blanks
    Words,          \* the words of a token
    Form,           \* how Klyspec takes a token apart
    CommandLine,    \* the command lines, argv[0] left out
    Workspace,      \* what the directory of a new project holds before
    Empty,          \* the empty std::string
    Unknown,        \* an option name no command registers
    None            \* no value, no call

\* The documented commands, as their words.
Docs == { <<"version">>, <<"list-methods">>, <<"list-targets">>, <<"build">>,
          <<"registry", "methods", "list">>, <<"registry", "targets", "list">>,
          <<"build", "run">>, <<"project", "init">>, <<"help">> }

Groups == { <<"registry">>, <<"registry", "methods">>,
            <<"registry", "targets">>, <<"build">>, <<"project">> }

\* The names registered with Klyspec; all of them require a value.
From == {"from-json", "from-yaml", "from-sexpr", "from-xml"}
Single == From \cup {"input", "output", "method", "target", "schema",
                     "dump-json-schema"}
BuildOption == Single \cup {"option"}
OptionId == BuildOption \cup {"add-build"}

BuildPath == { <<"build", "run">>, <<"build">> }
InitPath == { <<"project", "init">> }
ReportPath == { <<"version">>, <<"list-methods">>, <<"list-targets">>,
                <<"registry", "methods", "list">>,
                <<"registry", "targets", "list">> }

BuildFile == {"CMakeLists.txt", "Makefile"}
Sample == "keys/keys.txt"
Script == "scripts/build.lua"
File == BuildFile \cup {Sample, Script}
Directory == {"keys", "out", "scripts"}

\* "junk": a cluster of short options with an unknown letter before the name.
FormType == [kind : {"word", "long", "short", "end"}, junk : BOOLEAN,
             name : OptionId \cup {Unknown}, inline : Value \cup {None}]

\* What cmd_build_run is called with.
Call == [input : Value, output : Value, method : Value, target : Value,
         schema : Value, dump : Value, options : Seq(Value),
         format : From \cup {"lines"}]

ASSUME NuperfAssumption ==
    /\ Token \subseteq Value
    /\ {Empty, "-"} \subseteq Value
    /\ {Empty, "-"} \cap File = {}
    /\ None \notin Value \cup Call
    /\ Unknown \notin OptionId
    /\ Words \in [Token -> Seq(Word)]
    /\ Docs \subseteq Seq(Word)
    /\ Form \in [Token -> FormType]
    /\ CommandLine \subseteq Seq(Token)
    /\ Workspace \subseteq [dirs : SUBSET Directory,
                            files : [File -> {"absent", "user"}]]

VARIABLES
    argv,        \* the command line
    before,      \* the workspace before the process
    pc,          \* where the process is
    pending,     \* documents the loop of resolve_command_path has to visit
    path,        \* parsed_command.command_path
    rest,        \* parsed_command.rest
    todo,        \* tokens of rest Klyspec, or values cmd_project_init, has left
    literal,     \* "--" was seen
    values,      \* ParseResult::values
    positionals, \* ParseResult::positionals
    ok,          \* ParseResult::ok
    printed,     \* the page or report on standard output, "nothing" at first
    call,        \* what cmd_build_run was called with
    dirs, files, \* the workspace
    failed,      \* files whose last write failed, which nobody looks at
    rc           \* the exit status

input == <<argv, before>>
command == <<path, rest>>
parsed == <<literal, values, positionals, ok>>
disk == <<dirs, files, failed>>
vars == <<input, pc, pending, command, todo, parsed, printed, call, disk, rc>>

Pc == {"start", "resolve", "dispatch", "parse", "check", "make_dirs",
       "write_sample", "write_script", "build_files", "exit", "terminated"}

Printed == {"nothing", "global help", "command help", "group help",
            "report", "initialized"}

\* "cut": a part of what was meant; "built": what a build wrote, or a part of it.
Content == {"absent", "user", "cut", "whole", "built"}

TypeOK ==
    /\ argv \in Seq(Token) /\ before \in Workspace
    /\ pc \in Pc
    /\ pending \subseteq Docs
    /\ path \in Seq(Word)
    /\ rest \in Seq(Token) /\ todo \in Seq(Value)
    /\ literal \in BOOLEAN /\ ok \in BOOLEAN
    /\ values \in [OptionId -> Seq(Value)]
    /\ positionals \in Seq(Token)
    /\ printed \in Printed
    /\ call \in Call \cup {None}
    /\ dirs \subseteq Directory
    /\ files \in [File -> Content]
    /\ failed \subseteq File
    /\ rc \in {0, 1}

Init ==
    /\ argv \in CommandLine /\ before \in Workspace
    /\ pc = "start"
    /\ pending = {}
    /\ path = <<>> /\ rest = <<>> /\ todo = <<>>
    /\ literal = FALSE /\ ok = TRUE
    /\ values = [o \in OptionId |-> <<>>]
    /\ positionals = <<>>
    /\ printed = "nothing" /\ call = None
    /\ dirs = before.dirs /\ files = before.files /\ failed = {}
    /\ rc = 0

-----------------------------------------------------------------------------
(***************************************************************************)
(* Help, and the way out.  Every return of main sets the exit status once. *)
(***************************************************************************)
Exit(status) == pc' = "exit" /\ rc' = status

\* join_words over some tokens.
Joined(tokens) ==
    LET upTo[n \in 0..Len(tokens)] ==
            IF n = 0 THEN <<>> ELSE upTo[n - 1] \o Words[tokens[n]]
    IN  upTo[Len(tokens)]

\* print_help_path: a path nobody knows is told to std::cerr, and no failure.
HelpPage(words) ==
    CASE words = <<>>     -> "global help"
      [] words \in Docs   -> "command help"
      [] words \in Groups \ Docs -> "group help"
      [] words \notin Docs \cup Groups \cup {<<>>} -> "nothing"

PrintHelp(page) ==
    /\ printed' = page
    /\ Exit(0)
    /\ UNCHANGED <<input, pending, command, todo, parsed, call, disk>>

Refuse ==
    /\ Exit(1)
    /\ UNCHANGED <<input, pending, command, todo, parsed, printed, call, disk>>

NoArguments == pc = "start" /\ argv = <<>> /\ PrintHelp("global help")

HelpCommand ==
    /\ pc = "start" /\ argv # <<>>
    /\ argv[1] = "help"
    /\ PrintHelp(HelpPage(Joined(Tail(argv))))

-----------------------------------------------------------------------------
(***************************************************************************)
(* resolve_command_path looks for the longest document whose words start   *)
(* the command line.  It visits an unordered_map: the documents that match *)
(* come in any order, the others change nothing.  best_len is Len(path).   *)
(***************************************************************************)
Matches(words) ==
    Len(words) <= Len(argv) /\ \A i \in 1..Len(words) : argv[i] = words[i]

Resolve ==
    /\ pc = "start" /\ argv # <<>>
    /\ argv[1] # "help"
    /\ pending' = {d \in Docs \ {<<"help">>} : Matches(d)}
    /\ pc' = "resolve"
    /\ UNCHANGED <<input, command, todo, parsed, printed, call, disk, rc>>

\* Defect: any match replaces the one before it.
VisitDocLast(words) ==
    /\ pc = "resolve" /\ words \in pending
    /\ pending' = pending \ {words}
    /\ path' = words
    /\ UNCHANGED <<input, pc, rest, todo, parsed, printed, call, disk, rc>>

VisitDoc(words) ==
    /\ pc = "resolve" /\ words \in pending
    /\ pending' = pending \ {words}
    /\ path' = IF Len(words) > Len(path) THEN words ELSE path
    /\ UNCHANGED <<input, pc, rest, todo, parsed, printed, call, disk, rc>>

\* No document matched: the first token is the path, whatever it is.
Resolved ==
    /\ pc = "resolve" /\ pending = {}
    /\ IF path = <<>>
       THEN path' = Words[argv[1]] /\ rest' = Tail(argv)
       ELSE path' = path /\ rest' = SubSeq(argv, Len(path) + 1, Len(argv))
    /\ pc' = "dispatch"
    /\ UNCHANGED <<input, pending, todo, parsed, printed, call, disk, rc>>

HelpFlag == {"--help", "-h"}
GlobalHelpAsked == path \in {<<"--help">>, <<"-h">>}

\* has_help_flag looks at every token, the values of options included.
CommandHelpAsked ==
    path \in Docs /\ \E i \in DOMAIN rest : rest[i] \in HelpFlag

HelpAsked ==
    /\ pc = "dispatch"
    /\ \/ GlobalHelpAsked /\ PrintHelp("global help")
       \/ ~GlobalHelpAsked /\ CommandHelpAsked /\ PrintHelp("command help")

Dispatched == pc = "dispatch" /\ ~GlobalHelpAsked /\ ~CommandHelpAsked

\* Defect: what follows the name of the report is not looked at.
ReportWhatever ==
    /\ Dispatched /\ path \in ReportPath
    /\ printed' = "report"
    /\ Exit(0)
    /\ UNCHANGED <<input, pending, command, todo, parsed, call, disk>>

\* version and the two listings, under both their names.
Report ==
    /\ Dispatched /\ path \in ReportPath /\ rest = <<>>
    /\ printed' = "report"
    /\ Exit(0)
    /\ UNCHANGED <<input, pending, command, todo, parsed, call, disk>>

ReportRefused == Dispatched /\ path \in ReportPath /\ rest # <<>> /\ Refuse

UnknownCommand ==
    Dispatched /\ path \notin ReportPath \cup BuildPath \cup InitPath /\ Refuse

StartParse ==
    /\ Dispatched /\ path \in BuildPath \cup InitPath
    /\ todo' = rest
    /\ pc' = "parse"
    /\ UNCHANGED <<input, pending, command, parsed, printed, call, disk, rc>>

-----------------------------------------------------------------------------
(***************************************************************************)
(* KlyCLIService::parse, one step per token.                               *)
(***************************************************************************)
Registered == IF path \in BuildPath THEN BuildOption ELSE {"add-build"}

Parsing == pc = "parse" /\ todo # <<>>

\* How the next token is read, given that "--" was not seen.
Next1 == Form[todo[1]]
AtOption == Parsing /\ ~literal /\ Next1.kind \in {"long", "short"}

ParseFrame ==
    UNCHANGED <<input, pc, pending, command, printed, call, disk, rc>>

\* Defect: "--" is dropped and what follows it is still read as options.
EndOfOptionsIgnored ==
    /\ Parsing /\ ~literal /\ Next1.kind = "end"
    /\ todo' = Tail(todo)
    /\ UNCHANGED parsed
    /\ ParseFrame

EndOfOptions ==
    /\ Parsing /\ ~literal /\ Next1.kind = "end"
    /\ literal' = TRUE
    /\ todo' = Tail(todo)
    /\ UNCHANGED <<values, positionals, ok>>
    /\ ParseFrame

\* Defect: the loop does not get past an option it does not know.
UnknownOptionAgain ==
    /\ AtOption /\ Next1.name \notin Registered
    /\ ok' = FALSE
    /\ UNCHANGED <<todo, literal, values, positionals>>
    /\ ParseFrame

UnknownOption ==
    /\ AtOption /\ Next1.name \notin Registered
    /\ ok' = FALSE
    /\ todo' = Tail(todo)
    /\ UNCHANGED <<literal, values, positionals>>
    /\ ParseFrame

Take(v) ==
    /\ values' = [values EXCEPT ![Next1.name] = Append(@, v)]
    /\ ok' = (ok /\ ~Next1.junk)
    /\ UNCHANGED <<literal, positionals>>
    /\ ParseFrame

\* --name=value and -nVALUE.
InlineValue ==
    /\ AtOption /\ Next1.name \in Registered /\ Next1.inline # None
    /\ Take(Next1.inline)
    /\ todo' = Tail(todo)

\* The next token is the value, even if it looks like an option.
SeparateValue ==
    /\ AtOption /\ Next1.name \in Registered /\ Next1.inline = None
    /\ Len(todo) > 1
    /\ Take(todo[2])
    /\ todo' = Tail(Tail(todo))

\* Defect: the value is read past the end of argv.
MissingValueRead ==
    /\ AtOption /\ Next1.name \in Registered /\ Next1.inline = None
    /\ Len(todo) = 1
    /\ Take(None)
    /\ todo' = <<>>

MissingValue ==
    /\ AtOption /\ Next1.name \in Registered /\ Next1.inline = None
    /\ Len(todo) = 1
    /\ ok' = FALSE
    /\ todo' = <<>>
    /\ UNCHANGED <<literal, values, positionals>>
    /\ ParseFrame

Positional ==
    /\ Parsing
    /\ literal \/ Next1.kind = "word"
    /\ positionals' = Append(positionals, todo[1])
    /\ todo' = Tail(todo)
    /\ UNCHANGED <<literal, values, ok>>
    /\ ParseFrame

\* Defect: nobody counts the values of an option that takes one.
ParsedUncounted ==
    /\ pc = "parse" /\ todo = <<>>
    /\ values' = IF path \in BuildPath /\ values["output"] = <<>>
                 THEN [values EXCEPT !["output"] = <<"-">>] ELSE values
    /\ pc' = "check"
    /\ UNCHANGED <<input, pending, command, todo, literal, positionals, ok,
                   printed, call, disk, rc>>

\* Defaults, then the options that were given more often than they may.
Parsed ==
    /\ pc = "parse" /\ todo = <<>>
    /\ values' = IF path \in BuildPath /\ values["output"] = <<>>
                 THEN [values EXCEPT !["output"] = <<"-">>] ELSE values
    /\ ok' = (ok /\ \A o \in Single : Len(values[o]) <= 1)
    /\ pc' = "check"
    /\ UNCHANGED <<input, pending, command, todo, literal, positionals,
                   printed, call, disk, rc>>

-----------------------------------------------------------------------------
(***************************************************************************)
(* What main does with the result.                                         *)
(***************************************************************************)
Get1(o) == IF values[o] = <<>> THEN Empty ELSE values[o][1]

Structured == {f \in From : Get1(f) # Empty}

Acceptable ==
    /\ ok
    /\ path \in BuildPath =>
        positionals = <<>> /\ \A f, g \in Structured : f = g
    /\ path \in InitPath => Len(positionals) <= 1

CheckRefused == pc = "check" /\ ~Acceptable /\ Refuse

\* The file of a structured import takes the place of --input.
BuildCall ==
    LET format == IF Structured = {} THEN "lines"
                  ELSE CHOOSE f \in Structured : TRUE
    IN  [input |-> IF format = "lines" THEN Get1("input") ELSE Get1(format),
         output |-> Get1("output"), method |-> Get1("method"),
         target |-> Get1("target"), schema |-> Get1("schema"),
         dump |-> Get1("dump-json-schema"), options |-> values["option"],
         format |-> format]

\* The directory of the workspace a file of it is in, if it is not the root.
DirOf(f) == CASE f = Sample -> {"keys"} [] f = Script -> {"scripts"}
              [] f \in BuildFile -> {}

(***************************************************************************)
(* cmd_build_run answers 0 or 1, or what a plugin throws leaves main       *)
(* through it.  It writes to the two paths it was given: --output and the  *)
(* schema of --dump-json-schema, both of them when it answers 0.           *)
(***************************************************************************)
RunBuild ==
    /\ pc = "check" /\ Acceptable /\ path \in BuildPath
    /\ call' = BuildCall
    /\ LET asked == File \cap {BuildCall.output, BuildCall.dump}
       IN  \E built \in SUBSET asked :
            /\ \A f \in built : DirOf(f) \subseteq dirs
            /\ files' = [f \in File |-> IF f \in built THEN "built" ELSE files[f]]
            /\ \/ built = asked /\ Exit(0)
               \/ Exit(1)
               \/ pc' = "terminated" /\ rc' = rc
    /\ UNCHANGED <<input, pending, command, todo, parsed, printed, dirs, failed>>

Root == IF positionals = <<>> THEN Empty ELSE positionals[1]

StartInit ==
    /\ pc = "check" /\ Acceptable /\ path \in InitPath
    /\ pc' = "make_dirs"
    /\ UNCHANGED <<input, pending, command, todo, parsed, printed, call, disk,
                   rc>>

\* current_path() throws when the directory the process is in was removed.
InitThrows ==
    /\ pc = "check" /\ Acceptable /\ path \in InitPath /\ Root = Empty
    /\ pc' = "terminated"
    /\ UNCHANGED <<input, pending, command, todo, parsed, printed, call, disk,
                   rc>>

-----------------------------------------------------------------------------
(***************************************************************************)
(* cmd_project_init.  Whether a directory is made or a file is written is  *)
(* looked at nowhere.                                                      *)
(***************************************************************************)
InitFrame == UNCHANGED <<input, pending, command, parsed, call>>

MakeDirs ==
    /\ pc = "make_dirs"
    /\ \E made \in SUBSET Directory : dirs' = dirs \cup made
    /\ pc' = "write_sample"
    /\ UNCHANGED <<files, failed, todo, printed, rc>>
    /\ InitFrame

(***************************************************************************)
(* A std::ofstream with trunc: the file is what was meant to be written,   *)
(* or a part of it, or, where it could not be opened, what it was.         *)
(***************************************************************************)
Write(f) ==
    \/ /\ DirOf(f) \subseteq dirs
       /\ files' = [files EXCEPT ![f] = "whole"]
       /\ failed' = failed \ {f}
    \/ /\ DirOf(f) \subseteq dirs
       /\ files' = [files EXCEPT ![f] = "cut"]
       /\ failed' = failed \cup {f}
    \/ /\ files' = files
       /\ failed' = failed \cup {f}

WriteSample ==
    /\ pc = "write_sample"
    /\ Write(Sample)
    /\ pc' = "write_script"
    /\ UNCHANGED <<dirs, todo, printed, rc>>
    /\ InitFrame

WriteScript ==
    /\ pc = "write_script"
    /\ Write(Script)
    /\ todo' = values["add-build"]
    /\ pc' = "build_files"
    /\ UNCHANGED <<dirs, printed, rc>>
    /\ InitFrame

WriteBuildFile ==
    /\ pc = "build_files" /\ todo # <<>>
    /\ todo[1] \in BuildFile
    /\ Write(todo[1])
    /\ todo' = Tail(todo)
    /\ UNCHANGED <<pc, dirs, printed, rc>>
    /\ InitFrame

\* Defect: a build file it does not know is reported and passed over.
UnsupportedPassedOver ==
    /\ pc = "build_files" /\ todo # <<>>
    /\ todo[1] \notin BuildFile
    /\ todo' = Tail(todo)
    /\ UNCHANGED <<pc, disk, printed, rc>>
    /\ InitFrame

\* What was written before it stays.
UnsupportedBuildFile ==
    /\ pc = "build_files" /\ todo # <<>>
    /\ todo[1] \notin BuildFile
    /\ Refuse

Initialized ==
    /\ pc = "build_files" /\ todo = <<>>
    /\ printed' = "initialized"
    /\ Exit(0)
    /\ UNCHANGED <<todo, disk>>
    /\ InitFrame

Command ==
    \/ NoArguments \/ HelpCommand
    \/ Resolve \/ Resolved \/ \E words \in Docs : VisitDoc(words)
    \/ HelpAsked \/ Report \/ ReportRefused \/ UnknownCommand \/ StartParse

Parse ==
    \/ EndOfOptions \/ UnknownOption \/ InlineValue \/ SeparateValue
    \/ MissingValue \/ Positional \/ Parsed

Run ==
    \/ CheckRefused \/ RunBuild \/ StartInit \/ InitThrows
    \/ MakeDirs \/ WriteSample \/ WriteScript \/ WriteBuildFile
    \/ UnsupportedBuildFile \/ Initialized

Next == Command \/ Parse \/ Run

Spec == Init /\ [][Next]_vars

\* One thread: the process goes on until it is over.
FairSpec == Spec /\ WF_vars(Next)

-----------------------------------------------------------------------------
(***************************************************************************)
(* The command that was resolved is documented, and no longer documented   *)
(* command starts the command line; or none does (lines 518-541), in       *)
(* whatever order the map delivers the documents.                          *)
(***************************************************************************)
Found == pc \notin {"start", "resolve"} /\ path # <<>>

LongestCommand ==
    Found =>
        LET candidates == {d \in Docs \ {<<"help">>} : Matches(d)}
        IN  IF candidates = {}
            THEN path = Words[argv[1]] /\ rest = Tail(argv)
            ELSE /\ path \in candidates
                 /\ \A d \in candidates : Len(d) <= Len(path)
                 /\ argv = path \o rest

(***************************************************************************)
(* The rest of the command line read as a whole, without the program:      *)
(* every token has one role, which its form and the role of the token to   *)
(* its left decide.  An "option" wants the next token, whatever it is;     *)
(* behind "--" all tokens are operands.                                    *)
(***************************************************************************)
Role == {"start", "word", "unknown", "inline", "option", "value", "end", "operand"}

RoleAfter(left, form, names) ==
    CASE left = "option" -> "value"
      [] left \in {"end", "operand"} -> "operand"
      [] left \notin {"option", "end", "operand"} ->
            IF form.kind \in {"end", "word"} THEN form.kind
            ELSE IF form.name \notin names THEN "unknown"
            ELSE IF form.inline = None THEN "option" ELSE "inline"

RolesIn(tokens, names) ==
    LET role[n \in 0..Len(tokens)] ==
            IF n = 0 THEN "start"
            ELSE RoleAfter(role[n - 1], Form[tokens[n]], names)
    IN  role

Roles(names) == RolesIn(rest, names)

\* The values given for option o by the first n tokens, in their order.
GivenUpTo(n, o, names) ==
    LET role == Roles(names)
        valueOf == [i \in DOMAIN rest |->
                       IF role[i] = "inline" THEN Form[rest[i]].inline ELSE rest[i + 1]]
    IN  Picked(valueOf, {i \in 1..n : role[i] \in {"inline", "option"}
                                        /\ Form[rest[i]].name = o})

PositionalsUpTo(n, names) ==
    LET role == Roles(names)
    IN  Picked(rest, {i \in 1..n : role[i] \in {"word", "operand"}})

GivenFor(o, names) == GivenUpTo(Len(rest), o, names)
PositionalsOf(names) == PositionalsUpTo(Len(rest), names)

\* Every option is known and has its value; no help was asked for.
ReadsWell(names) ==
    LET role == Roles(names)
    IN  /\ \A i \in DOMAIN rest :
            /\ rest[i] \notin HelpFlag
            /\ role[i] # "unknown"
            /\ role[i] \in {"option", "inline"} => ~Form[rest[i]].junk
        /\ role[Len(rest)] # "option"

First(s, default) == IF s = <<>> THEN default ELSE s[1]

(***************************************************************************)
(* cmd_build_run is called only for a command line that reads well, has no *)
(* positional, gives a single-valued option at most once and has at most   *)
(* one structured import; and it gets the options of that line, in order,  *)
(* with the file of the import it named.                                   *)
(***************************************************************************)
BuildAsAsked ==
    call # None =>
        LET Of(o) == First(GivenFor(o, BuildOption), Empty)
            imports == {f \in From : Of(f) # Empty}
        IN  /\ path \in BuildPath
            /\ ReadsWell(BuildOption)
            /\ PositionalsOf(BuildOption) = <<>>
            /\ \A o \in Single : Len(GivenFor(o, BuildOption)) <= 1
            /\ call.options = GivenFor("option", BuildOption)
            /\ call.output = First(GivenFor("output", BuildOption), "-")
            /\ call.method = Of("method") /\ call.target = Of("target")
            /\ call.schema = Of("schema")
            /\ call.dump = Of("dump-json-schema")
            /\ imports = IF call.format = "lines" THEN {} ELSE {call.format}
            /\ call.input = Of(IF call.format = "lines" THEN "input"
                                                        ELSE call.format)

(***************************************************************************)
(* The disk changes only as the command line, read as a whole, asks: a     *)
(* directory is made only for a `project init` that reads well; a file is  *)
(* written only for such an init, or for a build that reads well and names *)
(* that file, and no other, as its output or as the place of the schema.   *)
(* A refusal, or any other command, has no effect on the disk.             *)
(***************************************************************************)
InitReadsWell ==
    /\ path \in InitPath
    /\ ReadsWell({"add-build"})
    /\ Len(PositionalsOf({"add-build"})) <= 1

BuildWrites(f) ==
    /\ path \in BuildPath
    /\ ReadsWell(BuildOption)
    /\ PositionalsOf(BuildOption) = <<>>
    /\ \E o \in {"output", "dump-json-schema"} :
            First(GivenFor(o, BuildOption), Empty) = f

DiskAsAsked ==
    [][/\ dirs' # dirs => InitReadsWell
       /\ \A f \in File : files'[f] # files[f] => InitReadsWell \/ BuildWrites(f)]_vars

(***************************************************************************)
(* When `project init` is over, with whatever exit status, the sample, the *)
(* script and the build files named before the first one it does not know  *)
(* are whole, but for those whose write failed; every other file is what   *)
(* it was (lines 472-508).  It says so, and exits 0, only if it knew all.  *)
(***************************************************************************)
Named == GivenFor("add-build", {"add-build"})

NamedBeforeUnsupported ==
    {Named[i] : i \in {i \in DOMAIN Named :
                        \A j \in 1..i : Named[j] \in BuildFile}}

WorkspaceAsReported ==
    pc = "exit" /\ path \in InitPath =>
        \/ files = before.files /\ printed # "initialized"
        \/ /\ \A f \in File :
                IF f \in {Sample, Script} \cup NamedBeforeUnsupported
                THEN files[f] = "whole" \/ f \in failed
                ELSE files[f] = before.files[f]
           /\ printed = "initialized" <=> rc = 0
           /\ rc = 0 => \A i \in DOMAIN Named : Named[i] \in BuildFile

(***************************************************************************)
(* A command line is run exactly when it reads well: a report has nothing  *)
(* behind it, a build has no positional, each single-valued option at most *)
(* once and at most one import, an init at most one directory.  Then the   *)
(* report is printed, cmd_build_run is called, or the workspace is         *)
(* initialized unless a build file is not known.  Any other line that does *)
(* not ask for help exits with 1, prints no report and leaves the disk as  *)
(* it was.                                                                 *)
(***************************************************************************)
HelpWanted ==
    argv = <<>> \/ argv[1] = "help" \/ GlobalHelpAsked \/ CommandHelpAsked

BuildReadsWell ==
    /\ path \in BuildPath
    /\ ReadsWell(BuildOption)
    /\ PositionalsOf(BuildOption) = <<>>
    /\ \A o \in Single : Len(GivenFor(o, BuildOption)) <= 1
    /\ \A f, g \in {f \in From : First(GivenFor(f, BuildOption), Empty) # Empty} :
            f = g

Understood ==
    (path \in ReportPath /\ rest = <<>>) \/ BuildReadsWell \/ InitReadsWell

RunOrRefused ==
    pc = "exit" /\ ~HelpWanted =>
        IF Understood
        THEN \/ path \in ReportPath /\ printed = "report" /\ rc = 0
             \/ path \in BuildPath /\ call # None
             \/ /\ path \in InitPath
                /\ \/ printed = "initialized"
                   \/ \E i \in DOMAIN Named : Named[i] \notin BuildFile
        ELSE rc = 1 /\ printed = "nothing" /\ call = None
                /\ dirs = before.dirs /\ files = before.files

(***************************************************************************)
(* Every command line comes to an end, and only a build, or a `project     *)
(* init` of the current directory, can end by an exception.                *)
(***************************************************************************)
Ends ==
    <>(\/ pc = "exit"
       \/ pc = "terminated" /\ call # None
       \/ pc = "terminated" /\ path \in InitPath
            /\ First(PositionalsOf({"add-build"}), Empty) = Empty)

=============================================================================
