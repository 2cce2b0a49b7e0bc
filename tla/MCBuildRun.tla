----------------------------- MODULE MCBuildRun -----------------------------
(***************************************************************************)
(* A small instance of BuildRun: inputs of up to two lines or keys, one of *)
(* them blank, one cut at a NUL into the key of another, and command lines *)
(* and requests that repeat, contradict and misspell one another.          *)
(***************************************************************************)
EXTENDS BuildRun

MCLine == {"alpha", "alpha NUL", "blank"}
MCKey == {"alpha", ""}
MCKeyOf == [l \in MCLine |-> IF l = "blank" THEN "" ELSE "alpha"]

Upto2(S) == {<<>>} \cup {<<a>> : a \in S} \cup {<<a, b>> : a, b \in S}

Seed(v) == [key |-> "method.seed", value |-> v]
Unknown(v) == [key |-> "x.y", value |-> v]

MCInvocation ==
    [dump : BOOLEAN, structured : BOOLEAN, path : {"-", "file"},
     method : {Unset, "stdmeth", "nope"}, target : {Unset, "stddef"},
     options : {<<>>, <<Seed("1")>>, <<Seed("1"), Seed("2")>>,
                <<Seed("2"), Malformed>>, <<Unknown("1")>>},
     output : {"-", "file"}]

Requests ==
    [keys : {<<>>, <<"alpha">>, <<"blank", "alpha NUL">>},
     method : {Unset, "other"}, target : {Unset},
     options : {<<>>, <<Seed("2")>>, <<Seed("2"), Seed("1")>>}]

MCSource ==
    {[lines |-> s, readable |-> n, request |-> BadDocument] :
        s \in Upto2(MCLine), n \in 0..2}
    \cup {[lines |-> <<>>, readable |-> 0, request |-> r] : r \in Requests}

\* A read never yields more lines than there are.
MCReadable == {s \in MCSource : s.readable <= Len(s.lines)}

=============================================================================
