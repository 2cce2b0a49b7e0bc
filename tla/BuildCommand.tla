---------------------------- MODULE BuildCommand ----------------------------
(***************************************************************************)
(* What `nuperf build run` promises to whoever started it, without saying  *)
(* how: the artifact its inputs stand for is handed over whole, at most    *)
(* once, before the command succeeds; a command that fails hands over      *)
(* nothing, or has damaged the output file it was writing.                 *)
(***************************************************************************)
CONSTANTS
    Artifact,   \* every artifact some inputs stand for
    Nothing,    \* no artifact
    Damaged     \* an output file of which only a part was written

VARIABLES
    wanted,     \* the artifact the inputs stand for, Nothing if they are wrong
    output,     \* what has been handed to the output stream or file
    exit        \* "running", or how the command returned

vars == <<wanted, output, exit>>

Init ==
    /\ wanted \in Artifact \cup {Nothing}
    /\ output = Nothing
    /\ exit = "running"

Deliver ==
    /\ exit = "running" /\ output = Nothing /\ wanted # Nothing
    /\ output' = wanted
    /\ UNCHANGED <<wanted, exit>>

Damage ==
    /\ exit = "running" /\ output = Nothing /\ wanted # Nothing
    /\ output' = Damaged
    /\ UNCHANGED <<wanted, exit>>

Succeed ==
    /\ exit = "running" /\ wanted # Nothing /\ output = wanted
    /\ exit' = "success"
    /\ UNCHANGED <<wanted, output>>

Fail ==
    /\ exit = "running" /\ output \in {Nothing, Damaged}
    /\ exit' = "failure"
    /\ UNCHANGED <<wanted, output>>

Next == Deliver \/ Damage \/ Succeed \/ Fail

Spec == Init /\ [][Next]_vars

=============================================================================
