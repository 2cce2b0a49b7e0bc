------------------------------ MODULE EmitSink ------------------------------
(***************************************************************************)
(* The protocol of nuperf_emit_sink_t, as nuperf-target.h states it for    *)
(* the targets that use a sink: for each artifact one begin_artifact, one  *)
(* or more writes, one end_artifact.  The sink may refuse any of these     *)
(* calls and is not called again after a refusal; a target may also give   *)
(* up half-way.                                                            *)
(***************************************************************************)
VARIABLE artifact   \* the artifact last begun in the current sink

State == {"none", "begun", "written", "ended", "refused"}

Init == artifact = "none"

Begin == artifact \in {"none", "ended"} /\ artifact' = "begun"

Write == artifact \in {"begun", "written"} /\ artifact' = "written"

End == artifact = "written" /\ artifact' = "ended"

Refuse == artifact # "refused" /\ artifact' = "refused"

\* The next emission is given a sink of its own.
AnotherSink == artifact' = "none"

Next == Begin \/ Write \/ End \/ Refuse \/ AnotherSink

Spec == Init /\ [][Next]_artifact

=============================================================================
