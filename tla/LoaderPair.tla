----------------------------- MODULE LoaderPair -----------------------------
(***************************************************************************)
(* Two runs of `nuperf` by the same user on plugin directories nobody      *)
(* touches in between: PluginLoader and a second copy of it over the same  *)
(* disk.  The first is kept at its command while the second starts, reads  *)
(* the directories and gets to its own command, so both registries can be  *)
(* compared; then the first goes on to its end.  The only freedom the two  *)
(* have is the order in which std::filesystem::directory_iterator delivers *)
(* the entries, which the standard leaves unspecified.                     *)
(***************************************************************************)
EXTENDS PluginLoader

VARIABLES phase2, kind2, pending2, lib2, open2, handles2, registry2

run1 == <<phase, kind, pending, lib, open, handles, registry>>
run2 == <<phase2, kind2, pending2, lib2, open2, handles2, registry2>>
pairVars == <<disk, run1, run2>>

Second == INSTANCE PluginLoader WITH
            phase <- phase2, kind <- kind2, pending <- pending2, lib <- lib2,
            open <- open2, handles <- handles2, registry <- registry2

PairInit == Init /\ Second!Init

\* The second run has its registry, or will never have one.
SecondDone == phase2 \in {"command", "failed", "terminated"}

FirstRuns == (phase = "command" => SecondDone) /\ Next /\ UNCHANGED run2

SecondRuns ==
    /\ phase = "command" /\ ~SecondDone
    /\ Second!Next
    /\ UNCHANGED run1

PairNext == FirstRuns \/ SecondRuns

PairSpec == PairInit /\ [][PairNext]_pairVars

-----------------------------------------------------------------------------
BothReady == phase = "command" /\ phase2 = "command"

Names(reg, k) == {d.name : d \in {r \in reg : r.kind = k}}

(***************************************************************************)
(* README.md, Stability Notes: "Plugin registry enumeration and            *)
(* buffer-size contracts should remain deterministic and consistent": both *)
(* runs list the same method names.  They need not, because the winner of  *)
(* a clash, and the second name a loser falls back on, depend on the       *)
(* order of the directory.                                                 *)
(***************************************************************************)
SameListing ==
    BothReady =>
        \A k \in Kind : Names(registry, k) = Names(registry2, k)

=============================================================================
