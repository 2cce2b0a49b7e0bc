----------------------------- MODULE Positions -----------------------------
(***************************************************************************)
(* The positions of a command line or of a list of lines that have         *)
(* something in common, from the first to the last.  Properties that say   *)
(* what a loop should have collected use it in the place of a loop.        *)
(***************************************************************************)
EXTENDS Naturals, FiniteSets

Rank(places, i) == Cardinality({j \in places : j <= i})

InOrder(places) ==
    [n \in 1..Cardinality(places) |-> CHOOSE i \in places : Rank(places, i) = n]

\* What a sequence holds there.
Picked(s, places) ==
    LET order == InOrder(places) IN [n \in DOMAIN order |-> s[order[n]]]

\* The last of them.
Latest(places) == CHOOSE i \in places : \A j \in places : j <= i

=============================================================================
