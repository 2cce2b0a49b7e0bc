----------------------------- MODULE MCStdmeth ------------------------------
(***************************************************************************)
(* A small instance of Stdmeth: a machine whose uint32_t has ten bits, so  *)
(* that 1000 fits and 1024 wraps to 0, and texts on both sides of every    *)
(* test.                                                                   *)
(***************************************************************************)
EXTENDS Stdmeth, TLC

MCModulus == 1024
MCText == {"0", "7 keys", "-1", "1024", "many"}
MCStrtol == [t \in MCText |-> CASE t = "0" -> 0
                                [] t = "7 keys" -> 7
                                [] t = "-1" -> -1
                                [] t = "1024" -> 1024
                                [] t = "many" -> NoNumber]

\* %u prints one digit or more than one.
MCWidth == [v \in 0..(MCModulus - 1) |-> IF v < 10 THEN 1 ELSE 2]

\* NULL, and a buffer of each size up to the longest value and its NUL.
MCBuffer == [null : {TRUE}, size : {0}] \cup [null : {FALSE}, size : 1..3]

MCTime == {1034}

\* No handle is different from another.
MCSymmetry == Permutations(Instance) \cup Permutations(Result)

=============================================================================
