----------------------------- MODULE MCStddef -------------------------------
(***************************************************************************)
(* A small instance of Stddef: the default names, the longest name whose   *)
(* size line fits size_buf when the count has two digits, a name that does *)
(* not fit, the four Booleans, and results with no, one and ten words, one *)
(* of a method whose name does not fit meta_buf.                           *)
(***************************************************************************)
EXTENDS Stddef

MCText == {"nuperf_table", "NUPERF_TABLE", "true", "1", "false", "0",
           "a name of 32", "a name of 40", "stdmeth", "a method name of 210"}

MCLength == [t \in MCText |->
    CASE t \in {"nuperf_table", "NUPERF_TABLE"} -> 12
      [] t = "true" -> 4
      [] t \in {"1", "0"} -> 1
      [] t = "false" -> 5
      [] t = "a name of 32" -> 32
      [] t = "a name of 40" -> 40
      [] t = "stdmeth" -> 7
      [] t = "a method name of 210" -> 210]

MCGiven == {"0", "true", "a name of 32", "a name of 40"}

MCHashResult ==
    {[method_name |-> "stdmeth", key_count |-> 0, words |-> <<>>],
     [method_name |-> "stdmeth", key_count |-> 5,
      words |-> <<0, 1, 2, 3, 4, 0, 0, 0, 0, 0>>],
     [method_name |-> "a method name of 210", key_count |-> 1, words |-> <<7>>]}

MCBuffer == [null : {TRUE}, size : {0}]
    \cup [null : {FALSE}, size : {12, 13}]

=============================================================================
