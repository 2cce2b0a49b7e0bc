---------------------------- MODULE OptionBuffer ----------------------------
(***************************************************************************)
(* The size protocol with which a plugin hands an option value out as a C  *)
(* string (get_option in src/plugins/stdmeth.cpp and stddef.cpp).  The     *)
(* caller passes a buffer, or NULL to query the size, and *inout_size.     *)
(***************************************************************************)
EXTENDS Naturals

\* `value` is NULL or not; `size` is *inout_size at the call.
Buffers(limit) == [null : BOOLEAN, size : 0..limit]

\* What the caller finds: the status, *inout_size, and how many bytes of its
\* buffer were written.
Answers(limit) == [status : {"OK", "BUFFER_TOO_SMALL"},
                   size : 1..limit, written : 0..limit]

\* strlen(buf) + 1, the terminating NUL included.
Needed(length) == length + 1

\* Defect: a query is told the length without the NUL.
AnswerShortQuery(buffer, length) ==
    LET refused == ~buffer.null /\ buffer.size < Needed(length)
    IN  [status |-> IF refused THEN "BUFFER_TOO_SMALL" ELSE "OK",
         size |-> IF buffer.null /\ length > 0 THEN length ELSE Needed(length),
         written |-> IF buffer.null \/ refused THEN 0 ELSE Needed(length)]

Answer(buffer, length) ==
    LET refused == ~buffer.null /\ buffer.size < Needed(length)
    IN  [status |-> IF refused THEN "BUFFER_TOO_SMALL" ELSE "OK",
         size |-> Needed(length),
         written |-> IF buffer.null \/ refused THEN 0 ELSE Needed(length)]

=============================================================================
