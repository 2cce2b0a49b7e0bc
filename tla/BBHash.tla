------------------------------- MODULE BBHash -------------------------------
(***************************************************************************)
(* The bundled method BBHash (src/stdmeth/BBHash/method.cpp): its          *)
(* instances with their one option, gamma, and the results it builds,      *)
(* which the callers use in any order, on live objects only.               *)
(*                                                                         *)
(* Unlike the built-in plugin it catches nothing: new, resize and stoul    *)
(* throw through the C callback, and the caller has no status, only the    *)
(* exception.  Stoul says what std::stoul(text) yields: a value of         *)
(* unsigned long, where "-1" is the greatest one, or Thrown.               *)
(***************************************************************************)
EXTENDS Integers, FiniteSets, OptionBuffer

CONSTANTS
    Instance, Result,   \* handles the callers can hold
    Modulus,            \* 2^32
    Text, Stoul, Thrown,
    Width,              \* Width[v]: digits of v in decimal
    MaxWidth,
    Buffer,             \* the buffers callers pass to get_option
    MaxKeys,            \* bound on the size of a keyset
    MaxLost,            \* bound on the blocks that are lost
    Dead                \* no instance or result behind the handle

Uint32 == 0..(Modulus - 1)

ASSUME BBHashAssumption ==
    /\ Modulus \in Nat /\ Modulus > 2
    /\ IsFiniteSet(Instance) /\ IsFiniteSet(Result)
    /\ MaxWidth \in Nat /\ MaxKeys \in Nat /\ MaxLost \in Nat
    /\ Thrown \notin Nat /\ Dead \notin Nat
    /\ Stoul \in [Text -> Nat \cup {Thrown}]
    /\ Width \in [Uint32 -> 1..MaxWidth]
    /\ Buffer \subseteq Buffers(MaxWidth + 1)

VARIABLES
    gamma,      \* by handle: the option of a live instance, or Dead
    count,      \* by handle: key_count of a live result, or Dead
    tables,     \* by handle: the entries of the result's vector
    heap,       \* blocks allocated and not freed
    asked,      \* history: what stoul made of the last text each instance took
    lost,       \* history: blocks left behind by an exception
    last        \* the last call: how it ended, and what get_option answered

bbVars == <<gamma, count, tables, heap, asked, lost, last>>

Live(handles, state) == {h \in handles : state[h] # Dead}

Quiet(outcome) == [of |-> Dead, outcome |-> outcome]

MethodTypeOK ==
    /\ gamma \in [Instance -> Uint32 \cup {Dead}]
    /\ count \in [Result -> 0..MaxKeys \cup {Dead}]
    /\ \A r \in Result : \A e \in DOMAIN tables[r] : tables[r][e] \in Uint32
    /\ heap \in Nat
    /\ asked \in [Instance -> Nat]
    /\ lost \in 0..MaxLost
    /\ last.outcome \in {"OK", "BUFFER_TOO_SMALL", "thrown"}

Default == 2

MethodInit ==
    /\ gamma = [i \in Instance |-> Dead]
    /\ count = [r \in Result |-> Dead]
    /\ tables = [r \in Result |-> <<>>]
    /\ heap = 0 /\ lost = 0
    /\ asked = [i \in Instance |-> Default]
    /\ last = Quiet("OK")

-----------------------------------------------------------------------------
\* The handle and the MethodImpl behind it.
Create(i) ==
    /\ gamma[i] = Dead
    /\ gamma' = [gamma EXCEPT ![i] = Default]
    /\ asked' = [asked EXCEPT ![i] = Default]
    /\ heap' = heap + 2
    /\ last' = Quiet("OK")
    /\ UNCHANGED <<count, tables, lost>>

\* The first new throws, or the second one, which leaves the first block.
CreateThrows ==
    /\ \/ UNCHANGED <<heap, lost>>
       \/ lost < MaxLost /\ heap' = heap + 1 /\ lost' = lost + 1
    /\ last' = Quiet("thrown")
    /\ UNCHANGED <<gamma, count, tables, asked>>

DestroyInstance(i) ==
    /\ gamma[i] # Dead
    /\ gamma' = [gamma EXCEPT ![i] = Dead]
    /\ heap' = heap - 2
    /\ last' = Quiet("OK")
    /\ UNCHANGED <<count, tables, asked, lost>>

\* gamma is the low 32 bits of any number; stoul throws before anything is
\* assigned.
SetOption(i, text) ==
    /\ gamma[i] # Dead
    /\ IF Stoul[text] = Thrown
       THEN last' = Quiet("thrown") /\ UNCHANGED <<gamma, asked>>
       ELSE /\ gamma' = [gamma EXCEPT ![i] = Stoul[text] % Modulus]
            /\ asked' = [asked EXCEPT ![i] = Stoul[text]]
            /\ last' = Quiet("OK")
    /\ UNCHANGED <<count, tables, heap, lost>>

\* The same size protocol as the built-in plugin.
GetOption(i, buffer) ==
    LET answer == Answer(buffer, Width[gamma[i]])
    IN  /\ gamma[i] # Dead
        /\ last' = [of |-> i, outcome |-> answer.status,
                    buffer |-> buffer, answer |-> answer]
        /\ UNCHANGED <<gamma, count, tables, heap, asked, lost>>

-----------------------------------------------------------------------------
\* The ResultImpl and, unless it is empty, the block of its vector.
Blocks(n) == IF n = 0 THEN 1 ELSE 2

Identity(n) == [x \in 0..(n - 1) |-> x % Modulus]

\* Neither the instance nor its gamma has any part in it.
BuildResult(r, n) ==
    /\ \E i \in Instance : gamma[i] # Dead
    /\ count[r] = Dead
    /\ count' = [count EXCEPT ![r] = n]
    /\ tables' = [tables EXCEPT ![r] = Identity(n)]
    /\ heap' = heap + Blocks(n)
    /\ last' = Quiet("OK")
    /\ UNCHANGED <<gamma, asked, lost>>

\* new throws; or resize does, and the ResultImpl is left behind.
BuildThrows(n) ==
    /\ \E i \in Instance : gamma[i] # Dead
    /\ \/ UNCHANGED <<heap, lost>>
       \/ n > 0 /\ lost < MaxLost /\ heap' = heap + 1 /\ lost' = lost + 1
    /\ last' = Quiet("thrown")
    /\ UNCHANGED <<gamma, count, tables, asked>>

\* Defect: what is deleted is the base, without the vector.
DestroyBase(r) ==
    /\ count[r] # Dead
    /\ heap' = heap - 1
    /\ count' = [count EXCEPT ![r] = Dead]
    /\ tables' = [tables EXCEPT ![r] = <<>>]
    /\ last' = Quiet("OK")
    /\ UNCHANGED <<gamma, asked, lost>>

DestroyResult(r) ==
    /\ count[r] # Dead
    /\ heap' = heap - Blocks(count[r])
    /\ count' = [count EXCEPT ![r] = Dead]
    /\ tables' = [tables EXCEPT ![r] = <<>>]
    /\ last' = Quiet("OK")
    /\ UNCHANGED <<gamma, asked, lost>>

MethodNext ==
    \/ CreateThrows
    \/ \E i \in Instance :
        \/ Create(i) \/ DestroyInstance(i)
        \/ \E text \in Text : SetOption(i, text)
        \/ \E buffer \in Buffer : GetOption(i, buffer)
    \/ \E n \in 0..MaxKeys :
        \/ BuildThrows(n)
        \/ \E r \in Result : BuildResult(r, n)
    \/ \E r \in Result : DestroyResult(r)

MethodSpec == MethodInit /\ [][MethodNext]_bbVars

-----------------------------------------------------------------------------
(***************************************************************************)
(* An instance keeps the low 32 bits of the last number it took, through   *)
(* every exception in between: a text stoul refuses changes nothing        *)
(* (lines 26-28).                                                          *)
(***************************************************************************)
GammaAsAsked == \A i \in Live(Instance, gamma) : gamma[i] = asked[i] % Modulus

(***************************************************************************)
(* Every block is reached from a live handle, except the ones an exception *)
(* left behind in create or build (lines 15-17, 42-44).                    *)
(***************************************************************************)
BlocksAccounted ==
    LET results == Live(Result, count)
    IN  heap = lost + 2 * Cardinality(Live(Instance, gamma))
                    + 2 * Cardinality(results)
                    - Cardinality({r \in results : count[r] = 0})

(***************************************************************************)
(* The results, all flagged MINIMAL, are minimal perfect hashes of the     *)
(* positions of the keys: one entry for each key, no two of them the same, *)
(* none past the last key, as long as 32 bits can number the keys (lines   *)
(* 44-49).                                                                 *)
(***************************************************************************)
MinimalPerfect ==
    \A r \in Live(Result, count) :
        count[r] <= Modulus =>
            {tables[r][e] : e \in DOMAIN tables[r]} = 0..(count[r] - 1)

\* get_option never writes past the caller's buffer (lines 34-37).
CopyFits ==
    last.of # Dead /\ ~last.buffer.null =>
        last.answer.written <= last.buffer.size

(***************************************************************************)
(* Through every order of calls and every exception, BBHash keeps what     *)
(* each instance was asked, accounts for its blocks, builds tables that    *)
(* are minimal perfect hashes, and stays in the buffers it is given.       *)
(***************************************************************************)
BBHashSound == GammaAsAsked /\ BlocksAccounted /\ MinimalPerfect /\ CopyFits

=============================================================================
