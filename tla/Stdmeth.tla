------------------------------ MODULE Stdmeth -------------------------------
(***************************************************************************)
(* The built-in method plugin (src/plugins/stdmeth.cpp): its instances,    *)
(* their options, and the results it builds.  The callers (the core, and   *)
(* through it the CLI, C and Lua) hold several instances and results and   *)
(* call the plugin's functions in any order, on live objects only.         *)
(*                                                                         *)
(* uint32_t is 0..Modulus-1.  Texts are what set_option is given; Strtol   *)
(* says what strtol(text, &end, 10) yields: it reads "12 keys" as 12, and  *)
(* yields NoNumber for end == value.                                       *)
(***************************************************************************)
EXTENDS Integers, FiniteSets, OptionBuffer

CONSTANTS
    Instance, Result,   \* handles the callers can hold
    Modulus,            \* 2^32
    Text, Strtol, NoNumber,
    Width,              \* Width[v]: digits of v printed with %u
    MaxWidth,
    Buffer,             \* the buffers callers pass to get_option
    MaxKeys,            \* bound on the size of a keyset
    Time,               \* what time() may answer
    MaxLost,            \* bound on the allocations that fail half-way
    Dead,               \* no instance or result behind the handle
    Unasked,            \* no value of an option has been accepted
    Idle                \* the last call was not a get_option

Option == {"bucket_size", "max_iterations", "seed"}
Uint32 == 0..(Modulus - 1)

ASSUME StdmethAssumption ==
    /\ Modulus \in Nat /\ Modulus > 1000
    /\ IsFiniteSet(Instance) /\ IsFiniteSet(Result)
    /\ MaxWidth \in Nat /\ MaxKeys \in Nat /\ MaxLost \in Nat
    /\ NoNumber \notin Int /\ Unasked \notin Int
    /\ Strtol \in [Text -> Int \cup {NoNumber}]
    /\ Width \in [Uint32 -> 1..MaxWidth]
    /\ Buffer \subseteq Buffers(MaxWidth + 1)
    /\ Time \subseteq Nat

VARIABLES
    instance,   \* by handle: its options, or Dead
    result,     \* by handle: the built result, or Dead
    heap,       \* blocks allocated and not freed
    asked,      \* history: the long last accepted for each option
    lost,       \* history: blocks no handle leads to
    call        \* the last get_option: its arguments and its answer

vars == <<instance, result, heap, asked, lost, call>>

Options == [value : [Option -> Uint32], seed_set : BOOLEAN]

\* A result for n keys; its table holds data_size / sizeof(uint32_t) entries.
Built(n) == [key_count : {n}, table : [0..(2 * n - 1) -> Uint32],
             flags : SUBSET {"MINIMAL"}]

Call == [of : Instance, option : Option, buffer : Buffer,
         value : Uint32, answer : Answers(MaxWidth + 1)]

ASSUME AbsentAssumption ==
    /\ Dead \notin Options /\ \A n \in 0..MaxKeys : Dead \notin Built(n)
    /\ Idle \notin Call

Live(handles, state) == {h \in handles : state[h] # Dead}

TypeOK ==
    /\ instance \in [Instance -> Options \cup {Dead}]
    /\ DOMAIN result = Result
    /\ \A r \in Live(Result, result) :
            \E n \in 0..MaxKeys : result[r] \in Built(n)
    /\ heap \in Nat
    /\ asked \in [Instance -> [Option -> Int \cup {Unasked}]]
    /\ lost \in 0..MaxLost
    /\ call = Idle \/ call \in Call

Init ==
    /\ instance = [i \in Instance |-> Dead]
    /\ result = [r \in Result |-> Dead]
    /\ heap = 0
    /\ asked = [i \in Instance |-> [o \in Option |-> Unasked]]
    /\ lost = 0
    /\ call = Idle

-----------------------------------------------------------------------------
\* StdmethOptions as the constructor leaves it.
Defaults ==
    [value |-> [o \in Option |-> CASE o = "bucket_size" -> 4
                                   [] o = "max_iterations" -> 1000
                                   [] o = "seed" -> 0],
     seed_set |-> FALSE]

\* The handle and the options behind it are two blocks.
Create(i) ==
    /\ instance[i] = Dead
    /\ instance' = [instance EXCEPT ![i] = Defaults]
    /\ asked' = [asked EXCEPT ![i] = [o \in Option |-> Unasked]]
    /\ heap' = heap + 2
    /\ call' = Idle
    /\ UNCHANGED <<result, lost>>

\* The second `new` throws: the catch block answers OUT_OF_MEMORY and leaves
\* the first block behind.  (If the first one throws, nothing happens.)
CreateFails ==
    /\ lost < MaxLost
    /\ heap' = heap + 1
    /\ lost' = lost + 1
    /\ call' = Idle
    /\ UNCHANGED <<instance, result, asked>>

\* Defect: the options are not freed with the handle.
DestroyHandleOnly(i) ==
    /\ instance[i] # Dead
    /\ instance' = [instance EXCEPT ![i] = Dead]
    /\ heap' = heap - 1
    /\ call' = Idle
    /\ UNCHANGED <<result, asked, lost>>

Destroy(i) ==
    /\ instance[i] # Dead
    /\ instance' = [instance EXCEPT ![i] = Dead]
    /\ heap' = heap - 2
    /\ call' = Idle
    /\ UNCHANGED <<result, asked, lost>>

(***************************************************************************)
(* set_option tests the long, then casts it to uint32_t: a positive        *)
(* multiple of 2^32 becomes 0, and a seed of -1 becomes 2^32 - 1.  A text  *)
(* it refuses changes nothing.                                             *)
(***************************************************************************)
Takes(o, text) ==
    /\ Strtol[text] # NoNumber
    /\ o = "seed" \/ Strtol[text] > 0

\* Defect: the long is clamped, not cast.
SetOptionClamped(i, o, text) ==
    /\ instance[i] # Dead
    /\ Takes(o, text)
    /\ instance' = [instance EXCEPT
            ![i].value[o] = IF Strtol[text] \in Uint32
                            THEN Strtol[text] ELSE Modulus,
            ![i].seed_set = @ \/ o = "seed"]
    /\ asked' = [asked EXCEPT ![i][o] = Strtol[text]]
    /\ call' = Idle
    /\ UNCHANGED <<result, heap, lost>>

SetOption(i, o, text) ==
    /\ instance[i] # Dead
    /\ Takes(o, text)
    /\ instance' = [instance EXCEPT
            ![i].value[o] = Strtol[text] % Modulus,
            ![i].seed_set = @ \/ o = "seed"]
    /\ asked' = [asked EXCEPT ![i][o] = Strtol[text]]
    /\ call' = Idle
    /\ UNCHANGED <<result, heap, lost>>

GetOption(i, o, buffer) ==
    /\ instance[i] # Dead
    /\ LET value == instance[i].value[o]
       IN  call' = [of |-> i, option |-> o, buffer |-> buffer, value |-> value,
                    answer |-> Answer(buffer, Width[value])]
    /\ UNCHANGED <<instance, result, heap, asked, lost>>

-----------------------------------------------------------------------------
(***************************************************************************)
(* stdmeth_build.  The clock stands in for a seed nobody set, before       *)
(* anything can fail; seed_set stays false.  The table has twice as many   *)
(* entries as there are keys: entry i is i for each key, the rest is 0.    *)
(***************************************************************************)
\* Defect: the clock replaces a seed that was set.
ClockAlways(options, now) == [options EXCEPT !.value["seed"] = now % Modulus]

Seeded(options, now) ==
    IF options.seed_set THEN options
    ELSE [options EXCEPT !.value["seed"] = now % Modulus]

Table(n) == [e \in 0..(2 * n - 1) |-> IF e < n THEN e % Modulus ELSE 0]

\* The result and, unless it is empty, its table.
Blocks(n) == IF n = 0 THEN 1 ELSE 2

Build(i, r, n, now) ==
    /\ instance[i] # Dead /\ result[r] = Dead
    /\ instance' = [instance EXCEPT ![i] = Seeded(@, now)]
    /\ result' = [result EXCEPT ![r] =
            [key_count |-> n, table |-> Table(n), flags |-> {"MINIMAL"}]]
    /\ heap' = heap + Blocks(n)
    /\ call' = Idle
    /\ UNCHANGED <<asked, lost>>

\* No memory: for the result itself, or (only if there are keys) for its
\* table, and then the result is left behind.
BuildFails(i, n, now) ==
    /\ instance[i] # Dead
    /\ instance' = [instance EXCEPT ![i] = Seeded(@, now)]
    /\ \/ UNCHANGED <<heap, lost>>
       \/ /\ n > 0 /\ lost < MaxLost
          /\ heap' = heap + 1
          /\ lost' = lost + 1
    /\ call' = Idle
    /\ UNCHANGED <<result, asked>>

DestroyResult(r) ==
    /\ result[r] # Dead
    /\ result' = [result EXCEPT ![r] = Dead]
    /\ heap' = heap - Blocks(result[r].key_count)
    /\ call' = Idle
    /\ UNCHANGED <<instance, asked, lost>>

Next ==
    \/ CreateFails
    \/ \E i \in Instance :
        \/ Create(i) \/ Destroy(i)
        \/ \E o \in Option, text \in Text : SetOption(i, o, text)
        \/ \E o \in Option, buffer \in Buffer : GetOption(i, o, buffer)
        \/ \E n \in 0..MaxKeys, now \in Time :
            \/ \E r \in Result : Build(i, r, n, now)
            \/ BuildFails(i, n, now)
    \/ \E r \in Result : DestroyResult(r)

Spec == Init /\ [][Next]_vars

-----------------------------------------------------------------------------
(***************************************************************************)
(* An option keeps what its own instance was last asked for, through the   *)
(* builds and the calls on other instances in between: the low 32 bits of  *)
(* the number accepted, or the default.  A seed somebody set is never      *)
(* replaced by the clock (lines 196-199, 139-140).                         *)
(***************************************************************************)
OptionsAsAsked ==
    \A i \in Live(Instance, instance), o \in Option :
        IF asked[i][o] # Unasked
        THEN instance[i].value[o] = asked[i][o] % Modulus
        ELSE o = "seed" \/ instance[i].value[o] = Defaults.value[o]

(***************************************************************************)
(* The test `val <= 0` keeps zero out of bucket_size and max_iterations    *)
(* for every number of 32 bits: what gets past it as zero was a positive   *)
(* multiple of 2^32 (lines 115-119, 125-129).                              *)
(***************************************************************************)
ZeroOnlyByWrap ==
    \A i \in Live(Instance, instance), o \in Option \ {"seed"} :
        instance[i].value[o] = 0 => asked[i][o] >= Modulus

(***************************************************************************)
(* Every block is reached from a live handle, except those lost by a call  *)
(* that answered OUT_OF_MEMORY (lines 79-87 and 201-228).                  *)
(***************************************************************************)
BuiltWith(n) == {r \in Live(Result, result) : result[r].key_count = n}

HeapAccounted ==
    heap = lost + 2 * Cardinality(Live(Instance, instance))
                + 2 * Cardinality(Live(Result, result))
                - Cardinality(BuiltWith(0))

(***************************************************************************)
(* Whatever the caller's buffer, get_option writes no more than it holds,  *)
(* and what it writes is a whole C string (lines 169-183).                 *)
(***************************************************************************)
BufferRespected ==
    call # Idle =>
        /\ ~call.buffer.null => call.answer.written <= call.buffer.size
        /\ call.answer.written \in {0, Needed(Width[call.value])}

(***************************************************************************)
(* A caller that asks again at once with the size it was told gets the     *)
(* value (the contract on inout_size in nuperf-method.h).                  *)
(***************************************************************************)
AsksAgain ==
    /\ call # Idle /\ call.answer.written = 0
    /\ call' # Idle /\ call'.of = call.of /\ call'.option = call.option
    /\ ~call'.buffer.null /\ call'.buffer.size = call.answer.size

ToldSizeSuffices ==
    [][AsksAgain => /\ call'.answer.status = "OK"
                    /\ call'.answer.written = call.answer.size]_vars

(***************************************************************************)
(* As long as 32 bits can number the keys, no two keys have the same       *)
(* entry: the table is a perfect hash of the keys' positions (line 213).   *)
(***************************************************************************)
KeysDistinguished ==
    \A r \in Live(Result, result) :
        result[r].key_count <= Modulus =>
            \A e, f \in 0..(result[r].key_count - 1) :
                result[r].table[e] = result[r].table[f] => e = f

=============================================================================
