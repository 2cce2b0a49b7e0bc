---------------------------- MODULE StdmethProofs ---------------------------
(***************************************************************************)
(* Proofs about Stdmeth, for every word size, keyset bound, and set of     *)
(* handles and texts.                                                      *)
(***************************************************************************)
EXTENDS Stdmeth, FiniteSetTheorems, TLAPS

\* The cast to uint32_t lands in the type, and leaves alone what fits.
LEMMA CastRange ==
    \A a \in Int : a % Modulus \in Uint32 /\ (a \in Uint32 => a % Modulus = a)
<1> SUFFICES ASSUME NEW a \in Int
             PROVE  a % Modulus \in Uint32 /\ (a \in Uint32 => a % Modulus = a)
    OBVIOUS
<1>1. Modulus \in Int /\ Modulus > 0
    BY StdmethAssumption
<1>2. a % Modulus \in 0..(Modulus - 1)
    BY <1>1
<1>3. ASSUME a \in 0..(Modulus - 1)
      PROVE  a % Modulus = a
    BY <1>1, <1>3
<1> QED BY <1>2, <1>3 DEF Uint32

LEMMA ZeroCast ==
    \A a \in Int : a > 0 /\ a % Modulus = 0 => a >= Modulus
<1> SUFFICES ASSUME NEW a \in Int, a > 0, a < Modulus
             PROVE  a % Modulus # 0
    BY StdmethAssumption, SMTT(30)
<1>1. a \in Uint32
    BY StdmethAssumption DEF Uint32
<1>2. a % Modulus = a
    BY <1>1, CastRange, Zenon
<1> QED BY <1>2

LEMMA DefaultsTyped == Defaults \in Options
BY StdmethAssumption DEF Defaults, Options, Option, Uint32

LEMMA TableTyped ==
    ASSUME NEW n \in 0..MaxKeys
    PROVE  [key_count |-> n, table |-> Table(n), flags |-> {"MINIMAL"}]
                \in Built(n)
<1>1. Table(n) \in [0..(2 * n - 1) -> Uint32]
    <2>1. \A e \in 0..(2 * n - 1) : e % Modulus \in Uint32
        <3>1. \A e \in 0..(2 * n - 1) : e \in Int
            OBVIOUS
        <3> QED BY <3>1, CastRange
    <2>2. 0 \in Uint32
        BY StdmethAssumption DEF Uint32
    <2> QED BY <2>1, <2>2 DEF Table
<1> QED BY <1>1 DEF Built

LEMMA AnswerTyped ==
    ASSUME NEW buffer \in Buffer, NEW v \in Uint32
    PROVE  Answer(buffer, Width[v]) \in Answers(MaxWidth + 1)
BY StdmethAssumption DEF Answer, Answers, Needed, Buffers

-----------------------------------------------------------------------------
\* What a set_option that was accepted stores.
LEMMA TakenTyped ==
    ASSUME NEW o \in Option, NEW text \in Text, Takes(o, text)
    PROVE  /\ Strtol[text] \in Int
           /\ Strtol[text] % Modulus \in Uint32
           /\ o # "seed" => Strtol[text] > 0
<1>1. Strtol[text] \in Int
    BY StdmethAssumption DEF Takes
<1> QED BY <1>1, CastRange DEF Takes

LEMMA SeededTyped ==
    ASSUME NEW options \in Options, NEW now \in Time
    PROVE  /\ Seeded(options, now) \in Options
           /\ Seeded(options, now).seed_set = options.seed_set
           /\ \A o \in Option : o # "seed" \/ options.seed_set =>
                    Seeded(options, now).value[o] = options.value[o]
<1>1. now % Modulus \in Uint32
    BY CastRange, StdmethAssumption
<1> QED BY <1>1 DEF Seeded, Options, Option

\* The history of the accepted options agrees with seed_set and with the test.
Remembered ==
    \A i \in Live(Instance, instance) :
        /\ instance[i].seed_set <=> asked[i]["seed"] # Unasked
        /\ \A o \in Option \ {"seed"} :
                asked[i][o] # Unasked => asked[i][o] > 0

\* The part of the type the options depend on.
OptionsTyped ==
    /\ instance \in [Instance -> Options \cup {Dead}]
    /\ asked \in [Instance -> [Option -> Int \cup {Unasked}]]

OptionsInv == OptionsTyped /\ Remembered /\ OptionsAsAsked

LEMMA OptionsStep == OptionsInv /\ [Next]_vars => OptionsInv'
<1> SUFFICES ASSUME OptionsInv, [Next]_vars PROVE OptionsInv'
    OBVIOUS
<1> USE DEF OptionsInv
<1>1. ASSUME NEW i \in Instance, Create(i) PROVE OptionsInv'
    <2>1. Defaults \in Options
        BY DefaultsTyped
    <2>2. OptionsTyped'
        BY <1>1, <2>1 DEF Create, OptionsTyped
    <2>3. Defaults.seed_set = FALSE /\ Dead # Defaults
        BY <2>1, AbsentAssumption DEF Defaults
    <2>4. Remembered'
        BY <1>1, <2>3 DEF Create, OptionsTyped, Remembered, Live, Option
    <2>5. OptionsAsAsked'
        BY <1>1, <2>3 DEF Create, OptionsTyped, OptionsAsAsked, Live
    <2> QED BY <2>2, <2>4, <2>5
<1>2. ASSUME NEW i \in Instance, Destroy(i) PROVE OptionsInv'
    <2>1. OptionsTyped'
        BY <1>2 DEF Destroy, OptionsTyped
    <2>2. Remembered' /\ OptionsAsAsked'
        BY <1>2 DEF Destroy, OptionsTyped, Remembered, OptionsAsAsked, Live
    <2> QED BY <2>1, <2>2
<1>3. ASSUME NEW i \in Instance, NEW o \in Option, NEW text \in Text,
             SetOption(i, o, text)
      PROVE  OptionsInv'
    <2>1. /\ Strtol[text] \in Int /\ Strtol[text] % Modulus \in Uint32
          /\ o # "seed" => Strtol[text] > 0
        BY <1>3, TakenTyped DEF SetOption
    <2>2. Unasked # Strtol[text]
        BY <2>1, StdmethAssumption
    <2>3. instance[i] \in Options
        BY <1>3 DEF SetOption, OptionsTyped
    <2>4. OptionsTyped'
        <3>1. instance' \in [Instance -> Options \cup {Dead}]
            BY <1>3, <2>1, <2>3 DEF SetOption, OptionsTyped, Options
        <3>2. asked' \in [Instance -> [Option -> Int \cup {Unasked}]]
            BY <1>3, <2>1 DEF SetOption, OptionsTyped
        <3> QED BY <3>1, <3>2 DEF OptionsTyped
    <2>5. /\ instance'[i].seed_set = (instance[i].seed_set \/ o = "seed")
          /\ instance'[i].value = [instance[i].value EXCEPT
                                    ![o] = Strtol[text] % Modulus]
          /\ asked'[i] = [asked[i] EXCEPT ![o] = Strtol[text]]
          /\ \A j \in Instance \ {i} : /\ instance'[j] = instance[j]
                                      /\ asked'[j] = asked[j]
        BY <1>3, <2>3 DEF SetOption, OptionsTyped, Options
    <2>6. Remembered'
        <3>1. instance[i] # Dead
            BY <1>3 DEF SetOption
        <3>2. DOMAIN asked[i] = Option /\ "seed" \in Option
            BY DEF OptionsTyped, Option
        <3>3. ASSUME NEW j \in Instance, instance'[j] # Dead
              PROVE  instance'[j].seed_set <=> asked'[j]["seed"] # Unasked
            <4>1. CASE j = i /\ o = "seed"
                BY <2>2, <2>5, <3>2, <4>1
            <4>2. CASE j = i /\ o # "seed"
                BY <2>5, <3>1, <3>2, <4>2 DEF Remembered, Live
            <4>3. CASE j # i
                BY <2>5, <3>3, <4>3 DEF Remembered, Live
            <4> QED BY <4>1, <4>2, <4>3
        <3>4. ASSUME NEW j \in Instance, instance'[j] # Dead,
                     NEW p \in Option \ {"seed"}, asked'[j][p] # Unasked
              PROVE  asked'[j][p] > 0
            <4>1. CASE j = i /\ p = o
                BY <2>1, <2>5, <3>2, <4>1
            <4>2. CASE j = i /\ p # o
                BY <2>5, <3>1, <3>2, <3>4, <4>2 DEF Remembered, Live
            <4>3. CASE j # i
                BY <2>5, <3>4, <4>3 DEF Remembered, Live
            <4> QED BY <4>1, <4>2, <4>3
        <3> QED BY <3>3, <3>4 DEF Remembered, Live
    <2>7. OptionsAsAsked'
        BY <2>1, <2>2, <2>3, <2>5, <1>3
            DEF SetOption, OptionsTyped, OptionsAsAsked, Live, Options
    <2> QED BY <2>4, <2>6, <2>7
<1>4. ASSUME NEW i \in Instance, NEW now \in Time, instance[i] # Dead,
             instance' = [instance EXCEPT ![i] = Seeded(@, now)],
             UNCHANGED asked
      PROVE  OptionsInv'
    <2>1. instance[i] \in Options
        BY <1>4 DEF OptionsTyped
    <2>2. /\ Seeded(instance[i], now) \in Options
          /\ Seeded(instance[i], now).seed_set = instance[i].seed_set
          /\ \A o \in Option : o # "seed" \/ instance[i].seed_set =>
                Seeded(instance[i], now).value[o] = instance[i].value[o]
        BY <2>1, SeededTyped
    <2>3. /\ instance'[i] = Seeded(instance[i], now)
          /\ \A j \in Instance \ {i} : instance'[j] = instance[j]
        BY <1>4 DEF OptionsTyped
    <2>4. OptionsTyped'
        BY <1>4, <2>2 DEF OptionsTyped
    <2>5. Remembered'
        BY <1>4, <2>2, <2>3 DEF OptionsTyped, Remembered, Live
    <2>6. OptionsAsAsked'
        BY <1>4, <2>2, <2>3 DEF OptionsTyped, Remembered, OptionsAsAsked, Live
    <2> QED BY <2>4, <2>5, <2>6
<1>5. ASSUME UNCHANGED <<instance, asked>> PROVE OptionsInv'
    BY <1>5 DEF OptionsTyped, Remembered, OptionsAsAsked, Live
<1> QED
    BY <1>1, <1>2, <1>3, <1>4, <1>5
        DEF Next, CreateFails, GetOption, Build, BuildFails, DestroyResult, vars

(***************************************************************************)
(* An option keeps what its own instance was last asked for: the clock     *)
(* never replaces a seed somebody set (src/plugins/stdmeth.cpp:197).       *)
(***************************************************************************)
THEOREM OptionsKept == Spec => []OptionsAsAsked
<1>1. Init => OptionsInv
    BY DEF Init, OptionsInv, OptionsTyped, Remembered, OptionsAsAsked, Live
<1>2. OptionsInv => OptionsAsAsked
    BY DEF OptionsInv
<1> QED BY <1>1, <1>2, OptionsStep, PTL DEF Spec

(***************************************************************************)
(* A bucket_size or max_iterations of zero comes from a number of more     *)
(* than 32 bits only (src/plugins/stdmeth.cpp:113-131).                    *)
(***************************************************************************)
THEOREM ZeroComesFromWrap == Spec => []ZeroOnlyByWrap
<1>1. Init => OptionsInv
    BY DEF Init, OptionsInv, OptionsTyped, Remembered, OptionsAsAsked, Live
<1>2. OptionsInv => ZeroOnlyByWrap
    <2> SUFFICES ASSUME OptionsInv, NEW i \in Live(Instance, instance),
                        NEW o \in Option \ {"seed"},
                        instance[i].value[o] = 0
                 PROVE  asked[i][o] >= Modulus
        BY DEF ZeroOnlyByWrap
    <2>1. CASE asked[i][o] = Unasked
        BY <2>1 DEF OptionsInv, OptionsAsAsked, Defaults, Option
    <2>2. CASE asked[i][o] # Unasked
        <3>1. asked[i][o] \in Int
            BY <2>2 DEF OptionsInv, OptionsTyped, Live
        <3>2. asked[i][o] > 0 /\ asked[i][o] % Modulus = 0
            BY <2>2 DEF OptionsInv, Remembered, OptionsAsAsked
        <3> QED BY <3>1, <3>2, ZeroCast
    <2> QED BY <2>1, <2>2
<1> QED BY <1>1, <1>2, OptionsStep, PTL DEF Spec

-----------------------------------------------------------------------------
\* The rest of the type, and the count of the blocks.
ResultsTyped ==
    /\ DOMAIN result = Result
    /\ \A r \in Live(Result, result) :
            \E n \in 0..MaxKeys : result[r] \in Built(n)

Counted == lost \in 0..MaxLost /\ HeapAccounted

HeapInv == DOMAIN instance = Instance /\ ResultsTyped /\ Counted

\* Taking a handle into use, or out of it, moves the number of live ones by 1.
LEMMA CountIn ==
    ASSUME NEW S, IsFiniteSet(S), NEW h, h \notin S
    PROVE  /\ IsFiniteSet(S \cup {h})
           /\ Cardinality(S \cup {h}) = Cardinality(S) + 1
           /\ Cardinality(S) \in Nat
BY FS_AddElement, FS_CardinalityType

LEMMA LiveFinite ==
    /\ IsFiniteSet(Live(Instance, instance))
    /\ IsFiniteSet(Live(Result, result))
    /\ \A n : IsFiniteSet(BuiltWith(n))
BY StdmethAssumption, FS_Subset DEF Live, BuiltWith

\* The four counts HeapAccounted relates are natural numbers.
LEMMA CountsNat ==
    /\ Cardinality(Live(Instance, instance)) \in Nat
    /\ Cardinality(Live(Result, result)) \in Nat
    /\ Cardinality(BuiltWith(0)) \in Nat
BY LiveFinite, FS_CardinalityType

LEMMA HeapStep ==
    TypeOK /\ HeapInv /\ OptionsInv /\ [Next]_vars => HeapInv'
<1> SUFFICES ASSUME TypeOK, HeapInv, OptionsInv, [Next]_vars PROVE HeapInv'
    OBVIOUS
<1> DEFINE I == Live(Instance, instance)
           R == Live(Result, result)
           E == BuiltWith(0)
<1>0. /\ Cardinality(I) \in Nat /\ Cardinality(R) \in Nat
      /\ Cardinality(E) \in Nat
      /\ lost \in Nat
      /\ heap = lost + 2 * Cardinality(I) + 2 * Cardinality(R) - Cardinality(E)
    BY CountsNat, StdmethAssumption DEF HeapInv, Counted, HeapAccounted
<1>1. ASSUME NEW i \in Instance, Create(i) PROVE HeapInv'
    <2>1. Defaults # Dead
        BY DefaultsTyped, AbsentAssumption
    <2>2. I' = I \cup {i} /\ i \notin I
        BY <1>1, <2>1 DEF Create, Live, HeapInv
    <2>3. Cardinality(I') = Cardinality(I) + 1
        BY <2>2, LiveFinite, CountIn
    <2>4. R' = R /\ E' = E
        BY <1>1 DEF Create, Live, BuiltWith
    <2>5. DOMAIN instance' = Instance /\ ResultsTyped'
        BY <1>1 DEF Create, HeapInv, ResultsTyped, Live
    <2>6. heap' = lost' + 2 * Cardinality(I') + 2 * Cardinality(R')
                    - Cardinality(E')
        BY <1>0, <1>1, <2>3, <2>4 DEF Create
    <2> QED BY <1>1, <2>5, <2>6 DEF Create, HeapInv, Counted, HeapAccounted
<1>2. ASSUME CreateFails PROVE HeapInv'
    <2>1. I' = I /\ R' = R /\ E' = E /\ lost' \in 0..MaxLost
        BY <1>0, <1>2, StdmethAssumption DEF CreateFails, Live, BuiltWith
    <2>2. heap' = lost' + 2 * Cardinality(I') + 2 * Cardinality(R')
                    - Cardinality(E')
        BY <1>0, <1>2, <2>1 DEF CreateFails
    <2> QED BY <1>2, <2>1, <2>2
            DEF CreateFails, HeapInv, ResultsTyped, Live, Counted, HeapAccounted
<1>3. ASSUME NEW i \in Instance, Destroy(i) PROVE HeapInv'
    <2>1. I = I' \cup {i} /\ i \notin I' /\ I' \subseteq I
        BY <1>3 DEF Destroy, Live, HeapInv
    <2>2. IsFiniteSet(I')
        BY <2>1, LiveFinite, FS_Subset
    <2>3. Cardinality(I) = Cardinality(I') + 1 /\ Cardinality(I') \in Nat
        BY <2>1, <2>2, CountIn
    <2>4. R' = R /\ E' = E
        BY <1>3 DEF Destroy, Live, BuiltWith
    <2>5. DOMAIN instance' = Instance /\ ResultsTyped'
        BY <1>3 DEF Destroy, HeapInv, ResultsTyped, Live
    <2>6. heap' = lost' + 2 * Cardinality(I') + 2 * Cardinality(R')
                    - Cardinality(E')
        BY <1>0, <1>3, <2>3, <2>4 DEF Destroy
    <2> QED BY <1>3, <2>5, <2>6 DEF Destroy, HeapInv, Counted, HeapAccounted
<1>4. ASSUME NEW i \in Instance, NEW o \in Option, NEW text \in Text,
             SetOption(i, o, text)
      PROVE  HeapInv'
    <2>1. instance[i] \in Options
        BY <1>4 DEF SetOption, TypeOK
    <2>2. instance'[i] \in Options
        BY <1>4, <2>1, TakenTyped DEF SetOption, HeapInv, Options
    <2>3. instance'[i] # Dead
        BY <2>2, AbsentAssumption
    <2>4. I' = I /\ R' = R /\ E' = E
        BY <1>4, <2>3 DEF SetOption, Live, BuiltWith, HeapInv
    <2> QED BY <1>4, <2>4
            DEF SetOption, HeapInv, ResultsTyped, Live, Counted, HeapAccounted
<1>5. ASSUME NEW i \in Instance, NEW now \in Time, instance[i] # Dead,
             instance' = [instance EXCEPT ![i] = Seeded(@, now)]
      PROVE  I' = I /\ DOMAIN instance' = Instance
    <2>1. Seeded(instance[i], now) \in Options
        BY <1>5, SeededTyped DEF TypeOK
    <2>2. instance'[i] # Dead
        BY <1>5, <2>1, AbsentAssumption DEF HeapInv
    <2> QED BY <1>5, <2>2 DEF Live, HeapInv
<1>6. ASSUME NEW i \in Instance, NEW r \in Result, NEW n \in 0..MaxKeys,
             NEW now \in Time, Build(i, r, n, now)
      PROVE  HeapInv'
    <2> DEFINE built == [key_count |-> n, table |-> Table(n),
                         flags |-> {"MINIMAL"}]
    <2>1. built \in Built(n) /\ built # Dead /\ built.key_count = n
        BY TableTyped, AbsentAssumption
    <2>2. I' = I /\ DOMAIN instance' = Instance
        BY <1>5, <1>6 DEF Build
    <2>3. /\ result' = [result EXCEPT ![r] = built] /\ result[r] = Dead
          /\ DOMAIN result = Result
        BY <1>6 DEF Build, HeapInv, ResultsTyped
    <2> HIDE DEF built
    <2>4. R' = R \cup {r} /\ r \notin R
        BY <2>1, <2>3 DEF Live
    <2>5. Cardinality(R') = Cardinality(R) + 1
        BY <2>4, LiveFinite, CountIn
    <2>6. E' = (IF n = 0 THEN E \cup {r} ELSE E) /\ r \notin E
        BY <2>1, <2>3, <2>4 DEF BuiltWith, Live
    <2>7. Cardinality(E') = Cardinality(E) + (IF n = 0 THEN 1 ELSE 0)
        BY <1>0, <2>6, LiveFinite, CountIn
    <2>8. heap' = heap + Blocks(n) /\ lost' = lost
        BY <1>6 DEF Build
    <2>9. heap' = lost' + 2 * Cardinality(I') + 2 * Cardinality(R')
                    - Cardinality(E')
        BY <1>0, <2>2, <2>5, <2>7, <2>8 DEF Blocks
    <2>10. ResultsTyped'
        BY <2>1, <2>3 DEF ResultsTyped, HeapInv, Live
    <2> QED BY <2>2, <2>8, <2>9, <2>10 DEF HeapInv, Counted, HeapAccounted
<1>7. ASSUME NEW i \in Instance, NEW n \in 0..MaxKeys, NEW now \in Time,
             BuildFails(i, n, now)
      PROVE  HeapInv'
    <2>1. I' = I /\ DOMAIN instance' = Instance
        BY <1>5, <1>7 DEF BuildFails
    <2>2. R' = R /\ E' = E /\ ResultsTyped'
        BY <1>7 DEF BuildFails, Live, BuiltWith, ResultsTyped, HeapInv
    <2>3. /\ lost' \in 0..MaxLost
          /\ heap' = lost' + 2 * Cardinality(I') + 2 * Cardinality(R')
                    - Cardinality(E')
        BY <1>0, <1>7, <2>1, <2>2, StdmethAssumption
            DEF BuildFails, HeapInv, Counted
    <2> QED BY <2>1, <2>2, <2>3 DEF HeapInv, Counted, HeapAccounted
<1>8. ASSUME NEW r \in Result, DestroyResult(r) PROVE HeapInv'
    <2>1. PICK n \in 0..MaxKeys : result[r] \in Built(n)
        BY <1>8 DEF DestroyResult, HeapInv, ResultsTyped, Live
    <2>2. result[r].key_count = n
        BY <2>1 DEF Built
    <2>3. R = R' \cup {r} /\ r \notin R' /\ R' \subseteq R
        BY <1>8 DEF DestroyResult, Live, HeapInv, ResultsTyped
    <2>4. IsFiniteSet(R')
        BY <2>3, LiveFinite, FS_Subset
    <2>5. Cardinality(R) = Cardinality(R') + 1 /\ Cardinality(R') \in Nat
        BY <2>3, <2>4, CountIn
    <2>6. /\ E = (IF n = 0 THEN E' \cup {r} ELSE E')
          /\ r \notin E' /\ E' \subseteq E
        BY <1>8, <2>2, <2>3
            DEF DestroyResult, BuiltWith, Live, HeapInv, ResultsTyped
    <2>7. IsFiniteSet(E')
        BY <2>6, LiveFinite, FS_Subset
    <2>8. /\ Cardinality(E) = Cardinality(E') + (IF n = 0 THEN 1 ELSE 0)
          /\ Cardinality(E') \in Nat
        BY <2>6, <2>7, CountIn, FS_CardinalityType
    <2>9. /\ heap' = heap - Blocks(n) /\ lost' = lost
          /\ I' = I /\ instance' = instance
        BY <1>8, <2>2 DEF DestroyResult, Live
    <2>10. heap' = lost' + 2 * Cardinality(I') + 2 * Cardinality(R')
                    - Cardinality(E')
        BY <1>0, <2>5, <2>8, <2>9 DEF Blocks
    <2>11. ResultsTyped'
        BY <1>8 DEF DestroyResult, ResultsTyped, HeapInv, Live
    <2> QED BY <2>9, <2>10, <2>11 DEF HeapInv, Counted, HeapAccounted
<1>9. ASSUME UNCHANGED <<instance, result, heap, lost>> PROVE HeapInv'
    BY <1>9 DEF HeapInv, ResultsTyped, Counted, HeapAccounted, Live, BuiltWith
<1> QED
    BY <1>1, <1>2, <1>3, <1>4, <1>6, <1>7, <1>8, <1>9
        DEF Next, GetOption, vars

-----------------------------------------------------------------------------
StdmethInv == TypeOK /\ OptionsInv /\ HeapInv

LEMMA InvInit == Init => StdmethInv
<1> SUFFICES ASSUME Init PROVE StdmethInv
    OBVIOUS
<1>1. Live(Instance, instance) = {} /\ Live(Result, result) = {}
      /\ BuiltWith(0) = {}
    BY DEF Init, Live, BuiltWith
<1>2. OptionsInv
    BY <1>1 DEF Init, OptionsInv, OptionsTyped, Remembered, OptionsAsAsked
<1>3. Cardinality({}) = 0
    BY FS_EmptySet
<1>4. HeapInv
    <2>1. DOMAIN instance = Instance /\ ResultsTyped
        BY <1>1 DEF Init, ResultsTyped
    <2>2. heap = 0 /\ lost = 0 /\ lost \in 0..MaxLost
        BY StdmethAssumption DEF Init
    <2>3. HeapAccounted
        BY <1>1, <1>3, <2>2 DEF HeapAccounted
    <2> QED BY <2>1, <2>2, <2>3 DEF HeapInv, Counted
<1>5. TypeOK
    BY <1>1, StdmethAssumption DEF Init, TypeOK
<1> QED BY <1>2, <1>4, <1>5 DEF StdmethInv

LEMMA HeapNat == HeapInv => heap \in Nat
<1>1. BuiltWith(0) \subseteq Live(Result, result)
    BY DEF BuiltWith
<1>2. Cardinality(BuiltWith(0)) <= Cardinality(Live(Result, result))
    BY <1>1, LiveFinite, FS_Subset
<1> QED BY <1>2, CountsNat, StdmethAssumption
        DEF HeapInv, Counted, HeapAccounted

LEMMA InvStep == StdmethInv /\ [Next]_vars => StdmethInv'
<1> SUFFICES ASSUME StdmethInv, [Next]_vars PROVE StdmethInv'
    OBVIOUS
<1>1. OptionsInv'
    BY OptionsStep DEF StdmethInv
<1>2. HeapInv'
    BY HeapStep DEF StdmethInv
<1>3. heap' \in Nat
    <2>1. (HeapInv => heap \in Nat)'
        BY HeapNat, PTL
    <2> QED BY <1>2, <2>1
<1>4. call' = Idle \/ call' \in Call
    <2>1. ASSUME NEW i \in Instance, NEW o \in Option, NEW buffer \in Buffer,
                 GetOption(i, o, buffer)
          PROVE  call' \in Call
        <3>1. instance[i].value[o] \in Uint32
            BY <2>1 DEF GetOption, StdmethInv, TypeOK, Options
        <3> QED BY <2>1, <3>1, AnswerTyped DEF GetOption, Call
    <2> QED
        BY <2>1 DEF Next, Create, CreateFails, Destroy, SetOption, Build,
                    BuildFails, DestroyResult, StdmethInv, TypeOK, vars
<1>5. TypeOK'
    BY <1>1, <1>2, <1>3, <1>4
        DEF OptionsInv, OptionsTyped, HeapInv, ResultsTyped, Counted, TypeOK
<1> QED BY <1>1, <1>2, <1>5 DEF StdmethInv

THEOREM StdmethInvariant == Spec => []StdmethInv
BY InvInit, InvStep, PTL DEF Spec

(***************************************************************************)
(* Every variable of the plugin keeps its type: in particular no block is  *)
(* freed that was not allocated.                                           *)
(***************************************************************************)
THEOREM TypeCorrect == Spec => []TypeOK
BY StdmethInvariant, PTL DEF StdmethInv

(***************************************************************************)
(* Every block is reached from a live handle, or was lost by a call that   *)
(* ran out of memory (src/plugins/stdmeth.cpp:72-101, 186-238).            *)
(***************************************************************************)
THEOREM HeapBalances == Spec => []HeapAccounted
<1>1. StdmethInv => HeapAccounted
    BY DEF StdmethInv, HeapInv, Counted
<1> QED BY <1>1, StdmethInvariant, PTL

-----------------------------------------------------------------------------
\* A live result holds the table of its key count.
TablesBuilt ==
    \A r \in Live(Result, result) :
        /\ result[r].key_count \in Nat
        /\ result[r].table = Table(result[r].key_count)

LEMMA TablesStep == TypeOK /\ TablesBuilt /\ [Next]_vars => TablesBuilt'
<1> SUFFICES ASSUME TypeOK, TablesBuilt, [Next]_vars PROVE TablesBuilt'
    OBVIOUS
<1>1. ASSUME NEW i \in Instance, NEW r \in Result, NEW n \in 0..MaxKeys,
             NEW now \in Time, Build(i, r, n, now)
      PROVE  TablesBuilt'
    BY <1>1 DEF Build, TablesBuilt, Live, TypeOK
<1>2. ASSUME NEW r \in Result, DestroyResult(r) PROVE TablesBuilt'
    BY <1>2 DEF DestroyResult, TablesBuilt, Live, TypeOK
<1>3. ASSUME UNCHANGED result PROVE TablesBuilt'
    BY <1>3 DEF TablesBuilt, Live
<1> QED
    BY <1>1, <1>2, <1>3 DEF Next, Create, CreateFails, Destroy, SetOption,
                            GetOption, BuildFails, vars

(***************************************************************************)
(* As long as 32 bits number the keys, no two keys have the same entry     *)
(* (src/plugins/stdmeth.cpp:212-214).                                      *)
(***************************************************************************)
THEOREM KeysKeptApart == Spec => []KeysDistinguished
<1>1. Init => TablesBuilt
    BY DEF Init, TablesBuilt, Live
<1>2. TablesBuilt => KeysDistinguished
    <2> SUFFICES ASSUME TablesBuilt, NEW r \in Live(Result, result),
                        result[r].key_count <= Modulus,
                        NEW e \in 0..(result[r].key_count - 1),
                        NEW f \in 0..(result[r].key_count - 1),
                        result[r].table[e] = result[r].table[f]
                 PROVE  e = f
        BY DEF KeysDistinguished
    <2> DEFINE n == result[r].key_count
    <2>1. n \in Nat /\ result[r].table = Table(n)
        BY DEF TablesBuilt
    <2> HIDE DEF n
    <2>2. e \in 0..(n - 1) /\ f \in 0..(n - 1) /\ n <= Modulus
        BY DEF n
    <2>3. e \in Uint32 /\ f \in Uint32
        BY <2>1, <2>2, StdmethAssumption DEF Uint32
    <2>4. e \in 0..(2 * n - 1) /\ e < n /\ f \in 0..(2 * n - 1) /\ f < n
        BY <2>1, <2>2
    <2>5. Table(n)[e] = e % Modulus /\ Table(n)[f] = f % Modulus
        BY <2>4 DEF Table
    <2>6. e \in Int /\ f \in Int
        BY <2>2
    <2>7. e % Modulus = e /\ f % Modulus = f
        BY <2>3, <2>6, CastRange
    <2> QED BY <2>1, <2>5, <2>7
<1> QED BY <1>1, <1>2, TablesStep, TypeCorrect, PTL DEF Spec

-----------------------------------------------------------------------------
\* The last get_option answered for a live instance that still holds the value.
CallCurrent ==
    call # Idle =>
        /\ instance[call.of] # Dead
        /\ call.value = instance[call.of].value[call.option]
        /\ call.answer = Answer(call.buffer, Width[call.value])

LEMMA CallStep == CallCurrent /\ [Next]_vars => CallCurrent'
<1> SUFFICES ASSUME CallCurrent, [Next]_vars PROVE CallCurrent'
    OBVIOUS
<1>1. ASSUME NEW i \in Instance, NEW o \in Option, NEW buffer \in Buffer,
             GetOption(i, o, buffer)
      PROVE  CallCurrent'
    BY <1>1 DEF GetOption, CallCurrent
<1>2. ASSUME call' = Idle PROVE CallCurrent'
    BY <1>2 DEF CallCurrent
<1>3. ASSUME UNCHANGED vars PROVE CallCurrent'
    BY <1>3 DEF CallCurrent, vars
<1> QED
    BY <1>1, <1>2, <1>3 DEF Next, Create, CreateFails, Destroy, SetOption,
                            Build, BuildFails, DestroyResult

CallInv == StdmethInv /\ CallCurrent

THEOREM CallInvariant == Spec => []CallInv
<1>1. Init => CallCurrent
    BY DEF Init, CallCurrent
<1> QED BY <1>1, CallStep, StdmethInvariant, PTL DEF Spec, CallInv

(***************************************************************************)
(* get_option never writes more than the caller's buffer holds, and what   *)
(* it writes is the whole value (src/plugins/stdmeth.cpp:169-183).         *)
(***************************************************************************)
THEOREM BuffersRespected == Spec => []BufferRespected
<1>1. CallInv => BufferRespected
    <2> SUFFICES ASSUME CallInv, call # Idle
                 PROVE  /\ ~call.buffer.null =>
                                call.answer.written <= call.buffer.size
                        /\ call.answer.written \in {0, Needed(Width[call.value])}
        BY DEF BufferRespected
    <2>1. call \in Call
        BY DEF CallInv, StdmethInv, TypeOK
    <2>2. Width[call.value] \in Nat
        BY <2>1, StdmethAssumption DEF Call
    <2>3. call.buffer \in Buffers(MaxWidth + 1)
        BY <2>1, StdmethAssumption DEF Call
    <2> QED BY <2>2, <2>3, StdmethAssumption
            DEF CallInv, CallCurrent, Answer, Needed, Buffers
<1> QED BY <1>1, CallInvariant, PTL

(***************************************************************************)
(* A caller that asks again at once with the size it was told gets the     *)
(* value, whatever it is (src/plugins/stdmeth.cpp:169-183).                *)
(***************************************************************************)
THEOREM RetrySucceeds == Spec => ToldSizeSuffices
<1>1. CallInv /\ [Next]_vars =>
        [AsksAgain => /\ call'.answer.status = "OK"
                      /\ call'.answer.written = call.answer.size]_vars
    <2> SUFFICES ASSUME CallInv, NEW i \in Instance, NEW o \in Option,
                        NEW buffer \in Buffer, GetOption(i, o, buffer), AsksAgain
                 PROVE  /\ call'.answer.status = "OK"
                        /\ call'.answer.written = call.answer.size
        BY DEF Next, Create, CreateFails, Destroy, SetOption, Build,
               BuildFails, DestroyResult, AsksAgain, vars
    <2>1. call \in Call /\ call # Idle /\ call.of = i /\ call.option = o
          /\ call.value = instance[i].value[o]
        BY DEF CallInv, StdmethInv, TypeOK, CallCurrent, AsksAgain, GetOption
    <2>2. Width[call.value] \in Nat
        BY <2>1, StdmethAssumption DEF Call
    <2>3. call.answer.size = Needed(Width[call.value])
        BY <2>1 DEF CallInv, CallCurrent, Answer
    <2>4. /\ call'.answer = Answer(buffer, Width[call.value])
          /\ ~buffer.null /\ buffer.size = Needed(Width[call.value])
        BY <2>1, <2>3 DEF GetOption, AsksAgain
    <2> QED BY <2>2, <2>3, <2>4 DEF Answer, Needed
<1> QED BY <1>1, CallInvariant, PTL DEF Spec, ToldSizeSuffices

=============================================================================
