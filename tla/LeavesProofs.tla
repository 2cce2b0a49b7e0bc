---------------------------- MODULE LeavesProofs ----------------------------
(***************************************************************************)
(* Theorems about the components at the edge of the program (MCLeaves has  *)
(* their small instances): which object of a Lua script owns a handle,     *)
(* what read_file returns and write_file leaves in a file, which streams   *)
(* stay open, what becomes of the keys, names and options of a document,   *)
(* and what the method BBHash keeps, frees and answers; for any number of  *)
(* userdata, addresses and callers, any contents, any interleaving of      *)
(* steps, and documents of any size.                                       *)
(***************************************************************************)
EXTENDS LuaBindings, FileIO, SchemaIO, BBHash, PositionsProofs

(***************************************************************************)
(* Userdata holds a handle as long as it is there, and the temporary only  *)
(* until it is moved: without this an object could be made over one that   *)
(* still holds a handle.                                                   *)
(***************************************************************************)
Occupied ==
    /\ \A o \in Userdata : state[o] = "absent" <=> holds[o] = Null
    /\ call \in {"keyset", "table"} <=> holds[Temporary] # Null

LuaInv == TypeOK /\ HandlesOwnedOnce /\ Occupied

(***************************************************************************)
(* What the constructor and the destructor do to ownership, for any object *)
(* (lines 31-40, 123-132): an object that holds nothing may be given a new *)
(* handle, and any object may give its handle back.                        *)
(***************************************************************************)
LEMMA ConstructOwns ==
    ASSUME TypeOK, HandlesOwnedOnce, NEW o \in Object, holds[o] = Null,
           Construct(o)
    PROVE  /\ holds' \in [Object -> Handle \cup {Null}] /\ live' \subseteq Handle
           /\ table' \in [Handle -> [keyset : Handle \cup {Null}, built : BOOLEAN]]
           /\ holds'[o] # Null
           /\ \A p \in Object : p # o => holds'[p] = holds[p]
           /\ HandlesOwnedOnce'
<1>1. PICK h \in Handle \ live :
         /\ live' = live \cup {h}
         /\ holds' = [holds EXCEPT ![o] = h]
         /\ table' = [table EXCEPT ![h] = NewTable]
    BY DEF Construct
<1>2. /\ holds'[o] = h /\ h # Null
      /\ \A p \in Object : p # o => holds'[p] = holds[p]
    BY <1>1, LuaAssumption DEF TypeOK
<1>3. Holding' = Holding \cup {o} /\ o \notin Holding
    BY <1>1, <1>2 DEF Holding
<1>4. \A p \in Holding : holds'[p] = holds[p] /\ holds[p] \in live
    BY <1>2, <1>3 DEF HandlesOwnedOnce, Holding
<1>5. HandlesOwnedOnce'
    <2>1. ASSUME NEW p \in Holding', NEW q \in Holding', holds'[p] = holds'[q]
          PROVE  p = q
        BY <1>1, <1>2, <1>3, <1>4, <2>1 DEF HandlesOwnedOnce
    <2>2. live' = {holds'[p] : p \in Holding'}
        BY <1>1, <1>2, <1>3, <1>4 DEF HandlesOwnedOnce
    <2> QED
        BY <2>1, <2>2 DEF HandlesOwnedOnce
<1>6. NewTable \in [keyset : Handle \cup {Null}, built : BOOLEAN]
    BY DEF NewTable
<1> QED
    BY <1>1, <1>2, <1>5, <1>6 DEF TypeOK

LEMMA DestroyReleases ==
    ASSUME TypeOK, HandlesOwnedOnce, NEW o \in Object, Destroy(o)
    PROVE  /\ holds' \in [Object -> Handle \cup {Null}] /\ live' \subseteq Handle
           /\ holds'[o] = Null
           /\ \A p \in Object : p # o => holds'[p] = holds[p]
           /\ HandlesOwnedOnce'
<1>1. live' = live \ {holds[o]} /\ holds' = [holds EXCEPT ![o] = Null]
    BY DEF Destroy
<1>2. /\ holds'[o] = Null
      /\ \A p \in Object : p # o => holds'[p] = holds[p]
    BY <1>1 DEF TypeOK
<1>3. Holding' = Holding \ {o}
    BY <1>2 DEF Holding
<1>4. \A p \in Holding : holds[p] \in live
    BY DEF HandlesOwnedOnce
<1>5. ASSUME NEW p \in Holding', NEW q \in Holding', holds'[p] = holds'[q]
      PROVE  p = q
    BY <1>2, <1>3, <1>5 DEF HandlesOwnedOnce, Holding
<1>6. live' = {holds'[p] : p \in Holding'}
    BY <1>1, <1>2, <1>3, <1>4 DEF HandlesOwnedOnce, Holding
<1> QED
    BY <1>1, <1>2, <1>5, <1>6 DEF TypeOK, HandlesOwnedOnce

LEMMA LuaInit == Init => LuaInv
BY LuaAssumption DEF Init, LuaInv, TypeOK, HandlesOwnedOnce, Holding, Occupied, NewTable,
   Object, Userdata

LEMMA LuaStep == LuaInv /\ [Next]_vars => LuaInv'
<1> SUFFICES ASSUME LuaInv, [Next]_vars PROVE LuaInv'
    OBVIOUS
<1>a. /\ TypeOK /\ HandlesOwnedOnce /\ Occupied
      /\ Temporary \in Object /\ Userdata \subseteq Object
      /\ \A o \in Userdata : o # Temporary
    BY LuaAssumption DEF LuaInv, Object, Userdata
<1>1. ASSUME NEW o \in Userdata, New(o) PROVE LuaInv'
    <2>1. /\ Construct(o) /\ holds[o] = Null
          /\ state' = [state EXCEPT ![o] = "reachable"]
          /\ UNCHANGED <<running, call>>
        BY <1>1, <1>a DEF New, Occupied
    <2>2. /\ HandlesOwnedOnce' /\ holds'[o] # Null
          /\ \A p \in Object : p # o => holds'[p] = holds[p]
        BY <2>1, <1>a, ConstructOwns
    <2>3. TypeOK'
        BY <2>1, <1>a, ConstructOwns DEF TypeOK
    <2>4. Occupied'
        BY <2>1, <2>2, <1>a DEF Occupied, TypeOK
    <2> QED
        BY <2>2, <2>3, <2>4 DEF LuaInv
<1>2. ASSUME NEW kind \in {"keyset", "table"}, MakeTemporary(kind) PROVE LuaInv'
    <2>1. /\ Construct(Temporary) /\ holds[Temporary] = Null
          /\ call' = kind /\ UNCHANGED <<running, state>>
        BY <1>2, <1>a DEF MakeTemporary, InScript, Occupied
    <2>2. /\ HandlesOwnedOnce' /\ holds'[Temporary] # Null
          /\ \A p \in Object : p # Temporary => holds'[p] = holds[p]
        BY <2>1, <1>a, ConstructOwns
    <2>3. TypeOK'
        BY <2>1, <1>a, ConstructOwns DEF TypeOK
    <2>4. Occupied'
        BY <2>1, <2>2, <1>a DEF Occupied
    <2> QED
        BY <2>2, <2>3, <2>4 DEF LuaInv
<1>3. ASSUME NEW o \in Userdata, Move(o) PROVE LuaInv'
    <2>1. /\ call \in {"keyset", "table"} /\ state[o] = "absent"
          /\ holds' = [holds EXCEPT ![o] = holds[Temporary], ![Temporary] = Null]
          /\ state' = [state EXCEPT ![o] = "reachable"]
          /\ call' = "moved" /\ UNCHANGED <<running, live, table>>
        BY <1>3 DEF Move
    <2>2. /\ holds[Temporary] # Null /\ holds[o] = Null
          /\ holds'[o] = holds[Temporary] /\ holds'[Temporary] = Null
          /\ \A p \in Object \ {o, Temporary} : holds'[p] = holds[p]
        BY <2>1, <1>a DEF Occupied, TypeOK
    <2>3. TypeOK'
        BY <2>1, <1>a DEF TypeOK
    <2>4. HandlesOwnedOnce'
        <3>1. /\ Temporary \in Holding /\ o \notin Holding
              /\ Holding' = (Holding \ {Temporary}) \cup {o}
            BY <2>2, <1>a DEF Holding
        <3>2. \A p \in Holding \ {Temporary} : holds'[p] = holds[p]
            BY <2>2, <3>1 DEF Holding
        <3>3. ASSUME NEW p \in Holding', NEW q \in Holding', holds'[p] = holds'[q]
              PROVE  p = q
            BY <1>a, <2>2, <3>1, <3>2, <3>3 DEF HandlesOwnedOnce
        <3>4. live' = {holds'[p] : p \in Holding'}
            <4>1. live' = {holds[p] : p \in Holding}
                BY <1>a, <2>1 DEF HandlesOwnedOnce
            <4>2. ASSUME NEW p \in Holding PROVE \E q \in Holding' : holds'[q] = holds[p]
                <5>1. CASE p = Temporary
                    BY <5>1, <2>2, <3>1
                <5>2. CASE p # Temporary
                    BY <5>2, <3>1, <3>2
                <5> QED
                    BY <5>1, <5>2
            <4>3. ASSUME NEW q \in Holding' PROVE \E p \in Holding : holds'[q] = holds[p]
                BY <4>3, <2>2, <3>1, <3>2
            <4> QED
                BY <4>1, <4>2, <4>3
        <3> QED
            BY <3>3, <3>4 DEF HandlesOwnedOnce
    <2>5. Occupied'
        BY <2>1, <2>2, <1>a DEF Occupied, TypeOK
    <2> QED
        BY <2>3, <2>4, <2>5 DEF LuaInv
<1>4. ASSUME DestroyTemporary PROVE LuaInv'
    <2>1. /\ Destroy(Temporary) /\ call' = "none"
          /\ UNCHANGED <<running, state, table>>
        BY <1>4 DEF DestroyTemporary
    <2>2. /\ HandlesOwnedOnce' /\ holds'[Temporary] = Null
          /\ \A p \in Object : p # Temporary => holds'[p] = holds[p]
        BY <2>1, <1>a, DestroyReleases
    <2>3. TypeOK'
        BY <2>1, <1>a, DestroyReleases DEF TypeOK
    <2>4. Occupied'
        BY <2>1, <2>2, <1>a DEF Occupied
    <2> QED
        BY <2>2, <2>3, <2>4 DEF LuaInv
<1>5. ASSUME NEW o \in Userdata, Forget(o) PROVE LuaInv'
    BY <1>5, <1>a DEF Forget, LuaInv, TypeOK, HandlesOwnedOnce, Holding, Occupied
<1>6. ASSUME NEW o \in Userdata, Collect(o) PROVE LuaInv'
    <2>1. /\ Destroy(o) /\ state' = [state EXCEPT ![o] = "absent"]
          /\ UNCHANGED <<running, call, table>>
        BY <1>6 DEF Collect
    <2>2. /\ HandlesOwnedOnce' /\ holds'[o] = Null
          /\ \A p \in Object : p # o => holds'[p] = holds[p]
        BY <2>1, <1>a, DestroyReleases
    <2>3. TypeOK'
        BY <2>1, <1>a, DestroyReleases DEF TypeOK
    <2>4. Occupied'
        BY <2>1, <2>2, <1>a DEF Occupied, TypeOK
    <2> QED
        BY <2>2, <2>3, <2>4 DEF LuaInv
<1>7. ASSUME Close PROVE LuaInv'
    <2>1. TypeOK'
        BY <1>7, <1>a DEF Close, TypeOK
    <2>2. HandlesOwnedOnce'
        BY <1>7, <1>a DEF Close, HandlesOwnedOnce, Holding
    <2>3. Occupied'
        BY <1>7, <1>a DEF Close, Occupied
    <2> QED
        BY <2>1, <2>2, <2>3 DEF LuaInv
<1>8. ASSUME NEW t \in Table, NEW k \in Keyset, Build(t, k) \/ BuildFails(t, k)
      PROVE  LuaInv'
    <2>1. UNCHANGED <<running, call, state, holds, live>>
        BY <1>8 DEF Build, BuildFails
    <2>2. holds[k] \in Handle \cup {Null}
        BY <1>a DEF TypeOK, Userdata
    <2>3. TypeOK'
        BY <1>8, <1>a, <2>1, <2>2 DEF Build, BuildFails, WithKeyset, TypeOK
    <2> QED
        BY <1>a, <2>1, <2>3 DEF LuaInv, HandlesOwnedOnce, Holding, Occupied
<1>9. ASSUME UNCHANGED vars PROVE LuaInv'
    BY <1>9, <1>a DEF vars, LuaInv, TypeOK, HandlesOwnedOnce, Holding, Occupied
<1> QED
    BY <1>1, <1>2, <1>3, <1>4, <1>5, <1>6, <1>7, <1>8, <1>9 DEF Next

(***************************************************************************)
(* In every order of calls and collections, every handle of the core is    *)
(* owned by one object and destroyed once (lines 31-47, 123-139).          *)
(***************************************************************************)
THEOREM OwnedOnce == Spec => []HandlesOwnedOnce
<1>1. LuaInv => HandlesOwnedOnce
    BY DEF LuaInv
<1> QED
    BY <1>1, LuaInit, LuaStep, PTL DEF Spec

(***************************************************************************)
(* The variables keep their types: what an object holds is an address.     *)
(***************************************************************************)
THEOREM LuaTypeCorrect == Spec => []TypeOK
<1>1. LuaInv => TypeOK
    BY DEF LuaInv
<1> QED
    BY <1>1, LuaInit, LuaStep, PTL DEF Spec

(***************************************************************************)
(* A table is built from a keyset the script still holds (lines 181-184).  *)
(***************************************************************************)
THEOREM BuildsFromHeldKeyset == Spec => BuiltFromHeldKeyset
<1> DEFINE Step == \A h \in live : table'[h].built /\ ~table[h].built
                                        => table'[h].keyset \in Held
<1>1. LuaInv /\ [Next]_vars => [Step]_vars
    <2> SUFFICES ASSUME LuaInv, Next PROVE Step
        OBVIOUS
    <2> SUFFICES ASSUME NEW h \in live, table'[h].built, ~table[h].built
                 PROVE  table'[h].keyset \in Held
        OBVIOUS
    <2>a. h \in Handle /\ table[h].built \in BOOLEAN
          /\ table \in [Handle -> [keyset : Handle \cup {Null}, built : BOOLEAN]]
        BY DEF LuaInv, TypeOK
    <2>1. table'[h] # table[h]
        OBVIOUS
    <2>2. ASSUME NEW o \in Object, Construct(o) PROVE FALSE
        BY <2>2, <2>1, <2>a DEF Construct
    <2>3. ASSUME NEW t \in Table, NEW k \in Keyset, Build(t, k) \/ BuildFails(t, k)
          PROVE  table'[h].keyset \in Held
        <3>1. table' = WithKeyset(t, k)
              \/ table' = [WithKeyset(t, k) EXCEPT ![holds[t]].built = TRUE]
            BY <2>3 DEF Build, BuildFails
        <3>2. h = holds[t] /\ table'[h].keyset = holds[k]
            BY <3>1, <2>1, <2>a DEF WithKeyset
        <3> QED
            BY <2>3, <3>2 DEF Held, Build, BuildFails
    <2>4. Userdata \subseteq Object /\ Temporary \in Object
        BY DEF Object
    <2>5. (\E o \in Object : Construct(o)) \/ table' = table
          \/ \E t \in Table, k \in Keyset : Build(t, k) \/ BuildFails(t, k)
        BY <2>4 DEF Next, New, Move, Forget, Collect, MakeTemporary,
           DestroyTemporary, Close
    <2> QED
        BY <2>1, <2>2, <2>3, <2>5
<1> QED
    BY <1>1, LuaInit, LuaStep, PTL DEF Spec, BuiltFromHeldKeyset

-----------------------------------------------------------------------------
USE FileAssumption

\* What the step of a caller says about its function, the file and its buffer.
Roles ==
    \A c \in Caller :
        /\ step[c] \in {"opened", "measured", "reading", "writing", "closing"}
            => file \in Seq(Byte)
        /\ step[c] = "opened" => op[c] \in {"size", "read"}
        /\ step[c] \in {"measured", "reading"}
            => op[c] = "read" /\ measured[c] \in Seq(Byte)
        /\ step[c] \in {"writing", "closing"} => op[c] = "write"
        /\ step[c] \in {"called", "opened", "measured"} => buffer[c] = <<>>

Typed == FilesTypeOK /\ Roles

LEMMA TypedInit == FilesInit => Typed
BY EmptySeq DEF FilesInit, Typed, FilesTypeOK, Roles, Steps, Finished

\* Writing a byte leaves a sequence of bytes, as long as the longer of the two.
LEMMA WithByteTyped ==
    ASSUME file \in Seq(Byte), NEW n \in Nat \ {0}, NEW b \in Byte
    PROVE  /\ WithByte(n, b) \in Seq(Byte)
           /\ Len(WithByte(n, b)) = IF n > Len(file) THEN n ELSE Len(file)
           /\ \A i \in 1..Len(WithByte(n, b)) :
                WithByte(n, b)[i] = IF i = n THEN b
                                    ELSE IF i <= Len(file) THEN file[i] ELSE Hole
<1> DEFINE m == IF n > Len(file) THEN n ELSE Len(file)
<1>1. m \in Nat
  BY LenProperties
<1>2. WithByte(n, b) = [i \in 1..m |-> IF i = n THEN b
                          ELSE IF i <= Len(file) THEN file[i] ELSE Hole]
  BY DEF WithByte
<1>3. \A i \in 1..m : i <= Len(file) => file[i] \in Byte
  BY ElementOfSeq, <1>1, LenProperties
<1>4. WithByte(n, b) \in [1..m -> Byte]
  BY <1>2, <1>3
<1> HIDE DEF m
<1>5. WithByte(n, b) \in Seq(Byte) /\ Len(WithByte(n, b)) = m
  BY <1>1, <1>4, IsASeq, LenProperties
<1> QED
  BY <1>2, <1>5 DEF m

LEMMA TypedStep == Typed /\ [FilesNext]_fileVars => Typed'
<1> SUFFICES ASSUME Typed, [FilesNext]_fileVars PROVE Typed'
  OBVIOUS
<1> USE DEF Typed, FilesTypeOK, Roles, Steps, Finished, At, Goto, CloseAnd, history
<1>1. ASSUME NEW c \in Caller, OpenRead(c) PROVE Typed'
  BY <1>1 DEF OpenRead
<1>2. ASSUME NEW c \in Caller, OpenFails(c) PROVE Typed'
  BY <1>2 DEF OpenFails
<1>3. ASSUME NEW c \in Caller, Measure(c) PROVE Typed'
  BY <1>3 DEF Measure
<1>4. ASSUME NEW c \in Caller, SeekFails(c) PROVE Typed'
  BY <1>4 DEF SeekFails
<1>5. ASSUME NEW c \in Caller, Rewind(c) PROVE Typed'
  BY <1>5 DEF Rewind
<1>6. ASSUME NEW c \in Caller, AllocThrows(c) PROVE Typed'
  BY <1>6 DEF AllocThrows
<1>7. ASSUME NEW c \in Caller, ReadByte(c) PROVE Typed'
  <2>1. file[Len(buffer[c]) + 1] \in Byte
    BY <1>7, ElementOfSeq, LenProperties DEF ReadByte
  <2>2. Append(buffer[c], file[Len(buffer[c]) + 1]) \in Seq(Byte)
    BY <2>1, AppendProperties
  <2> QED
    BY <1>7, <2>2 DEF ReadByte
<1>8. ASSUME NEW c \in Caller, ReadShort(c) PROVE Typed'
  BY <1>8 DEF ReadShort
<1>9. ASSUME NEW c \in Caller, ReadAll(c) PROVE Typed'
  BY <1>9 DEF ReadAll
<1>10. ASSUME NEW c \in Caller, OpenWrite(c) PROVE Typed'
  <2>1. Disturbs(c, 1) \subseteq Caller
    BY DEF Disturbs
  <2> QED
    BY <1>10, <2>1, EmptySeq DEF OpenWrite
<1>11. ASSUME NEW c \in Caller, WriteByte(c) PROVE Typed'
  <2> DEFINE n == Len(buffer[c]) + 1
  <2>1. n \in Nat \ {0} /\ data[c] \in Seq(Byte) /\ file \in Seq(Byte)
    BY <1>11, LenProperties DEF WriteByte
  <2>2. data[c][n] \in Byte
    BY <1>11, <2>1, ElementOfSeq, LenProperties DEF WriteByte
  <2>3. Append(buffer[c], data[c][n]) \in Seq(Byte)
    BY <2>2, AppendProperties
  <2>4. WithByte(n, data[c][n]) \in Seq(Byte)
    BY <2>1, <2>2, WithByteTyped
  <2>5. Disturbs(c, n) \subseteq Caller
    BY DEF Disturbs
  <2>6. /\ file' \in Seq(Byte)
        /\ buffer' = [buffer EXCEPT ![c] = Append(buffer[c], data[c][n])]
        /\ disturbed' \subseteq Caller
        /\ step[c] \in {"writing", "closing"}
        /\ UNCHANGED <<op, data, step, stream, measured, unflushed>>
    BY <1>11, <2>4, <2>5 DEF WriteByte
  <2> HIDE DEF n
  <2> QED
    BY <2>3, <2>6
<1>12. ASSUME NEW c \in Caller, WriteReturns(c) PROVE Typed'
  BY <1>12 DEF WriteReturns
<1>13. ASSUME NEW c \in Caller, WriteShort(c) PROVE Typed'
  BY <1>13 DEF WriteShort
<1>14. ASSUME NEW c \in Caller, CloseWrite(c) PROVE Typed'
  BY <1>14 DEF CloseWrite
<1>15. CASE UNCHANGED fileVars
  BY <1>15 DEF fileVars
<1> QED
  BY <1>1, <1>2, <1>3, <1>4, <1>5, <1>6, <1>7, <1>8, <1>9, <1>10, <1>11,
     <1>12, <1>13, <1>14, <1>15 DEF FilesNext

LEMMA TypedAlways == FilesSpec => []Typed
BY TypedInit, TypedStep, PTL DEF FilesSpec

\* Every variable of the file utilities keeps its type.
THEOREM FilesTypeCorrect == FilesSpec => []FilesTypeOK
<1>1. Typed => FilesTypeOK
  BY DEF Typed
<1> QED
  BY <1>1, TypedAlways, PTL

-----------------------------------------------------------------------------
\* A stream is held between fopen and fclose, or for ever after a bad_alloc.
StreamInv ==
    \A c \in stream :
        step[c] \in {"opened", "measured", "reading", "writing", "closing",
                     "bad_alloc"}

LEMMA StreamStep == Typed /\ StreamInv /\ [FilesNext]_fileVars => StreamInv'
<1> SUFFICES ASSUME Typed, StreamInv, [FilesNext]_fileVars PROVE StreamInv'
  OBVIOUS
<1> USE DEF Typed, FilesTypeOK, StreamInv, Finished, At, Goto, CloseAnd
<1>1. ASSUME NEW c \in Caller,
             OpenRead(c) \/ OpenFails(c) \/ OpenWrite(c)
      PROVE  StreamInv'
  BY <1>1 DEF OpenRead, OpenFails, OpenWrite
<1>2. ASSUME NEW c \in Caller,
             Measure(c) \/ SeekFails(c) \/ Rewind(c) \/ AllocThrows(c)
      PROVE  StreamInv'
  BY <1>2 DEF Measure, SeekFails, Rewind, AllocThrows
<1>3. ASSUME NEW c \in Caller,
             ReadByte(c) \/ ReadShort(c) \/ ReadAll(c)
      PROVE  StreamInv'
  BY <1>3 DEF ReadByte, ReadShort, ReadAll
<1>4. ASSUME NEW c \in Caller,
             WriteByte(c) \/ WriteReturns(c) \/ WriteShort(c) \/ CloseWrite(c)
      PROVE  StreamInv'
  BY <1>4 DEF WriteByte, WriteReturns, WriteShort, CloseWrite
<1>5. CASE UNCHANGED fileVars
  BY <1>5 DEF fileVars
<1> QED
  BY <1>1, <1>2, <1>3, <1>4, <1>5 DEF FilesNext

(***************************************************************************)
(* Only a read_file that found no memory for its vector leaves a stream    *)
(* open behind it.                                                         *)
(***************************************************************************)
THEOREM StreamsAreClosed == FilesSpec => []StreamsClosed
<1>1. FilesInit => StreamInv
  BY DEF FilesInit, StreamInv
<1>2. StreamInv => StreamsClosed
  BY DEF StreamInv, StreamsClosed, Finished
<1> QED
  BY <1>1, <1>2, StreamStep, TypedAlways, PTL DEF FilesSpec

-----------------------------------------------------------------------------
(***************************************************************************)
(* A reader nobody disturbed still finds in the file what it measured, and *)
(* has read the beginning of it.                                           *)
(***************************************************************************)
StillMeasured(c) ==
    /\ Len(measured[c]) <= Len(file)
    /\ \A i \in 1..Len(measured[c]) : file[i] = measured[c][i]

BeginningRead(c) ==
    /\ Len(buffer[c]) <= Len(measured[c])
    /\ \A i \in 1..Len(buffer[c]) : buffer[c][i] = measured[c][i]

ReadInv ==
    \A c \in Caller \ disturbed :
        op[c] = "read" =>
            /\ step[c] \in {"measured", "reading"} =>
                StillMeasured(c) /\ BeginningRead(c)
            /\ step[c] = "returned" => buffer[c] = measured[c]

\* A step that leaves the file, and a reader's own variables, alone.
LEMMA ReaderLeftAlone ==
    ASSUME ReadInv, NEW c \in Caller, c \notin disturbed,
           op'[c] = op[c], step'[c] = step[c], buffer'[c] = buffer[c],
           measured'[c] = measured[c], file' = file
    PROVE  op'[c] = "read" =>
            /\ step'[c] \in {"measured", "reading"} =>
                StillMeasured(c)' /\ BeginningRead(c)'
            /\ step'[c] = "returned" => buffer'[c] = measured'[c]
BY DEF ReadInv, StillMeasured, BeginningRead

LEMMA ReadStep == Typed /\ ReadInv /\ [FilesNext]_fileVars => ReadInv'
<1> SUFFICES ASSUME Typed, ReadInv, [FilesNext]_fileVars,
                    NEW d \in Caller, d \notin disturbed', op'[d] = "read"
             PROVE  /\ step'[d] \in {"measured", "reading"} =>
                        StillMeasured(d)' /\ BeginningRead(d)'
                    /\ step'[d] = "returned" => buffer'[d] = measured'[d]
  BY DEF ReadInv
<1> USE DEF Typed, FilesTypeOK, Roles, At, Goto, CloseAnd, history
<1>1. ASSUME NEW c \in Caller,
             OpenRead(c) \/ OpenFails(c) \/ SeekFails(c) \/ AllocThrows(c)
                \/ ReadShort(c) \/ WriteReturns(c) \/ WriteShort(c)
                \/ CloseWrite(c)
      PROVE  /\ step'[d] \in {"measured", "reading"} =>
                    StillMeasured(d)' /\ BeginningRead(d)'
             /\ step'[d] = "returned" => buffer'[d] = measured'[d]
  <2>1. /\ d \notin disturbed /\ op' = op /\ file' = file
        /\ buffer' = buffer /\ measured' = measured
    BY <1>1 DEF OpenRead, OpenFails, SeekFails, AllocThrows, ReadShort,
                WriteReturns, WriteShort, CloseWrite
  <2>2. step'[d] = step[d] \/ step'[d] \notin {"measured", "reading", "returned"}
    BY <1>1 DEF OpenRead, OpenFails, SeekFails, AllocThrows, ReadShort,
                WriteReturns, WriteShort, CloseWrite
  <2> QED
    BY <2>1, <2>2, ReaderLeftAlone
<1>2. ASSUME NEW c \in Caller, Measure(c)
      PROVE  /\ step'[d] \in {"measured", "reading"} =>
                    StillMeasured(d)' /\ BeginningRead(d)'
             /\ step'[d] = "returned" => buffer'[d] = measured'[d]
  <2>1. CASE d # c
    BY <1>2, <2>1, ReaderLeftAlone DEF Measure
  <2>2. CASE d = c
    <3>1. /\ step'[d] = "measured" /\ file' = file /\ measured'[d] = file
          /\ buffer'[d] = <<>> /\ file \in Seq(Byte)
      BY <1>2, <2>2 DEF Measure
    <3> QED
      BY <3>1, LenProperties, EmptySeq DEF StillMeasured, BeginningRead
  <2> QED
    BY <2>1, <2>2
<1>3. ASSUME NEW c \in Caller, Rewind(c)
      PROVE  /\ step'[d] \in {"measured", "reading"} =>
                    StillMeasured(d)' /\ BeginningRead(d)'
             /\ step'[d] = "returned" => buffer'[d] = measured'[d]
  BY <1>3 DEF Rewind, ReadInv, StillMeasured, BeginningRead
<1>4. ASSUME NEW c \in Caller, ReadByte(c)
      PROVE  /\ step'[d] \in {"measured", "reading"} =>
                    StillMeasured(d)' /\ BeginningRead(d)'
             /\ step'[d] = "returned" => buffer'[d] = measured'[d]
  <2>1. CASE d # c
    BY <1>4, <2>1, ReaderLeftAlone DEF ReadByte
  <2>2. CASE d = c
    <3> DEFINE n == Len(buffer[d])
    <3>1. /\ StillMeasured(d) /\ BeginningRead(d) /\ n + 1 <= Len(measured[d])
          /\ n \in Nat
          /\ step'[d] = "reading" /\ file' = file /\ measured' = measured
          /\ buffer[d] \in Seq(Byte) /\ measured[d] \in Seq(Byte)
          /\ buffer'[d] = Append(buffer[d], file[n + 1])
      BY <1>4, <2>2, LenProperties DEF ReadByte, ReadInv
    <3>2. file[n + 1] = measured[d][n + 1]
      <4>1. n + 1 \in 1..Len(measured[d])
        BY <3>1, LenProperties
      <4> QED
        BY <3>1, <4>1 DEF StillMeasured
    <3>3. file[n + 1] \in Byte
      BY <3>1, <3>2, ElementOfSeq, LenProperties
    <3>4. /\ Len(buffer'[d]) = n + 1
          /\ \A i \in 1..n : buffer'[d][i] = buffer[d][i]
          /\ buffer'[d][n + 1] = file[n + 1]
      BY <3>1, <3>3, AppendProperties
    <3>5. BeginningRead(d)'
      BY <3>1, <3>2, <3>4, LenProperties DEF BeginningRead
    <3> QED
      BY <3>1, <3>5 DEF StillMeasured
  <2> QED
    BY <2>1, <2>2
<1>5. ASSUME NEW c \in Caller, ReadAll(c)
      PROVE  /\ step'[d] \in {"measured", "reading"} =>
                    StillMeasured(d)' /\ BeginningRead(d)'
             /\ step'[d] = "returned" => buffer'[d] = measured'[d]
  <2>1. CASE d # c
    BY <1>5, <2>1, ReaderLeftAlone DEF ReadAll
  <2>2. CASE d = c
    <3>1. /\ BeginningRead(d) /\ Len(buffer[d]) = Len(measured[d])
          /\ step'[d] = "returned" /\ buffer' = buffer /\ measured' = measured
          /\ buffer[d] \in Seq(Byte) /\ measured[d] \in Seq(Byte)
      BY <1>5, <2>2 DEF ReadAll, ReadInv
    <3>2. buffer[d] = measured[d]
      BY <3>1, SeqEqual DEF BeginningRead
    <3> QED
      BY <3>1, <3>2
  <2> QED
    BY <2>1, <2>2
<1>6. ASSUME NEW c \in Caller, OpenWrite(c)
      PROVE  /\ step'[d] \in {"measured", "reading"} =>
                    StillMeasured(d)' /\ BeginningRead(d)'
             /\ step'[d] = "returned" => buffer'[d] = measured'[d]
  <2>1. /\ d # c /\ step'[d] = step[d] /\ d \notin disturbed
        /\ d \notin Disturbs(c, 1) /\ op' = op
        /\ file' = <<>> /\ buffer' = buffer /\ measured' = measured
    BY <1>6 DEF OpenWrite
  <2>2. CASE step[d] \in {"measured", "reading"}
    <3>1. measured[d] \in Seq(Byte) /\ ~(1 <= Len(measured[d]))
      BY <2>1, <2>2 DEF Disturbs
    <3>2. Len(measured[d]) = 0 /\ Len(file') = 0
      BY <2>1, <3>1, LenProperties, EmptySeq
    <3>3. StillMeasured(d)'
      BY <2>1, <3>2 DEF StillMeasured
    <3> QED
      BY <2>1, <2>2, <3>3 DEF ReadInv, BeginningRead
  <2> QED
    BY <2>1, <2>2 DEF ReadInv
<1>7. ASSUME NEW c \in Caller, WriteByte(c)
      PROVE  /\ step'[d] \in {"measured", "reading"} =>
                    StillMeasured(d)' /\ BeginningRead(d)'
             /\ step'[d] = "returned" => buffer'[d] = measured'[d]
  <2> DEFINE n == Len(buffer[c]) + 1
  <2>1. /\ n \in Nat \ {0} /\ n <= Len(data[c]) /\ data[c] \in Seq(Byte)
        /\ file \in Seq(Byte) /\ op[c] = "write" /\ op' = op
        /\ step' = step /\ measured' = measured
        /\ file' = WithByte(n, data[c][n])
        /\ d \notin disturbed /\ d \notin Disturbs(c, n)
        /\ \A e \in Caller : e # c => buffer'[e] = buffer[e]
    BY <1>7, LenProperties DEF WriteByte
  <2>2. d # c /\ buffer'[d] = buffer[d]
    BY <2>1
  <2>3. data[c][n] \in Byte
    BY <2>1, ElementOfSeq, LenProperties
  <2> HIDE DEF n
  <2>4. CASE step[d] \in {"measured", "reading"}
    <3>1. measured[d] \in Seq(Byte) /\ Len(measured[d]) < n
      BY <2>1, <2>4, LenProperties DEF Disturbs
    <3>2. StillMeasured(d) /\ BeginningRead(d)
      BY <2>1, <2>4 DEF ReadInv
    <3>3. /\ Len(file) <= Len(file')
          /\ \A i \in 1..Len(file) : i # n => file'[i] = file[i]
      <4> HIDE DEF Typed, FilesTypeOK, Roles, At, Goto, CloseAnd, history
      <4>1. PICK b \in Byte : b = data[c][n]
        BY <2>3
      <4>2. /\ Len(WithByte(n, b)) = IF n > Len(file) THEN n ELSE Len(file)
            /\ \A i \in 1..Len(WithByte(n, b)) :
                WithByte(n, b)[i] = IF i = n THEN b
                                    ELSE IF i <= Len(file) THEN file[i] ELSE Hole
        <5>1. n \in Nat \ {0} /\ file \in Seq(Byte)
          BY <2>1
        <5> QED
          BY ONLY <5>1, WithByteTyped
      <4>3. file' = WithByte(n, b) /\ Len(file) \in Nat /\ n \in Nat
        BY <2>1, <4>1, LenProperties
      <4> QED
        BY <4>2, <4>3
    <3>4. StillMeasured(d)'
      BY <2>1, <3>1, <3>2, <3>3, LenProperties DEF StillMeasured
    <3> QED
      BY <2>1, <2>2, <2>4, <3>2, <3>4 DEF BeginningRead
  <2> QED
    BY <2>1, <2>2, <2>4 DEF ReadInv
<1>8. CASE UNCHANGED fileVars
  BY <1>8, ReaderLeftAlone DEF fileVars
<1> QED
  BY <1>1, <1>2, <1>3, <1>4, <1>5, <1>6, <1>7, <1>8 DEF FilesNext

(***************************************************************************)
(* What read_file returns is the file it measured, whatever is written     *)
(* behind those bytes in the meantime.                                     *)
(***************************************************************************)
THEOREM ReadsWhatItMeasured == FilesSpec => []ReadIsMeasured
<1>1. FilesInit => ReadInv
  BY DEF FilesInit, ReadInv
<1>2. ReadInv => ReadIsMeasured
  BY DEF ReadInv, ReadIsMeasured
<1> QED
  BY <1>1, <1>2, ReadStep, TypedAlways, PTL DEF FilesSpec

-----------------------------------------------------------------------------
(***************************************************************************)
(* What an undisturbed writer has put on disk is the file, and is the      *)
(* beginning of its data.                                                  *)
(***************************************************************************)
BeginningWritten(c) ==
    /\ file = buffer[c]
    /\ Len(buffer[c]) <= Len(data[c])
    /\ \A i \in 1..Len(buffer[c]) : buffer[c][i] = data[c][i]

WriteInv ==
    \A c \in Caller \ disturbed :
        op[c] = "write" /\ step[c] \in {"writing", "closing", "returned"} =>
            /\ BeginningWritten(c)
            /\ step[c] = "returned" /\ c \notin unflushed =>
                Len(buffer[c]) = Len(data[c])

\* A step that leaves the file, and a writer's own variables, alone.
LEMMA WriterLeftAlone ==
    ASSUME WriteInv, NEW c \in Caller, c \notin disturbed, op[c] = "write",
           step[c] \in {"writing", "closing", "returned"},
           buffer'[c] = buffer[c], data'[c] = data[c], file' = file,
           step'[c] = "returned" /\ c \notin unflushed' =>
                step[c] = "returned" /\ c \notin unflushed
    PROVE  /\ BeginningWritten(c)'
           /\ step'[c] = "returned" /\ c \notin unflushed' =>
                Len(buffer'[c]) = Len(data'[c])
BY DEF WriteInv, BeginningWritten

LEMMA WriteStep == Typed /\ WriteInv /\ [FilesNext]_fileVars => WriteInv'
<1> DEFINE Written1(d) ==
        /\ BeginningWritten(d)'
        /\ step'[d] = "returned" /\ d \notin unflushed' =>
                Len(buffer'[d]) = Len(data'[d])
<1> SUFFICES ASSUME Typed, WriteInv, [FilesNext]_fileVars,
                    NEW d \in Caller, d \notin disturbed', op'[d] = "write",
                    step'[d] \in {"writing", "closing", "returned"}
             PROVE  Written1(d)
  BY DEF WriteInv
<1> USE DEF Typed, FilesTypeOK, Roles, At, Goto, CloseAnd, history
<1>1. ASSUME NEW c \in Caller,
             OpenRead(c) \/ OpenFails(c) \/ Measure(c) \/ SeekFails(c)
                \/ Rewind(c) \/ AllocThrows(c) \/ ReadByte(c) \/ ReadShort(c)
                \/ ReadAll(c) \/ WriteShort(c)
      PROVE  Written1(d)
  <2>1. /\ op' = op /\ data' = data /\ file' = file /\ disturbed' = disturbed
        /\ unflushed' = unflushed
    BY <1>1 DEF OpenRead, OpenFails, Measure, SeekFails, Rewind, AllocThrows,
                ReadByte, ReadShort, ReadAll, WriteShort
  <2>2. d # c
    BY <1>1, <2>1 DEF OpenRead, OpenFails, Measure, SeekFails, Rewind, AllocThrows,
                ReadByte, ReadShort, ReadAll, WriteShort
  <2>3. step'[d] = step[d] /\ buffer'[d] = buffer[d]
    BY <1>1, <2>2 DEF OpenRead, OpenFails, Measure, SeekFails, Rewind, AllocThrows,
                ReadByte, ReadShort, ReadAll, WriteShort
  <2> QED
    BY <2>1, <2>3, WriterLeftAlone
<1>2. ASSUME NEW c \in Caller, OpenWrite(c) PROVE Written1(d)
  <2>1. CASE d = c
    <3>1. /\ file' = <<>> /\ buffer'[d] = <<>> /\ data'[d] \in Seq(Byte)
          /\ step'[d] = "writing"
      BY <1>2, <2>1 DEF OpenWrite
    <3> QED
      BY <3>1, LenProperties, EmptySeq DEF BeginningWritten
  <2>2. CASE d # c
    BY <1>2, <2>2 DEF OpenWrite, Disturbs
  <2> QED
    BY <2>1, <2>2
<1>3. ASSUME NEW c \in Caller, WriteByte(c) PROVE Written1(d)
  <2>1. CASE d = c
    <3> DEFINE n == Len(buffer[d]) + 1
               b == data[d][n]
    <3>1. /\ n \in Nat \ {0} /\ n <= Len(data[d]) /\ data[d] \in Seq(Byte)
          /\ buffer[d] \in Seq(Byte) /\ data' = data /\ step' = step
          /\ step[d] \in {"writing", "closing"} /\ op[d] = "write"
          /\ d \notin disturbed
          /\ file' = WithByte(n, b)
          /\ buffer'[d] = Append(buffer[d], b)
      BY <1>3, <2>1, LenProperties DEF WriteByte
    <3>2. b \in Byte
      BY <3>1, ElementOfSeq, LenProperties
    <3>3. BeginningWritten(d)
      BY <3>1 DEF WriteInv
    <3>4. file \in Seq(Byte) /\ file = buffer[d] /\ Len(file) = n - 1
      BY <3>1, <3>3, LenProperties DEF BeginningWritten
    <3>5. /\ file' \in Seq(Byte) /\ Len(file') = n
          /\ \A i \in 1..n : file'[i] = IF i = n THEN b ELSE file[i]
      <4>1. /\ WithByte(n, b) \in Seq(Byte)
            /\ Len(WithByte(n, b)) = IF n > Len(file) THEN n ELSE Len(file)
            /\ \A i \in 1..Len(WithByte(n, b)) :
                WithByte(n, b)[i] = IF i = n THEN b
                                    ELSE IF i <= Len(file) THEN file[i] ELSE Hole
        <5>1. n \in Nat \ {0} /\ file \in Seq(Byte) /\ b \in Byte
          BY <3>1, <3>2, <3>4
        <5> HIDE DEF n, b
        <5> QED
          BY ONLY <5>1, WithByteTyped
      <4> HIDE DEF n, b
      <4> QED
        BY <3>1, <3>4, <4>1
    <3>6. /\ buffer'[d] \in Seq(Byte) /\ Len(buffer'[d]) = n
          /\ \A i \in 1..n : buffer'[d][i] = IF i = n THEN b ELSE buffer[d][i]
      BY <3>1, <3>2, AppendProperties, LenProperties
    <3> HIDE DEF n, b
    <3>7. file' = buffer'[d]
      <4>1. /\ file' \in Seq(Byte) /\ buffer'[d] \in Seq(Byte)
            /\ Len(file') = Len(buffer'[d])
            /\ \A i \in 1..Len(file') : file'[i] = buffer'[d][i]
        BY <3>4, <3>5, <3>6
      <4> QED
        BY ONLY <4>1, SeqEqual
    <3>8. \A i \in 1..n : buffer'[d][i] = data'[d][i]
      BY <3>1, <3>3, <3>4, <3>6 DEF BeginningWritten, b
    <3> QED
      BY <3>1, <3>6, <3>7, <3>8 DEF BeginningWritten
  <2>2. CASE d # c
    BY <1>3, <2>2 DEF WriteByte, Disturbs
  <2> QED
    BY <2>1, <2>2
<1>4. ASSUME NEW c \in Caller, WriteReturns(c) PROVE Written1(d)
  BY <1>4, WriterLeftAlone DEF WriteReturns
<1>5. ASSUME NEW c \in Caller, CloseWrite(c) PROVE Written1(d)
  <2>1. CASE d = c
    <3>1. /\ BeginningWritten(d) /\ d \notin disturbed
          /\ buffer' = buffer /\ data' = data /\ file' = file
          /\ buffer[d] \in Seq(Byte) /\ data[d] \in Seq(Byte)
          /\ Len(buffer[d]) < Len(data[d]) => d \in unflushed'
      BY <1>5, <2>1 DEF CloseWrite, WriteInv
    <3> QED
      BY <3>1, LenProperties DEF BeginningWritten
  <2>2. CASE d # c
    BY <1>5, <2>2, WriterLeftAlone DEF CloseWrite
  <2> QED
    BY <2>1, <2>2
<1>6. CASE UNCHANGED fileVars
  BY <1>6, WriterLeftAlone DEF fileVars
<1> QED
  BY <1>1, <1>2, <1>3, <1>4, <1>5, <1>6 DEF FilesNext

(***************************************************************************)
(* When write_file returns and lost nothing in fclose, the file is what it *)
(* was asked to write, until another writer opens it.                      *)
(***************************************************************************)
THEOREM WritesWhatItWasAsked == FilesSpec => []WriteReaches
<1>1. FilesInit => WriteInv
  BY DEF FilesInit, WriteInv
<1>2. Typed /\ WriteInv => WriteReaches
  <2> SUFFICES ASSUME Typed, WriteInv,
                      NEW c \in Caller \ (disturbed \cup unflushed),
                      op[c] = "write", step[c] = "returned"
               PROVE  file = data[c]
    BY DEF WriteReaches
  <2>1. /\ file = buffer[c] /\ Len(buffer[c]) = Len(data[c])
        /\ \A i \in 1..Len(buffer[c]) : buffer[c][i] = data[c][i]
    BY DEF WriteInv, BeginningWritten
  <2>2. buffer[c] \in Seq(Byte) /\ data[c] \in Seq(Byte)
    BY DEF Typed, FilesTypeOK
  <2> QED
    BY <2>1, <2>2, SeqEqual
<1> QED
  BY <1>1, <1>2, WriteStep, TypedAlways, PTL DEF FilesSpec

-----------------------------------------------------------------------------
(***************************************************************************)
(* Structured requests.  A list is a sequence over whatever it holds.      *)
(***************************************************************************)
\* Sequences over any set are lists, and so are their elements' sets.
LEMMA ListOf ==
    ASSUME NEW S, NEW s \in Seq(S)
    PROVE  /\ IsList(s) /\ Letters(s) \subseteq S
           /\ Len(s) \in Nat /\ DOMAIN s = 1..Len(s)
<1>1. Len(s) \in Nat /\ DOMAIN s = 1..Len(s) /\ \A i \in 1..Len(s) : s[i] \in S
  OBVIOUS
<1>2. s = [i \in 1..Len(s) |-> s[i]]
  BY <1>1
<1>3. \A i \in 1..Len(s) : s[i] \in Letters(s)
  BY <1>1 DEF Letters
<1>4. [i \in 1..Len(s) |-> s[i]] \in Seq(Letters(s))
  <2>1. [i \in 1..Len(s) |-> s[i]] \in [1..Len(s) -> Letters(s)]
    BY <1>3
  <2> QED
    BY <1>1, <2>1
<1>5. IsList(s)
  BY <1>2, <1>4 DEF IsList
<1> QED
  BY <1>1, <1>5 DEF Letters

LEMMA ListLength ==
    ASSUME NEW s, IsList(s)
    PROVE  Len(s) \in Nat /\ DOMAIN s = 1..Len(s)
<1>1. s \in Seq(Letters(s))
  BY DEF IsList
<1> QED
  BY <1>1

LEMMA ListElements ==
    ASSUME NEW s, IsList(s)
    PROVE  s = [i \in 1..Len(s) |-> s[i]]
<1>1. s \in Seq(Letters(s))
  BY DEF IsList
<1> QED
  BY <1>1

-----------------------------------------------------------------------------
IsEntry(entry) == IsList(entry) /\ "=" \in Letters(entry)

Spells(entry, name, text) ==
    /\ IsEntry(entry)
    /\ Len(entry) = Len(name) + 1 + Len(text)
    /\ \A i \in 1..Len(name) : entry[i] = name[i]
    /\ entry[Len(name) + 1] = "="
    /\ \A i \in 1..Len(text) : entry[Len(name) + 1 + i] = text[i]

LEMMA EntryParts ==
    ASSUME NEW name, NEW text, IsList(name), IsList(text),
           NEW entry, entry = name \o <<"=">> \o text
    PROVE  Spells(entry, name, text)
<1> DEFINE S == Letters(name) \cup Letters(text) \cup {"="}
           start == name \o <<"=">>
<1>1. /\ name \in Seq(S) /\ text \in Seq(S)
      /\ Len(name) \in Nat /\ Len(text) \in Nat
  <2>1. name \in Seq(Letters(name)) /\ text \in Seq(Letters(text))
    BY DEF IsList
  <2> QED
    BY <2>1
<1>2. <<"=">> \in Seq(S) /\ Len(<<"=">>) = 1 /\ <<"=">>[1] = "="
  OBVIOUS
<1> HIDE DEF S
<1>3. /\ start \in Seq(S) /\ Len(start) = Len(name) + 1
      /\ \A i \in 1..(Len(name) + 1) :
            start[i] = IF i <= Len(name) THEN name[i] ELSE <<"=">>[i - Len(name)]
  BY <1>1, <1>2, ConcatProperties
<1>4. start[Len(name) + 1] = "=" /\ \A i \in 1..Len(name) : start[i] = name[i]
  BY <1>1, <1>2, <1>3
<1>5. entry = start \o text
  OBVIOUS
<1> HIDE DEF start
<1>6. /\ start \o text \in Seq(S) /\ Len(start \o text) = Len(start) + Len(text)
      /\ \A i \in 1..(Len(start) + Len(text)) :
            (start \o text)[i] = IF i <= Len(start) THEN start[i] ELSE text[i - Len(start)]
  BY <1>1, <1>3, ConcatProperties
<1>7. /\ Len(entry) = Len(name) + 1 + Len(text)
      /\ \A i \in 1..Len(name) : entry[i] = name[i]
      /\ entry[Len(name) + 1] = "="
  BY <1>1, <1>3, <1>4, <1>5, <1>6
<1>8. ASSUME NEW i \in 1..Len(text) PROVE entry[Len(name) + 1 + i] = text[i]
  <2>1. PICK k \in Nat : k = Len(name) + 1 + i
    BY <1>1
  <2>2. k \in 1..(Len(start) + Len(text)) /\ ~(k <= Len(start)) /\ k - Len(start) = i
    BY <1>1, <1>3, <2>1
  <2>3. (start \o text)[k] = text[k - Len(start)]
    BY <1>6, <2>2
  <2>4. (start \o text)[k] = text[i]
    BY <2>2, <2>3
  <2> QED
    BY <1>5, <2>1, <2>4
<1>9. IsList(entry)
  <2>1. entry \in Seq(S)
    BY <1>5, <1>6
  <2> QED
    BY <2>1, ListOf
<1>10. "=" \in Letters(entry)
  <2>1. Len(name) + 1 \in DOMAIN entry
    BY <1>1, <1>7, <1>9, ListLength
  <2> QED
    BY <1>7, <2>1 DEF Letters
<1> QED
  BY <1>7, <1>8, <1>9, <1>10 DEF IsEntry, Spells

\* std::string::find finds the first "=".
LEMMA CutIsFirst ==
    ASSUME NEW entry, IsEntry(entry)
    PROVE  /\ Cut(entry) \in 1..Len(entry) /\ entry[Cut(entry)] = "="
           /\ \A j \in 1..(Cut(entry) - 1) : entry[j] # "="
<1>1. Len(entry) \in Nat /\ DOMAIN entry = 1..Len(entry)
  BY ListLength DEF IsEntry
<1>2. PICK i \in 1..Len(entry) : entry[i] = "="
  BY <1>1 DEF IsEntry, Letters
<1> DEFINE none == {n \in Nat : \A j \in 1..n : j <= Len(entry) => entry[j] # "="}
<1>3. \E k \in 1..Len(entry) :
        entry[k] = "=" /\ \A j \in 1..(k - 1) : entry[j] # "="
  <2> SUFFICES ASSUME \A k \in 1..Len(entry) :
                        (\A j \in 1..(k - 1) : entry[j] # "=") => entry[k] # "="
               PROVE  FALSE
    OBVIOUS
  <2>1. 0 \in none /\ none \in SUBSET Nat
    OBVIOUS
  <2>2. ASSUME NEW n \in none PROVE n + 1 \in none
    <3>1. n \in Nat /\ \A j \in 1..n : j <= Len(entry) => entry[j] # "="
      OBVIOUS
    <3>2. n + 1 <= Len(entry) => entry[n + 1] # "="
      BY <1>1, <3>1
    <3>3. \A j \in 1..(n + 1) : j \in 1..n \/ j = n + 1
      BY <3>1
    <3> QED
      BY <3>1, <3>2, <3>3
  <2> HIDE DEF none
  <2>3. none = Nat
    BY <2>1, <2>2, SetInduction
  <2>4. i \in Nat /\ i \in 1..i /\ i <= Len(entry)
    BY <1>1, <1>2
  <2>5. i \in none
    BY <2>3, <2>4
  <2> QED
    BY <1>2, <2>4, <2>5 DEF none
<1> QED
  BY <1>1, <1>3 DEF Cut

LEMMA RestElements ==
    ASSUME NEW S, NEW s, IsList(s), NEW m \in 1..(Len(s) + 1),
           \A i \in m..Len(s) : s[i] \in S
    PROVE  /\ SubSeq(s, m, Len(s)) \in Seq(S)
           /\ Len(SubSeq(s, m, Len(s))) = Len(s) - m + 1
           /\ \A i \in 1..(Len(s) - m + 1) : SubSeq(s, m, Len(s))[i] = s[m + i - 1]
<1>1. Len(s) \in Nat
  BY ListLength
<1> QED
  BY <1>1, SubSeqProperties

\* What stands before and after the "=" that schema_io put there.
LEMMA EntrySplits ==
    ASSUME NEW name, NEW text, IsList(name), IsList(text),
           NEW entry, Spells(entry, name, text)
    PROVE  /\ SubSeq(entry, 1, Len(name)) = name
           /\ SubSeq(entry, Len(name) + 2, Len(entry)) = text
<1>1. /\ name \in Seq(Letters(name)) /\ text \in Seq(Letters(text))
      /\ Len(name) \in Nat /\ DOMAIN name = 1..Len(name)
      /\ Len(text) \in Nat /\ DOMAIN text = 1..Len(text)
  BY ListLength DEF IsList
<1>2. /\ IsEntry(entry)
      /\ Len(entry) = Len(name) + 1 + Len(text)
      /\ \A i \in 1..Len(name) : entry[i] = name[i]
      /\ \A i \in 1..Len(text) : entry[Len(name) + 1 + i] = text[i]
  BY DEF Spells
<1>3. SubSeq(entry, 1, Len(name)) = name
  <2>1. \A i \in 1..Len(name) : entry[i] \in Letters(name)
    BY <1>1, <1>2 DEF Letters
  <2>2. /\ SubSeq(entry, 1, Len(name)) \in Seq(Letters(name))
        /\ Len(SubSeq(entry, 1, Len(name)))
             = IF 1 <= Len(name) THEN Len(name) - 1 + 1 ELSE 0
        /\ \A i \in 1..(Len(name) - 1 + 1) : SubSeq(entry, 1, Len(name))[i] = entry[1 + i - 1]
    BY <1>1, <2>1, SubSeqProperties
  <2>3. /\ Len(SubSeq(entry, 1, Len(name))) = Len(name)
        /\ \A i \in 1..Len(name) : SubSeq(entry, 1, Len(name))[i] = name[i]
    BY <1>1, <1>2, <2>2
  <2> QED
    BY <1>1, <2>2, <2>3, SeqEqual
<1>4. SubSeq(entry, Len(name) + 2, Len(entry)) = text
  <2>1. PICK m \in Nat : m = Len(name) + 2
    BY <1>1
  <2>2. m \in 1..(Len(entry) + 1) /\ Len(entry) - m + 1 = Len(text)
    BY <1>1, <1>2, <2>1
  <2>3. \A i \in 1..Len(text) : entry[m + i - 1] = text[i]
    <3>1. \A i \in 1..Len(text) : m + i - 1 = Len(name) + 1 + i
      BY <1>1, <2>1
    <3> QED
      BY <1>2, <3>1
  <2>4. \A i \in m..Len(entry) : entry[i] \in Letters(text)
    <3> TAKE i \in m..Len(entry)
    <3>1. i - (m - 1) \in 1..Len(text) /\ m + (i - (m - 1)) - 1 = i
      BY <1>1, <1>2, <2>1
    <3>2. entry[i] = text[i - (m - 1)]
      BY <2>3, <3>1
    <3> QED
      BY <1>1, <3>1, <3>2 DEF Letters
  <2>5. IsList(entry)
    BY <1>2 DEF IsEntry
  <2>6. /\ SubSeq(entry, m, Len(entry)) \in Seq(Letters(text))
        /\ Len(SubSeq(entry, m, Len(entry))) = Len(entry) - m + 1
        /\ \A i \in 1..(Len(entry) - m + 1) :
                SubSeq(entry, m, Len(entry))[i] = entry[m + i - 1]
    BY <2>2, <2>4, <2>5, RestElements
  <2>7. SubSeq(entry, m, Len(entry)) = text
    BY <1>1, <2>2, <2>3, <2>6, SeqEqual
  <2> QED
    BY <2>1, <2>7
<1> QED
  BY <1>3, <1>4

\* The entry of a text that says a value, says it.
LEMMA EntryIsSaid ==
    ASSUME NEW name, NEW text, NEW value, IsList(name), IsList(text), Says(text, value),
           NEW entry, entry = name \o <<"=">> \o text
    PROVE  EntrySays(entry, name, value)
<1>1. Spells(entry, name, text)
  BY EntryParts
<1>2. entry[Len(name) + 1] = "="
  BY <1>1 DEF Spells
<1> DEFINE rest == SubSeq(entry, Len(name) + 2, Len(entry))
<1>3. SubSeq(entry, 1, Len(name)) = name /\ rest = text
  BY <1>1, EntrySplits
<1> HIDE DEF rest
<1>4. Says(rest, value)
  BY <1>3
<1> QED
  BY <1>2, <1>3, <1>4 DEF EntrySays, rest

\* What schema_io put together is taken apart again, if the name has no "=".
LEMMA CutUndoesEntry ==
    ASSUME NEW name, NEW text, IsList(name), IsList(text), "=" \notin Letters(name),
           NEW entry, entry = name \o <<"=">> \o text
    PROVE  /\ SubSeq(entry, 1, Cut(entry) - 1) = name
           /\ SubSeq(entry, Cut(entry) + 1, Len(entry)) = text
<1>1. /\ name \in Seq(Letters(name)) /\ text \in Seq(Letters(text))
      /\ Len(name) \in Nat /\ DOMAIN name = 1..Len(name)
      /\ Len(text) \in Nat /\ DOMAIN text = 1..Len(text)
  BY ListLength DEF IsList
<1>2. /\ IsEntry(entry)
      /\ Len(entry) = Len(name) + 1 + Len(text)
      /\ \A i \in 1..Len(name) : entry[i] = name[i]
      /\ entry[Len(name) + 1] = "="
      /\ \A i \in 1..Len(text) : entry[Len(name) + 1 + i] = text[i]
  <2>1. Spells(entry, name, text)
    BY EntryParts
  <2> QED
    BY <2>1 DEF Spells
<1>3. /\ Cut(entry) \in 1..Len(entry) /\ entry[Cut(entry)] = "="
      /\ \A j \in 1..(Cut(entry) - 1) : entry[j] # "="
  BY <1>2, CutIsFirst
<1>4. \A i \in 1..Len(name) : entry[i] # "="
  BY <1>1, <1>2 DEF Letters
<1>5. Cut(entry) = Len(name) + 1
  <2> DEFINE cut == Cut(entry)
  <2>1. cut \in Nat /\ cut <= Len(name) + 1 + Len(text) /\ cut > 0
    BY <1>1, <1>2, <1>3
  <2>2. ~(cut <= Len(name))
    BY <1>1, <1>3, <1>4, <2>1
  <2>3. ~(cut > Len(name) + 1)
    <3>1. cut > Len(name) + 1 => Len(name) + 1 \in 1..(cut - 1)
      BY <1>1, <2>1
    <3> QED
      BY <1>2, <1>3, <3>1
  <2> HIDE DEF cut
  <2>4. cut = Len(name) + 1
    BY <1>1, <2>1, <2>2, <2>3
  <2> QED
    BY <2>4 DEF cut
<1>6. /\ Cut(entry) - 1 = Len(name) /\ Cut(entry) + 1 = Len(name) + 2
  BY <1>1, <1>5
<1>7. /\ SubSeq(entry, 1, Len(name)) = name
      /\ SubSeq(entry, Len(name) + 2, Len(entry)) = text
  BY EntryParts, EntrySplits
<1> QED
  BY <1>6, <1>7

-----------------------------------------------------------------------------
LEMMA FieldIsThere ==
    ASSUME NEW object, NEW name, Has(object, name)
    PROVE  \E i \in DOMAIN object.fields :
              object.fields[i].name = name /\ Field(object, name) = object.fields[i].value
BY DEF Has, Field

LEMMA EmptyList == IsList(<<>>)
BY DEF IsList

LEMMA KeysAreList ==
    ASSUME NEW root \in Document, IsKeys(KeysValue(root))
    PROVE  IsList(KeysValue(root).items)
<1>1. Formed(root)
  BY SchemaAssumption
<1>2. CASE root.kind = "array"
  BY <1>1, <1>2 DEF KeysValue, Formed, IsObject
<1>3. CASE IsObject(root) /\ Has(root, "keys")
  <2>1. KeysValue(root) = Field(root, "keys")
    BY <1>3 DEF KeysValue, IsObject
  <2>2. Formed(Field(root, "keys"))
    BY <1>3, FieldIsThere, SchemaAssumption
  <2> QED
    BY <2>1, <2>2 DEF Formed, IsKeys
<1>4. CASE /\ IsObject(root) /\ ~Has(root, "keys") /\ Has(root, "dataset")
           /\ IsObject(Field(root, "dataset")) /\ Has(Field(root, "dataset"), "keys")
  <2>1. KeysValue(root) = Field(Field(root, "dataset"), "keys")
    BY <1>4 DEF KeysValue, IsObject
  <2>2. PICK i \in DOMAIN root.fields : Field(root, "dataset") = root.fields[i].value
    BY <1>4, FieldIsThere
  <2>3. \A j \in DOMAIN Field(root, "dataset").fields :
            Formed(Field(root, "dataset").fields[j].value)
    BY <1>4, <2>2, SchemaAssumption
  <2>4. Formed(Field(Field(root, "dataset"), "keys"))
    BY <1>4, <2>3, FieldIsThere
  <2> QED
    BY <2>1, <2>4 DEF Formed, IsKeys
<1>5. CASE ~(root.kind = "array") /\ ~(IsObject(root) /\ Has(root, "keys"))
           /\ ~(/\ IsObject(root) /\ ~Has(root, "keys") /\ Has(root, "dataset")
                /\ IsObject(Field(root, "dataset")) /\ Has(Field(root, "dataset"), "keys"))
  <2>1. KeysValue(root) = [kind |-> "missing"]
    BY <1>5 DEF KeysValue
  <2> QED
    BY <2>1 DEF IsKeys
<1> QED
  BY <1>2, <1>3, <1>4, <1>5

\* The schema looks for the keys where the extraction does.
LEMMA CanonicalKeys ==
    ASSUME NEW root, Canonical(root)
    PROVE  /\ IsKeys(KeysValue(root)) /\ ValidKeys(root) = KeysValue(root).items
           /\ IsObject(root) => Settings(root)
<1>1. CASE IsKeys(root)
  <2>1. root.kind = "array"
    BY <1>1 DEF IsKeys
  <2> QED
    BY <1>1, <2>1 DEF KeysValue, ValidKeys, IsObject
<1>2. CASE /\ IsObject(root) /\ Has(root, "keys")
           /\ IsKeys(Field(root, "keys")) /\ Settings(root)
  <2>1. root.kind # "array"
    BY <1>2 DEF IsObject
  <2> QED
    BY <1>2, <2>1 DEF KeysValue, ValidKeys
<1>3. CASE /\ IsObject(root) /\ Has(root, "dataset")
           /\ Only(root, {"dataset", "method", "target", "options"})
           /\ IsObject(Field(root, "dataset")) /\ Has(Field(root, "dataset"), "keys")
           /\ IsKeys(Field(Field(root, "dataset"), "keys"))
           /\ Settings(root)
  <2>1. root.kind # "array"
    BY <1>3 DEF IsObject
  <2>2. ~Has(root, "keys")
    BY <1>3 DEF Has, Only
  <2> QED
    BY <1>3, <2>1, <2>2 DEF KeysValue, ValidKeys
<1> QED
  BY <1>1, <1>2, <1>3 DEF Canonical

\* A scalar's text is a list of letters, and says what the scalar is.
LEMMA BoolTexts ==
    ASSUME NEW given
    PROVE  IsList(BoolText(given))
<1>1. <<"t", "r", "u", "e">> \in Seq({"t", "r", "u", "e"})
  OBVIOUS
<1>2. <<"f", "a", "l", "s", "e">> \in Seq({"f", "a", "l", "s", "e"})
  OBVIOUS
<1>3. IsList(<<"t", "r", "u", "e">>)
  BY <1>1, ListOf
<1>4. IsList(<<"f", "a", "l", "s", "e">>)
  BY <1>2, ListOf
<1> QED
  BY <1>3, <1>4 DEF BoolText

LEMMA TextSays ==
    ASSUME NEW value, Formed(value), value.kind \in Scalar
    PROVE  IsList(TextOf(value)) /\ Says(TextOf(value), value)
<1>1. CASE value.kind = "string"
  <2>1. TextOf(value) = value.data
    BY <1>1 DEF TextOf, Number
  <2>2. IsList(value.data)
    BY <1>1 DEF Formed
  <2> QED
    BY <1>1, <2>1, <2>2 DEF Says
<1>2. CASE value.kind = "bool"
  <2>1. TextOf(value) = BoolText(value.data)
    BY <1>2 DEF TextOf, Number
  <2> QED
    BY <1>2, <2>1, BoolTexts DEF Says
<1>3. CASE value.kind \in Number
  <2>1. TextOf(value) = Shown[value.data]
    BY <1>3 DEF TextOf, Number
  <2>2. IsList(Shown[value.data]) /\ Says(Shown[value.data], value)
    BY <1>3 DEF Formed
  <2> QED
    BY <2>1, <2>2
<1> QED
  BY <1>1, <1>2, <1>3 DEF Scalar

Fields == OptionFields(document)
OptionsAreObject ==
    IsObject(document) /\ Has(document, "options") => IsObject(Field(document, "options"))

LEMMA FieldsTyped ==
    ASSUME document \in Document, OptionsAreObject
    PROVE  /\ IsList(Fields)
           /\ \A i \in 1..Len(Fields) :
                /\ IsList(Fields[i].name)
                /\ Fields[i].value.kind \in Scalar =>
                    /\ IsList(TextOf(Fields[i].value))
                    /\ Says(TextOf(Fields[i].value), Fields[i].value)
           /\ \A i, j \in 1..Len(Fields) : Fields[i].name = Fields[j].name => i = j
<1>1. CASE IsObject(document) /\ Has(document, "options")
  <2>1. Fields = Field(document, "options").fields
    BY <1>1 DEF Fields, OptionFields
  <2>2. PICK k \in DOMAIN document.fields :
            document.fields[k].name = "options" /\ Field(document, "options") = document.fields[k].value
    BY <1>1, FieldIsThere
  <2>3. /\ Formed(Field(document, "options"))
        /\ \A j \in DOMAIN Fields : Formed(Fields[j].value) /\ IsList(Fields[j].name)
    BY <1>1, <2>1, <2>2, SchemaAssumption DEF OptionsAreObject
  <2>4. /\ IsList(Fields)
        /\ \A i, j \in DOMAIN Fields : Fields[i].name = Fields[j].name => i = j
    BY <1>1, <2>1, <2>3 DEF Formed, OptionsAreObject
  <2>5. \A j \in DOMAIN Fields :
            Fields[j].value.kind \in Scalar =>
                /\ IsList(TextOf(Fields[j].value))
                /\ Says(TextOf(Fields[j].value), Fields[j].value)
    BY <2>3, TextSays
  <2> QED
    BY <2>3, <2>4, <2>5, ListLength
<1>2. CASE ~(IsObject(document) /\ Has(document, "options"))
  <2>1. Fields = <<>> /\ Len(<<>>) = 0
    BY <1>2 DEF Fields, OptionFields
  <2>2. \A i \in 1..Len(Fields) : FALSE
    BY <2>1
  <2> QED
    BY <2>1, <2>2, EmptyList
<1> QED
  BY <1>1, <1>2

-----------------------------------------------------------------------------
EntriesTyped ==
    /\ IsList(request.options)
    /\ \A i \in 1..Len(request.options) : IsEntry(request.options[i])

Loaded == {"loaded", "table", "done"}

KeysAt ==
    stage \in {"names", "options"} \cup Loaded =>
        /\ IsKeys(KeysValue(document))
        /\ LET items == KeysValue(document).items
           IN  request.keys = [i \in 1..Len(items) |-> items[i].data]

NamesAt ==
    /\ stage \in {"names", "options"} => document.kind # "array"
    /\ stage \in {"options"} \cup Loaded /\ document.kind # "array" =>
        request.method = StringField("method") /\ request.target = StringField("target")

\* The first n options are in the request.
Extracted(n) ==
    /\ request.options = [i \in 1..n |->
            Fields[i].name \o <<"=">> \o TextOf(Fields[i].value)]
    /\ \A i \in 1..n : Fields[i].value.kind \in Scalar

OptionsAt ==
    /\ stage \in {"load", "validate", "keys", "names"} => request.options = <<>>
    /\ stage \in {"options"} \cup Loaded => OptionsAreObject
    /\ stage = "options" => \E n \in 0..Len(Fields) :
            Extracted(n) /\ todo = SubSeq(Fields, n + 1, Len(Fields))
    /\ stage \in Loaded => Extracted(Len(Fields))

\* No name of an option has "=" in it, and no two are the same.
NamesApart ==
    /\ \A i \in 1..Len(Fields) : "=" \notin Letters(Fields[i].name)
    /\ \A i, j \in 1..Len(Fields) : Fields[i].name = Fields[j].name => i = j

\* The first n options are in the table, as the document has them.
Seen(n) ==
    NamesApart =>
        /\ DOMAIN luaOptions = {Fields[i].name : i \in 1..n}
        /\ \A i \in 1..n : luaOptions[Fields[i].name] = TextOf(Fields[i].value)

TableAt ==
    /\ stage \notin {"table", "done"} => luaOptions = <<>>
    /\ stage = "table" => \E n \in 0..Len(Fields) :
            Seen(n) /\ todo = SubSeq(request.options, n + 1, Len(request.options))
    /\ stage = "done" => Seen(Len(Fields))

RequestInv ==
    /\ document \in Document /\ RequestTypeOK /\ EntriesTyped
    /\ KeysAt /\ NamesAt /\ OptionsAt /\ TableAt /\ ValidIsTaken

LEMMA RequestStart == RequestInit => RequestInv
<1> SUFFICES ASSUME RequestInit PROVE RequestInv
  OBVIOUS
<1> USE DEF RequestInit
<1>1. request.options = <<>> /\ luaOptions = <<>> /\ Len(<<>>) = 0
  OBVIOUS
<1>2. RequestTypeOK
  <2>1. Letters(request.options) = {}
    BY <1>1 DEF Letters
  <2>2. DOMAIN luaOptions = {}
    BY <1>1
  <2> QED
    BY <2>1, <2>2 DEF RequestTypeOK
<1>3. EntriesTyped
  BY <1>1, EmptyList DEF EntriesTyped
<1> QED
  BY <1>1, <1>2, <1>3 DEF RequestInv, KeysAt, NamesAt, OptionsAt, TableAt, ValidIsTaken, Loaded

\* The canonical schema has none of the validator's keywords at its root.
LEMMA NoKeywords == Keywords \cap CanonicalRoot = {}
BY DEF Keywords, CanonicalRoot

\* Reading and validating refuse no document for the canonical schema.
LEMMA Admitted ==
    ASSUME RequestTypeOK, Load \/ Validate
    PROVE  /\ stage \in {"load", "validate"} /\ stage' \in {"validate", "keys", "refused"}
           /\ UNCHANGED <<request, luaOptions>>
           /\ stage' = "refused" => ~(readable /\ schema \in {"none", "canonical"})
<1>1. CASE Load
  BY <1>1 DEF Load, RequestTypeOK
<1>2. CASE Validate
  <2>1. schema \in {"none", "canonical"} => Verdict = {"keys"}
    BY NoKeywords DEF Verdict
  <2>2. schema = "own" => Verdict = {"keys", "refused"}
    BY DEF Verdict
  <2>3. schema = "unusable" => Verdict = {"refused"}
    BY DEF Verdict
  <2>4. stage' \in Verdict /\ schema \in {"none", "canonical", "own", "unusable"}
    BY <1>2 DEF Validate, RequestTypeOK
  <2>5. stage' \in {"keys", "refused"}
    BY <2>1, <2>2, <2>3, <2>4
  <2>6. stage' = "refused" => schema \notin {"none", "canonical"}
    BY <2>1, <2>4
  <2> QED
    BY <1>2, <2>5, <2>6 DEF Validate
<1> QED
  BY <1>1, <1>2

LEMMA SourceKept == RequestInv /\ [RequestNext]_requestVars =>
    UNCHANGED source /\ document' \in Document
BY DEF RequestInv, RequestNext, requestVars, source, Load, Validate, ExtractKeys,
       ExtractNames, ExtractOption, OptionsExtracted, StartTable, TableOption, TableMade

LEMMA OptionOnly ==
    ASSUME RequestTypeOK, ExtractOption
    PROVE  /\ stage = "options" /\ stage' \in {"options", "refused"}
           /\ request'.keys = request.keys /\ request'.method = request.method
           /\ request'.target = request.target /\ DOMAIN request' = DOMAIN request
<1>1. /\ stage = "options" /\ stage' \in {"options", "refused"}
      /\ \/ request' = request
         \/ \E options : request' = [request EXCEPT !.options = options]
  BY DEF ExtractOption
<1> QED
  BY <1>1 DEF RequestTypeOK

LEMMA NamesStep ==
    RequestInv /\ [RequestNext]_requestVars => NamesAt'
<1> SUFFICES ASSUME RequestInv, [RequestNext]_requestVars PROVE NamesAt'
  OBVIOUS
<1> USE DEF NamesAt, Loaded, RequestInv, RequestTypeOK
<1>1. document' = document
  BY SourceKept DEF source
<1>2. CASE Load \/ Validate
  BY <1>1, <1>2, Admitted
<1>3. CASE ExtractKeys
  BY <1>1, <1>3 DEF ExtractKeys
<1>4. CASE ExtractNames
  <2>1. /\ request'.method = StringField("method")
        /\ request'.target = StringField("target")
    BY <1>4 DEF ExtractNames
  <2> QED
    BY <1>1, <1>4, <2>1 DEF ExtractNames, StringField, Has, Field
<1>5. CASE ExtractOption
  <2>1. /\ stage = "options" /\ stage' \in {"options", "refused"}
        /\ request'.method = request.method /\ request'.target = request.target
    BY <1>5, OptionOnly
  <2> QED
    BY <1>1, <2>1 DEF StringField, Has, Field
<1>6. CASE OptionsExtracted \/ StartTable \/ TableOption \/ TableMade
  BY <1>1, <1>6 DEF OptionsExtracted, StartTable, TableOption, TableMade, StringField,
                    Has, Field
<1>7. CASE UNCHANGED requestVars
  BY <1>1, <1>7 DEF requestVars, StringField, Has, Field
<1> QED
  BY <1>2, <1>3, <1>4, <1>5, <1>6, <1>7 DEF RequestNext

LEMMA KeysStep ==
    RequestInv /\ [RequestNext]_requestVars => KeysAt'
<1> SUFFICES ASSUME RequestInv, [RequestNext]_requestVars PROVE KeysAt'
  OBVIOUS
<1> USE DEF KeysAt, Loaded, RequestInv, RequestTypeOK
<1>1. document' = document
  BY SourceKept DEF source
<1>2. CASE Load \/ Validate
  BY <1>1, <1>2, Admitted
<1>3. CASE ExtractKeys
  <2> DEFINE value == KeysValue(document)
             items == IF value.kind = "array" THEN value.items ELSE <<>>
             good == {n \in 0..Len(items) : \A i \in 1..n : items[i].kind = "string"}
             taken == CHOOSE n \in good : \A m \in good : m <= n
  <2>1. /\ request'.keys = [i \in 1..taken |-> items[i].data]
        /\ ~IsKeys(value) => stage' = "refused"
    BY <1>3 DEF ExtractKeys
  <2>2. ASSUME IsKeys(value) PROVE taken = Len(value.items) /\ items = value.items
    <3>1. items = value.items /\ \A i \in DOMAIN items : items[i].kind = "string"
      BY <2>2 DEF IsKeys
    <3>2. Len(items) \in Nat /\ DOMAIN items = 1..Len(items)
      BY <2>2, <3>1, KeysAreList, ListLength
    <3> HIDE DEF items, value
    <3>3. Len(items) \in good /\ \A m \in good : m \in Nat /\ m <= Len(items)
      BY <3>1, <3>2
    <3> HIDE DEF good
    <3>4. \A n \in good : (\A m \in good : m <= n) => n = Len(items)
      BY <3>2, <3>3
    <3>5. taken = Len(items)
      BY <3>3, <3>4
    <3> QED
      BY <3>1, <3>5
  <2> HIDE DEF items, good, taken
  <2> QED
    BY <1>1, <2>1, <2>2
<1>4. CASE ExtractNames
  <2>1. request'.keys = request.keys
    BY <1>4 DEF ExtractNames
  <2> QED
    BY <1>1, <1>4, <2>1 DEF ExtractNames
<1>5. CASE ExtractOption
  BY <1>1, <1>5, OptionOnly
<1>6. CASE OptionsExtracted \/ StartTable \/ TableOption \/ TableMade
  BY <1>1, <1>6 DEF OptionsExtracted, StartTable, TableOption, TableMade
<1>7. CASE UNCHANGED requestVars
  BY <1>1, <1>7 DEF requestVars
<1> QED
  BY <1>2, <1>3, <1>4, <1>5, <1>6, <1>7 DEF RequestNext

(***************************************************************************)
(* One more option: a scalar is in the request, anything else refuses.     *)
(***************************************************************************)
LEMMA OneMoreField ==
    ASSUME RequestInv, ExtractOption
    PROVE  \E n \in 0..(Len(Fields) - 1) :
              LET f == Fields[n + 1]
              IN  /\ Extracted(n)
                  /\ f.value.kind \notin Scalar => stage' = "refused" /\ request' = request
                  /\ f.value.kind \in Scalar =>
                        /\ stage' = "options"
                        /\ request'.options = Append(request.options,
                                f.name \o <<"=">> \o TextOf(f.value))
                        /\ todo' = SubSeq(Fields, n + 2, Len(Fields))
<1>1. stage = "options" /\ document \in Document /\ OptionsAreObject
  BY DEF RequestInv, ExtractOption, OptionsAt
<1>2. PICK n \in 0..Len(Fields) : Extracted(n) /\ todo = SubSeq(Fields, n + 1, Len(Fields))
  BY <1>1 DEF RequestInv, OptionsAt
<1>3. Fields \in Seq(Letters(Fields)) /\ Len(Fields) \in Nat
  BY <1>1, FieldsTyped, ListLength DEF IsList
<1>4. /\ n # Len(Fields)
      /\ Head(todo) = Fields[n + 1] /\ Tail(todo) = SubSeq(Fields, n + 1 + 1, Len(Fields))
  <2>1. todo # <<>>
    BY DEF ExtractOption
  <2>2. /\ n = Len(Fields) => SubSeq(Fields, n + 1, Len(Fields)) = <<>>
        /\ n # Len(Fields) =>
                /\ Head(SubSeq(Fields, n + 1, Len(Fields))) = Fields[n + 1]
                /\ Tail(SubSeq(Fields, n + 1, Len(Fields)))
                        = SubSeq(Fields, n + 1 + 1, Len(Fields))
    BY <1>3, RestOfList
  <2> QED
    BY <1>2, <2>1, <2>2
<1>5. Head(todo) = Fields[n + 1]
  BY <1>4
<1>6. n + 1 + 1 = n + 2 /\ n \in 0..(Len(Fields) - 1)
  BY <1>3, <1>4
<1>7. /\ Fields[n + 1].value.kind \notin Scalar => stage' = "refused" /\ request' = request
      /\ Fields[n + 1].value.kind \in Scalar =>
            /\ stage' = "options"
            /\ request'.options = Append(request.options,
                    Fields[n + 1].name \o <<"=">> \o TextOf(Fields[n + 1].value))
            /\ todo' = SubSeq(Fields, n + 2, Len(Fields))
  BY <1>1, <1>4, <1>5, <1>6 DEF ExtractOption, Taken, RequestInv, RequestTypeOK
<1> QED
  BY <1>2, <1>6, <1>7

LEMMA AppendedList ==
    ASSUME NEW s, IsList(s), NEW e
    PROVE  /\ IsList(Append(s, e)) /\ Len(s) \in Nat
           /\ Len(Append(s, e)) = Len(s) + 1 /\ Append(s, e)[Len(s) + 1] = e
           /\ \A i \in 1..Len(s) : Append(s, e)[i] = s[i]
<1> DEFINE S == Letters(s) \cup {e}
<1>1. s \in Seq(S) /\ e \in S
  <2>1. s \in Seq(Letters(s))
    BY DEF IsList
  <2> QED
    BY <2>1
<1> HIDE DEF S
<1>2. /\ Append(s, e) \in Seq(S)
      /\ Len(Append(s, e)) = Len(s) + 1 /\ Append(s, e)[Len(s) + 1] = e
      /\ \A i \in 1..Len(s) : Append(s, e)[i] = s[i]
  BY <1>1, AppendProperties
<1> QED
  BY <1>1, <1>2, ListOf

LEMMA LoadedLength ==
    ASSUME RequestInv, stage \in Loaded
    PROVE  /\ Len(Fields) \in Nat /\ Extracted(Len(Fields))
           /\ request.options \in Seq(Letters(request.options))
           /\ Len(request.options) = Len(Fields)
<1>1. document \in Document /\ OptionsAreObject /\ Extracted(Len(Fields))
  BY DEF RequestInv, OptionsAt
<1>2. Len(Fields) \in Nat
  BY <1>1, FieldsTyped, ListLength
<1>3. IsList(request.options)
  BY DEF RequestInv, EntriesTyped
<1>4. DOMAIN request.options = 1..Len(Fields)
  BY <1>1 DEF Extracted
<1>5. Len(request.options) \in Nat /\ 1..Len(request.options) = 1..Len(Fields)
  BY <1>3, <1>4, ListLength
<1> HIDE DEF Fields
<1>6. Len(request.options) = Len(Fields)
  BY <1>2, <1>5
<1> QED
  BY <1>1, <1>2, <1>3, <1>6 DEF IsList

\* The entry the script's table gets next is that of the next option.
LEMMA EntryAtHand ==
    ASSUME RequestInv, TableOption
    PROVE  \E n \in 0..(Len(Fields) - 1) :
              /\ Seen(n) /\ todo' = SubSeq(request.options, n + 2, Len(request.options))
              /\ IsList(Fields[n + 1].name) /\ IsList(TextOf(Fields[n + 1].value))
              /\ Head(todo)
                    = Fields[n + 1].name \o <<"=">> \o TextOf(Fields[n + 1].value)
<1>1. stage = "table" /\ document \in Document /\ OptionsAreObject
  BY DEF RequestInv, TableOption, OptionsAt, Loaded
<1>2. PICK n \in 0..Len(Fields) :
        Seen(n) /\ todo = SubSeq(request.options, n + 1, Len(request.options))
  BY <1>1 DEF RequestInv, TableAt
<1>3. /\ Len(Fields) \in Nat
      /\ \A i \in 1..Len(Fields) :
            /\ IsList(Fields[i].name)
            /\ Fields[i].value.kind \in Scalar => IsList(TextOf(Fields[i].value))
  BY <1>1, FieldsTyped, ListLength
<1>4. Extracted(Len(Fields))
  BY <1>1, LoadedLength DEF Loaded
<1>5. request.options \in Seq(Letters(request.options)) /\ Len(request.options) = Len(Fields)
  BY <1>1, LoadedLength DEF Loaded
<1>6. /\ n # Len(Fields) /\ Head(todo) = request.options[n + 1]
      /\ Tail(todo) = SubSeq(request.options, n + 1 + 1, Len(request.options))
  <2>1. todo # <<>>
    BY DEF TableOption
  <2>2. LET s == request.options
        IN  /\ n = Len(s) => SubSeq(s, n + 1, Len(s)) = <<>>
            /\ n # Len(s) => /\ Head(SubSeq(s, n + 1, Len(s))) = s[n + 1]
                             /\ Tail(SubSeq(s, n + 1, Len(s))) = SubSeq(s, n + 1 + 1, Len(s))
    BY <1>3, <1>5, RestOfList
  <2> QED
    BY <1>2, <1>5, <2>1, <2>2
<1>7. n \in 0..(Len(Fields) - 1) /\ n + 1 \in 1..Len(Fields) /\ n + 1 + 1 = n + 2
  BY <1>3, <1>6
<1>8. /\ request.options[n + 1] = Fields[n + 1].name \o <<"=">> \o TextOf(Fields[n + 1].value)
      /\ Fields[n + 1].value.kind \in Scalar
  BY <1>4, <1>7 DEF Extracted
<1>9. todo' = Tail(todo)
  BY DEF TableOption
<1> QED
  BY <1>2, <1>3, <1>6, <1>7, <1>8, <1>9

LEMMA NameHasNone ==
    ASSUME NEW entry, IsEntry(entry)
    PROVE  "=" \notin Letters(SubSeq(entry, 1, Cut(entry) - 1))
<1>1. /\ Cut(entry) \in 1..Len(entry) /\ \A j \in 1..(Cut(entry) - 1) : entry[j] # "="
      /\ Len(entry) \in Nat /\ entry \in Seq(Letters(entry))
  BY CutIsFirst, ListLength DEF IsEntry, IsList
<1>2. PICK n \in Nat : n = Cut(entry) - 1
  BY <1>1
<1>3. \A i \in 1..n : entry[i] \in Letters(entry) \ {"="}
  BY <1>1, <1>2 DEF Letters
<1>4. SubSeq(entry, 1, n) \in Seq(Letters(entry) \ {"="})
  BY <1>2, <1>3, SubSeqProperties
<1>5. Letters(SubSeq(entry, 1, n)) \subseteq Letters(entry) \ {"="}
  BY <1>4, ListOf
<1> QED
  BY <1>2, <1>5

LEMMA EntriesStep ==
    RequestInv /\ [RequestNext]_requestVars => EntriesTyped'
<1> SUFFICES ASSUME RequestInv, [RequestNext]_requestVars PROVE EntriesTyped'
  OBVIOUS
<1>1. EntriesTyped
  BY DEF RequestInv
<1>2. CASE ExtractOption
  <2>1. PICK n \in 0..(Len(Fields) - 1) :
          LET f == Fields[n + 1]
          IN  /\ f.value.kind \notin Scalar => request' = request
              /\ f.value.kind \in Scalar => request'.options
                    = Append(request.options, f.name \o <<"=">> \o TextOf(f.value))
    BY <1>2, OneMoreField
  <2>2. CASE Fields[n + 1].value.kind \notin Scalar
    BY <1>1, <2>1, <2>2 DEF EntriesTyped
  <2>3. CASE Fields[n + 1].value.kind \in Scalar
    <3> DEFINE entry == Fields[n + 1].name \o <<"=">> \o TextOf(Fields[n + 1].value)
    <3>1. document \in Document /\ OptionsAreObject
      BY <1>2 DEF RequestInv, OptionsAt, ExtractOption
    <3>2. IsList(Fields[n + 1].name) /\ IsList(TextOf(Fields[n + 1].value))
      <4>1. Len(Fields) \in Nat
        BY <3>1, FieldsTyped, ListLength
      <4>2. n + 1 \in 1..Len(Fields)
        BY <4>1
      <4> QED
        BY <2>3, <3>1, <4>2, FieldsTyped
    <3>3. Spells(entry, Fields[n + 1].name, TextOf(Fields[n + 1].value))
      BY <3>2, EntryParts
    <3>4. IsEntry(entry)
      BY <3>3 DEF Spells
    <3>5. request'.options = Append(request.options, entry)
      BY <2>1, <2>3
    <3> HIDE DEF entry
    <3>6. /\ IsList(request'.options) /\ Len(request.options) \in Nat
          /\ Len(request'.options) = Len(request.options) + 1
          /\ request'.options[Len(request.options) + 1] = entry
          /\ \A i \in 1..Len(request.options) : request'.options[i] = request.options[i]
      BY <1>1, <3>5, AppendedList DEF EntriesTyped
    <3>7. ASSUME NEW i \in 1..Len(request'.options) PROVE IsEntry(request'.options[i])
      <4>1. i \in 1..Len(request.options) \/ i = Len(request.options) + 1
        BY <3>6
      <4> QED
        BY <1>1, <3>4, <3>6, <4>1 DEF EntriesTyped
    <3> QED
      BY <3>6, <3>7 DEF EntriesTyped
  <2> QED
    BY <2>2, <2>3
<1>3. CASE UNCHANGED request
  BY <1>1, <1>3 DEF EntriesTyped
<1>4. CASE ExtractKeys \/ ExtractNames
  <2>1. request'.options = request.options
    BY <1>4 DEF ExtractKeys, ExtractNames, RequestInv, RequestTypeOK
  <2> QED
    BY <1>1, <2>1 DEF EntriesTyped
<1> QED
  BY <1>2, <1>3, <1>4 DEF RequestNext, requestVars, Load, Validate, OptionsExtracted,
                          StartTable, TableOption, TableMade

LEMMA TypeStep ==
    RequestInv /\ [RequestNext]_requestVars => RequestTypeOK'
<1> SUFFICES ASSUME RequestInv, [RequestNext]_requestVars PROVE RequestTypeOK'
  OBVIOUS
<1>1. /\ readable' \in BOOLEAN /\ schema' \in {"none", "canonical", "own", "unusable"}
  BY SourceKept DEF source, RequestInv, RequestTypeOK
<1>2. stage' \in {"load", "validate", "keys", "names", "options", "loaded",
                  "table", "done", "refused"}
  BY Admitted DEF RequestInv, RequestTypeOK, RequestNext, requestVars,
         ExtractKeys, ExtractNames, ExtractOption, OptionsExtracted, StartTable,
         TableOption, TableMade
<1>3. DOMAIN request' = {"keys", "method", "target", "options"}
  <2>1. RequestTypeOK
    BY DEF RequestInv
  <2>2. CASE ExtractOption
    BY <2>1, <2>2, OptionOnly DEF RequestTypeOK
  <2>3. CASE ExtractKeys \/ ExtractNames
    BY <2>1, <2>3 DEF ExtractKeys, ExtractNames, RequestTypeOK
  <2>4. CASE UNCHANGED request
    BY <2>1, <2>4 DEF RequestTypeOK
  <2> QED
    BY <2>2, <2>3, <2>4 DEF RequestNext, requestVars, Load, Validate, OptionsExtracted,
                            StartTable, TableOption, TableMade
<1>4. \A entry \in Letters(request'.options) : "=" \in Letters(entry)
  <2>1. IsList(request'.options)
          /\ \A i \in 1..Len(request'.options) : IsEntry(request'.options[i])
    BY EntriesStep DEF EntriesTyped
  <2>2. DOMAIN request'.options = 1..Len(request'.options)
    BY <2>1, ListLength
  <2> QED
    BY <2>1, <2>2 DEF Letters, IsEntry
<1>5. \A name \in DOMAIN luaOptions' : "=" \notin Letters(name)
  <2>1. \A name \in DOMAIN luaOptions : "=" \notin Letters(name)
    BY DEF RequestInv, RequestTypeOK
  <2>2. CASE TableOption
    <3> DEFINE entry == Head(todo)
               name == SubSeq(entry, 1, Cut(entry) - 1)
    <3>1. DOMAIN luaOptions' = DOMAIN luaOptions \cup {name}
      BY <2>2 DEF TableOption
    <3>2. IsEntry(entry)
      <4>1. PICK n \in 0..(Len(Fields) - 1) :
              /\ IsList(Fields[n + 1].name) /\ IsList(TextOf(Fields[n + 1].value))
              /\ entry = Fields[n + 1].name \o <<"=">> \o TextOf(Fields[n + 1].value)
        BY <2>2, EntryAtHand
      <4>2. Spells(entry, Fields[n + 1].name, TextOf(Fields[n + 1].value))
        BY <4>1, EntryParts
      <4> QED
        BY <4>2 DEF Spells
    <3> QED
      BY <2>1, <3>1, <3>2, NameHasNone
  <2>3. CASE UNCHANGED luaOptions
    BY <2>1, <2>3
  <2> QED
    BY <2>2, <2>3 DEF RequestNext, requestVars, Load, Validate, ExtractKeys,
                      ExtractNames, ExtractOption, OptionsExtracted, StartTable, TableMade
<1> QED
  BY <1>1, <1>2, <1>3, <1>4, <1>5 DEF RequestTypeOK

-----------------------------------------------------------------------------
LEMMA DocumentKept ==
    RequestInv /\ [RequestNext]_requestVars =>
        /\ document' = document /\ Fields' = Fields
        /\ OptionsAreObject' = OptionsAreObject /\ NamesApart' = NamesApart
<1> SUFFICES ASSUME RequestInv, [RequestNext]_requestVars
             PROVE  /\ document' = document /\ Fields' = Fields
                    /\ OptionsAreObject' = OptionsAreObject /\ NamesApart' = NamesApart
  OBVIOUS
<1>1. document' = document
  BY SourceKept DEF source
<1>2. Fields' = Fields
  BY <1>1 DEF Fields
<1> QED
  BY <1>1, <1>2 DEF OptionsAreObject, NamesApart

LEMMA NoneExtracted ==
    ASSUME request.options = <<>>
    PROVE  Extracted(0)
<1>1. [i \in 1..0 |-> Fields[i].name \o <<"=">> \o TextOf(Fields[i].value)] = <<>>
  OBVIOUS
<1> QED
  BY <1>1 DEF Extracted

LEMMA ExtractedKept ==
    ASSUME NEW n \in Nat, Extracted(n), request'.options = request.options, Fields' = Fields
    PROVE  Extracted(n)'
BY DEF Extracted

LEMMA OneMoreExtracted ==
    ASSUME NEW n \in Nat, Extracted(n), Fields[n + 1].value.kind \in Scalar,
           request'.options = Append(request.options,
                Fields[n + 1].name \o <<"=">> \o TextOf(Fields[n + 1].value)),
           Fields' = Fields, IsList(request.options), IsList(request'.options)
    PROVE  Extracted(n + 1)'
<1> DEFINE Entry(i) == Fields[i].name \o <<"=">> \o TextOf(Fields[i].value)
<1>1. request.options = [i \in 1..n |-> Entry(i)]
  BY DEF Extracted
<1>2. request'.options = Append(request.options, Entry(n + 1))
  OBVIOUS
<1>3. \A i \in 1..(n + 1) : Fields[i].value.kind \in Scalar
  <2>1. \A i \in 1..(n + 1) : i \in 1..n \/ i = n + 1
    OBVIOUS
  <2> QED
    BY <2>1 DEF Extracted
<1> HIDE DEF Entry
<1>4. Len(request.options) = n
  <2>1. Len(request.options) \in Nat /\ DOMAIN request.options = 1..Len(request.options)
    BY ListLength
  <2>2. DOMAIN request.options = 1..n
    BY <1>1
  <2> QED
    BY <2>1, <2>2
<1>5. /\ Len(request'.options) = n + 1 /\ request'.options[n + 1] = Entry(n + 1)
      /\ \A i \in 1..n : request'.options[i] = Entry(i)
  <2> DEFINE old == request.options
             entry == Entry(n + 1)
  <2>1. \A i \in 1..n : old[i] = Entry(i)
    BY <1>1
  <2>2. IsList(old) /\ Len(old) = n /\ request'.options = Append(old, entry)
    BY <1>2, <1>4
  <2> HIDE DEF old, entry
  <2>3. /\ Len(Append(old, entry)) = Len(old) + 1 /\ Append(old, entry)[Len(old) + 1] = entry
        /\ \A i \in 1..Len(old) : Append(old, entry)[i] = old[i]
    BY <2>2, AppendedList
  <2> QED
    BY <2>1, <2>2, <2>3 DEF entry
<1>6. DOMAIN request'.options = 1..(n + 1)
  BY <1>5, ListLength
<1>7. \A i \in 1..(n + 1) : request'.options[i] = Entry(i)
  <2>1. \A i \in 1..(n + 1) : i \in 1..n \/ i = n + 1
    OBVIOUS
  <2> QED
    BY <1>5, <2>1
<1>8. request'.options = [i \in 1..(n + 1) |-> Entry(i)]
  <2>1. Len(request'.options) = n + 1
    BY <1>5
  <2>2. request'.options = [i \in 1..(n + 1) |-> request'.options[i]]
    BY <1>6, <2>1, ListElements
  <2> QED
    BY <1>7, <2>2
<1> QED
  BY <1>3, <1>8 DEF Extracted, Entry

LEMMA OptionsStep ==
    RequestInv /\ [RequestNext]_requestVars => OptionsAt'
<1> SUFFICES ASSUME RequestInv, [RequestNext]_requestVars PROVE OptionsAt'
  OBVIOUS
<1> USE DEF Loaded
<1>1. /\ document' = document /\ Fields' = Fields /\ OptionsAreObject' = OptionsAreObject
      /\ OptionsAt /\ RequestTypeOK /\ document \in Document
      /\ IsList(request.options) /\ IsList(request'.options)
  BY DocumentKept, EntriesStep DEF RequestInv, EntriesTyped
<1>2. CASE Load \/ Validate
  <2>1. /\ stage \in {"load", "validate"} /\ stage' \in {"validate", "keys", "refused"}
        /\ request' = request
    BY <1>1, <1>2, Admitted
  <2> QED
    BY <1>1, <2>1 DEF OptionsAt
<1>3. CASE ExtractKeys
  <2>1. /\ request'.options = request.options /\ request.options = <<>>
        /\ stage' \in {"refused", "loaded", "names"}
        /\ stage' = "loaded" => document.kind = "array"
    BY <1>1, <1>3 DEF ExtractKeys, RequestTypeOK, OptionsAt
  <2>2. ASSUME stage' = "loaded" PROVE Fields = <<>> /\ OptionsAreObject
    BY <2>1, <2>2 DEF Fields, OptionFields, OptionsAreObject, IsObject
  <2>3. Extracted(0)'
    BY <1>1, <2>1, NoneExtracted, ExtractedKept
  <2>4. Len(<<>>) = 0
    OBVIOUS
  <2>5. stage' = "loaded" => Extracted(Len(Fields))'
    BY <1>1, <2>2, <2>3, <2>4
  <2> QED
    BY <1>1, <2>1, <2>2, <2>5 DEF OptionsAt
<1>4. CASE ExtractNames
  <2>1. /\ stage = "names" /\ request'.options = request.options /\ request.options = <<>>
    BY <1>1, <1>4 DEF ExtractNames, RequestTypeOK, OptionsAt
  <2>2. IsObject(document)
    BY <1>1, <2>1 DEF RequestInv, NamesAt, KeysAt, KeysValue, IsKeys
  <2>3. Extracted(0)'
    BY <1>1, <2>1, NoneExtracted, ExtractedKept
  <2>4. CASE ~Has(document, "options") /\ stage' = "loaded"
    <3>1. Fields = <<>> /\ OptionsAreObject /\ Len(<<>>) = 0
      BY <2>4 DEF Fields, OptionFields, OptionsAreObject
    <3>2. Extracted(Len(Fields))'
      BY <1>1, <2>3, <3>1
    <3> QED
      BY <1>1, <2>4, <3>1, <3>2 DEF OptionsAt
  <2>5. CASE stage' = "refused"
    BY <2>5 DEF OptionsAt
  <2>6. CASE /\ Has(document, "options") /\ IsObject(Field(document, "options"))
             /\ stage' = "options" /\ todo' = Field(document, "options").fields
    <3>1. Fields = todo' /\ OptionsAreObject
      BY <2>2, <2>6 DEF Fields, OptionFields, OptionsAreObject
    <3>2. Fields \in Seq(Letters(Fields)) /\ Len(Fields) \in Nat
      BY <1>1, <3>1, FieldsTyped, ListLength DEF IsList
    <3>3. todo' = SubSeq(Fields, 0 + 1, Len(Fields))
      BY <3>1, <3>2, SubSeqFull
    <3>4. \E n \in 0..Len(Fields) : Extracted(n)' /\ todo' = SubSeq(Fields, n + 1, Len(Fields))
      BY <2>3, <3>2, <3>3
    <3> QED
      BY <1>1, <2>6, <3>1, <3>4 DEF OptionsAt
  <2> QED
    BY <1>4, <2>4, <2>5, <2>6 DEF ExtractNames
<1>5. CASE ExtractOption
  <2>1. PICK n \in 0..(Len(Fields) - 1) :
          LET f == Fields[n + 1]
          IN  /\ Extracted(n)
              /\ f.value.kind \notin Scalar => stage' = "refused"
              /\ f.value.kind \in Scalar =>
                    /\ stage' = "options"
                    /\ request'.options = Append(request.options,
                            f.name \o <<"=">> \o TextOf(f.value))
                    /\ todo' = SubSeq(Fields, n + 2, Len(Fields))
    BY <1>5, OneMoreField
  <2>2. OptionsAreObject
    BY <1>1, <1>5 DEF OptionsAt, ExtractOption
  <2>3. Len(Fields) \in Nat
    BY <1>1, <2>2, FieldsTyped, ListLength
  <2>4. n \in Nat /\ n + 1 \in 0..Len(Fields) /\ n + 1 + 1 = n + 2
    BY <2>3
  <2>5. CASE Fields[n + 1].value.kind \notin Scalar
    BY <2>1, <2>5 DEF OptionsAt
  <2>6. CASE Fields[n + 1].value.kind \in Scalar
    <3>1. Extracted(n + 1)'
      BY <1>1, <2>1, <2>4, <2>6, OneMoreExtracted
    <3>2. todo' = SubSeq(Fields, (n + 1) + 1, Len(Fields)) /\ stage' = "options"
      BY <2>1, <2>4, <2>6
    <3>3. \E m \in 0..Len(Fields) : Extracted(m)' /\ todo' = SubSeq(Fields, m + 1, Len(Fields))
      BY <2>4, <3>1, <3>2
    <3> QED
      BY <1>1, <2>2, <3>2, <3>3 DEF OptionsAt
  <2> QED
    BY <2>5, <2>6
<1>6. CASE OptionsExtracted
  <2>1. OptionsAreObject /\ todo = <<>> /\ stage' = "loaded" /\ request' = request
    BY <1>1, <1>6 DEF OptionsAt, OptionsExtracted
  <2>2. PICK n \in 0..Len(Fields) :
          Extracted(n) /\ todo = SubSeq(Fields, n + 1, Len(Fields))
    BY <1>1, <1>6 DEF OptionsAt, OptionsExtracted
  <2>3. Fields \in Seq(Letters(Fields)) /\ Len(Fields) \in Nat
    BY <1>1, <2>1, FieldsTyped, ListLength DEF IsList
  <2>4. /\ n = Len(Fields) => SubSeq(Fields, n + 1, Len(Fields)) = <<>>
        /\ n # Len(Fields) =>
                /\ SubSeq(Fields, n + 1, Len(Fields)) # <<>>
                /\ Head(SubSeq(Fields, n + 1, Len(Fields))) = Fields[n + 1]
                /\ Tail(SubSeq(Fields, n + 1, Len(Fields)))
                        = SubSeq(Fields, n + 1 + 1, Len(Fields))
    BY <2>3, RestOfList
  <2>5. Extracted(Len(Fields))
    BY <2>1, <2>2, <2>4
  <2>6. Extracted(Len(Fields))'
    BY <1>1, <2>1, <2>3, <2>5, ExtractedKept
  <2> QED
    BY <1>1, <2>1, <2>6 DEF OptionsAt
<1>7. CASE StartTable \/ TableOption \/ TableMade
  <2>1. stage \in Loaded /\ stage' \in Loaded /\ request' = request
    BY <1>7 DEF StartTable, TableOption, TableMade
  <2>2. OptionsAreObject /\ Extracted(Len(Fields))
    BY <1>1, <2>1 DEF OptionsAt
  <2>3. Extracted(Len(Fields))'
    <3>1. Len(Fields) \in Nat
      BY <1>1, <2>2, FieldsTyped, ListLength
    <3> QED
      BY <1>1, <2>1, <2>2, <3>1, ExtractedKept
  <2> QED
    BY <1>1, <2>1, <2>2, <2>3 DEF OptionsAt
<1>8. CASE UNCHANGED requestVars
  BY <1>1, <1>8 DEF requestVars, OptionsAt, Extracted
<1> QED
  BY <1>2, <1>3, <1>4, <1>5, <1>6, <1>7, <1>8 DEF RequestNext

LEMMA TableStep ==
    RequestInv /\ [RequestNext]_requestVars => TableAt'
<1> SUFFICES ASSUME RequestInv, [RequestNext]_requestVars PROVE TableAt'
  OBVIOUS
<1>1. Fields' = Fields /\ NamesApart' = NamesApart /\ TableAt
  BY DocumentKept DEF RequestInv
<1>2. CASE Load \/ Validate \/ ExtractKeys \/ ExtractNames \/ ExtractOption \/ OptionsExtracted
  <2>1. /\ stage \notin {"table", "done"} /\ stage' \notin {"table", "done"}
        /\ luaOptions' = luaOptions
    BY <1>2, Admitted DEF ExtractKeys, ExtractNames, ExtractOption,
                OptionsExtracted, RequestInv, RequestTypeOK
  <2> QED
    BY <1>1, <2>1 DEF TableAt
<1>3. CASE StartTable
  <2>1. /\ stage = "loaded" /\ stage' = "table" /\ luaOptions' = <<>>
        /\ todo' = request.options /\ request' = request
    BY <1>1, <1>3 DEF StartTable, TableAt
  <2>2. Len(Fields) \in Nat /\ request.options \in Seq(Letters(request.options))
    BY <2>1, LoadedLength DEF Loaded
  <2>3. todo' = SubSeq(request.options, 0 + 1, Len(request.options))
    BY <2>1, <2>2, SubSeqFull
  <2>4. Seen(0)'
    <3>1. DOMAIN luaOptions' = {} /\ {Fields[i].name : i \in 1..0} = {}
      BY <2>1
    <3> QED
      BY <1>1, <3>1 DEF Seen
  <2>5. \E n \in 0..Len(Fields') :
            Seen(n)' /\ todo' = SubSeq(request'.options, n + 1, Len(request'.options))
    BY <1>1, <2>1, <2>2, <2>3, <2>4
  <2> QED
    BY <2>1, <2>5 DEF TableAt
<1>4. CASE TableOption
  <2>1. stage = "table" /\ stage' = "table" /\ request' = request
    BY <1>4 DEF TableOption
  <2>2. PICK n \in 0..(Len(Fields) - 1) :
          /\ Seen(n) /\ todo' = SubSeq(request.options, n + 2, Len(request.options))
          /\ IsList(Fields[n + 1].name) /\ IsList(TextOf(Fields[n + 1].value))
          /\ Head(todo) = Fields[n + 1].name \o <<"=">> \o TextOf(Fields[n + 1].value)
    BY <1>4, EntryAtHand
  <2>3. Len(Fields) \in Nat
    BY <2>1, LoadedLength DEF Loaded
  <2>4. n \in Nat /\ n + 1 \in 0..Len(Fields) /\ n + 1 + 1 = n + 2 /\ n + 1 \in 1..Len(Fields)
    BY <2>3
  <2>5. Seen(n + 1)'
    <3> SUFFICES ASSUME NamesApart
                 PROVE  /\ DOMAIN luaOptions' = {Fields[i].name : i \in 1..(n + 1)}
                        /\ \A i \in 1..(n + 1) :
                              luaOptions'[Fields[i].name] = TextOf(Fields[i].value)
      BY <1>1 DEF Seen
    <3> DEFINE entry == Head(todo)
               name == Fields[n + 1].name
               text == TextOf(Fields[n + 1].value)
    <3>1. /\ SubSeq(entry, 1, Cut(entry) - 1) = name
          /\ SubSeq(entry, Cut(entry) + 1, Len(entry)) = text
      <4>1. "=" \notin Letters(name)
        BY <2>4 DEF NamesApart
      <4>2. IsList(name) /\ IsList(text) /\ entry = name \o <<"=">> \o text
        BY <2>2
      <4> HIDE DEF entry, name, text
      <4> QED
        BY <4>1, <4>2, CutUndoesEntry
    <3>2. luaOptions' = [m \in DOMAIN luaOptions \cup {name} |->
                            IF m = name THEN text ELSE luaOptions[m]]
      BY <1>4, <3>1 DEF TableOption
    <3>3. /\ DOMAIN luaOptions = {Fields[i].name : i \in 1..n}
          /\ \A i \in 1..n : luaOptions[Fields[i].name] = TextOf(Fields[i].value)
      BY <2>2 DEF Seen
    <3>4. \A i \in 1..(n + 1) : i \in 1..n \/ i = n + 1
      BY <2>4
    <3>5. \A i \in 1..n : i \in 1..(n + 1) /\ Fields[i].name # name
      BY <2>3, <2>4 DEF NamesApart
    <3>6. DOMAIN luaOptions' = {Fields[i].name : i \in 1..(n + 1)}
      BY <2>4, <3>2, <3>3, <3>4, <3>5
    <3>7. ASSUME NEW i \in 1..(n + 1)
          PROVE  luaOptions'[Fields[i].name] = TextOf(Fields[i].value)
      <4>1. CASE i = n + 1
        BY <3>2, <4>1
      <4>2. CASE i \in 1..n
        BY <3>2, <3>3, <3>5, <4>2
      <4> QED
        BY <3>4, <4>1, <4>2
    <3> QED
      BY <3>6, <3>7
  <2>6. \E m \in 0..Len(Fields') :
            Seen(m)' /\ todo' = SubSeq(request'.options, m + 1, Len(request'.options))
    <3>1. todo' = SubSeq(request'.options, (n + 1) + 1, Len(request'.options))
      BY <2>1, <2>2, <2>4
    <3> QED
      BY <1>1, <2>4, <2>5, <3>1
  <2> QED
    BY <2>1, <2>6 DEF TableAt
<1>5. CASE TableMade
  <2>1. /\ stage = "table" /\ stage' = "done" /\ todo = <<>> /\ luaOptions' = luaOptions
    BY <1>5 DEF TableMade
  <2>2. /\ Len(Fields) \in Nat /\ request.options \in Seq(Letters(request.options))
        /\ Len(request.options) = Len(Fields)
    BY <2>1, LoadedLength DEF Loaded
  <2>3. PICK n \in 0..Len(Fields) :
          Seen(n) /\ todo = SubSeq(request.options, n + 1, Len(request.options))
    BY <1>1, <2>1 DEF TableAt
  <2>4. n # Len(Fields) => todo # <<>>
    <3> DEFINE S == Letters(request.options)
               s == request.options
    <3>1. s \in Seq(S) /\ n \in 0..Len(s) /\ Len(s) \in 0..Len(s)
      BY <2>2, <2>3
    <3>2. todo = SubSeq(s, n + 1, Len(s)) /\ Len(s) = Len(Fields)
      BY <2>2, <2>3
    <3> HIDE DEF s, S
    <3>3. n # Len(s) => SubSeq(s, n + 1, Len(s)) # <<>>
      BY <3>1, RestOfList
    <3> QED
      BY <3>2, <3>3
  <2>5. Seen(Len(Fields))
    BY <2>1, <2>2, <2>3, <2>4
  <2>6. Seen(Len(Fields))'
    BY <1>1, <2>1, <2>5 DEF Seen
  <2> QED
    BY <2>1, <2>6 DEF TableAt
<1>6. CASE UNCHANGED requestVars
  BY <1>1, <1>6 DEF requestVars, TableAt, Seen
<1> QED
  BY <1>2, <1>3, <1>4, <1>5, <1>6 DEF RequestNext

LEMMA RefusedStep ==
    RequestInv /\ [RequestNext]_requestVars => ValidIsTaken'
<1> SUFFICES ASSUME RequestInv, [RequestNext]_requestVars,
                    stage' = "refused", readable, schema \in {"none", "canonical"},
                    Canonical(document)
             PROVE  FALSE
  BY SourceKept DEF source, ValidIsTaken
<1>1. CASE Load \/ Validate
  BY <1>1, Admitted DEF RequestInv
<1>2. CASE ExtractKeys
  BY <1>2, CanonicalKeys DEF ExtractKeys
<1>3. CASE ExtractNames
  <2>1. IsObject(document)
    BY <1>3, CanonicalKeys DEF ExtractNames, RequestInv, NamesAt, KeysValue, IsKeys
  <2>2. IsObject(Field(document, "options"))
    BY <1>3, <2>1, CanonicalKeys DEF ExtractNames, Settings
  <2> QED
    BY <1>3, <2>2 DEF ExtractNames
<1>4. CASE ExtractOption
  <2>1. PICK n \in 0..(Len(Fields) - 1) :
          Fields[n + 1].value.kind \in Scalar => stage' = "options"
    BY <1>4, OneMoreField
  <2>2. Fields[n + 1].value.kind \notin Scalar
    BY <2>1
  <2>3. IsList(Fields)
    BY <1>4, FieldsTyped DEF RequestInv, OptionsAt, ExtractOption
  <2>4. Len(Fields) \in Nat /\ DOMAIN Fields = 1..Len(Fields)
    BY <2>3, ListLength
  <2>5. n + 1 \in DOMAIN Fields
    BY <2>4
  <2>6. IsObject(document) /\ Has(document, "options")
    BY <2>5 DEF Fields, OptionFields
  <2>7. Fields = Field(document, "options").fields
    BY <2>6 DEF Fields, OptionFields
  <2> QED
    BY <2>2, <2>5, <2>6, <2>7, CanonicalKeys DEF Settings
<1>5. CASE OptionsExtracted \/ StartTable \/ TableOption \/ TableMade
  BY <1>5 DEF OptionsExtracted, StartTable, TableOption, TableMade
<1>6. CASE UNCHANGED requestVars
  BY <1>6 DEF requestVars, RequestInv, ValidIsTaken
<1> QED
  BY <1>1, <1>2, <1>3, <1>4, <1>5, <1>6 DEF RequestNext

LEMMA RequestStep == RequestInv /\ [RequestNext]_requestVars => RequestInv'
BY SourceKept, TypeStep, EntriesStep, KeysStep, NamesStep, OptionsStep, TableStep,
   RefusedStep DEF RequestInv

LEMMA RequestInvariant == RequestSpec => []RequestInv
<1> QED
  BY RequestStart, RequestStep, PTL DEF RequestSpec

-----------------------------------------------------------------------------
(***************************************************************************)
(* Every document is taken apart into what a request can hold.             *)
(***************************************************************************)
THEOREM RequestTypeCorrect == RequestSpec => []RequestTypeOK
<1>1. RequestInv => RequestTypeOK
  BY DEF RequestInv
<1> QED
  BY <1>1, RequestInvariant, PTL

(***************************************************************************)
(* A document of one of the three shapes of the schema the program writes  *)
(* is never refused by the extraction (schema_io.cpp), for any document;   *)
(* the validator, which has no "oneOf", refuses nothing for that schema.   *)
(***************************************************************************)
THEOREM ValidNeverRefused == RequestSpec => []ValidIsTaken
<1>1. RequestInv => ValidIsTaken
  BY DEF RequestInv
<1> QED
  BY <1>1, RequestInvariant, PTL

(***************************************************************************)
(* What it says reaches the request: all its keys, both names and all its  *)
(* options, however many there are, each with a text that says its value   *)
(* (of a double, to the sixth decimal).                                    *)
(***************************************************************************)
THEOREM RequestSaysAll == RequestSpec => []RequestIsDocument
<1>1. RequestInv => RequestIsDocument
  <2> SUFFICES ASSUME RequestInv, stage \in Loaded, Canonical(document)
               PROVE  /\ Len(request.keys) = Len(ValidKeys(document))
                      /\ \A i \in DOMAIN request.keys :
                            request.keys[i] = ValidKeys(document)[i].data
                      /\ IsObject(document) =>
                            /\ Has(document, "method") =>
                                    request.method = Field(document, "method").data
                            /\ Has(document, "target") =>
                                    request.target = Field(document, "target").data
                      /\ Len(request.options) = Len(Fields)
                      /\ \A i \in DOMAIN request.options :
                            EntrySays(request.options[i], Fields[i].name, Fields[i].value)
    BY DEF RequestIsDocument, Loaded, Fields
  <2>1. /\ Len(request.keys) = Len(ValidKeys(document))
        /\ \A i \in DOMAIN request.keys : request.keys[i] = ValidKeys(document)[i].data
    <3>1. ValidKeys(document) = KeysValue(document).items
      BY CanonicalKeys
    <3>2. request.keys = [i \in 1..Len(KeysValue(document).items) |->
                            KeysValue(document).items[i].data]
      BY DEF RequestInv, KeysAt
    <3>3. Len(KeysValue(document).items) \in Nat
      BY KeysAreList, ListLength DEF RequestInv, KeysAt
    <3> QED
      BY <3>1, <3>2, <3>3
  <2>2. ASSUME IsObject(document)
        PROVE  /\ Has(document, "method") => request.method = Field(document, "method").data
               /\ Has(document, "target") => request.target = Field(document, "target").data
    <3>1. request.method = StringField("method") /\ request.target = StringField("target")
      BY <2>2 DEF RequestInv, NamesAt, IsObject
    <3>2. Settings(document)
      BY <2>2, CanonicalKeys
    <3> QED
      BY <3>1, <3>2 DEF Settings, StringField
  <2>3. /\ Len(request.options) = Len(Fields) /\ DOMAIN request.options = 1..Len(Fields)
        /\ Extracted(Len(Fields))
    BY LoadedLength DEF Extracted
  <2>4. ASSUME NEW i \in 1..Len(Fields)
        PROVE  EntrySays(request.options[i], Fields[i].name, Fields[i].value)
    <3>1. /\ request.options[i] = Fields[i].name \o <<"=">> \o TextOf(Fields[i].value)
          /\ Fields[i].value.kind \in Scalar
      BY <2>3 DEF Extracted
    <3>2. /\ IsList(Fields[i].name) /\ IsList(TextOf(Fields[i].value))
          /\ Says(TextOf(Fields[i].value), Fields[i].value)
      BY <3>1, FieldsTyped DEF RequestInv, OptionsAt
    <3> QED
      BY <3>1, <3>2, EntryIsSaid
  <2> QED
    BY <2>1, <2>2, <2>3, <2>4
<1> QED
  BY <1>1, RequestInvariant, PTL

(***************************************************************************)
(* The table nuperf.schema.load hands to a script (lua-bindings.cpp) has   *)
(* the options of the document, whatever their values: the first "=" of an *)
(* entry is the one the extraction put there.                              *)
(***************************************************************************)
THEOREM ScriptGetsOptions == RequestSpec => []ScriptSeesOptions
<1>1. RequestInv => ScriptSeesOptions
  <2> SUFFICES ASSUME RequestInv, stage = "done",
                      \A i \in DOMAIN Fields : "=" \notin Letters(Fields[i].name)
               PROVE  /\ DOMAIN luaOptions = {Fields[i].name : i \in DOMAIN Fields}
                      /\ \A i \in DOMAIN Fields :
                            Says(luaOptions[Fields[i].name], Fields[i].value)
    BY DEF ScriptSeesOptions, Fields
  <2>1. /\ DOMAIN Fields = 1..Len(Fields) /\ Extracted(Len(Fields))
        /\ \A i, j \in 1..Len(Fields) : Fields[i].name = Fields[j].name => i = j
    BY FieldsTyped, ListLength DEF RequestInv, OptionsAt, Loaded
  <2>2. NamesApart
    BY <2>1 DEF NamesApart
  <2>3. Seen(Len(Fields))
    BY DEF RequestInv, TableAt
  <2>4. \A i \in 1..Len(Fields) : Says(TextOf(Fields[i].value), Fields[i].value)
    BY <2>1, FieldsTyped DEF Extracted, RequestInv, OptionsAt, Loaded
  <2> QED
    BY <2>1, <2>2, <2>3, <2>4 DEF Seen
<1> QED
  BY <1>1, RequestInvariant, PTL

-----------------------------------------------------------------------------
(***************************************************************************)
(* The method BBHash, for every number of instances and results, every     *)
(* width of the integers, every text and every order of calls.             *)
(***************************************************************************)
\* The low bits of a number.
LEMMA LowBits ==
    ASSUME NEW n \in Nat
    PROVE  n % Modulus \in Uint32 /\ (n < Modulus => n % Modulus = n)
<1>1. Modulus \in Nat /\ Modulus > 0
  BY BBHashAssumption
<1>2. n % Modulus \in 0..(Modulus - 1)
  BY <1>1
<1>3. n < Modulus => n % Modulus = n
  BY <1>1
<1> QED
  BY <1>2, <1>3 DEF Uint32

\* Every variable but heap, whose type follows from the balance of the blocks.
MethodTyped ==
    /\ gamma \in [Instance -> Uint32 \cup {Dead}]
    /\ count \in [Result -> 0..MaxKeys \cup {Dead}]
    /\ tables = [r \in Result |-> tables[r]]
    /\ \A r \in Result : \A e \in DOMAIN tables[r] : tables[r][e] \in Uint32
    /\ asked \in [Instance -> Nat]
    /\ lost \in 0..MaxLost
    /\ last.outcome \in {"OK", "BUFFER_TOO_SMALL", "thrown"}

LEMMA MethodTypedStep ==
    ASSUME MethodTyped, [MethodNext]_bbVars
    PROVE  MethodTyped'
<1> USE DEF MethodTyped
<1>a. Modulus \in Nat /\ Default \in Uint32 /\ Default \in Nat
  BY BBHashAssumption DEF Default, Uint32
<1>1. CASE CreateThrows
  BY <1>1, BBHashAssumption DEF CreateThrows, Quiet
<1>2. ASSUME NEW i \in Instance, Create(i) \/ DestroyInstance(i) PROVE MethodTyped'
  BY <1>a, <1>2 DEF Create, DestroyInstance, Quiet
<1>3. ASSUME NEW i \in Instance, NEW text \in Text, SetOption(i, text) PROVE MethodTyped'
  <2>1. CASE Stoul[text] = Thrown
    BY <1>3, <2>1 DEF SetOption, Quiet
  <2>2. CASE Stoul[text] # Thrown
    <3>1. Stoul[text] \in Nat /\ Stoul[text] % Modulus \in Uint32
      BY <2>2, LowBits, BBHashAssumption
    <3>2. /\ gamma' = [gamma EXCEPT ![i] = Stoul[text] % Modulus]
          /\ asked' = [asked EXCEPT ![i] = Stoul[text]]
          /\ UNCHANGED <<count, tables, lost>> /\ last' = Quiet("OK")
      BY <1>3, <2>2 DEF SetOption
    <3> QED
      BY <3>1, <3>2 DEF Quiet
  <2> QED
    BY <2>1, <2>2
<1>4. ASSUME NEW i \in Instance, NEW given \in Buffer, GetOption(i, given) PROVE MethodTyped'
  BY <1>4 DEF GetOption, Answer
<1>5. ASSUME NEW n \in 0..MaxKeys, BuildThrows(n) PROVE MethodTyped'
  BY <1>5, BBHashAssumption DEF BuildThrows, Quiet
<1>6. ASSUME NEW n \in 0..MaxKeys, NEW r \in Result, BuildResult(r, n) PROVE MethodTyped'
  <2>1. \A e \in DOMAIN Identity(n) : Identity(n)[e] \in Uint32
    <3>1. DOMAIN Identity(n) \subseteq Nat
      BY DEF Identity
    <3>2. \A e \in DOMAIN Identity(n) : Identity(n)[e] = e % Modulus
      BY DEF Identity
    <3> QED
      BY <3>1, <3>2, LowBits
  <2> HIDE DEF Identity
  <2> QED
    BY <1>6, <2>1 DEF BuildResult, Quiet
<1>7. ASSUME NEW r \in Result, DestroyResult(r) PROVE MethodTyped'
  <2>1. DOMAIN (<<>>) = {}
    OBVIOUS
  <2> QED
    BY <1>7, <2>1 DEF DestroyResult, Quiet
<1>8. CASE UNCHANGED bbVars
  BY <1>8 DEF bbVars
<1> QED
  BY <1>1, <1>2, <1>3, <1>4, <1>5, <1>6, <1>7, <1>8 DEF MethodNext

-----------------------------------------------------------------------------
\* What an instance keeps.
LEMMA GammaStep ==
    ASSUME MethodTyped, GammaAsAsked, [MethodNext]_bbVars
    PROVE  GammaAsAsked'
<1> USE DEF MethodTyped, GammaAsAsked, Live
<1>1. ASSUME NEW i \in Instance, Create(i) PROVE GammaAsAsked'
  <2>1. Default % Modulus = Default
    BY LowBits, BBHashAssumption DEF Default
  <2> QED
    BY <1>1, <2>1 DEF Create
<1>2. ASSUME NEW i \in Instance, DestroyInstance(i) PROVE GammaAsAsked'
  BY <1>2 DEF DestroyInstance
<1>3. ASSUME NEW i \in Instance, NEW text \in Text, SetOption(i, text) PROVE GammaAsAsked'
  BY <1>3 DEF SetOption
<1>4. CASE UNCHANGED <<gamma, asked>>
  BY <1>4
<1> QED
  BY <1>1, <1>2, <1>3, <1>4
     DEF MethodNext, CreateThrows, GetOption, BuildThrows, BuildResult, DestroyResult, bbVars

\* What a buffer gets.
LEMMA CopyStep ==
    ASSUME MethodTyped, CopyFits, [MethodNext]_bbVars
    PROVE  CopyFits'
<1>1. ASSUME NEW i \in Instance, NEW given \in Buffer, GetOption(i, given) PROVE CopyFits'
  <2>1. gamma[i] \in Uint32 /\ Width[gamma[i]] \in Nat /\ given.size \in Nat
    BY <1>1, BBHashAssumption DEF GetOption, MethodTyped, Buffers
  <2>2. ~given.null => Answer(given, Width[gamma[i]]).written <= given.size
    BY <2>1 DEF Answer, Needed
  <2>3. last'.buffer = given /\ last'.answer = Answer(given, Width[gamma[i]])
    BY <1>1 DEF GetOption
  <2> QED
    BY <2>2, <2>3 DEF CopyFits
<1>2. ASSUME \E outcome : last' = Quiet(outcome) PROVE CopyFits'
  BY <1>2 DEF Quiet, CopyFits
<1>3. CASE UNCHANGED bbVars
  BY <1>3 DEF bbVars, CopyFits
<1>4. ASSUME NEW i \in Instance, NEW text \in Text, SetOption(i, text)
      PROVE  \E outcome : last' = Quiet(outcome)
  BY <1>4 DEF SetOption
<1> QED
  BY <1>1, <1>2, <1>3, <1>4
     DEF MethodNext, CreateThrows, Create, DestroyInstance, BuildThrows, BuildResult, DestroyResult

\* The tables.
LEMMA PerfectStep ==
    ASSUME MethodTyped, MinimalPerfect, [MethodNext]_bbVars
    PROVE  MinimalPerfect'
<1> USE DEF MethodTyped, MinimalPerfect, Live
<1>1. ASSUME NEW n \in 0..MaxKeys, NEW r \in Result, BuildResult(r, n) PROVE MinimalPerfect'
  <2>1. ASSUME n <= Modulus
        PROVE  {Identity(n)[e] : e \in DOMAIN Identity(n)} = 0..(n - 1)
    <3>1. DOMAIN Identity(n) = 0..(n - 1)
      BY DEF Identity
    <3>2. ASSUME NEW e \in 0..(n - 1) PROVE Identity(n)[e] = e
      <4>1. e \in Nat /\ e < Modulus /\ Identity(n)[e] = e % Modulus
        BY <2>1, BBHashAssumption DEF Identity
      <4> QED
        BY <4>1, LowBits
    <3> HIDE DEF Identity
    <3> QED
      BY <3>1, <3>2
  <2>2. /\ count' = [count EXCEPT ![r] = n] /\ tables' = [tables EXCEPT ![r] = Identity(n)]
    BY <1>1 DEF BuildResult
  <2>3. /\ count'[r] = n /\ tables'[r] = Identity(n)
        /\ \A s \in Result : s # r => count'[s] = count[s] /\ tables'[s] = tables[s]
    BY <2>2
  <2> HIDE DEF Identity
  <2> QED
    BY <2>1, <2>3
<1>2. ASSUME NEW r \in Result, DestroyResult(r) PROVE MinimalPerfect'
  BY <1>2 DEF DestroyResult
<1>3. CASE UNCHANGED <<count, tables>>
  BY <1>3
<1> QED
  BY <1>1, <1>2, <1>3
     DEF MethodNext, CreateThrows, Create, DestroyInstance, SetOption, GetOption, BuildThrows, bbVars

-----------------------------------------------------------------------------
(***************************************************************************)
(* The blocks.  An instance has two, a result has two, but for one that is *)
(* empty, which has one.                                                   *)
(***************************************************************************)
NoKeys == {r \in Live(Result, count) : count[r] = 0}

LEMMA Counts ==
           /\ IsFiniteSet(Live(Instance, gamma)) /\ IsFiniteSet(Live(Result, count))
           /\ IsFiniteSet(NoKeys)
           /\ Cardinality(Live(Instance, gamma)) \in Nat
           /\ Cardinality(Live(Result, count)) \in Nat
           /\ Cardinality(NoKeys) \in Nat
           /\ Cardinality(NoKeys) <= Cardinality(Live(Result, count))
<1>1. IsFiniteSet(Live(Instance, gamma)) /\ IsFiniteSet(Live(Result, count))
  BY FS_Subset, BBHashAssumption DEF Live
<1>2. NoKeys \subseteq Live(Result, count)
  BY DEF NoKeys
<1> QED
  BY <1>1, <1>2, FS_Subset, FS_CardinalityType

\* One more member, one fewer.
LEMMA OneMore ==
    ASSUME NEW S, IsFiniteSet(S), NEW x, x \notin S
    PROVE  Cardinality(S \cup {x}) = Cardinality(S) + 1
BY FS_AddElement

LEMMA OneLess ==
    ASSUME NEW S, IsFiniteSet(S), NEW x \in S
    PROVE  Cardinality(S \ {x}) = Cardinality(S) - 1
BY FS_RemoveElement

LEMMA BlocksStep ==
    ASSUME MethodTyped, BlocksAccounted, [MethodNext]_bbVars
    PROVE  BlocksAccounted'
<1> DEFINE I == Live(Instance, gamma)
           R == Live(Result, count)
           E == NoKeys
<1>a. /\ IsFiniteSet(I) /\ IsFiniteSet(R) /\ IsFiniteSet(E)
      /\ Cardinality(I) \in Nat /\ Cardinality(R) \in Nat /\ Cardinality(E) \in Nat
      /\ lost \in Nat
      /\ heap = lost + 2 * Cardinality(I) + 2 * Cardinality(R) - Cardinality(E)
  BY Counts DEF BlocksAccounted, NoKeys, MethodTyped
<1>b. ASSUME heap' = lost' + 2 * Cardinality(I') + 2 * Cardinality(R') - Cardinality(E')
      PROVE  BlocksAccounted'
  BY <1>b DEF BlocksAccounted, NoKeys
<1>1. ASSUME NEW i \in Instance, Create(i) PROVE BlocksAccounted'
  <2>1. I' = I \cup {i} /\ i \notin I /\ R' = R /\ E' = E
    BY <1>1, BBHashAssumption DEF Create, MethodTyped, Live, NoKeys, Default
  <2>2. heap' = heap + 2 /\ lost' = lost
    BY <1>1 DEF Create
  <2> HIDE DEF I, R, E
  <2>3. Cardinality(I') = Cardinality(I) + 1
    BY <1>a, <2>1, OneMore
  <2> QED
    BY <1>a, <1>b, <2>1, <2>2, <2>3
<1>2. ASSUME NEW i \in Instance, DestroyInstance(i) PROVE BlocksAccounted'
  <2>1. I' = I \ {i} /\ i \in I /\ R' = R /\ E' = E
    BY <1>2 DEF DestroyInstance, MethodTyped, Live, NoKeys
  <2>2. heap' = heap - 2 /\ lost' = lost
    BY <1>2 DEF DestroyInstance
  <2> HIDE DEF I, R, E
  <2>3. Cardinality(I') = Cardinality(I) - 1
    BY <1>a, <2>1, OneLess
  <2> QED
    BY <1>a, <1>b, <2>1, <2>2, <2>3
<1>3. ASSUME NEW i \in Instance, NEW text \in Text, SetOption(i, text) PROVE BlocksAccounted'
  <2>1. ASSUME Stoul[text] # Thrown
        PROVE  Stoul[text] % Modulus # Dead
    <3>1. Stoul[text] \in Nat /\ Uint32 \subseteq Nat
      BY <2>1, BBHashAssumption DEF Uint32
    <3>2. Stoul[text] % Modulus \in Nat
      BY <3>1, LowBits
    <3> QED
      BY <3>2, BBHashAssumption
  <2>2. I' = I /\ R' = R /\ E' = E /\ heap' = heap /\ lost' = lost
    BY <1>3, <2>1 DEF SetOption, MethodTyped, Live, NoKeys
  <2> HIDE DEF I, R, E
  <2> QED
    BY <1>a, <1>b, <2>2
<1>4. ASSUME NEW n \in 0..MaxKeys, NEW r \in Result, BuildResult(r, n) PROVE BlocksAccounted'
  <2>1. n # Dead /\ n \in Nat
    BY BBHashAssumption
  <2>2. /\ I' = I /\ R' = R \cup {r} /\ r \notin R /\ r \notin E
        /\ E' = IF n = 0 THEN E \cup {r} ELSE E
    BY <1>4, <2>1 DEF BuildResult, MethodTyped, Live, NoKeys
  <2>3. heap' = heap + (IF n = 0 THEN 1 ELSE 2) /\ lost' = lost
    BY <1>4 DEF BuildResult, Blocks
  <2> HIDE DEF I, R, E
  <2>4. Cardinality(R') = Cardinality(R) + 1
    BY <1>a, <2>2, OneMore
  <2>5. Cardinality(E') = Cardinality(E) + (IF n = 0 THEN 1 ELSE 0)
    <3>1. CASE n = 0
      BY <1>a, <2>2, <3>1, OneMore
    <3>2. CASE n # 0
      BY <1>a, <2>2, <3>2
    <3> QED
      BY <3>1, <3>2
  <2> QED
    BY <1>a, <1>b, <2>2, <2>3, <2>4, <2>5
<1>5. ASSUME NEW r \in Result, DestroyResult(r) PROVE BlocksAccounted'
  <2>1. /\ I' = I /\ R' = R \ {r} /\ r \in R
        /\ E' = E \ {r} /\ (r \in E <=> count[r] = 0)
    BY <1>5 DEF DestroyResult, MethodTyped, Live, NoKeys
  <2>2. heap' = heap - (IF count[r] = 0 THEN 1 ELSE 2) /\ lost' = lost
    BY <1>5 DEF DestroyResult, Blocks
  <2> HIDE DEF I, R, E
  <2>3. Cardinality(R') = Cardinality(R) - 1
    BY <1>a, <2>1, OneLess
  <2>4. Cardinality(E') = Cardinality(E) - (IF count[r] = 0 THEN 1 ELSE 0)
    <3>1. CASE r \in E
      BY <1>a, <2>1, <3>1, OneLess
    <3>2. CASE r \notin E
      <4>1. E' = E /\ count[r] # 0
        BY <2>1, <3>2
      <4> QED
        BY <1>a, <4>1
    <3> QED
      BY <3>1, <3>2
  <2> QED
    BY <1>a, <1>b, <2>1, <2>2, <2>3, <2>4
<1>6. ASSUME CreateThrows \/ \E n \in 0..MaxKeys : BuildThrows(n) PROVE BlocksAccounted'
  <2>1. /\ UNCHANGED <<gamma, count>>
        /\ UNCHANGED <<heap, lost>> \/ (heap' = heap + 1 /\ lost' = lost + 1)
    BY <1>6 DEF CreateThrows, BuildThrows
  <2>2. I' = I /\ R' = R /\ E' = E
    BY <2>1 DEF Live, NoKeys
  <2> HIDE DEF I, R, E
  <2> QED
    BY <1>a, <1>b, <2>1, <2>2
<1>7. ASSUME UNCHANGED <<gamma, count, heap, lost>> PROVE BlocksAccounted'
  BY <1>7 DEF BlocksAccounted, Live
<1> QED
  BY <1>1, <1>2, <1>3, <1>4, <1>5, <1>6, <1>7 DEF MethodNext, GetOption, bbVars

-----------------------------------------------------------------------------
MethodInv == MethodTyped /\ BBHashSound

LEMMA MethodInvInit == MethodInit => MethodInv
<1> SUFFICES ASSUME MethodInit PROVE MethodInv
  OBVIOUS
<1>1. MethodTyped
  <2>1. DOMAIN (<<>>) = {}
    OBVIOUS
  <2> QED
    BY <2>1, BBHashAssumption DEF MethodInit, MethodTyped, Default, Quiet
<1>2. Live(Instance, gamma) = {} /\ Live(Result, count) = {}
  BY DEF MethodInit, Live
<1>3. GammaAsAsked /\ MinimalPerfect
  BY <1>2 DEF GammaAsAsked, MinimalPerfect
<1>4. CopyFits
  BY DEF MethodInit, CopyFits, Quiet
<1>5. BlocksAccounted
  <2>1. {r \in Live(Result, count) : count[r] = 0} = {}
    BY <1>2
  <2>2. heap = 0 /\ lost = 0 /\ Cardinality({}) = 0
    BY FS_EmptySet DEF MethodInit
  <2> QED
    BY <1>2, <2>1, <2>2 DEF BlocksAccounted
<1> QED
  BY <1>1, <1>3, <1>4, <1>5 DEF MethodInv, BBHashSound

LEMMA MethodInvStep == MethodInv /\ [MethodNext]_bbVars => MethodInv'
BY MethodTypedStep, GammaStep, BlocksStep, PerfectStep, CopyStep DEF MethodInv, BBHashSound

LEMMA MethodInvariant == MethodSpec => []MethodInv
<1>1. MethodInit => MethodInv
  BY MethodInvInit
<1>2. MethodInv /\ [MethodNext]_bbVars => MethodInv'
  BY MethodInvStep
<1> QED
  BY <1>1, <1>2, PTL DEF MethodSpec

(***************************************************************************)
(* Through every order of calls and every exception, BBHash keeps the low  *)
(* bits of what each instance was asked, accounts for its blocks, builds   *)
(* minimal perfect hashes of the positions and stays in the buffers it is  *)
(* given (src/stdmeth/BBHash/method.cpp).                                  *)
(***************************************************************************)
THEOREM BBHashStaysSound == MethodSpec => []BBHashSound
<1>1. MethodInv => BBHashSound
  BY DEF MethodInv
<1> QED
  BY <1>1, MethodInvariant, PTL

(***************************************************************************)
(* Every variable keeps its type; in particular no block is freed twice.   *)
(***************************************************************************)
THEOREM MethodTypeCorrect == MethodSpec => []MethodTypeOK
<1>1. MethodInv => MethodTypeOK
  <2> SUFFICES ASSUME MethodInv PROVE MethodTypeOK
    OBVIOUS
  <2>1. heap \in Nat
    <3>1. heap = lost + 2 * Cardinality(Live(Instance, gamma))
                   + 2 * Cardinality(Live(Result, count)) - Cardinality(NoKeys)
      BY DEF MethodInv, BBHashSound, BlocksAccounted, NoKeys
    <3>2. lost \in Nat
      BY DEF MethodInv, MethodTyped
    <3> QED
      BY <3>1, <3>2, Counts
  <2> QED
    BY <2>1 DEF MethodInv, MethodTyped, MethodTypeOK
<1> QED
  BY <1>1, MethodInvariant, PTL

=============================================================================
