--------------------------- MODULE BuildRunProofs ---------------------------
(***************************************************************************)
(* Proofs about BuildRun for every command line, every input and every     *)
(* registry: the handles of the core are always released, in the right     *)
(* order, the core is never called in a state it would refuse, and the     *)
(* artifact is the one BuildCommand promises.                              *)
(***************************************************************************)
EXTENDS BuildRun, PositionsProofs

-----------------------------------------------------------------------------
\* The calls between the decision on the names and the end of the input.
Reading == {"open_input", "read_line", "load_request", "add_key"}
Setting == {"set_keyset", "set_method", "set_target", "set_option", "build"}
Emitting == {"query_size", "emit_buffer", "emit_file"}

(***************************************************************************)
(* What cmd_build_run relies on at each call: which handles are alive, and *)
(* how far the table has been configured.                                  *)
(***************************************************************************)
HandlesAt ==
    /\ pc = "create_keyset" => keyset = "none" /\ table = "none"
    /\ pc = "create_table" => keyset = "live" /\ table = "none"
    /\ pc \in {"dump_schema", "free_table"} \cup Reading \cup Setting \cup Emitting
            => keyset = "live" /\ table = "live"
    /\ pc = "free_keyset" => keyset = "live" /\ table # "live"
    /\ pc = "returned" => keyset # "live" /\ table # "live"

NamesAt ==
    /\ pc \in Reading \cup Setting => method # Unset /\ target # Unset
    /\ pc \in {"set_method", "set_target", "set_option", "build"} => tab.keyset
    /\ pc \in {"set_target", "set_option", "build"} => tab.method # Unset
    /\ pc \in {"set_option", "build"} => tab.target # Unset
    /\ pc \in Setting => ~tab.built
    /\ pc \in Reading \cup {"create_keyset", "create_table", "dump_schema"} => ~tab.built
    /\ pc \in Emitting => tab.built /\ tab.method # Unset /\ tab.target # Unset

RunInv == TypeOK /\ HandlesAt /\ NamesAt

-----------------------------------------------------------------------------
LEMMA InitRun == Init => RunInv
<1> SUFFICES ASSUME Init PROVE RunInv
  OBVIOUS
<1>1. tab \in [keyset : BOOLEAN, method : Name \cup {Unset},
               target : Name \cup {Unset}, options : Settings, built : BOOLEAN]
  BY DEF Init, NewTable, Settings
<1>2. keys \in Seq(Key) /\ todo \in Seq(Line)
        /\ options \in Seq(Option \cup {Malformed})
  BY DEF Init
<1>3. /\ pc \in Pc /\ keyset \in Life /\ table \in Life
      /\ out \in Artifact \cup {Nothing, Damaged}
      /\ method \in Name \cup {Unset} /\ target \in Name \cup {Unset}
  BY DEF Init, Pc, Life
<1>4. args \in Invocation /\ source \in Source /\ rc \in 0..1
  BY DEF Init
<1>5. TypeOK
  BY <1>1, <1>2, <1>3, <1>4 DEF TypeOK
<1>6. HandlesAt /\ NamesAt
  BY DEF Init, HandlesAt, NamesAt, Reading, Setting, Emitting, NewTable
<1> QED
  BY <1>5, <1>6 DEF RunInv

(***************************************************************************)
(* Types: the only data that comes from outside is in args and source.     *)
(***************************************************************************)
LEMMA InputTyped ==
    ASSUME TypeOK
    PROVE  /\ args.method \in Name \cup {Unset}
           /\ args.target \in Name \cup {Unset}
           /\ args.options \in Seq(Option \cup {Malformed})
           /\ source.lines \in Seq(Line)
           /\ source.readable \in 0..Len(source.lines)
           /\ source.request # BadDocument =>
                /\ source.request.keys \in Seq(Line)
                /\ source.request.method \in Name \cup {Unset}
                /\ source.request.target \in Name \cup {Unset}
                /\ source.request.options \in Seq(Option \cup {Malformed})
<1>1. /\ args \in [dump : BOOLEAN, structured : BOOLEAN, path : {"-", "file"},
                   method : Name \cup {Unset}, target : Name \cup {Unset},
                   options : Seq(Option \cup {Malformed}), output : {"-", "file"}]
      /\ source \in [lines : Seq(Line), readable : Nat,
                     request : Request \cup {BadDocument}]
  BY BuildAssumption DEF TypeOK
<1>2. source.request # BadDocument => source.request \in Request
  BY <1>1
<1>3. \A s \in Seq(Option) : s \in Seq(Option \cup {Malformed})
  OBVIOUS
<1>4. source.readable <= Len(source.lines)
  BY BuildAssumption DEF TypeOK
<1> QED
  BY <1>1, <1>2, <1>3, <1>4 DEF Request

(***************************************************************************)
(* An artifact names a method and a target only because NamesAt holds when *)
(* it is emitted, so types are not kept without it.                        *)
(***************************************************************************)
LEMMA NextTyped == TypeOK /\ NamesAt /\ [Next]_vars => TypeOK'
<1> SUFFICES ASSUME TypeOK, NamesAt, [Next]_vars PROVE TypeOK'
  OBVIOUS
<1> USE DEF input, locals, handles, GoTo, Fail
<1>1. CASE CreateKeyset \/ CreateTable \/ FreeTable \/ FreeKeyset
  BY <1>1 DEF CreateKeyset, CreateTable, FreeTable, FreeKeyset, TypeOK, Pc, Life
<1>2. ASSUME NEW label, Fails(label) PROVE TypeOK'
  BY <1>2 DEF Fails, TypeOK, Pc
<1>3. CASE DumpSchema
  BY <1>3, InputTyped, BuildAssumption DEF DumpSchema, TypeOK, Pc
<1>4. CASE OpenInput
  <2>1. SubSeq(source.lines, 1, source.readable) \in Seq(Line)
    BY InputTyped, SubSeqProperties
  <2> QED
    BY <1>4, <2>1 DEF OpenInput, TypeOK, Pc
<1>5. CASE ReadLine \/ AddKey
  <2>1. todo # <<>> /\ todo \in Seq(Line) /\ keys \in Seq(Key)
    BY <1>5 DEF ReadLine, AddKey, TypeOK
  <2>2. Head(todo) \in Line /\ Tail(todo) \in Seq(Line)
    BY <2>1
  <2>3. Append(keys, KeyOf[Head(todo)]) \in Seq(Key)
    BY <2>1, <2>2, BuildAssumption
  <2> QED
    BY <1>5, <2>1, <2>2, <2>3 DEF ReadLine, AddKey, TypeOK, Pc
<1>6. CASE LoadRequest
  <2>1. options \o source.request.options \in Seq(Option \cup {Malformed})
    BY <1>6, InputTyped DEF LoadRequest, TypeOK
  <2> QED
    BY <1>6, <2>1, InputTyped DEF LoadRequest, TypeOK, Pc
<1>7. CASE SetKeyset \/ SetMethod \/ SetTarget \/ Build
  BY <1>7 DEF SetKeyset, SetMethod, SetTarget, Build, TypeOK, Pc
<1>8. CASE SetOption
  <2>1. /\ options # <<>> /\ options \in Seq(Option \cup {Malformed})
        /\ Head(options) # Malformed
        /\ tab' = [tab EXCEPT !.options[Head(options).key] = Head(options).value]
    BY <1>8 DEF SetOption, TypeOK
  <2>2. Head(options) \in Option /\ Tail(options) \in Seq(Option \cup {Malformed})
    BY <2>1
  <2>3. tab' \in [keyset : BOOLEAN, method : Name \cup {Unset},
                  target : Name \cup {Unset}, options : Settings,
                  built : BOOLEAN]
    BY <2>1, <2>2 DEF TypeOK, Option, Settings
  <2> QED
    BY <1>8, <2>2, <2>3 DEF SetOption, TypeOK, Pc
<1>9. CASE EndOfInput \/ AllKeysAdded \/ OptionsSet \/ QuerySize
  BY <1>9 DEF EndOfInput, AllKeysAdded, OptionsSet, QuerySize, TypeOK, Pc
<1>10. CASE EmitBuffer \/ EmitFile \/ EmitFileFails
  <2>1. tab.method \in Name /\ tab.target \in Name /\ tab.options \in Settings
    BY <1>10 DEF EmitBuffer, EmitFile, EmitFileFails, NamesAt, Emitting, TypeOK
  <2>2. Emitted \in Artifact
    BY <2>1 DEF Emitted, Artifact, TypeOK
  <2>3. CASE EmitBuffer
    BY <2>2, <2>3 DEF EmitBuffer, TypeOK, Pc
  <2>4. CASE EmitFile
    BY <2>2, <2>4 DEF EmitFile, TypeOK, Pc
  <2>5. CASE EmitFileFails
    BY <2>5 DEF EmitFileFails, TypeOK, Pc
  <2> QED
    BY <1>10, <2>3, <2>4, <2>5
<1>11. CASE UNCHANGED vars
  BY <1>11 DEF vars, TypeOK
<1> QED
  BY <1>1, <1>2, <1>3, <1>4, <1>5, <1>6, <1>7, <1>8, <1>9, <1>10, <1>11
     DEF Next, ReadInput, Configure, Produce, DumpSchemaFails, OpenInputFails,
         AddStringFails, LoadRequestFails, AddKeyFails, SetKeysetFails,
         SetMethodFails, SetTargetFails, SetOptionFails, BuildFails,
         QuerySizeFails, EmitBufferFails

(***************************************************************************)
(* Control: each step leaves the handles and the table as the next call    *)
(* needs them.                                                             *)
(***************************************************************************)
LEMMA NextControl ==
    TypeOK /\ HandlesAt /\ NamesAt /\ [Next]_vars => HandlesAt' /\ NamesAt'
<1> SUFFICES ASSUME TypeOK, HandlesAt, NamesAt, [Next]_vars
             PROVE  HandlesAt' /\ NamesAt'
  OBVIOUS
<1> USE DEF locals, handles, GoTo, Fail, HandlesAt, NamesAt, Reading,
            Setting, Emitting
<1>1. CASE CreateKeyset \/ CreateTable
  BY <1>1 DEF CreateKeyset, CreateTable
<1>2. ASSUME NEW label \in {"dump_schema"} \cup Reading \cup Setting \cup Emitting,
             Fails(label)
      PROVE  HandlesAt' /\ NamesAt'
  BY <1>2 DEF Fails
<1>3. CASE DumpSchema
  BY <1>3, BuildAssumption DEF DumpSchema
<1>4. CASE OpenInput \/ ReadLine \/ EndOfInput \/ AddKey \/ AllKeysAdded
  BY <1>4 DEF OpenInput, ReadLine, EndOfInput, AddKey, AllKeysAdded
<1>5. CASE LoadRequest
  BY <1>5 DEF LoadRequest
<1>6. CASE SetKeyset
  BY <1>6 DEF SetKeyset, TypeOK
<1>7. CASE SetMethod \/ SetTarget
  BY <1>7 DEF SetMethod, SetTarget, TypeOK
<1>8. CASE SetOption
  BY <1>8 DEF SetOption, TypeOK
<1>9. CASE OptionsSet \/ QuerySize
  BY <1>9 DEF OptionsSet, QuerySize
<1>10. CASE Build
  BY <1>10 DEF Build, TypeOK
<1>11. CASE EmitBuffer \/ EmitFile \/ EmitFileFails
  BY <1>11 DEF EmitBuffer, EmitFile, EmitFileFails
<1>12. CASE FreeTable \/ FreeKeyset
  BY <1>12 DEF FreeTable, FreeKeyset
<1>13. CASE UNCHANGED vars
  BY <1>13 DEF vars
<1> QED
  BY <1>1, <1>2, <1>3, <1>4, <1>5, <1>6, <1>7, <1>8, <1>9, <1>10, <1>11, <1>12,
     <1>13
     DEF Next, ReadInput, Configure, Produce, DumpSchemaFails, OpenInputFails,
         AddStringFails, LoadRequestFails, AddKeyFails, SetKeysetFails,
         SetMethodFails, SetTargetFails, SetOptionFails, BuildFails,
         QuerySizeFails, EmitBufferFails

THEOREM RunInvariant == Spec => []RunInv
<1>1. RunInv /\ [Next]_vars => RunInv'
  BY NextTyped, NextControl DEF RunInv
<1> QED
  BY <1>1, InitRun, PTL DEF Spec

-----------------------------------------------------------------------------
(***************************************************************************)
(* Every variable of cmd_build_run keeps its type; what it emits is a      *)
(* complete artifact, with a method and a target.                          *)
(***************************************************************************)
THEOREM TypeCorrect == Spec => []TypeOK
<1>1. RunInv => TypeOK
  BY DEF RunInv
<1> QED
  BY <1>1, RunInvariant, PTL

(***************************************************************************)
(* cmd_build_run returns with no handle alive, whatever call failed.       *)
(***************************************************************************)
THEOREM HandlesReleased == Spec => []NoHandleLeak
<1>1. RunInv => NoHandleLeak
  BY DEF RunInv, HandlesAt, NoHandleLeak
<1> QED
  BY <1>1, RunInvariant, PTL

(***************************************************************************)
(* The core is only called on live handles, and asked to build only when   *)
(* it can; a live table never refers to a keyset that is gone.             *)
(***************************************************************************)
THEOREM CallsAllowed == Spec => []CoreCallsAllowed
<1>1. RunInv => KeysetOutlivesTable
  BY DEF RunInv, TypeOK, HandlesAt, KeysetOutlivesTable, Pc, Reading, Setting,
         Emitting
<1>2. RunInv /\ KeysetOutlivesTable => CoreCallsAllowed
  BY DEF RunInv, HandlesAt, NamesAt, CoreCallsAllowed, BuildAllowed, Reading,
         Setting, Emitting
<1> QED
  BY <1>1, <1>2, RunInvariant, PTL

-----------------------------------------------------------------------------
(***************************************************************************)
(* What has become of the inputs at each call.  The keyset holds the keys  *)
(* of the part of the input that is behind the loop, the rest is todo.     *)
(***************************************************************************)
Starting == {"create_keyset", "create_table", "dump_schema"}
Naming == {"set_keyset", "set_method", "set_target"}
Leaving == {"free_table", "free_keyset", "returned"}

InputAt ==
    /\ pc \in Starting \cup {"open_input", "load_request"} => keys = <<>>
    /\ pc \in {"open_input", "read_line"} => ~args.structured
    /\ pc \in {"load_request", "add_key"} => args.structured
    /\ pc = "read_line" => \E n \in 0..source.readable :
            /\ todo = SubSeq(source.lines, n + 1, source.readable)
            /\ keys = KeysUpTo(n)
    /\ pc = "add_key" => \E n \in 0..Len(source.request.keys) :
            /\ todo = SubSeq(source.request.keys, n + 1, Len(source.request.keys))
            /\ keys = Map(KeyOf, SubSeq(source.request.keys, 1, n))
    /\ pc \in {"add_key"} \cup Setting \cup Emitting /\ args.structured
            => args.path # "-" /\ source.request # BadDocument
    /\ pc \in Setting \cup Emitting => keys = WantedKeys

\* The names decided on, and those the table has taken.
ChoicesAt ==
    /\ pc \in Reading \cup Setting => method = WantedMethod /\ target = WantedTarget
    /\ pc \in {"set_target", "set_option", "build"} \cup Emitting
            => tab.method = WantedMethod /\ WantedMethod \in KnownMethod
    /\ pc \in {"set_option", "build"} \cup Emitting
            => tab.target = WantedTarget /\ WantedTarget \in KnownTarget

OptionsApplied(n) ==
    /\ \A i \in 1..n : Taken(GivenOptions[i])
    /\ tab.options = [k \in OptionKey |-> ValueUpTo(n, k)]

OptionsAt ==
    /\ pc \in {"open_input", "read_line", "load_request"} => options = args.options
    /\ pc \in {"add_key"} \cup Naming => options = GivenOptions
    /\ pc \in Starting \cup Reading \cup Naming => tab.options = NewTable.options
    /\ pc = "set_option" => \E n \in 0..Len(GivenOptions) :
            /\ options = SubSeq(GivenOptions, n + 1, Len(GivenOptions))
            /\ OptionsApplied(n)
    /\ pc \in {"build"} \cup Emitting => OptionsApplied(Len(GivenOptions))

\* What has been handed over, and the status it is reported with.
OutcomeAt ==
    /\ pc \notin Leaving => out = Nothing /\ rc = 0
    /\ pc \in Leaving /\ rc = 0 => out = Wanted /\ Wanted # Nothing
    /\ pc \in Leaving /\ rc = 1 => out \in {Nothing, Damaged}

DataInv == InputAt /\ ChoicesAt /\ OptionsAt /\ OutcomeAt

-----------------------------------------------------------------------------
(***************************************************************************)
(* One more line is one more key, unless it is blank.                      *)
(***************************************************************************)
LEMMA NoKeys == KeysUpTo(0) = <<>>
<1>1. {i \in 1..0 : source.lines[i] # Blank} = {}
  OBVIOUS
<1>2. KeysUpTo(0) = Map(KeyOf, <<>>)
  BY <1>1, PickedEmpty DEF KeysUpTo
<1> QED
  BY <1>2 DEF Map

LEMMA OneMoreLine ==
    ASSUME TypeOK, NEW n \in Nat, n < source.readable
    PROVE  KeysUpTo(n + 1) = IF source.lines[n + 1] = Blank THEN KeysUpTo(n)
                             ELSE Append(KeysUpTo(n), KeyOf[source.lines[n + 1]])
<1> DEFINE line == source.lines
           P == {i \in 1..n : line[i] # Blank}
           Q == {i \in 1..(n + 1) : line[i] # Blank}
<1>1. CASE line[n + 1] = Blank
  <2>1. Q = P
    BY <1>1
  <2> QED
    BY <1>1, <2>1 DEF KeysUpTo
<1>2. CASE line[n + 1] # Blank
  <2>1. Q = P \cup {n + 1} /\ P \in SUBSET (1..n)
    BY <1>2
  <2>2. \A i \in 1..(n + 1) : line[i] \in Line
    BY InputTyped
  <2>3. KeysUpTo(n) = Map(KeyOf, Picked(line, P))
        /\ KeysUpTo(n + 1) = Map(KeyOf, Picked(line, Q))
    BY DEF KeysUpTo
  <2>4. \A i \in P : line[i] \in Line
    BY <2>2
  <2> HIDE DEF P, Q, line
  <2>5. Picked(line, Q) = Append(Picked(line, P), line[n + 1])
    BY <2>1, PickedNext
  <2>6. Picked(line, P) \in Seq(Line)
    BY <2>1, <2>4, PickedTyped
  <2>7. \A s \in Seq(Line), l \in Line :
            Map(KeyOf, Append(s, l)) = Append(Map(KeyOf, s), KeyOf[l])
    BY DEF Map
  <2>8. line[n + 1] \in Line
    BY <2>2
  <2> QED
    BY <1>2, <2>3, <2>5, <2>6, <2>7, <2>8 DEF line
<1> QED
  BY <1>1, <1>2

(***************************************************************************)
(* One more option replaces the value of its key.                          *)
(***************************************************************************)
LEMMA NoValue == \A k : ValueUpTo(0, k) = Unset
<1>1. \A k : {i \in 1..0 : GivenOptions[i].key = k} = {}
  OBVIOUS
<1> QED
  BY <1>1 DEF ValueUpTo

LEMMA OneMoreOption ==
    ASSUME NEW n \in Nat, NEW k
    PROVE  ValueUpTo(n + 1, k) = IF GivenOptions[n + 1].key = k
                                 THEN GivenOptions[n + 1].value ELSE ValueUpTo(n, k)
<1> DEFINE given == GivenOptions
           P == {i \in 1..n : given[i].key = k}
           Q == {i \in 1..(n + 1) : given[i].key = k}
<1>1. CASE given[n + 1].key # k
  <2>1. Q = P
    BY <1>1
  <2> QED
    BY <1>1, <2>1 DEF ValueUpTo
<1>2. CASE given[n + 1].key = k
  <2>1. n + 1 \in Q /\ Q \in SUBSET Nat /\ \A j \in Q : j <= n + 1
    BY <1>2
  <2>2. ValueUpTo(n + 1, k) = IF Q = {} THEN Unset ELSE given[Latest(Q)].value
    BY DEF ValueUpTo
  <2> HIDE DEF Q, given
  <2>3. Latest(Q) = n + 1
    BY <2>1, LatestIs
  <2> QED
    BY <1>2, <2>1, <2>2, <2>3 DEF given
<1> QED
  BY <1>1, <1>2

LEMMA ValueTyped ==
    ASSUME NEW n \in Nat, \A i \in 1..n : GivenOptions[i] \in Option, NEW k
    PROVE  ValueUpTo(n, k) \in OptionValue \cup {Unset}
<1> DEFINE P == {i \in 1..n : GivenOptions[i].key = k}
<1>1. P \in SUBSET (1..n)
  OBVIOUS
<1>2. ValueUpTo(n, k) = IF P = {} THEN Unset ELSE GivenOptions[Latest(P)].value
  BY DEF ValueUpTo
<1> HIDE DEF P
<1>3. P # {} => Latest(P) \in 1..n
  <2>1. P \in SUBSET Nat /\ IsFiniteSet(P)
    BY <1>1, PlacesFinite
  <2> QED
    BY <1>1, <2>1, LatestIsLast
<1> QED
  BY <1>2, <1>3 DEF Option

(***************************************************************************)
(* The inputs do not change, so neither does what they stand for.          *)
(***************************************************************************)
LEMMA InputKept ==
    ASSUME UNCHANGED input
    PROVE  /\ UNCHANGED <<args, source, WantedKeys, WantedMethod, WantedTarget,
                          GivenOptions, Wanted>>
           /\ \A n : KeysUpTo(n)' = KeysUpTo(n)
           /\ \A n, k : ValueUpTo(n, k)' = ValueUpTo(n, k)
<1>1. args' = args /\ source' = source
  BY DEF input
<1>2. \A n : KeysUpTo(n)' = KeysUpTo(n)
  BY <1>1 DEF KeysUpTo, Map
<1>3. WantedKeys' = WantedKeys /\ GivenOptions' = GivenOptions
      /\ WantedMethod' = WantedMethod /\ WantedTarget' = WantedTarget
  BY <1>1, <1>2 DEF WantedKeys, GivenOptions, WantedMethod, WantedTarget, Map
<1>4. \A n, k : ValueUpTo(n, k)' = ValueUpTo(n, k)
  BY <1>3 DEF ValueUpTo
<1>5. Sound' = Sound
  BY <1>1, <1>3 DEF Sound
<1>6. Wanted' = Wanted
  BY <1>3, <1>4, <1>5 DEF Wanted
<1> QED
  BY <1>1, <1>2, <1>3, <1>4, <1>6

\* Mapping a list element by element.
LEMMA MappedPrefix ==
    ASSUME NEW S, NEW s \in Seq(S), NEW f
    PROVE  /\ Map(f, SubSeq(s, 1, 0)) = <<>>
           /\ Map(f, SubSeq(s, 1, Len(s))) = Map(f, s)
           /\ \A n \in 0..(Len(s) - 1) :
                Map(f, SubSeq(s, 1, n + 1)) = Append(Map(f, SubSeq(s, 1, n)), f[s[n + 1]])
<1>1. SubSeq(s, 1, 0) = <<>> /\ SubSeq(s, 1, Len(s)) = s
  BY SubSeqEmpty, SubSeqFull
<1>2. Map(f, <<>>) = <<>>
  BY DEF Map
<1>3. ASSUME NEW n \in 0..(Len(s) - 1)
      PROVE  Map(f, SubSeq(s, 1, n + 1)) = Append(Map(f, SubSeq(s, 1, n)), f[s[n + 1]])
  <2>1. SubSeq(s, 1, n) \in Seq(S) /\ SubSeq(s, 1, n + 1) = Append(SubSeq(s, 1, n), s[n + 1])
    OBVIOUS
  <2>2. \A p \in Seq(S) : Map(f, Append(p, s[n + 1])) = Append(Map(f, p), f[s[n + 1]])
    BY DEF Map
  <2> QED
    BY <2>1, <2>2
<1> QED
  BY <1>1, <1>2, <1>3

-----------------------------------------------------------------------------
(***************************************************************************)
(* The steps that hand nothing on: a call failed, or the last was made.    *)
(***************************************************************************)
Last == \/ EmitBuffer \/ EmitFile \/ EmitFileFails \/ FreeTable \/ FreeKeyset
        \/ \E label \in {"dump_schema"} \cup Reading \cup Setting \cup Emitting :
                Fails(label)

LEMMA NextSplit ==
    ASSUME Next
    PROVE  \/ CreateKeyset \/ CreateTable \/ DumpSchema \/ OpenInput \/ ReadLine
           \/ EndOfInput \/ LoadRequest \/ AddKey \/ AllKeysAdded \/ SetKeyset
           \/ SetMethod \/ SetTarget \/ SetOption \/ OptionsSet \/ Build
           \/ QuerySize \/ Last
  BY DEF Next, ReadInput, Configure, Produce, DumpSchemaFails, OpenInputFails,
         AddStringFails, LoadRequestFails, AddKeyFails, SetKeysetFails,
         SetMethodFails, SetTargetFails, SetOptionFails, BuildFails,
         QuerySizeFails, EmitBufferFails, Last, Reading, Setting, Emitting

LEMMA NextLeaves ==
    ASSUME Last \/ (CreateKeyset /\ pc' = "returned") \/ (CreateTable /\ pc' = "free_keyset")
    PROVE  pc' \in Leaving
  BY DEF Last, EmitBuffer, EmitFile, EmitFileFails, FreeTable, FreeKeyset, Fails,
         Fail, GoTo, Leaving

(***************************************************************************)
(* The keyset has received exactly the keys of the input behind the loop.  *)
(***************************************************************************)
LEMMA NextInput ==
    ASSUME TypeOK, InputAt, [Next]_vars
    PROVE  InputAt'
<1> USE DEF Starting, Reading, Setting, Emitting, Naming, Leaving
<1>1. ASSUME pc' \in Leaving PROVE InputAt'
  BY <1>1 DEF InputAt
<1>2. CASE CreateKeyset \/ CreateTable
  BY <1>1, <1>2 DEF CreateKeyset, CreateTable, GoTo, InputAt, locals
<1>3. CASE DumpSchema
  BY <1>3 DEF DumpSchema, GoTo, InputAt, input
<1>4. CASE OpenInput
  <2>1. /\ pc' = "read_line" /\ UNCHANGED <<input, keys>>
        /\ todo' = SubSeq(source.lines, 0 + 1, source.readable)
        /\ keys = <<>> /\ ~args.structured
    BY <1>4 DEF OpenInput, GoTo, InputAt
  <2>2. keys' = KeysUpTo(0)' /\ UNCHANGED <<args, source>>
    BY <2>1, NoKeys, InputKept
  <2>3. 0 \in 0..source'.readable
    BY <2>2, InputTyped
  <2> QED
    BY <2>1, <2>2, <2>3 DEF InputAt
<1>5. CASE ReadLine
  <2> DEFINE line == source.lines
  <2>1. /\ pc = "read_line" /\ pc' = "read_line" /\ todo # <<>> /\ ~args.structured
        /\ UNCHANGED input /\ todo' = Tail(todo)
        /\ keys' = IF Head(todo) = Blank THEN keys ELSE Append(keys, KeyOf[Head(todo)])
    BY <1>5 DEF ReadLine, GoTo, InputAt
  <2>2. PICK n \in 0..source.readable :
            /\ todo = SubSeq(line, n + 1, source.readable)
            /\ keys = KeysUpTo(n)
    BY <2>1 DEF InputAt
  <2>3. line \in Seq(Line) /\ source.readable \in 0..Len(line)
    BY InputTyped
  <2>4. n # source.readable /\ Head(todo) = line[n + 1]
        /\ todo' = SubSeq(line, n + 1 + 1, source.readable)
    BY <2>1, <2>2, <2>3, RestOfList
  <2>5. n \in Nat /\ n + 1 \in 0..source.readable
    BY <2>2, <2>3, <2>4
  <2>6. keys' = KeysUpTo(n + 1)
    <3>1. n < source.readable
      BY <2>3, <2>4
    <3> QED
      BY <2>1, <2>2, <2>4, <2>5, <3>1, OneMoreLine
  <2>7. keys' = KeysUpTo(n + 1)' /\ UNCHANGED <<args, source>>
    BY <2>1, <2>6, InputKept
  <2> QED
    BY <2>1, <2>4, <2>5, <2>7 DEF InputAt
<1>6. CASE EndOfInput
  <2>1. /\ pc = "read_line" /\ pc' = "set_keyset" /\ todo = <<>> /\ ~args.structured
        /\ UNCHANGED <<input, keys>>
    BY <1>6 DEF EndOfInput, GoTo, InputAt
  <2>2. PICK n \in 0..source.readable :
            /\ todo = SubSeq(source.lines, n + 1, source.readable)
            /\ keys = KeysUpTo(n)
    BY <2>1 DEF InputAt
  <2>3. n = source.readable
    <3>1. source.lines \in Seq(Line) /\ source.readable \in 0..Len(source.lines)
      BY InputTyped
    <3> QED
      <4>1. n # source.readable => SubSeq(source.lines, n + 1, source.readable) # <<>>
        BY <3>1, RestOfList
      <4> QED
        BY <2>1, <2>2, <4>1
  <2>4. keys = WantedKeys
    BY <2>1, <2>2, <2>3 DEF WantedKeys
  <2> QED
    BY <2>1, <2>4, InputKept DEF InputAt
<1>7. CASE LoadRequest
  <2> DEFINE given == source.request.keys
  <2>1. /\ pc' = "add_key" /\ UNCHANGED <<input, keys>> /\ todo' = given
        /\ args.path # "-" /\ source.request # BadDocument
        /\ keys = <<>> /\ args.structured
    BY <1>7 DEF LoadRequest, GoTo, InputAt
  <2>2. given \in Seq(Line)
    BY <2>1, InputTyped
  <2>3. todo' = SubSeq(given, 0 + 1, Len(given)) /\ keys' = Map(KeyOf, SubSeq(given, 1, 0))
    BY <2>1, <2>2, MappedPrefix, SubSeqFull
  <2>4. 0 \in 0..Len(given) /\ UNCHANGED <<args, source>>
    BY <2>1, <2>2, InputKept
  <2> QED
    BY <2>1, <2>3, <2>4 DEF InputAt
<1>8. CASE AddKey
  <2> DEFINE given == source.request.keys
  <2>1. /\ pc = "add_key" /\ pc' = "add_key" /\ todo # <<>> /\ args.structured
        /\ UNCHANGED input /\ todo' = Tail(todo)
        /\ keys' = Append(keys, KeyOf[Head(todo)])
        /\ args.path # "-" /\ source.request # BadDocument
    BY <1>8 DEF AddKey, GoTo, InputAt
  <2>2. PICK n \in 0..Len(given) :
            todo = SubSeq(given, n + 1, Len(given)) /\ keys = Map(KeyOf, SubSeq(given, 1, n))
    BY <2>1 DEF InputAt
  <2>3. given \in Seq(Line) /\ Len(given) \in 0..Len(given)
    BY <2>1, InputTyped
  <2>4. n # Len(given) /\ Head(todo) = given[n + 1]
        /\ todo' = SubSeq(given, n + 1 + 1, Len(given))
    BY <2>1, <2>2, <2>3, RestOfList
  <2>5. n \in 0..(Len(given) - 1) /\ n + 1 \in 0..Len(given)
    BY <2>2, <2>3, <2>4
  <2>6. keys' = Map(KeyOf, SubSeq(given, 1, n + 1))
    <3>1. Map(KeyOf, SubSeq(given, 1, n + 1))
            = Append(Map(KeyOf, SubSeq(given, 1, n)), KeyOf[given[n + 1]])
      BY <2>3, <2>5, MappedPrefix
    <3> QED
      BY <2>1, <2>2, <2>4, <3>1
  <2>7. UNCHANGED <<args, source>>
    BY <2>1, InputKept
  <2> QED
    BY <2>1, <2>4, <2>5, <2>6, <2>7 DEF InputAt
<1>9. CASE AllKeysAdded
  <2> DEFINE given == source.request.keys
  <2>1. /\ pc = "add_key" /\ pc' = "set_keyset" /\ todo = <<>> /\ args.structured
        /\ UNCHANGED <<input, keys>>
        /\ args.path # "-" /\ source.request # BadDocument
    BY <1>9 DEF AllKeysAdded, GoTo, InputAt
  <2>2. PICK n \in 0..Len(given) :
            todo = SubSeq(given, n + 1, Len(given)) /\ keys = Map(KeyOf, SubSeq(given, 1, n))
    BY <2>1 DEF InputAt
  <2>3. given \in Seq(Line) /\ Len(given) \in 0..Len(given)
    BY <2>1, InputTyped
  <2>4. n = Len(given)
    <3> HIDE DEF given
    <3>1. n # Len(given) => SubSeq(given, n + 1, Len(given)) # <<>>
      BY <2>3, RestOfList
    <3> QED
      BY <2>1, <2>2, <3>1
  <2>5. keys = WantedKeys
    BY <2>1, <2>2, <2>3, <2>4, MappedPrefix DEF WantedKeys
  <2> QED
    BY <2>1, <2>5, InputKept DEF InputAt
<1>10. CASE SetKeyset \/ SetMethod \/ SetTarget \/ SetOption \/ OptionsSet
            \/ Build \/ QuerySize
  <2>1. /\ pc \in Setting \cup Emitting /\ pc' \in Setting \cup Emitting
        /\ UNCHANGED <<input, keys>>
    BY <1>10 DEF SetKeyset, SetMethod, SetTarget, SetOption, OptionsSet, Build,
                 QuerySize, GoTo
  <2> QED
    BY <2>1, InputKept DEF InputAt
<1>11. CASE Last
  BY <1>1, <1>11, NextLeaves
<1>12. CASE UNCHANGED vars
  <2>1. UNCHANGED <<input, pc, keys, todo>>
    BY <1>12 DEF vars, locals
  <2>2. \A n : KeysUpTo(n)' = KeysUpTo(n)
    BY <2>1, InputKept
  <2> QED
    BY <2>1, <2>2, InputKept DEF InputAt
<1> QED
  BY NextSplit, <1>2, <1>3, <1>4, <1>5, <1>6, <1>7, <1>8, <1>9, <1>10, <1>11, <1>12

(***************************************************************************)
(* The table has taken the names the inputs stand for, and they are known. *)
(***************************************************************************)
LEMMA NextChoices ==
    ASSUME TypeOK, NamesAt, ChoicesAt, [Next]_vars
    PROVE  ChoicesAt'
<1> USE DEF Starting, Reading, Setting, Emitting, Naming, Leaving
<1>1. ASSUME pc' \in Leaving PROVE ChoicesAt'
  BY <1>1 DEF ChoicesAt
<1>2. CASE CreateKeyset \/ CreateTable
  BY <1>1, <1>2 DEF CreateKeyset, CreateTable, GoTo, ChoicesAt
<1>3. CASE DumpSchema
  <2>1. UNCHANGED input /\ method' = WantedMethod /\ target' = WantedTarget
        /\ pc' \in Reading
    BY <1>3 DEF DumpSchema, GoTo, WantedMethod, WantedTarget
  <2> QED
    BY <2>1, InputKept DEF ChoicesAt
<1>4. CASE OpenInput \/ ReadLine \/ EndOfInput \/ AddKey \/ AllKeysAdded \/ SetKeyset
  <2>1. /\ pc \in Reading \cup {"set_keyset"}
        /\ pc' \in Reading \cup {"set_keyset", "set_method"}
        /\ UNCHANGED <<input, method, target>>
    BY <1>4 DEF OpenInput, ReadLine, EndOfInput, AddKey, AllKeysAdded, SetKeyset,
                GoTo, locals
  <2> QED
    BY <2>1, InputKept DEF ChoicesAt
<1>5. CASE LoadRequest
  <2>1. /\ pc \in Reading /\ pc' \in Reading /\ UNCHANGED input
        /\ method # Unset => UNCHANGED method
        /\ target # Unset => UNCHANGED target
    BY <1>5 DEF LoadRequest, GoTo
  <2> QED
    BY <2>1, InputKept DEF ChoicesAt, NamesAt
<1>6. CASE SetMethod
  <2>1. /\ pc = "set_method" /\ pc' = "set_target" /\ UNCHANGED <<input, method, target>>
        /\ tab'.method = method /\ method \in KnownMethod
    BY <1>6 DEF SetMethod, GoTo, locals, NamesAt, TypeOK
  <2> QED
    BY <2>1, InputKept DEF ChoicesAt
<1>7. CASE SetTarget
  <2>1. /\ pc = "set_target" /\ pc' = "set_option" /\ UNCHANGED <<input, method, target>>
        /\ tab'.target = target /\ target \in KnownTarget /\ tab'.method = tab.method
    BY <1>7 DEF SetTarget, GoTo, locals, NamesAt, TypeOK
  <2> QED
    BY <2>1, InputKept DEF ChoicesAt
<1>8. CASE SetOption \/ OptionsSet \/ Build \/ QuerySize
  <2>1. /\ pc \in {"set_option", "build"} \cup Emitting
        /\ pc' \in {"set_option", "build"} \cup Emitting
        /\ pc' \in Setting => pc \in Setting
        /\ UNCHANGED <<input, method, target>>
        /\ tab'.method = tab.method /\ tab'.target = tab.target
    BY <1>8 DEF SetOption, OptionsSet, Build, QuerySize, GoTo, locals, TypeOK
  <2> QED
    BY <2>1, InputKept DEF ChoicesAt
<1>9. CASE Last
  BY <1>1, <1>9, NextLeaves
<1>10. CASE UNCHANGED vars
  BY <1>10, InputKept DEF vars, locals, ChoicesAt
<1> QED
  BY NextSplit, <1>2, <1>3, <1>4, <1>5, <1>6, <1>7, <1>8, <1>9, <1>10

(***************************************************************************)
(* The table holds, for each key, the last value applied so far.           *)
(***************************************************************************)
LEMMA OptionsKept ==
    ASSUME UNCHANGED <<input, tab>>
    PROVE  \A n : OptionsApplied(n)' = OptionsApplied(n)
<1>1. tab' = tab /\ GivenOptions' = GivenOptions
      /\ \A n, k : ValueUpTo(n, k)' = ValueUpTo(n, k)
  BY InputKept
<1> QED
  BY <1>1 DEF OptionsApplied

LEMMA GivenTyped ==
    ASSUME TypeOK, args.structured => source.request # BadDocument
    PROVE  GivenOptions \in Seq(Option \cup {Malformed})
<1>1. CASE args.structured
  BY <1>1, InputTyped DEF GivenOptions
<1>2. CASE ~args.structured
  BY <1>2, InputTyped DEF GivenOptions
<1> QED
  BY <1>1, <1>2

LEMMA NextOptions ==
    ASSUME TypeOK, InputAt, OptionsAt, [Next]_vars
    PROVE  OptionsAt'
<1> USE DEF Starting, Reading, Setting, Emitting, Naming, Leaving
<1>1. ASSUME pc' \in Leaving PROVE OptionsAt'
  BY <1>1 DEF OptionsAt
<1>2. CASE CreateKeyset \/ CreateTable
  BY <1>1, <1>2 DEF CreateKeyset, CreateTable, GoTo, OptionsAt, NewTable
<1>3. CASE DumpSchema
  BY <1>3 DEF DumpSchema, GoTo, OptionsAt, NewTable, input
<1>4. CASE OpenInput \/ ReadLine
  BY <1>4 DEF OpenInput, ReadLine, GoTo, OptionsAt, NewTable, input
<1>5. CASE EndOfInput
  <2>1. /\ pc = "read_line" /\ pc' = "set_keyset" /\ ~args.structured
        /\ UNCHANGED <<input, options, tab>>
    BY <1>5 DEF EndOfInput, GoTo, InputAt, locals
  <2>2. args.options \o <<>> = args.options
    BY InputTyped, ConcatEmptySeq
  <2>3. options = GivenOptions
    BY <2>1, <2>2 DEF OptionsAt, GivenOptions
  <2> QED
    BY <2>1, <2>3, InputKept DEF OptionsAt, NewTable
<1>6. CASE LoadRequest
  <2>1. /\ pc = "load_request" /\ pc' = "add_key" /\ args.structured
        /\ UNCHANGED <<input, tab>> /\ options' = options \o source.request.options
    BY <1>6 DEF LoadRequest, GoTo, InputAt
  <2>2. options' = GivenOptions
    BY <2>1 DEF OptionsAt, GivenOptions
  <2> QED
    BY <2>1, <2>2, InputKept DEF OptionsAt, NewTable
<1>7. CASE AddKey \/ AllKeysAdded \/ SetKeyset \/ SetMethod
  <2>1. /\ pc \in {"add_key", "set_keyset", "set_method"}
        /\ pc' \in {"add_key"} \cup Naming
        /\ UNCHANGED <<input, options>> /\ tab'.options = tab.options
    BY <1>7 DEF AddKey, AllKeysAdded, SetKeyset, SetMethod, GoTo, locals, TypeOK
  <2> QED
    BY <2>1, InputKept DEF OptionsAt, NewTable
<1>8. CASE SetTarget
  <2>1. /\ pc = "set_target" /\ pc' = "set_option" /\ UNCHANGED <<input, options>>
        /\ tab'.options = tab.options
    BY <1>8 DEF SetTarget, GoTo, locals, TypeOK
  <2>2. GivenOptions \in Seq(Option \cup {Malformed})
    BY <2>1, GivenTyped DEF InputAt, OptionsAt, TypeOK
  <2>3. options' = SubSeq(GivenOptions, 0 + 1, Len(GivenOptions))
    BY <2>1, <2>2, SubSeqFull DEF OptionsAt
  <2>4. tab'.options = [k \in OptionKey |-> ValueUpTo(0, k)]
    BY <2>1, NoValue DEF OptionsAt, NewTable
  <2>5. OptionsApplied(0)' /\ 0 \in 0..Len(GivenOptions)
    BY <2>1, <2>2, <2>4, InputKept DEF OptionsApplied
  <2> QED
    BY <2>1, <2>3, <2>5, InputKept DEF OptionsAt
<1>9. CASE SetOption
  <2> DEFINE given == GivenOptions
             option == Head(options)
  <2>1. /\ pc = "set_option" /\ pc' = "set_option" /\ UNCHANGED input
        /\ options # <<>> /\ options' = Tail(options) /\ Taken(option)
        /\ tab' = [tab EXCEPT !.options[option.key] = option.value]
    BY <1>9 DEF SetOption, GoTo, Taken
  <2>2. given \in Seq(Option \cup {Malformed}) /\ Len(given) \in 0..Len(given)
    BY <2>1, GivenTyped, LenProperties DEF InputAt
  <2>3. PICK n \in 0..Len(given) :
            options = SubSeq(given, n + 1, Len(given)) /\ OptionsApplied(n)
    BY <2>1 DEF OptionsAt
  <2>4. n # Len(given) /\ option = given[n + 1]
        /\ options' = SubSeq(given, n + 1 + 1, Len(given))
    <3>1. /\ n = Len(given) => SubSeq(given, n + 1, Len(given)) = <<>>
          /\ n # Len(given) =>
                /\ Head(SubSeq(given, n + 1, Len(given))) = given[n + 1]
                /\ Tail(SubSeq(given, n + 1, Len(given)))
                        = SubSeq(given, n + 1 + 1, Len(given))
      BY <2>2, RestOfList
    <3> QED
      BY <2>1, <2>3, <3>1
  <2>5. n \in Nat /\ n + 1 \in 0..Len(given) /\ n + 1 \in 1..Len(given)
    BY <2>2, <2>3, <2>4
  <2>6. given[n + 1] \in Option
    BY <2>1, <2>2, <2>4, <2>5 DEF Taken
  <2>7. tab'.options = [k \in OptionKey |-> ValueUpTo(n + 1, k)]
    <3>1. /\ tab.options = [k \in OptionKey |-> ValueUpTo(n, k)]
          /\ tab'.options = [tab.options EXCEPT ![option.key] = option.value]
      BY <2>1, <2>3 DEF OptionsApplied, TypeOK
    <3>2. option.key \in OptionKey
      BY <2>4, <2>6 DEF Option
    <3>3. \A k \in OptionKey : ValueUpTo(n + 1, k)
                = IF option.key = k THEN option.value ELSE ValueUpTo(n, k)
      BY <2>4, <2>5, OneMoreOption
    <3> HIDE DEF option
    <3> QED
      BY <3>1, <3>2, <3>3
  <2>8. OptionsApplied(n + 1)'
    <3>1. \A i \in 1..(n + 1) : Taken(given[i])
      <4>1. \A i \in 1..(n + 1) : i \in 1..n \/ i = n + 1
        BY <2>5
      <4> QED
        BY <2>1, <2>3, <2>4, <4>1 DEF OptionsApplied
    <3>2. GivenOptions' = GivenOptions /\ \A k : ValueUpTo(n + 1, k)' = ValueUpTo(n + 1, k)
      BY <2>1, InputKept
    <3> QED
      BY <2>7, <3>1, <3>2 DEF OptionsApplied, Taken
  <2> QED
    BY <2>1, <2>4, <2>5, <2>8, InputKept DEF OptionsAt
<1>10. CASE OptionsSet
  <2>1. /\ pc = "set_option" /\ pc' = "build" /\ options = <<>>
        /\ UNCHANGED <<input, tab>>
    BY <1>10 DEF OptionsSet, GoTo
  <2>2. GivenOptions \in Seq(Option \cup {Malformed})
        /\ Len(GivenOptions) \in 0..Len(GivenOptions)
    BY <2>1, GivenTyped, LenProperties DEF InputAt
  <2>3. PICK n \in 0..Len(GivenOptions) :
            options = SubSeq(GivenOptions, n + 1, Len(GivenOptions)) /\ OptionsApplied(n)
    BY <2>1 DEF OptionsAt
  <2>4. n = Len(GivenOptions)
    <3>1. n # Len(GivenOptions) =>
            SubSeq(GivenOptions, n + 1, Len(GivenOptions)) # <<>>
      BY <2>2, RestOfList
    <3> QED
      BY <2>1, <2>3, <3>1
  <2> QED
    BY <2>1, <2>3, <2>4, OptionsKept, InputKept DEF OptionsAt
<1>11. CASE Build \/ QuerySize
  <2>1. /\ pc \in {"build"} \cup Emitting /\ pc' \in Emitting
        /\ UNCHANGED input /\ tab'.options = tab.options
    BY <1>11 DEF Build, QuerySize, GoTo, TypeOK
  <2>2. OptionsApplied(Len(GivenOptions))
    BY <2>1 DEF OptionsAt
  <2>3. /\ UNCHANGED GivenOptions
        /\ \A n, k : ValueUpTo(n, k)' = ValueUpTo(n, k)
    BY <2>1, InputKept
  <2>4. OptionsApplied(Len(GivenOptions))'
    BY <2>1, <2>2, <2>3 DEF OptionsApplied, Taken
  <2> QED
    BY <2>1, <2>4 DEF OptionsAt
<1>12. CASE Last
  BY <1>1, <1>12, NextLeaves
<1>13. CASE UNCHANGED vars
  <2>1. UNCHANGED <<input, pc, options, tab>>
    BY <1>13 DEF vars, locals
  <2> QED
    BY <2>1, InputKept, OptionsKept DEF OptionsAt, NewTable
<1> QED
  BY NextSplit, <1>2, <1>3, <1>4, <1>5, <1>6, <1>7, <1>8, <1>9, <1>10, <1>11, <1>12,
     <1>13

-----------------------------------------------------------------------------
(***************************************************************************)
(* What the inputs stand for is an artifact; emitting finds them sound and *)
(* emits that artifact.                                                    *)
(***************************************************************************)
LEMMA WantedKeysTyped ==
    ASSUME TypeOK, args.structured => source.request # BadDocument
    PROVE  WantedKeys \in Seq(Key)
<1>1. \A s \in Seq(Line) : Map(KeyOf, s) \in Seq(Key)
  BY BuildAssumption DEF Map
<1>2. CASE args.structured
  BY <1>1, <1>2, InputTyped DEF WantedKeys
<1>3. CASE ~args.structured
  <2> DEFINE P == {i \in 1..source.readable : source.lines[i] # Blank}
  <2>1. source.lines \in Seq(Line) /\ source.readable \in 0..Len(source.lines)
    BY InputTyped
  <2>2. source.readable \in Nat /\ P \in SUBSET (1..source.readable)
    BY <2>1
  <2>3. WantedKeys = Map(KeyOf, Picked(source.lines, P))
    BY <1>3 DEF WantedKeys, KeysUpTo
  <2>4. \A i \in P : source.lines[i] \in Line
    BY <2>1
  <2> HIDE DEF P
  <2>5. Picked(source.lines, P) \in Seq(Line)
    BY <2>2, <2>4, PickedTyped
  <2> QED
    BY <1>1, <2>3, <2>5
<1> QED
  BY <1>2, <1>3

LEMMA WantedTyped ==
    ASSUME TypeOK
    PROVE  /\ Wanted \in Artifact \cup {Nothing}
           /\ Sound <=> Wanted # Nothing
<1>1. ASSUME Sound PROVE Wanted \in Artifact
  <2>1. WantedKeys \in Seq(Key)
    BY <1>1, WantedKeysTyped DEF Sound
  <2>2. WantedMethod \in Name /\ WantedTarget \in Name
    BY InputTyped, BuildAssumption DEF WantedMethod, WantedTarget
  <2>3. GivenOptions \in Seq(Option \cup {Malformed})
    BY <1>1, GivenTyped DEF Sound
  <2>4. Len(GivenOptions) \in Nat
        /\ \A i \in 1..Len(GivenOptions) : GivenOptions[i] \in Option
    BY <1>1, <2>3 DEF Sound, Taken
  <2>5. \A k : ValueUpTo(Len(GivenOptions), k) \in OptionValue \cup {Unset}
    BY <2>4, ValueTyped
  <2> QED
    BY <1>1, <2>1, <2>2, <2>5 DEF Wanted, Artifact, Settings
<1>2. Nothing \notin Artifact
  BY BuildAssumption
<1> QED
  BY <1>1, <1>2 DEF Wanted

LEMMA EmittedIsWanted ==
    ASSUME TypeOK, InputAt, ChoicesAt, OptionsAt, pc \in Emitting
    PROVE  Sound /\ Emitted = Wanted
<1>1. /\ args.structured => args.path # "-" /\ source.request # BadDocument
      /\ keys = WantedKeys
      /\ tab.method = WantedMethod /\ WantedMethod \in KnownMethod
      /\ tab.target = WantedTarget /\ WantedTarget \in KnownTarget
      /\ OptionsApplied(Len(GivenOptions))
  BY DEF InputAt, ChoicesAt, OptionsAt
<1>2. DOMAIN GivenOptions = 1..Len(GivenOptions)
  BY <1>1, GivenTyped, LenProperties
<1>3. Sound
  BY <1>1, <1>2 DEF Sound, OptionsApplied
<1> QED
  BY <1>1, <1>3 DEF Emitted, Wanted, OptionsApplied

(***************************************************************************)
(* A status of 0 goes with the artifact, a status of 1 with no artifact or *)
(* a damaged one.                                                          *)
(***************************************************************************)
LEMMA NextOutcome ==
    ASSUME TypeOK, InputAt, ChoicesAt, OptionsAt, OutcomeAt, [Next]_vars
    PROVE  OutcomeAt'
<1> USE DEF Starting, Reading, Setting, Emitting, Naming, Leaving, GoTo
<1>1. ASSUME Next PROVE UNCHANGED input
  BY <1>1, NextSplit
     DEF CreateKeyset, CreateTable, DumpSchema, OpenInput, ReadLine, EndOfInput,
         LoadRequest, AddKey, AllKeysAdded, SetKeyset, SetMethod, SetTarget,
         SetOption, OptionsSet, Build, QuerySize, Last, EmitBuffer, EmitFile,
         EmitFileFails, FreeTable, FreeKeyset, Fails
<1>2. CASE CreateKeyset \/ CreateTable
  BY <1>2 DEF CreateKeyset, CreateTable, OutcomeAt
<1>3. CASE DumpSchema \/ OpenInput \/ ReadLine \/ EndOfInput \/ LoadRequest \/ AddKey
           \/ AllKeysAdded \/ SetKeyset \/ SetMethod \/ SetTarget \/ SetOption
           \/ OptionsSet \/ Build \/ QuerySize
  <2>1. pc \notin Leaving /\ pc' \notin Leaving /\ UNCHANGED <<out, rc>>
    BY <1>3 DEF DumpSchema, OpenInput, ReadLine, EndOfInput,
         LoadRequest, AddKey, AllKeysAdded, SetKeyset, SetMethod, SetTarget,
         SetOption, OptionsSet, Build, QuerySize
  <2> QED
    BY <2>1 DEF OutcomeAt
<1>4. CASE EmitBuffer \/ EmitFile
  <2>1. /\ pc \in Emitting /\ pc' \in Leaving /\ out' = Emitted /\ rc' = 0
        /\ UNCHANGED input
    BY <1>4 DEF EmitBuffer, EmitFile, OutcomeAt
  <2>2. out' = Wanted /\ Wanted # Nothing
    BY <2>1, EmittedIsWanted, WantedTyped
  <2>3. Wanted' = Wanted
    BY <2>1, InputKept
  <2> QED
    BY <2>1, <2>2, <2>3 DEF OutcomeAt
<1>5. CASE EmitFileFails
  BY <1>5 DEF EmitFileFails, Fail, OutcomeAt
<1>6. CASE FreeTable \/ FreeKeyset
  <2>1. pc \in Leaving /\ pc' \in Leaving /\ UNCHANGED <<out, rc, input>>
    BY <1>6 DEF FreeTable, FreeKeyset
  <2> QED
    BY <2>1, InputKept DEF OutcomeAt
<1>7. ASSUME NEW label \in {"dump_schema"} \cup Reading \cup Setting \cup Emitting,
             Fails(label)
      PROVE  OutcomeAt'
  BY <1>7 DEF Fails, Fail, OutcomeAt
<1>8. CASE UNCHANGED vars
  <2>1. UNCHANGED <<pc, out, rc, input>>
    BY <1>8 DEF vars
  <2> QED
    BY <2>1, InputKept DEF OutcomeAt
<1> QED
  BY NextSplit, <1>2, <1>3, <1>4, <1>5, <1>6, <1>7, <1>8 DEF Last

-----------------------------------------------------------------------------
(***************************************************************************)
(* The two invariants are inductive together.                              *)
(***************************************************************************)
LEMMA InitData == Init => DataInv
  BY DEF Init, DataInv, InputAt, ChoicesAt, OptionsAt, OutcomeAt, Starting,
         Reading, Setting, Emitting, Naming, Leaving

LEMMA DataInvariant == Spec => []DataInv
<1>1. RunInv /\ DataInv /\ [Next]_vars => DataInv'
  BY NextInput, NextChoices, NextOptions, NextOutcome DEF RunInv, DataInv
<1> QED
  BY <1>1, InitData, RunInvariant, PTL DEF Spec

(***************************************************************************)
(* cmd_build_run refines BuildCommand: handing the artifact over is        *)
(* Deliver or Damage, returning is Succeed or Fail, and every other call   *)
(* changes nothing the caller can see.                                     *)
(***************************************************************************)
LEMMA CommandInit == Init => Command!Init
<1> SUFFICES ASSUME Init PROVE Command!Init
  OBVIOUS
<1>1. TypeOK
  BY InitRun DEF RunInv
<1>2. Wanted \in Artifact \cup {Nothing}
  BY <1>1, WantedTyped
<1> QED
  BY <1>2 DEF Init, Command!Init, ExitSeen

LEMMA CommandStep ==
    RunInv /\ DataInv /\ [Next]_vars => [Command!Next]_(Command!vars)
<1> SUFFICES ASSUME RunInv, DataInv, [Next]_vars
             PROVE  [Command!Next]_(Command!vars)
  OBVIOUS
<1> USE DEF Starting, Reading, Setting, Emitting, Naming, Leaving, GoTo
<1>1. TypeOK /\ InputAt /\ ChoicesAt /\ OptionsAt /\ OutcomeAt
  BY DEF RunInv, DataInv
<1>2. UNCHANGED input
  BY NextSplit
     DEF CreateKeyset, CreateTable, DumpSchema, OpenInput, ReadLine, EndOfInput,
         LoadRequest, AddKey, AllKeysAdded, SetKeyset, SetMethod, SetTarget,
         SetOption, OptionsSet, Build, QuerySize, Last, EmitBuffer, EmitFile,
         EmitFileFails, FreeTable, FreeKeyset, Fails, vars
<1>3. Wanted' = Wanted
  BY <1>2, InputKept
<1>4. ASSUME UNCHANGED out, pc # "returned", pc' # "returned"
      PROVE  UNCHANGED Command!vars
  BY <1>3, <1>4 DEF Command!vars, ExitSeen
<1>5. CASE CreateKeyset
  <2>1. pc = "create_keyset" /\ UNCHANGED out
        /\ (pc' # "returned" \/ (pc' = "returned" /\ rc' = 1))
    BY <1>5 DEF CreateKeyset
  <2>2. out = Nothing
    BY <1>1, <2>1 DEF OutcomeAt
  <2>3. CASE pc' # "returned"
    BY <1>4, <2>1, <2>3
  <2>4. CASE pc' = "returned" /\ rc' = 1
    BY <1>3, <2>1, <2>2, <2>4 DEF ExitSeen, Command!Next, Command!Fail
  <2> QED
    BY <2>1, <2>3, <2>4
<1>6. CASE CreateTable \/ DumpSchema \/ OpenInput \/ ReadLine \/ EndOfInput
           \/ LoadRequest \/ AddKey \/ AllKeysAdded \/ SetKeyset \/ SetMethod
           \/ SetTarget \/ SetOption \/ OptionsSet \/ Build \/ QuerySize \/ FreeTable
  <2>1. UNCHANGED out /\ pc # "returned" /\ pc' # "returned"
    BY <1>6 DEF CreateTable, DumpSchema, OpenInput, ReadLine, EndOfInput,
         LoadRequest, AddKey, AllKeysAdded, SetKeyset, SetMethod, SetTarget,
         SetOption, OptionsSet, Build, QuerySize, FreeTable
  <2> QED
    BY <1>4, <2>1
<1>7. CASE EmitBuffer \/ EmitFile
  <2>1. /\ pc \in Emitting /\ pc' = "free_table" /\ out' = Emitted
    BY <1>7 DEF EmitBuffer, EmitFile
  <2>2. out = Nothing /\ out' = Wanted /\ Wanted # Nothing
    BY <1>1, <2>1, EmittedIsWanted, WantedTyped DEF OutcomeAt
  <2>3. Command!Deliver
    BY <1>3, <2>1, <2>2 DEF ExitSeen, Command!Deliver
  <2> QED
    BY <2>3 DEF Command!Next
<1>8. CASE EmitFileFails
  <2>1. /\ pc \in Emitting /\ pc' = "free_table" /\ out' \in {Nothing, Damaged}
    BY <1>8 DEF EmitFileFails, Fail
  <2>2. out = Nothing /\ Wanted # Nothing
    BY <1>1, <2>1, EmittedIsWanted, WantedTyped DEF OutcomeAt
  <2>3. CASE out' = Nothing
    BY <1>4, <2>1, <2>2, <2>3
  <2>4. CASE out' = Damaged
    <3>1. Command!Damage
      BY <1>3, <2>1, <2>2, <2>4 DEF ExitSeen, Command!Damage
    <3> QED
      BY <3>1 DEF Command!Next
  <2> QED
    BY <2>1, <2>3, <2>4
<1>9. CASE FreeKeyset
  <2>1. pc = "free_keyset" /\ pc' = "returned" /\ UNCHANGED <<out, rc>>
    BY <1>9 DEF FreeKeyset
  <2>2. rc = 0 \/ rc = 1
    BY <1>1 DEF TypeOK
  <2>3. CASE rc = 0
    <3>1. Command!Succeed
      BY <1>1, <1>3, <2>1, <2>3 DEF OutcomeAt, ExitSeen, Command!Succeed
    <3> QED
      BY <3>1 DEF Command!Next
  <2>4. CASE rc = 1
    <3>1. Command!Fail
      BY <1>1, <1>3, <2>1, <2>4 DEF OutcomeAt, ExitSeen, Command!Fail
    <3> QED
      BY <3>1 DEF Command!Next
  <2> QED
    BY <2>2, <2>3, <2>4
<1>10. ASSUME NEW label \in {"dump_schema"} \cup Reading \cup Setting \cup Emitting,
              Fails(label)
       PROVE  [Command!Next]_(Command!vars)
  BY <1>4, <1>10 DEF Fails, Fail
<1>11. CASE UNCHANGED vars
  BY <1>3, <1>11 DEF vars, Command!vars, ExitSeen
<1> QED
  BY NextSplit, <1>5, <1>6, <1>7, <1>8, <1>9, <1>10, <1>11 DEF Last

(***************************************************************************)
(* What cmd_build_run hands over is the artifact its inputs stand for: the *)
(* keys of all lines read or requested, in order, the names with their     *)
(* defaults and the last value given for each option, whole and at most    *)
(* once, before it returns 0; or it returns 1, having handed over nothing  *)
(* or damaged the output file.                                             *)
(***************************************************************************)
THEOREM CommandImplemented == Spec => ImplementsCommand
<1>1. Spec => [](RunInv /\ DataInv)
  BY RunInvariant, DataInvariant, PTL
<1> QED
  BY <1>1, CommandInit, CommandStep, PTL DEF Spec, ImplementsCommand, Command!Spec

-----------------------------------------------------------------------------
(***************************************************************************)
(* The end.  StepsLeft counts the calls to the end if no loop took a turn, *)
(* and the turns: one for each line or key not read yet and for each       *)
(* option not applied yet.                                                 *)
(***************************************************************************)
RequestSize ==
    IF source.request = BadDocument THEN 0
    ELSE Len(source.request.keys) + Len(source.request.options)

StepsLeft ==
    LET given == Len(args.options) + source.readable + RequestSize
        unread == Len(options) + source.readable + RequestSize
        loaded == Len(todo) + Len(options)
    IN  CASE pc = "create_keyset" -> given + 14
          [] pc = "create_table" -> given + 13
          [] pc = "dump_schema" -> given + 12
          [] pc \in {"open_input", "load_request"} -> unread + 11
          [] pc \in {"read_line", "add_key"} -> loaded + 10
          [] pc = "set_keyset" -> loaded + 9
          [] pc = "set_method" -> loaded + 8
          [] pc = "set_target" -> loaded + 7
          [] pc = "set_option" -> loaded + 6
          [] pc = "build" -> 5
          [] pc = "query_size" -> 4
          [] pc \in {"emit_buffer", "emit_file"} -> 3
          [] pc = "free_table" -> 2
          [] pc = "free_keyset" -> 1
          [] pc = "returned" -> 0

LEMMA SizesTyped ==
    ASSUME TypeOK
    PROVE  /\ Len(todo) \in Nat /\ Len(options) \in Nat
           /\ Len(args.options) \in Nat /\ source.readable \in Nat
           /\ source.readable <= Len(source.lines) /\ source.lines \in Seq(Line)
           /\ RequestSize \in Nat
           /\ source.request # BadDocument =>
                  /\ source.request.keys \in Seq(Line)
                  /\ source.request.options \in Seq(Option)
<1>1. args.options \in Seq(Option \cup {Malformed}) /\ source.readable \in Nat
  BY InputTyped
<1>2. /\ source.lines \in Seq(Line) /\ source.readable <= Len(source.lines)
      /\ source.request \in Request \cup {BadDocument}
  BY BuildAssumption DEF TypeOK
<1>3. source.request # BadDocument =>
          source.request.keys \in Seq(Line) /\ source.request.options \in Seq(Option)
  BY <1>2 DEF Request
<1>4. RequestSize \in Nat
  <2>1. source.request # BadDocument =>
            Len(source.request.keys) \in Nat /\ Len(source.request.options) \in Nat
    BY <1>3, LenProperties
  <2>2. CASE source.request = BadDocument
    BY <2>2 DEF RequestSize
  <2>3. CASE source.request # BadDocument
    <3>1. RequestSize = Len(source.request.keys) + Len(source.request.options)
      BY <2>3 DEF RequestSize
    <3>2. \A i, j \in Nat : i + j \in Nat
      OBVIOUS
    <3> QED
      BY <2>1, <2>3, <3>1, <3>2, Zenon
  <2> QED
    BY <2>2, <2>3
<1> QED
  BY <1>1, <1>2, <1>3, <1>4, LenProperties DEF TypeOK

LEMMA StepsLeftTyped == TypeOK => StepsLeft \in Nat
<1> SUFFICES ASSUME TypeOK PROVE StepsLeft \in Nat
  OBVIOUS
<1>1. /\ Len(todo) \in Nat /\ Len(options) \in Nat /\ RequestSize \in Nat
      /\ Len(args.options) \in Nat /\ source.readable \in Nat /\ pc \in Pc
  BY SizesTyped DEF TypeOK
<1>2. \A i, j \in Nat : i + j \in Nat
  OBVIOUS
<1>3. /\ Len(args.options) + source.readable + RequestSize \in Nat
      /\ Len(options) + source.readable + RequestSize \in Nat
      /\ Len(todo) + Len(options) \in Nat
  BY <1>1, <1>2, Zenon
<1> DEFINE given == Len(args.options) + source.readable + RequestSize
           unread == Len(options) + source.readable + RequestSize
           loaded == Len(todo) + Len(options)
<1>4. \/ StepsLeft \in {given + 14, given + 13, given + 12, unread + 11}
      \/ StepsLeft \in {loaded + 10, loaded + 9, loaded + 8, loaded + 7, loaded + 6}
      \/ StepsLeft \in 0..5
  <2>1. CASE pc \in {"create_keyset", "create_table", "dump_schema", "open_input", "load_request"}
    BY <2>1 DEF StepsLeft
  <2>2. CASE pc \in {"read_line", "add_key", "set_keyset", "set_method", "set_target", "set_option"}
    BY <2>2 DEF StepsLeft
  <2>3. CASE pc \in {"build", "query_size", "emit_buffer", "emit_file", "free_table",
                     "free_keyset", "returned"}
    <3>1. StepsLeft \in {0, 1, 2, 3, 4, 5}
      BY <2>3 DEF StepsLeft
    <3> QED
      BY <3>1
  <2> QED
    BY <1>1, <2>1, <2>2, <2>3 DEF Pc
<1>5. given \in Nat /\ unread \in Nat /\ loaded \in Nat
  BY <1>3
<1> HIDE DEF given, unread, loaded
<1> QED
  BY <1>4, <1>5

LEMMA InputStays == ASSUME Next PROVE UNCHANGED <<args, source>>
BY NextSplit
   DEF CreateKeyset, CreateTable, DumpSchema, OpenInput, ReadLine, EndOfInput, LoadRequest,
       AddKey, AllKeysAdded, SetKeyset, SetMethod, SetTarget, SetOption, OptionsSet, Build,
       QuerySize, Last, EmitBuffer, EmitFile, EmitFileFails, FreeTable, FreeKeyset, Fails,
       input

LEMMA StepsFall ==
    ASSUME TypeOK, Next
    PROVE  StepsLeft' < StepsLeft
<1>1. UNCHANGED <<args, source>> /\ RequestSize' = RequestSize
  BY InputStays DEF RequestSize
<1>2. /\ Len(todo) \in Nat /\ Len(options) \in Nat /\ RequestSize \in Nat
      /\ Len(args.options) \in Nat /\ source.readable \in Nat
      /\ source.readable <= Len(source.lines) /\ source.lines \in Seq(Line)
      /\ todo \in Seq(Line) /\ options \in Seq(Option \cup {Malformed})
  BY SizesTyped DEF TypeOK
<1> USE DEF StepsLeft, GoTo
<1>3. CASE CreateKeyset \/ CreateTable
  <2>1. \/ pc = "create_keyset" /\ pc' \in {"create_table", "returned"}
        \/ pc = "create_table" /\ pc' \in {"dump_schema", "free_keyset"}
    BY <1>3 DEF CreateKeyset, CreateTable
  <2>2. /\ Len(args.options) + source.readable + RequestSize \in Nat
        /\ (Len(args.options) + source.readable + RequestSize)'
              = Len(args.options) + source.readable + RequestSize
    BY <1>1, <1>2
  <2> DEFINE given == Len(args.options) + source.readable + RequestSize
  <2> HIDE DEF given
  <2>3. given \in Nat /\ given' = given
    BY <2>2 DEF given
  <2>4. /\ pc = "create_keyset" => StepsLeft = given + 14
        /\ pc = "create_table" => StepsLeft = given + 13
        /\ pc' = "create_table" => StepsLeft' = given' + 13
        /\ pc' = "dump_schema" => StepsLeft' = given' + 12
        /\ pc' = "free_keyset" => StepsLeft' = 1
        /\ pc' = "returned" => StepsLeft' = 0
    BY DEF given
  <2> HIDE DEF StepsLeft
  <2> QED
    BY <2>1, <2>3, <2>4
<1>4. CASE DumpSchema
  <2>1. options' = args.options /\ pc = "dump_schema" /\ pc' \in {"load_request", "open_input"}
    BY <1>4 DEF DumpSchema
  <2> QED
    BY <1>1, <1>2, <2>1
<1>5. CASE OpenInput
  <2>1. /\ todo' = SubSeq(source.lines, 1, source.readable) /\ options' = options
        /\ pc = "open_input" /\ pc' = "read_line"
    BY <1>5 DEF OpenInput
  <2>2. Len(todo') = source.readable
    BY <1>2, <2>1
  <2> QED
    BY <1>1, <1>2, <2>1, <2>2
<1>6. CASE LoadRequest
  <2>1. /\ todo' = source.request.keys /\ options' = options \o source.request.options
        /\ source.request # BadDocument
        /\ pc = "load_request" /\ pc' = "add_key"
    BY <1>6 DEF LoadRequest
  <2>2. source.request.keys \in Seq(Line) /\ source.request.options \in Seq(Option)
    BY <2>1, SizesTyped
  <2>3. /\ Len(options') = Len(options) + Len(source.request.options)
        /\ Len(todo') + Len(source.request.options) = RequestSize
        /\ Len(todo') \in Nat /\ Len(source.request.options) \in Nat
    BY <1>2, <2>1, <2>2, ConcatProperties, LenProperties DEF RequestSize
  <2>4. /\ StepsLeft = Len(options) + source.readable + RequestSize + 11
        /\ StepsLeft' = Len(todo') + Len(options') + 10
    BY <2>1
  <2> HIDE DEF StepsLeft
  <2>5. \A given, more, read, size, l \in Nat :
            l + more = size => l + (given + more) + 10 < given + read + size + 11
    OBVIOUS
  <2>6. StepsLeft' = Len(todo') + (Len(options) + Len(source.request.options)) + 10
    BY <2>3, <2>4
  <2>7. Len(todo') + (Len(options) + Len(source.request.options)) + 10
            < Len(options) + source.readable + RequestSize + 11
    BY <1>2, <2>3, <2>5, Zenon
  <2> QED
    BY <2>4, <2>6, <2>7, Zenon
<1>7. CASE ReadLine \/ AddKey
  <2>1. /\ todo # <<>> /\ todo' = Tail(todo) /\ options' = options
        /\ pc \in {"read_line", "add_key"} /\ pc' = pc
    BY <1>7 DEF ReadLine, AddKey
  <2>2. Len(todo') = Len(todo) - 1
    BY <1>2, <2>1, HeadTailProperties
  <2> QED
    BY <1>2, <2>1, <2>2
<1>8. CASE SetOption
  <2>1. /\ options # <<>> /\ options' = Tail(options) /\ todo' = todo
        /\ pc = "set_option" /\ pc' = pc
    BY <1>8 DEF SetOption
  <2>2. Len(options') = Len(options) - 1
    BY <1>2, <2>1, HeadTailProperties
  <2> QED
    BY <1>2, <2>1, <2>2
<1>9. CASE EndOfInput \/ AllKeysAdded \/ SetKeyset \/ SetMethod \/ SetTarget \/ OptionsSet
  <2>1. /\ todo' = todo /\ options' = options
        /\ \/ pc \in {"read_line", "add_key"} /\ pc' = "set_keyset"
           \/ pc = "set_keyset" /\ pc' = "set_method"
           \/ pc = "set_method" /\ pc' = "set_target"
           \/ pc = "set_target" /\ pc' = "set_option"
           \/ pc = "set_option" /\ pc' = "build"
    BY <1>9 DEF EndOfInput, AllKeysAdded, SetKeyset, SetMethod, SetTarget, OptionsSet, locals
  <2> QED
    BY <1>2, <2>1
<1>10. CASE Build \/ QuerySize
  BY <1>10 DEF Build, QuerySize
<1>11. CASE Last
  <2>1. \/ pc' = "free_table" /\ pc \in {"dump_schema"} \cup Reading \cup Setting \cup Emitting
        \/ pc = "free_table" /\ pc' = "free_keyset"
        \/ pc = "free_keyset" /\ pc' = "returned"
    BY <1>11 DEF Last, EmitBuffer, EmitFile, EmitFileFails, FreeTable, FreeKeyset, Fails, Fail,
                Emitting
  <2> QED
    BY <1>2, <2>1 DEF Reading, Setting, Emitting
<1> QED
  BY <1>3, <1>4, <1>5, <1>6, <1>7, <1>8, <1>9, <1>10, <1>11, NextSplit

(***************************************************************************)
(* Every call brings cmd_build_run nearer to its return: for inputs and    *)
(* option lists of any length no loop turns for ever and no buffer is      *)
(* asked for again and again (src/src/main.cpp:311-462).  Returns adds,    *)
(* with fairness, that it does not stop before.                            *)
(***************************************************************************)
THEOREM BuildRunsOut == Spec => [](StepsLeft \in Nat) /\ [][StepsLeft' < StepsLeft]_vars
<1>1. TypeOK => StepsLeft \in Nat
  BY StepsLeftTyped
<1>2. TypeOK /\ [Next]_vars => [StepsLeft' < StepsLeft]_vars
  BY StepsFall
<1> QED
  BY <1>1, <1>2, TypeCorrect, PTL DEF Spec

=============================================================================
