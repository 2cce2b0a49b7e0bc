---------------------------- MODULE StddefProofs ----------------------------
(***************************************************************************)
(* Proofs about Stddef, for every set of strings, results and buffers.     *)
(***************************************************************************)
EXTENDS Stddef, PositionsProofs

(***************************************************************************)
(* Where stddef_emit stands decides what the sink has seen, and nothing    *)
(* has been answered while it is under way.                                *)
(***************************************************************************)
InStep ==
    /\ pc = "begin" => sink.state = "none"
    /\ pc \in {"format", "write"} => sink.state = "begun"
    /\ pc = "end" => sink.state = "written" /\ sink.content = output
    /\ pc \notin {"absent", "idle"} => status = "none"

Shape ==
    /\ pc \in {"absent", "idle", "begin", "format", "write", "end"}
    /\ DOMAIN sink = {"name", "state", "content"}

EmitInv == Shape /\ InStep /\ OKMeansWhole

LEMMA EmitInit == Init => EmitInv
BY DEF Init, EmitInv, Shape, InStep, OKMeansWhole

LEMMA EmitStep == EmitInv /\ [Next]_vars => EmitInv'
<1> SUFFICES ASSUME EmitInv, [Next]_vars PROVE EmitInv'
    OBVIOUS
<1> USE DEF EmitInv, Shape, InStep, OKMeansWhole
<1>1. ASSUME NEW o \in Option, NEW value \in Given, SetOption(o, value)
      PROVE  EmitInv'
    BY <1>1 DEF SetOption
<1>2. ASSUME NEW o \in Option, NEW buffer \in Buffer, GetOption(o, buffer)
      PROVE  EmitInv'
    BY <1>2 DEF GetOption
<1>3. ASSUME NEW r \in HashResult, Emit(r) PROVE EmitInv'
    BY <1>3 DEF Emit
<1>4. ASSUME BeginArtifact PROVE EmitInv'
    BY <1>4 DEF BeginArtifact, Return
<1>5. ASSUME Format PROVE EmitInv'
    BY <1>5 DEF Format
<1>6. ASSUME EmitThrows PROVE EmitInv'
    BY <1>6 DEF EmitThrows, Return
<1>7. ASSUME Write PROVE EmitInv'
    BY <1>7 DEF Write, WriteRefused, Return
<1>8. ASSUME EndArtifact PROVE EmitInv'
    BY <1>8 DEF EndArtifact, Return
<1>9. ASSUME Create \/ Destroy PROVE EmitInv'
    BY <1>9 DEF Create, Destroy
<1>10. ASSUME UNCHANGED vars PROVE EmitInv'
    BY <1>10 DEF vars
<1> QED
    BY <1>1, <1>2, <1>3, <1>4, <1>5, <1>6, <1>7, <1>8, <1>9, <1>10 DEF Next

THEOREM EmitInvariant == Spec => []EmitInv
BY EmitInit, EmitStep, PTL DEF Spec

(***************************************************************************)
(* NUPERF_OK is answered only for an artifact that was ended with the      *)
(* whole text in it (src/plugins/stddef.cpp:164-223).                      *)
(***************************************************************************)
THEOREM OKForWholeArtifacts == Spec => []OKMeansWhole
BY EmitInvariant, PTL DEF EmitInv

(***************************************************************************)
(* stddef_emit implements the sink protocol of nuperf-target.h: each of    *)
(* its steps is a step of EmitSink or leaves the artifact as it is         *)
(* (src/plugins/stddef.cpp:164-223).                                       *)
(***************************************************************************)
THEOREM SinkImplemented == Spec => ImplementsSink
<1>1. Init => Sink!Init
    BY DEF Init, Sink!Init
<1>2. EmitInv /\ [Next]_vars => [Sink!Next]_(sink.state)
    <2> SUFFICES ASSUME EmitInv, [Next]_vars PROVE [Sink!Next]_(sink.state)
        OBVIOUS
    <2> USE DEF EmitInv, Shape, InStep, Sink!Next
    <2>1. ASSUME NEW r \in HashResult, Emit(r) PROVE Sink!AnotherSink
        BY <2>1 DEF Emit, Sink!AnotherSink
    <2>2. ASSUME BeginArtifact PROVE Sink!Begin \/ Sink!Refuse
        BY <2>2 DEF BeginArtifact, Sink!Begin, Sink!Refuse
    <2>3. ASSUME Write PROVE Sink!Write \/ Sink!Refuse
        BY <2>3 DEF Write, WriteRefused, Sink!Write, Sink!Refuse
    <2>4. ASSUME EndArtifact PROVE Sink!End \/ Sink!Refuse
        BY <2>4 DEF EndArtifact, Sink!End, Sink!Refuse
    <2>5. ASSUME UNCHANGED sink PROVE UNCHANGED sink.state
        BY <2>5
    <2> QED
        BY <2>1, <2>2, <2>3, <2>4, <2>5
            DEF Next, Create, Destroy, SetOption, GetOption, Format,
                EmitThrows, vars
<1> QED BY <1>1, <1>2, EmitInvariant, PTL DEF Spec, ImplementsSink, Sink!Spec

-----------------------------------------------------------------------------
(***************************************************************************)
(* Options.  What get_option hands out names a value set_option takes.     *)
(***************************************************************************)
CallTyped == call = Idle \/ call \in Call

ShownNow == call # Idle => call.value = Shown(call.option)
                        /\ call.answer = Answer(call.buffer, Length[call.value])

CallInv == options \in Options /\ CallTyped /\ ShownNow

LEMMA ShownTyped ==
    ASSUME options \in Options, NEW o \in Option
    PROVE  Shown(o) \in Text
BY StddefAssumption DEF Shown, Options, Option

LEMMA AnswerTyped ==
    ASSUME NEW buffer \in Buffer, NEW t \in Text
    PROVE  Answer(buffer, Length[t]) \in Answers(MaxLength + 1)
BY StddefAssumption DEF Answer, Answers, Needed, Buffers

LEMMA CallStep == CallInv /\ [Next]_vars => CallInv'
<1> SUFFICES ASSUME CallInv, [Next]_vars PROVE CallInv'
    OBVIOUS
<1>1. ASSUME NEW o \in Option, NEW value \in Given, SetOption(o, value)
      PROVE  CallInv'
    <2>1. value \in Text
        BY StddefAssumption
    <2>2. options' \in Options
        <3>1. CASE o = "emit_header_guard"
            <4>1. Parsed(o, value) \in BOOLEAN
                BY <3>1 DEF Parsed
            <4> QED BY <1>1, <3>1, <4>1 DEF SetOption, CallInv, Options
        <3>2. CASE o \in {"array_name", "guard_prefix"}
            <4>1. Parsed(o, value) \in Text
                BY <2>1, <3>2 DEF Parsed
            <4> QED BY <1>1, <3>2, <4>1 DEF SetOption, CallInv, Options
        <3> QED BY <3>1, <3>2 DEF Option
    <2> QED BY <1>1, <2>2 DEF SetOption, CallInv, CallTyped, ShownNow
<1>2. ASSUME NEW o \in Option, NEW buffer \in Buffer, GetOption(o, buffer)
      PROVE  CallInv'
    <2>1. Shown(o) \in Text /\ Shown(o)' = Shown(o)
        BY <1>2, ShownTyped DEF GetOption, CallInv, Shown
    <2>2. Answer(buffer, Length[Shown(o)]) \in Answers(MaxLength + 1)
        BY <2>1, AnswerTyped
    <2>3. call' \in Call
        BY <1>2, <2>1, <2>2 DEF GetOption, Call
    <2>4. ShownNow'
        BY <1>2, <2>1 DEF GetOption, ShownNow, Shown
    <2> QED BY <1>2, <2>3, <2>4 DEF GetOption, CallInv, CallTyped
<1>3. ASSUME UNCHANGED options, call' = Idle \/ UNCHANGED call PROVE CallInv'
    BY <1>3 DEF CallInv, CallTyped, ShownNow, Shown
<1>4. ASSUME Create PROVE CallInv'
    <2>1. Defaults \in Options
        BY StddefAssumption DEF Defaults, Options
    <2> QED BY <1>4, <2>1 DEF Create, CallInv, CallTyped, ShownNow
<1> QED
    BY <1>1, <1>2, <1>3, <1>4
        DEF Next, Destroy, Emit, BeginArtifact, Format, EmitThrows, Write, EndArtifact, vars

(***************************************************************************)
(* Saving an option with get_option and restoring it with set_option       *)
(* changes nothing, and no caller's buffer is overrun                      *)
(* (src/plugins/stddef.cpp:90-109, 126-150).                               *)
(***************************************************************************)
THEOREM SavedOptionsRestore == Spec => []OptionsRestorable
<1>1. Init => CallInv
    BY StddefAssumption
        DEF Init, Defaults, CallInv, CallTyped, ShownNow, Options
<1>2. CallInv => OptionsRestorable
    <2> SUFFICES ASSUME CallInv, call # Idle
                 PROVE  /\ Takes(call.option, call.value)
                        /\ Parsed(call.option, call.value) = options[call.option]
                        /\ ~call.buffer.null =>
                                call.answer.written <= call.buffer.size
        BY DEF OptionsRestorable
    <2>1. call \in Call /\ call.option \in Option
        BY DEF CallInv, CallTyped, Call
    <2>2. call.value = Shown(call.option)
        BY DEF CallInv, ShownNow
    <2>3. Takes(call.option, call.value)
        BY <2>2 DEF Takes, Shown
    <2>4. Parsed(call.option, call.value) = options[call.option]
        <3>1. CASE call.option = "emit_header_guard"
            <4>1. options[call.option] \in BOOLEAN
                BY <3>1 DEF CallInv, Options
            <4>2. True \notin {False, Zero} /\ False \notin {True, One}
                BY StddefAssumption
            <4>3. CASE options[call.option] = TRUE
                <5>1. call.value = True
                    BY <2>2, <3>1, <4>3 DEF Shown
                <5>2. call.value \in {True, One}
                    BY <4>2, <5>1
                <5>3. Parsed(call.option, call.value)
                        = (call.value \in {True, One})
                    BY <3>1, Zenon DEF Parsed
                <5>4. (call.value \in {True, One}) = TRUE
                    BY <5>2
                <5> QED BY <4>3, <5>3, <5>4
            <4>4. CASE options[call.option] = FALSE
                <5>1. call.value = False
                    BY <2>2, <3>1, <4>4 DEF Shown
                <5>2. call.value \notin {True, One}
                    BY <4>2, <5>1
                <5>3. Parsed(call.option, call.value)
                        = (call.value \in {True, One})
                    BY <3>1, Zenon DEF Parsed
                <5>4. (call.value \in {True, One}) = FALSE
                    BY <5>2
                <5> QED BY <4>4, <5>3, <5>4
            <4> QED BY <4>1, <4>3, <4>4
        <3>2. CASE call.option # "emit_header_guard"
            BY <2>2, <3>2 DEF Parsed, Shown
        <3> QED BY <3>1, <3>2
    <2>5. ~call.buffer.null => call.answer.written <= call.buffer.size
        <3>1. Length[call.value] \in Nat /\ call.buffer \in Buffers(MaxLength + 1)
            BY <2>1, StddefAssumption DEF Call
        <3> QED BY <3>1, StddefAssumption
                DEF CallInv, ShownNow, Answer, Needed, Buffers
    <2> QED BY <2>3, <2>4, <2>5
<1> QED BY <1>1, <1>2, CallStep, PTL DEF Spec

-----------------------------------------------------------------------------
(***************************************************************************)
(* The text of a header is made of the parts the format knows.             *)
(***************************************************************************)
LEMMA HeaderTyped ==
    ASSUME options \in Options, NEW r \in HashResult
    PROVE  Header(r) \in Seq(Part)
<1>1. /\ r.method_name \in Text /\ r.key_count \in Nat /\ r.words \in Seq(Nat)
      /\ Len(r.words) \in Nat
    BY StddefAssumption
<1>2. options.array_name \in Text /\ options.guard_prefix \in Text
    BY DEF Options
<1>3. Guard("open guard") \in Seq(Part) /\ Guard("close guard") \in Seq(Part)
    <2>1. /\ [part |-> "open guard", of |-> options.guard_prefix] \in Part
          /\ [part |-> "close guard", of |-> options.guard_prefix] \in Part
        BY <1>2 DEF Part
    <2>2. <<>> \in Seq(Part) /\ \A p \in Part : <<p>> \in Seq(Part)
        OBVIOUS
    <2> QED BY <2>1, <2>2, Zenon DEF Guard
<1>4. [part |-> "prologue"] \in Part /\ [part |-> "epilogue"] \in Part
      /\ Cut \in Part
    BY DEF Part, Cut
<1>5. [part |-> "array", of |-> options.array_name, words |-> r.words] \in Part
    BY <1>1, <1>2 DEF Part
<1>6. SizePart(r) \in Part
    <2>1. [part |-> "size", of |-> options.array_name,
           count |-> Len(r.words)] \in Part
        BY <1>1, <1>2 DEF Part
    <2> QED BY <1>4, <2>1 DEF SizePart, Printed
<1>7. CommentPart(r) \in Part
    <2>1. [part |-> "comment", method |-> r.method_name,
           keys |-> r.key_count] \in Part
        BY <1>1 DEF Part
    <2> QED BY <1>4, <2>1 DEF CommentPart, Printed
<1> DEFINE body == <<[part |-> "prologue"],
             [part |-> "array", of |-> options.array_name, words |-> r.words],
             SizePart(r), CommentPart(r), [part |-> "epilogue"]>>
<1>8. body \in Seq(Part)
    BY <1>4, <1>5, <1>6, <1>7
<1> HIDE DEF body
<1>9. Guard("open guard") \o body \o Guard("close guard") \in Seq(Part)
    BY <1>3, <1>8, ConcatProperties
<1> QED BY <1>9 DEF Header, body

(***************************************************************************)
(* Every variable of the plugin keeps its type.                            *)
(***************************************************************************)
THEOREM TypeCorrect == Spec => []TypeOK
<1>1. Init => TypeOK
    BY StddefAssumption DEF Init, Defaults, TypeOK, Options
<1>2. TypeOK /\ CallInv' /\ [Next]_vars => TypeOK'
    <2> SUFFICES ASSUME TypeOK, CallInv', [Next]_vars PROVE TypeOK'
        OBVIOUS
    <2> USE DEF TypeOK
    <2>1. options' \in Options /\ (call' = Idle \/ call' \in Call)
        BY DEF CallInv, CallTyped
    <2>2. ASSUME UNCHANGED <<pc, result, output, sink, status>> PROVE TypeOK'
        BY <2>1, <2>2
    <2>3. ASSUME NEW r \in HashResult, Emit(r) PROVE TypeOK'
        BY <2>1, <2>3 DEF Emit, Options
    <2>4. ASSUME BeginArtifact PROVE TypeOK'
        BY <2>1, <2>4 DEF BeginArtifact, Return
    <2>5. ASSUME Format PROVE TypeOK'
        BY <2>1, <2>5, HeaderTyped DEF Format
    <2>6. ASSUME EmitThrows PROVE TypeOK'
        BY <2>1, <2>6 DEF EmitThrows, Return
    <2>7. ASSUME Write PROVE TypeOK'
        <3>1. \A n \in 0..Len(output) : SubSeq(output, 1, n) \in Seq(Part)
            OBVIOUS
        <3>2. sink' \in [name : Text, content : Seq(Part),
                 state : {"none", "begun", "written", "ended", "refused"}]
            BY <2>7, <3>1 DEF Write, WriteRefused
        <3> QED BY <2>1, <2>7, <3>2 DEF Write, Return
    <2>8. ASSUME EndArtifact PROVE TypeOK'
        BY <2>1, <2>8 DEF EndArtifact, Return
    <2>9. ASSUME Create \/ Destroy PROVE TypeOK'
        BY <2>1, <2>9 DEF Create, Destroy
    <2> QED
        BY <2>2, <2>3, <2>4, <2>5, <2>6, <2>7, <2>8, <2>9
            DEF Next, SetOption, GetOption, vars
<1>3. Init => CallInv
    BY StddefAssumption
        DEF Init, Defaults, CallInv, CallTyped, ShownNow, Options
<1> QED BY <1>1, <1>2, <1>3, CallStep, PTL DEF Spec

-----------------------------------------------------------------------------
(***************************************************************************)
(* A number has a number of digits.  Digits goes from n to n \div 10, so   *)
(* it is reached here by functions that are right up to n.                 *)
(***************************************************************************)
LEMMA Tenth ==
    ASSUME NEW n \in Nat
    PROVE  n \div 10 \in Nat /\ (n >= 10 => n \div 10 \in 0..(n - 1))
OBVIOUS

IsDigits(g) == g = [n \in Nat |-> IF n < 10 THEN 1 ELSE 1 + g[n \div 10]]

LEMMA DigitsExist == \E g : IsDigits(g)
<1> DEFINE A == [Nat -> Nat]
           a == [k \in Nat |-> 1]
           more(g) == [k \in Nat |-> IF k < 10 THEN 1 ELSE 1 + g[k \div 10]]
           step == [x \in Nat \X A |-> more(x[2])]
<1>1. \A n \in Nat, g \in A : step[<<n, g>>] = more(g)
    OBVIOUS
<1>2. \A g \in A : more(g) \in A
    BY Tenth
<1>3. a \in A /\ \A n \in Nat, g \in A : step[<<n, g>>] \in A
    BY <1>1, <1>2
<1> HIDE DEF step
<1>4. PICK f \in [Nat -> A] : Recursive(f, a, step)
    <2> HIDE DEF A, a
    <2> QED BY <1>3, Recursion
<1>5. f[0] = a /\ \A n \in Nat : f[n + 1] = more(f[n])
    <2> HIDE DEF A, a, more
    <2>1. \A n \in Nat : f[n] \in A /\ f[n + 1] = step[<<n, f[n]>>]
        BY <1>4 DEF Recursive
    <2> QED BY <1>1, <1>4, <2>1 DEF Recursive
<1>6. /\ \A k \in Nat : f[0][k] = 1
      /\ \A n, k \in Nat : f[n + 1][k] = IF k < 10 THEN 1 ELSE 1 + f[n][k \div 10]
    BY <1>5
<1> DEFINE Stable == {n \in Nat : \A k \in 0..n : f[n + 1][k] = f[n][k]}
<1>7. Stable = Nat
    <2>1. 0 \in Stable
        <3>1. ASSUME NEW n \in Nat, n = 0
              PROVE  \A k \in 0..n : f[n + 1][k] = f[n][k]
            <4>1. ASSUME NEW k \in 0..n PROVE f[n + 1][k] = f[n][k]
                <5>1. k \in Nat /\ k < 10
                    BY <3>1, <4>1
                <5>2. f[n + 1][k] = 1
                    BY <1>6, <5>1
                <5>3. f[n][k] = 1
                    BY <1>6, <3>1, <5>1
                <5> QED BY <5>2, <5>3
            <4> QED BY <4>1
        <3> QED BY <3>1
    <2>2. ASSUME NEW n \in Stable PROVE n + 1 \in Stable
        <3>1. n \in Nat /\ \A k \in 0..n : f[n + 1][k] = f[n][k]
            OBVIOUS
        <3>2. ASSUME NEW k \in 0..(n + 1) PROVE f[n + 1 + 1][k] = f[n + 1][k]
            <4>1. n + 1 \in Nat /\ k \in Nat
                BY <3>1
            <4>2. CASE k < 10
                BY <1>6, <3>1, <4>1, <4>2
            <4>3. CASE ~(k < 10)
                <5>1. k \div 10 \in 0..n
                    BY <3>1, <4>1, <4>3, Tenth
                <5>2. f[n + 1][k \div 10] = f[n][k \div 10]
                    BY <3>1, <5>1
                <5> QED BY <1>6, <3>1, <4>1, <4>3, <5>2
            <4> QED BY <4>2, <4>3
        <3> QED BY <3>1, <3>2
    <2>3. Stable \in SUBSET Nat
        OBVIOUS
    <2> HIDE DEF Stable
    <2> QED BY <2>1, <2>2, <2>3, SetInduction
<1>8. ASSUME NEW j \in Nat, NEW d \in Nat PROVE f[j + d][j] = f[j][j]
    <2> DEFINE Same == {e \in Nat : f[j + e][j] = f[j][j]}
    <2>1. 0 \in Same
        OBVIOUS
    <2>2. ASSUME NEW e \in Same PROVE e + 1 \in Same
        <3>1. e \in Nat /\ f[j + e][j] = f[j][j]
            OBVIOUS
        <3>2. j + e \in Nat /\ j \in 0..(j + e) /\ j + (e + 1) = j + e + 1
            BY <3>1
        <3>3. \A n \in Nat : \A k \in 0..n : f[n + 1][k] = f[n][k]
            BY <1>7
        <3>4. f[j + e + 1][j] = f[j + e][j]
            BY <3>2, <3>3
        <3> QED BY <3>1, <3>2, <3>4
    <2>3. Same \in SUBSET Nat
        OBVIOUS
    <2> HIDE DEF Same
    <2>4. Same = Nat
        BY <2>1, <2>2, <2>3, SetInduction
    <2> QED BY <2>4 DEF Same
<1> DEFINE D == [n \in Nat |-> f[n][n]]
<1>9. ASSUME NEW n \in Nat
      PROVE  f[n][n] = IF n < 10 THEN 1 ELSE 1 + D[n \div 10]
    <2>1. CASE n = 0
        BY <1>6, <2>1
    <2>2. CASE n # 0
        <3>1. n - 1 \in Nat /\ n - 1 + 1 = n
            BY <2>2
        <3>2. f[n][n] = IF n < 10 THEN 1 ELSE 1 + f[n - 1][n \div 10]
            <4> DEFINE m == n - 1
            <4>1. m \in Nat /\ m + 1 = n
                BY <3>1
            <4> HIDE DEF m
            <4>2. f[m + 1][n] = IF n < 10 THEN 1 ELSE 1 + f[m][n \div 10]
                BY <1>6, <4>1
            <4> QED BY <4>1, <4>2 DEF m
        <3>3. ASSUME ~(n < 10) PROVE f[n - 1][n \div 10] = D[n \div 10]
            <4> DEFINE j == n \div 10
            <4>1. j \in Nat /\ j \in 0..(n - 1)
                BY <3>3, Tenth
            <4> HIDE DEF j
            <4>2. n - 1 - j \in Nat /\ j + (n - 1 - j) = n - 1
                BY <4>1
            <4>3. f[n - 1][j] = f[j][j]
                BY <1>8, <4>1, <4>2
            <4> QED BY <4>1, <4>3 DEF j
        <3> QED BY <3>2, <3>3
    <2> QED BY <2>1, <2>2
<1>10. IsDigits(D)
    BY <1>9 DEF IsDigits
<1> QED BY <1>10

LEMMA DigitsTyped == \A n \in Nat : Digits[n] \in Nat
<1>1. Digits = CHOOSE g : IsDigits(g)
    BY DEF Digits, IsDigits
<1>2. IsDigits(Digits)
    BY <1>1, DigitsExist
<1>3. \A n \in Nat : Digits[n] = IF n < 10 THEN 1 ELSE 1 + Digits[n \div 10]
    BY <1>2 DEF IsDigits
<1> DEFINE S == {n \in Nat : \A k \in 0..n : Digits[k] \in Nat}
<1>4. 0 \in S
    BY <1>3
<1>5. ASSUME NEW n \in S PROVE n + 1 \in S
    <2>1. n \in Nat /\ \A k \in 0..n : Digits[k] \in Nat
        OBVIOUS
    <2>2. Digits[n + 1] \in Nat
        <3>1. n + 1 \in Nat /\ (n + 1 >= 10 => (n + 1) \div 10 \in 0..n)
            BY <2>1, Tenth
        <3> QED BY <1>3, <2>1, <3>1
    <2> QED BY <2>1, <2>2
<1>6. S \in SUBSET Nat
    OBVIOUS
<1> HIDE DEF S
<1>7. S = Nat
    BY <1>4, <1>5, <1>6, SetInduction
<1> QED BY <1>7 DEF S

-----------------------------------------------------------------------------
\* What stands where in a text with something around it.
LEMMA Around ==
    ASSUME NEW S, NEW s \in Seq(S), NEW u \in Seq(S), NEW t \in Seq(S)
    PROVE  /\ Len(s \o u \o t) = Len(s) + Len(u) + Len(t)
           /\ \A i \in 1..Len(s) : (s \o u \o t)[i] = s[i]
           /\ \A i \in 1..Len(u) : (s \o u \o t)[Len(s) + i] = u[i]
           /\ \A i \in 1..Len(t) : (s \o u \o t)[Len(s) + Len(u) + i] = t[i]
<1>1. Len(s) \in Nat /\ Len(u) \in Nat /\ Len(t) \in Nat
    BY LenProperties
<1>2. /\ s \o u \in Seq(S) /\ Len(s \o u) = Len(s) + Len(u)
      /\ \A i \in 1..(Len(s) + Len(u)) :
            (s \o u)[i] = IF i <= Len(s) THEN s[i] ELSE u[i - Len(s)]
    BY ConcatProperties
<1> DEFINE v == s \o u
<1>3. v \in Seq(S) /\ Len(v) = Len(s) + Len(u)
    BY <1>2
<1>4. \A i \in 1..Len(s) : v[i] = s[i]
    BY <1>1, <1>2
<1>5. ASSUME NEW i \in 1..Len(u) PROVE v[Len(s) + i] = u[i]
    <2>1. Len(s) + i \in 1..(Len(s) + Len(u)) /\ ~(Len(s) + i <= Len(s))
          /\ Len(s) + i - Len(s) = i
        BY <1>1
    <2> QED BY <1>2, <2>1
<1> HIDE DEF v
<1>6. /\ Len(v \o t) = Len(v) + Len(t)
      /\ \A i \in 1..(Len(v) + Len(t)) :
            (v \o t)[i] = IF i <= Len(v) THEN v[i] ELSE t[i - Len(v)]
    BY <1>3, ConcatProperties
<1>7. \A i \in 1..Len(s) : (v \o t)[i] = s[i]
    BY <1>1, <1>3, <1>4, <1>6
<1>8. ASSUME NEW i \in 1..Len(u) PROVE (v \o t)[Len(s) + i] = u[i]
    <2>1. Len(s) + i \in 1..(Len(v) + Len(t)) /\ Len(s) + i <= Len(v)
        BY <1>1, <1>3
    <2> QED BY <1>5, <1>6, <2>1
<1>9. ASSUME NEW i \in 1..Len(t) PROVE (v \o t)[Len(s) + Len(u) + i] = t[i]
    <2>1. /\ Len(s) + Len(u) + i \in 1..(Len(v) + Len(t))
          /\ ~(Len(s) + Len(u) + i <= Len(v))
          /\ Len(s) + Len(u) + i - Len(v) = i
        BY <1>1, <1>3
    <2> QED BY <1>6, <2>1
<1> QED BY <1>3, <1>6, <1>7, <1>8, <1>9 DEF v

\* The parts of a text between two guards.
LEMMA GuardedText ==
    ASSUME NEW x, NEW a, NEW b, NEW c, NEW d, NEW e, NEW y
    PROVE  LET text == <<x>> \o <<a, b, c, d, e>> \o <<y>>
           IN  /\ Len(text) = 7 /\ text[1] = x /\ text[7] = y
               /\ text[3] = b /\ text[4] = c 
<1> DEFINE S == {x, a, b, c, d, e, y}
           s == <<x>>
           u == <<a, b, c, d, e>>
           t == <<y>>
           text == s \o u \o t
<1>1. s \in Seq(S) /\ u \in Seq(S) /\ t \in Seq(S)
    OBVIOUS
<1>2. Len(s) = 1 /\ Len(u) = 5 /\ Len(t) = 1 /\ s[1] = x /\ u[2] = b /\ u[3] = c /\ t[1] = y
    OBVIOUS
<1> HIDE DEF S, s, u, t
<1>3. /\ Len(text) = Len(s) + Len(u) + Len(t)
      /\ \A i \in 1..Len(s) : text[i] = s[i]
      /\ \A i \in 1..Len(u) : text[Len(s) + i] = u[i]
      /\ \A i \in 1..Len(t) : text[Len(s) + Len(u) + i] = t[i]
    BY <1>1, Around
<1> HIDE DEF text
<1>4. Len(text) = 7 /\ text[1] = x /\ text[7] = y /\ text[3] = b /\ text[4] = c
    <2>1. 1 \in 1..Len(s) /\ 2 \in 1..Len(u) /\ 3 \in 1..Len(u) /\ 1 \in 1..Len(t)
        BY <1>2
    <2>2. text[1] = s[1] /\ text[1 + 2] = u[2] /\ text[1 + 3] = u[3] /\ text[1 + 5 + 1] = t[1]
        BY <1>2, <1>3, <2>1
    <2> QED BY <1>2, <1>3, <2>2
<1> QED BY <1>4 DEF text, s, u, t

(***************************************************************************)
(* The text that is formatted hangs together, for every name, result and   *)
(* setting of the guard.                                                   *)
(***************************************************************************)
LEMMA HeaderHangs ==
    ASSUME options \in Options, NEW r \in HashResult
    PROVE  /\ Bracketed(Header(r))
           /\ Has(Header(r), [part |-> "array", of |-> options.array_name,
                              words |-> r.words])
           /\ Length[options.array_name] + Digits[Len(r.words)] <= 34 =>
                Has(Header(r), [part |-> "size", of |-> options.array_name,
                                count |-> Len(r.words)])
<1> DEFINE prologue == [part |-> "prologue"]
           array == [part |-> "array", of |-> options.array_name, words |-> r.words]
           size == SizePart(r)
           comment == CommentPart(r)
           epilogue == [part |-> "epilogue"]
           opened == [part |-> "open guard", of |-> options.guard_prefix]
           closed == [part |-> "close guard", of |-> options.guard_prefix]
<1>1. /\ Bracketed(Header(r))
      /\ Has(Header(r), array) /\ Has(Header(r), size)
    <2>1. CASE options.emit_header_guard
        <3>1. Header(r) = <<opened>> \o <<prologue, array, size, comment, epilogue>>
                            \o <<closed>>
            BY <2>1 DEF Header, Guard
        <3>2. opened.part = "open guard" /\ opened.of = options.guard_prefix
            OBVIOUS
        <3>3. closed = [part |-> "close guard", of |-> opened.of]
            OBVIOUS
        <3> HIDE DEF prologue, array, size, comment, epilogue, opened, closed
        <3>4. /\ Len(Header(r)) = 7 /\ Header(r)[1] = opened /\ Header(r)[7] = closed
              /\ Header(r)[3] = array /\ Header(r)[4] = size
            BY <3>1, GuardedText
        <3>5. First(Header(r)) = opened /\ Last(Header(r)) = closed
            BY <3>4 DEF First, Last
        <3>6. Bracketed(Header(r))
            BY <3>2, <3>3, <3>5 DEF Bracketed
        <3> QED BY <3>4, <3>6 DEF Has
    <2>2. CASE ~options.emit_header_guard
        <3>1. Header(r) = <<>> \o <<prologue, array, size, comment, epilogue>> \o <<>>
            BY <2>2 DEF Header, Guard
        <3>2. prologue.part = "prologue" /\ epilogue.part = "epilogue"
            OBVIOUS
        <3> HIDE DEF prologue, array, size, comment, epilogue, opened, closed
        <3>3. Header(r) = <<prologue, array, size, comment, epilogue>>
            BY <3>1
        <3>4. /\ Len(Header(r)) = 5 /\ Header(r)[1] = prologue /\ Header(r)[5] = epilogue
              /\ Header(r)[2] = array /\ Header(r)[3] = size
            BY <3>3
        <3>5. First(Header(r)) = prologue /\ Last(Header(r)) = epilogue
            BY <3>4 DEF First, Last
        <3>6. Bracketed(Header(r))
            BY <3>2, <3>5 DEF Bracketed
        <3> QED BY <3>4, <3>6 DEF Has
    <2> QED BY <2>1, <2>2
<1>2. ASSUME Length[options.array_name] + Digits[Len(r.words)] <= 34
      PROVE  size = [part |-> "size", of |-> options.array_name,
                     count |-> Len(r.words)]
    <2>1. Len(r.words) \in Nat /\ options.array_name \in Text
        BY StddefAssumption, LenProperties DEF Options
    <2>2. Length[options.array_name] \in Nat /\ Digits[Len(r.words)] \in Nat
        BY <2>1, StddefAssumption, DigitsTyped
    <2>3. 29 + Length[options.array_name] + Digits[Len(r.words)] < 64
        BY <1>2, <2>2
    <2> QED BY <2>3 DEF SizePart, Printed
<1> QED BY <1>1, <1>2

\* Until the text is formatted, the options are those the artifact was begun with.
NameCurrent == pc \in {"begin", "format"} => sink.name = options.array_name

LEMMA HeaderStep == TypeOK /\ NameCurrent /\ HeaderSound /\ [Next]_vars
                        => (NameCurrent /\ HeaderSound)'
<1> SUFFICES ASSUME TypeOK, NameCurrent, HeaderSound, [Next]_vars
             PROVE  NameCurrent' /\ HeaderSound'
    OBVIOUS
<1>1. ASSUME NEW r \in HashResult, Emit(r) PROVE NameCurrent' /\ HeaderSound'
    BY <1>1 DEF Emit, NameCurrent, HeaderSound
<1>2. CASE Format
    <2>1. /\ pc = "format" /\ pc' = "write" /\ output' = Header(result)
          /\ UNCHANGED <<options, result, sink>> /\ sink.name = options.array_name
        BY <1>2 DEF Format, NameCurrent
    <2>2. options \in Options /\ result \in HashResult
        BY DEF TypeOK
    <2>3. /\ Bracketed(output')
          /\ Has(output', [part |-> "array", of |-> sink.name, words |-> result.words])
          /\ Length[sink.name] + Digits[Len(result.words)] <= 34 =>
                Has(output', [part |-> "size", of |-> sink.name,
                              count |-> Len(result.words)])
        BY <2>1, <2>2, HeaderHangs
    <2>4. HeaderSound'
        BY <2>1, <2>3 DEF HeaderSound
    <2> QED BY <2>1, <2>4 DEF NameCurrent
<1>3. CASE BeginArtifact \/ EmitThrows \/ Write \/ EndArtifact
    <2>1. UNCHANGED <<options, result, output>> /\ sink'.name = sink.name
          /\ (pc' \in {"begin", "format"} => pc \in {"begin", "format"})
        BY <1>3 DEF BeginArtifact, EmitThrows, Write, WriteRefused, EndArtifact, Return,
             TypeOK
    <2> QED BY <2>1 DEF NameCurrent, HeaderSound
<1>4. CASE \/ Create \/ Destroy
           \/ \E o \in Option, value \in Given : SetOption(o, value)
           \/ \E o \in Option, buffer \in Buffer : GetOption(o, buffer)
           \/ UNCHANGED vars
    <2>1. /\ UNCHANGED <<result, output, sink>>
          /\ pc' \notin {"begin", "format"} \/ UNCHANGED <<pc, options>>
        BY <1>4 DEF Create, Destroy, SetOption, GetOption, vars
    <2> QED BY <2>1 DEF NameCurrent, HeaderSound
<1> QED BY <1>1, <1>2, <1>3, <1>4 DEF Next

(***************************************************************************)
(* Every header that is formatted hangs together: its guard, its array and *)
(* its size belong to each other (src/plugins/stddef.cpp:164-223).         *)
(***************************************************************************)
THEOREM HeadersAreSound == Spec => []HeaderSound
<1>1. Init => NameCurrent /\ HeaderSound
    BY DEF Init, NameCurrent, HeaderSound
<1> QED BY <1>1, TypeCorrect, HeaderStep, PTL DEF Spec

=============================================================================
