---------------------------- MODULE NuperfProofs ----------------------------
(***************************************************************************)
(* Proofs about Nuperf for every command line, every way Klyspec takes     *)
(* tokens apart and every workspace: the types, the command that is        *)
(* resolved, the exit status, what a build is called with, and what        *)
(* `project init` leaves on the disk.                                      *)
(***************************************************************************)
EXTENDS Nuperf, PositionsProofs

-----------------------------------------------------------------------------
\* What is left of a sequence, and its first two elements.
LEMMA RestTyped ==
    ASSUME NEW S, NEW T, NEW s \in Seq(S), NEW t \in Seq(T)
    PROVE  SubSeq(s, Len(t) + 1, Len(s)) \in Seq(S)
<1>1. Len(t) \in Nat /\ Len(s) \in Nat
  OBVIOUS
<1>2. \A i \in (Len(t) + 1)..Len(s) : s[i] \in S
  BY <1>1
<1> QED
  BY <1>1, <1>2, SubSeqProperties

LEMMA PartsTyped ==
    ASSUME NEW S, NEW s \in Seq(S), s # <<>>
    PROVE  /\ s[1] \in S /\ Tail(s) \in Seq(S)
           /\ Len(s) > 1 => s[2] \in S /\ Tail(Tail(s)) \in Seq(S)
<1>1. s[1] \in S /\ Tail(s) \in Seq(S)
  OBVIOUS
<1>2. ASSUME Len(s) > 1 PROVE s[2] \in S /\ Tail(Tail(s)) \in Seq(S)
  <2>1. s[2] \in S
    BY <1>2
  <2>2. Tail(s) \in Seq(S) /\ Tail(s) # <<>>
    <3>1. Tail(s) \in Seq(S) /\ Len(Tail(s)) = Len(s) - 1
      BY HeadTailProperties
    <3>2. Len(Tail(s)) # 0 /\ Len(<<>>) = 0
      BY <1>2, <3>1, LenProperties, EmptySeq
    <3> QED
      BY <3>1, <3>2
  <2>3. Tail(Tail(s)) \in Seq(S)
    BY <2>2, HeadTailProperties
  <2> QED
    BY <2>1, <2>3
<1> QED
  BY <1>1, <1>2

\* Every documented command has a word, so an empty path is never one.
LEMMA DocsHaveWords ==
    \A d \in Docs : d \in Seq(Word) /\ Len(d) >= 1
<1>1. ASSUME NEW d \in Docs
      PROVE  d # <<>>
  BY DEF Docs
<1>2. ASSUME NEW d \in Seq(Word), d # <<>>
      PROVE  Len(d) >= 1
  BY <1>2
<1> QED
  BY <1>1, <1>2, NuperfAssumption

\* get1 yields a value, or the empty string.
LEMMA Get1Value ==
    ASSUME TypeOK, NEW o \in OptionId
    PROVE  Get1(o) \in Value
BY NuperfAssumption DEF TypeOK, Get1

\* What main hands to cmd_build_run is a call.
LEMMA CallTyped ==
    ASSUME TypeOK
    PROVE  BuildCall \in Call
<1>1. /\ Get1("input") \in Value /\ Get1("output") \in Value
      /\ Get1("method") \in Value /\ Get1("target") \in Value
      /\ Get1("schema") \in Value /\ Get1("dump-json-schema") \in Value
  BY Get1Value DEF OptionId, BuildOption, Single
<1>2. values["option"] \in Seq(Value)
  BY DEF TypeOK, OptionId, BuildOption
<1> DEFINE format == IF Structured = {} THEN "lines"
                     ELSE CHOOSE f \in Structured : TRUE
<1>3. format \in From \cup {"lines"}
  BY DEF Structured
<1>4. (IF format = "lines" THEN Get1("input") ELSE Get1(format)) \in Value
  BY <1>1, <1>3, Get1Value DEF OptionId, BuildOption, Single
<1> HIDE DEF format
<1>5. [input |-> IF format = "lines" THEN Get1("input") ELSE Get1(format),
       output |-> Get1("output"), method |-> Get1("method"),
       target |-> Get1("target"), schema |-> Get1("schema"),
       dump |-> Get1("dump-json-schema"), options |-> values["option"],
       format |-> format] \in Call
  BY <1>1, <1>2, <1>3, <1>4 DEF Call
<1> QED
  BY <1>5 DEF BuildCall, format

\* What a step relies on: there is a first token to resolve, and what Klyspec
\* has left to read are tokens, which have a form.
Unread ==
    /\ pc = "resolve" => argv # <<>>
    /\ pc = "parse" => todo \in Seq(Token)

TypeInv == TypeOK /\ Unread

-----------------------------------------------------------------------------
LEMMA InitType == Init => TypeInv
<1> SUFFICES ASSUME Init PROVE TypeInv
  OBVIOUS
<1>1. files \in [File -> Content]
        /\ dirs \subseteq Directory
  BY NuperfAssumption DEF Init, Content
<1>2. argv \in Seq(Token) /\ before \in Workspace
  BY NuperfAssumption DEF Init
<1>3. values \in [OptionId -> Seq(Value)]
  BY DEF Init
<1>4. /\ path \in Seq(Word) /\ rest \in Seq(Token) /\ todo \in Seq(Value)
      /\ positionals \in Seq(Token)
  BY EmptySeq DEF Init
<1>5. /\ pc \in Pc /\ pending \subseteq Docs /\ printed \in Printed
      /\ literal \in BOOLEAN /\ ok \in BOOLEAN /\ failed \subseteq File
      /\ call \in Call \cup {None} /\ rc \in {0, 1}
  BY DEF Init, Pc, Printed
<1>6. Unread
  BY DEF Init, Unread
<1> QED
  BY <1>1, <1>2, <1>3, <1>4, <1>5, <1>6 DEF TypeInv, TypeOK

\* The steps of main before anything is parsed.
LEMMA CommandType == TypeInv /\ Command => TypeInv'
<1> SUFFICES ASSUME TypeInv, Command PROVE TypeInv'
  OBVIOUS
<1> USE DEF TypeInv, TypeOK, Unread, Pc, Printed
<1>1. CASE NoArguments
  BY <1>1 DEF NoArguments, PrintHelp, Exit, input, command, parsed, disk
<1>2. CASE HelpCommand
  <2>1. HelpPage(Joined(Tail(argv))) \in Printed
    BY DEF HelpPage, Printed
  <2> QED
    BY <1>2, <2>1 DEF HelpCommand, PrintHelp, Exit, input, command, parsed, disk
<1>3. CASE Resolve
  BY <1>3 DEF Resolve, input, command, parsed, disk
<1>4. CASE \E words \in Docs : VisitDoc(words)
  BY <1>4, DocsHaveWords DEF VisitDoc, input, command, parsed, disk
<1>5. CASE Resolved
  <2>1. argv \in Seq(Token)
    OBVIOUS
  <2>2. SubSeq(argv, Len(path) + 1, Len(argv)) \in Seq(Token)
    BY <2>1, RestTyped
  <2>3. argv # <<>> /\ argv[1] \in Token /\ Tail(argv) \in Seq(Token)
    <3>1. argv # <<>>
      BY <1>5 DEF Resolved
    <3> QED
      BY <2>1, <3>1, PartsTyped
  <2>4. Words[argv[1]] \in Seq(Word)
    BY <2>3, NuperfAssumption
  <2>5. path' \in Seq(Word) /\ rest' \in Seq(Token)
    BY <1>5, <2>2, <2>3, <2>4 DEF Resolved
  <2> QED
    BY <1>5, <2>5 DEF Resolved, input, command, parsed, disk
<1>6. CASE HelpAsked
  BY <1>6 DEF HelpAsked, PrintHelp, Exit, input, command, parsed, disk
<1>7. CASE Report
  BY <1>7 DEF Report, Exit, input, command, parsed, disk
<1>8. CASE ReportRefused
  BY <1>8 DEF ReportRefused, Refuse, Exit, input, command, parsed, disk
<1>9. CASE UnknownCommand
  BY <1>9 DEF UnknownCommand, Refuse, Exit, input, command, parsed, disk
<1>10. CASE StartParse
  <2>1. rest \in Seq(Value)
    BY NuperfAssumption, SeqMonotonic
  <2> QED
    BY <1>10, <2>1 DEF StartParse, Dispatched, input, command, parsed, disk
<1> QED
  BY <1>1, <1>2, <1>3, <1>4, <1>5, <1>6, <1>7, <1>8, <1>9, <1>10 DEF Command

-----------------------------------------------------------------------------
\* The first token Klyspec has left, and what it may name.
LEMMA TokenForm ==
    ASSUME TypeInv, Parsing
    PROVE  /\ todo \in Seq(Token) /\ todo[1] \in Token
           /\ Tail(todo) \in Seq(Token)
           /\ Next1 \in FormType
<1>1. todo \in Seq(Token) /\ todo # <<>>
  BY DEF TypeInv, Unread, Parsing
<1>2. todo[1] \in Token /\ Tail(todo) \in Seq(Token)
  BY <1>1
<1> QED
  BY <1>1, <1>2, NuperfAssumption DEF Next1

\* Storing a value of a registered option.
LEMMA TakeTyped ==
    ASSUME TypeInv, Parsing, Next1.name \in Registered, NEW v \in Value,
           Take(v), todo' \in Seq(Token)
    PROVE  TypeInv'
<1>1. Next1.name \in OptionId /\ Next1.junk \in BOOLEAN
  BY TokenForm DEF FormType, Registered, OptionId, BuildOption
<1>2. values' \in [OptionId -> Seq(Value)]
  BY <1>1 DEF Take, TypeInv, TypeOK
<1>3. ok' \in BOOLEAN
  BY <1>1 DEF Take, TypeInv, TypeOK
<1>4. todo' \in Seq(Value)
  BY NuperfAssumption, SeqMonotonic
<1> QED
  BY <1>2, <1>3, <1>4 DEF Take, ParseFrame, TypeInv, TypeOK, Unread, input,
                          command, disk

\* The steps of Klyspec.
LEMMA ParseType == TypeInv /\ Parse => TypeInv'
<1> SUFFICES ASSUME TypeInv, Parse PROVE TypeInv'
  OBVIOUS
<1>a. ASSUME NEW s \in Seq(Token) PROVE s \in Seq(Value)
  BY NuperfAssumption, SeqMonotonic
<1>1. CASE EndOfOptions
  <2>1. Tail(todo) \in Seq(Token)
    BY <1>1, TokenForm DEF EndOfOptions
  <2> QED
    BY <1>1, <1>a, <2>1 DEF EndOfOptions, Parsing, ParseFrame, TypeInv, TypeOK,
                            Unread, input, command, disk
<1>2. CASE UnknownOption
  <2>1. Tail(todo) \in Seq(Token)
    BY <1>2, TokenForm DEF UnknownOption, AtOption
  <2> QED
    BY <1>2, <1>a, <2>1 DEF UnknownOption, AtOption, Parsing, ParseFrame,
                            TypeInv, TypeOK, Unread, input, command, disk
<1>3. CASE InlineValue
  <2>1. Parsing /\ Next1.inline # None /\ Next1.name \in Registered
    BY <1>3 DEF InlineValue, AtOption
  <2>2. Next1.inline \in Value
    BY <2>1, TokenForm DEF FormType
  <2>3. Take(Next1.inline) /\ todo' \in Seq(Token)
    BY <1>3, <2>1, TokenForm DEF InlineValue
  <2> QED
    BY <2>1, <2>2, <2>3, TakeTyped
<1>4. CASE SeparateValue
  <2>1. Parsing /\ Next1.name \in Registered
    BY <1>4 DEF SeparateValue, AtOption
  <2>2. todo \in Seq(Token) /\ Len(todo) > 1
    BY <1>4, <2>1, TokenForm DEF SeparateValue
  <2>3. todo[2] \in Token /\ Tail(Tail(todo)) \in Seq(Token)
    BY <2>2, PartsTyped
  <2>4. todo[2] \in Value
    BY <2>3, NuperfAssumption
  <2>5. Take(todo[2]) /\ todo' \in Seq(Token)
    BY <1>4, <2>3 DEF SeparateValue
  <2> QED
    BY <2>1, <2>4, <2>5, TakeTyped
<1>5. CASE MissingValue
  BY <1>5, EmptySeq DEF MissingValue, AtOption, Parsing, ParseFrame, TypeInv,
                        TypeOK, Unread, input, command, disk
<1>6. CASE Positional
  <2>1. Tail(todo) \in Seq(Token) /\ todo[1] \in Token
    BY <1>6, TokenForm DEF Positional
  <2>2. positionals' \in Seq(Token)
    BY <1>6, <2>1 DEF Positional, TypeInv, TypeOK
  <2> QED
    BY <1>6, <1>a, <2>1, <2>2 DEF Positional, Parsing, ParseFrame, TypeInv,
                                  TypeOK, Unread, input, command, disk
<1>7. CASE Parsed
  <2>1. <<"-">> \in Seq(Value)
    BY NuperfAssumption
  <2>2. values' \in [OptionId -> Seq(Value)]
    BY <1>7, <2>1 DEF Parsed, TypeInv, TypeOK
  <2>3. ok' \in BOOLEAN
    BY <1>7 DEF Parsed, TypeInv, TypeOK
  <2> QED
    BY <1>7, <2>2, <2>3 DEF Parsed, TypeInv, TypeOK, Unread, Pc, input, command,
                            disk
<1> QED
  BY <1>1, <1>2, <1>3, <1>4, <1>5, <1>6, <1>7 DEF Parse

-----------------------------------------------------------------------------
\* What main does with the result, and cmd_project_init.
LEMMA WriteTyped ==
    ASSUME TypeOK, NEW f \in File, Write(f)
    PROVE  /\ files' \in [File -> Content]
           /\ failed' \subseteq File
BY DEF TypeOK, Write, Content

LEMMA RunType == TypeInv /\ Run => TypeInv'
<1> SUFFICES ASSUME TypeInv, Run PROVE TypeInv'
  OBVIOUS
<1>a. TypeOK
  BY DEF TypeInv
<1>1. CASE CheckRefused
  BY <1>1 DEF CheckRefused, Refuse, Exit, TypeInv, TypeOK, Unread, Pc, input,
              command, parsed, disk
<1>2. CASE RunBuild
  <2>1. call' \in Call
    BY <1>2, <1>a, CallTyped DEF RunBuild
  <2>2. files' \in [File -> Content] /\ pc' \in Pc /\ rc' \in {0, 1}
    BY <1>2, <1>a DEF RunBuild, Exit, TypeOK, Content, Pc
  <2>3. UNCHANGED <<input, pending, command, todo, parsed, printed, dirs, failed>>
        /\ pc' \notin {"start", "resolve", "parse"}
    BY <1>2 DEF RunBuild, Exit
  <2> QED
    BY <2>1, <2>2, <2>3 DEF TypeInv, TypeOK, Unread, input, command, parsed
<1>3. CASE StartInit
  BY <1>3 DEF StartInit, TypeInv, TypeOK, Unread, Pc, input, command, parsed, disk
<1>4. CASE InitThrows
  BY <1>4 DEF InitThrows, TypeInv, TypeOK, Unread, Pc, input, command, parsed, disk
<1>5. CASE MakeDirs
  BY <1>5 DEF MakeDirs, InitFrame, TypeInv, TypeOK, Unread, Pc, input, command,
              parsed
<1>6. CASE WriteSample
  <2>1. /\ files' \in [File -> Content]
        /\ failed' \subseteq File
    BY <1>6, <1>a, WriteTyped DEF WriteSample, File
  <2> QED
    BY <1>6, <2>1 DEF WriteSample, InitFrame, TypeInv, TypeOK, Unread, Pc, input,
                      command, parsed
<1>7. CASE WriteScript
  <2>1. /\ files' \in [File -> Content]
        /\ failed' \subseteq File
    BY <1>7, <1>a, WriteTyped DEF WriteScript, File
  <2>2. todo' \in Seq(Value)
    BY <1>7, <1>a DEF WriteScript, TypeOK, OptionId
  <2> QED
    BY <1>7, <2>1, <2>2 DEF WriteScript, InitFrame, TypeInv, TypeOK, Unread, Pc,
                            input, command, parsed
<1>8. CASE WriteBuildFile
  <2>1. /\ files' \in [File -> Content]
        /\ failed' \subseteq File
    BY <1>8, <1>a, WriteTyped DEF WriteBuildFile, File
  <2>2. todo' \in Seq(Value)
    BY <1>8, <1>a, PartsTyped DEF WriteBuildFile, TypeOK
  <2> QED
    BY <1>8, <2>1, <2>2 DEF WriteBuildFile, InitFrame, TypeInv, TypeOK, Unread,
                            Pc, input, command, parsed
<1>9. CASE UnsupportedBuildFile
  BY <1>9 DEF UnsupportedBuildFile, Refuse, Exit, TypeInv, TypeOK, Unread, Pc,
              input, command, parsed, disk
<1>10. CASE Initialized
  BY <1>10 DEF Initialized, Exit, InitFrame, TypeInv, TypeOK, Unread, Pc,
               Printed, input, command, parsed, disk
<1> QED
  BY <1>1, <1>2, <1>3, <1>4, <1>5, <1>6, <1>7, <1>8, <1>9, <1>10 DEF Run

LEMMA StepType == TypeInv /\ [Next]_vars => TypeInv'
<1>1. TypeInv /\ UNCHANGED vars => TypeInv'
  BY DEF TypeInv, TypeOK, Unread, vars, input, command, parsed, disk
<1> QED
  BY <1>1, CommandType, ParseType, RunType DEF Next

LEMMA TypeInvariant == Spec => []TypeInv
BY InitType, StepType, PTL DEF Spec

(***************************************************************************)
(* Every variable keeps its type: what is printed is one of the pages, and *)
(* cmd_build_run is called with values of the command line only.           *)
(***************************************************************************)
THEOREM TypeCorrect == Spec => []TypeOK
BY TypeInvariant, PTL DEF TypeInv

-----------------------------------------------------------------------------
(***************************************************************************)
(* The loop of resolve_command_path: what it has found is the longest of   *)
(* the documents it has visited.                                           *)
(***************************************************************************)
Candidates == {d \in Docs \ {<<"help">>} : Matches(d)}

LoopInv ==
    /\ pc = "start" => path = <<>>
    /\ pc = "resolve" =>
        /\ path = <<>> \/ path \in Candidates
        /\ pending \subseteq Candidates
        /\ \A d \in Candidates \ pending : Len(d) <= Len(path)

ResolveInv == TypeInv /\ LoopInv /\ LongestCommand

\* A prefix and what is left of a sequence after it.
LEMMA PrefixAndRest ==
    ASSUME NEW S, NEW T, NEW s \in Seq(S), NEW t \in Seq(T), Len(t) <= Len(s),
           \A i \in 1..Len(t) : s[i] = t[i]
    PROVE  s = t \o SubSeq(s, Len(t) + 1, Len(s))
<1> DEFINE r == SubSeq(s, Len(t) + 1, Len(s))
<1>1. Len(t) \in Nat /\ Len(s) \in Nat
  OBVIOUS
<1>2. \A i \in (Len(t) + 1)..Len(s) : s[i] \in S
  BY <1>1
<1>3. /\ r \in Seq(S)
      /\ Len(r) = Len(s) - Len(t)
      /\ \A i \in 1..(Len(s) - Len(t)) : r[i] = s[Len(t) + i]
  BY <1>1, <1>2, SubSeqProperties
<1>4. t \in Seq(S \cup T) /\ s \in Seq(S \cup T) /\ r \in Seq(S \cup T)
  BY <1>3, SeqMonotonic
<1> HIDE DEF r
<1>5. /\ t \o r \in Seq(S \cup T)
      /\ Len(t \o r) = Len(t) + Len(r)
      /\ \A i \in 1..(Len(t) + Len(r)) :
            (t \o r)[i] = IF i <= Len(t) THEN t[i] ELSE r[i - Len(t)]
  BY <1>4, ConcatProperties
<1>6. Len(t \o r) = Len(s)
  BY <1>1, <1>3, <1>5
<1>7. \A i \in 1..Len(s) : (t \o r)[i] = s[i]
  <2> TAKE i \in 1..Len(s)
  <2>1. CASE i <= Len(t)
    BY <1>1, <1>3, <1>5, <2>1
  <2>2. CASE i > Len(t)
    <3>1. i - Len(t) \in 1..(Len(s) - Len(t))
      BY <1>1, <2>2
    <3>2. r[i - Len(t)] = s[Len(t) + (i - Len(t))]
      BY <1>3, <3>1
    <3>3. (t \o r)[i] = r[i - Len(t)]
      BY <1>1, <1>3, <1>5, <2>2
    <3> QED
      BY <1>1, <3>2, <3>3
  <2>3. i <= Len(t) \/ i > Len(t)
    BY <1>1
  <2> QED
    BY <2>1, <2>2, <2>3
<1> QED
  BY <1>4, <1>5, <1>6, <1>7, SeqEqual DEF r

LEMMA ResolveStep == ResolveInv /\ [Next]_vars => ResolveInv'
<1> SUFFICES ASSUME ResolveInv, [Next]_vars PROVE ResolveInv'
  OBVIOUS
<1>a. TypeInv /\ TypeInv' /\ TypeOK /\ LoopInv /\ LongestCommand
  BY StepType DEF ResolveInv, TypeInv
<1>1. CASE Resolve
  <2>1. path' = <<>> /\ pending' = Candidates /\ pc' = "resolve" /\ argv' = argv
    BY <1>1, <1>a DEF Resolve, LoopInv, Candidates, command, input
  <2>2. Candidates' = Candidates
    BY <2>1 DEF Candidates, Matches
  <2> QED
    BY <1>a, <2>1, <2>2 DEF ResolveInv, LoopInv, LongestCommand, Found
<1>2. CASE \E words \in Docs : VisitDoc(words)
  <2>1. PICK words \in Docs : VisitDoc(words)
    BY <1>2
  <2>2. /\ pc = "resolve" /\ pc' = "resolve" /\ words \in pending
        /\ pending' = pending \ {words} /\ argv' = argv
        /\ path' = IF Len(words) > Len(path) THEN words ELSE path
    BY <2>1 DEF VisitDoc, input
  <2>3. Candidates' = Candidates
    BY <2>2 DEF Candidates, Matches
  <2>4. \A d \in Candidates : Len(d) \in Nat
    BY DocsHaveWords DEF Candidates
  <2>5. words \in Candidates /\ Len(path) \in Nat
    BY <1>a, <2>2 DEF LoopInv, TypeOK
  <2>6. LoopInv'
    BY <1>a, <2>2, <2>3, <2>4, <2>5 DEF LoopInv
  <2> QED
    BY <1>a, <2>2, <2>6 DEF ResolveInv, LongestCommand, Found
<1>3. CASE Resolved
  <2>1. /\ pc = "resolve" /\ pc' = "dispatch" /\ pending = {} /\ argv' = argv
    BY <1>3 DEF Resolved, input
  <2>2. Candidates' = Candidates
    BY <2>1 DEF Candidates, Matches
  <2>3. /\ path = <<>> \/ path \in Candidates
        /\ \A d \in Candidates : Len(d) <= Len(path)
    BY <1>a, <2>1 DEF LoopInv
  <2>4. CASE path = <<>>
    <3>1. \A d \in Candidates : Len(d) >= 1 /\ Len(d) \in Nat
      BY DocsHaveWords DEF Candidates
    <3>2. Candidates = {}
      BY <2>3, <2>4, <3>1, EmptySeq
    <3>3. path' = Words[argv'[1]] /\ rest' = Tail(argv')
      BY <1>3, <2>1, <2>4 DEF Resolved
    <3> QED
      BY <1>a, <2>1, <2>2, <3>2, <3>3
         DEF ResolveInv, LoopInv, LongestCommand, Candidates
  <2>5. CASE path # <<>>
    <3>1. path \in Candidates /\ path' = path
            /\ rest' = SubSeq(argv, Len(path) + 1, Len(argv))
      BY <1>3, <2>3, <2>5 DEF Resolved
    <3>2. Len(path) <= Len(argv) /\ \A i \in 1..Len(path) : argv[i] = path[i]
      BY <3>1 DEF Candidates, Matches
    <3>3. argv = path \o SubSeq(argv, Len(path) + 1, Len(argv))
      BY <1>a, <3>2, PrefixAndRest DEF TypeOK
    <3>4. argv' = path' \o rest'
      BY <2>1, <3>1, <3>3
    <3>5. path' \in Candidates' /\ \A d \in Candidates' : Len(d) <= Len(path')
      BY <2>2, <2>3, <3>1
    <3> QED
      BY <1>a, <2>1, <3>4, <3>5
         DEF ResolveInv, LoopInv, LongestCommand, Candidates
  <2> QED
    BY <2>4, <2>5
<1>4. CASE NoArguments \/ HelpCommand
  <2>1. pc = "start" /\ pc' = "exit" /\ path' = path
    BY <1>4 DEF NoArguments, HelpCommand, PrintHelp, Exit, command
  <2> QED
    BY <1>a, <2>1 DEF ResolveInv, LoopInv, LongestCommand, Found
<1>5. CASE UNCHANGED <<argv, path, rest>> /\ pc \notin {"start", "resolve"}
            /\ pc' \notin {"start", "resolve"}
  BY <1>5, <1>a DEF ResolveInv, LoopInv, LongestCommand, Found, Matches
<1>6. CASE UNCHANGED vars
  BY <1>6, <1>a DEF ResolveInv, LoopInv, LongestCommand, Found, Matches, vars,
                    input, command, Candidates
<1>7. ASSUME HelpAsked \/ Report \/ ReportRefused \/ UnknownCommand \/ StartParse
      PROVE  UNCHANGED <<argv, path, rest>> /\ pc = "dispatch"
                /\ pc' \in {"exit", "parse"}
  BY <1>7 DEF HelpAsked, PrintHelp, Report, ReportRefused, UnknownCommand, Refuse,
              StartParse, Dispatched, Exit, input, command
<1>8. ASSUME Parse
      PROVE  UNCHANGED <<argv, path, rest>> /\ pc = "parse"
                /\ pc' \in {"parse", "check"}
  BY <1>8 DEF Parse, EndOfOptions, UnknownOption, InlineValue, SeparateValue,
              MissingValue, Positional, Parsed, AtOption, Parsing, Take, ParseFrame,
              input, command
<1>9. ASSUME Run
      PROVE  UNCHANGED <<argv, path, rest>> /\ pc \notin {"start", "resolve"}
                /\ pc' \notin {"start", "resolve"}
  BY <1>9 DEF Run, CheckRefused, RunBuild, StartInit, InitThrows, MakeDirs,
              WriteSample, WriteScript, WriteBuildFile, UnsupportedBuildFile,
              Initialized, Refuse, Exit, InitFrame, input, command
<1> QED
  BY <1>1, <1>2, <1>3, <1>4, <1>5, <1>6, <1>7, <1>8, <1>9 DEF Next, Command

(***************************************************************************)
(* The command that runs is the longest documented one the command line    *)
(* starts with, in whatever order the documents are visited.               *)
(***************************************************************************)
THEOREM LongestCommandRuns == Spec => []LongestCommand
<1>1. Init => ResolveInv
  BY InitType DEF Init, ResolveInv, LoopInv, LongestCommand, Found
<1>2. ResolveInv => LongestCommand
  BY DEF ResolveInv
<1> QED
  BY <1>1, <1>2, ResolveStep, PTL DEF Spec

-----------------------------------------------------------------------------
(***************************************************************************)
(* What Klyspec has made of the first n tokens, as long as all is well.    *)
(***************************************************************************)
Allowed(i) ==
    LET role == Roles(Registered)[i]
    IN  role # "unknown" /\ (role \in {"option", "inline"} => ~Form[rest[i]].junk)

ReadUpTo(n) ==
    /\ Roles(Registered)[n] # "option"
    /\ literal <=> Roles(Registered)[n] \in {"end", "operand"}
    /\ values = [o \in OptionId |-> GivenUpTo(n, o, Registered)]
    /\ positionals = PositionalsUpTo(n, Registered)
    /\ \A i \in 1..n : Allowed(i)

\* What it returns then: the values given, and the default of --output.
AllRead ==
    /\ ReadsWell(Registered)
    /\ \A o \in Single : Len(GivenFor(o, Registered)) <= 1
    /\ positionals = PositionalsOf(Registered)
    /\ \A o \in OptionId :
        values[o] = IF path \in BuildPath /\ o = "output" /\ GivenFor(o, Registered) = <<>>
                    THEN <<"-">> ELSE GivenFor(o, Registered)

Initializing == {"make_dirs", "write_sample", "write_script", "build_files"}

ReadAt ==
    /\ pc \in {"start", "resolve", "dispatch"} =>
        /\ ok /\ ~literal
        /\ values = [o \in OptionId |-> <<>>] /\ positionals = <<>>
    /\ pc \in {"parse", "check"} \cup Initializing =>
        /\ path \in BuildPath \cup InitPath
        /\ \A i \in DOMAIN rest : rest[i] \notin HelpFlag
    /\ pc = "parse" /\ ok => \E n \in 0..Len(rest) :
        /\ todo = SubSeq(rest, n + 1, Len(rest))
        /\ ReadUpTo(n)
    /\ pc \in {"check"} \cup Initializing /\ ok => AllRead
    /\ pc \in Initializing => ok /\ path \in InitPath /\ Len(positionals) <= 1

\* cmd_build_run is the last thing a command line calls.
CallAt == pc \notin {"exit", "terminated"} => call = None

\* The files of W have been written, or the write failed; no other has.
Written(W) ==
    \A f \in File : IF f \in W THEN files[f] = "whole" \/ f \in failed
                    ELSE files[f] = before.files[f]

WorkspaceAt ==
    /\ pc # "exit" => printed = "nothing"
    /\ pc \notin {"write_script", "build_files", "exit", "terminated"} =>
            files = before.files
    /\ pc = "write_script" => Written({Sample})
    /\ pc = "build_files" => \E n \in 0..Len(Named) :
        /\ todo = SubSeq(Named, n + 1, Len(Named))
        /\ \A i \in 1..n : Named[i] \in BuildFile
        /\ Written({Sample, Script} \cup {Named[i] : i \in 1..n})

-----------------------------------------------------------------------------
(***************************************************************************)
(* The roles of the tokens exist: they are a definition by recursion.      *)
(***************************************************************************)
LEMMA RolesFollow ==
    ASSUME NEW tokens, Len(tokens) \in Nat, NEW names
    PROVE  /\ RolesIn(tokens, names)[0] = "start"
           /\ \A n \in 0..(Len(tokens) - 1) : RolesIn(tokens, names)[n + 1]
                = RoleAfter(RolesIn(tokens, names)[n], Form[tokens[n + 1]], names)
<1> DEFINE step == [x \in Nat \X Role |-> RoleAfter(x[2], Form[tokens[x[1] + 1]], names)]
<1>1. \A n \in Nat, role \in Role :
        step[<<n, role>>] = RoleAfter(role, Form[tokens[n + 1]], names)
  OBVIOUS
<1>2. \A n \in Nat, role \in Role : step[<<n, role>>] \in Role
  BY <1>1 DEF RoleAfter, Role
<1>3. "start" \in Role
  BY DEF Role
<1> HIDE DEF step
<1>4. PICK f \in [Nat -> Role] : Recursive(f, "start", step)
  BY <1>2, <1>3, Recursion
<1> DEFINE Follows(g) == g = [n \in 0..Len(tokens) |->
                IF n = 0 THEN "start" ELSE RoleAfter(g[n - 1], Form[tokens[n]], names)]
           prefix == [n \in 0..Len(tokens) |-> f[n]]
<1>5. Follows(prefix)
  <2>1. \A n \in Nat : f[n + 1] = RoleAfter(f[n], Form[tokens[n + 1]], names)
    BY <1>1, <1>4 DEF Recursive
  <2>2. ASSUME NEW n \in 0..Len(tokens), n # 0
        PROVE  f[n] = RoleAfter(prefix[n - 1], Form[tokens[n]], names)
    <3>1. n - 1 \in Nat /\ n - 1 \in 0..Len(tokens) /\ n - 1 + 1 = n
      BY <2>2
    <3> QED
      BY <2>1, <3>1
  <2> QED
    BY <1>4, <2>2 DEF Recursive
<1> HIDE DEF prefix
<1>6. RolesIn(tokens, names) = CHOOSE g : Follows(g)
  BY DEF RolesIn
<1>7. Follows(RolesIn(tokens, names))
  BY <1>5, <1>6
<1> DEFINE role == RolesIn(tokens, names)
<1>8. role[0] = "start"
  BY <1>7
<1>9. ASSUME NEW n \in 0..(Len(tokens) - 1)
      PROVE  role[n + 1] = RoleAfter(role[n], Form[tokens[n + 1]], names)
  <2>1. n + 1 \in 0..Len(tokens) /\ n + 1 # 0 /\ n + 1 - 1 = n
    BY <1>9
  <2> HIDE DEF role
  <2> QED
    BY <1>7, <2>1 DEF role
<1> QED
  BY <1>8, <1>9

(***************************************************************************)
(* One more token is one more value of its option, or one more positional. *)
(***************************************************************************)
LEMMA NothingRead ==
    ASSUME NEW names
    PROVE  PositionalsUpTo(0, names) = <<>> /\ \A o : GivenUpTo(0, o, names) = <<>>
<1>1. \A S \in SUBSET (1..0) : S = {}
  OBVIOUS
<1>2. PositionalsUpTo(0, names) = <<>>
  BY <1>1, PickedEmpty DEF PositionalsUpTo
<1>3. ASSUME NEW o PROVE GivenUpTo(0, o, names) = <<>>
  <2>1. {i \in 1..0 : Roles(names)[i] \in {"inline", "option"} /\ Form[rest[i]].name = o} = {}
    BY <1>1
  <2> QED
    BY <2>1, PickedEmpty DEF GivenUpTo
<1> QED
  BY <1>2, <1>3

ValueOf(i, names) ==
    IF Roles(names)[i] = "inline" THEN Form[rest[i]].inline ELSE rest[i + 1]

LEMMA OneMoreToken ==
    ASSUME NEW n \in Nat, n + 1 \in DOMAIN rest, NEW names, NEW o
    PROVE  /\ GivenUpTo(n + 1, o, names) =
                IF Roles(names)[n + 1] \in {"inline", "option"}
                     /\ Form[rest[n + 1]].name = o
                THEN Append(GivenUpTo(n, o, names), ValueOf(n + 1, names))
                ELSE GivenUpTo(n, o, names)
           /\ PositionalsUpTo(n + 1, names) =
                IF Roles(names)[n + 1] \in {"word", "operand"}
                THEN Append(PositionalsUpTo(n, names), rest[n + 1])
                ELSE PositionalsUpTo(n, names)
<1> DEFINE role == Roles(names)
           gives(i) == role[i] \in {"inline", "option"} /\ Form[rest[i]].name = o
           stands(i) == role[i] \in {"word", "operand"}
           valueOf == [i \in DOMAIN rest |->
                        IF role[i] = "inline" THEN Form[rest[i]].inline ELSE rest[i + 1]]
           P == {i \in 1..n : gives(i)}
           Q == {i \in 1..(n + 1) : gives(i)}
           R == {i \in 1..n : stands(i)}
           T == {i \in 1..(n + 1) : stands(i)}
<1>1. /\ GivenUpTo(n, o, names) = Picked(valueOf, P)
      /\ GivenUpTo(n + 1, o, names) = Picked(valueOf, Q)
      /\ PositionalsUpTo(n, names) = Picked(rest, R)
      /\ PositionalsUpTo(n + 1, names) = Picked(rest, T)
  BY DEF GivenUpTo, PositionalsUpTo
<1>2. valueOf[n + 1] = ValueOf(n + 1, names)
  BY DEF ValueOf
<1>3. Q = IF gives(n + 1) THEN P \cup {n + 1} ELSE P
  OBVIOUS
<1>4. T = IF stands(n + 1) THEN R \cup {n + 1} ELSE R
  OBVIOUS
<1>5. P \in SUBSET (1..n) /\ R \in SUBSET (1..n)
  OBVIOUS
<1> HIDE DEF P, Q, R, T, valueOf
<1>6. /\ Picked(valueOf, P \cup {n + 1}) = Append(Picked(valueOf, P), valueOf[n + 1])
      /\ Picked(rest, R \cup {n + 1}) = Append(Picked(rest, R), rest[n + 1])
  BY <1>5, PickedNext
<1> QED
  BY <1>1, <1>2, <1>3, <1>4, <1>6

(***************************************************************************)
(* What the command line says depends on the command line only.            *)
(***************************************************************************)
LEMMA CommandKept ==
    ASSUME UNCHANGED command
    PROVE  /\ UNCHANGED <<path, rest, Registered>>
           /\ \A names : Roles(names)' = Roles(names)
           /\ \A n, o, names : GivenUpTo(n, o, names)' = GivenUpTo(n, o, names)
           /\ \A n, names : PositionalsUpTo(n, names)' = PositionalsUpTo(n, names)
           /\ \A o, names : GivenFor(o, names)' = GivenFor(o, names)
           /\ \A names : PositionalsOf(names)' = PositionalsOf(names)
           /\ \A names : ReadsWell(names)' <=> ReadsWell(names)
           /\ Named' = Named
           /\ Roles(Registered)' = Roles(Registered)
           /\ \A n, o : GivenUpTo(n, o, Registered)' = GivenUpTo(n, o, Registered)
           /\ \A n : PositionalsUpTo(n, Registered)' = PositionalsUpTo(n, Registered)
           /\ \A o : GivenFor(o, Registered)' = GivenFor(o, Registered)
           /\ PositionalsOf(Registered)' = PositionalsOf(Registered)
           /\ ReadsWell(Registered)' <=> ReadsWell(Registered)
<1>1. path' = path /\ rest' = rest
  BY DEF command
<1>2. \A names : Roles(names)' = Roles(names)
  BY <1>1 DEF Roles
<1>3. \A n, o, names : GivenUpTo(n, o, names)' = GivenUpTo(n, o, names)
  BY <1>1, <1>2 DEF GivenUpTo
<1>4. \A n, names : PositionalsUpTo(n, names)' = PositionalsUpTo(n, names)
  BY <1>1, <1>2 DEF PositionalsUpTo
<1>5. \A names : ReadsWell(names)' <=> ReadsWell(names)
  BY <1>1, <1>2 DEF ReadsWell
<1>6. /\ Registered' = Registered
      /\ Roles(Registered)' = Roles(Registered)
  BY <1>1 DEF Registered, Roles
<1>7. /\ \A n, o : GivenUpTo(n, o, Registered)' = GivenUpTo(n, o, Registered)
      /\ \A n : PositionalsUpTo(n, Registered)' = PositionalsUpTo(n, Registered)
      /\ ReadsWell(Registered)' <=> ReadsWell(Registered)
  BY <1>1, <1>6 DEF GivenUpTo, PositionalsUpTo, ReadsWell
<1>8. /\ \A o : GivenFor(o, Registered)' = GivenFor(o, Registered)
      /\ PositionalsOf(Registered)' = PositionalsOf(Registered)
  BY <1>1, <1>7 DEF GivenFor, PositionalsOf
<1>9. /\ \A o, names : GivenFor(o, names)' = GivenFor(o, names)
      /\ \A names : PositionalsOf(names)' = PositionalsOf(names)
      /\ Named' = Named
  BY <1>1, <1>3, <1>4 DEF GivenFor, PositionalsOf, Named
<1> QED
  BY <1>1, <1>2, <1>3, <1>4, <1>5, <1>6, <1>7, <1>8, <1>9

-----------------------------------------------------------------------------
(***************************************************************************)
(* The token Klyspec looks at, and its role.                               *)
(***************************************************************************)
LEMMA TokenRead ==
    ASSUME TypeInv, ReadAt, Parsing, ok
    PROVE  \E n \in 0..(Len(rest) - 1) :
            /\ ReadUpTo(n)
            /\ todo = SubSeq(rest, n + 1, Len(rest))
            /\ todo[1] = rest[n + 1]
            /\ Tail(todo) = SubSeq(rest, n + 1 + 1, Len(rest))
            /\ Roles(Registered)[n + 1] =
                    IF literal THEN "operand"
                    ELSE IF Next1.kind \in {"end", "word"} THEN Next1.kind
                    ELSE IF Next1.name \notin Registered THEN "unknown"
                    ELSE IF Next1.inline = None THEN "option" ELSE "inline"
<1>1. rest \in Seq(Token) /\ Len(rest) \in 0..Len(rest)
  BY LenProperties DEF TypeInv, TypeOK
<1>2. PICK n \in 0..Len(rest) : todo = SubSeq(rest, n + 1, Len(rest)) /\ ReadUpTo(n)
  BY DEF ReadAt, Parsing
<1>3. /\ n = Len(rest) => SubSeq(rest, n + 1, Len(rest)) = <<>>
      /\ n # Len(rest) =>
            /\ Head(SubSeq(rest, n + 1, Len(rest))) = rest[n + 1]
            /\ Tail(SubSeq(rest, n + 1, Len(rest))) = SubSeq(rest, n + 1 + 1, Len(rest))
  BY <1>1, RestOfList
<1>4. n # Len(rest) /\ n \in 0..(Len(rest) - 1)
  BY <1>1, <1>2, <1>3 DEF Parsing
<1>5. todo[1] = rest[n + 1] /\ Tail(todo) = SubSeq(rest, n + 1 + 1, Len(rest))
  BY <1>2, <1>3, <1>4
<1>6. Roles(Registered)[n + 1] = RoleAfter(Roles(Registered)[n], Form[rest[n + 1]], Registered)
  BY <1>1, <1>4, RolesFollow DEF Roles
<1>7. /\ Roles(Registered)[n] # "option"
      /\ literal <=> Roles(Registered)[n] \in {"end", "operand"}
  BY <1>2 DEF ReadUpTo
<1>8. Roles(Registered)[n + 1] =
                    IF literal THEN "operand"
                    ELSE IF Next1.kind \in {"end", "word"} THEN Next1.kind
                    ELSE IF Next1.name \notin Registered THEN "unknown"
                    ELSE IF Next1.inline = None THEN "option" ELSE "inline"
  BY <1>5, <1>6, <1>7 DEF RoleAfter, Next1
<1> QED
  BY <1>2, <1>4, <1>5, <1>8

\* One token further, one that is no option waiting for its value.
LEMMA ReadOn ==
    ASSUME TypeOK, UNCHANGED command, NEW n \in 0..(Len(rest) - 1), ReadUpTo(n),
           Roles(Registered)[n + 1] # "option", Allowed(n + 1),
           literal' <=> Roles(Registered)[n + 1] \in {"end", "operand"},
           positionals' = IF Roles(Registered)[n + 1] \in {"word", "operand"}
                          THEN Append(positionals, rest[n + 1]) ELSE positionals,
           values' = [o \in OptionId |->
                        IF Roles(Registered)[n + 1] = "inline" /\ Form[rest[n + 1]].name = o
                        THEN Append(values[o], Form[rest[n + 1]].inline) ELSE values[o]]
    PROVE  ReadUpTo(n + 1)'
<1>1. n \in Nat /\ n + 1 \in DOMAIN rest /\ n + 1 \in Nat
  BY LenProperties DEF TypeOK
<1>2. \A o \in OptionId : values[o] = GivenUpTo(n, o, Registered)
  BY DEF ReadUpTo
<1>3. \A o \in OptionId : values'[o] = GivenUpTo(n + 1, o, Registered)
  BY <1>1, <1>2, OneMoreToken DEF ValueOf
<1>4. positionals' = PositionalsUpTo(n + 1, Registered)
  BY <1>1, OneMoreToken DEF ReadUpTo
<1>5. \A i \in 1..(n + 1) : Allowed(i)
  <2>1. \A i \in 1..(n + 1) : i \in 1..n \/ i = n + 1
    BY <1>1
  <2> QED
    BY <2>1 DEF ReadUpTo
<1>6. \A i \in 1..(n + 1) : Allowed(i)'
  BY <1>5, CommandKept DEF Allowed
<1>7. values' = [o \in OptionId |-> GivenUpTo(n + 1, o, Registered)]
  BY <1>3
<1>8. /\ Roles(Registered)'[n + 1] # "option"
      /\ literal' <=> Roles(Registered)'[n + 1] \in {"end", "operand"}
      /\ values' = [o \in OptionId |-> GivenUpTo(n + 1, o, Registered)']
      /\ positionals' = PositionalsUpTo(n + 1, Registered)'
  BY <1>4, <1>7, CommandKept
<1> QED
  BY <1>6, <1>8 DEF ReadUpTo

\* Where ok still holds afterwards, the tokens taken are read as they should be.
LEMMA ParseRead ==
    ASSUME TypeInv, ReadAt, Parse, pc' = "parse", ok'
    PROVE  \E n \in 0..Len(rest)' : todo' = SubSeq(rest, n + 1, Len(rest))' /\ ReadUpTo(n)'
<1>1. TypeOK /\ rest \in Seq(Token) /\ Len(rest) \in Nat
  BY LenProperties DEF TypeInv, TypeOK
<1>2. Parsing /\ UNCHANGED <<command, rest, pc>> /\ ~Parsed
  BY DEF Parse, EndOfOptions, UnknownOption, InlineValue, SeparateValue, MissingValue,
         Positional, Parsed, AtOption, Parsing, Take, ParseFrame, command
<1>3. ok
  BY <1>2 DEF Parse, EndOfOptions, UnknownOption, InlineValue, SeparateValue, MissingValue,
         Positional, Take
<1>4. PICK n \in 0..(Len(rest) - 1) :
            /\ ReadUpTo(n)
            /\ todo = SubSeq(rest, n + 1, Len(rest))
            /\ todo[1] = rest[n + 1]
            /\ Tail(todo) = SubSeq(rest, n + 1 + 1, Len(rest))
            /\ Roles(Registered)[n + 1] =
                    IF literal THEN "operand"
                    ELSE IF Next1.kind \in {"end", "word"} THEN Next1.kind
                    ELSE IF Next1.name \notin Registered THEN "unknown"
                    ELSE IF Next1.inline = None THEN "option" ELSE "inline"
  BY <1>2, <1>3, TokenRead
<1> DEFINE role == Roles(Registered)[n + 1]
<1>5. Next1 = Form[rest[n + 1]] /\ n + 1 \in 0..Len(rest)
  BY <1>1, <1>4 DEF Next1
<1>6. ASSUME ReadUpTo(n + 1)', todo' = Tail(todo)
      PROVE  \E k \in 0..Len(rest)' : todo' = SubSeq(rest, k + 1, Len(rest))' /\ ReadUpTo(k)'
  BY <1>2, <1>4, <1>5, <1>6
<1>7. literal <=> Roles(Registered)[n] \in {"end", "operand"}
  BY <1>4 DEF ReadUpTo
<1>8. values \in [OptionId -> Seq(Value)]
  BY <1>1 DEF TypeOK
<1>9. CASE EndOfOptions
  <2>1. /\ role = "end" /\ literal' /\ UNCHANGED <<values, positionals>>
        /\ todo' = Tail(todo)
    BY <1>4, <1>9 DEF EndOfOptions
  <2>2. ReadUpTo(n + 1)'
    BY <1>1, <1>2, <1>4, <1>8, <2>1, ReadOn DEF Allowed
  <2> QED
    BY <1>6, <2>1, <2>2
<1>10. CASE UnknownOption \/ MissingValue
  BY <1>10 DEF UnknownOption, MissingValue
<1>11. CASE InlineValue
  <2>1. /\ role = "inline" /\ ~literal /\ UNCHANGED <<literal, positionals>>
        /\ ~Next1.junk /\ todo' = Tail(todo)
        /\ values' = [values EXCEPT ![Next1.name] = Append(@, Next1.inline)]
        /\ Next1.name \in Registered
    BY <1>4, <1>11, NuperfAssumption DEF InlineValue, AtOption, Take
  <2>2. values' = [o \in OptionId |-> IF Next1.name = o THEN Append(values[o], Next1.inline)
                                                        ELSE values[o]]
    BY <1>8, <2>1
  <2>3. ReadUpTo(n + 1)'
    BY <1>1, <1>2, <1>4, <1>5, <2>1, <2>2, ReadOn DEF Allowed
  <2> QED
    BY <1>6, <2>1, <2>3
<1>12. CASE SeparateValue
  <2>1. /\ role = "option" /\ ~literal /\ UNCHANGED <<literal, positionals>>
        /\ ~Next1.junk /\ Len(todo) > 1 /\ todo' = Tail(Tail(todo))
        /\ values' = [values EXCEPT ![Next1.name] = Append(@, todo[2])]
        /\ Next1.name \in Registered
    BY <1>4, <1>12 DEF SeparateValue, AtOption, Take
  <2>2. /\ n + 1 \in 0..(Len(rest) - 1) /\ n + 1 \in Nat /\ n + 1 + 1 \in 0..Len(rest)
        /\ todo[2] = rest[n + 1 + 1]
        /\ Tail(Tail(todo)) = SubSeq(rest, n + 1 + 1 + 1, Len(rest))
    <3>1. Len(todo) = Len(rest) - n /\ \A i \in 1..(Len(rest) - n) : todo[i] = rest[n + i]
      BY <1>1, <1>4
    <3>2. n + 1 \in 0..(Len(rest) - 1) /\ n + 1 \in Nat /\ n + 1 + 1 \in 0..Len(rest)
      BY <1>1, <1>4, <2>1, <3>1
    <3>3. todo[2] = rest[n + 2] /\ n + 2 = n + 1 + 1
      BY <1>1, <2>1, <3>1
    <3>4. Tail(SubSeq(rest, n + 1 + 1, Len(rest))) = SubSeq(rest, n + 1 + 1 + 1, Len(rest))
      <4> DEFINE m == n + 1
      <4>1. m \in 0..Len(rest) /\ m # Len(rest) /\ Len(rest) \in 0..Len(rest)
        BY <1>1, <3>2
      <4> HIDE DEF m
      <4>2. Tail(SubSeq(rest, m + 1, Len(rest))) = SubSeq(rest, m + 1 + 1, Len(rest))
        BY <1>1, <4>1, RestOfList
      <4> QED
        BY <4>2 DEF m
    <3> QED
      BY <1>4, <3>2, <3>3, <3>4
  <2>3. Roles(Registered)[n + 1 + 1] = "value"
    <3>1. Roles(Registered)[n + 1 + 1]
            = RoleAfter(role, Form[rest[n + 1 + 1]], Registered)
      BY <1>1, <2>2, RolesFollow DEF Roles
    <3> QED
      BY <2>1, <3>1 DEF RoleAfter
  <2>4. /\ n \in Nat /\ n + 1 \in DOMAIN rest /\ n + 1 \in Nat /\ n + 1 + 1 \in DOMAIN rest
    BY <1>1, <2>2
  <2>5. ASSUME NEW o \in OptionId
        PROVE  values'[o] = GivenUpTo(n + 1 + 1, o, Registered)
    <3>1. values[o] = GivenUpTo(n, o, Registered)
      BY <1>4 DEF ReadUpTo
    <3>2. GivenUpTo(n + 1, o, Registered) =
            IF Form[rest[n + 1]].name = o THEN Append(values[o], rest[n + 1 + 1])
                                          ELSE values[o]
      <4>1. ValueOf(n + 1, Registered) = rest[n + 1 + 1]
        BY <2>1 DEF ValueOf
      <4> QED
        BY <2>1, <2>4, <3>1, <4>1, OneMoreToken
    <3>3. GivenUpTo(n + 1 + 1, o, Registered) = GivenUpTo(n + 1, o, Registered)
      BY <2>3, <2>4, OneMoreToken
    <3>4. values'[o] = IF Next1.name = o THEN Append(values[o], todo[2]) ELSE values[o]
      BY <1>8, <2>1
    <3> QED
      BY <1>5, <2>2, <3>2, <3>3, <3>4
  <2>6. positionals' = PositionalsUpTo(n + 1 + 1, Registered)
    <3>1. PositionalsUpTo(n + 1, Registered) = PositionalsUpTo(n, Registered)
      BY <2>1, <2>4, OneMoreToken
    <3>2. PositionalsUpTo(n + 1 + 1, Registered) = PositionalsUpTo(n + 1, Registered)
      BY <2>3, <2>4, OneMoreToken
    <3> QED
      BY <1>4, <2>1, <3>1, <3>2 DEF ReadUpTo
  <2>7. \A i \in 1..(n + 1 + 1) : Allowed(i)
    <3>1. \A i \in 1..(n + 1 + 1) : i \in 1..n \/ i = n + 1 \/ i = n + 1 + 1
      BY <2>4
    <3>2. Allowed(n + 1) /\ Allowed(n + 1 + 1)
      BY <1>5, <2>1, <2>3 DEF Allowed
    <3> QED
      BY <1>4, <3>1, <3>2 DEF ReadUpTo
  <2>8. \A i \in 1..(n + 1 + 1) : Allowed(i)'
    BY <1>2, <2>7, CommandKept DEF Allowed
  <2>9. values' = [o \in OptionId |-> GivenUpTo(n + 1 + 1, o, Registered)]
    <3>1. DOMAIN values' = OptionId
      BY <1>8, <2>1
    <3>2. values' = [o \in OptionId |-> values'[o]]
      BY <1>8, <2>1
    <3> QED
      BY <2>5, <3>2
  <2>10. /\ Roles(Registered)'[n + 1 + 1] # "option"
         /\ literal' <=> Roles(Registered)'[n + 1 + 1] \in {"end", "operand"}
         /\ values' = [o \in OptionId |-> GivenUpTo(n + 1 + 1, o, Registered)']
         /\ positionals' = PositionalsUpTo(n + 1 + 1, Registered)'
    <3>1. /\ Roles(Registered)' = Roles(Registered)
          /\ PositionalsUpTo(n + 1 + 1, Registered)' = PositionalsUpTo(n + 1 + 1, Registered)
          /\ \A o : GivenUpTo(n + 1 + 1, o, Registered)' = GivenUpTo(n + 1 + 1, o, Registered)
      BY <1>2, CommandKept
    <3>2. literal' <=> FALSE
      BY <2>1
    <3> QED
      BY <2>3, <2>6, <2>9, <3>1, <3>2
  <2>11. ReadUpTo(n + 1 + 1)'
    BY <2>8, <2>10 DEF ReadUpTo
  <2> QED
    BY <1>2, <2>1, <2>2, <2>11
<1>13. CASE Positional
  <2>1. /\ role \in {"word", "operand"} /\ (literal <=> role = "operand")
        /\ UNCHANGED <<literal, values>> /\ todo' = Tail(todo)
        /\ positionals' = Append(positionals, rest[n + 1])
    BY <1>4, <1>13 DEF Positional
  <2>2. ReadUpTo(n + 1)'
    BY <1>1, <1>2, <1>4, <1>8, <2>1, ReadOn DEF Allowed
  <2> QED
    BY <1>6, <2>1, <2>2
<1> QED
  BY <1>2, <1>9, <1>10, <1>11, <1>12, <1>13 DEF Parse

(***************************************************************************)
(* All tokens are read: what is left are the default and the counts.       *)
(***************************************************************************)
LEMMA ParsedReads ==
    ASSUME TypeInv, ReadAt, Parsed, ok'
    PROVE  AllRead'
<1>1. /\ TypeOK /\ rest \in Seq(Token) /\ Len(rest) \in 0..Len(rest)
      /\ DOMAIN rest = 1..Len(rest)
  BY LenProperties DEF TypeInv, TypeOK
<1>2. /\ pc = "parse" /\ todo = <<>> /\ ok /\ UNCHANGED <<command, positionals>>
      /\ \A o \in Single : Len(values[o]) <= 1
      /\ values' = IF path \in BuildPath /\ values["output"] = <<>>
                   THEN [values EXCEPT !["output"] = <<"-">>] ELSE values
  BY DEF Parsed, command
<1>3. PICK n \in 0..Len(rest) : todo = SubSeq(rest, n + 1, Len(rest)) /\ ReadUpTo(n)
  BY <1>2 DEF ReadAt
<1>4. n = Len(rest)
  <2>1. n # Len(rest) => SubSeq(rest, n + 1, Len(rest)) # <<>>
    BY <1>1, RestOfList
  <2> QED
    BY <1>2, <1>3, <2>1
<1>5. /\ Roles(Registered)[Len(rest)] # "option"
      /\ \A o \in OptionId : values[o] = GivenFor(o, Registered)
      /\ positionals = PositionalsOf(Registered)
      /\ \A i \in DOMAIN rest : Allowed(i)
  BY <1>1, <1>3, <1>4 DEF ReadUpTo, GivenFor, PositionalsOf
<1>6. ReadsWell(Registered)
  BY <1>2, <1>5 DEF ReadsWell, ReadAt, Allowed
<1>7. \A o \in Single : Len(GivenFor(o, Registered)) <= 1
  BY <1>2, <1>5 DEF OptionId, BuildOption
<1>8. \A o \in OptionId : values'[o] =
        IF path \in BuildPath /\ o = "output" /\ GivenFor(o, Registered) = <<>>
        THEN <<"-">> ELSE GivenFor(o, Registered)
  <2>1. values \in [OptionId -> Seq(Value)] /\ "output" \in OptionId
    BY <1>1 DEF TypeOK, OptionId, BuildOption, Single
  <2>2. \A o \in OptionId : values'[o] =
            IF path \in BuildPath /\ values["output"] = <<>> /\ o = "output"
            THEN <<"-">> ELSE values[o]
    BY <1>2, <2>1
  <2> QED
    BY <1>5, <2>1, <2>2
<1>9. /\ path' = path /\ positionals' = positionals
      /\ \A o : GivenFor(o, Registered)' = GivenFor(o, Registered)
      /\ PositionalsOf(Registered)' = PositionalsOf(Registered)
      /\ ReadsWell(Registered)' <=> ReadsWell(Registered)
  BY <1>2, CommandKept
<1> QED
  BY <1>5, <1>6, <1>7, <1>8, <1>9 DEF AllRead

LEMMA AllReadKept ==
    ASSUME AllRead, UNCHANGED <<command, parsed>>
    PROVE  AllRead'
<1>1. UNCHANGED command /\ values' = values /\ positionals' = positionals
  BY DEF parsed
<1>2. /\ path' = path
      /\ \A o : GivenFor(o, Registered)' = GivenFor(o, Registered)
      /\ PositionalsOf(Registered)' = PositionalsOf(Registered)
      /\ ReadsWell(Registered)' <=> ReadsWell(Registered)
  BY <1>1, CommandKept
<1> QED
  BY <1>1, <1>2 DEF AllRead

(***************************************************************************)
(* Klyspec, and main around it, keep to what the command line says.        *)
(***************************************************************************)
LEMMA ReadStep ==
    ASSUME TypeInv, ReadAt, [Next]_vars
    PROVE  ReadAt'
<1> USE DEF Initializing
<1>1. ASSUME pc' \in {"exit", "terminated"} PROVE ReadAt'
  BY <1>1 DEF ReadAt
<1>2. CASE NoArguments \/ HelpCommand \/ HelpAsked \/ Report \/ ReportRefused
           \/ UnknownCommand \/ CheckRefused \/ RunBuild \/ InitThrows
           \/ UnsupportedBuildFile \/ Initialized
  <2>1. pc' \in {"exit", "terminated"}
    BY <1>2 DEF NoArguments, HelpCommand, HelpAsked, Report, ReportRefused,
         UnknownCommand, CheckRefused, RunBuild, InitThrows, UnsupportedBuildFile,
         Initialized, PrintHelp, Refuse, Exit
  <2> QED
    BY <1>1, <2>1
<1>3. CASE Resolve \/ Resolved \/ \E words \in Docs : VisitDoc(words)
  BY <1>3 DEF Resolve, Resolved, VisitDoc, ReadAt, parsed
<1>4. CASE StartParse
  <2>1. /\ pc = "dispatch" /\ pc' = "parse" /\ path \in BuildPath \cup InitPath
        /\ UNCHANGED <<command, parsed>> /\ todo' = rest
        /\ \A i \in DOMAIN rest : rest[i] \notin HelpFlag
    BY <1>4 DEF StartParse, Dispatched, CommandHelpAsked, BuildPath, InitPath, Docs
  <2>2. /\ ok /\ ~literal /\ values = [o \in OptionId |-> <<>>] /\ positionals = <<>>
    BY <2>1 DEF ReadAt
  <2>3. rest \in Seq(Token) /\ 0 \in 0..Len(rest)
        /\ todo' = SubSeq(rest, 0 + 1, Len(rest))
    BY <2>1, SubSeqFull DEF TypeInv, TypeOK
  <2>4. Roles(Registered)[0] = "start"
    BY <2>3, RolesFollow DEF Roles
  <2>5. /\ UNCHANGED <<path, rest, literal, values, positionals>>
        /\ Roles(Registered)' = Roles(Registered)
        /\ PositionalsUpTo(0, Registered)' = <<>>
        /\ \A o : GivenUpTo(0, o, Registered)' = <<>>
    BY <2>1, NothingRead, CommandKept DEF parsed
  <2>6. ReadUpTo(0)'
    BY <2>2, <2>4, <2>5 DEF ReadUpTo
  <2> QED
    BY <2>1, <2>3, <2>5, <2>6 DEF ReadAt
<1>5. CASE Parse /\ ~Parsed
  <2>1. pc = "parse" /\ pc' = "parse" /\ UNCHANGED command
    BY <1>5 DEF Parse, EndOfOptions, UnknownOption, InlineValue, SeparateValue,
         MissingValue, Positional, AtOption, Parsing, Take, ParseFrame
  <2>2. ok' => \E n \in 0..Len(rest)' :
                    todo' = SubSeq(rest, n + 1, Len(rest))' /\ ReadUpTo(n)'
    BY <1>5, <2>1, ParseRead
  <2> QED
    BY <2>1, <2>2 DEF ReadAt, command
<1>6. CASE Parsed
  <2>1. pc = "parse" /\ pc' = "check" /\ UNCHANGED command
    BY <1>6 DEF Parsed
  <2>2. ok' => AllRead'
    BY <1>6, ParsedReads
  <2> QED
    BY <2>1, <2>2 DEF ReadAt, command
<1>7. CASE StartInit
  <2>1. /\ pc = "check" /\ pc' = "make_dirs" /\ UNCHANGED <<command, parsed>>
        /\ ok /\ path \in InitPath /\ Len(positionals) <= 1
    BY <1>7 DEF StartInit, Acceptable
  <2>2. AllRead'
    BY <2>1, AllReadKept DEF ReadAt
  <2> QED
    BY <2>1, <2>2 DEF ReadAt, command, parsed
<1>8. CASE MakeDirs \/ WriteSample \/ WriteScript \/ WriteBuildFile
  <2>1. /\ pc \in Initializing /\ pc' \in Initializing /\ UNCHANGED <<command, parsed>>
    BY <1>8 DEF MakeDirs, WriteSample, WriteScript, WriteBuildFile, InitFrame
  <2>2. AllRead'
    BY <2>1, AllReadKept DEF ReadAt
  <2> QED
    BY <2>1, <2>2 DEF ReadAt, command, parsed
<1>9. CASE UNCHANGED vars
  <2>1. UNCHANGED <<pc, command, parsed, todo>>
    BY <1>9 DEF vars
  <2>2. AllRead => AllRead'
    BY <2>1, AllReadKept
  <2>3. \A n : ReadUpTo(n) => ReadUpTo(n)'
    <3>1. UNCHANGED <<rest, literal, values, positionals>>
      BY <2>1 DEF command, parsed
    <3>2. /\ Roles(Registered)' = Roles(Registered)
          /\ \A n, o : GivenUpTo(n, o, Registered)' = GivenUpTo(n, o, Registered)
          /\ \A n : PositionalsUpTo(n, Registered)' = PositionalsUpTo(n, Registered)
      BY <2>1, CommandKept
    <3> QED
      BY <3>1, <3>2 DEF ReadUpTo, Allowed
  <2> QED
    BY <2>1, <2>2, <2>3 DEF ReadAt, command, parsed
<1> QED
  BY <1>2, <1>3, <1>4, <1>5, <1>6, <1>7, <1>8, <1>9 DEF Next, Command, Parse, Run


LEMMA ReadInvariant == Spec => [](TypeInv /\ ReadAt)
<1>1. Init => TypeInv /\ ReadAt
  BY InitType DEF Init, ReadAt, Initializing
<1>2. TypeInv /\ ReadAt /\ [Next]_vars => (TypeInv /\ ReadAt)'
  BY StepType, ReadStep
<1> QED
  BY <1>1, <1>2, PTL DEF Spec

-----------------------------------------------------------------------------
\* What get1 answers for a build command that was read.
LEMMA BuildReads ==
    ASSUME TypeInv, AllRead, path \in BuildPath
    PROVE  /\ Get1("output") = First(GivenFor("output", BuildOption), "-")
           /\ \A o \in Single \ {"output"} : Get1(o) = First(GivenFor(o, BuildOption), Empty)
           /\ values["option"] = GivenFor("option", BuildOption)
<1>1. Registered = BuildOption
  BY DEF Registered
<1>2. \A o \in OptionId \ {"output"} : values[o] = GivenFor(o, BuildOption)
  BY <1>1 DEF AllRead
<1>3. Get1("output") = First(GivenFor("output", BuildOption), "-")
  <2>1. values["output"] = IF GivenFor("output", BuildOption) = <<>>
                           THEN <<"-">> ELSE GivenFor("output", BuildOption)
    BY <1>1 DEF AllRead, OptionId, BuildOption, Single
  <2>2. <<"-">>[1] = "-" /\ <<"-">> # <<>>
    OBVIOUS
  <2> QED
    BY <2>1, <2>2 DEF Get1, First
<1>4. ASSUME NEW o \in Single \ {"output"}
      PROVE  Get1(o) = First(GivenFor(o, BuildOption), Empty)
  <2>1. values[o] = GivenFor(o, BuildOption)
    BY <1>2 DEF OptionId, BuildOption
  <2> QED
    BY <2>1 DEF Get1, First
<1>5. "option" \in OptionId \ {"output"}
  BY DEF OptionId, BuildOption
<1> QED
  BY <1>2, <1>3, <1>4, <1>5

\* At most one structured import: the format that is chosen is that one.
LEMMA FormatChosen ==
    ASSUME \A f, g \in Structured : f = g
    PROVE  /\ BuildCall.format \in From \cup {"lines"}
           /\ Structured = IF BuildCall.format = "lines" THEN {} ELSE {BuildCall.format}
<1>1. BuildCall.format = IF Structured = {} THEN "lines" ELSE CHOOSE f \in Structured : TRUE
  BY DEF BuildCall
<1>2. "lines" \notin From /\ Structured \subseteq From
  BY DEF From, Structured
<1>3. CASE Structured = {}
  BY <1>1, <1>3
<1>4. CASE Structured # {}
  <2>1. BuildCall.format \in Structured
    BY <1>1, <1>4
  <2> QED
    BY <1>2, <2>1
<1> QED
  BY <1>3, <1>4

\* The call of cmd_build_run, and nothing else, hands over what was asked.
LEMMA CalledAsAsked ==
    ASSUME TypeInv, ReadAt, RunBuild
    PROVE  BuildAsAsked'
<1> DEFINE Of(o) == First(GivenFor(o, BuildOption), Empty)
           imports == {f \in From : Of(f) # Empty}
<1>1. /\ path \in BuildPath /\ AllRead /\ positionals = <<>>
      /\ \A f, g \in Structured : f = g
      /\ call' = BuildCall /\ UNCHANGED command
  BY DEF RunBuild, Acceptable, ReadAt
<1>2. /\ Get1("output") = First(GivenFor("output", BuildOption), "-")
      /\ \A o \in Single \ {"output"} : Get1(o) = Of(o)
      /\ values["option"] = GivenFor("option", BuildOption)
  BY <1>1, BuildReads
<1>3. /\ BuildCall.format \in From \cup {"lines"}
      /\ Structured = IF BuildCall.format = "lines" THEN {} ELSE {BuildCall.format}
  BY <1>1, FormatChosen
<1>4. From \subseteq Single \ {"output"}
  BY DEF From, Single
<1>5. imports = Structured
  BY <1>2, <1>4 DEF Structured
<1>6. /\ BuildCall.output = Get1("output") /\ BuildCall.method = Get1("method")
      /\ BuildCall.target = Get1("target") /\ BuildCall.schema = Get1("schema")
      /\ BuildCall.dump = Get1("dump-json-schema") /\ BuildCall.options = values["option"]
      /\ BuildCall.input = Get1(IF BuildCall.format = "lines" THEN "input"
                                                            ELSE BuildCall.format)
  BY DEF BuildCall
<1>7. {"method", "target", "schema", "dump-json-schema", "input"} \subseteq Single \ {"output"}
  BY DEF Single, From
<1>8. /\ BuildCall.options = GivenFor("option", BuildOption)
      /\ BuildCall.output = First(GivenFor("output", BuildOption), "-")
      /\ BuildCall.method = Of("method") /\ BuildCall.target = Of("target")
      /\ BuildCall.schema = Of("schema")
      /\ BuildCall.dump = Of("dump-json-schema")
  BY <1>2, <1>6, <1>7
<1>9. BuildCall.input = Of(IF BuildCall.format = "lines" THEN "input" ELSE BuildCall.format)
  BY <1>2, <1>3, <1>4, <1>6, <1>7
<1>10. /\ ReadsWell(BuildOption) /\ PositionalsOf(BuildOption) = <<>>
       /\ \A o \in Single : Len(GivenFor(o, BuildOption)) <= 1
  BY <1>1 DEF AllRead, Registered
<1>11. /\ path' = path
       /\ \A o : GivenFor(o, BuildOption)' = GivenFor(o, BuildOption)
       /\ PositionalsOf(BuildOption)' = PositionalsOf(BuildOption)
       /\ ReadsWell(BuildOption)' <=> ReadsWell(BuildOption)
  BY <1>1, CommandKept
<1> HIDE DEF Of
<1>12. imports = IF BuildCall.format = "lines" THEN {} ELSE {BuildCall.format}
  BY <1>3, <1>5
<1> USE DEF Of
<1> QED
  BY <1>1, <1>8, <1>9, <1>10, <1>11, <1>12 DEF BuildAsAsked

LEMMA AskedStep ==
    ASSUME TypeInv, ReadAt, CallAt, BuildAsAsked, [Next]_vars
    PROVE  CallAt' /\ BuildAsAsked'
<1>1. CASE RunBuild
  BY <1>1, CalledAsAsked DEF RunBuild, Exit, CallAt
<1>2. CASE Next /\ ~RunBuild
  <2>1. pc \notin {"exit", "terminated"} /\ call' = call
    BY <1>2 DEF Next, Command, NoArguments, HelpCommand, HelpAsked, Report, ReportRefused,
         UnknownCommand, PrintHelp, Refuse, Resolve, Resolved, VisitDoc, StartParse,
         Dispatched, Parse, EndOfOptions, UnknownOption, InlineValue, SeparateValue,
         MissingValue, Positional, Parsed, AtOption, Parsing, Take, ParseFrame, Run,
         CheckRefused, StartInit, InitThrows, MakeDirs, WriteSample, WriteScript,
         WriteBuildFile, UnsupportedBuildFile, Initialized, InitFrame
  <2> QED
    BY <2>1 DEF CallAt, BuildAsAsked
<1>3. CASE UNCHANGED vars
  <2>1. UNCHANGED <<pc, call, command>>
    BY <1>3 DEF vars
  <2>2. /\ path' = path
        /\ \A o : GivenFor(o, BuildOption)' = GivenFor(o, BuildOption)
        /\ PositionalsOf(BuildOption)' = PositionalsOf(BuildOption)
        /\ ReadsWell(BuildOption)' <=> ReadsWell(BuildOption)
    BY <2>1, CommandKept
  <2> QED
    BY <2>1, <2>2 DEF CallAt, BuildAsAsked
<1> QED
  BY <1>1, <1>2, <1>3

(***************************************************************************)
(* cmd_build_run is called only for a command line that reads well, and    *)
(* gets what that line says: whatever the tokens are, however many there   *)
(* are and however Klyspec takes them apart.                               *)
(***************************************************************************)
THEOREM BuildGetsWhatWasAsked == Spec => []BuildAsAsked
<1>1. Init => CallAt /\ BuildAsAsked
  BY DEF Init, CallAt, BuildAsAsked
<1>2. TypeInv /\ ReadAt /\ CallAt /\ BuildAsAsked /\ [Next]_vars => (CallAt /\ BuildAsAsked)'
  BY AskedStep
<1> QED
  BY <1>1, <1>2, ReadInvariant, PTL DEF Spec

-----------------------------------------------------------------------------
\* What a project init was given.
LEMMA InitReads ==
    ASSUME TypeInv, ReadAt, pc \in Initializing
    PROVE  /\ path \in InitPath
           /\ ReadsWell({"add-build"}) /\ Len(PositionalsOf({"add-build"})) <= 1
           /\ values["add-build"] = Named /\ Named \in Seq(Value)
<1>1. ok /\ path \in InitPath /\ Len(positionals) <= 1 /\ AllRead
  BY DEF ReadAt
<1>2. Registered = {"add-build"}
  BY <1>1 DEF Registered, InitPath, BuildPath
<1>3. "add-build" \in OptionId /\ "add-build" # "output"
  BY DEF OptionId
<1>4. values["add-build"] = GivenFor("add-build", Registered)
  BY <1>1, <1>3 DEF AllRead
<1>5. values["add-build"] = Named
  BY <1>2, <1>4 DEF Named
<1>6. values["add-build"] \in Seq(Value)
  BY <1>3 DEF TypeInv, TypeOK
<1>7. ReadsWell({"add-build"}) /\ Len(PositionalsOf({"add-build"})) <= 1
  BY <1>1, <1>2 DEF AllRead
<1> QED
  BY <1>1, <1>5, <1>6, <1>7

\* A build writes where the command line tells it to.
LEMMA BuildWritesAsAsked ==
    ASSUME TypeInv, ReadAt, RunBuild, NEW f \in File, files'[f] # files[f]
    PROVE  BuildWrites(f)
<1>1. /\ path \in BuildPath /\ AllRead /\ positionals = <<>>
      /\ f \in {BuildCall.output, BuildCall.dump}
  BY DEF RunBuild, Acceptable, ReadAt, TypeInv, TypeOK
<1>2. /\ BuildCall.output = First(GivenFor("output", BuildOption), "-")
      /\ BuildCall.dump = First(GivenFor("dump-json-schema", BuildOption), Empty)
  <2>1. "dump-json-schema" \in Single \ {"output"}
    BY DEF Single, From
  <2> QED
    BY <1>1, <2>1, BuildReads DEF BuildCall
<1>3. "-" # f /\ Empty # f
  BY NuperfAssumption
<1>4. BuildCall.output = f => First(GivenFor("output", BuildOption), Empty) = f
  BY <1>2, <1>3 DEF First
<1>5. ReadsWell(BuildOption) /\ PositionalsOf(BuildOption) = <<>>
  BY <1>1 DEF AllRead, Registered
<1> QED
  BY <1>1, <1>2, <1>4, <1>5 DEF BuildWrites

(***************************************************************************)
(* Whatever the command line, no step of it makes a directory unless it is *)
(* a `project init` that reads well, and none changes a file unless it is  *)
(* one or a build that reads well and names that file.                     *)
(***************************************************************************)
THEOREM DiskChangesAsAsked == Spec => DiskAsAsked
<1>1. ASSUME TypeInv, ReadAt, [Next]_vars, ~RunBuild, <<dirs, files>>' # <<dirs, files>>
      PROVE  InitReadsWell
  <2>1. pc \in Initializing
    BY <1>1 DEF Initializing, Next, vars, disk, Command, NoArguments, HelpCommand,
         HelpAsked, Report, ReportRefused, UnknownCommand, PrintHelp, Refuse, Resolve,
         Resolved, VisitDoc, StartParse, Parse, EndOfOptions, UnknownOption, InlineValue,
         SeparateValue, MissingValue, Positional, Parsed, Take, ParseFrame, Run,
         CheckRefused, StartInit, InitThrows, MakeDirs, WriteSample, WriteScript,
         WriteBuildFile, UnsupportedBuildFile, Initialized
  <2> QED
    BY <1>1, <2>1, InitReads DEF InitReadsWell
<1>2. ASSUME TypeInv, ReadAt, RunBuild
      PROVE  dirs' = dirs /\ \A f \in File : files'[f] # files[f] => BuildWrites(f)
  BY <1>2, BuildWritesAsAsked DEF RunBuild
<1>3. TypeInv /\ ReadAt /\ [Next]_vars =>
        /\ dirs' # dirs => InitReadsWell
        /\ \A f \in File : files'[f] # files[f] => InitReadsWell \/ BuildWrites(f)
  BY <1>1, <1>2
<1> QED
  BY <1>3, ReadInvariant, PTL DEF Spec, DiskAsAsked


-----------------------------------------------------------------------------
\* One file is written, or its write fails: no other is touched.
LEMMA WriteOne ==
    ASSUME TypeOK, NEW file \in File, NEW W, Written(W), Write(file), UNCHANGED before
    PROVE  \A f \in File : IF f \in W \cup {file} THEN files'[f] = "whole" \/ f \in failed'
                           ELSE files'[f] = before'.files[f]
<1>1. files \in [File -> Content]
  BY DEF TypeOK
<1>2. ASSUME NEW f \in File, f # file
      PROVE  files'[f] = files[f] /\ (f \in failed' <=> f \in failed)
  BY <1>1, <1>2 DEF Write
<1>3. files'[file] = "whole" \/ file \in failed'
  BY <1>1 DEF Write
<1>4. \A f \in File : IF f \in W THEN files[f] = "whole" \/ f \in failed
                      ELSE files[f] = before.files[f]
  BY DEF Written
<1> QED
  BY <1>2, <1>3, <1>4

\* The build files are written in the order they are named.
LEMMA BuildFileNamed ==
    ASSUME TypeInv, ReadAt, WorkspaceAt, pc = "build_files"
    PROVE  \E n \in 0..Len(Named) :
            /\ \A i \in 1..n : Named[i] \in BuildFile
            /\ Written({Sample, Script} \cup {Named[i] : i \in 1..n})
            /\ todo = <<>> => n = Len(Named)
            /\ todo # <<>> =>
                /\ n + 1 \in 1..Len(Named)
                /\ todo[1] = Named[n + 1]
                /\ Tail(todo) = SubSeq(Named, n + 1 + 1, Len(Named))
<1>1. Named \in Seq(Value) /\ Len(Named) \in 0..Len(Named)
  BY InitReads, LenProperties DEF Initializing
<1>2. PICK n \in 0..Len(Named) :
        /\ todo = SubSeq(Named, n + 1, Len(Named))
        /\ \A i \in 1..n : Named[i] \in BuildFile
        /\ Written({Sample, Script} \cup {Named[i] : i \in 1..n})
  BY DEF WorkspaceAt
<1>3. /\ n = Len(Named) => SubSeq(Named, n + 1, Len(Named)) = <<>>
      /\ n # Len(Named) =>
            /\ SubSeq(Named, n + 1, Len(Named)) # <<>>
            /\ Head(SubSeq(Named, n + 1, Len(Named))) = Named[n + 1]
            /\ Tail(SubSeq(Named, n + 1, Len(Named))) = SubSeq(Named, n + 1 + 1, Len(Named))
  BY <1>1, RestOfList
<1>4. todo = <<>> => n = Len(Named)
  BY <1>2, <1>3
<1>5. ASSUME todo # <<>>
      PROVE  /\ n + 1 \in 1..Len(Named) /\ todo[1] = Named[n + 1]
             /\ Tail(todo) = SubSeq(Named, n + 1 + 1, Len(Named))
  BY <1>1, <1>2, <1>3, <1>5
<1> QED
  BY <1>2, <1>4, <1>5

\* What a step of cmd_project_init leaves of what the command line says.
LEMMA InitKeeps ==
    ASSUME InitFrame
    PROVE  UNCHANGED <<before, path, Named, values>>
           /\ NamedBeforeUnsupported' = NamedBeforeUnsupported
<1>1. UNCHANGED <<before, path, Named, values>>
  BY CommandKept DEF InitFrame, input, parsed
<1> QED
  BY <1>1 DEF NamedBeforeUnsupported

LEMMA WriteScriptStep ==
    ASSUME TypeInv, ReadAt, WorkspaceAt, WriteScript
    PROVE  WorkspaceAt'
<1>1. /\ pc = "write_script" /\ pc' = "build_files" /\ printed' = printed
      /\ Write(Script) /\ todo' = values["add-build"] /\ InitFrame
  BY DEF WriteScript
<1>2. values["add-build"] = Named /\ Named \in Seq(Value)
  BY <1>1, InitReads DEF Initializing
<1>3. UNCHANGED <<before, Named>>
  BY <1>1, InitKeeps
<1>4. \A f \in File : IF f \in {Sample} \cup {Script} THEN files'[f] = "whole" \/ f \in failed'
                      ELSE files'[f] = before'.files[f]
  <2>1. TypeOK /\ Script \in File /\ Written({Sample})
    BY <1>1 DEF WorkspaceAt, TypeInv, File
  <2> QED
    BY <1>1, <1>3, <2>1, WriteOne
<1>5. {Sample, Script} \cup {Named'[i] : i \in 1..0} = {Sample} \cup {Script}
  <2>1. 1..0 = {}
    OBVIOUS
  <2> QED
    BY <2>1
<1>6. Written({Sample, Script} \cup {Named[i] : i \in 1..0})'
  BY <1>4, <1>5 DEF Written
<1>7. todo' = SubSeq(Named, 0 + 1, Len(Named))' /\ 0 \in 0..Len(Named)'
  BY <1>1, <1>2, <1>3, SubSeqFull, LenProperties
<1>8. \A i \in 1..0 : Named'[i] \in BuildFile
  OBVIOUS
<1>9. printed' = "nothing"
  BY <1>1 DEF WorkspaceAt
<1> QED
  BY <1>1, <1>6, <1>7, <1>8, <1>9 DEF WorkspaceAt

LEMMA WriteBuildFileStep ==
    ASSUME TypeInv, ReadAt, WorkspaceAt, WriteBuildFile
    PROVE  WorkspaceAt'
<1>1. /\ pc = "build_files" /\ pc' = "build_files" /\ printed' = printed
      /\ todo # <<>> /\ todo[1] \in BuildFile /\ Write(todo[1]) /\ todo' = Tail(todo)
      /\ InitFrame
  BY DEF WriteBuildFile
<1>2. PICK n \in 0..Len(Named) :
        /\ \A i \in 1..n : Named[i] \in BuildFile
        /\ Written({Sample, Script} \cup {Named[i] : i \in 1..n})
        /\ n + 1 \in 1..Len(Named)
        /\ todo[1] = Named[n + 1]
        /\ Tail(todo) = SubSeq(Named, n + 1 + 1, Len(Named))
  BY <1>1, BuildFileNamed
<1>3. UNCHANGED <<before, Named>>
  BY <1>1, InitKeeps
<1> DEFINE W == {Sample, Script} \cup {Named[i] : i \in 1..n}
<1>4. \A f \in File : IF f \in W \cup {todo[1]} THEN files'[f] = "whole" \/ f \in failed'
                      ELSE files'[f] = before'.files[f]
  <2>1. TypeOK /\ todo[1] \in File /\ Written(W)
    BY <1>1, <1>2 DEF TypeInv, File
  <2> HIDE DEF W
  <2> QED
    BY <1>1, <1>3, <2>1, WriteOne
<1>5. n \in Nat /\ n + 1 \in 0..Len(Named)
  BY <1>2
<1>6. 1..(n + 1) = (1..n) \cup {n + 1}
  BY <1>5
<1>7. {Sample, Script} \cup {Named'[i] : i \in 1..(n + 1)} = W \cup {todo[1]}
  BY <1>2, <1>3, <1>6
<1>8. Written({Sample, Script} \cup {Named[i] : i \in 1..(n + 1)})'
  <2> HIDE DEF W
  <2> QED
    BY <1>4, <1>7 DEF Written
<1>9. \A i \in 1..(n + 1) : Named'[i] \in BuildFile
  BY <1>1, <1>2, <1>3, <1>6
<1>10. printed' = "nothing"
  BY <1>1 DEF WorkspaceAt
<1> QED
  BY <1>1, <1>2, <1>3, <1>5, <1>8, <1>9, <1>10 DEF WorkspaceAt

\* The end of a project init: all build files are known, or one is not.
LEMMA InitializedStep ==
    ASSUME TypeInv, ReadAt, WorkspaceAt, Initialized
    PROVE  WorkspaceAt' /\ WorkspaceAsReported'
<1>1. /\ pc = "build_files" /\ pc' = "exit" /\ rc' = 0 /\ printed' = "initialized"
      /\ todo = <<>> /\ UNCHANGED disk /\ InitFrame
  BY DEF Initialized, Exit
<1>2. /\ \A i \in 1..Len(Named) : Named[i] \in BuildFile
      /\ Written({Sample, Script} \cup {Named[i] : i \in 1..Len(Named)})
  BY <1>1, BuildFileNamed
<1>3. Named \in Seq(Value) /\ DOMAIN Named = 1..Len(Named) /\ Len(Named) \in Nat
  BY <1>1, InitReads, LenProperties DEF Initializing
<1>4. NamedBeforeUnsupported = {Named[i] : i \in 1..Len(Named)}
  <2>1. {i \in DOMAIN Named : \A j \in 1..i : Named[j] \in BuildFile} = 1..Len(Named)
    BY <1>2, <1>3
  <2> QED
    BY <2>1 DEF NamedBeforeUnsupported
<1>5. /\ UNCHANGED <<before, path, Named, files, failed>>
      /\ NamedBeforeUnsupported' = NamedBeforeUnsupported
  BY <1>1, InitKeeps DEF disk
<1>6. \A f \in File : IF f \in {Sample, Script} \cup NamedBeforeUnsupported
                      THEN files[f] = "whole" \/ f \in failed ELSE files[f] = before.files[f]
  BY <1>2, <1>4 DEF Written
<1>7. WorkspaceAsReported'
  BY <1>1, <1>2, <1>3, <1>5, <1>6 DEF WorkspaceAsReported
<1> QED
  BY <1>1, <1>7 DEF WorkspaceAt

LEMMA UnsupportedStep ==
    ASSUME TypeInv, ReadAt, WorkspaceAt, UnsupportedBuildFile
    PROVE  WorkspaceAt' /\ WorkspaceAsReported'
<1>1. /\ pc = "build_files" /\ pc' = "exit" /\ rc' = 1 /\ printed' = printed
      /\ todo # <<>> /\ todo[1] \notin BuildFile
      /\ UNCHANGED <<input, pending, command, parsed, call, disk>>
  BY DEF UnsupportedBuildFile, Refuse, Exit
<1>2. PICK n \in 0..Len(Named) :
        /\ \A i \in 1..n : Named[i] \in BuildFile
        /\ Written({Sample, Script} \cup {Named[i] : i \in 1..n})
        /\ n + 1 \in 1..Len(Named)
        /\ todo[1] = Named[n + 1]
  BY <1>1, BuildFileNamed
<1>3. Named \in Seq(Value) /\ DOMAIN Named = 1..Len(Named) /\ Len(Named) \in Nat
  BY <1>1, InitReads, LenProperties DEF Initializing
<1>4. NamedBeforeUnsupported = {Named[i] : i \in 1..n}
  <2>1. ASSUME NEW i \in DOMAIN Named
        PROVE  (\A j \in 1..i : Named[j] \in BuildFile) <=> i \in 1..n
    <3>1. i > n => n + 1 \in 1..i
      BY <1>2, <1>3, <2>1
    <3>2. i <= n => \A j \in 1..i : j \in 1..n
      BY <1>2, <1>3, <2>1
    <3> QED
      BY <1>1, <1>2, <1>3, <2>1, <3>1, <3>2
  <2>2. {i \in DOMAIN Named : \A j \in 1..i : Named[j] \in BuildFile} = 1..n
    BY <1>2, <1>3, <2>1
  <2> QED
    BY <2>2 DEF NamedBeforeUnsupported
<1>5. InitFrame
  BY <1>1 DEF InitFrame
<1>6. /\ UNCHANGED <<before, path, Named, files, failed>>
      /\ NamedBeforeUnsupported' = NamedBeforeUnsupported
  BY <1>1, <1>5, InitKeeps DEF disk
<1>7. \A f \in File : IF f \in {Sample, Script} \cup NamedBeforeUnsupported
                      THEN files[f] = "whole" \/ f \in failed ELSE files[f] = before.files[f]
  BY <1>2, <1>4 DEF Written
<1>8. printed' = "nothing"
  BY <1>1 DEF WorkspaceAt
<1>9. WorkspaceAsReported'
  BY <1>1, <1>6, <1>7, <1>8 DEF WorkspaceAsReported
<1> QED
  BY <1>1, <1>9 DEF WorkspaceAt

LEMMA WorkspaceStep ==
    ASSUME TypeInv, ReadAt, WorkspaceAt, WorkspaceAsReported, [Next]_vars
    PROVE  WorkspaceAt' /\ WorkspaceAsReported'
<1>1. CASE NoArguments \/ HelpCommand \/ HelpAsked \/ Report \/ ReportRefused
           \/ UnknownCommand \/ CheckRefused
  <2>1. /\ pc \in {"start", "dispatch", "check"} /\ pc' = "exit" /\ UNCHANGED <<input, disk>>
        /\ printed' # "initialized" \/ printed' = printed
    <3>1. ASSUME NEW words PROVE HelpPage(words) # "initialized"
      BY DEF HelpPage
    <3> QED
      BY <1>1, <3>1 DEF NoArguments, HelpCommand, HelpAsked, Report, ReportRefused,
           UnknownCommand, CheckRefused, PrintHelp, Refuse, Exit, Dispatched
  <2>2. files = before.files /\ printed = "nothing"
    BY <2>1 DEF WorkspaceAt
  <2> QED
    BY <2>1, <2>2 DEF WorkspaceAt, WorkspaceAsReported, input, disk
<1>2. CASE \/ Resolve \/ Resolved \/ \E words \in Docs : VisitDoc(words)
           \/ StartParse \/ Parse \/ StartInit \/ InitThrows \/ MakeDirs
  <2>1. /\ pc \notin {"write_script", "build_files", "exit", "terminated"}
        /\ pc' \notin {"write_script", "build_files", "exit"}
        /\ UNCHANGED <<before, files, printed>>
    BY <1>2 DEF Resolve, Resolved, VisitDoc, StartParse, Dispatched, Parse, EndOfOptions,
         UnknownOption, InlineValue, SeparateValue, MissingValue, Positional, Parsed,
         AtOption, Parsing, Take, ParseFrame, StartInit, InitThrows, MakeDirs, InitFrame,
         input, disk
  <2> QED
    BY <2>1 DEF WorkspaceAt, WorkspaceAsReported
<1>3. CASE WriteSample
  <2>1. /\ pc = "write_sample" /\ pc' = "write_script" /\ printed' = printed
        /\ Write(Sample) /\ InitFrame
    BY <1>3 DEF WriteSample
  <2>2. TypeOK /\ Sample \in File /\ Written({}) /\ UNCHANGED before
    BY <2>1, InitKeeps DEF WorkspaceAt, TypeInv, File, Written
  <2>3. \A f \in File : IF f \in {} \cup {Sample} THEN files'[f] = "whole" \/ f \in failed'
                        ELSE files'[f] = before'.files[f]
    BY <2>1, <2>2, WriteOne
  <2>4. Written({Sample})'
    BY <2>3 DEF Written
  <2> QED
    BY <2>1, <2>4 DEF WorkspaceAt, WorkspaceAsReported
<1>4. CASE WriteScript \/ WriteBuildFile
  <2>1. WorkspaceAt'
    BY <1>4, WriteScriptStep, WriteBuildFileStep
  <2>2. pc' # "exit"
    BY <1>4 DEF WriteScript, WriteBuildFile
  <2> QED
    BY <2>1, <2>2 DEF WorkspaceAsReported
<1>5. CASE UnsupportedBuildFile \/ Initialized
  BY <1>5, UnsupportedStep, InitializedStep
<1>6. CASE RunBuild
  <2>1. /\ pc = "check" /\ pc' \in {"exit", "terminated"} /\ printed' = printed
        /\ path \in BuildPath /\ path' = path
    BY <1>6 DEF RunBuild, Exit, command
  <2>2. path' \notin InitPath
    BY <2>1 DEF BuildPath, InitPath
  <2> QED
    BY <2>1, <2>2 DEF WorkspaceAt, WorkspaceAsReported
<1>7. CASE UNCHANGED vars
  <2>1. UNCHANGED <<pc, before, path, Named, todo, files, failed, printed, rc>>
    BY <1>7, CommandKept DEF vars, input, command, disk
  <2>2. UNCHANGED NamedBeforeUnsupported
    BY <2>1 DEF NamedBeforeUnsupported
  <2> QED
    BY <2>1, <2>2 DEF WorkspaceAt, WorkspaceAsReported, Written
<1> QED
  BY <1>1, <1>2, <1>3, <1>4, <1>5, <1>6, <1>7 DEF Next, Command, Run

(***************************************************************************)
(* What `project init` leaves in the workspace is what it reports, for     *)
(* every list of build files, whatever was there and whichever write       *)
(* fails.                                                                  *)
(***************************************************************************)
THEOREM WorkspaceIsAsReported == Spec => []WorkspaceAsReported
<1>1. Init => WorkspaceAt /\ WorkspaceAsReported
  BY DEF Init, WorkspaceAt, WorkspaceAsReported
<1>2. TypeInv /\ ReadAt /\ WorkspaceAt /\ WorkspaceAsReported /\ [Next]_vars
        => (WorkspaceAt /\ WorkspaceAsReported)'
  BY WorkspaceStep
<1> QED
  BY <1>1, <1>2, ReadInvariant, PTL DEF Spec

-----------------------------------------------------------------------------
(***************************************************************************)
(* A command line is refused for a reason: once ok is lost, what is left   *)
(* of the line cannot mend it.  And nothing is made before it is run.      *)
(***************************************************************************)
MisreadAt ==
    /\ pc = "parse" /\ ~ok => ~ReadsWell(Registered)
    /\ pc = "check" /\ ~ok =>
        \/ ~ReadsWell(Registered)
        \/ \E o \in Single : ~(Len(GivenFor(o, Registered)) <= 1)

Choosing == {"start", "resolve", "dispatch", "parse", "check"}

UntouchedAt == pc \in Choosing => dirs = before.dirs

\* The token that costs ok is one that does not read well.
LEMMA ParseMisread ==
    ASSUME TypeInv, ReadAt, Parse, ~Parsed, ok, ~ok'
    PROVE  ~ReadsWell(Registered)
<1>1. Parsing /\ rest \in Seq(Token) /\ Len(rest) \in Nat /\ DOMAIN rest = 1..Len(rest)
  BY LenProperties DEF TypeInv, TypeOK, Parse, EndOfOptions, UnknownOption, InlineValue,
     SeparateValue, MissingValue, Positional, AtOption
<1>2. PICK n \in 0..(Len(rest) - 1) :
            /\ todo = SubSeq(rest, n + 1, Len(rest))
            /\ todo[1] = rest[n + 1]
            /\ Roles(Registered)[n + 1] =
                    IF literal THEN "operand"
                    ELSE IF Next1.kind \in {"end", "word"} THEN Next1.kind
                    ELSE IF Next1.name \notin Registered THEN "unknown"
                    ELSE IF Next1.inline = None THEN "option" ELSE "inline"
  BY <1>1, TokenRead
<1>3. n + 1 \in DOMAIN rest /\ Next1 = Form[rest[n + 1]]
  BY <1>1, <1>2 DEF Next1
<1>4. CASE UnknownOption
  <2>1. Roles(Registered)[n + 1] = "unknown"
    BY <1>2, <1>4 DEF UnknownOption, AtOption
  <2> QED
    BY <1>3, <2>1 DEF ReadsWell
<1>5. CASE InlineValue \/ SeparateValue
  <2>1. Roles(Registered)[n + 1] \in {"option", "inline"} /\ Next1.junk
    BY <1>2, <1>5 DEF InlineValue, SeparateValue, AtOption, Take
  <2> QED
    BY <1>3, <2>1 DEF ReadsWell
<1>6. CASE MissingValue
  <2>1. Roles(Registered)[n + 1] = "option" /\ Len(todo) = 1
    BY <1>2, <1>6 DEF MissingValue, AtOption
  <2>2. Len(todo) = Len(rest) - n
    BY <1>1, <1>2
  <2>3. n + 1 = Len(rest)
    <3>1. PICK len \in Nat : len = Len(rest)
      BY <1>1
    <3>2. 1 = len - n
      BY <2>1, <2>2, <3>1, Zenon
    <3>3. n \in Int /\ len \in Int
      BY <1>1, <3>1
    <3>4. \A i, j \in Int : 1 = i - j => j + 1 = i
      OBVIOUS
    <3>5. n + 1 = len
      BY <3>2, <3>3, <3>4, Zenon
    <3> QED
      BY <3>1, <3>5, Zenon
  <2> QED
    BY <2>1, <2>3 DEF ReadsWell
<1>7. ~EndOfOptions /\ ~Positional
  BY DEF EndOfOptions, Positional
<1> QED
  BY <1>4, <1>5, <1>6, <1>7 DEF Parse

\* Once all is read, only the counts can cost ok.
LEMMA ParsedMisread ==
    ASSUME TypeInv, ReadAt, Parsed, ok, ~ok'
    PROVE  \E o \in Single : ~(Len(GivenFor(o, Registered)) <= 1)
<1>1. /\ rest \in Seq(Token) /\ Len(rest) \in 0..Len(rest)
      /\ pc = "parse" /\ todo = <<>>
      /\ ~ \A o \in Single : Len(values[o]) <= 1
  <2>1. rest \in Seq(Token)
    BY DEF TypeInv, TypeOK
  <2>2. Len(rest) \in 0..Len(rest)
    BY <2>1, LenProperties
  <2>3. ~ \A o \in Single : Len(values[o]) <= 1
    BY Zenon DEF Parsed
  <2> QED
    BY <2>1, <2>2, <2>3 DEF Parsed
<1>2. PICK n \in 0..Len(rest) : todo = SubSeq(rest, n + 1, Len(rest)) /\ ReadUpTo(n)
  BY <1>1 DEF ReadAt
<1>3. n = Len(rest)
  <2>1. n # Len(rest) => SubSeq(rest, n + 1, Len(rest)) # <<>>
    BY <1>1, RestOfList
  <2> QED
    BY <1>1, <1>2, <2>1
<1>4. \A o \in Single : values[o] = GivenFor(o, Registered)
  BY <1>2, <1>3 DEF ReadUpTo, GivenFor, OptionId, BuildOption
<1> QED
  BY <1>1, <1>4

LEMMA MisreadStep ==
    ASSUME TypeInv, ReadAt, MisreadAt, [Next]_vars
    PROVE  MisreadAt'
<1>1. CASE Parse
  <2>1. pc = "parse" /\ UNCHANGED command /\ ok \in BOOLEAN
    BY <1>1 DEF Parse, EndOfOptions, UnknownOption, InlineValue, SeparateValue,
         MissingValue, Positional, Parsed, AtOption, Parsing, Take, ParseFrame,
         TypeInv, TypeOK
  <2>2. /\ ReadsWell(Registered)' <=> ReadsWell(Registered)
        /\ \A o : GivenFor(o, Registered)' = GivenFor(o, Registered)
    BY <2>1, CommandKept
  <2>3. CASE ~ok
    <3>1. ~ReadsWell(Registered)
      BY <2>1, <2>3 DEF MisreadAt
    <3> QED
      BY <2>2, <3>1 DEF MisreadAt
  <2>4. CASE ok /\ ~ok' /\ ~Parsed
    <3>1. ~ReadsWell(Registered)
      BY <1>1, <2>4, ParseMisread
    <3> QED
      BY <2>2, <3>1 DEF MisreadAt
  <2>5. CASE ok /\ ~ok' /\ Parsed
    <3>1. \E o \in Single : ~(Len(GivenFor(o, Registered)) <= 1)
      BY <2>5, ParsedMisread
    <3>2. pc' = "check"
      BY <2>5 DEF Parsed
    <3>3. \E o \in Single : ~(Len(GivenFor(o, Registered)') <= 1)
      BY <2>2, <3>1
    <3> QED
      BY <3>2, <3>3 DEF MisreadAt
  <2> QED
    BY <2>1, <2>3, <2>4, <2>5 DEF MisreadAt
<1>2. CASE Next /\ ~Parse
  <2>1. pc' = "parse" => pc = "dispatch" /\ ok' = ok
    BY <1>2 DEF Next, Command, NoArguments, HelpCommand, HelpAsked, Report, ReportRefused,
         UnknownCommand, PrintHelp, Refuse, Exit, Resolve, Resolved, VisitDoc, StartParse,
         Dispatched, Run, CheckRefused, RunBuild, StartInit, InitThrows, MakeDirs,
         WriteSample, WriteScript, WriteBuildFile, UnsupportedBuildFile, Initialized, parsed
  <2>2. pc' # "check"
    BY <1>2 DEF Next, Command, NoArguments, HelpCommand, HelpAsked, Report, ReportRefused,
         UnknownCommand, PrintHelp, Refuse, Exit, Resolve, Resolved, VisitDoc, StartParse,
         Dispatched, Run, CheckRefused, RunBuild, StartInit, InitThrows, MakeDirs,
         WriteSample, WriteScript, WriteBuildFile, UnsupportedBuildFile, Initialized
  <2> QED
    BY <2>1, <2>2 DEF MisreadAt, ReadAt
<1>3. CASE UNCHANGED vars
  <2>1. UNCHANGED <<pc, ok, command>>
    BY <1>3 DEF vars, parsed
  <2>2. /\ ReadsWell(Registered)' <=> ReadsWell(Registered)
        /\ \A o : GivenFor(o, Registered)' = GivenFor(o, Registered)
    BY <2>1, CommandKept
  <2> QED
    BY <2>1, <2>2 DEF MisreadAt
<1> QED
  BY <1>1, <1>2, <1>3

\* An option a command does not register is never given.
LEMMA NotRegistered ==
    ASSUME TypeInv, NEW names, NEW o, o \notin names
    PROVE  GivenFor(o, names) = <<>>
<1>1. rest \in Seq(Token) /\ Len(rest) \in Nat
  BY LenProperties DEF TypeInv, TypeOK
<1>2. ASSUME NEW i \in 1..Len(rest), Roles(names)[i] \in {"inline", "option"}
      PROVE  Form[rest[i]].name # o
  <2>1. i - 1 \in 0..(Len(rest) - 1) /\ i - 1 + 1 = i
    BY <1>1
  <2>2. Roles(names)[i] = RoleAfter(Roles(names)[i - 1], Form[rest[i]], names)
    BY <1>1, <2>1, RolesFollow DEF Roles
  <2>3. CASE Form[rest[i]].name \in names
    BY <2>3
  <2>4. CASE Form[rest[i]].name \notin names
    BY <1>2, <2>2, <2>4 DEF RoleAfter
  <2> QED
    BY <2>3, <2>4
<1>3. {i \in 1..Len(rest) : Roles(names)[i] \in {"inline", "option"}
                               /\ Form[rest[i]].name = o} = {}
  BY <1>2
<1> QED
  BY <1>3, PickedEmpty DEF GivenFor, GivenUpTo

\* What a line understood is does not change with the state of the process.
LEMMA UnderstoodKept ==
    ASSUME UNCHANGED command
    PROVE  Understood' <=> Understood
<1>1. /\ path' = path /\ rest' = rest
      /\ \A o, names : GivenFor(o, names)' = GivenFor(o, names)
      /\ \A names : PositionalsOf(names)' = PositionalsOf(names)
      /\ \A names : ReadsWell(names)' <=> ReadsWell(names)
  BY CommandKept
<1>2. InitReadsWell' <=> InitReadsWell
  BY <1>1 DEF InitReadsWell
<1>3. BuildReadsWell' <=> BuildReadsWell
  BY <1>1 DEF BuildReadsWell
<1> QED
  BY <1>1, <1>2, <1>3 DEF Understood

\* The three kinds of commands share no path.
LEMMA PathsDiffer ==
    /\ path \in BuildPath => path \notin ReportPath \cup InitPath
    /\ path \in InitPath => path \notin ReportPath \cup BuildPath
BY DEF BuildPath, InitPath, ReportPath

\* main runs a build or an init that was read, if and only if it reads well.
LEMMA CheckedAsUnderstood ==
    ASSUME TypeInv, ReadAt, MisreadAt, pc = "check"
    PROVE  Acceptable <=> Understood
<1>1. path \in BuildPath \cup InitPath /\ ok \in BOOLEAN
  BY DEF ReadAt, TypeInv, TypeOK
<1>2. ok => AllRead
  BY DEF ReadAt
<1>3. CASE path \in BuildPath
  <2>1. Registered = BuildOption /\ path \notin InitPath /\ path \notin ReportPath
    BY <1>3, PathsDiffer DEF Registered
  <2>2. Understood <=> BuildReadsWell
    BY <2>1 DEF Understood, InitReadsWell
  <2>3. CASE ok
    <3>1. \A f \in From : Get1(f) = First(GivenFor(f, BuildOption), Empty)
      <4>1. From \subseteq Single \ {"output"}
        BY DEF From, Single
      <4> QED
        BY <1>2, <1>3, <2>3, <4>1, BuildReads
    <3>2. Structured = {f \in From : First(GivenFor(f, BuildOption), Empty) # Empty}
      BY <3>1 DEF Structured
    <3>3. /\ ReadsWell(BuildOption) /\ positionals = PositionalsOf(BuildOption)
          /\ \A o \in Single : Len(GivenFor(o, BuildOption)) <= 1
      BY <1>2, <2>1, <2>3 DEF AllRead
    <3>4. BuildReadsWell <=> /\ positionals = <<>>
                             /\ \A f, g \in Structured : f = g
      BY <1>3, <3>2, <3>3 DEF BuildReadsWell
    <3> QED
      BY <1>3, <2>1, <2>2, <2>3, <3>4 DEF Acceptable
  <2>4. CASE ~ok
    BY <2>1, <2>2, <2>4 DEF MisreadAt, BuildReadsWell, Acceptable
  <2> QED
    BY <1>1, <2>3, <2>4
<1>4. CASE path \in InitPath
  <2>1. Registered = {"add-build"} /\ path \notin BuildPath /\ path \notin ReportPath
    BY <1>4, PathsDiffer DEF Registered
  <2>2. Understood <=> InitReadsWell
    BY <2>1 DEF Understood, BuildReadsWell
  <2>3. CASE ok
    BY <1>2, <1>4, <2>1, <2>2, <2>3 DEF AllRead, InitReadsWell, Acceptable
  <2>4. CASE ~ok
    <3>1. ReadsWell(Registered) => \A o \in Single : Len(GivenFor(o, Registered)) <= 1
      <4>1. \A o \in Single : o \notin Registered
        BY <2>1 DEF Single, From
      <4> QED
        BY <4>1, NotRegistered, EmptySeq
    <3> QED
      BY <2>1, <2>2, <2>4, <3>1 DEF MisreadAt, InitReadsWell, Acceptable
  <2> QED
    BY <1>1, <2>3, <2>4
<1> QED
  BY <1>1, <1>3, <1>4

\* No directory is made before a project init is run.
LEMMA UntouchedStep == UntouchedAt /\ [Next]_vars => UntouchedAt'
<1> SUFFICES ASSUME UntouchedAt, [Next]_vars, pc' \in Choosing
             PROVE  pc \in Choosing /\ UNCHANGED <<dirs, before>>
  BY DEF UntouchedAt
<1> USE DEF Choosing
<1>1. CASE Command
  BY <1>1 DEF Command, NoArguments, HelpCommand, HelpAsked, Report, ReportRefused,
       UnknownCommand, PrintHelp, Refuse, Exit, Resolve, Resolved, VisitDoc, StartParse,
       Dispatched, input, disk
<1>2. CASE Parse
  BY <1>2 DEF Parse, EndOfOptions, UnknownOption, InlineValue, SeparateValue, MissingValue,
       Positional, Parsed, AtOption, Parsing, Take, ParseFrame, input, disk
<1>3. CASE Run
  BY <1>3 DEF Run, CheckRefused, RunBuild, StartInit, InitThrows, MakeDirs, WriteSample,
       WriteScript, WriteBuildFile, UnsupportedBuildFile, Initialized, Refuse, Exit
<1>4. CASE UNCHANGED vars
  BY <1>4 DEF vars, input, disk
<1> QED
  BY <1>1, <1>2, <1>3, <1>4 DEF Next

RunInv ==
    /\ TypeInv /\ ReadAt /\ CallAt /\ WorkspaceAt
    /\ MisreadAt /\ UntouchedAt

\* What is true before a line is run or refused.
LEMMA NothingDone ==
    ASSUME RunInv, pc \in Choosing
    PROVE  /\ printed = "nothing" /\ call = None
           /\ dirs = before.dirs /\ files = before.files
BY DEF RunInv, Choosing, CallAt, WorkspaceAt, UntouchedAt

\* The last step of a line that is not understood, and of one that is.
LEMMA RefusedAsMeant ==
    ASSUME RunInv, Refuse, pc \in Choosing, ~Understood
    PROVE  RunOrRefused'
<1>1. /\ UNCHANGED <<before, command, printed, call, dirs, files>> /\ rc' = 1
  BY DEF Refuse, Exit, input, disk
<1>2. ~Understood'
  BY <1>1, UnderstoodKept
<1>3. /\ printed = "nothing" /\ call = None
      /\ dirs = before.dirs /\ files = before.files
  BY NothingDone
<1> QED
  BY <1>1, <1>2, <1>3 DEF RunOrRefused

LEMMA ReportAsMeant ==
    ASSUME RunInv, Report \/ ReportRefused \/ UnknownCommand
    PROVE  RunOrRefused'
<1>1. CASE Report
  <2>1. /\ path \in ReportPath /\ rest = <<>> /\ printed' = "report" /\ rc' = 0
        /\ UNCHANGED command
    BY <1>1 DEF Report, Exit
  <2>2. Understood' /\ path' \in ReportPath
    BY <2>1, UnderstoodKept DEF Understood, command
  <2> QED
    BY <2>1, <2>2 DEF RunOrRefused
<1>2. CASE ReportRefused \/ UnknownCommand
  <2>1. /\ Refuse /\ pc = "dispatch"
        /\ \/ path \in ReportPath /\ rest # <<>>
           \/ path \notin ReportPath \cup BuildPath \cup InitPath
    BY <1>2 DEF ReportRefused, UnknownCommand, Dispatched
  <2>2. ~Understood
    BY <2>1, PathsDiffer DEF Understood, BuildReadsWell, InitReadsWell
  <2> QED
    BY <2>1, <2>2, RefusedAsMeant DEF Choosing
<1> QED
  BY <1>1, <1>2

LEMMA CheckAsMeant ==
    ASSUME RunInv, CheckRefused \/ RunBuild
    PROVE  RunOrRefused'
<1>1. pc = "check" /\ TypeInv /\ ReadAt /\ MisreadAt
  BY DEF CheckRefused, RunBuild, RunInv
<1>2. CASE CheckRefused
  <2>1. Refuse /\ ~Understood
    BY <1>1, <1>2, CheckedAsUnderstood DEF CheckRefused
  <2> QED
    BY <1>1, <2>1, RefusedAsMeant DEF Choosing
<1>3. CASE RunBuild
  <2>1. path \in BuildPath /\ call' = BuildCall /\ UNCHANGED command /\ Understood
    BY <1>1, <1>3, CheckedAsUnderstood DEF RunBuild
  <2>2. call' # None
    <3>1. BuildCall \in Call
      BY <1>1, CallTyped DEF TypeInv
    <3> QED
      BY <2>1, <3>1, NuperfAssumption
  <2>3. Understood' /\ path' \in BuildPath
    BY <2>1, UnderstoodKept DEF command
  <2> QED
    BY <2>2, <2>3 DEF RunOrRefused
<1> QED
  BY <1>2, <1>3

LEMMA InitAsMeant ==
    ASSUME RunInv, UnsupportedBuildFile \/ Initialized
    PROVE  RunOrRefused'
<1>1. pc = "build_files" /\ UNCHANGED command /\ TypeInv /\ ReadAt /\ WorkspaceAt
  BY DEF UnsupportedBuildFile, Initialized, Refuse, InitFrame, RunInv
<1>2. path \in InitPath /\ Understood
  BY <1>1, InitReads DEF Understood, InitReadsWell, Initializing
<1>3. Understood' /\ path' \in InitPath /\ Named' = Named
  BY <1>1, <1>2, UnderstoodKept, CommandKept DEF command
<1>4. CASE Initialized
  <2>1. printed' = "initialized"
    BY <1>4 DEF Initialized
  <2> QED
    BY <1>3, <2>1 DEF RunOrRefused
<1>5. CASE UnsupportedBuildFile
  <2>1. todo # <<>> /\ todo[1] \notin BuildFile
    BY <1>5 DEF UnsupportedBuildFile
  <2>2. PICK n \in 0..Len(Named) : n + 1 \in 1..Len(Named) /\ todo[1] = Named[n + 1]
    BY <1>1, <2>1, BuildFileNamed
  <2>3. Named \in Seq(Value)
    BY <1>1, InitReads DEF Initializing
  <2>4. \E i \in DOMAIN Named : Named[i] \notin BuildFile
    BY <2>1, <2>2, <2>3
  <2> QED
    BY <1>3, <2>4 DEF RunOrRefused
<1> QED
  BY <1>4, <1>5

LEMMA RunStep ==
    ASSUME RunInv, RunOrRefused, [Next]_vars
    PROVE  RunOrRefused'
<1>1. CASE NoArguments \/ HelpCommand \/ HelpAsked
  <2>1. UNCHANGED <<argv, path, rest>>
    BY <1>1 DEF NoArguments, HelpCommand, HelpAsked, PrintHelp, input, command
  <2>2. HelpWanted
    BY <1>1 DEF NoArguments, HelpCommand, HelpAsked, HelpWanted
  <2>3. HelpWanted'
    BY <2>1, <2>2 DEF HelpWanted, GlobalHelpAsked, CommandHelpAsked
  <2> QED
    BY <2>3 DEF RunOrRefused
<1>2. CASE Report \/ ReportRefused \/ UnknownCommand \/ CheckRefused \/ RunBuild
           \/ UnsupportedBuildFile \/ Initialized
  BY <1>2, ReportAsMeant, CheckAsMeant, InitAsMeant
<1>3. CASE Resolve \/ Resolved \/ (\E words \in Docs : VisitDoc(words)) \/ StartParse
           \/ Parse \/ StartInit \/ InitThrows \/ MakeDirs \/ WriteSample
           \/ WriteScript \/ WriteBuildFile
  <2>1. pc' # "exit"
    BY <1>3 DEF Resolve, Resolved, VisitDoc, StartParse, Parse, EndOfOptions,
         UnknownOption, InlineValue, SeparateValue, MissingValue, Positional, Parsed,
         AtOption, Parsing, Take, ParseFrame, StartInit, InitThrows, MakeDirs,
         WriteSample, WriteScript, WriteBuildFile
  <2> QED
    BY <2>1 DEF RunOrRefused
<1>4. CASE UNCHANGED vars
  <2>1. UNCHANGED <<pc, argv, path, rest, command, printed, call, dirs, files, before, rc>>
    BY <1>4 DEF vars, input, command, disk
  <2>2. /\ Understood' <=> Understood
        /\ Named' = Named
        /\ HelpWanted' <=> HelpWanted
    BY <2>1, UnderstoodKept, CommandKept DEF HelpWanted, GlobalHelpAsked, CommandHelpAsked
  <2> QED
    BY <2>1, <2>2 DEF RunOrRefused
<1> QED
  BY <1>1, <1>2, <1>3, <1>4 DEF Next, Command, Run

(***************************************************************************)
(* Every command line that reads well is run, and every other that asks    *)
(* for no help is refused with exit status 1 and without a trace on the    *)
(* disk: whatever the tokens are and whatever the workspace holds.         *)
(***************************************************************************)
THEOREM LinesRunOrRefused == Spec => []RunOrRefused
<1>1. Init => RunInv /\ RunOrRefused
  BY InitType DEF Init, RunInv, ReadAt, CallAt, WorkspaceAt, MisreadAt, UntouchedAt,
     RunOrRefused, Initializing
<1>2. CallAt /\ TypeInv /\ ReadAt /\ BuildAsAsked /\ [Next]_vars => CallAt' /\ BuildAsAsked'
  BY AskedStep
<1>3. TypeInv /\ ReadAt /\ WorkspaceAt /\ WorkspaceAsReported /\ [Next]_vars
        => WorkspaceAt' /\ WorkspaceAsReported'
  BY WorkspaceStep
<1>4. Init => BuildAsAsked /\ WorkspaceAsReported
  BY DEF Init, BuildAsAsked, WorkspaceAsReported
<1>5. RunInv /\ BuildAsAsked /\ WorkspaceAsReported /\ RunOrRefused /\ [Next]_vars
        => (RunInv /\ BuildAsAsked /\ WorkspaceAsReported /\ RunOrRefused)'
  BY <1>2, <1>3, StepType, ReadStep, MisreadStep, UntouchedStep, RunStep DEF RunInv
<1> QED
  BY <1>1, <1>4, <1>5, PTL DEF Spec

-----------------------------------------------------------------------------
(***************************************************************************)
(* The end.  StepsLeft counts the documents not visited yet, the tokens    *)
(* Klyspec has not read yet, twice, since a token may be a build file that *)
(* has to be written, the build files found so far, and the branches.      *)
(***************************************************************************)
StepsLeft ==
    LET found == Len(values["add-build"])
    IN  CASE pc = "start"        -> 9 + 2 * Len(argv) + found + Cardinality(Docs)
          [] pc = "resolve"      -> 8 + 2 * Len(argv) + found + Cardinality(pending)
          [] pc = "dispatch"     -> 7 + 2 * Len(rest) + found
          [] pc = "parse"        -> 6 + 2 * Len(todo) + found
          [] pc = "check"        -> 5 + found
          [] pc = "make_dirs"    -> 4 + found
          [] pc = "write_sample" -> 3 + found
          [] pc = "write_script" -> 2 + found
          [] pc = "build_files"  -> 1 + Len(todo)
          [] pc \in {"exit", "terminated"} -> 0

LEMMA DocsCounted ==
    /\ IsFiniteSet(Docs)
    /\ \A some : some \subseteq Docs =>
          /\ IsFiniteSet(some) /\ Cardinality(some) \in Nat
          /\ Cardinality(some) <= Cardinality(Docs)
<1>1. IsFiniteSet({<<"version">>}) /\ \A d, S : IsFiniteSet(S) => IsFiniteSet(S \cup {d})
  BY FS_Singleton, FS_AddElement
<1> DEFINE two == {<<"version">>} \cup {<<"list-methods">>}
           four == two \cup {<<"list-targets">>} \cup {<<"build">>}
           six == four \cup {<<"registry", "methods", "list">>}
                       \cup {<<"registry", "targets", "list">>}
           nine == six \cup {<<"build", "run">>} \cup {<<"project", "init">>} \cup {<<"help">>}
<1>2. IsFiniteSet(two)
  BY <1>1
<1>3. IsFiniteSet(four)
  <2> HIDE DEF two
  <2> QED
    BY <1>1, <1>2
<1>4. IsFiniteSet(six)
  <2> HIDE DEF four
  <2> QED
    BY <1>1, <1>3
<1>5. IsFiniteSet(nine)
  <2> HIDE DEF six
  <2> QED
    BY <1>1, <1>4
<1>6. Docs = nine
  BY DEF Docs
<1>7. IsFiniteSet(Docs)
  BY <1>5, <1>6
<1> QED
  BY <1>7, FS_Subset, FS_CardinalityType

LEMMA StepsTyped ==
    ASSUME TypeInv
    PROVE  /\ Len(values["add-build"]) \in Nat /\ Len(argv) \in Nat
           /\ Len(rest) \in Nat /\ Len(todo) \in Nat
           /\ Cardinality(Docs) \in Nat /\ Cardinality(pending) \in Nat
           /\ StepsLeft \in Nat
<1>1. Cardinality(Docs) \in Nat /\ Cardinality(pending) \in Nat
  BY DocsCounted DEF TypeInv, TypeOK
<1>2. /\ Len(argv) \in Nat /\ Len(rest) \in Nat /\ Len(todo) \in Nat
      /\ Len(values["add-build"]) \in Nat
  <2>1. /\ argv \in Seq(Token) /\ rest \in Seq(Token) /\ todo \in Seq(Value)
        /\ values["add-build"] \in Seq(Value)
    BY DEF TypeInv, TypeOK, OptionId
  <2> QED
    BY <2>1, LenProperties
<1>3. StepsLeft \in Nat
  <2>1. pc \in Pc
    BY DEF TypeInv, TypeOK
  <2>2. PICK n \in Nat, a \in Nat, r \in Nat, t \in Nat, d \in Nat, p \in Nat :
           /\ n = Len(values["add-build"]) /\ a = Len(argv) /\ r = Len(rest)
           /\ t = Len(todo) /\ d = Cardinality(Docs) /\ p = Cardinality(pending)
    BY <1>1, <1>2
  <2>3. StepsLeft \in {9 + 2 * a + n + d, 8 + 2 * a + n + p, 7 + 2 * r + n, 6 + 2 * t + n,
                       5 + n, 4 + n, 3 + n, 2 + n, 1 + t, 0}
    BY <2>1, <2>2 DEF StepsLeft, Pc
  <2> QED
    BY <2>3
<1> QED
  BY <1>1, <1>2, <1>3

LEMMA StepsFall ==
    ASSUME TypeInv, Next
    PROVE  StepsLeft' < StepsLeft
<1> DEFINE n == Len(values["add-build"])
           t == Len(todo)
           r == Len(rest)
           a == Len(argv)
           p == Cardinality(pending)
           d == Cardinality(Docs)
<1>1. /\ n \in Nat /\ a \in Nat /\ r \in Nat /\ t \in Nat /\ p \in Nat /\ d \in Nat
      /\ values \in [OptionId -> Seq(Value)]
      /\ argv \in Seq(Token) /\ rest \in Seq(Token) /\ todo \in Seq(Value)
      /\ pending \subseteq Docs
  BY StepsTyped DEF TypeInv, TypeOK
<1>2. ASSUME pc' \in {"exit", "terminated"}, pc \in Pc \ {"exit", "terminated"}
      PROVE  StepsLeft' < StepsLeft
  <2>1. StepsLeft' = 0
    BY <1>2 DEF StepsLeft
  <2>2. StepsLeft \in {9 + 2 * a + n + d, 8 + 2 * a + n + p, 7 + 2 * r + n, 6 + 2 * t + n,
                       5 + n, 4 + n, 3 + n, 2 + n, 1 + t}
    BY <1>2 DEF StepsLeft, Pc
  <2> HIDE DEF n, t, r, a, p, d
  <2> QED
    BY <1>1, <2>1, <2>2
<1>3. ASSUME NoArguments \/ HelpCommand \/ HelpAsked \/ Report \/ ReportRefused
             \/ UnknownCommand \/ CheckRefused \/ RunBuild \/ InitThrows
             \/ UnsupportedBuildFile \/ Initialized
      PROVE  StepsLeft' < StepsLeft
  BY <1>2, <1>3
     DEF NoArguments, HelpCommand, HelpAsked, Report, ReportRefused, UnknownCommand, PrintHelp,
         Refuse, Exit, Dispatched, CheckRefused, RunBuild, InitThrows, UnsupportedBuildFile,
         Initialized, Pc
<1>4. CASE Resolve
  <2>1. /\ pc = "start" /\ pc' = "resolve" /\ pending' \subseteq Docs
        /\ argv' = argv /\ values' = values
    BY <1>4 DEF Resolve, input, parsed
  <2>2. Cardinality(pending') \in Nat /\ Cardinality(pending') <= d
    BY <2>1, DocsCounted
  <2>3. StepsLeft = 9 + 2 * a + n + d /\ StepsLeft' = 8 + 2 * a + n + Cardinality(pending')
    BY <2>1 DEF StepsLeft
  <2> HIDE DEF a, n, d
  <2> QED
    BY <1>1, <2>2, <2>3
<1>5. ASSUME NEW words \in Docs, VisitDoc(words) PROVE StepsLeft' < StepsLeft
  <2>1. /\ pc = "resolve" /\ pc' = "resolve" /\ words \in pending
        /\ pending' = pending \ {words} /\ argv' = argv /\ values' = values
    BY <1>5 DEF VisitDoc, input, parsed
  <2>2. Cardinality(pending') = p - 1
    BY <1>1, <2>1, DocsCounted, FS_RemoveElement
  <2>3. StepsLeft = 8 + 2 * a + n + p /\ StepsLeft' = 8 + 2 * a + n + (p - 1)
    BY <2>1, <2>2 DEF StepsLeft
  <2> HIDE DEF a, n, p
  <2> QED
    BY <1>1, <2>3
<1>6. CASE Resolved
  <2>1. /\ pc = "resolve" /\ pc' = "dispatch" /\ argv' = argv /\ values' = values
        /\ rest' = Tail(argv) \/ rest' = SubSeq(argv, Len(path) + 1, Len(argv))
    BY <1>6 DEF Resolved, input, parsed
  <2>2. Len(rest') \in Nat /\ Len(rest') <= a
    <3>1. argv # <<>> /\ path \in Seq(Word) /\ Len(path) \in Nat
      BY <2>1 DEF TypeInv, Unread, TypeOK
    <3>2. Len(Tail(argv)) = a - 1
      BY <1>1, <3>1, HeadTailProperties
    <3>3. /\ Len(SubSeq(argv, Len(path) + 1, a)) \in Nat
          /\ Len(SubSeq(argv, Len(path) + 1, a)) <= a
      BY <1>1, <3>1
    <3>4. Tail(argv) \in Seq(Token) /\ Len(Tail(argv)) \in Nat
      BY <1>1, <3>1, HeadTailProperties, LenProperties
    <3>5. CASE rest' = Tail(argv)
      BY <1>1, <3>2, <3>4, <3>5
    <3>6. CASE rest' = SubSeq(argv, Len(path) + 1, Len(argv))
      BY <3>3, <3>6
    <3> QED
      BY <2>1, <3>5, <3>6
  <2>3. StepsLeft = 8 + 2 * a + n + p /\ StepsLeft' = 7 + 2 * Len(rest') + n
    BY <2>1 DEF StepsLeft
  <2> HIDE DEF a, n, p
  <2> QED
    BY <1>1, <2>2, <2>3
<1>7. CASE StartParse
  <2>1. pc = "dispatch" /\ pc' = "parse" /\ todo' = rest /\ values' = values
    BY <1>7 DEF StartParse, Dispatched, parsed
  <2>2. StepsLeft = 7 + 2 * r + n /\ StepsLeft' = 6 + 2 * r + n
    BY <2>1 DEF StepsLeft
  <2> HIDE DEF r, n
  <2> QED
    BY <1>1, <2>2
<1>8. CASE EndOfOptions \/ UnknownOption \/ InlineValue \/ SeparateValue \/ MissingValue
           \/ Positional
  <2>1. pc = "parse" /\ pc' = "parse" /\ todo # <<>>
    BY <1>8 DEF EndOfOptions, UnknownOption, InlineValue, SeparateValue, MissingValue,
                Positional, Take, ParseFrame, AtOption, Parsing
  <2>2. Len(todo') \in Nat /\ Len(todo') <= t - 1
    <3>1. /\ Tail(todo) \in Seq(Value) /\ Len(todo) >= 1
          /\ Len(Tail(todo)) = Len(todo) - 1
      BY <1>1, <2>1, HeadTailProperties, EmptySeq
    <3>2. CASE todo' = Tail(todo)
      BY <1>1, <3>1, <3>2
    <3>3. CASE SeparateValue
      <4>1. todo' = Tail(Tail(todo)) /\ Len(todo) > 1
        BY <3>3 DEF SeparateValue
      <4>2. Tail(todo) # <<>>
        <5>1. Len(Tail(todo)) # 0 /\ Len(<<>>) = 0
          BY <1>1, <3>1, <4>1, EmptySeq
        <5> QED
          BY <5>1, Zenon
      <4>3. Len(Tail(Tail(todo))) = Len(Tail(todo)) - 1
        BY <3>1, <4>2, HeadTailProperties
      <4> QED
        BY <1>1, <3>1, <4>1, <4>3
    <3>4. CASE MissingValue
      <4>1. Len(todo') = 0
        BY <3>4, EmptySeq DEF MissingValue
      <4> QED
        BY <1>1, <3>1, <4>1
    <3> QED
      BY <1>8, <3>2, <3>3, <3>4 DEF EndOfOptions, UnknownOption, InlineValue, Positional
  <2>3. Len(values'["add-build"]) \in Nat /\ Len(values'["add-build"]) <= n + 1
    <3>1. \/ values' = values
          \/ \E v : values' = [values EXCEPT ![Next1.name] = Append(@, v)]
      BY <1>8 DEF EndOfOptions, UnknownOption, InlineValue, SeparateValue, MissingValue,
                  Positional, Take
    <3>2. ASSUME NEW v, values' = [values EXCEPT ![Next1.name] = Append(@, v)]
          PROVE  \/ values'["add-build"] = values["add-build"]
                 \/ values'["add-build"] = Append(values["add-build"], v)
      BY <1>1, <3>2 DEF OptionId
    <3>3. \A v : Len(Append(values["add-build"], v)) = n + 1
      BY <1>1 DEF OptionId
    <3>4. ASSUME NEW v, values' = [values EXCEPT ![Next1.name] = Append(@, v)]
          PROVE  Len(values'["add-build"]) \in {n, n + 1}
      BY <3>2, <3>3, <3>4
    <3>5. Len(values'["add-build"]) \in {n, n + 1}
      BY <3>1, <3>4
    <3> HIDE DEF n
    <3> QED
      BY <1>1, <3>5
  <2>4. PICK left \in Nat, found \in Nat :
           left = Len(todo') /\ found = Len(values'["add-build"])
    BY <2>2, <2>3
  <2>5. StepsLeft = 6 + 2 * t + n /\ StepsLeft' = 6 + 2 * left + found
    BY <2>1, <2>4 DEF StepsLeft
  <2>6. left <= t - 1 /\ found <= n + 1
    BY <2>2, <2>3, <2>4
  <2>7. left \in Nat /\ found \in Nat /\ t \in Nat /\ n \in Nat
    BY <1>1, <2>4
  <2> HIDE DEF t, n
  <2>8. 6 + 2 * left + found < 6 + 2 * t + n
    BY <2>6, <2>7
  <2> QED
    BY <2>5, <2>8
<1>9. CASE Parsed
  <2>1. /\ pc = "parse" /\ pc' = "check"
        /\ values'["add-build"] = values["add-build"]
    BY <1>9 DEF Parsed
  <2>2. StepsLeft = 6 + 2 * t + n /\ StepsLeft' = 5 + n
    BY <2>1 DEF StepsLeft
  <2> HIDE DEF t, n
  <2> QED
    BY <1>1, <2>2
<1>10. CASE StartInit \/ MakeDirs \/ WriteSample \/ WriteScript
  <2>1. /\ values' = values
        /\ \/ pc = "check" /\ pc' = "make_dirs"
           \/ pc = "make_dirs" /\ pc' = "write_sample"
           \/ pc = "write_sample" /\ pc' = "write_script"
           \/ pc = "write_script" /\ pc' = "build_files" /\ todo' = values["add-build"]
    BY <1>10 DEF StartInit, MakeDirs, WriteSample, WriteScript, InitFrame, parsed
  <2>2. \/ StepsLeft = 5 + n /\ StepsLeft' = 4 + n
        \/ StepsLeft = 4 + n /\ StepsLeft' = 3 + n
        \/ StepsLeft = 3 + n /\ StepsLeft' = 2 + n
        \/ StepsLeft = 2 + n /\ StepsLeft' = 1 + n
    BY <2>1 DEF StepsLeft
  <2> HIDE DEF n
  <2> QED
    BY <1>1, <2>2
<1>11. CASE WriteBuildFile
  <2>1. pc = "build_files" /\ pc' = pc /\ todo # <<>> /\ todo' = Tail(todo)
    BY <1>11 DEF WriteBuildFile
  <2>2. Len(todo') = t - 1
    BY <1>1, <2>1, HeadTailProperties
  <2>3. StepsLeft = 1 + t /\ StepsLeft' = 1 + (t - 1)
    BY <2>1, <2>2 DEF StepsLeft
  <2> HIDE DEF t
  <2> QED
    BY <1>1, <2>3
<1> QED
  BY <1>3, <1>4, <1>5, <1>6, <1>7, <1>8, <1>9, <1>10, <1>11 DEF Next, Command, Parse, Run

(***************************************************************************)
(* Every step brings a command line nearer to its exit: however many       *)
(* tokens, options and build files it has, neither the loop over the       *)
(* documents nor Klyspec's nor that of cmd_project_init turns for ever     *)
(* (src/src/main.cpp:464-784).  Ends adds, with fairness, that the process *)
(* does not stop before.                                                   *)
(***************************************************************************)
THEOREM CommandRunsOut == Spec => [](StepsLeft \in Nat) /\ [][StepsLeft' < StepsLeft]_vars
<1>1. TypeInv => StepsLeft \in Nat
  BY StepsTyped
<1>2. TypeInv /\ [Next]_vars => [StepsLeft' < StepsLeft]_vars
  BY StepsFall
<1> QED
  BY <1>1, <1>2, TypeInvariant, PTL DEF Spec

=============================================================================
