------------------------------- MODULE Stddef -------------------------------
(***************************************************************************)
(* The built-in target plugin (src/plugins/stddef.cpp): an instance, its   *)
(* options, and stddef_emit, which hands a C header for a hash result to   *)
(* an emit sink.  A step is one call of the plugin by the core, or, inside *)
(* stddef_emit, one call of the sink, which may fail.                      *)
(*                                                                         *)
(* Strings are values with a length; the header is the sequence of its     *)
(* parts.  The three fixed buffers of the code are kept: what snprintf     *)
(* puts in one is cut when it does not fit, and a cut part is Cut.         *)
(***************************************************************************)
EXTENDS Integers, Sequences, OptionBuffer

CONSTANTS
    Text,           \* C strings: option values and method names
    Length,         \* strlen
    DefaultArray,   \* "nuperf_table"
    DefaultGuard,   \* "NUPERF_TABLE"
    True, One, False, Zero,     \* "true", "1", "false", "0"
    Given,          \* what callers pass to set_option
    HashResult,     \* the results the core may hand to emit
    Buffer,         \* the buffers callers pass to get_option
    MaxLength,
    Idle            \* the last call was not a get_option

ASSUME StddefAssumption ==
    /\ Length \in [Text -> 0..MaxLength] /\ MaxLength \in Nat
    /\ {DefaultArray, DefaultGuard, True, One, False, Zero} \subseteq Text
    /\ {True, One} \cap {False, Zero} = {}
    /\ Given \subseteq Text
    /\ HashResult \subseteq
         [method_name : Text, key_count : Nat, words : Seq(Nat)]
    /\ Buffer \subseteq Buffers(MaxLength + 1)
    /\ Idle \notin [option : {"array_name", "emit_header_guard", "guard_prefix"},
                   buffer : Buffer, value : Text, answer : Answers(MaxLength + 1)]

Option == {"array_name", "emit_header_guard", "guard_prefix"}

VARIABLES
    options,    \* impl->options
    pc,         \* the call stddef_emit is about to make, "idle" outside of it,
                \* "absent" when there is no instance
    result,     \* the result being emitted
    output,     \* the text built so far
    sink,       \* the artifact last begun: its name, state and content
    status,     \* what the last stddef_emit returned
    call        \* the last get_option: its arguments and its answer

vars == <<options, pc, result, output, sink, status, call>>

Options == [array_name : Text, emit_header_guard : BOOLEAN, guard_prefix : Text]

Part == [part : {"open guard", "close guard"}, of : Text]
    \cup [part : {"prologue", "epilogue"}]
    \cup [part : {"array"}, of : Text, words : Seq(Nat)]
    \cup [part : {"size"}, of : Text, count : Nat]
    \cup [part : {"comment"}, method : Text, keys : Nat]
    \cup [part : {"cut"}]

Call == [option : Option, buffer : Buffer, value : Text,
         answer : Answers(MaxLength + 1)]

TypeOK ==
    /\ options \in Options
    /\ pc \in {"absent", "idle", "begin", "format", "write", "end"}
    /\ result \in HashResult
    /\ output \in Seq(Part)
    /\ sink \in [name : Text, content : Seq(Part),
                 state : {"none", "begun", "written", "ended", "refused"}]
    /\ status \in {"none", "OK", "FAILED", "THROWN"}
    /\ call = Idle \/ call \in Call

Defaults == [array_name |-> DefaultArray, emit_header_guard |-> TRUE,
             guard_prefix |-> DefaultGuard]

\* No emission yet: which result is current is not looked at.
Init ==
    /\ options = Defaults
    /\ pc = "absent"
    /\ result \in HashResult
    /\ output = <<>>
    /\ sink = [name |-> DefaultArray, state |-> "none", content |-> <<>>]
    /\ status = "none"
    /\ call = Idle

-----------------------------------------------------------------------------
(***************************************************************************)
(* An instance, made with the defaults.  The blocks behind it are not      *)
(* counted here; a create that finds no memory changes nothing else.       *)
(***************************************************************************)
Create ==
    /\ pc = "absent"
    /\ pc' = "idle"
    /\ options' = Defaults
    /\ call' = Idle
    /\ UNCHANGED <<result, output, sink, status>>

Destroy ==
    /\ pc = "idle"
    /\ pc' = "absent"
    /\ call' = Idle
    /\ UNCHANGED <<options, result, output, sink, status>>

(***************************************************************************)
(* set_option takes any string for a name, and four for the Boolean; what  *)
(* it refuses changes nothing.                                             *)
(***************************************************************************)
\* Defect: the Boolean is read as a digit only.
TakesDigit(o, value) == o = "emit_header_guard" => value \in {One, Zero}

Takes(o, value) ==
    o = "emit_header_guard" => value \in {True, One, False, Zero}

Parsed(o, value) ==
    IF o = "emit_header_guard" THEN value \in {True, One} ELSE value

Shown(o) ==
    IF o # "emit_header_guard" THEN options[o]
    ELSE IF options[o] THEN True ELSE False

SetOption(o, value) ==
    /\ pc = "idle"
    /\ Takes(o, value)
    /\ options' = [options EXCEPT ![o] = Parsed(o, value)]
    /\ call' = Idle
    /\ UNCHANGED <<pc, result, output, sink, status>>

GetOption(o, buffer) ==
    /\ pc = "idle"
    /\ call' = [option |-> o, buffer |-> buffer, value |-> Shown(o),
                answer |-> Answer(buffer, Length[Shown(o)])]
    /\ UNCHANGED <<options, pc, result, output, sink, status>>

-----------------------------------------------------------------------------
(***************************************************************************)
(* The header, part by part.  snprintf cuts what does not fit its buffer;  *)
(* the lengths below are those of a part up to its last visible character, *)
(* since the newlines after it can be cut without harm.                    *)
(***************************************************************************)
Digits[n \in Nat] == IF n < 10 THEN 1 ELSE 1 + Digits[n \div 10]

Cut == [part |-> "cut"]
Printed(part, length, size) == IF length < size THEN part ELSE Cut

\* Defect: the last index of the array is printed for its size.
SizeLastIndex(r) ==
    [part |-> "size", of |-> options.array_name, count |-> Len(r.words) - 1]

\* "static const size_t %s_size = %zu;\n\n" in size_buf[64]; not formatted when
\* the result has no data.
SizePart(r) ==
    LET name == options.array_name
        count == Len(r.words)
        part == [part |-> "size", of |-> name, count |-> count]
    IN  IF count = 0 THEN part
        ELSE Printed(part, 29 + Length[name] + Digits[count], 64)

\* "/* Generated by NuPERF ... Method: %s ... Keys: %zu ... */" in meta_buf[256]
CommentPart(r) ==
    Printed([part |-> "comment", method |-> r.method_name, keys |-> r.key_count],
            48 + Length[r.method_name] + Digits[r.key_count], 256)

Guard(part) ==
    IF options.emit_header_guard
    THEN <<[part |-> part, of |-> options.guard_prefix]>> ELSE <<>>

\* Defect: the guard is closed whatever the option says.
HeaderAlwaysClosed(r) ==
    Guard("open guard")
        \o <<[part |-> "prologue"],
             [part |-> "array", of |-> options.array_name, words |-> r.words],
             SizePart(r), CommentPart(r), [part |-> "epilogue"],
             [part |-> "close guard", of |-> options.guard_prefix]>>

Header(r) ==
    Guard("open guard")
        \o <<[part |-> "prologue"],
             [part |-> "array", of |-> options.array_name, words |-> r.words],
             SizePart(r), CommentPart(r), [part |-> "epilogue"]>>
        \o Guard("close guard")

-----------------------------------------------------------------------------
(***************************************************************************)
(* stddef_emit: begin_artifact, the text, one write, end_artifact.  A call *)
(* the sink refuses ends the emission with its status at once.  The        *)
(* strings allocate and nothing catches: emit may leave by an exception.   *)
(***************************************************************************)
Emit(r) ==
    /\ pc = "idle"
    /\ pc' = "begin"
    /\ result' = r
    /\ output' = <<>>
    /\ sink' = [name |-> options.array_name, state |-> "none", content |-> <<>>]
    /\ status' = "none"
    /\ call' = Idle
    /\ UNCHANGED options

Return(answer) == pc' = "idle" /\ status' = answer

BeginArtifact ==
    /\ pc = "begin"
    /\ \/ sink' = [sink EXCEPT !.state = "begun"] /\ pc' = "format"
          /\ UNCHANGED status
       \/ sink' = [sink EXCEPT !.state = "refused"] /\ Return("FAILED")
    /\ UNCHANGED <<options, result, output, call>>

Format ==
    /\ pc = "format"
    /\ output' = Header(result)
    /\ pc' = "write"
    /\ UNCHANGED <<options, result, sink, status, call>>

EmitThrows ==
    /\ pc \in {"begin", "format"}
    /\ Return("THROWN")
    /\ UNCHANGED <<options, result, output, sink, call>>

\* A write that fails may have stored a part of the text.
WriteRefused ==
    \E n \in 0..Len(output) :
        sink' = [sink EXCEPT !.state = "refused",
                             !.content = SubSeq(output, 1, n)]

\* Defect: the status of the write is not looked at.
WriteUnchecked ==
    /\ pc = "write"
    /\ \/ sink' = [sink EXCEPT !.state = "written", !.content = output]
       \/ WriteRefused
    /\ pc' = "end"
    /\ UNCHANGED <<options, result, output, status, call>>

Write ==
    /\ pc = "write"
    /\ \/ sink' = [sink EXCEPT !.state = "written", !.content = output]
          /\ pc' = "end" /\ UNCHANGED status
       \/ WriteRefused /\ Return("FAILED")
    /\ UNCHANGED <<options, result, output, call>>

\* Defect: stddef_emit returns NUPERF_OK whatever end_artifact answers.
EndUnchecked ==
    /\ pc = "end"
    /\ \/ sink' = [sink EXCEPT !.state = "ended"]
       \/ sink' = [sink EXCEPT !.state = "refused"]
    /\ Return("OK")
    /\ UNCHANGED <<options, result, output, call>>

EndArtifact ==
    /\ pc = "end"
    /\ \/ sink' = [sink EXCEPT !.state = "ended"] /\ Return("OK")
       \/ sink' = [sink EXCEPT !.state = "refused"] /\ Return("FAILED")
    /\ UNCHANGED <<options, result, output, call>>

Next ==
    \/ Create \/ Destroy
    \/ \E o \in Option, value \in Given : SetOption(o, value)
    \/ \E o \in Option, buffer \in Buffer : GetOption(o, buffer)
    \/ \E r \in HashResult : Emit(r)
    \/ BeginArtifact \/ Format \/ EmitThrows \/ Write \/ EndArtifact

Spec == Init /\ [][Next]_vars

-----------------------------------------------------------------------------
(***************************************************************************)
(* stddef_emit calls its sink in the order nuperf-target.h prescribes      *)
(* ("Targets call begin_artifact, then one or more write calls, then       *)
(* end_artifact"), and stops at the first refusal.                         *)
(***************************************************************************)
Sink == INSTANCE EmitSink WITH artifact <- sink.state

ImplementsSink == Sink!Spec

(***************************************************************************)
(* NUPERF_OK is answered only for an artifact that was ended with the      *)
(* whole text in it; any other end of stddef_emit is reported.             *)
(***************************************************************************)
OKMeansWhole ==
    status = "OK" => sink.state = "ended" /\ sink.content = output

(***************************************************************************)
(* A header that was formatted hangs together: the include guard is closed *)
(* if and only if it was opened, and for the same macro; the array is      *)
(* named like the artifact and holds the words of the result; and the size *)
(* line, for names short enough, gives their number under that name.       *)
(***************************************************************************)
First(text) == text[1]
Last(text) == text[Len(text)]

Bracketed(text) ==
    IF First(text).part = "open guard"
    THEN Last(text) = [part |-> "close guard", of |-> First(text).of]
    ELSE First(text).part = "prologue" /\ Last(text).part = "epilogue"

Has(text, part) == \E i \in 1..Len(text) : text[i] = part

HeaderSound ==
    output # <<>> =>
        /\ Bracketed(output)
        /\ Has(output, [part |-> "array", of |-> sink.name, words |-> result.words])
        /\ Length[sink.name] + Digits[Len(result.words)] <= 34 =>
             Has(output, [part |-> "size", of |-> sink.name,
                          count |-> Len(result.words)])

(***************************************************************************)
(* What get_option hands out can be given back to set_option and means     *)
(* what it meant: nothing is lost by saving and restoring the options.     *)
(***************************************************************************)
OptionsRestorable ==
    call # Idle =>
        /\ Takes(call.option, call.value)
        /\ Parsed(call.option, call.value) = options[call.option]
        /\ ~call.buffer.null => call.answer.written <= call.buffer.size

(***************************************************************************)
(* The option array_name is the "Name of the generated array symbol"       *)
(* (line 31): a header that says NUPERF_OK has, for every name, the line   *)
(* that gives the size of the array.  The code cuts that line.             *)
(***************************************************************************)
SizeLineComplete ==
    status = "OK" => Has(sink.content, [part |-> "size", of |-> sink.name,
                                        count |-> Len(result.words)])

=============================================================================
