------------------------------ MODULE BuildRun ------------------------------
(***************************************************************************)
(* cmd_build_run of src/main.cpp: one `nuperf build run`, one step per     *)
(* call it makes into the core, the file system or the streams, every      *)
(* early return included.  The core (keyset, table, registry) is not in    *)
(* the repository; its calls answer what its header and tests promise, and *)
(* may fail at any time for want of memory.                                *)
(*                                                                         *)
(* The command line and what lies on the disk (args, source) are chosen by *)
(* Init and never change.                                                  *)
(***************************************************************************)
EXTENDS Positions, Sequences

CONSTANTS
    Line,           \* what getline or a structured document yields as a key
    Blank,          \* the empty line
    Key,            \* C strings
    KeyOf,          \* c_str(): cuts a line at its first NUL
    Name,           \* names of methods and targets
    Unset,          \* the empty std::string
    OptionKey, OptionValue,
    Malformed,      \* an --option without '='
    KnownMethod,    \* what the registry holds
    KnownTarget,
    KnownOption,    \* the keys nuperf_table_set_option takes
    Invocation,     \* command lines, as cmd_build_run receives them
    Source,         \* what the input path, or stdin, holds
    BadDocument,    \* a structured document load_build_request refuses
    Nothing,        \* no artifact
    Damaged         \* an output file of which only a part was written

Option == [key : OptionKey, value : OptionValue]
Request == [keys : Seq(Line), method : Name \cup {Unset},
            target : Name \cup {Unset}, options : Seq(Option)]
Settings == [OptionKey -> OptionValue \cup {Unset}]
Artifact == [keys : Seq(Key), method : Name, target : Name, options : Settings]

ASSUME BuildAssumption ==
    /\ Blank \in Line
    /\ KeyOf \in [Line -> Key]
    /\ Unset \notin Name
    /\ {"stdmeth", "stddef"} \subseteq Name
    /\ Malformed \notin Option
    /\ BadDocument \notin Request
    /\ Nothing \notin Artifact /\ Damaged \notin Artifact /\ Nothing # Damaged
    /\ Invocation \subseteq
         [dump : BOOLEAN, structured : BOOLEAN, path : {"-", "file"},
          method : Name \cup {Unset}, target : Name \cup {Unset},
          options : Seq(Option \cup {Malformed}), output : {"-", "file"}]
    /\ Source \subseteq
         [lines : Seq(Line), readable : Nat, request : Request \cup {BadDocument}]
    /\ \A s \in Source : s.readable <= Len(s.lines)

VARIABLES
    args,      \* the command line
    source,    \* the input: its lines, how many a read yields, or its request
    pc,        \* the call cmd_build_run is about to make
    keyset,    \* life of nuperf_keyset_t: "none", "live", "freed"
    table,     \* life of nuperf_table_t
    keys,      \* the keys in the keyset
    todo,      \* lines not read yet, or keys of the request not added yet
    method,    \* effective_method
    target,    \* effective_target
    options,   \* effective_options not applied yet
    tab,       \* what the table has been told, and what it has built
    out,       \* what was handed to std::cout or nuperf_table_emit_file
    rc         \* the return value, once decided

input == <<args, source>>
locals == <<todo, method, target, options>>
handles == <<keyset, table>>
vars == <<input, pc, handles, keys, locals, tab, out, rc>>

Life == {"none", "live", "freed"}
Pc == {"create_keyset", "create_table", "dump_schema", "open_input",
       "read_line", "load_request", "add_key", "set_keyset", "set_method",
       "set_target", "set_option", "build", "query_size", "emit_buffer",
       "emit_file", "free_table", "free_keyset", "returned"}

\* The table of the core: no keyset, names or options yet, nothing built.
NewTable == [keyset |-> FALSE, method |-> Unset, target |-> Unset,
             options |-> [k \in OptionKey |-> Unset], built |-> FALSE]

TypeOK ==
    /\ args \in Invocation /\ source \in Source
    /\ pc \in Pc
    /\ keyset \in Life /\ table \in Life
    /\ keys \in Seq(Key)
    /\ todo \in Seq(Line)
    /\ method \in Name \cup {Unset} /\ target \in Name \cup {Unset}
    /\ options \in Seq(Option \cup {Malformed})
    /\ tab \in [keyset : BOOLEAN, method : Name \cup {Unset},
                target : Name \cup {Unset}, options : Settings, built : BOOLEAN]
    /\ out \in Artifact \cup {Nothing, Damaged}
    /\ rc \in 0..1

\* No step of the process has been taken: the handles are null pointers.
Init ==
    /\ args \in Invocation /\ source \in Source
    /\ pc = "create_keyset"
    /\ keyset = "none" /\ table = "none"
    /\ keys = <<>> /\ todo = <<>>
    /\ method = Unset /\ target = Unset /\ options = <<>>
    /\ tab = NewTable
    /\ out = Nothing
    /\ rc = 0

-----------------------------------------------------------------------------
(***************************************************************************)
(* The two shapes every step has: go on to the next call, or report, call  *)
(* cleanup() and return 1.                                                 *)
(***************************************************************************)
GoTo(label) == pc' = label /\ UNCHANGED rc

Fail == pc' = "free_table" /\ rc' = 1

\* A call that fails leaves everything else as it was.
Fails(label) ==
    /\ pc = label
    /\ Fail
    /\ UNCHANGED <<input, handles, keys, locals, tab, out>>

CreateKeyset ==
    /\ pc = "create_keyset"
    /\ \/ keyset' = "live" /\ GoTo("create_table")
       \/ keyset' = "none" /\ pc' = "returned" /\ rc' = 1
    /\ UNCHANGED <<input, table, keys, locals, tab, out>>

CreateTable ==
    /\ pc = "create_table"
    /\ \/ table' = "live" /\ GoTo("dump_schema")
       \/ table' = "none" /\ pc' = "free_keyset" /\ rc' = 1
    /\ UNCHANGED <<input, keyset, keys, locals, tab, out>>

\* Defect: the defaults are decided after the request is read.
DumpSchemaNoDefaults ==
    /\ pc = "dump_schema"
    /\ method' = args.method
    /\ target' = args.target
    /\ options' = args.options
    /\ GoTo(IF args.structured THEN "load_request" ELSE "open_input")
    /\ UNCHANGED <<input, handles, keys, todo, tab, out>>

(***************************************************************************)
(* --dump-json-schema is served first, whatever becomes of the build; then *)
(* the defaults are put in the place of a missing method or target.        *)
(***************************************************************************)
DumpSchema ==
    /\ pc = "dump_schema"
    /\ method' = IF args.method = Unset THEN "stdmeth" ELSE args.method
    /\ target' = IF args.target = Unset THEN "stddef" ELSE args.target
    /\ options' = args.options
    /\ GoTo(IF args.structured THEN "load_request" ELSE "open_input")
    /\ UNCHANGED <<input, handles, keys, todo, tab, out>>

DumpSchemaFails == args.dump /\ Fails("dump_schema")

OpenInput ==
    /\ pc = "open_input"
    /\ todo' = SubSeq(source.lines, 1, source.readable)
    /\ GoTo("read_line")
    /\ UNCHANGED <<input, handles, keys, method, target, options, tab, out>>

OpenInputFails == args.path # "-" /\ Fails("open_input")

\* Defect: empty lines become keys.
ReadLineBlankToo ==
    /\ pc = "read_line" /\ todo # <<>>
    /\ todo' = Tail(todo)
    /\ keys' = Append(keys, KeyOf[Head(todo)])
    /\ GoTo("read_line")
    /\ UNCHANGED <<input, handles, method, target, options, tab, out>>

\* One turn of the getline loop: an empty line is skipped, any other is a key.
ReadLine ==
    /\ pc = "read_line" /\ todo # <<>>
    /\ todo' = Tail(todo)
    /\ keys' = IF Head(todo) = Blank THEN keys
                                     ELSE Append(keys, KeyOf[Head(todo)])
    /\ GoTo("read_line")
    /\ UNCHANGED <<input, handles, method, target, options, tab, out>>

AddStringFails == todo # <<>> /\ Head(todo) # Blank /\ Fails("read_line")

\* getline gives nothing more: the end of the input, or an error on the way.
EndOfInput ==
    /\ pc = "read_line" /\ todo = <<>>
    /\ GoTo("set_keyset")
    /\ UNCHANGED <<input, handles, keys, locals, tab, out>>

(***************************************************************************)
(* A structured import needs a path and a document load_build_request      *)
(* takes.  Its method and target are for an empty effective name, its      *)
(* options go behind those of the command line.                            *)
(***************************************************************************)
LoadRequest ==
    /\ pc = "load_request"
    /\ args.path # "-" /\ source.request # BadDocument
    /\ todo' = source.request.keys
    /\ method' = IF method = Unset THEN source.request.method ELSE method
    /\ target' = IF target = Unset THEN source.request.target ELSE target
    /\ options' = options \o source.request.options
    /\ GoTo("add_key")
    /\ UNCHANGED <<input, handles, keys, tab, out>>

LoadRequestFails ==
    /\ args.path = "-" \/ source.request = BadDocument
    /\ Fails("load_request")

\* Keys of a request are added as they are, the empty one included.
AddKey ==
    /\ pc = "add_key" /\ todo # <<>>
    /\ todo' = Tail(todo)
    /\ keys' = Append(keys, KeyOf[Head(todo)])
    /\ GoTo("add_key")
    /\ UNCHANGED <<input, handles, method, target, options, tab, out>>

AddKeyFails == todo # <<>> /\ Fails("add_key")

AllKeysAdded ==
    /\ pc = "add_key" /\ todo = <<>>
    /\ GoTo("set_keyset")
    /\ UNCHANGED <<input, handles, keys, locals, tab, out>>

SetKeyset ==
    /\ pc = "set_keyset"
    /\ tab' = [tab EXCEPT !.keyset = TRUE]
    /\ GoTo("set_method")
    /\ UNCHANGED <<input, handles, keys, locals, out>>

SetKeysetFails == Fails("set_keyset")

\* An empty name is never sent to the core: the step is passed over.
SetMethod ==
    /\ pc = "set_method"
    /\ method \in KnownMethod \cup {Unset}
    /\ tab' = [tab EXCEPT !.method = method]
    /\ GoTo("set_target")
    /\ UNCHANGED <<input, handles, keys, locals, out>>

\* NOT_FOUND for a name the registry does not hold.
SetMethodFails == method # Unset /\ Fails("set_method")

SetTarget ==
    /\ pc = "set_target"
    /\ target \in KnownTarget \cup {Unset}
    /\ tab' = [tab EXCEPT !.target = target]
    /\ GoTo("set_option")
    /\ UNCHANGED <<input, handles, keys, locals, out>>

SetTargetFails == target # Unset /\ Fails("set_target")

(***************************************************************************)
(* The options are applied in order, each replacing an earlier value.  One *)
(* without '=' is only found when its turn comes.                          *)
(***************************************************************************)
SetOption ==
    /\ pc = "set_option" /\ options # <<>>
    /\ LET option == Head(options)
       IN  /\ option # Malformed /\ option.key \in KnownOption
           /\ tab' = [tab EXCEPT !.options[option.key] = option.value]
    /\ options' = Tail(options)
    /\ GoTo("set_option")
    /\ UNCHANGED <<input, handles, keys, todo, method, target, out>>

SetOptionFails == options # <<>> /\ Fails("set_option")

OptionsSet ==
    /\ pc = "set_option" /\ options = <<>>
    /\ GoTo("build")
    /\ UNCHANGED <<input, handles, keys, locals, tab, out>>

\* INVALID_STATE without a keyset or a method, ALREADY_BUILT the second time.
BuildAllowed == tab.keyset /\ tab.method # Unset /\ ~tab.built

Build ==
    /\ pc = "build" /\ BuildAllowed
    /\ tab' = [tab EXCEPT !.built = TRUE]
    /\ GoTo(IF args.output = "-" THEN "query_size" ELSE "emit_file")
    /\ UNCHANGED <<input, handles, keys, locals, out>>

BuildFails == Fails("build")

\* The artifact the table emits: the target writes the result of the method.
Emitted == [keys |-> keys, method |-> tab.method, target |-> tab.target,
            options |-> tab.options]

\* OK and BUFFER_TOO_SMALL both go on with the size the query returned.
QuerySize ==
    /\ pc = "query_size"
    /\ GoTo("emit_buffer")
    /\ UNCHANGED <<input, handles, keys, locals, tab, out>>

QuerySizeFails == Fails("query_size")

\* The whole artifact goes to std::cout in one write nobody checks.
EmitBuffer ==
    /\ pc = "emit_buffer"
    /\ out' = Emitted
    /\ GoTo("free_table")
    /\ UNCHANGED <<input, handles, keys, locals, tab>>

\* Defect: a refused buffer is asked for again, for ever.
EmitBufferRetried ==
    /\ pc = "emit_buffer"
    /\ GoTo("query_size")
    /\ UNCHANGED <<input, handles, keys, locals, tab, out>>

EmitBufferFails == Fails("emit_buffer")

EmitFile ==
    /\ pc = "emit_file"
    /\ out' = Emitted
    /\ GoTo("free_table")
    /\ UNCHANGED <<input, handles, keys, locals, tab>>

\* The file could not be opened, or was written in part.
EmitFileFails ==
    /\ pc = "emit_file"
    /\ out' \in {Nothing, Damaged}
    /\ Fail
    /\ UNCHANGED <<input, handles, keys, locals, tab>>

-----------------------------------------------------------------------------
\* Defect: the keyset goes first, while the table still borrows it.
FreeKeysetFirst ==
    /\ pc = "free_table"
    /\ keyset' = "freed"
    /\ GoTo("free_keyset")
    /\ UNCHANGED <<input, table, keys, locals, tab, out>>

\* cleanup(): the table, then the keyset it borrows.
FreeTable ==
    /\ pc = "free_table"
    /\ table' = "freed"
    /\ GoTo("free_keyset")
    /\ UNCHANGED <<input, keyset, keys, locals, tab, out>>

\* Defect: the path that could not create a table forgets the keyset.
FreeKeysetForgotten ==
    /\ pc = "free_keyset"
    /\ keyset' = IF table = "none" THEN keyset ELSE "freed"
    /\ GoTo("returned")
    /\ UNCHANGED <<input, table, keys, locals, tab, out>>

FreeKeyset ==
    /\ pc = "free_keyset"
    /\ keyset' = "freed"
    /\ GoTo("returned")
    /\ UNCHANGED <<input, table, keys, locals, tab, out>>

ReadInput ==
    \/ DumpSchema \/ DumpSchemaFails
    \/ OpenInput \/ OpenInputFails
    \/ ReadLine \/ AddStringFails \/ EndOfInput
    \/ LoadRequest \/ LoadRequestFails
    \/ AddKey \/ AddKeyFails \/ AllKeysAdded

Configure ==
    \/ SetKeyset \/ SetKeysetFails
    \/ SetMethod \/ SetMethodFails
    \/ SetTarget \/ SetTargetFails
    \/ SetOption \/ SetOptionFails \/ OptionsSet

Produce ==
    \/ Build \/ BuildFails
    \/ QuerySize \/ QuerySizeFails
    \/ EmitBuffer \/ EmitBufferFails
    \/ EmitFile \/ EmitFileFails

Next ==
    \/ CreateKeyset \/ CreateTable
    \/ ReadInput \/ Configure \/ Produce
    \/ FreeTable \/ FreeKeyset

Spec == Init /\ [][Next]_vars

\* One thread: each call returns and the next is made.
FairSpec == Spec /\ WF_vars(Next)

-----------------------------------------------------------------------------
(***************************************************************************)
(* What the inputs stand for, written without the program: the keys of the *)
(* lines that can be read, the names with their defaults, and for every    *)
(* option the last value given, on the command line or, after it, in the   *)
(* request.                                                                *)
(***************************************************************************)
Map(f, s) == [i \in DOMAIN s |-> f[s[i]]]

\* The keys of those of the first n lines that are not blank.
KeysUpTo(n) ==
    Map(KeyOf, Picked(source.lines, {i \in 1..n : source.lines[i] # Blank}))

WantedKeys == IF args.structured THEN Map(KeyOf, source.request.keys)
                                 ELSE KeysUpTo(source.readable)

WantedMethod == IF args.method = Unset THEN "stdmeth" ELSE args.method
WantedTarget == IF args.target = Unset THEN "stddef" ELSE args.target

GivenOptions ==
    args.options \o (IF args.structured THEN source.request.options ELSE <<>>)

\* The value at the last of the first n options that is about k.
ValueUpTo(n, k) ==
    LET places == {i \in 1..n : GivenOptions[i].key = k}
    IN  IF places = {} THEN Unset ELSE GivenOptions[Latest(places)].value

Taken(option) == option # Malformed /\ option.key \in KnownOption

Sound ==
    /\ args.structured => args.path # "-" /\ source.request # BadDocument
    /\ WantedMethod \in KnownMethod /\ WantedTarget \in KnownTarget
    /\ \A i \in DOMAIN GivenOptions : Taken(GivenOptions[i])

Wanted ==
    IF ~Sound THEN Nothing
    ELSE [keys |-> WantedKeys, method |-> WantedMethod, target |-> WantedTarget,
          options |-> [k \in OptionKey |-> ValueUpTo(Len(GivenOptions), k)]]

ExitSeen ==
    IF pc # "returned" THEN "running"
    ELSE IF rc = 0 THEN "success" ELSE "failure"

Command == INSTANCE BuildCommand WITH wanted <- Wanted, output <- out,
                                      exit <- ExitSeen

(***************************************************************************)
(* cmd_build_run keeps the promise of BuildCommand: what it hands over is  *)
(* the artifact its inputs stand for, at most once and whole, never from   *)
(* inputs it rejects, and it returns 0 exactly when it did.                *)
(***************************************************************************)
ImplementsCommand == Command!Spec

(***************************************************************************)
(* Whatever call fails, cmd_build_run returns with no handle alive: each   *)
(* of its early returns goes through the destructors it needs.             *)
(***************************************************************************)
NoHandleLeak == pc = "returned" => keyset # "live" /\ table # "live"

(***************************************************************************)
(* "Ownership is not transferred" (nuperf_table_set_keyset): as long as    *)
(* the table lives and has been given the keyset, the keyset lives.        *)
(***************************************************************************)
KeysetOutlivesTable == table = "live" /\ tab.keyset => keyset = "live"

(***************************************************************************)
(* The core is never asked in a state it answers INVALID_STATE in: a table *)
(* to be built has a keyset, a method and a target and is not built yet,   *)
(* whichever of the names the command line and the request left out.  Nor  *)
(* is a keyset destroyed under the table it was given to.                  *)
(***************************************************************************)
CoreCallsAllowed ==
    /\ KeysetOutlivesTable
    /\ pc \in {"read_line", "add_key", "set_keyset"} => keyset = "live"
    /\ pc \in {"set_keyset", "set_method", "set_target", "set_option", "build",
               "query_size", "emit_buffer", "emit_file"} => table = "live"
    /\ pc = "build" => BuildAllowed /\ tab.target # Unset
    /\ pc \in {"query_size", "emit_buffer", "emit_file"} => tab.built

(***************************************************************************)
(* cmd_build_run returns: no input makes one of its loops go on for ever.  *)
(***************************************************************************)
Returns == <>(pc = "returned")

(***************************************************************************)
(* The canonical request schema (schema_io.cpp) gives a request a "method" *)
(* and main.cpp presents it as a "Structured build request": the method a  *)
(* request names is used when the command line names none.  It is not,     *)
(* because the default is put in first.                                    *)
(***************************************************************************)
RequestMethodHonoured ==
    pc = "build" /\ args.structured /\ args.method = Unset
        /\ source.request.method # Unset
    => tab.method = source.request.method

(***************************************************************************)
(* Help text of --input, "Read newline keys from file": a run that returns *)
(* 0 has read all of them.  A read error ends the getline loop like the    *)
(* end of the file does, and nobody looks at the difference.               *)
(***************************************************************************)
AllKeysRead ==
    pc = "returned" /\ rc = 0 /\ ~args.structured
    => source.readable = Len(source.lines)

=============================================================================
