------------------------------ MODULE SchemaIO ------------------------------
(***************************************************************************)
(* A structured build request (src/cli/schema_io.cpp): a document is read, *)
(* validated against a schema if one was given, and its keys, names and    *)
(* options are extracted; nuperf.schema.load (src/lua/lua-bindings.cpp)    *)
(* then makes a Lua table of the request, and has to take the options      *)
(* apart again for it.                                                     *)
(*                                                                         *)
(* A document is a tree of values of SerdeTk (third_party/Klyspec): an     *)
(* array has items, an object has fields in the order of its std::map, no  *)
(* two of one name, and a scalar has data.  How JSON, YAML, XML and s-     *)
(* expressions are parsed is left out: what is read is any document, or    *)
(* nothing.  Texts are sequences of letters, "=" among them.               *)
(***************************************************************************)
EXTENDS Integers, Sequences

CONSTANTS
    Document,   \* roots of documents
    Shown,      \* what std::to_string makes of the data of a number
    Amount      \* the number that data or a text stands for, in units of 10^-8

Number == {"int", "uint", "double"}
Scalar == Number \cup {"string", "bool"}

\* The data of a bool, and the texts the extraction has for it.
Yes == <<"yes">>
No == <<"no">>
BoolText(data) == IF data = Yes THEN <<"t", "r", "u", "e">> ELSE <<"f", "a", "l", "s", "e">>

\* What is in a sequence; and s is one.
Letters(s) == {s[i] : i \in DOMAIN s}
IsList(s) == s \in Seq(Letters(s))

IsObject(value) == value.kind = "object"

(***************************************************************************)
(* A text says what a value is.  std::to_string writes integers in full    *)
(* and a double with six decimals: the text is within half a millionth of  *)
(* the double, and what the double has beyond that is lost.                *)
(***************************************************************************)
Says(text, value) ==
    CASE value.kind = "string" -> text = value.data
      [] value.kind = "bool"   -> text = BoolText(value.data)
      [] value.kind \in {"int", "uint"} ->
            text \in DOMAIN Amount /\ Amount[text] = Amount[value.data]
      [] value.kind = "double" ->
            text \in DOMAIN Amount /\ Amount[text] - Amount[value.data] \in -50..50

\* A value with what its kind comes with.
Formed(value) ==
    /\ value.kind \in Scalar \cup {"null", "binary", "array", "object"}
    /\ value.kind = "array" => IsList(value.items)
    /\ IsObject(value) =>
        /\ IsList(value.fields)
        /\ \A i, j \in DOMAIN value.fields :
                value.fields[i].name = value.fields[j].name => i = j
    /\ value.kind = "string" => IsList(value.data)
    /\ value.kind = "bool" => value.data \in {Yes, No}
    /\ value.kind \in Number =>
        IsList(Shown[value.data]) /\ Says(Shown[value.data], value)

\* The names in an object of options are texts.
ASSUME SchemaAssumption ==
    \A root \in Document :
        /\ Formed(root)
        /\ IsObject(root) => \A i \in DOMAIN root.fields :
            LET value == root.fields[i].value
            IN  /\ Formed(value)
                /\ IsObject(value) => \A j \in DOMAIN value.fields :
                    /\ Formed(value.fields[j].value)
                    /\ root.fields[i].name = "options"
                            => IsList(value.fields[j].name)

VARIABLES
    document,   \* what the file holds
    readable,   \* whether SerdeTk can read it
    schema,     \* the schema file: none, the canonical one, the user's own, or
                \* one that cannot be used
    stage,      \* where the call is
    request,    \* BuildRequest
    todo,       \* fields of options, or entries of request.options, to look at
    luaOptions  \* the options table handed to the script

source == <<document, readable, schema>>
requestVars == <<source, stage, request, todo, luaOptions>>

RequestTypeOK ==
    /\ readable \in BOOLEAN
    /\ schema \in {"none", "canonical", "own", "unusable"}
    /\ stage \in {"load", "validate", "keys", "names", "options", "loaded",
                  "table", "done", "refused"}
    /\ DOMAIN request = {"keys", "method", "target", "options"}
    /\ \A entry \in Letters(request.options) : "=" \in Letters(entry)
    /\ \A name \in DOMAIN luaOptions : "=" \notin Letters(name)

RequestInit ==
    /\ document \in Document /\ readable \in BOOLEAN
    /\ schema \in {"none", "canonical", "own", "unusable"}
    /\ stage = "load"
    /\ request = [keys |-> <<>>, method |-> <<>>, target |-> <<>>, options |-> <<>>]
    /\ todo = <<>> /\ luaOptions = <<>>

-----------------------------------------------------------------------------
\* contains and at of serdetk::Object.
Has(object, name) ==
    \E i \in DOMAIN object.fields : object.fields[i].name = name
Field(object, name) ==
    object.fields[CHOOSE i \in DOMAIN object.fields :
                    object.fields[i].name = name].value

IsKeys(value) ==
    value.kind = "array" /\ \A i \in DOMAIN value.items :
                                value.items[i].kind = "string"

(***************************************************************************)
(* The canonical schema: exactly one of three shapes.  Every object of it  *)
(* has "additionalProperties": false, so the last two exclude each other.  *)
(***************************************************************************)
Only(object, names) ==
    \A i \in DOMAIN object.fields : object.fields[i].name \in names

Settings(root) ==
    /\ \A n \in {"method", "target"} :
        Has(root, n) => Field(root, n).kind = "string"
    /\ Has(root, "options") =>
        /\ IsObject(Field(root, "options"))
        /\ \A i \in DOMAIN Field(root, "options").fields :
            Field(root, "options").fields[i].value.kind \in Scalar

Canonical(root) ==
    \/ IsKeys(root)
    \/ /\ IsObject(root) /\ Has(root, "keys")
       /\ Only(root, {"keys", "method", "target", "options"})
       /\ IsKeys(Field(root, "keys")) /\ Settings(root)
    \/ /\ IsObject(root) /\ Has(root, "dataset")
       /\ Only(root, {"dataset", "method", "target", "options"})
       /\ LET dataset == Field(root, "dataset")
          IN  /\ IsObject(dataset) /\ Only(dataset, {"keys"})
              /\ Has(dataset, "keys") /\ IsKeys(Field(dataset, "keys"))
       /\ Settings(root)

-----------------------------------------------------------------------------
\* Whatever SerdeTk or the validator throws is caught: the call answers false.
Load ==
    /\ stage = "load"
    /\ stage' = IF readable THEN "validate" ELSE "refused"
    /\ UNCHANGED <<source, request, todo, luaOptions>>

(***************************************************************************)
(* The fields of a schema object the validator looks at (it looks at       *)
(* additionalProperties beside properties only), and those the canonical   *)
(* schema has at its root.                                                 *)
(***************************************************************************)
Keywords ==
    {"type", "enum", "const", "minLength", "maxLength", "pattern", "required",
     "properties", "items", "minItems", "maxItems", "minimum", "maximum",
     "uniqueItems", "allOf"}

CanonicalRoot == {"$schema", "title", "description", "oneOf"}

\* A schema without a keyword accepts every document; one of the user's own
\* may say anything.
Verdict ==
    CASE schema = "none"      -> {"keys"}
      [] schema = "canonical" -> IF Keywords \cap CanonicalRoot = {} THEN {"keys"}
                                 ELSE {"keys", "refused"}
      [] schema = "own"       -> {"keys", "refused"}
      [] schema = "unusable"  -> {"refused"}

Validate ==
    /\ stage = "validate"
    /\ stage' \in Verdict
    /\ UNCHANGED <<source, request, todo, luaOptions>>

\* Where the keys are: the root, its keys, or the keys of its dataset.
KeysValue(root) ==
    CASE root.kind = "array"                     -> root
      [] IsObject(root) /\ Has(root, "keys")     -> Field(root, "keys")
      [] IsObject(root) /\ ~Has(root, "keys") /\ Has(root, "dataset")
            /\ IsObject(Field(root, "dataset"))
            /\ Has(Field(root, "dataset"), "keys")
            -> Field(Field(root, "dataset"), "keys")
      [] OTHER                                   -> [kind |-> "missing"]

(***************************************************************************)
(* The keys before the first one that is not a string are in the request   *)
(* even if the call is refused for that one.  A root that is an array has  *)
(* nothing else to say.                                                    *)
(***************************************************************************)
ExtractKeys ==
    /\ stage = "keys"
    /\ LET value == KeysValue(document)
           items == IF value.kind = "array" THEN value.items ELSE <<>>
           good == {n \in 0..Len(items) : \A i \in 1..n : items[i].kind = "string"}
           count == CHOOSE n \in good : \A m \in good : m <= n
       IN  /\ request' = [request EXCEPT !.keys =
                            [i \in 1..count |-> items[i].data]]
           /\ stage' = IF ~IsKeys(value) THEN "refused"
                       ELSE IF document.kind = "array" THEN "loaded"
                       ELSE "names"
    /\ UNCHANGED <<source, todo, luaOptions>>

\* Defect: the names are looked for beside keys, not beside a dataset.
StringFieldOfKeys(name) ==
    IF Has(document, "keys") /\ Has(document, name)
            /\ Field(document, name).kind = "string"
    THEN Field(document, name).data ELSE <<>>

\* A method or target that is not a string is passed over.
StringField(name) ==
    IF Has(document, name) /\ Field(document, name).kind = "string"
    THEN Field(document, name).data ELSE <<>>

ExtractNames ==
    /\ stage = "names"
    /\ request' = [request EXCEPT !.method = StringField("method"),
                                  !.target = StringField("target")]
    /\ \/ /\ ~Has(document, "options")
          /\ stage' = "loaded" /\ UNCHANGED todo
       \/ /\ Has(document, "options") /\ ~IsObject(Field(document, "options"))
          /\ stage' = "refused" /\ UNCHANGED todo
       \/ /\ Has(document, "options") /\ IsObject(Field(document, "options"))
          /\ stage' = "options" /\ todo' = Field(document, "options").fields
    /\ UNCHANGED <<source, luaOptions>>

TextOf(value) ==
    CASE value.kind = "string"  -> value.data
      [] value.kind = "bool"    -> BoolText(value.data)
      [] value.kind \in Number  -> Shown[value.data]

\* Defect: nobody thought of unsigned numbers.
TakenSigned == Scalar \ {"uint"}

\* The scalars extraction knows.
Taken == Scalar

ExtractOption ==
    /\ stage = "options" /\ todo # <<>>
    /\ IF Head(todo).value.kind \in Taken
       THEN /\ request' = [request EXCEPT !.options =
                    Append(@, Head(todo).name \o <<"=">> \o TextOf(Head(todo).value))]
            /\ todo' = Tail(todo)
            /\ UNCHANGED stage
       ELSE stage' = "refused" /\ UNCHANGED <<request, todo>>
    /\ UNCHANGED <<source, luaOptions>>

OptionsExtracted ==
    /\ stage = "options" /\ todo = <<>>
    /\ stage' = "loaded"
    /\ UNCHANGED <<source, request, todo, luaOptions>>

-----------------------------------------------------------------------------
\* nuperf.schema.load goes on with the request; build run uses it as it is.
StartTable ==
    /\ stage = "loaded"
    /\ stage' = "table"
    /\ todo' = request.options
    /\ UNCHANGED <<source, request, luaOptions>>

\* Defect: the entry is cut at its last "=".
CutLast(entry) ==
    CHOOSE i \in DOMAIN entry :
        entry[i] = "=" /\ \A j \in (i + 1)..Len(entry) : entry[j] # "="

\* std::string::find: the first "=".
Cut(entry) ==
    CHOOSE i \in DOMAIN entry :
        entry[i] = "=" /\ \A j \in 1..(i - 1) : entry[j] # "="

\* A later entry of the same name replaces the earlier one.
TableOption ==
    /\ stage = "table" /\ todo # <<>>
    /\ LET entry == Head(todo)
           name == SubSeq(entry, 1, Cut(entry) - 1)
           text == SubSeq(entry, Cut(entry) + 1, Len(entry))
       IN  luaOptions' = [n \in DOMAIN luaOptions \cup {name} |->
                            IF n = name THEN text ELSE luaOptions[n]]
    /\ todo' = Tail(todo)
    /\ UNCHANGED <<source, stage, request>>

TableMade ==
    /\ stage = "table" /\ todo = <<>>
    /\ stage' = "done"
    /\ UNCHANGED <<source, request, todo, luaOptions>>

RequestNext ==
    \/ Load \/ Validate
    \/ ExtractKeys \/ ExtractNames \/ ExtractOption \/ OptionsExtracted
    \/ StartTable \/ TableOption \/ TableMade

RequestSpec == RequestInit /\ [][RequestNext]_requestVars

-----------------------------------------------------------------------------
(***************************************************************************)
(* The extraction asks no more than the schema the program writes: a       *)
(* document of one of its three shapes is never refused, with that schema  *)
(* or without one (lines 69-133 and 161-218).                              *)
(***************************************************************************)
ValidIsTaken ==
    stage = "refused" /\ readable /\ schema \in {"none", "canonical"}
        => ~Canonical(document)

(***************************************************************************)
(* `build run --help` calls --schema the "Schema file for structured       *)
(* imports.", and the one --dump-json-schema writes has its three shapes   *)
(* under "oneOf": what was validated against it is of one of them.  The    *)
(* validator does not look at "oneOf" and accepts every document.          *)
(***************************************************************************)
AcceptedIsValid ==
    stage = "loaded" /\ schema = "canonical" => Canonical(document)

(***************************************************************************)
(* What a valid document says reaches the request: its keys in order, its  *)
(* names, and for each of its options an entry that has the name, "=" and  *)
(* a text that says the value, to the sixth decimal of a double.           *)
(***************************************************************************)
ValidKeys(root) ==
    CASE root.kind = "array" -> root.items
      [] IsObject(root) /\ Has(root, "keys") -> Field(root, "keys").items
      [] OTHER -> Field(Field(root, "dataset"), "keys").items

OptionFields(root) ==
    IF IsObject(root) /\ Has(root, "options") THEN Field(root, "options").fields
    ELSE <<>>

EntrySays(entry, name, value) ==
    /\ SubSeq(entry, 1, Len(name)) = name /\ entry[Len(name) + 1] = "="
    /\ Says(SubSeq(entry, Len(name) + 2, Len(entry)), value)

RequestIsDocument ==
    stage \in {"loaded", "table", "done"} /\ Canonical(document) =>
        /\ Len(request.keys) = Len(ValidKeys(document))
        /\ \A i \in DOMAIN request.keys :
            request.keys[i] = ValidKeys(document)[i].data
        /\ IsObject(document) =>
            /\ Has(document, "method") =>
                request.method = Field(document, "method").data
            /\ Has(document, "target") =>
                request.target = Field(document, "target").data
        /\ Len(request.options) = Len(OptionFields(document))
        /\ \A i \in DOMAIN request.options :
            LET f == OptionFields(document)[i]
            IN  EntrySays(request.options[i], f.name, f.value)

(***************************************************************************)
(* The script gets the options of the document back, values with "=" in    *)
(* them included, if no name has one.                                      *)
(***************************************************************************)
ScriptSeesOptions ==
    LET fields == OptionFields(document)
    IN  /\ stage = "done" /\ Canonical(document)
        /\ \A i \in DOMAIN fields : "=" \notin Letters(fields[i].name)
        => /\ DOMAIN luaOptions = {fields[i].name : i \in DOMAIN fields}
           /\ \A i \in DOMAIN fields :
                Says(luaOptions[fields[i].name], fields[i].value)

=============================================================================
