------------------------------ MODULE MCLeaves ------------------------------
(***************************************************************************)
(* Small instances of the five components at the edge of the program that  *)
(* share no state with any other: the Lua objects, structured requests,    *)
(* the file utilities, the hash utilities and the bundled method BBHash.   *)
(* A behaviour is a behaviour of one of them, chosen at the start, so that *)
(* TLC looks at the sum of their states and not at the product.            *)
(***************************************************************************)
EXTENDS LuaBindings, FileIO, SchemaIO, BBHash, Hash

CONSTANT Nothing    \* what a variable or an argument is when it is nothing

VARIABLE which      \* the component of this behaviour

-----------------------------------------------------------------------------
(***************************************************************************)
(* SchemaIO: every combination of the four fields of a request with values *)
(* of the right kind, of a wrong kind and missing ones; option names and   *)
(* values with "=" in them and none.  The fields are in the order of their *)
(* names, as in a std::map.                                                *)
(***************************************************************************)
Leaf(kind, text) == [kind |-> kind, data |-> text]
Items(items) == [kind |-> "array", items |-> items]
Fields(fields) == [kind |-> "object", fields |-> fields]
Named(name, value) == [name |-> name, value |-> value]

KeyLists ==
    { Items(<<>>),
      Items(<<Leaf("string", <<"a">>), Leaf("string", <<>>)>>),
      Items(<<Leaf("string", <<"a">>), Leaf("int", <<"1">>)>>) }

Datasets ==
    { Fields(<<Named("keys", keys)>>) : keys \in KeyLists }
    \cup { Fields(<<>>), Leaf("null", <<>>),
           Fields(<<Named("id", Leaf("int", <<"1">>)), Named("keys", Items(<<>>))>>) }

OptionValues ==
    { Leaf("string", <<"b", "=", "c">>), Leaf("bool", Yes), Leaf("bool", No),
      Leaf("uint", <<"1">>), Leaf("double", <<"2.5e-7">>), Leaf("binary", <<>>) }

OptionObjects ==
    { Fields(<<>>), Leaf("string", <<"a">>) }
    \cup { Fields(<<Named(<<"a">>, value)>>) : value \in OptionValues }
    \cup { Fields(<<Named(name, Leaf("string", <<"=">>)),
                    Named(<<"b">>, Leaf("int", <<"1">>))>>) :
             name \in {<<"a">>, <<"a", "=">>, <<>>} }

Optional(name, values) == {<<>>} \cup {<<Named(name, value)>> : value \in values}

MCDocument ==
    KeyLists \cup {Leaf("null", <<>>)}
    \cup { Fields(dataset \o keys \o method \o options \o target) :
             dataset \in Optional("dataset", Datasets),
             keys \in Optional("keys", KeyLists),
             method \in Optional("method", {Leaf("string", <<"a">>), Leaf("int", <<"1">>)}),
             options \in Optional("options", OptionObjects),
             target \in Optional("target", {Leaf("string", <<"b">>)}) }

MCShown ==
    [number \in {<<"1">>, <<"2.5e-7">>} |->
        CASE number = <<"1">>      -> <<"1">>
          [] number = <<"2.5e-7">> -> <<"0", ".", "0">>]

\* In units of 10^-8.
MCAmount ==
    [text \in {<<"1">>, <<"2.5e-7">>, <<"0", ".", "0">>} |->
        CASE text = <<"1">>           -> 100000000
          [] text = <<"2.5e-7">>      -> 25
          [] text = <<"0", ".", "0">> -> 0]

\* FileIO: two callers, files and data of up to two bytes.
MCContents == {<<"o">>, <<"o", "p">>}
MCWritten == {<<>>, <<"n">>, <<"n", "m">>}

-----------------------------------------------------------------------------
(***************************************************************************)
(* Hash: the published vectors, as data and as C strings with something    *)
(* behind their end, and words with bits in every byte.                    *)
(***************************************************************************)
Zero == <<0, 0, 0, 0>>
Hello == <<72, 101, 108, 108, 111, 44, 32, 119, 111, 114, 108, 100, 33>>
Foobar == <<102, 111, 111, 98, 97, 114>>
HelloSeed == <<140, 178, 71, 151>>
Basis == <<37, 35, 34, 132, 228, 156, 242, 203>>

Fnv(text, hash) == [of |-> "fnv1a", bytes |-> text, seed |-> Basis, is |-> hash]
Murmur(text, seed, hash) ==
    [of |-> "murmur3", bytes |-> text, seed |-> seed, is |-> hash]

MCVectors ==
    { Fnv(<<>>, Basis),
      Fnv(<<97>>, <<140, 236, 1, 134, 76, 220, 99, 175>>),
      Fnv(Foobar, <<232, 103, 57, 247, 113, 65, 148, 133>>),
      Murmur(<<>>, Zero, Zero),
      Murmur(<<>>, <<1, 0, 0, 0>>, <<183, 40, 78, 81>>),
      Murmur(<<>>, <<255, 255, 255, 255>>, <<57, 111, 241, 129>>),
      Murmur(Zero, Zero, <<222, 249, 98, 35>>),
      Murmur(<<33>>, Zero, <<244, 28, 102, 114>>),
      Murmur(<<97, 97>>, HelloSeed, <<38, 23, 33, 93>>),
      Murmur(<<97, 98, 99>>, Zero, <<250, 147, 221, 179>>),
      Murmur(<<116, 101, 115, 116>>, Zero, <<19, 210, 107, 186>>),
      Murmur(Hello, HelloSeed, <<186, 76, 136, 36>>) }

MCBlock ==
    LET texts == {vector.bytes : vector \in MCVectors}
    IN  texts \cup {text \o <<0>> : text \in texts}
              \cup {text \o <<0, 97, 0>> : text \in texts}
              \cup [1..4 -> {0, 128}]
              \cup {<<i, 2 * i, 255 - i, 101>> : i \in {1, 50, 101}}
              \cup {<<1, 2, 3, 4, 5, 6, 7, 200>>}

MCSeed == {Zero, <<1, 0, 0, 0>>, <<255, 255, 255, 255>>, HelloSeed}

-----------------------------------------------------------------------------
(***************************************************************************)
(* BBHash: a machine whose uint32_t has two bits and whose unsigned long   *)
(* has four, so that numbers wrap and so do the entries of five keys.      *)
(***************************************************************************)
MCStoul ==
    [text \in {"3", "4", "-1", "many"} |->
        CASE text = "3" -> 3 [] text = "4" -> 4
          [] text = "-1" -> 15 [] text = "many" -> Nothing]
MCText == DOMAIN MCStoul
MCWidth == [v \in Uint32 |-> IF v < 3 THEN 1 ELSE 2]
MCBuffer == [null : {TRUE}, size : {0}] \cup [null : {FALSE}, size : 1..3]

-----------------------------------------------------------------------------
Unused(v) == v = Nothing

NoRequests ==
    /\ Unused(document) /\ Unused(readable) /\ Unused(schema) /\ Unused(stage)
    /\ Unused(request) /\ Unused(todo) /\ Unused(luaOptions)
NoFiles ==
    /\ FilesInit
    /\ file = Absent
    /\ op = [c \in Caller |-> "exists"] /\ data = [c \in Caller |-> <<>>]
NoHashes ==
    /\ Unused(asking) /\ Unused(bytes) /\ Unused(at) /\ Unused(h) /\ Unused(phase)
LeavesInit ==
    /\ Init /\ MethodInit
    /\ \/ which \in {"lua", "methods"} /\ NoRequests /\ NoFiles /\ NoHashes
       \/ which = "requests" /\ RequestInit /\ NoFiles /\ NoHashes
       \/ which = "files" /\ NoRequests /\ FilesInit /\ NoHashes
       \/ which = "hashes" /\ NoRequests /\ NoFiles /\ HashInit

leavesVars == <<vars, which, requestVars, fileVars, hashVars, bbVars>>

LeavesNext ==
    \/ /\ which = "lua" /\ Next
       /\ UNCHANGED <<which, requestVars, fileVars, hashVars, bbVars>>
    \/ /\ which = "requests" /\ RequestNext
       /\ UNCHANGED <<vars, which, fileVars, hashVars, bbVars>>
    \/ /\ which = "files" /\ FilesNext
       /\ UNCHANGED <<vars, which, requestVars, hashVars, bbVars>>
    \/ /\ which = "hashes" /\ HashNext
       /\ UNCHANGED <<vars, which, requestVars, fileVars, bbVars>>
    \/ /\ which = "methods" /\ MethodNext
       /\ UNCHANGED <<vars, which, requestVars, fileVars, hashVars>>

LeavesSpec == LeavesInit /\ [][LeavesNext]_leavesVars /\ WF_vars(Closing)

-----------------------------------------------------------------------------
\* Every variable of the five components keeps its type.
PartsTypeOK ==
    /\ TypeOK
    /\ which = "requests" => RequestTypeOK
    /\ FilesTypeOK
    /\ which = "hashes" => HashTypeOK
    /\ MethodTypeOK

=============================================================================
