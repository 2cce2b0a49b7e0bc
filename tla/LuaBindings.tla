----------------------------- MODULE LuaBindings -----------------------------
(***************************************************************************)
(* The keysets and tables of the Lua module (src/lua/lua-bindings.cpp):    *)
(* C++ objects that own a handle of the core each and live in userdata,    *)
(* which the script creates, uses and forgets and the collector destroys.  *)
(*                                                                         *)
(* new_keyset and new_table return their object by value: it is made as a  *)
(* temporary, moved into new userdata, and the temporary is destroyed.     *)
(* Allocating the userdata may run the collector, so the finalizers of     *)
(* forgotten objects run between those steps.  A handle that was freed may *)
(* be given out again: handles are addresses.                              *)
(***************************************************************************)
CONSTANTS
    Keyset, Table,  \* userdata that can hold a LuaKeyset, a LuaTable
    Temporary,      \* the object a new_* function returns
    Handle,         \* addresses of nuperf_keyset_t and nuperf_table_t
    Null

Userdata == Keyset \cup Table
Object == Userdata \cup {Temporary}

ASSUME LuaAssumption ==
    /\ Keyset \cap Table = {} /\ Temporary \notin Userdata
    /\ Null \notin Handle

VARIABLES
    running,    \* the script has not ended
    call,       \* the new_* call under way: the kind of its temporary, "moved"
                \* once it is in its userdata, "none" outside such a call
    state,      \* of each userdata: "absent", "reachable", "garbage"
    holds,      \* ks_ or tbl_ of each object
    live,       \* the handles created and not destroyed
    table       \* core: the keyset a table was given, and whether it is built

vars == <<running, call, state, holds, live, table>>

NewTable == [keyset |-> Null, built |-> FALSE]

TypeOK ==
    /\ running \in BOOLEAN
    /\ call \in {"none", "keyset", "table", "moved"}
    /\ state \in [Userdata -> {"absent", "reachable", "garbage"}]
    /\ holds \in [Object -> Handle \cup {Null}]
    /\ live \subseteq Handle
    /\ table \in [Handle -> [keyset : Handle \cup {Null}, built : BOOLEAN]]

Init ==
    /\ running = TRUE
    /\ call = "none"
    /\ state = [o \in Userdata |-> "absent"]
    /\ holds = [o \in Object |-> Null]
    /\ live = {}
    /\ table = [h \in Handle |-> NewTable]

Slots(kind) == IF kind = "keyset" THEN Keyset ELSE Table

\* The script can make a call, and only it: no new_* call is under way.
InScript == running /\ call = "none"

-----------------------------------------------------------------------------
(***************************************************************************)
(* The constructor and the destructor both classes have.  A create that    *)
(* fails throws out of the constructor and leaves nothing behind.          *)
(***************************************************************************)
\* Defect: neither the status of the create is looked at, nor has ks_ or tbl_
\* an initializer.
ConstructUnchecked(o) ==
    /\ holds' = [holds EXCEPT ![o] = "uninitialized"]
    /\ UNCHANGED <<live, table>>

Construct(o) ==
    \E h \in Handle \ live :
        /\ live' = live \cup {h}
        /\ holds' = [holds EXCEPT ![o] = h]
        /\ table' = [table EXCEPT ![h] = NewTable]

\* Defect: the pointer is cleared and the handle forgotten.
DestroyNothing(o) ==
    /\ live' = live
    /\ holds' = [holds EXCEPT ![o] = Null]

Destroy(o) ==
    /\ live' = live \ {holds[o]}
    /\ holds' = [holds EXCEPT ![o] = Null]

\* NuperfKeyset.new(), NuperfTable.new(): the object is made in its userdata.
New(o) ==
    /\ InScript /\ state[o] = "absent"
    /\ Construct(o)
    /\ state' = [state EXCEPT ![o] = "reachable"]
    /\ UNCHANGED <<running, call>>

\* nuperf.new_keyset(), nuperf.new_table(), in three steps.
MakeTemporary(kind) ==
    /\ InScript
    /\ \E o \in Slots(kind) : state[o] = "absent"
    /\ Construct(Temporary)
    /\ call' = kind
    /\ UNCHANGED <<running, state>>

\* Defect: the move constructor leaves the pointer in the object moved from.
MoveCopies(o) ==
    /\ call \in {"keyset", "table"} /\ o \in Slots(call)
    /\ state[o] = "absent"
    /\ holds' = [holds EXCEPT ![o] = holds[Temporary]]
    /\ state' = [state EXCEPT ![o] = "reachable"]
    /\ call' = "moved"
    /\ UNCHANGED <<running, live, table>>

Move(o) ==
    /\ call \in {"keyset", "table"} /\ o \in Slots(call)
    /\ state[o] = "absent"
    /\ holds' = [holds EXCEPT ![o] = holds[Temporary], ![Temporary] = Null]
    /\ state' = [state EXCEPT ![o] = "reachable"]
    /\ call' = "moved"
    /\ UNCHANGED <<running, live, table>>

DestroyTemporary ==
    /\ call = "moved"
    /\ Destroy(Temporary)
    /\ call' = "none"
    /\ UNCHANGED <<running, state, table>>

\* The script forgets an object; the collector finds it whenever it likes.
Forget(o) ==
    /\ InScript /\ state[o] = "reachable"
    /\ state' = [state EXCEPT ![o] = "garbage"]
    /\ UNCHANGED <<running, call, holds, live, table>>

Collect(o) ==
    /\ state[o] = "garbage"
    /\ Destroy(o)
    /\ state' = [state EXCEPT ![o] = "absent"]
    /\ UNCHANGED <<running, call, table>>

\* The script ends and lua_close makes garbage of everything.
Close ==
    /\ InScript
    /\ running' = FALSE
    /\ state' = [o \in Userdata |->
                    IF state[o] = "reachable" THEN "garbage" ELSE state[o]]
    /\ UNCHANGED <<call, holds, live, table>>

-----------------------------------------------------------------------------
(***************************************************************************)
(* build(ks): nuperf_table_set_keyset, then nuperf_table_build, which      *)
(* reads the keyset the table refers to.  Nothing keeps ks alive for the   *)
(* table afterwards, whether the build succeeded or threw, and a table     *)
(* whose build threw can be built again.                                   *)
(***************************************************************************)
\* Defect: a table that has a keyset is not given another.
WithFirstKeyset(t, k) ==
    [table EXCEPT ![holds[t]].keyset = IF @ = Null THEN holds[k] ELSE @]

WithKeyset(t, k) == [table EXCEPT ![holds[t]].keyset = holds[k]]

Build(t, k) ==
    /\ InScript /\ state[t] = "reachable" /\ state[k] = "reachable"
    /\ ~table[holds[t]].built
    /\ table' = [WithKeyset(t, k) EXCEPT ![holds[t]].built = TRUE]
    /\ UNCHANGED <<running, call, state, holds, live>>

\* The keyset was taken and the build threw.
BuildFails(t, k) ==
    /\ InScript /\ state[t] = "reachable" /\ state[k] = "reachable"
    /\ table' = WithKeyset(t, k)
    /\ UNCHANGED <<running, call, state, holds, live>>

Next ==
    \/ \E o \in Userdata : New(o) \/ Move(o) \/ Forget(o) \/ Collect(o)
    \/ \E kind \in {"keyset", "table"} : MakeTemporary(kind)
    \/ DestroyTemporary
    \/ Close
    \/ \E t \in Table, k \in Keyset : Build(t, k) \/ BuildFails(t, k)

Spec == Init /\ [][Next]_vars

\* lua_close destroys everything that is left.  Nothing is assumed of the
\* collector before that.
Closing == \E o \in Userdata : ~running /\ Collect(o)

FairSpec == Spec /\ WF_vars(Closing)

-----------------------------------------------------------------------------
(***************************************************************************)
(* Every handle of the core is owned by one object and destroyed once: no  *)
(* two objects hold the same handle, what an object holds is alive, and    *)
(* what is alive is held, between the steps of a move as well, and when    *)
(* the address of a destroyed handle comes back.                           *)
(***************************************************************************)
Holding == {o \in Object : holds[o] # Null}

HandlesOwnedOnce ==
    /\ \A o, p \in Holding : holds[o] = holds[p] => o = p
    /\ live = {holds[o] : o \in Holding}

(***************************************************************************)
(* A table is built from a keyset the script still holds, though an        *)
(* earlier build that threw may have left it with one that was collected   *)
(* since, and whose address may be that of another object now (lines       *)
(* 181-184).                                                               *)
(***************************************************************************)
Held == {holds[k] : k \in {k \in Keyset : state[k] = "reachable"}}

BuiltFromHeldKeyset ==
    [][\A h \in live : table'[h].built /\ ~table[h].built
                            => table'[h].keyset \in Held]_vars

(***************************************************************************)
(* Once the script has ended, every handle is given back to the core.      *)
(***************************************************************************)
HandlesGivenBack == ~running ~> live = {}

=============================================================================
