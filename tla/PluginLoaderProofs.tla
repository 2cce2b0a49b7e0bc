------------------------- MODULE PluginLoaderProofs -------------------------
(***************************************************************************)
(* Proofs about PluginLoader for every content of the plugin directories:  *)
(* any number of entries, images, names and export tables.                 *)
(***************************************************************************)
EXTENDS PluginLoader, FiniteSetTheorems, TLAPS

-----------------------------------------------------------------------------
(***************************************************************************)
(* The inductive invariant.  Typing says nothing of the library at hand    *)
(* (LocalLibrary) or of entries met twice (EntriesFresh); both are needed  *)
(* before ownership can be followed, and ownership is needed before the    *)
(* descriptors can be tied to the handles that keep their images mapped.   *)
(***************************************************************************)
LocalLibrary ==
    /\ phase \in {"plugin", "descriptor"} =>
            lib \in Entry /\ file[lib] \in Image
    /\ phase \notin {"plugin", "descriptor"} => lib = NoEntry

EntriesFresh ==
    /\ pending \cap open = {}
    /\ phase = "start" => open = {}
    /\ kind = "method" => pending \subseteq MethodEntry /\ open \subseteq MethodEntry

\* The registry points into the program or into the image of a kept handle.
Covered ==
    \A d \in registry :
        d.image = BuiltinImage \/ \E e \in handles : file[e] = d.image

\* Outside the life of the core the registry is empty ...
RegistryReleased ==
    phase \in {"start", "failed", "unload", "exited"} => registry = {}

\* ... and within it the built-in plugins are there.
BuiltinsPresent ==
    phase \in {"scan", "plugin", "descriptor", "command"} =>
        Builtins \subseteq registry

LoaderInv ==
    /\ TypeOK
    /\ LocalLibrary
    /\ EntriesFresh
    /\ OwnedOnce
    /\ Covered
    /\ RegistryReleased
    /\ BuiltinsPresent
    /\ DefaultsAreBuiltin

-----------------------------------------------------------------------------
\* nuperf_init registers well-formed descriptors of the program itself.
LEMMA BuiltinsTyped ==
    /\ Builtins \subseteq Descriptor
    /\ \A d \in Builtins : d.image = BuiltinImage
BY LoaderAssumption DEF Builtins, Descriptor, Kind

\* A name the registry takes while the built-ins are in it is not a default.
LEMMA AcceptedIsNew ==
    ASSUME BuiltinsPresent, phase \in {"plugin", "descriptor"},
           kind \in Kind, NEW n, Accepts(kind, n), NEW i
    PROVE  ~IsDefault([kind |-> kind, name |-> n, image |-> i])
<1> DEFINE d == [kind |-> kind, name |-> n, image |-> BuiltinImage]
<1>1. SUFFICES ASSUME IsDefault([kind |-> kind, name |-> n, image |-> i])
               PROVE  d \in Builtins
  BY DEF BuiltinsPresent, Accepts, Taken
<1>2. QED
  BY <1>1 DEF IsDefault, Builtins, Kind

\* Registering the descriptor of the open library and keeping the library.
LEMMA RegisterKeepsInv ==
    ASSUME LoaderInv, phase \in {"plugin", "descriptor"}, NEW n, Register(n)
    PROVE  LoaderInv'
<1> DEFINE d == [kind |-> kind, name |-> n, image |-> file[lib]]
<1> USE DEF LoaderInv
<1>1. lib \in Entry /\ file[lib] \in Image /\ lib # NoEntry /\ n \in Name
  BY LoaderAssumption DEF LocalLibrary, Register, Accepts
<1>2. d \in Descriptor
  BY <1>1 DEF Descriptor, TypeOK
<1>3. TypeOK'
  BY <1>1, <1>2 DEF TypeOK, Register, disk, Phase
<1>4. LocalLibrary'
  BY DEF Register, LocalLibrary
<1>5. EntriesFresh'
  BY DEF Register, EntriesFresh
<1>6. OwnedOnce'
  BY <1>1, LoaderAssumption DEF Register, OwnedOnce, TypeOK
<1>7. Covered'
  BY <1>1 DEF Register, Covered, disk
<1>8. RegistryReleased'
  BY DEF Register, RegistryReleased
<1>9. BuiltinsPresent'
  BY DEF Register, BuiltinsPresent
<1>10. DefaultsAreBuiltin'
  <2>1. ~IsDefault(d)
    BY AcceptedIsNew DEF TypeOK, Register
  <2>2. registry' = registry \cup {d}
    BY DEF Register
  <2> QED
    BY <2>1, <2>2 DEF DefaultsAreBuiltin, IsDefault
<1> QED
  BY <1>3, <1>4, <1>5, <1>6, <1>7, <1>8, <1>9, <1>10

LEMMA InitInv == Init => LoaderInv
<1> SUFFICES ASSUME Init PROVE LoaderInv
  OBVIOUS
<1>1. TypeOK
  BY DEF Init, TypeOK, Phase, Kind
<1>2. LocalLibrary /\ EntriesFresh /\ OwnedOnce
  BY DEF Init, LocalLibrary, EntriesFresh, OwnedOnce
<1>3. Covered /\ RegistryReleased /\ BuiltinsPresent /\ DefaultsAreBuiltin
  BY DEF Init, Covered, RegistryReleased, BuiltinsPresent, DefaultsAreBuiltin
<1> QED
  BY <1>1, <1>2, <1>3 DEF LoaderInv

(***************************************************************************)
(* Every step keeps the invariant.                                         *)
(***************************************************************************)
LEMMA NextInv == LoaderInv /\ [Next]_vars => LoaderInv'
<1> SUFFICES ASSUME LoaderInv, [Next]_vars PROVE LoaderInv'
  OBVIOUS
<1> USE DEF LoaderInv
<1>1. CASE InitLibrary
  <2> USE <1>1 DEF InitLibrary, disk
  <2>1. TypeOK'
    BY BuiltinsTyped DEF TypeOK, Phase, Kind, Entry
  <2>2. LocalLibrary' /\ EntriesFresh'
    BY LoaderAssumption DEF LocalLibrary, EntriesFresh, OwnedOnce, TypeOK
  <2>3. OwnedOnce'
    BY LoaderAssumption DEF OwnedOnce, LocalLibrary, EntriesFresh, TypeOK, Entry
  <2>4. Covered' /\ RegistryReleased' /\ BuiltinsPresent'
    BY BuiltinsTyped DEF Covered, RegistryReleased, BuiltinsPresent
  <2>5. DefaultsAreBuiltin'
    BY BuiltinsTyped DEF DefaultsAreBuiltin, IsDefault
  <2> QED
    BY <2>1, <2>2, <2>3, <2>4, <2>5
<1>2. CASE InitFails
  <2> USE <1>2 DEF InitFails, disk
  <2>1. TypeOK'
    BY BuiltinsTyped DEF TypeOK, Phase, Kind, Entry
  <2>2. LocalLibrary' /\ EntriesFresh'
    BY LoaderAssumption DEF LocalLibrary, EntriesFresh, OwnedOnce, TypeOK
  <2>3. OwnedOnce'
    BY LoaderAssumption DEF OwnedOnce, LocalLibrary, EntriesFresh, TypeOK, Entry
  <2>4. Covered' /\ RegistryReleased' /\ BuiltinsPresent'
    BY BuiltinsTyped DEF Covered, RegistryReleased, BuiltinsPresent
  <2>5. DefaultsAreBuiltin'
    BY BuiltinsTyped DEF DefaultsAreBuiltin, IsDefault
  <2> QED
    BY <2>1, <2>2, <2>3, <2>4, <2>5
<1>3. CASE SkipEntry
  <2> USE <1>3 DEF SkipEntry, disk
  <2>1. TypeOK'
    BY BuiltinsTyped DEF TypeOK, Phase, Kind, Entry
  <2>2. LocalLibrary' /\ EntriesFresh'
    BY LoaderAssumption DEF LocalLibrary, EntriesFresh, OwnedOnce, TypeOK
  <2>3. OwnedOnce'
    BY LoaderAssumption DEF OwnedOnce, LocalLibrary, EntriesFresh, TypeOK, Entry
  <2>4. Covered' /\ RegistryReleased' /\ BuiltinsPresent'
    BY BuiltinsTyped DEF Covered, RegistryReleased, BuiltinsPresent
  <2>5. DefaultsAreBuiltin'
    BY BuiltinsTyped DEF DefaultsAreBuiltin, IsDefault
  <2> QED
    BY <2>1, <2>2, <2>3, <2>4, <2>5
<1>4. CASE EntryThrows
  <2> USE <1>4 DEF EntryThrows, disk
  <2>1. TypeOK'
    BY BuiltinsTyped DEF TypeOK, Phase, Kind, Entry
  <2>2. LocalLibrary' /\ EntriesFresh'
    BY LoaderAssumption DEF LocalLibrary, EntriesFresh, OwnedOnce, TypeOK
  <2>3. OwnedOnce'
    BY LoaderAssumption DEF OwnedOnce, LocalLibrary, EntriesFresh, TypeOK, Entry
  <2>4. Covered' /\ RegistryReleased' /\ BuiltinsPresent'
    BY BuiltinsTyped DEF Covered, RegistryReleased, BuiltinsPresent
  <2>5. DefaultsAreBuiltin'
    BY BuiltinsTyped DEF DefaultsAreBuiltin, IsDefault
  <2> QED
    BY <2>1, <2>2, <2>3, <2>4, <2>5
<1>5. CASE OpenEntry
  <2> USE <1>5 DEF OpenEntry, disk
  <2>1. TypeOK'
    BY BuiltinsTyped DEF TypeOK, Phase, Kind, Entry
  <2>2. LocalLibrary' /\ EntriesFresh'
    BY LoaderAssumption DEF LocalLibrary, EntriesFresh, OwnedOnce, TypeOK
  <2>3. OwnedOnce'
    BY LoaderAssumption DEF OwnedOnce, LocalLibrary, EntriesFresh, TypeOK, Entry
  <2>4. Covered' /\ RegistryReleased' /\ BuiltinsPresent'
    BY BuiltinsTyped DEF Covered, RegistryReleased, BuiltinsPresent
  <2>5. DefaultsAreBuiltin'
    BY BuiltinsTyped DEF DefaultsAreBuiltin, IsDefault
  <2> QED
    BY <2>1, <2>2, <2>3, <2>4, <2>5
<1>6. CASE RegisterPlugin
  BY <1>6, RegisterKeepsInv DEF RegisterPlugin
<1>7. CASE PluginRefused
  <2> USE <1>7 DEF PluginRefused, disk
  <2>1. TypeOK'
    BY BuiltinsTyped DEF TypeOK, Phase, Kind, Entry
  <2>2. LocalLibrary' /\ EntriesFresh'
    BY LoaderAssumption DEF LocalLibrary, EntriesFresh, OwnedOnce, TypeOK
  <2>3. OwnedOnce'
    BY LoaderAssumption DEF OwnedOnce, LocalLibrary, EntriesFresh, TypeOK, Entry
  <2>4. Covered' /\ RegistryReleased' /\ BuiltinsPresent'
    BY BuiltinsTyped DEF Covered, RegistryReleased, BuiltinsPresent
  <2>5. DefaultsAreBuiltin'
    BY BuiltinsTyped DEF DefaultsAreBuiltin, IsDefault
  <2> QED
    BY <2>1, <2>2, <2>3, <2>4, <2>5
<1>8. CASE RegisterDescriptor
  BY <1>8, RegisterKeepsInv DEF RegisterDescriptor
<1>9. CASE DescriptorRefused
  <2> USE <1>9 DEF DescriptorRefused, disk
  <2>1. TypeOK'
    BY BuiltinsTyped DEF TypeOK, Phase, Kind, Entry
  <2>2. LocalLibrary' /\ EntriesFresh'
    BY LoaderAssumption DEF LocalLibrary, EntriesFresh, OwnedOnce, TypeOK
  <2>3. OwnedOnce'
    BY LoaderAssumption DEF OwnedOnce, LocalLibrary, EntriesFresh, TypeOK, Entry
  <2>4. Covered' /\ RegistryReleased' /\ BuiltinsPresent'
    BY BuiltinsTyped DEF Covered, RegistryReleased, BuiltinsPresent
  <2>5. DefaultsAreBuiltin'
    BY BuiltinsTyped DEF DefaultsAreBuiltin, IsDefault
  <2> QED
    BY <2>1, <2>2, <2>3, <2>4, <2>5
<1>10. CASE ScanTargets
  <2> USE <1>10 DEF ScanTargets, disk
  <2>1. TypeOK'
    BY BuiltinsTyped DEF TypeOK, Phase, Kind, Entry
  <2>2. LocalLibrary' /\ EntriesFresh'
    BY LoaderAssumption DEF LocalLibrary, EntriesFresh, OwnedOnce, TypeOK
  <2>3. OwnedOnce'
    BY LoaderAssumption DEF OwnedOnce, LocalLibrary, EntriesFresh, TypeOK, Entry
  <2>4. Covered' /\ RegistryReleased' /\ BuiltinsPresent'
    BY BuiltinsTyped DEF Covered, RegistryReleased, BuiltinsPresent
  <2>5. DefaultsAreBuiltin'
    BY BuiltinsTyped DEF DefaultsAreBuiltin, IsDefault
  <2> QED
    BY <2>1, <2>2, <2>3, <2>4, <2>5
<1>11. CASE RunCommand
  <2> USE <1>11 DEF RunCommand, disk
  <2>1. TypeOK'
    BY BuiltinsTyped DEF TypeOK, Phase, Kind, Entry
  <2>2. LocalLibrary' /\ EntriesFresh'
    BY LoaderAssumption DEF LocalLibrary, EntriesFresh, OwnedOnce, TypeOK
  <2>3. OwnedOnce'
    BY LoaderAssumption DEF OwnedOnce, LocalLibrary, EntriesFresh, TypeOK, Entry
  <2>4. Covered' /\ RegistryReleased' /\ BuiltinsPresent'
    BY BuiltinsTyped DEF Covered, RegistryReleased, BuiltinsPresent
  <2>5. DefaultsAreBuiltin'
    BY BuiltinsTyped DEF DefaultsAreBuiltin, IsDefault
  <2> QED
    BY <2>1, <2>2, <2>3, <2>4, <2>5
<1>12. CASE Shutdown
  <2> USE <1>12 DEF Shutdown, disk
  <2>1. TypeOK'
    BY BuiltinsTyped DEF TypeOK, Phase, Kind, Entry
  <2>2. LocalLibrary' /\ EntriesFresh'
    BY LoaderAssumption DEF LocalLibrary, EntriesFresh, OwnedOnce, TypeOK
  <2>3. OwnedOnce'
    BY LoaderAssumption DEF OwnedOnce, LocalLibrary, EntriesFresh, TypeOK, Entry
  <2>4. Covered' /\ RegistryReleased' /\ BuiltinsPresent'
    BY BuiltinsTyped DEF Covered, RegistryReleased, BuiltinsPresent
  <2>5. DefaultsAreBuiltin'
    BY BuiltinsTyped DEF DefaultsAreBuiltin, IsDefault
  <2> QED
    BY <2>1, <2>2, <2>3, <2>4, <2>5
<1>13. CASE UnloadHandle
  <2> USE <1>13 DEF UnloadHandle, disk
  <2>1. TypeOK'
    BY BuiltinsTyped DEF TypeOK, Phase, Kind, Entry
  <2>2. LocalLibrary' /\ EntriesFresh'
    BY LoaderAssumption DEF LocalLibrary, EntriesFresh, OwnedOnce, TypeOK
  <2>3. OwnedOnce'
    BY LoaderAssumption DEF OwnedOnce, LocalLibrary, EntriesFresh, TypeOK, Entry
  <2>4. Covered' /\ RegistryReleased' /\ BuiltinsPresent'
    BY BuiltinsTyped DEF Covered, RegistryReleased, BuiltinsPresent
  <2>5. DefaultsAreBuiltin'
    BY BuiltinsTyped DEF DefaultsAreBuiltin, IsDefault
  <2> QED
    BY <2>1, <2>2, <2>3, <2>4, <2>5
<1>14. CASE Exit
  <2> USE <1>14 DEF Exit, disk
  <2>1. TypeOK'
    BY BuiltinsTyped DEF TypeOK, Phase, Kind, Entry
  <2>2. LocalLibrary' /\ EntriesFresh'
    BY LoaderAssumption DEF LocalLibrary, EntriesFresh, OwnedOnce, TypeOK
  <2>3. OwnedOnce'
    BY LoaderAssumption DEF OwnedOnce, LocalLibrary, EntriesFresh, TypeOK, Entry
  <2>4. Covered' /\ RegistryReleased' /\ BuiltinsPresent'
    BY BuiltinsTyped DEF Covered, RegistryReleased, BuiltinsPresent
  <2>5. DefaultsAreBuiltin'
    BY BuiltinsTyped DEF DefaultsAreBuiltin, IsDefault
  <2> QED
    BY <2>1, <2>2, <2>3, <2>4, <2>5
<1>15. CASE UNCHANGED vars
  BY <1>15 DEF vars, disk, TypeOK, LocalLibrary, EntriesFresh, OwnedOnce, Covered,
               RegistryReleased, BuiltinsPresent, DefaultsAreBuiltin, IsDefault
<1> QED
  BY <1>1, <1>2, <1>3, <1>4, <1>5, <1>6, <1>7, <1>8, <1>9, <1>10, <1>11, <1>12, <1>13, <1>14, <1>15 DEF Next

THEOREM LoaderInvariant == Spec => []LoaderInv
BY InitInv, NextInv, PTL DEF Spec

-----------------------------------------------------------------------------
(***************************************************************************)
(* Every variable of the loader keeps its type.                            *)
(***************************************************************************)
THEOREM TypeCorrect == Spec => []TypeOK
<1>1. LoaderInv => TypeOK
  BY DEF LoaderInv
<1> QED
  BY <1>1, LoaderInvariant, PTL

(***************************************************************************)
(* No registered descriptor ever points into an image that is not mapped:  *)
(* what main keeps in g_loaded_plugin_handles always covers the registry.  *)
(***************************************************************************)
THEOREM DescriptorsStayMapped == Spec => []NoDanglingDescriptor
<1>1. LoaderInv => NoDanglingDescriptor
  BY DEF LoaderInv, Covered, OwnedOnce, NoDanglingDescriptor, Mapped
<1> QED
  BY <1>1, LoaderInvariant, PTL

(***************************************************************************)
(* Every library object is the local one or a kept one, never both.        *)
(***************************************************************************)
THEOREM LibrariesOwnedOnce == Spec => []OwnedOnce
<1>1. LoaderInv => OwnedOnce
  BY DEF LoaderInv
<1> QED
  BY <1>1, LoaderInvariant, PTL

(***************************************************************************)
(* No plugin takes the place of a built-in default.                        *)
(***************************************************************************)
THEOREM DefaultsNeverReplaced == Spec => []DefaultsAreBuiltin
<1>1. LoaderInv => DefaultsAreBuiltin
  BY DEF LoaderInv
<1> QED
  BY <1>1, LoaderInvariant, PTL

-----------------------------------------------------------------------------
(***************************************************************************)
(* Kept handles and plugin descriptors go in pairs.  Both sets are finite  *)
(* because they grow by one element at a time.                             *)
(***************************************************************************)
Active == phase \in {"scan", "plugin", "descriptor", "command"}

PairedInv ==
    /\ Active => /\ IsFiniteSet(handles)
                 /\ IsFiniteSet(registry \ Builtins)
                 /\ Cardinality(handles) = Cardinality(registry \ Builtins)
    /\ phase = "start" => handles = {}

LEMMA RegisterKeepsPaired ==
    ASSUME LoaderInv, PairedInv, phase \in {"plugin", "descriptor"},
           NEW n, Register(n)
    PROVE  PairedInv'
<1> DEFINE d == [kind |-> kind, name |-> n, image |-> file[lib]]
           plugins == registry \ Builtins
<1>1. /\ IsFiniteSet(handles) /\ IsFiniteSet(plugins)
      /\ Cardinality(handles) = Cardinality(plugins)
  BY DEF PairedInv, Active
<1>2. lib \notin handles
  BY DEF LoaderInv, OwnedOnce
<1>3. d \notin registry
  BY DEF Register, Accepts, Taken
<1>4. d \notin Builtins
  BY BuiltinsTyped, LoaderAssumption DEF LoaderInv, LocalLibrary
<1>5. registry' \ Builtins = plugins \cup {d}
  BY <1>4 DEF Register
<1>6. /\ IsFiniteSet(handles \cup {lib})
      /\ Cardinality(handles \cup {lib}) = Cardinality(handles) + 1
  BY <1>1, <1>2, FS_AddElement
<1>7. /\ IsFiniteSet(plugins \cup {d})
      /\ Cardinality(plugins \cup {d}) = Cardinality(plugins) + 1
  BY <1>1, <1>3, FS_AddElement
<1>8. handles' = handles \cup {lib} /\ phase' = "scan"
  BY DEF Register
<1>9. Builtins' = Builtins
  BY DEF Builtins
<1> QED
  BY <1>1, <1>5, <1>6, <1>7, <1>8, <1>9 DEF PairedInv, Active

LEMMA NextPaired == LoaderInv /\ PairedInv /\ [Next]_vars => PairedInv'
<1> SUFFICES ASSUME LoaderInv, PairedInv, [Next]_vars PROVE PairedInv'
  OBVIOUS
<1>1. CASE InitLibrary
  BY <1>1, FS_EmptySet DEF InitLibrary, PairedInv, Active, Builtins
<1>2. CASE RegisterPlugin
  BY <1>2, RegisterKeepsPaired DEF RegisterPlugin
<1>3. CASE RegisterDescriptor
  BY <1>3, RegisterKeepsPaired DEF RegisterDescriptor
<1>4. CASE InitFails \/ EntryThrows \/ Shutdown \/ UnloadHandle \/ Exit
  BY <1>4 DEF InitFails, EntryThrows, Shutdown, UnloadHandle, Exit, PairedInv,
              Active
<1>5. CASE SkipEntry \/ OpenEntry \/ PluginRefused \/ DescriptorRefused
           \/ ScanTargets \/ RunCommand \/ UNCHANGED vars
  BY <1>5 DEF SkipEntry, OpenEntry, PluginRefused, DescriptorRefused,
              ScanTargets, RunCommand, vars, PairedInv, Active, Builtins
<1> QED
  BY <1>1, <1>2, <1>3, <1>4, <1>5 DEF Next

(***************************************************************************)
(* While the registry is in use, main keeps exactly one handle for every   *)
(* descriptor that came from a plugin.                                     *)
(***************************************************************************)
THEOREM HandlesMatchPlugins == Spec => []OneHandlePerPlugin
<1>1. Init => PairedInv
  BY DEF Init, PairedInv, Active
<1>2. PairedInv => OneHandlePerPlugin
  BY DEF PairedInv, Active, OneHandlePerPlugin
<1> QED
  BY <1>1, <1>2, NextPaired, LoaderInvariant, PTL DEF Spec

-----------------------------------------------------------------------------
(***************************************************************************)
(* The entries of directory k the loop is done with are listed.            *)
(***************************************************************************)
Done(k) ==
    IF k = kind THEN EntriesOf(k) \ (pending \cup {lib})
    ELSE IF kind = "target" THEN EntriesOf(k) ELSE {}

ListedInv ==
    /\ Active => \A k \in Kind : \A e \in Done(k) :
                    file[e] \in Image => Listed(k, e)
    /\ phase = "descriptor" => ~Accepts(kind, Offered("plugin"))
    /\ phase = "command" => kind = "target" /\ pending = {}
    /\ phase = "start" => kind = "method"

\* A name the registry refused is no name, or is in it already.
LEMMA RefusedIsListed ==
    ASSUME TypeOK, NEW k \in Kind, NEW e \in Entry, file[e] \in Image,
           NEW s \in {"plugin", "descriptor"},
           ~Accepts(k, exports[file[e]][<<k, s>>])
    PROVE  LET n == exports[file[e]][<<k, s>>]
           IN  n = Unusable \/ (n # Unusable /\ Taken(k, n))
<1>1. exports[file[e]] \in [Symbol -> Exported]
  BY LoaderAssumption DEF TypeOK
<1>2. exports[file[e]][<<k, s>>] \in Exported
  BY <1>1 DEF Symbol
<1> QED
  BY <1>2 DEF Accepts, Exported

\* What is listed stays listed while the registry grows.
LEMMA ListedStays ==
    ASSUME NEW k, NEW e, Listed(k, e), registry \subseteq registry',
           UNCHANGED disk
    PROVE  Listed(k, e)'
BY DEF Listed, Taken, disk

\* What has been registered can be found under its name.
LEMMA RegisterAdds ==
    ASSUME NEW n, Register(n)
    PROVE  n # Unusable /\ \E d \in registry' : d.kind = kind /\ d.name = n
<1> DEFINE d == [kind |-> kind, name |-> n, image |-> file[lib]]
<1>1. d \in registry' /\ d.kind = kind /\ d.name = n
  BY DEF Register
<1>2. n # Unusable
  BY LoaderAssumption DEF Register, Accepts
<1> QED
  BY <1>1, <1>2

(***************************************************************************)
(* A step that lets the registry grow keeps what is done with listed, when *)
(* each entry it is newly done with is passed over or listed.              *)
(***************************************************************************)
LEMMA DoneStaysListed ==
    ASSUME ListedInv, Active, UNCHANGED disk, registry \subseteq registry',
           \A k \in Kind : \A e \in Done(k)' :
                file[e] \in Image => e \in Done(k) \/ Listed(k, e)'
    PROVE  \A k \in Kind : \A e \in Done(k)' :
                file'[e] \in Image => Listed(k, e)'
<1> SUFFICES ASSUME NEW k \in Kind, NEW e \in Done(k)', file'[e] \in Image
             PROVE  Listed(k, e)'
  OBVIOUS
<1>1. file[e] \in Image
  BY DEF disk
<1>2. CASE e \in Done(k)
  <2>1. Listed(k, e)
    BY <1>1, <1>2 DEF ListedInv
  <2> QED
    BY <2>1, ListedStays
<1> QED
  BY <1>1, <1>2

(***************************************************************************)
(* The loop is done with the library at hand, listed or of no use to it.   *)
(***************************************************************************)
LEMMA LibraryDone ==
    ASSUME ListedInv, phase \in {"plugin", "descriptor"},
           phase' = "scan", lib' = NoEntry, UNCHANGED <<disk, kind, pending>>,
           registry \subseteq registry',
           \A k, e : k = kind /\ e = lib => Listed(k, e)'
    PROVE  ListedInv'
<1>1. \A k \in Kind : \A e \in Done(k)' :
            e \in Done(k) \/ (k = kind /\ e = lib)
  BY DEF Done, EntriesOf
<1>2. \A k \in Kind : \A e \in Done(k)' :
            file[e] \in Image => e \in Done(k) \/ Listed(k, e)'
  BY <1>1
<1>3. Active
  BY DEF Active
<1>4. \A k \in Kind : \A e \in Done(k)' : file'[e] \in Image => Listed(k, e)'
  BY <1>2, <1>3, DoneStaysListed
<1> QED
  BY <1>4 DEF ListedInv

LEMMA NextListed == LoaderInv /\ ListedInv /\ [Next]_vars => ListedInv'
<1> SUFFICES ASSUME LoaderInv, ListedInv, [Next]_vars PROVE ListedInv'
  OBVIOUS
<1> DEFINE Kept == \A k \in Kind : \A e \in Done(k)' :
                        file'[e] \in Image => Listed(k, e)'
<1>1. CASE InitLibrary
  BY <1>1 DEF InitLibrary, ListedInv, Active, Done, EntriesOf, Kind
<1>2. CASE InitFails \/ EntryThrows \/ Shutdown \/ UnloadHandle \/ Exit
  BY <1>2 DEF InitFails, EntryThrows, Shutdown, UnloadHandle, Exit, ListedInv,
              Active
<1>3. CASE SkipEntry
  <2>1. /\ UNCHANGED <<disk, registry, phase>> /\ phase = "scan" /\ Active
        /\ \A k \in Kind : \A e \in Done(k)' : file[e] \in Image => e \in Done(k)
    BY <1>3, LoaderAssumption DEF SkipEntry, Done, EntriesOf, Active
  <2>2. Kept
    BY <2>1, DoneStaysListed
  <2> QED
    BY <2>1, <2>2 DEF ListedInv
<1>4. CASE OpenEntry
  <2>1. /\ UNCHANGED <<disk, registry>> /\ phase' = "plugin" /\ Active
        /\ \A k \in Kind : \A e \in Done(k)' : e \in Done(k)
    BY <1>4, LoaderAssumption DEF OpenEntry, Done, EntriesOf, Entry, LoaderInv,
                                  LocalLibrary, Active
  <2>2. Kept
    BY <2>1, DoneStaysListed
  <2> QED
    BY <2>1, <2>2 DEF ListedInv
<1>5. CASE PluginRefused
  <2>1. /\ UNCHANGED <<disk, registry>> /\ phase' = "descriptor" /\ Active
        /\ \A k \in Kind : \A e \in Done(k)' : e \in Done(k)
    BY <1>5 DEF PluginRefused, Done, EntriesOf, Active
  <2>2. (~Accepts(kind, Offered("plugin")))'
    BY <1>5 DEF PluginRefused, Accepts, Taken, Offered, disk
  <2>3. Kept
    BY <2>1, DoneStaysListed
  <2> QED
    BY <2>1, <2>2, <2>3 DEF ListedInv
<1>6. CASE RegisterPlugin
  <2>1. /\ phase = "plugin" /\ phase' = "scan" /\ lib' = NoEntry
        /\ UNCHANGED <<disk, kind, pending>> /\ registry \subseteq registry'
        /\ \E d \in registry' : d.kind = kind /\ d.name = Offered("plugin")
        /\ Offered("plugin") # Unusable
    BY <1>6, RegisterAdds DEF RegisterPlugin, Register
  <2>2. \A k, e : k = kind /\ e = lib => Listed(k, e)'
    BY <2>1 DEF Listed, Offered, Taken, disk
  <2> QED
    BY <2>1, <2>2, LibraryDone
<1>7. CASE RegisterDescriptor \/ DescriptorRefused
  <2>1. /\ phase = "descriptor" /\ phase' = "scan" /\ lib' = NoEntry
        /\ UNCHANGED <<disk, kind, pending>> /\ registry \subseteq registry'
        /\ lib \in Entry /\ file[lib] \in Image /\ kind \in Kind
    BY <1>7 DEF RegisterDescriptor, DescriptorRefused, Register, LoaderInv,
                LocalLibrary, TypeOK
  <2>2. Offered("plugin") = Unusable
            \/ (Offered("plugin") # Unusable /\ Taken(kind, Offered("plugin")))
    BY <2>1, RefusedIsListed DEF ListedInv, LoaderInv, Offered
  <2>3. \/ Offered("descriptor") = Unusable
        \/ /\ Offered("descriptor") # Unusable
           /\ \E d \in registry' :
                d.kind = kind /\ d.name = Offered("descriptor")
    <3>1. CASE RegisterDescriptor
      BY <3>1, RegisterAdds DEF RegisterDescriptor
    <3>2. CASE DescriptorRefused
      BY <2>1, <3>2, RefusedIsListed DEF DescriptorRefused, LoaderInv, Offered,
                                         Taken
    <3> QED
      BY <1>7, <3>1, <3>2
  <2>4. \A k, e : k = kind /\ e = lib => Listed(k, e)'
    BY <2>1, <2>2, <2>3 DEF Listed, Offered, Taken, disk
  <2> QED
    BY <2>1, <2>4, LibraryDone
<1>8. CASE ScanTargets
  <2>1. /\ UNCHANGED <<disk, registry, phase>> /\ phase = "scan" /\ Active
        /\ \A k \in Kind : \A e \in Done(k)' : e \in Done(k)
    BY <1>8, LoaderAssumption DEF ScanTargets, Done, EntriesOf, Entry, Kind,
                                  LoaderInv, LocalLibrary, Active
  <2>2. Kept
    BY <2>1, DoneStaysListed
  <2> QED
    BY <2>1, <2>2 DEF ListedInv
<1>9. CASE RunCommand
  <2>1. /\ UNCHANGED <<disk, registry, kind, pending>>
        /\ phase' = "command" /\ Active
        /\ kind = "target" /\ pending = {}
        /\ \A k \in Kind : \A e \in Done(k)' : e \in Done(k)
    BY <1>9 DEF RunCommand, Done, EntriesOf, Active
  <2>2. Kept
    BY <2>1, DoneStaysListed
  <2> QED
    BY <2>1, <2>2 DEF ListedInv
<1>10. CASE UNCHANGED vars
  BY <1>10 DEF vars, disk, ListedInv, Active, Done, Listed, Taken, Accepts,
               Offered
<1> QED
  BY <1>1, <1>2, <1>3, <1>4, <1>5, <1>6, <1>7, <1>8, <1>9, <1>10 DEF Next

(***************************************************************************)
(* When the command runs, every plugin that loads has the name it offers   *)
(* in the registry, whatever the other plugins are and in whatever order   *)
(* the directories were read.                                              *)
(***************************************************************************)
THEOREM PluginsAreListed == Spec => []InstalledPluginsListed
<1>1. Init => ListedInv
  BY DEF Init, ListedInv, Active
<1>2. LoaderInv /\ ListedInv => InstalledPluginsListed
  <2> SUFFICES ASSUME LoaderInv, ListedInv, phase = "command",
                      NEW k \in Kind, NEW e \in EntriesOf(k), file[e] \in Image
               PROVE  Listed(k, e)
    BY DEF InstalledPluginsListed
  <2>1. e \in Done(k)
    BY LoaderAssumption DEF ListedInv, LoaderInv, LocalLibrary, Done, EntriesOf,
                            Kind, Entry
  <2> QED
    BY <2>1 DEF ListedInv, Active
<1> QED
  BY <1>1, <1>2, NextListed, LoaderInvariant, PTL DEF Spec

-----------------------------------------------------------------------------
(***************************************************************************)
(* Where no two plugins of a directory have a name in common, the registry *)
(* is made of what the entries the loop is done with win, each on its own. *)
(***************************************************************************)
\* The entry at hand is one of the directory being scanned.
InDirectory ==
    /\ Active => pending \subseteq EntriesOf(kind)
    /\ phase \in {"plugin", "descriptor"} => lib \in EntriesOf(kind) /\ lib \notin pending

WonInv ==
    Active => \A x : x \in registry <=>
                \/ x \in Builtins
                \/ \E k \in Kind : \E e \in Done(k) : x \in Won(k, e)

\* Won looks at the disk only.
LEMMA WonStays ==
    ASSUME UNCHANGED disk, NEW k, NEW e
    PROVE  Won(k, e)' = Won(k, e)
BY DEF Won, Useful, Offers, DescriptorOf, disk

\* What an entry wins bears a name it offers.
LEMMA WonIsOffered ==
    ASSUME NEW k, NEW e, NEW x, x \in Won(k, e)
    PROVE  x.kind = k /\ x.name \in Offers(k, e)
BY DEF Won, Useful, DescriptorOf

LEMMA NextInDirectory ==
    LoaderInv /\ ListedInv /\ InDirectory /\ [Next]_vars => InDirectory'
<1> SUFFICES ASSUME LoaderInv, ListedInv, InDirectory, [Next]_vars
             PROVE  InDirectory'
  OBVIOUS
<1>1. CASE InitLibrary \/ InitFails \/ SkipEntry \/ EntryThrows
  BY <1>1 DEF InitLibrary, InitFails, SkipEntry, EntryThrows, InDirectory,
              Active, EntriesOf, ListedInv
<1>2. CASE OpenEntry
  BY <1>2 DEF OpenEntry, InDirectory, Active, EntriesOf
<1>3. CASE RegisterPlugin \/ PluginRefused \/ RegisterDescriptor
           \/ DescriptorRefused
  BY <1>3 DEF RegisterPlugin, PluginRefused, RegisterDescriptor,
              DescriptorRefused, Register, InDirectory, Active, EntriesOf
<1>4. CASE ScanTargets \/ RunCommand \/ Shutdown \/ UnloadHandle \/ Exit
  BY <1>4 DEF ScanTargets, RunCommand, Shutdown, UnloadHandle, Exit,
              InDirectory, Active, EntriesOf
<1>5. CASE UNCHANGED vars
  BY <1>5 DEF vars, InDirectory, Active, EntriesOf
<1> QED
  BY <1>1, <1>2, <1>3, <1>4, <1>5 DEF Next

(***************************************************************************)
(* Without a clash the registry takes a name of the library at hand if and *)
(* only if it is one the entry offers.                                     *)
(***************************************************************************)
LEMMA AcceptsOffered ==
    ASSUME LoaderInv, InDirectory, WonInv, NoClash,
           phase \in {"plugin", "descriptor"},
           NEW s \in {"plugin", "descriptor"}
    PROVE  Accepts(kind, Offered(s)) <=> Useful(kind, lib, s)
<1> DEFINE n == Offered(s)
<1>1. /\ kind \in Kind /\ lib \in EntriesOf(kind) /\ file[lib] \in Image
      /\ lib \in Entry /\ Active /\ lib \notin Done(kind)
  BY DEF LoaderInv, TypeOK, LocalLibrary, InDirectory, Active, Done
<1>2. n = exports[file[lib]][<<kind, s>>] /\ n \in Exported
  <2>1. exports[file[lib]] \in [Symbol -> Exported]
    BY <1>1, LoaderAssumption DEF LoaderInv, TypeOK
  <2> QED
    BY <1>1, <2>1 DEF Symbol, Offered
<1>3. ASSUME Accepts(kind, n) PROVE Useful(kind, lib, s)
  <2>1. ~IsDefault([kind |-> kind, name |-> n, image |-> BuiltinImage])
    BY <1>1, <1>3, AcceptedIsNew DEF LoaderInv
  <2> QED
    BY <1>1, <1>2, <1>3, <2>1, LoaderAssumption
    DEF Useful, Offers, IsDefault, Accepts
<1>4. ASSUME Useful(kind, lib, s) PROVE Accepts(kind, n)
  <2>1. n \in Offers(kind, lib)
    BY <1>2, <1>4 DEF Useful
  <2>2. n \in Name
    BY <1>1, <1>2, <2>1 DEF Offers, Exported
  <2>3. ASSUME NEW x \in registry, x.kind = kind, x.name = n PROVE FALSE
    <3>1. CASE x \in Builtins
      BY <1>1, <2>1, <2>3, <3>1 DEF Builtins, Offers, Kind
    <3>2. CASE \E k \in Kind : \E e \in Done(k) : x \in Won(k, e)
      <4>1. PICK k \in Kind : \E e \in Done(k) : x \in Won(k, e)
        BY <3>2
      <4> PICK e \in Done(k) : x \in Won(k, e)
        BY <4>1
      <4>2. k = kind /\ n \in Offers(kind, e)
        BY <2>3, <4>1, WonIsOffered
      <4>3. e \in EntriesOf(kind) /\ e # lib
        BY <1>1, <4>1, <4>2 DEF Done
      <4> QED
        BY <1>1, <2>1, <4>2, <4>3 DEF NoClash
    <3> QED
      BY <1>1, <2>3, <3>1, <3>2 DEF WonInv
  <2> QED
    BY <2>2, <2>3 DEF Accepts, Taken
<1> QED
  BY <1>3, <1>4

(***************************************************************************)
(* A step after which the loop is done with the same entries, but for one  *)
(* that wins nothing, and that leaves the registry alone.                  *)
(***************************************************************************)
LEMMA NothingWon ==
    ASSUME WonInv, Active, UNCHANGED <<disk, registry>>,
           \A k \in Kind : Done(k) \subseteq Done(k)',
           \A k \in Kind : \A e \in Done(k)' \ Done(k) : \A x : x \notin Won(k, e)
    PROVE  WonInv'
<1>1. \A x : x \in registry <=>
            \/ x \in Builtins
            \/ \E k \in Kind : \E e \in Done(k) : x \in Won(k, e)
  BY DEF WonInv
<1>2. ASSUME NEW x
      PROVE  (\E k \in Kind : \E e \in Done(k) : x \in Won(k, e))
                <=> (\E k \in Kind : \E e \in Done(k)' : x \in Won(k, e)')
  BY WonStays
<1>3. Builtins' = Builtins
  BY DEF Builtins
<1> QED
  BY <1>1, <1>2, <1>3 DEF WonInv

(***************************************************************************)
(* The loop is done with the library at hand, and the registry has grown   *)
(* by what its entry wins.                                                 *)
(***************************************************************************)
LEMMA LibraryWon ==
    ASSUME LoaderInv, InDirectory, WonInv, phase \in {"plugin", "descriptor"},
           phase' = "scan", lib' = NoEntry, UNCHANGED <<disk, kind, pending>>,
           \A x : x \in registry' <=> x \in registry \/ x \in Won(kind, lib)
    PROVE  WonInv'
<1>1. /\ kind \in Kind /\ lib \in EntriesOf(kind) /\ lib \notin pending /\ Active
      /\ NoEntry \notin Entry /\ EntriesOf(kind) \subseteq Entry
  BY LoaderAssumption
  DEF LoaderInv, TypeOK, InDirectory, Active, EntriesOf, Entry
<1>2. \A k : \A e : e \in Done(k)' <=> e \in Done(k) \/ (k = kind /\ e = lib)
  BY <1>1 DEF Done, EntriesOf
<1>3. \A x : x \in registry <=>
            \/ x \in Builtins
            \/ \E k \in Kind : \E e \in Done(k) : x \in Won(k, e)
  BY <1>1 DEF WonInv
<1>4. ASSUME NEW x
      PROVE  (\E k \in Kind : \E e \in Done(k)' : x \in Won(k, e)')
                <=> \/ \E k \in Kind : \E e \in Done(k) : x \in Won(k, e)
                    \/ x \in Won(kind, lib)
  BY <1>1, <1>2, WonStays
<1>5. Builtins' = Builtins
  BY DEF Builtins
<1> QED
  BY <1>3, <1>4, <1>5 DEF WonInv

LEMMA NextWon ==
    LoaderInv /\ ListedInv /\ InDirectory /\ WonInv /\ NoClash /\ [Next]_vars
        => WonInv'
<1> SUFFICES ASSUME LoaderInv, ListedInv, InDirectory, WonInv, NoClash,
                    [Next]_vars
             PROVE  WonInv'
  OBVIOUS
<1>1. CASE InitLibrary
  <2>1. /\ registry' = Builtins /\ Builtins' = Builtins
        /\ \A k \in Kind : Done(k)' = {}
    BY <1>1 DEF InitLibrary, ListedInv, Done, EntriesOf, Kind, Builtins
  <2> QED
    BY <2>1 DEF WonInv
<1>2. CASE InitFails \/ EntryThrows \/ Shutdown \/ UnloadHandle \/ Exit
  BY <1>2 DEF InitFails, EntryThrows, Shutdown, UnloadHandle, Exit, WonInv,
              Active
<1>3. CASE SkipEntry
  <2>1. /\ UNCHANGED <<disk, registry>> /\ Active
        /\ \A k \in Kind : Done(k) \subseteq Done(k)'
        /\ \A k \in Kind : \A e \in Done(k)' \ Done(k) : file[e] = Skipped
    BY <1>3, LoaderAssumption DEF SkipEntry, Done, EntriesOf, Active
  <2>2. \A k \in Kind : \A e \in Done(k)' \ Done(k) : \A x : x \notin Won(k, e)
    BY <2>1, LoaderAssumption DEF Won, Useful
  <2> QED
    BY <2>1, <2>2, NothingWon
<1>4. CASE OpenEntry \/ PluginRefused \/ RunCommand
  <2>1. UNCHANGED <<disk, registry>> /\ Active
    BY <1>4 DEF OpenEntry, PluginRefused, RunCommand, Active
  <2>2. \A k \in Kind : Done(k)' = Done(k)
    <3>1. CASE OpenEntry
      BY <3>1, LoaderAssumption DEF OpenEntry, Done, EntriesOf, Entry,
                                    LoaderInv, LocalLibrary
    <3>2. CASE PluginRefused \/ RunCommand
      BY <3>2 DEF PluginRefused, RunCommand, Done, EntriesOf
    <3> QED
      BY <1>4, <3>1, <3>2
  <2> QED
    BY <2>1, <2>2, NothingWon
<1>5. CASE RegisterPlugin
  <2>1. Useful(kind, lib, "plugin")
    BY <1>5, AcceptsOffered DEF RegisterPlugin, Register
  <2>2. registry' = registry \cup {DescriptorOf(kind, lib, "plugin")}
    BY <1>5 DEF RegisterPlugin, Register, Offered, DescriptorOf
  <2>3. \A x : x \in registry' <=> x \in registry \/ x \in Won(kind, lib)
    BY <2>1, <2>2 DEF Won
  <2> QED
    BY <1>5, <2>3, LibraryWon DEF RegisterPlugin, Register
<1>6. CASE RegisterDescriptor \/ DescriptorRefused
  <2>1. phase = "descriptor" /\ ~Useful(kind, lib, "plugin")
    BY <1>6, AcceptsOffered DEF RegisterDescriptor, DescriptorRefused, ListedInv
  <2>2. \A x : x \in registry' <=> x \in registry \/ x \in Won(kind, lib)
    <3>1. CASE RegisterDescriptor
      <4>1. Useful(kind, lib, "descriptor")
        BY <3>1, AcceptsOffered DEF RegisterDescriptor, Register
      <4>2. registry' = registry \cup {DescriptorOf(kind, lib, "descriptor")}
        BY <3>1 DEF RegisterDescriptor, Register, Offered, DescriptorOf
      <4> QED
        BY <2>1, <4>1, <4>2 DEF Won
    <3>2. CASE DescriptorRefused
      <4>1. ~Useful(kind, lib, "descriptor") /\ registry' = registry
        BY <3>2, AcceptsOffered DEF DescriptorRefused
      <4> QED
        BY <2>1, <4>1 DEF Won
    <3> QED
      BY <1>6, <3>1, <3>2
  <2>3. phase' = "scan" /\ lib' = NoEntry /\ UNCHANGED <<disk, kind, pending>>
    BY <1>6 DEF RegisterDescriptor, DescriptorRefused, Register
  <2> QED
    BY <2>1, <2>2, <2>3, LibraryWon
<1>7. CASE ScanTargets
  <2>1. UNCHANGED <<disk, registry>> /\ Active
    BY <1>7 DEF ScanTargets, Active
  <2>2. \A k \in Kind : Done(k)' = Done(k)
    BY <1>7, LoaderAssumption DEF ScanTargets, Done, EntriesOf, Entry, Kind,
                                  LoaderInv, LocalLibrary
  <2> QED
    BY <2>1, <2>2, NothingWon
<1>8. CASE UNCHANGED vars
  <2>1. UNCHANGED <<disk, registry, phase>> /\ \A k \in Kind : Done(k)' = Done(k)
    BY <1>8 DEF vars, disk, Done, EntriesOf
  <2>2. CASE Active
    BY <2>1, <2>2, NothingWon
  <2>3. CASE ~Active
    BY <2>1, <2>3 DEF WonInv, Active
  <2> QED
    BY <2>2, <2>3
<1> QED
  BY <1>1, <1>2, <1>3, <1>4, <1>5, <1>6, <1>7, <1>8 DEF Next

(***************************************************************************)
(* The invariant of one process whose directories hold no clash, and what  *)
(* it means for the registry at the command: it can be read off the disk.  *)
(***************************************************************************)
ReadInv == LoaderInv /\ ListedInv /\ InDirectory /\ (NoClash => WonInv)

LEMMA InitRead == Init => ReadInv
<1>1. Init => ListedInv
  BY DEF Init, ListedInv, Active
<1>2. Init => InDirectory /\ WonInv
  BY DEF Init, InDirectory, WonInv, Active
<1> QED
  BY <1>1, <1>2, InitInv DEF ReadInv

LEMMA NextRead == ReadInv /\ [Next]_vars => ReadInv'
<1> SUFFICES ASSUME ReadInv, [Next]_vars PROVE ReadInv'
  OBVIOUS
<1>1. LoaderInv' /\ ListedInv' /\ InDirectory'
  BY NextInv, NextListed, NextInDirectory DEF ReadInv
<1>2. UNCHANGED disk
  BY DEF Next, vars, disk, InitLibrary, InitFails, SkipEntry, EntryThrows,
         OpenEntry, RegisterPlugin, PluginRefused, RegisterDescriptor,
         DescriptorRefused, Register, ScanTargets, RunCommand, Shutdown,
         UnloadHandle, Exit
<1>3. NoClash' <=> NoClash
  BY <1>2 DEF NoClash, Offers, disk, EntriesOf
<1>4. NoClash => WonInv'
  BY NextWon DEF ReadInv
<1> QED
  BY <1>1, <1>3, <1>4 DEF ReadInv

LEMMA RegistryOfDisk ==
    ASSUME ReadInv, NoClash, phase = "command"
    PROVE  registry = FromDisk
<1>1. \A k \in Kind : Done(k) = EntriesOf(k)
  BY LoaderAssumption DEF ReadInv, ListedInv, LoaderInv, LocalLibrary, Done,
                          EntriesOf, Kind, Entry
<1>2. \A x : x \in registry <=>
            \/ x \in Builtins
            \/ \E k \in Kind : \E e \in EntriesOf(k) : x \in Won(k, e)
  BY <1>1 DEF ReadInv, WonInv, Active
<1> QED
  BY <1>2 DEF FromDisk

(***************************************************************************)
(* Where no two plugins of a directory offer the same name, the order the  *)
(* entries are read in does not matter: the registry of every run is the   *)
(* one that can be read off the disk.                                      *)
(***************************************************************************)
THEOREM OrderDoesNotMatter == Spec => []OrderIrrelevantWithoutClash
<1>1. ReadInv => OrderIrrelevantWithoutClash
  BY RegistryOfDisk DEF OrderIrrelevantWithoutClash
<1> QED
  BY <1>1, InitRead, NextRead, PTL DEF Spec

-----------------------------------------------------------------------------
(***************************************************************************)
(* The end.  An entry that is not read yet can be opened, refused by the   *)
(* first symbol, registered or closed, and unloaded: four steps.  Then     *)
(* there are the steps between the directories and after them.             *)
(***************************************************************************)
StepsOfLibrary == IF phase = "plugin" THEN 3 ELSE IF phase = "descriptor" THEN 2 ELSE 0

StepsOfTargets == IF kind = "method" THEN 4 * Cardinality(TargetEntry) + 1 ELSE 0

StepsLeft ==
    CASE phase = "start" ->
            4 * Cardinality(MethodEntry) + 4 * Cardinality(TargetEntry)
                + Cardinality(handles) + 5
      [] phase \in {"scan", "plugin", "descriptor"} ->
            4 * Cardinality(pending) + StepsOfTargets + StepsOfLibrary
                + Cardinality(handles) + 3
      [] phase = "command" -> Cardinality(handles) + 2
      [] phase = "unload"  -> Cardinality(handles) + 1
      [] phase \in {"exited", "failed", "terminated"} -> 0

\* What the directories hold, and what has been read and kept of it, can be counted.
LEMMA Counted ==
    ASSUME IsFiniteSet(Entry), TypeOK
    PROVE  /\ IsFiniteSet(pending) /\ IsFiniteSet(handles)
           /\ Cardinality(pending) \in Nat /\ Cardinality(handles) \in Nat
           /\ Cardinality(MethodEntry) \in Nat /\ Cardinality(TargetEntry) \in Nat
<1>1. /\ pending \subseteq Entry /\ handles \subseteq Entry
      /\ MethodEntry \subseteq Entry /\ TargetEntry \subseteq Entry
  BY DEF TypeOK, Entry
<1> QED
  BY <1>1, FS_Subset, FS_CardinalityType

LEMMA StepsLeftTyped ==
    ASSUME IsFiniteSet(Entry), TypeOK
    PROVE  StepsLeft \in Nat
BY Counted DEF TypeOK, Phase, StepsLeft, StepsOfTargets, StepsOfLibrary

LEMMA StepsFall ==
    ASSUME IsFiniteSet(Entry), LoaderInv, Next
    PROVE  StepsLeft' < StepsLeft
<1> USE DEF StepsLeft, StepsOfTargets, StepsOfLibrary
<1> DEFINE p == Cardinality(pending)
           n == Cardinality(handles)
<1>1. /\ IsFiniteSet(pending) /\ IsFiniteSet(handles) /\ p \in Nat /\ n \in Nat
      /\ Cardinality(MethodEntry) \in Nat /\ Cardinality(TargetEntry) \in Nat
  BY Counted DEF LoaderInv
<1>2. \A e \in pending : Cardinality(pending \ {e}) = p - 1 /\ p >= 1
  BY <1>1, FS_RemoveElement, FS_EmptySet
<1>3. \A e \in handles : Cardinality(handles \ {e}) = n - 1 /\ n >= 1
  BY <1>1, FS_RemoveElement, FS_EmptySet
<1>4. \A e : Cardinality(handles \cup {e}) \in Nat /\ Cardinality(handles \cup {e}) <= n + 1
  <2>1. \A e : e \notin handles => Cardinality(handles \cup {e}) = n + 1
    BY <1>1, FS_AddElement
  <2>2. \A e : e \in handles => handles \cup {e} = handles
    OBVIOUS
  <2> QED
    BY <1>1, <2>1, <2>2
<1> HIDE DEF p, n
<1>5. CASE InitLibrary \/ InitFails
  BY <1>1, <1>5 DEF InitLibrary, InitFails, p, n
<1>6. CASE SkipEntry \/ OpenEntry
  <2>1. PICK e \in pending : pending' = pending \ {e}
    BY <1>6 DEF SkipEntry, OpenEntry
  <2>2. Cardinality(pending') = p - 1 /\ p >= 1
    BY <1>2, <2>1
  <2> QED
    BY <1>1, <1>6, <2>2 DEF SkipEntry, OpenEntry, p, n
<1>7. CASE EntryThrows
  BY <1>1, <1>7 DEF EntryThrows, p, n
<1>8. CASE RegisterPlugin \/ RegisterDescriptor
  <2>1. /\ handles' = handles \cup {lib} /\ phase' = "scan"
        /\ phase \in {"plugin", "descriptor"} /\ kind' = kind /\ pending' = pending
    BY <1>8 DEF RegisterPlugin, RegisterDescriptor, Register
  <2>2. Cardinality(handles') \in Nat /\ Cardinality(handles') <= n + 1
    BY <1>4, <2>1
  <2> QED
    BY <1>1, <2>1, <2>2 DEF p, n
<1>9. CASE PluginRefused \/ DescriptorRefused
  BY <1>1, <1>9 DEF PluginRefused, DescriptorRefused, p, n
<1>10. CASE ScanTargets
  <2>1. p = 0
    BY <1>10, FS_EmptySet DEF ScanTargets, p
  <2> QED
    BY <1>1, <1>10, <2>1 DEF ScanTargets, p, n
<1>11. CASE RunCommand \/ Shutdown
  BY <1>1, <1>11 DEF RunCommand, Shutdown, p, n
<1>12. CASE UnloadHandle
  <2>1. PICK e \in handles : handles' = handles \ {e}
    BY <1>12 DEF UnloadHandle
  <2>2. Cardinality(handles') = n - 1 /\ n >= 1
    BY <1>3, <2>1
  <2> QED
    BY <1>1, <1>12, <2>2 DEF UnloadHandle, p, n
<1>13. CASE Exit
  BY <1>1, <1>13 DEF Exit, p, n
<1> QED
  BY <1>5, <1>6, <1>7, <1>8, <1>9, <1>10, <1>11, <1>12, <1>13 DEF Next

(***************************************************************************)
(* Every step brings the process nearer to its end: whatever the           *)
(* directories hold, in whatever order they are read, the loops over them  *)
(* and over the kept handles are left after finitely many turns            *)
(* (src/src/main.cpp:255-309, 552-784).                                    *)
(***************************************************************************)
THEOREM ProcessRunsOut ==
    ASSUME IsFiniteSet(Entry)
    PROVE  Spec => [](StepsLeft \in Nat) /\ [][StepsLeft' < StepsLeft]_vars
<1>1. LoaderInv => StepsLeft \in Nat
  BY StepsLeftTyped DEF LoaderInv
<1>2. LoaderInv /\ [Next]_vars => [StepsLeft' < StepsLeft]_vars
  BY StepsFall
<1> QED
  BY <1>1, <1>2, LoaderInvariant, PTL DEF Spec

=============================================================================
