---------------------------- MODULE PluginLoader ----------------------------
(***************************************************************************)
(* The life of one `nuperf` process as far as plugins are concerned:       *)
(* nuperf_init, the two directory scans that dlopen every user plugin and  *)
(* offer its descriptor to the registry, the command, nuperf_shutdown, and *)
(* the destruction of the kept library handles after main returns          *)
(* (src/main.cpp).                                                         *)
(*                                                                         *)
(* A descriptor is a pointer into the image of the shared object that      *)
(* exports it.  nuperf-method.h asks that it "must remain valid for the    *)
(* lifetime of the registration", so the question the module answers is    *)
(* whether the library objects main keeps always cover the registry.       *)
(*                                                                         *)
(* The directory is read once, in the order the file system likes: an      *)
(* entry is picked from the set of entries not seen yet.  What the disk    *)
(* holds (file, exports) is chosen by Init and never changes.              *)
(***************************************************************************)
EXTENDS Naturals, FiniteSets

CONSTANTS
    MethodEntry,    \* directory entries of ~/.nuperf/methods
    TargetEntry,    \* directory entries of ~/.nuperf/targets
    Image,          \* shared objects: two entries may lead to one (a symlink)
    Name,           \* descriptor names
    BuiltinMethod,  \* names nuperf_init registers: "stdmeth" ...
    BuiltinTarget,  \* ... and "stddef"
    ExportTable,    \* what an image may export: functions [Symbol -> Exported]
    BuiltinImage,   \* the program itself, never unloaded
    NoEntry,        \* a null std::unique_ptr<dynalo::library>
    Skipped,        \* an entry the filters at the top of the loop pass over
    Unstatable,     \* an entry whose is_regular_file() throws
    Broken,         \* libnuperf-*.so that dlopen refuses
    Unusable        \* an export that yields nothing the registry can accept

Entry == MethodEntry \cup TargetEntry
Kind == {"method", "target"}
Symbol == Kind \X {"plugin", "descriptor"}
Exported == Name \cup {Unusable}
FileState == Image \cup {Skipped, Unstatable, Broken}

ASSUME LoaderAssumption ==
    /\ MethodEntry \cap TargetEntry = {}
    /\ NoEntry \notin Entry
    /\ BuiltinImage \notin Image
    /\ Image \cap {Skipped, Unstatable, Broken} = {}
    /\ Unusable \notin Name
    /\ BuiltinMethod \subseteq Name /\ BuiltinTarget \subseteq Name
    /\ ExportTable \subseteq [Symbol -> Exported]

VARIABLES
    file,      \* what each directory entry leads to
    exports,   \* what each image exports
    phase,     \* where the process is
    kind,      \* the directory being scanned
    pending,   \* its entries the iterator has not delivered yet
    lib,       \* the local `lib`: the entry it was opened for, or NoEntry
    open,      \* the dynalo::library objects alive, by the entry they opened
    handles,   \* g_loaded_plugin_handles
    registry   \* the core's descriptor tables

disk == <<file, exports>>
vars == <<file, exports, phase, kind, pending, lib, open, handles, registry>>

Phase == {"start", "scan", "plugin", "descriptor", "command", "unload",
          "exited", "failed", "terminated"}
Descriptor == [kind : Kind, name : Name, image : Image \cup {BuiltinImage}]

\* is_regular_file() or dynalo::library leaves by an exception.
Throws(e) == file[e] \in {Unstatable, Broken}

EntriesOf(k) == IF k = "method" THEN MethodEntry ELSE TargetEntry

(***************************************************************************)
(* The registry of the core, which is not in the repository.  A name is    *)
(* the "stable unique" key of its kind: a second descriptor of a           *)
(* registered name is refused.                                             *)
(***************************************************************************)
Taken(k, n) == \E d \in registry : d.kind = k /\ d.name = n

\* Defect: the descriptor's null name is not looked for.
AcceptsNull(k, n) == ~Taken(k, n)

\* The descriptor has a name and nuperf_<kind>_register answers NUPERF_OK.
Accepts(k, n) == n \in Name /\ ~Taken(k, n)

Builtins ==
    [kind : {"method"}, name : BuiltinMethod, image : {BuiltinImage}]
        \cup [kind : {"target"}, name : BuiltinTarget, image : {BuiltinImage}]

-----------------------------------------------------------------------------
TypeOK ==
    /\ file \in [Entry -> FileState]
    /\ exports \in [Image -> ExportTable]
    /\ phase \in Phase
    /\ kind \in Kind
    /\ pending \subseteq Entry
    /\ lib \in Entry \cup {NoEntry}
    /\ open \subseteq Entry
    /\ handles \subseteq Entry
    /\ registry \subseteq Descriptor

\* Any content of the two directories; the process has not started yet.
Init ==
    /\ file \in [Entry -> FileState]
    /\ exports \in [Image -> ExportTable]
    /\ phase = "start"
    /\ kind = "method"
    /\ pending = {}
    /\ lib = NoEntry
    /\ open = {}
    /\ handles = {}
    /\ registry = {}

\* Defect: the built-in plugins are not there before the directories are read.
InitWithoutBuiltins ==
    /\ phase = "start"
    /\ phase' = "scan"
    /\ pending' = MethodEntry
    /\ registry' = {}
    /\ UNCHANGED <<disk, kind, lib, open, handles>>

(***************************************************************************)
(* main: nuperf_init registers the built-in plugins before any directory   *)
(* is read.  If it fails, main returns 1 at once.                          *)
(***************************************************************************)
InitLibrary ==
    /\ phase = "start"
    /\ phase' = "scan"
    /\ pending' = MethodEntry
    /\ registry' = Builtins
    /\ UNCHANGED <<disk, kind, lib, open, handles>>

InitFails ==
    /\ phase = "start"
    /\ phase' = "failed"
    /\ UNCHANGED <<disk, kind, pending, lib, open, handles, registry>>

(***************************************************************************)
(* One iteration of the directory loop.  A directory, or a file whose name *)
(* is not libnuperf-<name>.so, is passed over.  is_regular_file() and the  *)
(* constructor of dynalo::library stand outside the try blocks: what they  *)
(* throw leaves main, and the process terminates.                          *)
(***************************************************************************)
SkipEntry ==
    /\ phase = "scan"
    /\ \E e \in pending :
        /\ file[e] = Skipped
        /\ pending' = pending \ {e}
    /\ UNCHANGED <<disk, phase, kind, lib, open, handles, registry>>

EntryThrows ==
    /\ phase = "scan"
    /\ \E e \in pending : Throws(e)
    /\ phase' = "terminated"
    /\ UNCHANGED <<disk, kind, pending, lib, open, handles, registry>>

OpenEntry ==
    /\ phase = "scan"
    /\ \E e \in pending :
        /\ file[e] \in Image
        /\ pending' = pending \ {e}
        /\ lib' = e
        /\ open' = open \cup {e}
    /\ phase' = "plugin"
    /\ UNCHANGED <<disk, kind, handles, registry>>

\* The name a symbol of the open library yields for the scanned directory.
Offered(symbol) == exports[file[lib]][<<kind, symbol>>]

\* Register the offered descriptor and move `lib` into the kept handles.
Register(n) ==
    /\ Accepts(kind, n)
    /\ registry' = registry
            \cup {[kind |-> kind, name |-> n, image |-> file[lib]]}
    /\ handles' = handles \cup {lib}
    /\ lib' = NoEntry
    /\ phase' = "scan"
    /\ UNCHANGED <<disk, kind, pending, open>>

\* Defect: a library whose plugin symbol is refused is dropped at once.
PluginRefusedDropped ==
    /\ phase = "plugin"
    /\ ~Accepts(kind, Offered("plugin"))
    /\ open' = open \ {lib}
    /\ lib' = NoEntry
    /\ phase' = "scan"
    /\ UNCHANGED <<disk, kind, pending, handles, registry>>

(***************************************************************************)
(* The first try block asks for nuperf_<kind>_plugin.  Whatever goes wrong *)
(* (symbol missing, factory null or throwing, name null, name taken) falls *)
(* through to the second, which asks for nuperf_<kind>_descriptor.         *)
(***************************************************************************)
RegisterPlugin ==
    /\ phase = "plugin"
    /\ Register(Offered("plugin"))

PluginRefused ==
    /\ phase = "plugin"
    /\ ~Accepts(kind, Offered("plugin"))
    /\ phase' = "descriptor"
    /\ UNCHANGED <<disk, kind, pending, lib, open, handles, registry>>

\* Defect: the second path registers and forgets to keep the library.
RegisterDescriptorUnkept ==
    /\ phase = "descriptor"
    /\ Accepts(kind, Offered("descriptor"))
    /\ registry' = registry \cup
            {[kind |-> kind, name |-> Offered("descriptor"),
              image |-> file[lib]]}
    /\ open' = open \ {lib}
    /\ lib' = NoEntry
    /\ phase' = "scan"
    /\ UNCHANGED <<disk, kind, pending, handles>>

RegisterDescriptor ==
    /\ phase = "descriptor"
    /\ Register(Offered("descriptor"))

\* Defect: nobody closes the library that was refused.
DescriptorRefusedLeak ==
    /\ phase = "descriptor"
    /\ ~Accepts(kind, Offered("descriptor"))
    /\ lib' = NoEntry
    /\ phase' = "scan"
    /\ UNCHANGED <<disk, kind, pending, open, handles, registry>>

\* Defect: the library is kept whether or not the registry took it.
DescriptorRefusedKept ==
    /\ phase = "descriptor"
    /\ ~Accepts(kind, Offered("descriptor"))
    /\ handles' = handles \cup {lib}
    /\ lib' = NoEntry
    /\ phase' = "scan"
    /\ UNCHANGED <<disk, kind, pending, open, registry>>

\* Defect: a refused library ends the scan of its directory.
DescriptorRefusedBreak ==
    /\ phase = "descriptor"
    /\ ~Accepts(kind, Offered("descriptor"))
    /\ open' = open \ {lib}
    /\ lib' = NoEntry
    /\ pending' = {}
    /\ phase' = "scan"
    /\ UNCHANGED <<disk, kind, handles, registry>>

\* Neither was accepted: ~unique_ptr closes the library at the end of the body.
DescriptorRefused ==
    /\ phase = "descriptor"
    /\ ~Accepts(kind, Offered("descriptor"))
    /\ open' = open \ {lib}
    /\ lib' = NoEntry
    /\ phase' = "scan"
    /\ UNCHANGED <<disk, kind, pending, handles, registry>>

\* load_method_plugins_from_dir returns and main scans the targets directory.
ScanTargets ==
    /\ phase = "scan" /\ kind = "method" /\ pending = {}
    /\ kind' = "target"
    /\ pending' = TargetEntry
    /\ UNCHANGED <<disk, phase, lib, open, handles, registry>>

RunCommand ==
    /\ phase = "scan" /\ kind = "target" /\ pending = {}
    /\ phase' = "command"
    /\ UNCHANGED <<disk, kind, pending, lib, open, handles, registry>>

(***************************************************************************)
(* Every return of main after the scans is preceded by nuperf_shutdown,    *)
(* which releases the registry; g_loaded_plugin_handles is destroyed       *)
(* afterwards, one library at a time, with the other statics.              *)
(***************************************************************************)
Shutdown ==
    /\ phase = "command"
    /\ phase' = "unload"
    /\ registry' = {}
    /\ UNCHANGED <<disk, kind, pending, lib, open, handles>>

UnloadHandle ==
    /\ phase = "unload"
    /\ \E e \in handles :
        /\ handles' = handles \ {e}
        /\ open' = open \ {e}
    /\ UNCHANGED <<disk, phase, kind, pending, lib, registry>>

Exit ==
    /\ phase = "unload" /\ handles = {}
    /\ phase' = "exited"
    /\ UNCHANGED <<disk, kind, pending, lib, open, handles, registry>>

Next ==
    \/ InitLibrary \/ InitFails
    \/ SkipEntry \/ EntryThrows \/ OpenEntry
    \/ RegisterPlugin \/ PluginRefused
    \/ RegisterDescriptor \/ DescriptorRefused
    \/ ScanTargets \/ RunCommand
    \/ Shutdown \/ UnloadHandle \/ Exit

Spec == Init /\ [][Next]_vars

-----------------------------------------------------------------------------
\* The images the process has mapped: dlopen counts, so an image stays mapped
\* as long as one library object opened from it is alive.
Mapped == {file[e] : e \in open} \cup {BuiltinImage}

(***************************************************************************)
(* No registered descriptor dangles: at every moment the image of each     *)
(* descriptor in the registry is mapped, through name clashes, aliases of  *)
(* one image, both factory symbols, and the shutdown order of main.        *)
(***************************************************************************)
NoDanglingDescriptor == \A d \in registry : d.image \in Mapped

(***************************************************************************)
(* Every library object is owned exactly once: it is the local `lib` of    *)
(* the iteration that opened it or one of the kept handles, so none leaks  *)
(* and none is closed twice.                                               *)
(***************************************************************************)
OwnedOnce ==
    /\ open = handles \cup ({lib} \ {NoEntry})
    /\ lib \notin handles

(***************************************************************************)
(* A handle is kept only for a library the registry points into: while     *)
(* the registry is in use there are exactly as many kept handles as        *)
(* descriptors that came from plugins.                                     *)
(***************************************************************************)
OneHandlePerPlugin ==
    phase \in {"scan", "plugin", "descriptor", "command"} =>
        Cardinality(handles) = Cardinality(registry \ Builtins)

(***************************************************************************)
(* METHODS.md: after an install, `list-methods` shows the plugin.  When    *)
(* the command runs, the name offered by each plugin that loads is in the  *)
(* registry, and so is the name its descriptor symbol offers when its      *)
(* plugin symbol is of no use.                                             *)
(***************************************************************************)
Listed(k, e) ==
    LET plugin == exports[file[e]][<<k, "plugin">>]
        descriptor == exports[file[e]][<<k, "descriptor">>]
    IN  \/ plugin # Unusable /\ Taken(k, plugin)
        \/ plugin = Unusable /\ descriptor # Unusable /\ Taken(k, descriptor)
        \/ plugin = Unusable /\ descriptor = Unusable

InstalledPluginsListed ==
    phase = "command" =>
        \A k \in Kind : \A e \in EntriesOf(k) :
            file[e] \in Image => Listed(k, e)

\* The names a directory entry may bring in that nuperf_init has not taken.
Offers(k, e) ==
    IF file[e] \notin Image THEN {}
    ELSE {exports[file[e]][<<k, s>>] : s \in {"plugin", "descriptor"}}
            \ ({Unusable} \cup IF k = "method" THEN BuiltinMethod
                                              ELSE BuiltinTarget)

NoClash ==
    \A k \in Kind : \A e, f \in EntriesOf(k) :
        e # f => Offers(k, e) \cap Offers(k, f) = {}

\* The first of its two names that is any good.
Useful(k, e, s) ==
    file[e] \in Image /\ exports[file[e]][<<k, s>>] \in Offers(k, e)

DescriptorOf(k, e, s) ==
    [kind |-> k, name |-> exports[file[e]][<<k, s>>], image |-> file[e]]

Won(k, e) ==
    IF Useful(k, e, "plugin") THEN {DescriptorOf(k, e, "plugin")}
    ELSE IF Useful(k, e, "descriptor") THEN {DescriptorOf(k, e, "descriptor")}
    ELSE {}

FromDisk ==
    Builtins \cup UNION {UNION {Won(k, e) : e \in EntriesOf(k)} : k \in Kind}

(***************************************************************************)
(* Where no two plugins of a directory offer the same name, the order the  *)
(* entries are read in does not matter: the registry is the built-ins and  *)
(* what each entry wins on its own, which can be read off the disk.        *)
(***************************************************************************)
OrderIrrelevantWithoutClash ==
    phase = "command" /\ NoClash => registry = FromDisk

(***************************************************************************)
(* The defaults cmd_build_run falls back on cannot be replaced by a file   *)
(* in the user's directory: their descriptors are the program's own.       *)
(***************************************************************************)
IsDefault(d) ==
    d.name \in (IF d.kind = "method" THEN BuiltinMethod ELSE BuiltinTarget)

DefaultsAreBuiltin ==
    \A d \in registry : IsDefault(d) => d.image = BuiltinImage

(***************************************************************************)
(* GUIDE.md says of `version` that it "Prints semantic version from        *)
(* nuperf_version()": a command that needs no plugin does not depend on    *)
(* what the files in the plugin directories hold, so a library dlopen      *)
(* refuses is passed over, and only an entry that cannot be stat-ed stops  *)
(* the process.  The code terminates for the refused library too.          *)
(***************************************************************************)
BrokenPluginTolerated ==
    phase = "terminated" => \E e \in Entry : file[e] = Unstatable

=============================================================================
