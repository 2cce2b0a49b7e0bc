# NuPERF in TLA+

Specifications, model-checking configurations and proofs for NuPERF, the
perfect-hash generator of this repository. Each module names the code it models;
`PROJECT.json` maps every definition to the source lines it stands for. Paths
below are relative to the repository.

Contents: 1 the system, 2 modules and plan, 3 the modules one by one, 4 runs,
5 proofs, 6 assumptions and what is left out, 7 disagreements found.

## 1. The system

NuPERF turns a set of keys into a table and a table into source text. A *method*
builds a hash result from a keyset; a *target* writes the result out through a
*sink*. Methods and targets are plugins: two are built in (`stdmeth`, `stddef`),
others are shared objects in `~/.nuperf`. Around them are a C library, a CLI and a
Lua module.

The library core (`src/core/`: keyset, table, registry, init and shutdown) is **not
in the repository** (`.gitignore` excludes it). It appears in the models only through
what its headers and tests promise and how its callers use it.

| Component | State it keeps | Operations | Talks to |
|---|---|---|---|
| Plugin loader, `src/main.cpp` 242-309, 552-560, 782 | `g_loaded_plugin_handles`, the local `lib` of an iteration | scan `methods`, scan `targets`, register, unload at exit | file system, dynalo (dlopen), registry of the core, plugins |
| Build command, `src/main.cpp` 311-462 | keyset and table handles, effective method, target and options | one build, from lines or a structured request, to a file or stdout | core, schema_io, streams |
| `stdmeth`, `src/plugins/stdmeth.cpp` | instances with options, results with tables | create, destroy, set/get option, build, destroy result | called by the core |
| `stddef`, `src/plugins/stddef.cpp` | instances with options | create, destroy, set/get option, emit | called by the core, calls the sink |
| CLI dispatch, `src/main.cpp` 43-240, 511-784 | none beyond one invocation | longest-prefix command match, help, klyspec parsing | loader, build, project init |
| Project init, `src/main.cpp` 464-509 | files of a workspace | write the scaffold | file system |
| schema_io, `src/cli/schema_io.cpp` | none | load, validate, extract a request; dump the schema | SerdeTk |
| Bundled methods and targets, `stdmeth/*`, `stddef/*` | BBHash: instances and results; the others none | as the built-in ones; FCH, BDZ, PTHash and the four targets are placeholders with NULL functions | loaded by the loader, called by the core |
| Lua bindings, `src/lua/*` | keyset and table objects owned by the collector | wrap each call of the C API | core, schema_io |
| Utilities, `src/util/*` | none | read and write a file; FNV-1a and MurmurHash3 | C library |
| SWIG interface, scaffold scripts, examples, docs, tests | none | generated or printed text | - |
| `third_party/` | - | dynalo, Klyspec, IPCtk, SerdeTk | vendored |

Everything runs in one thread. What is hard about the code lies elsewhere:

- **Ownership across libraries.** The registry keeps pointers into images that
  `main` must keep mapped; a table borrows a keyset; a Lua object may be collected
  under a table; results outlive instances. Correct means: no pointer outlives what
  it points to, and everything is released once.
- **Partial failure.** `cmd_build_run` has some fifteen calls that can fail between
  its creates and its return; plugins allocate in several steps; a sink may refuse
  any call. Correct means: all of it is reported and nothing is lost or half done.
- **Order nobody chose.** `directory_iterator` delivers entries in any order, and the
  first plugin of a name wins; two sources of options are applied one after the
  other; defaults are filled in before or after something else is read.
- **Boundaries.** 64-bit numbers are cast to 32 bits, texts are formatted into fixed
  buffers, sizes are asked for in one call and used in the next.

The properties that make each part correct:

| Component | Correct means |
|---|---|
| Plugin loader | descriptors stay mapped; libraries are owned once; installed plugins are listed; defaults cannot be replaced; the result does not depend on the directory order; one bad file does not stop a command that needs no plugin |
| Build command | handles are released on all exits and in order; the core is called only when it may be; the artifact is the one the inputs stand for, whole or not reported as success; it returns |
| `stdmeth` | options are what was asked for; memory balances; keys get distinct entries; `get_option` keeps to its size protocol |
| `stddef` | the sink sees its protocol; OK stands for a whole artifact; the header agrees with itself; options can be saved and restored |
| CLI dispatch | the longest command wins; flags of the command are not taken for help; one source of input |
| Project init | success stands for a complete workspace |
| schema_io | what the published schema describes is accepted and, but for digits of a double, arrives whole; what was validated against it is of its shapes |
| Bundled plugins | the plugin contract of `nuperf-method.h` and `nuperf-target.h`; no exception crosses it |
| Lua bindings | no use of a collected object, in any order of collections; buffers big enough |
| Utilities | a read is the file at some moment; a write that answers without an exception is on disk; the hashes are the published functions |

`PROJECT.json` lists the hazards one by one, at their lines, with the properties that
would catch them.

## 2. Modules and plan

| Module | Models | Proofs | Model-checking module |
|---|---|---|---|
| `Nuperf` | one command line from argv to the exit status: dispatch, help, option parsing, `project init` | `NuperfProofs` | `MCNuperf` |
| `PluginLoader` | one process: init, both scans, the command, shutdown, unloading | `PluginLoaderProofs` | `MCPluginLoader` |
| `LoaderPair` | extends `PluginLoader` with a second copy over the same disk | - | `MCLoaderPair` |
| `Positions` | positions of a sequence in order; what a loop should have collected | `PositionsProofs` | - |
| `BuildCommand` | what `build run` promises (abstract) | - | - |
| `BuildRun` | `cmd_build_run`, one step per call; implements `BuildCommand` | `BuildRunProofs` | `MCBuildRun` |
| `OptionBuffer` | the size protocol of `get_option`, shared by the plugins | - | - |
| `Stdmeth` | the built-in method | `StdmethProofs` | `MCStdmeth` |
| `EmitSink` | the protocol of `nuperf_emit_sink_t` (abstract) | - | - |
| `Stddef` | the built-in target; implements `EmitSink` | `StddefProofs` | `MCStddef` |
| `LuaBindings` | the Lua objects that own handles of the core, and the collector | `LeavesProofs` | `MCLeaves` |
| `SchemaIO` | a structured request from the file to the build, or to a Lua table | `LeavesProofs` | `MCLeaves` |
| `FileIO` | the file utilities, called by several callers on one path | `LeavesProofs` | `MCLeaves` |
| `BBHash` | the bundled method, with the exceptions it lets through | `LeavesProofs` | `MCLeaves` |
| `Hash` | FNV-1a and MurmurHash3, byte by byte | `HashProofs` | `MCLeaves` |

How they fit together. `Nuperf` makes one step of what `BuildRun` takes apart
(`RunBuild`), `BuildRun` makes one step of what `SchemaIO` takes apart (`LoadRequest`), and
`PluginLoader` makes one step of all of `Nuperf` (`RunCommand`): each larger module sees of
the smaller one its inputs and its outcome, which is all the calls pass. `BBHash` shares
`OptionBuffer` with the built-in plugins. The components in `MCLeaves` share no variable
with any other, and that module checks them side by side: a behaviour is one of
`LuaBindings`, `SchemaIO`, `FileIO`, `Hash` or `BBHash`, chosen by `which` at the start, so
TLC visits the sum of their states and not the product.

What could still be done, the most useful first:

1. The keyset calls and the buffer reads of the Lua module (`add_key`, `get_option`),
   which forward to the core.
2. That two processes over one disk have the same listing where no names clash, as a
   theorem about `LoaderPair`. Today it is read off `OrderDoesNotMatter`, which holds for
   each of them.

## 3. The modules

A definition whose comment starts with *Defect* is not part of the specification. It
is a faulty variant of the definition after it (or of the operator it is named
for), kept so that each property can be shown to notice it.

### Nuperf

A token of the command line has no letters. `Form` says how Klyspec reads it (a word,
a long option, a cluster of short ones, `--`), with the name and the inline value if it
has them, and `Words` what `join_words` makes of it, which is more than one word for a
quoted `"build run"`. `start` to `dispatch` are the branches of `main` in their order.
`VisitDoc` is one turn of the loop over the unordered map of documents; documents that
do not match change nothing and are left out of `pending`. `parse` takes one token a
step, as the loop of `KlyCLIService::parse` does, collects `values`, and goes on after an
error. `Parsed` fills in the default of `--output` and counts. `check` to the end are
what `main` does with the result: the build is called with what `Get1` finds and writes,
whole or not, to the paths it was given as output and for the schema, answers 0 or 1 or
ends by what a plugin throws (`RunBuild`); or the workspace is written directory by directory and file by file, where every write may
succeed, be cut or not happen (`Write`), because nobody looks.

The properties do not repeat the loop. `Roles` reads the rest of the command line as a
whole and gives each token its part; `GivenFor`, `PositionalsOf` and `ReadsWell` are read
off the roles, with the operators of `Positions`: `Picked` is what a sequence holds at the
places a set names, in their order.

### PluginLoader

The disk (`file`, `exports`) is chosen by `Init` and never changes. An entry of a
directory leads to an image, is passed over by the filters, cannot be stat-ed, or is
a library dlopen refuses. Two entries may lead to one image, as links do. `pending` is
the set of entries not delivered yet, so a step may take any of them: that is the
freedom the standard gives `directory_iterator`.

One iteration of `load_*_plugins_from_dir` is `OpenEntry` (the `dynalo::library` is
built, `lib` owns it), then `RegisterPlugin` or `PluginRefused` (first try block), then
`RegisterDescriptor` or `DescriptorRefused` (second one). `Register` moves `lib` into
`handles`; `DescriptorRefused` is `~unique_ptr`. The two loops of the code differ in the
kind only, which is the variable `kind`. `EntryThrows` is what `is_regular_file()` and
`dynalo::library` do outside the try blocks: the exception leaves `main`. `RunCommand`
stands for the dispatch; `Shutdown` for `nuperf_shutdown`; `UnloadHandle` for the
destruction of the static vector after `main` returned.

That the order decides nothing is a property of one process: `FromDisk` says, from
`file` and `exports` alone, which descriptors a process finds if no two entries offer
the same name (`NoClash`), and `OrderIrrelevantWithoutClash` that the registry is
exactly that set. Two processes then have the same registry, whatever order each got.

### LoaderPair

Two runs of the program over one disk: the module extends `PluginLoader`, whose process
is the first run, and instantiates it for the second. The first waits at its command
until the second has reached its own, then goes on to its end. The pair can differ only
by the order of the directories, so comparing the two registries says exactly what that
order decides. Its one property, `SameListing`, is a sentence of the README that the
code does not keep once names clash (section 7).

### BuildCommand and BuildRun

`BuildCommand` has four steps: deliver the wanted artifact, damage the output file,
succeed, fail. `BuildRun` has a `pc` that names the call about to be made; each call has
an action for its success and one for its failure, and each failure goes through
`Fail`, that is, `cleanup()` and `return 1`. Lines are abstract: a blank one is skipped by
the `getline` loop but not by the request loop, and `KeyOf` is what is left of a line
after `c_str()`. `source.readable` is the number of lines the stream yields before its
end or an error. `DumpSchema` holds the decision at lines 345-349, where the defaults
are filled in; `LoadRequest` the ones at 393-395.

The refinement maps the abstract `wanted` to `Wanted`, a function of the inputs written
without the program: the last value of each option by `ValueUpTo`, the keys by
`KeysUpTo`, both from positions, and `Nothing` when `Sound` is false. So `ImplementsCommand` says both that a
success hands over the right artifact and that wrong inputs never succeed.

### OptionBuffer and Stdmeth

`Answer` is the tail both `get_option` functions share. `Stdmeth` holds any number of
instances and results; `heap` counts blocks. `SetOption` casts with `% Modulus`, `Takes` is
the test before the cast; `asked` and `lost` are history variables. `Build` and `BuildFails`
both start by `Seeded`, because line 198 runs before anything can fail. Texts that
`set_option` refuses change nothing and are not steps.

### EmitSink and Stddef

One instance is made by `Create`, with the defaults, and gone after `Destroy`; `pc` is
`absent` in between, and the core calls nothing then.
`Stddef` keeps the header as a sequence of parts. `snprintf` into a fixed buffer is
`Printed`: the part if it fits, `Cut` otherwise. `stddef_emit` is four steps, one for each
call of the sink and one for the formatting; a refused write may have stored a
prefix; `EmitThrows` is an allocation that throws, which nothing in `stddef_emit`
catches. `Sink` maps the state of the artifact to `EmitSink`.

### LuaBindings

`state` is the userdata as Lua sees it, `holds` the member `ks_` or `tbl_` of each object,
`live` the handles the core has given out; the addresses in `Handle` come back after a
destroy. `New` is the constructor sol binds (`NuperfKeyset.new()`). `new_keyset` and
`new_table` return by value: `MakeTemporary`, `Move` (the move constructor), `DestroyTemporary`,
with `Collect` of forgotten objects possible between them, because allocating userdata
may run the collector. `Build` and `BuildFails` are `LuaTable::build`: the second is a build
that threw after the table had taken the keyset. Destructors that run twice, or on a
moved-from object, find a null pointer; that is what `Destroy` of `Null` is. `Closing` is
`lua_close` at work. The two
classes have the same text, so they share their operators; `map` names the lines of one
and its symbol those of the other.

### SchemaIO

A document is a tree of the values of SerdeTk, which is vendored with Klyspec: an array has
`items`, an object has `fields` in the order of its `std::map`, no name twice, a scalar has
`data`. How the four formats are parsed is left out. Texts are sequences of letters, of
which only `=` is looked at; nothing bounds their length. `Shown` is what `std::to_string`
makes of a number and `Amount` the number a text or datum stands for, in units of 10^-8.
`Says` relates a text to a value without the extraction: in full for an integer, within
half a millionth for a double. `Formed` assumes that of `std::to_string`, and of nothing else.

`Canonical` is translated from the published schema (`schema_io.cpp` 161-218) and
knows nothing of the extraction; `ExtractKeys`, `ExtractNames` and `ExtractOption` from the
code (lines 69-133) and know nothing of the schema. `Verdict` is what the validator
(`SerdeTk.hpp` 679-795) answers: it looks at the fields named by `Keywords`, and none of
them is at the root of the published schema (`CanonicalRoot`), so under that schema it
accepts every document. A schema file of the user's own may accept or refuse anything.
`StartTable` and `TableOption` go on with `nuperf.schema.load` of the Lua module, which cuts
each entry at its first `=`.

### FileIO

Each caller has one call to make, on one path. The steps are the calls into stdio;
`fread` takes a byte a step, and a byte of `fwrite` reaches the disk at any time before
`fclose`. Callers are interleaved, as those of two processes are. A failed open, seek,
read or write is an action of its own. `measured`, `disturbed` and `unflushed` are history:
the file at the moment of `ftell`, the callers under whom somebody changed what they
rely on, and the writers whose `fclose` lost bytes.

### BBHash

`Stdmeth` without its checks: `Stoul` says what `std::stoul` yields, a number of the
wider type or an exception, and what throws answers `thrown` in place of a status.
`CreateThrows` and `BuildThrows` may leave the first block behind, as lines 15-17 and
42-44 do. The tables are kept, entry by entry.

### Hash

A word is the sequence of its bytes, the lowest first; `Times` is the product modulo
2^(8n) by columns, so all 32 or 64 bits are there. `FnvByte`, `MurmurBlock` and `MurmurTail`
are a turn of a loop or a case of the switch. `hash_bytes`, `hash_string`, `hash_u32` and
`hash_u64` differ by the bytes they give it, `Input`. Bits are arithmetic (`Bit`, `Power`)
and carries a recursive function (`Carried`), so that the provers can follow them. The
other direction, `UndoRound`, is part of a property and uses the inverse constants.

## 4. Runs

| Run | Bounds | Distinct states | Shows |
|---|---|---|---|
| `loader` | 3 method entries, 1 target entry, 2 images, 7 export tables | 484,819 | the loader's invariants, `OrderIrrelevantWithoutClash` among them |
| `build` | inputs of up to 2 lines or keys, 2 options a source, every failure | 590,992 | its invariants, `ImplementsCommand`, `Returns` |
| `nuperf` | 6,600 command lines of up to 6 tokens, 2 workspaces, every write | 231,034 | its invariants, `DiskAsAsked`, `Ends` |
| `stdmeth` | 2 instances, 1 result, up to 2 keys, a 10-bit word, 1 failed allocation, 4 buffers | 552,816 | every property below |
| `stddef` | 4 given texts, 3 results, names of 12, 32 and 40 | 456,000 | every property below |
| `leaves` | see below | 606,555 | the properties of the five components in `MCLeaves` |
| `loader_throw`, `loader_listing`, `build_request`, `build_read`, `stddef_size`, `leaves_schema` | the same instances or smaller ones | until the first violation | one disagreement each (section 7) |

What the properties say:

- `NoDanglingDescriptor`, `OwnedOnce`, `OneHandlePerPlugin`: kept libraries and registered
  descriptors stay in step through clashes, links and both symbols.
- `InstalledPluginsListed`, `DefaultsAreBuiltin`: what a plugin offers is in the registry
  when the command runs, and a default is never a plugin's.
- `OrderIrrelevantWithoutClash`: with no clash of names the registry is what can be
  read off the disk, so the directory order changes nothing.
- `Returns`, `Ends`: the build and the command line come to an end. A command line ends by
  an exception only if it is a build, in which a plugin may throw, or a `project init` of
  the current directory, which may be gone.
- `NoHandleLeak`, `CoreCallsAllowed`: every exit releases the handles, in order (a live
  table never refers to a destroyed keyset); the core is called on live handles and in
  states it accepts.
- `ImplementsCommand`: the promise above.
- `LongestCommand`: the command that runs is documented and no longer one starts the
  command line, in whatever order the map is visited.
- `BuildAsAsked`: `cmd_build_run` is called only for a line that reads well as a whole,
  and with the options of that line, in order; a refusal, a help page or an option
  without its value calls nothing.
- `RunOrRefused`: a line is carried out exactly when it reads well as a whole; any other
  that does not ask for help exits with 1, prints no report, calls nothing and leaves the
  disk as it was.
- `DiskAsAsked`: a directory is made only for a good `project init`, and a file is written
  only for one, or by a good build that names that file as its output or as the place of
  the schema.
- `WorkspaceAsReported`: after a `project init` the files it names are whole except for failed writes, all other
  files are what they were, and "initialized" is printed only if it knew every name.
- `OptionsAsAsked`: an option is the low 32 bits of the number last
  accepted by its own instance. A seed nobody set is the exception the code
  makes, and the property leaves it open.
- `HeapAccounted`: every block is reached from a handle or was lost by a call that
  answered OUT_OF_MEMORY. It does not say that nothing is lost: lines 79-87 and
  201-228 do lose a block, and `lost` counts it.
- `ToldSizeSuffices`: the size told is enough if the caller asks again at once.
- `OKMeansWhole`, `ImplementsSink`: OK stands for an ended artifact with the whole text;
  the sink is called in its order and not after a refusal.
- `HeaderSound`: the guard is closed if and only if it was opened, for the same macro;
  array and artifact have one name; the size line is there for short names.
- `OptionsRestorable`: what `get_option` prints, `set_option` takes back with the same
  meaning.
- `HandlesOwnedOnce`, `HandlesGivenBack`: no Lua object shares a handle or loses one,
  between the steps of a move as well; closing the state gives all of them back.
- `BuiltFromHeldKeyset`: a table whose first build threw is not built from the keyset
  it was given then, which may be gone or be another object by now.
- `ValidIsTaken`, `RequestIsDocument`: a document of the published shapes is never
  refused, and its keys, names and options are all in the request, each option with a
  text that says its value (of a double, to the sixth decimal: the digits beyond are lost).
  The other way does not hold (`leaves_schema`, section 7).
- `ScriptSeesOptions`: the Lua table has the options of the document back, unless a name
  holds `=`.
- `ReadIsMeasured`, `WriteReaches`: what `read_file` returns is the file of one moment,
  and what `write_file` was given is the file, unless another caller interfered or
  `fclose` lost bytes.
- `KnownAnswers`, `U32Recovered`: the published test vectors come out, and `hash_u32` under
  a given seed can be undone.
- `BBHashSound`: four things at once, through exceptions at any point: `gamma` is what was
  last accepted, no block is lost but by an exception, the tables are minimal perfect
  hashes, buffers are respected.
- `TypeOK`, `PartsTypeOK`: the types, one invariant a run.

**Why the bounds are enough.** Two method entries are the least that clash, share an
image, or come in two orders; the third stands beside such a pair or chains with it.
One target entry makes the second scan real; the
export tables cover a plugin with either symbol, both, neither, and names of defaults.
Two lines or keys and two options per source are the least that distinguish order,
replacement and a blank in front; names are known, unknown or absent. Behind `build` come
all tails of up to three tokens: an option, its value and one more, so that a value
can look like an option, a flag, or `--`, and an option can come twice; behind `project
init` all tails of up to four, the least for two `--add-build` with their values. Two instances
show that options are not shared; the word of 10 bits is the least that holds the
default 1000, and the texts lie on both sides of each test and of the wrap. Names of
12, 32 and 40 characters lie on both sides of the 64-byte buffer.

In `leaves`: two keysets and two tables are the least that let an address be freed and
come back as each kind. The documents are all combinations of the four fields with
values of the right kind, of a wrong kind and missing, a double too small for six
decimals among the options. Two callers with files and data
of up to two bytes let a read be overtaken between two of its bytes, by a file that
grows, shrinks or is rewritten. The hash inputs are the published vectors, of every
length modulo 4, and words with bits in each byte (the proof takes all 2^32 of them).
BBHash has words of two bits, so that five keys no longer fit and numbers wrap. Proofs lift the bounds where section 5 says so.

`stdmeth` declares the handles symmetric: no action or property names one of them, and
the run has no liveness property. No `stdmeth` or `BBHash` bound cuts behaviour short except
`MaxKeys`, `MaxLost` and the set of texts.

`CHECK_DEADLOCK FALSE` stands in the runs of programs that end: a process that has
exited, or a command that has returned, has no further step. The built-in plugins can
always be called again, so deadlock is checked there.

**Fairness.** `FairSpec` of `BuildRun` and of `Nuperf` is `WF_vars(Next)`:
the program is one thread, so as long as it can take a step it takes one. It rests on calls that
return: the calls of the core, and a standard input that ends. Nothing is assumed about *which* step is taken. `LeavesSpec` of `MCLeaves` has
`WF_vars(Closing)`: `lua_close` calls every finalizer that is left. Nothing is assumed of
the collector while the script runs, nor that a script ends.

**Mutants.** For every property of a passing run there is a faulty variant of a mapped
definition, of the kind a slip in that code would be (a dropped guard, a forgotten
release, a swapped order), and the property fails with it.

## 5. Proofs

All proofs are for every value of the constants that the `ASSUME`s of the modules
allow: any directories, images and export tables; inputs, command lines and documents of
any length; any handles, word size above 1000 (2 for BBHash), texts and buffers; any
names and results; any blocks and seeds; any Lua objects and addresses; any tokens and
forms of tokens; any callers, bytes and contents.

**PluginLoaderProofs.** `LoaderInv` is inductive. `TypeOK` alone does not keep `lib` and
`file[lib]` tied to `phase`, nor an entry from being opened twice, so it adds
`LocalLibrary` (when `lib` holds a library), `EntriesFresh` (an entry still pending was
never opened), `OwnedOnce`, `Covered` (each descriptor's image is mapped by a *kept*
handle, which is stronger than `NoDanglingDescriptor` and is what survives the closing
of `lib`), `RegistryReleased` (after shutdown there is none), `BuiltinsPresent` and
`DefaultsAreBuiltin` (the registry refuses a name that is taken, and the defaults are
there first). From it: `TypeCorrect`, `DescriptorsStayMapped`, `LibrariesOwnedOnce`,
`DefaultsNeverReplaced`. `PairedInv` adds finiteness and equal cardinality of handles and
plugin descriptors (`HandlesMatchPlugins`). `ListedInv` says that what has been read is
listed, and that `lib`, half-way, was refused by the first symbol (`PluginsAreListed`).
`OrderDoesNotMatter` rests on `ReadInv`: an entry at hand is one of the directory being
scanned (`InDirectory`), and where no names clash the registry is at any time the
defaults and what the entries the loops are done with win, each on its own (`WonInv`).
When the command runs the loops are done with all of them, which leaves the disk.
`ProcessRunsOut` takes directories that are finite: `StepsLeft` counts four steps for each
entry not read yet, those of the library at hand and one for each handle kept, and no
step of any kind leaves it as large as it was.

**PositionsProofs.** The lemmas about data that the next modules share. The library's
induction theorems take an operator as a parameter and cannot be used, but induction
over a *set* of numbers can: `SetInduction` (a set with 0 in it and closed under +1 is `Nat`)
follows from the pigeonhole theorem. From it come `Recursion` (a definition by recursion
has a function), `RestOfList` (what is left of a list after one more element), and what
`Picked` and `Latest` are after one more position (`PickedNext`, `LatestIs`). With them a
loop invariant can say "the first *n* have been dealt with", whatever the length.

**BuildRunProofs.** `RunInv` is `TypeOK`, `HandlesAt` (which handles live at which `pc`) and
`NamesAt` (from which `pc` on method and target are names and the table has them).
`TypeOK` needs `NamesAt`: an artifact is well formed only because no name is empty at
`build`. From it: `TypeCorrect`, `HandlesReleased`, `CallsAllowed`. `CommandImplemented` is the
whole refinement of `BuildCommand`. It rests on `DataInv`, which follows the inputs through
the calls: `InputAt` (the keyset holds the keys of the lines behind the loop, and `todo` is
the rest), `ChoicesAt` (the names decided on and the names the table has taken),
`OptionsAt` (the table holds, of each option, the last value among those applied so far)
and `OutcomeAt` (success has handed over what was wanted, failure nothing or a damaged
file). Each loop of the code is one lemma that adds an element (`OneMoreLine`,
`OneMoreOption`). `BuildRunsOut`: `StepsLeft` counts the lines or keys not read yet and the
options not applied yet. The request's options join those of the command line half-way, so
until then the measure holds room for both.

**StdmethProofs.** `OptionsInv` is `OptionsTyped`, `Remembered` (what was accepted for
`bucket_size` and `max_iterations` was positive; a seed is set if and only if it was
asked for) and `OptionsAsAsked`. From it: `OptionsKept`, `ZeroComesFromWrap`. `HeapInv`
counts live handles with the finite-set theorems (`HeapBalances`), and with it `TypeOK` is
inductive (`heap \in Nat` needs the count: `TypeCorrect`). `TablesBuilt` says each result
has the table of its key count (`KeysKeptApart`). `CallCurrent` ties the last answer to
the option it was read from (`BuffersRespected`, `RetrySucceeds`).

**StddefProofs.** `EmitInv` is `Shape`, `InStep` (the sink's state is the one `pc` implies,
and at `end` its content is the output) and `OKMeansWhole`. From it:
`OKForWholeArtifacts`, and `SinkImplemented`, the whole refinement of `EmitSink`, initial
states and steps. `CallInv` gives `SavedOptionsRestore`. `TypeCorrect` needs the header to
be a sequence of parts. `HeadersAreSound` takes the header apart (`HeaderHangs`): the two
ends are one guard's (`GuardedText`), and the size line is whole when name and number fit.
That a number has a number of digits at all has to be proved (`DigitsExist`), since
`Digits` is defined by recursion on *n* / 10. `NameCurrent` says that the name the artifact
was begun with is still the option when the text is made.

**LeavesProofs.** Four components. *Lua objects:* `ConstructOwns` and `DestroyReleases` say
what the constructor and the destructor do to ownership, for any object. `LuaInv` is
`TypeOK`, `HandlesOwnedOnce` and `Occupied` (userdata holds a handle exactly as long as it is
there, the temporary until it is moved): without it an object could be made over one
that still holds a handle. From it: `OwnedOnce`, `LuaTypeCorrect`, and the action property
in `BuildsFromHeldKeyset`.

*Files:* `Typed` gives `FilesTypeCorrect`, `StreamInv` gives `StreamsAreClosed`. `ReadInv` is
the invariant behind `ReadIsMeasured`: as long as nobody disturbed the reader, the file
still begins with what it measured (`StillMeasured`), and the buffer is a beginning of that
(`BeginningRead`). `WriteInv`, behind `WriteReaches`: as long as nobody else
opened the file or wrote to it, the file is exactly the part of the data that has
reached it (`BeginningWritten`). From them: `ReadsWhatItMeasured`, `WritesWhatItWasAsked`. Both hold for any number of callers, which is the point:
TLC looks at two.

*Requests:* `RequestInv` says at each stage what has been extracted: `KeysAt`, `NamesAt`,
`OptionsAt` (the first *n* options are entries of the request, the rest is `todo`) and
`TableAt` (the first *n* options are in the script's table). `CanonicalKeys` is the meeting
point of the two definitions of the language: where the schema finds keys, the
extraction looks for them. `Admitted` says that reading and validating refuse nothing under
the published schema, since the validator knows no field of its root (`NoKeywords`).
`TextSays` is the meeting point of the extraction's texts and the values, `EntrySplits` that
of an entry and its two parts. `CutUndoesEntry` is the round trip through `name=value`. From
it: `RequestTypeCorrect`, `ValidNeverRefused`, `RequestSaysAll`, `ScriptGetsOptions`.

*BBHash:* `MethodInv` is `MethodTyped` and `BBHashSound` itself; `heap` stays a natural number
because `BlocksAccounted` counts the blocks from the live handles (`Counts`, `BlocksStep`),
so `MethodTypeCorrect` follows from the sound invariant and not the other way round.
`BBHashStaysSound` puts together a lemma for each of the four parts.

**HashProofs.** Words keep their full width here. A byte is its eight bits (`ByteOfBits`,
`SameBits`), exclusive or adds them (`XorBits`), and a shift or a rotation by the amounts the
code uses is undone bit by bit (`Shift16Undone`, `Shift13Undone`, `RotlUndone`). A word of four
bytes is also a number: the bytes that `Carried` leaves are that of the columns modulo 2^32
(`CarriedNumber`), hence `TimesNumber` and `PlusNumber`, and two factors whose product is 1
more than a multiple of 2^32 undo each other (`TimesUndone`, `FactorsUndone`). So `fmix32`,
the scrambling of a block and a whole round have inverses (`Fmix32Undone`, `ScrambledUndone`,
`RoundUndone`). `HashInv` says how far a call has read: the string form of FNV-1a only past
bytes that are not 0, with one more to come. From it: `HashTypeCorrect` and
`WholeInputHashed`. `U32Inv` adds that `hash_u32` runs one round, finds no tail, and finishes:
`U32Permutes` undoes those three.

**NuperfProofs.** `TypeInv` is `TypeOK` with what it needs: `Printed` says nothing of what
`Get1` may return, so the values of options have to be known as strings, and the parser
must not reach past the last token. `ResolveInv` says what the loop over the documents
has established: the best so far is a match or nothing, and no document already visited is
longer; when none is left that is `LongestCommand`, for any set of matches and any order
(`LongestCommandRuns`).

What is read, called and written rests on `ReadAt`: while Klyspec's loop runs, the values
and positionals are those of the first *n* tokens by their roles (`ReadUpTo`), and what it
returns is what the line says (`AllRead`). The roles are defined by recursion over the
tokens (`RolesFollow`); `OneMoreToken` adds one to the values. With `CallAt` (nothing is
called before the end) it gives `BuildGetsWhatWasAsked`, and, as both kinds of writing come behind a line
that was read to its end, `DiskChangesAsAsked`. `LinesRunOrRefused` is the other direction: a
token that does not read well leaves `ok` false for good (`MisreadAt`), a line that reads well
is accepted (`CheckedAsUnderstood`), and until something is run the disk is the one of the
start (`UntouchedAt`). `WorkspaceAt` says which files have been written at each step of
`project init`, and that no other has changed: `WorkspaceIsAsReported`. `CommandRunsOut`: a token
counts twice in `StepsLeft`, once for the loop that reads it and once for the file that has
to be written if it names a build file.

**Termination.** The three `...RunsOut` theorems say `[](StepsLeft \in Nat)` and
`[][StepsLeft' < StepsLeft]_vars`: a behaviour takes finitely many steps, whatever the size of
the directories, the input or the command line. For the loader nothing more is claimed; for `Returns` and `Ends` it is the part that needs no fairness. That a process does not stop before its last step (it can
always take one, and is given its turn) needs ENABLED and the fairness of `Spec`, and is
checked by TLC on the instances of the runs.

**Only model-checked:** `Returns`, `Ends` and `HandlesGivenBack`, which are liveness
properties; `KnownAnswers`, which is about a given set of published vectors; `PartsTypeOK`,
which puts the five types of `MCLeaves` together, each of which is a theorem about its
component.

## 6. Assumptions and what is left out

Assumed of what is not in the repository: the registry refuses a second descriptor
of a name (`nuperf-method.h` calls the name a stable unique one) and keeps pointers, not copies;
`nuperf_init` registers the two defaults; `nuperf_shutdown` clears the registry; a
table that lacks a keyset or a method, or was built, refuses to build
(`tests/test_api_core.cpp`); a failed call changes nothing; the core calls plugins with
non-NULL arguments and on live objects; what `time` and `strtol` answer is given by the constants `Time` and `Strtol` of `Stdmeth`.

Left out of the modelled components: running out of memory in `main.cpp` itself;
constructors of a library that throw or call back; dlclose that fails; a directory
that changes during its scan or cannot be read on; early returns of plugin functions
for NULL arguments; the wording of output. Whether standard output took what it was
given is not state of the program (line 450 writes and never looks), so `out` is what
was handed over. In `HeaderSound` the comment with the method name is not looked at.
A create that fails in a Lua constructor changes nothing and is no step; running out of
memory inside Lua itself is left out. A table may be emitted after its keyset was
collected: the model allows it, and no text of the repository says it may not happen.
The blocks of a `stddef` instance are not counted, as those of `stdmeth` are. The calls of the Lua module that only forward to the core are not steps. The
lambda of `schema.load` refers to a local that is gone (`lua-bindings.cpp:287`); what a call
through it does is not defined, and `SchemaIO` models the call as it is written.

In `Nuperf` a build answers 0 or 1 or is ended by what a plugin throws, has then written
any of its two paths, and `nuperf_init` has succeeded (`PluginLoader` has its failure, but no
command that ends by an exception); help for a path nobody knows goes to standard error and
is not counted as printed. The letters of a
token are in `Form`, so the string work of Klyspec is not followed, only its loop. In
`SchemaIO` what SerdeTk can read and what a schema of the user's own says are inputs; that
`std::to_string` writes integers in full and doubles to six decimals is assumed.
In `FileIO` a caller that has run out of memory keeps its stream; directories,
permissions and a size that does not fit a `long` are all failures to open or to seek.
`Hash` has the byte order of the machines the code is built for. A write that fails or is cut
in `project init`, and a flush that fails in `write_file`, leave no trace in the
program; the history variables `failed` and `unflushed` name them, and the properties
except them.

Not modelled, with the reason in `PROJECT.json`: the library core, which is not in
the repository; the placeholder methods and targets, whose functions are all NULL, so
there is neither state nor operation; the SWIG interface and the scaffold scripts,
which print text and keep no state; vendored code beyond what is called here (dynalo's
open, lookup and close in `PluginLoader`, Klyspec's loop in `Nuperf`, SerdeTk's values and
validator in `SchemaIO`).

## 7. Disagreements found

| Run | Code | Says otherwise |
|---|---|---|
| `loader_throw` | a plugin file dlopen refuses terminates every command (`main.cpp:261`, 289) | `GUIDE.md:34`, `tests/test_cli_smoke.cpp:58` |
| `loader_listing` | what is listed after a clash depends on the directory order (`main.cpp:258`) | `README.md:108` |
| `build_request` | the method (and target) of a structured request is never used (`main.cpp:345`, 393) | the published schema, `schema_io.cpp:180` |
| `build_read` | a read error ends the keys and the command succeeds (`main.cpp:363`) | help text, `main.cpp:88` |
| `stddef_size` | an `array_name` of 34 characters or more yields a header that does not compile, with OK (`stddef.cpp:198`) | `stddef.cpp:31` |
| `leaves_schema` | validation against the published schema accepts every document: the validator does not know `oneOf` (`schema_io.cpp:33`, `SerdeTk.hpp` 679-795) | `schema_io.cpp:166`, 174; help text, `main.cpp:93`, 98 |

Seen while reading and not made a run: options of a request replace those of the
command line (`main.cpp:395`); the clock replaces a seed nobody set and stays in the
options (`stdmeth.cpp:198`); a failed write to standard output ends with status 0
(`main.cpp:450`); a positive multiple of 2^32 gets past the zero test of `bucket_size`
(`stdmeth.cpp:119`); a result flagged MINIMAL has a table of twice as many entries as keys
(`stdmeth.cpp:207`, 219), while the descriptor (line 250) and
`docs/manual/introduction.md:3` call it minimal; the value `-h` of an option prints help
(`main.cpp:582`); `schema.load` of the Lua module captures a local by reference
(`lua-bindings.cpp:287`).
