# Formal models of VitaMonoLoader for vitasdk

This directory holds TLA+ models of the program's own code, the TLC runs that
check them on small instances, and proofs that TLAPS checks for every instance.
Paths below are relative to the repository (`src/`).

## The system

VitaMonoLoader lets a native PS Vita application run .NET 2.0 programs on
Unity's port of Mono. The repository's own code is small; `headers/mono` is the
Mono project's. Its parts, what each keeps, and what makes each correct:

| Component | State | Operations | Correct when |
|---|---|---|---|
| Environment, `VMLCoreAssemblies/environment.c` | `VML_env`: a null-terminated array of pointers to `name=value` blocks | `VMLGetEnv`, `VMLSetEnv`, `VMLUnsetEnv`, also exported as `getenv`, `setenv`, `unsetenv` | it is a map; no leak, double free or dangling pointer; a pointer handed out stays valid until its variable changes |
| Patched internal calls, `VMLCoreAssemblies/patches/` | Mono's table of internal calls | `GetEnvironmentVariable`, `InternalSetEnvironmentVariable`, `get_TickCount`, `InternalCodePage`, `GetCurrentDirectory` | they are safe on any managed thread; buffers are given back |
| Loader, `VitaMonoLoader/main.c` | paths, root entry and verbosity in statics; through Mono: registered AOT modules, root domain, flags | `VMLSetPaths`, `VMLRegisterAssembly`, `VMLInitialize`, `VMLRunMain`, and on the Mono main thread `initPSP2Stage2`, `monoMain`, `monoShutdown` | managed code runs only on a complete runtime; shutdown stops it before the runtime is freed, and ends |
| Sample programs, `VML_Sample1`, `VML_Sample2` | loaded modules, two logs | `main`, `loadCoreModules`, `loadModules`, `rootEntry` | Mono is called only with its modules loaded; logs are open when written; failures are reported |
| Vita2D bindings, `VMLVita2D` | none of its own | `VMLVita2DRegister`, `_vita2d_pgf_draw_text` | registered before use; strings given back |
| NID tools, `tools/*.py`, `cmake/RETools.cmake` | yaml files edited in place | `add_entry`, `replace_entries`, `add_missing_entries`, `clean_yaml`, the three commands of a stub | every NID keeps exactly one symbol; a repeated build gives the same file |
| Build configuration, `CMakeLists.txt` files | options; what each target has made | configure, a parallel build, a build started again | nothing is read before it is made; every goal of an accepted configuration is made |

How they interact. The application calls the loader from its own thread;
`VMLInitialize` starts the Mono main thread (`MonoCreateMainThread`, in Unity's
module) and returns when that thread has ended. The Mono main thread sets the
runtime up, calls back into the application (`s_rootEntry`), and shuts the
runtime down. The root entry calls `VMLRunMain`, which runs C# code; that code
may start managed threads, and each of them may call the patched internal calls,
which share the unlocked environment table. The two threads of a sample share
its log. Before any of this runs, the build makes a stub library for each of
Unity's modules: `RETools.cmake` has `nids-extract` write a yaml file, the two
Python tools edit it in place with what the SCE archive tells, and vitasdk's
generator turns it into an archive; `CMakeLists.txt` orders these commands, the
libraries and the programs.

The hard behaviours are therefore: several managed threads in the environment
at once; pointers into the table that outlive the call; allocation failures half
way; the order of the calls into Mono at start and at shutdown, with managed
threads that do not end; a first initialization that fails and a second one;
modules, files or the domain that cannot be had; dictionaries edited while they
are walked; a build stopped between two edits of one file; parallel targets that
only a declared dependency keeps apart. `PROJECT.json` lists each at its line
under `hazards`.

## The modules

| Module | What it models |
|---|---|
| `EnvStrings` | the C string operations of `environment.c`: validity of a name, building an entry, the two different ways the code compares names |
| `EnvMap` | abstract: the environment as a map from names to values |
| `EnvTable` | `environment.c` called by one thread at a time, with the heap |
| `MCEnvTable` | its instances |
| `EnvTableProofs` | theorems about the three modules above |
| `EnvThreads`, `MCEnvThreads` | two icalls of `icall.c` and `environment.c` one memory access at a time |
| `EnvThreadsProofs` | theorems about `EnvThreads` |
| `RuntimeLife` | abstract: when managed code may run |
| `Loader` | the operations of `VitaMonoLoader/main.c`, `VMLCoreAssembliesRegister`, and what they do to Mono |
| `LoaderClient`, `MCLoaderClient` | the loader with any application that uses `VML.h` |
| `LoaderProofs` | theorems about `LoaderClient` |
| `Sample`, `MCSample` | the loader with `main()` and `rootEntry()` of the two samples |
| `SampleProofs` | theorems about `Sample` |
| `NidTables` | the dictionaries of the NID tools, and `Named`: what `replace-nid-symbols-sce.py` should make of one |
| `NidSymbols`, `MCNidSymbols` | that tool, one entry at a time |
| `NidTablesProofs`, `NidProofs` | theorems about the two modules above |
| `StubPipeline`, `MCStubPipeline` | the three rules of a stub, stopped anywhere and started again |
| `StubProofs` | theorems about `StubPipeline` |
| `Build`, `MCBuild` | targets, options, dependencies, and a parallel build of them |
| `BuildProofs` | theorems about `Build` |

In each module, a definition whose name ends in `_bug` is the definition that
follows it with a plausible mistake in it. No specification uses one; they show
that a property would notice (`mutants` in `PROJECT.json`).

### EnvTable

`VML_env` is the sequence of pointers before the closing null pointer, `slots`
the size of the block `realloc` gave (0: no block). An entry is the real
sequence of characters, because the point of the code is how it compares them.
`heap` maps an address to the string in it or to `Free`; a `malloc` takes any
free address or fails. `held` is a history variable: the pointer a caller has
from `VMLGetEnv` for each name, forgotten when the caller overwrites or unsets
that name. `call` is the last call with its answer. There is one action per
function; `VMLSetEnv` and `VMLUnsetEnv` are disjunctions of their paths.

### EnvThreads

Each thread is idle or at one memory access of an icall. `EnvTableProofs` shows
that an entry belongs to one name and gives its value back, so an entry is a
record of name and value here. A thread that touches freed or unwritten memory
sets `undefined`, and nothing is followed from there: nothing can be promised of
it. `overlap` and `taken` record the two ways in which that becomes possible.
What a writer names again after the comparison that found it, a compiler may
have kept or may load again, and both are there: `free(VML_env[i])` frees what
was compared or what the cell holds by now (`FreeCell`), and the second test of
`VML_env[i]` in `VMLSetEnv` is passed or, when the cell has become null, sends
the call on to `realloc` with the index as it is (`Replace`). A reader goes on
with the pointer it compared.

### Loader, LoaderClient

`main` is where the Mono main thread is in `initPSP2Stage2`, `monoMain`,
`VMLRunMain` or `monoShutdown`; each call it makes is a step. `app` is the
application's thread. What Mono does with the calls is external and modelled by
what the loader relies on: `mono_threads_set_shutting_down` lets no managed
thread start, `mono_thread_pool_cleanup` lets the pool take up no work,
`mono_thread_suspend_all_other_threads` stops the running ones,
`mono_jit_init_version` may answer null. `LoaderClient` adds the most general
application; it does not call the loader after the root domain is gone, which
Mono does not support. `asked`, `debugAsked` and `ran` are history: the arguments
of the last `VMLInitialize`, whether it or an earlier one asked for debugging
(`s_monoVerboseDebug` is never cleared), and the root entries that ran.

### Sample

The loader's actions with the real programs as the client: each step is one that
`LoaderClient` allows (`UsesLoader`). `VMLVita2DRegister` gives Mono its module
without the loader, which any library of an application may do
(`RegisterModule`). `program` and
`customLibc` choose one of the four builds at the start. `loadModules()` answers
1 or 0; the two programs test that answer differently, and the model keeps the
difference (`ModulesDone`). A call into Mono while one of its modules is missing
stops the program (`crashed`): the import is bound to nothing. A line reaches the
log only while it is open (`Written`), and `LogResult` writes what `VMLRunMain`
answered, whatever it is; `returned` is history: the C# program's Main has come
to its end.

### NidTables, NidSymbols

A section of the yaml (a library's functions or variables) is a set of entries,
a name with a NID. A name is a symbol or the one `nids-extract` makes up from
the NID, `Std(nid)`. `Put` is the assignment to a dictionary: it replaces an
entry of the same name. `NidSymbols` reads the archive member by member
(`add_entry`), and for each section empties it and fills it again under new
names (`replace_entries`: `BeginReplace`, `ReplaceOne`, `KeyError`), then adds
what is missing (`add_missing_entries`: `BeginAdd`, `AddOne`); `Edited` is the
flag that decides about the write. Dictionaries and sections are walked in any
order, because the order is that of `objdump` and of the file.

### StubPipeline

One library, one section. `yaml` and `lib` are what the files say, or `Absent`,
or `Broken` when a write was stopped; `yamlNewer` and `refNewer` are all that make
looks at of the times of the files. Each command is one step (`ReplaceNids` is a
whole run of `NidSymbols`, by `Named`, which `NidProofs` justifies), `Stop` is a
stop between two commands or a failing one, `StopInWrite` one in the middle of a
write. `marks` stands for what `clean-nids.py` removes besides names.
`nidsAnswer` is what `nids-extract` answers when it has done its work, 0 or, as the
comment at `RETools.cmake:15` says, 1; `deletes` tells whether the generator
removes the output of a rule that failed (`ExtractFails`), as makefiles with
`.DELETE_ON_ERROR` do. Both are fixed at the start.

### Build

A target is `todo`, `making`, `made`, `failed` (a command failed that may succeed
next time) or `stopped` (it fails each time). `Configure` accepts what CMake does:
sources that are there or made, dependencies that are targets, and no cycle.
`stubs` tells whether the archives of stubs can be had: without `USE_RE_TOOLS` the
user has to put them into `lib/prebuilt/stubs`, where the repository has none;
with it, the rules of `StubPipeline` may fail each time. `Deps` is the graph
of `add_dependencies` and `target_link_libraries`, `Writes` and `Reads` the files
of the build that the commands make and use, each by its path; `early` records a
file that was read before it was made. Any number of targets are made at once.

## The runs

| Run | Checks | Bounds |
|---|---|---|
| `env_table` | `TypeOK`, `HeapIsTable`, `ArrayClosed`, `OneEntryPerName`, `HeldPointersValid`, the inductive `IInv`, and `ImplementsMap`: refinement of `EnvMap` | names `a`, `ab`, `b`, empty, `a=`, null; values empty, `=b`, null; 4 addresses |
| `env_threads` | `TypeOK`, `SafeUnlessRaced`, `TableAtRest`, `ReadsCurrent` | 2 threads, both set; 2 names, 2 values, 4 entries, 2 arrays |
| `env_threads_races` | `CallsReturn` under fairness, past the first overlap | 2 threads, both set, unset and read; 2 names, 1 value, 2 entries, 1 array of at most 3 cells |
| `loader_client` | `TypeOK`, `ManagedPrepared`, `EntryRunsOnce`, `DomainAsConfigured`, `KeepsLife`, `ShutdownReturns` | 2 root entries, 2 paths, 2 icalls, one thread of the pool and one other |
| `sample` | `LogOpenWhileUsed`, `ProgramPrepared`, `ResultLogged`, `SampleEnds`, and `UsesLoader`: refinement of `LoaderClient` | the programs as they are |
| `sample_modules` | `MonoNeedsModules`, which fails: see findings | |
| `sample_init_failure` | `InitFailureReported`, which fails: see findings | |
| `nid_symbols` | `TypeOK`, `FileIsNamed`, `NothingInvented`, `LostOnlyToClash`, `FailureKeepsFile`, `MissingLibraryStops` | 2 NIDs, 2 symbols, functions and variables, at most 3 entries and 3 members, in every combination |
| `stub_pipeline` | `TypeOK`, `LibIsResult`, and `StubBuilt` under fairness | 2 NIDs, 3 symbols of which one is removed, every export and archive; 3 stops |
| `stub_answer` | `StubBuiltWhateverAnswered`, which fails: see findings | as above, no stops |
| `build` | `TypeOK`, `InputsReady`, and `GoalMade` under fairness | every option, every goal, with and without stubs and AOT files; 2 failing commands |
| `build_aot` | `AotFilesSuffice`, which fails: see findings | as above |

Why the bounds are enough. In `env_table` one name is a prefix of another, so
the comparisons can go wrong, and a value begins with `=`; three usable names
give tables with a first, a middle and a last entry to remove or replace; a
fourth address lets a set allocate while all three are there. In `env_threads`
two threads are enough because every misuse involves one that changes the table
and one other; two names give a removal before another entry under a reader's
index. `env_threads` stops at the first overlap (`NoOverlapYet`): its
properties speak of behaviours up to there, and `TypeOK` is proved beyond.
`env_threads_races` goes on past overlaps: two names make scans pass entries and
shifts move them while the other thread does either. One array stands for
`realloc` in place; where it moves the array, a call still in the old one reads
freed memory (`undefined`) or goes on in the new one as in a longer old one.
`MaxCells` is in the model, not only in the run: memory has an end. (Without it,
two writers past an overlap could append for ever in front of the scan of a
third.) `VIEW Memory` leaves out the history variables, answers and buffers,
which no guard reads, and takes all states after a misuse for one. In
`loader_client` two values of everything a second `VMLInitialize` could confuse
with the first are enough; the number of attempts is not bounded. In
`nid_symbols` two NIDs can ask for one symbol, a NID can be in the archive twice,
and one section can be done when the other one fails. `MaxStops` of
`stub_pipeline` lets a build be stopped in each of the commands that edit the
yaml, one build after another; what is proved of it holds for any number.
`stub_answer` needs no stop: what it shows happens in an undisturbed build.
`MaxFailures` of `build` lets a second build fail as well. `CHECK_DEADLOCK` is
off where the program may stop: after a misuse of memory, after the runtime is
gone, when `main()` exits, when a tool or a build has ended.

Fairness. `EnvThreads` (`FairSpec`): a thread that is inside a call is run again;
nothing makes it call. `LoaderClient` (`FairSpec`): the loader's own steps go on;
the application's code and managed threads need not. `Sample`: of the two threads
one waits for the other, so weak fairness of the whole next step is what any
scheduler gives; that Main returns is in `Sample1.cs` ("return 123"), and for
`VML_Sample2`, whose Main loops for ever, nothing is claimed. `StubPipeline` and
`Build` (`FairSpec`): a build that has begun goes on and one that failed is
started again; a stop or a failing command is never forced, and there are at
most `MaxStops` and `MaxFailures` of them.

What the runs show. One thread at a time, `environment.c` is a map whatever the
names and values and whichever allocation fails. With several threads it is safe
as long as nobody changes the table while another call is in it, and nobody
changes a variable another thread is about to copy. Nothing in the repository
keeps managed threads apart; even then every call returns or has misused memory,
and none is held up by what the other thread does or leaves undone.
The loader keeps its promise in every order of events, its domain is configured
as it was asked to (traced also when only an earlier, failed attempt asked for
debugging), and its shutdown does not wait for managed threads. A sample's log
says in the end what `VMLRunMain` answered: the result exactly when Main has
returned, and otherwise the error. `replace-nid-symbols-sce.py` gives one result whatever
order it works in, and loses a NID only where two ask for one name. A stub that
is built is the right one however often the build was stopped, although the
tools edit the output of an earlier rule and every build runs them again: the
exception is a write that was broken off, which leaves a yaml no later build
replaces. After the last stop it is built; whether it is at all hangs on the
answer of `nids-extract` and on what the generator does with the output of a
failed rule (`StubBuilt` states the case in which it is, `stub_answer` shows the
other one). No target reads what is not made yet, under any options, every file
that is read is one that a target makes, and the libraries are built whether or
not stubs and custom libc can be had.

## Findings

Each is the counterexample of a run.

* `sample_modules`: `VML_Sample2` goes on into Mono when a module could not be
  loaded: line 126 tests for a negative answer of a function that answers 0 or 1.
* `sample_init_failure`: a root domain that cannot be created is never reported:
  `monoMain` and `VMLInitialize` answer `SCE_OK`, and the samples test for a
  negative answer.
* `stub_answer`: `RETools.cmake:15` says that `nids-extract` always returns 1 and
  that it is therefore wrapped, but line 22 runs it as it is and only names the
  wrapper in `PYTHONPATH`. With that answer rule 1 fails after its work. Where a
  failed rule's output is deleted, every build starts with it again and no stub
  is ever built.
* `build_aot`: without `USE_MONO_COMPILER`, which `README.md:230` offers when AOT
  files are present and which is the default, `VMLCoreAssemblies` depends on a
  target that is not defined, and CMake 3 rejects the project.

Other things met on the way, that no run claims (the hazards have their lines):
`unsetenv`, introduced "for libc compatibility" (`environment.c:116`), answers
-1 for a variable that is not set, where libc answers 0 (`EnvMap` has the answer
of the code); the samples log "Program::Main() returned" with the error of
`VMLRunMain` also when no Main was called; `icall.c` needs
`sceLibcMonoBridgeFree`, so a program built without `USE_CUSTOM_LIBC` has an
undefined symbol; `get_TickCount` counts microseconds; `_vita2d_pgf_draw_text`
keeps the string it converts.

## The proofs

`EnvTableProofs`, its first part: the two comparisons of the code accept the
same entries (`MatchersAgree`), an entry is for one name only (`OneVariablePerEntry`), and a
value reads back as it was written (`ValueRoundTrip`), for all strings. These
rest only on `CharAssumption` (`=` is a character) and on names being free of
`=`.

Its second part: `Spec => []IInv` for every set of names, values and addresses,
from the assumptions of `EnvTable` (arguments are strings or null; `NULL` is no
address; `Free` is no string). `HeapIsTable` and `OneEntryPerName` are not
inductive alone: to know that a replaced slot held the only entry of the name
one needs that every entry is the text of some earlier `VMLSetEnv`
(`EntriesWellFormed`), and to know that freeing an entry leaves the other
holders' pointers alone one needs that a held pointer leads to an entry of its
own name (`HeldInTable`). `IInv` is the conjunction. The paths that change the
table are three lemmas (`ReplaceStep`, `AppendStep`, `UnsetStep`), each with one
step per conjunct; the theorems for the separate invariants follow.

Its third part: every step of the table is a step of the map with the same
answer (`TableImplementsMap`). The lemma that carries it says what a read of
every name answers after each of the three changes of the table.

`LoaderProofs`: for any application, any number of managed threads and any
number of failed attempts, from `PoolAssumption`, `LoaderNullAssumption` and
`IcallAssumption` (there is an internal call to patch). The properties of the run
are not inductive: that managed code finds its runtime set up depends on the
order in which the Mono main thread got there. `LInv` (in `LoaderClient`) says,
for each place of that thread, what is registered, configured, patched, shut
down and which threads may run; one lemma per group of actions shows it is kept.
`ManagedPrepared`, `EntryRunsOnce` and `DomainAsConfigured` (the place where the
domain is created comes after the core assemblies, aot-only, the trace and the
directories, and `ArgumentsKept` ties the statics to what was asked) follow, and so does
the refinement of `RuntimeLife` (`LoaderKeepsLife`): `PrepareDomain` is its
`Boot`, `PoolCleanup` its `Close`, `SuspendOthers` its `StopAll`, `JitCleanup`
its `TearDown`, calls of Main and of threads its `Start` and `Stop`.

`SampleProofs`: for any core assemblies, internal calls, root entries and
managed threads, from `SampleAssumption` (the programs' two assemblies and their
path are among the application's) and what `LoaderProofs` assumes. The first
step is the refinement (`SamplesUseLoader`): that `main()` calls the loader only
while there is a runtime to come, and `rootEntry()` on the thread that runs it,
needs to know where both are. With it `LInv`, and so `ManagedPrepared`, hold for
the programs. `SampleInv` adds where `main()` stands while the Mono main thread
runs (`MainInOrder`: blocked, with the log open), what `rootEntry()` has done
at each place of that thread (`RootInOrder`), and which line the log has by then
(`LogInOrder`); the three invariants of the run follow.

`BuildProofs`: for any number of failing commands. `InputsReady` is inductive
together with the fact that an accepted configuration is a closed graph
(`ClosedGraph`). The lemma that carries it, `ReadsFromDeps`, is about the
`CMakeLists.txt` files alone: under every option, what a target reads is left by
a target it depends on. That a configuration is free of cycles is not needed:
a build that waits for ever reads nothing.

`EnvThreadsProofs`: for any number of threads, names, values and addresses, from
`MemoryAssumption` (null, `Junk` and `Free` are no addresses or contents, and null
is no value: a value is a text that is not empty) and `WritersAssumption`. It
proves all three safety properties of the runs: `SafeUnlessRaced`,
`TableAtRest` and `ReadsCurrent`. None of them says where a thread is, so they
are far from inductive. `ThreadsInv` adds two things.

* `TableCore`, as long as no changing call has met another (`overlap`). `Contents`
  ties array and heap to the history `env`: the cells hold one entry for each
  variable that the finished calls have set, with its value, and nothing else is
  allocated but what is named apart. When no call is changing the table, it holds
  of all the cells. For a call that is in it, `Place` says how far it has got
  (room for two more cells after `realloc`; the old entry gone while it is
  replaced; the variable already away, `Without`, while the rest moves down; the
  new one there but the array not closed, `With`), and that its own new entry is
  not in the table (`Own`, `Fresh`). `Sole`: no other array is allocated.
* `HoldCore`, as long as no variable was changed under its reader either
  (`taken`): memory is not misused, who has a pointer from `VMLGetEnv` has the
  current value of that variable (`Held`), and no pointer is to an entry that is
  not in the table yet (`Unseen`).

A step that changes the table is made by a thread that is alone in it (`Alone`),
a call enters one that is closed (`EntersClosed`), and a step that frees an entry
leaves the holders alone, since none of them holds that variable. `TableFrame`
and `HoldFrame` reduce a step to what it does to its own thread, the table and
the pointers held; the lemmas `ContentsMoved` to `ContentsMissed` say what each
change of a cell or an entry makes of `Contents`; there is one lemma per action
under them. `TableAtRest` also counts: the cells are as many as the entries and
as the variables set, by a bijection from `1 .. n` to each (`ContentsCounted`,
`EntriesOfVariables`). `ReadsCurrent` is an action property; the answer null
needs that a scan that reaches the end has passed every entry (`ScanUnset`).
`ThreadsTypeCorrect` holds without any condition on races.

`NidTablesProofs` is about `Named` alone, what the tool should make of a
dictionary: it keeps and adds the right NIDs (lemmas `NamedKeepsNids`,
`NamedNamesKnown`), and without a clash it is a dictionary (`NamedIsDictionary`)
that naming again does not change (`NamedTwice`).

`NidProofs` says when the tool makes `Named`: all six properties of
`nid_symbols`, for any number of sections, entries and members, from
`NameAssumption` (a made-up name is no symbol) and `InputAssumption`. What the
file is at the end needs what it is in the middle of each loop: `NidInv` says
which entries have been renamed and which added so far, what `changed` and
`edited` know of it, and that sections not begun are as they were. Clashes make
`Put` lose entries, so the invariant tells the two cases apart. With
`FileIsNamed` the lemmas about `Named` become facts about the tool: without a
clash a finished run has kept every NID and added those of the archive
(`ToolKeepsNids`), each under its symbol unless the file had it under another
one (`ToolGivesSymbols`).

`StubProofs`: `LibIsResult` for any number of stops and either answer of
`nids-extract`, from `PipelineAssumption` and `FileAssumption`. Whatever was
stopped, the yaml is at one of three stages: as exported, named, or named and
cleaned (`YamlStage`); `NamedAfterClean` shows that naming any of them gives the
same entries, so the library comes out the same.

Only model-checked: liveness (`CallsReturn`, `ShutdownReturns`, `SampleEnds`,
`StubBuilt`, `GoalMade`), which is out of the prover's reach here. Every safety
property that a passing run checks is stated by a theorem.

## Not modelled

* `headers/mono`, nearly all of the repository's lines: the headers of Unity's
  Mono, with the tables in them. Nothing of it is this project's code, and what
  the loader relies on is in `Loader`. `headers/VML`: declarations and logging
  macros. The project's own code is a little over a thousand lines of C, C#,
  Python and CMake, and the modules follow most of what of it has state.
* Text of logs, stack size, affinity and priority of the Mono main thread (they
  are handed on), `VMLSetCommandLineArgs` (handed on), `VMLEnd` (its log is
  never open), `mono_tracev_inner` (text only).
* Unhandled managed exceptions: their policy is Mono's.
* What happens after undefined behaviour.
* `get_TickCount`, `InternalCodePage`, `GetCurrentDirectory`: conversions and
  constants without state. `_vita2d_pgf_draw_text` and the other calls of
  Vita2D, which go straight to vita2d; what `Sample2.cs` draws.
* The text of `objdump` and yaml, `vita-libs-gen`, packaging (vpk), the targets
  that send a program to a device, install rules.

## Plan

Done: `EnvStrings`, `EnvMap`, `EnvTable`, `EnvThreads`; `RuntimeLife`, `Loader`,
`LoaderClient`; `Sample`; `NidTables`, `NidSymbols`, `StubPipeline`; `Build`; each with its proofs.

What could be added: an abstract table whose calls are single steps, which
`EnvThreads` implements until raced (`TableAtRest` and `ReadsCurrent` are what it
would promise); `LogOpenWhileUsed` for a program with any number of threads that
log.
