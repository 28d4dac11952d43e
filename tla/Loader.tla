------------------------------- MODULE Loader -------------------------------
(***************************************************************************)
(* VitaMonoLoader/main.c: the library an application starts Mono with, and *)
(* what it makes of the Mono runtime.  Two threads take turns: the one of  *)
(* the application, which VMLInitialize blocks, and the Mono main thread   *)
(* that VMLInitialize starts, which sets the runtime up, runs the root     *)
(* entry of the application and shuts the runtime down.  The managed       *)
(* threads that the application's C# code starts run beside them.          *)
(*                                                                         *)
(* This module has the operations; LoaderClient and Sample call them.      *)
(***************************************************************************)
EXTENDS Naturals, Sequences

CONSTANTS Core,        \* the core assemblies VMLCoreAssemblies is built with
          Assembly,    \* the assemblies of the application
          Icall,       \* the internal calls VMLCoreAssemblies patches
          Worker,      \* managed threads besides the Mono main thread
          PoolWorker,  \* those of them that belong to Mono's thread pool
          Entry,       \* root entries of the application
          Path,        \* what VMLSetPaths is called with
          NULL

ASSUME PoolAssumption == PoolWorker \subseteq Worker
ASSUME LoaderNullAssumption == NULL \notin Entry \cup Path \cup Assembly \cup Worker
ASSUME IcallAssumption == Icall # {}

VARIABLES
  paths,         \* _vml_assembly_path and _vml_config_path
  verbose,       \* s_monoVerboseDebug
  s_rootEntry,
  aot,           \* the modules given to mono_aot_register_module
  aotOnly,       \* mono_jit_set_aot_only(true) was called
  tracing,       \* mono_trace_enable
  dirs,          \* mono_set_dirs, mono_set_assemblies_path
  domain,        \* the root domain: "none", "up" or "gone"
  icalls,        \* the internal calls that are patched
  shuttingDown,  \* mono_threads_set_shutting_down was called
  pool,          \* the thread pool is open
  worker,        \* the state of each managed thread
  main,          \* where the Mono main thread is
  app,           \* what the application's thread is in: "idle", "initialize"
  answer,        \* what the last call answered
  asked,         \* history: the arguments of the last VMLInitialize
  debugAsked,    \* history: one of them so far asked for verbose debugging
  ran            \* history: the root entries it has run

statics == <<paths, verbose, s_rootEntry>>
setup == <<aot, aotOnly, tracing, dirs, domain, icalls>>
threads == <<shuttingDown, pool, worker>>
control == <<main, app, answer>>
history == <<asked, debugAsked, ran>>
loaderVars == <<statics, setup, threads, control, history>>

Labels == {"none", "register", "aot_only", "trace", "dirs", "jit_init",
           "prepare", "entry", "root", "managed", "stop", "pool", "suspend",
           "cleanup", "ended", "crashed"}

Init ==
  /\ paths = NULL
  /\ verbose = FALSE
  /\ s_rootEntry = NULL
  /\ aot = {}
  /\ aotOnly = FALSE
  /\ tracing = FALSE
  /\ dirs = NULL
  /\ domain = "none"
  /\ icalls = {}
  /\ shuttingDown = FALSE
  /\ pool = TRUE
  /\ worker = [w \in Worker |-> "none"]
  /\ main = "none"
  /\ app = "idle"
  /\ answer = NULL
  /\ asked = NULL
  /\ debugAsked = FALSE
  /\ ran = <<>>

(* Definitions whose names end in _bug are the code with a plausible       *)
(* mistake in it; they show that a property would notice.                  *)

(* A call of the application: from its thread, or from its root entry.     *)
Calling == app = "idle" \/ main = "root"

ManagedRuns == main = "managed" \/ \E w \in Worker : worker[w] = "running"

-----------------------------------------------------------------------------
(* The calls that only keep something for later.                           *)

VMLSetPaths(p) ==
  /\ Calling
  /\ paths' = p
  /\ UNCHANGED <<verbose, s_rootEntry, setup, threads, control, history>>

VMLRegisterAssembly(info) ==
  /\ Calling
  /\ IF info = NULL
       THEN answer' = "EINVAL" /\ UNCHANGED aot
       ELSE answer' = "OK" /\ aot' = aot \cup {info}
  /\ UNCHANGED <<statics, aotOnly, tracing, dirs, domain, icalls, threads, main,
                 app, history>>

(* A library of the application gives Mono a module of its own.            *)
RegisterModule(info) ==
  /\ Calling
  /\ aot' = aot \cup {info}
  /\ UNCHANGED <<statics, aotOnly, tracing, dirs, domain, icalls, threads,
                 control, history>>

-----------------------------------------------------------------------------
(* VMLInitialize and the thread MonoCreateMainThread starts and waits for. *)

VMLInitializeRejected(entry) ==
  /\ app = "idle"
  /\ entry = NULL
  /\ answer' = "INVALID_ARGUMENT"
  /\ UNCHANGED <<statics, setup, threads, main, app, history>>

(* Keeps the root entry of an earlier call.                                *)
VMLInitialize_bug(entry, debug) ==
  /\ app = "idle"
  /\ entry # NULL
  /\ verbose' = (verbose \/ debug)
  /\ s_rootEntry' = IF s_rootEntry = NULL THEN entry ELSE s_rootEntry
  /\ main' = "register"
  /\ app' = "initialize"
  /\ answer' = NULL
  /\ asked' = [entry |-> entry, debug |-> debug]
  /\ debugAsked' = (debugAsked \/ debug)
  /\ ran' = <<>>
  /\ UNCHANGED <<paths, setup, threads>>

(* Verbose debugging is switched on when asked for and never off again.    *)
VMLInitialize(entry, debug) ==
  /\ app = "idle"
  /\ entry # NULL
  /\ verbose' = (verbose \/ debug)
  /\ s_rootEntry' = entry
  /\ main' = "register"
  /\ app' = "initialize"
  /\ answer' = NULL
  /\ asked' = [entry |-> entry, debug |-> debug]
  /\ debugAsked' = (debugAsked \/ debug)
  /\ ran' = <<>>
  /\ UNCHANGED <<paths, setup, threads>>

(* Does not wait for the Mono main thread.                                 *)
VMLInitializeReturns_bug ==
  /\ app = "initialize"
  /\ app' = "idle"
  /\ answer' = "OK"
  /\ UNCHANGED <<statics, setup, threads, main, history>>

(* SCE_OK whatever became of the Mono main thread, once it has ended.      *)
VMLInitializeReturns ==
  /\ app = "initialize"
  /\ main = "ended"
  /\ main' = "none"
  /\ app' = "idle"
  /\ answer' = "OK"
  /\ UNCHANGED <<statics, setup, threads, history>>

-----------------------------------------------------------------------------
(* A step of the Mono main thread.                                         *)
MainStep(from, to) ==
  /\ main = from
  /\ main' = to
  /\ UNCHANGED <<statics, app, answer, asked, debugAsked>>

(* One of initPSP2Stage2.                                                  *)
InitStep(from, to) == MainStep(from, to) /\ UNCHANGED <<threads, ran>>

VMLCoreAssembliesRegister ==
  /\ InitStep("register", "aot_only")
  /\ aot' = aot \cup Core
  /\ UNCHANGED <<aotOnly, tracing, dirs, domain, icalls>>

ConfigureAotOnly ==
  /\ InitStep("aot_only", "trace")
  /\ aotOnly' = TRUE
  /\ UNCHANGED <<aot, tracing, dirs, domain, icalls>>

EnableTrace ==
  /\ InitStep("trace", "dirs")
  /\ tracing' = verbose
  /\ UNCHANGED <<aot, aotOnly, dirs, domain, icalls>>

(* Gives Mono the paths the first time only.                               *)
SetDirs_bug ==
  /\ InitStep("dirs", "jit_init")
  /\ dirs' = IF dirs = NULL THEN paths ELSE dirs
  /\ UNCHANGED <<aot, aotOnly, tracing, domain, icalls>>

SetDirs ==
  /\ InitStep("dirs", "jit_init")
  /\ dirs' = paths
  /\ UNCHANGED <<aot, aotOnly, tracing, domain, icalls>>

JitInit ==
  /\ InitStep("jit_init", "prepare")
  /\ domain' = "up"
  /\ UNCHANGED <<aot, aotOnly, tracing, dirs, icalls>>

(* mono_jit_init_version answers null: monoMain logs it and returns.       *)
JitInitFails == InitStep("jit_init", "ended") /\ UNCHANGED setup

(* Patches some internal calls and forgets another.                        *)
PrepareDomain_bug ==
  /\ InitStep("prepare", "entry")
  /\ \E i \in Icall : icalls' = Icall \ {i}
  /\ UNCHANGED <<aot, aotOnly, tracing, dirs, domain>>

PrepareDomain ==
  /\ InitStep("prepare", "entry")
  /\ icalls' = Icall
  /\ UNCHANGED <<aot, aotOnly, tracing, dirs, domain>>

RootEntry ==
  /\ MainStep("entry", "root")
  /\ ran' = Append(ran, s_rootEntry)
  /\ UNCHANGED <<setup, threads>>

RootEntryReturns ==
  MainStep("root", "stop") /\ UNCHANGED <<setup, threads, ran>>

-----------------------------------------------------------------------------
(* VMLRunMain(dll, info): its refusals, and the call of Program.Main.      *)

VMLRunMainRejected(info) ==
  /\ Calling
  /\ domain = "none" \/ info = NULL
  /\ answer' = "EINVAL"
  /\ UNCHANGED <<statics, setup, threads, main, app, history>>

(* The assembly, its image, Program or Main is missing; the module is      *)
(* registered all the same.                                                *)
VMLRunMainFails(info) ==
  /\ main = "root"
  /\ domain = "up"
  /\ info # NULL
  /\ aot' = aot \cup {info}
  /\ answer' = "EINVAL"
  /\ UNCHANGED <<statics, aotOnly, tracing, dirs, domain, icalls, threads, main,
                 app, history>>

VMLRunMain(info) ==
  /\ MainStep("root", "managed")
  /\ domain = "up"
  /\ info # NULL
  /\ aot' = aot \cup {info}
  /\ UNCHANGED <<aotOnly, tracing, dirs, domain, icalls, threads, ran>>

MainReturns ==
  /\ main = "managed"
  /\ answer' = "result"
  /\ main' = "root"
  /\ UNCHANGED <<statics, setup, threads, app, history>>

(* A Main without a result: mono_object_unbox of a null object.            *)
MainReturnsNothing ==
  MainStep("managed", "crashed") /\ UNCHANGED <<setup, threads, ran>>

-----------------------------------------------------------------------------
(* Managed threads, as Mono runs them.                                     *)

StartThread(w) ==
  /\ ManagedRuns
  /\ w \notin PoolWorker
  /\ ~ shuttingDown
  /\ worker[w] = "none"
  /\ worker' = [worker EXCEPT ![w] = "running"]
  /\ UNCHANGED <<statics, setup, shuttingDown, pool, control, history>>

(* A pool thread takes up work that managed code has queued.               *)
StartWork(w) ==
  /\ ManagedRuns
  /\ w \in PoolWorker
  /\ pool
  /\ worker[w] = "none"
  /\ worker' = [worker EXCEPT ![w] = "running"]
  /\ UNCHANGED <<statics, setup, shuttingDown, pool, control, history>>

EndWorker(w) ==
  /\ worker[w] = "running"
  /\ worker' = [worker EXCEPT ![w] = "none"]
  /\ UNCHANGED <<statics, setup, shuttingDown, pool, control, history>>

-----------------------------------------------------------------------------
(* monoShutdown, on the Mono main thread.                                  *)

ShutdownStep(from, to) == MainStep(from, to) /\ UNCHANGED ran

SetShuttingDown ==
  /\ ShutdownStep("stop", "pool")
  /\ shuttingDown' = TRUE
  /\ UNCHANGED <<setup, pool, worker>>

PoolCleanup ==
  /\ ShutdownStep("pool", "suspend")
  /\ pool' = FALSE
  /\ UNCHANGED <<setup, shuttingDown, worker>>

(* Leaves the threads of the pool alone.                                   *)
SuspendOthers_bug ==
  /\ ShutdownStep("suspend", "cleanup")
  /\ worker' = [w \in Worker |-> IF worker[w] = "running" /\ w \notin PoolWorker
                                   THEN "suspended" ELSE worker[w]]
  /\ UNCHANGED <<setup, shuttingDown, pool>>

(* Waits for the managed threads, the way an ordinary Mono host ends.      *)
SuspendOthers_wait_bug ==
  /\ ShutdownStep("suspend", "cleanup")
  /\ ~ ManagedRuns
  /\ UNCHANGED <<setup, threads>>

SuspendOthers ==
  /\ ShutdownStep("suspend", "cleanup")
  /\ worker' = [w \in Worker |-> IF worker[w] = "running" THEN "suspended"
                                                          ELSE worker[w]]
  /\ UNCHANGED <<setup, shuttingDown, pool>>

JitCleanup ==
  /\ ShutdownStep("cleanup", "ended")
  /\ domain' = "gone"
  /\ UNCHANGED <<aot, aotOnly, tracing, dirs, icalls, threads>>

=============================================================================
