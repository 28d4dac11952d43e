---------------------------- MODULE LoaderClient ----------------------------
(***************************************************************************)
(* Any application that uses VitaMonoLoader as VML.h offers it: from its   *)
(* thread it sets paths, registers assemblies and initializes the loader,  *)
(* again if the root domain could not be created; its root entry registers *)
(* and runs assemblies, and its C# code starts threads that need not end.  *)
(***************************************************************************)
EXTENDS Loader

InitParams == [entry : Entry, debug : BOOLEAN]

(* Once the root domain is gone Mono itself is not there to be called.     *)
AppCalls ==
  /\ domain # "gone"
  /\ \/ \E p \in Path : VMLSetPaths(p)
     \/ \E info \in Assembly \cup {NULL} : VMLRegisterAssembly(info)
     \/ \E info \in Assembly : RegisterModule(info)
     \/ \E info \in Assembly \cup {NULL} : VMLRunMainRejected(info)
     \/ \E info \in Assembly \cup {NULL} : VMLRunMainFails(info)
     \/ \E info \in Assembly \cup {NULL} : VMLRunMain(info)
     \/ \E entry \in Entry \cup {NULL} : VMLInitializeRejected(entry)
     \/ \E entry \in Entry \cup {NULL}, debug \in BOOLEAN :
          VMLInitialize(entry, debug)

(* What the application's code ends when it sees fit.                      *)
AppReturns == RootEntryReturns \/ MainReturns \/ MainReturnsNothing

ManagedThreads ==
  \E w \in Worker : StartThread(w) \/ StartWork(w) \/ EndWorker(w)

(* The code of the loader itself between two calls of the application.     *)
LoaderSteps ==
  \/ VMLCoreAssembliesRegister \/ ConfigureAotOnly \/ EnableTrace \/ SetDirs
  \/ JitInit \/ JitInitFails \/ PrepareDomain \/ RootEntry
  \/ SetShuttingDown \/ PoolCleanup \/ SuspendOthers \/ JitCleanup
  \/ VMLInitializeReturns

Next == AppCalls \/ AppReturns \/ ManagedThreads \/ LoaderSteps

Spec == Init /\ [][Next]_loaderVars

(* The kernel goes on running the two threads of the loader.  Managed      *)
(* threads and the application's code may run on for ever.                 *)
FairSpec == Spec /\ WF_loaderVars(LoaderSteps)

-----------------------------------------------------------------------------
TypeOK ==
  /\ paths \in Path \cup {NULL}
  /\ dirs \in Path \cup {NULL}
  /\ verbose \in BOOLEAN /\ tracing \in BOOLEAN
  /\ aotOnly \in BOOLEAN
  /\ shuttingDown \in BOOLEAN /\ pool \in BOOLEAN
  /\ s_rootEntry \in Entry \cup {NULL}
  /\ aot \subseteq Core \cup Assembly
  /\ icalls \subseteq Icall
  /\ domain \in {"none", "up", "gone"}
  /\ worker \in [Worker -> {"none", "running", "suspended"}]
  /\ main \in Labels
  /\ app \in {"idle", "initialize"}
  /\ app = "idle" <=> main = "none"
  /\ answer \in {NULL, "OK", "EINVAL", "INVALID_ARGUMENT", "result"}
  /\ asked \in InitParams \cup {NULL}
  /\ debugAsked \in BOOLEAN
  /\ ran \in Seq(Entry)

(* Managed code, Main or a thread it started, never runs without all that  *)
(* initPSP2Stage2 sets up: the core assemblies registered, no JIT, every   *)
(* internal call of VMLCoreAssemblies patched, on a live root domain; also *)
(* not while monoShutdown takes the runtime down, or on a second attempt.  *)
ManagedPrepared ==
  ManagedRuns =>
    /\ domain = "up"
    /\ aotOnly
    /\ Core \subseteq aot
    /\ icalls = Icall

(* Whichever attempt creates the root domain, it is created with no JIT    *)
(* and the core assemblies registered, with the paths that were set last,  *)
(* and traced if and only if this attempt or one that failed before it     *)
(* asked for debugging: an application cannot take that back.              *)
DomainAsConfigured ==
  [][domain = "none" /\ domain' = "up" =>
       /\ aotOnly
       /\ Core \subseteq aot
       /\ dirs = paths
       /\ tracing = debugAsked]_loaderVars

(* A VMLInitialize that comes back has run the root entry it was given,    *)
(* exactly once, and a failed creation of the root domain has run none.    *)
EntryRunsOnce ==
  main = "ended" =>
    ran = IF domain = "none" THEN <<>> ELSE <<asked.entry>>

(* The loader keeps the promise of RuntimeLife.  The runtime is up when    *)
(* initPSP2Stage2 has finished and closing when monoShutdown has barred    *)
(* new threads and closed the pool; NULL stands for the Mono main thread.  *)
Phase ==
  IF domain = "gone" THEN "gone"
  ELSE IF shuttingDown /\ ~ pool THEN "closing"
  ELSE IF icalls = Icall THEN "up" ELSE "off"

Running == {w \in Worker : worker[w] = "running"} \cup
           (IF main = "managed" THEN {NULL} ELSE {})

Life == INSTANCE RuntimeLife WITH
          Thread <- Worker \cup {NULL}, phase <- Phase, running <- Running

KeepsLife == Life!Spec

(* Once the root entry has returned, VMLInitialize returns as well: the    *)
(* shutdown does not wait for managed threads, which may never end.        *)
ShutdownReturns == main = "stop" ~> app = "idle"

-----------------------------------------------------------------------------
(* What makes the properties above inductive.  Where the Mono main thread  *)
(* is says how far the runtime is set up.                                  *)

Setup == {"register", "aot_only", "trace", "dirs", "jit_init"}

(* Where managed threads may be running.                                   *)
Live == {"root", "managed", "stop", "pool", "suspend", "crashed"}

Ready == Live \cup {"entry", "cleanup"}

(* A VMLInitialize that has not returned has left its arguments behind,    *)
(* and each one its wish to debug.                                         *)
ArgumentsKept ==
  /\ main # "none" => asked \in InitParams /\ s_rootEntry = asked.entry
  /\ verbose = debugAsked

SetupInOrder ==
  /\ main \notin {"none", "register"} => Core \subseteq aot
  /\ main \in {"trace", "dirs", "jit_init", "prepare"} \cup Ready => aotOnly
  /\ main \in {"dirs", "jit_init"} => tracing = verbose
  /\ main = "jit_init" => dirs = paths

DomainInOrder ==
  /\ main \in Setup => domain = "none"
  /\ main \in {"none", "ended"} => domain \in {"none", "gone"}
  /\ main \in {"prepare"} \cup Ready => domain = "up"
  /\ main \in Ready => icalls = Icall
  /\ domain = "none" \/ main = "prepare" => icalls = {}

EntryInOrder ==
  /\ main \in Setup \cup {"prepare", "entry"} => ran = <<>>
  /\ main \in Ready \ {"entry"} => ran = <<asked.entry>>
  /\ EntryRunsOnce

ShutdownInOrder ==
  /\ shuttingDown <=> main \in {"pool", "suspend", "cleanup"} \/ domain = "gone"
  /\ ~ pool <=> main \in {"suspend", "cleanup"} \/ domain = "gone"
  /\ \A w \in Worker : worker[w] = "running" => main \in Live

(* The inductive invariant.                                                *)
LInv ==
  /\ TypeOK
  /\ ArgumentsKept
  /\ SetupInOrder
  /\ DomainInOrder
  /\ EntryInOrder
  /\ ShutdownInOrder

=============================================================================
