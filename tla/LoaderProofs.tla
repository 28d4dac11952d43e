---------------------------- MODULE LoaderProofs ----------------------------
(***************************************************************************)
(* LoaderClient for every set of core assemblies, applications, internal   *)
(* calls, managed threads, root entries and paths.  LInv ties the state of *)
(* Mono to the place of the Mono main thread; everything follows from it.  *)
(***************************************************************************)
EXTENDS LoaderClient, TLAPS

USE DEF statics, setup, threads, control, history

-----------------------------------------------------------------------------
(* LInv is inductive.                                                      *)

LEMMA InitLInv == Init => LInv
<1>. SUFFICES ASSUME Init
              PROVE  LInv
  OBVIOUS
<1>. USE DEF Init
<1>1. TypeOK
  <2>1. worker \in [Worker -> {"none", "running", "suspended"}]  OBVIOUS
  <2>2. main \in Labels                                  BY DEF Labels
  <2>3. aot \subseteq Core \cup Assembly /\ icalls \subseteq Icall
    OBVIOUS
  <2>4. ran \in Seq(Entry)                               OBVIOUS
  <2>. QED BY <2>1, <2>2, <2>3, <2>4 DEF TypeOK
<1>2. ArgumentsKept    BY DEF ArgumentsKept
<1>3. SetupInOrder     BY DEF SetupInOrder, Ready, Live
<1>4. DomainInOrder    BY DEF DomainInOrder, Setup, Ready, Live
<1>5. EntryInOrder     BY DEF EntryInOrder, EntryRunsOnce, Setup, Ready, Live
<1>6. ShutdownInOrder  BY DEF ShutdownInOrder, Live
<1>. QED BY <1>1, <1>2, <1>3, <1>4, <1>5, <1>6 DEF LInv

(* What the application may call from its thread or from its root entry.   *)
LEMMA CallsKeepLInv ==
  ASSUME LInv, AppCalls
  PROVE  LInv'
<1>. USE DEF LInv, TypeOK, ArgumentsKept, SetupInOrder, DomainInOrder,
             EntryInOrder, EntryRunsOnce, ShutdownInOrder, Setup, Live, Ready,
             Labels, InitParams
<1>1. ASSUME NEW p \in Path, VMLSetPaths(p)
      PROVE  LInv'
  BY <1>1 DEF VMLSetPaths, Calling
<1>2. ASSUME NEW info \in Assembly \cup {NULL}, VMLRegisterAssembly(info)
      PROVE  LInv'
  BY <1>2 DEF VMLRegisterAssembly
<1>3. ASSUME NEW info \in Assembly \cup {NULL}, VMLRunMainRejected(info)
      PROVE  LInv'
  BY <1>3 DEF VMLRunMainRejected
<1>4. ASSUME NEW info \in Assembly \cup {NULL}, VMLRunMainFails(info)
      PROVE  LInv'
  BY <1>4 DEF VMLRunMainFails
<1>5. ASSUME NEW info \in Assembly \cup {NULL}, VMLRunMain(info)
      PROVE  LInv'
  BY <1>5 DEF VMLRunMain, MainStep
<1>6. ASSUME NEW entry \in Entry \cup {NULL}, VMLInitializeRejected(entry)
      PROVE  LInv'
  BY <1>6 DEF VMLInitializeRejected
<1>7. ASSUME NEW entry \in Entry \cup {NULL}, NEW debug \in BOOLEAN,
             domain # "gone", VMLInitialize(entry, debug)
      PROVE  LInv'
  BY <1>7 DEF VMLInitialize
<1>8. ASSUME NEW info \in Assembly, RegisterModule(info)
      PROVE  LInv'
  BY <1>8 DEF RegisterModule
<1>. QED BY <1>1, <1>2, <1>3, <1>4, <1>5, <1>6, <1>7, <1>8, AppCalls
         DEF AppCalls

(* initPSP2Stage2 and the call of the root entry.                          *)
LEMMA SetupKeepsLInv ==
  ASSUME LInv
  PROVE  /\ VMLCoreAssembliesRegister => LInv'
         /\ ConfigureAotOnly => LInv'
         /\ EnableTrace => LInv'
         /\ SetDirs => LInv'
         /\ JitInit => LInv'
         /\ JitInitFails => LInv'
         /\ PrepareDomain => LInv'
         /\ RootEntry => LInv'
<1>. USE DEF LInv, TypeOK, ArgumentsKept, SetupInOrder, DomainInOrder,
             EntryInOrder, EntryRunsOnce, ShutdownInOrder, Setup, Live, Ready,
             Labels, InitParams, InitStep, MainStep
<1>1. VMLCoreAssembliesRegister => LInv'
  BY DEF VMLCoreAssembliesRegister
<1>2. ConfigureAotOnly => LInv'
  BY DEF ConfigureAotOnly
<1>3. EnableTrace => LInv'
  BY DEF EnableTrace
<1>4. SetDirs => LInv'
  BY DEF SetDirs
<1>5. JitInit => LInv'
  BY DEF JitInit
<1>6. JitInitFails => LInv'
  BY DEF JitInitFails
<1>7. PrepareDomain => LInv'
  BY DEF PrepareDomain
<1>8. RootEntry => LInv'
  BY DEF RootEntry
<1>. QED BY <1>1, <1>2, <1>3, <1>4, <1>5, <1>6, <1>7, <1>8

(* The application's code ends, monoShutdown follows, VMLInitialize ends.  *)
LEMMA EndingKeepsLInv ==
  ASSUME LInv
  PROVE  /\ AppReturns => LInv'
         /\ SetShuttingDown => LInv'
         /\ PoolCleanup => LInv'
         /\ SuspendOthers => LInv'
         /\ JitCleanup => LInv'
         /\ VMLInitializeReturns => LInv'
<1>. USE DEF LInv, TypeOK, ArgumentsKept, SetupInOrder, DomainInOrder,
             EntryInOrder, EntryRunsOnce, ShutdownInOrder, Setup, Live, Ready,
             Labels, InitParams, ShutdownStep, MainStep
<1>1. RootEntryReturns => LInv'
  BY DEF RootEntryReturns
<1>2. MainReturns => LInv'
  BY DEF MainReturns
<1>3. MainReturnsNothing => LInv'
  BY DEF MainReturnsNothing
<1>4. SetShuttingDown => LInv'
  BY DEF SetShuttingDown
<1>5. ASSUME PoolCleanup
      PROVE  LInv'
  <2>. USE <1>5 DEF PoolCleanup
  <2>1. TypeOK'           OBVIOUS
  <2>2. ArgumentsKept'    OBVIOUS
  <2>3. SetupInOrder'     OBVIOUS
  <2>4. DomainInOrder'    OBVIOUS
  <2>5. EntryInOrder'     OBVIOUS
  <2>6. ShutdownInOrder'  OBVIOUS
  <2>. QED BY <2>1, <2>2, <2>3, <2>4, <2>5, <2>6
<1>6. SuspendOthers => LInv'
  BY DEF SuspendOthers
<1>7. JitCleanup => LInv'
  BY DEF JitCleanup
<1>8. VMLInitializeReturns => LInv'
  BY DEF VMLInitializeReturns
<1>. QED BY <1>1, <1>2, <1>3, <1>4, <1>5, <1>6, <1>7, <1>8 DEF AppReturns

(* A managed thread starts or ends: only where one may be running.         *)
LEMMA ThreadsKeepLInv ==
  ASSUME LInv, ManagedThreads
  PROVE  LInv'
<1>. USE DEF LInv, TypeOK, ArgumentsKept, SetupInOrder, DomainInOrder,
             EntryInOrder, EntryRunsOnce, ShutdownInOrder, Setup, Live, Ready,
             Labels, InitParams
<1>1. PICK w \in Worker : StartThread(w) \/ StartWork(w) \/ EndWorker(w)
  BY ManagedThreads DEF ManagedThreads
<1>2. CASE StartThread(w)
  BY <1>2 DEF StartThread, ManagedRuns
<1>3. CASE StartWork(w)
  BY <1>3 DEF StartWork, ManagedRuns
<1>4. CASE EndWorker(w)
  BY <1>4 DEF EndWorker
<1>. QED BY <1>1, <1>2, <1>3, <1>4

LEMMA NextLInv == LInv /\ [Next]_loaderVars => LInv'
<1>. SUFFICES ASSUME LInv, [Next]_loaderVars
              PROVE  LInv'
  OBVIOUS
<1>1. CASE Next
  <2>1. CASE AppCalls       BY <2>1, CallsKeepLInv
  <2>2. CASE AppReturns     BY <2>2, EndingKeepsLInv
  <2>3. CASE ManagedThreads BY <2>3, ThreadsKeepLInv
  <2>4. CASE LoaderSteps
    BY <2>4, SetupKeepsLInv, EndingKeepsLInv DEF LoaderSteps
  <2>. QED BY <1>1, <2>1, <2>2, <2>3, <2>4 DEF Next
<1>2. CASE UNCHANGED loaderVars
  BY <1>2 DEF loaderVars, LInv, TypeOK, ArgumentsKept, SetupInOrder,
              DomainInOrder, EntryInOrder, EntryRunsOnce, ShutdownInOrder,
              Setup, Live, Ready, Labels, InitParams
<1>. QED BY <1>1, <1>2

(* The place of the Mono main thread tells how far Mono is set up or taken *)
(* down, in every reachable state: the order of the calls in               *)
(* initPSP2Stage2, monoMain and monoShutdown.                              *)
THEOREM LoaderInvariant == Spec => []LInv
<1>1. Init => LInv                            BY InitLInv
<1>2. LInv /\ [Next]_loaderVars => LInv'      BY NextLInv
<1>. QED BY <1>1, <1>2, PTL DEF Spec

-----------------------------------------------------------------------------
(* The invariants that the run checks.                                     *)

(* Type correctness, and an idle application means no Mono main thread.    *)
THEOREM LoaderTypeCorrect == Spec => []TypeOK
<1>1. LInv => TypeOK  BY DEF LInv
<1>. QED BY <1>1, LoaderInvariant, PTL

(* Managed code never runs on a runtime that initPSP2Stage2 has not        *)
(* finished or that monoShutdown has taken down, whatever the application  *)
(* and its threads do.                                                     *)
THEOREM ManagedCodePrepared == Spec => []ManagedPrepared
<1>1. LInv => ManagedPrepared
  BY DEF LInv, SetupInOrder, DomainInOrder, ShutdownInOrder, ManagedPrepared,
         ManagedRuns, Live, Ready
<1>. QED BY <1>1, LoaderInvariant, PTL

(* VMLInitialize runs the root entry of this very call, once, or none when *)
(* the root domain cannot be created.                                      *)
THEOREM RootEntryRunsOnce == Spec => []EntryRunsOnce
<1>1. LInv => EntryRunsOnce  BY DEF LInv, EntryInOrder
<1>. QED BY <1>1, LoaderInvariant, PTL

(* The root domain is created after initPSP2Stage2 has configured Mono: no *)
(* JIT, the core assemblies, the paths set last, and tracing exactly when  *)
(* an attempt so far has asked for debugging.                              *)
THEOREM DomainConfigured == Spec => DomainAsConfigured
<1>. DEFINE Configured == /\ aotOnly
                          /\ Core \subseteq aot
                          /\ dirs = paths
                          /\ tracing = debugAsked
            Created == domain = "none" /\ domain' = "up" => Configured
<1>1. LInv /\ [Next]_loaderVars => [Created]_loaderVars
  <2>. SUFFICES ASSUME LInv, Next, domain = "none", domain' = "up"
                PROVE  Configured
    OBVIOUS
  <2>1. JitInit
    BY DEF Next, AppCalls, AppReturns, ManagedThreads, LoaderSteps,
           VMLSetPaths, VMLRegisterAssembly, RegisterModule,
           VMLRunMainRejected, VMLRunMainFails, VMLRunMain,
           VMLInitializeRejected, VMLInitialize, RootEntryReturns, MainReturns, MainReturnsNothing, StartThread,
           StartWork, EndWorker, VMLCoreAssembliesRegister, ConfigureAotOnly,
           EnableTrace, SetDirs, JitInitFails, PrepareDomain, RootEntry,
           SetShuttingDown, PoolCleanup, SuspendOthers, JitCleanup,
           VMLInitializeReturns, InitStep, ShutdownStep, MainStep
  <2>. QED
    BY <2>1 DEF LInv, ArgumentsKept, SetupInOrder, JitInit, InitStep, MainStep
<1>. QED BY <1>1, LoaderInvariant, PTL DEF Spec, DomainAsConfigured

-----------------------------------------------------------------------------
(* The loader implements RuntimeLife: what each step is there.             *)

(* A step that leaves alone what the phase and the running threads are     *)
(* read from is a stutter.                                                 *)
LEMMA Stutters ==
  ASSUME UNCHANGED <<domain, icalls, threads>>,
         main = "managed" <=> main' = "managed"
  PROVE  UNCHANGED <<Phase, Running>>
BY DEF Phase, Running

LEMMA CallsKeepLife ==
  ASSUME LInv, AppCalls
  PROVE  [Life!Next]_Life!vars
<1>. USE DEF LInv, DomainInOrder, ShutdownInOrder, Ready, Live
<1>1. CASE \E info \in Assembly \cup {NULL} : VMLRunMain(info)
  <2>1. Phase = "up" /\ NULL \notin Running
    BY <1>1, LoaderNullAssumption DEF VMLRunMain, MainStep, Phase, Running
  <2>2. Phase' = Phase /\ Running' = Running \cup {NULL}
    BY <1>1 DEF VMLRunMain, MainStep, Phase, Running
  <2>. QED BY <2>1, <2>2 DEF Life!Next, Life!Start
<1>2. CASE ~ \E info \in Assembly \cup {NULL} : VMLRunMain(info)
  <2>1. /\ UNCHANGED <<domain, icalls, threads>>
        /\ main = "managed" <=> main' = "managed"
    BY <1>2, AppCalls
       DEF AppCalls, VMLSetPaths, VMLRegisterAssembly, RegisterModule,
           VMLRunMainRejected, VMLRunMainFails, VMLInitializeRejected, VMLInitialize, TypeOK
  <2>. QED BY <2>1, Stutters DEF Life!vars
<1>. QED BY <1>1, <1>2

LEMMA ReturnsKeepLife ==
  ASSUME LInv, AppReturns
  PROVE  [Life!Next]_Life!vars
<1>1. CASE RootEntryReturns
  BY <1>1, Stutters DEF RootEntryReturns, MainStep, Life!vars
<1>2. CASE MainReturns \/ MainReturnsNothing
  <2>1. NULL \in Running
    BY <1>2 DEF MainReturns, MainReturnsNothing, MainStep, Running
  <2>2. Phase' = Phase
    BY <1>2 DEF MainReturns, MainReturnsNothing, MainStep, Phase
  <2>3. Running' = Running \ {NULL}
    BY <1>2, LoaderNullAssumption
       DEF MainReturns, MainReturnsNothing, MainStep, Running
  <2>. QED BY <2>1, <2>2, <2>3 DEF Life!Next, Life!Stop
<1>. QED BY <1>1, <1>2, AppReturns DEF AppReturns

LEMMA ThreadsKeepLife ==
  ASSUME LInv, ManagedThreads
  PROVE  [Life!Next]_Life!vars
<1>1. PICK w \in Worker : StartThread(w) \/ StartWork(w) \/ EndWorker(w)
  BY ManagedThreads DEF ManagedThreads
<1>2. Phase' = Phase
  BY <1>1 DEF StartThread, StartWork, EndWorker, Phase
<1>3. worker \in [Worker -> {"none", "running", "suspended"}]
  BY DEF LInv, TypeOK
<1>4. CASE StartThread(w) \/ StartWork(w)
  <2>1. Phase = "up"
    BY <1>4 DEF StartThread, StartWork, ManagedRuns, Phase, LInv,
                DomainInOrder, ShutdownInOrder, Ready, Live
  <2>2. w \notin Running /\ Running' = Running \cup {w}
    BY <1>3, <1>4, LoaderNullAssumption
       DEF StartThread, StartWork, Running
  <2>. QED BY <1>2, <2>1, <2>2 DEF Life!Next, Life!Start
<1>5. CASE EndWorker(w)
  <2>1. w \in Running /\ Running' = Running \ {w}
    BY <1>3, <1>5, LoaderNullAssumption DEF EndWorker, Running
  <2>. QED BY <1>2, <2>1 DEF Life!Next, Life!Stop
<1>. QED BY <1>1, <1>4, <1>5

LEMMA StepsKeepLife ==
  ASSUME LInv, LoaderSteps
  PROVE  [Life!Next]_Life!vars
<1>. USE DEF LInv, DomainInOrder, ShutdownInOrder, Setup, Ready, Live,
             InitStep, ShutdownStep, MainStep
<1>1. CASE \/ VMLCoreAssembliesRegister \/ ConfigureAotOnly \/ EnableTrace
           \/ SetDirs \/ JitInitFails \/ RootEntry \/ VMLInitializeReturns
  <2>1. /\ UNCHANGED <<domain, icalls, threads>>
        /\ main = "managed" <=> main' = "managed"
    BY <1>1 DEF VMLCoreAssembliesRegister, ConfigureAotOnly, EnableTrace,
                SetDirs, JitInitFails, RootEntry, VMLInitializeReturns
  <2>. QED BY <2>1, Stutters DEF Life!vars
<1>2. CASE JitInit
  <2>1. Phase' = Phase /\ Running' = Running
    BY <1>2, IcallAssumption DEF JitInit, Phase, Running
  <2>. QED BY <2>1 DEF Life!vars
<1>3. CASE PrepareDomain
  <2>1. Phase = "off" /\ Phase' = "up" /\ Running' = Running
    BY <1>3, IcallAssumption DEF PrepareDomain, Phase, Running
  <2>. QED BY <2>1 DEF Life!Next, Life!Boot
<1>4. CASE SetShuttingDown
  <2>1. Phase' = Phase /\ Running' = Running
    BY <1>4 DEF SetShuttingDown, Phase, Running
  <2>. QED BY <2>1 DEF Life!vars
<1>5. CASE PoolCleanup
  <2>1. Phase = "up" /\ Phase' = "closing" /\ Running' = Running
    BY <1>5 DEF PoolCleanup, Phase, Running
  <2>. QED BY <2>1 DEF Life!Next, Life!Close
<1>6. CASE SuspendOthers
  <2>1. Phase = "closing" /\ Phase' = "closing"
    BY <1>6 DEF SuspendOthers, Phase
  <2>2. Running' = {}
    BY <1>6 DEF SuspendOthers, Running
  <2>. QED BY <2>1, <2>2 DEF Life!Next, Life!StopAll
<1>7. CASE JitCleanup
  <2>1. Phase = "closing" /\ Phase' = "gone"
    BY <1>7 DEF JitCleanup, Phase
  <2>2. Running = {} /\ Running' = Running
    BY <1>7 DEF JitCleanup, Running
  <2>. QED BY <2>1, <2>2 DEF Life!Next, Life!TearDown
<1>. QED BY <1>1, <1>2, <1>3, <1>4, <1>5, <1>6, <1>7, LoaderSteps
         DEF LoaderSteps

(* Managed code starts only on a runtime that is up, none starts once the  *)
(* runtime closes, and it is torn down only when none runs: the loader     *)
(* keeps this whatever the application does and whichever threads end.     *)
THEOREM LoaderKeepsLife == Spec => KeepsLife
<1>1. Init => Life!Init
  BY IcallAssumption DEF Init, Life!Init, Phase, Running
<1>2. LInv /\ [Next]_loaderVars => [Life!Next]_Life!vars
  <2>. SUFFICES ASSUME LInv, [Next]_loaderVars
                PROVE  [Life!Next]_Life!vars
    OBVIOUS
  <2>1. CASE Next
    BY <2>1, CallsKeepLife, ReturnsKeepLife, ThreadsKeepLife, StepsKeepLife
       DEF Next
  <2>2. CASE UNCHANGED loaderVars
    BY <2>2, Stutters DEF loaderVars, Life!vars
  <2>. QED BY <2>1, <2>2
<1>. QED BY <1>1, <1>2, LoaderInvariant, PTL DEF Spec, KeepsLife, Life!Spec

=============================================================================
