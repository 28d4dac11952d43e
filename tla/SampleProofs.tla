---------------------------- MODULE SampleProofs ----------------------------
(***************************************************************************)
(* Both sample programs, with any core assemblies, internal calls and root *)
(* entries: they are applications as LoaderClient describes them, so its   *)
(* invariant LInv holds for them; MainInOrder, RootInOrder and LogInOrder  *)
(* add what the programs themselves keep.                                  *)
(***************************************************************************)
EXTENDS Sample, LoaderProofs

USE DEF build, files, statics, setup, threads, control, history

(* What a step of the programs has to show besides LInv.                   *)
ProgramInOrder == SampleTypeOK /\ MainInOrder /\ RootInOrder /\ LogInOrder

(* What LInv says of the two threads in the terms used below.              *)
LEMMA LoaderFacts ==
  ASSUME LInv
  PROVE  /\ app = "idle" <=> main = "none"
         /\ main \in Labels
         /\ main \in {"none", "ended"} => domain \in {"none", "gone"}
         /\ main \in Setup => domain = "none"
         /\ main \in {"prepare"} \cup Ready => domain = "up"
         /\ main = "jit_init" => dirs = paths
BY DEF LInv, TypeOK, SetupInOrder, DomainInOrder

LEMMA SampleInitially == SampleInit => SampleInv
<1>. SUFFICES ASSUME SampleInit
              PROVE  SampleInv
  OBVIOUS
<1>1. LInv
  BY InitLInv DEF SampleInit
<1>2. SampleTypeOK
  BY DEF SampleInit, SampleTypeOK, BeforeLoader
<1>3. MainInOrder
  BY DEF SampleInit, Init, MainInOrder, BeforeLoader
<1>4. RootInOrder
  BY DEF SampleInit, Init, RootInOrder, Ready, Live
<1>5. LogInOrder
  BY DEF SampleInit, Init, LogInOrder, Outcome, Ready, Live
<1>. QED BY <1>1, <1>2, <1>3, <1>4, <1>5 DEF SampleInv

-----------------------------------------------------------------------------
(* The programs use the loader as LoaderClient allows.                     *)

(* The places of main() and of rootEntry() at which they call the loader.  *)
LEMMA CallsAreAllowed ==
  ASSUME SampleInv,
         SetPaths \/ Initialize \/ VMLVita2DRegister \/ RunMain
  PROVE  AppCalls
<1>. USE SampleAssumption DEF AppCalls
<1>1. CASE SetPaths
  <2>1. domain # "gone"
    BY <1>1 DEF SampleInv, MainInOrder, BeforeLoader, SetPaths
  <2>2. \E p \in Path : VMLSetPaths(p)
    BY <1>1 DEF SetPaths
  <2>. QED BY <2>1, <2>2
<1>2. CASE Initialize
  <2>1. domain # "gone"
    BY <1>2 DEF SampleInv, MainInOrder, BeforeLoader, Initialize
  <2>2. \E entry \in Entry \cup {NULL}, debug \in BOOLEAN :
           VMLInitialize(entry, debug)
    BY <1>2 DEF Initialize
  <2>. QED BY <2>1, <2>2
<1>3. CASE VMLVita2DRegister
  <2>1. main \in {"root", "managed"}
    BY <1>3 DEF SampleInv, RootInOrder, VMLVita2DRegister
  <2>2. domain # "gone"
    BY <2>1, LoaderFacts DEF SampleInv, Ready, Live
  <2>3. \E info \in Assembly : RegisterModule(info)
    BY <1>3 DEF VMLVita2DRegister
  <2>. QED BY <2>2, <2>3
<1>4. CASE RunMain
  <2>1. domain # "gone"
    BY <1>4 DEF RunMain, VMLRunMain, VMLRunMainFails
  <2>2. \E info \in Assembly \cup {NULL} :
           VMLRunMain(info) \/ VMLRunMainFails(info)
    BY <1>4 DEF RunMain
  <2>. QED BY <2>1, <2>2
<1>. QED BY <1>1, <1>2, <1>3, <1>4

(* Every step of the programs is a step of LoaderClient or leaves the      *)
(* loader alone.                                                           *)
LEMMA StepsAreAllowed == SampleInv /\ [SampleNext]_vars => [Next]_loaderVars
<1>. SUFFICES ASSUME SampleInv, [SampleNext]_vars
              PROVE  Next \/ UNCHANGED loaderVars
  OBVIOUS
<1>1. CASE SetPaths \/ Initialize \/ VMLVita2DRegister \/ RunMain
  BY <1>1, CallsAreAllowed DEF Next
<1>2. CASE StartRootEntry \/ LoaderThread
  BY <1>2 DEF StartRootEntry, LoaderThread, LoaderSteps, Next
<1>3. CASE EndRootEntry \/ ProgramReturns
  BY <1>3 DEF EndRootEntry, ProgramReturns, AppReturns, Next
<1>4. CASE \/ OpenCoreLog \/ LoadModule \/ CoreModulesDone \/ OpenLog
           \/ ModulesDone \/ SetCommandLineArgs \/ LogResult \/ ReportInit
           \/ CloseLog
  BY <1>4 DEF OpenCoreLog, LoadModule, CoreModulesDone, OpenLog, ModulesDone,
              SetCommandLineArgs, LogResult, ReportInit, CloseLog
<1>5. CASE UNCHANGED vars
  BY <1>5 DEF vars
<1>. QED BY <1>1, <1>2, <1>3, <1>4, <1>5 DEF SampleNext

-----------------------------------------------------------------------------
(* SampleInv is inductive.                                                 *)

(* main() before and after the loader: nothing of the loader changes.      *)
LEMMA MainKeepsOrder ==
  ASSUME SampleInv
  PROVE  /\ OpenCoreLog => ProgramInOrder'
         /\ LoadModule => ProgramInOrder'
         /\ CoreModulesDone => ProgramInOrder'
         /\ OpenLog => ProgramInOrder'
         /\ ModulesDone => ProgramInOrder'
         /\ SetCommandLineArgs => ProgramInOrder'
         /\ ReportInit => ProgramInOrder'
         /\ CloseLog => ProgramInOrder'
<1>. USE DEF SampleInv, ProgramInOrder, SampleTypeOK, MainInOrder, RootInOrder,
             LogInOrder, Outcome, OutcomeLogged, Written,
             BeforeLoader, Ready, Live, loaderVars
<1>. USE LoaderFacts
<1>1. OpenCoreLog => ProgramInOrder'         BY DEF OpenCoreLog
<1>2. LoadModule => ProgramInOrder'          BY DEF LoadModule
<1>3. ASSUME CoreModulesDone PROVE ProgramInOrder'
  <2>. USE <1>3 DEF CoreModulesDone
  <2>1. SampleTypeOK' /\ MainInOrder'  OBVIOUS
  <2>2. RootInOrder'                   OBVIOUS
  <2>3. LogInOrder'                    OBVIOUS
  <2>. QED  BY <2>1, <2>2, <2>3
<1>4. OpenLog => ProgramInOrder'             BY DEF OpenLog
<1>5. ModulesDone => ProgramInOrder'         BY DEF ModulesDone
<1>6. SetCommandLineArgs => ProgramInOrder'  BY DEF SetCommandLineArgs
<1>7. ReportInit => ProgramInOrder'          BY DEF ReportInit
<1>8. CloseLog => ProgramInOrder'            BY DEF CloseLog
<1>. QED BY <1>1, <1>2, <1>3, <1>4, <1>5, <1>6, <1>7, <1>8

(* What main() and rootEntry() call of the loader.                         *)
LEMMA CallsKeepOrder ==
  ASSUME SampleInv
  PROVE  /\ SetPaths => ProgramInOrder'
         /\ Initialize => ProgramInOrder'
         /\ StartRootEntry => ProgramInOrder'
         /\ VMLVita2DRegister => ProgramInOrder'
         /\ RunMain => ProgramInOrder'
         /\ ProgramReturns => ProgramInOrder'
         /\ LogResult => ProgramInOrder'
         /\ EndRootEntry => ProgramInOrder'
<1>. USE DEF SampleInv, ProgramInOrder, SampleTypeOK, MainInOrder, RootInOrder,
             LogInOrder, Outcome, OutcomeLogged, Written,
             BeforeLoader, Setup, Ready, Live, MainStep
<1>. USE LoaderFacts
<1>1. SetPaths => ProgramInOrder'
  BY DEF SetPaths, VMLSetPaths
<1>2. Initialize => ProgramInOrder'
  BY DEF Initialize, VMLInitialize
<1>3. StartRootEntry => ProgramInOrder'
  BY DEF StartRootEntry, RootEntry
<1>4. VMLVita2DRegister => ProgramInOrder'
  BY DEF VMLVita2DRegister, RegisterModule
<1>5. RunMain => ProgramInOrder'
  BY DEF RunMain, VMLRunMain, VMLRunMainFails
<1>6. ProgramReturns => ProgramInOrder'
  BY DEF ProgramReturns, MainReturns, sampleVars
<1>7. ASSUME LogResult PROVE ProgramInOrder'
  <2>. USE <1>7 DEF LogResult, loaderVars
  <2>1. lines' = lines \cup {Outcome} /\ answer = Outcome  OBVIOUS
  <2>2. SampleTypeOK' /\ MainInOrder'  OBVIOUS
  <2>3. RootInOrder'                   OBVIOUS
  <2>4. LogInOrder'
    <3>1. lines \cap {"result", "EINVAL"} = {}  OBVIOUS
    <3>. QED  BY <2>1, <3>1
  <2>. QED  BY <2>2, <2>3, <2>4
<1>8. EndRootEntry => ProgramInOrder'
  BY DEF EndRootEntry, RootEntryReturns
<1>. QED BY <1>1, <1>2, <1>3, <1>4, <1>5, <1>6, <1>7, <1>8

(* The loader's own steps, while main() is blocked.                        *)
LEMMA LoaderKeepsOrder ==
  ASSUME SampleInv, LoaderThread
  PROVE  ProgramInOrder'
<1>. USE LoaderThread, LoaderFacts
     DEF SampleInv, ProgramInOrder, SampleTypeOK, MainInOrder, RootInOrder,
         LogInOrder, Outcome, OutcomeLogged,
         BeforeLoader, Setup, Ready, Live, MainStep, InitStep, ShutdownStep,
         LoaderThread, sampleVars
<1>1. CASE VMLCoreAssembliesRegister
  BY <1>1 DEF VMLCoreAssembliesRegister
<1>2. CASE ConfigureAotOnly \/ EnableTrace \/ SetDirs
  BY <1>2 DEF ConfigureAotOnly, EnableTrace, SetDirs
<1>3. CASE JitInit \/ JitInitFails \/ PrepareDomain
  BY <1>3 DEF JitInit, JitInitFails, PrepareDomain
<1>4. CASE SetShuttingDown \/ PoolCleanup \/ SuspendOthers
  BY <1>4 DEF SetShuttingDown, PoolCleanup, SuspendOthers
<1>5. CASE JitCleanup \/ VMLInitializeReturns
  BY <1>5 DEF JitCleanup, VMLInitializeReturns
<1>. QED BY <1>1, <1>2, <1>3, <1>4, <1>5

LEMMA SampleStep == SampleInv /\ [SampleNext]_vars => SampleInv'
<1>. SUFFICES ASSUME SampleInv, [SampleNext]_vars
              PROVE  SampleInv'
  OBVIOUS
<1>1. LInv'
  BY StepsAreAllowed, NextLInv DEF SampleInv
<1>2. ProgramInOrder'
  <2>1. CASE SampleNext
    BY <2>1, MainKeepsOrder, CallsKeepOrder, LoaderKeepsOrder DEF SampleNext
  <2>2. CASE UNCHANGED vars
    BY <2>2 DEF vars, loaderVars, sampleVars, SampleInv, ProgramInOrder,
                SampleTypeOK, MainInOrder, RootInOrder, LogInOrder, Outcome,
                OutcomeLogged
  <2>. QED BY <2>1, <2>2
<1>. QED BY <1>1, <1>2 DEF SampleInv, ProgramInOrder

(* Where main() is and where rootEntry() is fit each other and the loader, *)
(* in every reachable state of both programs.                              *)
THEOREM SampleInvariant == SampleSpec => []SampleInv
BY SampleInitially, SampleStep, PTL DEF SampleSpec

-----------------------------------------------------------------------------
(* What the run checks.                                                    *)

(* Both programs implement LoaderClient: main() calls the loader before    *)
(* the runtime is gone, rootEntry() on the thread that runs it.            *)
THEOREM SamplesUseLoader == SampleSpec => UsesLoader
<1>1. SampleInit => Init
  BY DEF SampleInit
<1>2. SampleInv /\ [SampleNext]_vars => [Next]_loaderVars
  BY StepsAreAllowed
<1>. QED BY <1>1, <1>2, SampleInvariant, PTL DEF SampleSpec, UsesLoader, Spec

(* So the managed code of both runs on a runtime that is set up in full.   *)
THEOREM SampleCodePrepared == SampleSpec => []ManagedPrepared
<1>1. UsesLoader => []ManagedPrepared
  BY ManagedCodePrepared DEF UsesLoader
<1>. QED BY <1>1, SamplesUseLoader, PTL

(* main() and rootEntry(), on two threads, never write to a log that is    *)
(* closed: main() closes it when the loader has ended the other thread.    *)
THEOREM LogsStayOpen == SampleSpec => []LogOpenWhileUsed
<1>1. SampleInv => LogOpenWhileUsed
  BY LoaderFacts DEF SampleInv, MainInOrder, RootInOrder, LogOpenWhileUsed
<1>. QED BY <1>1, SampleInvariant, PTL

(* Main runs with its assembly, and Vita2D's for VML_Sample2, registered,  *)
(* and with the directories main() has set.                                *)
THEOREM SampleProgramPrepared == SampleSpec => []ProgramPrepared
<1>1. SampleInv => ProgramPrepared
  BY DEF SampleInv, RootInOrder, ProgramPrepared, Ready, Live
<1>. QED BY <1>1, SampleInvariant, PTL

(* A program that comes to its end after its runtime has logged, before it *)
(* closed the log, what VMLRunMain answered: the result exactly when Main  *)
(* has returned, and otherwise the error.                                  *)
THEOREM ResultIsLogged == SampleSpec => []ResultLogged
<1>1. SampleInv => ResultLogged
  BY DEF SampleInv, MainInOrder, LogInOrder, ResultLogged
<1>. QED BY <1>1, SampleInvariant, PTL

=============================================================================
