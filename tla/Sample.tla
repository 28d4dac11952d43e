------------------------------- MODULE Sample -------------------------------
(***************************************************************************)
(* The programs VML_Sample1 and VML_Sample2 on top of the loader: main()   *)
(* loads the modules Mono needs, opens a log and starts the loader with a  *)
(* root entry that runs one C# program and logs its result.  main() and    *)
(* rootEntry() run on two threads and share the log.                       *)
(* LoaderClient guarantees what it says for them as for any application.   *)
(***************************************************************************)
EXTENDS LoaderClient, SequencesExt

CONSTANTS Program,  \* the assembly VMLRunMain is called with
          Vita2D,   \* the one VMLVita2DRegister registers
          AppPath   \* "app0:VML" and its machine.config

ASSUME SampleAssumption ==
  {Program, Vita2D} \subseteq Assembly /\ AppPath \in Path /\ Entry # {}

VARIABLES
  program,    \* which of the two programs this is
  customLibc, \* it is built with USE_CUSTOM_LIBC
  at,         \* where main() is
  todo,       \* the modules it has still to load
  loaded,     \* those that are loaded
  coreLog,    \* mono_core_log is open
  log,        \* mono_log is open
  root,       \* where rootEntry() is
  lines,      \* what mono_log says: "result" or "EINVAL" as the answer of
              \* VMLRunMain, "failure" of VMLInitialize
  returned    \* history: the C# program's Main has returned

build == <<program, customLibc>>
files == <<coreLog, log, lines>>
sampleVars == <<build, at, todo, loaded, files, root, returned>>
vars == <<loaderVars, sampleVars>>

SampleInit ==
  /\ Init
  /\ program \in {"VML_Sample1", "VML_Sample2"}
  /\ customLibc \in BOOLEAN
  /\ at = "open"
  /\ todo = <<>>
  /\ loaded = {}
  /\ coreLog = FALSE
  /\ log = FALSE
  /\ root = "none"
  /\ lines = {}
  /\ returned = FALSE

CoreModules == IF customLibc THEN <<"NET", "libfios2", "libc">> ELSE <<"NET">>
Modules == <<"SUPRXManager", "pthread", "mono-vita">>

AllLoaded(modules) == ToSet(modules) \subseteq loaded

(* fprintf(mono_log, ...): nothing comes of it when the log is closed.     *)
Written(line) == IF log THEN lines \cup {line} ELSE lines

-----------------------------------------------------------------------------
(* main(), up to the call of the loader.                                   *)

OpenCoreLog ==
  /\ at = "open"
  /\ \/ coreLog' = TRUE /\ todo' = CoreModules /\ at' = "core"
     \/ at' = "exit" /\ UNCHANGED <<coreLog, todo>>
  /\ UNCHANGED <<loaderVars, build, returned, loaded, log, lines, root>>

(* One module more; the other ones are tried even when one cannot be had.  *)
LoadModule ==
  /\ at \in {"core", "modules"}
  /\ todo # <<>>
  /\ todo' = Tail(todo)
  /\ \/ loaded' = loaded \cup {Head(todo)}
     \/ UNCHANGED loaded
  /\ UNCHANGED <<loaderVars, build, returned, at, files, root>>

CoreModulesDone ==
  /\ at = "core"
  /\ todo = <<>>
  /\ \/ /\ AllLoaded(CoreModules)
        /\ coreLog' = FALSE
        /\ at' = "open_log"
     \/ /\ ~ AllLoaded(CoreModules)
        /\ at' = "exit"
        /\ UNCHANGED coreLog
  /\ UNCHANGED <<loaderVars, build, returned, todo, loaded, log, lines, root>>

OpenLog ==
  /\ at = "open_log"
  /\ \/ log' = TRUE /\ todo' = Modules /\ at' = "modules"
     \/ at' = "exit" /\ UNCHANGED <<log, todo>>
  /\ UNCHANGED <<loaderVars, build, returned, loaded, coreLog, lines, root>>

(* Both programs test for a negative answer.                               *)
ModulesDone_bug ==
  /\ at = "modules"
  /\ todo = <<>>
  /\ at' = "paths"
  /\ UNCHANGED <<loaderVars, build, returned, todo, loaded, files, root>>

(* loadModules() answers 1 or 0: VML_Sample1 stops at 0, VML_Sample2 would *)
(* stop at a negative answer.                                              *)
ModulesDone ==
  /\ at = "modules"
  /\ todo = <<>>
  /\ at' = IF program = "VML_Sample1" /\ ~ AllLoaded(Modules) THEN "exit"
                                                               ELSE "paths"
  /\ UNCHANGED <<loaderVars, build, returned, todo, loaded, files, root>>

SetPaths ==
  /\ at = "paths"
  /\ VMLSetPaths(AppPath)
  /\ at' = "args"
  /\ UNCHANGED <<build, returned, todo, loaded, files, root>>

(* The first call that ends in Mono: the imports of a module that is not   *)
(* loaded lead nowhere.                                                    *)
SetCommandLineArgs ==
  /\ at = "args"
  /\ at' = IF AllLoaded(Modules) THEN "initialize" ELSE "crashed"
  /\ UNCHANGED <<loaderVars, build, returned, todo, loaded, files, root>>

Initialize ==
  /\ at = "initialize"
  /\ \E entry \in Entry : VMLInitialize(entry, TRUE)
  /\ at' = "wait"
  /\ UNCHANGED <<build, returned, todo, loaded, files, root>>

-----------------------------------------------------------------------------
(* rootEntry(), on the Mono main thread.                                   *)

StartRootEntry ==
  /\ RootEntry
  /\ root' = IF program = "VML_Sample2" THEN "bindings" ELSE "run"
  /\ UNCHANGED <<build, returned, at, todo, loaded, files>>

(* VML_Sample2 starts its program before it registers the bindings.        *)
VMLVita2DRegister_bug ==
  /\ root = "bindings"
  /\ root' = "run"
  /\ UNCHANGED <<loaderVars, build, returned, at, todo, loaded, files>>

VMLVita2DRegister ==
  /\ root = "bindings"
  /\ RegisterModule(Vita2D)
  /\ root' = "run"
  /\ UNCHANGED <<build, returned, at, todo, loaded, files>>

RunMain ==
  /\ root = "run"
  /\ VMLRunMain(Program) \/ VMLRunMainFails(Program)
  /\ root' = "log"
  /\ UNCHANGED <<build, returned, at, todo, loaded, files>>

(* Sample1's Main returns 123; Sample2's draws for ever.                   *)
ProgramReturns ==
  /\ program = "VML_Sample1"
  /\ MainReturns
  /\ returned' = TRUE
  /\ UNCHANGED <<build, at, todo, loaded, files, root>>

(* The answer of VMLRunMain: Main's result, or the error of one that could *)
(* not be called.                                                          *)
LogResult ==
  /\ root = "log"
  /\ main = "root"
  /\ lines' = Written(answer)
  /\ root' = "return"
  /\ UNCHANGED <<loaderVars, build, returned, at, todo, loaded, coreLog, log>>

EndRootEntry ==
  /\ root = "return"
  /\ RootEntryReturns
  /\ root' = "none"
  /\ UNCHANGED <<build, returned, at, todo, loaded, files>>

-----------------------------------------------------------------------------
(* main(), after the loader: both answers of VMLInitialize.                *)

(* Goes on as soon as the Mono main thread is started.                     *)
ReportInit_bug ==
  /\ at = "wait"
  /\ at' = "close"
  /\ UNCHANGED <<loaderVars, build, returned, todo, loaded, files, root>>

(* Starts the loader again, whatever became of it.                         *)
ReportInit_again_bug ==
  /\ at = "wait"
  /\ app = "idle"
  /\ at' = "initialize"
  /\ UNCHANGED <<loaderVars, build, returned, todo, loaded, files, root>>

ReportInit ==
  /\ at = "wait"
  /\ app = "idle"
  /\ lines' = IF answer = "OK" THEN lines ELSE Written("failure")
  /\ at' = "close"
  /\ UNCHANGED <<loaderVars, build, returned, todo, loaded, coreLog, log, root>>

CloseLog ==
  /\ at = "close"
  /\ log' = FALSE
  /\ at' = "exit"
  /\ UNCHANGED <<loaderVars, build, returned, todo, loaded, coreLog, lines, root>>

-----------------------------------------------------------------------------
LoaderThread ==
  /\ \/ VMLCoreAssembliesRegister \/ ConfigureAotOnly \/ EnableTrace \/ SetDirs
     \/ JitInit \/ JitInitFails \/ PrepareDomain
     \/ SetShuttingDown \/ PoolCleanup \/ SuspendOthers \/ JitCleanup
     \/ VMLInitializeReturns
  /\ UNCHANGED sampleVars

SampleNext ==
  \/ OpenCoreLog \/ LoadModule \/ CoreModulesDone \/ OpenLog \/ ModulesDone
  \/ SetPaths \/ SetCommandLineArgs \/ Initialize
  \/ StartRootEntry \/ VMLVita2DRegister \/ RunMain \/ LogResult \/ EndRootEntry
  \/ ReportInit \/ CloseLog
  \/ ProgramReturns
  \/ LoaderThread

(* The kernel runs each of the two threads whenever it can go on.          *)
SampleSpec == SampleInit /\ [][SampleNext]_vars /\ WF_vars(SampleNext)

-----------------------------------------------------------------------------
(* Whoever writes to a log finds it open: main() while it loads modules    *)
(* and while it waits to report, and rootEntry() on the other thread, for  *)
(* main() closes the log only when the loader has returned.                *)
LogOpenWhileUsed ==
  /\ at = "core" /\ todo # <<>> => coreLog
  /\ at \in {"modules", "paths", "args", "initialize", "wait"} => log
  /\ root = "log" => log

(* The C# program of VML_Sample2 finds its native calls and its assembly   *)
(* registered, and both programs run with the directories they have set.   *)
ProgramPrepared ==
  main = "managed" =>
    /\ Program \in aot
    /\ program = "VML_Sample2" => Vita2D \in aot
    /\ dirs = AppPath

(* A run in which the runtime came up and down ends with a closed log that *)
(* says what came of the C# program, as the thread of rootEntry() saw it:  *)
(* the result of a Main that has returned, or else the error of VMLRunMain,*)
(* and never both.                                                         *)
Outcome == IF returned THEN "result" ELSE "EINVAL"

OutcomeLogged == lines \cap {"result", "EINVAL"} = {Outcome}

ResultLogged == at = "exit" /\ domain = "gone" => OutcomeLogged /\ ~ log

(* main(), rootEntry() and the bindings use the loader as LoaderClient says *)
(* that an application does, from the right thread and on a runtime that is *)
(* there: what LoaderClient guarantees holds for both programs.             *)
UsesLoader == Spec

(* VML_Sample1 comes to its end whatever fails on the way.                 *)
SampleEnds == program = "VML_Sample1" ~> at = "exit"

(* The README (lines 44 to 48) makes SUPRXManager, pthread and mono-vita   *)
(* required, and "if (ret < 0) return 0;" (VML_Sample2/main.c:126) is      *)
(* there to stop without them: Mono is not called before all are loaded.   *)
MonoNeedsModules ==
  at \in {"args", "initialize", "wait", "close", "crashed"} => AllLoaded(Modules)

(* "if (ret < 0) fprintf(mono_log, ... VMLInitialize(): ..." (VML_Sample1/ *)
(* main.c:144): a runtime that did not come up is reported in the log.     *)
InitFailureReported ==
  at = "exit" /\ asked # NULL /\ domain = "none" => "failure" \in lines

-----------------------------------------------------------------------------
(* What makes the properties above inductive.  Which of its two threads    *)
(* runs, and how far, is told by at, root and the places of LoaderClient.  *)

BeforeLoader == {"open", "core", "open_log", "modules", "paths", "args",
                 "initialize"}

SampleTypeOK ==
  /\ program \in {"VML_Sample1", "VML_Sample2"}
  /\ customLibc \in BOOLEAN
  /\ at \in BeforeLoader \cup {"wait", "close", "exit", "crashed"}
  /\ root \in {"none", "bindings", "run", "log", "return"}
  /\ lines \subseteq {"result", "EINVAL", "failure"}
  /\ returned \in BOOLEAN

(* main() is before the loader, blocked in it, or behind it.               *)
MainInOrder ==
  /\ at \in BeforeLoader => main = "none" /\ domain = "none"
  /\ main # "none" => at = "wait"
  /\ at = "core" => coreLog
  /\ at \in {"modules", "paths", "args", "initialize", "wait", "close"} => log
  /\ at = "exit" /\ domain # "none" => ~ log
  /\ at \in {"args", "initialize", "wait"} => paths = AppPath

(* rootEntry() runs where the loader calls it, up to its last statement.   *)
RootInOrder ==
  /\ root = "none" <=> main \notin {"root", "managed"}
  /\ main = "managed" => root = "log"
  /\ main # "crashed"
  /\ root = "bindings" => program = "VML_Sample2"
  /\ root \in {"run", "log"} /\ program = "VML_Sample2" => Vita2D \in aot
  /\ main = "managed" => Program \in aot
  /\ main \in {"jit_init", "prepare"} \cup Ready => dirs = AppPath

(* rootEntry() logs the answer once it has it.                             *)
LogInOrder ==
  LET answered == root = "log" /\ main = "root"
      logged   == \/ root = "return"
                  \/ main \in Ready \ {"entry", "root", "managed"}
                  \/ domain = "gone"
  IN
  /\ answered => answer = Outcome
  /\ logged => OutcomeLogged
  /\ ~ logged => lines \cap {"result", "EINVAL"} = {}
  /\ ~ logged /\ ~ answered => ~ returned

(* The inductive invariant.                                                *)
SampleInv ==
  /\ LInv
  /\ SampleTypeOK
  /\ MainInOrder
  /\ RootInOrder
  /\ LogInOrder

=============================================================================
