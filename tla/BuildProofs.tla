----------------------------- MODULE BuildProofs -----------------------------
(***************************************************************************)
(* Build for every bound on the failures: no target is begun before what   *)
(* its commands read is there.  The dependencies that the CMakeLists.txt   *)
(* files declare cover what each target reads, and in a configuration that *)
(* was accepted they lead to targets that exist.                           *)
(***************************************************************************)
EXTENDS Build, TLAPS

----------------------------------------------------------------------------
(* The graph *)

\* What a target depends on, spelt out.
LEMMA DepsFacts ==
    ASSUME NEW t \in Target
    PROVE  /\ t \in Program => Deps(t) = ProgramDeps(t)
           /\ t = "VMLCoreAssemblies" =>
                 Deps(t) = {"headers", "MonoCoreLibraries"}
           /\ t \in {"VitaMonoLoader", "VMLVita2D"} => Deps(t) = {"headers"}
           /\ t \notin Program \cup Library => Deps(t) = {}
BY DEF Deps, Program, Library

\* What a target leaves, spelt out.
LEMMA WritesFacts ==
    /\ Writes("mono-vita_stubs") = {<<"mono-vita", "MONO_stub">>}
    /\ Writes("pthread_stubs") = {<<"pthread", "PTHREAD_PRX_stub">>}
    /\ Writes("SUPRXManager_stubs") =
          {<<"SUPRXManager", "SUPRXManager_stub_weak">>}
    /\ Writes("mono_stubs") = {"prebuilt"} \X Stub
    /\ \A t \in {"headers", "VitaMonoLoader", "VMLCoreAssemblies",
                 "SceLibcMonoBridge", "MonoCoreLibraries"} :
          Writes(t) = {<<t, "lib">>}
BY DEF Writes

\* Dependencies are targets.
LEMMA DepsAreTargets ==
    ASSUME NEW t \in Target
    PROVE  Deps(t) \subseteq Target
BY DepsFacts
   DEF ProgramDeps, OnlyIf, StubTargets, Target, Library, Program, SuprxTarget

\* Between them the targets a program waits for leave the stubs it links.
LEMMA StubsFromTargets ==
    StubFiles \subseteq UNION {Writes(d) : d \in StubTargets}
<1>1. CASE option.re
  BY <1>1, WritesFacts DEF StubFiles, StubTargets, SuprxTarget
<1>2. CASE ~ option.re
  BY <1>2, WritesFacts DEF StubFiles, StubTargets
<1>. QED BY <1>1, <1>2

\* Every file of the build that a target's commands read is left by a target
\* it depends on.
LEMMA ReadsFromDeps ==
    ASSUME NEW t \in Target, NEW f \in Reads(t)
    PROVE  \E d \in Deps(t) : f \in Writes(d)
<1>1. CASE f = <<"headers", "lib">> /\ t \in Library \cup Program
  <2>1. "headers" \in Deps(t)
    BY <1>1, DepsFacts DEF Library, ProgramDeps
  <2>. QED BY <1>1, <2>1, WritesFacts
<1>2. CASE f = <<"MonoCoreLibraries", "lib">> /\ t = "VMLCoreAssemblies"
  BY <1>2, DepsFacts, WritesFacts
<1>3. CASE t \in Program /\ f \in StubFiles
  <2>1. StubTargets \subseteq Deps(t)
    BY <1>3, DepsFacts DEF ProgramDeps
  <2>. QED BY <1>3, <2>1, StubsFromTargets
<1>4. CASE /\ t \in Program
           /\ f \in {"VitaMonoLoader", "VMLCoreAssemblies"} \X {"lib"}
  <2>1. {"VitaMonoLoader", "VMLCoreAssemblies"} \subseteq Deps(t)
    BY <1>4, DepsFacts DEF ProgramDeps
  <2>2. PICK d \in {"VitaMonoLoader", "VMLCoreAssemblies"} : f = <<d, "lib">>
    BY <1>4
  <2>. QED BY <2>1, <2>2, WritesFacts
<1>5. CASE t \in Program /\ option.libc /\ f = <<"SceLibcMonoBridge", "lib">>
  <2>1. "SceLibcMonoBridge" \in Deps(t)
    BY <1>5, DepsFacts DEF ProgramDeps, OnlyIf
  <2>. QED BY <1>5, <2>1, WritesFacts
<1>6. CASE t = "VMLSample2" /\ f \in Writes("VMLVita2D")
  <2>1. "VMLVita2D" \in Deps(t)
    BY <1>6, DepsFacts DEF Program, ProgramDeps, OnlyIf
  <2>. QED BY <1>6, <2>1
<1>. QED BY <1>1, <1>2, <1>3, <1>4, <1>5, <1>6 DEF Reads, OnlyIf

\* When the targets a configuration refers to exist, all that make comes to on
\* its way to one of them is a target of the configuration.
LEMMA NeededIsDefined ==
    ASSUME goal \in Defined, TargetsFound
    PROVE  Needed \subseteq Defined
<1>. DEFINE more(S) == S \cup UNION {Deps(t) : t \in S}
<1>1. ASSUME NEW S \in SUBSET Defined
      PROVE  more(S) \subseteq Defined
  BY <1>1, TargetsFound DEF TargetsFound
<1>2. more({goal}) \subseteq Defined
  BY <1>1
<1>3. more(more({goal})) \subseteq Defined
  <2>. HIDE DEF more
  <2>. QED BY <1>1, <1>2
<1>. QED BY <1>3 DEF Needed

----------------------------------------------------------------------------
(* The inductive invariant *)

\* A build is of a goal that exists, in a graph that is closed.
ClosedGraph ==
    phase = "build" => goal \in Defined /\ TargetsFound

BuildInv == TypeOK /\ ClosedGraph /\ InputsReady

LEMMA BuildInitially == Init => BuildInv
BY FailuresAssumption DEF Init, BuildInv, TypeOK, ClosedGraph, InputsReady

\* A step of the target t that reads nothing.
LEMMA TargetStep ==
    ASSUME BuildInv, NEW t \in Target,
           End(t) \/ Unlinked(t) \/ NoStubs(t) \/ Fail(t)
    PROVE  BuildInv'
<1>1. TypeOK'
  BY FailuresAssumption
     DEF BuildInv, TypeOK, End, Unlinked, NoStubs, Fail, inputs
<1>2. ClosedGraph'
  BY DEF BuildInv, ClosedGraph, End, Unlinked, NoStubs, Fail, inputs,
         Defined, TargetsFound, Deps, ProgramDeps, StubTargets
<1>3. InputsReady'
  BY DEF BuildInv, InputsReady, End, Unlinked, NoStubs, Fail
<1>. QED BY <1>1, <1>2, <1>3 DEF BuildInv

\* A target is begun when all it depends on is made, so all it reads is there.
LEMMA StartStep ==
    ASSUME BuildInv, NEW t \in Target, Start(t)
    PROVE  BuildInv'
<1>1. t \in Defined /\ Deps(t) \subseteq Defined
  BY NeededIsDefined DEF BuildInv, ClosedGraph, TargetsFound, Start
<1>2. Reads(t) \subseteq Made
  BY <1>1, ReadsFromDeps DEF Made, Start
<1>3. early' = {}
  BY <1>2 DEF BuildInv, InputsReady, Start
<1>4. TypeOK'
  BY <1>3 DEF BuildInv, TypeOK, Start, inputs
<1>5. ClosedGraph'
  BY DEF BuildInv, ClosedGraph, Start, inputs, Defined, TargetsFound, Deps,
         ProgramDeps, StubTargets
<1>. QED BY <1>3, <1>4, <1>5 DEF BuildInv, InputsReady

LEMMA BuildStep == BuildInv /\ [Next]_vars => BuildInv'
<1>. SUFFICES ASSUME BuildInv, [Next]_vars
              PROVE  BuildInv'
  OBVIOUS
<1>1. CASE Configure
  <2>1. TypeOK'
    BY <1>1 DEF BuildInv, TypeOK, Configure, inputs
  <2>2. ClosedGraph'
    BY <1>1 DEF ClosedGraph, Configure, inputs, Defined, TargetsFound, Deps,
                ProgramDeps, StubTargets
  <2>3. InputsReady'
    BY <1>1 DEF BuildInv, InputsReady, Configure
  <2>. QED BY <2>1, <2>2, <2>3 DEF BuildInv
<1>2. CASE StartAgain
  <2>1. TypeOK'
    BY <1>2 DEF BuildInv, TypeOK, StartAgain, inputs
  <2>2. ClosedGraph'
    BY <1>2 DEF BuildInv, ClosedGraph, StartAgain, inputs, Defined,
                TargetsFound, Deps, ProgramDeps, StubTargets
  <2>3. InputsReady'
    BY <1>2 DEF BuildInv, InputsReady, StartAgain
  <2>. QED BY <2>1, <2>2, <2>3 DEF BuildInv
<1>3. CASE UNCHANGED vars
  <2>1. TypeOK'
    BY <1>3 DEF BuildInv, TypeOK, vars, inputs
  <2>2. ClosedGraph'
    BY <1>3 DEF BuildInv, ClosedGraph, vars, inputs, Defined,
                TargetsFound, Deps, ProgramDeps, StubTargets
  <2>3. InputsReady'
    BY <1>3 DEF BuildInv, InputsReady, vars
  <2>. QED BY <2>1, <2>2, <2>3 DEF BuildInv
<1>. QED BY <1>1, <1>2, <1>3, StartStep, TargetStep DEF Next, Go, Make

----------------------------------------------------------------------------
(* Theorems *)

\* The inductive invariant holds, however often commands fail.
THEOREM BuildInvariant == Spec => []BuildInv
BY BuildInitially, BuildStep, PTL DEF Spec

\* Every variable of Build keeps its type.
THEOREM BuildTypeCorrect == Spec => []TypeOK
<1>1. BuildInv => TypeOK
  BY DEF BuildInv
<1>. QED BY <1>1, BuildInvariant, PTL

\* Whatever the options, the order in which make runs the rules and the
\* commands that fail, no rule reads a file of the build that is not there yet.
THEOREM NothingReadEarly == Spec => []InputsReady
<1>1. BuildInv => InputsReady
  BY DEF BuildInv
<1>. QED BY <1>1, BuildInvariant, PTL
============================================================================
