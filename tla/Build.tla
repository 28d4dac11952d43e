------------------------------- MODULE Build -------------------------------
(***************************************************************************)
(* The CMakeLists.txt files: which targets there are for which options,    *)
(* what each depends on, and a parallel build of them in any order that    *)
(* the dependencies allow.  A target is what StubPipeline or one compiler  *)
(* or linker run makes; here it is one step that begins and one that ends. *)
(* A file is named by what makes it and its name.                          *)
(***************************************************************************)
EXTENDS FiniteSets, Naturals

CONSTANT MaxFailures    \* bound: how often a command fails

ASSUME FailuresAssumption == MaxFailures \in Nat

VARIABLES
    option,     \* USE_MONO_COMPILER, USE_CUSTOM_LIBC, USE_RE_TOOLS
    aotFiles,   \* are the .dll.s files there before the build?
    stubs,      \* can the archives of stubs be had?  With USE_RE_TOOLS, do
                \* the rules of StubPipeline come to their end; without, are
                \* the files in lib/prebuilt/stubs, where the user puts them?
    phase,      \* "configure", "build", "rejected"
    goal,       \* the target asked for
    target,     \* what has become of each target
    early,      \* what was read before it was made: <<target, file>>
    failures

inputs == <<option, aotFiles, stubs, goal>>
vars == <<inputs, phase, target, early, failures>>

Option == [compiler : BOOLEAN, libc : BOOLEAN, re : BOOLEAN]
Library == {"VitaMonoLoader", "VMLCoreAssemblies", "VMLVita2D"}
Program == {"VMLSample1", "VMLSample2"}
SuprxTarget == {"mono-vita_stubs", "pthread_stubs", "SUPRXManager_stubs"}
Target == Library \cup Program \cup SuprxTarget \cup
    {"headers", "mono_stubs", "SceLibcMonoBridge", "MonoCoreLibraries"}
Stub == {"MONO_stub", "PTHREAD_PRX_stub", "SUPRXManager_stub_weak"}

\* MONO_STUBS_DEPENDENCIES
StubTargets == IF option.re THEN SuprxTarget ELSE {"mono_stubs"}

OnlyIf(c, S) == {x \in S : c}

Defined ==
    Library \cup Program \cup {"headers"} \cup StubTargets
        \cup OnlyIf(option.libc, {"SceLibcMonoBridge"})
        \cup OnlyIf(option.compiler, {"MonoCoreLibraries"})

----------------------------------------------------------------------------
(* The graph: add_dependencies and target_link_libraries *)

ProgramDeps_bug(p) ==
    {"headers", "VitaMonoLoader", "VMLCoreAssemblies"}
        \cup OnlyIf(option.libc, {"SceLibcMonoBridge"})
        \cup OnlyIf(p = "VMLSample2", {"VMLVita2D"})
ProgramDeps(p) ==
    {"headers", "VitaMonoLoader", "VMLCoreAssemblies"} \cup StubTargets
        \cup OnlyIf(option.libc, {"SceLibcMonoBridge"})
        \cup OnlyIf(p = "VMLSample2", {"VMLVita2D"})

Deps_bug(t) ==
    CASE t \in Program -> ProgramDeps(t)
      [] t = "VMLCoreAssemblies" -> {"headers", "MonoCoreLibraries"}
      [] t = "VitaMonoLoader" -> {"headers"}
      [] t = "VMLVita2D" -> {"headers"} \cup StubTargets
      [] OTHER -> {}
Deps(t) ==
    CASE t \in Program -> ProgramDeps(t)
      [] t = "VMLCoreAssemblies" -> {"headers", "MonoCoreLibraries"}
      [] t \in {"VitaMonoLoader", "VMLVita2D"} -> {"headers"}
      [] OTHER -> {}

\* The archives a rule leaves, under its build directory.
Writes(t) ==
    CASE t = "mono-vita_stubs" -> {<<"mono-vita", "MONO_stub">>}
      [] t = "pthread_stubs" -> {<<"pthread", "PTHREAD_PRX_stub">>}
      [] t = "SUPRXManager_stubs" ->
            {<<"SUPRXManager", "SUPRXManager_stub_weak">>}
      [] t = "mono_stubs" -> {"prebuilt"} \X Stub
      [] t = "VMLVita2D" -> {<<t, "lib">>, <<t, "Vita2D.dll">>}
      [] OTHER -> {<<t, "lib">>}

\* MONO_VITA_STUBS, PTHREAD_STUBS, SUPRXMANAGER_STUBS
StubFiles_bug ==
    IF option.re
    THEN {<<"mono-vita", "MONO_stub">>, <<"pthread", "PTHREAD_PRX_stub">>,
          <<"SUPRXManager", "SUPRXManager_stub">>}
    ELSE {"prebuilt"} \X Stub
StubFiles ==
    IF option.re
    THEN {<<"mono-vita", "MONO_stub">>, <<"pthread", "PTHREAD_PRX_stub">>,
          <<"SUPRXManager", "SUPRXManager_stub_weak">>}
    ELSE {"prebuilt"} \X Stub

\* The files of the build that a target's commands read: the headers that were
\* copied, the assembler files, the archives a program links and, when mcs
\* compiles it, the assembly it refers to.
Reads(t) ==
    OnlyIf(t \in Library \cup Program, {<<"headers", "lib">>})
        \cup OnlyIf(t = "VMLCoreAssemblies" /\ option.compiler,
                    {<<"MonoCoreLibraries", "lib">>})
        \cup OnlyIf(t \in Program, StubFiles \cup
                    {"VitaMonoLoader", "VMLCoreAssemblies"} \X {"lib"})
        \cup OnlyIf(t \in Program /\ option.libc,
                    {<<"SceLibcMonoBridge", "lib">>})
        \cup OnlyIf(t = "VMLSample2", Writes("VMLVita2D"))

\* What make builds on the way to the goal; no path is longer than two.
Needed ==
    LET more(S) == S \cup UNION {Deps(t) : t \in S}
    IN  more(more({goal}))

Made == UNION {Writes(t) : t \in {u \in Defined : target[u] = "made"}}

----------------------------------------------------------------------------
Init ==
    /\ option \in Option
    /\ aotFiles \in BOOLEAN
    /\ stubs \in BOOLEAN
    /\ phase = "configure"
    /\ goal \in Target
    /\ target = [t \in Target |-> "todo"]
    /\ early = {}
    /\ failures = 0

\* What CMake asks of a project: every source is there or made, every
\* dependency is a target (CMP0046, since CMake 3.0), and some target of any
\* set of them waits for none of the set.
SourcesFound == aotFiles \/ option.compiler
TargetsFound == \A t \in Defined : Deps(t) \subseteq Defined
Acyclic == \A S \in SUBSET Defined \ {{}} : \E t \in S : Deps(t) \cap S = {}

Configure ==
    /\ phase = "configure"
    /\ phase' = IF SourcesFound /\ TargetsFound /\ Acyclic
                THEN "build" ELSE "rejected"
    /\ goal \in Defined
    /\ UNCHANGED <<inputs, target, early, failures>>

Start(t) ==
    /\ phase = "build"
    /\ t \in Needed
    /\ target[t] = "todo"
    /\ \A d \in Deps(t) : target[d] = "made"
    /\ target' = [target EXCEPT ![t] = "making"]
    /\ early' = early \cup ({t} \X (Reads(t) \ Made))
    /\ UNCHANGED <<inputs, phase, failures>>

\* icall.c calls sceLibcMonoBridgeFree, which only libSceLibcMonoBridge has.
Unresolved(t) == t \in Program /\ ~option.libc

\* The copies of lib/prebuilt have no source, or nids-extract answers 1.
Unavailable(t) == t \in StubTargets /\ ~stubs

End(t) ==
    /\ target[t] = "making"
    /\ ~Unresolved(t)
    /\ ~Unavailable(t)
    /\ target' = [target EXCEPT ![t] = "made"]
    /\ UNCHANGED <<inputs, phase, early, failures>>

\* The linker finds no such function; make has no rule for the file, or the
\* rule fails however often it is run.
Unlinked(t) ==
    /\ target[t] = "making"
    /\ Unresolved(t)
    /\ target' = [target EXCEPT ![t] = "stopped"]
    /\ UNCHANGED <<inputs, phase, early, failures>>

NoStubs(t) ==
    /\ target[t] = "making"
    /\ Unavailable(t)
    /\ target' = [target EXCEPT ![t] = "stopped"]
    /\ UNCHANGED <<inputs, phase, early, failures>>

\* A command fails for a reason of its own; the build is started again and
\* keeps what was made, but copies the headers again.
Fail(t) ==
    /\ target[t] = "making"
    /\ failures < MaxFailures
    /\ failures' = failures + 1
    /\ target' = [target EXCEPT ![t] = "failed"]
    /\ UNCHANGED <<inputs, phase, early>>

StartAgain ==
    /\ \E t \in Target : target[t] = "failed"
    /\ \A t \in Target : target[t] # "making"
    /\ target' = [t \in Target |->
                     IF target[t] = "failed" \/ t = "headers"
                     THEN "todo" ELSE target[t]]
    /\ UNCHANGED <<inputs, phase, early, failures>>

Make(t) == Start(t) \/ End(t) \/ Unlinked(t) \/ NoStubs(t)

Go == Configure \/ StartAgain \/ \E t \in Target : Make(t)

Next == Go \/ \E t \in Target : Fail(t)

Spec == Init /\ [][Next]_vars

\* The build tool goes on, and a build that failed is started again.
FairSpec == Spec /\ WF_vars(Go)

----------------------------------------------------------------------------
(* Properties *)

\* Every variable has its type; a file that is read too early is at least one
\* that some target makes, under the path and the name it is made.
TypeOK ==
    /\ option \in Option
    /\ aotFiles \in BOOLEAN
    /\ stubs \in BOOLEAN
    /\ phase \in {"configure", "build", "rejected"}
    /\ goal \in Target
    /\ target \in [Target -> {"todo", "making", "made", "failed", "stopped"}]
    /\ early \subseteq Target \X UNION {Writes(t) : t \in Target}
    /\ failures \in 0 .. MaxFailures

\* Whatever the options, the goal, the order and the failures, no compiler or
\* linker reads a file of the build before the target that makes it has.
InputsReady == early = {}

\* What a goal takes that the configuration may lack: a program is linked with
\* the stubs and the custom C library.  A library takes neither.
Buildable ==
    /\ goal \in Program => option.libc
    /\ goal \in Program \cup StubTargets => stubs

\* Every goal of an accepted configuration is made in the end if what it takes
\* itself can be had: the libraries (VitaMonoLoader, VMLCoreAssemblies,
\* VMLVita2D) are built also where no stubs or no custom C library can be had,
\* and no option leaves a target waiting for one that is not made.
GoalMade ==
    phase = "build" /\ Buildable ~> target[goal] = "made"

\* USE_MONO_COMPILER is "needed if no AOT files are present" (README.md:230):
\* with the files there, a build without it is accepted.
AotFilesSuffice == aotFiles => phase # "rejected"
============================================================================
