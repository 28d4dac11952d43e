--------------------------- MODULE StubPipeline ----------------------------
(***************************************************************************)
(* generate_stub_vitasdk of cmake/RETools.cmake: the three rules that make *)
(* one stub library, run by make, stopped anywhere and started again.      *)
(*                                                                         *)
(*   rule 1  copy, unmake-fself, nids-extract > yaml      (no dependency)  *)
(*   rule 2  copy of the SCE archive                      (on the yaml)    *)
(*   rule 3  replace-nid, clean-nids, vita-libs-gen, make (on the copy)    *)
(*                                                                         *)
(* The tools of rule 3 edit the yaml of rule 1 in place.  One section of   *)
(* the yaml is followed (NidTables); the others are like it.               *)
(***************************************************************************)
EXTENDS NidTables, Naturals

CONSTANTS
    Absent,         \* of a file: not there
    Broken,         \* of a file: a write of it was broken off
    Exports,        \* what nids-extract may find: sections with made-up names
    Archives,       \* what the SCE archive may tell
    Removable,      \* names clean-nids deletes wherever they are keys
    MaxStops        \* bound: how often a build is stopped

ASSUME PipelineAssumption ==
    /\ Archives \subseteq Findings
    /\ \A E \in Exports : Dictionary(E) /\ NamesOf(E) \subseteq StdName
    /\ Removable \cap StdName = {}
    /\ MaxStops \in Nat
    /\ Absent # Broken

Content == [entries : SUBSET Entry, marks : BOOLEAN]

ASSUME FileAssumption == {Absent, Broken} \cap Content = {}

VARIABLES
    exported, findings,     \* the two inputs, fixed
    nidsAnswer,             \* what nids-extract answers after its work, fixed
    deletes,                \* make deletes what a failed rule wrote, fixed
    yaml,                   \* Absent, Broken, or what it says
    installed,              \* is the copy of the archive there?
    lib,                    \* Absent, Broken, or what it was made from
    yamlNewer, refNewer,    \* than the copy, than the library
    at,                     \* the command make is at
    stops

inputs == <<exported, findings, nidsAnswer, deletes>>
vars == <<inputs, yaml, installed, lib, yamlNewer, refNewer, at, stops>>

Extracted_bug == [entries |-> exported]
Extracted == [entries |-> exported, marks |-> TRUE]

Init ==
    /\ exported \in Exports
    /\ findings \in Archives
    /\ nidsAnswer \in {0, 1}
    /\ deletes \in BOOLEAN
    /\ yaml = Absent
    /\ installed = FALSE
    /\ lib = Absent
    /\ yamlNewer = FALSE
    /\ refNewer = FALSE
    /\ at = "idle"
    /\ stops = 0

InstallNeeded == ~installed \/ yamlNewer
LibNeeded == lib = Absent \/ refNewer

\* make looks for the first rule whose output is missing or too old.
Make ==
    /\ at = "idle"
    /\ \/ yaml = Absent /\ at' = "extract"
       \/ yaml # Absent /\ InstallNeeded /\ at' = "install"
       \/ yaml # Absent /\ ~InstallNeeded /\ LibNeeded /\ at' = "replace"
    /\ UNCHANGED <<inputs, yaml, installed, lib, yamlNewer, refNewer, stops>>

\* Rule 1.
Extract ==
    /\ at = "extract"
    /\ nidsAnswer = 0
    /\ yamlNewer' = TRUE
    /\ yaml' = Extracted
    /\ at' = "install"
    /\ UNCHANGED <<inputs, installed, lib, refNewer, stops>>

\* nids-extract has done its work but answers 1, and what wraps it is only
\* named in PYTHONPATH: for make the rule has failed, and the build ends.
ExtractFails ==
    /\ at = "extract"
    /\ nidsAnswer = 1
    /\ yamlNewer' = TRUE
    /\ yaml' = IF deletes THEN Absent ELSE Extracted
    /\ at' = "idle"
    /\ UNCHANGED <<inputs, installed, lib, refNewer, stops>>

\* Rule 2.
Install ==
    /\ at = "install"
    /\ installed' = TRUE
    /\ yamlNewer' = FALSE
    /\ refNewer' = TRUE
    /\ at' = "replace"
    /\ UNCHANGED <<inputs, yaml, lib, stops>>

\* Rule 3: replace-nid-symbols-sce.py (NidSymbols) ...  Both tools find
\* nothing to do in a yaml that a broken write left empty.
LibraryMissing(E) == NamesOf(E) \cap StdName # {} /\ DOMAIN findings = {}

ReplaceNids_bug ==
    /\ at = "replace"
    /\ IF yaml = Broken
       THEN UNCHANGED <<yaml, yamlNewer>>
       ELSE /\ ~LibraryMissing(yaml.entries)
            /\ yaml' = [yaml EXCEPT !.entries = Named(@, findings)]
            /\ yamlNewer' = (yamlNewer \/ yaml' # yaml)
    /\ at' = IF yaml' = yaml THEN "idle" ELSE "clean"
    /\ UNCHANGED <<inputs, installed, lib, refNewer, stops>>
ReplaceNids ==
    /\ at = "replace"
    /\ at' = "clean"
    /\ IF yaml = Broken
       THEN UNCHANGED <<yaml, yamlNewer>>
       ELSE /\ ~LibraryMissing(yaml.entries)
            /\ yaml' = [yaml EXCEPT !.entries = Named(@, findings)]
            /\ yamlNewer' = (yamlNewer \/ yaml' # yaml)
    /\ UNCHANGED <<inputs, installed, lib, refNewer, stops>>

\* ... clean-nids.py, which always writes ...
Clean(y) ==
    [entries |-> {e \in y.entries : e.name \notin Removable}, marks |-> FALSE]

CleanNids_bug ==
    /\ at = "clean"
    /\ at' = "gen"
    /\ UNCHANGED yaml
    /\ yamlNewer' = TRUE
    /\ UNCHANGED <<inputs, installed, lib, refNewer, stops>>
CleanNids ==
    /\ at = "clean"
    /\ at' = "gen"
    /\ yaml' = IF yaml = Broken THEN Broken ELSE Clean(yaml)
    /\ yamlNewer' = TRUE
    /\ UNCHANGED <<inputs, installed, lib, refNewer, stops>>

\* ... vita-libs-gen and make -C stubs.
BuildLib ==
    /\ at = "gen"
    /\ lib' = yaml
    /\ refNewer' = FALSE
    /\ at' = "idle"
    /\ UNCHANGED <<inputs, yaml, installed, yamlNewer, stops>>

\* A command fails or the build is stopped.  The output of the rule it was in
\* may be deleted; a yaml edited in place is the output of another rule.
LibAfterStop ==
    IF at \in {"replace", "clean", "gen"} THEN {lib, Absent} ELSE {lib}

Stop ==
    /\ at # "idle"
    /\ stops < MaxStops
    /\ stops' = stops + 1
    /\ at' = "idle"
    /\ installed' \in IF at = "install" THEN {installed, FALSE} ELSE {installed}
    /\ lib' \in LibAfterStop
    /\ UNCHANGED <<inputs, yaml, yamlNewer, refNewer>>

\* The same in the middle of a write: `>' and open(..., 'w') empty the file
\* before anything is written.
StopInWrite ==
    /\ at \in {"extract", "replace", "clean"}
    /\ stops < MaxStops
    /\ stops' = stops + 1
    /\ at' = "idle"
    /\ yaml' \in IF at = "extract" THEN {Broken, Absent} ELSE {Broken}
    /\ yamlNewer' = TRUE
    /\ lib' \in LibAfterStop
    /\ UNCHANGED <<inputs, installed, refNewer>>

MissingLibrary ==
    /\ at = "replace"
    /\ yaml # Broken
    /\ LibraryMissing(yaml.entries)
    /\ at' = "idle"
    /\ UNCHANGED <<inputs, yaml, installed, lib, yamlNewer, refNewer, stops>>

Step ==
    \/ Make
    \/ Extract
    \/ ExtractFails
    \/ Install
    \/ ReplaceNids
    \/ CleanNids
    \/ BuildLib
    \/ MissingLibrary

Next == Step \/ Stop \/ StopInWrite

Spec == Init /\ [][Next]_vars

\* A build that has begun goes on, and whoever wants the library starts it
\* again.
FairSpec == Spec /\ WF_vars(Step)

----------------------------------------------------------------------------
(* Properties *)

\* Every variable has its type.
TypeOK ==
    /\ exported \in Exports
    /\ findings \in Archives
    /\ nidsAnswer \in {0, 1}
    /\ deletes \in BOOLEAN
    /\ yaml \in Content \cup {Absent, Broken}
    /\ lib \in Content \cup {Absent, Broken}
    /\ installed \in BOOLEAN
    /\ yamlNewer \in BOOLEAN
    /\ refNewer \in BOOLEAN
    /\ at \in {"idle", "extract", "install", "replace", "clean", "gen"}
    /\ stops \in 0 .. MaxStops

Result == Clean([entries |-> Named(exported, findings), marks |-> TRUE])

\* However often the build was stopped and however many tools had already
\* edited the yaml, a library that was built is the one an undisturbed build
\* gives, unless a write was broken off.
LibIsResult ==
    lib \notin {Absent, Broken} /\ NoClash(exported, findings) => lib = Result

\* What can be built: the archive knows the library, no two NIDs want one
\* name, and no write of the yaml was broken off.
Buildable ==
    DOMAIN findings # {} /\ NoClash(exported, findings) /\ yaml # Broken

\* The build gets there after the last stop, although the yaml it finds may be
\* edited in part already; a nids-extract that answers 1 does not keep it from
\* that where make leaves the output of a failed rule.
StubBuilt ==
    <>[](Buildable /\ (nidsAnswer = 0 \/ ~deletes) => lib = Result)

\* RETools.cmake:15: "nids-extract.exe always returns 1, so we need to wrap it
\* and execute it in python script": its answer does not matter to the build.
StubBuiltWhateverAnswered ==
    <>[](Buildable => lib = Result)
============================================================================
