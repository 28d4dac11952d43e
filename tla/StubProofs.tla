---------------------------- MODULE StubProofs -----------------------------
(***************************************************************************)
(* Theorems about StubPipeline.                                            *)
(***************************************************************************)
EXTENDS StubPipeline, NidTablesProofs

\* What clean-nids leaves of a dictionary.
Kept(E) == {e \in E : e.name \notin Removable}

\* replace-nid puts back what clean-nids took from its result: what clean-nids
\* takes has a symbol of the archive for a name, and its NID is missing then.
LEMMA NamedAfterClean ==
    ASSUME NEW E, Dictionary(E), NamesOf(E) \subseteq StdName,
           NEW F \in Findings, NoClash(E, F)
    PROVE  Named(Kept(Named(E, F)), F) = Named(E, F)
<1>. DEFINE D == Named(E, F)
<1>1. \A e \in D :
          \/ e \in E /\ ~Known(e, F)
          \/ /\ e.nid \in DOMAIN F
             /\ e = [name |-> F[e.nid], nid |-> e.nid]
  BY NamedForm
<1>2. \A n \in DOMAIN F : [name |-> F[n], nid |-> n] \in D
  <2>1. ASSUME NEW n \in DOMAIN F, NEW e \in E, e.nid = n
        PROVE  e.name = Std(n)
    BY <2>1 DEF Dictionary, NamesOf
  <2>. QED  BY <2>1, NamedNamesKnown
<1>3. \A e, f \in D : e.nid = f.nid => e = f
  BY NamedTwice DEF NoClash
<1>. HIDE DEF D
<1>4. \A e \in D : Renamed(e, F) = e
  BY <1>1, FindingsType, NameAssumption DEF Known, Renamed
<1>5. {Renamed(e, F) : e \in Kept(D)} = Kept(D)
  BY <1>4 DEF Kept
<1>6. Added(Kept(D), F) \subseteq D
  BY <1>2 DEF Added
<1>7. ASSUME NEW e \in D, e \notin Kept(D)
      PROVE  e \in Added(Kept(D), F)
  <2>1. e.name \in Removable  BY <1>7 DEF Kept
  <2>2. e \notin E  BY <2>1, PipelineAssumption DEF NamesOf
  <2>3. e.nid \in DOMAIN F /\ e = [name |-> F[e.nid], nid |-> e.nid]
    BY <1>1, <2>2
  <2>4. e.nid \notin NidsOf(Kept(D))
    BY <1>3, <1>7 DEF NidsOf, Kept
  <2>. QED  BY <2>3, <2>4 DEF Added
<1>8. Kept(D) \subseteq D  BY DEF Kept
<1>9. Named(Kept(D), F) = Kept(D) \cup Added(Kept(D), F)
  BY <1>5 DEF Named
<1>. QED  BY <1>6, <1>7, <1>8, <1>9 DEF D

----------------------------------------------------------------------------
(* The inductive invariant: what the yaml can say at each command.         *)

AllNamed == Named(exported, findings)

\* Without a clash the yaml is what was extracted, what replace-nid makes of
\* it, or what clean-nids makes of that, and the last two are there when the
\* next command wants them.
YamlStage ==
    /\ yaml \notin {Absent, Broken} =>
           yaml.entries \in {exported, AllNamed, Kept(AllNamed)}
    /\ at = "clean" /\ yaml # Broken => yaml.entries = AllNamed
    /\ at = "gen" /\ yaml # Broken => yaml = Result

StubInv ==
    /\ TypeOK
    /\ at \in {"install", "replace", "clean", "gen"} => yaml # Absent
    /\ NoClash(exported, findings) => YamlStage
    /\ LibIsResult

\* The dictionaries the pipeline works on.
LEMMA Inputs ==
    ASSUME TypeOK
    PROVE  /\ Dictionary(exported)
           /\ NamesOf(exported) \subseteq StdName
           /\ findings \in Findings
BY PipelineAssumption DEF TypeOK

LEMMA NamedType ==
    ASSUME NEW E, E \subseteq Entry, NEW F \in Findings
    PROVE  Named(E, F) \subseteq Entry
<1>1. \A e \in E : Renamed(e, F) \in Entry  BY RenamedNid
<1>2. Added(E, F) \subseteq Entry  BY FindingsType DEF Added, Entry, Name
<1>. QED  BY <1>1, <1>2 DEF Named

\* Whatever replace-nid finds of the three it makes the second.
LEMMA StageNamed ==
    ASSUME TypeOK, NoClash(exported, findings),
           NEW E \in {exported, AllNamed, Kept(AllNamed)}
    PROVE  Named(E, findings) = AllNamed
BY Inputs, NamedTwice, NamedAfterClean DEF AllNamed

LEMMA StubInitially == Init => StubInv
<1>. SUFFICES ASSUME Init PROVE StubInv
  OBVIOUS
<1>1. TypeOK
  <2>1. 0 \in 0 .. MaxStops  BY PipelineAssumption
  <2>. QED  BY <2>1, Zenon DEF Init, TypeOK
<1>2. yaml = Absent /\ lib = Absent /\ at = "idle"  BY DEF Init
<1>3. YamlStage /\ LibIsResult  BY <1>2 DEF YamlStage, LibIsResult
<1>. QED  BY <1>1, <1>2, <1>3 DEF StubInv

LEMMA StubStep == StubInv /\ [Next]_vars => StubInv'
<1>. SUFFICES ASSUME StubInv, [Next]_vars  PROVE StubInv'
  OBVIOUS
<1>. USE PipelineAssumption, FileAssumption
<1>0. TypeOK /\ LibIsResult  BY DEF StubInv
<1>i. UNCHANGED inputs => UNCHANGED <<NoClash(exported, findings), AllNamed, Result>>
  BY DEF inputs, AllNamed, Result, Clean, NoClash
<1>1. CASE UNCHANGED vars
  BY <1>1 DEF vars, inputs, StubInv, TypeOK, YamlStage, LibIsResult, AllNamed, Result,
              Clean, NoClash
<1>2. CASE Make
  BY <1>0, <1>2, <1>i DEF Make, inputs, StubInv, TypeOK, YamlStage, LibIsResult
<1>3. CASE Extract
  <2>1. Extracted \in Content /\ Extracted.entries = exported
    BY <1>0, Inputs DEF Extracted, Content, Dictionary
  <2>2. UNCHANGED Extracted
    BY <1>3 DEF Extract, inputs, Extracted
  <2>3. TypeOK'
    BY <1>0, <1>3, <2>1, <2>2 DEF Extract, inputs, TypeOK
  <2>4. (NoClash(exported, findings) => YamlStage)'
    BY <1>3, <1>i, <2>1, <2>2 DEF Extract, inputs, YamlStage
  <2>5. LibIsResult'
    BY <1>0, <1>3, <1>i DEF Extract, inputs, LibIsResult
  <2>. QED  BY <1>3, <2>1, <2>3, <2>4, <2>5 DEF Extract, StubInv
<1>4. CASE Install
  BY <1>0, <1>4, <1>i DEF Install, inputs, StubInv, TypeOK, YamlStage, LibIsResult
<1>5. CASE ReplaceNids
  <2>. USE <1>5 DEF ReplaceNids, inputs
  <2>1. CASE yaml = Broken
    BY <1>0, <1>i, <2>1 DEF StubInv, TypeOK, YamlStage, LibIsResult
  <2>2. CASE yaml # Broken
    <3>1. yaml \in Content  BY <1>0, <2>2 DEF StubInv, TypeOK
    <3>2. /\ yaml' = [entries |-> Named(yaml.entries, findings),
                      marks |-> yaml.marks]
          /\ yaml' \in Content
      <4>1. Named(yaml.entries, findings) \subseteq Entry
        BY <3>1, <1>0, Inputs, NamedType DEF Content
      <4>. QED  BY <2>2, <3>1, <4>1 DEF Content
    <3>3. yamlNewer' \in BOOLEAN  BY <1>0, <2>2 DEF TypeOK
    <3>4. TypeOK'
      BY <1>0, <3>2, <3>3 DEF TypeOK
    <3>5. NoClash(exported, findings) => yaml'.entries = AllNamed
      BY <1>0, <2>2, <3>1, <3>2, StageNamed DEF StubInv, YamlStage
    <3>6. (NoClash(exported, findings) => YamlStage)'
      BY <1>i, <3>5 DEF YamlStage
    <3>. QED
      BY <1>0, <1>i, <3>2, <3>4, <3>6 DEF StubInv, LibIsResult
  <2>. QED  BY <2>1, <2>2
<1>6. CASE CleanNids
  <2>. USE <1>6 DEF CleanNids, inputs
  <2>1. CASE yaml = Broken
    BY <1>0, <1>i, <2>1 DEF StubInv, TypeOK, YamlStage, LibIsResult
  <2>2. CASE yaml # Broken
    <3>1. yaml \in Content  BY <1>0, <2>2 DEF StubInv, TypeOK
    <3>2. /\ yaml' = [entries |-> Kept(yaml.entries), marks |-> FALSE]
          /\ yaml' \in Content
      BY <2>2, <3>1 DEF Clean, Kept, Content
    <3>3. TypeOK'
      BY <1>0, <3>2 DEF TypeOK
    <3>4. NoClash(exported, findings) =>
              yaml'.entries = Kept(AllNamed) /\ yaml' = Result
      <4>1. Result = [entries |-> Kept(AllNamed), marks |-> FALSE]
        BY DEF Result, Clean, Kept, AllNamed
      <4>2. NoClash(exported, findings) => yaml.entries = AllNamed
        BY <2>2 DEF StubInv, YamlStage
      <4>3. yaml'.entries = Kept(yaml.entries)  BY <3>2
      <4>. QED  BY <3>2, <4>1, <4>2, <4>3, Zenon
    <3>5. (NoClash(exported, findings) => YamlStage)'
      BY <1>i, <3>4 DEF YamlStage, Kept
    <3>. QED
      BY <1>0, <1>i, <3>2, <3>3, <3>5 DEF StubInv, LibIsResult
  <2>. QED  BY <2>1, <2>2
<1>7. CASE BuildLib
  <2>. USE <1>7 DEF BuildLib, inputs
  <2>1. TypeOK'  BY <1>0 DEF TypeOK
  <2>2. LibIsResult'
    <3>1. NoClash(exported, findings) /\ yaml # Broken => yaml = Result
      BY DEF StubInv, YamlStage
    <3>. QED  BY <1>i, <3>1 DEF LibIsResult
  <2>3. (NoClash(exported, findings) => YamlStage)'
    BY <1>i DEF StubInv, YamlStage
  <2>. QED  BY <2>1, <2>2, <2>3 DEF StubInv
<1>8. CASE MissingLibrary
  BY <1>0, <1>8, <1>i
     DEF MissingLibrary, inputs, StubInv, TypeOK, YamlStage, LibIsResult
<1>9. CASE Stop
  <2>. USE <1>9 DEF Stop, inputs
  <2>1. lib' \in {lib, Absent} /\ installed' \in {installed, FALSE}
    BY DEF LibAfterStop
  <2>2. TypeOK'
    <3>1. stops' \in 0 .. MaxStops  BY <1>0 DEF TypeOK
    <3>2. installed' \in BOOLEAN  BY <1>0, <2>1 DEF TypeOK
    <3>3. lib' \in Content \cup {Absent, Broken}  BY <1>0, <2>1 DEF TypeOK
    <3>. QED  BY <1>0, <3>1, <3>2, <3>3 DEF TypeOK
  <2>3. LibIsResult'  BY <1>0, <1>i, <2>1 DEF LibIsResult
  <2>4. (NoClash(exported, findings) => YamlStage)'
    BY <1>i DEF StubInv, YamlStage
  <2>. QED  BY <2>2, <2>3, <2>4 DEF StubInv
<1>10. CASE StopInWrite
  <2>. USE <1>10 DEF StopInWrite, inputs
  <2>0. lib' \in {lib, Absent} /\ yaml' \in {Broken, Absent}
    BY DEF LibAfterStop
  <2>1. TypeOK'
    <3>1. stops' \in 0 .. MaxStops  BY <1>0 DEF TypeOK
    <3>2. lib' \in Content \cup {Absent, Broken}  BY <1>0, <2>0 DEF TypeOK
    <3>3. yaml' \in Content \cup {Absent, Broken}  BY <2>0
    <3>. QED  BY <1>0, <3>1, <3>2, <3>3 DEF TypeOK
  <2>2. LibIsResult'  BY <1>0, <1>i, <2>0 DEF LibIsResult
  <2>3. (NoClash(exported, findings) => YamlStage)'
    BY <1>i, <2>0 DEF YamlStage
  <2>. QED  BY <2>1, <2>2, <2>3 DEF StubInv
<1>11. CASE ExtractFails
  <2>1. Extracted \in Content /\ Extracted.entries = exported
    BY <1>0, Inputs DEF Extracted, Content, Dictionary
  <2>2. yaml' \in {Absent, Extracted} /\ UNCHANGED <<inputs, Extracted>>
    BY <1>11 DEF ExtractFails, inputs, Extracted
  <2>3. TypeOK'
    BY <1>0, <1>11, <2>1, <2>2 DEF ExtractFails, inputs, TypeOK
  <2>4. (NoClash(exported, findings) => YamlStage)'
    BY <1>11, <1>i, <2>1, <2>2 DEF ExtractFails, inputs, YamlStage
  <2>5. LibIsResult'
    BY <1>0, <1>11, <1>i DEF ExtractFails, LibIsResult
  <2>. QED  BY <1>11, <2>1, <2>3, <2>4, <2>5 DEF ExtractFails, StubInv
<1>. QED
  BY <1>1, <1>2, <1>3, <1>4, <1>5, <1>6, <1>7, <1>8, <1>9, <1>10, <1>11
     DEF Next, Step

----------------------------------------------------------------------------
(* The theorems *)

\* The pipeline keeps StubInv: at every command the yaml is at a stage the
\* command can go on from, however often the build was stopped before.
THEOREM StubInvariant == Spec => []StubInv
BY StubInitially, StubStep, PTL DEF Spec

\* Every variable of the pipeline has its type.
THEOREM StubTypeCorrect == Spec => []TypeOK
<1>1. StubInv => TypeOK  BY DEF StubInv
<1>. QED  BY <1>1, StubInvariant, PTL

\* A stub library that was built is the one an undisturbed build gives,
\* although the tools of rule 3 edit the output of rule 1 in place.
THEOREM StubIsResult == Spec => []LibIsResult
<1>1. StubInv => LibIsResult  BY DEF StubInv
<1>. QED  BY <1>1, StubInvariant, PTL
============================================================================
