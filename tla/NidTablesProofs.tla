-------------------------- MODULE NidTablesProofs --------------------------
(***************************************************************************)
(* Theorems about NidTables: what the symbol tool makes of a dictionary.   *)
(***************************************************************************)
EXTENDS NidTables, TLAPS

----------------------------------------------------------------------------
(* What Named makes of a dictionary *)

\* Renaming changes no NID.
LEMMA RenamedNid ==
    ASSUME NEW e \in Entry, NEW F \in Findings
    PROVE  Renamed(e, F) \in Entry /\ Renamed(e, F).nid = e.nid
BY DEF Renamed, Known, Entry, Name, Findings

\* The findings of a section are a function from NIDs to symbols.
LEMMA FindingsType ==
    ASSUME NEW F \in Findings
    PROVE  DOMAIN F \subseteq Nid /\ \A n \in DOMAIN F : F[n] \in Symbol
BY DEF Findings

\* Named keeps every NID of a dictionary, adds every one of the findings, and
\* makes up none; NidProofs says when the tool makes Named.
LEMMA NamedKeepsNids ==
    ASSUME NEW E, Dictionary(E), NEW F \in Findings
    PROVE  NidsOf(Named(E, F)) = NidsOf(E) \cup DOMAIN F
<1>1. \A e \in E : Renamed(e, F).nid = e.nid
  BY RenamedNid DEF Dictionary
<1>2. NidsOf({Renamed(e, F) : e \in E}) = NidsOf(E)
  BY <1>1 DEF NidsOf
<1>3. NidsOf(Added(E, F)) = DOMAIN F \ NidsOf(E)
  <2>1. ASSUME NEW n \in DOMAIN F \ NidsOf(E)
        PROVE  n \in NidsOf(Added(E, F))
    <3>1. [name |-> F[n], nid |-> n] \in Added(E, F)  BY DEF Added
    <3>. QED  BY <3>1 DEF NidsOf
  <2>2. ASSUME NEW a \in Added(E, F)
        PROVE  a.nid \in DOMAIN F \ NidsOf(E)
    BY <2>2 DEF Added
  <2>. QED  BY <2>1, <2>2 DEF NidsOf
<1>4. NidsOf(Named(E, F))
        = NidsOf({Renamed(e, F) : e \in E}) \cup NidsOf(Added(E, F))
  BY DEF NidsOf, Named
<1>. QED  BY <1>2, <1>3, <1>4

\* Every NID of the findings that the dictionary has under its made-up name
\* only, or not at all, has its symbol in Named.
LEMMA NamedNamesKnown ==
    ASSUME NEW E, Dictionary(E), NEW F \in Findings,
           NEW n \in DOMAIN F,
           \A e \in E : e.nid = n => e.name = Std(n)
    PROVE  [name |-> F[n], nid |-> n] \in Named(E, F)
<1>. USE DEF Named
<1>1. CASE n \in NidsOf(E)
  <2>1. PICK e \in E : e.nid = n  BY <1>1 DEF NidsOf
  <2>2. n \in Nid  BY FindingsType
  <2>3. Known(e, F)  BY <2>1, <2>2 DEF Known, StdName, Std
  <2>4. Renamed(e, F) = [name |-> F[n], nid |-> n]
    BY <2>1, <2>3 DEF Renamed, Std
  <2>. QED  BY <2>4
<1>2. CASE n \notin NidsOf(E)
  BY <1>2 DEF Added
<1>. QED  BY <1>1, <1>2

\* An entry of the new file is an old one whose name the archive does not
\* tell, or has its symbol from the archive.
LEMMA NamedForm ==
    ASSUME NEW E, Dictionary(E), NEW F \in Findings
    PROVE  \A e \in Named(E, F) :
               \/ e \in E /\ ~Known(e, F)
               \/ /\ e.nid \in DOMAIN F
                  /\ e = [name |-> F[e.nid], nid |-> e.nid]
<1>1. ASSUME NEW d \in E, Known(d, F)
      PROVE  /\ d.nid \in DOMAIN F
             /\ Renamed(d, F) = [name |-> F[d.nid], nid |-> d.nid]
  <2>1. d.name = Std(d.nid)  BY <1>1 DEF Dictionary, Known
  <2>2. d.name.std = d.nid  BY <2>1 DEF Std
  <2>. QED  BY <1>1, <2>2 DEF Known, Renamed
<1>2. \A d \in E : ~Known(d, F) => Renamed(d, F) = d
  BY DEF Renamed
<1>3. \A d \in Added(E, F) :
          d.nid \in DOMAIN F /\ d = [name |-> F[d.nid], nid |-> d.nid]
  BY DEF Added
<1>4. \A d \in E : Known(d, F) => Renamed(d, F).nid = d.nid
  BY <1>1
<1>. QED  BY <1>1, <1>2, <1>3, <1>4 DEF Named

\* Without a clash the new file is a dictionary again: no name twice.
THEOREM NamedIsDictionary ==
    ASSUME NEW E, Dictionary(E), NEW F \in Findings, NoClash(E, F)
    PROVE  Dictionary(Named(E, F))
<1>1. \A e \in Named(E, F) :
          \/ e \in E /\ ~Known(e, F)
          \/ /\ e.nid \in DOMAIN F
             /\ e = [name |-> F[e.nid], nid |-> e.nid]
  BY NamedForm
<1>2. Named(E, F) \subseteq Entry
  <2>1. \A e \in E : Renamed(e, F) \in Entry
    BY RenamedNid DEF Dictionary
  <2>2. Added(E, F) \subseteq Entry
    BY FindingsType DEF Added, Entry, Name
  <2>. QED  BY <2>1, <2>2 DEF Named
<1>3. ASSUME NEW e \in Named(E, F), NEW f \in Named(E, F), e.name = f.name
      PROVE  e = f
  <2>1. CASE e \in E /\ f \in E  BY <1>3, <2>1 DEF Dictionary
  <2>2. CASE e \in E /\ f = [name |-> F[f.nid], nid |-> f.nid] /\ f.nid \in DOMAIN F
    <3>1. e.nid = f.nid  BY <1>3, <2>2 DEF NoClash
    <3>2. e = [name |-> e.name, nid |-> e.nid]
      BY <2>2 DEF Dictionary, Entry
    <3>. QED  BY <1>3, <2>2, <3>1, <3>2
  <2>3. CASE f \in E /\ e = [name |-> F[e.nid], nid |-> e.nid] /\ e.nid \in DOMAIN F
    <3>1. e.nid = f.nid  BY <1>3, <2>3 DEF NoClash
    <3>2. f = [name |-> f.name, nid |-> f.nid]
      BY <2>3 DEF Dictionary, Entry
    <3>. QED  BY <1>3, <2>3, <3>1, <3>2
  <2>4. CASE /\ e = [name |-> F[e.nid], nid |-> e.nid] /\ e.nid \in DOMAIN F
             /\ f = [name |-> F[f.nid], nid |-> f.nid] /\ f.nid \in DOMAIN F
    <3>1. F[e.nid] = F[f.nid]  BY <1>3, <2>4
    <3>. QED  BY <2>4, <3>1 DEF NoClash
  <2>. QED  BY <1>1, <2>1, <2>2, <2>3, <2>4
<1>4. ASSUME NEW e \in Named(E, F), e.name \in StdName
      PROVE  e.name = Std(e.nid)
  BY <1>1, <1>4, FindingsType, NameAssumption DEF Dictionary
<1>. QED  BY <1>2, <1>3, <1>4 DEF Dictionary

\* A second run of the tool on its own result changes nothing: a build that is
\* started again after it stopped between two tools loses nothing by it.
THEOREM NamedTwice ==
    ASSUME NEW E, Dictionary(E), NEW F \in Findings, NoClash(E, F)
    PROVE  /\ Named(Named(E, F), F) = Named(E, F)
           /\ NoClash(Named(E, F), F)
<1>. DEFINE D == Named(E, F)
<1>. HIDE DEF D
<1>1. \A e \in D :
          \/ e \in E /\ ~Known(e, F)
          \/ /\ e.nid \in DOMAIN F
             /\ e = [name |-> F[e.nid], nid |-> e.nid]
  BY NamedForm DEF D
<1>2. \A e \in D : ~Known(e, F)
  BY <1>1, FindingsType, NameAssumption DEF Known
<1>3. \A e \in D : Renamed(e, F) = e  BY <1>2 DEF Renamed
<1>4. Added(D, F) = {}
  BY NamedKeepsNids DEF Added, D
<1>5. Named(D, F) = D  BY <1>3, <1>4 DEF Named
<1>6. ASSUME NEW e \in D, NEW f \in D, e.nid = f.nid
      PROVE  e = f
  <2>1. ASSUME NEW x \in D, NEW y \in D, x.nid = y.nid, x \in E, ~Known(x, F),
               y = [name |-> F[y.nid], nid |-> y.nid], y.nid \in DOMAIN F
        PROVE  x = y
    <3>1. x = [name |-> x.name, nid |-> x.nid]
      BY <2>1 DEF Dictionary, Entry
    <3>2. CASE y \in E  BY <2>1, <3>2 DEF NoClash
    <3>3. CASE y \notin E
      <4>1. PICK d \in E : y = Renamed(d, F)
        <5>1. y.nid \in NidsOf(E)  BY <2>1 DEF NidsOf
        <5>2. y \notin Added(E, F)  BY <5>1 DEF Added
        <5>. QED  BY <5>2 DEF D, Named
      <4>2. d.nid = y.nid  BY <4>1, RenamedNid DEF Dictionary
      <4>3. d = x  BY <4>2, <2>1 DEF NoClash
      <4>. QED  BY <4>1, <4>3, <2>1 DEF Renamed
    <3>. QED  BY <3>2, <3>3
  <2>2. CASE e \in E /\ f \in E  BY <2>2, <1>6 DEF NoClash
  <2>3. CASE e \in E /\ f \notin E  BY <2>3, <2>1, <1>1, <1>6
  <2>4. CASE e \notin E /\ f \in E  BY <2>4, <2>1, <1>1, <1>6
  <2>5. CASE e \notin E /\ f \notin E
    <3>1. /\ e = [name |-> F[e.nid], nid |-> e.nid]
          /\ f = [name |-> F[f.nid], nid |-> f.nid]
      BY <2>5, <1>1
    <3>. QED  BY <3>1, <1>6
  <2>. QED  BY <2>2, <2>3, <2>4, <2>5
<1>7. ASSUME NEW e \in D, NEW n \in DOMAIN F, e.name = F[n]
      PROVE  e.nid = n
  <2>1. CASE e \in E  BY <2>1, <1>7 DEF NoClash
  <2>2. CASE e = [name |-> F[e.nid], nid |-> e.nid] /\ e.nid \in DOMAIN F
    <3>1. F[e.nid] = F[n]  BY <2>2, <1>7
    <3>. QED  BY <2>2, <3>1 DEF NoClash
  <2>. QED  BY <2>1, <2>2, <1>1
<1>8. NoClash(D, F)
  BY <1>6, <1>7 DEF NoClash
<1>. QED  BY <1>5, <1>8 DEF D
============================================================================
