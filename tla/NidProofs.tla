----------------------------- MODULE NidProofs -----------------------------
(***************************************************************************)
(* Theorems about NidSymbols.                                              *)
(***************************************************************************)
EXTENDS NidSymbols, NidTablesProofs

----------------------------------------------------------------------------
(* The inductive invariant the proofs rest on: what the tool has made so    *)
(* far, at each place it can be.                                            *)

AtF == findings[at]
Came == old \ left      \* the entries replace_entries has come to

\* Whether anything has been looked at: the archive is read first.
ArchiveFirst ==
    step # "section" \/ pending # Section => archive = {}

\* What is in hand, and what has not been touched.
InHand ==
    /\ step \in {"replace", "add"} => at \in pending /\ old = input.file[at]
    /\ \A s \in pending :
           step = "section" \/ s # at => yml[s] = input.file[s]
    /\ step = "done" => pending = {}

\* What the two loops have made, without a clash.
NamedSoFar ==
    /\ \A s \in Section \ pending :
           NoClash(input.file[s], findings[s])
               => yml[s] = Named(input.file[s], findings[s])
    /\ step = "replace" /\ NoClash(old, AtF)
           => yml[at] = {Renamed(e, AtF) : e \in Came}
    /\ step = "add" /\ NoClash(old, AtF)
           => yml[at] = {Renamed(e, AtF) : e \in old}
                \cup {[name |-> AtF[n], nid |-> n] :
                          n \in (DOMAIN AtF \ left) \ NidsOf(old)}

\* As long as no change was counted there was none.
NothingUncounted ==
    /\ ~edited => \A s \in Section \ pending : yml[s] = input.file[s]
    /\ step = "replace" /\ ~changed => yml[at] = Came
    /\ step = "add" /\ ~edited /\ ~changed => yml[at] = old

\* The names that must be there are there, clash or not.
NamesKept ==
    /\ \A s \in Section \ pending : \A i \in input.file[s] :
           Renamed(i, findings[s]).name \in NamesOf(yml[s])
    /\ step = "replace" =>
           \A i \in Came : Renamed(i, AtF).name \in NamesOf(yml[at])
    /\ step = "add" =>
           \A i \in old : Renamed(i, AtF).name \in NamesOf(yml[at])

FromMember(s, nid, symbol) ==
    \E m \in input.archive : m.section = s /\ m.nid = nid /\ m.symbol = symbol

\* Where everything comes from.
Origins ==
    /\ archive \subseteq input.archive
    /\ \A s \in Section : \A n \in DOMAIN findings[s] :
           FromMember(s, n, findings[s][n])
    /\ \A s \in Section : \A e \in yml[s] :
           e \in input.file[s] \/ FromMember(s, e.nid, e.name)

\* No made-up name was passed in a library without findings.
NoneMissing ==
    /\ \A s \in Section \ pending :
           NamesOf(input.file[s]) \cap StdName # {} => DOMAIN findings[s] # {}
    /\ step = "replace" => \A e \in Came : ~LibraryMissing(e)
    /\ step = "add" => \A e \in old : ~LibraryMissing(e)

FileAsStarted ==
    /\ step # "done" => file = input.file
    /\ step = "done" => file = IF edited THEN yml ELSE input.file

NidInv ==
    /\ TypeOK
    /\ ArchiveFirst
    /\ InHand
    /\ NamedSoFar
    /\ NothingUncounted
    /\ NamesKept
    /\ Origins
    /\ NoneMissing
    /\ FileAsStarted

----------------------------------------------------------------------------
(* The run of the tool *)

\* The file a run starts from holds dictionaries.
LEMMA InputType ==
    ASSUME TypeOK, NEW s \in Section
    PROVE  Dictionary(input.file[s]) /\ input.archive \subseteq Member
BY InputAssumption DEF TypeOK

LEMMA AddEntryType ==
    ASSUME NEW F \in Findings, NEW m \in Member
    PROVE  add_entry(F, m) \in Findings
<1>1. PICK N \in SUBSET Nid : F \in [N -> Symbol]  BY DEF Findings
<1>2. add_entry(F, m) \in [N \cup {m.nid} -> Symbol]
  BY <1>1 DEF add_entry, Member
<1>3. N \cup {m.nid} \in SUBSET Nid  BY DEF Member
<1>. QED  BY <1>2, <1>3 DEF Findings

LEMMA PutType ==
    ASSUME NEW E \in SUBSET Entry, NEW r \in Entry
    PROVE  Put(E, r.name, r.nid) \subseteq Entry
BY DEF Put, Entry

\* Put loses no name.
LEMMA PutNames ==
    ASSUME NEW E, NEW name, NEW nid
    PROVE  NamesOf(Put(E, name, nid)) = NamesOf(E) \cup {name}
<1>1. [name |-> name, nid |-> nid].name = name  OBVIOUS
<1>2. [name |-> name, nid |-> nid] \in Put(E, name, nid)  BY DEF Put
<1>3. name \in NamesOf(Put(E, name, nid))  BY <1>1, <1>2 DEF NamesOf
<1>4. ASSUME NEW e \in E  PROVE e.name \in NamesOf(Put(E, name, nid))
  <2>1. CASE e.name = name  BY <2>1, <1>3
  <2>2. CASE e.name # name  BY <2>2 DEF Put, NamesOf
  <2>. QED  BY <2>1, <2>2
<1>5. ASSUME NEW e \in Put(E, name, nid)  PROVE e.name \in NamesOf(E) \cup {name}
  BY <1>5, <1>1 DEF Put, NamesOf
<1>. QED  BY <1>3, <1>4, <1>5 DEF NamesOf

\* Put of a new name is an addition.
LEMMA PutNew ==
    ASSUME NEW E, NEW r \in Entry, \A x \in E : x.name # r.name
    PROVE  Put(E, r.name, r.nid) = E \cup {r}
<1>1. r = [name |-> r.name, nid |-> r.nid]  BY DEF Entry
<1>. QED  BY <1>1 DEF Put

\* Without a clash, different entries are given different names.
LEMMA RenamedApart ==
    ASSUME NEW E, Dictionary(E), NEW F \in Findings, NoClash(E, F),
           NEW x \in E, NEW e \in E,
           Renamed(x, F).name = Renamed(e, F).name
    PROVE  x = e
<1>1. ASSUME NEW d \in E, Known(d, F)
      PROVE  d.nid \in DOMAIN F /\ Renamed(d, F).name = F[d.nid]
  <2>1. d.name = Std(d.nid)  BY <1>1 DEF Dictionary, Known
  <2>2. d.name.std = d.nid  BY <2>1 DEF Std
  <2>. QED  BY <1>1, <2>2 DEF Known, Renamed
<1>2. ASSUME NEW d \in E, ~Known(d, F)
      PROVE  Renamed(d, F).name = d.name
  BY <1>2 DEF Renamed
<1>3. CASE Known(x, F) /\ Known(e, F)
  BY <1>3, <1>1 DEF NoClash
<1>4. CASE Known(x, F) /\ ~Known(e, F)
  BY <1>4, <1>1, <1>2 DEF NoClash
<1>5. CASE ~Known(x, F) /\ Known(e, F)
  BY <1>5, <1>1, <1>2 DEF NoClash
<1>6. CASE ~Known(x, F) /\ ~Known(e, F)
  BY <1>6, <1>2 DEF Dictionary
<1>. QED  BY <1>3, <1>4, <1>5, <1>6

LEMMA ScanStep ==
    ASSUME NidInv, Scan
    PROVE  NidInv'
<1>. USE DEF NidInv, Scan
<1>1. TypeOK'
  <2>1. PICK m \in archive :
            /\ findings' = [findings EXCEPT ![m.section] = add_entry(@, m)]
            /\ archive' = archive \ {m}
    OBVIOUS
  <2>2. findings' \in [Section -> Findings]
    BY <2>1, AddEntryType DEF TypeOK, Member
  <2>. QED  BY <2>1, <2>2 DEF TypeOK
<1>2. ArchiveFirst'  BY DEF ArchiveFirst, InHand, TypeOK
<1>3. InHand'  BY DEF InHand, TypeOK, ArchiveFirst
<1>4. NamedSoFar'  BY DEF NamedSoFar, AtF, Came, InHand, TypeOK, ArchiveFirst
<1>5. NothingUncounted'  BY DEF NothingUncounted, Came, InHand, TypeOK, ArchiveFirst
<1>6. NamesKept'  BY DEF NamesKept, AtF, Came, NamesOf, InHand, TypeOK, ArchiveFirst
<1>7. Origins'
  <2>1. PICK m \in archive :
            /\ findings' = [findings EXCEPT ![m.section] = add_entry(@, m)]
            /\ archive' = archive \ {m}
    OBVIOUS
  <2>2. m \in input.archive /\ m \in Member  BY DEF Origins, TypeOK
  <2>3. ASSUME NEW s \in Section, NEW n \in DOMAIN findings'[s]
        PROVE  FromMember(s, n, findings'[s][n])
    <3>1. CASE s = m.section
      <4>1. findings'[s] = add_entry(findings[s], m)
        BY <2>1, <3>1 DEF TypeOK
      <4>2. CASE n = m.nid
        BY <2>2, <3>1, <4>1, <4>2 DEF FromMember, add_entry
      <4>3. CASE n # m.nid
        BY <2>3, <4>1, <4>3 DEF Origins, add_entry
      <4>. QED  BY <4>2, <4>3
    <3>2. CASE s # m.section
      <4>1. findings'[s] = findings[s]  BY <2>1, <3>2 DEF TypeOK
      <4>. QED  BY <2>3, <4>1 DEF Origins
    <3>. QED  BY <3>1, <3>2
  <2>. QED  BY <2>1, <2>3 DEF Origins, FromMember
<1>8. NoneMissing'  BY DEF NoneMissing, Came, LibraryMissing, NamesOf, InHand, TypeOK, ArchiveFirst
<1>9. FileAsStarted'  BY DEF FileAsStarted, InHand, TypeOK, ArchiveFirst
<1>. QED  BY <1>1, <1>2, <1>3, <1>4, <1>5, <1>6, <1>7, <1>8, <1>9 DEF NidInv

LEMMA BeginReplaceStep ==
    ASSUME NidInv, BeginReplace
    PROVE  NidInv'
<1>. USE DEF NidInv, BeginReplace
<1>1. TypeOK'  BY DEF TypeOK, InHand, ArchiveFirst
<1>2. ArchiveFirst'  BY DEF ArchiveFirst, InHand, TypeOK
<1>3. InHand'  BY DEF InHand, TypeOK, ArchiveFirst
<1>4. NamedSoFar'  BY DEF NamedSoFar, AtF, Came, InHand, TypeOK, ArchiveFirst
<1>5. NothingUncounted'  BY DEF NothingUncounted, Came, InHand, TypeOK, ArchiveFirst
<1>6. NamesKept'  BY DEF NamesKept, AtF, Came, NamesOf, InHand, TypeOK, ArchiveFirst
<1>7. Origins'  BY DEF Origins, FromMember, InHand, TypeOK, ArchiveFirst
<1>8. NoneMissing'  BY DEF NoneMissing, Came, LibraryMissing, NamesOf, InHand, TypeOK, ArchiveFirst
<1>9. FileAsStarted'  BY DEF FileAsStarted, InHand, TypeOK, ArchiveFirst
<1>. QED  BY <1>1, <1>2, <1>3, <1>4, <1>5, <1>6, <1>7, <1>8, <1>9 DEF NidInv

LEMMA ReplaceOneStep ==
    ASSUME NidInv, ReplaceOne
    PROVE  NidInv'
<1>. DEFINE F == findings[at]
<1>. USE DEF NidInv
<1>a. PICK e \in left :
          /\ ~LibraryMissing(e)
          /\ yml' = [yml EXCEPT ![at] =
                        Put(@, Renamed(e, F).name, Renamed(e, F).nid)]
          /\ changed' = (changed \/ Known(e, F))
          /\ left' = left \ {e}
  BY DEF ReplaceOne
<1>b. /\ step = "replace" /\ step' = step
      /\ UNCHANGED <<input, archive, findings, file, pending, at, old, edited>>
  BY DEF ReplaceOne
<1>c. /\ at \in Section /\ F \in Findings /\ e \in old /\ old = input.file[at]
      /\ Dictionary(old)
  BY <1>b, InputType DEF TypeOK, InHand
<1>d. Renamed(e, F) \in Entry /\ Renamed(e, F).nid = e.nid
  BY <1>c, RenamedNid DEF Dictionary
<1>e. /\ yml'[at] = Put(yml[at], Renamed(e, F).name, Renamed(e, F).nid)
      /\ \A s \in Section \ {at} : yml'[s] = yml[s]
      /\ DOMAIN yml' = Section
  BY <1>a, <1>c DEF TypeOK
<1>f. Came' = Came \cup {e} /\ e \notin Came
  BY <1>a, <1>b, <1>c DEF Came
<1>. USE DEF ReplaceOne
<1>. HIDE DEF F
<1>1. TypeOK'
  <2>1. \A s \in Section : yml'[s] \subseteq Entry
    <3>1. yml[at] \in SUBSET Entry  BY <1>c DEF TypeOK
    <3>2. yml'[at] \in SUBSET Entry  BY <1>d, <1>e, <3>1, PutType
    <3>3. \A s \in Section : yml[s] \subseteq Entry  BY DEF TypeOK
    <3>. QED  BY <1>e, <3>2, <3>3
  <2>2. changed' \in BOOLEAN  BY <1>a DEF TypeOK
  <2>3. left' \subseteq old'  BY <1>a, <1>b DEF TypeOK
  <2>4. edited' \in BOOLEAN  BY <1>b DEF TypeOK
  <2>5. /\ input' \in Input /\ archive' \subseteq Member
        /\ findings' \in [Section -> Findings]
    BY <1>b DEF TypeOK
  <2>6. /\ DOMAIN file' = Section /\ \A s \in Section : file'[s] \subseteq Entry
        /\ pending' \subseteq Section /\ at' \in Section /\ old' \subseteq Entry
    BY <1>b DEF TypeOK
  <2>. QED  BY <1>b, <1>e, <2>1, <2>2, <2>3, <2>4, <2>5, <2>6 DEF TypeOK
<1>2. ArchiveFirst'  BY DEF ArchiveFirst, InHand, TypeOK
<1>3. InHand'  BY DEF InHand, TypeOK, ArchiveFirst
<1>4. NamedSoFar'
  <2>1. ASSUME NoClash(old, F)
        PROVE  yml'[at] = {Renamed(x, F) : x \in Came \cup {e}}
    <3>1. yml[at] = {Renamed(x, F) : x \in Came}
      BY <1>b, <2>1 DEF NamedSoFar, AtF, F
    <3>2. \A x \in Came : Renamed(x, F).name # Renamed(e, F).name
      BY <1>c, <1>f, <2>1, RenamedApart DEF Came
    <3>3. yml'[at] = yml[at] \cup {Renamed(e, F)}
      <4>1. \A x \in yml[at] : x.name # Renamed(e, F).name
        BY <3>1, <3>2
      <4>. QED  BY <1>d, <1>e, <4>1, PutNew
    <3>. QED  BY <3>1, <3>3
  <2>2. \A s \in Section \ pending : yml'[s] = yml[s]
    BY <1>b, <1>e DEF InHand
  <2>. QED  BY <1>b, <1>f, <2>1, <2>2 DEF NamedSoFar, AtF, F
<1>5. NothingUncounted'
  <2>1. ASSUME ~changed'  PROVE yml'[at] = Came \cup {e}
    <3>1. ~changed /\ ~Known(e, F)  BY <1>a, <2>1 DEF TypeOK
    <3>2. yml[at] = Came  BY <1>b, <3>1 DEF NothingUncounted
    <3>3. Renamed(e, F) = e  BY <3>1 DEF Renamed
    <3>4. \A x \in Came : x.name # e.name
      BY <1>c, <1>f DEF Came, Dictionary
    <3>. QED  BY <1>d, <1>e, <3>2, <3>3, <3>4, PutNew
  <2>2. \A s \in Section \ pending : yml'[s] = yml[s]
    BY <1>b, <1>e DEF InHand
  <2>. QED  BY <1>b, <1>f, <2>1, <2>2 DEF NothingUncounted
<1>6. NamesKept'
  <2>1. NamesOf(yml'[at]) = NamesOf(yml[at]) \cup {Renamed(e, F).name}
    BY <1>e, PutNames
  <2>2. \A s \in Section \ pending : yml'[s] = yml[s]
    BY <1>b, <1>e DEF InHand
  <2>3. \A i \in Came : Renamed(i, F).name \in NamesOf(yml[at])
    BY <1>b DEF NamesKept, AtF, F
  <2>4. \A i \in Came' : Renamed(i, F).name \in NamesOf(yml'[at])
    BY <1>f, <2>1, <2>3
  <2>5. \A s \in Section \ pending : \A i \in input.file[s] :
            Renamed(i, findings[s]).name \in NamesOf(yml'[s])
    BY <2>2 DEF NamesKept
  <2>6. NamesOf(yml[at])' = NamesOf(yml'[at])
    BY <1>b DEF NamesOf
  <2>7. \A s : NamesOf(yml[s])' = NamesOf(yml'[s])
    BY DEF NamesOf
  <2>. QED  BY <1>b, <2>4, <2>5, <2>6, <2>7 DEF NamesKept, AtF, F
<1>7. Origins'
  <2>1. \/ Renamed(e, F) = e
        \/ FromMember(at, Renamed(e, F).nid, Renamed(e, F).name)
    <3>1. CASE Known(e, F)
      <4>1. e.name = Std(e.nid)  BY <1>c, <3>1 DEF Dictionary, Known
      <4>2. e.name.std = e.nid  BY <4>1 DEF Std
      <4>3. e.nid \in DOMAIN F /\ Renamed(e, F).name = F[e.nid]
        BY <3>1, <4>2 DEF Known, Renamed
      <4>. QED  BY <1>c, <1>d, <4>3 DEF Origins, F
    <3>2. CASE ~Known(e, F)  BY <3>2 DEF Renamed
    <3>. QED  BY <3>1, <3>2
  <2>2. \A x \in yml'[at] :
            \/ x \in yml[at]
            \/ /\ x = [name |-> Renamed(e, F).name, nid |-> Renamed(e, F).nid]
               /\ x = Renamed(e, F)
    BY <1>d, <1>e DEF Put, Entry
  <2>3. \A x \in yml'[at] :
            x \in input.file[at] \/ FromMember(at, x.nid, x.name)
    BY <1>c, <2>1, <2>2 DEF Origins
  <2>. QED  BY <1>b, <1>e, <2>3 DEF Origins, FromMember
<1>8. NoneMissing'  BY DEF NoneMissing, Came, LibraryMissing, NamesOf, InHand, TypeOK, ArchiveFirst
<1>9. FileAsStarted'  BY DEF FileAsStarted, InHand, TypeOK, ArchiveFirst
<1>. QED  BY <1>1, <1>2, <1>3, <1>4, <1>5, <1>6, <1>7, <1>8, <1>9 DEF NidInv

LEMMA KeyErrorStep ==
    ASSUME NidInv, KeyError
    PROVE  NidInv'
<1>. USE DEF NidInv, KeyError
<1>1. TypeOK'  BY DEF TypeOK, InHand, ArchiveFirst
<1>2. ArchiveFirst'  BY DEF ArchiveFirst, InHand, TypeOK
<1>3. InHand'  BY DEF InHand, TypeOK, ArchiveFirst
<1>4. NamedSoFar'  BY DEF NamedSoFar, AtF, Came, InHand, TypeOK, ArchiveFirst
<1>5. NothingUncounted'  BY DEF NothingUncounted, Came, InHand, TypeOK, ArchiveFirst
<1>6. NamesKept'  BY DEF NamesKept, AtF, Came, NamesOf, InHand, TypeOK, ArchiveFirst
<1>7. Origins'  BY DEF Origins, FromMember, InHand, TypeOK, ArchiveFirst
<1>8. NoneMissing'  BY DEF NoneMissing, Came, LibraryMissing, NamesOf, InHand, TypeOK, ArchiveFirst
<1>9. FileAsStarted'  BY DEF FileAsStarted, InHand, TypeOK, ArchiveFirst
<1>. QED  BY <1>1, <1>2, <1>3, <1>4, <1>5, <1>6, <1>7, <1>8, <1>9 DEF NidInv

LEMMA BeginAddStep ==
    ASSUME NidInv, BeginAdd
    PROVE  NidInv'
<1>. USE DEF NidInv, BeginAdd, Edited
<1>1. TypeOK'  BY DEF TypeOK, InHand, ArchiveFirst
<1>2. ArchiveFirst'  BY DEF ArchiveFirst, InHand, TypeOK
<1>3. InHand'  BY DEF InHand, TypeOK, ArchiveFirst
<1>4. NamedSoFar'  BY DEF NamedSoFar, AtF, Came, InHand, TypeOK, ArchiveFirst
<1>5. NothingUncounted'  BY DEF NothingUncounted, Came, InHand, TypeOK, ArchiveFirst
<1>6. NamesKept'  BY DEF NamesKept, AtF, Came, NamesOf, InHand, TypeOK, ArchiveFirst
<1>7. Origins'  BY DEF Origins, FromMember, InHand, TypeOK, ArchiveFirst
<1>8. NoneMissing'  BY DEF NoneMissing, Came, LibraryMissing, NamesOf, InHand, TypeOK, ArchiveFirst
<1>9. FileAsStarted'  BY DEF FileAsStarted, InHand, TypeOK, ArchiveFirst
<1>. QED  BY <1>1, <1>2, <1>3, <1>4, <1>5, <1>6, <1>7, <1>8, <1>9 DEF NidInv

LEMMA AddOneStep ==
    ASSUME NidInv, AddOne
    PROVE  NidInv'
<1>. DEFINE F == findings[at]
<1>. USE DEF NidInv
<1>a. PICK n \in left :
          /\ left' = left \ {n}
          /\ IF n \in NidsOf(yml[at])
             THEN UNCHANGED <<yml, changed>>
             ELSE /\ yml' = [yml EXCEPT ![at] = Put(@, F[n], n)]
                  /\ changed' = TRUE
  BY DEF AddOne
<1>b. /\ step = "add" /\ step' = step
      /\ UNCHANGED <<input, archive, findings, file, pending, at, old, edited>>
  BY DEF AddOne
<1>c. /\ at \in Section /\ F \in Findings /\ old = input.file[at]
      /\ n \in DOMAIN F /\ n \in Nid /\ F[n] \in Symbol /\ Dictionary(old)
  BY <1>b, InputType, FindingsType DEF TypeOK, InHand
<1>. DEFINE r == [name |-> F[n], nid |-> n]
<1>d. r \in Entry /\ r.name = F[n] /\ r.nid = n
  BY <1>c DEF Entry, Name
<1>e. /\ \A s \in Section \ {at} : yml'[s] = yml[s]
      /\ DOMAIN yml' = Section
      /\ n \in NidsOf(yml[at]) => yml'[at] = yml[at]
      /\ n \notin NidsOf(yml[at]) => yml'[at] = Put(yml[at], r.name, r.nid)
  BY <1>a, <1>c, <1>d DEF TypeOK
<1>. USE DEF AddOne
<1>. HIDE DEF F, r
<1>1. TypeOK'
  <2>1. \A s \in Section : yml'[s] \subseteq Entry
    <3>1. yml[at] \in SUBSET Entry  BY <1>c DEF TypeOK
    <3>2. yml'[at] \in SUBSET Entry  BY <1>d, <1>e, <3>1, PutType
    <3>3. \A s \in Section : yml[s] \subseteq Entry  BY DEF TypeOK
    <3>. QED  BY <1>e, <3>2, <3>3
  <2>2. changed' \in BOOLEAN  BY <1>a DEF TypeOK
  <2>3. left' \subseteq DOMAIN findings'[at']  BY <1>a, <1>b DEF TypeOK
  <2>4. edited' \in BOOLEAN  BY <1>b DEF TypeOK
  <2>5. /\ input' \in Input /\ archive' \subseteq Member
        /\ findings' \in [Section -> Findings]
    BY <1>b DEF TypeOK
  <2>6. /\ DOMAIN file' = Section /\ \A s \in Section : file'[s] \subseteq Entry
        /\ pending' \subseteq Section /\ at' \in Section /\ old' \subseteq Entry
    BY <1>b DEF TypeOK
  <2>. QED  BY <1>b, <1>e, <2>1, <2>2, <2>3, <2>4, <2>5, <2>6 DEF TypeOK
<1>2. ArchiveFirst'  BY DEF ArchiveFirst, InHand, TypeOK
<1>3. InHand'  BY DEF InHand, TypeOK, ArchiveFirst
<1>4. NamedSoFar'
  <2>. DEFINE Ren == {Renamed(x, F) : x \in old}
              New(L) == {[name |-> F[m], nid |-> m] :
                             m \in (DOMAIN F \ L) \ NidsOf(old)}
  <2>1. ASSUME NoClash(old, F)
        PROVE  yml'[at] = Ren \cup New(left')
    <3>1. yml[at] = Ren \cup New(left)
      BY <1>b, <2>1 DEF NamedSoFar, AtF, F
    <3>2. \A x \in old : Renamed(x, F).nid = x.nid
      BY <1>c, RenamedNid DEF Dictionary
    <3>3. n \in NidsOf(yml[at]) <=> n \in NidsOf(old)
      <4>1. \A x \in New(left) : x.nid \notin left  OBVIOUS
      <4>2. \A x \in Ren : x.nid \in NidsOf(old)  BY <3>2 DEF NidsOf
      <4>3. \A x \in old : x.nid \in NidsOf(yml[at])
        BY <3>1, <3>2 DEF NidsOf
      <4>. QED  BY <1>a, <3>1, <4>1, <4>2, <4>3 DEF NidsOf
    <3>4. CASE n \in NidsOf(old)
      <4>1. New(left') = New(left)  BY <1>a, <3>4
      <4>. QED  BY <1>e, <3>1, <3>3, <3>4, <4>1
    <3>5. CASE n \notin NidsOf(old)
      <4>1. New(left') = New(left) \cup {r}
        <5>1. (DOMAIN F \ left') \ NidsOf(old)
                = ((DOMAIN F \ left) \ NidsOf(old)) \cup {n}
          BY <1>a, <1>c, <3>5
        <5>. QED  BY <5>1 DEF r
      <4>2. \A x \in New(left) : x.name # r.name
        BY <1>a, <1>c, <1>d, <2>1 DEF NoClash
      <4>3. \A x \in Ren : x.name # r.name
        <5>1. SUFFICES ASSUME NEW x \in old, Renamed(x, F).name = F[n]
                       PROVE  x.nid = n
          BY <1>d, <3>5 DEF NidsOf
        <5>2. CASE Known(x, F)
          <6>1. x.name = Std(x.nid)  BY <1>c, <5>2 DEF Dictionary, Known
          <6>2. x.name.std = x.nid  BY <6>1 DEF Std
          <6>. QED  BY <1>c, <2>1, <5>1, <5>2, <6>2 DEF Known, Renamed, NoClash
        <5>3. CASE ~Known(x, F)
          BY <1>c, <2>1, <5>1, <5>3 DEF Renamed, NoClash
        <5>. QED  BY <5>2, <5>3
      <4>4. yml'[at] = yml[at] \cup {r}
        <5>1. \A x \in yml[at] : x.name # r.name
          BY <3>1, <4>2, <4>3
        <5>. QED  BY <1>d, <1>e, <3>3, <3>5, <5>1, PutNew
      <4>. QED  BY <3>1, <4>1, <4>4
    <3>. QED  BY <3>4, <3>5
  <2>2. \A s \in Section \ pending : yml'[s] = yml[s]
    BY <1>b, <1>e DEF InHand
  <2>. QED  BY <1>b, <2>1, <2>2 DEF NamedSoFar, AtF, F
<1>5. NothingUncounted'
  <2>1. ~changed' => ~changed /\ yml' = yml  BY <1>a
  <2>2. \A s \in Section \ pending : yml'[s] = yml[s]
    BY <1>b, <1>e DEF InHand
  <2>. QED  BY <1>b, <2>1, <2>2 DEF NothingUncounted
<1>6. NamesKept'
  <2>1. NamesOf(yml[at]) \subseteq NamesOf(yml'[at])
    BY <1>e, PutNames
  <2>2. \A s \in Section \ pending : yml'[s] = yml[s]
    BY <1>b, <1>e DEF InHand
  <2>3. \A i \in old : Renamed(i, F).name \in NamesOf(yml'[at])
    BY <1>b, <2>1 DEF NamesKept, AtF, F
  <2>4. \A s \in Section \ pending : \A i \in input.file[s] :
            Renamed(i, findings[s]).name \in NamesOf(yml'[s])
    BY <2>2 DEF NamesKept
  <2>5. \A s : NamesOf(yml[s])' = NamesOf(yml'[s])
    BY DEF NamesOf
  <2>6. NamesOf(yml[at])' = NamesOf(yml'[at])
    BY <1>b DEF NamesOf
  <2>. QED  BY <1>b, <2>3, <2>4, <2>5, <2>6 DEF NamesKept, AtF, F
<1>7. Origins'
  <2>1. FromMember(at, r.nid, r.name)
    BY <1>c, <1>d DEF Origins, F
  <2>2. \A x \in yml'[at] : x \in yml[at] \/ x = r
    BY <1>d, <1>e DEF Put, r
  <2>3. \A x \in yml'[at] :
            x \in input.file[at] \/ FromMember(at, x.nid, x.name)
    BY <1>c, <2>1, <2>2 DEF Origins
  <2>. QED  BY <1>b, <1>e, <2>3 DEF Origins, FromMember
<1>8. NoneMissing'  BY DEF NoneMissing, Came, LibraryMissing, NamesOf, InHand, TypeOK, ArchiveFirst
<1>9. FileAsStarted'  BY DEF FileAsStarted, InHand, TypeOK, ArchiveFirst
<1>. QED  BY <1>1, <1>2, <1>3, <1>4, <1>5, <1>6, <1>7, <1>8, <1>9 DEF NidInv

LEMMA EndSectionStep ==
    ASSUME NidInv, EndSection
    PROVE  NidInv'
<1>. USE DEF NidInv, EndSection, Edited
<1>1. TypeOK'  BY DEF TypeOK, InHand, ArchiveFirst
<1>2. ArchiveFirst'  BY DEF ArchiveFirst, InHand, TypeOK
<1>3. InHand'  BY DEF InHand, TypeOK, ArchiveFirst
<1>4. NamedSoFar'
  <2>1. NoClash(old, AtF) => yml[at] = Named(old, AtF)
    BY DEF NamedSoFar, Named, Added
  <2>2. old = input.file[at]  BY DEF InHand
  <2>. QED  BY <2>1, <2>2 DEF NamedSoFar, AtF
<1>5. NothingUncounted'  BY DEF NothingUncounted, Came, InHand, TypeOK, ArchiveFirst
<1>6. NamesKept'  BY DEF NamesKept, AtF, Came, NamesOf, InHand, TypeOK, ArchiveFirst
<1>7. Origins'  BY DEF Origins, FromMember, InHand, TypeOK, ArchiveFirst
<1>8. NoneMissing'  BY DEF NoneMissing, Came, LibraryMissing, NamesOf, InHand, TypeOK, ArchiveFirst
<1>9. FileAsStarted'  BY DEF FileAsStarted, InHand, TypeOK, ArchiveFirst
<1>. QED  BY <1>1, <1>2, <1>3, <1>4, <1>5, <1>6, <1>7, <1>8, <1>9 DEF NidInv

LEMMA WriteStep ==
    ASSUME NidInv, Write
    PROVE  NidInv'
<1>. USE DEF NidInv, Write
<1>1. TypeOK'  BY DEF TypeOK, InHand, ArchiveFirst
<1>2. ArchiveFirst'  BY DEF ArchiveFirst, InHand, TypeOK
<1>3. InHand'  BY DEF InHand, TypeOK, ArchiveFirst
<1>4. NamedSoFar'  BY DEF NamedSoFar, AtF, Came, InHand, TypeOK, ArchiveFirst
<1>5. NothingUncounted'  BY DEF NothingUncounted, Came, InHand, TypeOK, ArchiveFirst
<1>6. NamesKept'  BY DEF NamesKept, AtF, Came, NamesOf, InHand, TypeOK, ArchiveFirst
<1>7. Origins'  BY DEF Origins, FromMember, InHand, TypeOK, ArchiveFirst
<1>8. NoneMissing'  BY DEF NoneMissing, Came, LibraryMissing, NamesOf, InHand, TypeOK, ArchiveFirst
<1>9. FileAsStarted'  BY DEF FileAsStarted, InHand, TypeOK, ArchiveFirst
<1>. QED  BY <1>1, <1>2, <1>3, <1>4, <1>5, <1>6, <1>7, <1>8, <1>9 DEF NidInv

LEMMA NidInit == Init => NidInv
<1>. SUFFICES ASSUME Init PROVE NidInv  OBVIOUS
<1>. USE DEF Init
<1>1. TypeOK
  <2>1. [n \in {} |-> n] \in Findings
    <3>1. [n \in {} |-> n] \in [{} -> Symbol]  OBVIOUS
    <3>. QED  BY <3>1 DEF Findings
  <2>2. findings \in [Section -> Findings]  BY <2>1
  <2>. QED  BY <2>2, InputAssumption DEF TypeOK, Dictionary
<1>2. Section \ pending = {}  OBVIOUS
<1>. QED
  BY <1>1, <1>2 DEF NidInv, ArchiveFirst, InHand, NamedSoFar,
     NothingUncounted, NamesKept, Origins, NoneMissing, FileAsStarted

LEMMA NidNext == NidInv /\ [Next]_vars => NidInv'
<1>1. CASE Next
  BY <1>1, ScanStep, BeginReplaceStep, ReplaceOneStep, KeyErrorStep,
     BeginAddStep, AddOneStep, EndSectionStep, WriteStep DEF Next
<1>2. CASE UNCHANGED vars
  BY <1>2 DEF vars, NidInv, TypeOK, ArchiveFirst, InHand, NamedSoFar,
     NothingUncounted, NamesKept, Origins, NoneMissing, FileAsStarted,
     AtF, Came, NamesOf, FromMember, LibraryMissing
<1>. QED  BY <1>1, <1>2

\* What the tool has made at each place, for every file and archive.
THEOREM NidInvariant == Spec => []NidInv
BY NidInit, NidNext, PTL DEF Spec

\* Every variable keeps its type.
THEOREM NidTypeCorrect == Spec => []TypeOK
BY NidInvariant, PTL DEF NidInv

\* The loops, in any order, make of each section what Named says.
THEOREM LoopsMakeNamed == Spec => []FileIsNamed
<1>1. NidInv => FileIsNamed
  <2>. SUFFICES ASSUME NidInv, step = "done", NoClashes, NEW s \in Section
                PROVE  file[s] = Named(input.file[s], findings[s])
    BY DEF FileIsNamed
  <2>1. pending = {}  BY DEF NidInv, InHand
  <2>2. yml[s] = Named(input.file[s], findings[s])
    BY <2>1 DEF NidInv, NamedSoFar, NoClashes
  <2>3. file[s] = yml[s]
    <3>1. CASE edited  BY <3>1 DEF NidInv, FileAsStarted
    <3>2. CASE ~edited
      BY <2>1, <3>2 DEF NidInv, FileAsStarted, NothingUncounted
    <3>. QED  BY <3>1, <3>2
  <2>. QED  BY <2>2, <2>3
<1>. QED  BY <1>1, NidInvariant, PTL

\* Without a clash a run that ends loses no NID of the file, adds every NID of
\* the archive (add_missing_entries) and makes up none.
NidsKept ==
    step = "done" /\ NoClashes =>
        \A s \in Section :
            NidsOf(file[s]) = NidsOf(input.file[s]) \cup DOMAIN findings[s]

\* Without a clash a run that ends has given each NID of the archive its symbol
\* (replace_entries), unless the file had it under another symbol: this is what
\* the tool is for.
SymbolsGiven ==
    step = "done" /\ NoClashes =>
        \A s \in Section : \A n \in DOMAIN findings[s] :
            (\A e \in input.file[s] : e.nid = n => e.name = Std(n))
                => [name |-> findings[s][n], nid |-> n] \in file[s]

\* A finished run keeps and adds the NIDs it should, for every archive and file
\* without a clash.
THEOREM ToolKeepsNids == Spec => []NidsKept
<1>1. NidInv /\ FileIsNamed => NidsKept
  <2>. SUFFICES ASSUME NidInv, FileIsNamed, step = "done", NoClashes,
                       NEW s \in Section
                PROVE  NidsOf(file[s])
                           = NidsOf(input.file[s]) \cup DOMAIN findings[s]
    BY DEF NidsKept
  <2>1. Dictionary(input.file[s]) /\ findings[s] \in Findings
    BY InputType DEF NidInv, TypeOK
  <2>2. file[s] = Named(input.file[s], findings[s])  BY DEF FileIsNamed
  <2>. QED  BY <2>1, <2>2, NamedKeepsNids
<1>. QED  BY <1>1, NidInvariant, LoopsMakeNamed, PTL

\* A finished run names what the archive names, for every archive and file
\* without a clash.
THEOREM ToolGivesSymbols == Spec => []SymbolsGiven
<1>1. NidInv /\ FileIsNamed => SymbolsGiven
  <2>. SUFFICES ASSUME NidInv, FileIsNamed, step = "done", NoClashes,
                       NEW s \in Section, NEW n \in DOMAIN findings[s],
                       \A e \in input.file[s] : e.nid = n => e.name = Std(n)
                PROVE  [name |-> findings[s][n], nid |-> n] \in file[s]
    BY DEF SymbolsGiven
  <2>1. Dictionary(input.file[s]) /\ findings[s] \in Findings
    BY InputType DEF NidInv, TypeOK
  <2>2. file[s] = Named(input.file[s], findings[s])  BY DEF FileIsNamed
  <2>. QED  BY <2>1, <2>2, NamedNamesKnown
<1>. QED  BY <1>1, NidInvariant, LoopsMakeNamed, PTL

\* Nothing is in the file that neither the file nor the archive said.
THEOREM NothingIsInvented == Spec => []NothingInvented
<1>1. NidInv => NothingInvented
  <2>. SUFFICES ASSUME NidInv, NEW s \in Section, NEW e \in file[s]
                PROVE  e \in input.file[s] \/ FromMember(s, e.nid, e.name)
    BY DEF NothingInvented, FromMember
  <2>1. file[s] = input.file[s] \/ file[s] = yml[s]
    BY DEF NidInv, FileAsStarted
  <2>. QED  BY <2>1 DEF NidInv, Origins
<1>. QED  BY <1>1, NidInvariant, PTL

\* Losing a NID takes two that want one name.
THEOREM LossNeedsClash == Spec => []LostOnlyToClash
<1>1. NidInv => LostOnlyToClash
  <2>. SUFFICES ASSUME NidInv, step = "done",
                       NEW s \in Section, NEW i \in input.file[s]
                PROVE  \/ i.nid \in NidsOf(file[s])
                       \/ \E e \in file[s] :
                              /\ e.name = Renamed(i, findings[s]).name
                              /\ e.nid # i.nid
    BY DEF LostOnlyToClash
  <2>1. CASE edited
    <3>1. Renamed(i, findings[s]).name \in NamesOf(yml[s])
      BY DEF NidInv, InHand, NamesKept
    <3>2. file = yml  BY <2>1 DEF NidInv, FileAsStarted
    <3>. QED  BY <3>1, <3>2 DEF NamesOf, NidsOf
  <2>2. CASE ~edited
    BY <2>2 DEF NidInv, FileAsStarted, NidsOf
  <2>. QED  BY <2>1, <2>2
<1>. QED  BY <1>1, NidInvariant, PTL

\* A run that stops has not touched the file.
THEOREM FailureIsClean == Spec => []FailureKeepsFile
<1>1. NidInv => FailureKeepsFile
  BY DEF NidInv, FileAsStarted, FailureKeepsFile
<1>. QED  BY <1>1, NidInvariant, PTL

\* A run does not end when a library with made-up names is not in the archive.
THEOREM MissingLibraryFound == Spec => []MissingLibraryStops
<1>1. NidInv => MissingLibraryStops
  BY DEF NidInv, InHand, NoneMissing, Origins, FromMember, MissingLibraryStops
<1>. QED  BY <1>1, NidInvariant, PTL
============================================================================
