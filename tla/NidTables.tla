----------------------------- MODULE NidTables -----------------------------
(***************************************************************************)
(* The dictionaries of tools/replace-nid-symbols-sce.py and what the tool  *)
(* makes of one of them.                                                   *)
(*                                                                         *)
(* A section of the yaml file is a library's "functions" or its            *)
(* "variables": a dictionary from names to NIDs, here a set of entries.  A *)
(* missing section and an empty one are the same (the tool creates the     *)
(* first and deletes the second).  A name is a symbol or the name that     *)
(* nids-extract makes up, `library_NID', here Std(nid).  The findings of a *)
(* section map the NIDs of the SCE archive to symbols.                     *)
(***************************************************************************)
EXTENDS FiniteSets

CONSTANTS Nid, Symbol

Std(n) == [std |-> n]
StdName == {Std(n) : n \in Nid}
Name == Symbol \cup StdName

ASSUME NameAssumption == Symbol \cap StdName = {}

Entry == [name : Name, nid : Nid]

\* A partial function from NIDs to symbols.
Findings == UNION {[N -> Symbol] : N \in SUBSET Nid}

NidsOf(entries) == {e.nid : e \in entries}
NamesOf(entries) == {e.name : e \in entries}

\* entries[name] = nid: an entry of that name is replaced.
Put(entries, name, nid) ==
    {e \in entries : e.name # name} \cup {[name |-> name, nid |-> nid]}

\* A dictionary as nids-extract or an earlier run of the tool leaves it.
Dictionary(entries) ==
    /\ entries \subseteq Entry
    /\ \A e, f \in entries : e.name = f.name => e = f
    /\ \A e \in entries : e.name \in StdName => e.name = Std(e.nid)

\* Does the archive know the NID an entry is named after?
Known(e, F) == e.name \in StdName /\ e.name.std \in DOMAIN F

Renamed(e, F) ==
    IF Known(e, F) THEN [name |-> F[e.name.std], nid |-> e.nid] ELSE e

Added(entries, F) ==
    {[name |-> F[n], nid |-> n] : n \in DOMAIN F \ NidsOf(entries)}

\* What both loops of the tool together should make of a dictionary.
Named(entries, F) ==
    {Renamed(e, F) : e \in entries} \cup Added(entries, F)

\* No two NIDs ask for the same name, so that no entry replaces another.
NoClash(entries, F) ==
    /\ \A n, m \in DOMAIN F : F[n] = F[m] => n = m
    /\ \A e, f \in entries : e.nid = f.nid => e = f
    /\ \A e \in entries, n \in DOMAIN F : e.name = F[n] => e.nid = n
============================================================================
