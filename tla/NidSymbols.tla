---------------------------- MODULE NidSymbols -----------------------------
(***************************************************************************)
(* tools/replace-nid-symbols-sce.py: it reads the symbols of an SCE        *)
(* archive from objdump, renames the entries of a yaml file and adds the   *)
(* missing ones, one entry at a time, and writes the file at the end if    *)
(* anything changed.                                                       *)
(*                                                                         *)
(* Section stands for the pairs of a library and one of "functions" and    *)
(* "variables"; they are independent of each other and taken in any order. *)
(* Dictionaries are walked in any order too.                               *)
(***************************************************************************)
EXTENDS NidTables

CONSTANTS
    Section,
    Input       \* pairs of a yaml file and an archive, to start from

Member == [section : Section, nid : Nid, symbol : Symbol]

ASSUME InputAssumption ==
    \A in \in Input :
        /\ in.archive \subseteq Member
        /\ DOMAIN in.file = Section
        /\ \A s \in Section : Dictionary(in.file[s])

VARIABLES
    input,      \* what the run started from
    archive,    \* members not read yet
    findings,   \* function_results and variable_results
    file,       \* the yaml file on disk
    yml,        \* yml_contents
    pending,    \* sections not done yet
    at,         \* the section being worked on
    old,        \* old_entries of replace_entries
    left,       \* what the present loop has not come to yet
    changed,    \* the present call has changed something
    edited,
    step

vars == <<input, archive, findings, file, yml, pending, at, old, left,
          changed, edited, step>>

Init ==
    /\ input \in Input
    /\ archive = input.archive
    /\ file = input.file
    /\ yml = file
    /\ findings = [s \in Section |-> [n \in {} |-> n]]
    /\ pending = Section
    /\ at \in Section
    /\ old = {}
    /\ left = {}
    /\ changed = FALSE
    /\ edited = FALSE
    /\ step = "section"

\* coll[library][nid] = symbol: the last member of a NID wins.
add_entry(F, m) ==
    [n \in DOMAIN F \cup {m.nid} |-> IF n = m.nid THEN m.symbol ELSE F[n]]

Scan_bug ==
    /\ step = "section"
    /\ \E m \in archive :
        /\ findings' = [s \in Section |-> add_entry(findings[s], m)]
        /\ archive' = archive \ {m}
    /\ UNCHANGED <<input, file, yml, pending, at, old, left, changed, edited,
                   step>>
Scan ==
    /\ step = "section"
    /\ \E m \in archive :
        /\ findings' = [findings EXCEPT ![m.section] = add_entry(@, m)]
        /\ archive' = archive \ {m}
    /\ UNCHANGED <<input, file, yml, pending, at, old, left, changed, edited,
                   step>>

BeginReplace ==
    /\ step = "section"
    /\ archive = {}
    /\ \E s \in pending :
        /\ at' = s
        /\ old' = yml[s]
        /\ left' = yml[s]
        /\ yml' = [yml EXCEPT ![s] = {}]
    /\ changed' = FALSE
    /\ step' = "replace"
    /\ UNCHANGED <<input, archive, findings, file, pending, edited>>

\* `nid in findings[library]' needs the library to be there.
LibraryMissing_bug(e) == FALSE
LibraryMissing(e) == e.name \in StdName /\ DOMAIN findings[at] = {}

ReplaceOne_bug ==
    /\ step = "replace"
    /\ \E e \in left :
        LET r == Renamed(e, findings[at]) IN
        /\ ~LibraryMissing(e)
        /\ IF Known(e, findings[at])
           THEN yml' = [yml EXCEPT ![at] = Put(@, r.name, r.nid)]
           ELSE UNCHANGED yml
        /\ changed' = (changed \/ Known(e, findings[at]))
        /\ left' = left \ {e}
    /\ UNCHANGED <<input, archive, findings, file, pending, at, old, edited,
                   step>>
ReplaceOne ==
    /\ step = "replace"
    /\ \E e \in left :
        LET r == Renamed(e, findings[at]) IN
        /\ ~LibraryMissing(e)
        /\ yml' = [yml EXCEPT ![at] = Put(@, r.name, r.nid)]
        /\ changed' = (changed \/ Known(e, findings[at]))
        /\ left' = left \ {e}
    /\ UNCHANGED <<input, archive, findings, file, pending, at, old, edited,
                   step>>

KeyError_bug ==
    /\ step = "replace"
    /\ \E e \in left : LibraryMissing(e)
    /\ step' = "failed"
    /\ file' = yml
    /\ UNCHANGED <<input, archive, findings, yml, pending, at, old, left,
                   changed, edited>>
KeyError ==
    /\ step = "replace"
    /\ \E e \in left : LibraryMissing(e)
    /\ step' = "failed"
    /\ UNCHANGED <<input, archive, findings, file, yml, pending, at, old, left,
                   changed, edited>>

\* `edited = edited + n > 0', after each of the two calls.
Edited_bug == changed
Edited == edited \/ changed

BeginAdd_bug ==
    /\ step = "replace"
    /\ left = {}
    /\ edited' = Edited
    /\ changed' = FALSE
    /\ left' = NidsOf(yml[at])
    /\ step' = "add"
    /\ UNCHANGED <<input, archive, findings, file, yml, pending, at, old>>
BeginAdd ==
    /\ step = "replace"
    /\ left = {}
    /\ edited' = Edited
    /\ changed' = FALSE
    /\ left' = DOMAIN findings[at]
    /\ step' = "add"
    /\ UNCHANGED <<input, archive, findings, file, yml, pending, at, old>>

\* declared_nids is a view: it follows what the loop adds.
AddOne ==
    /\ step = "add"
    /\ \E n \in left :
        /\ left' = left \ {n}
        /\ IF n \in NidsOf(yml[at])
           THEN UNCHANGED <<yml, changed>>
           ELSE /\ yml' = [yml EXCEPT ![at] = Put(@, findings[at][n], n)]
                /\ changed' = TRUE
    /\ UNCHANGED <<input, archive, findings, file, pending, at, old, edited,
                   step>>

EndSection ==
    /\ step = "add"
    /\ left = {}
    /\ edited' = Edited
    /\ changed' = FALSE
    /\ pending' = pending \ {at}
    /\ step' = "section"
    /\ UNCHANGED <<input, archive, findings, file, yml, at, old, left>>

Write ==
    /\ step = "section"
    /\ archive = {}
    /\ pending = {}
    /\ file' = IF edited THEN yml ELSE file
    /\ step' = "done"
    /\ UNCHANGED <<input, archive, findings, yml, pending, at, old, left,
                   changed, edited>>

Next ==
    \/ Scan
    \/ BeginReplace
    \/ ReplaceOne
    \/ KeyError
    \/ BeginAdd
    \/ AddOne
    \/ EndSection
    \/ Write

Spec == Init /\ [][Next]_vars

----------------------------------------------------------------------------
(* Properties *)

\* Every variable has its type.
TypeOK ==
    /\ input \in Input
    /\ archive \subseteq Member
    /\ findings \in [Section -> Findings]
    /\ DOMAIN file = Section /\ \A s \in Section : file[s] \subseteq Entry
    /\ DOMAIN yml = Section /\ \A s \in Section : yml[s] \subseteq Entry
    /\ pending \subseteq Section
    /\ at \in Section
    /\ old \subseteq Entry
    /\ step = "replace" => left \subseteq old
    /\ step = "add" => left \subseteq DOMAIN findings[at]
    /\ changed \in BOOLEAN
    /\ edited \in BOOLEAN
    /\ step \in {"section", "replace", "add", "done", "failed"}

NoClashes == \A s \in Section : NoClash(input.file[s], findings[s])

\* When no two NIDs ask for one name, the file of a run that ends is the one
\* Named describes, in whatever order the loops go: every NID is kept, and every
\* NID of the archive is there, under its symbol unless the file had it under
\* another one (NidProofs).
FileIsNamed ==
    step = "done" /\ NoClashes =>
        \A s \in Section : file[s] = Named(input.file[s], findings[s])

\* Clashes or not, the file says nothing of its own: an entry was in the file,
\* or it gives a NID a symbol that some member of the archive gives it, in the
\* same library.
NothingInvented ==
    \A s \in Section : \A e \in file[s] :
        \/ e \in input.file[s]
        \/ \E m \in input.archive :
               m.section = s /\ m.nid = e.nid /\ m.symbol = e.name

\* A NID of the file is lost only to a clash: the name it should have had is
\* there, for another NID.
LostOnlyToClash ==
    step = "done" =>
        \A s \in Section : \A i \in input.file[s] :
            \/ i.nid \in NidsOf(file[s])
            \/ \E e \in file[s] : /\ e.name = Renamed(i, findings[s]).name
                                  /\ e.nid # i.nid

\* A run that stops at a library the archive does not have leaves the file as
\* it found it, although it may have finished other sections.
FailureKeepsFile == step = "failed" => file = input.file

\* A run that ends has met no made-up name in a library the archive does not
\* have: the stop is not a matter of order.
MissingLibraryStops ==
    step = "done" =>
        \A s \in Section :
            NamesOf(input.file[s]) \cap StdName # {}
                => \E m \in input.archive : m.section = s
============================================================================
