------------------------------ MODULE EnvTable ------------------------------
(***************************************************************************)
(* VMLCoreAssemblies/environment.c, called by one thread at a time.        *)
(*                                                                         *)
(* VML_env points to an array of pointers to entries, closed by a null     *)
(* pointer.  Each entry is a block of the heap that holds "name=value".    *)
(* The array grows by realloc when a variable is added and is never given  *)
(* back.  VMLGetEnv returns a pointer into the entry itself: `held' keeps  *)
(* the pointers the callers have and have not dropped.                     *)
(***************************************************************************)
EXTENDS EnvStrings, Integers, FiniteSets

CONSTANTS NameArgs,   \* the names callers pass: strings, or NULL
          ValueArgs,  \* the values callers pass: strings, or NULL
          Addr,       \* the addresses malloc can return for an entry
          Free        \* the content of an address that is not allocated

ASSUME ArgsAssumption ==
  /\ NameArgs \subseteq CString \cup {NULL}
  /\ ValueArgs \subseteq CString \cup {NULL}
ASSUME AddrAssumption == NULL \notin Addr
ASSUME FreeAssumption == Free \notin CString

VARIABLES
  VML_env,  \* the entries before the closing null pointer
  slots,    \* the size of the array VML_env points to; 0: VML_env is null
  heap,     \* the content of each address
  held,     \* the pointer the callers hold from VMLGetEnv(name), if any
  call      \* the last call and what it answered

vars == <<VML_env, slots, heap, held, call>>

Names == {name \in NameArgs : ValidName(name)}
Values == ValueArgs \ {NULL}

NoPointer == [at |-> NULL, text |-> NULL]

NoCall == [op |-> "none", name |-> NULL, value |-> NULL,
           overwrite |-> FALSE, ret |-> 0]

Answer(op, name, value, overwrite, ret) ==
  call' = [op |-> op, name |-> name, value |-> value,
           overwrite |-> overwrite, ret |-> ret]

-----------------------------------------------------------------------------
(* The index the scanning loops stop at, 0 when they reach the null        *)
(* pointer or when there is no array.                                      *)

FindByName(name) ==
  IF slots = 0 THEN 0
  ELSE SelectInSeq(VML_env, LAMBDA a : NameThenEq(heap[a], name))

FindByVariable(name) ==
  IF slots = 0 THEN 0
  ELSE SelectInSeq(VML_env, LAMBDA a : SameVariable(heap[a], name))

(* The value VMLGetEnv(name) points to, NULL when it returns null.         *)
GetResult(name) ==
  IF ValidName(name) /\ FindByName(name) # 0
    THEN ValueAfter(heap[VML_env[FindByName(name)]], name)
    ELSE NULL

(* A caller that changes or removes a variable must not use the pointer it *)
(* has to the old value; pointers to other variables remain its own.       *)
Drop(name) == held' = [held EXCEPT ![name] = NoPointer]

-----------------------------------------------------------------------------
Init ==
  /\ VML_env = <<>>
  /\ slots = 0
  /\ heap = [a \in Addr |-> Free]
  /\ held = [name \in NameArgs |-> NoPointer]
  /\ call = NoCall

VMLGetEnv(name) ==
  /\ held' = [held EXCEPT ![name] =
                IF GetResult(name) = NULL THEN NoPointer
                ELSE LET a == VML_env[FindByName(name)]
                     IN [at |-> a, text |-> heap[a]]]
  /\ Answer("get", name, GetResult(name), FALSE, 0)
  /\ UNCHANGED <<VML_env, slots, heap>>

-----------------------------------------------------------------------------
(* VMLSetEnv: the outcomes of its tests and of its two allocations.        *)

Unchanged == UNCHANGED <<VML_env, slots, heap>>

SetRejected(name, value, overwrite) ==
  /\ ~ ValidName(name) \/ value = NULL
  /\ Answer("set", name, value, overwrite, -1)
  /\ Unchanged

(* Overwrites a variable although it was asked not to.                     *)
SetAdmitted_bug(name, value, overwrite) == ValidName(name) /\ value # NULL

(* The tests VMLSetEnv passes before it allocates the new entry.           *)
SetAdmitted(name, value, overwrite) ==
  /\ ValidName(name)
  /\ value # NULL
  /\ overwrite \/ GetResult(name) = NULL

SetSkipped(name, value, overwrite) ==
  /\ ValidName(name)
  /\ value # NULL
  /\ ~ overwrite
  /\ GetResult(name) # NULL
  /\ Answer("set", name, value, overwrite, 0)
  /\ Unchanged

SetNoMemory(name, value, overwrite) ==
  /\ SetAdmitted(name, value, overwrite)
  /\ Answer("set", name, value, overwrite, -1)
  /\ Unchanged

(* Stores the new pointer before it frees the entry the slot points to.    *)
SetReplace_bug(name, value, overwrite) ==
  LET i == FindByVariable(name) IN
  /\ SetAdmitted(name, value, overwrite)
  /\ i # 0
  /\ \E new \in Addr :
       /\ heap[new] = Free
       /\ heap' = heap
       /\ VML_env' = [VML_env EXCEPT ![i] = new]
  /\ Answer("set", name, value, overwrite, 0)
  /\ UNCHANGED slots

SetReplace(name, value, overwrite) ==
  LET i == FindByVariable(name) IN
  /\ SetAdmitted(name, value, overwrite)
  /\ i # 0
  /\ \E new \in Addr :
       /\ heap[new] = Free
       /\ heap' = [heap EXCEPT ![new] = NewVariable(name, value),
                               ![VML_env[i]] = Free]
       /\ VML_env' = [VML_env EXCEPT ![i] = new]
  /\ Answer("set", name, value, overwrite, 0)
  /\ UNCHANGED slots

(* Grows the array by the new entry only.                                  *)
SetAppend_bug(name, value, overwrite) ==
  /\ SetAdmitted(name, value, overwrite)
  /\ FindByVariable(name) = 0
  /\ \E new \in Addr :
       /\ heap[new] = Free
       /\ heap' = [heap EXCEPT ![new] = NewVariable(name, value)]
       /\ VML_env' = Append(VML_env, new)
  /\ slots' = Len(VML_env) + 1
  /\ Answer("set", name, value, overwrite, 0)

(* realloc to i + 2 pointers: the new entry and the closing null pointer.  *)
SetAppend(name, value, overwrite) ==
  /\ SetAdmitted(name, value, overwrite)
  /\ FindByVariable(name) = 0
  /\ \E new \in Addr :
       /\ heap[new] = Free
       /\ heap' = [heap EXCEPT ![new] = NewVariable(name, value)]
       /\ VML_env' = Append(VML_env, new)
  /\ slots' = Len(VML_env) + 2
  /\ Answer("set", name, value, overwrite, 0)

(* Keeps the new entry when the array cannot grow.                         *)
SetAppendNoMemory_bug(name, value, overwrite) ==
  /\ SetAdmitted(name, value, overwrite)
  /\ FindByVariable(name) = 0
  /\ \E new \in Addr :
       /\ heap[new] = Free
       /\ heap' = [heap EXCEPT ![new] = NewVariable(name, value)]
  /\ Answer("set", name, value, overwrite, -1)
  /\ UNCHANGED <<VML_env, slots>>

(* realloc fails: the new entry is freed and the old array stays.          *)
SetAppendNoMemory(name, value, overwrite) ==
  /\ SetAdmitted(name, value, overwrite)
  /\ FindByVariable(name) = 0
  /\ \E new \in Addr :
       /\ heap[new] = Free
       /\ heap' = [heap EXCEPT ![new] = Free]
  /\ Answer("set", name, value, overwrite, -1)
  /\ UNCHANGED <<VML_env, slots>>

VMLSetEnv(name, value, overwrite) ==
  /\ \/ SetRejected(name, value, overwrite)
     \/ SetSkipped(name, value, overwrite)
     \/ SetNoMemory(name, value, overwrite)
     \/ SetReplace(name, value, overwrite)
     \/ SetAppend(name, value, overwrite)
     \/ SetAppendNoMemory(name, value, overwrite)
  /\ IF overwrite THEN Drop(name) ELSE UNCHANGED held

-----------------------------------------------------------------------------
(* VMLUnsetEnv frees the entry and moves the later pointers, the closing   *)
(* one included, one place down; it answers -1 for no match.               *)
UnsetFound(name) ==
  LET i == FindByName(name) IN
  /\ ValidName(name)
  /\ i # 0
  /\ heap' = [heap EXCEPT ![VML_env[i]] = Free]
  /\ VML_env' = RemoveAt(VML_env, i)
  /\ Answer("unset", name, NULL, FALSE, 0)
  /\ UNCHANGED slots

(* Answers with an error number instead of -1.                             *)
UnsetNotFound_bug(name) ==
  /\ GetResult(name) = NULL
  /\ Answer("unset", name, NULL, FALSE, 22)
  /\ Unchanged

UnsetNotFound(name) ==
  /\ GetResult(name) = NULL
  /\ Answer("unset", name, NULL, FALSE, -1)
  /\ Unchanged

VMLUnsetEnv(name) ==
  /\ UnsetFound(name) \/ UnsetNotFound(name)
  /\ Drop(name)

Next ==
  \E name \in NameArgs :
    \/ VMLGetEnv(name)
    \/ VMLUnsetEnv(name)
    \/ \E value \in ValueArgs, overwrite \in BOOLEAN :
         VMLSetEnv(name, value, overwrite)

Spec == Init /\ [][Next]_vars

-----------------------------------------------------------------------------
Pointers == [at : Addr \cup {NULL}, text : CString \cup {NULL}]

Calls == [op : {"none", "get", "set", "unset"}, name : CString \cup {NULL},
          value : CString \cup {NULL}, overwrite : BOOLEAN, ret : {0, -1}]

TypeOK ==
  /\ VML_env \in Seq(Addr)
  /\ slots \in Nat
  /\ heap \in [Addr -> CString \cup {Free}]
  /\ held \in [NameArgs -> Pointers]
  /\ call \in Calls

(* The heap holds exactly the entries of the table, each of them once: no  *)
(* call loses an entry (a leak), frees one that the table still names (a   *)
(* dangling pointer) or stores the same block twice (a later double free). *)
(* environment.c frees on three paths: replace, failed realloc, unset.     *)
HeapIsTable ==
  /\ \A i, j \in DOMAIN VML_env : VML_env[i] = VML_env[j] => i = j
  /\ \A a \in Addr : heap[a] # Free <=> \E i \in DOMAIN VML_env : VML_env[i] = a

(* The array always has room for its entries and the null pointer that     *)
(* every loop of environment.c stops at; a null VML_env has no entry.      *)
ArrayClosed ==
  IF slots = 0 THEN VML_env = <<>> ELSE Len(VML_env) + 1 <= slots

(* No two entries are for the same variable: the test of VMLSetEnv (name   *)
(* and '=' compared together) and the one of VMLGetEnv and VMLUnsetEnv     *)
(* (name compared, then '=') agree on what a variable is, for names that   *)
(* are prefixes of one another and values that contain '='.                *)
OneEntryPerName ==
  \A name \in Names : \A i, j \in DOMAIN VML_env :
    /\ NameThenEq(heap[VML_env[i]], name)
    /\ SameVariable(heap[VML_env[j]], name)
    => i = j

(* A pointer VMLGetEnv returned stays valid, with the same text behind it, *)
(* until its holder overwrites or unsets that very variable: adding,       *)
(* replacing or removing other variables never moves or frees an entry.    *)
HeldPointersValid ==
  \A name \in NameArgs :
    held[name] # NoPointer =>
      /\ heap[held[name].at] = held[name].text
      /\ \E i \in DOMAIN VML_env : VML_env[i] = held[name].at

(* What makes the properties above inductive: an entry is the text of one  *)
(* VMLSetEnv call, and a held pointer leads to an entry of its own name.   *)
EntriesWellFormed ==
  \A i \in DOMAIN VML_env :
    \E name \in Names, value \in Values :
      heap[VML_env[i]] = NewVariable(name, value)

HeldInTable ==
  \A name \in NameArgs :
    held[name] # NoPointer =>
      /\ name \in Names
      /\ NameThenEq(held[name].text, name)
      /\ heap[held[name].at] = held[name].text
      /\ \E i \in DOMAIN VML_env : VML_env[i] = held[name].at

(* The inductive invariant: every call of environment.c keeps the layout,  *)
(* the single entry per name and the callers' pointers together.           *)
IInv ==
  /\ TypeOK
  /\ HeapIsTable
  /\ ArrayClosed
  /\ EntriesWellFormed
  /\ OneEntryPerName
  /\ HeldInTable

(* The table is a map: see EnvMap.                                         *)
Map == INSTANCE EnvMap WITH
         env <- [name \in Names |-> GetResult(name)]

ImplementsMap == Map!Spec

=============================================================================
