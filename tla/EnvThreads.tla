----------------------------- MODULE EnvThreads -----------------------------
(***************************************************************************)
(* Managed threads that call Environment.GetEnvironmentVariable and        *)
(* SetEnvironmentVariable at the same time: the two patched icalls of      *)
(* patches/mono/metadata/icall.c over the table of environment.c, which no *)
(* lock protects.  Every read, write, malloc, realloc and free of the      *)
(* shared memory is a step.  Where a writer names a cell again after the   *)
(* comparison that found it, a compiler may keep what it has or load it    *)
(* again, and both are modelled; a reader keeps the pointer it compared.   *)
(*                                                                         *)
(* EnvTableProofs shows that an entry matches one name only and that its   *)
(* value reads back, so here an entry is a record of a name and a value.   *)
(* Names are usable ones; the other ones never reach the table.            *)
(***************************************************************************)
EXTENDS Naturals, Sequences, FiniteSets

CONSTANTS Thread,   \* the threads that run managed code
          Writers,  \* the threads that set variables; all of them read
          Name,     \* the usable names of variables
          Value,    \* the values that are not empty
          Addr,     \* where malloc can put an entry
          Array,    \* where realloc can put the array
          MaxCells, \* the most cells of an array there is memory for
          NULL,     \* the null pointer and the null string
          Free,     \* the content of memory that is not allocated
          Junk      \* the content of memory that was never written

ASSUME WritersAssumption == Writers \subseteq Thread
ASSUME MemoryAssumption ==
  /\ NULL \notin Addr \cup Array \cup Value
  /\ Junk \notin Addr \cup {NULL}
  /\ MaxCells \in Nat
  /\ Free \notin Seq(Addr \cup {NULL, Junk}) \cup [name : Name, value : Value]

VARIABLES
  VML_env,    \* the array in use
  array,      \* the cells of each array: addresses, NULL, Junk
  heap,       \* the entry at each address
  pc,         \* where each thread is
  loc,        \* its local variables
  undefined,  \* a thread has used memory it must not use
  env,        \* history: what the finished calls have made of each variable
  overlap,    \* history: a call that changes the table met another call in it
  taken       \* history: a call changed a variable while a caller was still
              \* to copy the value VMLGetEnv had pointed it to

shared == <<VML_env, array, heap>>
vars == <<shared, pc, loc, undefined, env, overlap, taken>>

Ops == {"get", "set", "unset"}

(* Where a thread is between the first and the last access to the table.   *)
InTable == {"enter", "scan", "compare", "replace", "store", "grow", "publish",
            "append", "close", "remove", "shift"}
Labels == InTable \cup {"idle", "alloc", "release", "copy"}

Locals == [op : Ops \cup {NULL}, name : Name \cup {NULL}, value : Value \cup {NULL},
           i : Nat, ptr : Addr \cup {NULL}, new : Addr \cup {NULL},
           block : Array \cup {NULL}, buffers : 0 .. 2,
           result : Value \cup {NULL}]

Called(op, name, value, buffers) ==
  [op |-> op, name |-> name, value |-> value, i |-> 1, ptr |-> NULL,
   new |-> NULL, block |-> NULL, buffers |-> buffers, result |-> NULL]

NoLocals == Called(NULL, NULL, NULL, 0)

Init ==
  /\ VML_env = NULL
  /\ array = [b \in Array |-> Free]
  /\ heap = [a \in Addr |-> Free]
  /\ pc = [t \in Thread |-> "idle"]
  /\ loc = [t \in Thread |-> NoLocals]
  /\ undefined = FALSE
  /\ env = [n \in Name |-> NULL]
  /\ overlap = FALSE
  /\ taken = FALSE

-----------------------------------------------------------------------------
(* VML_env[k], counted from 1, can be written; it holds a pointer.         *)
Writable(k) == /\ VML_env # NULL
               /\ array[VML_env] # Free
               /\ k \in DOMAIN array[VML_env]
Readable(k) == Writable(k) /\ array[VML_env][k] # Junk
Cell(k) == array[VML_env][k]
Write(k, pointer) == array' = [array EXCEPT ![VML_env][k] = pointer]

At(t, label) == pc[t] = label /\ ~ undefined
Goto(t, label) == pc' = [pc EXCEPT ![t] = label]

(* Use of freed or unwritten memory: nothing is promised from here on.     *)
Undefined == undefined' = TRUE /\ UNCHANGED <<shared, pc, loc, env>>

(* Definitions whose names end in _bug are the code with a plausible       *)
(* mistake in it; they show that a property would notice.                  *)

(* Where the three functions go when their scan finds the name or does not.*)
Found  == [get |-> "release", set |-> "replace", unset |-> "remove"]
Missed == [get |-> "release", set |-> "grow",    unset |-> "release"]

-----------------------------------------------------------------------------
(* The icalls up to the call of environment.c: strings become utf8 buffers.*)

GetEnvironmentVariable(t, name) ==
  /\ At(t, "idle")
  /\ loc' = [loc EXCEPT ![t] = Called("get", name, NULL, 1)]
  /\ Goto(t, "enter")
  /\ UNCHANGED <<shared, undefined, env>>

(* A value that is null or empty removes the variable.                     *)
InternalSetEnvironmentVariable(t, name, value) ==
  /\ At(t, "idle")
  /\ t \in Writers
  /\ \/ /\ value = NULL
        /\ loc' = [loc EXCEPT ![t] = Called("unset", name, NULL, 1)]
        /\ Goto(t, "enter")
     \/ /\ value # NULL
        /\ loc' = [loc EXCEPT ![t] = Called("set", name, value, 2)]
        /\ Goto(t, "alloc")
  /\ UNCHANGED <<shared, undefined, env>>

(* new_variable = malloc(len); snprintf(...): the entry is still private.  *)
Alloc(t) ==
  /\ At(t, "alloc")
  /\ \/ \E a \in Addr :
          /\ heap[a] = Free
          /\ heap' = [heap EXCEPT ![a] = [name |-> loc[t].name,
                                          value |-> loc[t].value]]
          /\ loc' = [loc EXCEPT ![t].new = a]
          /\ Goto(t, "enter")
     \/ /\ Goto(t, "release")
        /\ UNCHANGED <<heap, loc>>
  /\ UNCHANGED <<VML_env, array, undefined, env>>

-----------------------------------------------------------------------------
(* The scan all three functions begin with.                                *)

Enter(t) ==
  /\ At(t, "enter")
  /\ Goto(t, IF VML_env = NULL THEN Missed[loc[t].op] ELSE "scan")
  /\ UNCHANGED <<shared, loc, undefined, env>>

(* Stops at the last entry instead of the null pointer after it.           *)
Scan_bug(t) ==
  /\ At(t, "scan")
  /\ IF ~ Readable(loc[t].i) \/ ~ Readable(loc[t].i + 1) THEN Undefined
     ELSE /\ loc' = [loc EXCEPT ![t].ptr = Cell(loc[t].i)]
          /\ Goto(t, IF Cell(loc[t].i + 1) = NULL THEN Missed[loc[t].op]
                                                  ELSE "compare")
          /\ UNCHANGED <<shared, undefined, env>>

Scan(t) ==
  /\ At(t, "scan")
  /\ IF ~ Readable(loc[t].i) THEN Undefined
     ELSE /\ loc' = [loc EXCEPT ![t].ptr = Cell(loc[t].i)]
          /\ Goto(t, IF Cell(loc[t].i) = NULL THEN Missed[loc[t].op]
                                              ELSE "compare")
          /\ UNCHANGED <<shared, undefined, env>>

(* Begins the scan again when the cell has changed under the comparison.   *)
Compare_bug(t) ==
  /\ At(t, "compare")
  /\ IF heap[loc[t].ptr] = Free THEN Undefined
     ELSE LET same  == heap[loc[t].ptr].name = loc[t].name
              still == Readable(loc[t].i) /\ Cell(loc[t].i) = loc[t].ptr
          IN /\ loc' = IF same THEN loc
                      ELSE [loc EXCEPT ![t].i = IF still THEN loc[t].i + 1 ELSE 1]
             /\ Goto(t, IF same THEN Found[loc[t].op] ELSE "scan")
             /\ UNCHANGED <<shared, undefined, env>>

Compare(t) ==
  /\ At(t, "compare")
  /\ \/ /\ heap[loc[t].ptr] = Free
        /\ Undefined
     \/ /\ heap[loc[t].ptr] # Free
        /\ heap[loc[t].ptr].name = loc[t].name
        /\ Goto(t, Found[loc[t].op])
        /\ UNCHANGED <<shared, loc, undefined, env>>
     \/ /\ heap[loc[t].ptr] # Free
        /\ heap[loc[t].ptr].name # loc[t].name
        /\ loc' = [loc EXCEPT ![t].i = loc[t].i + 1]
        /\ Goto(t, "scan")
        /\ UNCHANGED <<shared, undefined, env>>

-----------------------------------------------------------------------------
(* VMLSetEnv: if VML_env[i] is still an entry, it is freed and then        *)
(* VML_env[i] = new_variable.                                              *)

(* free(VML_env[i]) of the entry that was compared, or of what the cell    *)
(* holds now: strncmp is called between the two loads, and a compiler that *)
(* does not know it to be pure loads the cell again.                       *)
FreeCell(t, next) ==
  LET Freed(a) ==
        IF a # NULL /\ heap[a] = Free THEN Undefined
        ELSE /\ heap' = IF a = NULL THEN heap ELSE [heap EXCEPT ![a] = Free]
             /\ Goto(t, next)
             /\ UNCHANGED <<VML_env, array, loc, undefined, env>>
  IN
  \/ Freed(loc[t].ptr)
  \/ Readable(loc[t].i) /\ Freed(Cell(loc[t].i))
  \/ ~ Readable(loc[t].i) /\ Undefined

(* Forgets to free the entry it replaces.                                  *)
Replace_bug(t) ==
  /\ At(t, "replace")
  /\ Goto(t, "store")
  /\ UNCHANGED <<shared, loc, undefined, env>>

(* A cell that is null when it is tested again, as only another call in    *)
(* the table can make it, sends the call to realloc with its index as the  *)
(* scan left it.                                                           *)
Replace(t) ==
  /\ At(t, "replace")
  /\ \/ FreeCell(t, "store")
     \/ /\ Readable(loc[t].i)
        /\ Cell(loc[t].i) = NULL
        /\ Goto(t, "grow")
        /\ UNCHANGED <<shared, loc, undefined, env>>

(* Leaves the function with the new value in place.                        *)
Stored(t) ==
  /\ Goto(t, "release")
  /\ env' = [env EXCEPT ![loc[t].name] = loc[t].value]

(* Stores the value instead of the new entry.                              *)
Store_bug(t) ==
  /\ At(t, "store")
  /\ IF ~ Writable(loc[t].i) THEN Undefined
     ELSE /\ Write(loc[t].i, loc[t].value)
          /\ Stored(t)
          /\ UNCHANGED <<VML_env, heap, loc, undefined>>

Store(t) ==
  /\ At(t, "store")
  /\ IF ~ Writable(loc[t].i) THEN Undefined
     ELSE /\ Write(loc[t].i, loc[t].new)
          /\ Stored(t)
          /\ UNCHANGED <<VML_env, heap, loc, undefined>>

-----------------------------------------------------------------------------
(* VMLSetEnv: realloc to i + 2 cells, the new entry, the null pointer.     *)

(* Leaves no room for the null pointer.                                    *)
Resized_bug(cells, n) ==
  [k \in 1 .. n - 1 |-> IF k \in DOMAIN cells THEN cells[k] ELSE Junk]

(* The first n cells of an array, the missing ones not written yet.        *)
Resized(cells, n) ==
  [k \in 1 .. n |-> IF k \in DOMAIN cells THEN cells[k] ELSE Junk]

Grow(t) ==
  LET old == IF VML_env = NULL THEN <<>> ELSE array[VML_env]
      Moved(b) == [c \in Array |-> IF c = b THEN Resized(old, loc[t].i + 1)
                                   ELSE IF c = VML_env THEN Free
                                   ELSE array[c]]
  IN
  /\ At(t, "grow")
  /\ \/ /\ old = Free
        /\ Undefined
     \/ /\ old # Free
        /\ loc[t].i + 1 <= MaxCells
        /\ \E b \in Array :
             /\ array[b] = Free \/ b = VML_env
             /\ array' = Moved(b)
             /\ loc' = [loc EXCEPT ![t].block = b]
        /\ Goto(t, "publish")
        /\ UNCHANGED <<VML_env, heap, undefined, env>>
     \/ /\ old # Free
        /\ heap' = [heap EXCEPT ![loc[t].new] = Free]
        /\ Goto(t, "release")
        /\ UNCHANGED <<VML_env, array, loc, undefined, env>>

Publish(t) ==
  /\ At(t, "publish")
  /\ VML_env' = loc[t].block
  /\ Goto(t, "append")
  /\ UNCHANGED <<array, heap, loc, undefined, env>>

AppendEntry(t) ==
  /\ At(t, "append")
  /\ IF ~ Writable(loc[t].i) THEN Undefined
     ELSE /\ Write(loc[t].i, loc[t].new)
          /\ Goto(t, "close")
          /\ UNCHANGED <<VML_env, heap, loc, undefined, env>>

Close(t) ==
  /\ At(t, "close")
  /\ IF ~ Writable(loc[t].i + 1) THEN Undefined
     ELSE /\ Write(loc[t].i + 1, NULL)
          /\ Stored(t)
          /\ UNCHANGED <<VML_env, heap, loc, undefined>>

-----------------------------------------------------------------------------
(* VMLUnsetEnv: free the entry, move the later cells one place down.       *)

Remove(t) == At(t, "remove") /\ FreeCell(t, "shift")

CanShift(j) == Readable(j) /\ (Cell(j) # NULL => Readable(j + 1))

Shift(t) ==
  LET j == loc[t].i IN
  /\ At(t, "shift")
  /\ \/ /\ ~ CanShift(j)
        /\ Undefined
     \/ /\ CanShift(j)
        /\ Cell(j) = NULL
        /\ env' = [env EXCEPT ![loc[t].name] = NULL]
        /\ Goto(t, "release")
        /\ UNCHANGED <<shared, loc, undefined>>
     \/ /\ CanShift(j)
        /\ Cell(j) # NULL
        /\ Write(j, Cell(j + 1))
        /\ loc' = [loc EXCEPT ![t].i = j + 1]
        /\ UNCHANGED <<VML_env, heap, pc, undefined, env>>

-----------------------------------------------------------------------------
(* The icalls after environment.c: sceLibcMonoBridgeFree of the buffers,   *)
(* and for a value that was found, the copy of mono_string_new.            *)

Release(t) ==
  /\ At(t, "release")
  /\ IF loc[t].op = "get" /\ loc[t].ptr # NULL
       THEN /\ loc' = [loc EXCEPT ![t].buffers = 0]
            /\ Goto(t, "copy")
       ELSE /\ loc' = [loc EXCEPT ![t] = NoLocals]
            /\ Goto(t, "idle")
  /\ UNCHANGED <<shared, undefined, env>>

(* The pointer is into an entry; one that was freed and taken for another  *)
(* variable has other text at that place.                                  *)
Copy(t) ==
  LET e == heap[loc[t].ptr]
      InPlace == IF e = Free THEN FALSE ELSE e.name = loc[t].name
  IN
  /\ At(t, "copy")
  /\ \/ /\ ~ InPlace
        /\ Undefined
     \/ /\ InPlace
        /\ loc' = [loc EXCEPT ![t] = [NoLocals EXCEPT !.result = e.value]]
        /\ Goto(t, "idle")
        /\ UNCHANGED <<shared, undefined, env>>

-----------------------------------------------------------------------------
Step(t) ==
  \/ \E name \in Name : GetEnvironmentVariable(t, name)
  \/ \E name \in Name, value \in Value \cup {NULL} :
       InternalSetEnvironmentVariable(t, name, value)
  \/ Alloc(t) \/ Enter(t) \/ Scan(t) \/ Compare(t)
  \/ Replace(t) \/ Store(t)
  \/ Grow(t) \/ Publish(t) \/ AppendEntry(t) \/ Close(t)
  \/ Remove(t) \/ Shift(t)
  \/ Release(t) \/ Copy(t)

Changing(t) == pc[t] \in InTable /\ loc[t].op # "get"

OverlapNow ==
  \E t, u \in Thread : t # u /\ Changing(t) /\ pc[u] \in InTable

(* A thread has a pointer from VMLGetEnv whose text it has not copied yet. *)
Holding(t) ==
  pc[t] \in {"release", "copy"} /\ loc[t].op = "get" /\ loc[t].ptr # NULL

TakenNow ==
  \E t, u \in Thread : Holding(t) /\ Changing(u) /\ loc[u].name = loc[t].name

History == overlap' = (overlap \/ OverlapNow') /\ taken' = (taken \/ TakenNow')

Next == \E t \in Thread : Step(t) /\ History

(* The kernel runs every thread that is in a call again; it need not call. *)
Work(t) == pc[t] # "idle" /\ Step(t) /\ History

Spec == Init /\ [][Next]_vars
FairSpec == Spec /\ \A t \in Thread : WF_vars(Work(t))

-----------------------------------------------------------------------------
TypeOK ==
  /\ VML_env \in Array \cup {NULL}
  /\ array \in [Array -> Seq(Addr \cup {NULL, Junk}) \cup {Free}]
  /\ heap \in [Addr -> [name : Name, value : Value] \cup {Free}]
  /\ pc \in [Thread -> Labels]
  /\ loc \in [Thread -> Locals]
  /\ env \in [Name -> Value \cup {NULL}]
  /\ {undefined, overlap, taken} \subseteq BOOLEAN

(* Memory is misused only after one of two things happened: a call that    *)
(* changes the table met another call inside it, or a variable was changed *)
(* while a reader of that variable was between VMLGetEnv and the copy of   *)
(* mono_string_new.  Readers never harm one another, and a change to one   *)
(* variable never harms a reader of another that has left the table.       *)
SafeUnlessRaced == undefined => overlap \/ taken

(* Until calls have met in the table, whenever none is in it: the array is *)
(* closed, has one entry for each variable that is set and none for the    *)
(* others, and no entry, array or utf8 buffer is left allocated.           *)
Entries ==
  {heap[Cell(k)] : k \in {k \in 1 .. Len(array[VML_env]) - 1 :
                            \A j \in 1 .. k : Cell(j) # NULL}}

TableAtRest ==
  ~ overlap /\ (\A t \in Thread : pc[t] \notin InTable) =>
    /\ \A b \in Array : array[b] # Free => b = VML_env
    /\ VML_env # NULL => \E k \in DOMAIN array[VML_env] : Cell(k) = NULL
    /\ IF VML_env = NULL THEN \A n \in Name : env[n] = NULL
       ELSE Entries = {[name |-> n, value |-> env[n]] :
                         n \in {n \in Name : env[n] # NULL}}
    /\ Cardinality({a \in Addr : heap[a] # Free})
         = Cardinality({n \in Name : env[n] # NULL})
    /\ \A t \in Thread : pc[t] = "idle" => loc[t].buffers = 0

(* A reader that was not raced answers what the last finished call made of *)
(* the variable: its value when it copies one, null when it found none.    *)
ReadsCurrent ==
  [][\A t \in Thread :
       /\ Copy(t) /\ ~ undefined' /\ ~ overlap' /\ ~ taken' =>
            loc'[t].result = env[loc[t].name]
       /\ loc[t].op = "get" /\ pc[t] \in {"enter", "scan"} /\ pc'[t] = "release"
            /\ ~ overlap' =>
            env[loc[t].name] = NULL]_vars

(* No thread is held up for ever by the others: whatever they do to the    *)
(* table while it scans or shifts, and past the point where calls have met *)
(* in it, each call returns, unless memory was misused first.              *)
CallsReturn == \A t \in Thread : []<>(pc[t] = "idle" \/ undefined)

=============================================================================
