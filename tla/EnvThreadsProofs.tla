-------------------------- MODULE EnvThreadsProofs --------------------------
(***************************************************************************)
(* Theorems about EnvThreads, for any number of threads.                   *)
(***************************************************************************)
EXTENDS EnvThreads, SequenceTheorems, FiniteSetTheorems, FunctionTheorems, TLAPS

Pointer == Addr \cup {NULL, Junk}
Entry == [name : Name, value : Value]

-----------------------------------------------------------------------------
(* Types: TypeOK, and what the place of a thread tells about its locals.   *)

Setting == {"alloc", "replace", "store", "grow", "publish", "append", "close"}

LocalsFit(label, l) ==
  /\ label \in InTable => /\ l.op \in Ops
                          /\ l.name \in Name
                          /\ l.op = "set" => l.value \in Value
  /\ label \in Setting => l.op = "set"
  /\ label \in {"remove", "shift"} => l.op = "unset"
  /\ label = "alloc" => l.name \in Name /\ l.value \in Value
  /\ label \in {"alloc", "enter"} => l.i = 1 /\ l.ptr = NULL
  /\ label \in {"compare", "copy"} => l.ptr \in Addr
  /\ label = "copy" => l.op = "get"
  /\ label = "idle" => l.buffers = 0

TypeInv == TypeOK /\ \A t \in Thread : LocalsFit(pc[t], loc[t])

-----------------------------------------------------------------------------
(* The table, as long as no call that changes it has met another in it.    *)

(* The cells K of an array hold one entry for each variable that e says is *)
(* set, and none for the others; what else is allocated is in X.           *)
Contents(c, h, K, e, X) ==
  /\ \A k \in K : /\ c[k] \in Addr \ X
                  /\ h[c[k]] # Free
                  /\ h[c[k]].value = e[h[c[k]].name]
  /\ \A j, k \in K : h[c[j]].name = h[c[k]].name => j = k
  /\ \A x \in Name : e[x] # NULL => \E k \in K : h[c[k]].name = x
  /\ \A a \in Addr : h[a] # Free <=> a \in X \/ \E k \in K : c[k] = a

(* The null pointer after n entries.                                       *)
Closed(c, n) == c # Free /\ n + 1 \in DOMAIN c /\ c[n + 1] = NULL

(* No array is allocated besides b.                                        *)
Sole(arr, b) == \A x \in Array : arr[x] # Free => x = b

(* A table of n entries that no call has begun to change.                  *)
Table(v, arr, h, n, e, X) ==
  /\ \/ v = NULL /\ n = 0
     \/ v \in Array /\ Closed(arr[v], n)
  /\ Sole(arr, v)
  /\ Contents(arr[v], h, 1 .. n, e, X)

(* The new entry of a call of VMLSetEnv, allocated before it enters.       *)
Own(l) == IF l.op = "set" THEN {l.new} ELSE {}
Fresh(h, l) == l.new \in Addr /\ h[l.new] = [name |-> l.name, value |-> l.value]

(* The cells below k have other names than the one that is looked for.     *)
Before(c, h, l, k) == \A j \in 1 .. k - 1 : h[c[j]].name # l.name

(* The array after realloc: the name is not in it, and there is room.      *)
Room(c, h, e, l) ==
  /\ c # Free
  /\ l.i \in Nat \ {0}
  /\ l.i + 1 \in DOMAIN c
  /\ Contents(c, h, 1 .. l.i - 1, e, {l.new})
  /\ Fresh(h, l)
  /\ e[l.name] = NULL

(* What the call of a thread makes of the variables.                       *)
Without(e, l) == [e EXCEPT ![l.name] = NULL]
With(e, l) == [e EXCEPT ![l.name] = l.value]

(* Where the table is closed, and where the one call in it has opened it.  *)
Steady == {"enter", "scan", "compare", "replace", "remove", "grow"}
Mid == InTable \ Steady

Place(v, arr, h, e, label, l) ==
  /\ label \in Steady =>
       \E n \in Nat :
         /\ Table(v, arr, h, n, e, Own(l))
         /\ l.op = "set" => Fresh(h, l)
         /\ label = "scan" =>
              v # NULL /\ l.i \in 1 .. n + 1 /\ Before(arr[v], h, l, l.i)
         /\ label = "compare" =>
              /\ v # NULL /\ l.i \in 1 .. n /\ Before(arr[v], h, l, l.i)
              /\ l.ptr = arr[v][l.i]
         /\ label \in {"replace", "remove"} =>
              /\ v # NULL /\ l.i \in 1 .. n /\ h[arr[v][l.i]].name = l.name
              /\ l.ptr = arr[v][l.i]
         /\ label = "grow" => l.i = n + 1 /\ e[l.name] = NULL
  /\ label = "publish" =>
       l.block \in Array /\ Sole(arr, l.block) /\ Room(arr[l.block], h, e, l)
  /\ label \in Mid \ {"publish"} => v \in Array /\ Sole(arr, v)
  /\ label = "store" =>
       \E n \in Nat :
         /\ l.i \in 1 .. n
         /\ Closed(arr[v], n)
         /\ Contents(arr[v], h, (1 .. n) \ {l.i}, Without(e, l), {l.new})
         /\ Fresh(h, l)
  /\ label = "append" => Room(arr[v], h, e, l)
  /\ label = "close" =>
       /\ arr[v] # Free
       /\ l.i \in Nat \ {0}
       /\ l.i + 1 \in DOMAIN arr[v]
       /\ Contents(arr[v], h, 1 .. l.i, With(e, l), {})
  /\ label = "shift" =>
       \E n \in Nat :
         /\ Closed(arr[v], n)
         /\ \/ /\ l.i \in 1 .. n
               /\ arr[v][l.i] \in Addr
               /\ Contents(arr[v], h, (1 .. n) \ {l.i}, Without(e, l), {})
            \/ /\ l.i = n + 2
               /\ l.i \in DOMAIN arr[v]
               /\ arr[v][l.i] = NULL
               /\ Contents(arr[v], h, 1 .. n, Without(e, l), {})

(* A pointer that VMLGetEnv answered points to the variable asked for, and *)
(* to the value the last finished call has given it.                       *)
Held(h, e, l) ==
  /\ l.ptr \in Addr
  /\ h[l.ptr] # Free
  /\ h[l.ptr].name = l.name
  /\ h[l.ptr].value = e[l.name]

(* Nobody holds a pointer to an entry that is not in the table yet.        *)
Unseen(label, l, p) == label \in Steady /\ l.op = "set" => p # l.new

TableCore ==
  /\ (\A t \in Thread : ~ Changing(t)) =>
       \E n \in Nat : Table(VML_env, array, heap, n, env, {})
  /\ \A t \in Thread : Place(VML_env, array, heap, env, pc[t], loc[t])

HoldCore ==
  /\ ~ undefined
  /\ \A t \in Thread : Holding(t) => Held(heap, env, loc[t])
  /\ \A t, u \in Thread : Holding(t) => Unseen(pc[u], loc[u], loc[t].ptr)

ThreadsInv ==
  /\ TypeInv
  /\ OverlapNow => overlap
  /\ TakenNow => taken
  /\ ~ overlap => TableCore
  /\ ~ overlap /\ ~ taken => HoldCore

-----------------------------------------------------------------------------
(* Type correctness                                                        *)

LEMMA Memory ==
  /\ NULL \notin Addr /\ NULL \notin Array /\ NULL # Junk /\ Junk \notin Addr
  /\ NULL \notin Value
  /\ Free \notin Seq(Pointer)
  /\ Free \notin Entry
BY MemoryAssumption DEF Pointer, Entry

(* A write into an allocated array leaves it one, and the others alone.    *)
LEMMA WriteType ==
  ASSUME TypeOK, NEW k, Writable(k), NEW p \in Pointer, Write(k, p)
  PROVE  array' \in [Array -> Seq(Pointer) \cup {Free}]
<1>. DEFINE c == array[VML_env]
<1>1. VML_env \in Array /\ c \in Seq(Pointer) /\ k \in DOMAIN c
  BY Memory DEF TypeOK, Writable, Pointer
<1>2. [c EXCEPT ![k] = p] \in Seq(Pointer)
  BY <1>1, ExceptSeq
<1>3. array' = [array EXCEPT ![VML_env] = [c EXCEPT ![k] = p]]
  BY DEF Write
<1>4. array \in [Array -> Seq(Pointer) \cup {Free}]
  BY DEF TypeOK, Pointer
<1>. QED  BY <1>1, <1>2, <1>3, <1>4, Zenon

LEMMA ResizedType ==
  ASSUME NEW c \in Seq(Pointer), NEW n \in Nat
  PROVE  Resized(c, n) \in Seq(Pointer)
<1>1. \A k \in DOMAIN c : c[k] \in Pointer  BY ElementOfSeq, LenProperties
<1>2. Resized(c, n) \in [1 .. n -> Pointer]
  BY <1>1 DEF Resized, Pointer
<1>. QED  BY <1>2, SeqDef

(* A cell that can be read holds an address or the null pointer.           *)
LEMMA CellType ==
  ASSUME TypeOK, NEW k, Readable(k)
  PROVE  Cell(k) \in Addr \cup {NULL}
<1>1. array[VML_env] \in Seq(Pointer) /\ k \in DOMAIN array[VML_env]
  BY Memory DEF TypeOK, Readable, Writable, Pointer
<1>2. array[VML_env][k] \in Pointer
  BY <1>1, ElementOfSeq, LenProperties
<1>. QED  BY <1>2 DEF Cell, Readable, Pointer


LEMMA HistoryType == TypeOK /\ History => {overlap, taken}' \subseteq BOOLEAN
BY DEF TypeOK, History, OverlapNow, TakenNow

(* A step after which a thread is at a new place with new locals.          *)
LEMMA MovedType ==
  ASSUME TypeInv, NEW t \in Thread,
         NEW label \in Labels, pc' = [pc EXCEPT ![t] = label],
         NEW l \in Locals, loc' = [loc EXCEPT ![t] = l],
         LocalsFit(label, l)
  PROVE  /\ pc' \in [Thread -> Labels]
         /\ loc' \in [Thread -> Locals]
         /\ \A u \in Thread : LocalsFit(pc[u], loc[u])'
<1>1. pc \in [Thread -> Labels] /\ loc \in [Thread -> Locals]
  BY DEF TypeInv, TypeOK
<1>2. ASSUME NEW u \in Thread PROVE LocalsFit(pc'[u], loc'[u])
  <2>1. CASE u = t
    BY <1>1, <2>1
  <2>2. CASE u # t
    <3>1. pc'[u] = pc[u] /\ loc'[u] = loc[u]  BY <1>1, <2>2
    <3>. QED  BY <3>1 DEF TypeInv
  <2>. QED  BY <2>1, <2>2
<1>3. \A u \in Thread : LocalsFit(pc[u], loc[u])'
  BY <1>2 DEF LocalsFit
<1>. QED  BY <1>1, <1>3

LEMMA CalledType ==
  ASSUME NEW op \in Ops \cup {NULL}, NEW name \in Name \cup {NULL},
         NEW value \in Value \cup {NULL}, NEW buffers \in 0 .. 2
  PROVE  Called(op, name, value, buffers) \in Locals
BY DEF Called, Locals

LEMMA IdleLocals == NoLocals \in Locals /\ LocalsFit("idle", NoLocals)
<1>1. NoLocals \in Locals  BY CalledType DEF NoLocals
<1>. QED  BY <1>1 DEF LocalsFit, InTable, Setting, NoLocals, Called

(* The parts of TypeInv that a step which is not a misuse has to show.     *)
LEMMA UnchangedShared ==
  ASSUME TypeInv, UNCHANGED <<shared, undefined, env>>, History,
         pc' \in [Thread -> Labels], loc' \in [Thread -> Locals],
         \A u \in Thread : LocalsFit(pc[u], loc[u])'
  PROVE  TypeInv'
BY HistoryType DEF TypeInv, TypeOK, shared

LEMMA UndefinedType ==
  ASSUME TypeInv, Undefined, History
  PROVE  TypeInv'
BY HistoryType DEF TypeInv, TypeOK, shared, Undefined

LEMMA CallsType ==
  ASSUME TypeInv, NEW t \in Thread, History,
         \/ \E name \in Name : GetEnvironmentVariable(t, name)
         \/ \E name \in Name, value \in Value \cup {NULL} :
              InternalSetEnvironmentVariable(t, name, value)
  PROVE  TypeInv'
<1>1. ASSUME NEW name \in Name, GetEnvironmentVariable(t, name)
      PROVE  TypeInv'
  <2>. DEFINE l == Called("get", name, NULL, 1)
  <2>1. l \in Locals  BY CalledType DEF Ops
  <2>2. LocalsFit("enter", l)
    BY DEF Called, LocalsFit, InTable, Setting, Ops
  <2>3. "enter" \in Labels  BY DEF Labels, InTable
  <2>. QED
    BY <1>1, <2>1, <2>2, <2>3, MovedType, UnchangedShared
       DEF GetEnvironmentVariable, Goto
<1>2. ASSUME NEW name \in Name, NEW value \in Value \cup {NULL},
             InternalSetEnvironmentVariable(t, name, value)
      PROVE  TypeInv'
  <2>1. CASE value = NULL
    <3>. DEFINE l == Called("unset", name, NULL, 1)
    <3>1. l \in Locals  BY CalledType DEF Ops
    <3>2. LocalsFit("enter", l)
      BY DEF Called, LocalsFit, InTable, Setting, Ops
    <3>3. "enter" \in Labels  BY DEF Labels, InTable
    <3>. QED
      BY <1>2, <2>1, <3>1, <3>2, <3>3, MovedType, UnchangedShared
         DEF InternalSetEnvironmentVariable, Goto
  <2>2. CASE value # NULL
    <3>. DEFINE l == Called("set", name, value, 2)
    <3>1. l \in Locals  BY CalledType DEF Ops
    <3>2. LocalsFit("alloc", l)
      BY <2>2 DEF Called, LocalsFit, InTable, Setting, Ops
    <3>3. "alloc" \in Labels  BY DEF Labels, InTable
    <3>. QED
      BY <1>2, <2>2, <3>1, <3>2, <3>3, MovedType, UnchangedShared
         DEF InternalSetEnvironmentVariable, Goto
  <2>. QED  BY <2>1, <2>2
<1>. QED  BY <1>1, <1>2

(* An assignment to one local variable.                                    *)
LEMMA SetType ==
  ASSUME TypeInv, NEW t \in Thread
  PROVE  /\ loc[t] \in Locals
         /\ \A a \in Addr : [loc[t] EXCEPT !.new = a] \in Locals
         /\ \A a \in Addr \cup {NULL} : [loc[t] EXCEPT !.ptr = a] \in Locals
         /\ \A b \in Array : [loc[t] EXCEPT !.block = b] \in Locals
         /\ \A i \in Nat : [loc[t] EXCEPT !.i = i] \in Locals
         /\ [loc[t] EXCEPT !.buffers = 0] \in Locals
<1>1. loc[t] \in Locals  BY DEF TypeInv, TypeOK
<1>2. ASSUME NEW l \in Locals
      PROVE  /\ \A a \in Addr : [l EXCEPT !.new = a] \in Locals
             /\ \A a \in Addr \cup {NULL} : [l EXCEPT !.ptr = a] \in Locals
             /\ \A b \in Array : [l EXCEPT !.block = b] \in Locals
             /\ \A i \in Nat : [l EXCEPT !.i = i] \in Locals
             /\ [l EXCEPT !.buffers = 0] \in Locals
  <2>1. \A a \in Addr : [l EXCEPT !.new = a] \in Locals  BY DEF Locals
  <2>2. \A a \in Addr \cup {NULL} : [l EXCEPT !.ptr = a] \in Locals
    BY DEF Locals
  <2>3. \A b \in Array : [l EXCEPT !.block = b] \in Locals  BY DEF Locals
  <2>4. \A i \in Nat : [l EXCEPT !.i = i] \in Locals  BY DEF Locals
  <2>5. [l EXCEPT !.buffers = 0] \in Locals  BY DEF Locals
  <2>. QED  BY <2>1, <2>2, <2>3, <2>4, <2>5
<1>. QED  BY <1>1, <1>2

(* The locals that stay when another one is assigned.                      *)
LEMMA SetFields ==
  ASSUME TypeInv, NEW t \in Thread, NEW x
  PROVE  /\ [loc[t] EXCEPT !.ptr = x].op = loc[t].op
         /\ [loc[t] EXCEPT !.ptr = x].name = loc[t].name
         /\ [loc[t] EXCEPT !.ptr = x].value = loc[t].value
         /\ [loc[t] EXCEPT !.ptr = x].i = loc[t].i
         /\ [loc[t] EXCEPT !.ptr = x].new = loc[t].new
         /\ [loc[t] EXCEPT !.ptr = x].ptr = x
         /\ [loc[t] EXCEPT !.new = x].op = loc[t].op
         /\ [loc[t] EXCEPT !.new = x].name = loc[t].name
         /\ [loc[t] EXCEPT !.new = x].value = loc[t].value
         /\ [loc[t] EXCEPT !.new = x].i = loc[t].i
         /\ [loc[t] EXCEPT !.new = x].ptr = loc[t].ptr
         /\ [loc[t] EXCEPT !.new = x].new = x
         /\ [loc[t] EXCEPT !.i = x].op = loc[t].op
         /\ [loc[t] EXCEPT !.i = x].name = loc[t].name
         /\ [loc[t] EXCEPT !.i = x].value = loc[t].value
         /\ [loc[t] EXCEPT !.i = x].new = loc[t].new
         /\ [loc[t] EXCEPT !.i = x].ptr = loc[t].ptr
         /\ [loc[t] EXCEPT !.i = x].i = x
         /\ [loc[t] EXCEPT !.block = x].op = loc[t].op
         /\ [loc[t] EXCEPT !.block = x].name = loc[t].name
         /\ [loc[t] EXCEPT !.block = x].value = loc[t].value
         /\ [loc[t] EXCEPT !.block = x].i = loc[t].i
         /\ [loc[t] EXCEPT !.block = x].new = loc[t].new
         /\ [loc[t] EXCEPT !.block = x].block = x
         /\ [loc[t] EXCEPT !.buffers = x].op = loc[t].op
         /\ [loc[t] EXCEPT !.buffers = x].name = loc[t].name
         /\ [loc[t] EXCEPT !.buffers = x].value = loc[t].value
         /\ [loc[t] EXCEPT !.buffers = x].ptr = loc[t].ptr
         /\ [loc[t] EXCEPT !.buffers = x].buffers = x
<1>1. loc[t] \in Locals  BY DEF TypeInv, TypeOK
<1>2. ASSUME NEW m \in Locals
      PROVE  /\ [m EXCEPT !.ptr = x].op = m.op
             /\ [m EXCEPT !.ptr = x].name = m.name
             /\ [m EXCEPT !.ptr = x].value = m.value
             /\ [m EXCEPT !.ptr = x].i = m.i
             /\ [m EXCEPT !.ptr = x].new = m.new
             /\ [m EXCEPT !.ptr = x].ptr = x
  BY DEF Locals
<1>3. ASSUME NEW m \in Locals
      PROVE  /\ [m EXCEPT !.new = x].op = m.op
             /\ [m EXCEPT !.new = x].name = m.name
             /\ [m EXCEPT !.new = x].value = m.value
             /\ [m EXCEPT !.new = x].i = m.i
             /\ [m EXCEPT !.new = x].ptr = m.ptr
             /\ [m EXCEPT !.new = x].new = x
  BY DEF Locals
<1>4. ASSUME NEW m \in Locals
      PROVE  /\ [m EXCEPT !.i = x].op = m.op
             /\ [m EXCEPT !.i = x].name = m.name
             /\ [m EXCEPT !.i = x].value = m.value
             /\ [m EXCEPT !.i = x].new = m.new
             /\ [m EXCEPT !.i = x].ptr = m.ptr
             /\ [m EXCEPT !.i = x].i = x
  BY DEF Locals
<1>5. ASSUME NEW m \in Locals
      PROVE  /\ [m EXCEPT !.block = x].op = m.op
             /\ [m EXCEPT !.block = x].name = m.name
             /\ [m EXCEPT !.block = x].value = m.value
             /\ [m EXCEPT !.block = x].i = m.i
             /\ [m EXCEPT !.block = x].new = m.new
             /\ [m EXCEPT !.block = x].block = x
  BY DEF Locals
<1>6. ASSUME NEW m \in Locals
      PROVE  /\ [m EXCEPT !.buffers = x].op = m.op
             /\ [m EXCEPT !.buffers = x].name = m.name
             /\ [m EXCEPT !.buffers = x].value = m.value
             /\ [m EXCEPT !.buffers = x].ptr = m.ptr
             /\ [m EXCEPT !.buffers = x].buffers = x
  BY DEF Locals
<1>. QED  BY <1>1, <1>2, <1>3, <1>4, <1>5, <1>6

LEMMA AllocType ==
  ASSUME TypeInv, NEW t \in Thread, History, Alloc(t)
  PROVE  TypeInv'
<1>1. /\ loc[t] \in Locals
      /\ LocalsFit("alloc", loc[t])
      /\ UNCHANGED <<VML_env, array, undefined, env>>
  BY SetType DEF TypeInv, Alloc, At
<1>2. ASSUME NEW a \in Addr,
             heap' = [heap EXCEPT ![a] = [name |-> loc[t].name,
                                          value |-> loc[t].value]],
             loc' = [loc EXCEPT ![t].new = a], Goto(t, "enter")
      PROVE  TypeInv'
  <2>. DEFINE l == [loc[t] EXCEPT !.new = a]
  <2>1. l \in Locals /\ loc' = [loc EXCEPT ![t] = l]
    BY <1>2, SetType
  <2>2. LocalsFit("enter", l)
    BY <1>1 DEF LocalsFit, InTable, Setting, Locals, Ops
  <2>3. "enter" \in Labels  BY DEF Labels, InTable
  <2>4. [name |-> loc[t].name, value |-> loc[t].value] \in Entry
    BY <1>1 DEF LocalsFit, Entry
  <2>5. heap' \in [Addr -> Entry \cup {Free}]
    BY <1>2, <2>4 DEF TypeInv, TypeOK, Entry
  <2>. QED
    BY <1>1, <1>2, <2>1, <2>2, <2>3, <2>5, MovedType, HistoryType
       DEF Goto, TypeInv, TypeOK, Entry
<1>3. ASSUME Goto(t, "release"), UNCHANGED <<heap, loc>>
      PROVE  TypeInv'
  <2>1. loc' = [loc EXCEPT ![t] = loc[t]]  BY <1>3 DEF TypeInv, TypeOK
  <2>2. LocalsFit("release", loc[t])
    BY <1>1 DEF LocalsFit, InTable, Setting
  <2>3. "release" \in Labels  BY DEF Labels
  <2>. QED
    BY <1>1, <1>3, <2>1, <2>2, <2>3, MovedType, HistoryType
       DEF Goto, TypeInv, TypeOK
<1>. QED  BY <1>2, <1>3 DEF Alloc

LEMMA ScanEnds ==
  ASSUME NEW l, LocalsFit("scan", l)
  PROVE  /\ Missed[l.op] \in Labels /\ LocalsFit(Missed[l.op], l)
         /\ Found[l.op] \in Labels /\ LocalsFit(Found[l.op], l)
BY DEF Ops, Missed, Found, Labels, InTable, LocalsFit, Setting

LEMMA EnterType ==
  ASSUME TypeInv, NEW t \in Thread, History, Enter(t)
  PROVE  TypeInv'
<1>. DEFINE label == IF VML_env = NULL THEN Missed[loc[t].op] ELSE "scan"
<1>1. /\ loc[t] \in Locals
      /\ LocalsFit("enter", loc[t])
      /\ loc' = [loc EXCEPT ![t] = loc[t]]
      /\ pc' = [pc EXCEPT ![t] = label]
      /\ UNCHANGED <<shared, undefined, env>>
  BY DEF TypeInv, TypeOK, Enter, At, Goto
<1>3. "scan" \in Labels /\ LocalsFit("scan", loc[t])
  BY <1>1 DEF Labels, InTable, LocalsFit, Setting
<1>4. label \in Labels /\ LocalsFit(label, loc[t])
  BY <1>3, ScanEnds
<1>. HIDE DEF label
<1>. QED  BY <1>1, <1>4, MovedType, UnchangedShared

LEMMA ScanType ==
  ASSUME TypeInv, NEW t \in Thread, History, Scan(t)
  PROVE  TypeInv'
<1>. DEFINE c == Cell(loc[t].i)
            l == [loc[t] EXCEPT !.ptr = c]
            label == IF c = NULL THEN Missed[loc[t].op] ELSE "compare"
<1>1. CASE ~ Readable(loc[t].i)
  BY <1>1, UndefinedType DEF Scan
<1>2. CASE Readable(loc[t].i)
  <2>1. c \in Addr \cup {NULL}  BY <1>2, CellType DEF TypeInv
  <2>2. LocalsFit("scan", loc[t])
    BY DEF TypeInv, Scan, At
  <2>3. /\ l \in Locals /\ l.op = loc[t].op /\ l.ptr = c
        /\ l.name = loc[t].name /\ l.value = loc[t].value
    <3>. HIDE DEF c
    <3>1. l \in Locals  BY <2>1, SetType
    <3>. QED  BY <3>1, SetFields
  <2>4. /\ loc' = [loc EXCEPT ![t] = l]
        /\ pc' = [pc EXCEPT ![t] = label]
        /\ UNCHANGED <<shared, undefined, env>>
    BY <1>2 DEF Scan, Goto
  <2>. HIDE DEF l, c
  <2>6. LocalsFit("scan", l)
    BY <2>2, <2>3 DEF LocalsFit, InTable, Setting
  <2>5. label \in Labels /\ LocalsFit(label, l)
    <3>1. CASE c = NULL
      BY <2>3, <2>6, <3>1, ScanEnds
    <3>2. CASE c # NULL
      BY <2>1, <2>3, <2>6, <3>2 DEF Labels, InTable, LocalsFit, Setting
    <3>. QED  BY <3>1, <3>2
  <2>. HIDE DEF label
  <2>. QED  BY <2>3, <2>4, <2>5, MovedType, UnchangedShared
<1>. QED  BY <1>1, <1>2

LEMMA CompareType ==
  ASSUME TypeInv, NEW t \in Thread, History, Compare(t)
  PROVE  TypeInv'
<1>0. loc[t] \in Locals /\ LocalsFit("scan", loc[t])
  BY DEF TypeInv, TypeOK, Compare, At, LocalsFit, InTable, Setting
<1>1. CASE Undefined
  BY <1>1, UndefinedType
<1>2. ASSUME Goto(t, Found[loc[t].op]), UNCHANGED <<shared, loc, undefined, env>>
      PROVE  TypeInv'
  <2>1. loc' = [loc EXCEPT ![t] = loc[t]]  BY <1>2 DEF TypeInv, TypeOK
  <2>2. Found[loc[t].op] \in Labels /\ LocalsFit(Found[loc[t].op], loc[t])
    BY <1>0, ScanEnds
  <2>3. /\ pc' \in [Thread -> Labels]
        /\ loc' \in [Thread -> Locals]
        /\ \A u \in Thread : LocalsFit(pc[u], loc[u])'
    BY <1>0, <1>2, <2>1, <2>2, MovedType DEF Goto
  <2>. QED
    BY <1>2, <2>3, UnchangedShared
<1>3. ASSUME loc' = [loc EXCEPT ![t].i = loc[t].i + 1], Goto(t, "scan"),
             UNCHANGED <<shared, undefined, env>>
      PROVE  TypeInv'
  <2>. DEFINE l == [loc[t] EXCEPT !.i = loc[t].i + 1]
  <2>1. l \in Locals /\ loc' = [loc EXCEPT ![t] = l]
    BY <1>0, <1>3, SetType DEF Locals
  <2>2. "scan" \in Labels /\ LocalsFit("scan", l)
    BY <1>0 DEF Labels, InTable, LocalsFit, Setting, Locals
  <2>. HIDE DEF l
  <2>. QED  BY <1>3, <2>1, <2>2, MovedType, UnchangedShared DEF Goto
<1>. QED  BY <1>1, <1>2, <1>3 DEF Compare

(* free of a cell and the step to the place after it.                      *)
LEMMA FreeCellType ==
  ASSUME TypeInv, NEW t \in Thread, History, NEW next \in Labels,
         LocalsFit(next, loc[t]), FreeCell(t, next)
  PROVE  TypeInv'
<1>1. CASE Undefined
  BY <1>1, UndefinedType
<1>2. ASSUME Goto(t, next), UNCHANGED <<VML_env, array, loc, undefined, env>>,
             NEW a, heap' = IF a = NULL THEN heap ELSE [heap EXCEPT ![a] = Free]
      PROVE  TypeInv'
  <2>1. loc[t] \in Locals /\ loc' = [loc EXCEPT ![t] = loc[t]]
    BY <1>2 DEF TypeInv, TypeOK
  <2>2. heap' \in [Addr -> [name : Name, value : Value] \cup {Free}]
    BY <1>2 DEF TypeInv, TypeOK
  <2>3. /\ pc' \in [Thread -> Labels]
        /\ loc' \in [Thread -> Locals]
        /\ \A u \in Thread : LocalsFit(pc[u], loc[u])'
    BY <1>2, <2>1, MovedType DEF Goto
  <2>4. UNCHANGED <<VML_env, array, undefined, env>>  BY <1>2
  <2>. QED
    BY <2>2, <2>3, <2>4, HistoryType DEF TypeInv, TypeOK
<1>. QED  BY <1>1, <1>2 DEF FreeCell

LEMMA FreeType ==
  ASSUME TypeInv, NEW t \in Thread, History, Replace(t) \/ Remove(t)
  PROVE  TypeInv'
<1>0. LocalsFit(pc[t], loc[t])  BY DEF TypeInv
<1>1. CASE Replace(t)
  <2>1. "store" \in Labels /\ LocalsFit("store", loc[t])
    BY <1>0, <1>1 DEF Replace, At, Labels, InTable, LocalsFit, Setting
  <2>2. CASE FreeCell(t, "store")
    BY <2>1, <2>2, FreeCellType
  <2>3. CASE Goto(t, "grow") /\ UNCHANGED <<shared, loc, undefined, env>>
    <3>1. "grow" \in Labels /\ LocalsFit("grow", loc[t])
      BY <1>0, <1>1 DEF Replace, At, Labels, InTable, LocalsFit, Setting
    <3>2. loc[t] \in Locals /\ loc' = [loc EXCEPT ![t] = loc[t]]
      BY <2>3 DEF TypeInv, TypeOK
    <3>. QED  BY <2>3, <3>1, <3>2, MovedType, UnchangedShared DEF Goto
  <2>. QED  BY <1>1, <2>2, <2>3 DEF Replace
<1>2. CASE Remove(t)
  <2>1. "shift" \in Labels /\ LocalsFit("shift", loc[t])
    BY <1>0, <1>2 DEF Remove, At, Labels, InTable, LocalsFit, Setting
  <2>. QED  BY <1>2, <2>1, FreeCellType DEF Remove
<1>. QED  BY <1>1, <1>2

(* A write into the array and the step to the place after it.              *)
LEMMA WriteStepType ==
  ASSUME TypeInv, NEW t \in Thread, History, NEW next \in Labels,
         LocalsFit(next, loc[t]), NEW k, Writable(k),
         NEW p \in Addr \cup {NULL}, Write(k, p), Goto(t, next),
         UNCHANGED <<VML_env, heap, loc, undefined>>,
         env' \in [Name -> Value \cup {NULL}]
  PROVE  TypeInv'
<1>1. loc[t] \in Locals /\ loc' = [loc EXCEPT ![t] = loc[t]]
  BY DEF TypeInv, TypeOK
<1>2. array' \in [Array -> Seq(Addr \cup {NULL, Junk}) \cup {Free}]
  BY WriteType DEF TypeInv, Pointer
<1>3. /\ pc' \in [Thread -> Labels]
      /\ loc' \in [Thread -> Locals]
      /\ \A u \in Thread : LocalsFit(pc[u], loc[u])'
  BY <1>1, MovedType DEF Goto
<1>. QED
  BY <1>2, <1>3, HistoryType DEF TypeInv, TypeOK

LEMMA StoredType ==
  ASSUME TypeOK, NEW t \in Thread, Stored(t)
  PROVE  env' \in [Name -> Value \cup {NULL}]
BY DEF TypeOK, Stored, Locals

LEMMA StoreType ==
  ASSUME TypeInv, NEW t \in Thread, History,
         Store(t) \/ AppendEntry(t) \/ Close(t)
  PROVE  TypeInv'
<1>1. CASE Undefined
  BY <1>1, UndefinedType
<1>2. /\ LocalsFit(pc[t], loc[t])
      /\ loc[t].new \in Addr \cup {NULL}
      /\ env \in [Name -> Value \cup {NULL}]
  BY DEF TypeInv, TypeOK, Locals
<1>3. "release" \in Labels /\ LocalsFit("release", loc[t])
  BY DEF Labels, LocalsFit, InTable, Setting
<1>4. CASE Store(t) /\ ~ Undefined
  BY <1>2, <1>3, <1>4, StoredType, WriteStepType DEF Store, Stored, TypeInv
<1>5. CASE AppendEntry(t) /\ ~ Undefined
  <2>1. "close" \in Labels /\ LocalsFit("close", loc[t])
    BY <1>2, <1>5 DEF AppendEntry, At, Labels, InTable, LocalsFit, Setting
  <2>. QED  BY <1>2, <1>5, <2>1, WriteStepType DEF AppendEntry
<1>6. CASE Close(t) /\ ~ Undefined
  BY <1>3, <1>6, StoredType, WriteStepType DEF Close, Stored, TypeInv
<1>. QED  BY <1>1, <1>4, <1>5, <1>6

LEMMA GrowType ==
  ASSUME TypeInv, NEW t \in Thread, History, Grow(t)
  PROVE  TypeInv'
<1>. DEFINE old == IF VML_env = NULL THEN <<>> ELSE array[VML_env]
            Moved(b) == [c \in Array |-> IF c = b THEN Resized(old, loc[t].i + 1)
                                         ELSE IF c = VML_env THEN Free
                                         ELSE array[c]]
<1>1. /\ loc[t] \in Locals
      /\ LocalsFit("grow", loc[t])
      /\ VML_env \in Array \cup {NULL}
      /\ array \in [Array -> Seq(Pointer) \cup {Free}]
  BY DEF TypeInv, TypeOK, Grow, At, Pointer
<1>2. CASE Undefined
  BY <1>2, UndefinedType
<1>3. ASSUME old # Free, NEW b \in Array, array' = Moved(b),
             loc' = [loc EXCEPT ![t].block = b], Goto(t, "publish"),
             UNCHANGED <<VML_env, heap, undefined, env>>
      PROVE  TypeInv'
  <2>. DEFINE l == [loc[t] EXCEPT !.block = b]
  <2>1. l \in Locals /\ loc' = [loc EXCEPT ![t] = l]
    BY <1>1, <1>3, SetType
  <2>2. "publish" \in Labels /\ LocalsFit("publish", l)
    BY <1>1 DEF Labels, InTable, LocalsFit, Setting, Locals
  <2>. HIDE DEF l
  <2>3. /\ pc' \in [Thread -> Labels]
        /\ loc' \in [Thread -> Locals]
        /\ \A u \in Thread : LocalsFit(pc[u], loc[u])'
    BY <1>3, <2>1, <2>2, MovedType DEF Goto
  <2>4. old \in Seq(Pointer)  BY <1>1, <1>3, EmptySeq
  <2>5. loc[t].i + 1 \in Nat  BY <1>1 DEF Locals
  <2>. HIDE DEF old
  <2>6. Resized(old, loc[t].i + 1) \in Seq(Pointer)
    BY <2>4, <2>5, ResizedType
  <2>7. array' \in [Array -> Seq(Addr \cup {NULL, Junk}) \cup {Free}]
    BY <1>1, <1>3, <2>6 DEF Pointer
  <2>. QED
    BY <1>3, <2>3, <2>7, HistoryType DEF TypeInv, TypeOK
<1>4. ASSUME heap' = [heap EXCEPT ![loc[t].new] = Free], Goto(t, "release"),
             UNCHANGED <<VML_env, array, loc, undefined, env>>
      PROVE  TypeInv'
  <2>1. loc' = [loc EXCEPT ![t] = loc[t]]  BY <1>4 DEF TypeInv, TypeOK
  <2>2. "release" \in Labels /\ LocalsFit("release", loc[t])
    BY DEF Labels, LocalsFit, InTable, Setting
  <2>3. /\ pc' \in [Thread -> Labels]
        /\ loc' \in [Thread -> Locals]
        /\ \A u \in Thread : LocalsFit(pc[u], loc[u])'
    BY <1>1, <1>4, <2>1, <2>2, MovedType DEF Goto
  <2>4. heap' \in [Addr -> [name : Name, value : Value] \cup {Free}]
    BY <1>4 DEF TypeInv, TypeOK
  <2>. QED
    BY <1>4, <2>3, <2>4, HistoryType DEF TypeInv, TypeOK
<1>. QED  BY <1>2, <1>3, <1>4 DEF Grow

LEMMA PublishType ==
  ASSUME TypeInv, NEW t \in Thread, History, Publish(t)
  PROVE  TypeInv'
<1>1. /\ loc[t] \in Locals
      /\ LocalsFit("publish", loc[t])
      /\ loc' = [loc EXCEPT ![t] = loc[t]]
  BY DEF TypeInv, TypeOK, Publish, At
<1>2. "append" \in Labels /\ LocalsFit("append", loc[t])
  BY <1>1 DEF Labels, InTable, LocalsFit, Setting
<1>3. /\ pc' \in [Thread -> Labels]
      /\ loc' \in [Thread -> Locals]
      /\ \A u \in Thread : LocalsFit(pc[u], loc[u])'
  BY <1>1, <1>2, MovedType DEF Publish, Goto
<1>4. VML_env' \in Array \cup {NULL}
  BY <1>1 DEF Publish, Locals
<1>. QED
  BY <1>3, <1>4, HistoryType DEF Publish, TypeInv, TypeOK

LEMMA ShiftType ==
  ASSUME TypeInv, NEW t \in Thread, History, Shift(t)
  PROVE  TypeInv'
<1>. DEFINE j == loc[t].i
<1>1. /\ loc[t] \in Locals
      /\ LocalsFit("shift", loc[t])
  BY DEF TypeInv, TypeOK, Shift, At
<1>2. CASE Undefined
  BY <1>2, UndefinedType
<1>3. ASSUME env' = [env EXCEPT ![loc[t].name] = NULL], Goto(t, "release"),
             UNCHANGED <<shared, loc, undefined>>
      PROVE  TypeInv'
  <2>1. loc' = [loc EXCEPT ![t] = loc[t]]  BY <1>3 DEF TypeInv, TypeOK
  <2>2. "release" \in Labels /\ LocalsFit("release", loc[t])
    BY DEF Labels, LocalsFit, InTable, Setting
  <2>3. /\ pc' \in [Thread -> Labels]
        /\ loc' \in [Thread -> Locals]
        /\ \A u \in Thread : LocalsFit(pc[u], loc[u])'
    BY <1>1, <1>3, <2>1, <2>2, MovedType DEF Goto
  <2>4. env' \in [Name -> Value \cup {NULL}]
    BY <1>3 DEF TypeInv, TypeOK
  <2>. QED
    BY <1>3, <2>3, <2>4, HistoryType DEF TypeInv, TypeOK, shared
<1>4. ASSUME CanShift(j), Cell(j) # NULL, Write(j, Cell(j + 1)),
             loc' = [loc EXCEPT ![t].i = j + 1],
             UNCHANGED <<VML_env, heap, pc, undefined, env>>
      PROVE  TypeInv'
  <2>. DEFINE l == [loc[t] EXCEPT !.i = j + 1]
  <2>1. l \in Locals /\ loc' = [loc EXCEPT ![t] = l]
    BY <1>1, <1>4, SetType DEF Locals
  <2>2. LocalsFit("shift", l)
    BY <1>1 DEF InTable, LocalsFit, Setting, Locals
  <2>. HIDE DEF l
  <2>3. pc' = [pc EXCEPT ![t] = "shift"] /\ "shift" \in Labels
    BY <1>4 DEF TypeInv, TypeOK, Shift, At, Labels, InTable
  <2>4. /\ pc' \in [Thread -> Labels]
        /\ loc' \in [Thread -> Locals]
        /\ \A u \in Thread : LocalsFit(pc[u], loc[u])'
    BY <2>1, <2>2, <2>3, MovedType
  <2>5. Cell(j + 1) \in Pointer /\ Writable(j)
    BY <1>4, CellType DEF CanShift, Readable, Pointer, TypeInv
  <2>6. array' \in [Array -> Seq(Addr \cup {NULL, Junk}) \cup {Free}]
    BY <1>4, <2>5, WriteType DEF TypeInv, Pointer
  <2>. QED
    BY <1>4, <2>4, <2>6, HistoryType DEF TypeInv, TypeOK
<1>. QED  BY <1>2, <1>3, <1>4 DEF Shift

LEMMA ReleaseType ==
  ASSUME TypeInv, NEW t \in Thread, History, Release(t)
  PROVE  TypeInv'
<1>0. /\ LocalsFit("release", loc[t])
      /\ loc[t] \in Locals
      /\ UNCHANGED <<shared, undefined, env>>
  BY DEF TypeInv, TypeOK, Release, At
<1>1. CASE loc[t].op = "get" /\ loc[t].ptr # NULL
  <2>. DEFINE l == [loc[t] EXCEPT !.buffers = 0]
  <2>1. l \in Locals /\ loc' = [loc EXCEPT ![t] = l]
    BY <1>1, SetType DEF Release
  <2>2. "copy" \in Labels /\ LocalsFit("copy", l)
    BY <1>0, <1>1 DEF Labels, InTable, LocalsFit, Setting, Locals
  <2>3. pc' = [pc EXCEPT ![t] = "copy"]  BY <1>1 DEF Release, Goto
  <2>. HIDE DEF l
  <2>. QED  BY <1>0, <2>1, <2>2, <2>3, MovedType, UnchangedShared
<1>2. CASE ~ (loc[t].op = "get" /\ loc[t].ptr # NULL)
  <2>1. "idle" \in Labels  BY DEF Labels
  <2>2. /\ loc' = [loc EXCEPT ![t] = NoLocals]
        /\ pc' = [pc EXCEPT ![t] = "idle"]
    BY <1>2 DEF Release, Goto
  <2>. QED
    BY <1>0, <2>1, <2>2, IdleLocals, MovedType, UnchangedShared
<1>. QED  BY <1>1, <1>2

LEMMA CopyType ==
  ASSUME TypeInv, NEW t \in Thread, History, Copy(t)
  PROVE  TypeInv'
<1>. DEFINE e == heap[loc[t].ptr]
            l == [NoLocals EXCEPT !.result = e.value]
<1>1. CASE Undefined
  BY <1>1, UndefinedType
<1>2. CASE ~ Undefined
  <2>1. /\ e # Free
        /\ loc' = [loc EXCEPT ![t] = l]
        /\ pc' = [pc EXCEPT ![t] = "idle"]
        /\ UNCHANGED <<shared, undefined, env>>
    BY <1>2 DEF Copy, Goto
  <2>2. loc[t].ptr \in Addr
    BY DEF TypeInv, Copy, At, LocalsFit
  <2>3. e \in [name : Name, value : Value]
    BY <2>1, <2>2 DEF TypeInv, TypeOK
  <2>4. e.value \in Value  BY <2>3
  <2>. HIDE DEF e
  <2>5. l \in Locals
    <3>1. NoLocals \in Locals  BY IdleLocals
    <3>. QED  BY <2>4, <3>1 DEF Locals
  <2>6. "idle" \in Labels /\ LocalsFit("idle", l)
    BY DEF Labels, LocalsFit, InTable, Setting, NoLocals, Called
  <2>. HIDE DEF l
  <2>. QED  BY <2>1, <2>5, <2>6, MovedType, UnchangedShared
<1>. QED  BY <1>1, <1>2

LEMMA TypeStep == TypeInv /\ [Next]_vars => TypeInv'
<1>. SUFFICES ASSUME TypeInv, [Next]_vars PROVE TypeInv'
  OBVIOUS
<1>1. CASE UNCHANGED vars
  BY <1>1 DEF vars, shared, TypeInv, TypeOK, LocalsFit
<1>2. ASSUME NEW t \in Thread, Step(t), History
      PROVE  TypeInv'
  BY <1>2, CallsType, AllocType, EnterType, ScanType, CompareType, FreeType,
     StoreType, GrowType, PublishType, ShiftType, ReleaseType, CopyType
     DEF Step
<1>. QED  BY <1>1, <1>2 DEF Next

LEMMA TypeInitially == Init => TypeInv
<1>. SUFFICES ASSUME Init PROVE TypeInv
  OBVIOUS
<1>1. "idle" \in Labels  BY DEF Labels
<1>2. \A t \in Thread : LocalsFit(pc[t], loc[t])
  BY IdleLocals DEF Init
<1>. QED  BY <1>1, <1>2, IdleLocals DEF Init, TypeInv, TypeOK
-----------------------------------------------------------------------------
(* What an array holds, as its cells, the entries and the variables change.*)

Heaps == [Addr -> Entry \cup {Free}]

(* An allocated entry has a name, and a value that is not null.            *)
LEMMA EntryParts ==
  ASSUME NEW h \in Heaps, NEW a \in Addr, h[a] # Free
  PROVE  /\ h[a] \in Entry
         /\ h[a].name \in Name
         /\ h[a].value \in Value
         /\ h[a].value # NULL
<1>1. h[a] \in Entry  BY DEF Heaps
<1>. QED  BY <1>1, Memory DEF Entry

(* The same cells, counted in another way or in another array.             *)
LEMMA ContentsMoved ==
  ASSUME NEW c, NEW d, NEW h, NEW J, NEW K, NEW e, NEW X,
         Contents(c, h, J, e, X),
         \A k \in K : \E j \in J : d[k] = c[j],
         \A j \in J : \E k \in K : d[k] = c[j],
         \A j, k \in K : d[j] = d[k] => j = k
  PROVE  Contents(d, h, K, e, X)
<1>1. \A k \in K : /\ d[k] \in Addr \ X
                   /\ h[d[k]] # Free
                   /\ h[d[k]].value = e[h[d[k]].name]
  BY DEF Contents
<1>2. ASSUME NEW j \in K, NEW k \in K, h[d[j]].name = h[d[k]].name
      PROVE  j = k
  <2>1. PICK p \in J : d[j] = c[p]  OBVIOUS
  <2>2. PICK q \in J : d[k] = c[q]  OBVIOUS
  <2>3. p = q  BY <1>2, <2>1, <2>2 DEF Contents
  <2>. QED  BY <2>1, <2>2, <2>3
<1>3. ASSUME NEW x \in Name, e[x] # NULL
      PROVE  \E k \in K : h[d[k]].name = x
  <2>1. PICK j \in J : h[c[j]].name = x  BY <1>3 DEF Contents
  <2>2. PICK k \in K : d[k] = c[j]  OBVIOUS
  <2>. QED  BY <2>1, <2>2
<1>4. ASSUME NEW a \in Addr
      PROVE  h[a] # Free <=> a \in X \/ \E k \in K : d[k] = a
  <2>1. (\E j \in J : c[j] = a) <=> \E k \in K : d[k] = a
    OBVIOUS
  <2>2. h[a] # Free <=> a \in X \/ \E j \in J : c[j] = a
    BY DEF Contents
  <2>. QED  BY <2>1, <2>2
<1>. QED  BY <1>1, <1>2, <1>3, <1>4 DEF Contents

(* The cells of an array differ.                                           *)
LEMMA CellsDiffer ==
  ASSUME NEW c, NEW h, NEW K, NEW e, NEW X, Contents(c, h, K, e, X),
         NEW j \in K, NEW k \in K, c[j] = c[k]
  PROVE  j = k
BY DEF Contents

LEMMA ContentsSame ==
  ASSUME NEW c, NEW d, NEW h, NEW K, NEW e, NEW X,
         Contents(c, h, K, e, X), \A k \in K : d[k] = c[k]
  PROVE  Contents(d, h, K, e, X)
<1>1. \A j, k \in K : d[j] = d[k] => j = k  BY CellsDiffer
<1>. QED  BY <1>1, ContentsMoved

(* malloc of an entry that is not in the array yet.                        *)
LEMMA ContentsAlloc ==
  ASSUME NEW c, NEW h \in Heaps, NEW K, NEW e, Contents(c, h, K, e, {}),
         NEW a \in Addr, h[a] = Free,
         NEW r \in Entry, NEW g, g = [h EXCEPT ![a] = r]
  PROVE  Contents(c, g, K, e, {a})
<1>1. g[a] # Free /\ \A b \in Addr : b # a => g[b] = h[b]
  BY Memory DEF Heaps
<1>2. \A k \in K : c[k] \in Addr /\ c[k] # a /\ g[c[k]] = h[c[k]]
  BY <1>1 DEF Contents
<1>. QED  BY <1>1, <1>2 DEF Contents

(* free of that entry.                                                     *)
LEMMA ContentsFreeNew ==
  ASSUME NEW c, NEW h \in Heaps, NEW K, NEW e, NEW a, Contents(c, h, K, e, {a}),
         NEW g, g = [h EXCEPT ![a] = Free]
  PROVE  Contents(c, g, K, e, {})
<1>1. (a \in Addr => g[a] = Free) /\ \A b \in Addr : b # a => g[b] = h[b]
  BY DEF Heaps
<1>2. \A k \in K : c[k] \in Addr /\ c[k] # a /\ g[c[k]] = h[c[k]]
  BY <1>1 DEF Contents
<1>. QED  BY <1>1, <1>2 DEF Contents

(* free of the entry in cell i, that is the only one of its variable.      *)
LEMMA ContentsRemove ==
  ASSUME NEW c, NEW h \in Heaps, NEW K, NEW e \in [Name -> Value \cup {NULL}],
         NEW X, Contents(c, h, K, e, X),
         NEW i \in K, NEW x \in Name, h[c[i]].name = x,
         NEW g, g = [h EXCEPT ![c[i]] = Free]
  PROVE  Contents(c, g, K \ {i}, [e EXCEPT ![x] = NULL], X)
<1>. DEFINE f == [e EXCEPT ![x] = NULL]
            J == K \ {i}
<1>0. c[i] \in Addr \ X  BY DEF Contents
<1>1. g[c[i]] = Free /\ \A b \in Addr : b # c[i] => g[b] = h[b]
  BY <1>0 DEF Heaps
<1>2. f[x] = NULL /\ \A y \in Name : y # x => f[y] = e[y]
  OBVIOUS
<1>3. ASSUME NEW k \in J
      PROVE  /\ c[k] \in Addr \ X /\ c[k] # c[i] /\ g[c[k]] = h[c[k]]
             /\ h[c[k]] # Free /\ h[c[k]].name \in Name \ {x}
  <2>1. c[k] \in Addr \ X /\ h[c[k]] # Free /\ h[c[k]].name # x
    BY DEF Contents
  <2>2. c[k] # c[i]  BY <2>1
  <2>3. h[c[k]].name \in Name  BY <2>1, EntryParts
  <2>. QED  BY <1>1, <2>1, <2>2, <2>3
<1>4. \A k \in J : /\ c[k] \in Addr \ X
                   /\ g[c[k]] # Free
                   /\ g[c[k]].value = f[g[c[k]].name]
  BY <1>2, <1>3 DEF Contents
<1>5. \A j, k \in J : g[c[j]].name = g[c[k]].name => j = k
  BY <1>3 DEF Contents
<1>6. ASSUME NEW y \in Name, f[y] # NULL
      PROVE  \E k \in J : g[c[k]].name = y
  <2>1. y # x /\ e[y] # NULL  BY <1>2, <1>6
  <2>2. PICK k \in K : h[c[k]].name = y  BY <2>1 DEF Contents
  <2>3. k \in J  BY <2>1, <2>2
  <2>. QED  BY <1>3, <2>2, <2>3
<1>7. ASSUME NEW a \in Addr
      PROVE  g[a] # Free <=> a \in X \/ \E k \in J : c[k] = a
  <2>1. CASE a = c[i]
    BY <1>0, <1>1, <1>3, <2>1
  <2>2. CASE a # c[i]
    <3>1. h[a] # Free <=> a \in X \/ \E k \in K : c[k] = a
      BY DEF Contents
    <3>2. (\E k \in K : c[k] = a) <=> \E k \in J : c[k] = a
      BY <2>2
    <3>. QED  BY <1>1, <2>2, <3>1, <3>2
  <2>. QED  BY <2>1, <2>2
<1>. HIDE DEF f, J
<1>8. Contents(c, g, J, f, X)
  BY <1>4, <1>5, <1>6, <1>7 DEF Contents
<1>. QED  BY <1>8 DEF f, J

(* The new entry comes into cell i, the only one of its variable.          *)
LEMMA ContentsPut ==
  ASSUME NEW c, NEW d, NEW h \in Heaps, NEW K,
         NEW e \in [Name -> Value \cup {NULL}], NEW a \in Addr,
         Contents(c, h, K, e, {a}),
         NEW x \in Name, NEW w \in Value, h[a] = [name |-> x, value |-> w],
         e[x] = NULL,
         NEW i, i \notin K, d[i] = a, \A k \in K : d[k] = c[k]
  PROVE  Contents(d, h, K \cup {i}, [e EXCEPT ![x] = w], {})
<1>. DEFINE f == [e EXCEPT ![x] = w]
            J == K \cup {i}
<1>0. h[a].name = x /\ h[a].value = w /\ h[a] # Free
  <2>1. [name |-> x, value |-> w] \in Entry  BY DEF Entry
  <2>. QED  BY <2>1, Memory
<1>1. f[x] = w /\ \A y \in Name : y # x => f[y] = e[y]
  OBVIOUS
<1>2. ASSUME NEW k \in K
      PROVE  /\ d[k] \in Addr /\ d[k] # a /\ h[d[k]] # Free
             /\ h[d[k]].name \in Name \ {x}
             /\ h[d[k]].value = f[h[d[k]].name]
  <2>1. /\ c[k] \in Addr \ {a} /\ h[c[k]] # Free
        /\ h[c[k]].value = e[h[c[k]].name]
    BY DEF Contents
  <2>2. h[c[k]].name \in Name /\ h[c[k]].value # NULL
    BY <2>1, EntryParts
  <2>3. h[c[k]].name # x  BY <2>1, <2>2
  <2>. QED  BY <1>1, <2>1, <2>2, <2>3
<1>4. \A k \in J : /\ d[k] \in Addr \ {}
                   /\ h[d[k]] # Free
                   /\ h[d[k]].value = f[h[d[k]].name]
  BY <1>0, <1>1, <1>2
<1>5. ASSUME NEW j \in J, NEW k \in J, h[d[j]].name = h[d[k]].name
      PROVE  j = k
  <2>1. CASE j \in K /\ k \in K
    BY <1>5, <2>1 DEF Contents
  <2>2. CASE j = i \/ k = i
    BY <1>0, <1>2, <1>5, <2>2
  <2>. QED  BY <2>1, <2>2
<1>6. ASSUME NEW y \in Name, f[y] # NULL
      PROVE  \E k \in J : h[d[k]].name = y
  <2>1. CASE y = x
    BY <1>0, <2>1
  <2>2. CASE y # x
    <3>1. PICK k \in K : h[c[k]].name = y
      BY <1>1, <1>6, <2>2 DEF Contents
    <3>. QED  BY <3>1
  <2>. QED  BY <2>1, <2>2
<1>7. ASSUME NEW b \in Addr
      PROVE  h[b] # Free <=> b \in {} \/ \E k \in J : d[k] = b
  <2>1. h[b] # Free <=> b \in {a} \/ \E k \in K : c[k] = b
    BY DEF Contents
  <2>2. (\E k \in J : d[k] = b) <=> b = a \/ \E k \in K : c[k] = b
    OBVIOUS
  <2>. QED  BY <2>1, <2>2
<1>. HIDE DEF f, J
<1>8. Contents(d, h, J, f, {})
  BY <1>4, <1>5, <1>6, <1>7 DEF Contents
<1>. QED  BY <1>8 DEF f, J

(* A variable whose name no entry has is not set.                          *)
LEMMA ContentsMissed ==
  ASSUME NEW c, NEW h, NEW K, NEW e, NEW X, Contents(c, h, K, e, X),
         NEW x \in Name, \A k \in K : h[c[k]].name # x
  PROVE  e[x] = NULL
BY DEF Contents

-----------------------------------------------------------------------------
(* What a step has to show of the table and of those who hold a value.     *)

Holds(label, l) == label \in {"release", "copy"} /\ l.op = "get" /\ l.ptr # NULL
Changes(label, l) == label \in InTable /\ l.op # "get"

(* What is known before a step, and what is to be shown after it.          *)
Sound == TypeInv /\ TableCore /\ ~ undefined /\ ~ OverlapNow
Kept == TableCore' /\ (HoldCore /\ ~ TakenNow => HoldCore')

LEMMA Typed ==
  ASSUME TypeInv
  PROVE  /\ heap \in Heaps
         /\ env \in [Name -> Value \cup {NULL}]
         /\ array \in [Array -> Seq(Pointer) \cup {Free}]
         /\ VML_env \in Array \cup {NULL}
         /\ pc \in [Thread -> Labels]
         /\ loc \in [Thread -> Locals]
BY DEF TypeInv, TypeOK, Heaps, Entry, Pointer

LEMMA OutsidePlace ==
  ASSUME NEW v, NEW arr, NEW h, NEW e, NEW label, NEW l, label \notin InTable
  PROVE  Place(v, arr, h, e, label, l)
BY DEF Place, InTable, Steady, Mid

LEMMA TableFrame ==
  ASSUME TypeInv, NEW t \in Thread,
         NEW label \in Labels, pc' = [pc EXCEPT ![t] = label],
         NEW l \in Locals, loc' = [loc EXCEPT ![t] = l],
         Place(VML_env', array', heap', env', label, l),
         \A u \in Thread \ {t} : Place(VML_env', array', heap', env', pc[u], loc[u]),
         ~ Changes(label, l) /\ (\A u \in Thread \ {t} : ~ Changing(u)) =>
           \E n \in Nat : Table(VML_env', array', heap', n, env', {})
  PROVE  TableCore'
<1>1. /\ pc'[t] = label /\ loc'[t] = l
      /\ \A u \in Thread \ {t} : pc'[u] = pc[u] /\ loc'[u] = loc[u]
  BY Typed
<1>2. /\ Changing(t)' <=> Changes(label, l)
      /\ \A u \in Thread \ {t} : Changing(u)' <=> Changing(u)
  BY <1>1 DEF Changing, Changes
<1>3. (\A u \in Thread : ~ Changing(u)') =>
         \E n \in Nat : Table(VML_env', array', heap', n, env', {})
  BY <1>2
<1>4. \A u \in Thread : Place(VML_env', array', heap', env', pc'[u], loc'[u])
  BY <1>1
<1>. QED  BY <1>3, <1>4 DEF TableCore

LEMMA HoldFrame ==
  ASSUME TypeInv, HoldCore, NEW t \in Thread, ~ undefined',
         NEW label \in Labels, pc' = [pc EXCEPT ![t] = label],
         NEW l \in Locals, loc' = [loc EXCEPT ![t] = l],
         \A u \in Thread \ {t} : Holding(u) =>
           Held(heap', env', loc[u]) /\ Unseen(label, l, loc[u].ptr),
         Holds(label, l) =>
           Held(heap', env', l) /\ \A u \in Thread \ {t} : Unseen(pc[u], loc[u], l.ptr)
  PROVE  HoldCore'
<1>1. /\ pc'[t] = label /\ loc'[t] = l
      /\ \A u \in Thread \ {t} : pc'[u] = pc[u] /\ loc'[u] = loc[u]
  BY Typed
<1>4. Holding(t)' <=> Holds(label, l)
  BY <1>1 DEF Holding, Holds
<1>5. \A u \in Thread \ {t} : Holding(u)' <=> Holding(u)
  BY <1>1 DEF Holding
<1>6. \A u \in Thread : Holding(u)' => Held(heap', env', loc'[u])
  BY <1>1, <1>4, <1>5
<1>7. ASSUME NEW u \in Thread, NEW w \in Thread, Holding(u)'
      PROVE  Unseen(pc'[w], loc'[w], loc'[u].ptr)
  <2>1. CASE u = t /\ w = t
    BY <1>1, <1>4, <1>7, <2>1 DEF Holds, Unseen, Steady
  <2>2. CASE u = t /\ w # t
    BY <1>1, <1>4, <1>7, <2>2
  <2>3. CASE u # t /\ w = t
    BY <1>1, <1>5, <1>7, <2>3
  <2>4. CASE u # t /\ w # t
    BY <1>1, <1>5, <1>7, <2>4 DEF HoldCore
  <2>. QED  BY <2>1, <2>2, <2>3, <2>4
<1>. QED  BY <1>6, <1>7 DEF HoldCore

LEMMA Alone ==
  ASSUME ~ OverlapNow, NEW t \in Thread, Changing(t), NEW u \in Thread \ {t}
  PROVE  pc[u] \notin InTable
BY DEF OverlapNow, Changing

(* The places where a thread changes the table are in calls that change it.*)
LEMMA OpensChanging ==
  ASSUME TypeInv, NEW t \in Thread,
         pc[t] \in Mid \cup {"replace", "remove", "grow"}
  PROVE  Changing(t)
BY DEF TypeInv, LocalsFit, Mid, Steady, InTable, Setting, Changing

(* Others are out of the table, before and after a step that changes it.   *)
LEMMA OthersOut ==
  ASSUME Sound, NEW t \in Thread, Changing(t)
  PROVE  \A u \in Thread \ {t} :
           /\ pc[u] \notin InTable
           /\ \A v, arr, h, e : Place(v, arr, h, e, pc[u], loc[u])
BY Alone, OutsidePlace DEF Sound

(* A thread that comes into the table finds it closed.                     *)
LEMMA EntersClosed ==
  ASSUME Sound, ~ OverlapNow', NEW t \in Thread, pc[t] \notin InTable,
         pc'[t] \in InTable,
         \A u \in Thread \ {t} : pc'[u] = pc[u] /\ loc'[u] = loc[u]
  PROVE  \E n \in Nat : Table(VML_env, array, heap, n, env, {})
<1>1. ASSUME NEW u \in Thread, Changing(u)
      PROVE  FALSE
  <2>1. u # t  BY <1>1 DEF Changing
  <2>2. Changing(u)'  BY <1>1, <2>1 DEF Changing
  <2>. QED  BY <2>1, <2>2 DEF OverlapNow
<1>. QED  BY <1>1 DEF Sound, TableCore

LEMMA CellsBelow ==
  ASSUME TypeInv, NEW b \in Array, array[b] # Free,
         NEW m \in DOMAIN array[b], NEW k \in 1 .. m
  PROVE  k \in DOMAIN array[b]
<1>1. array[b] \in Seq(Pointer)  BY Typed
<1>. QED  BY <1>1, LenProperties

LEMMA WriteCells ==
  ASSUME TypeInv, NEW k, Writable(k), NEW p \in Pointer, Write(k, p)
  PROVE  /\ VML_env \in Array
         /\ array'[VML_env] # Free
         /\ DOMAIN array'[VML_env] = DOMAIN array[VML_env]
         /\ array'[VML_env][k] = p
         /\ \A j : j # k => array'[VML_env][j] = array[VML_env][j]
         /\ \A b \in Array : b # VML_env => array'[b] = array[b]
<1>. DEFINE c == array[VML_env]
<1>1. VML_env \in Array /\ c \in Seq(Pointer) /\ k \in DOMAIN c
  BY Memory, Typed DEF Writable
<1>2. [c EXCEPT ![k] = p] \in Seq(Pointer)
  BY <1>1, ExceptSeq, LenProperties
<1>3. /\ array'[VML_env] = [c EXCEPT ![k] = p]
      /\ \A b \in Array : b # VML_env => array'[b] = array[b]
  BY <1>1, Typed DEF Write
<1>. QED  BY <1>1, <1>2, <1>3, Memory

-----------------------------------------------------------------------------
(* The table and the values held: each action.                             *)

(* A step that leaves the memory alone.                                    *)
LEMMA QuietStep ==
  ASSUME Sound, NEW t \in Thread, UNCHANGED <<shared, undefined, env>>,
         NEW label \in Labels, pc' = [pc EXCEPT ![t] = label],
         NEW l \in Locals, loc' = [loc EXCEPT ![t] = l],
         Place(VML_env, array, heap, env, label, l),
         Changing(t) /\ ~ Changes(label, l) =>
           \E n \in Nat : Table(VML_env, array, heap, n, env, {}),
         HoldCore => \A u \in Thread \ {t} : Holding(u) => Unseen(label, l, loc[u].ptr),
         HoldCore /\ Holds(label, l) =>
           Held(heap, env, l) /\ \A u \in Thread \ {t} : Unseen(pc[u], loc[u], l.ptr)
  PROVE  Kept
<1>1. /\ VML_env' = VML_env /\ array' = array /\ heap' = heap /\ env' = env
      /\ ~ undefined'
  BY DEF shared, Sound
<1>2. ~ Changes(label, l) /\ (\A u \in Thread \ {t} : ~ Changing(u)) =>
        \E n \in Nat : Table(VML_env', array', heap', n, env', {})
  BY <1>1 DEF Sound, TableCore
<1>3. \A u \in Thread \ {t} : Place(VML_env', array', heap', env', pc[u], loc[u])
  BY <1>1 DEF Sound, TableCore
<1>4. Place(VML_env', array', heap', env', label, l)  BY <1>1
<1>5. TableCore'
  BY <1>2, <1>3, <1>4, TableFrame DEF Sound
<1>6. ASSUME HoldCore PROVE HoldCore'
  <2>1. \A u \in Thread \ {t} : Holding(u) => Held(heap', env', loc[u])
    BY <1>1, <1>6 DEF HoldCore
  <2>2. Holds(label, l) =>
          /\ Held(heap', env', l)
          /\ \A u \in Thread \ {t} : Unseen(pc[u], loc[u], l.ptr)
    BY <1>1, <1>6
  <2>3. \A u \in Thread \ {t} : Holding(u) => Unseen(label, l, loc[u].ptr)
    BY <1>6
  <2>. QED  BY <1>1, <1>6, <2>1, <2>2, <2>3, HoldFrame DEF Sound
<1>. QED  BY <1>5, <1>6 DEF Kept

LEMMA CallsSafe ==
  ASSUME Sound, ~ OverlapNow', NEW t \in Thread,
         \/ \E name \in Name : GetEnvironmentVariable(t, name)
         \/ \E name \in Name, value \in Value \cup {NULL} :
              InternalSetEnvironmentVariable(t, name, value)
  PROVE  Kept
<1>0. /\ pc \in [Thread -> Labels] /\ loc \in [Thread -> Locals]
      /\ UNCHANGED <<shared, undefined, env>>
      /\ pc[t] = "idle"
  BY Typed DEF Sound, GetEnvironmentVariable, InternalSetEnvironmentVariable, At
<1>1. pc[t] \notin InTable /\ ~ Changing(t)
  BY <1>0 DEF InTable, Changing
<1>2. ASSUME NEW op \in {"get", "unset"}, NEW name \in Name,
             loc' = [loc EXCEPT ![t] = Called(op, name, NULL, 1)],
             pc' = [pc EXCEPT ![t] = "enter"]
      PROVE  Kept
  <2>. DEFINE l == Called(op, name, NULL, 1)
  <2>1. l \in Locals  BY CalledType DEF Ops
  <2>2. "enter" \in Labels /\ pc'[t] \in InTable
    BY <1>0, <1>2 DEF Labels, InTable
  <2>3. \E n \in Nat : Table(VML_env, array, heap, n, env, {})
    BY <1>0, <1>1, <1>2, <2>2, EntersClosed
  <2>4. l.op # "set"  BY DEF Called
  <2>. HIDE DEF l
  <2>5. Place(VML_env, array, heap, env, "enter", l)
    BY <2>3, <2>4 DEF Place, Own, Mid, Steady
  <2>6. ~ Holds("enter", l) /\ \A p : Unseen("enter", l, p)
    BY <2>4 DEF Holds, Unseen
  <2>7. loc' = [loc EXCEPT ![t] = l]  BY <1>2 DEF l
  <2>. QED
    BY <1>0, <1>1, <1>2, <2>1, <2>2, <2>5, <2>6, <2>7, QuietStep
<1>3. ASSUME NEW name \in Name, NEW value \in Value,
             loc' = [loc EXCEPT ![t] = Called("set", name, value, 2)],
             pc' = [pc EXCEPT ![t] = "alloc"]
      PROVE  Kept
  <2>. DEFINE l == Called("set", name, value, 2)
  <2>1. l \in Locals  BY CalledType DEF Ops
  <2>2. "alloc" \in Labels /\ "alloc" \notin InTable
    BY DEF Labels, InTable
  <2>3. ~ Holds("alloc", l) /\ \A p : Unseen("alloc", l, p)
    BY DEF Holds, Unseen, Steady
  <2>4. Place(VML_env, array, heap, env, "alloc", l)
    BY <2>2, OutsidePlace
  <2>. HIDE DEF l
  <2>5. loc' = [loc EXCEPT ![t] = l]  BY <1>3 DEF l
  <2>. QED
    BY <1>0, <1>1, <1>3, <2>1, <2>2, <2>3, <2>4, <2>5, QuietStep
<1>. QED
  BY <1>2, <1>3
     DEF GetEnvironmentVariable, InternalSetEnvironmentVariable, Goto

LEMMA AllocSafe ==
  ASSUME Sound, ~ OverlapNow', NEW t \in Thread, Alloc(t)
  PROVE  Kept
<1>0. /\ pc \in [Thread -> Labels] /\ loc \in [Thread -> Locals]
      /\ heap \in Heaps
      /\ pc[t] = "alloc"
      /\ loc[t] \in Locals
      /\ loc[t].op = "set"
      /\ loc[t].name \in Name /\ loc[t].value \in Value
      /\ UNCHANGED <<VML_env, array, undefined, env>>
      /\ TypeInv
  BY Typed DEF Sound, TypeInv, Alloc, At, LocalsFit, Setting
<1>1. pc[t] \notin InTable /\ ~ Changing(t)
  BY <1>0 DEF InTable, Changing
<1>2. ASSUME NEW a \in Addr, heap[a] = Free,
             heap' = [heap EXCEPT ![a] = [name |-> loc[t].name,
                                          value |-> loc[t].value]],
             loc' = [loc EXCEPT ![t].new = a], Goto(t, "enter")
      PROVE  Kept
  <2>. DEFINE r == [name |-> loc[t].name, value |-> loc[t].value]
              l == [loc[t] EXCEPT !.new = a]
  <2>1. /\ l \in Locals /\ loc' = [loc EXCEPT ![t] = l]
        /\ l.op = "set" /\ l.new = a
        /\ l.name = loc[t].name /\ l.value = loc[t].value
    <3>1. l \in Locals /\ loc' = [loc EXCEPT ![t] = l]
      BY <1>0, <1>2, SetType
    <3>. QED  BY <1>0, <3>1, SetFields
  <2>. HIDE DEF l
  <2>2. /\ "enter" \in Labels /\ pc' = [pc EXCEPT ![t] = "enter"]
        /\ pc'[t] \in InTable /\ loc'[t] = l
        /\ \A u \in Thread \ {t} : pc'[u] = pc[u] /\ loc'[u] = loc[u]
    BY <1>0, <1>2, <2>1 DEF Labels, InTable, Goto
  <2>3. PICK n \in Nat : Table(VML_env, array, heap, n, env, {})
    BY <1>1, <2>2, EntersClosed
  <2>4. \A u \in Thread \ {t} : pc[u] \notin InTable
    <3>1. Changing(t)'
      BY <2>1, <2>2 DEF Changing
    <3>. QED  BY <2>2, <3>1 DEF OverlapNow
  <2>5. r \in Entry /\ heap' = [heap EXCEPT ![a] = r]
    BY <1>0, <1>2 DEF Entry
  <2>6. heap'[a] = r /\ \A b \in Addr : b # a => heap'[b] = heap[b]
    BY <1>0, <2>5 DEF Heaps
  <2>7. Fresh(heap', l)
    BY <2>1, <2>6 DEF Fresh
  <2>8. Table(VML_env, array, heap', n, env, {a})
    <3>1. Contents(array[VML_env], heap', 1 .. n, env, {a})
      <4>. HIDE DEF r
      <4>. QED  BY <1>0, <1>2, <2>3, <2>5, ContentsAlloc DEF Table
    <3>. QED  BY <2>3, <3>1 DEF Table
  <2>9. Place(VML_env', array', heap', env', "enter", l)
    BY <1>0, <2>1, <2>7, <2>8 DEF Place, Own, Mid, Steady
  <2>10. \A u \in Thread \ {t} : Place(VML_env', array', heap', env', pc[u], loc[u])
    BY <2>4, OutsidePlace
  <2>11. ~ Holds("enter", l) /\ Changes("enter", l)
    BY <2>1 DEF Holds, Changes, InTable
  <2>12. TableCore'
    BY <1>0, <2>1, <2>2, <2>9, <2>10, <2>11, TableFrame
  <2>13. ASSUME HoldCore PROVE HoldCore'
    <3>1. \A u \in Thread \ {t} : Holding(u) =>
           Held(heap', env', loc[u]) /\ Unseen("enter", l, loc[u].ptr)
      BY <1>0, <1>2, <2>1, <2>6, <2>13 DEF HoldCore, Held, Unseen
    <3>2. ~ undefined'  BY <1>0 DEF Sound
    <3>. QED  BY <1>0, <2>1, <2>2, <2>11, <2>13, <3>1, <3>2, HoldFrame
  <2>. QED  BY <2>12, <2>13 DEF Kept
<1>3. ASSUME Goto(t, "release"), UNCHANGED <<heap, loc>>
      PROVE  Kept
  <2>1. loc' = [loc EXCEPT ![t] = loc[t]] /\ UNCHANGED <<shared, undefined, env>>
    BY <1>0, <1>3 DEF shared
  <2>2. "release" \in Labels /\ "release" \notin InTable
    BY DEF Labels, InTable
  <2>3. ~ Holds("release", loc[t]) /\ \A p : Unseen("release", loc[t], p)
    BY <1>0 DEF Holds, Unseen, Steady
  <2>4. Place(VML_env, array, heap, env, "release", loc[t])
    BY <2>2, OutsidePlace
  <2>. QED
    BY <1>0, <1>1, <1>3, <2>1, <2>2, <2>3, <2>4, QuietStep DEF Goto
<1>. QED  BY <1>2, <1>3 DEF Alloc

(* Steps of the scan: the thread goes on in a closed table or leaves it    *)
(* with what it was to find.                                               *)
LEMMA ScanStep ==
  ASSUME Sound, NEW t \in Thread, pc[t] \in Steady,
         UNCHANGED <<shared, undefined, env>>,
         NEW label \in Labels, pc' = [pc EXCEPT ![t] = label],
         NEW l \in Locals, loc' = [loc EXCEPT ![t] = l],
         l.op = loc[t].op, l.new = loc[t].new,
         label \in Steady \cup {"release"},
         label \in Steady => Place(VML_env, array, heap, env, label, l),
         label = "release" => l.op # "set",
         Holds(label, l) => Held(heap, env, l)
  PROVE  Kept
<1>1. pc[t] \in InTable
  BY DEF Steady, InTable
<1>2. Place(VML_env, array, heap, env, label, l)
  BY OutsidePlace DEF Steady, InTable
<1>3. HoldCore => \A u \in Thread \ {t} : Holding(u) => Unseen(label, l, loc[u].ptr)
  BY DEF HoldCore, Unseen
<1>4. ASSUME Holds(label, l), NEW u \in Thread \ {t}
      PROVE  Unseen(pc[u], loc[u], l.ptr)
  <2>1. CASE pc[u] \in Steady /\ loc[u].op = "set"
    <3>1. Changing(u)  BY <2>1 DEF Changing, Steady, InTable
    <3>. QED  BY <1>1, <3>1 DEF Sound, OverlapNow
  <2>2. CASE ~ (pc[u] \in Steady /\ loc[u].op = "set")
    BY <2>2 DEF Unseen
  <2>. QED  BY <2>1, <2>2
<1>5. ASSUME Changing(t), ~ Changes(label, l)
      PROVE  \E n \in Nat : Table(VML_env, array, heap, n, env, {})
  <2>1. label = "release"
    BY <1>5 DEF Changing, Changes, Steady, InTable
  <2>2. Own(loc[t]) = {}  BY <2>1 DEF Own
  <2>3. Place(VML_env, array, heap, env, pc[t], loc[t])
    BY DEF Sound, TableCore
  <2>. QED  BY <2>2, <2>3 DEF Place
<1>. QED  BY <1>2, <1>3, <1>4, <1>5, QuietStep

(* A call whose scan found no entry has nothing to hold.                   *)
LEMMA MissedSafe ==
  ASSUME NEW v, NEW arr, NEW h, NEW e, NEW n \in Nat, NEW l, l.op \in Ops,
         Table(v, arr, h, n, e, Own(l)), l.i = n + 1, l.ptr = NULL,
         l.op = "set" => Fresh(h, l), e[l.name] = NULL
  PROVE  /\ Missed[l.op] \in Steady \cup {"release"}
         /\ Missed[l.op] \in Steady => Place(v, arr, h, e, Missed[l.op], l)
         /\ Missed[l.op] = "release" => l.op # "set"
         /\ ~ Holds(Missed[l.op], l)
<1>1. CASE l.op = "set"
  <2>1. Missed[l.op] = "grow"  BY <1>1 DEF Missed
  <2>. QED  BY <1>1, <2>1 DEF Place, Holds, Steady, Mid
<1>2. CASE l.op # "set"
  <2>1. Missed[l.op] = "release"  BY <1>2 DEF Missed, Ops
  <2>. QED  BY <1>2, <2>1 DEF Holds, Steady
<1>. QED  BY <1>1, <1>2

(* A call that finds the table empty, or its end, looked for a variable    *)
(* that is not set.                                                        *)
LEMMA EnterUnset ==
  ASSUME Sound, NEW t \in Thread, pc[t] = "enter", VML_env = NULL
  PROVE  env[loc[t].name] = NULL
<1>0. loc[t].name \in Name
  BY DEF Sound, TypeInv, LocalsFit, InTable
<1>1. PICK n \in Nat : Table(VML_env, array, heap, n, env, Own(loc[t]))
  BY DEF Sound, TableCore, Place, Steady
<1>2. n = 0  BY <1>1, Memory DEF Table
<1>3. 1 .. n = {}  BY <1>2
<1>4. Contents(array[VML_env], heap, 1 .. n, env, Own(loc[t]))
  BY <1>1 DEF Table
<1>. QED  BY <1>0, <1>3, <1>4, ContentsMissed

LEMMA ScanUnset ==
  ASSUME Sound, NEW t \in Thread, pc[t] = "scan", Cell(loc[t].i) = NULL
  PROVE  env[loc[t].name] = NULL
<1>. DEFINE c == array[VML_env]
            i == loc[t].i
<1>0. loc[t].name \in Name
  BY DEF Sound, TypeInv, LocalsFit, InTable
<1>1. PICK n \in Nat :
        /\ Table(VML_env, array, heap, n, env, Own(loc[t]))
        /\ i \in 1 .. n + 1 /\ Before(c, heap, loc[t], i)
  BY DEF Sound, TableCore, Place, Steady
<1>2. Contents(c, heap, 1 .. n, env, Own(loc[t]))
  BY <1>1 DEF Table
<1>3. i = n + 1
  <2>1. \A k \in 1 .. n : c[k] \in Addr  BY <1>2 DEF Contents
  <2>2. c[i] = NULL  BY DEF Cell
  <2>. QED  BY <1>1, <2>1, <2>2, Memory
<1>4. \A k \in 1 .. n : heap[c[k]].name # loc[t].name
  BY <1>1, <1>3 DEF Before
<1>. HIDE DEF c
<1>. QED  BY <1>0, <1>2, <1>4, ContentsMissed

LEMMA EnterSafe ==
  ASSUME Sound, NEW t \in Thread, Enter(t)
  PROVE  Kept
<1>. DEFINE label == IF VML_env = NULL THEN Missed[loc[t].op] ELSE "scan"
            l == loc[t]
<1>0. /\ l \in Locals /\ l.op \in Ops /\ l.name \in Name /\ l.i = 1 /\ l.ptr = NULL
      /\ LocalsFit("scan", l)
      /\ pc[t] = "enter"
      /\ loc' = [loc EXCEPT ![t] = l]
      /\ pc' = [pc EXCEPT ![t] = label]
      /\ UNCHANGED <<shared, undefined, env>>
      /\ VML_env \in Array \cup {NULL}
  BY DEF Sound, TypeInv, TypeOK, Enter, At, LocalsFit, InTable, Setting, Goto
<1>1. PICK n \in Nat :
        /\ Table(VML_env, array, heap, n, env, Own(l))
        /\ l.op = "set" => Fresh(heap, l)
  BY <1>0 DEF Sound, TableCore, Place, Steady
<1>. HIDE DEF l
<1>2. /\ label \in Labels
      /\ label \in Steady \cup {"release"}
      /\ label \in Steady => Place(VML_env, array, heap, env, label, l)
      /\ label = "release" => l.op # "set"
      /\ ~ Holds(label, l)
  <2>1. CASE VML_env = NULL
    <3>1. n = 0  BY <2>1, <1>1, Memory DEF Table
    <3>2. label = Missed[l.op]  BY <2>1 DEF l
    <3>4. env[l.name] = NULL
      BY <1>0, <2>1, EnterUnset DEF l
    <3>. HIDE DEF label
    <3>. QED  BY <1>0, <1>1, <3>1, <3>2, <3>4, MissedSafe, ScanEnds
  <2>2. CASE VML_env # NULL
    <3>1. l.i \in 1 .. n + 1  BY <1>0
    <3>2. Before(array[VML_env], heap, l, l.i)
      <4>1. 1 .. l.i - 1 = {}  BY <1>0
      <4>. QED  BY <4>1 DEF Before
    <3>3. Place(VML_env, array, heap, env, "scan", l)
      BY <1>1, <2>2, <3>1, <3>2 DEF Place, Mid, Steady
    <3>. QED  BY <2>2, <3>3 DEF Labels, InTable, Steady, Holds
  <2>. QED  BY <2>1, <2>2
<1>3. pc[t] \in Steady  BY <1>0 DEF Steady
<1>4. l.op = loc[t].op /\ l.new = loc[t].new  BY DEF l
<1>. HIDE DEF label
<1>. QED  BY <1>0, <1>2, <1>3, <1>4, ScanStep

LEMMA ScanSafe ==
  ASSUME Sound, NEW t \in Thread, Scan(t)
  PROVE  Kept
<1>. DEFINE c == array[VML_env]
            i == loc[t].i
            l == [loc[t] EXCEPT !.ptr = c[i]]
            label == IF c[i] = NULL THEN Missed[loc[t].op] ELSE "compare"
<1>0. /\ loc[t] \in Locals /\ loc[t].op \in Ops /\ loc[t].name \in Name
      /\ LocalsFit("scan", loc[t])
      /\ pc[t] = "scan" /\ pc[t] \in Steady
      /\ TypeInv
  BY DEF Sound, TypeInv, TypeOK, Scan, At, LocalsFit, InTable, Steady
<1>1. PICK n \in Nat :
        /\ Table(VML_env, array, heap, n, env, Own(loc[t]))
        /\ loc[t].op = "set" => Fresh(heap, loc[t])
        /\ VML_env # NULL /\ i \in 1 .. n + 1 /\ Before(c, heap, loc[t], i)
  BY <1>0 DEF Sound, TableCore, Place, Steady
<1>2. /\ VML_env \in Array /\ c # Free /\ n + 1 \in DOMAIN c /\ c[n + 1] = NULL
      /\ \A k \in 1 .. n : c[k] \in Addr
  BY <1>1 DEF Table, Closed, Contents
<1>3. Readable(i)
  <2>1. i \in DOMAIN c  BY <1>0, <1>1, <1>2, CellsBelow
  <2>2. c[i] # Junk  BY <1>1, <1>2, Memory
  <2>. QED  BY <1>1, <1>2, <2>1, <2>2 DEF Readable, Writable
<1>4. c[i] \in Addr \cup {NULL}  BY <1>0, <1>3, CellType DEF Cell, TypeInv
<1>5. /\ l \in Locals /\ l.op = loc[t].op /\ l.new = loc[t].new
      /\ l.name = loc[t].name /\ l.value = loc[t].value
      /\ l.i = i /\ l.ptr = c[i]
  <2>. HIDE DEF c, i
  <2>1. l \in Locals  BY <1>0, <1>4, SetType
  <2>2. i = loc[t].i  BY DEF i
  <2>. QED  BY <1>0, <2>1, <2>2, SetFields
<1>6. /\ loc' = [loc EXCEPT ![t] = l]
      /\ pc' = [pc EXCEPT ![t] = label]
      /\ UNCHANGED <<shared, undefined, env>>
  BY <1>3 DEF Scan, Cell, Goto
<1>. HIDE DEF l
<1>7. /\ l.op = "set" => Fresh(heap, l)
      /\ Own(l) = Own(loc[t])
      /\ Before(c, heap, l, i)
      /\ LocalsFit("scan", l)
  BY <1>0, <1>1, <1>5 DEF Fresh, Own, Before, LocalsFit, InTable, Setting
<1>8. /\ label \in Labels
      /\ label \in Steady \cup {"release"}
      /\ label \in Steady => Place(VML_env, array, heap, env, label, l)
      /\ label = "release" => l.op # "set"
      /\ ~ Holds(label, l)
  <2>1. CASE c[i] = NULL
    <3>1. i = n + 1  BY <1>1, <1>2, <2>1, Memory
    <3>2. label = Missed[l.op]  BY <2>1, <1>5
    <3>3. env[l.name] = NULL
      BY <1>0, <1>5, <2>1, ScanUnset DEF Cell
    <3>. HIDE DEF label, i, c
    <3>. QED
      BY <1>0, <1>1, <1>5, <1>7, <2>1, <3>1, <3>2, <3>3, MissedSafe, ScanEnds
  <2>2. CASE c[i] # NULL
    <3>1. i \in 1 .. n  BY <1>1, <1>2, <2>2
    <3>2. Place(VML_env, array, heap, env, "compare", l)
      BY <1>1, <1>5, <1>7, <2>2, <3>1 DEF Place, Mid, Steady
    <3>. QED  BY <2>2, <3>2 DEF Labels, InTable, Steady, Holds
  <2>. QED  BY <2>1, <2>2
<1>. HIDE DEF label
<1>. QED  BY <1>0, <1>5, <1>6, <1>8, ScanStep

LEMMA CompareSafe ==
  ASSUME Sound, NEW t \in Thread, Compare(t)
  PROVE  Kept
<1>. DEFINE c == array[VML_env]
            i == loc[t].i
<1>0. /\ loc[t] \in Locals /\ loc[t].op \in Ops /\ loc[t].name \in Name
      /\ LocalsFit("scan", loc[t])
      /\ pc[t] = "compare" /\ pc[t] \in Steady
      /\ TypeInv
  BY DEF Sound, TypeInv, TypeOK, Compare, At, LocalsFit, InTable, Steady, Setting
<1>1. PICK n \in Nat :
        /\ Table(VML_env, array, heap, n, env, Own(loc[t]))
        /\ loc[t].op = "set" => Fresh(heap, loc[t])
        /\ VML_env # NULL /\ i \in 1 .. n /\ loc[t].ptr = c[i]
        /\ Before(c, heap, loc[t], i)
  BY <1>0 DEF Sound, TableCore, Place, Steady
<1>2. /\ c[i] \in Addr /\ heap[c[i]] # Free
      /\ heap[c[i]].value = env[heap[c[i]].name]
  BY <1>1 DEF Table, Contents
<1>3. CASE heap[loc[t].ptr].name = loc[t].name
  <2>. DEFINE label == Found[loc[t].op]
  <2>1. /\ loc' = [loc EXCEPT ![t] = loc[t]]
        /\ pc' = [pc EXCEPT ![t] = label]
        /\ UNCHANGED <<shared, undefined, env>>
    BY <1>1, <1>2, <1>3, Typed DEF Compare, Goto, Sound
  <2>2. label \in Labels  BY <1>0, ScanEnds
  <2>3. /\ label \in {"release", "replace", "remove"}
        /\ label = "release" => loc[t].op # "set"
    BY <1>0 DEF Found, Ops
  <2>4. label \in Steady => Place(VML_env, array, heap, env, label, loc[t])
    BY <1>1, <1>3, <2>3 DEF Place, Steady, Mid
  <2>5. Held(heap, env, loc[t])
    BY <1>1, <1>2, <1>3 DEF Held
  <2>. HIDE DEF label
  <2>. QED  BY <1>0, <2>1, <2>2, <2>3, <2>4, <2>5, ScanStep DEF Steady
<1>4. CASE heap[loc[t].ptr].name # loc[t].name
  <2>. DEFINE l == [loc[t] EXCEPT !.i = i + 1]
  <2>1. /\ l \in Locals /\ loc' = [loc EXCEPT ![t] = l]
        /\ pc' = [pc EXCEPT ![t] = "scan"]
        /\ UNCHANGED <<shared, undefined, env>>
    <3>1. /\ loc' = [loc EXCEPT ![t] = l]
          /\ pc' = [pc EXCEPT ![t] = "scan"]
          /\ UNCHANGED <<shared, undefined, env>>
      BY <1>1, <1>2, <1>4 DEF Compare, Goto
    <3>2. i + 1 \in Nat  BY <1>1
    <3>3. l \in Locals  BY <1>0, <3>2, SetType
    <3>. QED  BY <3>1, <3>3
  <2>2. /\ l.op = loc[t].op /\ l.new = loc[t].new /\ l.i = i + 1
        /\ l.name = loc[t].name /\ l.value = loc[t].value
    BY <1>0, <2>1, SetFields
  <2>. HIDE DEF l
  <2>3. (l.op = "set" => Fresh(heap, l)) /\ Own(l) = Own(loc[t])
    BY <1>1, <2>2 DEF Fresh, Own
  <2>4. l.i \in 1 .. n + 1  BY <1>1, <2>2
  <2>5. Before(c, heap, l, l.i)
    <3>1. ASSUME NEW j \in 1 .. l.i - 1 PROVE heap[c[j]].name # l.name
      <4>1. CASE j = i
        BY <1>1, <1>4, <2>2, <4>1
      <4>2. CASE j # i
        <5>1. j \in 1 .. i - 1  BY <1>1, <2>2, <4>2
        <5>. QED  BY <1>1, <2>2, <5>1 DEF Before
      <4>. QED  BY <4>1, <4>2
    <3>. QED  BY <3>1 DEF Before
  <2>6. Place(VML_env, array, heap, env, "scan", l)
    BY <1>1, <2>3, <2>4, <2>5 DEF Place, Mid, Steady
  <2>7. "scan" \in Labels /\ ~ Holds("scan", l) /\ "scan" \in Steady
    BY DEF Labels, InTable, Holds, Steady
  <2>. QED  BY <1>0, <2>1, <2>2, <2>6, <2>7, ScanStep
<1>. QED  BY <1>3, <1>4

(* A step of the one call that is in the table.                            *)
LEMMA ChangeStep ==
  ASSUME Sound, NEW t \in Thread, Changing(t), UNCHANGED undefined,
         NEW label \in Labels, pc' = [pc EXCEPT ![t] = label],
         NEW l \in Locals, loc' = [loc EXCEPT ![t] = l],
         label \notin Steady, ~ Holds(label, l),
         Place(VML_env', array', heap', env', label, l),
         ~ Changes(label, l) =>
           \E n \in Nat : Table(VML_env', array', heap', n, env', {}),
         HoldCore /\ ~ TakenNow =>
           \A u \in Thread \ {t} : Holding(u) => Held(heap', env', loc[u])
  PROVE  Kept
<1>1. \A u \in Thread \ {t} : Place(VML_env', array', heap', env', pc[u], loc[u])
  BY OthersOut
<1>2. \A p : Unseen(label, l, p)  BY DEF Unseen
<1>3. ~ undefined'  BY DEF Sound
<1>4. TableCore'  BY <1>1, TableFrame DEF Sound
<1>5. HoldCore /\ ~ TakenNow => HoldCore'
  BY <1>2, <1>3, HoldFrame DEF Sound
<1>. QED  BY <1>4, <1>5 DEF Kept

(* free of the entry in cell i, that was compared and has the name of the   *)
(* call: it makes no difference whether the cell is loaded again.           *)
LEMMA FreeCellSafe ==
  ASSUME Sound, NEW t \in Thread, Changing(t), NEW next, FreeCell(t, next),
         NEW n \in Nat, loc[t].i \in 1 .. n, VML_env # NULL,
         NEW X, Table(VML_env, array, heap, n, env, X),
         heap[array[VML_env][loc[t].i]].name = loc[t].name,
         loc[t].ptr = array[VML_env][loc[t].i]
  PROVE  LET a == array[VML_env][loc[t].i] IN
         /\ a \in Addr \ X
         /\ VML_env \in Array /\ Closed(array[VML_env], n)
         /\ Sole(array, VML_env)
         /\ UNCHANGED <<VML_env, array, loc, undefined, env>>
         /\ Goto(t, next)
         /\ \A b \in Addr : b # a => heap'[b] = heap[b]
         /\ Contents(array[VML_env], heap', (1 .. n) \ {loc[t].i},
                     Without(env, loc[t]), X)
         /\ HoldCore /\ ~ TakenNow =>
              \A u \in Thread \ {t} : Holding(u) => Held(heap', env', loc[u])
<1>. DEFINE c == array[VML_env]
            i == loc[t].i
            a == c[i]
<1>0. heap \in Heaps /\ env \in [Name -> Value \cup {NULL}] /\ TypeInv
  BY Typed DEF Sound
<1>1. /\ VML_env \in Array /\ Closed(c, n) /\ Contents(c, heap, 1 .. n, env, X)
      /\ Sole(array, VML_env)
  BY DEF Table
<1>2. a \in Addr \ X /\ heap[a] # Free /\ a # NULL /\ a # Junk
  BY <1>1, Memory DEF Contents
<1>3. Readable(i)
  <2>1. i \in DOMAIN c
    BY <1>0, <1>1, CellsBelow DEF Closed
  <2>. QED  BY <1>1, <1>2, <2>1 DEF Closed, Readable, Writable
<1>4. /\ heap' = [heap EXCEPT ![a] = Free]
      /\ Goto(t, next)
      /\ UNCHANGED <<VML_env, array, loc, undefined, env>>
  <2>1. loc[t].ptr = a /\ Cell(i) = a  BY DEF Cell
  <2>2. Readable(loc[t].i) /\ Cell(loc[t].i) = a  BY <1>3, <2>1
  <2>. HIDE DEF a, i, c
  <2>. QED  BY <1>2, <2>1, <2>2 DEF FreeCell
<1>5. \A b \in Addr : b # a => heap'[b] = heap[b]
  BY <1>0, <1>4 DEF Heaps
<1>6. Contents(c, heap', (1 .. n) \ {i}, Without(env, loc[t]), X)
  <2>1. loc[t].name \in Name
    BY <1>0, <1>2, EntryParts
  <2>. HIDE DEF c, i
  <2>2. i \in 1 .. n /\ heap[c[i]].name = loc[t].name
    BY DEF i, c
  <2>3. heap' = [heap EXCEPT ![c[i]] = Free]  BY <1>4
  <2>. QED
    BY <1>0, <1>1, <2>1, <2>2, <2>3, ContentsRemove DEF Without
<1>7. ASSUME HoldCore, ~ TakenNow, NEW u \in Thread \ {t}, Holding(u)
      PROVE  Held(heap', env', loc[u])
  <2>1. Held(heap, env, loc[u])  BY <1>7 DEF HoldCore
  <2>2. loc[u].name # loc[t].name  BY <1>7 DEF TakenNow
  <2>3. loc[u].ptr # a  BY <2>1, <2>2 DEF Held
  <2>. QED  BY <1>4, <1>5, <2>1, <2>3 DEF Held
<1>. QED  BY <1>1, <1>2, <1>4, <1>5, <1>6, <1>7

LEMMA ReplaceSafe ==
  ASSUME Sound, NEW t \in Thread, Replace(t)
  PROVE  Kept
<1>. DEFINE c == array[VML_env]
            i == loc[t].i
            l == loc[t]
<1>0. /\ loc[t] \in Locals /\ loc[t].op = "set"
      /\ pc[t] = "replace"
  BY DEF Sound, TypeInv, TypeOK, Replace, At, LocalsFit, Setting
<1>1. Changing(t)  BY <1>0, OpensChanging DEF Sound
<1>2. PICK n \in Nat :
        /\ Table(VML_env, array, heap, n, env, {l.new})
        /\ Fresh(heap, l)
        /\ VML_env # NULL /\ i \in 1 .. n /\ heap[c[i]].name = loc[t].name
        /\ loc[t].ptr = c[i]
  BY <1>0 DEF Sound, TableCore, Place, Steady, Own
<1>3. FreeCell(t, "store")
  <2>1. c[i] \in Addr  BY <1>2 DEF Table, Contents
  <2>2. Cell(i) # NULL  BY <2>1, Memory DEF Cell
  <2>. QED  BY <2>2 DEF Replace
<1>4. /\ c[i] \in Addr \ {l.new}
      /\ VML_env \in Array /\ Closed(c, n) /\ Sole(array, VML_env)
      /\ UNCHANGED <<VML_env, array, loc, undefined, env>>
      /\ pc' = [pc EXCEPT ![t] = "store"]
      /\ \A b \in Addr : b # c[i] => heap'[b] = heap[b]
      /\ Contents(c, heap', (1 .. n) \ {i}, Without(env, l), {l.new})
      /\ HoldCore /\ ~ TakenNow =>
           \A u \in Thread \ {t} : Holding(u) => Held(heap', env', loc[u])
  BY <1>1, <1>2, <1>3, FreeCellSafe DEF Goto
<1>5. loc' = [loc EXCEPT ![t] = l]  BY <1>4, Typed DEF Sound
<1>. HIDE DEF l
<1>6. Fresh(heap', l)
  BY <1>2, <1>4 DEF Fresh
<1>7. l \in Locals /\ l.i = i /\ l.op = "set"  BY <1>0 DEF l
<1>8. Place(VML_env', array', heap', env', "store", l)
  BY <1>2, <1>4, <1>6, <1>7 DEF Place, Steady, Mid
<1>9. /\ "store" \in Labels /\ "store" \notin Steady
      /\ ~ Holds("store", l) /\ Changes("store", l)
  BY <1>7 DEF Labels, InTable, Steady, Holds, Changes
<1>. QED  BY <1>1, <1>4, <1>5, <1>7, <1>8, <1>9, ChangeStep

LEMMA RemoveSafe ==
  ASSUME Sound, NEW t \in Thread, Remove(t)
  PROVE  Kept
<1>. DEFINE c == array[VML_env]
            i == loc[t].i
            l == loc[t]
<1>0. /\ loc[t] \in Locals /\ loc[t].op = "unset"
      /\ pc[t] = "remove"
      /\ FreeCell(t, "shift")
  BY DEF Sound, TypeInv, TypeOK, Remove, At, LocalsFit
<1>1. Changing(t)  BY <1>0, OpensChanging DEF Sound
<1>2. PICK n \in Nat :
        /\ Table(VML_env, array, heap, n, env, {})
        /\ VML_env # NULL /\ i \in 1 .. n /\ heap[c[i]].name = loc[t].name
        /\ loc[t].ptr = c[i]
  BY <1>0 DEF Sound, TableCore, Place, Steady, Own
<1>3. /\ c[i] \in Addr
      /\ VML_env \in Array /\ Closed(c, n) /\ Sole(array, VML_env)
      /\ UNCHANGED <<VML_env, array, loc, undefined, env>>
      /\ pc' = [pc EXCEPT ![t] = "shift"]
      /\ Contents(c, heap', (1 .. n) \ {i}, Without(env, l), {})
      /\ HoldCore /\ ~ TakenNow =>
           \A u \in Thread \ {t} : Holding(u) => Held(heap', env', loc[u])
  BY <1>0, <1>1, <1>2, FreeCellSafe DEF Goto
<1>4. loc' = [loc EXCEPT ![t] = l]  BY <1>3, Typed DEF Sound
<1>. HIDE DEF l
<1>6. l \in Locals /\ l.i = i /\ l.op = "unset"  BY <1>0 DEF l
<1>7. Place(VML_env', array', heap', env', "shift", l)
  BY <1>2, <1>3, <1>6 DEF Place, Steady, Mid
<1>8. /\ "shift" \in Labels /\ "shift" \notin Steady
      /\ ~ Holds("shift", l) /\ Changes("shift", l)
  BY <1>6 DEF Labels, InTable, Steady, Holds, Changes
<1>. QED  BY <1>1, <1>3, <1>4, <1>6, <1>7, <1>8, ChangeStep

(* A change of the array, and of the variable of the call, is nothing to   *)
(* those who hold the value of another one.                                *)
LEMMA ArrayStep ==
  ASSUME Sound, NEW t \in Thread, pc[t] \in Mid, UNCHANGED <<heap, undefined>>,
         \A x \in Name : x # loc[t].name => env'[x] = env[x],
         NEW label \in Labels, pc' = [pc EXCEPT ![t] = label],
         NEW l \in Locals, loc' = [loc EXCEPT ![t] = l], l.op = loc[t].op,
         label \in Mid \cup {"release"},
         Place(VML_env', array', heap, env', label, l),
         label = "release" =>
           \E n \in Nat : Table(VML_env', array', heap, n, env', {})
  PROVE  Kept
<1>1. Changing(t)  BY OpensChanging DEF Sound
<1>2. /\ label \notin Steady /\ ~ Holds(label, l)
      /\ ~ Changes(label, l) => label = "release"
  BY <1>1 DEF Mid, Steady, InTable, Holds, Changing, Changes
<1>3. ASSUME HoldCore, ~ TakenNow, NEW u \in Thread \ {t}, Holding(u)
      PROVE  Held(heap', env', loc[u])
  <2>1. Held(heap, env, loc[u])  BY <1>3 DEF HoldCore
  <2>2. loc[u].name # loc[t].name  BY <1>1, <1>3 DEF TakenNow
  <2>3. heap[loc[u].ptr].name \in Name
    BY <2>1, Typed, EntryParts DEF Held, Sound
  <2>. QED  BY <2>1, <2>2, <2>3 DEF Held
<1>. QED  BY <1>1, <1>2, <1>3, ChangeStep

LEMMA StoreSafe ==
  ASSUME Sound, NEW t \in Thread, Store(t)
  PROVE  Kept
<1>. DEFINE c == array[VML_env]
            d == array'[VML_env]
            i == loc[t].i
            l == loc[t]
<1>0. /\ loc[t] \in Locals /\ pc[t] = "store" /\ pc[t] \in Mid
      /\ l.name \in Name /\ l.value \in Value
      /\ TypeInv /\ heap \in Heaps /\ env \in [Name -> Value \cup {NULL}]
  BY Typed DEF Sound, TypeInv, TypeOK, Store, At, Mid, Steady, InTable,
               LocalsFit, Setting
<1>1. PICK n \in Nat :
        /\ VML_env \in Array /\ Sole(array, VML_env)
        /\ i \in 1 .. n /\ Closed(c, n)
        /\ Contents(c, heap, (1 .. n) \ {i}, Without(env, l), {l.new})
        /\ Fresh(heap, l)
  BY <1>0 DEF Sound, TableCore, Place, Steady, Mid
<1>2. Writable(i)
  <2>1. i \in DOMAIN c
    BY <1>0, <1>1, CellsBelow DEF Closed
  <2>. QED  BY <1>1, <2>1, Memory DEF Closed, Writable
<1>3. /\ Write(i, l.new) /\ Goto(t, "release")
      /\ env' = [env EXCEPT ![l.name] = l.value]
      /\ UNCHANGED <<VML_env, heap, loc, undefined>>
  BY <1>2 DEF Store, Stored
<1>4. l.new \in Addr /\ l.new \in Pointer  BY <1>1 DEF Fresh, Pointer
<1>5. /\ d # Free /\ DOMAIN d = DOMAIN c /\ d[i] = l.new
      /\ \A j : j # i => d[j] = c[j]
      /\ \A b \in Array : b # VML_env => array'[b] = array[b]
  BY <1>0, <1>2, <1>3, <1>4, WriteCells
<1>6. loc' = [loc EXCEPT ![t] = l]  BY <1>3, Typed DEF Sound
<1>. HIDE DEF c, d, l, i
<1>7. Closed(d, n)
  BY <1>1, <1>5 DEF Closed
<1>8. Contents(d, heap, 1 .. n, env', {})
  <2>. DEFINE J == (1 .. n) \ {i}
              e == Without(env, l)
  <2>1. /\ e \in [Name -> Value \cup {NULL}] /\ e[l.name] = NULL
        /\ env' = [e EXCEPT ![l.name] = l.value]
    BY <1>0, <1>3 DEF Without
  <2>2. \A k \in J : d[k] = c[k]  BY <1>5
  <2>3. i \notin J /\ 1 .. n = J \cup {i}  BY <1>1
  <2>4. heap[l.new] = [name |-> l.name, value |-> l.value]
    BY <1>1 DEF Fresh
  <2>5. Contents(c, heap, J, e, {l.new})  BY <1>1
  <2>. HIDE DEF J, e
  <2>6. Contents(d, heap, J \cup {i}, [e EXCEPT ![l.name] = l.value], {})
    <3>. DEFINE x == l.name
                w == l.value
                a == l.new
    <3>1. /\ x \in Name /\ w \in Value /\ a \in Addr /\ d[i] = a
          /\ heap[a] = [name |-> x, value |-> w] /\ e[x] = NULL
          /\ Contents(c, heap, J, e, {a})
      BY <1>0, <1>4, <1>5, <2>1, <2>4, <2>5
    <3>. HIDE DEF x, w, a
    <3>2. Contents(d, heap, J \cup {i}, [e EXCEPT ![x] = w], {})
      BY <1>0, <2>1, <2>2, <2>3, <3>1, ContentsPut
    <3>. QED  BY <3>2 DEF x, w
  <2>. QED  BY <2>1, <2>3, <2>6
<1>9. Table(VML_env', array', heap, n, env', {})
  BY <1>1, <1>3, <1>5, <1>7, <1>8 DEF Table, Sole, d
<1>10. "release" \in Labels /\ Place(VML_env', array', heap, env', "release", l)
  BY OutsidePlace DEF Labels, InTable
<1>11. \A x \in Name : x # loc[t].name => env'[x] = env[x]
  BY <1>0, <1>3 DEF l
<1>. QED
  BY <1>0, <1>3, <1>6, <1>9, <1>10, <1>11, ArrayStep DEF Goto, l

LEMMA PublishSafe ==
  ASSUME Sound, NEW t \in Thread, Publish(t)
  PROVE  Kept
<1>. DEFINE l == loc[t]
<1>0. /\ l \in Locals /\ pc[t] = "publish" /\ pc[t] \in Mid
      /\ loc' = [loc EXCEPT ![t] = l]
      /\ pc' = [pc EXCEPT ![t] = "append"]
      /\ VML_env' = l.block
      /\ UNCHANGED <<array, heap, undefined, env>>
  BY DEF Sound, TypeInv, TypeOK, Publish, At, Mid, Steady, InTable, Goto
<1>1. /\ l.block \in Array /\ Sole(array, l.block)
      /\ Room(array[l.block], heap, env, l)
  BY <1>0 DEF Sound, TableCore, Place, Steady
<1>. HIDE DEF l
<1>2. Place(VML_env', array', heap, env', "append", l)
  BY <1>0, <1>1 DEF Place, Steady, Mid
<1>3. "append" \in Labels /\ "append" \in Mid
  BY DEF Labels, InTable, Mid, Steady
<1>. QED  BY <1>0, <1>2, <1>3, ArrayStep DEF l

LEMMA AppendEntrySafe ==
  ASSUME Sound, NEW t \in Thread, AppendEntry(t)
  PROVE  Kept
<1>. DEFINE c == array[VML_env]
            d == array'[VML_env]
            i == loc[t].i
            l == loc[t]
<1>0. /\ loc[t] \in Locals /\ pc[t] = "append" /\ pc[t] \in Mid
      /\ l.name \in Name /\ l.value \in Value
      /\ TypeInv /\ heap \in Heaps /\ env \in [Name -> Value \cup {NULL}]
  BY Typed DEF Sound, TypeInv, TypeOK, AppendEntry, At, Mid, Steady, InTable,
               LocalsFit, Setting
<1>1. VML_env \in Array /\ Sole(array, VML_env) /\ Room(c, heap, env, l)
  BY <1>0 DEF Sound, TableCore, Place, Steady, Mid
<1>2. Writable(i)
  <2>1. i \in 1 .. i + 1  BY <1>1 DEF Room
  <2>2. i \in DOMAIN c
    BY <1>0, <1>1, <2>1, CellsBelow DEF Room
  <2>. QED  BY <1>1, <2>2, Memory DEF Room, Writable
<1>3. /\ Write(i, l.new) /\ Goto(t, "close")
      /\ UNCHANGED <<VML_env, heap, loc, undefined, env>>
  BY <1>2 DEF AppendEntry
<1>4. l.new \in Addr /\ l.new \in Pointer  BY <1>1 DEF Room, Fresh, Pointer
<1>5. /\ d # Free /\ DOMAIN d = DOMAIN c /\ d[i] = l.new
      /\ \A j : j # i => d[j] = c[j]
      /\ \A b \in Array : b # VML_env => array'[b] = array[b]
  BY <1>0, <1>2, <1>3, <1>4, WriteCells
<1>6. loc' = [loc EXCEPT ![t] = l] /\ l.i = i
  BY <1>3, Typed DEF Sound
<1>. HIDE DEF c, d, l, i
<1>7. Contents(d, heap, 1 .. i, With(env, l), {})
  <2>. DEFINE J == 1 .. i - 1
  <2>1. \A k \in J : d[k] = c[k]  BY <1>1, <1>5, <1>6 DEF Room
  <2>2. i \notin J /\ 1 .. i = J \cup {i}  BY <1>1, <1>6 DEF Room
  <2>3. heap[l.new] = [name |-> l.name, value |-> l.value]
    BY <1>1 DEF Room, Fresh
  <2>4. Contents(c, heap, J, env, {l.new}) /\ env[l.name] = NULL
    BY <1>1, <1>6 DEF Room
  <2>. HIDE DEF J
  <2>5. Contents(d, heap, J \cup {i}, [env EXCEPT ![l.name] = l.value], {})
    <3>. DEFINE x == l.name
                w == l.value
                a == l.new
    <3>1. /\ x \in Name /\ w \in Value /\ a \in Addr /\ d[i] = a
          /\ heap[a] = [name |-> x, value |-> w] /\ env[x] = NULL
          /\ Contents(c, heap, J, env, {a})
      BY <1>0, <1>4, <1>5, <2>3, <2>4
    <3>. HIDE DEF x, w, a
    <3>2. Contents(d, heap, J \cup {i}, [env EXCEPT ![x] = w], {})
      BY <1>0, <2>1, <2>2, <3>1, ContentsPut
    <3>. QED  BY <3>2 DEF x, w
  <2>. QED  BY <2>2, <2>5 DEF With
<1>8. Place(VML_env', array', heap, env', "close", l)
  BY <1>1, <1>3, <1>5, <1>6, <1>7 DEF Place, Steady, Mid, Room, Sole, d
<1>9. "close" \in Labels /\ "close" \in Mid
  BY DEF Labels, InTable, Mid, Steady
<1>. QED
  BY <1>0, <1>3, <1>6, <1>8, <1>9, ArrayStep DEF Goto, l

LEMMA CloseSafe ==
  ASSUME Sound, NEW t \in Thread, Close(t)
  PROVE  Kept
<1>. DEFINE c == array[VML_env]
            d == array'[VML_env]
            i == loc[t].i
            l == loc[t]
<1>0. /\ loc[t] \in Locals /\ pc[t] = "close" /\ pc[t] \in Mid
      /\ l.name \in Name
      /\ TypeInv /\ env \in [Name -> Value \cup {NULL}]
  BY Typed DEF Sound, TypeInv, TypeOK, Close, At, Mid, Steady, InTable,
               LocalsFit, Setting
<1>1. /\ VML_env \in Array /\ Sole(array, VML_env)
      /\ c # Free /\ i \in Nat \ {0}
      /\ i + 1 \in DOMAIN c /\ Contents(c, heap, 1 .. i, With(env, l), {})
  BY <1>0 DEF Sound, TableCore, Place, Steady, Mid
<1>2. Writable(i + 1)
  BY <1>1, Memory DEF Writable
<1>3. /\ Write(i + 1, NULL) /\ Goto(t, "release")
      /\ env' = With(env, l)
      /\ UNCHANGED <<VML_env, heap, loc, undefined>>
  BY <1>2 DEF Close, Stored, With
<1>4. NULL \in Pointer  BY DEF Pointer
<1>5. /\ d # Free /\ DOMAIN d = DOMAIN c /\ d[i + 1] = NULL
      /\ \A j : j # i + 1 => d[j] = c[j]
      /\ \A b \in Array : b # VML_env => array'[b] = array[b]
  BY <1>0, <1>2, <1>3, <1>4, WriteCells
<1>6. loc' = [loc EXCEPT ![t] = l]  BY <1>3, Typed DEF Sound
<1>. HIDE DEF c, d, l, i
<1>7. Closed(d, i)
  BY <1>1, <1>5 DEF Closed
<1>8. Contents(d, heap, 1 .. i, env', {})
  <2>1. \A k \in 1 .. i : d[k] = c[k]  BY <1>1, <1>5
  <2>. QED  BY <1>1, <1>3, <2>1, ContentsSame
<1>9. Table(VML_env', array', heap, i, env', {})
  BY <1>1, <1>3, <1>5, <1>7, <1>8 DEF Table, Sole, d
<1>10. "release" \in Labels /\ Place(VML_env', array', heap, env', "release", l)
  BY OutsidePlace DEF Labels, InTable
<1>11. \A x \in Name : x # loc[t].name => env'[x] = env[x]
  BY <1>0, <1>3 DEF l, With
<1>. QED
  BY <1>0, <1>1, <1>3, <1>6, <1>9, <1>10, <1>11, ArrayStep DEF Goto, l

LEMMA GrowSafe ==
  ASSUME Sound, NEW t \in Thread, Grow(t)
  PROVE  Kept
<1>. DEFINE old == IF VML_env = NULL THEN <<>> ELSE array[VML_env]
            i == loc[t].i
<1>0. /\ loc[t] \in Locals /\ loc[t].op = "set"
      /\ pc[t] = "grow"
      /\ heap \in Heaps
      /\ array \in [Array -> Seq(Pointer) \cup {Free}]
      /\ VML_env \in Array \cup {NULL}
      /\ loc \in [Thread -> Locals]
      /\ TypeInv
  BY Typed DEF Sound, TypeInv, Grow, At, LocalsFit, Setting
<1>1. Changing(t)  BY <1>0, OpensChanging DEF Sound
<1>2. PICK n \in Nat :
        /\ Table(VML_env, array, heap, n, env, {loc[t].new})
        /\ Fresh(heap, loc[t])
        /\ i = n + 1 /\ env[loc[t].name] = NULL
  BY <1>0 DEF Sound, TableCore, Place, Steady, Own
<1>3. /\ old \in Seq(Pointer) /\ old # Free
      /\ \A k \in 1 .. n : k \in DOMAIN old /\ old[k] = array[VML_env][k]
  <2>1. CASE VML_env = NULL
    <3>1. n = 0  BY <1>2, <2>1, Memory DEF Table
    <3>2. old = <<>>  BY <2>1
    <3>3. <<>> \in Seq(Pointer)  BY EmptySeq
    <3>4. 1 .. n = {}  BY <3>1
    <3>. HIDE DEF old
    <3>. QED  BY <3>2, <3>3, <3>4, Memory
  <2>2. CASE VML_env # NULL
    <3>1. VML_env \in Array /\ Closed(old, n) /\ old = array[VML_env]
      BY <1>2, <2>2 DEF Table
    <3>2. \A k \in 1 .. n : k \in DOMAIN array[VML_env]
      <4>1. \A k \in 1 .. n : k \in 1 .. n + 1  OBVIOUS
      <4>. QED
        BY <1>0, <3>1, <4>1, CellsBelow DEF Closed
    <3>. QED  BY <1>0, <3>1, <3>2 DEF Closed
  <2>. QED  BY <2>1, <2>2
<1>4. ASSUME NEW b \in Array,
             array' = [c \in Array |-> IF c = b THEN Resized(old, i + 1)
                                       ELSE IF c = VML_env THEN Free
                                       ELSE array[c]],
             loc' = [loc EXCEPT ![t].block = b],
             Goto(t, "publish"), UNCHANGED <<VML_env, heap, undefined, env>>
      PROVE  Kept
  <2>. DEFINE l == [loc[t] EXCEPT !.block = b]
              d == array'[b]
  <2>1. /\ l \in Locals /\ loc' = [loc EXCEPT ![t] = l]
        /\ l.i = i /\ l.new = loc[t].new /\ l.block = b /\ l.op = "set"
        /\ l.name = loc[t].name /\ l.value = loc[t].value
    <3>1. l \in Locals /\ loc' = [loc EXCEPT ![t] = l]
      BY <1>0, <1>4, SetType
    <3>. QED  BY <1>0, <3>1, SetFields
  <2>2. d = Resized(old, i + 1)  BY <1>4
  <2>3. d # Free
    <3>1. i + 1 \in Nat  BY <1>2
    <3>2. d \in Seq(Pointer)  BY <1>3, <2>2, <3>1, ResizedType, Zenon
    <3>. QED  BY <3>2, Memory
  <2>4. /\ DOMAIN d = 1 .. i + 1
        /\ \A k \in 1 .. n : d[k] = old[k]
    BY <1>2, <1>3, <2>2 DEF Resized
  <2>5. Sole(array', b)
    BY <1>2, <1>4 DEF Table, Sole
  <2>. HIDE DEF l, d, old, i
  <2>6. Contents(d, heap, 1 .. n, env, {l.new})
    <3>1. \A k \in 1 .. n : d[k] = array[VML_env][k]  BY <1>3, <2>4
    <3>2. Contents(array[VML_env], heap, 1 .. n, env, {l.new})
      BY <1>2, <2>1 DEF Table
    <3>. QED  BY <3>1, <3>2, ContentsSame
  <2>7. Room(d, heap, env, l)
    <3>1. l.i - 1 = n /\ l.i \in Nat \ {0} /\ l.i + 1 \in DOMAIN d
      BY <1>2, <2>1, <2>4
    <3>2. Fresh(heap, l) /\ env[l.name] = NULL
      BY <1>2, <2>1 DEF Fresh
    <3>. QED  BY <2>3, <2>6, <3>1, <3>2 DEF Room
  <2>8. Place(VML_env', array', heap', env', "publish", l)
    BY <1>4, <2>1, <2>5, <2>7 DEF Place, Steady, Mid, d
  <2>9. /\ "publish" \in Labels /\ "publish" \notin Steady
        /\ ~ Holds("publish", l) /\ Changes("publish", l)
    BY <2>1 DEF Labels, InTable, Steady, Holds, Changes
  <2>10. HoldCore => \A u \in Thread \ {t} : Holding(u) => Held(heap', env', loc[u])
    BY <1>4 DEF HoldCore
  <2>. QED
    BY <1>1, <1>4, <2>1, <2>8, <2>9, <2>10, ChangeStep DEF Goto
<1>5. ASSUME heap' = [heap EXCEPT ![loc[t].new] = Free], Goto(t, "release"),
             UNCHANGED <<VML_env, array, loc, undefined, env>>
      PROVE  Kept
  <2>. DEFINE a == loc[t].new
  <2>1. loc' = [loc EXCEPT ![t] = loc[t]]  BY <1>0, <1>5
  <2>2. \A b \in Addr : b # a => heap'[b] = heap[b]
    BY <1>0, <1>5 DEF Heaps
  <2>3. Table(VML_env', array', heap', n, env', {})
    <3>1. Contents(array[VML_env], heap', 1 .. n, env, {})
      BY <1>0, <1>2, <1>5, ContentsFreeNew DEF Table
    <3>. QED  BY <1>2, <1>5, <3>1 DEF Table
  <2>4. /\ "release" \in Labels /\ "release" \notin Steady
        /\ ~ Holds("release", loc[t])
        /\ Place(VML_env', array', heap', env', "release", loc[t])
    BY <1>0, OutsidePlace DEF Labels, InTable, Steady, Holds
  <2>5. ASSUME HoldCore, NEW u \in Thread \ {t}, Holding(u)
        PROVE  Held(heap', env', loc[u])
    <3>1. Held(heap, env, loc[u]) /\ loc[u].ptr # a
      BY <1>0, <2>5 DEF HoldCore, Unseen, Steady
    <3>. QED  BY <1>5, <2>2, <3>1 DEF Held
  <2>. QED
    BY <1>0, <1>1, <1>5, <2>1, <2>3, <2>4, <2>5, ChangeStep DEF Goto
<1>. QED
  BY <1>3, <1>4, <1>5 DEF Grow

LEMMA ShiftSafe ==
  ASSUME Sound, NEW t \in Thread, Shift(t)
  PROVE  Kept
<1>. DEFINE c == array[VML_env]
            d == array'[VML_env]
            i == loc[t].i
<1>0. /\ loc[t] \in Locals /\ pc[t] = "shift" /\ pc[t] \in Mid
      /\ loc[t].name \in Name
      /\ loc \in [Thread -> Locals] /\ pc \in [Thread -> Labels]
      /\ env \in [Name -> Value \cup {NULL}]
      /\ i \in Nat /\ TypeInv
  BY DEF Sound, TypeInv, TypeOK, Shift, At, Mid, Steady, InTable, Locals,
         LocalsFit
<1>1. PICK n \in Nat :
        /\ VML_env \in Array /\ Sole(array, VML_env) /\ Closed(c, n)
        /\ \/ /\ i \in 1 .. n /\ c[i] \in Addr
              /\ Contents(c, heap, (1 .. n) \ {i}, Without(env, loc[t]), {})
           \/ /\ i = n + 2 /\ i \in DOMAIN c /\ c[i] = NULL
              /\ Contents(c, heap, 1 .. n, Without(env, loc[t]), {})
  BY <1>0 DEF Sound, TableCore, Place, Steady, Mid
<1>2. CASE /\ i \in 1 .. n /\ c[i] \in Addr
           /\ Contents(c, heap, (1 .. n) \ {i}, Without(env, loc[t]), {})
  <2>. DEFINE l == [loc[t] EXCEPT !.i = i + 1]
              p == c[i + 1]
              e == Without(env, loc[t])
  <2>1. i \in DOMAIN c /\ i + 1 \in DOMAIN c
    <3>1. i \in 1 .. n + 1 /\ i + 1 \in 1 .. n + 1  BY <1>2
    <3>. QED  BY <1>0, <1>1, <3>1, CellsBelow DEF Closed
  <2>2. p \in Addr \cup {NULL}
    <3>1. CASE i = n
      BY <1>1, <3>1 DEF Closed
    <3>2. CASE i # n
      <4>1. i + 1 \in (1 .. n) \ {i}  BY <1>2, <3>2
      <4>. QED  BY <1>2, <4>1 DEF Contents
    <3>. QED  BY <3>1, <3>2
  <2>3. Writable(i) /\ CanShift(i) /\ c[i] # NULL
    BY <1>1, <1>2, <2>1, <2>2, Memory
       DEF Closed, CanShift, Readable, Writable, Cell
  <2>4. /\ Write(i, p)
        /\ loc' = [loc EXCEPT ![t] = l]
        /\ pc' = [pc EXCEPT ![t] = "shift"]
        /\ UNCHANGED <<VML_env, heap, undefined, env>>
    BY <1>0, <2>3 DEF Shift, Cell
  <2>5. p \in Pointer  BY <2>2 DEF Pointer
  <2>6. /\ d # Free /\ DOMAIN d = DOMAIN c /\ d[i] = p
        /\ \A j : j # i => d[j] = c[j]
        /\ \A b \in Array : b # VML_env => array'[b] = array[b]
    BY <1>0, <2>3, <2>4, <2>5, WriteCells
  <2>7. l \in Locals /\ l.i = i + 1 /\ l.op = loc[t].op /\ l.name = loc[t].name
    <3>1. i + 1 \in Nat  BY <1>0
    <3>2. l \in Locals  BY <1>0, <3>1, SetType
    <3>. QED  BY <1>0, <3>2, SetFields
  <2>8. "shift" \in Labels  BY DEF Labels, InTable
  <2>9. Without(env', l) = e  BY <2>4, <2>7 DEF Without
  <2>10. Sole(array', VML_env')  BY <1>1, <2>4, <2>6 DEF Sole
  <2>11. Place(VML_env', array', heap, env', "shift", l)
    <3>1. CASE i = n
      <4>1. n - 1 \in Nat /\ l.i = (n - 1) + 2 /\ (n - 1) + 1 = i
        BY <1>2, <2>7, <3>1
      <4>2. p = NULL  BY <1>1, <3>1 DEF Closed
      <4>. HIDE DEF c, d, l, p, e
      <4>3. Closed(d, n - 1)
        BY <2>1, <2>6, <4>1, <4>2 DEF Closed
      <4>4. l.i \in DOMAIN d /\ d[l.i] = NULL
        BY <1>0, <2>1, <2>6, <2>7, <4>2 DEF p
      <4>5. Contents(d, heap, 1 .. n - 1, e, {})
        <5>1. 1 .. n - 1 = (1 .. n) \ {i}  BY <3>1
        <5>2. \A k \in 1 .. n - 1 : d[k] = c[k]  BY <2>6, <3>1
        <5>3. Contents(c, heap, 1 .. n - 1, e, {})
          BY <1>2, <5>1 DEF e
        <5>. QED  BY <5>2, <5>3, ContentsSame
      <4>. QED
        BY <1>1, <2>4, <2>9, <2>10, <4>1, <4>3, <4>4, <4>5
           DEF Place, Steady, Mid, d
    <3>2. CASE i # n
      <4>1. i + 1 \in (1 .. n) \ {i} /\ i + 1 # i  BY <1>2, <3>2
      <4>2. p \in Addr  BY <1>2, <4>1 DEF Contents
      <4>. HIDE DEF c, d, l, p, e
      <4>3. Closed(d, n)
        BY <1>1, <1>2, <2>6 DEF Closed
      <4>4. l.i \in 1 .. n /\ d[l.i] \in Addr
        BY <1>0, <2>6, <2>7, <4>1, <4>2 DEF p
      <4>5. Contents(d, heap, (1 .. n) \ {i + 1}, e, {})
        <5>. DEFINE J == (1 .. n) \ {i}
                    K == (1 .. n) \ {i + 1}
        <5>1. Contents(c, heap, J, e, {})  BY <1>2 DEF e
        <5>2. \A k \in K : \E j \in J : d[k] = c[j]
          <6>1. TAKE k \in K
          <6>2. CASE k = i  BY <2>6, <4>1, <6>2 DEF p
          <6>3. CASE k # i  BY <2>6, <6>3
          <6>. QED  BY <6>2, <6>3
        <5>3. \A j \in J : \E k \in K : d[k] = c[j]
          <6>1. TAKE j \in J
          <6>2. CASE j = i + 1  BY <1>2, <2>6, <4>1, <6>2 DEF p
          <6>3. CASE j # i + 1  BY <2>6, <6>3
          <6>. QED  BY <6>2, <6>3
        <5>4. ASSUME NEW j \in K, NEW k \in K, d[j] = d[k]
              PROVE  j = k
          <6>. DEFINE from(m) == IF m = i THEN i + 1 ELSE m
          <6>1. \A m \in K : from(m) \in J /\ d[m] = c[from(m)]
            BY <1>2, <2>6, <4>1 DEF p
          <6>2. from(j) \in J /\ from(k) \in J /\ c[from(j)] = c[from(k)]
            BY <5>4, <6>1
          <6>. HIDE DEF from, J
          <6>3. from(j) = from(k)  BY <5>1, <6>2, CellsDiffer
          <6>. QED  BY <6>3, <4>1 DEF from
        <5>. HIDE DEF J, K
        <5>5. Contents(d, heap, K, e, {})
          BY <5>1, <5>2, <5>3, <5>4, ContentsMoved
        <5>. QED  BY <5>5 DEF K
      <4>. QED
        BY <1>1, <2>4, <2>7, <2>9, <2>10, <4>3, <4>4, <4>5
           DEF Place, Steady, Mid, d
    <3>. QED  BY <3>1, <3>2
  <2>. HIDE DEF l, p, c, d, i, e
  <2>. QED
    BY <1>0, <2>4, <2>7, <2>8, <2>11, ArrayStep DEF Mid, Steady, InTable
<1>3. CASE /\ i = n + 2 /\ i \in DOMAIN c /\ c[i] = NULL
           /\ Contents(c, heap, 1 .. n, Without(env, loc[t]), {})
  <2>1. CanShift(i) /\ Cell(i) = NULL
    BY <1>1, <1>3, Memory DEF Closed, CanShift, Readable, Writable, Cell
  <2>2. /\ pc' = [pc EXCEPT ![t] = "release"]
        /\ env' = Without(env, loc[t])
        /\ UNCHANGED <<VML_env, array, heap, loc, undefined>>
    BY <2>1 DEF Shift, Goto, shared, Without
  <2>3. loc' = [loc EXCEPT ![t] = loc[t]]  BY <1>0, <2>2
  <2>4. Table(VML_env', array', heap, n, env', {})
    BY <1>1, <1>3, <2>2 DEF Table
  <2>5. /\ "release" \in Labels
        /\ Place(VML_env', array', heap, env', "release", loc[t])
    BY OutsidePlace DEF Labels, InTable
  <2>6. \A x \in Name : x # loc[t].name => env'[x] = env[x]
    BY <1>0, <2>2 DEF Without
  <2>. QED  BY <1>0, <2>2, <2>3, <2>4, <2>5, <2>6, ArrayStep
<1>. QED  BY <1>1, <1>2, <1>3

LEMMA ReleaseSafe ==
  ASSUME Sound, NEW t \in Thread, Release(t)
  PROVE  Kept
<1>0. /\ loc[t] \in Locals /\ pc[t] = "release" /\ ~ Changing(t)
      /\ UNCHANGED <<shared, undefined, env>>
      /\ TypeInv
  BY DEF Sound, TypeInv, TypeOK, Release, At, Changing, InTable
<1>1. CASE loc[t].op = "get" /\ loc[t].ptr # NULL
  <2>. DEFINE l == [loc[t] EXCEPT !.buffers = 0]
  <2>1. /\ l \in Locals /\ l.ptr = loc[t].ptr /\ l.name = loc[t].name
        /\ loc' = [loc EXCEPT ![t] = l]
        /\ pc' = [pc EXCEPT ![t] = "copy"]
    BY <1>0, <1>1, SetType, SetFields DEF Release, Goto
  <2>. HIDE DEF l
  <2>2. "copy" \in Labels /\ Place(VML_env, array, heap, env, "copy", l)
    BY OutsidePlace DEF Labels, InTable
  <2>3. Holding(t)  BY <1>0, <1>1 DEF Holding
  <2>4. HoldCore =>
          /\ Held(heap, env, l)
          /\ \A u \in Thread \ {t} : Unseen(pc[u], loc[u], l.ptr)
    BY <2>1, <2>3 DEF HoldCore, Held
  <2>5. \A p : Unseen("copy", l, p)  BY DEF Unseen, Steady
  <2>. QED  BY <1>0, <2>1, <2>2, <2>4, <2>5, QuietStep
<1>2. CASE ~ (loc[t].op = "get" /\ loc[t].ptr # NULL)
  <2>1. /\ loc' = [loc EXCEPT ![t] = NoLocals]
        /\ pc' = [pc EXCEPT ![t] = "idle"]
    BY <1>2 DEF Release, Goto
  <2>2. "idle" \in Labels /\ Place(VML_env, array, heap, env, "idle", NoLocals)
    BY OutsidePlace DEF Labels, InTable
  <2>3. ~ Holds("idle", NoLocals) /\ \A p : Unseen("idle", NoLocals, p)
    BY DEF Holds, Unseen, Steady
  <2>. QED  BY <1>0, <2>1, <2>2, <2>3, IdleLocals, QuietStep
<1>. QED  BY <1>1, <1>2

(* The copy of mono_string_new, and what it answers.                       *)
LEMMA CopySafe ==
  ASSUME Sound, NEW t \in Thread, Copy(t)
  PROVE  /\ Kept
         /\ HoldCore => loc'[t].result = env[loc[t].name]
<1>. DEFINE e == heap[loc[t].ptr]
            l == [NoLocals EXCEPT !.result = e.value]
<1>0. /\ pc[t] = "copy" /\ ~ Changing(t)
      /\ loc[t].op = "get" /\ loc[t].ptr \in Addr
      /\ heap \in Heaps /\ loc \in [Thread -> Locals]
  BY Typed DEF Sound, TypeInv, Copy, At, LocalsFit, Changing, InTable
<1>1. Holding(t)  BY <1>0, Memory DEF Holding
<1>2. HoldCore => e # Free /\ e.name = loc[t].name /\ e.value = env[loc[t].name]
  BY <1>1 DEF HoldCore, Held
<1>3. CASE e = Free \/ e.name # loc[t].name
  <2>1. UNCHANGED <<shared, pc, loc, env>>
    BY <1>3 DEF Copy, Undefined
  <2>2. TableCore'
    BY <2>1 DEF Sound, TableCore, shared, Changing
  <2>. QED  BY <1>2, <1>3, <2>2 DEF Kept
<1>4. CASE e # Free /\ e.name = loc[t].name
  <2>1. /\ loc' = [loc EXCEPT ![t] = l]
        /\ pc' = [pc EXCEPT ![t] = "idle"]
        /\ UNCHANGED <<shared, undefined, env>>
    BY <1>4 DEF Copy, Goto
  <2>2. l \in Locals /\ l.result = e.value
    <3>1. e.value \in Value  BY <1>0, <1>4, EntryParts
    <3>2. NoLocals \in Locals  BY IdleLocals
    <3>. HIDE DEF e
    <3>. QED  BY <3>1, <3>2 DEF Locals
  <2>3. HoldCore => loc'[t].result = env[loc[t].name]
    BY <1>0, <1>2, <2>1, <2>2
  <2>. HIDE DEF l
  <2>4. "idle" \in Labels /\ Place(VML_env, array, heap, env, "idle", l)
    BY OutsidePlace DEF Labels, InTable
  <2>5. ~ Holds("idle", l) /\ \A p : Unseen("idle", l, p)
    BY DEF Holds, Unseen, Steady
  <2>. QED  BY <1>0, <2>1, <2>2, <2>3, <2>4, <2>5, QuietStep
<1>. QED  BY <1>3, <1>4

-----------------------------------------------------------------------------
(* The inductive invariant.                                                *)

LEMMA CoreInitially == Init => TableCore /\ HoldCore
<1>. SUFFICES ASSUME Init PROVE TableCore /\ HoldCore
  OBVIOUS
<1>1. Table(VML_env, array, heap, 0, env, {})
  <2>1. 1 .. 0 = {}  OBVIOUS
  <2>. QED  BY <2>1 DEF Init, Table, Sole, Contents
<1>2. ASSUME NEW t \in Thread
      PROVE  pc[t] \notin InTable /\ ~ Holding(t) /\ pc[t] \notin Steady
  BY DEF Init, InTable, Holding, Steady
<1>3. \A t \in Thread : Place(VML_env, array, heap, env, pc[t], loc[t])
  BY <1>2, OutsidePlace
<1>. QED  BY <1>1, <1>2, <1>3 DEF Init, TableCore, HoldCore

LEMMA StepDefined ==
  ASSUME NEW t \in Thread, Step(t)
  PROVE  ~ undefined
BY DEF Step, At, GetEnvironmentVariable, InternalSetEnvironmentVariable, Alloc,
       Enter, Scan, Compare, Replace, Store, Grow, Publish, AppendEntry, Close,
       Remove, Shift, Release, Copy

(* Where no calls have met, the step comes from a sound state.             *)
LEMMA SoundBefore ==
  ASSUME ThreadsInv, NEW t \in Thread, Step(t), History, ~ overlap'
  PROVE  Sound /\ ~ OverlapNow'
BY StepDefined DEF History, ThreadsInv, Sound

LEMMA CoreStep ==
  ASSUME ThreadsInv, NEW t \in Thread, Step(t), History, ~ overlap'
  PROVE  Kept
<1>1. ~ OverlapNow' /\ Sound
  BY SoundBefore
<1>. QED
  BY <1>1, CallsSafe, AllocSafe, EnterSafe, ScanSafe, CompareSafe, ReplaceSafe,
     StoreSafe, GrowSafe, PublishSafe, AppendEntrySafe, CloseSafe, RemoveSafe,
     ShiftSafe, ReleaseSafe, CopySafe
     DEF Step

LEMMA ThreadsInitially == Init => ThreadsInv
<1>. SUFFICES ASSUME Init PROVE ThreadsInv
  OBVIOUS
<1>1. ~ OverlapNow /\ ~ TakenNow
  BY DEF Init, OverlapNow, TakenNow, Changing, Holding, InTable
<1>. QED  BY <1>1, TypeInitially, CoreInitially DEF ThreadsInv

LEMMA ThreadsStep == ThreadsInv /\ [Next]_vars => ThreadsInv'
<1>. SUFFICES ASSUME ThreadsInv, [Next]_vars PROVE ThreadsInv'
  OBVIOUS
<1>1. TypeInv'  BY TypeStep DEF ThreadsInv
<1>2. ASSUME NEW t \in Thread, Step(t), History
      PROVE  ThreadsInv'
  <2>1. ~ overlap' => Kept  BY <1>2, CoreStep
  <2>2. ~ overlap' /\ ~ taken' => HoldCore /\ ~ TakenNow
    BY <1>2 DEF ThreadsInv, History
  <2>. QED  BY <1>1, <1>2, <2>1, <2>2 DEF ThreadsInv, History, Kept
<1>3. CASE UNCHANGED vars
  <2>1. /\ OverlapNow' <=> OverlapNow
        /\ TakenNow' <=> TakenNow
    BY <1>3 DEF vars, shared, OverlapNow, TakenNow, Changing, Holding
  <2>2. (TableCore => TableCore') /\ (HoldCore => HoldCore')
    BY <1>3 DEF vars, shared, TableCore, HoldCore, Holding, Changing
  <2>3. overlap' = overlap /\ taken' = taken
    BY <1>3 DEF vars
  <2>. QED  BY <1>1, <2>1, <2>2, <2>3 DEF ThreadsInv
<1>. QED  BY <1>2, <1>3 DEF Next

(* The invariant of the two icalls under threads: as long as no two calls  *)
(* have met in the table, each thread is at a place of environment.c where *)
(* the array, the entries and the finished calls agree as the next         *)
(* statement relies on, with its own entry besides; and as long as no      *)
(* variable was changed under its reader, who holds a value holds the      *)
(* current one.                                                            *)
THEOREM ThreadsInvariant == Spec => []ThreadsInv
<1>1. Init => ThreadsInv  BY ThreadsInitially
<1>2. ThreadsInv /\ [Next]_vars => ThreadsInv'  BY ThreadsStep
<1>. QED  BY <1>1, <1>2, PTL DEF Spec

(* The array, the entries and the locals of the icalls keep their types,   *)
(* raced or not.                                                           *)
THEOREM ThreadsTypeCorrect == Spec => []TypeOK
<1>1. ThreadsInv => TypeOK  BY DEF ThreadsInv, TypeInv
<1>. QED  BY <1>1, ThreadsInvariant, PTL

(* Any number of threads may read while nobody writes, may write one after *)
(* another, and may copy one variable while another one is set: the code   *)
(* of environment.c misuses memory only after a call met a changing one in *)
(* the table, or a variable was changed between VMLGetEnv and the copy of  *)
(* mono_string_new.                                                        *)
THEOREM SafeUnlessRacedHolds == Spec => []SafeUnlessRaced
<1>1. ThreadsInv => SafeUnlessRaced
  BY DEF ThreadsInv, HoldCore, SafeUnlessRaced
<1>. QED  BY <1>1, ThreadsInvariant, PTL

-----------------------------------------------------------------------------
(* The table at rest.                                                      *)

(* Two ways to count the entries of a table: by where they are and by the  *)
(* variables they set.                                                     *)
LEMMA ContentsCounted ==
  ASSUME NEW c, NEW h \in Heaps, NEW n \in Nat,
         NEW e \in [Name -> Value \cup {NULL}], Contents(c, h, 1 .. n, e, {})
  PROVE  Cardinality({a \in Addr : h[a] # Free})
           = Cardinality({x \in Name : e[x] # NULL})
<1>. DEFINE K == 1 .. n
            A == {a \in Addr : h[a] # Free}
            B == {x \in Name : e[x] # NULL}
            f == [k \in K |-> c[k]]
            g == [k \in K |-> h[c[k]].name]
<1>1. ASSUME NEW k \in K
      PROVE  /\ c[k] \in Addr /\ h[c[k]] # Free
             /\ h[c[k]].name \in Name /\ e[h[c[k]].name] # NULL
  <2>1. c[k] \in Addr /\ h[c[k]] # Free /\ h[c[k]].value = e[h[c[k]].name]
    BY DEF Contents
  <2>. QED  BY <2>1, EntryParts
<1>2. f \in Bijection(K, A)
  <2>1. f \in [K -> A]  BY <1>1
  <2>2. \A j, k \in K : f[j] = f[k] => j = k
    BY CellsDiffer
  <2>3. \A a \in A : \E k \in K : f[k] = a  BY DEF Contents
  <2>. QED  BY <2>1, <2>2, <2>3, Fun_IsBij
<1>3. g \in Bijection(K, B)
  <2>1. g \in [K -> B]  BY <1>1
  <2>2. \A j, k \in K : g[j] = g[k] => j = k  BY DEF Contents
  <2>3. \A x \in B : \E k \in K : g[k] = x  BY DEF Contents
  <2>. QED  BY <2>1, <2>2, <2>3, Fun_IsBij
<1>4. IsFiniteSet(K)  BY FS_Interval
<1>. HIDE DEF K, A, B, f, g
<1>5. ExistsBijection(K, A) /\ ExistsBijection(K, B)
  BY <1>2, <1>3 DEF ExistsBijection
<1>6. Cardinality(A) = Cardinality(K) /\ Cardinality(B) = Cardinality(K)
  BY <1>4, <1>5, FS_Bijection
<1>. QED  BY <1>6 DEF A, B

(* The entries before the null pointer are those of the set variables.     *)
LEMMA EntriesOfVariables ==
  ASSUME TypeInv, NEW n \in Nat, Table(VML_env, array, heap, n, env, {}),
         VML_env # NULL
  PROVE  Entries = {[name |-> x, value |-> env[x]] :
                      x \in {x \in Name : env[x] # NULL}}
<1>. DEFINE c == array[VML_env]
            Set == {x \in Name : env[x] # NULL}
            Of(x) == [name |-> x, value |-> env[x]]
<1>1. /\ VML_env \in Array /\ c # Free /\ n + 1 \in DOMAIN c /\ c[n + 1] = NULL
      /\ Contents(c, heap, 1 .. n, env, {})
  BY DEF Table, Closed
<1>2. c \in Seq(Pointer)  BY <1>1, Typed
<1>3. Len(c) \in Nat /\ n + 1 <= Len(c)
  BY <1>1, <1>2, LenProperties
<1>4. \A k \in 1 .. n : c[k] \in Addr /\ c[k] # NULL
  BY <1>1, Memory DEF Contents
<1>5. {k \in 1 .. Len(c) - 1 : \A j \in 1 .. k : c[j] # NULL} = 1 .. n
  <2>1. ASSUME NEW k \in 1 .. n
        PROVE  k \in 1 .. Len(c) - 1 /\ \A j \in 1 .. k : c[j] # NULL
    BY <1>3, <1>4
  <2>2. ASSUME NEW k \in 1 .. Len(c) - 1, \A j \in 1 .. k : c[j] # NULL
        PROVE  k \in 1 .. n
    <3>1. ~ (n + 1 \in 1 .. k)  BY <1>1, <2>2
    <3>. QED  BY <1>3, <3>1
  <2>. QED  BY <2>1, <2>2
<1>6. Entries = {heap[c[k]] : k \in 1 .. n}
  BY <1>5 DEF Entries, Cell
<1>7. ASSUME NEW k \in 1 .. n
      PROVE  \E x \in Set : heap[c[k]] = Of(x)
  <2>. DEFINE r == heap[c[k]]
  <2>1. c[k] \in Addr /\ r # Free /\ r.value = env[r.name]
    BY <1>1 DEF Contents
  <2>2. r \in Entry /\ r.name \in Name /\ r.value # NULL
    BY <2>1, Typed, EntryParts
  <2>. HIDE DEF r
  <2>3. r = [name |-> r.name, value |-> r.value]
    BY <2>2 DEF Entry
  <2>. QED  BY <2>1, <2>2, <2>3 DEF r
<1>8. ASSUME NEW x \in Set
      PROVE  \E k \in 1 .. n : Of(x) = heap[c[k]]
  <2>1. PICK k \in 1 .. n : heap[c[k]].name = x  BY <1>1 DEF Contents
  <2>2. PICK y \in Set : heap[c[k]] = Of(y)  BY <1>7
  <2>. QED  BY <2>1, <2>2
<1>. HIDE DEF Of, Set, c
<1>9. {heap[c[k]] : k \in 1 .. n} = {Of(x) : x \in Set}
  BY <1>7, <1>8
<1>. QED  BY <1>6, <1>9 DEF Of, Set

(* Until two calls have met in the table, whenever none is in it the array *)
(* is closed and has exactly one entry for each variable that is set, with *)
(* its value; one array at most and no other entry is allocated: nothing   *)
(* that malloc or realloc gave is lost, and no set or unset is.            *)
THEOREM TableAtRestHolds == Spec => []TableAtRest
<1>1. ThreadsInv => TableAtRest
  <2>. SUFFICES ASSUME ThreadsInv, ~ overlap,
                       \A t \in Thread : pc[t] \notin InTable
                PROVE  /\ \A b \in Array : array[b] # Free => b = VML_env
                       /\ VML_env # NULL =>
                            \E k \in DOMAIN array[VML_env] : Cell(k) = NULL
                       /\ IF VML_env = NULL
                            THEN \A x \in Name : env[x] = NULL
                            ELSE Entries =
                                   {[name |-> x, value |-> env[x]] :
                                      x \in {x \in Name : env[x] # NULL}}
                       /\ Cardinality({a \in Addr : heap[a] # Free})
                            = Cardinality({x \in Name : env[x] # NULL})
                       /\ \A t \in Thread : pc[t] = "idle" => loc[t].buffers = 0
    BY DEF TableAtRest
  <2>0. TypeInv  BY DEF ThreadsInv
  <2>1. PICK n \in Nat : Table(VML_env, array, heap, n, env, {})
    BY DEF ThreadsInv, TableCore, Changing
  <2>2. Contents(array[VML_env], heap, 1 .. n, env, {})  BY <2>1 DEF Table
  <2>3. \A b \in Array : array[b] # Free => b = VML_env
    BY <2>1 DEF Table, Sole
  <2>4. VML_env # NULL => \E k \in DOMAIN array[VML_env] : Cell(k) = NULL
    BY <2>1 DEF Table, Closed, Cell
  <2>5. VML_env = NULL => \A x \in Name : env[x] = NULL
    <3>1. VML_env = NULL => 1 .. n = {}  BY <2>1, Memory DEF Table
    <3>. QED  BY <2>2, <3>1, ContentsMissed
  <2>6. VML_env # NULL =>
          Entries = {[name |-> x, value |-> env[x]] :
                       x \in {x \in Name : env[x] # NULL}}
    BY <2>0, <2>1, EntriesOfVariables
  <2>7. Cardinality({a \in Addr : heap[a] # Free})
          = Cardinality({x \in Name : env[x] # NULL})
    BY <2>0, <2>2, Typed, ContentsCounted
  <2>8. \A t \in Thread : pc[t] = "idle" => loc[t].buffers = 0
    BY <2>0 DEF TypeInv, LocalsFit
  <2>. QED  BY <2>3, <2>4, <2>5, <2>6, <2>7, <2>8
<1>. QED  BY <1>1, ThreadsInvariant, PTL

-----------------------------------------------------------------------------
(* What the readers answer.                                                *)

(* A step moves one thread.                                                *)
LEMMA OthersStay ==
  ASSUME TypeInv, NEW t \in Thread, Step(t), NEW u \in Thread, u # t
  PROVE  pc'[u] = pc[u]
<1>1. pc \in [Thread -> Labels]  BY Typed
<1>2. \/ UNCHANGED pc
      \/ \E label : Goto(t, label)
  BY DEF Step, GetEnvironmentVariable, InternalSetEnvironmentVariable, Alloc,
         Enter, Scan, Compare, Replace, Remove, FreeCell, Store, Stored, Grow,
         Publish, AppendEntry, Close, Shift, Release, Copy, Undefined
<1>. QED  BY <1>1, <1>2 DEF Goto

LEMMA ReadsStep ==
  ASSUME ThreadsInv, [Next]_vars, NEW t \in Thread
  PROVE  /\ Copy(t) /\ ~ undefined' /\ ~ overlap' /\ ~ taken' =>
              loc'[t].result = env[loc[t].name]
         /\ loc[t].op = "get" /\ pc[t] \in {"enter", "scan"}
              /\ pc'[t] = "release" /\ ~ overlap' => env[loc[t].name] = NULL
<1>0. TypeInv /\ pc \in [Thread -> Labels]  BY Typed DEF ThreadsInv
<1>1. ASSUME Copy(t), ~ overlap', ~ taken'
      PROVE  loc'[t].result = env[loc[t].name]
  <2>1. Sound /\ HoldCore
    BY <1>1 DEF Next, vars, History, ThreadsInv, Sound, Copy, At
  <2>. QED  BY <1>1, <2>1, CopySafe
<1>2. ASSUME pc[t] \in {"enter", "scan"}, pc'[t] = "release", ~ overlap',
             loc[t].op = "get"
      PROVE  env[loc[t].name] = NULL
  <2>1. PICK u \in Thread : Step(u) /\ History
    <3>1. pc'[t] # pc[t]  BY <1>2
    <3>. QED  BY <3>1 DEF Next, vars
  <2>2. u = t  BY <1>0, <1>2, <2>1, OthersStay
  <2>3. Sound  BY <1>2, <2>1, SoundBefore
  <2>4. Enter(t) \/ Scan(t)
    BY <1>2, <2>1, <2>2
       DEF Step, At, GetEnvironmentVariable, InternalSetEnvironmentVariable,
           Alloc, Compare, Replace, Store, Grow, Publish, AppendEntry, Close,
           Remove, Shift, Release, Copy
  <2>5. CASE Enter(t)
    <3>1. VML_env = NULL
      BY <1>0, <1>2, <2>5 DEF Enter, Goto
    <3>. QED  BY <2>3, <2>5, <3>1, EnterUnset DEF Enter, At
  <2>6. CASE Scan(t)
    <3>1. Cell(loc[t].i) = NULL
      BY <1>0, <1>2, <2>6 DEF Scan, Goto, Undefined
    <3>. QED  BY <2>3, <2>6, <3>1, ScanUnset DEF Scan, At
  <2>. QED  BY <2>4, <2>5, <2>6
<1>. QED  BY <1>1, <1>2

(* GetEnvironmentVariable answers the value the last finished call gave    *)
(* the variable, and null only when no finished call has set it, however   *)
(* many others read at the same time.                                      *)
THEOREM ReadsCurrentHolds == Spec => ReadsCurrent
<1>1. ThreadsInv /\ [Next]_vars =>
        [\A t \in Thread :
           /\ Copy(t) /\ ~ undefined' /\ ~ overlap' /\ ~ taken' =>
                loc'[t].result = env[loc[t].name]
           /\ loc[t].op = "get" /\ pc[t] \in {"enter", "scan"}
                /\ pc'[t] = "release" /\ ~ overlap' =>
                env[loc[t].name] = NULL]_vars
  BY ReadsStep
<1>. QED  BY <1>1, ThreadsInvariant, PTL DEF Spec, ReadsCurrent

=============================================================================
