--------------------------- MODULE EnvTableProofs ---------------------------
(***************************************************************************)
(* The environment for every set of names and values and every heap, in    *)
(* three parts: what the string comparisons of EnvStrings decide; the      *)
(* invariants of EnvTable, which follow from IInv; and that the table of   *)
(* environment.c implements the map of EnvMap.                             *)
(***************************************************************************)
EXTENDS EnvTable, SequenceTheorems, WellFoundedInduction, TLAPS

-----------------------------------------------------------------------------
(* What the string comparisons of environment.c decide, for every name,    *)
(* every value and every entry.                                            *)

(* "name=value" is a string, one character longer than its two parts, and  *)
(* its characters are those of the name, '=' and those of the value.       *)
LEMMA NewVariableFacts ==
  ASSUME NEW name \in CString, NEW value \in CString
  PROVE  /\ NewVariable(name, value) \in CString
         /\ Len(NewVariable(name, value)) = Len(name) + 1 + Len(value)
         /\ \A k \in 1 .. Len(name) : NewVariable(name, value)[k] = name[k]
         /\ NewVariable(name, value)[Len(name) + 1] = EQ
         /\ \A k \in 1 .. Len(value) :
              NewVariable(name, value)[Len(name) + 1 + k] = value[k]
<1> USE CharAssumption DEF CString
<1>1. <<EQ>> \in Seq(Char) /\ Len(<<EQ>>) = 1 /\ <<EQ>>[1] = EQ
  OBVIOUS
<1> DEFINE head == name \o <<EQ>>
<1>2. /\ head \in Seq(Char)
      /\ Len(head) = Len(name) + 1
      /\ \A k \in 1 .. Len(name) : head[k] = name[k]
      /\ head[Len(name) + 1] = EQ
  BY <1>1, ConcatProperties, LenProperties
<1>3. /\ head \o value \in Seq(Char)
      /\ Len(head \o value) = Len(head) + Len(value)
      /\ \A k \in 1 .. Len(head) + Len(value) :
           (head \o value)[k] = IF k <= Len(head) THEN head[k]
                                                  ELSE value[k - Len(head)]
  <2> HIDE DEF head
  <2> QED BY <1>2, ConcatProperties
<1> QED
  <2> HIDE DEF head
  <2> QED BY <1>2, <1>3, LenProperties DEF NewVariable, head

(* A prefix is compared character by character, as strncmp does.           *)
LEMMA PrefixChars ==
  ASSUME NEW s \in CString, NEW t \in CString
  PROVE  IsPrefix(s, t) <=> /\ Len(s) <= Len(t)
                            /\ \A k \in 1 .. Len(s) : s[k] = t[k]
<1>1. /\ Len(s) \in Nat /\ Len(t) \in Nat
      /\ \A k \in 1 .. Len(s) : s[k] \in Char
      /\ \A k \in 1 .. Len(t) : t[k] \in Char
  BY LenProperties, ElementOfSeq DEF CString
<1>2. ASSUME Len(s) <= Len(t)
      PROVE  SubSeq(s, 1, Len(s)) = SubSeq(t, 1, Len(s))
               <=> \A k \in 1 .. Len(s) : s[k] = t[k]
  <2> DEFINE front == SubSeq(s, 1, Len(s))
             other == SubSeq(t, 1, Len(s))
  <2>1. /\ front \in Seq(Char)
        /\ Len(front) = Len(s)
        /\ \A k \in 1 .. Len(s) : front[k] = s[k]
    BY <1>1, SubSeqProperties
  <2>2. /\ other \in Seq(Char)
        /\ Len(other) = Len(s)
        /\ \A k \in 1 .. Len(s) : other[k] = t[k]
    BY <1>1, <1>2, SubSeqProperties
  <2> HIDE DEF front, other
  <2>3. front = other <=> \A k \in 1 .. Len(s) : s[k] = t[k]
    BY <2>1, <2>2, SeqEqual, <1>1
  <2> QED BY <2>3 DEF front, other
<1> QED BY <1>2 DEF IsPrefix

(* The string "name=" and its characters.                                  *)
LEMMA NameEqFacts ==
  ASSUME NEW name \in CString
  PROVE  /\ name \o <<EQ>> \in CString
         /\ Len(name) \in Nat
         /\ Len(name \o <<EQ>>) = Len(name) + 1
         /\ \A k \in 1 .. Len(name) : (name \o <<EQ>>)[k] = name[k]
         /\ (name \o <<EQ>>)[Len(name) + 1] = EQ
<1> USE CharAssumption DEF CString
<1>1. <<EQ>> \in Seq(Char) /\ Len(<<EQ>>) = 1 /\ <<EQ>>[1] = EQ
  OBVIOUS
<1> QED BY <1>1, ConcatProperties, LenProperties

(* VMLGetEnv and VMLUnsetEnv (name compared, then '=' looked for) and      *)
(* VMLSetEnv (name and '=' compared together) agree on every entry.        *)
THEOREM MatchersAgree ==
  ASSUME NEW e \in CString, NEW name \in CString
  PROVE  NameThenEq(e, name) <=> SameVariable(e, name)
<1> DEFINE key == name \o <<EQ>>
<1>1. /\ key \in CString /\ Len(name) \in Nat
      /\ Len(key) = Len(name) + 1
      /\ \A k \in 1 .. Len(name) : key[k] = name[k]
      /\ key[Len(name) + 1] = EQ
  BY NameEqFacts
<1> HIDE DEF key
<1>2. Len(e) \in Nat
  BY LenProperties DEF CString
<1>3. SameVariable(e, name) <=> /\ Len(key) <= Len(e)
                                /\ \A k \in 1 .. Len(key) : key[k] = e[k]
  BY <1>1, PrefixChars DEF SameVariable, key
<1>4. NameThenEq(e, name) <=> /\ Len(name) <= Len(e)
                              /\ \A k \in 1 .. Len(name) : name[k] = e[k]
                              /\ Len(e) > Len(name)
                              /\ e[Len(name) + 1] = EQ
  BY PrefixChars DEF NameThenEq
<1>5. ASSUME SameVariable(e, name)
      PROVE  NameThenEq(e, name)
  BY <1>1, <1>2, <1>3, <1>4, <1>5
<1>6. ASSUME NameThenEq(e, name)
      PROVE  SameVariable(e, name)
  <2>1. Len(key) <= Len(e)
    BY <1>1, <1>2, <1>4, <1>6
  <2>2. ASSUME NEW k \in 1 .. Len(key)
        PROVE  key[k] = e[k]
    <3>1. CASE k \in 1 .. Len(name)
      BY <3>1, <1>1, <1>4, <1>6
    <3>2. CASE k = Len(name) + 1
      BY <3>2, <1>1, <1>4, <1>6
    <3> QED BY <3>1, <3>2, <2>2, <1>1
  <2> QED BY <2>1, <2>2, <1>3
<1> QED BY <1>5, <1>6

(* An entry written for one name is an entry of no other name, whatever    *)
(* its value: VMLSetEnv's test for '=' in names is what makes this true.   *)
THEOREM OneVariablePerEntry ==
  ASSUME NEW name \in CString, NEW other \in CString, NEW value \in CString,
         ValidName(name), ValidName(other)
  PROVE  SameVariable(NewVariable(other, value), name) <=> name = other
<1> DEFINE e == NewVariable(other, value)
           key == name \o <<EQ>>
<1>1. /\ e \in CString
      /\ Len(e) = Len(other) + 1 + Len(value)
      /\ \A k \in 1 .. Len(other) : e[k] = other[k]
      /\ e[Len(other) + 1] = EQ
  BY NewVariableFacts
<1>2. /\ key \in CString
      /\ Len(key) = Len(name) + 1
      /\ \A k \in 1 .. Len(name) : key[k] = name[k]
      /\ key[Len(name) + 1] = EQ
  BY NameEqFacts
<1> HIDE DEF e, key
<1>3. Len(name) \in Nat /\ Len(other) \in Nat /\ Len(value) \in Nat
  BY LenProperties DEF CString
<1>4. SameVariable(e, name) <=> /\ Len(key) <= Len(e)
                                /\ \A k \in 1 .. Len(key) : key[k] = e[k]
  BY <1>1, <1>2, PrefixChars DEF SameVariable, key
<1>5. /\ \A k \in 1 .. Len(name) : name[k] # EQ
      /\ \A k \in 1 .. Len(other) : other[k] # EQ
  BY DEF ValidName, Contains
<1>6. ASSUME SameVariable(e, name)
      PROVE  name = other
  <2>1. \A k \in 1 .. Len(name) + 1 : key[k] = e[k]
    BY <1>2, <1>4, <1>6
  <2>2. ~ (Len(name) < Len(other))
    <3> SUFFICES ASSUME Len(name) < Len(other) PROVE FALSE
      OBVIOUS
    <3>1. Len(name) + 1 \in 1 .. Len(other)
      BY <1>3
    <3>2. e[Len(name) + 1] = EQ
      BY <2>1, <1>2, <1>3
    <3> QED BY <3>1, <3>2, <1>1, <1>5
  <2>3. ~ (Len(other) < Len(name))
    <3> SUFFICES ASSUME Len(other) < Len(name) PROVE FALSE
      OBVIOUS
    <3>1. Len(other) + 1 \in 1 .. Len(name)
      BY <1>3
    <3>2. name[Len(other) + 1] = EQ
      BY <3>1, <2>1, <1>1, <1>2, <1>3
    <3> QED BY <3>1, <3>2, <1>5
  <2>4. Len(name) = Len(other)
    BY <2>2, <2>3, <1>3
  <2>5. \A k \in 1 .. Len(name) : name[k] = other[k]
    BY <2>1, <2>4, <1>1, <1>2, <1>3
  <2> QED BY <2>4, <2>5, SeqEqual DEF CString
<1>7. ASSUME name = other
      PROVE  SameVariable(e, name)
  <2>1. Len(key) <= Len(e)
    BY <1>1, <1>2, <1>3, <1>7
  <2>2. ASSUME NEW k \in 1 .. Len(key)
        PROVE  key[k] = e[k]
    <3>1. CASE k \in 1 .. Len(name)
      BY <3>1, <1>1, <1>2, <1>7
    <3>2. CASE k = Len(name) + 1
      BY <3>2, <1>1, <1>2, <1>7
    <3> QED BY <3>1, <3>2, <2>2, <1>2, <1>3
  <2> QED BY <2>1, <2>2, <1>4
<1> QED BY <1>6, <1>7 DEF e

(* What VMLGetEnv points to in an entry is the value VMLSetEnv was given.  *)
THEOREM ValueRoundTrip ==
  ASSUME NEW name \in CString, NEW value \in CString
  PROVE  ValueAfter(NewVariable(name, value), name) = value
<1> DEFINE e == NewVariable(name, value)
           tail == SubSeq(e, Len(name) + 2, Len(e))
<1>1. /\ e \in Seq(Char)
      /\ Len(e) = Len(name) + 1 + Len(value)
      /\ \A k \in 1 .. Len(value) : e[Len(name) + 1 + k] = value[k]
  BY NewVariableFacts DEF CString
<1> HIDE DEF e
<1>2. Len(name) \in Nat /\ Len(value) \in Nat
  BY LenProperties DEF CString
<1>3. \A i \in Len(name) + 2 .. Len(e) : e[i] \in Char
  BY <1>1, <1>2, ElementOfSeq
<1>4. /\ tail \in Seq(Char)
      /\ Len(tail) = IF Len(name) + 2 <= Len(e)
                       THEN Len(e) - (Len(name) + 2) + 1 ELSE 0
      /\ \A i \in 1 .. Len(e) - (Len(name) + 2) + 1 :
           tail[i] = e[Len(name) + 2 + i - 1]
  BY <1>1, <1>2, <1>3, SubSeqProperties
<1> HIDE DEF tail
<1>5. Len(tail) = Len(value)
  BY <1>1, <1>2, <1>4
<1>6. ASSUME NEW k \in 1 .. Len(value)
      PROVE  tail[k] = value[k]
  <2>1. tail[k] = e[Len(name) + 2 + k - 1]
    BY <1>1, <1>2, <1>4
  <2>2. Len(name) + 2 + k - 1 = Len(name) + 1 + k
    BY <1>2
  <2> QED BY <2>1, <2>2, <1>1
<1> QED BY <1>4, <1>5, <1>6, SeqEqual DEF ValueAfter, tail, e, CString

(* What VMLGetEnv points to is a string, in any entry of that name.        *)
LEMMA ValueIsString ==
  ASSUME NEW e \in CString, NEW name \in CString
  PROVE  ValueAfter(e, name) \in CString
<1>1. Len(name) \in Nat /\ Len(e) \in Nat
  BY LenProperties DEF CString
<1>2. \A i \in Len(name) + 2 .. Len(e) : e[i] \in Char
  BY <1>1, ElementOfSeq DEF CString
<1> QED BY <1>1, <1>2, SubSeqProperties DEF ValueAfter, CString

-----------------------------------------------------------------------------
(* The invariants of the table.  IInv is inductive; the other invariants   *)
(* follow from it.                                                         *)

(* A set of numbers that is not empty has a least member.                  *)
LEMMA LeastMember ==
  ASSUME NEW S \in SUBSET Nat, S # {}
  PROVE  Min(S) \in S
<1> DEFINE R == {ss \in Nat \X Nat : ss[1] < ss[2]}
<1>1. R = OpToRel(<, Nat)
  BY Zenon DEF OpToRel
<1>2. IsWellFoundedOn(R, Nat)
  BY <1>1, NatLessThanWellFounded, Zenon
<1>3. \A x, y \in Nat : y < x => <<y, x>> \in R
  BY SMT
<1> HIDE DEF R
<1>4. PICK x \in S : \A y \in S : ~ (<<y, x>> \in R)
  BY <1>2, WFMin, Zenon
<1>5. \A y \in S : x <= y
  <2>1. S \subseteq Nat
    OBVIOUS
  <2>2. \A y \in S : ~ (y < x)
    BY <2>1, <1>3, <1>4, Zenon
  <2> QED BY <2>1, <2>2
<1> QED BY <1>4, <1>5 DEF Min

(* A sequence without its i-th element: what the shift loop of VMLUnsetEnv *)
(* leaves of the array.                                                    *)
LEMMA RemoveAtProperties ==
  ASSUME NEW S, NEW s \in Seq(S), NEW i \in 1 .. Len(s)
  PROVE  /\ RemoveAt(s, i) \in Seq(S)
         /\ Len(RemoveAt(s, i)) = Len(s) - 1
         /\ \A k \in 1 .. Len(s) - 1 :
              RemoveAt(s, i)[k] = IF k < i THEN s[k] ELSE s[k + 1]
<1> DEFINE front == SubSeq(s, 1, i - 1)
           back  == SubSeq(s, i + 1, Len(s))
<1>1. /\ Len(s) \in Nat
      /\ \A k \in 1 .. Len(s) : s[k] \in S
  BY LenProperties, ElementOfSeq
<1>2. /\ front \in Seq(S)
      /\ Len(front) = i - 1
      /\ \A k \in 1 .. i - 1 : front[k] = s[k]
  BY <1>1, SubSeqProperties
<1>3. /\ back \in Seq(S)
      /\ Len(back) = Len(s) - i
      /\ \A k \in 1 .. Len(s) - i : back[k] = s[i + k]
  <2>1. /\ back \in Seq(S)
        /\ Len(back) = IF i + 1 <= Len(s) THEN Len(s) - (i + 1) + 1 ELSE 0
        /\ \A k \in 1 .. Len(s) - (i + 1) + 1 : back[k] = s[(i + 1) + k - 1]
    BY <1>1, SubSeqProperties
  <2> QED BY <2>1, <1>1
<1> HIDE DEF front, back
<1>4. /\ front \o back \in Seq(S)
      /\ Len(front \o back) = Len(front) + Len(back)
      /\ \A k \in 1 .. Len(front) + Len(back) :
           (front \o back)[k] = IF k <= Len(front) THEN front[k]
                                ELSE back[k - Len(front)]
  BY <1>2, <1>3, ConcatProperties
<1>5. ASSUME NEW k \in 1 .. Len(s) - 1
      PROVE  (front \o back)[k] = IF k < i THEN s[k] ELSE s[k + 1]
  <2>1. CASE k < i
    BY <2>1, <1>1, <1>2, <1>3, <1>4
  <2>2. CASE ~ (k < i)
    <3>1. /\ k - (i - 1) \in 1 .. Len(s) - i
          /\ i + (k - (i - 1)) = k + 1
      BY <2>2, <1>1
    <3>2. (front \o back)[k] = back[k - (i - 1)]
      BY <2>2, <1>1, <1>2, <1>3, <1>4
    <3> QED BY <2>2, <3>1, <3>2, <1>3
  <2> QED BY <2>1, <2>2
<1>6. Len(front \o back) = Len(s) - 1
  BY <1>1, <1>2, <1>3, <1>4
<1>7. RemoveAt(s, i) = front \o back
  BY DEF RemoveAt, front, back
<1> QED BY <1>4, <1>5, <1>6, <1>7, Zenon

(* The names and values that reach the table are strings.                  *)
LEMMA ArgumentFacts ==
  /\ \A name \in Names : name \in NameArgs /\ name \in CString /\ ValidName(name)
  /\ \A value \in Values : value \in CString
  /\ \A name \in NameArgs : name \in CString \cup {NULL}
  /\ \A value \in ValueArgs : value \in CString \cup {NULL}
  /\ \A name \in NameArgs : ValidName(name) => name \in Names
  /\ \A value \in ValueArgs : value # NULL => value \in Values
  /\ NULL \notin CString
BY ArgsAssumption, NullAssumption DEF Names, Values, ValidName, CString

-----------------------------------------------------------------------------
(* The array, the heap and the scans, in a state that satisfies IInv.      *)

(* The entries of the table are allocated blocks that hold strings.        *)
LEMMA TableFacts ==
  ASSUME IInv
  PROVE  /\ Len(VML_env) \in Nat
         /\ DOMAIN VML_env = 1 .. Len(VML_env)
         /\ \A i \in 1 .. Len(VML_env) :
              /\ VML_env[i] \in Addr
              /\ heap[VML_env[i]] \in CString
              /\ heap[VML_env[i]] # Free
<1>1. /\ Len(VML_env) \in Nat
      /\ DOMAIN VML_env = 1 .. Len(VML_env)
      /\ \A i \in 1 .. Len(VML_env) : VML_env[i] \in Addr
  BY LenProperties, ElementOfSeq DEF IInv, TypeOK
<1>2. \A a \in Addr : heap[a] \in CString \cup {Free}
  BY DEF IInv, TypeOK
<1> QED BY <1>1, <1>2, FreeAssumption DEF IInv, HeapIsTable

(* The two scans stop at the same entry, the first that matches, and reach *)
(* the closing null pointer only when none does.                           *)
LEMMA FindFacts ==
  ASSUME IInv, NEW name \in Names
  PROVE  /\ FindByVariable(name) = FindByName(name)
         /\ FindByName(name) \in 0 .. Len(VML_env)
         /\ FindByName(name) # 0 =>
              /\ NameThenEq(heap[VML_env[FindByName(name)]], name)
              /\ SameVariable(heap[VML_env[FindByName(name)]], name)
         /\ FindByName(name) = 0 =>
              \A i \in 1 .. Len(VML_env) :
                /\ ~ NameThenEq(heap[VML_env[i]], name)
                /\ ~ SameVariable(heap[VML_env[i]], name)
<1> DEFINE Hits == {i \in 1 .. Len(VML_env) : NameThenEq(heap[VML_env[i]], name)}
           Same == {i \in 1 .. Len(VML_env) : SameVariable(heap[VML_env[i]], name)}
<1>1. \A i \in 1 .. Len(VML_env) :
        NameThenEq(heap[VML_env[i]], name) <=> SameVariable(heap[VML_env[i]], name)
  BY TableFacts, ArgumentFacts, MatchersAgree
<1>2. Hits = Same
  BY <1>1
<1>3. /\ FindByName(name) = IF slots = 0 THEN 0
                            ELSE IF Hits # {} THEN Min(Hits) ELSE 0
      /\ FindByVariable(name) = IF slots = 0 THEN 0
                                ELSE IF Same # {} THEN Min(Same) ELSE 0
  BY DEF FindByName, FindByVariable, SelectInSeq
<1>4. slots = 0 => Hits = {}
  <2> SUFFICES ASSUME slots = 0 PROVE Hits = {}
    OBVIOUS
  <2>1. Len(VML_env) = 0
    BY EmptySeq DEF IInv, ArrayClosed
  <2> QED BY <2>1
<1>5. FindByName(name) = IF Hits # {} THEN Min(Hits) ELSE 0
  BY <1>3, <1>4
<1>6. Hits # {} => Min(Hits) \in Hits
  <2>1. Hits \in SUBSET Nat
    BY TableFacts
  <2> HIDE DEF Hits
  <2> QED BY <2>1, LeastMember
<1>7. \A i \in Hits : /\ i \in 1 .. Len(VML_env)
                      /\ NameThenEq(heap[VML_env[i]], name)
                      /\ SameVariable(heap[VML_env[i]], name)
  BY <1>1
<1>8. \A i \in 1 .. Len(VML_env) :
        Hits = {} => /\ ~ NameThenEq(heap[VML_env[i]], name)
                     /\ ~ SameVariable(heap[VML_env[i]], name)
  BY <1>1
<1> HIDE DEF Hits, Same
<1>9. FindByVariable(name) = FindByName(name)
  BY <1>2, <1>3
<1>10. CASE Hits = {}
  BY <1>5, <1>8, <1>9, <1>10, TableFacts
<1>11. CASE Hits # {}
  <2>1. /\ FindByName(name) = Min(Hits)
        /\ Min(Hits) \in 1 .. Len(VML_env)
        /\ NameThenEq(heap[VML_env[Min(Hits)]], name)
        /\ SameVariable(heap[VML_env[Min(Hits)]], name)
    BY <1>5, <1>6, <1>7, <1>11
  <2>2. Min(Hits) # 0 /\ Min(Hits) \in 0 .. Len(VML_env)
    BY <2>1, TableFacts
  <2> QED BY <2>1, <2>2, <1>9
<1> QED BY <1>10, <1>11

(* One entry cannot be the entry of two names.                             *)
LEMMA EntryHasOneName ==
  ASSUME IInv, NEW i \in 1 .. Len(VML_env), NEW m \in Names, NEW n \in Names,
         NameThenEq(heap[VML_env[i]], m), NameThenEq(heap[VML_env[i]], n)
  PROVE  m = n
<1>1. PICK name \in Names, value \in Values :
        heap[VML_env[i]] = NewVariable(name, value)
  BY TableFacts DEF IInv, EntriesWellFormed
<1>2. NewVariable(name, value) \in CString
  BY ArgumentFacts, NewVariableFacts
<1>3. m = name
  BY <1>1, <1>2, ArgumentFacts, MatchersAgree, OneVariablePerEntry
<1>4. n = name
  BY <1>1, <1>2, ArgumentFacts, MatchersAgree, OneVariablePerEntry
<1> QED BY <1>3, <1>4

(* VMLGetEnv answers null exactly when its scan finds nothing.             *)
LEMMA GetResultFacts ==
  ASSUME IInv, NEW name \in NameArgs
  PROVE  /\ GetResult(name) \in CString \cup {NULL}
         /\ GetResult(name) = NULL <=>
              (~ ValidName(name) \/ FindByName(name) = 0)
<1>1. CASE ~ ValidName(name)
  BY <1>1 DEF GetResult
<1>2. CASE ValidName(name)
  <2>1. name \in Names
    BY <1>2, ArgumentFacts
  <2>2. CASE FindByName(name) = 0
    BY <1>2, <2>2 DEF GetResult
  <2>3. CASE FindByName(name) # 0
    <3>1. FindByName(name) \in 1 .. Len(VML_env)
      BY <2>1, <2>3, FindFacts, TableFacts
    <3>2. heap[VML_env[FindByName(name)]] \in CString
      BY <3>1, TableFacts
    <3>3. ValueAfter(heap[VML_env[FindByName(name)]], name) \in CString
      BY <3>2, <2>1, ArgumentFacts, ValueIsString
    <3> QED BY <1>2, <2>3, <3>3, ArgumentFacts DEF GetResult
  <2> QED BY <2>2, <2>3
<1> QED BY <1>1, <1>2

-----------------------------------------------------------------------------
(* What a call does to the table and what it leaves of it.                 *)

TableInv ==
  /\ VML_env \in Seq(Addr)
  /\ slots \in Nat
  /\ heap \in [Addr -> CString \cup {Free}]
  /\ HeapIsTable
  /\ ArrayClosed
  /\ EntriesWellFormed
  /\ OneEntryPerName

(* The entries that are not of this name stay where they are.              *)
KeepsOthers(name) ==
  \A i \in 1 .. Len(VML_env) :
    ~ NameThenEq(heap[VML_env[i]], name) =>
      /\ heap'[VML_env[i]] = heap[VML_env[i]]
      /\ \E k \in DOMAIN VML_env' : VML_env'[k] = VML_env[i]

(* No entry is new but those of this name.                                 *)
AddsOnly(name) ==
  \A k \in DOMAIN VML_env' :
    \/ NameThenEq(heap'[VML_env'[k]], name)
    \/ \E i \in 1 .. Len(VML_env) : heap'[VML_env'[k]] = heap[VML_env[i]]

HasEntry(name, value) ==
  \E i \in 1 .. Len(VML_env) : heap[VML_env[i]] = NewVariable(name, value)

HasNoEntry(name) ==
  \A i \in 1 .. Len(VML_env) : ~ NameThenEq(heap[VML_env[i]], name)

(* A variable replaced in place: the old entry goes, the others stay.      *)
LEMMA ReplaceStep ==
  ASSUME IInv, NEW name \in NameArgs, NEW value \in ValueArgs,
         NEW overwrite \in BOOLEAN, SetReplace(name, value, overwrite)
  PROVE  /\ TableInv'
         /\ KeepsOthers(name)
         /\ AddsOnly(name)
         /\ HasEntry(name, value)'
         /\ overwrite
<1> DEFINE i == FindByName(name)
           nv == NewVariable(name, value)
<1>1. name \in Names /\ value \in Values
  BY ArgumentFacts DEF SetReplace, SetAdmitted
<1>2. FindByVariable(name) = i
  BY <1>1, FindFacts
<1>3. /\ i \in 1 .. Len(VML_env)
      /\ NameThenEq(heap[VML_env[i]], name)
  BY <1>1, <1>2, FindFacts, TableFacts DEF SetReplace
<1>4. overwrite
  BY <1>1, <1>2, <1>3, GetResultFacts, ArgumentFacts, TableFacts
     DEF SetReplace, SetAdmitted
<1>5. nv \in CString /\ nv # Free
  BY <1>1, ArgumentFacts, NewVariableFacts, FreeAssumption
<1>6. PICK new \in Addr :
        /\ heap[new] = Free
        /\ heap' = [heap EXCEPT ![new] = nv, ![VML_env[i]] = Free]
        /\ VML_env' = [VML_env EXCEPT ![i] = new]
  BY <1>2 DEF SetReplace
<1>7. slots' = slots
  BY DEF SetReplace
<1> HIDE DEF i, nv
<1>8. /\ \A k \in 1 .. Len(VML_env) : VML_env[k] \in Addr /\ VML_env[k] # new
      /\ \A j, k \in 1 .. Len(VML_env) : VML_env[j] = VML_env[k] => j = k
  BY <1>6, TableFacts DEF IInv, HeapIsTable
<1>9. /\ VML_env' \in Seq(Addr)
      /\ Len(VML_env') = Len(VML_env)
      /\ DOMAIN VML_env' = 1 .. Len(VML_env)
      /\ \A k \in 1 .. Len(VML_env) :
           VML_env'[k] = IF k = i THEN new ELSE VML_env[k]
  <2>1. VML_env \in Seq(Addr)
    BY DEF IInv, TypeOK
  <2>2. /\ VML_env' \in Seq(Addr)
        /\ Len(VML_env') = Len(VML_env)
        /\ \A k \in 1 .. Len(VML_env) :
             VML_env'[k] = IF k = i THEN new ELSE VML_env[k]
    BY <1>3, <1>6, <2>1, ExceptSeq
  <2> QED BY <2>2, LenProperties
<1>10. /\ heap' \in [Addr -> CString \cup {Free}]
       /\ \A a \in Addr : heap'[a] = IF a = VML_env[i] THEN Free
                                      ELSE IF a = new THEN nv ELSE heap[a]
  BY <1>3, <1>5, <1>6, <1>8 DEF IInv, TypeOK
<1>11. \A k \in 1 .. Len(VML_env) :
         heap'[VML_env'[k]] = IF k = i THEN nv ELSE heap[VML_env[k]]
  BY <1>3, <1>8, <1>9, <1>10
<1>12. HeapIsTable'
  <2>1. \A j, k \in DOMAIN VML_env' : VML_env'[j] = VML_env'[k] => j = k
    BY <1>8, <1>9
  <2>2. ASSUME NEW a \in Addr
        PROVE  heap'[a] # Free <=> \E k \in DOMAIN VML_env' : VML_env'[k] = a
    <3>1. heap[a] # Free <=> \E k \in 1 .. Len(VML_env) : VML_env[k] = a
      BY TableFacts DEF IInv, HeapIsTable
    <3>2. CASE a = VML_env[i]
      BY <3>2, <1>3, <1>8, <1>9, <1>10
    <3>3. CASE a = new
      BY <3>3, <1>3, <1>5, <1>8, <1>9, <1>10
    <3>4. CASE a # new /\ a # VML_env[i]
      BY <3>1, <3>4, <1>3, <1>8, <1>9, <1>10
    <3> QED BY <3>2, <3>3, <3>4
  <2> QED BY <2>1, <2>2 DEF HeapIsTable
<1>13. ArrayClosed'
  <2>1. slots # 0
    BY <1>3, EmptySeq DEF IInv, ArrayClosed
  <2> QED BY <2>1, <1>7, <1>9 DEF IInv, ArrayClosed
<1>14. EntriesWellFormed'
  <2> SUFFICES ASSUME NEW k \in 1 .. Len(VML_env)
               PROVE  \E n \in Names, v \in Values :
                        heap'[VML_env'[k]] = NewVariable(n, v)
    BY <1>9 DEF EntriesWellFormed
  <2>1. CASE k = i
    BY <2>1, <1>1, <1>11 DEF nv
  <2>2. CASE k # i
    BY <2>2, <1>11, TableFacts DEF IInv, EntriesWellFormed
  <2> QED BY <2>1, <2>2
<1>15. OneEntryPerName'
  <2>1. ASSUME NEW m \in Names, NEW k \in 1 .. Len(VML_env)
        PROVE  /\ NameThenEq(heap'[VML_env'[k]], m) => NameThenEq(heap[VML_env[k]], m)
               /\ SameVariable(heap'[VML_env'[k]], m) => SameVariable(heap[VML_env[k]], m)
    <3>1. CASE k = i
      <4>1. (NameThenEq(nv, m) \/ SameVariable(nv, m)) => m = name
        BY <1>1, <1>5, ArgumentFacts, MatchersAgree, OneVariablePerEntry DEF nv
      <4>2. NameThenEq(heap[VML_env[i]], name) /\ SameVariable(heap[VML_env[i]], name)
        BY <1>1, <1>3, TableFacts, ArgumentFacts, MatchersAgree
      <4> QED BY <3>1, <4>1, <4>2, <1>11
    <3>2. CASE k # i
      BY <3>2, <1>11
    <3> QED BY <3>1, <3>2
  <2> QED BY <2>1, <1>9, TableFacts DEF IInv, OneEntryPerName
<1>16. KeepsOthers(name)
  <2> SUFFICES ASSUME NEW k \in 1 .. Len(VML_env),
                      ~ NameThenEq(heap[VML_env[k]], name)
               PROVE  /\ heap'[VML_env[k]] = heap[VML_env[k]]
                      /\ \E j \in DOMAIN VML_env' : VML_env'[j] = VML_env[k]
    BY DEF KeepsOthers
  <2>1. k # i
    BY <1>3
  <2> QED BY <2>1, <1>3, <1>8, <1>9, <1>10
<1>17. AddsOnly(name)
  <2>1. NameThenEq(nv, name)
    BY <1>1, <1>5, ArgumentFacts, MatchersAgree, OneVariablePerEntry DEF nv
  <2> QED BY <2>1, <1>9, <1>11 DEF AddsOnly
<1>18. HasEntry(name, value)'
  BY <1>3, <1>9, <1>11 DEF HasEntry, nv
<1> QED
  BY <1>4, <1>7, <1>9, <1>10, <1>12, <1>13, <1>14, <1>15, <1>16, <1>17, <1>18
     DEF TableInv, IInv, TypeOK

(* An added variable: nothing of the table moves, and the name was new.    *)
LEMMA AppendStep ==
  ASSUME IInv, NEW name \in NameArgs, NEW value \in ValueArgs,
         NEW overwrite \in BOOLEAN, SetAppend(name, value, overwrite)
  PROVE  /\ TableInv'
         /\ \A m \in NameArgs : KeepsOthers(m)
         /\ \A i \in 1 .. Len(VML_env) :
              /\ heap'[VML_env[i]] = heap[VML_env[i]]
              /\ \E k \in DOMAIN VML_env' : VML_env'[k] = VML_env[i]
         /\ AddsOnly(name)
         /\ HasEntry(name, value)'
<1> DEFINE nv == NewVariable(name, value)
           n == Len(VML_env)
<1>1. name \in Names /\ value \in Values
  BY ArgumentFacts DEF SetAppend, SetAdmitted
<1>2. \A k \in 1 .. n : ~ NameThenEq(heap[VML_env[k]], name)
  BY <1>1, FindFacts DEF SetAppend
<1>3. nv \in CString /\ nv # Free
  BY <1>1, ArgumentFacts, NewVariableFacts, FreeAssumption
<1>4. PICK new \in Addr : /\ heap[new] = Free
                          /\ heap' = [heap EXCEPT ![new] = nv]
                          /\ VML_env' = Append(VML_env, new)
  BY DEF SetAppend
<1>5. slots' = n + 2
  BY DEF SetAppend
<1> HIDE DEF nv
<1>6. /\ n \in Nat
      /\ \A k \in 1 .. n : VML_env[k] \in Addr /\ VML_env[k] # new
      /\ \A j, k \in 1 .. n : VML_env[j] = VML_env[k] => j = k
  BY <1>4, TableFacts DEF IInv, HeapIsTable
<1>7. /\ VML_env' \in Seq(Addr)
      /\ Len(VML_env') = n + 1
      /\ DOMAIN VML_env' = 1 .. n + 1
      /\ \A k \in 1 .. n : VML_env'[k] = VML_env[k]
      /\ VML_env'[n + 1] = new
  <2>1. VML_env \in Seq(Addr)
    BY DEF IInv, TypeOK
  <2>2. /\ VML_env' \in Seq(Addr)
        /\ Len(VML_env') = n + 1
        /\ \A k \in 1 .. n : VML_env'[k] = VML_env[k]
        /\ VML_env'[n + 1] = new
    BY <1>4, <2>1, AppendProperties
  <2> QED BY <2>2, LenProperties
<1>8. /\ heap' \in [Addr -> CString \cup {Free}]
      /\ \A a \in Addr : heap'[a] = IF a = new THEN nv ELSE heap[a]
  BY <1>3, <1>4 DEF IInv, TypeOK
<1>9. /\ \A k \in 1 .. n : heap'[VML_env'[k]] = heap[VML_env[k]]
      /\ heap'[VML_env'[n + 1]] = nv
  BY <1>6, <1>7, <1>8
<1>10. \A k \in 1 .. n + 1 : k \in 1 .. n \/ k = n + 1
  BY <1>6
<1>11. HeapIsTable'
  <2>1. \A j, k \in DOMAIN VML_env' : VML_env'[j] = VML_env'[k] => j = k
    BY <1>6, <1>7, <1>10
  <2>2. ASSUME NEW a \in Addr
        PROVE  heap'[a] # Free <=> \E k \in DOMAIN VML_env' : VML_env'[k] = a
    <3>1. heap[a] # Free <=> \E k \in 1 .. n : VML_env[k] = a
      BY TableFacts DEF IInv, HeapIsTable
    <3>2. CASE a = new
      BY <3>2, <1>3, <1>6, <1>7, <1>8
    <3>3. CASE a # new
      BY <3>1, <3>3, <1>6, <1>7, <1>8, <1>10
    <3> QED BY <3>2, <3>3
  <2> QED BY <2>1, <2>2 DEF HeapIsTable
<1>12. ArrayClosed'
  BY <1>5, <1>6, <1>7 DEF ArrayClosed
<1>13. EntriesWellFormed'
  <2> SUFFICES ASSUME NEW k \in 1 .. n + 1
               PROVE  \E m \in Names, v \in Values :
                        heap'[VML_env'[k]] = NewVariable(m, v)
    BY <1>7 DEF EntriesWellFormed
  <2>1. CASE k = n + 1
    BY <2>1, <1>1, <1>9 DEF nv
  <2>2. CASE k \in 1 .. n
    BY <2>2, <1>9, TableFacts DEF IInv, EntriesWellFormed
  <2> QED BY <2>1, <2>2, <1>10
<1>14. OneEntryPerName'
  <2> SUFFICES ASSUME NEW m \in Names, NEW j \in 1 .. n + 1, NEW k \in 1 .. n + 1,
                      NameThenEq(heap'[VML_env'[j]], m),
                      SameVariable(heap'[VML_env'[k]], m)
               PROVE  j = k
    BY <1>7 DEF OneEntryPerName
  <2>1. (NameThenEq(nv, m) \/ SameVariable(nv, m)) => m = name
    BY <1>1, <1>3, ArgumentFacts, MatchersAgree, OneVariablePerEntry DEF nv
  <2>2. \A l \in 1 .. n : ~ SameVariable(heap[VML_env[l]], name)
    BY <1>1, <1>2, TableFacts, ArgumentFacts, MatchersAgree
  <2>3. CASE j \in 1 .. n /\ k \in 1 .. n
    BY <2>3, <1>9, TableFacts DEF IInv, OneEntryPerName
  <2>4. CASE j = n + 1 /\ k \in 1 .. n
    BY <2>1, <2>2, <2>4, <1>9
  <2>5. CASE j \in 1 .. n /\ k = n + 1
    BY <2>1, <2>5, <1>2, <1>9
  <2> QED BY <2>3, <2>4, <2>5, <1>10
<1>15. ASSUME NEW k \in 1 .. n
       PROVE  /\ heap'[VML_env[k]] = heap[VML_env[k]]
              /\ \E j \in DOMAIN VML_env' : VML_env'[j] = VML_env[k]
  BY <1>6, <1>7, <1>8
<1>16. AddsOnly(name)
  <2>1. NameThenEq(nv, name)
    BY <1>1, <1>3, ArgumentFacts, MatchersAgree, OneVariablePerEntry DEF nv
  <2>2. ASSUME NEW k \in 1 .. n
        PROVE  \E i \in 1 .. n : heap'[VML_env'[k]] = heap[VML_env[i]]
    BY <1>9
  <2> QED BY <2>1, <2>2, <1>7, <1>9, <1>10 DEF AddsOnly
<1>17. HasEntry(name, value)'
  BY <1>6, <1>7, <1>9 DEF HasEntry, nv
<1> QED
  BY <1>5, <1>6, <1>7, <1>8, <1>11, <1>12, <1>13, <1>14, <1>15, <1>16, <1>17
     DEF TableInv, KeepsOthers

(* A removed variable: the later entries move one place down.              *)
LEMMA UnsetStep ==
  ASSUME IInv, NEW name \in NameArgs, UnsetFound(name)
  PROVE  TableInv' /\ KeepsOthers(name) /\ AddsOnly(name) /\ HasNoEntry(name)'
<1> DEFINE i == FindByName(name)
           n == Len(VML_env)
           old(k) == IF k < i THEN k ELSE k + 1
<1>1. name \in Names
  BY ArgumentFacts DEF UnsetFound
<1>2. /\ i \in 1 .. n
      /\ NameThenEq(heap[VML_env[i]], name)
  BY <1>1, FindFacts, TableFacts DEF UnsetFound
<1>3. /\ heap' = [heap EXCEPT ![VML_env[i]] = Free]
      /\ VML_env' = RemoveAt(VML_env, i)
      /\ slots' = slots
  BY DEF UnsetFound
<1> HIDE DEF i
<1>4. /\ n \in Nat
      /\ \A k \in 1 .. n : VML_env[k] \in Addr
      /\ \A j, k \in 1 .. n : VML_env[j] = VML_env[k] => j = k
  BY TableFacts DEF IInv, HeapIsTable
<1>5. /\ VML_env' \in Seq(Addr)
      /\ Len(VML_env') = n - 1
      /\ DOMAIN VML_env' = 1 .. n - 1
      /\ \A k \in 1 .. n - 1 : VML_env'[k] = VML_env[old(k)]
  <2>1. VML_env \in Seq(Addr)
    BY DEF IInv, TypeOK
  <2>2. /\ VML_env' \in Seq(Addr)
        /\ Len(VML_env') = n - 1
        /\ \A k \in 1 .. n - 1 :
             VML_env'[k] = IF k < i THEN VML_env[k] ELSE VML_env[k + 1]
    BY <1>2, <1>3, <2>1, RemoveAtProperties
  <2> QED BY <2>2, LenProperties
<1>6. /\ \A k \in 1 .. n - 1 : old(k) \in 1 .. n /\ old(k) # i
      /\ \A j, k \in 1 .. n - 1 : old(j) = old(k) => j = k
  BY <1>2, <1>4
<1>7. \A l \in 1 .. n : l # i => \E k \in 1 .. n - 1 : l = old(k)
  <2> SUFFICES ASSUME NEW l \in 1 .. n, l # i
               PROVE  \E k \in 1 .. n - 1 : l = old(k)
    OBVIOUS
  <2>1. CASE l < i
    BY <2>1, <1>2, <1>4
  <2>2. CASE l > i
    <3>1. l - 1 \in 1 .. n - 1 /\ l = old(l - 1)
      BY <2>2, <1>2, <1>4
    <3> QED BY <3>1
  <2> QED BY <2>1, <2>2, <1>2, <1>4
<1> HIDE DEF old
<1>8. /\ heap' \in [Addr -> CString \cup {Free}]
      /\ \A a \in Addr : heap'[a] = IF a = VML_env[i] THEN Free ELSE heap[a]
  BY <1>3 DEF IInv, TypeOK
<1>9. \A k \in 1 .. n - 1 : heap'[VML_env'[k]] = heap[VML_env[old(k)]]
  BY <1>2, <1>4, <1>5, <1>6, <1>8
<1>10. HeapIsTable'
  <2>1. \A j, k \in DOMAIN VML_env' : VML_env'[j] = VML_env'[k] => j = k
    BY <1>4, <1>5, <1>6
  <2>2. ASSUME NEW a \in Addr
        PROVE  heap'[a] # Free <=> \E k \in DOMAIN VML_env' : VML_env'[k] = a
    <3>1. heap[a] # Free <=> \E k \in 1 .. n : VML_env[k] = a
      BY TableFacts DEF IInv, HeapIsTable
    <3>2. CASE a = VML_env[i]
      BY <3>2, <1>2, <1>4, <1>5, <1>6, <1>8
    <3>3. CASE a # VML_env[i]
      <4>1. heap'[a] = heap[a]
        BY <3>3, <1>8
      <4>2. (\E k \in DOMAIN VML_env' : VML_env'[k] = a)
              => \E k \in 1 .. n : VML_env[k] = a
        BY <1>5, <1>6
      <4>3. ASSUME NEW l \in 1 .. n, VML_env[l] = a
            PROVE  \E k \in DOMAIN VML_env' : VML_env'[k] = a
        BY <3>3, <4>3, <1>5, <1>7
      <4> QED BY <3>1, <4>1, <4>2, <4>3
    <3> QED BY <3>2, <3>3
  <2> QED BY <2>1, <2>2 DEF HeapIsTable
<1>11. ArrayClosed'
  <2>1. slots # 0 /\ slots \in Nat
    BY <1>2, EmptySeq DEF IInv, ArrayClosed, TypeOK
  <2> QED BY <2>1, <1>3, <1>4, <1>5 DEF IInv, ArrayClosed
<1>12. EntriesWellFormed'
  <2> SUFFICES ASSUME NEW k \in 1 .. n - 1
               PROVE  \E m \in Names, v \in Values :
                        heap'[VML_env'[k]] = NewVariable(m, v)
    BY <1>5 DEF EntriesWellFormed
  <2> QED BY <1>6, <1>9, TableFacts DEF IInv, EntriesWellFormed
<1>13. OneEntryPerName'
  <2> SUFFICES ASSUME NEW m \in Names, NEW j \in 1 .. n - 1, NEW k \in 1 .. n - 1,
                      NameThenEq(heap'[VML_env'[j]], m),
                      SameVariable(heap'[VML_env'[k]], m)
               PROVE  j = k
    BY <1>5 DEF OneEntryPerName
  <2>1. old(j) = old(k)
    BY <1>6, <1>9, TableFacts DEF IInv, OneEntryPerName
  <2> QED BY <2>1, <1>6
<1>14. KeepsOthers(name)
  <2> SUFFICES ASSUME NEW l \in 1 .. n, ~ NameThenEq(heap[VML_env[l]], name)
               PROVE  /\ heap'[VML_env[l]] = heap[VML_env[l]]
                      /\ \E k \in DOMAIN VML_env' : VML_env'[k] = VML_env[l]
    BY DEF KeepsOthers
  <2>1. l # i
    BY <1>2
  <2>2. heap'[VML_env[l]] = heap[VML_env[l]]
    BY <2>1, <1>2, <1>4, <1>8
  <2>3. PICK k \in 1 .. n - 1 : l = old(k)
    BY <2>1, <1>7
  <2>4. k \in DOMAIN VML_env' /\ VML_env'[k] = VML_env[l]
    BY <2>3, <1>5
  <2> QED BY <2>2, <2>4
<1>15. AddsOnly(name)
  BY <1>5, <1>6, <1>9 DEF AddsOnly
<1>16. HasNoEntry(name)'
  <2> SUFFICES ASSUME NEW k \in 1 .. n - 1, NameThenEq(heap'[VML_env'[k]], name)
               PROVE  FALSE
    BY <1>5 DEF HasNoEntry
  <2>1. /\ old(k) \in 1 .. n /\ old(k) # i
        /\ NameThenEq(heap[VML_env[old(k)]], name)
    BY <1>6, <1>9
  <2>2. SameVariable(heap[VML_env[i]], name)
    BY <1>1, <1>2, TableFacts, ArgumentFacts, MatchersAgree
  <2> QED BY <2>1, <2>2, <1>1, <1>2, TableFacts DEF IInv, OneEntryPerName
<1> QED
  BY <1>3, <1>5, <1>8, <1>10, <1>11, <1>12, <1>13, <1>14, <1>15, <1>16
     DEF TableInv, IInv, TypeOK

-----------------------------------------------------------------------------
(* The pointers callers hold.                                              *)

(* Every entry stays in the table, at its address and with its text.       *)
KeepsAll ==
  \A i \in 1 .. Len(VML_env) :
    /\ heap'[VML_env[i]] = heap[VML_env[i]]
    /\ \E k \in DOMAIN VML_env' : VML_env'[k] = VML_env[i]

(* When every entry stays, so does every pointer.                          *)
LEMMA HeldKept ==
  ASSUME IInv, KeepsAll, UNCHANGED held
  PROVE  HeldInTable'
<1> SUFFICES ASSUME NEW m \in NameArgs, held[m] # NoPointer
             PROVE  /\ m \in Names
                    /\ NameThenEq(held[m].text, m)
                    /\ heap'[held[m].at] = held[m].text
                    /\ \E k \in DOMAIN VML_env' : VML_env'[k] = held[m].at
  BY DEF HeldInTable
<1>1. /\ m \in Names
      /\ NameThenEq(held[m].text, m)
      /\ heap[held[m].at] = held[m].text
  BY DEF IInv, HeldInTable
<1>2. PICK i \in 1 .. Len(VML_env) : VML_env[i] = held[m].at
  BY TableFacts DEF IInv, HeldInTable
<1> QED BY <1>1, <1>2 DEF KeepsAll

(* A caller that drops its pointer to one variable can only have others    *)
(* left, and those are the ones the call kept.                             *)
LEMMA HeldDropped ==
  ASSUME IInv, NEW name \in NameArgs, name \in Names \/ KeepsAll,
         KeepsOthers(name), Drop(name)
  PROVE  HeldInTable'
<1>1. held' = [held EXCEPT ![name] = NoPointer]
  BY DEF Drop
<1> SUFFICES ASSUME NEW m \in NameArgs, held'[m] # NoPointer
             PROVE  /\ m \in Names
                    /\ NameThenEq(held'[m].text, m)
                    /\ heap'[held'[m].at] = held'[m].text
                    /\ \E k \in DOMAIN VML_env' : VML_env'[k] = held'[m].at
  BY DEF HeldInTable
<1>2. m # name /\ held'[m] = held[m]
  BY <1>1 DEF IInv, TypeOK
<1>3. /\ m \in Names
      /\ NameThenEq(held[m].text, m)
      /\ heap[held[m].at] = held[m].text
  BY <1>2 DEF IInv, HeldInTable
<1>4. PICK i \in 1 .. Len(VML_env) : VML_env[i] = held[m].at
  BY <1>2, TableFacts DEF IInv, HeldInTable
<1>5. /\ heap'[VML_env[i]] = heap[VML_env[i]]
      /\ \E k \in DOMAIN VML_env' : VML_env'[k] = VML_env[i]
  <2>1. CASE KeepsAll
    BY <2>1 DEF KeepsAll
  <2>2. CASE name \in Names
    <3>1. NameThenEq(heap[VML_env[i]], m)
      BY <1>3, <1>4
    <3>2. ~ NameThenEq(heap[VML_env[i]], name)
      BY <3>1, <2>2, <1>2, <1>3, EntryHasOneName
    <3> QED BY <3>2 DEF KeepsOthers
  <2> QED BY <2>1, <2>2
<1> QED BY <1>2, <1>3, <1>4, <1>5

-----------------------------------------------------------------------------
(* The steps of Next.                                                      *)

(* A call that fails or only reads leaves the layout as it was.            *)
LEMMA UnchangedTable ==
  ASSUME IInv, UNCHANGED <<VML_env, slots, heap>>
  PROVE  /\ TableInv'
         /\ KeepsAll
         /\ \A name \in NameArgs : KeepsOthers(name)
<1>1. TableInv'
  BY DEF IInv, TypeOK, TableInv, HeapIsTable, ArrayClosed,
         EntriesWellFormed, OneEntryPerName
<1>2. KeepsAll
  BY TableFacts DEF KeepsAll
<1> QED BY <1>1, <1>2 DEF KeepsAll, KeepsOthers

(* What a call records of itself is well typed.                            *)
LEMMA AnswerInCalls ==
  ASSUME NEW op \in {"none", "get", "set", "unset"},
         NEW name \in CString \cup {NULL}, NEW value \in CString \cup {NULL},
         NEW overwrite \in BOOLEAN, NEW ret \in {0, -1},
         Answer(op, name, value, overwrite, ret)
  PROVE  call' \in Calls
BY DEF Answer, Calls

(* The empty environment satisfies the invariant.                          *)
LEMMA InitIInv == Init => IInv
<1> SUFFICES ASSUME Init PROVE IInv
  OBVIOUS
<1>1. VML_env = <<>> /\ Len(VML_env) = 0 /\ DOMAIN VML_env = {}
  BY DEF Init
<1>2. TypeOK
  BY <1>1, EmptySeq DEF Init, TypeOK, NoPointer, Pointers, NoCall, Calls
<1>3. HeapIsTable
  BY <1>1 DEF Init, HeapIsTable
<1>4. ArrayClosed
  BY DEF Init, ArrayClosed
<1>5. EntriesWellFormed /\ OneEntryPerName
  BY <1>1 DEF EntriesWellFormed, OneEntryPerName
<1>6. HeldInTable
  BY DEF Init, HeldInTable
<1> QED BY <1>2, <1>3, <1>4, <1>5, <1>6 DEF IInv

(* VMLGetEnv hands out a pointer to an entry of the name it was asked for. *)
LEMMA GetStep ==
  ASSUME IInv, NEW name \in NameArgs, VMLGetEnv(name)
  PROVE  IInv'
<1>1. /\ UNCHANGED <<VML_env, slots, heap>>
      /\ Answer("get", name, GetResult(name), FALSE, 0)
  BY DEF VMLGetEnv
<1>2. TableInv'
  BY <1>1, UnchangedTable
<1>3. call' \in Calls
  BY <1>1, AnswerInCalls, ArgumentFacts, GetResultFacts
<1> DEFINE a == VML_env[FindByName(name)]
           p == [at |-> a, text |-> heap[a]]
<1>4. held' = [held EXCEPT ![name] = IF GetResult(name) = NULL THEN NoPointer ELSE p]
  BY DEF VMLGetEnv
<1>5. GetResult(name) # NULL =>
        /\ name \in Names
        /\ FindByName(name) \in 1 .. Len(VML_env)
        /\ NameThenEq(heap[a], name)
        /\ a \in Addr /\ heap[a] \in CString
  BY GetResultFacts, ArgumentFacts, FindFacts, TableFacts
<1> HIDE DEF a
<1>6. held' \in [NameArgs -> Pointers]
  BY <1>4, <1>5 DEF IInv, TypeOK, NoPointer, Pointers
<1>7. HeldInTable'
  <2> SUFFICES ASSUME NEW m \in NameArgs, held'[m] # NoPointer
               PROVE  /\ m \in Names
                      /\ NameThenEq(held'[m].text, m)
                      /\ heap[held'[m].at] = held'[m].text
                      /\ \E k \in DOMAIN VML_env : VML_env[k] = held'[m].at
    BY <1>1 DEF HeldInTable
  <2>1. CASE m = name
    <3>1. held'[m] = p /\ GetResult(name) # NULL
      BY <2>1, <1>4 DEF IInv, TypeOK
    <3>2. p.at = a /\ p.text = heap[a]
      OBVIOUS
    <3>3. \E k \in DOMAIN VML_env : VML_env[k] = a
      BY <3>1, <1>5, TableFacts DEF a
    <3> QED BY <2>1, <3>1, <3>2, <3>3, <1>5
  <2>2. CASE m # name
    <3>1. held'[m] = held[m]
      BY <2>2, <1>4 DEF IInv, TypeOK
    <3> QED BY <3>1 DEF IInv, HeldInTable
  <2> QED BY <2>1, <2>2
<1> QED BY <1>2, <1>3, <1>6, <1>7 DEF TableInv, IInv, TypeOK

(* Both outcomes of VMLUnsetEnv keep the invariant.                        *)
LEMMA UnsetCallStep ==
  ASSUME IInv, NEW name \in NameArgs, VMLUnsetEnv(name)
  PROVE  IInv'
<1>1. Drop(name) /\ (UnsetFound(name) \/ UnsetNotFound(name))
  BY DEF VMLUnsetEnv
<1>2. /\ TableInv'
      /\ KeepsOthers(name)
      /\ name \in Names \/ KeepsAll
  <2>1. CASE UnsetFound(name)
    BY <2>1, UnsetStep, ArgumentFacts DEF UnsetFound
  <2>2. CASE UnsetNotFound(name)
    BY <2>2, UnchangedTable DEF UnsetNotFound, Unchanged
  <2> QED BY <1>1, <2>1, <2>2
<1>3. HeldInTable'
  BY <1>1, <1>2, HeldDropped
<1>4. held' \in [NameArgs -> Pointers]
  BY <1>1 DEF Drop, IInv, TypeOK, NoPointer, Pointers
<1>5. call' \in Calls
  BY <1>1, AnswerInCalls, ArgumentFacts DEF UnsetFound, UnsetNotFound
<1> QED BY <1>2, <1>3, <1>4, <1>5 DEF TableInv, IInv, TypeOK

(* Each of the six outcomes of VMLSetEnv keeps the invariant.              *)
LEMMA SetCallStep ==
  ASSUME IInv, NEW name \in NameArgs, NEW value \in ValueArgs,
         NEW overwrite \in BOOLEAN, VMLSetEnv(name, value, overwrite)
  PROVE  IInv'
<1>1. IF overwrite THEN Drop(name) ELSE UNCHANGED held
  BY DEF VMLSetEnv
<1>2. /\ TableInv'
      /\ KeepsOthers(name)
      /\ name \in Names \/ KeepsAll
      /\ overwrite \/ KeepsAll
  <2>1. CASE SetRejected(name, value, overwrite)
    BY <2>1, UnchangedTable DEF SetRejected, Unchanged
  <2>2. CASE SetSkipped(name, value, overwrite)
    BY <2>2, UnchangedTable DEF SetSkipped, Unchanged
  <2>3. CASE SetNoMemory(name, value, overwrite)
    BY <2>3, UnchangedTable DEF SetNoMemory, Unchanged
  <2>4. CASE SetReplace(name, value, overwrite)
    BY <2>4, ReplaceStep, ArgumentFacts DEF SetReplace, SetAdmitted
  <2>5. CASE SetAppend(name, value, overwrite)
    BY <2>5, AppendStep DEF KeepsAll
  <2>6. CASE SetAppendNoMemory(name, value, overwrite)
    <3>1. heap' = heap
      BY <2>6 DEF SetAppendNoMemory, IInv, TypeOK
    <3> QED BY <2>6, <3>1, UnchangedTable DEF SetAppendNoMemory
  <2> QED BY <2>1, <2>2, <2>3, <2>4, <2>5, <2>6 DEF VMLSetEnv
<1>3. HeldInTable'
  BY <1>1, <1>2, HeldDropped, HeldKept
<1>4. held' \in [NameArgs -> Pointers]
  BY <1>1 DEF Drop, IInv, TypeOK, NoPointer, Pointers
<1>5. call' \in Calls
  BY AnswerInCalls, ArgumentFacts
     DEF VMLSetEnv, SetRejected, SetSkipped, SetNoMemory, SetReplace,
         SetAppend, SetAppendNoMemory
<1> QED BY <1>2, <1>3, <1>4, <1>5 DEF TableInv, IInv, TypeOK

(* Every step keeps the invariant.                                         *)
LEMMA NextIInv == IInv /\ [Next]_vars => IInv'
<1> SUFFICES ASSUME IInv, [Next]_vars PROVE IInv'
  OBVIOUS
<1>1. ASSUME NEW name \in NameArgs, VMLGetEnv(name)
      PROVE  IInv'
  BY <1>1, GetStep
<1>2. ASSUME NEW name \in NameArgs, VMLUnsetEnv(name)
      PROVE  IInv'
  BY <1>2, UnsetCallStep
<1>3. ASSUME NEW name \in NameArgs, NEW value \in ValueArgs,
             NEW overwrite \in BOOLEAN, VMLSetEnv(name, value, overwrite)
      PROVE  IInv'
  BY <1>3, SetCallStep
<1>4. CASE UNCHANGED vars
  BY <1>4 DEF vars, IInv, TypeOK, HeapIsTable, ArrayClosed,
              EntriesWellFormed, OneEntryPerName, HeldInTable
<1> QED BY <1>1, <1>2, <1>3, <1>4 DEF Next

-----------------------------------------------------------------------------
(* The inductive invariant: the layout of the table, the single entry per  *)
(* name and the callers' pointers are kept together by every call.         *)
THEOREM TableInvariant == Spec => []IInv
<1>1. Init => IInv
  BY InitIInv
<1>2. IInv /\ [Next]_vars => IInv'
  BY NextIInv
<1> QED BY <1>1, <1>2, PTL DEF Spec

(* Every variable keeps its type, whatever the callers pass.               *)
THEOREM TypeCorrect == Spec => []TypeOK
<1>1. IInv => TypeOK
  BY DEF IInv
<1> QED BY <1>1, TableInvariant, PTL

(* No path of VMLSetEnv or VMLUnsetEnv leaks an entry, leaves a freed one  *)
(* in the table or stores a block twice.                                   *)
THEOREM NoLeakNoDangling == Spec => []HeapIsTable
<1>1. IInv => HeapIsTable
  BY DEF IInv
<1> QED BY <1>1, TableInvariant, PTL

(* The scanning loops always find the null pointer inside the array.       *)
THEOREM ArrayAlwaysClosed == Spec => []ArrayClosed
<1>1. IInv => ArrayClosed
  BY DEF IInv
<1> QED BY <1>1, TableInvariant, PTL

(* A variable has one entry, by either of the two comparisons of the code. *)
THEOREM NamesAreUnique == Spec => []OneEntryPerName
<1>1. IInv => OneEntryPerName
  BY DEF IInv
<1> QED BY <1>1, TableInvariant, PTL

(* A pointer from VMLGetEnv is good until its own variable is overwritten  *)
(* or removed by its holder.                                               *)
THEOREM PointersStayValid == Spec => []HeldPointersValid
<1>1. IInv => HeldPointersValid
  BY DEF IInv, HeldInTable, HeldPointersValid
<1> QED BY <1>1, TableInvariant, PTL

-----------------------------------------------------------------------------
(* The table implements the map: each call does to the values what the map *)
(* allows, whatever it does to the memory.                                 *)

(* VMLGetEnv answers the value of the entry of that name, wherever in the  *)
(* array it is, and null when there is none.                               *)
ResultsAreEntries ==
  \A m \in Names :
    /\ HasNoEntry(m) <=> GetResult(m) = NULL
    /\ \A i \in 1 .. Len(VML_env) :
         NameThenEq(heap[VML_env[i]], m) =>
           GetResult(m) = ValueAfter(heap[VML_env[i]], m)
    /\ \A value \in Values : HasEntry(m, value) => GetResult(m) = value

LEMMA Results == IInv => ResultsAreEntries
<1> SUFFICES ASSUME IInv, NEW m \in Names
             PROVE  /\ HasNoEntry(m) <=> GetResult(m) = NULL
                    /\ \A i \in 1 .. Len(VML_env) :
                         NameThenEq(heap[VML_env[i]], m) =>
                           GetResult(m) = ValueAfter(heap[VML_env[i]], m)
                    /\ \A value \in Values :
                         HasEntry(m, value) => GetResult(m) = value
  BY DEF ResultsAreEntries
<1>1. GetResult(m) = NULL <=> FindByName(m) = 0
  BY ArgumentFacts, GetResultFacts
<1>2. HasNoEntry(m) <=> FindByName(m) = 0
  BY FindFacts, TableFacts DEF HasNoEntry
<1>3. ASSUME NEW i \in 1 .. Len(VML_env), NameThenEq(heap[VML_env[i]], m)
      PROVE  GetResult(m) = ValueAfter(heap[VML_env[i]], m)
  <2>1. FindByName(m) \in 1 .. Len(VML_env)
    BY <1>2, <1>3, FindFacts, TableFacts DEF HasNoEntry
  <2>2. SameVariable(heap[VML_env[i]], m)
    BY <1>3, TableFacts, ArgumentFacts, MatchersAgree
  <2>3. FindByName(m) = i
    BY <2>1, <2>2, FindFacts, TableFacts DEF IInv, OneEntryPerName
  <2> QED BY <2>1, <2>3, ArgumentFacts, TableFacts DEF GetResult
<1>4. ASSUME NEW value \in Values, HasEntry(m, value)
      PROVE  GetResult(m) = value
  <2>1. PICK i \in 1 .. Len(VML_env) : heap[VML_env[i]] = NewVariable(m, value)
    BY <1>4 DEF HasEntry
  <2>2. NewVariable(m, value) \in CString
    BY ArgumentFacts, NewVariableFacts
  <2>3. NameThenEq(NewVariable(m, value), m)
    BY <2>2, ArgumentFacts, MatchersAgree, OneVariablePerEntry
  <2>4. GetResult(m) = ValueAfter(NewVariable(m, value), m)
    BY <2>1, <2>3, <1>3
  <2> QED BY <2>4, ArgumentFacts, ValueRoundTrip
<1> QED BY <1>1, <1>2, <1>3, <1>4

(* A call for one name leaves what VMLGetEnv answers for the others.       *)
LEMMA OtherResults ==
  ASSUME IInv, IInv', NEW name \in Names, NEW m \in Names, m # name,
         KeepsOthers(name), AddsOnly(name)
  PROVE  GetResult(m)' = GetResult(m)
<1>1. ResultsAreEntries /\ ResultsAreEntries'
  BY Results, PTL
<1>2. /\ Len(VML_env') \in Nat
      /\ DOMAIN VML_env' = 1 .. Len(VML_env')
  BY LenProperties DEF IInv, TypeOK
<1>3. CASE HasNoEntry(m)
  <2>1. HasNoEntry(m)'
    <3> SUFFICES ASSUME NEW k \in 1 .. Len(VML_env'),
                        NameThenEq(heap'[VML_env'[k]], m)
                 PROVE  FALSE
      BY DEF HasNoEntry
    <3>1. CASE NameThenEq(heap'[VML_env'[k]], name)
      <4>1. PICK n \in Names, v \in Values :
              heap'[VML_env'[k]] = NewVariable(n, v)
        BY <1>2 DEF IInv, EntriesWellFormed
      <4>2. NewVariable(n, v) \in CString
        BY ArgumentFacts, NewVariableFacts
      <4>3. m = n /\ name = n
        BY <3>1, <4>1, <4>2, ArgumentFacts, MatchersAgree, OneVariablePerEntry
      <4> QED BY <4>3
    <3>2. CASE \E i \in 1 .. Len(VML_env) :
                 heap'[VML_env'[k]] = heap[VML_env[i]]
      BY <3>2, <1>3 DEF HasNoEntry
    <3> QED BY <3>1, <3>2, <1>2 DEF AddsOnly
  <2> QED BY <2>1, <1>1, <1>3 DEF ResultsAreEntries
<1>4. CASE ~ HasNoEntry(m)
  <2>1. PICK i \in 1 .. Len(VML_env) : NameThenEq(heap[VML_env[i]], m)
    BY <1>4 DEF HasNoEntry
  <2>2. ~ NameThenEq(heap[VML_env[i]], name)
    BY <2>1, EntryHasOneName
  <2>3. PICK k \in 1 .. Len(VML_env') :
          /\ VML_env'[k] = VML_env[i]
          /\ heap'[VML_env[i]] = heap[VML_env[i]]
    BY <2>2, <1>2 DEF KeepsOthers
  <2>4. GetResult(m) = ValueAfter(heap[VML_env[i]], m)
    BY <2>1, <1>1 DEF ResultsAreEntries
  <2>5. GetResult(m)' = ValueAfter(heap'[VML_env'[k]], m)
    BY <2>1, <2>3, <1>1 DEF ResultsAreEntries
  <2> QED BY <2>3, <2>4, <2>5
<1> QED BY <1>3, <1>4

(* A call that leaves the table alone leaves every answer alone.           *)
LEMMA SameResults ==
  ASSUME UNCHANGED <<VML_env, slots, heap>>
  PROVE  \A m \in NameArgs : GetResult(m)' = GetResult(m)
BY DEF GetResult, FindByName, SelectInSeq

-----------------------------------------------------------------------------
(* The refinement mapping and each call under it.                          *)

env == [name \in Names |-> GetResult(name)]

(* The map and the table have the same usable names.                       *)
LEMMA SameNames == Map!Names = Names
BY DEF Names, Map!Names, ValidName, Map!ValidName, Contains, Map!Contains

(* The empty table is the empty map.                                       *)
LEMMA InitMap == Init => Map!Init
<1> SUFFICES ASSUME Init PROVE Map!Init
  OBVIOUS
<1>1. \A m \in Names : GetResult(m) = NULL
  BY DEF Init, GetResult, FindByName
<1> QED BY <1>1, SameNames DEF Init, NoCall, Map!Init, Map!NoCall

(* Reading changes no value and answers the map's.                         *)
LEMMA GetMap ==
  ASSUME NEW name \in NameArgs, VMLGetEnv(name)
  PROVE  Map!Get(name)
<1>1. env' = env
  BY SameResults DEF VMLGetEnv, env, Names
<1>2. GetResult(name) = IF name \in Names THEN env[name] ELSE NULL
  BY DEF env, Names, GetResult
<1> QED BY <1>1, <1>2, SameNames DEF VMLGetEnv, Answer, env, Map!Get, Map!Answer

(* A successful VMLSetEnv stores the value, or skips as the map does; one  *)
(* that fails changes no value.                                            *)
LEMMA SetMap ==
  ASSUME IInv, IInv', NEW name \in NameArgs, NEW value \in ValueArgs,
         NEW overwrite \in BOOLEAN, VMLSetEnv(name, value, overwrite)
  PROVE  Map!Set(name, value, overwrite) \/ Map!SetFails(name, value, overwrite)
<1>1. Names = Map!Names
  BY SameNames
<1>2. ASSUME Unchanged PROVE env' = env
  BY <1>2, SameResults DEF Unchanged, env, Names
<1>3. ASSUME name \in Names, value \in Values, HasEntry(name, value)',
             KeepsOthers(name), AddsOnly(name)
      PROVE  env' = [env EXCEPT ![name] = value]
  <2>1. GetResult(name)' = value
    <3>1. ResultsAreEntries'
      BY Results, PTL
    <3> QED BY <3>1, <1>3 DEF ResultsAreEntries
  <2>2. \A m \in Names : m # name => GetResult(m)' = GetResult(m)
    BY <1>3, OtherResults
  <2> QED BY <2>1, <2>2 DEF env, Names
<1>4. CASE SetRejected(name, value, overwrite)
  <2>1. Map!SetFails(name, value, overwrite)
    BY <1>1, <1>2, <1>4
       DEF SetRejected, Answer, Map!SetFails, Map!Answer, env, Names
  <2> QED BY <2>1
<1>5. CASE SetSkipped(name, value, overwrite)
  <2>1. name \in Names /\ env[name] # NULL
    BY <1>5 DEF SetSkipped, Names, env
  <2>2. Map!Set(name, value, overwrite)
    BY <2>1, <1>1, <1>2, <1>5
       DEF SetSkipped, Answer, Map!Set, Map!Answer, env
  <2> QED BY <2>2
<1>6. CASE SetNoMemory(name, value, overwrite)
  <2>1. Map!SetFails(name, value, overwrite)
    BY <1>1, <1>2, <1>6
       DEF SetNoMemory, SetAdmitted, Answer, Map!SetFails, Map!Answer, env, Names
  <2> QED BY <2>1
<1>7. ASSUME SetReplace(name, value, overwrite) \/ SetAppend(name, value, overwrite)
      PROVE  Map!Set(name, value, overwrite)
  <2>1. /\ name \in Names
        /\ value # NULL
        /\ overwrite \/ env[name] = NULL
        /\ Answer("set", name, value, overwrite, 0)
    BY <1>7 DEF SetReplace, SetAppend, SetAdmitted, Names, env
  <2>2. HasEntry(name, value)' /\ KeepsOthers(name) /\ AddsOnly(name)
    BY <1>7, ReplaceStep, AppendStep
  <2>3. env' = [env EXCEPT ![name] = value]
    BY <2>1, <2>2, <1>3 DEF Values
  <2> QED BY <2>1, <2>3, <1>1 DEF Answer, Map!Set, Map!Answer, env
<1>8. CASE SetAppendNoMemory(name, value, overwrite)
  <2>1. Unchanged
    BY <1>8 DEF SetAppendNoMemory, Unchanged, IInv, TypeOK
  <2>2. Map!SetFails(name, value, overwrite)
    BY <2>1, <1>1, <1>2, <1>8
       DEF SetAppendNoMemory, SetAdmitted, Answer, Map!SetFails, Map!Answer,
           env, Names
  <2> QED BY <2>2
<1> QED BY <1>4, <1>5, <1>6, <1>7, <1>8 DEF VMLSetEnv

(* VMLUnsetEnv removes that variable and no other, or changes nothing.     *)
LEMMA UnsetMap ==
  ASSUME IInv, IInv', NEW name \in NameArgs, VMLUnsetEnv(name)
  PROVE  Map!Unset(name) \/ Map!UnsetFails(name)
<1>1. Names = Map!Names
  BY SameNames
<1>2. CASE UnsetFound(name)
  <2>1. name \in Names /\ GetResult(name) # NULL
    BY <1>2, GetResultFacts DEF UnsetFound, Names
  <2>2. HasNoEntry(name)' /\ KeepsOthers(name) /\ AddsOnly(name)
    BY <1>2, UnsetStep
  <2>3. GetResult(name)' = NULL
    <3>1. ResultsAreEntries'
      BY Results, PTL
    <3> QED BY <3>1, <2>1, <2>2 DEF ResultsAreEntries
  <2>4. \A m \in Names : m # name => GetResult(m)' = GetResult(m)
    BY <2>1, <2>2, OtherResults
  <2>5. env' = [env EXCEPT ![name] = NULL]
    BY <2>1, <2>3, <2>4 DEF env, Names
  <2>6. Map!Unset(name)
    BY <2>1, <2>5, <1>1, <1>2 DEF UnsetFound, Answer, Map!Unset, Map!Answer, env
  <2> QED BY <2>6
<1>3. CASE UnsetNotFound(name)
  <2>1. env' = env
    BY <1>3, SameResults DEF UnsetNotFound, Unchanged, env, Names
  <2>2. Map!UnsetFails(name)
    BY <2>1, <1>1, <1>3
       DEF UnsetNotFound, Answer, Map!UnsetFails, Map!Answer, env
  <2> QED BY <2>2
<1> QED BY <1>2, <1>3 DEF VMLUnsetEnv

(* Every step of the table is a step of the map or changes nothing of it.  *)
LEMMA NextMap == IInv /\ IInv' /\ [Next]_vars => [Map!Next]_(Map!vars)
<1> SUFFICES ASSUME IInv, IInv', [Next]_vars
             PROVE  Map!Next \/ UNCHANGED Map!vars
  OBVIOUS
<1>1. ASSUME NEW name \in NameArgs, VMLGetEnv(name)
      PROVE  Map!Next
  BY <1>1, GetMap DEF Map!Next
<1>2. ASSUME NEW name \in NameArgs, VMLUnsetEnv(name)
      PROVE  Map!Next
  BY <1>2, UnsetMap DEF Map!Next
<1>3. ASSUME NEW name \in NameArgs, NEW value \in ValueArgs,
             NEW overwrite \in BOOLEAN, VMLSetEnv(name, value, overwrite)
      PROVE  Map!Next
  BY <1>3, SetMap DEF Map!Next
<1>4. CASE UNCHANGED vars
  BY <1>4, SameResults DEF vars, Map!vars, Names
<1> QED BY <1>1, <1>2, <1>3, <1>4 DEF Next

(* The table of pointers of environment.c implements the map of EnvMap.    *)
THEOREM TableImplementsMap == Spec => ImplementsMap
<1>1. Init => Map!Init
  BY InitMap
<1>2. IInv /\ IInv' /\ [Next]_vars => [Map!Next]_(Map!vars)
  BY NextMap
<1> QED BY <1>1, <1>2, TableInvariant, PTL DEF Spec, ImplementsMap, Map!Spec

=============================================================================
