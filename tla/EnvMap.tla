------------------------------- MODULE EnvMap -------------------------------
(***************************************************************************)
(* What the environment promises to its callers, whatever its layout in    *)
(* memory: a map from names to values and three calls on it.  A call that  *)
(* returns -1 leaves every variable as it was.                             *)
(***************************************************************************)
EXTENDS EnvStrings, Integers

CONSTANTS NameArgs,   \* the names callers pass
          ValueArgs   \* the values callers pass

VARIABLES env,    \* the value of each usable name, NULL when it is not set
          call    \* the last call and what it answered

Names == {name \in NameArgs : ValidName(name)}

NoCall == [op |-> "none", name |-> NULL, value |-> NULL,
           overwrite |-> FALSE, ret |-> 0]

Answer(op, name, value, overwrite, ret) ==
  call' = [op |-> op, name |-> name, value |-> value,
           overwrite |-> overwrite, ret |-> ret]

Init ==
  /\ env = [name \in Names |-> NULL]
  /\ call = NoCall

(* Reading a variable answers its value, and NULL for an unusable name.    *)
Get(name) ==
  /\ Answer("get", name, IF name \in Names THEN env[name] ELSE NULL, FALSE, 0)
  /\ UNCHANGED env

(* Setting a variable stores the value, unless the variable is there and   *)
(* the caller did not ask to overwrite it.                                 *)
Set(name, value, overwrite) ==
  /\ Answer("set", name, value, overwrite, 0)
  /\ name \in Names
  /\ value # NULL
  /\ env' = IF overwrite \/ env[name] = NULL
              THEN [env EXCEPT ![name] = value]
              ELSE env

(* A refused call, or one that found no memory.                            *)
SetFails(name, value, overwrite) ==
  /\ Answer("set", name, value, overwrite, -1)
  /\ \/ name \notin Names
     \/ value = NULL
     \/ overwrite
     \/ env[name] = NULL
  /\ UNCHANGED env

Unset(name) ==
  /\ Answer("unset", name, NULL, FALSE, 0)
  /\ name \in Names
  /\ env[name] # NULL
  /\ env' = [env EXCEPT ![name] = NULL]

UnsetFails(name) ==
  /\ Answer("unset", name, NULL, FALSE, -1)
  /\ name \in Names => env[name] = NULL
  /\ UNCHANGED env

Next ==
  \E name \in NameArgs :
    \/ Get(name)
    \/ Unset(name)
    \/ UnsetFails(name)
    \/ \E value \in ValueArgs, overwrite \in BOOLEAN :
         \/ Set(name, value, overwrite)
         \/ SetFails(name, value, overwrite)

vars == <<env, call>>

Spec == Init /\ [][Next]_vars

=============================================================================
