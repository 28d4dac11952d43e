---------------------------- MODULE RuntimeLife ----------------------------
(***************************************************************************)
(* What VitaMonoLoader promises about managed code, whatever the order of  *)
(* the calls it makes into Mono: code runs only while the runtime is up,   *)
(* no thread of it starts once the runtime is closing, and the runtime is  *)
(* torn down only when none of it runs any more, and never comes back.     *)
(***************************************************************************)
CONSTANT Thread  \* everything that can run managed code

VARIABLES phase,    \* of the runtime
          running   \* the threads that run managed code now

Init ==
  /\ phase = "off"
  /\ running = {}

Boot == phase = "off" /\ phase' = "up" /\ UNCHANGED running

Start(t) ==
  /\ phase = "up"
  /\ t \notin running
  /\ running' = running \cup {t}
  /\ UNCHANGED phase

Stop(t) ==
  /\ t \in running
  /\ running' = running \ {t}
  /\ UNCHANGED phase

Close == phase = "up" /\ phase' = "closing" /\ UNCHANGED running

(* Every thread is stopped where it is.                                    *)
StopAll == phase = "closing" /\ running' = {} /\ UNCHANGED phase

TearDown ==
  /\ phase = "closing"
  /\ running = {}
  /\ phase' = "gone"
  /\ UNCHANGED running

Next ==
  \/ Boot
  \/ Close
  \/ StopAll
  \/ TearDown
  \/ \E t \in Thread : Start(t) \/ Stop(t)

vars == <<phase, running>>

Spec == Init /\ [][Next]_vars

=============================================================================
