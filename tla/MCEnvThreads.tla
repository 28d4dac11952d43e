---------------------------- MODULE MCEnvThreads ----------------------------
(* Two threads, two variables and two values: enough for a removal before  *)
(* another entry, a replaced value and a growing array under a reader.     *)
EXTENDS EnvThreads, TLC

Symmetry == Permutations(Thread) \cup Permutations(Name) \cup
            Permutations(Value) \cup Permutations(Addr) \cup Permutations(Array)

(* Past the first overlap SafeUnlessRaced, TableAtRest and ReadsCurrent    *)
(* promise nothing, so the runs that check them need not go on from there. *)
NoOverlapYet == ~ overlap

(* What the next steps depend on.  The run of CallsReturn, which goes on   *)
(* past overlaps, tells states apart by it: the history variables, the     *)
(* answers of calls and the count of buffers are read by no guard, and     *)
(* nothing follows a misuse.                                               *)
Memory ==
  LET Read(l) == <<l.op, l.name, l.value, l.i, l.ptr, l.new, l.block>>
  IN IF undefined THEN <<>>
     ELSE <<VML_env, array, heap, pc, [t \in Thread |-> Read(loc[t])]>>
=============================================================================
