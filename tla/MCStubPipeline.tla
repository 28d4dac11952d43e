-------------------------- MODULE MCStubPipeline ---------------------------
(* Instances of StubPipeline: every export of two NIDs, every archive over *)
(* two NIDs and three symbols of which one is also a key clean-nids        *)
(* deletes.                                                                *)
EXTENDS StubPipeline

CONSTANTS s1, s2, kernel

MCNid == {1, 2}
MCSymbol == {s1, s2, kernel}
MCRemovable == {kernel}
MCExports == {{[name |-> Std(n), nid |-> n] : n \in N} : N \in SUBSET Nid}
MCArchives == UNION {[N -> Symbol] : N \in SUBSET Nid}
============================================================================
