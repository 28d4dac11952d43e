--------------------------- MODULE MCNidSymbols ----------------------------
(* Instances of NidSymbols: every well-formed file over two NIDs and two   *)
(* symbols in a library with functions and variables, with archives that   *)
(* may name a NID twice.                                                   *)
EXTENDS NidSymbols, Naturals

CONSTANTS s1, s2, MaxEntries, MaxMembers

MCNid == {1, 2}
MCSymbol == {s1, s2}
MCSection == {"functions", "variables"}

Files ==
    {f \in [Section -> {d \in SUBSET Entry : Dictionary(d)}] :
        Cardinality(f["functions"]) + Cardinality(f["variables"]) <= MaxEntries}

Archives == {a \in SUBSET Member : Cardinality(a) <= MaxMembers}

MCInput == [file : Files, archive : Archives]
============================================================================
