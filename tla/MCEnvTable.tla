---------------------------- MODULE MCEnvTable ----------------------------
(* Instances of EnvTable: names that are prefixes of one another, an empty *)
(* one and one with '=' in it; values that are empty or begin with '='.    *)
EXTENDS EnvTable, TLC

MCChar == {"a", "b", "="}
MCNameArgs == {<<"a">>, <<"a", "b">>, <<"b">>, <<>>, <<"a", "=">>, NULL}
MCValueArgs == {<<>>, <<"=", "b">>, NULL}

Symmetry == Permutations(Addr)
===========================================================================
