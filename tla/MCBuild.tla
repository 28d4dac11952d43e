------------------------------ MODULE MCBuild ------------------------------
(* The project as it is, with two commands that fail.                      *)
EXTENDS Build

MCMaxFailures == 2
============================================================================
