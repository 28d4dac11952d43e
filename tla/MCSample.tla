------------------------------ MODULE MCSample ------------------------------
(* Both programs, with and without USE_CUSTOM_LIBC.  Neither C# program    *)
(* starts a thread, so there is no managed thread besides Main.            *)
EXTENDS Sample
=============================================================================
