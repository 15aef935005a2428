------------------------------- MODULE MCConsole -------------------------------
(***************************************************************************)
(* A queue of two and four typed characters, so that it fills up.          *)
(***************************************************************************)
EXTENDS Console
=============================================================================
