------------------------------- MODULE MCHtif -------------------------------
(***************************************************************************)
(* Three commands, of which two reads can be told apart, and two           *)
(* characters.  A system call stands for the identity and disk commands,   *)
(* which are answered in the same way, and a write for unknown commands.   *)
(***************************************************************************)
EXTENDS Htif
CONSTANTS t, u
CommandSet ==
  [kind : {"read"}, arg : {t, u}]
    \cup [kind : {"syscall", "sys_exit", "exit", "write", "fault"}, arg : {t}]
=============================================================================
