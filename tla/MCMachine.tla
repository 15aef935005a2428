------------------------------ MODULE MCMachine ------------------------------
(***************************************************************************)
(* Two harts that compete for a location, that are interrupted between the *)
(* two halves of an atomic update, that drive each other's interrupts, and *)
(* that wait for the clock.                                                *)
(***************************************************************************)
EXTENDS Machine
MieSet == {{}, {"MTI"}, {"MSI", "MTI"}}
Pair(p, q) == [h \in Harts |-> IF h = 0 THEN p ELSE q]
ProgramSet ==
  { Pair({"plain", "store", "lr", "sc", "wfi"}, {"store", "lr", "sc", "exception"}),
    Pair({"lr", "sc", "mie", "mstatus", "mtimecmp"}, {"store", "mtimecmp"}),
    Pair({"msip", "mtimecmp", "mtime"}, {"wfi", "mie", "mstatus", "mret"}),
    Pair({"wfi", "mie", "msip"}, {"wfi", "mstatus", "mie", "exception", "msip"}),
    Pair({"wfi", "mie"}, {"plain", "mie", "mtimecmp", "mstatus", "mret"}) }
=============================================================================
