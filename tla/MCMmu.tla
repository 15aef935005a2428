-------------------------------- MODULE MCMmu --------------------------------
(***************************************************************************)
(* The programs Mmu is checked with: pages of two words, so a table has    *)
(* two entries, Sv32 four pages and the memory four frames of them.  Frame *)
(* 1 is the root table, frame 2 the table below it, 0 and 3 hold code and  *)
(* data.  Each program uses one part of the machine in full; what the      *)
(* parts share (modes, caches, the walk) is in all of them.                *)
(***************************************************************************)
EXTENDS Mmu

All == {"V", "R", "W", "X", "U", "A", "D"}
P(flags, ppn) == [flags |-> flags, ppn |-> ppn]
Zero == P({}, 0)

(* Pages 0 and 1 through the second table, 2 and 3 a superpage that lets   *)
(* the supervisor reach the tables themselves.                             *)
Image == [w \in Words |->
  CASE w = 2 -> P({"V"}, 2)
    [] w = 3 -> P(All \ {"U", "X"}, 2)
    [] w = 4 -> P(All \ {"W"}, 0)
    [] w = 5 -> P(All \ {"U", "R", "W"}, 3)
    [] OTHER -> Zero]

Nothing == [w \in Words |-> {}]
StatusOf(mprv, mpp, sum, mxr) ==
  [mprv |-> mprv, mpp |-> mpp, sum |-> sum, mxr |-> mxr,
   mie |-> FALSE, mpie |-> FALSE, spp |-> "U"]

Idle == [image |-> Image, touches |-> {}, stores |-> Nothing, status |-> {},
         satp |-> {}, triggers |-> {}, pmpaddr |-> {}, pmpcfg |-> {}, mseccfg |-> {}]

(* It edits its page table and its code.                                   *)
Pager == [Idle EXCEPT
  !.touches = {<<0, 0>>, <<2, 0>>}, !.satp = {None, 1},
  !.stores = [Nothing EXCEPT ![4] = {Image[4], P(All, 3)}, ![0] = {P({"X"}, 1)}],
  !.status = {StatusOf(FALSE, "S", FALSE, FALSE)}]

(* It uses SUM, MXR and MPRV.                                              *)
Supervisor == [Idle EXCEPT
  !.touches = {<<0, 0>>, <<1, 1>>}, !.satp = {1},
  !.status = {StatusOf(FALSE, "S", FALSE, TRUE), StatusOf(TRUE, "S", TRUE, FALSE),
              StatusOf(TRUE, "U", FALSE, FALSE)}]

(* It protects parts of a page, with locks.                                *)
C(l, a, perms) == [l |-> l, a |-> a, perms |-> perms]
Two(c0, c1) == [i \in Entries |-> IF i = 0 THEN c0 ELSE c1]
Monitor == [Idle EXCEPT
  !.touches = {<<0, 0>>, <<0, 1>>}, !.satp = {1},
  !.status = {StatusOf(FALSE, "S", FALSE, FALSE)},
  !.pmpaddr = {1, 7},
  !.pmpcfg = {Two(C(FALSE, "NA4", {"R", "X"}), C(TRUE, "TOR", {"R", "W", "X"})),
              Two(C(FALSE, "TOR", {"W", "X"}), C(FALSE, "NAPOT", {"R"})),
              Two(C(TRUE, "NAPOT", {"R", "W", "X"}), C(FALSE, "TOR", {"X"}))},
  !.mseccfg = {[mml |-> TRUE, mmwp |-> FALSE, rlb |-> FALSE],
               [mml |-> FALSE, mmwp |-> FALSE, rlb |-> TRUE]}]

(* It watches its own accesses.                                            *)
T(ops, after) == [ops |-> ops, page |-> 0, off |-> 0, after |-> after, modes |-> {"M", "U"}]
Debugged == [Idle EXCEPT
  !.touches = {<<0, 0>>, <<0, 1>>},
  !.stores = [Nothing EXCEPT ![0] = {P({"X"}, 1)}],
  !.status = {[StatusOf(FALSE, "U", FALSE, FALSE) EXCEPT !.mie = TRUE],
              StatusOf(FALSE, "U", FALSE, FALSE)},
  !.triggers = {None, T({"fetch", "load"}, TRUE), T({"load", "store"}, TRUE), T({"store"}, FALSE)}]

AllPrograms == {Pager, Supervisor, Monitor, Debugged}
=============================================================================
