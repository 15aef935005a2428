------------------------------- MODULE Machine -------------------------------
(***************************************************************************)
(* The harts of the bundled Spike and what they share: the rotation of     *)
(* sim_t::step (riscv/sim.cc), processor_t::step with its interrupts,      *)
(* traps and WFI (riscv/execute.cc, riscv/processor.cc), the timer and     *)
(* software interrupts of the CLINT (riscv/clint.cc) and the load          *)
(* reservations of LR and SC (riscv/mmu.h).  The harts have the modes M    *)
(* and U (--priv=mu).  A program is any sequence of the instructions its    *)
(* hart uses; they are told apart by what they do to the shared state.     *)
(***************************************************************************)
EXTENDS Integers, FiniteSets

CONSTANTS
  N,            \* the number of harts, the size of sim_t::procs
  INTERLEAVE,   \* the instructions of one turn
  INSNS_PER_RTC_TICK,
  Calls,        \* the lengths sim_t::step is called with
  Addr,         \* reservable locations
  None,         \* no reservation
  Programs,     \* the instructions that the harts' programs use
  MieValues,    \* the values programs write to mie
  MaxTime       \* bound: the clock stands still here; a later deadline is "never"

Harts == 0 .. N - 1
Kinds == {"plain", "exception", "wfi", "mret", "mie", "mstatus",
          "msip", "mtimecmp", "mtime", "store", "lr", "sc"}
Interrupts == {"MSI", "MTI"}
Times == 0 .. MaxTime
Deadlines == 0 .. MaxTime + 1

ASSUME MachineAssumption ==
  /\ N \in Nat \ {0} /\ INTERLEAVE \in Nat \ {0} /\ MaxTime \in Nat
  /\ INTERLEAVE \div INSNS_PER_RTC_TICK \in Nat
  /\ Calls \subseteq Nat \ {0}
  /\ Programs \subseteq [Harts -> SUBSET Kinds]
  /\ None \notin Addr
  /\ MieValues \subseteq SUBSET Interrupts

VARIABLES
  program,        \* per hart: the instructions its program uses
  current_proc,   \* whose turn it is
  current_step,   \* how much of the turn has passed
  phase,          \* host, or where in processor_t::step: check, run, end
  todo,           \* what is left of this call of sim_t::step
  steps,          \* the length of this call of processor_t::step
  n,              \* what is left of it
  prv, MIE, MPIE, MPP,      \* per hart: the mode and three fields of mstatus
  mie, mip,       \* per hart: interrupts enabled and pending
  in_wfi,         \* per hart
  reservation,    \* per hart: load_reservation_address
  mtime, mtimecmp,
  overwritten,    \* history: harts whose reserved location another hart has written
  served,         \* history: per hart, the steps it got since the last tick
  unseen          \* history: interrupts raised on the running hart since it last looked

turn == <<program, current_proc, current_step, todo, steps>>
status == <<prv, MIE, MPIE, MPP>>
clock == <<mtime, mtimecmp>>
reserved == <<reservation, overwritten>>
vars == <<turn, phase, n, status, mie, mip, in_wfi, reserved, clock, served, unseen>>

Larger(a, b) == IF a > b THEN a ELSE b
Smaller(a, b) == IF a < b THEN a ELSE b

(* sim_t's constructor and processor_t::reset, then the first tick(0): the *)
(* deadlines are zero and so is the time.                                  *)
Init ==
  /\ program \in Programs
  /\ current_proc = 0 /\ current_step = 0
  /\ phase = "host" /\ todo = 0 /\ steps = 0 /\ n = 0
  /\ prv = [h \in Harts |-> "M"]
  /\ MIE = [h \in Harts |-> FALSE] /\ MPIE = [h \in Harts |-> FALSE]
  /\ MPP = [h \in Harts |-> "U"]
  /\ mie = [h \in Harts |-> {}] /\ mip = [h \in Harts |-> {"MTI"}]
  /\ in_wfi = [h \in Harts |-> FALSE]
  /\ reservation = [h \in Harts |-> None]
  /\ mtime = 0 /\ mtimecmp = [h \in Harts |-> 0]
  /\ overwritten = {}
  /\ served = [h \in Harts |-> 0]
  /\ unseen = {}

-----------------------------------------------------------------------------
(* The turns.  A call of sim_t::step is cut where a turn ends.             *)
Start(k) ==
  /\ phase = "host"
  /\ phase' = "check"
  /\ todo' = k
  /\ steps' = Smaller(k, INTERLEAVE - current_step)
  /\ n' = steps'
  /\ UNCHANGED <<program, current_proc, current_step, status, mie, mip, in_wfi, reserved,
                 clock, served, unseen>>

(* What a round adds to the clock, and clint_t::tick with the new time t   *)
(* and deadlines d.                                                        *)
rtc_ticks == INTERLEAVE \div INSNS_PER_RTC_TICK

ClintTick(t, d) ==
  mip' = [h \in Harts |-> IF t >= d[h] THEN mip[h] \cup {"MTI"} ELSE mip[h] \ {"MTI"}]

\* Mutant: the turn ends without a yield.
KeepReservation(h) == UNCHANGED reserved

yield_load_reservation(h) ==
  /\ reservation' = [reservation EXCEPT ![h] = None]
  /\ overwritten' = overwritten \ {h}

TurnEnds == current_step + steps = INTERLEAVE
RoundEnds == TurnEnds /\ current_proc + 1 = N

(* processor_t::step has returned.  The whole of steps counts, however     *)
(* early it returned.                                                      *)
\* Mutant: only the instructions executed count.
EndCallByWork ==
  /\ phase = "end"
  /\ IF current_step + steps - n = INTERLEAVE
       THEN /\ current_step' = 0
            /\ yield_load_reservation(current_proc)
            /\ current_proc' = (current_proc + 1) % N
       ELSE /\ current_step' = current_step + steps - n
            /\ UNCHANGED <<current_proc, reserved>>
  /\ IF current_step + steps - n = INTERLEAVE /\ current_proc + 1 = N
       THEN /\ mtime' = Smaller(mtime + rtc_ticks, MaxTime)
            /\ ClintTick(mtime', mtimecmp)
            /\ served' = [h \in Harts |-> 0]
       ELSE /\ served' = [served EXCEPT ![current_proc] = @ + steps]
            /\ UNCHANGED <<mtime, mip>>
  /\ todo' = todo - (steps - n)
  /\ steps' = Smaller(todo', INTERLEAVE - current_step')
  /\ n' = steps'
  /\ phase' = IF todo' = 0 THEN "host" ELSE "check"
  /\ UNCHANGED <<program, status, mie, in_wfi, mtimecmp, unseen>>

EndCall ==
  /\ phase = "end"
  /\ IF TurnEnds
       THEN /\ current_step' = 0
            /\ yield_load_reservation(current_proc)
            /\ current_proc' = IF RoundEnds THEN 0 ELSE current_proc + 1
       ELSE /\ current_step' = current_step + steps
            /\ UNCHANGED <<current_proc, reserved>>
  /\ IF RoundEnds
       THEN /\ mtime' = Smaller(mtime + rtc_ticks, MaxTime)
            /\ ClintTick(mtime', mtimecmp)
            /\ served' = [h \in Harts |-> 0]
       ELSE /\ served' = [served EXCEPT ![current_proc] = @ + steps]
            /\ UNCHANGED <<mtime, mip>>
  /\ todo' = todo - steps
  /\ steps' = Smaller(todo', INTERLEAVE - current_step')
  /\ n' = steps'
  /\ phase' = IF todo' = 0 THEN "host" ELSE "check"
  /\ UNCHANGED <<program, status, mie, in_wfi, mtimecmp, unseen>>

-----------------------------------------------------------------------------
(* processor_t::take_trap into M-mode; a trap ends the call.               *)
take_trap(h) ==
  /\ MPIE' = [MPIE EXCEPT ![h] = MIE[h]]
  /\ MIE' = [MIE EXCEPT ![h] = FALSE]
  /\ MPP' = [MPP EXCEPT ![h] = prv[h]]
  /\ prv' = [prv EXCEPT ![h] = "M"]
  /\ phase' = "end"

Pending(h) == mip[h] \cap mie[h]
Unmasked(h) == prv[h] = "U" \/ MIE[h]
Takeable(h) == IF Unmasked(h) THEN Pending(h) ELSE {}

(* take_pending_interrupt, at the head of the outer loop of                *)
(* processor_t::step.  Anything pending wakes the hart, masked or not.     *)
\* Mutant: a masked interrupt does not wake the hart.
CheckIfUnmasked ==
  /\ phase = "check"
  /\ LET h == current_proc
     IN  /\ in_wfi' = [in_wfi EXCEPT ![h] = @ /\ Takeable(h) = {}]
         /\ \/ Takeable(h) # {} /\ take_trap(h)
            \/ Takeable(h) = {} /\ phase' = "run" /\ UNCHANGED status
  /\ unseen' = {}
  /\ UNCHANGED <<turn, n, mie, mip, reserved, clock, served>>

Check ==
  /\ phase = "check"
  /\ LET h == current_proc
     IN  /\ in_wfi' = [in_wfi EXCEPT ![h] = @ /\ Pending(h) = {}]
         /\ \/ Takeable(h) # {} /\ take_trap(h)
            \/ Takeable(h) = {} /\ phase' = "run" /\ UNCHANGED status
  /\ unseen' = {}
  /\ UNCHANGED <<turn, n, mie, mip, reserved, clock, served>>

(* A hart that still waits gives up the rest of its call.                  *)
Wait ==
  /\ phase = "run" /\ in_wfi[current_proc]
  /\ phase' = "end"
  /\ UNCHANGED <<turn, n, status, mie, mip, in_wfi, reserved, clock, served, unseen>>

(* The running hart executes an instruction.                               *)
Executes(h, kind) ==
  phase = "run" /\ h = current_proc /\ ~ in_wfi[h] /\ kind \in program[h]

(* An instruction that serializes goes back to the head of the outer loop. *)
Retire ==
  /\ n' = n - 1
  /\ phase' = IF n = 1 THEN "end" ELSE "run"

Serialize ==
  /\ n' = n - 1
  /\ phase' = IF n = 1 THEN "end" ELSE "check"

Plain(h) ==
  /\ Executes(h, "plain")
  /\ Retire
  /\ UNCHANGED <<turn, status, mie, mip, in_wfi, reserved, clock, served, unseen>>

Exception(h) ==
  /\ Executes(h, "exception")
  /\ take_trap(h)
  /\ UNCHANGED <<turn, n, mie, mip, in_wfi, reserved, clock, served, unseen>>

Wfi(h) ==
  /\ Executes(h, "wfi")
  /\ in_wfi' = [in_wfi EXCEPT ![h] = TRUE]
  /\ phase' = "end"
  /\ UNCHANGED <<turn, n, status, mie, mip, reserved, clock, served, unseen>>

(* csrw of mie, csrw or csrsi of mstatus.MIE, and mret.                    *)
WriteMie(h, s) ==
  /\ Executes(h, "mie") /\ prv[h] = "M"
  /\ mie' = [mie EXCEPT ![h] = s]
  /\ Serialize
  /\ UNCHANGED <<turn, status, mip, in_wfi, reserved, clock, served, unseen>>

WriteMstatus(h, b) ==
  /\ Executes(h, "mstatus") /\ prv[h] = "M"
  /\ MIE' = [MIE EXCEPT ![h] = b]
  /\ Serialize
  /\ UNCHANGED <<turn, prv, MPIE, MPP, mie, mip, in_wfi, reserved, clock, served, unseen>>

\* Mutant: the hart does not look for interrupts.
MretInLine(h) ==
  /\ Executes(h, "mret") /\ prv[h] = "M"
  /\ prv' = [prv EXCEPT ![h] = MPP[h]]
  /\ MIE' = [MIE EXCEPT ![h] = MPIE[h]]
  /\ MPIE' = [MPIE EXCEPT ![h] = TRUE]
  /\ MPP' = [MPP EXCEPT ![h] = "U"]
  /\ Retire
  /\ UNCHANGED <<turn, mie, mip, in_wfi, reserved, clock, served, unseen>>

Mret(h) ==
  /\ Executes(h, "mret") /\ prv[h] = "M"
  /\ prv' = [prv EXCEPT ![h] = MPP[h]]
  /\ MIE' = [MIE EXCEPT ![h] = MPIE[h]]
  /\ MPIE' = [MPIE EXCEPT ![h] = TRUE]
  /\ MPP' = [MPP EXCEPT ![h] = "U"]
  /\ Serialize
  /\ UNCHANGED <<turn, mie, mip, in_wfi, reserved, clock, served, unseen>>

-----------------------------------------------------------------------------
(* Stores to the CLINT.  Each ends with clint_t::tick(0).                  *)
Notices(h) == unseen' = unseen \cup (mip'[h] \ mip[h])

StoreMsip(h, g, b) ==
  /\ Executes(h, "msip")
  /\ mip' = [mip EXCEPT ![g] = IF b THEN @ \cup {"MSI"} ELSE @ \ {"MSI"}]
  /\ Notices(h)
  /\ Retire
  /\ UNCHANGED <<turn, status, mie, in_wfi, reserved, clock, served>>

\* Mutant: no tick after the store.
StoreMtimecmpUnticked(h, g, d) ==
  /\ Executes(h, "mtimecmp")
  /\ mtimecmp' = [mtimecmp EXCEPT ![g] = d]
  /\ UNCHANGED mip
  /\ Notices(h)
  /\ Retire
  /\ UNCHANGED <<turn, status, mie, in_wfi, reserved, mtime, served>>

StoreMtimecmp(h, g, d) ==
  /\ Executes(h, "mtimecmp")
  /\ mtimecmp' = [mtimecmp EXCEPT ![g] = d]
  /\ ClintTick(mtime, mtimecmp')
  /\ Notices(h)
  /\ Retire
  /\ UNCHANGED <<turn, status, mie, in_wfi, reserved, mtime, served>>

StoreMtime(h, t) ==
  /\ Executes(h, "mtime")
  /\ mtime' = t
  /\ ClintTick(t, mtimecmp)
  /\ Notices(h)
  /\ Retire
  /\ UNCHANGED <<turn, status, mie, in_wfi, reserved, mtimecmp, served>>

-----------------------------------------------------------------------------
(* Stores to memory reach no reservation: it is the turns that keep the    *)
(* other harts away.                                                       *)
Writes(h, a) == overwritten \cup {g \in Harts \ {h} : reservation[g] = a}

Store(h, a) ==
  /\ Executes(h, "store")
  /\ overwritten' = Writes(h, a)
  /\ Retire
  /\ UNCHANGED <<turn, status, mie, mip, in_wfi, reservation, clock, served, unseen>>

LoadReserved(h, a) ==
  /\ Executes(h, "lr")
  /\ reservation' = [reservation EXCEPT ![h] = a]
  /\ overwritten' = overwritten \ {h}
  /\ Retire
  /\ UNCHANGED <<turn, status, mie, mip, in_wfi, clock, served, unseen>>

StoreConditional(h, a) ==
  /\ Executes(h, "sc")
  /\ reservation' = [reservation EXCEPT ![h] = None]
  /\ overwritten' = (IF reservation[h] = a THEN Writes(h, a) ELSE overwritten) \ {h}
  /\ Retire
  /\ UNCHANGED <<turn, status, mie, mip, in_wfi, clock, served, unseen>>

Instruction(h) ==
  \/ Plain(h) \/ Exception(h) \/ Wfi(h) \/ Mret(h)
  \/ \E s \in MieValues : WriteMie(h, s)
  \/ \E b \in BOOLEAN : WriteMstatus(h, b)
  \/ \E g \in Harts, b \in BOOLEAN : StoreMsip(h, g, b)
  \/ \E g \in Harts, d \in Deadlines : StoreMtimecmp(h, g, d)
  \/ \E t \in Times : StoreMtime(h, t)
  \/ \E a \in Addr : Store(h, a) \/ LoadReserved(h, a) \/ StoreConditional(h, a)

Next ==
  \/ \E k \in Calls : Start(k)
  \/ EndCall \/ Check \/ Wait
  \/ \E h \in Harts : Instruction(h)

(* One host thread calls sim_t::step again and again.                      *)
Spec == Init /\ [][Next]_vars /\ WF_vars(Next)

-----------------------------------------------------------------------------
(* Every variable keeps its type; turns and calls stay within bounds.      *)
TypeOK ==
  /\ program \in [Harts -> SUBSET Kinds]
  /\ current_proc \in Harts /\ current_step \in 0 .. INTERLEAVE - 1
  /\ phase \in {"host", "check", "run", "end"}
  /\ todo \in Nat
  /\ steps \in 0 .. INTERLEAVE - current_step /\ n \in 0 .. steps /\ steps <= todo
  /\ prv \in [Harts -> {"M", "U"}] /\ MPP \in [Harts -> {"M", "U"}]
  /\ MIE \in [Harts -> BOOLEAN] /\ MPIE \in [Harts -> BOOLEAN]
  /\ mie \in [Harts -> SUBSET Interrupts] /\ mip \in [Harts -> SUBSET Interrupts]
  /\ in_wfi \in [Harts -> BOOLEAN]
  /\ reservation \in [Harts -> Addr \cup {None}]
  /\ mtime \in Times /\ mtimecmp \in [Harts -> Deadlines]
  /\ overwritten \subseteq Harts /\ served \in [Harts -> Nat] /\ unseen \subseteq Interrupts

(* The timer interrupt of every hart is pending exactly while the clock    *)
(* has reached its deadline, whoever moved the clock or the deadline.      *)
TimerFollowsClock ==
  \A h \in Harts : "MTI" \in mip[h] <=> mtime >= mtimecmp[h]

(* While a hart holds a reservation no other hart has written the          *)
(* location, so that a store-conditional that succeeds is atomic with its  *)
(* load-reserved.                                                          *)
ReservationsAreFresh == overwritten = {}

(* Between two ticks of the clock every hart is given the same number of   *)
(* steps, in calls of any length and however early it waits or traps.      *)
RoundsAreFair ==
  [][mtime' > mtime /\ phase = "end" =>
       \A h \in Harts :
         served[h] + (IF h = current_proc THEN steps ELSE 0) = INTERLEAVE]_vars

(* A hart executes no instruction under an interrupt that it could take    *)
(* and that was there when it last looked: enabling one takes it at once.  *)
InterruptsArePrompt ==
  phase = "run" => Takeable(current_proc) \subseteq unseen

StoresToClint ==
  \E h, g \in Harts :
    \/ \E b \in BOOLEAN : StoreMsip(h, g, b)
    \/ \E d \in Deadlines : StoreMtimecmp(h, g, d)
    \/ \E t \in Times : StoreMtime(h, t)

(* A waiting hart with something pending wakes up, masked or not, unless   *)
(* it is withdrawn first; one that waits for a deadline is woken when it   *)
(* comes, unless it is put off for good or programs go on writing the      *)
(* CLINT for ever (processor_t::step, take_interrupt, clint_t::tick).      *)
SleepersWake ==
  \A h \in Harts :
    /\ (in_wfi[h] /\ Pending(h) # {}) ~> (~ in_wfi[h] \/ Pending(h) = {})
    /\ \/ []<><<StoresToClint>>_vars
       \/ (in_wfi[h] /\ "MTI" \in mie[h] /\ mtimecmp[h] <= MaxTime)
             ~> (~ in_wfi[h] \/ mtimecmp[h] > MaxTime)
=============================================================================
