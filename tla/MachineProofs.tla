---------------------------- MODULE MachineProofs ----------------------------
(***************************************************************************)
(* Proofs about Machine for any number of harts, any length of turn and    *)
(* any programs.  The invariant adds to the properties that only the hart  *)
(* whose turn it is holds a reservation, how the turns of a round are      *)
(* counted, and that a call that has not ended has something left.         *)
(***************************************************************************)
EXTENDS Machine, TLAPS

Going == phase \in {"check", "run"} => n > 0

OneHolder == \A h \in Harts : reservation[h] # None => h = current_proc

Shares ==
  \A h \in Harts :
    served[h] = IF h < current_proc THEN INTERLEAVE
                ELSE IF h = current_proc THEN current_step ELSE 0

TypeInv == TypeOK /\ Going
ReservationInv == ReservationsAreFresh /\ OneHolder

LEMMA SmallerIsOne ==
  ASSUME NEW a \in Int, NEW b \in Int
  PROVE  /\ Smaller(a, b) \in {a, b}
         /\ Smaller(a, b) <= a /\ Smaller(a, b) <= b
  BY DEF Smaller

(* What every instruction does to the place in the call.                   *)
LEMMA RetireMoves ==
  ASSUME TypeInv, phase = "run", Retire
  PROVE  /\ n' \in 0 .. steps
         /\ phase' \in {"run", "end"} /\ (phase' = "run" => n' > 0)
  BY DEF TypeInv, TypeOK, Going, Retire

LEMMA SerializeMoves ==
  ASSUME TypeInv, phase = "run", Serialize
  PROVE  /\ n' \in 0 .. steps
         /\ phase' \in {"check", "end"} /\ (phase' = "check" => n' > 0)
  BY DEF TypeInv, TypeOK, Going, Serialize

LEMMA TrapMoves ==
  ASSUME TypeInv, NEW h \in Harts, take_trap(h)
  PROVE  /\ prv' \in [Harts -> {"M", "U"}] /\ MPP' \in [Harts -> {"M", "U"}]
         /\ MIE' \in [Harts -> BOOLEAN] /\ MPIE' \in [Harts -> BOOLEAN]
         /\ phase' = "end"
  BY DEF TypeInv, TypeOK, take_trap

LEMMA TickTypes ==
  ASSUME TypeInv, NEW t, NEW d, ClintTick(t, d)
  PROVE  mip' \in [Harts -> SUBSET Interrupts]
  BY DEF TypeInv, TypeOK, ClintTick, Interrupts

LEMMA InitType == Init => TypeInv
<1> SUFFICES ASSUME Init PROVE TypeInv
  OBVIOUS
<1>1. 0 \in Harts
  BY MachineAssumption DEF Harts
<1>2. program \in [Harts -> SUBSET Kinds]
  BY MachineAssumption DEF Init
<1> QED
  BY <1>1, <1>2, MachineAssumption
  DEF Init, TypeInv, TypeOK, Going, Times, Deadlines, Interrupts

(* The place in the round after a call has ended.                          *)
LEMMA EndCallMoves ==
  ASSUME TypeInv, EndCall
  PROVE  /\ current_proc' \in Harts /\ current_step' \in 0 .. INTERLEAVE - 1
         /\ todo' \in Nat
         /\ steps' \in 0 .. INTERLEAVE - current_step' /\ n' \in 0 .. steps' /\ steps' <= todo'
         /\ phase' \in {"host", "check"} /\ (phase' = "check" => n' > 0)
<1>1. current_proc' \in Harts
  BY MachineAssumption DEF TypeInv, TypeOK, EndCall, TurnEnds, RoundEnds, Harts
<1>2. current_step' \in 0 .. INTERLEAVE - 1
  BY MachineAssumption DEF TypeInv, TypeOK, EndCall, TurnEnds
<1>3. todo' \in Nat
  BY DEF TypeInv, TypeOK, EndCall
<1>4. /\ steps' \in {todo', INTERLEAVE - current_step'}
      /\ steps' <= todo' /\ steps' <= INTERLEAVE - current_step'
      /\ n' = steps'
  <2>1. todo' \in Int /\ INTERLEAVE - current_step' \in Int
    BY <1>2, <1>3, MachineAssumption
  <2>2. steps' = Smaller(todo', INTERLEAVE - current_step') /\ n' = steps'
    BY DEF EndCall
  <2> QED
    BY <2>1, <2>2, SmallerIsOne
<1>5. phase' = IF todo' = 0 THEN "host" ELSE "check"
  BY DEF EndCall
<1>6. INTERLEAVE - current_step' \in Int /\ INTERLEAVE - current_step' > 0
  <2>1. INTERLEAVE \in Int /\ current_step' \in Int
    BY <1>2, MachineAssumption
  <2>2. current_step' < INTERLEAVE
    BY <1>2, <2>1
  <2>3. \A i, j \in Int : j < i => i - j \in Int /\ i - j > 0
    OBVIOUS
  <2> QED
    BY ONLY <2>1, <2>2, <2>3
<1>7. steps' \in Nat /\ (todo' # 0 => steps' > 0)
  BY <1>3, <1>4, <1>6
<1>8. steps' \in 0 .. INTERLEAVE - current_step' /\ n' \in 0 .. steps'
  BY <1>4, <1>6, <1>7
<1>9. phase' = "check" => n' > 0
  BY <1>4, <1>5, <1>7
<1> QED
  BY <1>1, <1>2, <1>3, <1>4, <1>5, <1>8, <1>9

(* Next, one disjunct for each kind of step.                               *)
LEMMA StepCases ==
  ASSUME Next
  PROVE  \/ \E k \in Calls : Start(k)
         \/ EndCall \/ Check \/ Wait
         \/ \E h \in Harts :
              \/ Plain(h) \/ Exception(h) \/ Wfi(h) \/ Mret(h)
              \/ \E s \in MieValues : WriteMie(h, s)
              \/ \E b \in BOOLEAN : WriteMstatus(h, b)
              \/ \E g \in Harts, b \in BOOLEAN : StoreMsip(h, g, b)
              \/ \E g \in Harts, d \in Deadlines : StoreMtimecmp(h, g, d)
              \/ \E t \in Times : StoreMtime(h, t)
              \/ \E a \in Addr : Store(h, a)
              \/ \E a \in Addr : LoadReserved(h, a)
              \/ \E a \in Addr : StoreConditional(h, a)
  BY DEF Next, Instruction

LEMMA TypeStep ==
  ASSUME TypeInv, [Next]_vars
  PROVE  TypeInv'
<1> USE DEF TypeInv, turn, status, clock, reserved
<1>1. ASSUME NEW k \in Calls, Start(k) PROVE TypeInv'
  <2>1. k \in Int /\ k > 0 /\ INTERLEAVE - current_step \in Int
    BY MachineAssumption DEF TypeOK
  <2>2. /\ steps' \in {k, INTERLEAVE - current_step}
        /\ steps' <= k /\ steps' <= INTERLEAVE - current_step
    BY <1>1, <2>1, SmallerIsOne DEF Start
  <2>3. n' = steps' /\ n' > 0 /\ steps' \in 0 .. INTERLEAVE - current_step' /\ steps' <= todo'
    BY <1>1, <2>1, <2>2, MachineAssumption DEF Start, TypeOK
  <2> QED
    BY <1>1, <2>1, <2>3 DEF Start, TypeOK, Going
<1>2. CASE EndCall
  <2>1. /\ mtime' \in Times /\ mip' \in [Harts -> SUBSET Interrupts]
    <3>1. CASE RoundEnds
      <4>1. mtime' = Smaller(mtime + rtc_ticks, MaxTime) /\ ClintTick(mtime', mtimecmp)
        BY <1>2, <3>1 DEF EndCall
      <4>2. mtime + rtc_ticks \in Nat
        BY MachineAssumption DEF rtc_ticks, TypeOK, Times
      <4> QED
        BY <4>1, <4>2, SmallerIsOne, TickTypes, MachineAssumption DEF Times
    <3>2. CASE ~ RoundEnds
      BY <1>2, <3>2 DEF EndCall, TypeOK
    <3> QED
      BY <3>1, <3>2
  <2>2. served' \in [Harts -> Nat]
    BY <1>2, MachineAssumption DEF EndCall, TypeOK
  <2>3. reservation' \in [Harts -> Addr \cup {None}] /\ overwritten' \subseteq Harts
    BY <1>2 DEF EndCall, TypeOK, yield_load_reservation
  <2> QED
    BY <1>2, <2>1, <2>2, <2>3, EndCallMoves DEF EndCall, TypeOK, Going
<1>3. CASE Check
  <2>1. CASE Takeable(current_proc) # {}
    BY <1>3, <2>1, TrapMoves DEF Check, TypeOK, Going
  <2>2. CASE Takeable(current_proc) = {}
    BY <1>3, <2>2 DEF Check, TypeOK, Going
  <2> QED
    BY <2>1, <2>2
<1>4. CASE Wait
  BY <1>4 DEF Wait, TypeOK, Going
<1>5. ASSUME NEW h \in Harts, Plain(h) \/ Wfi(h) PROVE TypeInv'
  BY <1>5, RetireMoves DEF Plain, Wfi, Executes, TypeOK, Going
<1>6. ASSUME NEW h \in Harts, Exception(h) PROVE TypeInv'
  BY <1>6, TrapMoves DEF Exception, Executes, TypeOK, Going
<1>7. ASSUME NEW h \in Harts, Mret(h) PROVE TypeInv'
  BY <1>7, SerializeMoves DEF Mret, Executes, TypeOK, Going
<1>8. ASSUME NEW h \in Harts, NEW s \in MieValues, WriteMie(h, s) PROVE TypeInv'
  BY <1>8, SerializeMoves, MachineAssumption DEF WriteMie, Executes, TypeOK, Going
<1>9. ASSUME NEW h \in Harts, NEW b \in BOOLEAN, WriteMstatus(h, b) PROVE TypeInv'
  BY <1>9, SerializeMoves DEF WriteMstatus, Executes, TypeOK, Going
<1>10. ASSUME NEW h \in Harts, NEW g \in Harts, NEW b \in BOOLEAN, StoreMsip(h, g, b)
       PROVE TypeInv'
  <2>1. mip' \in [Harts -> SUBSET Interrupts] /\ unseen' \subseteq Interrupts
    BY <1>10 DEF StoreMsip, Notices, TypeOK, Interrupts
  <2> QED
    BY <1>10, <2>1, RetireMoves DEF StoreMsip, Executes, TypeOK, Going
<1>11. ASSUME NEW h \in Harts, NEW g \in Harts, NEW d \in Deadlines, StoreMtimecmp(h, g, d)
       PROVE TypeInv'
  <2>1. mip' \in [Harts -> SUBSET Interrupts]
    BY <1>11, TickTypes DEF StoreMtimecmp
  <2>2. unseen' \subseteq Interrupts
    BY <1>11, <2>1 DEF StoreMtimecmp, Notices, TypeOK
  <2> QED
    BY <1>11, <2>1, <2>2, RetireMoves DEF StoreMtimecmp, Executes, TypeOK, Going
<1>12. ASSUME NEW h \in Harts, NEW t \in Times, StoreMtime(h, t) PROVE TypeInv'
  <2>1. mip' \in [Harts -> SUBSET Interrupts]
    BY <1>12, TickTypes DEF StoreMtime
  <2>2. unseen' \subseteq Interrupts
    BY <1>12, <2>1 DEF StoreMtime, Notices, TypeOK
  <2> QED
    BY <1>12, <2>1, <2>2, RetireMoves DEF StoreMtime, Executes, TypeOK, Going
<1>13. ASSUME NEW h \in Harts, NEW a \in Addr, Store(h, a) PROVE TypeInv'
  BY <1>13, RetireMoves DEF Store, Writes, Executes, TypeOK, Going
<1>14. ASSUME NEW h \in Harts, NEW a \in Addr, LoadReserved(h, a) PROVE TypeInv'
  BY <1>14, RetireMoves DEF LoadReserved, Executes, TypeOK, Going
<1>15. ASSUME NEW h \in Harts, NEW a \in Addr, StoreConditional(h, a) PROVE TypeInv'
  BY <1>15, RetireMoves DEF StoreConditional, Writes, Executes, TypeOK, Going
<1>16. CASE UNCHANGED vars
  BY <1>16 DEF vars, TypeOK, Going
<1> QED
  BY <1>1, <1>2, <1>3, <1>4, <1>5, <1>6, <1>7, <1>8, <1>9, <1>10, <1>11, <1>12, <1>13,
     <1>14, <1>15, <1>16, StepCases

(* The type invariant: every field, cursor and history keeps its type, and *)
(* no call of processor_t::step outlives its turn, for any number of harts. *)
THEOREM TypeCorrect == Spec => []TypeOK
<1>1. Init => TypeInv
  BY InitType
<1>2. TypeInv /\ [Next]_vars => TypeInv'
  BY TypeStep
<1>3. TypeInv => TypeOK
  BY DEF TypeInv
<1> QED
  BY <1>1, <1>2, <1>3, PTL DEF Spec

-----------------------------------------------------------------------------
(* Timers.  Only EndCall and the stores to the CLINT touch the clock, the  *)
(* deadlines or mip, and all of these but StoreMsip tick.                  *)
LEMMA TickFollows ==
  ASSUME TypeInv, NEW t \in Int, NEW d \in [Harts -> Int], ClintTick(t, d)
  PROVE  \A h \in Harts : "MTI" \in mip'[h] <=> t >= d[h]
  BY DEF TypeInv, TypeOK, ClintTick, Interrupts

LEMMA TimerStep ==
  ASSUME TypeInv, TypeInv', TimerFollowsClock, [Next]_vars
  PROVE  TimerFollowsClock'
<1> USE DEF turn, status, clock, reserved
<1>0. /\ mtime \in Int /\ mtime' \in Int
      /\ mtimecmp \in [Harts -> Int] /\ mtimecmp' \in [Harts -> Int]
  BY MachineAssumption DEF TypeInv, TypeOK, Times, Deadlines
<1>1. CASE UNCHANGED <<mip, clock>>
  BY <1>1 DEF TimerFollowsClock
<1>2. CASE EndCall
  <2>1. CASE RoundEnds
    <3>1. ClintTick(mtime', mtimecmp) /\ mtimecmp' = mtimecmp
      BY <1>2, <2>1 DEF EndCall
    <3> QED
      BY <1>0, <3>1, TickFollows DEF TimerFollowsClock
  <2>2. CASE ~ RoundEnds
    BY <1>1, <1>2, <2>2 DEF EndCall
  <2> QED
    BY <2>1, <2>2
<1>3. ASSUME NEW h \in Harts, NEW g \in Harts, NEW b \in BOOLEAN, StoreMsip(h, g, b)
      PROVE TimerFollowsClock'
  BY <1>3 DEF StoreMsip, TimerFollowsClock, TypeInv, TypeOK, Interrupts
<1>4. ASSUME NEW h \in Harts, NEW g \in Harts, NEW d \in Deadlines, StoreMtimecmp(h, g, d)
      PROVE TimerFollowsClock'
  <2>1. ClintTick(mtime, mtimecmp') /\ mtime' = mtime
    BY <1>4 DEF StoreMtimecmp
  <2> QED
    BY <1>0, <2>1, TickFollows DEF TimerFollowsClock
<1>5. ASSUME NEW h \in Harts, NEW t \in Times, StoreMtime(h, t) PROVE TimerFollowsClock'
  <2>1. ClintTick(mtime', mtimecmp) /\ mtimecmp' = mtimecmp
    BY <1>5 DEF StoreMtime
  <2> QED
    BY <1>0, <2>1, TickFollows DEF TimerFollowsClock
<1>6. ASSUME NEW h \in Harts, Plain(h) \/ Exception(h) \/ Wfi(h) \/ Mret(h) PROVE UNCHANGED <<mip, clock>>
  BY <1>6 DEF Plain, Exception, Wfi, Mret
<1>7. ASSUME NEW h \in Harts,
             \/ \E s \in MieValues : WriteMie(h, s)
             \/ \E b \in BOOLEAN : WriteMstatus(h, b)
      PROVE UNCHANGED <<mip, clock>>
  BY <1>7 DEF WriteMie, WriteMstatus
<1>8. ASSUME NEW h \in Harts, NEW a \in Addr,
             Store(h, a) \/ LoadReserved(h, a) \/ StoreConditional(h, a)
      PROVE UNCHANGED <<mip, clock>>
  BY <1>8 DEF Store, LoadReserved, StoreConditional
<1>9. ASSUME \/ \E k \in Calls : Start(k)
             \/ Check \/ Wait \/ UNCHANGED vars
      PROVE UNCHANGED <<mip, clock>>
  BY <1>9 DEF Start, Check, Wait, vars
<1> QED
  BY <1>1, <1>2, <1>3, <1>4, <1>5, <1>6, <1>7, <1>8, <1>9, StepCases

(* mip.MTIP of every hart says whether the clock has reached its deadline, *)
(* after every step of every hart and every tick.                          *)
THEOREM TimersCorrect == Spec => []TimerFollowsClock
<1>1. Init => TypeInv /\ TimerFollowsClock
  BY InitType DEF Init, TimerFollowsClock
<1>2. TypeInv /\ TimerFollowsClock /\ [Next]_vars => TypeInv' /\ TimerFollowsClock'
  BY TypeStep, TimerStep
<1> QED
  BY <1>1, <1>2, PTL DEF Spec

-----------------------------------------------------------------------------
(* Reservations.  Only the hart whose turn it is holds one, and it loses   *)
(* it with its turn; so no store of another hart can come in between.      *)
LEMMA ReservationStep ==
  ASSUME TypeInv, ReservationInv, [Next]_vars
  PROVE  ReservationInv'
<1> USE DEF turn, status, clock, reserved, ReservationInv, ReservationsAreFresh, OneHolder
<1>1. CASE UNCHANGED <<reserved, current_proc>>
  BY <1>1
<1>2. CASE EndCall
  <2>1. CASE TurnEnds
    BY <1>2, <2>1 DEF EndCall, yield_load_reservation, TypeInv, TypeOK
  <2>2. CASE ~ TurnEnds
    BY <1>1, <1>2, <2>2 DEF EndCall
  <2> QED
    BY <2>1, <2>2
<1>3. ASSUME NEW h \in Harts, NEW a \in Addr, h = current_proc PROVE Writes(h, a) = {}
  BY <1>3, MachineAssumption DEF Writes
<1>4. ASSUME NEW h \in Harts, NEW a \in Addr, Store(h, a) PROVE ReservationInv'
  BY <1>3, <1>4 DEF Store, Executes
<1>5. ASSUME NEW h \in Harts, NEW a \in Addr, LoadReserved(h, a) PROVE ReservationInv'
  BY <1>5 DEF LoadReserved, Executes, TypeInv, TypeOK
<1>6. ASSUME NEW h \in Harts, NEW a \in Addr, StoreConditional(h, a) PROVE ReservationInv'
  BY <1>3, <1>6 DEF StoreConditional, Executes, TypeInv, TypeOK
<1>7. ASSUME NEW h \in Harts,
             \/ Plain(h) \/ Exception(h) \/ Wfi(h) \/ Mret(h)
             \/ \E s \in MieValues : WriteMie(h, s)
             \/ \E b \in BOOLEAN : WriteMstatus(h, b)
             \/ \E g \in Harts, b \in BOOLEAN : StoreMsip(h, g, b)
             \/ \E g \in Harts, d \in Deadlines : StoreMtimecmp(h, g, d)
             \/ \E t \in Times : StoreMtime(h, t)
      PROVE UNCHANGED <<reserved, current_proc>>
  BY <1>7 DEF Plain, Exception, Wfi, Mret, WriteMie, WriteMstatus, StoreMsip,
              StoreMtimecmp, StoreMtime
<1>8. ASSUME \/ \E k \in Calls : Start(k)
             \/ Check \/ Wait \/ UNCHANGED vars
      PROVE UNCHANGED <<reserved, current_proc>>
  BY <1>8 DEF Start, Check, Wait, vars
<1> QED
  BY <1>1, <1>2, <1>4, <1>5, <1>6, <1>7, <1>8, StepCases

(* A store-conditional that succeeds is atomic with its load-reserved with *)
(* respect to the other harts.                                             *)
THEOREM ReservationsCorrect == Spec => []ReservationsAreFresh
<1>1. Init => TypeInv /\ ReservationInv
  BY InitType DEF Init, ReservationInv, ReservationsAreFresh, OneHolder
<1>2. TypeInv /\ ReservationInv /\ [Next]_vars => TypeInv' /\ ReservationInv'
  BY TypeStep, ReservationStep
<1>3. ReservationInv => ReservationsAreFresh
  BY DEF ReservationInv
<1> QED
  BY <1>1, <1>2, <1>3, PTL DEF Spec

-----------------------------------------------------------------------------
(* Rounds.  The harts before the current one have had their turn, those    *)
(* after it have had nothing since the tick.                               *)
LEMMA SharesStep ==
  ASSUME TypeInv, Shares, [Next]_vars
  PROVE  Shares'
<1> USE DEF turn, status, clock, reserved, Shares
<1>1. CASE UNCHANGED <<served, current_proc, current_step>>
  BY <1>1
<1>2. CASE EndCall
  <2> USE MachineAssumption DEF TypeInv, TypeOK, Harts
  <2>1. CASE RoundEnds
    <3>1. /\ served' = [h \in Harts |-> 0]
          /\ current_proc' = 0 /\ current_step' = 0
      BY <1>2, <2>1 DEF EndCall, RoundEnds
    <3>2. \A h \in Harts : h \in Nat
      BY DEF Harts
    <3> QED
      BY <3>1, <3>2
  <2>2. CASE TurnEnds /\ ~ RoundEnds
    <3>1. /\ served' = [served EXCEPT ![current_proc] = @ + steps]
          /\ current_proc' = current_proc + 1 /\ current_step' = 0
      BY <1>2, <2>2 DEF EndCall
    <3>2. served[current_proc] + steps = INTERLEAVE
      <4>1. current_proc \in Harts /\ current_proc \in Int
        OBVIOUS
      <4>2. served[current_proc] = current_step
        BY <4>1
      <4> QED
        BY <2>2, <4>2 DEF TurnEnds
    <3> QED
      BY <3>1, <3>2
  <2>3. CASE ~ TurnEnds
    <3>1. /\ served' = [served EXCEPT ![current_proc] = @ + steps]
          /\ current_proc' = current_proc /\ current_step' = current_step + steps
      BY <1>2, <2>3 DEF EndCall, RoundEnds
    <3> QED
      BY <3>1
  <2> QED
    BY <2>1, <2>2, <2>3
<1>3. ASSUME NEW h \in Harts,
             \/ Plain(h) \/ Exception(h) \/ Wfi(h) \/ Mret(h)
             \/ \E s \in MieValues : WriteMie(h, s)
             \/ \E b \in BOOLEAN : WriteMstatus(h, b)
             \/ \E g \in Harts, b \in BOOLEAN : StoreMsip(h, g, b)
             \/ \E g \in Harts, d \in Deadlines : StoreMtimecmp(h, g, d)
             \/ \E t \in Times : StoreMtime(h, t)
      PROVE UNCHANGED <<served, current_proc, current_step>>
  BY <1>3 DEF Plain, Exception, Wfi, Mret, WriteMie, WriteMstatus, StoreMsip,
              StoreMtimecmp, StoreMtime
<1>4. ASSUME NEW h \in Harts, NEW a \in Addr,
             Store(h, a) \/ LoadReserved(h, a) \/ StoreConditional(h, a)
      PROVE UNCHANGED <<served, current_proc, current_step>>
  BY <1>4 DEF Store, LoadReserved, StoreConditional
<1>5. ASSUME \/ \E k \in Calls : Start(k)
             \/ Check \/ Wait \/ UNCHANGED vars
      PROVE UNCHANGED <<served, current_proc, current_step>>
  BY <1>5 DEF Start, Check, Wait, vars
<1> QED
  BY <1>1, <1>2, <1>3, <1>4, <1>5, StepCases

(* A step out of phase "end" ends a call; it moves the clock only when it  *)
(* ends a round.                                                           *)
LEMMA TickEndsRound ==
  ASSUME TypeInv, Shares, [Next]_vars, mtime' > mtime, phase = "end"
  PROVE  \A h \in Harts :
           served[h] + (IF h = current_proc THEN steps ELSE 0) = INTERLEAVE
<1> USE DEF turn, status, clock, reserved
<1>1. mtime \in Int
  BY MachineAssumption DEF TypeInv, TypeOK, Times
<1>2. ASSUME UNCHANGED mtime PROVE FALSE
  BY <1>1, <1>2
<1>3. ASSUME NEW h \in Harts, NEW kind, Executes(h, kind) PROVE FALSE
  BY <1>3 DEF Executes
<1>4. EndCall
  <2>1. ~ (\/ \E k \in Calls : Start(k)
           \/ Check \/ Wait \/ UNCHANGED vars)
    BY <1>2 DEF Start, Check, Wait, vars
  <2>2. ASSUME NEW h \in Harts,
               \/ Plain(h) \/ Exception(h) \/ Wfi(h) \/ Mret(h)
               \/ \E s \in MieValues : WriteMie(h, s)
               \/ \E b \in BOOLEAN : WriteMstatus(h, b)
        PROVE FALSE
    BY <1>3, <2>2 DEF Plain, Exception, Wfi, Mret, WriteMie, WriteMstatus
  <2>3. ASSUME NEW h \in Harts,
               \/ \E g \in Harts, b \in BOOLEAN : StoreMsip(h, g, b)
               \/ \E g \in Harts, d \in Deadlines : StoreMtimecmp(h, g, d)
               \/ \E t \in Times : StoreMtime(h, t)
        PROVE FALSE
    BY <1>3, <2>3 DEF StoreMsip, StoreMtimecmp, StoreMtime
  <2>4. ASSUME NEW h \in Harts, NEW a \in Addr,
               Store(h, a) \/ LoadReserved(h, a) \/ StoreConditional(h, a)
        PROVE FALSE
    BY <1>3, <2>4 DEF Store, LoadReserved, StoreConditional
  <2> QED
    BY <2>1, <2>2, <2>3, <2>4, StepCases
<1>5. RoundEnds
  BY <1>2, <1>4 DEF EndCall
<1>6. /\ current_proc = N - 1 /\ current_step + steps = INTERLEAVE
      /\ N \in Nat /\ INTERLEAVE \in Nat /\ steps \in Int
  <2>1. /\ N \in Nat /\ INTERLEAVE \in Nat
    BY MachineAssumption
  <2> QED
    BY <1>5, <2>1 DEF RoundEnds, TurnEnds, TypeInv, TypeOK, Harts
<1>7. TAKE h \in Harts
<1>8. h \in Int /\ h <= N - 1
  BY <1>6 DEF Harts
<1>9. CASE h = current_proc
  BY <1>6, <1>9 DEF Shares, TypeInv, TypeOK
<1>10. CASE h < current_proc
  BY <1>6, <1>8, <1>10 DEF Shares
<1> QED
  BY <1>6, <1>8, <1>9, <1>10

(* The clock advances only when every hart has had a full turn since the   *)
(* last tick, however the calls are cut.                                   *)
THEOREM RoundsCorrect == Spec => RoundsAreFair
<1>1. Init => TypeInv /\ Shares
  <2>1. Init => Shares
    BY MachineAssumption DEF Init, Shares, Harts
  <2> QED
    BY <2>1, InitType
<1>2. TypeInv /\ Shares /\ [Next]_vars => TypeInv' /\ Shares'
  BY TypeStep, SharesStep
<1>3. TypeInv /\ Shares /\ [Next]_vars =>
        [mtime' > mtime /\ phase = "end" =>
           \A h \in Harts :
             served[h] + (IF h = current_proc THEN steps ELSE 0) = INTERLEAVE]_vars
  BY TickEndsRound
<1> QED
  BY <1>1, <1>2, <1>3, PTL DEF Spec, RoundsAreFair

-----------------------------------------------------------------------------
(* Interrupts.  Takeable can grow under a running hart only by what its    *)
(* own stores raise; enabling ends the run of instructions.                *)
LEMMA PromptStep ==
  ASSUME TypeInv, InterruptsArePrompt, [Next]_vars
  PROVE  InterruptsArePrompt'
<1> USE DEF turn, status, clock, reserved
<1>1. ASSUME phase' # "run" PROVE InterruptsArePrompt'
  BY <1>1 DEF InterruptsArePrompt
<1>2. CASE UNCHANGED <<phase, current_proc, status, mie, mip, unseen>>
  BY <1>2 DEF InterruptsArePrompt, Takeable, Unmasked, Pending
<1>3. CASE Check
  <2>1. CASE Takeable(current_proc) = {}
    <3>1. Takeable(current_proc)' = {}
      BY <1>3, <2>1 DEF Check, Takeable, Unmasked, Pending
    <3> QED
      BY <3>1 DEF InterruptsArePrompt
  <2>2. CASE Takeable(current_proc) # {}
    BY <1>1, <1>3, <2>2 DEF Check, take_trap
  <2> QED
    BY <2>1, <2>2
<1>4. ASSUME NEW h \in Harts, phase = "run", h = current_proc,
             UNCHANGED <<current_proc, status, mie>>, Notices(h)
      PROVE InterruptsArePrompt'
  <2>1. Takeable(h) \subseteq unseen
    BY <1>4 DEF InterruptsArePrompt
  <2>2. Takeable(h)' \subseteq Takeable(h) \cup (mip'[h] \ mip[h])
    BY <1>4 DEF Takeable, Unmasked, Pending
  <2>3. Takeable(current_proc)' \subseteq unseen'
    BY <1>4, <2>1, <2>2 DEF Notices
  <2> QED
    BY <2>3 DEF InterruptsArePrompt
<1>5. ASSUME NEW h \in Harts, phase = "run", h = current_proc,
             UNCHANGED <<current_proc, status, mie, mip, unseen>>
      PROVE InterruptsArePrompt'
  BY <1>4, <1>5 DEF Notices
<1>6. ASSUME NEW h \in Harts,
             \/ Plain(h)
             \/ \E a \in Addr : Store(h, a) \/ LoadReserved(h, a) \/ StoreConditional(h, a)
      PROVE InterruptsArePrompt'
  BY <1>5, <1>6 DEF Plain, Store, LoadReserved, StoreConditional, Executes
<1>7. ASSUME NEW h \in Harts,
             \/ Exception(h) \/ Wfi(h) \/ Mret(h)
             \/ \E s \in MieValues : WriteMie(h, s)
             \/ \E b \in BOOLEAN : WriteMstatus(h, b)
      PROVE InterruptsArePrompt'
  <2>1. phase' # "run"
    BY <1>7 DEF Exception, Wfi, Mret, WriteMie, WriteMstatus, take_trap, Serialize
  <2> QED
    BY <1>1, <2>1
<1>8. ASSUME NEW h \in Harts,
             \/ \E g \in Harts, b \in BOOLEAN : StoreMsip(h, g, b)
             \/ \E g \in Harts, d \in Deadlines : StoreMtimecmp(h, g, d)
             \/ \E t \in Times : StoreMtime(h, t)
      PROVE InterruptsArePrompt'
  BY <1>4, <1>8 DEF StoreMsip, StoreMtimecmp, StoreMtime, Executes
<1>9. CASE \E k \in Calls : Start(k)
  BY <1>1, <1>9 DEF Start
<1>10. CASE EndCall
  BY <1>1, <1>10 DEF EndCall
<1>11. CASE Wait
  BY <1>1, <1>11 DEF Wait
<1>12. CASE UNCHANGED vars
  BY <1>2, <1>12 DEF vars
<1> QED
  BY <1>3, <1>6, <1>7, <1>8, <1>9, <1>10, <1>11, <1>12, StepCases

(* No hart executes an instruction under an interrupt that it could have   *)
(* taken when it last looked; what enables one makes it look again.        *)
THEOREM PromptCorrect == Spec => []InterruptsArePrompt
<1>1. Init => TypeInv /\ InterruptsArePrompt
  BY InitType DEF Init, InterruptsArePrompt
<1>2. TypeInv /\ InterruptsArePrompt /\ [Next]_vars => TypeInv' /\ InterruptsArePrompt'
  BY TypeStep, PromptStep
<1> QED
  BY <1>1, <1>2, PTL DEF Spec
=============================================================================
