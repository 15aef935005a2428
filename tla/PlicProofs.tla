----------------------------- MODULE PlicProofs -----------------------------
(***************************************************************************)
(* The interrupt controller for any number of sources and contexts.  The   *)
(* inductive invariant joins the types, the agreement of the mip bits with *)
(* the registers, the inclusions claimed \subseteq pending \subseteq       *)
(* enable and, for the sources no two contexts have had enabled at once,   *)
(* that they are enabled in one context at most and pending there exactly  *)
(* while their line is high.                                               *)
(***************************************************************************)
EXTENDS Plic, WellFoundedInduction, TLAPS

(* A source outside the history has one context at most.                   *)
OneOwner ==
  \A i \in Ids \ shared : \A c, d \in Contexts :
    i \in enable[c] /\ i \in enable[d] => c = d

IInv ==
  /\ TypeOK
  /\ LineFollowsRegisters
  /\ ClaimsArePending
  /\ OneOwner
  /\ UnsharedIsLevelTriggered

-----------------------------------------------------------------------------
(* The sizes of the words and of the priority registers.                   *)

(* Every source has a bit in the words, and 0 is a priority.               *)
LEMMA Sizes == Sources \subseteq Ids /\ 0 \in Priorities /\ 0 \notin Sources
<1>1. NumIdsWord * WordSize >= NumIds
  <2> DEFINE q == (NumIds + WordSize - 1) \div WordSize
             a == NumIds + WordSize - 1
  <2>1. a \in Nat /\ WordSize \in Nat \ {0} /\ NumIds \in Nat
    BY SizesAssumption DEF NumIds
  <2>2. a = WordSize * q + (a % WordSize) /\ a % WordSize \in 0 .. WordSize - 1 /\ q \in Int
    BY <2>1, SMT
  <2> QED BY <2>1, <2>2, SMT DEF NumIdsWord, NumIds
<1>2. NumIdsWord \in Int /\ NDev \in Nat /\ WordSize \in Nat
  BY SizesAssumption DEF NumIdsWord, NumIds
<1>3. Sources \subseteq Ids /\ 0 \notin Sources
  BY <1>1, <1>2 DEF Sources, Ids, NumIds
<1>4. 0 \in Priorities
  <2> DEFINE m == 2 ^ PrioBits
  <2>1. m \in Nat \ {0} BY SizesAssumption
  <2>2. 0 \in 0 .. m - 1 BY <2>1
  <2> QED BY <2>2 DEF Priorities
<1> QED BY <1>3, <1>4

(* A written value is cut to the bits of the register.                     *)
LEMMA MaskedType == ASSUME NEW v \in Values PROVE Masked(v) \in Priorities
<1> DEFINE m == 2 ^ PrioBits
<1>1. m \in Nat \ {0} /\ v \in Nat BY SizesAssumption
<1>2. v % m \in 0 .. m - 1 BY <1>1
<1> QED BY <1>2 DEF Masked, Priorities

-----------------------------------------------------------------------------
(* The operations, as a step of the specification sees them: which context *)
(* an operation touches and which inputs it has.                           *)

(* A step is one of the operations or leaves everything as it is.          *)
LEMMA StepCases ==
  ASSUME [Next]_vars
  PROVE  \/ \E c \in Contexts, w \in 0 .. NumIdsWord - 1 :
              \E val \in SUBSET WordIds(w) : EnableWrite(c, w, val)
         \/ \E c \in Contexts, v \in Values : ThresholdWrite(c, v)
         \/ \E c \in Contexts : ClaimRead(c)
         \/ \E c \in Contexts, id \in Ids : Complete(c, id)
         \/ \E id \in Ids, v \in Values : PriorityWrite(id, v)
         \/ \E id \in Sources : Raise(id)
         \/ \E id \in Sources : Lower(id)
         \/ UNCHANGED vars
<1> QED BY Zenon DEF Next, Software

(* The sources an enabling store makes pending and those it disables.      *)
LEMMA TurnedTypes ==
  ASSUME TypeOK, NEW c \in Contexts, NEW w, NEW val
  PROVE  /\ TurnedOn(c, w, val) \subseteq level
         /\ TurnedOn(c, w, val) \subseteq Sources
         /\ TurnedOn(c, w, val) \subseteq Selected(w, val)
         /\ Selected(w, val) \subseteq WordIds(w)
         /\ WordIds(w) \subseteq Ids
<1> QED BY DEF TypeOK, TurnedOn, Selected, WordIds

LEMMA TypeStep == ASSUME TypeOK, [Next]_vars PROVE TypeOK'
<1> USE Sizes DEF TypeOK
<1>1. ASSUME NEW c \in Contexts, NEW w \in 0 .. NumIdsWord - 1,
             NEW val \in SUBSET WordIds(w), EnableWrite(c, w, val)
      PROVE  TypeOK'
  <2>1. shared' \subseteq Ids
    BY <1>1, TurnedTypes DEF EnableWrite
  <2>2. enable' \in [Contexts -> SUBSET Ids]
    BY <1>1, TurnedTypes DEF EnableWrite
  <2>3. pending' \in [Contexts -> SUBSET Sources]
    BY <1>1, TurnedTypes DEF EnableWrite
  <2>4. pendingPriority' \in [Contexts -> [Ids -> Priorities]]
    BY <1>1, TurnedTypes DEF EnableWrite
  <2>5. claimed' \in [Contexts -> SUBSET Sources] /\ mip' \in [Contexts -> BOOLEAN]
    BY <1>1 DEF EnableWrite, ContextUpdate
  <2>6. UNCHANGED <<priority, level, threshold>>
    BY <1>1 DEF EnableWrite, lines
  <2> QED BY <2>1, <2>2, <2>3, <2>4, <2>5, <2>6
<1>2. ASSUME NEW c \in Contexts, NEW v \in Values, ThresholdWrite(c, v) PROVE TypeOK'
  BY <1>2, MaskedType DEF ThresholdWrite, ContextUpdate, lines
<1>3. ASSUME NEW c \in Contexts, ClaimRead(c) PROVE TypeOK'
  BY <1>3 DEF ClaimRead, ContextUpdate, lines
<1>4. ASSUME NEW c \in Contexts, NEW id \in Ids, Complete(c, id) PROVE TypeOK'
  BY <1>4 DEF Complete, ContextUpdate, lines
<1>5. ASSUME NEW id \in Ids, NEW v \in Values, PriorityWrite(id, v) PROVE TypeOK'
  BY <1>5, MaskedType DEF PriorityWrite, bits
<1>6. ASSUME NEW id \in Sources, Raise(id) PROVE TypeOK'
  <2>1. level' \subseteq Sources /\ UNCHANGED <<priority, shared>>
    BY <1>6 DEF Raise
  <2>2. CASE UNCHANGED bits
    BY <2>1, <2>2 DEF bits
  <2>3. ASSUME NEW c \in Contexts, RaiseAt(c, id) PROVE TypeOK'
    <3>1. pendingPriority' \in [Contexts -> [Ids -> Priorities]]
      BY <2>3, SMTT(30) DEF RaiseAt
    <3>2. pending' \in [Contexts -> SUBSET Sources] /\ claimed' \in [Contexts -> SUBSET Sources]
      BY <2>3 DEF RaiseAt
    <3>3. mip' \in [Contexts -> BOOLEAN] /\ UNCHANGED <<enable, threshold>>
      BY <2>3 DEF RaiseAt, ContextUpdate
    <3> QED BY <2>1, <3>1, <3>2, <3>3
  <2> QED BY <1>6, <2>2, <2>3 DEF Raise, NobodyHears
<1>7. ASSUME NEW id \in Sources, Lower(id) PROVE TypeOK'
  <2>1. level' \subseteq Sources /\ UNCHANGED <<priority, shared>>
    BY <1>7 DEF Lower
  <2>2. CASE UNCHANGED bits
    BY <2>1, <2>2 DEF bits
  <2>3. ASSUME NEW c \in Contexts, LowerAt(c, id) PROVE TypeOK'
    <3>1. pendingPriority' \in [Contexts -> [Ids -> Priorities]]
      BY <2>3, SMTT(30) DEF LowerAt
    <3>2. pending' \in [Contexts -> SUBSET Sources] /\ claimed' \in [Contexts -> SUBSET Sources]
      BY <2>3 DEF LowerAt
    <3>3. mip' \in [Contexts -> BOOLEAN] /\ UNCHANGED <<enable, threshold>>
      BY <2>3 DEF LowerAt, ContextUpdate
    <3> QED BY <2>1, <3>1, <3>2, <3>3
  <2> QED BY <1>7, <2>2, <2>3 DEF Lower, NobodyHears
<1>8. CASE UNCHANGED vars
  BY <1>8 DEF vars, lines, bits
<1> QED BY <1>1, <1>2, <1>3, <1>4, <1>5, <1>6, <1>7, <1>8, StepCases

LEMMA InitTypes == Init => TypeOK
<1> QED BY Sizes DEF Init, TypeOK

(* Every register keeps a value of its width.                              *)
THEOREM TypeCorrect == Spec => []TypeOK
<1> QED BY InitTypes, TypeStep, PTL DEF Spec

-----------------------------------------------------------------------------
(* The mip bits.                                                           *)

(* The registers a hart's bit depends on are as they were.                 *)
Untouched(d) ==
  /\ pending'[d] = pending[d]
  /\ pendingPriority'[d] = pendingPriority[d]
  /\ claimed'[d] = claimed[d]
  /\ threshold'[d] = threshold[d]

(* A step that changes the registers of a context updates its bit, and     *)
(* touches no other context.                                               *)
LEMMA OneContext ==
  ASSUME TypeOK, [Next]_vars
  PROVE  \/ mip' = mip /\ \A d \in Contexts : Untouched(d)
         \/ \E c \in Contexts : ContextUpdate(c) /\ \A d \in Contexts \ {c} : Untouched(d)
<1> USE DEF Untouched
<1>1. ASSUME NEW c \in Contexts, NEW w \in 0 .. NumIdsWord - 1,
             NEW val \in SUBSET WordIds(w), EnableWrite(c, w, val)
      PROVE  ContextUpdate(c) /\ \A d \in Contexts \ {c} : Untouched(d)
  BY <1>1 DEF EnableWrite, TypeOK
<1>2. ASSUME NEW c \in Contexts, NEW v \in Values, ThresholdWrite(c, v)
      PROVE  ContextUpdate(c) /\ \A d \in Contexts \ {c} : Untouched(d)
  BY <1>2 DEF ThresholdWrite, TypeOK
<1>3. ASSUME NEW c \in Contexts, ClaimRead(c)
      PROVE  ContextUpdate(c) /\ \A d \in Contexts \ {c} : Untouched(d)
  BY <1>3 DEF ClaimRead, TypeOK
<1>4. ASSUME NEW c \in Contexts, NEW id \in Ids, Complete(c, id)
      PROVE  ContextUpdate(c) /\ \A d \in Contexts \ {c} : Untouched(d)
  BY <1>4 DEF Complete, TypeOK
<1>5. ASSUME NEW id \in Ids, NEW v \in Values, PriorityWrite(id, v)
      PROVE  mip' = mip /\ \A d \in Contexts : Untouched(d)
  BY <1>5 DEF PriorityWrite, bits
<1>6. ASSUME NEW id \in Sources, NEW c \in Contexts, RaiseAt(c, id)
      PROVE  ContextUpdate(c) /\ \A d \in Contexts \ {c} : Untouched(d)
  BY <1>6 DEF RaiseAt, TypeOK
<1>7. ASSUME NEW id \in Sources, NEW c \in Contexts, LowerAt(c, id)
      PROVE  ContextUpdate(c) /\ \A d \in Contexts \ {c} : Untouched(d)
  BY <1>7 DEF LowerAt, TypeOK
<1>8. ASSUME NEW id, NobodyHears(id) PROVE mip' = mip /\ \A d \in Contexts : Untouched(d)
  BY <1>8 DEF NobodyHears, bits
<1>9. CASE UNCHANGED vars
  BY <1>9 DEF vars, bits
<1> HIDE DEF Untouched
<1>10. \A id \in Sources : Raise(id) => NobodyHears(id) \/ \E c \in Contexts : RaiseAt(c, id)
  BY Zenon DEF Raise
<1>11. \A id \in Sources : Lower(id) => NobodyHears(id) \/ \E c \in Contexts : LowerAt(c, id)
  BY Zenon DEF Lower
<1> QED
  BY <1>1, <1>2, <1>3, <1>4, <1>5, <1>6, <1>7, <1>8, <1>9, <1>10, <1>11, StepCases, Zenon

LEMMA LineStep ==
  ASSUME TypeOK, LineFollowsRegisters, [Next]_vars
  PROVE  LineFollowsRegisters'
<1>1. ASSUME NEW d \in Contexts, Untouched(d) PROVE Waiting(d)' = Waiting(d)
  BY <1>1 DEF Untouched, Waiting
<1>2. CASE mip' = mip /\ \A d \in Contexts : Untouched(d)
  BY <1>1, <1>2 DEF LineFollowsRegisters
<1>3. ASSUME NEW c \in Contexts, ContextUpdate(c), \A d \in Contexts \ {c} : Untouched(d)
      PROVE  LineFollowsRegisters'
  <2> SUFFICES ASSUME NEW d \in Contexts PROVE mip'[d] <=> Waiting(d)' # {}
    BY DEF LineFollowsRegisters
  <2>1. mip \in [Contexts -> BOOLEAN] /\ (mip[d] <=> Waiting(d) # {})
    BY DEF TypeOK, LineFollowsRegisters
  <2>2. CASE d = c
    <3>1. mip'[c] = (Waiting(c)' # {}) BY <1>3, <2>1 DEF ContextUpdate
    <3> QED BY <2>2, <3>1
  <2>3. CASE d # c
    <3>1. mip'[d] = mip[d] BY <1>3, <2>1, <2>3 DEF ContextUpdate
    <3> QED BY <1>1, <1>3, <2>1, <2>3, <3>1
  <2> QED BY <2>2, <2>3
<1> QED BY <1>2, <1>3, OneContext, Zenon

LEMMA InitLine == Init => LineFollowsRegisters
<1> QED BY DEF Init, LineFollowsRegisters, Waiting

(* A hart is interrupted exactly while its context has something to hand   *)
(* out.                                                                    *)
THEOREM LineCorrect == Spec => []LineFollowsRegisters
<1>1. TypeOK /\ LineFollowsRegisters /\ [Next]_vars => (TypeOK /\ LineFollowsRegisters)'
  BY TypeStep, LineStep
<1> QED BY InitTypes, InitLine, <1>1, PTL DEF Spec

-----------------------------------------------------------------------------
(* Claims, and the sources of one context.                                 *)

LEMMA ClaimsStep ==
  ASSUME TypeOK, ClaimsArePending, [Next]_vars
  PROVE  ClaimsArePending'
<1> USE DEF TypeOK, ClaimsArePending
<1>1. ASSUME NEW c \in Contexts, NEW w \in 0 .. NumIdsWord - 1,
             NEW val \in SUBSET WordIds(w), EnableWrite(c, w, val)
      PROVE  ClaimsArePending'
  <2> SUFFICES ASSUME NEW d \in Contexts
               PROVE  /\ claimed'[d] \subseteq pending'[d]
                      /\ pending'[d] \subseteq enable'[d]
                      /\ \A i \in Ids \ pending'[d] : pendingPriority'[d][i] = 0
    OBVIOUS
  <2>1. CASE d # c
    BY <1>1, <2>1 DEF EnableWrite
  <2>2. CASE d = c
    <3> DEFINE on == TurnedOn(c, w, val)
               off == TurnedOff(c, w, val)
    <3>1. on \cap off = {} BY DEF TurnedOn, TurnedOff
    <3>2. claimed'[c] = claimed[c] \ off /\ pending'[c] = (pending[c] \ off) \cup on
      BY <1>1 DEF EnableWrite
    <3>3. pendingPriority'[c] =
            [i \in Ids |-> IF i \in on THEN priority[i]
                           ELSE IF i \in off THEN 0 ELSE pendingPriority[c][i]]
      BY <1>1 DEF EnableWrite
    <3>4. enable'[c] = (enable[c] \ WordIds(w)) \cup Selected(w, val)
      BY <1>1 DEF EnableWrite
    <3>5. on \subseteq Selected(w, val) /\ off = (enable[c] \cap WordIds(w)) \ Selected(w, val)
      BY DEF TurnedOn, TurnedOff
    <3> HIDE DEF on, off
    <3>6. claimed'[c] \subseteq pending'[c] BY <3>2
    <3>7. pending'[c] \subseteq enable'[c] BY <3>2, <3>4, <3>5
    <3>8. \A i \in Ids \ pending'[c] : pendingPriority'[c][i] = 0 BY <3>2, <3>3
    <3> QED BY <2>2, <3>6, <3>7, <3>8
  <2> QED BY <2>1, <2>2
<1>2. ASSUME NEW c \in Contexts, NEW v \in Values, ThresholdWrite(c, v) PROVE ClaimsArePending'
  BY <1>2 DEF ThresholdWrite
<1>3. ASSUME NEW c \in Contexts, ClaimRead(c) PROVE ClaimsArePending'
  BY <1>3 DEF ClaimRead, MostUrgent, Waiting
<1>4. ASSUME NEW c \in Contexts, NEW id \in Ids, Complete(c, id) PROVE ClaimsArePending'
  BY <1>4 DEF Complete
<1>5. ASSUME NEW id \in Ids, NEW v \in Values, PriorityWrite(id, v) PROVE ClaimsArePending'
  BY <1>5 DEF PriorityWrite, bits
<1>6. ASSUME NEW id \in Sources, NEW c \in Contexts, RaiseAt(c, id) PROVE ClaimsArePending'
  BY <1>6, Sizes DEF RaiseAt, Hears
<1>7. ASSUME NEW id \in Sources, NEW c \in Contexts, LowerAt(c, id) PROVE ClaimsArePending'
  BY <1>7, Sizes DEF LowerAt, Hears
<1>8. ASSUME NEW id, NobodyHears(id) PROVE ClaimsArePending'
  BY <1>8 DEF NobodyHears, bits
<1>9. CASE UNCHANGED vars
  BY <1>9 DEF vars, bits
<1> QED
  BY <1>1, <1>2, <1>3, <1>4, <1>5, <1>6, <1>7, <1>8, <1>9, StepCases DEF Raise, Lower

LEMMA OwnerStep ==
  ASSUME TypeOK, OneOwner, [Next]_vars
  PROVE  OneOwner'
<1>1. ASSUME NEW c \in Contexts, NEW w \in 0 .. NumIdsWord - 1,
             NEW val \in SUBSET WordIds(w), EnableWrite(c, w, val)
      PROVE  OneOwner'
  <2> SUFFICES ASSUME NEW i \in Ids \ shared', NEW d \in Contexts, NEW e \in Contexts,
                      i \in enable'[d], i \in enable'[e], d # e
               PROVE  FALSE
    BY DEF OneOwner
  <2>1. i \notin shared
    BY <1>1 DEF EnableWrite
  <2>2. \A f \in Contexts \ {c} : enable'[f] = enable[f]
    BY <1>1 DEF EnableWrite, TypeOK
  <2>3. enable'[c] \subseteq enable[c] \cup Selected(w, val)
    BY <1>1 DEF EnableWrite, TypeOK
  <2>4. i \in Selected(w, val) => \A f \in Contexts \ {c} : i \notin enable[f]
    BY <1>1 DEF EnableWrite
  <2> QED BY <2>1, <2>2, <2>3, <2>4 DEF OneOwner
<1>2. CASE UNCHANGED <<enable, shared>>
  BY <1>2 DEF OneOwner
<1>3. \/ UNCHANGED <<enable, shared>>
      \/ \E c \in Contexts, w \in 0 .. NumIdsWord - 1 :
           \E val \in SUBSET WordIds(w) : EnableWrite(c, w, val)
  BY StepCases DEF ThresholdWrite, ClaimRead, Complete, PriorityWrite, Raise, Lower,
                   NobodyHears, RaiseAt, LowerAt, bits, vars
<1> QED BY <1>1, <1>2, <1>3


(* The only context of an unshared source is the one that hears its line.  *)
LEMMA LevelStep ==
  ASSUME TypeOK, ClaimsArePending, OneOwner, UnsharedIsLevelTriggered, [Next]_vars
  PROVE  UnsharedIsLevelTriggered'
<1> USE DEF TypeOK, UnsharedIsLevelTriggered
<1>1. ASSUME NEW c \in Contexts, NEW w \in 0 .. NumIdsWord - 1,
             NEW val \in SUBSET WordIds(w), EnableWrite(c, w, val)
      PROVE  UnsharedIsLevelTriggered'
  <2> SUFFICES ASSUME NEW i \in Sources \ shared', NEW d \in Contexts
               PROVE  i \in pending'[d] <=> i \in level' /\ i \in enable'[d]
    OBVIOUS
  <2>1. i \notin shared /\ level' = level
    BY <1>1 DEF EnableWrite, lines
  <2>2. i \in pending[d] <=> i \in level /\ i \in enable[d]
    BY <2>1
  <2>3. CASE d # c
    BY <1>1, <2>1, <2>2, <2>3 DEF EnableWrite
  <2>4. CASE d = c
    <3> DEFINE on == TurnedOn(c, w, val)
               off == TurnedOff(c, w, val)
    <3>1. pending'[c] = (pending[c] \ off) \cup on
      BY <1>1 DEF EnableWrite
    <3>2. enable'[c] = (enable[c] \ WordIds(w)) \cup Selected(w, val)
      BY <1>1 DEF EnableWrite
    <3>3. /\ on = (Selected(w, val) \ enable[c]) \cap level
          /\ off = (enable[c] \cap WordIds(w)) \ Selected(w, val)
          /\ Selected(w, val) \subseteq WordIds(w)
      BY DEF TurnedOn, TurnedOff, Selected
    <3> HIDE DEF on, off
    <3> QED BY <2>1, <2>2, <2>4, <3>1, <3>2, <3>3
  <2> QED BY <2>3, <2>4
<1>2. ASSUME NEW id \in Sources, Raise(id) PROVE UnsharedIsLevelTriggered'
  <2>1. level' = level \cup {id} /\ UNCHANGED shared
    BY <1>2 DEF Raise
  <2>2. CASE NobodyHears(id)
    BY <2>1, <2>2 DEF NobodyHears, bits
  <2>3. ASSUME NEW c \in Contexts, RaiseAt(c, id) PROVE UnsharedIsLevelTriggered'
    <3>1. UNCHANGED enable /\ id \in enable[c]
      BY <2>3 DEF RaiseAt, Hears
    <3>2. pending' = [pending EXCEPT ![c] = @ \cup {id}]
      BY <2>3 DEF RaiseAt
    <3>3. id \notin shared => \A d \in Contexts \ {c} : id \notin enable[d]
      BY <3>1, Sizes DEF OneOwner
    <3> QED BY <2>1, <3>1, <3>2, <3>3
  <2> QED BY <1>2, <2>2, <2>3 DEF Raise
<1>3. ASSUME NEW id \in Sources, Lower(id) PROVE UnsharedIsLevelTriggered'
  <2>1. level' = level \ {id} /\ UNCHANGED shared
    BY <1>3 DEF Lower
  <2>2. CASE NobodyHears(id)
    BY <2>1, <2>2 DEF NobodyHears, bits
  <2>3. ASSUME NEW c \in Contexts, LowerAt(c, id) PROVE UnsharedIsLevelTriggered'
    <3>1. UNCHANGED enable /\ id \in enable[c]
      BY <2>3 DEF LowerAt, Hears
    <3>2. pending' = [pending EXCEPT ![c] = @ \ {id}]
      BY <2>3 DEF LowerAt
    <3>3. id \notin shared => \A d \in Contexts \ {c} : id \notin enable[d]
      BY <3>1, Sizes DEF OneOwner
    <3> QED BY <2>1, <3>1, <3>2, <3>3
  <2> QED BY <1>3, <2>2, <2>3 DEF Lower
<1>4. CASE UNCHANGED <<level, enable, pending, shared>>
  BY <1>4
<1>5. \/ UNCHANGED <<level, enable, pending, shared>>
      \/ \E id \in Sources : Raise(id) \/ Lower(id)
      \/ \E c \in Contexts, w \in 0 .. NumIdsWord - 1 :
           \E val \in SUBSET WordIds(w) : EnableWrite(c, w, val)
  BY StepCases DEF ThresholdWrite, ClaimRead, Complete, PriorityWrite, lines, bits, vars
<1> QED BY <1>1, <1>2, <1>3, <1>4, <1>5

LEMMA InitIInv == Init => IInv
<1> SUFFICES ASSUME Init PROVE IInv OBVIOUS
<1>1. TypeOK /\ LineFollowsRegisters BY InitTypes, InitLine
<1>2. ClaimsArePending /\ OneOwner /\ UnsharedIsLevelTriggered
  BY DEF Init, ClaimsArePending, OneOwner, UnsharedIsLevelTriggered
<1> QED BY <1>1, <1>2 DEF IInv

LEMMA AlwaysIInv == Spec => []IInv
<1>1. IInv /\ [Next]_vars => IInv'
  BY TypeStep, LineStep, ClaimsStep, OwnerStep, LevelStep DEF IInv
<1> QED BY InitIInv, <1>1, PTL DEF Spec

(* A claim is held only on a pending source, and only an enabled source is *)
(* pending: whatever disables a source or lowers its line ends the claim.  *)
THEOREM ClaimsHeld == Spec => []ClaimsArePending
<1>1. IInv => ClaimsArePending BY DEF IInv
<1> QED BY AlwaysIInv, <1>1, PTL

(* A source kept to one context at a time is pending where it is enabled   *)
(* exactly while its line is high.                                         *)
THEOREM UnsharedLevel == Spec => []UnsharedIsLevelTriggered
<1>1. IInv => UnsharedIsLevelTriggered BY DEF IInv
<1> QED BY AlwaysIInv, <1>1, PTL

(* Such a source is never claimed in two contexts, however it was moved    *)
(* between them.                                                           *)
THEOREM UnsharedOneHandler == Spec => []UnsharedClaimedOnce
<1>1. IInv => UnsharedClaimedOnce
  <2> SUFFICES ASSUME IInv, NEW i \in Sources \ shared, NEW c \in Contexts, NEW d \in Contexts,
                      i \in claimed[c], i \in claimed[d]
               PROVE  c = d
    BY DEF UnsharedClaimedOnce
  <2>1. i \in enable[c] /\ i \in enable[d]
    BY DEF IInv, ClaimsArePending
  <2> QED BY <2>1, Sizes DEF IInv, OneOwner
<1> QED BY AlwaysIInv, <1>1, PTL

-----------------------------------------------------------------------------
LEMMA ClaimEnds ==
  ASSUME TypeOK, [Next]_vars, NEW c \in Contexts, NEW i \in claimed[c] \ claimed'[c]
  PROVE  Complete(c, i) \/ Lower(i) \/ i \in enable[c] \ enable'[c]
<1> USE DEF TypeOK
<1>1. ASSUME NEW d \in Contexts, NEW w \in 0 .. NumIdsWord - 1,
             NEW val \in SUBSET WordIds(w), EnableWrite(d, w, val)
      PROVE  i \in enable[c] \ enable'[c]
  <2>1. claimed' = [claimed EXCEPT ![d] = @ \ TurnedOff(d, w, val)]
    BY <1>1 DEF EnableWrite
  <2>2. d = c /\ i \in TurnedOff(c, w, val)
    BY <2>1
  <2>3. enable'[c] = (enable[c] \ WordIds(w)) \cup Selected(w, val)
    BY <1>1, <2>2 DEF EnableWrite
  <2> QED BY <2>2, <2>3 DEF TurnedOff
<1>2. ASSUME NEW d \in Contexts, NEW id \in Ids, Complete(d, id) PROVE Complete(c, i)
  <2>1. d = c /\ id = i
    BY <1>2 DEF Complete
  <2> QED BY <1>2, <2>1
<1>3. ASSUME NEW id \in Sources, Lower(id) PROVE Lower(i)
  <2>1. ~ NobodyHears(id) /\ \A d \in Contexts : LowerAt(d, id) => d = c /\ id = i
    BY DEF LowerAt, NobodyHears, bits
  <2> QED BY <1>3, <2>1 DEF Lower
<1>4. CASE UNCHANGED claimed
  BY <1>4
<1>5. ASSUME NEW d \in Contexts, ClaimRead(d) PROVE FALSE
  BY <1>5 DEF ClaimRead
<1>6. \/ UNCHANGED claimed
      \/ \E d \in Contexts : ClaimRead(d)
      \/ \E id \in Sources : Lower(id)
      \/ \E d \in Contexts, id \in Ids : Complete(d, id)
      \/ \E d \in Contexts, w \in 0 .. NumIdsWord - 1 :
           \E val \in SUBSET WordIds(w) : EnableWrite(d, w, val)
  BY StepCases DEF ThresholdWrite, PriorityWrite, Raise, RaiseAt, NobodyHears, bits, vars
<1> QED BY <1>1, <1>2, <1>3, <1>4, <1>5, <1>6

(* An interrupt leaves its handler only by completion, by a disabling      *)
(* store in the handler's own context or by its device lowering the line.  *)
THEOREM ClaimEndsTheorem == Spec => ClaimEndsAtHome
<1>1. TypeOK /\ [Next]_vars =>
        [\A c \in Contexts : \A i \in claimed[c] \ claimed'[c] :
           Complete(c, i) \/ Lower(i) \/ i \in enable[c] \ enable'[c]]_vars
  BY ClaimEnds
<1> QED BY TypeCorrect, <1>1, PTL DEF Spec, ClaimEndsAtHome
-----------------------------------------------------------------------------
(* The scan for the most urgent source.                                    *)

(* A set of numbers has a least one, and holds every number if it holds 0  *)
(* and the successor of each it holds.                                     *)
LEMMA LeastNumber ==
  ASSUME NEW T \in SUBSET Nat, T # {}
  PROVE  \E n \in T : \A m \in T : n <= m
<1>1. PICK R : R = OpToRel(<, Nat)
  OBVIOUS
<1>2. IsWellFoundedOn(R, Nat)
  BY <1>1, NatLessThanWellFounded
<1>3. PICK n \in T : \A m \in T : ~ (<<m, n>> \in R)
  BY <1>2, WFMin
<1>4. \A k, m \in Nat : m < k => <<m, k>> \in R
  BY <1>1 DEF OpToRel
<1>5. \A m \in T : ~ (m < n)
  BY <1>3, <1>4
<1>6. QED BY <1>3, <1>5

LEMMA Induction ==
  ASSUME NEW T, 0 \in T, \A n \in Nat : n \in T => n + 1 \in T
  PROVE  Nat \subseteq T
<1> SUFFICES ASSUME Nat \ T # {} PROVE FALSE
  OBVIOUS
<1>1. PICK n \in Nat \ T : \A m \in Nat \ T : n <= m
  BY LeastNumber
<1>2. n # 0 /\ n - 1 \in Nat
  BY <1>1
<1>3. n - 1 \in T
  BY <1>1, <1>2
<1> QED BY <1>1, <1>2, <1>3

(* One step of the scan: what it has found at n from what it had found.    *)
Better(W, prio, best, n) ==
  IF n \in W /\ (best = 0 \/ prio[best] < prio[n]) THEN n ELSE best

(* The scan of the sources up to m, as a function of how far it has come.  *)
IsScan(f, W, prio, m) ==
  f = [n \in 0 .. m |-> IF n = 0 THEN 0 ELSE Better(W, prio, f[n - 1], n)]

(* There is one.                                                           *)
LEMMA ScanDefined ==
  ASSUME NEW W, NEW prio, NEW m \in Nat
  PROVE  \E f : IsScan(f, W, prio, m)
<1>1. PICK T : T = {k \in Nat : \E f : IsScan(f, W, prio, k)}
  OBVIOUS
<1>2. 0 \in T
  <2>1. IsScan([n \in 0 .. 0 |-> 0], W, prio, 0)
    BY DEF IsScan
  <2> QED BY <1>1, <2>1
<1>3. ASSUME NEW k \in Nat, k \in T PROVE k + 1 \in T
  <2>1. PICK g : IsScan(g, W, prio, k)
    BY <1>1, <1>3
  <2>2. PICK f : f = [n \in 0 .. (k + 1) |-> IF n = k + 1 THEN Better(W, prio, g[k], n) ELSE g[n]]
    OBVIOUS
  <2>3. ASSUME NEW n \in 0 .. (k + 1)
        PROVE  f[n] = IF n = 0 THEN 0 ELSE Better(W, prio, f[n - 1], n)
    <3>1. CASE n = k + 1
      BY <2>2, <3>1
    <3>2. CASE n \in 0 .. k
      <4>1. f[n] = g[n] /\ (n # 0 => f[n - 1] = g[n - 1])
        BY <2>2, <3>2
      <4> QED BY <2>1, <3>2, <4>1 DEF IsScan
    <3> QED BY <3>1, <3>2
  <2>4. IsScan(f, W, prio, k + 1)
    BY <2>2, <2>3 DEF IsScan
  <2> QED BY <1>1, <2>4
<1>4. m \in T
  BY <1>2, <1>3, Induction
<1> QED BY <1>1, <1>4

(* The most urgent of a set of sources: what the scan is to find in it.    *)
Leads(W, prio, i) ==
  i \in W /\ \A j \in W \ {i} : prio[j] < prio[i] \/ (prio[j] = prio[i] /\ i < j)

(* The first of a set leads it; one more source takes the lead when its    *)
(* priority is higher.                                                     *)
LEMMA OneLeads == ASSUME NEW prio, NEW i PROVE Leads({i}, prio, i)
<1> QED BY DEF Leads

LEMMA NextLeads ==
  ASSUME NEW W, NEW prio, NEW n \in Nat, n > 0, NEW b, Leads(W, prio, b), b # 0,
         \A j \in W : j \in Nat /\ j < n /\ prio[j] \in Nat,
         prio[n] \in Nat
  PROVE  Leads(W \cup {n}, prio, Better(W \cup {n}, prio, b, n))
<1>1. n \notin W
  OBVIOUS
<1>2. CASE prio[b] < prio[n]
  <2>1. Better(W \cup {n}, prio, b, n) = n
    BY <1>2 DEF Better
  <2>2. ASSUME NEW j \in (W \cup {n}) \ {n} PROVE prio[j] < prio[n]
    BY <1>2 DEF Leads
  <2> QED BY <2>1, <2>2 DEF Leads
<1>3. CASE ~ (prio[b] < prio[n])
  <2>1. Better(W \cup {n}, prio, b, n) = b /\ b \in W
    BY <1>3 DEF Better, Leads
  <2>2. ASSUME NEW j \in (W \cup {n}) \ {b}
        PROVE  prio[j] < prio[b] \/ (prio[j] = prio[b] /\ b < j)
    BY <1>3, <2>1, <2>2 DEF Leads
  <2> QED BY <2>1, <2>2 DEF Leads
<1> QED BY <1>2, <1>3

(* By induction on how far it has come, the scan finds the leader.         *)
LEMMA ScanLeads ==
  ASSUME NEW m \in Nat, NEW W \in SUBSET (1 .. m), NEW prio,
         \A j \in W : prio[j] \in Nat,
         NEW scan, scan[0] = 0,
         \A n \in 0 .. m : n # 0 => scan[n] = Better(W, prio, scan[n - 1], n)
  PROVE  IF W = {} THEN scan[m] = 0 ELSE Leads(W, prio, scan[m])
<1> DEFINE Found(V, b) == IF V = {} THEN b = 0 ELSE Leads(V, prio, b)
<1>1. PICK T : T = {n \in Nat : n \in 0 .. m => Found(W \cap (1 .. n), scan[n])}
  OBVIOUS
<1>2. 0 \in T
  <2>1. W \cap (1 .. 0) = {} /\ scan[0] = 0
    OBVIOUS
  <2> QED BY <1>1, <2>1
<1>3. ASSUME NEW n \in Nat, n \in T PROVE n + 1 \in T
  <2> SUFFICES ASSUME n + 1 \in 0 .. m PROVE Found(W \cap (1 .. (n + 1)), scan[n + 1])
    BY <1>1
  <2>1. PICK V : V = W \cap (1 .. n)
    OBVIOUS
  <2>2. PICK b : b = scan[n]
    OBVIOUS
  <2>3. Found(V, b)
    BY <1>1, <1>3, <2>1, <2>2
  <2>4. scan[n + 1] = Better(W, prio, b, n + 1)
    BY <2>2
  <2>5. CASE n + 1 \notin W
    <3>1. W \cap (1 .. (n + 1)) = V
      BY <2>1, <2>5
    <3>2. scan[n + 1] = b
      BY <2>4, <2>5 DEF Better
    <3> QED BY <2>3, <3>1, <3>2
  <2>6. CASE n + 1 \in W
    <3>1. W \cap (1 .. (n + 1)) = V \cup {n + 1}
      BY <2>1, <2>6
    <3>2. scan[n + 1] = Better(V \cup {n + 1}, prio, b, n + 1)
      BY <2>4, <2>6 DEF Better
    <3>3. CASE V = {}
      <4>1. scan[n + 1] = n + 1 /\ V \cup {n + 1} = {n + 1}
        BY <2>3, <3>2, <3>3 DEF Better
      <4>2. Leads({n + 1}, prio, n + 1)
        BY OneLeads
      <4> QED BY <3>1, <4>1, <4>2
    <3>4. CASE V # {}
      <4>1. Leads(V, prio, b)
        BY <2>3, <3>4
      <4>2. b # 0
        BY <2>1, <4>1 DEF Leads
      <4>3. \A j \in V : j \in Nat /\ j < n + 1 /\ prio[j] \in Nat
        BY <2>1
      <4>4. n + 1 \in Nat /\ n + 1 > 0 /\ prio[n + 1] \in Nat
        BY <2>6
      <4>5. Leads(V \cup {n + 1}, prio, scan[n + 1])
        BY <3>2, <4>1, <4>2, <4>3, <4>4, NextLeads
      <4> QED BY <3>1, <4>5
    <3> QED BY <3>3, <3>4
  <2> QED BY <2>5, <2>6
<1> HIDE DEF Found
<1>4. m \in T
  BY <1>2, <1>3, Induction
<1>5. W \cap (1 .. m) = W
  OBVIOUS
<1> QED BY <1>1, <1>4, <1>5 DEF Found

(* The scan of a context's pending and unclaimed sources finds what may be *)
(* handed out.                                                             *)
LEMMA ScanStep == TypeOK => ScanFindsMostUrgent
<1> SUFFICES ASSUME TypeOK, NEW c \in Contexts
             PROVE  IF Waiting(c) = {} THEN Scan(c) = 0 ELSE MostUrgent(c, Scan(c))
  BY DEF ScanFindsMostUrgent
<1>1. PICK W : W = pending[c] \ claimed[c]
  OBVIOUS
<1>2. PICK prio : prio = pendingPriority[c]
  OBVIOUS
<1>0. NDev \in Nat
  BY SizesAssumption
<1>3. \E f : IsScan(f, W, prio, NDev)
  BY <1>0, ScanDefined
<1> DEFINE scan == CHOOSE f : IsScan(f, W, prio, NDev)
<1>4. IsScan(scan, W, prio, NDev)
  BY <1>3, Zenon
<1>5. Scan(c) = IF scan[NDev] # 0 /\ prio[scan[NDev]] > threshold[c] THEN scan[NDev] ELSE 0
  BY <1>1, <1>2 DEF Scan, Better, IsScan
<1> HIDE DEF scan
<1>6. scan[0] = 0 /\ \A n \in 0 .. NDev : n # 0 => scan[n] = Better(W, prio, scan[n - 1], n)
  BY <1>0, <1>4 DEF IsScan
<1>7. W \in SUBSET (1 .. NDev) /\ \A j \in W : prio[j] \in Nat
  <2>1. W \subseteq Sources /\ Sources = 1 .. NDev
    BY <1>1 DEF TypeOK, Sources
  <2>2. \A j \in Ids : prio[j] \in Priorities
    BY <1>2 DEF TypeOK
  <2>3. Priorities \subseteq Nat
    BY SizesAssumption DEF Priorities
  <2> QED BY <2>1, <2>2, <2>3, Sizes
<1>8. PICK i : i = scan[NDev]
  OBVIOUS
<1>9. IF W = {} THEN i = 0 ELSE Leads(W, prio, i)
  BY <1>0, <1>6, <1>7, <1>8, ScanLeads
<1>10. Waiting(c) = {j \in W : prio[j] > threshold[c]}
  BY <1>1, <1>2 DEF Waiting
<1>11. threshold[c] \in Nat
  BY SizesAssumption DEF TypeOK, Priorities
<1>12. CASE W = {}
  BY <1>5, <1>8, <1>9, <1>10, <1>12
<1>13. CASE W # {} /\ prio[i] > threshold[c]
  <2>1. Scan(c) = i /\ i \in Waiting(c)
    BY <1>5, <1>7, <1>8, <1>9, <1>10, <1>13 DEF Leads
  <2>2. MostUrgent(c, i)
    BY <1>2, <1>9, <1>10, <1>13, <2>1 DEF MostUrgent, Leads
  <2> QED BY <2>1, <2>2
<1>14. CASE W # {} /\ ~ (prio[i] > threshold[c])
  <2>1. Scan(c) = 0
    BY <1>5, <1>8, <1>14
  <2>2. \A j \in W \ {i} : prio[j] < prio[i] \/ prio[j] = prio[i]
    BY <1>9, <1>14 DEF Leads
  <2>3. prio[i] \in Nat /\ ~ (prio[i] > threshold[c])
    BY <1>7, <1>9, <1>14 DEF Leads
  <2>4. ASSUME NEW j \in W PROVE ~ (prio[j] > threshold[c])
    BY <1>7, <1>11, <2>2, <2>3
  <2> QED BY <1>10, <2>1, <2>4
<1> QED BY <1>12, <1>13, <1>14

(* What the claim register hands out is the most urgent source a context   *)
(* can take, for any number of sources: the scan's single pass, with the   *)
(* threshold applied to its winner only, agrees with comparing every pair  *)
(* of sources above the threshold.                                         *)
THEOREM ScanCorrect == Spec => []ScanFindsMostUrgent
<1> QED BY TypeCorrect, ScanStep, PTL
=============================================================================
