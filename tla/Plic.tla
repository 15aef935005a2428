-------------------------------- MODULE Plic --------------------------------
(***************************************************************************)
(* The platform-level interrupt controller of the bundled Spike            *)
(* (riscv/plic.cc).  A context is one privilege mode of one hart that can  *)
(* take external interrupts; it owns the enable, pending and claimed bits, *)
(* the priority each pending source had when it became pending, and one    *)
(* bit of its hart's mip register.  Software programs the registers with   *)
(* loads and stores of one word, devices drive the lines with              *)
(* set_interrupt_level.  The simulator is single threaded: an access is    *)
(* one step.  A double-word access is two of these steps in a row.         *)
(***************************************************************************)
EXTENDS Integers, FiniteSets

CONSTANTS
  NDev,        \* the sources are 1 .. NDev (ndev of the device tree)
  NContexts,   \* the contexts, in the order of the vector plic_t::contexts
  WordSize,    \* the bits of an enable, pending or claimed word (32)
  PrioBits,    \* PLIC_PRIO_BITS
  Values       \* the values software writes to a priority or a threshold

ASSUME SizesAssumption ==
  /\ NDev \in Nat \ {0}
  /\ NContexts \in Nat \ {0}
  /\ WordSize \in Nat \ {0}
  /\ PrioBits \in Nat
  /\ 2 ^ PrioBits \in Nat \ {0}
  /\ Values \subseteq Nat

Sources == 1 .. NDev
Contexts == 1 .. NContexts
Priorities == 0 .. 2 ^ PrioBits - 1

NumIds == NDev + 1
NumIdsWord == (NumIds + WordSize - 1) \div WordSize

(* Every bit of the words exists, those past the last source included.     *)
Ids == 0 .. NumIdsWord * WordSize - 1
WordIds(w) == {i \in Ids : i \div WordSize = w}

VARIABLES
  priority,         \* the priority register of each source
  level,            \* the sources whose line is high
  enable,           \* per context: the enabled sources
  pending,          \* per context: the pending sources
  pendingPriority,  \* per context: the priority copied when a source became pending
  claimed,          \* per context: the sources claimed and not completed
  threshold,        \* per context: the priority threshold
  mip,              \* per context: MEIP or SEIP of its hart
  shared            \* history: sources that two contexts have had enabled at once

lines == <<priority, level>>
bits == <<enable, pending, pendingPriority, claimed, threshold, mip>>
vars == <<lines, bits, shared>>

Init ==
  /\ priority = [i \in Ids |-> 0]
  /\ level = {}
  /\ enable = [c \in Contexts |-> {}]
  /\ pending = [c \in Contexts |-> {}]
  /\ pendingPriority = [c \in Contexts |-> [i \in Ids |-> 0]]
  /\ claimed = [c \in Contexts |-> {}]
  /\ threshold = [c \in Contexts |-> 0]
  /\ mip = [c \in Contexts |-> FALSE]
  /\ shared = {}

\* Mutant: the value is not masked.
MaskedNever(v) == v
Masked(v) == v % 2 ^ PrioBits

(* What a context can hand out: pending there, not claimed there, with a   *)
(* copied priority above the threshold.                                    *)
Waiting(c) == {i \in pending[c] \ claimed[c] : pendingPriority[c][i] > threshold[c]}

(* The source it hands out: the highest copied priority, then the lowest id. *)
MostUrgent(c, i) ==
  /\ i \in Waiting(c)
  /\ \A j \in Waiting(c) \ {i} :
       \/ pendingPriority[c][j] < pendingPriority[c][i]
       \/ pendingPriority[c][j] = pendingPriority[c][i] /\ i < j

(***************************************************************************)
(* How the code looks for it: upwards through the ids, a later one wins    *)
(* only with a higher priority; the threshold is applied to the winner.    *)
(* 0 is no source.                                                         *)
(***************************************************************************)
ScanToLatest(c) ==
  LET scan[n \in 0 .. NDev] ==
        IF n = 0 THEN 0
        ELSE LET best == scan[n - 1]
             IN  IF /\ n \in pending[c] \ claimed[c]
                    /\ best = 0 \/ pendingPriority[c][best] <= pendingPriority[c][n]
                 THEN n ELSE best
      found == scan[NDev]
  IN  IF found # 0 /\ pendingPriority[c][found] > threshold[c] THEN found ELSE 0

Scan(c) ==
  LET scan[n \in 0 .. NDev] ==
        IF n = 0 THEN 0
        ELSE LET best == scan[n - 1]
             IN  IF /\ n \in pending[c] \ claimed[c]
                    /\ best = 0 \/ pendingPriority[c][best] < pendingPriority[c][n]
                 THEN n ELSE best
      found == scan[NDev]
  IN  IF found # 0 /\ pendingPriority[c][found] > threshold[c] THEN found ELSE 0

(* The hart's bit follows from the registers as the access leaves them.    *)
ContextUpdate(c) == mip' = [mip EXCEPT ![c] = Waiting(c)' # {}]

PriorityWrite(id, v) ==
  /\ id \in Sources
  /\ priority' = [priority EXCEPT ![id] = Masked(v)]
  /\ UNCHANGED <<level, bits, shared>>

(***************************************************************************)
(* A store to an enable word.  Bit 0 of word 0 is dropped.  A source that  *)
(* becomes enabled while its line is high becomes pending; one that is     *)
(* disabled loses its pending and claimed bits in this context.            *)
(***************************************************************************)
Selected(w, val) == (val \cap WordIds(w)) \ {0}

\* Mutant: the line is not looked at.
TurnedOnUnasked(c, w, val) == {}
TurnedOn(c, w, val) == (Selected(w, val) \ enable[c]) \cap level

TurnedOff(c, w, val) == (enable[c] \cap WordIds(w)) \ Selected(w, val)

EnableWrite(c, w, val) ==
  LET on  == TurnedOn(c, w, val)
      off == TurnedOff(c, w, val)
  IN  /\ enable' = [enable EXCEPT ![c] = (@ \ WordIds(w)) \cup Selected(w, val)]
      /\ pending' = [pending EXCEPT ![c] = (@ \ off) \cup on]
      /\ pendingPriority' = [pendingPriority EXCEPT ![c] =
           [i \in Ids |-> IF i \in on THEN priority[i] ELSE IF i \in off THEN 0 ELSE @[i]]]
      /\ claimed' = [claimed EXCEPT ![c] = @ \ off]
      /\ shared' = shared \cup
           {i \in Selected(w, val) : \E d \in Contexts \ {c} : i \in enable[d]}
      /\ UNCHANGED <<lines, threshold>>
      /\ ContextUpdate(c)

ThresholdWrite(c, v) ==
  /\ threshold' = [threshold EXCEPT ![c] = Masked(v)]
  /\ UNCHANGED <<lines, enable, pending, pendingPriority, claimed, shared>>
  /\ ContextUpdate(c)

(* A load of the claim register claims the most urgent source, if any.     *)
ClaimRead(c) ==
  /\ \/ Waiting(c) = {} /\ UNCHANGED claimed
     \/ \E i \in Sources :
          MostUrgent(c, i) /\ claimed' = [claimed EXCEPT ![c] = @ \cup {i}]
  /\ UNCHANGED <<lines, enable, pending, pendingPriority, threshold, shared>>
  /\ ContextUpdate(c)

(* A store to the claim register; one of another source is ignored.        *)
\* Mutant: the bit of the hart is not updated.
CompleteSilently(c, id) ==
  /\ id < NumIds
  /\ id \in enable[c]
  /\ claimed' = [claimed EXCEPT ![c] = @ \ {id}]
  /\ UNCHANGED <<lines, enable, pending, pendingPriority, threshold, mip, shared>>

Complete(c, id) ==
  /\ id < NumIds
  /\ id \in enable[c]
  /\ claimed' = [claimed EXCEPT ![c] = @ \ {id}]
  /\ UNCHANGED <<lines, enable, pending, pendingPriority, threshold, shared>>
  /\ ContextUpdate(c)

(***************************************************************************)
(* set_interrupt_level: of the contexts with the source enabled, only the  *)
(* first in the vector hears of it.                                        *)
(***************************************************************************)
Hears(c, id) ==
  /\ id \in enable[c]
  /\ \A d \in Contexts : id \in enable[d] => c <= d

\* Mutants: a rise ends the claim; a fall does not.
RaiseAfresh(c, id) ==
  /\ Hears(c, id)
  /\ pending' = [pending EXCEPT ![c] = @ \cup {id}]
  /\ pendingPriority' = [pendingPriority EXCEPT ![c][id] = priority[id]]
  /\ claimed' = [claimed EXCEPT ![c] = @ \ {id}]
  /\ UNCHANGED <<enable, threshold>>
  /\ ContextUpdate(c)

RaiseAt(c, id) ==
  /\ Hears(c, id)
  /\ pending' = [pending EXCEPT ![c] = @ \cup {id}]
  /\ pendingPriority' = [pendingPriority EXCEPT ![c][id] = priority[id]]
  /\ UNCHANGED <<enable, claimed, threshold>>
  /\ ContextUpdate(c)

LowerKeepsClaim(c, id) ==
  /\ Hears(c, id)
  /\ pending' = [pending EXCEPT ![c] = @ \ {id}]
  /\ pendingPriority' = [pendingPriority EXCEPT ![c][id] = 0]
  /\ UNCHANGED <<enable, claimed, threshold>>
  /\ ContextUpdate(c)

LowerAt(c, id) ==
  /\ Hears(c, id)
  /\ pending' = [pending EXCEPT ![c] = @ \ {id}]
  /\ pendingPriority' = [pendingPriority EXCEPT ![c][id] = 0]
  /\ claimed' = [claimed EXCEPT ![c] = @ \ {id}]
  /\ UNCHANGED <<enable, threshold>>
  /\ ContextUpdate(c)

NobodyHears(id) ==
  /\ \A c \in Contexts : id \notin enable[c]
  /\ UNCHANGED bits

Raise(id) ==
  /\ level' = level \cup {id}
  /\ NobodyHears(id) \/ \E c \in Contexts : RaiseAt(c, id)
  /\ UNCHANGED <<priority, shared>>

Lower(id) ==
  /\ level' = level \ {id}
  /\ NobodyHears(id) \/ \E c \in Contexts : LowerAt(c, id)
  /\ UNCHANGED <<priority, shared>>

Software(c) ==
  \/ \E w \in 0 .. NumIdsWord - 1 : \E val \in SUBSET WordIds(w) : EnableWrite(c, w, val)
  \/ \E v \in Values : ThresholdWrite(c, v)
  \/ ClaimRead(c)
  \/ \E id \in Ids : Complete(c, id)

Next ==
  \/ \E c \in Contexts : Software(c)
  \/ \E id \in Ids, v \in Values : PriorityWrite(id, v)
  \/ \E id \in Sources : Raise(id) \/ Lower(id)

Spec == Init /\ [][Next]_vars

-----------------------------------------------------------------------------
(* Every register holds a value of its width and every set names sources.  *)
TypeOK ==
  /\ priority \in [Ids -> Priorities]
  /\ level \subseteq Sources
  /\ enable \in [Contexts -> SUBSET Ids]
  /\ pending \in [Contexts -> SUBSET Sources]
  /\ pendingPriority \in [Contexts -> [Ids -> Priorities]]
  /\ claimed \in [Contexts -> SUBSET Sources]
  /\ threshold \in [Contexts -> Priorities]
  /\ mip \in [Contexts -> BOOLEAN]
  /\ shared \subseteq Ids

(* A hart sees an external interrupt exactly while its context has a       *)
(* source to give it: no access leaves the mip bit behind the registers.   *)
LineFollowsRegisters == \A c \in Contexts : mip[c] <=> Waiting(c) # {}

(* The scan finds a source exactly when one can be handed out, and then    *)
(* the most urgent one: the threshold, the claimed bits and the ties are   *)
(* treated as they would be by comparing every pair.                       *)
ScanFindsMostUrgent ==
  \A c \in Contexts :
    IF Waiting(c) = {} THEN Scan(c) = 0 ELSE MostUrgent(c, Scan(c))

(* A context holds a claim only on a source it has enabled and pending:    *)
(* disabling a source or lowering its line also ends the claim.            *)
ClaimsArePending ==
  \A c \in Contexts :
    /\ claimed[c] \subseteq pending[c]
    /\ pending[c] \subseteq enable[c]
    /\ \A i \in Ids \ pending[c] : pendingPriority[c][i] = 0

(* A source never enabled in two contexts at once behaves as a level: it   *)
(* is pending exactly where it is enabled, exactly while its line is high. *)
UnsharedIsLevelTriggered ==
  \A i \in Sources \ shared : \A c \in Contexts :
    i \in pending[c] <=> i \in level /\ i \in enable[c]

(* Such a source is held by one handler at a time, whatever contexts it    *)
(* has been moved between.                                                 *)
UnsharedClaimedOnce ==
  \A i \in Sources \ shared : \A c, d \in Contexts :
    i \in claimed[c] /\ i \in claimed[d] => c = d

(* A claim ends only by its completion, by a disabling store in its own    *)
(* context or by the fall of its line: no access to another context, to a  *)
(* threshold or to a priority takes an interrupt away from its handler.    *)
ClaimEndsAtHome ==
  [][\A c \in Contexts : \A i \in claimed[c] \ claimed'[c] :
       Complete(c, i) \/ Lower(i) \/ i \in enable[c] \ enable'[c]]_vars

(* "PLIC interrupts are level-triggered" (plic.cc:307): no context has a   *)
(* source pending whose line is low.                                       *)
LevelTriggered == \A c \in Contexts : pending[c] \subseteq level
=============================================================================
