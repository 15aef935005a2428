-------------------------------- MODULE Console --------------------------------
(***************************************************************************)
(* The serial port wired to the interrupt controller, and the software     *)
(* that uses both.  Wherever the port updates its interrupt it calls       *)
(* set_interrupt_level of the controller in the same step.                 *)
(*                                                                         *)
(* The software is external.  Either it is a driver, which sets the        *)
(* devices up, waits for its interrupt, claims it, reads until no data is  *)
(* ready and completes it; or it does anything (driver = "none").          *)
(***************************************************************************)
EXTENDS Integers, Sequences

CONSTANTS
  Char, QueueSize, MaxBackoff,                       \* Ns16550
  NDev, NContexts, WordSize, PrioBits, Values,       \* Plic
  Line,         \* NS16550_INTERRUPT_ID
  MaxTyped,     \* bound: the characters typed for the driver
  MaxWaiting    \* bound: the characters that wait in the terminal

ASSUME PortAssumption == QueueSize \in Nat \ {0} /\ MaxBackoff \in Nat \ {0}

(* What Plic assumes.                                                      *)
ASSUME ControllerAssumption ==
  /\ NDev \in Nat \ {0} /\ NContexts \in Nat \ {0} /\ WordSize \in Nat \ {0}
  /\ PrioBits \in Nat /\ 2 ^ PrioBits \in Nat \ {0}
  /\ Values \subseteq Nat

ASSUME ConsoleAssumption ==
  /\ Line \in 1 .. NDev
  /\ 1 \in Values /\ 2 ^ PrioBits > 1
  /\ MaxTyped \in Nat /\ MaxWaiting \in Nat

VARIABLES
  ier, iir, fifo, dlab, loop, dr, rx_queue, backoff_counter, terminal,
  priority, level, enable, pending, pendingPriority, claimed, threshold, mip, shared,
  driver,       \* what the driver does next
  typed,        \* history: what was typed for the driver
  handed        \* history: what the driver read

Port == INSTANCE Ns16550
Intctrl == INSTANCE Plic

port == <<ier, iir, fifo, dlab, loop, dr, rx_queue, backoff_counter, terminal>>
intctrl == <<priority, level, enable, pending, pendingPriority, claimed,
             threshold, mip, shared>>
history == <<typed, handed>>
vars == <<port, intctrl, driver, history>>

Setup == {"fifo", "priority", "enable", "unmask"}
DriverStates == Setup \cup {"idle", "look", "read", "complete"}

Init ==
  /\ Port!PortInit /\ Intctrl!Init
  /\ driver \in {"none", "fifo"}
  /\ typed = <<>> /\ handed = <<>>

(* set_interrupt_level, as update_interrupt calls it.                      *)
set_interrupt_level ==
  IF iir' # {} THEN Intctrl!Raise(Line) ELSE Intctrl!Lower(Line)

-----------------------------------------------------------------------------
(* Ticks and typing.                                                       *)
Tick ==
  /\ \/ (Port!TickWaits \/ Port!TickFindsNothing) /\ UNCHANGED intctrl
     \/ Port!TickReceives /\ set_interrupt_level
  /\ UNCHANGED <<driver, history>>

Type(ch) ==
  /\ Len(typed) < MaxTyped /\ Len(terminal) < MaxWaiting
  /\ Port!Type(ch)
  /\ typed' = IF driver = "none" THEN typed ELSE Append(typed, ch)
  /\ UNCHANGED <<intctrl, driver, handed>>

-----------------------------------------------------------------------------
(* Any software.                                                           *)
Anything ==
  /\ driver = "none"
  /\ \/ Port!Access /\ set_interrupt_level
     \/ UNCHANGED port /\ \E c \in 1 .. NContexts : Intctrl!Software(c)
     \/ UNCHANGED port /\ \E v \in Values : Intctrl!PriorityWrite(Line, v)
  /\ UNCHANGED <<driver, history>>

(* The driver.                                                             *)
At(here, there) == driver = here /\ driver' = there

TurnsFifoOn ==
  /\ At("fifo", "priority")
  /\ Port!StoreFifoControl(TRUE, FALSE) /\ set_interrupt_level
  /\ UNCHANGED history

Prioritizes ==
  /\ At("priority", "enable")
  /\ Intctrl!PriorityWrite(Line, 1)
  /\ UNCHANGED <<port, history>>

Enables ==
  /\ At("enable", "unmask")
  /\ Intctrl!EnableWrite(1, Line \div WordSize, {Line})
  /\ UNCHANGED <<port, history>>

Unmasks ==
  /\ At("unmask", "idle")
  /\ Port!StoreInterruptEnable({"RDI"}) /\ set_interrupt_level
  /\ UNCHANGED history

IsInterrupted ==
  /\ At("idle", "look")
  /\ mip[1]
  /\ Intctrl!ClaimRead(1)
  /\ UNCHANGED <<port, history>>

Looks ==
  /\ At("look", IF dr THEN "read" ELSE "complete")
  /\ UNCHANGED <<port, intctrl, history>>

Reads ==
  /\ At("read", "look")
  /\ Port!LoadReceived /\ set_interrupt_level
  /\ handed' = Append(handed, Head(rx_queue))
  /\ UNCHANGED typed

Completes ==
  /\ At("complete", "idle")
  /\ Intctrl!Complete(1, Line)
  /\ UNCHANGED <<port, history>>

Driver ==
  \/ TurnsFifoOn \/ Prioritizes \/ Enables \/ Unmasks
  \/ IsInterrupted \/ Looks \/ Reads \/ Completes

Next == Tick \/ Anything \/ Driver \/ \E ch \in Char : Type(ch)

(* Every round ticks the devices, and gives the harts, the driver's among  *)
(* them, their turns.                                                      *)
Spec == Init /\ [][Next]_vars /\ WF_vars(Tick) /\ WF_vars(Driver)

-----------------------------------------------------------------------------
(* The registers of both devices keep their types.                         *)
TypeOK ==
  /\ Port!PortTypeOK /\ Intctrl!TypeOK
  /\ driver \in DriverStates \cup {"none"}
  /\ typed \in Seq(Char) /\ handed \in Seq(Char)

(* The controller sees the line of the port high exactly while a cause is  *)
(* enabled and present: no access and no tick leaves it behind.            *)
LineFollowsCauses ==
  /\ Port!RequestsFollow
  /\ Line \in level <=> Port!Requested # {}

(* The port's queue never outgrows its size, whatever the software does;   *)
(* and what the driver has read, what waits in the port and what waits in  *)
(* the terminal is what was typed, in that order: a full queue leaves the  *)
(* rest where it is.                                                       *)
CharactersInOrder ==
  /\ Len(rx_queue) <= QueueSize
  /\ driver # "none" => typed = handed \o rx_queue \o terminal

(* While the driver waits no character waits in the port unheard: its hart *)
(* is interrupted.                                                         *)
NoneUnheard == driver = "idle" /\ rx_queue # <<>> => mip[1]

(* The driver reads every character typed, even if it was looking          *)
(* elsewhere, or the queue was full, when the character came.              *)
CharactersArrive ==
  \A k \in 1 .. MaxTyped :
    (driver # "none" /\ Len(typed) >= k) ~> (Len(handed) >= k)
=============================================================================
