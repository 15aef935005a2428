-------------------------------- MODULE Ns16550 --------------------------------
(***************************************************************************)
(* The serial port of the bundled Spike (riscv/ns16550.cc).  Software      *)
(* programs it with loads and stores of one register; the scheduler ticks  *)
(* it once in a round, and it then takes at most one character from the    *)
(* terminal.  Its interrupt request is iir; whoever uses this module       *)
(* carries it to the interrupt controller.                                 *)
(*                                                                         *)
(* The transmitter is always empty: nothing clears those bits of lsr.      *)
(* Divisors, the scratch register and what is transmitted are left out.    *)
(***************************************************************************)
EXTENDS Naturals, Sequences

CONSTANTS
  Char,         \* characters
  QueueSize,    \* UART_QUEUE_SIZE
  MaxBackoff    \* MAX_BACKOFF

VARIABLES
  ier,              \* the enabled causes
  iir,              \* the causes that are requested; none is UART_IIR_NO_INT
  fifo,             \* fcr, UART_FCR_ENABLE_FIFO
  dlab,             \* lcr, UART_LCR_DLAB
  loop,             \* mcr, UART_MCR_LOOP
  dr,               \* lsr, UART_LSR_DR
  rx_queue,
  backoff_counter,
  terminal          \* what canonical_terminal_t::read has to give

settings == <<ier, fifo, dlab, loop>>
receiver == <<rx_queue, dr>>
ticking == <<backoff_counter, terminal>>
portVars == <<settings, iir, receiver, ticking>>

Causes == {"RDI", "THRI"}

PortInit ==
  /\ ier = {} /\ iir = {}
  /\ fifo = FALSE /\ dlab = FALSE /\ loop = FALSE
  /\ dr = FALSE /\ rx_queue = <<>>
  /\ backoff_counter = 0
  /\ terminal = <<>>

-----------------------------------------------------------------------------
(* update_interrupt: the causes that are enabled and present.              *)
Requested == {c \in ier : c = "RDI" => dr}
update_interrupt == iir' = Requested'

\* Mutant: a character stays in the queue.
rx_byte_twice ==
  /\ rx_queue' = IF Len(rx_queue) < 2 THEN <<>> ELSE rx_queue
  /\ dr' = (dr /\ rx_queue' # <<>>)

rx_byte ==
  /\ rx_queue' = IF rx_queue = <<>> THEN <<>> ELSE Tail(rx_queue)
  /\ dr' = (dr /\ rx_queue' # <<>>)

(* A load of the receive register; the line status is updated after it.    *)
LoadReceived ==
  /\ IF dlab THEN UNCHANGED receiver ELSE rx_byte
  /\ UNCHANGED <<settings, ticking>>
  /\ update_interrupt

(* A store to the transmit register: a divisor, a character that comes     *)
(* back, or one for the terminal.                                          *)
StoreTransmitted(ch) ==
  /\ IF ~ dlab /\ loop /\ Len(rx_queue) < QueueSize
       THEN rx_queue' = Append(rx_queue, ch) /\ dr' = TRUE
       ELSE UNCHANGED receiver
  /\ UNCHANGED <<settings, ticking>>
  /\ update_interrupt

StoreInterruptEnable(s) ==
  /\ ier' = IF dlab THEN ier ELSE s
  /\ UNCHANGED <<fifo, dlab, loop, receiver, ticking>>
  /\ update_interrupt

\* Mutant: clearing the queue leaves data ready set.
StoreFifoControlStaysReady(enabled, clear) ==
  /\ fifo' = enabled
  /\ rx_queue' = IF clear THEN <<>> ELSE rx_queue
  /\ UNCHANGED dr
  /\ UNCHANGED <<ier, dlab, loop, ticking>>
  /\ update_interrupt

StoreFifoControl(enabled, clear) ==
  /\ fifo' = enabled
  /\ rx_queue' = IF clear THEN <<>> ELSE rx_queue
  /\ dr' = (dr /\ ~ clear)
  /\ UNCHANGED <<ier, dlab, loop, ticking>>
  /\ update_interrupt

StoreLineControl(b) ==
  /\ dlab' = b
  /\ UNCHANGED <<ier, fifo, loop, receiver, ticking>>
  /\ update_interrupt

StoreModemControl(b) ==
  /\ loop' = b
  /\ UNCHANGED <<ier, fifo, dlab, receiver, ticking>>
  /\ update_interrupt

Access ==
  \/ LoadReceived
  \/ \E ch \in Char : StoreTransmitted(ch)
  \/ \E s \in SUBSET Causes : StoreInterruptEnable(s)
  \/ \E enabled, clear \in BOOLEAN : StoreFifoControl(enabled, clear)
  \/ \E b \in BOOLEAN : StoreLineControl(b) \/ StoreModemControl(b)

-----------------------------------------------------------------------------
(* The tick, when it does not return at once.                              *)
Listens == fifo /\ ~ loop /\ Len(rx_queue) < QueueSize

BackingOff == 0 < backoff_counter /\ backoff_counter < MaxBackoff

TickWaits ==
  /\ Listens /\ BackingOff
  /\ backoff_counter' = backoff_counter + 1
  /\ UNCHANGED <<settings, iir, receiver, terminal>>

TickFindsNothing ==
  /\ Listens /\ ~ BackingOff
  /\ terminal = <<>>
  /\ backoff_counter' = 1
  /\ UNCHANGED <<settings, iir, receiver, terminal>>

\* Mutant: the interrupt is left for later.
TickReceivesSilently ==
  /\ Listens /\ ~ BackingOff
  /\ terminal # <<>>
  /\ terminal' = Tail(terminal)
  /\ backoff_counter' = 0
  /\ rx_queue' = Append(rx_queue, Head(terminal)) /\ dr' = TRUE
  /\ UNCHANGED <<settings, iir>>

TickReceives ==
  /\ Listens /\ ~ BackingOff
  /\ terminal # <<>>
  /\ terminal' = Tail(terminal)
  /\ backoff_counter' = 0
  /\ rx_queue' = Append(rx_queue, Head(terminal)) /\ dr' = TRUE
  /\ UNCHANGED settings
  /\ update_interrupt

(* Characters are typed at any time.                                       *)
Type(ch) ==
  /\ terminal' = Append(terminal, ch)
  /\ UNCHANGED <<settings, iir, receiver, backoff_counter>>

PortNext ==
  \/ Access
  \/ TickWaits \/ TickFindsNothing \/ TickReceives
  \/ \E ch \in Char : Type(ch)

PortSpec == PortInit /\ [][PortNext]_portVars

-----------------------------------------------------------------------------
(* The registers keep their types and the queue its bound.                 *)
PortTypeOK ==
  /\ ier \subseteq Causes /\ iir \subseteq Causes
  /\ fifo \in BOOLEAN /\ dlab \in BOOLEAN /\ loop \in BOOLEAN /\ dr \in BOOLEAN
  /\ rx_queue \in Seq(Char) /\ Len(rx_queue) <= QueueSize
  /\ backoff_counter \in 0 .. MaxBackoff
  /\ terminal \in Seq(Char)

(* The port requests an interrupt for what is enabled and present, and     *)
(* data is ready exactly while the queue has some.                         *)
RequestsFollow == iir = Requested /\ (dr <=> rx_queue # <<>>)
=============================================================================
