----------------------------- MODULE ConsoleProofs -----------------------------
(***************************************************************************)
(* The serial port, the interrupt controller and the software, for any     *)
(* sizes.  A step of the console is a step of each of the two devices or   *)
(* leaves it alone, so the console implements both, and what is proved of  *)
(* the controller alone (PlicProofs) holds of it here.                     *)
(***************************************************************************)
EXTENDS Console, TLAPS

Ctl == INSTANCE PlicProofs

-----------------------------------------------------------------------------
(* The controller of the console is the controller PlicProofs is about.    *)
LEMMA SameInit ==
  /\ Intctrl!Init <=> Ctl!Init
  /\ Intctrl!TypeOK <=> Ctl!TypeOK
<1> QED
  BY Zenon
  DEF Intctrl!Init, Intctrl!TypeOK, Intctrl!Sources, Intctrl!Contexts, Intctrl!Priorities,
      Intctrl!Ids, Intctrl!NumIdsWord, Intctrl!NumIds,
      Ctl!Init, Ctl!TypeOK, Ctl!Sources, Ctl!Contexts, Ctl!Priorities,
      Ctl!Ids, Ctl!NumIdsWord, Ctl!NumIds

LEMMA SameNext == [Intctrl!Next]_(Intctrl!vars) => [Ctl!Next]_(Ctl!vars)
<1> QED
  BY Zenon
  DEF Intctrl!Sources, Intctrl!Contexts, Intctrl!Priorities, Intctrl!Ids,
      Intctrl!NumIdsWord, Intctrl!NumIds, Intctrl!WordIds,
      Intctrl!lines, Intctrl!bits, Intctrl!vars, Intctrl!Next, Intctrl!Software,
      Intctrl!EnableWrite, Intctrl!Selected, Intctrl!TurnedOn, Intctrl!TurnedOff,
      Intctrl!ThresholdWrite, Intctrl!ClaimRead, Intctrl!MostUrgent, Intctrl!Complete,
      Intctrl!PriorityWrite, Intctrl!Masked, Intctrl!Raise, Intctrl!Lower, Intctrl!Hears,
      Intctrl!RaiseAt, Intctrl!LowerAt, Intctrl!NobodyHears, Intctrl!ContextUpdate,
      Intctrl!Waiting,
      Ctl!Sources, Ctl!Contexts, Ctl!Priorities, Ctl!Ids,
      Ctl!NumIdsWord, Ctl!NumIds, Ctl!WordIds,
      Ctl!lines, Ctl!bits, Ctl!vars, Ctl!Next, Ctl!Software,
      Ctl!EnableWrite, Ctl!Selected, Ctl!TurnedOn, Ctl!TurnedOff,
      Ctl!ThresholdWrite, Ctl!ClaimRead, Ctl!MostUrgent, Ctl!Complete,
      Ctl!PriorityWrite, Ctl!Masked, Ctl!Raise, Ctl!Lower, Ctl!Hears,
      Ctl!RaiseAt, Ctl!LowerAt, Ctl!NobodyHears, Ctl!ContextUpdate,
      Ctl!Waiting

-----------------------------------------------------------------------------
(* The line of the port is a source, and the word that enables it exists.  *)
LEMMA LineExists ==
  /\ Line \in Intctrl!Sources /\ Line \in Intctrl!Ids /\ 1 \in Intctrl!Contexts
  /\ Line \div WordSize \in 0 .. Intctrl!NumIdsWord - 1
  /\ {Line} \in SUBSET Intctrl!WordIds(Line \div WordSize)
<1> DEFINE n == Intctrl!NumIdsWord
           q == Line \div WordSize
           r == Line % WordSize
<1>1. Line \in Intctrl!Sources /\ 1 \in Intctrl!Contexts
  BY ConsoleAssumption, ControllerAssumption DEF Intctrl!Sources, Intctrl!Contexts
<1>2. Line \in Intctrl!Ids
  <2>1. Intctrl!Sources = Ctl!Sources /\ Intctrl!Ids = Ctl!Ids
    BY DEF Intctrl!Sources, Intctrl!Ids, Intctrl!NumIdsWord, Intctrl!NumIds,
           Ctl!Sources, Ctl!Ids, Ctl!NumIdsWord, Ctl!NumIds
  <2>2. Ctl!Sources \subseteq Ctl!Ids BY Ctl!Sizes, ControllerAssumption
  <2> QED BY <1>1, <2>1, <2>2
<1>3. q \in 0 .. n - 1
  <2>1. /\ Line \in Nat /\ WordSize \in Nat \ {0} /\ n \in Int
        /\ Line < n * WordSize
    BY <1>2, ConsoleAssumption, ControllerAssumption
       DEF Intctrl!Ids, Intctrl!NumIdsWord, Intctrl!NumIds
  <2> HIDE DEF n
  <2>2. Line = WordSize * q + r /\ r \in 0 .. WordSize - 1 /\ q \in Nat
    BY <2>1, SMT
  <2> HIDE DEF q, r
  <2>3. ASSUME q >= n PROVE FALSE
    <3>1. WordSize * q >= n * WordSize BY <2>1, <2>2, <2>3, SMT
    <3> QED BY <2>1, <2>2, <3>1, SMT
  <2> QED BY <2>1, <2>2, <2>3, SMT
<1>4. {Line} \in SUBSET Intctrl!WordIds(q)
  BY <1>2 DEF Intctrl!WordIds
<1> QED BY <1>1, <1>2, <1>3, <1>4

-----------------------------------------------------------------------------
(* A step, as the two devices see it.                                      *)

(* The driver only stores to and loads from the devices.                   *)
LEMMA StepCases ==
  ASSUME [Next]_vars
  PROVE  \/ UNCHANGED port /\ UNCHANGED intctrl
         \/ /\ Port!TickWaits \/ Port!TickFindsNothing \/ \E ch \in Char : Port!Type(ch)
            /\ UNCHANGED intctrl
         \/ (Port!TickReceives \/ Port!Access) /\ set_interrupt_level
         \/ /\ UNCHANGED port
            /\ \/ \E c \in 1 .. NContexts : Intctrl!Software(c)
               \/ \E v \in Values : Intctrl!PriorityWrite(Line, v)
<1>1. ASSUME Tick PROVE
         \/ (Port!TickWaits \/ Port!TickFindsNothing) /\ UNCHANGED intctrl
         \/ Port!TickReceives /\ set_interrupt_level
  BY <1>1 DEF Tick
<1>2. ASSUME Anything PROVE
         \/ Port!Access /\ set_interrupt_level
         \/ /\ UNCHANGED port
            /\ \/ \E c \in 1 .. NContexts : Intctrl!Software(c)
               \/ \E v \in Values : Intctrl!PriorityWrite(Line, v)
  BY <1>2, Zenon DEF Anything
<1>3. ASSUME TurnsFifoOn \/ Unmasks \/ Reads
      PROVE  Port!Access /\ set_interrupt_level
  <2>1. Port!Causes = {"RDI", "THRI"} BY DEF Port!Causes
  <2>2. {"RDI"} \in SUBSET Port!Causes BY <2>1
  <2> QED BY <1>3, <2>2 DEF TurnsFifoOn, Unmasks, Reads, Port!Access
<1>4. ASSUME Prioritizes PROVE UNCHANGED port /\ \E v \in Values : Intctrl!PriorityWrite(Line, v)
  BY <1>4, ConsoleAssumption DEF Prioritizes, port, history
<1>5. ASSUME Enables \/ IsInterrupted \/ Completes
      PROVE  UNCHANGED port /\ \E c \in 1 .. NContexts : Intctrl!Software(c)
  <2>1. UNCHANGED port BY <1>5 DEF Enables, IsInterrupted, Completes
  <2>2. Intctrl!Software(1)
    BY <1>5, LineExists, Zenon DEF Enables, IsInterrupted, Completes, Intctrl!Software
  <2> QED BY <2>1, <2>2, ControllerAssumption
<1>6. ASSUME Looks PROVE UNCHANGED port /\ UNCHANGED intctrl
  BY <1>6 DEF Looks
<1>7. ASSUME NEW ch \in Char, Type(ch) PROVE Port!Type(ch) /\ UNCHANGED intctrl
  BY <1>7 DEF Type, intctrl
<1>8. CASE UNCHANGED vars
  BY <1>8 DEF vars
<1> QED BY <1>1, <1>2, <1>3, <1>4, <1>5, <1>6, <1>7, <1>8, Zenon DEF Next, Driver

-----------------------------------------------------------------------------
(* The console implements both devices.                                    *)

LEMMA DeviceSteps ==
  ASSUME [Next]_vars
  PROVE  [Port!PortNext]_(Port!portVars) /\ [Intctrl!Next]_(Intctrl!vars)
<1> DEFINE P == Port!PortNext \/ UNCHANGED port
           C == Intctrl!Next \/ UNCHANGED intctrl
<1>1. set_interrupt_level => C
  <2>1. Intctrl!Raise(Line) \/ Intctrl!Lower(Line) => Intctrl!Next
    BY LineExists, Zenon DEF Intctrl!Next
  <2> QED BY <2>1 DEF set_interrupt_level
<1>2. ASSUME NEW c \in 1 .. NContexts, Intctrl!Software(c) PROVE C
  BY <1>2, Zenon DEF Intctrl!Next, Intctrl!Contexts
<1>3. ASSUME NEW v \in Values, Intctrl!PriorityWrite(Line, v) PROVE C
  BY <1>3, LineExists, Zenon DEF Intctrl!Next
<1>4. ASSUME \/ Port!TickWaits \/ Port!TickFindsNothing \/ Port!TickReceives
             \/ Port!Access \/ \E ch \in Char : Port!Type(ch)
      PROVE  P
  BY <1>4, Zenon DEF Port!PortNext
<1> HIDE DEF P, C
<1>5. P /\ C
  <2>1. UNCHANGED port => P BY DEF P
  <2>2. UNCHANGED intctrl => C BY DEF C
  <2> QED BY <1>1, <1>2, <1>3, <1>4, <2>1, <2>2, StepCases, Zenon
<1>6. P => [Port!PortNext]_(Port!portVars)
  BY DEF P, port, Port!portVars, Port!settings, Port!receiver, Port!ticking
<1>7. C => [Intctrl!Next]_(Intctrl!vars)
  BY DEF C, intctrl, Intctrl!vars, Intctrl!lines, Intctrl!bits
<1> QED BY <1>5, <1>6, <1>7

(* Whatever the software does, and whoever else acts between its accesses, *)
(* the serial port behaves as the port alone would.                        *)
THEOREM PortImplemented == Spec => Port!PortSpec
<1>1. Init => Port!PortInit BY DEF Init
<1> QED BY <1>1, DeviceSteps, PTL DEF Spec, Port!PortSpec

(* So does the interrupt controller.                                       *)
THEOREM ControllerImplemented == Spec => Intctrl!Spec
<1>1. Init => Intctrl!Init BY DEF Init
<1> QED BY <1>1, DeviceSteps, PTL DEF Spec, Intctrl!Spec

(* What holds of every controller holds of this one.                       *)
LEMMA ControllerInv == Spec => []Ctl!IInv
<1>1. Intctrl!Spec => Ctl!Spec
  BY SameInit, SameNext, PTL DEF Intctrl!Spec, Ctl!Spec
<1>2. Ctl!Spec => []Ctl!IInv
  BY Ctl!AlwaysIInv, ControllerAssumption
<1> QED BY ControllerImplemented, <1>1, <1>2, PTL

-----------------------------------------------------------------------------
(* The serial port.                                                        *)

LEMMA PortStep ==
  ASSUME Port!PortTypeOK, Port!RequestsFollow, [Port!PortNext]_(Port!portVars)
  PROVE  Port!PortTypeOK' /\ Port!RequestsFollow'
<1> USE PortAssumption
    DEF Port!PortTypeOK, Port!RequestsFollow, Port!Requested, Port!settings, Port!receiver, Port!ticking,
        Port!update_interrupt
<1>1. CASE Port!LoadReceived
  BY <1>1 DEF Port!LoadReceived, Port!rx_byte
<1>2. ASSUME NEW ch \in Char, Port!StoreTransmitted(ch)
      PROVE  Port!PortTypeOK' /\ Port!RequestsFollow'
  <2>1. CASE ~ dlab /\ loop /\ Len(rx_queue) < QueueSize
    BY <1>2, <2>1 DEF Port!StoreTransmitted
  <2>2. CASE ~ (~ dlab /\ loop /\ Len(rx_queue) < QueueSize)
    BY <1>2, <2>2 DEF Port!StoreTransmitted
  <2> QED BY <2>1, <2>2
<1>3. ASSUME NEW s \in SUBSET Port!Causes, Port!StoreInterruptEnable(s)
      PROVE  Port!PortTypeOK' /\ Port!RequestsFollow'
  BY <1>3 DEF Port!StoreInterruptEnable
<1>4. ASSUME NEW e \in BOOLEAN, NEW clear \in BOOLEAN, Port!StoreFifoControl(e, clear)
      PROVE  Port!PortTypeOK' /\ Port!RequestsFollow'
  <2>1. CASE clear
    <3>1. dr' = FALSE /\ rx_queue' = <<>> BY <1>4, <2>1 DEF Port!StoreFifoControl
    <3> QED BY <1>4, <3>1 DEF Port!StoreFifoControl
  <2>2. CASE ~ clear
    <3>1. dr' = dr /\ rx_queue' = rx_queue BY <1>4, <2>2 DEF Port!StoreFifoControl
    <3> QED BY <1>4, <3>1 DEF Port!StoreFifoControl
  <2> QED BY <2>1, <2>2
<1>5. ASSUME NEW b \in BOOLEAN, Port!StoreLineControl(b) \/ Port!StoreModemControl(b)
      PROVE  Port!PortTypeOK' /\ Port!RequestsFollow'
  BY <1>5 DEF Port!StoreLineControl, Port!StoreModemControl
<1>6. CASE Port!TickWaits
  BY <1>6 DEF Port!TickWaits, Port!BackingOff
<1>7. CASE Port!TickFindsNothing
  BY <1>7 DEF Port!TickFindsNothing
<1>8. CASE Port!TickReceives
  BY <1>8 DEF Port!TickReceives, Port!Listens
<1>9. ASSUME NEW ch \in Char, Port!Type(ch)
      PROVE  Port!PortTypeOK' /\ Port!RequestsFollow'
  BY <1>9 DEF Port!Type
<1>10. CASE UNCHANGED Port!portVars
  BY <1>10 DEF Port!portVars
<1> QED
  BY <1>1, <1>2, <1>3, <1>4, <1>5, <1>6, <1>7, <1>8, <1>9, <1>10, Zenon
  DEF Port!PortNext, Port!Access

LEMMA InitPort == Init => Port!PortTypeOK /\ Port!RequestsFollow
<1> SUFFICES ASSUME Port!PortInit PROVE Port!PortTypeOK /\ Port!RequestsFollow
  BY DEF Init
<1>1. Port!PortTypeOK
  <2>1. <<>> \in Seq(Char) /\ Len(<<>>) = 0 OBVIOUS
  <2>2. /\ rx_queue = <<>> /\ terminal = <<>> /\ backoff_counter = 0
        /\ ier = {} /\ iir = {} /\ ~ fifo /\ ~ dlab /\ ~ loop /\ ~ dr
        /\ fifo \in BOOLEAN /\ dlab \in BOOLEAN /\ loop \in BOOLEAN /\ dr \in BOOLEAN
    BY DEF Port!PortInit
  <2>3. Len(rx_queue) <= QueueSize /\ backoff_counter \in 0 .. MaxBackoff
    BY <2>1, <2>2, PortAssumption
  <2> QED BY <2>1, <2>2, <2>3, Zenon DEF Port!PortTypeOK
<1>2. Port!RequestsFollow
  BY DEF Port!PortInit, Port!RequestsFollow, Port!Requested
<1> QED BY <1>1, <1>2

-----------------------------------------------------------------------------
(* The line between the devices.                                           *)

LEMMA LevelSteps ==
  /\ set_interrupt_level => (Line \in level' <=> iir' # {})
  /\ \A c \in 1 .. NContexts : Intctrl!Software(c) => level' = level
  /\ \A v \in Values : Intctrl!PriorityWrite(Line, v) => level' = level
<1>1. set_interrupt_level => (Line \in level' <=> iir' # {})
  BY DEF set_interrupt_level, Intctrl!Raise, Intctrl!Lower
<1>2. ASSUME NEW c \in 1 .. NContexts, Intctrl!Software(c) PROVE level' = level
  BY <1>2
  DEF Intctrl!Software, Intctrl!EnableWrite, Intctrl!ThresholdWrite, Intctrl!ClaimRead,
      Intctrl!Complete, Intctrl!lines
<1>3. ASSUME NEW v \in Values, Intctrl!PriorityWrite(Line, v) PROVE level' = level
  BY <1>3 DEF Intctrl!PriorityWrite
<1> QED BY <1>1, <1>2, <1>3

LEMMA LineStep ==
  ASSUME Port!PortTypeOK, LineFollowsCauses, [Next]_vars
  PROVE  LineFollowsCauses'
<1>1. Port!RequestsFollow' BY PortStep, DeviceSteps DEF LineFollowsCauses
<1>2. ASSUME UNCHANGED <<ier, dr>>, level' = level PROVE LineFollowsCauses'
  BY <1>1, <1>2 DEF LineFollowsCauses, Port!Requested
<1>3. ASSUME Port!TickWaits \/ Port!TickFindsNothing \/ \E ch \in Char : Port!Type(ch)
      PROVE  UNCHANGED <<ier, dr>>
  BY <1>3
  DEF Port!TickWaits, Port!TickFindsNothing, Port!Type, Port!settings, Port!receiver
<1>4. CASE set_interrupt_level
  BY <1>1, <1>4, LevelSteps DEF LineFollowsCauses, Port!RequestsFollow
<1>5. (UNCHANGED port => UNCHANGED <<ier, dr>>) /\ (UNCHANGED intctrl => level' = level)
  BY DEF port, intctrl
<1> QED BY <1>2, <1>3, <1>4, <1>5, LevelSteps, StepCases, Zenon

LEMMA LineInv == Spec => [](Port!PortTypeOK /\ LineFollowsCauses)
<1>1. Init => LineFollowsCauses
  BY InitPort DEF Init, Intctrl!Init, Port!PortInit, LineFollowsCauses, Port!Requested
<1>2. Port!PortTypeOK /\ LineFollowsCauses /\ [Next]_vars => Port!PortTypeOK'
  BY PortStep, DeviceSteps DEF LineFollowsCauses
<1> QED BY InitPort, LineStep, <1>1, <1>2, PTL DEF Spec

(* The controller sees the line high exactly while a cause is enabled and  *)
(* present.                                                                *)
THEOREM LineCorrect == Spec => []LineFollowsCauses
<1> QED BY LineInv, PTL

-----------------------------------------------------------------------------
(* The driver and the characters.                                          *)

(* What the driver may rely on: it alone programs the port, so no load     *)
(* gives it a divisor, and when it loads a character there is one.         *)
InOrder ==
  /\ driver \in DriverStates \cup {"none"}
  /\ typed \in Seq(Char) /\ handed \in Seq(Char)
  /\ driver # "none" =>
       /\ ~ dlab /\ ~ loop
       /\ driver = "read" => dr
       /\ typed = handed \o rx_queue \o terminal

(* Characters only move from one sequence to the next.                     *)
LEMMA Moves ==
  ASSUME NEW h \in Seq(Char), NEW q \in Seq(Char), NEW t \in Seq(Char)
  PROVE  /\ q # <<>> => Append(h, Head(q)) \o Tail(q) \o t = h \o q \o t
         /\ t # <<>> => h \o Append(q, Head(t)) \o Tail(t) = h \o q \o t
         /\ \A ch \in Char : h \o q \o Append(t, ch) = Append(h \o q \o t, ch)
<1>1. ASSUME q # <<>> PROVE Append(h, Head(q)) \o Tail(q) = h \o q
  BY <1>1
<1>2. ASSUME t # <<>> PROVE h \o Append(q, Head(t)) \o Tail(t) = h \o q \o t
  <2> DEFINE a == Append(q, Head(t))
             b == Tail(t)
  <2>1. a \in Seq(Char) /\ b \in Seq(Char) BY <1>2
  <2>2. a \o b = q \o t BY <1>2
  <2> HIDE DEF a, b
  <2>3. (h \o a) \o b = h \o (a \o b) BY <2>1
  <2>4. (h \o q) \o t = h \o (q \o t) OBVIOUS
  <2> QED BY <2>2, <2>3, <2>4 DEF a, b
<1>3. ASSUME NEW ch \in Char PROVE h \o q \o Append(t, ch) = Append(h \o q \o t, ch)
  OBVIOUS
<1> QED BY <1>1, <1>2, <1>3

LEMMA OrderStep ==
  ASSUME Port!PortTypeOK, Port!RequestsFollow, InOrder, [Next]_vars
  PROVE  InOrder'
<1> USE DEF InOrder, DriverStates, Setup
<1>1. CASE driver = "none"
  <2>1. driver' = "none" /\ UNCHANGED history
    BY <1>1
    DEF history, Next, Tick, Anything, Type, Driver, TurnsFifoOn, Prioritizes, Enables, Unmasks,
        IsInterrupted, Looks, Reads, Completes, At, vars
  <2> QED BY <2>1 DEF history
<1>2. CASE driver # "none"
  <2>1. /\ driver \in DriverStates /\ ~ dlab /\ ~ loop /\ (driver = "read" => dr)
        /\ typed \in Seq(Char) /\ handed \in Seq(Char)
        /\ typed = handed \o rx_queue \o terminal
    BY <1>2
  <2>2. /\ rx_queue \in Seq(Char) /\ terminal \in Seq(Char) /\ (dr <=> rx_queue # <<>>)
        /\ ier \subseteq Port!Causes
    BY DEF Port!PortTypeOK, Port!RequestsFollow
  <2> HIDE DEF InOrder
  <2>3. ASSUME UNCHANGED port, UNCHANGED history,
               driver' \in DriverStates, driver' = "read" => dr
        PROVE  InOrder'
    BY <2>1, <2>3 DEF InOrder, port, history
  <2>4. CASE Tick
    <3>1. ASSUME Port!TickWaits \/ Port!TickFindsNothing PROVE InOrder'
      BY <1>2, <2>1, <2>4, <3>1
      DEF InOrder, Tick, history, Port!TickWaits, Port!TickFindsNothing,
          Port!settings, Port!receiver
    <3>2. ASSUME Port!TickReceives PROVE InOrder'
      <4>1. /\ UNCHANGED <<driver, typed, handed, dlab, loop>> /\ dr' = TRUE
            /\ rx_queue' = Append(rx_queue, Head(terminal)) /\ terminal' = Tail(terminal)
            /\ terminal # <<>>
        BY <2>4, <3>2 DEF Tick, history, Port!TickReceives, Port!settings
      <4>2. typed' = handed' \o rx_queue' \o terminal'
        BY <2>1, <2>2, <4>1, Moves
      <4> QED BY <2>1, <4>1, <4>2 DEF InOrder
    <3> QED BY <2>4, <3>1, <3>2 DEF Tick
  <2>5. ASSUME NEW ch \in Char, Type(ch) PROVE InOrder'
    <3>1. /\ UNCHANGED <<driver, handed, dlab, loop, dr, rx_queue>>
          /\ terminal' = Append(terminal, ch) /\ typed' = Append(typed, ch)
      BY <1>2, <2>5 DEF Type, Port!Type, Port!settings, Port!receiver
    <3>2. typed' = handed' \o rx_queue' \o terminal'
      <4>1. \A c \in Char : handed \o rx_queue \o Append(terminal, c)
                              = Append(handed \o rx_queue \o terminal, c)
        BY <2>1, <2>2, Moves
      <4>2. handed \o rx_queue \o Append(terminal, ch) = Append(typed, ch)
        BY <2>1, <4>1, Zenon
      <4> QED BY <3>1, <4>2, Zenon
    <3>3. typed' \in Seq(Char) BY <2>1, <3>1
    <3> QED BY <2>1, <3>1, <3>2, <3>3 DEF InOrder
  <2>6. CASE TurnsFifoOn
    <3>1. /\ driver' = "priority" /\ UNCHANGED <<dlab, loop, rx_queue, terminal, typed, handed>>
      BY <2>6
      DEF TurnsFifoOn, At, history, Port!StoreFifoControl, Port!ticking
    <3> QED BY <2>1, <3>1 DEF InOrder
  <2>7. CASE Unmasks
    <3>1. /\ driver' = "idle" /\ UNCHANGED <<dlab, loop, rx_queue, terminal, typed, handed>>
      BY <2>7
      DEF Unmasks, At, history, Port!StoreInterruptEnable, Port!ticking, Port!receiver
    <3> QED BY <2>1, <3>1 DEF InOrder
  <2>8. CASE Reads
    <3>1. rx_queue # <<>> BY <2>1, <2>2, <2>8 DEF Reads, At
    <3>2. /\ driver' = "look" /\ UNCHANGED <<dlab, loop, terminal, typed>>
          /\ rx_queue' = Tail(rx_queue) /\ handed' = Append(handed, Head(rx_queue))
      BY <2>1, <2>8, <3>1
      DEF Reads, At, Port!LoadReceived, Port!rx_byte, Port!settings, Port!ticking
    <3>3. typed' = handed' \o rx_queue' \o terminal'
      BY <2>1, <2>2, <3>1, <3>2, Moves
    <3>4. handed' \in Seq(Char) BY <2>1, <2>2, <3>1, <3>2
    <3> QED BY <2>1, <3>2, <3>3, <3>4 DEF InOrder
  <2>9. CASE Prioritizes \/ Enables \/ IsInterrupted \/ Looks \/ Completes
    <3>1. /\ UNCHANGED port /\ UNCHANGED history
          /\ driver' \in DriverStates /\ (driver' = "read" => dr)
      BY <2>9 DEF Prioritizes, Enables, IsInterrupted, Looks, Completes, At
    <3> QED BY <2>3, <3>1
  <2>10. CASE UNCHANGED vars
    BY <2>1, <2>3, <2>10 DEF vars
  <2>11. ~ Anything BY <1>2 DEF Anything
  <2> QED
    BY <2>4, <2>5, <2>6, <2>7, <2>8, <2>9, <2>10, <2>11 DEF Next, Driver
<1> QED BY <1>1, <1>2

LEMMA OrderInv == Spec => []InOrder
<1>1. Init => InOrder
  <2> SUFFICES ASSUME Init PROVE InOrder OBVIOUS
  <2>1. <<>> \in Seq(Char) /\ <<>> \o <<>> \o <<>> = <<>> OBVIOUS
  <2>2. /\ driver \in {"none", "fifo"} /\ ~ dlab /\ ~ loop
        /\ typed = <<>> /\ handed = <<>> /\ rx_queue = <<>> /\ terminal = <<>>
    BY DEF Init, Port!PortInit
  <2> QED BY <2>1, <2>2 DEF InOrder, DriverStates, Setup
<1>2. LineFollowsCauses => Port!RequestsFollow BY DEF LineFollowsCauses
<1> QED BY LineInv, OrderStep, <1>1, <1>2, PTL DEF Spec

(* The driver is handed what was typed, in that order: what it has not     *)
(* read yet waits in the port, whose queue keeps within its size, and the  *)
(* rest in the terminal.                                                   *)
THEOREM OrderCorrect == Spec => []CharactersInOrder
<1>1. Port!PortTypeOK /\ InOrder => CharactersInOrder
  BY DEF Port!PortTypeOK, InOrder, CharactersInOrder
<1> QED BY LineInv, OrderInv, <1>1, PTL

(* The registers of both devices keep their types.                         *)
THEOREM TypeCorrect == Spec => []TypeOK
<1>1. Port!PortTypeOK /\ Ctl!IInv /\ InOrder => TypeOK
  BY SameInit DEF TypeOK, InOrder, Ctl!IInv
<1> QED BY LineInv, ControllerInv, OrderInv, <1>1, PTL

-----------------------------------------------------------------------------
(* The interrupt the driver waits for.                                     *)

(* How the driver has set the controller up by now: its line is the only   *)
(* source enabled, in the first context, with a priority above the         *)
(* threshold, and while it waits it holds no claim.                        *)
Armed ==
  driver # "none" =>
    /\ ier = IF driver \in Setup THEN {} ELSE {"RDI"}
    /\ driver \notin {"fifo", "priority"} => priority[Line] = 1
    /\ \A c \in Intctrl!Contexts :
         enable[c] = IF c = 1 /\ driver \notin {"fifo", "priority", "enable"}
                     THEN {Line} ELSE {}
    /\ shared = {}
    /\ threshold[1] = 0
    /\ Line \in pending[1] => pendingPriority[1][Line] = 1
    /\ driver \notin {"look", "read", "complete"} => claimed[1] = {}

(* Priority 1 is not cut to nothing.                                       *)
LEMMA OneMasked == Intctrl!Masked(1) = 1
<1> DEFINE m == 2 ^ PrioBits
<1>1. m \in Nat /\ m > 1 BY ConsoleAssumption, ControllerAssumption
<1>2. 1 % m = 1 BY <1>1
<1> QED BY <1>2 DEF Intctrl!Masked

(* What a change of the line does to an armed controller.                  *)
LEMMA LevelKeeps ==
  ASSUME Intctrl!TypeOK, Armed, driver # "none", set_interrupt_level
  PROVE  /\ UNCHANGED <<priority, enable, threshold, shared>>
         /\ claimed'[1] \subseteq claimed[1]
         /\ Line \in pending'[1] => pendingPriority'[1][Line] = 1
<1>1. \/ UNCHANGED intctrl \/ (UNCHANGED Intctrl!bits /\ UNCHANGED <<priority, shared>>)
      \/ \E c \in Intctrl!Contexts :
           /\ Intctrl!RaiseAt(c, Line) \/ Intctrl!LowerAt(c, Line)
           /\ UNCHANGED <<priority, shared>>
  BY Zenon
  DEF set_interrupt_level, Intctrl!Raise, Intctrl!Lower, Intctrl!NobodyHears
<1>2. CASE UNCHANGED intctrl \/ (UNCHANGED Intctrl!bits /\ UNCHANGED <<priority, shared>>)
  BY <1>2 DEF intctrl, Intctrl!bits, Armed
<1>3. ASSUME NEW c \in Intctrl!Contexts, UNCHANGED <<priority, shared>>,
             Intctrl!RaiseAt(c, Line) \/ Intctrl!LowerAt(c, Line)
      PROVE  /\ UNCHANGED <<priority, enable, threshold, shared>>
             /\ claimed'[1] \subseteq claimed[1]
             /\ Line \in pending'[1] => pendingPriority'[1][Line] = 1
  <2>1. Line \in enable[c]
    BY <1>3 DEF Intctrl!RaiseAt, Intctrl!LowerAt, Intctrl!Hears
  <2>2. c = 1 /\ priority[Line] = 1 BY <2>1 DEF Armed
  <2>3. /\ pending \in [Intctrl!Contexts -> SUBSET Intctrl!Sources]
        /\ claimed \in [Intctrl!Contexts -> SUBSET Intctrl!Sources]
        /\ pendingPriority \in [Intctrl!Contexts -> [Intctrl!Ids -> Intctrl!Priorities]]
        /\ 1 \in Intctrl!Contexts /\ Line \in Intctrl!Ids
    BY LineExists DEF Intctrl!TypeOK
  <2>4. CASE Intctrl!RaiseAt(1, Line)
    BY <1>3, <2>2, <2>3, <2>4 DEF Intctrl!RaiseAt
  <2>5. CASE Intctrl!LowerAt(1, Line)
    BY <1>3, <2>2, <2>3, <2>5 DEF Intctrl!LowerAt
  <2> QED BY <1>3, <2>2, <2>4, <2>5
<1> QED BY <1>1, <1>2, <1>3

LEMMA ArmedStep ==
  ASSUME Intctrl!TypeOK, Intctrl!ClaimsArePending, InOrder, Armed, [Next]_vars
  PROVE  Armed'
<1> DEFINE early == {"fifo", "priority", "enable"}
           late == {"look", "read", "complete"}
<1> SUFFICES ASSUME driver # "none" PROVE Armed'
  <2>1. driver = "none" => driver' = "none"
    BY DEF Next, Tick, Anything, Type, Driver, TurnsFifoOn, Prioritizes, Enables, Unmasks,
           IsInterrupted, Looks, Reads, Completes, At, vars
  <2> QED BY <2>1 DEF Armed
<1>1. /\ driver \in DriverStates /\ ~ dlab /\ 1 \in Intctrl!Contexts
      /\ ier = IF driver \in Setup THEN {} ELSE {"RDI"}
      /\ driver \notin {"fifo", "priority"} => priority[Line] = 1
      /\ \A c \in Intctrl!Contexts :
           enable[c] = IF c = 1 /\ driver \notin early THEN {Line} ELSE {}
      /\ shared = {} /\ threshold[1] = 0
      /\ Line \in pending[1] => pendingPriority[1][Line] = 1
      /\ driver \notin late => claimed[1] = {}
  BY LineExists DEF Armed, InOrder
<1>2. /\ priority \in [Intctrl!Ids -> Intctrl!Priorities]
      /\ enable \in [Intctrl!Contexts -> SUBSET Intctrl!Ids]
      /\ claimed \in [Intctrl!Contexts -> SUBSET Intctrl!Sources]
  BY DEF Intctrl!TypeOK
(* An access to the port, or a tick.                                       *)
<1>3. ASSUME set_interrupt_level, driver' # "none" => driver' \in DriverStates,
             ier' = IF driver' \in Setup THEN {} ELSE {"RDI"},
             driver' \in {"fifo", "priority"} <=> driver \in {"fifo", "priority"},
             driver' \in early <=> driver \in early,
             driver' \in late <=> driver \in late
      PROVE  Armed'
  <2>1. /\ UNCHANGED <<priority, enable, threshold, shared>>
        /\ claimed'[1] \subseteq claimed[1]
        /\ Line \in pending'[1] => pendingPriority'[1][Line] = 1
    BY <1>3, LevelKeeps
  <2> QED BY <1>1, <1>3, <2>1 DEF Armed
(* A step that leaves the controller as it is.                             *)
<1>4. ASSUME UNCHANGED intctrl, ier' = ier,
             driver' \in Setup <=> driver \in Setup,
             driver' \in {"fifo", "priority"} <=> driver \in {"fifo", "priority"},
             driver' \in early <=> driver \in early,
             driver' \in late <=> driver \in late
      PROVE  Armed'
  BY <1>1, <1>4 DEF Armed, intctrl
<1>5. CASE Tick
  <2>1. driver' = driver /\ ier' = ier
    BY <1>5
    DEF Tick, Port!TickWaits, Port!TickFindsNothing, Port!TickReceives, Port!settings
  <2>2. UNCHANGED intctrl \/ set_interrupt_level BY <1>5 DEF Tick
  <2> QED BY <1>1, <1>3, <1>4, <2>1, <2>2
<1>6. ASSUME NEW ch \in Char, Type(ch) PROVE Armed'
  BY <1>4, <1>6 DEF Type, Port!Type, Port!settings, intctrl
<1>7. CASE TurnsFifoOn
  <2>1. driver = "fifo" /\ driver' = "priority" /\ ier' = ier
    BY <1>7 DEF TurnsFifoOn, At, Port!StoreFifoControl
  <2> QED BY <1>1, <1>3, <1>7, <2>1 DEF TurnsFifoOn, DriverStates, Setup
<1>8. CASE Prioritizes
  <2>1. /\ driver = "priority" /\ driver' = "enable" /\ ier' = ier
        /\ UNCHANGED <<enable, pending, pendingPriority, claimed, threshold, shared>>
        /\ priority' = [priority EXCEPT ![Line] = 1]
    BY <1>8, OneMasked
    DEF Prioritizes, At, port, Intctrl!PriorityWrite, Intctrl!bits
  <2>2. priority'[Line] = 1 BY <1>2, <2>1, LineExists
  <2> QED BY <1>1, <2>1, <2>2 DEF Armed, Setup
<1>9. CASE Enables
  <2> DEFINE w == Line \div WordSize
  <2>1. /\ driver = "enable" /\ driver' = "unmask" /\ ier' = ier
        /\ Intctrl!EnableWrite(1, w, {Line})
    BY <1>9 DEF Enables, At, port
  <2>2. enable[1] = {} /\ claimed[1] = {} /\ priority[Line] = 1 BY <1>1, <2>1
  <2>3. Intctrl!Selected(w, {Line}) = {Line}
    BY LineExists DEF Intctrl!Selected, Intctrl!Sources
  <2> HIDE DEF w
  <2>4. enable' = [enable EXCEPT ![1] = {Line}] /\ shared' = {}
    BY <1>1, <2>1, <2>2, <2>3 DEF Intctrl!EnableWrite
  <2>5. UNCHANGED <<priority, threshold>> /\ claimed'[1] = {}
    BY <1>1, <1>2, <2>1, <2>2 DEF Intctrl!EnableWrite, Intctrl!lines
  <2>6. Line \in pending'[1] => pendingPriority'[1][Line] = 1
    <3>1. Intctrl!TurnedOff(1, w, {Line}) = {}
      BY <2>2 DEF Intctrl!TurnedOff
    <3>2. CASE Line \in Intctrl!TurnedOn(1, w, {Line})
      BY <1>1, <2>1, <2>2, <3>2, LineExists DEF Intctrl!EnableWrite, Intctrl!TypeOK
    <3>3. CASE Line \notin Intctrl!TurnedOn(1, w, {Line})
      BY <1>1, <2>1, <3>1, <3>3, LineExists DEF Intctrl!EnableWrite, Intctrl!TypeOK
    <3> QED BY <3>2, <3>3
  <2> QED BY <1>1, <1>2, <2>1, <2>4, <2>5, <2>6 DEF Armed, Setup
<1>10. CASE Unmasks
  <2>1. driver = "unmask" /\ driver' = "idle" /\ ier' = {"RDI"}
    BY <1>1, <1>10 DEF Unmasks, At, Port!StoreInterruptEnable
  <2> QED BY <1>1, <1>3, <1>10, <2>1 DEF Unmasks, DriverStates, Setup
<1>11. CASE IsInterrupted
  <2>1. /\ driver = "idle" /\ driver' = "look" /\ ier' = ier
        /\ UNCHANGED <<priority, enable, pending, pendingPriority, threshold, shared>>
    BY <1>11 DEF IsInterrupted, At, port, Intctrl!ClaimRead, Intctrl!lines
  <2> QED BY <1>1, <2>1 DEF Armed, Setup
<1>12. CASE Looks
  <2>1. driver = "look" /\ driver' \in {"read", "complete"} /\ ier' = ier /\ UNCHANGED intctrl
    BY <1>12 DEF Looks, At, port
  <2> QED BY <1>4, <2>1 DEF Setup
<1>13. CASE Reads
  <2>1. driver = "read" /\ driver' = "look" /\ ier' = ier
    BY <1>13 DEF Reads, At, Port!LoadReceived, Port!settings
  <2> QED BY <1>1, <1>3, <1>13, <2>1 DEF Reads, DriverStates, Setup
<1>14. CASE Completes
  <2>1. /\ driver = "complete" /\ driver' = "idle" /\ ier' = ier
        /\ UNCHANGED <<priority, enable, pending, pendingPriority, threshold, shared>>
        /\ claimed' = [claimed EXCEPT ![1] = @ \ {Line}]
    BY <1>14 DEF Completes, At, port, Intctrl!Complete, Intctrl!lines
  <2>2. claimed[1] \subseteq {Line}
    <3>1. claimed[1] \subseteq enable[1] BY <1>1 DEF Intctrl!ClaimsArePending
    <3> QED BY <1>1, <2>1, <3>1
  <2>3. claimed'[1] = {} BY <1>1, <1>2, <2>1, <2>2
  <2> QED BY <1>1, <2>1, <2>3 DEF Armed, Setup
<1>15. CASE UNCHANGED vars
  BY <1>4, <1>15 DEF vars, port
<1>16. ~ Anything BY DEF Anything
<1> QED
  BY <1>5, <1>6, <1>7, <1>8, <1>9, <1>10, <1>11, <1>12, <1>13, <1>14, <1>15, <1>16
  DEF Next, Driver

LEMMA SameInv ==
  Ctl!IInv => /\ Intctrl!TypeOK /\ Intctrl!ClaimsArePending
              /\ Intctrl!LineFollowsRegisters /\ Intctrl!UnsharedIsLevelTriggered
<1> SUFFICES ASSUME Ctl!IInv
             PROVE  /\ Intctrl!ClaimsArePending
                    /\ Intctrl!LineFollowsRegisters /\ Intctrl!UnsharedIsLevelTriggered
  BY SameInit DEF Ctl!IInv
<1> QED
  BY Zenon
  DEF Ctl!IInv, Ctl!ClaimsArePending, Ctl!LineFollowsRegisters, Ctl!UnsharedIsLevelTriggered,
      Ctl!Waiting, Ctl!Contexts, Ctl!Sources, Ctl!Ids, Ctl!NumIdsWord, Ctl!NumIds,
      Intctrl!ClaimsArePending, Intctrl!LineFollowsRegisters,
      Intctrl!UnsharedIsLevelTriggered, Intctrl!Waiting, Intctrl!Contexts, Intctrl!Sources,
      Intctrl!Ids, Intctrl!NumIdsWord, Intctrl!NumIds

LEMMA ArmedInv == Spec => []Armed
<1>1. Init => Armed
  <2> SUFFICES ASSUME Init, driver # "none" PROVE Armed BY DEF Armed
  <2>1. driver = "fifo" /\ ier = {} BY DEF Init, Port!PortInit
  <2>2. /\ enable = [c \in Intctrl!Contexts |-> {}] /\ shared = {}
        /\ threshold[1] = 0 /\ Line \notin pending[1] /\ claimed[1] = {}
    BY LineExists DEF Init, Intctrl!Init
  <2> QED BY <2>1, <2>2 DEF Armed, Setup
<1>2. Ctl!IInv /\ InOrder /\ Armed /\ [Next]_vars => Armed'
  BY SameInv, ArmedStep
<1> QED BY ControllerInv, OrderInv, <1>1, <1>2, PTL DEF Spec

(* A character that comes at any moment, even between the last look of the *)
(* driver and its completion, interrupts its hart again.                   *)
THEOREM HeardCorrect == Spec => []NoneUnheard
<1>1. Ctl!IInv /\ LineFollowsCauses /\ Armed => NoneUnheard
  <2> SUFFICES ASSUME Ctl!IInv, LineFollowsCauses, Armed, driver = "idle", rx_queue # <<>>
               PROVE  mip[1]
    BY DEF NoneUnheard
  <2>1. ier = {"RDI"} /\ dr
    BY DEF Armed, Setup, LineFollowsCauses, Port!RequestsFollow
  <2>2. Line \in level
    BY <2>1 DEF LineFollowsCauses, Port!Requested
  <2>3. Line \in enable[1] /\ Line \notin claimed[1] /\ Line \in Intctrl!Sources \ shared
    BY LineExists DEF Armed
  <2>4. Line \in pending[1]
    BY <2>2, <2>3, SameInv, LineExists DEF Intctrl!UnsharedIsLevelTriggered
  <2>5. pendingPriority[1][Line] > threshold[1]
    BY <2>4 DEF Armed
  <2>6. Line \in Intctrl!Waiting(1) BY <2>3, <2>4, <2>5 DEF Intctrl!Waiting
  <2> QED BY <2>6, SameInv, LineExists DEF Intctrl!LineFollowsRegisters
<1> QED BY LineInv, ControllerInv, ArmedInv, <1>1, PTL

=============================================================================
