-------------------------- MODULE CollectorProofs --------------------------
(***************************************************************************)
(* Proofs about Collector, for any programs, configurations, sizes of the  *)
(* memory and bounds.                                                      *)
(***************************************************************************)
EXTENDS Collector, FiniteSetTheorems, WellFoundedInduction, TLAPS

-----------------------------------------------------------------------------
(* Numbers, words and finite sets *)

LEMMA DivMod ==
  ASSUME NEW n \in Nat, NEW M \in Nat \ {0}
  PROVE  n = M * (n \div M) + (n % M) /\ n % M \in 0..(M - 1) /\ n \div M \in Nat
OBVIOUS

LEMMA D4 ==
  ASSUME NEW n \in Nat
  PROVE  n = 4 * (n \div 4) + (n % 4) /\ n % 4 \in 0..3 /\ n \div 4 \in Nat
OBVIOUS

LEMMA W4 ==
  ASSUME NEW n \in Nat
  PROVE  (n - (n % 4)) \div 4 = n \div 4 /\ (n - (n % 4)) % 4 = 0
OBVIOUS

LEMMA Card == Cardinality(0..3) = 4
<1>1. 0 \in Int /\ 3 \in Int /\ ~ (0 > 3) /\ 3 - 0 + 1 = 4
  OBVIOUS
<1> QED BY <1>1, FS_Interval

LEMMA Card2 == Cardinality({"kind", "rd"}) = 2
<1>1. Cardinality({"rd"}) = 1 /\ IsFiniteSet({"rd"})  BY FS_Singleton
<1>2. {"kind", "rd"} = {"rd"} \cup {"kind"} /\ "kind" \notin {"rd"} OBVIOUS
<1>3. Cardinality({"rd"} \cup {"kind"}) = 1 + 1 BY <1>1, <1>2, FS_AddElement, Zenon
<1> QED BY <1>2, <1>3

\* A section that starts in the first MEM_SIZE bytes of a memory's turn is placed where
\* its addresses are looked up.
LEMMA Quarter ==
  ASSUME NEW n \in Nat
  PROVE  (4 * n) \div 4 = n
OBVIOUS

LEMMA ModUnique ==
  ASSUME NEW q \in Nat, NEW M \in Nat \ {0}, NEW r \in 0..(M - 1)
  PROVE  (M * q + r) % M = r
OBVIOUS

\* A section that starts in the first MEM_SIZE bytes of a memory's turn is placed where
\* its addresses are looked up.
LEMMA PlacesAgree ==
  ASSUME NEW M \in Nat \ {0}, NEW s \in Nat, NEW a \in Nat,
         s <= a, s % 4 = 0, a % 4 = 0, s % (4 * M) < M,
         ((s % M) \div 4) + ((a - s) \div 4) < M
  PROVE  ((s % M) \div 4) + ((a - s) \div 4) = (a \div 4) % M
<1> DEFINE q == s \div (4 * M)
           t == s % (4 * M)
           d == a - s
<1>1. 4 * M \in Nat \ {0}
  OBVIOUS
<1>2. s = (4 * M) * q + t /\ t \in 0..(4 * M - 1) /\ q \in Nat
  BY <1>1, DivMod
<1>3. d \in Nat /\ d % 4 = 0 /\ d = 4 * (d \div 4) /\ d \div 4 \in Nat
  OBVIOUS
<1>4. PICK u : u = d \div 4
  OBVIOUS
<1>5. t % 4 = 0
  <2>1. PICK mq \in Nat : mq = M * q
    BY <1>2
  <2>2. s = 4 * mq + t
    BY <1>2, <2>1
  <2> HIDE DEF q, t
  <2> QED
    BY <1>2, <2>1, <2>2
<1>6. PICK v \in Nat : t = 4 * v
  BY <1>2, <1>5
<1>7. s % M = t
  <2>1. s = M * (4 * q) + t /\ 4 * q \in Nat /\ t \in 0..(M - 1)
    BY <1>2
  <2> HIDE DEF q, t
  <2> QED
    BY <2>1, ModUnique
<1>0. PICK mq \in Nat : mq = M * q
  BY <1>2
<1>8. PICK w \in Nat : w = v + u /\ w = u + v
  BY <1>3, <1>4
<1>9. v + u \in 0..(M - 1) /\ a = 4 * (mq + w)
  <2>1. t \div 4 = v
    BY <1>6, Quarter
  <2>2. u \in Nat /\ d = 4 * u
    BY <1>3, <1>4
  <2>3. v + u < M
    BY <1>4, <1>7, <2>1
  <2>4. s = 4 * mq + t /\ a = s + d
    BY <1>0, <1>2
  <2> HIDE DEF q, t, d
  <2> QED
    BY <1>0, <1>6, <1>8, <2>2, <2>3, <2>4
<1>10. a \div 4 = M * q + (v + u)
  <2> HIDE DEF q, t, d
  <2>1. mq + w \in Nat
    OBVIOUS
  <2>2. a \div 4 = mq + w
    BY <1>9, <2>1, Quarter
  <2> QED
    BY <1>0, <1>8, <2>2
<1>11. (a \div 4) % M = v + u
  <2>1. PICK r \in 0..(M - 1) : r = v + u
    BY <1>9
  <2>2. PICK n \in Nat : n = q
    BY <1>2
  <2>3. a \div 4 = M * n + r
    BY <1>10, <2>1, <2>2
  <2>4. (M * n + r) % M = r
    BY ModUnique
  <2> HIDE DEF q, t, d
  <2> QED
    BY <2>1, <2>3, <2>4
<1>12. t \div 4 = v
  BY <1>6, Quarter
<1> HIDE DEF q, t, d
<1>13. ((s % M) \div 4) + ((a - s) \div 4) = v + u
  <2>1. (s % M) \div 4 = v
    BY <1>7, <1>12
  <2>2. (a - s) \div 4 = u
    BY <1>4 DEF d
  <2> QED
    BY <2>1, <2>2
<1> QED
  BY <1>11, <1>13

LEMMA LeastNumber ==
  ASSUME NEW T \in SUBSET Nat, T # {}
  PROVE  \E n \in T : \A m \in T : n <= m
<1>1. PICK R : R = OpToRel(<, Nat)
  OBVIOUS
<1>2. IsWellFoundedOn(R, Nat)
  BY <1>1, NatLessThanWellFounded
<1>3. PICK n \in T : \A m \in T : ~ (<<m, n>> \in R)
  BY <1>2, WFMin
<1>4. \A k, m \in Nat : m < k => <<m, k>> \in R
  BY <1>1 DEF OpToRel
<1>5. \A m \in T : ~ (m < n)
  BY <1>3, <1>4
<1> QED
  BY <1>3, <1>5

LEMMA Induction ==
  ASSUME NEW T, 0 \in T, \A n \in Nat : n \in T => n + 1 \in T
  PROVE  Nat \subseteq T
<1> SUFFICES ASSUME Nat \ T # {} PROVE FALSE
  OBVIOUS
<1>1. PICK n \in Nat \ T : \A m \in Nat \ T : n <= m
  BY LeastNumber
<1>2. n # 0 /\ n - 1 \in Nat
  BY <1>1
<1>3. n - 1 \in T
  BY <1>1, <1>2
<1> QED
  BY <1>1, <1>2, <1>3

\* Max of a bounded set of numbers is one of them, and none is greater.
LEMMA MaxOf ==
  ASSUME NEW S \in SUBSET Nat, NEW b \in Nat, S # {}, \A n \in S : n <= b
  PROVE  Max(S) \in S /\ \A n \in S : n <= Max(S)
<1>1. PICK T : T = {k \in Nat : \E n \in S : k = b - n}
  OBVIOUS
<1>2. T \in SUBSET Nat /\ T # {}
  <2>1. PICK n \in S : n \in Nat /\ n <= b
    OBVIOUS
  <2>2. b - n \in T
    BY <1>1, <2>1
  <2> QED
    BY <1>1, <2>2
<1>3. PICK m \in T : \A n \in T : m <= n
  BY <1>2, LeastNumber
<1>4. PICK x \in S : m = b - x
  BY <1>1
<1>5. ASSUME NEW n \in S PROVE x >= n
  <2>1. n \in Nat /\ n <= b /\ x \in Nat
    OBVIOUS
  <2>2. b - n \in T
    BY <1>1, <2>1
  <2> QED
    BY <1>3, <1>4, <2>1, <2>2
<1>6. Max(S) \in S /\ \A n \in S : Max(S) >= n
  BY <1>5, Zenon DEF Max
<1>7. PICK mx : mx = Max(S)
  OBVIOUS
<1>8. mx \in S /\ \A n \in S : n <= mx
  BY <1>6, <1>7
<1> QED
  BY <1>7, <1>8

LEMMA MaxIs ==
  ASSUME NEW S \in SUBSET Nat, NEW m \in S, \A n \in S : n <= m
  PROVE  Max(S) = m
<1>1. \A n \in S : m >= n
  OBVIOUS
<1>2. Max(S) \in S /\ \A n \in S : Max(S) >= n
  BY <1>1, Zenon DEF Max
<1>3. PICK mx : mx = Max(S)
  OBVIOUS
<1>4. mx \in Nat /\ m \in Nat /\ mx >= m /\ m >= mx
  BY <1>1, <1>2, <1>3
<1> QED
  BY <1>3, <1>4

\* The registers of a set in the order of their numbers: each is there, and once.
Ascends(s) == \A i, j \in DOMAIN s : i < j => s[i] < s[j]

LEMMA OrderExists ==
  \A n \in Nat : \A S \in SUBSET Nat :
    IsFiniteSet(S) /\ Cardinality(S) = n => \E s \in [1..n -> S] : Ascends(s)
<1>1. PICK T : T = {n \in Nat : \A S \in SUBSET Nat :
                     IsFiniteSet(S) /\ Cardinality(S) = n => \E s \in [1..n -> S] : Ascends(s)}
  OBVIOUS
<1>2. 0 \in T
  <2>1. ASSUME NEW S \in SUBSET Nat PROVE \E s \in [1..0 -> S] : Ascends(s)
    <3>1. PICK s : s = [i \in 1..0 |-> 0]
      OBVIOUS
    <3>2. s \in [1..0 -> S] /\ DOMAIN s = {}
      BY <3>1
    <3> QED
      BY <3>2 DEF Ascends
  <2> QED
    BY <1>1, <2>1
<1>3. ASSUME NEW n \in Nat, n \in T PROVE n + 1 \in T
  <2>1. ASSUME NEW S \in SUBSET Nat, IsFiniteSet(S), Cardinality(S) = n + 1
        PROVE  \E s \in [1..(n + 1) -> S] : Ascends(s)
    <3>1. S # {}
      BY <2>1, FS_EmptySet
    <3>2. PICK x \in S : \A m \in S : x <= m
      BY <3>1, LeastNumber
    <3>3. IsFiniteSet(S \ {x}) /\ Cardinality(S \ {x}) = n /\ S \ {x} \in SUBSET Nat
      BY <2>1, FS_RemoveElement
    <3>4. PICK r \in [1..n -> S \ {x}] : Ascends(r)
      BY <1>1, <1>3, <3>3
    <3>5. PICK s : s = [i \in 1..(n + 1) |-> IF i = 1 THEN x ELSE r[i - 1]]
      OBVIOUS
    <3>6. \A i \in 1..(n + 1) : i # 1 => i - 1 \in 1..n /\ s[i] = r[i - 1]
      BY <3>5
    <3>7. s[1] = x /\ DOMAIN s = 1..(n + 1) /\ DOMAIN r = 1..n
      BY <3>5
    <3>8. s \in [1..(n + 1) -> S]
      BY <3>5, <3>6
    <3>9. ASSUME NEW i \in 1..(n + 1), NEW j \in 1..(n + 1), i < j PROVE s[i] < s[j]
      <4>1. j # 1 /\ j - 1 \in 1..n /\ s[j] = r[j - 1] /\ r[j - 1] \in S \ {x}
        BY <3>6, <3>9
      <4>2. CASE i = 1
        <5>1. r[j - 1] \in S /\ r[j - 1] # x
          BY <4>1
        <5>2. r[j - 1] \in Nat /\ x \in Nat /\ x <= r[j - 1]
          BY <3>2, <5>1
        <5> QED
          BY <3>7, <4>1, <4>2, <5>1, <5>2
      <4>3. CASE i # 1
        <5>1. i - 1 \in 1..n /\ s[i] = r[i - 1] /\ i - 1 < j - 1
          BY <3>6, <3>9, <4>3
        <5> QED
          BY <3>4, <3>7, <4>1, <5>1 DEF Ascends
      <4> QED
        BY <4>2, <4>3
    <3> QED
      BY <3>7, <3>8, <3>9 DEF Ascends
  <2> QED
    BY <1>1, <2>1
<1> QED
  BY <1>1, <1>2, <1>3, Induction

LEMMA InOrderIs ==
  ASSUME NEW S \in SUBSET Nat, IsFiniteSet(S)
  PROVE  \E n \in Nat :
           /\ n = Cardinality(S) /\ InOrder(S) \in [1..n -> S]
           /\ \A i, j \in 1..n : i < j => InOrder(S)[i] < InOrder(S)[j]
           /\ \A x \in S : \E i \in 1..n : InOrder(S)[i] = x
<1>1. PICK n \in Nat : n = Cardinality(S)
  BY FS_CardinalityType
<1>2. \E s \in [1..n -> S] : \A i, j \in DOMAIN s : i < j => s[i] < s[j]
  BY <1>1, OrderExists DEF Ascends
<1>3. PICK s : s = InOrder(S)
  OBVIOUS
<1>4. s \in [1..n -> S] /\ \A i, j \in DOMAIN s : i < j => s[i] < s[j]
  BY <1>1, <1>2, <1>3 DEF InOrder
<1>5. DOMAIN s = 1..n
  BY <1>4
<1>6. s \in Injection(1..n, S)
  <2>1. \A i, j \in 1..n : s[i] = s[j] => i = j
    <3> SUFFICES ASSUME NEW i \in 1..n, NEW j \in 1..n, s[i] = s[j], i # j PROVE FALSE
      OBVIOUS
    <3>1. s[i] \in Nat /\ s[j] \in Nat
      BY <1>4
    <3>2. i < j \/ j < i
      OBVIOUS
    <3> QED
      BY <1>4, <1>5, <3>1, <3>2
  <2> QED
    BY <1>4, <2>1 DEF Injection, IsInjective
<1>7. IsFiniteSet(1..n) /\ Cardinality(1..n) = n
  <2>1. 1 \in Int /\ n \in Int /\ (IF 1 > n THEN 0 ELSE n - 1 + 1) = n
    OBVIOUS
  <2> QED
    BY <2>1, FS_Interval
<1>8. s \in Surjection(1..n, S)
  BY <1>1, <1>6, <1>7, FS_Injection
<1>9. \A x \in S : \E i \in 1..n : s[i] = x
  BY <1>8 DEF Surjection
<1> QED
  BY <1>1, <1>3, <1>4, <1>5, <1>9

-----------------------------------------------------------------------------
(* The requests and their answers *)

\* The word a read of port p is given: the one in the memory, moved down.
Served(p) ==
  LET cell == memory[p][Simulated(bus[p].addr)]
  IN  IF config.BYTE_ALIGNED_MEMORY_ACCESS /\ ~InstructionOnly(p)
      THEN Shifted(cell, bus[p].addr % 4) ELSE cell

DataThere(p) == ~bus[p].we => data_in[p] = Served(p)

Shape ==
  /\ awaiting = [c \in Ports \cup {"main"} |-> awaiting[c]]
  /\ due \subseteq Ports \cup {"main"}
  /\ clk \in {"low", "high"}
  /\ awaiting["main"] = "edge"
  /\ ack = [p \in Ports |-> ack[p]]
  /\ data_in = [p \in Ports |-> data_in[p]]
  /\ memory = [p \in Ports |-> memory[p]]
  /\ bus = [p \in Ports |-> bus[p]]
  /\ \A p \in Ports : bus[p].cyc \in BOOLEAN /\ awaiting[p] \in {"edge", "step"}

\* A coroutine that is due waits for the edge in the first half of the cycle, for
\* the step after it in the second; one that is between its two halves in the
\* second is due.
InStep(p) ==
  /\ p \in due => (clk = "high" <=> awaiting[p] = "edge")
  /\ clk = "low" /\ awaiting[p] = "step" => p \in due

\* Between its two halves a coroutine has a request, and the data of a read is on
\* the bus; once it is done with the cycle the request is acknowledged.
Serving(p) ==
  /\ awaiting[p] = "step" => bus[p].cyc /\ DataThere(p)
  /\ awaiting[p] = "edge" /\ p \notin due =>
       ack[p] = bus[p].cyc /\ (bus[p].cyc => DataThere(p))

IInv == Shape /\ (Running => \A p \in Ports : InStep(p) /\ Serving(p))

-----------------------------------------------------------------------------
\* The main coroutine is not one of a memory.
LEMMA PortsAreNotMain == "main" \notin Ports /\ "core" \in Ports
BY DEF Ports

LEMMA FetchingShape ==
  /\ NoRequest.cyc = FALSE
  /\ \A addr, reason : Fetching(addr, reason).cyc = TRUE
BY DEF Fetching, NoRequest

\* Whatever the processor asks for, a request is there or it is not.
LEMMA RequestsShape ==
  ASSUME NEW p, NEW r \in Requests(p)
  PROVE  r.cyc \in BOOLEAN
<1>1. \A addr : Stray(addr).cyc = TRUE
  BY DEF Stray, Fetching, NoRequest
<1>2. \A k : Accessing(k).cyc = TRUE
  BY DEF Accessing
<1>3. CASE r \in Wanted(p)
  BY FetchingShape, <1>2, <1>3 DEF Wanted
<1>4. CASE r \in ForNothing(p)
  BY FetchingShape, <1>1, <1>4 DEF ForNothing
<1>5. r \in Wanted(p) \/ r \in ForNothing(p) \/ r = NoRequest
  BY DEF Requests
<1> QED
  BY FetchingShape, <1>3, <1>4, <1>5

LEMMA InitIInv == Init => IInv
<1> SUFFICES ASSUME Init PROVE IInv
  OBVIOUS
<1>1. \A p \in Ports : bus[p] = NoRequest /\ ~bus[p].cyc /\ bus[p].cyc \in BOOLEAN
  BY DEF Init, NoRequest
<1>2. Shape
  BY <1>1, PortsAreNotMain DEF Init, Shape
<1>3. ASSUME NEW p \in Ports PROVE InStep(p) /\ Serving(p)
  BY <1>1, <1>3 DEF Init, InStep, Serving
<1> QED
  BY <1>2, <1>3 DEF IInv

-----------------------------------------------------------------------------
(* The time steps *)

LEMMA RisingEdgeKeeps == IInv /\ RisingEdge => IInv'
<1> SUFFICES ASSUME IInv, RisingEdge PROVE IInv'
  OBVIOUS
<1>1. Shape /\ Running /\ \A p \in Ports : InStep(p) /\ Serving(p)
  BY DEF IInv, RisingEdge
<1>2. /\ clk = "low" /\ due = {} /\ clk' = "high"
      /\ due' = {c \in DOMAIN awaiting : awaiting[c] = "edge"}
      /\ config' = config /\ awaiting' = awaiting /\ ack' = ack /\ data_in' = data_in
      /\ memory' = memory /\ main' = main
  BY DEF RisingEdge, memVars, mainVars
<1>3. Ports' = Ports
  BY <1>2 DEF Ports
<1>4. bus' = [p \in Ports |-> bus'[p]] /\ \A p \in Ports : bus'[p].cyc \in BOOLEAN
  <2>1. CASE ResetStep
    <3>1. PICK request \in {NoRequest, Fetching(Step(1).pc, "fetch")} :
            bus' = [bus EXCEPT !["core"] = request]
      BY <2>1 DEF ResetStep
    <3>2. request.cyc \in BOOLEAN
      BY <3>1, FetchingShape
    <3> QED
      BY <1>1, <3>1, <3>2 DEF Shape
  <2>2. CASE RunStep
    <3>1. /\ bus' \in [Ports -> UNION {Requests(p) \cup {bus[p]} : p \in Ports}]
          /\ \A p \in Ports : IF Free(p) THEN bus'[p] \in Requests(p) ELSE bus'[p] = bus[p]
      BY <2>2 DEF RunStep
    <3>2. bus' = [p \in Ports |-> bus'[p]]
      BY <3>1
    <3>3. ASSUME NEW p \in Ports PROVE bus'[p].cyc \in BOOLEAN
      <4>1. CASE Free(p)
        BY <3>1, <4>1, RequestsShape
      <4>2. CASE ~Free(p)
        BY <1>1, <3>1, <4>2 DEF Shape
      <4> QED
        BY <4>1, <4>2
    <3> QED
      BY <3>2, <3>3
  <2> QED
    BY <2>1, <2>2 DEF RisingEdge
<1>5. DOMAIN awaiting = Ports \cup {"main"}
  BY <1>1 DEF Shape
<1>6. Shape'
  BY <1>1, <1>2, <1>3, <1>4, <1>5 DEF Shape
<1>7. ASSUME NEW p \in Ports PROVE p \in due' /\ awaiting'[p] = "edge"
  BY <1>1, <1>2, <1>5, <1>7 DEF Shape, InStep
<1>8. ASSUME NEW p \in Ports PROVE InStep(p)' /\ Serving(p)'
  BY <1>2, <1>7, <1>8 DEF InStep, Serving
<1> QED
  BY <1>3, <1>6, <1>8 DEF IInv

LEMMA FallingEdgeKeeps == IInv /\ FallingEdge => IInv'
<1> SUFFICES ASSUME IInv, FallingEdge PROVE IInv'
  OBVIOUS
<1>1. Shape /\ Running /\ \A p \in Ports : InStep(p) /\ Serving(p)
  BY DEF IInv, FallingEdge
<1>2. /\ clk = "high" /\ due = {} /\ clk' = "low"
      /\ due' = {c \in DOMAIN awaiting : awaiting[c] = "step"}
      /\ config' = config /\ awaiting' = awaiting /\ ack' = ack /\ data_in' = data_in
      /\ memory' = memory /\ main' = main /\ bus' = bus
  BY DEF FallingEdge, memVars, mainVars, cpuVars
<1>3. Ports' = Ports
  BY <1>2 DEF Ports
<1>4. DOMAIN awaiting = Ports \cup {"main"}
  BY <1>1 DEF Shape
<1>5. Shape'
  BY <1>1, <1>2, <1>3, <1>4 DEF Shape
<1>6. ASSUME NEW p \in Ports PROVE InStep(p)' /\ Serving(p)'
  <2>1. DataThere(p)' <=> DataThere(p)
    BY <1>2 DEF DataThere, Served, InstructionOnly, Simulated, Shifted
  <2>2. awaiting[p] \in {"edge", "step"} /\ Serving(p)
    BY <1>1 DEF Shape
  <2>3. p \in due' <=> awaiting[p] = "step"
    BY <1>2, <1>4
  <2> QED
    BY <1>2, <2>1, <2>2, <2>3 DEF InStep, Serving
<1> QED
  BY <1>3, <1>5, <1>6 DEF IInv

-----------------------------------------------------------------------------
(* The coroutines *)

\* What a step of the main coroutine leaves alone.
LEMMA MainKeeps == IInv /\ Main => IInv'
<1> SUFFICES ASSUME IInv, Main PROVE IInv'
  OBVIOUS
<1>1. Resume("main", "edge") /\ MainOnly
  BY DEF Main, WaitForReset, ReleaseReset, Collect, TimeOut
<1>2. Shape /\ Running /\ \A p \in Ports : InStep(p) /\ Serving(p)
  BY <1>1 DEF IInv, Resume
<1>3. /\ due' = due \ {"main"} /\ clk' = clk
      /\ config' = config /\ awaiting' = awaiting /\ ack' = ack /\ data_in' = data_in
      /\ memory' = memory /\ bus' = bus
  BY <1>1 DEF Resume, MainOnly, memVars
<1>4. Ports' = Ports
  BY <1>3 DEF Ports
<1>5. Shape'
  BY <1>2, <1>3, <1>4 DEF Shape
<1>6. ASSUME NEW p \in Ports PROVE InStep(p)' /\ Serving(p)'
  <2>1. DataThere(p)' <=> DataThere(p)
    BY <1>3 DEF DataThere, Served, InstructionOnly, Simulated, Shifted
  <2>2. p \in due' <=> p \in due
    BY <1>3, PortsAreNotMain
  <2>3. InStep(p)'
    BY <1>2, <1>3, <2>2 DEF InStep
  <2> QED
    BY <1>2, <1>3, <2>1, <2>2, <2>3 DEF Serving
<1> QED
  BY <1>4, <1>5, <1>6 DEF IInv

\* A step of one memory coroutine leaves the other one's port alone.
LEMMA OtherPortKeeps ==
  ASSUME NEW p \in Ports, NEW q \in Ports, q # p,
         due' = due \ {p}, clk' = clk, config' = config, bus' = bus,
         awaiting'[q] = awaiting[q], ack'[q] = ack[q],
         data_in'[q] = data_in[q], memory'[q] = memory[q],
         InStep(q), Serving(q)
  PROVE  InStep(q)' /\ Serving(q)'
<1>1. DataThere(q)' <=> DataThere(q)
  BY DEF DataThere, Served, InstructionOnly, Simulated, Shifted
<1>2. q \in due' <=> q \in due
  OBVIOUS
<1>3. InStep(q)'
  BY <1>2 DEF InStep
<1>4. Serving(q)'
  BY <1>1, <1>2 DEF Serving
<1> QED
  BY <1>3, <1>4

LEMMA MemoryModelKeeps ==
  ASSUME NEW p \in Ports, IInv, MemoryModel(p)
  PROVE  IInv'
<1>1. /\ Running /\ p \in due /\ due' = due \ {p} /\ clk' = clk
      /\ config' = config /\ bus' = bus
  BY DEF MemoryModel, NoTransaction, Transaction, InstructionWrite, AnswerRead, AnswerWrite,
         AnswerRaises, Answered, Resume, cpuVars
<1>2. Shape /\ \A q \in Ports : InStep(q) /\ Serving(q)
  BY <1>1 DEF IInv
<1>3. Ports' = Ports /\ p # "main"
  BY <1>1, PortsAreNotMain DEF Ports
\* What each action makes of the port's entries; the others' stay.
<1>4. PICK a, k, d, m :
        /\ awaiting' = [awaiting EXCEPT ![p] = a] /\ ack' = [ack EXCEPT ![p] = k]
        /\ data_in' = [data_in EXCEPT ![p] = d] /\ memory' = [memory EXCEPT ![p] = m]
        /\ a \in {"edge", "step"}
        /\ Running' =>
             /\ clk = "high" <=> awaiting[p] = "edge"
             /\ a = "step" => clk = "high" /\ bus[p].cyc /\ (~bus[p].we => DataThere(p)')
             /\ a = "edge" => /\ k = bus[p].cyc
                              /\ bus[p].cyc /\ ~bus[p].we => DataThere(p)'
  <2>0. /\ awaiting = [awaiting EXCEPT ![p] = awaiting[p]]
        /\ ack = [ack EXCEPT ![p] = ack[p]]
        /\ data_in = [data_in EXCEPT ![p] = data_in[p]]
        /\ memory = [memory EXCEPT ![p] = memory[p]]
    BY <1>2 DEF Shape
  <2>1. InStep(p) /\ Serving(p) /\ bus[p].cyc \in BOOLEAN /\ awaiting[p] \in {"edge", "step"}
    BY <1>2 DEF Shape
  <2>2. clk = "high" <=> awaiting[p] = "edge"
    BY <1>1, <2>1 DEF InStep
  <2>3. CASE NoTransaction(p)
    <3>1. /\ awaiting' = awaiting /\ data_in' = data_in /\ memory' = memory
          /\ ack' = [ack EXCEPT ![p] = FALSE] /\ ~bus[p].cyc /\ awaiting[p] = "edge"
      BY <2>3 DEF NoTransaction, Resume
    <3>2. FALSE = bus[p].cyc
      BY <2>1, <3>1
    <3> QED
      BY <2>0, <2>1, <2>2, <3>1, <3>2
  <2>4. CASE Transaction(p)
    <3> DEFINE cell == memory[p][Simulated(bus[p].addr)]
               shift == IF config.BYTE_ALIGNED_MEMORY_ACCESS /\ ~InstructionOnly(p)
                        THEN bus[p].addr % 4 ELSE 0
    <3>1. /\ awaiting' = [awaiting EXCEPT ![p] = "step"] /\ ack' = ack /\ memory' = memory
          /\ data_in' = [data_in EXCEPT ![p] = Shifted(cell, shift)]
          /\ bus[p].cyc /\ awaiting[p] = "edge"
      BY <2>4 DEF Transaction, Resume
    <3>2. Shifted(cell, shift) = Served(p)
      BY DEF Served, Shifted
    <3>3. data_in'[p] = Served(p)
      BY <1>2, <3>1, <3>2 DEF Shape
    <3>4. Served(p)' = Served(p)
      BY <1>1, <3>1 DEF Served, InstructionOnly, Simulated, Shifted
    <3>5. DataThere(p)'
      BY <3>3, <3>4 DEF DataThere
    <3> HIDE DEF cell, shift
    <3>6. PICK d : data_in' = [data_in EXCEPT ![p] = d]
      BY <3>1
    <3>7. ack' = [ack EXCEPT ![p] = ack[p]] /\ memory' = [memory EXCEPT ![p] = memory[p]]
      BY <2>0, <3>1
    <3>8. clk = "high" /\ awaiting[p] = "edge" /\ bus[p].cyc
      BY <2>2, <3>1
    <3>9. awaiting' = [awaiting EXCEPT ![p] = "step"]
      BY <3>1
    <3>10. "step" # "edge" /\ "step" \in {"edge", "step"}
      OBVIOUS
    <3> QED
      BY <3>5, <3>6, <3>7, <3>8, <3>9, <3>10, Zenon
  <2>5. CASE InstructionWrite(p)
    <3>1. /\ awaiting' = awaiting /\ data_in' = data_in
          /\ memory' = [memory EXCEPT ![p][Simulated(bus[p].addr)] = bus[p].data_out]
          /\ ack' = [ack EXCEPT ![p] = TRUE] /\ bus[p].cyc /\ bus[p].we /\ awaiting[p] = "edge"
      BY <2>5 DEF InstructionWrite, Resume
    <3>2. PICK m : memory' = [memory EXCEPT ![p] = m]
      BY <3>1
    <3>3. TRUE = bus[p].cyc
      BY <2>1, <3>1
    <3> QED
      BY <2>0, <2>1, <2>2, <3>1, <3>2, <3>3
  <2>6. CASE AnswerRead(p)
    <3>1. /\ awaiting' = [awaiting EXCEPT ![p] = "edge"] /\ data_in' = data_in
          /\ memory' = memory /\ ack' = [ack EXCEPT ![p] = TRUE] /\ awaiting[p] = "step"
      BY <2>6 DEF AnswerRead, Answered, Resume
    <3>2. DataThere(p)' <=> DataThere(p)
      BY <1>1, <3>1 DEF DataThere, Served, InstructionOnly, Simulated, Shifted
    <3>3. TRUE = bus[p].cyc /\ DataThere(p)
      BY <2>1, <3>1 DEF Serving
    <3> QED
      BY <2>0, <2>2, <3>1, <3>2, <3>3
  <2>7. CASE AnswerWrite(p)
    <3>1. /\ awaiting' = [awaiting EXCEPT ![p] = "edge"] /\ data_in' = data_in
          /\ ack' = [ack EXCEPT ![p] = TRUE] /\ awaiting[p] = "step" /\ bus[p].we
      BY <2>7 DEF AnswerWrite, Answered, Resume
    <3>2. PICK m : memory' = [memory EXCEPT ![p] = m]
      <4>1. \/ memory' = memory
            \/ \E w, v : memory' = [memory EXCEPT ![p][w] = v]
        BY <2>7 DEF AnswerWrite
      <4> QED
        BY <2>0, <4>1
    <3>3. TRUE = bus[p].cyc
      BY <2>1, <3>1 DEF Serving
    <3> QED
      BY <2>0, <2>2, <3>1, <3>2, <3>3
  <2>8. CASE AnswerRaises(p)
    <3>1. /\ awaiting' = awaiting /\ data_in' = data_in /\ memory' = memory /\ ack' = ack
          /\ ~Running'
      BY <2>8 DEF AnswerRaises, memVars, Running
    <3> QED
      BY <2>0, <2>1, <3>1
  <2> QED
    BY <2>3, <2>4, <2>5, <2>6, <2>7, <2>8 DEF MemoryModel
<1>5. /\ awaiting'[p] = a /\ ack'[p] = k
      /\ \A q \in Ports : q # p => /\ awaiting'[q] = awaiting[q] /\ ack'[q] = ack[q]
                                   /\ data_in'[q] = data_in[q] /\ memory'[q] = memory[q]
  BY <1>2, <1>4 DEF Shape
<1>6. Shape'
  <2>1. awaiting' = [c \in Ports \cup {"main"} |-> awaiting'[c]] /\ awaiting'["main"] = "edge"
    BY <1>2, <1>3, <1>4 DEF Shape
  <2>2. /\ ack' = [q \in Ports |-> ack'[q]] /\ data_in' = [q \in Ports |-> data_in'[q]]
        /\ memory' = [q \in Ports |-> memory'[q]]
    BY <1>2, <1>4 DEF Shape
  <2>3. \A q \in Ports : awaiting'[q] \in {"edge", "step"}
    BY <1>2, <1>4, <1>5 DEF Shape
  <2> QED
    BY <1>1, <1>2, <1>3, <2>1, <2>2, <2>3 DEF Shape
<1>7. ASSUME Running', NEW q \in Ports PROVE InStep(q)' /\ Serving(q)'
  <2>1. CASE q # p
    BY <1>1, <1>2, <1>5, <2>1, OtherPortKeeps
  <2>2. CASE q = p
    <3>1. p \notin due' /\ clk \in {"low", "high"}
      BY <1>1, <1>2 DEF Shape
    <3>2. InStep(p)'
      BY <1>1, <1>4, <1>5, <1>7, <3>1 DEF InStep
    <3>3. bus[p].cyc /\ ~bus[p].we => DataThere(p)'
      BY <1>4, <1>7
    <3>4. bus[p].cyc => DataThere(p)'
      BY <1>1, <3>3 DEF DataThere
    <3>5. Serving(p)'
      BY <1>1, <1>4, <1>5, <1>7, <3>4 DEF Serving
    <3> QED
      BY <2>2, <3>2, <3>5
  <2> QED
    BY <2>1, <2>2
<1> QED
  BY <1>3, <1>6, <1>7 DEF IInv

-----------------------------------------------------------------------------
LEMMA NextKeeps == IInv /\ [Next]_vars => IInv'
<1> SUFFICES ASSUME IInv, [Next]_vars PROVE IInv'
  OBVIOUS
<1>1. CASE RisingEdge
  BY <1>1, RisingEdgeKeeps
<1>2. CASE FallingEdge
  BY <1>2, FallingEdgeKeeps
<1>3. CASE Main
  BY <1>3, MainKeeps
<1>4. CASE \E p \in Ports : MemoryModel(p)
  BY <1>4, MemoryModelKeeps
<1>5. CASE UNCHANGED vars
  <2>1. UNCHANGED <<config, clk, due, awaiting, ack, data_in, memory, bus, main>>
    BY <1>5 DEF vars, simVars, memVars, mainVars, cpuVars
  <2>2. Ports' = Ports /\ (Running' <=> Running)
    BY <2>1 DEF Ports, Running
  <2>3. \A p : InStep(p)' <=> InStep(p)
    BY <2>1 DEF InStep
  <2>4. \A p : DataThere(p)' <=> DataThere(p)
    BY <2>1 DEF DataThere, Served, InstructionOnly, Simulated, Shifted
  <2>5. \A p : Serving(p)' <=> Serving(p)
    BY <2>1, <2>4 DEF Serving
  <2>6. Shape'
    BY <2>1, <2>2 DEF IInv, Shape
  <2> QED
    BY <2>2, <2>3, <2>5, <2>6 DEF IInv
<1> QED
  BY <1>1, <1>2, <1>3, <1>4, <1>5 DEF Next

\* At the rising edge every request of the cycle before is acknowledged, and every
\* read has been given the word that is in the memory: whatever the coroutines'
\* order in a time step, the processor's programs and the number of its ports.
THEOREM RequestsCorrect == Spec => []RequestsAnswered
<1>1. IInv => RequestsAnswered
  <2> SUFFICES ASSUME IInv, Running, clk = "low", due = {}, NEW p \in Ports
               PROVE  /\ ack[p] = bus[p].cyc
                      /\ bus[p].cyc /\ ~bus[p].we => data_in[p] = Served(p)
    BY DEF RequestsAnswered, Served
  <2>1. awaiting[p] = "edge" /\ p \notin due
    BY DEF IInv, Shape, InStep
  <2> QED
    BY <2>1 DEF IInv, Serving, DataThere
<1> QED
  BY <1>1, InitIInv, NextKeeps, PTL DEF Spec

-----------------------------------------------------------------------------
(* What the processor asks for *)

\* What a request on a bus is made of.
Request == [cyc : BOOLEAN, we : BOOLEAN, addr : Nat, sel : SUBSET (0..3), data_out : Word,
            for : {"nothing", "fetch", "access"}]

\* A request of the program is for what the processor has to do next: the fetch after
\* those that are done, the access of the instruction after the executed ones.  One
\* for nothing does not write, but for the stray writes to the instruction memory.
Asked(p, r) ==
  /\ r \in Request
  /\ r.for = "fetch" =>
       p = "core" /\ fetched < Len(program.trace) /\ r = Fetching(Step(fetched + 1).pc, "fetch")
  /\ r.for = "access" =>
       /\ p = DataPort /\ executed < fetched /\ executed - retired <= 1
       /\ Accesses(executed + 1) /\ r = Accessing(executed + 1)
  /\ r.for = "nothing" /\ r.we => InstructionOnly(p) /\ r = Stray(Outside(program))

\* How far the processor is; under reset it has done nothing and asked for no access.
Counts ==
  /\ fetched \in Nat /\ executed \in Nat /\ retired \in Nat
  /\ retired <= executed /\ executed <= fetched /\ fetched <= Len(program.trace)
  /\ strays \in 0..Strays
ResetHolds ==
  /\ rst_n \in BOOLEAN /\ (main = "reset" <=> ~rst_n)
  /\ main \in {"reset", "loop", "stopped", "timeout", "failed"}
  /\ ~rst_n => /\ fetched = 0 /\ executed = 0 /\ retired = 0
               /\ \A p \in Ports : bus[p].for # "access" /\ ~bus[p].we

BusInv ==
  /\ config \in Configs /\ program \in Programs
  /\ Counts /\ ResetHolds
  /\ \A p \in Ports : Asked(p, bus[p])

-----------------------------------------------------------------------------
\* What a program is, as the proofs use it.
LEMMA ProgramFacts ==
  ASSUME program \in Programs
  PROVE  /\ program.trace \in Seq(Entry) /\ Len(program.trace) \in Nat \ {0}
         /\ DOMAIN program.trace = 1..Len(program.trace)
         /\ \A k \in 1..Len(program.trace) : Step(k) \in Entry /\ LoggedBySpike(Step(k))
         /\ DOMAIN program.text \subseteq Nat /\ DOMAIN program.data \subseteq Nat
         /\ DOMAIN program.text # {} /\ DOMAIN program.data # {}
         /\ program.tohost \in DOMAIN program.data /\ program.regs \in [Reg -> Value]
         /\ \A a \in DOMAIN program.text : program.text[a] \in Instr
         /\ \A a \in DOMAIN program.data : program.data[a] \in Word
<1>1. IsProgram(program) /\ Linked(program)
  BY SizesAssumption, ProgramsAssumption
<1>2. IsTrace(program.trace) /\ program.trace # << >>
  BY <1>1 DEF IsProgram
<1>3. program.trace \in Seq(Entry) /\ \A k \in 1..Len(program.trace) : LoggedBySpike(program.trace[k])
  BY <1>2 DEF IsTrace
<1>4. PICK t \in Seq(Entry) : t = program.trace
  BY <1>3
<1>5. Len(t) \in Nat \ {0} /\ DOMAIN t = 1..Len(t) /\ \A k \in 1..Len(t) : t[k] \in Entry
  BY <1>2, <1>4
<1>6. /\ DOMAIN program.text \subseteq Nat /\ DOMAIN program.data \subseteq Nat
      /\ DOMAIN program.text # {} /\ DOMAIN program.data # {}
      /\ program.regs \in [Reg -> Value]
      /\ Range(program.text) \subseteq Instr /\ Range(program.data) \subseteq Word
  BY <1>1 DEF IsProgram
<1>7. program.tohost \in DOMAIN program.data
  BY <1>1 DEF Linked
<1>8. /\ \A a \in DOMAIN program.text : program.text[a] \in Instr
      /\ \A a \in DOMAIN program.data : program.data[a] \in Word
  BY <1>6 DEF Range
<1> QED
  BY <1>3, <1>4, <1>5, <1>6, <1>7, <1>8 DEF Step

\* What the accesses of a program are.
LEMMA AccessFacts ==
  ASSUME program \in Programs, NEW k \in 1..Len(program.trace)
  PROVE  /\ Step(k).instr.kind \in Kinds
         /\ Accesses(k) => Step(k).mem_addr \in Nat
         /\ Step(k).instr.kind \in Stores =>
              /\ Step(k).mem_addr \in Nat /\ Step(k).mem_val \in Word
              /\ Step(k).target_reg = None
<1>1. Step(k) \in Entry /\ LoggedBySpike(Step(k)) /\ k \in DOMAIN program.trace
  BY ProgramFacts
<1>2. Linked(program)
  BY ProgramsAssumption
<1>3. Accesses(k) => Step(k).mem_addr \in Nat
  BY <1>1, <1>2 DEF Linked, Accesses, Step
<1>4. Step(k).instr.kind \in Kinds /\ Step(k).mem_val \in Word \cup {None}
  BY <1>1 DEF Entry, Instr
<1>5. Step(k).instr.kind \in Stores =>
         Accesses(k) /\ Step(k).mem_val # None /\ Step(k).target_reg = None
  BY <1>1 DEF LoggedBySpike, Accesses
<1> QED
  BY <1>3, <1>4, <1>5

LEMMA NoRequestIsRequest == NoRequest \in Request /\ NoRequest.for = "nothing" /\ ~NoRequest.we /\ ~NoRequest.cyc
BY ByteAssumption DEF NoRequest, Request, Word

LEMMA FetchingIsRequest ==
  ASSUME NEW addr \in Nat, NEW reason \in {"nothing", "fetch", "access"}
  PROVE  /\ Fetching(addr, reason) \in Request
         /\ Fetching(addr, reason).for = reason /\ ~Fetching(addr, reason).we
         /\ Fetching(addr, reason).cyc /\ Fetching(addr, reason).addr = addr
BY ByteAssumption DEF Fetching, NoRequest, Request, Word

LEMMA StrayIsRequest ==
  ASSUME NEW addr \in Nat
  PROVE  /\ Stray(addr) \in Request /\ Stray(addr).for = "nothing" /\ Stray(addr).we
         /\ Stray(addr).cyc /\ Stray(addr).addr = addr
BY ByteAssumption DEF Stray, Fetching, NoRequest, Request, Word

LEMMA AccessingIsRequest ==
  ASSUME program \in Programs, config \in Configs, NEW k \in 1..Len(program.trace), Accesses(k)
  PROVE  /\ Accessing(k) \in Request /\ Accessing(k).for = "access" /\ Accessing(k).cyc
         /\ Accessing(k).we <=> Step(k).instr.kind \in Stores
<1> DEFINE e       == Step(k)
           shift   == e.mem_addr % 4
           isStore == e.instr.kind \in Stores
           lanes   == {b \in 0..3 : shift <= b /\ b < shift + Width(e.instr.kind)}
<1>1. e.mem_addr \in Nat /\ (isStore => e.mem_val \in Word)
  BY AccessFacts
<1>2. shift \in 0..3 /\ e.mem_addr - shift \in Nat
  BY <1>1
<1>3. ASSUME NEW b \in 0..3
      PROVE  (IF isStore /\ b \in lanes THEN e.mem_val[b - shift] ELSE 1) \in Byte
  <2>1. CASE isStore /\ b \in lanes
    <3>1. e.mem_val \in [0..3 -> Byte] /\ b \in 0..3 /\ shift <= b
      BY <1>1, <2>1 DEF Word
    <3> HIDE DEF e, shift, lanes, isStore
    <3>2. b - shift \in 0..3
      BY <1>2, <3>1
    <3> QED
      BY <2>1, <3>1, <3>2
  <2>2. CASE ~(isStore /\ b \in lanes)
    BY <2>2, SizesAssumption
  <2> QED
    BY <2>1, <2>2
<1>4. [b \in 0..3 |-> IF isStore /\ b \in lanes THEN e.mem_val[b - shift] ELSE 1] \in Word
  BY <1>3 DEF Word
<1>5. isStore \in BOOLEAN /\ lanes \in SUBSET (0..3)
  OBVIOUS
<1>6. (IF config.BYTE_ALIGNED_MEMORY_ACCESS THEN e.mem_addr ELSE e.mem_addr - shift) \in Nat
  BY <1>1, <1>2
<1>7. Accessing(k) =
        [cyc |-> TRUE, we |-> isStore,
         addr |-> IF config.BYTE_ALIGNED_MEMORY_ACCESS THEN e.mem_addr ELSE e.mem_addr - shift,
         sel |-> lanes,
         data_out |-> [b \in 0..3 |-> IF isStore /\ b \in lanes THEN e.mem_val[b - shift] ELSE 1],
         for |-> "access"]
  BY Zenon DEF Accessing
<1> HIDE DEF e, shift, lanes, isStore
<1>8. PICK d \in Word, n \in Nat, w \in BOOLEAN, l \in SUBSET (0..3) :
        /\ Accessing(k) = [cyc |-> TRUE, we |-> w, addr |-> n, sel |-> l, data_out |-> d,
                           for |-> "access"]
        /\ w = isStore
  BY <1>4, <1>5, <1>6, <1>7, Zenon
<1>9. PICK a : a = Accessing(k)
  OBVIOUS
<1>10. a \in Request /\ a.for = "access" /\ a.cyc /\ (a.we <=> isStore)
  BY <1>8, <1>9 DEF Request
<1> QED
  BY <1>9, <1>10 DEF isStore, e

LEMMA InitBusInv == Init => BusInv
<1> SUFFICES ASSUME Init PROVE BusInv
  OBVIOUS
<1>1. /\ config \in Configs /\ program \in Programs /\ rst_n = FALSE /\ main = "reset"
      /\ bus = [p \in Ports |-> NoRequest]
      /\ fetched = 0 /\ executed = 0 /\ retired = 0 /\ strays = 0
  BY DEF Init
<1>2. Counts
  BY <1>1, ProgramFacts, SizesAssumption DEF Counts
<1>3. \A p \in Ports : bus[p] = NoRequest
  BY <1>1
<1>4. ResetHolds
  BY <1>1, <1>3, NoRequestIsRequest DEF ResetHolds
<1>5. ASSUME NEW p \in Ports PROVE Asked(p, bus[p])
  BY <1>3, NoRequestIsRequest DEF Asked
<1> QED
  BY <1>1, <1>2, <1>4, <1>5 DEF BusInv

\* At the rising edge every port has been served: what was asked for is done.
LEMMA AllServed ==
  ASSUME IInv, RisingEdge, NEW p \in Ports
  PROVE  Free(p) /\ \A reason : Done(p, reason) <=> bus[p].cyc /\ bus[p].for = reason
<1>1. awaiting[p] = "edge" /\ p \notin due /\ Serving(p)
  BY DEF IInv, Shape, InStep, RisingEdge
<1>2. ack[p] = bus[p].cyc /\ bus[p].cyc \in BOOLEAN
  BY <1>1 DEF Serving, IInv, Shape
<1> QED
  BY <1>2 DEF Free, Done

\* Where the instructions of the program lie.
LEMMA AddressFacts ==
  ASSUME program \in Programs
  PROVE  /\ \A k \in 1..Len(program.trace) : Step(k).pc \in DOMAIN program.text /\ Step(k).pc \in Nat
         /\ Outside(program) \in Nat
<1>1. Linked(program) /\ DOMAIN program.text \subseteq Nat /\ DOMAIN program.trace = 1..Len(program.trace)
  BY ProgramsAssumption, ProgramFacts
<1>2. \A k \in 1..Len(program.trace) : Step(k).pc \in DOMAIN program.text
  BY <1>1 DEF Linked, Step
<1>3. PICK start \in Nat : start = Start(program.text)
  <2>1. PICK n \in DOMAIN program.text : \A m \in DOMAIN program.text : n <= m
    BY ProgramFacts, LeastNumber
  <2> QED
    BY <1>1, <2>1 DEF Start
<1>4. Cardinality(DOMAIN program.text) \in Nat
  <2>1. IsFiniteSet(DOMAIN program.text)
    BY SizesAssumption DEF IsProgram
  <2> QED
    BY <2>1, FS_CardinalityType
<1> QED
  BY <1>1, <1>2, <1>3, <1>4 DEF Outside

LEMMA NextWithin ==
  ASSUME NEW e \in Nat, NEW f \in Nat, NEW n \in Nat, e + 1 \in 1..f, f <= n
  PROVE  e < f /\ e + 1 \in 1..n
OBVIOUS

\* Whatever the processor puts on its bus is asked for a reason.
LEMMA RequestsAsked ==
  ASSUME config \in Configs, program \in Programs, config' = config, program' = program,
         Counts', NEW p \in Ports, NEW r \in Requests(p)
  PROVE  Asked(p, r)'
<1>0. /\ fetched' \in Nat /\ executed' \in Nat /\ retired' \in Nat
      /\ executed' <= fetched' /\ fetched' <= Len(program.trace)
      /\ Len(program.trace) \in Nat
  BY ProgramFacts DEF Counts
<1>1. /\ DataPort' = DataPort /\ (InstructionOnly(p)' <=> InstructionOnly(p))
      /\ \A k : Step(k)' = Step(k) /\ Accessing(k)' = Accessing(k) /\ (Accesses(k)' <=> Accesses(k))
  BY DEF DataPort, InstructionOnly, Step, Accessing, Accesses
<1>2. CASE r \in {Fetching(Step(k).pc, "fetch") : k \in IF p = "core" /\ fetched' < Len(program.trace)
                                         THEN {fetched' + 1} ELSE {}}
  <2>1. p = "core" /\ fetched' < Len(program.trace) /\ r = Fetching(Step(fetched' + 1).pc, "fetch")
    BY <1>2
  <2>2. Step(fetched' + 1).pc \in Nat
    BY <1>0, <2>1, AddressFacts
  <2>3. r \in Request /\ r.for = "fetch"
    BY <2>1, <2>2, FetchingIsRequest
  <2>4. r = Fetching(Step(fetched + 1).pc, "fetch")'
    BY <2>1 DEF Step, Fetching
  <2> QED
    BY <2>1, <2>3, <2>4 DEF Asked
<1>3. CASE r \in {Accessing(k) : k \in {j \in {executed' + 1} \cap (1..fetched') :
                                  p = DataPort /\ Accesses(j) /\ executed' - retired' <= 1}}
  <2>1. /\ p = DataPort /\ Accesses(executed' + 1) /\ executed' - retired' <= 1
        /\ r = Accessing(executed' + 1) /\ executed' + 1 \in 1..fetched'
    BY <1>3
  <2>2. executed' < fetched' /\ executed' + 1 \in 1..Len(program.trace)
    <3>1. PICK e \in Nat, f \in Nat, n \in Nat :
            e = executed' /\ f = fetched' /\ n = Len(program.trace) /\ f <= n
      BY <1>0
    <3>2. e + 1 \in 1..f
      BY <2>1, <3>1
    <3>3. e < f /\ e + 1 \in 1..n
      BY <3>1, <3>2, NextWithin
    <3> QED
      BY <3>1, <3>3
  <2>3. r \in Request /\ r.for = "access"
    BY <2>1, <2>2, AccessingIsRequest
  <2>4. (r = Accessing(executed + 1))' /\ Accesses(executed + 1)'
    BY <1>1, <2>1 DEF Accessing, Accesses, Step
  <2> QED
    BY <1>1, <2>1, <2>2, <2>3, <2>4 DEF Asked
<1>4. CASE r = NoRequest
  BY <1>4, NoRequestIsRequest DEF Asked
<1>5. CASE p = "core" /\ r \in {Fetching(addr, "nothing") : addr \in DOMAIN program.text}
  <2>1. PICK addr \in DOMAIN program.text : r = Fetching(addr, "nothing")
    BY <1>5
  <2>2. addr \in Nat
    BY ProgramFacts
  <2>3. r \in Request /\ r.for = "nothing" /\ ~r.we
    BY <2>1, <2>2, FetchingIsRequest
  <2> QED
    BY <2>3 DEF Asked
<1>6. CASE InstructionOnly(p) /\ r = Stray(Outside(program))
  <2>1. r \in Request /\ r.for = "nothing"
    BY <1>6, AddressFacts, StrayIsRequest
  <2> QED
    BY <1>1, <1>6, <2>1 DEF Asked
<1> QED
  BY <1>2, <1>3, <1>4, <1>5, <1>6, Zenon DEF Requests, Wanted, ForNothing

\* A request of the program is there because it was wanted.
LEMMA WantedIsForSomething ==
  ASSUME NEW p, NEW r \in Wanted(p)
  PROVE  r.for # "nothing"
<1>1. \A addr : Fetching(addr, "fetch").for = "fetch"
  BY DEF Fetching, NoRequest
<1>2. \A k : Accessing(k).for = "access"
  BY DEF Accessing
<1> QED
  BY <1>1, <1>2 DEF Wanted

LEMMA RunStepBus ==
  ASSUME IInv, BusInv, RisingEdge, RunStep
  PROVE  Counts' /\ \A p \in Ports : Asked(p, bus[p])'
<1>1. /\ config \in Configs /\ program \in Programs /\ Counts
      /\ \A p \in Ports : Asked(p, bus[p])
      /\ config' = config /\ program' = program
  BY DEF BusInv, RisingEdge
<1>2. DataPort \in Ports /\ "core" \in Ports
  BY DEF DataPort, Ports
<1>3. /\ fetched' = IF bus["core"].cyc /\ bus["core"].for = "fetch" THEN fetched + 1 ELSE fetched
      /\ \A p \in Ports : Free(p)
      /\ Done(DataPort, "access") <=> bus[DataPort].cyc /\ bus[DataPort].for = "access"
  BY <1>2, AllServed DEF RunStep
<1>4. fetched' \in Nat /\ fetched <= fetched' /\ fetched' <= Len(program.trace)
  BY <1>1, <1>2, <1>3, ProgramFacts DEF Counts, Asked
<1>5. executed' \in Nat /\ executed <= executed' /\ executed' <= fetched'
  <2>1. PICK n \in 0..1 :
          /\ n = 1 => IF Done(DataPort, "access") THEN TRUE
                      ELSE executed + 1 <= fetched /\ ~Accesses(executed + 1)
          /\ executed' = executed + n
    BY DEF RunStep
  <2>2. Done(DataPort, "access") => executed < fetched
    BY <1>1, <1>2, <1>3 DEF Asked
  <2>3. n = 1 => executed + 1 <= fetched
    BY <1>1, <2>1, <2>2 DEF Counts
  <2> QED
    BY <1>1, <1>4, <2>1, <2>3 DEF Counts
<1>6. PICK to \in retired..executed : retired' = to
  BY DEF RunStep, Retire
<1>7. retired' \in Nat /\ retired <= retired' /\ retired' <= executed'
  BY <1>1, <1>5, <1>6 DEF Counts
<1>8. \A p \in Ports : bus'[p] \in Requests(p)
  BY <1>3 DEF RunStep
<1>9. strays' \in 0..Strays
  <2>1. CASE strays < Strays
    <3>1. strays' = strays + 1 \/ strays' = strays
      BY DEF RunStep
    <3> QED
      BY <1>1, <2>1, <3>1, SizesAssumption DEF Counts
  <2>2. CASE ~(strays < Strays)
    <3>1. ASSUME NEW p \in Ports, bus'[p].for = "nothing", bus'[p].cyc \/ Wanted(p) # {}
          PROVE  FALSE
      <4>1. bus'[p] \in Wanted(p) \/ (Wanted(p) = {} /\ bus'[p] = NoRequest)
        BY <1>8, <2>2 DEF Requests
      <4> QED
        BY <3>1, <4>1, NoRequestIsRequest, WantedIsForSomething
    <3>2. strays' = strays
      BY <3>1 DEF RunStep
    <3> QED
      BY <1>1, <3>2 DEF Counts
  <2> QED
    BY <2>1, <2>2
<1>10. Counts'
  BY <1>1, <1>4, <1>5, <1>7, <1>9 DEF Counts
<1>11. ASSUME NEW p \in Ports PROVE Asked(p, bus[p])'
  <2>1. PICK r : r = bus'[p]
    OBVIOUS
  <2>2. r \in Requests(p)
    BY <1>8, <2>1
  <2>3. Asked(p, r)'
    BY <1>1, <1>10, <2>2, RequestsAsked
  <2> QED
    BY <2>1, <2>3 DEF Asked
<1> QED
  BY <1>10, <1>11

\* No step of the coroutines touches what the processor asks for.
LEMMA BusKept ==
  ASSUME BusInv, UNCHANGED <<config, program, bus, fetched, executed, retired, strays>>, ResetHolds'
  PROVE  BusInv'
<1>1. Ports' = Ports /\ DataPort' = DataPort
  BY DEF Ports, DataPort
<1>2. Counts'
  BY DEF BusInv, Counts
<1>3. \A p \in Ports : Asked(p, bus[p])'
  <2>1. /\ \A k : Step(k)' = Step(k) /\ Accessing(k)' = Accessing(k) /\ (Accesses(k)' <=> Accesses(k))
        /\ \A p : InstructionOnly(p)' <=> InstructionOnly(p)
    BY DEF InstructionOnly, Step, Accessing, Accesses
  <2>2. TAKE p \in Ports
  <2>3. PICK r : r = bus[p] /\ r = bus'[p]
    OBVIOUS
  <2>4. Asked(p, r)
    BY <2>3 DEF BusInv
  <2>5. Asked(p, r)'
    BY <1>1, <2>1, <2>4, <2>3 DEF Asked, Step, Accessing, Accesses
  <2> QED
    BY <2>3, <2>5 DEF Asked
<1> QED
  BY <1>1, <1>2, <1>3 DEF BusInv

LEMMA BusInvStep == IInv /\ BusInv /\ [Next]_vars => BusInv'
<1> SUFFICES ASSUME IInv, BusInv, [Next]_vars PROVE BusInv'
  OBVIOUS
<1>0. ResetHolds /\ Counts
  BY DEF BusInv
<1>1. CASE RisingEdge
  <2>1. /\ config' = config /\ program' = program /\ main' = main /\ rst_n' = rst_n
        /\ config \in Configs /\ program \in Programs
    BY <1>1 DEF RisingEdge, mainVars, BusInv
  <2>2. Ports' = Ports
    BY <2>1 DEF Ports
  <2>3. CASE ResetStep
    <3>1. UNCHANGED <<fetched, executed, retired, strays>> /\ ~rst_n
      BY <2>3 DEF ResetStep
    <3>2. fetched = 0 /\ 1 \in 1..Len(program.trace) /\ 0 < Len(program.trace)
      BY <1>0, <2>1, <3>1, ProgramFacts DEF ResetHolds
    <3>3. PICK request \in {NoRequest, Fetching(Step(1).pc, "fetch")} :
            bus' = [bus EXCEPT !["core"] = request]
      BY <2>3 DEF ResetStep
    <3>4. Step(1).pc \in Nat
      BY <2>1, <3>2, AddressFacts
    <3>5. /\ request \in Request /\ request.for # "access" /\ ~request.we
          /\ request.for = "fetch" => request = Fetching(Step(1).pc, "fetch")
      BY <3>3, <3>4, NoRequestIsRequest, FetchingIsRequest
    <3>6. \A p \in Ports : bus'[p] = IF p = "core" THEN request ELSE bus[p]
      BY <3>3 DEF IInv, Shape
    <3>7. Counts' /\ ResetHolds'
      <4>1. Counts'
        BY <1>0, <2>1, <3>1 DEF Counts
      <4>2. \A p \in Ports : bus'[p].for # "access" /\ ~bus'[p].we
        BY <1>0, <3>1, <3>5, <3>6 DEF ResetHolds
      <4> QED
        BY <1>0, <2>1, <2>2, <3>1, <4>1, <4>2 DEF ResetHolds
    <3>8. ASSUME NEW p \in Ports PROVE Asked(p, bus[p])'
      <4>1. CASE p = "core"
        <5>1. bus'[p] = request
          BY <3>6, <4>1
        <5>2. Step(fetched + 1)' = Step(1)
          BY <2>1, <3>1, <3>2 DEF Step
        <5>3. Fetching(Step(fetched + 1).pc, "fetch")' = Fetching(Step(1).pc, "fetch")
          BY <5>2 DEF Fetching
        <5> QED
          BY <2>1, <3>1, <3>2, <3>5, <4>1, <5>1, <5>3 DEF Asked
      <4>2. CASE p # "core"
        <5>1. PICK r : r = bus[p] /\ r = bus'[p]
          BY <3>6, <4>2
        <5>2. Asked(p, r) /\ r.for # "access" /\ ~r.we
          BY <1>0, <3>1, <5>1 DEF BusInv, ResetHolds
        <5>3. Asked(p, r)'
          BY <4>2, <5>2 DEF Asked
        <5> QED
          BY <5>1, <5>3 DEF Asked
      <4> QED
        BY <4>1, <4>2
    <3> QED
      BY <2>1, <2>2, <3>7, <3>8 DEF BusInv
  <2>4. CASE RunStep
    <3>1. ResetHolds'
      BY <1>0, <2>1, <2>4 DEF ResetHolds, RunStep
    <3> QED
      BY <1>1, <2>1, <2>2, <2>4, <3>1, RunStepBus DEF BusInv
  <2> QED
    BY <1>1, <2>3, <2>4 DEF RisingEdge
<1>2. CASE FallingEdge \/ UNCHANGED vars
  <2>1. UNCHANGED <<config, program, bus, fetched, executed, retired, strays, main, rst_n>>
    BY <1>2 DEF FallingEdge, vars, mainVars, cpuVars
  <2>2. ResetHolds'
    BY <1>0, <2>1 DEF ResetHolds, Ports
  <2> QED
    BY <2>1, <2>2, BusKept
<1>3. CASE Main
  <2>1. UNCHANGED <<config, program, bus, fetched, executed, retired, strays>>
    BY <1>3 DEF Main, WaitForReset, ReleaseReset, Collect, TimeOut, MainOnly
  <2>2. ResetHolds'
    <3>1. Ports' = Ports
      BY <2>1 DEF Ports
    <3>2. CASE WaitForReset
      BY <1>0, <2>1, <3>1, <3>2 DEF WaitForReset, ResetHolds
    <3>3. CASE ReleaseReset
      BY <1>0, <2>1, <3>1, <3>3 DEF ReleaseReset, ResetHolds
    <3>4. CASE Collect
      BY <1>0, <2>1, <3>1, <3>4 DEF Collect, Iterate, ResetHolds
    <3>5. CASE TimeOut
      BY <1>0, <2>1, <3>1, <3>5 DEF TimeOut, ResetHolds
    <3> QED
      BY <1>3, <3>2, <3>3, <3>4, <3>5 DEF Main
  <2> QED
    BY <2>1, <2>2, BusKept
<1>4. ASSUME NEW p \in Ports, MemoryModel(p) PROVE BusInv'
  <2>1. UNCHANGED <<config, program, bus, fetched, executed, retired, strays, rst_n>>
    BY <1>4 DEF MemoryModel, NoTransaction, Transaction, InstructionWrite, AnswerRead,
                AnswerWrite, AnswerRaises, Answered, cpuVars, mainVars
  <2>2. main' = main \/ (main' = "failed" /\ bus[p].we)
    BY <1>4 DEF MemoryModel, NoTransaction, Transaction, InstructionWrite, AnswerRead,
                AnswerWrite, AnswerRaises, Answered, mainVars
  <2>3. ResetHolds'
    BY <1>0, <2>1, <2>2 DEF ResetHolds, Ports
  <2> QED
    BY <2>1, <2>3, BusKept
<1> QED
  BY <1>1, <1>2, <1>3, <1>4 DEF Next

-----------------------------------------------------------------------------
(* The memories and their types *)

\* A request that the coroutine answers in the time step after it.
Serves(p) == bus[p].cyc /\ ~(InstructionOnly(p) /\ bus[p].we)

\* Once a coroutine has run at the edge it waits for the next time step just when
\* there is such a request, and then holds the address of it.
Timing(p) ==
  /\ clk = "high" /\ p \notin due => (awaiting[p] = "step" <=> Serves(p))
  /\ awaiting[p] = "step" => Serves(p) /\ raw_addr[p] = bus[p].addr

MemTyped ==
  /\ raw_addr \in [Ports -> Nat] /\ write_value \in [Ports -> Word \cup {None}]
  /\ data_in \in [Ports -> Cell] /\ memory \in [Ports -> [0..(MemWords - 1) -> Cell]]
  /\ fetches \in Seq([pc : Nat, instr : Cell]) /\ mem_access \in Seq(Access)
  /\ ack \in [Ports -> BOOLEAN]

MemInv == MemTyped /\ (Running => \A p \in Ports : Timing(p))

-----------------------------------------------------------------------------
LEMMA FillIsWord == Fill \in Word
BY ByteAssumption DEF Fill, Word

LEMMA BytesAreWords ==
  ASSUME NEW cell \in Cell
  PROVE  BytesOf(cell) \in Word /\ (cell \in Word => BytesOf(cell) = cell)
<1>1. CASE cell \in Word
  <2>1. DOMAIN cell = 0..3
    BY <1>1 DEF Word
  <2>2. Cardinality(DOMAIN cell) = 4
    BY <2>1, Card
  <2> QED
    BY <1>1, <2>2 DEF BytesOf
<1>2. CASE cell \in Instr
  <2>1. DOMAIN cell = {"kind", "rd"}
    BY <1>2 DEF Instr
  <2>2. Cardinality(DOMAIN cell) # 4
    BY <2>1, Card2
  <2>3. BytesOf(cell) = Fill
    BY <2>2 DEF BytesOf
  <2>4. cell \notin Word
    BY <2>1, <2>2, Card DEF Word
  <2> QED
    BY <2>3, <2>4, FillIsWord
<1> QED
  BY <1>1, <1>2 DEF Cell

LEMMA ShiftedIsCell ==
  ASSUME NEW cell \in Cell, NEW n \in 0..3
  PROVE  Shifted(cell, n) \in Cell
<1>1. PICK bytes \in Word : bytes = BytesOf(cell)
  BY BytesAreWords
<1>2. [b \in 0..3 |-> IF b + n <= 3 THEN bytes[b + n] ELSE 0] \in Word
  BY ByteAssumption DEF Word
<1> QED
  BY <1>1, <1>2 DEF Shifted, Cell

LEMMA MergedIsWord ==
  ASSUME NEW cell \in Cell, NEW r \in Request
  PROVE  Merged(cell, r) \in Word
<1>1. PICK bytes \in Word : bytes = BytesOf(cell)
  BY BytesAreWords
<1>2. r.data_out \in Word
  BY DEF Request
<1>3. [b \in 0..3 |-> IF b \in r.sel THEN r.data_out[b] ELSE bytes[b]] \in Word
  BY <1>2 DEF Word
<1> QED
  BY <1>1, <1>3 DEF Merged

LEMMA SimulatedIsPlace ==
  ASSUME NEW addr \in Nat
  PROVE  Simulated(addr) \in 0..(MemWords - 1)
<1>1. addr \div 4 \in Nat /\ MemWords \in Nat \ {0}
  BY SizesAssumption
<1> QED
  BY <1>1, DivMod DEF Simulated

\* Loading sections gives memories of cells.
LEMMA PlacedTyped ==
  ASSUME NEW section, NEW memories \in [0..(MemWords - 1) -> Cell],
         \A a \in DOMAIN section : section[a] \in Cell
  PROVE  Placed(section, memories) \in [0..(MemWords - 1) -> Cell]
<1>1. DOMAIN memories = 0..(MemWords - 1)
  OBVIOUS
<1>2. ASSUME NEW w \in 0..(MemWords - 1)
      PROVE  (IF \E a \in DOMAIN section : Place(section, a) = w
              THEN section[CHOOSE a \in DOMAIN section : Place(section, a) = w] ELSE memories[w]) \in Cell
  <2>1. CASE \E a \in DOMAIN section : Place(section, a) = w
    <3>1. (CHOOSE a \in DOMAIN section : Place(section, a) = w) \in DOMAIN section
      BY <2>1, Zenon
    <3> QED
      BY <2>1, <3>1
  <2>2. CASE ~\E a \in DOMAIN section : Place(section, a) = w
    BY <2>2
  <2> QED
    BY <2>1, <2>2
<1> QED
  BY <1>1, <1>2 DEF Placed

LEMMA LoadedTyped ==
  ASSUME program \in Programs
  PROVE  /\ LoadedMemory(program) \in [0..(MemWords - 1) -> Cell]
         /\ LoadedDataMemory(program) \in [0..(MemWords - 1) -> Cell]
<1>1. [w \in 0..(MemWords - 1) |-> Fill] \in [0..(MemWords - 1) -> Cell]
  BY FillIsWord DEF Cell
<1>2. /\ \A a \in DOMAIN program.text : program.text[a] \in Cell
      /\ \A a \in DOMAIN program.data : program.data[a] \in Cell
  BY ProgramFacts DEF Cell
<1> QED
  BY <1>1, <1>2, PlacedTyped DEF LoadedMemory, LoadedDataMemory

LEMMA InitMemInv == Init => MemInv
<1> SUFFICES ASSUME Init PROVE MemInv
  OBVIOUS
<1>1. /\ program \in Programs /\ clk = "low" /\ awaiting = [c \in Ports \cup {"main"} |-> "edge"]
      /\ ack = [p \in Ports |-> FALSE]
      /\ raw_addr = [p \in Ports |-> 0] /\ write_value = [p \in Ports |-> None]
      /\ data_in = [p \in Ports |-> Fill] /\ fetches = << >> /\ mem_access = << >>
      /\ memory = [p \in Ports |-> IF p = "core" THEN LoadedMemory(program) ELSE LoadedDataMemory(program)]
  BY DEF Init
<1>2. memory \in [Ports -> [0..(MemWords - 1) -> Cell]]
  BY <1>1, LoadedTyped
<1>3. data_in \in [Ports -> Cell]
  BY <1>1, FillIsWord DEF Cell
<1>4. MemTyped
  BY <1>1, <1>2, <1>3 DEF MemTyped
<1>5. \A p \in Ports : Timing(p)
  BY <1>1 DEF Timing
<1> QED
  BY <1>4, <1>5 DEF MemInv

\* What a step of the memory coroutine of p leaves to the other one and to the others.
LEMMA MemoryModelFrame ==
  ASSUME NEW p \in Ports, MemoryModel(p)
  PROVE  /\ Running /\ p \in due /\ due' = due \ {p} /\ clk' = clk
         /\ config' = config /\ program' = program /\ bus' = bus /\ cpuVars' = cpuVars
         /\ rst_n' = rst_n /\ cycles' = cycles /\ old_regfile' = old_regfile
         /\ regfile_commits' = regfile_commits
BY DEF MemoryModel, NoTransaction, Transaction, InstructionWrite, AnswerRead, AnswerWrite,
       AnswerRaises, Answered, Resume, cpuVars, mainVars

\* A coroutine that is at the edge runs in the first half of the cycle.
LEMMA EdgeOrStep ==
  ASSUME IInv, Running, NEW p \in Ports, p \in due
  PROVE  /\ awaiting[p] = "edge" <=> clk = "high"
         /\ awaiting[p] = "step" <=> clk = "low"
         /\ clk \in {"low", "high"} /\ bus[p].cyc \in BOOLEAN
BY DEF IInv, Shape, InStep

LEMMA MemoryTiming ==
  ASSUME IInv, BusInv, MemInv, NEW p \in Ports, MemoryModel(p), NEW q \in Ports, Running'
  PROVE  Timing(q)'
<1>1. Timing(q) /\ Shape /\ raw_addr \in [Ports -> Nat]
  BY MemoryModelFrame DEF MemInv, MemTyped, IInv
<1>2. /\ Running /\ p \in due /\ due' = due \ {p} /\ clk' = clk /\ config' = config /\ bus' = bus
  BY MemoryModelFrame
<1>3. Serves(q)' <=> Serves(q)
  BY <1>2 DEF Serves, InstructionOnly
<1>4. /\ awaiting[p] = "edge" <=> clk = "high"
      /\ awaiting[p] = "step" <=> clk = "low"
  BY <1>2, EdgeOrStep
<1>5. CASE q # p
  <2>1. awaiting'[q] = awaiting[q] /\ raw_addr'[q] = raw_addr[q]
    BY <1>1, <1>5 DEF MemoryModel, NoTransaction, Transaction, InstructionWrite, AnswerRead,
                      AnswerWrite, AnswerRaises, Answered, memVars, Shape
  <2>2. q \in due' <=> q \in due
    BY <1>2, <1>5
  <2> QED
    BY <1>1, <1>2, <1>3, <2>1, <2>2 DEF Timing
<1>6. CASE q = p
  <2>0. p \notin due' /\ p # "main"
    BY <1>2, PortsAreNotMain
  <2>1. CASE NoTransaction(p)
    <3>1. awaiting' = awaiting /\ awaiting[p] = "edge" /\ ~bus[p].cyc
      BY <2>1 DEF NoTransaction, Resume
    <3>2. ~Serves(p)
      BY <3>1 DEF Serves
    <3> QED
      BY <1>3, <1>6, <3>1, <3>2 DEF Timing
  <2>2. CASE Transaction(p)
    <3>1. /\ awaiting'[p] = "step" /\ raw_addr'[p] = bus[p].addr /\ bus[p].cyc
          /\ InstructionOnly(p) => ~bus[p].we
      BY <1>1, <2>2 DEF Transaction, Shape
    <3>2. Serves(p)
      BY <3>1 DEF Serves
    <3> QED
      BY <1>2, <1>3, <1>6, <3>1, <3>2 DEF Timing
  <2>3. CASE InstructionWrite(p)
    <3>1. awaiting' = awaiting /\ awaiting[p] = "edge" /\ InstructionOnly(p) /\ bus[p].we
      BY <2>3 DEF InstructionWrite, Resume
    <3>2. ~Serves(p)
      BY <3>1 DEF Serves
    <3> QED
      BY <1>3, <1>6, <3>1, <3>2 DEF Timing
  <2>4. CASE AnswerRead(p) \/ AnswerWrite(p)
    <3>1. awaiting'[p] = "edge" /\ awaiting[p] = "step"
      BY <1>1, <2>4 DEF AnswerRead, AnswerWrite, Answered, Resume, Shape
    <3>2. clk = "low"
      BY <1>4, <3>1
    <3> QED
      BY <1>2, <1>6, <3>1, <3>2 DEF Timing
  <2>5. CASE AnswerRaises(p)
    BY <2>5 DEF AnswerRaises, Running
  <2> QED
    BY <2>1, <2>2, <2>3, <2>4, <2>5 DEF MemoryModel
<1> QED
  BY <1>5, <1>6

\* What a write records: the word with the bytes of the strobe, or what the last write
\* of the coroutine left.
Written(p) == IF bus[p].sel \in Strobes
              THEN Merged(memory[p][Simulated(raw_addr[p])], bus[p]) ELSE write_value[p]

LEMMA MemoryTypes ==
  ASSUME IInv, BusInv, MemInv, NEW p \in Ports, MemoryModel(p)
  PROVE  MemTyped'
<1>0. MemTyped /\ bus[p] \in Request /\ Ports' = Ports /\ Running
  BY MemoryModelFrame DEF MemInv, BusInv, Asked, Ports
<1>1. /\ bus[p].addr \in Nat /\ bus[p].data_out \in Word /\ raw_addr[p] \in Nat
      /\ memory[p] \in [0..(MemWords - 1) -> Cell] /\ write_value[p] \in Word \cup {None}
  BY <1>0 DEF Request, MemTyped
<1>2. /\ memory[p][Simulated(bus[p].addr)] \in Cell
      /\ memory[p][Simulated(raw_addr[p])] \in Cell
  BY <1>1, SimulatedIsPlace
<1>3. CASE NoTransaction(p) \/ AnswerRaises(p)
  BY <1>0, <1>3 DEF NoTransaction, AnswerRaises, memVars, MemTyped
<1>4. CASE Transaction(p)
  <2>1. PICK n : /\ n = (IF config.BYTE_ALIGNED_MEMORY_ACCESS /\ ~InstructionOnly(p)
                         THEN bus[p].addr % 4 ELSE 0)
                 /\ data_in' = [data_in EXCEPT ![p] = Shifted(memory[p][Simulated(bus[p].addr)], n)]
    BY <1>4 DEF Transaction
  <2>2. n \in 0..3
    BY <1>1, <2>1
  <2>3. data_in' \in [Ports -> Cell]
    BY <1>0, <1>2, <2>1, <2>2, ShiftedIsCell DEF MemTyped
  <2>4. raw_addr' \in [Ports -> Nat]
    BY <1>0, <1>1, <1>4 DEF Transaction, MemTyped
  <2> QED
    BY <1>0, <1>4, <2>3, <2>4 DEF Transaction, MemTyped
<1>5. CASE InstructionWrite(p)
  <2>1. memory' = [memory EXCEPT ![p][Simulated(bus[p].addr)] = bus[p].data_out]
    BY <1>5 DEF InstructionWrite
  <2>2. PICK w : w = Simulated(bus[p].addr)
    OBVIOUS
  <2>4. PICK d \in Cell : d = bus[p].data_out
    BY <1>1 DEF Cell
  <2>3. memory' \in [Ports -> [0..(MemWords - 1) -> Cell]]
    BY <1>0, <2>1, <2>2, <2>4 DEF MemTyped
  <2> QED
    BY <1>0, <1>5, <2>3 DEF InstructionWrite, MemTyped
<1>6. CASE AnswerRead(p)
  <2>1. PICK r \in [pc : Nat, instr : Cell] :
          r = [pc |-> raw_addr[p], instr |-> memory[p][Simulated(raw_addr[p])]]
    BY <1>1, <1>2
  <2>2. fetches' = Append(fetches, r) \/ fetches' = fetches
    BY <1>6, <2>1 DEF AnswerRead
  <2>4. PICK S : S = [pc : Nat, instr : Cell]
    OBVIOUS
  <2>5. r \in S /\ fetches \in Seq(S)
    BY <1>0, <2>4 DEF MemTyped
  <2>6. fetches' \in Seq(S)
    BY <2>2, <2>5
  <2>3. fetches' \in Seq([pc : Nat, instr : Cell])
    BY <2>4, <2>6
  <2> QED
    BY <1>0, <1>6, <2>3 DEF AnswerRead, Answered, MemTyped
<1>7. CASE AnswerWrite(p)
  <2>1. PICK w, value : w = Simulated(raw_addr[p]) /\ value = Written(p)
    OBVIOUS
  <2>2. /\ value # None /\ write_value' = [write_value EXCEPT ![p] = value]
        /\ memory' = IF bus[p].sel \in Strobes THEN [memory EXCEPT ![p][w] = value] ELSE memory
        /\ mem_access' = Append(mem_access, [addr |-> raw_addr[p], val |-> value])
    BY <1>7, <2>1 DEF AnswerWrite, Written
  <2>3. value \in Word /\ value \in Cell
    BY <1>0, <1>1, <1>2, <2>1, <2>2, MergedIsWord DEF Cell, Written
  <2>4. PICK a \in Access : a = [addr |-> raw_addr[p], val |-> value]
    BY <1>1, <2>3 DEF Access
  <2>5. mem_access' \in Seq(Access)
    BY <1>0, <2>2, <2>4 DEF MemTyped
  <2>6. memory' \in [Ports -> [0..(MemWords - 1) -> Cell]]
    <3>1. [memory EXCEPT ![p][w] = value] \in [Ports -> [0..(MemWords - 1) -> Cell]]
      BY <1>0, <2>3 DEF MemTyped
    <3> QED
      BY <1>0, <2>2, <3>1 DEF MemTyped
  <2>7. write_value' \in [Ports -> Word \cup {None}]
    BY <1>0, <2>2, <2>3 DEF MemTyped
  <2> QED
    BY <1>0, <1>7, <2>5, <2>6, <2>7 DEF AnswerWrite, Answered, MemTyped
<1> QED
  BY <1>3, <1>4, <1>5, <1>6, <1>7 DEF MemoryModel

LEMMA MemInvStep == IInv /\ BusInv /\ MemInv /\ [Next]_vars => MemInv'
<1> SUFFICES ASSUME IInv, BusInv, MemInv, [Next]_vars PROVE MemInv'
  OBVIOUS
<1>1. CASE RisingEdge \/ FallingEdge \/ Main \/ UNCHANGED vars
  <2>1. UNCHANGED <<config, awaiting, raw_addr, write_value, data_in, memory, fetches, mem_access, ack>>
    BY <1>1 DEF RisingEdge, FallingEdge, Main, WaitForReset, ReleaseReset, Collect, TimeOut,
                MainOnly, memVars, vars, simVars
  <2>2. MemTyped' /\ Ports' = Ports
    BY <2>1 DEF MemInv, MemTyped, Ports
  <2>3. ASSUME NEW p \in Ports, Running' PROVE Timing(p)'
    <3>1. CASE RisingEdge
      <4>1. awaiting'[p] = "edge" /\ p \in due'
        BY <2>1, <3>1 DEF RisingEdge, IInv, Shape, InStep
      <4> QED
        BY <4>1 DEF Timing
    <3>2. CASE FallingEdge
      <4>1. Running /\ clk' = "low" /\ bus' = bus
        BY <3>2 DEF FallingEdge, cpuVars
      <4>2. Timing(p)
        BY <4>1 DEF MemInv
      <4> QED
        BY <2>1, <4>1, <4>2 DEF Timing, Serves, InstructionOnly
    <3>3. CASE Main
      <4>1. Running /\ due' = due \ {"main"} /\ clk' = clk /\ bus' = bus
        BY <3>3 DEF Main, WaitForReset, ReleaseReset, Collect, TimeOut, Resume, MainOnly
      <4>2. Timing(p) /\ p # "main"
        BY <4>1, PortsAreNotMain DEF MemInv
      <4> QED
        BY <2>1, <4>1, <4>2 DEF Timing, Serves, InstructionOnly
    <3>4. CASE UNCHANGED vars
      <4>1. UNCHANGED <<main, due, clk, bus>>
        BY <3>4 DEF vars, simVars, mainVars, cpuVars
      <4>2. Running
        BY <2>3, <4>1 DEF Running
      <4>3. Timing(p)
        BY <4>2 DEF MemInv
      <4> QED
        BY <2>1, <4>1, <4>3 DEF Timing, Serves, InstructionOnly
    <3> QED
      BY <1>1, <3>1, <3>2, <3>3, <3>4
  <2> QED
    BY <2>2, <2>3 DEF MemInv
<1>2. ASSUME NEW p \in Ports, MemoryModel(p) PROVE MemInv'
  <2>1. Ports' = Ports
    BY <1>2, MemoryModelFrame DEF Ports
  <2> QED
    BY <1>2, <2>1, MemoryTypes, MemoryTiming DEF MemInv
<1> QED
  BY <1>1, <1>2 DEF Next

-----------------------------------------------------------------------------
(* The registers, and the type invariant *)

RegTyped ==
  /\ regfile_commits \in Seq(Write)
  /\ cycles \in 0..(IF ResetCycles > Timeout THEN ResetCycles ELSE Timeout)
  /\ old_regfile \in [Reg -> Value] /\ reg_file \in [Reg -> Value]
  /\ wport \in [enable : BOOLEAN, reg : Reg, val : Value]

\* The registers that a look finds changed.
Changed(old) == {r \in Reg \ {0} : reg_file[r] # old[r]}

\* With the register file in view a look records each changed register once, with
\* what it holds now, in the order of the numbers.
Look(old, n, c) ==
  /\ n \in Nat /\ c \in [1..n -> Changed(old)]
  /\ Seen(old) = [k \in 1..n |-> [reg |-> c[k], val |-> reg_file[c[k]]]]
  /\ \A i, j \in 1..n : i < j => c[i] < c[j]
  /\ \A r \in Changed(old) : \E k \in 1..n : c[k] = r

LEMMA SeenArray ==
  ASSUME NEW old, config.REGFILE_ARRAY_AVAILABLE
  PROVE  \E n, c : Look(old, n, c)
<1>1. Changed(old) \in SUBSET Nat /\ IsFiniteSet(Changed(old))
  <2>1. Changed(old) \in SUBSET Reg
    BY DEF Changed
  <2> QED
    BY <2>1, RegAssumption, SizesAssumption, FS_Subset
<1>2. PICK n \in Nat :
        /\ InOrder(Changed(old)) \in [1..n -> Changed(old)]
        /\ \A i, j \in 1..n : i < j => InOrder(Changed(old))[i] < InOrder(Changed(old))[j]
        /\ \A r \in Changed(old) : \E k \in 1..n : InOrder(Changed(old))[k] = r
  BY <1>1, InOrderIs
<1>3. PICK c : c = InOrder(Changed(old))
  OBVIOUS
<1>4. Seen(old) = [k \in DOMAIN c |-> [reg |-> c[k], val |-> reg_file[c[k]]]]
  BY <1>3 DEF Seen, Changed
<1>5. DOMAIN c = 1..n /\ c \in [1..n -> Changed(old)]
  BY <1>2, <1>3
<1>6. Seen(old) = [k \in 1..n |-> [reg |-> c[k], val |-> reg_file[c[k]]]]
  BY <1>4, <1>5, Zenon
<1>7. Look(old, n, c)
  BY <1>2, <1>3, <1>5, <1>6 DEF Look
<1> QED
  BY <1>7

LEMMA SeenTyped ==
  ASSUME reg_file \in [Reg -> Value], wport \in [enable : BOOLEAN, reg : Reg, val : Value], NEW old
  PROVE  Seen(old) \in Seq(Write) /\ RegFile \in [Reg -> Value]
<1>1. RegFile \in [Reg -> Value]
  BY DEF RegFile
<1>2. CASE config.REGFILE_ARRAY_AVAILABLE
  <2>0. PICK n, c : Look(old, n, c)
    BY <1>2, SeenArray
  <2>1. /\ n \in Nat /\ c \in [1..n -> Changed(old)]
        /\ Seen(old) = [k \in 1..n |-> [reg |-> c[k], val |-> reg_file[c[k]]]]
    BY <2>0 DEF Look
  <2>2. ASSUME NEW k \in 1..n PROVE [reg |-> c[k], val |-> reg_file[c[k]]] \in Write
    <3>1. c[k] \in Reg
      BY <2>1 DEF Changed
    <3> QED
      BY <3>1 DEF Write
  <2> QED
    BY <1>1, <2>1, <2>2
<1>3. CASE ~config.REGFILE_ARRAY_AVAILABLE
  <2>1. PICK w \in Write : w = [reg |-> wport.reg, val |-> wport.val]
    BY DEF Write
  <2>2. <<w>> \in Seq(Write) /\ << >> \in Seq(Write)
    OBVIOUS
  <2> QED
    BY <1>1, <1>3, <2>1, <2>2 DEF Seen
<1> QED
  BY <1>2, <1>3

\* The last write to a register among some steps of the trace.
LEMMA LastWrite ==
  ASSUME NEW lo \in Nat, NEW hi \in Nat, NEW r \in Reg, NEW W,
         program \in Programs, hi <= Len(program.trace),
         W = {k \in (lo + 1)..hi : Step(k).target_reg = r}, W # {}
  PROVE  /\ Max(W) \in W /\ \A k \in W : k <= Max(W)
         /\ Max(W) \in (lo + 1)..hi /\ Max(W) \in 1..Len(program.trace)
         /\ Step(Max(W)).target_reg = r /\ Step(Max(W)).reg_val \in Value
<1>1. W \in SUBSET Nat /\ \A k \in W : k <= hi
  OBVIOUS
<1>2. PICK m : m = Max(W)
  OBVIOUS
<1>3. m \in W /\ \A k \in W : k <= m
  BY <1>1, <1>2, MaxOf
<1>4. m \in (lo + 1)..hi /\ Step(m).target_reg = r /\ m \in 1..Len(program.trace)
  BY <1>3, ProgramFacts
<1>5. Step(m) \in Entry /\ LoggedBySpike(Step(m))
  BY <1>4, ProgramFacts
<1>6. r # None
  BY NoneAssumption, RegAssumption
<1>7. Step(m).reg_val \in Value
  BY <1>4, <1>5, <1>6 DEF Entry, LoggedBySpike
<1> QED
  BY <1>2, <1>3, <1>4, <1>7

LEMMA RetireTyped ==
  ASSUME BusInv, RegTyped, NEW to \in retired..executed, Retire(to)
  PROVE  /\ reg_file' \in [Reg -> Value]
         /\ wport' \in [enable : BOOLEAN, reg : Reg, val : Value]
<1>0. /\ program \in Programs /\ retired \in Nat /\ to \in Nat /\ retired <= to
      /\ to <= Len(program.trace) /\ Len(program.trace) \in Nat
  BY ProgramFacts DEF BusInv, Counts
<1>1. CASE config.REGFILE_ARRAY_AVAILABLE
  <2>1. /\ reg_file' = [r \in Reg |-> IF {k \in (retired + 1)..to : Step(k).target_reg = r} = {}
                                      THEN reg_file[r]
                                      ELSE Step(Max({k \in (retired + 1)..to : Step(k).target_reg = r})).reg_val]
        /\ wport' = wport
    BY <1>1 DEF Retire
  <2>2. ASSUME NEW r \in Reg PROVE reg_file'[r] \in Value
    <3>1. PICK W : W = {k \in (retired + 1)..to : Step(k).target_reg = r}
      OBVIOUS
    <3>2. reg_file'[r] = IF W = {} THEN reg_file[r] ELSE Step(Max(W)).reg_val
      BY <2>1, <3>1
    <3>3. ASSUME W # {} PROVE Step(Max(W)).reg_val \in Value
      <4>1. /\ retired \in Nat /\ to \in Nat /\ r \in Reg /\ program \in Programs
            /\ to <= Len(program.trace)
        BY <1>0
      <4> QED
        BY <3>1, <3>3, <4>1, LastWrite
    <3> QED
      BY <3>2, <3>3 DEF RegTyped
  <2> QED
    BY <2>1, <2>2 DEF RegTyped
<1>2. CASE ~config.REGFILE_ARRAY_AVAILABLE
  <2>1. /\ wport' = IF to > retired /\ Step(to).target_reg # None
                    THEN [enable |-> TRUE, reg |-> Step(to).target_reg, val |-> Step(to).reg_val]
                    ELSE NoWrite
        /\ reg_file' = reg_file
    BY <1>2 DEF Retire
  <2>2. NoWrite \in [enable : BOOLEAN, reg : Reg, val : Value]
    BY RegAssumption, ValueAssumption DEF NoWrite
  <2>3. ASSUME to > retired, Step(to).target_reg # None
        PROVE  Step(to).target_reg \in Reg /\ Step(to).reg_val \in Value
    <3>1. to \in 1..Len(program.trace)
      BY <1>0, <2>3
    <3>2. Step(to) \in Entry /\ LoggedBySpike(Step(to))
      BY <1>0, <3>1, ProgramFacts
    <3> QED
      BY <2>3, <3>2 DEF Entry, LoggedBySpike
  <2> QED
    BY <2>1, <2>2, <2>3 DEF RegTyped
<1> QED
  BY <1>1, <1>2

LEMMA InitRegTyped == Init => RegTyped
<1> SUFFICES ASSUME Init PROVE RegTyped
  OBVIOUS
<1>1. reg_file \in [Reg -> Value]
  BY ProgramFacts, ValueAssumption DEF Init
<1>2. NoWrite \in [enable : BOOLEAN, reg : Reg, val : Value]
  BY RegAssumption, ValueAssumption DEF NoWrite
<1> QED
  BY <1>1, <1>2, SizesAssumption DEF Init, RegTyped

LEMMA RegTypedStep == BusInv /\ RegTyped /\ [Next]_vars => RegTyped'
<1> SUFFICES ASSUME BusInv, RegTyped, [Next]_vars PROVE RegTyped'
  OBVIOUS
<1>0. ResetCycles \in Nat \ {0} /\ Timeout \in Nat \ {0} /\ cycles \in Nat
  BY SizesAssumption DEF RegTyped
<1>1. CASE RisingEdge
  <2>1. UNCHANGED <<regfile_commits, cycles, old_regfile>>
    BY <1>1 DEF RisingEdge, mainVars
  <2>2. CASE ResetStep
    BY <2>1, <2>2 DEF ResetStep, RegTyped
  <2>3. CASE RunStep
    <3>1. PICK to \in retired..executed : Retire(to)
      BY <2>3 DEF RunStep
    <3> QED
      BY <2>1, <3>1, RetireTyped DEF RegTyped
  <2> QED
    BY <1>1, <2>2, <2>3 DEF RisingEdge
<1>2. CASE FallingEdge \/ UNCHANGED vars
  BY <1>2 DEF FallingEdge, RegTyped, vars, mainVars, cpuVars
<1>3. CASE Main
  <2>1. RegFile \in [Reg -> Value] /\ \A old : Seen(old) \in Seq(Write)
    BY SeenTyped DEF RegTyped
  <2>2. wport' = wport
    BY <1>3 DEF Main, WaitForReset, ReleaseReset, Collect, TimeOut, MainOnly
  <2>3. CASE WaitForReset
    BY <1>0, <2>2, <2>3 DEF WaitForReset, RegTyped
  <2>4. CASE ReleaseReset
    <3>1. /\ regfile_commits' = regfile_commits \o Seen(reg_file)
          /\ reg_file' = RegFile /\ old_regfile' = RegFile /\ cycles' = 1
      BY <2>4 DEF ReleaseReset
    <3> QED
      BY <1>0, <2>1, <2>2, <3>1 DEF RegTyped
  <2>5. CASE Collect
    <3>1. /\ regfile_commits' = regfile_commits \o Seen(old_regfile)
          /\ reg_file' = RegFile
          /\ \/ old_regfile' = old_regfile /\ cycles' = cycles
             \/ old_regfile' = RegFile /\ cycles' = cycles + 1
          /\ cycles < Timeout
      BY <2>5 DEF Collect, Iterate
    <3>2. cycles' \in 0..(IF ResetCycles > Timeout THEN ResetCycles ELSE Timeout)
      BY <1>0, <3>1 DEF RegTyped
    <3> QED
      BY <2>1, <2>2, <3>1, <3>2 DEF RegTyped
  <2>6. CASE TimeOut
    BY <2>2, <2>6 DEF TimeOut, RegTyped
  <2> QED
    BY <1>3, <2>3, <2>4, <2>5, <2>6 DEF Main
<1>4. ASSUME NEW p \in Ports, MemoryModel(p) PROVE RegTyped'
  <2>1. UNCHANGED <<regfile_commits, cycles, old_regfile, reg_file, wport>>
    BY <1>4, MemoryModelFrame DEF cpuVars
  <2> QED
    BY <2>1 DEF RegTyped
<1> QED
  BY <1>1, <1>2, <1>3, <1>4 DEF Next

LEMMA BlurredTyped == Spec => [](blurred \in BOOLEAN)
<1>1. Init => blurred \in BOOLEAN
  BY Zenon DEF Init
<1>2. blurred \in BOOLEAN /\ [Next]_vars => (blurred \in BOOLEAN)'
  <2> SUFFICES ASSUME blurred \in BOOLEAN, [Next]_vars PROVE blurred' \in BOOLEAN
    OBVIOUS
  <2>1. ASSUME NEW to, blurred' = (blurred \/ Blurs(retired + 1, to)) PROVE blurred' \in BOOLEAN
    BY <2>1, Zenon
  <2>2. ASSUME blurred' = blurred PROVE blurred' \in BOOLEAN
    BY <2>2
  <2>3. CASE RisingEdge /\ RunStep
    <3>1. PICK to \in retired..executed : blurred' = (blurred \/ Blurs(retired + 1, to))
      BY <2>3 DEF RunStep
    <3> QED
      BY <2>1, <3>1
  <2>4. CASE RisingEdge /\ ResetStep
    BY <2>2, <2>4 DEF ResetStep
  <2>5. CASE FallingEdge \/ Main \/ UNCHANGED vars
    BY <2>2, <2>5
    DEF FallingEdge, Main, WaitForReset, ReleaseReset, Collect, TimeOut, MainOnly, vars, cpuVars
  <2>6. ASSUME NEW p \in Ports, MemoryModel(p) PROVE blurred' \in BOOLEAN
    BY <2>2, <2>6, MemoryModelFrame DEF cpuVars
  <2> QED
    BY <2>3, <2>4, <2>5, <2>6 DEF Next, RisingEdge
<1> QED
  BY <1>1, <1>2, PTL DEF Spec

\* Every variable stays of its type, for any programs linked for the memory, sizes and
\* bounds.  The fetched, executed and retired instructions of the pipeline never
\* overtake each other or the trace, a write is only recorded with a value that was
\* bound, and the locals of a coroutine are those of the request it serves.
THEOREM TypeCorrect == Spec => []TypeOK
<1>1. IInv /\ BusInv /\ MemInv /\ RegTyped /\ blurred \in BOOLEAN => TypeOK
  <2> SUFFICES ASSUME IInv, BusInv, MemInv, RegTyped, blurred \in BOOLEAN PROVE TypeOK
    OBVIOUS
  <2>1. Shape /\ awaiting \in [Ports \cup {"main"} -> {"edge", "step"}]
    BY DEF IInv, Shape
  <2>2. due \subseteq DOMAIN awaiting /\ clk \in {"low", "high"}
    BY <2>1 DEF Shape
  <2> QED
    BY <2>1, <2>2 DEF TypeOK, BusInv, Counts, ResetHolds, MemInv, MemTyped, RegTyped
<1> QED
  BY <1>1, InitIInv, NextKeeps, InitBusInv, BusInvStep, InitMemInv, MemInvStep,
     InitRegTyped, RegTypedStep, BlurredTyped, PTL DEF Spec

-----------------------------------------------------------------------------
(* Where the words of a program are *)

\* The sections of the program are where load_memory's two roundings agree.
Placeable == Fits(program.text) /\ Fits(program.data)

LEMMA LinkedFacts ==
  ASSUME program \in Programs
  PROVE  /\ \A a \in DOMAIN program.text \cup DOMAIN program.data : a \in Nat /\ a % 4 = 0
         /\ \A a, b \in DOMAIN program.text \cup DOMAIN program.data \cup {Outside(program)} :
              Simulated(a) = Simulated(b) => a = b
         /\ \A a \in DOMAIN program.data : a \notin DOMAIN program.text
         /\ Outside(program) \notin DOMAIN program.text
BY ProgramsAssumption, ProgramFacts DEF Linked

\* A section that fits is loaded where its addresses are looked up.
LEMMA PlaceIsSimulated ==
  ASSUME NEW section, NEW a \in DOMAIN section, Fits(section),
         DOMAIN section \subseteq Nat, \A b \in DOMAIN section : b % 4 = 0
  PROVE  Place(section, a) = Simulated(a)
<1>1. PICK s \in DOMAIN section : s = Start(section) /\ \A b \in DOMAIN section : s <= b
  <2>1. PICK n \in DOMAIN section : \A b \in DOMAIN section : n <= b
    BY LeastNumber
  <2> QED
    BY <2>1 DEF Start
<1>2. PICK M \in Nat \ {0} : M = MemWords
  BY SizesAssumption
<1>3. s % (4 * M) < M /\ Place(section, a) < M
  BY <1>1, <1>2 DEF Fits
<1>4. Place(section, a) = ((s % M) \div 4) + ((a - s) \div 4)
  BY <1>1, <1>2 DEF Place
<1>5. s \in Nat /\ a \in Nat /\ s <= a /\ s % 4 = 0 /\ a % 4 = 0
  BY <1>1
<1>6. ((s % M) \div 4) + ((a - s) \div 4) = (a \div 4) % M
  BY <1>3, <1>4, <1>5, PlacesAgree
<1> QED
  BY <1>2, <1>4, <1>6 DEF Simulated

\* What is loaded is found, and nothing else is touched.
Loads(section) ==
  /\ Fits(section) /\ DOMAIN section \subseteq Nat
  /\ \A a \in DOMAIN section : a % 4 = 0
  /\ \A a, b \in DOMAIN section : Simulated(a) = Simulated(b) => a = b

LEMMA PlacedWords ==
  ASSUME NEW section, NEW memories, NEW w \in 0..(MemWords - 1),
         Loads(section), DOMAIN memories = 0..(MemWords - 1)
  PROVE  (\E a \in DOMAIN section : Simulated(a) = w) =>
           \E a \in DOMAIN section : Simulated(a) = w /\ Placed(section, memories)[w] = section[a]
<1>1. \A a \in DOMAIN section : Place(section, a) = Simulated(a)
  BY PlaceIsSimulated DEF Loads
<1>2. PICK c : c = CHOOSE a \in DOMAIN section : Place(section, a) = w
  OBVIOUS
<1>3. (\E a \in DOMAIN section : Place(section, a) = w) => c \in DOMAIN section /\ Place(section, c) = w
  BY <1>2, Zenon
<1>4. Placed(section, memories)[w] =
        IF \E a \in DOMAIN section : Place(section, a) = w THEN section[c] ELSE memories[w]
  BY <1>2 DEF Placed
<1> QED
  BY <1>1, <1>3, <1>4

LEMMA PlacedThere ==
  ASSUME NEW section, NEW memories, NEW a \in DOMAIN section,
         Loads(section), DOMAIN memories = 0..(MemWords - 1)
  PROVE  Placed(section, memories)[Simulated(a)] = section[a]
<1>1. PICK w \in 0..(MemWords - 1) : w = Simulated(a)
  BY SimulatedIsPlace DEF Loads
<1>2. PICK c \in DOMAIN section : Simulated(c) = w /\ Placed(section, memories)[w] = section[c]
  BY <1>1, PlacedWords
<1>3. c = a
  BY <1>1, <1>2 DEF Loads
<1> QED
  BY <1>1, <1>2, <1>3

LEMMA PlacedElsewhere ==
  ASSUME NEW section, NEW memories, NEW w \in 0..(MemWords - 1),
         Loads(section), DOMAIN memories = 0..(MemWords - 1),
         \A a \in DOMAIN section : Simulated(a) # w
  PROVE  Placed(section, memories)[w] = memories[w]
<1>1. ~\E a \in DOMAIN section : Place(section, a) = w
  BY PlaceIsSimulated DEF Loads
<1> QED
  BY <1>1 DEF Placed

LEMMA LoadedFound ==
  ASSUME program \in Programs, Placeable
  PROVE  /\ \A a \in DOMAIN program.text : LoadedMemory(program)[Simulated(a)] = program.text[a]
         /\ \A a \in DOMAIN program.data :
              /\ LoadedMemory(program)[Simulated(a)] = program.data[a]
              /\ LoadedDataMemory(program)[Simulated(a)] = program.data[a]
<1>1. PICK blank : blank = [w \in 0..(MemWords - 1) |-> Fill]
  OBVIOUS
<1>2. PICK text, data : text = program.text /\ data = program.data
  OBVIOUS
<1>3. PICK code : code = Placed(text, blank)
  OBVIOUS
<1>4. DOMAIN blank = 0..(MemWords - 1) /\ DOMAIN code = 0..(MemWords - 1)
  BY <1>1, <1>3 DEF Placed
<1>5. LoadedMemory(program) = Placed(data, code) /\ LoadedDataMemory(program) = Placed(data, blank)
  BY <1>1, <1>2, <1>3 DEF LoadedMemory, LoadedDataMemory
<1>6. /\ Loads(text) /\ Loads(data)
      /\ \A a \in DOMAIN text, b \in DOMAIN data : Simulated(a) # Simulated(b)
  BY <1>2, LinkedFacts DEF Placeable, Loads
<1>7. \A a \in DOMAIN text : code[Simulated(a)] = text[a]
  BY <1>3, <1>4, <1>6, PlacedThere
<1>8. /\ \A a \in DOMAIN data : Placed(data, code)[Simulated(a)] = data[a]
      /\ \A a \in DOMAIN data : Placed(data, blank)[Simulated(a)] = data[a]
  BY <1>4, <1>6, PlacedThere
<1>9. \A w \in 0..(MemWords - 1) :
        (\A a \in DOMAIN data : Simulated(a) # w) => Placed(data, code)[w] = code[w]
  BY <1>4, <1>6, PlacedElsewhere
<1>10. ASSUME NEW a \in DOMAIN text PROVE Placed(data, code)[Simulated(a)] = text[a]
  <2>1. Simulated(a) \in 0..(MemWords - 1) /\ \A b \in DOMAIN data : Simulated(b) # Simulated(a)
    BY <1>6, SimulatedIsPlace DEF Loads
  <2> QED
    BY <1>7, <1>9, <2>1
<1> QED
  BY <1>2, <1>5, <1>8, <1>10

-----------------------------------------------------------------------------
LEMMA WordOf ==
  ASSUME NEW addr \in Nat
  PROVE  /\ WordAt(addr) \in Nat /\ Simulated(WordAt(addr)) = Simulated(addr)
         /\ WordAt(WordAt(addr)) = WordAt(addr) /\ addr - (addr % 4) = WordAt(addr)
<1>1. /\ addr - (addr % 4) \in Nat /\ (addr - (addr % 4)) \div 4 = addr \div 4
      /\ (addr - (addr % 4)) % 4 = 0
  BY W4
<1>2. PICK w \in Nat : w = addr - (addr % 4) /\ w \div 4 = addr \div 4 /\ w % 4 = 0
  BY <1>1
<1>3. WordAt(addr) = w /\ WordAt(w) = w
  BY <1>2 DEF WordAt
<1> QED
  BY <1>2, <1>3 DEF Simulated

\* A write that a coroutine is about to make is the store of the next instruction.
LEMMA WriteIsStore ==
  ASSUME NEW p \in Ports, BusInv, MemInv, Running, awaiting[p] = "step", bus[p].we
  PROVE  /\ p = DataPort /\ executed \in Nat /\ executed + 1 \in 1..Len(program.trace)
         /\ Step(executed + 1).instr.kind \in Stores /\ bus[p] = Accessing(executed + 1)
         /\ bus[p].for = "access" /\ bus[p] \in Request
         /\ raw_addr[p] = bus[p].addr /\ raw_addr[p] \in Nat
         /\ WordAt(raw_addr[p]) \in DOMAIN program.data
         /\ WordAt(raw_addr[p]) = WordAt(Step(executed + 1).mem_addr)
         /\ Simulated(raw_addr[p]) = Simulated(WordAt(raw_addr[p]))
<1>1. Serves(p) /\ raw_addr[p] = bus[p].addr /\ Asked(p, bus[p]) /\ bus[p] \in Request
  BY DEF MemInv, Timing, BusInv, Asked
<1>2. ~InstructionOnly(p)
  BY <1>1 DEF Serves
<1>3. bus[p].for # "fetch"
  <2>1. \A addr : ~Fetching(addr, "fetch").we
    BY DEF Fetching, NoRequest
  <2> QED
    BY <1>1, <2>1 DEF Asked
<1>4. bus[p].for # "nothing" /\ bus[p].for \in {"nothing", "fetch", "access"}
  BY <1>1, <1>2 DEF Asked, Request
<1>5. /\ bus[p].for = "access" /\ p = DataPort /\ executed < fetched
      /\ Accesses(executed + 1) /\ bus[p] = Accessing(executed + 1)
  BY <1>1, <1>3, <1>4 DEF Asked
<1>6. program \in Programs /\ config \in Configs /\ executed \in Nat /\ executed + 1 \in 1..Len(program.trace)
  BY <1>5, ProgramFacts DEF BusInv, Counts
<1>7. Step(executed + 1).instr.kind \in Stores
  BY <1>5, <1>6, AccessingIsRequest
<1>8. PICK k \in 1..Len(program.trace) : k = executed + 1
  BY <1>6
<1>9. Step(k).mem_addr \in Nat /\ WordAt(Step(k).mem_addr) \in DOMAIN program.data
  <2>1. Linked(program) /\ k \in DOMAIN program.trace
    BY <1>6, ProgramFacts, ProgramsAssumption
  <2> QED
    BY <1>6, <1>7, <1>8, <2>1, AccessFacts DEF Linked, Step
<1>10. raw_addr[p] = IF config.BYTE_ALIGNED_MEMORY_ACCESS THEN Step(k).mem_addr
                     ELSE WordAt(Step(k).mem_addr)
  BY <1>1, <1>5, <1>8 DEF Accessing, WordAt
<1>11. raw_addr[p] \in Nat /\ WordAt(raw_addr[p]) = WordAt(Step(k).mem_addr)
  BY <1>9, <1>10, WordOf
<1>12. Simulated(raw_addr[p]) = Simulated(WordAt(raw_addr[p]))
  BY <1>11, WordOf
<1> QED
  BY <1>1, <1>5, <1>6, <1>7, <1>8, <1>9, <1>11, <1>12

\* A write that the instruction memory answers is a stray one, past the code.
LEMMA InstructionWriteIsStray ==
  ASSUME NEW p \in Ports, BusInv, bus[p].we, InstructionOnly(p)
  PROVE  p = "core" /\ DataPort = "data_mem" /\ bus[p].addr = Outside(program)
<1>1. p = "core" /\ DataPort = "data_mem"
  BY DEF InstructionOnly, DataPort
<1>2. Asked(p, bus[p]) /\ bus[p].for \in {"nothing", "fetch", "access"}
  BY DEF BusInv, Asked, Request
<1>3. \A addr : ~Fetching(addr, "fetch").we
  BY DEF Fetching, NoRequest
<1>4. "core" # "data_mem"
  OBVIOUS
<1>5. bus[p] = Stray(Outside(program))
  BY <1>1, <1>2, <1>3, <1>4 DEF Asked
<1>6. program \in Programs
  BY DEF BusInv
<1> QED
  BY <1>1, <1>5, <1>6, AddressFacts, StrayIsRequest

\* A store that does not cross its own width drives lanes that the coroutine knows.
LEMMA StoreStrobe ==
  ASSUME NEW k \in 1..Len(program.trace), program \in Programs,
         Step(k).instr.kind \in Stores, Step(k).mem_addr % Width(Step(k).instr.kind) = 0
  PROVE  /\ Accessing(k).sel \in Strobes
         /\ (Step(k).mem_addr % 4) + Width(Step(k).instr.kind) <= 4
<1>1. PICK addr \in Nat, kind \in Stores : addr = Step(k).mem_addr /\ kind = Step(k).instr.kind
  BY AccessFacts
<1>2. PICK shift \in 0..3, q \in Nat : shift = addr % 4 /\ addr = 4 * q + shift
  BY <1>1, D4
<1>3. PICK width \in {1, 2, 4} : width = Width(kind)
  BY DEF Width
<1>4. addr % width = 0
  BY <1>1, <1>3
<1>5. Accessing(k).sel = {b \in 0..3 : shift <= b /\ b < shift + width}
  BY <1>1, <1>2, <1>3 DEF Accessing
<1>6. PICK lanes : lanes = {b \in 0..3 : shift <= b /\ b < shift + width}
  OBVIOUS
<1>7. lanes \in Strobes /\ shift + width <= 4
  <2>1. CASE width = 1
    <3>1. lanes = {shift} /\ shift + width <= 4
      BY <1>6, <2>1
    <3>2. shift = 0 \/ shift = 1 \/ shift = 2 \/ shift = 3
      OBVIOUS
    <3> QED
      BY <3>1, <3>2 DEF Strobes
  <2>2. CASE width = 2
    <3>1. shift = 0 \/ shift = 2
      BY <1>2, <1>4, <2>2
    <3>2. shift = 0 => lanes = {0, 1}
      BY <1>6, <2>2
    <3>3. shift = 2 => lanes = {2, 3}
      BY <1>6, <2>2
    <3>4. shift + width <= 4
      BY <2>2, <3>1
    <3> QED
      BY <3>1, <3>2, <3>3, <3>4 DEF Strobes
  <2>3. CASE width = 4
    <3>1. shift = 0
      BY <1>2, <1>4, <2>3
    <3>2. lanes = 0..3 /\ shift + width <= 4
      BY <1>6, <2>3, <3>1
    <3> QED
      BY <3>2 DEF Strobes
  <2> QED
    BY <2>1, <2>2, <2>3
<1>8. Accessing(k).sel = lanes
  BY <1>5, <1>6
<1>9. (Step(k).mem_addr % 4) + Width(Step(k).instr.kind) = shift + width
  BY <1>1, <1>2, <1>3
<1> QED
  BY <1>7, <1>8, <1>9

-----------------------------------------------------------------------------
(* The last of some records *)

\* The value of the last access to a word, of the last commit to a register, or d.
At(ms, a) == {k \in 1..Len(ms) : WordAt(ms[k].addr) = a}
LastAt(ms, a, d) == IF At(ms, a) = {} THEN d ELSE ms[Max(At(ms, a))].val
Of(cs, r) == {k \in 1..Len(cs) : cs[k].reg = r}
LastOf(cs, r, d) == IF Of(cs, r) = {} THEN d ELSE cs[Max(Of(cs, r))].val

LEMMA LastAtAppend ==
  ASSUME NEW ms \in Seq(Access), NEW x \in Access, NEW a, NEW d
  PROVE  LastAt(Append(ms, x), a, d) = IF WordAt(x.addr) = a THEN x.val ELSE LastAt(ms, a, d)
<1>0. PICK n \in Nat : n = Len(ms)
  OBVIOUS
<1>1. PICK ns : n = Len(ms) /\ ns = Append(ms, x)
  BY <1>0
<1>2. Len(ns) = n + 1 /\ ns[n + 1] = x /\ \A k \in 1..n : ns[k] = ms[k]
  BY <1>1
<1>3. At(ns, a) = {k \in 1..(n + 1) : WordAt(ns[k].addr) = a} /\ At(ms, a) = {k \in 1..n : WordAt(ms[k].addr) = a}
  BY <1>1, <1>2 DEF At
<1>4. CASE WordAt(x.addr) = a
  <2>1. n + 1 \in At(ns, a) /\ At(ns, a) \in SUBSET Nat /\ \A k \in At(ns, a) : k <= n + 1
    BY <1>2, <1>3, <1>4
  <2>2. Max(At(ns, a)) = n + 1
    BY <2>1, MaxIs
  <2> QED
    BY <1>1, <1>2, <1>4, <2>1, <2>2 DEF LastAt
<1>5. CASE WordAt(x.addr) # a
  <2>1. At(ns, a) = At(ms, a)
    BY <1>2, <1>3, <1>5
  <2>2. ASSUME At(ms, a) # {} PROVE ns[Max(At(ms, a))] = ms[Max(At(ms, a))]
    <3>1. At(ms, a) \in SUBSET Nat /\ \A k \in At(ms, a) : k <= n
      BY <1>3
    <3>2. Max(At(ms, a)) \in At(ms, a)
      BY <2>2, <3>1, MaxOf
    <3>3. Max(At(ms, a)) \in 1..n
      BY <1>3, <3>2
    <3> QED
      BY <1>2, <3>3
  <2> QED
    BY <1>1, <1>5, <2>1, <2>2 DEF LastAt
<1> QED
  BY <1>4, <1>5

LEMMA LastOfSame ==
  ASSUME NEW cs \in Seq(Write), NEW s \in Seq(Write), NEW r, NEW d,
         \A j \in 1..Len(s) : s[j].reg # r
  PROVE  LastOf(cs \o s, r, d) = LastOf(cs, r, d)
<1>0. PICK n \in Nat, m \in Nat : n = Len(cs) /\ m = Len(s)
  OBVIOUS
<1>1. PICK ns : n = Len(cs) /\ m = Len(s) /\ ns = cs \o s
  BY <1>0
<1>2. /\ Len(ns) = n + m /\ \A k \in 1..n : ns[k] = cs[k]
      /\ \A k \in (n + 1)..(n + m) : ns[k] = s[k - n] /\ k - n \in 1..m
  BY <1>1
<1>3. Of(ns, r) = {k \in 1..(n + m) : ns[k].reg = r} /\ Of(cs, r) = {k \in 1..n : cs[k].reg = r}
  BY <1>1, <1>2 DEF Of
<1>4. \A k \in (n + 1)..(n + m) : ns[k].reg # r
  BY <1>1, <1>2
<1>5. Of(ns, r) = Of(cs, r)
  BY <1>2, <1>3, <1>4
<1>6. ASSUME Of(cs, r) # {} PROVE ns[Max(Of(cs, r))] = cs[Max(Of(cs, r))]
  <2>1. Of(cs, r) \in SUBSET Nat /\ \A k \in Of(cs, r) : k <= n
    BY <1>3
  <2>2. Max(Of(cs, r)) \in Of(cs, r)
    BY <1>6, <2>1, MaxOf
  <2>3. Max(Of(cs, r)) \in 1..n
    BY <1>3, <2>2
  <2> QED
    BY <1>2, <2>3
<1> QED
  BY <1>1, <1>5, <1>6 DEF LastOf

IsLast(s, r, i) == i \in 1..Len(s) /\ s[i].reg = r /\ \A j \in 1..Len(s) : i < j => s[j].reg # r

LEMMA LastOfNew ==
  ASSUME NEW cs \in Seq(Write), NEW s \in Seq(Write), NEW r, NEW d, NEW i, IsLast(s, r, i)
  PROVE  LastOf(cs \o s, r, d) = s[i].val
<1>8. i \in 1..Len(s) /\ s[i].reg = r /\ \A j \in 1..Len(s) : i < j => s[j].reg # r
  BY DEF IsLast
<1>0. PICK n \in Nat, m \in Nat : n = Len(cs) /\ m = Len(s)
  OBVIOUS
<1>1. PICK ns : n = Len(cs) /\ m = Len(s) /\ ns = cs \o s
  BY <1>0
<1>2. /\ Len(ns) = n + m /\ \A k \in 1..n : ns[k] = cs[k]
      /\ \A k \in (n + 1)..(n + m) : ns[k] = s[k - n] /\ k - n \in 1..m
  BY <1>1
<1>3. Of(ns, r) = {k \in 1..(n + m) : ns[k].reg = r}
  BY <1>1, <1>2 DEF Of
<1>4. n + i \in (n + 1)..(n + m) /\ ns[n + i] = s[i]
  BY <1>1, <1>2, <1>8
<1>5. ASSUME NEW k \in 1..(n + m), k > n + i PROVE ns[k].reg # r
  <2>1. k \in (n + 1)..(n + m) /\ k - n \in 1..Len(s) /\ i < k - n
    BY <1>1, <1>5, <1>8
  <2> QED
    BY <1>2, <1>8, <2>1
<1>6. n + i \in Of(ns, r) /\ Of(ns, r) \in SUBSET Nat /\ \A k \in Of(ns, r) : k <= n + i
  BY <1>3, <1>4, <1>5, <1>8
<1>7. Max(Of(ns, r)) = n + i
  BY <1>6, MaxIs
<1> QED
  BY <1>1, <1>4, <1>6, <1>7 DEF LastOf

-----------------------------------------------------------------------------
(* The accesses replayed *)

TextThere == \A a \in DOMAIN program.text : memory["core"][Simulated(a)] = program.text[a]
DataReplayed ==
  \A a \in DOMAIN program.data :
    memory[DataPort][Simulated(a)] = LastAt(mem_access, a, program.data[a])
ReplayInv == Placeable => TextThere /\ (AlignedStores => DataReplayed)

LEMMA ReplayKept ==
  ASSUME ReplayInv, UNCHANGED <<config, program, memory, mem_access>>
  PROVE  ReplayInv'
<1>1. DataPort' = DataPort
  BY DEF DataPort
<1>2. (Placeable' <=> Placeable) /\ (AlignedStores' <=> AlignedStores)
  BY DEF Placeable, Fits, Start, Place, AlignedStores, Step
<1>3. \A a : Simulated(a)' = Simulated(a)
  BY DEF Simulated
<1>4. TextThere' <=> TextThere
  BY DEF TextThere, Simulated
<1>5. \A a, d : LastAt(mem_access, a, d)' = LastAt(mem_access, a, d)
  BY DEF LastAt, At, WordAt
<1>6. DataReplayed' <=> DataReplayed
  BY <1>1, <1>5 DEF DataReplayed, Simulated
<1> QED
  BY <1>2, <1>4, <1>6 DEF ReplayInv

LEMMA InitReplayInv == Init => ReplayInv
<1> SUFFICES ASSUME Init, Placeable PROVE TextThere /\ DataReplayed
  BY DEF ReplayInv
<1>1. /\ program \in Programs /\ mem_access = << >>
      /\ memory = [p \in Ports |-> IF p = "core" THEN LoadedMemory(program) ELSE LoadedDataMemory(program)]
  BY DEF Init
<1>2. DataPort \in Ports /\ "core" \in Ports /\ "core" # "data_mem"
  BY DEF DataPort, Ports
<1>3. /\ memory["core"] = LoadedMemory(program)
      /\ memory[DataPort] = LoadedMemory(program) \/ memory[DataPort] = LoadedDataMemory(program)
  BY <1>1, <1>2
<1>4. ASSUME NEW a, NEW d PROVE LastAt(mem_access, a, d) = d
  <2>1. At(mem_access, a) = {}
    BY <1>1 DEF At
  <2> QED
    BY <2>1 DEF LastAt
<1>5. TextThere
  BY <1>1, <1>3, LoadedFound DEF TextThere
<1>6. DataReplayed
  BY <1>1, <1>3, <1>4, LoadedFound DEF DataReplayed
<1> QED
  BY <1>5, <1>6

\* What AnswerWrite does to the memory and to the list of accesses.
LEMMA AnswerWriteFacts ==
  ASSUME NEW p \in Ports, IInv, BusInv, MemInv, AnswerWrite(p)
  PROVE  /\ p = DataPort /\ Written(p) \in Word
         /\ mem_access' = Append(mem_access, [addr |-> raw_addr[p], val |-> Written(p)])
         /\ memory' = IF bus[p].sel \in Strobes
                      THEN [memory EXCEPT ![p][Simulated(raw_addr[p])] = Written(p)] ELSE memory
         /\ Running /\ awaiting[p] = "step" /\ bus[p].we /\ p \in due
         /\ config' = config /\ program' = program
<1>1. Running /\ awaiting[p] = "step" /\ bus[p].we /\ p \in due /\ config' = config /\ program' = program
  BY DEF AnswerWrite, Answered, Resume
<1>2. p = DataPort /\ raw_addr[p] \in Nat /\ bus[p] \in Request
  BY <1>1, WriteIsStore
<1>3. /\ Written(p) # None
      /\ mem_access' = Append(mem_access, [addr |-> raw_addr[p], val |-> Written(p)])
      /\ memory' = IF bus[p].sel \in Strobes
                   THEN [memory EXCEPT ![p][Simulated(raw_addr[p])] = Written(p)] ELSE memory
  BY DEF AnswerWrite, Written
<1>4. memory[p][Simulated(raw_addr[p])] \in Cell
  BY <1>2, SimulatedIsPlace DEF MemInv, MemTyped
<1>5. Merged(memory[p][Simulated(raw_addr[p])], bus[p]) \in Word
  BY <1>2, <1>4, MergedIsWord
<1>6. Written(p) \in Word
  BY <1>3, <1>5 DEF Written, MemInv, MemTyped
<1> QED
  BY <1>1, <1>2, <1>3, <1>6

LEMMA AnswerWriteReplays ==
  ASSUME NEW p \in Ports, IInv, BusInv, MemInv, ReplayInv, AnswerWrite(p)
  PROVE  ReplayInv'
<1>1. /\ p = DataPort /\ Written(p) \in Word
      /\ mem_access' = Append(mem_access, [addr |-> raw_addr[p], val |-> Written(p)])
      /\ memory' = IF bus[p].sel \in Strobes
                   THEN [memory EXCEPT ![p][Simulated(raw_addr[p])] = Written(p)] ELSE memory
      /\ Running /\ awaiting[p] = "step" /\ bus[p].we
      /\ config' = config /\ program' = program
  BY AnswerWriteFacts
<1>2. /\ executed + 1 \in 1..Len(program.trace) /\ Step(executed + 1).instr.kind \in Stores
      /\ bus[p] = Accessing(executed + 1) /\ raw_addr[p] \in Nat
      /\ WordAt(raw_addr[p]) \in DOMAIN program.data
      /\ Simulated(raw_addr[p]) = Simulated(WordAt(raw_addr[p]))
  BY <1>1, WriteIsStore
<1>0. PICK w, v : w = Simulated(raw_addr[p]) /\ v = Written(p)
  OBVIOUS
<1>3. PICK target \in DOMAIN program.data, addr \in Nat :
        /\ w = Simulated(raw_addr[p]) /\ target = WordAt(raw_addr[p]) /\ v = Written(p)
        /\ addr = raw_addr[p]
  BY <1>0, <1>2
<1>4. program \in Programs /\ memory \in [Ports -> [0..(MemWords - 1) -> Cell]] /\ mem_access \in Seq(Access)
  BY DEF BusInv, MemInv, MemTyped
<1>5. SUFFICES ASSUME Placeable PROVE TextThere' /\ (AlignedStores' => DataReplayed')
  BY <1>1 DEF ReplayInv, Placeable, Fits, Start, Place
<1>6. DataPort' = DataPort /\ "core" \in Ports
  BY <1>1 DEF DataPort, Ports
<1>7. \A q \in Ports, x \in 0..(MemWords - 1) : x # w => memory'[q][x] = memory[q][x]
  BY <1>1, <1>3, <1>4
<1>8. ASSUME NEW a \in DOMAIN program.text PROVE memory'["core"][Simulated(a)] = program.text[a]
  <2>1. Simulated(a) # w
    <3>1. a # target /\ Simulated(a) # Simulated(target)
      BY <1>3, <1>4, LinkedFacts
    <3> QED
      BY <1>2, <1>3, <3>1
  <2>2. Simulated(a) \in 0..(MemWords - 1)
    BY <1>4, ProgramFacts, SimulatedIsPlace
  <2>3. memory'["core"][Simulated(a)] = memory["core"][Simulated(a)]
    BY <1>6, <1>7, <2>1, <2>2
  <2> QED
    BY <1>5, <2>3 DEF ReplayInv, TextThere
<1>9. TextThere'
  BY <1>1, <1>8 DEF TextThere, Simulated
<1>10. ASSUME AlignedStores PROVE DataReplayed'
  <2>1. bus[p].sel \in Strobes
    BY <1>2, <1>4, <1>10, StoreStrobe DEF AlignedStores
  <2>2. memory' = [memory EXCEPT ![p][w] = v]
    BY <1>1, <1>3, <2>1
  <2>3. PICK x \in Access : x = [addr |-> addr, val |-> v]
    BY <1>1, <1>3 DEF Access
  <2>4. mem_access' = Append(mem_access, x) /\ x.addr = addr /\ x.val = v /\ WordAt(x.addr) = target
    BY <1>1, <1>3, <2>3
  <2>5. ASSUME NEW a \in DOMAIN program.data
        PROVE  memory'[DataPort][Simulated(a)] = LastAt(mem_access', a, program.data[a])
    <3>1. LastAt(mem_access', a, program.data[a]) =
            IF target = a THEN v ELSE LastAt(mem_access, a, program.data[a])
      BY <1>4, <2>4, LastAtAppend
    <3>2. Simulated(a) \in 0..(MemWords - 1)
      BY <1>4, ProgramFacts, SimulatedIsPlace
    <3>3. CASE a = target
      <4>1. Simulated(a) = w
        BY <1>2, <1>3, <3>3
      <4>2. w \in 0..(MemWords - 1) /\ memory[p] \in [0..(MemWords - 1) -> Cell]
        BY <1>4, <3>2, <4>1
      <4>3. memory'[p] = [memory[p] EXCEPT ![w] = v]
        BY <1>4, <2>2
      <4>4. memory'[p][w] = v
        BY <4>2, <4>3
      <4>5. LastAt(mem_access', a, program.data[a]) = v
        BY <3>1, <3>3
      <4> QED
        BY <1>1, <4>1, <4>4, <4>5
    <3>4. CASE a # target
      <4>1. Simulated(a) # w
        BY <1>2, <1>3, <1>4, <3>4, LinkedFacts
      <4>2. memory'[DataPort][Simulated(a)] = memory[DataPort][Simulated(a)]
        BY <1>1, <1>7, <3>2, <4>1
      <4>3. memory[DataPort][Simulated(a)] = LastAt(mem_access, a, program.data[a])
        BY <1>5, <1>10 DEF ReplayInv, DataReplayed
      <4> QED
        BY <3>1, <3>4, <4>2, <4>3
    <3> QED
      BY <3>3, <3>4
  <2>6. \A a, d : LastAt(mem_access, a, d)' = LastAt(mem_access', a, d)
    BY DEF LastAt, At, WordAt
  <2> QED
    BY <1>1, <1>6, <2>5, <2>6 DEF DataReplayed, Simulated
<1>11. AlignedStores' <=> AlignedStores
  BY <1>1 DEF AlignedStores, Step
<1> QED
  BY <1>9, <1>10, <1>11

LEMMA InstructionWriteReplays ==
  ASSUME NEW p \in Ports, IInv, BusInv, MemInv, ReplayInv, InstructionWrite(p)
  PROVE  ReplayInv'
<1>1. /\ p = "core" /\ DataPort = "data_mem" /\ bus[p].addr = Outside(program)
      /\ mem_access' = mem_access /\ config' = config /\ program' = program
      /\ memory' = [memory EXCEPT ![p][Simulated(bus[p].addr)] = bus[p].data_out]
  <2>1. bus[p].we /\ InstructionOnly(p)
    BY DEF InstructionWrite
  <2>2. p = "core" /\ DataPort = "data_mem" /\ bus[p].addr = Outside(program)
    BY <2>1, InstructionWriteIsStray
  <2> QED
    BY <2>2 DEF InstructionWrite
<1>2. PICK w, v : w = Simulated(Outside(program)) /\ v = bus[p].data_out
  OBVIOUS
<1>3. memory \in [Ports -> [0..(MemWords - 1) -> Cell]] /\ program \in Programs
  BY DEF BusInv, MemInv, MemTyped
<1>4. memory' = [memory EXCEPT !["core"][w] = v]
  BY <1>1, <1>2
<1>5. memory'["data_mem"] = memory["data_mem"] /\ \A x \in 0..(MemWords - 1) : x # w => memory'["core"][x] = memory["core"][x]
  <2>1. "core" # "data_mem" /\ "core" \in Ports
    BY DEF Ports
  <2>2. "data_mem" \in Ports
    BY <1>1 DEF DataPort, Ports
  <2> QED
    BY <1>3, <1>4, <2>1, <2>2
<1>6. (Placeable' <=> Placeable) /\ (AlignedStores' <=> AlignedStores) /\ DataPort' = DataPort
  BY <1>1 DEF Placeable, Fits, Start, Place, AlignedStores, Step, DataPort
<1>7. ASSUME TextThere PROVE TextThere'
  <2>1. ASSUME NEW a \in DOMAIN program.text PROVE memory'["core"][Simulated(a)] = program.text[a]
    <3>1. Simulated(a) # w /\ Simulated(a) \in 0..(MemWords - 1)
      BY <1>2, <1>3, LinkedFacts, ProgramFacts, SimulatedIsPlace
    <3> QED
      BY <1>5, <1>7, <3>1 DEF TextThere
  <2> QED
    BY <1>1, <2>1 DEF TextThere, Simulated
<1>8. \A a, d : LastAt(mem_access, a, d)' = LastAt(mem_access, a, d)
  BY <1>1 DEF LastAt, At, WordAt
<1>9. DataReplayed => DataReplayed'
  BY <1>1, <1>5, <1>6, <1>8 DEF DataReplayed, Simulated
<1> QED
  BY <1>6, <1>7, <1>9 DEF ReplayInv

LEMMA ReplayInvStep == IInv /\ BusInv /\ MemInv /\ ReplayInv /\ [Next]_vars => ReplayInv'
<1> SUFFICES ASSUME IInv, BusInv, MemInv, ReplayInv, [Next]_vars PROVE ReplayInv'
  OBVIOUS
<1>1. CASE RisingEdge \/ FallingEdge \/ Main \/ UNCHANGED vars
  <2>1. UNCHANGED <<config, program, memory, mem_access>>
    BY <1>1 DEF RisingEdge, FallingEdge, Main, WaitForReset, ReleaseReset, Collect, TimeOut,
                MainOnly, memVars, vars
  <2> QED
    BY <2>1, ReplayKept
<1>2. ASSUME NEW p \in Ports, MemoryModel(p) PROVE ReplayInv'
  <2>1. CASE NoTransaction(p) \/ Transaction(p) \/ AnswerRead(p) \/ AnswerRaises(p)
    <3>1. UNCHANGED <<config, program, memory, mem_access>>
      BY <2>1 DEF NoTransaction, Transaction, AnswerRead, Answered, Resume, AnswerRaises, memVars
    <3> QED
      BY <3>1, ReplayKept
  <2> QED
    BY <1>2, <2>1, InstructionWriteReplays, AnswerWriteReplays DEF MemoryModel
<1> QED
  BY <1>1, <1>2 DEF Next

-----------------------------------------------------------------------------
(* The commits replayed *)

AtReset == IF config.REGFILE_ARRAY_AVAILABLE THEN program.regs ELSE [r \in Reg |-> 0]
Replays(cs, regs) == \A r \in Reg \ {0} : regs[r] = LastOf(cs, r, AtReset[r])

\* The registers seen last are those that the commits give.  Under reset, and with
\* only the write port in view until the look that ends the test, the register file
\* is what it was at the last look.
CommitsInv ==
  /\ Replays(regfile_commits, IF main = "stopped" THEN reg_file ELSE old_regfile)
  /\ main = "reset" => reg_file = old_regfile
  /\ ~config.REGFILE_ARRAY_AVAILABLE /\ main # "stopped" => reg_file = old_regfile

LEMMA LookReplays ==
  ASSUME RegTyped, NEW old \in [Reg -> Value], Replays(regfile_commits, old),
         config.REGFILE_ARRAY_AVAILABLE \/ reg_file = old
  PROVE  Replays(regfile_commits \o Seen(old), RegFile)
<1>0. /\ regfile_commits \in Seq(Write) /\ reg_file \in [Reg -> Value]
      /\ wport \in [enable : BOOLEAN, reg : Reg, val : Value]
  BY DEF RegTyped
<1>1. PICK cs \in Seq(Write), s \in Seq(Write) : cs = regfile_commits /\ s = Seen(old)
  BY <1>0, SeenTyped
<1>2. SUFFICES ASSUME NEW r \in Reg \ {0} PROVE RegFile[r] = LastOf(cs \o s, r, AtReset[r])
  BY <1>1 DEF Replays
<1>3. PICK d : d = AtReset[r] /\ old[r] = LastOf(cs, r, d)
  BY <1>1 DEF Replays
<1>4. CASE config.REGFILE_ARRAY_AVAILABLE
  <2>0. PICK n, c : Look(old, n, c)
    BY <1>4, SeenArray
  <2>1. /\ n \in Nat /\ c \in [1..n -> Changed(old)]
        /\ s = [k \in 1..n |-> [reg |-> c[k], val |-> reg_file[c[k]]]]
        /\ \A i, j \in 1..n : i < j => c[i] < c[j]
        /\ \A x \in Changed(old) : \E k \in 1..n : c[k] = x
    BY <1>1, <2>0 DEF Look
  <2>2. Len(s) = n /\ \A k \in 1..n : s[k].reg = c[k] /\ s[k].val = reg_file[c[k]]
    BY <2>1
  <2>3. RegFile[r] = reg_file[r]
    BY <1>4 DEF RegFile
  <2>4. CASE r \in Changed(old)
    <3>1. PICK i \in 1..n : c[i] = r
      BY <2>1, <2>4
    <3>2. ASSUME NEW j \in 1..n, i < j PROVE s[j].reg # r
      <4>1. c[i] < c[j] /\ c[i] \in Nat /\ c[j] \in Nat
        BY <2>1, <3>2, RegAssumption DEF Changed
      <4> QED
        BY <2>2, <3>1, <4>1
    <3>4. IsLast(s, r, i)
      BY <2>2, <3>1, <3>2 DEF IsLast
    <3>3. LastOf(cs \o s, r, d) = s[i].val
      BY <3>4, LastOfNew
    <3> QED
      BY <1>3, <2>2, <2>3, <3>1, <3>3
  <2>5. CASE r \notin Changed(old)
    <3>1. reg_file[r] = old[r]
      BY <2>5 DEF Changed
    <3>2. \A j \in 1..Len(s) : s[j].reg # r
      BY <2>1, <2>2, <2>5
    <3>3. LastOf(cs \o s, r, d) = LastOf(cs, r, d)
      BY <3>2, LastOfSame
    <3> QED
      BY <1>3, <2>3, <3>1, <3>3
  <2> QED
    BY <2>4, <2>5
<1>5. CASE ~config.REGFILE_ARRAY_AVAILABLE
  <2>1. reg_file = old
    BY <1>5
  <2>2. CASE PortWrites
    <3>1. PICK w \in Write : w = [reg |-> wport.reg, val |-> wport.val]
      BY <1>0 DEF Write
    <3>2. s = <<w>> /\ RegFile = [reg_file EXCEPT ![w.reg] = w.val]
      BY <1>1, <1>5, <2>2, <3>1 DEF Seen, RegFile
    <3>3. Len(s) = 1 /\ s[1] = w
      BY <3>2
    <3>4. CASE w.reg = r
      <4>3. IsLast(s, r, 1)
        BY <3>3, <3>4 DEF IsLast
      <4>1. LastOf(cs \o s, r, d) = s[1].val
        BY <4>3, LastOfNew
      <4>2. RegFile[r] = w.val
        BY <1>0, <3>2, <3>4
      <4> QED
        BY <1>3, <3>3, <4>1, <4>2
    <3>5. CASE w.reg # r
      <4>1. LastOf(cs \o s, r, d) = LastOf(cs, r, d)
        BY <3>3, <3>5, LastOfSame
      <4>2. RegFile[r] = old[r]
        BY <1>0, <2>1, <3>2, <3>5
      <4> QED
        BY <1>3, <4>1, <4>2
    <3> QED
      BY <3>4, <3>5
  <2>3. CASE ~PortWrites
    <3>1. s = << >> /\ RegFile = reg_file
      BY <1>1, <1>5, <2>3 DEF Seen, RegFile
    <3>2. LastOf(cs \o s, r, d) = LastOf(cs, r, d)
      BY <3>1, LastOfSame
    <3> QED
      BY <1>3, <2>1, <3>1, <3>2
  <2> QED
    BY <2>2, <2>3
<1> QED
  BY <1>4, <1>5

LEMMA InitCommitsInv == Init => CommitsInv
<1> SUFFICES ASSUME Init PROVE CommitsInv
  OBVIOUS
<1>1. /\ regfile_commits = << >> /\ main = "reset" /\ old_regfile = reg_file
      /\ reg_file = AtReset
  BY DEF Init, AtReset
<1>2. ASSUME NEW r, NEW d PROVE LastOf(regfile_commits, r, d) = d
  <2>1. Of(regfile_commits, r) = {}
    BY <1>1 DEF Of
  <2> QED
    BY <2>1 DEF LastOf
<1> QED
  BY <1>1, <1>2 DEF CommitsInv, Replays

LEMMA CommitsInvStep == BusInv /\ RegTyped /\ CommitsInv /\ [Next]_vars => CommitsInv'
<1> SUFFICES ASSUME BusInv, RegTyped, CommitsInv, [Next]_vars PROVE CommitsInv'
  OBVIOUS
<1>0. /\ ResetHolds /\ old_regfile \in [Reg -> Value] /\ reg_file \in [Reg -> Value]
  BY DEF BusInv, RegTyped
<1>a. UNCHANGED <<config, program>>
  BY DEF Next, RisingEdge, FallingEdge, Main, WaitForReset, ReleaseReset, Collect, TimeOut,
         MainOnly, vars, MemoryModel, NoTransaction, Transaction, InstructionWrite, AnswerRead,
         AnswerWrite, AnswerRaises, Answered
<1>b. AtReset' = AtReset /\ \A cs, regs : Replays(cs, regs)' <=> Replays(cs, regs)
  BY <1>a DEF AtReset, Replays, LastOf, Of
\* A step that leaves the commits and the registers alone.
<1>c. ASSUME UNCHANGED <<regfile_commits, old_regfile, reg_file>>,
             main' = main \/ (main # "stopped" /\ main' \notin {"stopped", "reset"})
      PROVE  CommitsInv'
  <2>1. (IF main = "stopped" THEN reg_file ELSE old_regfile)' =
          IF main = "stopped" THEN reg_file ELSE old_regfile
    BY <1>c
  <2>2. Replays(regfile_commits, IF main = "stopped" THEN reg_file ELSE old_regfile)'
    BY <1>b, <1>c, <2>1 DEF CommitsInv, Replays, LastOf, Of
  <2> QED
    BY <1>a, <1>c, <2>2 DEF CommitsInv
<1>1. CASE RisingEdge
  <2>1. UNCHANGED <<regfile_commits, old_regfile, main, rst_n>> /\ Running
    BY <1>1 DEF RisingEdge, mainVars
  <2>2. main # "stopped"
    BY <2>1 DEF Running
  <2>3. Replays(regfile_commits, old_regfile)'
    BY <1>b, <2>1, <2>2 DEF CommitsInv, Replays, LastOf, Of
  <2>4. CASE ResetStep
    BY <1>a, <2>1, <2>2, <2>3, <2>4 DEF ResetStep, CommitsInv
  <2>5. CASE RunStep
    <3>1. main # "reset"
      BY <1>0, <2>5 DEF RunStep, ResetHolds
    <3>2. ~config.REGFILE_ARRAY_AVAILABLE => reg_file' = reg_file
      BY <2>5 DEF RunStep, Retire
    <3> QED
      BY <1>a, <2>1, <2>2, <2>3, <3>1, <3>2 DEF CommitsInv
  <2> QED
    BY <1>1, <2>4, <2>5 DEF RisingEdge
<1>2. CASE FallingEdge \/ UNCHANGED vars
  BY <1>2, <1>c DEF FallingEdge, vars, mainVars, cpuVars
<1>3. CASE Main
  <2>1. CASE WaitForReset \/ TimeOut
    BY <2>1, <1>c DEF WaitForReset, TimeOut
  <2>2. CASE ReleaseReset \/ Collect
    <3>1. PICK old : /\ regfile_commits' = regfile_commits \o Seen(old) /\ reg_file' = RegFile
                     /\ \/ main' = "stopped"
                        \/ main' = "loop" /\ old_regfile' = RegFile
                     /\ old = old_regfile /\ main # "stopped"
      <4>1. CASE ReleaseReset
        <5>1. reg_file = old_regfile
          BY <4>1 DEF ReleaseReset, CommitsInv
        <5> QED
          BY <4>1, <5>1 DEF ReleaseReset
      <4>2. CASE Collect
        BY <4>2 DEF Collect, Iterate
      <4> QED
        BY <2>2, <4>1, <4>2
    <3>2. Replays(regfile_commits, old)
      BY <3>1 DEF CommitsInv
    <3>3. config.REGFILE_ARRAY_AVAILABLE \/ reg_file = old
      BY <3>1 DEF CommitsInv
    <3>4. Replays(regfile_commits', RegFile)
      BY <1>0, <3>1, <3>2, <3>3, LookReplays
    <3>5. PICK cs, regs : cs = regfile_commits' /\ regs = RegFile
      OBVIOUS
    <3>6. Replays(cs, regs)'
      BY <1>b, <3>4, <3>5
    <3>7. (IF main = "stopped" THEN reg_file ELSE old_regfile)' = regs
      BY <3>1, <3>5
    <3>8. Replays(regfile_commits, IF main = "stopped" THEN reg_file ELSE old_regfile)'
      BY <3>5, <3>6, <3>7 DEF Replays, LastOf, Of
    <3>9. main' # "reset" /\ (main' # "stopped" => reg_file' = old_regfile')
      BY <3>1
    <3> QED
      BY <3>8, <3>9 DEF CommitsInv
  <2> QED
    BY <1>3, <2>1, <2>2 DEF Main
<1>4. ASSUME NEW p \in Ports, MemoryModel(p) PROVE CommitsInv'
  <2>1. UNCHANGED <<regfile_commits, old_regfile, reg_file>> /\ Running
    BY <1>4, MemoryModelFrame DEF cpuVars
  <2>2. main' = main \/ main' = "failed"
    BY <1>4 DEF MemoryModel, NoTransaction, Transaction, InstructionWrite, AnswerRead,
                AnswerWrite, AnswerRaises, Answered, mainVars
  <2> QED
    BY <1>c, <2>1, <2>2 DEF Running
<1> QED
  BY <1>1, <1>2, <1>3, <1>4 DEF Next

\* Replaying the recorded commits gives the registers last seen, replaying the
\* recorded accesses what the memory holds, for every program that is linked for the
\* memory, every memory size and every number of cycles; on a processor with only a
\* write port in view too.
THEOREM ReplaysCorrect == Spec => []FragmentReplays
<1>1. ReplayInv => AccessesReplay
  BY DEF ReplayInv, AccessesReplay, Placeable, TextThere, DataReplayed, LastAt, At, AccessesTo
<1>2. CommitsInv => CommitsReplay
  BY DEF CommitsInv, CommitsReplay, Replays, AtReset, LastOf, Of, CommitsTo
<1> QED
  BY <1>1, <1>2, InitIInv, NextKeeps, InitBusInv, BusInvStep, InitMemInv, MemInvStep,
     InitRegTyped, RegTypedStep, InitReplayInv, ReplayInvStep, InitCommitsInv, CommitsInvStep,
     PTL DEF Spec, FragmentReplays

-----------------------------------------------------------------------------
(* The end of the simulation *)

\* Once 1 was stored to tohost it is there; no coroutine of the memory comes before
\* the next edge, and at that edge the main coroutine before the edge after it.
\* Nothing but that store puts it there, and under reset nothing is stored.
StopInv ==
  /\ main = "reset" => mem_access = << >>
  /\ Placeable =>
       /\ ToHost = One => Stored
       /\ main = "stopped" => Stored
       /\ Stored /\ Running =>
            ToHost = One /\ IF clk = "low" THEN DataPort \notin due ELSE "main" \in due

LEMMA StopSame ==
  ASSUME UNCHANGED <<config, program, memory, mem_access>>
  PROVE  /\ ToHost' = ToHost /\ (Stored' <=> Stored) /\ (Placeable' <=> Placeable)
         /\ DataPort' = DataPort
BY DEF ToHost, Stored, Placeable, Fits, Start, Place, DataPort, Simulated

LEMMA InitStopInv == Init => StopInv
<1> SUFFICES ASSUME Init PROVE StopInv
  OBVIOUS
<1>1. /\ program \in Programs /\ mem_access = << >> /\ main = "reset"
      /\ memory = [p \in Ports |-> IF p = "core" THEN LoadedMemory(program) ELSE LoadedDataMemory(program)]
  BY DEF Init
<1>2. DataPort \in Ports
  BY DEF DataPort, Ports
<1>3. ~Stored
  BY <1>1 DEF Stored
<1>4. ASSUME Placeable PROVE ToHost # One
  <2>1. program.tohost \in DOMAIN program.data /\ program.data[program.tohost] # One
    BY <1>1, ProgramsAssumption DEF Linked
  <2>2. ToHost = program.data[program.tohost]
    BY <1>1, <1>2, <1>4, <2>1, LoadedFound DEF ToHost
  <2> QED
    BY <2>1, <2>2
<1> QED
  BY <1>1, <1>3, <1>4 DEF StopInv

\* A store to the word of tohost is a whole one, recorded at tohost.
LEMMA ToHostStore ==
  ASSUME NEW p \in Ports, BusInv, MemInv, Running, awaiting[p] = "step", bus[p].we,
         Simulated(raw_addr[p]) = Simulated(program.tohost) \/ raw_addr[p] = program.tohost
  PROVE  raw_addr[p] = program.tohost /\ bus[p].sel \in Strobes
<1>1. /\ executed + 1 \in 1..Len(program.trace)
      /\ Step(executed + 1).instr.kind \in Stores /\ bus[p] = Accessing(executed + 1)
      /\ raw_addr[p] = bus[p].addr /\ raw_addr[p] \in Nat
      /\ WordAt(raw_addr[p]) \in DOMAIN program.data
      /\ WordAt(raw_addr[p]) = WordAt(Step(executed + 1).mem_addr)
      /\ Simulated(raw_addr[p]) = Simulated(WordAt(raw_addr[p]))
  BY WriteIsStore
<1>2. program \in Programs
  BY DEF BusInv
<1>3. PICK k \in 1..Len(program.trace) : k = executed + 1
  BY <1>1
<1>4. program.tohost \in DOMAIN program.data /\ program.tohost \in Nat /\ program.tohost % 4 = 0
  BY <1>2, LinkedFacts, ProgramFacts
<1>5. WordAt(program.tohost) = program.tohost
  BY <1>4 DEF WordAt
<1>6. WordAt(raw_addr[p]) = program.tohost
  BY <1>1, <1>2, <1>4, <1>5, LinkedFacts
<1>7. Step(k).instr.kind = "sw" /\ Step(k).mem_addr = program.tohost
  <2>1. Linked(program) /\ k \in DOMAIN program.trace
    BY <1>2, ProgramFacts, ProgramsAssumption
  <2> QED
    BY <1>1, <1>3, <1>6, <2>1 DEF Linked, Step
<1>8. raw_addr[p] = program.tohost
  BY <1>1, <1>3, <1>4, <1>7 DEF Accessing
<1>9. Step(k).mem_addr % Width(Step(k).instr.kind) = 0
  BY <1>4, <1>7 DEF Width
<1>10. Accessing(k).sel \in Strobes
  BY <1>1, <1>2, <1>3, <1>9, StoreStrobe
<1> QED
  BY <1>1, <1>3, <1>8, <1>10

LEMMA AnswerWriteStops ==
  ASSUME NEW p \in Ports, IInv, BusInv, MemInv, StopInv, AnswerWrite(p)
  PROVE  StopInv'
<1>1. /\ p = DataPort /\ Written(p) \in Word
      /\ mem_access' = Append(mem_access, [addr |-> raw_addr[p], val |-> Written(p)])
      /\ memory' = IF bus[p].sel \in Strobes
                   THEN [memory EXCEPT ![p][Simulated(raw_addr[p])] = Written(p)] ELSE memory
      /\ Running /\ awaiting[p] = "step" /\ bus[p].we /\ p \in due
      /\ config' = config /\ program' = program
  BY AnswerWriteFacts
<1>2. main' = main /\ clk' = clk /\ due' = due \ {p} /\ rst_n' = rst_n
  BY DEF AnswerWrite, Answered, Resume, mainVars
<1>3. clk = "low"
  BY <1>1, EdgeOrStep
<1>4. main # "reset"
  BY <1>1 DEF BusInv, ResetHolds
<1>5. DataPort' = DataPort /\ (Placeable' <=> Placeable)
  BY <1>1 DEF Placeable, Fits, Start, Place, DataPort
<1>6. SUFFICES ASSUME Placeable
               PROVE  (ToHost' = One => Stored') /\ (Stored' => ToHost' = One)
  BY <1>1, <1>2, <1>3, <1>4, <1>5 DEF StopInv, Running
<1>7. ~Stored
  BY <1>1, <1>3, <1>6 DEF StopInv
<1>0. PICK ms \in Seq(Access) : ms = mem_access
  BY DEF MemInv, MemTyped
<1>8. PICK v, a, t :
        ms = mem_access /\ v = Written(p) /\ a = raw_addr[p] /\ t = Simulated(program.tohost)
  BY <1>0
<1>9. PICK x : x = [addr |-> a, val |-> v]
  OBVIOUS
<1>10. a \in Nat /\ x \in Access
  BY <1>1, <1>8, <1>9, WriteIsStore DEF Access
<1>11. PICK ns : ns = Append(ms, x) /\ ns = mem_access'
  BY <1>1, <1>8, <1>9
<1>12. Len(ns) = Len(ms) + 1 /\ ns[Len(ms) + 1] = x /\ Len(ms) \in Nat /\ \A k \in 1..Len(ms) : ns[k] = ms[k]
  <2>1. PICK y \in Access : y = x
    BY <1>10
  <2>2. ns = Append(ms, y)
    BY <1>11, <2>1
  <2>3. Len(ns) = Len(ms) + 1 /\ ns[Len(ms) + 1] = y /\ Len(ms) \in Nat /\ \A k \in 1..Len(ms) : ns[k] = ms[k]
    BY <2>2
  <2> QED
    BY <2>1, <2>3
<1>13. Stored' <=> a = program.tohost /\ v = One
  <2>1. Stored' <=> \E k \in 1..Len(ns) : ns[k] = [addr |-> program.tohost, val |-> One]
    BY <1>1, <1>11 DEF Stored
  <2>2. \A k \in 1..Len(ms) : ns[k] # [addr |-> program.tohost, val |-> One]
    BY <1>7, <1>8, <1>12 DEF Stored
  <2>3. Stored' <=> x = [addr |-> program.tohost, val |-> One]
    BY <1>12, <2>1, <2>2
  <2> QED
    BY <1>9, <2>3
<1>14. /\ memory \in [Ports -> [0..(MemWords - 1) -> Cell]] /\ program \in Programs
       /\ t \in 0..(MemWords - 1) /\ Simulated(a) \in 0..(MemWords - 1)
  <2>1. program \in Programs /\ memory \in [Ports -> [0..(MemWords - 1) -> Cell]]
    BY DEF BusInv, MemInv, MemTyped
  <2>2. program.tohost \in Nat
    BY <2>1, ProgramFacts
  <2> QED
    BY <1>8, <1>10, <2>1, <2>2, SimulatedIsPlace
<1>15. ToHost = memory[p][t] /\ ToHost' = memory'[p][t]
  BY <1>1, <1>5, <1>8 DEF ToHost, Simulated
<1>16. CASE Simulated(a) = t
  <2>1. a = program.tohost /\ bus[p].sel \in Strobes
    BY <1>1, <1>8, <1>16, ToHostStore
  <2>2. memory' = [memory EXCEPT ![p][t] = v]
    BY <1>1, <1>8, <1>16, <2>1
  <2>3. memory'[p] = [memory[p] EXCEPT ![t] = v]
    BY <1>14, <2>2
  <2>4. memory'[p][t] = v
    <3>1. memory[p] \in [0..(MemWords - 1) -> Cell]
      BY <1>14
    <3> QED
      BY <1>14, <2>3, <3>1
  <2> QED
    BY <1>13, <1>15, <2>1, <2>4
<1>17. CASE Simulated(a) # t
  <2>1. a # program.tohost
    BY <1>8, <1>17
  <2>2. memory'[p][t] = memory[p][t]
    BY <1>1, <1>8, <1>14, <1>17
  <2> QED
    BY <1>6, <1>7, <1>13, <1>15, <2>1, <2>2 DEF StopInv
<1> QED
  BY <1>16, <1>17

LEMMA StopInvStep == IInv /\ BusInv /\ MemInv /\ StopInv /\ [Next]_vars => StopInv'
<1> SUFFICES ASSUME IInv, BusInv, MemInv, StopInv, [Next]_vars PROVE StopInv'
  OBVIOUS
<1>1. CASE RisingEdge \/ FallingEdge
  <2>1. UNCHANGED <<config, program, memory, mem_access, main>> /\ due = {}
    BY <1>1 DEF RisingEdge, FallingEdge, memVars, mainVars
  <2>2. /\ ToHost' = ToHost /\ (Stored' <=> Stored) /\ (Placeable' <=> Placeable)
        /\ DataPort' = DataPort
    BY <2>1, StopSame
  <2>3. CASE RisingEdge
    <3>1. "main" \in due' /\ clk' = "high"
      <4>1. "main" \in DOMAIN awaiting /\ awaiting["main"] = "edge"
        BY DEF IInv, Shape
      <4> QED
        BY <2>3, <4>1 DEF RisingEdge
    <3> QED
      BY <2>1, <2>2, <3>1 DEF StopInv, Running
  <2>4. CASE FallingEdge
    <3>1. Running /\ clk = "high"
      BY <2>4 DEF FallingEdge
    <3> QED
      BY <2>1, <2>2, <3>1 DEF StopInv, Running
  <2> QED
    BY <1>1, <2>3, <2>4
<1>2. CASE Main
  <2>1. UNCHANGED <<config, program, memory, mem_access, clk>> /\ due' \subseteq due /\ Running
    BY <1>2 DEF Main, WaitForReset, ReleaseReset, Collect, TimeOut, Resume, MainOnly, memVars
  <2>2. /\ ToHost' = ToHost /\ (Stored' <=> Stored) /\ (Placeable' <=> Placeable)
        /\ DataPort' = DataPort
    BY <2>1, StopSame
  <2>3. CASE WaitForReset
    <3>1. main = "reset" /\ main' = main
      BY <2>3 DEF WaitForReset
    <3>2. ~Stored
      BY <3>1 DEF StopInv, Stored
    <3> QED
      BY <2>1, <2>2, <3>1, <3>2 DEF StopInv, Running
  <2>4. CASE ReleaseReset \/ Collect
    <3>1. main' = IF ToHost = One THEN "stopped" ELSE "loop"
      BY <2>4 DEF ReleaseReset, Collect, Iterate
    <3> QED
      BY <2>1, <2>2, <3>1 DEF StopInv, Running
  <2>5. CASE TimeOut
    <3>1. main' = "timeout"
      BY <2>5 DEF TimeOut
    <3> QED
      BY <2>2, <3>1 DEF StopInv, Running
  <2> QED
    BY <1>2, <2>3, <2>4, <2>5 DEF Main
<1>3. ASSUME NEW p \in Ports, MemoryModel(p) PROVE StopInv'
  <2>1. Running /\ due' = due \ {p} /\ clk' = clk /\ config' = config /\ program' = program
    BY <1>3, MemoryModelFrame
  <2>2. main' = main \/ main' = "failed"
    BY <1>3 DEF MemoryModel, NoTransaction, Transaction, InstructionWrite, AnswerRead,
                AnswerWrite, AnswerRaises, Answered, mainVars
  <2>3. p # "main"
    BY PortsAreNotMain
  <2>4. CASE UNCHANGED <<memory, mem_access>>
    <3>1. /\ ToHost' = ToHost /\ (Stored' <=> Stored) /\ (Placeable' <=> Placeable)
          /\ DataPort' = DataPort
      BY <2>1, <2>4, StopSame
    <3> QED
      BY <2>1, <2>2, <2>3, <2>4, <3>1 DEF StopInv, Running
  <2>5. CASE InstructionWrite(p)
    <3>1. /\ p = "core" /\ DataPort = "data_mem" /\ mem_access' = mem_access
          /\ memory' = [memory EXCEPT ![p][Simulated(bus[p].addr)] = bus[p].data_out]
      BY <2>5, InstructionWriteIsStray DEF InstructionWrite
    <3>2. memory'["data_mem"] = memory["data_mem"] /\ DataPort' = DataPort
      BY <2>1, <3>1 DEF MemInv, MemTyped, DataPort
    <3>3. ToHost' = ToHost /\ (Stored' <=> Stored) /\ (Placeable' <=> Placeable)
      BY <2>1, <3>1, <3>2 DEF ToHost, Stored, Placeable, Fits, Start, Place, Simulated
    <3> QED
      BY <2>1, <2>2, <2>3, <3>1, <3>2, <3>3 DEF StopInv, Running
  <2>6. NoTransaction(p) \/ Transaction(p) \/ AnswerRead(p) \/ AnswerRaises(p) => UNCHANGED <<memory, mem_access>>
    BY DEF NoTransaction, Transaction, AnswerRead, Answered, Resume, AnswerRaises, memVars
  <2> QED
    BY <1>3, <2>4, <2>5, <2>6, AnswerWriteStops DEF MemoryModel
<1>4. CASE UNCHANGED vars
  <2>1. UNCHANGED <<config, program, memory, mem_access, main, clk, due>>
    BY <1>4 DEF vars, simVars, memVars, mainVars
  <2>2. /\ ToHost' = ToHost /\ (Stored' <=> Stored) /\ (Placeable' <=> Placeable)
        /\ DataPort' = DataPort
    BY <2>1, StopSame
  <2> QED
    BY <2>1, <2>2 DEF StopInv, Running
<1> QED
  BY <1>1, <1>2, <1>3, <1>4 DEF Next

\* The store of 1 to tohost ends the simulation in the cycle after it, and nothing
\* else ends it as a success, whatever the program, the memory and the processor's
\* timing: no cycle of the main coroutine misses the word, and no other store, no
\* stray write and nothing that is loaded leaves 1 there.
THEOREM StopsCorrect == Spec => []StopsAtToHost
<1>1. StopInv => StopsAtToHost
  BY DEF StopInv, StopsAtToHost, Placeable
<1> QED
  BY <1>1, InitIInv, NextKeeps, InitBusInv, BusInvStep, InitMemInv, MemInvStep,
     InitStopInv, StopInvStep, PTL DEF Spec

-----------------------------------------------------------------------------
(* The fragment: its accesses and fetches *)

\* An access records a store: its word, and its bytes where they are in it.
Records(e, x) ==
  LET offset == e.mem_addr % 4
  IN  /\ offset + Width(e.instr.kind) <= 4
      /\ x.addr = e.mem_addr - offset
      /\ \A b \in 0..(Width(e.instr.kind) - 1) : x.val[b + offset] = e.mem_val[b]

\* The accesses ms are the stores among the first n steps of t, in their order.
StoresOver(t, ms, n, of) ==
  /\ of \in [1..Len(ms) -> 1..n]
  /\ \A k \in 1..n : t[k].instr.kind \in Stores <=> \E j \in 1..Len(ms) : of[j] = k
  /\ \A i, j \in 1..Len(ms) : i < j => of[i] < of[j]
  /\ \A j \in 1..Len(ms) : Records(t[of[j]], ms[j])
StoresUpTo(t, ms, n) == \E of : StoresOver(t, ms, n, of)

LEMMA NoStores == \A t : StoresUpTo(t, << >>, 0)
<1> SUFFICES ASSUME NEW t PROVE StoresUpTo(t, << >>, 0)
  OBVIOUS
<1>1. PICK of : of = [j \in 1..0 |-> 0]
  OBVIOUS
<1>2. 1..Len(<< >>) = {} /\ 1..0 = {}
  OBVIOUS
<1>3. of \in [1..Len(<< >>) -> 1..0]
  BY <1>1, <1>2
<1>4. StoresOver(t, << >>, 0, of)
  BY <1>2, <1>3 DEF StoresOver
<1> QED
  BY <1>4 DEF StoresUpTo

LEMMA StoresSkip ==
  ASSUME NEW t, NEW ms \in Seq(Access), NEW n \in Nat,
         StoresUpTo(t, ms, n), t[n + 1].instr.kind \notin Stores
  PROVE  StoresUpTo(t, ms, n + 1)
<1>1. PICK of : StoresOver(t, ms, n, of)
  BY DEF StoresUpTo
<1>2. PICK N \in Nat : N = Len(ms)
  OBVIOUS
<1>3. of \in [1..N -> 1..n] /\ 1..n \subseteq 1..(n + 1) /\ \A k \in 1..(n + 1) : k \in 1..n \/ k = n + 1
  BY <1>1, <1>2 DEF StoresOver
<1>4. of \in [1..N -> 1..(n + 1)] /\ \A j \in 1..N : of[j] # n + 1
  BY <1>3
<1>5. StoresOver(t, ms, n + 1, of)
  BY <1>1, <1>2, <1>3, <1>4 DEF StoresOver
<1> QED
  BY <1>5 DEF StoresUpTo

LEMMA StoresAdd ==
  ASSUME NEW t, NEW ms \in Seq(Access), NEW n \in Nat, NEW x \in Access,
         StoresUpTo(t, ms, n), t[n + 1].instr.kind \in Stores, Records(t[n + 1], x)
  PROVE  StoresUpTo(t, Append(ms, x), n + 1)
<1>1. PICK of : StoresOver(t, ms, n, of)
  BY DEF StoresUpTo
<1>2. PICK N \in Nat : N = Len(ms)
  OBVIOUS
<1>3. PICK ns : ns = Append(ms, x)
  OBVIOUS
<1>4. Len(ns) = N + 1 /\ ns[N + 1] = x /\ \A j \in 1..N : ns[j] = ms[j]
  BY <1>2, <1>3
<1>5. /\ of \in [1..N -> 1..n]
      /\ \A k \in 1..n : t[k].instr.kind \in Stores <=> \E j \in 1..N : of[j] = k
      /\ \A i, j \in 1..N : i < j => of[i] < of[j]
      /\ \A j \in 1..N : Records(t[of[j]], ms[j])
  BY <1>1, <1>2 DEF StoresOver
<1>6. PICK o : o = [j \in 1..(N + 1) |-> IF j = N + 1 THEN n + 1 ELSE of[j]]
  OBVIOUS
<1>7. o[N + 1] = n + 1 /\ \A j \in 1..N : o[j] = of[j] /\ o[j] \in 1..n
  BY <1>5, <1>6
<1>8. \A j \in 1..(N + 1) : j = N + 1 \/ j \in 1..N
  OBVIOUS
<1>9. o \in [1..(N + 1) -> 1..(n + 1)]
  <2>1. \A j \in 1..(N + 1) : o[j] \in 1..(n + 1)
    BY <1>7, <1>8
  <2> QED
    BY <1>6, <2>1
<1>10. ASSUME NEW k \in 1..(n + 1)
       PROVE  t[k].instr.kind \in Stores <=> \E j \in 1..(N + 1) : o[j] = k
  <2>1. CASE k = n + 1
    BY <1>7, <2>1
  <2>2. CASE k \in 1..n
    <3>1. k # n + 1
      BY <2>2
    <3>2. (\E j \in 1..(N + 1) : o[j] = k) <=> \E j \in 1..N : of[j] = k
      BY <1>7, <1>8, <3>1
    <3> QED
      BY <1>5, <2>2, <3>2
  <2> QED
    BY <2>1, <2>2
<1>11. \A i, j \in 1..(N + 1) : i < j => o[i] < o[j]
  <2> SUFFICES ASSUME NEW i \in 1..(N + 1), NEW j \in 1..(N + 1), i < j PROVE o[i] < o[j]
    OBVIOUS
  <2>1. i \in 1..N
    OBVIOUS
  <2>2. o[i] = of[i] /\ of[i] \in 1..n
    BY <1>7, <2>1
  <2>3. CASE j = N + 1
    BY <1>7, <2>2, <2>3
  <2>4. CASE j \in 1..N
    BY <1>5, <1>7, <2>1, <2>2, <2>4
  <2> QED
    BY <1>8, <2>3, <2>4
<1>12. \A j \in 1..(N + 1) : Records(t[o[j]], ns[j])
  BY <1>4, <1>5, <1>7, <1>8
<1>13. StoresOver(t, ns, n + 1, o)
  BY <1>4, <1>9, <1>10, <1>11, <1>12 DEF StoresOver
<1> QED
  BY <1>3, <1>13 DEF StoresUpTo

\* The fetches fs hold the first n steps of t, in their order.
FetchesOver(t, fs, n, pos) ==
  /\ pos \in [1..n -> 1..Len(fs)]
  /\ \A k \in 1..(n - 1) : pos[k] < pos[k + 1]
  /\ \A k \in 1..n : fs[pos[k]].pc = t[k].pc
FetchesUpTo(t, fs, n) == \E pos : FetchesOver(t, fs, n, pos)

LEMMA NoFetches == \A t : FetchesUpTo(t, << >>, 0)
<1> SUFFICES ASSUME NEW t PROVE FetchesUpTo(t, << >>, 0)
  OBVIOUS
<1>1. PICK pos : pos = [j \in 1..0 |-> 0]
  OBVIOUS
<1>2. 1..Len(<< >>) = {} /\ 1..0 = {} /\ 1..(0 - 1) = {}
  OBVIOUS
<1>3. pos \in [1..0 -> 1..Len(<< >>)]
  BY <1>1, <1>2
<1>4. FetchesOver(t, << >>, 0, pos)
  BY <1>2, <1>3 DEF FetchesOver
<1> QED
  BY <1>4 DEF FetchesUpTo

Fetch == [pc : Nat, instr : Cell]

LEMMA FetchesSkip ==
  ASSUME NEW t, NEW fs \in Seq(Fetch), NEW n \in Nat, NEW x \in Fetch, FetchesUpTo(t, fs, n)
  PROVE  FetchesUpTo(t, Append(fs, x), n)
<1>1. PICK pos : FetchesOver(t, fs, n, pos)
  BY DEF FetchesUpTo
<1>2. PICK N \in Nat : N = Len(fs)
  OBVIOUS
<1>3. PICK ns : ns = Append(fs, x)
  OBVIOUS
<1>4. Len(ns) = N + 1 /\ \A j \in 1..N : ns[j] = fs[j]
  BY <1>2, <1>3
<1>5. pos \in [1..n -> 1..N] /\ 1..N \subseteq 1..(N + 1)
  BY <1>1, <1>2 DEF FetchesOver
<1>6. pos \in [1..n -> 1..(N + 1)] /\ \A k \in 1..n : ns[pos[k]] = fs[pos[k]]
  BY <1>4, <1>5
<1>7. FetchesOver(t, ns, n, pos)
  BY <1>1, <1>4, <1>6 DEF FetchesOver
<1> QED
  BY <1>3, <1>7 DEF FetchesUpTo

LEMMA FetchesAdd ==
  ASSUME NEW t, NEW fs \in Seq(Fetch), NEW n \in Nat, NEW x \in Fetch, FetchesUpTo(t, fs, n),
         x.pc = t[n + 1].pc
  PROVE  FetchesUpTo(t, Append(fs, x), n + 1)
<1>1. PICK pos : FetchesOver(t, fs, n, pos)
  BY DEF FetchesUpTo
<1>2. PICK N \in Nat : N = Len(fs)
  OBVIOUS
<1>3. PICK ns : ns = Append(fs, x)
  OBVIOUS
<1>4. Len(ns) = N + 1 /\ ns[N + 1] = x /\ \A j \in 1..N : ns[j] = fs[j]
  BY <1>2, <1>3
<1>5. /\ pos \in [1..n -> 1..N]
      /\ \A k \in 1..(n - 1) : pos[k] < pos[k + 1]
      /\ \A k \in 1..n : fs[pos[k]].pc = t[k].pc
  BY <1>1, <1>2 DEF FetchesOver
<1>6. PICK o : o = [k \in 1..(n + 1) |-> IF k = n + 1 THEN N + 1 ELSE pos[k]]
  OBVIOUS
<1>7. o[n + 1] = N + 1 /\ \A k \in 1..n : o[k] = pos[k] /\ o[k] \in 1..N
  BY <1>5, <1>6
<1>8. \A k \in 1..(n + 1) : k = n + 1 \/ k \in 1..n
  OBVIOUS
<1>9. o \in [1..(n + 1) -> 1..(N + 1)]
  <2>1. \A k \in 1..(n + 1) : o[k] \in 1..(N + 1)
    BY <1>7, <1>8
  <2> QED
    BY <1>6, <2>1
<1>10. \A k \in 1..((n + 1) - 1) : o[k] < o[k + 1]
  <2> SUFFICES ASSUME NEW k \in 1..n PROVE o[k] < o[k + 1]
    OBVIOUS
  <2>1. k = n \/ (k \in 1..(n - 1) /\ k + 1 \in 1..n)
    OBVIOUS
  <2> QED
    BY <1>5, <1>7, <2>1
<1>11. \A k \in 1..(n + 1) : ns[o[k]].pc = t[k].pc
  BY <1>4, <1>5, <1>7, <1>8
<1>12. FetchesOver(t, ns, n + 1, o)
  BY <1>4, <1>9, <1>10, <1>11 DEF FetchesOver
<1> QED
  BY <1>3, <1>12 DEF FetchesUpTo

\* The main coroutine runs in the first half of a cycle.
MainHigh == main = "stopped" \/ "main" \in due => clk = "high"

\* Steps whose store is recorded: in the second half of the cycle the memory is ahead
\* of the processor, which sees the answer at the edge.
Wrote ==
  IF clk = "low" /\ DataPort \notin due /\ bus[DataPort].for = "access"
  THEN executed + 1 ELSE executed

StoresInv ==
  AlignedStores /\ ~config.BYTE_ALIGNED_MEMORY_ACCESS /\ main # "failed"
  => StoresUpTo(program.trace, mem_access, Wrote)

LEMMA InitStoresInv == Init => StoresInv /\ MainHigh
<1> SUFFICES ASSUME Init PROVE StoresInv /\ MainHigh
  OBVIOUS
<1>1. mem_access = << >> /\ executed = 0 /\ bus = [p \in Ports |-> NoRequest] /\ due = {} /\ main = "reset"
  BY DEF Init
<1>2. DataPort \in Ports
  BY DEF DataPort, Ports
<1>3. Wrote = 0
  BY <1>1, <1>2, NoRequestIsRequest DEF Wrote
<1> QED
  BY <1>1, <1>3, NoStores DEF StoresInv, MainHigh

LEMMA MainHighStep == IInv /\ MainHigh /\ [Next]_vars => MainHigh'
<1> SUFFICES ASSUME IInv, MainHigh, [Next]_vars PROVE MainHigh'
  OBVIOUS
<1>1. CASE RisingEdge
  BY <1>1 DEF RisingEdge, MainHigh
<1>2. CASE FallingEdge
  <2>1. awaiting["main"] = "edge" /\ main # "stopped"
    BY <1>2 DEF IInv, Shape, FallingEdge, Running
  <2> QED
    BY <1>2, <2>1 DEF FallingEdge, mainVars, MainHigh
<1>3. CASE Main
  BY <1>3 DEF Main, WaitForReset, ReleaseReset, Collect, TimeOut, Resume, MainOnly, MainHigh
<1>4. ASSUME NEW p \in Ports, MemoryModel(p) PROVE MainHigh'
  <2>1. main' = main \/ main' = "failed"
    BY <1>4 DEF MemoryModel, NoTransaction, Transaction, InstructionWrite, AnswerRead,
                AnswerWrite, AnswerRaises, Answered, mainVars
  <2> QED
    BY <1>4, <2>1, MemoryModelFrame DEF MainHigh
<1>5. CASE UNCHANGED vars
  BY <1>5 DEF vars, simVars, mainVars, MainHigh
<1> QED
  BY <1>1, <1>2, <1>3, <1>4, <1>5 DEF Next

LEMMA StoresKept ==
  ASSUME StoresInv, UNCHANGED <<config, program, mem_access>>, Wrote' = Wrote,
         main' # "failed" => main # "failed"
  PROVE  StoresInv'
<1>1. AlignedStores' <=> AlignedStores
  BY DEF AlignedStores, Step
<1> QED
  BY <1>1 DEF StoresInv

\* What the processor executes at an edge is what the memory has answered.
LEMMA ExecutedAtEdge ==
  ASSUME IInv, BusInv, RisingEdge
  PROVE  /\ Wrote \in Nat /\ Wrote' = executed' /\ executed <= Wrote
         /\ \/ executed' = Wrote
            \/ /\ executed' = Wrote + 1 /\ Wrote + 1 \in 1..Len(program.trace)
               /\ ~Accesses(Wrote + 1)
         /\ Wrote = executed + 1 => executed' = Wrote /\ (RunStep => retired' = executed)
<1>1. clk = "low" /\ due = {} /\ clk' = "high"
  BY DEF RisingEdge
<1>2. DataPort \in Ports
  BY DEF DataPort, Ports
<1>3. /\ config \in Configs /\ program \in Programs /\ Counts /\ ResetHolds
      /\ Asked(DataPort, bus[DataPort])
  BY <1>2 DEF BusInv
<1>4. Wrote = IF bus[DataPort].for = "access" THEN executed + 1 ELSE executed
  BY <1>1 DEF Wrote
<1>5. executed \in Nat /\ Wrote' = executed'
  BY <1>1, <1>3 DEF Wrote, Counts
<1>6. CASE ResetStep
  <2>1. executed' = executed /\ ~rst_n
    BY <1>6 DEF ResetStep
  <2>2. bus[DataPort].for # "access"
    BY <1>2, <1>3, <2>1 DEF ResetHolds
  <2>3. ~RunStep
    BY <2>1 DEF RunStep
  <2> QED
    BY <1>4, <1>5, <2>1, <2>2, <2>3
<1>7. CASE RunStep
  <2>1. Done(DataPort, "access") <=> bus[DataPort].cyc /\ bus[DataPort].for = "access"
    BY <1>2, AllServed
  <2>2. PICK n \in 0..1 :
          /\ n = 1 => IF Done(DataPort, "access") THEN TRUE
                      ELSE executed + 1 <= fetched /\ ~Accesses(executed + 1)
          /\ Done(DataPort, "access") => n = 1
          /\ executed' = executed + n
    BY <1>7 DEF RunStep
  <2>3. PICK to : Retire(to) /\ (Done(DataPort, "access") => to = executed)
    BY <1>7 DEF RunStep
  <2>4. CASE bus[DataPort].for = "access"
    <3>1. executed < fetched /\ Accesses(executed + 1) /\ bus[DataPort] = Accessing(executed + 1)
      BY <1>3, <2>4 DEF Asked
    <3>2. bus[DataPort].cyc
      BY <3>1 DEF Accessing
    <3>3. retired' = executed
      BY <2>1, <2>3, <2>4, <3>2 DEF Retire
    <3> QED
      BY <1>4, <1>5, <2>1, <2>2, <2>4, <3>2, <3>3
  <2>5. CASE bus[DataPort].for # "access"
    <3>1. Wrote = executed
      BY <1>4, <2>5
    <3>2. n = 1 => executed + 1 <= fetched /\ ~Accesses(executed + 1)
      BY <2>1, <2>2, <2>5
    <3>3. fetched \in Nat /\ fetched <= Len(program.trace) /\ Len(program.trace) \in Nat
      BY <1>3, ProgramFacts DEF Counts
    <3> QED
      BY <1>5, <2>2, <3>1, <3>2, <3>3
  <2> QED
    BY <2>4, <2>5
<1> QED
  BY <1>6, <1>7 DEF RisingEdge

\* What a store leaves in the memory, and in the list, is its bytes in their lanes.
LEMMA StoreRecorded ==
  ASSUME NEW k \in 1..Len(program.trace), program \in Programs, config \in Configs,
         Step(k).instr.kind \in Stores, Step(k).mem_addr % Width(Step(k).instr.kind) = 0,
         ~config.BYTE_ALIGNED_MEMORY_ACCESS, NEW cell, NEW x,
         x.addr = Accessing(k).addr, x.val = Merged(cell, Accessing(k))
  PROVE  Records(Step(k), x)
<1>1. PICK addr \in Nat, kind \in Stores, val \in Word :
        addr = Step(k).mem_addr /\ kind = Step(k).instr.kind /\ val = Step(k).mem_val
  BY AccessFacts
<1>2. PICK shift \in 0..3 : shift = addr % 4
  BY D4
<1>3. PICK width \in {1, 2, 4} : width = Width(kind)
  BY DEF Width
<1>4. shift + width <= 4
  BY <1>1, <1>2, <1>3, StoreStrobe
<1>5. PICK lanes : lanes = {b \in 0..3 : shift <= b /\ b < shift + width}
  OBVIOUS
<1>6. PICK data : data = [b \in 0..3 |-> IF b \in lanes THEN val[b - shift] ELSE 1]
  OBVIOUS
<1>7. /\ Accessing(k).addr = addr - shift /\ Accessing(k).sel = lanes
      /\ Accessing(k).data_out = data
  BY <1>1, <1>2, <1>3, <1>5, <1>6 DEF Accessing
<1>8. ASSUME NEW b \in 0..(width - 1) PROVE x.val[b + shift] = val[b]
  <2>1. PICK c \in 0..3 : c = b + shift
    BY <1>4
  <2>2. c \in lanes /\ c - shift = b
    BY <1>5, <2>1
  <2>3. data[c] = val[b]
    BY <1>6, <2>2
  <2>4. x.val[c] = data[c]
    BY <1>7, <2>2 DEF Merged
  <2> QED
    BY <2>1, <2>3, <2>4
<1>9. x.addr = addr - shift
  BY <1>7
<1>10. Width(kind) - 1 = width - 1
  BY <1>3
<1> QED
  BY <1>1, <1>2, <1>3, <1>4, <1>8, <1>9, <1>10 DEF Records

LEMMA AnswerStores ==
  ASSUME NEW p \in Ports, IInv, BusInv, MemInv, StoresInv, Answered(p), main' # "failed",
         AnswerRead(p) \/ AnswerWrite(p)
  PROVE  StoresInv'
<1>1. /\ Running /\ p \in due /\ due' = due \ {p} /\ clk' = clk /\ bus' = bus
      /\ executed' = executed /\ config' = config /\ program' = program
      /\ awaiting[p] = "step" /\ main' = main
  BY DEF Answered, Resume, cpuVars, mainVars
<1>2. clk = "low" /\ DataPort' = DataPort
  BY <1>1, EdgeOrStep DEF DataPort
<1>3. CASE p # DataPort
  <2>1. Wrote' = Wrote
    BY <1>1, <1>2, <1>3 DEF Wrote
  <2>2. ~AnswerWrite(p)
    BY <1>3, AnswerWriteFacts
  <2>3. mem_access' = mem_access
    BY <2>2 DEF AnswerRead
  <2> QED
    BY <1>1, <2>1, <2>3, StoresKept
<1>4. CASE p = DataPort
  <2>1. Wrote = executed /\ Wrote' = IF bus[p].for = "access" THEN executed + 1 ELSE executed
    BY <1>1, <1>2, <1>4 DEF Wrote
  <2>2. SUFFICES ASSUME AlignedStores, ~config.BYTE_ALIGNED_MEMORY_ACCESS
                 PROVE  StoresUpTo(program.trace, mem_access', Wrote')
    <3>1. AlignedStores' <=> AlignedStores
      BY <1>1 DEF AlignedStores, Step
    <3> QED
      BY <1>1, <3>1 DEF StoresInv
  <2>0. PICK t : t = program.trace
    OBVIOUS
  <2>3. PICK ms \in Seq(Access), n \in Nat : t = program.trace /\ ms = mem_access /\ n = executed
    BY <2>0 DEF MemInv, MemTyped, BusInv, Counts
  <2>4. StoresUpTo(t, ms, n)
    BY <1>1, <2>1, <2>2, <2>3 DEF StoresInv
  <2>5. program \in Programs /\ config \in Configs /\ Asked(p, bus[p])
    BY DEF BusInv
  <2>6. CASE AnswerWrite(p)
    <3>1. /\ executed + 1 \in 1..Len(program.trace) /\ Step(executed + 1).instr.kind \in Stores
          /\ bus[p] = Accessing(executed + 1) /\ bus[p].for = "access" /\ raw_addr[p] = bus[p].addr
          /\ raw_addr[p] \in Nat
      BY <1>1, <2>6, WriteIsStore DEF AnswerWrite
    <3>2. PICK k \in 1..Len(program.trace) : k = n + 1
      BY <2>3, <3>1
    <3>3. Step(k).mem_addr % Width(Step(k).instr.kind) = 0
      BY <2>2, <2>3, <3>1, <3>2 DEF AlignedStores
    <3>4. bus[p].sel \in Strobes
      BY <2>3, <2>5, <3>1, <3>2, <3>3, StoreStrobe
    <3>5. PICK cell : Written(p) = Merged(cell, Accessing(k))
      BY <2>3, <3>1, <3>2, <3>4 DEF Written
    <3>6. Written(p) \in Word
      BY <2>6, AnswerWriteFacts
    <3>7. PICK x \in Access : x = [addr |-> raw_addr[p], val |-> Written(p)]
      BY <3>1, <3>6 DEF Access
    <3>8. x.addr = Accessing(k).addr /\ x.val = Merged(cell, Accessing(k))
      BY <2>3, <3>1, <3>2, <3>5, <3>7
    <3>9. Records(Step(k), x)
      BY <2>2, <2>3, <2>5, <3>1, <3>2, <3>3, <3>8, StoreRecorded
    <3>10. t[n + 1].instr.kind \in Stores /\ Records(t[n + 1], x)
      BY <2>3, <3>1, <3>2, <3>9 DEF Step
    <3>11. StoresUpTo(t, Append(ms, x), n + 1)
      BY <2>4, <3>10, StoresAdd
    <3>12. mem_access' = Append(ms, x)
      BY <2>3, <2>6, <3>7, AnswerWriteFacts
    <3> QED
      BY <2>1, <2>3, <3>1, <3>11, <3>12
  <2>7. CASE AnswerRead(p)
    <3>1. mem_access' = mem_access /\ ~bus[p].we
      BY <2>7 DEF AnswerRead
    <3>2. CASE bus[p].for = "access"
      <4>1. executed < fetched /\ Accesses(executed + 1) /\ bus[p] = Accessing(executed + 1)
        BY <2>5, <3>2 DEF Asked
      <4>2. executed + 1 \in 1..Len(program.trace)
        BY <2>5, <4>1, ProgramFacts DEF BusInv, Counts
      <4>3. Step(executed + 1).instr.kind \notin Stores
        BY <2>5, <3>1, <4>1, <4>2, AccessingIsRequest
      <4>4. t[n + 1].instr.kind \notin Stores
        BY <2>3, <4>3 DEF Step
      <4>5. StoresUpTo(t, ms, n + 1)
        BY <2>4, <4>4, StoresSkip
      <4> QED
        BY <2>1, <2>3, <3>1, <3>2, <4>5
    <3>3. CASE bus[p].for # "access"
      BY <2>1, <2>3, <2>4, <3>1, <3>3
    <3> QED
      BY <3>2, <3>3
  <2> QED
    BY <2>6, <2>7
<1> QED
  BY <1>3, <1>4

LEMMA StoresInvStep == IInv /\ BusInv /\ MemInv /\ MainHigh /\ StoresInv /\ [Next]_vars => StoresInv'
<1> SUFFICES ASSUME IInv, BusInv, MemInv, MainHigh, StoresInv, [Next]_vars PROVE StoresInv'
  OBVIOUS
<1>0. DataPort \in Ports /\ (config' = config => DataPort' = DataPort)
  BY DEF DataPort, Ports
<1>1. CASE RisingEdge
  <2>1. UNCHANGED <<config, program, mem_access, main>>
    BY <1>1 DEF RisingEdge, memVars, mainVars
  <2>2. /\ Wrote \in Nat /\ Wrote' = executed'
        /\ \/ executed' = Wrote
           \/ executed' = Wrote + 1 /\ ~Accesses(Wrote + 1)
    BY <1>1, ExecutedAtEdge
  <2>3. CASE executed' = Wrote
    BY <2>1, <2>2, <2>3, StoresKept
  <2>4. CASE executed' = Wrote + 1 /\ ~Accesses(Wrote + 1)
    <3>0. PICK t : t = program.trace
      OBVIOUS
    <3>1. PICK ms \in Seq(Access), n \in Nat : t = program.trace /\ ms = mem_access /\ n = Wrote
      BY <2>2, <3>0 DEF MemInv, MemTyped
    <3>2. t[n + 1].instr.kind \notin Stores
      BY <2>4, <3>1 DEF Accesses, Step
    <3>3. ASSUME AlignedStores, ~config.BYTE_ALIGNED_MEMORY_ACCESS, main # "failed"
          PROVE  StoresUpTo(program.trace, mem_access, Wrote')
      <4>1. StoresUpTo(t, ms, n)
        BY <3>1, <3>3 DEF StoresInv
      <4>2. StoresUpTo(t, ms, n + 1)
        BY <3>2, <4>1, StoresSkip
      <4> QED
        BY <2>2, <2>4, <3>1, <4>2
    <3>4. AlignedStores' <=> AlignedStores
      BY <2>1 DEF AlignedStores, Step
    <3> QED
      BY <2>1, <3>3, <3>4 DEF StoresInv
  <2> QED
    BY <2>2, <2>3, <2>4
<1>2. CASE FallingEdge
  <2>1. UNCHANGED <<config, program, mem_access, main, executed, bus>> /\ clk = "high" /\ due = {} /\ Running
    BY <1>2 DEF FallingEdge, memVars, mainVars, cpuVars
  <2>2. bus[DataPort].for = "access" => DataPort \in due'
    <3>1. ASSUME bus[DataPort].for = "access" PROVE DataPort \in due'
      <4>1. Asked(DataPort, bus[DataPort]) /\ Timing(DataPort)
        BY <1>0, <2>1 DEF BusInv, MemInv
      <4>2. bus[DataPort].cyc
        BY <3>1, <4>1 DEF Asked, Accessing
      <4>3. ~InstructionOnly(DataPort)
        BY DEF InstructionOnly, DataPort
      <4>4. awaiting[DataPort] = "step"
        BY <2>1, <4>1, <4>2, <4>3 DEF Timing, Serves
      <4>5. DataPort \in DOMAIN awaiting
        BY <1>0 DEF IInv, Shape
      <4> QED
        BY <1>2, <4>4, <4>5 DEF FallingEdge
    <3> QED
      BY <3>1
  <2>3. Wrote' = Wrote
    BY <1>0, <2>1, <2>2 DEF Wrote
  <2> QED
    BY <2>1, <2>3, StoresKept
<1>3. CASE Main
  <2>1. /\ UNCHANGED <<config, program, mem_access, executed, bus, clk>> /\ due' = due \ {"main"}
        /\ main # "failed"
    BY <1>3 DEF Main, WaitForReset, ReleaseReset, Collect, TimeOut, Resume, MainOnly, memVars, Running
  <2>2. DataPort # "main"
    BY <1>0, PortsAreNotMain
  <2>3. Wrote' = Wrote
    BY <1>0, <2>1, <2>2 DEF Wrote
  <2> QED
    BY <2>1, <2>3, StoresKept
<1>4. ASSUME NEW p \in Ports, MemoryModel(p) PROVE StoresInv'
  <2>1. /\ Running /\ p \in due /\ due' = due \ {p} /\ clk' = clk
        /\ config' = config /\ program' = program /\ bus' = bus /\ executed' = executed
    BY <1>4, MemoryModelFrame DEF cpuVars
  <2>2. CASE NoTransaction(p) \/ Transaction(p) \/ InstructionWrite(p)
    <3>1. awaiting[p] = "edge" /\ mem_access' = mem_access /\ main' = main
      BY <2>2 DEF NoTransaction, Transaction, InstructionWrite, Resume, mainVars
    <3>2. clk = "high"
      BY <2>1, <3>1, EdgeOrStep
    <3>3. Wrote' = Wrote
      BY <1>0, <2>1, <3>2 DEF Wrote
    <3> QED
      BY <2>1, <3>1, <3>3, StoresKept
  <2>3. CASE AnswerRaises(p)
    BY <2>3 DEF AnswerRaises, StoresInv
  <2>4. CASE AnswerRead(p) \/ AnswerWrite(p)
    <3>1. Answered(p) /\ main' = main
      BY <2>4 DEF AnswerRead, AnswerWrite, Answered, mainVars
    <3>2. main # "failed"
      BY <2>1 DEF Running
    <3> QED
      BY <2>4, <3>1, <3>2, AnswerStores
  <2> QED
    BY <1>4, <2>2, <2>3, <2>4 DEF MemoryModel
<1>5. CASE UNCHANGED vars
  <2>1. UNCHANGED <<config, program, mem_access, executed, bus, clk, due, main>>
    BY <1>5 DEF vars, simVars, memVars, mainVars, cpuVars
  <2>2. Wrote' = Wrote
    BY <1>0, <2>1 DEF Wrote
  <2> QED
    BY <2>1, <2>2, StoresKept
<1> QED
  BY <1>1, <1>2, <1>3, <1>4, <1>5 DEF Next

\* Steps whose fetch is recorded.  What is fetched under reset is recorded when reset
\* is released in the first half of the same cycle, which is when the processor sees
\* the answer.
Got ==
  IF clk = "low" /\ "core" \notin due /\ bus["core"].for = "fetch" /\ rst_n
  THEN fetched + 1 ELSE fetched

OfText(x) == x.pc \in DOMAIN program.text /\ x.instr = program.text[x.pc]
FetchesInv ==
  /\ Placeable => \A f \in 1..Len(fetches) : OfText(fetches[f])
  /\ main # "failed" => FetchesUpTo(program.trace, fetches, Got)

LEMMA InitFetchesInv == Init => FetchesInv
<1> SUFFICES ASSUME Init PROVE FetchesInv
  OBVIOUS
<1>1. fetches = << >> /\ fetched = 0 /\ rst_n = FALSE
  BY DEF Init
<1>2. Got = 0
  BY <1>1 DEF Got
<1> QED
  BY <1>1, <1>2, NoFetches DEF FetchesInv

LEMMA FetchesKept ==
  ASSUME FetchesInv, UNCHANGED <<program, fetches>>, Got' = Got,
         main' # "failed" => main # "failed"
  PROVE  FetchesInv'
<1>1. (Placeable' <=> Placeable) /\ \A x : OfText(x)' <=> OfText(x)
  BY DEF Placeable, Fits, Start, Place, OfText
<1>2. PICK fs : fs = fetches /\ fs = fetches'
  OBVIOUS
<1>3. (\A f \in 1..Len(fs) : OfText(fs[f]))' <=> \A f \in 1..Len(fs) : OfText(fs[f])
  BY <1>1 DEF OfText
<1> QED
  BY <1>1, <1>2, <1>3 DEF FetchesInv, OfText

\* What the processor has fetched at an edge is what the memory has answered.
LEMMA FetchedAtEdge ==
  ASSUME IInv, BusInv, RisingEdge
  PROVE  Got' = Got /\ fetched' = Got
<1>1. clk = "low" /\ due = {} /\ clk' = "high"
  BY DEF RisingEdge
<1>2. "core" \in Ports /\ Asked("core", bus["core"])
  BY DEF Ports, BusInv
<1>3. Got = IF bus["core"].for = "fetch" /\ rst_n THEN fetched + 1 ELSE fetched
  BY <1>1 DEF Got
<1>4. Got' = fetched'
  BY <1>1 DEF Got
<1>5. CASE ResetStep
  BY <1>3, <1>4, <1>5 DEF ResetStep
<1>6. CASE RunStep
  <2>1. Done("core", "fetch") <=> bus["core"].cyc /\ bus["core"].for = "fetch"
    BY <1>2, AllServed
  <2>2. bus["core"].for = "fetch" => bus["core"].cyc
    BY <1>2, FetchingShape DEF Asked
  <2> QED
    BY <1>3, <1>4, <1>6, <2>1, <2>2 DEF RunStep
<1> QED
  BY <1>5, <1>6 DEF RisingEdge

LEMMA AnswerFetches ==
  ASSUME NEW p \in Ports, IInv, BusInv, MemInv, ReplayInv, FetchesInv, AnswerRead(p)
  PROVE  FetchesInv'
<1>1. /\ Running /\ p \in due /\ due' = due \ {p} /\ clk' = clk /\ bus' = bus
      /\ fetched' = fetched /\ config' = config /\ program' = program
      /\ awaiting[p] = "step" /\ main' = main /\ rst_n' = rst_n /\ ~bus[p].we
  BY DEF AnswerRead, Answered, Resume, cpuVars, mainVars
<1>2. clk = "low" /\ main # "failed"
  BY <1>1, EdgeOrStep DEF Running
<1>3. CASE p # "core"
  <2>1. Got' = Got /\ fetches' = fetches
    BY <1>1, <1>2, <1>3 DEF Got, AnswerRead
  <2> QED
    BY <1>1, <2>1, FetchesKept
<1>4. CASE p = "core"
  <2>1. Got = fetched /\ Got' = IF bus["core"].for = "fetch" /\ rst_n THEN fetched + 1 ELSE fetched
    BY <1>1, <1>2, <1>4 DEF Got
  <2>0. PICK t : t = program.trace
    OBVIOUS
  <2>2. PICK fs \in Seq(Fetch), n \in Nat, a \in Nat :
          t = program.trace /\ fs = fetches /\ n = fetched /\ a = raw_addr["core"]
    BY <1>4, <2>0 DEF MemInv, MemTyped, BusInv, Counts, Fetch
  <2>3. program \in Programs /\ Asked("core", bus["core"]) /\ raw_addr["core"] = bus["core"].addr
    BY <1>1, <1>4 DEF BusInv, MemInv, Timing
  <2>4. FetchesUpTo(t, fs, n)
    BY <1>2, <2>1, <2>2 DEF FetchesInv
  <2>5. PICK x \in Fetch : x = [pc |-> a, instr |-> memory["core"][Simulated(a)]]
    <3>1. memory["core"][Simulated(a)] \in Cell
      BY <1>4, SimulatedIsPlace DEF MemInv, MemTyped
    <3> QED
      BY <3>1 DEF Fetch
  <2>6. fetches' = IF rst_n /\ a \in DOMAIN program.text THEN Append(fs, x) ELSE fs
    BY <1>4, <2>2, <2>5 DEF AnswerRead
  <2>7. bus["core"].for = "fetch" => a = t[n + 1].pc /\ a \in DOMAIN program.text
    <3> SUFFICES ASSUME bus["core"].for = "fetch" PROVE a = t[n + 1].pc /\ a \in DOMAIN program.text
      OBVIOUS
    <3>1. fetched < Len(program.trace) /\ bus["core"] = Fetching(Step(fetched + 1).pc, "fetch")
      BY <2>3 DEF Asked
    <3>2. fetched + 1 \in 1..Len(program.trace)
      BY <2>2, <2>3, <3>1, ProgramFacts
    <3>3. Step(fetched + 1).pc \in Nat /\ Step(fetched + 1).pc \in DOMAIN program.text
      BY <2>3, <3>2, AddressFacts
    <3>4. bus["core"].addr = Step(fetched + 1).pc
      BY <3>1, <3>3, FetchingIsRequest
    <3> QED
      BY <2>2, <2>3, <3>3, <3>4 DEF Step
  <2>8. FetchesUpTo(t, fetches', Got')
    <3>1. CASE rst_n /\ a \in DOMAIN program.text
      <4>1. fetches' = Append(fs, x)
        BY <2>6, <3>1
      <4>2. CASE bus["core"].for = "fetch"
        <5>1. x.pc = t[n + 1].pc /\ Got' = n + 1
          BY <2>1, <2>2, <2>5, <2>7, <3>1, <4>2
        <5>2. FetchesUpTo(t, Append(fs, x), n + 1)
          BY <2>4, <5>1, FetchesAdd
        <5> QED
          BY <4>1, <5>1, <5>2
      <4>3. CASE bus["core"].for # "fetch"
        <5>1. Got' = n
          BY <2>1, <2>2, <4>3
        <5>2. FetchesUpTo(t, Append(fs, x), n)
          BY <2>4, FetchesSkip
        <5> QED
          BY <4>1, <5>1, <5>2
      <4> QED
        BY <4>2, <4>3
    <3>2. CASE ~(rst_n /\ a \in DOMAIN program.text)
      <4>1. fetches' = fs /\ Got' = n
        BY <2>1, <2>2, <2>6, <2>7, <3>2
      <4> QED
        BY <2>4, <4>1
    <3> QED
      BY <3>1, <3>2
  <2>12. /\ Len(Append(fs, x)) = Len(fs) + 1 /\ Append(fs, x)[Len(fs) + 1] = x
         /\ \A g \in 1..Len(fs) : Append(fs, x)[g] = fs[g]
    OBVIOUS
  <2>9. ASSUME Placeable, NEW f \in 1..Len(fetches') PROVE OfText(fetches'[f])
    <3>1. \A g \in 1..Len(fs) : OfText(fs[g])
      BY <2>2, <2>9 DEF FetchesInv
    <3>2. CASE fetches' = fs
      BY <3>1, <3>2
    <3>3. CASE fetches' = Append(fs, x) /\ a \in DOMAIN program.text
      <4>1. TextThere
        BY <2>9 DEF ReplayInv
      <4>2. OfText(x)
        BY <2>5, <3>3, <4>1 DEF TextThere, OfText
      <4>3. PICK ns : ns = Append(fs, x) /\ ns = fetches'
        BY <3>3
      <4>4. Len(ns) = Len(fs) + 1 /\ ns[Len(fs) + 1] = x /\ \A g \in 1..Len(fs) : ns[g] = fs[g]
        BY <2>12, <4>3
      <4>5. f \in 1..Len(fs) \/ f = Len(fs) + 1
        BY <4>3, <4>4
      <4>6. ns[f] = x \/ (f \in 1..Len(fs) /\ ns[f] = fs[f])
        BY <4>4, <4>5
      <4> QED
        BY <3>1, <4>2, <4>3, <4>6
    <3> QED
      BY <2>6, <3>2, <3>3
  <2>10. (Placeable' <=> Placeable) /\ \A y : OfText(y)' <=> OfText(y)
    BY <1>1 DEF Placeable, Fits, Start, Place, OfText
  <2>11. (\A f \in 1..Len(fetches) : OfText(fetches[f]))' <=> \A f \in 1..Len(fetches') : OfText(fetches'[f])
    BY <1>1 DEF OfText
  <2> QED
    BY <1>1, <2>2, <2>8, <2>9, <2>10, <2>11 DEF FetchesInv
<1> QED
  BY <1>3, <1>4

LEMMA FetchesInvStep ==
  IInv /\ BusInv /\ MemInv /\ MainHigh /\ ReplayInv /\ FetchesInv /\ [Next]_vars => FetchesInv'
<1> SUFFICES ASSUME IInv, BusInv, MemInv, MainHigh, ReplayInv, FetchesInv, [Next]_vars
             PROVE  FetchesInv'
  OBVIOUS
<1>0. "core" \in Ports
  BY DEF Ports
<1>1. CASE RisingEdge
  BY <1>1, FetchedAtEdge, FetchesKept DEF RisingEdge, memVars, mainVars
<1>2. CASE FallingEdge
  <2>1. /\ UNCHANGED <<program, fetches, main, fetched, bus, rst_n>>
        /\ clk = "high" /\ due = {} /\ Running
    BY <1>2 DEF FallingEdge, memVars, mainVars, cpuVars
  <2>2. ASSUME bus["core"].for = "fetch" PROVE "core" \in due'
    <3>1. Asked("core", bus["core"]) /\ Timing("core")
      BY <1>0, <2>1 DEF BusInv, MemInv
    <3>2. fetched \in Nat /\ fetched < Len(program.trace) /\ program \in Programs /\ bus["core"] = Fetching(Step(fetched + 1).pc, "fetch")
      BY <2>2, <3>1 DEF Asked, BusInv, Counts
    <3>3. fetched + 1 \in 1..Len(program.trace)
      BY <3>2, ProgramFacts
    <3>4. bus["core"].cyc /\ ~bus["core"].we
      BY <3>2, <3>3, AddressFacts, FetchingIsRequest
    <3>5. awaiting["core"] = "step"
      BY <2>1, <3>1, <3>4 DEF Timing, Serves
    <3>6. "core" \in DOMAIN awaiting
      BY <1>0 DEF IInv, Shape
    <3> QED
      BY <1>2, <3>5, <3>6 DEF FallingEdge
  <2>3. Got' = Got
    BY <2>1, <2>2 DEF Got
  <2> QED
    BY <2>1, <2>3, FetchesKept
<1>3. CASE Main
  <2>1. /\ UNCHANGED <<program, fetches, fetched, bus, clk>> /\ due' = due \ {"main"}
        /\ main # "failed" /\ "main" \in due
    BY <1>3 DEF Main, WaitForReset, ReleaseReset, Collect, TimeOut, Resume, MainOnly, memVars, Running
  <2>2. clk = "high"
    BY <2>1 DEF MainHigh
  <2>3. Got' = Got
    BY <2>1, <2>2 DEF Got
  <2> QED
    BY <2>1, <2>3, FetchesKept
<1>4. ASSUME NEW p \in Ports, MemoryModel(p) PROVE FetchesInv'
  <2>1. /\ Running /\ p \in due /\ due' = due \ {p} /\ clk' = clk
        /\ config' = config /\ program' = program /\ bus' = bus /\ fetched' = fetched /\ rst_n' = rst_n
    BY <1>4, MemoryModelFrame DEF cpuVars
  <2>2. CASE NoTransaction(p) \/ Transaction(p) \/ InstructionWrite(p)
    <3>1. awaiting[p] = "edge" /\ fetches' = fetches /\ main' = main
      BY <2>2 DEF NoTransaction, Transaction, InstructionWrite, Resume, mainVars
    <3>2. clk = "high"
      BY <2>1, <3>1, EdgeOrStep
    <3>3. Got' = Got
      BY <2>1, <3>2 DEF Got
    <3> QED
      BY <2>1, <3>1, <3>3, FetchesKept
  <2>3. CASE AnswerWrite(p) \/ AnswerRaises(p)
    <3>1. bus[p].we /\ fetches' = fetches /\ main # "failed"
      BY <2>1, <2>3 DEF AnswerWrite, AnswerRaises, memVars, Running
    <3>2. Asked(p, bus[p])
      BY DEF BusInv
    <3>3. \A addr : ~Fetching(addr, "fetch").we
      BY DEF Fetching, NoRequest
    <3>4. bus[p].for # "fetch"
      BY <3>1, <3>2, <3>3 DEF Asked
    <3>5. Got' = Got
      BY <2>1, <3>4 DEF Got
    <3> QED
      BY <2>1, <3>1, <3>5, FetchesKept
  <2>4. CASE AnswerRead(p)
    BY <2>4, AnswerFetches
  <2> QED
    BY <1>4, <2>2, <2>3, <2>4 DEF MemoryModel
<1>5. CASE UNCHANGED vars
  <2>1. UNCHANGED <<program, fetches, fetched, bus, clk, due, main, rst_n>>
    BY <1>5 DEF vars, simVars, memVars, mainVars, cpuVars
  <2>2. Got' = Got
    BY <2>1 DEF Got
  <2> QED
    BY <2>1, <2>2, FetchesKept
<1> QED
  BY <1>1, <1>2, <1>3, <1>4, <1>5 DEF Next

-----------------------------------------------------------------------------
(* The fragment: its commits *)

\* The registers that the first n steps of t leave.
Golden(t, regs, n) == \A r \in Reg : ValueBefore(t, r, n + 1, regs[r])

LEMMA ValueUnique ==
  ASSUME NEW t \in Seq(Entry), NEW k, NEW r, NEW v, NEW w,
         ValueBefore(t, r, k, v), ValueBefore(t, r, k, w)
  PROVE  v = w
<1>1. PICK W : W = WritesBefore(t, r, k)
  OBVIOUS
<1>2. \A j \in W : j \in Nat
  BY <1>1 DEF WritesBefore
<1>3. /\ (W = {} /\ v = 0) \/ \E j \in W : (\A m \in W : m <= j) /\ t[j].reg_val = v
      /\ (W = {} /\ w = 0) \/ \E j \in W : (\A m \in W : m <= j) /\ t[j].reg_val = w
  BY <1>1 DEF ValueBefore
<1>4. CASE W = {}
  BY <1>3, <1>4
<1>5. CASE W # {}
  <2>1. PICK i \in W : (\A m \in W : m <= i) /\ t[i].reg_val = v
    BY <1>3, <1>5
  <2>2. PICK j \in W : (\A m \in W : m <= j) /\ t[j].reg_val = w
    BY <1>3, <1>5
  <2>3. i <= j /\ j <= i /\ i \in Nat /\ j \in Nat
    BY <1>2, <2>1, <2>2
  <2>4. i = j
    BY <2>3
  <2> QED
    BY <2>1, <2>2, <2>4
<1> QED
  BY <1>4, <1>5

LEMMA ValueUntouched ==
  ASSUME NEW t \in Seq(Entry), NEW m \in Nat, NEW k \in Nat, m < k, NEW r,
         \A j \in (m + 1)..(k - 1) : t[j].target_reg # r
  PROVE  \A v : ValueBefore(t, r, k, v) <=> ValueBefore(t, r, m + 1, v)
<1>1. PICK N \in Nat : N = Len(t)
  OBVIOUS
<1>2. \A j \in 1..N : j < k <=> j < m + 1 \/ j \in (m + 1)..(k - 1)
  OBVIOUS
<1>3. WritesBefore(t, r, k) = WritesBefore(t, r, m + 1)
  BY <1>1, <1>2 DEF WritesBefore
<1> QED
  BY <1>3 DEF ValueBefore

LEMMA ValueWritten ==
  ASSUME NEW t \in Seq(Entry), NEW n \in Nat, NEW k \in 1..n, n <= Len(t),
         \A j \in (k + 1)..n : t[j].target_reg # t[k].target_reg
  PROVE  ValueBefore(t, t[k].target_reg, n + 1, t[k].reg_val)
<1>1. PICK N \in Nat : N = Len(t) /\ n <= N
  OBVIOUS
<1>2. PICK r : r = t[k].target_reg
  OBVIOUS
<1>3. k \in WritesBefore(t, r, n + 1)
  BY <1>1, <1>2 DEF WritesBefore
<1>4. ASSUME NEW j \in WritesBefore(t, r, n + 1) PROVE j <= k
  <2>1. j \in 1..N /\ j <= n /\ t[j].target_reg = r
    BY <1>1 DEF WritesBefore
  <2>2. j \notin (k + 1)..n
    BY <1>2, <2>1
  <2> QED
    BY <2>1, <2>2
<1> QED
  BY <1>2, <1>3, <1>4 DEF ValueBefore

LEMMA GoldenRetire ==
  ASSUME NEW t \in Seq(Entry), NEW lo \in Nat, NEW hi \in Nat, lo <= hi, hi <= Len(t),
         NEW regs, NEW regs2, Golden(t, regs, lo),
         \A r \in Reg :
           LET W == {k \in (lo + 1)..hi : t[k].target_reg = r}
           IN  regs2[r] = IF W = {} THEN regs[r] ELSE t[Max(W)].reg_val
  PROVE  Golden(t, regs2, hi)
<1> SUFFICES ASSUME NEW r \in Reg PROVE ValueBefore(t, r, hi + 1, regs2[r])
  BY DEF Golden
<1>1. PICK W : W = {k \in (lo + 1)..hi : t[k].target_reg = r}
  OBVIOUS
<1>2. regs2[r] = IF W = {} THEN regs[r] ELSE t[Max(W)].reg_val
  BY <1>1
<1>3. CASE W = {}
  <2>1. \A j \in (lo + 1)..((hi + 1) - 1) : t[j].target_reg # r
    BY <1>1, <1>3
  <2>2. \A v : ValueBefore(t, r, hi + 1, v) <=> ValueBefore(t, r, lo + 1, v)
    BY <2>1, ValueUntouched
  <2> QED
    BY <1>2, <1>3, <2>2 DEF Golden
<1>4. CASE W # {}
  <2>1. W \in SUBSET Nat /\ \A k \in W : k <= hi
    BY <1>1
  <2>2. PICK k : k = Max(W)
    OBVIOUS
  <2>3. k \in W /\ \A j \in W : j <= k
    BY <1>4, <2>1, <2>2, MaxOf
  <2>4. k \in 1..hi /\ k \in (lo + 1)..hi /\ t[k].target_reg = r
    BY <1>1, <2>3
  <2>5. ASSUME NEW j \in (k + 1)..hi PROVE t[j].target_reg # t[k].target_reg
    <3>1. j \in (lo + 1)..hi /\ ~(j <= k)
      BY <2>4
    <3> QED
      BY <1>1, <2>3, <2>4, <3>1
  <2>6. ValueBefore(t, t[k].target_reg, hi + 1, t[k].reg_val)
    BY <2>4, <2>5, ValueWritten
  <2> QED
    BY <1>2, <1>4, <2>2, <2>4, <2>6
<1> QED
  BY <1>3, <1>4

\* The commits cs are the writes among the first n steps of t that change a register.
CommitsOver(t, cs, n, of) ==
  /\ of \in [1..Len(cs) -> 1..n]
  /\ \A k \in 1..n : k \in ChangingWrites(t) <=> \E j \in 1..Len(cs) : of[j] = k
  /\ \A j \in 1..Len(cs) : cs[j] = [reg |-> t[of[j]].target_reg, val |-> t[of[j]].reg_val]
  /\ \A i, j \in 1..Len(cs) :
       i < j => of[i] < of[j] \/ (j = i + 1 /\ SameCycle(t, of[j], of[i]))
CommitsUpTo(t, cs, n) == \E of : CommitsOver(t, cs, n, of)

LEMMA NoCommits == \A t : CommitsUpTo(t, << >>, 0)
<1> SUFFICES ASSUME NEW t PROVE CommitsUpTo(t, << >>, 0)
  OBVIOUS
<1>1. PICK of : of = [j \in 1..0 |-> 0]
  OBVIOUS
<1>2. 1..Len(<< >>) = {} /\ 1..0 = {}
  OBVIOUS
<1>3. of \in [1..Len(<< >>) -> 1..0]
  BY <1>1, <1>2
<1>4. CommitsOver(t, << >>, 0, of)
  BY <1>2, <1>3 DEF CommitsOver
<1> QED
  BY <1>4 DEF CommitsUpTo

LEMMA CommitsSkip ==
  ASSUME NEW t, NEW cs \in Seq(Write), NEW n \in Nat,
         CommitsUpTo(t, cs, n), n + 1 \notin ChangingWrites(t)
  PROVE  CommitsUpTo(t, cs, n + 1)
<1>1. PICK of : CommitsOver(t, cs, n, of)
  BY DEF CommitsUpTo
<1>2. PICK N \in Nat : N = Len(cs)
  OBVIOUS
<1>3. of \in [1..N -> 1..n] /\ 1..n \subseteq 1..(n + 1) /\ \A k \in 1..(n + 1) : k \in 1..n \/ k = n + 1
  BY <1>1, <1>2 DEF CommitsOver
<1>4. of \in [1..N -> 1..(n + 1)] /\ \A j \in 1..N : of[j] # n + 1
  BY <1>3
<1>5. CommitsOver(t, cs, n + 1, of)
  BY <1>1, <1>2, <1>3, <1>4 DEF CommitsOver
<1> QED
  BY <1>5 DEF CommitsUpTo

\* What a look at the registers adds: the writes of the steps m + 1 to n.
Adds(t, s, m, n, w) ==
  /\ w \in [1..Len(s) -> (m + 1)..n]
  /\ \A k \in (m + 1)..n : k \in ChangingWrites(t) <=> \E j \in 1..Len(s) : w[j] = k
  /\ \A j \in 1..Len(s) : s[j] = [reg |-> t[w[j]].target_reg, val |-> t[w[j]].reg_val]
  /\ \A i, j \in 1..Len(s) :
       i < j => w[i] < w[j] \/ (j = i + 1 /\ SameCycle(t, w[j], w[i]))

LEMMA CommitsJoin ==
  ASSUME NEW t, NEW cs \in Seq(Write), NEW s \in Seq(Write), NEW m \in Nat, NEW n \in Nat,
         m <= n, CommitsUpTo(t, cs, m), NEW w, Adds(t, s, m, n, w)
  PROVE  CommitsUpTo(t, cs \o s, n)
<1>1. PICK of : CommitsOver(t, cs, m, of)
  BY DEF CommitsUpTo
<1>2. PICK N \in Nat, q \in Nat : N = Len(cs) /\ q = Len(s)
  OBVIOUS
<1>3. PICK ns : ns = cs \o s
  OBVIOUS
<1>4. /\ Len(ns) = N + q /\ \A j \in 1..N : ns[j] = cs[j]
      /\ \A j \in (N + 1)..(N + q) : ns[j] = s[j - N]
  BY <1>2, <1>3
<1>5. /\ of \in [1..N -> 1..m]
      /\ \A k \in 1..m : k \in ChangingWrites(t) <=> \E j \in 1..N : of[j] = k
      /\ \A j \in 1..N : cs[j] = [reg |-> t[of[j]].target_reg, val |-> t[of[j]].reg_val]
      /\ \A i, j \in 1..N : i < j => of[i] < of[j] \/ (j = i + 1 /\ SameCycle(t, of[j], of[i]))
  BY <1>1, <1>2 DEF CommitsOver
<1>6. /\ w \in [1..q -> (m + 1)..n]
      /\ \A k \in (m + 1)..n : k \in ChangingWrites(t) <=> \E j \in 1..q : w[j] = k
      /\ \A j \in 1..q : s[j] = [reg |-> t[w[j]].target_reg, val |-> t[w[j]].reg_val]
      /\ \A i, j \in 1..q : i < j => w[i] < w[j] \/ (j = i + 1 /\ SameCycle(t, w[j], w[i]))
  BY <1>2 DEF Adds
<1>7. PICK o : o = [j \in 1..(N + q) |-> IF j \in 1..N THEN of[j] ELSE w[j - N]]
  OBVIOUS
<1>8. \A j \in 1..(N + q) : j \in 1..N \/ (j \in (N + 1)..(N + q) /\ j \notin 1..N /\ j - N \in 1..q)
  OBVIOUS
<1>9. /\ \A j \in 1..N : j \in 1..(N + q) /\ o[j] = of[j] /\ o[j] \in 1..m
      /\ \A j \in (N + 1)..(N + q) : j \in 1..(N + q) /\ o[j] = w[j - N] /\ j - N \in 1..q /\ o[j] \in (m + 1)..n
  BY <1>5, <1>6, <1>7
<1>10. o \in [1..(N + q) -> 1..n]
  <2>1. \A j \in 1..(N + q) : o[j] \in 1..n
    BY <1>8, <1>9
  <2> QED
    BY <1>7, <2>1
<1>11. ASSUME NEW k \in 1..n
       PROVE  k \in ChangingWrites(t) <=> \E j \in 1..(N + q) : o[j] = k
  <2>1. CASE k \in 1..m
    <3>1. (\E j \in 1..(N + q) : o[j] = k) <=> \E j \in 1..N : of[j] = k
      <4>1. \A j \in (N + 1)..(N + q) : o[j] # k
        BY <1>9, <2>1
      <4> QED
        BY <1>8, <1>9, <4>1
    <3> QED
      BY <1>5, <2>1, <3>1
  <2>2. CASE k \in (m + 1)..n
    <3>1. ASSUME NEW j \in 1..(N + q), o[j] = k PROVE \E i \in 1..q : w[i] = k
      <4>1. j \in (N + 1)..(N + q)
        BY <1>8, <1>9, <2>2, <3>1
      <4> QED
        BY <1>9, <3>1, <4>1
    <3>2. ASSUME NEW i \in 1..q, w[i] = k PROVE \E j \in 1..(N + q) : o[j] = k
      <4>1. PICK j \in (N + 1)..(N + q) : j = N + i
        OBVIOUS
      <4>2. j - N = i
        BY <4>1
      <4> QED
        BY <1>9, <3>2, <4>1, <4>2
    <3> QED
      BY <1>6, <2>2, <3>1, <3>2
  <2>3. k \in 1..m \/ k \in (m + 1)..n
    OBVIOUS
  <2> QED
    BY <2>1, <2>2, <2>3
<1>12. ASSUME NEW j \in 1..(N + q)
       PROVE  ns[j] = [reg |-> t[o[j]].target_reg, val |-> t[o[j]].reg_val]
  <2>1. CASE j \in 1..N
    BY <1>4, <1>5, <1>9, <2>1
  <2>2. CASE j \in (N + 1)..(N + q)
    <3>1. PICK i \in 1..q : i = j - N
      BY <1>9, <2>2
    <3>2. ns[j] = s[i] /\ o[j] = w[i]
      BY <1>4, <1>9, <2>2, <3>1
    <3>3. s[i] = [reg |-> t[w[i]].target_reg, val |-> t[w[i]].reg_val]
      BY <1>6
    <3> QED
      BY <3>2, <3>3
  <2> QED
    BY <1>8, <2>1, <2>2
<1>13. ASSUME NEW i \in 1..(N + q), NEW j \in 1..(N + q), i < j
       PROVE  o[i] < o[j] \/ (j = i + 1 /\ SameCycle(t, o[j], o[i]))
  <2>1. CASE j \in 1..N
    <3>1. i \in 1..N
      BY <1>13, <2>1
    <3> QED
      BY <1>5, <1>9, <1>13, <2>1, <3>1
  <2>2. CASE i \in 1..N /\ j \in (N + 1)..(N + q)
    <3>1. o[i] \in 1..m /\ o[j] \in (m + 1)..n
      BY <1>9, <2>2
    <3> QED
      BY <3>1
  <2>3. CASE i \in (N + 1)..(N + q) /\ j \in (N + 1)..(N + q)
    <3>1. PICK a \in 1..q, b \in 1..q : a = i - N /\ b = j - N
      BY <1>9, <2>3
    <3>2. o[i] = w[a] /\ o[j] = w[b] /\ a < b /\ (b = a + 1 => j = i + 1)
      BY <1>9, <1>13, <2>3, <3>1
    <3> QED
      BY <1>6, <3>2
  <2> QED
    BY <1>8, <2>1, <2>2, <2>3
<1>14. CommitsOver(t, ns, n, o)
  BY <1>4, <1>10, <1>11, <1>12, <1>13 DEF CommitsOver
<1> QED
  BY <1>3, <1>14 DEF CommitsUpTo

\* Steps m + 1 to n retire in one cycle: one step, or two of which the first writes no
\* register or another one than the second.
Together(t, m, n) ==
  /\ m <= n /\ n <= m + 2 /\ n <= Len(t)
  /\ n = m + 2 => t[m + 1].target_reg = None \/ SameCycle(t, m + 1, m + 2)

\* The writes that one look at the registers can have to tell: each register is
\* written once, and holds what was written.
Told(t, m, n, old, regs) ==
  /\ \A j, k \in (m + 1)..n : t[k].target_reg # None /\ j < k => t[j].target_reg # t[k].target_reg
  /\ \A k \in (m + 1)..n : t[k].target_reg # None =>
       /\ t[k].target_reg \in Reg \ {0}
       /\ regs[t[k].target_reg] = t[k].reg_val
       /\ k \in ChangingWrites(t) <=> old[t[k].target_reg] # t[k].reg_val
  /\ \A r \in Reg : (\A k \in (m + 1)..n : t[k].target_reg # r) => regs[r] = old[r]

LEMMA OneLook ==
  ASSUME NEW t \in Seq(Entry), \A k \in 1..Len(t) : LoggedBySpike(t[k]),
         NEW m \in Nat, NEW n \in Nat, Together(t, m, n),
         NEW old \in [Reg -> Value], NEW regs \in [Reg -> Value],
         Golden(t, old, m), Golden(t, regs, n)
  PROVE  Told(t, m, n, old, regs)
<1>0. PICK N \in Nat : N = Len(t) /\ n <= N /\ m <= n /\ n <= m + 2
  BY DEF Together
<1>1. ASSUME NEW j \in (m + 1)..n, NEW k \in (m + 1)..n, t[k].target_reg # None, j < k
      PROVE  t[j].target_reg # t[k].target_reg
  <2>1. j = m + 1 /\ k = m + 2 /\ n = m + 2
    BY <1>0, <1>1
  <2> QED
    BY <1>1, <2>1 DEF Together, SameCycle
<1>2. ASSUME NEW k \in (m + 1)..n, t[k].target_reg # None
      PROVE  /\ t[k].target_reg \in Reg \ {0}
             /\ regs[t[k].target_reg] = t[k].reg_val
             /\ k \in ChangingWrites(t) <=> old[t[k].target_reg] # t[k].reg_val
  <2>1. k \in 1..N /\ k \in 1..n /\ k \in Nat /\ m < k
    BY <1>0
  <2>2. t[k] \in Entry /\ LoggedBySpike(t[k])
    BY <1>0, <2>1
  <2>3. PICK r \in Reg : r = t[k].target_reg /\ r # 0
    BY <1>2, <2>2 DEF Entry, LoggedBySpike
  <2>4. ASSUME NEW j \in (k + 1)..n PROVE t[j].target_reg # t[k].target_reg
    <3>1. j \in (m + 1)..n /\ k < j
      BY <2>1
    <3>2. CASE t[j].target_reg # None
      BY <1>1, <3>1, <3>2
    <3>3. CASE t[j].target_reg = None
      BY <1>2, <3>3
    <3> QED
      BY <3>2, <3>3
  <2>5. ValueBefore(t, r, n + 1, t[k].reg_val)
    BY <1>0, <2>1, <2>3, <2>4, ValueWritten
  <2>6. regs[r] = t[k].reg_val
    <3>1. ValueBefore(t, r, n + 1, regs[r])
      BY DEF Golden
    <3> QED
      BY <2>5, <3>1, ValueUnique
  <2>7. \A j \in (m + 1)..(k - 1) : t[j].target_reg # r
    BY <1>1, <1>2, <2>1, <2>3
  <2>8. \A v : ValueBefore(t, r, k, v) <=> ValueBefore(t, r, m + 1, v)
    BY <2>1, <2>7, ValueUntouched
  <2>9. ValueBefore(t, r, m + 1, old[r])
    BY DEF Golden
  <2>10. \A v : ValueBefore(t, r, k, v) <=> v = old[r]
    BY <2>8, <2>9, ValueUnique
  <2>11. k \in ChangingWrites(t) <=> ~ValueBefore(t, r, k, t[k].reg_val)
    BY <1>0, <1>2, <2>1, <2>3 DEF ChangingWrites
  <2> QED
    BY <2>3, <2>6, <2>10, <2>11
<1>3. ASSUME NEW r \in Reg, \A k \in (m + 1)..n : t[k].target_reg # r
      PROVE  regs[r] = old[r]
  <2>1. \A j \in (m + 1)..((n + 1) - 1) : t[j].target_reg # r
    BY <1>3
  <2>2. \A v : ValueBefore(t, r, n + 1, v) <=> ValueBefore(t, r, m + 1, v)
    BY <1>0, <2>1, ValueUntouched
  <2>3. ValueBefore(t, r, m + 1, old[r]) /\ ValueBefore(t, r, n + 1, regs[r])
    BY DEF Golden
  <2> QED
    BY <2>2, <2>3, ValueUnique
<1> QED
  BY <1>1, <1>2, <1>3 DEF Told

\* A look tells all of them, though by register number.
Tells(s, old, regs, q, c) ==
  /\ q \in Nat
  /\ c \in [1..q -> {r \in Reg \ {0} : regs[r] # old[r]}]
  /\ s = [k \in 1..q |-> [reg |-> c[k], val |-> regs[c[k]]]]
  /\ \A i, j \in 1..q : i < j => c[i] < c[j]
  /\ \A r \in {r \in Reg \ {0} : regs[r] # old[r]} : \E k \in 1..q : c[k] = r

LEMMA LookAdds ==
  ASSUME NEW t \in Seq(Entry), \A k \in 1..Len(t) : LoggedBySpike(t[k]),
         NEW m \in Nat, NEW n \in Nat, Together(t, m, n),
         NEW old \in [Reg -> Value], NEW regs \in [Reg -> Value],
         Golden(t, old, m), Golden(t, regs, n),
         NEW s, NEW q, NEW c, Tells(s, old, regs, q, c)
  PROVE  \E w : Adds(t, s, m, n, w)
<1>0. m <= n /\ n <= m + 2
  BY DEF Together
<1>1. PICK C : C = {r \in Reg \ {0} : regs[r] # old[r]}
  OBVIOUS
<1>2. /\ q \in Nat /\ c \in [1..q -> C]
      /\ s = [k \in 1..q |-> [reg |-> c[k], val |-> regs[c[k]]]]
      /\ \A i, j \in 1..q : i < j => c[i] < c[j]
      /\ \A r \in C : \E k \in 1..q : c[k] = r
  BY <1>1 DEF Tells
<1>3. /\ \A j, k \in (m + 1)..n : t[k].target_reg # None /\ j < k => t[j].target_reg # t[k].target_reg
      /\ \A k \in (m + 1)..n : t[k].target_reg # None =>
           /\ t[k].target_reg \in Reg \ {0}
           /\ regs[t[k].target_reg] = t[k].reg_val
           /\ k \in ChangingWrites(t) <=> old[t[k].target_reg] # t[k].reg_val
      /\ \A r \in Reg : (\A k \in (m + 1)..n : t[k].target_reg # r) => regs[r] = old[r]
  <2>1. Told(t, m, n, old, regs)
    BY OneLook
  <2> QED
    BY <2>1 DEF Told
<1>4. None \notin C /\ C \subseteq Reg /\ C \subseteq Nat
  <2>1. None \notin Reg
    BY NoneAssumption, RegAssumption
  <2> QED
    BY <1>1, <2>1, RegAssumption
<1>5. \A k \in (m + 1)..n : k \in ChangingWrites(t) <=> t[k].target_reg \in C
  <2> SUFFICES ASSUME NEW k \in (m + 1)..n
               PROVE  k \in ChangingWrites(t) <=> t[k].target_reg \in C
    OBVIOUS
  <2>1. CASE t[k].target_reg = None
    BY <1>4, <2>1 DEF ChangingWrites
  <2>2. CASE t[k].target_reg # None
    BY <1>1, <1>3, <2>2
  <2> QED
    BY <2>1, <2>2
<1>6. \A i \in 1..q : \E k \in (m + 1)..n : t[k].target_reg = c[i]
  <2> SUFFICES ASSUME NEW i \in 1..q PROVE \E k \in (m + 1)..n : t[k].target_reg = c[i]
    OBVIOUS
  <2>1. c[i] \in Reg /\ regs[c[i]] # old[c[i]]
    BY <1>1, <1>2
  <2> QED
    BY <1>3, <2>1
<1>7. PICK w : w = [i \in 1..q |-> CHOOSE k \in (m + 1)..n : t[k].target_reg = c[i]]
  OBVIOUS
<1>8. \A i \in 1..q : w[i] \in (m + 1)..n /\ t[w[i]].target_reg = c[i]
  BY <1>6, <1>7
<1>9. \A i \in 1..q : c[i] \in C /\ c[i] # None /\ c[i] \in Nat
  BY <1>2, <1>4
<1>10. \A i, j \in 1..q : i # j => c[i] # c[j] /\ w[i] # w[j]
  <2> SUFFICES ASSUME NEW i \in 1..q, NEW j \in 1..q, i # j PROVE c[i] # c[j]
    BY <1>8
  <2>1. i < j \/ j < i
    OBVIOUS
  <2> QED
    BY <1>2, <1>9, <2>1
<1>11. q = Len(s)
  BY <1>2
<1>12. w \in [1..q -> (m + 1)..n]
  BY <1>7, <1>8
<1>13. ASSUME NEW k \in (m + 1)..n PROVE k \in ChangingWrites(t) <=> \E j \in 1..q : w[j] = k
  <2>1. ASSUME NEW j \in 1..q, w[j] = k PROVE k \in ChangingWrites(t)
    BY <1>5, <1>8, <1>9, <2>1
  <2>2. ASSUME k \in ChangingWrites(t) PROVE \E j \in 1..q : w[j] = k
    <3>1. t[k].target_reg \in C
      BY <1>5, <2>2
    <3>2. PICK j \in 1..q : c[j] = t[k].target_reg
      BY <1>2, <3>1
    <3>3. w[j] \in (m + 1)..n /\ t[w[j]].target_reg = t[k].target_reg /\ t[k].target_reg # None
      BY <1>8, <1>9, <3>2
    <3>4. ~(w[j] < k) /\ ~(k < w[j])
      BY <1>3, <3>3
    <3>5. w[j] = k
      BY <3>3, <3>4
    <3> QED
      BY <3>5
  <2> QED
    BY <2>1, <2>2
<1>14. ASSUME NEW j \in 1..q
       PROVE  s[j] = [reg |-> t[w[j]].target_reg, val |-> t[w[j]].reg_val]
  <2>1. s[j] = [reg |-> c[j], val |-> regs[c[j]]]
    BY <1>2
  <2>2. regs[c[j]] = t[w[j]].reg_val
    BY <1>3, <1>8, <1>9
  <2> QED
    BY <1>8, <2>1, <2>2
<1>15. ASSUME NEW i \in 1..q, NEW j \in 1..q, i < j
       PROVE  w[i] < w[j] \/ (j = i + 1 /\ SameCycle(t, w[j], w[i]))
  <2>1. w[i] # w[j] /\ w[i] \in (m + 1)..n /\ w[j] \in (m + 1)..n
    BY <1>8, <1>10, <1>15
  <2>2. SUFFICES ASSUME w[j] < w[i] PROVE j = i + 1 /\ SameCycle(t, w[j], w[i])
    BY <2>1
  <2>3. w[j] = m + 1 /\ w[i] = m + 2 /\ n = m + 2
    BY <1>0, <2>1, <2>2
  <2>4. t[m + 1].target_reg # None
    BY <1>8, <1>9, <2>3
  <2>5. SameCycle(t, m + 1, m + 2)
    BY <2>3, <2>4 DEF Together
  <2>6. j = i + 1
    <3> SUFFICES ASSUME j # i + 1 PROVE FALSE
      OBVIOUS
    <3>1. i + 1 \in 1..q /\ i + 1 # i /\ i + 1 # j
      BY <1>2, <1>15
    <3>2. w[i + 1] \in (m + 1)..n /\ w[i + 1] # w[i] /\ w[i + 1] # w[j]
      BY <1>8, <1>10, <3>1
    <3> QED
      BY <2>3, <3>2
  <2> QED
    BY <2>3, <2>5, <2>6
<1>16. Adds(t, s, m, n, w)
  BY <1>11, <1>12, <1>13, <1>14, <1>15 DEF Adds
<1> QED
  BY <1>16

LEMMA LookUpTo ==
  ASSUME NEW t \in Seq(Entry), \A k \in 1..Len(t) : LoggedBySpike(t[k]),
         NEW m \in Nat, NEW n \in Nat, Together(t, m, n),
         NEW old \in [Reg -> Value], NEW regs \in [Reg -> Value],
         Golden(t, old, m), Golden(t, regs, n),
         NEW cs \in Seq(Write), NEW s \in Seq(Write), CommitsUpTo(t, cs, m),
         NEW q, NEW c, Tells(s, old, regs, q, c)
  PROVE  CommitsUpTo(t, cs \o s, n)
<1>1. PICK w : Adds(t, s, m, n, w)
  BY LookAdds
<1>2. m <= n
  BY DEF Together
<1> QED
  BY <1>1, <1>2, CommitsJoin

\* The register file is that of the retired steps.  The commits and the registers seen
\* last are those of the steps up to m, all of them between an edge's look and the next
\* edge; in between at most the steps that retired together at this edge are missing.
Behind(m) ==
  /\ m \in Nat /\ Together(program.trace, m, retired)
  /\ CommitsUpTo(program.trace, regfile_commits, m)
  /\ main # "stopped" => Golden(program.trace, old_regfile, m)
  /\ (Running /\ "main" \notin due) \/ main = "stopped" => m = retired

TwoAtMost ==
  config.REGFILE_ARRAY_AVAILABLE /\ ZeroAtReset /\ RetireWidth <= 2 /\ ~blurred
LookInv ==
  TwoAtMost => /\ Golden(program.trace, reg_file, retired)
               /\ \E m \in Nat : Behind(m)

LEMMA TogetherSame ==
  ASSUME NEW t, NEW n \in Nat, n <= Len(t)
  PROVE  Together(t, n, n)
BY DEF Together

LEMMA InitLookInv == Init => LookInv
<1> SUFFICES ASSUME Init, TwoAtMost PROVE Golden(program.trace, reg_file, retired) /\ Behind(0)
  BY DEF LookInv
<1>1. /\ program \in Programs /\ reg_file = program.regs /\ old_regfile = reg_file
      /\ regfile_commits = << >> /\ retired = 0
  BY DEF Init, TwoAtMost
<1>2. ASSUME NEW r \in Reg PROVE ValueBefore(program.trace, r, 0 + 1, program.regs[r])
  <2>1. program.regs[r] = 0
    BY DEF TwoAtMost, ZeroAtReset
  <2>2. WritesBefore(program.trace, r, 0 + 1) = {}
    <3>1. Len(program.trace) \in Nat
      BY <1>1, ProgramFacts
    <3>2. \A j \in 1..Len(program.trace) : ~(j < 0 + 1)
      BY <3>1
    <3> QED
      BY <3>2 DEF WritesBefore
  <2> QED
    BY <2>1, <2>2 DEF ValueBefore
<1>3. Golden(program.trace, program.regs, 0)
  BY <1>2 DEF Golden
<1>4. Together(program.trace, 0, 0)
  BY <1>1, ProgramFacts, TogetherSame
<1>5. CommitsUpTo(program.trace, << >>, 0)
  BY NoCommits
<1> QED
  BY <1>1, <1>3, <1>4, <1>5 DEF Behind

LEMMA LookKept ==
  ASSUME LookInv, UNCHANGED <<config, program, regfile_commits, old_regfile, reg_file, retired, blurred>>,
         main' = "stopped" <=> main = "stopped",
         Running' /\ "main" \notin due' => Running /\ "main" \notin due
  PROVE  LookInv'
<1>1. TwoAtMost' <=> TwoAtMost
  BY DEF TwoAtMost, ZeroAtReset
<1>2. ASSUME NEW m \in Nat, Behind(m) PROVE Behind(m)'
  BY <1>2 DEF Behind
<1> QED
  BY <1>1, <1>2 DEF LookInv

\* Retiring keeps the register file the golden one.
LEMMA RetireGolden ==
  ASSUME BusInv, TwoAtMost, NEW to \in retired..executed, Retire(to),
         Golden(program.trace, reg_file, retired)
  PROVE  Golden(program.trace, reg_file', to)
<1>1. PICK t \in Seq(Entry) : t = program.trace
  BY ProgramFacts DEF BusInv
<1>2. PICK lo \in Nat, hi \in Nat : lo = retired /\ hi = to
  BY DEF BusInv, Counts
<1>3. lo <= hi /\ hi <= Len(t)
  BY <1>1, <1>2, ProgramFacts DEF BusInv, Counts
<1>4. PICK regs : regs = reg_file'
  OBVIOUS
<1>5. regs = [r \in Reg |-> IF {k \in (lo + 1)..hi : t[k].target_reg = r} = {} THEN reg_file[r]
                            ELSE t[Max({k \in (lo + 1)..hi : t[k].target_reg = r})].reg_val]
  BY <1>1, <1>2, <1>4 DEF Retire, TwoAtMost, Step
<1>6. Golden(t, reg_file, lo)
  BY <1>1, <1>2
<1>7. \A r \in Reg :
        LET W == {k \in (lo + 1)..hi : t[k].target_reg = r}
        IN  regs[r] = IF W = {} THEN reg_file[r] ELSE t[Max(W)].reg_val
  BY <1>5
<1>8. PICK old : old = reg_file
  OBVIOUS
<1>9. Golden(t, regs, hi)
  BY <1>3, <1>6, <1>7, GoldenRetire
<1> QED
  BY <1>1, <1>2, <1>4, <1>9

LEMMA EdgeLooks ==
  ASSUME IInv, BusInv, LookInv, RisingEdge
  PROVE  LookInv'
<1>0. /\ UNCHANGED <<config, program, regfile_commits, old_regfile, main>> /\ Running
      /\ "main" \notin due
  BY DEF RisingEdge, mainVars
<1>1. CASE ResetStep
  BY <1>0, <1>1, LookKept DEF ResetStep, Running
<1>2. CASE RunStep
  <2>0. PICK to \in retired..executed :
          /\ MayRetire(retired + 1, to) /\ Retire(to)
          /\ blurred' = (blurred \/ Blurs(retired + 1, to))
    BY <1>2 DEF RunStep
  <2>1. TwoAtMost' => TwoAtMost /\ ~Blurs(retired + 1, to)
    BY <1>0, <2>0 DEF TwoAtMost, ZeroAtReset
  <2>2. SUFFICES ASSUME TwoAtMost, ~Blurs(retired + 1, to)
                 PROVE  Golden(program.trace, reg_file', retired') /\ \E m \in Nat : Behind(m)'
    BY <1>0, <2>1 DEF LookInv
  <2>3. MayRetire(retired + 1, to) /\ Retire(to)
    BY <2>0
  <2>4. Golden(program.trace, reg_file, retired)
    BY <2>2 DEF LookInv
  <2>5. Golden(program.trace, reg_file', to) /\ retired' = to
    BY <2>2, <2>3, <2>4, RetireGolden DEF Retire
  <2>6. PICK m \in Nat : Behind(m)
    BY <2>2 DEF LookInv
  <2>7. m = retired
    BY <1>0, <2>6 DEF Behind
  <2>8. Together(program.trace, m, to)
    <3>1. PICK n \in Nat : n = to
      BY <2>3 DEF BusInv, Counts
    <3>2. m <= n /\ n <= Len(program.trace)
      BY <2>3, <2>7, <3>1, ProgramFacts DEF BusInv, Counts
    <3>3. CASE n <= m + 1
      BY <3>1, <3>2, <3>3 DEF Together
    <3>4. CASE ~(n <= m + 1)
      <4>1. /\ n - (m + 1) < RetireWidth
            /\ \A k \in (m + 1)..(n - 1) : \/ Step(k).target_reg = None
                                           \/ SameCycle(program.trace, k, k + 1)
        BY <2>2, <2>3, <2>7, <3>1, <3>4 DEF MayRetire, Blurs
      <4>2. n = m + 2
        BY <2>2, <3>4, <4>1, SizesAssumption DEF TwoAtMost
      <4>3. m + 1 \in (m + 1)..(n - 1) /\ (m + 1) + 1 = m + 2
        BY <4>2
      <4>4. Step(m + 1).target_reg = None \/ SameCycle(program.trace, m + 1, m + 2)
        BY <4>1, <4>3
      <4> QED
        BY <3>1, <3>2, <4>2, <4>4 DEF Together, Step
    <3> QED
      BY <3>3, <3>4
  <2>9. Behind(m)'
    <3>1. "main" \in due' /\ main' # "stopped"
      BY <1>0 DEF RisingEdge, Running, IInv, Shape
    <3>2. CommitsUpTo(program.trace, regfile_commits, m) /\ Golden(program.trace, old_regfile, m)
      BY <1>0, <2>6, <3>1 DEF Behind
    <3> QED
      BY <1>0, <2>5, <2>8, <3>1, <3>2 DEF Behind
  <2> QED
    BY <2>5, <2>9
<1> QED
  BY <1>1, <1>2 DEF RisingEdge

LEMMA MainLooks ==
  ASSUME BusInv, RegTyped, CommitsInv, LookInv, ReleaseReset \/ Collect
  PROVE  LookInv'
<1>1. PICK old : /\ regfile_commits' = regfile_commits \o Seen(old) /\ reg_file' = RegFile
                 /\ \/ main' = "stopped"
                    \/ main' = "loop" /\ old_regfile' = RegFile
                 /\ old = old_regfile /\ main # "stopped" /\ retired' = retired
                 /\ config' = config /\ program' = program /\ blurred' = blurred
  <2>1. CASE ReleaseReset
    <3>1. reg_file = old_regfile
      BY <2>1 DEF ReleaseReset, CommitsInv
    <3> QED
      BY <2>1, <3>1 DEF ReleaseReset, MainOnly
  <2>2. CASE Collect
    BY <2>2 DEF Collect, Iterate, MainOnly
  <2> QED
    BY <2>1, <2>2
<1>2. TwoAtMost' <=> TwoAtMost
  BY <1>1 DEF TwoAtMost, ZeroAtReset
<1>3. SUFFICES ASSUME TwoAtMost
               PROVE  Golden(program.trace, reg_file', retired) /\ Behind(retired)'
  BY <1>1, <1>2 DEF LookInv, BusInv, Counts
<1>4. RegFile = reg_file
  BY <1>3 DEF RegFile, TwoAtMost
<1>5. Golden(program.trace, reg_file, retired)
  BY <1>3 DEF LookInv
<1>6. PICK m \in Nat : Behind(m)
  BY <1>3 DEF LookInv
<1>7. PICK t \in Seq(Entry) : t = program.trace
  BY ProgramFacts DEF BusInv
<1>8. PICK n \in Nat, o \in [Reg -> Value], regs \in [Reg -> Value] :
        n = retired /\ o = old /\ regs = reg_file
  BY <1>1 DEF BusInv, Counts, RegTyped
<1>9. PICK cs \in Seq(Write), s \in Seq(Write) : cs = regfile_commits /\ s = Seen(old)
  BY SeenTyped DEF RegTyped
<1>10. PICK q, c : Look(old, q, c)
  BY <1>3, SeenArray DEF TwoAtMost
<1>11. Tells(s, o, regs, q, c)
  BY <1>8, <1>9, <1>10 DEF Look, Changed, Tells
<1>12. /\ Together(t, m, n) /\ Golden(t, o, m) /\ Golden(t, regs, n) /\ CommitsUpTo(t, cs, m)
       /\ \A k \in 1..Len(t) : LoggedBySpike(t[k])
  BY <1>1, <1>5, <1>6, <1>7, <1>8, <1>9, ProgramFacts DEF Behind, BusInv, Step
<1>13. CommitsUpTo(t, cs \o s, n)
  BY <1>11, <1>12, LookUpTo
<1>14. Together(t, n, n)
  BY <1>12, TogetherSame DEF Together
<1> QED
  BY <1>1, <1>4, <1>5, <1>7, <1>8, <1>9, <1>13, <1>14 DEF Behind

LEMMA LookInvStep ==
  IInv /\ BusInv /\ RegTyped /\ CommitsInv /\ LookInv /\ [Next]_vars => LookInv'
<1> SUFFICES ASSUME IInv, BusInv, RegTyped, CommitsInv, LookInv, [Next]_vars PROVE LookInv'
  OBVIOUS
<1>1. CASE RisingEdge
  BY <1>1, EdgeLooks
<1>2. CASE FallingEdge
  BY <1>2, LookKept DEF FallingEdge, mainVars, cpuVars, Running
<1>3. CASE Main
  <2>1. CASE WaitForReset
    <3>1. /\ UNCHANGED <<config, program, regfile_commits, old_regfile, reg_file, retired, main, blurred>>
          /\ main = "reset" /\ program \in Programs
      BY <2>1 DEF WaitForReset, MainOnly, BusInv
    <3>2. retired = 0
      BY <3>1 DEF BusInv, ResetHolds
    <3>3. ASSUME NEW m \in Nat, Behind(m) PROVE Behind(m)'
      <4>1. m <= 0
        BY <3>2, <3>3 DEF Behind, Together
      <4>2. m = retired
        BY <3>2, <4>1
      <4> QED
        BY <3>1, <3>3, <4>2 DEF Behind
    <3>4. TwoAtMost' <=> TwoAtMost
      BY <3>1 DEF TwoAtMost, ZeroAtReset
    <3> QED
      BY <3>1, <3>3, <3>4 DEF LookInv
  <2>2. CASE ReleaseReset \/ Collect
    BY <2>2, MainLooks
  <2>3. CASE TimeOut
    BY <2>3, LookKept DEF TimeOut, MainOnly, Running
  <2> QED
    BY <1>3, <2>1, <2>2, <2>3 DEF Main
<1>4. ASSUME NEW p \in Ports, MemoryModel(p) PROVE LookInv'
  <2>1. /\ UNCHANGED <<config, program, regfile_commits, old_regfile, reg_file, retired, blurred>>
        /\ due' = due \ {p} /\ Running
    BY <1>4, MemoryModelFrame DEF cpuVars
  <2>2. main' = main \/ main' = "failed"
    BY <1>4 DEF MemoryModel, NoTransaction, Transaction, InstructionWrite, AnswerRead,
                AnswerWrite, AnswerRaises, Answered, mainVars
  <2>3. p # "main"
    BY PortsAreNotMain
  <2> QED
    BY <2>1, <2>2, <2>3, LookKept DEF Running
<1>5. CASE UNCHANGED vars
  BY <1>5, LookKept DEF vars, simVars, mainVars, cpuVars, Running
<1> QED
  BY <1>1, <1>2, <1>3, <1>4, <1>5 DEF Next

-----------------------------------------------------------------------------
(* The fragment is correct *)

\* Once 1 is stored to tohost the trace is at its end: the store is its last step,
\* executed at the next edge together with the retirement of the step before it.
EndsWell == Placeable /\ AlignedStores /\ EndsAtToHost /\ ~config.BYTE_ALIGNED_MEMORY_ACCESS

AtEnd ==
  /\ Step(Len(program.trace)).instr.kind \in Stores
  /\ \/ /\ clk = "low" /\ DataPort \notin due /\ bus[DataPort].for = "access"
        /\ executed + 1 = Len(program.trace)
     \/ clk = "high" /\ executed = Len(program.trace) /\ retired + 1 = Len(program.trace)

EndInv == EndsWell /\ Stored => AtEnd

LEMMA InitEndInv == Init => EndInv
BY DEF Init, EndInv, Stored

LEMMA EndsWellSame ==
  ASSUME UNCHANGED <<config, program>>
  PROVE  /\ (EndsWell' <=> EndsWell) /\ DataPort' = DataPort
         /\ \A k : Step(k)' = Step(k)
BY DEF EndsWell, Placeable, Fits, Start, Place, AlignedStores, EndsAtToHost, Step, DataPort

\* The store that is recorded at tohost with the word 1 is the end of the trace.
LEMMA ToHostIsLast ==
  ASSUME NEW p \in Ports, IInv, BusInv, MemInv, StopInv, EndsWell, AnswerWrite(p), ~Stored, Stored'
  PROVE  /\ executed + 1 = Len(program.trace) /\ Step(executed + 1).instr.kind \in Stores
         /\ bus[p].for = "access" /\ p = DataPort
<1>1. /\ p = DataPort /\ Written(p) \in Word
      /\ mem_access' = Append(mem_access, [addr |-> raw_addr[p], val |-> Written(p)])
      /\ Running /\ awaiting[p] = "step" /\ bus[p].we /\ p \in due
      /\ config' = config /\ program' = program
  BY AnswerWriteFacts
<1>2. /\ executed + 1 \in 1..Len(program.trace)
      /\ Step(executed + 1).instr.kind \in Stores /\ bus[p] = Accessing(executed + 1)
      /\ bus[p].for = "access" /\ raw_addr[p] = bus[p].addr /\ raw_addr[p] \in Nat
      /\ WordAt(raw_addr[p]) = WordAt(Step(executed + 1).mem_addr)
  BY <1>1, WriteIsStore
<1>3. program \in Programs /\ config \in Configs
  BY DEF BusInv
<1>4. PICK k \in 1..Len(program.trace) : k = executed + 1
  BY <1>2
<1>5. PICK x \in Access : x = [addr |-> raw_addr[p], val |-> Written(p)]
  BY <1>1, <1>2 DEF Access
<1>6. x = [addr |-> program.tohost, val |-> One]
  <2>1. PICK ms \in Seq(Access) : ms = mem_access
    BY DEF MemInv, MemTyped
  <2>0. /\ Len(Append(ms, x)) = Len(ms) + 1 /\ Append(ms, x)[Len(ms) + 1] = x
        /\ Len(ms) \in Nat /\ \A j \in 1..Len(ms) : Append(ms, x)[j] = ms[j]
    OBVIOUS
  <2>2. PICK ns : ns = Append(ms, x) /\ ns = mem_access'
    BY <1>1, <1>5, <2>1
  <2>3. Len(ns) = Len(ms) + 1 /\ ns[Len(ms) + 1] = x /\ Len(ms) \in Nat
        /\ \A j \in 1..Len(ms) : ns[j] = ms[j]
    BY <2>0, <2>2
  <2>4. PICK j \in 1..Len(ns) : ns[j] = [addr |-> program.tohost, val |-> One]
    BY <1>1, <2>2 DEF Stored
  <2>5. j \notin 1..Len(ms)
    BY <2>1, <2>3, <2>4 DEF Stored
  <2>6. j = Len(ms) + 1
    BY <2>3, <2>5
  <2> QED
    BY <2>3, <2>4, <2>6
<1>7. raw_addr[p] = program.tohost /\ Written(p) = One
  BY <1>5, <1>6
<1>8. bus[p].sel \in Strobes
  BY <1>1, <1>7, ToHostStore
<1>9. PICK cell : Written(p) = Merged(cell, Accessing(k))
  BY <1>2, <1>4, <1>8 DEF Written
<1>10. Step(k).mem_addr % Width(Step(k).instr.kind) = 0
  BY <1>2, <1>4 DEF EndsWell, AlignedStores
<1>11. Records(Step(k), x)
  BY <1>10, <1>2, <1>3, <1>4, <1>5, <1>9, StoreRecorded DEF EndsWell
<1>12. Step(k).instr.kind = "sw" /\ Step(k).mem_addr = program.tohost
  <2>1. Linked(program) /\ k \in DOMAIN program.trace
    BY <1>3, ProgramFacts, ProgramsAssumption
  <2>2. program.tohost \in DOMAIN program.data /\ program.tohost \in Nat /\ program.tohost % 4 = 0
    BY <1>3, LinkedFacts, ProgramFacts
  <2>3. WordAt(program.tohost) = program.tohost
    BY <2>2 DEF WordAt
  <2>4. WordAt(Step(k).mem_addr) = program.tohost
    BY <1>2, <1>4, <1>7, <2>3
  <2> QED
    BY <1>2, <1>4, <2>1, <2>4 DEF Linked, Step
<1>13. Step(k).mem_val = One
  <2>1. PICK addr \in Nat, val \in Word : addr = Step(k).mem_addr /\ val = Step(k).mem_val
    BY <1>2, <1>3, <1>4, AccessFacts
  <2>2. addr % 4 = 0
    BY <1>3, <1>12, <2>1, LinkedFacts, ProgramFacts
  <2>3. Width(Step(k).instr.kind) = 4
    BY <1>12 DEF Width
  <2>4. \A b \in 0..(4 - 1) : x.val[b + 0] = val[b]
    BY <1>11, <2>1, <2>2, <2>3 DEF Records
  <2>5. \A b \in 0..3 : One[b] = val[b]
    <3>1. x.val = One
      BY <1>6
    <3>2. \A b \in 0..3 : b \in 0..(4 - 1) /\ b + 0 = b
      OBVIOUS
    <3>3. ASSUME NEW b \in 0..3 PROVE One[b] = val[b]
      BY <2>4, <3>1, <3>2
    <3> QED
      BY <3>3
  <2>6. One = [b \in 0..3 |-> One[b]] /\ val = [b \in 0..3 |-> val[b]]
    BY DEF One, Word
  <2>7. One = val
    BY <2>5, <2>6
  <2> QED
    BY <2>1, <2>7
<1>14. k = Len(program.trace)
  BY <1>2, <1>4, <1>12, <1>13 DEF EndsWell, EndsAtToHost
<1> QED
  BY <1>1, <1>2, <1>4, <1>14

LEMMA EndInvStep == IInv /\ BusInv /\ MemInv /\ StopInv /\ EndInv /\ [Next]_vars => EndInv'
<1> SUFFICES ASSUME IInv, BusInv, MemInv, StopInv, EndInv, [Next]_vars PROVE EndInv'
  OBVIOUS
<1>0. DataPort \in Ports
  BY DEF DataPort, Ports
<1>1. CASE RisingEdge
  <2>1. UNCHANGED <<config, program, mem_access>> /\ clk = "low" /\ Running /\ clk' = "high"
    BY <1>1 DEF RisingEdge, memVars
  <2>2. Stored' <=> Stored
    BY <2>1 DEF Stored
  <2>3. SUFFICES ASSUME EndsWell, Stored PROVE AtEnd'
    BY <2>1, <2>2, EndsWellSame DEF EndInv
  <2>4. /\ Step(Len(program.trace)).instr.kind \in Stores
        /\ DataPort \notin due /\ bus[DataPort].for = "access"
        /\ executed + 1 = Len(program.trace)
    BY <2>1, <2>3 DEF EndInv, AtEnd
  <2>5. Wrote = executed + 1
    BY <2>1, <2>4 DEF Wrote
  <2>6. executed' = executed + 1 /\ (RunStep => retired' = executed)
    BY <1>1, <2>5, ExecutedAtEdge
  <2>7. ~ResetStep
    BY <1>0, <2>4 DEF ResetStep, BusInv, ResetHolds
  <2>8. retired' = executed
    BY <1>1, <2>6, <2>7 DEF RisingEdge
  <2> QED
    BY <2>1, <2>4, <2>6, <2>8 DEF AtEnd, Step
<1>2. CASE FallingEdge
  <2>1. UNCHANGED <<config, program, mem_access>> /\ clk = "high" /\ Running /\ due = {}
    BY <1>2 DEF FallingEdge, memVars
  <2>2. Stored' <=> Stored
    BY <2>1 DEF Stored
  <2>3. EndsWell => ~Stored
    BY <2>1 DEF EndsWell, StopInv
  <2> QED
    BY <2>1, <2>2, <2>3, EndsWellSame DEF EndInv
<1>3. ASSUME UNCHANGED <<config, program, mem_access, clk, bus, executed, retired>>,
             due' \subseteq due
      PROVE  EndInv'
  <2>1. Stored' <=> Stored
    BY <1>3 DEF Stored
  <2>2. DataPort' = DataPort /\ (EndsWell' <=> EndsWell)
    BY <1>3, EndsWellSame
  <2>3. AtEnd => AtEnd'
    BY <1>3, <2>2 DEF AtEnd, Step
  <2> QED
    BY <2>1, <2>2, <2>3 DEF EndInv
<1>4. CASE Main
  <2>1. UNCHANGED <<config, program, mem_access, clk, bus, executed, retired>> /\ due' \subseteq due
    BY <1>4 DEF Main, WaitForReset, ReleaseReset, Collect, TimeOut, Resume, MainOnly, memVars
  <2> QED
    BY <1>3, <2>1
<1>5. ASSUME NEW p \in Ports, MemoryModel(p) PROVE EndInv'
  <2>1. /\ UNCHANGED <<config, program, clk, bus, executed, retired>> /\ due' = due \ {p}
        /\ Running /\ p \in due
    BY <1>5, MemoryModelFrame DEF cpuVars
  <2>2. CASE AnswerWrite(p)
    <3>1. p = DataPort /\ clk = "low"
      BY <2>1, <2>2, AnswerWriteFacts, EdgeOrStep
    <3>2. EndsWell => ~Stored
      BY <2>1, <3>1 DEF EndsWell, StopInv
    <3>3. DataPort' = DataPort /\ (EndsWell' <=> EndsWell)
      BY <2>1, EndsWellSame
    <3>4. ASSUME EndsWell, Stored' PROVE AtEnd'
      <4>1. /\ executed + 1 = Len(program.trace) /\ Step(executed + 1).instr.kind \in Stores
            /\ bus[p].for = "access"
        BY <2>2, <3>2, <3>4, ToHostIsLast
      <4> QED
        BY <2>1, <3>1, <3>3, <4>1 DEF AtEnd, Step
    <3> QED
      BY <3>3, <3>4 DEF EndInv
  <2>3. CASE ~AnswerWrite(p)
    <3>1. mem_access' = mem_access
      BY <1>5, <2>3 DEF MemoryModel, NoTransaction, Transaction, InstructionWrite, AnswerRead,
                        AnswerRaises, memVars
    <3> QED
      BY <1>3, <2>1, <3>1
  <2> QED
    BY <2>2, <2>3
<1>6. CASE UNCHANGED vars
  BY <1>3, <1>6 DEF vars, simVars, memVars, cpuVars
<1> QED
  BY <1>1, <1>2, <1>4, <1>5, <1>6 DEF Next

\* At the end everything is recorded but the fetches of what was never executed.
LEMMA FragmentComplete ==
  IInv /\ BusInv /\ MemInv /\ RegTyped /\ MainHigh /\ StopInv /\ StoresInv /\ FetchesInv /\ LookInv /\ EndInv
  => FragmentCorrect
<1> SUFFICES ASSUME IInv, BusInv, MemInv, RegTyped, MainHigh, StopInv, StoresInv, FetchesInv, LookInv, EndInv,
                    main = "stopped", config.REGFILE_ARRAY_AVAILABLE,
                    ~config.BYTE_ALIGNED_MEMORY_ACCESS, AlignedStores, ZeroAtReset,
                    Fits(program.text), Fits(program.data), EndsAtToHost, RetireWidth <= 2,
                    ~blurred
             PROVE  /\ FetchesCorrect(program.trace, fetches)
                    /\ CommitsCorrect(program.trace, regfile_commits)
                    /\ AccessesCorrect(program.trace, mem_access)
  BY DEF FragmentCorrect, Correct
<1>1. PICK t \in Seq(Entry), N \in Nat \ {0} : t = program.trace /\ N = Len(program.trace)
  BY ProgramFacts DEF BusInv
<1>2. Stored /\ EndsWell /\ clk = "high" /\ program \in Programs
  BY DEF StopInv, EndsWell, Placeable, MainHigh, BusInv
<1>3. executed = N /\ retired + 1 = N /\ fetched = N /\ Step(N).instr.kind \in Stores
  BY <1>1, <1>2 DEF EndInv, AtEnd, BusInv, Counts
<1>4. Wrote = N /\ Got = N
  BY <1>2, <1>3 DEF Wrote, Got
<1>5. PICK fs \in Seq(Fetch), cs \in Seq(Write), ms \in Seq(Access) :
        fs = fetches /\ cs = regfile_commits /\ ms = mem_access
  BY DEF MemInv, MemTyped, RegTyped, Fetch
<1>6. AccessesCorrect(t, ms)
  <2>1. StoresUpTo(t, ms, N)
    BY <1>1, <1>4, <1>5 DEF StoresInv
  <2>2. PICK of : StoresOver(t, ms, N, of)
    BY <2>1 DEF StoresUpTo
  <2>3. N = Len(t) /\ \A k \in 1..N : k \in StoresOf(t) <=> t[k].instr.kind \in Stores
    BY <1>1 DEF StoresOf
  <2> QED
    BY <2>2, <2>3 DEF StoresOver, AccessesCorrect, Records
<1>7. FetchesCorrect(t, fs)
  <2>1. \A f \in 1..Len(fs) : OfText(fs[f])
    BY <1>5 DEF FetchesInv, Placeable
  <2>2. PICK pos : FetchesOver(t, fs, N, pos)
    BY <1>1, <1>4, <1>5 DEF FetchesInv, FetchesUpTo
  <2>3. \A f \in 1..Len(fs) : fs[f].pc % 2 = 0
    <3> SUFFICES ASSUME NEW f \in 1..Len(fs) PROVE fs[f].pc % 2 = 0
      OBVIOUS
    <3>1. PICK a \in Nat : a = fs[f].pc /\ a % 4 = 0
      BY <1>2, <2>1, LinkedFacts DEF OfText
    <3>2. PICK q \in Nat : a = 4 * q + (a % 4)
      BY D4
    <3>3. a % 2 = 0
      BY <3>1, <3>2
    <3> QED
      BY <3>1, <3>3
  <2>4. \A k \in 1..N : t[k].pc \in DOMAIN program.text /\ program.text[t[k].pc] = t[k].instr
    BY <1>1, <1>2, ProgramsAssumption, ProgramFacts DEF Linked
  <2>5. \A f \in 1..Len(fs), k \in 1..N : fs[f].pc = t[k].pc => fs[f].instr = t[k].instr
    BY <2>1, <2>4 DEF OfText
  <2> QED
    BY <1>1, <2>2, <2>3, <2>5 DEF FetchesOver, FetchesCorrect
<1>8. CommitsCorrect(t, cs)
  <2>1. TwoAtMost
    BY DEF TwoAtMost
  <2>2. PICK n \in Nat : n = retired /\ n + 1 = N
    BY <1>3 DEF BusInv, Counts
  <2>3. CommitsUpTo(t, cs, n)
    BY <1>1, <1>5, <2>1, <2>2 DEF LookInv, Behind
  <2>4. N \notin ChangingWrites(t)
    BY <1>1, <1>2, <1>3, AccessFacts DEF ChangingWrites, Step
  <2>5. CommitsUpTo(t, cs, N)
    BY <2>2, <2>3, <2>4, CommitsSkip
  <2>6. PICK of : CommitsOver(t, cs, N, of)
    BY <2>5 DEF CommitsUpTo
  <2> QED
    BY <1>1, <2>6 DEF CommitsOver, CommitsCorrect
<1> QED
  BY <1>1, <1>5, <1>6, <1>7, <1>8

\* The fragment of a correct processor is a correct fragment of its program's trace,
\* for every program: no commit, access or executed fetch is lost, made up or out of
\* order, whatever is fetched in vain and whenever the store to tohost ends it.
THEOREM FragmentTheorem == Spec => []FragmentCorrect
BY InitIInv, NextKeeps, InitBusInv, BusInvStep, InitMemInv, MemInvStep, InitRegTyped,
   RegTypedStep, InitCommitsInv, CommitsInvStep, InitReplayInv, ReplayInvStep, InitStopInv,
   StopInvStep, InitStoresInv, MainHighStep, StoresInvStep, InitFetchesInv, FetchesInvStep,
   InitLookInv, LookInvStep, InitEndInv, EndInvStep, FragmentComplete, PTL DEF Spec

=============================================================================
