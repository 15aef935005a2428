------------------------------ MODULE MmuProofs ------------------------------
(***************************************************************************)
(* Proofs about Mmu, for every size of page, memory and cache, every set   *)
(* of PMP entries and every program.                                       *)
(***************************************************************************)
EXTENDS Mmu, TLAPS

USE PageAssumption

-----------------------------------------------------------------------------
(* Arithmetic of pages and words.                                          *)

LEMMA DivMod ==
  ASSUME NEW x \in Nat, NEW d \in Nat \ {0}
  PROVE  /\ x \div d \in Nat /\ x % d \in 0 .. d - 1
         /\ x = d * (x \div d) + (x % d)
<1>1. x \div d \in Nat
  BY SMT
<1>2. x % d \in 0 .. d - 1
  BY SMT
<1>3. x = d * (x \div d) + (x % d)
  BY SMT
<1>. QED BY <1>1, <1>2, <1>3

LEMMA DivIs ==
  ASSUME NEW d \in Nat \ {0}, NEW q \in Nat, NEW r \in 0 .. d - 1
  PROVE  (q * d + r) \div d = q /\ (q * d + r) % d = r
  BY SMT

LEMMA DivMono ==
  ASSUME NEW d \in Nat \ {0}, NEW x \in Nat, NEW y \in Nat, x <= y
  PROVE  x \div d <= y \div d
<1>1. /\ x = d * (x \div d) + (x % d) /\ x % d \in 0 .. d - 1 /\ x \div d \in Nat
      /\ y = d * (y \div d) + (y % d) /\ y % d \in 0 .. d - 1 /\ y \div d \in Nat
  BY DivMod
<1> DEFINE a == x \div d
           b == y \div d
<1> HIDE DEF a, b
<1>2. ASSUME b < a PROVE FALSE
  <2>1. a \in Nat /\ b \in Nat /\ x = d * a + (x % d) /\ y = d * b + (y % d)
    BY <1>1 DEF a, b
  <2>2. d * a >= d * (b + 1)
    BY <1>2, <2>1, SMT
  <2>3. d * (b + 1) = d * b + d
    BY <2>1, SMT
  <2>4. d * a >= d * b + d
    BY <2>2, <2>3
  <2>5. d * a \in Nat /\ d * b \in Nat
    BY <2>1, SMT
  <2>6. x % d \in Nat /\ y % d < d /\ y % d \in Nat
    BY <1>1, SMT
  <2>. HIDE DEF a, b
  <2>. QED BY <2>1, <2>4, <2>5, <2>6, SMT
<1>. QED BY <1>1, <1>2, SMT DEF a, b

LEMMA DivDiv ==
  ASSUME NEW x \in Nat, NEW p \in Nat \ {0}, NEW k \in Nat \ {0}
  PROVE  x \div (p * k) = (x \div p) \div k
<1> DEFINE a == x \div p
           r == x % p
           b == a \div k
           t == a % k
<1>1. a \in Nat /\ r \in 0 .. p - 1 /\ x = p * a + r
  BY DivMod
<1>2. b \in Nat /\ t \in 0 .. k - 1 /\ a = k * b + t
  BY DivMod, <1>1
<1> HIDE DEF a, r, b, t
<1>3. x = b * (p * k) + (p * t + r)
  <2>1. p * a = p * (k * b) + p * t
    BY <1>1, <1>2, SMT
  <2>2. p * (k * b) = b * (p * k)
    BY <1>1, <1>2, SMT
  <2>. QED BY <2>1, <2>2, <1>1, <1>2, SMT
<1>4. p * t + r \in 0 .. p * k - 1
  <2>1. p * t <= p * (k - 1)
    BY <1>2, SMT
  <2>2. p * (k - 1) = p * k - p
    BY SMT
  <2>3. p * t \in Nat /\ p * k \in Nat
    BY <1>2, SMT
  <2>. QED BY <2>1, <2>2, <2>3, <1>1, SMT
<1>5. p * k \in Nat \ {0}
  BY SMT
<1>6. x \div (p * k) = b
  BY <1>2, <1>3, <1>4, <1>5, DivIs
<1>. QED BY <1>6 DEF a, b

(* A word of a frame is a word of memory, in that page.                     *)
LEMMA WordOfFrame ==
  ASSUME NEW f \in Frames, NEW o \in Offsets
  PROVE  WordAt(f, o) \in Words /\ PageOf(WordAt(f, o)) = f
<1>1. f \in Nat /\ f <= PageWords * PageWords - 1 /\ o \in 0 .. PageWords - 1
  BY SMT DEF Frames, Pages, Offsets
<1>2. f * PageWords <= (PageWords * PageWords - 1) * PageWords
  BY <1>1, SMT
<1>3. (PageWords * PageWords - 1) * PageWords = PageWords * PageWords * PageWords - PageWords
  BY SMT
<1>4. f * PageWords \in Nat /\ PageWords * PageWords * PageWords \in Nat
  BY <1>1, SMT
<1>. QED BY <1>1, <1>2, <1>3, <1>4, DivIs DEF WordAt, Words, PageOf

LEMMA PageParts ==
  ASSUME NEW p \in Pages
  PROVE  p \div PageWords \in Offsets /\ p % PageWords \in Offsets
<1> DEFINE q == p \div PageWords
<1>1. p \in Nat /\ p < PageWords * PageWords
  BY SMT DEF Pages
<1>2. q \in Nat /\ p % PageWords \in 0 .. PageWords - 1 /\ p = PageWords * q + (p % PageWords)
  BY <1>1, DivMod
<1> HIDE DEF q
<1>3. q < PageWords
  <2>1. SUFFICES ASSUME q >= PageWords PROVE FALSE
    BY <1>2, SMT
  <2>2. PageWords * q >= PageWords * PageWords
    BY <1>2, <2>1, SMT
  <2>3. PageWords * q \in Nat /\ PageWords * PageWords \in Nat
    BY <1>2, SMT
  <2>4. p % PageWords \in Nat
    BY <1>2, SMT
  <2>. QED BY <2>2, <2>3, <2>4, <1>1, <1>2, SMT
<1>. QED BY <1>2, <1>3, SMT DEF Offsets, q

-----------------------------------------------------------------------------
(* A page that is homogeneous is protected alike in all its words.         *)

PmpTyped == /\ pmpaddr \in [Entries -> PmpValue]
            /\ pmpcfg \in [Entries -> Cfg] /\ mseccfg \in Mseccfg

LEMMA HomogeneousEntry ==
  ASSUME PmpTyped, NEW i \in Entries, NEW f \in Frames, ~subset_match(i, f),
         NEW o1 \in Offsets, NEW o2 \in Offsets, match4(i, WordAt(f, o1))
  PROVE  match4(i, WordAt(f, o2))
<1> DEFINE v == WordAt(f, o1)
           w == WordAt(f, o2)
           b == TorBase(i)
           t == pmpaddr[i]
<1>1. /\ PageOf(v) = f /\ PageOf(w) = f /\ v \in Nat /\ w \in Nat /\ f \in Nat
      /\ f * PageWords <= v /\ f * PageWords <= w /\ f * PageWords \in Nat
  <2>1. f \in Nat /\ o1 \in Nat /\ o2 \in Nat
    BY SMT DEF Frames, Pages, Offsets
  <2>2. f * PageWords \in Nat
    BY <2>1, SMT
  <2>. QED BY <2>1, <2>2, WordOfFrame, SMT DEF WordAt
<1>2. b \in Nat /\ t \in Nat
  <2>1. \A j \in Entries : pmpaddr[j] \in Nat
    BY PmpAssumption DEF PmpTyped
  <2>2. i # 0 => i - 1 \in Entries
    BY PmpAssumption, SMT DEF Entries
  <2>. QED BY <2>1, <2>2 DEF TorBase
<1>3. CASE pmpcfg[i].a = "TOR"
  <2>1. b <= v /\ v < t
    BY <1>3, SMT DEF match4, IsSpan
  <2>2. PageOf(b) <= f
    BY <1>1, <1>2, <2>1, DivMono DEF PageOf
  <2>3. f * PageWords < t
    BY <1>1, <1>2, <2>1, SMT
  <2>4. f * PageWords >= b /\ f < PageOf(t)
    BY <1>3, <2>2, <2>3, PmpTyped DEF subset_match
  <2>5. w < t
    <3>1. SUFFICES ASSUME t <= w PROVE FALSE
      BY <1>1, <1>2, SMT
    <3>2. PageOf(t) <= f
      BY <1>1, <1>2, <3>1, DivMono DEF PageOf
    <3>. QED BY <2>4, <3>2, <1>1, <1>2, SMT DEF PageOf
  <2>. QED BY <1>1, <1>2, <1>3, <2>4, <2>5, SMT DEF match4
<1>4. CASE pmpcfg[i].a # "TOR"
  <2>1. PICK s \in Spans : IsSpan(i, s) /\ v \div s = t \div s
    BY <1>4 DEF match4
  <2>2. s \in Nat \ {0} /\ PageWords \in Nat \ {0}
    BY SpansAssumption
  <2>3. CASE s < PageWords
    <3>1. PageWords % s = 0
      <4>1. s % PageWords = s
        BY <2>2, <2>3, SMT
      <4>. QED BY <4>1, <2>2, SpansAssumption
    <3> DEFINE k == PageWords \div s
    <3>2. k \in Nat /\ PageWords = s * k
      <4>1. k \in Nat /\ PageWords = s * k + (PageWords % s)
        BY <2>2, DivMod
      <4> HIDE DEF k
      <4>2. s * k \in Nat
        BY <4>1, <2>2, SMT
      <4>. QED BY <3>1, <4>1, <4>2
    <3>3. k \in Nat \ {0}
      BY <3>2, <2>2, SMT
    <3> HIDE DEF k
    <3>4. v \div PageWords = (v \div s) \div k /\ t \div PageWords = (t \div s) \div k
      BY <3>2, <3>3, <2>2, <1>1, <1>2, DivDiv
    <3>5. PageOf(t) = f
      BY <3>4, <2>1, <1>1 DEF PageOf
    <3>. QED BY <3>5, <2>1, <2>3 DEF subset_match
  <2>4. CASE s >= PageWords
    <3>1. s % PageWords = 0
      <4>1. CASE s = PageWords
        <5>1. s % s = 0
          BY <2>2, SMT
        <5>. QED BY <4>1, <5>1
      <4>2. CASE s > PageWords
        <5>1. PageWords % s = PageWords
          BY <2>2, <4>2, SMT
        <5>. QED BY <5>1, <2>2, SpansAssumption
      <4>. QED BY <4>1, <4>2, <2>2, <2>4, SMT
    <3> DEFINE k == s \div PageWords
    <3>2. k \in Nat /\ s = PageWords * k
      <4>1. k \in Nat /\ s = PageWords * k + (s % PageWords)
        BY <2>2, DivMod
      <4> HIDE DEF k
      <4>2. PageWords * k \in Nat
        BY <4>1, <2>2, SMT
      <4>. QED BY <3>1, <4>1, <4>2
    <3>3. k \in Nat \ {0}
      BY <3>2, <2>2, SMT
    <3> HIDE DEF k
    <3>4. v \div s = (v \div PageWords) \div k /\ w \div s = (w \div PageWords) \div k
      BY <3>2, <3>3, <2>2, <1>1, DivDiv
    <3>5. w \div s = v \div s
      BY <3>4, <1>1 DEF PageOf
    <3>. QED BY <3>5, <2>1 DEF match4
  <2>. QED BY <2>2, <2>3, <2>4, SMT
<1>. QED BY <1>3, <1>4

LEMMA HomogeneousPage ==
  ASSUME PmpTyped, NEW f \in Frames, pmp_homogeneous(f), NEW type, NEW mode,
         NEW o1 \in Offsets, NEW o2 \in Offsets, pmp_ok({WordAt(f, o1)}, type, mode)
  PROVE  pmp_ok({WordAt(f, o2)}, type, mode)
<1>1. \A i \in Entries : match4(i, WordAt(f, o1)) <=> match4(i, WordAt(f, o2))
  BY HomogeneousEntry DEF pmp_homogeneous
<1>2. \A i \in Entries : Touches(i, {WordAt(f, o1)}) <=> Touches(i, {WordAt(f, o2)})
  BY <1>1 DEF Touches
<1>. QED BY <1>1, <1>2 DEF pmp_ok

-----------------------------------------------------------------------------
(* The steps, with the types of what they choose.                          *)

AccessStep(p, o) ==
  \/ Fetch(p, o) \/ Load(p, o) \/ Probe(p, o)
  \/ \E c \in Pte : Store(p, o, c)
TrapStep(p, o) ==
  \/ \E type \in Types : Break(type, p, o) \/ \E m \in {"S", "M"} : Fault(type, p, o, m)
  \/ \E m \in {"S", "M"} : Interrupt(m)
RegisterStep ==
  \/ Mret \/ Sret \/ SfenceVma \/ FenceI
  \/ \E v \in Status : WriteMstatus(v) \/ WriteSstatus(v)
  \/ \E v \in Satp : WriteSatp(v)
  \/ \E t \in Trigger : SetTrigger(t)

LEMMA StepCases ==
  ASSUME TypeOK, [Next]_vars
  PROVE  \/ \E p \in Pages, o \in Offsets : AccessStep(p, o) \/ TrapStep(p, o)
         \/ RegisterStep \/ WritePmp \/ UNCHANGED vars
<1>1. /\ program.touches \subseteq Pages \X Offsets /\ program.status \subseteq Status
      /\ program.satp \subseteq Satp /\ program.triggers \subseteq Trigger
      /\ program.stores \in [Words -> SUBSET Pte]
  <2>1. program \in Program
    BY ProgramsAssumption DEF TypeOK
  <2>. QED BY <2>1 DEF Program
<1>2. 0 \in Pages /\ 0 \in Offsets
  <2>1. PageWords * PageWords \in Nat \ {0}
    BY SMT
  <2>. QED BY <2>1, SMT DEF Pages, Offsets
<1>3. ASSUME NEW a \in program.touches PROVE a[1] \in Pages /\ a[2] \in Offsets
  BY <1>1
<1>4. CASE \E a \in program.touches :
             \/ Fetch(a[1], a[2]) \/ Load(a[1], a[2]) \/ Probe(a[1], a[2])
             \/ \E w \in Words : \E c \in program.stores[w] : Store(a[1], a[2], c)
  <2>1. PICK a \in program.touches :
             \/ Fetch(a[1], a[2]) \/ Load(a[1], a[2]) \/ Probe(a[1], a[2])
             \/ \E w \in Words : \E c \in program.stores[w] : Store(a[1], a[2], c)
    BY <1>4
  <2>2. AccessStep(a[1], a[2])
    BY <2>1, <1>1 DEF AccessStep
  <2>. QED BY <2>2, <1>3
<1>5. CASE \E a \in program.touches : \E type \in Types :
             Break(type, a[1], a[2]) \/ \E m \in {"S", "M"} : Fault(type, a[1], a[2], m)
  BY <1>3, <1>5 DEF TrapStep
<1>6. CASE \E m \in {"S", "M"} : Interrupt(m)
  BY <1>2, <1>6 DEF TrapStep
<1>7. CASE \/ Mret \/ Sret \/ SfenceVma \/ FenceI
           \/ \E v \in program.status : WriteMstatus(v) \/ WriteSstatus(v)
           \/ \E v \in program.satp : WriteSatp(v)
           \/ \E t \in program.triggers : SetTrigger(t)
  BY <1>1, <1>7 DEF RegisterStep
<1>. QED BY <1>4, <1>5, <1>6, <1>7 DEF Next

(* What each kind of step leaves alone.                                    *)
LEMMA AccessFrame ==
  ASSUME NEW p, NEW o, AccessStep(p, o)
  PROVE  /\ priv' = priv /\ status' = status /\ satp' = satp
         /\ trigger' = trigger /\ checks' = checks
         /\ UNCHANGED <<pmpaddr, pmpcfg, mseccfg>>
<1>1. CASE Fetch(p, o)
  BY <1>1 DEF Fetch, watch, pmpvars
<1>2. CASE Load(p, o)
  BY <1>2 DEF Load, pmpvars
<1>3. CASE Probe(p, o)
  BY <1>3 DEF Probe, watch, pmpvars
<1>4. ASSUME NEW c \in Pte, Store(p, o, c)
      PROVE  /\ priv' = priv /\ status' = status /\ satp' = satp
             /\ trigger' = trigger /\ checks' = checks
             /\ UNCHANGED <<pmpaddr, pmpcfg, mseccfg>>
  BY <1>4 DEF Store, pmpvars
<1>. QED BY <1>1, <1>2, <1>3, <1>4 DEF AccessStep

LEMMA TrapFrame ==
  ASSUME NEW p, NEW o, TrapStep(p, o)
  PROVE  \E m \in {"S", "M"} : TakeTrap(m)
  BY DEF TrapStep, Break, Fault, Interrupt

LEMMA RegisterFrame ==
  ASSUME RegisterStep
  PROVE  UNCHANGED <<pmpaddr, pmpcfg, mseccfg>>
<1>1. CASE Mret \/ Sret \/ SfenceVma \/ FenceI
  BY <1>1 DEF Mret, Sret, SfenceVma, FenceI, pmpvars
<1>2. ASSUME NEW v, WriteMstatus(v) \/ WriteSstatus(v) \/ WriteSatp(v) \/ SetTrigger(v)
      PROVE  UNCHANGED <<pmpaddr, pmpcfg, mseccfg>>
  BY <1>2 DEF WriteMstatus, WriteSstatus, WriteSatp, SetTrigger, pmpvars
<1>. QED BY <1>1, <1>2 DEF RegisterStep

-----------------------------------------------------------------------------
(* Types.                                                                  *)

TlbType == [type : Types, page : Pages, frame : Frames, checked : BOOLEAN]
IcacheType == [page : Pages, off : Offsets, word : Pte]
LegalEntries ==
  mseccfg.mml \/ \A i \in Entries : "W" \in pmpcfg[i].perms => "R" \in pmpcfg[i].perms

LEMMA ReachType ==
  ASSUME NEW cache \in SUBSET TlbType, NEW type \in Types, NEW p \in Pages, NEW o,
         NEW f \in Frames, Reach(cache, type, p, o, f)
  PROVE  tlb' \subseteq TlbType
<1>1. [type |-> type, page |-> p, frame |-> f, checked |-> type \in checks] \in TlbType
  BY DEF TlbType
<1>. QED BY <1>1 DEF Reach, refill_tlb

LEMMA AccessType ==
  ASSUME TypeOK, NEW p \in Pages, NEW o \in Offsets, AccessStep(p, o)
  PROVE  TypeOK'
<1> DEFINE w(f) == WordAt(f, o)
<1>1. \A f \in Frames : w(f) \in Words /\ mem[w(f)] \in Pte
  BY WordOfFrame DEF TypeOK
<1>2. tlb \subseteq TlbType /\ {} \subseteq TlbType /\ Types = {"fetch", "load", "store"}
  BY DEF TypeOK, TlbType, Types
<1>3. CASE Fetch(p, o)
  <2>1. PICK f \in Frames :
       /\ tlb' = tlb \/ Reach(tlb, "fetch", p, o, f)
       /\ icache' = {e \in icache : icache_index(e.page, e.off) # icache_index(p, o)}
                    \cup {[page |-> p, off |-> o, word |-> mem[WordAt(f, o)]]}
    BY <1>3 DEF Fetch
  <2>2. tlb' \subseteq TlbType
    BY <2>1, <1>2, ReachType
  <2>3. [page |-> p, off |-> o, word |-> mem[WordAt(f, o)]] \in IcacheType
    BY <1>1 DEF IcacheType
  <2>4. icache' \subseteq IcacheType
    BY <2>1, <2>3 DEF TypeOK, IcacheType
  <2>. QED BY <2>2, <2>4, <1>3 DEF Fetch, TypeOK, watch, pmpvars, TlbType, IcacheType
<1>4. ASSUME NEW type \in Types, NEW f \in Frames, DataSlow(type, p, o, f)
      PROVE  tlb' \subseteq TlbType /\ icache' \subseteq icache /\ matched' \in BOOLEAN
  BY <1>2, <1>4, ReachType DEF DataSlow, TypeOK
<1>5. Since(written) \subseteq Words /\ Since(iwritten) \subseteq Words
  BY DEF Since, TypeOK
<1>6. CASE Load(p, o)
  <2>1. tlb' \subseteq TlbType /\ icache' \subseteq icache /\ matched' \in BOOLEAN
    BY <1>2, <1>4, <1>6 DEF Load
  <2>2. written' \subseteq Words /\ iwritten' \subseteq Words
    BY <1>5, <1>6 DEF Load
  <2>. QED BY <2>1, <2>2, <1>6 DEF Load, TypeOK, pmpvars, TlbType
<1>7. CASE Probe(p, o)
  <2>1. tlb' \subseteq TlbType
    BY <1>2, <1>7, ReachType DEF Probe
  <2>. QED BY <2>1, <1>7 DEF Probe, TypeOK, watch, pmpvars, TlbType
<1>8. ASSUME NEW c \in Pte, Store(p, o, c) PROVE TypeOK'
  <2>1. PICK f \in Frames :
       /\ \/ UNCHANGED <<tlb, icache, matched>>
          \/ DataSlow("store", p, o, f)
       /\ mem' = [mem EXCEPT ![WordAt(f, o)] = c]
       /\ written' = Since(written) \cup {WordAt(f, o)}
       /\ iwritten' = Since(iwritten) \cup {WordAt(f, o)}
    BY <1>8 DEF Store
  <2>2. tlb' \subseteq TlbType /\ icache' \subseteq icache /\ matched' \in BOOLEAN
    BY <2>1, <1>2, <1>4 DEF TypeOK
  <2>3. mem' \in [Words -> Pte]
    BY <2>1 DEF TypeOK
  <2>4. written' \subseteq Words /\ iwritten' \subseteq Words
    BY <2>1, <1>1, <1>5
  <2>. QED BY <2>2, <2>3, <2>4, <1>8 DEF Store, TypeOK, pmpvars, TlbType
<1>. QED BY <1>3, <1>6, <1>7, <1>8 DEF AccessStep

LEMMA TrapType ==
  ASSUME TypeOK, NEW p, NEW o, TrapStep(p, o)
  PROVE  TypeOK'
<1>1. PICK m \in {"S", "M"} : TakeTrap(m)
  BY DEF TrapStep, Break, Fault, Interrupt
<1>2. matched' \in BOOLEAN
  BY DEF TrapStep, Break, Fault, Interrupt, TypeOK
<1>3. status' \in Status /\ priv' \in Modes
  <2>1. priv \in Modes /\ status \in Status /\ (m = "S" => priv \in {"U", "S"})
    BY <1>1 DEF TypeOK, TakeTrap, Modes
  <2>. QED BY <1>1, <2>1 DEF TakeTrap, Status, Modes
<1>. QED BY <1>1, <1>2, <1>3 DEF TakeTrap, flush_tlb, TypeOK, pmpvars

LEMMA RegisterType ==
  ASSUME TypeOK, RegisterStep
  PROVE  TypeOK'
<1>1. status \in Status /\ priv \in Modes
  BY DEF TypeOK
<1>2. CASE Mret
  BY <1>1, <1>2 DEF Mret, flush_tlb, TypeOK, watch, pmpvars, Status, Modes
<1>3. CASE Sret
  BY <1>1, <1>3 DEF Sret, flush_tlb, TypeOK, watch, pmpvars, Status, Modes
<1>4. CASE SfenceVma
  BY <1>4 DEF SfenceVma, flush_tlb, TypeOK, watch, pmpvars
<1>5. CASE FenceI
  BY <1>5 DEF FenceI, TypeOK, watch, pmpvars
<1>6. ASSUME NEW v \in Status, WriteMstatus(v) PROVE TypeOK'
  BY <1>6 DEF WriteMstatus, maybe_flush_tlb, flush_tlb_if, flush_tlb, caches, TypeOK,
              watch, pmpvars
<1>7. ASSUME NEW v \in Status, WriteSstatus(v) PROVE TypeOK'
  <2>1. status' \in Status
    BY <1>1, <1>7 DEF WriteSstatus, Status
  <2>. QED BY <2>1, <1>7 DEF WriteSstatus, maybe_flush_tlb, flush_tlb_if, flush_tlb,
              caches, TypeOK, watch, pmpvars
<1>8. ASSUME NEW v \in Satp, WriteSatp(v) PROVE TypeOK'
  BY <1>8 DEF WriteSatp, flush_tlb_if, flush_tlb, caches, TypeOK, watch, pmpvars
<1>9. ASSUME NEW t \in Trigger, SetTrigger(t) PROVE TypeOK'
  <2>1. trigger' \in Trigger /\ checks' \subseteq Types
    BY <1>9 DEF SetTrigger, Trigger
  <2>. QED BY <2>1, <1>9 DEF SetTrigger, flush_tlb, TypeOK, pmpvars
<1>. QED BY <1>2, <1>3, <1>4, <1>5, <1>6, <1>7, <1>8, <1>9 DEF RegisterStep

LEMMA LegalType ==
  ASSUME NEW c \in Cfg
  PROVE  /\ Legal(c) \in Cfg /\ Legal(c).l = c.l
         /\ mseccfg.mml \/ ("W" \in Legal(c).perms => "R" \in Legal(c).perms)
  BY DEF Legal, Cfg

LEMMA PmpType ==
  ASSUME TypeOK, WritePmp
  PROVE  TypeOK'
<1>1. program \in Program
  BY ProgramsAssumption DEF TypeOK
<1>2. PmpTyped /\ LegalEntries
  BY DEF TypeOK, PmpTyped, LegalEntries
<1>3. ASSUME NEW i \in Entries, NEW v \in program.pmpaddr, WritePmpaddr(i, v)
      PROVE  PmpTyped' /\ LegalEntries'
  BY <1>1, <1>2, <1>3 DEF WritePmpaddr, PmpTyped, LegalEntries, Program
<1>4. ASSUME NEW r, NEW c \in program.pmpcfg, WritePmpcfg(r, c)
      PROVE  PmpTyped' /\ LegalEntries'
  <2>1. c \in [Entries -> Cfg] /\ pmpcfg \in [Entries -> Cfg]
    BY <1>1, <1>2 DEF Program, PmpTyped
  <2>2. \A i \in Entries : Legal(c[i]) \in Cfg
    BY <2>1, LegalType
  <2>3. pmpcfg' \in [Entries -> Cfg]
    BY <1>4, <2>1, <2>2 DEF WritePmpcfg
  <2>4. \A i \in Entries : pmpcfg'[i] \in {Legal(c[i]), pmpcfg[i]}
    BY <1>4 DEF WritePmpcfg
  <2>5. LegalEntries'
    BY <1>2, <1>4, <2>1, <2>4, LegalType DEF LegalEntries, WritePmpcfg
  <2>. QED BY <2>3, <2>5, <1>2, <1>4 DEF PmpTyped, WritePmpcfg
<1>5. ASSUME NEW v \in program.mseccfg, WriteMseccfg(v)
      PROVE  PmpTyped' /\ LegalEntries'
  <2>1. v \in Mseccfg /\ mseccfg \in Mseccfg
    BY <1>1, <1>2 DEF Program, PmpTyped
  <2>. QED BY <2>1, <1>2, <1>5 DEF WriteMseccfg, PmpTyped, LegalEntries, Mseccfg
<1>6. PmpTyped' /\ LegalEntries'
  BY <1>3, <1>4, <1>5 DEF WritePmp
<1>. QED BY <1>6 DEF WritePmp, flush_tlb, TypeOK, watch, PmpTyped, LegalEntries

LEMMA InitType == Init => TypeOK
<1> SUFFICES ASSUME Init PROVE TypeOK
  OBVIOUS
<1>1. program \in Program
  BY ProgramsAssumption DEF Init
<1>2. mem \in [Words -> Pte]
  BY <1>1 DEF Init, Program
<1>3. PmpTyped /\ LegalEntries
  <2>1. pmpaddr \in [Entries -> PmpValue]
    BY PmpAssumption DEF Init, PmpInit
  <2>2. pmpcfg \in [Entries -> Cfg] /\ LegalEntries
    BY DEF Init, PmpInit, Cfg, LegalEntries
  <2>3. mseccfg \in Mseccfg
    BY DEF Init, PmpInit, Mseccfg
  <2>. QED BY <2>1, <2>2, <2>3 DEF PmpTyped
<1>. QED BY <1>1, <1>2, <1>3 DEF Init, TypeOK, PmpTyped, LegalEntries, Status, Satp,
            Modes, Trigger

(* TypeOK holds in every reachable state.                                  *)
THEOREM TypeCorrect == Spec => []TypeOK
<1>1. TypeOK /\ [Next]_vars => TypeOK'
  <2> SUFFICES ASSUME TypeOK, [Next]_vars PROVE TypeOK'
    OBVIOUS
  <2>1. CASE UNCHANGED vars
    BY <2>1 DEF vars, caches, watch, pmpvars, TypeOK
  <2>. QED BY <2>1, StepCases, AccessType, TrapType, RegisterType, PmpType
<1>. QED BY <1>1, InitType, PTL DEF Spec

-----------------------------------------------------------------------------
(* The locks of the PMP.                                                   *)

(* What a locked entry holds for does not move: neither its own address    *)
(* nor, when it is the upper end of a range, the one below it.             *)
LEMMA LockedKept ==
  ASSUME TypeOK, WritePmp, NEW i \in Entries, Locked(i)
  PROVE  /\ Locked(i)' /\ pmpcfg'[i] = pmpcfg[i]
         /\ \A w \in Words : match4(i, w)' = match4(i, w)
<1>1. pmpcfg[i].l = TRUE /\ mseccfg.rlb = FALSE
  BY DEF Locked, TypeOK, Cfg, Mseccfg
<1>2. pmpcfg'[i] = pmpcfg[i]
  BY <1>1 DEF WritePmp, WritePmpaddr, WritePmpcfg, WriteMseccfg, Accepted, TypeOK
<1>3. mseccfg'.rlb = FALSE
  <2>1. CASE UNCHANGED mseccfg
    BY <1>1, <2>1
  <2>2. ASSUME NEW v, WriteMseccfg(v) PROVE mseccfg'.rlb = FALSE
    <3>1. ~mseccfg.rlb /\ \E k \in Entries : pmpcfg[k].l
      BY <1>1
    <3>2. mseccfg'.rlb = IF ~mseccfg.rlb /\ \E k \in Entries : pmpcfg[k].l
                         THEN FALSE ELSE v.rlb
      BY <2>2 DEF WriteMseccfg
    <3>. QED BY <3>1, <3>2
  <2>. QED BY <2>1, <2>2 DEF WritePmp, WritePmpaddr, WritePmpcfg
<1>4. pmpaddr'[i] = pmpaddr[i] /\ (pmpcfg[i].a = "TOR" => TorBase(i)' = TorBase(i))
  <2>1. CASE UNCHANGED pmpaddr
    BY <2>1 DEF TorBase
  <2>2. ASSUME NEW j \in Entries, NEW v, WritePmpaddr(j, v)
        PROVE  pmpaddr'[i] = pmpaddr[i] /\ (pmpcfg[i].a = "TOR" => TorBase(i)' = TorBase(i))
    <3>1. j # i
      BY <2>2 DEF WritePmpaddr
    <3>2. pmpcfg[i].a = "TOR" => j + 1 # i
      BY <2>2 DEF WritePmpaddr, next_locked_and_tor
    <3>3. \A k \in Entries : k # j => pmpaddr'[k] = pmpaddr[k]
      BY <2>2 DEF WritePmpaddr, TypeOK
    <3>4. j \in Int /\ i \in Int /\ (i # 0 => i - 1 \in Entries)
      BY PmpAssumption, SMT DEF Entries
    <3>5. pmpcfg[i].a = "TOR" => (i # 0 => i - 1 # j)
      BY <3>2, <3>4, SMT
    <3>. QED BY <3>1, <3>3, <3>4, <3>5 DEF TorBase
  <2>. QED BY <2>1, <2>2 DEF WritePmp, WritePmpcfg, WriteMseccfg
<1>5. \A w \in Words : match4(i, w)' = match4(i, w)
  BY <1>2, <1>4 DEF match4, IsSpan
<1>. QED BY <1>1, <1>2, <1>3, <1>5 DEF Locked

(* LocksHold, from the types alone.                                        *)
THEOREM LocksAreKept == Spec => LocksHold
<1>1. TypeOK /\ [Next]_vars =>
        [\A i \in Entries : Locked(i) =>
           /\ Locked(i)' /\ pmpcfg'[i] = pmpcfg[i]
           /\ \A w \in Words : match4(i, w)' = match4(i, w)]_vars
  <2> SUFFICES ASSUME TypeOK, [Next]_vars, NEW i \in Entries, Locked(i)
               PROVE  /\ Locked(i)' /\ pmpcfg'[i] = pmpcfg[i]
                      /\ \A w \in Words : match4(i, w)' = match4(i, w)
    OBVIOUS
  <2>1. WritePmp \/ UNCHANGED <<pmpaddr, pmpcfg, mseccfg>>
    <3>1. ASSUME NEW p, NEW o, TrapStep(p, o) PROVE UNCHANGED <<pmpaddr, pmpcfg, mseccfg>>
      BY <3>1, TrapFrame DEF TakeTrap, pmpvars
    <3>2. CASE UNCHANGED vars
      BY <3>2 DEF vars, pmpvars
    <3>3. ASSUME NEW p, NEW o, AccessStep(p, o) PROVE UNCHANGED <<pmpaddr, pmpcfg, mseccfg>>
      BY <3>3, AccessFrame
    <3>. QED BY <3>1, <3>2, <3>3, StepCases, RegisterFrame
  <2>2. CASE UNCHANGED <<pmpaddr, pmpcfg, mseccfg>>
    BY <2>2 DEF Locked, match4, IsSpan, TorBase
  <2>. QED BY <2>1, <2>2, LockedKept
<1>. QED BY <1>1, TypeCorrect, PTL DEF Spec, LocksHold

-----------------------------------------------------------------------------
(* The modes, and the triggers.                                            *)

(* Outside M-mode MPRV is clear.                                           *)
THEOREM MprvStaysInMachine == Spec => []MprvOnlyInMachine
<1>1. Init => MprvOnlyInMachine
  BY DEF Init, MprvOnlyInMachine
<1>2. TypeOK /\ MprvOnlyInMachine /\ [Next]_vars => MprvOnlyInMachine'
  <2> SUFFICES ASSUME TypeOK, MprvOnlyInMachine, [Next]_vars, priv' # "M"
               PROVE  ~status'.mprv
    BY DEF MprvOnlyInMachine
  <2>1. status \in Status /\ priv \in Modes
    BY DEF TypeOK
  <2>2. CASE UNCHANGED <<priv, status>>
    BY <2>2 DEF MprvOnlyInMachine
  <2>3. ASSUME NEW m \in {"S", "M"}, TakeTrap(m) PROVE ~status'.mprv
    BY <2>1, <2>3 DEF TakeTrap, MprvOnlyInMachine, Status
  <2>4. CASE Mret
    BY <2>1, <2>4 DEF Mret, Status
  <2>5. CASE Sret
    BY <2>1, <2>5 DEF Sret, Status
  <2>6. ASSUME NEW v, WriteSstatus(v) PROVE ~status'.mprv
    BY <2>1, <2>6 DEF WriteSstatus, Status, MprvOnlyInMachine
  <2>7. ASSUME NEW v, WriteMstatus(v) PROVE FALSE
    BY <2>7 DEF WriteMstatus
  <2>8. CASE RegisterStep
    <3>1. CASE SfenceVma \/ FenceI \/ \E v : WriteSatp(v) \/ SetTrigger(v)
      <4>1. UNCHANGED <<priv, status>>
        BY <3>1 DEF SfenceVma, FenceI, WriteSatp, SetTrigger
      <4>. QED BY <2>2, <4>1
    <3>. QED BY <2>4, <2>5, <2>6, <2>7, <2>8, <3>1 DEF RegisterStep
  <2>9. CASE WritePmp
    BY <2>2, <2>9 DEF WritePmp
  <2>10. CASE UNCHANGED vars
    BY <2>2, <2>10 DEF vars
  <2>. QED BY <2>2, <2>3, <2>8, <2>9, <2>10, StepCases, AccessFrame, TrapFrame
<1>. QED BY <1>1, <1>2, TypeCorrect, PTL DEF Spec

(* check_triggers_* say what the trigger watches, a TLB entry of a watched *)
(* access is tagged, and while a trigger waits nothing is cached that a    *)
(* fetch could use.                                                        *)
WatchInv ==
  /\ checks = IF trigger = None THEN {} ELSE trigger.ops
  /\ \A e \in tlb : e.type \in checks => e.checked
  /\ matched => icache = {} /\ \A e \in tlb : e.type # "fetch"

LEMMA ReachTags ==
  ASSUME NEW cache, NEW type, NEW p, NEW o, NEW f, Reach(cache, type, p, o, f),
         \A e \in cache : e.type \in checks => e.checked
  PROVE  /\ \A e \in tlb' : e.type \in checks => e.checked
         /\ \A e \in tlb' : e \in cache \/ e.type = type
<1>1. \A e \in refill_tlb(cache, type, p, f) :
        \/ e \in cache
        \/ e = [type |-> type, page |-> p, frame |-> f, checked |-> type \in checks]
  BY DEF refill_tlb
<1>2. \A e \in tlb' :
        \/ e \in cache
        \/ e = [type |-> type, page |-> p, frame |-> f, checked |-> type \in checks]
  BY <1>1 DEF Reach
<1>3. \A e : e = [type |-> type, page |-> p, frame |-> f, checked |-> type \in checks] =>
        e.type = type /\ e.checked = (type \in checks)
  OBVIOUS
<1>. QED BY <1>2, <1>3

LEMMA AccessWatch ==
  ASSUME WatchInv, NEW p, NEW o, AccessStep(p, o)
  PROVE  WatchInv'
<1>1. trigger' = trigger /\ checks' = checks
  BY AccessFrame
<1>2. ASSUME NEW type, type # "fetch", NEW f, DataSlow(type, p, o, f)
      PROVE  WatchInv'
  <2>1. CASE MatchAfter(type, p, o) /\ Reach({}, type, p, o, f) /\ icache' = {}
    <3>1. /\ \A e \in tlb' : e.type \in checks => e.checked
          /\ \A e \in tlb' : e.type = type
      <4>1. \A e \in {} : e.type \in checks => e.checked
        OBVIOUS
      <4>. QED BY ONLY <2>1, <4>1, ReachTags
    <3>. QED BY <1>1, <1>2, <2>1, <3>1 DEF WatchInv
  <2>2. CASE Reach(tlb, type, p, o, f) /\ UNCHANGED <<icache, matched>>
    <3>1. /\ \A e \in tlb' : e.type \in checks => e.checked
          /\ \A e \in tlb' : e \in tlb \/ e.type = type
      BY <2>2, ReachTags DEF WatchInv
    <3>. QED BY <1>1, <1>2, <2>2, <3>1 DEF WatchInv
  <2>. QED BY <1>2, <2>1, <2>2 DEF DataSlow
<1>3. CASE UNCHANGED <<tlb, icache, matched>>
  BY <1>1, <1>3 DEF WatchInv
<1>4. CASE Fetch(p, o)
  <2>1. ~matched /\ ~matched'
    BY <1>4 DEF Fetch, WatchInv, Hits, watch
  <2>2. \A e \in tlb' : e.type \in checks => e.checked
    BY <1>4, ReachTags DEF Fetch, WatchInv
  <2>. QED BY <1>1, <2>1, <2>2 DEF WatchInv
<1>5. CASE Probe(p, o)
  <2>1. PICK f \in Frames : Reach(tlb, "store", p, o, f)
    BY <1>5 DEF Probe
  <2>2. /\ \A e \in tlb' : e.type \in checks => e.checked
        /\ \A e \in tlb' : e \in tlb \/ e.type = "store"
    BY <2>1, ReachTags DEF WatchInv
  <2>3. icache' = icache /\ matched' = matched
    BY <1>5 DEF Probe, watch
  <2>. QED BY <1>1, <2>2, <2>3 DEF WatchInv
<1>6. CASE Load(p, o)
  BY <1>2, <1>6 DEF Load
<1>7. ASSUME NEW c \in Pte, Store(p, o, c) PROVE WatchInv'
  BY <1>2, <1>3, <1>7 DEF Store
<1>. QED BY <1>4, <1>5, <1>6, <1>7 DEF AccessStep

LEMMA WatchStep == TypeOK /\ WatchInv /\ [Next]_vars => WatchInv'
<1> SUFFICES ASSUME TypeOK, WatchInv, [Next]_vars PROVE WatchInv'
  OBVIOUS
<1>1. CASE UNCHANGED <<tlb, trigger, checks, matched, icache>>
  BY <1>1 DEF WatchInv
<1>2. CASE flush_tlb /\ UNCHANGED <<trigger, checks>>
  BY <1>2 DEF WatchInv, flush_tlb
<1>3. ASSUME NEW t \in Trigger, SetTrigger(t) PROVE WatchInv'
  <2>0. tlb' = {} /\ icache' = {}
    BY <1>3 DEF SetTrigger, flush_tlb
  <2>1. CASE t = None
    BY <1>3, <2>0, <2>1 DEF SetTrigger, WatchInv
  <2>2. CASE t # None
    <3>1. t \in [ops : SUBSET Types, page : Pages, off : Offsets,
                 after : BOOLEAN, modes : SUBSET Modes]
      BY <2>2 DEF Trigger
    <3>2. trigger' = [t EXCEPT !.after = @ /\ "fetch" \notin t.ops] /\ checks' = t.ops
      BY <1>3, <2>2 DEF SetTrigger
    <3>3. trigger'.ops = t.ops
      BY <3>1, <3>2
    <3>4. trigger' \in [ops : SUBSET Types, page : Pages, off : Offsets,
                        after : BOOLEAN, modes : SUBSET Modes]
      BY <3>1, <3>2
    <3>5. trigger' # None
      BY <3>4, NoneAssumption
    <3>. QED BY <2>0, <3>2, <3>3, <3>5 DEF WatchInv
  <2>. QED BY <2>1, <2>2
<1>4. CASE FenceI
  BY <1>4 DEF FenceI, WatchInv, watch
<1>5. ASSUME NEW p \in Pages, NEW o \in Offsets, TrapStep(p, o) PROVE WatchInv'
  BY <1>2, <1>5, TrapFrame DEF TakeTrap
<1>6. ASSUME NEW c, flush_tlb_if(c), UNCHANGED watch PROVE WatchInv'
  BY <1>1, <1>2, <1>6 DEF flush_tlb_if, caches, watch
<1>7. CASE Mret \/ Sret \/ SfenceVma
  BY <1>2, <1>7 DEF Mret, Sret, SfenceVma, watch
<1>8. ASSUME NEW v, WriteMstatus(v) \/ WriteSstatus(v) \/ WriteSatp(v) PROVE WatchInv'
  BY <1>6, <1>8 DEF WriteMstatus, WriteSstatus, WriteSatp, maybe_flush_tlb
<1>9. CASE WritePmp
  BY <1>2, <1>9 DEF WritePmp, watch
<1>10. CASE UNCHANGED vars
  BY <1>1, <1>10 DEF vars, caches, watch
<1>11. CASE RegisterStep
  BY <1>3, <1>4, <1>7, <1>8, <1>11 DEF RegisterStep
<1>. QED BY <1>5, <1>9, <1>10, <1>11, StepCases, AccessWatch

(* The triggers are watched as WatchInv says in every reachable state.    *)
THEOREM WatchesHold == Spec => []WatchInv
<1>1. Init => WatchInv
  BY DEF Init, WatchInv
<1>. QED BY <1>1, WatchStep, TypeCorrect, PTL DEF Spec

(* No access a trigger watches takes the fast path.                        *)
THEOREM WatchedAccessesAreChecked == Spec => []TriggersAreChecked
<1>1. WatchInv => TriggersAreChecked
  BY DEF WatchInv, TriggersAreChecked, FastHit, Hits
<1>. QED BY <1>1, WatchesHold, PTL

(* No fetch takes the fast path while a trigger waits.                     *)
THEOREM PendingTriggersTaken == Spec => []PendingTriggersAreTaken
<1>1. WatchInv => PendingTriggersAreTaken
  BY DEF WatchInv, PendingTriggersAreTaken, FastHit, Hits
<1>. QED BY <1>1, WatchesHold, PTL

-----------------------------------------------------------------------------
(* The caches answer what a walk would.                                    *)

EntryFresh(e) ==
  PteWords(e.page, EffPriv(e.type)) \cap written = {} =>
    \A o \in Offsets : translate(e.page, o, e.type, e.frame)
InsnFresh(e) ==
  PteWords(e.page, priv) \cap written = {} =>
    \E f \in Frames :
      /\ translate(e.page, e.off, "fetch", f)
      /\ WordAt(f, e.off) \in iwritten \/ mem[WordAt(f, e.off)] = e.word
Fresh == (\A e \in tlb : EntryFresh(e)) /\ (\A e \in icache : InsnFresh(e))

(* The walk reads words of memory.                                         *)
LEMMA TableWords ==
  ASSUME TypeOK, NEW p \in Pages, satp # None
  PROVE  RootPte(p) \in Words /\ LeafPte(p) \in Words
<1>1. satp \in Frames
  BY DEF TypeOK, Satp
<1>2. RootPte(p) \in Words
  BY <1>1, PageParts, WordOfFrame DEF RootPte
<1>3. mem[RootPte(p)].ppn \in Frames
  BY <1>2 DEF TypeOK, Pte
<1>. QED BY <1>2, <1>3, PageParts, WordOfFrame DEF LeafPte

(* A step that changes nothing the walk of a page asks.                    *)
Quiet(D) ==
  /\ priv' = priv /\ satp' = satp
  /\ status'.mprv = status.mprv /\ status'.mpp = status.mpp
  /\ status'.sum = status.sum /\ status'.mxr = status.mxr
  /\ pmpaddr' = pmpaddr /\ pmpcfg' = pmpcfg /\ mseccfg' = mseccfg
  /\ \A w \in Words \ D : mem'[w] = mem[w]

LEMMA QuietPmp ==
  ASSUME NEW D, Quiet(D), NEW ws, NEW type, NEW mode
  PROVE  pmp_ok(ws, type, mode)' = pmp_ok(ws, type, mode)
  BY DEF Quiet, pmp_ok, Touches, match4, IsSpan, TorBase, access_ok

LEMMA SameWalk ==
  ASSUME TypeOK, NEW D, Quiet(D), NEW p \in Pages, NEW type, NEW f,
         PteWords(p, EffPriv(type))' \cap D = {}
  PROVE  /\ PteWords(p, EffPriv(type))' = PteWords(p, EffPriv(type))
         /\ walk(p, type, EffPriv(type), f) => walk(p, type, EffPriv(type), f)'
<1>1. EffPriv(type)' = EffPriv(type)
  BY DEF EffPriv, Quiet
<1> DEFINE mode == EffPriv(type)
<1>2. Bare(mode)' = Bare(mode)
  BY <1>1 DEF Bare, Quiet
<1>3. CASE Bare(mode)
  BY <1>2, <1>3 DEF PteWords, walk
<1>4. CASE ~Bare(mode)
  <2>1. satp # None
    BY <1>4 DEF Bare
  <2>2. RootPte(p)' = RootPte(p) /\ RootPte(p) \in Words /\ RootPte(p) \notin D
    BY <1>2, <1>4, <2>1, TableWords DEF RootPte, PteWords, Quiet, WordAt
  <2>3. mem[RootPte(p)]' = mem[RootPte(p)]
    BY <2>2 DEF Quiet
  <2>4. LeafPte(p)' = LeafPte(p) /\ LeafPte(p) \in Words
    BY <2>1, <2>3, TableWords DEF LeafPte, WordAt
  <2>5. PteWords(p, mode)' = PteWords(p, mode)
    BY <1>2, <1>4, <2>2, <2>3, <2>4 DEF PteWords, Table
  <2>6. Table(mem[RootPte(p)]) => mem[LeafPte(p)]' = mem[LeafPte(p)]
    <3>1. ASSUME Table(mem[RootPte(p)]) PROVE LeafPte(p) \notin D
      BY <1>4, <2>5, <3>1 DEF PteWords
    <3>. QED BY <2>4, <3>1 DEF Quiet
  <2>7. \A w : Readable(w)' = Readable(w)
    BY QuietPmp DEF Readable
  <2>8. \A q, m : Permits(q, type, m)' = Permits(q, type, m)
    BY DEF Permits, Quiet
  <2>9. ASSUME walk(p, type, mode, f) PROVE walk(p, type, mode, f)'
    <3> DEFINE root == mem[RootPte(p)]
    <3>1. Readable(RootPte(p)) /\ ~Bare(mode)' /\ Readable(RootPte(p))'
      BY <1>2, <1>4, <2>2, <2>7, <2>9 DEF walk
    <3>2. CASE Permits(root, type, mode) /\ root.ppn % PageWords = 0
                 /\ f = root.ppn + (p % PageWords)
      <4>1. Permits(root, type, mode)'
        BY <1>1, <2>3, <2>8, <3>2
      <4>. QED BY <2>3, <3>1, <3>2, <4>1 DEF walk
    <3>3. CASE /\ Table(root) /\ root.flags \cap {"D", "A", "U"} = {}
               /\ Readable(LeafPte(p)) /\ Permits(mem[LeafPte(p)], type, mode)
               /\ f = mem[LeafPte(p)].ppn
      <4>1. mem[LeafPte(p)]' = mem[LeafPte(p)]
        BY <2>6, <3>3
      <4>2. Readable(LeafPte(p))' /\ Permits(mem[LeafPte(p)], type, mode)'
        BY <1>1, <2>4, <2>7, <2>8, <3>3, <4>1
      <4>. QED BY <2>3, <3>1, <3>3, <4>1, <4>2 DEF walk, Table
    <3>. QED BY <1>4, <2>9, <3>2, <3>3 DEF walk
  <2>. QED BY <2>5, <2>9
<1>. QED BY <1>3, <1>4

LEMMA EntryCarried ==
  ASSUME TypeOK, NEW D, Quiet(D), written \cup D \subseteq written',
         NEW e, e.page \in Pages, EntryFresh(e)
  PROVE  EntryFresh(e)'
<1> SUFFICES ASSUME PteWords(e.page, EffPriv(e.type))' \cap written' = {}
             PROVE  \A o \in Offsets : translate(e.page, o, e.type, e.frame)'
  BY DEF EntryFresh
<1>1. PteWords(e.page, EffPriv(e.type))' \cap D = {}
  OBVIOUS
<1>2. PteWords(e.page, EffPriv(e.type)) \cap written = {}
  BY <1>1, SameWalk
<1>3. \A o \in Offsets : translate(e.page, o, e.type, e.frame)
  BY <1>2 DEF EntryFresh
<1>4. EffPriv(e.type)' = EffPriv(e.type)
  BY DEF EffPriv, Quiet
<1>. QED BY <1>1, <1>3, <1>4, SameWalk, QuietPmp DEF translate

LEMMA InsnCarried ==
  ASSUME TypeOK, NEW D, Quiet(D), written \cup D \subseteq written',
         iwritten \cup D \subseteq iwritten',
         NEW e, e.page \in Pages, e.off \in Offsets, InsnFresh(e)
  PROVE  InsnFresh(e)'
<1> SUFFICES ASSUME PteWords(e.page, priv)' \cap written' = {}
             PROVE  \E f \in Frames :
                      /\ translate(e.page, e.off, "fetch", f)'
                      /\ WordAt(f, e.off) \in iwritten' \/ mem'[WordAt(f, e.off)] = e.word
  BY DEF InsnFresh, WordAt
<1>1. EffPriv("fetch") = priv /\ EffPriv("fetch")' = priv'
  BY DEF EffPriv
<1>2. PteWords(e.page, EffPriv("fetch"))' \cap D = {}
  BY <1>1
<1>3. PteWords(e.page, priv) \cap written = {}
  BY <1>1, <1>2, SameWalk
<1>4. PICK f \in Frames : /\ translate(e.page, e.off, "fetch", f)
                          /\ WordAt(f, e.off) \in iwritten \/ mem[WordAt(f, e.off)] = e.word
  BY <1>3 DEF InsnFresh
<1>5. translate(e.page, e.off, "fetch", f)'
  BY <1>1, <1>2, <1>4, SameWalk, QuietPmp DEF translate, Quiet
<1>6. WordAt(f, e.off) \in iwritten' \/ mem'[WordAt(f, e.off)] = e.word
  BY <1>4, WordOfFrame DEF Quiet
<1>. QED BY <1>5, <1>6

(* What the slow path leaves in the TLBs is fresh before memory changes.   *)
LEMMA ReachFresh ==
  ASSUME TypeOK, NEW cache \in SUBSET TlbType, \A e \in cache : EntryFresh(e),
         NEW type \in Types, NEW p \in Pages, NEW o \in Offsets, NEW f \in Frames,
         Reach(cache, type, p, o, f)
  PROVE  \A e \in tlb' : e.page \in Pages /\ EntryFresh(e)
<1> DEFINE new == [type |-> type, page |-> p, frame |-> f, checked |-> type \in checks]
<1>1. CASE tlb' = cache
  BY <1>1 DEF TlbType
<1>2. CASE translate(p, o, type, f) /\ pmp_homogeneous(f)
             /\ \A e \in tlb' : e \in cache \/ e = new
  <2>1. PmpTyped
    BY DEF TypeOK, PmpTyped
  <2>2. \A q \in Offsets : translate(p, q, type, f)
    BY <1>2, <2>1, HomogeneousPage DEF translate
  <2>3. new.page = p /\ new.type = type /\ new.frame = f
    OBVIOUS
  <2>4. EntryFresh(new)
    BY <2>2, <2>3 DEF EntryFresh
  <2>. QED BY <1>2, <2>3, <2>4 DEF TlbType
<1>. QED BY <1>1, <1>2 DEF Reach, refill_tlb

(* Caches that only lose entries in a quiet step stay fresh.               *)
LEMMA CachesCarried ==
  ASSUME TypeOK, NEW D, Quiet(D), written \cup D \subseteq written',
         iwritten \cup D \subseteq iwritten',
         \A e \in tlb' : e.page \in Pages /\ EntryFresh(e),
         icache' \subseteq icache, \A e \in icache : InsnFresh(e)
  PROVE  Fresh'
<1>1. \A e \in tlb' : EntryFresh(e)'
  BY EntryCarried
<1>2. \A e \in icache : e.page \in Pages /\ e.off \in Offsets
  BY DEF TypeOK
<1>3. \A e \in icache' : InsnFresh(e)'
  BY <1>2, InsnCarried
<1>. QED BY <1>1, <1>3 DEF Fresh, EntryFresh, InsnFresh

(* A match AFTER has emptied the caches: nothing is known of them before.  *)
LEMMA EntriesCarried ==
  ASSUME TypeOK, NEW D, Quiet(D), D \subseteq written', icache' = {},
         \A e \in tlb' : e.page \in Pages /\ \A o \in Offsets : translate(e.page, o, e.type, e.frame)
  PROVE  Fresh'
<1> SUFFICES ASSUME NEW e \in tlb' PROVE EntryFresh(e)'
  BY DEF Fresh, EntryFresh, InsnFresh
<1> SUFFICES ASSUME PteWords(e.page, EffPriv(e.type))' \cap written' = {}
             PROVE  \A o \in Offsets : translate(e.page, o, e.type, e.frame)'
  BY DEF EntryFresh
<1>1. PteWords(e.page, EffPriv(e.type))' \cap D = {}
  OBVIOUS
<1>2. EffPriv(e.type)' = EffPriv(e.type)
  BY DEF EffPriv, Quiet
<1>. QED BY <1>1, <1>2, SameWalk, QuietPmp DEF translate

(* What the slow path finds from no entries at all.                        *)
LEMMA ReachNew ==
  ASSUME TypeOK, NEW type \in Types, NEW p \in Pages, NEW o \in Offsets, NEW f \in Frames,
         Reach({}, type, p, o, f)
  PROVE  \A e \in tlb' : e.page \in Pages
                         /\ \A q \in Offsets : translate(e.page, q, e.type, e.frame)
<1> DEFINE new == [type |-> type, page |-> p, frame |-> f, checked |-> type \in checks]
<1>1. CASE tlb' = {}
  BY <1>1
<1>2. CASE translate(p, o, type, f) /\ pmp_homogeneous(f) /\ \A e \in tlb' : e = new
  <2>1. PmpTyped
    BY DEF TypeOK, PmpTyped
  <2>2. \A q \in Offsets : translate(p, q, type, f)
    BY <1>2, <2>1, HomogeneousPage DEF translate
  <2>3. new.page = p /\ new.type = type /\ new.frame = f
    OBVIOUS
  <2>. QED BY <1>2, <2>2, <2>3
<1>. QED BY <1>1, <1>2 DEF Reach, refill_tlb

LEMMA FetchFresh ==
  ASSUME TypeOK, Fresh, NEW p \in Pages, NEW o \in Offsets, Fetch(p, o)
  PROVE  Fresh'
<1>1. Quiet({}) /\ written' = written /\ iwritten' = iwritten
  BY DEF Fetch, Quiet, pmpvars
<1>2. "fetch" \in Types /\ EffPriv("fetch") = priv /\ tlb \in SUBSET TlbType
  BY DEF Types, EffPriv, TypeOK, TlbType
<1>3. PICK f \in Frames :
       /\ \/ /\ \E e \in Hits(tlb, "fetch", p) : ~e.checked /\ f = e.frame
             /\ UNCHANGED tlb
          \/ Reach(tlb, "fetch", p, o, f)
       /\ icache' = {e \in icache : icache_index(e.page, e.off) # icache_index(p, o)}
                    \cup {[page |-> p, off |-> o, word |-> mem[WordAt(f, o)]]}
  BY DEF Fetch
<1>4. \A e \in tlb' : e.page \in Pages /\ EntryFresh(e)
  <2>1. CASE UNCHANGED tlb
    BY <2>1, <1>2 DEF Fresh, TlbType
  <2>2. CASE Reach(tlb, "fetch", p, o, f)
    BY <2>2, <1>2, ReachFresh DEF Fresh
  <2>. QED BY <1>3, <2>1, <2>2
<1>5. PteWords(p, priv) \cap written = {} => translate(p, o, "fetch", f)
  <2>1. ASSUME NEW e \in Hits(tlb, "fetch", p), f = e.frame
        PROVE  PteWords(p, priv) \cap written = {} => translate(p, o, "fetch", f)
    <3>1. e.page = p /\ e.type = "fetch" /\ e \in tlb
      BY DEF Hits
    <3>. QED BY <1>2, <2>1, <3>1 DEF Fresh, EntryFresh
  <2>. QED BY <1>3, <2>1 DEF Reach
<1> DEFINE new == [page |-> p, off |-> o, word |-> mem[WordAt(f, o)]]
<1>6. InsnFresh(new)
  <2>1. new.page = p /\ new.off = o /\ new.word = mem[WordAt(f, o)]
    OBVIOUS
  <2>. QED BY <1>5, <2>1 DEF InsnFresh
<1>7. \A e \in icache' : e.page \in Pages /\ e.off \in Offsets /\ InsnFresh(e)
  <2>1. \A e \in icache : e.page \in Pages /\ e.off \in Offsets
    BY DEF TypeOK
  <2>2. new.page = p /\ new.off = o
    OBVIOUS
  <2>. QED BY <1>3, <1>6, <2>1, <2>2 DEF Fresh
<1>8. \A e \in tlb' : EntryFresh(e)'
  BY <1>1, <1>4, EntryCarried
<1>9. \A e \in icache' : InsnFresh(e)'
  BY <1>1, <1>7, InsnCarried
<1>. QED BY <1>8, <1>9 DEF Fresh, EntryFresh, InsnFresh

(* A load or store outside the fast path, which may then write word w.      *)
LEMMA DataFresh ==
  ASSUME TypeOK, Fresh, NEW p \in Pages, NEW o \in Offsets, NEW f \in Frames,
         NEW type \in {"load", "store"}, DataSlow(type, p, o, f),
         NEW D, Quiet(D), written' = Since(written) \cup D,
         iwritten' = Since(iwritten) \cup D
  PROVE  Fresh'
<1>1. type \in Types /\ tlb \in SUBSET TlbType
  BY DEF Types, TypeOK, TlbType
<1>2. CASE Reach({}, type, p, o, f) /\ icache' = {}
  BY <1>1, <1>2, ReachNew, EntriesCarried
<1>3. CASE Reach(tlb, type, p, o, f) /\ UNCHANGED <<icache, matched>>
  <2>1. \A e \in tlb' : e.page \in Pages /\ EntryFresh(e)
    BY <1>1, <1>3, ReachFresh DEF Fresh
  <2>. QED BY <1>3, <2>1, CachesCarried DEF Since, Fresh
<1>. QED BY <1>2, <1>3 DEF DataSlow

LEMMA AccessFresh ==
  ASSUME TypeOK, Fresh, NEW p \in Pages, NEW o \in Offsets, AccessStep(p, o)
  PROVE  Fresh'
<1>1. \A D : (\A w \in Words \ D : mem'[w] = mem[w]) => Quiet(D)
  BY AccessFrame DEF Quiet
<1>2. \A e \in tlb : e.page \in Pages /\ EntryFresh(e)
  BY DEF Fresh, TypeOK
<1>3. CASE Load(p, o)
  <2>1. Quiet({})
    BY <1>1, <1>3 DEF Load
  <2>2. written' = Since(written) \cup {} /\ iwritten' = Since(iwritten) \cup {}
    BY <1>3 DEF Load
  <2>. QED BY <1>3, <2>1, <2>2, DataFresh DEF Load
<1>4. ASSUME NEW c \in Pte, Store(p, o, c) PROVE Fresh'
  <2>1. PICK f \in Frames :
       /\ \/ UNCHANGED <<tlb, icache, matched>>
          \/ DataSlow("store", p, o, f)
       /\ mem' = [mem EXCEPT ![WordAt(f, o)] = c]
       /\ written' = Since(written) \cup {WordAt(f, o)}
       /\ iwritten' = Since(iwritten) \cup {WordAt(f, o)}
    BY <1>4 DEF Store
  <2>2. Quiet({WordAt(f, o)})
    BY <1>1, <2>1 DEF TypeOK
  <2>3. CASE UNCHANGED <<tlb, icache, matched>>
    BY <1>2, <2>1, <2>2, <2>3, CachesCarried DEF Since, Fresh
  <2>. QED BY <2>1, <2>2, <2>3, DataFresh
<1>5. CASE Probe(p, o)
  <2>1. Quiet({})
    BY <1>1, <1>5 DEF Probe
  <2>2. "store" \in Types /\ tlb \in SUBSET TlbType
    BY DEF Types, TypeOK, TlbType
  <2>3. PICK f \in Frames : Reach(tlb, "store", p, o, f)
    BY <1>5 DEF Probe
  <2>4. \A e \in tlb' : e.page \in Pages /\ EntryFresh(e)
    BY <2>2, <2>3, ReachFresh DEF Fresh
  <2>5. written' = written /\ iwritten' = iwritten /\ icache' = icache
    BY <1>5 DEF Probe
  <2>. QED BY <2>1, <2>4, <2>5, CachesCarried DEF Fresh
<1>. QED BY <1>3, <1>4, <1>5, FetchFresh DEF AccessStep

LEMMA FreshStep == TypeOK /\ Fresh /\ [Next]_vars => Fresh'
<1> SUFFICES ASSUME TypeOK, Fresh, [Next]_vars PROVE Fresh'
  OBVIOUS
<1>1. CASE flush_tlb
  BY <1>1 DEF flush_tlb, Fresh, EntryFresh, InsnFresh
<1>2. \A e \in tlb : e.page \in Pages /\ EntryFresh(e)
  BY DEF Fresh, TypeOK
<1>3. CASE Quiet({}) /\ UNCHANGED caches
  BY <1>2, <1>3, CachesCarried DEF caches, Fresh
<1>4. CASE FenceI
  <2>1. Quiet({}) /\ tlb' = tlb /\ written' = written /\ icache' = {}
    BY <1>4 DEF FenceI, Quiet, pmpvars
  <2>2. \A e \in tlb' : EntryFresh(e)'
    BY <1>2, <2>1, EntryCarried
  <2>. QED BY <2>1, <2>2 DEF Fresh, EntryFresh, InsnFresh
<1>5. ASSUME NEW v, WriteMstatus(v) \/ WriteSstatus(v) \/ WriteSatp(v) PROVE Fresh'
  <2>1. ASSUME NEW new, status' = new, maybe_flush_tlb(new),
               UNCHANGED <<priv, satp, mem, pmpvars>>
        PROVE  Fresh'
    <3>1. ASSUME \A b \in {"mpp", "mprv", "sum", "mxr"} : new[b] = status[b]
          PROVE  Quiet({})
      BY <2>1, <3>1 DEF Quiet, pmpvars
    <3>. QED BY <1>1, <1>3, <2>1, <3>1 DEF maybe_flush_tlb, flush_tlb_if
  <2>2. CASE WriteSatp(v)
    <3>1. CASE v = satp
      <4>1. Quiet({})
        BY <2>2, <3>1 DEF WriteSatp, Quiet, pmpvars
      <4>. QED BY <1>3, <2>2, <3>1, <4>1 DEF WriteSatp, flush_tlb_if
    <3>. QED BY <1>1, <2>2, <3>1 DEF WriteSatp, flush_tlb_if
  <2>3. CASE WriteMstatus(v)
    BY <2>1, <2>3 DEF WriteMstatus
  <2>4. CASE WriteSstatus(v)
    BY <2>1, <2>4 DEF WriteSstatus
  <2>. QED BY <1>5, <2>2, <2>3, <2>4
<1>6. CASE RegisterStep
  <2>1. ASSUME NEW t, SetTrigger(t) PROVE flush_tlb
    BY <2>1 DEF SetTrigger
  <2>2. CASE Mret \/ Sret \/ SfenceVma
    BY <1>1, <2>2 DEF Mret, Sret, SfenceVma
  <2>. QED BY <1>1, <1>4, <1>5, <1>6, <2>1, <2>2 DEF RegisterStep
<1>7. ASSUME NEW p \in Pages, NEW o \in Offsets, TrapStep(p, o) PROVE Fresh'
  BY <1>1, <1>7, TrapFrame DEF TakeTrap
<1>8. CASE WritePmp
  BY <1>1, <1>8 DEF WritePmp
<1>9. CASE UNCHANGED vars
  <2>1. Quiet({}) /\ UNCHANGED caches
    BY <1>9 DEF vars, Quiet, pmpvars, caches
  <2>. QED BY <1>3, <2>1
<1>. QED BY <1>6, <1>7, <1>8, <1>9, StepCases, AccessFresh

(* The caches stand for the page table, the PMP and mstatus as they are:   *)
(* for every size of page, of TLB and of memory and every program.         *)
THEOREM CachesStayFresh == Spec => []CachesAreFresh
<1>1. Init => Fresh
  BY DEF Init, Fresh
<1>2. Fresh => CachesAreFresh
  BY DEF Fresh, EntryFresh, InsnFresh, CachesAreFresh
<1>. QED BY <1>1, <1>2, FreshStep, TypeCorrect, PTL DEF Spec
=============================================================================
