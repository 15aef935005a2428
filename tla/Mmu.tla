--------------------------------- MODULE Mmu ---------------------------------
(***************************************************************************)
(* The memory management unit of one hart of the bundled Spike             *)
(* (riscv/mmu.cc, riscv/mmu.h): the walk of an Sv32 page table, the TLBs   *)
(* and the instruction cache kept "for simulator performance", and the     *)
(* writes to control registers, the traps and the fences that have to      *)
(* empty them (riscv/csrs.cc, processor.cc, triggers.cc).                  *)
(*                                                                         *)
(* An address is a page and the offset of a word in it.  A page of a table *)
(* holds PageWords entries, so Sv32 reaches PageWords^2 pages; that many   *)
(* frames of memory exist.  Every word of memory can be read as a page     *)
(* table entry.  An access that hits the instruction cache, or an untagged *)
(* TLB entry without writing memory, changes nothing and is no step here.  *)
(***************************************************************************)
EXTENDS Pmp

CONSTANTS
  TlbEntries,      \* entries of each TLB (TLB_ENTRIES)
  IcacheEntries,   \* entries of the instruction cache (ICACHE_ENTRIES)
  None,            \* a satp of mode Off; no trigger
  Programs         \* what the software does: see Program

Pages == 0 .. PageWords * PageWords - 1
Frames == Pages
Offsets == 0 .. PageWords - 1
Words == 0 .. PageWords * PageWords * PageWords - 1
Pte == [flags : SUBSET {"V", "R", "W", "X", "U", "A", "D"}, ppn : Frames]
Status == [mprv : BOOLEAN, mpp : Modes, sum : BOOLEAN, mxr : BOOLEAN,
           mie : BOOLEAN, mpie : BOOLEAN, spp : {"U", "S"}]
Satp == {None} \cup Frames
(* One address trigger (mcontrol): the accesses it watches, its address,   *)
(* when it fires and the modes it is armed in.                             *)
Trigger == {None} \cup [ops : SUBSET Types, page : Pages, off : Offsets,
                        after : BOOLEAN, modes : SUBSET Modes]
(* The image in memory, the addresses the software uses and the values it  *)
(* writes to memory and to each register.                                  *)
Program == [image : [Words -> Pte], touches : SUBSET (Pages \X Offsets),
            stores : [Words -> SUBSET Pte], status : SUBSET Status,
            satp : SUBSET Satp, triggers : SUBSET Trigger,
            pmpaddr : SUBSET PmpValue, pmpcfg : SUBSET [Entries -> Cfg],
            mseccfg : SUBSET Mseccfg]

ASSUME SizesAssumption ==
  TlbEntries \in Nat \ {0} /\ IcacheEntries \in Nat \ {0}
ASSUME NoneAssumption ==
  None \notin Frames /\ None \notin [ops : SUBSET Types, page : Pages,
    off : Offsets, after : BOOLEAN, modes : SUBSET Modes]
ASSUME ProgramsAssumption == Programs \subseteq Program

VARIABLES
  program,   \* the software, chosen at the start
  priv,      \* the privilege mode (state.prv)
  status,    \* the fields of mstatus
  satp,      \* the frame of the root table, or None
  mem,       \* memory, a word at a time
  tlb,       \* the entries of tlb_insn, tlb_load and tlb_store
  icache,    \* the valid entries of the instruction cache
  trigger,   \* the one trigger software uses
  checks,    \* the accesses with check_triggers_* set
  matched,   \* a trigger that fires AFTER waits (matched_trigger)
  written,   \* history: the words stored to since the TLBs were emptied
  iwritten   \* history: ... since the instruction cache was emptied

caches == <<tlb, icache, written, iwritten>>
watch == <<trigger, checks, matched>>
vars == <<program, priv, status, satp, mem, caches, watch, pmpvars>>

Init ==
  /\ program \in Programs
  /\ priv = "M"
  /\ status = [mprv |-> FALSE, mpp |-> "U", sum |-> FALSE, mxr |-> FALSE,
               mie |-> FALSE, mpie |-> FALSE, spp |-> "U"]
  /\ satp = None /\ mem = program.image
  /\ tlb = {} /\ icache = {} /\ written = {} /\ iwritten = {}
  /\ trigger = None /\ checks = {} /\ matched = FALSE
  /\ PmpInit

-----------------------------------------------------------------------------
(* The walk: does the page table take page p to frame f for this access?   *)

EffPriv(type) == IF type # "fetch" /\ status.mprv THEN status.mpp ELSE priv
Bare(mode) == mode = "M" \/ satp = None

Table(pte) == pte.flags \cap {"V", "R", "W", "X"} = {"V"}
WordAt(f, o) == f * PageWords + o
RootPte(p) == WordAt(satp, p \div PageWords)
LeafPte(p) == WordAt(mem[RootPte(p)].ppn, p % PageWords)

Readable(w) == pmp_ok({w}, "load", "S")

Permits(pte, type, mode) ==
  LET has(b) == b \in pte.flags
  IN  /\ has("V") /\ (has("W") => has("R")) /\ has("A")
      /\ IF has("U") THEN mode = "U" \/ (type # "fetch" /\ status.sum)
                     ELSE mode = "S"
      /\ \/ type = "fetch" /\ has("X")
         \/ type = "load" /\ (has("R") \/ (status.mxr /\ has("X")))
         \/ type = "store" /\ has("W") /\ has("D")

walk(p, type, mode, f) ==
  \/ Bare(mode) /\ f = p
  \/ /\ ~Bare(mode) /\ Readable(RootPte(p))
     /\ LET root == mem[RootPte(p)]
        IN  \/ /\ Permits(root, type, mode) /\ root.ppn % PageWords = 0
               /\ f = root.ppn + (p % PageWords)
            \/ /\ Table(root) /\ root.flags \cap {"D", "A", "U"} = {}
               /\ Readable(LeafPte(p)) /\ Permits(mem[LeafPte(p)], type, mode)
               /\ f = mem[LeafPte(p)].ppn

translate(p, o, type, f) ==
  /\ walk(p, type, EffPriv(type), f)
  /\ pmp_ok({WordAt(f, o)}, type, EffPriv(type))

(* The words of the page table the walk of p depends on.                   *)
PteWords(p, mode) ==
  IF Bare(mode) THEN {}
  ELSE {RootPte(p)} \cup (IF Table(mem[RootPte(p)]) THEN {LeafPte(p)} ELSE {})

-----------------------------------------------------------------------------
(* The caches.                                                             *)

flush_tlb == tlb' = {} /\ icache' = {} /\ written' = {} /\ iwritten' = {}
flush_tlb_if(changed) == IF changed THEN flush_tlb ELSE UNCHANGED caches

Hits(cache, type, p) == {e \in cache : e.type = type /\ e.page = p}
FastHit(type, p) == \E e \in Hits(tlb, type, p) : ~e.checked

refill_tlb(cache, type, p, f) ==
  IF status.mprv \/ ~pmp_homogeneous(f) THEN cache
  ELSE {e \in cache : ~(e.type = type /\ e.page % TlbEntries = p % TlbEntries)}
       \cup {[type |-> type, page |-> p, frame |-> f, checked |-> type \in checks]}

(* The slow path, from the TLBs in cache: a tagged entry gives the frame,  *)
(* or the walk does and the TLB is refilled.                               *)
Reach(cache, type, p, o, f) ==
  \/ /\ \E e \in Hits(cache, type, p) : f = e.frame
     /\ tlb' = cache
  \/ /\ Hits(cache, type, p) = {}
     /\ translate(p, o, type, f)
     /\ tlb' = refill_tlb(cache, type, p, f)

-----------------------------------------------------------------------------
(* Traps and privilege.                                                    *)

TakeTrap(m) ==
  /\ m = "M" \/ (m = "S" /\ priv # "M")
  /\ status' = IF m = "M"
               THEN [status EXCEPT !.mpie = status.mie, !.mie = FALSE, !.mpp = priv]
               ELSE [status EXCEPT !.spp = priv]
  /\ priv' = m /\ flush_tlb
  /\ UNCHANGED <<program, satp, mem, trigger, checks, pmpvars>>

(* A trigger with the default action is inhibited in M-mode while MIE is 0. *)
Watches(type, p, o) ==
  /\ trigger # None /\ type \in trigger.ops
  /\ priv \in trigger.modes /\ (priv = "M" => status.mie)
  /\ p = trigger.page /\ o = trigger.off
MatchBefore(type, p, o) == ~matched /\ Watches(type, p, o) /\ ~trigger.after
MatchAfter(type, p, o) == ~matched /\ Watches(type, p, o) /\ trigger.after

InIcache(p, o) == \E e \in icache : e.page = p /\ e.off = o
icache_index(p, o) == WordAt(p, o) % IcacheEntries

(* An instruction is fetched on a miss of the instruction cache.           *)
Fetch(p, o) ==
  /\ <<p, o>> \in program.touches /\ ~InIcache(p, o)
  /\ \E f \in Frames :
       /\ \/ /\ \E e \in Hits(tlb, "fetch", p) : ~e.checked /\ f = e.frame
             /\ UNCHANGED tlb
          \/ /\ ~FastHit("fetch", p) /\ ~matched /\ ~Watches("fetch", p, o)
             /\ Reach(tlb, "fetch", p, o, f)
       /\ icache' = {e \in icache : icache_index(e.page, e.off) # icache_index(p, o)}
                    \cup {[page |-> p, off |-> o, word |-> mem[WordAt(f, o)]]}
  /\ UNCHANGED <<program, priv, status, satp, mem, written, iwritten, watch, pmpvars>>

\* Mutant: the access that matches AFTER leaves the caches filled.
DataSlowNoFlush(type, p, o, f) ==
  /\ ~MatchBefore(type, p, o)
  /\ matched' = (matched \/ Watches(type, p, o))
  /\ Reach(tlb, type, p, o, f)
  /\ UNCHANGED icache
(* A load or store outside the fast path: a match AFTER empties the caches *)
(* first, so that the next fetch takes the slow path and raises it.        *)
DataSlow(type, p, o, f) ==
  \/ /\ MatchAfter(type, p, o) /\ matched' = TRUE
     /\ Reach({}, type, p, o, f)
     /\ icache' = {}
  \/ /\ matched \/ ~Watches(type, p, o)
     /\ Reach(tlb, type, p, o, f)
     /\ UNCHANGED <<icache, matched>>

(* The words stored to since the caches were emptied, unless a match AFTER *)
(* empties them in this step.                                              *)
Since(set) == IF matched' = matched THEN set ELSE {}

Load(p, o) ==
  /\ <<p, o>> \in program.touches /\ ~FastHit("load", p)
  /\ \E f \in Frames : DataSlow("load", p, o, f)
  /\ written' = Since(written) /\ iwritten' = Since(iwritten)
  /\ UNCHANGED <<program, priv, status, satp, mem, trigger, checks, pmpvars>>

Store(p, o, c) ==
  /\ <<p, o>> \in program.touches
  /\ \E f \in Frames :
       /\ c \in program.stores[WordAt(f, o)]
       /\ \/ /\ \E e \in Hits(tlb, "store", p) : ~e.checked /\ f = e.frame
             /\ UNCHANGED <<tlb, icache, matched>>
          \/ ~FastHit("store", p) /\ DataSlow("store", p, o, f)
       /\ mem' = [mem EXCEPT ![WordAt(f, o)] = c]
       /\ written' = Since(written) \cup {WordAt(f, o)}
       /\ iwritten' = Since(iwritten) \cup {WordAt(f, o)}
  /\ UNCHANGED <<program, priv, status, satp, trigger, checks, pmpvars>>

(* The probe that starts an AMO: a store that stores nothing and that no   *)
(* trigger sees.                                                           *)
Probe(p, o) ==
  /\ <<p, o>> \in program.touches /\ ~FastHit("store", p)
  /\ \E f \in Frames : Reach(tlb, "store", p, o, f)
  /\ UNCHANGED <<program, priv, status, satp, mem, icache, written, iwritten,
                 watch, pmpvars>>

(* A breakpoint instead of the access: one that waited, or a match BEFORE. *)
(* Its cause is not delegated (medeleg as reset leaves it).                *)
Break(type, p, o) ==
  /\ <<p, o>> \in program.touches
  /\ ~FastHit(type, p) /\ (type = "fetch" => ~InIcache(p, o))
  /\ (type = "fetch" /\ matched) \/ MatchBefore(type, p, o)
  /\ matched' = (matched /\ type # "fetch")
  /\ TakeTrap("M")

(* A page or access fault.  A match AFTER was noted before it.             *)
Fault(type, p, o, m) ==
  /\ <<p, o>> \in program.touches
  /\ ~FastHit(type, p) /\ ~MatchBefore(type, p, o)
  /\ type = "fetch" => ~InIcache(p, o) /\ ~matched
  /\ Hits(tlb, type, p) = {} \/ MatchAfter(type, p, o)
  /\ \A f \in Frames : ~translate(p, o, type, f)
  /\ matched' = (matched \/ MatchAfter(type, p, o))
  /\ TakeTrap(m)

(* An interrupt or an environment call.                                    *)
Interrupt(m) == TakeTrap(m) /\ UNCHANGED matched

\* Mutant: sret leaves mprv as it was.
SretMprv ==
  /\ ~matched /\ priv \in {"S", "M"}
  /\ status' = [status EXCEPT !.spp = "U"]
  /\ priv' = status.spp /\ flush_tlb
  /\ UNCHANGED <<program, satp, mem, watch, pmpvars>>
Sret ==
  /\ ~matched /\ priv \in {"S", "M"}
  /\ status' = [status EXCEPT !.mprv = FALSE, !.spp = "U"]
  /\ priv' = status.spp /\ flush_tlb
  /\ UNCHANGED <<program, satp, mem, watch, pmpvars>>

Mret ==
  /\ ~matched /\ priv = "M"
  /\ status' = [status EXCEPT !.mprv = status.mprv /\ status.mpp = "M",
                              !.mie = status.mpie, !.mpie = TRUE, !.mpp = "U"]
  /\ priv' = status.mpp /\ flush_tlb
  /\ UNCHANGED <<program, satp, mem, watch, pmpvars>>

-----------------------------------------------------------------------------
(* Fences and writes to control registers.                                 *)

SfenceVma ==
  /\ ~matched /\ priv # "U"
  /\ flush_tlb
  /\ UNCHANGED <<program, priv, status, satp, mem, watch, pmpvars>>

FenceI ==
  /\ ~matched
  /\ icache' = {} /\ iwritten' = {}
  /\ UNCHANGED <<program, priv, status, satp, mem, tlb, written, watch, pmpvars>>

maybe_flush_tlb(new) ==
  flush_tlb_if(\E b \in {"mpp", "mprv", "sum", "mxr"} : new[b] # status[b])

WriteMstatus(new) ==
  /\ ~matched /\ priv = "M"
  /\ status' = new /\ maybe_flush_tlb(new)
  /\ UNCHANGED <<program, priv, satp, mem, watch, pmpvars>>

(* sstatus shows some of the fields and writes them through mstatus.       *)
WriteSstatus(v) ==
  LET new == [status EXCEPT !.sum = v.sum, !.mxr = v.mxr, !.spp = v.spp]
  IN  /\ ~matched /\ priv # "U"
      /\ status' = new /\ maybe_flush_tlb(new)
      /\ UNCHANGED <<program, priv, satp, mem, watch, pmpvars>>

WriteSatp(v) ==
  /\ ~matched /\ priv # "U"
  /\ satp' = v /\ flush_tlb_if(v # satp)
  /\ UNCHANGED <<program, priv, status, mem, watch, pmpvars>>

\* Mutant: the TLBs keep the entries filled while nothing was watched.
SetTriggerNoFlush(t) ==
  /\ ~matched /\ priv = "M"
  /\ trigger' = t /\ checks' = IF t = None THEN {} ELSE t.ops
  /\ UNCHANGED <<program, priv, status, satp, mem, matched, caches, pmpvars>>
(* A trigger that watches fetches always fires before.                     *)
SetTrigger(t) ==
  /\ ~matched /\ priv = "M"
  /\ trigger' = IF t = None THEN t ELSE [t EXCEPT !.after = @ /\ "fetch" \notin t.ops]
  /\ checks' = IF t = None THEN {} ELSE t.ops
  /\ flush_tlb
  /\ UNCHANGED <<program, priv, status, satp, mem, matched, pmpvars>>

WritePmp ==
  /\ ~matched /\ priv = "M"
  /\ \/ \E i \in Entries, v \in program.pmpaddr : WritePmpaddr(i, v)
     \/ \E i \in Entries, c \in program.pmpcfg : WritePmpcfg(i \div 4, c)
     \/ \E v \in program.mseccfg : WriteMseccfg(v)
  /\ flush_tlb
  /\ UNCHANGED <<program, priv, status, satp, mem, watch>>

Next ==
  \/ \E a \in program.touches :
       \/ Fetch(a[1], a[2]) \/ Load(a[1], a[2]) \/ Probe(a[1], a[2])
       \/ \E w \in Words : \E c \in program.stores[w] : Store(a[1], a[2], c)
       \/ \E type \in Types : \/ Break(type, a[1], a[2])
                             \/ \E m \in {"S", "M"} : Fault(type, a[1], a[2], m)
  \/ \E m \in {"S", "M"} : Interrupt(m)
  \/ Mret \/ Sret \/ SfenceVma \/ FenceI
  \/ \E v \in program.status : WriteMstatus(v) \/ WriteSstatus(v)
  \/ \E v \in program.satp : WriteSatp(v)
  \/ \E t \in program.triggers : SetTrigger(t)
  \/ WritePmp

Spec == Init /\ [][Next]_vars

-----------------------------------------------------------------------------
(* TypeOK: every variable has its type; without MML no entry of the PMP    *)
(* grants writes without reads.                                            *)
TypeOK ==
  /\ program \in Programs
  /\ priv \in Modes /\ status \in Status /\ satp \in Satp
  /\ mem \in [Words -> Pte]
  /\ tlb \subseteq [type : Types, page : Pages, frame : Frames, checked : BOOLEAN]
  /\ icache \subseteq [page : Pages, off : Offsets, word : Pte]
  /\ trigger \in Trigger /\ checks \subseteq Types /\ matched \in BOOLEAN
  /\ written \subseteq Words /\ iwritten \subseteq Words
  /\ pmpaddr \in [Entries -> PmpValue]
  /\ pmpcfg \in [Entries -> Cfg] /\ mseccfg \in Mseccfg
  /\ mseccfg.mml \/ \A i \in Entries : "W" \in pmpcfg[i].perms => "R" \in pmpcfg[i].perms

(* CachesAreFresh: an entry whose page table words were not stored to      *)
(* since the TLBs were emptied (sfence.vma and more) answers what a new    *)
(* walk would, for every word of its page: the same frame, still permitted *)
(* by the page table, the PMP, the mode and mstatus.  The same holds for   *)
(* the instruction cache, whose instruction is the one in memory, too,     *)
(* unless stored to since it was emptied.  (The flush_tlb calls in csrs.cc,*)
(* processor.cc and insns/, and refill_tlb, mmu.cc.)                       *)
CachesAreFresh ==
  /\ \A e \in tlb :
       PteWords(e.page, EffPriv(e.type)) \cap written = {} =>
         \A o \in Offsets : translate(e.page, o, e.type, e.frame)
  /\ \A e \in icache :
       PteWords(e.page, priv) \cap written = {} =>
         \E f \in Frames :
           /\ translate(e.page, e.off, "fetch", f)
           /\ WordAt(f, e.off) \in iwritten \/ mem[WordAt(f, e.off)] = e.word

(* MprvOnlyInMachine: outside M-mode no access uses the privilege in MPP:  *)
(* every way down clears MPRV and no way up sets it (insns/mret.h, sret.h, *)
(* processor.cc take_trap).                                                *)
MprvOnlyInMachine == priv # "M" => ~status.mprv

(* LocksHold: once an entry of the PMP is locked it stays so, with the     *)
(* words it holds for and what it permits, whatever is written: also when  *)
(* its lower end is the address of the entry below (csrs.cc).              *)
LocksHold ==
  [][\A i \in Entries : Locked(i) =>
       /\ Locked(i)' /\ pmpcfg'[i] = pmpcfg[i]
       /\ \A w \in Words : match4(i, w)' = match4(i, w)]_vars

(* TriggersAreChecked: no access a trigger watches takes the fast path of  *)
(* the TLB, which asks no trigger (processor.cc trigger_updated, the tags  *)
(* of mmu.cc refill_tlb).                                                  *)
TriggersAreChecked ==
  trigger # None => \A type \in trigger.ops : ~FastHit(type, trigger.page)

(* PendingTriggersAreTaken: while a trigger that fires AFTER waits, every  *)
(* fetch takes the slow path, where it is raised (mmu.cc check_triggers).  *)
PendingTriggersAreTaken ==
  matched => icache = {} /\ \A p \in Pages : ~FastHit("fetch", p)

(* FetchTriggersAreSeen: what mmu.h says of a tagged entry of the TLB, "the *)
(* MMU must check for a trigger match before completing an access": no     *)
(* instruction of its page that a trigger matches now is in the            *)
(* instruction cache, which asks no trigger.                               *)
FetchTriggersAreSeen ==
  \A e \in tlb : e.type = "fetch" /\ e.checked =>
    ~\E i \in icache : i.page = e.page /\ Watches("fetch", i.page, i.off)
=============================================================================
