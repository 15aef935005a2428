--------------------------------- MODULE Pmp ---------------------------------
(***************************************************************************)
(* Physical memory protection of one hart of the bundled Spike: the        *)
(* registers pmpaddr, pmpcfg and mseccfg with their locks (riscv/csrs.cc)  *)
(* and the decisions the MMU takes from them (riscv/mmu.cc).               *)
(*                                                                         *)
(* Memory is counted in words of 4 bytes, the granularity of the entries   *)
(* (PMP_SHIFT, the default of --pmpgranularity), and a page is PageWords   *)
(* of them.  No access here crosses a page.                                *)
(***************************************************************************)
EXTENDS Integers

CONSTANTS
  PageWords,   \* words in a page (PGSIZE / 4)
  Spans,       \* the sizes an NA4 or NAPOT entry can have: powers of two
  NPmp,        \* the entries there are (n_pmp)
  PmpValue     \* values of an address register

ASSUME PageAssumption == PageWords \in Nat \ {0}
ASSUME SpansAssumption ==
  /\ Spans \subseteq Nat \ {0}
  /\ \A s \in Spans : PageWords % s = 0 \/ s % PageWords = 0
ASSUME PmpAssumption ==
  /\ NPmp \in Nat
  /\ PmpValue \subseteq Nat /\ 0 \in PmpValue

Entries == 0 .. NPmp - 1
Types == {"fetch", "load", "store"}
Modes == {"U", "S", "M"}
Cfg == [l : BOOLEAN, a : {"OFF", "TOR", "NA4", "NAPOT"}, perms : SUBSET {"R", "W", "X"}]
Mseccfg == [mml : BOOLEAN, mmwp : BOOLEAN, rlb : BOOLEAN]

VARIABLES
  pmpaddr,   \* per entry: the address register
  pmpcfg,    \* per entry: its byte of the configuration registers
  mseccfg    \* the Smepmp bits

pmpvars == <<pmpaddr, pmpcfg, mseccfg>>

(* For software that knows nothing of it, the first entry permits all.     *)
PmpInit ==
  /\ pmpaddr \in {[i \in Entries |-> IF i = 0 THEN v ELSE 0] :
                    v \in {v \in PmpValue : \A u \in PmpValue : u <= v}}
  /\ pmpcfg = [i \in Entries |->
                 IF i = 0 THEN [l |-> FALSE, a |-> "NAPOT", perms |-> {"R", "W", "X"}]
                          ELSE [l |-> FALSE, a |-> "OFF", perms |-> {}]]
  /\ mseccfg = [mml |-> FALSE, mmwp |-> FALSE, rlb |-> FALSE]

-----------------------------------------------------------------------------
PageOf(w) == w \div PageWords
WordsOf(f) == f * PageWords .. f * PageWords + PageWords - 1

TorBase(i) == IF i = 0 THEN 0 ELSE pmpaddr[i - 1]

(* The size of an NA4 or NAPOT entry: the ones that end the address.       *)
IsSpan(i, s) ==
  \/ pmpcfg[i].a = "NA4" /\ s = 1
  \/ pmpcfg[i].a = "NAPOT" /\ s > 1 /\ pmpaddr[i] % s = s \div 2 - 1

match4(i, w) ==
  \/ pmpcfg[i].a = "TOR" /\ TorBase(i) <= w /\ w < pmpaddr[i]
  \/ \E s \in Spans : IsSpan(i, s) /\ w \div s = pmpaddr[i] \div s

(* Does entry i hold for some words of page f and not for others?          *)
subset_match(i, f) ==
  \/ /\ pmpcfg[i].a = "TOR"
     /\ f >= PageOf(TorBase(i))
     /\ f * PageWords < pmpaddr[i]
     /\ ~(f * PageWords >= TorBase(i) /\ f < PageOf(pmpaddr[i]))
  \/ \E s \in Spans : IsSpan(i, s) /\ s < PageWords /\ PageOf(pmpaddr[i]) = f

\* Mutant: only the entry that holds for the first word of the page is asked.
pmp_homogeneous_first(f) ==
  \A i \in Entries : match4(i, f * PageWords) => ~subset_match(i, f)
pmp_homogeneous(f) == \A i \in Entries : ~subset_match(i, f)

Needed == [fetch |-> "X", load |-> "R", store |-> "W"]

(* What an entry that holds permits; with MML its bits are read anew.      *)
access_ok(cfg, type, mode) ==
  LET m == mode = "M"
      normal == Needed[type] \in cfg.perms
      sharedData == cfg.l /\ cfg.perms = {"R", "W", "X"}
      shared == "W" \in cfg.perms /\ "R" \notin cfg.perms
  IN  \/ ~mseccfg.mml /\ ((m /\ ~cfg.l) \/ normal)
      \/ mseccfg.mml /\ sharedData /\ type = "load"
      \/ mseccfg.mml /\ ~sharedData /\ ~shared /\ (m <=> cfg.l) /\ normal
      \/ /\ mseccfg.mml /\ shared
         /\ \/ ~cfg.l /\ type = "load"
            \/ ~cfg.l /\ type = "store" /\ ("X" \in cfg.perms \/ m)
            \/ cfg.l /\ type = "fetch"
            \/ cfg.l /\ type = "load" /\ "X" \in cfg.perms /\ m

Touches(i, ws) == \E w \in ws : match4(i, w)

(* The first entry that holds for a word of the access decides, and must   *)
(* hold for all of them.                                                   *)
pmp_ok(ws, type, mode) ==
  \/ NPmp = 0
  \/ \E i \in Entries :
       /\ Touches(i, ws) /\ \A j \in Entries : j < i => ~Touches(j, ws)
       /\ \A w \in ws : match4(i, w)
       /\ access_ok(pmpcfg[i], type, mode)
  \/ /\ \A i \in Entries : ~Touches(i, ws)
     /\ mode = "M" /\ ~mseccfg.mmwp
     /\ (mseccfg.mml => type # "fetch")

-----------------------------------------------------------------------------
Locked(i) == pmpcfg[i].l /\ ~mseccfg.rlb

next_locked_and_tor(i) ==
  i + 1 \in Entries /\ Locked(i + 1) /\ pmpcfg[i + 1].a = "TOR"

\* Mutant: the lock of an entry does not cover the register below it.
WritePmpaddrBelowLock(i, v) ==
  /\ ~Locked(i)
  /\ pmpaddr' = [pmpaddr EXCEPT ![i] = v]
  /\ UNCHANGED <<pmpcfg, mseccfg>>
(* A write to a locked register changes nothing.                           *)
WritePmpaddr(i, v) ==
  /\ ~Locked(i) /\ ~next_locked_and_tor(i)
  /\ pmpaddr' = [pmpaddr EXCEPT ![i] = v]
  /\ UNCHANGED <<pmpcfg, mseccfg>>

\* Mutant: the reserved combination is stored.
LegalAny(cfg) == cfg
Legal(cfg) ==
  IF mseccfg.mml \/ "R" \in cfg.perms THEN cfg
  ELSE [cfg EXCEPT !.perms = @ \ {"W"}]

(* With MML no rule may be added that lets only M-mode, or every mode of a  *)
(* locked shared region, execute.                                          *)
Accepted(i, cfg) ==
  \/ mseccfg.rlb
  \/ /\ ~pmpcfg[i].l
     /\ ~ /\ mseccfg.mml /\ cfg.l /\ cfg.perms # {"R", "W", "X"}
          /\ \/ "X" \in cfg.perms
             \/ "W" \in cfg.perms /\ "R" \notin cfg.perms

(* A register holds four entries; each byte is taken or not on its own.    *)
WritePmpcfg(r, cfgs) ==
  /\ pmpcfg' = [i \in Entries |-> IF i \div 4 = r /\ Accepted(i, Legal(cfgs[i]))
                                  THEN Legal(cfgs[i]) ELSE pmpcfg[i]]
  /\ UNCHANGED <<pmpaddr, mseccfg>>

WriteMseccfg(v) ==
  /\ NPmp # 0
  /\ mseccfg' = [mml  |-> mseccfg.mml \/ v.mml,
                 mmwp |-> mseccfg.mmwp \/ v.mmwp,
                 rlb  |-> IF ~mseccfg.rlb /\ \E i \in Entries : pmpcfg[i].l
                          THEN FALSE ELSE v.rlb]
  /\ UNCHANGED <<pmpaddr, pmpcfg>>
=============================================================================
