---------------------------- MODULE VerdictProofs ----------------------------
(***************************************************************************)
(* What the verdict of compare_traces.py means, for traces and fragments   *)
(* of any length: when nothing is reported, every write and every store of *)
(* Spike was made by the DUT; and of a correct fragment nothing is         *)
(* reported.                                                               *)
(*                                                                         *)
(* Nothing of the kind is true of the rows while they are built: a         *)
(* defective fragment makes the merge leave invented commits behind, and   *)
(* its register file goes out of date.  The invariant is therefore about   *)
(* the rows that will turn out to be equal (Good): as long as all of them  *)
(* are, no invented commit is left and the register file is Spike's.       *)
(*                                                                         *)
(* For a correct fragment, all of them always are: the fetches, commits    *)
(* and accesses ahead of the cursors are those of the entries ahead        *)
(* (NoAlarm), so every turn finds what it looks for and makes an equal row.*)
(***************************************************************************)
EXTENDS ComparatorProofs

(* Each Spike entry that was passed has a row of its own, equal to it.     *)
Good == Len(nonspec) = si /\ \A k \in 1..si : Strip(nonspec[k]) = spike[k]

WriteBacked(k) ==
  LET e == spike[k]
      j == nonspec[k].src
  IN  e.target_reg # None =>
        \/ j = 0 /\ ValueBefore(spike, e.target_reg, k, e.reg_val)
        \/ /\ j \in 1..Len(input.dut.commits)
           /\ input.dut.commits[j] = [reg |-> e.target_reg, val |-> e.reg_val]
           /\ \E p \in 1..ci : commits[p].src = j

StoreBacked(k) ==
  LET e == spike[k]
      j == nonspec[k].src
  IN  e.instr.kind \in Stores =>
        /\ j \in 1..mi
        /\ input.dut.mems[j].addr + (e.mem_addr % 4) = e.mem_addr
        /\ StoredBytes(e.instr.kind, input.dut.mems[j].val, e.mem_addr) = e.mem_val
        /\ \A i \in 1..(j - 1) : \E m \in 1..(k - 1) :
             spike[m].instr.kind \in Stores /\ nonspec[m].src = i

RegistersFollow == \A r \in Reg : ValueBefore(spike, r, si + 1, spike_regfile[r])
OneVoucher ==
  \A k, m \in 1..si :
    /\ spike[k].target_reg # None /\ spike[m].target_reg # None
    /\ k # m /\ nonspec[k].src # 0
    => nonspec[k].src # nonspec[m].src
AccessesUsed ==
  \A i \in 1..mi : \E m \in 1..si : spike[m].instr.kind \in Stores /\ nonspec[m].src = i
NoneInventedLeft ==
  phase = "generate" => \A p \in (ci + 1)..Len(commits) : commits[p].src # 0

Backed ==
  /\ RegistersFollow /\ OneVoucher /\ AccessesUsed /\ NoneInventedLeft
  /\ \A k \in 1..si : WriteBacked(k) /\ StoreBacked(k)

MemsLeft ==
  /\ Len(mems) = Len(input.dut.mems)
  /\ \A i \in (mi + 1)..Len(mems) : mems[i] = input.dut.mems[i]

Compared ==
  /\ phase = "generate" => cmp = 0
  /\ mismatches = << >> => /\ cmp <= Len(nonspec)
                           /\ \A k \in 1..cmp : Strip(nonspec[k]) = spike[k]
                           /\ phase = "done" => cmp = Len(spike)

IInv ==
  /\ Len(nonspec) <= si
  /\ Good => Backed
  /\ MemsLeft /\ Compared

-----------------------------------------------------------------------------
(* The golden value of a register                                          *)

LEMMA SameWrites ==
  ASSUME NEW t, NEW u, Len(u) = Len(t),
         \A k \in 1..Len(t) : u[k].target_reg = t[k].target_reg /\ u[k].reg_val = t[k].reg_val,
         NEW r, NEW k, NEW v, ValueBefore(t, r, k, v)
  PROVE  ValueBefore(u, r, k, v)
<1>1. WritesBefore(u, r, k) = WritesBefore(t, r, k)
  BY DEF WritesBefore
<1>2. \A j \in WritesBefore(t, r, k) : u[j].reg_val = t[j].reg_val
  BY DEF WritesBefore
<1>. QED
  BY <1>1, <1>2 DEF ValueBefore

LEMMA AfterWrite ==
  ASSUME NEW t, Len(t) \in Nat, NEW i \in 1..Len(t), NEW r, NEW v
  PROVE  /\ t[i].target_reg = r => ValueBefore(t, r, i + 1, t[i].reg_val)
         /\ t[i].target_reg # r /\ ValueBefore(t, r, i, v) => ValueBefore(t, r, i + 1, v)
<1>1. CASE t[i].target_reg = r
  <2>1. i \in WritesBefore(t, r, i + 1) /\ \A m \in WritesBefore(t, r, i + 1) : m <= i
    BY <1>1 DEF WritesBefore
  <2>. QED
    BY <1>1, <2>1 DEF ValueBefore
<1>2. CASE t[i].target_reg # r
  <2>1. WritesBefore(t, r, i + 1) = WritesBefore(t, r, i)
    BY <1>2 DEF WritesBefore
  <2>. QED
    BY <1>2, <2>1 DEF ValueBefore
<1>. QED
  BY <1>1, <1>2

LEMMA StripFields ==
  ASSUME NEW row, NEW e, Strip(row) = e
  PROVE  /\ row.instr = e.instr
         /\ row.target_reg = e.target_reg /\ row.reg_val = e.reg_val
         /\ row.mem_addr = e.mem_addr /\ row.mem_val = e.mem_val
BY DEF Strip

-----------------------------------------------------------------------------
(* Turns of the loop                                                       *)

(* The top of a turn edits one address of the entry at hand.               *)
LEMMA FilteredFacts ==
  ASSUME TypeInv, InLoop, spike' = ReadFiltered
  PROVE  /\ Len(spike') = Len(spike)
         /\ \A k \in 1..Len(spike) : /\ spike'[k].target_reg = spike[k].target_reg
                                     /\ spike'[k].reg_val = spike[k].reg_val
         /\ \A k \in 1..si : spike'[k] = spike[k]
<1>1. TypeOK /\ si \in Nat
  BY LenProperties DEF TypeInv, TypeOK
<1>. QED
  BY <1>1, ReadFilteredType

(* The rows of the entries passed before, and what backs them, stay.       *)
LEMMA OldRowsStay ==
  ASSUME TypeInv, Good, Backed, input' = input,
         Len(spike') = Len(spike),
         \A k \in 1..Len(spike) : /\ spike'[k].target_reg = spike[k].target_reg
                                  /\ spike'[k].reg_val = spike[k].reg_val,
         \A k \in 1..si : spike'[k] = spike[k] /\ nonspec'[k] = nonspec[k],
         ci' \in Nat, mi' \in Nat, ci <= ci', mi <= mi',
         \A p \in 1..ci : commits'[p] = commits[p]
  PROVE  /\ \A k \in 1..si : WriteBacked(k)' /\ StoreBacked(k)'
         /\ \A i \in 1..mi : \E m \in 1..si :
              spike'[m].instr.kind \in Stores /\ nonspec'[m].src = i
         /\ \A k, m \in 1..si :
              /\ spike'[k].target_reg # None /\ spike'[m].target_reg # None
              /\ k # m /\ nonspec'[k].src # 0
              => nonspec'[k].src # nonspec'[m].src
<1>0. si \in Nat /\ ci \in Nat /\ mi \in Nat
  BY LenProperties DEF TypeInv, TypeOK
<1>1. ASSUME NEW k \in 1..si PROVE WriteBacked(k)'
  <2>. DEFINE e == spike[k]
              j == nonspec[k].src
  <2>1. spike'[k] = e /\ nonspec'[k].src = j
    OBVIOUS
  <2>2. WriteBacked(k)
    BY DEF Backed
  <2>3. ASSUME ValueBefore(spike, e.target_reg, k, e.reg_val)
        PROVE  ValueBefore(spike', e.target_reg, k, e.reg_val)
    BY <2>3, SameWrites
  <2>4. ASSUME \E p \in 1..ci : commits[p].src = j
        PROVE  \E p \in 1..ci' : commits'[p].src = j
    BY <1>0, <2>4
  <2>5. WriteBacked(k)' <=>
          (e.target_reg # None =>
             \/ j = 0 /\ ValueBefore(spike', e.target_reg, k, e.reg_val)
             \/ /\ j \in 1..Len(input.dut.commits)
                /\ input.dut.commits[j] = [reg |-> e.target_reg, val |-> e.reg_val]
                /\ \E p \in 1..ci' : commits'[p].src = j)
    BY <2>1 DEF WriteBacked
  <2>6. e.target_reg # None =>
             \/ j = 0 /\ ValueBefore(spike, e.target_reg, k, e.reg_val)
             \/ /\ j \in 1..Len(input.dut.commits)
                /\ input.dut.commits[j] = [reg |-> e.target_reg, val |-> e.reg_val]
                /\ \E p \in 1..ci : commits[p].src = j
    BY <2>2 DEF WriteBacked
  <2>. QED
    BY <2>3, <2>4, <2>5, <2>6
<1>2. ASSUME NEW k \in 1..si PROVE StoreBacked(k)'
  <2>. DEFINE e == spike[k]
              j == nonspec[k].src
              used(i, s, rows) == \E m \in 1..(k - 1) :
                                    s[m].instr.kind \in Stores /\ rows[m].src = i
  <2>1. StoreBacked(k) /\ spike'[k] = e /\ nonspec'[k].src = j
    BY DEF Backed
  <2>2. \A m \in 1..(k - 1) : spike'[m] = spike[m] /\ nonspec'[m] = nonspec[m]
    BY <1>0
  <2>3. \A i : used(i, spike, nonspec) => used(i, spike', nonspec')
    BY <2>2
  <2>4. e.instr.kind \in Stores =>
          /\ j \in 1..mi
          /\ input.dut.mems[j].addr + (e.mem_addr % 4) = e.mem_addr
          /\ StoredBytes(e.instr.kind, input.dut.mems[j].val, e.mem_addr) = e.mem_val
          /\ \A i \in 1..(j - 1) : used(i, spike, nonspec)
    BY <2>1 DEF StoreBacked
  <2>5. StoreBacked(k)' <=>
          (e.instr.kind \in Stores =>
             /\ j \in 1..mi'
             /\ input.dut.mems[j].addr + (e.mem_addr % 4) = e.mem_addr
             /\ StoredBytes(e.instr.kind, input.dut.mems[j].val, e.mem_addr) = e.mem_val
             /\ \A i \in 1..(j - 1) : used(i, spike', nonspec'))
    BY <2>1 DEF StoreBacked
  <2>6. j \in 1..mi => j \in 1..mi'
    BY <1>0
  <2>. HIDE DEF used, e, j
  <2>. QED
    BY <2>3, <2>4, <2>5, <2>6
<1>3. \A i \in 1..mi : \E m \in 1..si :
        spike'[m].instr.kind \in Stores /\ nonspec'[m].src = i
  BY DEF Backed, AccessesUsed
<1>4. \A k, m \in 1..si :
        /\ spike'[k].target_reg # None /\ spike'[m].target_reg # None
        /\ k # m /\ nonspec'[k].src # 0
        => nonspec'[k].src # nonspec'[m].src
  BY DEF Backed, OneVoucher
<1>. QED
  BY <1>1, <1>2, <1>3, <1>4

(* A step that passes no entry.                                            *)
LEMMA NoTurnBacked ==
  ASSUME TypeInv, Good, Backed, input' = input,
         spike' = spike \/ (InLoop /\ spike' = ReadFiltered),
         si' = si, nonspec' = nonspec, ci' = ci, mi' = mi, spike_regfile' = spike_regfile,
         \A p \in 1..ci : commits'[p] = commits[p],
         NoneInventedLeft'
  PROVE  Backed'
<1>0. si \in Nat /\ ci \in Nat /\ mi \in Nat /\ TypeOK
  BY LenProperties DEF TypeInv, TypeOK
<1>1. /\ Len(spike') = Len(spike)
      /\ \A k \in 1..Len(spike) : /\ spike'[k].target_reg = spike[k].target_reg
                                  /\ spike'[k].reg_val = spike[k].reg_val
      /\ \A k \in 1..si : spike'[k] = spike[k]
  <2>1. CASE spike' = spike
    BY <2>1
  <2>2. CASE InLoop /\ spike' = ReadFiltered
    BY <2>2, FilteredFacts
  <2>. QED
    BY <2>1, <2>2
<1>2. /\ \A k \in 1..si : WriteBacked(k)' /\ StoreBacked(k)'
      /\ AccessesUsed' /\ OneVoucher'
  BY <1>0, <1>1, OldRowsStay DEF AccessesUsed, OneVoucher
<1>3. RegistersFollow'
  <2>. SUFFICES ASSUME NEW r \in Reg
                PROVE  ValueBefore(spike', r, si + 1, spike_regfile[r])
    BY DEF RegistersFollow
  <2>1. ValueBefore(spike, r, si + 1, spike_regfile[r])
    BY DEF Backed, RegistersFollow
  <2>. QED
    BY <1>1, <2>1, SameWrites
<1>. QED
  BY <1>2, <1>3 DEF Backed

(* A step that passes entry n and makes row of it, when row equals it.     *)
LEMMA TurnFacts ==
  ASSUME TypeInv, InLoop, Len(nonspec) <= si, spike' = ReadFiltered, si' = si + 1,
         NEW row \in Row, nonspec' = Append(nonspec, row), Good'
  PROVE  /\ Good
         /\ Strip(row) = spike'[si + 1] /\ nonspec'[si + 1] = row
         /\ Len(spike') = Len(spike)
         /\ \A k \in 1..Len(spike) : /\ spike'[k].target_reg = spike[k].target_reg
                                     /\ spike'[k].reg_val = spike[k].reg_val
         /\ \A k \in 1..si : spike'[k] = spike[k] /\ nonspec'[k] = nonspec[k]
<1>0. /\ TypeOK /\ si \in Nat /\ nonspec \in Seq(Row) /\ Len(nonspec) \in Nat
      /\ Len(spike) \in Nat /\ si + 1 \in 1..Len(spike)
  BY ReadFilteredType, LenProperties DEF TypeInv, TypeOK
<1>1. /\ Len(spike') = Len(spike)
      /\ \A k \in 1..Len(spike) : /\ spike'[k].target_reg = spike[k].target_reg
                                  /\ spike'[k].reg_val = spike[k].reg_val
      /\ \A k \in 1..si : spike'[k] = spike[k]
  BY FilteredFacts
<1>2. /\ Len(nonspec') = Len(nonspec) + 1
      /\ \A k \in 1..Len(nonspec) : nonspec'[k] = nonspec[k]
      /\ nonspec'[Len(nonspec) + 1] = row
  BY <1>0, AppendProperties
<1>3. Len(nonspec') = si + 1 /\ \A k \in 1..(si + 1) : Strip(nonspec'[k]) = spike'[k]
  BY DEF Good
<1>4. Len(nonspec) = si
  BY <1>0, <1>2, <1>3
<1>5. \A k \in 1..si : nonspec'[k] = nonspec[k]
  BY <1>2, <1>4
<1>6. nonspec'[si + 1] = row /\ Strip(row) = spike'[si + 1]
  BY <1>0, <1>2, <1>3, <1>4
<1>7. \A k \in 1..si : Strip(nonspec[k]) = spike[k]
  BY <1>0, <1>1, <1>3, <1>5
<1>. QED
  BY <1>1, <1>4, <1>5, <1>6, <1>7 DEF Good

LEMMA NoTurn ==
  ASSUME TypeInv, IInv, Good', input' = input,
         spike' = spike \/ (InLoop /\ spike' = ReadFiltered),
         si' = si, nonspec' = nonspec, ci' = ci, mi' = mi, spike_regfile' = spike_regfile,
         \A p \in 1..ci : commits'[p] = commits[p],
         NoneInventedLeft'
  PROVE  Backed'
<1>1. \A k \in 1..si : spike'[k] = spike[k]
  BY FilteredFacts
<1>2. Len(nonspec) = si /\ \A k \in 1..si : Strip(nonspec[k]) = spike'[k]
  BY DEF Good
<1>3. Good
  BY <1>1, <1>2 DEF Good
<1>4. Backed
  BY <1>3 DEF IInv
<1>. QED
  BY <1>3, <1>4, NoTurnBacked

LEMMA TurnBacked ==
  ASSUME TypeInv, IInv, InLoop, spike' = ReadFiltered, si' = si + 1,
         NEW row \in Row, nonspec' = Append(nonspec, row), Good', input' = input,
         ci' \in Nat, mi' \in Nat, ci <= ci', mi <= mi',
         \A p \in 1..ci : commits'[p] = commits[p],
         RegistersFollow', NoneInventedLeft',
         NEW n, n = si + 1, WriteBacked(n)', StoreBacked(n)',
         \A k \in 1..si : /\ spike[k].target_reg # None /\ spike'[n].target_reg # None
                          /\ row.src # 0
                          => row.src # nonspec[k].src,
         \A i \in (mi + 1)..mi' : spike'[n].instr.kind \in Stores /\ row.src = i
  PROVE  Backed'
<1>0. si \in Nat /\ mi \in Nat /\ n \in 1..(si + 1) /\ n \in 1..Len(spike)
  BY ReadFilteredType, LenProperties DEF TypeInv, TypeOK
<1>1. /\ Good /\ nonspec'[n] = row /\ Len(spike') = Len(spike)
      /\ \A k \in 1..Len(spike) : /\ spike'[k].target_reg = spike[k].target_reg
                                  /\ spike'[k].reg_val = spike[k].reg_val
      /\ \A k \in 1..si : spike'[k] = spike[k] /\ nonspec'[k] = nonspec[k]
  BY TurnFacts DEF IInv
<1>2. Backed
  BY <1>1 DEF IInv
<1>3. /\ \A k \in 1..si : WriteBacked(k)' /\ StoreBacked(k)'
      /\ \A i \in 1..mi : \E m \in 1..si :
           spike'[m].instr.kind \in Stores /\ nonspec'[m].src = i
      /\ \A k, m \in 1..si :
           /\ spike'[k].target_reg # None /\ spike'[m].target_reg # None
           /\ k # m /\ nonspec'[k].src # 0
           => nonspec'[k].src # nonspec'[m].src
  BY <1>1, <1>2, OldRowsStay
<1>4. \A k \in 1..(si + 1) : k \in 1..si \/ k = n
  BY <1>0
<1>5. \A k \in 1..si' : WriteBacked(k)' /\ StoreBacked(k)'
  BY <1>3, <1>4
<1>6. AccessesUsed'
  <2>. SUFFICES ASSUME NEW i \in 1..mi'
                PROVE  \E m \in 1..(si + 1) : spike'[m].instr.kind \in Stores /\ nonspec'[m].src = i
    BY DEF AccessesUsed
  <2>1. CASE i <= mi
    <3>1. i \in 1..mi
      BY <2>1, <1>0
    <3>2. PICK m \in 1..si : spike'[m].instr.kind \in Stores /\ nonspec'[m].src = i
      BY <3>1, <1>3
    <3>3. m \in 1..(si + 1)
      BY <1>0
    <3>. QED
      BY <3>2, <3>3
  <2>2. CASE i > mi
    <3>1. i \in (mi + 1)..mi'
      BY <1>0, <2>2
    <3>2. spike'[n].instr.kind \in Stores /\ nonspec'[n].src = i
      BY <1>1, <3>1
    <3>. QED
      BY <1>0, <3>2
  <2>3. i <= mi \/ i > mi
    BY <1>0
  <2>. QED
    BY <2>1, <2>2, <2>3, Zenon
<1>7. OneVoucher'
  <2>. SUFFICES ASSUME NEW k \in 1..(si + 1), NEW m \in 1..(si + 1), k # m,
                       spike'[k].target_reg # None, spike'[m].target_reg # None,
                       nonspec'[k].src # 0
                PROVE  nonspec'[k].src # nonspec'[m].src
    BY DEF OneVoucher
  <2>1. CASE k \in 1..si /\ m \in 1..si
    BY <1>3, <2>1
  <2>2. CASE k = n /\ m \in 1..si
    BY <1>1, <2>2
  <2>3. CASE m = n /\ k \in 1..si
    BY <1>1, <2>3
  <2>. QED
    BY <1>4, <2>1, <2>2, <2>3
<1>. QED
  BY <1>5, <1>6, <1>7 DEF Backed

(* A turn that takes no commit: an entry that writes nothing, or no match. *)
LEMMA QuietTurn ==
  ASSUME TypeInv, IInv, InLoop, spike' = ReadFiltered, si' = si + 1,
         NEW row \in Row, nonspec' = Append(nonspec, row), Good',
         row.target_reg = None, spike_regfile' = spike_regfile,
         commits' = WithInserted, ci' = ci, phase' = phase
  PROVE  /\ commits' = commits /\ spike'[si + 1].target_reg = None
         /\ RegistersFollow' /\ NoneInventedLeft'
<1>0. /\ TypeOK /\ si \in Nat /\ si + 1 \in 1..Len(spike) /\ Len(spike) \in Nat
  BY ReadFilteredType, LenProperties DEF TypeInv, TypeOK
<1>1. /\ Good /\ Strip(row) = spike'[si + 1] /\ Len(spike') = Len(spike)
      /\ \A k \in 1..Len(spike) : /\ spike'[k].target_reg = spike[k].target_reg
                                  /\ spike'[k].reg_val = spike[k].reg_val
  BY TurnFacts DEF IInv
<1>2. Backed
  BY <1>1 DEF IInv
<1>3. spike'[si + 1].target_reg = None
  BY <1>1, StripFields
<1>4. ~Repeated
  BY <1>0, <1>1, <1>3 DEF Repeated, SpikeEntry
<1>5. commits' = commits
  BY <1>4 DEF WithInserted
<1>6. RegistersFollow'
  <2>. SUFFICES ASSUME NEW r \in Reg
                PROVE  ValueBefore(spike', r, si + 1 + 1, spike_regfile[r])
    BY DEF RegistersFollow
  <2>1. ValueBefore(spike, r, si + 1, spike_regfile[r])
    BY <1>2 DEF Backed, RegistersFollow
  <2>2. ValueBefore(spike', r, si + 1, spike_regfile[r])
    BY <1>1, <2>1, SameWrites
  <2>3. r # None
    BY NoneAssumption, RegAssumption
  <2>. QED
    BY <1>0, <1>1, <1>3, <2>2, <2>3, AfterWrite
<1>7. NoneInventedLeft'
  BY <1>2, <1>5 DEF Backed, NoneInventedLeft
<1>. QED
  BY <1>3, <1>5, <1>6, <1>7

LEMMA SpeculativeFetchBacked ==
  ASSUME TypeInv, IInv, SpeculativeFetch, Good'
  PROVE  Backed'
<1>. DEFINE row == [BareRow EXCEPT !.speculative_fetch = TRUE]
<1>0. TypeOK /\ InLoop /\ spike' = ReadFiltered
  BY DEF TypeInv, SpeculativeFetch
<1>1. row \in Row /\ row.speculative_fetch = TRUE /\ Emit(row)
  BY <1>0, SpeculativeRowType DEF SpeculativeFetch
<1>. HIDE DEF row
<1>2. nonspec' = nonspec
  BY <1>0, <1>1, EmitType DEF TypeOK
<1>3. /\ input' = input /\ si' = si /\ ci' = ci /\ mi' = mi /\ phase' = phase
      /\ spike_regfile' = spike_regfile /\ commits' = commits
  BY DEF SpeculativeFetch
<1>4. \A k \in 1..si : spike'[k] = spike[k]
  BY <1>0, FilteredFacts
<1>5. Good
  BY <1>2, <1>3, <1>4 DEF Good
<1>6. NoneInventedLeft'
  BY <1>3, <1>5 DEF IInv, Backed, NoneInventedLeft
<1>. QED
  BY <1>0, <1>2, <1>3, <1>6, NoTurn

LEMMA FetchOnlyBacked ==
  ASSUME TypeInv, IInv, FetchOnly, Good'
  PROVE  Backed'
<1>. DEFINE flag == Fetch.instr.kind \in Writers /\ Repeated
            row == [BareRow EXCEPT !.speculative_commit = flag]
<1>0. /\ TypeOK /\ InLoop /\ spike' = ReadFiltered /\ si' = si + 1
      /\ ci \in Nat /\ mi \in Nat /\ flag \in BOOLEAN
  BY LenProperties DEF TypeInv, TypeOK, FetchOnly, Matched, Repeated
<1>1. /\ input' = input /\ ci' = ci /\ mi' = mi /\ phase' = phase
      /\ spike_regfile' = spike_regfile /\ commits' = WithInserted
      /\ Emit(row) /\ Fetch.instr.kind \notin Stores
  BY DEF FetchOnly, Matched, Writers, Stores
<1>. HIDE DEF flag
<1>2. /\ row \in Row /\ row.speculative_fetch = FALSE /\ row.instr = Fetch.instr
      /\ row.src = 0 /\ row.target_reg = None
  BY <1>0, FetchRowType
<1>. HIDE DEF row
<1>3. nonspec' = Append(nonspec, row)
  BY <1>0, <1>1, <1>2, EmitType DEF TypeOK
<1>n. PICK n \in Nat : n = si + 1
  BY LenProperties DEF TypeInv, TypeOK
<1>4. /\ commits' = commits /\ spike'[n].target_reg = None
      /\ RegistersFollow' /\ NoneInventedLeft'
  BY <1>0, <1>1, <1>2, <1>3, <1>n, QuietTurn
<1>5. Strip(row) = spike'[n]
  BY <1>0, <1>2, <1>3, <1>n, TurnFacts DEF IInv
<1>6. spike'[n].instr.kind \notin Stores
  BY <1>1, <1>2, <1>5, StripFields
<1>8. WriteBacked(n)' /\ StoreBacked(n)'
  BY <1>4, <1>6 DEF WriteBacked, StoreBacked
<1>9. \A i \in (mi + 1)..mi' : FALSE
  BY <1>0, <1>1
<1>10. ci <= ci' /\ mi <= mi' /\ ci' \in Nat /\ mi' \in Nat
  BY <1>0, <1>1
<1>. QED
  BY <1>0, <1>1, <1>2, <1>3, <1>4, <1>n, <1>8, <1>9, <1>10, TurnBacked

LEMMA UnknownInstructionBacked ==
  ASSUME TypeInv, IInv, UnknownInstruction, Good'
  PROVE  Backed'
<1>. DEFINE row == [BareRow EXCEPT !.speculative_fetch = TRUE]
<1>0. TypeOK /\ InLoop /\ si' = si + 1 /\ si \in Nat /\ Len(nonspec) \in Nat
  BY LenProperties DEF TypeInv, TypeOK, UnknownInstruction, Matched
<1>1. row \in Row /\ row.speculative_fetch = TRUE /\ Emit(row)
  BY <1>0, SpeculativeRowType DEF UnknownInstruction
<1>. HIDE DEF row
<1>2. nonspec' = nonspec
  BY <1>0, <1>1, EmitType DEF TypeOK
<1>. QED
  BY <1>0, <1>2 DEF Good, IInv

\* The address of a store is never filtered away.
LEMMA StoredAddress ==
  ASSUME TypeInv, Store
  PROVE  spike'[si + 1].mem_addr = SpikeEntry.mem_addr
<1>1. /\ spike' = ReadFiltered /\ ReadFiltered[si + 1].mem_addr # None
      /\ si + 1 \in 1..Len(spike)
  BY StoreOperands, ReadFilteredType DEF Store, Matched
<1>2. CASE SpikeEntry.mem_addr # None /\ SpikeEntry.mem_val = None
  <2>1. spike' = [spike EXCEPT ![si + 1] = [spike[si + 1] EXCEPT !.mem_addr = None]]
    BY <1>1, <1>2 DEF ReadFiltered
  <2>2. spike \in Seq(Entry) /\ spike[si + 1] \in Entry
    BY <1>1, StoreOperands, ElementOfSeq DEF TypeOK
  <2>. QED
    BY <1>1, <2>1, <2>2 DEF Entry
<1>3. CASE ~(SpikeEntry.mem_addr # None /\ SpikeEntry.mem_val = None)
  BY <1>1, <1>3 DEF ReadFiltered, SpikeEntry
<1>. QED
  BY <1>2, <1>3

LEMMA StoreTurnBacked ==
  ASSUME TypeInv, IInv, Store, Good'
  PROVE  Backed'
<1>. DEFINE a    == mems[mi + 1]
            addr == SpikeEntry.mem_addr
            word == StoredBytes(Fetch.instr.kind, a.val, addr)
            row  == [BareRow EXCEPT !.mem_addr = a.addr + (addr % 4), !.mem_val = word,
                                    !.src = mi + 1]
<1>0. /\ TypeOK /\ InLoop /\ spike' = ReadFiltered /\ si' = si + 1 /\ mi' = mi + 1 /\ ci' = ci
      /\ ci \in Nat /\ mi \in Nat /\ si \in Nat /\ input' = input /\ phase' = phase
      /\ spike_regfile' = spike_regfile /\ commits' = WithInserted
      /\ Fetch.instr.kind \in Stores
  BY LenProperties DEF TypeInv, TypeOK, Store, Matched
<1>1. /\ mi + 1 \in 1..Len(mems) /\ a.addr + (addr % 4) \in Nat /\ word \in Word
      /\ mi + 1 \in Nat
  BY <1>0, StoreOperands
<1>2. /\ row \in Row /\ row.speculative_fetch = FALSE /\ row.instr = Fetch.instr
      /\ row.src = mi + 1 /\ row.target_reg = None
      /\ row.mem_addr = a.addr + (addr % 4) /\ row.mem_val = word
  <2>1. BareRow \in Row /\ BareRow.speculative_fetch = FALSE /\ BareRow.instr = Fetch.instr
        /\ BareRow.target_reg = None
    BY <1>0, BareRowType
  <2>. HIDE DEF a, addr, word
  <2>2. row \in Row
    BY <1>1, <2>1 DEF Row
  <2>. QED
    BY <1>1, <2>1, <2>2 DEF Row
<1>3. Emit(row)
  BY DEF Store
<1>. HIDE DEF row
<1>4. nonspec' = Append(nonspec, row)
  BY <1>0, <1>2, <1>3, EmitType DEF TypeOK
<1>n. PICK n \in Nat : n = si + 1
  BY <1>0
<1>i. PICK i \in Nat : i = mi + 1
  BY <1>0
<1>5. /\ commits' = commits /\ spike'[n].target_reg = None
      /\ RegistersFollow' /\ NoneInventedLeft'
  BY <1>0, <1>2, <1>4, <1>n, QuietTurn
<1>6. /\ Good /\ Strip(row) = spike'[n] /\ nonspec'[n] = row
      /\ \A k \in 1..si : spike'[k] = spike[k] /\ nonspec'[k] = nonspec[k]
  BY <1>0, <1>2, <1>4, <1>n, TurnFacts DEF IInv
<1>7. /\ spike'[n].instr = Fetch.instr
      /\ spike'[n].mem_addr = a.addr + (addr % 4) /\ spike'[n].mem_val = word
  BY <1>2, <1>6, StripFields
<1>8. spike'[n].mem_addr = addr
  BY <1>n, StoredAddress
<1>9. a = input.dut.mems[i]
  BY <1>0, <1>1, <1>i DEF IInv, MemsLeft
<1>10. \A k \in 1..mi : \E m \in 1..si : spike'[m].instr.kind \in Stores /\ nonspec'[m].src = k
  <2>1. AccessesUsed
    BY <1>6 DEF IInv, Backed
  <2>. QED
    BY <1>6, <2>1 DEF AccessesUsed
<1>. HIDE DEF a, addr
<1>11. StoreBacked(n)'
  <2>1. /\ input.dut.mems[i].addr + (spike'[n].mem_addr % 4) = spike'[n].mem_addr
        /\ StoredBytes(spike'[n].instr.kind, input.dut.mems[i].val, spike'[n].mem_addr)
             = spike'[n].mem_val
    BY <1>7, <1>8, <1>9
  <2>2. i \in 1..mi' /\ i - 1 = mi /\ n - 1 = si
    BY <1>0, <1>i, <1>n
  <2>3. nonspec'[n].src = i
    BY <1>2, <1>6, <1>i
  <2>. QED
    BY <1>0, <1>10, <2>1, <2>2, <2>3 DEF StoreBacked
<1>12. WriteBacked(n)'
  BY <1>5 DEF WriteBacked
<1>13. \A k \in (mi + 1)..mi' : spike'[n].instr.kind \in Stores /\ row.src = k
  <2>1. \A k \in (mi + 1)..mi' : k = mi + 1
    BY <1>0
  <2>. QED
    BY <1>0, <1>2, <1>7, <2>1
<1>14. ci <= ci' /\ mi <= mi' /\ ci' \in Nat /\ mi' \in Nat
  BY <1>0
<1>. QED
  BY <1>0, <1>2, <1>4, <1>5, <1>n, <1>11, <1>12, <1>13, <1>14, TurnBacked

\* The commits of a write back, when nothing invented was left: the one that is
\* consumed is invented only for a repeated write, and none is left again.
LEMMA TakenCommit ==
  ASSUME TypeInv, InLoop, ci < Len(WithInserted),
         \A p \in (ci + 1)..Len(commits) : commits[p].src # 0
  PROVE  /\ ForWriteBack[ci + 1].src = 0 => Repeated
         /\ \A q \in (ci + 2)..Len(ForWriteBack) : ForWriteBack[q].src # 0
<1>0. TypeOK /\ IsTrace(spike) /\ ci \in Nat /\ Len(commits) \in Nat /\ ci <= Len(commits)
  BY LenProperties DEF TypeInv, TypeOK
<1>1. /\ Len(ForWriteBack) = Len(WithInserted)
      /\ \/ ForWriteBack = WithInserted
         \/ /\ ~Repeated
            /\ ci + 2 \in 1..Len(commits)
            /\ ForWriteBack[ci + 1] = commits[ci + 2]
            /\ ForWriteBack[ci + 2] = commits[ci + 1]
            /\ \A k \in 1..Len(commits) :
                 k # ci + 1 /\ k # ci + 2 => ForWriteBack[k] = commits[k]
  BY <1>0, ForWriteBackType
<1>2. CASE Repeated
  <2>1. /\ ForWriteBack = WithInserted /\ Len(WithInserted) = Len(commits) + 1
        /\ \A k \in (ci + 2)..Len(WithInserted) : WithInserted[k] = commits[k - 1]
    BY <1>0, <1>1, <1>2, WithInsertedType
  <2>. QED
    BY <1>0, <1>2, <2>1
<1>3. CASE ~Repeated
  <2>1. WithInserted = commits
    BY <1>0, <1>3, WithInsertedType
  <2>2. CASE ForWriteBack = WithInserted
    BY <1>0, <2>1, <2>2
  <2>3. CASE ForWriteBack # WithInserted
    BY <1>0, <1>1, <2>1, <2>3
  <2>. QED
    BY <2>2, <2>3
<1>. QED
  BY <1>2, <1>3

LEMMA WriteBackBacked ==
  ASSUME TypeInv, Kept(commits), IInv, WriteBack, Good'
  PROVE  Backed'
<1>. DEFINE c    == ForWriteBack[ci + 1]
            flag == Repeated
            row  == [BareRow EXCEPT !.target_reg = c.reg, !.reg_val = c.val, !.src = c.src,
                                    !.speculative_commit = flag]
<1>0. /\ TypeOK /\ InLoop /\ spike' = ReadFiltered /\ si' = si + 1 /\ mi' = mi /\ ci' = ci + 1
      /\ ci \in Nat /\ mi \in Nat /\ si \in Nat /\ Len(commits) \in Nat
      /\ input' = input /\ phase' = phase /\ phase = "generate"
      /\ commits' = ForWriteBack /\ ci < Len(WithInserted) /\ IsTrace(spike)
      /\ SpikeEntry.target_reg # None
      /\ spike_regfile' = [spike_regfile EXCEPT ![SpikeEntry.target_reg] = SpikeEntry.reg_val]
      /\ Fetch.instr.kind \notin Stores
  <2>1. /\ InLoop /\ spike' = ReadFiltered /\ si' = si + 1 /\ mi' = mi /\ ci' = ci + 1
        /\ input' = input /\ phase' = phase
        /\ commits' = ForWriteBack /\ ci < Len(WithInserted)
        /\ SpikeEntry.target_reg # None
        /\ spike_regfile' = [spike_regfile EXCEPT ![SpikeEntry.target_reg] = SpikeEntry.reg_val]
        /\ Fetch.instr.kind \in Writers
    BY DEF WriteBack, Matched
  <2>2. TypeOK /\ IsTrace(spike) /\ ci \in Nat /\ mi \in Nat /\ si \in Nat /\ Len(commits) \in Nat
    BY LenProperties DEF TypeInv, TypeOK
  <2>3. Fetch.instr.kind \notin Stores
    BY <2>1 DEF Writers, Stores
  <2>4. phase = "generate"
    BY <2>1 DEF InLoop
  <2>. QED
    BY <2>1, <2>2, <2>3, <2>4, Zenon
<1>1. /\ Len(ForWriteBack) \in Nat /\ ci + 1 \in 1..Len(ForWriteBack) /\ c \in Commit
      /\ \A k \in 1..ci : ForWriteBack[k] = commits[k]
  BY <1>0, ForWriteBackType, ElementOfSeq, LenProperties
<1>2. /\ row \in Row /\ row.speculative_fetch = FALSE /\ row.instr = Fetch.instr
      /\ row.src = c.src /\ row.target_reg = c.reg /\ row.reg_val = c.val
  <2>1. BareRow \in Row /\ BareRow.speculative_fetch = FALSE /\ BareRow.instr = Fetch.instr
    BY <1>0, BareRowType
  <2>2. flag \in BOOLEAN
    BY DEF Repeated
  <2>3. c.reg \in Reg /\ c.val \in Value /\ c.src \in Nat
    BY <1>1 DEF Commit
  <2>. HIDE DEF c, flag
  <2>4. row \in Row
    BY <2>1, <2>2, <2>3 DEF Row
  <2>. QED
    BY <2>1, <2>4 DEF Row
<1>3. Emit(row)
  BY DEF WriteBack
<1>. HIDE DEF row
<1>4. nonspec' = Append(nonspec, row)
  BY <1>0, <1>2, <1>3, EmitType DEF TypeOK
<1>n. PICK n \in Nat : n = si + 1
  BY <1>0
<1>p. PICK p \in Nat : p = ci + 1
  BY <1>0
<1>5. /\ Good /\ Strip(row) = spike'[n] /\ nonspec'[n] = row /\ Len(spike') = Len(spike)
      /\ \A k \in 1..Len(spike) : /\ spike'[k].target_reg = spike[k].target_reg
                                  /\ spike'[k].reg_val = spike[k].reg_val
      /\ n \in 1..Len(spike) /\ Len(spike) \in Nat
  BY <1>0, <1>2, <1>4, <1>n, TurnFacts, ReadFilteredType, LenProperties DEF IInv, TypeOK
<1>6. Backed
  BY <1>5 DEF IInv
<1>7. /\ SpikeEntry.target_reg = c.reg /\ SpikeEntry.reg_val = c.val
      /\ spike'[n].target_reg = c.reg /\ spike'[n].reg_val = c.val
      /\ spike'[n].instr = Fetch.instr
  <2>1. /\ spike'[n].target_reg = c.reg /\ spike'[n].reg_val = c.val
        /\ spike'[n].instr = Fetch.instr
    BY <1>2, <1>5, StripFields
  <2>. QED
    BY <1>5, <1>n, <2>1 DEF SpikeEntry
<1>8. /\ c.src = 0 => Repeated
      /\ \A q \in (p + 1)..Len(commits') : commits'[q].src # 0
  <2>1. \A q \in (ci + 1)..Len(commits) : commits[q].src # 0
    BY <1>0, <1>6 DEF Backed, NoneInventedLeft
  <2>2. /\ c.src = 0 => Repeated
        /\ \A q \in (ci + 2)..Len(ForWriteBack) : ForWriteBack[q].src # 0
    BY <1>0, <2>1, TakenCommit
  <2>. QED
    BY <1>0, <1>p, <2>2
<1>9. Kept(ForWriteBack)
  BY <1>0, ReorderingKeeps
<1>10. c.reg \in Reg /\ c.val \in Value
  BY <1>1 DEF Commit
<1>. HIDE DEF c
<1>11. RegistersFollow'
  <2>. SUFFICES ASSUME NEW r \in Reg
                PROVE  ValueBefore(spike', r, n + 1, spike_regfile'[r])
    BY <1>0, <1>n DEF RegistersFollow
  <2>1. n \in 1..Len(spike') /\ Len(spike') \in Nat
    BY <1>5
  <2>2. CASE r = c.reg
    <3>1. spike_regfile'[r] = c.val
      BY <1>0, <1>7, <2>2 DEF TypeOK
    <3>2. spike'[n].target_reg = r => ValueBefore(spike', r, n + 1, spike'[n].reg_val)
      BY <2>1, AfterWrite
    <3>. QED
      BY <1>7, <2>2, <3>1, <3>2
  <2>3. CASE r # c.reg
    <3>1. spike_regfile'[r] = spike_regfile[r]
      BY <1>0, <1>7, <2>3 DEF TypeOK
    <3>2. ValueBefore(spike, r, n, spike_regfile[r])
      BY <1>6, <1>n DEF Backed, RegistersFollow
    <3>3. ValueBefore(spike', r, n, spike_regfile[r])
      BY <1>5, <3>2, SameWrites
    <3>. QED
      BY <1>7, <2>1, <2>3, <3>1, <3>3, AfterWrite
  <2>. QED
    BY <2>2, <2>3
<1>12. WriteBacked(n)'
  <2>1. CASE c.src = 0
    <3>1. spike_regfile[c.reg] = c.val
      BY <1>7, <1>8, <2>1 DEF Repeated
    <3>2. ValueBefore(spike, c.reg, n, c.val)
      BY <1>6, <1>10, <1>n, <3>1 DEF Backed, RegistersFollow
    <3>3. ValueBefore(spike', c.reg, n, c.val)
      BY <1>5, <3>2, SameWrites
    <3>. QED
      BY <1>2, <1>5, <1>7, <2>1, <3>3 DEF WriteBacked
  <2>2. CASE c.src # 0
    <3>1. FromDut(c)
      BY <1>1, <1>9 DEF Kept, c
    <3>2. /\ c.src \in 1..Len(input.dut.commits)
          /\ input.dut.commits[c.src] = [reg |-> c.reg, val |-> c.val]
      BY <2>2, <3>1 DEF FromDut
    <3>3. p \in 1..ci' /\ commits'[p].src = c.src
      BY <1>0, <1>p DEF c
    <3>4. \E q \in 1..ci' : commits'[q].src = c.src
      BY <3>3
    <3>5. nonspec'[n].src = c.src /\ input' = input
      BY <1>0, <1>2, <1>5
    <3>. QED
      BY <1>7, <3>2, <3>4, <3>5 DEF WriteBacked
  <2>. QED
    BY <2>1, <2>2
<1>13. StoreBacked(n)'
  BY <1>0, <1>7 DEF StoreBacked
<1>14. ASSUME NEW k \in 1..si, spike[k].target_reg # None, row.src # 0
       PROVE  row.src # nonspec[k].src
  <2>. SUFFICES ASSUME row.src = nonspec[k].src PROVE FALSE
    OBVIOUS
  <2>1. WriteBacked(k)
    BY <1>6 DEF Backed
  <2>2. PICK q \in 1..ci : commits[q].src = nonspec[k].src
    BY <1>14, <2>1 DEF WriteBacked
  <2>3. ForWriteBack[q].src = c.src /\ ForWriteBack[p].src = c.src /\ c.src # 0
    BY <1>1, <1>2, <1>14, <1>p, <2>2 DEF c
  <2>4. q \in 1..Len(ForWriteBack) /\ p \in 1..Len(ForWriteBack) /\ q # p
    BY <1>0, <1>1, <1>p
  <2>5. q = p
    BY <1>9, <2>3, <2>4 DEF Kept
  <2>. QED
    BY <2>4, <2>5
<1>15. NoneInventedLeft'
  BY <1>0, <1>8, <1>p DEF NoneInventedLeft
<1>16. \A k \in 1..ci : commits'[k] = commits[k]
  BY <1>0, <1>1
<1>17. /\ ci <= ci' /\ mi <= mi' /\ ci' \in Nat /\ mi' \in Nat
       /\ \A k \in (mi + 1)..mi' : FALSE
  BY <1>0
<1>. QED
  BY <1>0, <1>2, <1>4, <1>11, <1>12, <1>13, <1>14, <1>15, <1>16, <1>17, <1>n, TurnBacked

LEMMA LeaveLoopBacked ==
  ASSUME TypeInv, IInv, Good',
         EndOfSpike \/ OutOfFetches \/ OutOfCommits \/ OutOfAccesses \/ GenerateRaises
  PROVE  Backed'
<1>1. /\ input' = input /\ si' = si /\ nonspec' = nonspec /\ ci' = ci /\ mi' = mi
      /\ spike_regfile' = spike_regfile /\ phase' # "generate"
  BY DEF EndOfSpike, OutOfFetches, OutOfCommits, OutOfAccesses, GenerateRaises, LeaveLoop, genVars
<1>2. /\ spike' = spike \/ (InLoop /\ spike' = ReadFiltered)
      /\ commits' = commits \/ (InLoop /\ commits' = WithInserted)
  BY DEF EndOfSpike, OutOfFetches, OutOfCommits, OutOfAccesses, GenerateRaises, LeaveLoop, genVars,
         Matched
<1>3. \A k \in 1..ci : commits'[k] = commits[k]
  BY <1>2, WithInsertedType DEF TypeInv
<1>4. NoneInventedLeft'
  BY <1>1 DEF NoneInventedLeft
<1>. QED
  BY <1>1, <1>2, <1>3, <1>4, NoTurn

LEMMA CompareBacked ==
  ASSUME TypeInv, IInv, Good', Compare \/ UNCHANGED vars
  PROVE  Backed'
<1>1. UNCHANGED <<input, genVars>> /\ (phase' = phase \/ phase' # "generate")
  BY DEF Compare, CompareEqual, CompareDifferent, CompareOutOfEntries, CompareEnd, CompareRaises,
         vars
<1>2. /\ spike' = spike /\ nonspec' = nonspec /\ si' = si /\ ci' = ci /\ mi' = mi
      /\ commits' = commits /\ spike_regfile' = spike_regfile /\ input' = input
  BY <1>1 DEF genVars
<1>3. Good
  BY <1>2 DEF Good
<1>4. Backed
  BY <1>3 DEF IInv
<1>5. NoneInventedLeft'
  BY <1>1, <1>2, <1>4 DEF Backed, NoneInventedLeft
<1>. QED
  BY <1>2, <1>5, NoTurn

LEMMA StepBacked ==
  ASSUME TypeInv, Kept(commits), IInv, [Next]_vars, Good'
  PROVE  Backed'
BY SpeculativeFetchBacked, FetchOnlyBacked, UnknownInstructionBacked, StoreTurnBacked,
   WriteBackBacked, LeaveLoopBacked, CompareBacked DEF Next, Generate

-----------------------------------------------------------------------------
(* The rest of the invariant *)

\* What a step does to the rows, the accesses and the cursors.
LEMMA StepOfRows ==
  ASSUME TypeInv, [Next]_vars
  PROVE  /\ \/ si' = si /\ nonspec' = nonspec
            \/ si' = si + 1 /\ Len(nonspec') <= Len(nonspec) + 1
         /\ input' = input
         /\ \/ mems' = mems /\ mi' = mi
            \/ Store
<1>1. CASE Compare \/ UNCHANGED vars
  BY <1>1 DEF Compare, CompareEqual, CompareDifferent, CompareOutOfEntries, CompareEnd,
              CompareRaises, vars, genVars
<1>2. CASE EndOfSpike \/ OutOfFetches \/ OutOfCommits \/ OutOfAccesses \/ GenerateRaises
  BY <1>2 DEF EndOfSpike, OutOfFetches, OutOfCommits, OutOfAccesses, GenerateRaises, LeaveLoop,
              genVars
<1>3. CASE SpeculativeFetch
  <2>1. nonspec' = nonspec
    BY <1>3, BareRowType DEF SpeculativeFetch, Emit, TypeInv, Row
  <2>. QED
    BY <1>3, <2>1 DEF SpeculativeFetch
<1>4. CASE FetchOnly \/ WriteBack \/ Store \/ UnknownInstruction
  <2>1. /\ si' = si + 1 /\ input' = input
        /\ (mems' = mems /\ mi' = mi) \/ Store
    BY <1>4 DEF FetchOnly, WriteBack, Store, UnknownInstruction
  <2>2. \E row : nonspec' = nonspec \/ nonspec' = Append(nonspec, row)
    BY <1>4 DEF FetchOnly, WriteBack, Store, UnknownInstruction, Emit
  <2>3. nonspec \in Seq(Row) /\ nonspec' \in Seq(Row)
    BY NextType DEF TypeInv, TypeOK
  <2>4. Len(nonspec') <= Len(nonspec) + 1
    BY <2>2, <2>3, LenProperties
  <2>. QED
    BY <2>1, <2>4
<1>. QED
  BY <1>1, <1>2, <1>3, <1>4 DEF Next, Generate

LEMMA StepRowsBounded ==
  ASSUME TypeInv, Len(nonspec) <= si, [Next]_vars
  PROVE  Len(nonspec') <= si'
<1>1. /\ si \in Nat /\ Len(nonspec) \in Nat /\ Len(nonspec') \in Nat
  BY NextType, LenProperties DEF TypeInv, TypeOK
<1>. QED
  BY <1>1, StepOfRows

LEMMA StepMemsLeft ==
  ASSUME TypeInv, MemsLeft, [Next]_vars
  PROVE  MemsLeft'
<1>1. CASE mems' = mems /\ mi' = mi
  BY <1>1, StepOfRows DEF MemsLeft
<1>2. CASE Store
  <2>. DEFINE b == [mems[mi + 1] EXCEPT !.addr = mems[mi + 1].addr + (SpikeEntry.mem_addr % 4)]
  <2>1. mems' = [mems EXCEPT ![mi + 1] = b] /\ mi' = mi + 1 /\ input' = input
    BY <1>2 DEF Store
  <2>2. b \in Access /\ mi + 1 \in 1..Len(mems) /\ mems \in Seq(Access)
    BY <1>2, StoreOperands DEF Access, TypeOK
  <2>. HIDE DEF b
  <2>3. /\ Len(mems') = Len(mems)
        /\ \A i \in 1..Len(mems) : mems'[i] = IF i = mi + 1 THEN b ELSE mems[i]
    BY <2>1, <2>2, ExceptSeq
  <2>4. mi \in Nat /\ Len(mems) \in Nat
    BY LenProperties DEF TypeInv, TypeOK
  <2>. QED
    BY <2>1, <2>3, <2>4 DEF MemsLeft
<1>. QED
  BY <1>1, <1>2, StepOfRows

LEMMA StepCompared ==
  ASSUME TypeInv, Compared, [Next]_vars
  PROVE  Compared'
<1>0. TypeOK /\ cmp \in Nat /\ Len(nonspec) \in Nat /\ Len(spike) \in Nat /\ cmp <= Len(spike)
  BY LenProperties DEF TypeInv, TypeOK
<1>1. CASE UNCHANGED vars
  BY <1>1 DEF vars, genVars, cmpVars, Compared
<1>2. CASE Generate
  <2>1. /\ phase = "generate" /\ cmp' = cmp /\ mismatches' = mismatches
        /\ phase' # "done"
    BY <1>2 DEF Generate, EndOfSpike, OutOfFetches, OutOfCommits, OutOfAccesses, SpeculativeFetch,
       FetchOnly, WriteBack, Store, UnknownInstruction, GenerateRaises, Matched, LeaveLoop, InLoop,
       cmpVars
  <2>2. Len(nonspec') \in Nat /\ cmp' = 0
    BY <2>1, NextType, LenProperties DEF TypeInv, TypeOK, Compared
  <2>. QED
    BY <2>1, <2>2 DEF Compared
<1>3. CASE CompareEqual
  <2>1. /\ Comparing /\ cmp < Len(nonspec) /\ Strip(nonspec[cmp + 1]) = spike[cmp + 1]
        /\ mismatches' = ClearedReport /\ cmp' = cmp + 1 /\ phase' = phase
        /\ spike' = spike /\ nonspec' = nonspec
    BY <1>3 DEF CompareEqual, genVars
  <2>2. Len(mismatches') = Len(mismatches)
    BY <2>1, ComparedTypes
  <2>3. mismatches' = << >> => mismatches = << >>
    BY <1>0, <2>2, EmptySeq DEF TypeOK
  <2>4. phase = "compare"
    BY <2>1 DEF Comparing
  <2>5. mismatches = << >> => \A k \in 1..(cmp + 1) : Strip(nonspec[k]) = spike[k]
    <3>1. \A k \in 1..(cmp + 1) : k \in 1..cmp \/ k = cmp + 1
      BY <1>0
    <3>. QED
      BY <2>1, <3>1 DEF Compared
  <2>. QED
    BY <1>0, <2>1, <2>3, <2>4, <2>5 DEF Compared
<1>4. CASE CompareDifferent \/ CompareOutOfEntries
  <2>1. Comparing /\ phase' # "generate" /\ mismatches \in Seq([spike : Entry, dut : Reported])
    BY <1>0, <1>4 DEF CompareDifferent, CompareOutOfEntries, Comparing, TypeOK
  <2>2. mismatches' # << >>
    <3>1. CASE CompareDifferent
      <4>. DEFINE e == [spike |-> spike[cmp + 1], dut |-> Strip(nonspec[cmp + 1])]
      <4>1. /\ ClearedReport \in Seq([spike : Entry, dut : Reported])
            /\ e \in [spike : Entry, dut : Reported]
            /\ mismatches' = Append(ClearedReport, e)
        BY <3>1, <2>1, ComparedTypes DEF CompareDifferent
      <4>. HIDE DEF e
      <4>. QED
        BY <4>1, ReportGrows, Zenon
    <3>2. CASE CompareOutOfEntries
      <4>. DEFINE e == [spike |-> spike[cmp + 1], dut |-> EmptyEntry]
      <4>1. e \in [spike : Entry, dut : Reported] /\ mismatches' = Append(mismatches, e)
        BY <3>2, <2>1, ComparedTypes DEF CompareOutOfEntries
      <4>. HIDE DEF e
      <4>. QED
        BY <2>1, <4>1, ReportGrows, Zenon
    <3>. QED
      BY <1>4, <3>1, <3>2
  <2>. QED
    BY <2>1, <2>2 DEF Compared
<1>5. CASE CompareEnd \/ CompareRaises
  <2>1. /\ cmp' = cmp /\ mismatches' = mismatches /\ spike' = spike /\ nonspec' = nonspec
        /\ phase' # "generate" /\ (phase' = "done" => cmp >= Len(spike))
    BY <1>5 DEF CompareEnd, CompareRaises, genVars, cmpVars
  <2>. QED
    BY <1>0, <2>1 DEF Compared
<1>. QED
  BY <1>1, <1>2, <1>3, <1>4, <1>5 DEF Next, Compare

LEMMA InitIInv == Init => IInv
<1>. SUFFICES ASSUME Init PROVE IInv
  OBVIOUS
<1>0. TypeOK /\ Len(commits) \in Nat
  BY InitType, LenProperties DEF TypeInv, TypeOK
<1>1. /\ nonspec = << >> /\ si = 0 /\ ci = 0 /\ mi = 0 /\ cmp = 0 /\ mems = input.dut.mems
      /\ phase = "generate" /\ spike_regfile = [r \in Reg |-> 0]
  BY DEF Init
<1>2. RegistersFollow
  <2>. SUFFICES ASSUME NEW r \in Reg PROVE ValueBefore(spike, r, 1, 0)
    BY <1>1 DEF RegistersFollow
  <2>1. WritesBefore(spike, r, 1) = {}
    BY DEF WritesBefore
  <2>. QED
    BY <2>1 DEF ValueBefore
<1>3. NoneInventedLeft
  <2>1. commits = [k \in 1..Len(input.dut.commits) |->
                     [reg |-> input.dut.commits[k].reg, val |-> input.dut.commits[k].val,
                      src |-> k]]
    BY DEF Init
  <2>2. Len(input.dut.commits) \in Nat
    BY <1>0, LenProperties DEF TypeOK, Fragment
  <2>3. Len(commits) = Len(input.dut.commits)
    BY <2>1, <2>2, <1>0, LenProperties DEF TypeOK
  <2>. QED
    BY <1>1, <2>1, <2>2, <2>3 DEF NoneInventedLeft
<1>4. OneVoucher /\ AccessesUsed /\ \A k \in 1..si : WriteBacked(k) /\ StoreBacked(k)
  BY <1>1 DEF OneVoucher, AccessesUsed
<1>5. MemsLeft /\ Compared
  BY <1>1 DEF MemsLeft, Compared
<1>. QED
  BY <1>1, <1>2, <1>3, <1>4, <1>5 DEF IInv, Backed

LEMMA NextIInv == TypeInv /\ Kept(commits) /\ IInv /\ [Next]_vars => IInv'
<1>. SUFFICES ASSUME TypeInv, Kept(commits), IInv, [Next]_vars PROVE IInv'
  OBVIOUS
<1>1. Len(nonspec') <= si'
  BY StepRowsBounded DEF IInv
<1>2. MemsLeft'
  BY StepMemsLeft DEF IInv
<1>3. Compared'
  BY StepCompared DEF IInv
<1>. QED
  BY <1>1, <1>2, <1>3, StepBacked DEF IInv

LEMMA AlwaysIInv == Spec => []IInv
BY InitIInv, NextIInv, AlwaysTyped, AlwaysKept, PTL DEF Spec

-----------------------------------------------------------------------------
(* The theorems *)

\* No silent pass, for traces and fragments of any length: when the comparison
\* reports nothing, each write of Spike was invisible or committed by the DUT, by a
\* commit that vouches for no other write, and the stores of Spike are the first
\* accesses of the DUT, in order, with the same bytes.
THEOREM VerdictBacked == Spec => []PassesAreBacked
<1>1. TypeInv /\ IInv => PassesAreBacked
  <2>. SUFFICES ASSUME TypeInv, IInv, Passed PROVE WritesBacked /\ StoresBacked
    BY DEF PassesAreBacked, WritesBacked, StoresBacked
  <2>1. /\ si \in Nat /\ Len(spike) \in Nat /\ Len(nonspec) \in Nat /\ si <= Len(spike)
        /\ mi \in Nat /\ Len(mems) \in Nat /\ mi <= Len(mems)
    BY LenProperties DEF TypeInv, TypeOK
  <2>2. /\ Len(nonspec) <= si /\ Len(spike) <= Len(nonspec)
        /\ \A k \in 1..Len(spike) : Strip(nonspec[k]) = spike[k]
    BY DEF IInv, Compared, Passed
  <2>3. si = Len(spike) /\ Len(nonspec) = si
    BY <2>1, <2>2
  <2>4. Backed
    BY <2>2, <2>3 DEF IInv, Good
  <2>5. WritesBacked
    BY <2>3, <2>4 DEF Backed, WriteBacked, OneVoucher, WritesBacked
  <2>6. StoresBacked
    <3>1. \A j : j \in 1..mi => j \in 1..Len(input.dut.mems)
      BY <2>1 DEF IInv, MemsLeft
    <3>. QED
      BY <2>3, <2>4, <3>1 DEF Backed, StoreBacked, StoresBacked
  <2>. QED
    BY <2>5, <2>6
<1>. QED
  BY <1>1, AlwaysTyped, AlwaysIInv, PTL

-----------------------------------------------------------------------------
(* The alignment of the rows *)

\* A turn that adds a row for the entry at hand, or passes an unknown instruction.
LEMMA StepOfAlignment ==
  ASSUME TypeInv, [Next]_vars
  PROVE  /\ fetches' = fetches
         /\ \/ si' = si /\ nonspec' = nonspec /\ fi' \in {fi, fi + 1}
            \/ /\ fi + 1 \in 1..Len(fetches) /\ fi' = fi + 1
               /\ fetches[fi + 1].instr.kind = "other"
            \/ /\ si' = si + 1 /\ fi' = fi + 1
               /\ \E row \in Row : row.at = si + 1 /\ nonspec' = Append(nonspec, row)
<1>0. TypeOK /\ IsTrace(spike)
  BY DEF TypeInv
<1>1. CASE Compare \/ UNCHANGED vars
  BY <1>1 DEF Compare, CompareEqual, CompareDifferent, CompareOutOfEntries, CompareEnd,
              CompareRaises, vars, genVars
<1>2. CASE EndOfSpike \/ OutOfFetches \/ OutOfCommits \/ OutOfAccesses \/ GenerateRaises
  BY <1>2 DEF EndOfSpike, OutOfFetches, OutOfCommits, OutOfAccesses, GenerateRaises, LeaveLoop,
              genVars
<1>3. CASE SpeculativeFetch
  <2>1. nonspec' = nonspec
    BY <1>0, <1>3, BareRowType DEF SpeculativeFetch, Emit, Row
  <2>. QED
    BY <1>3, <2>1 DEF SpeculativeFetch
<1>4. CASE UnknownInstruction
  <2>1. fi' = fi + 1 /\ fetches' = fetches /\ InLoop /\ Fetch.instr.kind = "other"
    BY <1>4 DEF UnknownInstruction, Matched
  <2>2. fi + 1 \in 1..Len(fetches)
    <3>1. Len(fetches) \in Nat /\ fi \in Nat
      BY <1>0, LenProperties DEF TypeOK, Fragment
    <3>. QED
      BY <2>1, <3>1 DEF InLoop
  <2>. QED
    BY <2>1, <2>2 DEF Fetch
<1>5. CASE FetchOnly
  <2>. DEFINE flag == Fetch.instr.kind \in Writers /\ Repeated
              row  == [BareRow EXCEPT !.speculative_commit = flag]
  <2>1. /\ si' = si + 1 /\ fi' = fi + 1 /\ fetches' = fetches /\ Emit(row) /\ InLoop
        /\ flag \in BOOLEAN
    BY <1>5 DEF FetchOnly, Matched, Repeated
  <2>. HIDE DEF flag
  <2>2. row \in Row /\ row.speculative_fetch = FALSE /\ row.at = si + 1
    BY <1>0, <2>1, FetchRowType
  <2>. HIDE DEF row
  <2>3. nonspec' = Append(nonspec, row)
    BY <1>0, <2>1, <2>2, EmitType DEF TypeOK
  <2>. QED
    BY <2>1, <2>2, <2>3
<1>6. CASE WriteBack
  <2>. DEFINE c    == ForWriteBack[ci + 1]
              flag == Repeated
              row  == [BareRow EXCEPT !.target_reg = c.reg, !.reg_val = c.val, !.src = c.src,
                                      !.speculative_commit = flag]
  <2>1. /\ si' = si + 1 /\ fi' = fi + 1 /\ fetches' = fetches /\ Emit(row) /\ InLoop
        /\ ci < Len(WithInserted)
    BY <1>6 DEF WriteBack, Matched
  <2>2. c \in Commit
    BY <1>0, <2>1, ForWriteBackType, ElementOfSeq
  <2>3. flag \in BOOLEAN
    BY DEF Repeated
  <2>. HIDE DEF c, flag
  <2>4. row \in Row /\ row.speculative_fetch = FALSE /\ row.at = si + 1
    BY <1>0, <2>1, <2>2, <2>3, WriteRowType
  <2>. HIDE DEF row
  <2>5. nonspec' = Append(nonspec, row)
    BY <1>0, <2>1, <2>4, EmitType DEF TypeOK
  <2>. QED
    BY <2>1, <2>4, <2>5
<1>7. CASE Store
  <2>. DEFINE addr == mems[mi + 1].addr + (SpikeEntry.mem_addr % 4)
              word == StoredBytes(Fetch.instr.kind, mems[mi + 1].val, SpikeEntry.mem_addr)
              row  == [BareRow EXCEPT !.mem_addr = addr, !.mem_val = word, !.src = mi + 1]
  <2>1. /\ si' = si + 1 /\ fi' = fi + 1 /\ fetches' = fetches /\ Emit(row) /\ InLoop
    BY <1>7 DEF Store, Matched
  <2>2. addr \in Nat /\ word \in Word /\ mi + 1 \in Nat
    BY <1>7, StoreOperands
  <2>. HIDE DEF addr, word
  <2>3. row \in Row /\ row.speculative_fetch = FALSE /\ row.at = si + 1
    <3>1. BareRow \in Row /\ BareRow.speculative_fetch = FALSE /\ BareRow.at = si + 1
      BY <1>0, <2>1, BareRowType
    <3>2. row \in Row
      BY <2>2, <3>1 DEF Row
    <3>. QED
      BY <3>1, <3>2 DEF Row
  <2>. HIDE DEF row
  <2>4. nonspec' = Append(nonspec, row)
    BY <1>0, <2>1, <2>3, EmitType DEF TypeOK
  <2>. QED
    BY <2>1, <2>3, <2>4
<1>. QED
  BY <1>1, <1>2, <1>3, <1>4, <1>5, <1>6, <1>7 DEF Next, Generate

\* Until the decoder meets an instruction it does not know, each entry that was
\* passed has exactly one row to be compared with: its own.
THEOREM RowsStayAligned == Spec => []RowsAligned
<1>1. Init => RowsAligned
  BY DEF Init, RowsAligned
<1>2. TypeInv /\ RowsAligned /\ [Next]_vars => RowsAligned'
  <2>. SUFFICES ASSUME TypeInv, RowsAligned, [Next]_vars,
                       \A k \in 1..fi' : fetches'[k].instr.kind # "other"
                PROVE  Len(nonspec') = si' /\ \A k \in 1..si' : nonspec'[k].at = k
    BY DEF RowsAligned
  <2>1. /\ nonspec \in Seq(Row) /\ Len(nonspec) \in Nat /\ si \in Nat /\ fi \in Nat
    BY LenProperties DEF TypeInv, TypeOK
  <2>2. fetches' = fetches /\ fi' \in {fi, fi + 1}
    BY StepOfAlignment
  <2>3. \A k \in 1..fi : fetches[k].instr.kind # "other"
    BY <2>1, <2>2
  <2>4. Len(nonspec) = si /\ \A k \in 1..si : nonspec[k].at = k
    BY <2>3 DEF RowsAligned
  <2>5. CASE si' = si /\ nonspec' = nonspec
    BY <2>4, <2>5
  <2>6. CASE fi' = fi + 1 /\ fetches[fi + 1].instr.kind = "other"
    <3>1. fi + 1 \in 1..fi'
      BY <2>1, <2>6
    <3>. QED
      BY <2>2, <2>6, <3>1
  <2>7. CASE si' = si + 1 /\ \E row \in Row : row.at = si + 1 /\ nonspec' = Append(nonspec, row)
    <3>1. PICK row \in Row : row.at = si + 1 /\ nonspec' = Append(nonspec, row)
      BY <2>7
    <3>2. /\ Len(nonspec') = Len(nonspec) + 1 /\ nonspec'[Len(nonspec) + 1] = row
          /\ \A k \in 1..Len(nonspec) : nonspec'[k] = nonspec[k]
      BY <2>1, <3>1, AppendProperties
    <3>3. \A k \in 1..(si + 1) : k \in 1..si \/ k = si + 1
      BY <2>1
    <3>. QED
      BY <2>4, <2>7, <3>1, <3>2, <3>3
  <2>. QED
    BY <2>5, <2>6, <2>7, StepOfAlignment
<1>. QED
  BY <1>1, <1>2, AlwaysTyped, PTL DEF Spec

-----------------------------------------------------------------------------
(* No false alarm: what is ahead of the loop in a correct fragment         *)

\* From fetch f on, the entries of t after s are among the fetches, in order.
FetchesAhead(t, fs, f, s, pos) ==
  /\ pos \in [1..Len(t) -> 1..Len(fs)]
  /\ \A k \in 1..(Len(t) - 1) : pos[k] < pos[k + 1]
  /\ \A k \in 1..Len(t) : fs[pos[k]].pc = t[k].pc
  /\ s < Len(t) => f < pos[s + 1]

\* After commit c, the commits are the changing writes of t after s, those of one
\* cycle in either order; g tells which is whose.
CommitsAhead(t, cs, c, s, g) ==
  /\ g \in [(c + 1)..Len(cs) -> (s + 1)..Len(t)]
  /\ \A k \in (s + 1)..Len(t) :
       k \in ChangingWrites(t) <=> \E p \in (c + 1)..Len(cs) : g[p] = k
  /\ \A p \in (c + 1)..Len(cs) : IsWriteOf(cs[p], t[g[p]])
  /\ \A p, q \in (c + 1)..Len(cs) :
       p < q => g[p] < g[q] \/ (q = p + 1 /\ SameCycle(t, g[q], g[p]))

\* Access a records the store of entry e.
Records(a, e) ==
  LET offset == e.mem_addr % 4
  IN  /\ offset + Width(e.instr.kind) <= 4
      /\ a.addr = e.mem_addr - offset
      /\ \A b \in 0..(Width(e.instr.kind) - 1) : a.val[b + offset] = e.mem_val[b]

\* After access m, the accesses are the stores of t after s, in order.
AccessesAhead(t, ms, m, s, h) ==
  /\ h \in [(m + 1)..Len(ms) -> (s + 1)..Len(t)]
  /\ \A k \in (s + 1)..Len(t) :
       k \in StoresOf(t) <=> \E p \in (m + 1)..Len(ms) : h[p] = k
  /\ \A p, q \in (m + 1)..Len(ms) : p < q => h[p] < h[q]
  /\ \A p \in (m + 1)..Len(ms) : Records(ms[p], t[h[p]])

-----------------------------------------------------------------------------
(* Taking what is ahead                                                    *)

LEMMA CommitsSkip ==
  ASSUME NEW t, NEW cs, NEW c \in Nat, NEW s \in Nat, NEW g, Len(t) \in Nat, Len(cs) \in Nat,
         CommitsAhead(t, cs, c, s, g), s + 1 <= Len(t), s + 1 \notin ChangingWrites(t)
  PROVE  CommitsAhead(t, cs, c, s + 1, g)
<1>1. \A p \in (c + 1)..Len(cs) : g[p] \in (s + 1)..Len(t) /\ g[p] # s + 1
  BY DEF CommitsAhead
<1>2. \A p \in (c + 1)..Len(cs) : g[p] \in ((s + 1) + 1)..Len(t)
  BY <1>1
<1>3. g \in [(c + 1)..Len(cs) -> ((s + 1) + 1)..Len(t)]
  BY <1>2 DEF CommitsAhead
<1>4. \A k \in ((s + 1) + 1)..Len(t) : k \in (s + 1)..Len(t)
  OBVIOUS
<1>. QED
  BY <1>3, <1>4 DEF CommitsAhead

\* The commit at hand is the write at hand.
LEMMA CommitsFirst ==
  ASSUME NEW t, NEW cs, NEW c \in Nat, NEW s \in Nat, NEW g, Len(t) \in Nat, Len(cs) \in Nat,
         CommitsAhead(t, cs, c, s, g), c + 1 <= Len(cs), g[c + 1] = s + 1
  PROVE  CommitsAhead(t, cs, c + 1, s + 1, [q \in (c + 2)..Len(cs) |-> g[q]])
<1>. DEFINE d == [q \in (c + 2)..Len(cs) |-> g[q]]
<1>1. \A p \in (c + 1)..Len(cs) : g[p] \in (s + 1)..Len(t)
  BY DEF CommitsAhead
<1>2. \A p \in (c + 2)..Len(cs) : p \in (c + 1)..Len(cs) /\ d[p] = g[p] /\ p > c + 1
  OBVIOUS
<1>3. \A p \in (c + 2)..Len(cs) : g[p] # s + 1
  <2>. SUFFICES ASSUME NEW p \in (c + 2)..Len(cs) PROVE g[p] # s + 1
    OBVIOUS
  <2>1. c + 1 \in (c + 1)..Len(cs) /\ p \in (c + 1)..Len(cs) /\ c + 1 < p
    OBVIOUS
  <2>2. g[c + 1] < g[p] \/ SameCycle(t, g[p], g[c + 1])
    BY <2>1 DEF CommitsAhead
  <2>3. g[p] \in Nat
    BY <1>1, <2>1
  <2>. QED
    BY <2>2, <2>3 DEF SameCycle
<1>4. \A p \in (c + 2)..Len(cs) : g[p] \in (s + 2)..Len(t)
  BY <1>1, <1>2, <1>3
<1>5. d \in [(c + 2)..Len(cs) -> (s + 2)..Len(t)]
  BY <1>4
<1>6. \A k \in (s + 2)..Len(t) :
        k \in ChangingWrites(t) <=> \E p \in (c + 2)..Len(cs) : d[p] = k
  <2>. SUFFICES ASSUME NEW k \in (s + 2)..Len(t)
                PROVE  (\E p \in (c + 1)..Len(cs) : g[p] = k)
                         <=> \E p \in (c + 2)..Len(cs) : d[p] = k
    BY DEF CommitsAhead
  <2>1. \A p \in (c + 1)..Len(cs) : g[p] = k => p # c + 1
    OBVIOUS
  <2>2. \A p \in (c + 1)..Len(cs) : p # c + 1 => p \in (c + 2)..Len(cs)
    OBVIOUS
  <2>. QED
    BY <1>2, <2>1, <2>2
<1>7. \A p \in (c + 2)..Len(cs) : IsWriteOf(cs[p], t[d[p]])
  BY <1>2 DEF CommitsAhead
<1>8. \A p, q \in (c + 2)..Len(cs) :
        p < q => d[p] < d[q] \/ (q = p + 1 /\ SameCycle(t, d[q], d[p]))
  BY <1>2 DEF CommitsAhead
<1>9. (c + 1) + 1 = c + 2 /\ (s + 1) + 1 = s + 2
  OBVIOUS
<1>. HIDE DEF d
<1>. QED
  BY <1>5, <1>6, <1>7, <1>8, <1>9 DEF CommitsAhead, d

\* The write at hand is committed by the first commit, or by the second, and then
\* the first is of the next entry, in the same cycle.
LEMMA CommitsNext ==
  ASSUME NEW t, NEW cs, NEW c \in Nat, NEW s \in Nat, NEW g, Len(t) \in Nat, Len(cs) \in Nat,
         CommitsAhead(t, cs, c, s, g), s + 1 <= Len(t), s + 1 \in ChangingWrites(t)
  PROVE  /\ c + 1 <= Len(cs)
         /\ \/ g[c + 1] = s + 1
            \/ /\ c + 2 <= Len(cs) /\ g[c + 2] = s + 1 /\ g[c + 1] = s + 2
               /\ s + 2 <= Len(t) /\ SameCycle(t, s + 1, s + 2)
<1>1. PICK p \in (c + 1)..Len(cs) : g[p] = s + 1
  BY DEF CommitsAhead
<1>2. c + 1 \in (c + 1)..Len(cs)
  OBVIOUS
<1>3. CASE p # c + 1
  <2>1. c + 1 < p
    BY <1>3
  <2>2. g[c + 1] < g[p] \/ (p = (c + 1) + 1 /\ SameCycle(t, g[p], g[c + 1]))
    BY <1>2, <2>1 DEF CommitsAhead
  <2>3. g[c + 1] \in (s + 1)..Len(t)
    BY <1>2 DEF CommitsAhead
  <2>4. p = c + 2 /\ SameCycle(t, s + 1, g[c + 1])
    BY <1>1, <2>2, <2>3
  <2>5. g[c + 1] = s + 2
    BY <2>4 DEF SameCycle
  <2>. QED
    BY <1>1, <2>3, <2>4, <2>5
<1>. QED
  BY <1>1, <1>2, <1>3

\* The two commits of a cycle in the wrong order, exchanged.
LEMMA CommitsSwapped ==
  ASSUME NEW t, NEW cs, NEW c \in Nat, NEW s \in Nat, NEW g, Len(t) \in Nat, Len(cs) \in Nat,
         CommitsAhead(t, cs, c, s, g), c + 2 <= Len(cs), g[c + 2] = s + 1, g[c + 1] = s + 2,
         NEW ds, Len(ds) = Len(cs), ds[c + 2] = cs[c + 1],
         \A q \in (c + 3)..Len(cs) : ds[q] = cs[q]
  PROVE  \E d : CommitsAhead(t, ds, c + 1, s + 1, d)
<1>. DEFINE d == [q \in (c + 2)..Len(cs) |-> IF q = c + 2 THEN g[c + 1] ELSE g[q]]
<1>0. /\ c + 1 \in (c + 1)..Len(cs) /\ c + 2 \in (c + 1)..Len(cs)
      /\ \A p \in (c + 3)..Len(cs) : p \in (c + 1)..Len(cs)
      /\ \A p \in (c + 2)..Len(cs) : p = c + 2 \/ p \in (c + 3)..Len(cs)
      /\ \A p \in (c + 1)..Len(cs) : p = c + 1 \/ p = c + 2 \/ p \in (c + 3)..Len(cs)
  OBVIOUS
<1>1. \A p \in (c + 1)..Len(cs) : g[p] \in (s + 1)..Len(t)
  BY DEF CommitsAhead
<1>2. \A p \in (c + 3)..Len(cs) : g[p] \in (s + 3)..Len(t)
  <2>. SUFFICES ASSUME NEW p \in (c + 3)..Len(cs) PROVE g[p] \in (s + 3)..Len(t)
    OBVIOUS
  <2>1. c + 1 < p /\ c + 2 < p /\ p # (c + 1) + 1 /\ p \in (c + 1)..Len(cs)
    OBVIOUS
  <2>2. g[c + 1] < g[p]
    BY <1>0, <2>1 DEF CommitsAhead
  <2>3. g[p] \in (s + 1)..Len(t)
    BY <1>1, <2>1
  <2>. QED
    BY <2>2, <2>3
<1>3. /\ d[c + 2] = s + 2
      /\ \A p \in (c + 3)..Len(cs) : d[p] = g[p]
  OBVIOUS
<1>4. s + 2 \in (s + 2)..Len(t)
  <2>1. s + 2 \in (s + 1)..Len(t)
    BY <1>0, <1>1
  <2>. QED
    BY <2>1
<1>5. d \in [(c + 2)..Len(cs) -> (s + 2)..Len(t)]
  <2>1. \A p \in (c + 2)..Len(cs) : d[p] \in (s + 2)..Len(t)
    BY <1>0, <1>2, <1>3, <1>4
  <2>. QED
    BY <2>1
<1>. HIDE DEF d
<1>6. \A k \in (s + 2)..Len(t) :
        k \in ChangingWrites(t) <=> \E p \in (c + 2)..Len(cs) : d[p] = k
  <2>. SUFFICES ASSUME NEW k \in (s + 2)..Len(t)
                PROVE  (\E p \in (c + 1)..Len(cs) : g[p] = k)
                         <=> \E p \in (c + 2)..Len(cs) : d[p] = k
    BY DEF CommitsAhead
  <2>1. ASSUME NEW p \in (c + 1)..Len(cs), g[p] = k
        PROVE  \E q \in (c + 2)..Len(cs) : d[q] = k
    <3>1. CASE p = c + 1
      BY <1>3, <2>1, <3>1
    <3>2. CASE p = c + 2
      BY <2>1, <3>2
    <3>3. CASE p \in (c + 3)..Len(cs)
      BY <1>3, <2>1, <3>3
    <3>. QED
      BY <1>0, <3>1, <3>2, <3>3
  <2>2. ASSUME NEW p \in (c + 2)..Len(cs), d[p] = k
        PROVE  \E q \in (c + 1)..Len(cs) : g[q] = k
    <3>1. CASE p = c + 2
      BY <1>0, <1>3, <2>2, <3>1
    <3>2. CASE p \in (c + 3)..Len(cs)
      BY <1>0, <1>3, <2>2, <3>2
    <3>. QED
      BY <1>0, <3>1, <3>2
  <2>. QED
    BY <2>1, <2>2
<1>7. \A p \in (c + 2)..Len(cs) : IsWriteOf(ds[p], t[d[p]])
  <2>1. IsWriteOf(ds[c + 2], t[d[c + 2]])
    BY <1>0, <1>3 DEF CommitsAhead
  <2>2. ASSUME NEW p \in (c + 3)..Len(cs) PROVE IsWriteOf(ds[p], t[d[p]])
    BY <1>0, <1>3 DEF CommitsAhead
  <2>. QED
    BY <1>0, <2>1, <2>2
<1>8. ASSUME NEW p \in (c + 2)..Len(cs), NEW q \in (c + 2)..Len(cs), p < q
      PROVE  d[p] < d[q] \/ (q = p + 1 /\ SameCycle(t, d[q], d[p]))
  <2>1. q \in (c + 3)..Len(cs)
    BY <1>8
  <2>2. CASE p = c + 2
    BY <1>2, <1>3, <2>1, <2>2
  <2>3. CASE p \in (c + 3)..Len(cs)
    BY <1>0, <1>3, <1>8, <2>1, <2>3 DEF CommitsAhead
  <2>. QED
    BY <1>0, <2>2, <2>3
<1>9. (c + 1) + 1 = c + 2 /\ (s + 1) + 1 = s + 2
  OBVIOUS
<1>10. CommitsAhead(t, ds, c + 1, s + 1, d)
  BY <1>5, <1>6, <1>7, <1>8, <1>9 DEF CommitsAhead
<1>. QED
  BY <1>10

\* A commit inserted for a write that changes nothing, and taken.
LEMMA CommitsInserted ==
  ASSUME NEW t, NEW cs, NEW c \in Nat, NEW s \in Nat, NEW g, Len(t) \in Nat, Len(cs) \in Nat,
         CommitsAhead(t, cs, c, s + 1, g), c <= Len(cs),
         NEW ds, Len(ds) = Len(cs) + 1, \A q \in (c + 2)..Len(ds) : ds[q] = cs[q - 1]
  PROVE  \E d : CommitsAhead(t, ds, c + 1, s + 1, d)
<1>. DEFINE d == [q \in ((c + 1) + 1)..Len(ds) |-> g[q - 1]]
<1>1. /\ \A q \in ((c + 1) + 1)..Len(ds) : q - 1 \in (c + 1)..Len(cs) /\ d[q] = g[q - 1]
      /\ \A p \in (c + 1)..Len(cs) : p + 1 \in ((c + 1) + 1)..Len(ds) /\ (p + 1) - 1 = p
      /\ \A q \in ((c + 1) + 1)..Len(ds) : ds[q] = cs[q - 1]
  OBVIOUS
<1>2. d \in [((c + 1) + 1)..Len(ds) -> ((s + 1) + 1)..Len(t)]
  BY <1>1 DEF CommitsAhead
<1>. HIDE DEF d
<1>3. \A k \in ((s + 1) + 1)..Len(t) :
        k \in ChangingWrites(t) <=> \E p \in ((c + 1) + 1)..Len(ds) : d[p] = k
  <2>. SUFFICES ASSUME NEW k \in ((s + 1) + 1)..Len(t)
                PROVE  (\E p \in (c + 1)..Len(cs) : g[p] = k)
                         <=> \E p \in ((c + 1) + 1)..Len(ds) : d[p] = k
    BY DEF CommitsAhead
  <2>1. ASSUME NEW p \in (c + 1)..Len(cs), g[p] = k
        PROVE  \E q \in ((c + 1) + 1)..Len(ds) : d[q] = k
    <3>1. p + 1 \in ((c + 1) + 1)..Len(ds) /\ (p + 1) - 1 = p
      BY <1>1
    <3>2. d[p + 1] = k
      BY <1>1, <2>1, <3>1
    <3>. QED
      BY <3>1, <3>2
  <2>2. ASSUME NEW q \in ((c + 1) + 1)..Len(ds), d[q] = k
        PROVE  \E p \in (c + 1)..Len(cs) : g[p] = k
    <3>1. q - 1 \in (c + 1)..Len(cs) /\ g[q - 1] = k
      BY <1>1, <2>2
    <3>. QED
      BY <3>1
  <2>. QED
    BY <2>1, <2>2
<1>4. \A p \in ((c + 1) + 1)..Len(ds) : IsWriteOf(ds[p], t[d[p]])
  BY <1>1 DEF CommitsAhead
<1>5. ASSUME NEW p \in ((c + 1) + 1)..Len(ds), NEW q \in ((c + 1) + 1)..Len(ds), p < q
      PROVE  d[p] < d[q] \/ (q = p + 1 /\ SameCycle(t, d[q], d[p]))
  <2>1. p - 1 < q - 1 /\ (q - 1 = (p - 1) + 1 => q = p + 1)
    BY <1>5
  <2>. QED
    BY <1>1, <2>1 DEF CommitsAhead
<1>6. CommitsAhead(t, ds, c + 1, s + 1, d)
  BY <1>2, <1>3, <1>4, <1>5 DEF CommitsAhead
<1>. QED
  BY <1>6

LEMMA AccessesSkip ==
  ASSUME NEW t, NEW ms, NEW m \in Nat, NEW s \in Nat, NEW h, Len(t) \in Nat, Len(ms) \in Nat,
         AccessesAhead(t, ms, m, s, h), s + 1 <= Len(t), s + 1 \notin StoresOf(t)
  PROVE  AccessesAhead(t, ms, m, s + 1, h)
<1>1. \A p \in (m + 1)..Len(ms) : h[p] \in (s + 1)..Len(t) /\ h[p] # s + 1
  BY DEF AccessesAhead
<1>2. \A p \in (m + 1)..Len(ms) : h[p] \in ((s + 1) + 1)..Len(t)
  BY <1>1
<1>3. h \in [(m + 1)..Len(ms) -> ((s + 1) + 1)..Len(t)]
  BY <1>2 DEF AccessesAhead
<1>4. \A k \in ((s + 1) + 1)..Len(t) : k \in (s + 1)..Len(t)
  OBVIOUS
<1>. QED
  BY <1>3, <1>4 DEF AccessesAhead

\* The next access is the store at hand.
LEMMA AccessesNext ==
  ASSUME NEW t, NEW ms, NEW m \in Nat, NEW s \in Nat, NEW h, Len(t) \in Nat, Len(ms) \in Nat,
         AccessesAhead(t, ms, m, s, h), s + 1 <= Len(t), s + 1 \in StoresOf(t)
  PROVE  m + 1 <= Len(ms) /\ h[m + 1] = s + 1 /\ Records(ms[m + 1], t[s + 1])
<1>1. PICK p \in (m + 1)..Len(ms) : h[p] = s + 1
  BY DEF AccessesAhead
<1>2. m + 1 \in (m + 1)..Len(ms)
  OBVIOUS
<1>3. h[m + 1] \in (s + 1)..Len(t)
  BY <1>2 DEF AccessesAhead
<1>4. m + 1 < p => h[m + 1] < h[p]
  BY <1>2 DEF AccessesAhead
<1>5. h[m + 1] = s + 1
  BY <1>1, <1>2, <1>3, <1>4
<1>. QED
  BY <1>2, <1>5 DEF AccessesAhead

LEMMA AccessesTaken ==
  ASSUME NEW t, NEW ms, NEW m \in Nat, NEW s \in Nat, NEW h, Len(t) \in Nat, Len(ms) \in Nat,
         AccessesAhead(t, ms, m, s, h), m + 1 <= Len(ms), h[m + 1] = s + 1,
         NEW ns, Len(ns) = Len(ms), \A q \in (m + 2)..Len(ms) : ns[q] = ms[q]
  PROVE  \E d : AccessesAhead(t, ns, m + 1, s + 1, d)
<1>. DEFINE d == [q \in ((m + 1) + 1)..Len(ns) |-> h[q]]
<1>1. \A p \in ((m + 1) + 1)..Len(ns) : /\ p \in (m + 1)..Len(ms) /\ d[p] = h[p] /\ m + 1 < p
                                       /\ ns[p] = ms[p]
  OBVIOUS
<1>2. m + 1 \in (m + 1)..Len(ms)
  OBVIOUS
<1>3. \A p \in ((m + 1) + 1)..Len(ns) : h[p] \in ((s + 1) + 1)..Len(t)
  <2>. SUFFICES ASSUME NEW p \in ((m + 1) + 1)..Len(ns)
                PROVE  h[p] \in ((s + 1) + 1)..Len(t)
    OBVIOUS
  <2>1. h[m + 1] < h[p]
    BY <1>1, <1>2 DEF AccessesAhead
  <2>2. h[p] \in (s + 1)..Len(t)
    BY <1>1 DEF AccessesAhead
  <2>. QED
    BY <2>1, <2>2
<1>4. d \in [((m + 1) + 1)..Len(ns) -> ((s + 1) + 1)..Len(t)]
  BY <1>1, <1>3
<1>. HIDE DEF d
<1>5. \A k \in ((s + 1) + 1)..Len(t) :
        k \in StoresOf(t) <=> \E p \in ((m + 1) + 1)..Len(ns) : d[p] = k
  <2>. SUFFICES ASSUME NEW k \in ((s + 1) + 1)..Len(t)
                PROVE  (\E p \in (m + 1)..Len(ms) : h[p] = k)
                         <=> \E p \in ((m + 1) + 1)..Len(ns) : d[p] = k
    BY DEF AccessesAhead
  <2>1. \A p \in (m + 1)..Len(ms) : h[p] = k => p # m + 1
    OBVIOUS
  <2>2. \A p \in (m + 1)..Len(ms) : p # m + 1 => p \in ((m + 1) + 1)..Len(ns)
    OBVIOUS
  <2>. QED
    BY <1>1, <2>1, <2>2
<1>6. \A p, q \in ((m + 1) + 1)..Len(ns) : p < q => d[p] < d[q]
  BY <1>1 DEF AccessesAhead
<1>7. \A p \in ((m + 1) + 1)..Len(ns) : Records(ns[p], t[d[p]])
  BY <1>1 DEF AccessesAhead
<1>8. AccessesAhead(t, ns, m + 1, s + 1, d)
  BY <1>4, <1>5, <1>6, <1>7 DEF AccessesAhead
<1>. QED
  BY <1>8

LEMMA FetchesSkip ==
  ASSUME NEW t, NEW fs, NEW f \in Nat, NEW s \in Nat, NEW pos, Len(t) \in Nat, Len(fs) \in Nat,
         FetchesAhead(t, fs, f, s, pos), s + 1 <= Len(t)
  PROVE  /\ f + 1 <= Len(fs)
         /\ fs[f + 1].pc # t[s + 1].pc => FetchesAhead(t, fs, f + 1, s, pos)
         /\ FetchesAhead(t, fs, f + 1, s + 1, pos)
<1>1. s + 1 \in 1..Len(t) /\ pos[s + 1] \in 1..Len(fs) /\ f < pos[s + 1]
  BY DEF FetchesAhead
<1>2. fs[pos[s + 1]].pc = t[s + 1].pc
  BY <1>1 DEF FetchesAhead
<1>3. fs[f + 1].pc # t[s + 1].pc => f + 1 < pos[s + 1]
  BY <1>1, <1>2
<1>4. s + 1 < Len(t) => f + 1 < pos[(s + 1) + 1]
  <2>. SUFFICES ASSUME s + 1 < Len(t) PROVE f + 1 < pos[(s + 1) + 1]
    OBVIOUS
  <2>1. s + 1 \in 1..(Len(t) - 1) /\ (s + 1) + 1 \in 1..Len(t)
    OBVIOUS
  <2>2. pos[s + 1] < pos[(s + 1) + 1] /\ pos[(s + 1) + 1] \in 1..Len(fs)
    BY <2>1 DEF FetchesAhead
  <2>. QED
    BY <1>1, <2>2
<1>. QED
  BY <1>1, <1>3, <1>4 DEF FetchesAhead

\* What a correct fragment starts with.
LEMMA CorrectAhead ==
  ASSUME NEW t, NEW d, Len(t) \in Nat, Len(d.fetches) \in Nat, Len(d.commits) \in Nat,
         Len(d.mems) \in Nat, Correct(t, d),
         NEW cs, Len(cs) = Len(d.commits),
         \A j \in 1..Len(cs) : cs[j].reg = d.commits[j].reg /\ cs[j].val = d.commits[j].val
  PROVE  /\ \E pos : FetchesAhead(t, d.fetches, 0, 0, pos)
         /\ \E g : CommitsAhead(t, cs, 0, 0, g)
         /\ \E h : AccessesAhead(t, d.mems, 0, 0, h)
<1>0. 0 + 1 = 1
  OBVIOUS
<1>1. \E pos : FetchesAhead(t, d.fetches, 0, 0, pos)
  <2>1. PICK pos \in [1..Len(t) -> 1..Len(d.fetches)] :
          /\ \A k \in 1..(Len(t) - 1) : pos[k] < pos[k + 1]
          /\ \A k \in 1..Len(t) : d.fetches[pos[k]].pc = t[k].pc
    BY DEF Correct, FetchesCorrect
  <2>2. 0 < Len(t) => 0 < pos[0 + 1]
    OBVIOUS
  <2>3. FetchesAhead(t, d.fetches, 0, 0, pos)
    BY <2>1, <2>2 DEF FetchesAhead
  <2>. QED
    BY <2>3
<1>2. \E g : CommitsAhead(t, cs, 0, 0, g)
  <2>1. PICK g \in [1..Len(cs) -> 1..Len(t)] :
          /\ \A k \in 1..Len(t) : k \in ChangingWrites(t) <=> \E j \in 1..Len(cs) : g[j] = k
          /\ \A j \in 1..Len(cs) : d.commits[j] = [reg |-> t[g[j]].target_reg,
                                                   val |-> t[g[j]].reg_val]
          /\ \A i, j \in 1..Len(cs) :
               i < j => g[i] < g[j] \/ (j = i + 1 /\ SameCycle(t, g[j], g[i]))
    BY DEF Correct, CommitsCorrect
  <2>2. ASSUME NEW j \in 1..Len(cs) PROVE IsWriteOf(cs[j], t[g[j]])
    <3>1. d.commits[j] = [reg |-> t[g[j]].target_reg, val |-> t[g[j]].reg_val]
      BY <2>1
    <3>2. d.commits[j].reg = t[g[j]].target_reg /\ d.commits[j].val = t[g[j]].reg_val
      BY <3>1
    <3>. QED
      BY <3>2 DEF IsWriteOf
  <2>3. CommitsAhead(t, cs, 0, 0, g)
    BY <1>0, <2>1, <2>2 DEF CommitsAhead
  <2>. QED
    BY <2>3
<1>3. \E h : AccessesAhead(t, d.mems, 0, 0, h)
  <2>1. PICK h \in [1..Len(d.mems) -> 1..Len(t)] :
          /\ \A k \in 1..Len(t) : k \in StoresOf(t) <=> \E j \in 1..Len(d.mems) : h[j] = k
          /\ \A i, j \in 1..Len(d.mems) : i < j => h[i] < h[j]
          /\ \A j \in 1..Len(d.mems) : Records(d.mems[j], t[h[j]])
    BY DEF Correct, AccessesCorrect, Records
  <2>2. AccessesAhead(t, d.mems, 0, 0, h)
    BY <1>0, <2>1 DEF AccessesAhead
  <2>. QED
    BY <2>2
<1>. QED
  BY <1>1, <1>2, <1>3

-----------------------------------------------------------------------------
(* No false alarm: the invariant                                           *)

\* The trace of Spike is the argument of the call, but for addresses of loads.
SameEntry(e, o) ==
  /\ e.pc = o.pc /\ e.instr = o.instr
  /\ e.target_reg = o.target_reg /\ e.reg_val = o.reg_val /\ e.mem_val = o.mem_val
  /\ e.mem_val # None => e.mem_addr = o.mem_addr

Followed ==
  /\ Len(spike) = Len(input.spike)
  /\ \A k \in 1..Len(spike) : SameEntry(spike[k], input.spike[k])

Sound ==
  /\ Correct(input.spike, input.dut)
  /\ \A k \in 1..Len(input.spike) : input.spike[k].instr.kind # "other"

Ahead ==
  /\ \E pos : FetchesAhead(input.spike, fetches, fi, si, pos)
  /\ \E g : CommitsAhead(input.spike, commits, ci, si, g)
  /\ \E h : AccessesAhead(input.spike, mems, mi, si, h)

NoAlarm ==
  /\ Followed
  /\ Sound /\ phase # "crashed" =>
       /\ Good /\ mismatches = << >>
       /\ phase = "generate" => Ahead
       /\ phase # "generate" => si = Len(spike)

-----------------------------------------------------------------------------
(* The entry at hand *)

LEMMA FilteredEntry ==
  ASSUME TypeInv, InLoop
  PROVE  /\ si + 1 \in 1..Len(spike) /\ ReadFiltered[si + 1] \in Entry
         /\ ReadFiltered[si + 1].pc = SpikeEntry.pc
         /\ ReadFiltered[si + 1].instr = SpikeEntry.instr
         /\ ReadFiltered[si + 1].target_reg = SpikeEntry.target_reg
         /\ ReadFiltered[si + 1].reg_val = SpikeEntry.reg_val
         /\ ReadFiltered[si + 1].mem_val = SpikeEntry.mem_val
         /\ SpikeEntry.mem_val # None => ReadFiltered[si + 1].mem_addr = SpikeEntry.mem_addr
         /\ SpikeEntry.mem_val = None => ReadFiltered[si + 1].mem_addr = None
<1>1. /\ si + 1 \in 1..Len(spike) /\ ReadFiltered \in Seq(Entry)
      /\ Len(ReadFiltered) = Len(spike) /\ spike \in Seq(Entry)
  BY ReadFilteredType DEF TypeInv, TypeOK
<1>2. /\ ReadFiltered[si + 1].pc = SpikeEntry.pc
      /\ ReadFiltered[si + 1].instr = SpikeEntry.instr
      /\ ReadFiltered[si + 1].target_reg = SpikeEntry.target_reg
      /\ ReadFiltered[si + 1].reg_val = SpikeEntry.reg_val
      /\ ReadFiltered[si + 1].mem_val = SpikeEntry.mem_val
      /\ SpikeEntry.mem_val # None => ReadFiltered[si + 1].mem_addr = SpikeEntry.mem_addr
  BY <1>1, ReadFilteredType DEF TypeInv, SpikeEntry
<1>3. ReadFiltered[si + 1] \in Entry
  BY <1>1, ElementOfSeq
<1>4. ASSUME SpikeEntry.mem_val = None PROVE ReadFiltered[si + 1].mem_addr = None
  <2>1. CASE SpikeEntry.mem_addr = None
    BY <1>1, <2>1 DEF ReadFiltered, SpikeEntry
  <2>2. CASE SpikeEntry.mem_addr # None
    <3>1. ReadFiltered = [spike EXCEPT ![si + 1] = [spike[si + 1] EXCEPT !.mem_addr = None]]
      BY <1>4, <2>2 DEF ReadFiltered
    <3>2. spike[si + 1] \in Entry
      BY <1>1, ElementOfSeq
    <3>. QED
      BY <1>1, <3>1, <3>2 DEF Entry
  <2>. QED
    BY <2>1, <2>2
<1>. QED
  BY <1>1, <1>2, <1>3, <1>4

\* What Spike logs of the entry at hand.
LEMMA EntryLogged ==
  ASSUME TypeInv, InLoop
  PROVE  /\ SpikeEntry.instr.kind \in Writers =>
              /\ SpikeEntry.target_reg = IF SpikeEntry.instr.rd = 0 THEN None
                                         ELSE SpikeEntry.instr.rd
              /\ SpikeEntry.mem_val = None
         /\ SpikeEntry.instr.kind \in {"branch", "fence"} =>
              SpikeEntry.target_reg = None /\ SpikeEntry.mem_val = None
         /\ SpikeEntry.instr.kind \in Stores =>
              /\ SpikeEntry.target_reg = None
              /\ SpikeEntry.mem_addr # None /\ SpikeEntry.mem_val # None
              /\ \A b \in Width(SpikeEntry.instr.kind)..3 : SpikeEntry.mem_val[b] = 0
         /\ SpikeEntry.target_reg = None <=> SpikeEntry.reg_val = None
<1>1. LoggedBySpike(SpikeEntry)
  BY SpikeEntryType DEF TypeInv
<1>. HIDE DEF SpikeEntry
<1>. QED
  BY <1>1 DEF LoggedBySpike

LEMMA ValueIsOne ==
  ASSUME NEW t, Len(t) \in Nat, NEW r, NEW k, NEW v, NEW w,
         ValueBefore(t, r, k, v), ValueBefore(t, r, k, w)
  PROVE  v = w
<1>1. CASE WritesBefore(t, r, k) = {}
  BY <1>1 DEF ValueBefore
<1>2. CASE WritesBefore(t, r, k) # {}
  <2>1. PICK i \in WritesBefore(t, r, k) :
          (\A m \in WritesBefore(t, r, k) : m <= i) /\ t[i].reg_val = v
    BY <1>2 DEF ValueBefore
  <2>2. PICK j \in WritesBefore(t, r, k) :
          (\A m \in WritesBefore(t, r, k) : m <= j) /\ t[j].reg_val = w
    BY <1>2 DEF ValueBefore
  <2>3. i <= j /\ j <= i
    BY <2>1, <2>2
  <2>4. i \in Nat /\ j \in Nat
    BY DEF WritesBefore
  <2>5. i = j
    BY <2>3, <2>4
  <2>. QED
    BY <2>1, <2>2, <2>5
<1>. QED
  BY <1>1, <1>2

\* The DUT shows a write exactly when the comparator does not invent its commit.
LEMMA ShownWrites ==
  ASSUME TypeInv, InLoop, Followed, RegistersFollow, NEW t, t = input.spike
  PROVE  /\ si + 1 \in 1..Len(t) /\ Len(t) \in Nat
         /\ si + 1 \in ChangingWrites(t) <=> SpikeEntry.target_reg # None /\ ~Repeated
         /\ si + 1 \in StoresOf(t) <=> SpikeEntry.instr.kind \in Stores
<1>0. /\ si + 1 \in 1..Len(t) /\ Len(t) \in Nat /\ Len(spike) = Len(t)
      /\ SameEntry(SpikeEntry, t[si + 1])
  BY ReadFilteredType, LenProperties DEF TypeInv, TypeOK, Followed, SpikeEntry
<1>1. si + 1 \in StoresOf(t) <=> SpikeEntry.instr.kind \in Stores
  BY <1>0 DEF StoresOf, SameEntry
<1>. DEFINE r == SpikeEntry.target_reg
<1>2. t[si + 1].target_reg = r /\ t[si + 1].reg_val = SpikeEntry.reg_val
  BY <1>0 DEF SameEntry
<1>3. CASE r = None
  BY <1>0, <1>1, <1>2, <1>3 DEF ChangingWrites
<1>4. CASE r # None
  <2>1. r \in Reg
    BY <1>4, SpikeEntryType DEF TypeInv
  <2>2. \A k \in 1..Len(spike) : /\ t[k].target_reg = spike[k].target_reg
                                 /\ t[k].reg_val = spike[k].reg_val
    BY DEF Followed, SameEntry
  <2>. DEFINE w == spike_regfile[r]
              u == SpikeEntry.reg_val
  <2>3. ValueBefore(spike, r, si + 1, w)
    BY <2>1 DEF RegistersFollow
  <2>4. ValueBefore(t, r, si + 1, w)
    BY <1>0, <2>2, <2>3, SameWrites
  <2>5. Repeated <=> w = u
    BY <1>4 DEF Repeated
  <2>6. si + 1 \in ChangingWrites(t) <=> ~ValueBefore(t, r, si + 1, u)
    BY <1>0, <1>2, <1>4 DEF ChangingWrites
  <2>. HIDE DEF w, u, r
  <2>7. ValueBefore(t, r, si + 1, u) <=> w = u
    BY <1>0, <2>4, ValueIsOne
  <2>. QED
    BY <1>0, <1>1, <1>4, <2>5, <2>6, <2>7 DEF r
<1>. QED
  BY <1>3, <1>4

\* The fetch at hand, in a correct fragment.
LEMMA SoundFetch ==
  ASSUME TypeInv, InLoop, Followed, Sound
  PROVE  /\ PcMatches => Fetch.pc = SpikeEntry.pc /\ Fetch.instr = SpikeEntry.instr
         /\ ~PcMatches => Fetch.pc # input.spike[si + 1].pc
         /\ SpikeEntry.instr.kind # "other"
<1>0. /\ si + 1 \in 1..Len(input.spike) /\ SameEntry(SpikeEntry, input.spike[si + 1])
      /\ fetches = input.dut.fetches
  BY ReadFilteredType DEF TypeInv, TypeOK, Followed, SpikeEntry
<1>1. fi + 1 \in 1..Len(fetches) /\ Fetch.pc \in Nat
  <2>1. fi \in Nat /\ fi < Len(fetches) /\ Len(fetches) \in Nat
    BY LenProperties DEF TypeInv, TypeOK, InLoop, Fragment
  <2>. QED
    BY <2>1, FetchType DEF TypeInv
<1>2. FetchesCorrect(input.spike, fetches)
  BY <1>0 DEF Sound, Correct
<1>3. Fetch.pc % 2 = 0
  BY <1>1, <1>2 DEF FetchesCorrect, Fetch
<1>4. Fetch.pc = input.spike[si + 1].pc => Fetch.instr = input.spike[si + 1].instr
  BY <1>0, <1>1, <1>2 DEF FetchesCorrect, Fetch
<1>5. PcMatches <=> SpikeEntry.pc = Fetch.pc
  BY <1>1, <1>3 DEF PcMatches
<1>6. SpikeEntry.pc = input.spike[si + 1].pc /\ SpikeEntry.instr = input.spike[si + 1].instr
  BY <1>0 DEF SameEntry
<1>7. SpikeEntry.instr.kind # "other"
  BY <1>0, <1>6 DEF Sound
<1>. QED
  BY <1>4, <1>5, <1>6, <1>7

-----------------------------------------------------------------------------
(* No false alarm: the turns of the loop                                   *)

LEMMA FollowedStep ==
  ASSUME TypeInv, Followed, input' = input,
         spike' = spike \/ (InLoop /\ spike' = ReadFiltered)
  PROVE  Followed'
<1>1. CASE spike' = spike
  BY <1>1 DEF Followed
<1>2. CASE InLoop /\ spike' = ReadFiltered
  <2>1. /\ Len(spike') = Len(spike)
        /\ \A k \in 1..Len(spike) :
             /\ spike'[k].pc = spike[k].pc /\ spike'[k].instr = spike[k].instr
             /\ spike'[k].target_reg = spike[k].target_reg
             /\ spike'[k].reg_val = spike[k].reg_val
             /\ spike'[k].mem_val = spike[k].mem_val
             /\ spike[k].mem_val # None => spike'[k].mem_addr = spike[k].mem_addr
    BY <1>2, ReadFilteredType DEF TypeInv
  <2>2. ASSUME NEW k \in 1..Len(spike) PROVE SameEntry(spike'[k], input.spike[k])
    <3>1. SameEntry(spike[k], input.spike[k])
      BY DEF Followed
    <3>. QED
      BY <2>1, <3>1 DEF SameEntry
  <2>. QED
    BY <2>1, <2>2 DEF Followed
<1>. QED
  BY <1>1, <1>2

LEMMA EqualRow ==
  ASSUME NEW row, NEW e \in Entry,
         row.pc = e.pc, row.instr = e.instr, row.target_reg = e.target_reg,
         row.reg_val = e.reg_val, row.mem_addr = e.mem_addr, row.mem_val = e.mem_val
  PROVE  Strip(row) = e
BY DEF Strip, Entry

\* A turn whose row is equal to its entry keeps the rows good.
LEMMA TurnGood ==
  ASSUME TypeInv, InLoop, Good, spike' = ReadFiltered, si' = si + 1,
         NEW row \in Row, nonspec' = Append(nonspec, row),
         Strip(row) = ReadFiltered[si + 1]
  PROVE  Good'
<1>0. si \in Nat /\ nonspec \in Seq(Row) /\ Len(nonspec) = si
  BY LenProperties DEF TypeInv, TypeOK, Good
<1>1. \A k \in 1..si : spike'[k] = spike[k]
  BY FilteredFacts
<1>2. /\ Len(nonspec') = si + 1
      /\ \A k \in 1..si : nonspec'[k] = nonspec[k]
      /\ nonspec'[si + 1] = row
  BY <1>0, AppendProperties
<1>3. ASSUME NEW k \in 1..(si + 1) PROVE Strip(nonspec'[k]) = spike'[k]
  <2>1. CASE k = si + 1
    BY <1>2, <2>1
  <2>2. CASE k \in 1..si
    BY <1>1, <1>2, <2>2 DEF Good
  <2>. QED
    BY <1>0, <2>1, <2>2
<1>. QED
  BY <1>2, <1>3 DEF Good

\* Passing an entry that neither writes visibly nor stores.
LEMMA PassedQuietly ==
  ASSUME NEW t, Len(t) \in Nat, NEW fs, NEW cs, NEW ms,
         Len(fs) \in Nat, Len(cs) \in Nat, Len(ms) \in Nat,
         NEW f \in Nat, NEW c \in Nat, NEW m \in Nat, NEW s \in Nat, s + 1 <= Len(t),
         \E pos : FetchesAhead(t, fs, f, s, pos),
         \E g : CommitsAhead(t, cs, c, s, g),
         \E h : AccessesAhead(t, ms, m, s, h)
  PROVE  /\ \E pos : FetchesAhead(t, fs, f + 1, s + 1, pos)
         /\ s + 1 \notin ChangingWrites(t) => \E g : CommitsAhead(t, cs, c, s + 1, g)
         /\ s + 1 \notin StoresOf(t) => \E h : AccessesAhead(t, ms, m, s + 1, h)
<1>1. PICK pos : FetchesAhead(t, fs, f, s, pos)
  OBVIOUS
<1>2. PICK g : CommitsAhead(t, cs, c, s, g)
  OBVIOUS
<1>3. PICK h : AccessesAhead(t, ms, m, s, h)
  OBVIOUS
<1>4. FetchesAhead(t, fs, f + 1, s + 1, pos)
  BY <1>1, FetchesSkip
<1>5. s + 1 \notin ChangingWrites(t) => CommitsAhead(t, cs, c, s + 1, g)
  BY <1>2, CommitsSkip
<1>6. s + 1 \notin StoresOf(t) => AccessesAhead(t, ms, m, s + 1, h)
  BY <1>3, AccessesSkip
<1>. QED
  BY <1>4, <1>5, <1>6

\* The types the lemmas on what is ahead need.
LEMMA CursorTypes ==
  ASSUME TypeInv
  PROVE  /\ fi \in Nat /\ ci \in Nat /\ mi \in Nat /\ si \in Nat
         /\ Len(fetches) \in Nat /\ Len(commits) \in Nat /\ Len(mems) \in Nat
         /\ Len(spike) \in Nat /\ Len(input.spike) \in Nat
         /\ ci <= Len(commits) /\ mi <= Len(mems) /\ si <= Len(spike) /\ fi <= Len(fetches)
  BY LenProperties DEF TypeInv, TypeOK, Fragment

\* A correct fragment has something for every turn.
LEMMA NeverShort ==
  ASSUME TypeInv, phase = "generate", Followed, Good, Backed, Ahead
  PROVE  /\ si < Len(spike) => fi < Len(fetches)
         /\ InLoop /\ SpikeEntry.target_reg # None => ci < Len(WithInserted)
         /\ InLoop /\ SpikeEntry.instr.kind \in Stores => mi < Len(mems)
<1>. PICK t : t = input.spike
  OBVIOUS
<1>0. Len(spike) = Len(t) /\ RegistersFollow
  BY DEF Followed, Backed
<1>1. PICK pos : FetchesAhead(t, fetches, fi, si, pos)
  BY DEF Ahead
<1>2. PICK g : CommitsAhead(t, commits, ci, si, g)
  BY DEF Ahead
<1>3. PICK h : AccessesAhead(t, mems, mi, si, h)
  BY DEF Ahead
<1>4. ASSUME si < Len(spike) PROVE fi < Len(fetches)
  <2>1. si + 1 <= Len(t)
    BY <1>0, <1>4, CursorTypes
  <2>2. fi + 1 <= Len(fetches)
    BY <1>1, <2>1, CursorTypes, FetchesSkip
  <2>. QED
    BY <2>2, CursorTypes
<1>5. ASSUME InLoop, SpikeEntry.target_reg # None PROVE ci < Len(WithInserted)
  <2>1. CASE Repeated
    <3>1. Len(WithInserted) = Len(commits) + 1
      BY <1>5, <2>1, WithInsertedType DEF TypeInv
    <3>. QED
      BY <3>1, CursorTypes
  <2>2. CASE ~Repeated
    <3>1. si + 1 \in ChangingWrites(t) /\ si + 1 <= Len(t) /\ Len(t) \in Nat
      BY <1>0, <1>5, <2>2, ShownWrites, CursorTypes
    <3>2. ci + 1 <= Len(commits)
      BY <1>2, <3>1, CursorTypes, CommitsNext
    <3>3. WithInserted = commits
      BY <2>2 DEF WithInserted
    <3>. QED
      BY <3>2, <3>3, CursorTypes
  <2>. QED
    BY <2>1, <2>2
<1>6. ASSUME InLoop, SpikeEntry.instr.kind \in Stores PROVE mi < Len(mems)
  <2>1. si + 1 \in StoresOf(t) /\ si + 1 <= Len(t) /\ Len(t) \in Nat
    BY <1>0, <1>6, ShownWrites, CursorTypes
  <2>2. mi + 1 <= Len(mems)
    BY <1>3, <2>1, CursorTypes, AccessesNext
  <2>. QED
    BY <2>2, CursorTypes
<1>. QED
  BY <1>4, <1>5, <1>6

LEMMA SpeculativeFetchQuiet ==
  ASSUME TypeInv, Followed, Sound, Good, Backed, Ahead, SpeculativeFetch
  PROVE  Good' /\ Ahead'
<1>. DEFINE row == [BareRow EXCEPT !.speculative_fetch = TRUE]
<1>0. /\ TypeOK /\ InLoop /\ spike' = ReadFiltered /\ ~PcMatches
      /\ input' = input /\ fetches' = fetches /\ commits' = commits /\ mems' = mems
      /\ fi' = fi + 1 /\ ci' = ci /\ mi' = mi /\ si' = si
  BY DEF TypeInv, SpeculativeFetch
<1>1. row \in Row /\ row.speculative_fetch = TRUE /\ Emit(row)
  BY <1>0, SpeculativeRowType DEF SpeculativeFetch
<1>. HIDE DEF row
<1>2. nonspec' = nonspec
  BY <1>0, <1>1, EmitType DEF TypeOK
<1>3. \A k \in 1..si : spike'[k] = spike[k]
  BY <1>0, FilteredFacts
<1>4. Good'
  BY <1>0, <1>2, <1>3 DEF Good
<1>. PICK t : t = input.spike
  OBVIOUS
<1>5. PICK pos : FetchesAhead(t, fetches, fi, si, pos)
  BY DEF Ahead
<1>6. si + 1 <= Len(t) /\ Len(t) \in Nat
  BY <1>0, CursorTypes, ReadFilteredType DEF Followed
<1>7. fetches[fi + 1].pc # t[si + 1].pc
  BY <1>0, SoundFetch DEF Fetch
<1>8. FetchesAhead(t, fetches, fi + 1, si, pos)
  BY <1>5, <1>6, <1>7, CursorTypes, FetchesSkip
<1>9. \E p : FetchesAhead(t, fetches, fi + 1, si, p)
  BY <1>8
<1>. QED
  BY <1>0, <1>4, <1>9 DEF Ahead

LEMMA FetchOnlyQuiet ==
  ASSUME TypeInv, Followed, Sound, Good, Backed, Ahead, FetchOnly
  PROVE  Good' /\ Ahead'
<1>. DEFINE flag == Fetch.instr.kind \in Writers /\ Repeated
            row  == [BareRow EXCEPT !.speculative_commit = flag]
<1>0. /\ TypeOK /\ InLoop /\ spike' = ReadFiltered /\ PcMatches
      /\ input' = input /\ fetches' = fetches /\ commits' = WithInserted /\ mems' = mems
      /\ fi' = fi + 1 /\ ci' = ci /\ mi' = mi /\ si' = si + 1
      /\ Fetch.instr.kind \in Writers \cup {"branch", "fence"}
      /\ Fetch.instr.kind \in Writers => Fetch.instr.rd = 0
  BY DEF TypeInv, FetchOnly, Matched
<1>1. /\ Emit(row) /\ flag \in BOOLEAN
  BY DEF FetchOnly, Repeated
<1>. HIDE DEF flag
<1>2. /\ row \in Row /\ row.speculative_fetch = FALSE
      /\ row.pc = Fetch.pc /\ row.instr = Fetch.instr
      /\ row.target_reg = None /\ row.reg_val = None
      /\ row.mem_addr = None /\ row.mem_val = None
  <2>1. BareRow \in Row
    BY <1>0, BareRowType
  <2>2. /\ BareRow.speculative_fetch = FALSE /\ BareRow.pc = Fetch.pc
        /\ BareRow.instr = Fetch.instr /\ BareRow.target_reg = None /\ BareRow.reg_val = None
        /\ BareRow.mem_addr = None /\ BareRow.mem_val = None
    BY DEF BareRow
  <2>. HIDE DEF Fetch
  <2>. QED
    BY <1>1, <2>1, <2>2 DEF Row
<1>. HIDE DEF row
<1>3. nonspec' = Append(nonspec, row)
  BY <1>0, <1>1, <1>2, EmitType DEF TypeOK
<1>4. Fetch.pc = SpikeEntry.pc /\ Fetch.instr = SpikeEntry.instr
  BY <1>0, SoundFetch
<1>5. SpikeEntry.target_reg = None /\ SpikeEntry.mem_val = None /\ SpikeEntry.reg_val = None
      /\ SpikeEntry.instr.kind \notin Stores
  <2>1. SpikeEntry.instr.kind \in Writers \cup {"branch", "fence"}
    BY <1>0, <1>4
  <2>2. SpikeEntry.instr.kind \in Writers => SpikeEntry.instr.rd = 0
    BY <1>0, <1>4
  <2>3. SpikeEntry.target_reg = None /\ SpikeEntry.mem_val = None
    BY <1>0, <2>1, <2>2, EntryLogged
  <2>4. SpikeEntry.instr.kind \notin Stores
    BY <2>1 DEF Writers, Stores
  <2>. QED
    BY <1>0, <2>3, <2>4, EntryLogged
<1>6. Strip(row) = ReadFiltered[si + 1]
  BY <1>0, <1>2, <1>4, <1>5, FilteredEntry, EqualRow
<1>7. Good'
  BY <1>0, <1>2, <1>3, <1>6, TurnGood
<1>8. commits' = commits
  BY <1>0, <1>5 DEF WithInserted, Repeated
<1>. PICK t : t = input.spike
  OBVIOUS
<1>9. /\ si + 1 <= Len(t) /\ Len(t) \in Nat
      /\ si + 1 \notin ChangingWrites(t) /\ si + 1 \notin StoresOf(t)
  BY <1>0, <1>5, CursorTypes, ShownWrites DEF Backed
<1>10. /\ \E pos : FetchesAhead(t, fetches, fi + 1, si + 1, pos)
       /\ \E g : CommitsAhead(t, commits, ci, si + 1, g)
       /\ \E h : AccessesAhead(t, mems, mi, si + 1, h)
  BY <1>9, CursorTypes, PassedQuietly DEF Ahead
<1>. QED
  BY <1>0, <1>7, <1>8, <1>10 DEF Ahead

-----------------------------------------------------------------------------
\* What the comparator takes for a write back is the write at hand, and what is
\* then ahead are the writes after it.
LEMMA RightCommit ==
  ASSUME TypeInv, InLoop, Followed, RegistersFollow, ci < Len(WithInserted),
         Fetch.instr = SpikeEntry.instr, SpikeEntry.target_reg # None,
         NEW t, t = input.spike, NEW g, CommitsAhead(t, commits, ci, si, g)
  PROVE  /\ IsWriteOf(ForWriteBack[ci + 1], SpikeEntry)
         /\ \E d : CommitsAhead(t, ForWriteBack, ci + 1, si + 1, d)
<1>0. /\ TypeOK /\ IsTrace(spike) /\ Len(t) \in Nat /\ Len(spike) = Len(t)
      /\ ci \in Nat /\ si \in Nat /\ Len(commits) \in Nat /\ ci <= Len(commits)
      /\ si + 1 <= Len(t)
  BY CursorTypes, ReadFilteredType DEF TypeInv, Followed
<1>1. si + 1 \in ChangingWrites(t) <=> ~Repeated
  BY ShownWrites
<1>2. CASE Repeated
  <2>1. /\ ForWriteBack = WithInserted /\ Len(WithInserted) = Len(commits) + 1
        /\ WithInserted[ci + 1] = [reg |-> SpikeEntry.target_reg,
                                   val |-> SpikeEntry.reg_val, src |-> 0]
        /\ \A k \in (ci + 2)..Len(WithInserted) : WithInserted[k] = commits[k - 1]
    BY <1>0, <1>2, WithInsertedType, ForWriteBackType
  <2>2. IsWriteOf(ForWriteBack[ci + 1], SpikeEntry)
    BY <2>1 DEF IsWriteOf
  <2>3. CommitsAhead(t, commits, ci, si + 1, g)
    BY <1>0, <1>1, <1>2, CommitsSkip
  <2>4. \E d : CommitsAhead(t, ForWriteBack, ci + 1, si + 1, d)
    <3>. PICK ds : ds = ForWriteBack
      OBVIOUS
    <3>1. Len(ds) = Len(commits) + 1 /\ \A q \in (ci + 2)..Len(ds) : ds[q] = commits[q - 1]
      BY <2>1
    <3>2. \E d : CommitsAhead(t, ds, ci + 1, si + 1, d)
      BY <1>0, <2>3, <3>1, CommitsInserted
    <3>. QED
      BY <3>2
  <2>. QED
    BY <2>2, <2>4
<1>3. CASE ~Repeated
  <2>1. WithInserted = commits
    BY <1>3 DEF WithInserted
  <2>2. /\ ci + 1 <= Len(commits)
        /\ \/ g[ci + 1] = si + 1
           \/ /\ ci + 2 <= Len(commits) /\ g[ci + 2] = si + 1 /\ g[ci + 1] = si + 2
              /\ si + 2 <= Len(t) /\ SameCycle(t, si + 1, si + 2)
    BY <1>0, <1>1, <1>3, CommitsNext
  <2>3. SameEntry(SpikeEntry, t[si + 1])
    BY <1>0, ReadFilteredType DEF Followed, SpikeEntry
  <2>4. \A p \in (ci + 1)..Len(commits) : IsWriteOf(commits[p], t[g[p]])
    BY DEF CommitsAhead
  <2>5. CASE g[ci + 1] = si + 1
    <3>1. IsWriteOf(commits[ci + 1], t[si + 1])
      BY <1>0, <2>2, <2>4, <2>5
    <3>2. IsWriteOf(commits[ci + 1], SpikeEntry)
      BY <2>3, <3>1 DEF IsWriteOf, SameEntry
    <3>3. ForWriteBack = commits
      BY <2>1, <3>2 DEF ForWriteBack, Reordered
    <3>4. CommitsAhead(t, commits, ci + 1, si + 1, [q \in (ci + 2)..Len(commits) |-> g[q]])
      BY <1>0, <2>2, <2>5, CommitsFirst
    <3>. QED
      BY <3>2, <3>3, <3>4
  <2>6. CASE /\ ci + 2 <= Len(commits) /\ g[ci + 2] = si + 1 /\ g[ci + 1] = si + 2
             /\ si + 2 <= Len(t) /\ SameCycle(t, si + 1, si + 2)
    <3>1. IsWriteOf(commits[ci + 2], t[si + 1]) /\ IsWriteOf(commits[ci + 1], t[si + 2])
      BY <1>0, <2>4, <2>6
    <3>2. NextSpikeEntry = spike[si + 2] /\ SameEntry(spike[si + 2], t[si + 2])
      BY <1>0, <2>6 DEF NextSpikeEntry, Followed
    <3>3. /\ IsWriteOf(commits[ci + 2], SpikeEntry) /\ IsWriteOf(commits[ci + 1], NextSpikeEntry)
          /\ ~IsWriteOf(commits[ci + 1], SpikeEntry)
      BY <2>3, <2>6, <3>1, <3>2 DEF IsWriteOf, SameEntry, SameCycle
    <3>4. Fetch.instr.kind # "jump"
      BY <2>3, <2>6 DEF SameEntry, SameCycle
    <3>5. ci + 1 < Len(commits)
      BY <1>0, <2>6
    <3>6. ForWriteBack = [commits EXCEPT ![ci + 1] = commits[ci + 2], ![ci + 2] = commits[ci + 1]]
      BY <2>1, <3>3, <3>4, <3>5 DEF ForWriteBack, Reordered
    <3>7. /\ ForWriteBack # commits
          /\ Len(ForWriteBack) = Len(commits)
          /\ ForWriteBack[ci + 1] = commits[ci + 2]
          /\ ForWriteBack[ci + 2] = commits[ci + 1]
          /\ \A k \in 1..Len(commits) :
                    k # ci + 1 /\ k # ci + 2 => ForWriteBack[k] = commits[k]
      <4>1. ci + 1 \in 1..Len(commits) /\ commits \in Seq(Commit) /\ ci + 1 # ci + 2
            /\ ci + 2 \in 1..Len(commits)
        BY <1>0, <2>6 DEF TypeOK
      <4>2. ForWriteBack[ci + 1] = commits[ci + 2]
        BY <3>6, <4>1
      <4>3. ForWriteBack # commits
        BY <3>3, <4>2
      <4>4. ci < Len(WithInserted)
        OBVIOUS
      <4>. QED
        BY <1>0, <2>1, <4>3, <4>4, ForWriteBackType
    <3>8. \E d : CommitsAhead(t, ForWriteBack, ci + 1, si + 1, d)
      <4>. PICK ds : ds = ForWriteBack
        OBVIOUS
      <4>1. /\ Len(ds) = Len(commits) /\ ds[ci + 2] = commits[ci + 1]
            /\ \A q \in (ci + 3)..Len(commits) : ds[q] = commits[q]
        BY <1>0, <3>7
      <4>2. \E d : CommitsAhead(t, ds, ci + 1, si + 1, d)
        BY <1>0, <2>6, <4>1, CommitsSwapped
      <4>. QED
        BY <4>2
    <3>. QED
      BY <3>3, <3>7, <3>8
  <2>. QED
    BY <2>2, <2>5, <2>6
<1>. QED
  BY <1>2, <1>3

LEMMA WriteBackQuiet ==
  ASSUME TypeInv, Followed, Sound, Good, Backed, Ahead, WriteBack
  PROVE  Good' /\ Ahead'
<1>. DEFINE c    == ForWriteBack[ci + 1]
            flag == Repeated
            row  == [BareRow EXCEPT !.target_reg = c.reg, !.reg_val = c.val, !.src = c.src,
                                    !.speculative_commit = flag]
<1>0. /\ TypeOK /\ IsTrace(spike) /\ InLoop /\ spike' = ReadFiltered /\ PcMatches
      /\ input' = input /\ fetches' = fetches /\ commits' = ForWriteBack /\ mems' = mems
      /\ fi' = fi + 1 /\ ci' = ci + 1 /\ mi' = mi /\ si' = si + 1
      /\ Fetch.instr.kind \in Writers /\ ci < Len(WithInserted)
      /\ SpikeEntry.target_reg # None
  BY DEF TypeInv, WriteBack, Matched
<1>1. Emit(row) /\ flag \in BOOLEAN
  BY DEF WriteBack, Repeated
<1>2. c \in Commit
  BY <1>0, ForWriteBackType, ElementOfSeq
<1>. HIDE DEF flag, c
<1>3. /\ row \in Row /\ row.speculative_fetch = FALSE
      /\ row.pc = Fetch.pc /\ row.instr = Fetch.instr
      /\ row.target_reg = c.reg /\ row.reg_val = c.val
      /\ row.mem_addr = None /\ row.mem_val = None
  <2>1. BareRow \in Row
    BY <1>0, BareRowType
  <2>2. /\ BareRow.speculative_fetch = FALSE /\ BareRow.pc = Fetch.pc
        /\ BareRow.instr = Fetch.instr
        /\ BareRow.mem_addr = None /\ BareRow.mem_val = None
    BY DEF BareRow
  <2>3. c.reg \in Reg /\ c.val \in Value /\ c.src \in Nat
    BY <1>2 DEF Commit
  <2>. HIDE DEF Fetch
  <2>4. row \in Row
    BY <1>1, <2>1, <2>3 DEF Row
  <2>. QED
    BY <1>1, <2>1, <2>2, <2>4 DEF Row
<1>. HIDE DEF row
<1>4. nonspec' = Append(nonspec, row)
  BY <1>0, <1>1, <1>3, EmitType DEF TypeOK
<1>5. Fetch.pc = SpikeEntry.pc /\ Fetch.instr = SpikeEntry.instr
  BY <1>0, SoundFetch
<1>6. SpikeEntry.mem_val = None /\ SpikeEntry.instr.kind \notin Stores
  <2>1. SpikeEntry.instr.kind \in Writers
    BY <1>0, <1>5
  <2>2. SpikeEntry.mem_val = None
    BY <1>0, <2>1, EntryLogged
  <2>. QED
    BY <2>1, <2>2 DEF Writers, Stores
<1>. PICK t : t = input.spike
  OBVIOUS
<1>7. PICK g : CommitsAhead(t, commits, ci, si, g)
  BY DEF Ahead
<1>8. /\ IsWriteOf(c, SpikeEntry)
      /\ \E d : CommitsAhead(t, ForWriteBack, ci + 1, si + 1, d)
  BY <1>0, <1>5, <1>7, RightCommit DEF Backed, c
<1>9. Strip(row) = ReadFiltered[si + 1]
  <2>1. c.reg = SpikeEntry.target_reg /\ c.val = SpikeEntry.reg_val
    BY <1>8 DEF IsWriteOf
  <2>. QED
    BY <1>0, <1>3, <1>5, <1>6, <2>1, FilteredEntry, EqualRow
<1>10. Good'
  BY <1>0, <1>3, <1>4, <1>9, TurnGood
<1>11. si + 1 <= Len(t) /\ Len(t) \in Nat /\ si + 1 \notin StoresOf(t)
  BY <1>0, <1>6, CursorTypes, ShownWrites DEF Backed
<1>12. /\ \E pos : FetchesAhead(t, fetches, fi + 1, si + 1, pos)
       /\ \E h : AccessesAhead(t, mems, mi, si + 1, h)
  BY <1>11, CursorTypes, PassedQuietly DEF Ahead
<1>. QED
  BY <1>0, <1>8, <1>10, <1>12 DEF Ahead

\* The bytes on the bus are the bytes Spike logs.
LEMMA RecordedStore ==
  ASSUME NEW a \in Access, NEW e \in Entry, e.mem_addr # None, e.mem_val # None,
         e.instr.kind \in Stores, Records(a, e),
         \A b \in Width(e.instr.kind)..3 : e.mem_val[b] = 0
  PROVE  /\ a.addr + (e.mem_addr % 4) = e.mem_addr
         /\ StoredBytes(e.instr.kind, a.val, e.mem_addr) = e.mem_val
<1>. DEFINE offset == e.mem_addr % 4
            w      == Width(e.instr.kind)
<1>1. e.mem_addr \in Nat /\ e.mem_val \in Word /\ a.addr \in Nat /\ offset \in 0..3
  BY DEF Entry, Access
<1>2. w \in 1..4
  BY DEF Width
<1>3. /\ offset + w <= 4 /\ a.addr = e.mem_addr - offset
      /\ \A b \in 0..(w - 1) : a.val[b + offset] = e.mem_val[b]
  BY DEF Records
<1>4. e.mem_val = [b \in 0..3 |-> e.mem_val[b]]
  BY <1>1 DEF Word
<1>5. StoredBytes(e.instr.kind, a.val, e.mem_addr) =
        [b \in 0..3 |-> IF b < w /\ b + offset <= 3 THEN a.val[b + offset] ELSE 0]
  BY DEF StoredBytes
<1>6. \A b \in w..3 : e.mem_val[b] = 0
  OBVIOUS
<1>. HIDE DEF offset, w
<1>7. ASSUME NEW b \in 0..3
      PROVE  (IF b < w /\ b + offset <= 3 THEN a.val[b + offset] ELSE 0) = e.mem_val[b]
  <2>1. CASE b < w
    <3>1. b \in 0..(w - 1) /\ b + offset <= 3
      BY <1>1, <1>2, <1>3, <2>1
    <3>. QED
      BY <1>3, <2>1, <3>1
  <2>2. CASE ~(b < w)
    <3>1. b \in w..3
      BY <1>2, <2>2
    <3>. QED
      BY <1>6, <2>2, <3>1
  <2>. QED
    BY <2>1, <2>2
<1>8. a.addr + offset = e.mem_addr
  BY <1>1, <1>3
<1>9. StoredBytes(e.instr.kind, a.val, e.mem_addr) = e.mem_val
  BY <1>4, <1>5, <1>7
<1>. QED
  BY <1>8, <1>9 DEF offset

LEMMA StoreQuiet ==
  ASSUME TypeInv, Followed, Sound, Good, Backed, Ahead, Store
  PROVE  Good' /\ Ahead'
<1>. DEFINE a    == mems[mi + 1]
            addr == SpikeEntry.mem_addr
            word == StoredBytes(Fetch.instr.kind, a.val, addr)
            row  == [BareRow EXCEPT !.mem_addr = a.addr + (addr % 4), !.mem_val = word,
                                    !.src = mi + 1]
<1>0. /\ TypeOK /\ InLoop /\ spike' = ReadFiltered /\ PcMatches
      /\ input' = input /\ fetches' = fetches /\ commits' = WithInserted
      /\ fi' = fi + 1 /\ ci' = ci /\ mi' = mi + 1 /\ si' = si + 1
      /\ Fetch.instr.kind \in Stores
      /\ mems' = [mems EXCEPT ![mi + 1].addr = a.addr + (addr % 4)]
  BY DEF TypeInv, Store, Matched
<1>1. /\ mi + 1 \in 1..Len(mems) /\ a.addr + (addr % 4) \in Nat /\ word \in Word
      /\ mi + 1 \in Nat
  BY StoreOperands, CursorTypes
<1>2. Emit(row)
  BY DEF Store
<1>3. a \in Access /\ mems \in Seq(Access)
  BY <1>0, <1>1, ElementOfSeq DEF TypeOK
<1>4. Fetch.pc = SpikeEntry.pc /\ Fetch.instr = SpikeEntry.instr
  BY <1>0, SoundFetch
<1>5. /\ SpikeEntry.instr.kind \in Stores
      /\ SpikeEntry.target_reg = None /\ SpikeEntry.reg_val = None
      /\ SpikeEntry.mem_addr # None /\ SpikeEntry.mem_val # None
      /\ \A b \in Width(SpikeEntry.instr.kind)..3 : SpikeEntry.mem_val[b] = 0
  <2>1. SpikeEntry.instr.kind \in Stores
    BY <1>0, <1>4
  <2>. HIDE DEF SpikeEntry
  <2>. QED
    BY <1>0, <2>1, EntryLogged
<1>. PICK t : t = input.spike
  OBVIOUS
<1>6. PICK h : AccessesAhead(t, mems, mi, si, h)
  BY DEF Ahead
<1>7. /\ si + 1 <= Len(t) /\ Len(t) \in Nat /\ si + 1 \in 1..Len(spike)
      /\ si + 1 \in StoresOf(t) /\ si + 1 \notin ChangingWrites(t)
  BY <1>0, <1>5, CursorTypes, ReadFilteredType, ShownWrites DEF Backed
<1>8. mi + 1 <= Len(mems) /\ h[mi + 1] = si + 1 /\ Records(a, t[si + 1])
  BY <1>6, <1>7, CursorTypes, AccessesNext
<1>9. Records(a, SpikeEntry)
  <2>1. SameEntry(SpikeEntry, t[si + 1])
    BY <1>7 DEF Followed, SpikeEntry
  <2>2. /\ SpikeEntry.instr = t[si + 1].instr /\ SpikeEntry.mem_val = t[si + 1].mem_val
        /\ SpikeEntry.mem_addr = t[si + 1].mem_addr
    BY <1>5, <2>1 DEF SameEntry
  <2>. HIDE DEF a, SpikeEntry
  <2>. QED
    BY <1>8, <2>2 DEF Records
<1>10. a.addr + (addr % 4) = addr /\ word = SpikeEntry.mem_val
  <2>1. SpikeEntry \in Entry
    BY <1>0, SpikeEntryType
  <2>2. /\ a.addr + (SpikeEntry.mem_addr % 4) = SpikeEntry.mem_addr
        /\ StoredBytes(SpikeEntry.instr.kind, a.val, SpikeEntry.mem_addr) = SpikeEntry.mem_val
    BY <1>3, <1>5, <1>9, <2>1, RecordedStore
  <2>. QED
    BY <1>4, <2>2
<1>. HIDE DEF a, addr, word
<1>11. /\ row \in Row /\ row.speculative_fetch = FALSE
       /\ row.pc = Fetch.pc /\ row.instr = Fetch.instr
       /\ row.target_reg = None /\ row.reg_val = None
       /\ row.mem_addr = addr /\ row.mem_val = word
  <2>1. BareRow \in Row
    BY <1>0, BareRowType
  <2>2. /\ BareRow.speculative_fetch = FALSE /\ BareRow.pc = Fetch.pc
        /\ BareRow.instr = Fetch.instr
        /\ BareRow.target_reg = None /\ BareRow.reg_val = None
    BY DEF BareRow
  <2>. HIDE DEF Fetch
  <2>3. row \in Row
    BY <1>1, <2>1 DEF Row
  <2>. QED
    BY <1>1, <1>10, <2>1, <2>2, <2>3 DEF Row
<1>. HIDE DEF row
<1>12. nonspec' = Append(nonspec, row)
  BY <1>0, <1>2, <1>11, EmitType DEF TypeOK
<1>13. Strip(row) = ReadFiltered[si + 1]
  <2>1. ReadFiltered[si + 1].mem_addr = addr
    BY <1>0, <1>5, FilteredEntry DEF addr
  <2>. QED
    BY <1>0, <1>4, <1>5, <1>10, <1>11, <2>1, FilteredEntry, EqualRow
<1>14. Good'
  BY <1>0, <1>11, <1>12, <1>13, TurnGood
<1>15. commits' = commits
  BY <1>0, <1>5 DEF WithInserted, Repeated
<1>16. /\ \E pos : FetchesAhead(t, fetches, fi + 1, si + 1, pos)
       /\ \E g : CommitsAhead(t, commits, ci, si + 1, g)
  BY <1>7, CursorTypes, PassedQuietly DEF Ahead
<1>17. Len(mems') = Len(mems) /\ \A q \in (mi + 2)..Len(mems) : mems'[q] = mems[q]
  <2>. DEFINE b == [mems[mi + 1] EXCEPT !.addr = a.addr + (addr % 4)]
  <2>1. mems' = [mems EXCEPT ![mi + 1] = b]
    BY <1>0, <1>1, <1>3
  <2>2. b \in Access
    BY <1>1, <1>3 DEF Access, a
  <2>. HIDE DEF b
  <2>3. /\ Len(mems') = Len(mems)
        /\ \A q \in 1..Len(mems) : mems'[q] = IF q = mi + 1 THEN b ELSE mems[q]
    BY <1>1, <1>3, <2>1, <2>2, ExceptSeq
  <2>. QED
    BY <2>3, CursorTypes
<1>18. \E d : AccessesAhead(t, mems', mi + 1, si + 1, d)
  <2>. PICK ns : ns = mems'
    OBVIOUS
  <2>1. Len(ns) = Len(mems) /\ \A q \in (mi + 2)..Len(mems) : ns[q] = mems[q]
    BY <1>17
  <2>2. \E d : AccessesAhead(t, ns, mi + 1, si + 1, d)
    BY <1>6, <1>7, <1>8, <2>1, CursorTypes, AccessesTaken
  <2>. QED
    BY <2>2
<1>. QED
  BY <1>0, <1>14, <1>15, <1>16, <1>18 DEF Ahead

-----------------------------------------------------------------------------
(* No false alarm: every step                                              *)

LEMMA NoneIsNoRegister ==
  ASSUME NEW r \in Reg
  PROVE  r # None
BY NoneAssumption, RegAssumption

LEMMA GenerateQuiet ==
  ASSUME TypeInv, IInv, NoAlarm, Sound, Generate, phase' # "crashed"
  PROVE  /\ Good' /\ mismatches' = << >>
         /\ phase' = "generate" => Ahead'
         /\ phase' # "generate" => si' = Len(spike')
<1>1. phase = "generate" /\ mismatches' = mismatches
  BY DEF Generate, EndOfSpike, OutOfFetches, OutOfCommits, OutOfAccesses, SpeculativeFetch,
         FetchOnly, WriteBack, Store, UnknownInstruction, GenerateRaises, Matched, LeaveLoop,
         InLoop, cmpVars
<1>2. Followed /\ Good /\ Ahead /\ mismatches = << >>
  BY <1>1 DEF NoAlarm
<1>3. Backed
  BY <1>2 DEF IInv
<1>4. CASE SpeculativeFetch
  <2>1. phase' = phase
    BY <1>4 DEF SpeculativeFetch
  <2>. QED
    BY <1>1, <1>2, <1>3, <1>4, <2>1, SpeculativeFetchQuiet
<1>5. CASE FetchOnly
  <2>1. phase' = phase
    BY <1>5 DEF FetchOnly
  <2>. QED
    BY <1>1, <1>2, <1>3, <1>5, <2>1, FetchOnlyQuiet
<1>6. CASE WriteBack
  <2>1. phase' = phase
    BY <1>6 DEF WriteBack
  <2>. QED
    BY <1>1, <1>2, <1>3, <1>6, <2>1, WriteBackQuiet
<1>7. CASE Store
  <2>1. phase' = phase
    BY <1>7 DEF Store
  <2>. QED
    BY <1>1, <1>2, <1>3, <1>7, <2>1, StoreQuiet
<1>8. CASE EndOfSpike
  <2>1. /\ si >= Len(spike) /\ phase' = "compare" /\ si' = si /\ spike' = spike
        /\ nonspec' = nonspec
    BY <1>8 DEF EndOfSpike, LeaveLoop, genVars
  <2>2. si = Len(spike)
    BY <2>1, CursorTypes
  <2>3. Good'
    BY <1>2, <2>1 DEF Good
  <2>. QED
    BY <1>1, <1>2, <2>1, <2>2, <2>3
<1>9. CASE OutOfFetches
  <2>1. si < Len(spike) /\ fi >= Len(fetches)
    BY <1>9 DEF OutOfFetches
  <2>2. fi < Len(fetches)
    BY <1>1, <1>2, <1>3, <2>1, NeverShort
  <2>. QED
    BY <2>1, <2>2, CursorTypes
<1>10. CASE OutOfCommits
  <2>1. /\ InLoop /\ PcMatches /\ Fetch.instr.kind \in Writers /\ Fetch.instr.rd # 0
        /\ ci >= Len(WithInserted)
    BY <1>10 DEF OutOfCommits, Matched
  <2>2. SpikeEntry.instr = Fetch.instr
    BY <1>2, <2>1, SoundFetch
  <2>3. SpikeEntry.target_reg # None
    <3>1. SpikeEntry.target_reg = Fetch.instr.rd
      BY <2>1, <2>2, EntryLogged
    <3>2. Fetch.instr.rd \in Reg
      BY <2>1, FetchType DEF TypeInv
    <3>. QED
      BY <3>1, <3>2, NoneIsNoRegister
  <2>4. ci < Len(WithInserted)
    BY <1>1, <1>2, <1>3, <2>1, <2>3, NeverShort
  <2>5. WithInserted \in Seq(Commit) /\ Len(WithInserted) \in Nat
    BY <2>1, WithInsertedType, LenProperties DEF TypeInv
  <2>. QED
    BY <2>1, <2>4, <2>5, CursorTypes
<1>11. CASE OutOfAccesses
  <2>1. InLoop /\ PcMatches /\ Fetch.instr.kind \in Stores /\ mi >= Len(mems)
    BY <1>11 DEF OutOfAccesses, Matched
  <2>2. SpikeEntry.instr = Fetch.instr
    BY <1>2, <2>1, SoundFetch
  <2>3. mi < Len(mems)
    BY <1>1, <1>2, <1>3, <2>1, <2>2, NeverShort
  <2>. QED
    BY <2>1, <2>3, CursorTypes
<1>12. CASE UnknownInstruction
  <2>1. InLoop /\ PcMatches /\ Fetch.instr.kind = "other"
    BY <1>12 DEF UnknownInstruction, Matched
  <2>. QED
    BY <1>2, <2>1, SoundFetch
<1>13. CASE GenerateRaises
  BY <1>13 DEF GenerateRaises
<1>. QED
  BY <1>4, <1>5, <1>6, <1>7, <1>8, <1>9, <1>10, <1>11, <1>12, <1>13 DEF Generate

LEMMA CompareQuiet ==
  ASSUME TypeInv, NoAlarm, Sound, Compare, phase' # "crashed"
  PROVE  /\ Good' /\ mismatches' = << >>
         /\ phase' # "generate" /\ si' = Len(spike')
<1>1. /\ phase = "compare" /\ si' = si /\ spike' = spike /\ nonspec' = nonspec
      /\ phase' # "generate"
  BY DEF Compare, CompareEqual, CompareDifferent, CompareOutOfEntries, CompareEnd, CompareRaises,
         Comparing, genVars
<1>2. Good /\ mismatches = << >> /\ si = Len(spike)
  BY <1>1 DEF NoAlarm
<1>3. Good' /\ si' = Len(spike')
  BY <1>1, <1>2 DEF Good
<1>4. CASE CompareEqual
  <2>1. dut_entry # "reported"
    BY <1>2 DEF TypeInv, TypeOK
  <2>. QED
    BY <1>1, <1>2, <1>3, <1>4, <2>1 DEF CompareEqual, ClearedReport
<1>5. CASE CompareDifferent
  <2>1. cmp + 1 \in 1..si
    BY <1>2, <1>5, CursorTypes DEF CompareDifferent, Good, TypeInv, TypeOK
  <2>2. Strip(nonspec[cmp + 1]) # spike[cmp + 1]
    BY <1>5 DEF CompareDifferent
  <2>. QED
    BY <1>2, <2>1, <2>2 DEF Good
<1>6. CASE CompareOutOfEntries
  <2>1. cmp < Len(spike) /\ cmp >= Len(nonspec)
    BY <1>6 DEF CompareOutOfEntries, Comparing
  <2>2. Len(nonspec) = Len(spike) /\ cmp \in Nat /\ Len(spike) \in Nat
    BY <1>2, CursorTypes DEF Good, TypeInv, TypeOK
  <2>. QED
    BY <2>1, <2>2
<1>7. CASE CompareEnd
  BY <1>1, <1>2, <1>3, <1>7 DEF CompareEnd, cmpVars
<1>8. CASE CompareRaises
  BY <1>8 DEF CompareRaises
<1>. QED
  BY <1>1, <1>3, <1>4, <1>5, <1>6, <1>7, <1>8 DEF Compare

LEMMA InitNoAlarm == Init => NoAlarm
<1>. SUFFICES ASSUME Init PROVE NoAlarm
  OBVIOUS
<1>0. TypeInv
  BY InitType
<1>1. /\ spike = input.spike /\ fetches = input.dut.fetches /\ mems = input.dut.mems
      /\ fi = 0 /\ ci = 0 /\ mi = 0 /\ si = 0 /\ nonspec = << >> /\ mismatches = << >>
      /\ phase = "generate"
      /\ commits = [k \in 1..Len(input.dut.commits) |->
                      [reg |-> input.dut.commits[k].reg, val |-> input.dut.commits[k].val,
                       src |-> k]]
  BY DEF Init
<1>2. Followed
  BY <1>1 DEF Followed, SameEntry
<1>3. Good
  BY <1>1 DEF Good
<1>4. ASSUME Sound PROVE Ahead
  <2>1. /\ Len(input.spike) \in Nat /\ Len(input.dut.fetches) \in Nat
        /\ Len(input.dut.commits) \in Nat /\ Len(input.dut.mems) \in Nat
    BY <1>0, LenProperties DEF TypeInv, TypeOK, Fragment
  <2>2. /\ Len(commits) = Len(input.dut.commits)
        /\ \A j \in 1..Len(commits) : /\ commits[j].reg = input.dut.commits[j].reg
                                      /\ commits[j].val = input.dut.commits[j].val
    <3>1. Len(commits) \in Nat /\ commits \in Seq(Commit)
      BY <1>0, LenProperties DEF TypeInv, TypeOK
    <3>2. Len(commits) = Len(input.dut.commits)
      BY <1>1, <2>1, <3>1, LenProperties
    <3>. QED
      BY <1>1, <3>2
  <2>. PICK t : t = input.spike
    OBVIOUS
  <2>. PICK d : d = input.dut
    OBVIOUS
  <2>. PICK cs : cs = commits
    OBVIOUS
  <2>3. Correct(t, d)
    BY <1>4 DEF Sound
  <2>4. /\ \E pos : FetchesAhead(t, d.fetches, 0, 0, pos)
        /\ \E g : CommitsAhead(t, cs, 0, 0, g)
        /\ \E h : AccessesAhead(t, d.mems, 0, 0, h)
    BY <2>1, <2>2, <2>3, CorrectAhead
  <2>. QED
    BY <1>1, <2>4 DEF Ahead
<1>. QED
  BY <1>1, <1>2, <1>3, <1>4 DEF NoAlarm

LEMMA NextNoAlarm == TypeInv /\ IInv /\ NoAlarm /\ [Next]_vars => NoAlarm'
<1>. SUFFICES ASSUME TypeInv, IInv, NoAlarm, [Next]_vars PROVE NoAlarm'
  OBVIOUS
<1>1. CASE UNCHANGED vars
  BY <1>1 DEF vars, genVars, cmpVars, NoAlarm, Followed, Sound, Good, Ahead
<1>2. CASE Generate
  <2>1. input' = input /\ phase # "crashed"
    BY <1>2 DEF Generate, EndOfSpike, OutOfFetches, OutOfCommits, OutOfAccesses, SpeculativeFetch,
         FetchOnly, WriteBack, Store, UnknownInstruction, GenerateRaises, Matched, LeaveLoop, InLoop
  <2>2. spike' = spike \/ (InLoop /\ spike' = ReadFiltered)
    BY <1>2 DEF Generate, EndOfSpike, OutOfFetches, OutOfCommits, OutOfAccesses, SpeculativeFetch,
         FetchOnly, WriteBack, Store, UnknownInstruction, GenerateRaises, Matched, genVars
  <2>3. Followed'
    BY <2>1, <2>2, FollowedStep DEF NoAlarm
  <2>4. Sound' <=> Sound
    BY <2>1 DEF Sound
  <2>. QED
    BY <1>2, <2>3, <2>4, GenerateQuiet DEF NoAlarm
<1>3. CASE Compare
  <2>1. input' = input /\ spike' = spike
    BY <1>3 DEF Compare, CompareEqual, CompareDifferent, CompareOutOfEntries, CompareEnd,
                CompareRaises, genVars
  <2>2. Followed'
    BY <2>1, FollowedStep DEF NoAlarm
  <2>3. Sound' <=> Sound
    BY <2>1 DEF Sound
  <2>. QED
    BY <1>3, <2>2, <2>3, CompareQuiet DEF NoAlarm
<1>. QED
  BY <1>1, <1>2, <1>3 DEF Next

\* A correct execution never raises an alarm: when the fragment is the recording of a
\* correct run of instructions the decoder knows, generate_final_trace builds a
\* row equal to each entry of Spike, and compare_traces reports nothing, for
\* traces of any length.
THEOREM NoFalseAlarms == Spec => []NoFalseAlarm
<1>1. NoAlarm => NoFalseAlarm
  BY DEF NoAlarm, NoFalseAlarm, Sound
<1>2. Spec => []NoAlarm
  BY InitNoAlarm, NextNoAlarm, AlwaysTyped, AlwaysIInv, PTL DEF Spec
<1>. QED
  BY <1>1, <1>2, PTL
=============================================================================
