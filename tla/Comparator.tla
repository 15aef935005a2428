----------------------------- MODULE Comparator -----------------------------
(***************************************************************************)
(* compare_traces.py: generate_final_trace merges the three fragments the  *)
(* simulation collected from the processor under test (fetches, register   *)
(* file commits, memory accesses) into one trace, guided by the trace of   *)
(* Spike, and compare_traces then compares the two entry by entry.         *)
(*                                                                         *)
(* One action is one way through the body of a loop.  The cursors are the  *)
(* zero-based indices of the code: fi, ci, mi, si are fetches_index,       *)
(* regfile_commits_index, memory_accesses_index, spike_index.              *)
(*                                                                         *)
(* Three things are history, and no guard reads them: input, the arguments *)
(* of the call; the field src of a commit or of a row, the position of the *)
(* DUT's record it came from (0 for a commit the comparator inserted); the *)
(* field at of a row, the Spike entry it was generated for.                *)
(***************************************************************************)
EXTENDS TraceFormat

CONSTANTS Traces,       \* the traces of Spike to compare with
          Fragments(_)  \* the fragments of a DUT to compare each of them with

ASSUME InputAssumption ==
  \A t \in Traces : IsTrace(t) /\ Fragments(t) \subseteq Fragment

VARIABLES input, phase,
          spike, fetches, commits, mems,     \* the traces, as the loop edits them
          fi, ci, mi, si, spike_regfile,
          final, nonspec,                    \* dut_trace_final, and its rows that
                                             \* are not speculative fetches
          cmp, dut_entry, mismatches         \* compare_traces

genVars == <<spike, fetches, commits, mems, fi, ci, mi, si, spike_regfile, final, nonspec>>
cmpVars == <<cmp, dut_entry, mismatches>>
vars    == <<input, phase, genVars, cmpVars>>

Commit == [reg : Reg, val : Value, src : Nat]
Row == [pc : Nat, instr : Instr,
        target_reg : Reg \cup {None}, reg_val : Value \cup {None},
        mem_addr : Nat \cup {None},   mem_val : Word \cup {None},
        speculative_fetch : BOOLEAN, speculative_commit : BOOLEAN,
        at : Nat, src : Nat]

Strip(row) == [pc |-> row.pc, instr |-> row.instr,
               target_reg |-> row.target_reg, reg_val |-> row.reg_val,
               mem_addr |-> row.mem_addr, mem_val |-> row.mem_val]

Reported == [pc : Nat \cup {None}, instr : Instr \cup {None},
             target_reg : Reg \cup {None}, reg_val : Value \cup {None},
             mem_addr : Nat \cup {None},   mem_val : Word \cup {None}]

EmptyEntry == [pc |-> None, instr |-> None, target_reg |-> None,
               reg_val |-> None, mem_addr |-> None, mem_val |-> None]

Init ==
  /\ \E t \in Traces : \E d \in Fragments(t) : input = [spike |-> t, dut |-> d]
  /\ phase = "generate"
  /\ spike = input.spike
  /\ fetches = input.dut.fetches
  /\ commits = [k \in 1..Len(input.dut.commits) |->
                  [reg |-> input.dut.commits[k].reg, val |-> input.dut.commits[k].val,
                   src |-> k]]
  /\ mems = input.dut.mems
  /\ fi = 0 /\ ci = 0 /\ mi = 0 /\ si = 0
  /\ spike_regfile = [r \in Reg |-> 0]
  /\ final = << >> /\ nonspec = << >>
  /\ cmp = 0 /\ dut_entry = "unbound" /\ mismatches = << >>

-----------------------------------------------------------------------------
(* generate_final_trace *)

SpikeEntry == spike[si + 1]
Fetch      == fetches[fi + 1]

InLoop == phase = "generate" /\ si < Len(spike) /\ fi < Len(fetches)

\* The address of a load is not compared: the DUT does not show it.
ReadFiltered ==
  IF SpikeEntry.mem_addr # None /\ SpikeEntry.mem_val = None
  THEN [spike EXCEPT ![si + 1].mem_addr = None]
  ELSE spike

\* Odd program counters are tolerated.
PcMatches == SpikeEntry.pc = Fetch.pc - (Fetch.pc % 2)

\* Mutant: any write of a register is taken for a repeated one.
RepeatedWhateverValue == SpikeEntry.target_reg # None

\* A write of the value the register already holds: the DUT shows nothing.
Repeated ==
  /\ SpikeEntry.target_reg # None
  /\ spike_regfile[SpikeEntry.target_reg] = SpikeEntry.reg_val

\* Mutant: the commit is inserted before the one consumed last.
WithInsertedEarly ==
  IF Repeated
  THEN InsertAt(commits, IF ci = 0 THEN 1 ELSE ci, [reg |-> SpikeEntry.target_reg,
                                                    val |-> SpikeEntry.reg_val, src |-> 0])
  ELSE commits

WithInserted ==
  IF Repeated
  THEN InsertAt(commits, ci + 1, [reg |-> SpikeEntry.target_reg,
                                  val |-> SpikeEntry.reg_val, src |-> 0])
  ELSE commits

\* next_spike_entry keeps its last binding: at the last entry of the trace that
\* is this entry itself, and in a trace of one entry it was never bound.
NextSpikeEntry == IF si + 1 < Len(spike) THEN spike[si + 2] ELSE SpikeEntry
NextIsBound    == Len(spike) > 1

IsWriteOf(commit, entry) ==
  commit.reg = entry.target_reg /\ commit.val = entry.reg_val

\* Mutants: no reordering; a swap that overwrites.
NeverReordered(cs) == cs
ReorderedByOverwriting(cs) ==
  IF /\ ci + 1 < Len(cs)
     /\ IsWriteOf(cs[ci + 2], SpikeEntry)
     /\ IsWriteOf(cs[ci + 1], NextSpikeEntry)
  THEN [cs EXCEPT ![ci + 1] = cs[ci + 2]]
  ELSE cs

\* reorder_superscalar_commits.  Swapping two equal commits changes nothing, and
\* is left out: src then says which of them was consumed.
Reordered(cs) ==
  IF /\ ci + 1 < Len(cs)
     /\ IsWriteOf(cs[ci + 2], SpikeEntry)
     /\ IsWriteOf(cs[ci + 1], NextSpikeEntry)
     /\ ~IsWriteOf(cs[ci + 1], SpikeEntry)
  THEN [cs EXCEPT ![ci + 1] = cs[ci + 2], ![ci + 2] = cs[ci + 1]]
  ELSE cs

\* jal and jalr take the next commit as it comes.
ForWriteBack ==
  IF Fetch.instr.kind = "jump" THEN WithInserted ELSE Reordered(WithInserted)

\* The bytes of a bus word that a store of this width at this address writes,
\* moved down to byte 0: (word >> 8 * (addr & 3)) & mask.
StoredBytes(kind, word, addr) ==
  LET shift == addr % 4
  IN  [b \in 0..3 |-> IF b < Width(kind) /\ b + shift <= 3 THEN word[b + shift] ELSE 0]

BareRow == [pc |-> Fetch.pc, instr |-> Fetch.instr,
            target_reg |-> None, reg_val |-> None, mem_addr |-> None, mem_val |-> None,
            speculative_fetch |-> FALSE, speculative_commit |-> FALSE,
            at |-> si + 1, src |-> 0]

Emit(row) ==
  /\ final' = Append(final, row)
  /\ nonspec' = IF row.speculative_fetch THEN nonspec ELSE Append(nonspec, row)

\* Leaving the loop, by its condition or by a break.
LeaveLoop == phase' = "compare" /\ UNCHANGED <<input, cmpVars>>

EndOfSpike ==
  /\ phase = "generate" /\ si >= Len(spike)
  /\ LeaveLoop /\ UNCHANGED genVars

\* Mutant: the break is forgotten.
OutOfFetchesKeepsLooping ==
  phase = "generate" /\ si < Len(spike) /\ fi >= Len(fetches) /\ UNCHANGED vars

OutOfFetches ==
  /\ phase = "generate" /\ si < Len(spike) /\ fi >= Len(fetches)
  /\ LeaveLoop /\ UNCHANGED genVars

\* Mutant: the row is not marked.
SpeculativeFetchUnmarked ==
  /\ InLoop /\ ~PcMatches
  /\ spike' = ReadFiltered
  /\ Emit(BareRow)
  /\ fi' = fi + 1
  /\ UNCHANGED <<input, phase, fetches, commits, mems, ci, mi, si, spike_regfile, cmpVars>>

SpeculativeFetch ==
  /\ InLoop /\ ~PcMatches
  /\ spike' = ReadFiltered
  /\ Emit([BareRow EXCEPT !.speculative_fetch = TRUE])
  /\ fi' = fi + 1
  /\ UNCHANGED <<input, phase, fetches, commits, mems, ci, mi, si, spike_regfile, cmpVars>>

\* The top of an iteration that found the fetch Spike is waiting for.
Matched(kinds) ==
  /\ InLoop /\ PcMatches
  /\ Fetch.instr.kind \in kinds
  /\ spike' = ReadFiltered

\* Mutant: a commit is consumed whether or not there is one.
FetchOnlyConsuming ==
  /\ Matched(Writers \cup {"branch", "fence"})
  /\ Fetch.instr.kind \in Writers => Fetch.instr.rd = 0
  /\ commits' = WithInserted
  /\ Emit([BareRow EXCEPT !.speculative_commit = Fetch.instr.kind \in Writers /\ Repeated])
  /\ fi' = fi + 1 /\ si' = si + 1 /\ ci' = ci + 1
  /\ UNCHANGED <<input, phase, fetches, mems, mi, spike_regfile, cmpVars>>

\* branches and fences; loads, arithmetic and jumps whose rd is x0
FetchOnly ==
  /\ Matched(Writers \cup {"branch", "fence"})
  /\ Fetch.instr.kind \in Writers => Fetch.instr.rd = 0
  /\ commits' = WithInserted
  /\ Emit([BareRow EXCEPT !.speculative_commit = Fetch.instr.kind \in Writers /\ Repeated])
  /\ fi' = fi + 1 /\ si' = si + 1
  /\ UNCHANGED <<input, phase, fetches, mems, ci, mi, spike_regfile, cmpVars>>

\* loads, arithmetic and jumps that write a register
WriteBack ==
  /\ Matched(Writers) /\ Fetch.instr.rd # 0
  /\ ci < Len(WithInserted)
  /\ Fetch.instr.kind # "jump" => NextIsBound
  /\ SpikeEntry.target_reg # None
  /\ commits' = ForWriteBack
  /\ LET c == ForWriteBack[ci + 1]
     IN  Emit([BareRow EXCEPT !.target_reg = c.reg, !.reg_val = c.val, !.src = c.src,
                              !.speculative_commit = Repeated])
  /\ fi' = fi + 1 /\ ci' = ci + 1 /\ si' = si + 1
  /\ spike_regfile' = [spike_regfile EXCEPT ![SpikeEntry.target_reg] = SpikeEntry.reg_val]
  /\ UNCHANGED <<input, phase, fetches, mems, mi, cmpVars>>

OutOfCommits ==
  /\ Matched(Writers) /\ Fetch.instr.rd # 0
  /\ ci >= Len(WithInserted)
  /\ LeaveLoop
  /\ UNCHANGED <<fetches, commits, mems, fi, ci, mi, si, spike_regfile, final, nonspec>>

Store ==
  /\ Matched(Stores)
  /\ mi < Len(mems)
  /\ ReadFiltered[si + 1].mem_addr # None
  /\ LET addr    == SpikeEntry.mem_addr
         aligned == mems[mi + 1].addr + (addr % 4)
     IN  /\ mems' = [mems EXCEPT ![mi + 1].addr = aligned]
         /\ Emit([BareRow EXCEPT
                    !.mem_addr = aligned,
                    !.mem_val  = StoredBytes(Fetch.instr.kind, mems[mi + 1].val, addr),
                    !.src      = mi + 1])
  /\ commits' = WithInserted
  /\ fi' = fi + 1 /\ mi' = mi + 1 /\ si' = si + 1
  /\ UNCHANGED <<input, phase, fetches, ci, spike_regfile, cmpVars>>

OutOfAccesses ==
  /\ Matched(Stores)
  /\ mi >= Len(mems)
  /\ commits' = WithInserted
  /\ LeaveLoop
  /\ UNCHANGED <<fetches, mems, fi, ci, mi, si, spike_regfile, final, nonspec>>

\* Anything the decoder does not know is skipped in both traces, and its row is
\* marked as a speculative fetch.
UnknownInstruction ==
  /\ Matched({"other"})
  /\ commits' = WithInserted
  /\ Emit([BareRow EXCEPT !.speculative_fetch = TRUE])
  /\ fi' = fi + 1 /\ si' = si + 1
  /\ UNCHANGED <<input, phase, fetches, mems, ci, mi, spike_regfile, cmpVars>>

\* The exceptions the loop can raise: next_spike_entry used before it is bound,
\* spike_regfile indexed by None, None & 3.  The process ends.
GenerateRaises ==
  /\ InLoop /\ PcMatches
  /\ \/ /\ Fetch.instr.kind \in Writers /\ Fetch.instr.rd # 0
        /\ ci < Len(WithInserted)
        /\ \/ Fetch.instr.kind # "jump" /\ ~NextIsBound
           \/ SpikeEntry.target_reg = None
     \/ /\ Fetch.instr.kind \in Stores /\ mi < Len(mems)
        /\ ReadFiltered[si + 1].mem_addr = None
  /\ phase' = "crashed"
  /\ UNCHANGED <<input, genVars, cmpVars>>

-----------------------------------------------------------------------------
(* compare_traces *)

IsLoad(entry) == entry.instr.kind = "load"

\* Before dut_entry is bound to this iteration's row, a load clears mem_addr of
\* the row it still names: the one of the previous iteration, which the report
\* holds too when it mismatched (dut_entry = "reported").
ClearedReport ==
  IF IsLoad(spike[cmp + 1]) /\ dut_entry = "reported"
  THEN [mismatches EXCEPT ![Len(mismatches)].dut.mem_addr = None]
  ELSE mismatches

Comparing == phase = "compare" /\ cmp < Len(spike)

CompareEqual ==
  /\ Comparing /\ cmp < Len(nonspec)
  /\ IsLoad(spike[cmp + 1]) => dut_entry # "unbound"
  /\ Strip(nonspec[cmp + 1]) = spike[cmp + 1]
  /\ mismatches' = ClearedReport
  /\ dut_entry' = "private"
  /\ cmp' = cmp + 1
  /\ UNCHANGED <<input, phase, genVars>>

CompareDifferent ==
  /\ Comparing /\ cmp < Len(nonspec)
  /\ IsLoad(spike[cmp + 1]) => dut_entry # "unbound"
  /\ Strip(nonspec[cmp + 1]) # spike[cmp + 1]
  /\ mismatches' = Append(ClearedReport, [spike |-> spike[cmp + 1],
                                          dut   |-> Strip(nonspec[cmp + 1])])
  /\ dut_entry' = "reported"
  /\ cmp' = cmp + 1
  /\ UNCHANGED <<input, phase, genVars>>

CompareOutOfEntries ==
  /\ Comparing /\ cmp >= Len(nonspec)
  /\ mismatches' = Append(mismatches, [spike |-> spike[cmp + 1], dut |-> EmptyEntry])
  /\ phase' = "done"
  /\ UNCHANGED <<input, genVars, cmp, dut_entry>>

CompareEnd ==
  /\ phase = "compare" /\ cmp >= Len(spike)
  /\ phase' = "done"
  /\ UNCHANGED <<input, genVars, cmpVars>>

\* dut_entry used before it is bound
CompareRaises ==
  /\ Comparing /\ cmp < Len(nonspec)
  /\ IsLoad(spike[cmp + 1]) /\ dut_entry = "unbound"
  /\ phase' = "crashed"
  /\ UNCHANGED <<input, genVars, cmpVars>>

Generate ==
  \/ EndOfSpike \/ OutOfFetches \/ OutOfCommits \/ OutOfAccesses
  \/ SpeculativeFetch \/ FetchOnly \/ WriteBack \/ Store \/ UnknownInstruction
  \/ GenerateRaises

Compare ==
  \/ CompareEqual \/ CompareDifferent \/ CompareOutOfEntries
  \/ CompareEnd \/ CompareRaises

Next == Generate \/ Compare

\* One thread runs the script to its end.
Spec == Init /\ [][Next]_vars /\ WF_vars(Next)

-----------------------------------------------------------------------------
(* Properties *)

\* The type invariant.  The DUT's fetches are never edited, every cursor stays
\* within its trace, and a row is reported before it is remembered as such.
TypeOK ==
  /\ input \in [spike : Seq(Entry), dut : Fragment] /\ IsTrace(input.spike)
  /\ phase \in {"generate", "compare", "done", "crashed"}
  /\ spike \in Seq(Entry)
  /\ fetches = input.dut.fetches
  /\ commits \in Seq(Commit)
  /\ mems \in Seq(Access)
  /\ fi \in 0..Len(fetches) /\ ci \in 0..Len(commits)
  /\ mi \in 0..Len(mems)    /\ si \in 0..Len(spike)
  /\ spike_regfile \in [Reg -> Value]
  /\ final \in Seq(Row) /\ nonspec \in Seq(Row)
  /\ cmp \in 0..Len(spike)
  /\ dut_entry \in {"unbound", "private", "reported"}
  /\ mismatches \in Seq([spike : Entry, dut : Reported])
  /\ dut_entry = "reported" => mismatches # << >>

Passed == phase = "done" /\ mismatches = << >>

\* No silent pass, registers.  When the comparison reports nothing, every write
\* Spike made was either invisible (the register already held the value) or the
\* DUT committed it: a commit of the DUT with this register and this value,
\* and no commit of the DUT vouches for two writes.
WritesBacked ==
  Passed =>
    /\ \A k \in 1..Len(spike) :
         LET e == spike[k]
             j == nonspec[k].src
         IN  e.target_reg # None =>
               \/ j = 0 /\ ValueBefore(spike, e.target_reg, k, e.reg_val)
               \/ /\ j \in 1..Len(input.dut.commits)
                  /\ input.dut.commits[j] = [reg |-> e.target_reg, val |-> e.reg_val]
    /\ \A k, m \in 1..Len(spike) :
         /\ spike[k].target_reg # None /\ spike[m].target_reg # None
         /\ k # m /\ nonspec[k].src # 0
         => nonspec[k].src # nonspec[m].src

\* No silent pass, memory.  When the comparison reports nothing, the stores of
\* Spike are the first accesses of the DUT, in order: same word, same bytes.
StoresBacked ==
  Passed =>
    \A k \in 1..Len(spike) :
      LET e == spike[k]
          j == nonspec[k].src
      IN  e.instr.kind \in Stores =>
            /\ j \in 1..Len(input.dut.mems)
            /\ input.dut.mems[j].addr + (e.mem_addr % 4) = e.mem_addr
            /\ StoredBytes(e.instr.kind, input.dut.mems[j].val, e.mem_addr) = e.mem_val
            /\ \A i \in 1..(j - 1) : \E m \in 1..(k - 1) :
                 spike[m].instr.kind \in Stores /\ nonspec[m].src = i

\* No silent pass: both.
PassesAreBacked == WritesBacked /\ StoresBacked

\* No false alarm.  The fragment of a correct execution of instructions the
\* decoder knows passes, whatever was fetched in vain, however often a register
\* was written with the value it held, and in whichever order the two commits of
\* a cycle were seen.
NoFalseAlarm ==
  /\ phase = "done"
  /\ Correct(input.spike, input.dut)
  /\ \A k \in 1..Len(input.spike) : input.spike[k].instr.kind # "other"
  => mismatches = << >>

\* "If the fragmented trace is correct, the final trace will also be" (README).
CorrectFragmentPasses ==
  phase = "done" /\ Correct(input.spike, input.dut) => mismatches = << >>

\* What has been reported of the DUT stays what the DUT did: "DUT final trace does
\* not show memory address for load instructions" (the comment on the clearing)
\* is about loads, and a reported store keeps its address.
ReportsKept ==
  [][\A k \in 1..Len(mismatches) : mismatches'[k] = mismatches[k]]_vars

\* Every Spike entry that was passed has one row to be compared with, the one that
\* was generated for it, as long as the decoder knew every instruction.
RowsAligned ==
  (\A k \in 1..fi : fetches[k].instr.kind # "other") =>
    Len(nonspec) = si /\ \A k \in 1..si : nonspec[k].at = k

\* Reordering and inserting never lose a commit of the DUT, never duplicate one,
\* and never touch one already consumed.
CommitsKept ==
  \A j \in 1..Len(input.dut.commits) :
    \E k \in 1..Len(commits) :
      /\ commits[k].src = j
      /\ [reg |-> commits[k].reg, val |-> commits[k].val] = input.dut.commits[j]
      /\ \A m \in 1..Len(commits) : commits[m].src = j => m = k

ConsumedCommitsFixed ==
  [][\A k \in 1..ci : commits'[k] = commits[k]]_vars

\* The script ends: each turn of the loops consumes a fetch or an entry.
Terminates == <>(phase \in {"done", "crashed"})

=============================================================================
