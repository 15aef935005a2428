----------------------------- MODULE TraceFormat -----------------------------
(***************************************************************************)
(* What the tools hand each other: the trace of Spike (the dictionaries    *)
(* spike_trace.py makes of its log) and the fragmented trace of the        *)
(* processor under test (the three lists exec_trace.py writes), and when a *)
(* fragment records a correct execution of a trace.                        *)
(*                                                                         *)
(* Instructions are reduced to what compare_traces.py decodes: the class   *)
(* the opcode (and, for stores, funct3) selects and the rd field.  A       *)
(* memory word is its four bytes.                                          *)
(***************************************************************************)
EXTENDS Integers, Sequences, SequencesExt

CONSTANTS Reg,      \* register numbers, 0 (the hardwired zero) among them
          Value,    \* values of a register, 0 (its initial value) among them
          Byte,     \* values of a byte of memory, 0 among them
          None      \* Python's None

Writers == {"load", "reg", "jump"}
Stores  == {"sb", "sh", "sw"}
Kinds   == Writers \cup Stores \cup {"branch", "fence", "other"}
Instr   == [kind : Kinds, rd : Reg]
Word    == [0..3 -> Byte]

Entry == [pc : Nat, instr : Instr,
          target_reg : Reg \cup {None}, reg_val : Value \cup {None},
          mem_addr : Nat \cup {None},   mem_val : Word \cup {None}]

Write  == [reg : Reg, val : Value]
Access == [addr : Nat, val : Word]
Fragment == [fetches : Seq([pc : Nat, instr : Instr]),
             commits : Seq(Write),
             mems    : Seq(Access)]

\* The number of bytes a store writes.
Width(kind) == IF kind = "sb" THEN 1 ELSE IF kind = "sh" THEN 2 ELSE 4

\* What --log-commits prints of an instruction: the register it writes, never
\* x0; the address of a load; the address of a store and the bytes it stores.
LoggedBySpike(e) ==
  /\ e.target_reg # 0
  /\ (e.target_reg = None) <=> (e.reg_val = None)
  /\ e.instr.kind \in Writers => e.target_reg = IF e.instr.rd = 0 THEN None ELSE e.instr.rd
  /\ e.instr.kind \in Writers \cup {"branch", "fence"} => e.mem_val = None
  /\ e.instr.kind \in Stores =>
       /\ e.mem_addr # None /\ e.mem_val # None
       /\ \A b \in Width(e.instr.kind)..3 : e.mem_val[b] = 0
  /\ e.instr.kind \in Stores \cup {"branch", "fence"} => e.target_reg = None

IsTrace(t) == t \in Seq(Entry) /\ \A k \in 1..Len(t) : LoggedBySpike(t[k])

ASSUME NoneAssumption  == None \notin Int /\ None \notin Word
ASSUME RegAssumption   == Reg \subseteq Nat /\ 0 \in Reg
ASSUME ValueAssumption == Value \subseteq Nat /\ 0 \in Value
ASSUME ByteAssumption  == Byte \subseteq Nat /\ 0 \in Byte

-----------------------------------------------------------------------------
\* The golden value of register r before entry k of a trace: what the last write
\* to r before k wrote, or 0.
WritesBefore(trace, r, k) == {j \in 1..Len(trace) : j < k /\ trace[j].target_reg = r}
ValueBefore(trace, r, k, v) ==
  \/ WritesBefore(trace, r, k) = {} /\ v = 0
  \/ \E j \in WritesBefore(trace, r, k) :
       /\ \A m \in WritesBefore(trace, r, k) : m <= j
       /\ trace[j].reg_val = v

\* A fragment that records a correct execution of the program in trace: every
\* executed instruction was fetched, among other fetches of the same program;
\* the commits are the writes that changed a register, two writes of one cycle
\* in either order; the accesses are the stores.
ChangingWrites(trace) ==
  {k \in 1..Len(trace) :
     /\ trace[k].target_reg # None
     /\ ~ValueBefore(trace, trace[k].target_reg, k, trace[k].reg_val)}

StoresOf(trace) == {k \in 1..Len(trace) : trace[k].instr.kind \in Stores}

FetchesCorrect(trace, fs) ==
  /\ \A f \in 1..Len(fs) : fs[f].pc % 2 = 0
  /\ \A f \in 1..Len(fs), k \in 1..Len(trace) :
       fs[f].pc = trace[k].pc => fs[f].instr = trace[k].instr
  /\ \E pos \in [1..Len(trace) -> 1..Len(fs)] :
       /\ \A k \in 1..(Len(trace) - 1) : pos[k] < pos[k + 1]
       /\ \A k \in 1..Len(trace) : fs[pos[k]].pc = trace[k].pc

\* Two neighbours in the trace may retire in one cycle, unless the first is a jump.
SameCycle(trace, k, m) ==
  /\ m = k + 1
  /\ trace[k].instr.kind # "jump"
  /\ trace[k].target_reg # trace[m].target_reg

CommitsCorrect(trace, cs) ==
  \E of \in [1..Len(cs) -> 1..Len(trace)] :
    /\ \A k \in 1..Len(trace) :
         k \in ChangingWrites(trace) <=> \E j \in 1..Len(cs) : of[j] = k
    /\ \A j \in 1..Len(cs) : cs[j] = [reg |-> trace[of[j]].target_reg,
                                     val |-> trace[of[j]].reg_val]
    /\ \A i, j \in 1..Len(cs) :
         i < j => of[i] < of[j] \/ (j = i + 1 /\ SameCycle(trace, of[j], of[i]))

\* A store that crosses a word would be two accesses.
AccessesCorrect(trace, ms) ==
  \E of \in [1..Len(ms) -> 1..Len(trace)] :
    /\ \A k \in 1..Len(trace) :
         k \in StoresOf(trace) <=> \E j \in 1..Len(ms) : of[j] = k
    /\ \A i, j \in 1..Len(ms) : i < j => of[i] < of[j]
    /\ \A j \in 1..Len(ms) :
         LET e      == trace[of[j]]
             offset == e.mem_addr % 4
         IN  /\ offset + Width(e.instr.kind) <= 4
             /\ ms[j].addr = e.mem_addr - offset
             /\ \A b \in 0..(Width(e.instr.kind) - 1) :
                  ms[j].val[b + offset] = e.mem_val[b]

Correct(trace, dut) ==
  /\ FetchesCorrect(trace, dut.fetches)
  /\ CommitsCorrect(trace, dut.commits)
  /\ AccessesCorrect(trace, dut.mems)

=============================================================================
