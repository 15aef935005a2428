---------------------------- MODULE MCComparator ----------------------------
(***************************************************************************)
(* Small traces of a golden execution, the fragments a correct DUT leaves  *)
(* of them, and fragments with one defect.                                 *)
(***************************************************************************)
EXTENDS Comparator, FiniteSets

CONSTANT Depth    \* length of the traces over FewSteps

\* What one instruction does: its class, the register and value it writes (the
\* value 0 for x0 stands for no write), the byte address a store touches.
Step(kind, rd, val, addr) == [kind |-> kind, rd |-> rd, val |-> val, addr |-> addr]

AllSteps ==
  {Step(k, 0, 0, 0) : k \in Writers}
    \cup {Step(k, r, v, 0) : k \in Writers, r \in {1, 2}, v \in {0, 1}}
    \cup {Step("sb", 0, 1, 1), Step("sh", 0, 1, 6), Step("sw", 0, 1, 4),
          Step("branch", 0, 0, 0), Step("fence", 0, 0, 0),
          Step("other", 0, 0, 0), Step("other", 1, 1, 0)}

FewSteps ==
  {Step("reg", 0, 0, 0), Step("reg", 1, 0, 0), Step("reg", 1, 1, 0), Step("reg", 2, 1, 0),
   Step("load", 1, 1, 0), Step("jump", 2, 1, 0), Step("sb", 0, 1, 1), Step("sw", 0, 0, 4)}

\* A jump skips the next instruction; in a looping trace every other instruction
\* is at the same place.
PcOf(steps, k) ==
  LET jumps == Cardinality({j \in 1..(k - 1) : steps[j].kind = "jump"})
  IN  4 * (k - 1 + jumps)

EntryOf(s, pc) ==
  LET writes == s.rd # 0
  IN  [pc |-> pc, instr |-> [kind |-> s.kind, rd |-> s.rd],
       target_reg |-> IF writes THEN s.rd ELSE None,
       reg_val    |-> IF writes THEN s.val ELSE None,
       mem_addr   |-> IF s.kind \in Stores \cup {"load"} THEN s.addr ELSE None,
       mem_val    |-> IF s.kind \in Stores
                      THEN [b \in 0..3 |-> IF b < Width(s.kind) THEN s.val ELSE 0]
                      ELSE None]

Straight(steps) == [k \in 1..Len(steps) |-> EntryOf(steps[k], PcOf(steps, k))]
Looping(steps)  == [k \in 1..Len(steps) |-> EntryOf(steps[k], 4 * ((k - 1) % 2))]
OneProgram(t)   == \A j, k \in 1..Len(t) : t[j].pc = t[k].pc => t[j].instr = t[k].instr

TracesOver(S, n) == {Straight(steps) : steps \in [1..n -> S]}
LoopsOver(S, n)  == {t \in {Looping(steps) : steps \in [1..n -> S]} : OneProgram(t)}

AllTraces == TracesOver(AllSteps, 1) \cup TracesOver(AllSteps, 2)
            \cup TracesOver(FewSteps, Depth) \cup LoopsOver(FewSteps, Depth)

-----------------------------------------------------------------------------
FetchOf(e)    == [pc |-> e.pc, instr |-> e.instr]
FetchesOf(t)  == [k \in 1..Len(t) |-> FetchOf(t[k])]
Nop(pc)       == [pc |-> pc, instr |-> [kind |-> "reg", rd |-> 0]]

\* The instruction after a jump is fetched as well; every fetch happens twice.
WithFallThrough(t) ==
  FlattenSeq([k \in 1..Len(t) |-> IF t[k].instr.kind = "jump"
                                  THEN <<FetchOf(t[k]), Nop(t[k].pc + 4)>>
                                  ELSE <<FetchOf(t[k])>>])
Replayed(t) == FlattenSeq([k \in 1..Len(t) |-> <<FetchOf(t[k]), FetchOf(t[k])>>])

CommitsOf(t) ==
  LET w == SetToSortSeq(ChangingWrites(t), <)
  IN  [k \in 1..Len(w) |-> [reg |-> t[w[k]].target_reg, val |-> t[w[k]].reg_val]]
AccessOf(e, rest) ==
  LET shift == e.mem_addr % 4
  IN  [addr |-> e.mem_addr - shift,
       val  |-> [b \in 0..3 |-> IF shift <= b /\ b < shift + Width(e.instr.kind)
                                THEN e.mem_val[b - shift] ELSE rest]]
AccessesOf(t, rest) ==
  LET w == SetToSortSeq(StoresOf(t), <) IN [k \in 1..Len(w) |-> AccessOf(t[w[k]], rest)]

Swapped(s, k) == [s EXCEPT ![k] = s[k + 1], ![k + 1] = s[k]]
Orders(cs) == {cs} \cup {Swapped(cs, k) : k \in 1..(Len(cs) - 1)}

Base(t) == [fetches |-> FetchesOf(t), commits |-> CommitsOf(t), mems |-> AccessesOf(t, 1)]

Sound(t) ==
  {[fetches |-> fs, commits |-> cs, mems |-> ms] :
     fs \in {FetchesOf(t), WithFallThrough(t), Replayed(t)},
     cs \in Orders(CommitsOf(t)), ms \in {AccessesOf(t, 0), AccessesOf(t, 1)}}

Without(s, k) == RemoveAt(s, k)

Defective(t) ==
  LET b == Base(t)
  IN  {[b EXCEPT !.commits[k].val = 1 - @] : k \in 1..Len(b.commits)}
        \cup {[b EXCEPT !.commits = Without(@, k)] : k \in 1..Len(b.commits)}
        \cup {[b EXCEPT !.commits = InsertAt(@, k, [reg |-> 1, val |-> v])] :
                k \in 1..(Len(b.commits) + 1), v \in {0, 1}}
        \cup {[b EXCEPT !.mems[k].addr = @ + 4] : k \in 1..Len(b.mems)}
        \cup {[b EXCEPT !.mems[k].val[1] = 1 - @] : k \in 1..Len(b.mems)}
        \cup {[b EXCEPT !.mems = Without(@, k)] : k \in 1..Len(b.mems)}
        \cup {[b EXCEPT !.fetches[k].pc = @ + 1] : k \in 1..Len(b.fetches)}
        \cup {[b EXCEPT !.fetches = Without(@, k)] : k \in 1..Len(b.fetches)}
        \cup {[b EXCEPT !.fetches[k].instr.kind = kind] :
                k \in 1..Len(b.fetches), kind \in {"reg", "sw", "branch"}}

AllFragments(t) == Sound(t) \cup Defective(t)

=============================================================================
