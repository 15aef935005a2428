---------------------------- MODULE MCCollector ----------------------------
(***************************************************************************)
(* Short programs that end with the store to tohost, on processors with    *)
(* one memory port or two and with either view of the register file.       *)
(***************************************************************************)
EXTENDS Collector

Ins(kind, rd) == [kind |-> kind, rd |-> rd]
Bytes(width, val) == [b \in 0..3 |-> IF b < width THEN val ELSE 0]

\* One instruction of a program: what it decodes to and what it does.
Writing(kind, r, v)  == [instr |-> Ins(kind, r), reg |-> r, val |-> v, addr |-> None]
Loading(r, v, a)     == [instr |-> Ins("load", r), reg |-> r, val |-> v, addr |-> a]
Storing(kind, a, v)  == [instr |-> Ins(kind, 0), reg |-> None, val |-> v, addr |-> a]
Branching            == [instr |-> Ins("branch", 0), reg |-> None, val |-> None, addr |-> None]

\* Where a program is linked: its code at Base, a word of data, tohost.
CONSTANTS Base, DataAt, ToHostAt

EntryOf(s, pc) ==
  LET isStore == s.instr.kind \in Stores
  IN  [pc |-> pc, instr |-> s.instr, target_reg |-> s.reg,
       reg_val |-> IF isStore THEN None ELSE s.val, mem_addr |-> s.addr,
       mem_val |-> IF isStore THEN IF s.addr = ToHostAt THEN One
                                   ELSE Bytes(Width(s.instr.kind), s.val)
                   ELSE None]

\* The last instruction of the code is never executed: it follows the store.
ProgramOf(steps, regs) ==
  LET all == Append(steps, Storing("sw", ToHostAt, 1))
      n   == Len(all)
  IN  [trace  |-> [k \in 1..n |-> EntryOf(all[k], Base + 4 * (k - 1))],
       text   |-> [a \in {Base + 4 * (k - 1) : k \in 1..(n + 1)} |->
                     IF a = Base + 4 * n THEN Ins("jump", 0)
                     ELSE all[((a - Base) \div 4) + 1].instr],
       data   |-> (DataAt :> [b \in 0..3 |-> IF b = 3 THEN 1 ELSE 0]) @@ (DataAt + 4 :> Fill),
       tohost |-> ToHostAt, regs |-> regs]

Zeros == [r \in Reg |-> 0]
Ones  == [r \in Reg |-> IF r = 0 THEN 0 ELSE 1]

ProgramSet ==
  {ProgramOf(steps, Zeros) : steps \in
     {<<Writing("reg", 2, 1), Writing("reg", 1, 1)>>,
      <<Writing("reg", 1, 1), Writing("reg", 1, 0)>>,
      <<Writing("reg", 1, 0), Loading(2, 1, DataAt)>>,
      <<Storing("sb", DataAt + 1, 1), Loading(1, 1, DataAt + 1)>>,
      <<Storing("sh", DataAt + 1, 1)>>,
      <<Storing("sb", DataAt, 1), Storing("sh", DataAt + 1, 1)>>,
      <<Loading(1, 1, Base), Branching>>,
      <<Writing("jump", 1, 1), Storing("sw", DataAt, 1)>>}}
    \cup {ProgramOf(<<Writing("reg", 2, 1), Writing("reg", 1, 0)>>, Ones)}

ConfigSet ==
  {c \in Config : c.BYTE_ALIGNED_MEMORY_ACCESS =>
                    c.REGFILE_ARRAY_AVAILABLE /\ c.TWO_PORTED_MEMORY_MODEL}

=============================================================================
