------------------------------ MODULE Collector ------------------------------
(***************************************************************************)
(* exec_trace.py: the cocotb test that runs a processor on a simulated     *)
(* memory and collects the fragments of its execution.                     *)
(*                                                                         *)
(* Coroutines run to their next await, one at a time, in any order within  *)
(* a time step.  A cycle has two time steps, the rising and the falling    *)
(* edge of sys_clk; awaiting is what a coroutine waits for, "edge" for     *)
(* RisingEdge and "step" for the NextTimeStep after it, and due is the set *)
(* of coroutines whose event has come and that have not run yet.  The      *)
(* ReadWrite awaited after each event only lets signals settle.            *)
(*                                                                         *)
(* The processor is external.  It steps at the rising edge, on what it was *)
(* given before; its outputs are registered, so they hold for the cycle.   *)
(***************************************************************************)
EXTENDS TraceFormat, FiniteSets

CONSTANTS Programs,     \* what the processor may be given to execute
          Configs,      \* the flags of the processor's two JSON files
          MemWords,     \* MEM_SIZE
          ResetCycles,  \* edges from the start of the memory to the release of reset
          Timeout,      \* SIMULATION_TIMEOUT_CYCLES
          RetireWidth,  \* instructions the processor retires in a cycle, at most
          Strays        \* cycles the processor's bus may be idle or used for nothing

\* A program: the golden trace of its execution, its .text and .data sections by
\* address, the address of tohost, and what the registers hold at reset.
IsProgram(p) ==
  /\ DOMAIN p = {"trace", "text", "data", "tohost", "regs"}
  /\ IsTrace(p.trace) /\ p.trace # << >>
  /\ DOMAIN p.text \subseteq Nat /\ Range(p.text) \subseteq Instr /\ DOMAIN p.text # {}
  /\ IsFiniteSet(DOMAIN p.text)
  /\ DOMAIN p.data \subseteq Nat /\ Range(p.data) \subseteq Word /\ DOMAIN p.data # {}
  /\ p.tohost \in Nat /\ p.regs \in [Reg -> Value]

Config  == [TWO_PORTED_MEMORY_MODEL : BOOLEAN, REGFILE_ARRAY_AVAILABLE : BOOLEAN,
            BYTE_ALIGNED_MEMORY_ACCESS : BOOLEAN]

ASSUME SizesAssumption ==
  /\ MemWords \in Nat \ {0} /\ ResetCycles \in Nat \ {0} /\ Timeout \in Nat \ {0}
  /\ RetireWidth \in Nat \ {0} /\ Strays \in Nat
  /\ Configs \subseteq Config
  /\ \A p \in Programs : IsProgram(p)
  /\ IsFiniteSet(Reg) /\ 1 \in Byte

VARIABLES config, program,
          clk, due, awaiting,
          rst_n, bus, ack, data_in,         \* signals
          memory,                           \* by port: two memories, or one
          raw_addr, write_value,            \* locals of the memory coroutines
          fetches, regfile_commits, mem_access,
          main, cycles, old_regfile, reg_file,
          fetched, executed, retired, strays, wport,  \* the processor
          blurred     \* history: a cycle's changes could not be told apart

simVars == <<clk, due, awaiting>>
memVars == <<memory, raw_addr, write_value, ack, data_in, fetches, mem_access>>
mainVars == <<main, cycles, old_regfile, regfile_commits, rst_n>>
cpuVars == <<bus, reg_file, fetched, executed, retired, strays, wport, blurred>>
vars == <<config, program, simVars, memVars, mainVars, cpuVars>>

Ports == IF config.TWO_PORTED_MEMORY_MODEL THEN {"core", "data_mem"} ELSE {"core"}
DataPort == IF config.TWO_PORTED_MEMORY_MODEL THEN "data_mem" ELSE "core"

NoRequest == [cyc |-> FALSE, we |-> FALSE, addr |-> 0, sel |-> {},
              data_out |-> [b \in 0..3 |-> 0], for |-> "nothing"]

\* The write port of the register file: write_enable, write_addr, write_data.
NoWrite == [enable |-> FALSE, reg |-> 0, val |-> 0]

\* The word a memory is filled with, the word 1, and the words of a program.
Fill == [b \in 0..3 |-> 0]
One  == [b \in 0..3 |-> IF b = 0 THEN 1 ELSE 0]
Cell == Word \cup Instr

\* (raw_addr // 4) % MEM_SIZE
Simulated(addr) == (addr \div 4) % MemWords

\* The words of a section go to consecutive places of the list, from the one its
\* start address selects: (start_address % memory_size) // 4.
Start(section) == CHOOSE a \in DOMAIN section : \A b \in DOMAIN section : a <= b
Place(section, a) == (Start(section) % MemWords) \div 4 + (a - Start(section)) \div 4
Placed(section, memories) ==
  [w \in DOMAIN memories |->
     IF \E a \in DOMAIN section : Place(section, a) = w
     THEN section[CHOOSE a \in DOMAIN section : Place(section, a) = w] ELSE memories[w]]

\* load_memory, load_data_memory
LoadedDataMemory(p) == Placed(p.data, [w \in 0..(MemWords - 1) |-> Fill])
LoadedMemory(p) == Placed(p.data, Placed(p.text, [w \in 0..(MemWords - 1) |-> Fill]))

\* An address past the instructions, for a write to the instruction memory.
Outside(p) == Start(p.text) + 4 * Cardinality(DOMAIN p.text)

\* A program linked for the memory: no two of its words share a place in it, its
\* trace runs its own code and stores into its own data, and tohost, which does not
\* hold 1 yet, is only stored to whole.
WordAt(addr) == addr - (addr % 4)
Linked(p) ==
  /\ \A a \in DOMAIN p.text \cup DOMAIN p.data : a % 4 = 0
  /\ \A a, b \in DOMAIN p.text \cup DOMAIN p.data \cup {Outside(p)} :
       Simulated(a) = Simulated(b) => a = b
  /\ DOMAIN p.text \cap DOMAIN p.data = {} /\ Outside(p) \notin DOMAIN p.text
  /\ p.tohost \in DOMAIN p.data /\ p.data[p.tohost] # One
  /\ \A k \in DOMAIN p.trace :
       LET e == p.trace[k]
       IN  /\ e.pc \in DOMAIN p.text /\ p.text[e.pc] = e.instr
           /\ e.instr.kind \in Stores \cup {"load"} => e.mem_addr \in Nat
           /\ e.instr.kind \in Stores =>
                /\ WordAt(e.mem_addr) \in DOMAIN p.data
                /\ WordAt(e.mem_addr) = p.tohost =>
                     e.instr.kind = "sw" /\ e.mem_addr = p.tohost

ASSUME ProgramsAssumption == \A p \in Programs : Linked(p)

Init ==
  /\ config \in Configs /\ program \in Programs
  /\ clk = "low" /\ due = {}
  /\ awaiting = [c \in Ports \cup {"main"} |-> "edge"]
  /\ rst_n = FALSE
  /\ bus = [p \in Ports |-> NoRequest]
  /\ ack = [p \in Ports |-> FALSE] /\ data_in = [p \in Ports |-> Fill]
  /\ memory = [p \in Ports |-> IF p = "core" THEN LoadedMemory(program) ELSE LoadedDataMemory(program)]
  /\ raw_addr = [p \in Ports |-> 0] /\ write_value = [p \in Ports |-> None]
  /\ fetches = << >> /\ regfile_commits = << >> /\ mem_access = << >>
  /\ main = "reset" /\ cycles = 0
  /\ reg_file = IF config.REGFILE_ARRAY_AVAILABLE THEN program.regs ELSE [r \in Reg |-> 0]
  /\ old_regfile = reg_file
  /\ fetched = 0 /\ executed = 0 /\ retired = 0 /\ strays = 0
  /\ wport = NoWrite /\ blurred = FALSE

Running == main \in {"reset", "loop"}

-----------------------------------------------------------------------------
(* The memory coroutines.  memory_model, of a processor with one port, and *)
(* data_memory_model only differ in that the former records fetches.       *)

Resume(c, event) == Running /\ c \in due /\ awaiting[c] = event /\ due' = due \ {c}

InstructionOnly(p) == p = "core" /\ config.TWO_PORTED_MEMORY_MODEL

\* The bytes of a cell: the four of a word; those of an instruction are not told apart.
BytesOf(cell) == IF Cardinality(DOMAIN cell) = 4 THEN cell ELSE Fill

\* lb and lh of some processors expect the data at the least significant byte.
Shifted(cell, n) ==
  IF n = 0 THEN cell ELSE [b \in 0..3 |-> IF b + n <= 3 THEN BytesOf(cell)[b + n] ELSE 0]

\* Mutant: the acknowledgement is left as it is.
NoTransactionKeepsAck(p) ==
  /\ Resume(p, "edge") /\ ~bus[p].cyc
  /\ UNCHANGED <<config, program, clk, awaiting, memory, raw_addr, write_value, data_in, ack,
                 fetches, mem_access, mainVars, cpuVars>>

NoTransaction(p) ==
  /\ Resume(p, "edge") /\ ~bus[p].cyc
  /\ ack' = [ack EXCEPT ![p] = FALSE]
  /\ UNCHANGED <<config, program, clk, awaiting, memory, raw_addr, write_value, data_in,
                 fetches, mem_access, mainVars, cpuVars>>

Transaction(p) ==
  /\ Resume(p, "edge") /\ bus[p].cyc
  /\ InstructionOnly(p) => ~bus[p].we
  /\ raw_addr' = [raw_addr EXCEPT ![p] = bus[p].addr]
  /\ LET cell  == memory[p][Simulated(bus[p].addr)]
         shift == IF config.BYTE_ALIGNED_MEMORY_ACCESS /\ ~InstructionOnly(p)
                  THEN bus[p].addr % 4 ELSE 0
     IN  data_in' = [data_in EXCEPT ![p] = Shifted(cell, shift)]
  /\ awaiting' = [awaiting EXCEPT ![p] = "step"]
  /\ UNCHANGED <<config, program, clk, memory, write_value, ack, fetches, mem_access,
                 mainVars, cpuVars>>

\* "Write to the instruction memory. Possible error."
InstructionWrite(p) ==
  /\ Resume(p, "edge") /\ bus[p].cyc
  /\ InstructionOnly(p) /\ bus[p].we
  /\ memory' = [memory EXCEPT ![p][Simulated(bus[p].addr)] = bus[p].data_out]
  /\ ack' = [ack EXCEPT ![p] = TRUE]
  /\ UNCHANGED <<config, program, clk, awaiting, raw_addr, write_value, data_in, fetches,
                 mem_access, mainVars, cpuVars>>

Answered(p) ==
  /\ Resume(p, "step")
  /\ ack' = [ack EXCEPT ![p] = TRUE]
  /\ awaiting' = [awaiting EXCEPT ![p] = "edge"]
  /\ UNCHANGED <<config, program, clk, raw_addr, data_in, mainVars, cpuVars>>

\* Mutant: whether reset is released is read before the await, when it was not yet.
AnswerReadEarlyReset(p) ==
  /\ Answered(p) /\ ~bus[p].we
  /\ fetches' = IF /\ p = "core" /\ rst_n /\ cycles > 1
                   /\ raw_addr[p] \in DOMAIN program.text
                THEN Append(fetches, [pc    |-> raw_addr[p],
                                      instr |-> memory[p][Simulated(raw_addr[p])]])
                ELSE fetches
  /\ UNCHANGED <<memory, write_value, mem_access>>

\* It is only a fetch if it is reading the .text section.
AnswerRead(p) ==
  /\ Answered(p) /\ ~bus[p].we
  /\ fetches' = IF p = "core" /\ rst_n /\ raw_addr[p] \in DOMAIN program.text
                THEN Append(fetches, [pc    |-> raw_addr[p],
                                      instr |-> memory[p][Simulated(raw_addr[p])]])
                ELSE fetches
  /\ UNCHANGED <<memory, write_value, mem_access>>

Strobes == {0..3, {0, 1}, {2, 3}, {0}, {1}, {2}, {3}}

Merged(cell, request) ==
  [b \in 0..3 |-> IF b \in request.sel THEN request.data_out[b] ELSE BytesOf(cell)[b]]

\* Mutant: an unknown strobe is recorded even if no write came before it.
AnswerWriteUnbound(p) ==
  /\ Answered(p) /\ bus[p].we
  /\ LET known == bus[p].sel \in Strobes
         w     == Simulated(raw_addr[p])
         value == IF known THEN Merged(memory[p][w], bus[p]) ELSE write_value[p]
     IN  /\ write_value' = [write_value EXCEPT ![p] = value]
         /\ memory' = IF known THEN [memory EXCEPT ![p][w] = value] ELSE memory
         /\ mem_access' = Append(mem_access, [addr |-> raw_addr[p], val |-> value])
  /\ UNCHANGED fetches

\* A strobe the chain of comparisons does not know leaves write_value as it was.
AnswerWrite(p) ==
  /\ Answered(p) /\ bus[p].we
  /\ LET known == bus[p].sel \in Strobes
         w     == Simulated(raw_addr[p])
         value == IF known THEN Merged(memory[p][w], bus[p]) ELSE write_value[p]
     IN  /\ value # None
         /\ write_value' = [write_value EXCEPT ![p] = value]
         /\ memory' = IF known THEN [memory EXCEPT ![p][w] = value] ELSE memory
         /\ mem_access' = Append(mem_access, [addr |-> raw_addr[p], val |-> value])
  /\ UNCHANGED fetches

\* write_value was never bound: the coroutine raises, and the test with it.
AnswerRaises(p) ==
  /\ Resume(p, "step") /\ bus[p].we
  /\ bus[p].sel \notin Strobes /\ write_value[p] = None
  /\ main' = "failed"
  /\ UNCHANGED <<config, program, clk, awaiting, memVars, cycles, old_regfile,
                 regfile_commits, rst_n, cpuVars>>

MemoryModel(p) ==
  \/ NoTransaction(p) \/ Transaction(p) \/ InstructionWrite(p)
  \/ AnswerRead(p) \/ AnswerWrite(p) \/ AnswerRaises(p)

-----------------------------------------------------------------------------
(* execution_trace, from the start of the memory on *)

\* The registers of a set in the order of their numbers.
InOrder(regs) ==
  CHOOSE s \in [1..Cardinality(regs) -> regs] : \A i, j \in DOMAIN s : i < j => s[i] < s[j]

\* The registers that changed since the last cycle, by number; or what the write
\* port shows.
PortWrites == wport.enable /\ wport.reg # 0
Seen(old) ==
  IF config.REGFILE_ARRAY_AVAILABLE
  THEN LET changed == InOrder({r \in Reg \ {0} : reg_file[r] # old[r]})
       IN  [k \in DOMAIN changed |-> [reg |-> changed[k], val |-> reg_file[changed[k]]]]
  ELSE IF PortWrites THEN <<[reg |-> wport.reg, val |-> wport.val]>> ELSE << >>

\* The register file after that: a signal, or the object that stands for it.
RegFile ==
  IF ~config.REGFILE_ARRAY_AVAILABLE /\ PortWrites
  THEN [reg_file EXCEPT ![wport.reg] = wport.val] ELSE reg_file

\* Mutant: the word is looked for in the instruction memory.
ToHostOfCore == memory["core"][Simulated(program.tohost)]

ToHost == memory[DataPort][Simulated(program.tohost)]

\* Mutant: the registers are remembered before they are compared.
IterateForgetful(old) ==
  /\ regfile_commits' = regfile_commits \o Seen(reg_file)
  /\ reg_file' = RegFile
  /\ IF ToHost = One
     THEN main' = "stopped" /\ UNCHANGED <<old_regfile, cycles>>
     ELSE main' = "loop" /\ old_regfile' = RegFile /\ cycles' = cycles + 1

\* One turn of the main loop, up to its await or its break.
Iterate(old) ==
  /\ regfile_commits' = regfile_commits \o Seen(old)
  /\ reg_file' = RegFile
  /\ IF ToHost = One
     THEN main' = "stopped" /\ UNCHANGED <<old_regfile, cycles>>
     ELSE main' = "loop" /\ old_regfile' = RegFile /\ cycles' = cycles + 1

MainOnly ==
  UNCHANGED <<config, program, clk, awaiting, memVars, bus, fetched, executed, retired,
              strays, wport, blurred>>

WaitForReset ==
  /\ Resume("main", "edge") /\ main = "reset" /\ cycles + 1 < ResetCycles
  /\ cycles' = cycles + 1
  /\ MainOnly /\ UNCHANGED <<main, old_regfile, regfile_commits, rst_n, reg_file>>

\* Reset is released, the register file is read, and the loop is entered; cycles
\* counts its turns from here on.
ReleaseReset ==
  /\ Resume("main", "edge") /\ main = "reset" /\ cycles + 1 = ResetCycles
  /\ rst_n' = TRUE
  /\ regfile_commits' = regfile_commits \o Seen(reg_file)
  /\ reg_file' = RegFile /\ old_regfile' = RegFile
  /\ main' = (IF ToHost = One THEN "stopped" ELSE "loop") /\ cycles' = 1
  /\ MainOnly

Collect ==
  /\ Resume("main", "edge") /\ main = "loop" /\ cycles < Timeout
  /\ Iterate(old_regfile)
  /\ MainOnly /\ UNCHANGED rst_n

TimeOut ==
  /\ Resume("main", "edge") /\ main = "loop" /\ cycles = Timeout
  /\ main' = "timeout"
  /\ MainOnly /\ UNCHANGED <<cycles, old_regfile, regfile_commits, rst_n, reg_file>>

-----------------------------------------------------------------------------
(* The processor: an in-order pipeline that fetches ahead, makes one access *)
(* at a time, and retires up to RetireWidth instructions in a cycle.        *)

Step(k) == program.trace[k]
Accesses(k) == Step(k).instr.kind \in Stores \cup {"load"}

Fetching(addr, reason) == [NoRequest EXCEPT !.cyc = TRUE, !.addr = addr, !.for = reason]
Stray(addr) == [Fetching(addr, "nothing") EXCEPT !.we = TRUE, !.sel = 0..3]

\* The address of a load or a store on the bus is that of its word, unless the
\* processor wants the bytes moved down; a store drives its byte lanes only.
Accessing(k) ==
  LET e     == Step(k)
      shift == e.mem_addr % 4
      lanes == {b \in 0..3 : shift <= b /\ b < shift + Width(e.instr.kind)}
      isStore == e.instr.kind \in Stores
  IN  [cyc |-> TRUE, we |-> isStore,
       addr |-> IF config.BYTE_ALIGNED_MEMORY_ACCESS THEN e.mem_addr ELSE e.mem_addr - shift,
       sel |-> lanes,
       data_out |-> [b \in 0..3 |-> IF isStore /\ b \in lanes THEN e.mem_val[b - shift] ELSE 1],
       for |-> "access"]

Done(p, reason) == ack[p] /\ bus[p].cyc /\ bus[p].for = reason
Free(p)   == ack[p] \/ ~bus[p].cyc
ResetStep ==
  /\ ~rst_n
  /\ \E request \in {NoRequest, Fetching(Step(1).pc, "fetch")} :
       bus' = [bus EXCEPT !["core"] = request]
  /\ UNCHANGED <<reg_file, fetched, executed, retired, strays, wport, blurred>>

\* Instructions lo..hi may retire in one cycle.
MayRetire(lo, hi) ==
  hi <= lo \/ (config.REGFILE_ARRAY_AVAILABLE /\ hi - lo < RetireWidth)

\* The register file then hides one of their changes, or shows a jump's with the next
\* one's, which the comparison does not take for those of one cycle.
Blurs(lo, hi) ==
  \E k \in lo..(hi - 1) : /\ Step(k).target_reg # None
                          /\ ~SameCycle(program.trace, k, k + 1)

Retire(to) ==
  LET writes(r) == {k \in (retired + 1)..to : Step(k).target_reg = r}
  IN  /\ retired' = to
      /\ IF config.REGFILE_ARRAY_AVAILABLE
         THEN /\ reg_file' = [r \in Reg |-> IF writes(r) = {} THEN reg_file[r]
                                            ELSE Step(Max(writes(r))).reg_val]
              /\ UNCHANGED wport
         ELSE /\ wport' = IF to > retired /\ Step(to).target_reg # None
                         THEN [enable |-> TRUE, reg |-> Step(to).target_reg,
                               val |-> Step(to).reg_val]
                         ELSE NoWrite
              /\ UNCHANGED reg_file

\* What the processor asks of a port next, for its program; or for nothing, a
\* bounded number of times.
Wanted(p) ==
  {Fetching(Step(k).pc, "fetch") : k \in IF p = "core" /\ fetched' < Len(program.trace)
                                         THEN {fetched' + 1} ELSE {}}
    \cup {Accessing(k) : k \in {j \in {executed' + 1} \cap (1..fetched') :
                                  p = DataPort /\ Accesses(j) /\ executed' - retired' <= 1}}
ForNothing(p) ==
  {NoRequest}
    \cup (IF p = "core" THEN {Fetching(addr, "nothing") : addr \in DOMAIN program.text} ELSE {})
    \cup (IF InstructionOnly(p) THEN {Stray(Outside(program))} ELSE {})
Requests(p) ==
  Wanted(p) \cup (IF strays < Strays THEN ForNothing(p) ELSE {})
    \cup (IF Wanted(p) = {} THEN {NoRequest} ELSE {})

RunStep ==
  /\ rst_n
  /\ fetched' = IF Done("core", "fetch") THEN fetched + 1 ELSE fetched
  /\ LET accessed == Done(DataPort, "access")
     IN  /\ \E n \in 0..1 :
              /\ n = 1 => IF accessed THEN TRUE
                          ELSE executed + 1 <= fetched /\ ~Accesses(executed + 1)
              /\ accessed => n = 1
              /\ executed' = executed + n
         /\ \E to \in retired..executed :
              /\ MayRetire(retired + 1, to)
              /\ accessed => to = executed
              /\ Retire(to)
              /\ blurred' = (blurred \/ Blurs(retired + 1, to))
  /\ bus' \in {b \in [Ports -> UNION {Requests(p) \cup {bus[p]} : p \in Ports}] :
                 \A p \in Ports : IF Free(p) THEN b[p] \in Requests(p) ELSE b[p] = bus[p]}
  /\ strays' = IF \E p \in Ports : /\ Free(p) /\ bus'[p].for = "nothing"
                                   /\ bus'[p].cyc \/ Wanted(p) # {}
               THEN strays + 1 ELSE strays

-----------------------------------------------------------------------------
RisingEdge ==
  /\ Running /\ clk = "low" /\ due = {}
  /\ clk' = "high"
  /\ due' = {c \in DOMAIN awaiting : awaiting[c] = "edge"}
  /\ ResetStep \/ RunStep
  /\ UNCHANGED <<config, program, awaiting, memVars, mainVars>>

FallingEdge ==
  /\ Running /\ clk = "high" /\ due = {}
  /\ clk' = "low"
  /\ due' = {c \in DOMAIN awaiting : awaiting[c] = "step"}
  /\ UNCHANGED <<config, program, awaiting, memVars, mainVars, cpuVars>>

Main == WaitForReset \/ ReleaseReset \/ Collect \/ TimeOut

Next == RisingEdge \/ FallingEdge \/ Main \/ \E p \in Ports : MemoryModel(p)

Spec == Init /\ [][Next]_vars

-----------------------------------------------------------------------------
(* Properties *)

\* The type invariant.
TypeOK ==
  /\ config \in Configs /\ program \in Programs
  /\ clk \in {"low", "high"} /\ due \subseteq DOMAIN awaiting
  /\ awaiting \in [Ports \cup {"main"} -> {"edge", "step"}]
  /\ rst_n \in BOOLEAN /\ ack \in [Ports -> BOOLEAN]
  /\ data_in \in [Ports -> Cell]
  /\ memory \in [Ports -> [0..(MemWords - 1) -> Cell]]
  /\ raw_addr \in [Ports -> Nat] /\ write_value \in [Ports -> Word \cup {None}]
  /\ fetches \in Seq([pc : Nat, instr : Cell])
  /\ regfile_commits \in Seq(Write) /\ mem_access \in Seq(Access)
  /\ main \in {"reset", "loop", "stopped", "timeout", "failed"}
  /\ cycles \in 0..(IF ResetCycles > Timeout THEN ResetCycles ELSE Timeout)
  /\ old_regfile \in [Reg -> Value] /\ reg_file \in [Reg -> Value]
  /\ 0 <= retired /\ retired <= executed /\ executed <= fetched
  /\ fetched <= Len(program.trace) /\ strays \in 0..Strays
  /\ wport \in [enable : BOOLEAN, reg : Reg, val : Value] /\ blurred \in BOOLEAN

\* Every store of the program is one of the byte, half or word of its bus.
AlignedStores ==
  \A k \in 1..Len(program.trace) :
    Step(k).instr.kind \in Stores => Step(k).mem_addr % Width(Step(k).instr.kind) = 0

\* The sections are read where load_memory puts them when they end within the memory
\* and start in the first MEM_SIZE bytes of it: a quarter.
Fits(section) ==
  /\ Start(section) % (4 * MemWords) < MemWords
  /\ \A a \in DOMAIN section : Place(section, a) < MemWords

ZeroAtReset == \A r \in Reg : program.regs[r] = 0

\* The store of 1 to tohost is the last step of the trace.
EndsAtToHost ==
  \A k \in 1..Len(program.trace) :
    Step(k).instr.kind \in Stores /\ Step(k).mem_addr = program.tohost /\ Step(k).mem_val = One
    => k = Len(program.trace)

\* The fragment of a correct processor is correct: what the comparison of traces
\* takes a fragment for, unless a change was undone or overwritten within its cycle,
\* which no coroutine can see.  Reset, fetches in vain, loads from the code, two
\* retirements in a cycle and the cycle the store to tohost stops the simulation
\* in lose nothing and add nothing but fetches.
FragmentCorrect ==
  /\ main = "stopped"
  /\ config.REGFILE_ARRAY_AVAILABLE /\ ~config.BYTE_ALIGNED_MEMORY_ACCESS
  /\ AlignedStores /\ ZeroAtReset /\ Fits(program.text) /\ Fits(program.data)
  /\ EndsAtToHost /\ RetireWidth <= 2 /\ ~blurred
  => Correct(program.trace,
             [fetches |-> fetches, commits |-> regfile_commits, mems |-> mem_access])

\* Replaying the commits over the registers as reset left them gives the register
\* file last seen: no change is missed, made up or recorded out of order.  And every
\* word of the program holds what the ELF file says, every word of data what the
\* last access to it wrote: sections are found where they are looked for, strobes
\* touch their bytes only, and each write is recorded as it was made.
CommitsTo(r)  == {k \in 1..Len(regfile_commits) : regfile_commits[k].reg = r}
AccessesTo(a) == {k \in 1..Len(mem_access) : WordAt(mem_access[k].addr) = a}

CommitsReplay ==
  LET atReset == IF config.REGFILE_ARRAY_AVAILABLE THEN program.regs ELSE [r \in Reg |-> 0]
      seen    == IF main = "stopped" THEN reg_file ELSE old_regfile
  IN  \A r \in Reg \ {0} :
        seen[r] = IF CommitsTo(r) = {} THEN atReset[r]
                  ELSE regfile_commits[Max(CommitsTo(r))].val
AccessesReplay ==
  AlignedStores /\ Fits(program.text) /\ Fits(program.data) =>
    /\ \A a \in DOMAIN program.text : memory["core"][Simulated(a)] = program.text[a]
    /\ \A a \in DOMAIN program.data :
         memory[DataPort][Simulated(a)] =
           IF AccessesTo(a) = {} THEN program.data[a] ELSE mem_access[Max(AccessesTo(a))].val
FragmentReplays == CommitsReplay /\ AccessesReplay

\* "Load the memory contents from the .text and .data sections" (load_memory):
\* as long as nothing was written, what is read at an address is what the ELF file
\* has there.
ImageServed ==
  mem_access = << >> =>
    /\ \A a \in DOMAIN program.text : memory["core"][Simulated(a)] = program.text[a]
    /\ \A a \in DOMAIN program.data : memory[DataPort][Simulated(a)] = program.data[a]

\* At the rising edge every request of the cycle before has its acknowledgement
\* and, if it reads, the word that is in the memory now; a port without a request
\* has none.
RequestsAnswered ==
  Running /\ clk = "low" /\ due = {} /\ cycles > 0 =>
    \A p \in Ports :
      /\ ack[p] = bus[p].cyc
      /\ bus[p].cyc /\ ~bus[p].we =>
           LET cell == memory[p][Simulated(bus[p].addr)]
           IN  data_in[p] = IF config.BYTE_ALIGNED_MEMORY_ACCESS /\ ~InstructionOnly(p)
                            THEN Shifted(cell, bus[p].addr % 4) ELSE cell

\* The store to tohost ends the simulation in the cycle after it, and nothing else
\* ends it as a success.
Stored == \E k \in 1..Len(mem_access) :
            mem_access[k] = [addr |-> program.tohost, val |-> One]
StopsAtToHost ==
  Fits(program.text) /\ Fits(program.data) =>
    /\ clk = "high" /\ "main" \notin due /\ Stored => ~Running
    /\ main = "stopped" => Stored

=============================================================================
