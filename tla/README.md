# Formal models of processor_ci_verification

This repository checks RISC-V processors by running one program twice: on the
processor under test (the DUT), simulated with cocotb, and on a bundled fork of
Spike, the golden model. `exec_trace.py` collects *fragments* of the DUT's
execution, `spike_trace.py` runs Spike and parses its log, and
`compare_traces.py` merges both into a final trace and reports the mismatches.
The verdict is only as good as these programs, so they are what is specified
here: the Python tools, and the parts of Spike whose order of events decides
what the golden trace is.

`S/` below stands for `src/spike_fork/riscv-isa-sim_gabpgomes/`.

## 1. Inventory

### The tools (`src/*.py`)

| Component | State | Operations | Talks to |
|---|---|---|---|
| Trace comparator, `compare_traces.py` | the Spike trace, the three lists of a fragment, four cursors, Spike's register file, the final trace, the mismatches | `generate_final_trace`, `reorder_superscalar_commits`, `compare_traces` | reads the JSON files of the other two |
| Collector, `exec_trace.py` | the memories (Python lists), the signals of the bus, three growing lists, the last register file, a cycle counter | three memory coroutines, `execution_trace` | drives and samples the DUT; coroutines share the lists, the memories and `rst_n` |
| ELF image, `elf_reader.py` | none after loading | `load_memory`, `load_data_memory`, section bounds, tohost | fills the collector's memories |
| Spike log parser, `spike_trace.py` | the parsed trace | run Spike, parse, cut at tohost | writes the golden trace |
| Configuration and command lines | flags, read once | - | choose the collector's mode |

What is hard there: the merge consumes lists *while it inserts into them and
reorders them*, driven by a register file that is only right if every earlier
choice was; the collector's coroutines resume in any order within a time step
and read signals after an `await` that other coroutines wrote; and exceptions
end a whole batch.

What makes them correct: a correct fragment passes; a row that passes is backed
by a commit or an access of the DUT; commits are neither lost nor made up by the
reordering; the collector records every change exactly once, whatever the order
of the coroutines; the run ends, and ends as a success only at the program's
store to `tohost`.

### The golden model (`S/`)

| Component | State | Operations | Talks to |
|---|---|---|---|
| Host-target interface, `fesvr/htif.cc`, `device.cc`, `syscall.cc` | `tohost`, `fromhost` and its queue, pending terminal reads, the exit code, the signal flag | `htif_t::run`, command dispatch, `tick`, signals, `sim_t::idle` with the instruction limit | the program, through two words of memory; the terminal; the scheduler |
| Scheduler, `riscv/sim.cc` | whose turn, how far | `step`, `idle` | calls the harts, ticks the devices |
| Hart, `riscv/execute.cc`, `processor.cc` | pc, mode, `mstatus`, `mie`, `mip`, WFI, registers | `step`, traps, interrupts, `mret` | memory, devices; other harts through them |
| CLINT, `riscv/clint.cc` | `mtime`, `mtimecmp`, `msip` | stores, `tick` | writes `mip` of every hart |
| PLIC, `riscv/plic.cc` | priorities, lines, and per context enable, pending, claimed, threshold | register accesses, `set_interrupt_level` | devices raise lines; writes `mip` |
| Serial port, `riscv/ns16550.cc` | the receive queue, line status, control registers, the requested interrupt, a backoff counter | register accesses, `tick` | the terminal; raises and lowers a PLIC line |
| MMU, `riscv/mmu.cc`, `mmu.h` | three TLBs with tags, the instruction cache, a trigger match that waits | walks, slow and fast accesses, flushes | reads the page table from memory; asks the PMP and the triggers; flushed by CSR writes, traps, `xret`, fences |
| PMP, `riscv/csrs.cc`, `mmu.cc` | `pmpaddr`, `pmpcfg`, `mseccfg` with locks | register writes, `pmp_ok`, `pmp_homogeneous` | asked by the MMU for accesses, walks and refills |
| Triggers, `riscv/triggers.cc`; other CSRs, `riscv/csrs.cc` | `tdata1`, `tdata2`; masks and permissions | writes, matches | set the check flags of the MMU; flush it |
| Debug module, `riscv/debug_module.cc`, `jtag_dtm.cc`, `debug_rom.S` | `dmcontrol`, hart states, abstract commands, program buffer | DMI accesses, debug-ROM accesses, JTAG | halts, resumes and resets harts, if its ROM could be reached (section 5) |
| Cache simulator, bus, console, loaders | see `PROJECT.json` | | |

What is hard there: Spike has one thread, but it interleaves harts in turns, the
host with the machine, and callbacks of devices with instructions; much of its
state is a *copy* of something else (`mip` bits, the priority of a pending
interrupt, the answer in `fromhost` and the queue behind it, a
translation in a TLB, an instruction in the cache) that every operation must keep
up to date; and correctness of LR/SC rests on the schedule alone.

Every component, modelled or not and why, is listed in `PROJECT.json` under
`components`; the places where this code could go wrong in ways a test would
hardly reach are under `hazards`.

## 2. Modules

| Module | Extends / instances | What it is |
|---|---|---|
| `TraceFormat` | community modules | the data the tools exchange, and when a fragment records a correct execution of a trace |
| `Comparator` | `TraceFormat` | `compare_traces.py` |
| `Collector` | `TraceFormat` | `exec_trace.py` and the loaders, with an abstract processor |
| `HostInterface` | - | abstract: what the host-target interface promises a program |
| `Htif` | instance of `HostInterface` | `htif_t::run`, the devices, `sim_t::idle` |
| `Plic` | - | `plic.cc` |
| `Machine` | - | `sim_t::step`, `processor_t::step`, traps and interrupts, `clint.cc`, reservations |
| `Ns16550` | - | `ns16550.cc`, the serial port |
| `Console` | instances of `Ns16550`, `Plic` | the serial port wired to the controller, and the software that uses both |
| `Pmp` | - | physical memory protection: the registers, their locks, the decisions |
| `Mmu` | `Pmp` | `mmu.cc`, `mmu.h`, and the CSR writes, traps, fences and triggers that concern its caches |
| `MCx` | `x` | the instance of `x` that TLC checks |
| `xProofs` | `x`, `TLAPS` | theorems about `x`; `ConsoleProofs` also instantiates `PlicProofs` |
| `VerdictProofs` | `ComparatorProofs` | what the verdict of the comparison means, with and without a mismatch |

`TraceFormat` is where the two halves of the Python tools meet: `Collector`
*establishes* `Correct(trace, fragment)` for a correct processor
(`FragmentCorrect`), and `Comparator` *assumes* it (`NoFalseAlarm`). What one
promises is literally what the other takes for granted.

Just above some actions stands a variant of them whose name tells the bug
(`PollWithoutClearing`, `RaiseAfresh`, `EndCallByWork`, ...). No specification
uses them: put in the place of the action that follows, each makes TLC find one
of the properties violated, which shows that the property depends on that line
of code. `PROJECT.json` pairs them under `mutants`.

### Comparator

State: `spike`, `fetches`, `commits` and `mems`, the lists as the loop edits them;
the cursors `si`, `fi`, `ci`, `mi`; the register file `spike_regfile`; the final
trace; then the cursor, the bound row and the report of `compare_traces`. One
action is one iteration of the merge, split by the branch it takes: `SpeculativeFetch`, `FetchOnly` (branches, fences), `WriteBack`,
`Store`, `UnknownInstruction`, the exits `EndOfSpike`, `OutOfFetches`,
`OutOfCommits`, `OutOfAccesses`, and the exception `GenerateRaises`; then
`CompareEqual`, `CompareDifferent`, `CompareOutOfEntries`, `CompareEnd` and
`CompareRaises`. `WriteBack` contains the whole chain of its branch: the repeated
write that is inserted at the cursor, the swap of two commits, and the update of
the register file. An instruction is reduced to its class and `rd`; a word is
four bytes, because stores select and shift bytes.

### Collector

A cycle has two time steps. `due` holds the coroutines whose event has come and
that have not run; any of them may be next, so every order cocotb may choose is
explored. `Transaction` and `AnswerRead`/`AnswerWrite` are the code before and
after the `await` of a memory coroutine; what is read after the await is read in
the second action. `WaitForReset`, `ReleaseReset`, `Collect` and `TimeOut` are the
main coroutine. The processor is external: an in-order pipeline with registered
outputs that fetches ahead, makes accesses for nothing, stalls, retires up to
`RetireWidth` instructions in a cycle and shows its registers as an array or as a write
port (`wport`). A program is what a linker makes (`Linked`): its words do not share a place
in the memory, its trace runs its own code and stores into its own data, and `tohost`,
which does not hold 1 at first, is only stored to whole.

`FragmentCorrect` has the conditions of the code among its hypotheses: sections that are
found where they are looked for (`Fits`; `collector_image` shows what happens otherwise),
stores aligned to their size, a register file in view that is zero at reset, a program
that ends with its store to `tohost` (`EndsAtToHost`), at most two retirements in a
cycle, and no cycle whose changes cannot be told apart (`blurred`): the collector compares
the register file once a cycle, so of two changes of one register in a cycle it records the
last, or none if that undoes the first. The processor does this in the model, and TLC finds
`FragmentCorrect` violated without the condition; `FragmentReplays` has no such condition,
the commits then still add up to the register file. With three retirements, the commits of a cycle could come in an order that is no swap of
neighbours, which is all that `reorder_superscalar_commits` undoes.

### Htif

`pc` is where the host's thread is in the loop: `Poll` (take and dispatch the
command, or call idle), `IdleEnds`, `Tick`, `Deliver`, `Stop`. The program runs
only during `idle`; `Send` and `Take` are what it may do to the two words.
`Signal` (a SIGTERM, or an abort, which ends the process at once) and `Type` (external: a
user of the terminal) happen at any time. Commands are told apart by what dispatch
does with them, not by device and number.

### Plic

One action per register access with an effect (`PriorityWrite`, `EnableWrite`,
`ThresholdWrite`, `ClaimRead`, `Complete`) and `Raise`/`Lower` for
`set_interrupt_level`. Each access ends with `ContextUpdate`, as in the code.
`Scan` is the code's loop over the sources, checked against the declarative
`MostUrgent`; the actions use the latter.

### Machine

`Start` is a call of `sim_t::step`, `EndCall` what it does when
`processor_t::step` returns (the cut of the call, the yield of the reservation,
the rotation, the clock tick); `Check`, `Wait` and one action per kind of
instruction are `processor_t::step`. Instructions are told apart by what they do
to the shared state: enabling and pending interrupts, sleeping, returning from
traps, storing to the CLINT, LR, SC and plain stores. A program is any sequence
of the kinds its hart uses (`program`, chosen at the start).

### Ns16550 and Console

`Ns16550` has one action per access with an effect on what is received or
requested, and three for the tick: it backs off (`TickWaits`), finds nothing, or
takes a character (`TickReceives`). Where the code calls `update_interrupt`, the
action does. `Console` instantiates the port and `Plic` over its own variables;
`set_interrupt_level` is the call from one to the other, and happens in the step
of the access or the tick. The software is external: either `Anything` (every
access to either device at any time) or a driver in the manner of an operating
system, which turns the FIFO on, programs the controller, waits for its
interrupt, claims it, reads while the line status says that data is ready, and
completes.

### Pmp and Mmu

An address is a page and the offset of a word; memory is a function from words to
page table entries, as every word may be read as one. `walk` and `pmp_ok` are
relations, not steps: they say to which frame the code's walk would lead *now*.
`tlb` holds the valid entries of the three TLBs, each with its tag `checked`
(`TLB_CHECK_TRIGGERS`), and `icache` the cached instructions. `Fetch`, `Load`,
`Store` and `Probe` (the store that starts an AMO and writes nothing) hit a cache or take the
slow path, `Reach`: a tagged hit, or a walk and a refill. `Break` and `Fault` are
the exceptions of the same paths, in the code's order of checks, and end in
`TakeTrap`. `Mret`, `Sret`, `SfenceVma`, `FenceI` and the register writes are the
instructions that change what a cached entry rests on; each contains the flush the
code makes, or leaves out the flush the code leaves out. `WritePmpcfg` writes the
four bytes of a register, each accepted or not on its own.

`written` and `iwritten` are history variables: the words stored to since the TLBs,
or the instruction cache, were emptied. The architecture allows a stale entry
exactly for those, so `CachesAreFresh` excuses them and nothing else.

A program is the image in memory, the addresses the software touches and the values it
may write to each register; what it does with them, in what order and in which
mode, is free.

## 3. What TLC checks

| Run | Instance | What it shows |
|---|---|---|
| `comparator` | all traces of one and two instructions of every class, all of three over a subset, loops included; for each, the fragments of a correct DUT (stray and repeated fetches, commits of a cycle in either order, any bytes in the unused lanes) and every fragment with one defect | a correct fragment of decoded instructions never yields a mismatch (`NoFalseAlarm`); when nothing is reported, every visible write and every store of Spike was made by the DUT, and no commit vouches for two (`PassesAreBacked`); every Spike entry passed has its own row (`RowsAligned`); the commits are kept, the consumed ones fixed (`CommitsKept`, `ConsumedCommitsFixed`); both loops end (`Terminates`) |
| `collector` | nine programs, five configurations, one cycle of stall or stray access, dual retirement (of two writes of one register too), timeout 7 | `FragmentCorrect`, and what it rests on: commits replay to the register file and accesses to the memory (`FragmentReplays`), every request is answered in its cycle with the word that is there (`RequestsAnswered`), the store to tohost stops the run and nothing else ends it as a success (`StopsAtToHost`) |
| `htif` | three commands out of seven, two typed characters, limit off or 2 | no command lost or dispatched twice (`CommandsKept`), characters pair with reads in order (`CharactersKept`), an exit is final and ends the run (`ExitIsFinal`, `ExitEnds`), answers arrive (`AnswersArrive`), and the loop implements `HostInterface` (`KeepsPromise`) |
| `plic` | two sources in different enable words, two contexts, 2-bit priorities | the interrupt bit never lags behind the registers (`LineFollowsRegisters`), the code's scan finds the most urgent source (`ScanFindsMostUrgent`), claims survive what they must (`ClaimsArePending`, `ClaimEndsAtHome`), an unshared source is level-triggered (`UnsharedIsLevelTriggered`) |
| `machine` | two harts, turns of two instructions, calls of one and two, five pairs of programs | timer bits follow the clock, no reservation outlives a foreign write, interrupts are taken as soon as enabled, rounds are fair, sleepers wake (`SleepersWake`: by a deadline too) |
| `console` | a queue of two, four typed characters, two values; one source and one context | queue, line status, requested interrupt and controller line agree after every step of any software (`LineFollowsCauses`); the port's queue keeps within its size and a driver gets the characters in order (`CharactersInOrder`), and gets them all (`CharactersArrive`) |
| `mmu` | pages of two words, four pages and frames, two PMP entries, TLBs of two, an instruction cache of four, four programs | nothing cached outlives what it rests on (`CachesAreFresh`), outside M-mode no access uses MPP (`MprvOnlyInMachine`), a locked PMP entry keeps its words and permissions (`LocksHold`), no watched access takes the path that asks no trigger (`TriggersAreChecked`), and a match that waits is raised at the next fetch (`PendingTriggersAreTaken`) |

The five runs that end in a violation check one promise of the repository each
and show where the code breaks it; `PROJECT.json` quotes the promise under
`findings`:

- `comparator_correct`: an instruction the decoder does not know (a CSR access,
  `mret`) leaves a row marked speculative, and a correct fragment fails. (`ecall`
  does not do so: it traps, and Spike logs no commit for it.)
- `comparator_reports`: a load clears the memory address of the row *before* it,
  which may already be in the report. By the same line, a trace that starts with a
  load raises `UnboundLocalError` (`CompareRaises`).
- `collector_image`: sections that start past the first quarter of the memory are
  loaded where the memory coroutines do not look.
- `plic_level`: a source enabled in two contexts stays pending in the second when
  its line falls.
- `mmu_triggers`: an instruction that was cached while its trigger was inhibited
  (M-mode with MIE clear) is executed without a breakpoint after MIE is set: the
  write of `mstatus` flushes nothing.

### Bounds, and why they are enough

- Comparator: an iteration looks at two neighbours of the Spike trace, two
  commits, one fetch and one access, so every choice it can face occurs within
  three entries; two registers besides x0, two values and two values per byte
  tell a wrong register, value or byte apart. The fourth entry of a trace could
  only repeat what the first left behind in the register file, the cursors and
  the list, and the proofs cover any length for the properties about commits.
- Collector: two memory coroutines and the main one in every order, in every
  cycle of programs of three instructions; the interesting overlaps (reset
  released in the cycle of an answer, the store to tohost in the cycle of a
  retirement) need one cycle each. 32 words make the sections wrap as in the real
  memory. The timeout 7 lets some programs end and cuts others.
- Htif: three commands are a read that waits, another command answered before
  it, and an exit; two characters fill two reads or stay behind. A limit of 2
  expires before, between or after them.
- Mmu: a table of two entries reaches every shape of a walk (superpage, leaf, a
  pointer, nothing) and lets a program map its own table; two pages compete for a place in a TLB of
  two and two words for one in the instruction cache. Two PMP entries are the
  least with a priority, with a lower end that is another entry's address, and with
  a page protected in part. Each of the four programs of `MCMmu` uses one part of the
  machine in full: `Pager` edits its page table and its code, `Supervisor` plays
  with SUM, MXR and MPRV, `Monitor` locks parts of a page, `Debugged` watches its
  own accesses. The proofs cover any sizes and programs.
- Plic: two sources give a tie, a winner from either side of the scan and
  the two enable words; two contexts are the least that can share. The constraint
  `Bounded` fixes only what the other context or source repeats.
- Machine: a turn of two instructions can be cut in the middle; a clock that
  stops at 1 tells "before", "at" and "never" apart for every deadline. The same
  properties were seen to hold with turns of three, calls of three and a
  clock to 2 (1.2 million states), which is too slow to be kept with liveness.
  The proofs cover any sizes.

- Console: a queue of two is empty, partly full and full, with one more character
  waiting in the terminal (`MaxWaiting`) and one to come; a backoff of three has
  a first, a middle and a last tick. What is typed is recorded for the driver
  only. One source and one context suffice here, as `plic` covers the others.

### Fairness

- `Comparator`: weak fairness of `Next`: one Python thread runs a loop.
- `Collector`, `Plic` and `Mmu` have no liveness property and no fairness: the
  timeout ends the first by counting, the others only answer.
- `Htif`: weak fairness of the host's thread, and strong fairness of `Take`:
  a program that polls `fromhost` is only able to act during `idle`, which
  is entered again and again and runs 5000 instructions each time. Nothing is
  assumed of signals, typed characters or of the program sending commands.
- `Machine`: weak fairness of `Next`: the host calls `sim_t::step` again and
  again. `SleepersWake` excuses programs that write the CLINT for ever.
- `Console`: weak fairness of `Tick` (the scheduler ticks every device once in a
  round) and of `Driver` (every hart has its turn in a round; the driver is
  never blocked but by waiting for its interrupt). Nothing is assumed of typing.

The checker is told that `Comparator`, `Collector` and `Htif` may stop: they are
programs that end. In `Plic`, `Machine`, `Console` and `Mmu` deadlock is checked.

## 4. What is proved

All theorems hold for every value of the constants that satisfies the module's
assumptions (sizes positive, sets of the right types, `None` outside of them),
and are checked by TLAPS.

- `ComparatorProofs`, for traces and fragments of any length: `TypeCorrect`;
  `ConsumedFixed`, no insertion or swap touches what the cursor passed;
  `CommitsNeverLost`, each commit of the DUT stays in the list exactly once
  through every insertion and swap. The inductive invariant is the type invariant (its
  cursors within their lists) and that the edited Spike trace is still one.
- `VerdictProofs`, for traces and fragments of any length: `VerdictBacked`, a
  comparison that reports nothing vouches for every write and every store of Spike
  (`PassesAreBacked`), and `RowsStayAligned`. Nothing of the kind holds of the rows
  while they are built: a defective fragment leaves invented commits behind and its
  register file goes out of date. The invariant is therefore about the rows that
  will turn out equal: `Good => Backed`, where `Good` says that each Spike entry
  passed so far has an equal row, and `Backed` that the register file is Spike's
  (`RegistersFollow`), that no commit vouches twice (`OneVoucher`), that the accesses
  consumed are those of the stores (`AccessesUsed`), and that no invented commit is
  left (`NoneInventedLeft`): an invented commit that the cursor has not consumed yet
  makes the next row of its turn unequal. `MemsLeft` and `Compared` carry the rest.
  The converse is `NoFalseAlarms`: the fragment of a correct execution of decoded
  instructions is never reported. `Correct` gives, for each list, which entry each
  element records; `Ahead` says that this stays so of what the cursors have not
  reached, through stray fetches, insertions and swaps (`CommitsSkip`,
  `CommitsInserted`, `CommitsSwapped`, ...). From it each turn finds its fetch, its
  commit (`RightCommit`: the first or, swapped with it, the second) and its access
  (`RecordedStore`: shifted and masked, the bytes Spike logs), so no list runs out, every
  row is equal (`Good`) and the comparison has nothing to say. It rests on
  `RegistersFollow`: a write is invisible exactly when the comparator invents its commit.
- `CollectorProofs`, for any programs linked for the memory, flags, sizes, lengths of
  the run and orders of the coroutines: `TypeCorrect`, `RequestsCorrect`,
  `ReplaysCorrect`, `StopsCorrect` and `FragmentTheorem`. The argument is built in layers.
  - The cycle (`IInv`). It is cut in four: before and after each of its two events.
    `InStep` says which coroutines are due in which, `Serving` that between its two
    halves a coroutine has a request whose data is on the bus, and that after them the
    request is acknowledged. The processor only moves when nobody is due.
  - The bus (`BusInv`, `MemInv`): each request is one of four kinds and belongs to the next
    step to fetch or to execute, so a write between the halves of a coroutine is the
    store of step `executed + 1` (`WriteIsStore`).
  - The replays (`ReplayInv`, `CommitsInv`): a word holds what the last access to it
    wrote, which survives the next access because two words of a program never share a
    place (`Linked`, and `PlaceIsSimulated`: where a section that fits is loaded is where
    it is looked up); a register holds what the last commit of it says, because one look
    records each changed register once and in order.
  - The end (`StopInv`, `EndInv`): once 1 is at tohost no access comes before the next edge,
    and the main coroutine runs at that edge before anything else is asked; that store is
    the last step, executed at the edge with the retirement of the step before it.
  - The fragment. `StoresInv`, `FetchesInv` and `LookInv` each say that a list is right *up
    to a step*: `Wrote` and `Got` are the numbers of steps that the memory has answered,
    one ahead of what the processor has seen in the second half of a cycle; the registers
    seen last are those of a step `m` with at most two retirements since (`Together`), and
    at the end all three have reached the end of the trace. Each witness (which step an
    element records) is extended by `StoresAdd`, `FetchesAdd` or `CommitsJoin`; `OneLook` says
    that the registers that changed between two looks are exactly the writes that
    `ChangingWrites` counts, two of a cycle in either order.
- `PlicProofs`, for any number of sources and contexts: `TypeCorrect`,
  `LineCorrect`, `ClaimsHeld`, `UnsharedLevel`, `UnsharedOneHandler`,
  `ClaimEndsTheorem`, and `ScanCorrect`: the loop over the sources, as the code writes
  it, returns the most urgent one. The invariant is `IInv` = the type, the line property, the
  claims being pending, `OneOwner` (a source outside `shared` is enabled in one
  context at most) and the level property. `OneOwner` is what makes it inductive:
  without it `set_interrupt_level`, which tells the first context only, could
  leave another one behind - the very flaw `plic_level` shows for shared sources.
- `HtifProofs`, for any commands, limits and bounds: `TypeCorrect`,
  `CommandsTheorem`, `CharactersTheorem` (what was typed is what the program was given,
  what is on its way and what waits at the terminal, in this order), `ExitTheorem`, and `PromiseTheorem`, the refinement of
  `HostInterface`: every step of `Htif` maps to a step of the abstract queue or a
  stutter, with `asked` the pending reads and `channel` the word followed by the
  queue.
- `MachineProofs`, for any number of harts, length of a turn and calls:
  `TypeCorrect`, `TimersCorrect`, `ReservationsCorrect`, `RoundsCorrect`,
  `PromptCorrect`. The argument for reservations is `OneHolder`: outside its turn
  a hart holds none, since each turn ends with a yield, so a store can only meet
  the reservation of the hart that makes it. For rounds it is `Shares`: harts
  before the current one have had `INTERLEAVE` steps, the current one
  `current_step`, the later ones none.
- `ConsoleProofs`, for any sizes of both devices, any number of harts and any line: every step of the
  composition is a step of each device or leaves it alone, so it implements both
  (`PortImplemented`, `ControllerImplemented`), and the invariant of `PlicProofs`
  carries over by instantiation. On top of it: `TypeCorrect`, `LineCorrect`,
  `OrderCorrect`, and `HeardCorrect`: while the driver waits, a character in the
  port interrupts its hart, even one that came between its last look and its
  completion. The invariant `Armed` says how far the driver has set the
  controller up; the rest is the chain character, data ready, requested, line,
  pending (the source is unshared), above the threshold and unclaimed, `mip`.
  This is the safety half of `CharactersArrive`. The driver uses priority 1, so
  `2 ^ PrioBits > 1` is assumed.

- `MmuProofs`, for any sizes, PMP entries and programs: `TypeCorrect`, `LocksAreKept`,
  `MprvStaysInMachine`, `WatchedAccessesAreChecked`, `PendingTriggersTaken` and
  `CachesStayFresh`. The last is the long one. An entry is put into a TLB only when the walk
  succeeds and the page is homogeneous, and then one word stands for all of its page (`HomogeneousPage`,
  arithmetic on the bounds of an entry; it needs the sizes of entries and
  pages to divide each other, `SpansAssumption`). Every other step either flushes or
  is `Quiet` about what the walk reads: a store outside the words of an entry's walk
  leaves the walk as it was (`SameWalk`). The triggers' part is `WatchInv`: the check
  flags are those of the trigger, an untagged entry is of a type that is not
  watched, and while a match waits the instruction cache and the fetch TLB are empty.

Two of these need induction over data: the loop of `Scan`, a recursive function, and the
lists of the collector. The library's induction theorems take an operator as a parameter,
so they are not used: `WFMin` of `WellFoundedInduction` says that a non-empty set has a
least element (`LeastNumber`), and the set of the numbers a claim fails for then has to
be empty (`Induction`).

Every invariant and every action property of the passing runs is stated by one of these
theorems. Only model-checked is liveness (`Terminates`, `ExitEnds`, `AnswersArrive`,
`SleepersWake`, `CharactersArrive`), since TLAPS has no support for `ENABLED`.

## 5. What is not modelled, and what to keep in mind

- Comparator: what is left in the lists when the Spike trace ends is never looked
  at, in the code and in the model. Reading files and the loop over tests are out,
  and so is how the batch names its results (a test's name is cut at its first dot).
- The tools' command lines: `exec_trace.py` without `-f` hands the current
  directory to `ConfigLoader`, where it exists and is opened as a file, although the
  example in `src/README.md` leaves `-f` out; nothing here depends on it.
- `spike_trace.py`: one pass over a text. The cut at the exit sequence of
  riscv-arch-test looks one entry ahead of each `li ra, 1`, so it raises when that is
  the last entry of the trace.
- Collector: `FragmentCorrect` leaves out `BYTE_ALIGNED_MEMORY_ACCESS` (the
  bus address then already has the offset the comparison adds), register files
  that are not zero at reset, and processors that show only a write port, where a
  write that changes nothing is recorded too. Outputs of the
  processor are registered; a combinational bus could change between the
  samples the coroutines take before and after their await. `rst_n` is taken to be
  seen by the DUT at the next edge.
- Htif: contents of commands, answers and exit codes; the truncation of an exit
  status to an `int` (`S/fesvr/syscall.cc:215`); programs without a `tohost`
  symbol. The signals are SIGTERM and SIGABRT: SIGINT opens the console instead.
- Plic: `mip` is what the PLIC last wrote; software may also write SEIP. The
  priority of a pending source is the one it had when it became pending, as in
  the code.
- Machine: no supervisor or hypervisor modes, debug mode, single steps or
  triggers; external interrupts belong to `Plic`; causes and interrupt
  priorities are abstracted. The clock counts instructions, not real time. Stores
  that the host makes for the program do not appear; from the console they may
  come in the middle of a turn.
- Ns16550: divisors, the scratch register and what is transmitted (the
  transmitter is always empty); the cause bits that no code raises. `dlm` has no
  value until software stores one (the constructor leaves it out); nothing here
  depends on it. A priority written after the source became pending has no
  effect until the port reports its line again, so a driver that sets its
  priority last may miss the characters that are there: the driver of `Console`
  sets it before it enables the source.
- Mmu: the modes are U, S and M, with Sv32; no second stage, no wider modes, no
  Svadu, Svnapot or Svpbmt, no `mstatus.TVM` and `TSR` (which only forbid
  instructions), no Smrnmi (a write of `mnstatus.NMIE` changes the privilege that
  MPRV selects and flushes nothing, `S/riscv/csrs.cc:597`), no debug mode and no pointer masking. No MMIO, no
  memory tracers; accesses are single aligned words, so none crosses a page. With
  `--log-commits`, which `spike_trace.py` uses, Spike runs the slow path's loop,
  which neither fills nor asks the instruction cache: its fetches are `Fetch`
  without the entry. The periodic flush under Ziccid is a `FenceI` nobody asked for.
  Triggers: one address trigger with the breakpoint action; no data matches,
  chains, counters or interrupt and exception triggers, and its breakpoints are not
  delegated.
- Debug module: not modelled because it cannot be reached. `DEBUG_START`
  (`S/riscv/platform.h:22`) is 0x08001000 in this fork, and the module's `load` and
  `store` compare `DEBUG_START` plus the offset with the addresses 0x100 to 0xfff of
  its ROM: no access of a hart matches, and no halt is ever acknowledged. A model of
  the handshake would be one of code that never runs.
- The configuration files, the console of the debugger, loaders, the CSR file, the cache
  simulator and the vendored libraries: see the notes in `PROJECT.json`.

## 6. Plan

Done, in this order: the comparator (the verdict of the whole repository), the
collector, the host-target interface, the interrupt controller, the harts with
their scheduler and clock, the serial port and its composition with the
controller and a driver, the MMU with the PMP and an address trigger, and the
proofs of what the verdict means, both ways, and of what the collector collects.

Next, most valuable first:

1. **Log parser** (`spike_trace.py`): the cut at tohost and the read-back of
   stores, establishing `IsTrace`, so that the three tools are connected end to
   end.
2. **Machine and Mmu composed**: one hart with its traps and its translation, so that
   an interrupt between a write of the page table and its fence is one of the steps.
3. **Collector and Comparator composed**: the fragment the collector writes handed to
   the comparator, so that `FragmentTheorem` and `NoFalseAlarm` together say that a
   correct processor whose simulation reaches its store to tohost is never reported.
4. An abstract level-triggered interrupt source, implemented by `Plic` for unshared
   sources.
