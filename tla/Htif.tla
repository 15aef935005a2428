-------------------------------- MODULE Htif --------------------------------
(***************************************************************************)
(* The host-target interface of the bundled Spike: the loop of             *)
(* htif_t::run (fesvr/htif.cc), the devices it dispatches to               *)
(* (fesvr/device.cc, fesvr/syscall.cc) and sim_t::idle (riscv/sim.cc), in  *)
(* which alone the simulated machine advances.  Host and program meet in   *)
(* two words of memory, tohost and fromhost; a word of zero is empty.      *)
(* Signals and characters of the terminal arrive at any time.              *)
(***************************************************************************)
EXTENDS Naturals, Sequences

CONSTANTS
  Char,         \* the characters typed on the terminal
  Tag,          \* the arguments that tell commands apart
  None,         \* an empty word, and an unset exit code
  Commands,     \* the commands the program may send
  Limits,       \* the values of --instructions, in calls of sim_t::idle, or None
  MaxSent,      \* bound: the commands the program sends
  MaxTyped      \* bound: the characters typed

(* What handle_command does with a command.                                *)
AtOnce  == {"syscall", "sys_exit", "identify", "disk"}
Ignored == {"write", "null"}
Kinds   == AtOnce \cup Ignored \cup {"exit", "read", "fault"}
Command == [kind : Kinds, arg : Tag]

Done == "done"
Expired == [kind |-> "limit", arg |-> None]
Answers == [to : Command, val : Char \cup {Done}]

ASSUME HtifAssumption ==
  /\ None \notin Nat \cup Command \cup Answers \cup {Expired}
  /\ Commands \subseteq Command
  /\ Limits \subseteq Nat \cup {None}
  /\ MaxSent \in Nat
  /\ MaxTyped \in Nat

VARIABLES
  tohost,       \* the word the program writes
  fromhost,     \* the word the host writes
  fromhost_queue,
  pending_reads,
  exitcode,     \* what set htif_t::exitcode: a command, Expired, or None
  signal_exit,
  limit,        \* instruction_limit
  pc,           \* where the host's thread is
  terminal,     \* typed and not read yet
  typed,        \* history: everything typed
  sent,         \* history: the commands the program wrote to tohost
  accepted,     \* history: the commands the host dispatched
  received      \* history: the answers the program took

host == <<fromhost_queue, pending_reads, exitcode, limit>>
world == <<signal_exit, terminal, typed>>
program == <<sent, received>>
vars == <<tohost, fromhost, host, pc, world, program, accepted>>

Init ==
  /\ tohost = None /\ fromhost = None
  /\ fromhost_queue = <<>> /\ pending_reads = <<>>
  /\ exitcode = None
  /\ signal_exit = FALSE
  /\ limit \in Limits
  /\ pc = "loop"
  /\ terminal = <<>> /\ typed = <<>>
  /\ sent = <<>> /\ accepted = <<>> /\ received = <<>>

should_exit_on_signal == signal_exit
should_exit == signal_exit \/ exitcode # None

respond(c, v) == fromhost_queue' = Append(fromhost_queue, [to |-> c, val |-> v])

(***************************************************************************)
(* device_list_t::handle_command.  An exit status ends the loop and gets   *)
(* no answer; the exit system call ends it and does.  A command the host   *)
(* cannot carry out (a bad system call, a bad address, a disk error) ends  *)
(* the process.                                                            *)
(***************************************************************************)
\* Mutant: the newest read is answered first.
bcd_read_newest_first(c) == pending_reads' = <<c>> \o pending_reads
bcd_read(c) == pending_reads' = Append(pending_reads, c)

Exits(c) == c.kind \in {"exit", "sys_exit"}

handle_command(c) ==
  /\ IF c.kind \in AtOnce THEN respond(c, Done) ELSE UNCHANGED fromhost_queue
  /\ IF c.kind = "read" THEN bcd_read(c) ELSE UNCHANGED pending_reads
  /\ exitcode' = IF Exits(c) THEN c ELSE exitcode
  /\ pc' = IF c.kind = "fault" THEN "killed" ELSE "tick"

(* The top of the loop: take the command in tohost, or let the machine run. *)
\* Mutants: tohost is not emptied; the machine waits for the queue.
PollWithoutClearing ==
  /\ pc = "loop" /\ ~ should_exit
  /\ IF tohost # None
       THEN /\ accepted' = Append(accepted, tohost)
            /\ handle_command(tohost)
       ELSE /\ pc' = "idle"
            /\ UNCHANGED <<accepted, fromhost_queue, pending_reads, exitcode>>
  /\ UNCHANGED <<tohost, fromhost, limit, world, program>>

PollWhileAnswering ==
  /\ pc = "loop" /\ ~ should_exit
  /\ IF tohost # None
       THEN /\ tohost' = None
            /\ accepted' = Append(accepted, tohost)
            /\ handle_command(tohost)
       ELSE /\ pc' = IF fromhost_queue = <<>> THEN "idle" ELSE "tick"
            /\ UNCHANGED <<tohost, accepted, fromhost_queue, pending_reads, exitcode>>
  /\ UNCHANGED <<fromhost, limit, world, program>>

Poll ==
  /\ pc = "loop" /\ ~ should_exit
  /\ IF tohost # None
       THEN /\ tohost' = None
            /\ accepted' = Append(accepted, tohost)
            /\ handle_command(tohost)
       ELSE /\ pc' = "idle"
            /\ UNCHANGED <<tohost, accepted, fromhost_queue, pending_reads, exitcode>>
  /\ UNCHANGED <<fromhost, limit, world, program>>

(* sim_t::idle returns after its instructions; the last ones allowed set   *)
(* the exit code.                                                          *)
IdleEnds ==
  /\ pc = "idle"
  /\ pc' = "tick"
  /\ \/ limit = None /\ UNCHANGED <<limit, exitcode>>
     \/ limit = 0 /\ exitcode' = Expired /\ UNCHANGED limit
     \/ limit \notin {None, 0} /\ limit' = limit - 1 /\ UNCHANGED exitcode
  /\ UNCHANGED <<tohost, fromhost, fromhost_queue, pending_reads, world, program, accepted>>

(* device_list_t::tick: bcd_t::tick answers the oldest read.               *)
\* Mutants: a character is read when nobody waits for it; a read is answered without one.
TickReadsFirst ==
  /\ pc = "tick"
  /\ pc' = "deliver"
  /\ \/ /\ terminal # <<>>
        /\ terminal' = Tail(terminal)
        /\ IF pending_reads # <<>>
             THEN /\ respond(Head(pending_reads), Head(terminal))
                  /\ pending_reads' = Tail(pending_reads)
             ELSE UNCHANGED <<fromhost_queue, pending_reads>>
     \/ /\ terminal = <<>>
        /\ UNCHANGED <<fromhost_queue, pending_reads, terminal>>
  /\ UNCHANGED <<tohost, fromhost, exitcode, limit, signal_exit, typed, program, accepted>>

TickUnchecked ==
  /\ pc = "tick"
  /\ pc' = "deliver"
  /\ \/ /\ pending_reads # <<>>
        /\ respond(Head(pending_reads), IF terminal = <<>> THEN None ELSE Head(terminal))
        /\ pending_reads' = Tail(pending_reads)
        /\ terminal' = IF terminal = <<>> THEN <<>> ELSE Tail(terminal)
     \/ /\ pending_reads = <<>>
        /\ UNCHANGED <<fromhost_queue, pending_reads, terminal>>
  /\ UNCHANGED <<tohost, fromhost, exitcode, limit, signal_exit, typed, program, accepted>>

Tick ==
  /\ pc = "tick"
  /\ pc' = "deliver"
  /\ \/ /\ pending_reads # <<>> /\ terminal # <<>>
        /\ respond(Head(pending_reads), Head(terminal))
        /\ pending_reads' = Tail(pending_reads)
        /\ terminal' = Tail(terminal)
     \/ /\ pending_reads = <<>> \/ terminal = <<>>
        /\ UNCHANGED <<fromhost_queue, pending_reads, terminal>>
  /\ UNCHANGED <<tohost, fromhost, exitcode, limit, signal_exit, typed, program, accepted>>

(* The oldest answer goes to fromhost once the program has emptied it.     *)
\* Mutant: the host waits until the answer is taken.
DeliverAndWait ==
  /\ pc = "deliver"
  /\ pc' = "loop"
  /\ \/ /\ fromhost_queue # <<>> /\ fromhost = None
        /\ fromhost' = Head(fromhost_queue)
        /\ fromhost_queue' = Tail(fromhost_queue)
     \/ fromhost_queue = <<>> /\ UNCHANGED <<fromhost, fromhost_queue>>
  /\ UNCHANGED <<tohost, pending_reads, exitcode, limit, world, program, accepted>>

Deliver ==
  /\ pc = "deliver"
  /\ pc' = "loop"
  /\ \/ /\ fromhost_queue # <<>> /\ fromhost = None
        /\ fromhost' = Head(fromhost_queue)
        /\ fromhost_queue' = Tail(fromhost_queue)
     \/ /\ fromhost_queue = <<>> \/ fromhost # None
        /\ UNCHANGED <<fromhost, fromhost_queue>>
  /\ UNCHANGED <<tohost, pending_reads, exitcode, limit, world, program, accepted>>

Stop ==
  /\ pc = "loop" /\ should_exit
  /\ pc' = "stopped"
  /\ UNCHANGED <<tohost, fromhost, host, world, program, accepted>>

Host == Poll \/ IdleEnds \/ Tick \/ Deliver \/ Stop

(* handle_signal: the second signal ends the process at once, and so does  *)
(* an abort.                                                               *)
Signals == {"SIGTERM", "SIGABRT"}

Signal(sig) ==
  /\ pc \notin {"stopped", "killed"}
  /\ IF sig = "SIGABRT" \/ signal_exit
                    THEN pc' = "killed" /\ UNCHANGED signal_exit
                    ELSE signal_exit' = TRUE /\ UNCHANGED pc
  /\ UNCHANGED <<tohost, fromhost, host, terminal, typed, program, accepted>>

(* A user of the terminal types, at any time.                              *)
Type(ch) ==
  /\ pc \notin {"stopped", "killed"}
  /\ Len(typed) < MaxTyped
  /\ typed' = Append(typed, ch)
  /\ terminal' = Append(terminal, ch)
  /\ UNCHANGED <<tohost, fromhost, host, pc, signal_exit, program, accepted>>

(***************************************************************************)
(* The program on the machine is not in the repository.  It follows the    *)
(* protocol the host relies on: it writes tohost when the host has emptied *)
(* it and takes an answer by emptying fromhost.                            *)
(***************************************************************************)
Send(c) ==
  /\ pc = "idle" /\ tohost = None
  /\ Len(sent) < MaxSent
  /\ tohost' = c
  /\ sent' = Append(sent, c)
  /\ UNCHANGED <<fromhost, host, pc, world, received, accepted>>

Take ==
  /\ pc = "idle" /\ fromhost # None
  /\ received' = Append(received, fromhost)
  /\ fromhost' = None
  /\ UNCHANGED <<tohost, host, pc, world, sent, accepted>>

Next ==
  \/ Host \/ Take
  \/ \E sig \in Signals : Signal(sig)
  \/ \E ch \in Char : Type(ch)
  \/ \E c \in Commands : Send(c)

(* The host's thread runs on, and every call of idle runs long enough for  *)
(* a program that polls fromhost to come round to it.                      *)
Spec == Init /\ [][Next]_vars /\ WF_vars(Host) /\ SF_vars(Take)

-----------------------------------------------------------------------------
Ended == pc \in {"stopped", "killed"}

Word(w) == IF w = None THEN <<>> ELSE <<w>>

(* The answers on their way: the one in memory, then the queue.            *)
channel == Word(fromhost) \o fromhost_queue

(* The words and queues hold commands and answers.                         *)
TypeOK ==
  /\ tohost \in Command \cup {None}
  /\ fromhost \in Answers \cup {None}
  /\ fromhost_queue \in Seq(Answers) /\ pending_reads \in Seq(Command)
  /\ exitcode \in Command \cup {Expired, None}
  /\ signal_exit \in BOOLEAN
  /\ limit \in Nat \cup {None}
  /\ pc \in {"loop", "idle", "tick", "deliver", "stopped", "killed"}
  /\ terminal \in Seq(Char) /\ typed \in Seq(Char)
  /\ sent \in Seq(Command) /\ accepted \in Seq(Command) /\ received \in Seq(Answers)

(* Every command a program writes is dispatched once, in order, while the  *)
(* host goes on running; none is dispatched twice or overwritten.          *)
CommandsKept == sent = accepted \o Word(tohost)

(* The characters the reads among some answers were given.                 *)
CharactersIn(answers) ==
  LET given[n \in 0 .. Len(answers)] ==
        IF n = 0 THEN <<>>
        ELSE IF answers[n].to.kind = "read" THEN Append(given[n - 1], answers[n].val)
        ELSE given[n - 1]
  IN  given[Len(answers)]

(* Every character typed reaches one read, in the order typed: in the      *)
(* answers taken, then those on their way, then the terminal's buffer.     *)
CharactersKept == typed = CharactersIn(received \o channel) \o terminal

(* The run ends with the first exit the program asked for: nothing is      *)
(* dispatched after it, and it is not replaced.                            *)
ExitIsFinal ==
  [][exitcode # None => UNCHANGED <<exitcode, accepted>>]_vars

(* The word and the queue behind it are one queue, and reads are answered  *)
(* in the order they were made, as the interface promises.                 *)
Promise == INSTANCE HostInterface WITH Value <- Char \cup {Done}, asked <- pending_reads
KeepsPromise == Promise!Spec

(* An exit the program writes ends the run, even if it never takes the     *)
(* answers that are waiting for it.                                        *)
ExitEnds == (tohost # None /\ Exits(tohost)) ~> Ended

(* A program that polls fromhost gets every answer that is queued for it.  *)
AnswersArrive == (channel # <<>>) ~> (channel = <<>> \/ Ended)
=============================================================================
