----------------------------- MODULE HtifProofs -----------------------------
(***************************************************************************)
(* The host-target interface for any commands, characters and bounds:      *)
(* types, the fate of commands and of the exit code, and that the word     *)
(* fromhost with the queue behind it keeps the promise of HostInterface.   *)
(***************************************************************************)
EXTENDS Htif, SequenceTheorems, WellFoundedInduction, TLAPS

-----------------------------------------------------------------------------
(* A sequence extended by an element, and one without its first element.   *)
LEMMA AppendTail ==
  ASSUME NEW S, NEW s \in Seq(S)
  PROVE  /\ \A e \in S : Append(s, e) \in Seq(S)
         /\ s # <<>> => Head(s) \in S /\ Tail(s) \in Seq(S)
<1> QED OBVIOUS

(* Dispatching a command keeps the types.                                  *)
LEMMA HandleTypes ==
  ASSUME TypeOK, NEW c \in Command, handle_command(c)
  PROVE  /\ fromhost_queue' \in Seq(Answers)
         /\ pending_reads' \in Seq(Command)
         /\ exitcode' \in Command \cup {Expired, None}
         /\ pc' \in {"killed", "tick"}
<1>1. [to |-> c, val |-> Done] \in Answers BY DEF Answers
<1>2. fromhost_queue' \in Seq(Answers)
  BY <1>1, AppendTail DEF handle_command, respond, TypeOK
<1>3. pending_reads' \in Seq(Command)
  BY AppendTail DEF handle_command, bcd_read, TypeOK
<1> QED BY <1>2, <1>3 DEF handle_command, TypeOK

LEMMA TypeStep == ASSUME TypeOK, [Next]_vars PROVE TypeOK'
<1> USE DEF TypeOK
<1>1. CASE Poll
  <2>1. CASE tohost # None
    <3>1. tohost \in Command BY <2>1
    <3>2. handle_command(tohost) /\ tohost' = None /\ accepted' = Append(accepted, tohost)
      BY <1>1, <2>1 DEF Poll
    <3>3. accepted' \in Seq(Command) BY <3>1, <3>2, AppendTail
    <3>4. UNCHANGED <<fromhost, limit, world, program>> BY <1>1 DEF Poll
    <3> QED BY <3>1, <3>2, <3>3, <3>4, HandleTypes DEF world, program
  <2>2. CASE tohost = None
    BY <1>1, <2>2 DEF Poll, world, program
  <2> QED BY <2>1, <2>2
<1>2. CASE IdleEnds
  BY <1>2 DEF IdleEnds, world, program
<1>3. CASE Tick
  <2>1. UNCHANGED <<tohost, fromhost, exitcode, limit, signal_exit, typed, program, accepted>>
        /\ pc' = "deliver"
    BY <1>3 DEF Tick
  <2>2. CASE pending_reads # <<>> /\ terminal # <<>> /\ respond(Head(pending_reads), Head(terminal))
             /\ pending_reads' = Tail(pending_reads) /\ terminal' = Tail(terminal)
    <3>1. Head(pending_reads) \in Command /\ Head(terminal) \in Char
          /\ pending_reads' \in Seq(Command) /\ terminal' \in Seq(Char)
      BY <2>2, AppendTail
    <3>2. [to |-> Head(pending_reads), val |-> Head(terminal)] \in Answers
      BY <3>1 DEF Answers
    <3>3. fromhost_queue' \in Seq(Answers)
      BY <2>2, <3>2, AppendTail DEF respond
    <3> QED BY <2>1, <3>1, <3>3 DEF program
  <2>3. CASE UNCHANGED <<fromhost_queue, pending_reads, terminal>>
    BY <2>1, <2>3 DEF program
  <2> QED BY <1>3, <2>2, <2>3 DEF Tick
<1>4. CASE Deliver
  <2>1. UNCHANGED <<tohost, pending_reads, exitcode, limit, world, program, accepted>>
        /\ pc' = "loop"
    BY <1>4 DEF Deliver
  <2>2. fromhost' \in Answers \cup {None} /\ fromhost_queue' \in Seq(Answers)
    BY <1>4, AppendTail DEF Deliver
  <2> QED BY <2>1, <2>2 DEF world, program
<1>5. CASE Stop
  BY <1>5 DEF Stop, host, world, program
<1>6. ASSUME NEW sig \in Signals, Signal(sig) PROVE TypeOK'
  BY <1>6 DEF Signal, host, program
<1>7. ASSUME NEW ch \in Char, Type(ch) PROVE TypeOK'
  BY <1>7, AppendTail DEF Type, host, program
<1>8. ASSUME NEW c \in Commands, Send(c) PROVE TypeOK'
  BY <1>8, AppendTail, HtifAssumption DEF Send, host, world
<1>9. CASE Take
  <2>1. received' \in Seq(Answers) BY <1>9, AppendTail DEF Take
  <2> QED BY <1>9, <2>1 DEF Take, host, world
<1>10. CASE UNCHANGED vars
  BY <1>10 DEF vars, host, world, program
<1> QED
  BY <1>1, <1>2, <1>3, <1>4, <1>5, <1>6, <1>7, <1>8, <1>9, <1>10 DEF Next, Host

LEMMA InitTypes == Init => TypeOK
<1>1. <<>> \in Seq(Answers) /\ <<>> \in Seq(Command) /\ <<>> \in Seq(Char)
  OBVIOUS
<1> SUFFICES ASSUME Init PROVE TypeOK OBVIOUS
<1>2. limit \in Nat \cup {None} BY HtifAssumption DEF Init
<1>3. pc = "loop" BY DEF Init
<1> QED BY <1>1, <1>2, <1>3 DEF Init, TypeOK

(* The words and queues of the interface always hold commands and answers. *)
THEOREM TypeCorrect == Spec => []TypeOK
<1> QED BY InitTypes, TypeStep, PTL DEF Spec
-----------------------------------------------------------------------------
(* Commands and the exit code.                                             *)

(* Joining a word, or nothing, to a sequence.                              *)
LEMMA ConcatWord ==
  ASSUME NEW S, NEW s \in Seq(S)
  PROVE  /\ s \o <<>> = s
         /\ <<>> \o s = s
         /\ \A e \in S : s \o <<e>> = Append(s, e)
         /\ \A e \in S : Tail(<<e>> \o s) = s /\ <<e>> \o s # <<>>
         /\ s # <<>> => <<Head(s)>> \o Tail(s) = s
<1>1. s \o <<>> = s /\ <<>> \o s = s
  BY ConcatEmptySeq
<1>2. ASSUME NEW e \in S PROVE s \o <<e>> = Append(s, e)
  BY AppendIsConcat
<1>3. ASSUME NEW e \in S PROVE Tail(<<e>> \o s) = s /\ <<e>> \o s # <<>>
  OBVIOUS
<1>4. s # <<>> => <<Head(s)>> \o Tail(s) = s
  OBVIOUS
<1> QED BY <1>1, <1>2, <1>3, <1>4

LEMMA CommandsStep ==
  ASSUME TypeOK, CommandsKept, [Next]_vars
  PROVE  CommandsKept'
<1> USE DEF TypeOK, CommandsKept
<1>1. CASE Poll /\ tohost # None
  <2>1. tohost \in Command /\ tohost' = None /\ accepted' = Append(accepted, tohost) /\ sent' = sent
    BY <1>1 DEF Poll, program
  <2>2. sent = accepted \o <<tohost>> /\ Word(tohost') = <<>>
    BY <1>1, <2>1 DEF Word
  <2>3. accepted' \in Seq(Command) BY <2>1, AppendTail
  <2>4. accepted' \o <<>> = accepted' BY <2>3, ConcatWord
  <2>5. accepted \o <<tohost>> = Append(accepted, tohost) BY <2>1, ConcatWord
  <2> QED BY <2>1, <2>2, <2>4, <2>5
<1>2. ASSUME NEW c \in Commands, Send(c) PROVE CommandsKept'
  <2>1. c \in Command /\ c # None
    BY HtifAssumption
  <2>2. Word(tohost) = <<>> /\ Word(tohost') = <<c>>
    BY <1>2, <2>1 DEF Send, Word
  <2>3. sent' = Append(sent, c) /\ accepted' = accepted
    BY <1>2 DEF Send
  <2>4. sent = accepted BY <2>2, ConcatWord
  <2>5. Append(accepted, c) = accepted \o <<c>> BY <2>1, ConcatWord
  <2> QED BY <2>2, <2>3, <2>4, <2>5
<1>3. CASE UNCHANGED <<tohost, sent, accepted>>
  BY <1>3 DEF Word
<1>4. \/ (Poll /\ tohost # None)
      \/ \E c \in Commands : Send(c)
      \/ UNCHANGED <<tohost, sent, accepted>>
  BY DEF Next, Host, Poll, IdleEnds, Tick, Deliver, Stop, Signal, Type, Take, program, vars
<1> QED BY <1>1, <1>2, <1>3, <1>4

LEMMA InitCommands == Init => CommandsKept
<1> QED BY DEF Init, CommandsKept, Word

(* Every command written to tohost is dispatched once and in order, or is  *)
(* still in the word.                                                      *)
THEOREM CommandsTheorem == Spec => []CommandsKept
<1>1. TypeOK /\ CommandsKept /\ [Next]_vars => (TypeOK /\ CommandsKept)'
  BY TypeStep, CommandsStep
<1> QED BY InitTypes, InitCommands, <1>1, PTL DEF Spec

(* The machine does not run once there is an exit code.                    *)
RunsUnlessExiting == pc = "idle" => exitcode = None

LEMMA RunsStep ==
  ASSUME TypeOK, RunsUnlessExiting, [Next]_vars
  PROVE  /\ RunsUnlessExiting'
         /\ exitcode # None => UNCHANGED <<exitcode, accepted>>
<1> USE DEF RunsUnlessExiting
<1>1. CASE Poll
  <2>1. exitcode = None BY <1>1 DEF Poll, should_exit
  <2>2. pc' = "idle" => exitcode' = exitcode
    BY <1>1 DEF Poll, handle_command
  <2> QED BY <2>1, <2>2
<1>2. CASE IdleEnds
  BY <1>2 DEF IdleEnds
<1>3. CASE UNCHANGED <<exitcode, accepted>> /\ (pc' = pc \/ pc' # "idle")
  BY <1>3
<1>4. \/ Poll \/ IdleEnds
      \/ UNCHANGED <<exitcode, accepted>> /\ (pc' = pc \/ pc' # "idle")
  BY DEF Next, Host, Tick, Deliver, Stop, Signal, Type, Send, Take, host, vars
<1> QED BY <1>1, <1>2, <1>3, <1>4

(* The first exit is the last command dispatched, and its code stands.     *)
THEOREM ExitTheorem == Spec => ExitIsFinal
<1>1. Init => RunsUnlessExiting
  BY DEF Init, RunsUnlessExiting
<1>2. TypeOK /\ RunsUnlessExiting /\ [Next]_vars => RunsUnlessExiting'
  BY RunsStep
<1>3. TypeOK /\ RunsUnlessExiting /\ [Next]_vars =>
        [exitcode # None => UNCHANGED <<exitcode, accepted>>]_vars
  BY RunsStep
<1> QED BY TypeCorrect, <1>1, <1>2, <1>3, PTL DEF Spec, ExitIsFinal

-----------------------------------------------------------------------------
(* The refinement: each step of the loop is one of the promise's actions   *)
(* or leaves the waiting reads and the answers on their way as they are.   *)

(* An answer queued goes to the end of the channel.                        *)
LEMMA RespondAppends ==
  ASSUME TypeOK, NEW c \in Command, NEW v \in Char \cup {Done}, respond(c, v),
         fromhost' = fromhost
  PROVE  channel' = Append(channel, [to |-> c, val |-> v])
<1> DEFINE a == [to |-> c, val |-> v]
           w == Word(fromhost)
<1>1. a \in Answers BY DEF Answers
<1>2. w \in Seq(Answers) /\ fromhost_queue \in Seq(Answers) /\ Word(fromhost)' = w
  BY DEF TypeOK, Word
<1>3. fromhost_queue' = Append(fromhost_queue, a)
  BY DEF respond
<1> HIDE DEF a, w
<1>4. w \o Append(fromhost_queue, a) = Append(w \o fromhost_queue, a)
  <2>1. Append(fromhost_queue, a) = fromhost_queue \o <<a>>
    BY <1>1, <1>2, AppendIsConcat
  <2>2. Append(w \o fromhost_queue, a) = (w \o fromhost_queue) \o <<a>>
    BY <1>1, <1>2, AppendIsConcat, ConcatProperties
  <2>3. <<a>> \in Seq(Answers) BY <1>1
  <2>4. (w \o fromhost_queue) \o <<a>> = w \o (fromhost_queue \o <<a>>)
    BY <1>2, <2>3, ConcatAssociative
  <2> QED BY <2>1, <2>2, <2>4
<1> QED BY <1>2, <1>3, <1>4 DEF channel, a, w

LEMMA PromiseStep ==
  ASSUME TypeOK, [Next]_vars
  PROVE  [Promise!Next]_(Promise!vars)
<1> USE DEF Promise!vars
<1>1. CASE Poll /\ tohost # None
  <2> DEFINE c == tohost
  <2>1. c \in Command /\ handle_command(c) /\ fromhost' = fromhost
    BY <1>1 DEF Poll, TypeOK
  <2> HIDE DEF c
  <2>2. CASE c.kind \in AtOnce
    <3>1. respond(c, Done) /\ pending_reads' = pending_reads
      BY <2>1, <2>2 DEF handle_command, AtOnce
    <3>2. channel' = Append(channel, [to |-> c, val |-> Done])
      BY <2>1, <3>1, RespondAppends
    <3>3. Promise!AnswerAtOnce(c, Done)
      BY <3>1, <3>2 DEF Promise!AnswerAtOnce, Promise!Answer
    <3> QED BY <2>1, <3>3 DEF Promise!Next
  <2>3. CASE c.kind = "read"
    <3>1. UNCHANGED <<fromhost_queue, fromhost>> /\ pending_reads' = Append(pending_reads, c)
      BY <2>1, <2>3 DEF handle_command, bcd_read, AtOnce
    <3>2. Promise!Defer(c)
      BY <3>1 DEF Promise!Defer, channel, Word
    <3> QED BY <2>1, <3>2 DEF Promise!Next
  <2>4. CASE c.kind \notin AtOnce \cup {"read"}
    <3>1. UNCHANGED <<fromhost_queue, fromhost, pending_reads>>
      BY <2>1, <2>4 DEF handle_command
    <3> QED BY <3>1 DEF channel, Word
  <2> QED BY <2>2, <2>3, <2>4
<1>2. CASE Tick
  <2>1. fromhost' = fromhost BY <1>2 DEF Tick
  <2>2. CASE pending_reads # <<>> /\ terminal # <<>> /\ respond(Head(pending_reads), Head(terminal))
             /\ pending_reads' = Tail(pending_reads)
    <3>1. Head(pending_reads) \in Command /\ Head(terminal) \in Char
      BY <2>2, AppendTail DEF TypeOK
    <3>2. channel' = Append(channel, [to |-> Head(pending_reads), val |-> Head(terminal)])
      BY <2>1, <2>2, <3>1, RespondAppends
    <3>3. Promise!AnswerOldest(Head(terminal))
      BY <2>2, <3>2 DEF Promise!AnswerOldest, Promise!Answer
    <3> QED BY <3>1, <3>3 DEF Promise!Next
  <2>3. CASE UNCHANGED <<fromhost_queue, pending_reads>>
    BY <2>1, <2>3 DEF channel, Word
  <2> QED BY <1>2, <2>2, <2>3 DEF Tick
<1>3. CASE Deliver
  <2>1. pending_reads' = pending_reads BY <1>3 DEF Deliver
  <2>2. CASE fromhost_queue # <<>> /\ fromhost = None /\ fromhost' = Head(fromhost_queue)
             /\ fromhost_queue' = Tail(fromhost_queue)
    <3>1. fromhost_queue \in Seq(Answers) /\ Head(fromhost_queue) \in Answers
      BY <2>2, AppendTail DEF TypeOK
    <3>2. Word(fromhost) = <<>> /\ Word(fromhost)' = <<Head(fromhost_queue)>>
      BY <2>2, <3>1, HtifAssumption DEF Word
    <3>3. channel = fromhost_queue
      BY <3>1, <3>2, ConcatWord DEF channel
    <3>4. channel' = <<Head(fromhost_queue)>> \o Tail(fromhost_queue)
      BY <2>2, <3>2 DEF channel
    <3>5. channel' = channel
      BY <2>2, <3>1, <3>3, <3>4, ConcatWord
    <3> QED BY <2>1, <3>5
  <2>3. CASE UNCHANGED <<fromhost, fromhost_queue>>
    BY <2>1, <2>3 DEF channel, Word
  <2> QED BY <1>3, <2>2, <2>3 DEF Deliver
<1>4. CASE Take
  <2>1. /\ fromhost # None /\ fromhost \in Answers /\ fromhost_queue \in Seq(Answers)
        /\ fromhost' = None /\ UNCHANGED <<fromhost_queue, pending_reads>>
    BY <1>4 DEF Take, host, TypeOK
  <2>2. channel = <<fromhost>> \o fromhost_queue
    BY <2>1 DEF channel, Word
  <2>3. channel' = fromhost_queue
    BY <2>1, ConcatWord DEF channel, Word
  <2>4. channel # <<>> /\ Tail(channel) = fromhost_queue
    BY <2>1, <2>2, ConcatWord
  <2>5. Promise!Take
    BY <2>1, <2>3, <2>4 DEF Promise!Take
  <2> QED BY <2>5 DEF Promise!Next
<1>5. CASE UNCHANGED <<fromhost, fromhost_queue, pending_reads>>
  BY <1>5 DEF channel, Word
<1>6. \/ (Poll /\ tohost # None) \/ Tick \/ Deliver \/ Take
      \/ UNCHANGED <<fromhost, fromhost_queue, pending_reads>>
  BY DEF Next, Host, Poll, IdleEnds, Stop, Signal, Type, Send, host, vars
<1> QED BY <1>1, <1>2, <1>3, <1>4, <1>5, <1>6

(* The loop and its queue keep the promise of the interface.               *)
THEOREM PromiseTheorem == Spec => KeepsPromise
<1>1. Init => Promise!Init
  <2> SUFFICES ASSUME Init PROVE Promise!Init OBVIOUS
  <2>1. channel = <<>> \o <<>> /\ pending_reads = <<>>
    BY DEF Init, channel, Word
  <2>2. <<>> \o <<>> = <<>>
    BY ConcatEmptySeq, <<>> \in Seq({})
  <2> QED BY <2>1, <2>2 DEF Promise!Init
<1>2. TypeOK /\ [Next]_vars => [Promise!Next]_(Promise!vars)
  BY PromiseStep
<1> QED BY TypeCorrect, <1>1, <1>2, PTL DEF Spec, KeepsPromise, Promise!Spec

-----------------------------------------------------------------------------
(* Characters and the reads they answer.                                   *)

(* A set of numbers has a least one, and holds every number if it holds 0  *)
(* and the successor of each it holds.                                     *)
LEMMA LeastNumber ==
  ASSUME NEW T \in SUBSET Nat, T # {}
  PROVE  \E n \in T : \A m \in T : n <= m
<1>1. PICK R : R = OpToRel(<, Nat)
  OBVIOUS
<1>2. IsWellFoundedOn(R, Nat)
  BY <1>1, NatLessThanWellFounded
<1>3. PICK n \in T : \A m \in T : ~ (<<m, n>> \in R)
  BY <1>2, WFMin
<1>4. \A k, m \in Nat : m < k => <<m, k>> \in R
  BY <1>1 DEF OpToRel
<1>5. \A m \in T : ~ (m < n)
  BY <1>3, <1>4
<1> QED BY <1>3, <1>5

LEMMA Induction ==
  ASSUME NEW T, 0 \in T, \A n \in Nat : n \in T => n + 1 \in T
  PROVE  Nat \subseteq T
<1> SUFFICES ASSUME Nat \ T # {} PROVE FALSE
  OBVIOUS
<1>1. PICK n \in Nat \ T : \A m \in Nat \ T : n <= m
  BY LeastNumber
<1>2. n # 0 /\ n - 1 \in Nat
  BY <1>1
<1>3. n - 1 \in T
  BY <1>1, <1>2
<1> QED BY <1>1, <1>2, <1>3

(* The characters of one more answer.                                      *)
More(chars, a) == IF a.to.kind = "read" THEN Append(chars, a.val) ELSE chars

(* The characters of the first answers of a sequence, by their number.     *)
IsGiven(f, s, m) == f = [n \in 0 .. m |-> IF n = 0 THEN <<>> ELSE More(f[n - 1], s[n])]

LEMMA GivenNext ==
  ASSUME NEW m \in Nat, NEW s, NEW f, IsGiven(f, s, m)
  PROVE  f[0] = <<>> /\ \A n \in Nat : n + 1 <= m => f[n + 1] = More(f[n], s[n + 1])
<1> SUFFICES ASSUME NEW n \in Nat, n + 1 <= m
             PROVE  f[n + 1] = More(f[n], s[n + 1])
  BY DEF IsGiven
<1>1. n + 1 \in 0 .. m /\ n + 1 # 0 /\ (n + 1) - 1 = n
  OBVIOUS
<1> QED BY <1>1 DEF IsGiven

(* There is such a function.                                               *)
LEMMA GivenDefined ==
  ASSUME NEW s, NEW m \in Nat
  PROVE  \E f : IsGiven(f, s, m)
<1>1. PICK T : T = {k \in Nat : \E f : IsGiven(f, s, k)}
  OBVIOUS
<1>2. 0 \in T
  <2>1. IsGiven([n \in 0 .. 0 |-> <<>>], s, 0)
    BY DEF IsGiven
  <2> QED BY <1>1, <2>1
<1>3. ASSUME NEW k \in Nat, k \in T PROVE k + 1 \in T
  <2>1. PICK g : IsGiven(g, s, k)
    BY <1>1, <1>3
  <2>2. PICK f : f = [n \in 0 .. (k + 1) |-> IF n = k + 1 THEN More(g[k], s[n]) ELSE g[n]]
    OBVIOUS
  <2>3. ASSUME NEW n \in 0 .. (k + 1)
        PROVE  f[n] = IF n = 0 THEN <<>> ELSE More(f[n - 1], s[n])
    <3>1. CASE n = k + 1
      BY <2>2, <3>1
    <3>2. CASE n \in 0 .. k
      <4>1. f[n] = g[n] /\ (n # 0 => f[n - 1] = g[n - 1])
        BY <2>2, <3>2
      <4> QED BY <2>1, <3>2, <4>1 DEF IsGiven
    <3> QED BY <3>1, <3>2
  <2>4. IsGiven(f, s, k + 1)
    BY <2>2, <2>3 DEF IsGiven
  <2> QED BY <1>1, <2>4
<1>4. m \in T
  BY <1>2, <1>3, Induction
<1> QED BY <1>1, <1>4

(* It follows from the answers it looks at, and gives sequences.           *)
LEMMA GivenAgree ==
  ASSUME NEW m \in Nat, NEW k \in Nat, NEW s, NEW r, NEW f, NEW g,
         IsGiven(f, s, m), IsGiven(g, r, k), m <= k, \A n \in 1 .. m : s[n] = r[n]
  PROVE  f[m] = g[m]
<1>1. PICK T : T = {n \in Nat : n <= m => f[n] = g[n]}
  OBVIOUS
<1>2. 0 \in T
  <2>1. f[0] = <<>> /\ g[0] = <<>>
    BY GivenNext
  <2> QED BY <1>1, <2>1
<1>3. ASSUME NEW n \in Nat, n \in T PROVE n + 1 \in T
  <2> SUFFICES ASSUME n + 1 <= m PROVE f[n + 1] = g[n + 1]
    BY <1>1
  <2>1. f[n] = g[n] /\ s[n + 1] = r[n + 1]
    BY <1>1, <1>3
  <2>2. f[n + 1] = More(f[n], s[n + 1])
    BY GivenNext
  <2>3. n + 1 <= k
    OBVIOUS
  <2>4. g[n + 1] = More(g[n], r[n + 1])
    BY <2>3, GivenNext
  <2> QED BY <2>1, <2>2, <2>4
<1>4. m \in T
  BY <1>2, <1>3, Induction
<1> QED BY <1>1, <1>4

LEMMA GivenType ==
  ASSUME NEW m \in Nat, NEW s, NEW V, \A n \in 1 .. m : s[n].val \in V,
         NEW f, IsGiven(f, s, m)
  PROVE  f[m] \in Seq(V)
<1>1. PICK T : T = {n \in Nat : n <= m => f[n] \in Seq(V)}
  OBVIOUS
<1>2. 0 \in T
  <2>1. f[0] = <<>>
    BY GivenNext
  <2>2. <<>> \in Seq(V)
    OBVIOUS
  <2> QED BY <1>1, <2>1, <2>2
<1>3. ASSUME NEW n \in Nat, n \in T PROVE n + 1 \in T
  <2> SUFFICES ASSUME n + 1 <= m PROVE f[n + 1] \in Seq(V)
    BY <1>1
  <2>1. f[n] \in Seq(V) /\ s[n + 1].val \in V
    BY <1>1, <1>3
  <2>2. f[n + 1] = More(f[n], s[n + 1])
    BY GivenNext
  <2> QED BY <2>1, <2>2 DEF More
<1>4. m \in T
  BY <1>2, <1>3, Induction
<1> QED BY <1>1, <1>4

(* What CharactersIn gives is the value of such a function.                *)
LEMMA CharactersAre ==
  ASSUME NEW s, Len(s) \in Nat
  PROVE  \E f : IsGiven(f, s, Len(s)) /\ CharactersIn(s) = f[Len(s)]
<1>1. \E f : IsGiven(f, s, Len(s))
  BY GivenDefined
<1> DEFINE f == CHOOSE f : IsGiven(f, s, Len(s))
<1>2. IsGiven(f, s, Len(s))
  BY <1>1, Zenon
<1>3. CharactersIn(s) = f[Len(s)]
  BY DEF CharactersIn, IsGiven, More
<1> HIDE DEF f
<1> QED BY <1>2, <1>3

(* An answer adds its character if it answers a read.                      *)
LEMMA CharactersOfAppend ==
  ASSUME NEW s \in Seq(Answers), NEW a \in Answers
  PROVE  CharactersIn(Append(s, a)) = More(CharactersIn(s), a)
<1>1. PICK r, m, k : r = Append(s, a) /\ m = Len(s) /\ k = Len(r)
  OBVIOUS
<1>2. m \in Nat /\ k \in Nat /\ k = m + 1 /\ m <= k
  BY <1>1
<1>3. r[k] = a /\ \A n \in 1 .. m : s[n] = r[n]
  BY <1>1
<1>4. PICK f : IsGiven(f, s, m) /\ CharactersIn(s) = f[m]
  BY <1>1, <1>2, CharactersAre
<1>5. PICK g : IsGiven(g, r, k) /\ CharactersIn(r) = g[k]
  BY <1>1, <1>2, CharactersAre
<1>6. f[m] = g[m]
  BY <1>2, <1>3, <1>4, <1>5, GivenAgree
<1>7. g[k] = More(g[m], r[k])
  BY <1>2, <1>5, GivenNext
<1> QED BY <1>1, <1>3, <1>4, <1>5, <1>6, <1>7

LEMMA CharactersType ==
  ASSUME NEW s \in Seq(Answers)
  PROVE  CharactersIn(s) \in Seq(Char \cup {Done})
<1>1. Len(s) \in Nat /\ \A n \in 1 .. Len(s) : s[n].val \in Char \cup {Done}
  <2>1. Len(s) \in Nat /\ \A n \in 1 .. Len(s) : s[n] \in Answers
    OBVIOUS
  <2>2. \A a \in Answers : a.val \in Char \cup {Done}
    BY DEF Answers
  <2> QED BY <2>1, <2>2
<1>2. PICK f : IsGiven(f, s, Len(s)) /\ CharactersIn(s) = f[Len(s)]
  BY <1>1, CharactersAre
<1> QED BY <1>1, <1>2, GivenType

LEMMA CharactersOfNone == CharactersIn(<<>>) = <<>>
<1>1. PICK f : IsGiven(f, <<>>, Len(<<>>)) /\ CharactersIn(<<>>) = f[Len(<<>>)]
  BY CharactersAre
<1> QED BY <1>1 DEF IsGiven

(* Only reads wait for a character.                                        *)
ReadsPending == \A k \in 1 .. Len(pending_reads) : pending_reads[k].kind = "read"

LEMMA ReadsStep ==
  ASSUME TypeOK, ReadsPending, [Next]_vars
  PROVE  ReadsPending'
<1>0. pending_reads \in Seq(Command)
  BY DEF TypeOK
<1>1. CASE pending_reads' = pending_reads
  BY <1>1 DEF ReadsPending
<1>2. CASE \E c \in Command : c.kind = "read" /\ pending_reads' = Append(pending_reads, c)
  BY <1>0, <1>2 DEF ReadsPending
<1>3. CASE pending_reads # <<>> /\ pending_reads' = Tail(pending_reads)
  BY <1>0, <1>3 DEF ReadsPending
<1>4. CASE Poll /\ tohost # None
  <2>1. tohost \in Command /\ handle_command(tohost)
    BY <1>4 DEF Poll, TypeOK
  <2> QED BY <1>1, <1>2, <2>1 DEF handle_command, bcd_read
<1>5. \/ pending_reads' = pending_reads
      \/ pending_reads # <<>> /\ pending_reads' = Tail(pending_reads)
      \/ Poll /\ tohost # None
  BY DEF Next, Host, Poll, IdleEnds, Tick, Deliver, Stop, Signal, Type, Send, Take, host, vars
<1> QED BY <1>1, <1>3, <1>4, <1>5

(* The answers a program has taken and those it will, in order.            *)
all == received \o channel

LEMMA AllTypes == TypeOK => all \in Seq(Answers) /\ channel \in Seq(Answers)
<1> QED BY ConcatProperties DEF TypeOK, all, channel, Word

LEMMA AllAppends ==
  ASSUME TypeOK, NEW a \in Answers, channel' = Append(channel, a), received' = received
  PROVE  all' = Append(all, a)
<1>1. PICK x, y : x = received /\ y = channel
  OBVIOUS
<1>2. x \in Seq(Answers) /\ y \in Seq(Answers) /\ <<a>> \in Seq(Answers)
  BY <1>1, AllTypes DEF TypeOK
<1>3. Append(y, a) = y \o <<a>> /\ Append(x \o y, a) = (x \o y) \o <<a>>
  BY <1>2, AppendIsConcat, ConcatProperties
<1>4. (x \o y) \o <<a>> = x \o (y \o <<a>>)
  BY <1>2, ConcatAssociative
<1>5. all' = x \o Append(y, a) /\ all = x \o y
  BY <1>1 DEF all
<1> QED BY <1>3, <1>4, <1>5

(* Whatever the loop, the program or the terminal does, no character is    *)
(* lost, made up or moved.                                                 *)
LEMMA CharactersStep ==
  ASSUME TypeOK, ReadsPending, CharactersKept, [Next]_vars
  PROVE  CharactersKept'
<1>1. PICK chars : chars = CharactersIn(all)
  OBVIOUS
<1>2. chars \in Seq(Char \cup {Done}) /\ typed = chars \o terminal /\ terminal \in Seq(Char)
  BY <1>1, AllTypes, CharactersType DEF CharactersKept, all, TypeOK
<1>3. CharactersKept' <=> typed' = CharactersIn(all') \o terminal'
  BY DEF CharactersKept, all
<1>4. CASE UNCHANGED <<typed, terminal>> /\ all' = all
  BY <1>1, <1>2, <1>3, <1>4
<1>5. CASE Poll /\ tohost # None
  <2>1. PICK c : c = tohost
    OBVIOUS
  <2>2. c \in Command /\ handle_command(c) /\ fromhost' = fromhost
        /\ UNCHANGED <<typed, terminal, received>>
    BY <1>5, <2>1 DEF Poll, TypeOK, world, program
  <2>3. CASE c.kind \in AtOnce
    <3>1. respond(c, Done)
      BY <2>2, <2>3 DEF handle_command
    <3>2. PICK a \in Answers : a = [to |-> c, val |-> Done]
      BY <2>2 DEF Answers
    <3>3. channel' = Append(channel, a)
      BY <2>2, <3>1, <3>2, RespondAppends
    <3>4. all' = Append(all, a)
      BY <2>2, <3>3, AllAppends
    <3>5. CharactersIn(all') = chars
      BY <1>1, <2>3, <3>2, <3>4, AllTypes, CharactersOfAppend DEF More, AtOnce
    <3> QED BY <1>2, <1>3, <2>2, <3>5
  <2>4. CASE c.kind \notin AtOnce
    <3>1. UNCHANGED <<fromhost_queue, fromhost, received>>
      BY <2>2, <2>4 DEF handle_command
    <3>2. all' = all
      BY <3>1 DEF all, channel, Word
    <3> QED BY <1>4, <2>2, <3>2
  <2> QED BY <2>3, <2>4
<1>6. CASE Tick /\ pending_reads # <<>> /\ terminal # <<>>
  <2>1. PICK c, ch, rest : c = Head(pending_reads) /\ ch = Head(terminal) /\ rest = Tail(terminal)
    OBVIOUS
  <2>2. c \in Command /\ c.kind = "read" /\ ch \in Char /\ rest \in Seq(Char)
        /\ terminal = <<ch>> \o rest
    BY <1>6, <2>1, AppendTail, ConcatWord DEF TypeOK, ReadsPending
  <2>3. /\ respond(c, ch) /\ terminal' = rest
        /\ UNCHANGED <<typed, fromhost, received>>
    BY <1>6, <2>1 DEF Tick, program
  <2>4. PICK a \in Answers : a = [to |-> c, val |-> ch]
    BY <2>2 DEF Answers
  <2>5. channel' = Append(channel, a)
    BY <2>2, <2>3, <2>4, RespondAppends
  <2>6. all' = Append(all, a)
    BY <2>3, <2>5, AllAppends
  <2>7. CharactersIn(all') = Append(chars, ch)
    BY <1>1, <2>2, <2>4, <2>6, AllTypes, CharactersOfAppend DEF More
  <2>8. Append(chars, ch) \o rest = chars \o (<<ch>> \o rest)
    <3>1. /\ chars \in Seq(Char \cup {Done}) /\ rest \in Seq(Char \cup {Done})
          /\ ch \in Char \cup {Done} /\ <<ch>> \in Seq(Char \cup {Done})
      BY <1>2, <2>2, SeqMonotonic
    <3>2. Append(chars, ch) = chars \o <<ch>>
      BY <3>1, AppendIsConcat
    <3> QED BY <3>1, <3>2, ConcatAssociative
  <2> QED BY <1>2, <1>3, <2>2, <2>3, <2>7, <2>8
<1>7. CASE \E ch \in Char : Type(ch)
  <2>1. PICK ch \in Char : typed' = Append(typed, ch) /\ terminal' = Append(terminal, ch)
          /\ UNCHANGED <<fromhost, fromhost_queue, received>>
    BY <1>7 DEF Type, host, program
  <2>2. all' = all
    BY <2>1 DEF all, channel, Word
  <2>3. Append(chars \o terminal, ch) = chars \o Append(terminal, ch)
    <3>1. PICK t : t = terminal
      OBVIOUS
    <3>2. /\ chars \in Seq(Char \cup {Done}) /\ t \in Seq(Char \cup {Done})
          /\ ch \in Char \cup {Done} /\ <<ch>> \in Seq(Char \cup {Done})
      BY <1>2, <3>1, SeqMonotonic
    <3>3. Append(chars \o t, ch) = (chars \o t) \o <<ch>> /\ Append(t, ch) = t \o <<ch>>
      BY <3>2, AppendIsConcat, ConcatProperties
    <3> QED BY <3>1, <3>2, <3>3, ConcatAssociative
  <2> QED BY <1>1, <1>2, <1>3, <2>1, <2>2, <2>3
<1>8. CASE Deliver /\ fromhost_queue # <<>> /\ fromhost = None
  <2>1. /\ fromhost_queue # <<>> /\ fromhost = None /\ fromhost' = Head(fromhost_queue)
        /\ fromhost_queue' = Tail(fromhost_queue) /\ UNCHANGED <<typed, terminal, received>>
    BY <1>8 DEF Deliver, world, program
  <2>2. fromhost_queue \in Seq(Answers) /\ Head(fromhost_queue) \in Answers
    BY <2>1, AppendTail DEF TypeOK
  <2>3. Word(fromhost) = <<>> /\ Word(fromhost)' = <<Head(fromhost_queue)>>
    BY <2>1, <2>2, HtifAssumption DEF Word
  <2>4. channel = fromhost_queue
    BY <2>2, <2>3, ConcatWord DEF channel
  <2>5. channel' = <<Head(fromhost_queue)>> \o Tail(fromhost_queue)
    BY <2>1, <2>3 DEF channel
  <2>6. channel' = channel
    BY <2>1, <2>2, <2>4, <2>5, ConcatWord
  <2> QED BY <1>4, <2>1, <2>6 DEF all
<1>9. CASE Take
  <2>1. /\ fromhost # None /\ fromhost \in Answers /\ fromhost_queue \in Seq(Answers)
        /\ received \in Seq(Answers) /\ received' = Append(received, fromhost)
        /\ fromhost' = None /\ UNCHANGED <<fromhost_queue, typed, terminal>>
    BY <1>9 DEF Take, host, world, TypeOK
  <2>2. PICK x, a, q : x = received /\ a = fromhost /\ q = fromhost_queue
    OBVIOUS
  <2>3. x \in Seq(Answers) /\ a \in Answers /\ q \in Seq(Answers) /\ <<a>> \in Seq(Answers)
    BY <2>1, <2>2
  <2>4. all = x \o (<<a>> \o q)
    BY <2>1, <2>2 DEF all, channel, Word
  <2>5. all' = Append(x, a) \o (<<>> \o q)
    BY <2>1, <2>2 DEF all, channel, Word
  <2>6. <<>> \o q = q /\ Append(x, a) = x \o <<a>>
    BY <2>3, ConcatEmptySeq, AppendIsConcat
  <2>7. (x \o <<a>>) \o q = x \o (<<a>> \o q)
    BY <2>3, ConcatAssociative
  <2> QED BY <1>4, <2>1, <2>4, <2>5, <2>6, <2>7
<1>10. CASE UNCHANGED <<typed, terminal, received, fromhost, fromhost_queue>>
  BY <1>4, <1>10 DEF all, channel, Word
<1>11. \/ Poll /\ tohost # None
       \/ Tick /\ pending_reads # <<>> /\ terminal # <<>>
       \/ \E ch \in Char : Type(ch)
       \/ Deliver /\ fromhost_queue # <<>> /\ fromhost = None
       \/ Take
       \/ UNCHANGED <<typed, terminal, received, fromhost, fromhost_queue>>
  <2>1. CASE Tick
    BY <2>1 DEF Tick, program
  <2>2. CASE Deliver
    BY <2>2 DEF Deliver, world, program
  <2>3. CASE Poll
    BY <2>3 DEF Poll, world, program
  <2> QED
    BY <2>1, <2>2, <2>3 DEF Next, Host, IdleEnds, Stop, Signal, Send, host, world, program, vars
<1> QED BY <1>5, <1>6, <1>7, <1>8, <1>9, <1>10, <1>11

(* Every character typed reaches one read, in the order typed, or is still *)
(* to be read: whatever commands come between a read and its answer.       *)
THEOREM CharactersTheorem == Spec => []CharactersKept
<1>1. Init => ReadsPending /\ CharactersKept
  <2> SUFFICES ASSUME Init PROVE ReadsPending /\ CharactersKept OBVIOUS
  <2>1. received \o channel = <<>> \o (<<>> \o <<>>)
    BY DEF Init, channel, Word
  <2>2. <<>> \o <<>> = <<>>
    BY ConcatEmptySeq, <<>> \in Seq({})
  <2>3. CharactersKept
    BY <2>1, <2>2, CharactersOfNone DEF Init, CharactersKept
  <2> QED BY <2>3 DEF Init, ReadsPending
<1>2. TypeOK /\ ReadsPending /\ CharactersKept /\ [Next]_vars => (ReadsPending /\ CharactersKept)'
  BY ReadsStep, CharactersStep
<1> QED BY TypeCorrect, <1>1, <1>2, PTL DEF Spec
=============================================================================
