---------------------------- MODULE HostInterface ----------------------------
(***************************************************************************)
(* What the host-target interface promises a program that runs on the      *)
(* simulated machine: a command that is answered is answered once; most    *)
(* are answered when they are accepted, reads of the terminal later but in *)
(* the order they were made; and the answers form a queue the program      *)
(* empties at its own pace.                                                *)
(***************************************************************************)
EXTENDS Sequences

CONSTANTS Command, Value

VARIABLES
  asked,    \* the accepted reads that wait for a character
  channel   \* the answers on their way to the program

vars == <<asked, channel>>

Answer(c, v) == [to |-> c, val |-> v]

Init == asked = <<>> /\ channel = <<>>

AnswerAtOnce(c, v) == channel' = Append(channel, Answer(c, v)) /\ UNCHANGED asked
Defer(c) == asked' = Append(asked, c) /\ UNCHANGED channel

AnswerOldest(v) ==
  /\ asked # <<>>
  /\ channel' = Append(channel, Answer(Head(asked), v))
  /\ asked' = Tail(asked)

Take ==
  /\ channel # <<>>
  /\ channel' = Tail(channel)
  /\ UNCHANGED asked

Next ==
  \/ \E c \in Command : Defer(c) \/ \E v \in Value : AnswerAtOnce(c, v)
  \/ \E v \in Value : AnswerOldest(v)
  \/ Take

Spec == Init /\ [][Next]_vars
=============================================================================
