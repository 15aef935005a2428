------------------------------- MODULE MCPlic -------------------------------
(***************************************************************************)
(* Two contexts, and two sources in different enable words.                *)
(***************************************************************************)
EXTENDS Plic

\* Three priorities for the second source and two for the first: a tie, a
\* later source that wins and a later source that loses.  One context uses
\* its threshold.  Id 3, a bit of the second word, belongs to no source and
\* stays disabled.
Bounded ==
  /\ priority[1] <= 1
  /\ \A c \in Contexts : enable[c] \subseteq Sources
  /\ \A c \in Contexts \ {1} : threshold[c] = 0
=============================================================================
