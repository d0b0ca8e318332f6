----------------------------- MODULE CommandFifo ----------------------------
(***************************************************************************)
(* What the queue between the threads that ask (web, panel, tuner) and the    *)
(* control thread promises: a bounded first-in first-out queue. A command     *)
(* that finds room is kept and taken once, in the order in which commands     *)
(* were accepted; one that does not is refused, and its sender told.          *)
(***************************************************************************)
EXTENDS Naturals, Sequences

CONSTANTS
  Command,    \* what may be asked
  Room,       \* how many commands wait at most
  Nobody      \* no command

VARIABLES
  waiting,    \* the commands accepted and not yet taken, in order
  taken,      \* the command last taken
  answer      \* what the last sender was told

fvars == <<waiting, taken, answer>>

Init == waiting = <<>> /\ taken = Nobody /\ answer = "none"

Accept(c) == Len(waiting) < Room /\ waiting' = Append(waiting, c) /\ answer' = "accepted" /\ UNCHANGED taken
Refuse == Len(waiting) = Room /\ answer' = "refused" /\ UNCHANGED <<waiting, taken>>
Take == waiting # <<>> /\ taken' = Head(waiting) /\ waiting' = Tail(waiting) /\ UNCHANGED answer

Next == (\E c \in Command : Accept(c)) \/ Refuse \/ Take

Spec == Init /\ [][Next]_fvars
=============================================================================
