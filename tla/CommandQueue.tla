----------------------------- MODULE CommandQueue ---------------------------
(***************************************************************************)
(* The command queue of src/core/cmdq.c: a ring of QLen slots under one    *)
(* mutex. Every thread but the control thread asks for what it wants by    *)
(* pushing a command; the control thread pops them all at the start of     *)
(* each step (pf_control_step).                                            *)
(***************************************************************************)
EXTENDS Integers, Sequences

CONSTANTS
  Command,    \* the commands; one of them is the emergency stop
  Stop,       \* PF_CMD_STOP
  Nobody,     \* what a slot holds before the first push
  QLen        \* QLEN

ASSUME QLenAssumption == QLen \in Nat \ {0}
ASSUME CommandAssumption == Stop \in Command /\ Nobody \notin Command

VARIABLES
  q,          \* g_q
  head, len,  \* g_head, g_len
  taken,      \* the command the control thread popped last
  answer,     \* what pf_cmdq_push returned last
  stop        \* the emergency stop button: untouched, pressed, honoured

qvars == <<q, head, len, taken, answer, stop>>

Init ==
  /\ q = [i \in 0..(QLen - 1) |-> Nobody] /\ head = 0 /\ len = 0
  /\ taken = Nobody /\ answer = "none" /\ stop = "untouched"

Slot(i) == (head + i) % QLen

\* pf_cmdq_push
Push(c) ==
  IF len < QLen
  THEN q' = [q EXCEPT ![Slot(len)] = c] /\ len' = len + 1 /\ answer' = "accepted"
  ELSE answer' = "refused" /\ UNCHANGED <<q, len>>

\* a command from the application, the panel or the tuner
Ask(c) == Push(c) /\ UNCHANGED <<head, taken, stop>>

\* POST /api/stop and the panel's long press: pf_cmd_simple, its result not looked at
PressStop == Push(Stop) /\ stop' = "pressed" /\ UNCHANGED <<head, taken>>

\* fault: the head is moved before it is read
TakenAfter == q[(head + 1) % QLen]
TakenNow == q[head]

\* pf_cmdq_pop
Pop ==
  /\ len > 0
  /\ taken' = TakenNow /\ head' = (head + 1) % QLen /\ len' = len - 1
  /\ stop' = IF TakenNow = Stop THEN "honoured" ELSE stop
  /\ UNCHANGED <<q, answer>>

Next == (\E c \in Command : Ask(c)) \/ PressStop \/ Pop

Spec == Init /\ [][Next]_qvars

-----------------------------------------------------------------------------
(* Properties *)

TypeOK ==
  /\ q \in [0..(QLen - 1) -> Command \cup {Nobody}]
  /\ head \in 0..(QLen - 1) /\ len \in 0..QLen
  /\ taken \in Command \cup {Nobody} /\ answer \in {"none", "accepted", "refused"}
  /\ stop \in {"untouched", "pressed", "honoured"}

Queued == [i \in 1..len |-> q[Slot(i - 1)]]

Fifo == INSTANCE CommandFifo WITH waiting <- Queued, Room <- QLen

\* The ring is a bounded first-in first-out queue: no command that was accepted is lost,
\* overwritten, repeated or overtaken, wherever in the ring the queue begins (cmdq.c:18-42)
ImplementsFifo == Fifo!Spec

\* An emergency stop that was pressed is waiting to be handled or was handled: "e-stop: always
\* honoured" (cmdq.h:18). Not so when the queue is full (README, Found).
StopIsHonoured == stop = "pressed" => \E i \in 1..len : Queued[i] = Stop
=============================================================================
