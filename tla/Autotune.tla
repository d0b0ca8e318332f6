------------------------------ MODULE Autotune -----------------------------
(***************************************************************************)
(* The relay test of src/core/control.c. The feed swings about a centre;    *)
(* each time the pit crosses the set point a half is recorded, and on the   *)
(* odd crossings from the third to the ninth the relay is conditioned: its  *)
(* swing resized, its centre moved, or trimmed. The result is read from the *)
(* last four halves, so only those are kept here. A half is known by the    *)
(* relay it was run with: a resizing, a material centring and a recentring  *)
(* each make a new one. What the amplitude, the period and the averages     *)
(* say, and how long a half takes, are choices.                            *)
(***************************************************************************)
EXTENDS Integers, Sequences

CONSTANTS
  MinCross,       \* PF_AT_MIN_CROSS
  MaxCross,       \* PF_AT_MAX
  MaxResizes,     \* 2
  MaxAdjusts,     \* 5
  MaxRecentres,   \* 8
  MaxTests        \* bound on the tests

VARIABLES
  on,             \* autotune.active
  relayId,        \* which relay is running
  halves,         \* the relays of the last four recorded halves
  crossings, adjusts, resizes, recentres,
  changedAt,      \* adjust_at_cross
  errors,         \* meas_err_sum: the relays whose errors are in it
  lid,            \* the lid is open: the relay is not asked
  window,         \* learn.u_sum: how many tests the samples of the steady window had seen
  filed,          \* history: the results filed, each the relays of the halves it was read from
  judged,         \* history: the relays of the errors that said a finished cycle was centred
  learnt,         \* history: the observations, each the numbers its samples had seen
  tests

relayVars == <<relayId, halves, crossings, adjusts, resizes, recentres, changedAt, errors>>
vars == <<on, relayVars, lid, window, filed, judged, learnt, tests>>

Fresh ==
  /\ halves' = <<>> /\ crossings' = 0 /\ adjusts' = 0 /\ resizes' = 0 /\ recentres' = 0
  /\ changedAt' = 0 /\ errors' = {}

Init ==
  /\ on = FALSE /\ relayId = 0 /\ halves = <<>> /\ crossings = 0 /\ adjusts = 0 /\ resizes = 0
  /\ recentres = 0 /\ changedAt = 0 /\ errors = {} /\ lid = FALSE /\ window = {}
  /\ filed = {} /\ judged = {} /\ learnt = {} /\ tests = 0

-----------------------------------------------------------------------------
\* autotune_start: refused away from the set point; wiped, and off again, without a load to centre
\* on (the last run's, or a hold of five minutes)
Start ==
  /\ tests < MaxTests
  /\ \/ on' = TRUE /\ relayId' = 1 /\ Fresh /\ tests' = tests + 1
     \/ on' = FALSE /\ relayId' = 0 /\ Fresh /\ UNCHANGED tests
     \/ UNCHANGED <<on, relayVars, tests>>
  /\ UNCHANGED <<lid, window, filed, judged, learnt>>

\* pf_control_autotune_settled: two disjoint cycles have to exist before they can agree
MaySettle(n) == n >= 5

\* autotune_cycle: two halves
Cycle(i) == {halves'[i], halves'[i - 1]}

\* autotune_finish: the last three cycles, each sharing a half with the next
Read == UNION {Cycle(i) : i \in {i \in 2..Len(halves') : i > Len(halves') - 3}}

Finish ==
  /\ on' = FALSE
  /\ \/ MaySettle(crossings') /\ filed' = filed \cup {Read}
     \/ UNCHANGED filed   \* too few, too small, off centre, drifting, or not to be converted

Fails == on' = FALSE /\ UNCHANGED <<relayVars, filed, judged>>

-----------------------------------------------------------------------------
(* autotune_step *)

\* the swing is resized, and judged again two whole cycles later
Resize ==
  /\ resizes = 0 \/ crossings' >= changedAt + 4
  /\ resizes < MaxResizes
  /\ resizes' = resizes + 1 /\ UNCHANGED adjusts

\* a material move of the centre, as long as the moves converge
Centre == adjusts < MaxAdjusts /\ adjusts' = adjusts + 1 /\ UNCHANGED resizes

Changed == relayId' = relayId + 1 /\ changedAt' = crossings' /\ errors' = {}

\* one or the other, or a trim that leaves the record standing
Condition ==
  \/ crossings' \in {3, 5, 7, 9} /\ (Resize \/ Centre) /\ Changed
  \/ UNCHANGED <<relayId, adjusts, resizes, changedAt, errors>>

\* two whole cycles after the last change
ReadyEarly == crossings' >= MinCross /\ crossings' >= changedAt' + 2   \* fault: one cycle
Ready == crossings' >= MinCross /\ crossings' >= changedAt' + 4

LastFour(s) == IF Len(s) > 4 THEN Tail(s) ELSE s

Cross ==
  /\ on /\ ~lid
  /\ crossings' = crossings + 1
  /\ halves' = LastFour(Append(halves, relayId))
  /\ Condition
  /\ \/ Ready /\ crossings' >= MaxCross /\ Finish /\ UNCHANGED judged
     \/ Ready /\ MaySettle(crossings') /\ Finish /\ judged' = judged \cup {errors'}
     \/ ~(Ready /\ crossings' >= MaxCross) /\ UNCHANGED <<on, filed, judged>>
  /\ UNCHANGED <<recentres, lid, window, learnt, tests>>

\* the pit ran away, stalled or drifted: the centre moves and the count starts over, but not the
\* budgets, nor the crossing of the last change, nor the errors summed so far
Recentre ==
  /\ on /\ ~lid /\ recentres < MaxRecentres
  /\ recentres' = recentres + 1 /\ relayId' = relayId + 1 /\ crossings' = 0 /\ halves' = <<>>
  /\ UNCHANGED <<on, adjusts, resizes, changedAt, errors, lid, window, filed, judged, learnt, tests>>

\* away for good, or half an hour without a crossing
GiveUp ==
  /\ on /\ ~lid
  /\ Fails /\ UNCHANGED <<lid, window, learnt, tests>>

-----------------------------------------------------------------------------
(* Around it *)

\* run_hold_cycle: the error of a cycle that ran after the last change is summed, the lid open or not
Sample ==
  /\ on /\ crossings > changedAt
  /\ errors' = errors \cup {relayId}
  /\ UNCHANGED <<on, relayId, halves, crossings, adjusts, resizes, recentres, changedAt>>
  /\ UNCHANGED <<lid, window, filed, judged, learnt, tests>>

\* learn_track_steady: not during a test; a calm sample, an observation of three minutes of them,
\* or a disturbance
Observe ==
  /\ ~on
  /\ \/ ~lid /\ window' = window \cup {tests} /\ UNCHANGED learnt
     \/ ~lid /\ window # {} /\ window' = {} /\ learnt' = learnt \cup {window \cup {tests}}
     \/ window # {} /\ window' = {} /\ UNCHANGED learnt
  /\ UNCHANGED <<on, relayVars, lid, filed, judged, tests>>

\* enter_mode, or PF_CMD_AUTOTUNE_STOP, which leaves the window alone
Ends ==
  /\ on /\ Fails
  /\ window' \in {{}, window}
  /\ UNCHANGED <<lid, learnt, tests>>

Lid == lid' = ~lid /\ UNCHANGED <<on, relayVars, window, filed, judged, learnt, tests>>

Next == Start \/ Cross \/ Recentre \/ GiveUp \/ Sample \/ Observe \/ Ends \/ Lid

Spec == Init /\ [][Next]_vars

-----------------------------------------------------------------------------
(* "two whole cycles -- four crossings -- are required before any of it counts" (control.c:2155):  *)
(* a result is read from halves that were all run with one relay, whatever was resized, centred    *)
(* and started over before them.                                                                  *)
CleanMeasure == \A r \in filed : \E id \in r : r = {id}

(* "start the measurement over, so every recorded cycle comes from one centre" (control.c:2178):   *)
(* what says a cycle sits on the set point is the errors of that relay. A recentring keeps the     *)
(* errors of the centre it leaves, so this is not so (README, Found).                              *)
JudgedByItsOwn == \A j \in judged : \A a, b \in j : a = b
=============================================================================
