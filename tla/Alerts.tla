-------------------------------- MODULE Alerts ------------------------------
(***************************************************************************)
(* The notification rules of src/features/rules.c, the table of what is       *)
(* wrong of src/features/alarms.c, and the events of src/core/events.c that   *)
(* put moments into the same table.                                         *)
(*                                                                         *)
(* Two rules watch the hopper, "low" and "critical"; critical supersedes low,  *)
(* and may announce itself again. The control thread walks the rules once a   *)
(* second and lets go of their lock while it announces; the web thread         *)
(* acknowledges, silences, tests, switches off and deletes. Left out is what  *)
(* rules about the hopper do not meet: the ones about the pit are passed over  *)
(* while the lid is open, and one that selects every probe has a state for    *)
(* them all.                                                                *)
(***************************************************************************)
EXTENDS Naturals, FiniteSets

CONSTANTS
  Slots,       \* PF_ALARMS_MAX
  For,         \* for_s: how long a condition must have held
  ClearAfter,  \* clear_after_s
  Cooldown,    \* cooldown_s
  Repeat,      \* repeat_s of the critical rule
  Window, Shelf, Chatter,   \* CHATTER_WINDOW_S, CHATTER_SHELF_S, CHATTER_RAISES
  MaxNow,      \* bound on the clock
  MaxAsks      \* bound on what the web thread asks and on the moments noted

VARIABLES
  now, level, cooking,   \* the status: the hopper's reading, or Nothing; a mode that cooks
  rule,        \* each rule is "on", "off" or "gone"
  st,          \* g_state: [held, false, fired, armed, raised]; times are 0 or the second + 1
  table,       \* g_tab
  turn,        \* the rules this tick has still to walk, and those superseded in it
  fire,        \* the rule being announced, and whether it repeats itself
  asks         \* what was asked and noted so far

avars == <<now, level, cooking, rule, st, table, turn, fire, asks>>

Rules == {"low", "critical"}
Nothing == 9
Levels == {1, 2, Nothing}
Above(r) == IF r = "low" THEN 2 ELSE 1            \* the value in the condition
Supersedes(r) == IF r = "critical" THEN {"low"} ELSE {}
Severe(r) == r = "critical"                       \* PF_CRIT_HIGH or above
Stamp == now + 1

Unused == [key |-> "none", active |-> FALSE, acked |-> FALSE, retired |-> FALSE, severe |-> FALSE,
           at |-> 0, cleared |-> 0, start |-> 0, raises |-> 0, shelved |-> 0]
Fresh == [held |-> 0, false |-> 0, fired |-> 0, armed |-> TRUE, raised |-> FALSE]
NoFire == [rule |-> "none", again |-> FALSE]

Init ==
  /\ now = 0 /\ level = 3 /\ cooking = TRUE
  /\ rule = [r \in Rules |-> "on"] /\ st = [r \in Rules |-> Fresh]
  /\ table = [s \in 1..Slots |-> Unused]
  /\ turn = [todo |-> {}, covered |-> {}] /\ fire = NoFire /\ asks = 0

-----------------------------------------------------------------------------
(* The table *)

Used(s) == table[s].key # "none"
Of(key) == {s \in 1..Slots : table[s].key = key}

\* reap: a retired entry that can say no more about chattering
Stale(e) == e.retired /\ Stamp - e.cleared > 2 * Window /\ e.shelved < Stamp
Reaped == [s \in 1..Slots |-> IF Stale(table[s]) THEN Unused ELSE table[s]]

\* slot_for: its own (a moment's key has its second in it), else a free one, else history, else the oldest that is over and seen
Oldest(t, S) == {s \in S : \A u \in S : t[s].at <= t[u].at}
SlotsFor(t, key) ==
  LET own == {s \in DOMAIN t : t[s].key = key /\ (key = "moment" => t[s].at = Stamp)}
      free == {s \in DOMAIN t : t[s] = Unused}
      past == {s \in DOMAIN t : t[s].retired}
      seen == {s \in DOMAIN t : ~t[s].active /\ t[s].acked}
      first(S) == {s \in S : \A u \in S : s <= u}
  IN IF own # {} THEN own ELSE IF free # {} THEN first(free)
     ELSE IF past # {} THEN first(past) ELSE first(Oldest(t, seen))

\* the count of a condition that comes and goes, and the shelf it ends on
Activated(e) ==
  LET again == Stamp - e.start > Window
      n == IF again THEN 1 ELSE e.raises + 1
  IN [e EXCEPT !.active = TRUE, !.acked = FALSE, !.at = Stamp, !.cleared = 0, !.raises = n,
               !.start = IF again THEN Stamp ELSE @,
               !.shelved = IF n >= Chatter /\ @ < Stamp THEN Stamp + Shelf ELSE @]

\* pf_alarms_raise; an entry taken over from another keeps that one's key
Raise(key, severe) ==
  LET t == Reaped IN
  IF SlotsFor(t, key) = {} THEN table' = t
  ELSE \E s \in SlotsFor(t, key) :
         LET e == IF t[s] = Unused THEN [Unused EXCEPT !.key = key, !.start = Stamp] ELSE t[s]
             f == [e EXCEPT !.severe = severe, !.retired = FALSE]
         IN table' = [t EXCEPT ![s] = IF f.active THEN f ELSE Activated(f)]

\* pf_alarms_clear: what mattered and nobody saw stays, marked as over
Cleared(e) ==
  IF ~e.active THEN e
  ELSE LET off == e.acked \/ ~e.severe
       IN [e EXCEPT !.active = FALSE, !.cleared = Stamp, !.retired = off, !.acked = @ \/ off]
Clear(key) == table' = [s \in 1..Slots |-> IF table[s].key = key THEN Cleared(table[s]) ELSE table[s]]

\* pf_alarms_retire: nobody looks at it any more, so nothing is kept
Retired(e) ==
  IF e.retired THEN e
  ELSE [e EXCEPT !.active = FALSE, !.acked = TRUE, !.retired = TRUE, !.cleared = IF @ = 0 THEN Stamp ELSE @]

AckedAway(e) ==      \* fault: what is acknowledged leaves, standing or not
  [e EXCEPT !.acked = TRUE, !.active = FALSE, !.retired = TRUE, !.cleared = Stamp]
\* pf_alarms_ack: what is over leaves, what stands stays
Acked(e) ==
  [e EXCEPT !.acked = TRUE, !.retired = @ \/ ~e.active,
            !.cleared = IF e.active \/ @ > 0 THEN @ ELSE Stamp]

Asked == asks < MaxAsks /\ asks' = asks + 1

\* pf_events_emit of anything but bookkeeping: pf_alarms_note
Moment ==
  /\ Asked
  /\ IF SlotsFor(table, "moment") = {} THEN UNCHANGED table
     ELSE \E s \in SlotsFor(table, "moment") :
            table' = [table EXCEPT ![s] = [Unused EXCEPT !.key = "moment", !.at = Stamp]]
  /\ UNCHANGED <<now, level, cooking, rule, st, turn, fire>>

-----------------------------------------------------------------------------
(* The rules *)

\* compare: nothing is not zero, and the deadband only widens what is already reported
Holds(r) == level # Nothing /\ level <= Above(r) + (IF st[r].raised THEN 1 ELSE 0)

\* what stood on the last tick supersedes
Tick ==
  /\ turn.todo = {} /\ fire = NoFire /\ now < MaxNow
  /\ now' = now + 1
  /\ \E l \in Levels, c \in BOOLEAN : level' = l /\ cooking' = c
  /\ turn' = [todo |-> {r \in Rules : rule[r] # "gone"},
              covered |-> UNION {Supersedes(r) : r \in {q \in Rules : rule[q] = "on" /\ st[q].raised}}]
  /\ UNCHANGED <<rule, st, table, fire, asks>>

Order(r) == r \in turn.todo /\ (r = "critical" => "low" \notin turn.todo)
Walked(r) == turn' = [turn EXCEPT !.todo = @ \ {r}]

\* retire_rule: switched off, not cooking, or superseded
Retire(r) ==
  /\ Order(r) /\ fire = NoFire
  /\ rule[r] = "off" \/ ~cooking \/ r \in turn.covered
  /\ IF st[r].raised
     THEN /\ st' = [st EXCEPT ![r] = [Fresh EXCEPT !.fired = st[r].fired]]
          /\ table' = [s \in 1..Slots |-> IF table[s].key = r THEN Retired(table[s]) ELSE table[s]]
     ELSE UNCHANGED <<st, table>>
  /\ Walked(r) /\ UNCHANGED <<now, level, cooking, rule, fire, asks>>

Watched(r) == Order(r) /\ fire = NoFire /\ rule[r] # "off" /\ cooking /\ r \notin turn.covered

\* the condition is false: armed again, and after clear_after_s no longer reported
Ends(r) ==
  /\ Watched(r) /\ ~Holds(r)
  /\ LET since == IF st[r].false = 0 THEN Stamp ELSE st[r].false
         over == st[r].raised /\ Stamp - since >= ClearAfter
     IN /\ IF over THEN Clear(r) ELSE UNCHANGED table
        /\ st' = [st EXCEPT ![r].held = 0, ![r].armed = TRUE, ![r].raised = @ /\ ~over,
                            ![r].false = IF ~st[r].raised THEN @ ELSE IF over THEN 0 ELSE since]
  /\ Walked(r) /\ UNCHANGED <<now, level, cooking, rule, fire, asks>>

\* the condition is true: held long enough, due, and not too soon after the last time
Stands(r) ==
  /\ Watched(r) /\ Holds(r)
  /\ LET s == st[r]
         held == IF s.held = 0 THEN Stamp ELSE s.held
         due == s.armed \/ (Severe(r) /\ Repeat > 0 /\ Stamp - s.fired >= Repeat)
         speaks == Stamp - held >= For /\ due /\ ~(s.fired > 0 /\ Stamp - s.fired < Cooldown)
     IN /\ st' = [st EXCEPT ![r] = [held |-> held, false |-> 0,
                                    fired |-> IF speaks THEN Stamp ELSE s.fired,
                                    armed |-> s.armed /\ ~speaks, raised |-> s.raised \/ speaks]]
        /\ fire' = IF speaks THEN [rule |-> r, again |-> ~s.armed] ELSE NoFire
  /\ Walked(r) /\ UNCHANGED <<now, level, cooking, rule, table, asks>>

\* fire, with the lock let go
Announce ==
  /\ fire # NoFire /\ fire' = NoFire
  /\ Raise(fire.rule, Severe(fire.rule))
  /\ UNCHANGED <<now, level, cooking, rule, st, turn, asks>>

-----------------------------------------------------------------------------
(* The web thread *)

Ack(s) ==
  /\ Asked /\ Used(s) /\ table' = [table EXCEPT ![s] = Acked(table[s])]
  /\ UNCHANGED <<now, level, cooking, rule, st, turn, fire>>

Shelve(s) ==
  /\ Asked /\ Used(s) /\ table' = [table EXCEPT ![s].shelved = Stamp + Shelf, ![s].acked = TRUE]
  /\ UNCHANGED <<now, level, cooking, rule, st, turn, fire>>

\* pf_rules_test: a test always speaks, and raises as the rule would
Test(r) ==
  /\ Asked /\ rule[r] # "gone" /\ Raise(r, Severe(r))
  /\ UNCHANGED <<now, level, cooking, rule, st, turn, fire>>

\* the settings page sends the list of rules; the tick reads its own copy of it
Edit(r, to) ==
  /\ Asked /\ rule[r] # "gone" /\ rule[r] # to /\ turn.todo = {} /\ fire = NoFire
  /\ rule' = [rule EXCEPT ![r] = to]
  /\ UNCHANGED <<now, level, cooking, st, table, turn, fire>>

Next ==
  \/ Tick \/ Announce \/ Moment
  \/ \E r \in Rules : Retire(r) \/ Ends(r) \/ Stands(r) \/ Test(r)
                      \/ \E to \in {"on", "off", "gone"} : Edit(r, to)
  \/ \E s \in 1..Slots : Ack(s) \/ Shelve(s)

Spec == Init /\ [][Next]_avars

-----------------------------------------------------------------------------
(* What must hold *)

\* While a rule reports something, the table lists it as standing: no acknowledgement, silence,
\* eviction or notice in between takes it away (rules.c:741, alarms.c:80).
ReportIsListed ==
  \A r \in Rules : st[r].raised /\ fire.rule # r => \E s \in Of(r) : table[s].active

\* "leaving its entry standing would be the system claiming to know something it has stopped
\* looking at" (rules.c:560): an entry stands only while its rule reports it. Not so of a rule
\* that was deleted (README, Found).
EntryHasOwner ==
  \A s \in 1..Slots : table[s].active => table[s].key \in Rules /\ rule[table[s].key] # "gone"
                                         /\ st[table[s].key].raised
=============================================================================
