--------------------------------- MODULE Push -------------------------------
(***************************************************************************)
(* src/features/push.c and webpush.c: the daemon's events on their way to a *)
(* phone. The thread that raised one only queues it; one worker sends it,   *)
(* tries once more after five seconds, and gives up. A web push goes to     *)
(* every subscribed phone in turn from a copy of the table, unlocked.       *)
(* Keys, encryption and wording are left out. What becomes of a message is  *)
(* a choice: accepted, accepted with the answer lost on its way back (to    *)
(* the code a failure like any other), refused, or never delivered.         *)
(***************************************************************************)
EXTENDS Naturals, Sequences

CONSTANTS
  Phones,      \* endpoints
  Codes,       \* the events' codes
  MaxSubs,     \* MAX_SUBS
  QLen,        \* QLEN
  MaxEvents    \* bound on the events raised

VARIABLES
  subs,        \* g_subs: the endpoint in each slot, or Free
  table,       \* the subscriptions in the database
  services,    \* the services that are switched on
  quiet,       \* the categories switched off
  queue,       \* g_q, of [service, event]
  job,         \* the worker: [at, item, try, left, sent]; left of the copied slots
  heard,       \* history: how each receiver accepted each event, once for each time it did
  events       \* events raised so far

pvars == <<subs, table, services, quiet, queue, job, heard, events>>

Free == "free"
Services == <<"pushover", "ntfy", "webpush">>
Receivers == Phones \cup {"pushover", "ntfy"}
Answers == {"known", "lost"}   \* of an accepted message: whether the daemon learnt of it
Waiting == [at |-> "wait", item |-> <<>>, try |-> 0, left |-> {}, sent |-> 0]

Init ==
  /\ subs = [i \in 1..MaxSubs |-> Free] /\ table = {}
  /\ services = {"pushover", "webpush"} /\ quiet = {"system"}
  /\ queue = <<>> /\ job = Waiting /\ events = 0
  /\ heard = [r \in Receivers |-> [e \in 1..MaxEvents |-> <<>>]]

-----------------------------------------------------------------------------
(* Queueing: the sink *)

\* pf_push_category
Category == [Test_Notify |-> "test", Probe_Temp_Achieved |-> "targets", E7 |-> "alarms",
             Pellet_Level_Low |-> "pellets", Tune_Done |-> "tuning", RULE_1 |-> "system",
             Mode_Change |-> "system"]

\* pf_push_wanted: a rule's message and a test are not filtered
Wanted(service, code) ==
  /\ service \in services
  /\ code = "RULE_1" \/ Category[code] = "test" \/ Category[code] \notin quiet

\* enqueue: dropped when the queue is full
Enqueue(q, service) ==
  IF Len(q) < QLen THEN Append(q, [service |-> service, event |-> events + 1]) ELSE q

\* sink: the three services in turn
Raise(code) ==
  LET Add(q, i) == IF Wanted(Services[i], code) THEN Enqueue(q, Services[i]) ELSE q
  IN  /\ events < MaxEvents
      /\ events' = events + 1
      /\ queue' = Add(Add(Add(queue, 1), 2), 3)
      /\ UNCHANGED <<subs, table, services, quiet, job, heard>>

-----------------------------------------------------------------------------
(* The table of phones *)

Subscribed == {i \in 1..MaxSubs : subs[i] # Free}

\* subs_save
SubsSave == table' = {subs'[i] : i \in 1..MaxSubs} \ {Free}

FirstFree == CHOOSE i \in 1..MaxSubs : subs[i] = Free /\ \A j \in 1..(i - 1) : subs[j] # Free

\* pf_webpush_subscribe: one record per endpoint
SubscribeAgain(p) ==   \* fault: a refreshed subscription takes another slot
  /\ \E i \in 1..MaxSubs : subs[i] = Free
  /\ subs' = [subs EXCEPT ![FirstFree] = p]
  /\ SubsSave
  /\ UNCHANGED <<services, quiet, queue, job, heard, events>>
Subscribe(p) ==
  /\ \/ \E i \in Subscribed : subs[i] = p /\ UNCHANGED subs
     \/ /\ \A i \in Subscribed : subs[i] # p
        /\ \E i \in 1..MaxSubs : subs[i] = Free
        /\ subs' = [subs EXCEPT ![FirstFree] = p]
  /\ SubsSave
  /\ UNCHANGED <<services, quiet, queue, job, heard, events>>

\* pf_webpush_unsubscribe
Without(p) == [i \in 1..MaxSubs |-> IF subs[i] = p THEN Free ELSE subs[i]]

Unsubscribe(p) ==
  /\ p \in {subs[i] : i \in 1..MaxSubs}
  /\ subs' = Without(p) /\ SubsSave
  /\ UNCHANGED <<services, quiet, queue, job, heard, events>>

-----------------------------------------------------------------------------
(* The worker *)

Take ==
  /\ job.at = "wait" /\ queue # <<>>
  /\ queue' = Tail(queue)
  /\ job' = [Waiting EXCEPT !.at = "deliver", !.item = Head(queue), !.try = 1]
  /\ UNCHANGED <<subs, table, services, quiet, heard, events>>

\* once more after five seconds, then never
Failed == job' = IF job.try = 1 THEN [job EXCEPT !.at = "pause"] ELSE Waiting

Accept(r, answer) == heard' = [heard EXCEPT ![r][job.item.event] = Append(@, answer)]

\* deliver_pushover, deliver_ntfy: accepted; accepted, but the answer is cut off or later than
\* fifteen seconds; or refused, unreachable or without credentials
DeliverOne(service) ==
  /\ job.at = "deliver" /\ job.item.service = service
  /\ \/ Accept(service, "known") /\ job' = Waiting
     \/ Accept(service, "lost") /\ Failed
     \/ Failed /\ UNCHANGED heard
  /\ UNCHANGED <<subs, table, services, quiet, queue, events>>

DeliverPushover == DeliverOne("pushover")
DeliverNtfy == DeliverOne("ntfy")

\* deliver_webpush, and send_all up to its loop: the table is copied and let go
CopyTable ==
  /\ job.at = "deliver" /\ job.item.service = "webpush"
  /\ IF Subscribed = {} THEN Failed
     ELSE job' = [job EXCEPT !.at = "post", !.left = {<<i, subs[i]>> : i \in Subscribed}, !.sent = 0]
  /\ UNCHANGED <<subs, table, services, quiet, queue, heard, events>>

\* post_one, for the next phone of the copy: accepted, with the answer or without, expired, or
\* anything else
Post ==
  /\ job.at = "post"
  /\ \E next \in job.left :
       LET p == next[2]
           after == [job EXCEPT !.left = @ \ {next}]
       IN  /\ \A other \in job.left : next[1] <= other[1]
           /\ \/ Accept(p, "known") /\ job' = [after EXCEPT !.sent = @ + 1] /\ UNCHANGED <<subs, table>>
              \/ Accept(p, "lost") /\ job' = after /\ UNCHANGED <<subs, table>>
              \/ subs' = Without(p) /\ SubsSave /\ job' = after /\ UNCHANGED heard
              \/ job' = after /\ UNCHANGED <<subs, table, heard>>
  /\ UNCHANGED <<services, quiet, queue, events>>

\* send_all, its result: sent when any phone took it
Posted ==
  /\ job.at = "post" /\ job.left = {}
  /\ IF job.sent > 0 THEN job' = Waiting ELSE Failed
  /\ UNCHANGED <<subs, table, services, quiet, queue, heard, events>>

Retry ==
  /\ job.at = "pause"
  /\ job' = [job EXCEPT !.at = "deliver", !.try = 2]
  /\ UNCHANGED <<subs, table, services, quiet, queue, heard, events>>

-----------------------------------------------------------------------------
\* pf_push_init, pf_webpush_init: the queue is gone, the subscriptions are read back
Restart ==
  /\ \E s \in [1..MaxSubs -> Phones \cup {Free}] :
       /\ {s[i] : i \in 1..MaxSubs} \ {Free} = table
       /\ \A i, j \in 1..MaxSubs : i < j => (s[i] = Free => s[j] = Free) /\ (s[i] = s[j] => s[i] = Free)
       /\ subs' = s
  /\ queue' = <<>> /\ job' = Waiting
  /\ UNCHANGED <<table, services, quiet, heard, events>>

\* the settings page: a service or a category switched on or off
Toggle(set, x) == IF x \in set THEN set \ {x} ELSE set \cup {x}

Edit ==
  /\ \/ \E i \in 1..3 : services' = Toggle(services, Services[i]) /\ UNCHANGED quiet
     \/ quiet' = Toggle(quiet, "targets") /\ UNCHANGED services
  /\ UNCHANGED <<subs, table, queue, job, heard, events>>

Next ==
  \/ Take \/ DeliverPushover \/ DeliverNtfy \/ CopyTable \/ Post \/ Posted \/ Retry \/ Restart \/ Edit
  \/ \E c \in Codes : Raise(c)
  \/ \E p \in Phones : Subscribe(p) \/ Unsubscribe(p)

Spec == Init /\ [][Next]_pvars

-----------------------------------------------------------------------------
(* "collecting duplicates would mean every notification arriving twice" (webpush.c:387). Whatever *)
(* is subscribed, refreshed, switched or retried meanwhile, a receiver that accepts an event once  *)
(* more did so only because the answer to its first acceptance was lost, and never a third time    *)
(* (worker, send_all, pf_webpush_subscribe).                                                       *)
TwiceOnlyIfLost ==
  \A r \in Receivers, e \in 1..MaxEvents :
    LET h == heard[r][e]
    IN  Len(h) <= 2 /\ \A i \in 1..Len(h) : i < Len(h) => h[i] = "lost"
=============================================================================
