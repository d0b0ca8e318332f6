----------------------------- MODULE BluetoothScan ---------------------------
(***************************************************************************)
(* The scan for new probes in src/probes/ble/bluez.c: the panel and the web *)
(* page ask from their own threads, the manager thread alone touches the    *)
(* bus.  An asker notes the count of finished scans under g_mu and then     *)
(* stores the seconds outside it; the manager loads and clears the seconds  *)
(* with g_mu held.  Time is a choice; addresses and signal are left out.    *)
(***************************************************************************)
EXTENDS Naturals

CONSTANTS
  Objects,     \* [name, maker, service, long]: what a Device1 may say of itself
  MaxScans     \* bound on the scans finished

VARIABLES
  asker,       \* the panel's and the web page's call: [at, want]
  seconds,     \* g_scan_seconds > 0
  running,     \* g_scan_deadline # 0
  gen,         \* g_scan_gen
  result,      \* g_scan_result: the objects of the last snapshot
  shown,       \* the panel's list
  avail,       \* g_avail
  held         \* the manager holds g_mu, with the seconds it loaded: "no", "idle", "scan"

svars == <<asker, seconds, running, gen, result, shown, avail, held>>

Askers == {"panel", "web"}
Rest == [at |-> "rest", want |-> 0]

Init ==
  /\ asker = [a \in Askers |-> Rest] /\ seconds = FALSE /\ running = FALSE
  /\ gen = 0 /\ result = {} /\ shown = {} /\ avail = FALSE /\ held = "no"

\* classify, from the maker's id, the name and the advertised services
Classify(o) ==
  IF o.maker THEN "chefiq"
  ELSE IF o.name = "meater" \/ o.service = "meater" THEN "meater"
  ELSE IF o.name = "ibbq" \/ o.service = "ibbq" THEN "ibbq"
  ELSE IF o.name = "cq" THEN "chefiq" ELSE ""

\* scan_cb: the hub has the maker's id and is nothing to pair
Kind(o) ==
  IF Classify(o) = "chefiq" /\ (o.long \/ o.name = "thermometer")
  THEN "chefiq-hub" ELSE Classify(o)

-----------------------------------------------------------------------------
(* The askers *)

\* pf_ble_scan_start and pf_ble_scan_json: first the count, under g_mu, then
\* the seconds, outside it.  The panel may ask again while it waits.
MayAsk(a) == avail /\ (asker[a].at = "rest" \/ (a = "panel" /\ asker[a].at = "wait"))

AskStoringFirst(a) ==   \* fault: the seconds are stored before the count is read
  /\ \/ /\ MayAsk(a) /\ seconds' = TRUE /\ asker' = [asker EXCEPT ![a].at = "store"]
     \/ /\ asker[a].at = "store" /\ held = "no" /\ UNCHANGED seconds
        /\ asker' = [asker EXCEPT ![a] = [at |-> "wait", want |-> gen]]
  /\ UNCHANGED <<running, gen, result, shown, avail, held>>
Ask(a) ==
  /\ \/ /\ MayAsk(a) /\ held = "no" /\ UNCHANGED seconds
        /\ asker' = [asker EXCEPT ![a] = [at |-> "store", want |-> gen]]
     \/ /\ asker[a].at = "store"
        /\ seconds' = TRUE /\ asker' = [asker EXCEPT ![a].at = "wait"]
  /\ UNCHANGED <<running, gen, result, shown, avail, held>>

Done(a) == asker[a].at = "wait" /\ gen # asker[a].want

\* pf_ble_scan_take in bt_collect: the probes of the make that was asked for
Collect(make) ==
  /\ Done("panel") /\ held = "no"
  /\ shown' = {o \in result : Kind(o) = make}
  /\ asker' = [asker EXCEPT !["panel"] = Rest]
  /\ UNCHANGED <<seconds, running, gen, result, avail, held>>

\* pf_ble_scan_json returns: with the list, or empty five seconds too late
Return ==
  /\ asker["web"].at = "wait" /\ held = "no"
  /\ asker' = [asker EXCEPT !["web"] = Rest]
  /\ UNCHANGED <<seconds, running, gen, result, shown, avail, held>>

-----------------------------------------------------------------------------
(* The manager's tick *)

\* find_adapter: without one the tick ends here, the request stands
Adapter ==
  /\ held = "no" /\ avail' \in BOOLEAN
  /\ held' = IF avail' THEN IF seconds THEN "scan" ELSE "idle" ELSE "no"
  /\ UNCHANGED <<asker, seconds, running, gen, result, shown>>

\* the window is opened, or goes on
Window ==
  /\ held \in {"idle", "scan"} /\ held' = "no"
  /\ running' = (running \/ held = "scan")
  /\ UNCHANGED <<asker, seconds, gen, result, shown, avail>>

\* the window is over: the snapshot is taken and the request cleared
Snapshot ==
  /\ held = "scan" /\ running /\ gen < MaxScans /\ held' = "no"
  /\ \E S \in SUBSET Objects : result' = S
  /\ gen' = gen + 1 /\ running' = FALSE /\ seconds' = FALSE
  /\ UNCHANGED <<asker, shown, avail>>

Next ==
  \/ \E a \in Askers : Ask(a)
  \/ \E make \in {"chefiq", "meater", "ibbq"} : Collect(make)
  \/ Return \/ Adapter \/ Window \/ Snapshot

Spec == Init /\ [][Next]_svars

-----------------------------------------------------------------------------

\* Nobody waits for a scan that no one will make: while the count an asker
\* noted is still the current one, its request stands (bluez.c:862-871, the
\* seconds cleared at bluez.c:765 while another asker stores them).
ScanIsComing ==
  \A a \in Askers : asker[a].at = "wait" /\ ~Done(a) => seconds

=============================================================================
