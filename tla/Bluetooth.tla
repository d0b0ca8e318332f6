------------------------------- MODULE Bluetooth -----------------------------
(***************************************************************************)
(* src/probes/ble/bluez.c with its drivers ibbq.c, meater.c and chefiq.c:   *)
(* the manager thread that finds, connects and polls the wireless probes,   *)
(* the queue of writes to them, and the slots the drivers register for.     *)
(* Timers (the backoff of 5 to 60 s, the 20 s a connection may take, a      *)
(* minute without an advertisement) may run out at any step.  The bus calls *)
(* fail or succeed by what is in the air and by choice; a payload is either *)
(* there or not.                                                           *)
(***************************************************************************)
EXTENDS Naturals, Sequences, FiniteSets

CONSTANTS
  Slots,        \* MAX_DEVS slots: 1..n
  Probes,       \* the probes that may be set up
  Passive,      \* those that only listen to advertisements
  Pinned,       \* [Probes -> a peripheral's address, or Nowhere]
  Called,       \* [Probes -> the peripherals whose name the spec matches]
  Peripherals,  \* the devices in the air
  Nowhere,      \* no path
  QLen          \* QLEN

VARIABLES
  dev,          \* g_devs
  valid,        \* a driver's "valid": the slot's probe has a reading
  writes,       \* g_q: the slots whose drivers asked for one
  air,          \* what BlueZ knows of each peripheral
  adapter,      \* the adapter answers
  avail,        \* g_avail
  discovering,  \* g_discovering
  pc,           \* the manager: "bus", "write", "step", "discovery" or "ended"
  turn          \* the slot it steps with g_mu held, 0 otherwise

bvars == <<dev, valid, writes, air, adapter, avail, discovering, pc, turn>>

Empty == [used |-> FALSE, release |-> FALSE, probe |-> Nowhere, st |-> "idle",
          at |-> Nowhere, known |-> FALSE, connected |-> FALSE]
States == {"idle", "found", "connecting", "ready", "backoff"}

Init ==
  /\ dev = [i \in Slots |-> Empty] /\ valid = [i \in Slots |-> FALSE]
  /\ writes = <<>>
  /\ air = [p \in Peripherals |-> "away"] /\ adapter = TRUE
  /\ avail = FALSE /\ discovering = FALSE /\ pc = "bus" /\ turn = 0

-----------------------------------------------------------------------------
(* The drivers' side: register, unregister, write *)

Locked == turn # 0              \* g_mu is held while the devices are stepped

\* passive slots waiting for their release are taken back at once
Reclaimed == [i \in Slots |->
  IF dev[i].used /\ dev[i].release /\ dev[i].probe \in Passive
  THEN [dev[i] EXCEPT !.used = FALSE, !.release = FALSE] ELSE dev[i]]

FreeSlots(d) == {i \in Slots : ~d[i].used}
FirstOf(S) == CHOOSE i \in S : \A j \in S : i <= j

\* the memset of a slot that is given out
Fresh(p) == [Empty EXCEPT !.used = TRUE, !.probe = p]

Registered(p) == \E i \in Slots : dev[i].used /\ ~dev[i].release /\ dev[i].probe = p

\* pf_ble_register, from a driver's create
Register(p) ==
  LET d == Reclaimed
      i == FirstOf(FreeSlots(d))
  IN  /\ ~Locked /\ ~Registered(p)
      /\ IF FreeSlots(d) = {}
         THEN dev' = d /\ UNCHANGED valid
         ELSE dev' = [d EXCEPT ![i] = Fresh(p)] /\ valid' = [valid EXCEPT ![i] = FALSE]
      /\ UNCHANGED <<writes, air, adapter, avail, discovering, pc, turn>>

\* pf_ble_unregister, from a driver's destroy
Unregister(i) ==
  /\ ~Locked /\ dev[i].used /\ ~dev[i].release
  /\ dev' = [dev EXCEPT ![i].release = TRUE]
  /\ UNCHANGED <<valid, writes, air, adapter, avail, discovering, pc, turn>>

\* pf_ble_write: refused when the queue is full
Queue(q, i) == IF Len(q) < QLen THEN Append(q, i) ELSE q

\* ibbq's on_connected: the login, in the manager's thread with g_mu held
Login(i) == Queue(writes, i)

-----------------------------------------------------------------------------
(* The bus *)

\* get_bool_prop, get_mfr_data: BlueZ holds a link to x; it holds x at all
Linked(x) == air[x] = "linked"
InAir(x) == air[x] # "away"

\* spec_matches, match_cb over the objects
SpecMatches(p, x) == IF Pinned[p] # Nowhere THEN x = Pinned[p] ELSE x \in Called[p]
Matching(p) == {x \in Peripherals : InAir(x) /\ SpecMatches(p, x)}

\* set_discovery: nothing when it is so already; StartDiscovery may fail
SetDiscovery(on) ==
  \/ discovering' = on
  \/ on /\ ~discovering /\ discovering' = FALSE

Appear(x) ==
  /\ adapter /\ discovering /\ air[x] = "away" /\ air' = [air EXCEPT ![x] = "near"]
  /\ UNCHANGED <<dev, valid, writes, adapter, avail, discovering, pc, turn>>
Fade(x) ==
  /\ InAir(x)
  /\ air' = [air EXCEPT ![x] = IF @ = "linked" THEN "near" ELSE "away"]
  /\ UNCHANGED <<dev, valid, writes, adapter, avail, discovering, pc, turn>>
AdapterGoes ==
  /\ adapter /\ adapter' = FALSE /\ air' = [x \in Peripherals |-> "away"]
  /\ UNCHANGED <<dev, valid, writes, avail, discovering, pc, turn>>
AdapterReturns ==
  /\ ~adapter /\ adapter' = TRUE
  /\ UNCHANGED <<dev, valid, writes, air, avail, discovering, pc, turn>>

\* the drivers' on_value: a frame has a reading, or says that there is none
\* (unplugged, no food temperature); a short one changes nothing
Heard(i) == \E reads \in BOOLEAN : valid' = [valid EXCEPT ![i] = reads]

\* on_props_changed: a notified characteristic, to every ready device it belongs to
Notified(i, x) == /\ dev[i].used /\ dev[i].st = "ready" /\ dev[i].known
                  /\ dev[i].at = x /\ dev[i].probe \notin Passive
Value(x) ==
  /\ pc = "bus" /\ Linked(x)
  /\ \E reads \in BOOLEAN :
       valid' = [i \in Slots |-> IF Notified(i, x) THEN reads ELSE valid[i]]
  /\ UNCHANGED <<dev, writes, air, adapter, avail, discovering, pc, turn>>

\* on_device_props_changed: the first passive slot that listens to x, else the
\* first one pinned to x that has found nothing yet
Listening(x) == {i \in Slots : dev[i].used /\ dev[i].probe \in Passive /\ dev[i].at = x}
Claiming(x) == {i \in Slots : /\ dev[i].used /\ dev[i].probe \in Passive
                              /\ dev[i].at = Nowhere /\ Pinned[dev[i].probe] = x}
Advertisement(x) ==
  /\ pc = "bus" /\ air[x] = "near" /\ discovering
  /\ LET S == IF Listening(x) # {} THEN Listening(x) ELSE Claiming(x)
         i == FirstOf(S)
     IN  /\ S # {}
         /\ \/ /\ dev' = [dev EXCEPT ![i].at = x, ![i].st = "ready", ![i].connected = TRUE]
               /\ Heard(i)
            \/ /\ dev' = [dev EXCEPT ![i].at = x, ![i].st = "ready"]   \* RSSI alone
               /\ UNCHANGED valid
  /\ UNCHANGED <<writes, air, adapter, avail, discovering, pc, turn>>

-----------------------------------------------------------------------------
(* The manager: once a second *)

\* the bus fails: the thread ends, and nothing starts it again
BusFails ==
  /\ pc = "bus" /\ pc' = "ended"
  /\ UNCHANGED <<dev, valid, writes, air, adapter, avail, discovering, turn>>

\* find_adapter
Tick ==
  /\ pc = "bus" /\ avail' = adapter /\ pc' = IF adapter THEN "write" ELSE "bus"
  /\ UNCHANGED <<dev, valid, writes, air, adapter, discovering, turn>>

\* process_writes: one that finds its device not ready, or without such a
\* characteristic, is dropped; a write shows in nothing the daemon keeps
ProcessWrites ==
  /\ pc = "write"
  /\ IF writes = <<>>
     THEN pc' = "step" /\ turn' = FirstOf(Slots) /\ UNCHANGED writes
     ELSE writes' = Tail(writes) /\ UNCHANGED <<pc, turn>>
  /\ UNCHANGED <<dev, valid, air, adapter, avail, discovering>>

DisconnectedQuietly(i) ==   \* fault: the driver is not told
  /\ dev' = [dev EXCEPT ![i].connected = FALSE, ![i].st = "backoff", ![i].known = FALSE]
  /\ UNCHANGED valid
\* dev_disconnected: the driver forgets its reading
Disconnected(i) ==
  /\ dev' = [dev EXCEPT ![i].connected = FALSE, ![i].st = "backoff", ![i].known = FALSE]
  /\ valid' = [valid EXCEPT ![i] = @ /\ ~dev[i].connected]

\* the released slot: its link is dropped, the slot is free
Release(i) ==
  /\ air' = IF /\ dev[i].probe \notin Passive /\ dev[i].at # Nowhere
               /\ dev[i].st \in {"ready", "connecting"} /\ Linked(dev[i].at)
            THEN [air EXCEPT ![dev[i].at] = "near"] ELSE air
  /\ dev' = [dev EXCEPT ![i].used = FALSE, ![i].release = FALSE]
  /\ UNCHANGED <<valid, writes, discovering>>

Idle(i) ==
  /\ dev[i].st = "idle"
  /\ \/ \E x \in Matching(dev[i].probe) :
          dev' = [dev EXCEPT ![i].at = x, ![i].st = "found"] /\ UNCHANGED discovering
     \/ Matching(dev[i].probe) = {} /\ SetDiscovery(TRUE) /\ UNCHANGED dev
  /\ UNCHANGED <<valid, writes, air>>

Backoff(i) ==
  /\ dev[i].st = "backoff"
  /\ dev' = [dev EXCEPT ![i].st = IF dev[i].at # Nowhere THEN "found" ELSE "idle"]
  /\ UNCHANGED <<valid, writes, air, discovering>>

\* Connect: an object that is no longer there is forgotten
Found(i) ==
  LET x == dev[i].at IN
  /\ dev[i].st = "found"
  /\ \/ /\ air[x] # "away"
        /\ air' = [air EXCEPT ![x] = "linked"] /\ dev' = [dev EXCEPT ![i].st = "connecting"]
     \/ /\ ~Linked(x) /\ UNCHANGED air
        /\ dev' = [dev EXCEPT ![i].st = "backoff",
                              ![i].at = IF ~InAir(x) THEN Nowhere ELSE x]
  /\ UNCHANGED <<valid, writes, discovering>>

\* connected and resolved: the driver logs in; too long: back off
Connecting(i) ==
  LET linked == Linked(dev[i].at) IN
  /\ dev[i].st = "connecting"
  /\ \/ /\ linked
        /\ dev' = [dev EXCEPT ![i].known = TRUE, ![i].connected = TRUE, ![i].st = "ready"]
        /\ writes' = Login(i)
        /\ UNCHANGED <<valid, air>>
     \/ /\ Disconnected(i)
        /\ air' = IF linked THEN [air EXCEPT ![dev[i].at] = "near"] ELSE air
        /\ UNCHANGED writes
  /\ UNCHANGED discovering

\* the link is looked at first, and is as good as gone when it cannot be; a polled value is the
\* driver's
Ready(i) ==
  LET linked == Linked(dev[i].at) IN
  /\ dev[i].st = "ready"
  /\ \/ Disconnected(i)
     \/ linked /\ UNCHANGED dev /\ (UNCHANGED valid \/ Heard(i))
  /\ UNCHANGED <<writes, air, discovering>>

\* passive_step without a path: look for the object
PassiveSearch(i) ==
  /\ dev[i].at = Nowhere
  /\ SetDiscovery(TRUE)
  /\ \/ \E x \in Matching(dev[i].probe) : dev' = [dev EXCEPT ![i].at = x, ![i].st = "ready"]
     \/ UNCHANGED dev
  /\ UNCHANGED <<valid, writes, air>>

\* passive_step with one: gone, a payload, or a minute without any; no
\* advertisements for three minutes stop the discovery for one step
PassivePoll(i) ==
  LET x == dev[i].at IN
  /\ x # Nowhere
  /\ \/ /\ ~InAir(x)
        /\ dev' = [dev EXCEPT ![i].at = Nowhere, ![i].st = "idle", ![i].connected = FALSE]
        /\ valid' = [valid EXCEPT ![i] = FALSE] /\ SetDiscovery(TRUE)
     \/ /\ InAir(x)
        /\ dev' = [dev EXCEPT ![i].connected = TRUE] /\ Heard(i)
        /\ SetDiscovery(TRUE)
     \/ /\ InAir(x) /\ dev[i].connected
        /\ dev' = [dev EXCEPT ![i].connected = FALSE] /\ valid' = [valid EXCEPT ![i] = FALSE]
        /\ SetDiscovery(TRUE)
     \/ InAir(x) /\ SetDiscovery(FALSE) /\ UNCHANGED <<dev, valid>>
  /\ UNCHANGED <<writes, air>>

\* dev_step for one slot
DevStep(i) ==
  \/ ~dev[i].used /\ ~dev[i].release /\ UNCHANGED <<dev, valid, writes, air, discovering>>
  \/ dev[i].release /\ Release(i)
  \/ /\ dev[i].used /\ ~dev[i].release
     /\ IF dev[i].probe \in Passive
        THEN PassiveSearch(i) \/ PassivePoll(i)
        ELSE Idle(i) \/ Backoff(i) \/ Found(i) \/ Connecting(i) \/ Ready(i)
  \* a timer that has not run out, a poll that is not due
  \/ dev[i].used /\ ~dev[i].release /\ UNCHANGED <<dev, valid, writes, air, discovering>>

StepDevice ==
  /\ pc = "step" /\ DevStep(turn)
  /\ IF turn + 1 \in Slots THEN turn' = turn + 1 /\ UNCHANGED pc
                          ELSE turn' = 0 /\ pc' = "discovery"
  /\ UNCHANGED <<adapter, avail>>

\* nothing searches and nothing listens: discovery is switched off
NeedDisc == \E i \in Slots : dev[i].used /\ (dev[i].st = "idle" \/ dev[i].probe \in Passive)
DiscoveryEnds ==
  /\ pc = "discovery" /\ pc' = "bus"
  /\ \/ UNCHANGED discovering
     \/ ~NeedDisc /\ discovering' = FALSE
  /\ UNCHANGED <<dev, valid, writes, air, adapter, avail, turn>>

Next ==
  \/ \E p \in Probes : Register(p)
  \/ \E i \in Slots : Unregister(i) 
  \/ \E x \in Peripherals : Appear(x) \/ Fade(x) \/ Value(x) \/ Advertisement(x)
  \/ AdapterGoes \/ AdapterReturns
  \/ BusFails \/ Tick \/ ProcessWrites \/ StepDevice \/ DiscoveryEnds

Spec == Init /\ [][Next]_bvars

-----------------------------------------------------------------------------

\* A driver that has a reading is connected: what was read before a link was
\* lost is not offered as a reading of the next one (dev_disconnected,
\* bluez.c:341-351; passive_step, bluez.c:376).
ReadingIsLive == \A i \in Slots : valid[i] /\ dev[i].used => dev[i].connected

=============================================================================
