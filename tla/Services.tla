------------------------------ MODULE Services ------------------------------
(***************************************************************************)
(* The services and devices round the grill: Alerts, Conditions, Notify,   *)
(* Push, Tuner with Learning, Autotune, Bluetooth, BluetoothScan, Network, *)
(* Probes, ProbeFilter and the command queue. These components share       *)
(* nothing here, so a behaviour is one of one component, chosen in         *)
(* SumInit: the states are the sum of theirs and not the product. The      *)
(* command queue is extended, and rests in its first state in the other    *)
(* behaviours.                                                             *)
(***************************************************************************)
EXTENDS CommandQueue, FiniteSets

CONSTANTS
  AlarmSlots, For, ClearAfter, Cooldown, Repeat,        \* Alerts; AlarmSlots is its Slots
    ChatterWindow, Shelf, Chatter, MaxNow, AlarmAsks,   \*   ChatterWindow its Window, AlarmAsks its MaxAsks
  Trees, Readings, Targets, Timers, Width, JudgedTicks, \* Conditions; JudgedTicks is its MaxTicks
  Temps, Aims, Marks, Carries, Freeze,                  \* Notify; NoticeAsks and NoticeTicks
    NoticeAsks, NoticeTicks,                            \*   are its MaxAsks and MaxTicks
  Phones, Codes, MaxSubs, PushQLen, MaxEvents,          \* Push; PushQLen is its QLen
  LibrarySlots, Points, Near, MaxMeasures, Databases,   \* Tuner; LibrarySlots is its Slots
    Runs, MaxStarts,
  MinCross, MaxCross, MaxResizes, MaxAdjusts,           \* Autotune
    MaxRecentres, MaxTests,
  Objects, MaxScans,                                    \* BluetoothScan
  LinkSlots, Probes, Passive, Pinned, Called,           \* Bluetooth; LinkSlots and WriteQLen
    Peripherals, Nowhere, WriteQLen,                    \*   are its Slots and QLen
  Ssids, NoSsid,                                        \* Network; NoSsid is its Nothing
  Setups, Links, MaxReloads,                            \* Probes
  Samples, Med, Mean, Slew, Hold, LongStep, Waits       \* ProbeFilter; Samples is its Levels

\* the table has places, and the web asks so many times
ASSUME AlarmAssumption == AlarmSlots \in Nat /\ AlarmAsks \in Nat

\* a tree is what the parser lets in (CJSON_NESTING_LIMIT), joined and compared in ways the code knows
ASSUME ConditionsAssumption ==
  /\ Timers \in Nat /\ Width \in Nat
  /\ \A t \in Trees :
       /\ <<>> \in DOMAIN t
       /\ \A p \in DOMAIN t :
            /\ p \in Seq(1..Width) /\ Len(p) <= 1000 /\ t[p].for \in Nat
            /\ t[p].is = "group" => t[p].op \in {"all", "any", "not"}
            /\ t[p].is # "group" =>
                 t[p].trait = "none" \/ t[p].op \in {"is_one_of", "unavailable", "available", ">=",
                                                   "<=", "between", "within"}

\* an endpoint is an address, and no address is the name of a service or of an empty slot
ASSUME PushAssumption ==
  /\ Phones \cap {"pushover", "ntfy", "free"} = {}
  /\ MaxSubs \in Nat /\ PushQLen \in Nat /\ MaxEvents \in Nat

\* readings are whole numbers, and the filter's windows and its gate are open
ASSUME FilterAssumption ==
  /\ Samples \subseteq Int /\ Waits \subseteq Nat /\ Slew \in Nat /\ LongStep \in Nat
  /\ Med \in Nat \ {0} /\ Mean \in Nat \ {0} /\ Hold \in Nat \ {0}

\* a map lists its probes
ASSUME ProbesAssumption == \A s \in Setups : s.probes \in Seq({s.probes[i] : i \in DOMAIN s.probes})

\* no network is the want of one
ASSUME NetworkAssumption == NoSsid \notin Ssids

\* the slots are numbered
ASSUME LinkAssumption == LinkSlots \subseteq Nat

VARIABLES
  which,    \* the component the behaviour is one of
  now, level, alerts_cooking, rule, st, alerts_table, alerts_turn, fire, alerts_asks,
  tree, past, clocks, conditions_answer,
  probe, timer, steps, mode, lessons, notify_asks, ticks, asked, acted, said,
  subs, push_table, services, quiet, queue, job, heard, events,
  lib, waiting, model, relay, tuner_gen, measures, run, tuner_grill, cmds, inflight, starts,
  climb, typed, before, rejected,
  on, relayId, halves, crossings, adjusts, resizes, recentres, changedAt, errors, lid, window,
  filed, judged, learnt, tests,
  asker, seconds, running, scan_gen, result, shown, scan_avail, scan_held,
  bluetooth_dev, valid, writes, air, adapter, bluetooth_avail, discovering, pc, bluetooth_turn,
  state, hs, want, hotspotReq, doing, force, dog, saved, link, hung, network_grill, marker,
  map, probes_dev, priv, snap, primary, reading, poll, reload, probes_cooking, explicit, made,
  med, means, out, filter_held, unstable, lasting

alertsVars == <<now, level, alerts_cooking, rule, st, alerts_table, alerts_turn, fire, alerts_asks>>
conditionsVars == <<tree, past, clocks, conditions_answer>>
notifyVars == <<probe, timer, steps, mode, lessons, notify_asks, ticks, asked, acted, said>>
pushVars == <<subs, push_table, services, quiet, queue, job, heard, events>>
tunerVars == <<lib, waiting, model, relay, tuner_gen, measures, run, tuner_grill, cmds, inflight,
    starts, climb, typed, before, rejected>>
autotuneVars == <<on, relayId, halves, crossings, adjusts, resizes, recentres, changedAt, errors,
    lid, window, filed, judged, learnt, tests>>
scanVars == <<asker, seconds, running, scan_gen, result, shown, scan_avail, scan_held>>
bluetoothVars == <<bluetooth_dev, valid, writes, air, adapter, bluetooth_avail, discovering, pc,
    bluetooth_turn>>
networkVars == <<state, hs, want, hotspotReq, doing, force, dog, saved, link, hung,
    network_grill, marker>>
probesVars == <<map, probes_dev, priv, snap, primary, reading, poll, reload, probes_cooking,
    explicit, made>>
filterVars == <<med, means, out, filter_held, unstable, lasting>>

Alarming == INSTANCE Alerts WITH
  Slots <- AlarmSlots, MaxAsks <- AlarmAsks, Window <- ChatterWindow,
  cooking <- alerts_cooking, table <- alerts_table, turn <- alerts_turn, asks <- alerts_asks
Judging == INSTANCE Conditions WITH MaxTicks <- JudgedTicks, answer <- conditions_answer
Notifying == INSTANCE Notify WITH
  MaxAsks <- NoticeAsks, MaxTicks <- NoticeTicks, asks <- notify_asks
Pushing == INSTANCE Push WITH QLen <- PushQLen, table <- push_table
Tuning == INSTANCE Tuner WITH Slots <- LibrarySlots, gen <- tuner_gen, grill <- tuner_grill
Relaying == INSTANCE Autotune
Scanning == INSTANCE BluetoothScan WITH gen <- scan_gen, avail <- scan_avail, held <- scan_held
Linking == INSTANCE Bluetooth WITH
  Slots <- LinkSlots, QLen <- WriteQLen,
  dev <- bluetooth_dev, avail <- bluetooth_avail, turn <- bluetooth_turn
Networking == INSTANCE Network WITH Nothing <- NoSsid, grill <- network_grill
Probing == INSTANCE Probes WITH dev <- probes_dev, cooking <- probes_cooking
Filtering == INSTANCE ProbeFilter WITH Levels <- Samples, held <- filter_held

\* set points are in degrees, a run has at least one, and what the database holds is a library
ASSUME TunerAssumption ==
  /\ LibrarySlots \in Nat /\ Near \in Nat \ {0} /\ Points \subseteq Nat
  /\ \A points \in Runs : points # <<>> /\ points \in Seq(Points)
  /\ \A found \in Databases : Tuning!IsLibrary(found.lib)

-----------------------------------------------------------------------------
(* The variables of the components the behaviour is not one of.                             *)
Unused == "absent"

NoAlerts == now = Unused /\ level = Unused /\ alerts_cooking = Unused /\ rule = Unused
  /\ st = Unused /\ alerts_table = Unused /\ alerts_turn = Unused /\ fire = Unused
  /\ alerts_asks = Unused
NoConditions == tree = Unused /\ past = Unused /\ clocks = Unused /\ conditions_answer = Unused
NoNotify == probe = Unused /\ timer = Unused /\ steps = Unused /\ mode = Unused
  /\ lessons = Unused /\ notify_asks = Unused /\ ticks = Unused /\ asked = Unused
  /\ acted = Unused /\ said = Unused
NoPush == subs = Unused /\ push_table = Unused /\ services = Unused /\ quiet = Unused
  /\ queue = Unused /\ job = Unused /\ heard = Unused /\ events = Unused
NoTuner == lib = Unused /\ waiting = Unused /\ model = Unused /\ relay = Unused
  /\ tuner_gen = Unused /\ measures = Unused /\ run = Unused /\ tuner_grill = Unused
  /\ cmds = Unused /\ inflight = Unused /\ starts = Unused /\ climb = Unused /\ typed = Unused
  /\ before = Unused /\ rejected = Unused
NoAutotune == on = Unused /\ relayId = Unused /\ halves = Unused /\ crossings = Unused
  /\ adjusts = Unused /\ resizes = Unused /\ recentres = Unused /\ changedAt = Unused
  /\ errors = Unused /\ lid = Unused /\ window = Unused /\ filed = Unused /\ judged = Unused
  /\ learnt = Unused /\ tests = Unused
NoBluetoothScan == asker = Unused /\ seconds = Unused /\ running = Unused /\ scan_gen = Unused
  /\ result = Unused /\ shown = Unused /\ scan_avail = Unused /\ scan_held = Unused
NoBluetooth == bluetooth_dev = Unused /\ valid = Unused /\ writes = Unused /\ air = Unused
  /\ adapter = Unused /\ bluetooth_avail = Unused /\ discovering = Unused /\ pc = Unused
  /\ bluetooth_turn = Unused
NoNetwork == state = Unused /\ hs = Unused /\ want = Unused /\ hotspotReq = Unused
  /\ doing = Unused /\ force = Unused /\ dog = Unused /\ saved = Unused /\ link = Unused
  /\ hung = Unused /\ network_grill = Unused /\ marker = Unused
NoProbes == map = Unused /\ probes_dev = Unused /\ priv = Unused /\ snap = Unused
  /\ primary = Unused /\ reading = Unused /\ poll = Unused /\ reload = Unused
  /\ probes_cooking = Unused /\ explicit = Unused /\ made = Unused
NoProbeFilter == med = Unused /\ means = Unused /\ out = Unused /\ filter_held = Unused
  /\ unstable = Unused /\ lasting = Unused

Only(w) ==
  /\ w # "alerts" => NoAlerts
  /\ w # "conditions" => NoConditions
  /\ w # "notify" => NoNotify
  /\ w # "push" => NoPush
  /\ w # "tuner" => NoTuner
  /\ w # "autotune" => NoAutotune
  /\ w # "scan" => NoBluetoothScan
  /\ w # "bluetooth" => NoBluetooth
  /\ w # "network" => NoNetwork
  /\ w # "probes" => NoProbes
  /\ w # "filter" => NoProbeFilter
  /\ Init

SumInit ==
  \/ which = "alerts" /\ Alarming!Init /\ Only("alerts")
  \/ which = "conditions" /\ Judging!Init /\ Only("conditions")
  \/ which = "notify" /\ Notifying!Init /\ Only("notify")
  \/ which = "push" /\ Pushing!Init /\ Only("push")
  \/ which = "tuner" /\ Tuning!Init /\ Only("tuner")
  \/ which = "autotune" /\ Relaying!Init /\ Only("autotune")
  \/ which = "scan" /\ Scanning!Init /\ Only("scan")
  \/ which = "bluetooth" /\ Linking!Init /\ Only("bluetooth")
  \/ which = "network" /\ Networking!Init /\ Only("network")
  \/ which = "probes" /\ Probing!Init /\ Only("probes")
  \/ which = "filter" /\ Filtering!Init /\ Only("filter")
  \/ which = "queue" /\ Only("queue")

Others(w) ==
  /\ UNCHANGED which
  /\ w # "alerts" => UNCHANGED alertsVars
  /\ w # "conditions" => UNCHANGED conditionsVars
  /\ w # "notify" => UNCHANGED notifyVars
  /\ w # "push" => UNCHANGED pushVars
  /\ w # "tuner" => UNCHANGED tunerVars
  /\ w # "autotune" => UNCHANGED autotuneVars
  /\ w # "scan" => UNCHANGED scanVars
  /\ w # "bluetooth" => UNCHANGED bluetoothVars
  /\ w # "network" => UNCHANGED networkVars
  /\ w # "probes" => UNCHANGED probesVars
  /\ w # "filter" => UNCHANGED filterVars
  /\ w # "queue" => UNCHANGED qvars

SumNext ==
  \/ which = "alerts" /\ Alarming!Next /\ Others("alerts")
  \/ which = "conditions" /\ Judging!Next /\ Others("conditions")
  \/ which = "notify" /\ Notifying!Next /\ Others("notify")
  \/ which = "push" /\ Pushing!Next /\ Others("push")
  \/ which = "tuner" /\ Tuning!Next /\ Others("tuner")
  \/ which = "autotune" /\ Relaying!Next /\ Others("autotune")
  \/ which = "scan" /\ Scanning!Next /\ Others("scan")
  \/ which = "bluetooth" /\ Linking!Next /\ Others("bluetooth")
  \/ which = "network" /\ Networking!Next /\ Others("network")
  \/ which = "probes" /\ Probing!Next /\ Others("probes")
  \/ which = "filter" /\ Filtering!Next /\ Others("filter")
  \/ which = "queue" /\ Next /\ Others("queue")

sumVars == <<which, alertsVars, conditionsVars, notifyVars, pushVars, tunerVars, autotuneVars,
  scanVars, bluetoothVars, networkVars, probesVars, filterVars, qvars>>

SumSpec == SumInit /\ [][SumNext]_sumVars

-----------------------------------------------------------------------------
(* What must hold: the properties of the components, each stated and explained in its module. *)
(* The queue's is ImplementsFifo, of CommandQueue.                                            *)

\* Alerts: what a rule reports stands in the table (rules.c, alarms.c).
ReportIsListed == which = "alerts" => Alarming!ReportIsListed

\* Conditions: a node holds when its condition did in every second it asks for (eval_path, held_long_enough).
MeansWhatItSays == which = "conditions" => Judging!MeansWhatItSays

\* Conditions: a rule means the same in Celsius (convert_node_units).
SameInCelsius == which = "conditions" => Judging!SameInCelsius

\* Notify: an after-action is carried out at most as often as it was asked for (notify.c).
ActsOnce == which = "notify" => Notifying!ActsOnce

\* Push: nobody accepts an event again unless the first answer was lost, and never a third time
\* (worker, send_all, pf_webpush_subscribe).
TwiceOnlyIfLost == which = "push" => Pushing!TwiceOnlyIfLost

\* Tuner: a tune that failed its verification is taken back exactly (tuner.c).
TakenBack == [][which = "tuner" => Tuning!PutsBack]_sumVars

\* Autotune: a result is read from halves of one relay (autotune_finish).
CleanMeasure == which = "autotune" => Relaying!CleanMeasure

\* BluetoothScan: nobody waits for a scan that no one will make (pf_ble_scan_start).
ScanIsComing == which = "scan" => Scanning!ScanIsComing

\* Bluetooth: a driver that has a reading is connected (dev_disconnected, passive_step).
ReadingIsLive == which = "bluetooth" => Linking!ReadingIsLive

\* Network: the page does not wait for a join that nobody makes (do_connect, net_thread).
JoinIsNotForever == which = "network" => Networking!JoinIsNotForever

\* Probes: no probe shows another's reading, across a reload (pf_probes_poll, teardown).
ReadingIsItsOwn == which = "probes" => Probing!ReadingIsItsOwn

\* ProbeFilter: a change that lasts is believed whole (pf_tempq_push, gate).
LastingIsBelieved == which = "filter" => Filtering!LastingIsBelieved

=============================================================================
