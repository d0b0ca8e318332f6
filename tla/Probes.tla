-------------------------------- MODULE Probes -------------------------------
(***************************************************************************)
(* src/probes/probes.c: the probes as they are set up, the poll that reads  *)
(* their devices outside the lock, the reload that takes the devices away,  *)
(* and which probes are in the food.  A device's reading is tagged with the *)
(* instance and the port it came from; conversion and filtering are left    *)
(* out (ProbeFilter has the filter), and so are targets: a probe with one   *)
(* that reads is in use too.  Ten seconds without a reading and whether a   *)
(* device's poll is due are choices.                                       *)
(***************************************************************************)
EXTENDS Naturals, Sequences, FiniteSets

CONSTANTS
  Setups,       \* probe maps: [devices, probes]; a probe's air is a port called ambient,
                \* its named a name with ambient in it, its said the box that was ticked
  Links,        \* the drivers of wireless devices
  MaxReloads    \* bound on the instances made before the last reload

VARIABLES
  map,          \* probe_settings.probe_map
  dev,          \* g_dev: [name, driver, ports, inst]
  priv,         \* g_priv: each probe's device, 0 if it has none
  snap,         \* g_snap.p
  primary,      \* g_snap.primary
  reading,      \* g_reading
  poll,         \* the sensor thread: [at, n, i, samples]
  reload,       \* the control thread waits in teardown
  cooking,      \* g_cooking
  explicit,     \* g_in_use_explicit
  made          \* instances made so far

tvars == <<map, dev, priv, snap, primary, reading, poll, reload, cooking, explicit, made>>

None == [inst |-> 0, port |-> ""]
Resting == [at |-> "rest", n |-> 0, i |-> 0, samples |-> <<>>]
Least(S) == CHOOSE i \in S : \A j \in S : i <= j
FirstIn(S) == IF S = {} THEN 0 ELSE Least(S)

-----------------------------------------------------------------------------
(* pf_probes_init *)

\* the devices whose driver could be created, in order; each gets an instance
Created(devices, works) ==
  LET D == SelectSeq(devices, LAMBDA d : d.name \in works)
  IN  [i \in DOMAIN D |-> [name |-> D[i].name, driver |-> D[i].driver,
                           ports |-> D[i].ports, inst |-> made + i]]

\* the device a probe names, if it is there; its port may be missing all the same
DeviceOf(devices, p) == FirstIn({k \in DOMAIN devices : devices[k].name = p.device})

\* a meat reading is paired with the air sensor of its own wireless device
Companions(devices, ps, of, i) ==
  IF \/ of[i] = 0 \/ ps[i].air
     \/ devices[of[i]].driver \notin Links
  THEN {}
  ELSE {j \in DOMAIN ps \ {i} : /\ of[j] = of[i] /\ ps[j].enabled
                                /\ ps[j].role # "primary" /\ ps[j].air}
Paired(devices, ps, of, j) ==
  \E i \in DOMAIN ps : FirstIn(Companions(devices, ps, of, i)) = j

\* the probe that is the weather: said so, or an Aux one named ambient that
\* shares its device with no other
IsAmbient(devices, ps, of, j) ==
  \/ ps[j].said
  \/ /\ ps[j].role = "aux" /\ ps[j].named /\ ~Paired(devices, ps, of, j)
     /\ \A i \in DOMAIN ps \ {j} : ps[i].device # ps[j].device

Built(devices, ps, inUse) ==
  LET of == [i \in DOMAIN ps |-> DeviceOf(devices, ps[i])] IN
  /\ dev' = devices /\ priv' = of
  /\ snap' = [i \in DOMAIN ps |->
       [label |-> ps[i].label, port |-> ps[i].port, enabled |-> ps[i].enabled,
        ambient |-> IsAmbient(devices, ps, of, i),
        in_use |-> ps[i].label \in inUse /\ ps[i].enabled, valid |-> FALSE, value |-> None]]
  /\ primary' = FirstIn({i \in DOMAIN ps : ps[i].role = "primary" /\ ps[i].enabled})

Setup(inUse) ==
  \E works \in SUBSET {map.devices[i].name : i \in DOMAIN map.devices} :
    /\ Built(Created(map.devices, works), map.probes, inUse)
    /\ made' = made + Cardinality(works)

Init ==
  /\ map \in Setups /\ made = 0
  /\ dev = <<>> /\ priv = <<>> /\ snap = <<>> /\ primary = 0
  /\ reading = 0 /\ poll = Resting /\ reload = TRUE
  /\ cooking = FALSE /\ explicit = FALSE

\* the settings page writes another map; PF_CMD_PROBES_CHANGED
Edit ==
  /\ ~reload /\ made < MaxReloads /\ map' \in Setups \ {map} /\ reload' = TRUE
  /\ UNCHANGED <<dev, priv, snap, primary, reading, poll, cooking, explicit, made>>

\* teardown: the readers are let out first
MayTearDownAlways == TRUE   \* fault: the reload does not wait
MayTearDown == reading = 0
Reload ==
  /\ reload /\ MayTearDown /\ reload' = FALSE /\ Setup({})
  /\ UNCHANGED <<map, reading, poll, cooking, explicit>>

-----------------------------------------------------------------------------
(* pf_probes_poll *)

HasPort(k) == snap[k].port \in dev[priv[k]].ports
Worth(i) == {snap[k].port : k \in {k \in DOMAIN snap : snap[k].enabled /\ priv[k] = i /\ HasPort(k)}}

PollBegins ==
  /\ poll.at = "rest" /\ reading' = reading + 1
  /\ poll' = [at |-> "read", n |-> Len(dev), i |-> 1, samples |-> <<>>]
  /\ UNCHANGED <<map, dev, priv, snap, primary, reload, cooking, explicit, made>>

\* one device, outside the lock: not due, unreachable, or what its ports say
ReadDevice ==
  /\ poll.at = "read" /\ poll.i <= poll.n
  /\ \E polled \in BOOLEAN : \E ok \in SUBSET Worth(poll.i) :
       /\ polled \/ ok = {}
       /\ polled => poll.i <= Len(dev)      \* a device without an instance is passed over
       /\ poll' = [poll EXCEPT !.i = @ + 1,
            !.samples = Append(@, [polled |-> polled, ok |-> ok,
                                   inst |-> IF polled THEN dev[poll.i].inst ELSE 0])]
  /\ UNCHANGED <<map, dev, priv, snap, primary, reading, reload, cooking, explicit, made>>

\* the virtual device: the valid inputs among the others, as they stand when
\* its turn comes
Virtual(s, k) == \E j \in DOMAIN s \ {k} : s[j].valid

Sample(k) == poll.samples[priv[k]]
Reads(s, k) ==
  IF dev[priv[k]].driver = "virtual" THEN Virtual(s, k) ELSE snap[k].port \in Sample(k).ok

Pushed(s, k, gone) ==
  IF \/ ~snap[k].enabled \/ priv[k] \notin DOMAIN poll.samples
     \/ ~HasPort(k) \/ ~Sample(k).polled
  THEN s[k]
  ELSE IF Reads(s, k)
  THEN [s[k] EXCEPT !.valid = TRUE, !.value = [inst |-> Sample(k).inst, port |-> snap[k].port],
                    !.in_use = @ \/ (cooking /\ ~explicit)]
  ELSE [s[k] EXCEPT !.valid = FALSE, !.value = IF k \in gone THEN None ELSE @]

\* every probe in turn, under the lock; the poll no longer counts as a reader
PollEnds ==
  /\ poll.at = "read" /\ poll.i > poll.n
  /\ reading' = reading - 1 /\ poll' = Resting
  /\ \E gone \in {{}, DOMAIN snap} :
       LET After[k \in 0..Len(snap)] ==
             IF k = 0 THEN snap ELSE [After[k - 1] EXCEPT ![k] = Pushed(After[k - 1], k, gone)]
       IN  snap' = After[Len(snap)]
  /\ UNCHANGED <<map, dev, priv, primary, reload, cooking, explicit, made>>

-----------------------------------------------------------------------------
(* What is in the food: from the control thread, which waits in a reload *)

\* pf_probes_set_in_use; labels that name no probe are let pass
SetInUse(labels) ==
  /\ ~reload /\ explicit' = TRUE
  /\ snap' = [k \in DOMAIN snap |->
                [snap[k] EXCEPT !.in_use = snap[k].label \in labels /\ snap[k].enabled]]
  /\ UNCHANGED <<map, dev, priv, primary, reading, poll, reload, cooking, made>>

\* pf_probes_set_cooking, on entering a mode
SetCooking(on) ==
  /\ ~reload /\ cooking' = on
  /\ IF cooking /\ ~on
     THEN /\ snap' = [k \in DOMAIN snap |-> [snap[k] EXCEPT !.in_use = FALSE]]
          /\ explicit' = FALSE
     ELSE UNCHANGED <<snap, explicit>>
  /\ UNCHANGED <<map, dev, priv, primary, reading, poll, reload, made>>

Labels == UNION {{s.probes[i].label : i \in DOMAIN s.probes} : s \in Setups}

\* pf_probes_in_use_csv: what the checkpoint keeps, and the resume sets again
InUseCsv == IF explicit THEN {snap[k].label : k \in {k \in DOMAIN snap : snap[k].in_use}} ELSE {}

\* the daemon starts again and resumes the cook: the choice is set again,
\* one that named no probe is not
Resume ==
  /\ cooking /\ made < MaxReloads /\ Setup(InUseCsv)
  /\ explicit' = (InUseCsv # {}) /\ reload' = FALSE /\ reading' = 0 /\ poll' = Resting
  /\ UNCHANGED <<map, cooking>>

Next ==
  \/ Edit \/ Reload \/ Resume \/ PollBegins \/ ReadDevice \/ PollEnds
  \/ \E labels \in SUBSET Labels : SetInUse(labels)
  \/ \E on \in BOOLEAN : SetCooking(on)

Spec == Init /\ [][Next]_tvars

-----------------------------------------------------------------------------

\* A probe shows only what its own device and port, of the setup that is in
\* force, have said: a reload between a device's read and the store of what it
\* said (probes.c:329-343) neither frees what is read nor puts one probe's
\* temperature under another's name.
ReadingIsItsOwn ==
  \A k \in DOMAIN snap :
    snap[k].valid => /\ priv[k] # 0
                     /\ snap[k].value = [inst |-> dev[priv[k]].inst, port |-> snap[k].port]

=============================================================================
