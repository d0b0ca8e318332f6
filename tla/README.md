# PiFire: TLA+ models and proofs

PiFire is the daemon `pifired` of a pellet grill: it reads the probes, switches four relays
(power, fan, auger, igniter) and takes orders from a web app, a panel, MQTT and its own rules.
This directory holds TLA+ models of the parts of it that decide something, the TLC runs that
check them on small instances, and TLAPS proofs of the properties that matter most. Paths below are
relative to the repository's `src/` where they begin with `core/`, `features/`, `probes/`, `net/` or
`display/`; line numbers are those of the modelled commit.

## 1. The system

| component | state it keeps | operations | properties that make it correct | module |
|---|---|---|---|---|
| outputs (`core/outputs.c`, `threads.c`) | the mirror of the relays, the mutex, the emergency latch, the stall clock | set, all-off, emergency off, init and shutdown; control thread, watchdog | one writer at a time; an emergency off is final; the mirror is what the relays are; a stuck daemon ends with everything off | `Outputs` |
| mode machine, recipes (`core/control.c`) | mode, next mode, request slot, overrides, recipe | 20-odd commands, one tick (`pf_control_step`) | only a proven light is fed; Error holds until Stop; Stop and Finish are final; a recipe goes on | `GrillControl`, `Supervisor` |
| feed (`control.c`, `cycle.c`) | cycle, auger clock, cap and rest, fuel total | cycle begin and stop, the auger part of `run_mode` | the auger is off at its cap and rests; a burning grill is fed for ever | `AugerFeed` |
| flame supervision (`core/safety.c`) | baseline, proof, deadlines, peak, coast, retries | Smart Start, fall, climb, coast, igniter cap, probe fault | a light ends in bounded time; no unlit pot is handed over; a pot that went out is noticed; the igniter is capped | `FlameSafety`, `Supervisor` |
| restart recovery (`core/main.c`, `control.c`) | marker, checkpoint, resume snapshot on disk | boot, checkpoint, resume, recover, clean exit | one recovery between two warm restarts; no relight of an unproven pot; a warm restart gives back its cook | `Recovery` |
| relay test (`control.c`) | centre, amplitude, halves, errors | crossings, conditioning, recentring, giving up | a result is read from halves of one relay | `Autotune` |
| command queue (`core/cmdq.c`) | 64-place ring | push, pop | a bounded queue, first in first out | `CommandQueue`, `CommandFifo` |
| notifications, timer (`core/notify.c`) | targets, limits, steps, timer, latches | sync, tick, set, timer, restart | an after-action is carried out as often as it was asked for | `Notify` |
| settings (`core/settings.c`) | the tree in memory and on disk | boot, migrate, adopt, repair, patch, convert, save | no tree outside the limits runs the grill; a start keeps what is the user's | `Settings` |
| alarms, rules (`features/alarms.c`, `rules.c`) | the alarm table, each rule's state and timers | tick, raise, clear, acknowledge, silence, edit, evaluate, convert | what a rule reports is listed; a condition means what it says, in either unit | `Alerts`, `Conditions` |
| tuner, learning (`features/tuner.c`, `learning.c`) | the run, the library of tunes and plants | start, test, file, verify, take back, abort | a tune that failed its verification is taken back exactly | `Tuner`, `Learning` |
| backup and restore (`features/backup.c`) | schedule, listings, tokens, sign-ins, stage and marker | run, prune, sign in, fetch, stage, apply | a good backup is where it was sent; a code that shows goes away; a restore is whole | `Backup`, `SignIn`, `Restore` |
| update (`features/update.c`) | offer, job, mark, schedule | check, ask, install, restart | what is installed is what was asked for | `Update` |
| push (`features/push.c`, `webpush.c`) | queue, subscribers | subscribe, enqueue, send, retry | an event arrives a second time only if the answer to the first was lost | `Push` |
| Bluetooth (`probes/ble/bluez.c`) | slots, links, discovery, write queue, scan | register, scan, connect, signals, resets | a reading has a link; a scan asked for is coming | `Bluetooth`, `BluetoothScan` |
| probes (`probes/probes.c`, `tempq.c`) | devices, probes, filters | poll, reload, edit, filter | a probe shows its own reading; a change that lasts is believed | `Probes`, `ProbeFilter` |
| network (`net/netmgr.c`, `wifi.c`) | join, hotspot, watchdog | join, fall back, reload, restart | a join the page waits for is made | `Network` |
| panel (`display/ili9341.c`, `screens.c`) | stack of screens, ring, flash, sleep | turn, press, double and long press, tick, text | a stray press does nothing; left alone it comes home | `Panel` |
| recipes storage, pellets, cook files, database, controllers, web server, HAL | files, numbers, sockets, registers | | device I/O and numerics | section 7 |

How they meet: the web, panel, MQTT, rules and tuner threads push commands into the queue; the
control thread drains it at the start of each tick, reads the sensors' last snapshot, runs
notifications, recipe, safety and mode logic in that order, and writes relays only through the
arbiter. The watchdog thread looks at the age of the last tick and drives everything off without
the control thread's help. `main` starts and stops the threads, and owns the files that tell the
next process what this one was doing. systemd restarts the daemon and, after any exit, runs
`pifired --outputs-off`. The services thread ticks rules, tuner, backup and update; the display is
told of the grill twice a second; the Bluetooth manager, the network thread, the push worker and
each sign-in have threads of their own and share small tables under a mutex that they let go of
around anything slow. That last habit is where most of the hazards of the services are.

What is hard in it: commands that arrive between a verdict and its consequences; a single request
slot; two variables that say where a light leads; overrides with a clock of their own; a hardware
call that hangs while it holds the mutex; a crash at any instruction with relays on; restarts in
the middle of a light, a recipe, a restore or an install; a fire that is known only by a
temperature, which its igniter, its barrel, its lid and its set point move as well; tables that are
read, unlocked and used; two threads' flags for one thing. `PROJECT.json` lists these hazards, each at
its line and with the property that would be violated.

## 2. Modules

### The grill

**`Outputs`** — the arbiter, the watchdog and the way out. Each of the four threads (control, main,
watchdog, shutdown deadline) has a program counter; a step is the code between two points where
another thread can be seen. `relay` is the hardware, which keeps its level when the process dies;
`state` is what the arbiter believes. `SetCall` .. `SetUnlock` are `pf_outputs_set` with its two looks
at the latch, `TimedLock`, `EmergencyDrive` and `EmergencyDriveBare` are `pf_outputs_emergency_off` with
and without the mutex, `Watch` is the watchdog's loop, `StopRequest` .. `Exit` are main's exit. systemd,
kills and hardware calls that hang are external actions. The PWM duty is left out: the fan relay
gates it.

**`GrillControl`** — the mode machine and recipes. One tick is a fixed sequence of phases (`cmd`,
`request`, `notify`, `recipe`, `safety`, `run`, `inputs`), each of them the whole of the function it
stands for. Between two ticks any commands of the set `Command` arrive. What temperatures and clocks
decide (is the fire proven, is the recipe's step satisfied, has a deadline passed, did the lid open)
is a free choice of the phase that asks, so the properties hold for every course of a cook. The
verdicts of `pf_safety_tick` are all there, with their effects; how they are reached is in
`FlameSafety`.

**`Supervisor`** — what `GrillControl` and `FlameSafety` have in common, as the abstract specification
both implement: a pot that is out, in a first light, relit, burning or in error, whether a fire is
known in its light, and the relights left. A light is handed over only with a fire known or while the
cook is heard (`hearing`, an input that the supervisor does not constrain); a relight comes only out of
burning and spends one; out of an error the pot is put out first. `GrillControl` maps `known` to what Smart
Start decided and `hearing` to the phase in which commands are drained; `FlameSafety` maps `known` to the
fire itself (`caught`) and hears nobody, because its lights are not ended by hand.

**`AugerFeed`** — the cycle, the cap and the fuel total: `cycle.c` whole, and every place of
`control.c` that switches the auger. A tick is an instant, after which 1 to `Gap` units of time pass,
so ticks are uneven as they are in the daemon. Mode changes are asked for at any time (`ChangeMode`),
which over-approximates `GrillControl`; the controller's output is any of `HoldOn`. The fan
(`run_fan_logic`) is left out.

**`FlameSafety`** — what the verdicts of `pf_safety_tick` are computed from. One tick is one unit of
time: `Sense` moves fire, barrel and reading and ages the clocks, commands may come, one of the
verdicts (`LightGoesOn`, `LightFails`, `FlameOut`, `NeverCaught`, `BurnsOn`, ...) is given, and `run_mode`
hands a light over or not. The environment is a fire that may catch in a fed pot over a glowing
igniter and may go out at any time, a barrel that cools in every unit without a fire, down to what the
igniter alone makes (`Warm`), a probe that may be lost at any time, and a reading that may flare for a
tick. The two filters are taken to do what they are for. A lid and a tuning measurement are a choice
in every tick; the clocks that end a lid pause are not followed, and the lid is not opened during a
light. Overrides of the igniter, a forced end of a light, a resume and a recovery are left to
`GrillControl` and `Recovery`.

**`Recovery`** — what one life of the daemon leaves to the next: the marker, the checkpoint, the
resume snapshot and the restart reason as files (`disk`), and what a power cut may bring back of them
(`durable`): `pf_write_file_atomic` syncs the directory, `unlink` does not. `main`'s boot and exit are
one action per file operation and may be cut between any two by `Die` or `PowerCut`. While the daemon
runs, a tick is some changes of what the snapshot carries, then `checkpoint()`, whose clock is
`unsaved`. Settings, clocks and sensors at boot are choices. `DurableUnlink` is the one thing assumed of
the file system.

**`Autotune`** — the relay test: one action per crossing, per tick of the conditioning, per way to
end. Periods and amplitudes are choices; the module keeps which relay (centre and size) each averaged
half belongs to.

### What meets the grill

**`CommandQueue`** — the ring of `cmdq.c` under its mutex, one action per push and pop.
**`CommandFifo`** is what it promises: a sequence of at most `QLen` commands. The ring implements it
under the mapping of the slots from tail to head (`ImplementsFifo`).

**`Notify`** — targets, rests, limits, steps, the timer and their after-actions for one meat probe
with an ambient sensor; temperatures are three levels that may change in any tick, and a restart
keeps what the snapshot holds.

**`Alerts`** — one rule's state, the alarm table and whoever acknowledges, silences, edits or deletes,
in any order. **`Conditions`** — the tree of a rule's conditions with the start times of its nodes,
evaluated as `eval_path` does, against a reference (`Meaning`, which looks at every second there was); and the
conversion of a tree to the other unit (`SameInCelsius`). **`Push`** — subscribing and sending, with the batch copied,
the lock let go, a retry, and a subscription that changes meanwhile. A message that a service accepted and
whose answer was cut off, or came after fifteen seconds, is to the code one that failed: it is an outcome of
its own in `DeliverOne` and `Post`, and what the worker then sends again arrives twice.

**`Tuner`** and **`Learning`** — a run over set points, each step asked for through the command queue and
answered ticks later, and the library it files into: `Learning` is the pure part (merging, averaging,
eviction, taking back, and what a restart reads back), used by `Tuner`.

**`Panel`** — the screens as a stack, the rows of every menu by the last status, what a press, a turn,
two presses and a long press do on each, the flash, the sleep and the timeouts.

### What it keeps, and devices

**`Backup`** — a run over several locations of which any may fail, the listings, the pruning by name
and number, the schedule. **`SignIn`** — a device code per cloud and its poll, of which an abandoned one
may still run. **`Restore`** — from the fetch to the next start, one action per file operation, with a
death between any two. **`Update`** — the worker, its one job at a time, the offer that checks replace,
the schedule and restarts. **`Settings`** — the tree reduced to its limits, some things that migrations
replace and some rules; the boot with its fifteen migrations, the repair, patches, restored trees,
conversion and saves that fail.

**`Bluetooth`** — registrations in slots, discovery, connection, passive listening, the write queue,
BlueZ's signals and timeouts in any order, resets of the adapter. **`BluetoothScan`** — askers of three
kinds and the one manager that scans for all. **`Probes`** — the poll that reads outside the lock
against reloads that tear devices down. **`ProbeFilter`** — `tempq.c` and the gate over it on a scale of
three levels. **`Network`** — the network thread and the watchdog, with NetworkManager, the radio and
the clock as external actions.

### The instances

`MCGrillControl` and `MCOutputs` hold the recipes and command sets of the runs. `Recovery`,
`FlameSafety` and `Backup` are their own instances: their constants are given in the cfg.
`Files` and `Services` put many small components side by side, and are what the theorems about those
components are of; `MCFiles` and `MCServices` give their constants the values of one run each. The
components in them share no state here, so a product would say nothing more than its factors; instead a
variable `which` picks the component of the behaviour in the initial state, the variables of the others
are `"absent"`, and the states are the sum of theirs. A property of a component is stated there as
`which = "..." => Component!Property`. One component of each (`AugerFeed`, `CommandQueue`) is extended
rather than instantiated and rests in its first state in the behaviours of the others.

## 3. Runs

| run | what it asks | instance |
|---|---|---|
| `outputs` | finality of an emergency off that got the lock, agreement of mirror and relays; a wedged daemon and a requested stop end with everything off | two relays, one process life after another |
| `grill_modes` | Error is dark, only a proven light is fed, every step is one of the supervisor's, under every command of a grill without recipes | two relights, overrides in any mode, the shutdown switch |
| `grill_recipes` | a Stop and a Finish are final | two recipes of three steps |
| `grill_live` | a recipe left alone goes on to its end | three recipes, one relight |
| `grill_stop` | **violated**: Stop means stop, however it arrived | one recipe |
| `recovery` | recoveries of a cook, its relights, what boot may light, what a warm restart gives back | two relights, one warm restart, one tick between checkpoints |
| `recovery_once` | **violated**: relit at most once per cook | one relight |
| `flame` | a light ends, the igniter is capped, no unlit pot is handed over, a pot that went out is noticed, every step is one of the supervisor's | pit 0 to 5, one relight |
| `flame_dead` | **violated**: if the fire is failing the fall will say so | the same |
| `backup_schedule` | **violated**: a slot of a schedule that never had a backup is served | one folder, a slot every two hours, four hours |
| `files` | backup, sign-in, restore, update, settings, panel, auger: what each must not do and what must come | below |
| `services` | alarms, conditions, notices, push, tuning, relay test, Bluetooth, scan, network, probes, filter, queue | below |

The components of the two sums, with their bounds:

* `Backup`: three sets of locations, keep 1, two hours of one day. `SignIn`: two clouds, two polls each.
* `Restore`: two sound archives and one that is not, five starts. `Update`: two branches, two versions,
  two days.
* `Settings`: no file, junk, a default, old ones in F and C, some edited by hand past each limit;
  seven patches, two restored trees, one save that fails.
* `Panel`: four things the grill may show, which between them show every kind of row; a stack of five, as
  in the code; a menu and a dark screen that time out after one tick.
* `AugerFeed`: cap 3, rest 5, ticks of 1 or 2, cycles of 2 and 3.
* `Alerts`: four entries, four ticks of a clock, two acknowledgements. The table is never full in it;
  what happens then is in section 5. `Conditions`: trees of one to three levels, up to three conditions in
  a group (`Width`), four ticks, timers of up to three.
* `Notify`: three levels, three asks, two ticks between them. `Push`: two phones, two services beside them,
  a queue of two, which an event for all three services overflows, one event.
* `Tuner`: two slots, a run over 150 and then 100 °C, two measurements; the database is new, or holds the
  full library of two earlier runs (`MCDatabases`). `Autotune`: 5 and 12 crossings,
  as in the code's bounds of 5 and 24, with one resizing, two trims and one recentring.
* `Bluetooth`: two slots, a pinned probe, one that takes any of its name and a listener, two peripherals,
  writes of two. `BluetoothScan`: three scans. `Network`: one network.
* `Probes`: two channels of a converter; a wireless probe with its air and a virtual grill; three
  reloads. `ProbeFilter`: levels 0, 9 and 20, a median of 5 and a mean of 3 (10 in the code), a hold of 4,
  a slew that is counted over at most two units after a longer wait (`LongStep`, 5 s in the code).
* `CommandQueue`: four slots, three commands; the proof covers every length.

In `Tuner` the second database has a place in use for each set point: one measured twice, with a plant of
both, and one measured once, with none. A run into it refines each, keeps what it refines aside, and puts
it back when the verification fails; a run into the new one files and removes. Captures, removals at the
page and restarts come between. An entry that is evicted is not put back by the code, so the two set points
have two places: section 5 (`RoomForAll`). In `Push` one event is enough for what the property speaks of, the same
message accepted again; that two events are not confused is what the theorem adds.

Why the bounds are enough. A recipe of three steps has a first, a middle and a last one, and every
rule of the code speaks of a step, its successor or the last Shutdown step; two relights have a
first, a last and a refused one; relays are independent of each other in the arbiter, so two show
every interference. In `AugerFeed` a cycle may be shorter than, as long as and longer than what is left
of the cap, `Rest` is longer than an override, and a tick can step over either limit. In `flame` the
scale keeps the order of the real thresholds: ExitRise 2 < Drop 3 < twice ExitRise, as 12, 20 and
24 °F are; ProveRise is the smallest change; the barrel counts as hot below its top; the set points
are at and above `smoke_min`; the cap, the deadlines and the confirmation are the shortest that
take more than one tick. `ProbeFaultS` is 0 there, a probe lost in two ticks running; the
theorems cover every value. `Bound`, the ticks for which a dead pot may go on being fed, is made of what
the code gives them: the igniter of a proof and as long as nobody can read that it is over (`Glows`), the
barrel until it is cold (`Cold`), the slower of the climb's deadline and the confirmed fall, and a probe
lost at its end. `Recovery` bounds the ticks that change something between two
checkpoints (`Stale`, 10 s in the code) and the warm restarts of one cook (`Updates`), both named in
its guards. Two of everything that races (phones, clouds, polls, peripherals, branches, set points)
give the one that was there and the one that came meanwhile; the smallest number of backups to keep, and
the smallest queue that holds more than one thing, overflow; the library is only filled and the alarm
table not even that, because what happens when they overflow is in section 5. History variables are cut
off just above the limits they are compared with, and counters of asks, events, starts and scans are
bounded in the guards of the actions that count.

Fairness. `GrillControl`: the control thread ticks (it is a loop with a deadline, watched by the
watchdog); a light that is always given the chance to end ends, because Smart Start has a
deadline in both halves (`EveryLightEnds`); a shutdown and a prime end by the clock; a
recipe's condition that can be met again and again is met. Nothing is assumed of the cook, who may
never answer. `AugerFeed`: the thread goes on with its tick however many commands it finds, and
time passes. `Outputs`: the watchdog and the deadline thread run, systemd does what its unit file
says, and a hung hardware call need never return. `SignIn`: a poll goes on until its code is gone or over
(`device_poll_thread` sleeps and asks again). `Panel`: the display is told of the grill again and again;
nobody need ever touch the knob. No other component assumes fairness: what must happen in time is
stated there with a clock. `CHECK_DEADLOCK
FALSE` stands only in `MCServices.cfg`: its components may stop at the end of their bounded counts, or
when nobody asks for anything more.

## 4. Proofs

The theorems hold for every value of the constants that the named assumptions of the module that
declares them allow (`ConfigAssumption`, `FeedAssumption`, `FlameAssumption` and so on: the constants are
numbers, sets or sequences of the right kind). A hypothesis that is more than that stands in the theorem
itself and is named below; each has its reason in section 5. There are eight proof modules.

`Outputs_proofs`: for any set of relays, types, mutual exclusion, the finality of an emergency
off that got the lock, and the agreement of mirror and relays.

`GrillControl_proofs`: for any recipes, commands and configuration, the types, that Error is dark, the
budget of relights, the lock of the igniter, that a recipe stays on its steps, that a Stop and a Finish
are final, and that only a proven light is fed. The inductive invariant is the conjunction of the state
properties and two strengthenings: `RequestSpent` (past the request phase there is no pending request,
which is what makes Stop final) and `Quenched` (after a Stop or Finish the grill is in a mode that does
not burn, with nothing in hand that lights). There is one lemma per phase of the tick and one step per
action. `MachineKeepsPromise` is the refinement of `Supervisor`: every step does one of five things to the mode
and the relights (`Moves`: it stays, lights, burns, goes out, lights again), each of which is a step of
the supervisor or a stutter. Three theorems (`OnlyLitIsFed`, `ErrorSticks`, `MachineKeepsPromise`) assume that
nobody steps a recipe by hand; without the assumption they are false, see section 5.

`AugerFeed_proofs`: the cap, the rest and the total, for every cap, cycle, rest and tick. None is
inductive alone: `Clocked` says that the code's clock is the auger's own as long as nobody switches on
what is on, `Fed` that past the feed the run is within the cap and a resting auger has only just
been switched on.

`FlameSafety_proofs`: that a light ends, that the igniter is capped, that no unlit pot is handed
over, that a pot whose fire died is noticed and that it implements `Supervisor` with the fire itself as what is
known (`FlameKeepsPromise`), which at a handover is the third of these. `LightOK` says that a deadline that has passed is unjudged only while the probe is lost, and
bounds the light by the deadlines and the time a probe may be lost behind each; `GlowOK` that the
cap's clock is at most a tick behind the relay; `FireOK` that without a fire the pit is no higher than
the lowest reading or the igniter makes it. The last needs `BarrelAssumption`: the igniter alone
makes neither the large rise nor a hot barrel, and a flat is not an instant.
The fourth rests on `DarkOK`, which follows a dead pot through three stages. `CoolOK`: its igniter is on for no
longer than the proof and a lost probe, and from then on the barrel cools, whatever reading there
is. `ClockOK`: once it is cold, a clock that ends it runs: `stalled`, towards the climb's deadline, when the
fire was never established, and `fall`, towards the confirmation, when the reference is high enough for a
cold barrel to be below it (`Falls`); neither is behind by more than the ticks the probe was lost.
`BurnOK`: there is a peak and a set point to judge by. An established fire with no such reference is what
`flame_dead` finds. Its hypothesis `PotAssumption` says that set
points are at least `relight_drop` above the air and twice `smoke_min` more than that; with `SetPoints`
{1, 5} TLC finds the property violated.

`Recovery_proofs`: one recovery between two warm restarts, only known fires relit, the warm
restart seamless, and the budget of relights. The invariant says of each file, and of what boot has read
of it, what memory said when it was written, and that every change that would make it a lie removes it
first. All four assume `DurableUnlink`; without it TLC finds `OnlyItsFireIsRelit` violated. The budget
(`RelightsAreBudgeted`) assumes `Stale <= 2` as well. A checkpoint may be older than the last flame-out,
and `Behind` says how many relights a snapshot does not know of: none in the resume snapshot, at most one in
the checkpoint. `Recent` is what makes it one: a checkpoint that misses a flame-out was written before
the light that followed, which takes three decisions (flame-out, proof, handover) to be over, and so
to be followed by another. With `Stale` 2 TLC passes, with 3 it finds two relights forgotten by one crash.

`Files_proofs` (of `Files`):
* `RestoreIsWhole`: what is announced as restored is whole. The invariant says, for each step of the start
  that applies a stage, which of the three parts come from the stage and which from before, and that the
  announcement is written only after the last.
* `AppliedAsAsked`: what an install puts on the grill was asked for, or was on offer when it was accepted.
  `OfferStands` says that no check replaces the offer while a job holds it, `FetchedOK` that what was
  fetched is it.
* `GoodBackupStays`: a backup on record as good is at every location it was sent to. `NewestIsNow` says
  that no copy sorts after the one being made, so that pruning to any number keeps it (`NewestIsKept`). Hypothesis `NotRenamedDown`.
* `RepairMends`, `BootKeepsTheirs`: what a start does to one file, for every file: twelve passes of
  the repair are enough, and no migration, adoption or repair takes the user's rule (but the one a release
  retired) or gives back a deleted one. A measure (`Rank`, what is wrong with a tree, at most eight things) falls with every pass.
* `LimitsStay`: no tree outside the limits runs the grill. The invariant is that memory is valid and the
  file on disk can be mended, wherever a save failed. Hypotheses `MendableFiles`, `UnitsAlone`, `ConvertsWide`.
* `TheirsStayTheirs`: the action property over starts, from `BootKeepsTheirs`, with no hypothesis.
* `StrayPressDoesNothing`: what a dialog asks about is done only when the knob was turned on it. The invariant
  is that only the top of the stack may be a dialog (`IsStack`), and that one which stands on its action
  was turned to it: none opens that way, and what comes up when a screen goes is no dialog.

`Services_proofs` (of `Services`, which extends `CommandQueue`):
* `RingIsFifo`: the ring implements the bounded queue for every length and set of commands. The invariant
  ties count, head and tail together modulo the length; the refinement goes action by action.
* `MeasureIsClean`: `SinceChange`, the halves kept since the relay last changed are of the relay that runs,
  so that four crossings after a change all four are.
* `RepeatsOnlyWhatWasLost`: one slot to an endpoint (`OneSlotEach`), one place in the queue to an event
  (`QueuedOnce`); what is queued is unheard, and what is yet to be sent of the job in hand was heard at most once
  before, in the first attempt, with the answer lost.
* `EachActsOnce`: what was carried out and what waits are together at most what was asked for.
* `FailedTuneIsTakenBack`: while a tune is being verified, putting back what was kept aside gives the
  library it was filed into, whichever slot it went to. Hypotheses `PointsApart`, `RoomForAll`.
* `ReportListedWithRoom`, `ReportListed`: what a rule reports stands in the table whenever there is
  room for whoever writes an entry (`HasRoom`); and in a table of `AlarmAsks + 2` places there is. The
  second is a pigeonhole: every entry is a rule's, each under a key of its own, or a moment's, of which
  there are as many as were asked for. With a place less TLC finds a report that is not listed.
* `NodesMeanWhatTheySay`: the walk over a tree answers what the tree means, for trees of any depth, width and
  joins. `CondInv` says of each timer that its clock is the second from which its condition has been true
  without a break, 0 when it is not true now (`Counts`): not of what the nodes answered, but of what is meant
  by the nodes in it, in every second since (`Raws`). That the two recursive functions, the walk (`Says`) and the
  reference (`Meant`), have a value at every node is proved from the leaves up: among the levels of
  which that is false there would be a least (`LeastOf`), and the one before it gives it (`SaysWalks`, `MeantWalks`); that
  they agree goes by `FromTheLeaves` in the same way. `PastMeans`: a second that is past means for ever what it meant.
* `SameSaidInCelsius`: hypothesis `WrittenExactly`. The model's degrees are whole and the code's are doubles, so
  the theorem is about the readings, targets, numbers and gaps whose conversion is whole; an operand that the
  operator does not look at may be anything. A gap is compared with gaps and a reading with readings (`Kinds`),
  and comparing two numbers that were scaled alike is comparing the numbers (`CompareIs`). No target is
  32 °F or less, see section 5.

`Devices_proofs` (of `Services`):
* `ReadingLive`: a driver that has a reading has a link that stands. `LinkOK` ties what the manager knows
  of a slot (its characteristics, that it is ready) to a link that stands, so that the end of a link,
  by whatever message it is learned, takes the reading with it.
* `ScanComes`: a count that was noted is of a scan that is over, so a snapshot answers all who wait.
* `JoinIsUnderWay`: the page waits only for a join that is pending or being made.
* `ReadingIsOwn`: `OwnReadings`, that a valid value was read from the port its probe has now, of the device
  that is open for it now; `SamplesOK`, that what a poll has read and not yet stored is of the devices in force.
* `LastingBelieved`: a difference that the gate holds off has been held off for as long as the mean has
  stood and not yet for the hold time, and without one the mean is what is reported (`HeldOff`).

Proved and in no run, because a run would add nothing: `MutexOK`, `StepInRange`, `ErrorIsSticky`,
`LockHoldsIgniter`, `RelightBudget` of `GrillControl`, `RestIsKept`, `NeverOvercounted`; and
`LitBeforeFed` and `LitByFire`, which are what the supervisor says of a handover (`ImplementsSupervisor`
is in the runs).

Only model-checked: liveness (`WedgedIsMadeSafe`, `StopEnds`, `RecipeGoesOn`, `KeepsFeeding`,
`CodeGoesAway`, `IdleComesHome`), which is out of the prover's reach, as is anything about ENABLED; and the
properties a run shows violated. Every other property of a passing run is a theorem. Of the recursive
functions, those over a condition tree are proved about; what the sum behind the mean of `ProbeFilter` computes
is not: its proofs use what the steps keep. Where a proof needs an induction over numbers it takes a
least counterexample (`LeastOf`).

## 5. Found

Each of the first four is the counterexample of a run.

* `grill_stop`: a Stop by the shutdown switch or by clearing an error leaves the recipe running, and
  a recipe on its Startup step lights the grill again.
* `recovery_once`: a warm restart does not read back the count of recoveries, so a cook is
  recovered once per warm restart and not once.
* `flame_dead`: a change between Smoke and Hold in the first minutes counts as an established fire;
  near the outdoor air the pit then has no fall to show, and a pot whose fire dies is fed without end
  and only reported (`W10_NOT_HEATING`).
* `backup_schedule`: a schedule that has never made a backup looks for its next slot from now, each
  time it looks (`features/backup.c:1720`, `1878`), so no slot is ever due until a backup is made by hand.

Those below are in no run. Where a definition states the expectation that fails, it is named: put into
a cfg, TLC shows the counterexample.

Outputs and the mode machine:

* A relay write that has passed its look at the latch (`core/outputs.c:51`) and is held up in the
  hardware call switches its relay on after an emergency off that gave up waiting for the lock
  (`EmergencyOffMeansOff`; comment at `outputs.c:135`).
* Skip or Back in the tick after an error leaves Error without a Stop (`control.c:732`,
  `docs/safety.md:29` "Error is sticky"): why `ErrorSticks` and `MachineKeepsPromise` have an assumption.
* Each manual "on" restarts the clock the auger cap reads (`control.c:657`, `docs/safety.md:23` "60 s
  continuous ... also applies in Manual"): why `CapHolds` has an exception.
* The peak at a handover is the raw reading (`safety.c:110`), where the comment at `safety.c:312` says
  it is the filtered pit's; a flare at that moment may relight a fire that burns.
* An override that runs out leaves its output as it was where the mode does not write it
  (`control.c:2514`). The fan is not modelled, but the same code shows that a fan override which ends
  during a lid pause leaves the fan off until the lid closes.
* A run of the auger cut by a mode change, a lid or an expired override is not added to the total
  (comment at `control.c:2499`): why `NeverOvercounted` is one-sided.
* A Prime refused during a light overwrites where the light leads (`control.c:669`). A recipe step begun
  during a relight is not entered if its mode is the other burning mode (`control.c:1023`).
* Where a set point, or `smoke_min`, is closer to the outdoor air than `relight_drop`, a pit has no room to fall in.
  Settings keep them at 100 °F or more and the drop at 50 °F or less (`settings.c:167`–`177`), so it
  takes a hot day and all of both: why `DeadPotNoticed` assumes `PotAssumption`.
* CLEAR_ERROR leaves the error's code in place; a Startup asked for in Startup restarts the deadline.
* A lid opened during a light and closed again can look like the rise that proves it.

Restarts:

* A resume that is found and then refused leaves a hot pit without its fan: the boot check
  (`main.c:239`) looks only at whether there is a snapshot, before `pf_control_resume` has judged it
  (`HotPitIsAttended`; comment at `control.c:2637`).
* A checkpoint a tick old gives a relight back that has been used (`docs/safety.md:21` "1 per cook"): why
  `RelightBudget` of `Recovery` counts it. One that is as old as a relight and the next flame-out take
  gives back two: why `RelightsAreBudgeted` assumes `Stale <= 2`. In the code it is ten seconds, and a
  light takes minutes.
* `unlink` is not followed by a sync of the directory (`control.c:3020`), so a power cut may bring back
  what was removed: why the theorems assume `DurableUnlink`.
* A resumed relight does not know where it led; an error is not kept over a restart (`control.c:3091`); a
  recovery does not restore the recipe (`control.c:2701`). The network watchdog's own restart leaves a
  reason of its own (`netmgr.c:137`).

Queue and notices:

* A full queue drops the emergency stop like any other command (`StopIsHonoured`; `cmdq.h:18` "e-stop: always
  honoured", `api.c:747`).
* A step speaks again after a restart (`StepSpeaksOnce`).
* A push that was accepted but whose answer is lost or late is sent again, and arrives twice
  (`push.c:160`, `205`, `246`; `webpush.c:643`): why the property is `TwiceOnlyIfLost` and not that nothing
  arrives twice, which is what the comment at `webpush.c:387` is about.
* In a full alarm table `slot_for` takes over an entry that is retired or was seen (`alarms.c:80`–`94`), and
  `pf_alarms_raise` gives it the new rule's text and leaves it the old key (`alarms.c:107`, only a free
  entry gets one): what the rule reports is not found under its key again. Where nothing was
  acknowledged it is turned away. Moments nobody looks at fill the table: why `ReportListed` assumes a
  place for each.
* The timers of a rule are kept under `path * 31 + i` (`rules.c:383`), so that in groups of 32 conditions and more
  two nodes may share one. The model tells nodes by their path.
* A target of 32 °F, converted, is 0 °C, the number that stands for no target: why `SameSaidInCelsius` assumes
  none.
* The entry of a deleted rule stands (`EntryHasOwner`; `rules.c:560`).

Tuning:

* A tune that fails its verification when there was no result before it has already been applied
  and saved (`BadTuneIsNotSaved`; `tuner.c:432`–`434`, `control.c:471`, `756`).
* Recentring the relay does not reset the errors measured around the old centre (`JudgedByItsOwn`;
  `control.c:2178`, `2200`), and trims move the centre without restarting them. An open lid stretches
  a half; the steady window survives a test; a change of the set point does not end one.
* Nothing keeps the set points of a run apart. One within 5 °C of two entries (115 and 107 °C, then 111) is
  filed into the first slot that is near, not the nearest (comment at `learning.c:404`), while what is kept
  aside is the first in the order of set points (`tuner.c:416`, `484`; `learning.c:561`): when it fails its
  verification the wrong entry is overwritten and one is lost, against `tuner.c:69` "put it back
  exactly". What a filing evicted from a full library is not put back either (`learning.c:787`). Why
  `FailedTuneIsTakenBack` assumes `PointsApart` and `RoomForAll`; TLC finds both with `Points` {107, 111,
  115}, and with one slot for two set points.
* The waiting plant of another set point is dropped; duplicate set points are visited twice. An import takes in entries that are too close, too many or unmeasured (its comment:
  "All or nothing").
* A run that gives up does not shut the grill down (`docs/learning.md:9`), and one that is stopped or runs
  into an error keeps its unverified tune. The docs speak of seven crossings and twelve; the code counts 5
  and 24 and refuses.

Settings, backup, sign-in, update:

* Repair does not mend every band. A complaint about the set points resets `safety.max_target` to what
  ships, 550 °F (`settings.c:978`), so with a valid overheat limit of 500 °F, or a lowest set point of
  550, the tree stays wrong through all twelve passes, and every later complaint is hidden behind this
  one. It takes no editing by hand: a file of before schema 29 whose overheat limit was set to 500 °F gets
  there by the upgrade (`[Old EXCEPT !.max = 500]` in `MCFound` violates `SettingsAreSafe`). The grill then
  runs on it, against the comment at `settings.c:974`, and the page's changes are all refused. `Mendable` says
  which trees are mended: why `LimitsStay` assumes `MendableFiles`. A complaint about something that is
  not in the table (a short cycle) ends the repair in the same way (`HandFiles` of `MCFiles`).
* The units cannot be changed at the page from the defaults. The patched tree has the new units and the
  old numbers when it is checked (`settings.c:1144`), so in Celsius the 650 of `maxtemp` is more than
  343, and in Fahrenheit the lowest set point, 71, is less than 100 (`UnitsChange`; `docs/api.md:43`; the
  result is ignored at `tests/test_recipe.c:137`). A patch that brings limits along has them checked in
  the new units, stored under the old and converted: why `LimitsStay` assumes `UnitsAlone`. Each limit
  is rounded on its own, so that two which are one degree Fahrenheit apart come out equal: why it assumes
  `ConvertsWide`. Defaults are in Fahrenheit, whatever the tree's units.
* A file without its `schema_version` is taken for a current one and skips the migrations. The seventh
  overwrites a rule whose text was reworded as long as its conditions are the shipped ones. `pf_set_put`
  validates nothing.
* A restore announces its cooks as restored although one that cannot be copied is passed over
  (`backup.c:1634`). The result of `sqlite3_backup_step` is ignored (`backup.c:345`).
* Two runs in one minute give two files of one name on Drive. Listings are cut at 100 and 200.
  Pruning goes by name (`backup.c:1379`), so a grill that is given a name which sorts before its old one
  loses each new backup at once and keeps those of the old name: why `GoodBackupStays` assumes
  `NotRenamedDown` (`Grills = {1, 2}` violates `GoodBackupIsThere`). A day of the month of 29 to 31, set
  outside the page, can walk past the 40 days of `next_due`.
* The end of an old code's poll clears `pending` of the new code.
* `InstallOffered` does not check that the offer is of the current branch.

Bluetooth, network, probes:

* After a reset of the adapter `g_discovering` stays true, so a device that is idle is not searched
  again. A bus error ends the manager for good (`bluez.c:735`) while `pf_ble_available` stays true, so scans
  asked for then stand for ever.
* A driver's `destroy()` frees its context right after `pf_ble_unregister`, while the manager may be about
  to call back with it. Two unpinned probes with one name match the same peripheral. Nothing calls `set_units`
  of the iBBQ. Five of them that connect in one tick overflow the 32 places of the write queue in silence.
* A request for the hotspot while a join is pending is dropped (`netmgr.c:216`). After a failed join with a
  hotspot that does not come back the state is OFFLINE, in which none is tried again. A failed join forgets the
  saved profile that had worked (`wifi.c:184`). The write of the restart marker is not checked; the hour of
  the watchdog is the wall clock's.
* A reload during a cook clears every `in_use` while `g_in_use_explicit` stays (against the comment at
  `control.c:2718`). "None in the food" is not stored in the checkpoint. The branch
  `r->target_c > 0` near `probes.c:341` is dead.

Panel:

* **Smoke cannot be started from Hold at the panel.** `confirm_yes` takes the dialog away and calls
  `do_action(PF_ACT_SMOKE)`, which in Hold opens the dialog again (`ili9341.c:475`, `678`;
  `ConfirmedIsApplied`), against `screens.h:51` "confirmed, then applied now" and `docs/hardware.md:44`.
* The flash of a timer or a probe goes dark 5 s after it began when the grill is stopped, and a press in
  the dark acknowledges it unseen, against `screens.c:1173`. A press held back for 0.45 s
  acknowledges a flash that began after it; `pf_alarms_ack_all` acknowledges alarms not yet shown.
* A long press in a menu only backs out, against `docs/hardware.md:38` "emergency stop from any screen" and
  `registry.c:74`.
* Margins left by a timeout, a long press or a message stay on the screen unsaved: only Back reverts them
  (against `ili9341.c:755`), and the page opened again takes them as saved. A theme, colour or margin that is
  saved takes the settings' generation and passes over a page's change not yet seen.
* "Set" in an editor opened in Hold lights the grill if it has since been stopped. The manual screen left by
  a timeout or a long press leaves on what it switched on.
* A scan on a panel without Bluetooth leaves `bt_scanning` true (`ili9341.c:263`), as does a long press
  during a scan: menus then do not time out, and the end of the scan moves the row of whatever list is open.
  Names are cut at 24 characters and a device's may have 31, so Delete removes nothing and says removed. A
  screen opened on a full stack replaces its top: the scan's list under the dialog that connects.

## 6. What is left

In this order:

1. The fan (`run_fan_logic`) in `AugerFeed` or beside it: its duty with the lid, an override and Smoke Plus.
2. The import and export of the library; a full alarm table; the end of a hotspot and the reports of `wifi.c`.
3. The client loops of MQTT and the webhook; history and the published status.

## 7. Not modelled

Pure I/O and numerics: drivers, chip registers and frames, the HAL and its simulator, PID and learning laws,
the fits, drawing, HTTP and JSON, SQLite, cook files, the storage of recipes, the pellet level, weather,
archives and the clouds' protocols. Within the modelled parts, the following is left out or coarser than
the code, and no property reads it:

* `OutputsOff` always gets to the relays: `main.c:92` returns before that when the platform, the directory or
  the settings cannot be set up, and applies a staged restore first.
* `Restore`'s `Mark` leaves the order busy, as a restart that was asked for does; the moment between the mark
  and the end of the web server, and the simulator's way out, are not steps of their own.
* A rule that waits for the lid (`rules.c:699`) and the `every` of a rule (`rules.c:756`) are not in `Alerts`.
* `Tuner`'s `Reverts` is one step; `tuner.c:489` lets go of the lock around the push of the command.
* `in_use` by a target (`probes.c:343`), which nothing in the code sets.

What the rest of the system sees of them is a choice in the models or
an external action. Tailscale and the tunnel are the supervision of external programs. `PROJECT.json` names
each component with what of it is modelled and what is not, and lists the hazards with the properties
that cover them and, where none does, the reason.
