------------------------------ MODULE AugerFeed ------------------------------
(***************************************************************************)
(* The feed: the cycle (core/cycle.c), the auger half of run_mode with its *)
(* cap and its rest, and every other place of core/control.c that switches *)
(* the auger (enter_mode, MANUAL_OUTPUT, the lid).                         *)
(*                                                                         *)
(* A tick is the commands and mode changes that come before run_mode, the  *)
(* lid, the feed and run_mode's own mode changes, all at one instant; then *)
(* between 1 and Gap units of time pass.  Clocks are kept as what is left  *)
(* of them, or as how long they have run, cut off where the code stops     *)
(* telling values apart.  Which mode changes are asked for is left open    *)
(* (GrillControl decides that); temperatures are choices.                  *)
(***************************************************************************)
EXTENDS Integers, FiniteSets

CONSTANTS
  Cap,        \* safety.auger_max_on_s
  Rest,       \* the 15 s after the cap has tripped
  Override,   \* safety.manual_override_time
  Gap,        \* the longest time between two ticks
  HoldLen,    \* cycle_data.HoldCycleTime
  HoldOn,     \* u * HoldLen for the feeds the controller may ask for
  SmokeOn,    \* the on time of the smoke cycle
  SmokeOff,   \* and its off time
  PrimeTime,  \* prime_amount_g / augerrate of the primes asked for
  ByHand,     \* the MANUAL_OUTPUT commands for the auger: "on", "off"
  AllowManual,\* safety.allow_manual_changes
  Lost        \* the bound of the history variable owed

ASSUME FeedAssumption ==
  /\ {Cap, Rest, Override, Gap, HoldLen, Lost} \subseteq Nat \ {0}
  /\ {SmokeOn, SmokeOff} \subseteq Nat
  /\ SmokeOn + SmokeOff > 0
  /\ HoldOn \subseteq 0 .. HoldLen /\ HoldOn # {}
  /\ PrimeTime \subseteq Nat
  /\ ByHand \subseteq {"on", "off"}
  /\ AllowManual \in BOOLEAN

Mode    == {"Stop", "Prime", "Startup", "Reignite", "Smoke", "Hold",
            "Shutdown", "Monitor", "Manual", "Error"}
Lights  == {"Startup", "Reignite"}
Burns   == {"Smoke", "Hold"}
Feeding == Lights \cup Burns \cup {"Prime"}
Free    == {"Manual", "Monitor"}

Forever  == Override + 1          \* manual_until = 1e18
Smaller(a, b) == IF a < b THEN a ELSE b
Left(t, d)    == IF t > d THEN t - d ELSE 0

VARIABLES
  phase,  \* what the tick does next
  mode,
  auger,  \* the auger relay
  since,  \* now - auger_on_since; read only while the auger is on
  rest,   \* what is left until auger_rest_until
  manual, \* what is left until manual_until[AUGER]
  lid,    \* lid_open
  cycle,  \* c->cycle, with its age for its start
  run,    \* history: how long the auger has really been on
  again,  \* history: it was switched on by hand while it was on
  owed    \* history: what the auger has fed in this cook less
          \*   auger_total_on_s; at Lost it is no longer followed

feed == <<auger, since, run, again, owed>>
vars == <<phase, mode, rest, manual, lid, cycle, feed>>

-----------------------------------------------------------------------------
(* cycle.c.                                                                *)

NoCycle == [active |-> FALSE, age |-> 0, on |-> 0, len |-> 1]

\* pf_cycle_begin, the feed already within u_min and u_max: the on time is cut
\* at the cap, the length stays.
Begin(on, len) ==
  [active |-> TRUE, age |-> 0, on |-> Smaller(on, Cap), len |-> len]

Wants(c) == c.active /\ c.age < c.on
Done(c)  == ~c.active \/ c.age >= c.len

\* smoke_cycle: a light in a hot barrel may be fed at the learned rate instead.
SmokeCycles(m) ==
  {Begin(SmokeOn, SmokeOn + SmokeOff)} \cup
  (IF m \in Lights THEN {Begin(on, HoldLen) : on \in HoldOn} ELSE {})

\* fault: a cycle that was stopped does not count as done.
NextCyclesStopped ==
  IF mode \notin Feeding THEN {cycle}
  ELSE IF mode = "Prime" \/ ~(cycle.active /\ cycle.age >= cycle.len) THEN {cycle}
  ELSE IF mode = "Hold" THEN {Begin(on, HoldLen) : on \in HoldOn}
  ELSE SmokeCycles(mode)

\* The cycle the tick feeds by: run_hold_cycle asks the controller, or the
\* learned feed under an open lid, when the last one is done.
NextCycles ==
  IF mode \notin Feeding THEN {cycle}
  ELSE IF mode = "Prime" \/ ~Done(cycle) THEN {cycle}
  ELSE IF mode = "Hold" THEN {Begin(on, HoldLen) : on \in HoldOn}
  ELSE SmokeCycles(mode)

-----------------------------------------------------------------------------
(* Switching the auger.  Off with and without adding the run to the total. *)

On ==
  /\ auger' = TRUE
  /\ since' = 0
  /\ UNCHANGED <<run, again, owed>>

\* auger_total_on_s += now - auger_on_since.
Counted ==
  /\ auger' = FALSE /\ since' = 0 /\ run' = 0 /\ again' = FALSE
  /\ owed' = IF owed < Lost THEN owed - since ELSE Lost

Uncounted ==
  /\ auger' = FALSE /\ since' = 0 /\ run' = 0 /\ again' = FALSE
  /\ UNCHANGED owed

\* What enter_mode begins with in each mode.
FirstCycles(m) ==
  IF m \in Lights \cup {"Smoke"} THEN SmokeCycles(m)
  ELSE IF m = "Hold" THEN {Begin(on, HoldLen) : on \in HoldOn}
  ELSE IF m = "Prime" THEN {Begin(Smaller(t, Cap), Smaller(t, Cap) + 1) : t \in PrimeTime}
  ELSE {NoCycle}

\* enter_mode: the auger goes off, and on again if the mode feeds.  A new cook
\* counts from nothing.  The rest after a cap outlives it.
EnterMode(m) ==
  /\ mode' = m
  /\ manual' = 0
  /\ lid' = FALSE
  /\ cycle' \in FirstCycles(m)
  /\ auger' = (m \in Feeding)
  /\ since' = 0
  /\ run' = 0
  /\ again' = FALSE
  /\ owed' = IF m = "Startup" THEN 0 ELSE owed
  /\ UNCHANGED rest

-----------------------------------------------------------------------------
(* Phase "cmd": what comes before run_mode.                                *)

\* The modes a command, a request, a recipe or a safety verdict enters.
Leads(m) ==
  {"Stop"}
  \cup (IF m = "Error" THEN {"Startup", "Smoke", "Hold", "Shutdown"}
                       ELSE {"Startup", "Shutdown", "Monitor"})
  \cup (IF m \in {"Stop", "Monitor"} THEN {"Prime", "Manual"} ELSE {})
  \cup (IF m \in Lights \cup {"Smoke"} THEN Burns ELSE {})
  \cup (IF m \in Burns THEN {"Smoke", "Reignite"} ELSE {})
  \cup (IF m \in {"Stop", "Error"} THEN {} ELSE {"Error"})

ChangeMode ==
  /\ phase = "cmd"
  /\ \E m \in Leads(mode) : EnterMode(m)
  /\ UNCHANGED phase

MayHand == mode # "Error" /\ (mode \in Free \/ AllowManual)

HandOn ==
  /\ phase = "cmd"
  /\ "on" \in ByHand /\ MayHand
  /\ auger' = TRUE
  /\ since' = 0
  /\ again' = (again \/ auger)
  /\ manual' = IF mode \in Free THEN Forever ELSE Override
  /\ UNCHANGED <<phase, mode, rest, lid, cycle, run, owed>>

HandOff ==
  /\ phase = "cmd"
  /\ "off" \in ByHand /\ MayHand
  /\ Uncounted
  /\ manual' = IF mode \in Free THEN Forever ELSE Override
  /\ UNCHANGED <<phase, mode, rest, lid, cycle>>

LidOpened ==
  /\ mode = "Hold" /\ ~lid
  /\ lid' = TRUE
  /\ Uncounted
  /\ cycle' = NoCycle
  /\ UNCHANGED <<mode, rest, manual>>

LidClosed ==
  /\ lid
  /\ lid' = FALSE
  /\ UNCHANGED <<mode, rest, manual, cycle, feed>>

\* LID_TOGGLE.
ToggleLid ==
  /\ phase = "cmd"
  /\ mode = "Hold"
  /\ LidOpened \/ LidClosed
  /\ UNCHANGED phase

\* AUTOTUNE_START begins a cycle of its own in the middle of another.
Autotune ==
  /\ phase = "cmd"
  /\ mode = "Hold"
  /\ cycle' \in {Begin(on, HoldLen) : on \in HoldOn}
  /\ UNCHANGED <<phase, mode, rest, manual, lid, feed>>

EndOfCommands ==
  /\ phase = "cmd"
  /\ phase' = "lid"
  /\ UNCHANGED <<mode, rest, manual, lid, cycle, feed>>

-----------------------------------------------------------------------------
(* Phases "lid" and "feed": run_mode up to the cap.                        *)

\* The pit's fall opens the lid, its rise or the clock closes it.
Lid ==
  /\ phase = "lid"
  /\ phase' = "feed"
  /\ \/ LidOpened
     \/ LidClosed
     \/ UNCHANGED <<mode, rest, manual, lid, cycle, feed>>

Runs == mode \in Feeding /\ (~lid \/ mode = "Hold")
Mine == manual = 0

\* Resting after a cap: off, whoever turned it on.
MustRest == auger /\ rest > 0

\* fault: the cap looks after the cycle's runs only.
TripsByCycle == auger /\ since > Cap /\ Mine

Trips == auger /\ since > Cap

\* What the cycle does to the auger, if an override does not hold it.
CycleOn(c)  == Runs /\ Mine /\ Wants(c) /\ ~auger /\ rest = 0
CycleOff(c) == Runs /\ Mine /\ ~Wants(c) /\ auger
IdleOff     == ~Runs /\ Mine /\ mode # "Manual" /\ auger

Feed ==
  /\ phase = "feed"
  /\ phase' = "timed"
  /\ UNCHANGED <<mode, lid>>
  /\ cycle' \in IF Runs THEN NextCycles ELSE {cycle}
  /\ \/ /\ CycleOn(cycle')
        /\ On /\ UNCHANGED <<rest, manual>>
     \/ /\ CycleOff(cycle')
        /\ Counted /\ UNCHANGED <<rest, manual>>
     \/ /\ IdleOff
        /\ Uncounted /\ UNCHANGED <<rest, manual>>
     \/ /\ ~CycleOn(cycle') /\ ~CycleOff(cycle') /\ ~IdleOff
        /\ \/ MustRest /\ Counted /\ UNCHANGED <<rest, manual>>
           \/ ~MustRest /\ Trips /\ Counted /\ rest' = Rest /\ manual' = 0
           \/ ~MustRest /\ ~Trips /\ UNCHANGED <<feed, rest, manual>>

-----------------------------------------------------------------------------
(* Phase "timed": the mode changes of run_mode, and the shutdown input.    *)

TimedModes ==
  (IF mode \in Lights THEN Burns ELSE {})
  \cup (IF mode = "Prime" /\ Done(cycle) THEN {"Startup", "Stop"} ELSE {})
  \cup (IF mode = "Shutdown" THEN {"Stop"} ELSE {})
  \cup (IF mode \in Burns THEN {"Shutdown"}
        ELSE IF mode # "Stop" THEN {"Stop"} ELSE {})

Timed ==
  /\ phase = "timed"
  /\ phase' = "wait"
  /\ \/ \E m \in TimedModes : EnterMode(m)
     \/ UNCHANGED <<mode, rest, manual, lid, cycle, feed>>

Wait ==
  /\ phase = "wait"
  /\ phase' = "cmd"
  /\ \E d \in 1 .. Gap :
       /\ since' = IF auger THEN since + d ELSE since
       /\ run' = IF auger THEN Smaller(run + d, Cap + Gap + 1) ELSE run
       /\ owed' = IF auger THEN Smaller(owed + d, Lost) ELSE owed
       /\ rest' = Left(rest, d)
       /\ manual' = IF manual = Forever THEN Forever ELSE Left(manual, d)
       /\ cycle' = IF cycle.active
                     THEN [cycle EXCEPT !.age = Smaller(@ + d, cycle.len)]
                     ELSE cycle
  /\ UNCHANGED <<mode, auger, lid, again>>

-----------------------------------------------------------------------------

Init ==
  /\ phase = "cmd"
  /\ mode = "Stop"
  /\ auger = FALSE
  /\ since = 0
  /\ rest = 0
  /\ manual = 0
  /\ lid = FALSE
  /\ cycle = NoCycle
  /\ run = 0
  /\ again = FALSE
  /\ owed = 0

Next ==
  \/ ChangeMode \/ HandOn \/ HandOff \/ ToggleLid \/ Autotune \/ EndOfCommands
  \/ Lid \/ Feed \/ Timed \/ Wait

Spec == Init /\ [][Next]_vars

\* The control thread goes on ticking, however many commands it finds.
Fairness ==
  /\ WF_vars(EndOfCommands)
  /\ WF_vars(Lid)
  /\ WF_vars(Feed)
  /\ WF_vars(Timed)
  /\ WF_vars(Wait)

FairSpec == Spec /\ Fairness

-----------------------------------------------------------------------------
(* Properties.                                                             *)

\* Types; only Hold has an open lid, and no clock passes its limit.
TypeOK ==
  /\ phase \in {"cmd", "lid", "feed", "timed", "wait"}
  /\ mode \in Mode
  /\ auger \in BOOLEAN
  /\ since \in 0 .. Cap + Gap
  /\ rest \in 0 .. Rest
  /\ manual \in 0 .. Forever
  /\ lid \in BOOLEAN /\ (lid => mode = "Hold")
  /\ cycle \in [active : BOOLEAN, age : Nat, on : 0 .. Cap, len : Nat]
  /\ run \in 0 .. Cap + Gap + 1
  /\ again \in BOOLEAN
  /\ owed \in Int

\* Whatever keeps the auger on - cycles that follow each other without a
\* pause, an override in any mode, Manual, a prime - it is off within a tick
\* of the cap (run_mode: "absolute auger cap regardless of source"), unless
\* somebody switches on by hand what is already on.
CapHolds == auger /\ ~again => run <= Cap + Gap

\* After a cap the auger stays off for the rest, through mode changes and
\* whoever asks for it: what enter_mode or a hand switches on the next tick
\* switches off (run_mode: "resting after a cap").
RestIsKept == auger /\ rest > 0 => run <= Gap

\* The fuel total never says more than was fed, whatever order modes, hands,
\* lids and caps come in.
NeverOvercounted == owed < Lost => owed >= IF auger THEN since ELSE 0

\* Smoke and Hold are fed for ever, through lids, caps, rests and tuning,
\* except while an override holds the auger.
KeepsFeeding == []<>(auger \/ mode \notin Burns \/ manual > 0)
=============================================================================
