------------------------------- MODULE Settings -----------------------------
(***************************************************************************)
(* src/core/settings.c: the settings tree, the file behind it, and what      *)
(* happens to both at boot (defaults, migrations, new rules, repair), on a    *)
(* patch and on a change of units.                                          *)
(*                                                                         *)
(* A tree is a record of the keys the rules of the file are about: a value   *)
(* that is no safety limit but is checked (cycle), three limits that bound    *)
(* each other (max, tmax, tmin), two that stand alone (auger, igniter), a     *)
(* difference of temperatures (drop), the controller, the notification       *)
(* rules, and the other things migrations have replaced (things): as an old    *)
(* build shipped them, as they are now, or the user's own. 0 is a missing     *)
(* number.                                                                 *)
(***************************************************************************)
EXTENDS Integers

CONSTANTS
  Files,      \* what the file may hold when the daemon starts: trees, NoFile, Junk
  Backups,    \* trees a backup may bring
  Patches,    \* the changes the settings page asks for: sets of <<key, value>>
  MaxFails    \* bound on the writes that fail

VARIABLES
  disk,       \* the file
  mem,        \* g_root, Down while the daemon does not run
  pending,    \* the units a patch has still to convert to, or "none"
  fails       \* writes that failed

svars == <<disk, mem, pending, fails>>

NoFile == [is |-> "no file"]
Junk == [is |-> "junk"]
Down == [is |-> "down"]
RuleIds == {"grill-hot", "grill-over", "probe-target"}
Absent == [words |-> "absent", guard |-> FALSE]
Now == 30

-----------------------------------------------------------------------------
(* What a migration replaces besides limits and rules' words: <<schema, thing>> *)

\* the panel's timeout, a probe's renamed port, Bluetooth devices left behind
FirstMoves == {<<2, "backlight">>, <<3, "port">>, <<4, "stale">>}
\* the old predictive warning and the hopper's
AlertMoves == {<<5, "eta">>, <<6, "hopper">>}
\* the rule of arriving, the set points of a tuning run, the rule again, and the run again
TuneMoves == {<<9, "at temp">>, <<10, "points">>, <<11, "at temp">>, <<12, "points">>}
\* deadbands, and web push where a rule sends to a phone
RuleMoves == {<<13, "deadband">>, <<14, "sinks">>}
AmbientMove == {<<16, "ambient">>}
InstallMove == {<<19, "install">>}
OffHeatMove == {<<20, "off heat">>}
ColdStartMove == {<<23, "cold start">>}
GoneMoves == {<<26, "feed limit">>, <<27, "password">>, <<28, "mqtt gate">>}
SmokeMove == {<<30, "smoke min">>}

Moves == FirstMoves \cup AlertMoves \cup TuneMoves \cup RuleMoves \cup AmbientMove
           \cup InstallMove \cup OffHeatMove \cup ColdStartMove \cup GoneMoves \cup SmokeMove
Things == {m[2] : m \in Moves}

\* these are put in place or taken away whatever the user made of them
Forced == {"port", "stale", "hopper", "ambient", "install", "cold start", "feed limit", "mqtt gate", "smoke min"}

Default ==
  [is |-> "tree", ver |-> Now, units |-> "F", cycle |-> 25, max |-> 650, tmax |-> 550, tmin |-> 160,
   auger |-> 60, igniter |-> 300, drop |-> 20, selected |-> "pid",
   rules |-> [id \in RuleIds |-> IF id = "grill-over" THEN Absent ELSE [words |-> "now", guard |-> TRUE]],
   offered |-> RuleIds \ {"grill-over"},
   things |-> [x \in Things |-> "now"]]

Is(t) == t.is = "tree"

\* The type of a tree: its keys, the numbers and the units it is checked by, its rules
Limits == {"cycle", "max", "tmax", "tmin", "drop", "auger", "igniter"}
Keys == Limits \cup {"is", "ver", "units", "selected", "rules", "offered", "things"}
Rule == [words : {"absent", "old", "now", "mine"}, guard : BOOLEAN]
Tree(t) ==
  /\ t = [k \in Keys |-> t[k]]
  /\ t.is = "tree" /\ t.ver \in Int /\ t.units \in {"F", "C"}
  /\ \A k \in Limits : t[k] \in Int
  /\ t.rules \in [RuleIds -> Rule] /\ t.offered \subseteq RuleIds

MayBeMissing == {"ver", "tmax", "tmin", "drop", "igniter"}

-----------------------------------------------------------------------------
(* validate, in the order of its checks: what fails first is what is told *)

C(t) == t.units = "C"

CycleOk(t) == t.cycle >= 5
MaxOk(t) == t.max > (IF C(t) THEN 65 ELSE 150) /\ t.max <= (IF C(t) THEN 343 ELSE 650)
BandOk(t) == t.tmin < t.tmax /\ t.tmax < t.max
FloorOk(t) == t.tmin >= (IF C(t) THEN 38 ELSE 100)
DropOk(t) == t.drop >= (IF C(t) THEN 3 ELSE 5) /\ t.drop <= (IF C(t) THEN 28 ELSE 50)
AugerOk(t) == t.auger \in 5..120
IgniterOk(t) == t.igniter \in 60..300

\* the key the first failed check names
Complaint(t) ==
  CASE ~CycleOk(t) -> "cycle"
    [] CycleOk(t) /\ ~MaxOk(t) -> "max"
    [] CycleOk(t) /\ MaxOk(t) /\ ~BandOk(t) -> "tmax"
    [] CycleOk(t) /\ MaxOk(t) /\ BandOk(t) /\ ~FloorOk(t) -> "tmin"
    [] OTHER -> IF ~DropOk(t) THEN "drop"
                ELSE IF ~AugerOk(t) THEN "auger"
                ELSE IF ~IgniterOk(t) THEN "igniter" ELSE "none"

Valid(t) == Complaint(t) = "none"

-----------------------------------------------------------------------------
(* Boot: defaults, migrations, rules, repair *)

\* fill_defaults: what is missing comes from the shipped file, in Fahrenheit; arrays (the rules)
\* are one value, so an old file keeps its own
FillDefaults(t) ==
  [k \in DOMAIN t |-> IF k \in MayBeMissing /\ t[k] = 0 THEN Default[k] ELSE t[k]]

Reword(t, id) ==
  IF t.rules[id].words = "old" THEN [t EXCEPT !.rules[id].words = "now"] ELSE t

\* schemas 5-9: the stall rules wait twenty minutes, and take the words of that; probe rules need
\* a probe in use
GuardHot(t) ==
  IF t.rules["grill-hot"] # Absent /\ ~t.rules["grill-hot"].guard
  THEN [t EXCEPT !.rules["grill-hot"] = [words |-> "old", guard |-> TRUE]] ELSE t
GuardProbes(t) ==
  IF t.rules["probe-target"] # Absent THEN [t EXCEPT !.rules["probe-target"].guard = TRUE] ELSE t

\* schema 15: a retired controller becomes the adaptive one
Retire(t) == [t EXCEPT !.selected = IF @ = "retired" THEN "adaptive" ELSE @]

\* schema 17: the rules that said a thing twice are gone
DropTwice(t) == [t EXCEPT !.rules["grill-over"] = Absent]

\* schemas 18-22: new wording, where the shipped one still stands
NewWording(t) == Reword(Reword(t, "grill-hot"), "probe-target")

\* schemas 23-28: the igniter's cap comes down
CapIgniter(t) == [t EXCEPT !.igniter = IF @ > 300 THEN 300 ELSE @]

\* schema 29, migrate_smart_start: limits for the set point in the grill's units, and the overheat
\* limit that used to ship moves up
SmartStart(t) ==
  [t EXCEPT !.tmin = IF C(t) THEN 71 ELSE @, !.tmax = IF C(t) THEN 288 ELSE @,
            !.max = IF @ = (IF C(t) THEN 288 ELSE 550) THEN (IF C(t) THEN 343 ELSE 650) ELSE @]

\* the others: what is still as an old build shipped it, or is to go in any case
Move(t, v) ==
  [t EXCEPT !.things = [x \in Things |->
     IF (\E m \in Moves : m[2] = x /\ v < m[1]) /\ (@[x] = "old" \/ x \in Forced)
     THEN "now" ELSE @[x]]]

\* every migration looks at the version the file came with
Migrate(t) ==
  LET v == t.ver
      a == IF v < 7 THEN GuardHot(t) ELSE t        b == IF v < 8 THEN GuardProbes(a) ELSE a
      c == IF v < 15 THEN Retire(b) ELSE b         d == IF v < 17 THEN DropTwice(c) ELSE c
      e == IF v < 22 THEN NewWording(d) ELSE d     f == IF v < 25 THEN CapIgniter(e) ELSE e
      g == IF v < 29 THEN SmartStart(f) ELSE f
  IN [Move(g, v) EXCEPT !.ver = Now]

\* adopt_builtin_rules: each shipped rule is offered once
AdoptForgetting(t) ==   \* fault: what has been offered before is not looked at
  [t EXCEPT !.rules = [id \in RuleIds |-> IF @[id] = Absent THEN Default.rules[id] ELSE @[id]],
            !.offered = @ \cup Default.offered]
Adopt(t) ==
  [t EXCEPT !.rules = [id \in RuleIds |-> IF @[id] = Absent /\ id \notin t.offered
                                           THEN Default.rules[id] ELSE @[id]],
            !.offered = @ \cup Default.offered]

\* the safety group falls back to what ships, value by value: the one the complaint names
SafeDefault(t, k) ==
  IF ~C(t) THEN Default[k]
  ELSE CASE k = "max" -> 343 [] k = "tmax" -> 288 [] k = "tmin" -> 71 [] k = "drop" -> 11
         [] OTHER -> Default[k]

\* one pass
RepairOne(t) ==
  LET k == Complaint(t) IN IF k \in {"none", "cycle"} THEN t ELSE [t EXCEPT ![k] = SafeDefault(t, k)]

\* twelve
RepairThrice(t) == RepairOne(RepairOne(RepairOne(t)))
Repair(t) == RepairThrice(RepairThrice(RepairThrice(RepairThrice(t))))

\* What the passes can mend, under the overheat limit the first of them leaves: a band that is whole,
\* with room for the shipped minimum if that is needed, or one the shipped maximum makes whole. The
\* others stay as they are (README, Found).
Mendable(t) ==
  LET max == IF MaxOk(t) THEN t.max ELSE SafeDefault(t, "max") IN
  /\ CycleOk(t)
  /\ \/ t.tmin < t.tmax /\ t.tmax < max /\ (FloorOk(t) \/ SafeDefault(t, "tmin") < t.tmax)
     \/ t.tmin < SafeDefault(t, "tmax") /\ SafeDefault(t, "tmax") < max

Taken(f) == IF Is(f) THEN Adopt(Migrate(FillDefaults(f))) ELSE Default
Booted(f) == Repair(Taken(f))

\* save_locked, pf_write_file_atomic: the old file or the whole new one
Save(t) ==
  \/ disk' = t /\ UNCHANGED fails
  \/ fails < MaxFails /\ fails' = fails + 1 /\ UNCHANGED disk

\* pf_settings_init
Boot ==
  /\ mem = Down
  /\ mem' = Booted(disk)
  /\ Save(mem') /\ UNCHANGED pending

-----------------------------------------------------------------------------
(* While it runs *)

Put(t, changes) ==
  [k \in DOMAIN t |-> IF \E c \in changes : c[1] = k THEN (CHOOSE c \in changes : c[1] = k)[2] ELSE t[k]]

Accepted(changes) == Is(mem) /\ Valid(Put(mem, changes))

\* pf_settings_patch: merged into a copy, checked, put in its place, saved
Patch(changes) ==
  LET trial == Put(mem, changes) IN
  /\ Accepted(changes) /\ trial.units = mem.units
  /\ mem' = trial
  /\ Save(trial) /\ UNCHANGED pending

\* a patch that names other units is checked as it stands, installed under the old units, and
\* converted after the lock was let go
PatchUnits(changes) ==
  LET trial == Put(mem, changes) IN
  /\ Accepted(changes) /\ pending = "none" /\ trial.units # mem.units
  /\ mem' = [trial EXCEPT !.units = mem.units]
  /\ pending' = trial.units
  /\ UNCHANGED <<disk, fails>>

\* rounded to whole degrees
ToC(f) == ((f - 32) * 10 + 9) \div 18
ToF(c) == (18 * c + 325) \div 10
DiffToC(d) == (10 * d + 9) \div 18
DiffToF(d) == (18 * d + 5) \div 10

\* pf_settings_set_units
SetUnits ==
  LET u == pending
      conv(v) == IF u = "C" THEN ToC(v) ELSE ToF(v)
      diff(v) == IF u = "C" THEN DiffToC(v) ELSE DiffToF(v)
  IN /\ Is(mem) /\ pending # "none"
     /\ mem' = IF mem.units = u THEN mem
               ELSE [mem EXCEPT !.units = u, !.max = conv(@), !.tmax = conv(@), !.tmin = conv(@),
                                !.drop = diff(@)]
     /\ pending' = "none"
     /\ Save(mem')

\* the settings page sends the whole list of rules: one reworded, or one left out
EditRule(id, rule) ==
  /\ Is(mem) /\ mem.rules[id] # Absent
  /\ mem' = [mem EXCEPT !.rules[id] = rule]
  /\ Valid(mem') /\ Save(mem') /\ UNCHANGED pending

Stop == mem # Down /\ mem' = Down /\ pending' = "none" /\ UNCHANGED <<disk, fails>>

\* while it is down the file may be written by hand, come from an older build, or be lost
HandEdit(f) == mem = Down /\ disk' = f /\ UNCHANGED <<mem, pending, fails>>

\* pf_settings_validate_json lets a backup's file through only when it is valid as it stands, a
\* missing limit taken as what ships
Restore(f) ==
  /\ Valid([k \in DOMAIN f |-> IF k \in MayBeMissing /\ f[k] = 0 THEN SafeDefault(f, k) ELSE f[k]])
  /\ HandEdit(f)

Init == disk \in Files /\ mem = Down /\ pending = "none" /\ fails = 0

Next ==
  \/ Boot \/ SetUnits \/ Stop
  \/ \E p \in Patches : Patch(p) \/ PatchUnits(p)
  \/ \E id \in RuleIds \ {"grill-over"} : EditRule(id, Absent) \/ EditRule(id, [words |-> "mine", guard |-> TRUE])
  \/ \E f \in Files : HandEdit(f)
  \/ \E f \in Backups : Restore(f)

Spec == Init /\ [][Next]_svars

-----------------------------------------------------------------------------
(* What must hold *)

\* A file that fails validation does not get to run the grill with its protection outside the
\* limits, and neither a patch nor a change of units, rounded and done in two steps, takes it
\* there (settings.c:149, 972, 1118, 1189).
LimitsHold ==
  Is(mem) => MaxOk(mem) /\ BandOk(mem) /\ FloorOk(mem) /\ DropOk(mem) /\ AugerOk(mem) /\ IgniterOk(mem)

\* A rule the user deleted stays deleted (settings.c:111) and one they have reworded, with the
\* conditions it ships with now, is theirs (settings.c:795), whatever release starts on the file and
\* whether or not the boot before got its own save through.
StartKeepsTheirs ==
  mem = Down /\ Is(mem') /\ Is(disk) =>
    /\ \A id \in disk.offered : disk.rules[id] = Absent => mem'.rules[id] = Absent
    /\ \A id \in RuleIds \ {"grill-over"} :
         disk.rules[id].words = "mine" /\ disk.rules[id].guard => mem'.rules[id].words = "mine"
TheirsStays == [][StartKeepsTheirs]_svars

\* "changing globals.units converts every temperature setting" (docs/api.md:43): a tree that is
\* valid in its units can be given the other ones. Not so from the defaults (README, Found).
UnitsChange ==
  Is(mem) /\ Valid(mem) => \A u \in {"F", "C"} : Accepted({<<"units", u>>})
=============================================================================
