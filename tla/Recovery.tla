------------------------------ MODULE Recovery ------------------------------
(***************************************************************************)
(* What one life of the daemon leaves to the next: the marker, the resume  *)
(* snapshot, the restart reason and the checkpoint on disk, main's boot    *)
(* and exit around them (core/main.c), and the recovery, the resume and    *)
(* the boot check (core/control.c).                                        *)
(*                                                                         *)
(* The process may be killed, and the power may go, between any two steps. *)
(* A power cut may bring back files that were unlinked since the last      *)
(* sync.  The mode machine of GrillControl is reduced to what the snapshot *)
(* carries: a tick is some changes of it, then checkpoint().  What clocks, *)
(* sensors, settings and the tuner say at boot is a choice.                *)
(***************************************************************************)
EXTENDS Integers

CONSTANTS
  Retries,       \* safety.reigniteretries
  PowerRecovery, \* safety.power_loss_recovery
  Stale,         \* ticks that fit between two checkpoints and change something
  Updates,       \* the bound on the warm restarts of one cook
  DurableUnlink  \* an unlink is on disk before the power can go

ASSUME RecoveryAssumption ==
  /\ {Retries, Stale, Updates} \subseteq Nat
  /\ {PowerRecovery, DurableUnlink} \subseteq BOOLEAN

Lights  == {"Startup", "Reignite"}
Burns   == {"Smoke", "Hold"}
Cooking == Lights \cup Burns
Resumable == Cooking \cup {"Shutdown", "Monitor"}
Mode    == Resumable \cup {"Stop", "Manual", "Error"} \* Manual is Prime too
Leads   == Burns \cup {"Stop"}

None == [mode |-> "Stop"]     \* no snapshot

\* What resume_json writes, of what decides anything here; reignite_last it
\* does not write.
Snapshot ==
  [mode : Resumable, next : Leads, unproven : BOOLEAN, retries : 0 .. Retries,
   recoveries : Nat, recipe : BOOLEAN]

File == {"marker", "resume", "reason", "checkpoint"}

VARIABLES
  pc,       \* where main is; while it runs, where the control thread's tick is
  disk,     \* the files, and
  durable,  \*   what a power cut may bring back of them
  unclean, resume, reason, snap,  \* main's locals during boot
  hot,      \* the pit is above safety.restart_hot_temp at boot
  mode,
  next,     \* next_mode: where Startup leads
  last,     \* safety.reignite_last, kept while it is read: in Reignite
  unproven, \* ss_active && !ss_proven, kept while it is read: in the lights
  retries,  \* safety.reignite_retries_left
  recoveries,
  recipe,   \* recipe.active
  on_disk,  \* checkpoint_on_disk
  unsaved,  \* ticks since the last checkpoint
  relights, \* history: flame-outs relit in this cook,
  relit,    \*   recoveries that lit it,
  handed,   \*   warm restarts that carried it on;
  lit,      \*   one of its lights was proven, and it is not over;
  was       \*   the cook as a clean exit left it

files   == <<disk, durable>>
boot    == <<unclean, resume, reason, snap, hot>>
light   == <<next, last, unproven>>
counts  == <<retries, recoveries>>
saving  == <<on_disk, unsaved>>
cook    == <<relights, relit, handed>>
history == <<cook, lit, was>>
vars == <<pc, files, boot, mode, light, counts, recipe, saving, history>>

Now == [mode |-> mode, next |-> next, unproven |-> unproven,
        retries |-> retries, recoveries |-> recoveries, recipe |-> recipe]

\* The cook a warm restart carries on: all of it but the count of recoveries.
Cook == [Now EXCEPT !.recoveries = 0]

-----------------------------------------------------------------------------
(* The disk.  pf_write_file_atomic syncs file and directory, and with it   *)
(* whatever was unlinked before; unlink alone syncs nothing.               *)

WriteFile(f, v) ==
  /\ disk' = [disk EXCEPT ![f] = v]
  /\ durable' = disk'

Unlink(f, nothing) ==
  /\ disk' = [disk EXCEPT ![f] = nothing]
  /\ durable' = IF DurableUnlink THEN disk' ELSE durable

-----------------------------------------------------------------------------
(* A tick's changes.                                                       *)

\* Any number of commands, and one decision of the grill's own; the shutdown
\* switch is read after that.
Asked   == pc \in {"run", "asked"} /\ pc' = "asked"
Decided == pc \in {"run", "asked"} /\ pc' = "save"
Put     == pc \in {"run", "asked", "save"} /\ pc' = IF pc = "save" THEN pc ELSE "asked"

\* enter_mode, of a grill that runs.
Enter(m, l) ==
  /\ mode' = m
  /\ last' = l
  /\ unproven' = (m \in Lights)
  /\ recoveries' = IF m = "Stop" THEN 0 ELSE recoveries
  /\ UNCHANGED <<files, boot, recipe, saving, lit, was>>

\* A light by request, from any mode but Error: a new cook, its retries full
\* (pf_safety_reset).
AskLight ==
  /\ Asked
  /\ mode # "Error"
  /\ Enter("Startup", "Stop")
  /\ next' \in Burns
  /\ retries' = Retries
  /\ relights' = 0 /\ relit' = 0 /\ handed' = 0

\* Hold or Smoke asked for: during a light it is where the light leads.
AskBurn ==
  /\ Asked
  /\ mode \in Cooking
  /\ \E m \in Burns :
       IF mode \in Lights
         THEN /\ next' = IF mode = "Startup" THEN m ELSE next
              /\ last' = IF mode = "Reignite" THEN m ELSE last
              /\ UNCHANGED <<files, boot, mode, unproven, counts, recipe, saving,
                             history>>
         ELSE Enter(m, "Stop") /\ UNCHANGED <<next, retries, cook>>

AskStop ==
  /\ Put
  /\ mode # "Stop"
  /\ Enter("Stop", "Stop")
  /\ next' = "Stop"
  /\ UNCHANGED <<retries, cook>>

AskOther ==
  /\ Put
  /\ mode # "Error"
  /\ \E m \in {"Shutdown", "Monitor"}
            \cup IF mode \in {"Stop", "Monitor"} THEN {"Manual"} ELSE {} :
       Enter(m, "Stop")
  /\ UNCHANGED <<next, retries, cook>>

Prove ==
  /\ Decided
  /\ unproven
  /\ unproven' = FALSE
  /\ lit' = TRUE
  /\ UNCHANGED <<files, boot, mode, next, last, counts, recipe, saving, cook, was>>

StartupDone ==
  /\ Decided
  /\ mode \in Lights /\ ~unproven
  /\ LET to == IF mode = "Reignite" THEN last ELSE next
     IN  Enter(IF to \in Burns THEN to ELSE "Smoke", "Stop")
  /\ UNCHANGED <<next, retries, cook>>

FlameOut ==
  /\ Decided
  /\ mode \in Burns
  /\ retries > 0
  /\ Enter("Reignite", mode)
  /\ retries' = retries - 1
  /\ relights' = relights + 1
  /\ UNCHANGED <<next, relit, handed>>

Fail ==
  /\ Decided
  /\ mode \notin {"Stop", "Error"}
  /\ Enter("Error", "Stop")
  /\ UNCHANGED <<next, retries, cook>>

\* Recipes begin and end; GrillControl says when.
RecipeOnOff ==
  /\ Asked
  /\ recipe' = ~recipe
  /\ UNCHANGED <<files, boot, mode, light, counts, saving, history>>

\* A tick that changes nothing matters while there is something to save.
IdleTick ==
  /\ pc = "run"
  /\ unsaved > 0
  /\ pc' = "save"
  /\ UNCHANGED <<files, boot, mode, light, counts, recipe, saving, history>>

\* fault: the file of a cook that ended in error, or is being put out, stays.
CheckpointStays ==
  /\ pc \in {"asked", "save"}
  /\ mode \notin Cooking
  /\ pc' = "run"
  /\ IF on_disk /\ mode = "Stop" THEN Unlink("checkpoint", None)
                                 ELSE UNCHANGED files
  /\ on_disk' = (on_disk /\ mode # "Stop")
  /\ unsaved' = 0
  /\ lit' = FALSE
  /\ UNCHANGED <<boot, mode, light, counts, recipe, cook, was>>

\* checkpoint(), no cook on: the file goes.
CheckpointGoes ==
  /\ pc \in {"asked", "save"}
  /\ mode \notin Cooking
  /\ pc' = "run"
  /\ IF on_disk THEN Unlink("checkpoint", None) ELSE UNCHANGED files
  /\ on_disk' = FALSE
  /\ unsaved' = 0
  /\ lit' = FALSE
  /\ UNCHANGED <<boot, mode, light, counts, recipe, cook, was>>

\* checkpoint(), a cook on: written when the ten seconds are over.
CheckpointWritten ==
  /\ pc \in {"asked", "save"}
  /\ mode \in Cooking
  /\ pc' = "run"
  /\ WriteFile("checkpoint", Now)
  /\ on_disk' = TRUE
  /\ unsaved' = 0
  /\ UNCHANGED <<boot, mode, light, counts, recipe, history>>

CheckpointNotDue ==
  /\ pc \in {"asked", "save"}
  /\ mode \in Cooking
  /\ unsaved < Stale
  /\ pc' = "run"
  /\ unsaved' = unsaved + 1
  /\ UNCHANGED <<files, boot, mode, light, counts, recipe, on_disk, history>>

\* netmgr, in its own thread: a stopped grill is restarted for its Wi-Fi.  The
\* restart itself takes seconds, and a cook may begin before it comes.
WriteReason ==
  /\ pc \in {"run", "asked", "save"}
  /\ mode = "Stop"
  /\ WriteFile("reason", TRUE)
  /\ UNCHANGED <<pc, boot, mode, light, counts, recipe, saving, history>>

-----------------------------------------------------------------------------
(* The exit, and the ways to go without one.                               *)

\* SIGTERM, or the automatic power off: the control thread is joined.
StopThreads ==
  /\ pc = "run"
  /\ pc' = "exit"
  /\ was' = Cook
  /\ UNCHANGED <<files, boot, mode, light, counts, recipe, saving, cook, lit>>

\* With update.hot_update, and not for a power off.
WriteResume ==
  /\ pc = "exit"
  /\ mode \in Resumable
  /\ handed < Updates
  /\ pc' = "unmark"
  /\ WriteFile("resume", Now)
  /\ UNCHANGED <<boot, mode, light, counts, recipe, saving, history>>

WriteNoResume ==
  /\ pc = "exit"
  /\ pc' = "unmark"
  /\ UNCHANGED <<files, boot, mode, light, counts, recipe, saving, history>>

UnlinkMarker ==
  /\ pc = "unmark"
  /\ pc' = "down"
  /\ Unlink("marker", FALSE)
  /\ UNCHANGED <<boot, mode, light, counts, recipe, saving, history>>

\* A crash, a kill, the shutdown deadline.
Die ==
  /\ pc # "down"
  /\ pc' = "down"
  /\ UNCHANGED <<files, boot, mode, light, counts, recipe, saving, history>>

PowerCut ==
  /\ pc' = "down"
  /\ \E back \in SUBSET File :
       disk' = [f \in File |-> IF f \in back THEN durable[f] ELSE disk[f]]
  /\ durable' = disk'
  /\ UNCHANGED <<boot, mode, light, counts, recipe, saving, history>>

-----------------------------------------------------------------------------
(* The boot.                                                               *)

\* The marker is looked at and set; pf_control_init.
Start ==
  /\ pc = "down"
  /\ pc' = "resume"
  /\ unclean' = disk["marker"]
  /\ WriteFile("marker", TRUE)
  /\ hot' \in BOOLEAN
  /\ mode' = "Stop" /\ next' = "Stop" /\ last' = "Stop" /\ unproven' = FALSE
  /\ retries' = Retries /\ recoveries' = 0 /\ recipe' = FALSE
  /\ on_disk' = FALSE /\ unsaved' = Stale      \* checkpoint_t is 0
  /\ resume' = None /\ reason' = FALSE /\ snap' = None
  /\ UNCHANGED history

ReadResume ==
  /\ pc = "resume"
  /\ pc' = "reason"
  /\ resume' = IF unclean THEN None ELSE disk["resume"]
  /\ Unlink("resume", None)
  /\ UNCHANGED <<unclean, reason, snap, hot, mode, light, counts, recipe, saving,
                 history>>

ReadReason ==
  /\ pc = "reason"
  /\ pc' = "snap"
  /\ reason' = disk["reason"]
  /\ Unlink("reason", FALSE)
  /\ UNCHANGED <<unclean, resume, snap, hot, mode, light, counts, recipe, saving,
                 history>>

ReadCheckpoint ==
  /\ pc = "snap"
  /\ pc' = "recover"
  /\ snap' = IF unclean \/ reason THEN disk["checkpoint"] ELSE None
  /\ Unlink("checkpoint", None)
  /\ UNCHANGED <<unclean, resume, reason, hot, mode, light, counts, recipe,
                 saving, history>>

\* pf_control_recover has something to judge: a checkpoint of a cook that is
\* not from the future, and the setting.
Judges == snap.mode \in Cooking /\ PowerRecovery

\* fault: every crash relights the cook.
RefusesUnproven(s) == s.mode = "Startup" /\ s.unproven

\* Rules 1 and 2: once a cook, and no light that was not proven.
Refuses(s) == s.recoveries >= 1 \/ (s.mode = "Startup" /\ s.unproven)

\* The cook is lit again: Startup from the start, the rest through Reignite.
RelightFrom(s) ==
  /\ mode' = IF s.mode = "Startup" THEN "Startup" ELSE "Reignite"
  /\ next' = IF s.mode = "Startup" THEN s.next ELSE next
  /\ last' = IF s.mode = "Startup" THEN "Stop"
             ELSE IF s.mode \in Burns THEN s.mode
             ELSE IF s.next = "Hold" THEN "Hold" ELSE "Smoke"
  /\ unproven' = TRUE
  /\ recoveries' = s.recoveries + 1

\* fault: the retries start again with the process.
RecoverFull ==
  /\ pc = "recover"
  /\ Judges /\ ~Refuses(snap)
  /\ pc' = "boot"
  /\ RelightFrom(snap)
  /\ retries' = Retries
  /\ relit' = relit + 1
  /\ UNCHANGED <<files, boot, recipe, saving, relights, handed, lit, was>>

\* Relit: nothing refused it and the outage was short.  A Startup begins with
\* its retries full (pf_safety_reset, after the snapshot's were put back).
Recover ==
  /\ pc = "recover"
  /\ Judges /\ ~Refuses(snap)
  /\ pc' = "boot"
  /\ RelightFrom(snap)
  /\ retries' = IF snap.mode = "Startup" THEN Retries ELSE snap.retries
  /\ relit' = relit + 1
  /\ UNCHANGED <<files, boot, recipe, saving, relights, handed, lit, was>>

\* E08: refused, out for too long, or for nobody knows how long.
RecoverRefused ==
  /\ pc = "recover"
  /\ Judges
  /\ pc' = "boot"
  /\ mode' = "Error"
  /\ UNCHANGED <<files, boot, light, counts, recipe, saving, history>>

\* A tuning run was interrupted: it is put out.
RecoverTuner ==
  /\ pc = "recover"
  /\ Judges /\ ~Refuses(snap)
  /\ pc' = "boot"
  /\ mode' = "Shutdown"
  /\ UNCHANGED <<files, boot, light, counts, recipe, saving, history>>

\* Nothing to recover, or a clock that went back: pf_control_boot_check, which
\* leaves the grill alone if a resume snapshot was read.
BootCheck ==
  /\ pc = "recover"
  /\ pc' = "boot"
  /\ mode' = IF resume = None /\ hot THEN "Shutdown" ELSE mode
  /\ UNCHANGED <<files, boot, light, counts, recipe, saving, history>>

Forget == unclean' = FALSE /\ resume' = None /\ reason' = FALSE /\ snap' = None

\* fault: a recipe does not outlive the restart.
ResumeBare ==
  /\ pc = "boot"
  /\ pc' = "save"
  /\ mode = "Stop"
  /\ resume.mode \in Resumable
  /\ mode' = resume.mode /\ next' = resume.next /\ last' = "Stop"
  /\ unproven' = resume.unproven
  /\ retries' = resume.retries
  /\ handed' = handed + 1
  /\ Forget /\ hot' = FALSE /\ was' = None
  /\ UNCHANGED <<files, recoveries, recipe, saving, relights, relit, lit>>

\* A snapshot of the last five minutes, the mode not chosen yet: the cook goes
\* on.  reignite_last and recoveries start anew.
Resume ==
  /\ pc = "boot"
  /\ pc' = "save"
  /\ mode = "Stop"
  /\ resume.mode \in Resumable
  /\ mode' = resume.mode /\ next' = resume.next /\ last' = "Stop"
  /\ unproven' = resume.unproven
  /\ retries' = resume.retries
  /\ recipe' = resume.recipe
  /\ handed' = handed + 1
  /\ Forget /\ hot' = FALSE /\ was' = None
  /\ UNCHANGED <<files, recoveries, saving, relights, relit, lit>>

\* None read, or one refused: the threads start on the mode boot chose.
Begin ==
  /\ pc = "boot"
  /\ pc' = "save"
  /\ lit' = (lit /\ mode \in Cooking)
  /\ Forget /\ hot' = FALSE /\ was' = None
  /\ UNCHANGED <<files, mode, light, counts, recipe, saving, cook>>

-----------------------------------------------------------------------------
Init ==
  /\ pc = "down"
  /\ disk = [f \in File |-> IF f \in {"marker", "reason"} THEN FALSE ELSE None]
  /\ durable = disk
  /\ unclean = FALSE /\ resume = None /\ reason = FALSE /\ snap = None
  /\ hot = FALSE
  /\ mode = "Stop" /\ next = "Stop" /\ last = "Stop" /\ unproven = FALSE
  /\ retries = Retries /\ recoveries = 0 /\ recipe = FALSE
  /\ on_disk = FALSE /\ unsaved = Stale
  /\ relights = 0 /\ relit = 0 /\ handed = 0
  /\ lit = FALSE /\ was = None

Tick ==
  \/ AskLight \/ AskBurn \/ AskStop \/ AskOther \/ Prove \/ StartupDone
  \/ FlameOut \/ Fail \/ RecipeOnOff \/ IdleTick
  \/ CheckpointGoes \/ CheckpointWritten \/ CheckpointNotDue

Exit == StopThreads \/ WriteResume \/ WriteNoResume \/ UnlinkMarker

Boot ==
  \/ Start \/ ReadResume \/ ReadReason \/ ReadCheckpoint
  \/ Recover \/ RecoverRefused \/ RecoverTuner \/ BootCheck
  \/ Resume \/ Begin

Next == Tick \/ WriteReason \/ Exit \/ Die \/ PowerCut \/ Boot

Spec == Init /\ [][Next]_vars

-----------------------------------------------------------------------------
(* Properties.                                                             *)

MaybeSnapshot == Snapshot \cup {None}

FileTypes(d) ==
  /\ d = [f \in File |-> d[f]]
  /\ d["marker"] \in BOOLEAN /\ d["reason"] \in BOOLEAN
  /\ d["resume"] \in MaybeSnapshot /\ d["checkpoint"] \in MaybeSnapshot

TypeOK ==
  /\ pc \in {"run", "asked", "save", "exit", "unmark", "down", "resume", "reason",
             "snap", "recover", "boot"}
  /\ FileTypes(disk) /\ FileTypes(durable)
  /\ unclean \in BOOLEAN /\ reason \in BOOLEAN /\ hot \in BOOLEAN
  /\ resume \in MaybeSnapshot /\ snap \in MaybeSnapshot
  /\ mode \in Mode /\ next \in Leads /\ last \in Leads
  /\ unproven \in BOOLEAN /\ recipe \in BOOLEAN /\ on_disk \in BOOLEAN
  /\ retries \in 0 .. Retries /\ recoveries \in Nat
  /\ unsaved \in 0 .. Stale
  /\ relights \in Nat /\ relit \in Nat /\ handed \in Nat
  /\ lit \in BOOLEAN

\* A cook is lit again after a crash or a power cut at most once, and once more
\* for every warm restart that carried it on (control.c:3050 "Once per cook";
\* the resume starts the count anew).
OnceAnUpdate == relit <= 1 + handed

\* Boot lights no pot but one that was proven to burn in a cook that is still
\* on: not a light that was never confirmed, nor what was stopped, put out or
\* in error when the tick ended, however old the checkpoint is (control.c:3053
\* and 3008-3009).
OnlyItsFireIsRelit == [][relit' > relit => lit]_vars

\* A cook is relit for flame-outs no more often than its retries say, and one
\* more for each recovery, whose checkpoint may be older than the last relight (safety.c:154, control.c:3105).
RelightBudget ==
  mode \in Cooking => relights + retries <= Retries + relit

\* A warm restart changes nothing of the cook but the count of recoveries and
\* where a relight leads (control.c:2651-2656).
ResumeIsSeamless == [][handed' > handed => Cook' = was]_vars

\* "relights at most once per cook" (docs/safety.md:119).
OnceACook == relit <= 1

\* "Any other start with a hot pit - after a crash, or a clean restart whose
\* resume was refused or never written - runs the cool-down fan"
\* (control.c:2637-2640).  Not so (README, Found).
HotPitIsAttended ==
  [][pc = "boot" /\ pc' = "save" /\ hot => mode' # "Stop"]_vars
=============================================================================
