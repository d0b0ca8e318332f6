------------------------------- MODULE Restore ------------------------------
(***************************************************************************)
(* src/features/backup.c, second half: an archive fetched, checked, staged  *)
(* and marked by one process and put in place by the start of the next,     *)
(* which may die at any step. An archive stands for what it holds; the      *)
(* grill's own files are "own".                                            *)
(***************************************************************************)
EXTENDS Naturals

CONSTANTS
  Archives,    \* what can be fetched or uploaded
  Sound,       \* those whose manifest, settings and database pass pf_backup_stage
  MaxStarts    \* bound on the starts of the daemon

VARIABLES
  grillOn,     \* the grill is neither stopped, in Monitor nor in Error
  step,        \* where the process is: serving, or a step of its start
  order,       \* the restore under way: [at, name], name being g_restore_name
  stage,       \* backup/restore
  pending,     \* backup/restore.pending is there
  restored,    \* backup/restored is there
  live,        \* settings and database in place, and whose cook files are there
  starts

rvars == <<grillOn, step, order, stage, pending, restored, live, starts>>

Nothing == "nothing"
NoOrder == [at |-> "none", name |-> Nothing]

Init ==
  /\ grillOn \in BOOLEAN /\ step = "serving" /\ order = NoOrder
  /\ stage = Nothing /\ pending = FALSE /\ restored = FALSE
  /\ live = [settings |-> "own", db |-> "own", cooks |-> {"own"}]
  /\ starts = 1

\* grill_idle
GrillIdle == ~grillOn

\* pf_backup_restore_named: the name is written down first; a worker that is busy refuses the
\* request and keeps the name
RestoreNamed(a) ==
  /\ step = "serving" /\ GrillIdle /\ order.at \in {"none", "fetch"}
  /\ order' = IF order.at = "none" THEN [at |-> "fetch", name |-> a]
                                   ELSE [order EXCEPT !.name = a]
  /\ UNCHANGED <<grillOn, step, stage, pending, restored, live, starts>>

\* restore_thread: some location has it, or none
Fetch ==
  /\ step = "serving" /\ order.at = "fetch"
  /\ order' \in {NoOrder, [order EXCEPT !.at = "stage"]}
  /\ UNCHANGED <<grillOn, step, stage, pending, restored, live, starts>>

\* pf_backup_restore_bytes: an upload goes straight to staging
RestoreBytes(a) ==
  /\ step = "serving" /\ GrillIdle /\ order.at = "none"
  /\ order' = [at |-> "stage", name |-> a]
  /\ UNCHANGED <<grillOn, step, stage, pending, restored, live, starts>>

\* pf_backup_stage: unpacked and checked, or nothing is left of it
Stage ==
  /\ step = "serving" /\ order.at = "stage"
  /\ \/ /\ order.name \in Sound
        /\ stage' = order.name /\ order' = [order EXCEPT !.at = "mark"]
     \/ stage' = Nothing /\ order' = NoOrder
  /\ UNCHANGED <<grillOn, step, pending, restored, live, starts>>

\* stage_and_restart: the mark, then SIGTERM half a second later, and the worker is busy until
\* then. The moment from there to pf_web_stop, in which one more restore could be asked for, and
\* the simulator, which stays, are left out.
Mark ==
  /\ step = "serving" /\ order.at = "mark"
  /\ \/ pending' = TRUE /\ step' = "leaving" /\ UNCHANGED <<stage, order>>
     \/ stage' = Nothing /\ order' = NoOrder /\ UNCHANGED <<pending, step>>
  /\ UNCHANGED <<grillOn, restored, live, starts>>

\* the process ends, asked to or not, and systemd starts the next
Die ==
  /\ starts < MaxStarts
  /\ step' = "boot" /\ order' = NoOrder /\ starts' = starts + 1
  /\ UNCHANGED <<grillOn, stage, pending, restored, live>>

\* a cook begins or ends, at any time of a restore
Cook ==
  /\ step \in {"serving", "leaving"} /\ grillOn' = ~grillOn
  /\ UNCHANGED <<step, order, stage, pending, restored, live, starts>>

-----------------------------------------------------------------------------
(* pf_backup_apply_staged, one action per file it touches *)

\* the mark is read and taken away: one attempt, whatever happens
TakeMark ==
  /\ step = "boot" /\ pending /\ step' = "check"
  /\ pending' = FALSE
  /\ UNCHANGED <<grillOn, order, stage, restored, live, starts>>

NoMark ==
  /\ step = "boot" /\ ~pending /\ step' = "init"
  /\ UNCHANGED <<grillOn, order, stage, pending, restored, live, starts>>

\* the manifest is there and the settings are checked once more
Check ==
  /\ step = "check"
  /\ step' = IF stage # Nothing THEN "settings" ELSE "init"
  /\ UNCHANGED <<grillOn, order, stage, pending, restored, live, starts>>

\* copy_staged: a copy that fails leaves the target as it was, and ends the restore
Copy(at, then, file) ==
  /\ step = at
  /\ \/ live' = [live EXCEPT ![file] = stage] /\ step' = then
     \/ UNCHANGED live /\ step' = "init"
  /\ UNCHANGED <<grillOn, order, stage, pending, restored, starts>>

CopySettings == Copy("settings", "wal", "settings")

\* the journal belongs to the old database
DropJournal ==
  /\ step = "wal" /\ step' = "db"
  /\ live' = [live EXCEPT !.db = IF @ = "own" THEN "unjournalled" ELSE @]
  /\ UNCHANGED <<grillOn, order, stage, pending, restored, starts>>

CopyDbForgiving ==   \* fault: a database that could not be written does not end the restore
  /\ step = "db" /\ step' = "cooks"
  /\ live' \in {live, [live EXCEPT !.db = stage]}
  /\ UNCHANGED <<grillOn, order, stage, pending, restored, starts>>
CopyDb == Copy("db", "cooks", "db")

\* the cook files there are go first
DropCooks ==
  /\ step = "cooks" /\ step' = "cookfiles"
  /\ live' = [live EXCEPT !.cooks = {}]
  /\ UNCHANGED <<grillOn, order, stage, pending, restored, starts>>

\* those of the backup; what cannot be copied is passed over, and a folder that is none
CopyCooks ==
  /\ step = "cookfiles" /\ step' = "done"
  /\ \E copied \in SUBSET {stage} : live' = [live EXCEPT !.cooks = copied]
  /\ UNCHANGED <<grillOn, order, stage, pending, restored, starts>>

\* the stage goes, and the next to open the database is told
Announce ==
  /\ step = "done" /\ step' = "init"
  /\ stage' = Nothing /\ restored' = TRUE
  /\ UNCHANGED <<grillOn, order, pending, live, starts>>

\* pf_backup_init: the announcement is made and what is left in the work directory is swept
Start ==
  /\ step = "init" /\ step' = "serving" /\ restored' = FALSE
  /\ UNCHANGED <<grillOn, order, stage, pending, live, starts>>

Next ==
  \/ Fetch \/ Stage \/ Mark \/ Die \/ Cook
  \/ TakeMark \/ NoMark \/ Check \/ CopySettings \/ DropJournal \/ CopyDb
  \/ DropCooks \/ CopyCooks \/ Announce \/ Start
  \/ \E a \in Archives : RestoreNamed(a) \/ RestoreBytes(a)

Spec == Init /\ [][Next]_rvars

-----------------------------------------------------------------------------
(* A restore that is announced is one backup's settings and database together, with no cook of     *)
(* anybody else's, wherever the processes that tried died (pf_backup_apply_staged). That its cooks  *)
(* are there is announced too and not so: one that cannot be copied is passed over (README, Found). *)
RestoredIsWhole ==
  restored => live.settings \in Sound /\ live.db = live.settings /\ live.cooks \subseteq {live.settings}

=============================================================================
