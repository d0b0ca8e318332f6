------------------------------- MODULE Files --------------------------------
(***************************************************************************)
(* What the daemon keeps on disk: Backup, Update, Restore, SignIn and      *)
(* Settings; with them the panel at the grill (Panel) and the auger        *)
(* (AugerFeed). These components share nothing here, so a behaviour is one *)
(* of one component, chosen in SumInit: the states are the sum of theirs   *)
(* and not the product. AugerFeed is extended, and rests in its first      *)
(* state in the other behaviours.                                          *)
(***************************************************************************)
EXTENDS AugerFeed, FiniteSets, Sequences

CONSTANTS
  Lists, Grills, Keep, Day, MaxHour,            \* Backup
  Branches, Nights, MaxVersion, MaxDay,         \* Update
  Archives, Sound, MaxStarts,                   \* Restore
  Clouds,                                       \* SignIn
  Found, Backups, Patches, MaxFails,            \* Settings; Found is its Files
  Statuses, NavMax, Kinds, MenuTime, DarkTime   \* Panel

\* the four kinds of location (loc_put), and the name of a grill by its place in the order of names
ASSUME BackupAssumption ==
  /\ \A l \in Lists : l \subseteq {"folder", "smb", "onedrive", "gdrive"}
  /\ Grills \subseteq Nat /\ Keep \in Nat

VARIABLES
  which,    \* the component the behaviour is one of
  where, ready, drive, copies, worker, last, hour,
  branch, published, running, offer, packages, job, mark, grill, tried, day,
  grillOn, step, order, stage, restore_pending, restored, live, starts,
  token, signin_pending, polls, codes,
  disk, mem, settings_pending, fails,
  nav, ring, bt, lit, splash, flash, status, idle, click, estop, sent, turned

backupVars == <<where, ready, drive, copies, worker, last, hour>>
updateVars == <<branch, published, running, offer, packages, job, mark, grill, tried, day>>
restoreVars == <<grillOn, step, order, stage, restore_pending, restored, live, starts>>
signinVars == <<token, signin_pending, polls, codes>>
settingsVars == <<disk, mem, settings_pending, fails>>
panelVars == <<nav, ring, bt, lit, splash, flash, status, idle, click, estop, sent, turned>>

Backing == INSTANCE Backup
Updating == INSTANCE Update
Restoring == INSTANCE Restore WITH pending <- restore_pending
SigningIn == INSTANCE SignIn WITH pending <- signin_pending
Setting == INSTANCE Settings WITH Files <- Found, pending <- settings_pending
Paneling == INSTANCE Panel

\* a file is a tree, or is none, or cannot be read; a patch gives numbers to limits, or units
ASSUME SettingsAssumption ==
  /\ \A f \in Found : f \in {Setting!NoFile, Setting!Junk} \/ Setting!Tree(f)
  /\ \A f \in Backups : Setting!Tree(f)
  /\ \A p \in Patches : \A c \in p :
       c \in (Setting!Limits \X Int) \cup ({"units"} \X {"F", "C"})

\* the stack of screens holds one (PF_NAV_MAX)
ASSUME PanelAssumption == NavMax \in Nat \ {0}

-----------------------------------------------------------------------------
(* The variables of the components the behaviour is not one of.                             *)
Unused == "absent"

NoBackup == where = Unused /\ ready = Unused /\ drive = Unused /\ copies = Unused
  /\ worker = Unused /\ last = Unused /\ hour = Unused
NoUpdate == branch = Unused /\ published = Unused /\ running = Unused /\ offer = Unused
  /\ packages = Unused /\ job = Unused /\ mark = Unused /\ grill = Unused /\ tried = Unused
  /\ day = Unused
NoRestore == grillOn = Unused /\ step = Unused /\ order = Unused /\ stage = Unused
  /\ restore_pending = Unused /\ restored = Unused /\ live = Unused /\ starts = Unused
NoSignIn == token = Unused /\ signin_pending = Unused /\ polls = Unused /\ codes = Unused
NoSettings == disk = Unused /\ mem = Unused /\ settings_pending = Unused /\ fails = Unused
NoPanel == nav = Unused /\ ring = Unused /\ bt = Unused /\ lit = Unused /\ splash = Unused
  /\ flash = Unused /\ status = Unused /\ idle = Unused /\ click = Unused /\ estop = Unused
  /\ sent = Unused /\ turned = Unused

Only(w) ==
  /\ w # "backup" => NoBackup
  /\ w # "update" => NoUpdate
  /\ w # "restore" => NoRestore
  /\ w # "signin" => NoSignIn
  /\ w # "settings" => NoSettings
  /\ w # "panel" => NoPanel
  /\ Init

SumInit ==
  \/ which = "backup" /\ Backing!Init /\ Only("backup")
  \/ which = "update" /\ Updating!Init /\ Only("update")
  \/ which = "restore" /\ Restoring!Init /\ Only("restore")
  \/ which = "signin" /\ SigningIn!Init /\ Only("signin")
  \/ which = "settings" /\ Setting!Init /\ Only("settings")
  \/ which = "panel" /\ Paneling!Init /\ Only("panel")
  \/ which = "auger" /\ Only("auger")

Others(w) ==
  /\ UNCHANGED which
  /\ w # "backup" => UNCHANGED backupVars
  /\ w # "update" => UNCHANGED updateVars
  /\ w # "restore" => UNCHANGED restoreVars
  /\ w # "signin" => UNCHANGED signinVars
  /\ w # "settings" => UNCHANGED settingsVars
  /\ w # "panel" => UNCHANGED panelVars
  /\ w # "auger" => UNCHANGED vars

SumNext ==
  \/ which = "backup" /\ Backing!Next /\ Others("backup")
  \/ which = "update" /\ Updating!Next /\ Others("update")
  \/ which = "restore" /\ Restoring!Next /\ Others("restore")
  \/ which = "signin" /\ SigningIn!Next /\ Others("signin")
  \/ which = "settings" /\ Setting!Next /\ Others("settings")
  \/ which = "panel" /\ Paneling!Next /\ Others("panel")
  \/ which = "auger" /\ Next /\ Others("auger")

sumVars == <<which, backupVars, updateVars, restoreVars, signinVars, settingsVars, panelVars, vars>>

SumSpec == SumInit /\ [][SumNext]_sumVars

\* The polls of SignIn are looked at again and again (device_poll_thread),
\* the display is told of the grill (pf_display_tick), and the control thread goes on
\* ticking (Fairness of AugerFeed)
FairSumSpec ==
  /\ SumSpec
  /\ \A l \in Clouds :
       WF_sumVars(/\ which = "signin" /\ (SigningIn!PollGone(l) \/ SigningIn!PollOver(l))
                  /\ Others("signin"))
  /\ WF_sumVars(which = "panel" /\ Paneling!Tick /\ Others("panel"))
  /\ WF_sumVars(which = "auger" /\ EndOfCommands /\ Others("auger"))
  /\ WF_sumVars(which = "auger" /\ Lid /\ Others("auger"))
  /\ WF_sumVars(which = "auger" /\ Feed /\ Others("auger"))
  /\ WF_sumVars(which = "auger" /\ Timed /\ Others("auger"))
  /\ WF_sumVars(which = "auger" /\ Wait /\ Others("auger"))

-----------------------------------------------------------------------------
(* What must hold: the properties of the components, each stated and explained in its module. *)
(* The auger's are CapHolds and KeepsFeeding, of AugerFeed.                                   *)

\* Backup: a backup filed as good is at every location it was sent to (backup_thread, prune).
GoodBackupIsThere == which = "backup" => Backing!GoodBackupIsThere

\* Update: what is put on the grill is what was asked for or offered (install_pifire).
AppliedIsAsked == which = "update" => Updating!AppliedIsAsked

\* Restore: an announced restore is one backup's files together (pf_backup_apply_staged).
RestoredIsWhole == which = "restore" => Restoring!RestoredIsWhole

\* SignIn: a code that shows goes away (device_poll_thread).
CodeGoesAway == SigningIn!CodeGoesAway

\* Settings: no tree that runs the grill is outside the limits (validate).
SettingsAreSafe == which = "settings" => Setting!LimitsHold

\* Settings: a start keeps what the user deleted or reworded (adopt_builtin_rules, pf_settings_init).
RulesStayTheirs == [][which = "settings" => Setting!StartKeepsTheirs]_sumVars

\* Panel: a dialog's question is not answered yes by presses alone (open_confirm, confirm_yes).
StrayPressIsHarmless == [][which = "panel" => Paneling!StrayPress]_sumVars

\* Panel: left alone, it comes back to the grill's screen (status, redraw).
IdleComesHome == []<>(which = "panel" => Paneling!HomeOrInUse)

=============================================================================
