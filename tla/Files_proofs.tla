---------------------------- MODULE Files_proofs ----------------------------
(***************************************************************************)
(* Proofs about what the daemon keeps on disk, for every value of the       *)
(* constants. Each component has its invariant and a lemma for its first    *)
(* state and its steps; a behaviour of the sum is one of one component, so  *)
(* the invariant holds in the sum whenever that component is the one.      *)
(***************************************************************************)
EXTENDS Files, FiniteSetTheorems, TLAPS

(* No step of the sum changes which component the behaviour is one of. *)
LEMMA SameComponent == [SumNext]_sumVars => UNCHANGED which
  BY DEF SumNext, Others, sumVars

-----------------------------------------------------------------------------
(* Restore *)

RestoreSteps == {"serving", "leaving", "boot", "check", "settings", "wal", "db", "cooks",
          "cookfiles", "done", "init"}

RestoreTypeOK ==
  /\ grillOn \in BOOLEAN /\ step \in RestoreSteps
  /\ stage \in Sound \cup {Restoring!Nothing}
  /\ restore_pending \in BOOLEAN /\ restored \in BOOLEAN
  /\ DOMAIN live = {"settings", "db", "cooks"}

\* Past the check there is a stage, and it is a sound one
StagedOK == step \in {"settings", "wal", "db", "cooks", "cookfiles", "done"} => stage \in Sound

\* What each step leaves behind, until the process dies
CopiedOK ==
  /\ step \in {"wal", "db", "cooks", "cookfiles", "done"} => live.settings = stage
  /\ step \in {"cooks", "cookfiles", "done"} => live.db = stage
  /\ step = "done" => live.cooks \subseteq {stage}

\* The mark goes before anything is put in place, and the announcement only stands with it gone,
\* until the daemon serves again
AnnouncedOK ==
  /\ step \in RestoreSteps \ {"serving", "leaving", "boot"} => restore_pending = FALSE
  /\ restored = TRUE => step \in {"boot", "init"} /\ restore_pending = FALSE

RestoreInv == RestoreTypeOK /\ StagedOK /\ CopiedOK /\ AnnouncedOK /\ Restoring!RestoredIsWhole

LEMMA RestoreInit == Restoring!Init => RestoreInv
  BY DEF Restoring!Init, Restoring!NoOrder, RestoreInv, RestoreTypeOK, StagedOK, CopiedOK, AnnouncedOK, Restoring!RestoredIsWhole, RestoreSteps, Restoring!Nothing

LEMMA RestoreStep == RestoreInv /\ [Restoring!Next]_Restoring!rvars => RestoreInv'
<1> SUFFICES ASSUME RestoreInv, [Restoring!Next]_Restoring!rvars PROVE RestoreInv'
  OBVIOUS
<1> USE DEF RestoreInv, RestoreTypeOK, RestoreSteps
<1>1. CASE \E a \in Archives : Restoring!RestoreNamed(a) \/ Restoring!RestoreBytes(a)
  BY <1>1 DEF Restoring!RestoreNamed, Restoring!RestoreBytes, StagedOK, CopiedOK, AnnouncedOK, Restoring!RestoredIsWhole
<1>2. CASE Restoring!Fetch
  BY <1>2 DEF Restoring!Fetch, StagedOK, CopiedOK, AnnouncedOK, Restoring!RestoredIsWhole
<1>3. CASE Restoring!Stage
  BY <1>3 DEF Restoring!Stage, StagedOK, CopiedOK, AnnouncedOK, Restoring!RestoredIsWhole
<1>4. CASE Restoring!Mark
  BY <1>4 DEF Restoring!Mark, StagedOK, CopiedOK, AnnouncedOK, Restoring!RestoredIsWhole
<1>5. CASE Restoring!Die
  BY <1>5 DEF Restoring!Die, StagedOK, CopiedOK, AnnouncedOK, Restoring!RestoredIsWhole
<1>6. CASE Restoring!Cook
  BY <1>6 DEF Restoring!Cook, StagedOK, CopiedOK, AnnouncedOK, Restoring!RestoredIsWhole
<1>7. CASE Restoring!TakeMark
  BY <1>7 DEF Restoring!TakeMark, StagedOK, CopiedOK, AnnouncedOK, Restoring!RestoredIsWhole
<1>16. CASE Restoring!NoMark
  <2>1. restore_pending = FALSE
    BY <1>16 DEF Restoring!NoMark
  <2> QED
    BY <2>1, <1>16 DEF Restoring!NoMark, StagedOK, CopiedOK, AnnouncedOK, Restoring!RestoredIsWhole
<1>14. CASE Restoring!Check
  BY <1>14 DEF Restoring!Check, StagedOK, CopiedOK, AnnouncedOK, Restoring!RestoredIsWhole
<1>15. CASE Restoring!Start
  BY <1>15 DEF Restoring!Start, StagedOK, CopiedOK, AnnouncedOK, Restoring!RestoredIsWhole
<1>8. CASE Restoring!CopySettings
  BY <1>8 DEF Restoring!CopySettings, Restoring!Copy, StagedOK, CopiedOK, AnnouncedOK, Restoring!RestoredIsWhole
<1>9. CASE Restoring!DropJournal
  BY <1>9 DEF Restoring!DropJournal, StagedOK, CopiedOK, AnnouncedOK, Restoring!RestoredIsWhole
<1>10. CASE Restoring!CopyDb
  BY <1>10 DEF Restoring!CopyDb, Restoring!Copy, StagedOK, CopiedOK, AnnouncedOK, Restoring!RestoredIsWhole
<1>11. CASE Restoring!DropCooks \/ Restoring!CopyCooks
  BY <1>11 DEF Restoring!DropCooks, Restoring!CopyCooks, StagedOK, CopiedOK, AnnouncedOK, Restoring!RestoredIsWhole
<1>12. CASE Restoring!Announce
  BY <1>12 DEF Restoring!Announce, StagedOK, CopiedOK, AnnouncedOK, Restoring!RestoredIsWhole
<1>13. CASE UNCHANGED Restoring!rvars
  BY <1>13 DEF Restoring!rvars, StagedOK, CopiedOK, AnnouncedOK, Restoring!RestoredIsWhole
<1> QED
  BY <1>1, <1>2, <1>3, <1>4, <1>5, <1>6, <1>7, <1>8, <1>9, <1>10, <1>11, <1>12, <1>13, <1>14, <1>15, <1>16 DEF Restoring!Next

(* A step of the sum that is one of Restore is a step of Restore. *)
LEMMA RestorePart == which = "restore" /\ [SumNext]_sumVars => [Restoring!Next]_(Restoring!rvars)
  BY DEF SumNext, Others, sumVars, restoreVars, Restoring!rvars

(* However often the processes that tried died, and wherever: a restore that is announced is the   *)
(* settings and the database of one sound backup, with no cook of another (pf_backup_apply_staged). *)
THEOREM RestoreIsWhole == SumSpec => []RestoredIsWhole
<1> DEFINE Inv == which = "restore" => RestoreInv
<1>1. SumInit => Inv
  BY RestoreInit DEF SumInit
<1>2. Inv /\ [SumNext]_sumVars => Inv'
  BY RestoreStep, RestorePart, SameComponent
<1>3. Inv => RestoredIsWhole
  BY DEF RestoreInv, RestoredIsWhole
<1> QED
  BY <1>1, <1>2, <1>3, PTL DEF SumSpec

-----------------------------------------------------------------------------
(* Update *)

UpdateSteps == {"idle", "upgrade", "download", "verify", "apply", "restart"}

\* A release that was ever published, or none
Known == (Branches \X Nat) \cup {Updating!None}

Offers == [of : Branches \cup {"none"}, latest : Known, list : SUBSET Known, asset : Known]

UpdateJobs == [at : UpdateSteps, pifire : BOOLEAN, asked : Known, rel : Known]

UpdateTypeOK ==
  /\ branch \in Branches /\ published \in [Branches -> Nat]
  /\ offer \in Offers
  /\ job \in UpdateJobs

\* The offer a job was accepted with still stands until it is fetched: nothing looks for another
\* while the worker is busy
OfferStands ==
  /\ job.at \in {"download", "verify", "apply", "restart"} => job.pifire = TRUE
  /\ job.at \in {"upgrade", "download"} /\ job.pifire = TRUE => offer.asset = job.asked

FetchedOK == job.at \in {"verify", "apply", "restart"} => job.rel = job.asked

UpdateInv == UpdateTypeOK /\ OfferStands /\ FetchedOK

LEMMA KnownFacts ==
  /\ Updating!None \in Known
  /\ Updating!Releases \subseteq Known
  /\ Updating!NoOffer \in Offers
  /\ \A b \in Branches, n \in Nat : <<b, n>> \in Known
  BY DEF Known, Updating!Releases, Updating!NoOffer, Offers

LEMMA UpdateInit == Updating!Init => UpdateInv
  BY KnownFacts DEF Updating!Init, Updating!Idle, UpdateInv, UpdateTypeOK, UpdateSteps,
     UpdateJobs, OfferStands, FetchedOK

LEMMA BootInv == ASSUME UpdateInv, NEW version, Updating!Boot(version) PROVE UpdateInv'
  BY KnownFacts DEF Updating!Boot, Updating!Idle, UpdateInv, UpdateTypeOK, UpdateSteps,
     UpdateJobs, OfferStands, FetchedOK

\* Looking replaces the offer, and is for a worker that is idle only
LEMMA CheckInv == ASSUME UpdateInv, NEW system, Updating!Check(system) PROVE UpdateInv'
<1> USE DEF UpdateInv, UpdateTypeOK, UpdateSteps, OfferStands, FetchedOK
<1>1. job.at = "idle" /\ job' = job
  BY DEF Updating!Check, Updating!MayCheck, Updating!Busy
<1>2. offer' \in Offers
  <2>1. CASE UNCHANGED offer
    BY <2>1
  <2>2. CASE offer' = [offer EXCEPT !.of = branch, !.latest = Updating!None, !.list = {}]
    BY <2>2, KnownFacts DEF Offers
  <2> DEFINE newest == <<branch, published[branch]>>
  <2>3. ASSUME NEW built \in {Updating!None, newest},
               offer' = [of |-> branch, latest |-> newest, asset |-> built,
                         list |-> IF built = Updating!None THEN {} ELSE Updating!Entries]
        PROVE  offer' \in Offers
    <3>1. newest \in Known /\ built \in Known
      BY KnownFacts
    <3>2. Updating!Entries \subseteq Known
      BY DEF Updating!Entries, Known
    <3> QED
      BY <2>3, <3>1, <3>2 DEF Offers
  <2> QED
    BY <2>1, <2>2, <2>3 DEF Updating!Check, Updating!LookForPiFire
<1>3. branch' = branch /\ published' = published
  BY DEF Updating!Check
<1> QED
  BY <1>1, <1>2, <1>3

\* A job begins with what it was asked for as the offer
LEMMA BeginInv ==
  ASSUME UpdateInv, NEW pifire \in BOOLEAN, NEW system \in BOOLEAN, NEW r \in Known,
         Updating!Begin(pifire, system, r), pifire \/ system,
         pifire => offer'.asset = r,
         offer' \in Offers, UNCHANGED <<branch, published>>
  PROVE  UpdateInv'
  BY KnownFacts DEF Updating!Begin, UpdateInv, UpdateTypeOK, UpdateSteps, UpdateJobs, OfferStands, FetchedOK

LEMMA UpdateStep == UpdateInv /\ [Updating!Next]_(Updating!uvars) => UpdateInv'
<1> SUFFICES ASSUME UpdateInv, [Updating!Next]_(Updating!uvars) PROVE UpdateInv'
  OBVIOUS
<1> USE DEF UpdateInv, UpdateTypeOK, UpdateSteps
<1>1. CASE Updating!Look \/ Updating!ScheduledCheck
  <2>1. \E system : Updating!Check(system)
    BY <1>1 DEF Updating!Look, Updating!ScheduledCheck
  <2> QED
    BY <2>1, CheckInv
<1>2. ASSUME NEW r \in Updating!Releases, NEW system \in BOOLEAN, Updating!InstallChosen(r, system)
      PROVE  UpdateInv'
  <2>1. /\ Updating!Begin(TRUE, system, r) /\ offer'.asset = r
        /\ offer' \in Offers /\ UNCHANGED <<branch, published>>
    BY <1>2, KnownFacts DEF Updating!InstallChosen, Offers
  <2> QED
    BY <2>1, BeginInv, KnownFacts
<1>3. ASSUME NEW p \in BOOLEAN, NEW s \in BOOLEAN,
             Updating!InstallOffered(p, s) \/ Updating!ScheduledInstall(p, s)
      PROVE  UpdateInv'
  <2>1. UNCHANGED <<offer, branch, published>>
    BY <1>3 DEF Updating!InstallOffered, Updating!ScheduledInstall
  <2>2. \E pifire, system \in BOOLEAN :
           /\ pifire \/ system
           /\ Updating!Begin(pifire, system, IF pifire THEN offer.asset ELSE Updating!None)
    <3>1. CASE Updating!InstallOffered(p, s)
      BY <3>1 DEF Updating!InstallOffered, Updating!MayInstall
    <3>2. CASE Updating!ScheduledInstall(p, s)
      <4> DEFINE pifire == p /\ Updating!Available /\ offer.asset # Updating!None /\ tried.release # offer.latest
                 system == s /\ packages /\ tried.system # day
      <4>1. /\ Updating!MayInstall(pifire, system, FALSE)
            /\ Updating!Begin(pifire, system, IF pifire THEN offer.asset ELSE Updating!None)
        BY <3>2 DEF Updating!ScheduledInstall
      <4> QED
        BY <4>1 DEF Updating!MayInstall
    <3> QED
      BY <1>3, <3>1, <3>2
  <2>3. PICK pifire \in BOOLEAN, system \in BOOLEAN :
           /\ pifire \/ system
           /\ Updating!Begin(pifire, system, IF pifire THEN offer.asset ELSE Updating!None)
    BY <2>2
  <2>4. offer.asset \in Known
    BY DEF Offers
  <2> QED
    BY <2>1, <2>3, <2>4, BeginInv, KnownFacts
<1>4. CASE job' = Updating!Idle /\ UNCHANGED <<branch, published, offer>>
  BY <1>4, KnownFacts DEF Updating!Idle, UpdateJobs, OfferStands, FetchedOK
<1>5. CASE Updating!UpgradeSystem /\ job' # Updating!Idle
  <2>1. job.at = "upgrade" /\ job.pifire /\ job' = [job EXCEPT !.at = "download"]
    BY <1>5 DEF Updating!UpgradeSystem, Updating!Fail
  <2>2. UNCHANGED <<branch, published, offer>>
    BY <1>5 DEF Updating!UpgradeSystem
  <2>3. job'.at = "download" /\ job'.asked = job.asked /\ job'.pifire = job.pifire /\ job' \in UpdateJobs
    BY <2>1 DEF UpdateJobs
  <2>4. job.pifire = TRUE
    BY <2>1 DEF UpdateJobs
  <2> QED
    BY <2>1, <2>2, <2>3, <2>4 DEF OfferStands, FetchedOK
<1>6. CASE Updating!Download /\ job' # Updating!Idle
  <2>1. job.at = "download" /\ job' = [job EXCEPT !.at = "verify", !.rel = offer.asset]
    BY <1>6 DEF Updating!Download, Updating!Fail
  <2>2. UNCHANGED <<branch, published, offer>>
    BY <1>6 DEF Updating!Download
  <2>3. /\ job'.at = "verify" /\ job'.asked = job.asked /\ job'.pifire = job.pifire
        /\ job'.rel = offer.asset /\ job' \in UpdateJobs
    BY <2>1 DEF UpdateJobs, Offers
  <2> QED
    BY <2>1, <2>2, <2>3 DEF OfferStands, FetchedOK
<1>7. CASE (Updating!VerifyAndUnpack \/ Updating!Apply) /\ job' # Updating!Idle
  <2>1. /\ job.at \in {"verify", "apply"}
        /\ \E next \in {"apply", "restart"} : job' = [job EXCEPT !.at = next]
    BY <1>7 DEF Updating!VerifyAndUnpack, Updating!Apply, Updating!Fail
  <2>2. UNCHANGED <<branch, published, offer>>
    BY <1>7 DEF Updating!VerifyAndUnpack, Updating!Apply
  <2>3. /\ job'.at \in {"apply", "restart"} /\ job'.asked = job.asked /\ job'.pifire = job.pifire
        /\ job'.rel = job.rel /\ job' \in UpdateJobs
    BY <2>1 DEF UpdateJobs
  <2> QED
    BY <2>1, <2>2, <2>3 DEF OfferStands, FetchedOK
<1>8. CASE Updating!Restart \/ Updating!Die
  BY <1>8, BootInv DEF Updating!Restart, Updating!Die
<1>9. CASE Updating!Seen \/ Updating!SetBranch \/ Updating!Cook \/ Updating!NextDay
           \/ \E b \in Branches : Updating!Publish(b)
  BY <1>9 DEF Updating!Seen, Updating!SetBranch, Updating!Cook, Updating!NextDay, Updating!Publish,
     OfferStands, FetchedOK
<1>10. CASE UNCHANGED Updating!uvars
  BY <1>10 DEF Updating!uvars, OfferStands, FetchedOK
<1>11. Updating!UpgradeSystem \/ Updating!Download \/ Updating!VerifyAndUnpack \/ Updating!Apply
       => UNCHANGED <<branch, published, offer>>
  BY DEF Updating!UpgradeSystem, Updating!Download, Updating!VerifyAndUnpack, Updating!Apply
<1> QED
  BY <1>1, <1>2, <1>3, <1>4, <1>5, <1>6, <1>7, <1>8, <1>9, <1>10, <1>11 DEF Updating!Next

(* A step of the sum that is one of Update is a step of Update. *)
LEMMA UpdatePart == which = "update" /\ [SumNext]_sumVars => [Updating!Next]_(Updating!uvars)
  BY DEF SumNext, Others, sumVars, updateVars, Updating!uvars

(* For any branches and releases: however long an install waits behind the system's packages, and *)
(* whatever is set, published and looked at meanwhile, what is put on the grill is what was asked  *)
(* for or on offer when it was accepted (install_pifire reads the offer late).                     *)
THEOREM AppliedAsAsked == SumSpec => []AppliedIsAsked
<1> DEFINE Inv == which = "update" => UpdateInv
<1>1. SumInit => Inv
  BY UpdateInit DEF SumInit
<1>2. Inv /\ [SumNext]_sumVars => Inv'
  BY UpdateStep, UpdatePart, SameComponent
<1>3. Inv => AppliedIsAsked
  BY DEF UpdateInv, FetchedOK, AppliedIsAsked, Updating!AppliedIsAsked
<1> QED
  BY <1>1, <1>2, <1>3, PTL DEF SumSpec

-----------------------------------------------------------------------------
(* Backup *)

BackupSteps == {"idle", "make", "send", "prune"}
Places == SUBSET Backing!Locations
Archive == Nat \X Nat
BackupJobs == [at : BackupSteps, archive : Archive, to : Places, todo : Places, missed : Places]
Wheres == [list : Places, on : Places, grill : Nat, scheduled : BOOLEAN,
           old : Backing!Locations \cup {"off"}]
Lasts == [at : Nat, good : Nat, ok : BOOLEAN, archive : Archive, sentTo : Places]

BackupTypeOK ==
  /\ where \in Wheres /\ worker \in BackupJobs /\ last \in Lasts /\ hour \in Nat
  /\ copies \in [Backing!Locations -> SUBSET Archive]

\* No archive has a name that comes after the one the grill would write now
NewestIsNow == \A l \in Backing!Locations : \A a \in copies[l] : a[1] <= where.grill /\ a[2] <= hour

\* The name of a job's archive is of the hour and of the grill it runs in, and what was sent is there
JobOK ==
  /\ worker.at # "idle" => worker.archive = <<where.grill, hour>>
  /\ worker.at \in {"make", "send"} =>
       \A l \in worker.to : l \in worker.todo \cup worker.missed \/ worker.archive \in copies[l]
  /\ worker.at = "prune" => last.archive = worker.archive

\* Whatever the worker is at: a backup on record as good is where it was sent
RecordOK == last.ok => \A l \in last.sentTo : last.archive \in copies[l]

BackupInv == BackupTypeOK /\ NewestIsNow /\ JobOK /\ RecordOK

LEMMA BackupInit == Backing!Init => BackupInv
<1> SUFFICES ASSUME Backing!Init PROVE BackupInv
  OBVIOUS
<1>1. PICK l \in Lists, n \in Grills, s \in BOOLEAN :
         \E o \in IF l = {} THEN Backing!Locations ELSE {"off"} :
         where = Backing!MigrateSingle([list |-> l, on |-> l, grill |-> n, scheduled |-> s, old |-> o])
  BY DEF Backing!Init
<1>2. where \in Wheres
  <2> PICK o \in IF l = {} THEN Backing!Locations ELSE {"off"} :
         where = Backing!MigrateSingle([list |-> l, on |-> l, grill |-> n, scheduled |-> s, old |-> o])
    BY <1>1
  <2>1. l \in Places /\ n \in Nat /\ o \in Backing!Locations \cup {"off"}
    BY BackupAssumption DEF Places, Backing!Locations
  <2> DEFINE w == [list |-> l, on |-> l, grill |-> n, scheduled |-> s, old |-> o]
  <2>2. w \in Wheres
    BY <2>1 DEF Wheres
  <2>3. w.old # "off" => {w.old} \in Places
    BY <2>1 DEF Places
  <2> QED
    BY <2>2, <2>3 DEF Wheres, Backing!MigrateSingle, Backing!Single
<1>3. worker \in BackupJobs /\ last \in Lasts /\ hour \in Nat /\ copies \in [Backing!Locations -> SUBSET Archive]
  BY DEF Backing!Init, Backing!Idle, Backing!NoArchive, BackupJobs, Lasts, Archive, Places, BackupSteps
<1>4. NewestIsNow /\ JobOK /\ RecordOK
  BY DEF Backing!Init, Backing!Idle, NewestIsNow, JobOK, RecordOK
<1> QED
  BY <1>2, <1>3, <1>4 DEF BackupInv, BackupTypeOK

\* The instance names the operators of FiniteSets its own way
LEMMA SameCardinality == ASSUME NEW S PROVE Backing!Cardinality(S) = Cardinality(S)
  BY DEF Backing!Cardinality, Cardinality

\* The archive that has just been written is never one too many: nothing is later
LEMMA NewestIsKept ==
  ASSUME BackupInv, NEW l \in Backing!Locations
  PROVE  <<where.grill, hour>> \notin Backing!Surplus(l)
<1> DEFINE newest == <<where.grill, hour>>
<1>1. Backing!Listed(l) \subseteq copies[l]
  <2> SUFFICES l \in {"folder", "smb", "gdrive", "onedrive"}
    BY DEF Backing!Listed, Backing!FolderList, Backing!SmbList, Backing!GdriveList, Backing!OnedriveList
  <2> QED
    BY BackupAssumption DEF Backing!Locations
<1>2. where.grill \in Nat /\ hour \in Nat /\ copies[l] \subseteq Archive
  BY DEF BackupInv, BackupTypeOK, Wheres
<1>3. \A b \in copies[l] : ~Backing!Later(b, newest)
  BY <1>2 DEF BackupInv, NewestIsNow, Backing!Later, Archive
<1>4. {b \in Backing!Listed(l) : Backing!Later(b, newest)} = {}
  BY <1>1, <1>3
<1>5. Cardinality({b \in Backing!Listed(l) : Backing!Later(b, newest)}) = 0
  BY <1>4, FS_EmptySet
<1> HIDE DEF newest
<1> DEFINE count == Backing!Cardinality({b \in Backing!Listed(l) : Backing!Later(b, newest)})
<1>6. newest \in Backing!Surplus(l) => Keep > 0 /\ count >= Keep
  BY DEF Backing!Surplus
<1>7. count = 0
  BY <1>5, SameCardinality
<1> HIDE DEF count
<1>8. newest \notin Backing!Surplus(l)
  BY <1>6, <1>7, BackupAssumption
<1> QED
  BY <1>8 DEF newest

\* A step of Backup in which the grill is not given a name that sorts before the one it has
LEMMA BackupStep ==
  BackupInv /\ [Backing!Next]_(Backing!bvars) /\ where'.grill >= where.grill => BackupInv'
<1> SUFFICES ASSUME BackupInv, [Backing!Next]_(Backing!bvars), where'.grill >= where.grill
             PROVE  BackupInv'
  OBVIOUS
<1> USE DEF BackupInv, BackupTypeOK
<1>1. CASE Backing!Run \/ Backing!Tick
  <2>1. /\ worker' = [at |-> "make", archive |-> <<where.grill, hour>>, to |-> where.on,
                      todo |-> where.on, missed |-> {}]
        /\ UNCHANGED <<where, copies, last, hour>>
    BY <1>1 DEF Backing!Run, Backing!Tick, Backing!Begin, Backing!Name, Backing!Enabled
  <2>2. worker' \in BackupJobs
    BY <2>1 DEF Wheres, BackupJobs, BackupSteps, Archive, Places
  <2> QED
    BY <2>1, <2>2 DEF NewestIsNow, JobOK, RecordOK
<1>2. CASE Backing!Make
  <2>1. UNCHANGED <<where, copies, hour>> /\ worker.at = "make"
    BY <1>2 DEF Backing!Make
  <2>2. CASE worker' = [worker EXCEPT !.at = "send"] /\ UNCHANGED last
    <3>1. /\ worker' \in BackupJobs /\ worker'.at = "send" /\ worker'.archive = worker.archive
          /\ worker'.to = worker.to /\ worker'.todo = worker.todo /\ worker'.missed = worker.missed
      BY <2>2 DEF BackupJobs, BackupSteps
    <3> QED
      BY <2>1, <2>2, <3>1 DEF NewestIsNow, JobOK, RecordOK
  <2>3. CASE Backing!Record(FALSE, {}) /\ worker' = Backing!Idle
    <3>1. last' \in Lasts /\ last'.ok = FALSE
      BY <2>3 DEF Backing!Record, Lasts, BackupJobs, Places
    <3>2. worker' \in BackupJobs /\ worker'.at = "idle"
      BY <2>3 DEF Backing!Idle, Backing!NoArchive, BackupJobs, BackupSteps, Archive, Places
    <3> QED
      BY <2>1, <3>1, <3>2 DEF NewestIsNow, JobOK, RecordOK
  <2> QED
    BY <1>2, <2>2, <2>3 DEF Backing!Make
<1>3. ASSUME NEW l \in Backing!Locations, Backing!Send(l) PROVE BackupInv'
  <2>1. worker.at = "send" /\ l \in worker.todo /\ UNCHANGED <<where, last, hour>>
    BY <1>3 DEF Backing!Send
  <2>2. worker.archive \in Archive /\ worker.archive = <<where.grill, hour>>
    BY <2>1 DEF BackupJobs, JobOK
  <2>3. CASE /\ copies' = [copies EXCEPT ![l] = @ \cup {worker.archive}]
             /\ worker' = [worker EXCEPT !.todo = @ \ {l}]
    <3>1. /\ worker' \in BackupJobs /\ worker'.at = "send" /\ worker'.archive = worker.archive
          /\ worker'.to = worker.to /\ worker'.todo = worker.todo \ {l} /\ worker'.missed = worker.missed
      BY <2>1, <2>3 DEF BackupJobs, Places
    <3>2. /\ copies' \in [Backing!Locations -> SUBSET Archive]
          /\ \A k \in Backing!Locations : copies[k] \subseteq copies'[k]
          /\ \A k \in Backing!Locations : copies'[k] \subseteq copies[k] \cup {worker.archive}
          /\ worker.archive \in copies'[l]
      BY <2>2, <2>3
    <3>3. NewestIsNow'
      <4> SUFFICES ASSUME NEW k \in Backing!Locations, NEW a \in copies'[k]
                   PROVE  a[1] <= where.grill /\ a[2] <= hour
        BY <2>1 DEF NewestIsNow
      <4>1. CASE a \in copies[k]
        BY <4>1 DEF NewestIsNow
      <4>2. CASE a = worker.archive
        BY <4>2, <2>2 DEF Wheres
      <4> QED
        BY <3>2, <4>1, <4>2
    <3>4. JobOK'
      BY <2>1, <3>1, <3>2 DEF JobOK, BackupJobs, Places
    <3>5. RecordOK'
      BY <2>1, <3>2 DEF RecordOK, Lasts, Places
    <3> QED
      BY <2>1, <3>1, <3>2, <3>3, <3>4, <3>5
  <2>4. CASE /\ worker' = [worker EXCEPT !.todo = @ \ {l}, !.missed = @ \cup {l}]
             /\ UNCHANGED copies
    <3>1. /\ worker' \in BackupJobs /\ worker'.at = "send" /\ worker'.archive = worker.archive
          /\ worker'.to = worker.to /\ worker'.todo = worker.todo \ {l}
          /\ worker'.missed = worker.missed \cup {l}
      BY <2>1, <2>4 DEF BackupJobs, Places
    <3> QED
      BY <2>1, <2>4, <3>1 DEF NewestIsNow, JobOK, RecordOK
  <2> QED
    BY <1>3, <2>3, <2>4 DEF Backing!Send
<1>4. CASE Backing!Sent
  <2>1. /\ worker.at = "send" /\ worker.todo = {} /\ UNCHANGED <<where, copies, hour>>
        /\ Backing!Record(Backing!Everywhere, worker.to)
        /\ worker' = [worker EXCEPT !.at = "prune", !.todo = worker.to]
    BY <1>4 DEF Backing!Sent
  <2>2. /\ worker' \in BackupJobs /\ worker'.at = "prune" /\ worker'.archive = worker.archive
    BY <2>1 DEF BackupJobs, BackupSteps, Places
  <2>3. /\ last' \in Lasts /\ last'.archive = worker.archive /\ last'.sentTo = worker.to
        /\ last'.ok => worker.missed = {}
    BY <2>1 DEF Backing!Record, Backing!Everywhere, Lasts, BackupJobs
  <2>4. RecordOK'
    BY <2>1, <2>3 DEF RecordOK, JobOK
  <2> QED
    BY <2>1, <2>2, <2>3, <2>4 DEF NewestIsNow, JobOK
<1>5. ASSUME NEW l \in Backing!Locations, Backing!Prune(l) PROVE BackupInv'
  <2>1. worker.at = "prune" /\ UNCHANGED <<where, last, hour>> /\ worker' = [worker EXCEPT !.todo = @ \ {l}]
    BY <1>5 DEF Backing!Prune
  <2>2. PICK gone \in SUBSET Backing!Surplus(l) : copies' = [copies EXCEPT ![l] = @ \ gone]
    BY <1>5 DEF Backing!Prune
  <2>3. last.archive = <<where.grill, hour>> /\ last.archive \notin gone
    BY <2>1, NewestIsKept DEF JobOK
  <2>4. /\ copies' \in [Backing!Locations -> SUBSET Archive]
        /\ \A k \in Backing!Locations : copies'[k] \subseteq copies[k]
        /\ \A k \in Backing!Locations : last.archive \in copies[k] => last.archive \in copies'[k]
    BY <2>2, <2>3
  <2>5. worker' \in BackupJobs /\ worker'.at = "prune" /\ worker'.archive = worker.archive
    BY <2>1 DEF BackupJobs, Places
  <2>6. NewestIsNow'
    BY <2>1, <2>4 DEF NewestIsNow
  <2>7. RecordOK'
    BY <2>1, <2>4 DEF RecordOK, Lasts, Places
  <2>8. JobOK'
    BY <2>1, <2>5 DEF JobOK
  <2> QED
    BY <2>1, <2>4, <2>5, <2>6, <2>7, <2>8
<1>6. CASE Backing!Done \/ Backing!Restart
  <2>1. /\ UNCHANGED <<copies, last, hour>> /\ worker' = Backing!Idle
        /\ where' = where \/ where' = Backing!MigrateSingle(where)
    BY <1>6 DEF Backing!Done, Backing!Restart, Backing!LoadLast
  <2>2. worker' \in BackupJobs /\ worker'.at = "idle"
    BY <2>1 DEF Backing!Idle, Backing!NoArchive, BackupJobs, BackupSteps, Archive, Places
  <2>3. where' \in Wheres /\ where'.grill = where.grill
    <3>1. where.old # "off" => {where.old} \in Places
      BY DEF Wheres, Places
    <3> QED
      BY <2>1, <3>1 DEF Backing!MigrateSingle, Backing!Single, Wheres
  <2> QED
    BY <2>1, <2>2, <2>3 DEF NewestIsNow, JobOK, RecordOK
<1>7. CASE Backing!Edit
  <2>1. worker.at = "idle" /\ UNCHANGED <<copies, worker, last, hour>>
    BY <1>7 DEF Backing!Edit, Backing!Free
  <2>2. where' \in Wheres
    <3>1. PICK on \in SUBSET where.list, n \in Grills : where' = [where EXCEPT !.on = on, !.grill = n]
      BY <1>7 DEF Backing!Edit
    <3>2. on \in Places /\ n \in Nat
      BY BackupAssumption DEF Wheres, Places
    <3> QED
      BY <3>1, <3>2 DEF Wheres
  <2>3. NewestIsNow'
    BY <2>1, <2>2 DEF NewestIsNow, Wheres, Archive
  <2> QED
    BY <2>1, <2>2, <2>3 DEF JobOK, RecordOK
<1>8. CASE Backing!Hour
  <2>1. worker.at = "idle" /\ UNCHANGED <<where, copies, worker, last>> /\ hour' = hour + 1
    BY <1>8 DEF Backing!Hour, Backing!Free
  <2>2. NewestIsNow'
    BY <2>1 DEF NewestIsNow, Archive
  <2> QED
    BY <2>1, <2>2 DEF JobOK, RecordOK
<1>9. CASE UNCHANGED Backing!bvars
  BY <1>9 DEF Backing!bvars, NewestIsNow, JobOK, RecordOK
<1> QED
  BY <1>1, <1>2, <1>3, <1>4, <1>5, <1>6, <1>7, <1>8, <1>9 DEF Backing!Next

(* A step of the sum that is one of Backup is a step of Backup. *)
LEMMA BackupPart == which = "backup" /\ [SumNext]_sumVars => [Backing!Next]_(Backing!bvars)
  BY DEF SumNext, Others, sumVars, backupVars, Backing!bvars

(* Pruning goes by name: a grill that is given a name which sorts before its old one loses the new *)
(* backup and keeps the old ones (README, Found).                                                  *)
NotRenamedDown == [][which = "backup" => where'.grill >= where.grill]_sumVars

(* For any locations, names and numbers to keep: a backup on record as good is at every location   *)
(* it was sent to, whatever failed, was pruned, was edited or died meanwhile, as long as the grill  *)
(* is not renamed down (backup_thread, prune).                                                      *)
THEOREM GoodBackupStays == SumSpec /\ NotRenamedDown => []GoodBackupIsThere
<1> DEFINE Inv == which = "backup" => BackupInv
           Named == which = "backup" => where'.grill >= where.grill
<1>1. SumInit => Inv
  BY BackupInit DEF SumInit
<1>2. Inv /\ [SumNext]_sumVars /\ [Named]_sumVars => Inv'
  <2>1. CASE UNCHANGED sumVars
    BY <2>1 DEF sumVars, backupVars, BackupInv, BackupTypeOK, NewestIsNow, JobOK, RecordOK
  <2>2. CASE Named
    BY <2>2, BackupStep, BackupPart, SameComponent
  <2> QED
    BY <2>1, <2>2
<1>3. Inv => GoodBackupIsThere
  BY DEF BackupInv, RecordOK, GoodBackupIsThere, Backing!GoodBackupIsThere
<1> QED
  BY <1>1, <1>2, <1>3, PTL DEF SumSpec, NotRenamedDown

-----------------------------------------------------------------------------
(* Settings *)

IsTree(t) == Setting!Tree(t)

\* What the checks of a tree look at
SameLimits(u, t) ==
  /\ u.units = t.units /\ u.ver = t.ver
  /\ \A k \in Setting!Limits : u[k] = t[k]

LEMMA ValidIs ==
  ASSUME NEW t
  PROVE  Setting!Valid(t) <=>
           /\ Setting!CycleOk(t) /\ Setting!MaxOk(t) /\ Setting!BandOk(t) /\ Setting!FloorOk(t)
           /\ Setting!DropOk(t) /\ Setting!AugerOk(t) /\ Setting!IgniterOk(t)
  BY DEF Setting!Valid, Setting!Complaint

\* One key of a tree replaced
LEMMA ReplaceKey ==
  ASSUME NEW t, IsTree(t), NEW k \in Setting!Keys, NEW v, NEW u, u = [t EXCEPT ![k] = v]
  PROVE  /\ u = [j \in Setting!Keys |-> u[j]] /\ u[k] = v
         /\ \A j \in Setting!Keys \ {k} : u[j] = t[j]
  BY DEF IsTree, Setting!Tree

\* How many passes of the repair a tree is away from passing the checks, or more
BandRank(t) ==
  IF Setting!BandOk(t) /\ Setting!FloorOk(t) THEN 0
  ELSE IF Setting!BandOk(t) /\ Setting!SafeDefault(t, "tmin") < t.tmax THEN 1
  ELSE IF ~Setting!BandOk(t) /\ Setting!FloorOk(t) THEN 1 ELSE 2
Rank(t) ==
  (IF Setting!MaxOk(t) THEN 0 ELSE 3) + BandRank(t) + (IF Setting!DropOk(t) THEN 0 ELSE 1)
    + (IF Setting!AugerOk(t) THEN 0 ELSE 1) + (IF Setting!IgniterOk(t) THEN 0 ELSE 1)

LEMMA SafeIs ==
  ASSUME NEW t
  PROVE  /\ Setting!SafeDefault(t, "max") = IF t.units = "C" THEN 343 ELSE 650
         /\ Setting!SafeDefault(t, "tmax") = IF t.units = "C" THEN 288 ELSE 550
         /\ Setting!SafeDefault(t, "tmin") = IF t.units = "C" THEN 71 ELSE 160
         /\ Setting!SafeDefault(t, "drop") = IF t.units = "C" THEN 11 ELSE 20
         /\ Setting!SafeDefault(t, "auger") = 60
         /\ Setting!SafeDefault(t, "igniter") = 300
  BY DEF Setting!SafeDefault, Setting!C, Setting!Default

\* A pass replaces the limit that is complained about, if there is one it can replace
LEMMA PassIs ==
  ASSUME NEW t, IsTree(t)
  PROVE  LET u == Setting!RepairOne(t)
             k == Setting!Complaint(t)
         IN /\ IsTree(u) /\ u.rules = t.rules /\ u.ver = t.ver /\ u.units = t.units
            /\ \A j \in Setting!Limits : u[j] = IF j = k /\ k # "cycle" THEN Setting!SafeDefault(t, k) ELSE t[j]
<1> DEFINE u == Setting!RepairOne(t)
           k == Setting!Complaint(t)
           d == Setting!SafeDefault(t, k)
<1>1. k \in {"cycle", "max", "tmax", "tmin", "drop", "auger", "igniter", "none"}
  BY DEF Setting!Complaint
<1>2. CASE k \in {"none", "cycle"}
  BY <1>2 DEF Setting!RepairOne, Setting!Limits
<1>3. CASE k \notin {"none", "cycle"}
  <2>1. u = [t EXCEPT ![k] = d]
    BY <1>3 DEF Setting!RepairOne
  <2>2. d \in Int
    BY <1>1, <1>3, SafeIs
  <2>3. k \in Setting!Limits /\ k \in Setting!Keys
    BY <1>1, <1>3 DEF Setting!Limits, Setting!Keys
  <2> HIDE DEF k, d, u
  <2>4. /\ u = [j \in Setting!Keys |-> u[j]] /\ u[k] = d
        /\ \A j \in Setting!Keys \ {k} : u[j] = t[j]
    BY <2>1, <2>3 DEF IsTree, Setting!Tree
  <2>5. u.is = t.is /\ u.ver = t.ver /\ u.units = t.units /\ u.rules = t.rules /\ u.offered = t.offered
    BY <2>3, <2>4 DEF Setting!Keys, Setting!Limits
  <2>6. \A j \in Setting!Limits : u[j] = IF j = k THEN d ELSE t[j]
    BY <2>4 DEF Setting!Keys
  <2>7. IsTree(u)
    BY <2>2, <2>4, <2>5, <2>6 DEF IsTree, Setting!Tree
  <2> QED
    BY <1>3, <2>5, <2>6, <2>7 DEF u, k, d
<1> QED
  BY <1>2, <1>3

LEMMA RankIs == ASSUME NEW t PROVE Rank(t) \in 0..8 /\ (Setting!CycleOk(t) => (Rank(t) = 0 <=> Setting!Valid(t)))
  BY ValidIs DEF Rank, BandRank

\* Each pass brings a tree that can be mended nearer, and leaves one that can be mended
LEMMA PassMends ==
  ASSUME NEW t, IsTree(t), Setting!Mendable(t)
  PROVE  LET u == Setting!RepairOne(t) IN
         IsTree(u) /\ Setting!Mendable(u) /\ (Rank(u) < Rank(t) \/ Rank(u) = 0)
<1> DEFINE u == Setting!RepairOne(t)
           k == Setting!Complaint(t)
<1>0. /\ IsTree(u) /\ u.units = t.units
      /\ \A j \in Setting!Limits : u[j] = IF j = k /\ k # "cycle" THEN Setting!SafeDefault(t, k) ELSE t[j]
  BY PassIs
<1>1. /\ u.cycle = t.cycle
      /\ u.max = IF k = "max" THEN Setting!SafeDefault(t, "max") ELSE t.max
      /\ u.tmax = IF k = "tmax" THEN Setting!SafeDefault(t, "tmax") ELSE t.tmax
      /\ u.tmin = IF k = "tmin" THEN Setting!SafeDefault(t, "tmin") ELSE t.tmin
      /\ u.drop = IF k = "drop" THEN Setting!SafeDefault(t, "drop") ELSE t.drop
      /\ u.auger = IF k = "auger" THEN Setting!SafeDefault(t, "auger") ELSE t.auger
      /\ u.igniter = IF k = "igniter" THEN Setting!SafeDefault(t, "igniter") ELSE t.igniter
  BY <1>0 DEF Setting!Limits
<1>2. /\ t.cycle \in Int /\ t.max \in Int /\ t.tmax \in Int /\ t.tmin \in Int
      /\ t.drop \in Int /\ t.auger \in Int /\ t.igniter \in Int /\ t.units \in {"F", "C"}
  BY DEF IsTree, Setting!Tree, Setting!Limits
<1>3. Setting!CycleOk(t)
  BY DEF Setting!Mendable
<1> HIDE DEF u
<1> USE DEF Setting!Mendable, Setting!MaxOk, Setting!BandOk, Setting!FloorOk, Setting!C,
        Setting!CycleOk, Setting!DropOk, Setting!AugerOk, Setting!IgniterOk, Rank, BandRank
<1>4. CASE ~Setting!MaxOk(t)
  <2>1. k = "max"
    BY <1>3, <1>4 DEF Setting!Complaint
  <2> QED
    BY <1>0, <1>1, <1>2, <1>4, <2>1, SafeIs DEF u
<1>5. CASE Setting!MaxOk(t) /\ ~Setting!BandOk(t)
  <2>1. k = "tmax"
    BY <1>3, <1>5 DEF Setting!Complaint
  <2> QED
    BY <1>0, <1>1, <1>2, <1>5, <2>1, SafeIs DEF u
<1>6. CASE Setting!MaxOk(t) /\ Setting!BandOk(t) /\ ~Setting!FloorOk(t)
  <2>1. k = "tmin"
    BY <1>3, <1>6 DEF Setting!Complaint
  <2> QED
    BY <1>0, <1>1, <1>2, <1>6, <2>1, SafeIs DEF u
<1>7. CASE Setting!MaxOk(t) /\ Setting!BandOk(t) /\ Setting!FloorOk(t)
  <2>1. k = IF ~Setting!DropOk(t) THEN "drop"
            ELSE IF ~Setting!AugerOk(t) THEN "auger"
            ELSE IF ~Setting!IgniterOk(t) THEN "igniter" ELSE "none"
    BY <1>3, <1>7 DEF Setting!Complaint
  <2> QED
    BY <1>0, <1>1, <1>2, <1>7, <2>1, SafeIs, SMTT(30) DEF u
<1> QED
  BY <1>4, <1>5, <1>6, <1>7

LEMMA ThreePassesMend ==
  ASSUME NEW t, IsTree(t), Setting!Mendable(t)
  PROVE  LET u == Setting!RepairThrice(t) IN
         IsTree(u) /\ Setting!Mendable(u) /\ (Rank(u) + 3 <= Rank(t) \/ Rank(u) = 0)
<1> DEFINE a == Setting!RepairOne(t)
           b == Setting!RepairOne(a)
           c == Setting!RepairOne(b)
<1>1. IsTree(a) /\ Setting!Mendable(a) /\ (Rank(a) < Rank(t) \/ Rank(a) = 0)
  BY PassMends
<1>2. IsTree(b) /\ Setting!Mendable(b) /\ (Rank(b) < Rank(a) \/ Rank(b) = 0)
  BY <1>1, PassMends
<1>3. IsTree(c) /\ Setting!Mendable(c) /\ (Rank(c) < Rank(b) \/ Rank(c) = 0)
  BY <1>2, PassMends
<1>4. Rank(t) \in 0..8 /\ Rank(a) \in 0..8 /\ Rank(b) \in 0..8 /\ Rank(c) \in 0..8
  BY RankIs
<1>5. Setting!RepairThrice(t) = c
  BY DEF Setting!RepairThrice
<1> HIDE DEF a, b, c
<1> QED
  BY <1>1, <1>2, <1>3, <1>4, <1>5

(* Twelve passes are enough: whatever is wrong with a tree that can be mended, in either unit, the *)
(* repair makes it pass every check (pf_settings_init).                                             *)
THEOREM RepairMends ==
  ASSUME NEW t, Setting!Tree(t), Setting!Mendable(t)
  PROVE  Setting!Tree(Setting!Repair(t)) /\ Setting!Valid(Setting!Repair(t))
<1> DEFINE a == Setting!RepairThrice(t)
           b == Setting!RepairThrice(a)
           c == Setting!RepairThrice(b)
           d == Setting!RepairThrice(c)
<1>1. IsTree(a) /\ Setting!Mendable(a) /\ (Rank(a) + 3 <= Rank(t) \/ Rank(a) = 0)
  BY ThreePassesMend DEF IsTree
<1>2. IsTree(b) /\ Setting!Mendable(b) /\ (Rank(b) + 3 <= Rank(a) \/ Rank(b) = 0)
  BY <1>1, ThreePassesMend
<1>3. IsTree(c) /\ Setting!Mendable(c) /\ (Rank(c) + 3 <= Rank(b) \/ Rank(c) = 0)
  BY <1>2, ThreePassesMend
<1>4. IsTree(d) /\ Setting!Mendable(d) /\ (Rank(d) + 3 <= Rank(c) \/ Rank(d) = 0)
  BY <1>3, ThreePassesMend
<1>5. Rank(t) \in 0..8 /\ Rank(a) \in 0..8 /\ Rank(b) \in 0..8 /\ Rank(c) \in 0..8 /\ Rank(d) \in 0..8
  BY RankIs
<1>6. Setting!Repair(t) = d
  BY DEF Setting!Repair
<1>7. Setting!CycleOk(d) /\ (Setting!CycleOk(d) => (Rank(d) = 0 <=> Setting!Valid(d)))
  BY <1>4, RankIs DEF Setting!Mendable
<1> HIDE DEF a, b, c, d
<1>8. Rank(d) = 0
  BY <1>1, <1>2, <1>3, <1>4, <1>5
<1> QED
  BY <1>4, <1>6, <1>7, <1>8 DEF IsTree

\* Whatever it mends, the repair keeps the rules and the version
LEMMA PassKeeps ==
  ASSUME NEW t, IsTree(t)
  PROVE  LET u == Setting!RepairOne(t) IN IsTree(u) /\ u.rules = t.rules /\ u.ver = t.ver
  BY PassIs

LEMMA ThreePassesKeep ==
  ASSUME NEW t, IsTree(t)
  PROVE  LET u == Setting!RepairThrice(t) IN IsTree(u) /\ u.rules = t.rules /\ u.ver = t.ver
  BY PassKeeps DEF Setting!RepairThrice

LEMMA RepairKeeps ==
  ASSUME NEW t, IsTree(t)
  PROVE  LET u == Setting!Repair(t) IN IsTree(u) /\ u.rules = t.rules /\ u.ver = t.ver
  BY ThreePassesKeep DEF Setting!Repair

-----------------------------------------------------------------------------
(* Settings: what a start makes of a file *)

LEMMA DefaultIs ==
  /\ IsTree(Setting!Default) /\ Setting!Valid(Setting!Default) /\ Setting!Default.ver = Setting!Now
  /\ Setting!Mendable(Setting!Default)
<1> DEFINE d == Setting!Default
<1>1. /\ d.is = "tree" /\ d.ver = 30 /\ d.units = "F" /\ d.cycle = 25 /\ d.max = 650 /\ d.tmax = 550
      /\ d.tmin = 160 /\ d.drop = 20 /\ d.auger = 60 /\ d.igniter = 300
      /\ d.offered \subseteq Setting!RuleIds
  BY DEF Setting!Default, Setting!Now
<1>2. d.rules \in [Setting!RuleIds -> Setting!Rule]
  <2>1. /\ [words |-> "now", guard |-> TRUE] \in Setting!Rule
        /\ Setting!Absent \in Setting!Rule
    BY DEF Setting!Absent, Setting!Rule
  <2>2. d.rules = [id \in Setting!RuleIds |->
                     IF id = "grill-over" THEN Setting!Absent ELSE [words |-> "now", guard |-> TRUE]]
    BY DEF Setting!Default
  <2> HIDE DEF d
  <2> QED
    BY <2>1, <2>2
<1>3. d = [k \in Setting!Keys |-> d[k]]
  <2>1. ASSUME NEW v, NEW r, NEW o, NEW h
        PROVE  LET e == [is |-> "tree", ver |-> v, units |-> "F", cycle |-> 25, max |-> 650, tmax |-> 550,
                         tmin |-> 160, auger |-> 60, igniter |-> 300, drop |-> 20, selected |-> "pid",
                         rules |-> r, offered |-> o, things |-> h]
               IN  e = [k \in Setting!Keys |-> e[k]]
    BY DEF Setting!Keys, Setting!Limits
  <2> QED
    BY <2>1 DEF Setting!Default
<1> HIDE DEF d
<1>4. IsTree(d)
  BY <1>1, <1>2, <1>3 DEF IsTree, Setting!Tree, Setting!Limits
<1>5. Setting!Valid(d)
  BY <1>1, ValidIs DEF Setting!CycleOk, Setting!MaxOk, Setting!BandOk, Setting!FloorOk, Setting!DropOk,
     Setting!AugerOk, Setting!IgniterOk, Setting!C
<1>6. Setting!Mendable(d)
  BY <1>1, SafeIs DEF Setting!Mendable, Setting!CycleOk, Setting!MaxOk, Setting!FloorOk, Setting!C
<1> QED
  BY <1>1, <1>4, <1>5, <1>6 DEF d, Setting!Now

\* What is the user's in a tree is theirs in another: the rules deleted, and those reworded
KeepsTheirs(t, u) ==
  /\ IsTree(u) /\ u.offered = t.offered
  /\ \A id \in Setting!RuleIds : t.rules[id] = Setting!Absent => u.rules[id] = Setting!Absent
  /\ \A id \in Setting!RuleIds \ {"grill-over"} :
       t.rules[id].words = "mine" /\ t.rules[id].guard => u.rules[id].words = "mine" /\ u.rules[id].guard

LEMMA SameRules ==
  ASSUME NEW t, NEW u, IsTree(u), u.offered = t.offered, u.rules = t.rules
  PROVE  KeepsTheirs(t, u)
  BY DEF KeepsTheirs

LEMMA KeepsOn ==
  ASSUME NEW t, NEW u, NEW v, KeepsTheirs(t, u), KeepsTheirs(u, v)
  PROVE  KeepsTheirs(t, v)
  BY DEF KeepsTheirs

LEMMA NewRules ==
  ASSUME NEW t, IsTree(t), NEW r \in [Setting!RuleIds -> Setting!Rule], NEW u, u = [t EXCEPT !.rules = r]
  PROVE  IsTree(u) /\ u.rules = r /\ u.offered = t.offered
  BY DEF IsTree, Setting!Tree, Setting!Keys, Setting!Limits

LEMMA GuardsKeep ==
  ASSUME NEW t, IsTree(t)
  PROVE  KeepsTheirs(t, Setting!GuardHot(t)) /\ KeepsTheirs(t, Setting!GuardProbes(t))
<1>1. KeepsTheirs(t, t)
  BY SameRules
<1>2. t.rules \in [Setting!RuleIds -> Setting!Rule]
  BY DEF IsTree, Setting!Tree
<1>3. ASSUME t.rules["grill-hot"] # Setting!Absent /\ ~t.rules["grill-hot"].guard
      PROVE  KeepsTheirs(t, Setting!GuardHot(t))
  <2> DEFINE u == Setting!GuardHot(t)
             r == [t.rules EXCEPT !["grill-hot"] = [words |-> "old", guard |-> TRUE]]
  <2>1. u = [t EXCEPT !.rules = r]
    BY <1>3 DEF Setting!GuardHot
  <2>2. r \in [Setting!RuleIds -> Setting!Rule]
    BY <1>2 DEF Setting!Rule
  <2>3. \A id \in Setting!RuleIds \ {"grill-hot"} : r[id] = t.rules[id]
    BY <1>2
  <2> HIDE DEF u, r
  <2>4. IsTree(u) /\ u.rules = r /\ u.offered = t.offered
    BY <2>1, <2>2, NewRules
  <2>5. KeepsTheirs(t, u)
    BY <1>3, <2>3, <2>4 DEF KeepsTheirs
  <2> QED
    BY <2>5 DEF u
<1>4. ASSUME ~(t.rules["grill-hot"] # Setting!Absent /\ ~t.rules["grill-hot"].guard)
      PROVE  KeepsTheirs(t, Setting!GuardHot(t))
  BY <1>1, <1>4 DEF Setting!GuardHot
<1>5. ASSUME t.rules["probe-target"] # Setting!Absent
      PROVE  KeepsTheirs(t, Setting!GuardProbes(t))
  <2> DEFINE u == Setting!GuardProbes(t)
             r == [t.rules EXCEPT !["probe-target"].guard = TRUE]
  <2>1. u = [t EXCEPT !.rules = r]
    BY <1>5 DEF Setting!GuardProbes
  <2>2. r \in [Setting!RuleIds -> Setting!Rule] /\ r["probe-target"].words = t.rules["probe-target"].words
        /\ r["probe-target"].guard = TRUE
    BY <1>2 DEF Setting!Rule, Setting!RuleIds
  <2>3. \A id \in Setting!RuleIds \ {"probe-target"} : r[id] = t.rules[id]
    BY <1>2
  <2> HIDE DEF u, r
  <2>4. IsTree(u) /\ u.rules = r /\ u.offered = t.offered
    BY <2>1, <2>2, NewRules
  <2>5. KeepsTheirs(t, u)
    BY <1>5, <2>2, <2>3, <2>4 DEF KeepsTheirs
  <2> QED
    BY <2>5 DEF u
<1>6. ASSUME ~(t.rules["probe-target"] # Setting!Absent)
      PROVE  KeepsTheirs(t, Setting!GuardProbes(t))
  BY <1>1, <1>6 DEF Setting!GuardProbes
<1> QED
  BY <1>3, <1>4, <1>5, <1>6

LEMMA RewordKeeps ==
  ASSUME NEW t, IsTree(t), NEW id \in Setting!RuleIds
  PROVE  KeepsTheirs(t, Setting!Reword(t, id))
<1>1. KeepsTheirs(t, t)
  BY SameRules
<1>2. t.rules \in [Setting!RuleIds -> Setting!Rule]
  BY DEF IsTree, Setting!Tree
<1>3. CASE t.rules[id].words = "old"
  <2> DEFINE u == Setting!Reword(t, id)
             r == [t.rules EXCEPT ![id].words = "now"]
  <2>1. u = [t EXCEPT !.rules = r]
    BY <1>3 DEF Setting!Reword
  <2>2. r \in [Setting!RuleIds -> Setting!Rule]
    BY <1>2 DEF Setting!Rule
  <2>3. \A other \in Setting!RuleIds \ {id} : r[other] = t.rules[other]
    BY <1>2
  <2> HIDE DEF u, r
  <2>4. IsTree(u) /\ u.rules = r /\ u.offered = t.offered
    BY <2>1, <2>2, NewRules
  <2>5. t.rules[id] # Setting!Absent
    BY <1>3 DEF Setting!Absent
  <2>6. KeepsTheirs(t, u)
    BY <1>3, <2>3, <2>4, <2>5 DEF KeepsTheirs
  <2> QED
    BY <2>6 DEF u
<1>4. CASE t.rules[id].words # "old"
  BY <1>1, <1>4 DEF Setting!Reword
<1> QED
  BY <1>3, <1>4

LEMMA WordingKeeps ==
  ASSUME NEW t, IsTree(t)
  PROVE  KeepsTheirs(t, Setting!NewWording(t))
<1>1. {"grill-hot", "probe-target"} \subseteq Setting!RuleIds
  BY DEF Setting!RuleIds
<1>2. KeepsTheirs(t, Setting!Reword(t, "grill-hot"))
  BY <1>1, RewordKeeps
<1>3. IsTree(Setting!Reword(t, "grill-hot"))
  BY <1>2 DEF KeepsTheirs
<1> DEFINE u == Setting!Reword(t, "grill-hot")
<1>4. KeepsTheirs(u, Setting!Reword(u, "probe-target"))
  BY <1>1, <1>3, RewordKeeps
<1> HIDE DEF u
<1>5. KeepsTheirs(t, Setting!Reword(u, "probe-target"))
  BY <1>2, <1>4, KeepsOn DEF u
<1> QED
  BY <1>5 DEF Setting!NewWording, u

LEMMA DropTwiceKeeps ==
  ASSUME NEW t, IsTree(t)
  PROVE  KeepsTheirs(t, Setting!DropTwice(t))
<1> DEFINE u == Setting!DropTwice(t)
           r == [t.rules EXCEPT !["grill-over"] = Setting!Absent]
<1>1. t.rules \in [Setting!RuleIds -> Setting!Rule]
  BY DEF IsTree, Setting!Tree
<1>2. u = [t EXCEPT !.rules = r]
  BY DEF Setting!DropTwice
<1>3. r \in [Setting!RuleIds -> Setting!Rule]
  BY <1>1 DEF Setting!Rule, Setting!Absent
<1>4. /\ \A id \in Setting!RuleIds \ {"grill-over"} : r[id] = t.rules[id]
      /\ r["grill-over"] = Setting!Absent
  BY <1>1 DEF Setting!RuleIds
<1> HIDE DEF u, r
<1>5. IsTree(u) /\ u.rules = r /\ u.offered = t.offered
  BY <1>2, <1>3, NewRules
<1>6. KeepsTheirs(t, u)
  BY <1>4, <1>5 DEF KeepsTheirs
<1> QED
  BY <1>6 DEF u

\* The migrations that touch no rule
LEMMA OthersKeep ==
  ASSUME NEW t, IsTree(t)
  PROVE  /\ KeepsTheirs(t, Setting!Retire(t)) /\ KeepsTheirs(t, Setting!CapIgniter(t))
         /\ KeepsTheirs(t, Setting!SmartStart(t)) /\ \A v : KeepsTheirs(t, Setting!Move(t, v))
         /\ KeepsTheirs(t, [t EXCEPT !.ver = Setting!Now])
<1> USE DEF IsTree, Setting!Tree, Setting!Keys, Setting!Limits
<1>1. KeepsTheirs(t, Setting!Retire(t))
  <2>1. LET u == Setting!Retire(t) IN IsTree(u) /\ u.rules = t.rules /\ u.offered = t.offered
    BY DEF Setting!Retire
  <2> QED
    BY <2>1, SameRules
<1>2. KeepsTheirs(t, Setting!CapIgniter(t))
  <2>1. LET u == Setting!CapIgniter(t) IN IsTree(u) /\ u.rules = t.rules /\ u.offered = t.offered
    BY DEF Setting!CapIgniter
  <2> QED
    BY <2>1, SameRules
<1>3. KeepsTheirs(t, Setting!SmartStart(t))
  <2> DEFINE u == Setting!SmartStart(t)
             tmin == IF Setting!C(t) THEN 71 ELSE t.tmin
             tmax == IF Setting!C(t) THEN 288 ELSE t.tmax
             max == IF t.max = (IF Setting!C(t) THEN 288 ELSE 550)
                      THEN (IF Setting!C(t) THEN 343 ELSE 650) ELSE t.max
  <2>2. u = [t EXCEPT !.tmin = tmin, !.tmax = tmax, !.max = max]
    BY DEF Setting!SmartStart
  <2>3. tmin \in Int /\ tmax \in Int /\ max \in Int
    OBVIOUS
  <2> HIDE DEF u, tmin, tmax, max
  <2>4. IsTree(u) /\ u.rules = t.rules /\ u.offered = t.offered
    BY <2>2, <2>3
  <2>1. LET w == Setting!SmartStart(t) IN IsTree(w) /\ w.rules = t.rules /\ w.offered = t.offered
    BY <2>4 DEF u
  <2> QED
    BY <2>1, SameRules
<1>4. ASSUME NEW v PROVE KeepsTheirs(t, Setting!Move(t, v))
  <2>1. LET u == Setting!Move(t, v) IN IsTree(u) /\ u.rules = t.rules /\ u.offered = t.offered
    BY DEF Setting!Move
  <2> QED
    BY <2>1, SameRules
<1>5. KeepsTheirs(t, [t EXCEPT !.ver = Setting!Now])
  <2>1. LET u == [t EXCEPT !.ver = Setting!Now] IN IsTree(u) /\ u.rules = t.rules /\ u.offered = t.offered
    BY DEF Setting!Now
  <2> QED
    BY <2>1, SameRules
<1> QED
  BY <1>1, <1>2, <1>3, <1>4, <1>5

LEMMA MigrateKeeps ==
  ASSUME NEW t, IsTree(t)
  PROVE  KeepsTheirs(t, Setting!Migrate(t)) /\ Setting!Migrate(t).ver = Setting!Now
<1> DEFINE v == t.ver
           a == IF v < 7 THEN Setting!GuardHot(t) ELSE t
           b == IF v < 8 THEN Setting!GuardProbes(a) ELSE a
           c == IF v < 15 THEN Setting!Retire(b) ELSE b
           d == IF v < 17 THEN Setting!DropTwice(c) ELSE c
           e == IF v < 22 THEN Setting!NewWording(d) ELSE d
           f == IF v < 25 THEN Setting!CapIgniter(e) ELSE e
           g == IF v < 29 THEN Setting!SmartStart(f) ELSE f
           h == Setting!Move(g, v)
<1>0. \A x : IsTree(x) => KeepsTheirs(x, x)
  BY SameRules
<1>1. IsTree(a) /\ KeepsTheirs(t, a)
  BY <1>0, GuardsKeep DEF KeepsTheirs
<1>2. IsTree(b) /\ KeepsTheirs(a, b)
  <2> HIDE DEF a
  <2> QED
    BY <1>0, <1>1, GuardsKeep DEF KeepsTheirs
<1>3. IsTree(c) /\ KeepsTheirs(b, c)
  <2> HIDE DEF b
  <2> QED
    BY <1>0, <1>2, OthersKeep DEF KeepsTheirs
<1>4. IsTree(d) /\ KeepsTheirs(c, d)
  <2> HIDE DEF c
  <2> QED
    BY <1>0, <1>3, DropTwiceKeeps DEF KeepsTheirs
<1>5. IsTree(e) /\ KeepsTheirs(d, e)
  <2> HIDE DEF d
  <2> QED
    BY <1>0, <1>4, WordingKeeps DEF KeepsTheirs
<1>6. IsTree(f) /\ KeepsTheirs(e, f)
  <2> HIDE DEF e
  <2> QED
    BY <1>0, <1>5, OthersKeep DEF KeepsTheirs
<1>7. IsTree(g) /\ KeepsTheirs(f, g)
  <2> HIDE DEF f
  <2> QED
    BY <1>0, <1>6, OthersKeep DEF KeepsTheirs
<1>8. IsTree(h) /\ KeepsTheirs(g, h)
  <2> HIDE DEF g
  <2> QED
    BY <1>0, <1>7, OthersKeep DEF KeepsTheirs
<1>9. Setting!Migrate(t) = [h EXCEPT !.ver = Setting!Now]
  BY DEF Setting!Migrate
<1> HIDE DEF a, b, c, d, e, f, g, h
<1>10. KeepsTheirs(h, [h EXCEPT !.ver = Setting!Now]) /\ [h EXCEPT !.ver = Setting!Now].ver = Setting!Now
  BY <1>8, OthersKeep DEF IsTree, Setting!Tree, Setting!Keys
<1>11. KeepsTheirs(t, c)
  BY <1>1, <1>2, <1>3, KeepsOn
<1>12. KeepsTheirs(t, f)
  BY <1>11, <1>4, <1>5, <1>6, KeepsOn
<1>13. KeepsTheirs(t, h)
  BY <1>12, <1>7, <1>8, KeepsOn
<1> QED
  BY <1>9, <1>10, <1>13, KeepsOn

LEMMA FillKeeps ==
  ASSUME NEW t, IsTree(t)
  PROVE  KeepsTheirs(t, Setting!FillDefaults(t))
<1> DEFINE u == Setting!FillDefaults(t)
<1>1. u = [k \in Setting!Keys |-> IF k \in Setting!MayBeMissing /\ t[k] = 0 THEN Setting!Default[k] ELSE t[k]]
  BY DEF Setting!FillDefaults, IsTree, Setting!Tree
<1>2. /\ Setting!Default.ver \in Int /\ Setting!Default.tmax \in Int /\ Setting!Default.tmin \in Int
      /\ Setting!Default.drop \in Int /\ Setting!Default.igniter \in Int
  BY DefaultIs DEF IsTree, Setting!Tree, Setting!Limits
<1> HIDE DEF u
<1>3. IsTree(u) /\ u.offered = t.offered /\ u.rules = t.rules
  BY <1>1, <1>2 DEF IsTree, Setting!Tree, Setting!Keys, Setting!Limits, Setting!MayBeMissing
<1>4. KeepsTheirs(t, u)
  BY <1>3, SameRules
<1> QED
  BY <1>4 DEF u

\* New rules are offered once
LEMMA AdoptIs ==
  ASSUME NEW t, IsTree(t)
  PROVE  LET u == Setting!Adopt(t) IN
         /\ IsTree(u) /\ SameLimits(u, t)
         /\ \A id \in t.offered : u.rules[id] = t.rules[id]
         /\ \A id \in Setting!RuleIds : t.rules[id] # Setting!Absent => u.rules[id] = t.rules[id]
<1> DEFINE u == Setting!Adopt(t)
           r == [id \in Setting!RuleIds |->
                   IF t.rules[id] = Setting!Absent /\ id \notin t.offered
                   THEN Setting!Default.rules[id] ELSE t.rules[id]]
           o == t.offered \cup Setting!Default.offered
<1>1. u = [t EXCEPT !.rules = r, !.offered = o]
  BY DEF Setting!Adopt
<1>2. /\ Setting!Default.rules \in [Setting!RuleIds -> Setting!Rule]
      /\ t.rules \in [Setting!RuleIds -> Setting!Rule]
      /\ t.offered \subseteq Setting!RuleIds /\ Setting!Default.offered \subseteq Setting!RuleIds
  BY DefaultIs DEF IsTree, Setting!Tree
<1>3. r \in [Setting!RuleIds -> Setting!Rule] /\ o \subseteq Setting!RuleIds
  BY <1>2
<1>4. /\ \A id \in t.offered : r[id] = t.rules[id]
      /\ \A id \in Setting!RuleIds : t.rules[id] # Setting!Absent => r[id] = t.rules[id]
  BY <1>2
<1> HIDE DEF u, r, o
<1>5. IsTree(u) /\ u.rules = r /\ SameLimits(u, t)
  BY <1>1, <1>3 DEF IsTree, SameLimits, Setting!Tree, Setting!Keys, Setting!Limits
<1> QED
  BY <1>4, <1>5 DEF u

(* A rule the user deleted stays deleted and a reworded one is theirs, whatever build's file it is *)
(* and whatever else the start migrates, adopts and repairs in it (adopt_builtin_rules).           *)
THEOREM BootKeepsTheirs ==
  ASSUME NEW t, IsTree(t)
  PROVE  LET u == Setting!Booted(t) IN
         /\ \A id \in t.offered : t.rules[id] = Setting!Absent => u.rules[id] = Setting!Absent
         /\ \A id \in Setting!RuleIds \ {"grill-over"} :
              t.rules[id].words = "mine" /\ t.rules[id].guard => u.rules[id].words = "mine"
<1> DEFINE f == Setting!FillDefaults(t)
           m == Setting!Migrate(f)
           a == Setting!Adopt(m)
           u == Setting!Repair(a)
<1>1. KeepsTheirs(t, f) /\ IsTree(f)
  BY FillKeeps DEF KeepsTheirs
<1>2. KeepsTheirs(f, m) /\ IsTree(m)
  <2> HIDE DEF f
  <2> QED
    BY <1>1, MigrateKeeps DEF KeepsTheirs
<1>3. KeepsTheirs(t, m)
  BY <1>1, <1>2, KeepsOn
<1>4. /\ IsTree(a)
      /\ \A id \in m.offered : a.rules[id] = m.rules[id]
      /\ \A id \in Setting!RuleIds : m.rules[id] # Setting!Absent => a.rules[id] = m.rules[id]
  <2> HIDE DEF m
  <2> QED
    BY <1>2, AdoptIs
<1>5. u.rules = a.rules
  <2> HIDE DEF a
  <2> QED
    BY <1>4, RepairKeeps
<1>6. Setting!Booted(t) = u
  BY DEF Setting!Booted, Setting!Taken, Setting!Is, IsTree, Setting!Tree
<1>7. t.offered \subseteq Setting!RuleIds
  BY DEF IsTree, Setting!Tree
<1> HIDE DEF f, m, a, u
<1>8. \A id \in t.offered : t.rules[id] = Setting!Absent => u.rules[id] = Setting!Absent
  BY <1>3, <1>4, <1>5, <1>7 DEF KeepsTheirs
<1>9. ASSUME NEW id \in Setting!RuleIds \ {"grill-over"}, t.rules[id].words = "mine", t.rules[id].guard
      PROVE  u.rules[id].words = "mine"
  <2>1. m.rules[id].words = "mine"
    BY <1>3, <1>9 DEF KeepsTheirs
  <2>2. m.rules[id] # Setting!Absent
    BY <2>1 DEF Setting!Absent
  <2> QED
    BY <1>4, <1>5, <2>1, <2>2
<1> QED
  BY <1>6, <1>8, <1>9

\* A tree of this build that passes the checks is taken as it is, as far as the checks go
LEMMA CurrentIsMendable ==
  ASSUME NEW t, IsTree(t), Setting!Valid(t), t.ver = Setting!Now
  PROVE  IsTree(Setting!Taken(t)) /\ Setting!Mendable(Setting!Taken(t))
<1> DEFINE m == Setting!Move(t, 30)
           n == [m EXCEPT !.ver = Setting!Now]
           u == Setting!Adopt(n)
<1>1. /\ t.cycle \in Int /\ t.max \in Int /\ t.tmax \in Int /\ t.tmin \in Int
      /\ t.drop \in Int /\ t.auger \in Int /\ t.igniter \in Int /\ t.units \in {"F", "C"}
  BY DEF IsTree, Setting!Tree, Setting!Limits
<1>2. /\ Setting!CycleOk(t) /\ Setting!MaxOk(t) /\ Setting!BandOk(t) /\ Setting!FloorOk(t)
      /\ Setting!DropOk(t) /\ Setting!IgniterOk(t)
  BY ValidIs
<1>3. Setting!FillDefaults(t) = t
  <2>1. t.ver # 0 /\ t.tmax # 0 /\ t.tmin # 0 /\ t.drop # 0 /\ t.igniter # 0
    BY <1>1, <1>2 DEF Setting!BandOk, Setting!FloorOk, Setting!DropOk, Setting!IgniterOk, Setting!Now
  <2> QED
    BY <2>1 DEF Setting!FillDefaults, Setting!MayBeMissing, IsTree, Setting!Tree
<1>4. Setting!Migrate(t) = n
  BY DEF Setting!Migrate, Setting!Now
<1>5. IsTree(m) /\ SameLimits(m, t)
  BY DEF Setting!Move, IsTree, SameLimits, Setting!Tree, Setting!Keys, Setting!Limits
<1>6. IsTree(n) /\ SameLimits(n, t)
  <2> HIDE DEF m
  <2> QED
    BY <1>5 DEF IsTree, SameLimits, Setting!Tree, Setting!Keys, Setting!Limits, Setting!Now
<1>7. IsTree(u) /\ SameLimits(u, t)
  <2>1. SameLimits(u, n)
    BY <1>6, AdoptIs
  <2> QED
    BY <1>6, <2>1, AdoptIs DEF SameLimits
<1>8. Setting!Taken(t) = u
  BY <1>3, <1>4 DEF Setting!Taken, Setting!Is, IsTree, Setting!Tree
<1> HIDE DEF u
<1>9. /\ u.cycle = t.cycle /\ u.max = t.max /\ u.tmax = t.tmax /\ u.tmin = t.tmin /\ u.units = t.units
  BY <1>7 DEF SameLimits, Setting!Limits
<1>10. Setting!Mendable(u)
  BY <1>1, <1>2, <1>9 DEF Setting!Mendable, Setting!CycleOk, Setting!MaxOk, Setting!BandOk, Setting!FloorOk, Setting!C
<1> QED
  BY <1>7, <1>8, <1>10

-----------------------------------------------------------------------------
(* Settings: while it runs *)

SettingsTypeOK ==
  /\ IsTree(disk) \/ disk \in {Setting!NoFile, Setting!Junk}
  /\ IsTree(mem) \/ mem = Setting!Down
  /\ settings_pending \in {"none", "F", "C"}

LEMMA TreeOrNot ==
  /\ \A t : IsTree(t) => Setting!Is(t) /\ t # Setting!Down /\ t \notin {Setting!NoFile, Setting!Junk}
  /\ ~Setting!Is(Setting!Down) /\ ~Setting!Is(Setting!NoFile) /\ ~Setting!Is(Setting!Junk)
<1>1. \A t : IsTree(t) => t.is = "tree"
  BY DEF IsTree, Setting!Tree
<1>2. Setting!Down.is = "down" /\ Setting!NoFile.is = "no file" /\ Setting!Junk.is = "junk"
  BY DEF Setting!Down, Setting!NoFile, Setting!Junk
<1> QED
  BY <1>1, <1>2 DEF Setting!Is

\* What is in memory passes the checks, and the next start can mend what is on disk
RunsSafely == Setting!Is(mem) => Setting!Valid(mem) /\ mem.ver = Setting!Now
StartsSafely == IsTree(Setting!Taken(disk)) /\ Setting!Mendable(Setting!Taken(disk))

SettingsInv == SettingsTypeOK /\ RunsSafely /\ StartsSafely

\* The limits were two degrees Fahrenheit apart when they were converted: one apart, two of them may
\* be the same whole number of degrees Celsius (README, Found)
NotNarrow(t) == t.tmin + 2 <= t.tmax /\ t.tmax + 2 <= t.max

LEMMA TakenIs ==
  ASSUME NEW f, IsTree(f)
  PROVE  IsTree(Setting!Taken(f)) /\ Setting!Taken(f).ver = Setting!Now
<1> DEFINE g == Setting!FillDefaults(f)
           m == Setting!Migrate(g)
<1>1. IsTree(g)
  BY FillKeeps DEF KeepsTheirs
<1>2. IsTree(m) /\ m.ver = Setting!Now
  <2> HIDE DEF g
  <2> QED
    BY <1>1, MigrateKeeps DEF KeepsTheirs
<1>3. IsTree(Setting!Adopt(m)) /\ SameLimits(Setting!Adopt(m), m)
  <2> HIDE DEF m
  <2> QED
    BY <1>2, AdoptIs
<1>4. Setting!Taken(f) = Setting!Adopt(m)
  BY DEF Setting!Taken, Setting!Is, IsTree, Setting!Tree
<1> HIDE DEF m
<1> QED
  BY <1>2, <1>3, <1>4 DEF SameLimits

\* Degrees converted and rounded keep their order, and what is within the limits stays within
LEMMA ConvertedIsValid ==
  ASSUME NEW t, IsTree(t), Setting!Valid(t), NEW v, IsTree(v), v.units # t.units,
         t.units = "F" => NotNarrow(t),
         v.cycle = t.cycle, v.auger = t.auger, v.igniter = t.igniter,
         v.units = "C" => /\ v.max = Setting!ToC(t.max) /\ v.tmax = Setting!ToC(t.tmax)
                          /\ v.tmin = Setting!ToC(t.tmin) /\ v.drop = Setting!DiffToC(t.drop),
         v.units = "F" => /\ v.max = Setting!ToF(t.max) /\ v.tmax = Setting!ToF(t.tmax)
                          /\ v.tmin = Setting!ToF(t.tmin) /\ v.drop = Setting!DiffToF(t.drop)
  PROVE  Setting!Valid(v)
<1>1. /\ t.cycle \in Int /\ t.max \in Int /\ t.tmax \in Int /\ t.tmin \in Int
      /\ t.drop \in Int /\ t.auger \in Int /\ t.igniter \in Int
      /\ t.units \in {"F", "C"} /\ v.units \in {"F", "C"}
  BY DEF IsTree, Setting!Tree, Setting!Limits
<1>2. /\ Setting!CycleOk(t) /\ Setting!MaxOk(t) /\ Setting!BandOk(t) /\ Setting!FloorOk(t)
      /\ Setting!DropOk(t) /\ Setting!AugerOk(t) /\ Setting!IgniterOk(t)
  BY ValidIs
<1> USE DEF Setting!CycleOk, Setting!MaxOk, Setting!BandOk, Setting!FloorOk, Setting!DropOk,
        Setting!AugerOk, Setting!IgniterOk, Setting!C
<1>3. CASE v.units = "C"
  <2>1. t.units = "F"
    BY <1>1, <1>3
  <2>2. /\ v.max > 65 /\ v.max <= 343 /\ v.tmin < v.tmax /\ v.tmax < v.max /\ v.tmin >= 38
        /\ v.drop >= 3 /\ v.drop <= 28
    BY <1>1, <1>2, <1>3, <2>1 DEF Setting!ToC, Setting!DiffToC, NotNarrow
  <2> QED
    BY <1>2, <1>3, <2>2, ValidIs
<1>4. CASE v.units = "F"
  <2>1. t.units = "C"
    BY <1>1, <1>4
  <2>2. /\ v.max > 150 /\ v.max <= 650 /\ v.tmin < v.tmax /\ v.tmax < v.max /\ v.tmin >= 100
        /\ v.drop >= 5 /\ v.drop <= 50
    BY <1>1, <1>2, <1>4, <2>1 DEF Setting!ToF, Setting!DiffToF
  <2> QED
    BY <1>2, <1>4, <2>2, ValidIs
<1> QED
  BY <1>1, <1>3, <1>4

(* The files the grill may come upon are such that the repair's passes can mend them. Not every   *)
(* file is (README, Found).                                                                        *)
MendableFiles ==
  \A f \in Found \cup Backups : Setting!Is(f) => Setting!Mendable(Setting!Taken(f))

(* The units are changed by themselves, as the page does it. A patch that brings limits along has  *)
(* them checked in the new units and converted all the same (README, Found).                       *)
UnitsAlone == \A p \in Patches : \A c \in p : c[1] = "units" => p = {c}

ConvertsWide == Setting!Is(mem) /\ mem.units = "F" /\ settings_pending = "C" => NotNarrow(mem)

LEMMA FileMends ==
  ASSUME MendableFiles, NEW f \in Found \cup Backups
  PROVE  /\ IsTree(f) \/ f \in {Setting!NoFile, Setting!Junk}
         /\ IsTree(Setting!Taken(f)) /\ Setting!Mendable(Setting!Taken(f))
<1>1. IsTree(f) \/ f \in {Setting!NoFile, Setting!Junk}
  BY SettingsAssumption DEF IsTree
<1>2. CASE IsTree(f)
  BY <1>1, <1>2, TakenIs, TreeOrNot DEF MendableFiles
<1>3. CASE f \in {Setting!NoFile, Setting!Junk}
  <2>1. Setting!Taken(f) = Setting!Default
    BY <1>3, TreeOrNot DEF Setting!Taken
  <2> QED
    BY <1>1, <2>1, DefaultIs
<1> QED
  BY <1>1, <1>2, <1>3

\* What a patch makes of a tree
LEMMA PutIs ==
  ASSUME NEW t, IsTree(t), NEW p \in Patches
  PROVE  LET u == Setting!Put(t, p) IN IsTree(u) /\ u.ver = t.ver
<1> DEFINE u == Setting!Put(t, p)
<1>1. u = [k \in Setting!Keys |-> IF \E c \in p : c[1] = k THEN (CHOOSE c \in p : c[1] = k)[2] ELSE t[k]]
  BY DEF Setting!Put, IsTree, Setting!Tree
<1> HIDE DEF u
<1>2. ASSUME NEW k \in Setting!Keys
      PROVE  \/ u[k] = t[k]
             \/ k \in Setting!Limits /\ u[k] \in Int
             \/ k = "units" /\ u[k] \in {"F", "C"}
  <2>1. CASE \E c \in p : c[1] = k
    <3> DEFINE c == CHOOSE c \in p : c[1] = k
    <3>1. c \in p /\ c[1] = k
      BY <2>1
    <3>2. u[k] = c[2]
      BY <1>1, <2>1
    <3> HIDE DEF c
    <3>3. c \in (Setting!Limits \X Int) \cup ({"units"} \X {"F", "C"})
      BY <3>1, SettingsAssumption
    <3> QED
      BY <3>1, <3>2, <3>3
  <2>2. CASE ~ \E c \in p : c[1] = k
    BY <1>1, <2>2
  <2> QED
    BY <2>1, <2>2
<1>3. u = [k \in Setting!Keys |-> u[k]]
  BY <1>1
<1>4. \A k \in {"is", "ver", "rules", "offered"} : u[k] = t[k]
  BY <1>2 DEF Setting!Keys, Setting!Limits
<1>5. u.units \in {"F", "C"} /\ \A k \in Setting!Limits : u[k] \in Int
  BY <1>2 DEF IsTree, Setting!Tree, Setting!Keys, Setting!Limits
<1>6. IsTree(u) /\ u.ver = t.ver
  BY <1>3, <1>4, <1>5 DEF IsTree, Setting!Tree
<1> QED
  BY <1>6 DEF u

LEMMA FileTypes == \A f \in Found \cup Backups : IsTree(f) \/ f \in {Setting!NoFile, Setting!Junk}
  BY SettingsAssumption DEF IsTree

LEMMA SettingsTypesInit == Setting!Init => SettingsTypeOK
BY FileTypes DEF Setting!Init, SettingsTypeOK

LEMMA SettingsTypesStep ==
  ASSUME SettingsTypeOK, [Setting!Next]_(Setting!svars) PROVE SettingsTypeOK'
<1>3. Setting!Is(mem) => IsTree(mem)
  BY TreeOrNot DEF SettingsTypeOK
<1>4. ASSUME IsTree(mem'), Setting!Save(mem') \/ UNCHANGED disk, settings_pending' \in {"none", "F", "C"}
      PROVE  SettingsTypeOK'
  BY <1>4 DEF SettingsTypeOK, Setting!Save
<1>5. CASE Setting!Boot
  <2>1. IsTree(Setting!Taken(disk))
    BY TakenIs, DefaultIs, TreeOrNot DEF SettingsTypeOK, Setting!Taken
  <2>2. IsTree(mem')
    BY <1>5, <2>1, RepairKeeps DEF Setting!Boot, Setting!Booted
  <2> QED
    BY <1>4, <1>5, <2>2 DEF Setting!Boot, SettingsTypeOK
<1>6. CASE Setting!SetUnits
  <2> DEFINE u == settings_pending
             conv(v) == IF u = "C" THEN Setting!ToC(v) ELSE Setting!ToF(v)
             diff(v) == IF u = "C" THEN Setting!DiffToC(v) ELSE Setting!DiffToF(v)
  <2>1. IsTree(mem) /\ u \in {"F", "C"} /\ settings_pending' = "none" /\ Setting!Save(mem')
    BY <1>3, <1>6 DEF Setting!SetUnits, SettingsTypeOK
  <2>2. \/ mem' = mem
        \/ mem' = [mem EXCEPT !.units = u, !.max = conv(mem.max), !.tmax = conv(mem.tmax),
                              !.tmin = conv(mem.tmin), !.drop = diff(mem.drop)]
    BY <1>6 DEF Setting!SetUnits
  <2>3. /\ mem.max \in Int /\ mem.tmax \in Int /\ mem.tmin \in Int /\ mem.drop \in Int
    BY <2>1 DEF IsTree, Setting!Tree, Setting!Limits
  <2>4. /\ conv(mem.max) \in Int /\ conv(mem.tmax) \in Int /\ conv(mem.tmin) \in Int
        /\ diff(mem.drop) \in Int
    BY <2>3 DEF Setting!ToC, Setting!ToF, Setting!DiffToC, Setting!DiffToF
  <2> HIDE DEF conv, diff
  <2>5. IsTree(mem')
    BY <2>1, <2>2, <2>4 DEF IsTree, Setting!Tree, Setting!Keys, Setting!Limits
  <2> QED
    BY <1>4, <2>1, <2>5
<1>7. CASE Setting!Stop
  BY <1>7 DEF Setting!Stop, SettingsTypeOK
<1>8. ASSUME NEW p \in Patches, Setting!Patch(p) \/ Setting!PatchUnits(p) PROVE SettingsTypeOK'
  <2> DEFINE trial == Setting!Put(mem, p)
  <2>1. /\ IsTree(mem)
        /\ \/ mem' = trial /\ Setting!Save(mem') /\ UNCHANGED settings_pending
           \/ /\ mem' = [trial EXCEPT !.units = mem.units] /\ UNCHANGED disk
              /\ settings_pending' = trial.units
    BY <1>3, <1>8 DEF Setting!Patch, Setting!PatchUnits, Setting!Accepted
  <2>2. IsTree(trial)
    BY <2>1, PutIs
  <2> HIDE DEF trial
  <2>3. [trial EXCEPT !.units = mem.units].units = mem.units /\ IsTree([trial EXCEPT !.units = mem.units])
    BY <2>1, <2>2 DEF IsTree, Setting!Tree, Setting!Keys, Setting!Limits
  <2>4. trial.units \in {"F", "C"}
    BY <2>2 DEF IsTree, Setting!Tree
  <2> QED
    BY <1>4, <2>1, <2>2, <2>3, <2>4 DEF SettingsTypeOK
<1>9. ASSUME NEW id \in Setting!RuleIds, NEW rule \in Setting!Rule, Setting!EditRule(id, rule)
      PROVE  SettingsTypeOK'
  <2>1. IsTree(mem) /\ mem' = [mem EXCEPT !.rules[id] = rule] /\ Setting!Save(mem') /\ UNCHANGED settings_pending
    BY <1>3, <1>9 DEF Setting!EditRule
  <2>2. [mem.rules EXCEPT ![id] = rule] \in [Setting!RuleIds -> Setting!Rule]
    BY <2>1 DEF IsTree, Setting!Tree
  <2>3. IsTree(mem')
    BY <2>1, <2>2, NewRules
  <2> QED
    BY <1>4, <2>1, <2>3 DEF SettingsTypeOK
<1>10. ASSUME NEW f \in Found \cup Backups, Setting!HandEdit(f) PROVE SettingsTypeOK'
  BY <1>10, FileTypes DEF Setting!HandEdit, SettingsTypeOK
<1>11. CASE UNCHANGED Setting!svars
  BY <1>11 DEF Setting!svars, SettingsTypeOK
<1>12. Setting!Absent \in Setting!Rule /\ [words |-> "mine", guard |-> TRUE] \in Setting!Rule
  BY DEF Setting!Absent, Setting!Rule
<1>13. \A f \in Backups : Setting!Restore(f) => Setting!HandEdit(f)
  BY DEF Setting!Restore
<1> QED
  BY <1>5, <1>6, <1>7, <1>8, <1>9, <1>10, <1>11, <1>12, <1>13 DEF Setting!Next

\* A tree that may run is one the next start can mend, so the file is safe whether or not it is saved
LEMMA SavedInv ==
  ASSUME SettingsInv, IsTree(mem'), Setting!Valid(mem'), mem'.ver = Setting!Now, Setting!Save(mem'),
         settings_pending' \in {"none", "F", "C"}
  PROVE  SettingsInv'
<1>1. disk' = mem' \/ disk' = disk
  BY DEF Setting!Save
<1> QED
  BY <1>1, CurrentIsMendable DEF SettingsInv, SettingsTypeOK, RunsSafely, StartsSafely

LEMMA SettingsInit == MendableFiles /\ Setting!Init => SettingsInv
  BY FileMends, TreeOrNot DEF Setting!Init, SettingsInv, SettingsTypeOK, RunsSafely, StartsSafely

LEMMA SettingsStep ==
  ASSUME MendableFiles, UnitsAlone
  PROVE  SettingsInv /\ ConvertsWide /\ [Setting!Next]_(Setting!svars) => SettingsInv'
<1> SUFFICES ASSUME SettingsInv, ConvertsWide, [Setting!Next]_(Setting!svars) PROVE SettingsInv'
  OBVIOUS
<1>0. /\ IsTree(disk) \/ disk \in {Setting!NoFile, Setting!Junk}
      /\ IsTree(mem) \/ mem = Setting!Down
      /\ settings_pending \in {"none", "F", "C"}
  BY DEF SettingsInv, SettingsTypeOK
<1>1. Setting!Is(mem) => IsTree(mem) /\ Setting!Valid(mem) /\ mem.ver = Setting!Now
  BY <1>0, TreeOrNot DEF SettingsInv, RunsSafely
<1>2. CASE Setting!Boot
  <2>1. mem' = Setting!Repair(Setting!Taken(disk)) /\ Setting!Save(mem') /\ UNCHANGED settings_pending
    BY <1>2 DEF Setting!Boot, Setting!Booted
  <2>2. IsTree(Setting!Taken(disk)) /\ Setting!Mendable(Setting!Taken(disk))
    BY DEF SettingsInv, StartsSafely
  <2>3. Setting!Taken(disk).ver = Setting!Now
    BY <1>0, TakenIs, DefaultIs, TreeOrNot DEF Setting!Taken
  <2>4. IsTree(mem') /\ Setting!Valid(mem') /\ mem'.ver = Setting!Now
    BY <2>1, <2>2, <2>3, RepairMends, RepairKeeps DEF IsTree
  <2> QED
    BY <1>0, <2>1, <2>4, SavedInv
<1>3. CASE Setting!SetUnits
  <2>1. IsTree(mem) /\ Setting!Valid(mem) /\ mem.ver = Setting!Now /\ settings_pending \in {"F", "C"}
    BY <1>0, <1>1, <1>3 DEF Setting!SetUnits
  <2>2. Setting!Save(mem') /\ settings_pending' = "none"
    BY <1>3 DEF Setting!SetUnits
  <2>3. CASE mem.units = settings_pending
    <3>1. mem' = mem
      BY <1>3, <2>3 DEF Setting!SetUnits
    <3> QED
      BY <2>1, <2>2, <3>1, SavedInv
  <2>4. CASE mem.units # settings_pending
    <3> DEFINE u == settings_pending
               conv(v) == IF u = "C" THEN Setting!ToC(v) ELSE Setting!ToF(v)
               diff(v) == IF u = "C" THEN Setting!DiffToC(v) ELSE Setting!DiffToF(v)
    <3>1. mem' = [mem EXCEPT !.units = u, !.max = conv(mem.max), !.tmax = conv(mem.tmax),
                             !.tmin = conv(mem.tmin), !.drop = diff(mem.drop)]
      BY <1>3, <2>4 DEF Setting!SetUnits
    <3>2. /\ mem.max \in Int /\ mem.tmax \in Int /\ mem.tmin \in Int /\ mem.drop \in Int
      BY <2>1 DEF IsTree, Setting!Tree, Setting!Limits
    <3>3. /\ conv(mem.max) \in Int /\ conv(mem.tmax) \in Int /\ conv(mem.tmin) \in Int
          /\ diff(mem.drop) \in Int
      BY <3>2 DEF Setting!ToC, Setting!ToF, Setting!DiffToC, Setting!DiffToF
    <3> HIDE DEF conv, diff
    <3>4. /\ IsTree(mem') /\ mem'.units = u /\ mem'.ver = mem.ver /\ mem'.cycle = mem.cycle
          /\ mem'.auger = mem.auger /\ mem'.igniter = mem.igniter
          /\ mem'.max = conv(mem.max) /\ mem'.tmax = conv(mem.tmax) /\ mem'.tmin = conv(mem.tmin)
          /\ mem'.drop = diff(mem.drop)
      BY <2>1, <3>1, <3>3 DEF IsTree, Setting!Tree, Setting!Keys, Setting!Limits
    <3>5. mem.units \in {"F", "C"}
      BY <2>1 DEF IsTree, Setting!Tree
    <3>6. mem.units = "F" => NotNarrow(mem)
      BY <2>1, <2>4, TreeOrNot DEF ConvertsWide
    <3>7. Setting!Valid(mem')
      <4>1. u = "C" => /\ mem'.max = Setting!ToC(mem.max) /\ mem'.tmax = Setting!ToC(mem.tmax)
                       /\ mem'.tmin = Setting!ToC(mem.tmin) /\ mem'.drop = Setting!DiffToC(mem.drop)
        BY <3>4 DEF conv, diff
      <4>2. u = "F" => /\ mem'.max = Setting!ToF(mem.max) /\ mem'.tmax = Setting!ToF(mem.tmax)
                       /\ mem'.tmin = Setting!ToF(mem.tmin) /\ mem'.drop = Setting!DiffToF(mem.drop)
        BY <3>4 DEF conv, diff
      <4> QED
        BY <2>1, <2>4, <3>4, <3>5, <3>6, <4>1, <4>2, ConvertedIsValid
    <3> QED
      BY <2>1, <2>2, <3>4, <3>7, SavedInv
  <2> QED
    BY <2>3, <2>4
<1>4. CASE Setting!Stop
  BY <1>4, TreeOrNot DEF Setting!Stop, SettingsInv, SettingsTypeOK, RunsSafely, StartsSafely
<1>5. ASSUME NEW p \in Patches, Setting!Patch(p) PROVE SettingsInv'
  <2>1. IsTree(mem) /\ mem.ver = Setting!Now
    BY <1>1, <1>5 DEF Setting!Patch, Setting!Accepted
  <2>2. /\ mem' = Setting!Put(mem, p) /\ Setting!Valid(mem') /\ Setting!Save(mem')
        /\ UNCHANGED settings_pending
    BY <1>5 DEF Setting!Patch, Setting!Accepted
  <2> QED
    BY <1>0, <2>1, <2>2, PutIs, SavedInv
<1>6. ASSUME NEW p \in Patches, Setting!PatchUnits(p) PROVE SettingsInv'
  <2> DEFINE trial == Setting!Put(mem, p)
  <2>1. /\ IsTree(mem) /\ trial.units # mem.units /\ UNCHANGED disk
        /\ mem' = [trial EXCEPT !.units = mem.units] /\ settings_pending' = trial.units
    BY <1>1, <1>6 DEF Setting!PatchUnits, Setting!Accepted
  <2>2. IsTree(trial)
    BY <2>1, PutIs
  <2>3. trial = [k \in Setting!Keys |-> IF \E c \in p : c[1] = k THEN (CHOOSE c \in p : c[1] = k)[2] ELSE mem[k]]
    BY <2>1 DEF Setting!Put, IsTree, Setting!Tree
  <2>4. \E c \in p : c[1] = "units"
    BY <2>1, <2>3 DEF Setting!Keys
  <2>5. \A c \in p : c[1] = "units"
    BY <2>4 DEF UnitsAlone
  <2>6. \A k \in Setting!Keys : k # "units" => trial[k] = mem[k]
    BY <2>3, <2>5
  <2> HIDE DEF trial
  <2>7. mem' = mem
    BY <2>1, <2>2, <2>6 DEF IsTree, Setting!Tree
  <2>8. settings_pending' \in {"F", "C"}
    BY <2>1, <2>2 DEF IsTree, Setting!Tree
  <2> QED
    BY <2>1, <2>7, <2>8 DEF SettingsInv, SettingsTypeOK, RunsSafely, StartsSafely
<1>7. ASSUME NEW id \in Setting!RuleIds, NEW rule \in Setting!Rule, Setting!EditRule(id, rule)
      PROVE  SettingsInv'
  <2>1. /\ IsTree(mem) /\ mem.ver = Setting!Now /\ mem' = [mem EXCEPT !.rules[id] = rule]
        /\ Setting!Valid(mem') /\ Setting!Save(mem') /\ UNCHANGED settings_pending
    BY <1>1, <1>7 DEF Setting!EditRule
  <2>2. [mem.rules EXCEPT ![id] = rule] \in [Setting!RuleIds -> Setting!Rule]
    BY <2>1 DEF IsTree, Setting!Tree
  <2>3. IsTree(mem')
    BY <2>1, <2>2, NewRules
  <2>4. mem'.ver = mem.ver
    BY <2>1 DEF IsTree, Setting!Tree, Setting!Keys
  <2> QED
    BY <1>0, <2>1, <2>3, <2>4, SavedInv
<1>8. ASSUME NEW f \in Found \cup Backups, Setting!HandEdit(f) PROVE SettingsInv'
  BY <1>8, FileMends DEF Setting!HandEdit, SettingsInv, SettingsTypeOK, RunsSafely, StartsSafely
<1>9. CASE UNCHANGED Setting!svars
  BY <1>9 DEF Setting!svars, SettingsInv, SettingsTypeOK, RunsSafely, StartsSafely
<1>10. Setting!Absent \in Setting!Rule /\ [words |-> "mine", guard |-> TRUE] \in Setting!Rule
  BY DEF Setting!Absent, Setting!Rule
<1>11. \A f \in Backups : Setting!Restore(f) => Setting!HandEdit(f)
  BY DEF Setting!Restore
<1> QED
  BY <1>2, <1>3, <1>4, <1>5, <1>6, <1>7, <1>8, <1>9, <1>10, <1>11 DEF Setting!Next

(* A step of the sum that is one of Settings is a step of Settings. *)
LEMMA SettingsPart == which = "settings" /\ [SumNext]_sumVars => [Setting!Next]_(Setting!svars)
  BY DEF SumNext, Others, sumVars, settingsVars, Setting!svars

(* For any files, backups and patches: no tree that runs the grill is outside the limits, whatever *)
(* is found, mended, patched, converted and rounded, saved or lost (pf_settings_init, validate), on *)
(* three conditions the code does not see to: that the files can be mended, that the units are      *)
(* changed by themselves, and that the limits are not one degree apart when they are.               *)
THEOREM LimitsStay ==
  ASSUME MendableFiles, UnitsAlone
  PROVE  SumSpec /\ [](which = "settings" => ConvertsWide) => []SettingsAreSafe
<1> DEFINE Inv == which = "settings" => SettingsInv
           Wide == which = "settings" => ConvertsWide
<1>1. SumInit => Inv
  BY SettingsInit DEF SumInit
<1>2. Inv /\ Wide /\ [SumNext]_sumVars => Inv'
  BY SettingsStep, SettingsPart, SameComponent
<1>3. Inv => SettingsAreSafe
  BY ValidIs DEF SettingsInv, RunsSafely, SettingsAreSafe, Setting!LimitsHold
<1> QED
  BY <1>1, <1>2, <1>3, PTL DEF SumSpec

(* Whatever file it is, by whatever build, and whether or not the last start saved what it made of *)
(* it: a start keeps the rules the user deleted and those they reworded (adopt_builtin_rules).      *)
THEOREM TheirsStayTheirs == SumSpec => RulesStayTheirs
<1> DEFINE Inv == which = "settings" => SettingsTypeOK
           Kept == which = "settings" => Setting!StartKeepsTheirs
<1>1. SumInit => Inv
  BY SettingsTypesInit DEF SumInit
<1>2. Inv /\ [SumNext]_sumVars => Inv'
  BY SettingsTypesStep, SettingsPart, SameComponent
<1>3. Inv /\ [SumNext]_sumVars => [Kept]_sumVars
  <2> SUFFICES ASSUME which = "settings", SettingsTypeOK, [Setting!Next]_(Setting!svars),
                      mem = Setting!Down, Setting!Is(mem'), Setting!Is(disk)
               PROVE  /\ \A id \in disk.offered : disk.rules[id] = Setting!Absent => mem'.rules[id] = Setting!Absent
                      /\ \A id \in Setting!RuleIds \ {"grill-over"} :
                           disk.rules[id].words = "mine" /\ disk.rules[id].guard => mem'.rules[id].words = "mine"
    BY SettingsPart DEF Setting!StartKeepsTheirs
  <2>1. mem' # mem /\ ~Setting!Is(mem)
    BY TreeOrNot
  <2>2. Setting!Boot
    <3>1. ~Setting!SetUnits /\ ~Setting!Stop
      BY <2>1 DEF Setting!SetUnits, Setting!Stop
    <3>2. \A p \in Patches : ~Setting!Patch(p) /\ ~Setting!PatchUnits(p)
      BY <2>1 DEF Setting!Patch, Setting!PatchUnits, Setting!Accepted
    <3>3. \A id, rule : ~Setting!EditRule(id, rule)
      BY <2>1 DEF Setting!EditRule
    <3>4. \A f : ~Setting!HandEdit(f) /\ ~Setting!Restore(f)
      BY <2>1 DEF Setting!HandEdit, Setting!Restore
    <3>5. ~ UNCHANGED Setting!svars
      BY <2>1 DEF Setting!svars
    <3> QED
      BY <3>1, <3>2, <3>3, <3>4, <3>5 DEF Setting!Next
  <2>3. IsTree(disk) /\ mem' = Setting!Booted(disk)
    BY <2>2, TreeOrNot DEF Setting!Boot, SettingsTypeOK
  <2> QED
    BY <2>3, BootKeepsTheirs
<1> QED
  BY <1>1, <1>2, <1>3, PTL DEF SumSpec, RulesStayTheirs

-----------------------------------------------------------------------------
(* Panel. A dialog opens on its way out and is never under another screen, so the one that shows  *)
(* stands on its action only if the knob was turned since it came up.                              *)

\* A stack of screens, of which only the top may be a dialog
IsScreen(s) == {"at", "focus"} \subseteq DOMAIN s /\ s.at # "main"
IsStack(s) ==
  /\ \E S : s \in Seq(S)
  /\ \A i \in 1..Len(s) : IsScreen(s[i])
  /\ \A i \in 1..Len(s) : i < Len(s) => s[i].at # "confirm"
\* No dialog on top stands on its action
Unanswered(s) == s # <<>> => ~(s[Len(s)].at = "confirm" /\ s[Len(s)].focus = 1)

PanelInv == IsStack(nav) /\ turned \in BOOLEAN /\ (turned \/ Unanswered(nav))

LEMMA NewScreen ==
  /\ \A x : /\ x # "main" => IsScreen(Paneling!Screen(x))
            /\ Paneling!Screen(x).at = x
  /\ \A l : IsScreen(Paneling!List(l)) /\ Paneling!List(l).at = "list"
  /\ \A a : IsScreen(Paneling!Selector(a)) /\ Paneling!Selector(a).at = "temp"
  /\ \A a : IsScreen(Paneling!Dialog(a)) /\ Paneling!Dialog(a).focus # 1
  /\ IsScreen(Paneling!Message) /\ Paneling!Message.at = "message"
  BY DEF Paneling!Screen, Paneling!List, Paneling!Selector, Paneling!Dialog, Paneling!Message, IsScreen

\* What is left when the screen on top is put away
LEMMA ShorterStack ==
  ASSUME NEW s, IsStack(s), NEW n \in Nat, n < Len(s)
  PROVE  IsStack(SubSeq(s, 1, n)) /\ Unanswered(SubSeq(s, 1, n))
         /\ \A i \in 1..Len(SubSeq(s, 1, n)) : SubSeq(s, 1, n)[i].at # "confirm"
<1> DEFINE u == SubSeq(s, 1, n)
<1>1. PICK S : s \in Seq(S)
  BY DEF IsStack
<1>2. Len(s) \in Nat
  BY <1>1
<1>3. u \in Seq(S) /\ Len(u) < Len(s) /\ Len(u) \in Nat /\ \A i \in 1..Len(u) : u[i] = s[i]
  <2>1. CASE n = 0
    <3>1. u = <<>>
      BY <1>1, <1>2, <2>1
    <3>2. u \in Seq(S) /\ Len(u) = 0
      BY <3>1
    <3> HIDE DEF u
    <3> QED
      BY <1>2, <3>2
  <2>2. CASE n >= 1
    <3>1. n \in 1..Len(s)
      BY <1>2, <2>2
    <3>2. u \in Seq(S) /\ Len(u) = n /\ \A i \in 1..n : u[i] = s[i]
      BY <1>1, <1>2, <3>1
    <3> QED
      BY <2>2, <3>1, <3>2
  <2> QED
    BY <2>1, <2>2
<1> HIDE DEF u
<1>4. \A i \in 1..Len(u) : u[i].at # "confirm" /\ IsScreen(u[i])
  BY <1>2, <1>3 DEF IsStack
<1>5. u # <<>> => Len(u) \in 1..Len(u)
  BY <1>3
<1> QED
  BY <1>3, <1>4, <1>5 DEF IsStack, Unanswered, u

\* A screen that is opened on a stack without a dialog
LEMMA LongerStack ==
  ASSUME NEW s, IsStack(s), \A i \in 1..Len(s) : s[i].at # "confirm",
         NEW x, IsScreen(x), x.at = "confirm" => x.focus # 1
  PROVE  IsStack(Append(s, x)) /\ Unanswered(Append(s, x))
<1> DEFINE u == Append(s, x)
<1>1. PICK S : s \in Seq(S)
  BY DEF IsStack
<1>2. s \in Seq(S \cup {x}) /\ x \in S \cup {x}
  BY <1>1
<1>3. /\ u \in Seq(S \cup {x}) /\ Len(s) \in Nat /\ Len(u) = Len(s) + 1 /\ u[Len(u)] = x
      /\ \A i \in 1..Len(s) : u[i] = s[i]
  BY <1>2
<1> HIDE DEF u
<1>4. \A i \in 1..Len(u) : i \in 1..Len(s) \/ i = Len(u)
  BY <1>3
<1>5. /\ \A i \in 1..Len(u) : IsScreen(u[i])
      /\ \A i \in 1..Len(u) : i < Len(u) => u[i].at # "confirm"
  BY <1>3, <1>4 DEF IsStack
<1> QED
  BY <1>3, <1>5 DEF IsStack, Unanswered, u

LEMMA PushedStack ==
  ASSUME PanelAssumption,
         NEW s, IsStack(s), \A i \in 1..Len(s) : s[i].at # "confirm",
         NEW x, IsScreen(x), x.at = "confirm" => x.focus # 1
  PROVE  IsStack(Paneling!Pushed(s, x)) /\ Unanswered(Paneling!Pushed(s, x))
<1>1. Len(s) \in Nat
  BY DEF IsStack
<1>2. CASE Len(s) >= NavMax
  <2>1. NavMax - 1 \in Nat /\ NavMax - 1 < Len(s)
    BY <1>1, <1>2 DEF PanelAssumption
  <2> QED
    BY <1>2, <2>1, ShorterStack, LongerStack DEF Paneling!Pushed
<1>3. CASE ~(Len(s) >= NavMax)
  BY <1>3, LongerStack DEF Paneling!Pushed
<1> QED
  BY <1>2, <1>3

LEMMA EmptyStack == IsStack(<<>>) /\ Unanswered(<<>>)
  BY DEF IsStack, Unanswered

LEMMA AloneOK ==
  ASSUME NEW x, IsScreen(x), x.at # "confirm" PROVE IsStack(<<x>>) /\ Unanswered(<<x>>)
<1> DEFINE u == <<x>>
<1>1. u \in Seq({x}) /\ Len(u) = 1 /\ u[1] = x
  OBVIOUS
<1> HIDE DEF u
<1>2. \A i \in 1..Len(u) : i = 1
  BY <1>1
<1> QED
  BY <1>1, <1>2 DEF IsStack, Unanswered

LEMMA MessageAlone == IsStack(<<Paneling!Message>>) /\ Unanswered(<<Paneling!Message>>)
  BY NewScreen, AloneOK

\* The screen on top is replaced by another
LEMMA ChangedStack ==
  ASSUME NEW s, IsStack(s), s # <<>>, NEW x, IsScreen(x)
  PROVE  LET u == [s EXCEPT ![Len(s)] = x] IN
         IsStack(u) /\ u # <<>> /\ Len(u) = Len(s) /\ u[Len(u)] = x
<1> DEFINE u == [s EXCEPT ![Len(s)] = x]
<1>1. PICK S : s \in Seq(S)
  BY DEF IsStack
<1>2. s \in Seq(S \cup {x}) /\ x \in S \cup {x} /\ Len(s) \in Nat /\ Len(s) \in 1..Len(s)
  BY <1>1
<1>3. /\ u \in Seq(S \cup {x}) /\ Len(u) = Len(s) /\ u[Len(u)] = x
      /\ \A i \in 1..Len(u) : i # Len(u) => u[i] = s[i]
  BY <1>2
<1> HIDE DEF u
<1>4. u # <<>>
  BY <1>2, <1>3
<1>5. \A i \in 1..Len(u) : IsScreen(u[i]) /\ (i < Len(u) => u[i].at # "confirm")
  BY <1>2, <1>3 DEF IsStack
<1>6. IsStack(u)
  BY <1>3, <1>5 DEF IsStack
<1> QED
  BY <1>3, <1>4, <1>6 DEF u

\* What an action may do to the stack, and ask of the rest of the daemon
Shown == UNCHANGED nav \/ (IsStack(nav') /\ Unanswered(nav'))
Harmless == sent' \cap Paneling!Dangerous = {}

LEMMA NoDialog ==
  ASSUME IsStack(nav), Paneling!At # "confirm"
  PROVE  \A i \in 1..Len(nav) : nav[i].at # "confirm"
<1>1. Len(nav) \in Nat /\ (nav = <<>> => Len(nav) = 0)
  BY DEF IsStack
<1>2. \A i \in 1..Len(nav) : i < Len(nav) \/ (i = Len(nav) /\ nav # <<>>)
  BY <1>1
<1> QED
  BY <1>2 DEF IsStack, Paneling!At, Paneling!Top

LEMMA PoppedStack ==
  ASSUME NEW s, IsStack(s), s # <<>>
  PROVE  LET u == SubSeq(s, 1, Len(s) - 1) IN
         IsStack(u) /\ Unanswered(u) /\ \A i \in 1..Len(u) : u[i].at # "confirm"
<1>1. Len(s) \in Nat /\ Len(s) # 0
  BY DEF IsStack
<1>2. Len(s) - 1 \in Nat /\ Len(s) - 1 < Len(s)
  BY <1>1
<1> QED
  BY <1>2, ShorterStack

\* A row that is pressed asks for nothing that a dialog asks about, and opens no dialog on its action
LEMMA RowPressed ==
  ASSUME NEW s, IsStack(s), \A i \in 1..Len(s) : s[i].at # "confirm",
         NEW row, Paneling!Do(s, row),
         row.act = "back" => s # <<>>, row.act = "bt scan" => s = nav
  PROVE  Shown /\ Harmless
<1> USE PanelAssumption
<1>1. ASSUME NEW x, IsScreen(x), x.at = "confirm" => x.focus # 1, Paneling!Opens(s, x)
      PROVE  Shown /\ Harmless
  BY <1>1, PushedStack DEF Paneling!Opens, Shown, Harmless
<1>2. ASSUME NEW w, w \cap Paneling!Dangerous = {}, Paneling!Says(w) \/ Paneling!Asks(w)
      PROVE  Shown /\ Harmless
  BY <1>2, EmptyStack, MessageAlone DEF Paneling!Says, Paneling!Asks, Shown, Harmless
<1>3. CASE row.act = "back"
  <2>1. nav' = SubSeq(s, 1, Len(s) - 1) /\ sent' = {}
    BY <1>3 DEF Paneling!Do, Paneling!AtOnce, Paneling!Selects, Paneling!Confirms
  <2> QED
    BY <1>3, <2>1, PoppedStack DEF Shown, Harmless
<1>4. CASE row.act \in {"list", "netinfo", "margins", "manual", "probe", "probe pick", "meat"}
  <2>1. \/ \E l : Paneling!Opens(s, Paneling!List(l))
        \/ \E x \in {"netinfo", "margins", "manual"} : Paneling!Opens(s, Paneling!Screen(x))
    BY <1>4 DEF Paneling!Do, Paneling!AtOnce, Paneling!Selects, Paneling!Confirms
  <2>2. CASE \E l : Paneling!Opens(s, Paneling!List(l))
    BY <1>1, <2>2, NewScreen
  <2>3. CASE \E x \in {"netinfo", "margins", "manual"} : Paneling!Opens(s, Paneling!Screen(x))
    BY <1>1, <2>3, NewScreen
  <2> QED
    BY <2>1, <2>2, <2>3
<1>5. CASE row.act \in {"theme", "colour", "nothing", "bt toggle"}
  <2>1. UNCHANGED nav /\ sent' \in {{}, {"probes"}}
    BY <1>5 DEF Paneling!Do, Paneling!AtOnce, Paneling!Selects, Paneling!Confirms, Paneling!Stays
  <2> QED
    BY <2>1 DEF Shown, Harmless, Paneling!Dangerous
<1>6. CASE row.act \in Paneling!AtOnce
  <2>1. \E a \in Paneling!AtOnce : Paneling!Asks({a})
    BY <1>6 DEF Paneling!Do, Paneling!AtOnce, Paneling!Selects, Paneling!Confirms
  <2>2. \A a \in Paneling!AtOnce : {a} \cap Paneling!Dangerous = {}
    BY DEF Paneling!AtOnce, Paneling!Dangerous
  <2> QED
    BY <1>2, <2>1, <2>2
<1>7. CASE row.act \in Paneling!Selects
  <2>1. Paneling!Opens(s, Paneling!Selector(row.act))
    BY <1>7 DEF Paneling!Do, Paneling!AtOnce, Paneling!Selects, Paneling!Confirms
  <2> QED
    BY <1>1, <2>1, NewScreen
<1>8. CASE row.act \in Paneling!Confirms \cup {"stop grill"}
  <2>1. PICK a : Paneling!Opens(s, Paneling!Dialog(a))
    BY <1>8 DEF Paneling!Do, Paneling!AtOnce, Paneling!Selects, Paneling!Confirms
  <2>2. IsScreen(Paneling!Dialog(a)) /\ Paneling!Dialog(a).focus # 1
    BY NewScreen
  <2> QED
    BY <1>1, <2>1, <2>2
<1>9. CASE row.act \in {"probe clear", "done", "timer cancel"}
  <2>1. Paneling!Says({"target"}) \/ Paneling!Says({"timer cancel"})
    BY <1>9 DEF Paneling!Do, Paneling!AtOnce, Paneling!Selects, Paneling!Confirms
  <2>2. {"target"} \cap Paneling!Dangerous = {} /\ {"timer cancel"} \cap Paneling!Dangerous = {}
    BY DEF Paneling!Dangerous
  <2> QED
    BY <1>2, <2>1, <2>2
<1>10. CASE row.act = "bt scan"
  <2>1. nav' = Paneling!Pushed(nav, Paneling!Screen("scan")) /\ sent' = {"scan"}
    BY <1>10 DEF Paneling!Do, Paneling!AtOnce, Paneling!Selects, Paneling!Confirms, Paneling!ScanBegins
  <2>2. IsScreen(Paneling!Screen("scan")) /\ Paneling!Screen("scan").at = "scan"
    BY NewScreen
  <2> QED
    BY <1>10, <2>1, <2>2, PushedStack DEF Shown, Harmless, Paneling!Dangerous
<1> QED
  BY <1>3, <1>4, <1>5, <1>6, <1>7, <1>8, <1>9, <1>10 DEF Paneling!Do


LEMMA BackPressed ==
  ASSUME IsStack(nav), nav # <<>>, Paneling!Do(nav, Paneling!Row("back"))
  PROVE  Shown /\ Harmless
<1>1. nav' = SubSeq(nav, 1, Len(nav) - 1) /\ sent' = {}
  BY DEF Paneling!Do, Paneling!Row, Paneling!AtOnce, Paneling!Selects, Paneling!Confirms
<1> QED
  BY <1>1, PoppedStack DEF Shown, Harmless

\* The screen on top, if it is no dialog, after something of its own has changed
LEMMA SameScreen ==
  ASSUME IsStack(nav), nav # <<>>, NEW x, IsScreen(x), x.at = nav[Len(nav)].at
  PROVE  IsStack(Paneling!With(x))
         /\ (x.at # "confirm" \/ x.focus # 1 => Unanswered(Paneling!With(x)))
  BY ChangedStack DEF Paneling!With, Unanswered

LEMMA TopIsScreen ==
  ASSUME IsStack(nav), nav # <<>>
  PROVE  IsScreen(Paneling!Top) /\ Paneling!Top = nav[Len(nav)] /\ Paneling!At = Paneling!Top.at
<1>1. Len(nav) \in 1..Len(nav)
  BY DEF IsStack
<1> QED
  BY <1>1 DEF IsStack, Paneling!Top, Paneling!At

LEMMA OpensShown ==
  ASSUME IsStack(nav), Paneling!At # "confirm",
         NEW x, IsScreen(x), x.at = "confirm" => x.focus # 1, Paneling!Opens(nav, x)
  PROVE  Shown /\ Harmless
  BY NoDialog, PushedStack, PanelAssumption DEF Paneling!Opens, Shown, Harmless

LEMMA SaysShown ==
  ASSUME NEW w, Paneling!Says(w) \/ Paneling!Asks(w)
  PROVE  Shown /\ sent' = w
  BY EmptyStack, MessageAlone DEF Paneling!Says, Paneling!Asks, Shown

LEMMA MainPress ==
  ASSUME IsStack(nav), nav = <<>>, Paneling!MainPressed
  PROVE  Shown /\ Harmless
<1>1. Paneling!At # "confirm"
  BY DEF Paneling!At
<1>2. \/ UNCHANGED nav /\ sent' = {}
      \/ \E l : Paneling!Opens(nav, Paneling!List(l))
      \/ \E a : Paneling!Opens(nav, Paneling!Selector(a))
  BY DEF Paneling!MainPressed, Paneling!Stays
<1>3. CASE \E l : Paneling!Opens(nav, Paneling!List(l))
  BY <1>1, <1>3, OpensShown, NewScreen
<1>4. CASE \E a : Paneling!Opens(nav, Paneling!Selector(a))
  BY <1>1, <1>4, OpensShown, NewScreen
<1> QED
  BY <1>2, <1>3, <1>4 DEF Shown, Harmless

LEMMA TempPress ==
  ASSUME IsStack(nav), nav # <<>>, Paneling!At = "temp", Paneling!TempPressed
  PROVE  Shown /\ Harmless
<1> DEFINE t == Paneling!Top
<1>1. IsScreen(t) /\ t = nav[Len(nav)] /\ t.at = "temp"
  BY TopIsScreen
<1>2. /\ IsScreen([t EXCEPT !.editing = FALSE, !.focus = 1])
      /\ [t EXCEPT !.editing = FALSE, !.focus = 1].at = "temp"
      /\ IsScreen([t EXCEPT !.editing = TRUE]) /\ [t EXCEPT !.editing = TRUE].at = "temp"
  BY <1>1 DEF IsScreen
<1>3. \/ /\ nav' = Paneling!With([t EXCEPT !.editing = FALSE, !.focus = 1]) /\ sent' = {}
      \/ /\ nav' = Paneling!With([t EXCEPT !.editing = TRUE]) /\ sent' = {}
      \/ Paneling!Do(nav, Paneling!Row("back"))
      \/ \E w \in {{"hold"}, {"setpoint"}, {"target"}, {"timer"}, {"settings"}, {}} :
            Paneling!Asks(w) \/ Paneling!Says(w)
  BY DEF Paneling!TempPressed
<1>4. CASE \/ /\ nav' = Paneling!With([t EXCEPT !.editing = FALSE, !.focus = 1]) /\ sent' = {}
           \/ /\ nav' = Paneling!With([t EXCEPT !.editing = TRUE]) /\ sent' = {}
  BY <1>1, <1>2, <1>4, SameScreen DEF Shown, Harmless
<1>5. CASE Paneling!Do(nav, Paneling!Row("back"))
  BY <1>5, BackPressed
<1>6. CASE \E w \in {{"hold"}, {"setpoint"}, {"target"}, {"timer"}, {"settings"}, {}} :
             Paneling!Asks(w) \/ Paneling!Says(w)
  <2>1. PICK w \in {{"hold"}, {"setpoint"}, {"target"}, {"timer"}, {"settings"}, {}} :
           Paneling!Asks(w) \/ Paneling!Says(w)
    BY <1>6
  <2>2. Shown /\ sent' = w
    BY <2>1, SaysShown
  <2> QED
    BY <2>1, <2>2 DEF Harmless, Paneling!Dangerous
<1> QED
  BY <1>3, <1>4, <1>5, <1>6

\* The one place where what a dialog asks about is done
LEMMA ConfirmPress ==
  ASSUME PanelInv, nav # <<>>, Paneling!At = "confirm", Paneling!ConfirmPressed
  PROVE  Shown /\ (Harmless \/ turned)
<1>1. IsScreen(Paneling!Top) /\ Paneling!Top = nav[Len(nav)] /\ Paneling!Top.at = "confirm"
  BY TopIsScreen DEF PanelInv
<1>2. CASE Paneling!Top.focus = 1
  <2>1. turned /\ Paneling!Yes
    BY <1>1, <1>2 DEF PanelInv, Unanswered, Paneling!ConfirmPressed
  <2>2. CASE \E w : Paneling!Says(w) \/ Paneling!Asks(w)
    BY <2>1, <2>2, SaysShown
  <2>3. CASE \E a \in {"smoke", "stop"} : Paneling!Do(Paneling!Popped, Paneling!Row(a))
    <3>1. PICK a \in {"smoke", "stop"} : Paneling!Do(Paneling!Popped, Paneling!Row(a))
      BY <2>3
    <3>2. /\ IsStack(Paneling!Popped)
          /\ \A i \in 1..Len(Paneling!Popped) : Paneling!Popped[i].at # "confirm"
          /\ Paneling!Row(a).act = a
      BY PoppedStack DEF Paneling!Popped, PanelInv, Paneling!Row
    <3>3. a # "back" /\ a # "bt scan"
      BY <3>1
    <3> QED
      BY <3>1, <3>2, <3>3, RowPressed
  <2> QED
    BY <2>1, <2>2, <2>3 DEF Paneling!Yes
<1>3. CASE Paneling!Top.focus # 1
  BY <1>3, BackPressed DEF Paneling!ConfirmPressed, PanelInv
<1> QED
  BY <1>2, <1>3


LEMMA ScanPress ==
  ASSUME IsStack(nav), nav # <<>>, Paneling!At = "scan", Paneling!ScanPressed
  PROVE  Shown /\ Harmless
<1>1. CASE UNCHANGED nav /\ sent' \in {{}, {"scan"}}
  BY <1>1 DEF Shown, Harmless, Paneling!Dangerous
<1>2. CASE \E a \in {"back", "bt add"} : Paneling!Do(nav, Paneling!Row(a))
  <2>1. PICK a \in {"back", "bt add"} : Paneling!Do(nav, Paneling!Row(a))
    BY <1>2
  <2>2. Paneling!Row(a).act = a /\ a # "bt scan"
    BY <2>1 DEF Paneling!Row
  <2> QED
    BY <2>1, <2>2, NoDialog, RowPressed
<1> QED
  BY <1>1, <1>2 DEF Paneling!ScanPressed, Paneling!Stays

LEMMA OtherPress ==
  ASSUME IsStack(nav), nav # <<>>, Paneling!At # "confirm",
         Paneling!ManualPressed \/ (Paneling!At = "margins" /\ Paneling!MarginsPressed)
  PROVE  Shown /\ Harmless
<1> DEFINE t == Paneling!Top
<1>1. IsScreen(t) /\ t = nav[Len(nav)] /\ Paneling!At = t.at
  BY TopIsScreen
<1>2. IsScreen([t EXCEPT !.editing = ~@]) /\ [t EXCEPT !.editing = ~@].at = t.at
  BY <1>1 DEF IsScreen
<1>3. \/ UNCHANGED nav /\ sent' = {"output"}
      \/ nav' = Paneling!Popped /\ sent' = {"outputs off"}
      \/ nav' = Paneling!With([t EXCEPT !.editing = ~@]) /\ sent' = {}
      \/ Paneling!Do(nav, Paneling!Row("back"))
      \/ Paneling!Says({})
  BY DEF Paneling!ManualPressed, Paneling!MarginsPressed
<1>4. CASE UNCHANGED nav /\ sent' = {"output"}
  BY <1>4 DEF Shown, Harmless, Paneling!Dangerous
<1>5. CASE nav' = Paneling!Popped /\ sent' = {"outputs off"}
  BY <1>5, PoppedStack DEF Paneling!Popped, Shown, Harmless, Paneling!Dangerous
<1>6. CASE nav' = Paneling!With([t EXCEPT !.editing = ~@]) /\ sent' = {}
  BY <1>1, <1>2, <1>6, SameScreen DEF Shown, Harmless
<1>7. CASE Paneling!Do(nav, Paneling!Row("back"))
  BY <1>7, BackPressed
<1>8. CASE Paneling!Says({})
  BY <1>8, SaysShown DEF Harmless
<1> QED
  BY <1>3, <1>4, <1>5, <1>6, <1>7, <1>8

LEMMA ListPress ==
  ASSUME IsStack(nav), nav # <<>>, Paneling!At # "confirm", NEW row, Paneling!Do(nav, row)
  PROVE  Shown /\ Harmless
  BY NoDialog, RowPressed

LEMMA PressedOK == ASSUME PanelInv, Paneling!Pressed PROVE Shown /\ (Harmless \/ turned)
<1>1. IsStack(nav)
  BY DEF PanelInv
<1>2. nav = <<>> <=> Paneling!At = "main"
  <2>1. CASE nav # <<>>
    BY <1>1, <2>1, TopIsScreen DEF IsScreen
  <2> QED
    BY <2>1 DEF Paneling!At
<1>3. CASE Paneling!At = "main"
  BY <1>1, <1>2, <1>3, MainPress DEF Paneling!Pressed
<1>4. CASE Paneling!At = "list"
  <2>1. Paneling!Do(nav, Paneling!Rows(Paneling!Top.list)
                          [(Paneling!Top.index % Len(Paneling!Rows(Paneling!Top.list))) + 1])
    BY <1>4 DEF Paneling!Pressed
  <2> QED
    BY <1>1, <1>2, <1>4, <2>1, ListPress
<1>5. CASE Paneling!At = "temp"
  BY <1>1, <1>2, <1>5, TempPress DEF Paneling!Pressed
<1>6. CASE Paneling!At = "confirm"
  BY <1>2, <1>6, ConfirmPress DEF Paneling!Pressed
<1>7. CASE Paneling!At = "scan"
  BY <1>1, <1>2, <1>7, ScanPress DEF Paneling!Pressed
<1>8. CASE Paneling!At \in {"manual", "margins"}
  BY <1>1, <1>2, <1>8, OtherPress DEF Paneling!Pressed
<1>9. CASE Paneling!At \in {"netinfo", "message"}
  BY <1>1, <1>2, <1>9, BackPressed DEF Paneling!Pressed
<1> QED
  BY <1>3, <1>4, <1>5, <1>6, <1>7, <1>8, <1>9 DEF Paneling!Pressed


LEMMA MovedOK ==
  ASSUME IsStack(nav), NEW dir \in {1, -1} PROVE IsStack(Paneling!Moved(dir))
<1> DEFINE t == Paneling!Top
<1>1. CASE nav = <<>>
  BY <1>1 DEF Paneling!Moved, Paneling!At
<1>2. CASE nav # <<>>
  <2>1. IsScreen(t) /\ t = nav[Len(nav)]
    BY <1>2, TopIsScreen
  <2>2. \A v : /\ IsScreen([t EXCEPT !.index = v]) /\ [t EXCEPT !.index = v].at = t.at
               /\ IsScreen([t EXCEPT !.focus = v]) /\ [t EXCEPT !.focus = v].at = t.at
    BY <2>1 DEF IsScreen
  <2>3. \A v : /\ IsStack(Paneling!With([t EXCEPT !.index = v]))
               /\ IsStack(Paneling!With([t EXCEPT !.focus = v]))
    BY <1>2, <2>1, <2>2, SameScreen
  <2>4. IsStack(Paneling!Popped)
    BY <1>2, PoppedStack DEF Paneling!Popped
  <2>5. \/ Paneling!Moved(dir) = nav \/ Paneling!Moved(dir) = Paneling!Popped
        \/ \E v : Paneling!Moved(dir) = Paneling!With([t EXCEPT !.index = v])
        \/ \E v : Paneling!Moved(dir) = Paneling!With([t EXCEPT !.focus = v])
    BY DEF Paneling!Moved
  <2> QED
    BY <2>3, <2>4, <2>5
<1> QED
  BY <1>1, <1>2

LEMMA RootOpens == IsStack(<<Paneling!List("root")>>) /\ Unanswered(<<Paneling!List("root")>>)
  BY NewScreen, AloneOK

\* Whatever key it is: a turn counts as an answer to come, and a press is done or takes the screen away
LEMMA InputStep ==
  ASSUME PanelInv, NEW key \in Paneling!Turns \cup {"enter", "double"}, Paneling!Input(key)
  PROVE  PanelInv' /\ Paneling!StrayPress
<1>1. turned' = (key \in Paneling!Turns \/ (turned /\ nav' = nav)) /\ IsStack(nav)
  BY DEF Paneling!Input, PanelInv
<1>2. ASSUME Shown, Harmless \/ turned PROVE PanelInv' /\ Paneling!StrayPress
  BY <1>1, <1>2 DEF PanelInv, Shown, Harmless, Paneling!StrayPress, Unanswered, IsStack
<1>3. CASE Paneling!PutsAway
  <2>1. /\ nav' \in {<<>>, nav} /\ sent' \in {{}, {"ack"}}
    BY <1>3 DEF Paneling!PutsAway
  <2> QED
    BY <1>2, <2>1, EmptyStack DEF Shown, Harmless, Paneling!Dangerous
<1>4. CASE Paneling!OpensMenu \/ Paneling!Stays
  BY <1>2, <1>4, RootOpens DEF Paneling!OpensMenu, Paneling!Stays, Shown, Harmless
<1>5. CASE Paneling!Pressed
  BY <1>2, <1>5, PressedOK
<1>6. CASE key \in Paneling!Turns /\ Paneling!Turned(Paneling!Dir(key))
  <2>1. Paneling!Dir(key) \in {1, -1}
    BY DEF Paneling!Dir
  <2>2. IsStack(nav') /\ sent' = {} /\ turned' = TRUE
    BY <1>1, <1>6, <2>1, MovedOK DEF Paneling!Turned
  <2> QED
    BY <2>2 DEF PanelInv, IsStack, Paneling!StrayPress
<1>7. Paneling!PutsAway \/ Paneling!Handles(key)
  BY DEF Paneling!Input
<1> QED
  BY <1>3, <1>4, <1>5, <1>6, <1>7 DEF Paneling!Handles

\* The clock of the display: a scan that ends, a message that grows old, a menu that is left
LEMMA TickOK ==
  ASSUME PanelInv, Paneling!Tick PROVE PanelInv' /\ Paneling!StrayPress
<1>1. nav' \in {<<>>, Paneling!Older(nav), Paneling!Older(Paneling!TopRow(nav))}
  <2>1. Paneling!Older(<<>>) = <<>>
    BY DEF Paneling!Older
  <2>2. \E stack \in {nav, Paneling!TopRow(nav)} :
          \E left \in {stack, <<>>} : nav' \in {<<>>, Paneling!Older(left)}
    BY DEF Paneling!Tick
  <2> QED
    BY <2>1, <2>2
<1>2. sent' \cap Paneling!Dangerous = {} /\ UNCHANGED turned
  BY DEF Paneling!Tick, Paneling!Dangerous
<1>3. IsStack(nav) /\ (turned \/ Unanswered(nav))
  BY DEF PanelInv
<1> DEFINE row == Paneling!TopRow(nav)
<1>4. IsStack(row) /\ (turned \/ Unanswered(row))
  <2>1. CASE nav # <<>>
    <3> DEFINE x == [nav[Len(nav)] EXCEPT !.index = 0]
    <3>1. row = Paneling!With(x)
      BY <2>1 DEF Paneling!TopRow, Paneling!With
    <3>2. IsScreen(nav[Len(nav)])
      BY <1>3, <2>1, TopIsScreen
    <3>3. IsScreen(x) /\ x.at = nav[Len(nav)].at /\ x.focus = nav[Len(nav)].focus
      BY <3>2 DEF IsScreen
    <3> HIDE DEF x, row
    <3> QED
      BY <1>3, <2>1, <3>1, <3>3, SameScreen DEF Unanswered
  <2> QED
    BY <1>3, <2>1 DEF Paneling!TopRow
<1>5. ASSUME NEW s, IsStack(s), turned \/ Unanswered(s)
      PROVE  IsStack(Paneling!Older(s)) /\ (turned \/ Unanswered(Paneling!Older(s)))
  <2>1. CASE s # <<>> /\ s[Len(s)].at = "message"
    <3> DEFINE x == [s[Len(s)] EXCEPT !.over = TRUE]
               u == [s EXCEPT ![Len(s)] = x]
    <3>1. Paneling!Older(s) = u
      BY <2>1 DEF Paneling!Older
    <3>2. IsScreen(s[Len(s)])
      <4>1. Len(s) \in 1..Len(s)
        BY <1>5, <2>1 DEF IsStack
      <4> QED
        BY <1>5, <4>1 DEF IsStack
    <3>3. IsScreen(x) /\ x.at = "message"
      BY <2>1, <3>2 DEF IsScreen
    <3>4. IsStack(u) /\ u[Len(u)] = x
      BY <1>5, <2>1, <3>3, ChangedStack
    <3> HIDE DEF x, u
    <3> QED
      BY <3>1, <3>3, <3>4 DEF Unanswered
  <2> QED
    BY <1>5, <2>1 DEF Paneling!Older
<1> HIDE DEF row
<1>6. IsStack(nav') /\ (turned \/ Unanswered(nav'))
  BY <1>1, <1>3, <1>4, <1>5, EmptyStack DEF row
<1> QED
  BY <1>2, <1>6 DEF PanelInv, IsStack, Unanswered, Paneling!StrayPress

LEMMA PanelStep == ASSUME PanelInv, Paneling!Next PROVE PanelInv' /\ Paneling!StrayPress
<1>1. CASE Paneling!Turn \/ Paneling!ClickOver
  BY <1>1, InputStep DEF Paneling!Turn, Paneling!ClickOver
<1>2. CASE Paneling!Press
  <2>1. \/ \E key \in {"enter", "double"} : Paneling!Input(key)
        \/ UNCHANGED <<nav, turned>> /\ sent' = {}
    BY <1>2 DEF Paneling!Press
  <2> QED
    BY <2>1, InputStep DEF PanelInv, IsStack, Unanswered, Paneling!StrayPress
<1>3. CASE Paneling!LongPress
  BY <1>3, EmptyStack DEF Paneling!LongPress, PanelInv, Paneling!StrayPress
<1>4. CASE Paneling!Tick
  BY <1>4, TickOK
<1>5. CASE Paneling!Text
  BY <1>5, MessageAlone DEF Paneling!Text, PanelInv, IsStack, Unanswered, Paneling!StrayPress
<1> QED
  BY <1>1, <1>2, <1>3, <1>4, <1>5 DEF Paneling!Next

(* For any statuses, depth of the stack and times: whatever a dialog asks about is carried out only *)
(* when the knob was turned on that dialog, however presses, held-back clicks, flashes, messages    *)
(* and the clock come between (open_confirm, confirm_yes; ili9341.c:227).                           *)
THEOREM StrayPressDoesNothing == SumSpec => StrayPressIsHarmless
<1> DEFINE Inv == which = "panel" => PanelInv
           Stray == which = "panel" => Paneling!StrayPress
<1>1. SumInit => Inv
  BY EmptyStack DEF SumInit, Paneling!Init, PanelInv
<1>2. Inv /\ [SumNext]_sumVars => Inv' /\ [Stray]_sumVars
  <2> SUFFICES ASSUME Inv, [SumNext]_sumVars PROVE Inv' /\ [Stray]_sumVars
    OBVIOUS
  <2>1. CASE which = "panel"
    <3>1. PanelInv /\ UNCHANGED which
      BY <2>1, SameComponent
    <3>2. CASE Paneling!Next
      BY <3>1, <3>2, PanelStep
    <3>3. CASE SumNext /\ ~Paneling!Next
      BY <2>1, <3>3 DEF SumNext
    <3>4. CASE UNCHANGED sumVars
      <4>1. UNCHANGED <<nav, turned>>
        BY <3>4 DEF sumVars, panelVars
      <4> QED
        BY <3>1, <3>4, <4>1 DEF PanelInv, IsStack, Unanswered
    <3> QED
      BY <3>2, <3>3, <3>4
  <2>2. CASE which # "panel"
    BY <2>2, SameComponent
  <2> QED
    BY <2>1, <2>2
<1> QED
  BY <1>1, <1>2, PTL DEF SumSpec, StrayPressIsHarmless
=============================================================================
