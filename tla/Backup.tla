------------------------------- MODULE Backup -------------------------------
(***************************************************************************)
(* src/features/backup.c, first half: one archive to every location that is *)
(* switched on, the schedule and the pruning. The clouds' accounts are in   *)
(* SignIn, the way back is in Restore.                                     *)
(*                                                                         *)
(* A location is named by its type. An archive is <<grill, hour>>, the two  *)
(* parts of its file name: names are compared, so the grill's comes first.  *)
(* What a location's tools and servers answer is a choice.                  *)
(***************************************************************************)
EXTENDS Naturals, FiniteSets

CONSTANTS
  Lists,       \* the lists of locations in the settings: sets of "folder", "smb", "onedrive", "gdrive"
  Grills,      \* the names the grill may be given, as numbers in their order
  Keep,        \* backup.keep
  Day,         \* hours between two slots of the schedule
  MaxHour      \* bound on the clock

VARIABLES
  where,       \* the settings: [list, on, grill, scheduled, old], old the single destination there once was
  ready,       \* the locations filled in and, of the clouds, signed in to (see SignIn)
  drive,       \* the folder in Google Drive is made
  copies,      \* the archives at each location
  worker,      \* the one thread that makes, sends or prunes
  last,        \* the record of the last backup
  hour         \* wall clock

Locations == UNION Lists

bvars == <<where, ready, drive, copies, worker, last, hour>>

Cloud == Locations \cap {"onedrive", "gdrive"}
NoArchive == <<0, 0>>

\* by_name_desc: the newest first, by name
Later(a, b) == a[1] > b[1] \/ (a[1] = b[1] /\ a[2] > b[2])

Idle == [at |-> "idle", archive |-> NoArchive, to |-> {}, todo |-> {}, missed |-> {}]

\* settings of a version that had one destination and no list
Single(w) == w.list = {} /\ w.old # "off"

\* migrate_single_destination: it becomes the list
MigrateSingle(w) ==
  IF Single(w) THEN [w EXCEPT !.list = {w.old}, !.on = {w.old}, !.old = "off"] ELSE w

Init ==
  /\ \E l \in Lists, n \in Grills, s \in BOOLEAN : \E o \in IF l = {} THEN Locations ELSE {"off"} :
       where = MigrateSingle([list |-> l, on |-> l, grill |-> n, scheduled |-> s, old |-> o])
  /\ ready \in SUBSET where.list /\ drive = FALSE
  /\ copies = [l \in Locations |-> {}]
  /\ worker = Idle
  /\ last = [at |-> 0, good |-> 0, ok |-> FALSE, archive |-> NoArchive, sentTo |-> {}]
  /\ hour = 1

-----------------------------------------------------------------------------
(* Locations *)

\* archive_name
Name == <<where.grill, hour>>

\* locations, those that are switched on
Enabled == where.on

\* http, run: what a request to a server or a tool comes to
Replies == {"ok", "refused", "failed"}

\* token_get
HasToken(l) == l \in ready

\* cloud_access: there is a client and a refresh token; one the cloud refuses is dropped
CloudAccess(l, reply) ==
  /\ l \in Cloud
  /\ reply = "ok" => HasToken(l)
  /\ ready' = IF reply = "refused" THEN ready \ {l} ELSE ready

\* folder_put: the folder is set, made, and written to
FolderPut(l, reply) ==
  /\ l = "folder" /\ UNCHANGED <<ready, drive>>
  /\ reply = "ok" => l \in ready

\* smb_put: host and share are set and hold nothing smbclient would run
SmbPut(l, reply) ==
  /\ l = "smb" /\ UNCHANGED <<ready, drive>>
  /\ reply = "ok" => l \in ready

\* gdrive_folder: found by its name, or made
GdriveFolder(create, reply) == drive' = (drive \/ (create /\ reply = "ok"))

\* gdrive_put: the upload may still fail after the folder was made
GdrivePut(l, reply) ==
  /\ l = "gdrive"
  /\ \E access, folder \in Replies :
       /\ CloudAccess(l, access)
       /\ GdriveFolder(access = "ok", folder)
       /\ reply = "ok" => access = "ok" /\ folder = "ok"

\* onedrive_put: into the application's own folder
OnedrivePut(l, reply) ==
  /\ l = "onedrive" /\ UNCHANGED drive
  /\ CloudAccess(l, reply)

\* loc_put
Put(l, reply) ==
  FolderPut(l, reply) \/ SmbPut(l, reply) \/ GdrivePut(l, reply) \/ OnedrivePut(l, reply)

\* folder_list, smb_list, onedrive_list: the archives by their names, when it can be read
FolderList(l) == IF l \in ready THEN copies[l] ELSE {}
SmbList(l) == IF l \in ready THEN copies[l] ELSE {}
OnedriveList(l) == IF l \in ready THEN copies[l] ELSE {}

\* gdrive_list: no folder is an empty one
GdriveList(l) == IF l \in ready /\ drive THEN copies[l] ELSE {}

\* loc_list
Listed(l) == [folder |-> FolderList(l), smb |-> SmbList(l),
              gdrive |-> GdriveList(l), onedrive |-> OnedriveList(l)][l]

-----------------------------------------------------------------------------
(* The worker *)

\* start_worker
Free == worker.at = "idle"

\* backup_thread, up to the archive: the locations and the name are read once
Begin == worker' = [at |-> "make", archive |-> Name,
                    to |-> Enabled, todo |-> Enabled, missed |-> {}]

\* pf_backup_run
Run == /\ Enabled # {} /\ Free
       /\ Begin
       /\ UNCHANGED <<where, ready, drive, copies, last, hour>>

\* next_due: the first slot after the last good backup, or after now
NextDue == LET after == IF last.good > 0 THEN last.good ELSE hour
           IN  (after \div Day + 1) * Day

\* one that failed is tried again an hour later
Due == /\ where.scheduled /\ Enabled # {}
       /\ hour >= NextDue
       /\ ~(last.at > last.good /\ hour = last.at)

\* pf_backup_tick
Tick == /\ Free /\ Due
        /\ Begin
        /\ UNCHANGED <<where, ready, drive, copies, last, hour>>

\* file_last
Record(ok, to) == last' = [at |-> hour, good |-> IF ok THEN hour ELSE last.good, ok |-> ok,
                           archive |-> worker.archive, sentTo |-> to]

\* pf_backup_make: settings, database, cooks and manifest in one tar.gz, or nothing
Make == /\ worker.at = "make"
        /\ \/ /\ worker' = [worker EXCEPT !.at = "send"] /\ UNCHANGED last
           \/ /\ Record(FALSE, {}) /\ worker' = Idle
        /\ UNCHANGED <<where, ready, drive, copies, hour>>

\* one round of the sending loop
Send(l) ==
  /\ worker.at = "send" /\ l \in worker.todo
  /\ \E reply \in Replies :
       /\ Put(l, reply)
       /\ IF reply = "ok"
            THEN /\ copies' = [copies EXCEPT ![l] = @ \cup {worker.archive}]
                 /\ worker' = [worker EXCEPT !.todo = @ \ {l}]
            ELSE /\ worker' = [worker EXCEPT !.todo = @ \ {l}, !.missed = @ \cup {l}]
                 /\ UNCHANGED copies
  /\ UNCHANGED <<where, last, hour>>

\* sent == tried
EverywhereButOne == worker.to # {}    \* fault: a location that failed is forgiven
Everywhere == worker.to # {} /\ worker.missed = {}

\* the end of the sending loop: the results are filed, then the locations are pruned
Sent ==
  /\ worker.at = "send" /\ worker.todo = {}
  /\ Record(Everywhere, worker.to)
  /\ worker' = [worker EXCEPT !.at = "prune", !.todo = worker.to]
  /\ UNCHANGED <<where, ready, drive, copies, hour>>

\* prune: all but the newest Keep go, none when there is no limit
Surplus(l) == {a \in Listed(l) :
                 Keep > 0 /\ Cardinality({b \in Listed(l) : Later(b, a)}) >= Keep}

\* loc_del, cloud_del: any deletion may fail
Prune(l) ==
  /\ worker.at = "prune" /\ l \in worker.todo
  /\ \E gone \in SUBSET Surplus(l) : copies' = [copies EXCEPT ![l] = @ \ gone]
  /\ worker' = [worker EXCEPT !.todo = @ \ {l}]
  /\ UNCHANGED <<where, ready, drive, last, hour>>

Done == /\ worker.at = "prune" /\ worker.todo = {}
        /\ worker' = Idle
        /\ UNCHANGED <<where, ready, drive, copies, last, hour>>

-----------------------------------------------------------------------------
\* load_last: what file_last wrote is all that is known of the last backup
LoadLast == UNCHANGED last

\* the daemon dies in the middle of it, or is restarted; pf_backup_init sweeps what was being made
Restart ==
  /\ worker' = Idle /\ LoadLast
  /\ where' = MigrateSingle(where)
  /\ UNCHANGED <<ready, drive, copies, hour>>

\* the settings page; a job reads it once, at its start
Edit == /\ Free
        /\ \E on \in SUBSET where.list, n \in Grills : where' = [where EXCEPT !.on = on, !.grill = n]
        /\ ready' \in SUBSET where.list
        /\ UNCHANGED <<drive, copies, worker, last, hour>>

\* the clock; a job is over within the hour, and the schedule is looked at every minute of it
Hour == /\ hour < MaxHour /\ Free /\ ~Due
        /\ hour' = hour + 1
        /\ UNCHANGED <<where, ready, drive, copies, worker, last>>

Next ==
  \/ Run \/ Tick \/ Make \/ Sent \/ Done \/ Restart \/ Edit \/ Hour
  \/ \E l \in Locations : Send(l) \/ Prune(l)

Spec == Init /\ [][Next]_bvars

-----------------------------------------------------------------------------
(* A backup that was filed as good is at every location it was sent to, until the next job: it    *)
(* got everywhere, and pruning did not take it back (backup_thread, prune).                       *)
GoodBackupIsThere ==
  last.ok /\ Free => \A l \in last.sentTo : last.archive \in copies[l]

(* "walk forward ... from now, for a schedule that has never run ... to the first matching slot    *)
(* after it" (backup.c:1717): a slot that comes while the schedule is on and a location is too     *)
(* does not pass without a backup being tried.                                                     *)
SlotIsServed ==
  [][hour' > hour /\ hour % Day = 0 /\ where.scheduled /\ where.on # {} => last.at = hour]_bvars
=============================================================================
