-------------------------------- MODULE Update ------------------------------
(***************************************************************************)
(* src/features/update.c: looking for a release of PiFire and for system    *)
(* packages, installing either, and the schedule that does both at night.   *)
(*                                                                         *)
(* A release is <<branch, version>>, or None. One worker thread at a time   *)
(* does what `job` says; the web thread and the schedule ask for jobs.      *)
(* Checksums, archives and tools succeed or fail by choice.                 *)
(***************************************************************************)
EXTENDS Naturals

CONSTANTS
  Branches,    \* what update.branch can be set to
  Nights,      \* the days on which the schedule's window opens
  MaxVersion,  \* bound on the versions published
  MaxDay       \* bound on the days

VARIABLES
  branch,      \* update.branch
  published,   \* the newest version of each branch
  running,     \* what this daemon is: PF_BRANCH and PF_VERSION
  offer,       \* g: [of, latest, list, asset], the last check's branch, answer, list and download
  packages,    \* g.packages is not empty
  job,         \* [at, pifire, asked, rel]; at # "idle" is g.busy
  mark,        \* "installed" in the database
  grill,       \* "idle", "cook" or "hand" (Manual or Prime)
  tried,       \* the schedule's statics: [release, system, checked]
  day

uvars == <<branch, published, running, offer, packages, job, mark, grill, tried, day>>

None == <<"none", 0>>
Releases == Branches \X (1..MaxVersion)
Idle == [at |-> "idle", pifire |-> FALSE, asked |-> None, rel |-> None]
NoOffer == [of |-> "none", latest |-> None, list |-> {}, asset |-> None]
Fresh == [release |-> None, system |-> 0, checked |-> 0]

Init ==
  /\ branch \in Branches /\ published = [b \in Branches |-> 1]
  /\ running \in {<<b, 1>> : b \in Branches}
  /\ offer = NoOffer /\ packages = FALSE /\ job = Idle /\ mark = None
  /\ grill = "idle" /\ tried = Fresh /\ day = 1

Busy == job.at # "idle"

-----------------------------------------------------------------------------
(* Looking *)

\* check_start: one operation at a time
MayCheckAlways == TRUE   \* fault: a check does not wait for an install
MayCheck == ~Busy

\* release_entry: the branch's releases, each with its build for this machine
Entries == {branch} \X (1..published[branch])

\* check_pifire: the newest release of the branch, the list, and the asset for this machine;
\* the network may fail, nothing may be published yet, and a release may have no build
LookForPiFire ==
  \/ UNCHANGED offer
  \/ offer' = [offer EXCEPT !.of = branch, !.latest = None, !.list = {}]
  \/ LET newest == <<branch, published[branch]>> IN
     \E built \in {None, newest} :
        offer' = [of |-> branch, latest |-> newest, asset |-> built,
                  list |-> IF built = None THEN {} ELSE Entries]

\* check_thread, with check_system
Check(system) ==
  /\ MayCheck
  /\ LookForPiFire
  /\ packages' \in IF system THEN BOOLEAN ELSE {packages}
  /\ UNCHANGED <<branch, published, running, job, mark, grill, day>>

\* g.available: a newer release, or what another branch builds
Available == offer.latest # None /\ offer.latest # running

-----------------------------------------------------------------------------
(* Asking for an install *)

\* pf_update_install_ex, its refusals
MayInstall(pifire, system, hot) ==
  /\ pifire \/ system
  /\ grill # "hand"
  /\ grill = "cook" => pifire /\ hot /\ ~system
  /\ ~Busy

\* select_release: from the list, with a build, and not what is running
Selectable(r) == r \in offer.list /\ r # running

Begin(pifire, system, r) ==
  job' = [at |-> IF system THEN "upgrade" ELSE "download",
          pifire |-> pifire, asked |-> r, rel |-> None]

\* the person's choice of a release, of packages or of both; update.hot_update is theirs too
InstallChosen(r, system) ==
  /\ MayInstall(TRUE, system, TRUE) /\ Selectable(r)
  /\ offer' = [offer EXCEPT !.asset = r, !.latest = r]
  /\ Begin(TRUE, system, r)
  /\ UNCHANGED <<branch, published, running, packages, mark, grill, tried, day>>

InstallOffered(pifire, system) ==
  /\ MayInstall(pifire, system, TRUE)
  /\ pifire => Available /\ offer.asset # None
  /\ Begin(pifire, system, IF pifire THEN offer.asset ELSE None)
  /\ UNCHANGED <<branch, published, running, offer, packages, mark, grill, tried, day>>

\* pf_update_in_window
InWindow == day \in Nights

\* scheduled: look once a day, then install what may install itself, once
ScheduledCheck ==
  /\ InWindow /\ ~Busy /\ tried.checked # day
  /\ tried' = [tried EXCEPT !.checked = day]
  /\ Check(grill = "idle")

ScheduledInstall(wantPi, wantSystem) ==
  LET pifire == wantPi /\ Available /\ offer.asset # None /\ tried.release # offer.latest
      system == wantSystem /\ packages /\ tried.system # day
  IN /\ InWindow /\ ~Busy /\ tried.checked = day /\ grill = "idle"
     /\ MayInstall(pifire, system, FALSE)
     /\ tried' = [tried EXCEPT !.release = IF pifire THEN offer.latest ELSE @,
                               !.system = IF system THEN day ELSE @]
     /\ Begin(pifire, system, IF pifire THEN offer.asset ELSE None)
     /\ UNCHANGED <<branch, published, running, offer, packages, mark, grill, day>>

-----------------------------------------------------------------------------
(* install_thread *)

Fail == job' = Idle

\* upgrade_system, first, because nothing after PiFire's install would run
UpgradeSystem ==
  /\ job.at = "upgrade"
  /\ \/ /\ packages' \in BOOLEAN
        /\ job' = IF job.pifire THEN [job EXCEPT !.at = "download"] ELSE Idle
     \/ UNCHANGED packages /\ Fail
  /\ UNCHANGED <<branch, published, running, offer, mark, grill, tried, day>>

\* install_pifire copies what to fetch when it begins
Download ==
  /\ job.at = "download"
  /\ \/ job' = [job EXCEPT !.at = "verify", !.rel = offer.asset]
     \/ Fail
  /\ UNCHANGED <<branch, published, running, offer, packages, mark, grill, tried, day>>

\* the checksum of what was fetched, and unpacking
VerifyAndUnpack ==
  /\ job.at = "verify"
  /\ \/ job' = [job EXCEPT !.at = "apply"]
     \/ Fail
  /\ UNCHANGED <<branch, published, running, offer, packages, mark, grill, tried, day>>

\* the next daemon is told what it is, then the installer is started, which may refuse
Apply ==
  /\ job.at = "apply"
  /\ \/ mark' = job.rel /\ job' = [job EXCEPT !.at = "restart"]
     \/ mark' = None /\ Fail
  /\ UNCHANGED <<branch, published, running, offer, packages, grill, tried, day>>

\* a start of the daemon: pf_update_init keeps the mark only when it names what runs
Boot(version) ==
  /\ running' = version
  /\ mark' = IF mark = version THEN mark ELSE None
  /\ offer' = NoOffer /\ packages' = FALSE /\ job' = Idle /\ tried' = Fresh
  /\ UNCHANGED <<branch, published, grill, day>>

\* the installer replaces the daemon, or cannot; or the daemon dies of something else
Restart == job.at = "restart" /\ (Boot(job.rel) \/ Boot(running))
Die == job.at # "idle" /\ Boot(running)

\* pf_update_installed_seen
Seen == /\ mark # None /\ mark' = None
        /\ UNCHANGED <<branch, published, running, offer, packages, job, grill, tried, day>>

-----------------------------------------------------------------------------
SetBranch == /\ branch' \in Branches \ {branch}
             /\ UNCHANGED <<published, running, offer, packages, job, mark, grill, tried, day>>

Publish(b) == /\ published[b] < MaxVersion
              /\ published' = [published EXCEPT ![b] = @ + 1]
              /\ UNCHANGED <<branch, running, offer, packages, job, mark, grill, tried, day>>

Cook == /\ grill' \in {"idle", "cook", "hand"} \ {grill}
        /\ UNCHANGED <<branch, published, running, offer, packages, job, mark, tried, day>>

NextDay == /\ day < MaxDay /\ day' = day + 1
           /\ UNCHANGED <<branch, published, running, offer, packages, job, mark, grill, tried>>

\* pf_update_check and the quiet look after a start
Look == \E system \in BOOLEAN : Check(system) /\ UNCHANGED tried

Next ==
  \/ Look \/ ScheduledCheck
  \/ \E r \in Releases, system \in BOOLEAN : InstallChosen(r, system)
  \/ \E p, s \in BOOLEAN : InstallOffered(p, s) \/ ScheduledInstall(p, s)
  \/ UpgradeSystem \/ Download \/ VerifyAndUnpack \/ Apply \/ Restart \/ Die \/ Seen
  \/ SetBranch \/ Cook \/ NextDay
  \/ \E b \in Branches : Publish(b)

Spec == Init /\ [][Next]_uvars

-----------------------------------------------------------------------------
(* What is put on the grill is the release that was asked for or on offer when the install was     *)
(* accepted, however long it waited behind the system's packages (install_pifire reads it late).   *)
AppliedIsAsked == job.at \in {"apply", "restart"} => job.rel = job.asked
=============================================================================
