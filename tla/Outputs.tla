------------------------------- MODULE Outputs -------------------------------
(***************************************************************************)
(* The relay arbiter (core/outputs.c), the threads that reach it           *)
(* (core/threads.c, the shutdown half of core/main.c) and systemd, which   *)
(* restarts the daemon (install/pifired.service, external).                *)
(*                                                                         *)
(* Every relay write of the daemon takes the mutex g_mu and checks the     *)
(* latch twice.  The watchdog, on a control thread that stopped ticking,   *)
(* and the shutdown deadline set the latch, wait for the mutex for a       *)
(* bounded time and drive everything off, with the mutex or without it.    *)
(*                                                                         *)
(* Each thread has a program counter; a step is the code between two       *)
(* points where another thread can be seen.  The fan's PWM duty is left    *)
(* out: the fan relay gates it.                                            *)
(***************************************************************************)
EXTENDS Naturals

CONSTANT Output                  \* the relays: power, fan, auger, igniter

ASSUME OutputAssumption == Output # {}

Thread   == {"control", "main", "watchdog", "deadline"}
Rescuer  == {"watchdog", "deadline"}
NoThread == "nobody"

VARIABLES
  proc,      \* the daemon: "up", "dead", or "cleared" by ExecStopPost
  latched,   \* g_latched
  holder,    \* the thread that holds g_mu, or NoThread
  installed, \* g_ops and g_inst are set
  state,     \* g_state: what the arbiter believes each relay is
  relay,     \* what each relay really is; it outlives the process
  pc,        \* where each thread is
  req,       \* the write the control thread is making
  running,   \* g_run
  stopping,  \* g_stop, or the automatic power-off
  wedged,    \* the control thread is not making progress
  stale,     \* g_last_tick is more than STALL_S old
  bare       \* the rescuers that drove the relays without g_mu

vars == <<proc, latched, holder, installed, state, relay, pc, req, running,
          stopping, wedged, stale, bare>>

Off == [o \in Output |-> FALSE]

ControlPC == {"tick", "wait", "recheck", "drive", "record", "unlock", "done"}
MainPC    == {"serve", "services", "join", "wait", "drive", "unlock",
              "waitDown", "driveDown", "unlockDown", "exit"}
RescuePC  == {"watch", "gone", "latch", "timedlock", "drive", "unlock",
              "driveBare", "leave"}

-----------------------------------------------------------------------------
(* A new process: pf_outputs_init drives every relay off before a thread   *)
(* exists, so it is one step.                                              *)

Fresh ==
  [t \in Thread |-> IF t = "control" THEN "tick"
                    ELSE IF t = "main" THEN "serve"
                    ELSE IF t = "watchdog" THEN "watch"
                    ELSE "gone"]

Init ==
  /\ proc = "up"
  /\ latched = FALSE
  /\ holder = NoThread
  /\ installed = TRUE
  /\ state = Off
  /\ relay = Off
  /\ pc = Fresh
  /\ req \in {[out |-> o, on |-> FALSE] : o \in Output}
  /\ running = TRUE
  /\ stopping = FALSE
  /\ wedged = FALSE
  /\ stale = FALSE
  /\ bare = {}

Goto(t, label) == pc' = [pc EXCEPT ![t] = label]

Acquire(t) == holder = NoThread /\ holder' = t
Release(t) == holder = t /\ holder' = NoThread

-----------------------------------------------------------------------------
(* The control thread: pf_outputs_set, one step of it at a time.           *)

ControlRuns == proc = "up" /\ ~wedged

\* A write arrives; the first look at the latch is before the lock.
SetCall ==
  /\ ControlRuns
  /\ pc["control"] = "tick"
  /\ ~latched
  /\ \E o \in Output, on \in BOOLEAN : req' = [out |-> o, on |-> on]
  /\ Goto("control", "wait")
  /\ UNCHANGED <<proc, latched, holder, installed, state, relay, running,
                 stopping, wedged, stale, bare>>

SetLock ==
  /\ ControlRuns
  /\ pc["control"] = "wait"
  /\ Acquire("control")
  /\ Goto("control", "recheck")
  /\ UNCHANGED <<proc, latched, installed, state, relay, req, running,
                 stopping, wedged, stale, bare>>

\* The second look, under the lock, refuses only a write that switches on;
\* a relay already believed to be as asked is not written.
AfterRecheckUnlatched ==        \* fault: the latch is looked at only once
  IF ~installed \/ state[req.out] = req.on THEN "unlock" ELSE "drive"

AfterRecheck ==
  IF (latched /\ req.on) \/ ~installed \/ state[req.out] = req.on
    THEN "unlock"
    ELSE "drive"

SetRecheck ==
  /\ ControlRuns
  /\ pc["control"] = "recheck"
  /\ Goto("control", AfterRecheck)
  /\ UNCHANGED <<proc, latched, holder, installed, state, relay, req,
                 running, stopping, wedged, stale, bare>>

SetDriveUnchecked ==            \* fault: the return code is ignored
  /\ ControlRuns
  /\ pc["control"] = "drive"
  /\ Goto("control", "record")
  /\ relay' \in {relay, [relay EXCEPT ![req.out] = req.on]}
  /\ UNCHANGED <<proc, latched, holder, installed, state, req, running,
                 stopping, wedged, stale, bare>>

\* The hardware call; it fails without touching the relay, or the relay moves.
SetDrive ==
  /\ ControlRuns
  /\ pc["control"] = "drive"
  /\ \/ /\ Goto("control", "unlock")
        /\ UNCHANGED relay
     \/ /\ Goto("control", "record")
        /\ relay' = [relay EXCEPT ![req.out] = req.on]
  /\ UNCHANGED <<proc, latched, holder, installed, state, req, running,
                 stopping, wedged, stale, bare>>

SetRecord ==
  /\ ControlRuns
  /\ pc["control"] = "record"
  /\ state' = [state EXCEPT ![req.out] = req.on]
  /\ Goto("control", "unlock")
  /\ UNCHANGED <<proc, latched, holder, installed, relay, req, running,
                 stopping, wedged, stale, bare>>

SetUnlock ==
  /\ ControlRuns
  /\ pc["control"] = "unlock"
  /\ Release("control")
  /\ Goto("control", "tick")
  /\ UNCHANGED <<proc, latched, installed, state, relay, req, running,
                 stopping, wedged, stale, bare>>

\* The end of a pass: the time of the tick is stored, and the loop condition
\* is read again.
EndOfTick ==
  /\ ControlRuns
  /\ pc["control"] = "tick"
  /\ stale' = FALSE
  /\ Goto("control", IF running THEN "tick" ELSE "done")
  /\ UNCHANGED <<proc, latched, holder, installed, state, relay, req, running,
                 stopping, wedged, bare>>

\* A hardware call or a log line that does not return, and one that does
\* after all.
Wedge ==
  /\ ControlRuns
  /\ pc["control"] # "done"
  /\ wedged' = TRUE
  /\ UNCHANGED <<proc, latched, holder, installed, state, relay, pc, req,
                 running, stopping, stale, bare>>

Unwedge ==
  /\ proc = "up"
  /\ wedged
  /\ wedged' = FALSE
  /\ UNCHANGED <<proc, latched, holder, installed, state, relay, pc, req,
                 running, stopping, stale, bare>>

\* Two seconds pass without a tick.
Stale ==
  /\ proc = "up"
  /\ wedged
  /\ ~stale
  /\ stale' = TRUE
  /\ UNCHANGED <<proc, latched, holder, installed, state, relay, pc, req,
                 running, stopping, wedged, bare>>

-----------------------------------------------------------------------------
(* pf_outputs_emergency_off, run by the watchdog and by the deadline.      *)

WatchLoopOnly ==                \* fault: the age of the tick is not looked at
  /\ proc = "up"
  /\ pc["watchdog"] = "watch"
  /\ ~running
  /\ Goto("watchdog", "gone")
  /\ UNCHANGED <<proc, latched, holder, installed, state, relay, req, running,
                 stopping, wedged, stale, bare>>

\* The watchdog's loop: it leaves with g_run, and acts on a stall.
Watch ==
  /\ proc = "up"
  /\ pc["watchdog"] = "watch"
  /\ \/ /\ ~running
        /\ Goto("watchdog", "gone")
     \/ /\ running
        /\ stale
        /\ Goto("watchdog", "latch")
  /\ UNCHANGED <<proc, latched, holder, installed, state, relay, req, running,
                 stopping, wedged, stale, bare>>

\* The deadline thread sleeps its eight seconds out.
DeadlineExpires ==
  /\ proc = "up"
  /\ pc["deadline"] = "watch"
  /\ Goto("deadline", "latch")
  /\ UNCHANGED <<proc, latched, holder, installed, state, relay, req, running,
                 stopping, wedged, stale, bare>>

SetLatch(t) ==
  /\ proc = "up"
  /\ pc[t] = "latch"
  /\ latched' = TRUE
  /\ Goto(t, "timedlock")
  /\ UNCHANGED <<proc, holder, installed, state, relay, req, running,
                 stopping, wedged, stale, bare>>

\* pthread_mutex_timedlock gets the mutex or gives up on one that is held.
TimedLock(t) ==
  /\ proc = "up"
  /\ pc[t] = "timedlock"
  /\ \/ /\ Acquire(t)
        /\ Goto(t, "drive")
     \/ /\ holder # NoThread
        /\ Goto(t, "driveBare")
        /\ UNCHANGED holder
  /\ UNCHANGED <<proc, latched, installed, state, relay, req, running,
                 stopping, wedged, stale, bare>>

RelaysOff == relay' = IF installed THEN Off ELSE relay

EmergencyDrive(t) ==
  /\ proc = "up"
  /\ pc[t] = "drive"
  /\ RelaysOff
  /\ state' = Off
  /\ Goto(t, "unlock")
  /\ UNCHANGED <<proc, latched, holder, installed, req, running, stopping,
                 wedged, stale, bare>>

EmergencyUnlock(t) ==
  /\ proc = "up"
  /\ pc[t] = "unlock"
  /\ Release(t)
  /\ Goto(t, "leave")
  /\ UNCHANGED <<proc, latched, installed, state, relay, req, running,
                 stopping, wedged, stale, bare>>

EmergencyDriveBare(t) ==
  /\ proc = "up"
  /\ pc[t] = "driveBare"
  /\ RelaysOff
  /\ state' = Off
  /\ bare' = bare \cup {t}
  /\ Goto(t, "leave")
  /\ UNCHANGED <<proc, latched, holder, installed, req, running, stopping,
                 wedged, stale>>

\* abort() and _exit(0): the relays keep the level they have.
Leave(t) ==
  /\ proc = "up"
  /\ pc[t] = "leave"
  /\ proc' = "dead"
  /\ UNCHANGED <<latched, holder, installed, state, relay, pc, req, running,
                 stopping, wedged, stale, bare>>

-----------------------------------------------------------------------------
(* The main thread, from the request to stop to the exit.                  *)

StopRequest ==
  /\ proc = "up"
  /\ pc["main"] = "serve"
  /\ ~stopping
  /\ stopping' = TRUE
  /\ UNCHANGED <<proc, latched, holder, installed, state, relay, pc, req,
                 running, wedged, stale, bare>>

StopWithoutDeadline ==          \* fault: main waits for the services alone
  /\ proc = "up"
  /\ pc["main"] = "serve"
  /\ stopping
  /\ Goto("main", "services")
  /\ UNCHANGED <<proc, latched, holder, installed, state, relay, req, running,
                 stopping, wedged, stale, bare>>

StartDeadline ==
  /\ proc = "up"
  /\ pc["main"] = "serve"
  /\ stopping
  /\ pc' = [pc EXCEPT !["main"] = "services", !["deadline"] = "watch"]
  /\ UNCHANGED <<proc, latched, holder, installed, state, relay, req, running,
                 stopping, wedged, stale, bare>>

\* The network services have stopped (they may also never do) and
\* pf_threads_stop clears g_run.
ServicesStopped ==
  /\ proc = "up"
  /\ pc["main"] = "services"
  /\ running' = FALSE
  /\ Goto("main", "join")
  /\ UNCHANGED <<proc, latched, holder, installed, state, relay, req,
                 stopping, wedged, stale, bare>>

Join ==
  /\ proc = "up"
  /\ pc["main"] = "join"
  /\ pc["control"] = "done"
  /\ pc["watchdog"] = "gone"
  /\ Goto("main", "wait")
  /\ UNCHANGED <<proc, latched, holder, installed, state, relay, req, running,
                 stopping, wedged, stale, bare>>

\* pf_outputs_all_off, from pf_control_shutdown: no look at the latch.
AllOffLock ==
  /\ proc = "up"
  /\ pc["main"] = "wait"
  /\ Acquire("main")
  /\ Goto("main", "drive")
  /\ UNCHANGED <<proc, latched, installed, state, relay, req, running,
                 stopping, wedged, stale, bare>>

AllOffDrive ==
  /\ proc = "up"
  /\ pc["main"] = "drive"
  /\ RelaysOff
  /\ state' = Off
  /\ Goto("main", "unlock")
  /\ UNCHANGED <<proc, latched, holder, installed, req, running, stopping,
                 wedged, stale, bare>>

AllOffUnlock ==
  /\ proc = "up"
  /\ pc["main"] = "unlock"
  /\ Release("main")
  /\ Goto("main", "waitDown")
  /\ UNCHANGED <<proc, latched, installed, state, relay, req, running,
                 stopping, wedged, stale, bare>>

\* pf_outputs_shutdown: off once more, and the platform is gone.
ShutdownLock ==
  /\ proc = "up"
  /\ pc["main"] = "waitDown"
  /\ Acquire("main")
  /\ Goto("main", "driveDown")
  /\ UNCHANGED <<proc, latched, installed, state, relay, req, running,
                 stopping, wedged, stale, bare>>

ShutdownDrive ==
  /\ proc = "up"
  /\ pc["main"] = "driveDown"
  /\ RelaysOff
  /\ installed' = FALSE
  /\ Goto("main", "unlockDown")
  /\ UNCHANGED <<proc, latched, holder, state, req, running, stopping, wedged,
                 stale, bare>>

ShutdownUnlock ==
  /\ proc = "up"
  /\ pc["main"] = "unlockDown"
  /\ Release("main")
  /\ Goto("main", "exit")
  /\ UNCHANGED <<proc, latched, installed, state, relay, req, running,
                 stopping, wedged, stale, bare>>

Exit ==
  /\ proc = "up"
  /\ pc["main"] = "exit"
  /\ proc' = "dead"
  /\ UNCHANGED <<latched, holder, installed, state, relay, pc, req, running,
                 stopping, wedged, stale, bare>>

-----------------------------------------------------------------------------
(* systemd and the kernel.                                                 *)

\* A crash, or SIGKILL, at any point.
Killed ==
  /\ proc = "up"
  /\ proc' = "dead"
  /\ UNCHANGED <<latched, holder, installed, state, relay, pc, req, running,
                 stopping, wedged, stale, bare>>

\* WatchdogSec and TimeoutStopSec: the watchdog thread has left its loop, so
\* nothing pets systemd any more.
SystemdTimeout ==
  /\ proc = "up"
  /\ pc["watchdog"] # "watch"
  /\ proc' = "dead"
  /\ UNCHANGED <<latched, holder, installed, state, relay, pc, req, running,
                 stopping, wedged, stale, bare>>

\* ExecStopPost=pifired --outputs-off, after every stop. It gives up without
\* driving anything when the directory, the settings or the platform cannot be
\* had; a daemon that had been driving relays could have them, so that is left
\* out (a restore staged meanwhile is put in place first: Restore).
OutputsOff ==
  /\ proc = "dead"
  /\ proc' = "cleared"
  /\ relay' = Off
  /\ UNCHANGED <<latched, holder, installed, state, pc, req, running,
                 stopping, wedged, stale, bare>>

\* Restart=always: a new process, with its own latch and lock.
Restart ==
  /\ proc = "cleared"
  /\ proc' = "up"
  /\ latched' = FALSE
  /\ holder' = NoThread
  /\ installed' = TRUE
  /\ state' = Off
  /\ relay' = Off
  /\ pc' = Fresh
  /\ running' = TRUE
  /\ stopping' = FALSE
  /\ wedged' = FALSE
  /\ stale' = FALSE
  /\ bare' = {}
  /\ UNCHANGED req

-----------------------------------------------------------------------------
ControlStep ==
  \/ SetCall \/ SetLock \/ SetRecheck \/ SetDrive \/ SetRecord \/ SetUnlock
  \/ EndOfTick

Emergency(t) ==
  \/ SetLatch(t) \/ TimedLock(t) \/ EmergencyDrive(t) \/ EmergencyUnlock(t)
  \/ EmergencyDriveBare(t) \/ Leave(t)

MainStep ==
  \/ StartDeadline \/ ServicesStopped \/ Join \/ AllOffLock \/ AllOffDrive
  \/ AllOffUnlock \/ ShutdownLock \/ ShutdownDrive \/ ShutdownUnlock \/ Exit

Next ==
  \/ ControlStep \/ Wedge \/ Unwedge \/ Stale
  \/ Watch \/ DeadlineExpires \/ \E t \in Rescuer : Emergency(t)
  \/ StopRequest \/ MainStep
  \/ Killed \/ SystemdTimeout \/ OutputsOff \/ Restart

(***************************************************************************)
(* Nothing is fair of the control thread, which may wedge anywhere, nor of *)
(* the services main waits for.  The clock runs, the watchdog and the      *)
(* deadline are scheduled, main notices a request, and systemd does what   *)
(* its unit file says.                                                     *)
(***************************************************************************)
Fairness ==
  /\ WF_vars(Stale)
  /\ WF_vars(Watch)
  /\ WF_vars(StartDeadline)
  /\ WF_vars(DeadlineExpires)
  /\ WF_vars(Emergency("deadline"))
  /\ WF_vars(SystemdTimeout)
  /\ WF_vars(OutputsOff)

Spec == Init /\ [][Next]_vars

FairSpec == Spec /\ Fairness

-----------------------------------------------------------------------------
(* Properties.                                                             *)

\* The type of every variable.
TypeOK ==
  /\ proc \in {"up", "dead", "cleared"}
  /\ latched \in BOOLEAN
  /\ holder \in Thread \cup {NoThread}
  /\ installed \in BOOLEAN
  /\ state \in [Output -> BOOLEAN]
  /\ relay \in [Output -> BOOLEAN]
  /\ pc \in [Thread -> ControlPC \cup MainPC \cup RescuePC]
  /\ pc["control"] \in ControlPC
  /\ pc["main"] \in MainPC
  /\ \A t \in Rescuer : pc[t] \in RescuePC
  /\ req \in [out : Output, on : BOOLEAN]
  /\ running \in BOOLEAN
  /\ stopping \in BOOLEAN
  /\ wedged \in BOOLEAN
  /\ stale \in BOOLEAN
  /\ bare \subseteq Rescuer

\* The labels at which a thread is inside g_mu.
Inside(t) ==
  IF t = "control" THEN {"recheck", "drive", "record", "unlock"}
  ELSE IF t = "main" THEN {"drive", "unlock", "driveDown", "unlockDown"}
  ELSE {"drive", "unlock"}

\* The mutex is worth its name: who holds it is inside, and nobody else is; in
\* particular a rescuer that timed out never unlocks what it does not hold.
MutexOK == proc = "up" => \A t \in Thread : pc[t] \in Inside(t) <=> holder = t

\* An emergency off that got the mutex has driven the relays.
DroveLocked(t) == pc[t] \in {"unlock", "leave"} /\ t \notin bare

\* pf_outputs_emergency_off under the lock is final: from the moment it has
\* driven the relays off no relay is on again in this process, whatever the
\* control thread had begun before the latch was set (the second look at the
\* latch in pf_outputs_set).
DrivenOffStaysOff ==
  proc = "up" /\ (\E t \in Rescuer : DroveLocked(t)) => relay = Off

\* g_state, which every other decision of the daemon reads, is what the relays
\* are whenever nobody is inside the arbiter and no emergency has begun: a
\* relay that could not be switched is not believed switched.
StateMatchesRelays ==
  proc = "up" /\ holder = NoThread /\ ~latched => state = relay

\* A control thread that stops making progress, holding the mutex or not, and
\* even while main is already shutting down and the watchdog has left, is
\* always followed by the relays being driven off from outside.
WedgedIsMadeSafe == wedged ~> (~wedged \/ proc = "cleared")

\* A stop always ends, although a service or the control thread may never
\* come back (shutdown_deadline).
StopEnds == stopping ~> proc = "cleared"

\* The comment in pf_outputs_emergency_off on the way without the lock: the
\* latch is set, so nothing of ours can turn the outputs back on.  Not so: a
\* write held up in the hardware call does (README, Found).
EmergencyOffMeansOff ==
  proc = "up" /\ (\E t \in Rescuer : pc[t] = "leave") => relay = Off
=============================================================================
