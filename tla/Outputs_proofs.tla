--------------------------- MODULE Outputs_proofs ---------------------------
(***************************************************************************)
(* What the relay arbiter guarantees for any set of relays.                *)
(***************************************************************************)
EXTENDS Outputs, TLAPS

\* A rescuer past its first step has set the latch.
LatchSet ==
  \A t \in Rescuer : pc[t] \notin {"watch", "gone", "latch"} => latched

\* Once main has taken the platform down nothing is on and nothing writes.
Down ==
  /\ pc["main"] \notin {"serve", "services", "join"} => pc["control"] = "done"
  /\ ~installed => relay = Off /\ state = Off
  /\ ~installed => pc["main"] \in {"unlockDown", "exit"}
  /\ pc["main"] \in {"unlock", "waitDown", "driveDown", "unlockDown", "exit"}
       => relay = Off /\ state = Off

\* The deadline thread exists only once a stop was requested.
NoDeadlineYet == pc["main"] = "serve" => pc["deadline"] = "gone"

\* What the control thread may be doing once the relays were driven off.
Final ==
  (\E t \in Rescuer : DroveLocked(t)) =>
    /\ relay = Off
    /\ pc["control"] = "drive" => ~req.on

\* The arbiter's belief, with the write between the relay and g_state.
Belief ==
  ~latched => relay = IF pc["control"] = "record"
                        THEN [state EXCEPT ![req.out] = req.on]
                        ELSE state

IInv ==
  /\ TypeOK
  /\ proc = "up" => MutexOK /\ LatchSet /\ Down /\ NoDeadlineYet /\ Final /\ Belief

-----------------------------------------------------------------------------
\* Every thread of a new process is at one of its own labels.
LEMMA FreshTypes ==
  /\ Fresh \in [Thread -> ControlPC \cup MainPC \cup RescuePC]
  /\ Fresh["control"] = "tick"
  /\ Fresh["main"] = "serve"
  /\ Fresh["watchdog"] = "watch"
  /\ Fresh["deadline"] = "gone"
  BY DEF Fresh, Thread, ControlPC, MainPC, RescuePC

LEMMA InitTypes == Init => TypeOK
<1> SUFFICES ASSUME Init PROVE TypeOK
  OBVIOUS
<1>1. /\ pc \in [Thread -> ControlPC \cup MainPC \cup RescuePC]
      /\ pc["control"] \in ControlPC
      /\ pc["main"] \in MainPC
      /\ \A t \in Rescuer : pc[t] \in RescuePC
  BY FreshTypes DEF Init, Rescuer, ControlPC, MainPC, RescuePC
<1>2. state \in [Output -> BOOLEAN] /\ relay \in [Output -> BOOLEAN]
  BY DEF Init, Off
<1>3. req \in [out : Output, on : BOOLEAN]
  <2>1. PICK o \in Output : req = [out |-> o, on |-> FALSE]
    BY DEF Init
  <2>2. FALSE \in BOOLEAN
    OBVIOUS
  <2> QED BY <2>1, <2>2, Zenon
<1>4. /\ latched \in BOOLEAN /\ installed \in BOOLEAN /\ running \in BOOLEAN
      /\ stopping \in BOOLEAN /\ wedged \in BOOLEAN /\ stale \in BOOLEAN
  BY Zenon DEF Init
<1>5. /\ proc \in {"up", "dead", "cleared"}
      /\ holder \in Thread \cup {NoThread}
      /\ bare \subseteq Rescuer
  BY Zenon DEF Init
<1> QED BY <1>1, <1>2, <1>3, <1>4, <1>5, Zenon DEF TypeOK

\* The variables keep their types: g_state and the relays are Booleans per
\* output, and every thread is at one of its own labels.
THEOREM TypeCorrect == Spec => []TypeOK
<1>1. Init => TypeOK
  BY InitTypes
<1>2. TypeOK /\ [Next]_vars => TypeOK'
  <2> SUFFICES ASSUME TypeOK, [Next]_vars PROVE TypeOK'
    OBVIOUS
  <2> USE DEF TypeOK, Thread, Rescuer, NoThread, ControlPC, MainPC, RescuePC,
              Goto, Acquire, Release
  <2>1. CASE ControlStep
    <3>1. CASE SetCall      BY <3>1 DEF SetCall
    <3>2. CASE SetLock      BY <3>2 DEF SetLock
    <3>3. CASE SetRecheck   BY <3>3 DEF SetRecheck, AfterRecheck
    <3>4. CASE SetDrive     BY <3>4 DEF SetDrive
    <3>5. CASE SetRecord    BY <3>5 DEF SetRecord
    <3>6. CASE SetUnlock    BY <3>6 DEF SetUnlock
    <3>7. CASE EndOfTick    BY <3>7, ZenonT(30) DEF EndOfTick
    <3> QED BY <2>1, <3>1, <3>2, <3>3, <3>4, <3>5, <3>6, <3>7 DEF ControlStep
  <2>2. CASE Wedge          BY <2>2 DEF Wedge
  <2>3. CASE Unwedge
    <3>1. wedged' = FALSE
      BY <2>3, Zenon DEF Unwedge
    <3>2. UNCHANGED <<proc, latched, holder, installed, state, relay, pc, req,
                      running, stopping, stale, bare>>
      BY <2>3, Zenon DEF Unwedge
    <3>3. wedged' \in BOOLEAN
      BY <3>1, Zenon
    <3> QED BY <3>2, <3>3
  <2>4. CASE Stale          BY <2>4 DEF Stale
  <2>5. CASE Watch          BY <2>5 DEF Watch
  <2>6. CASE DeadlineExpires BY <2>6 DEF DeadlineExpires
  <2>7. ASSUME NEW t \in Rescuer, Emergency(t) PROVE TypeOK'
    <3>1. CASE SetLatch(t)           BY <3>1 DEF SetLatch
    <3>2. CASE TimedLock(t)          BY <3>2 DEF TimedLock
    <3>3. CASE EmergencyDrive(t)     BY <3>3 DEF EmergencyDrive, RelaysOff, Off
    <3>4. CASE EmergencyUnlock(t)    BY <3>4 DEF EmergencyUnlock
    <3>5. CASE EmergencyDriveBare(t) BY <3>5 DEF EmergencyDriveBare, RelaysOff, Off
    <3>6. CASE Leave(t)              BY <3>6 DEF Leave
    <3> QED BY <2>7, <3>1, <3>2, <3>3, <3>4, <3>5, <3>6 DEF Emergency
  <2>8. CASE StopRequest    BY <2>8 DEF StopRequest
  <2>9. CASE MainStep
    <3>1. CASE StartDeadline   BY <3>1 DEF StartDeadline
    <3>2. CASE ServicesStopped BY <3>2 DEF ServicesStopped
    <3>3. CASE Join            BY <3>3 DEF Join
    <3>4. CASE AllOffLock      BY <3>4 DEF AllOffLock
    <3>5. CASE AllOffDrive     BY <3>5 DEF AllOffDrive, RelaysOff, Off
    <3>6. CASE AllOffUnlock    BY <3>6 DEF AllOffUnlock
    <3>7. CASE ShutdownLock    BY <3>7 DEF ShutdownLock
    <3>8. CASE ShutdownDrive   BY <3>8 DEF ShutdownDrive, RelaysOff, Off
    <3>9. CASE ShutdownUnlock  BY <3>9 DEF ShutdownUnlock
    <3>10. CASE Exit           BY <3>10 DEF Exit
    <3> QED BY <2>9, <3>1, <3>2, <3>3, <3>4, <3>5, <3>6, <3>7, <3>8, <3>9, <3>10
            DEF MainStep
  <2>10. CASE Killed         BY <2>10 DEF Killed
  <2>11. CASE SystemdTimeout BY <2>11 DEF SystemdTimeout
  <2>12. CASE OutputsOff     BY <2>12 DEF OutputsOff, Off
  <2>13. CASE Restart        BY <2>13 DEF Restart, Off, Fresh
  <2>14. CASE UNCHANGED vars BY <2>14 DEF vars
  <2> QED
    BY <2>1, <2>2, <2>3, <2>4, <2>5, <2>6, <2>7, <2>8, <2>9, <2>10, <2>11,
       <2>12, <2>13, <2>14 DEF Next
<1> QED BY <1>1, <1>2, PTL DEF Spec

-----------------------------------------------------------------------------
\* The strengthening is inductive on its own types.
LEMMA Inductive == IInv /\ TypeOK' /\ [Next]_vars => IInv'
<1> SUFFICES ASSUME IInv, TypeOK', [Next]_vars PROVE IInv'
  OBVIOUS
<1> USE DEF IInv, TypeOK, Thread, Rescuer, NoThread, ControlPC, MainPC,
            RescuePC, Goto, Acquire, Release, MutexOK, Inside, LatchSet, Down,
            NoDeadlineYet, Final, DroveLocked, Belief
<1>1. CASE ControlStep
  <2>1. CASE SetCall      BY <2>1 DEF SetCall
  <2>2. CASE SetLock      BY <2>2 DEF SetLock
  <2>3. CASE SetRecheck   BY <2>3 DEF SetRecheck, AfterRecheck
  <2>4. CASE SetDrive
    <3>1. TypeOK'
      OBVIOUS
    <3>2. MutexOK' /\ LatchSet' /\ NoDeadlineYet'
      BY <2>4 DEF SetDrive, ControlRuns
    <3>2a. Down'
      <4>1. installed /\ pc["control"] # "done"
        BY <2>4 DEF SetDrive, ControlRuns
      <4> QED BY <2>4, <4>1 DEF SetDrive, ControlRuns
    <3>3. Belief'
      <4>1. CASE relay' = relay /\ pc' = [pc EXCEPT !["control"] = "unlock"]
        BY <2>4, <4>1 DEF SetDrive, ControlRuns
      <4>2. CASE /\ pc' = [pc EXCEPT !["control"] = "record"]
                 /\ relay' = [relay EXCEPT ![req.out] = req.on]
        BY <2>4, <4>2 DEF SetDrive, ControlRuns
      <4> QED BY <2>4, <4>1, <4>2 DEF SetDrive
    <3>4. Final'
      <4> SUFFICES ASSUME \E t \in Rescuer : DroveLocked(t)'
                   PROVE  relay' = Off /\ pc'["control"] # "drive"
        OBVIOUS
      <4>1. /\ relay = Off
            /\ req.on = FALSE
            /\ pc'["control"] # "drive"
        BY <2>4 DEF SetDrive, ControlRuns
      <4>2. relay' = relay \/ relay' = [relay EXCEPT ![req.out] = FALSE]
        BY <2>4, <4>1, Zenon DEF SetDrive
      <4>3. relay' = Off
        BY <4>1, <4>2 DEF Off
      <4> QED BY <4>1, <4>3
    <3> QED BY <3>1, <3>2, <3>2a, <3>3, <3>4
  <2>5. CASE SetRecord    BY <2>5 DEF SetRecord
  <2>6. CASE SetUnlock    BY <2>6 DEF SetUnlock
  <2>7. CASE EndOfTick    BY <2>7 DEF EndOfTick
  <2> QED BY <1>1, <2>1, <2>2, <2>3, <2>4, <2>5, <2>6, <2>7 DEF ControlStep
<1>2. CASE Wedge          BY <1>2 DEF Wedge
<1>3. CASE Unwedge        BY <1>3 DEF Unwedge
<1>4. CASE Stale          BY <1>4 DEF Stale
<1>5. CASE Watch          BY <1>5 DEF Watch
<1>6. CASE DeadlineExpires BY <1>6 DEF DeadlineExpires
<1>7. ASSUME NEW t \in Rescuer, Emergency(t) PROVE IInv'
  <2>1. CASE SetLatch(t)           BY <2>1 DEF SetLatch
  <2>2. CASE TimedLock(t)          BY <2>2 DEF TimedLock
  <2>3. CASE EmergencyDrive(t)     BY <2>3 DEF EmergencyDrive, RelaysOff
  <2>4. CASE EmergencyUnlock(t)    BY <2>4 DEF EmergencyUnlock
  <2>5. CASE EmergencyDriveBare(t) BY <2>5 DEF EmergencyDriveBare, RelaysOff
  <2>6. CASE Leave(t)              BY <2>6 DEF Leave
  <2> QED BY <1>7, <2>1, <2>2, <2>3, <2>4, <2>5, <2>6 DEF Emergency
<1>8. CASE StopRequest    BY <1>8 DEF StopRequest
<1>9. CASE MainStep
  <2>1. CASE StartDeadline
    <3>1. /\ pc'["control"] = pc["control"]
          /\ pc'["main"] = "services"
          /\ pc'["watchdog"] = pc["watchdog"]
          /\ pc'["deadline"] = "watch"
      BY <2>1 DEF StartDeadline
    <3>2. UNCHANGED <<proc, latched, holder, installed, state, relay, req, bare>>
      BY <2>1 DEF StartDeadline
    <3>3. proc = "up" /\ pc["main"] = "serve" /\ pc["deadline"] = "gone"
      BY <2>1 DEF StartDeadline
    <3>4. \A t \in Rescuer : pc'[t] = pc[t] \/ pc'[t] = "watch"
      BY <3>1
    <3>5. LatchSet'
      BY <3>2, <3>3, <3>4
    <3>6. Final'
      BY <3>1, <3>2, <3>3, <3>4
    <3>7. Down' /\ NoDeadlineYet' /\ Belief'
      BY <3>1, <3>2, <3>3
    <3>8. MutexOK'
      BY <3>1, <3>2, <3>3
    <3> QED BY <3>2, <3>5, <3>6, <3>7, <3>8
  <2>2. CASE ServicesStopped BY <2>2 DEF ServicesStopped
  <2>3. CASE Join            BY <2>3 DEF Join
  <2>4. CASE AllOffLock      BY <2>4 DEF AllOffLock
  <2>5. CASE AllOffDrive     BY <2>5 DEF AllOffDrive, RelaysOff
  <2>6. CASE AllOffUnlock    BY <2>6 DEF AllOffUnlock
  <2>7. CASE ShutdownLock    BY <2>7 DEF ShutdownLock
  <2>8. CASE ShutdownDrive   BY <2>8 DEF ShutdownDrive, RelaysOff
  <2>9. CASE ShutdownUnlock  BY <2>9 DEF ShutdownUnlock
  <2>10. CASE Exit           BY <2>10 DEF Exit
  <2> QED BY <1>9, <2>1, <2>2, <2>3, <2>4, <2>5, <2>6, <2>7, <2>8, <2>9, <2>10
          DEF MainStep
<1>10. CASE Killed         BY <1>10 DEF Killed
<1>11. CASE SystemdTimeout BY <1>11 DEF SystemdTimeout
<1>12. CASE OutputsOff     BY <1>12 DEF OutputsOff
<1>13. CASE Restart        BY <1>13 DEF Restart, Fresh
<1>14. CASE UNCHANGED vars BY <1>14 DEF vars
<1> QED
  BY <1>1, <1>2, <1>3, <1>4, <1>5, <1>6, <1>7, <1>8, <1>9, <1>10, <1>11,
     <1>12, <1>13, <1>14 DEF Next

LEMMA Invariance == Spec => []IInv
<1>1. Init => IInv
  <2> SUFFICES ASSUME Init PROVE IInv
    OBVIOUS
  <2>1. TypeOK
    BY InitTypes
  <2> QED
    BY <2>1 DEF Init, IInv, Fresh, Thread, Rescuer, NoThread, MutexOK, Inside,
                LatchSet, Down, NoDeadlineYet, Final, DroveLocked, Belief
<1>2. IInv /\ TypeOK' /\ [Next]_vars => IInv'
  BY Inductive
<1> QED BY <1>1, <1>2, TypeCorrect, PTL DEF Spec

\* The mutex excludes, the rescuers' timed wait included.
THEOREM MutualExclusion == Spec => []MutexOK
<1>1. IInv => MutexOK
  BY DEF IInv, MutexOK
<1> QED BY <1>1, Invariance, PTL

\* pf_outputs_emergency_off under the lock is final, for any number of relays:
\* the second look at the latch in pf_outputs_set leaves no write that could
\* still switch one on.
THEOREM EmergencyIsFinal == Spec => []DrivenOffStaysOff
<1>1. IInv => DrivenOffStaysOff
  BY DEF IInv, Final, DrivenOffStaysOff
<1> QED BY <1>1, Invariance, PTL

\* What the daemon believes of a relay is what the relay is.
THEOREM BeliefIsTrue == Spec => []StateMatchesRelays
<1>1. IInv => StateMatchesRelays
  BY DEF IInv, Belief, MutexOK, Inside, Thread, NoThread, StateMatchesRelays
<1> QED BY <1>1, Invariance, PTL
=============================================================================
