-------------------------- MODULE AugerFeed_proofs --------------------------
(***************************************************************************)
(* The feed's limits hold for every cap, rest, override and cycle, however *)
(* unevenly the control thread ticks.                                      *)
(*                                                                         *)
(* None of the three is inductive alone.  What carries them is where the   *)
(* tick stands: past the feed the run is within the cap and a resting      *)
(* auger has only just been switched on (Fed); and as long as nobody       *)
(* switches on what is on, the code's clock is the auger's own (Clocked).  *)
(***************************************************************************)
EXTENDS AugerFeed, TLAPS

\* The code's clock against the auger's.
Clocked ==
  /\ auger /\ ~again => run = since
  /\ ~auger => since = 0 /\ run = 0 /\ ~again

\* What the feed has seen to by the time the tick is past it.
Fed ==
  phase \in {"timed", "wait"} =>
    /\ auger => since <= Cap
    /\ auger /\ rest > 0 => run = 0

IInv == TypeOK /\ Clocked /\ Fed /\ RestIsKept /\ NeverOvercounted

CycleType == [active : BOOLEAN, age : Nat, on : 0 .. Cap, len : Nat]

-----------------------------------------------------------------------------

\* A cycle that begins is a cycle, its on time within the cap (pf_cycle_begin).
LEMMA BeginType == ASSUME NEW on \in Nat, NEW len \in Nat
                   PROVE  Begin(on, len) \in CycleType
  BY FeedAssumption DEF Begin, Smaller, CycleType

\* Every cycle that is begun for a mode is a cycle (smoke_cycle, enter_mode).
LEMMA FirstCyclesType == ASSUME NEW m \in Mode, NEW c \in FirstCycles(m)
                         PROVE  c \in CycleType
<1>1. NoCycle \in CycleType
  BY FeedAssumption DEF NoCycle, CycleType
<1>2. \A on \in HoldOn : Begin(on, HoldLen) \in CycleType
  BY BeginType, FeedAssumption
<1>3. Begin(SmokeOn, SmokeOn + SmokeOff) \in CycleType
  BY BeginType, FeedAssumption
<1>4. \A t \in PrimeTime : Begin(Smaller(t, Cap), Smaller(t, Cap) + 1) \in CycleType
  BY BeginType, FeedAssumption DEF Smaller
<1> QED BY <1>1, <1>2, <1>3, <1>4 DEF FirstCycles, SmokeCycles

\* The cycle a tick feeds by is one (run_hold_cycle, smoke_cycle).
LEMMA NextCyclesType == ASSUME TypeOK, NEW c \in NextCycles
                        PROVE  c \in CycleType
<1>1. \A on \in HoldOn : Begin(on, HoldLen) \in CycleType
  BY BeginType, FeedAssumption
<1>2. Begin(SmokeOn, SmokeOn + SmokeOff) \in CycleType
  BY BeginType, FeedAssumption
<1>3. cycle \in CycleType
  BY DEF TypeOK, CycleType
<1> QED BY <1>1, <1>2, <1>3 DEF NextCycles, SmokeCycles

\* Entering a mode keeps the invariant at any point of the tick (enter_mode).
LEMMA EnterKeeps == ASSUME IInv, NEW m \in Mode, EnterMode(m),
                           phase' \in {"cmd", "wait"}
                    PROVE  IInv'
<1>1. cycle' \in CycleType
  BY FirstCyclesType DEF EnterMode
<1>2. lid' \in BOOLEAN /\ again' \in BOOLEAN
  BY Zenon DEF EnterMode
<1>3. auger' \in BOOLEAN
  BY DEF EnterMode
<1>4. TypeOK'
  BY <1>1, <1>2, <1>3, FeedAssumption
  DEF IInv, TypeOK, EnterMode, CycleType, Forever
<1> QED
  BY <1>4, FeedAssumption
  DEF IInv, TypeOK, Clocked, Fed, RestIsKept, NeverOvercounted, EnterMode

LEMMA InitOK == Init => IInv
<1> SUFFICES ASSUME Init PROVE IInv
  OBVIOUS
<1>1. {auger, lid, again} \subseteq BOOLEAN
  BY Zenon DEF Init
<1>2. NoCycle \in CycleType
  BY FeedAssumption DEF NoCycle, CycleType
<1>3. TypeOK
  BY <1>1, <1>2, FeedAssumption DEF Init, TypeOK, CycleType, Mode, Forever
<1> QED
  BY <1>3, FeedAssumption
  DEF Init, IInv, Clocked, Fed, RestIsKept, NeverOvercounted

\* An open lid switches the auger off uncounted, a closed one changes nothing
\* (LID_TOGGLE, run_mode).
LEMMA LidMoves == ASSUME IInv, LidOpened \/ LidClosed,
                         phase' \in {"cmd", "feed"}
                  PROVE  IInv'
<1> USE FeedAssumption
<1>1. NoCycle \in CycleType
  BY DEF NoCycle, CycleType
<1>2. CASE LidOpened
  <2>1. {auger, lid, again}' \subseteq BOOLEAN
    BY <1>2, Zenon DEF LidOpened, Uncounted
  <2>2. TypeOK'
    BY <1>1, <1>2, <2>1 DEF LidOpened, Uncounted, IInv, TypeOK, CycleType
  <2> QED
    BY <1>2, <2>2 DEF LidOpened, Uncounted, IInv, TypeOK, Clocked, Fed,
            RestIsKept, NeverOvercounted
<1>3. CASE LidClosed
  <2>1. lid' \in BOOLEAN
    BY <1>3, Zenon DEF LidClosed
  <2>2. TypeOK'
    BY <1>3, <2>1 DEF LidClosed, feed, IInv, TypeOK
  <2> QED
    BY <1>3, <2>2 DEF LidClosed, feed, IInv, Clocked, Fed, RestIsKept,
            NeverOvercounted
<1> QED BY <1>2, <1>3

\* The commands and mode changes before run_mode.
LEMMA CommandsKeep == ASSUME IInv,
                             ChangeMode \/ HandOn \/ HandOff \/ ToggleLid
                               \/ Autotune \/ EndOfCommands
                      PROVE  IInv'
<1> USE FeedAssumption DEF feed
<1>1. CASE ChangeMode
  <2>1. PICK m \in Leads(mode) : EnterMode(m)
    BY <1>1 DEF ChangeMode
  <2>2. m \in Mode
    BY <2>1 DEF Leads, Mode, Burns, IInv, TypeOK
  <2> QED BY <1>1, <2>1, <2>2, EnterKeeps DEF ChangeMode
<1>2. CASE HandOn
  BY <1>2 DEF HandOn, IInv, TypeOK, Clocked, Fed, RestIsKept,
              NeverOvercounted, Forever
<1>3. CASE HandOff
  <2>1. {auger, again}' \subseteq BOOLEAN
    BY <1>3, Zenon DEF HandOff, Uncounted
  <2> QED
    BY <1>3, <2>1 DEF HandOff, Uncounted, IInv, TypeOK, Clocked, Fed,
            RestIsKept, NeverOvercounted, Forever
<1>4. CASE ToggleLid
  <2>1. phase' = phase
    BY <1>4 DEF ToggleLid
  <2> QED BY <1>4, <2>1, LidMoves DEF ToggleLid
<1>5. CASE Autotune
  <2>1. PICK on \in HoldOn : cycle' = Begin(on, HoldLen)
    BY <1>5 DEF Autotune
  <2>2. cycle' \in CycleType
    BY <2>1, BeginType
  <2> QED
    BY <1>5, <2>2 DEF Autotune, IInv, TypeOK, Clocked, Fed, RestIsKept,
            NeverOvercounted, CycleType
<1>6. CASE EndOfCommands
  BY <1>6 DEF EndOfCommands, IInv, TypeOK, Clocked, Fed, RestIsKept,
              NeverOvercounted
<1> QED BY <1>1, <1>2, <1>3, <1>4, <1>5, <1>6

\* The lid pauses or resumes the feed (run_mode).
LEMMA LidKeeps == ASSUME IInv, Lid PROVE IInv'
<1>1. phase = "lid" /\ phase' = "feed"
  BY DEF Lid
<1>2. CASE LidOpened \/ LidClosed
  BY <1>1, <1>2, LidMoves
<1>3. CASE UNCHANGED <<mode, rest, manual, lid, cycle, feed>>
  BY <1>1, <1>3, FeedAssumption
  DEF feed, IInv, TypeOK, Clocked, Fed, RestIsKept, NeverOvercounted
<1> QED BY <1>2, <1>3 DEF Lid

\* The cycle, the rest and the cap (run_mode).
LEMMA FeedKeeps == ASSUME IInv, Feed PROVE IInv'
<1> USE FeedAssumption
<1>1. cycle' \in CycleType
  BY NextCyclesType DEF Feed, IInv, TypeOK, CycleType
<1>2. phase' = "timed" /\ UNCHANGED <<mode, lid>>
  BY DEF Feed
<1>3. CASE On /\ rest = 0 /\ ~auger /\ UNCHANGED <<rest, manual>>
  <2>1. TypeOK'
    BY <1>1, <1>2, <1>3 DEF On, IInv, TypeOK, CycleType
  <2> QED
    BY <1>2, <1>3, <2>1 DEF On, IInv, TypeOK, Clocked, Fed, RestIsKept,
            NeverOvercounted
<1>4. ASSUME Counted \/ Uncounted, rest' \in {rest, Rest}, manual' \in {manual, 0}
      PROVE  IInv'
  <2>1. auger' \in BOOLEAN /\ again' \in BOOLEAN
    BY <1>4, Zenon DEF Counted, Uncounted
  <2>2. TypeOK'
    BY <1>1, <1>2, <1>4, <2>1
    DEF Counted, Uncounted, IInv, TypeOK, CycleType, Forever
  <2> QED
    BY <1>2, <1>4, <2>2 DEF Counted, Uncounted, IInv, TypeOK, Clocked, Fed,
            RestIsKept, NeverOvercounted
<1>5. CASE ~MustRest /\ ~Trips /\ UNCHANGED <<feed, rest, manual>>
  <2>1. TypeOK'
    BY <1>1, <1>2, <1>5 DEF feed, IInv, TypeOK, CycleType
  <2> QED
    BY <1>2, <1>5, <2>1 DEF feed, MustRest, Trips, IInv, TypeOK, Clocked, Fed,
            RestIsKept, NeverOvercounted
<1>6. \/ On /\ rest = 0 /\ ~auger /\ UNCHANGED <<rest, manual>>
      \/ (Counted \/ Uncounted) /\ UNCHANGED <<rest, manual>>
      \/ Counted /\ rest' = Rest /\ manual' = 0
      \/ ~MustRest /\ ~Trips /\ UNCHANGED <<feed, rest, manual>>
  BY Zenon DEF Feed, CycleOn
<1>7. CASE On /\ rest = 0 /\ ~auger /\ UNCHANGED <<rest, manual>>
  BY <1>3, <1>7
<1>8. CASE (Counted \/ Uncounted) /\ UNCHANGED <<rest, manual>>
  <2>1. rest' \in {rest, Rest} /\ manual' \in {manual, 0}
    BY <1>8
  <2> QED BY <1>4, <1>8, <2>1
<1>9. CASE Counted /\ rest' = Rest /\ manual' = 0
  BY <1>4, <1>9
<1>10. CASE ~MustRest /\ ~Trips /\ UNCHANGED <<feed, rest, manual>>
  BY <1>5, <1>10
<1> QED BY <1>6, <1>7, <1>8, <1>9, <1>10

\* The mode changes at the end of the tick (run_mode, the shutdown input).
LEMMA TimedKeeps == ASSUME IInv, Timed PROVE IInv'
<1>1. CASE \E m \in TimedModes : EnterMode(m)
  <2>1. PICK m \in TimedModes : EnterMode(m)
    BY <1>1
  <2>2. m \in Mode
    BY <2>1 DEF TimedModes, Mode, Burns
  <2> QED BY <2>1, <2>2, EnterKeeps DEF Timed
<1>2. CASE UNCHANGED <<mode, rest, manual, lid, cycle, feed>>
  BY <1>2, FeedAssumption
  DEF Timed, feed, IInv, TypeOK, Clocked, Fed, RestIsKept, NeverOvercounted
<1> QED BY <1>1, <1>2 DEF Timed

\* Time passes.
LEMMA WaitKeeps == ASSUME IInv, Wait PROVE IInv'
<1> USE FeedAssumption
<1>1. PICK d \in 1 .. Gap :
        /\ since' = IF auger THEN since + d ELSE since
        /\ run' = IF auger THEN Smaller(run + d, Cap + Gap + 1) ELSE run
        /\ owed' = IF auger THEN Smaller(owed + d, Lost) ELSE owed
        /\ rest' = Left(rest, d)
        /\ manual' = IF manual = Forever THEN Forever ELSE Left(manual, d)
        /\ cycle' = IF cycle.active
                      THEN [cycle EXCEPT !.age = Smaller(@ + d, cycle.len)]
                      ELSE cycle
  BY DEF Wait
<1>2. cycle' \in CycleType
  BY <1>1 DEF IInv, TypeOK, CycleType, Smaller
<1>3. TypeOK'
  BY <1>1, <1>2
  DEF Wait, IInv, TypeOK, Fed, CycleType, Smaller, Left, Forever
<1>4. Clocked' /\ NeverOvercounted'
  BY <1>1
  DEF Wait, IInv, TypeOK, Fed, Clocked, NeverOvercounted, Smaller
<1>5. Fed' /\ RestIsKept'
  BY <1>1
  DEF Wait, IInv, TypeOK, Fed, Clocked, RestIsKept, Smaller, Left
<1> QED BY <1>3, <1>4, <1>5 DEF IInv

LEMMA StepOK == IInv /\ [Next]_vars => IInv'
<1> SUFFICES ASSUME IInv, [Next]_vars PROVE IInv'
  OBVIOUS
<1>1. CASE Next
  BY <1>1, CommandsKeep, LidKeeps, FeedKeeps, TimedKeeps, WaitKeeps DEF Next
<1>2. CASE UNCHANGED vars
  BY <1>2 DEF vars, feed, IInv, TypeOK, Clocked, Fed, RestIsKept,
              NeverOvercounted
<1> QED BY <1>1, <1>2

LEMMA Invariant == Spec => []IInv
  BY InitOK, StepOK, PTL DEF Spec

-----------------------------------------------------------------------------

\* Every variable keeps its type, and only Hold has an open lid.
THEOREM TypeCorrect == Spec => []TypeOK
  BY Invariant, PTL DEF IInv

\* The auger cap of run_mode, whatever keeps the auger on, as long as nobody
\* switches on by hand what is already on.
THEOREM CapIsACap == Spec => []CapHolds
<1>1. IInv => CapHolds
  BY FeedAssumption DEF IInv, TypeOK, Clocked, CapHolds
<1> QED BY <1>1, Invariant, PTL

\* The rest after a cap outlives mode changes, hands and primes.
THEOREM RestIsARest == Spec => []RestIsKept
  BY Invariant, PTL DEF IInv

\* auger_total_on_s never says more than the auger has fed.
THEOREM TotalIsNoMore == Spec => []NeverOvercounted
  BY Invariant, PTL DEF IInv

=============================================================================
