----------------------------- MODULE ProbeFilter -----------------------------
(***************************************************************************)
(* src/probes/tempq.c: one probe's filter, from the raw sample to what is   *)
(* reported.  A median, a running mean, and a gate that follows no faster   *)
(* than the slew until the difference has lasted.  Temperatures are whole   *)
(* numbers; the mean is kept as the sum, and the gate in the same scale.    *)
(***************************************************************************)
EXTENDS Integers, Sequences, FiniteSetsExt, Functions

CONSTANTS
  Levels,     \* what a raw sample may read
  Med,        \* PF_TEMPQ_MED: 5
  Mean,       \* PF_TEMPQ_LEN, 10 in the code
  Slew,       \* slew_c_s, a tick
  Hold,       \* hold_s, in ticks
  LongStep,   \* the most ticks the slew is counted over: 5 s
  Waits       \* the ticks from one sample to the next, one at least

VARIABLES
  med,        \* t->med, empty before the first sample
  means,      \* t->q
  out,        \* t->out_c
  held,       \* how long hold_since is past, -1 if it is not set
  unstable,
  lasting     \* history: how long the mean has stood at one level

fvars == <<med, means, out, held, unstable, lasting>>

Init ==
  /\ med = <<>> /\ means = <<>> /\ out = 0 /\ held = -1
  /\ unstable = FALSE /\ lasting = 0

\* median: the middle one of an odd number is the least that most of them do not exceed
Median(v) ==
  Min({x \in Range(v) : 2 * Cardinality({i \in DOMAIN v : v[i] <= x}) > Len(v)})

\* the sum behind the mean, sample by sample
SumOf(v) ==
  LET To[k \in 0..Len(v)] == IF k = 0 THEN 0 ELSE To[k - 1] + v[k] IN To[Len(v)]
Shifted(v, x) == <<x>> \o SubSeq(v, 1, Len(v) - 1)
Level(v) == \A i \in DOMAIN v : v[i] = v[1]

\* how long the difference has been held off, this sample included
HeldForAlways(dt) == 0   \* fault: the clock is set again at every sample held off
HeldFor(dt) == IF held < 0 THEN 0 ELSE held + dt

\* gate: after a longer wait it gives way no more than after LongStep
Gate(f, dt) ==
  LET d == f - out
      allowed == Slew * Mean * (IF dt > LongStep THEN LongStep ELSE dt)
      believed == held >= 0 /\ HeldFor(dt) >= Hold
  IN  IF (-allowed <= d /\ d <= allowed) \/ believed
      THEN out' = f /\ held' = -1 /\ unstable' = FALSE
      ELSE /\ out' = out + (IF d > 0 THEN allowed ELSE -allowed)
           /\ held' = HeldFor(dt) /\ unstable' = TRUE

\* pf_tempq_push: the first sample fills both stages
First(c) ==
  /\ med = <<>>
  /\ med' = [i \in 1..Med |-> c] /\ means' = [i \in 1..Mean |-> c]
  /\ out' = Mean * c /\ held' = -1 /\ unstable' = FALSE /\ lasting' = 0
Push(c, dt) ==
  /\ med # <<>>
  /\ med' = Shifted(med, c)
  /\ means' = Shifted(means, Median(med'))
  /\ Gate(SumOf(means'), dt)
  /\ lasting' = IF ~Level(means') THEN 0
                ELSE IF Level(means) /\ means = means'
                THEN IF lasting + dt > Hold THEN Hold + 1 ELSE lasting + dt ELSE 0

\* pf_tempq_reset: ten seconds without a reading
Reset ==
  /\ med' = <<>> /\ means' = <<>> /\ out' = 0 /\ held' = -1
  /\ unstable' = FALSE /\ lasting' = 0

Next ==
  \/ \E c \in Levels : First(c)
  \/ \E c \in Levels, dt \in Waits : Push(c, dt)
  \/ Reset

Spec == Init /\ [][Next]_fvars

-----------------------------------------------------------------------------

\* "A change that is still there after that is the grill, and is taken whole"
\* (probes.c:197-199): whatever was held off before, once the mean has stood
\* at a level for the hold time that level is what is reported.
LastingIsBelieved ==
  lasting >= Hold => out = SumOf(means) /\ ~unstable

=============================================================================
