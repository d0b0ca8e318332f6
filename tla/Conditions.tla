------------------------------ MODULE Conditions ----------------------------
(***************************************************************************)
(* What a condition tree of a rule or of a recipe step says                  *)
(* (src/features/rules.c: trait_of, compare, eval_node_inner,                 *)
(* held_long_enough, convert_node_units), evaluated once a second against    *)
(* the status, and what it is meant to say.                                 *)
(*                                                                         *)
(* A tree is a group of conditions and of groups of conditions. A condition   *)
(* compares a trait with a number or with another trait plus an offset; every *)
(* node may have a time it must have been true for.                          *)
(***************************************************************************)
EXTENDS Integers, Sequences, FiniteSets

CONSTANTS
  Trees,     \* the trees written
  Readings,  \* what a trait can read, in Fahrenheit; Nothing when the grill cannot say
  Targets,   \* the targets of the probe, 0 for none
  Timers,    \* MAX_NODE_TIMERS
  Width,     \* how many conditions a group has; from 32 on the code's paths run together
  MaxTicks   \* bound on the seconds

VARIABLES
  tree,      \* the tree, as written: a function from paths to nodes, <<>> its root
  past,      \* the status of each second so far: [temp, target]
  clocks,    \* node timers: the nodes that have one, with the second they became true, 0 for not
  answer     \* the last evaluation

cvars == <<tree, past, clocks, answer>>

Nothing == 9999

-----------------------------------------------------------------------------
(* trait_of *)

\* a probe's reading, its target when it has one, and how far past it it is
Trait(s, name) ==
  CASE name = "temp" -> s.temp
    [] name = "target" -> IF s.target > 0 THEN s.target ELSE Nothing
    [] name = "over" -> IF s.temp = Nothing \/ s.target <= 0 \/ s.target = Nothing THEN Nothing
                        ELSE s.temp - s.target

\* resolve_operand: a number, or a trait and an offset
Operand(s, v) ==
  IF v.is = "number" THEN v.n
  ELSE LET a == Trait(s, v.of) IN IF a = Nothing THEN Nothing ELSE a + v.n

\* compare: a reading the grill cannot give satisfies nothing
Compare(a, op, b, b2, db) ==
  CASE op = "unavailable" -> a = Nothing
    [] op = "available" -> a # Nothing
    [] op \notin {"unavailable", "available"} ->
         /\ a # Nothing /\ b # Nothing
         /\ CASE op = ">=" -> a >= b - db
              [] op = "<=" -> a <= b + db
              [] op = "between" -> b2 # Nothing /\ a >= b - db /\ a <= b2 + db
              [] op = "within" -> b2 # Nothing /\ a - b <= b2 + db /\ b - a <= b2 + db

LeafNow(s, n) ==
  IF n.trait = "none" THEN TRUE
  ELSE IF n.op = "is_one_of" THEN Trait(s, n.trait) # Nothing /\ Trait(s, n.trait) \in n.value
  ELSE Compare(Trait(s, n.trait), n.op, Operand(s, n.value), Operand(s, n.value2), 0)

\* eval_node_inner: a group with nothing in it describes nothing, whatever joins it
GroupNow(op, R) ==
  /\ DOMAIN R # {}
  /\ CASE op = "all" -> \A i \in DOMAIN R : R[i]
       [] op = "any" -> \E i \in DOMAIN R : R[i]
       [] op = "not" -> ~\A i \in DOMAIN R : R[i]

Kids(p) == {i \in 1..Width : Append(p, i) \in DOMAIN tree}
IsGroup(p) == tree[p].is = "group"

-----------------------------------------------------------------------------
(* held_long_enough *)

Timed == {p \in DOMAIN tree : tree[p].for > 0}

\* the order the nodes are answered in: a group after what is in it
Before(p, q) ==
  \/ Len(p) > Len(q) /\ SubSeq(p, 1, Len(q)) = q
  \/ \E k \in 1..Len(p) : k <= Len(q) /\ p[k] < q[k] /\ SubSeq(p, 1, k - 1) = SubSeq(q, 1, k - 1)

\* the first MAX_NODE_TIMERS of them have a clock; the others are never true
HasClock(p) == Cardinality({q \in Timed : Before(q, p)}) < Timers

Second == Len(past) + 1

SinceKept(p, true) == IF clocks[p] = 0 THEN (IF true THEN Second ELSE 0) ELSE clocks[p]
                                       \* fault: a clock once started is not stopped
\* every node is answered every time, none is skipped
Since(p, true) == IF ~true THEN 0 ELSE IF clocks[p] = 0 THEN Second ELSE clocks[p]
Held(p, true) ==
  IF tree[p].for <= 0 THEN true
  ELSE HasClock(p) /\ Since(p, true) # 0 /\ Second - Since(p, true) >= tree[p].for

\* eval_path: what each node says of the status s, with the clocks as they stand
Raw(s, p, f) == IF IsGroup(p) THEN GroupNow(tree[p].op, [i \in Kids(p) |-> f[Append(p, i)]])
                ELSE LeafNow(s, tree[p])
Says(s) == LET f[p \in DOMAIN tree] == Held(p, Raw(s, p, f)) IN f

Evaluate(s) ==
  LET f == Says(s) IN
  /\ answer' = f[<<>>]
  /\ clocks' = [p \in Timed |-> Since(p, Raw(s, p, f))]
  /\ past' = Append(past, s)
  /\ UNCHANGED tree

Init ==
  /\ tree \in Trees
  /\ past = <<>> /\ clocks = [p \in Timed |-> 0] /\ answer = FALSE

Next ==
  /\ Len(past) < MaxTicks
  /\ \E t \in Readings, target \in Targets : Evaluate([temp |-> t, target |-> target])

Spec == Init /\ [][Next]_cvars

-----------------------------------------------------------------------------
(* Units *)

\* convert_node_units to Celsius: a reading moves by the freezing point, a gap by the ratio alone
Gap(x) == (x * 5) \div 9
Degrees(x) == ((x - 32) * 5) \div 9
Conv(x, gap) == IF gap THEN Gap(x) ELSE Degrees(x)
ConvertAll(n) ==     \* fault: the width of a "within" is taken for a reading
  [n EXCEPT !.value.n = Conv(@, n.trait = "over"), !.value2.n = Conv(@, n.trait = "over")]
\* (an offset in the second operand is left as it is)
ConvertNode(n) ==
  [n EXCEPT !.value.n = Conv(@, n.trait = "over" \/ n.value.is = "trait"),
            !.value2.n = IF n.value2.is = "number" THEN Conv(@, n.trait = "over" \/ n.op = "within") ELSE @]

Celsius(s) ==
  [temp |-> IF s.temp = Nothing THEN Nothing ELSE Degrees(s.temp),
   target |-> IF s.target = 0 THEN 0 ELSE Degrees(s.target)]

-----------------------------------------------------------------------------
(* What must hold *)

\* What a node says of the second j, when m is what is meant by the nodes in it
RawMeant(m, p, j) ==
  IF IsGroup(p) THEN GroupNow(tree[p].op, [i \in Kids(p) |-> m[Append(p, i)][j]])
  ELSE LeafNow(past[j], tree[p])

\* What a node means: its condition held in every one of the last seconds it asks for.
Means(m, p, k) ==
  IF tree[p].for <= 0 THEN RawMeant(m, p, k)
  ELSE HasClock(p) /\ k > tree[p].for /\ \A j \in (k - tree[p].for)..k : RawMeant(m, p, j)

Meant == LET m[p \in DOMAIN tree] == [k \in 1..Len(past) |-> Means(m, p, k)] IN m

Meaning == Meant[<<>>][Len(past)]

\* Timers inside timers, in groups joined any way, answer what they mean; a condition that has not
\* been true for its time is not true because another one was answered first (rules.c:343).
MeansWhatItSays == past # <<>> => answer = Meaning

\* A change of units leaves every condition about a temperature, with a number for its second
\* operand, saying what it said (rules.c:1001).
SameInCelsius ==
  past # <<>> =>
    \A p \in DOMAIN tree : ~IsGroup(p) /\ tree[p].op # "is_one_of" =>
      LeafNow(past[Len(past)], tree[p]) = LeafNow(Celsius(past[Len(past)]), ConvertNode(tree[p]))
=============================================================================
