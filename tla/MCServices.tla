----------------------------- MODULE MCServices -----------------------------
(***************************************************************************)
(* Services for TLC: the values of its larger constants.                   *)
(***************************************************************************)
EXTENDS Services, TLC

\* Conditions: trees of one to three levels, with every kind of leaf
Leaf(t, o, v, v2, f) ==
  [is |-> "leaf", trait |-> t, op |-> o, value |-> v, value2 |-> v2, for |-> f]
Num(x) == [is |-> "number", of |-> "none", n |-> x]
Of(t, off) == [is |-> "trait", of |-> t, n |-> off]
Group(o, f) == [is |-> "group", op |-> o, for |-> f]

Hot(f) == Leaf("temp", ">=", Num(221), Num(0), f)
Done(f) == Leaf("temp", ">=", Of("target", -9), Num(0), f)
Nearby(f) == Leaf("over", "within", Num(0), Num(9), f)
Band(f) == Leaf("temp", "between", Num(212), Num(230), f)
Close(f) == Leaf("temp", "within", Num(221), Num(9), f)
Lost(f) == Leaf("temp", "unavailable", Num(0), Num(0), f)
Known == Leaf("target", "available", Num(0), Num(0), 0)
One == Leaf("temp", "is_one_of", {212, 230}, Num(0), 0)
Cold(f) == Leaf("over", "<=", Num(-9), Num(0), f)
Unset == Leaf("none", "==", Num(0), Num(0), 0)

Tree2(o, f, a, b) == <<>> :> Group(o, f) @@ <<1>> :> a @@ <<2>> :> b
Tree3(o, f, g, a, b, c) ==
  <<>> :> Group(o, f) @@ <<1>> :> g @@ <<1, 1>> :> a @@ <<1, 2>> :> b @@ <<2>> :> c

MCTrees ==
  {Tree2("all", 1, Hot(2), Done(0)), Tree2("any", 2, Nearby(1), Lost(2)), Tree2("not", 1, Hot(0), Band(1)),
   Tree2("all", 0, Known, One), Tree2("any", 0, Cold(2), Close(1)), Tree2("all", 2, Unset, Hot(0)),
   <<>> :> Group("not", 0), <<>> :> Hot(3),
   Tree3("all", 1, Group("any", 1), Hot(1), Nearby(0), Known),
   Tree3("any", 1, Group("not", 2), Done(1), Band(0), Lost(1)),
   Tree3("all", 0, Group("all", 1), Hot(1), Done(2), Nearby(1))}

\* Tuner: the baseline first; a new database, and the full library of two earlier runs
MCRuns == {<<150, 100>>}
LOCAL NoPlant == [of |-> {}, src |-> "none"]
LOCAL Entry(sp, ids, plant) == [sp |-> sp, tune |-> ids, runs |-> Cardinality(ids), plant |-> plant]
LOCAL Empty == Entry(0, {}, NoPlant)
MCDatabases ==
  {[lib |-> <<Empty, Empty>>, model |-> FALSE, relay |-> [id |-> 0, sp |-> 0]],
   [lib |-> <<Entry(150, {7, 9}, [of |-> {7, 9}, src |-> "relay"]), Entry(100, {8}, NoPlant)>>,
    model |-> TRUE, relay |-> [id |-> 9, sp |-> 150]]}

\* BluetoothScan: a maker that names itself, one known by its service, one by its name
MCObjects == {[name |-> "cq", maker |-> TRUE, service |-> "", long |-> FALSE],
  [name |-> "thermometer", maker |-> TRUE, service |-> "", long |-> TRUE],
  [name |-> "ibbq", maker |-> FALSE, service |-> "", long |-> FALSE]}

\* Bluetooth: one probe pinned to a thermometer, one that takes any of its name, and a listener
MCPinned == ("pin" :> "t") @@ ("any" :> "nowhere") @@ ("cq" :> "q")
MCCalled == ("pin" :> {}) @@ ("any" :> {"t"}) @@ ("cq" :> {})

\* Probes: two channels of a converter; a wireless probe with its air and a virtual grill; the
\* same without the port for its air
LOCAL D(n, d, p) == [name |-> n, driver |-> d, ports |-> p]
LOCAL P(l, d, p, r, ambient) == [label |-> l, device |-> d, port |-> p, role |-> r,
  enabled |-> TRUE, air |-> ambient, named |-> ambient, said |-> FALSE]
MCSetups == {
  [devices |-> <<D("adc", "ads1115", {"A0", "A1"})>>,
   probes |-> <<P("Grill", "adc", "A0", "primary", FALSE), P("Food", "adc", "A1", "food", FALSE)>>],
  [devices |-> <<D("cq", "chefiq", {"A0", "BT1"}), D("v", "virtual", {"V"})>>,
   probes |-> <<P("Food", "cq", "A0", "food", FALSE), P("Air", "cq", "BT1", "aux", TRUE),
                P("Grill", "v", "V", "primary", FALSE)>>],
  [devices |-> <<D("cq", "chefiq", {"A0"})>>,
   probes |-> <<P("Food", "cq", "A0", "food", FALSE), P("Air", "cq", "BT1", "aux", TRUE)>>]}
=============================================================================
