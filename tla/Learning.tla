------------------------------- MODULE Learning -----------------------------
(***************************************************************************)
(* src/features/learning.c: what the grill has measured about itself. The   *)
(* tuning library has a few slots, one for each set point measured; an      *)
(* entry holds a tune, averaged over the relay tests behind it, and a plant *)
(* (gain, time constant, dead time) taken from a relay or from the capture  *)
(* of a climb. A tune and a plant are the sets of the measurements in them; *)
(* their numbers, and the feed-forward fit, are left out.                  *)
(***************************************************************************)
EXTENDS Integers, FiniteSets, FiniteSetsExt

CONSTANTS
  Slots,        \* PF_TUNE_ANCHORS
  Points,       \* set points, in degrees
  Near,         \* 5: closer than this is the same set point
  MaxMeasures,  \* bound on relay tests and captures
  Databases     \* what earlier lives may have left in the database, of [lib, model, relay]

VARIABLES
  lib,          \* g_anchors
  waiting,      \* g_pending_plant: a capture at a set point without an entry, or none
  model,        \* g_fopdt is valid
  relay,        \* g_at: the last relay result, [id, sp] with the set point it was measured at
  gen,          \* g_at_gen
  measures      \* how many measurements there have been

lvars == <<lib, waiting, model, relay, gen, measures>>

NoPlant == [of |-> {}, src |-> "none"]
Blank == [sp |-> 0, tune |-> {}, runs |-> 0, plant |-> NoPlant]
NotWaiting == [sp |-> 0, id |-> 0]
NoResult == [id |-> 0, sp |-> 0]

\* a library has one entry for each set point measured
IsEntry(a) == /\ {"sp", "tune", "runs", "plant"} \subseteq DOMAIN a
              /\ a.tune # {} /\ a.sp \in Points
IsLibrary(L) ==
  /\ L = [i \in 1..Slots |-> L[i]]
  /\ \A i \in 1..Slots : L[i] = Blank \/ IsEntry(L[i])
  /\ \A i, j \in 1..Slots : IsEntry(L[i]) /\ IsEntry(L[j]) /\ L[i].sp = L[j].sp => i = j

LInit ==
  /\ \E found \in Databases : lib = found.lib /\ model = found.model /\ relay = found.relay
  /\ waiting = NotWaiting /\ gen = 0
  /\ measures = 0

-----------------------------------------------------------------------------
(* Slots *)

Apart(a, b) == IF a > b THEN a - b ELSE b - a
Close(a, b) == Apart(a, b) < Near

Used(L) == {i \in 1..Slots : L[i].tune # {}}
Matching(L, sp) == {i \in Used(L) : Close(L[i].sp, sp)}

\* how alone an entry is, weighted by how well measured it is
Worth(L, i) == Min({Apart(L[i].sp, L[j].sp) : j \in Used(L) \ {i}}) * (4 + Min({L[i].runs, 4}))

\* the first entry within Near, else the first empty slot, else the least useful entry
SlotFor(L, sp) ==
  IF Matching(L, sp) # {} THEN Min(Matching(L, sp))
  ELSE IF Used(L) # 1..Slots THEN Min((1..Slots) \ Used(L))
  ELSE LET least == Min({Worth(L, i) : i \in 1..Slots})
       IN  Min({i \in 1..Slots : Worth(L, i) = least})

\* anchor_take_plant: like is averaged with like, a relay replaces a capture, a capture never
\* touches a relay's
TakePlant(a, id, src) ==
  IF a.plant.src = "relay" /\ src = "capture" THEN a
  ELSE IF a.plant.src # src \/ a.runs <= 1 THEN [a EXCEPT !.plant = [of |-> {id}, src |-> src]]
  ELSE [a EXCEPT !.plant.of = @ \cup {id}]

\* pf_learning_store_anchor: the tune is refined when the entry is for this set point and replaced
\* when it made way; the plant follows when a static gain or a time constant is known
TauKnown(a, sp) == model \/ a.plant # NoPlant \/ (waiting # NotWaiting /\ Close(waiting.sp, sp))

StoreAnchor(L, sp, id, static) ==
  LET i == SlotFor(L, sp)
      refines == i \in Matching(L, sp)
      a == [L[i] EXCEPT !.sp = sp, !.tune = IF refines THEN @ \cup {id} ELSE {id},
                        !.runs = IF refines THEN @ + 1 ELSE 1]
  IN  [L EXCEPT ![i] = IF static \/ TauKnown(L[i], sp) THEN TakePlant(a, id, "relay") ELSE a]

WaitsOn(L, sp, static) ==
  IF static \/ TauKnown(L[SlotFor(L, sp)], sp) THEN NotWaiting ELSE waiting

\* pf_learning_put_anchor: as it was, over the first entry within Near, or into an empty slot
PutAnchor(L, a) ==
  IF Matching(L, a.sp) = {} /\ Used(L) = 1..Slots THEN L
  ELSE [L EXCEPT ![SlotFor(L, a.sp)] = a]

\* pf_learning_remove_anchor
WithoutAnchor(L, sp) ==
  IF Matching(L, sp) = {} THEN L ELSE [L EXCEPT ![Min(Matching(L, sp))] = Blank]

\* pf_learning_anchor_list: the used entries in the order of their set points
ListedFirst(L, set) == CHOOSE i \in set : \A j \in set : L[i].sp <= L[j].sp

-----------------------------------------------------------------------------
(* Calls *)

\* pf_learning_store_autotune
StoreAutotune(result) == relay' = result /\ gen' = gen + 1

\* learn_rise_track: a climb that was captured and could be fitted; pf_learning_store_fopdt and
\* pf_learning_store_anchor_plant
Capture(sp) ==
  /\ measures < MaxMeasures
  /\ measures' = measures + 1
  /\ model' = TRUE
  /\ IF Matching(lib, sp) = {}
       THEN waiting' = [sp |-> sp, id |-> measures + 1] /\ UNCHANGED lib
       ELSE /\ lib' = [lib EXCEPT ![Min(Matching(lib, sp))] = TakePlant(@, measures + 1, "capture")]
            /\ UNCHANGED waiting
  /\ UNCHANGED <<relay, gen>>

\* the learning page: one entry removed
Remove(sp) ==
  /\ Matching(lib, sp) # {}
  /\ lib' = WithoutAnchor(lib, sp)
  /\ UNCHANGED <<waiting, model, relay, gen, measures>>

\* pf_learning_clear_anchors
ClearAnchors == lib' = [i \in 1..Slots |-> Blank]

\* pf_learning_clear_tuning: the generation and a waiting plant stay
ClearTuning ==
  /\ ClearAnchors /\ model' = FALSE /\ relay' = NoResult
  /\ UNCHANGED <<waiting, gen, measures>>

\* heal_anchor_plant: a plant from a capture is worked out anew from the entry's own relay tests
Heal(a) == IF a.plant.src = "capture" THEN [a EXCEPT !.plant = [of |-> a.tune, src |-> "relay"]] ELSE a

\* anchors_save passes over empty slots, so what is read back has no gaps
Packed(L) == [k \in 1..Slots |->
  LET kth == {j \in Used(L) : Cardinality({i \in Used(L) : i < j}) = k - 1}
  IN  IF kth = {} THEN Blank ELSE L[CHOOSE j \in kth : TRUE]]

\* pf_learning_init, load_kv
LoadAll ==
  /\ lib' = [i \in 1..Slots |-> Heal(Packed(lib)[i])]
  /\ waiting' = NotWaiting /\ gen' = 0
  /\ UNCHANGED <<model, relay, measures>>

=============================================================================
