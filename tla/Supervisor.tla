----------------------------- MODULE Supervisor -----------------------------
(***************************************************************************)
(* What the mode machine (GrillControl) and flame supervision               *)
(* (FlameSafety) both promise of the pot, each knowing the fire its own     *)
(* way: the one by what Smart Start decided, the other by the fire itself.  *)
(* A pot is fed and left to burn only out of a light in which a fire was    *)
(* known, or which the cook ended; it is lit again by itself only out of    *)
(* burning, and never more often than its cook has relights; and out of an  *)
(* error it is put out before anything else.                               *)
(***************************************************************************)
EXTENDS Naturals

CONSTANT
  Retries    \* relights of one cook

VARIABLES
  pot,       \* out, lighting, relighting, burning or error
  known,     \* a fire is known, in the light that is on
  left,      \* the relights left of this cook
  hearing    \* the cook is heard just now, who may end a light: this module
             \*   does not say when

svars == <<pot, known, left>>

InLight == pot \in {"lighting", "relighting"}

\* A daemon may start in the middle of a cook.
Init ==
  /\ pot \in {"out", "lighting", "relighting", "error"} /\ known = FALSE
  /\ left \in 0 .. Retries /\ (pot # "relighting" => left = Retries)

\* A first light, from wherever the cook asks for it, but for an error.
Light == pot # "error" /\ pot' = "lighting" /\ left' = Retries /\ known' \in BOOLEAN

Catch == InLight /\ known' = TRUE /\ UNCHANGED <<pot, left>>

HandOver == InLight /\ (known \/ hearing) /\ pot' = "burning" /\ known' = FALSE /\ UNCHANGED left

Relight == pot = "burning" /\ left > 0 /\ pot' = "relighting" /\ left' = left - 1 /\ known' \in BOOLEAN

PutOut == pot' = "out" /\ known' = FALSE /\ UNCHANGED left

Fail == pot' = "error" /\ known' = FALSE /\ UNCHANGED left

Next == Light \/ Catch \/ HandOver \/ Relight \/ PutOut \/ Fail

Spec == Init /\ [][Next]_svars
=============================================================================
