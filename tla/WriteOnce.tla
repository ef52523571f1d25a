------------------------------- MODULE WriteOnce -------------------------------
(***************************************************************************)
(* What the work-result cache promises its callers: a register that is     *)
(* written once.  Setting it succeeds for one value only; every caller     *)
(* that was told "stored" was told so for that value.  The disk may lose   *)
(* the value, and then the promise is still kept.                          *)
(***************************************************************************)
CONSTANTS Values, Unset, Lost

VARIABLES
  cell,      \* the register
  promised   \* values some caller has been told are stored

Init == cell = Unset /\ promised = {}

Set(v) == cell = Unset /\ cell' = v /\ UNCHANGED promised

Promise(v) ==
  /\ cell \in {v, Lost} /\ promised \subseteq {v}
  /\ promised' = {v}
  /\ UNCHANGED cell

Lose == cell \in Values /\ cell' = Lost /\ UNCHANGED promised

Next == Lose \/ \E v \in Values : Set(v) \/ Promise(v)

Spec == Init /\ [][Next]_<<cell, promised>>
=============================================================================
