------------------------------ MODULE AtomicBatch ------------------------------
(***************************************************************************)
(* What publishing a batch promises: all destinations change in one step   *)
(* or none does.  Only a batch that was killed, or that reports a failure  *)
(* of its rollback, may leave a mixture, each output what it was, the new  *)
(* one or missing.                                                         *)
(***************************************************************************)
EXTENDS Naturals

CONSTANTS Names, Missing

VARIABLES
  content,   \* what a reader is to find, batch numbers
  phase,     \* no batch, one that has not changed anything, one that has
  outcome,   \* of the last batch
  number     \* of the last batch

Init ==
  /\ content \in [Names -> {0, Missing}]
  /\ phase = "none" /\ outcome = "none" /\ number = 0

Begin ==
  /\ phase = "none"
  /\ phase' = "open" /\ outcome' = "running" /\ number' = number + 1
  /\ UNCHANGED content

Switch ==
  /\ phase = "open"
  /\ content' = [n \in Names |-> number]
  /\ phase' = "switched"
  /\ UNCHANGED <<outcome, number>>

Succeed ==
  /\ phase = "switched"
  /\ phase' = "none" /\ outcome' \in {"ok", "killed"}
  /\ UNCHANGED <<content, number>>

Fail ==
  /\ phase = "open"
  /\ phase' = "none" /\ outcome' = "failed"
  /\ UNCHANGED <<content, number>>

Break ==
  /\ phase = "open"
  /\ \A n \in Names : content'[n] \in {content[n], number, Missing}
  /\ phase' = "none" /\ outcome' \in {"torn", "killed"}
  /\ UNCHANGED number

Next == Begin \/ Switch \/ Succeed \/ Fail \/ Break

Spec == Init /\ [][Next]_<<content, phase, outcome, number>>
=============================================================================
