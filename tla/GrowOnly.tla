-------------------------------- MODULE GrowOnly --------------------------------
(***************************************************************************)
(* What the setup cache promises its callers: grants that are as large as  *)
(* what was asked for, whatever the capacity is, and a shared capacity     *)
(* that only grows.  Two things may take from it: the machine stops, or a  *)
(* caller that could not read the capacity writes its own.  One caller at  *)
(* a time may be in that position, and the capacity waits for it.          *)
(***************************************************************************)
EXTENDS Naturals

CONSTANTS Callers, Amounts, Nobody

VARIABLES
  capacity,  \* 0 if there is none
  asked,     \* what every caller asks for
  granted,   \* what it has been granted, 0 if nothing
  blind      \* the caller that could not read the capacity, or Nobody

Init ==
  /\ capacity \in Amounts \cup {0}
  /\ asked \in [Callers -> Amounts]
  /\ granted = [c \in Callers |-> 0]
  /\ blind = Nobody

Ask(c, n) ==
  /\ blind # c
  /\ asked' = [asked EXCEPT ![c] = n]
  /\ granted' = [granted EXCEPT ![c] = 0]
  /\ UNCHANGED <<capacity, blind>>

Grant(c, n) ==
  /\ granted[c] = 0 /\ n >= asked[c]
  /\ granted' = [granted EXCEPT ![c] = n]
  /\ blind' = IF blind = c THEN Nobody ELSE blind
  /\ UNCHANGED <<capacity, asked>>

Grow(n) ==
  /\ blind = Nobody /\ n > capacity
  /\ capacity' = n
  /\ UNCHANGED <<asked, granted, blind>>

Misread(c) ==
  /\ blind = Nobody /\ capacity # 0 /\ granted[c] = 0
  /\ blind' = c
  /\ UNCHANGED <<capacity, asked, granted>>

\* It writes what it needs, or nothing.
Overwrite(n) ==
  /\ blind # Nobody /\ n >= asked[blind]
  /\ capacity' = n /\ blind' = Nobody
  /\ UNCHANGED <<asked, granted>>

GiveUp == blind' = Nobody /\ UNCHANGED <<capacity, asked, granted>>

\* The machine stops: the callers are gone, the capacity may be.
Lose ==
  /\ capacity' \in {capacity, 0}
  /\ granted' = [c \in Callers |-> 0]
  /\ blind' = Nobody
  /\ UNCHANGED asked

Next ==
  \/ Lose \/ GiveUp
  \/ \E c \in Callers : Misread(c)
  \/ \E n \in Amounts : Grow(n) \/ Overwrite(n) \/ \E c \in Callers : Ask(c, n) \/ Grant(c, n)

Spec == Init /\ [][Next]_<<capacity, asked, granted, blind>>
=============================================================================
