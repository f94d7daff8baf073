-------------------------------- MODULE OrderLife --------------------------------
(***************************************************************************)
(* What a payment order promises: it is opened once, and then either       *)
(* failed, or paid and applied to the subscription once.  Nothing happens  *)
(* to it afterwards.                                                       *)
(***************************************************************************)
EXTENDS Naturals

CONSTANT Orders

VARIABLES
  status,   \* the status of each order
  applied   \* how many times its payment was applied

vars == <<status, applied>>

Init ==
  /\ status = [n \in Orders |-> "NONE"]
  /\ applied = [n \in Orders |-> 0]

Open(n) ==
  /\ status[n] = "NONE"
  /\ status' = [status EXCEPT ![n] = "PENDING"]
  /\ UNCHANGED applied

Fail(n) ==
  /\ status[n] = "PENDING"
  /\ status' = [status EXCEPT ![n] = "FAILED"]
  /\ UNCHANGED applied

Pay(n) ==
  /\ status[n] = "PENDING"
  /\ status' = [status EXCEPT ![n] = "PAID"]
  /\ applied' = [applied EXCEPT ![n] = @ + 1]

Next == \E n \in Orders : Open(n) \/ Fail(n) \/ Pay(n)

Spec == Init /\ [][Next]_vars
==================================================================================
