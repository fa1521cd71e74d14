---------------------------- MODULE RefLifecycle ----------------------------
(***************************************************************************)
(* What the accounting service promises about one external event, named by *)
(* its ref id (an order, a payment, a transfer): it is booked at most once *)
(* and its booking is cancelled at most once, whatever number of requests  *)
(* and retries arrive.  Replacing the amounts of a booked event leaves it  *)
(* booked.                                                                 *)
(***************************************************************************)
CONSTANT Ref

VARIABLE state

Absent == "absent"
Live == "live"
Cancelled == "cancelled"

Init == state = [r \in Ref |-> Absent]

Post(r) == /\ state[r] = Absent
           /\ state' = [state EXCEPT ![r] = Live]

Cancel(r) == /\ state[r] = Live
             /\ state' = [state EXCEPT ![r] = Cancelled]

Next == \E r \in Ref : Post(r) \/ Cancel(r)

Spec == Init /\ [][Next]_state
==============================================================================
