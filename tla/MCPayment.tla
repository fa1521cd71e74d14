------------------------------ MODULE MCPayment ------------------------------
(* Payments for TLC: the sessions and the payments are interchangeable, and   *)
(* one of the two teams is still being set up.                                *)
EXTENDS Payment, TLC

CONSTANTS s1, s2, p1, p2, t1

\* The first team has its accounts, the second none yet.
MCOpened == [t \in Team |-> IF t = t1 THEN 3 ELSE 0]

Symmetry == Permutations({s1, s2}) \cup Permutations({p1, p2})
==============================================================================
