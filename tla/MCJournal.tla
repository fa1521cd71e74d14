------------------------------ MODULE MCJournal ------------------------------
(* The journal of one transaction for TLC: two teams, a debit account and a  *)
(* credit account.                                                           *)
EXTENDS Journal, TLC

CONSTANTS cash, payable, t1, t2

MCBalanceType == [a \in Account |-> IF a = payable THEN "c" ELSE "d"]

\* Every account is moved both ways, in one book too.
BothWays == [a \in Account |-> {"to", "from"}]

\* The teams differ only in the books they happen to make.
Teams == Permutations({t1, t2})
==============================================================================
