------------------------------- MODULE Entries -------------------------------
(***************************************************************************)
(* The arithmetic of journal entries (accounting_core/model.go and         *)
(* journal_entries.go).  An entry has a debit side and a credit side; the  *)
(* balance type of its account says which side increases the account.      *)
(* Amounts are whole multiples of one money unit: the code computes with   *)
(* float64 and compares with a tolerance, which is the parameter Epsilon.  *)
(***************************************************************************)
EXTENDS Integers, FiniteSetsExt

CONSTANTS Account,       \* the accounts of the chart, whatever team owns them
          BalanceType,   \* "d" for a debit account, "c" for a credit account
          Epsilon        \* PrecisionEpsilon, in money units

ASSUME AccountAssumption == BalanceType \in [Account -> {"d", "c"}]
ASSUME EpsilonAssumption == Epsilon \in Nat \ {0}

Side == [debit : Nat, credit : Nat]

NoSide == [debit |-> 0, credit |-> 0]

\* BalanceType.DiffBalance: what a pair of sides adds to the balance.
DiffBalance(type, debit, credit) ==
  IF type = "d" THEN debit - credit ELSE credit - debit

\* ChangeBalance.Change: the net effect of summed entries on their account.
Change(a, s) == DiffBalance(BalanceType[a], s.debit, s.credit)

\* Mutant of SetAmountEntry: the sign of a negative amount is kept.
SetAmountEntrySigned(a, amount) ==
  IF (BalanceType[a] = "d") = (amount > 0)
  THEN [debit |-> amount, credit |-> 0] ELSE [debit |-> 0, credit |-> amount]

\* Account.SetAmountEntry, for the amounts it accepts (it refuses zero): a
\* positive amount goes to the increasing side, a negative one to the other.
SetAmountEntry(a, amount) ==
  IF (BalanceType[a] = "d") = (amount > 0)
  THEN [debit |-> IF amount > 0 THEN amount ELSE -amount, credit |-> 0]
  ELSE [debit |-> 0, credit |-> IF amount > 0 THEN amount ELSE -amount]

\* createEntryImpl.mergeEntry and the sums of AccountBalance: entries of one
\* account are added side by side.
Merge(s, e) == [debit |-> s.debit + e.debit, credit |-> s.credit + e.credit]

\* CompareFloatSafe(a, b, PrecisionEpsilon).
CompareFloatSafe(x, y) == x - y < Epsilon /\ y - x < Epsilon

\* Mutant of Reversal: debit and credit handed to Set in the wrong order.
ReversalSwapped(a, s) ==
  IF Change(a, s) = 0 THEN NoSide ELSE SetAmountEntry(a, Change(a, s))

\* The entry that cancels the net effect of s: what RollbackEntry hands to
\* Set, and what CreateEntry.Rollback hands to From and To.
Reversal(a, s) ==
  IF Change(a, s) = 0 THEN NoSide ELSE SetAmountEntry(a, -Change(a, s))

DebitTotal(sides, accounts) ==
  MapThenSumSet(LAMBDA a : sides[a].debit, accounts)
CreditTotal(sides, accounts) ==
  MapThenSumSet(LAMBDA a : sides[a].credit, accounts)

\* The check of Commit and of CheckEntry on a set of entries.
Balanced(sides, accounts) ==
  CompareFloatSafe(DebitTotal(sides, accounts), CreditTotal(sides, accounts))
==============================================================================
