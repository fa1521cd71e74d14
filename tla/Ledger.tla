-------------------------------- MODULE Ledger --------------------------------
(***************************************************************************)
(* The books of all teams, as the handlers of revenue/ and stock/ see      *)
(* them: a handler posts, under a ref of its own, a book for every team    *)
(* the event concerns.  Each side keeps its own accounts, named by a key   *)
(* and by the team the account stands for (its owner).                     *)
(*                                                                         *)
(* A handler runs in one OpenTransaction: it posts all its books or none,  *)
(* and a call that fails changes nothing, so only those that succeed are   *)
(* steps.  How concurrent calls interleave is the subject of Posting, the  *)
(* two sides of an entry that of Journal.                                  *)
(***************************************************************************)
EXTENDS Integers, Sequences, FiniteSetsExt

CONSTANTS Seller, Warehouse,
          Id,        \* ids the other services give orders, restocks, transfers
          MaxCalls   \* bound: calls that succeed

Party == Seller \cup Warehouse

\* The type of a team says whether it sells or keeps a warehouse.
ASSUME PartyAssumption ==
  IsFiniteSet(Seller) /\ IsFiniteSet(Warehouse) /\ Seller \cap Warehouse = {}
ASSUME BoundAssumption == MaxCalls \in Nat

\* The credit accounts among those the handlers use; the others are debit.
CreditKeys == {"payable", "service_revenue", "sales_revenue",
               "borrow_stock_revenue", "other_revenue"}

VARIABLES ledger,  \* ledger[<<type, id>>][<<team, key, owner>>]: what the ref adds
          calls

vars == <<ledger, calls>>

Init == ledger = <<>> /\ calls = 0
------------------------------------------------------------------------------
\* CreateEntry: a book is the team that keeps it and the calls of To and From.
To(key, owner, amount) == <<[key |-> key, owner |-> owner, amount |-> amount]>>
\* Mutant of From: key and owner change places.
FromSwapped(key, owner, amount) == To(owner, key, -amount)

From(key, owner, amount) == To(key, owner, -amount)
Book(team, moves) == [team |-> team, moves |-> moves]
When(condition, part) == IF condition THEN part ELSE <<>>

Account(b, i) == <<b.team, b.moves[i].key, b.moves[i].owner>>
Touched(b) == {Account(b, i) : i \in DOMAIN b.moves}
Net(b, x) == MapThenSumSet(LAMBDA i : b.moves[i].amount,
                           {i \in DOMAIN b.moves : Account(b, i) = x})

\* Debit less credit of a move.
Raw(move) == IF move.key \in CreditKeys THEN -move.amount ELSE move.amount

\* Commit saves the book: there are entries, no amount was zero, debits equal
\* credits, and no entry has equal sides (it would stay unsaved and
\* OpenTransaction refuses that).
Accepted(b) == /\ b.moves # <<>>
               /\ \A i \in DOMAIN b.moves : b.moves[i].amount # 0
               /\ MapThenSumSet(LAMBDA i : Raw(b.moves[i]), DOMAIN b.moves) = 0
               /\ \A x \in Touched(b) : Net(b, x) # 0

\* What a sequence of books adds to the accounts.
Effect(books) ==
  [x \in UNION {Touched(books[j]) : j \in DOMAIN books} |->
     MapThenSumSet(LAMBDA j : Net(books[j], x), DOMAIN books)]

\* One more call; the handler commits all its books or fails.
Called(books) == /\ calls < MaxCalls
                 /\ calls' = calls + 1
                 /\ books # <<>>
                 /\ \A j \in DOMAIN books : Accepted(books[j])

\* The handler creates the transaction of a ref that is still free.
Post(type, id, books) == /\ <<type, id>> \notin DOMAIN ledger
                         /\ Called(books)
                         /\ ledger' = [r \in DOMAIN ledger \cup {<<type, id>>} |->
                              IF r = <<type, id>> THEN Effect(books) ELSE ledger[r]]

\* The teams that have rows in ref r.
Teams(r) == {x[1] : x \in DOMAIN ledger[r]}

\* RollbackEntry can reverse r: every team that has rows has a net effect.
Reversible(r) ==
  /\ r \in DOMAIN ledger
  /\ \A t \in Teams(r) : \E x \in DOMAIN ledger[r] : x[1] = t /\ ledger[r][x] # 0

\* The entries of a ref after its reversal: the rows stay, their net is zero.
Reversed(entries) == [x \in DOMAIN entries |-> 0]

\* Entries of a ref with more books added.
Merged(entries, more) ==
  [x \in DOMAIN entries \cup DOMAIN more |->
     (IF x \in DOMAIN entries THEN entries[x] ELSE 0)
       + (IF x \in DOMAIN more THEN more[x] ELSE 0)]

\* TransactionMutation.RollbackEntry on its own.
Rollback(r) == /\ Reversible(r)
               /\ calls < MaxCalls
               /\ calls' = calls + 1
               /\ ledger' = [ledger EXCEPT ![r] = Reversed(@)]
------------------------------------------------------------------------------
\* What ref r, and all refs, add to the account team keeps for owner.
Part(r, team, key, owner) ==
  IF r \in DOMAIN ledger /\ <<team, key, owner>> \in DOMAIN ledger[r]
  THEN ledger[r][<<team, key, owner>>] ELSE 0

Balance(team, key, owner) ==
  MapThenSumSet(LAMBDA r : Part(r, team, key, owner), DOMAIN ledger)
==============================================================================
