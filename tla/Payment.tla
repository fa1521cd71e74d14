------------------------------- MODULE Payment -------------------------------
(***************************************************************************)
(* Payments between teams (package payment).  A team announces a payment;  *)
(* the receiving team accepts or rejects it, the paying team may cancel it *)
(* while it is pending.  Accepting writes a book for each of the two teams *)
(* under the payment's ref, one after the other; the second may be refused *)
(* when the first is written.  The calls are database transactions that    *)
(* lock the payment's row, read it, and save the whole row they read.      *)
(***************************************************************************)
EXTENDS Integers, Sequences, FiniteSetsExt

CONSTANTS Session,     \* concurrent calls the service runs
          Team,
          Opened,      \* how many accounts each team has to begin with
          PaymentId,   \* bound: payments that can be created
          Amount,      \* amounts a caller may ask for: PaymentCreate takes any
          None,        \* no session, no payment
          MaxRequests  \* bound: calls of accept, cancel and reject

ASSUME AmountAssumption == Amount \subseteq Int
ASSUME TeamAssumption == Team # {}
ASSUME OpenedAssumption == Opened \in [Team -> 0..3]
ASSUME BoundAssumption == MaxRequests \in Nat

VARIABLES accounts, \* how many of the accounts of SetupOrder each team has
          payment,  \* the committed rows
          lock,     \* which session holds a row's lock
          trans,    \* payments whose ref is in the transactions table
          balance,  \* committed net effect on the accounts: team, key, owner
          pc, call, id, team,  \* the request of each session
          copy,     \* the row it read
          written,  \* whose books it has written and not yet committed
          requests

vars == <<accounts, payment, lock, trans, balance,
          pc, call, id, team, copy, written, requests>>

Call == {"accept", "cancel", "reject"}
Key == {"cash", "payable", "receivable"}
SetupOrder == <<"receivable", "payable", "cash">>
Decision == [accept |-> "accepted", cancel |-> "canceled", reject |-> "rejected"]

Row == [from : Team, to : Team, amount : Amount,
        status : {"pending", "accepted", "canceled", "rejected"}]

ASSUME NoneAssumption == None \notin Session \cup PaymentId \cup Row

Init == /\ accounts = Opened
        /\ payment = [p \in PaymentId |-> None]
        /\ lock = [p \in PaymentId |-> None]
        /\ trans = {}
        /\ balance = [t \in Team |-> [k \in Key |-> [u \in Team |-> 0]]]
        /\ pc = [s \in Session |-> "idle"]
        /\ call = [s \in Session |-> "accept"]
        /\ id = [s \in Session |-> None]
        /\ team = [s \in Session |-> CHOOSE t \in Team : TRUE]
        /\ copy = [s \in Session |-> None]
        /\ written = [s \in Session |-> {}]
        /\ requests = 0
------------------------------------------------------------------------------
\* Setup creates the accounts of a team one by one, each committed at once.
Setup(t) ==
  /\ accounts[t] < Len(SetupOrder)
  /\ accounts' = [accounts EXCEPT ![t] = @ + 1]
  /\ UNCHANGED <<payment, lock, trans, balance,
                 pc, call, id, team, copy, written, requests>>

\* What a book looks up: the account of a key, of team t.
Has(t, k) == \E i \in 1..accounts[t] : SetupOrder[i] = k

\* PaymentCreate: one insert, no book.
PaymentCreate(p, from, to, amount) ==
  /\ payment[p] = None
  /\ payment' = [payment EXCEPT ![p] =
                   [from |-> from, to |-> to, amount |-> amount, status |-> "pending"]]
  /\ UNCHANGED <<accounts, lock, trans, balance,
                 pc, call, id, team, copy, written, requests>>

\* A call arrives, on behalf of team t, and its database transaction begins.
Begin(s, c, p, t) ==
  /\ pc[s] = "idle"
  /\ requests < MaxRequests
  /\ requests' = requests + 1
  /\ pc' = [pc EXCEPT ![s] = "begun"]
  /\ call' = [call EXCEPT ![s] = c]
  /\ id' = [id EXCEPT ![s] = p]
  /\ team' = [team EXCEPT ![s] = t]
  /\ UNCHANGED <<accounts, payment, lock, trans, balance, copy, written>>

\* Mutant of Return: the row lock outlives the transaction.
ReturnLocked(s) ==
  /\ pc' = [pc EXCEPT ![s] = "idle"]
  /\ id' = [id EXCEPT ![s] = None]
  /\ copy' = [copy EXCEPT ![s] = None]
  /\ written' = [written EXCEPT ![s] = {}]
  /\ UNCHANGED <<lock, call, team, requests>>

\* The transaction ends without a trace.
Return(s) ==
  /\ pc' = [pc EXCEPT ![s] = "idle"]
  /\ id' = [id EXCEPT ![s] = None]
  /\ copy' = [copy EXCEPT ![s] = None]
  /\ written' = [written EXCEPT ![s] = {}]
  /\ lock' = [p \in PaymentId |-> IF lock[p] = s THEN None ELSE lock[p]]
  /\ UNCHANGED <<call, team, requests>>

\* Mutant of Read: First without the locking clause.
ReadUnlocked(s) ==
  /\ pc[s] = "begun"
  /\ payment[id[s]] # None
  /\ copy' = [copy EXCEPT ![s] = payment[id[s]]]
  /\ pc' = [pc EXCEPT ![s] = "read"]
  /\ UNCHANGED <<accounts, payment, lock, trans, balance,
                 call, id, team, written, requests>>

\* SELECT ... FOR UPDATE waits for the row lock; there may be no such row.
Read(s) ==
  /\ pc[s] = "begun"
  /\ payment[id[s]] # None
  /\ lock[id[s]] = None
  /\ lock' = [lock EXCEPT ![id[s]] = s]
  /\ copy' = [copy EXCEPT ![s] = payment[id[s]]]
  /\ pc' = [pc EXCEPT ![s] = "read"]
  /\ UNCHANGED <<accounts, payment, trans, balance, call, id, team, written, requests>>

NoSuchPayment(s) ==
  /\ pc[s] = "begun"
  /\ payment[id[s]] = None
  /\ Return(s)
  /\ UNCHANGED <<accounts, payment, trans, balance>>

\* Mutant of Owner: the team of the cancel handler in the reject handler too.
OwnerOfReject(s) == IF call[s] \in {"cancel", "reject"} THEN copy[s].from ELSE copy[s].to

\* Which team may decide: the paying one cancels, the receiving one decides.
Owner(s) == IF call[s] = "cancel" THEN copy[s].from ELSE copy[s].to

\* Mutant of MayDecide: no look at the status.
MayDecideAlways(s) == team[s] = Owner(s)

MayDecide(s) == team[s] = Owner(s) /\ copy[s].status = "pending"

Refuse(s) ==
  /\ pc[s] = "read"
  /\ ~MayDecide(s)
  /\ Return(s)
  /\ UNCHANGED <<accounts, payment, trans, balance>>

Add(b, t, k, u, n) == [b EXCEPT ![t][k][u] = @ + n]

\* The two books of an accepted payment.  The paying team: From its cash, From
\* its debt to the receiver.  The receiving team: From its claim on the payer,
\* To its cash.  From of zero is an error of the book, which fails the call.
PayerBook(row, b) ==
  Add(Add(b, row.from, "cash", row.to, -row.amount),
      row.from, "payable", row.to, -row.amount)

ReceiverBook(row, b) ==
  Add(Add(b, row.to, "receivable", row.from, -row.amount),
      row.to, "cash", row.to, row.amount)

\* The accounts each of the books needs.
PayerFinds(row) == Has(row.to, "cash") /\ Has(row.to, "payable")
ReceiverFinds(row) == Has(row.from, "receivable") /\ Has(row.to, "cash")

\* PaymentAccept creates the transaction row and writes the payer's book, on
\* accounts of the receiver.
BookPayer(s) ==
  /\ pc[s] = "read"
  /\ MayDecide(s)
  /\ call[s] = "accept"
  /\ id[s] \notin trans
  /\ copy[s].amount # 0
  /\ PayerFinds(copy[s])
  /\ written' = [written EXCEPT ![s] = @ \cup {"payer"}]
  /\ pc' = [pc EXCEPT ![s] = "paid"]
  /\ UNCHANGED <<accounts, payment, lock, trans, balance, call, id, team, copy, requests>>

\* Mutant of BookReceiver: the error of the receiver's book is not looked at.
BookReceiverOrNot(s) ==
  /\ pc[s] = "paid"
  /\ written' = [written EXCEPT ![s] = IF ReceiverFinds(copy[s])
                                        THEN @ \cup {"receiver"} ELSE @]
  /\ pc' = [pc EXCEPT ![s] = "booked"]
  /\ UNCHANGED <<accounts, payment, lock, trans, balance, call, id, team, copy, requests>>

\* Then the receiver's, on an account of the payer and one of its own.
BookReceiver(s) ==
  /\ pc[s] = "paid"
  /\ ReceiverFinds(copy[s])
  /\ written' = [written EXCEPT ![s] = @ \cup {"receiver"}]
  /\ pc' = [pc EXCEPT ![s] = "booked"]
  /\ UNCHANGED <<accounts, payment, lock, trans, balance, call, id, team, copy, requests>>

\* The ref is taken, the amount is zero, or a book finds no account.
BookFails(s) ==
  /\ \/ /\ pc[s] = "read" /\ MayDecide(s) /\ call[s] = "accept"
        /\ id[s] \in trans \/ copy[s].amount = 0 \/ ~PayerFinds(copy[s])
     \/ pc[s] = "paid" /\ ~ReceiverFinds(copy[s])
  /\ Return(s)
  /\ UNCHANGED <<accounts, payment, trans, balance>>

\* The balances with the books a session has written.
Books(row, sides, b) ==
  LET paid == IF "payer" \in sides THEN PayerBook(row, b) ELSE b
  IN IF "receiver" \in sides THEN ReceiverBook(row, paid) ELSE paid

\* The row is saved as it was read, with the new status, and the transaction
\* commits.
Decide(s) ==
  /\ \/ pc[s] = "booked"
     \/ pc[s] = "read" /\ MayDecide(s) /\ call[s] # "accept"
  /\ payment' = [payment EXCEPT ![id[s]] = [copy[s] EXCEPT !.status = Decision[call[s]]]]
  /\ trans' = IF pc[s] = "booked" THEN trans \cup {id[s]} ELSE trans
  /\ balance' = Books(copy[s], written[s], balance)
  /\ Return(s)
  /\ UNCHANGED accounts

\* A statement or the commit fails, or the process stops.
Fail(s) ==
  /\ pc[s] # "idle"
  /\ Return(s)
  /\ UNCHANGED <<accounts, payment, trans, balance>>

Next == \/ \E p \in PaymentId, from, to \in Team, amount \in Amount :
             PaymentCreate(p, from, to, amount)
        \/ \E t \in Team : Setup(t)
        \/ \E s \in Session :
             \/ \E c \in Call, p \in PaymentId, t \in Team : Begin(s, c, p, t)
             \/ Read(s) \/ NoSuchPayment(s) \/ Refuse(s)
             \/ BookPayer(s) \/ BookReceiver(s) \/ BookFails(s)
             \/ Decide(s) \/ Fail(s)

Spec == Init /\ [][Next]_vars
------------------------------------------------------------------------------
\* Type invariant.
TypeOK ==
  /\ accounts \in [Team -> 0..3]
  /\ payment \in [PaymentId -> Row \cup {None}]
  /\ lock \in [PaymentId -> Session \cup {None}]
  /\ trans \subseteq PaymentId
  /\ balance \in [Team -> [Key -> [Team -> Int]]]
  /\ pc \in [Session -> {"idle", "begun", "read", "paid", "booked"}]
  /\ call \in [Session -> Call]
  /\ id \in [Session -> PaymentId \cup {None}]
  /\ team \in [Session -> Team]
  /\ copy \in [Session -> Row \cup {None}]
  /\ written \in [Session -> SUBSET {"payer", "receiver"}]
  /\ requests \in 0..MaxRequests

Status(p) == IF payment[p] = None THEN "none" ELSE payment[p].status

\* What the payments accepted from one team to another sum up to.
Accepted(t, u) == {p \in PaymentId : /\ Status(p) = "accepted"
                                     /\ payment[p].from = t /\ payment[p].to = u}
Paid(t, u) == MapThenSumSet(LAMBDA p : payment[p].amount, Accepted(t, u))

\* The debts and claims of every two teams went down by exactly the payments
\* that are marked accepted, each counted once.
BooksAreTheAcceptedPayments ==
  \A t, u \in Team : /\ balance[t]["payable"][u] = -Paid(t, u)
                     /\ balance[u]["receivable"][t] = -Paid(t, u)

\* One team's debt and the other's claim stay equal.
DebtsMirrorClaims ==
  \A t, u \in Team : balance[t]["payable"][u] = balance[u]["receivable"][t]

\* The ref of a payment is in the books exactly when the payment is accepted.
AcceptedMeansBooked == \A p \in PaymentId : p \in trans <=> Status(p) = "accepted"

\* A payment is decided once: whatever calls race, the first decision stands.
DecisionsStand ==
  [][\A p \in PaymentId :
       Status(p) \notin {"none", "pending"} => payment'[p] = payment[p]]_vars

\* Only the paying team cancels and only the receiving team accepts or rejects,
\* judged by the row as it is when the decision is written.
OwnersDecide ==
  [][\A p \in PaymentId :
       (Status(p) = "pending" /\ payment'[p] # payment[p]) =>
         \E s \in Session :
           /\ id[s] = p
           /\ payment'[p] = [payment[p] EXCEPT !.status = Decision[call[s]]]
           /\ team[s] = IF call[s] = "cancel" THEN payment[p].from ELSE payment[p].to]_vars

\* Sessions that have read a row hold its lock, and no other session does.
Holding == {"read", "paid", "booked"}
LockInv == \A s \in Session, p \in PaymentId :
             lock[p] = s <=> pc[s] \in Holding /\ id[s] = p

\* What a session read is still the row, its decision is still allowed while
\* its books are not committed, and it has written the books it passed.
CopyInv ==
  \A s \in Session :
    /\ pc[s] = "idle" <=> id[s] = None
    /\ pc[s] \in Holding => copy[s] = payment[id[s]] /\ copy[s] # None
    /\ pc[s] \in {"paid", "booked"} => MayDecide(s) /\ call[s] = "accept"
    /\ written[s] = CASE pc[s] = "paid" -> {"payer"}
                      [] pc[s] = "booked" -> {"payer", "receiver"}
                      [] OTHER -> {}

\* The inductive invariant (module PaymentProofs).
PaymentInv == TypeOK /\ LockInv /\ CopyInv /\ AcceptedMeansBooked /\ DebtsMirrorClaims
==============================================================================
