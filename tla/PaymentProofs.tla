---------------------------- MODULE PaymentProofs ----------------------------
(***************************************************************************)
(* Proofs about module Payment, for any teams, payments, amounts and       *)
(* sessions: a payment is decided once and by its team, an accepted one is *)
(* in the books, and the books of two teams stay mirror images.            *)
(***************************************************************************)
EXTENDS Payment, Sums, TLAPS

(* Without payments there is nothing in the books, and the invariant of the   *)
(* payment service holds.                                                     *)
LEMMA InitInv == Init => PaymentInv
<1> SUFFICES ASSUME Init PROVE PaymentInv
  OBVIOUS
<1>0. (CHOOSE t \in Team : TRUE) \in Team
  BY TeamAssumption
<1>1. TypeOK
  <2>1. requests \in 0..MaxRequests /\ accounts \in [Team -> 0..3]
    BY BoundAssumption, OpenedAssumption DEF Init
  <2> QED
    BY <1>0, <2>1 DEF Init, TypeOK, Call
<1>2. LockInv
  BY NoneAssumption DEF Init, LockInv, Holding
<1>3. CopyInv
  BY DEF Init, CopyInv, Holding
<1>4. AcceptedMeansBooked
  BY DEF Init, AcceptedMeansBooked, Status
<1>5. DebtsMirrorClaims
  BY DEF Init, DebtsMirrorClaims, Key
<1> QED
  BY <1>1, <1>2, <1>3, <1>4, <1>5 DEF PaymentInv

------------------------------------------------------------------------------
\* One posting to an account.
Balances == [Team -> [Key -> [Team -> Int]]]

\* Add changes one account, by the amount.
LEMMA AddOne ==
  ASSUME NEW b \in Balances, NEW t \in Team, NEW k \in Key, NEW u \in Team, NEW n \in Int
  PROVE  /\ Add(b, t, k, u, n) \in Balances
         /\ \A v \in Team, l \in Key, w \in Team :
              Add(b, t, k, u, n)[v][l][w] =
                IF v = t /\ l = k /\ w = u THEN b[v][l][w] + n ELSE b[v][l][w]
<1>1. b[t] \in [Key -> [Team -> Int]] /\ b[t][k] \in [Team -> Int] /\ b[t][k][u] \in Int
  BY DEF Balances
<1> DEFINE c == [b[t][k] EXCEPT ![u] = @ + n]
           d == [b[t] EXCEPT ![k] = c]
           e == [b EXCEPT ![t] = d]
<1>2. c \in [Team -> Int] /\ \A w \in Team : c[w] = IF w = u THEN b[t][k][w] + n ELSE b[t][k][w]
  BY <1>1
<1> HIDE DEF c
<1>3. /\ d \in [Key -> [Team -> Int]]
      /\ \A l \in Key : d[l] = IF l = k THEN c ELSE b[t][l]
  BY <1>1, <1>2
<1> HIDE DEF d
<1>4. e \in Balances /\ \A v \in Team : e[v] = IF v = t THEN d ELSE b[v]
  BY <1>3 DEF Balances
<1>5. Add(b, t, k, u, n) = e
  BY DEF Add, e, d, c
<1> HIDE DEF e
<1> QED
  BY <1>2, <1>3, <1>4, <1>5

\* The balances with both books of a payment.
Both(row, b) == ReceiverBook(row, PayerBook(row, b))

\* The two books of a payment keep the type of the balances, and take the
\* same amount off the payer's debt and the receiver's claim.
LEMMA BooksMirror ==
  ASSUME NEW b \in Balances, NEW row \in Row,
         \A t, u \in Team : b[t]["payable"][u] = b[u]["receivable"][t]
  PROVE  /\ Both(row, b) \in Balances
         /\ \A t, u \in Team :
              /\ Both(row, b)[t]["payable"][u] = Both(row, b)[u]["receivable"][t]
              /\ Both(row, b)[t]["payable"][u] =
                   IF t = row.from /\ u = row.to THEN b[t]["payable"][u] + -row.amount
                                                ELSE b[t]["payable"][u]
<1> DEFINE f == row.from
           g == row.to
           n == row.amount
           m == -row.amount
           p == Add(b, f, "cash", g, m)
           q == Add(p, f, "payable", g, m)
           r == Add(q, g, "receivable", f, m)
           z == Add(r, g, "cash", g, n)
<1>1. f \in Team /\ g \in Team /\ n \in Int /\ m \in Int
  <2>1. row.from \in Team /\ row.to \in Team /\ row.amount \in Amount
    BY DEF Row
  <2>2. row.amount \in Int
    BY <2>1, AmountAssumption
  <2>3. -row.amount \in Int
    BY <2>2
  <2> QED
    BY <2>1, <2>2, <2>3
<1>0. Key = {"cash", "payable", "receivable"}
  BY DEF Key
<1>2. Both(row, b) = z
  BY DEF Both, PayerBook, ReceiverBook
<1> HIDE DEF f, g, n, m
<1>3. p \in Balances
      /\ \A v, w \in Team : /\ p[v]["payable"][w] = b[v]["payable"][w]
                            /\ p[v]["receivable"][w] = b[v]["receivable"][w]
  <2>1. /\ p \in Balances
        /\ \A v \in Team, l \in Key, w \in Team :
             p[v][l][w] = IF v = f /\ l = "cash" /\ w = g
                           THEN b[v][l][w] + m ELSE b[v][l][w]
    BY <1>1, <1>0, AddOne
  <2> HIDE DEF p
  <2> QED
    BY <2>1, <1>0
<1> HIDE DEF p
<1>4. q \in Balances
      /\ \A v, w \in Team : /\ q[v]["payable"][w] = IF v = f /\ w = g
                                 THEN b[v]["payable"][w] + m ELSE b[v]["payable"][w]
                            /\ q[v]["receivable"][w] = b[v]["receivable"][w]
  <2>1. /\ q \in Balances
        /\ \A v \in Team, l \in Key, w \in Team :
             q[v][l][w] = IF v = f /\ l = "payable" /\ w = g
                           THEN p[v][l][w] + m ELSE p[v][l][w]
    BY <1>1, <1>0, <1>3, AddOne
  <2> HIDE DEF q
  <2> QED
    BY <2>1, <1>0, <1>3
<1> HIDE DEF q
<1>5. r \in Balances
      /\ \A v, w \in Team : /\ r[v]["payable"][w] = q[v]["payable"][w]
                            /\ r[v]["receivable"][w] = IF v = g /\ w = f
                                 THEN b[v]["receivable"][w] + m ELSE b[v]["receivable"][w]
  <2>1. /\ r \in Balances
        /\ \A v \in Team, l \in Key, w \in Team :
             r[v][l][w] = IF v = g /\ l = "receivable" /\ w = f
                           THEN q[v][l][w] + m ELSE q[v][l][w]
    BY <1>1, <1>0, <1>4, AddOne
  <2> HIDE DEF r
  <2> QED
    BY <2>1, <1>0, <1>4
<1> HIDE DEF r
<1>6. z \in Balances
      /\ \A v, w \in Team : /\ z[v]["payable"][w] = r[v]["payable"][w]
                            /\ z[v]["receivable"][w] = r[v]["receivable"][w]
  <2>1. /\ z \in Balances
        /\ \A v \in Team, l \in Key, w \in Team :
             z[v][l][w] = IF v = g /\ l = "cash" /\ w = g
                           THEN r[v][l][w] + n ELSE r[v][l][w]
    BY <1>1, <1>0, <1>5, AddOne
  <2> HIDE DEF z
  <2> QED
    BY <2>1, <1>0, <1>5
<1> HIDE DEF z
<1> QED
  BY <1>2, <1>4, <1>5, <1>6 DEF f, g, m

------------------------------------------------------------------------------
\* What a decision writes: the row it read, which is the current one, with the
\* status of its call; an acceptance also its ref and its books.
LEMMA DecideWrites ==
  ASSUME PaymentInv, NEW s \in Session, Decide(s)
  PROVE  /\ id[s] \in PaymentId /\ payment[id[s]] \in Row
         /\ payment[id[s]].status = "pending"
         /\ call[s] \in Call /\ MayDecide(s)
         /\ payment' = [payment EXCEPT ![id[s]] =
                          [payment[id[s]] EXCEPT !.status = Decision[call[s]]]]
         /\ Decision[call[s]] \in {"accepted", "canceled", "rejected"}
         /\ [payment[id[s]] EXCEPT !.status = Decision[call[s]]] \in Row
         /\ \/ /\ call[s] = "accept"
               /\ trans' = trans \cup {id[s]}
               /\ balance' = Both(payment[id[s]], balance)
            \/ /\ call[s] # "accept"
               /\ UNCHANGED <<trans, balance>>
<1>0. TypeOK /\ CopyInv
  BY DEF PaymentInv
<1>1. pc[s] \in Holding /\ pc[s] # "paid" /\ MayDecide(s)
  BY <1>0 DEF Decide, CopyInv, Holding
<1>2. id[s] \in PaymentId /\ call[s] \in Call
  BY <1>0, <1>1 DEF CopyInv, TypeOK, Holding
<1>3. copy[s] = payment[id[s]] /\ copy[s] \in Row
  BY <1>0, <1>1 DEF CopyInv, TypeOK
<1>4. copy[s].status = "pending"
  BY <1>1 DEF MayDecide
<1>5. Decision[call[s]] \in {"accepted", "canceled", "rejected"}
  BY <1>2 DEF Decision, Call
<1>6. [copy[s] EXCEPT !.status = Decision[call[s]]] \in Row
  BY <1>3, <1>5 DEF Row
<1>7. payment' = [payment EXCEPT ![id[s]] = [copy[s] EXCEPT !.status = Decision[call[s]]]]
  BY DEF Decide
<1>8. CASE pc[s] = "booked"
  <2>1. call[s] = "accept"
    BY <1>8, <1>0 DEF CopyInv
  <2>2. trans' = trans \cup {id[s]} /\ balance' = Both(copy[s], balance)
    <3>1. written[s] = {"payer", "receiver"}
      BY <1>8, <1>0 DEF CopyInv
    <3> QED
      BY <1>8, <3>1 DEF Decide, Books, Both
  <2> QED
    BY <2>1, <2>2, <1>1, <1>2, <1>3, <1>4, <1>5, <1>6, <1>7
<1>9. CASE pc[s] # "booked"
  <2>1. call[s] # "accept" /\ UNCHANGED <<trans, balance>>
    <3>1. written[s] = {}
      BY <1>9, <1>1, <1>0 DEF CopyInv
    <3> QED
      BY <1>9, <3>1 DEF Decide, Books
  <2> QED
    BY <2>1, <1>1, <1>2, <1>3, <1>4, <1>5, <1>6, <1>7
<1> QED
  BY <1>8, <1>9

\* The types, and that debts mirror claims: only a decision touches the books.
LEMMA TypeStep == PaymentInv /\ Next => TypeOK' /\ DebtsMirrorClaims'
<1> SUFFICES ASSUME PaymentInv, Next PROVE TypeOK' /\ DebtsMirrorClaims'
  OBVIOUS
<1>7. TypeOK /\ DebtsMirrorClaims
  BY DEF PaymentInv
<1> USE DEF TypeOK
<1>0. ASSUME NEW s \in Session, Return(s)
      PROVE  /\ lock' \in [PaymentId -> Session \cup {None}]
             /\ pc' \in [Session -> {"idle", "begun", "read", "paid", "booked"}]
             /\ call' \in [Session -> Call]
             /\ id' \in [Session -> PaymentId \cup {None}]
             /\ team' \in [Session -> Team]
             /\ copy' \in [Session -> Row \cup {None}]
             /\ written' \in [Session -> SUBSET {"payer", "receiver"}]
             /\ requests' \in 0..MaxRequests
  BY <1>0, <1>7 DEF Return
<1>1. ASSUME NEW p \in PaymentId, NEW from \in Team, NEW to \in Team, NEW amount \in Amount,
             PaymentCreate(p, from, to, amount)
      PROVE  TypeOK' /\ DebtsMirrorClaims'
  <2>1. [from |-> from, to |-> to, amount |-> amount, status |-> "pending"] \in Row
    BY DEF Row
  <2> QED
    BY <1>1, <1>7, <2>1 DEF PaymentCreate, DebtsMirrorClaims
<1>2. ASSUME NEW s \in Session, NEW c \in Call, NEW p \in PaymentId, NEW t \in Team,
             Begin(s, c, p, t)
      PROVE  TypeOK' /\ DebtsMirrorClaims'
  BY <1>2, <1>7, BoundAssumption DEF Begin, DebtsMirrorClaims
<1>3. ASSUME NEW s \in Session, Read(s)
      PROVE  TypeOK' /\ DebtsMirrorClaims'
  <2>1. id[s] \in PaymentId
    BY <1>3, <1>7 DEF Read, PaymentInv, CopyInv
  <2> QED
    BY <1>3, <1>7, <2>1 DEF Read, DebtsMirrorClaims
<1>4. ASSUME NEW s \in Session, NoSuchPayment(s) \/ Refuse(s) \/ BookFails(s) \/ Fail(s)
      PROVE  TypeOK' /\ DebtsMirrorClaims'
  BY <1>4, <1>7, <1>0 DEF NoSuchPayment, Refuse, BookFails, Fail, DebtsMirrorClaims
<1>5. ASSUME NEW s \in Session, BookPayer(s) \/ BookReceiver(s)
      PROVE  TypeOK' /\ DebtsMirrorClaims'
  <2>1. /\ written' \in [Session -> SUBSET {"payer", "receiver"}]
        /\ pc' \in [Session -> {"idle", "begun", "read", "paid", "booked"}]
    <3>1. CASE BookPayer(s)
      <4>1. written[s] \cup {"payer"} \in SUBSET {"payer", "receiver"}
        BY <1>7
      <4> QED
        BY <1>7, <3>1, <4>1, Zenon DEF BookPayer
    <3>2. CASE BookReceiver(s)
      <4>1. written[s] \cup {"receiver"} \in SUBSET {"payer", "receiver"}
        BY <1>7
      <4> QED
        BY <1>7, <3>2, <4>1, Zenon DEF BookReceiver
    <3> QED
      BY <1>5, <3>1, <3>2
  <2>2. /\ UNCHANGED <<accounts, payment, lock, trans, balance>>
        /\ UNCHANGED <<call, id, team, copy, requests>>
    BY <1>5 DEF BookPayer, BookReceiver
  <2> QED
    BY <1>7, <2>1, <2>2 DEF DebtsMirrorClaims
<1>8. ASSUME NEW t \in Team, Setup(t)
      PROVE  TypeOK' /\ DebtsMirrorClaims'
  <2>1. accounts[t] + 1 \in 0..3
    <3>1. accounts[t] \in 0..3 /\ Len(SetupOrder) = 3
      BY <1>7 DEF SetupOrder
    <3>2. accounts[t] < Len(SetupOrder)
      BY <1>8 DEF Setup
    <3> QED
      BY <3>1, <3>2
  <2> QED
    BY <1>7, <1>8, <2>1 DEF Setup, DebtsMirrorClaims
<1>6. ASSUME NEW s \in Session, Decide(s)
      PROVE  TypeOK' /\ DebtsMirrorClaims'
  <2>1. Return(s)
    BY <1>6 DEF Decide
  <2>2. payment' \in [PaymentId -> Row \cup {None}]
    BY <1>6, <1>7, DecideWrites
  <2>0. id[s] \in PaymentId /\ payment[id[s]] \in Row
    BY <1>6, DecideWrites
  <2>6. \/ trans' = trans \cup {id[s]} /\ balance' = Both(payment[id[s]], balance)
        \/ trans' = trans /\ balance' = balance
    BY <1>6, DecideWrites
  <2>3. trans' \subseteq PaymentId
    BY <1>7, <2>0, <2>6
  <2>4. balance \in Balances /\ \A t, u \in Team :
          balance[t]["payable"][u] = balance[u]["receivable"][t]
    BY <1>7 DEF Balances, DebtsMirrorClaims
  <2>5. balance' \in Balances /\ \A t, u \in Team :
          balance'[t]["payable"][u] = balance'[u]["receivable"][t]
    BY <2>4, <2>0, <2>6, BooksMirror
  <2> QED
    <3>1. accounts' = accounts
      BY <1>6 DEF Decide
    <3> QED
      BY <1>0, <1>7, <2>1, <2>2, <2>3, <2>5, <3>1 DEF Balances, DebtsMirrorClaims
<1> QED
  BY <1>1, <1>2, <1>3, <1>4, <1>5, <1>6, <1>8 DEF Next

\* A row is locked by the session that has read it.
LEMMA LockStep == PaymentInv /\ Next => LockInv'
<1> SUFFICES ASSUME PaymentInv, Next PROVE LockInv'
  OBVIOUS
<1>6. TypeOK /\ LockInv
  BY DEF PaymentInv
<1>0. None \notin Session /\ None \notin PaymentId
  BY NoneAssumption
<1> USE <1>0 DEF TypeOK, LockInv, Holding
<1>1. ASSUME NEW p \in PaymentId, NEW from \in Team, NEW to \in Team, NEW amount \in Amount,
             PaymentCreate(p, from, to, amount)
      PROVE  LockInv'
  BY <1>1, <1>6 DEF PaymentCreate
<1>2. ASSUME NEW s \in Session, NEW c \in Call, NEW p \in PaymentId, NEW t \in Team,
             Begin(s, c, p, t)
      PROVE  LockInv'
  BY <1>2, <1>6 DEF Begin
<1>3. ASSUME NEW s \in Session, Read(s)
      PROVE  LockInv'
  BY <1>3, <1>6 DEF Read
<1>4. ASSUME NEW s \in Session, Return(s)
      PROVE  LockInv'
  BY <1>4, <1>6 DEF Return
<1>5. ASSUME NEW s \in Session, BookPayer(s) \/ BookReceiver(s)
      PROVE  LockInv'
  BY <1>5, <1>6 DEF BookPayer, BookReceiver
<1>7. ASSUME NEW t \in Team, Setup(t)
      PROVE  LockInv'
  BY <1>6, <1>7 DEF Setup
<1> QED
  BY <1>1, <1>2, <1>3, <1>4, <1>5, <1>7
     DEF Next, NoSuchPayment, Refuse, BookFails, Fail, Decide

\* While a session holds a row, what it read stays the row: nobody else
\* decides on it, and a created payment takes an id of its own.
LEMMA CopyStep == PaymentInv /\ Next => CopyInv'
<1> DEFINE Held(q) ==
             /\ pc[q] = "idle" <=> id[q] = None
             /\ pc[q] \in Holding => copy[q] = payment[id[q]] /\ copy[q] # None
             /\ pc[q] \in {"paid", "booked"} => MayDecide(q) /\ call[q] = "accept"
             /\ written[q] = CASE pc[q] = "paid" -> {"payer"}
                               [] pc[q] = "booked" -> {"payer", "receiver"}
                               [] OTHER -> {}
<1> SUFFICES ASSUME PaymentInv, Next, NEW q \in Session PROVE Held(q)'
  BY DEF CopyInv
<1>9. TypeOK /\ LockInv /\ Held(q) /\ \A s \in Session : Held(s)
  BY DEF PaymentInv, CopyInv
<1>0. None \notin PaymentId /\ None \notin Session
  BY NoneAssumption
<1> USE <1>0 DEF TypeOK, MayDecide, Owner, Holding
<1>1. ASSUME NEW p \in PaymentId, NEW from \in Team, NEW to \in Team, NEW amount \in Amount,
             PaymentCreate(p, from, to, amount)
      PROVE  Held(q)'
  <2>1. /\ UNCHANGED <<pc, id, call, team, copy, written>>
        /\ pc[q] \in Holding => payment'[id[q]] = payment[id[q]]
    BY <1>1, <1>9 DEF PaymentCreate
  <2> QED
    BY <1>9, <2>1
<1>2. ASSUME NEW s \in Session, NEW c \in Call, NEW p \in PaymentId, NEW t \in Team,
             Begin(s, c, p, t)
      PROVE  Held(q)'
  BY <1>2, <1>9 DEF Begin
<1>3. ASSUME NEW s \in Session, Read(s)
      PROVE  Held(q)'
  BY <1>3, <1>9 DEF Read
<1>4. ASSUME NEW s \in Session, Return(s),
             pc[q] \in Holding /\ q # s => payment'[id[q]] = payment[id[q]]
      PROVE  Held(q)'
  <2>1. CASE q = s
    BY <1>4, <1>9, <2>1 DEF Return
  <2>2. CASE q # s
    <3>1. /\ pc'[q] = pc[q] /\ id'[q] = id[q] /\ copy'[q] = copy[q]
          /\ call'[q] = call[q] /\ team'[q] = team[q] /\ written'[q] = written[q]
      BY <1>4, <1>9, <2>2 DEF Return
    <3> QED
      BY <1>4, <1>9, <2>2, <3>1
  <2> QED
    BY <2>1, <2>2
<1>5. ASSUME NEW s \in Session, BookPayer(s)
      PROVE  Held(q)'
  BY <1>5, <1>9 DEF BookPayer
<1>10. ASSUME NEW s \in Session, BookReceiver(s)
       PROVE  Held(q)'
  <2>1. CASE q = s
    <3>1. written[s] = {"payer"}
      BY <1>9, <1>10 DEF BookReceiver
    <3>2. written'[s] = {"payer", "receiver"}
      BY <1>9, <1>10, <3>1 DEF BookReceiver
    <3>3. pc'[s] = "booked" /\ UNCHANGED <<payment, call, id, team, copy>>
      BY <1>9, <1>10 DEF BookReceiver
    <3>4. pc[s] = "paid" /\ Held(s)
      BY <1>9, <1>10 DEF BookReceiver
    <3> QED
      BY <2>1, <3>2, <3>3, <3>4
  <2>2. CASE q # s
    BY <1>9, <1>10, <2>2 DEF BookReceiver
  <2> QED
    BY <2>1, <2>2
<1>6. ASSUME NEW s \in Session, Decide(s), pc[q] \in Holding, q # s
      PROVE  payment'[id[q]] = payment[id[q]]
  <2>0. id[s] \in PaymentId
    BY <1>6, DecideWrites
  <2>6. id[q] \in PaymentId
    <3>1. id[q] # None
      BY <1>6, <1>9
    <3>2. id[q] \in PaymentId \cup {None}
      BY <1>9
    <3> QED
      BY <3>1, <3>2
  <2>1. pc[s] \in Holding
    BY <1>6 DEF Decide
  <2>2. lock[id[s]] = s /\ lock[id[q]] = q
    BY <1>6, <1>9, <2>0, <2>6, <2>1 DEF LockInv
  <2>3. id[q] # id[s]
    BY <1>6, <2>2
  <2>4. payment' = [payment EXCEPT ![id[s]] =
                      [payment[id[s]] EXCEPT !.status = Decision[call[s]]]]
    BY <1>6, DecideWrites
  <2>5. payment \in [PaymentId -> Row \cup {None}]
    BY <1>9
  <2> QED
    BY <2>5, <2>0, <2>6, <2>3, <2>4
<1>7. ASSUME NEW s \in Session,
             NoSuchPayment(s) \/ Refuse(s) \/ BookFails(s) \/ Fail(s)
      PROVE  Return(s) /\ payment' = payment
  BY <1>7 DEF NoSuchPayment, Refuse, BookFails, Fail
<1>8. ASSUME NEW s \in Session, Decide(s)
      PROVE  Return(s)
  BY <1>8 DEF Decide
<1>11. ASSUME NEW t \in Team, Setup(t)
       PROVE  Held(q)'
  BY <1>9, <1>11 DEF Setup
<1> HIDE DEF Held
<1> QED
  BY <1>1, <1>2, <1>3, <1>4, <1>5, <1>6, <1>7, <1>8, <1>10, <1>11 DEF Next

\* The refs in the books are those of the accepted payments.
LEMMA BookedStep == PaymentInv /\ Next => AcceptedMeansBooked'
<1> SUFFICES ASSUME PaymentInv, Next PROVE AcceptedMeansBooked'
  OBVIOUS
<1>4. TypeOK /\ AcceptedMeansBooked
  BY DEF PaymentInv
<1>0. None \notin Row
  BY NoneAssumption
<1> USE <1>0 DEF AcceptedMeansBooked, Status, TypeOK
<1>1. ASSUME NEW p \in PaymentId, NEW from \in Team, NEW to \in Team, NEW amount \in Amount,
             PaymentCreate(p, from, to, amount)
      PROVE  AcceptedMeansBooked'
  <2>1. [from |-> from, to |-> to, amount |-> amount, status |-> "pending"] \in Row
    BY DEF Row
  <2> QED
    BY <1>1, <1>4, <2>1 DEF PaymentCreate
<1>2. ASSUME NEW s \in Session, Decide(s) PROVE AcceptedMeansBooked'
  <2> DEFINE i == id[s]
             row == [payment[i] EXCEPT !.status = Decision[call[s]]]
  <2>1. /\ i \in PaymentId /\ payment[i] \in Row /\ payment[i].status = "pending"
        /\ payment' = [payment EXCEPT ![i] = row] /\ row \in Row
        /\ call[s] \in Call
        /\ \/ call[s] = "accept" /\ trans' = trans \cup {i}
           \/ call[s] # "accept" /\ trans' = trans
    BY <1>2, DecideWrites
  <2>2. row.status = Decision[call[s]]
    BY <2>1 DEF Row
  <2>3. Decision[call[s]] = "accepted" <=> call[s] = "accept"
    BY <2>1 DEF Decision, Call
  <2> HIDE DEF row, i
  <2>4. payment'[i] = row /\ \A p \in PaymentId \ {i} : payment'[p] = payment[p]
    BY <2>1, <1>4
  <2>5. i \in trans' <=> call[s] = "accept"
    BY <2>1, <1>4
  <2>6. \A p \in PaymentId \ {i} : p \in trans' <=> p \in trans
    BY <2>1
  <2>7. ASSUME NEW p \in PaymentId PROVE p \in trans' <=> Status(p)' = "accepted"
    <3>1. CASE p = i
      BY <2>1, <2>2, <2>3, <2>4, <2>5, <3>1
    <3>2. CASE p # i
      BY <2>4, <2>6, <1>4, <3>2
    <3> QED
      BY <3>1, <3>2
  <2> QED
    BY <2>7
<1>3. CASE UNCHANGED <<payment, trans>>
  BY <1>3, <1>4
<1> QED
  BY <1>1, <1>2, <1>3 DEF Next, Begin, Read, NoSuchPayment, Refuse, BookPayer,
         BookReceiver, Setup, BookFails, Fail

------------------------------------------------------------------------------
\* The invariant is inductive.
LEMMA PaymentInvStep == PaymentInv /\ [Next]_vars => PaymentInv'
<1>1. PaymentInv /\ Next => PaymentInv'
  BY TypeStep, LockStep, CopyStep, BookedStep DEF PaymentInv
<1>2. PaymentInv /\ UNCHANGED vars => PaymentInv'
  BY DEF PaymentInv, vars, TypeOK, LockInv, CopyInv, MayDecide, Owner,
         Holding, AcceptedMeansBooked, Status, DebtsMirrorClaims
<1> QED
  BY <1>1, <1>2

\* Every reachable state satisfies the inductive invariant.
THEOREM Invariance == Spec => []PaymentInv
BY InitInv, PaymentInvStep, PTL DEF Spec

\* One team's debt and the other's claim stay equal, whatever amounts are
\* announced and whatever calls race.
THEOREM Mirror == Spec => []DebtsMirrorClaims
<1>1. PaymentInv => DebtsMirrorClaims
  BY DEF PaymentInv
<1> QED
  BY <1>1, Invariance, PTL

\* A payment's ref is in the books exactly when the payment is accepted.
THEOREM Booked == Spec => []AcceptedMeansBooked
<1>1. PaymentInv => AcceptedMeansBooked
  BY DEF PaymentInv
<1> QED
  BY <1>1, Invariance, PTL

\* A payment that was accepted, rejected or cancelled is never changed again.
THEOREM DecidedOnce == Spec => DecisionsStand
<1>1. PaymentInv /\ [Next]_vars =>
        [\A p \in PaymentId :
           Status(p) \notin {"none", "pending"} => payment'[p] = payment[p]]_vars
  <2> SUFFICES ASSUME PaymentInv, Next, NEW p \in PaymentId,
                      Status(p) \notin {"none", "pending"}
               PROVE  payment'[p] = payment[p]
    OBVIOUS
  <2>1. payment \in [PaymentId -> Row \cup {None}] /\ payment[p] # None
        /\ payment[p].status # "pending"
    BY DEF PaymentInv, TypeOK, Status
  <2>2. ASSUME NEW i \in PaymentId, NEW from \in Team, NEW to \in Team, NEW amount \in Amount,
               PaymentCreate(i, from, to, amount)
        PROVE  payment'[p] = payment[p]
    BY <2>1, <2>2 DEF PaymentCreate
  <2>3. ASSUME NEW s \in Session, Decide(s) PROVE payment'[p] = payment[p]
    BY <2>1, <2>3, DecideWrites
  <2> QED
    BY <2>2, <2>3 DEF Next, Begin, Read, NoSuchPayment, Refuse, BookPayer,
         BookReceiver, Setup, BookFails, Fail
<1> QED
  BY <1>1, Invariance, PTL DEF Spec, DecisionsStand

\* A pending payment changes only by a decision of the team entitled to it.
THEOREM DecidedByOwner == Spec => OwnersDecide
<1>1. PaymentInv /\ [Next]_vars =>
        [\A p \in PaymentId :
           (Status(p) = "pending" /\ payment'[p] # payment[p]) =>
             \E s \in Session :
               /\ id[s] = p
               /\ payment'[p] = [payment[p] EXCEPT !.status = Decision[call[s]]]
               /\ team[s] = IF call[s] = "cancel" THEN payment[p].from
                                                  ELSE payment[p].to]_vars
  <2> SUFFICES ASSUME PaymentInv, Next, NEW p \in PaymentId,
                      Status(p) = "pending", payment'[p] # payment[p]
               PROVE  \E s \in Session :
                        /\ id[s] = p
                        /\ payment'[p] = [payment[p] EXCEPT !.status = Decision[call[s]]]
                        /\ team[s] = IF call[s] = "cancel" THEN payment[p].from
                                                           ELSE payment[p].to
    OBVIOUS
  <2>1. payment \in [PaymentId -> Row \cup {None}] /\ payment[p] # None
    BY DEF PaymentInv, TypeOK, Status
  <2>2. ASSUME NEW i \in PaymentId, NEW from \in Team, NEW to \in Team, NEW amount \in Amount,
               PaymentCreate(i, from, to, amount)
        PROVE  FALSE
    BY <2>1, <2>2 DEF PaymentCreate
  <2>3. PICK s \in Session : Decide(s)
    BY <2>2 DEF Next, Begin, Read, NoSuchPayment, Refuse, BookPayer,
         BookReceiver, Setup, BookFails, Fail
  <2>0. /\ id[s] \in PaymentId
        /\ payment' = [payment EXCEPT ![id[s]] =
                         [payment[id[s]] EXCEPT !.status = Decision[call[s]]]]
    BY <2>3, DecideWrites
  <2>6. id[s] = p
    BY <2>1, <2>0
  <2>4. id[s] = p /\ payment'[p] = [payment[p] EXCEPT !.status = Decision[call[s]]]
    BY <2>1, <2>0, <2>6
  <2>5. MayDecide(s) /\ copy[s] = payment[p]
    BY <2>3, <2>4, DecideWrites DEF PaymentInv, CopyInv, Holding, Decide
  <2> QED
    BY <2>4, <2>5 DEF MayDecide, Owner
<1> QED
  BY <1>1, Invariance, PTL DEF Spec, OwnersDecide
------------------------------------------------------------------------------
\* What a set of payments adds up to is the total of their amounts.
Amounts(rows) == [p \in PaymentId |-> IF rows[p] = None THEN 0 ELSE rows[p].amount]
SumOf(rows, S) == MapThenSumSet(LAMBDA p : rows[p].amount, S)

\* It is a total of the amounts.
LEMMA SumOfIsTotal ==
  ASSUME NEW rows \in [PaymentId -> Row \cup {None}], NEW S \in SUBSET PaymentId,
         IsFiniteSet(S), \A p \in S : rows[p] # None
  PROVE  SumOf(rows, S) = Total(Amounts(rows), S)
<1> DEFINE g == Amounts(rows)
           it == CHOOSE it : it = [s \in SUBSET S |-> IF s = {} THEN 0 ELSE
                      rows[CHOOSE x \in s : TRUE].amount + it[s \ {CHOOSE x \in s : TRUE}]]
<1>1. SumOf(rows, S) = it[S]
  BY DEF SumOf, MapThenSumSet, MapThenFoldSet
<1>2. \A s \in SUBSET S : s # {} => rows[Pick(s)].amount = g[Pick(s)]
  BY PickIn DEF Amounts
<1>3. PICK f : Sums(f, g, SUBSET S)
  BY SumsExists
<1>4. f = [s \in SUBSET S |-> IF s = {} THEN 0 ELSE
                      rows[CHOOSE x \in s : TRUE].amount + f[s \ {CHOOSE x \in s : TRUE}]]
  BY SMTT(20), <1>2, <1>3 DEF Sums, Pick
<1>5. it = [s \in SUBSET S |-> IF s = {} THEN 0 ELSE
                      rows[CHOOSE x \in s : TRUE].amount + it[s \ {CHOOSE x \in s : TRUE}]]
  <2> DEFINE Rec(v) == [s \in SUBSET S |-> IF s = {} THEN 0 ELSE
        rows[CHOOSE x \in s : TRUE].amount + v[s \ {CHOOSE x \in s : TRUE}]]
  <2>1. f = Rec(f) /\ it = CHOOSE v : v = Rec(v)
    BY <1>4, Zenon
  <2> HIDE DEF Rec, it
  <2>2. it = Rec(it)
    BY <2>1, Zenon
  <2> QED
    BY <2>2, Zenon DEF Rec
<1>6. Sums(it, g, SUBSET S)
  <2> HIDE DEF it
  <2> QED
    BY <1>2, <1>5 DEF Sums, Pick
<1> QED
  BY <1>1, <1>6, TotalIs

\* Amounts of the payments added up are an integer, and depend on the rows of
\* these payments alone.
LEMMA SumOfSame ==
  ASSUME NEW rows \in [PaymentId -> Row \cup {None}],
         NEW later \in [PaymentId -> Row \cup {None}], NEW S \in SUBSET PaymentId,
         IsFiniteSet(S), \A p \in S : rows[p] # None /\ later[p] = rows[p]
  PROVE  SumOf(rows, S) \in Int /\ SumOf(later, S) = SumOf(rows, S)
<1> DEFINE g == Amounts(rows)
           h == Amounts(later)
<1>1. \A p \in S : g[p] = rows[p].amount /\ g[p] \in Int /\ h[p] = g[p]
  BY AmountAssumption DEF Amounts, Row
<1>2. SumOf(rows, S) = Total(g, S)
  BY SumOfIsTotal
<1>3. SumOf(later, S) = Total(h, S)
  BY SumOfIsTotal
<1> HIDE DEF g, h
<1>4. Total(g, S) \in Int
  BY <1>1, TotalType
<1>5. Total(g, S) = Total(h, S)
  BY <1>1, TotalSame
<1> QED
  BY <1>2, <1>3, <1>4, <1>5

\* One more payment adds its amount.
LEMMA SumOfAdd ==
  ASSUME NEW rows \in [PaymentId -> Row \cup {None}], NEW S \in SUBSET PaymentId,
         IsFiniteSet(S), NEW i \in PaymentId, i \notin S,
         \A p \in S \cup {i} : rows[p] # None
  PROVE  SumOf(rows, S \cup {i}) = SumOf(rows, S) + rows[i].amount
<1> DEFINE g == Amounts(rows)
<1>1. \A p \in S \cup {i} : g[p] = rows[p].amount /\ g[p] \in Int
  BY AmountAssumption DEF Amounts, Row
<1>2. SumOf(rows, S) = Total(g, S)
  BY SumOfIsTotal
<1>3. IsFiniteSet(S \cup {i})
  BY FS_AddElement
<1>4. SumOf(rows, S \cup {i}) = Total(g, S \cup {i})
  BY <1>3, SumOfIsTotal
<1> HIDE DEF g
<1>5. Total(g, S \cup {i}) = Total(g, S) + g[i]
  BY <1>1, TotalAdd
<1> QED
  BY <1>1, <1>2, <1>4, <1>5

\* The payments of the property, and what they add up to, before and after a step.
LEMMA PaidIsSum ==
  ASSUME NEW t \in Team, NEW u \in Team
  PROVE  /\ Paid(t, u) = SumOf(payment, Accepted(t, u))
         /\ Paid(t, u)' = SumOf(payment', Accepted(t, u)')
<1>1. Paid(t, u) = SumOf(payment, Accepted(t, u))
  BY DEF Paid, SumOf
<1>2. Paid(t, u)' = SumOf(payment', Accepted(t, u)')
  BY DEF Paid, SumOf, MapThenSumSet, MapThenFoldSet
<1> QED
  BY <1>1, <1>2

\* The accepted payments are booked ones, of which there are finitely many.
LEMMA AcceptedFinite ==
  ASSUME PaymentInv, IsFiniteSet(trans), NEW t \in Team, NEW u \in Team
  PROVE  /\ IsFiniteSet(Accepted(t, u)) /\ Accepted(t, u) \in SUBSET PaymentId
         /\ \A p \in Accepted(t, u) : payment[p] # None /\ payment[p].status = "accepted"
<1>1. Accepted(t, u) \subseteq trans
  BY DEF PaymentInv, AcceptedMeansBooked, Accepted
<1> QED
  BY <1>1, FS_Subset DEF Accepted, Status

\* A decision moves its payment into the sum of its two teams if it accepts it,
\* and the same amount off their accounts; all other sums stay.
LEMMA DecideSum ==
  ASSUME PaymentInv, IsFiniteSet(trans), BooksAreTheAcceptedPayments,
         NEW s \in Session, Decide(s), NEW t \in Team, NEW u \in Team
  PROVE  balance'[t]["payable"][u] = -Paid(t, u)'
<1> DEFINE i == id[s]
           old == payment[i]
           row == [old EXCEPT !.status = Decision[call[s]]]
           A == Accepted(t, u)
           B == Accepted(t, u)'
<1>15. TypeOK /\ DebtsMirrorClaims
  BY DEF PaymentInv
<1>0. None \notin Row
  BY NoneAssumption
<1>1. /\ i \in PaymentId /\ old \in Row /\ old.status = "pending"
      /\ payment' = [payment EXCEPT ![i] = row] /\ row \in Row
      /\ call[s] \in Call
      /\ \/ call[s] = "accept" /\ balance' = Both(old, balance)
         \/ call[s] # "accept" /\ balance' = balance
  BY DecideWrites
<1>2. row.status = Decision[call[s]] /\ row.from = old.from /\ row.to = old.to
      /\ row.amount = old.amount
  BY <1>1 DEF Row
<1>3. Decision[call[s]] = "accepted" <=> call[s] = "accept"
  BY <1>1 DEF Decision, Call
<1>4. IsFiniteSet(A) /\ A \in SUBSET PaymentId
      /\ \A p \in A : payment[p] # None /\ payment[p].status = "accepted"
  BY AcceptedFinite
<1>5. Paid(t, u) = SumOf(payment, A) /\ Paid(t, u)' = SumOf(payment', B)
  BY PaidIsSum
<1>6. balance[t]["payable"][u] = -Paid(t, u)
  BY DEF BooksAreTheAcceptedPayments
<1>7. payment \in [PaymentId -> Row \cup {None}]
  BY <1>15 DEF TypeOK
<1> DEFINE rows == payment'
<1>8. rows \in [PaymentId -> Row \cup {None}] /\ rows[i] = row
      /\ \A p \in PaymentId \ {i} : rows[p] = payment[p]
  BY <1>1, <1>7
<1>9. B = IF call[s] = "accept" /\ old.from = t /\ old.to = u THEN A \cup {i} ELSE A
  <2>1. ASSUME NEW p \in PaymentId
        PROVE  p \in B <=> /\ rows[p] # None /\ rows[p].status = "accepted"
                           /\ rows[p].from = t /\ rows[p].to = u
    BY DEF Accepted, Status
  <2>2. ASSUME NEW p \in PaymentId
        PROVE  p \in A <=> /\ payment[p] # None /\ payment[p].status = "accepted"
                           /\ payment[p].from = t /\ payment[p].to = u
    BY DEF Accepted, Status
  <2>3. B \subseteq PaymentId /\ A \subseteq PaymentId
    BY DEF Accepted
  <2> HIDE DEF A, B, rows, row, i, old
  <2>4. i \in B <=> call[s] = "accept" /\ old.from = t /\ old.to = u
    BY <1>1, <1>2, <1>3, <1>8, <1>0, <2>1
  <2>5. \A p \in PaymentId \ {i} : p \in B <=> p \in A
    BY <1>8, <2>1, <2>2
  <2>6. i \notin A
    BY <1>1, <1>4 DEF old
  <2> QED
    BY <2>3, <2>4, <2>5, <2>6
<1>10. i \notin A
  BY <1>1, <1>4
<1>11. \A p \in A : payment[p] # None /\ rows[p] = payment[p]
  BY <1>4, <1>8, <1>10
<1> HIDE DEF A, B, rows, row, i, old
<1>12. SumOf(payment, A) \in Int /\ SumOf(rows, A) = SumOf(payment, A)
  BY <1>4, <1>7, <1>8, <1>11, SumOfSame
<1>13. CASE call[s] = "accept" /\ old.from = t /\ old.to = u
  <2>1. SumOf(rows, A \cup {i}) = SumOf(rows, A) + rows[i].amount
    <3>1. \A p \in A \cup {i} : rows[p] # None
      BY <1>1, <1>8, <1>11, <1>0
    <3> QED
      BY <1>1, <1>4, <1>8, <1>10, <3>1, SumOfAdd
  <2>2. balance \in Balances /\ \A v, w \in Team :
          balance[v]["payable"][w] = balance[w]["receivable"][v]
    BY <1>15 DEF TypeOK, Balances, DebtsMirrorClaims
  <2>3. balance'[t]["payable"][u] = balance[t]["payable"][u] + -old.amount
    BY <1>1, <1>13, <2>2, BooksMirror
  <2>4. old.amount \in Int
    BY <1>1, AmountAssumption DEF Row
  <2>5. Paid(t, u)' = Paid(t, u) + old.amount
    BY <1>2, <1>5, <1>8, <1>9, <1>12, <1>13, <2>1 DEF rows
  <2>6. Paid(t, u) \in Int
    BY <1>5, <1>12
  <2> QED
    BY <1>6, <2>3, <2>4, <2>5, <2>6
<1>14. CASE ~(call[s] = "accept" /\ old.from = t /\ old.to = u)
  <2>2. balance \in Balances /\ \A v, w \in Team :
          balance[v]["payable"][w] = balance[w]["receivable"][v]
    BY <1>15 DEF TypeOK, Balances, DebtsMirrorClaims
  <2>3. balance'[t]["payable"][u] = balance[t]["payable"][u]
    <3>1. CASE call[s] = "accept"
      BY <1>1, <1>14, <3>1, <2>2, BooksMirror
    <3>2. CASE call[s] # "accept"
      BY <1>1, <3>2
    <3> QED
      BY <3>1, <3>2
  <2>5. Paid(t, u)' = Paid(t, u)
    BY <1>5, <1>9, <1>12, <1>14 DEF rows
  <2> QED
    BY <1>6, <2>3, <2>5
<1> QED
  BY <1>13, <1>14

\* A created payment is pending: it is in no sum.
LEMMA CreateSum ==
  ASSUME PaymentInv, IsFiniteSet(trans), BooksAreTheAcceptedPayments,
         NEW p \in PaymentId, NEW from \in Team, NEW to \in Team, NEW amount \in Amount,
         PaymentCreate(p, from, to, amount), NEW t \in Team, NEW u \in Team
  PROVE  balance'[t]["payable"][u] = -Paid(t, u)'
<1> DEFINE A == Accepted(t, u)
           rows == payment'
           new == [from |-> from, to |-> to, amount |-> amount, status |-> "pending"]
<1>1. new \in Row /\ new.status = "pending" /\ None \notin Row
  BY NoneAssumption DEF Row
<1>2. payment \in [PaymentId -> Row \cup {None}]
  BY DEF PaymentInv, TypeOK
<1>3. /\ payment[p] = None /\ rows = [payment EXCEPT ![p] = new] /\ balance' = balance
  BY DEF PaymentCreate
<1>4. /\ rows \in [PaymentId -> Row \cup {None}] /\ rows[p] = new
      /\ \A q \in PaymentId \ {p} : rows[q] = payment[q]
  BY <1>1, <1>2, <1>3
<1>5. IsFiniteSet(A) /\ A \in SUBSET PaymentId
      /\ \A q \in A : payment[q] # None /\ payment[q].status = "accepted"
  BY AcceptedFinite
<1>6. Accepted(t, u)' = A
  <2>1. ASSUME NEW q \in PaymentId PROVE Status(q)' = "accepted" <=> Status(q) = "accepted"
    BY <1>1, <1>3, <1>4 DEF Status
  <2>2. ASSUME NEW q \in PaymentId, Status(q) = "accepted" PROVE rows[q] = payment[q]
    BY <2>2, <1>3, <1>4 DEF Status
  <2> QED
    BY <2>1, <2>2 DEF Accepted
<1>7. \A q \in A : payment[q] # None /\ rows[q] = payment[q]
  BY <1>3, <1>4, <1>5
<1>8. SumOf(rows, A) = SumOf(payment, A)
  <2> HIDE DEF A, rows
  <2> QED
    BY <1>2, <1>4, <1>5, <1>7, SumOfSame
<1>9. Paid(t, u)' = Paid(t, u)
  BY <1>6, <1>8, PaidIsSum
<1> QED
  BY <1>3, <1>9 DEF BooksAreTheAcceptedPayments

\* Without payments there are no sums; every step keeps the books equal to them.
Exact == PaymentInv /\ IsFiniteSet(trans) /\ BooksAreTheAcceptedPayments

\* Without payments there are no sums.
LEMMA InitExact == Init => Exact
<1> SUFFICES ASSUME Init PROVE Exact
  OBVIOUS
<1>1. PaymentInv
  BY InitInv
<1>2. IsFiniteSet(trans)
  BY FS_EmptySet DEF Init
<1>3. ASSUME NEW t \in Team, NEW u \in Team PROVE Paid(t, u) = 0
  <2>1. Accepted(t, u) = {}
    BY DEF Init, Accepted, Status
  <2>2. payment \in [PaymentId -> Row \cup {None}]
    BY DEF Init
  <2>3. SumOf(payment, {}) = Total(Amounts(payment), {})
    BY <2>2, FS_EmptySet, SumOfIsTotal
  <2> QED
    BY <2>1, <2>3, PaidIsSum, TotalEmpty
<1>4. BooksAreTheAcceptedPayments
  BY <1>3 DEF Init, BooksAreTheAcceptedPayments, Key
<1> QED
  BY <1>1, <1>2, <1>4 DEF Exact

\* Every step keeps the books equal to the sums.
LEMMA ExactStep == Exact /\ [Next]_vars => Exact'
<1> SUFFICES ASSUME Exact, [Next]_vars PROVE Exact'
  OBVIOUS
<1>0. PaymentInv /\ IsFiniteSet(trans) /\ BooksAreTheAcceptedPayments
  BY DEF Exact
<1>1. PaymentInv'
  BY <1>0, PaymentInvStep
<1>2. ASSUME UNCHANGED <<payment, trans, balance>> PROVE Exact'
  <2>1. BooksAreTheAcceptedPayments'
    <3>1. ASSUME NEW t \in Team, NEW u \in Team PROVE Paid(t, u)' = Paid(t, u)
      <4>1. Accepted(t, u)' = Accepted(t, u)
        BY <1>2 DEF Accepted, Status
      <4> QED
        BY <4>1, <1>2, PaidIsSum
    <3> QED
      BY <3>1, <1>2, <1>0 DEF BooksAreTheAcceptedPayments
  <2> QED
    BY <1>1, <1>2, <1>0, <2>1 DEF Exact
<1>3. ASSUME IsFiniteSet(trans'),
             \A t, u \in Team : balance'[t]["payable"][u] = -Paid(t, u)'
      PROVE  Exact'
  <2>1. DebtsMirrorClaims'
    BY <1>1 DEF PaymentInv
  <2>2. BooksAreTheAcceptedPayments'
    BY <1>3, <2>1 DEF DebtsMirrorClaims, BooksAreTheAcceptedPayments
  <2> QED
    BY <1>1, <1>3, <2>2 DEF Exact
<1>4. ASSUME NEW p \in PaymentId, NEW from \in Team, NEW to \in Team, NEW amount \in Amount,
             PaymentCreate(p, from, to, amount)
      PROVE  Exact'
  <2>1. \A t, u \in Team : balance'[t]["payable"][u] = -Paid(t, u)'
    BY <1>0, <1>4, CreateSum
  <2>2. trans' = trans
    BY <1>4 DEF PaymentCreate
  <2> QED
    BY <1>0, <1>3, <2>1, <2>2
<1>5. ASSUME NEW s \in Session, Decide(s) PROVE Exact'
  <2>1. \A t, u \in Team : balance'[t]["payable"][u] = -Paid(t, u)'
    BY <1>0, <1>5, DecideSum
  <2>2. trans' = trans \cup {id[s]} \/ trans' = trans
    BY <1>5 DEF Decide
  <2>3. IsFiniteSet(trans')
    BY <1>0, <2>2, FS_AddElement
  <2> QED
    BY <1>3, <2>1, <2>3
<1> QED
  BY <1>2, <1>4, <1>5
     DEF Next, vars, Begin, Read, NoSuchPayment, Refuse, BookPayer,
         BookReceiver, Setup, BookFails, Fail

\* The debt of every team to every other, and the claim of the other, went
\* down by exactly what the payments accepted between them add up to: none is
\* missing, none counts twice, whatever calls race, fail and are repeated.
THEOREM BooksExact == Spec => []BooksAreTheAcceptedPayments
<1>1. Exact => BooksAreTheAcceptedPayments
  BY DEF Exact
<1> QED
  BY <1>1, InitExact, ExactStep, PTL DEF Spec
==============================================================================
