---------------------------- MODULE PostingProofs ----------------------------
(***************************************************************************)
(* Proofs about module Posting: its type correctness, the mutual exclusion *)
(* of the sessions that work on a ref, the alternation of books and        *)
(* reversals, the order of commit and hand-over, and that it implements    *)
(* RefLifecycle, for any sets of sessions and refs.                        *)
(***************************************************************************)
EXTENDS Posting, SequenceTheorems, TLAPS

(* No ref is booked, locked or announced before the first request: the        *)
(* invariant holds when the service starts with empty tables.                 *)
LEMMA InitInv == Init => PostingInv
<1> SUFFICES ASSUME Init PROVE PostingInv
  OBVIOUS
<1>r. (CHOOSE r \in Ref : TRUE) \in Ref
  BY RefAssumption
<1>1. TypeOK
  BY <1>r DEF Init, TypeOK, Kind
<1>2. LockInv
  BY NoneAssumption DEF Init, LockInv, Holding
<1>3. TransInv
  BY DEF Init, TransInv
<1>4. \A s \in Session : OwnFits(s)
  BY DEF Init, OwnFits
<1>5. BookedInv
  BY DEF Init, BookedInv
<1>6. BooksAndReversalsAlternate
  BY DEF Init, BooksAndReversalsAlternate, Alternates
<1>7. OnlyNestedAnticipates
  BY DEF Init, OnlyNestedAnticipates
<1>8. DoneMeansBooked
  BY DEF Init, DoneMeansBooked
<1> QED
  BY <1>1, <1>2, <1>3, <1>4, <1>5, <1>6, <1>7, <1>8 DEF PostingInv

------------------------------------------------------------------------------
\* Every step keeps the types; what a session has written (OwnFits) makes
\* the first posting of a nested transaction exist.
LEMMA TypeStep == PostingInv /\ Next => TypeOK'
<1> SUFFICES ASSUME TypeOK, NEW s \in Session, OwnFits(s),
                    \/ \E r \in Ref : \E k \in KindsOf[r] : Begin(s, k, r)
                    \/ Step(s)
                    \/ BookNothing(s) \/ Fail(s) \/ SendFails(s) \/ Crash(s)
             PROVE  TypeOK'
  BY DEF Next, PostingInv
<1> USE DEF TypeOK, InTransaction, Holding
<1>a. ASSUME NEW told \in {"ok", "skipped", "error", "crashed"}, Abort(s, told), faults' \in Nat
      PROVE  TypeOK'
  BY <1>a DEF Abort, Unlocked
<1>f. ASSUME NEW told \in {"ok", "skipped", "error", "crashed"}, Finish(s, told),
             faults' \in Nat, sent' \subseteq Posting
      PROVE  TypeOK'
  BY <1>f DEF Finish
<1>q. ASSUME NEW next \in Holding, Acquire(s, next)
      PROVE  TypeOK'
  BY <1>q DEF Acquire
<1>w. ASSUME NEW what \in {"book", "reversal"}, NEW next \in Holding, Write(s, what, next)
      PROVE  TypeOK'
  <2>1. NewPosting(s, what, next) \in Posting
    BY DEF Posting, NewPosting
  <2>2. own' \in [Session -> Seq(Posting)]
    BY <1>w, <2>1 DEF Write
  <2> QED
    BY <1>w, <2>2 DEF Write
<1>1. ASSUME NEW r \in Ref, NEW k \in KindsOf[r], Begin(s, k, r)
      PROVE  TypeOK'
  BY <1>1, KindsAssumption DEF Begin
<1>2. CASE NotFound(s)
  BY <1>2, <1>a DEF NotFound
<1>3. CASE Found(s)
  BY <1>3, <1>a, <1>q DEF Found
<1>4. CASE Exists(s)
  BY <1>4, <1>a DEF Exists
<1>5. CASE Create(s)
  BY <1>5, <1>q DEF Create
<1>6. CASE Reverse(s)
  BY <1>6, <1>w DEF Reverse
<1>7. CASE NothingToReverse(s)
  BY <1>7, <1>a DEF NothingToReverse
<1>8. CASE SendNested(s)
  <2>a. pc[s] = "nested"
    BY <1>8 DEF SendNested
  <2>b. Len(own[s]) = 1
    BY <2>a DEF OwnFits
  <2>c. own[s] \in Seq(Posting)
    OBVIOUS
  <2>d. 1 \in 1..Len(own[s])
    BY <2>b
  <2>1. own[s][1] \in Posting
    BY <2>c, <2>d, ElementOfSeq
  <2> QED
    BY <1>8, <2>1 DEF SendNested
<1>9. CASE Book(s)
  <2>1. CASE kind[s] = "expense"
    BY <1>9, <2>1, <1>w DEF Book
  <2>2. CASE kind[s] # "expense"
    BY <1>9, <2>2, <1>w DEF Book
  <2> QED
    BY <2>1, <2>2
<1>10. CASE Commit(s)
  <2>0. journal[ref[s]] \in Seq(Posting) /\ own[s] \in Seq(Posting)
    OBVIOUS
  <2>1. journal[ref[s]] \o own[s] \in Seq(Posting)
    BY <2>0
  <2>2. journal' \in [Ref -> Seq(Posting)]
    BY <1>10, <2>1 DEF Commit
  <2>3. lock' \in [Ref -> Session \cup {None}] /\ trans' \subseteq Ref
    BY <1>10 DEF Commit, Unlocked
  <2>4. CASE kind[s] \in NestedOnly
    <3>1. pc' = [pc EXCEPT ![s] = "idle"] /\ own' = [own EXCEPT ![s] = <<>>]
          /\ outcome' = [outcome EXCEPT ![s] = "ok"]
      BY <1>10, <2>4 DEF Commit
    <3>2. UNCHANGED <<kind, ref, sent, nextId, requests, faults>>
      BY <1>10 DEF Commit
    <3> QED
      BY <2>2, <2>3, <3>1, <3>2
  <2>5. CASE kind[s] \notin NestedOnly
    <3>1. pc' = [pc EXCEPT ![s] = "sending"] /\ UNCHANGED <<own, outcome>>
      BY <1>10, <2>5 DEF Commit
    <3>2. UNCHANGED <<kind, ref, sent, nextId, requests, faults>>
      BY <1>10 DEF Commit
    <3> QED
      BY <2>2, <2>3, <3>1, <3>2
  <2> QED
    BY <2>4, <2>5
<1>11. CASE Send(s)
  BY <1>11, <1>f DEF Send, OuterMessage
<1>12. CASE BookNothing(s)
  BY <1>12, <1>a DEF BookNothing
<1>13. CASE Fail(s)
  BY <1>13, <1>a DEF Fail
<1>14. CASE SendFails(s)
  BY <1>14, <1>a, <1>f DEF SendFails
<1>15. CASE Crash(s)
  BY <1>15, <1>a, <1>f DEF Crash
<1> QED
  BY <1>1, <1>2, <1>3, <1>4, <1>5, <1>6, <1>7, <1>8, <1>9, <1>10, <1>11,
     <1>12, <1>13, <1>14, <1>15 DEF Step

------------------------------------------------------------------------------
\* Exactly the sessions at work on a ref hold its lock: it is taken only when
\* it is free, and given back by the step that ends the transaction.
LEMMA LockStep == PostingInv /\ Next => LockInv'
<1> SUFFICES ASSUME TypeOK, LockInv, NEW s \in Session,
                    \/ \E r \in Ref : \E k \in KindsOf[r] : Begin(s, k, r)
                    \/ Step(s)
                    \/ BookNothing(s) \/ Fail(s) \/ SendFails(s) \/ Crash(s)
             PROVE  LockInv'
  BY DEF Next, PostingInv
<1> USE NoneAssumption DEF TypeOK, InTransaction, Holding, LockInv
<1>a. ASSUME NEW told, Abort(s, told)
      PROVE  LockInv'
  BY <1>a DEF Abort, Unlocked
<1>f. ASSUME NEW told, Finish(s, told), pc[s] = "sending"
      PROVE  LockInv'
  BY <1>f DEF Finish
<1>q. ASSUME NEW next \in Holding, Acquire(s, next), lock[ref[s]] = None,
             pc[s] \in {"begun", "creating"}
      PROVE  LockInv'
  BY <1>q DEF Acquire
<1>w. ASSUME NEW what, NEW next \in Holding, Write(s, what, next), pc[s] \in Holding
      PROVE  LockInv'
  BY <1>w DEF Write
<1>1. ASSUME NEW r \in Ref, NEW k \in KindsOf[r], Begin(s, k, r)
      PROVE  LockInv'
  BY <1>1, KindsAssumption DEF Begin
<1>2. CASE NotFound(s)
  BY <1>2, <1>a DEF NotFound
<1>3. CASE Found(s)
  BY <1>3, <1>a, <1>q DEF Found
<1>4. CASE Exists(s)
  BY <1>4, <1>a DEF Exists
<1>5. CASE Create(s)
  BY <1>5, <1>q DEF Create
<1>6. CASE Reverse(s)
  BY <1>6, <1>w DEF Reverse
<1>7. CASE NothingToReverse(s)
  BY <1>7, <1>a DEF NothingToReverse
<1>8. CASE SendNested(s)
  BY <1>8 DEF SendNested
<1>9. CASE Book(s)
  <2>1. CASE kind[s] = "expense"
    BY <1>9, <2>1, <1>w DEF Book
  <2>2. CASE kind[s] # "expense"
    BY <1>9, <2>2, <1>w DEF Book
  <2> QED
    BY <2>1, <2>2
<1>10. CASE Commit(s)
  BY <1>10 DEF Commit, Unlocked
<1>11. CASE Send(s)
  BY <1>11, <1>f DEF Send
<1>12. CASE BookNothing(s)
  BY <1>12, <1>a DEF BookNothing
<1>13. CASE Fail(s)
  BY <1>13, <1>a DEF Fail
<1>14. CASE SendFails(s)
  BY <1>14, <1>a, <1>f DEF SendFails
<1>15. CASE Crash(s)
  BY <1>15, <1>a, <1>f DEF Crash
<1> QED
  BY <1>1, <1>2, <1>3, <1>4, <1>5, <1>6, <1>7, <1>8, <1>9, <1>10, <1>11,
     <1>12, <1>13, <1>14, <1>15 DEF Step

------------------------------------------------------------------------------
\* The journal and the transactions table change only when a session commits.
LEMMA OnlyCommitWrites ==
  ASSUME NEW s \in Session,
         \/ \E r \in Ref : \E k \in KindsOf[r] : Begin(s, k, r)
         \/ Step(s)
         \/ BookNothing(s) \/ Fail(s) \/ SendFails(s) \/ Crash(s),
         ~Commit(s)
  PROVE  UNCHANGED <<trans, journal>>
<1> USE DEF Abort, Finish, Write, Acquire
<1>1. CASE \E r \in Ref : \E k \in KindsOf[r] : Begin(s, k, r)
  BY <1>1 DEF Begin
<1>2. CASE NotFound(s) \/ Found(s) \/ Exists(s) \/ Create(s)
  BY <1>2 DEF NotFound, Found, Exists, Create
<1>3. CASE Reverse(s) \/ NothingToReverse(s) \/ SendNested(s) \/ Book(s) \/ Send(s)
  BY <1>3 DEF Reverse, NothingToReverse, SendNested, Book, Send
<1>4. CASE BookNothing(s) \/ Fail(s) \/ SendFails(s) \/ Crash(s)
  BY <1>4 DEF BookNothing, Fail, SendFails, Crash
<1> QED
  BY <1>1, <1>2, <1>3, <1>4 DEF Step

\* What a session commits is one or two postings that fit its ref.
LEMMA CommitWrites ==
  ASSUME PostingInv, NEW s \in Session, Commit(s)
  PROVE  /\ pc[s] = "closing"
         /\ ref[s] \in Ref
         /\ lock[ref[s]] = s
         /\ own[s] \in Seq(Posting)
         /\ journal[ref[s]] \in Seq(Posting)
         /\ Len(own[s]) \in {1, 2}
         /\ journal'[ref[s]] = journal[ref[s]] \o own[s]
         /\ \A r \in Ref \ {ref[s]} : journal'[r] = journal[r]
         /\ trans' = trans \cup {ref[s]}
<1>1. pc[s] = "closing"
  BY DEF Commit
<1>2. TypeOK /\ LockInv /\ OwnFits(s)
  BY DEF PostingInv
<1>3. own[s] \in Seq(Posting) /\ ref[s] \in Ref /\ journal \in [Ref -> Seq(Posting)]
  BY <1>2 DEF TypeOK
<1>4. lock[ref[s]] = s
  BY <1>1, <1>2, <1>3 DEF LockInv, Holding
<1>5. Len(own[s]) \in {1, 2}
  BY <1>1, <1>2 DEF OwnFits
<1>6. journal' = [journal EXCEPT ![ref[s]] = journal[ref[s]] \o own[s]]
      /\ trans' = trans \cup {ref[s]}
  BY DEF Commit
<1> QED
  BY <1>1, <1>3, <1>4, <1>5, <1>6

\* Where the postings of a concatenation come from.
LEMMA Appended ==
  ASSUME NEW S, NEW x \in Seq(S), NEW y \in Seq(S), NEW z, z = x \o y
  PROVE  /\ Len(x) \in Nat /\ Len(y) \in Nat
         /\ Len(z) = Len(x) + Len(y)
         /\ \A i \in 1..Len(x) : i \in 1..Len(z) /\ z[i] = x[i]
         /\ \A i \in 1..Len(y) : i + Len(x) \in 1..Len(z) /\ z[i + Len(x)] = y[i]
OBVIOUS

\* So the posting of a ref that appends is not empty.
LEMMA AppendedNotEmpty ==
  ASSUME NEW S, NEW x \in Seq(S), NEW y \in Seq(S), Len(y) \in {1, 2}
  PROVE  x \o y # <<>>
<1> DEFINE m == Len(x)  n == Len(y)
<1>1. m \in Nat /\ n \in {1, 2} /\ Len(x \o y) = m + n
  BY ConcatProperties
<1> HIDE DEF m, n
<1>2. CASE n = 1
  BY <1>1, <1>2
<1>3. CASE n = 2
  BY <1>1, <1>3
<1> QED
  BY <1>1, <1>2, <1>3

\* A committed posting stays committed, and a session's own are committed by
\* its Commit.
LEMMA CommittedGrows ==
  ASSUME PostingInv, Next
  PROVE  /\ Committed \subseteq Committed'
         /\ \A s \in Session : Commit(s) =>
              \A i \in 1..Len(own[s]) : own[s][i] \in Committed'
<1>m. ASSUME NEW p, NEW r \in Ref, NEW i \in 1..Len(journal'[r]), p = journal'[r][i]
      PROVE  p \in Committed'
  BY <1>m DEF Committed
<1>1. ASSUME NEW s \in Session, Commit(s)
      PROVE  /\ Committed \subseteq Committed'
             /\ \A i \in 1..Len(own[s]) : own[s][i] \in Committed'
  <2>1. /\ ref[s] \in Ref
        /\ own[s] \in Seq(Posting) /\ journal[ref[s]] \in Seq(Posting)
        /\ journal'[ref[s]] = journal[ref[s]] \o own[s]
        /\ \A r \in Ref \ {ref[s]} : journal'[r] = journal[r]
    BY <1>1, CommitWrites
  <2>2. /\ Len(journal[ref[s]]) \in Nat
        /\ \A i \in 1..Len(journal[ref[s]]) :
             i \in 1..Len(journal'[ref[s]]) /\ journal'[ref[s]][i] = journal[ref[s]][i]
        /\ \A i \in 1..Len(own[s]) :
             /\ i + Len(journal[ref[s]]) \in 1..Len(journal'[ref[s]])
             /\ journal'[ref[s]][i + Len(journal[ref[s]])] = own[s][i]
    <3> DEFINE x == journal[ref[s]]  y == own[s]  z == journal'[ref[s]]
    <3>1. x \in Seq(Posting) /\ y \in Seq(Posting) /\ z = x \o y
      BY <2>1
    <3> HIDE DEF x, y, z
    <3>2. /\ Len(x) \in Nat
          /\ \A i \in 1..Len(x) : i \in 1..Len(z) /\ z[i] = x[i]
          /\ \A i \in 1..Len(y) : i + Len(x) \in 1..Len(z) /\ z[i + Len(x)] = y[i]
      BY <3>1, Appended
    <3> QED
      BY <3>2 DEF x, y, z
  <2>3. ASSUME NEW p \in Committed PROVE p \in Committed'
    <3>0. PICK r \in Ref : \E i \in 1..Len(journal[r]) : p = journal[r][i]
      BY <2>3 DEF Committed
    <3>1. PICK i \in 1..Len(journal[r]) : p = journal[r][i]
      BY <3>0
    <3>2. i \in 1..Len(journal'[r]) /\ p = journal'[r][i]
      <4>1. CASE r = ref[s]
        BY <2>2, <3>1, <4>1
      <4>2. CASE r # ref[s]
        BY <2>1, <3>1, <4>2
      <4> QED
        BY <4>1, <4>2
    <3> QED
      BY <3>2, <1>m
  <2>4. ASSUME NEW i \in 1..Len(own[s]) PROVE own[s][i] \in Committed'
    <3> DEFINE j == i + Len(journal[ref[s]])
    <3>1. j \in 1..Len(journal'[ref[s]]) /\ own[s][i] = journal'[ref[s]][j]
      BY <2>2
    <3> HIDE DEF j
    <3> QED
      BY <3>1, <2>1, <1>m
  <2> QED
    BY <2>3, <2>4
<1>2. CASE \A s \in Session : ~Commit(s)
  <2>1. journal' = journal
    BY <1>2, OnlyCommitWrites DEF Next
  <2> QED
    BY <2>1, <1>2 DEF Committed
<1> QED
  BY <1>1, <1>2

------------------------------------------------------------------------------
\* A step of one session is not seen by the others but through the tables.
LEMMA OthersKeep ==
  ASSUME PostingInv, NEW s \in Session, NEW q \in Session \ {s},
         \/ \E r \in Ref : \E k \in KindsOf[r] : Begin(s, k, r)
         \/ Step(s)
         \/ BookNothing(s) \/ Fail(s) \/ SendFails(s) \/ Crash(s)
  PROVE  /\ pc'[q] = pc[q] /\ kind'[q] = kind[q] /\ ref'[q] = ref[q]
         /\ own'[q] = own[q] /\ outcome'[q] = outcome[q]
<1> USE DEF Abort, Finish, Write, Acquire
<1>t. TypeOK
  BY DEF PostingInv
<1>1. CASE \E r \in Ref : \E k \in KindsOf[r] : Begin(s, k, r)
  BY <1>1, <1>t DEF Begin, TypeOK
<1>2. CASE NotFound(s) \/ Found(s) \/ Exists(s) \/ Create(s)
  BY <1>2, <1>t DEF NotFound, Found, Exists, Create, TypeOK
<1>3. CASE Reverse(s) \/ NothingToReverse(s) \/ SendNested(s) \/ Book(s) \/ Send(s)
  BY <1>3, <1>t DEF Reverse, NothingToReverse, SendNested, Book, Send, TypeOK
<1>4. CASE BookNothing(s) \/ Fail(s) \/ SendFails(s) \/ Crash(s)
  BY <1>4, <1>t DEF BookNothing, Fail, SendFails, Crash, TypeOK
<1>5. CASE Commit(s)
  BY <1>5, <1>t DEF Commit, TypeOK
<1> QED
  BY <1>1, <1>2, <1>3, <1>4, <1>5 DEF Step

\* The transactions table keeps a row for exactly the refs with postings.
LEMMA TransStep == PostingInv /\ Next => TransInv'
<1> SUFFICES ASSUME PostingInv, NEW s \in Session,
                    \/ \E r \in Ref : \E k \in KindsOf[r] : Begin(s, k, r)
                    \/ Step(s)
                    \/ BookNothing(s) \/ Fail(s) \/ SendFails(s) \/ Crash(s)
             PROVE  TransInv'
  BY DEF Next
<1>1. CASE Commit(s)
  <2>1. /\ own[s] \in Seq(Posting) /\ Len(own[s]) \in {1, 2}
        /\ journal[ref[s]] \in Seq(Posting)
        /\ journal'[ref[s]] = journal[ref[s]] \o own[s]
        /\ \A r \in Ref \ {ref[s]} : journal'[r] = journal[r]
        /\ trans' = trans \cup {ref[s]}
    BY <1>1, CommitWrites
  <2>2. journal'[ref[s]] # <<>>
    BY <2>1, AppendedNotEmpty
  <2> QED
    BY <2>1, <2>2 DEF PostingInv, TransInv
<1>2. CASE ~Commit(s)
  BY <1>2, OnlyCommitWrites DEF PostingInv, TransInv
<1> QED
  BY <1>1, <1>2

\* Two sessions that hold a ref hold different ones.
LEMMA Exclusion ==
  ASSUME PostingInv, NEW s \in Session, NEW q \in Session \ {s},
         pc[s] \in Holding, pc[q] \in Holding
  PROVE  ref[s] # ref[q]
BY DEF PostingInv, LockInv, TypeOK

------------------------------------------------------------------------------
\* What the open database transaction of a session has written keeps fitting
\* what its ref holds: its own steps build it up, and nobody else commits to
\* the ref while the session holds it.
LEMMA FitsStep == PostingInv /\ Next => \A q \in Session : OwnFits(q)'
<1> SUFFICES ASSUME PostingInv, Next, NEW s \in Session,
                    \/ \E r \in Ref : \E k \in KindsOf[r] : Begin(s, k, r)
                    \/ Step(s)
                    \/ BookNothing(s) \/ Fail(s) \/ SendFails(s) \/ Crash(s),
                    NEW q \in Session
             PROVE  OwnFits(q)'
  BY DEF Next
<1>t. TypeOK /\ OwnFits(s) /\ OwnFits(q)
  BY DEF PostingInv
<1>o. CASE q # s
  <2>1. /\ pc'[q] = pc[q] /\ ref'[q] = ref[q] /\ own'[q] = own[q] /\ kind'[q] = kind[q]
    BY <1>o, OthersKeep
  <2>2. ref[q] \in Ref
    BY <1>t DEF TypeOK
  <2>3. pc[q] = "sending" => \A i \in 1..Len(own[q]) : own[q][i] \in Committed'
    BY <1>t, CommittedGrows DEF OwnFits
  <2>4. CASE pc[q] \in Holding
    <3>1. journal'[ref[q]] = journal[ref[q]] /\ (ref[q] \in trans' <=> ref[q] \in trans)
      <4>1. CASE Commit(s)
        <5>1. pc[s] \in Holding
          BY <4>1, CommitWrites DEF Holding
        <5>2. ref[q] \in Ref \ {ref[s]}
          BY <5>1, <2>2, <2>4, <1>o, Exclusion
        <5> QED
          BY <5>2, <4>1, CommitWrites
      <4>2. CASE ~Commit(s)
        BY <4>2, OnlyCommitWrites
      <4> QED
        BY <4>1, <4>2
    <3>2. Live(ref[q])' = Live(ref[q])
      BY <3>1, <2>1 DEF Live
    <3> QED
      BY <1>t, <2>1, <2>4, <3>1, <3>2 DEF OwnFits, Holding
  <2> QED
    BY <1>t, <2>1, <2>3, <2>4 DEF OwnFits, Holding
<1>s. CASE q = s
  <2> SUFFICES OwnFits(s)'
    BY <1>s
  <2>z. ASSUME own'[s] = <<>>, pc'[s] \in {"idle", "begun", "creating"},
               pc'[s] = "begun" => kind'[s] # "expense"
        PROVE  OwnFits(s)'
    BY <2>z DEF OwnFits
  <2>a. ASSUME NEW told, Abort(s, told) PROVE OwnFits(s)'
    BY <2>a, <2>z, <1>t DEF Abort, TypeOK
  <2>f. ASSUME NEW told, Finish(s, told) PROVE OwnFits(s)'
    BY <2>f, <2>z, <1>t DEF Finish, TypeOK
  <2>1. ASSUME NEW r \in Ref, NEW k \in KindsOf[r], Begin(s, k, r) PROVE OwnFits(s)'
    <3>1. /\ own'[s] = <<>> /\ kind'[s] = k
          /\ pc'[s] = IF k \in {"create", "expense"} THEN "creating" ELSE "begun"
      BY <2>1, <1>t DEF Begin, OwnFits, TypeOK
    <3> QED
      BY <2>z, <3>1
  <2>2. CASE NotFound(s)
    BY <2>2, <2>a, <2>z, <1>t DEF NotFound, OwnFits, TypeOK
  <2>3. CASE Found(s)
    <3>1. CASE kind[s] = "record"
      BY <2>3, <3>1, <2>a DEF Found
    <3>2. CASE kind[s] # "record"
      <4>1. pc'[s] = "held" /\ own'[s] = <<>> /\ ref'[s] \in trans' /\ kind'[s] # "expense"
        BY <2>3, <3>2, <1>t DEF Found, Acquire, TypeOK, OwnFits
      <4> QED
        BY <4>1 DEF OwnFits
    <3> QED
      BY <3>1, <3>2
  <2>4. CASE Exists(s) \/ NothingToReverse(s) \/ BookNothing(s) \/ Fail(s)
    BY <2>4, <2>a DEF Exists, NothingToReverse, BookNothing, Fail
  <2>5. CASE Create(s)
    <3>1. pc'[s] = "booking" /\ own'[s] = <<>> /\ ref'[s] \notin trans'
      BY <2>5, <1>t DEF Create, Acquire, TypeOK, OwnFits
    <3> QED
      BY <3>1 DEF OwnFits
  <2>6. CASE Reverse(s)
    <3>1. own[s] = <<>> /\ Live(ref[s]) /\ kind[s] # "expense"
      BY <2>6, <1>t DEF Reverse, OwnFits
    <3>2. /\ own'[s] = <<NewPosting(s, "reversal", pc'[s])>>
          /\ pc'[s] \in {"booking", "nested"}
          /\ ref'[s] = ref[s] /\ journal' = journal /\ kind'[s] # "expense"
      BY <2>6, <3>1, <1>t DEF Reverse, Write, TypeOK
    <3>3. Live(ref[s])'
      BY <3>1, <3>2 DEF Live
    <3>4. /\ Len(own'[s]) = 1 /\ IsReversal(own'[s][1])
          /\ pc'[s] = "nested" => own'[s][1].nested
      <4> DEFINE p == NewPosting(s, "reversal", pc'[s])
      <4>1. IsReversal(p) /\ (pc'[s] = "nested" => p.nested)
        BY DEF IsReversal, NewPosting
      <4>2. own'[s] = <<p>>
        BY <3>2
      <4> HIDE DEF p
      <4>3. Len(own'[s]) = 1 /\ own'[s][1] = p
        BY <4>2
      <4> QED
        BY <4>1, <4>3
    <3> QED
      BY <3>2, <3>3, <3>4 DEF OwnFits
  <2>8. CASE SendNested(s)
    <3>1. /\ own' = own /\ ref' = ref /\ journal' = journal /\ trans' = trans /\ kind' = kind
          /\ pc'[s] = (IF kind[s] \in NestedOnly THEN "closing" ELSE "booking")
      BY <2>8, <1>t DEF SendNested, TypeOK
    <3>2. Live(ref[s])' = Live(ref[s])
      BY <3>1 DEF Live
    <3>3. CASE kind[s] # "expense"
      <4>1. Len(own[s]) = 1 /\ IsReversal(own[s][1]) /\ Live(ref[s])
        BY <2>8, <3>3, <1>t DEF SendNested, OwnFits
      <4> QED
        BY <3>1, <3>2, <3>3, <4>1 DEF OwnFits
    <3>4. CASE kind[s] = "expense"
      <4>1. Len(own[s]) = 1 /\ IsBook(own[s][1]) /\ ref[s] \notin trans
        BY <2>8, <3>4, <1>t DEF SendNested, OwnFits
      <4> QED
        BY <3>1, <3>4, <4>1 DEF OwnFits, NestedOnly
    <3> QED
      BY <3>3, <3>4
  <2>9. CASE Book(s)
    <3> DEFINE next == IF kind[s] = "expense" THEN "nested" ELSE "closing"
               p == NewPosting(s, "book", next)
    <3>0. own[s] \in Seq(Posting) /\ p \in Posting
      BY <1>t DEF TypeOK, Posting, NewPosting
    <3>1. /\ own'[s] = Append(own[s], p) /\ pc'[s] = next /\ kind'[s] = kind[s]
          /\ ref'[s] = ref[s] /\ journal' = journal /\ trans' = trans
      BY <2>9, <1>t DEF Book, Write, TypeOK
    <3>2. IsBook(p) /\ (next = "nested" => p.nested) /\ (next = "nested" <=> kind[s] = "expense")
          /\ next \in {"nested", "closing"}
      BY DEF IsBook, NewPosting
    <3> HIDE DEF p, next
    <3>3. CASE own[s] = <<>> /\ ref[s] \notin trans
      <4>1. own'[s] = <<p>>
        BY <3>1, <3>3
      <4> QED
        BY <4>1, <3>1, <3>2, <3>3 DEF OwnFits
    <3>4. CASE kind[s] # "expense" /\ Len(own[s]) = 1 /\ IsReversal(own[s][1]) /\ Live(ref[s])
      <4>1. Len(own'[s]) = 2 /\ own'[s][1] = own[s][1] /\ own'[s][2] = p
        BY <3>0, <3>1, <3>4, AppendProperties
      <4>2. Live(ref[s])'
        BY <3>1, <3>4 DEF Live
      <4> QED
        BY <4>1, <4>2, <3>1, <3>2, <3>4 DEF OwnFits
    <3> QED
      BY <3>3, <3>4, <2>9, <1>t DEF Book, OwnFits
  <2>10. CASE Commit(s)
    <3>1. CASE kind[s] \in NestedOnly
      BY <2>10, <3>1, <2>z, <1>t DEF Commit, TypeOK
    <3>2. CASE kind[s] \notin NestedOnly
      <4>1. pc'[s] = "sending" /\ own'[s] = own[s]
        BY <2>10, <3>2, <1>t DEF Commit, TypeOK
      <4>2. \A i \in 1..Len(own[s]) : own[s][i] \in Committed'
        BY <2>10, CommittedGrows
      <4> QED
        BY <4>1, <4>2 DEF OwnFits
    <3> QED
      BY <3>1, <3>2
  <2>11. CASE Send(s)
    BY <2>11, <2>f DEF Send
  <2>12. CASE SendFails(s) \/ Crash(s)
    BY <2>12, <2>a, <2>f DEF SendFails, Crash
  <2> QED
    BY <2>1, <2>2, <2>3, <2>4, <2>5, <2>6, <2>8, <2>9, <2>10, <2>11, <2>12 DEF Step
<1> QED
  BY <1>o, <1>s

------------------------------------------------------------------------------
\* Appending postings that fit to an alternating sequence keeps it alternating.
LEMMA AlternatingAppend ==
  ASSUME NEW x \in Seq(Posting), NEW y \in Seq(Posting), NEW z, z = x \o y,
         Alternates(x),
         \/ x = <<>> /\ Len(y) = 1 /\ IsBook(y[1])
         \/ /\ x # <<>> /\ IsBook(x[Len(x)])
            /\ \/ Len(y) = 1 /\ IsReversal(y[1])
               \/ Len(y) = 2 /\ IsReversal(y[1]) /\ IsBook(y[2])
  PROVE  Alternates(z)
<1> USE DEF Alternates, IsBook, IsReversal
<1>1. /\ Len(x) \in Nat /\ Len(y) \in Nat /\ Len(y) \in {1, 2} /\ Len(z) = Len(x) + Len(y)
      /\ \A i \in 1..Len(x) : z[i] = x[i]
      /\ \A i \in 1..Len(y) : z[i + Len(x)] = y[i]
  BY Appended
<1>2. z[Len(x) + 1] = y[1] /\ (Len(y) = 2 => z[Len(x) + 2] = y[2])
  <2>1. 1 \in 1..Len(y) /\ (Len(y) = 2 => 2 \in 1..Len(y))
    <3>1. CASE Len(y) = 1
      BY <3>1
    <3>2. CASE Len(y) = 2
      BY <3>2
    <3> QED
      BY <1>1, <3>1, <3>2
  <2>2. z[1 + Len(x)] = y[1] /\ (Len(y) = 2 => z[2 + Len(x)] = y[2])
    BY <1>1, <2>1
  <2> QED
    BY <1>1, <2>2
<1>3. CASE x = <<>>
  <2>1. Len(z) = 1 /\ z[1] = y[1] /\ IsBook(y[1])
    BY <1>1, <1>2, <1>3
  <2> QED
    BY <2>1
<1>4. CASE x # <<>>
  <2>1. Len(x) >= 1 /\ x[Len(x)].kind = "book" /\ z[Len(x)] = x[Len(x)]
    BY <1>1, <1>4
  <2>2. y[1].kind = "reversal" /\ (Len(y) = 2 => y[2].kind = "book")
    BY <1>4
  <2>3. ASSUME NEW i \in 1..Len(z)
        PROVE  IF i = 1 THEN z[i].kind = "book" ELSE z[i].kind # z[i-1].kind
    <3>1. CASE i = 1
      BY <3>1, <1>1, <2>1
    <3>2. CASE i # 1 /\ i <= Len(x)
      <4>1. i \in 1..Len(x) /\ i - 1 \in 1..Len(x)
        BY <3>2, <1>1
      <4>2. z[i] = x[i] /\ z[i-1] = x[i-1]
        BY <4>1, <1>1
      <4> QED
        BY <3>2, <4>1, <4>2
    <3>3. CASE i = Len(x) + 1
      <4>1. z[i] = y[1] /\ i - 1 = Len(x) /\ i # 1
        BY <3>3, <1>1, <1>2, <2>1
      <4> QED
        BY <4>1, <2>1, <2>2
    <3>4. CASE i = Len(x) + 2
      <4>1. Len(y) = 2 /\ z[i] = y[2] /\ i - 1 = Len(x) + 1 /\ i # 1
        BY <3>4, <1>1, <1>2, <2>1
      <4> QED
        BY <4>1, <1>2, <2>2
    <3>5. i \in Nat /\ i >= 1 /\ (i <= Len(x) \/ i = Len(x) + 1 \/ i = Len(x) + 2)
      <4>1. CASE Len(y) = 1
        BY <4>1, <1>1
      <4>2. CASE Len(y) = 2
        BY <4>2, <1>1
      <4> QED
        BY <1>1, <4>1, <4>2
    <3> QED
      BY <3>1, <3>2, <3>3, <3>4, <3>5
  <2> QED
    BY <2>3
<1> QED
  BY <1>3, <1>4

\* Books and reversals alternate: what a session commits fits what its ref
\* held when it took the lock, and still holds.
LEMMA AlternationStep == PostingInv /\ Next => BooksAndReversalsAlternate'
<1> SUFFICES ASSUME PostingInv, NEW s \in Session,
                    \/ \E r \in Ref : \E k \in KindsOf[r] : Begin(s, k, r)
                    \/ Step(s)
                    \/ BookNothing(s) \/ Fail(s) \/ SendFails(s) \/ Crash(s),
                    NEW r \in Ref
             PROVE  Alternates(journal'[r])
  BY DEF Next, BooksAndReversalsAlternate, Alternates
<1>1. Alternates(journal[r])
  BY DEF PostingInv, BooksAndReversalsAlternate
<1>2. CASE Commit(s) /\ r = ref[s]
  <2>1. /\ pc[s] = "closing"
        /\ own[s] \in Seq(Posting) /\ journal[r] \in Seq(Posting)
        /\ journal'[r] = journal[r] \o own[s]
    BY <1>2, CommitWrites
  <2>2. \/ Len(own[s]) = 1 /\ IsBook(own[s][1]) /\ r \notin trans
        \/ Len(own[s]) = 1 /\ IsReversal(own[s][1]) /\ Live(r)
        \/ /\ Len(own[s]) = 2 /\ IsReversal(own[s][1]) /\ IsBook(own[s][2])
           /\ Live(r)
    BY <1>2, <2>1 DEF PostingInv, OwnFits
  <2>3. r \notin trans => journal[r] = <<>>
    BY DEF PostingInv, TransInv
  <2>4. Live(r) => journal[r] # <<>> /\ IsBook(journal[r][Len(journal[r])])
    BY DEF Live, IsBook
  <2> QED
    BY <2>1, <2>2, <2>3, <2>4, <1>1, AlternatingAppend
<1>3. CASE ~(Commit(s) /\ r = ref[s])
  <2>1. CASE Commit(s)
    <3>1. \A q \in Ref \ {ref[s]} : journal'[q] = journal[q]
      BY <2>1, CommitWrites
    <3> QED
      BY <1>1, <1>3, <2>1, <3>1
  <2>2. CASE ~Commit(s)
    <3>1. UNCHANGED <<trans, journal>>
      BY <2>2, OnlyCommitWrites
    <3> QED
      BY <1>1, <3>1
  <2> QED
    BY <2>1, <2>2
<1> QED
  BY <1>2, <1>3

------------------------------------------------------------------------------
\* What Send adds is committed, what a nested OpenTransaction adds is nested.
LEMMA MessageStep == PostingInv /\ Next => OnlyNestedAnticipates'
<1> SUFFICES ASSUME PostingInv, Next, NEW s \in Session,
                    \/ \E r \in Ref : \E k \in KindsOf[r] : Begin(s, k, r)
                    \/ Step(s)
                    \/ BookNothing(s) \/ Fail(s) \/ SendFails(s) \/ Crash(s),
                    NEW p \in sent', ~p.nested
             PROVE  p \in Committed'
  BY DEF Next, OnlyNestedAnticipates
<1>c. p \in sent => p \in Committed'
  BY CommittedGrows DEF PostingInv, OnlyNestedAnticipates
<1>t. OwnFits(s)
  BY DEF PostingInv
<1> USE DEF Abort, Finish, Write, Acquire
<1>1. CASE SendNested(s)
  <2>1. sent' = sent \cup {own[s][1]} /\ own[s][1].nested
    BY <1>1, <1>t DEF SendNested, OwnFits
  <2> QED
    BY <1>c, <2>1
<1>2. CASE Send(s)
  <2>1. sent' = sent \cup OuterMessage(s) /\ pc[s] = "sending"
    BY <1>2 DEF Send
  <2>2. \A m \in OuterMessage(s) : m \in Committed
    BY <1>t, <2>1 DEF OwnFits, OuterMessage
  <2> QED
    BY <1>c, <2>1, <2>2, CommittedGrows
<1>3. CASE sent' = sent
  BY <1>c, <1>3
<1>4. CASE ~SendNested(s) /\ ~Send(s)
  <2>1. CASE \E r \in Ref : \E k \in KindsOf[r] : Begin(s, k, r)
    BY <2>1, <1>3 DEF Begin
  <2>2. CASE NotFound(s) \/ Found(s) \/ Exists(s) \/ Create(s)
    BY <2>2, <1>3 DEF NotFound, Found, Exists, Create
  <2>3. CASE Reverse(s) \/ NothingToReverse(s) \/ Book(s) \/ Commit(s)
    BY <2>3, <1>3 DEF Reverse, NothingToReverse, Book, Commit
  <2>4. CASE BookNothing(s) \/ Fail(s) \/ SendFails(s) \/ Crash(s)
    BY <2>4, <1>3 DEF BookNothing, Fail, SendFails, Crash
  <2> QED
    BY <1>4, <2>1, <2>2, <2>3, <2>4 DEF Step
<1> QED
  BY <1>1, <1>2, <1>4

\* A session that hands over, or was told its event is booked, has its ref in
\* the transactions table: rows of that table are never removed.
LEMMA DoneStep == PostingInv /\ Next => BookedInv' /\ DoneMeansBooked'
<1> SUFFICES ASSUME PostingInv, Next, NEW s \in Session,
                    \/ \E r \in Ref : \E k \in KindsOf[r] : Begin(s, k, r)
                    \/ Step(s)
                    \/ BookNothing(s) \/ Fail(s) \/ SendFails(s) \/ Crash(s),
                    NEW q \in Session
             PROVE  /\ pc'[q] = "sending" => ref'[q] \in trans'
                    /\ (/\ pc'[q] = "idle"
                        /\ kind'[q] \in {"create", "record", "expense"}
                        /\ outcome'[q] \in {"ok", "skipped"}) => ref'[q] \in trans'
  <2>1. PostingInv /\ Next => TypeOK' /\ TransInv'
    BY TypeStep, TransStep
  <2> QED
    BY <2>1 DEF Next, BookedInv, DoneMeansBooked, TypeOK, TransInv
<1> DEFINE Done(p) == (/\ pc[p] = "idle"
                       /\ kind[p] \in {"create", "record", "expense"}
                       /\ outcome[p] \in {"ok", "skipped"}) => ref[p] \in trans
<1>t. TypeOK /\ BookedInv /\ Done(q)
  BY DEF PostingInv, DoneMeansBooked
<1>m. trans \subseteq trans'
  <2>1. CASE Commit(s)
    BY <2>1, CommitWrites
  <2>2. CASE ~Commit(s)
    BY <2>2, OnlyCommitWrites
  <2> QED
    BY <2>1, <2>2
<1>o. CASE q # s
  BY <1>o, <1>t, <1>m, OthersKeep DEF BookedInv
<1>s. CASE q = s
  <2>a. ASSUME NEW told, Abort(s, told),
               told = "skipped" /\ kind[s] \in {"create", "record", "expense"} => ref[s] \in trans,
               told # "ok"
        PROVE  /\ pc'[s] = "idle"
               /\ kind'[s] \in {"create", "record", "expense"} /\ outcome'[s] \in {"ok", "skipped"}
                    => ref'[s] \in trans'
    BY <2>a, <1>t, <1>m DEF Abort, TypeOK
  <2>f. ASSUME NEW told, Finish(s, told), pc[s] = "sending"
        PROVE  pc'[s] = "idle" /\ ref'[s] \in trans'
    BY <2>f, <1>t, <1>m DEF Finish, TypeOK, BookedInv
  <2>w. ASSUME pc'[s] \in {"begun", "creating"} \cup Holding
        PROVE  pc'[s] \notin {"idle", "sending"}
    BY <2>w DEF Holding
  <2>1. ASSUME NEW r \in Ref, NEW k \in KindsOf[r], Begin(s, k, r)
        PROVE  pc'[s] \notin {"idle", "sending"}
    BY <2>1, <1>t DEF Begin, TypeOK
  <2>2. CASE NotFound(s)
    BY <2>2, <2>a, <1>s, <1>t DEF NotFound, TypeOK
  <2>3. CASE Found(s)
    BY <2>3, <2>a, <1>s, <1>t DEF Found, Acquire, TypeOK
  <2>4. CASE Exists(s)
    BY <2>4, <2>a, <1>s DEF Exists
  <2>5. CASE Create(s)
    BY <2>5, <1>s, <1>t DEF Create, Acquire, TypeOK
  <2>6. CASE Reverse(s) \/ Book(s)
    BY <2>6, <1>s, <1>t DEF Reverse, Book, Write, TypeOK
  <2>7. CASE NothingToReverse(s) \/ Fail(s)
    BY <2>7, <2>a, <1>s DEF NothingToReverse, Fail
  <2>8. CASE SendNested(s)
    BY <2>8, <1>s, <1>t DEF SendNested, TypeOK
  <2>9. CASE BookNothing(s)
    BY <2>9, <2>a, <1>s DEF BookNothing
  <2>10. CASE Commit(s)
    BY <2>10, <1>s, <1>t DEF Commit, TypeOK
  <2>11. CASE Send(s)
    BY <2>11, <2>f, <1>s DEF Send
  <2>12. CASE SendFails(s) \/ Crash(s)
    BY <2>12, <2>a, <2>f, <1>s DEF SendFails, Crash
  <2> QED
    BY <1>s, <2>1, <2>2, <2>3, <2>4, <2>5, <2>6, <2>7, <2>8, <2>9, <2>10, <2>11,
       <2>12 DEF Step
<1> QED
  BY <1>o, <1>s

------------------------------------------------------------------------------
\* The invariant is inductive.
LEMMA PostingInvStep == PostingInv /\ [Next]_vars => PostingInv'
<1>1. PostingInv /\ Next => PostingInv'
  BY TypeStep, LockStep, TransStep, FitsStep, AlternationStep, MessageStep, DoneStep
     DEF PostingInv
<1>2. PostingInv /\ UNCHANGED vars => PostingInv'
  <2> SUFFICES ASSUME PostingInv, UNCHANGED vars PROVE PostingInv'
    OBVIOUS
  <2>1. TypeOK' /\ LockInv' /\ TransInv'
    BY DEF PostingInv, vars, TypeOK, LockInv, TransInv
  <2>2. \A s \in Session : OwnFits(s)'
    BY DEF PostingInv, vars, OwnFits, Live, Committed
  <2>3. BookedInv' /\ BooksAndReversalsAlternate' /\ OnlyNestedAnticipates' /\ DoneMeansBooked'
    BY DEF PostingInv, vars, BookedInv, BooksAndReversalsAlternate,
           OnlyNestedAnticipates, DoneMeansBooked, Committed
  <2> QED
    BY <2>1, <2>2, <2>3 DEF PostingInv
<1> QED
  BY <1>1, <1>2

\* Every reachable state satisfies the inductive invariant.
THEOREM Invariance == Spec => []PostingInv
BY InitInv, PostingInvStep, PTL DEF Spec

\* The variables keep their types.
THEOREM TypeCorrect == Spec => []TypeOK
<1>1. PostingInv => TypeOK
  BY DEF PostingInv
<1> QED
  BY <1>1, Invariance, PTL

\* Whatever requests race for a ref, it is never booked on top of a booking
\* and never reversed twice.
THEOREM Alternation == Spec => []BooksAndReversalsAlternate
<1>1. PostingInv => BooksAndReversalsAlternate
  BY DEF PostingInv
<1> QED
  BY <1>1, Invariance, PTL

\* What the daily balances hear of before it is committed was written by an
\* OpenTransaction inside another transaction: the reversal of RollbackEntry or
\* the book of an expense.
THEOREM AnticipationIsNested == Spec => []OnlyNestedAnticipates
<1>1. PostingInv => OnlyNestedAnticipates
  BY DEF PostingInv
<1> QED
  BY <1>1, Invariance, PTL

\* A caller told that its event is booked, or was before, can rely on it.
THEOREM AnswerIsTrue == Spec => []DoneMeansBooked
<1>1. PostingInv => DoneMeansBooked
  BY DEF PostingInv
<1> QED
  BY <1>1, Invariance, PTL

------------------------------------------------------------------------------
\* A commit posts an absent ref, cancels a live one or leaves it live.
LEMMA CommitMoves ==
  ASSUME PostingInv, NEW s \in Session, Commit(s)
  PROVE  \/ Lifecycle!Post(ref[s])
         \/ Lifecycle!Cancel(ref[s])
         \/ UNCHANGED RefState
<1> DEFINE x == journal[ref[s]]
           y == own[s]
           z == journal'[ref[s]]
<1>1. /\ ref[s] \in Ref
      /\ x \in Seq(Posting) /\ y \in Seq(Posting) /\ z = x \o y
      /\ Len(y) \in {1, 2}
      /\ \A r \in Ref \ {ref[s]} : journal'[r] = journal[r]
  BY CommitWrites
<1>2. \/ Len(y) = 1 /\ IsBook(y[1]) /\ x = <<>>
      \/ Len(y) = 1 /\ IsReversal(y[1]) /\ Live(ref[s])
      \/ Len(y) = 2 /\ IsReversal(y[1]) /\ IsBook(y[2]) /\ Live(ref[s])
  BY <1>1, CommitWrites DEF PostingInv, OwnFits, TransInv
<1>3. z # <<>> /\ z[Len(z)] = y[Len(y)]
  <2> HIDE DEF x, y, z
  <2>1. z # <<>>
    BY <1>1, AppendedNotEmpty
  <2>2. Len(x) \in Nat /\ Len(y) \in Nat /\ Len(z) = Len(x) + Len(y)
        /\ \A i \in 1..Len(y) : z[i + Len(x)] = y[i]
    BY <1>1, Appended
  <2>3. Len(y) \in 1..Len(y)
    <3>1. CASE Len(y) = 1
      BY <3>1
    <3>2. CASE Len(y) = 2
      BY <3>2
    <3> QED
      BY <1>1, <3>1, <3>2
  <2>4. z[Len(y) + Len(x)] = y[Len(y)]
    BY <2>2, <2>3
  <2>5. Len(y) + Len(x) = Len(z)
    BY <2>2
  <2> QED
    BY <2>1, <2>4, <2>5
<1>4. /\ DOMAIN RefState = Ref /\ DOMAIN RefState' = Ref
      /\ RefState' = [r \in Ref |-> RefState'[r]] /\ RefState = [r \in Ref |-> RefState[r]]
  BY DEF RefState
<1>5. \A r \in Ref \ {ref[s]} : RefState'[r] = RefState[r]
  BY <1>1 DEF RefState, Live
<1>6. RefState'[ref[s]] = IF IsBook(y[Len(y)]) THEN "live" ELSE "cancelled"
  BY <1>1, <1>3 DEF RefState, Live, IsBook
<1>7. CASE Len(y) = 1 /\ IsBook(y[1]) /\ x = <<>>
  <2>1. RefState[ref[s]] = "absent" /\ RefState'[ref[s]] = "live"
    BY <1>1, <1>6, <1>7 DEF RefState
  <2>2. RefState' = [RefState EXCEPT ![ref[s]] = "live"]
    BY <1>4, <1>5, <2>1
  <2> QED
    BY <2>1, <2>2 DEF Lifecycle!Post, Lifecycle!Absent, Lifecycle!Live
<1>8. CASE Len(y) = 1 /\ IsReversal(y[1]) /\ Live(ref[s])
  <2>1. RefState[ref[s]] = "live" /\ RefState'[ref[s]] = "cancelled"
    BY <1>1, <1>6, <1>8 DEF RefState, Live, IsReversal, IsBook
  <2>2. RefState' = [RefState EXCEPT ![ref[s]] = "cancelled"]
    BY <1>4, <1>5, <2>1
  <2> QED
    BY <2>1, <2>2 DEF Lifecycle!Cancel, Lifecycle!Cancelled, Lifecycle!Live
<1>9. CASE Len(y) = 2 /\ IsReversal(y[1]) /\ IsBook(y[2]) /\ Live(ref[s])
  <2>1. RefState[ref[s]] = "live" /\ RefState'[ref[s]] = "live"
    BY <1>1, <1>6, <1>9 DEF RefState, Live
  <2>2. \A r \in Ref : RefState'[r] = RefState[r]
    BY <1>5, <2>1
  <2>3. RefState' = RefState
    BY <1>4, <2>2
  <2> QED
    BY <2>3
<1> QED
  BY <1>2, <1>7, <1>8, <1>9

\* The service implements the life cycle of a ref: whatever sessions do, an
\* event is booked at most once and cancelled at most once.
THEOREM Refinement == Spec => ImplementsLifecycle
<1>1. Init => Lifecycle!Init
  BY DEF Init, Lifecycle!Init, RefState, Lifecycle!Absent
<1>2. PostingInv /\ [Next]_vars => [Lifecycle!Next]_RefState
  <2> SUFFICES ASSUME PostingInv, [Next]_vars PROVE [Lifecycle!Next]_RefState
    OBVIOUS
  <2>1. CASE UNCHANGED vars
    BY <2>1 DEF vars, RefState, Live
  <2>2. ASSUME NEW s \in Session, Commit(s) PROVE [Lifecycle!Next]_RefState
    <3>1. ref[s] \in Ref
      BY <2>2, CommitWrites
    <3> QED
      BY <2>2, <3>1, CommitMoves DEF Lifecycle!Next
  <2>3. CASE Next /\ \A s \in Session : ~Commit(s)
    <3>1. journal' = journal
      BY <2>3, OnlyCommitWrites DEF Next
    <3> QED
      BY <3>1 DEF RefState, Live
  <2> QED
    BY <2>1, <2>2, <2>3
<1>3. Spec => Lifecycle!Init /\ [][Lifecycle!Next]_RefState
  BY <1>1, <1>2, Invariance, PTL DEF Spec
<1> QED
  BY <1>3 DEF ImplementsLifecycle, Lifecycle!Spec

------------------------------------------------------------------------------
\* What a session that has not committed yet owes the daily balances: what a
\* nested OpenTransaction has written is handed over already, and a cancel or an
\* expense writes nothing else.
SentInv(s) ==
  /\ pc[s] = "creating" => kind[s] \notin {"cancel", "update"}
  /\ pc[s] = "booking" => kind[s] # "cancel"
  /\ pc[s] \in {"booking", "closing"} =>
       \A i \in 1..Len(own[s]) : own[s][i].nested => own[s][i] \in sent
  /\ pc[s] = "closing" /\ kind[s] \in NestedOnly =>
       \A i \in 1..Len(own[s]) : own[s][i].nested

AnnounceInv == (\A s \in Session : SentInv(s)) /\ CommittedIsAnnounced

\* What was handed over stays handed over.
LEMMA SentGrows == Next => sent \subseteq sent'
<1> SUFFICES ASSUME NEW s \in Session,
                    \/ \E r \in Ref : \E k \in KindsOf[r] : Begin(s, k, r)
                    \/ Step(s)
                    \/ BookNothing(s) \/ Fail(s) \/ SendFails(s) \/ Crash(s)
             PROVE  sent \subseteq sent'
  BY DEF Next
<1> USE DEF Abort, Finish, Write, Acquire
<1>1. CASE \E r \in Ref : \E k \in KindsOf[r] : Begin(s, k, r)
  BY <1>1 DEF Begin
<1>2. CASE NotFound(s) \/ Found(s) \/ Exists(s) \/ Create(s)
  BY <1>2 DEF NotFound, Found, Exists, Create
<1>3. CASE Reverse(s) \/ NothingToReverse(s) \/ SendNested(s) \/ Book(s) \/ Send(s) \/ Commit(s)
  BY <1>3 DEF Reverse, NothingToReverse, SendNested, Book, Send, Commit
<1>4. CASE BookNothing(s) \/ Fail(s) \/ SendFails(s) \/ Crash(s)
  BY <1>4 DEF BookNothing, Fail, SendFails, Crash
<1> QED
  BY <1>1, <1>2, <1>3, <1>4 DEF Step

\* The steps of a handler keep SentInv.
LEMMA SentStep ==
  ASSUME PostingInv, Next, \A q \in Session : SentInv(q)
  PROVE  \A q \in Session : SentInv(q)'
<1> SUFFICES ASSUME NEW s \in Session,
                    \/ \E r \in Ref : \E k \in KindsOf[r] : Begin(s, k, r)
                    \/ Step(s)
                    \/ BookNothing(s) \/ Fail(s) \/ SendFails(s) \/ Crash(s),
                    NEW q \in Session
             PROVE  SentInv(q)'
  BY DEF Next
<1>t. TypeOK /\ SentInv(q) /\ OwnFits(s) /\ sent \subseteq sent'
  BY SentGrows DEF PostingInv
<1>o. CASE q # s
  BY <1>o, <1>t, OthersKeep DEF SentInv
<1>s. CASE q = s
  <2> SUFFICES SentInv(s)'
    BY <1>s
  <2>n. ASSUME pc'[s] \notin {"creating", "booking", "closing"} PROVE SentInv(s)'
    BY <2>n DEF SentInv
  <2>a. ASSUME NEW told, Abort(s, told) PROVE SentInv(s)'
    BY <2>a, <2>n, <1>t DEF Abort, TypeOK
  <2>f. ASSUME NEW told, Finish(s, told) PROVE SentInv(s)'
    BY <2>f, <2>n, <1>t DEF Finish, TypeOK
  <2>1. ASSUME NEW r \in Ref, NEW k \in KindsOf[r], Begin(s, k, r) PROVE SentInv(s)'
    <3>1. /\ pc'[s] = (IF k \in {"create", "expense"} THEN "creating" ELSE "begun")
          /\ kind'[s] = k
      BY <2>1, <1>t DEF Begin, TypeOK
    <3> QED
      BY <3>1 DEF SentInv
  <2>2. CASE NotFound(s)
    BY <2>2, <2>a, <1>t DEF NotFound, TypeOK, SentInv
  <2>3. CASE Found(s)
    BY <2>3, <2>a, <2>n, <1>t DEF Found, Acquire, TypeOK
  <2>4. CASE Create(s)
    <3>1. /\ pc[s] = "creating" /\ pc'[s] = "booking"
          /\ own'[s] = own[s] /\ kind'[s] = kind[s]
      BY <2>4, <1>t DEF Create, Acquire, TypeOK
    <3>2. own[s] = <<>>
      BY <3>1, <1>t DEF OwnFits
    <3> QED
      BY <1>s, <1>t, <3>1, <3>2 DEF SentInv
  <2>5. CASE Reverse(s)
    <3>1. /\ pc'[s] = IF kind[s] = "update" THEN "booking" ELSE "nested"
          /\ kind'[s] = kind[s] /\ pc[s] = "held"
          /\ own'[s] = Append(own[s], NewPosting(s, "reversal", pc'[s]))
      BY <2>5, <1>t DEF Reverse, Write, TypeOK
    <3>2. own[s] = <<>>
      BY <3>1, <1>t DEF OwnFits
    <3>3. Len(own'[s]) = 1 /\ (pc'[s] # "nested" => ~own'[s][1].nested)
      <4> DEFINE p == NewPosting(s, "reversal", pc'[s])
      <4>1. pc'[s] # "nested" => ~p.nested
        BY DEF NewPosting
      <4>2. own'[s] = Append(<<>>, p)
        BY <3>1, <3>2
      <4> HIDE DEF p
      <4>3. Len(own'[s]) = 1 /\ own'[s][1] = p
        BY <4>2
      <4> QED
        BY <4>1, <4>3
    <3> QED
      BY <3>1, <3>3 DEF SentInv
  <2>6. CASE SendNested(s)
    <3>1. /\ pc[s] = "nested" /\ own'[s] = own[s] /\ kind'[s] = kind[s]
          /\ pc'[s] = (IF kind[s] \in NestedOnly THEN "closing" ELSE "booking")
          /\ own[s][1] \in sent'
      BY <2>6, <1>t DEF SendNested, TypeOK
    <3>2. Len(own[s]) = 1 /\ own[s][1].nested
      BY <3>1, <1>t DEF OwnFits
    <3> QED
      BY <3>1, <3>2 DEF SentInv, NestedOnly
  <2>7. CASE Book(s)
    <3> DEFINE next == IF kind[s] = "expense" THEN "nested" ELSE "closing"
               p == NewPosting(s, "book", next)
    <3>1. /\ pc[s] = "booking" /\ pc'[s] = next /\ kind'[s] = kind[s] /\ sent' = sent
          /\ own'[s] = Append(own[s], p) /\ own[s] \in Seq(Posting)
      BY <2>7, <1>t DEF Book, Write, TypeOK
    <3>2. CASE next = "nested"
      BY <3>1, <3>2 DEF SentInv
    <3>3. CASE next # "nested"
      <4>1. next = "closing" /\ ~p.nested /\ kind[s] # "expense"
        BY <3>3 DEF NewPosting
      <4> HIDE DEF p, next
      <4>2. \A i \in 1..Len(own'[s]) :
              own'[s][i] = p \/ (i \in 1..Len(own[s]) /\ own'[s][i] = own[s][i])
        BY <3>1
      <4> QED
        BY <1>s, <1>t, <3>1, <4>1, <4>2 DEF SentInv, NestedOnly
    <3> QED
      BY <3>2, <3>3
  <2>8. CASE Commit(s)
    BY <2>8, <2>n, <1>t DEF Commit, TypeOK
  <2>9. CASE Exists(s) \/ NothingToReverse(s) \/ BookNothing(s) \/ Fail(s)
    BY <2>9, <2>a DEF Exists, NothingToReverse, BookNothing, Fail
  <2>10. CASE Send(s) \/ SendFails(s) \/ Crash(s)
    BY <2>10, <2>a, <2>f DEF Send, SendFails, Crash
  <2> QED
    BY <1>s, <2>1, <2>2, <2>3, <2>4, <2>5, <2>6, <2>7, <2>8, <2>9, <2>10 DEF Step
<1> QED
  BY <1>o, <1>s

\* A posting becomes committed by the commit of the session that wrote it.
LEMMA NewlyCommitted ==
  ASSUME PostingInv, NEW s \in Session, Commit(s), NEW p \in Committed'
  PROVE  p \in Committed \/ \E i \in 1..Len(own[s]) : p = own[s][i]
<1>1. /\ ref[s] \in Ref /\ own[s] \in Seq(Posting) /\ journal[ref[s]] \in Seq(Posting)
      /\ journal'[ref[s]] = journal[ref[s]] \o own[s]
      /\ \A r \in Ref \ {ref[s]} : journal'[r] = journal[r]
  BY CommitWrites
<1>2. PICK r \in Ref : \E i \in 1..Len(journal'[r]) : p = journal'[r][i]
  BY DEF Committed
<1>3. PICK i \in 1..Len(journal'[r]) : p = journal'[r][i]
  BY <1>2
<1>4. CASE r # ref[s]
  BY <1>1, <1>3, <1>4 DEF Committed
<1>5. CASE r = ref[s]
  <2> DEFINE x == journal[ref[s]]  y == own[s]  z == journal'[ref[s]]
  <2>1. x \in Seq(Posting) /\ y \in Seq(Posting) /\ z = x \o y /\ i \in 1..Len(z) /\ p = z[i]
    BY <1>1, <1>3, <1>5
  <2> HIDE DEF x, y, z
  <2>2. (i \in 1..Len(x) /\ p = x[i]) \/ (\E j \in 1..Len(y) : p = y[j])
    <3>1. CASE i <= Len(x)
      BY <2>1, <3>1
    <3>2. CASE i > Len(x)
      <4>1. i - Len(x) \in 1..Len(y) /\ z[i] = y[i - Len(x)]
        BY <2>1, <3>2
      <4> QED
        BY <2>1, <4>1
    <3> QED
      BY <2>1, <3>1, <3>2
  <2>3. i \in 1..Len(x) /\ p = x[i] => p \in Committed
    BY <1>1 DEF x, Committed
  <2> QED
    BY <2>2, <2>3 DEF y
<1> QED
  BY <1>4, <1>5

\* While there are no faults, what a step commits it owes, and what it no
\* longer owes it has handed over.
LEMMA AnnounceStep ==
  ASSUME PostingInv, AnnounceInv, [Next]_vars
  PROVE  AnnounceInv'
<1>u. CASE UNCHANGED vars
  BY <1>u DEF AnnounceInv, SentInv, CommittedIsAnnounced, Committed, OuterMessage, vars
<1>n. CASE Next
  <2>1. \A q \in Session : SentInv(q)'
    BY <1>n, SentStep DEF AnnounceInv
  <2>2. CommittedIsAnnounced'
    <3> DEFINE Owed(q, p) == pc[q] = "sending" /\ p \in OuterMessage(q)
    <3> SUFFICES ASSUME faults' = 0, NEW p \in Committed'
                 PROVE  p \in sent' \/ \E q \in Session : Owed(q, p)'
      BY DEF CommittedIsAnnounced
    <3>1. PICK s \in Session :
            \/ \E r \in Ref : \E k \in KindsOf[r] : Begin(s, k, r)
            \/ Step(s)
            \/ BookNothing(s) \/ Fail(s) \/ SendFails(s) \/ Crash(s)
      BY <1>n DEF Next
    <3>t. TypeOK /\ sent \subseteq sent'
      BY <1>n, SentGrows DEF PostingInv
    <3>f. ~SendFails(s) /\ ~Crash(s) /\ faults = 0
      <4>1. ~SendFails(s) /\ ~Crash(s)
        BY <3>t DEF SendFails, Crash, TypeOK
      <4> QED
        BY <3>1, <3>t, <4>1 DEF Step, Begin, NotFound, Found, Exists, Create, Reverse,
             NothingToReverse, SendNested, Book, Commit, Send, BookNothing, Fail, Abort, Finish,
             Write, Acquire
    <3>o. ASSUME NEW q \in Session \ {s}, Owed(q, p) PROVE Owed(q, p)'
      BY <3>1, <3>o, OthersKeep DEF OuterMessage
    <3>2. CASE p \in Committed
      <4>1. p \in sent \/ \E q \in Session : Owed(q, p)
        BY <3>2, <3>f DEF AnnounceInv, CommittedIsAnnounced
      <4>2. ASSUME Owed(s, p) PROVE p \in sent'
        <5>1. Send(s)
          BY <3>1, <3>f, <4>2 DEF Step, Begin, NotFound, Found, Exists, Create, Reverse,
               NothingToReverse, SendNested, Book, Commit, BookNothing, Fail, InTransaction, Holding
        <5> QED
          BY <4>2, <5>1 DEF Send
      <4> QED
        BY <3>t, <3>o, <4>1, <4>2
    <3>3. CASE p \notin Committed
      <4>1. Commit(s)
        <5>1. journal' # journal
          BY <3>3 DEF Committed
        <5> QED
          BY <3>1, <5>1, OnlyCommitWrites
      <4>2. PICK i \in 1..Len(own[s]) : p = own[s][i]
        BY <3>3, <4>1, NewlyCommitted
      <4>3. pc[s] = "closing" /\ SentInv(s) /\ own[s] \in Seq(Posting)
        BY <3>t, <4>1 DEF Commit, AnnounceInv, TypeOK
      <4>5. CASE kind[s] \in NestedOnly
        BY <3>t, <4>2, <4>3, <4>5 DEF SentInv
      <4>6. CASE kind[s] \notin NestedOnly
        <5>1. pc'[s] = "sending" /\ own'[s] = own[s] /\ kind'[s] = kind[s]
          BY <3>t, <4>1, <4>6 DEF Commit, TypeOK
        <5>2. CASE ~p.nested
          BY <4>2, <5>1, <5>2 DEF OuterMessage
        <5>3. CASE p.nested
          BY <3>t, <4>2, <4>3, <5>3 DEF SentInv
        <5> QED
          BY <5>2, <5>3
      <4> QED
        BY <4>5, <4>6
    <3> QED
      BY <3>2, <3>3
  <2> QED
    BY <2>1, <2>2 DEF AnnounceInv
<1> QED
  BY <1>u, <1>n

\* While no process stops and no hand-over fails, the message of every posting
\* that OpenTransaction has committed was handed over or is about to be,
\* whatever nested transactions it was written by.
THEOREM Announced == Spec => []CommittedIsAnnounced
<1>1. Init => AnnounceInv
  BY DEF Init, AnnounceInv, SentInv, CommittedIsAnnounced, Committed
<1>2. PostingInv /\ AnnounceInv /\ [Next]_vars => AnnounceInv'
  BY AnnounceStep
<1>3. AnnounceInv => CommittedIsAnnounced
  BY DEF AnnounceInv
<1> QED
  BY <1>1, <1>2, <1>3, Invariance, PTL DEF Spec
==============================================================================
