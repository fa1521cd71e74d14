------------------------------- MODULE Posting -------------------------------
(***************************************************************************)
(* OpenTransaction under concurrency: request handlers of several sessions *)
(* post, replace and cancel the journal entries of external events, each   *)
(* in a database transaction, and hand a message to the daily balances     *)
(* when OpenTransaction has committed.                                     *)
(*                                                                         *)
(* A posting stands for the entries one OpenTransaction writes for a ref:  *)
(* a book, or the reversal of what the ref holds (module Journal: books    *)
(* balance, a reversal leaves every account without net effect and is      *)
(* refused when there is no net effect to cancel).                         *)
(*                                                                         *)
(* The kinds of handler differ in how they use the ref:                    *)
(*   create  inserts the transaction row at once (OnOrder, PaymentAccept,  *)
(*           InboundAccept, Withdrawal, ...)                               *)
(*   record  looks the ref up first and skips when it exists               *)
(*           (SellingExpenseOther, RevenueOther, AdsExCreate)              *)
(*   expense inserts the transaction row and books in an OpenTransaction   *)
(*           nested in the handler's database transaction (ExpenseCreate)  *)
(*   adjust  rolls an existing ref back and books anew, or creates it      *)
(*           (SellingReceivableAdjustment)                                 *)
(*   update  resets an existing ref and books anew, in one message         *)
(*           (InboundUpdate)                                               *)
(*   cancel  rolls an existing ref back (OrderCancel, TransferToWarehouse- *)
(*           Cancel)                                                       *)
(***************************************************************************)
EXTENDS Integers, Sequences

CONSTANTS Session,      \* concurrent requests the service runs
          Ref,          \* ref ids of external events
          None,         \* no session
          KindsOf,      \* the kinds of handler that use a ref
          MaxRequests,  \* bound: requests that arrive
          MaxFaults     \* bound: crashes and failed hand-overs

Kind == {"create", "record", "expense", "adjust", "update", "cancel"}

\* The handlers whose only OpenTransaction is nested in a transaction of theirs.
NestedOnly == {"expense", "cancel"}

ASSUME NoneAssumption == None \notin Session
ASSUME RefAssumption == Ref # {}
ASSUME KindsAssumption == KindsOf \in [Ref -> SUBSET Kind]

VARIABLES trans,     \* committed rows of the transactions table, by ref
          journal,   \* committed postings of each ref, oldest first
          lock,      \* who holds the row lock, or the uncommitted unique key
          pc, kind, ref,  \* each session's request and how far it is
          own,       \* postings written in its open database transaction
          outcome,   \* what the caller was told last
          sent,      \* postings handed to the daily balances
          nextId,    \* the sequence of primary keys, never reused
          requests, faults

vars == <<trans, journal, lock, pc, kind, ref, own, outcome, sent, nextId,
          requests, faults>>

\* A posting is nested when the OpenTransaction that writes it is inside
\* another database transaction.
Posting == [id : Nat, ref : Ref, kind : {"book", "reversal"}, nested : BOOLEAN]

Committed == UNION {{journal[r][i] : i \in 1..Len(journal[r])} : r \in Ref}

\* The ref holds entries with a net effect.
Live(r) == /\ journal[r] # <<>>
           /\ journal[r][Len(journal[r])].kind = "book"

\* Sessions inside a database transaction that holds their ref.
Holding == {"held", "nested", "booking", "closing"}
InTransaction == {"begun", "creating"} \cup Holding

Init == /\ trans = {}
        /\ journal = [r \in Ref |-> <<>>]
        /\ lock = [r \in Ref |-> None]
        /\ pc = [s \in Session |-> "idle"]
        /\ kind = [s \in Session |-> "create"]
        /\ ref = [s \in Session |-> CHOOSE r \in Ref : TRUE]
        /\ own = [s \in Session |-> <<>>]
        /\ outcome = [s \in Session |-> "none"]
        /\ sent = {}
        /\ nextId = 1
        /\ requests = 0
        /\ faults = 0
------------------------------------------------------------------------------
\* Updates shared by the actions.
\* Mutant of Unlocked: the end of a transaction keeps its locks.
LocksKept(s) == lock

Unlocked(s) == [r \in Ref |-> IF lock[r] = s THEN None ELSE lock[r]]

\* The database transaction of s ends without a trace but what was sent.
Abort(s, told) ==
  /\ lock' = Unlocked(s)
  /\ pc' = [pc EXCEPT ![s] = "idle"]
  /\ own' = [own EXCEPT ![s] = <<>>]
  /\ outcome' = [outcome EXCEPT ![s] = told]
  /\ UNCHANGED <<trans, journal, kind, ref, sent, nextId, requests>>

\* The posting that s writes before it goes on at next.
NewPosting(s, what, next) ==
  [id |-> nextId, ref |-> ref[s], kind |-> what, nested |-> next = "nested"]

\* Mutant of Write: the kind of the handler in place of the posting's.
WriteHandlerKind(s, what, next) ==
  /\ own' = [own EXCEPT ![s] = Append(@, NewPosting(s, kind[s], next))]
  /\ nextId' = nextId + 1
  /\ pc' = [pc EXCEPT ![s] = next]
  /\ UNCHANGED <<trans, journal, lock, kind, ref, outcome, sent, requests, faults>>

\* s writes the rows of a posting of its ref and goes on at next.
Write(s, what, next) ==
  /\ own' = [own EXCEPT ![s] = Append(@, NewPosting(s, what, next))]
  /\ nextId' = nextId + 1
  /\ pc' = [pc EXCEPT ![s] = next]
  /\ UNCHANGED <<trans, journal, lock, kind, ref, outcome, sent, requests, faults>>

\* Mutant of Acquire: ByRefID and Create take no lock.
AcquireNothing(s, next) ==
  /\ pc' = [pc EXCEPT ![s] = next]
  /\ UNCHANGED <<trans, journal, lock, kind, ref, own, outcome, sent, nextId, requests, faults>>

Acquire(s, next) ==
  /\ lock' = [lock EXCEPT ![ref[s]] = s]
  /\ pc' = [pc EXCEPT ![s] = next]
  /\ UNCHANGED <<trans, journal, kind, ref, own, outcome, sent, nextId, requests, faults>>
------------------------------------------------------------------------------
\* A request arrives and its database transaction begins.
Begin(s, k, r) ==
  /\ pc[s] = "idle"
  /\ requests < MaxRequests
  /\ pc' = [pc EXCEPT ![s] = IF k \in {"create", "expense"} THEN "creating" ELSE "begun"]
  /\ kind' = [kind EXCEPT ![s] = k]
  /\ ref' = [ref EXCEPT ![s] = r]
  /\ outcome' = [outcome EXCEPT ![s] = "none"]
  /\ requests' = requests + 1
  /\ UNCHANGED <<trans, journal, lock, own, sent, nextId, faults>>

\* TransactionMutation.ByRefID(ref, true) when the row is not there: an
\* uncommitted insert of another session is not visible and does not block.
NotFound(s) ==
  /\ pc[s] = "begun"
  /\ ref[s] \notin trans
  /\ \/ /\ kind[s] \in {"cancel", "update"}
        /\ Abort(s, "error")
        /\ UNCHANGED faults
     \/ /\ kind[s] \in {"adjust", "record"}
        /\ pc' = [pc EXCEPT ![s] = "creating"]
        /\ UNCHANGED <<trans, journal, lock, kind, ref, own, outcome, sent,
                       nextId, requests, faults>>

\* Mutant of Found: ByRefID(ref, false) does not wait for the row lock.
FoundUnlocked(s) ==
  /\ pc[s] = "begun"
  /\ ref[s] \in trans
  /\ IF kind[s] = "record" THEN Abort(s, "skipped") /\ UNCHANGED faults
                           ELSE Acquire(s, "held")

\* ByRefID(ref, true) waits for the row lock and takes it; the handlers that
\* record an event once have nothing to do then (ErrSkipTransaction).
Found(s) ==
  /\ pc[s] = "begun"
  /\ ref[s] \in trans
  /\ lock[ref[s]] = None
  /\ \/ /\ kind[s] = "record"
        /\ Abort(s, "skipped")
        /\ UNCHANGED faults
     \/ /\ kind[s] # "record"
        /\ Acquire(s, "held")

\* Mutant of Exists: an insert that is still uncommitted counts as existing.
ExistsUncommitted(s) ==
  /\ pc[s] = "creating"
  /\ ref[s] \in trans \/ lock[ref[s]] # None
  /\ Abort(s, "skipped")
  /\ UNCHANGED faults

\* createTansactionImpl.Create when the ref is taken: the insert fails on the
\* unique index.  OnOrder skips when it recognises the error, which it does by
\* SQLite's wording; on another database, and in other handlers, it is an error.
Exists(s) ==
  /\ pc[s] = "creating"
  /\ ref[s] \in trans
  /\ \E told \in IF kind[s] = "create" THEN {"skipped", "error"} ELSE {"error"} :
        Abort(s, told)
  /\ UNCHANGED faults

\* Mutant of Create: no unique index on the ref.
CreateAgain(s) ==
  /\ pc[s] = "creating"
  /\ lock[ref[s]] = None
  /\ Acquire(s, "booking")

\* Create when it is free: the insert waits for a concurrent one to end.
Create(s) ==
  /\ pc[s] = "creating"
  /\ ref[s] \notin trans
  /\ lock[ref[s]] = None
  /\ Acquire(s, "booking")

\* RollbackEntry, or the reset of InboundUpdate: reverses what the ref holds.
\* RollbackEntry's own OpenTransaction is a savepoint of the outer database
\* transaction and hands its message over at once; a reset is part of the
\* handler's message.
Reverse(s) ==
  /\ pc[s] = "held"
  /\ Live(ref[s])
  /\ Write(s, "reversal", IF kind[s] = "update" THEN "booking" ELSE "nested")

\* There is no net effect to reverse: the book is empty, ErrEmptyEntry.
NothingToReverse(s) ==
  /\ pc[s] = "held"
  /\ ~Live(ref[s])
  /\ Abort(s, "error")
  /\ UNCHANGED faults

\* The nested OpenTransaction calls the handlers of its message.
SendNested(s) ==
  /\ pc[s] = "nested"
  /\ sent' = sent \cup {own[s][1]}
  /\ pc' = [pc EXCEPT ![s] = IF kind[s] \in NestedOnly THEN "closing" ELSE "booking"]
  /\ UNCHANGED <<trans, journal, lock, kind, ref, own, outcome, nextId, requests, faults>>

\* Mutant of Book: the message leaves when the book is committed to the open
\* transaction, as in the commented-out dispatch of journal_entries.go.
BookAndSend(s) ==
  /\ pc[s] = "booking"
  /\ LET p == NewPosting(s, "book", "closing")
     IN own' = [own EXCEPT ![s] = Append(@, p)] /\ sent' = sent \cup {p}
  /\ nextId' = nextId + 1
  /\ pc' = [pc EXCEPT ![s] = "closing"]
  /\ UNCHANGED <<trans, journal, lock, kind, ref, outcome, requests, faults>>

\* The handler commits its books; those of an expense belong to a nested
\* OpenTransaction.
Book(s) ==
  /\ pc[s] = "booking"
  /\ Write(s, "book", IF kind[s] = "expense" THEN "nested" ELSE "closing")

\* SellingReceivableAdjustment may book nothing.  Of type ORDER_FUND it returns
\* ErrSkipTransaction and the caller is told nothing went wrong; with
\* OnlyRollback, or an amount of zero, the outer OpenTransaction is without
\* entries or the handler fails, and the caller is told of an error.
BookNothing(s) ==
  /\ pc[s] = "booking"
  /\ kind[s] = "adjust"
  /\ \E told \in {"skipped", "error"} : Abort(s, told)
  /\ UNCHANGED faults

\* The handler, a statement or the commit fails: an account that does not
\* exist, a book out of balance, a lost connection.
Fail(s) ==
  /\ pc[s] \in InTransaction
  /\ Abort(s, "error")
  /\ UNCHANGED faults

\* The database transaction commits; one that is not an OpenTransaction's has no
\* message of its own.
Commit(s) ==
  /\ pc[s] = "closing"
  /\ journal' = [journal EXCEPT ![ref[s]] = @ \o own[s]]
  /\ trans' = trans \cup {ref[s]}
  /\ lock' = Unlocked(s)
  /\ IF kind[s] \in NestedOnly
     THEN /\ pc' = [pc EXCEPT ![s] = "idle"]
          /\ own' = [own EXCEPT ![s] = <<>>]
          /\ outcome' = [outcome EXCEPT ![s] = "ok"]
     ELSE /\ pc' = [pc EXCEPT ![s] = "sending"]
          /\ UNCHANGED <<own, outcome>>
  /\ UNCHANGED <<kind, ref, sent, nextId, requests, faults>>

\* Mutant of OuterMessage: the entries of a reset are left out.
OuterBooks(s) ==
  {own[s][i] : i \in {j \in 1..Len(own[s]) : own[s][j].kind = "book"}}

\* The entries of the outer OpenTransaction: those of a nested one, as the
\* reversal by RollbackEntry, are not among them.
OuterMessage(s) ==
  {own[s][i] : i \in {j \in 1..Len(own[s]) : ~own[s][j].nested}}

Finish(s, told) ==
  /\ pc' = [pc EXCEPT ![s] = "idle"]
  /\ own' = [own EXCEPT ![s] = <<>>]
  /\ outcome' = [outcome EXCEPT ![s] = told]
  /\ UNCHANGED <<trans, journal, lock, kind, ref, nextId, requests>>

\* OpenTransaction calls the custom handlers after the commit.
Send(s) ==
  /\ pc[s] = "sending"
  /\ sent' = sent \cup OuterMessage(s)
  /\ Finish(s, "ok")
  /\ UNCHANGED faults

\* A custom handler returns an error: before the outer commit it aborts the
\* request, after it the caller is told of an error all the same.
SendFails(s) ==
  /\ faults < MaxFaults
  /\ faults' = faults + 1
  /\ \/ pc[s] = "nested" /\ Abort(s, "error")
     \/ pc[s] = "sending" /\ Finish(s, "error") /\ UNCHANGED sent

\* The process stops: the database rolls an open transaction back, a
\* committed one has lost its message.
Crash(s) ==
  /\ faults < MaxFaults
  /\ faults' = faults + 1
  /\ \/ pc[s] \in InTransaction /\ Abort(s, "crashed")
     \/ pc[s] = "sending" /\ Finish(s, "crashed") /\ UNCHANGED sent

\* A request that has begun goes on by itself until it returns.
Step(s) == \/ NotFound(s) \/ Found(s) \/ Exists(s) \/ Create(s)
           \/ Reverse(s) \/ NothingToReverse(s) \/ SendNested(s)
           \/ Book(s) \/ Commit(s) \/ Send(s)

Next == \E s \in Session :
          \/ \E r \in Ref : \E k \in KindsOf[r] : Begin(s, k, r)
          \/ Step(s)
          \/ BookNothing(s) \/ Fail(s) \/ SendFails(s) \/ Crash(s)

Spec == Init /\ [][Next]_vars

\* A handler runs in its goroutine until it returns, and the database grants
\* a lock to those who wait for it in their order: a step that is possible
\* again and again is taken.  Requests, failures and crashes need never happen.
FairSpec == Spec /\ \A s \in Session : SF_vars(Step(s))
------------------------------------------------------------------------------
\* Type invariant.
TypeOK ==
  /\ trans \subseteq Ref
  /\ journal \in [Ref -> Seq(Posting)]
  /\ lock \in [Ref -> Session \cup {None}]
  /\ pc \in [Session -> {"idle", "sending"} \cup InTransaction]
  /\ kind \in [Session -> Kind]
  /\ ref \in [Session -> Ref]
  /\ own \in [Session -> Seq(Posting)]
  /\ outcome \in [Session -> {"none", "ok", "skipped", "error", "crashed"}]
  /\ sent \subseteq Posting
  /\ nextId \in Nat /\ requests \in Nat /\ faults \in Nat

Alternates(q) ==
  \A i \in 1..Len(q) :
    IF i = 1 THEN q[i].kind = "book" ELSE q[i].kind # q[i-1].kind

\* What the ref holds is never booked on top of a booking and never reversed
\* twice: books and reversals alternate, beginning with a book, whatever
\* requests race for the ref.
BooksAndReversalsAlternate == \A r \in Ref : Alternates(journal[r])

\* What the daily balances were told and the journal does not hold is the work
\* of an OpenTransaction nested in another database transaction: OpenTransaction
\* hands over after its own transaction, which for the others is the commit.
OnlyNestedAnticipates ==
  \A p \in sent : p.nested \/ p \in Committed

Quiet == \A s \in Session : pc[s] = "idle"

\* When every request has returned, what the daily balances were told is in
\* the journal: the comment in report/daily_balance_update.go derives the
\* daily rows from the rows of journal_entries.  A nested OpenTransaction, that of
\* RollbackEntry or of ExpenseCreate, breaks it when the outer transaction is
\* given up.
MessagesAreCommitted == Quiet => sent \subseteq Committed

\* While no process has stopped and no hand-over has failed, the message of
\* every committed posting has been handed over or is about to be.
CommittedIsAnnounced ==
  faults = 0 =>
    Committed \subseteq sent \cup UNION {OuterMessage(s) :
                            s \in {q \in Session : pc[q] = "sending"}}

\* A caller told "ok" or "skipped" by a handler that books an event once can
\* rely on it: the event is booked, not only being booked by someone else.
DoneMeansBooked ==
  \A s \in Session :
    (/\ pc[s] = "idle"
     /\ kind[s] \in {"create", "record", "expense"}
     /\ outcome[s] \in {"ok", "skipped"}) =>
       ref[s] \in trans /\ journal[ref[s]] # <<>>

\* The state of a ref, for the promise of RefLifecycle.
RefState == [r \in Ref |-> IF journal[r] = <<>> THEN "absent"
                           ELSE IF Live(r) THEN "live" ELSE "cancelled"]

Lifecycle == INSTANCE RefLifecycle WITH state <- RefState

\* The service implements the life cycle: booked once, cancelled once.
ImplementsLifecycle == Lifecycle!Spec

\* Every request returns: no handler waits for ever for a ref.
EveryRequestReturns == \A s \in Session : pc[s] # "idle" ~> pc[s] = "idle"

\* Every committed posting is eventually handed over (without faults).  An id
\* names a posting; a request takes at most two.
EveryPostingIsHandedOver ==
  \A i \in 1..(2 * MaxRequests) :
    (\E p \in Committed : p.id = i) ~> (\E p \in sent : p.id = i)
------------------------------------------------------------------------------
\* The invariant that proves the above, in four parts.

\* Exactly the sessions at work on a ref hold it, so there is at most one.
LockInv ==
  \A s \in Session, r \in Ref :
    lock[r] = s <=> pc[s] \in Holding /\ ref[s] = r

\* The transactions table has a row for the refs that have postings.
TransInv == \A r \in Ref : r \in trans <=> journal[r] # <<>>

IsReversal(p) == p.kind = "reversal"
IsBook(p) == p.kind = "book"

\* What an open database transaction has written fits what its ref holds.
OwnFits(s) ==
  /\ pc[s] \in {"idle", "begun", "creating", "held"} => own[s] = <<>>
  /\ pc[s] = "held" => ref[s] \in trans
  /\ pc[s] \in {"begun", "held"} => kind[s] # "expense"
  /\ pc[s] = "nested" =>
       /\ Len(own[s]) = 1 /\ own[s][1].nested
       /\ \/ kind[s] # "expense" /\ IsReversal(own[s][1]) /\ Live(ref[s])
          \/ kind[s] = "expense" /\ IsBook(own[s][1]) /\ ref[s] \notin trans
  /\ pc[s] = "booking" =>
       \/ own[s] = <<>> /\ ref[s] \notin trans
       \/ /\ kind[s] # "expense"
          /\ Len(own[s]) = 1 /\ IsReversal(own[s][1]) /\ Live(ref[s])
  /\ pc[s] = "closing" =>
       \/ Len(own[s]) = 1 /\ IsBook(own[s][1]) /\ ref[s] \notin trans
       \/ Len(own[s]) = 1 /\ IsReversal(own[s][1]) /\ Live(ref[s])
       \/ /\ Len(own[s]) = 2 /\ IsReversal(own[s][1]) /\ IsBook(own[s][2])
          /\ Live(ref[s])
  /\ pc[s] = "sending" => \A i \in 1..Len(own[s]) : own[s][i] \in Committed

\* A session that is handing over has booked its ref.
BookedInv ==
  \A s \in Session :
    pc[s] = "sending" => ref[s] \in trans

\* The inductive invariant of the type, lock and ownership parts together
\* with the safety properties (module PostingProofs).
PostingInv == /\ TypeOK
              /\ LockInv
              /\ TransInv
              /\ \A s \in Session : OwnFits(s)
              /\ BookedInv
              /\ BooksAndReversalsAlternate
              /\ OnlyNestedAnticipates
              /\ DoneMeansBooked
==============================================================================
