------------------------------- MODULE Journal -------------------------------
(***************************************************************************)
(* The double-entry builder of accounting_core: one accounting             *)
(* transaction (one ref id), the books CreateEntry builds and commits for  *)
(* each team, OpenTransaction around them, RollbackEntry, and the effect   *)
(* of the message OpenTransaction hands to the daily balances.             *)
(*                                                                         *)
(* The journal rows of the transaction are kept summed per book team and   *)
(* account, as AccountBalance reads them.  The order in which concurrent   *)
(* handlers run, and a message that is lost, are the subject of Posting.   *)
(***************************************************************************)
EXTENDS Entries

CONSTANTS Team,
          Amount,       \* the amounts a handler passes to To and From
          Direction,    \* Direction[a] \subseteq {"to", "from"}: the calls made on a
          IncludeEqual, \* values of the option IncludeDebitCreditEqual
          MaxCalls,     \* bound: calls of To and From on one book
          MaxBooks,     \* bound: books committed in one OpenTransaction
          MaxOpens      \* bound: OpenTransactions and rollbacks

ASSUME AmountAssumption == Amount \subseteq Nat
ASSUME DirectionAssumption == Direction \in [Account -> SUBSET {"to", "from"}]
ASSUME TeamAssumption == "none" \notin Team

VARIABLES journal,  \* committed rows, summed per team and account
          rows,     \* the same, as the open database transaction sees them
          message,  \* effect on the daily rows of bookManageImpl.entries
          daily,    \* effect of the messages handed over so far
          book,     \* the CreateEntry in construction, or NoBook
          tx,       \* the open OpenTransaction: books committed, unsaved entries
          opens     \* how many were opened

vars == <<journal, rows, message, daily, book, tx, opens>>

Effect == [debit : Int, credit : Int, balance : Int]
NoEffect == [debit |-> 0, credit |-> 0, balance |-> 0]
NoBook == [team |-> "none", entries |-> [a \in Account |-> NoSide],
           touched |-> {}, err |-> FALSE, calls |-> 0]
Closed == [open |-> FALSE, books |-> 0, unsaved |-> FALSE]

NoRows == [t \in Team |-> [a \in Account |-> NoSide]]
NoMessage == [t \in Team |-> [a \in Account |-> NoEffect]]

\* Mutant of DailyEffect: a rollback entry changes sign but keeps its columns.
DailyEffectUnswapped(a, e, rollback) ==
  [debit   |-> IF rollback THEN -e.debit ELSE e.debit,
   credit  |-> IF rollback THEN -e.credit ELSE e.credit,
   balance |-> Change(a, e)]

\* DailyUpdateBalance: the columns swap and change sign on a rollback entry,
\* the balance always follows the raw sides.
DailyEffect(a, e, rollback) ==
  [debit   |-> IF rollback THEN -e.credit ELSE e.debit,
   credit  |-> IF rollback THEN -e.debit ELSE e.credit,
   balance |-> Change(a, e)]

AddEffect(x, y) == [debit   |-> x.debit + y.debit,
                    credit  |-> x.credit + y.credit,
                    balance |-> x.balance + y.balance]

AddMessage(m, n) ==
  [t \in Team |-> [a \in Account |-> AddEffect(m[t][a], n[t][a])]]

Init == /\ journal = NoRows
        /\ rows = NoRows
        /\ message = NoMessage
        /\ daily = NoMessage
        /\ book = NoBook
        /\ tx = Closed
        /\ opens = 0
------------------------------------------------------------------------------
\* OpenTransaction starts: the database transaction and an empty BookManage.
Open == /\ ~tx.open
        /\ opens < MaxOpens
        /\ tx' = [open |-> TRUE, books |-> 0, unsaved |-> FALSE]
        /\ opens' = opens + 1
        /\ UNCHANGED <<journal, rows, message, daily, book>>

\* bookManageImpl.NewCreateEntry.
NewCreateEntry(t) == /\ tx.open
                     /\ book = NoBook
                     /\ tx.books < MaxBooks
                     /\ book' = [NoBook EXCEPT !.team = t]
                     /\ UNCHANGED <<journal, rows, message, daily, tx, opens>>

\* createEntryImpl.To: an amount of zero leaves only the error, which the
\* later calls of the chain keep.
To(a, amount) ==
  /\ book.team \in Team
  /\ book.calls < MaxCalls
  /\ book' = IF amount = 0
             THEN [book EXCEPT !.err = TRUE, !.calls = @ + 1]
             ELSE [book EXCEPT !.entries[a] = Merge(@, SetAmountEntry(a, amount)),
                               !.touched = @ \cup {a},
                               !.calls = @ + 1]
  /\ UNCHANGED <<journal, rows, message, daily, tx, opens>>

\* createEntryImpl.From is To of the opposite amount.
From(a, amount) == To(a, -amount)

\* The entries Commit keeps for Save: those with equal sides are left out
\* unless the caller passed IncludeDebitCreditEqual.
Saved(b, include) ==
  {a \in b.touched : include \/ b.entries[a].debit # b.entries[a].credit}

\* Mutant of Forwarded: the debit half of a split entry is kept, not the credit.
ForwardedDebit(b, include, a) ==
  IF a \in Saved(b, include) /\ b.entries[a].debit > 0 /\ b.entries[a].credit > 0
  THEN [b.entries[a] EXCEPT !.credit = 0]
  ELSE b.entries[a]

\* What afterCommit hands on for account a: Commit saves an entry with both
\* sides as two rows and keeps only the credit one in c.entries.
Forwarded(b, include, a) ==
  IF a \in Saved(b, include) /\ b.entries[a].debit > 0 /\ b.entries[a].credit > 0
  THEN [b.entries[a] EXCEPT !.debit = 0]
  ELSE b.entries[a]

\* Mutant of CommitRefused: no check that the book balances.
CommitUnchecked(b, include) == b.err \/ b.touched = {} \/ Saved(b, include) = {}

CommitRefused(b, include) == \/ b.err
                             \/ b.touched = {}
                             \/ ~Balanced(b.entries, b.touched)
                             \/ Saved(b, include) = {}

\* The rows and the message after book b is committed.
RowsWith(b, include) ==
  [rows EXCEPT ![b.team] =
    [a \in Account |-> IF a \in Saved(b, include)
                       THEN Merge(@[a], b.entries[a]) ELSE @[a]]]

MessageWith(b, include, rollback) ==
  [message EXCEPT ![b.team] =
    [a \in Account |->
       IF a \in b.touched
       THEN AddEffect(@[a], DailyEffect(a, Forwarded(b, include, a), rollback))
       ELSE @[a]]]

\* The database transaction is rolled back and BookManage is dropped.
Abandon == /\ rows' = journal
           /\ message' = NoMessage
           /\ book' = NoBook
           /\ tx' = Closed
           /\ UNCHANGED <<journal, daily, opens>>

\* Committing book b saves its rows and appends its entries to the message.
SaveBook(b, include, rollback) ==
  /\ rows' = RowsWith(b, include)
  /\ message' = MessageWith(b, include, rollback)
  /\ book' = NoBook
  /\ tx' = [tx EXCEPT !.books = @ + 1,
                      !.unsaved = @ \/ b.touched # Saved(b, include)]
  /\ UNCHANGED <<journal, daily, opens>>

\* createEntryImpl.Commit followed by Err(): the handler returns the error,
\* if there is one, and OpenTransaction rolls back.
Commit(include) ==
  /\ book.team \in Team
  /\ \/ /\ CommitRefused(book, include)
        /\ Abandon
     \/ /\ ~CommitRefused(book, include)
        /\ SaveBook(book, include, FALSE)

\* The book that cancels the rows s of a team.
ReversalBook(t, s) ==
  [NoBook EXCEPT !.team = t,
                 !.entries = [a \in Account |-> Reversal(a, s[a])],
                 !.touched = {a \in Account : Change(a, s[a]) # 0}]

\* A team's side is reset inside a handler (InboundUpdate): CreateEntry.
\* Rollback of what the transaction holds for the team, Commit(RollbackOption).
Reset(t) ==
  /\ tx.open
  /\ book = NoBook
  /\ tx.books < MaxBooks
  /\ LET b == ReversalBook(t, rows[t])
     IN \/ /\ CommitRefused(b, FALSE)
           /\ Abandon
        \/ /\ ~CommitRefused(b, FALSE)
           /\ SaveBook(b, FALSE, TRUE)

\* The handler returns an error of its own.
Fail == tx.open /\ Abandon

\* The handler returns nil.  OpenTransaction refuses an empty BookManage and
\* entries that were never saved; else it commits and hands the message over.
Close ==
  /\ tx.open
  /\ book = NoBook
  /\ \/ /\ tx.books = 0 \/ tx.unsaved
        /\ Abandon
     \/ /\ tx.books > 0 /\ ~tx.unsaved
        /\ journal' = rows
        /\ daily' = AddMessage(daily, message)
        /\ message' = NoMessage
        /\ tx' = Closed
        /\ UNCHANGED <<rows, book, opens>>

\* The teams that have rows in the transaction.
Booked == {t \in Team : journal[t] # [a \in Account |-> NoSide]}

\* TransactionMutation.RollbackEntry: an OpenTransaction of its own with one
\* reversing book per team that has rows; a book that is refused (a team
\* whose net is zero already) fails the whole call.
RollbackEntry ==
  /\ ~tx.open
  /\ opens < MaxOpens
  /\ Booked # {}
  /\ LET undo(t) == ReversalBook(t, journal[t])
     IN /\ \A t \in Booked : ~CommitRefused(undo(t), FALSE)
        /\ journal' = [t \in Team |-> IF t \in Booked
                         THEN [a \in Account |-> Merge(journal[t][a], undo(t).entries[a])]
                         ELSE journal[t]]
        /\ daily' = [t \in Team |-> IF t \in Booked
                       THEN [a \in Account |-> AddEffect(daily[t][a],
                                DailyEffect(a, undo(t).entries[a], TRUE))]
                       ELSE daily[t]]
  /\ rows' = journal'
  /\ opens' = opens + 1
  /\ UNCHANGED <<message, book, tx>>

Next == \/ Open \/ Fail \/ Close \/ RollbackEntry
        \/ \E t \in Team : NewCreateEntry(t) \/ Reset(t)
        \/ \E a \in Account, amount \in Amount :
             \/ "to" \in Direction[a] /\ To(a, amount)
             \/ "from" \in Direction[a] /\ From(a, amount)
        \/ \E include \in IncludeEqual : Commit(include)

Spec == Init /\ [][Next]_vars
------------------------------------------------------------------------------
Rows == [Team -> [Account -> Side]]
Messages == [Team -> [Account -> Effect]]

\* Type invariant.
TypeOK ==
  /\ journal \in Rows /\ rows \in Rows
  /\ message \in Messages /\ daily \in Messages
  /\ book \in [team : Team \cup {"none"}, entries : [Account -> Side],
               touched : SUBSET Account, err : BOOLEAN, calls : Nat]
  /\ tx \in [open : BOOLEAN, books : Nat, unsaved : BOOLEAN]
  /\ opens \in Nat

\* Every team's committed rows of the transaction balance, whatever books,
\* resets and rollbacks produced them (the check of Commit on each book is
\* the only one the code makes; CheckEntry is the same over all rows).
TeamsBalance == \A t \in Team : Balanced(journal[t], Account)

Explained(m) ==
  \A t \in Team, a \in Account :
    m[t][a].balance = DiffBalance(BalanceType[a], m[t][a].debit, m[t][a].credit)

\* The debit and credit columns the messages add up to explain the balance
\* they add up to, rollback entries included.
ColumnsExplainBalance == Explained(daily)

\* The balance the messages give an account is the balance of its rows.
DailyAgrees ==
  \A t \in Team, a \in Account : daily[t][a].balance = Change(a, journal[t][a])

\* Debit less credit, the account type taken out.
RawEffect(a, e) == IF BalanceType[a] = "d" THEN e.balance ELSE -e.balance
RawRows(s) == s.debit - s.credit

\* Where the messages disagree with the rows, what is missing is a debit: a
\* split entry loses its debit half on the way and never anything else.
OnlyDebitsAreMissing ==
  \A t \in Team, a \in Account :
    /\ RawEffect(a, daily[t][a]) <= RawRows(journal[t][a])
    /\ RawEffect(a, daily[t][a]) + RawEffect(a, message[t][a]) <= RawRows(rows[t][a])

\* Between two OpenTransactions the database shows what is committed and no
\* message waits; a book is only ever built inside one.
Settled ==
  /\ ~tx.open => rows = journal /\ message = NoMessage
  /\ book.team # "none" => tx.open

\* What the theorems of JournalProofs rest on: every OpenTransaction keeps its
\* rows, its message and what was handed over before in step.
JournalInv == /\ TypeOK
              /\ Settled
              /\ ColumnsExplainBalance /\ Explained(message)
              /\ OnlyDebitsAreMissing

\* A rollback leaves no account of the transaction with a net effect, and a
\* transaction without net effect cannot be rolled back again.
RollbackClears ==
  [][RollbackEntry =>
       /\ \E t \in Team, a \in Account : Change(a, journal[t][a]) # 0
       /\ \A t \in Team, a \in Account : Change(a, journal'[t][a]) = 0]_vars
==============================================================================
