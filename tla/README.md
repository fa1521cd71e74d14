# Verification of accounting_service

TLA+ models of the accounting service in `src/`, the TLC runs that check them on
small instances, and TLAPS proofs of the central results for every size.

The service keeps double-entry books for teams (sellers and warehouses). Other
services call it over Connect/gRPC when something happens to an order, a
restock, a payment or a fund of a marketplace; each call becomes journal
entries under one *ref* in the database, and a message from which the report
service keeps running daily balances.

Contents: [the system](#the-system) · [the modules](#the-modules) ·
[the runs](#the-runs) · [fairness](#fairness) · [the proofs](#the-proofs) ·
[disagreements](#where-the-code-disagrees-with-itself) ·
[what is not modelled](#what-is-not-modelled) · [plan](#plan)

## The system

| Component | State | Operations | What makes it correct |
|---|---|---|---|
| Journal builder (`accounting_core/journal_entries.go`, `model.go`) | the entries of a book in memory, rows of `journal_entries` | `To`, `From`, `Set`, `Rollback`, `Commit` | each team's rows balance; a reversal leaves no net effect; what is forwarded is what is saved |
| Transactions (`accounting_core/transaction.go`, `accounting_manage.go`) | `transactions` (unique `ref_id`), row locks, the list of entries that becomes a message | `OpenTransaction`, `Create`, `ByRefID`, `RollbackEntry`, custom handlers after the commit | a ref is booked once and cancelled once; messages say what is committed, and everything committed is said |
| Daily balances (`report/daily_balance_update.go`, `accounting_core/model_daily.go`, the task queue) | one row per day of a key, an account, or a label of an account | `DailyUpdateBalance` (update, insert, increment of later days, each a transaction) | the balance of a day is the running sum of the journal |
| Resync (`report/report_balance`) | the same rows | `BalanceResync` per table | every row that has a day in the journal becomes what the journal says |
| Recalculation (`setup/recalculate_daily.go`, `accounting_core/daily_balance.go`) | the rows of accounts, the days cleared so far | `RecalculateDaily` | no entry is lost or counted twice; the columns of a day agree with what the increments write |
| Payments (`payment/`) | `payments`: from, to, amount, status | create, accept, cancel, reject | decided once, by the right team; accepted means booked on both sides |
| Orders and marketplace (`revenue/`) | refs `order`, `stock_return`, `order_fund`, `wd`, `selling_receivable`, ... | `OnOrder`, `OrderCancel`, `OrderReturn`, `StockReturn`, `RevenueStream`, `Withdrawal`, `SellingReceivableAdjustment`, `SellingExpenseOther`, `RevenueOther` | the books of two teams mirror each other; funds settle the claim; corrections count once |
| Stock (`stock/`) | refs `restock`, `stock_accept`, `stock_transfer`, ... | `InboundCreate`, `InboundUpdate`, `InboundAccept`, `TransferToWarehouse` with `Accept` and `Cancel`, `StockAdjustment` | goods leave one account when they enter another, on both sides |
| Bank accounts and transfers (`account/`) | bank accounts (unique number) and their histories, row locks | `AccountCreate`, `AccountUpdate`, `AccountDelete`, `AccountBalanceInit`, `TransferCreate` | no write of a row is lost; both sides book a transfer; opposite transfers end |
| Manual adjustments (`adjustment/`) | accounts and tags made on the way | `AccountAdjustment` | each adjustment moves the account it names, against the adjustment account |
| Expenses and advertising (`expense/`, `accounting_transaction/`, `ads_expense/`) | expenses, refs made of a second or of a shop's number | `ExpenseCreate`, `AdsExCreate` | a ref is booked once, from the account the source stands for |
| Setup, tags (`setup/`, `tag/`) | the accounts of a team, tags and labels | `Setup`, `TagCreate`, `AddTags` | what two calls create at once exists once |
| Reports, ledger queries, lists | none | read-only SQL | not modelled |

How they interact:

    handler (revenue, stock, payment, ...)
       | OpenTransaction: database transaction, Create / ByRefID (row lock)
       v
    CreateEntry.Commit --afterCommit--> entries of BookManage
       |                                     | after COMMIT: custom handler
       v                                     v
    journal_entries                     task queue --HTTP--> DailyUpdateBalance
                                                               |
    BalanceResync reads journal_entries ----------------> daily rows

The hard behaviour is in the arrows. Requests race for a ref, and only row locks
and the unique index decide. `RollbackEntry` opens an `OpenTransaction` inside
another one, and `ExpenseCreate` calls one inside a database transaction of its
own. The hand-over comes after the commit, and nothing records that it
is owed. The queue promises no order, dispatches tasks again, and runs several
workers against update, insert and increment statements that are not one
transaction. Handlers of different services add to the books of two teams that
must mirror each other. Calls on bank accounts, tags and account keys take rows
and unique keys one after the other, and two calls may take them in opposite
orders. `PROJECT.json` lists each hazard at its line with the
properties that would notice it going wrong.

## The modules

`Ledger`, `Goods`, `Orders` and `Marketplace` are parts of `Flows`; the others
stand alone, each with the abstraction its questions need.

| Module | Models | Extended by |
|---|---|---|
| `Entries` | the arithmetic of an entry: sides, `SetAmountEntry`, `Change`, `DiffBalance`, the precision of the balance check | `Journal` |
| `Journal` | one transaction row under a series of books, resets and rollbacks, and the message made of them | `MCJournal`, `JournalProofs` |
| `RefLifecycle` | abstract: a ref is absent, live, then cancelled | instanced by `Posting` |
| `Posting` | `OpenTransaction` and six kinds of handler under concurrency, failure and stops | `MCPosting`, `PostingProofs` |
| `DailyBalance` | the queue, the workers' statements, resync, recalculation | `MCDailyBalance`, `DailyBalanceProofs` |
| `Treasury` | the calls by which teams keep their own money: bank accounts, transfers, expenses, advertising, adjustments, setup, tags | `MCTreasury`, `TreasuryProofs` |
| `Payment` | the payments service with row locks | `MCPayment`, `PaymentProofs` |
| `Ledger` | the books of all teams, refs and reversals, as a handler sees them | `Goods`, `Orders`, `Marketplace`, `LedgerProofs` |
| `Goods` | every handler of `stock/` | `Flows` |
| `Orders` | orders, their cancellation and return | `Flows` |
| `Marketplace` | the stream of funds, adjustments and withdrawals, corrections by hand | `Flows` |
| `Flows` | these three on one ledger | `MCFlows`, `FlowsProofs` |
| `Sums` | nothing of the code: lemmas about sums over finite sets | `DailyBalanceProofs`, `JournalProofs`, `LedgerProofs`, `PaymentProofs`, `TreasuryProofs` |
| `LedgerProofs` | nothing more: what a sequence of moves and books adds to an account | `FlowsProofs` |

**Entries and Journal.** `book` is the `createEntryImpl` under construction
(`entries` merged per account, `touched` the accounts with an entry, `err` the
first error); `rows` are the rows the open database transaction sees and
`journal` the committed ones; `message` is what `afterCommit` collected and
`daily` what messages have added up to. `Commit` keeps the code's order:
refused when empty, then per entry skipped when its sides are equal (unless
`IncludeDebitCreditEqual`), split when it has both, then the balance check. A
failing book abandons the transaction (`Abandon`), as every handler returns the
error. Amounts are integers with a tolerance `Epsilon` for the float
comparison. Rows are kept as sums per team and account, which is all the code
reads back.

**Posting.** A posting is what one `OpenTransaction` writes for a ref: a book or
a reversal. Handlers differ in how they use the ref (`create`, `record`,
`expense`, `adjust`, `update`, `cancel`; the module's head names the Go functions
of each). `pc` follows the statements: `begun` before `ByRefID`, `creating` before
the insert, `held` with the row lock, `nested` inside an `OpenTransaction` within
the handler's transaction before its custom handlers run, `booking`, `closing`
before the commit, and `sending` after it. An expense and a cancellation have
nested postings only (`NestedOnly`), and nothing to send after the commit. `lock`
stands for the row lock and for the uncommitted unique key. `Abort` undoes everything but what was `sent`.

**DailyBalance.** A message is a list of entries with labels and two days: the
one the increments and the recalculation put it on, in UTC (`day`), and the one
the resync puts it on, in Asia/Jakarta (`local`), the same or the next. An entry
has its effect on the balance (`amount`), the sum of its sides as it is saved
(`gross`) and whether it is a rollback entry; the two columns of a row are kept as
their difference and their sum (`net`, `gross`). The increments and the resync
swap and negate the sides of a rollback entry (`Turnover`). `Plan`
is the series of calls of `updateDailyBalance` it makes (per entry: key,
account, labels). A call is `Update`; if no row was affected `ReadBefore` (under
`FOR UPDATE`) and `Insert`, or `Conflict` on the unique index; then `After`.
`Fail` stops a worker anywhere and returns the task to the queue. `Resync` is
one step per table; its two statements come in either order, because they are
the values of a Go map. It upserts the days of Asia/Jakarta that have postings
and leaves other rows as they are. `Order = "any"` is what the queue does; `"opened"`
restricts deliveries to the discipline under which the increments are right.
`RecalculateDaily` reads the journal once and takes its entries in no order
(`NextEntry`); before the first entry of a day and an account it zeroes the
day's rows of that account in the books of all teams (`Clear`), and then adds
each entry, its sides as they are saved, to the row (`AddEntry`) or inserts it
(`SaveEntry`). It runs in no
transaction; `alone` says that nothing else has touched the rows since it began.

**Payment.** `Read` is `First` under `FOR UPDATE`, `copy` the row it returned,
`Decide` the `Save` of that row with the commit. `BookPayer` and `BookReceiver`
write the two books of an acceptance, each when the accounts it needs are there;
`written` says whose books the open transaction holds, and they take effect with
the commit. `Setup` makes the accounts of a team one by one, each committed at
once (`accounts`), so that a payment may be accepted while the set-up of a team is
under way and the second book finds no account (`BookFails`).

**Treasury.** What a call books is decided by its request; what races is the
rows and unique keys it takes on its way. So a call is a plan: a sequence of
steps `row` (`FOR UPDATE` or `UPDATE` of a bank account), `find` (a look-up that
turns into an insertion when nothing is found), `insert`, `upsert`, `seek` (a ref
that ends the call when it exists), `save`, `post` (one book: a transfer has two,
an adjustment one per entry) and `refuse` (an error of the request itself); `todo`
is what is left of it. A step that fails gives up the books of the steps before. `held` are the rows and keys a session has locked or inserted, which
make others wait; everything else is written with `Commit`. `Setup` runs without a
transaction, so what it saves stays. `BreakDeadlock` is the database's
detector. `AccountUpdate` is one statement. `Tick` is there because an
expense's ref is made of the second.

**Ledger, Goods, Orders, Marketplace, Flows.** `ledger[<<type, id>>]` maps
`<<team, key, owner>>` to what the ref adds to the account `key` that `team`
keeps for `owner`. A handler is one action that posts all its books or does
nothing (a failing book undoes the call); `Accepted` is the check of `Commit`
together with that of `OpenTransaction` on unsaved entries. Item lists are the
sums the code forms of them, payloads are records from small sets. The model
includes what looks wrong in the code: the warehouse's book of own stock is
never committed, lost goods move by the amount of the broken ones, a negative
adjustment of the stream increases the claim, and a negative `CREATED_REVENUE`
is booked twice.

Conventions: definitions have the names of the source where TLA+ allows it.
Next to a definition stands, marked "Mutant of ...", the form a plausible bug
would give it; for every property one of them has been seen to break it.

## The runs

Twelve runs. "Bound" is what keeps the instance finite and why it is enough.

| Run | Checks | Bounds |
|---|---|---|
| `MCJournal` (1.8 M states) | `JournalInv` (the inductive invariant). `TeamsBalance`: committed rows of each team balance (within the tolerance) after any books, resets and rollbacks. `ColumnsExplainBalance`: the debit and credit columns of the messages explain their balance, rollback entries included. `OnlyDebitsAreMissing`: where messages and rows differ, only a debit half of a split entry is missing. `RollbackClears`: a rollback leaves no net effect and needs one. | A debit and a credit account, two teams, amounts 0 to 2, three calls per book, two books per transaction, two transactions: enough for equal and unequal two-sided entries, a refused book after a good one, and a rollback after a reset. |
| `MCJournalSplit` | violation of `DailyAgrees` | as above, one book per transaction |
| `MCPosting` (2.3 M) | `BooksAndReversalsAlternate`, `OnlyNestedAnticipates` (whatever was handed over and is not committed was written by a nested `OpenTransaction`), `CommittedIsAnnounced` (without faults every committed posting was handed over or is about to be), `DoneMeansBooked`, `PostingInv` (the inductive invariant), `ImplementsLifecycle` (refinement of `RefLifecycle`) | Three sessions, so that two can wait for a third; five refs, one for each way refs are used; four requests; one fault. |
| `MCPostingLive` | `EveryRequestReturns`, `EveryPostingIsHandedOver`, under fairness | Two sessions, three requests, no fault: a lost hand-over is never made good. |
| `MCPostingPhantom` | violation of `MessagesAreCommitted` | one adjusted ref, two requests |
| `MCDaily` (0.5 M) | under the `"opened"` discipline: `BalanceIsPrefixSum`, `ColumnsAreExact` (both columns, rollback entries included), `KeyIsSumOfAccounts` | Two workers, four messages, two days, two accounts of one key, a label, books on both accounts, rollback entries. |
| `MCDailyGap` | violation of `BalanceIsPrefixSum` | one worker, three messages: no race is needed |
| `MCDailyRepair` (0.2 M) | `ResyncRestores`: a resync with its start balances last makes columns and balances of all days, in Asia/Jakarta, with postings those of the journal, whatever was done to the rows before; the only others it leaves are the rows of UTC days with early-morning entries. `RecalculationIsExact`: a recalculation that nothing disturbs leaves in the columns the sides as saved of the entries it read, each once. `EveryMessageIsProcessed`, under fairness: conflicts and row locks never stop a message for ever. | Two workers, any order of delivery, two days, two messages out of three: a rollback entry early in the morning, and entries in another team's book on either day (a recalculation clears across books); one event, which may be a failure, a resync or a recalculation, at any moment: enough for two workers to insert one row at once and for a task to be done twice in part. |
| `MCPayment` (1.2 M) | `BooksAreTheAcceptedPayments`, `DebtsMirrorClaims`, `AcceptedMeansBooked`, `DecisionsStand`, `OwnersDecide`, `PaymentInv` | Two sessions, two payments between two teams in either direction, amounts 0 to 2, three calls; one team whose accounts exist and one whose set-up may come at any moment. |
| `MCTreasury` (0.3 M) | `CashIsWhatTheCallsMoved` (the cash of a team is what the committed calls moved, a call that fails half-way leaving none of its books), `AssetsMirror` (what two teams' books say of each other agrees, also when a call stops between two books), `AdsAreBookedOnce` (the advertising a shop has paid is booked once for its ref, whoever looked for it at the same time), `UpdatesStay` (no call undoes another's write to a bank account), `EveryCallReturns` (under fairness, whatever circle of waiting arises), `TreasuryInv` (the inductive invariant) | Two sessions, which is what a circle needs; two teams with an account each and a third to be opened; any three of sixteen calls, transfers in both directions, deletions, adjustments and tags in opposite orders, and advertising of either source with and without a ref and a shop among them; one tick. |
| `MCFlows` (0.16 M) | seven properties, below | Any four successful calls on one id; two sellers, two warehouses; payloads chosen so that each branch of each handler is taken. |
| `MCFlowsReady` | violation of `ReadyMirrors` | three calls |

`MCFlows`: `ClaimsMirrorDebts` (receivables of one team are payables of the
other), `GoodsMirror` (seller and warehouse agree about ready and sold goods
together, broken and lost ones), `TransitMirror`,
`PaidIsPending` (a restock updated any number of times is paid once, by one
method), `OneCorrectionHolds` (a correction by hand counts once), `FundSettles`
(the fund of an order turns its claim into what is paid out, or nothing for a
return). Four calls are enough to create, update, return or cancel and repeat.
One id suffices because refs of different ids are different keys of `ledger`
that no handler reads together.

Deadlock checking is off in every run: requests, messages and calls are bounded
and may all be answered, so every model may stop. Liveness properties say what
must not stop.

Sessions, workers, teams and payments are symmetric where a configuration says
`SYMMETRY`; the liveness runs use none.

## Fairness

`Posting!FairSpec` has strong fairness of `Step(s)`, the steps a handler takes
by itself: a goroutine runs until it returns, and the database grants row locks
in order of arrival, so a step enabled again and again is taken. Requests,
failures and stops are never forced. `DailyBalance!FairSpec` has strong fairness
of `Process(w)`: the task queue dispatches a task until it is answered, and the
handler runs until it returns. `Fail` is bounded by `MaxEvents`: a worker that
always fails finishes nothing. `Treasury!FairSpec` has strong fairness of
`Step(s)`, as `Posting` does, and weak fairness of `BreakDeadlock(s)`: PostgreSQL
looks for deadlocks after a second's wait and gives one of the transactions up.

## The proofs

Every safety and action property that a run checks, and the refinement, is a
theorem; only liveness is left to TLC. There are six modules of proofs about
components and two of lemmas they share (`Sums`, `LedgerProofs`), for any sets of
sessions, workers, refs, teams, accounts, payments, messages and requests and
for any bounds, from the named assumptions on constants. These say that `None`
is no session, payment, row or call; that `Ref` and, for payments, `Team` are not
empty; that `KindsOf` maps refs to kinds; that amounts are integers, requests
are calls, messages have entries with integer amounts, a day in UTC and
the same or the next one in Asia/Jakarta; that the
tolerance and the bounds are naturals; that the `Root` team is a team, a bank
account's id is not a unique key, and the words the code uses are words; and of
`Flows`, that sellers and warehouses are finitely many and disjoint and that the
payloads of its handlers have their types. TLC evaluates them in the runs.

Four theorems state a hypothesis of their own. `ColumnsExact`, `BalancesExact`
and `KeysExact` are about `Order = "opened"` and hold until a call fails or a
resync or recalculation is run (`events = 0`), which is what `MCDaily` checks:
under `"any"` the code does break them (`MCDailyGap`), and after a failure a task
is done twice in part. `KeysExact` needs finitely many series besides, and
`Balances` finitely many accounts and a tolerance below the unit of money
(`Epsilon = 1`): `PrecisionEpsilon` is 0.0001. A larger tolerance adds up from book
to book, and the rows of a team then need not balance within it.

**Sums.** What `MapThenSumSet` adds up is the fold of the community modules, a
`CHOOSE` of a recursive function. `SumsExists` shows that there is such a function
on the subsets of a finite set and `SumsUnique` that there is one only; then
`TotalIs` says that the fold is it. Induction is over a set of sets
(`SubsetInduction`), where a predicate would be a parameter the provers cannot
instantiate. The other lemmas are the algebra of sums: one summand more, less or
changed, sums of sums, zeros left out, rows and columns exchanged
(`TotalSwap`), prefixes of a sequence.

**PostingProofs.** `Invariance` proves `Spec => []PostingInv`. The safety
properties are not inductive on their own: that books and reversals alternate
depends on what an open transaction has written fitting the committed journal,
which depends on no one else writing to that ref meanwhile. `PostingInv` adds
exactly this: `LockInv` (a ref is locked by exactly the sessions at work on it),
`TransInv` (the transactions table has a row for the refs with postings),
`OwnFits` (what each program counter says about the postings written so far) and
`BookedInv`. There is one lemma per part (`TypeStep`, `LockStep`, `TransStep`,
`FitsStep`, `AlternationStep`, `MessageStep`, `DoneStep`), over lemmas on what
`Commit` writes and on concatenation. From it follow `TypeCorrect`,
`Alternation`, `AnticipationIsNested`, `AnswerIsTrue`, and `Refinement`: `Spec =>
ImplementsLifecycle`. The mapping reads the state of a ref off its last posting;
every step but `Commit` is a stutter, and a commit posts an absent ref, cancels
a live one, or replaces its amounts (a reversal and a book, which leaves it
live). `Announced` is `Spec => []CommittedIsAnnounced`: `SentInv` says which of
its postings a session still owes a message for at each program counter (a
nested posting was handed over before it is committed, any other is not), so that
what it commits is owed or said.

**PaymentProofs.** `Invariance` proves `PaymentInv`: types, `LockInv`, `CopyInv`
(what a session has read is still the row, and the books it has written are those
its program counter says), `AcceptedMeansBooked` and
`DebtsMirrorClaims`. `CopyInv` is why saving the whole row that was read loses
no decision. From it follow `Mirror`, `Booked`, and the action properties
`DecidedOnce` and `DecidedByOwner`. `BooksExact` carries the sums along: an
acceptance adds one payment to the sum of its two teams in the step that posts
its two books, and no other step changes a status to or from accepted.

**TreasuryProofs.** `Invariance` proves `TreasuryInv`: types; `HeldInv` (a row
or key is held by one session, and held rows exist); `NumberInv` (the number of
an account that exists is taken); and `CallInv`, what a handler relies on
between two of its statements: what is left of an adjustment's plan are entries
of the call (`PlanOf`, by a lemma that places each step of the plan in its entry
by division), a transfer that books has found its receiver (`TransferOf`), an
initial balance that will save a row has read it as it still is (`CopyOf`), a
created account's number is held (`NumberOf`), and what has been booked so far
mirrors, or will once a transfer has written its second book (`WorkMirrors`). From it follow `Mirror`, since the sum of two mirroring books
mirrors, and `Kept`: `CopyOf` is why the row saved by an initial balance undoes neither a
deletion nor a new name. `CashMoved` needs to know how far each open call is: what
it has booked is what its plan holds less what is left of it. The calls that
are done are numbered, so that two equal ones count twice. `AdsOnce` adds that a
call of a shop past its insertion holds the key of its ref, and that the keys of
those that are done are committed: a second call finds the key taken.

**JournalProofs.** `JournalInv` consists of types, `Settled` (outside an open
transaction the rows are the committed ones and no message is under way),
`ColumnsExplainBalance` of the daily rows and of the message under way, and
`OnlyDebitsAreMissing`. The lemmas follow an entry: an amount moves its account
by itself, on one side (`EntryMoves`), what merging it and reversing a
transaction leave (`MergeAdds`, `ReversalClears`), and that effects of entries
add up (`EffectExplained`, `EffectsAdd`, `ForwardedFits`). `Explains`,
`OneSided` and `Clears` hold for any integer amounts and any tolerance. `Balances`
adds that outside the accounts a book has touched it has no entries: what it
adds to the rows of its team is then what the check of `Commit` has summed, the
entries with equal sides that are not saved being nothing.

**LedgerProofs and FlowsProofs.** `Tally` is what a sequence of moves adds to an
account, `On` what the books of a team add, `Effect` what the entries of a ref
amount to; they add up over sequences put together, and a reversal adds the
opposite. Each handler's books are computed this way from its payload, branch by
branch, for every account it may touch. `FlowsInv`, the inductive invariant, then
says of every ref by itself that its entries agree (`RefAgrees`: what one team
claims the other owes, goods, transit, and for three kinds of refs what an
update, a return or a correction must keep). The
agreements are equations between sums, so a rollback and a replacement keep
them, and the balances, which are sums over refs, have them: `ClaimsAreDebts`,
`GoodsAgree`, `TransitAgrees` (a sum over pairs of sellers
and warehouses), `PaymentsArePending`, `CorrectionsCountOnce`, `FundsSettle` and
`FlowsTypeOK`.

**DailyBalanceProofs.** `DailyInv` is what a worker or a recalculation relies
on: every task, row and entry in work belongs to a posting, so a series has rows
only on days, in UTC or in Asia/Jakarta, with postings. `Restores` needs it: a
resync writes the days of Jakarta the journal has and keeps the other rows, which
are then of UTC days that have a posting of the next day in Jakarta.
Its start balances are read from the last earlier day, whose existence comes
from well-foundedness of the order of days. `TypeCorrect` adds that what every
statement computes is a number (`TypeInv`).

`OpenedInv` is the invariant of the opened discipline. Of every posting it says
how many positions of its plan are written (`p`) and how many were passed on to
the later days (`l`); none while its task waits, all once it is answered, and
between them what the program counter of its worker says (`Progress`). The columns of
a row are the sums of the written positions of its day, and its balance the sum
of those and of the passed positions of earlier days (`Exact`). That a step keeps
this is where the discipline is needed (`Fit`): a call that inserts runs alone
and on the last day of its series, so the row it read before is still the
latest one and nothing is to be lifted; one that does not insert finds all its
rows, so that updates from several workers commute. With everything answered
`p` and `l` are the lengths of the plans, and the sums are those of the journal:
`ColumnsExact` and `BalancesExact`. `KeysExact` follows from these by an argument
about plans alone: the key's position of an entry comes right before its
account's, so that over a prefix of a plan the accounts are behind the key by
the amount of one entry at most (`Behind`) and at its end by nothing; the sums over
accounts of sums over postings are then exchanged.

`RecalcInv` says what the rows of accounts hold while a recalculation runs
undisturbed: on the days and accounts it has cleared, the entries it has added
since (`Recounted`). It gives `Recalculates`.

Only model-checked: the liveness properties `EveryMessageIsProcessed`,
`EveryRequestReturns`, `EveryPostingIsHandedOver` and `EveryCallReturns`, for TLAPS
does not prove properties under fairness; and the violations, which are
counterexamples.

## Where the code disagrees with itself

Four runs end in a violation; `PROJECT.json` quotes the lines.

1. `MCJournalSplit`. An entry with both sides is saved as two rows, but the
   debit half is a copy that the message never sees
   (`journal_entries.go:224`); the daily balance misses it.
2. `MCPostingPhantom`. `RollbackEntry` inside another `OpenTransaction` hands
   its message over before the outer one commits (`transaction.go:470`); when
   that fails the daily balances have a reversal the journal has not. The book of
   an expense is nested in the handler's own transaction in the same way
   (`expense_create.go:54`, `expense.go:48`): `OnlyNestedAnticipates` excepts both,
   and no others.
3. `MCDailyGap`. A row inserted between two days adds the balance before it to
   the later days, which hold it already (`daily_balance_update.go:387`).
4. `MCFlowsReady`. The warehouse's book of an order of own stock is built and
   not committed (`order_created.go:176`).

The models show more behaviour of this kind, for which the repository states no
intention to compare with, or which no run singles out:

- the increments cut days in UTC, the resync in Asia/Jakarta
  (`account_daily_sync.go:11`): the row of the UTC day that the increments made for
  an entry of the early morning in Jakarta is touched by no resync, which
  `ResyncRestores` has to except;
- `RecalculateDaily` adds the sides of a rollback entry as they are saved, where
  the increments and the resync swap and negate them
  (`accounting_core/daily_balance.go:66`), so `RecalculationIsExact` and
  `ColumnsAreExact` say different things of the columns of one day;
- two workers that insert a day at once, a task dispatched again after part of
  it was done, and a message lost between commit and hand-over all leave wrong
  balances until a resync; a resync while tasks wait counts them twice;
- increments never change the start balance of later days;
- `RecalculateDaily` writes a day's own balance where the increments keep a
  running sum, leaves start balances and later days alone, and counts a message
  again that is committed and not yet processed;
- `AccountDelete` answers success though its transaction failed;
- every initial balance is booked under the empty ref, so only the first one of
  the service can succeed, and `capital_start` is seeded nowhere under `src/`;
- two expenses of a team and a type in one second collide, and the second fails;
- a transfer inside one team books its cash twice over, in two books of the same
  team;
- `InboundUpdate` without a shipping fee puts the whole pending amount in its
  place, and updating a return books the seller's side only, which
  `GoodsMirror` has to except;
- a negative stream adjustment increases the claim; a negative
  `CREATED_REVENUE` is booked twice;
- an adjustment of lost goods moves the amount of the broken ones, and fails
  when there are none;
- a correction moved to another team can never be corrected again, since one
  team's rows then have no net effect and `RollbackEntry` refuses an empty book;
- a transfer can be cancelled after it was accepted;
- `OnOrder` recognises a repeated order by the wording of SQLite's error only.

## What is not modelled

- Floats: amounts are integers. The tolerance of the balance check is `Epsilon`.
- Time: days are numbers, and of an entry only its day in UTC and its day in
  Asia/Jakarta are known. That processes run in UTC, as `ParseDate` and
  `AddEntry` take the day in the zone of the time they are given, is assumed.
- Authorisation, apart from the ownership that the payment handlers check on
  the row itself.
- Concurrency in `Flows`: calls are atomic there. How they interleave on a ref
  is the subject of `Posting`.
- In `Posting`, the content of books. `RollbackEntry` of a ref with an empty
  team is `NothingToReverse` there and exact in `Journal` and `Ledger`.
- In `Treasury`, the change of an account's number and the reuse of a deleted one,
  and the fields of labels: an account is known by its id, a label by its name.
- The older transactions of orders and payments and `DailyBalanceCalculate`,
  which nothing calls; `RegisterPermission`, a call to another service.
- The composition of `Posting` with `DailyBalance`: what a lost or phantom message
  means for a balance is argued from the runs of both.
- Reports, ledger queries, lists, look-ups of tags and labels, configuration,
  migration: read-only, or pure I/O.

## Plan

Done, in this order: `Posting` (the core), `Journal`, `DailyBalance`, `Payment`,
`Flows`, the proofs about `Posting` and `Payment`; then `Treasury`,
`RecalculateDaily`, and the proofs about `Treasury`, `Journal`, `DailyBalance` and
`CommittedIsAnnounced`; then `Sums` and what it makes provable: the books of
`Flows`, `Payment` and `Treasury`, the sums of `DailyBalance`, `TeamsBalance`; then
the nested book of an expense, days in two time zones, both columns of a row, and
books as steps of their own in `Payment` and `Treasury`.

Next:

1. An abstract specification of the daily balances, a function of the journal,
   that `DailyBalance` implements when nothing is on its way, and the proof from
   `OpenedInv`.
2. One composition of `Posting` with `DailyBalance`, in which a message is what a
   commit left.
