---------------------------- MODULE DailyBalance ----------------------------
(***************************************************************************)
(* The daily balances of the report service.  Every message of             *)
(* OpenTransaction becomes a task; a worker takes it to DailyUpdateBalance,*)
(* which adds each entry to several tables, statement by statement and     *)
(* without a transaction around them.  BalanceResync computes the tables   *)
(* anew from the journal; the older RecalculateDaily adds the journal up   *)
(* again, entry by entry, into the table of the accounts.                  *)
(*                                                                         *)
(* The module follows the accounts of one account key in the books of the  *)
(* journal teams.  A series is the rows of one table with one key: the     *)
(* rows of the account key, of an account, and of a label (customer        *)
(* service, shop, supplier, tag, type) of an account, in a team's book.    *)
(* An amount is the effect of an entry on the balance (DailyEffect in      *)
(* module Journal), its gross the sum of its two sides as it is saved; the *)
(* debit and credit columns of a row are kept as their difference, net, in *)
(* the account's direction, and their sum, gross.                          *)
(*                                                                         *)
(* The increments and the recalculation cut the day of an entry in UTC,    *)
(* the resync in Asia/Jakarta: an entry made between midnight and seven in *)
(* Jakarta is on the day before in UTC.  Every process runs in UTC.        *)
(***************************************************************************)
EXTENDS Integers, Sequences, FiniteSetsExt

CONSTANTS Worker,       \* concurrent calls of DailyUpdateBalance
          LastDay,      \* bound: days
          Messages,     \* the messages that may be posted: entries, day, labels
          Order,        \* "any", or "opened": see Deliverable
          MaxMessages,  \* bound: messages posted
          MaxEvents     \* bound: failed calls and lost answers, resyncs, recalculations

ASSUME OrderAssumption == Order \in {"any", "opened"}
ASSUME BoundAssumption == LastDay \in Nat /\ MaxMessages \in Nat /\ MaxEvents \in Nat

Day == 1..LastDay

ASSUME MessageAssumption ==
  \A m \in Messages : /\ Len(m.entries) \in Nat \ {0}
                      /\ \A i \in 1..Len(m.entries) : /\ m.entries[i].amount \in Int
                                                      /\ m.entries[i].gross \in Int
                                                      /\ m.entries[i].rollback \in BOOLEAN
                      /\ Len(m.labels) \in Nat
                      /\ m.day \in Day                            \* in UTC
                      /\ m.local \in Day \cap {m.day, m.day + 1}   \* in Asia/Jakarta

VARIABLES posted,  \* committed postings, with an id of their own
          queue,   \* tasks that wait for a worker
          rows,    \* the daily rows of each series
          work,    \* what each worker is doing
          recalc,  \* what a RecalculateDaily is doing
          events

vars == <<posted, queue, rows, work, recalc, events>>

\* One entry is added to these series, in this order.
Series(e, labels) ==
  <<<<"key", e.team>>, <<"account", e.account, e.team>>>>
    \o [i \in 1..Len(labels) |-> <<"label", labels[i], e.account, e.team>>]

\* A rollback entry has its sides swapped back and negated.
Turnover(e) == IF e.rollback THEN -e.gross ELSE e.gross

\* The calls of updateDailyBalance for message m: each entry, each table.
Width(m) == 2 + Len(m.labels)
Plan(m) ==
  [j \in 1..(Len(m.entries) * Width(m)) |->
     LET e == m.entries[((j - 1) \div Width(m)) + 1]
     IN [series |-> Series(e, m.labels)[((j - 1) % Width(m)) + 1],
         day    |-> m.day,
         net    |-> e.amount,
         gross  |-> Turnover(e)]]

SeriesOf(m) == {Plan(m)[j].series : j \in 1..Len(Plan(m))}
AllSeries == UNION {SeriesOf(m) : m \in Messages}

Task == [id : 1..MaxMessages, msg : Messages]
Row == [net : Int, gross : Int, balance : Int, start : Int]

\* An UPDATE of a row's columns and its balance, and a new row on top of a balance.
Plus(row, n, g) == [row EXCEPT !.net = @ + n, !.gross = @ + g, !.balance = @ + n]
NewRow(n, g, before) == [net |-> n, gross |-> g, balance |-> n + before, start |-> before]

Idle == [pc |-> "idle"]
Started(t, alone) ==
  [pc |-> "update", task |-> t, at |-> 1, before |-> 0, inc |-> 0, alone |-> alone]

\* The call of updateDailyBalance that worker w is making.
Call(w) == Plan(work[w].task.msg)[work[w].at]

Latest(x, d) == Max({e \in DOMAIN rows[x] : e < d})
HasEarlier(x, d) == \E e \in DOMAIN rows[x] : e < d

\* The row read FOR UPDATE is locked until the insert of the same transaction.
Locked(w, x, e) == \E v \in Worker \ {w} :
                     /\ work[v].pc = "insert"
                     /\ Call(v).series = x
                     /\ HasEarlier(x, Call(v).day)
                     /\ e = Latest(x, Call(v).day)

Init == /\ posted = {}
        /\ queue = {}
        /\ rows = [x \in AllSeries |-> <<>>]
        /\ work = [w \in Worker |-> Idle]
        /\ recalc = Idle
        /\ events = 0
------------------------------------------------------------------------------
\* OpenTransaction commits and hands its message over; the task queue keeps it.
Post(m) ==
  LET t == [id |-> Cardinality(posted) + 1, msg |-> m]
  IN /\ t.id <= MaxMessages
     /\ posted' = posted \cup {t}
     /\ queue' = queue \cup {t}
     /\ UNCHANGED <<rows, work, recalc, events>>

\* Message m would insert a row.
Opens(m) == \E x \in SeriesOf(m) : m.day \notin DOMAIN rows[x]

\* Others write while the recalculation runs.
Disturbed == IF recalc = Idle THEN recalc ELSE [recalc EXCEPT !.alone = FALSE]

\* Which task the queue may dispatch.  It promises no order and dispatches
\* several at once ("any").  "opened" is the discipline under which the
\* increments are right: a message that inserts rows is processed alone, and
\* only after the last day of its series.
Deliverable(m) ==
  Order = "opened" =>
    /\ \A v \in Worker : work[v] # Idle => ~work[v].alone
    /\ Opens(m) => /\ \A v \in Worker : work[v] = Idle
                   /\ \A x \in SeriesOf(m) : \A e \in DOMAIN rows[x] : e <= m.day

Deliver(w, t) ==
  /\ work[w] = Idle
  /\ t \in queue
  /\ Deliverable(t.msg)
  /\ queue' = queue \ {t}
  /\ work' = [work EXCEPT ![w] = Started(t, Opens(t.msg))]
  /\ recalc' = Disturbed
  /\ UNCHANGED <<posted, rows, events>>

\* updateDailyBalance begins with an UPDATE of the day's row; when no row was
\* affected it goes on to insert one.
Update(w) ==
  /\ work[w].pc = "update"
  /\ LET c == Call(w)
     IN IF c.day \in DOMAIN rows[c.series]
        THEN /\ ~Locked(w, c.series, c.day)
             /\ rows' = [rows EXCEPT ![c.series][c.day] = Plus(@, c.net, c.gross)]
             /\ work' = [work EXCEPT ![w].pc = "after", ![w].inc = c.net]
        ELSE /\ work' = [work EXCEPT ![w].pc = "read"]
             /\ UNCHANGED rows
  /\ UNCHANGED <<posted, queue, recalc, events>>

\* A transaction reads the balance of the latest earlier row, FOR UPDATE...
ReadBefore(w) ==
  /\ work[w].pc = "read"
  /\ LET c == Call(w)
     IN /\ HasEarlier(c.series, c.day) => ~Locked(w, c.series, Latest(c.series, c.day))
        /\ work' = [work EXCEPT ![w].pc = "insert",
                      ![w].before = IF HasEarlier(c.series, c.day)
                                    THEN rows[c.series][Latest(c.series, c.day)].balance
                                    ELSE 0]
  /\ UNCHANGED <<posted, queue, rows, recalc, events>>

\* Mutant of Insert: the balance read before is added to the columns too.
InsertNet(w) ==
  /\ work[w].pc = "insert"
  /\ LET c == Call(w)
         n == c.net + work[w].before
     IN /\ c.day \notin DOMAIN rows[c.series]
        /\ rows' = [rows EXCEPT ![c.series] = [e \in DOMAIN @ \cup {c.day} |->
                      IF e = c.day THEN NewRow(n, c.gross, 0) ELSE @[e]]]
        /\ work' = [work EXCEPT ![w].pc = "after", ![w].inc = n]
  /\ UNCHANGED <<posted, queue, recalc, events>>

\* Mutant of Insert: a new row does not start at the balance read before.
InsertBare(w) ==
  /\ work[w].pc = "insert"
  /\ LET c == Call(w)
         row == NewRow(c.net, c.gross, 0)
     IN /\ c.day \notin DOMAIN rows[c.series]
        /\ rows' = [rows EXCEPT ![c.series] =
                      [e \in DOMAIN @ \cup {c.day} |-> IF e = c.day THEN row ELSE @[e]]]
        /\ work' = [work EXCEPT ![w].pc = "after", ![w].inc = c.net]
  /\ UNCHANGED <<posted, queue, recalc, events>>

\* ... and inserts the day's row on top of it.  The increment of the later
\* days takes the balance that was read along.
Insert(w) ==
  /\ work[w].pc = "insert"
  /\ LET c == Call(w)
         row == NewRow(c.net, c.gross, work[w].before)
     IN /\ c.day \notin DOMAIN rows[c.series]
        /\ rows' = [rows EXCEPT ![c.series] =
                      [e \in DOMAIN @ \cup {c.day} |-> IF e = c.day THEN row ELSE @[e]]]
        /\ work' = [work EXCEPT ![w].pc = "after", ![w].inc = c.net + work[w].before]
  /\ UNCHANGED <<posted, queue, recalc, events>>

\* Mutant of Conflict: the insert is repeated, not the task.
ConflictRepeated(w) ==
  /\ work[w].pc = "insert"
  /\ Call(w).day \in DOMAIN rows[Call(w).series]
  /\ UNCHANGED vars

\* Another worker has inserted the row meanwhile: the unique index refuses
\* this one, the call fails and the queue dispatches the task again.
Conflict(w) ==
  /\ work[w].pc = "insert"
  /\ Call(w).day \in DOMAIN rows[Call(w).series]
  /\ queue' = queue \cup {work[w].task}
  /\ work' = [work EXCEPT ![w] = Idle]
  /\ UNCHANGED <<posted, rows, recalc, events>>

\* Mutant of Continue: one call too many.
ContinuePast(w) ==
  IF work[w].at <= Len(Plan(work[w].task.msg))
  THEN [work[w] EXCEPT !.pc = "update", !.at = @ + 1]
  ELSE [work[w] EXCEPT !.pc = "answer"]

\* What worker w does after a call: the next one, or it answers the queue.
Continue(w) ==
  IF work[w].at < Len(Plan(work[w].task.msg))
  THEN [work[w] EXCEPT !.pc = "update", !.at = @ + 1]
  ELSE [work[w] EXCEPT !.pc = "answer"]

\* Mutant of After: the day itself is among the later days.
AfterAndSame(w) ==
  /\ work[w].pc = "after"
  /\ LET c == Call(w)
         old == rows[c.series]
     IN rows' = [rows EXCEPT ![c.series] =
                   [e \in DOMAIN old |-> IF e >= c.day
                      THEN [old[e] EXCEPT !.balance = @ + work[w].inc] ELSE old[e]]]
  /\ work' = [work EXCEPT ![w] = Continue(w)]
  /\ UNCHANGED <<posted, queue, recalc, events>>

\* updateAfterIncrement: the balances of all later days.
After(w) ==
  /\ work[w].pc = "after"
  /\ LET c == Call(w)
         old == rows[c.series]
         later == {e \in DOMAIN old : e > c.day}
     IN /\ \A e \in later : ~Locked(w, c.series, e)
        /\ rows' = [rows EXCEPT ![c.series] =
                      [e \in DOMAIN old |-> IF e \in later
                         THEN [old[e] EXCEPT !.balance = @ + work[w].inc] ELSE old[e]]]
  /\ work' = [work EXCEPT ![w] = Continue(w)]
  /\ UNCHANGED <<posted, queue, recalc, events>>

\* The answer reaches the queue, which deletes the task.
Answer(w) ==
  /\ work[w].pc = "answer"
  /\ work' = [work EXCEPT ![w] = Idle]
  /\ UNCHANGED <<posted, queue, rows, recalc, events>>

\* A statement fails, the process stops or the answer is lost: the queue
\* dispatches the task again, and what was written stays.
Fail(w) ==
  /\ work[w] # Idle
  /\ events < MaxEvents
  /\ events' = events + 1
  /\ queue' = queue \cup {work[w].task}
  /\ work' = [work EXCEPT ![w] = Idle]
  /\ UNCHANGED <<posted, rows, recalc>>

\* Nothing is on its way.
Quiet == queue = {} /\ \A w \in Worker : work[w] = Idle
------------------------------------------------------------------------------
\* The journal's view of a series: what was posted to column c ("net" or
\* "gross") on a day cut by "day", in UTC, or by "local", in Asia/Jakarta.
Amounts(c, x, t) == MapThenSumSet(LAMBDA j : IF Plan(t.msg)[j].series = x
                                             THEN Plan(t.msg)[j][c] ELSE 0,
                                  1..Len(Plan(t.msg)))
SumOf(c, by, x, d) == MapThenSumSet(LAMBDA t : Amounts(c, x, t), {t \in posted : t.msg[by] = d})
PrefixSum(by, x, d) == MapThenSumSet(LAMBDA e : SumOf("net", by, x, e), 1..d)
PostedDays(by, x) == {t.msg[by] : t \in {t \in posted : x \in SeriesOf(t.msg)}}

\* A row with the given balance on a day with journal entries.
RowOfDay(x, old, d, balance) ==
  [net |-> SumOf("net", "local", x, d), gross |-> SumOf("gross", "local", x, d),
   balance |-> balance, start |-> IF d \in DOMAIN old THEN old[d].start ELSE 0]

\* Mutant of Upsert: no window, a day's balance is that of its own entries.
UpsertDay(x, old) ==
  [d \in DOMAIN old \cup PostedDays("local", x) |->
     IF d \in PostedDays("local", x)
     THEN RowOfDay(x, old, d, SumOf("net", "local", x, d)) ELSE old[d]]

\* The two statements of a resync that write: the upsert of every day, in
\* Asia/Jakarta, that has journal entries, and the start balances by lag()
\* over the rows there are.
Upsert(x, old) ==
  [d \in DOMAIN old \cup PostedDays("local", x) |->
     IF d \in PostedDays("local", x)
     THEN RowOfDay(x, old, d, PrefixSum("local", x, d)) ELSE old[d]]
StartBalances(old) ==
  [d \in DOMAIN old |->
     LET earlier == {e \in DOMAIN old : e < d}
     IN [old[d] EXCEPT !.start = IF earlier = {} THEN 0 ELSE old[Max(earlier)].balance]]

\* BalanceResync recomputes the table of the account keys and the one of the
\* accounts in a transaction each; the statements of a transaction are the
\* values of a Go map and run in any order.  It waits for the row locks.
Resync(table, startsLast) ==
  /\ events < MaxEvents
  /\ events' = events + 1
  /\ \A v \in Worker : work[v].pc # "insert"
  /\ rows' = [x \in AllSeries |->
                IF x[1] # table THEN rows[x]
                ELSE IF startsLast THEN StartBalances(Upsert(x, rows[x]))
                                   ELSE Upsert(x, StartBalances(rows[x]))]
  /\ recalc' = Disturbed
  /\ UNCHANGED <<posted, queue, work>>
------------------------------------------------------------------------------
\* RecalculateDaily runs without a transaction.  It reads the journal once, in
\* no order; alone says whether anything else has touched the rows since.
Journal == UNION {{[task |-> t, at |-> i] : i \in 1..Len(t.msg.entries)} : t \in posted}

EntryOf(j) == j.task.msg.entries[j.at]
AccountSeries(j) == <<"account", EntryOf(j).account, EntryOf(j).team>>
\* What these entries add to a row, in f: their amounts, or sides as saved.
SumOfEntries(f, x, d, js) ==
  MapThenSumSet(LAMBDA j : EntryOf(j)[f],
                {j \in js : AccountSeries(j) = x /\ j.task.msg.day = d})

RecalculateDaily ==
  /\ recalc = Idle
  /\ events < MaxEvents
  /\ events' = events + 1
  /\ recalc' = [pc |-> "next", left |-> Journal, read |-> {}, cleared |-> {},
                 entry |-> {}, alone |-> Quiet]
  /\ UNCHANGED <<posted, queue, rows, work>>

\* Mutant of DayKey: with the journal team.
DayKeyOfTeam(j) == <<j.task.msg.day, EntryOf(j).account, EntryOf(j).team>>

\* A day of an account is cleared once, in the books of all teams.
DayKey(j) == <<j.task.msg.day, EntryOf(j).account>>

NextEntry(j) ==
  /\ recalc.pc = "next" /\ j \in recalc.left
  /\ recalc' = [recalc EXCEPT !.pc = IF DayKey(j) \in recalc.cleared THEN "add" ELSE "clear",
                              !.left = @ \ {j}, !.read = @ \cup {j},
                              !.entry = j]
  /\ UNCHANGED <<posted, queue, rows, work, events>>

\* The row of a day that the recalculation has emptied.
Cleared(row) == [row EXCEPT !.net = 0, !.gross = 0, !.balance = 0]

\* BeforeUpdateDaily: the columns and the balance, not the start balance.
Clear ==
  /\ recalc.pc = "clear"
  /\ LET j == recalc.entry
         d == j.task.msg.day
         hit == {x \in AllSeries : /\ x[1] = "account" /\ x[2] = EntryOf(j).account
                                   /\ d \in DOMAIN rows[x]}
     IN /\ \A x \in hit : ~Locked("recalculation", x, d)
        /\ rows' = [x \in AllSeries |->
                      IF x \in hit THEN [rows[x] EXCEPT ![d] = Cleared(@)]
                                   ELSE rows[x]]
        /\ recalc' = [recalc EXCEPT !.pc = "add", !.cleared = @ \cup {DayKey(j)}]
  /\ UNCHANGED <<posted, queue, work, events>>

\* AddEntry: an UPDATE of the day's row by the two sides of the entry as they
\* are saved, also of a rollback entry; when none was affected, an insert of
\* the entry alone.  Later days are left as they are.
AddEntry ==
  /\ recalc.pc = "add"
  /\ LET j == recalc.entry
         x == AccountSeries(j)
         d == j.task.msg.day
         e == EntryOf(j)
     IN IF d \in DOMAIN rows[x]
        THEN /\ ~Locked("recalculation", x, d)
             /\ rows' = [rows EXCEPT ![x][d] = Plus(@, e.amount, e.gross)]
             /\ recalc' = [recalc EXCEPT !.pc = "next"]
        ELSE /\ recalc' = [recalc EXCEPT !.pc = "save"]
             /\ UNCHANGED rows
  /\ UNCHANGED <<posted, queue, work, events>>

\* The unique index refuses the row when a worker has inserted it meanwhile,
\* and the recalculation ends half-way.
SaveEntry ==
  /\ recalc.pc = "save"
  /\ LET j == recalc.entry
         x == AccountSeries(j)
         d == j.task.msg.day
         row == NewRow(EntryOf(j).amount, EntryOf(j).gross, 0)
     IN IF d \in DOMAIN rows[x]
        THEN recalc' = Idle /\ UNCHANGED rows
        ELSE /\ rows' = [rows EXCEPT ![x] = [e \in DOMAIN @ \cup {d} |-> IF e = d THEN row ELSE @[e]]]
             /\ recalc' = [recalc EXCEPT !.pc = "next"]
  /\ UNCHANGED <<posted, queue, work, events>>

Recalculated ==
  /\ recalc.pc = "next" /\ recalc.left = {}
  /\ recalc' = Idle
  /\ UNCHANGED <<posted, queue, rows, work, events>>

\* A statement fails, or the process stops.
RecalculationFails ==
  /\ recalc # Idle
  /\ recalc' = Idle
  /\ UNCHANGED <<posted, queue, rows, work, events>>

Recalculate == \/ RecalculateDaily \/ (recalc # Idle /\ \E j \in recalc.left : NextEntry(j))
               \/ Clear \/ AddEntry \/ SaveEntry \/ Recalculated \/ RecalculationFails
------------------------------------------------------------------------------

Process(w) == \/ \E t \in queue : Deliver(w, t)
              \/ Update(w) \/ ReadBefore(w) \/ Insert(w) \/ Conflict(w)
              \/ After(w) \/ Answer(w)

Next == \/ \E m \in Messages : Post(m)
        \/ \E w \in Worker : Process(w) \/ Fail(w)
        \/ \E table \in {"key", "account"}, startsLast \in BOOLEAN : Resync(table, startsLast)
        \/ Recalculate

Spec == Init /\ [][Next]_vars

\* The queue goes on dispatching a task until it is answered, and a call of
\* DailyUpdateBalance runs until it returns; row locks are granted in order.
FairSpec == Spec /\ \A w \in Worker : SF_vars(Process(w))
------------------------------------------------------------------------------
\* Every task, row and entry in work belongs to a posting: a series has rows
\* on days only, in UTC or in Asia/Jakarta, on which something was posted to it.
WorkFits ==
  /\ DOMAIN work = Worker
  /\ \A w \in Worker :
       work[w] # Idle => /\ DOMAIN work[w] = {"pc", "task", "at", "before", "inc", "alone"}
                         /\ work[w].task \in posted
                         /\ work[w].at \in 1..Len(Plan(work[w].task.msg))
RowsFit == /\ DOMAIN rows = AllSeries
           /\ \A x \in AllSeries : DOMAIN rows[x] \subseteq PostedDays("day", x) \cup PostedDays("local", x)
RecalcFits ==
  recalc # Idle => /\ DOMAIN recalc = {"pc", "left", "read", "cleared", "entry", "alone"}
                   /\ recalc.left \cup recalc.read \subseteq Journal
                   /\ recalc.pc # "next" => recalc.entry \in Journal
PostingsFit == (\A t \in posted : t.msg \in Messages) /\ queue \subseteq posted
DailyInv == PostingsFit /\ WorkFits /\ RowsFit /\ RecalcFits

\* Type invariant.
TypeOK ==
  /\ DailyInv
  /\ posted \subseteq Task
  /\ \A x \in AllSeries : \A d \in DOMAIN rows[x] : d \in Day /\ rows[x][d] \in Row
  /\ \A w \in Worker : work[w] # Idle => work[w].before \in Int /\ work[w].inc \in Int
  /\ recalc = Idle \/ recalc.pc \in {"next", "clear", "add", "save"}
  /\ events \in 0..MaxEvents

\* Every posting that reached a series is in the balance of its day and of
\* all later days, once: "sum(su.balance) over (... order by su.day asc)".
BalanceIsPrefixSum ==
  Quiet => \A x \in AllSeries : \A d \in DOMAIN rows[x] :
             rows[x][d].balance = PrefixSum("day", x, d)

\* Every day with postings has its row, and the columns of a day are those of
\* its own postings, their rollback entries swapped back and negated:
\* "sum(en.debit)".
ColumnsAreExact ==
  Quiet => \A x \in AllSeries :
             /\ PostedDays("day", x) \subseteq DOMAIN rows[x]
             /\ \A d \in DOMAIN rows[x], c \in {"net", "gross"} :
                  rows[x][d][c] = SumOf(c, "day", x, d)

\* The balance of the accounts of the key in a team's book at the end of day d.
AccountsAt(t, d) ==
  MapThenSumSet(LAMBDA x : IF \E e \in DOMAIN rows[x] : e <= d
                           THEN rows[x][Max({e \in DOMAIN rows[x] : e <= d})].balance
                           ELSE 0,
                {x \in AllSeries : x[1] = "account" /\ x[3] = t})

\* The account key's row is the total of its accounts on that day, even of
\* accounts that were not touched on it.
KeyIsSumOfAccounts ==
  Quiet => \A x \in {x \in AllSeries : x[1] = "key"} : \A d \in DOMAIN rows[x] :
             rows[x][d].balance = AccountsAt(x[2], d)

\* A resync rights the rows of all days, in Asia/Jakarta, that have postings,
\* whatever the increments, repeats and recalculations had made of them, and
\* start balances follow the rows there are.  The one kind of row it leaves as
\* it is is that of a day on which, in UTC, something was posted early the next
\* day in Asia/Jakarta.
ResyncRestores ==
  [][\A table \in {"key", "account"} :
       Resync(table, TRUE) =>
         \A x \in AllSeries : x[1] = table =>
           /\ rows'[x] = StartBalances(rows'[x])
           /\ \A d \in PostedDays("local", x) :
                /\ rows'[x][d].balance = PrefixSum("local", x, d)
                /\ \A c \in {"net", "gross"} : rows'[x][d][c] = SumOf(c, "local", x, d)
           /\ \A d \in DOMAIN rows'[x] \ PostedDays("local", x) :
                \E t \in posted : x \in SeriesOf(t.msg) /\ t.msg.day = d /\ t.msg.local = d + 1]_vars

\* A recalculation that nothing disturbs leaves in the columns of every day of
\* an account of which it has read an entry, in every team's book, the sides as
\* saved of all those entries, although it clears the books of all teams at once.
RecalculationIsExact ==
  [][Recalculated /\ recalc.alone =>
       \A j \in recalc.read :
         LET x == AccountSeries(j)
             d == j.task.msg.day
         IN /\ d \in DOMAIN rows[x]
            /\ rows[x][d].net = SumOfEntries("amount", x, d, recalc.read)
            /\ rows[x][d].gross = SumOfEntries("gross", x, d, recalc.read)]_vars

\* Every message is processed: conflicts on the unique index are not repeated
\* for ever and no two workers wait for each other's rows.
EveryMessageIsProcessed ==
  \A i \in 1..MaxMessages :
    (\E t \in posted : t.id = i) ~>
      (\E t \in posted : /\ t.id = i
                         /\ t \notin queue
                         /\ \A w \in Worker : work[w] # Idle => work[w].task # t)
==============================================================================
