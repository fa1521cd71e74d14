-------------------------- MODULE DailyBalanceProofs --------------------------
(***************************************************************************)
(* Theorems about the daily balances, for any messages, accounts, days,    *)
(* workers and amounts.                                                    *)
(*                                                                         *)
(* A resync writes what was posted to each Jakarta day of its table.       *)
(*                                                                         *)
(* When the calls of a series come in the order of its days ("opened") and *)
(* none fails, every posting is at a known place of its plan: it has       *)
(* written its first positions and lifted the later days of all of them    *)
(* but at most the last one.  The columns and the balances of every row    *)
(* are sums over exactly those positions, and so over all postings when    *)
(* nothing is on its way; the row of a key is then the sum of those of its *)
(* accounts.                                                               *)
(*                                                                         *)
(* An undisturbed recalculation has in the rows of the entries it has read *)
(* their sides as saved: those of a reversal are not swapped.              *)
(***************************************************************************)
EXTENDS DailyBalance, Sums, WellFoundedInduction, TLAPS

\* A product is as large as its factors; a quotient is in range.
LEMMA Times == \A a, b \in Nat : a * b \in Nat
  OBVIOUS

\* Products of positive numbers are positive.
LEMMA Positive ==
  ASSUME NEW a \in Nat \ {0}, NEW b \in Nat \ {0}
  PROVE  a * b \in Nat \ {0}
  OBVIOUS

\* A number is its quotient, times the divisor, and its remainder.
LEMMA Division ==
  ASSUME NEW k \in Nat, NEW w \in Nat \ {0}, NEW r \in 0..(w - 1), k * w \in Nat
  PROVE  (k * w + r) \div w = k /\ (k * w + r) % w = r
  OBVIOUS

\* The place of the second table of entry i in a plan with w rows an entry.
Second(w, i) == (i - 1) * w + 2
PlacedAt(n, w, i, j) == /\ j \in 1..(n * w)
                        /\ ((j - 1) \div w) + 1 = i
                        /\ ((j - 1) % w) + 1 = 2

\* It is the second place of the i-th block.
LEMMA Place ==
  ASSUME NEW n \in Nat \ {0}, NEW w \in Nat \ {0, 1}, NEW i \in 1..n
  PROVE  PlacedAt(n, w, i, Second(w, i))
<1> DEFINE k == i - 1
<1>1. k \in Nat /\ k * w \in Nat
  BY Times
<1>2. n - 1 - k \in Nat /\ (n - 1 - k) * w \in Nat
  BY Times
<1>3. (n - 1 - k) * w = n * w - w - k * w
  OBVIOUS
<1>4. n * w \in Nat
  BY Times
<1>5. k * w + 2 \in 1..(n * w)
  BY <1>1, <1>2, <1>3, <1>4
<1>6. (k * w + 1) \div w = k /\ (k * w + 1) % w = 1
  <2>1. 1 \in 0..(w - 1) /\ w \in Nat \ {0}
    OBVIOUS
  <2> HIDE DEF k
  <2> QED
    BY <1>1, <2>1, Division, Zenon
<1> DEFINE j == Second(w, i)
<1>7. j = k * w + 2 /\ j - 1 = k * w + 1
  BY <1>1 DEF Second
<1>8. k + 1 = i
  OBVIOUS
<1> HIDE DEF k, j
<1>9. PlacedAt(n, w, i, j)
  BY <1>5, <1>6, <1>7, <1>8 DEF PlacedAt
<1> QED
  BY <1>9 DEF j

\* A plan has a position at least for the key and the account.
LEMMA PlanLength ==
  ASSUME NEW m \in Messages
  PROVE  /\ Width(m) \in Nat \ {0, 1}
         /\ Len(m.entries) * Width(m) \in Nat \ {0}
         /\ Len(Plan(m)) = Len(m.entries) * Width(m)
         /\ \A j \in 1..Len(Plan(m)) : Plan(m)[j].day = m.day
<1>1. Width(m) \in Nat \ {0, 1} /\ Len(m.entries) \in Nat \ {0}
  BY MessageAssumption DEF Width
<1>2. Len(m.entries) * Width(m) \in Nat \ {0}
  BY <1>1, Positive
<1>3. Len(Plan(m)) = Len(m.entries) * Width(m)
  BY <1>2 DEF Plan
<1> QED
  BY <1>1, <1>2, <1>3 DEF Plan

\* The series of an account in a team's book is in the plan of every message
\* with an entry on it.
LEMMA AccountPlanned ==
  ASSUME NEW m \in Messages, NEW i \in 1..Len(m.entries)
  PROVE  <<"account", m.entries[i].account, m.entries[i].team>> \in SeriesOf(m)
<1> DEFINE w == Width(m)
           j == Second(w, i)
           e == m.entries[i]
<1>1. w \in Nat \ {0, 1} /\ Len(m.entries) \in Nat \ {0}
  BY PlanLength, MessageAssumption
<1>2. PlacedAt(Len(m.entries), w, i, j)
  BY <1>1, Place
<1> HIDE DEF w, j
<1>3. j \in 1..(Len(m.entries) * w) /\ ((j - 1) \div w) + 1 = i /\ ((j - 1) % w) + 1 = 2
  BY <1>2 DEF PlacedAt
<1>6. Plan(m)[j].series = Series(e, m.labels)[2]
  BY <1>3 DEF Plan, w
<1>7. Series(e, m.labels)[2] = <<"account", e.account, e.team>>
  <2> DEFINE p == <<<<"key", e.team>>, <<"account", e.account, e.team>>>>
             q == [k \in 1..Len(m.labels) |-> <<"label", m.labels[k], e.account, e.team>>]
  <2>1. Len(p) = 2 /\ p[2] = <<"account", e.account, e.team>>
    OBVIOUS
  <2> DEFINE S == {p[1], p[2]} \cup {q[k] : k \in 1..Len(m.labels)}
  <2>2. p \in Seq(S) /\ q \in Seq(S)
    <3>1. q \in [1..Len(m.labels) -> S]
      OBVIOUS
    <3>2. Len(m.labels) \in Nat
      BY MessageAssumption
    <3>3. q \in Seq(S)
      <4> HIDE DEF q, S
      <4> QED
        BY <3>1, <3>2
    <3>4. p \in Seq(S)
      <4>1. p[1] \in S /\ p[2] \in S
        OBVIOUS
      <4> HIDE DEF S
      <4> QED
        BY <4>1
    <3> QED
      BY <3>3, <3>4
  <2>3. Series(e, m.labels) = p \o q
    BY DEF Series
  <2> HIDE DEF p, q, S
  <2>4. \A u, v \in Seq(S) : \A k \in 1..Len(u) : (u \o v)[k] = u[k]
    OBVIOUS
  <2>5. (p \o q)[2] = p[2]
    <3>1. p \in Seq(S) /\ q \in Seq(S) /\ 2 \in 1..Len(p)
      BY <2>1, <2>2
    <3> QED
      BY <2>4, <3>1, Zenon
  <2> QED
    BY <2>1, <2>3, <2>5
<1>8. j \in 1..Len(Plan(m))
  BY <1>3, PlanLength DEF w
<1> QED
  BY <1>6, <1>7, <1>8 DEF SeriesOf
------------------------------------------------------------------------------
\* The columns of a row; the days, however they are cut, of a series.
Column == {"net", "gross"}
Cut == {"day", "local"}
Days(x) == PostedDays("day", x) \cup PostedDays("local", x)

\* A call in work is for a day of a posting to its series.
LEMMA CallFits ==
  ASSUME DailyInv, NEW w \in Worker, work[w] # Idle
  PROVE  /\ work[w].task \in posted /\ work[w].at \in 1..Len(Plan(work[w].task.msg))
         /\ Call(w).series \in AllSeries
         /\ Call(w).day \in Days(Call(w).series)
<1> DEFINE t == work[w].task
           j == work[w].at
<1>1. t \in posted /\ t.msg \in Messages /\ j \in 1..Len(Plan(t.msg))
  BY DEF DailyInv, WorkFits, PostingsFit
<1>2. Call(w) = Plan(t.msg)[j]
  BY DEF Call
<1> HIDE DEF t, j
<1>3. Plan(t.msg)[j].series \in SeriesOf(t.msg)
  BY <1>1 DEF SeriesOf
<1>4. Plan(t.msg)[j].day = t.msg.day
  BY <1>1, PlanLength
<1>5. Call(w).series \in AllSeries
  BY <1>1, <1>2, <1>3 DEF AllSeries
<1>6. Call(w).day \in Days(Call(w).series)
  BY <1>1, <1>2, <1>3, <1>4 DEF Days, PostedDays
<1> QED
  BY <1>1, <1>5, <1>6 DEF t, j

\* The row an entry of the journal is added to belongs to a posting.
LEMMA EntryFits ==
  ASSUME DailyInv, NEW j \in Journal
  PROVE  /\ AccountSeries(j) \in AllSeries
         /\ j.task.msg.day \in PostedDays("day", AccountSeries(j))
<1>1. PICK t \in posted : j \in {[task |-> t, at |-> i] : i \in 1..Len(t.msg.entries)}
  BY DEF Journal
<1>2. PICK i \in 1..Len(t.msg.entries) : j = [task |-> t, at |-> i]
  BY <1>1
<1>3. j.task = t /\ j.at = i /\ t.msg \in Messages
  BY <1>2 DEF DailyInv, PostingsFit
<1>4. AccountSeries(j) \in SeriesOf(t.msg)
  BY <1>3, AccountPlanned DEF AccountSeries, EntryOf
<1> QED
  BY <1>3, <1>4 DEF AllSeries, PostedDays

\* A worker's next state.
LEMMA WorkKeeps ==
  ASSUME DailyInv, NEW w \in Worker, NEW z, work' = [work EXCEPT ![w] = z], posted' = posted,
         z # Idle => /\ DOMAIN z = {"pc", "task", "at", "before", "inc", "alone"}
                     /\ z.task \in posted
                     /\ z.at \in 1..Len(Plan(z.task.msg))
  PROVE  WorkFits'
<1>1. DOMAIN work = Worker
  BY DEF DailyInv, WorkFits
<1>2. work'[w] = z /\ \A v \in Worker \ {w} : work'[v] = work[v]
  BY <1>1
<1> QED
  BY <1>1, <1>2 DEF DailyInv, WorkFits

\* A worker that only writes down where it is.
LEMMA PlaceKeeps ==
  ASSUME DailyInv, NEW w \in Worker, work[w] # Idle, NEW z, posted' = posted,
         work' = [work EXCEPT ![w] = z],
         DOMAIN z = DOMAIN work[w], z.task = work[w].task, z.at = work[w].at
  PROVE  WorkFits'
<1>1. /\ DOMAIN work[w] = {"pc", "task", "at", "before", "inc", "alone"}
      /\ work[w].task \in posted
      /\ work[w].at \in 1..Len(Plan(work[w].task.msg))
  BY DEF DailyInv, WorkFits
<1> QED
  BY <1>1, WorkKeeps

\* The recalculation goes on as it was, or is told that it is not alone.
LEMMA DisturbedFits ==
  ASSUME DailyInv, posted' = posted, recalc' = recalc \/ recalc' = Disturbed
  PROVE  RecalcFits'
<1>1. CASE recalc' = recalc
  BY <1>1 DEF DailyInv, RecalcFits, Journal
<1>2. CASE recalc # Idle /\ recalc' = [recalc EXCEPT !.alone = FALSE]
  <2>1. /\ DOMAIN recalc' = DOMAIN recalc
        /\ recalc'.left = recalc.left /\ recalc'.read = recalc.read
        /\ recalc'.pc = recalc.pc /\ recalc'.entry = recalc.entry
    BY <1>2 DEF DailyInv, RecalcFits
  <2> QED
    BY <1>2, <2>1 DEF DailyInv, RecalcFits, Journal
<1> QED
  BY <1>1, <1>2 DEF Disturbed

\* A step that writes rows of the days they are on already, or of a day with a
\* posting.
LEMMA RowsKeep ==
  ASSUME DailyInv, posted' = posted, NEW x \in AllSeries, NEW r, rows' = [rows EXCEPT ![x] = r],
         \A d \in DOMAIN r : d \in DOMAIN rows[x] \/ d \in Days(x)
  PROVE  RowsFit'
<1>1. DOMAIN rows = AllSeries /\ \A y \in AllSeries : DOMAIN rows[y] \subseteq Days(y)
  BY DEF DailyInv, RowsFit, Days
<1>2. \A y \in AllSeries : Days(y)' = Days(y)
  BY DEF Days, PostedDays
<1>3. rows'[x] = r /\ \A y \in AllSeries \ {x} : rows'[y] = rows[y]
  BY <1>1
<1> QED
  BY <1>1, <1>2, <1>3 DEF RowsFit, Days
------------------------------------------------------------------------------
\* A new posting adds days to series, and entries to the journal.
LEMMA PostKeeps ==
  ASSUME DailyInv, NEW m \in Messages, Post(m)
  PROVE  DailyInv'
<1> DEFINE t == [id |-> Cardinality(posted) + 1, msg |-> m]
<1>1. /\ posted' = posted \cup {t} /\ queue' = queue \cup {t} /\ t.msg = m
      /\ rows' = rows /\ work' = work /\ recalc' = recalc
  BY DEF Post
<1> HIDE DEF t
<1>2. PostingsFit'
  BY <1>1 DEF DailyInv, PostingsFit
<1>3. WorkFits'
  BY <1>1 DEF DailyInv, WorkFits
<1>4. \A x \in AllSeries : Days(x) \subseteq Days(x)'
  BY <1>1 DEF Days, PostedDays
<1>5. RowsFit'
  BY <1>1, <1>4 DEF DailyInv, RowsFit, Days
<1>6. Journal \subseteq Journal'
  BY <1>1 DEF Journal
<1>7. RecalcFits'
  BY <1>1, <1>6 DEF DailyInv, RecalcFits
<1> QED
  BY <1>2, <1>3, <1>5, <1>7 DEF DailyInv

\* A task is dispatched.
LEMMA DeliverKeeps ==
  ASSUME DailyInv, NEW w \in Worker, NEW t \in queue, Deliver(w, t)
  PROVE  DailyInv'
<1> DEFINE z == Started(t, Opens(t.msg))
<1>1. /\ work' = [work EXCEPT ![w] = z] /\ posted' = posted /\ queue' = queue \ {t}
      /\ rows' = rows /\ recalc' = Disturbed
  BY DEF Deliver
<1>2. t \in posted /\ t.msg \in Messages
  BY DEF DailyInv, PostingsFit
<1>3. 1 \in 1..Len(Plan(t.msg))
  BY <1>2, PlanLength
<1>4. /\ DOMAIN z = {"pc", "task", "at", "before", "inc", "alone"} /\ z.task = t /\ z.at = 1
  BY DEF Started
<1> HIDE DEF z
<1>5. WorkFits'
  BY <1>1, <1>2, <1>3, <1>4, WorkKeeps
<1>6. PostingsFit' /\ RowsFit'
  BY <1>1 DEF DailyInv, PostingsFit, RowsFit, Days, PostedDays
<1>7. RecalcFits'
  BY <1>1, DisturbedFits
<1> QED
  BY <1>5, <1>6, <1>7 DEF DailyInv

\* The UPDATE of the day's row.
LEMMA UpdateKeeps ==
  ASSUME DailyInv, NEW w \in Worker, Update(w)
  PROVE  DailyInv'
<1> DEFINE x == Call(w).series
           d == Call(w).day
           n == Call(w).net
           g == Call(w).gross
<1>0. work[w] # Idle
  BY DEF Update, Idle
<1>1. x \in AllSeries /\ posted' = posted /\ queue' = queue /\ recalc' = recalc
  BY <1>0, CallFits DEF Update
<1>2. PostingsFit' /\ RecalcFits'
  BY <1>1, DisturbedFits DEF DailyInv, PostingsFit
<1>3. CASE d \in DOMAIN rows[x]
  <2> DEFINE z == [work[w] EXCEPT !.pc = "after", !.inc = n]
  <2>1. work' = [work EXCEPT ![w] = z]
    BY <1>3 DEF Update
  <2>2. DOMAIN z = DOMAIN work[w] /\ z.task = work[w].task /\ z.at = work[w].at
    BY <1>0 DEF DailyInv, WorkFits
  <2>3. \E q : rows' = [rows EXCEPT ![x] = q] /\ DOMAIN q = DOMAIN rows[x]
    <3>1. rows' = [rows EXCEPT ![x][d] = Plus(@, n, g)]
      BY <1>3 DEF Update
    <3>2. DOMAIN rows = AllSeries
      BY DEF DailyInv, RowsFit, Days
    <3> HIDE DEF x, d, n, g
    <3>3. rows' = [rows EXCEPT ![x] = rows'[x]]
      BY <1>1, <3>1, <3>2
    <3>4. DOMAIN rows'[x] = DOMAIN rows[x]
      BY <1>1, <3>1, <3>2
    <3> QED
      BY <3>3, <3>4
  <2> HIDE DEF z
  <2>4. WorkFits'
    BY <1>0, <1>1, <2>1, <2>2, PlaceKeeps
  <2>5. RowsFit'
    BY <1>1, <2>3, RowsKeep
  <2> QED
    BY <1>2, <2>4, <2>5 DEF DailyInv
<1>4. CASE d \notin DOMAIN rows[x]
  <2> DEFINE z == [work[w] EXCEPT !.pc = "read"]
  <2>1. work' = [work EXCEPT ![w] = z] /\ rows' = rows
    BY <1>4 DEF Update
  <2>2. DOMAIN z = DOMAIN work[w] /\ z.task = work[w].task /\ z.at = work[w].at
    BY <1>0 DEF DailyInv, WorkFits
  <2> HIDE DEF z
  <2>3. WorkFits'
    BY <1>0, <1>1, <2>1, <2>2, PlaceKeeps
  <2>4. RowsFit'
    BY <1>1, <2>1 DEF DailyInv, RowsFit, Days, PostedDays
  <2> QED
    BY <1>2, <2>3, <2>4 DEF DailyInv
<1> QED
  BY <1>3, <1>4

\* The balance before the day is read.
LEMMA ReadKeeps ==
  ASSUME DailyInv, NEW w \in Worker, ReadBefore(w)
  PROVE  DailyInv'
<1>0. work[w] # Idle
  BY DEF ReadBefore, Idle
<1>1. /\ posted' = posted /\ queue' = queue /\ rows' = rows /\ recalc' = recalc
      /\ \E n : work' = [work EXCEPT ![w] = [work[w] EXCEPT !.pc = "insert", !.before = n]]
  BY DEF ReadBefore
<1>2. PICK n : work' = [work EXCEPT ![w] = [work[w] EXCEPT !.pc = "insert", !.before = n]]
  BY <1>1
<1> DEFINE z == [work[w] EXCEPT !.pc = "insert", !.before = n]
<1>3. DOMAIN z = DOMAIN work[w] /\ z.task = work[w].task /\ z.at = work[w].at
  BY <1>0 DEF DailyInv, WorkFits
<1>4. work' = [work EXCEPT ![w] = z]
  BY <1>2
<1> HIDE DEF z
<1>5. WorkFits'
  BY <1>0, <1>1, <1>3, <1>4, PlaceKeeps
<1>6. PostingsFit' /\ RowsFit' /\ RecalcFits'
  BY <1>1, DisturbedFits DEF DailyInv, PostingsFit, RowsFit, Days, PostedDays
<1> QED
  BY <1>5, <1>6 DEF DailyInv

\* The day's row is inserted.
LEMMA InsertKeeps ==
  ASSUME DailyInv, NEW w \in Worker, Insert(w)
  PROVE  DailyInv'
<1> DEFINE x == Call(w).series
           d == Call(w).day
           row == NewRow(Call(w).net, Call(w).gross, work[w].before)
           r == [e \in DOMAIN rows[x] \cup {d} |-> IF e = d THEN row ELSE rows[x][e]]
           z == [work[w] EXCEPT !.pc = "after", !.inc = Call(w).net + work[w].before]
<1>0. work[w] # Idle
  BY DEF Insert, Idle
<1>1. x \in AllSeries /\ d \in Days(x)
  BY <1>0, CallFits
<1>2. /\ posted' = posted /\ queue' = queue /\ recalc' = recalc
      /\ work' = [work EXCEPT ![w] = z] /\ rows' = [rows EXCEPT ![x] = r]
  BY DEF Insert
<1>3. DOMAIN z = DOMAIN work[w] /\ z.task = work[w].task /\ z.at = work[w].at
  BY <1>0 DEF DailyInv, WorkFits
<1>4. DOMAIN r = DOMAIN rows[x] \cup {d}
  OBVIOUS
<1> HIDE DEF x, d, r, z
<1>5. WorkFits'
  BY <1>0, <1>2, <1>3, PlaceKeeps
<1>6. RowsFit'
  BY <1>1, <1>2, <1>4, RowsKeep
<1>7. PostingsFit' /\ RecalcFits'
  BY <1>2, DisturbedFits DEF DailyInv, PostingsFit
<1> QED
  BY <1>5, <1>6, <1>7 DEF DailyInv
\* The later days are raised, and the worker goes on.
LEMMA AfterKeeps ==
  ASSUME DailyInv, NEW w \in Worker, After(w)
  PROVE  DailyInv'
<1> DEFINE x == Call(w).series
           later == {e \in DOMAIN rows[x] : e > Call(w).day}
           r == rows'[x]
           m == work[w].task.msg
<1>0. work[w] # Idle
  <2>1. work[w].pc = "after"
    BY DEF After
  <2> QED
    BY <2>1 DEF Idle
<1>1. x \in AllSeries
  BY <1>0, CallFits
<1>2. /\ posted' = posted /\ queue' = queue /\ recalc' = recalc
      /\ work' = [work EXCEPT ![w] = Continue(w)] /\ rows' = [rows EXCEPT ![x] = r]
      /\ DOMAIN r = DOMAIN rows[x]
  <2>1. posted' = posted /\ queue' = queue /\ recalc' = recalc
    BY DEF After
  <2>2. work' = [work EXCEPT ![w] = Continue(w)]
    BY Zenon DEF After
  <2>3. rows' = [rows EXCEPT ![x] = r] /\ DOMAIN r = DOMAIN rows[x]
    <3>1. rows' = [rows EXCEPT ![x] = [e \in DOMAIN rows[x] |->
                     IF e \in later THEN [rows[x][e] EXCEPT !.balance = @ + work[w].inc]
                                     ELSE rows[x][e]]]
      BY Zenon DEF After
    <3>2. DOMAIN rows = AllSeries
      BY DEF DailyInv, RowsFit, Days
    <3> HIDE DEF x, later
    <3>3. rows' = [rows EXCEPT ![x] = r]
      BY <1>1, <3>1, <3>2
    <3>4. DOMAIN r = DOMAIN rows[x]
      BY <1>1, <3>1, <3>2
    <3> QED
      BY <3>3, <3>4
  <2> QED
    BY <2>1, <2>2, <2>3
<1>3. /\ DOMAIN work[w] = {"pc", "task", "at", "before", "inc", "alone"}
      /\ work[w].task \in posted /\ m \in Messages /\ work[w].at \in 1..Len(Plan(m))
  BY <1>0 DEF DailyInv, WorkFits, PostingsFit
<1>4. Len(Plan(m)) \in Nat
  BY <1>3, PlanLength
<1>5. /\ DOMAIN Continue(w) = DOMAIN work[w] /\ Continue(w).task = work[w].task
      /\ Continue(w).at \in 1..Len(Plan(m))
  <2>1. CASE work[w].at < Len(Plan(m))
    BY <1>3, <1>4, <2>1 DEF Continue
  <2>2. CASE ~(work[w].at < Len(Plan(m)))
    BY <1>3, <2>2 DEF Continue
  <2> QED
    BY <2>1, <2>2
<1> HIDE DEF x, later, r
<1>7. WorkFits'
  BY <1>2, <1>3, <1>5, WorkKeeps
<1>8. RowsFit'
  BY <1>1, <1>2, RowsKeep
<1>9. PostingsFit' /\ RecalcFits'
  BY <1>2, DisturbedFits DEF DailyInv, PostingsFit
<1> QED
  BY <1>7, <1>8, <1>9 DEF DailyInv

\* A call ends: the task is answered, or goes back to the queue.
LEMMA EndKeeps ==
  ASSUME DailyInv, NEW w \in Worker, Answer(w) \/ Conflict(w) \/ Fail(w)
  PROVE  DailyInv'
<1>0. work[w] # Idle
  BY DEF Answer, Conflict, Fail, Idle
<1>1. /\ posted' = posted /\ queue' \subseteq queue \cup {work[w].task} /\ rows' = rows
      /\ recalc' = recalc /\ work' = [work EXCEPT ![w] = Idle]
  BY DEF Answer, Conflict, Fail
<1>2. work[w].task \in posted
  BY <1>0 DEF DailyInv, WorkFits
<1>3. WorkFits'
  BY <1>1, WorkKeeps
<1>4. PostingsFit' /\ RowsFit' /\ RecalcFits'
  BY <1>1, <1>2, DisturbedFits DEF DailyInv, PostingsFit, RowsFit, Days, PostedDays
<1> QED
  BY <1>3, <1>4 DEF DailyInv

\* A resync writes the days with postings.
LEMMA ResyncKeeps ==
  ASSUME DailyInv, NEW table, NEW startsLast \in BOOLEAN, Resync(table, startsLast)
  PROVE  DailyInv'
<1>1. /\ posted' = posted /\ queue' = queue /\ work' = work /\ recalc' = Disturbed
      /\ DOMAIN rows' = AllSeries
      /\ \A x \in AllSeries : \/ rows'[x] = rows[x]
                               \/ rows'[x] = StartBalances(Upsert(x, rows[x]))
                               \/ rows'[x] = Upsert(x, StartBalances(rows[x]))
  BY DEF Resync
<1>2. \A old : DOMAIN StartBalances(old) = DOMAIN old
  BY DEF StartBalances
<1>3. \A x, old : DOMAIN Upsert(x, old) = DOMAIN old \cup PostedDays("local", x)
  BY DEF Upsert
<1>4. ASSUME NEW x \in AllSeries PROVE DOMAIN rows'[x] \subseteq Days(x)
  <2>1. DOMAIN rows[x] \subseteq Days(x)
    BY DEF DailyInv, RowsFit, Days
  <2>2. \/ DOMAIN rows'[x] = DOMAIN rows[x]
        \/ DOMAIN rows'[x] = DOMAIN rows[x] \cup PostedDays("local", x)
    <3>1. CASE rows'[x] = rows[x]
      BY <3>1
    <3>2. CASE rows'[x] = StartBalances(Upsert(x, rows[x]))
      BY <1>2, <1>3, <3>2
    <3>3. CASE rows'[x] = Upsert(x, StartBalances(rows[x]))
      BY <1>2, <1>3, <3>3
    <3> QED
      BY <1>1, <3>1, <3>2, <3>3
  <2> QED
    BY <2>1, <2>2 DEF Days
<1>5. RowsFit'
  BY <1>1, <1>4 DEF RowsFit, Days, PostedDays
<1>6. PostingsFit' /\ WorkFits' /\ RecalcFits'
  BY <1>1, DisturbedFits DEF DailyInv, PostingsFit, WorkFits
<1> QED
  BY <1>5, <1>6 DEF DailyInv

\* What a recalculation does besides its rows.
LEMMA RecalcKeeps ==
  ASSUME DailyInv, posted' = posted, queue' = queue, work' = work, RowsFit', RecalcFits'
  PROVE  DailyInv'
  BY DEF DailyInv, PostingsFit, WorkFits

\* The steps of a recalculation.
LEMMA RecalculationKeeps ==
  ASSUME DailyInv, Recalculate
  PROVE  DailyInv'
<1>a. posted' = posted /\ queue' = queue /\ work' = work
  BY DEF Recalculate, RecalculateDaily, NextEntry, Clear, AddEntry, SaveEntry, Recalculated,
         RecalculationFails
<1>b. RecalcFits /\ Journal' = Journal /\ \A x \in AllSeries : Days(x)' = Days(x)
  BY <1>a DEF DailyInv, Journal, Days, PostedDays
<1>c. ASSUME rows' = rows PROVE RowsFit'
  BY <1>b, <1>c DEF DailyInv, RowsFit, Days
<1>d. ASSUME NEW p \in {"next", "add", "save"}, recalc.pc # "next", recalc # Idle,
             recalc' = [recalc EXCEPT !.pc = p]
      PROVE  RecalcFits'
  <2>1. DOMAIN recalc' = DOMAIN recalc /\ recalc'.left = recalc.left /\ recalc'.read = recalc.read
        /\ recalc'.entry = recalc.entry
    BY <1>b, <1>d DEF RecalcFits
  <2> QED
    BY <1>b, <1>d, <2>1 DEF RecalcFits
<1>e. ASSUME recalc' = Idle PROVE RecalcFits'
  BY <1>e DEF RecalcFits
<1>f. ASSUME recalc.pc # "next", recalc # Idle PROVE recalc.entry \in Journal
  BY <1>b, <1>f DEF RecalcFits
<1>1. CASE RecalculateDaily
  <2>1. RecalcFits'
    BY <1>1, <1>b DEF RecalculateDaily, RecalcFits
  <2> QED
    BY <1>1, <1>a, <1>c, <2>1, RecalcKeeps DEF RecalculateDaily
<1>2. ASSUME recalc # Idle, NEW j \in recalc.left, NextEntry(j) PROVE DailyInv'
  <2> DEFINE p == IF DayKey(j) \in recalc.cleared THEN "add" ELSE "clear"
  <2>1. recalc' = [recalc EXCEPT !.pc = p, !.left = @ \ {j}, !.read = @ \cup {j}, !.entry = j]
    BY <1>2 DEF NextEntry
  <2> HIDE DEF p
  <2>2. DOMAIN recalc = {"pc", "left", "read", "cleared", "entry", "alone"}
    BY <1>b, <1>2 DEF RecalcFits
  <2>3. /\ DOMAIN recalc' = DOMAIN recalc /\ recalc'.left = recalc.left \ {j}
        /\ recalc'.read = recalc.read \cup {j} /\ recalc'.entry = j
    BY <2>1, <2>2
  <2>4. RecalcFits'
    BY <1>b, <1>2, <2>2, <2>3 DEF RecalcFits
  <2> QED
    BY <1>2, <1>a, <1>c, <2>4, RecalcKeeps DEF NextEntry
<1>3. CASE Clear
  <2> DEFINE d == recalc.entry.task.msg.day
             hit == {x \in AllSeries : /\ x[1] = "account" /\ x[2] = EntryOf(recalc.entry).account
                                       /\ d \in DOMAIN rows[x]}
  <2>1. /\ rows' = [x \in AllSeries |-> IF x \in hit
                      THEN [rows[x] EXCEPT ![d] = Cleared(@)] ELSE rows[x]]
        /\ recalc.pc = "clear" /\ recalc # Idle
        /\ recalc' = [recalc EXCEPT !.pc = "add", !.cleared = @ \cup {DayKey(recalc.entry)}]
    <3>1. recalc.pc = "clear"
      BY <1>3 DEF Clear
    <3>2. recalc # Idle
      BY <3>1 DEF Idle
    <3>3. rows' = [x \in AllSeries |-> IF x \in hit
                    THEN [rows[x] EXCEPT ![d] = Cleared(@)] ELSE rows[x]]
      BY <1>3, Zenon DEF Clear
    <3>4. recalc' = [recalc EXCEPT !.pc = "add", !.cleared = @ \cup {DayKey(recalc.entry)}]
      BY <1>3, Zenon DEF Clear
    <3> QED
      BY <3>1, <3>2, <3>3, <3>4
  <2> HIDE DEF hit, d
  <2>2. RowsFit'
    <3>1. ASSUME NEW x \in AllSeries PROVE DOMAIN rows'[x] = DOMAIN rows[x]
      BY <2>1
    <3>2. DOMAIN rows' = AllSeries
      BY <2>1
    <3> QED
      BY <1>b, <3>1, <3>2 DEF DailyInv, RowsFit, Days
  <2>3. RecalcFits'
    <3>1. DOMAIN recalc = {"pc", "left", "read", "cleared", "entry", "alone"}
      BY <1>b, <2>1 DEF RecalcFits
    <3>2. /\ DOMAIN recalc' = DOMAIN recalc /\ recalc'.left = recalc.left
          /\ recalc'.read = recalc.read /\ recalc'.entry = recalc.entry
      BY <2>1, <3>1
    <3> QED
      BY <1>b, <2>1, <3>1, <3>2 DEF RecalcFits
  <2> QED
    BY <1>a, <2>2, <2>3, RecalcKeeps
<1>4. CASE AddEntry
  <2> DEFINE x == AccountSeries(recalc.entry)
             d == recalc.entry.task.msg.day
             n == EntryOf(recalc.entry).amount
             g == EntryOf(recalc.entry).gross
  <2>0. recalc.pc = "add" /\ recalc # Idle
    <3>1. recalc.pc = "add"
      BY <1>4 DEF AddEntry
    <3> QED
      BY <3>1 DEF Idle
  <2>1. x \in AllSeries
    BY <1>f, <2>0, EntryFits DEF Days
  <2>2. CASE d \in DOMAIN rows[x]
    <3>1. /\ rows' = [rows EXCEPT ![x][d] = Plus(@, n, g)]
          /\ recalc' = [recalc EXCEPT !.pc = "next"]
      BY <1>4, <2>2 DEF AddEntry
    <3>2. RecalcFits'
      BY <1>d, <2>0, <3>1
    <3>3. DOMAIN rows = AllSeries
      BY DEF DailyInv, RowsFit, Days
    <3> HIDE DEF x, d, n, g
    <3>4. DOMAIN rows' = AllSeries /\ \A y \in AllSeries : DOMAIN rows'[y] = DOMAIN rows[y]
      BY <2>1, <3>1, <3>3
    <3>5. RowsFit'
      BY <1>b, <3>4 DEF DailyInv, RowsFit, Days
    <3> QED
      BY <1>a, <3>2, <3>5, RecalcKeeps
  <2>3. CASE d \notin DOMAIN rows[x]
    <3>1. rows' = rows /\ recalc' = [recalc EXCEPT !.pc = "save"]
      BY <1>4, <2>3 DEF AddEntry
    <3> QED
      BY <1>a, <1>c, <1>d, <2>0, <3>1, RecalcKeeps
  <2> QED
    BY <2>2, <2>3
<1>5. CASE SaveEntry
  <2> DEFINE x == AccountSeries(recalc.entry)
             d == recalc.entry.task.msg.day
             row == NewRow(EntryOf(recalc.entry).amount, EntryOf(recalc.entry).gross, 0)
             r == [e \in DOMAIN rows[x] \cup {d} |-> IF e = d THEN row ELSE rows[x][e]]
  <2>0. recalc.pc = "save" /\ recalc # Idle
    BY <1>5 DEF SaveEntry, Idle
  <2>1. x \in AllSeries /\ d \in Days(x)
    BY <1>f, <2>0, EntryFits DEF Days
  <2>2. CASE d \in DOMAIN rows[x]
    <3>1. recalc' = Idle /\ rows' = rows
      BY <1>5, <2>2 DEF SaveEntry
    <3> QED
      BY <1>a, <1>c, <1>e, <3>1, RecalcKeeps
  <2>3. CASE d \notin DOMAIN rows[x]
    <3>1. rows' = [rows EXCEPT ![x] = r] /\ recalc' = [recalc EXCEPT !.pc = "next"]
      BY <1>5, <2>3 DEF SaveEntry
    <3>2. DOMAIN r = DOMAIN rows[x] \cup {d}
      OBVIOUS
    <3> HIDE DEF x, d, r
    <3>3. RowsFit'
      BY <1>a, <2>1, <3>1, <3>2, RowsKeep
    <3>4. RecalcFits'
      BY <1>d, <2>0, <3>1
    <3> QED
      BY <1>a, <3>3, <3>4, RecalcKeeps
  <2> QED
    BY <2>2, <2>3
<1>6. CASE Recalculated \/ RecalculationFails
  <2>1. rows' = rows /\ recalc' = Idle
    BY <1>6 DEF Recalculated, RecalculationFails
  <2> QED
    BY <1>a, <1>c, <1>e, <2>1, RecalcKeeps
<1> QED
  BY <1>1, <1>2, <1>3, <1>4, <1>5, <1>6 DEF Recalculate
------------------------------------------------------------------------------
\* DailyInv is inductive.
LEMMA StepKeeps ==
  ASSUME DailyInv, [Next]_vars
  PROVE  DailyInv'
<1>u. CASE UNCHANGED vars
  BY <1>u DEF vars, DailyInv, PostingsFit, WorkFits, RowsFit, RecalcFits, Days, PostedDays, Journal
<1>1. ASSUME NEW m \in Messages, Post(m) PROVE DailyInv'
  BY <1>1, PostKeeps
<1>2. ASSUME NEW w \in Worker, Process(w) \/ Fail(w) PROVE DailyInv'
  BY <1>2, DeliverKeeps, UpdateKeeps, ReadKeeps, InsertKeeps, AfterKeeps, EndKeeps DEF Process
<1>3. ASSUME NEW table \in {"key", "account"}, NEW startsLast \in BOOLEAN, Resync(table, startsLast)
      PROVE  DailyInv'
  BY <1>3, ResyncKeeps
<1>4. CASE Recalculate
  BY <1>4, RecalculationKeeps
<1> QED
  BY <1>u, <1>1, <1>2, <1>3, <1>4 DEF Next

\* Whatever is posted, repeated, resynced and recalculated, a series has rows
\* only on days with postings to it, and every call and entry that is in work
\* belongs to a posting.
THEOREM Invariance == Spec => []DailyInv
<1>1. Init => DailyInv
  <2> SUFFICES ASSUME Init PROVE DailyInv
    OBVIOUS
  <2>1. PostingsFit
    BY DEF Init, PostingsFit
  <2>2. WorkFits
    BY DEF Init, WorkFits
  <2>3. RowsFit
    BY DEF Init, RowsFit
  <2>4. RecalcFits
    BY DEF Init, RecalcFits
  <2> QED
    BY <2>1, <2>2, <2>3, <2>4 DEF DailyInv
<1> QED
  BY <1>1, StepKeeps, PTL DEF Spec

\* The latest of the earlier days is one of them, and none is later.
LEMMA MaxEarlier ==
  ASSUME NEW S, S \subseteq Int, S # {}, NEW d \in Int, \A e \in S : e < d
  PROVE  Max(S) \in S /\ \A y \in S : Max(S) >= y
<1> DEFINE T == {n \in Nat : d - n \in S}
           R == {r \in Nat \X Nat : r[1] < r[2]}
<1>1. PICK e \in S : TRUE
  OBVIOUS
<1>2. d - e \in Nat /\ d - (d - e) = e
  BY <1>1
<1>3. T \subseteq Nat /\ T # {}
  BY <1>1, <1>2
<1>4. IsWellFoundedOn(OpToRel(<, Nat), Nat)
  BY NatLessThanWellFounded
<1>5. PICK n \in T : \A k \in T : ~(<<k, n>> \in OpToRel(<, Nat))
  <2> HIDE DEF T
  <2> QED
    BY <1>3, <1>4, WFMin
<1>6. \A k \in T : n <= k
  <2>1. \A k, m \in Nat : k < m => <<k, m>> \in OpToRel(<, Nat)
    BY DEF OpToRel
  <2>2. ASSUME NEW k \in T PROVE ~(k < n)
    BY <1>3, <1>5, <2>1
  <2> QED
    BY <1>3, <2>2
<1>7. \A y \in S : d - n >= y
  <2> SUFFICES ASSUME NEW y \in S PROVE d - n >= y
    OBVIOUS
  <2>1. d - y \in Nat /\ d - (d - y) = y
    OBVIOUS
  <2>2. d - y \in T
    BY <2>1
  <2>3. n <= d - y
    BY <1>6, <2>2
  <2> QED
    BY <1>3, <2>3
<1>8. d - n \in S
  OBVIOUS
<1> QED
  BY <1>7, <1>8 DEF Max

\* A resync of a series writes the row of a day in Asia/Jakarta, but for the
\* start balance, and leaves that of another day.
LEMMA UpsertIs ==
  ASSUME NEW x, NEW old, NEW d \in DOMAIN Upsert(x, old)
  PROVE  /\ DOMAIN Upsert(x, old) = DOMAIN old \cup PostedDays("local", x)
         /\ d \notin PostedDays("local", x) => Upsert(x, old)[d] = old[d]
         /\ d \in PostedDays("local", x) =>
              /\ DOMAIN Upsert(x, old)[d] = {"net", "gross", "balance", "start"}
              /\ Upsert(x, old)[d].balance = PrefixSum("local", x, d)
              /\ Upsert(x, old)[d].net = SumOf("net", "local", x, d)
              /\ Upsert(x, old)[d].gross = SumOf("gross", "local", x, d)
  BY DEF Upsert, RowOfDay

\* lag() writes start balances only, and start balances that fit the rows.
LEMMA StartsAre ==
  ASSUME NEW old, DOMAIN old \subseteq Int,
         \A d \in DOMAIN old : DOMAIN old[d] = {"net", "gross", "balance", "start"}
  PROVE  /\ DOMAIN StartBalances(old) = DOMAIN old
         /\ \A d \in DOMAIN old : /\ StartBalances(old)[d].net = old[d].net
                                  /\ StartBalances(old)[d].gross = old[d].gross
                                  /\ StartBalances(old)[d].balance = old[d].balance
         /\ StartBalances(StartBalances(old)) = StartBalances(old)
<1> DEFINE D == DOMAIN old
           new == StartBalances(old)
           earlier(d) == {e \in D : e < d}
           start(d) == IF earlier(d) = {} THEN 0 ELSE old[Max(earlier(d))].balance
<1>1. new = [d \in D |-> [old[d] EXCEPT !.start = start(d)]]
  BY Zenon DEF StartBalances
<1> HIDE DEF new, start
<1>2. DOMAIN new = D
  BY <1>1
<1>3. ASSUME NEW d \in D
      PROVE  /\ DOMAIN new[d] = {"net", "gross", "balance", "start"} /\ new[d].start = start(d)
             /\ new[d].net = old[d].net /\ new[d].gross = old[d].gross
             /\ new[d].balance = old[d].balance
  <2> DEFINE row == old[d]
  <2>1. new[d] = [row EXCEPT !.start = start(d)] /\ DOMAIN row = {"net", "gross", "balance", "start"}
    BY <1>1
  <2> HIDE DEF row
  <2>2. /\ DOMAIN new[d] = {"net", "gross", "balance", "start"} /\ new[d].start = start(d)
        /\ new[d].net = row.net /\ new[d].gross = row.gross /\ new[d].balance = row.balance
    BY <2>1
  <2> QED
    BY <2>2 DEF row
<1> DEFINE E(d) == {e \in DOMAIN new : e < d}
           again(d) == IF E(d) = {} THEN 0 ELSE new[Max(E(d))].balance
<1>4. ASSUME NEW d \in D PROVE again(d) = start(d)
  <2>1. E(d) = earlier(d)
    BY <1>2
  <2>2. CASE earlier(d) = {}
    BY <2>1, <2>2 DEF start
  <2>3. CASE earlier(d) # {}
    <3> DEFINE m == Max(earlier(d))
    <3>1. m \in D
      <4>1. earlier(d) \subseteq Int /\ d \in Int /\ \A e \in earlier(d) : e < d
        OBVIOUS
      <4>2. earlier(d) \subseteq D
        OBVIOUS
      <4> HIDE DEF earlier
      <4> QED
        BY <2>3, <4>1, <4>2, MaxEarlier
    <3> HIDE DEF m
    <3>2. new[m].balance = old[m].balance
      BY <1>3, <3>1
    <3>3. start(d) = old[m].balance /\ again(d) = new[m].balance
      BY <2>1, <2>3 DEF start, m
    <3> QED
      BY <3>2, <3>3
  <2> QED
    BY <2>2, <2>3
<1>5. StartBalances(new) = [d \in DOMAIN new |-> [new[d] EXCEPT !.start = again(d)]]
  BY Zenon DEF StartBalances
<1> HIDE DEF again, E
<1>6. ASSUME NEW d \in D PROVE [new[d] EXCEPT !.start = again(d)] = new[d]
  <2> DEFINE row == new[d]
             v == again(d)
  <2>1. DOMAIN row = {"net", "gross", "balance", "start"} /\ row.start = v
    BY <1>3, <1>4
  <2>2. \E f : row = [f EXCEPT !.start = start(d)]
    BY <1>1
  <2>3. v = start(d)
    BY <1>4
  <2> HIDE DEF row, v, start
  <2>4. [row EXCEPT !.start = v] = row
    BY <2>1, <2>2, <2>3
  <2> QED
    BY <2>4 DEF row, v
<1>7. StartBalances(new) = new
  <2>1. new = [d \in D |-> new[d]]
    BY <1>1, <1>2
  <2>2. StartBalances(new) = [d \in D |-> new[d]]
    BY <1>2, <1>5, <1>6
  <2> QED
    BY <2>1, <2>2, Zenon
<1> QED
  BY <1>2, <1>3, <1>7 DEF new
------------------------------------------------------------------------------
\* A quotient is less than the number of quotients.
LEMMA Quotient ==
  ASSUME NEW n \in Nat \ {0}, NEW w \in Nat \ {0}, NEW i \in Nat, i < n * w
  PROVE  i \div w \in 0..(n - 1)
<1> DEFINE q == i \div w
<1>1. q \in Nat
  OBVIOUS
<1>2. CASE q >= n
  <2>1. q - n \in Nat /\ (q - n) * w \in Nat
    BY <1>1, <1>2, Times
  <2>2. (q - n) * w = q * w - n * w
    BY <1>1
  <2>3. q * w <= i
    OBVIOUS
  <2>4. q * w \in Nat /\ n * w \in Nat
    BY <1>1, Times
  <2> HIDE DEF q
  <2> QED
    BY <2>1, <2>2, <2>3, <2>4
<1> QED
  BY <1>1, <1>2

\* What a position of a plan holds.
LEMMA PlanRow ==
  ASSUME NEW m \in Messages, NEW j \in 1..Len(Plan(m))
  PROVE  /\ Plan(m)[j].series \in SeriesOf(m) /\ Plan(m)[j].series \in AllSeries
         /\ Plan(m)[j].day = m.day /\ m.day \in Day
         /\ Plan(m)[j].net \in Int /\ Plan(m)[j].gross \in Int
         /\ \A c \in Column : Plan(m)[j][c] \in Int
         /\ DOMAIN Plan(m)[j] = {"series", "day", "net", "gross"}
<1> DEFINE n == Len(m.entries)
           w == Width(m)
           i == ((j - 1) \div w) + 1
<1>1. w \in Nat \ {0} /\ n \in Nat \ {0} /\ Len(Plan(m)) = n * w
  BY PlanLength, MessageAssumption
<1>2. j - 1 \in Nat /\ j - 1 < n * w
  <2>1. n * w \in Nat
    BY <1>1, Times
  <2> HIDE DEF n, w
  <2> QED
    BY <1>1, <2>1
<1>3. i \in 1..n
  <2>1. (j - 1) \div w \in 0..(n - 1)
    <3> DEFINE k == j - 1
    <3> HIDE DEF n, w, k
    <3>1. k \in Nat /\ k < n * w
      BY <1>2 DEF k
    <3> QED
      BY <1>1, <3>1, Quotient DEF k
  <2> HIDE DEF n, w
  <2> QED
    BY <1>1, <2>1
<1>4. m.entries[i].amount \in Int /\ Turnover(m.entries[i]) \in Int
  <2>1. m.entries[i].amount \in Int /\ m.entries[i].gross \in Int
    BY <1>3, MessageAssumption
  <2> QED
    BY <2>1 DEF Turnover
<1>5. /\ Plan(m)[j].net = m.entries[i].amount /\ Plan(m)[j].gross = Turnover(m.entries[i])
      /\ DOMAIN Plan(m)[j] = {"series", "day", "net", "gross"}
  BY <1>1 DEF Plan
<1>6. Plan(m)[j].series \in SeriesOf(m)
  BY DEF SeriesOf
<1> QED
  BY <1>4, <1>5, <1>6, PlanLength, MessageAssumption DEF AllSeries, Column

------------------------------------------------------------------------------
\* What message m adds to column c of series x, position by position, and with the first
\* k positions of its plan.
AmountIn(c, x, m) == [j \in 1..Len(Plan(m)) |->
                     IF Plan(m)[j].series = x THEN Plan(m)[j][c] ELSE 0]
Share(c, x, m, k) == Total(AmountIn(c, x, m), 1..k)
All(m) == Len(Plan(m))

\* The length of a plan.
LEMMA AllNat == \A m \in Messages : All(m) \in Nat
  BY PlanLength DEF All

\* A balance is a sum of the column "net".
LEMMA NetIsColumn == "net" \in Column /\ "gross" \in Column
  BY DEF Column

\* The amounts of a plan are integers.
LEMMA AmountsInt ==
  ASSUME NEW m \in Messages, NEW c \in Column, NEW x
  PROVE  /\ All(m) \in Nat
         /\ \A j \in 1..All(m) : AmountIn(c, x, m)[j] \in Int
<1>1. All(m) \in Nat
  BY PlanLength DEF All
<1> QED
  BY <1>1, PlanRow DEF AmountIn, All

\* So is what a part of a plan adds to a series,
LEMMA ShareInt ==
  ASSUME NEW m \in Messages, NEW c \in Column, NEW x, NEW k \in 0..All(m)
  PROVE  Share(c, x, m, k) \in Int
<1>1. All(m) \in Nat /\ \A j \in 1..All(m) : AmountIn(c, x, m)[j] \in Int
  BY AmountsInt
<1>2. IsFiniteSet(1..k) /\ \A j \in 1..k : AmountIn(c, x, m)[j] \in Int
  BY <1>1, FS_Interval
<1> QED
  BY <1>2, TotalType DEF Share

\* and no part adds nothing.
LEMMA ShareNone == \A c, x, m : Share(c, x, m, 0) = 0
<1> SUFFICES ASSUME NEW c, NEW x, NEW m PROVE Share(c, x, m, 0) = 0
  OBVIOUS
<1>1. 1..0 = {}
  OBVIOUS
<1> QED
  BY <1>1, TotalEmpty DEF Share

\* The next position of the plan adds its amount to its series.
LEMMA ShareNext ==
  ASSUME NEW m \in Messages, NEW c \in Column, NEW x, NEW j \in 1..All(m)
  PROVE  /\ Share(c, x, m, j - 1) \in Int /\ Share(c, x, m, j) \in Int
         /\ Share(c, x, m, j) = Share(c, x, m, j - 1)
                             + (IF Plan(m)[j].series = x THEN Plan(m)[j][c] ELSE 0)
<1> DEFINE g == AmountIn(c, x, m)
           S == 1..(j - 1)
           T == 1..j
<1>1. All(m) \in Nat /\ \A i \in 1..All(m) : g[i] \in Int
  BY AmountsInt
<1>2. T = S \cup {j} /\ j \notin S /\ IsFiniteSet(S) /\ \A i \in T : g[i] \in Int
  <2>1. j \in Int /\ j - 1 \in Int /\ 1 <= j /\ j <= All(m)
    BY <1>1
  <2>2. IsFiniteSet(S)
    BY <2>1, FS_Interval
  <2>3. T \subseteq 1..All(m)
    BY <1>1, <2>1
  <2> HIDE DEF g
  <2> QED
    BY <1>1, <2>1, <2>2, <2>3
<1>3. g[j] = IF Plan(m)[j].series = x THEN Plan(m)[j][c] ELSE 0
  BY DEF AmountIn, All
<1>4. Total(g, S) \in Int /\ g[j] \in Int /\ Total(g, T) = Total(g, S) + g[j]
  <2> HIDE DEF g, S, T
  <2> QED
    BY <1>2, TotalMore
<1>5. Share(c, x, m, j) = Total(g, T) /\ Share(c, x, m, j - 1) = Total(g, S)
  BY DEF Share
<1> HIDE DEF g, S, T
<1> QED
  BY <1>3, <1>4, <1>5

\* Nothing reaches a series that the positions leave out.
LEMMA ShareZero ==
  ASSUME NEW m \in Messages, NEW c \in Column, NEW x, NEW k \in 0..All(m),
         \A j \in 1..k : Plan(m)[j].series # x
  PROVE  Share(c, x, m, k) = 0
<1>0. All(m) \in Nat
  BY AllNat
<1>1. k \in Int /\ IsFiniteSet(1..k)
  BY <1>0, FS_Interval
<1>2. \A j \in 1..k : AmountIn(c, x, m)[j] = 0
  BY <1>0 DEF AmountIn, All
<1> QED
  BY <1>1, <1>2, TotalZero DEF Share

\* A whole message: what the journal's view of a series counts for it.
LEMMA AmountsAre ==
  ASSUME NEW t, t.msg \in Messages, NEW c \in Column, NEW x
  PROVE  Amounts(c, x, t) = Share(c, x, t.msg, All(t.msg)) /\ Amounts(c, x, t) \in Int
<1> DEFINE m == t.msg
           S == 1..Len(Plan(m))
           g == AmountIn(c, x, m)
           part(j) == IF Plan(m)[j].series = x THEN Plan(m)[j][c] ELSE 0
           it == CHOOSE it : it = [s \in SUBSET S |-> IF s = {} THEN 0 ELSE
                      part(CHOOSE j \in s : TRUE) + it[s \ {CHOOSE j \in s : TRUE}]]
<1>1. Amounts(c, x, t) = it[S]
  BY DEF Amounts, MapThenSumSet, MapThenFoldSet
<1>2. ASSUME NEW s \in SUBSET S, s # {} PROVE part(Pick(s)) = g[Pick(s)]
  <2>1. Pick(s) \in S
    BY <1>2, PickIn
  <2> QED
    BY <2>1 DEF AmountIn
<1>0. All(m) \in Nat /\ IsFiniteSet(S)
  BY AllNat, FS_Interval DEF All
<1>3. PICK f : Sums(f, g, SUBSET S)
  <2> HIDE DEF S, g
  <2> QED
    BY <1>0, SumsExists
<1>4. f = [s \in SUBSET S |-> IF s = {} THEN 0 ELSE
             part(CHOOSE j \in s : TRUE) + f[s \ {CHOOSE j \in s : TRUE}]]
  <2> HIDE DEF g, part, S
  <2> QED
    BY <1>2, <1>3 DEF Sums, Pick
<1>5. it = [s \in SUBSET S |-> IF s = {} THEN 0 ELSE
             part(CHOOSE j \in s : TRUE) + it[s \ {CHOOSE j \in s : TRUE}]]
  <2> DEFINE Rec(v) == [s \in SUBSET S |-> IF s = {} THEN 0 ELSE
        part(CHOOSE j \in s : TRUE) + v[s \ {CHOOSE j \in s : TRUE}]]
  <2>1. f = Rec(f) /\ it = CHOOSE v : v = Rec(v)
    BY <1>4, Zenon
  <2> HIDE DEF Rec, it
  <2>2. it = Rec(it)
    BY <2>1, Zenon
  <2> QED
    BY <2>2, Zenon DEF Rec
<1> HIDE DEF it, g, part, S
<1>6. Sums(it, g, SUBSET S)
  BY <1>2, <1>5 DEF Sums, Pick
<1>7. Total(g, S) = it[S]
  BY <1>0, <1>6, TotalIs
<1>8. Share(c, x, m, All(m)) = Total(g, S)
  BY DEF Share, All, g, S
<1>9. Share(c, x, m, All(m)) \in Int
  BY <1>0, ShareInt
<1> QED
  BY <1>1, <1>7, <1>8, <1>9
------------------------------------------------------------------------------
\* Finitely many postings, of the messages there are.
Posted(P) == IsFiniteSet(P) /\ \A t \in P : t.msg \in Messages

\* What the postings add to series x on day d, and up to day d.
OnDay(c, by, P, x, d) == [t \in P |-> IF t.msg[by] = d THEN Share(c, x, t.msg, All(t.msg)) ELSE 0]
UpTo(by, P, x, d) == [t \in P |-> IF t.msg[by] <= d THEN Share("net", x, t.msg, All(t.msg)) ELSE 0]

\* What a message adds to a series, and its day.
LEMMA WholeInt ==
  ASSUME NEW m \in Messages, NEW c \in Column, NEW x
  PROVE  Share(c, x, m, All(m)) \in Int /\ \A by \in Cut : m[by] \in Day /\ m[by] \in Int
<1>1. All(m) \in Nat
  BY AllNat
<1>2. All(m) \in 0..All(m)
  BY <1>1
<1> QED
  BY <1>2, ShareInt, MessageAssumption DEF Day, Cut

\* The sum over the postings of a day, as a total over all postings.
LEMMA SumOfIs ==
  ASSUME Posted(posted), NEW c \in Column, NEW by \in Cut, NEW x, NEW d
  PROVE  SumOf(c, by, x, d) = Total(OnDay(c, by, posted, x, d), posted) /\ SumOf(c, by, x, d) \in Int
<1> DEFINE S == {t \in posted : t.msg[by] = d}
           g == OnDay(c, by, posted, x, d)
           it == CHOOSE it : it = [s \in SUBSET S |-> IF s = {} THEN 0 ELSE
                      Amounts(c, x, CHOOSE t \in s : TRUE) + it[s \ {CHOOSE t \in s : TRUE}]]
<1>1. SumOf(c, by, x, d) = it[S]
  BY DEF SumOf, MapThenSumSet, MapThenFoldSet
<1>2. ASSUME NEW s \in SUBSET S, s # {} PROVE Amounts(c, x, Pick(s)) = g[Pick(s)]
  <2>1. Pick(s) \in S
    BY <1>2, PickIn
  <2>2. Pick(s).msg \in Messages
    BY <2>1 DEF Posted
  <2> QED
    BY <2>1, <2>2, AmountsAre DEF OnDay
<1>0. IsFiniteSet(S) /\ IsFiniteSet(posted)
  BY FS_Subset DEF Posted
<1>3. PICK f : Sums(f, g, SUBSET S)
  <2> HIDE DEF S, g
  <2> QED
    BY <1>0, SumsExists
<1>4. f = [s \in SUBSET S |-> IF s = {} THEN 0 ELSE
             Amounts(c, x, CHOOSE t \in s : TRUE) + f[s \ {CHOOSE t \in s : TRUE}]]
  <2> HIDE DEF g, S
  <2> QED
    BY <1>2, <1>3 DEF Sums, Pick
<1>5. it = [s \in SUBSET S |-> IF s = {} THEN 0 ELSE
             Amounts(c, x, CHOOSE t \in s : TRUE) + it[s \ {CHOOSE t \in s : TRUE}]]
  <2> DEFINE Rec(v) == [s \in SUBSET S |-> IF s = {} THEN 0 ELSE
        Amounts(c, x, CHOOSE t \in s : TRUE) + v[s \ {CHOOSE t \in s : TRUE}]]
  <2>1. f = Rec(f) /\ it = CHOOSE v : v = Rec(v)
    BY <1>4, Zenon
  <2> HIDE DEF Rec, it
  <2>2. it = Rec(it)
    BY <2>1, Zenon
  <2> QED
    BY <2>2, Zenon DEF Rec
<1>8. /\ \A t \in posted : g[t] \in Int
      /\ S \in SUBSET posted /\ \A t \in posted \ S : g[t] = 0
  BY WholeInt DEF OnDay, Posted
<1> HIDE DEF it, g, S
<1>6. Sums(it, g, SUBSET S)
  BY <1>2, <1>5 DEF Sums, Pick
<1>7. Total(g, S) = it[S]
  BY <1>0, <1>6, TotalIs
<1>9. Total(g, posted) = Total(g, S)
  BY <1>0, <1>8, TotalRestrict
<1>10. Total(g, posted) \in Int
  BY <1>0, <1>8, TotalType
<1> QED
  BY <1>1, <1>7, <1>9, <1>10 DEF g

\* The sum over the days, as a total over all postings up to the day.
LEMMA PrefixSumIs ==
  ASSUME Posted(posted), NEW by \in Cut, NEW x, NEW d \in Nat
  PROVE  PrefixSum(by, x, d) = Total(UpTo(by, posted, x, d), posted) /\ PrefixSum(by, x, d) \in Int
<1> DEFINE S == 1..d
           a == [e \in S |-> SumOf("net", by, x, e)]
           it == CHOOSE it : it = [s \in SUBSET S |-> IF s = {} THEN 0 ELSE
                      SumOf("net", by, x, CHOOSE e \in s : TRUE) + it[s \ {CHOOSE e \in s : TRUE}]]
<1>1. PrefixSum(by, x, d) = it[S]
  BY DEF PrefixSum, MapThenSumSet, MapThenFoldSet
<1>2. ASSUME NEW s \in SUBSET S, s # {} PROVE SumOf("net", by, x, Pick(s)) = a[Pick(s)]
  <2>1. Pick(s) \in S
    BY <1>2, PickIn
  <2> QED
    BY <2>1
<1>0. IsFiniteSet(S) /\ IsFiniteSet(posted) /\ "net" \in Column
  BY FS_Interval DEF Posted, Column
<1>3. PICK f : Sums(f, a, SUBSET S)
  <2> HIDE DEF S, a
  <2> QED
    BY <1>0, SumsExists
<1>4. f = [s \in SUBSET S |-> IF s = {} THEN 0 ELSE
             SumOf("net", by, x, CHOOSE t \in s : TRUE) + f[s \ {CHOOSE t \in s : TRUE}]]
  <2> HIDE DEF a, S
  <2> QED
    BY <1>2, <1>3 DEF Sums, Pick
<1>5. it = [s \in SUBSET S |-> IF s = {} THEN 0 ELSE
             SumOf("net", by, x, CHOOSE t \in s : TRUE) + it[s \ {CHOOSE t \in s : TRUE}]]
  <2> DEFINE Rec(v) == [s \in SUBSET S |-> IF s = {} THEN 0 ELSE
        SumOf("net", by, x, CHOOSE t \in s : TRUE) + v[s \ {CHOOSE t \in s : TRUE}]]
  <2>1. f = Rec(f) /\ it = CHOOSE v : v = Rec(v)
    BY <1>4, Zenon
  <2> HIDE DEF Rec, it
  <2>2. it = Rec(it)
    BY <2>1, Zenon
  <2> QED
    BY <2>2, Zenon DEF Rec
<1>6. Total(a, S) = it[S]
  <2> HIDE DEF it, a, S
  <2>1. Sums(it, a, SUBSET S)
    BY <1>2, <1>5 DEF Sums, Pick
  <2> QED
    BY <1>0, <2>1, TotalIs
<1> DEFINE b == UpTo(by, posted, x, d)
           g == [e \in S |-> OnDay("net", by, posted, x, e)]
           c == [t \in posted |-> [e \in S |-> OnDay("net", by, posted, x, e)[t]]]
<1>7. Table(S, posted, g, c, a, b)
  <2>1. ASSUME NEW e \in S, NEW t \in posted
        PROVE  g[e][t] \in Int /\ c[t][e] = g[e][t]
    BY <1>0, WholeInt DEF OnDay, Posted
  <2>2. ASSUME NEW e \in S PROVE a[e] = Total(g[e], posted)
    BY <1>0, SumOfIs
  <2>3. ASSUME NEW t \in posted PROVE b[t] = Total(c[t], S)
    <3> DEFINE h == c[t]
               v == Share("net", x, t.msg, All(t.msg))
    <3>1. v \in Int /\ t.msg[by] \in Day /\ t.msg[by] \in Nat \ {0}
      BY <1>0, WholeInt DEF Posted, Day
    <3>2. \A e \in S : h[e] = IF t.msg[by] = e THEN v ELSE 0
      BY DEF OnDay
    <3>3. CASE t.msg[by] <= d
      <4>1. b[t] = v /\ t.msg[by] \in S
        BY <3>1, <3>3 DEF UpTo
      <4>2. h[t.msg[by]] = v /\ \A e \in S \ {t.msg[by]} : h[e] = 0
        BY <3>2, <4>1
      <4> HIDE DEF h, S, b, v
      <4>3. Total(h, S) = h[t.msg[by]]
        BY <1>0, <3>1, <4>1, <4>2, TotalOne
      <4> QED
        BY <4>1, <4>2, <4>3 DEF h
    <3>4. CASE ~(t.msg[by] <= d)
      <4>1. b[t] = 0 /\ t.msg[by] \notin S
        BY <3>1, <3>4 DEF UpTo
      <4>2. \A e \in S : h[e] = 0
        BY <3>2, <4>1
      <4> HIDE DEF h, S, b, v
      <4>3. Total(h, S) = 0
        BY <1>0, <4>2, TotalZero
      <4> QED
        BY <4>1, <4>3 DEF h
    <3> QED
      BY <3>3, <3>4
  <2> HIDE DEF S, a, b, g, c
  <2> QED
    BY <2>1, <2>2, <2>3 DEF Table
<1>8. Total(a, S) = Total(b, posted)
  <2> HIDE DEF S, a, b, g, c
  <2> QED
    BY <1>0, <1>7, TotalSwap
<1>9. Total(a, S) \in Int
  <2>1. \A e \in S : a[e] \in Int
    BY <1>0, SumOfIs
  <2> HIDE DEF S, a
  <2> QED
    BY <1>0, <2>1, TotalType
<1> HIDE DEF it, a, S, b
<1> QED
  BY <1>1, <1>6, <1>8, <1>9 DEF b
------------------------------------------------------------------------------
\* Tables r and R: R has the given row on day d of series x, and is r elsewhere.
Wrote(r, R, x, d, row) ==
  /\ DOMAIN R = AllSeries
  /\ DOMAIN R[x] = DOMAIN r[x] \cup {d} /\ R[x][d] = row
  /\ \A e \in DOMAIN r[x] \ {d} : R[x][e] = r[x][e]
  /\ \A y \in AllSeries \ {x} : R[y] = r[y]

\* The UPDATE of a row.
LEMMA Increments ==
  ASSUME NEW r, DOMAIN r = AllSeries, NEW x \in AllSeries, NEW d \in DOMAIN r[x],
         NEW n, NEW g, NEW R, R = [r EXCEPT ![x][d] = Plus(@, n, g)]
  PROVE  Wrote(r, R, x, d, Plus(r[x][d], n, g))
<1> DEFINE new == Plus(r[x][d], n, g)
<1>0. R = [r EXCEPT ![x][d] = new]
  OBVIOUS
<1> HIDE DEF new
<1>1. DOMAIN R = AllSeries /\ \A y \in AllSeries \ {x} : R[y] = r[y]
  BY <1>0
<1>2. DOMAIN R[x] = DOMAIN r[x] /\ \A e \in DOMAIN r[x] \ {d} : R[x][e] = r[x][e]
  BY <1>0
<1>3. R[x][d] = new
  BY <1>0
<1> QED
  BY <1>1, <1>2, <1>3 DEF Wrote, new

\* The insert of a row.
LEMMA Inserts ==
  ASSUME NEW r, DOMAIN r = AllSeries, NEW x \in AllSeries, NEW d, NEW row, NEW R,
         R = [r EXCEPT ![x] = [e \in DOMAIN @ \cup {d} |-> IF e = d THEN row ELSE @[e]]]
  PROVE  Wrote(r, R, x, d, row)
  BY DEF Wrote

\* What a worker's call is.
LEMMA CallIs ==
  ASSUME DailyInv, NEW w \in Worker, work[w] # Idle
  PROVE  /\ work[w].task \in posted /\ work[w].task.msg \in Messages
         /\ work[w].at \in 1..All(work[w].task.msg)
         /\ Call(w) = Plan(work[w].task.msg)[work[w].at]
         /\ Call(w).series \in SeriesOf(work[w].task.msg) /\ Call(w).series \in AllSeries
         /\ Call(w).day = work[w].task.msg.day /\ Call(w).day \in Day
         /\ Call(w).net \in Int /\ Call(w).gross \in Int /\ \A c \in Column : Call(w)[c] \in Int
         /\ DOMAIN work[w] = {"pc", "task", "at", "before", "inc", "alone"}
<1> DEFINE t == work[w].task
           j == work[w].at
<1>1. t \in posted /\ t.msg \in Messages /\ j \in 1..Len(Plan(t.msg))
  BY DEF DailyInv, WorkFits, PostingsFit
<1>2. Call(w) = Plan(t.msg)[j] /\ DOMAIN work[w] = {"pc", "task", "at", "before", "inc", "alone"}
  BY DEF Call, DailyInv, WorkFits
<1> HIDE DEF t, j
<1>3. /\ Call(w).series \in SeriesOf(t.msg) /\ Call(w).series \in AllSeries
      /\ Call(w).day = t.msg.day /\ Call(w).day \in Day
      /\ Call(w).net \in Int /\ Call(w).gross \in Int /\ \A c \in Column : Call(w)[c] \in Int
  BY <1>1, <1>2, PlanRow
<1> QED
  BY <1>1, <1>2, <1>3 DEF t, j, All
------------------------------------------------------------------------------
\* The invariant of TypeOK: postings are finite and numbered.
Numbered(P) == /\ Posted(P)
               /\ \A t \in P : t \in Task /\ t.id \in 1..Cardinality(P)
RowsTyped(r) == \A x \in AllSeries : \A d \in DOMAIN r[x] : r[x][d] \in Row
CallTyped(z) == z # Idle => z.before \in Int /\ z.inc \in Int
RecalcTyped(rc) == rc = Idle \/ rc.pc \in {"next", "clear", "add", "save"}
TypeInv == /\ DailyInv
           /\ Numbered(posted)
           /\ RowsTyped(rows)
           /\ \A w \in Worker : CallTyped(work[w])
           /\ RecalcTyped(recalc)
           /\ events \in 0..MaxEvents

\* All that TypeInv says beyond DailyInv, of the variables that a step changed.
TypedMore == /\ Numbered(posted)
             /\ RowsTyped(rows)
             /\ \A w \in Worker : CallTyped(work[w])
             /\ RecalcTyped(recalc)
             /\ events \in 0..MaxEvents

\* The two halves of TypeInv.
LEMMA TypeInvIs == TypeInv <=> DailyInv /\ TypedMore
  BY DEF TypeInv, TypedMore

\* Rows stay rows,
LEMMA WroteTyped ==
  ASSUME NEW r, RowsTyped(r), NEW x \in AllSeries, NEW d, NEW row \in Row, NEW R,
         Wrote(r, R, x, d, row)
  PROVE  RowsTyped(R)
<1> SUFFICES ASSUME NEW y \in AllSeries, NEW e \in DOMAIN R[y] PROVE R[y][e] \in Row
  BY DEF RowsTyped
<1>1. CASE y # x
  BY <1>1 DEF Wrote, RowsTyped
<1>2. CASE y = x /\ e = d
  BY <1>2 DEF Wrote
<1>3. CASE y = x /\ e # d
  BY <1>3 DEF Wrote, RowsTyped
<1> QED
  BY <1>1, <1>2, <1>3

\* also when an amount is added.
LEMMA PlusTyped ==
  ASSUME NEW row \in Row, NEW n \in Int, NEW g \in Int
  PROVE  /\ Plus(row, n, g) \in Row
         /\ Plus(row, n, g).net = row.net + n /\ Plus(row, n, g).gross = row.gross + g
         /\ Plus(row, n, g).balance = row.balance + n
<1> DEFINE u == [row EXCEPT !.net = @ + n]
           v == [u EXCEPT !.gross = @ + g]
           z == [v EXCEPT !.balance = @ + n]
<1>1. row.net + n \in Int /\ row.gross + g \in Int /\ row.balance + n \in Int
  BY DEF Row
<1>2. u \in Row /\ u.net = row.net + n /\ u.gross = row.gross /\ u.balance = row.balance
  BY <1>1 DEF Row
<1>5. z = Plus(row, n, g)
  BY Zenon DEF Plus
<1> HIDE DEF u
<1>3. /\ v \in Row /\ v.net = row.net + n /\ v.gross = row.gross + g /\ v.balance = row.balance
  BY <1>1, <1>2 DEF Row
<1> HIDE DEF v
<1>4. /\ z \in Row /\ z.net = row.net + n /\ z.gross = row.gross + g /\ z.balance = row.balance + n
  BY <1>1, <1>3 DEF Row
<1> QED
  BY <1>4, <1>5

\* A new row is one,
LEMMA NewRowTyped ==
  ASSUME NEW n \in Int, NEW g \in Int, NEW before \in Int
  PROVE  /\ NewRow(n, g, before) \in Row
         /\ NewRow(n, g, before).net = n /\ NewRow(n, g, before).gross = g
         /\ NewRow(n, g, before).balance = n + before
  BY DEF NewRow, Row

\* and so is an empty one.
LEMMA ClearedTyped ==
  ASSUME NEW row \in Row
  PROVE  Cleared(row) \in Row /\ Cleared(row).net = 0 /\ Cleared(row).gross = 0
<1> DEFINE u == [row EXCEPT !.net = 0]
           v == [u EXCEPT !.gross = 0]
           z == [v EXCEPT !.balance = 0]
<1>1. u \in Row /\ u.net = 0
  BY DEF Row
<1>2. z = Cleared(row)
  BY Zenon DEF Cleared
<1> HIDE DEF u
<1>3. v \in Row /\ v.net = 0 /\ v.gross = 0
  BY <1>1 DEF Row
<1> HIDE DEF v
<1>4. z \in Row /\ z.net = 0 /\ z.gross = 0
  BY <1>3 DEF Row
<1> QED
  BY <1>2, <1>4

\* A step of one worker that leaves its numbers or writes integers.
LEMMA CallStays ==
  ASSUME DailyInv, \A v \in Worker : CallTyped(work[v]), NEW w \in Worker, NEW z, CallTyped(z),
         work' = [work EXCEPT ![w] = z]
  PROVE  \A v \in Worker : CallTyped(work'[v])
<1>1. DOMAIN work = Worker
  BY DEF DailyInv, WorkFits
<1>2. work'[w] = z /\ \A v \in Worker \ {w} : work'[v] = work[v]
  BY <1>1
<1> QED
  BY <1>2

\* A posting gets the next number.
LEMMA PostTyped ==
  ASSUME TypeInv, NEW m \in Messages, Post(m)
  PROVE  TypedMore'
<1> DEFINE n == Cardinality(posted)
           t == [id |-> n + 1, msg |-> m]
<1>1. /\ n + 1 <= MaxMessages /\ posted' = posted \cup {t}
      /\ rows' = rows /\ work' = work /\ recalc' = recalc /\ events' = events
  BY DEF Post
<1>2. IsFiniteSet(posted) /\ n \in Nat
  BY FS_CardinalityType DEF TypeInv, Numbered, Posted
<1>3. t \notin posted
  BY <1>2 DEF TypeInv, Numbered
<1>4. IsFiniteSet(posted') /\ Cardinality(posted') = n + 1
  <2> HIDE DEF t
  <2> QED
    BY <1>1, <1>2, <1>3, FS_AddElement
<1>5. t \in Task /\ t.msg \in Messages /\ t.id = n + 1
  BY <1>1, <1>2, BoundAssumption DEF Task
<1> HIDE DEF t
<1>6. Posted(posted')
  BY <1>1, <1>4, <1>5 DEF Posted, TypeInv, Numbered
<1>7. \A u \in posted' : u \in Task /\ u.id \in 1..Cardinality(posted')
  <2>1. \A u \in posted : u \in Task /\ u.id \in 1..n
    BY DEF TypeInv, Numbered
  <2> HIDE DEF n
  <2> QED
    BY <1>1, <1>2, <1>4, <1>5, <2>1
<1>8. Numbered(posted')
  BY <1>6, <1>7 DEF Numbered
<1> QED
  BY <1>1, <1>8 DEF TypeInv, TypedMore
------------------------------------------------------------------------------
\* Days are numbers, and the latest earlier row of a series is one of its rows.
LEMMA DaysAre ==
  ASSUME DailyInv, NEW x \in AllSeries
  PROVE  DOMAIN rows[x] \subseteq Day /\ DOMAIN rows[x] \subseteq Int
<1>1. Days(x) \subseteq Day
  BY MessageAssumption DEF Days, PostedDays, DailyInv, PostingsFit
<1> QED
  BY <1>1 DEF DailyInv, RowsFit, Day, Days

\* The latest earlier row is one.
LEMMA LatestIs ==
  ASSUME DailyInv, NEW x \in AllSeries, NEW d \in Int, HasEarlier(x, d)
  PROVE  /\ Latest(x, d) \in DOMAIN rows[x] /\ Latest(x, d) < d
         /\ \A e \in DOMAIN rows[x] : e < d => e <= Latest(x, d)
<1> DEFINE S == {e \in DOMAIN rows[x] : e < d}
<1>1. S \subseteq Int /\ S # {} /\ \A e \in S : e < d
  BY DaysAre DEF HasEarlier
<1>2. Latest(x, d) = Max(S)
  BY DEF Latest
<1> HIDE DEF S
<1>3. Latest(x, d) \in S /\ \A e \in S : Latest(x, d) >= e
  BY <1>1, <1>2, MaxEarlier
<1>4. \A e \in S : e <= Latest(x, d)
  BY <1>1, <1>3
<1> QED
  BY <1>3, <1>4 DEF S

\* What a transaction of updateDailyBalance reads.
LEMMA BeforeInt ==
  ASSUME TypeInv, NEW x \in AllSeries, NEW d \in Int
  PROVE  (IF HasEarlier(x, d) THEN rows[x][Latest(x, d)].balance ELSE 0) \in Int
<1>1. CASE HasEarlier(x, d)
  <2>1. rows[x][Latest(x, d)] \in Row
    BY <1>1, LatestIs DEF TypeInv, RowsTyped
  <2> QED
    BY <1>1, <2>1 DEF Row
<1> QED
  BY <1>1

\* A call starts with numbers.
LEMMA DeliverTyped ==
  ASSUME TypeInv, NEW w \in Worker, NEW t \in queue, Deliver(w, t)
  PROVE  TypedMore'
<1>1. /\ work' = [work EXCEPT ![w] = Started(t, Opens(t.msg))] /\ posted' = posted
      /\ rows' = rows /\ recalc' = Disturbed /\ events' = events
  BY DEF Deliver
<1>2. CallTyped(Started(t, Opens(t.msg)))
  BY DEF CallTyped, Started
<1>3. \A v \in Worker : CallTyped(work'[v])
  BY <1>1, <1>2, CallStays DEF TypeInv
<1>4. RecalcTyped(recalc')
  BY <1>1 DEF RecalcTyped, Disturbed, TypeInv, DailyInv, RecalcFits
<1> QED
  BY <1>1, <1>3, <1>4 DEF TypeInv, TypedMore

\* The UPDATE that a call begins with.
LEMMA UpdateTyped ==
  ASSUME TypeInv, NEW w \in Worker, Update(w)
  PROVE  TypedMore'
<1> DEFINE x == Call(w).series
           d == Call(w).day
           n == Call(w).net
           g == Call(w).gross
<1>0. work[w] # Idle /\ posted' = posted /\ recalc' = recalc /\ events' = events
  BY DEF Update, Idle
<1>1. x \in AllSeries /\ n \in Int /\ g \in Int /\ DOMAIN work[w] = {"pc", "task", "at", "before", "inc", "alone"}
  BY <1>0, CallIs DEF TypeInv
<1>2. CallTyped(work[w])
  BY DEF TypeInv
<1>3. CASE d \in DOMAIN rows[x]
  <2> DEFINE z == [work[w] EXCEPT !.pc = "after", !.inc = n]
             row == rows[x][d]
  <2>1. work' = [work EXCEPT ![w] = z]
    BY <1>3 DEF Update
  <2>2. CallTyped(z)
    BY <1>0, <1>1, <1>2 DEF CallTyped
  <2>3. rows' = [rows EXCEPT ![x][d] = Plus(@, n, g)]
    BY <1>3 DEF Update
  <2>4. row \in Row /\ DOMAIN rows = AllSeries
    BY <1>1, <1>3 DEF TypeInv, RowsTyped, DailyInv, RowsFit
  <2> HIDE DEF x, d, n, g, z
  <2>5. Wrote(rows, rows', x, d, Plus(row, n, g))
    BY <1>1, <1>3, <2>3, <2>4, Increments
  <2>6. RowsTyped(rows')
    <3>1. Plus(row, n, g) \in Row /\ RowsTyped(rows)
      BY <1>1, <2>4, PlusTyped DEF TypeInv
    <3> HIDE DEF row
    <3> QED
      BY <1>1, <2>5, <3>1, WroteTyped
  <2>7. \A v \in Worker : CallTyped(work'[v])
    BY <2>1, <2>2, CallStays DEF TypeInv
  <2> QED
    BY <1>0, <2>6, <2>7 DEF TypeInv, TypedMore
<1>4. CASE d \notin DOMAIN rows[x]
  <2> DEFINE z == [work[w] EXCEPT !.pc = "read"]
  <2>1. work' = [work EXCEPT ![w] = z] /\ rows' = rows
    BY <1>4 DEF Update
  <2>2. CallTyped(z)
    BY <1>0, <1>1, <1>2 DEF CallTyped
  <2>3. \A v \in Worker : CallTyped(work'[v])
    BY <2>1, <2>2, CallStays DEF TypeInv
  <2> QED
    BY <1>0, <2>1, <2>3 DEF TypeInv, TypedMore
<1> QED
  BY <1>3, <1>4

\* The row read before an insert.
LEMMA ReadTyped ==
  ASSUME TypeInv, NEW w \in Worker, ReadBefore(w)
  PROVE  TypedMore'
<1> DEFINE x == Call(w).series
           d == Call(w).day
           b == IF HasEarlier(x, d) THEN rows[x][Latest(x, d)].balance ELSE 0
           z == [work[w] EXCEPT !.pc = "insert", !.before = b]
<1>0. /\ work[w] # Idle /\ posted' = posted /\ recalc' = recalc /\ events' = events
      /\ rows' = rows /\ work' = [work EXCEPT ![w] = z]
  <2>1. work[w].pc = "read"
    BY DEF ReadBefore
  <2>2. work[w] # Idle
    BY <2>1 DEF Idle
  <2> QED
    BY <2>2, Zenon DEF ReadBefore
<1>1. /\ x \in AllSeries /\ d \in Day
      /\ DOMAIN work[w] = {"pc", "task", "at", "before", "inc", "alone"}
  BY <1>0, CallIs DEF TypeInv
<1>2. b \in Int
  BY <1>1, BeforeInt DEF Day
<1> HIDE DEF b
<1>3. CallTyped(z)
  BY <1>0, <1>1, <1>2 DEF CallTyped, TypeInv
<1>4. \A v \in Worker : CallTyped(work'[v])
  BY <1>0, <1>3, CallStays DEF TypeInv
<1> QED
  BY <1>0, <1>4 DEF TypeInv, TypedMore

\* The insert of a row.
LEMMA InsertTyped ==
  ASSUME TypeInv, NEW w \in Worker, Insert(w)
  PROVE  TypedMore'
<1> DEFINE x == Call(w).series
           d == Call(w).day
           n == Call(w).net
           b == work[w].before
           row == NewRow(n, Call(w).gross, b)
           z == [work[w] EXCEPT !.pc = "after", !.inc = n + b]
<1>0. /\ work[w] # Idle /\ posted' = posted /\ recalc' = recalc /\ events' = events
      /\ work' = [work EXCEPT ![w] = z]
      /\ rows' = [rows EXCEPT ![x] = [e \in DOMAIN @ \cup {d} |-> IF e = d THEN row ELSE @[e]]]
  <2>1. work[w].pc = "insert"
    BY DEF Insert
  <2>2. work[w] # Idle
    BY <2>1 DEF Idle
  <2> QED
    BY <2>2, Zenon DEF Insert
<1>1. /\ x \in AllSeries /\ n \in Int /\ Call(w).gross \in Int
      /\ DOMAIN work[w] = {"pc", "task", "at", "before", "inc", "alone"}
  BY <1>0, CallIs DEF TypeInv
<1>2. b \in Int /\ work[w].inc \in Int
  BY <1>0 DEF TypeInv, CallTyped
<1>3. CallTyped(z)
  BY <1>0, <1>1, <1>2 DEF CallTyped
<1>4. row \in Row
  BY <1>1, <1>2, NewRowTyped
<1>5. \A v \in Worker : CallTyped(work'[v])
  BY <1>0, <1>3, CallStays DEF TypeInv
<1>6. RowsTyped(rows')
  <2>1. DOMAIN rows = AllSeries /\ RowsTyped(rows)
    BY DEF TypeInv, DailyInv, RowsFit
  <2> HIDE DEF row, x, d
  <2>2. Wrote(rows, rows', x, d, row)
    BY <1>0, <1>1, <2>1, Inserts
  <2> QED
    BY <1>1, <1>4, <2>1, <2>2, WroteTyped
<1> QED
  BY <1>0, <1>5, <1>6 DEF TypeInv, TypedMore
------------------------------------------------------------------------------
\* Tables r and R: the balances of series x after day d are n more in R.
Up(row, n) == [row EXCEPT !.balance = @ + n]
Lifted(r, R, x, d, n) ==
  /\ DOMAIN R = AllSeries /\ DOMAIN R[x] = DOMAIN r[x]
  /\ \A e \in DOMAIN r[x] : R[x][e] = IF e > d THEN Up(r[x][e], n) ELSE r[x][e]
  /\ \A y \in AllSeries \ {x} : R[y] = r[y]

\* A balance that follows is a number,
LEMMA UpTyped ==
  ASSUME NEW row \in Row, NEW n \in Int
  PROVE  /\ Up(row, n) \in Row /\ Up(row, n).net = row.net /\ Up(row, n).gross = row.gross
         /\ Up(row, n).balance = row.balance + n
<1>1. row.balance + n \in Int
  BY DEF Row
<1> QED
  BY <1>1 DEF Row, Up

\* in every row after the day.
LEMMA LiftedTyped ==
  ASSUME NEW r, RowsTyped(r), NEW x \in AllSeries, NEW d, NEW n \in Int, NEW R,
         Lifted(r, R, x, d, n)
  PROVE  RowsTyped(R)
<1> SUFFICES ASSUME NEW y \in AllSeries, NEW e \in DOMAIN R[y] PROVE R[y][e] \in Row
  BY DEF RowsTyped
<1>1. CASE y # x
  BY <1>1 DEF Lifted, RowsTyped
<1>2. CASE y = x
  <2>1. r[x][e] \in Row /\ R[x][e] = IF e > d THEN Up(r[x][e], n) ELSE r[x][e]
    BY <1>2 DEF Lifted, RowsTyped
  <2> QED
    BY <1>2, <2>1, UpTyped
<1> QED
  BY <1>1, <1>2

\* updateAfterIncrement.
LEMMA AfterIs ==
  ASSUME DailyInv, NEW w \in Worker, After(w)
  PROVE  /\ work[w] # Idle /\ work[w].pc = "after"
         /\ work' = [work EXCEPT ![w] = Continue(w)]
         /\ Lifted(rows, rows', Call(w).series, Call(w).day, work[w].inc)
         /\ posted' = posted /\ queue' = queue /\ recalc' = recalc /\ events' = events
<1> DEFINE x == Call(w).series
           d == Call(w).day
           n == work[w].inc
           later == {e \in DOMAIN rows[x] : e > d}
           q == [e \in DOMAIN rows[x] |-> IF e \in later THEN Up(rows[x][e], n) ELSE rows[x][e]]
<1>1. work[w].pc = "after"
  BY DEF After
<1>2. work[w] # Idle
  BY <1>1 DEF Idle
<1>3. x \in AllSeries /\ DOMAIN rows = AllSeries
  BY <1>2, CallIs DEF DailyInv, RowsFit
<1>4. rows' = [rows EXCEPT ![x] = q]
  BY DEF After, Up
<1>5. DOMAIN q = DOMAIN rows[x] /\ \A e \in DOMAIN rows[x] : q[e] = IF e > d THEN Up(rows[x][e], n) ELSE rows[x][e]
  OBVIOUS
<1> HIDE DEF x, d, n, q
<1>6. DOMAIN rows' = AllSeries /\ rows'[x] = q /\ \A y \in AllSeries \ {x} : rows'[y] = rows[y]
  BY <1>3, <1>4
<1>7. Lifted(rows, rows', x, d, n)
  BY <1>5, <1>6 DEF Lifted
<1> QED
  BY <1>1, <1>2, <1>7, Zenon DEF After, x, d, n

\* What a worker does after a call.
LEMMA ContinueIs ==
  ASSUME DailyInv, NEW w \in Worker, work[w] # Idle
  PROVE  /\ DOMAIN Continue(w) = DOMAIN work[w] /\ Continue(w) # Idle
         /\ Continue(w).task = work[w].task
         /\ Continue(w).alone = work[w].alone
         /\ Continue(w).before = work[w].before /\ Continue(w).inc = work[w].inc
         /\ \/ /\ work[w].at < All(work[w].task.msg)
               /\ Continue(w).pc = "update" /\ Continue(w).at = work[w].at + 1
            \/ /\ work[w].at = All(work[w].task.msg)
               /\ Continue(w).pc = "answer" /\ Continue(w).at = work[w].at
<1>1. /\ work[w].at \in 1..All(work[w].task.msg) /\ work[w].task.msg \in Messages
      /\ DOMAIN work[w] = {"pc", "task", "at", "before", "inc", "alone"}
  BY CallIs
<1>2. All(work[w].task.msg) \in Nat
  BY <1>1, AllNat
<1> DEFINE z == work[w]
<1>3. CASE z.at < Len(Plan(z.task.msg))
  <2>1. Continue(w) = [z EXCEPT !.pc = "update", !.at = @ + 1]
    BY <1>3 DEF Continue
  <2> HIDE DEF z
  <2> QED
    BY <1>1, <1>3, <2>1 DEF All, Idle, z
<1>4. CASE ~(z.at < Len(Plan(z.task.msg)))
  <2>1. Continue(w) = [z EXCEPT !.pc = "answer"]
    BY <1>4 DEF Continue
  <2>2. z.at = All(z.task.msg)
    BY <1>1, <1>2, <1>4 DEF All
  <2> HIDE DEF z
  <2>3. Continue(w).pc = "answer"
    BY <1>1, <2>1 DEF z
  <2> QED
    BY <1>1, <2>1, <2>2, <2>3 DEF Idle, z
<1> QED
  BY <1>3, <1>4

\* The later days of a call.
LEMMA AfterTyped ==
  ASSUME TypeInv, NEW w \in Worker, After(w)
  PROVE  TypedMore'
<1>0. DailyInv
  BY DEF TypeInv
<1>1. /\ work[w] # Idle
      /\ work' = [work EXCEPT ![w] = Continue(w)]
      /\ Lifted(rows, rows', Call(w).series, Call(w).day, work[w].inc)
      /\ posted' = posted /\ recalc' = recalc /\ events' = events
  BY <1>0, AfterIs
<1>2. Continue(w).before = work[w].before /\ Continue(w).inc = work[w].inc
  BY <1>0, <1>1, ContinueIs
<1>3. work[w].before \in Int /\ work[w].inc \in Int
  BY <1>1 DEF TypeInv, CallTyped
<1>4. CallTyped(Continue(w))
  BY <1>2, <1>3 DEF CallTyped
<1>5. \A v \in Worker : CallTyped(work'[v])
  <2> DEFINE z == Continue(w)
  <2>1. CallTyped(z) /\ work' = [work EXCEPT ![w] = z] /\ \A v \in Worker : CallTyped(work[v])
    BY <1>1, <1>4 DEF TypeInv
  <2> HIDE DEF z
  <2> QED
    BY <1>0, <2>1, CallStays
<1>6. RowsTyped(rows')
  <2>1. Call(w).series \in AllSeries /\ RowsTyped(rows)
    BY <1>0, <1>1, CallIs DEF TypeInv
  <2> QED
    BY <1>1, <1>3, <2>1, LiftedTyped
<1> QED
  BY <1>1, <1>5, <1>6 DEF TypeInv, TypedMore

\* A call that is refused, answered or lost.
LEMMA EndTyped ==
  ASSUME TypeInv, NEW w \in Worker, Conflict(w) \/ Answer(w) \/ Fail(w)
  PROVE  TypedMore'
<1>1. /\ work' = [work EXCEPT ![w] = Idle] /\ posted' = posted /\ rows' = rows /\ recalc' = recalc
      /\ events' \in 0..MaxEvents
  BY BoundAssumption DEF Conflict, Answer, Fail, TypeInv
<1>2. \A v \in Worker : CallTyped(work'[v])
  <2>1. DailyInv /\ CallTyped(Idle) /\ \A v \in Worker : CallTyped(work[v])
    BY DEF CallTyped, TypeInv
  <2> QED
    BY <1>1, <2>1, CallStays
<1> QED
  BY <1>1, <1>2 DEF TypeInv, TypedMore
------------------------------------------------------------------------------
\* A resync writes numbers.
LEMMA UpsertTyped ==
  ASSUME Posted(posted), NEW x, NEW old, \A d \in DOMAIN old : old[d] \in Row
  PROVE  /\ DOMAIN Upsert(x, old) = DOMAIN old \cup PostedDays("local", x)
         /\ \A d \in DOMAIN Upsert(x, old) : Upsert(x, old)[d] \in Row
<1>0. "local" \in Cut /\ "net" \in Column /\ "gross" \in Column
  BY DEF Cut, Column
<1>1. ASSUME NEW d \in DOMAIN old \cup PostedDays("local", x) PROVE Upsert(x, old)[d] \in Row
  <2>1. CASE d \in PostedDays("local", x)
    <3> DEFINE n == SumOf("net", "local", x, d)
               g == SumOf("gross", "local", x, d)
               b == PrefixSum("local", x, d)
               s == IF d \in DOMAIN old THEN old[d].start ELSE 0
    <3>1. d \in Nat
      BY <2>1, MessageAssumption DEF PostedDays, Posted, Day
    <3>2. n \in Int /\ g \in Int /\ b \in Int
      BY <1>0, <3>1, SumOfIs, PrefixSumIs
    <3>3. s \in Int
      BY DEF Row
    <3>4. Upsert(x, old)[d] = [net |-> n, gross |-> g, balance |-> b, start |-> s]
      BY <2>1 DEF Upsert, RowOfDay
    <3> HIDE DEF n, g, b, s
    <3> QED
      BY <3>2, <3>3, <3>4 DEF Row
  <2>2. CASE d \notin PostedDays("local", x)
    BY <2>2 DEF Upsert
  <2> QED
    BY <2>1, <2>2
<1> QED
  BY <1>1 DEF Upsert

\* So do the start balances by lag().
LEMMA StartTyped ==
  ASSUME NEW old, DOMAIN old \subseteq Int, \A d \in DOMAIN old : old[d] \in Row
  PROVE  /\ DOMAIN StartBalances(old) = DOMAIN old
         /\ \A d \in DOMAIN old : StartBalances(old)[d] \in Row
<1>1. ASSUME NEW d \in DOMAIN old PROVE StartBalances(old)[d] \in Row
  <2> DEFINE S == {e \in DOMAIN old : e < d}
             v == IF S = {} THEN 0 ELSE old[Max(S)].balance
             row == old[d]
  <2>1. v \in Int
    <3>1. CASE S # {}
      <4>1. S \subseteq Int /\ d \in Int /\ \A e \in S : e < d
        OBVIOUS
      <4>2. S \subseteq DOMAIN old
        OBVIOUS
      <4>3. Max(S) \in S
        <5> HIDE DEF S
        <5> QED
          BY <3>1, <4>1, MaxEarlier
      <4>4. old[Max(S)] \in Row
        BY <4>2, <4>3
      <4> QED
        BY <3>1, <4>4 DEF Row
    <3> QED
      BY <3>1
  <2>2. StartBalances(old)[d] = [row EXCEPT !.start = v]
    BY Zenon DEF StartBalances
  <2>3. row \in Row
    OBVIOUS
  <2> HIDE DEF v, row
  <2> QED
    BY <2>1, <2>2, <2>3 DEF Row
<1> QED
  BY <1>1 DEF StartBalances

\* A resync as a whole.
LEMMA ResyncTyped ==
  ASSUME TypeInv, NEW table, NEW startsLast \in BOOLEAN, Resync(table, startsLast)
  PROVE  TypedMore'
<1>1. /\ posted' = posted /\ work' = work /\ recalc' = Disturbed /\ events' = events + 1
      /\ events < MaxEvents
      /\ rows' = [x \in AllSeries |->
                IF x[1] # table THEN rows[x]
                ELSE IF startsLast THEN StartBalances(Upsert(x, rows[x]))
                                   ELSE Upsert(x, StartBalances(rows[x]))]
  BY DEF Resync
<1>2. DailyInv /\ Posted(posted) /\ events \in 0..MaxEvents /\ MaxEvents \in Nat
  BY BoundAssumption DEF TypeInv, Numbered
<1>3. events' \in 0..MaxEvents
  BY <1>1, <1>2
<1>4. RecalcTyped(recalc')
  BY <1>1 DEF RecalcTyped, Disturbed, TypeInv, DailyInv, RecalcFits
<1>5. ASSUME NEW x \in AllSeries PROVE \A d \in DOMAIN rows'[x] : rows'[x][d] \in Row
  <2> DEFINE r == rows[x]
             u == Upsert(x, r)
             s == StartBalances(r)
  <2>1. DOMAIN r \subseteq Int /\ \A d \in DOMAIN r : r[d] \in Row
    BY <1>2, DaysAre DEF TypeInv, RowsTyped
  <2>2. PostedDays("local", x) \subseteq Int
    BY <1>2, MessageAssumption DEF PostedDays, Posted, Day
  <2>3. rows'[x] = IF x[1] # table THEN r ELSE IF startsLast THEN StartBalances(u) ELSE Upsert(x, s)
    BY <1>1
  <2> HIDE DEF r
  <2>4. DOMAIN u \subseteq Int /\ \A d \in DOMAIN u : u[d] \in Row
    BY <1>2, <2>1, <2>2, UpsertTyped
  <2>5. \A d \in DOMAIN s : s[d] \in Row
    BY <2>1, StartTyped
  <2> HIDE DEF u, s
  <2>6. \A d \in DOMAIN StartBalances(u) : StartBalances(u)[d] \in Row
    BY <2>4, StartTyped
  <2>7. \A d \in DOMAIN Upsert(x, s) : Upsert(x, s)[d] \in Row
    BY <1>2, <2>5, UpsertTyped
  <2> QED
    BY <2>1, <2>3, <2>6, <2>7
<1>6. RowsTyped(rows')
  BY <1>5 DEF RowsTyped
<1> QED
  BY <1>1, <1>3, <1>4, <1>6 DEF TypeInv, TypedMore
------------------------------------------------------------------------------
\* The amount of an entry of the journal.
LEMMA EntryIs ==
  ASSUME DailyInv, NEW j \in Journal
  PROVE  /\ EntryOf(j).amount \in Int /\ EntryOf(j).gross \in Int
         /\ AccountSeries(j) \in AllSeries
         /\ j.task.msg.day \in PostedDays("day", AccountSeries(j))
<1>1. PICK t \in posted : j \in {[task |-> t, at |-> i] : i \in 1..Len(t.msg.entries)}
  BY DEF Journal
<1>2. PICK i \in 1..Len(t.msg.entries) : j = [task |-> t, at |-> i]
  BY <1>1
<1>3. j.task = t /\ j.at = i /\ t.msg \in Messages
  BY <1>2 DEF DailyInv, PostingsFit
<1>4. EntryOf(j).amount \in Int /\ EntryOf(j).gross \in Int
  BY <1>3, MessageAssumption DEF EntryOf
<1> QED
  BY <1>4, EntryFits

\* A recalculation, step by step.
LEMMA RecalculationTyped ==
  ASSUME TypeInv, Recalculate
  PROVE  TypedMore'
<1>0. /\ DailyInv /\ RowsTyped(rows) /\ DOMAIN rows = AllSeries
      /\ recalc # Idle => DOMAIN recalc = {"pc", "left", "read", "cleared", "entry", "alone"}
  BY DEF TypeInv, DailyInv, RowsFit, RecalcFits
<1>a. ASSUME posted' = posted, work' = work, events' \in 0..MaxEvents, RecalcTyped(recalc'),
             RowsTyped(rows')
      PROVE  TypedMore'
  BY <1>a DEF TypeInv, TypedMore
<1>b. events \in 0..MaxEvents /\ MaxEvents \in Nat
  BY BoundAssumption DEF TypeInv
<1>1. CASE RecalculateDaily
  BY <1>0, <1>1, <1>a, <1>b DEF RecalculateDaily, RecalcTyped
<1>2. CASE recalc # Idle /\ \E j \in recalc.left : NextEntry(j)
  BY <1>0, <1>2, <1>a, <1>b DEF NextEntry, RecalcTyped
<1>3. CASE Clear
  <2> DEFINE j == recalc.entry
             d == j.task.msg.day
             hit == {x \in AllSeries : /\ x[1] = "account" /\ x[2] = EntryOf(j).account
                                       /\ d \in DOMAIN rows[x]}
             none(x) == [rows[x] EXCEPT ![d] = Cleared(@)]
  <2>1. /\ rows' = [x \in AllSeries |-> IF x \in hit THEN none(x) ELSE rows[x]]
        /\ recalc' = [recalc EXCEPT !.pc = "add", !.cleared = @ \cup {DayKey(j)}]
        /\ recalc.pc = "clear"
    BY <1>3 DEF Clear
  <2>2. RecalcTyped(recalc')
    BY <1>0, <2>1 DEF RecalcTyped, Idle
  <2>3. ASSUME NEW x \in hit, NEW e \in DOMAIN none(x) PROVE none(x)[e] \in Row
    <3> DEFINE row == rows[x][d]
               clear == Cleared(row)
    <3>1. row \in Row
      BY <1>0 DEF RowsTyped
    <3>2. clear \in Row
      BY <3>1, ClearedTyped
    <3>3. none(x)[e] = IF e = d THEN clear ELSE rows[x][e]
      <4> HIDE DEF j
      <4> QED
        OBVIOUS
    <3>4. e \in DOMAIN rows[x]
      OBVIOUS
    <3> HIDE DEF clear, none, row
    <3> QED
      BY <1>0, <3>2, <3>3, <3>4 DEF RowsTyped
  <2> HIDE DEF hit, none
  <2>4. RowsTyped(rows')
    BY <1>0, <2>1, <2>3 DEF RowsTyped
  <2> QED
    BY <1>3, <1>a, <1>b, <2>2, <2>4 DEF Clear
<1>4. CASE AddEntry
  <2> DEFINE j == recalc.entry
             x == AccountSeries(j)
             d == j.task.msg.day
             n == EntryOf(j).amount
             g == EntryOf(j).gross
  <2>0. recalc.pc = "add"
    BY <1>4 DEF AddEntry
  <2>1. recalc.pc = "add" /\ recalc # Idle
    BY <2>0 DEF Idle
  <2>2. j \in Journal
    BY <2>1 DEF TypeInv, DailyInv, RecalcFits
  <2>3. x \in AllSeries /\ n \in Int /\ g \in Int
    BY <1>0, <2>2, EntryIs
  <2>4. RecalcTyped(recalc')
    <3>1. recalc' = [recalc EXCEPT !.pc = "next"] \/ recalc' = [recalc EXCEPT !.pc = "save"]
      BY <1>4 DEF AddEntry
    <3> QED
      BY <1>0, <2>1, <3>1 DEF RecalcTyped
  <2>5. RowsTyped(rows')
    <3>1. CASE d \in DOMAIN rows[x]
      <4>1. rows' = [rows EXCEPT ![x][d] = Plus(@, n, g)]
        BY <1>4, <3>1 DEF AddEntry
      <4> DEFINE row == rows[x][d]
      <4>2. row \in Row
        BY <1>0, <2>3, <3>1 DEF RowsTyped
      <4> HIDE DEF x, d, n, g, j
      <4>3. Wrote(rows, rows', x, d, Plus(row, n, g))
        BY <1>0, <2>3, <3>1, <4>1, <4>2, Increments
      <4>4. Plus(row, n, g) \in Row
        BY <2>3, <4>2, PlusTyped
      <4> HIDE DEF row
      <4> QED
        BY <1>0, <2>3, <4>3, <4>4, WroteTyped
    <3>2. CASE d \notin DOMAIN rows[x]
      BY <1>0, <1>4, <3>2 DEF AddEntry
    <3> QED
      BY <3>1, <3>2
  <2> QED
    BY <1>4, <1>a, <1>b, <2>4, <2>5 DEF AddEntry
<1>5. CASE SaveEntry
  <2> DEFINE j == recalc.entry
             x == AccountSeries(j)
             d == j.task.msg.day
             n == EntryOf(j).amount
             g == EntryOf(j).gross
             row == NewRow(n, g, 0)
  <2>0. recalc.pc = "save"
    BY <1>5 DEF SaveEntry
  <2>1. recalc.pc = "save" /\ recalc # Idle
    BY <2>0 DEF Idle
  <2>2. j \in Journal
    BY <2>1 DEF TypeInv, DailyInv, RecalcFits
  <2>3. x \in AllSeries /\ n \in Int /\ g \in Int
    BY <1>0, <2>2, EntryIs
  <2>4. RecalcTyped(recalc')
    <3>1. recalc' = [recalc EXCEPT !.pc = "next"] \/ recalc' = Idle
      <4>1. CASE d \in DOMAIN rows[x]
        BY <1>5, <4>1 DEF SaveEntry
      <4>2. CASE d \notin DOMAIN rows[x]
        BY <1>5, <4>2, Zenon DEF SaveEntry
      <4> QED
        BY <4>1, <4>2
    <3> QED
      BY <1>0, <2>1, <3>1 DEF RecalcTyped
  <2>5. RowsTyped(rows')
    <3>1. CASE d \notin DOMAIN rows[x]
      <4>1. rows' = [rows EXCEPT ![x] = [e \in DOMAIN @ \cup {d} |-> IF e = d THEN row ELSE @[e]]]
        BY <1>5, <3>1, Zenon DEF SaveEntry
      <4>2. row \in Row
        <5>1. n \in Int /\ g \in Int /\ 0 \in Int
          BY <2>3
        <5> HIDE DEF n, g
        <5> QED
          BY <5>1, NewRowTyped
      <4> HIDE DEF x, d, row, j
      <4>3. Wrote(rows, rows', x, d, row)
        BY <1>0, <2>3, <4>1, Inserts
      <4> QED
        BY <1>0, <2>3, <4>2, <4>3, WroteTyped
    <3>2. CASE d \in DOMAIN rows[x]
      BY <1>0, <1>5, <3>2 DEF SaveEntry
    <3> QED
      BY <3>1, <3>2
  <2> QED
    BY <1>5, <1>a, <1>b, <2>4, <2>5 DEF SaveEntry
<1>6. CASE Recalculated \/ RecalculationFails
  BY <1>0, <1>6, <1>a, <1>b DEF Recalculated, RecalculationFails, RecalcTyped
<1> QED
  BY <1>1, <1>2, <1>3, <1>4, <1>5, <1>6 DEF Recalculate
------------------------------------------------------------------------------

\* It holds at the start,
LEMMA InitTyped ==
  ASSUME Init
  PROVE  TypeInv
<1>1. DailyInv
  BY DEF Init, DailyInv, PostingsFit, WorkFits, RowsFit, RecalcFits
<1>2. Numbered(posted)
  BY FS_EmptySet DEF Init, Numbered, Posted
<1>3. RowsTyped(rows)
  BY DEF Init, RowsTyped
<1>4. (\A w \in Worker : CallTyped(work[w])) /\ RecalcTyped(recalc) /\ events \in 0..MaxEvents
  BY BoundAssumption DEF Init, CallTyped, RecalcTyped
<1> QED
  BY <1>1, <1>2, <1>3, <1>4 DEF TypeInv

\* and after every step.
LEMMA StepTyped ==
  ASSUME TypeInv, [Next]_vars
  PROVE  TypeInv'
<1>1. DailyInv'
  BY StepKeeps DEF TypeInv
<1>2. TypedMore'
  <2>1. CASE UNCHANGED vars
    BY <2>1 DEF vars, TypeInv, TypedMore
  <2>2. ASSUME NEW m \in Messages, Post(m) PROVE TypedMore'
    BY <2>2, PostTyped
  <2>3. ASSUME NEW w \in Worker, Process(w) \/ Fail(w) PROVE TypedMore'
    BY <2>3, DeliverTyped, UpdateTyped, ReadTyped, InsertTyped, AfterTyped, EndTyped DEF Process
  <2>4. ASSUME NEW table \in {"key", "account"}, NEW startsLast \in BOOLEAN,
               Resync(table, startsLast)
        PROVE  TypedMore'
    BY <2>4, ResyncTyped
  <2>5. CASE Recalculate
    BY <2>5, RecalculationTyped
  <2> QED
    BY <2>1, <2>2, <2>3, <2>4, <2>5 DEF Next
<1> QED
  BY <1>1, <1>2 DEF TypeInv, TypedMore

\* Whatever is posted, repeated, resynced and recalculated, every variable
\* keeps its type, and every balance, increment and sum is an integer.
THEOREM TypeCorrect == Spec => []TypeOK
<1>1. Init => TypeInv
  BY InitTyped
<1>2. TypeInv /\ [Next]_vars => TypeInv'
  BY StepTyped
<1>3. TypeInv => TypeOK
  <2> SUFFICES ASSUME TypeInv PROVE TypeOK
    OBVIOUS
  <2>1. \A x \in AllSeries : DOMAIN rows[x] \subseteq Day
    BY DaysAre DEF TypeInv
  <2> QED
    BY <2>1 DEF TypeInv, TypeOK, Numbered, RowsTyped, CallTyped, RecalcTyped
<1> QED
  BY <1>1, <1>2, <1>3, PTL DEF Spec
\* After a resync the rows of all days, in Asia/Jakarta, that have postings are
\* right, whatever the increments, repeated tasks and recalculations before it
\* had made of them, and every other row stands on a day on which, in UTC,
\* something was posted early the next day in Asia/Jakarta.
THEOREM Restores == Spec => ResyncRestores
<1>1. ASSUME TypeInv, NEW table, Resync(table, TRUE), NEW x \in AllSeries, x[1] = table
      PROVE  /\ rows'[x] = StartBalances(rows'[x])
             /\ \A d \in PostedDays("local", x) :
                  /\ rows'[x][d].balance = PrefixSum("local", x, d)
                  /\ \A c \in {"net", "gross"} : rows'[x][d][c] = SumOf(c, "local", x, d)
             /\ \A d \in DOMAIN rows'[x] \ PostedDays("local", x) :
                  \E t \in posted : x \in SeriesOf(t.msg) /\ t.msg.day = d /\ t.msg.local = d + 1
  <2> DEFINE old == rows[x]
             up == Upsert(x, old)
             new == rows'[x]
  <2>1. new = StartBalances(up)
    BY <1>1 DEF Resync
  <2>2. Posted(posted) /\ \A d \in DOMAIN old : old[d] \in Row
    BY <1>1 DEF TypeInv, Numbered, RowsTyped
  <2>3. DOMAIN old \subseteq Int /\ PostedDays("local", x) \subseteq Int
    BY <1>1, DaysAre, MessageAssumption DEF TypeInv, DailyInv, PostingsFit, PostedDays, Day
  <2> HIDE DEF old, new
  <2>4. DOMAIN up = DOMAIN old \cup PostedDays("local", x) /\ \A d \in DOMAIN up : up[d] \in Row
    BY <2>2, UpsertTyped
  <2>5. \A d \in PostedDays("local", x) :
          /\ up[d].balance = PrefixSum("local", x, d)
          /\ up[d].net = SumOf("net", "local", x, d) /\ up[d].gross = SumOf("gross", "local", x, d)
    <3> SUFFICES ASSUME NEW d \in PostedDays("local", x)
                 PROVE  /\ up[d].balance = PrefixSum("local", x, d)
                        /\ up[d].net = SumOf("net", "local", x, d)
                        /\ up[d].gross = SumOf("gross", "local", x, d)
      OBVIOUS
    <3>1. d \in DOMAIN Upsert(x, old)
      BY <2>4
    <3> QED
      BY <3>1, UpsertIs, ZenonT(30)
  <2> HIDE DEF up
  <2>6. DOMAIN up \subseteq Int /\ \A d \in DOMAIN up : DOMAIN up[d] = {"net", "gross", "balance", "start"}
    BY <2>3, <2>4 DEF Row
  <2>7. /\ DOMAIN new = DOMAIN up /\ StartBalances(new) = new
        /\ \A d \in DOMAIN up : /\ new[d].net = up[d].net /\ new[d].gross = up[d].gross
                                /\ new[d].balance = up[d].balance
    BY <2>1, <2>6, StartsAre
  <2>8. ASSUME NEW d \in DOMAIN new \ PostedDays("local", x)
        PROVE  \E t \in posted : x \in SeriesOf(t.msg) /\ t.msg.day = d /\ t.msg.local = d + 1
    <3>1. d \in PostedDays("day", x)
      BY <1>1, <2>4, <2>7 DEF TypeInv, DailyInv, RowsFit, old
    <3>2. PICK t \in posted : x \in SeriesOf(t.msg) /\ t.msg.day = d
      BY <3>1 DEF PostedDays
    <3>3. t.msg.local # d
      BY <3>2 DEF PostedDays
    <3>4. t.msg.local \in {t.msg.day, t.msg.day + 1}
      BY <2>2, MessageAssumption DEF Posted
    <3> QED
      BY <3>2, <3>3, <3>4
  <2>9. \A d \in PostedDays("local", x) :
          /\ new[d].balance = PrefixSum("local", x, d)
          /\ \A c \in {"net", "gross"} : new[d][c] = SumOf(c, "local", x, d)
    BY <2>4, <2>5, <2>7
  <2> QED
    BY <2>7, <2>8, <2>9 DEF new
<1>2. TypeInv =>
        [\A table \in {"key", "account"} :
           Resync(table, TRUE) =>
             \A x \in AllSeries : x[1] = table =>
               /\ rows'[x] = StartBalances(rows'[x])
               /\ \A d \in PostedDays("local", x) :
                    /\ rows'[x][d].balance = PrefixSum("local", x, d)
                    /\ \A c \in {"net", "gross"} : rows'[x][d][c] = SumOf(c, "local", x, d)
               /\ \A d \in DOMAIN rows'[x] \ PostedDays("local", x) :
                    \E t \in posted : x \in SeriesOf(t.msg) /\ t.msg.day = d /\ t.msg.local = d + 1]_vars
  BY <1>1
<1>3. Init => TypeInv
  BY InitTyped
<1>4. TypeInv /\ [Next]_vars => TypeInv'
  BY StepTyped
<1> QED
  BY <1>2, <1>3, <1>4, PTL DEF Spec, ResyncRestores
------------------------------------------------------------------------------
\* How far a call is: the entries whose row is written, and those whose later
\* days are too.
Written(z) == IF z.pc \in {"after", "answer"} THEN z.at ELSE z.at - 1
Passed(z) == IF z.pc = "answer" THEN z.at ELSE z.at - 1

\* How far each posting is: p positions of its plan are written, l also to
\* the later days; none of a task that waits, all of one that was answered.
Progress(P, q, wk, p, l) ==
  /\ p \in [P -> Nat] /\ l \in [P -> Nat]
  /\ \A t \in P : p[t] \in 0..All(t.msg) /\ l[t] \in 0..All(t.msg)
  /\ \A t \in q : p[t] = 0 /\ l[t] = 0
  /\ \A w \in Worker : wk[w] # Idle => /\ p[wk[w].task] = Written(wk[w])
                                       /\ l[wk[w].task] = Passed(wk[w])
  /\ \A t \in P \ q : (\A w \in Worker : wk[w] # Idle => wk[w].task # t) =>
                         p[t] = All(t.msg) /\ l[t] = All(t.msg)

\* What each posting has added to a column and to the balance of day d.
Nets(c, P, x, d, p) ==
  [t \in P |-> IF t.msg.day = d THEN Share(c, x, t.msg, p[t]) ELSE 0]
Bals(P, x, d, p, l) ==
  [t \in P |-> IF t.msg.day = d THEN Share("net", x, t.msg, p[t])
               ELSE IF t.msg.day < d THEN Share("net", x, t.msg, l[t]) ELSE 0]

Far(P, p) == p \in [P -> Nat] /\ \A t \in P : p[t] \in 0..All(t.msg)

\* What a posting has added so far is a number.
LEMMA NetsInt ==
  ASSUME NEW P, Posted(P), NEW p, NEW l, Far(P, p), Far(P, l), NEW x, NEW d
  PROVE  \A t \in P : /\ t.msg \in Messages /\ t.msg.day \in Int
                      /\ Share("net", x, t.msg, p[t]) \in Int /\ Share("net", x, t.msg, l[t]) \in Int
                      /\ \A c \in Column : Nets(c, P, x, d, p)[t] \in Int
                      /\ Bals(P, x, d, p, l)[t] \in Int
<1> SUFFICES ASSUME NEW t \in P
             PROVE  /\ t.msg \in Messages /\ t.msg.day \in Int
                    /\ Share("net", x, t.msg, p[t]) \in Int /\ Share("net", x, t.msg, l[t]) \in Int
                    /\ \A c \in Column : Nets(c, P, x, d, p)[t] \in Int
                    /\ Bals(P, x, d, p, l)[t] \in Int
  OBVIOUS
<1>1. t.msg \in Messages /\ t.msg.day \in Int /\ p[t] \in 0..All(t.msg) /\ l[t] \in 0..All(t.msg)
  BY MessageAssumption DEF Posted, Far, Day
<1>2. \A c \in Column : Share(c, x, t.msg, p[t]) \in Int /\ Share(c, x, t.msg, l[t]) \in Int
  BY <1>1, ShareInt
<1>3. Share("net", x, t.msg, p[t]) \in Int /\ Share("net", x, t.msg, l[t]) \in Int
  BY <1>2, NetIsColumn
<1>4. \A c \in Column : Nets(c, P, x, d, p)[t] \in Int
  BY <1>2 DEF Nets
<1>5. Bals(P, x, d, p, l)[t] \in Int
  BY <1>3 DEF Bals
<1> QED
  BY <1>1, <1>3, <1>4, <1>5

\* Posting t goes on from position j - 1 to j.
GoesOn(P, p, t, j, r) ==
  t \in P /\ j \in 1..All(t.msg) /\ p[t] = j - 1 /\ r = [p EXCEPT ![t] = j]

\* What position j of a plan adds to column c of series x.
Gain(c, m, j, x) == IF Plan(m)[j].series = x THEN Plan(m)[j][c] ELSE 0

\* It is a number, and what the position adds to the share of its message.
Gained(P, p, t, j, r, c, x) ==
  /\ Gain(c, t.msg, j, x) \in Int
  /\ Share(c, x, t.msg, j - 1) \in Int /\ Share(c, x, t.msg, j) \in Int
  /\ Share(c, x, t.msg, j) = Share(c, x, t.msg, j - 1) + Gain(c, t.msg, j, x)
  /\ r[t] = j /\ \A u \in P \ {t} : r[u] = p[u]

LEMMA GainIs ==
  ASSUME NEW P, Posted(P), NEW p, Far(P, p), NEW t, NEW j, NEW r, GoesOn(P, p, t, j, r),
         NEW c \in Column, NEW x
  PROVE  Gained(P, p, t, j, r, c, x)
<1>0. t \in P /\ j \in 1..All(t.msg) /\ r = [p EXCEPT ![t] = j]
  BY DEF GoesOn
<1>1. t.msg \in Messages /\ p \in [P -> Nat] /\ j \in 1..Len(Plan(t.msg))
  BY <1>0 DEF Posted, Far, All
<1>2. Gain(c, t.msg, j, x) \in Int
  BY <1>1, PlanRow DEF Gain
<1>3. /\ Share(c, x, t.msg, j - 1) \in Int /\ Share(c, x, t.msg, j) \in Int
      /\ Share(c, x, t.msg, j) = Share(c, x, t.msg, j - 1) + Gain(c, t.msg, j, x)
  <2> DEFINE m == t.msg
             a == Share(c, x, m, j - 1)
             b == Share(c, x, m, j)
  <2>1. m \in Messages /\ j \in 1..All(m)
    BY <1>0, <1>1
  <2>2. Gain(c, m, j, x) = IF Plan(m)[j].series = x THEN Plan(m)[j][c] ELSE 0
    BY DEF Gain
  <2> HIDE DEF m
  <2>3. /\ a \in Int /\ b \in Int
        /\ b = a + (IF Plan(m)[j].series = x THEN Plan(m)[j][c] ELSE 0)
    BY <2>1, ShareNext, SMTT(30)
  <2>4. b = a + Gain(c, m, j, x)
    BY <2>2, <2>3
  <2> QED
    BY <2>3, <2>4 DEF m
<1> QED
  BY <1>0, <1>1, <1>2, <1>3 DEF Gained

\* The next position of one posting is written: in the columns
LEMMA NextWritten ==
  ASSUME NEW P, Posted(P), NEW p, Far(P, p), NEW t, NEW j, NEW r, GoesOn(P, p, t, j, r),
         NEW c \in Column, NEW x, NEW d,
         NEW n, n = IF t.msg.day = d THEN Gain(c, t.msg, j, x) ELSE 0
  PROVE  /\ n \in Int
         /\ Total(Nets(c, P, x, d, p), P) \in Int
         /\ Total(Nets(c, P, x, d, r), P) = Total(Nets(c, P, x, d, p), P) + n
<1> DEFINE g == Nets(c, P, x, d, p)
           h == Nets(c, P, x, d, r)
           m == t.msg
<1>0. t \in P /\ p[t] = j - 1 /\ IsFiniteSet(P)
  BY DEF GoesOn, Posted
<1>1. /\ Gain(c, m, j, x) \in Int
      /\ Share(c, x, m, j - 1) \in Int /\ Share(c, x, m, j) \in Int
      /\ Share(c, x, m, j) = Share(c, x, m, j - 1) + Gain(c, m, j, x)
      /\ r[t] = j /\ \A u \in P \ {t} : r[u] = p[u]
  <2>1. Gained(P, p, t, j, r, c, x)
    BY GainIs
  <2> QED
    BY <2>1 DEF Gained
<1>2. \A u \in P : g[u] \in Int
  BY NetsInt
<1>3. g[t] = (IF m.day = d THEN Share(c, x, m, j - 1) ELSE 0) /\ h[t] = (IF m.day = d THEN Share(c, x, m, j) ELSE 0)
  BY <1>0, <1>1 DEF Nets
<1>4. \A u \in P \ {t} : h[u] = g[u]
  BY <1>1 DEF Nets
<1> HIDE DEF g, h
<1>5. n \in Int /\ h[t] = g[t] + n
  BY <1>1, <1>3
<1>6. Changed(P, g, h, t, n)
  BY <1>2, <1>4, <1>5 DEF Changed
<1>7. Total(g, P) \in Int /\ Total(h, P) = Total(g, P) + n
  BY <1>0, <1>5, <1>6, TotalChange
<1> QED
  BY <1>5, <1>7 DEF g, h

\* and in the balance of its day.
LEMMA NextBalance ==
  ASSUME NEW P, Posted(P), NEW p, NEW l, Far(P, p), Far(P, l),
         NEW t, NEW j, NEW r, GoesOn(P, p, t, j, r), NEW x, NEW d,
         NEW n, n = IF t.msg.day = d THEN Gain("net", t.msg, j, x) ELSE 0
  PROVE  /\ n \in Int
         /\ Total(Bals(P, x, d, p, l), P) \in Int
         /\ Total(Bals(P, x, d, r, l), P) = Total(Bals(P, x, d, p, l), P) + n
<1> DEFINE a == Bals(P, x, d, p, l)
           b == Bals(P, x, d, r, l)
           m == t.msg
<1>0. t \in P /\ p[t] = j - 1 /\ IsFiniteSet(P)
  BY DEF GoesOn, Posted
<1>1. /\ Gain("net", m, j, x) \in Int
      /\ Share("net", x, m, j - 1) \in Int /\ Share("net", x, m, j) \in Int
      /\ Share("net", x, m, j) = Share("net", x, m, j - 1) + Gain("net", m, j, x)
      /\ r[t] = j /\ \A u \in P \ {t} : r[u] = p[u]
  <2>1. Gained(P, p, t, j, r, "net", x)
    BY GainIs, NetIsColumn
  <2> QED
    BY <2>1 DEF Gained
<1>2. \A u \in P : a[u] \in Int
  BY NetsInt
<1> DEFINE k == IF m.day < d THEN Share("net", x, m, l[t]) ELSE 0
<1>3. a[t] = (IF m.day = d THEN Share("net", x, m, j - 1) ELSE k) /\ b[t] = (IF m.day = d THEN Share("net", x, m, j) ELSE k)
  BY <1>0, <1>1 DEF Bals
<1>4. \A u \in P \ {t} : b[u] = a[u]
  BY <1>1 DEF Bals
<1>5. a[t] \in Int
  BY <1>0, <1>2
<1> HIDE DEF a, b, k
<1>6. n \in Int /\ b[t] = a[t] + n
  BY <1>1, <1>3, <1>5
<1>7. Changed(P, a, b, t, n)
  BY <1>2, <1>4, <1>6 DEF Changed
<1>8. Total(a, P) \in Int /\ Total(b, P) = Total(a, P) + n
  BY <1>0, <1>6, <1>7, TotalChange
<1> QED
  BY <1>6, <1>8 DEF a, b

\* The later days have the next position of one posting.
LEMMA NextPassed ==
  ASSUME NEW P, Posted(P), NEW p, NEW l, Far(P, p), Far(P, l),
         NEW t, NEW j, NEW r, GoesOn(P, l, t, j, r), NEW x, NEW d \in Int,
         NEW n, n = IF t.msg.day < d THEN Gain("net", t.msg, j, x) ELSE 0
  PROVE  /\ n \in Int
         /\ Total(Bals(P, x, d, p, l), P) \in Int
         /\ Total(Bals(P, x, d, p, r), P) = Total(Bals(P, x, d, p, l), P) + n
<1> DEFINE a == Bals(P, x, d, p, l)
           b == Bals(P, x, d, p, r)
           m == t.msg
<1>0. t \in P /\ j \in 1..All(m) /\ l[t] = j - 1 /\ r = [l EXCEPT ![t] = j]
  BY DEF GoesOn
<1>1. IsFiniteSet(P)
  BY DEF Posted
<1>2. /\ Gain("net", m, j, x) \in Int
      /\ Share("net", x, m, j - 1) \in Int /\ Share("net", x, m, j) \in Int
      /\ Share("net", x, m, j) = Share("net", x, m, j - 1) + Gain("net", m, j, x)
      /\ r[t] = j /\ \A u \in P \ {t} : r[u] = l[u]
  <2>1. Gained(P, l, t, j, r, "net", x)
    BY GainIs, NetIsColumn
  <2> QED
    BY <2>1 DEF Gained
<1>4. n \in Int
  BY <1>2
<1>5. r[t] = j /\ \A u \in P \ {t} : r[u] = l[u]
  BY <1>2
<1>6. \A u \in P : a[u] \in Int
  BY NetsInt
<1>7. b[t] = a[t] + n
  <2>1. m.day \in Int /\ Share("net", x, m, p[t]) \in Int
    BY <1>0, NetsInt
  <2>4. a[t] = IF m.day = d THEN Share("net", x, m, p[t]) ELSE IF m.day < d THEN Share("net", x, m, j - 1) ELSE 0
    BY <1>0 DEF Bals
  <2>5. b[t] = IF m.day = d THEN Share("net", x, m, p[t]) ELSE IF m.day < d THEN Share("net", x, m, j) ELSE 0
    BY <1>0, <1>5 DEF Bals
  <2> HIDE DEF a, b, m
  <2>7. CASE m.day < d
    BY <1>2, <2>1, <2>4, <2>5, <2>7 DEF m
  <2>8. CASE ~(m.day < d)
    BY <2>1, <2>4, <2>5, <2>8 DEF m
  <2> QED
    BY <2>7, <2>8
<1>8. \A u \in P \ {t} : b[u] = a[u]
  BY <1>5 DEF Bals
<1> HIDE DEF a, b
<1>10. Changed(P, a, b, t, n)
  BY <1>6, <1>7, <1>8 DEF Changed
<1>9. Total(a, P) \in Int /\ Total(b, P) = Total(a, P) + n
  BY <1>0, <1>1, <1>4, <1>10, TotalChange
<1> QED
  BY <1>4, <1>9 DEF a, b
------------------------------------------------------------------------------
\* A task waits, or one worker has it.
TaskOnce(q, wk) ==
  /\ \A w \in Worker : wk[w] # Idle => wk[w].task \notin q
  /\ \A v, w \in Worker : v # w /\ wk[v] # Idle /\ wk[w] # Idle => wk[v].task # wk[w].task

\* The worker of a message that inserts rows is the only one.
Apart(wk) == \A v, w \in Worker : v # w /\ wk[w] # Idle /\ wk[w].alone => wk[v] = Idle

\* The balance that a new row of series x on day d is put on top of.
Before(r, x, d) == IF \E e \in DOMAIN r[x] : e < d
                   THEN r[x][Max({e \in DOMAIN r[x] : e < d})].balance
                   ELSE 0

\* A call in the discipline of "opened": one that is not alone finds the rows
\* of its day, one that is alone is on the last day of its series.
At(z) == Plan(z.task.msg)[z.at]
Fit(z, r) ==
  z # Idle =>
    /\ z.pc \in {"update", "read", "insert", "after", "answer"} /\ z.alone \in BOOLEAN
    /\ ~z.alone => \A y \in SeriesOf(z.task.msg) : z.task.msg.day \in DOMAIN r[y]
    /\ z.alone => \A y \in SeriesOf(z.task.msg) : \A e \in DOMAIN r[y] : e <= z.task.msg.day
    /\ z.pc \in {"read", "insert"} => z.task.msg.day \notin DOMAIN r[At(z).series]
    /\ z.pc = "insert" => z.before = Before(r, At(z).series, z.task.msg.day)
    /\ z.pc = "after" => /\ z.task.msg.day \in DOMAIN r[At(z).series]
                         /\ ~z.alone => z.inc = At(z).net
    /\ z.pc = "answer" => z.at = All(z.task.msg)

\* The rows are what the postings have added so far, and a position that is
\* written has its row.
Exact(P, r, p, l) ==
  /\ \A t \in P : \A j \in 1..p[t] : t.msg.day \in DOMAIN r[Plan(t.msg)[j].series]
  /\ \A x \in AllSeries : \A d \in DOMAIN r[x] :
       /\ \A c \in Column : r[x][d][c] = Total(Nets(c, P, x, d, p), P)
       /\ r[x][d].balance = Total(Bals(P, x, d, p, l), P)

Opened(P, q, r, wk) ==
  /\ TaskOnce(q, wk) /\ Apart(wk)
  /\ \A w \in Worker : Fit(wk[w], r)
  /\ \E p, l : Progress(P, q, wk, p, l) /\ Exact(P, r, p, l)

\* A worker goes on with its task.
Moves(P, wk, w, z, wk2) ==
  /\ DOMAIN wk = Worker /\ wk2 = [wk EXCEPT ![w] = z]
  /\ wk[w] # Idle /\ z # Idle /\ z.task = wk[w].task
  /\ z.task \in P /\ z.alone = wk[w].alone
  /\ Written(z) \in 0..All(z.task.msg) /\ Passed(z) \in 0..All(z.task.msg)

\* The progress of the others stays.
MovesOn(P, q, wk, w, z, wk2, p, l, p2, l2) ==
  /\ Moves(P, wk, w, z, wk2)
  /\ TaskOnce(q, wk) /\ Apart(wk) /\ Progress(P, q, wk, p, l)
  /\ p2 = [p EXCEPT ![z.task] = Written(z)] /\ l2 = [l EXCEPT ![z.task] = Passed(z)]

\* The others keep their tasks, and how far they are.
LEMMA MoveStays ==
  ASSUME NEW P, NEW q, NEW wk, NEW w \in Worker, NEW z, NEW wk2,
         NEW p, NEW l, NEW p2, NEW l2, MovesOn(P, q, wk, w, z, wk2, p, l, p2, l2)
  PROVE  TaskOnce(q, wk2) /\ Apart(wk2) /\ Progress(P, q, wk2, p2, l2)
<1>0. /\ Moves(P, wk, w, z, wk2)
      /\ TaskOnce(q, wk) /\ Apart(wk) /\ Progress(P, q, wk, p, l)
      /\ p2 = [p EXCEPT ![z.task] = Written(z)] /\ l2 = [l EXCEPT ![z.task] = Passed(z)]
  BY DEF MovesOn
<1> USE <1>0
<1> DEFINE t == z.task
           i == Written(z)
           k == Passed(z)
<1>1. wk2[w] = z /\ \A v \in Worker \ {w} : wk2[v] = wk[v]
  BY DEF Moves
<1>2. t = wk[w].task /\ wk[w] # Idle /\ z # Idle /\ t \in P
  BY DEF Moves
<1>3. TaskOnce(q, wk2)
  BY <1>1, <1>2 DEF TaskOnce
<1>4. Apart(wk2)
  BY <1>1, <1>2 DEF Apart, Moves
<1>5. i \in 0..All(t.msg) /\ k \in 0..All(t.msg) /\ i \in Nat /\ k \in Nat
  BY DEF Moves
<1>6. p \in [P -> Nat] /\ l \in [P -> Nat]
  BY DEF Progress
<1> HIDE DEF t, i, k
<1>7. p2 = [p EXCEPT ![t] = i] /\ l2 = [l EXCEPT ![t] = k]
  BY DEF t, i, k
<1>8. p2 \in [P -> Nat] /\ l2 \in [P -> Nat]
  <2>1. ASSUME NEW f \in [P -> Nat], NEW u \in P, NEW n \in Nat
        PROVE  [f EXCEPT ![u] = n] \in [P -> Nat]
    OBVIOUS
  <2>2. t \in P /\ i \in Nat /\ k \in Nat
    BY <1>2, <1>5
  <2>3. [p EXCEPT ![t] = i] \in [P -> Nat] /\ [l EXCEPT ![t] = k] \in [P -> Nat]
    BY <1>6, <2>1, <2>2, Zenon
  <2> QED
    BY <1>7, <2>3, Zenon
<1>9. p2[t] = i /\ l2[t] = k /\ \A u \in P \ {t} : p2[u] = p[u] /\ l2[u] = l[u]
  BY <1>2, <1>6, <1>7
<1>10. \A u \in P : p2[u] \in 0..All(u.msg) /\ l2[u] \in 0..All(u.msg)
  <2>1. \A u \in P : p[u] \in 0..All(u.msg) /\ l[u] \in 0..All(u.msg)
    BY DEF Progress
  <2> QED
    BY <1>5, <1>9, <2>1
<1>11. t \notin q
  BY <1>2 DEF TaskOnce
<1>12. \A u \in q : p2[u] = 0 /\ l2[u] = 0
  <2>1. \A u \in q : u # t /\ p[u] = 0 /\ l[u] = 0
    BY <1>11 DEF Progress
  <2> QED
    BY <1>6, <1>7, <2>1
<1>13. ASSUME NEW v \in Worker, wk2[v] # Idle
       PROVE  p2[wk2[v].task] = Written(wk2[v]) /\ l2[wk2[v].task] = Passed(wk2[v])
  <2>1. CASE v = w
    BY <1>1, <1>9, <2>1 DEF t, i, k
  <2>2. CASE v # w
    <3>1. wk2[v] = wk[v] /\ wk[v].task # t
      BY <1>1, <1>2, <1>13, <2>2 DEF TaskOnce
    <3>2. p[wk[v].task] = Written(wk[v]) /\ l[wk[v].task] = Passed(wk[v])
      BY <1>13, <3>1 DEF Progress
    <3> QED
      BY <1>6, <1>7, <3>1, <3>2
  <2> QED
    BY <2>1, <2>2
<1>14. ASSUME NEW u \in P \ q, \A v \in Worker : wk2[v] # Idle => wk2[v].task # u
       PROVE  p2[u] = All(u.msg) /\ l2[u] = All(u.msg)
  <2>1. u # t
    BY <1>1, <1>2, <1>14 DEF t
  <2>2. \A v \in Worker : wk[v] # Idle => wk[v].task # u
    BY <1>1, <1>2, <1>14, <2>1
  <2>3. p[u] = All(u.msg) /\ l[u] = All(u.msg)
    BY <2>2 DEF Progress
  <2> QED
    BY <1>9, <2>1, <2>3
<1>15. Progress(P, q, wk2, p2, l2)
  BY <1>8, <1>10, <1>12, <1>13, <1>14 DEF Progress
<1> QED
  BY <1>3, <1>4, <1>15

\* The calls of the other workers fit the rows as before when rows are only
\* added.
LEMMA OthersFit ==
  ASSUME NEW wk, NEW r, \A v \in Worker : Fit(wk[v], r), Apart(wk), DOMAIN wk = Worker,
         NEW w \in Worker, wk[w] # Idle, NEW z, NEW wk2, wk2 = [wk EXCEPT ![w] = z],
         \A v \in Worker : wk[v] # Idle => /\ wk[v].task.msg \in Messages
                                           /\ wk[v].at \in 1..All(wk[v].task.msg),
         NEW R, \A y \in AllSeries : DOMAIN r[y] \subseteq DOMAIN R[y], Fit(z, R)
  PROVE  \A v \in Worker : Fit(wk2[v], R)
<1> SUFFICES ASSUME NEW v \in Worker, v # w, wk[v] # Idle PROVE Fit(wk[v], R)
  <2>1. wk2[w] = z /\ \A v \in Worker \ {w} : wk2[v] = wk[v]
    OBVIOUS
  <2>2. Fit(Idle, R)
    BY DEF Fit
  <2> QED
    BY <2>1, <2>2
<1> DEFINE u == wk[v]
           m == u.task.msg
<1>1. m \in Messages /\ u.at \in 1..All(m) /\ Fit(u, r) /\ u # Idle
  OBVIOUS
<1>2. ~u.alone
  BY DEF Apart
<1> HIDE DEF u
<1>3. At(u).series \in SeriesOf(m) /\ SeriesOf(m) \subseteq AllSeries
  BY <1>1, PlanRow DEF At, All, AllSeries
<1>4. \A y \in SeriesOf(m) : m.day \in DOMAIN r[y]
  BY <1>1, <1>2 DEF Fit
<1>5. \A y \in SeriesOf(m) : m.day \in DOMAIN R[y]
  BY <1>3, <1>4
<1>6. u.pc \in {"update", "after", "answer"}
  BY <1>1, <1>3, <1>4 DEF Fit
<1> HIDE DEF m
<1>7. Fit(u, R)
  BY <1>1, <1>2, <1>3, <1>5, <1>6 DEF Fit, m
<1> QED
  BY <1>7 DEF u
------------------------------------------------------------------------------
\* The row of the next position is written on top of what it was, or of
\* nothing: the rows are exact again.
LEMMA WrittenExact ==
  ASSUME NEW P, Posted(P), NEW p, NEW l, Far(P, p), Far(P, l), NEW r, Exact(P, r, p, l),
         NEW t, NEW j, NEW p2, GoesOn(P, p, t, j, p2),
         NEW x \in AllSeries, x = Plan(t.msg)[j].series, NEW d, d = t.msg.day,
         NEW row, NEW R, Wrote(r, R, x, d, row),
         \A c \in Column : row[c] = Total(Nets(c, P, x, d, p), P) + Plan(t.msg)[j][c],
         row.balance = Total(Bals(P, x, d, p, l), P) + Plan(t.msg)[j].net
  PROVE  Exact(P, R, p2, l)
<1>0. t \in P /\ j \in 1..All(t.msg) /\ p[t] = j - 1 /\ p2 = [p EXCEPT ![t] = j]
  BY DEF GoesOn
<1>1. p \in [P -> Nat] /\ (\A u \in P : p[u] \in 0..All(u.msg) /\ u.msg \in Messages)
  BY DEF Far, Posted
<1>2. p2[t] = j /\ \A u \in P \ {t} : p2[u] = p[u]
  BY <1>0, <1>1
<1>3. \A u \in P : \A i \in 1..p[u] : u.msg.day \in DOMAIN r[Plan(u.msg)[i].series]
  BY DEF Exact
<1>4. \A y \in AllSeries : DOMAIN r[y] \subseteq DOMAIN R[y]
  BY DEF Wrote
<1>5. ASSUME NEW u \in P, NEW i \in 1..p2[u] PROVE u.msg.day \in DOMAIN R[Plan(u.msg)[i].series]
  <2>1. CASE u = t /\ i = j
    BY <2>1 DEF Wrote
  <2>2. CASE ~(u = t /\ i = j)
    <3>1. i \in 1..p[u]
      <4>1. CASE u = t
        <5>1. i \in 1..j /\ i # j /\ p[u] = j - 1 /\ j \in Int
          BY <1>0, <1>2, <2>2, <4>1
        <5> QED
          BY <5>1
      <4>2. CASE u # t
        BY <1>2, <4>2
      <4> QED
        BY <4>1, <4>2
    <3>2. i \in 1..Len(Plan(u.msg))
      <4>1. p[u] \in 0..All(u.msg) /\ u.msg \in Messages /\ All(u.msg) \in Nat
        BY <1>1, AllNat
      <4> QED
        BY <3>1, <4>1 DEF All
    <3>3. Plan(u.msg)[i].series \in AllSeries
      BY <1>1, <3>2, PlanRow
    <3> QED
      BY <1>3, <1>4, <3>1, <3>3
  <2> QED
    BY <2>1, <2>2
<1>6. ASSUME NEW y \in AllSeries, NEW e \in DOMAIN R[y], NEW c \in Column
      PROVE  R[y][e][c] = Total(Nets(c, P, y, e, p2), P)
  <2> DEFINE k == IF t.msg.day = e THEN Gain(c, t.msg, j, y) ELSE 0
             a == Total(Nets(c, P, y, e, p), P)
  <2>1. k \in Int /\ a \in Int /\ Total(Nets(c, P, y, e, p2), P) = a + k
    BY NextWritten
  <2>2. CASE y = x /\ e = d
    <3>1. k = Plan(t.msg)[j][c] /\ R[y][e] = row
      BY <2>2 DEF Wrote, Gain
    <3> QED
      BY <2>1, <2>2, <3>1
  <2>3. CASE ~(y = x /\ e = d)
    <3>1. k = 0
      BY <2>3 DEF Gain
    <3>2. e \in DOMAIN r[y] /\ R[y][e] = r[y][e]
      BY <2>3 DEF Wrote
    <3>3. r[y][e][c] = a
      BY <3>2 DEF Exact
    <3> HIDE DEF k, a
    <3> QED
      BY <2>1, <3>1, <3>2, <3>3
  <2> QED
    BY <2>2, <2>3
<1>7. ASSUME NEW y \in AllSeries, NEW e \in DOMAIN R[y]
      PROVE  R[y][e].balance = Total(Bals(P, y, e, p2, l), P)
  <2> DEFINE k == IF t.msg.day = e THEN Gain("net", t.msg, j, y) ELSE 0
             b == Total(Bals(P, y, e, p, l), P)
  <2>1. k \in Int /\ b \in Int /\ Total(Bals(P, y, e, p2, l), P) = b + k
    BY NextBalance
  <2>2. CASE y = x /\ e = d
    <3>1. k = Plan(t.msg)[j].net /\ R[y][e] = row
      BY <2>2 DEF Wrote, Gain
    <3> QED
      BY <2>1, <2>2, <3>1
  <2>3. CASE ~(y = x /\ e = d)
    <3>1. k = 0
      BY <2>3 DEF Gain
    <3>2. e \in DOMAIN r[y] /\ R[y][e] = r[y][e]
      BY <2>3 DEF Wrote
    <3>3. r[y][e].balance = b
      BY <3>2 DEF Exact
    <3> HIDE DEF k, b
    <3> QED
      BY <2>1, <3>1, <3>2, <3>3
  <2> QED
    BY <2>2, <2>3
<1> QED
  BY <1>5, <1>6, <1>7 DEF Exact

\* The later days of the next position are raised by its amount, or there
\* are none.
LEMMA PassedExact ==
  ASSUME NEW P, Posted(P), NEW p, NEW l, Far(P, p), Far(P, l), NEW r, Exact(P, r, p, l),
         RowsTyped(r), \A y \in AllSeries : DOMAIN r[y] \subseteq Int,
         NEW t, NEW j, NEW l2, GoesOn(P, l, t, j, l2),
         NEW x \in AllSeries, x = Plan(t.msg)[j].series, NEW d, d = t.msg.day,
         NEW n \in Int, n = Plan(t.msg)[j].net \/ \A e \in DOMAIN r[x] : ~(e > d),
         NEW R, Lifted(r, R, x, d, n)
  PROVE  Exact(P, R, p, l2)
<1>1. ASSUME NEW u \in P, NEW i \in 1..p[u] PROVE u.msg.day \in DOMAIN R[Plan(u.msg)[i].series]
  <2>1. u.msg \in Messages /\ i \in 1..Len(Plan(u.msg))
    <3>1. p[u] \in 0..All(u.msg) /\ u.msg \in Messages
      BY DEF Far, Posted
    <3>2. All(u.msg) \in Nat
      BY <3>1, AllNat
    <3> QED
      BY <3>1, <3>2 DEF All
  <2>2. Plan(u.msg)[i].series \in AllSeries
    BY <2>1, PlanRow
  <2>3. u.msg.day \in DOMAIN r[Plan(u.msg)[i].series]
    BY DEF Exact
  <2> QED
    BY <2>2, <2>3 DEF Lifted
<1>2. ASSUME NEW y \in AllSeries, NEW e \in DOMAIN R[y]
      PROVE  /\ \A c \in Column : R[y][e][c] = Total(Nets(c, P, y, e, p), P)
             /\ R[y][e].balance = Total(Bals(P, y, e, p, l2), P)
  <2> DEFINE k == IF t.msg.day < e THEN Gain("net", t.msg, j, y) ELSE 0
             b == Total(Bals(P, y, e, p, l), P)
             row == r[y][e]
  <2>0. e \in DOMAIN r[y] /\ e \in Int /\ d \in Int
    <3>1. e \in DOMAIN r[y]
      BY DEF Lifted
    <3>2. t.msg.day \in Int
      BY MessageAssumption DEF Posted, Day, GoesOn
    <3> QED
      BY <3>1, <3>2
  <2>1. k \in Int /\ b \in Int /\ Total(Bals(P, y, e, p, l2), P) = b + k
    BY <2>0, NextPassed
  <2>2. /\ row \in Row /\ row.balance = b
        /\ \A c \in Column : row[c] = Total(Nets(c, P, y, e, p), P)
    BY <2>0 DEF Exact, RowsTyped
  <2>3. CASE y = x /\ e > d
    <3>1. R[y][e] = Up(row, n)
      BY <2>0, <2>3 DEF Lifted
    <3>2. (\A c \in Column : R[y][e][c] = row[c]) /\ R[y][e].balance = row.balance + n
      BY <2>2, <3>1, UpTyped DEF Column
    <3>3. k = n
      BY <2>0, <2>3 DEF Gain
    <3> HIDE DEF k, b, row
    <3> QED
      BY <2>1, <2>2, <3>2, <3>3
  <2>4. CASE ~(y = x /\ e > d)
    <3>1. R[y][e] = row
      BY <2>0, <2>4 DEF Lifted
    <3>2. k = 0
      BY <2>0, <2>4 DEF Gain
    <3> HIDE DEF k, b, row
    <3> QED
      BY <2>1, <2>2, <3>1, <3>2
  <2> QED
    BY <2>3, <2>4
<1> QED
  BY <1>1, <1>2 DEF Exact

\* Where there is no row, nothing was written.
LEMMA NoRowNothing ==
  ASSUME NEW P, Posted(P), NEW p, NEW l, Far(P, p), NEW r, Exact(P, r, p, l),
         NEW c \in Column, NEW x, NEW u \in P, u.msg.day \notin DOMAIN r[x]
  PROVE  Share(c, x, u.msg, p[u]) = 0
<1>1. u.msg \in Messages /\ p[u] \in 0..All(u.msg)
  BY DEF Posted, Far
<1>2. \A i \in 1..p[u] : Plan(u.msg)[i].series # x
  BY DEF Exact
<1> QED
  BY <1>1, <1>2, ShareZero

\* A new row of a message that is alone starts at the balance before it.
LEMMA InsertOnTop ==
  ASSUME NEW P, Posted(P), NEW p, NEW l, Far(P, p), Far(P, l), NEW r, Exact(P, r, p, l),
         NEW x \in AllSeries, DOMAIN r[x] \subseteq Int,
         NEW t \in P, NEW d, d = t.msg.day, d \notin DOMAIN r[x],
         \A u \in P \ {t} : p[u] = l[u]
  PROVE  /\ \A c \in Column : Total(Nets(c, P, x, d, p), P) = 0
         /\ Total(Bals(P, x, d, p, l), P) = Before(r, x, d)
<1>0. IsFiniteSet(P) /\ d \in Int /\ \A u \in P : u.msg.day \in Int
  BY MessageAssumption DEF Posted, Day
<1>1. \A u \in P : u.msg.day \notin DOMAIN r[x] => Share("net", x, u.msg, p[u]) = 0
  BY NoRowNothing, NetIsColumn
<1>2. ASSUME NEW c \in Column PROVE Total(Nets(c, P, x, d, p), P) = 0
  <2>1. \A u \in P : u.msg.day \notin DOMAIN r[x] => Share(c, x, u.msg, p[u]) = 0
    BY NoRowNothing
  <2>2. \A u \in P : Nets(c, P, x, d, p)[u] = 0
    BY <2>1 DEF Nets
  <2> QED
    BY <1>0, <2>2, TotalZero
<1> DEFINE S == {e \in DOMAIN r[x] : e < d}
           g == Bals(P, x, d, p, l)
<1>3. \A u \in P : g[u] = IF u.msg.day < d THEN Share("net", x, u.msg, p[u]) ELSE 0
  BY <1>0, <1>1 DEF Bals
<1>4. CASE S = {}
  <2>1. \A u \in P : g[u] = 0
    BY <1>1, <1>3, <1>4
  <2>2. Total(g, P) = 0
    <3> HIDE DEF g
    <3> QED
      BY <1>0, <2>1, TotalZero
  <2>3. Before(r, x, d) = 0
    BY <1>4 DEF Before
  <2> QED
    BY <1>2, <2>2, <2>3
<1>5. CASE S # {}
  <2> DEFINE e == Max(S)
             h == Bals(P, x, e, p, l)
  <2>1. e \in S /\ \A y \in S : e >= y
    <3>1. S \subseteq Int /\ \A y \in S : y < d
      OBVIOUS
    <3> HIDE DEF S
    <3> QED
      BY <1>0, <1>5, <3>1, MaxEarlier
  <2>2. e \in DOMAIN r[x] /\ e \in Int /\ e < d
    BY <2>1
  <2>3. Before(r, x, d) = r[x][e].balance
    BY <1>5 DEF Before
  <2> HIDE DEF e
  <2>4. r[x][e].balance = Total(h, P)
    BY <2>2 DEF Exact
  <2>5. ASSUME NEW u \in P PROVE g[u] = h[u]
    <3> DEFINE c == u.msg.day
    <3>1. c \in Int
      BY <1>0
    <3>2. h[u] = IF c = e THEN Share("net", x, u.msg, p[u])
                 ELSE IF c < e THEN Share("net", x, u.msg, l[u]) ELSE 0
      BY DEF Bals
    <3>3. g[u] = IF c < d THEN Share("net", x, u.msg, p[u]) ELSE 0
      BY <1>3
    <3>4. c \notin DOMAIN r[x] => Share("net", x, u.msg, p[u]) = 0
      BY <1>1
    <3>5. c < d => p[u] = l[u]
      BY <1>0
    <3>6. c < d /\ c > e => c \notin DOMAIN r[x]
      BY <2>1, <2>2, <3>1
    <3> HIDE DEF c, g, h
    <3> QED
      BY <1>0, <2>2, <3>1, <3>2, <3>3, <3>4, <3>5, <3>6
  <2>6. Total(g, P) = Total(h, P)
    <3> HIDE DEF g, h
    <3> QED
      BY <1>0, <2>5, TotalSame
  <2> QED
    BY <1>2, <2>3, <2>4, <2>6
<1> QED
  BY <1>4, <1>5
------------------------------------------------------------------------------
\* An update with the value that is there.
LEMMA SameFunction ==
  ASSUME NEW P, NEW f \in [P -> Nat], NEW t \in P
  PROVE  [f EXCEPT ![t] = f[t]] = f
  OBVIOUS

\* What is known of a worker and its task.
LEMMA Working ==
  ASSUME TypeInv, NEW w \in Worker, work[w] # Idle,
         NEW p, NEW l, Progress(posted, queue, work, p, l)
  PROVE  /\ Posted(posted) /\ Far(posted, p) /\ Far(posted, l)
         /\ work[w].task \in posted /\ work[w].task.msg \in Messages
         /\ All(work[w].task.msg) \in Nat /\ work[w].at \in 1..All(work[w].task.msg)
         /\ p[work[w].task] = Written(work[w]) /\ l[work[w].task] = Passed(work[w])
         /\ p \in [posted -> Nat] /\ l \in [posted -> Nat]
<1>1. /\ work[w].task \in posted /\ work[w].task.msg \in Messages
      /\ work[w].at \in 1..All(work[w].task.msg)
  BY CallIs DEF TypeInv
<1>2. All(work[w].task.msg) \in Nat
  BY <1>1, AllNat
<1> QED
  BY <1>1, <1>2 DEF Progress, Far, TypeInv, Numbered

\* A worker goes on with its task and the rows stay exact.
LEMMA WorkerOpened ==
  ASSUME TypeInv, Opened(posted, queue, rows, work), NEW w \in Worker, work[w] # Idle,
         NEW z, work' = [work EXCEPT ![w] = z], z # Idle,
         z.task = work[w].task, z.alone = work[w].alone,
         Written(z) \in 0..All(z.task.msg), Passed(z) \in 0..All(z.task.msg),
         posted' = posted, queue' = queue,
         \A y \in AllSeries : DOMAIN rows[y] \subseteq DOMAIN rows'[y],
         Fit(z, rows'),
         \A p, l : Progress(posted, queue, work, p, l) /\ Exact(posted, rows, p, l) =>
                     Exact(posted, rows', [p EXCEPT ![z.task] = Written(z)],
                                          [l EXCEPT ![z.task] = Passed(z)])
  PROVE  Opened(posted', queue', rows', work')
<1>1. /\ TaskOnce(queue, work) /\ Apart(work) /\ \A v \in Worker : Fit(work[v], rows)
  BY DEF Opened
<1>2. PICK p, l : Progress(posted, queue, work, p, l) /\ Exact(posted, rows, p, l)
  BY DEF Opened
<1> DEFINE p2 == [p EXCEPT ![z.task] = Written(z)]
           l2 == [l EXCEPT ![z.task] = Passed(z)]
<1>3. DOMAIN work = Worker /\ z.task \in posted
  BY CallIs DEF TypeInv, DailyInv, WorkFits
<1>4. Moves(posted, work, w, z, work')
  BY <1>3 DEF Moves
<1>5. Exact(posted, rows', p2, l2)
  BY <1>2
<1>6. TaskOnce(queue, work') /\ Apart(work') /\ Progress(posted, queue, work', p2, l2)
  <2> HIDE DEF p2, l2
  <2>1. p2 = [p EXCEPT ![z.task] = Written(z)] /\ l2 = [l EXCEPT ![z.task] = Passed(z)]
    BY DEF p2, l2
  <2>2. MovesOn(posted, queue, work, w, z, work', p, l, p2, l2)
    BY <1>1, <1>2, <1>4, <2>1 DEF MovesOn
  <2> QED
    BY <2>2, MoveStays
<1>7. \A v \in Worker : Fit(work'[v], rows')
  <2>1. \A v \in Worker : work[v] # Idle => /\ work[v].task.msg \in Messages
                                            /\ work[v].at \in 1..All(work[v].task.msg)
    BY CallIs DEF TypeInv
  <2> QED
    BY <1>1, <1>3, <2>1, OthersFit
<1> HIDE DEF p2, l2
<1> QED
  BY <1>5, <1>6, <1>7 DEF Opened

\* The UPDATE of a row that is there.
LEMMA UpdateOpened ==
  ASSUME TypeInv, Opened(posted, queue, rows, work), NEW w \in Worker, Update(w)
  PROVE  Opened(posted', queue', rows', work')
<1> DEFINE o == work[w]
           t == o.task
           m == t.msg
           x == Call(w).series
           d == Call(w).day
           n == Call(w).net
           g == Call(w).gross
<1>0. o.pc = "update" /\ o # Idle /\ posted' = posted /\ queue' = queue
  <2>1. o.pc = "update"
    BY DEF Update
  <2> QED
    BY <2>1 DEF Update, Idle
<1>1. /\ t \in posted /\ m \in Messages /\ x \in AllSeries /\ x \in SeriesOf(m)
      /\ d = m.day /\ n \in Int /\ g \in Int /\ o.at \in 1..All(m) /\ Call(w) = At(o)
      /\ DOMAIN o = {"pc", "task", "at", "before", "inc", "alone"}
  BY <1>0, CallIs DEF TypeInv, At
<1>2. Fit(o, rows)
  BY DEF Opened
<1>3. DOMAIN rows = AllSeries /\ RowsTyped(rows)
  BY DEF TypeInv, DailyInv, RowsFit
<1>4. All(m) \in Nat
  BY <1>1, AllNat
<1>5. CASE d \in DOMAIN rows[x]
  <2> DEFINE z == [o EXCEPT !.pc = "after", !.inc = n]
             row == rows[x][d]
  <2>1. work' = [work EXCEPT ![w] = z]
    BY <1>5 DEF Update
  <2>2. rows' = [rows EXCEPT ![x][d] = Plus(@, n, g)]
    BY <1>5 DEF Update
  <2>3. /\ z.pc = "after" /\ z.task = t /\ z.at = o.at /\ z.alone = o.alone /\ z.inc = n
        /\ z # Idle /\ Written(z) = o.at /\ Passed(z) = o.at - 1
    BY <1>1 DEF Written, Passed, Idle
  <2>4. row \in Row
    BY <1>1, <1>3, <1>5 DEF RowsTyped
  <2>5. Wrote(rows, rows', x, d, Plus(row, n, g))
    <3> HIDE DEF x, d, n, g
    <3> QED
      BY <1>1, <1>3, <1>5, <2>2, Increments
  <2>6. \A y \in AllSeries : DOMAIN rows[y] = DOMAIN rows'[y]
    BY <1>5, <2>5 DEF Wrote
  <2>7. Fit(z, rows')
    <3>1. At(z) = Call(w)
      BY <1>1, <2>3 DEF At
    <3>2. SeriesOf(m) \subseteq AllSeries
      BY <1>1 DEF AllSeries
    <3>3. /\ z.alone \in BOOLEAN
          /\ ~z.alone => \A y \in SeriesOf(m) : m.day \in DOMAIN rows[y]
          /\ z.alone => \A y \in SeriesOf(m) : \A e \in DOMAIN rows[y] : e <= m.day
      BY <1>0, <1>2, <2>3 DEF Fit
    <3>4. m.day \in DOMAIN rows'[x]
      BY <1>1, <1>5, <2>6
    <3> HIDE DEF z, m, x, n
    <3> QED
      BY <2>3, <2>6, <3>1, <3>2, <3>3, <3>4 DEF Fit, m, x, n
  <2>8. ASSUME NEW p, NEW l, Progress(posted, queue, work, p, l), Exact(posted, rows, p, l)
        PROVE  Exact(posted, rows', [p EXCEPT ![t] = o.at], [l EXCEPT ![t] = o.at - 1])
    <3>1. /\ Posted(posted) /\ Far(posted, p) /\ Far(posted, l)
          /\ p[t] = o.at - 1 /\ l[t] = o.at - 1 /\ l \in [posted -> Nat]
      BY <1>0, <2>8, Working DEF Written, Passed
    <3> DEFINE p2 == [p EXCEPT ![t] = o.at]
               l2 == [l EXCEPT ![t] = o.at - 1]
               new == Plus(row, n, g)
               j == o.at
    <3>2. l2 = l
      BY <1>1, <3>1, SameFunction
    <3>3. GoesOn(posted, p, t, j, p2)
      BY <1>1, <3>1 DEF GoesOn
    <3>4. new.net = row.net + n /\ new.gross = row.gross + g /\ new.balance = row.balance + n
      BY <1>1, <2>4, PlusTyped
    <3>5. /\ \A c \in Column : row[c] = Total(Nets(c, posted, x, d, p), posted)
          /\ row.balance = Total(Bals(posted, x, d, p, l), posted)
      BY <1>1, <1>5, <2>8 DEF Exact
    <3>6. x = Plan(m)[j].series /\ n = Plan(m)[j].net /\ g = Plan(m)[j].gross
      BY <1>1 DEF At
    <3>7. Wrote(rows, rows', x, d, new)
      BY <2>5
    <3> HIDE DEF p2, l2, new, row, x, d, n, g, m, t, o, j
    <3>10. \A c \in Column : new[c] = row[c] + Plan(m)[j][c]
      BY <3>4, <3>6 DEF Column
    <3>11. /\ \A c \in Column : new[c] = Total(Nets(c, posted, x, d, p), posted) + Plan(m)[j][c]
           /\ new.balance = Total(Bals(posted, x, d, p, l), posted) + Plan(m)[j].net
      BY <3>4, <3>5, <3>6, <3>10
    <3>8. Exact(posted, rows', p2, l)
      BY <1>1, <2>8, <3>1, <3>3, <3>6, <3>7, <3>11, WrittenExact DEF m
    <3>9. Exact(posted, rows', p2, l2)
      BY <3>2, <3>8
    <3> QED
      BY <3>9 DEF p2, l2, j
  <2>9. o.at \in 0..All(m) /\ o.at - 1 \in 0..All(m)
    BY <1>1, <1>4
  <2> HIDE DEF z, row, x, d, n, g
  <2> QED
    BY <1>0, <2>1, <2>3, <2>6, <2>7, <2>8, <2>9, WorkerOpened
<1>6. CASE d \notin DOMAIN rows[x]
  <2> DEFINE z == [o EXCEPT !.pc = "read"]
  <2>1. work' = [work EXCEPT ![w] = z] /\ rows' = rows
    BY <1>6 DEF Update
  <2>3. /\ z.pc = "read" /\ z.task = t /\ z.at = o.at /\ z.alone = o.alone
        /\ z # Idle /\ Written(z) = o.at - 1 /\ Passed(z) = o.at - 1
    BY <1>1 DEF Written, Passed, Idle
  <2>7. Fit(z, rows')
    <3>1. At(z) = Call(w)
      BY <1>1, <2>3 DEF At
    <3>3. /\ z.alone \in BOOLEAN
          /\ ~z.alone => \A y \in SeriesOf(m) : m.day \in DOMAIN rows[y]
          /\ z.alone => \A y \in SeriesOf(m) : \A e \in DOMAIN rows[y] : e <= m.day
      BY <1>0, <1>2, <2>3 DEF Fit
    <3>4. m.day \notin DOMAIN rows[x]
      BY <1>1, <1>6
    <3> HIDE DEF z, m, x, n
    <3> QED
      BY <2>1, <2>3, <3>1, <3>3, <3>4 DEF Fit, m, x, n
  <2>8. ASSUME NEW p, NEW l, Progress(posted, queue, work, p, l), Exact(posted, rows, p, l)
        PROVE  Exact(posted, rows', [p EXCEPT ![t] = o.at - 1], [l EXCEPT ![t] = o.at - 1])
    <3>1. /\ p[t] = o.at - 1 /\ l[t] = o.at - 1 /\ p \in [posted -> Nat] /\ l \in [posted -> Nat]
      BY <1>0, <2>8, Working DEF Written, Passed
    <3>2. [p EXCEPT ![t] = o.at - 1] = p /\ [l EXCEPT ![t] = o.at - 1] = l
      BY <1>1, <3>1, SameFunction
    <3> QED
      BY <2>1, <2>8, <3>2
  <2>9. o.at - 1 \in 0..All(m)
    BY <1>1, <1>4
  <2> HIDE DEF z, x, d, n
  <2> QED
    BY <1>0, <2>1, <2>3, <2>7, <2>8, <2>9, WorkerOpened
<1> QED
  BY <1>5, <1>6
------------------------------------------------------------------------------
\* The row read before an insert.
LEMMA ReadOpened ==
  ASSUME TypeInv, Opened(posted, queue, rows, work), NEW w \in Worker, ReadBefore(w)
  PROVE  Opened(posted', queue', rows', work')
<1> DEFINE o == work[w]
           t == o.task
           m == t.msg
           x == Call(w).series
           d == Call(w).day
           b == IF HasEarlier(x, d) THEN rows[x][Latest(x, d)].balance ELSE 0
           z == [o EXCEPT !.pc = "insert", !.before = b]
<1>0. /\ o.pc = "read" /\ o # Idle /\ posted' = posted /\ queue' = queue
      /\ rows' = rows /\ work' = [work EXCEPT ![w] = z]
  <2>1. o.pc = "read"
    BY DEF ReadBefore
  <2>2. o # Idle
    BY <2>1 DEF Idle
  <2> QED
    BY <2>1, <2>2, Zenon DEF ReadBefore
<1>1. /\ m \in Messages /\ d = m.day /\ o.at \in 1..All(m) /\ Call(w) = At(o)
      /\ DOMAIN o = {"pc", "task", "at", "before", "inc", "alone"} /\ All(m) \in Nat
  BY <1>0, CallIs, AllNat DEF TypeInv, At
<1>2. b = Before(rows, x, m.day)
  BY <1>1 DEF Before, HasEarlier, Latest
<1> HIDE DEF b
<1>3. /\ z.pc = "insert" /\ z.task = t /\ z.at = o.at /\ z.alone = o.alone /\ z.before = b
      /\ z # Idle /\ Written(z) = o.at - 1 /\ Passed(z) = o.at - 1
  BY <1>1 DEF Written, Passed, Idle
<1>4. Fit(z, rows')
  <2>1. At(z) = Call(w)
    BY <1>1, <1>3 DEF At
  <2>2. /\ z.alone \in BOOLEAN
        /\ ~z.alone => \A y \in SeriesOf(m) : m.day \in DOMAIN rows[y]
        /\ z.alone => \A y \in SeriesOf(m) : \A e \in DOMAIN rows[y] : e <= m.day
        /\ m.day \notin DOMAIN rows[x]
    <3>1. Fit(o, rows)
      BY DEF Opened
    <3> QED
      BY <1>0, <1>1, <1>3, <3>1 DEF Fit
  <2> HIDE DEF z
  <2> QED
    BY <1>0, <1>2, <1>3, <2>1, <2>2 DEF Fit
<1>5. ASSUME NEW p, NEW l, Progress(posted, queue, work, p, l), Exact(posted, rows, p, l)
      PROVE  Exact(posted, rows', [p EXCEPT ![t] = o.at - 1], [l EXCEPT ![t] = o.at - 1])
  <2>1. /\ p[t] = o.at - 1 /\ l[t] = o.at - 1 /\ t \in posted
        /\ p \in [posted -> Nat] /\ l \in [posted -> Nat]
    BY <1>0, <1>5, Working DEF Written, Passed
  <2>2. [p EXCEPT ![t] = o.at - 1] = p /\ [l EXCEPT ![t] = o.at - 1] = l
    BY <2>1, SameFunction
  <2> QED
    BY <1>0, <1>5, <2>2
<1>6. o.at - 1 \in 0..All(m)
  BY <1>1
<1> HIDE DEF z, x, d
<1> QED
  BY <1>0, <1>3, <1>4, <1>5, <1>6, WorkerOpened

\* A worker that is alone: every other posting is in the rows with all that
\* is in the later ones.
LEMMA AloneFar ==
  ASSUME TypeInv, Apart(work), NEW w \in Worker, work[w] # Idle, work[w].alone,
         NEW p, NEW l, Progress(posted, queue, work, p, l)
  PROVE  \A u \in posted \ {work[w].task} : p[u] = l[u]
<1> SUFFICES ASSUME NEW u \in posted, u # work[w].task PROVE p[u] = l[u]
  OBVIOUS
<1>1. CASE u \in queue
  BY <1>1 DEF Progress
<1>2. CASE u \notin queue
  <2>1. \A v \in Worker : work[v] # Idle => v = w
    BY DEF Apart
  <2>2. \A v \in Worker : work[v] # Idle => work[v].task # u
    BY <2>1
  <2> QED
    BY <1>2, <2>2 DEF Progress
<1> QED
  BY <1>1, <1>2

\* In the discipline of "opened" no insert is refused: who inserts is alone.
LEMMA InsertsAlone ==
  ASSUME TypeInv, Opened(posted, queue, rows, work), NEW w \in Worker, work[w].pc = "insert"
  PROVE  /\ work[w] # Idle /\ work[w].alone
         /\ Call(w).day \notin DOMAIN rows[Call(w).series]
         /\ work[w].before = Before(rows, Call(w).series, Call(w).day)
<1> DEFINE o == work[w]
           m == o.task.msg
<1>1. o # Idle
  BY DEF Idle
<1>2. /\ Call(w) = At(o) /\ Call(w).day = m.day /\ Call(w).series \in SeriesOf(m)
  BY <1>1, CallIs DEF TypeInv, At
<1>3. Fit(o, rows)
  BY DEF Opened
<1> HIDE DEF o
<1>4. o.pc = "insert" /\ o # Idle
  BY <1>1 DEF o
<1>5. /\ o.alone \in BOOLEAN
      /\ ~o.alone => \A y \in SeriesOf(m) : m.day \in DOMAIN rows[y]
      /\ m.day \notin DOMAIN rows[At(o).series]
      /\ o.before = Before(rows, At(o).series, m.day)
  BY <1>3, <1>4 DEF Fit
<1> QED
  BY <1>2, <1>4, <1>5 DEF o
------------------------------------------------------------------------------
\* The row of a day is inserted on top of the one before it.
LEMMA InsertOpened ==
  ASSUME TypeInv, Opened(posted, queue, rows, work), NEW w \in Worker, Insert(w)
  PROVE  Opened(posted', queue', rows', work')
<1> DEFINE o == work[w]
           t == o.task
           m == t.msg
           x == Call(w).series
           d == Call(w).day
           n == Call(w).net
           g == Call(w).gross
           b == o.before
           row == NewRow(n, g, b)
           z == [o EXCEPT !.pc = "after", !.inc = n + b]
<1>0. /\ o.pc = "insert" /\ o # Idle /\ posted' = posted /\ queue' = queue
      /\ work' = [work EXCEPT ![w] = z]
      /\ rows' = [rows EXCEPT ![x] = [e \in DOMAIN @ \cup {d} |-> IF e = d THEN row ELSE @[e]]]
  <2>1. o.pc = "insert"
    BY DEF Insert
  <2>2. o # Idle
    BY <2>1 DEF Idle
  <2> QED
    BY <2>1, <2>2, Zenon DEF Insert
<1>1. /\ t \in posted /\ m \in Messages /\ x \in AllSeries /\ x \in SeriesOf(m)
      /\ d = m.day /\ d \in Int /\ n \in Int /\ g \in Int /\ o.at \in 1..All(m) /\ Call(w) = At(o)
      /\ DOMAIN o = {"pc", "task", "at", "before", "inc", "alone"} /\ All(m) \in Nat
  BY <1>0, CallIs, AllNat DEF TypeInv, At, Day
<1>2. o.alone /\ d \notin DOMAIN rows[x] /\ b = Before(rows, x, d)
  BY <1>0, InsertsAlone
<1>3. DOMAIN rows = AllSeries /\ DOMAIN rows[x] \subseteq Int
  BY <1>1, DaysAre DEF TypeInv, DailyInv, RowsFit
<1>4. Wrote(rows, rows', x, d, row)
  <2> HIDE DEF row, x, d
  <2> QED
    BY <1>0, <1>1, <1>3, Inserts
<1>5. \A y \in AllSeries : DOMAIN rows[y] \subseteq DOMAIN rows'[y]
  BY <1>4 DEF Wrote
<1>6. /\ z.pc = "after" /\ z.task = t /\ z.at = o.at /\ z.alone = o.alone
      /\ z # Idle /\ Written(z) = o.at /\ Passed(z) = o.at - 1
  BY <1>1 DEF Written, Passed, Idle
<1>7. Fit(z, rows')
  <2>1. At(z) = Call(w)
    BY <1>1, <1>6 DEF At
  <2>2. \A y \in SeriesOf(m) : \A e \in DOMAIN rows[y] : e <= m.day
    <3>1. Fit(o, rows)
      BY DEF Opened
    <3> QED
      BY <1>0, <1>2, <3>1 DEF Fit
  <2>3. \A y \in SeriesOf(m) : \A e \in DOMAIN rows'[y] : e <= m.day
    <3>1. \A y \in AllSeries : \A e \in DOMAIN rows'[y] : e \in DOMAIN rows[y] \/ e = d
      BY <1>4 DEF Wrote
    <3>2. SeriesOf(m) \subseteq AllSeries
      BY <1>1 DEF AllSeries
    <3> HIDE DEF x, d, m
    <3> QED
      BY <1>1, <2>2, <3>1, <3>2
  <2>4. m.day \in DOMAIN rows'[x]
    BY <1>1, <1>4 DEF Wrote
  <2>5. z.alone
    BY <1>2, <1>6
  <2> HIDE DEF z, x, m
  <2> QED
    BY <1>6, <2>1, <2>3, <2>4, <2>5 DEF Fit, x, m
<1>8. ASSUME NEW p, NEW l, Progress(posted, queue, work, p, l), Exact(posted, rows, p, l)
      PROVE  Exact(posted, rows', [p EXCEPT ![t] = o.at], [l EXCEPT ![t] = o.at - 1])
  <2>1. /\ Posted(posted) /\ Far(posted, p) /\ Far(posted, l)
        /\ p[t] = o.at - 1 /\ l[t] = o.at - 1 /\ l \in [posted -> Nat]
    BY <1>0, <1>8, Working DEF Written, Passed
  <2>2. \A u \in posted \ {t} : p[u] = l[u]
    <3>1. Apart(work)
      BY DEF Opened
    <3> QED
      BY <1>0, <1>2, <1>8, <3>1, AloneFar
  <2>3. /\ \A c \in Column : Total(Nets(c, posted, x, d, p), posted) = 0
        /\ Total(Bals(posted, x, d, p, l), posted) = b
    <3> HIDE DEF x, d, t, b
    <3> QED
      BY <1>1, <1>2, <1>3, <1>8, <2>1, <2>2, InsertOnTop DEF m
  <2> DEFINE p2 == [p EXCEPT ![t] = o.at]
             l2 == [l EXCEPT ![t] = o.at - 1]
             j == o.at
  <2>4. l2 = l
    BY <1>1, <2>1, SameFunction
  <2>5. GoesOn(posted, p, t, j, p2)
    BY <1>1, <2>1 DEF GoesOn
  <2>6. x = Plan(m)[j].series /\ n = Plan(m)[j].net /\ g = Plan(m)[j].gross
    BY <1>1 DEF At
  <2>10. row.net = n /\ row.gross = g /\ row.balance = n + b /\ b \in Int
    BY <1>0 DEF TypeInv, CallTyped, NewRow
  <2> HIDE DEF p2, l2, row, x, d, n, g, b, m, t, o, j
  <2>11. \A c \in Column : row[c] = Plan(m)[j][c] /\ row[c] \in Int
    BY <1>1, <2>6, <2>10 DEF Column
  <2>12. /\ \A c \in Column : row[c] = Total(Nets(c, posted, x, d, p), posted) + Plan(m)[j][c]
         /\ row.balance = Total(Bals(posted, x, d, p, l), posted) + Plan(m)[j].net
    BY <1>1, <2>3, <2>6, <2>10, <2>11
  <2>8. Exact(posted, rows', p2, l)
    BY <1>1, <1>4, <1>8, <2>1, <2>5, <2>6, <2>12, WrittenExact DEF m
  <2>9. Exact(posted, rows', p2, l2)
    BY <2>4, <2>8
  <2> QED
    BY <2>9 DEF p2, l2, j
<1>9. o.at \in 0..All(m) /\ o.at - 1 \in 0..All(m)
  BY <1>1
<1> HIDE DEF z, row, x, d, n, g, b
<1> QED
  BY <1>0, <1>5, <1>6, <1>7, <1>8, <1>9, WorkerOpened

\* The later days follow.
LEMMA AfterOpened ==
  ASSUME TypeInv, Opened(posted, queue, rows, work), NEW w \in Worker, After(w)
  PROVE  Opened(posted', queue', rows', work')
<1> DEFINE o == work[w]
           t == o.task
           m == t.msg
           x == Call(w).series
           d == Call(w).day
           n == o.inc
           z == Continue(w)
<1>0. /\ o.pc = "after" /\ o # Idle /\ posted' = posted /\ queue' = queue
      /\ work' = [work EXCEPT ![w] = z] /\ Lifted(rows, rows', x, d, n)
  BY AfterIs DEF TypeInv
<1>1. /\ t \in posted /\ m \in Messages /\ x \in AllSeries /\ x \in SeriesOf(m)
      /\ d = m.day /\ d \in Int /\ o.at \in 1..All(m) /\ Call(w) = At(o)
      /\ All(m) \in Nat /\ n \in Int
  <2>1. DailyInv /\ CallTyped(o)
    BY DEF TypeInv
  <2>2. /\ t \in posted /\ m \in Messages /\ x \in AllSeries /\ x \in SeriesOf(m)
        /\ d = m.day /\ d \in Day /\ o.at \in 1..All(m) /\ Call(w) = At(o)
    BY <1>0, <2>1, CallIs DEF At
  <2>3. All(m) \in Nat
    BY <2>2, AllNat
  <2>4. n \in Int
    BY <1>0, <2>1 DEF CallTyped
  <2> QED
    BY <2>2, <2>3, <2>4 DEF Day
<1>2. /\ z # Idle /\ z.task = t /\ z.alone = o.alone
      /\ \/ o.at < All(m) /\ z.pc = "update" /\ z.at = o.at + 1
         \/ o.at = All(m) /\ z.pc = "answer" /\ z.at = o.at
  BY <1>0, ContinueIs DEF TypeInv
<1>3. Written(z) = o.at /\ Passed(z) = o.at
  <2> HIDE DEF z
  <2> QED
    BY <1>1, <1>2 DEF Written, Passed
<1>4. Fit(o, rows)
  BY DEF Opened
<1>5. \A y \in AllSeries : DOMAIN rows'[y] = DOMAIN rows[y]
  BY <1>0 DEF Lifted
<1>6. /\ o.alone \in BOOLEAN
      /\ ~o.alone => \A y \in SeriesOf(m) : m.day \in DOMAIN rows[y]
      /\ o.alone => \A y \in SeriesOf(m) : \A e \in DOMAIN rows[y] : e <= m.day
      /\ ~o.alone => n = At(o).net
  BY <1>0, <1>4 DEF Fit
<1>7. Fit(z, rows')
  <2>1. SeriesOf(m) \subseteq AllSeries
    BY <1>1 DEF AllSeries
  <2>2. /\ z.pc \in {"update", "answer"} /\ z.pc # "read" /\ z.pc # "insert" /\ z.pc # "after"
        /\ (z.pc = "answer" => z.at = All(z.task.msg))
    BY <1>2
  <2> HIDE DEF z
  <2> QED
    BY <1>2, <1>5, <1>6, <2>1, <2>2 DEF Fit
<1>8. n = Call(w).net \/ \A e \in DOMAIN rows[x] : ~(e > d)
  <2>1. CASE o.alone
    <3>1. \A e \in DOMAIN rows[x] : e <= d
      BY <1>1, <1>6, <2>1
    <3>2. DOMAIN rows[x] \subseteq Int
      BY <1>1, DaysAre DEF TypeInv
    <3> QED
      BY <1>1, <3>1, <3>2
  <2>2. CASE ~o.alone
    BY <1>1, <1>6, <2>2
  <2> QED
    BY <1>6, <2>1, <2>2
<1>9. ASSUME NEW p, NEW l, Progress(posted, queue, work, p, l), Exact(posted, rows, p, l)
      PROVE  Exact(posted, rows', [p EXCEPT ![t] = o.at], [l EXCEPT ![t] = o.at])
  <2>1. /\ Posted(posted) /\ Far(posted, p) /\ Far(posted, l)
        /\ p[t] = o.at /\ l[t] = o.at - 1 /\ p \in [posted -> Nat]
    BY <1>0, <1>9, Working DEF Written, Passed
  <2> DEFINE p2 == [p EXCEPT ![t] = o.at]
             l2 == [l EXCEPT ![t] = o.at]
             j == o.at
  <2>2. p2 = p
    BY <1>1, <2>1, SameFunction
  <2>3. GoesOn(posted, l, t, j, l2)
    BY <1>1, <2>1 DEF GoesOn
  <2>4. x = Plan(m)[j].series /\ Call(w).net = Plan(m)[j].net
    BY <1>1 DEF At
  <2>5. RowsTyped(rows) /\ \A y \in AllSeries : DOMAIN rows[y] \subseteq Int
    <3> HIDE DEF p2, l2, j
    <3>1. DailyInv /\ RowsTyped(rows)
      BY DEF TypeInv
    <3> QED
      BY <3>1, DaysAre
  <2>6. n = Plan(m)[j].net \/ \A e \in DOMAIN rows[x] : ~(e > d)
    BY <1>8, <2>4
  <2> HIDE DEF p2, l2, x, d, n, t, o, j
  <2>7. Exact(posted, rows', p, l2)
    BY <1>0, <1>1, <1>9, <2>1, <2>3, <2>4, <2>5, <2>6, PassedExact DEF m
  <2>8. Exact(posted, rows', p2, l2)
    BY <2>2, <2>7
  <2> QED
    BY <2>8 DEF p2, l2, j
<1>10. o.at \in 0..All(m)
  BY <1>1
<1> HIDE DEF z, x, d, n
<1> QED
  BY <1>0, <1>2, <1>3, <1>5, <1>7, <1>9, <1>10, WorkerOpened
------------------------------------------------------------------------------
\* A task that was answered is all in the rows.
LEMMA AnswerOpened ==
  ASSUME TypeInv, Opened(posted, queue, rows, work), NEW w \in Worker, Answer(w)
  PROVE  Opened(posted', queue', rows', work')
<1> DEFINE o == work[w]
<1>0. /\ o.pc = "answer" /\ posted' = posted /\ queue' = queue /\ rows' = rows
      /\ work' = [work EXCEPT ![w] = Idle]
  BY DEF Answer
<1>1. o # Idle /\ DOMAIN work = Worker
  BY <1>0 DEF Idle, TypeInv, DailyInv, WorkFits
<1>2. /\ TaskOnce(queue, work) /\ Apart(work) /\ \A v \in Worker : Fit(work[v], rows)
  BY DEF Opened
<1>3. PICK p, l : Progress(posted, queue, work, p, l) /\ Exact(posted, rows, p, l)
  BY DEF Opened
<1>4. work'[w] = Idle /\ \A v \in Worker \ {w} : work'[v] = work[v]
  BY <1>0, <1>1
<1>5. TaskOnce(queue, work') /\ Apart(work')
  BY <1>2, <1>4 DEF TaskOnce, Apart
<1>6. \A v \in Worker : Fit(work'[v], rows)
  BY <1>2, <1>4 DEF Fit
<1>7. Progress(posted, queue, work', p, l)
  <2>1. o.at = All(o.task.msg)
    <3>1. Fit(o, rows)
      BY <1>2
    <3> QED
      BY <1>0, <1>1, <3>1 DEF Fit
  <2>2. p[o.task] = All(o.task.msg) /\ l[o.task] = All(o.task.msg)
    BY <1>0, <1>1, <1>3, <2>1 DEF Progress, Written, Passed
  <2>3. ASSUME NEW u \in posted \ queue, \A v \in Worker : work'[v] # Idle => work'[v].task # u
        PROVE  p[u] = All(u.msg) /\ l[u] = All(u.msg)
    <3>1. CASE u = o.task
      BY <2>2, <3>1
    <3>2. CASE u # o.task
      <4>1. \A v \in Worker : work[v] # Idle => work[v].task # u
        BY <1>4, <2>3, <3>2
      <4> QED
        BY <1>3, <4>1 DEF Progress
    <3> QED
      BY <3>1, <3>2
  <2>4. \A v \in Worker : work'[v] # Idle => /\ p[work'[v].task] = Written(work'[v])
                                             /\ l[work'[v].task] = Passed(work'[v])
    BY <1>3, <1>4 DEF Progress
  <2> QED
    BY <1>3, <2>3, <2>4 DEF Progress
<1> QED
  BY <1>0, <1>3, <1>5, <1>6, <1>7 DEF Opened

\* A task is dispatched: alone if it opens a day, and to nobody else's side if
\* somebody is alone.
LEMMA DeliverOpened ==
  ASSUME Order = "opened", TypeInv, Opened(posted, queue, rows, work),
         NEW w \in Worker, NEW t \in queue, Deliver(w, t)
  PROVE  Opened(posted', queue', rows', work')
<1> DEFINE m == t.msg
           z == Started(t, Opens(m))
<1>0. /\ work[w] = Idle /\ Deliverable(m)
      /\ posted' = posted /\ queue' = queue \ {t} /\ rows' = rows
      /\ work' = [work EXCEPT ![w] = z]
  BY DEF Deliver
<1>1. DOMAIN work = Worker /\ t \in posted /\ m \in Messages
  BY DEF TypeInv, DailyInv, WorkFits, PostingsFit
<1>2. /\ TaskOnce(queue, work) /\ Apart(work) /\ \A v \in Worker : Fit(work[v], rows)
  BY DEF Opened
<1>3. PICK p, l : Progress(posted, queue, work, p, l) /\ Exact(posted, rows, p, l)
  BY DEF Opened
<1>4. work'[w] = z /\ \A v \in Worker \ {w} : work'[v] = work[v]
  BY <1>0, <1>1
<1>5. /\ z.pc = "update" /\ z.task = t /\ z.at = 1 /\ z.alone = Opens(m)
      /\ z # Idle /\ Written(z) = 0 /\ Passed(z) = 0
  BY DEF Started, Written, Passed, Idle
<1>6. /\ \A v \in Worker : work[v] # Idle => ~work[v].alone
      /\ Opens(m) => /\ \A v \in Worker : work[v] = Idle
                     /\ \A x \in SeriesOf(m) : \A e \in DOMAIN rows[x] : e <= m.day
  BY <1>0 DEF Deliverable
<1> HIDE DEF z
<1>7. TaskOnce(queue', work')
  BY <1>0, <1>2, <1>4, <1>5 DEF TaskOnce
<1>8. Apart(work')
  BY <1>4, <1>5, <1>6 DEF Apart
<1>9. \A v \in Worker : Fit(work'[v], rows')
  <2>1. Fit(z, rows)
    <3>1. ~Opens(m) => \A y \in SeriesOf(m) : m.day \in DOMAIN rows[y]
      BY DEF Opens
    <3>2. Opens(m) \in BOOLEAN
      BY DEF Opens
    <3> QED
      BY <1>5, <1>6, <3>1, <3>2 DEF Fit
  <2> QED
    BY <1>0, <1>2, <1>4, <2>1
<1>10. Progress(posted, queue', work', p, l)
  <2>1. p[t] = 0 /\ l[t] = 0
    BY <1>3 DEF Progress
  <2>2. \A v \in Worker : work'[v] # Idle => /\ p[work'[v].task] = Written(work'[v])
                                             /\ l[work'[v].task] = Passed(work'[v])
    BY <1>3, <1>4, <1>5, <2>1 DEF Progress
  <2>3. ASSUME NEW u \in posted \ queue', \A v \in Worker : work'[v] # Idle => work'[v].task # u
        PROVE  p[u] = All(u.msg) /\ l[u] = All(u.msg)
    <3>1. u # t
      BY <1>4, <1>5, <2>3
    <3>2. u \in posted \ queue
      BY <1>0, <3>1
    <3>3. \A v \in Worker : work[v] # Idle => work[v].task # u
      BY <1>0, <1>4, <2>3
    <3> QED
      BY <1>3, <3>2, <3>3 DEF Progress
  <2> QED
    BY <1>0, <1>3, <2>2, <2>3 DEF Progress
<1> QED
  BY <1>0, <1>3, <1>7, <1>8, <1>9, <1>10 DEF Opened

\* A task that waits has added nothing.
LEMMA PostOpened ==
  ASSUME TypeInv, Opened(posted, queue, rows, work), NEW m \in Messages, Post(m)
  PROVE  Opened(posted', queue', rows', work')
<1> DEFINE t == [id |-> Cardinality(posted) + 1, msg |-> m]
           Q == posted \cup {t}
<1>0. posted' = Q /\ queue' = queue \cup {t} /\ rows' = rows /\ work' = work
  BY DEF Post
<1>1. t \notin posted /\ t.msg = m
  <2>1. Cardinality(posted) \in Nat
    BY FS_CardinalityType DEF TypeInv, Numbered, Posted
  <2>2. \A u \in posted : u.id <= Cardinality(posted)
    BY DEF TypeInv, Numbered
  <2> QED
    BY <2>1, <2>2
<1> HIDE DEF t
<1>2. /\ TaskOnce(queue, work) /\ Apart(work) /\ \A v \in Worker : Fit(work[v], rows)
  BY DEF Opened
<1>3. PICK p, l : Progress(posted, queue, work, p, l) /\ Exact(posted, rows, p, l)
  BY DEF Opened
<1>4. \A v \in Worker : work[v] # Idle => work[v].task \in posted
  BY DEF TypeInv, DailyInv, WorkFits
<1> DEFINE p2 == [u \in Q |-> IF u = t THEN 0 ELSE p[u]]
           l2 == [u \in Q |-> IF u = t THEN 0 ELSE l[u]]
<1>5. /\ p2[t] = 0 /\ l2[t] = 0
      /\ \A u \in posted : p2[u] = p[u] /\ l2[u] = l[u]
  BY <1>1
<1>6. TaskOnce(queue', work)
  BY <1>0, <1>1, <1>2, <1>4 DEF TaskOnce
<1>7. /\ Posted(posted) /\ Far(posted, p) /\ Far(posted, l) /\ All(m) \in Nat
  BY <1>3, AllNat DEF TypeInv, Numbered, Progress, Far
<1>8. p2 \in [Q -> Nat] /\ l2 \in [Q -> Nat]
  BY <1>7 DEF Far
<1> HIDE DEF p2, l2
<1>9. Progress(Q, queue', work, p2, l2)
  <2>1. \A u \in Q : p2[u] \in 0..All(u.msg) /\ l2[u] \in 0..All(u.msg)
    BY <1>1, <1>5, <1>7 DEF Far
  <2>2. \A u \in queue' : p2[u] = 0 /\ l2[u] = 0
    BY <1>0, <1>3, <1>5 DEF Progress, TypeInv, DailyInv, PostingsFit
  <2>3. \A v \in Worker : work[v] # Idle => /\ p2[work[v].task] = Written(work[v])
                                            /\ l2[work[v].task] = Passed(work[v])
    BY <1>3, <1>4, <1>5 DEF Progress
  <2>4. \A u \in Q \ queue' : u \in posted \ queue
    BY <1>0
  <2>5. \A u \in Q \ queue' : (\A v \in Worker : work[v] # Idle => work[v].task # u) =>
                                 p2[u] = All(u.msg) /\ l2[u] = All(u.msg)
    BY <1>3, <1>5, <2>4 DEF Progress
  <2> QED
    BY <1>8, <2>1, <2>2, <2>3, <2>5 DEF Progress
<1>10. Exact(Q, rows, p2, l2)
  <2>1. ASSUME NEW u \in Q, NEW j \in 1..p2[u]
        PROVE  u.msg.day \in DOMAIN rows[Plan(u.msg)[j].series]
    <3>1. u # t
      BY <1>5, <2>1
    <3> QED
      BY <1>3, <1>5, <2>1, <3>1 DEF Exact
  <2>2. ASSUME NEW g, NEW h, \A u \in posted : g[u] \in Int /\ h[u] = g[u], h[t] = 0
        PROVE  Total(h, Q) = Total(g, posted)
    <3>1. IsFiniteSet(posted)
      BY <1>7 DEF Posted
    <3>2. Total(h, posted) = Total(g, posted)
      BY <2>2, <3>1, TotalSame
    <3>3. \A u \in Q : h[u] \in Int
      BY <2>2
    <3> HIDE DEF Q
    <3>4. Q = posted \cup {t}
      BY DEF Q
    <3>5. Total(h, posted) \in Int /\ Total(h, Q) = Total(h, posted) + h[t]
      BY <1>1, <3>1, <3>3, <3>4, TotalMore
    <3> QED
      BY <2>2, <3>2, <3>5
  <2>3. ASSUME NEW x \in AllSeries, NEW d \in DOMAIN rows[x], NEW c \in Column
        PROVE  rows[x][d][c] = Total(Nets(c, Q, x, d, p2), Q)
    <3> DEFINE g == Nets(c, posted, x, d, p)
               h == Nets(c, Q, x, d, p2)
    <3>1. \A u \in posted : g[u] \in Int
      BY <1>7, NetsInt
    <3>2. (\A u \in posted : h[u] = g[u]) /\ h[t] = 0
      BY <1>5, ShareNone DEF Nets
    <3>3. rows[x][d][c] = Total(g, posted)
      BY <1>3 DEF Exact
    <3> HIDE DEF g, h
    <3> QED
      BY <2>2, <3>1, <3>2, <3>3 DEF h
  <2>4. ASSUME NEW x \in AllSeries, NEW d \in DOMAIN rows[x]
        PROVE  rows[x][d].balance = Total(Bals(Q, x, d, p2, l2), Q)
    <3> DEFINE g == Bals(posted, x, d, p, l)
               h == Bals(Q, x, d, p2, l2)
    <3>1. \A u \in posted : g[u] \in Int
      BY <1>7, NetsInt
    <3>2. (\A u \in posted : h[u] = g[u]) /\ h[t] = 0
      BY <1>5, ShareNone DEF Bals
    <3>3. rows[x][d].balance = Total(g, posted)
      BY <1>3 DEF Exact
    <3> HIDE DEF g, h
    <3> QED
      BY <2>2, <3>1, <3>2, <3>3 DEF h
  <2> QED
    BY <2>1, <2>3, <2>4 DEF Exact
<1> QED
  BY <1>0, <1>2, <1>6, <1>9, <1>10 DEF Opened
------------------------------------------------------------------------------
\* When nothing is on its way, everything posted is in the rows.
LEMMA QuietExact ==
  ASSUME TypeInv, Opened(posted, queue, rows, work), Quiet
  PROVE  ColumnsAreExact /\ BalanceIsPrefixSum
<1>1. PICK p, l : Progress(posted, queue, work, p, l) /\ Exact(posted, rows, p, l)
  BY DEF Opened
<1>2. \A t \in posted : p[t] = All(t.msg) /\ l[t] = All(t.msg)
  BY <1>1 DEF Quiet, Progress
<1>3. Posted(posted) /\ \A t \in posted : t.msg \in Messages /\ t.msg.day \in Int
  BY MessageAssumption DEF TypeInv, Numbered, Posted, Day
<1>4. ASSUME NEW x \in AllSeries, NEW d \in DOMAIN rows[x], NEW c \in Column
      PROVE  rows[x][d][c] = SumOf(c, "day", x, d)
  <2> DEFINE g == Nets(c, posted, x, d, p)
             h == OnDay(c, "day", posted, x, d)
  <2>1. \A t \in posted : g[t] = h[t]
    BY <1>2 DEF Nets, OnDay
  <2>2. rows[x][d][c] = Total(g, posted)
    BY <1>1 DEF Exact
  <2>3. SumOf(c, "day", x, d) = Total(h, posted)
    BY <1>3, SumOfIs DEF Cut
  <2> HIDE DEF g, h
  <2>4. Total(g, posted) = Total(h, posted)
    BY <1>3, <2>1, TotalSame DEF Posted
  <2> QED
    BY <2>2, <2>3, <2>4
<1>6. ASSUME NEW x \in AllSeries, NEW d \in DOMAIN rows[x]
      PROVE  rows[x][d].balance = PrefixSum("day", x, d)
  <2> DEFINE b == Bals(posted, x, d, p, l)
             a == UpTo("day", posted, x, d)
  <2>0. d \in Nat /\ d \in Int /\ IsFiniteSet(posted)
    BY <1>3, DaysAre DEF TypeInv, Day, Posted
  <2>2. \A t \in posted : b[t] = a[t]
    <3>1. SUFFICES ASSUME NEW t \in posted PROVE b[t] = a[t]
      OBVIOUS
    <3> DEFINE c == t.msg.day
               s == Share("net", x, t.msg, All(t.msg))
    <3>2. c \in Int
      BY <1>3
    <3>3. b[t] = IF c = d THEN s ELSE IF c < d THEN s ELSE 0
      BY <1>2 DEF Bals
    <3>4. a[t] = IF c <= d THEN s ELSE 0
      BY DEF UpTo
    <3> HIDE DEF a, b, c, s
    <3> QED
      BY <2>0, <3>2, <3>3, <3>4
  <2>3. rows[x][d].balance = Total(b, posted)
    BY <1>1 DEF Exact
  <2>4. PrefixSum("day", x, d) = Total(a, posted)
    BY <1>3, <2>0, PrefixSumIs DEF Cut
  <2> HIDE DEF a, b
  <2>5. Total(b, posted) = Total(a, posted)
    BY <2>0, <2>2, TotalSame
  <2> QED
    BY <2>3, <2>4, <2>5
<1>5. ASSUME NEW x \in AllSeries PROVE PostedDays("day", x) \subseteq DOMAIN rows[x]
  <2>2. ASSUME NEW t \in posted, x \in SeriesOf(t.msg) PROVE t.msg.day \in DOMAIN rows[x]
    <3>1. PICK j \in 1..Len(Plan(t.msg)) : Plan(t.msg)[j].series = x
      BY <2>2 DEF SeriesOf
    <3>2. j \in 1..p[t]
      BY <1>2 DEF All
    <3> QED
      BY <1>1, <3>1, <3>2 DEF Exact
  <2> QED
    BY <2>2 DEF PostedDays
<1> QED
  BY <1>4, <1>5, <1>6 DEF ColumnsAreExact, BalanceIsPrefixSum, Column

\* The invariant of the discipline: as long as no call has failed and nothing
\* was resynced or recalculated.
OpenedInv == /\ TypeInv
             /\ events = 0 => recalc = Idle /\ Opened(posted, queue, rows, work)

\* It is inductive.
LEMMA OpenedKept ==
  ASSUME Order = "opened"
  PROVE  Spec => []OpenedInv
<1>1. Init => OpenedInv
  <2> SUFFICES ASSUME Init PROVE OpenedInv
    OBVIOUS
  <2>1. TypeInv
    BY InitTyped
  <2>2. TaskOnce(queue, work) /\ Apart(work) /\ \A w \in Worker : Fit(work[w], rows)
    BY DEF Init, TaskOnce, Apart, Fit
  <2> DEFINE p == [t \in {} |-> 0]
  <2>3. Progress(posted, queue, work, p, p)
    BY DEF Init, Progress
  <2>4. Exact(posted, rows, p, p)
    BY DEF Init, Exact
  <2> HIDE DEF p
  <2>5. Opened(posted, queue, rows, work)
    BY <2>2, <2>3, <2>4 DEF Opened
  <2> QED
    BY <2>1, <2>5 DEF OpenedInv, Init
<1>2. OpenedInv /\ [Next]_vars => OpenedInv'
  <2> SUFFICES ASSUME OpenedInv, [Next]_vars PROVE OpenedInv'
    OBVIOUS
  <2>1. TypeInv /\ TypeInv'
    BY StepTyped DEF OpenedInv
  <2>2. SUFFICES ASSUME events' = 0 PROVE recalc' = Idle /\ Opened(posted', queue', rows', work')
    BY <2>1 DEF OpenedInv
  <2>3. events \in Nat
    BY <2>1, BoundAssumption DEF TypeInv
  <2>4. CASE UNCHANGED vars
    BY <2>2, <2>4 DEF vars, OpenedInv
  <2>5. CASE Next
    <3>1. \/ \E m \in Messages : Post(m)
          \/ \E w \in Worker : Process(w)
          \/ Recalculate
      BY <2>2, <2>3, <2>5 DEF Next, Fail, Resync
    <3>2. events = 0
      <4>1. ASSUME NEW w \in Worker, Process(w) PROVE events' = events
        BY <4>1 DEF Process, Deliver, Update, ReadBefore, Insert, Conflict, After, Answer
      <4>2. ASSUME NEW m \in Messages, Post(m) PROVE events' = events
        BY <4>2 DEF Post
      <4>3. ASSUME Recalculate PROVE events' = events
        <5>1. ~RecalculateDaily
          BY <2>2, <2>3 DEF RecalculateDaily
        <5>2. ASSUME NEW j \in recalc.left, NextEntry(j) PROVE events' = events
          BY <5>2 DEF NextEntry
        <5>3. ASSUME Clear \/ AddEntry \/ SaveEntry \/ Recalculated \/ RecalculationFails
              PROVE  events' = events
          BY <5>3 DEF Clear, AddEntry, SaveEntry, Recalculated, RecalculationFails
        <5> QED
          BY <4>3, <5>1, <5>2, <5>3 DEF Recalculate
      <4> QED
        BY <2>2, <3>1, <4>1, <4>2, <4>3
    <3>3. recalc = Idle /\ Opened(posted, queue, rows, work)
      BY <3>2 DEF OpenedInv
    <3>4. ~Recalculate
      <4>1. recalc.pc = "idle"
        BY <3>3 DEF Idle
      <4>2. ~RecalculateDaily
        BY <2>2, <2>3 DEF RecalculateDaily
      <4> QED
        BY <3>3, <4>1, <4>2 DEF Recalculate, Clear, AddEntry, SaveEntry, Recalculated,
                                RecalculationFails
    <3>5. ASSUME NEW m \in Messages, Post(m)
          PROVE  recalc' = Idle /\ Opened(posted', queue', rows', work')
      BY <2>1, <3>3, <3>5, PostOpened DEF Post
    <3>6. ASSUME NEW w \in Worker, Process(w)
          PROVE  recalc' = Idle /\ Opened(posted', queue', rows', work')
      <4>1. recalc' = Idle
        BY <3>3, <3>6 DEF Process, Deliver, Disturbed, Update, ReadBefore, Insert, Conflict,
                          After, Answer
      <4>2. ~Conflict(w)
        BY <2>1, <3>3, InsertsAlone DEF Conflict
      <4>3. \/ \E t \in queue : Deliver(w, t)
            \/ Update(w) \/ ReadBefore(w) \/ Insert(w) \/ After(w) \/ Answer(w)
        BY <3>6, <4>2 DEF Process
      <4> QED
        BY <2>1, <3>3, <4>1, <4>3, DeliverOpened, UpdateOpened, ReadOpened, InsertOpened,
           AfterOpened, AnswerOpened
    <3> QED
      BY <3>1, <3>4, <3>5, <3>6
  <2> QED
    BY <2>4, <2>5
<1> QED
  BY <1>1, <1>2, PTL DEF Spec

\* The columns of a day are those of its own postings, on every day that has
\* any: as long as no call has failed and nothing was resynced, whenever
\* nothing is on its way.
THEOREM ColumnsExact ==
  ASSUME Order = "opened"
  PROVE  Spec => [](events = 0 => ColumnsAreExact)
<1>1. OpenedInv => (events = 0 => ColumnsAreExact)
  BY QuietExact DEF OpenedInv, ColumnsAreExact
<1> QED
  BY <1>1, OpenedKept, PTL

\* And every posting that reached a series is in the balance of its day and
\* of all later days, once.
THEOREM BalancesExact ==
  ASSUME Order = "opened"
  PROVE  Spec => [](events = 0 => BalanceIsPrefixSum)
<1>1. OpenedInv => (events = 0 => BalanceIsPrefixSum)
  BY QuietExact DEF OpenedInv, BalanceIsPrefixSum
<1> QED
  BY <1>1, OpenedKept, PTL
------------------------------------------------------------------------------
\* A series of an account, and what an entry adds to a row of it.
OfAccounts(x) == x[1] = "account"
Into(j, x, d) == AccountSeries(j) = x /\ j.task.msg.day = d

\* The entries that a recalculation has added.
Done(rc) == IF rc.pc = "next" THEN rc.read ELSE rc.read \ {rc.entry}

\* What an entry adds to the columns of a row: its amount, and its two sides.
Field == {"amount", "gross"}

\* Finitely many entries, of integers.
Entries(js) == IsFiniteSet(js) /\ \A j \in js, f \in Field : EntryOf(j)[f] \in Int

\* Their sum in a row, as a total.
LEMMA SumOfEntriesIs ==
  ASSUME NEW v \in Field, NEW js, Entries(js), NEW x, NEW d
  PROVE  SumOfEntries(v, x, d, js)
           = Total([j \in js |-> EntryOf(j)[v]], {j \in js : Into(j, x, d)})
<1> DEFINE S == {j \in js : AccountSeries(j) = x /\ j.task.msg.day = d}
           g == [j \in js |-> EntryOf(j)[v]]
           it == CHOOSE it : it = [s \in SUBSET S |-> IF s = {} THEN 0 ELSE
                      EntryOf(CHOOSE j \in s : TRUE)[v] + it[s \ {CHOOSE j \in s : TRUE}]]
<1>1. SumOfEntries(v, x, d, js) = it[S]
  BY DEF SumOfEntries, MapThenSumSet, MapThenFoldSet
<1>2. ASSUME NEW s \in SUBSET S, s # {} PROVE EntryOf(Pick(s))[v] = g[Pick(s)]
  <2>1. Pick(s) \in S
    BY <1>2, PickIn
  <2> QED
    BY <2>1
<1>0. IsFiniteSet(S)
  BY FS_Subset DEF Entries
<1>3. PICK f : Sums(f, g, SUBSET S)
  <2> HIDE DEF S, g
  <2> QED
    BY <1>0, SumsExists
<1>4. f = [s \in SUBSET S |-> IF s = {} THEN 0 ELSE
             EntryOf(CHOOSE j \in s : TRUE)[v] + f[s \ {CHOOSE j \in s : TRUE}]]
  <2> HIDE DEF g, S
  <2> QED
    BY <1>2, <1>3 DEF Sums, Pick
<1>5. it = [s \in SUBSET S |-> IF s = {} THEN 0 ELSE
             EntryOf(CHOOSE j \in s : TRUE)[v] + it[s \ {CHOOSE j \in s : TRUE}]]
  <2> DEFINE Rec(w) == [s \in SUBSET S |-> IF s = {} THEN 0 ELSE
        EntryOf(CHOOSE j \in s : TRUE)[v] + w[s \ {CHOOSE j \in s : TRUE}]]
  <2>1. f = Rec(f) /\ it = CHOOSE w : w = Rec(w)
    BY <1>4, Zenon
  <2> HIDE DEF Rec, it
  <2>2. it = Rec(it)
    BY <2>1, Zenon
  <2> QED
    BY <2>2, Zenon DEF Rec
<1> HIDE DEF it, g, S
<1>6. Sums(it, g, SUBSET S)
  BY <1>2, <1>5 DEF Sums, Pick
<1>7. Total(g, S) = it[S]
  BY <1>0, <1>6, TotalIs
<1> QED
  BY <1>1, <1>7 DEF g, S, Into

\* No entry into a row, nothing in it.
LEMMA NoEntries ==
  ASSUME NEW v \in Field, NEW js, Entries(js), NEW x, NEW d, \A j \in js : ~Into(j, x, d)
  PROVE  SumOfEntries(v, x, d, js) = 0
<1> DEFINE g == [j \in js |-> EntryOf(j)[v]]
           S == {j \in js : Into(j, x, d)}
<1>1. S = {}
  OBVIOUS
<1>2. SumOfEntries(v, x, d, js) = Total(g, S)
  BY SumOfEntriesIs
<1> HIDE DEF g, S
<1> QED
  BY <1>1, <1>2, TotalEmpty

\* One more entry.
More(js, j, ks) == ks = js \cup {j} /\ j \notin js

\* The sums with it.
LEMMA OneMoreEntry ==
  ASSUME NEW v \in Field, NEW js, NEW j, NEW ks, Entries(ks), More(js, j, ks), NEW x, NEW d
  PROVE  /\ SumOfEntries(v, x, d, js) \in Int
         /\ Into(j, x, d) => SumOfEntries(v, x, d, ks) = SumOfEntries(v, x, d, js) + EntryOf(j)[v]
         /\ ~Into(j, x, d) => SumOfEntries(v, x, d, ks) = SumOfEntries(v, x, d, js)
<1> DEFINE g == [k \in js |-> EntryOf(k)[v]]
           h == [k \in ks |-> EntryOf(k)[v]]
           S == {k \in js : Into(k, x, d)}
           T == {k \in ks : Into(k, x, d)}
<1>0. ks = js \cup {j} /\ j \notin js
  BY DEF More
<1>1. Entries(js)
  BY <1>0, FS_Subset DEF Entries
<1>2. SumOfEntries(v, x, d, js) = Total(g, S) /\ SumOfEntries(v, x, d, ks) = Total(h, T)
  BY <1>1, SumOfEntriesIs
<1>3. IsFiniteSet(S)
  BY <1>1, FS_Subset DEF Entries
<1>4. (\A k \in S : g[k] = h[k]) /\ (\A k \in T : h[k] \in Int) /\ (\A k \in S : g[k] \in Int)
  BY <1>0 DEF Entries
<1>5. j \notin S /\ h[j] = EntryOf(j)[v]
  BY <1>0
<1>6. /\ Into(j, x, d) => T = S \cup {j}
      /\ ~Into(j, x, d) => T = S
  BY <1>0
<1> HIDE DEF g, h, S, T
<1>7. Total(g, S) \in Int /\ Total(g, S) = Total(h, S)
  BY <1>3, <1>4, TotalType, TotalSame
<1>8. Into(j, x, d) => Total(h, T) = Total(h, S) + h[j]
  BY <1>3, <1>4, <1>5, <1>6, TotalMore
<1> QED
  BY <1>2, <1>5, <1>6, <1>7, <1>8
------------------------------------------------------------------------------
\* A row with the entries js in its columns, and one with entry j on top of them.
Filled(row, x, d, js) == /\ row.net = SumOfEntries("amount", x, d, js)
                         /\ row.gross = SumOfEntries("gross", x, d, js)
FilledUp(row, x, d, js, j) ==
  /\ row.net = SumOfEntries("amount", x, d, js) + EntryOf(j).amount
  /\ row.gross = SumOfEntries("gross", x, d, js) + EntryOf(j).gross

\* Then the row has one more entry.
LEMMA OneMoreFilled ==
  ASSUME NEW js, NEW j, NEW ks, Entries(ks), More(js, j, ks), NEW x, NEW d, NEW row
  PROVE  /\ Into(j, x, d) /\ FilledUp(row, x, d, js, j) => Filled(row, x, d, ks)
         /\ ~Into(j, x, d) /\ Filled(row, x, d, js) => Filled(row, x, d, ks)
<1>1. "amount" \in Field /\ "gross" \in Field
  BY DEF Field
<1>2. /\ Into(j, x, d) => SumOfEntries("amount", x, d, ks) = SumOfEntries("amount", x, d, js) + EntryOf(j).amount
      /\ ~Into(j, x, d) => SumOfEntries("amount", x, d, ks) = SumOfEntries("amount", x, d, js)
  BY <1>1, OneMoreEntry
<1>3. /\ Into(j, x, d) => SumOfEntries("gross", x, d, ks) = SumOfEntries("gross", x, d, js) + EntryOf(j).gross
      /\ ~Into(j, x, d) => SumOfEntries("gross", x, d, ks) = SumOfEntries("gross", x, d, js)
  BY <1>1, OneMoreEntry
<1> QED
  BY <1>2, <1>3 DEF Filled, FilledUp

\* The cleared rows of the accounts hold the entries js.
Holds(r, cleared, js) ==
  \A x \in AllSeries : OfAccounts(x) =>
    \A d \in DOMAIN r[x] : <<d, x[2]>> \in cleared => Filled(r[x][d], x, d, js)

\* The entries added have their row, and their day was cleared.
Added(r, rc) == \A j \in Done(rc) : /\ DayKey(j) \in rc.cleared
                                    /\ j.task.msg.day \in DOMAIN r[AccountSeries(j)]

\* The entry that is being added.
Adding(r, rc) ==
  rc.pc # "next" => /\ rc.entry \in rc.read
                    /\ rc.pc = "clear" <=> DayKey(rc.entry) \notin rc.cleared
                    /\ rc.pc = "save" => rc.entry.task.msg.day \notin DOMAIN r[AccountSeries(rc.entry)]

Recounted(r, rc) == /\ IsFiniteSet(rc.read) /\ rc.left \cap rc.read = {}
                    /\ Adding(r, rc)
                    /\ Added(r, rc)
                    /\ Holds(r, rc.cleared, Done(rc))

\* The invariant of a recalculation that nothing disturbs.
Undisturbed == /\ \A w \in Worker : work[w] = Idle
               /\ Recounted(rows, recalc)
RecalcInv == TypeInv /\ (recalc # Idle => (recalc.alone => Undisturbed))

\* The account of an entry is that of its row.
LEMMA SeriesOfEntry ==
  ASSUME NEW j
  PROVE  /\ OfAccounts(AccountSeries(j)) /\ AccountSeries(j)[2] = EntryOf(j).account
         /\ \A x, d : Into(j, x, d) => DayKey(j) = <<d, x[2]>>
         /\ DayKey(j) = <<j.task.msg.day, AccountSeries(j)[2]>>
  BY DEF AccountSeries, OfAccounts, Into, DayKey

\* The entries that were read have integer amounts.
LEMMA ReadEntries ==
  ASSUME TypeInv, recalc # Idle, NEW js \in SUBSET recalc.read, IsFiniteSet(recalc.read)
  PROVE  Entries(js)
<1>1. IsFiniteSet(js) /\ js \subseteq Journal
  BY FS_Subset DEF TypeInv, DailyInv, RecalcFits
<1>2. DailyInv
  BY DEF TypeInv
<1>3. ASSUME NEW j \in js, NEW f \in Field PROVE EntryOf(j)[f] \in Int
  <2>1. EntryOf(j).amount \in Int /\ EntryOf(j).gross \in Int
    BY <1>1, <1>2, EntryIs
  <2> QED
    BY <2>1 DEF Field
<1> QED
  BY <1>1, <1>3 DEF Entries

\* The row of an entry is written with its amount.
LEMMA HoldsMore ==
  ASSUME NEW r, NEW c, NEW js, Holds(r, c, js), NEW j, NEW ks, Entries(ks), More(js, j, ks),
         NEW x \in AllSeries, x = AccountSeries(j), NEW d, d = j.task.msg.day,
         NEW R, NEW row, Wrote(r, R, x, d, row),
         FilledUp(row, x, d, js, j)
  PROVE  Holds(R, c, ks)
<1> SUFFICES ASSUME NEW y \in AllSeries, OfAccounts(y), NEW e \in DOMAIN R[y], <<e, y[2]>> \in c
             PROVE  Filled(R[y][e], y, e, ks)
  BY DEF Holds
<1>1. CASE y = x /\ e = d
  <2>1. Into(j, x, d)
    BY DEF Into
  <2>2. Filled(row, x, d, ks)
    BY <2>1, OneMoreFilled
  <2>3. R[x][d] = row
    BY DEF Wrote
  <2> QED
    BY <1>1, <2>2, <2>3
<1>2. CASE ~(y = x /\ e = d)
  <2>1. ~Into(j, y, e)
    BY <1>2 DEF Into
  <2>2. e \in DOMAIN r[y] /\ R[y][e] = r[y][e]
    BY <1>2 DEF Wrote
  <2>3. Filled(r[y][e], y, e, js)
    BY <2>2 DEF Holds
  <2> QED
    BY <2>1, <2>2, <2>3, OneMoreFilled
<1> QED
  BY <1>1, <1>2

\* The UPDATE or the insert of an entry.
LEMMA EntryAdded ==
  ASSUME TypeInv, recalc # Idle, Recounted(rows, recalc), recalc.pc \in {"add", "save"},
         recalc' = [recalc EXCEPT !.pc = "next"],
         NEW row, Wrote(rows, rows', AccountSeries(recalc.entry), recalc.entry.task.msg.day, row),
         FilledUp(row, AccountSeries(recalc.entry), recalc.entry.task.msg.day,
                  Done(recalc), recalc.entry)
  PROVE  Recounted(rows', recalc')
<1> DEFINE j == recalc.entry
           x == AccountSeries(j)
           d == j.task.msg.day
           js == Done(recalc)
           ks == recalc.read
<1>1. DOMAIN recalc = {"pc", "left", "read", "cleared", "entry", "alone"} /\ j \in Journal
  BY DEF TypeInv, DailyInv, RecalcFits
<1>2. /\ recalc'.pc = "next" /\ recalc'.left = recalc.left /\ recalc'.read = ks
      /\ recalc'.cleared = recalc.cleared
  BY <1>1
<1>3. j \in ks /\ js = ks \ {j} /\ Done(recalc') = ks
  BY <1>2 DEF Done, Recounted, Adding
<1>4. More(js, j, ks)
  BY <1>3 DEF More
<1>5. Entries(ks) /\ x \in AllSeries
  BY <1>1, ReadEntries, EntryIs DEF Recounted, TypeInv
<1>6. DayKey(j) \in recalc.cleared
  BY DEF Recounted, Adding
<1>7. Wrote(rows, rows', x, d, row) /\ FilledUp(row, x, d, js, j)
  OBVIOUS
<1>8. Holds(rows, recalc.cleared, js)
  BY DEF Recounted
<1> HIDE DEF j, x, d, js, ks
<1>9. Holds(rows', recalc.cleared, ks)
  BY <1>4, <1>5, <1>7, <1>8, HoldsMore DEF x, d
<1>10. \A y \in AllSeries : DOMAIN rows[y] \subseteq DOMAIN rows'[y]
  BY <1>7 DEF Wrote
<1>11. Added(rows', recalc')
  <2> SUFFICES ASSUME NEW k \in ks
               PROVE  DayKey(k) \in recalc.cleared /\ k.task.msg.day \in DOMAIN rows'[AccountSeries(k)]
    BY <1>2, <1>3 DEF Added
  <2>1. CASE k = j
    BY <1>6, <1>7, <2>1 DEF Wrote, x, d
  <2>2. CASE k # j
    <3>1. k \in Done(recalc) /\ k \in Journal
      BY <1>3, <2>2 DEF TypeInv, DailyInv, RecalcFits, ks, js
    <3>2. DayKey(k) \in recalc.cleared /\ k.task.msg.day \in DOMAIN rows[AccountSeries(k)]
      BY <3>1 DEF Recounted, Added
    <3>3. AccountSeries(k) \in AllSeries
      BY <3>1, EntryIs DEF TypeInv
    <3> QED
      BY <1>10, <3>2, <3>3
  <2> QED
    BY <2>1, <2>2
<1> QED
  BY <1>2, <1>3, <1>9, <1>11 DEF Recounted, Adding, ks
------------------------------------------------------------------------------
\* The next entry is read.
LEMMA ReadRecounted ==
  ASSUME TypeInv, recalc # Idle, Recounted(rows, recalc), NEW j \in recalc.left, NextEntry(j)
  PROVE  Recounted(rows', recalc')
<1> DEFINE c == IF DayKey(j) \in recalc.cleared THEN "add" ELSE "clear"
<1>1. /\ recalc.pc = "next" /\ rows' = rows
      /\ recalc' = [recalc EXCEPT !.pc = c, !.left = @ \ {j}, !.read = @ \cup {j}, !.entry = j]
  BY DEF NextEntry
<1>2. DOMAIN recalc = {"pc", "left", "read", "cleared", "entry", "alone"}
  BY DEF TypeInv, DailyInv, RecalcFits
<1> DEFINE d == c
<1>3. d \in {"add", "clear"} /\ (d = "clear" <=> DayKey(j) \notin recalc.cleared)
  OBVIOUS
<1>4. c = d
  OBVIOUS
<1> HIDE DEF c, d
<1>5. /\ recalc'.pc = d /\ recalc'.left = recalc.left \ {j} /\ recalc'.read = recalc.read \cup {j}
      /\ recalc'.cleared = recalc.cleared /\ recalc'.entry = j
  BY <1>1, <1>2, <1>4
<1>6. j \notin recalc.read
  BY DEF Recounted
<1>7. Done(recalc) = recalc.read
  BY <1>1 DEF Done
<1>8. Done(recalc') = recalc.read
  BY <1>3, <1>5, <1>6 DEF Done
<1>9. IsFiniteSet(recalc'.read) /\ recalc'.left \cap recalc'.read = {}
  <2>1. IsFiniteSet(recalc.read \cup {j})
    BY FS_AddElement DEF Recounted
  <2> QED
    BY <1>5, <2>1 DEF Recounted
<1>11. Adding(rows', recalc')
  BY <1>3, <1>5 DEF Adding
<1>12. Added(rows', recalc') /\ Holds(rows', recalc'.cleared, Done(recalc'))
  <2>1. Added(rows, recalc) /\ Holds(rows, recalc.cleared, Done(recalc))
    BY DEF Recounted
  <2> QED
    BY <1>1, <1>5, <1>7, <1>8, <2>1 DEF Added
<1> QED
  BY <1>9, <1>11, <1>12 DEF Recounted

\* The rows of a day of an account are cleared: no entry of it was added yet.
LEMMA ClearRecounted ==
  ASSUME TypeInv, recalc # Idle, Recounted(rows, recalc), Clear
  PROVE  Recounted(rows', recalc')
<1> DEFINE j == recalc.entry
           d == j.task.msg.day
           hit == {x \in AllSeries : /\ x[1] = "account" /\ x[2] = EntryOf(j).account
                                     /\ d \in DOMAIN rows[x]}
           none(x) == [rows[x] EXCEPT ![d] = Cleared(@)]
<1>1. /\ recalc.pc = "clear"
      /\ rows' = [x \in AllSeries |-> IF x \in hit THEN none(x) ELSE rows[x]]
      /\ recalc' = [recalc EXCEPT !.pc = "add", !.cleared = @ \cup {DayKey(j)}]
  BY DEF Clear
<1>2. DOMAIN recalc = {"pc", "left", "read", "cleared", "entry", "alone"} /\ j \in Journal
  BY <1>1 DEF TypeInv, DailyInv, RecalcFits
<1>3. /\ recalc'.pc = "add" /\ recalc'.left = recalc.left /\ recalc'.read = recalc.read
      /\ recalc'.cleared = recalc.cleared \cup {DayKey(j)} /\ recalc'.entry = j
  BY <1>1, <1>2
<1>4. j \in recalc.read /\ DayKey(j) \notin recalc.cleared /\ Done(recalc') = Done(recalc)
  BY <1>1, <1>3 DEF Recounted, Adding, Done
<1>5. DayKey(j) = <<d, EntryOf(j).account>>
  BY DEF DayKey
<1>6. ASSUME NEW x \in hit
      PROVE  /\ DOMAIN none(x) = DOMAIN rows[x] /\ none(x)[d] = Cleared(rows[x][d])
             /\ \A e \in DOMAIN rows[x] \ {d} : none(x)[e] = rows[x][e]
  <2> HIDE DEF j
  <2> QED
    OBVIOUS
<1> HIDE DEF none, d
<1>7. \A x \in AllSeries : DOMAIN rows'[x] = DOMAIN rows[x]
  BY <1>1, <1>6
<1>8. Holds(rows', recalc'.cleared, Done(recalc'))
  <2> SUFFICES ASSUME NEW x \in AllSeries, OfAccounts(x), NEW e \in DOMAIN rows'[x],
                      <<e, x[2]>> \in recalc.cleared \cup {DayKey(j)}
               PROVE  Filled(rows'[x][e], x, e, Done(recalc))
    BY <1>3, <1>4 DEF Holds
  <2>0. e \in DOMAIN rows[x]
    BY <1>7
  <2>1. CASE <<e, x[2]>> = DayKey(j)
    <3>1. e = d /\ x \in hit
      BY <1>5, <2>0, <2>1 DEF OfAccounts
    <3>2. rows'[x][e] = Cleared(rows[x][e])
      BY <1>1, <1>6, <3>1
    <3>3. rows[x][e] \in Row
      BY <2>0 DEF TypeInv, RowsTyped
    <3>4. rows'[x][e].net = 0 /\ rows'[x][e].gross = 0
      BY <3>2, <3>3, ClearedTyped
    <3>5. \A k \in Done(recalc) : ~Into(k, x, e)
      BY <1>4, <2>1, SeriesOfEntry DEF Recounted, Added
    <3>6. Entries(Done(recalc))
      BY <1>1, ReadEntries DEF Recounted, Done
    <3> QED
      BY <3>4, <3>5, <3>6, NoEntries DEF Filled, Field
  <2>2. CASE <<e, x[2]>> # DayKey(j)
    <3>1. ~(x \in hit /\ e = d)
      BY <1>5, <2>2
    <3>2. rows'[x][e] = rows[x][e]
      BY <1>1, <1>6, <2>0, <3>1
    <3> QED
      BY <2>0, <2>2, <3>2 DEF Recounted, Holds
  <2> QED
    BY <2>1, <2>2
<1> HIDE DEF hit
<1>9. Added(rows', recalc')
  <2>1. \A k \in Done(recalc) : AccountSeries(k) \in AllSeries
    BY <1>1, EntryIs DEF Done, TypeInv, DailyInv, RecalcFits
  <2> QED
    BY <1>3, <1>4, <1>7, <2>1 DEF Recounted, Added
<1>11. Adding(rows', recalc')
  BY <1>3, <1>4 DEF Adding
<1> QED
  BY <1>3, <1>8, <1>9, <1>11 DEF Recounted

\* The UPDATE of the row of an entry, if there is one.
LEMMA AddRecounted ==
  ASSUME TypeInv, recalc # Idle, Recounted(rows, recalc), AddEntry
  PROVE  Recounted(rows', recalc')
<1> DEFINE j == recalc.entry
           x == AccountSeries(j)
           d == j.task.msg.day
           n == EntryOf(j).amount
           g == EntryOf(j).gross
<1>1. recalc.pc = "add"
  BY DEF AddEntry
<1>2. DOMAIN recalc = {"pc", "left", "read", "cleared", "entry", "alone"} /\ j \in Journal
  BY <1>1 DEF TypeInv, DailyInv, RecalcFits
<1>3. x \in AllSeries /\ n \in Int /\ g \in Int /\ DOMAIN rows = AllSeries /\ RowsTyped(rows)
  BY <1>2, EntryIs DEF TypeInv, DailyInv, RowsFit
<1>4. CASE d \in DOMAIN rows[x]
  <2> DEFINE row == rows[x][d]
             new == Plus(row, n, g)
  <2>1. /\ rows' = [rows EXCEPT ![x][d] = Plus(@, n, g)]
        /\ recalc' = [recalc EXCEPT !.pc = "next"]
    BY <1>4 DEF AddEntry
  <2>2. row \in Row
    BY <1>3, <1>4 DEF RowsTyped
  <2>3. Wrote(rows, rows', x, d, new)
    <3> HIDE DEF x, d, n, g, j
    <3> QED
      BY <1>3, <1>4, <2>1, Increments
  <2>4. new.net = row.net + n /\ new.gross = row.gross + g
    BY <1>3, <2>2, PlusTyped
  <2>5. Filled(row, x, d, Done(recalc))
    <3>1. OfAccounts(x) /\ <<d, x[2]>> = DayKey(j)
      BY SeriesOfEntry
    <3>2. DayKey(j) \in recalc.cleared
      BY <1>1 DEF Recounted, Adding
    <3> QED
      BY <1>3, <1>4, <3>1, <3>2 DEF Recounted, Holds
  <2>6. FilledUp(new, x, d, Done(recalc), j)
    BY <2>4, <2>5 DEF Filled, FilledUp
  <2> HIDE DEF new
  <2> QED
    BY <1>1, <2>1, <2>3, <2>6, EntryAdded
<1>5. CASE d \notin DOMAIN rows[x]
  <2>1. rows' = rows /\ recalc' = [recalc EXCEPT !.pc = "save"]
    BY <1>5 DEF AddEntry
  <2>2. /\ recalc'.pc = "save" /\ recalc'.left = recalc.left /\ recalc'.read = recalc.read
        /\ recalc'.cleared = recalc.cleared /\ recalc'.entry = recalc.entry
    BY <1>2, <2>1
  <2>3. Done(recalc') = Done(recalc)
    BY <1>1, <2>2 DEF Done
  <2>4. Adding(rows', recalc')
    BY <1>1, <1>5, <2>1, <2>2 DEF Recounted, Adding
  <2> QED
    BY <2>1, <2>2, <2>3, <2>4 DEF Recounted, Added
<1> QED
  BY <1>4, <1>5

\* The insert of its row, if there is none.
LEMMA SaveRecounted ==
  ASSUME TypeInv, recalc # Idle, Recounted(rows, recalc), SaveEntry, recalc' # Idle
  PROVE  Recounted(rows', recalc')
<1> DEFINE j == recalc.entry
           x == AccountSeries(j)
           d == j.task.msg.day
           n == EntryOf(j).amount
           g == EntryOf(j).gross
           row == NewRow(n, g, 0)
<1>1. recalc.pc = "save"
  BY DEF SaveEntry
<1>2. j \in Journal
  BY <1>1 DEF TypeInv, DailyInv, RecalcFits
<1>3. x \in AllSeries /\ n \in Int /\ g \in Int /\ DOMAIN rows = AllSeries
  BY <1>2, EntryIs DEF TypeInv, DailyInv, RowsFit
<1>4. d \notin DOMAIN rows[x]
  BY <1>1 DEF Recounted, Adding
<1>5. /\ rows' = [rows EXCEPT ![x] = [e \in DOMAIN @ \cup {d} |-> IF e = d THEN row ELSE @[e]]]
      /\ recalc' = [recalc EXCEPT !.pc = "next"]
  BY <1>4, Zenon DEF SaveEntry
<1>6. row.net = n /\ row.gross = g
  BY DEF NewRow
<1>7. Wrote(rows, rows', x, d, row)
  <2> HIDE DEF x, d, row, j
  <2> QED
    BY <1>3, <1>5, Inserts
<1>8. /\ SumOfEntries("amount", x, d, Done(recalc)) = 0
      /\ SumOfEntries("gross", x, d, Done(recalc)) = 0
  <2>1. \A k \in Done(recalc) : ~Into(k, x, d)
    BY <1>4 DEF Recounted, Added, Into
  <2>2. Entries(Done(recalc))
    BY <1>1, ReadEntries DEF Recounted, Done
  <2> HIDE DEF x, d
  <2> QED
    BY <2>1, <2>2, NoEntries DEF Field
<1>9. FilledUp(row, x, d, Done(recalc), j)
  BY <1>3, <1>6, <1>8 DEF FilledUp
<1> HIDE DEF row
<1> QED
  BY <1>1, <1>5, <1>7, <1>9, EntryAdded
------------------------------------------------------------------------------
\* The entry and the table of a position of a plan.
EntryAt(m, j) == ((j - 1) \div Width(m)) + 1
TableAt(m, j) == ((j - 1) % Width(m)) + 1

\* The three kinds of series of an entry.
LEMMA SeriesAt ==
  ASSUME NEW m \in Messages, NEW e, NEW k \in 1..Width(m)
  PROVE  Series(e, m.labels)[k] = IF k = 1 THEN <<"key", e.team>>
                                  ELSE IF k = 2 THEN <<"account", e.account, e.team>>
                                  ELSE <<"label", m.labels[k - 2], e.account, e.team>>
<1> DEFINE p == <<<<"key", e.team>>, <<"account", e.account, e.team>>>>
           q == [i \in 1..Len(m.labels) |-> <<"label", m.labels[i], e.account, e.team>>]
           S == {p[1], p[2]} \cup {q[i] : i \in 1..Len(m.labels)}
<1>1. /\ Len(p) = 2 /\ p[1] = <<"key", e.team>> /\ p[2] = <<"account", e.account, e.team>>
  OBVIOUS
<1>2. Len(m.labels) \in Nat /\ k \in 1..(2 + Len(m.labels))
  BY MessageAssumption DEF Width
<1>3. q \in Seq(S) /\ Len(q) = Len(m.labels)
  <2>1. q \in [1..Len(m.labels) -> S]
    OBVIOUS
  <2> HIDE DEF q, S
  <2> QED
    BY <1>2, <2>1
<1>4. p \in Seq(S)
  <2>1. p[1] \in S /\ p[2] \in S
    OBVIOUS
  <2> HIDE DEF S
  <2> QED
    BY <2>1
<1>5. Series(e, m.labels) = p \o q
  BY DEF Series
<1>6. k > 2 => q[k - 2] = <<"label", m.labels[k - 2], e.account, e.team>>
  BY <1>2
<1> HIDE DEF p, q, S
<1>7. \A u, v \in Seq(S) : \A i \in 1..(Len(u) + Len(v)) :
        (u \o v)[i] = IF i <= Len(u) THEN u[i] ELSE v[i - Len(u)]
  OBVIOUS
<1>8. k \in 1..(Len(p) + Len(q))
  BY <1>1, <1>2, <1>3
<1>9. (p \o q)[k] = IF k <= Len(p) THEN p[k] ELSE q[k - Len(p)]
  BY <1>3, <1>4, <1>7, <1>8
<1>10. CASE k = 1
  BY <1>1, <1>5, <1>9, <1>10
<1>11. CASE k = 2
  BY <1>1, <1>5, <1>9, <1>11
<1>12. CASE k > 2
  <2>1. k # 1 /\ k # 2 /\ ~(k <= Len(p)) /\ k - Len(p) = k - 2
    BY <1>1, <1>2, <1>12
  <2> QED
    BY <1>5, <1>6, <1>9, <1>12, <2>1
<1> QED
  BY <1>2, <1>10, <1>11, <1>12

\* A position of a plan is a table of one of the entries.
LEMMA PositionIs ==
  ASSUME NEW m \in Messages, NEW j \in 1..Len(Plan(m))
  PROVE  /\ EntryAt(m, j) \in 1..Len(m.entries) /\ TableAt(m, j) \in 1..Width(m)
         /\ Plan(m)[j].series = Series(m.entries[EntryAt(m, j)], m.labels)[TableAt(m, j)]
         /\ Plan(m)[j].net = m.entries[EntryAt(m, j)].amount
<1> DEFINE n == Len(m.entries)
           w == Width(m)
           k == j - 1
<1>1. w \in Nat \ {0} /\ n \in Nat \ {0} /\ Len(Plan(m)) = n * w
  BY PlanLength, MessageAssumption
<1>2. k \in Nat /\ k < n * w
  <2>1. n * w \in Nat
    BY <1>1, Times
  <2> HIDE DEF n, w
  <2> QED
    BY <1>1, <2>1
<1>3. /\ Plan(m)[j].series = Series(m.entries[EntryAt(m, j)], m.labels)[TableAt(m, j)]
      /\ Plan(m)[j].net = m.entries[EntryAt(m, j)].amount
  BY <1>1 DEF Plan, EntryAt, TableAt
<1>4. EntryAt(m, j) = (k \div w) + 1 /\ TableAt(m, j) = (k % w) + 1
  BY DEF EntryAt, TableAt
<1> HIDE DEF n, w, k
<1>5. k \div w \in 0..(n - 1)
  BY <1>1, <1>2, Quotient
<1>6. k % w \in 0..(w - 1)
  BY <1>1, <1>2
<1> QED
  BY <1>1, <1>3, <1>4, <1>5, <1>6 DEF n, w

\* A recalculation starts with the whole journal, and clears nothing before.
LEMMA StartRecounted ==
  ASSUME TypeInv, RecalculateDaily, recalc'.alone
  PROVE  (\A w \in Worker : work[w] = Idle) /\ Recounted(rows', recalc')
<1>1. /\ rows' = rows
      /\ recalc' = [pc |-> "next", left |-> Journal, read |-> {}, cleared |-> {},
                    entry |-> {}, alone |-> Quiet]
  BY DEF RecalculateDaily
<1>2. \A w \in Worker : work[w] = Idle
  BY <1>1 DEF Quiet
<1>3. /\ recalc'.pc = "next" /\ recalc'.left = Journal /\ recalc'.read = {} /\ recalc'.cleared = {}
  BY <1>1
<1>4. Done(recalc') = {}
  BY <1>3 DEF Done
<1> QED
  BY <1>2, <1>3, <1>4, FS_EmptySet DEF Recounted, Adding, Added, Holds

\* At the end the row of every entry that was read was cleared, and holds them all.
LEMMA RecountedExact ==
  ASSUME RecalcInv, Recalculated, recalc.alone
  PROVE  \A j \in recalc.read :
           /\ j.task.msg.day \in DOMAIN rows[AccountSeries(j)]
           /\ Filled(rows[AccountSeries(j)][j.task.msg.day], AccountSeries(j), j.task.msg.day, recalc.read)
<1>1. recalc.pc = "next"
  BY DEF Recalculated
<1>2. recalc # Idle
  BY <1>1 DEF Idle
<1>3. Recounted(rows, recalc) /\ Done(recalc) = recalc.read
  BY <1>1, <1>2 DEF RecalcInv, Undisturbed, Done
<1> SUFFICES ASSUME NEW j \in recalc.read
             PROVE  /\ j.task.msg.day \in DOMAIN rows[AccountSeries(j)]
                    /\ Filled(rows[AccountSeries(j)][j.task.msg.day], AccountSeries(j),
                              j.task.msg.day, recalc.read)
  OBVIOUS
<1> DEFINE x == AccountSeries(j)
           d == j.task.msg.day
<1>4. DayKey(j) \in recalc.cleared /\ d \in DOMAIN rows[x]
  BY <1>3 DEF Recounted, Added
<1>5. OfAccounts(x) /\ DayKey(j) = <<d, x[2]>>
  BY SeriesOfEntry
<1>6. x \in AllSeries
  <2>1. TypeInv /\ j \in Journal
    BY <1>2 DEF RecalcInv, TypeInv, DailyInv, RecalcFits
  <2> QED
    BY <2>1, EntryIs DEF TypeInv
<1> QED
  BY <1>3, <1>4, <1>5, <1>6 DEF Recounted, Holds
------------------------------------------------------------------------------
\* The invariant of recalculations is inductive.
LEMMA RecalcStep ==
  ASSUME RecalcInv, [Next]_vars
  PROVE  RecalcInv'
<1>1. TypeInv /\ TypeInv'
  BY StepTyped DEF RecalcInv
<1> SUFFICES ASSUME recalc' # Idle, recalc'.alone PROVE Undisturbed'
  BY <1>1 DEF RecalcInv
<1>2. /\ recalc # Idle => DOMAIN recalc = {"pc", "left", "read", "cleared", "entry", "alone"}
      /\ recalc # Idle /\ recalc.alone => Undisturbed
  BY <1>1 DEF RecalcInv, TypeInv, DailyInv, RecalcFits
<1>3. ASSUME rows' = rows, work' = work, recalc' = recalc PROVE Undisturbed'
  BY <1>2, <1>3 DEF Undisturbed
<1>4. ASSUME recalc' = Disturbed PROVE FALSE
  BY <1>2, <1>4 DEF Disturbed
<1>5. CASE UNCHANGED vars
  BY <1>3, <1>5 DEF vars
<1>6. ASSUME NEW m \in Messages, Post(m) PROVE Undisturbed'
  BY <1>3, <1>6 DEF Post
<1>7. ASSUME NEW w \in Worker, Process(w) \/ Fail(w) PROVE Undisturbed'
  <2>1. CASE \E t \in queue : Deliver(w, t)
    BY <1>4, <2>1 DEF Deliver
  <2>2. CASE ~\E t \in queue : Deliver(w, t)
    <3>1. recalc' = recalc /\ work[w] # Idle
      <4>1. CASE Update(w) \/ ReadBefore(w) \/ Insert(w) \/ Conflict(w)
        BY <4>1 DEF Update, ReadBefore, Insert, Conflict, Idle
      <4>2. CASE After(w) \/ Answer(w)
        BY <4>2 DEF After, Answer, Idle
      <4>3. CASE Fail(w)
        BY <4>3 DEF Fail
      <4> QED
        BY <1>7, <2>2, <4>1, <4>2, <4>3 DEF Process
    <3> QED
      BY <1>2, <3>1 DEF Undisturbed
  <2> QED
    BY <2>1, <2>2
<1>8. ASSUME NEW table \in {"key", "account"}, NEW startsLast \in BOOLEAN,
             Resync(table, startsLast)
      PROVE  Undisturbed'
  BY <1>4, <1>8 DEF Resync
<1>9. CASE RecalculateDaily
  <2>1. work' = work
    BY <1>9 DEF RecalculateDaily
  <2> QED
    BY <1>1, <1>9, <2>1, StartRecounted DEF Undisturbed
<1>10. CASE Recalculate /\ ~RecalculateDaily
  <2>1. recalc # Idle /\ work' = work
    <3>1. CASE \E j \in recalc.left : recalc # Idle /\ NextEntry(j)
      BY <3>1, Zenon DEF NextEntry
    <3>2. CASE Clear \/ AddEntry \/ SaveEntry
      <4>1. recalc.pc # "idle" /\ work' = work
        <5>1. CASE Clear
          BY <5>1, Zenon DEF Clear
        <5>2. CASE AddEntry \/ SaveEntry
          BY <5>2, Zenon DEF AddEntry, SaveEntry
        <5> QED
          BY <3>2, <5>1, <5>2
      <4>2. recalc.pc # "idle" => recalc # Idle
        BY DEF Idle
      <4> QED
        BY <4>1, <4>2
    <3>5. CASE Recalculated \/ RecalculationFails
      BY <3>5 DEF Recalculated, RecalculationFails
    <3> QED
      BY <1>10, <3>1, <3>2, <3>5 DEF Recalculate
  <2>2. recalc.alone
    <3>1. \/ \E j \in recalc.left : NextEntry(j)
          \/ Clear \/ AddEntry \/ SaveEntry
      BY <1>10 DEF Recalculate, Recalculated, RecalculationFails
    <3>2. ASSUME NEW j \in recalc.left, NextEntry(j) PROVE recalc'.alone = recalc.alone
      <4> DEFINE c == IF DayKey(j) \in recalc.cleared THEN "add" ELSE "clear"
      <4>1. recalc' = [recalc EXCEPT !.pc = c, !.left = @ \ {j}, !.read = @ \cup {j}, !.entry = j]
        BY <3>2 DEF NextEntry
      <4> HIDE DEF c
      <4> QED
        BY <1>2, <2>1, <4>1
    <3>3. ASSUME Clear PROVE recalc'.alone = recalc.alone
      <4>1. recalc' = [recalc EXCEPT !.pc = "add", !.cleared = @ \cup {DayKey(recalc.entry)}]
        BY <3>3, Zenon DEF Clear
      <4> QED
        BY <1>2, <2>1, <4>1
    <3>4. ASSUME AddEntry \/ SaveEntry PROVE recalc'.alone = recalc.alone
      <4>1. recalc' = [recalc EXCEPT !.pc = "next"] \/ recalc' = [recalc EXCEPT !.pc = "save"]
        BY <3>4 DEF AddEntry, SaveEntry
      <4> QED
        BY <1>2, <2>1, <4>1
    <3> QED
      BY <3>1, <3>2, <3>3, <3>4
  <2>3. Undisturbed
    BY <1>2, <2>1, <2>2
  <2>4. Recounted(rows, recalc) /\ \A w \in Worker : work'[w] = Idle
    BY <2>1, <2>3 DEF Undisturbed
  <2>5. Recounted(rows', recalc')
    <3>1. ASSUME NEW j \in recalc.left, NextEntry(j) PROVE Recounted(rows', recalc')
      BY <1>1, <2>1, <2>4, <3>1, ReadRecounted
    <3> QED
      BY <1>1, <1>10, <2>1, <2>4, <3>1, ClearRecounted, AddRecounted, SaveRecounted
         DEF Recalculate, Recalculated, RecalculationFails
  <2> QED
    BY <2>4, <2>5 DEF Undisturbed
<1> QED
  BY <1>5, <1>6, <1>7, <1>8, <1>9, <1>10 DEF Next

\* A recalculation that nothing disturbs leaves in the columns of every day of
\* an account of which it has read an entry, in every team's book, the sides as
\* saved of all those entries.
THEOREM Recalculates == Spec => RecalculationIsExact
<1>1. Init => RecalcInv
  BY InitTyped DEF Init, RecalcInv
<1>2. RecalcInv /\ [Next]_vars => RecalcInv'
  BY RecalcStep
<1>3. RecalcInv => (Recalculated /\ recalc.alone =>
        \A j \in recalc.read :
          LET x == AccountSeries(j)
              d == j.task.msg.day
          IN /\ d \in DOMAIN rows[x]
             /\ rows[x][d].net = SumOfEntries("amount", x, d, recalc.read)
             /\ rows[x][d].gross = SumOfEntries("gross", x, d, recalc.read))
  BY RecountedExact DEF Filled
<1> QED
  BY <1>1, <1>2, <1>3, PTL DEF Spec, RecalculationIsExact
------------------------------------------------------------------------------
\* What a division and its remainder are, one number earlier.
LEMMA Remainder ==
  ASSUME NEW n \in Nat, NEW w \in Nat \ {0}
  PROVE  n = (n \div w) * w + (n % w) /\ n \div w \in Nat /\ n % w \in 0..(w - 1)
  OBVIOUS

\* The quotient and the remainder of the number before.
LEMMA Earlier ==
  ASSUME NEW n \in Nat \ {0}, NEW w \in Nat \ {0, 1}
  PROVE  /\ n % w > 0 => (n - 1) % w = (n % w) - 1 /\ (n - 1) \div w = n \div w
         /\ n % w = 0 => (n - 1) % w = w - 1
<1> DEFINE q == n \div w
           r == n % w
<1>1. n = q * w + r /\ q \in Nat /\ r \in 0..(w - 1)
  BY Remainder
<1> HIDE DEF q, r
<1>2. q * w \in Nat
  BY <1>1, Times
<1>3. CASE r > 0
  <2>1. n - 1 = q * w + (r - 1) /\ r - 1 \in 0..(w - 1)
    BY <1>1, <1>2, <1>3
  <2>2. (q * w + (r - 1)) \div w = q /\ (q * w + (r - 1)) % w = r - 1
    <3> DEFINE s == r - 1
    <3>1. s \in 0..(w - 1)
      BY <2>1
    <3> HIDE DEF s
    <3>2. (q * w + s) \div w = q /\ (q * w + s) % w = s
      BY <1>1, <1>2, <3>1, Division
    <3> QED
      BY <3>2 DEF s
  <2> QED
    BY <1>3, <2>1, <2>2 DEF q, r
<1>4. CASE r = 0
  <2> DEFINE p == q - 1
             s == w - 1
  <2>1. q # 0
    BY <1>1, <1>4
  <2>2. p \in Nat /\ s \in 0..(w - 1)
    BY <1>1, <2>1
  <2>3. p * w \in Nat
    BY <2>2, Times
  <2>4. q * w = p * w + w
    BY <1>1
  <2> HIDE DEF p
  <2>5. n - 1 = p * w + s
    BY <1>1, <1>4, <2>3, <2>4
  <2> HIDE DEF s
  <2>6. (p * w + s) % w = s
    BY <2>2, <2>3, Division
  <2> QED
    BY <1>4, <2>5, <2>6 DEF r, s
<1> QED
  BY <1>1, <1>3, <1>4 DEF r

\* The tables of an entry follow each other in a plan.
LEMMA TablesFollow ==
  ASSUME NEW m \in Messages, NEW j \in 1..All(m)
  PROVE  /\ TableAt(m, 1) = 1
         /\ TableAt(m, j) = 2 => /\ j > 1 /\ TableAt(m, j - 1) = 1
                                 /\ EntryAt(m, j - 1) = EntryAt(m, j)
         /\ TableAt(m, j) # 2 /\ j > 1 => TableAt(m, j - 1) # 1
         /\ TableAt(m, All(m)) # 1
<1> DEFINE w == Width(m)
           n == Len(m.entries)
           k == j - 1
<1>1. w \in Nat \ {0, 1} /\ n \in Nat \ {0} /\ All(m) = n * w /\ All(m) \in Nat
  BY PlanLength, AllNat, MessageAssumption DEF All
<1>2. k \in Nat /\ j \in Nat /\ k = j - 1 /\ j = k + 1
  BY <1>1
<1>3. EntryAt(m, j) = (k \div w) + 1 /\ TableAt(m, j) = (k % w) + 1
  BY DEF EntryAt, TableAt
<1>4. EntryAt(m, j - 1) = ((k - 1) \div w) + 1 /\ TableAt(m, j - 1) = ((k - 1) % w) + 1
  BY DEF EntryAt, TableAt
<1>5. TableAt(m, 1) = (0 % w) + 1 /\ 0 % w = 0
  <2>1. 0 * w = 0 /\ 0 \in 0..(w - 1)
    BY <1>1
  <2>2. (0 * w + 0) % w = 0
    BY <1>1, <2>1, Division
  <2>3. TableAt(m, 1) = ((1 - 1) % w) + 1
    BY DEF TableAt
  <2> QED
    BY <2>1, <2>2, <2>3
<1>6. TableAt(m, All(m)) = ((n * w - 1) % w) + 1 /\ (n * w - 1) % w = w - 1
  <2> DEFINE p == n - 1
             s == w - 1
  <2>1. p \in Nat /\ s \in 0..(w - 1) /\ w \in Nat \ {0}
    BY <1>1
  <2>2. p * w \in Nat /\ n * w = p * w + w /\ n * w \in Nat
    BY <1>1, <2>1, Times
  <2> HIDE DEF p
  <2>3. n * w - 1 = p * w + s
    BY <1>1, <2>2
  <2> HIDE DEF s
  <2>4. (p * w + s) % w = s
    BY <2>1, <2>2, Division
  <2>5. TableAt(m, All(m)) = ((n * w - 1) % w) + 1
    BY <1>1 DEF TableAt
  <2> QED
    BY <2>3, <2>4, <2>5 DEF s
<1> HIDE DEF w, n, k
<1>7. k # 0 => /\ k % w > 0 => (k - 1) % w = (k % w) - 1 /\ (k - 1) \div w = k \div w
               /\ k % w = 0 => (k - 1) % w = w - 1
  BY <1>1, <1>2, Earlier
<1>8. k % w \in 0..(w - 1)
  BY <1>1, <1>2, Remainder
<1>9. TableAt(m, j) = 2 => /\ j > 1 /\ TableAt(m, j - 1) = 1
                           /\ EntryAt(m, j - 1) = EntryAt(m, j)
  <2> SUFFICES ASSUME TableAt(m, j) = 2
               PROVE  j > 1 /\ TableAt(m, j - 1) = 1 /\ EntryAt(m, j - 1) = EntryAt(m, j)
    OBVIOUS
  <2>1. k % w = 1
    BY <1>3, <1>8
  <2>2. k # 0
    BY <1>5, <2>1
  <2>3. (k - 1) % w = 0 /\ (k - 1) \div w = k \div w
    BY <1>7, <2>1, <2>2
  <2> QED
    BY <1>2, <1>3, <1>4, <2>2, <2>3
<1>10. ASSUME TableAt(m, j) # 2, j > 1 PROVE TableAt(m, j - 1) # 1
  <2>1. k # 0 /\ k % w # 1
    BY <1>2, <1>3, <1>10
  <2>2. (k - 1) % w # 0
    BY <1>1, <1>7, <1>8, <2>1
  <2>3. (k - 1) % w \in Int
    BY <1>1, <1>7, <1>8, <2>1
  <2> QED
    BY <1>4, <2>2, <2>3
<1> QED
  BY <1>1, <1>5, <1>6, <1>9, <1>10
------------------------------------------------------------------------------
\* The accounts of the key in the book of a team.
AccountsOf(t) == {x \in AllSeries : x[1] = "account" /\ x[3] = t}

\* Position j of a plan is one of the key's, or of one of the accounts.
LEMMA KeyOrAccount ==
  ASSUME NEW m \in Messages, NEW j \in 1..All(m), NEW t
  PROVE  /\ Plan(m)[j].series = <<"key", t>> <=>
              TableAt(m, j) = 1 /\ m.entries[EntryAt(m, j)].team = t
         /\ Plan(m)[j].series \in AccountsOf(t) <=>
              TableAt(m, j) = 2 /\ m.entries[EntryAt(m, j)].team = t
<1> DEFINE e == m.entries[EntryAt(m, j)]
           c == TableAt(m, j)
           x == Plan(m)[j].series
<1>1. j \in 1..Len(Plan(m))
  BY DEF All
<1>2. c \in 1..Width(m) /\ x = Series(e, m.labels)[c] /\ x \in AllSeries
  BY <1>1, PositionIs, PlanRow
<1> HIDE DEF c, e, x
<1>3. x = IF c = 1 THEN <<"key", e.team>>
          ELSE IF c = 2 THEN <<"account", e.account, e.team>>
          ELSE <<"label", m.labels[c - 2], e.account, e.team>>
  BY <1>2, SeriesAt
<1>4. CASE c = 1
  BY <1>3, <1>4 DEF AccountsOf, c, e, x
<1>5. CASE c = 2
  BY <1>2, <1>3, <1>5 DEF AccountsOf, c, e, x
<1>6. CASE c # 1 /\ c # 2
  <2>1. x[1] = "label"
    BY <1>3, <1>6
  <2>2. x # <<"key", t>> /\ x \notin AccountsOf(t)
    BY <2>1 DEF AccountsOf
  <2> QED
    BY <1>6, <2>2 DEF c, x
<1> QED
  BY <1>4, <1>5, <1>6

\* What the first k positions of a plan add to the accounts.
Shares(Y, m, k) == [y \in Y |-> Share("net", y, m, k)]

\* One more position adds its amount to the accounts, if it is one of theirs.
LEMMA SharesNext ==
  ASSUME NEW m \in Messages, NEW j \in 1..All(m), NEW Y, IsFiniteSet(Y),
         NEW n, n = IF Plan(m)[j].series \in Y THEN Plan(m)[j].net ELSE 0
  PROVE  /\ Total(Shares(Y, m, j - 1), Y) \in Int /\ n \in Int
         /\ Total(Shares(Y, m, j), Y) = Total(Shares(Y, m, j - 1), Y) + n
<1> DEFINE g == Shares(Y, m, j - 1)
           h == Shares(Y, m, j)
           x == Plan(m)[j].series
           a == Plan(m)[j].net
<1>1. a \in Int
  BY PlanRow DEF All
<1>2. \A y \in Y : g[y] \in Int /\ h[y] = g[y] + (IF x = y THEN a ELSE 0)
  BY ShareNext, NetIsColumn DEF Shares
<1> HIDE DEF g, h, x, a
<1>3. Total(g, Y) \in Int
  BY <1>2, TotalType
<1>4. CASE x \in Y
  <2>1. Changed(Y, g, h, x, a)
    BY <1>1, <1>2, <1>4 DEF Changed
  <2>2. Total(h, Y) = Total(g, Y) + a
    BY <1>1, <1>4, <2>1, TotalChange
  <2> QED
    BY <1>1, <1>3, <1>4, <2>2 DEF g, h, x, a
<1>5. CASE x \notin Y
  <2>1. \A y \in Y : g[y] = h[y]
    BY <1>2, <1>5
  <2>2. Total(h, Y) = Total(g, Y)
    BY <2>1, TotalSame
  <2> QED
    BY <1>3, <1>5, <2>2 DEF g, h, x
<1> QED
  BY <1>4, <1>5

\* The key's row of an entry comes first, the account's next: between them
\* the accounts are one amount behind.
Behind(m, t, k) == IF k > 0 /\ TableAt(m, k) = 1 /\ m.entries[EntryAt(m, k)].team = t
                   THEN m.entries[EntryAt(m, k)].amount ELSE 0

\* At the end of a plan they have caught up.
LEMMA KeyShare ==
  ASSUME NEW m \in Messages, NEW t, IsFiniteSet(AccountsOf(t))
  PROVE  Total(Shares(AccountsOf(t), m, All(m)), AccountsOf(t)) = Share("net", <<"key", t>>, m, All(m))
<1> DEFINE Y == AccountsOf(t)
           x == <<"key", t>>
           S(k) == Total(Shares(Y, m, k), Y)
           K(k) == Share("net", x, m, k)
           N == {k \in Nat : k <= All(m) => K(k) = S(k) + Behind(m, t, k)}
<1>0. All(m) \in Nat
  BY AllNat
<1>1. 0 \in N
  <2>1. K(0) = 0
    BY ShareNone
  <2>2. S(0) = 0
    <3>1. \A y \in Y : Shares(Y, m, 0)[y] = 0
      BY ShareNone DEF Shares
    <3> QED
      BY <3>1, TotalZero
  <2>3. Behind(m, t, 0) = 0
    BY DEF Behind
  <2> HIDE DEF S, K
  <2> QED
    BY <2>1, <2>2, <2>3
<1>2. ASSUME NEW k \in N PROVE k + 1 \in N
  <2>0. k \in Nat
    OBVIOUS
  <2> SUFFICES ASSUME k + 1 <= All(m) PROVE K(k + 1) = S(k + 1) + Behind(m, t, k + 1)
    BY <2>0
  <2> DEFINE j == k + 1
             e == m.entries[EntryAt(m, j)]
             c == TableAt(m, j)
             a == e.amount
  <2>1. j \in 1..All(m) /\ j - 1 = k /\ j > 0 /\ k <= All(m)
    BY <1>0, <2>0
  <2>2. K(k) = S(k) + Behind(m, t, k)
    BY <2>0, <2>1
  <2>3. /\ K(k) \in Int
        /\ K(j) = K(k) + (IF Plan(m)[j].series = x THEN Plan(m)[j].net ELSE 0)
    <3> HIDE DEF j, x
    <3>1. /\ Share("net", x, m, j - 1) \in Int
          /\ Share("net", x, m, j) = Share("net", x, m, j - 1)
                              + (IF Plan(m)[j].series = x THEN Plan(m)[j].net ELSE 0)
      BY <2>1, ShareNext, NetIsColumn
    <3> QED
      BY <2>1, <3>1
  <2>4. /\ S(k) \in Int
        /\ S(j) = S(k) + (IF Plan(m)[j].series \in Y THEN Plan(m)[j].net ELSE 0)
    <3> DEFINE n == IF Plan(m)[j].series \in Y THEN Plan(m)[j].net ELSE 0
    <3>1. n = IF Plan(m)[j].series \in Y THEN Plan(m)[j].net ELSE 0
      OBVIOUS
    <3> HIDE DEF j, Y, n
    <3>2. /\ Total(Shares(Y, m, j - 1), Y) \in Int
          /\ Total(Shares(Y, m, j), Y) = Total(Shares(Y, m, j - 1), Y) + n
      BY <2>1, <3>1, SharesNext DEF Y
    <3> QED
      BY <2>1, <3>1, <3>2
  <2>5. Plan(m)[j].net = a /\ a \in Int
    <3>1. j \in 1..Len(Plan(m))
      BY <2>1 DEF All
    <3> HIDE DEF j
    <3>2. Plan(m)[j].net = a /\ Plan(m)[j].net \in Int
      BY <3>1, PositionIs, PlanRow
    <3> QED
      BY <3>2
  <2>6. /\ Plan(m)[j].series = x <=> c = 1 /\ e.team = t
        /\ Plan(m)[j].series \in Y <=> c = 2 /\ e.team = t
    <3> HIDE DEF j
    <3> QED
      BY <2>1, KeyOrAccount
  <2>7. /\ c = 2 => j > 1 /\ TableAt(m, k) = 1 /\ EntryAt(m, k) = EntryAt(m, j)
        /\ c # 2 /\ j > 1 => TableAt(m, k) # 1
    <3> HIDE DEF j
    <3>1. /\ TableAt(m, j) = 2 => /\ j > 1 /\ TableAt(m, j - 1) = 1
                                 /\ EntryAt(m, j - 1) = EntryAt(m, j)
          /\ TableAt(m, j) # 2 /\ j > 1 => TableAt(m, j - 1) # 1
      BY <2>1, TablesFollow
    <3> QED
      BY <2>1, <3>1
  <2>8. Behind(m, t, j) = IF c = 1 /\ e.team = t THEN a ELSE 0
    BY <2>1 DEF Behind
  <2>9. Behind(m, t, k) = IF c = 2 /\ e.team = t THEN a ELSE 0
    <3>1. CASE c = 2
      <4>1. k > 0
        BY <2>0, <2>7, <3>1
      <4> HIDE DEF j
      <4> QED
        BY <2>7, <3>1, <4>1 DEF Behind
    <3>2. CASE c # 2
      <4>1. k > 0 => j > 1
        BY <2>0
      <4> HIDE DEF j
      <4> QED
        BY <2>7, <3>2, <4>1 DEF Behind
    <3> QED
      BY <3>1, <3>2
  <2> HIDE DEF S, K, Y, x, a, c, e, j
  <2>10. K(j) = S(j) + Behind(m, t, j)
    BY <2>2, <2>3, <2>4, <2>5, <2>6, <2>8, <2>9
  <2> QED
    BY <2>10 DEF j
<1>3. N = Nat
  <2>1. N \subseteq Nat
    OBVIOUS
  <2> HIDE DEF N
  <2> QED
    BY <1>1, <1>2, <2>1, NatSet
<1>4. K(All(m)) = S(All(m)) + Behind(m, t, All(m))
  BY <1>0, <1>3
<1>5. All(m) \in 1..All(m)
  BY <1>0, PlanLength DEF All
<1>6. Behind(m, t, All(m)) = 0
  BY <1>5, TablesFollow DEF Behind
<1>7. S(All(m)) \in Int
  <2>1. \A y \in Y : Shares(Y, m, All(m))[y] \in Int
    BY <1>0, <1>5, ShareInt, NetIsColumn DEF Shares
  <2> QED
    BY <2>1, TotalType
<1> HIDE DEF S, K
<1>8. K(All(m)) = S(All(m))
  BY <1>4, <1>6, <1>7
<1> QED
  BY <1>8 DEF S, K
------------------------------------------------------------------------------
\* The balance of an account at the end of a day, and of all accounts.
BalanceAt(y, d) == IF \E e \in DOMAIN rows[y] : e <= d
                   THEN rows[y][Max({e \in DOMAIN rows[y] : e <= d})].balance
                   ELSE 0

\* It is what was posted to the account up to that day.
LEMMA BalanceAtIs ==
  ASSUME TypeInv, Quiet, ColumnsAreExact, BalanceIsPrefixSum, NEW y \in AllSeries, NEW d \in Int
  PROVE  BalanceAt(y, d) = Total(UpTo("day", posted, y, d), posted) /\ BalanceAt(y, d) \in Int
<1> DEFINE S == {e \in DOMAIN rows[y] : e <= d}
           g == UpTo("day", posted, y, d)
<1>0. /\ Posted(posted) /\ IsFiniteSet(posted)
      /\ \A u \in posted : u.msg.day \in Int /\ u.msg \in Messages
  BY MessageAssumption DEF TypeInv, Numbered, Posted, Day
<1>1. DOMAIN rows[y] \subseteq Day /\ DOMAIN rows[y] \subseteq Int
  BY DaysAre DEF TypeInv
<1>2. ASSUME NEW u \in posted, u.msg.day \notin DOMAIN rows[y] PROVE Share("net", y, u.msg, All(u.msg)) = 0
  <2>1. y \notin SeriesOf(u.msg)
    BY <1>2 DEF ColumnsAreExact, PostedDays
  <2>2. All(u.msg) \in Nat /\ u.msg \in Messages
    BY <1>0, AllNat
  <2>3. \A j \in 1..All(u.msg) : Plan(u.msg)[j].series # y
    BY <2>1 DEF SeriesOf, All
  <2>4. All(u.msg) \in 0..All(u.msg)
    BY <2>2
  <2> QED
    BY <2>2, <2>3, <2>4, ShareZero, NetIsColumn
<1>3. \A u \in posted :
        g[u] \in Int /\ g[u] = IF u.msg.day <= d THEN Share("net", y, u.msg, All(u.msg)) ELSE 0
  BY <1>0, WholeInt, NetIsColumn DEF UpTo, Cut
<1>4. CASE S = {}
  <2>1. \A u \in posted : g[u] = 0
    <3>1. \A u \in posted : u.msg.day <= d => u.msg.day \notin DOMAIN rows[y]
      BY <1>4
    <3> QED
      BY <1>2, <1>3, <3>1
  <2> HIDE DEF g
  <2>2. Total(g, posted) = 0
    BY <1>0, <2>1, TotalZero
  <2>3. BalanceAt(y, d) = 0
    BY <1>4 DEF BalanceAt
  <2> QED
    BY <2>2, <2>3 DEF g
<1>5. CASE S # {}
  <2> DEFINE e == Max(S)
             h == UpTo("day", posted, y, e)
  <2>1. e \in S /\ \A f \in S : e >= f
    <3>1. S \subseteq Int /\ (\A f \in S : f < d + 1) /\ d + 1 \in Int
      BY <1>1
    <3> HIDE DEF S
    <3> QED
      BY <1>5, <3>1, MaxEarlier
  <2>2. e \in DOMAIN rows[y] /\ e \in Int /\ e \in Nat /\ e <= d
    BY <1>1, <2>1 DEF Day
  <2>3. BalanceAt(y, d) = rows[y][e].balance
    BY <1>5 DEF BalanceAt
  <2> HIDE DEF e
  <2>4. rows[y][e].balance = PrefixSum("day", y, e)
    BY <2>2 DEF BalanceIsPrefixSum
  <2>5. PrefixSum("day", y, e) = Total(h, posted) /\ PrefixSum("day", y, e) \in Int
    BY <1>0, <2>2, PrefixSumIs DEF Cut
  <2>6. ASSUME NEW u \in posted PROVE h[u] = g[u]
    <3> DEFINE c == u.msg.day
               s == Share("net", y, u.msg, All(u.msg))
    <3>1. c \in Int /\ (c \notin DOMAIN rows[y] => s = 0)
      BY <1>0, <1>2
    <3>2. h[u] = IF c <= e THEN s ELSE 0
      BY DEF UpTo
    <3>3. g[u] = IF c <= d THEN s ELSE 0
      BY DEF UpTo
    <3>4. c <= d /\ ~(c <= e) => c \notin DOMAIN rows[y]
      BY <2>1, <2>2, <3>1
    <3> HIDE DEF c, s, g, h
    <3> QED
      BY <2>2, <3>1, <3>2, <3>3, <3>4
  <2> HIDE DEF g, h
  <2>7. Total(h, posted) = Total(g, posted)
    BY <1>0, <2>6, TotalSame
  <2> QED
    BY <2>3, <2>4, <2>5, <2>7 DEF g
<1> QED
  BY <1>4, <1>5

\* The balances of the accounts, added up account by account, ...
LEMMA AccountsAtIs ==
  ASSUME NEW t, IsFiniteSet(AccountsOf(t)), NEW d
  PROVE  AccountsAt(t, d) = Total([y \in AccountsOf(t) |-> BalanceAt(y, d)], AccountsOf(t))
<1> DEFINE S == AccountsOf(t)
           g == [y \in S |-> BalanceAt(y, d)]
           b(y) == IF \E e \in DOMAIN rows[y] : e <= d
                   THEN rows[y][Max({e \in DOMAIN rows[y] : e <= d})].balance
                   ELSE 0
           it == CHOOSE it : it = [s \in SUBSET S |-> IF s = {} THEN 0 ELSE
                      b(CHOOSE y \in s : TRUE) + it[s \ {CHOOSE y \in s : TRUE}]]
<1>1. AccountsAt(t, d) = it[S]
  BY DEF AccountsAt, MapThenSumSet, MapThenFoldSet, AccountsOf
<1>2. ASSUME NEW s \in SUBSET S, s # {} PROVE b(Pick(s)) = g[Pick(s)]
  <2>1. Pick(s) \in S
    BY <1>2, PickIn
  <2> QED
    BY <2>1 DEF BalanceAt
<1> HIDE DEF b
<1>3. PICK f : Sums(f, g, SUBSET S)
  <2> HIDE DEF S, g
  <2> QED
    BY SumsExists DEF S
<1>4. f = [s \in SUBSET S |-> IF s = {} THEN 0 ELSE
             b(CHOOSE y \in s : TRUE) + f[s \ {CHOOSE y \in s : TRUE}]]
  <2> HIDE DEF g, S
  <2> QED
    BY <1>2, <1>3 DEF Sums, Pick
<1>5. it = [s \in SUBSET S |-> IF s = {} THEN 0 ELSE
             b(CHOOSE y \in s : TRUE) + it[s \ {CHOOSE y \in s : TRUE}]]
  <2> DEFINE Rec(v) == [s \in SUBSET S |-> IF s = {} THEN 0 ELSE
                           b(CHOOSE y \in s : TRUE) + v[s \ {CHOOSE y \in s : TRUE}]]
  <2>1. f = Rec(f) /\ it = CHOOSE v : v = Rec(v)
    BY <1>4, Zenon
  <2> HIDE DEF Rec, it
  <2>2. it = Rec(it)
    BY <2>1, Zenon
  <2> QED
    BY <2>2, Zenon DEF Rec
<1> HIDE DEF it, g, S
<1>6. Sums(it, g, SUBSET S)
  BY <1>2, <1>5 DEF Sums, Pick
<1>7. Total(g, S) = it[S]
  BY <1>6, TotalIs DEF S
<1> QED
  BY <1>1, <1>7 DEF g, S

\* ... are those of the key, added up posting by posting.
LEMMA KeyExact ==
  ASSUME TypeInv, ColumnsAreExact, BalanceIsPrefixSum, IsFiniteSet(AllSeries)
  PROVE  KeyIsSumOfAccounts
<1> SUFFICES ASSUME Quiet, NEW x \in AllSeries, x[1] = "key", NEW d \in DOMAIN rows[x]
             PROVE  rows[x][d].balance = AccountsAt(x[2], d)
  BY DEF KeyIsSumOfAccounts
<1> DEFINE t == x[2]
           Y == AccountsOf(t)
<1>0. /\ Posted(posted) /\ IsFiniteSet(posted)
      /\ \A u \in posted : u.msg.day \in Int /\ u.msg \in Messages
  BY MessageAssumption DEF TypeInv, Numbered, Posted, Day
<1>1. d \in Nat /\ d \in Int /\ IsFiniteSet(Y) /\ Y \subseteq AllSeries
  BY DaysAre, FS_Subset DEF TypeInv, Day, AccountsOf
<1>2. x = <<"key", t>>
  <2>1. PICK m \in Messages : x \in SeriesOf(m)
    BY DEF AllSeries
  <2>2. PICK j \in 1..Len(Plan(m)) : x = Plan(m)[j].series
    BY <2>1 DEF SeriesOf
  <2> DEFINE e == m.entries[EntryAt(m, j)]
             c == TableAt(m, j)
  <2>3. c \in 1..Width(m) /\ x = Series(e, m.labels)[c]
    BY <2>2, PositionIs
  <2> HIDE DEF e, c
  <2>4. x = IF c = 1 THEN <<"key", e.team>>
            ELSE IF c = 2 THEN <<"account", e.account, e.team>>
            ELSE <<"label", m.labels[c - 2], e.account, e.team>>
    BY <2>3, SeriesAt
  <2> QED
    BY <2>4
<1> HIDE DEF t, Y
<1> DEFINE g == [y \in Y |-> UpTo("day", posted, y, d)]
           c == [u \in posted |-> [y \in Y |-> UpTo("day", posted, y, d)[u]]]
           a == [y \in Y |-> Total(UpTo("day", posted, y, d), posted)]
           b == [u \in posted |-> Total(c[u], Y)]
           k == UpTo("day", posted, x, d)
<1>3. AccountsAt(t, d) = Total(a, Y)
  <2> DEFINE s == [y \in Y |-> BalanceAt(y, d)]
  <2>1. AccountsAt(t, d) = Total(s, Y)
    BY <1>1, AccountsAtIs DEF Y
  <2>2. \A y \in Y : s[y] = a[y]
    BY <1>1, BalanceAtIs
  <2> HIDE DEF s, a
  <2> QED
    BY <1>1, <2>1, <2>2, TotalSame
<1>4. Table(Y, posted, g, c, a, b)
  <2>1. ASSUME NEW y \in Y, NEW u \in posted PROVE g[y][u] \in Int /\ c[u][y] = g[y][u]
    <3>1. UpTo("day", posted, y, d)[u] \in Int
      BY <1>0, WholeInt, NetIsColumn DEF UpTo, Cut
    <3> QED
      BY <3>1
  <2> QED
    BY <2>1 DEF Table
<1>5. ASSUME NEW u \in posted PROVE b[u] = k[u]
  <2> DEFINE m == u.msg
             r == [y \in Y |-> UpTo("day", posted, y, d)[u]]
  <2>1. b[u] = Total(r, Y)
    OBVIOUS
  <2>2. \A y \in Y : r[y] = IF m.day <= d THEN Share("net", y, m, All(m)) ELSE 0
    BY DEF UpTo
  <2>3. k[u] = IF m.day <= d THEN Share("net", x, m, All(m)) ELSE 0
    BY DEF UpTo
  <2> HIDE DEF r, b, k
  <2>4. CASE m.day <= d
    <3> DEFINE s == Shares(Y, m, All(m))
    <3>1. \A y \in Y : r[y] = s[y]
      BY <2>2, <2>4 DEF Shares
    <3>2. Total(s, Y) = Share("net", <<"key", t>>, m, All(m))
      BY <1>0, <1>1, KeyShare DEF Y
    <3> HIDE DEF s
    <3>3. Total(r, Y) = Total(s, Y)
      BY <1>1, <3>1, TotalSame
    <3> QED
      BY <1>2, <2>1, <2>3, <2>4, <3>2, <3>3
  <2>5. CASE ~(m.day <= d)
    <3>1. \A y \in Y : r[y] = 0
      BY <2>2, <2>5
    <3>2. Total(r, Y) = 0
      BY <1>1, <3>1, TotalZero
    <3> QED
      BY <2>1, <2>3, <2>5, <3>2
  <2> QED
    BY <2>4, <2>5
<1>6. rows[x][d].balance = Total(k, posted)
  BY <1>0, <1>1, PrefixSumIs DEF BalanceIsPrefixSum, Cut
<1> HIDE DEF a, b, c, g, k
<1>7. Total(a, Y) = Total(b, posted)
  BY <1>0, <1>1, <1>4, TotalSwap
<1>8. Total(b, posted) = Total(k, posted)
  BY <1>0, <1>5, TotalSame
<1> QED
  BY <1>3, <1>6, <1>7, <1>8 DEF t

\* The account key's row is the total of its accounts on that day, for any
\* finite number of accounts, books and labels.
THEOREM KeysExact ==
  ASSUME Order = "opened", IsFiniteSet(AllSeries)
  PROVE  Spec => [](events = 0 => KeyIsSumOfAccounts)
<1>1. OpenedInv => (events = 0 => KeyIsSumOfAccounts)
  <2> SUFFICES ASSUME OpenedInv, events = 0, Quiet PROVE KeyIsSumOfAccounts
    BY DEF KeyIsSumOfAccounts
  <2>1. ColumnsAreExact /\ BalanceIsPrefixSum
    BY QuietExact DEF OpenedInv
  <2> QED
    BY <2>1, KeyExact DEF OpenedInv
<1> QED
  BY <1>1, OpenedKept, PTL
==============================================================================
