---------------------------- MODULE JournalProofs ----------------------------
(***************************************************************************)
(* Theorems about the builder of journal entries, for any teams, accounts  *)
(* and amounts and any number of books and OpenTransactions: JournalInv    *)
(* holds in every reachable state, whatever the tolerance of the balance   *)
(* check is, and the rows of each team balance when it is less than the    *)
(* unit of money.                                                          *)
(***************************************************************************)
EXTENDS Journal, Sums, TLAPS

\* DiffBalance and what is defined by it are integers.
LEMMA ChangeIsInt ==
  ASSUME NEW a \in Account, NEW s \in [debit : Int, credit : Int]
  PROVE  /\ Change(a, s) \in Int
         /\ Change(a, s) = IF BalanceType[a] = "d" THEN s.debit - s.credit ELSE s.credit - s.debit
  BY DEF Change, DiffBalance

\* SetAmountEntry writes one side, and moves the account by the amount.
LEMMA EntryMoves ==
  ASSUME NEW a \in Account, NEW n \in Int, n # 0
  PROVE  /\ SetAmountEntry(a, n) \in Side
         /\ Change(a, SetAmountEntry(a, n)) = n
         /\ SetAmountEntry(a, n).debit # SetAmountEntry(a, n).credit
         /\ SetAmountEntry(a, n).debit = 0 \/ SetAmountEntry(a, n).credit = 0
<1>1. BalanceType[a] \in {"d", "c"}
  BY AccountAssumption
<1>2. CASE (BalanceType[a] = "d") = (n > 0)
  BY <1>1, <1>2 DEF SetAmountEntry, Side, Change, DiffBalance
<1>3. CASE (BalanceType[a] = "d") # (n > 0)
  BY <1>1, <1>3 DEF SetAmountEntry, Side, Change, DiffBalance
<1> QED
  BY <1>2, <1>3

\* Sides add up, and so do their effects.
LEMMA MergeAdds ==
  ASSUME NEW a \in Account, NEW s \in Side, NEW e \in Side
  PROVE  /\ Merge(s, e) \in Side
         /\ Change(a, Merge(s, e)) = Change(a, s) + Change(a, e)
         /\ RawRows(Merge(s, e)) = RawRows(s) + RawRows(e)
  BY DEF Merge, Side, Change, DiffBalance, RawRows

\* The reversing entry has one side and takes the net effect away.
LEMMA ReversalClears ==
  ASSUME NEW a \in Account, NEW s \in Side
  PROVE  /\ Reversal(a, s) \in Side
         /\ Change(a, Merge(s, Reversal(a, s))) = 0
         /\ Reversal(a, s).debit = 0 \/ Reversal(a, s).credit = 0
         /\ Reversal(a, s).debit # Reversal(a, s).credit <=> Change(a, s) # 0
<1>1. Change(a, s) \in Int
  BY ChangeIsInt DEF Side
<1>2. CASE Change(a, s) = 0
  BY <1>2, MergeAdds DEF Reversal, NoSide, Side, Change, DiffBalance
<1>3. CASE Change(a, s) # 0
  <2>1. Reversal(a, s) = SetAmountEntry(a, -Change(a, s))
    BY <1>3 DEF Reversal
  <2>2. -Change(a, s) \in Int /\ -Change(a, s) # 0
    BY <1>1, <1>3
  <2>3. Change(a, Reversal(a, s)) = -Change(a, s) /\ Reversal(a, s) \in Side
    BY <2>1, <2>2, EntryMoves
  <2> QED
    BY <1>1, <1>3, <2>1, <2>2, <2>3, EntryMoves, MergeAdds
<1> QED
  BY <1>2, <1>3

\* The effect of an entry on the daily row of its account: the balance moves
\* as the account does, and the columns explain it.
LEMMA EffectExplained ==
  ASSUME NEW a \in Account, NEW e \in Side, NEW rollback \in BOOLEAN
  PROVE  /\ DailyEffect(a, e, rollback) \in Effect
         /\ DailyEffect(a, e, rollback).balance =
              DiffBalance(BalanceType[a], DailyEffect(a, e, rollback).debit,
                                          DailyEffect(a, e, rollback).credit)
         /\ RawEffect(a, DailyEffect(a, e, rollback)) = RawRows(e)
  BY DEF DailyEffect, Effect, Side, Change, DiffBalance, RawEffect, RawRows

\* Effects add up column by column.
LEMMA EffectsAdd ==
  ASSUME NEW a \in Account, NEW x \in Effect, NEW y \in Effect
  PROVE  /\ AddEffect(x, y) \in Effect
         /\ RawEffect(a, AddEffect(x, y)) = RawEffect(a, x) + RawEffect(a, y)
         /\ RawEffect(a, x) \in Int
         /\ /\ x.balance = DiffBalance(BalanceType[a], x.debit, x.credit)
            /\ y.balance = DiffBalance(BalanceType[a], y.debit, y.credit)
            => AddEffect(x, y).balance =
                 DiffBalance(BalanceType[a], AddEffect(x, y).debit, AddEffect(x, y).credit)
  BY DEF AddEffect, Effect, RawEffect, DiffBalance

LEMMA NothingFits ==
  /\ NoSide \in Side /\ NoEffect \in Effect
  /\ NoRows \in Rows /\ NoMessage \in Messages
  /\ Explained(NoMessage)
  /\ \A a \in Account : RawEffect(a, NoEffect) = 0 /\ Change(a, NoSide) = 0
  /\ RawRows(NoSide) = 0
  /\ NoBook \in [team : Team \cup {"none"}, entries : [Account -> Side],
                 touched : SUBSET Account, err : BOOLEAN, calls : Nat]
  /\ Closed \in [open : BOOLEAN, books : Nat, unsaved : BOOLEAN]
<1>1. NoSide \in Side /\ NoEffect \in Effect
  BY DEF NoSide, Side, NoEffect, Effect
<1>2. NoRows \in Rows /\ NoMessage \in Messages
  BY <1>1 DEF NoRows, NoMessage, Rows, Messages
<1>3. Explained(NoMessage)
  BY DEF Explained, NoMessage, NoEffect, DiffBalance
<1>4. \A a \in Account : RawEffect(a, NoEffect) = 0 /\ Change(a, NoSide) = 0
  <2>1. NoEffect.balance = 0 /\ NoSide.debit = 0 /\ NoSide.credit = 0
    BY DEF NoEffect, NoSide
  <2>2. \A n \in Int : -n = 0 - n
    OBVIOUS
  <2>3. ASSUME NEW a \in Account PROVE RawEffect(a, NoEffect) = 0
    <3> DEFINE n == NoEffect.balance
    <3>1. n \in Int /\ n = 0
      BY <2>1
    <3>2. 0 - n = 0
      BY <3>1
    <3>3. -n = 0
      BY <2>2, <3>1, <3>2, Zenon
    <3> QED
      BY <3>1, <3>3, Zenon DEF RawEffect
  <2>4. ASSUME NEW a \in Account PROVE Change(a, NoSide) = 0
    BY <2>1 DEF Change, DiffBalance
  <2> QED
    BY <2>3, <2>4
<1>5. RawRows(NoSide) = 0
  BY DEF RawRows, NoSide
<1>6. NoBook \in [team : Team \cup {"none"}, entries : [Account -> Side],
                  touched : SUBSET Account, err : BOOLEAN, calls : Nat]
  <2>1. [a \in Account |-> NoSide] \in [Account -> Side]
    BY <1>1
  <2> QED
    BY <2>1 DEF NoBook
<1>7. Closed \in [open : BOOLEAN, books : Nat, unsaved : BOOLEAN]
  BY DEF Closed
<1> QED
  BY <1>1, <1>2, <1>3, <1>4, <1>5, <1>6, <1>7
------------------------------------------------------------------------------
\* What Commit hands on for an entry: it lacks a debit at most, and nothing at
\* all of an entry it did not save.
LEMMA ForwardedFits ==
  ASSUME NEW b, NEW include, NEW a \in b.touched, b.entries[a] \in Side
  PROVE  /\ Forwarded(b, include, a) \in Side
         /\ RawRows(Forwarded(b, include, a)) <= RawRows(b.entries[a])
         /\ a \notin Saved(b, include) => RawRows(Forwarded(b, include, a)) = 0
<1> DEFINE e == b.entries[a]
           f == [e EXCEPT !.debit = 0]
<1>1. e \in Side
  OBVIOUS
<1>2. f \in Side /\ RawRows(f) <= RawRows(e)
  BY <1>1 DEF Side, RawRows
<1>3. RawRows(e) <= RawRows(e)
  BY <1>1 DEF Side, RawRows
<1>4. a \notin Saved(b, include) => e.debit = e.credit
  BY DEF Saved
<1>5. a \notin Saved(b, include) => RawRows(e) = 0
  BY <1>1, <1>4 DEF Side, RawRows
<1>6. Forwarded(b, include, a) = e \/ (Forwarded(b, include, a) = f /\ a \in Saved(b, include))
  BY DEF Forwarded
<1> HIDE DEF e, f
<1>7. /\ Forwarded(b, include, a) \in Side
      /\ RawRows(Forwarded(b, include, a)) <= RawRows(e)
      /\ a \notin Saved(b, include) => RawRows(Forwarded(b, include, a)) = 0
  BY <1>1, <1>2, <1>3, <1>5, <1>6
<1> QED
  BY <1>7 DEF e

\* Books keeps what a book may be apart from the team that is not chosen yet.
IsBook(b) == /\ b.team \in Team
             /\ b.entries \in [Account -> Side]
             /\ b.touched \subseteq Account

\* A committed book adds its saved entries to the rows and what it hands on to
\* the message, account by account.
LEMMA SaveBookKeeps ==
  ASSUME JournalInv, NEW b, IsBook(b), NEW include, NEW rollback \in BOOLEAN,
         tx.open, SaveBook(b, include, rollback)
  PROVE  JournalInv'
<1>t. TypeOK
  BY DEF JournalInv
<1>1. ASSUME NEW t \in Team, NEW a \in Account
      PROVE  /\ rows'[t][a] \in Side
             /\ message'[t][a] \in Effect
             /\ message'[t][a].balance =
                  DiffBalance(BalanceType[a], message'[t][a].debit, message'[t][a].credit)
             /\ RawEffect(a, message'[t][a]) - RawEffect(a, message[t][a])
                  <= RawRows(rows'[t][a]) - RawRows(rows[t][a])
  <2> DEFINE e == b.entries[a]
             f == Forwarded(b, include, a)
             d == DailyEffect(a, f, rollback)
             m == message[t][a]
             r == rows[t][a]
  <2>1. /\ m \in Effect /\ r \in Side /\ e \in Side
        /\ m.balance = DiffBalance(BalanceType[a], m.debit, m.credit)
    BY <1>t DEF TypeOK, Messages, Rows, JournalInv, Explained, IsBook
  <2>2. RawEffect(a, m) \in Int /\ RawRows(r) \in Int /\ RawRows(e) \in Int
    BY <2>1, EffectsAdd DEF RawRows, Side
  <2>3. rows'[t][a] = IF t = b.team /\ a \in Saved(b, include) THEN Merge(r, e) ELSE r
    BY <1>t DEF TypeOK, Rows, SaveBook, RowsWith
  <2>4. message'[t][a] = IF t = b.team /\ a \in b.touched THEN AddEffect(m, d) ELSE m
    BY <1>t DEF TypeOK, Messages, SaveBook, MessageWith
  <2>5. a \in Saved(b, include) => a \in b.touched
    BY DEF Saved
  <2>6. Merge(r, e) \in Side /\ RawRows(Merge(r, e)) = RawRows(r) + RawRows(e)
    BY <2>1, MergeAdds
  <2>7. CASE t = b.team /\ a \in b.touched
    <3>1. f \in Side /\ RawRows(f) <= RawRows(e) /\ (a \notin Saved(b, include) => RawRows(f) = 0)
      BY <2>1, <2>7, ForwardedFits
    <3>2. /\ d \in Effect /\ d.balance = DiffBalance(BalanceType[a], d.debit, d.credit)
          /\ RawEffect(a, d) = RawRows(f)
      BY <3>1, EffectExplained
    <3>3. /\ AddEffect(m, d) \in Effect
          /\ RawEffect(a, AddEffect(m, d)) = RawEffect(a, m) + RawEffect(a, d)
          /\ AddEffect(m, d).balance =
               DiffBalance(BalanceType[a], AddEffect(m, d).debit, AddEffect(m, d).credit)
      BY <2>1, <3>2, EffectsAdd
    <3>4. RawRows(f) \in Int
      BY <3>1 DEF RawRows, Side
    <3>5. message'[t][a] = AddEffect(m, d)
      BY <2>4, <2>7
    <3>6. rows'[t][a] = IF a \in Saved(b, include) THEN Merge(r, e) ELSE r
      BY <2>3, <2>7
    <3> HIDE DEF e, f, d, m, r
    <3>7. RawEffect(a, message'[t][a]) - RawEffect(a, m) = RawRows(f)
      BY <2>2, <3>2, <3>3, <3>4, <3>5
    <3>8. RawRows(f) <= RawRows(rows'[t][a]) - RawRows(r)
      BY <2>2, <2>6, <3>1, <3>4, <3>6
    <3>9. rows'[t][a] \in Side
      BY <2>1, <2>6, <3>6
    <3> QED
      BY <3>3, <3>5, <3>7, <3>8, <3>9 DEF m, r
  <2>8. CASE ~(t = b.team /\ a \in b.touched)
    <3>1. message'[t][a] = m /\ rows'[t][a] = r
      BY <2>3, <2>4, <2>5, <2>8
    <3> QED
      BY <2>1, <2>2, <3>1
  <2> QED
    BY <2>7, <2>8
<1>2. rows' \in Rows
  <2>1. rows' = [t \in Team |-> rows'[t]] /\ \A t \in Team : rows'[t] = [a \in Account |-> rows'[t][a]]
    BY <1>t DEF TypeOK, Rows, SaveBook, RowsWith, IsBook
  <2> QED
    BY <1>1, <2>1 DEF Rows
<1>3. message' \in Messages
  <2>1. /\ message' = [t \in Team |-> message'[t]]
        /\ \A t \in Team : message'[t] = [a \in Account |-> message'[t][a]]
    BY <1>t DEF TypeOK, Messages, SaveBook, MessageWith, IsBook
  <2> QED
    BY <1>1, <2>1 DEF Messages
<1>4. /\ tx' \in [open : BOOLEAN, books : Nat, unsaved : BOOLEAN]
      /\ tx'.open /\ book' = NoBook
      /\ journal' = journal /\ daily' = daily /\ opens' = opens
  <2>1. tx' = [tx EXCEPT !.books = @ + 1, !.unsaved = @ \/ b.touched # Saved(b, include)]
    BY DEF SaveBook
  <2>2. tx \in [open : BOOLEAN, books : Nat, unsaved : BOOLEAN]
    BY <1>t DEF TypeOK
  <2>3. tx.books + 1 \in Nat /\ (tx.unsaved \/ b.touched # Saved(b, include)) \in BOOLEAN
    BY <2>2
  <2>4. tx' \in [open : BOOLEAN, books : Nat, unsaved : BOOLEAN] /\ tx'.open = tx.open
    BY <2>1, <2>2, <2>3, Zenon
  <2> QED
    BY <2>4 DEF SaveBook
<1>5. TypeOK'
  BY <1>t, <1>2, <1>3, <1>4, NothingFits DEF TypeOK
<1>6. Settled'
  BY <1>4 DEF Settled
<1>7. ColumnsExplainBalance' /\ Explained(message)'
  BY <1>1, <1>4 DEF JournalInv, ColumnsExplainBalance, Explained
<1>8. OnlyDebitsAreMissing'
  <2> SUFFICES ASSUME NEW t \in Team, NEW a \in Account
               PROVE  RawEffect(a, daily[t][a]) + RawEffect(a, message'[t][a]) <= RawRows(rows'[t][a])
    <3>1. \A t \in Team, a \in Account : RawEffect(a, daily'[t][a]) <= RawRows(journal'[t][a])
      BY <1>4 DEF JournalInv, OnlyDebitsAreMissing
    <3> QED
      BY <1>4, <3>1 DEF OnlyDebitsAreMissing
  <2>1. /\ RawEffect(a, daily[t][a]) \in Int /\ RawEffect(a, message[t][a]) \in Int
        /\ RawEffect(a, message'[t][a]) \in Int
    <3>1. daily[t][a] \in Effect /\ message[t][a] \in Effect /\ message'[t][a] \in Effect
      BY <1>t, <1>1 DEF TypeOK, Messages
    <3> QED
      BY <3>1, EffectsAdd
  <2>2. RawRows(rows[t][a]) \in Int /\ RawRows(rows'[t][a]) \in Int
    BY <1>t, <1>1 DEF TypeOK, Rows, RawRows, Side
  <2>3. RawEffect(a, daily[t][a]) + RawEffect(a, message[t][a]) <= RawRows(rows[t][a])
    BY DEF JournalInv, OnlyDebitsAreMissing
  <2>4. RawEffect(a, message'[t][a]) - RawEffect(a, message[t][a])
          <= RawRows(rows'[t][a]) - RawRows(rows[t][a])
    BY <1>1
  <2> QED
    BY <2>1, <2>2, <2>3, <2>4
<1> QED
  BY <1>5, <1>6, <1>7, <1>8 DEF JournalInv
\* A step that leaves the rows, the message and the daily rows alone.
LEMMA UntouchedKeeps ==
  ASSUME JournalInv, UNCHANGED <<journal, rows, message, daily>>,
         book' \in [team : Team \cup {"none"}, entries : [Account -> Side],
                   touched : SUBSET Account, err : BOOLEAN, calls : Nat],
         tx' \in [open : BOOLEAN, books : Nat, unsaved : BOOLEAN],
         opens' \in Nat, Settled'
  PROVE  JournalInv'
<1>1. TypeOK'
  BY DEF JournalInv, TypeOK
<1>2. ColumnsExplainBalance' /\ Explained(message)' /\ OnlyDebitsAreMissing'
  BY DEF JournalInv, ColumnsExplainBalance, Explained, OnlyDebitsAreMissing
<1> QED
  BY <1>1, <1>2 DEF JournalInv

\* The database transaction is rolled back.
LEMMA AbandonKeeps ==
  ASSUME JournalInv, Abandon
  PROVE  JournalInv'
<1>1. TypeOK'
  BY NothingFits DEF JournalInv, TypeOK, Abandon
<1>2. Settled'
  BY DEF Abandon, Settled, NoBook
<1>3. ColumnsExplainBalance' /\ Explained(message)'
  BY NothingFits DEF JournalInv, ColumnsExplainBalance, Explained, Abandon
<1>4. OnlyDebitsAreMissing'
  <2> SUFFICES ASSUME NEW t \in Team, NEW a \in Account
               PROVE  /\ RawEffect(a, daily'[t][a]) <= RawRows(journal'[t][a])
                      /\ RawEffect(a, daily'[t][a]) + RawEffect(a, message'[t][a])
                           <= RawRows(rows'[t][a])
    BY DEF OnlyDebitsAreMissing
  <2>1. RawEffect(a, daily[t][a]) <= RawRows(journal[t][a])
    BY DEF JournalInv, OnlyDebitsAreMissing
  <2>2. daily' = daily /\ journal' = journal /\ rows' = journal /\ message'[t][a] = NoEffect
    BY DEF Abandon, NoMessage
  <2>3. daily[t][a] \in Effect
    BY DEF JournalInv, TypeOK, Messages
  <2>4. RawEffect(a, daily[t][a]) \in Int /\ RawEffect(a, NoEffect) = 0
    BY <2>3, NothingFits, EffectsAdd
  <2> QED
    BY <2>1, <2>2, <2>4
<1> QED
  BY <1>1, <1>2, <1>3, <1>4 DEF JournalInv

\* Building a book: To and From write entries, and nothing else.
LEMMA ToKeeps ==
  ASSUME JournalInv, NEW a \in Account, NEW amount \in Int, To(a, amount)
  PROVE  JournalInv'
<1> DEFINE Building == [team : Team \cup {"none"}, entries : [Account -> Side],
                        touched : SUBSET Account, err : BOOLEAN, calls : Nat]
<1>1. book \in Building
  BY DEF JournalInv, TypeOK
<1>2. book' \in Building /\ book'.team = book.team
  <2>1. CASE amount = 0
    <3>1. book' = [book EXCEPT !.err = TRUE, !.calls = @ + 1]
      BY <2>1 DEF To
    <3>2. book.calls + 1 \in Nat /\ TRUE \in BOOLEAN
      BY <1>1
    <3> QED
      BY <1>1, <3>1, <3>2, Zenon
  <2>2. CASE amount # 0
    <3>1. book.entries[a] \in Side /\ SetAmountEntry(a, amount) \in Side
      BY <1>1, <2>2, EntryMoves
    <3> DEFINE m == Merge(book.entries[a], SetAmountEntry(a, amount))
    <3>2. m \in Side
      BY <3>1, MergeAdds
    <3>3. book' = [book EXCEPT !.entries[a] = m, !.touched = @ \cup {a}, !.calls = @ + 1]
      BY <2>2 DEF To
    <3> HIDE DEF m
    <3>4. [book.entries EXCEPT ![a] = m] \in [Account -> Side]
      BY <1>1, <3>2
    <3>5. book' = [team |-> book.team, entries |-> [book.entries EXCEPT ![a] = m],
                   touched |-> book.touched \cup {a}, err |-> book.err,
                   calls |-> book.calls + 1]
      BY <1>1, <3>3
    <3> QED
      BY <1>1, <3>4, <3>5
  <2> QED
    BY <2>1, <2>2
<1>3. Settled'
  BY <1>2 DEF JournalInv, To, Settled
<1> QED
  BY <1>2, <1>3, UntouchedKeeps DEF JournalInv, TypeOK, To

\* A handler returns nil: the open transaction becomes the committed one and
\* its message is added to what was handed over before.
LEMMA CloseKeeps ==
  ASSUME JournalInv, Close
  PROVE  JournalInv'
<1>t. TypeOK
  BY DEF JournalInv
<1>1. CASE Abandon
  BY <1>1, AbandonKeeps
<1>2. CASE ~Abandon
  <2>1. /\ journal' = rows /\ daily' = AddMessage(daily, message) /\ message' = NoMessage
        /\ tx' = Closed /\ rows' = rows /\ book' = book /\ opens' = opens /\ book = NoBook
    BY <1>2 DEF Close
  <2>2. ASSUME NEW t \in Team, NEW a \in Account
        PROVE  /\ daily'[t][a] \in Effect
               /\ RawEffect(a, daily'[t][a])
                    = RawEffect(a, daily[t][a]) + RawEffect(a, message[t][a])
               /\ daily'[t][a].balance =
                    DiffBalance(BalanceType[a], daily'[t][a].debit, daily'[t][a].credit)
    <3>1. daily[t][a] \in Effect /\ message[t][a] \in Effect
      BY <1>t DEF TypeOK, Messages
    <3>2. /\ daily[t][a].balance =
               DiffBalance(BalanceType[a], daily[t][a].debit, daily[t][a].credit)
          /\ message[t][a].balance =
               DiffBalance(BalanceType[a], message[t][a].debit, message[t][a].credit)
      BY DEF JournalInv, ColumnsExplainBalance, Explained
    <3>3. daily'[t][a] = AddEffect(daily[t][a], message[t][a])
      BY <2>1 DEF AddMessage
    <3> QED
      BY <3>1, <3>2, <3>3, EffectsAdd
  <2>3. daily' \in Messages
    <3>1. daily' = [t \in Team |-> [a \in Account |-> daily'[t][a]]]
      BY <2>1 DEF AddMessage
    <3> QED
      BY <2>2, <3>1 DEF Messages
  <2>4. TypeOK'
    BY <1>t, <2>1, <2>3, NothingFits DEF TypeOK
  <2>5. Settled'
    BY <2>1 DEF Settled, NoBook
  <2>6. ColumnsExplainBalance' /\ Explained(message)'
    BY <2>1, <2>2, NothingFits DEF ColumnsExplainBalance, Explained
  <2>7. OnlyDebitsAreMissing'
    <3> SUFFICES ASSUME NEW t \in Team, NEW a \in Account
                 PROVE  /\ RawEffect(a, daily'[t][a]) <= RawRows(rows[t][a])
                        /\ RawEffect(a, daily'[t][a]) + RawEffect(a, NoEffect)
                             <= RawRows(rows[t][a])
      BY <2>1 DEF OnlyDebitsAreMissing, NoMessage
    <3>1. RawEffect(a, daily[t][a]) + RawEffect(a, message[t][a]) <= RawRows(rows[t][a])
      BY DEF JournalInv, OnlyDebitsAreMissing
    <3>2. RawEffect(a, daily'[t][a]) \in Int
      BY <2>2, EffectsAdd
    <3> QED
      BY <2>2, <3>1, <3>2, NothingFits
  <2> QED
    BY <2>4, <2>5, <2>6, <2>7 DEF JournalInv
<1> QED
  BY <1>1, <1>2
\* The reversing book of a team's rows.
LEMMA ReversalIsBook ==
  ASSUME NEW t \in Team, NEW s \in [Account -> Side]
  PROVE  /\ IsBook(ReversalBook(t, s))
         /\ ReversalBook(t, s).entries = [a \in Account |-> Reversal(a, s[a])]
         /\ ReversalBook(t, s).touched = {a \in Account : Change(a, s[a]) # 0}
<1> DEFINE x == [a \in Account |-> Reversal(a, s[a])]
           y == {a \in Account : Change(a, s[a]) # 0}
<1>1. x \in [Account -> Side]
  BY ReversalClears
<1> HIDE DEF x, y
<1>2. /\ ReversalBook(t, s).team = t
      /\ ReversalBook(t, s).entries = x
      /\ ReversalBook(t, s).touched = y
  BY DEF ReversalBook, NoBook, x, y
<1>3. y \subseteq Account
  BY DEF y
<1>4. IsBook(ReversalBook(t, s))
  BY <1>1, <1>2, <1>3 DEF IsBook
<1> QED
  BY <1>2, <1>4 DEF x, y

\* A reset inside a handler: the reversing book is committed like any other.
LEMMA ResetKeeps ==
  ASSUME JournalInv, NEW t \in Team, Reset(t)
  PROVE  JournalInv'
<1> DEFINE b == ReversalBook(t, rows[t])
<1>1. rows[t] \in [Account -> Side]
  BY DEF JournalInv, TypeOK, Rows
<1>2. IsBook(b)
  BY <1>1, ReversalIsBook
<1>3. tx.open /\ (Abandon \/ SaveBook(b, FALSE, TRUE))
  BY DEF Reset
<1> HIDE DEF b
<1> QED
  BY <1>2, <1>3, AbandonKeeps, SaveBookKeeps

\* What RollbackEntry does to each account: the reversing entry is added to
\* its rows, and its effect to the daily row.
LEMMA RollbackWrites ==
  ASSUME JournalInv, RollbackEntry, NEW t \in Team, NEW a \in Account
  PROVE  /\ Change(a, journal'[t][a]) = 0
         /\ \/ /\ t \notin Booked /\ journal'[t][a] = journal[t][a]
               /\ daily'[t][a] = daily[t][a]
            \/ /\ journal'[t][a] = Merge(journal[t][a], Reversal(a, journal[t][a]))
               /\ daily'[t][a] =
                    AddEffect(daily[t][a], DailyEffect(a, Reversal(a, journal[t][a]), TRUE))
<1>1. journal[t] \in [Account -> Side] /\ journal[t][a] \in Side
  BY DEF JournalInv, TypeOK, Rows
<1>2. CASE t \in Booked
  <2>1. ReversalBook(t, journal[t]).entries[a] = Reversal(a, journal[t][a])
    BY <1>1, ReversalIsBook
  <2>2. journal'[t][a] = Merge(journal[t][a], Reversal(a, journal[t][a]))
    BY <1>2, <2>1 DEF RollbackEntry
  <2>3. daily'[t][a] = AddEffect(daily[t][a], DailyEffect(a, Reversal(a, journal[t][a]), TRUE))
    BY <1>2, <2>1 DEF RollbackEntry
  <2> QED
    BY <1>1, <2>2, <2>3, ReversalClears
<1>3. CASE t \notin Booked
  <2>1. journal'[t] = journal[t] /\ daily'[t] = daily[t]
    BY <1>3 DEF RollbackEntry
  <2>2. journal[t][a] = NoSide
    BY <1>3 DEF Booked
  <2> QED
    BY <1>3, <2>1, <2>2, NothingFits
<1> QED
  BY <1>2, <1>3

LEMMA RollbackEntryKeeps ==
  ASSUME JournalInv, RollbackEntry
  PROVE  JournalInv'
<1>t. TypeOK
  BY DEF JournalInv
<1>1. ASSUME NEW t \in Team, NEW a \in Account
      PROVE  /\ journal'[t][a] \in Side
             /\ daily'[t][a] \in Effect
             /\ daily'[t][a].balance =
                  DiffBalance(BalanceType[a], daily'[t][a].debit, daily'[t][a].credit)
             /\ RawEffect(a, daily'[t][a]) <= RawRows(journal'[t][a])
  <2> DEFINE j == journal[t][a]
             x == daily[t][a]
             e == Reversal(a, j)
             d == DailyEffect(a, e, TRUE)
  <2>1. /\ j \in Side /\ x \in Effect
        /\ x.balance = DiffBalance(BalanceType[a], x.debit, x.credit)
        /\ RawEffect(a, x) <= RawRows(j)
    BY DEF JournalInv, TypeOK, Rows, Messages, ColumnsExplainBalance, Explained,
           OnlyDebitsAreMissing
  <2>2. e \in Side
    BY <2>1, ReversalClears
  <2>3. /\ d \in Effect /\ d.balance = DiffBalance(BalanceType[a], d.debit, d.credit)
        /\ RawEffect(a, d) = RawRows(e)
    BY <2>2, EffectExplained
  <2>4. /\ AddEffect(x, d) \in Effect
        /\ RawEffect(a, AddEffect(x, d)) = RawEffect(a, x) + RawEffect(a, d)
        /\ RawEffect(a, x) \in Int
        /\ AddEffect(x, d).balance =
             DiffBalance(BalanceType[a], AddEffect(x, d).debit, AddEffect(x, d).credit)
    BY <2>1, <2>3, EffectsAdd
  <2>5. Merge(j, e) \in Side /\ RawRows(Merge(j, e)) = RawRows(j) + RawRows(e)
    BY <2>1, <2>2, MergeAdds
  <2>6. RawRows(j) \in Int /\ RawRows(e) \in Int
    BY <2>1, <2>2 DEF RawRows, Side
  <2>7. \/ journal'[t][a] = j /\ daily'[t][a] = x
        \/ journal'[t][a] = Merge(j, e) /\ daily'[t][a] = AddEffect(x, d)
    BY RollbackWrites
  <2> HIDE DEF j, x, e, d
  <2>8. RawEffect(a, AddEffect(x, d)) <= RawRows(Merge(j, e))
    BY <2>1, <2>3, <2>4, <2>5, <2>6
  <2> QED
    BY <2>1, <2>4, <2>5, <2>7, <2>8
<1>2. journal' \in Rows
  <2>1. /\ journal' = [t \in Team |-> journal'[t]]
        /\ \A t \in Team : journal'[t] = [a \in Account |-> journal'[t][a]]
    BY <1>t DEF TypeOK, Rows, RollbackEntry
  <2> QED
    BY <1>1, <2>1 DEF Rows
<1>3. daily' \in Messages
  <2>1. /\ daily' = [t \in Team |-> daily'[t]]
        /\ \A t \in Team : daily'[t] = [a \in Account |-> daily'[t][a]]
    BY <1>t DEF TypeOK, Messages, RollbackEntry
  <2> QED
    BY <1>1, <2>1 DEF Messages
<1>4. /\ ~tx.open /\ rows' = journal' /\ opens' = opens + 1
      /\ message' = message /\ book' = book /\ tx' = tx
  BY DEF RollbackEntry
<1>5. TypeOK'
  BY <1>t, <1>2, <1>3, <1>4 DEF TypeOK
<1>6. message = NoMessage /\ Settled'
  BY <1>4 DEF JournalInv, Settled
<1>7. ColumnsExplainBalance' /\ Explained(message)'
  BY <1>1, <1>4, <1>6, NothingFits DEF ColumnsExplainBalance, Explained
<1>8. OnlyDebitsAreMissing'
  <2> SUFFICES ASSUME NEW t \in Team, NEW a \in Account
               PROVE  /\ RawEffect(a, daily'[t][a]) <= RawRows(journal'[t][a])
                      /\ RawEffect(a, daily'[t][a]) + RawEffect(a, NoEffect)
                           <= RawRows(journal'[t][a])
    BY <1>4, <1>6 DEF OnlyDebitsAreMissing, NoMessage
  <2>1. RawEffect(a, daily'[t][a]) \in Int
    BY <1>1, EffectsAdd
  <2> QED
    BY <1>1, <2>1, NothingFits
<1> QED
  BY <1>5, <1>6, <1>7, <1>8 DEF JournalInv
------------------------------------------------------------------------------
\* JournalInv is inductive.
LEMMA StepKeeps ==
  ASSUME JournalInv, [Next]_vars
  PROVE  JournalInv'
<1>u. CASE UNCHANGED vars
  BY <1>u, UntouchedKeeps DEF JournalInv, TypeOK, Settled, vars
<1>1. CASE Open
  <2>1. tx' \in [open : BOOLEAN, books : Nat, unsaved : BOOLEAN] /\ opens' \in Nat /\ Settled'
    BY <1>1 DEF JournalInv, TypeOK, Settled, Open
  <2> QED
    BY <1>1, <2>1, UntouchedKeeps DEF JournalInv, TypeOK, Open
<1>2. CASE Fail
  BY <1>2, AbandonKeeps DEF Fail
<1>3. CASE Close
  BY <1>3, CloseKeeps
<1>4. CASE RollbackEntry
  BY <1>4, RollbackEntryKeeps
<1>5. ASSUME NEW t \in Team, NewCreateEntry(t) PROVE JournalInv'
  <2>1. book' = [NoBook EXCEPT !.team = t]
    BY <1>5 DEF NewCreateEntry
  <2>2. book' \in [team : Team \cup {"none"}, entries : [Account -> Side],
                   touched : SUBSET Account, err : BOOLEAN, calls : Nat]
    BY <2>1, NothingFits, Zenon
  <2>3. Settled'
    BY <1>5 DEF JournalInv, Settled, NewCreateEntry
  <2> QED
    BY <1>5, <2>2, <2>3, UntouchedKeeps DEF JournalInv, TypeOK, NewCreateEntry
<1>6. ASSUME NEW t \in Team, Reset(t) PROVE JournalInv'
  BY <1>6, ResetKeeps
<1>7. ASSUME NEW a \in Account, NEW amount \in Amount, To(a, amount) \/ From(a, amount)
      PROVE  JournalInv'
  <2>1. amount \in Int /\ -amount \in Int
    BY AmountAssumption
  <2> QED
    BY <1>7, <2>1, ToKeeps DEF From
<1>8. ASSUME NEW include \in IncludeEqual, Commit(include) PROVE JournalInv'
  <2>1. IsBook(book) /\ tx.open
    BY <1>8, TeamAssumption DEF Commit, JournalInv, TypeOK, Settled, IsBook
  <2>2. Abandon \/ SaveBook(book, include, FALSE)
    BY <1>8 DEF Commit
  <2> QED
    BY <2>1, <2>2, AbandonKeeps, SaveBookKeeps
<1> QED
  BY <1>u, <1>1, <1>2, <1>3, <1>4, <1>5, <1>6, <1>7, <1>8 DEF Next

LEMMA InitFits == Init => JournalInv
<1> SUFFICES ASSUME Init PROVE JournalInv
  OBVIOUS
<1>1. TypeOK
  BY NothingFits DEF Init, TypeOK
<1>2. Settled
  BY DEF Init, Settled, NoBook
<1>3. ColumnsExplainBalance /\ Explained(message)
  BY NothingFits DEF Init, ColumnsExplainBalance, Explained
<1>4. OnlyDebitsAreMissing
  <2> SUFFICES ASSUME NEW t \in Team, NEW a \in Account
               PROVE  /\ RawEffect(a, NoEffect) <= RawRows(NoSide)
                      /\ RawEffect(a, NoEffect) + RawEffect(a, NoEffect) <= RawRows(NoSide)
    BY DEF Init, OnlyDebitsAreMissing, NoMessage, NoRows
  <2> QED
    BY NothingFits
<1> QED
  BY <1>1, <1>2, <1>3, <1>4 DEF JournalInv

\* The rows, the message of the open transaction and the messages handed over
\* before stay in step, whatever books are built, refused, reset or rolled
\* back.
THEOREM Invariance == Spec => []JournalInv
<1> QED
  BY InitFits, StepKeeps, PTL DEF Spec

\* The debit and credit columns of the daily rows explain their balance, for
\* any books and rollbacks.
THEOREM Explains == Spec => []ColumnsExplainBalance
<1>1. JournalInv => ColumnsExplainBalance
  BY DEF JournalInv
<1> QED
  BY <1>1, Invariance, PTL

\* Where the daily balance and the rows disagree, what it lacks is a debit:
\* the debit half of a split entry is lost, and nothing else ever.
THEOREM OneSided == Spec => []OnlyDebitsAreMissing
<1>1. JournalInv => OnlyDebitsAreMissing
  BY DEF JournalInv
<1> QED
  BY <1>1, Invariance, PTL

\* RollbackEntry leaves no account with a net effect, and refuses a
\* transaction that has none: no transaction is rolled back twice.
THEOREM Clears == Spec => RollbackClears
<1>1. ASSUME JournalInv, RollbackEntry
      PROVE  /\ \E t \in Team, a \in Account : Change(a, journal[t][a]) # 0
             /\ \A t \in Team, a \in Account : Change(a, journal'[t][a]) = 0
  <2>1. PICK t \in Booked : ReversalBook(t, journal[t]).touched # {}
    BY <1>1 DEF RollbackEntry, CommitRefused
  <2>2. t \in Team /\ journal[t] \in [Account -> Side]
    BY <1>1 DEF Booked, JournalInv, TypeOK, Rows
  <2>3. \E a \in Account : Change(a, journal[t][a]) # 0
    BY <2>1, <2>2, ReversalIsBook
  <2>4. \A v \in Team, a \in Account : Change(a, journal'[v][a]) = 0
    BY <1>1, RollbackWrites
  <2> QED
    BY <2>2, <2>3, <2>4
<1>2. JournalInv /\ [Next]_vars =>
        [RollbackEntry => /\ \E t \in Team, a \in Account : Change(a, journal[t][a]) # 0
                         /\ \A t \in Team, a \in Account : Change(a, journal'[t][a]) = 0]_vars
  BY <1>1
<1> QED
  BY <1>2, Invariance, PTL DEF Spec, RollbackClears
------------------------------------------------------------------------------
\* The debits, the credits and the difference of the sides of each account.
Debits(s) == [a \in Account |-> s[a].debit]
Credits(s) == [a \in Account |-> s[a].credit]
Nets(s) == [a \in Account |-> RawRows(s[a])]

\* The sides of all accounts together balance to the unit.
Even(s) == Total(Nets(s), Account) = 0

\* The sums of the balance check, as totals.
LEMMA TotalsAre ==
  ASSUME IsFiniteSet(Account), NEW T \in SUBSET Account, NEW s \in [Account -> Side]
  PROVE  DebitTotal(s, T) = Total(Debits(s), T) /\ CreditTotal(s, T) = Total(Credits(s), T)
<1>1. IsFiniteSet(T)
  BY FS_Subset
<1>2. DebitTotal(s, T) = Total(Debits(s), T)
  <2> DEFINE g == Debits(s)
             it == CHOOSE it : it = [u \in SUBSET T |-> IF u = {} THEN 0 ELSE
                        s[CHOOSE a \in u : TRUE].debit + it[u \ {CHOOSE a \in u : TRUE}]]
  <2>1. DebitTotal(s, T) = it[T]
    BY DEF DebitTotal, MapThenSumSet, MapThenFoldSet
  <2>2. ASSUME NEW u \in SUBSET T, u # {} PROVE s[Pick(u)].debit = g[Pick(u)]
    BY <2>2, PickIn DEF Debits
  <2>3. PICK f : Sums(f, g, SUBSET T)
    <3> HIDE DEF g
    <3> QED
      BY <1>1, SumsExists
  <2>4. f = [u \in SUBSET T |-> IF u = {} THEN 0 ELSE
               s[CHOOSE a \in u : TRUE].debit + f[u \ {CHOOSE a \in u : TRUE}]]
    <3> HIDE DEF g
    <3> QED
      BY <2>2, <2>3 DEF Sums, Pick
  <2>5. it = [u \in SUBSET T |-> IF u = {} THEN 0 ELSE
               s[CHOOSE a \in u : TRUE].debit + it[u \ {CHOOSE a \in u : TRUE}]]
    <3> DEFINE Rec(v) == [u \in SUBSET T |-> IF u = {} THEN 0 ELSE
          s[CHOOSE a \in u : TRUE].debit + v[u \ {CHOOSE a \in u : TRUE}]]
    <3>1. f = Rec(f) /\ it = CHOOSE v : v = Rec(v)
      BY <2>4, Zenon
    <3> HIDE DEF Rec, it
    <3>2. it = Rec(it)
      BY <3>1, Zenon
    <3> QED
      BY <3>2, Zenon DEF Rec
  <2>6. Sums(it, g, SUBSET T)
    <3> HIDE DEF g, it
    <3> QED
      BY <2>2, <2>5 DEF Sums, Pick
  <2> HIDE DEF g, it
  <2>7. Total(g, T) = it[T]
    BY <1>1, <2>6, TotalIs
  <2> QED
    BY <2>1, <2>7 DEF g
<1>3. CreditTotal(s, T) = Total(Credits(s), T)
  <2> DEFINE g == Credits(s)
             it == CHOOSE it : it = [u \in SUBSET T |-> IF u = {} THEN 0 ELSE
                        s[CHOOSE a \in u : TRUE].credit + it[u \ {CHOOSE a \in u : TRUE}]]
  <2>1. CreditTotal(s, T) = it[T]
    BY DEF CreditTotal, MapThenSumSet, MapThenFoldSet
  <2>2. ASSUME NEW u \in SUBSET T, u # {} PROVE s[Pick(u)].credit = g[Pick(u)]
    BY <2>2, PickIn DEF Credits
  <2>3. PICK f : Sums(f, g, SUBSET T)
    <3> HIDE DEF g
    <3> QED
      BY <1>1, SumsExists
  <2>4. f = [u \in SUBSET T |-> IF u = {} THEN 0 ELSE
               s[CHOOSE a \in u : TRUE].credit + f[u \ {CHOOSE a \in u : TRUE}]]
    <3> HIDE DEF g
    <3> QED
      BY <2>2, <2>3 DEF Sums, Pick
  <2>5. it = [u \in SUBSET T |-> IF u = {} THEN 0 ELSE
               s[CHOOSE a \in u : TRUE].credit + it[u \ {CHOOSE a \in u : TRUE}]]
    <3> DEFINE Rec(v) == [u \in SUBSET T |-> IF u = {} THEN 0 ELSE
          s[CHOOSE a \in u : TRUE].credit + v[u \ {CHOOSE a \in u : TRUE}]]
    <3>1. f = Rec(f) /\ it = CHOOSE v : v = Rec(v)
      BY <2>4, Zenon
    <3> HIDE DEF Rec, it
    <3>2. it = Rec(it)
      BY <3>1, Zenon
    <3> QED
      BY <3>2, Zenon DEF Rec
  <2>6. Sums(it, g, SUBSET T)
    <3> HIDE DEF g, it
    <3> QED
      BY <2>2, <2>5 DEF Sums, Pick
  <2> HIDE DEF g, it
  <2>7. Total(g, T) = it[T]
    BY <1>1, <2>6, TotalIs
  <2> QED
    BY <2>1, <2>7 DEF g
<1> QED
  BY <1>2, <1>3

\* With a tolerance below the unit of money, the check of a book is equality.
LEMMA CheckIsExact ==
  ASSUME IsFiniteSet(Account), Epsilon = 1,
         NEW T \in SUBSET Account, NEW s \in [Account -> Side]
  PROVE  Balanced(s, T) <=> Total(Nets(s), T) = 0
<1>1. IsFiniteSet(T)
  BY FS_Subset
<1> DEFINE d == Debits(s)
           c == Credits(s)
           n == Nets(s)
<1>2. \A a \in T : d[a] \in Int /\ n[a] \in Int /\ c[a] \in Int /\ d[a] = n[a] + c[a]
  BY DEF Debits, Credits, Nets, RawRows, Side
<1> HIDE DEF d, c, n
<1>3. Total(d, T) = Total(n, T) + Total(c, T)
  BY <1>1, <1>2, TotalPlus
<1>4. Total(d, T) \in Int /\ Total(c, T) \in Int /\ Total(n, T) \in Int
  BY <1>1, <1>2, TotalType
<1>5. Balanced(s, T) <=> Total(d, T) - Total(c, T) < 1 /\ Total(c, T) - Total(d, T) < 1
  BY TotalsAre DEF Balanced, CompareFloatSafe, d, c
<1> QED
  BY <1>3, <1>4, <1>5 DEF n

\* Accounts outside a book have no entry in it.
BookFits(b) == \A a \in Account \ b.touched : b.entries[a] = NoSide

\* A book that passes the check keeps the rows even.
LEMMA SaveIsEven ==
  ASSUME IsFiniteSet(Account), Epsilon = 1, TypeOK, \A t \in Team : Even(rows[t]),
         NEW b, IsBook(b), BookFits(b), NEW include, NEW rollback,
         ~CommitRefused(b, include), SaveBook(b, include, rollback)
  PROVE  \A t \in Team : Even(rows'[t])
<1> DEFINE e == Nets(b.entries)
           r == Nets(rows[b.team])
           z == Nets(rows'[b.team])
<1>1. rows[b.team] \in [Account -> Side] /\ rows \in [Team -> [Account -> Side]]
  BY DEF TypeOK, Rows, IsBook
<1>2. /\ \A t \in Team \ {b.team} : rows'[t] = rows[t]
      /\ rows'[b.team] = [a \in Account |-> IF a \in Saved(b, include)
                            THEN Merge(rows[b.team][a], b.entries[a]) ELSE rows[b.team][a]]
  BY <1>1 DEF SaveBook, RowsWith, IsBook
<1>3. ASSUME NEW a \in Account
      PROVE  e[a] \in Int /\ r[a] \in Int /\ z[a] = r[a] + e[a]
  <2>1. rows[b.team][a] \in Side /\ b.entries[a] \in Side
    BY <1>1 DEF IsBook
  <2>2. RawRows(rows[b.team][a]) \in Int /\ RawRows(b.entries[a]) \in Int
    BY <2>1 DEF RawRows, Side
  <2>3. CASE a \in Saved(b, include)
    BY <1>2, <2>1, <2>2, <2>3, MergeAdds DEF Nets
  <2>4. CASE a \notin Saved(b, include)
    <3>1. RawRows(b.entries[a]) = 0
      BY <2>1, <2>4, NothingFits DEF Saved, BookFits, RawRows, Side
    <3> QED
      BY <1>2, <2>2, <2>4, <3>1 DEF Nets
  <2> QED
    BY <2>3, <2>4
<1>4. ASSUME NEW a \in Account \ b.touched PROVE e[a] = 0
  BY <1>4, NothingFits DEF BookFits, Nets
<1>5. b.touched \in SUBSET Account /\ b.entries \in [Account -> Side] /\ b.team \in Team
  BY DEF IsBook
<1>6. Total(e, b.touched) = 0
  BY <1>5, CheckIsExact DEF CommitRefused
<1>7. Total(r, Account) = 0
  BY <1>5 DEF Even
<1> HIDE DEF e, r, z
<1>8. Total(e, Account) = 0
  BY <1>3, <1>4, <1>5, <1>6, TotalRestrict
<1>9. Total(z, Account) = Total(r, Account) + Total(e, Account)
  BY <1>3, TotalPlus
<1>10. Even(rows'[b.team])
  BY <1>7, <1>8, <1>9 DEF Even, z
<1> QED
  BY <1>2, <1>10

\* Rows without any net effect are even.
LEMMA ClearIsEven ==
  ASSUME IsFiniteSet(Account), NEW s \in [Account -> Side],
         \A a \in Account : Change(a, s[a]) = 0
  PROVE  Even(s)
<1> DEFINE n == Nets(s)
<1>1. ASSUME NEW a \in Account PROVE n[a] = 0
  <2>1. s[a] \in Side
    OBVIOUS
  <2>2. s[a].debit - s[a].credit = 0 \/ s[a].credit - s[a].debit = 0
    BY DEF Change, DiffBalance
  <2> QED
    BY <2>1, <2>2 DEF Nets, RawRows, Side
<1> HIDE DEF n
<1>2. Total(n, Account) = 0
  BY <1>1, TotalZero
<1> QED
  BY <1>2 DEF Even, n

\* The book in construction and the rows, in the open transaction and out of
\* it.
EvenInv == /\ JournalInv
           /\ BookFits(book)
           /\ \A t \in Team : Even(rows[t]) /\ Even(journal[t])

\* It is inductive.
LEMMA StepIsEven ==
  ASSUME IsFiniteSet(Account), Epsilon = 1, EvenInv, [Next]_vars
  PROVE  EvenInv'
<1>1. JournalInv /\ JournalInv' /\ TypeOK /\ BookFits(NoBook)
  BY StepKeeps DEF EvenInv, JournalInv, BookFits, NoBook
<1>2. ASSUME Abandon PROVE EvenInv'
  BY <1>1, <1>2 DEF Abandon, EvenInv
<1>3. ASSUME NEW b, IsBook(b), BookFits(b), NEW include, NEW rollback,
             ~CommitRefused(b, include), SaveBook(b, include, rollback)
      PROVE  EvenInv'
  <2>1. \A t \in Team : Even(rows'[t])
    BY <1>1, <1>3, SaveIsEven DEF EvenInv
  <2> QED
    BY <1>1, <1>3, <2>1 DEF SaveBook, EvenInv
<1>4. ASSUME NEW a \in Account, NEW amount, To(a, amount) PROVE EvenInv'
  <2>1. journal' = journal /\ rows' = rows
    BY <1>4 DEF To
  <2>2. BookFits(book')
    <3> SUFFICES ASSUME NEW x \in Account \ book'.touched PROVE book'.entries[x] = NoSide
      BY DEF BookFits
    <3>1. /\ book.entries \in [Account -> Side]
          /\ DOMAIN book = {"team", "entries", "touched", "err", "calls"}
      BY <1>1 DEF TypeOK
    <3>2. x \notin book.touched /\ book'.entries[x] = book.entries[x]
      BY <1>4, <3>1 DEF To
    <3> QED
      BY <3>2 DEF EvenInv, BookFits
  <2> QED
    BY <1>1, <2>1, <2>2 DEF EvenInv
<1>5. CASE UNCHANGED vars
  BY <1>1, <1>5 DEF EvenInv, vars
<1>6. CASE Open
  BY <1>1, <1>6 DEF EvenInv, Open
<1>7. CASE Fail
  BY <1>2, <1>7 DEF Fail
<1>8. CASE Close
  BY <1>1, <1>2, <1>8 DEF EvenInv, Close
<1>9. CASE RollbackEntry
  <2>1. /\ journal' \in [Team -> [Account -> Side]] /\ rows' = journal' /\ book' = book
    BY <1>1, <1>9 DEF JournalInv, TypeOK, Rows, RollbackEntry
  <2>2. ASSUME NEW t \in Team PROVE Even(journal'[t])
    <3>1. \A a \in Account : Change(a, journal'[t][a]) = 0
      BY <1>1, <1>9, RollbackWrites
    <3> QED
      BY <2>1, <3>1, ClearIsEven
  <2> QED
    BY <1>1, <2>1, <2>2 DEF EvenInv
<1>10. ASSUME NEW t \in Team, NewCreateEntry(t) PROVE EvenInv'
  <2>1. book' = [NoBook EXCEPT !.team = t] /\ journal' = journal /\ rows' = rows
    BY <1>10 DEF NewCreateEntry
  <2>2. book'.entries = NoBook.entries /\ book'.touched = NoBook.touched
    BY <2>1 DEF NoBook
  <2>3. BookFits(book')
    BY <1>1, <2>2 DEF BookFits
  <2> QED
    BY <1>1, <2>1, <2>3 DEF EvenInv
<1>11. ASSUME NEW t \in Team, Reset(t) PROVE EvenInv'
  <2> DEFINE b == ReversalBook(t, rows[t])
  <2>1. rows[t] \in [Account -> Side]
    BY <1>1 DEF TypeOK, Rows
  <2>2. /\ IsBook(b) /\ b.entries = [a \in Account |-> Reversal(a, rows[t][a])]
        /\ b.touched = {a \in Account : Change(a, rows[t][a]) # 0}
    BY <2>1, ReversalIsBook
  <2>3. BookFits(b)
    <3> HIDE DEF b
    <3> QED
      BY <2>2 DEF BookFits, Reversal
  <2>4. Abandon \/ (~CommitRefused(b, FALSE) /\ SaveBook(b, FALSE, TRUE))
    BY <1>11 DEF Reset
  <2> HIDE DEF b
  <2> QED
    BY <1>2, <1>3, <2>2, <2>3, <2>4
<1>12. ASSUME NEW include, Commit(include) PROVE EvenInv'
  <2>1. IsBook(book) /\ BookFits(book)
    BY <1>1, <1>12 DEF EvenInv, TypeOK, IsBook, Commit
  <2>2. Abandon \/ (~CommitRefused(book, include) /\ SaveBook(book, include, FALSE))
    BY <1>12 DEF Commit
  <2> QED
    BY <1>2, <1>3, <2>1, <2>2
<1>13. ASSUME NEW a \in Account, NEW amount, From(a, amount) PROVE EvenInv'
  BY <1>4, <1>13 DEF From
<1> QED
  BY <1>4, <1>5, <1>6, <1>7, <1>8, <1>9, <1>10, <1>11, <1>12, <1>13 DEF Next

\* The committed rows of every team balance to the unit, after any books,
\* resets and rollbacks, when the tolerance is below the unit of money, as
\* PrecisionEpsilon = 0.0001 is.
THEOREM Balances ==
  ASSUME IsFiniteSet(Account), Epsilon = 1
  PROVE  Spec => []TeamsBalance
<1>1. Init => EvenInv
  <2> SUFFICES ASSUME Init PROVE EvenInv
    OBVIOUS
  <2>1. JournalInv /\ BookFits(book)
    BY InitFits DEF Init, BookFits, NoBook
  <2>2. ASSUME NEW t \in Team PROVE Even(NoRows[t])
    <3>1. NoRows[t] \in [Account -> Side] /\ \A a \in Account : NoRows[t][a] = NoSide
      BY NothingFits DEF NoRows
    <3> QED
      BY <3>1, NothingFits, ClearIsEven
  <2> QED
    BY <2>1, <2>2 DEF Init, EvenInv
<1>2. EvenInv /\ [Next]_vars => EvenInv'
  BY StepIsEven
<1>3. EvenInv => TeamsBalance
  <2> SUFFICES ASSUME EvenInv, NEW t \in Team PROVE Balanced(journal[t], Account)
    BY DEF TeamsBalance
  <2>1. journal[t] \in [Account -> Side] /\ Even(journal[t])
    BY DEF EvenInv, JournalInv, TypeOK, Rows
  <2> QED
    BY <2>1, CheckIsExact DEF Even
<1> QED
  BY <1>1, <1>2, <1>3, PTL DEF Spec
==============================================================================
