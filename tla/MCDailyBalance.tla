--------------------------- MODULE MCDailyBalance ---------------------------
(* Messages of one or two entries on two accounts of a key, for TLC.        *)
EXTENDS DailyBalance, TLC

CONSTANTS a, b, shop, t1, t2

\* An entry on one side, one that is rolled back, and one in another book.
Entry(acc, n) ==
  [team |-> t1, account |-> acc, amount |-> n, gross |-> IF n < 0 THEN -n ELSE n, rollback |-> FALSE]
Undone(e) == [e EXCEPT !.amount = -@, !.rollback = TRUE]
InBook(t, e) == [e EXCEPT !.team = t]

\* A message of a day, and one early the next day in Asia/Jakarta.
Message(entries, day, labels) ==
  [entries |-> entries, day |-> day, local |-> day, labels |-> labels]
Early(m) == [m EXCEPT !.local = @ + 1]

\* One entry on any day, on one account.
OnOneAccount == {Message(<<Entry(a, 1)>>, d, <<>>) : d \in Day}

\* A rollback entry early in the morning in Asia/Jakarta, an entry in another
\* team's book on that day, and one in that book on the next day.
InTwoBooks == {Early(Message(<<Undone(Entry(a, 1))>>, 1, <<>>)),
               Message(<<InBook(t2, Entry(a, 1))>>, 1, <<>>),
               Message(<<InBook(t2, Entry(a, 1))>>, 2, <<>>)}

\* A book on both accounts, a correction of it, a rollback, and one with a label.
OnBothAccounts == UNION {{Message(<<Entry(a, 2), Entry(b, 1)>>, d, <<>>),
                          Message(<<Undone(Entry(b, 1))>>, d, <<>>),
                          Message(<<Entry(a, 1)>>, d, <<shop>>)} : d \in Day}

Workers == Permutations(Worker)
==============================================================================
