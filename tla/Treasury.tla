------------------------------ MODULE Treasury ------------------------------
(***************************************************************************)
(* The calls by which teams keep their own money: bank accounts, transfers *)
(* between them, their initial balances, expenses, advertising, manual     *)
(* adjustments, and the set-up of a team's accounts.                       *)
(*                                                                         *)
(* Each call but Setup is one database transaction.  What races is the     *)
(* rows and the unique keys it takes on its way, so a call is a plan of    *)
(* steps:                                                                  *)
(*   row     SELECT ... FOR UPDATE, or UPDATE, of a bank account           *)
(*   find    look a unique key up, insert it when it is missing            *)
(*   insert  insert a unique key, an error when it is taken                *)
(*   save    the same, outside a transaction: it stays whatever follows    *)
(*   upsert  insert a unique key unless it is taken                        *)
(*   seek    look a ref up, the call is done when it exists                *)
(*   post    a step that books                                             *)
(*   refuse  an error whatever the others do                               *)
(* A row, or a key that is not committed yet, makes the others wait.  The  *)
(* rest is written when the plan is done.                                  *)
(***************************************************************************)
EXTENDS Integers, Sequences, FiniteSetsExt

CONSTANTS Session,      \* concurrent calls the service runs
          Team, Root,   \* the teams, and the one that owns the start capital
          Bank,         \* ids of bank accounts
          Opened,       \* whose accounts exist at first
          Seeded,       \* unique keys that exist at first
          Request,      \* the calls that may arrive
          Word,         \* names of tags and labels
          ExpenseType,
          Shop, Marketplace,  \* shop ids, and the marketplace of those that exist
          CapitalType,  \* balance type of the account capital_start
          None,
          MaxRequests,  \* bound: calls
          MaxTime       \* bound: seconds

VARIABLES account,  \* committed bank accounts
          keys,     \* committed unique keys: refs, accounts, tags, labels, numbers
          done,     \* committed calls: histories, expenses, transactions
          book,     \* committed net effect on the accounts: team, key, owner
          held,     \* rows and keys that each open transaction holds
          req, todo,  \* the call of each session and what is left of its plan
          copy,     \* the bank account it read last
          work,     \* what it has booked
          now, requests

vars == <<account, keys, done, book, held, req, todo, copy, work, now, requests>>

Key == {"cash", "selling_receivable", "adj_asset", "bank_fee", "expense",
        "adj_expense", "ads_expense", "capital_start"}

\* Where an adjustment of an account is booked: by the account's class.
AdjKey == [cash |-> "adj_asset", selling_receivable |-> "adj_asset",
           bank_fee |-> "adj_expense", expense |-> "adj_expense"]

Account == [team : Team, balance : Int, deleted : BOOLEAN, renamed : BOOLEAN]
Adjustment == [book : Team, owner : Team, key : DOMAIN AdjKey, amount : Int]

Call == [call : {"transfer"}, team : Team, from : Bank, to : Bank, amount : Int, fee : Int]
        \cup [call : {"init"}, account : Bank, amount : Int]
        \cup [call : {"create"}, account : Bank, team : Team, labels : Seq(Word)]
        \cup [call : {"delete"}, accounts : Seq(Bank)]
        \cup [call : {"adjust"}, adjs : Seq(Adjustment)]
        \cup [call : {"expense"}, team : Team, type : ExpenseType, amount : Int]
        \cup [call : {"ads"}, team : Team, source : {"shop", "bank"}, shop : Shop, ref : Nat,
              tags : Seq(Word), amount : Int]
        \cup [call : {"setup"}, team : Team]
        \cup [call : {"tag"}, tags : Seq(Word)]

\* The unique keys a call may insert.
Resource == ({"number"} \X Bank) \cup ({"ref", "tag", "label", "banklabel"} \X Word)
            \cup (Key \X Team) \cup ({"expense"} \X Team \X ExpenseType \X Nat)
            \cup ({"ads", "paid"} \X Shop \X Nat)

\* One step of a plan.
PlanStep == [op : {"row"}, key : Bank]
            \cup [op : {"find", "insert", "save", "upsert", "seek"}, key : Resource]
            \cup [op : {"post"}, key : {"entry"} \X Nat]
            \cup [op : {"refuse"}, key : {None}]

ASSUME WordAssumption == {"empty", "adj", "purpose"} \subseteq Word
ASSUME ShopAssumption == Marketplace \in [Shop -> Word \cup {None}]
ASSUME BankAssumption == \A a \in Bank : a \notin Resource
ASSUME TeamAssumption == Root \in Team
ASSUME NoneAssumption == None \notin Session \cup Team \cup Call \cup Account \cup Word
ASSUME OpenedAssumption == Opened \in [Bank -> Team \cup {None}]
ASSUME RequestAssumption == Request \subseteq Call
ASSUME BoundAssumption == MaxRequests \in Nat /\ MaxTime \in Nat

NothingBooked == [t \in Team |-> [k \in Key |-> [u \in Team |-> 0]]]

NewAccount(t) == [team |-> t, balance |-> 0, deleted |-> FALSE, renamed |-> FALSE]

Init == /\ account = [a \in Bank |-> IF Opened[a] = None THEN None ELSE NewAccount(Opened[a])]
        /\ keys = Seeded \cup {<<"number", a>> : a \in {a \in Bank : Opened[a] # None}}
        /\ done = {}
        /\ book = NothingBooked
        /\ held = [s \in Session |-> {}]
        /\ req = [s \in Session |-> None]
        /\ todo = [s \in Session |-> <<>>]
        /\ copy = [s \in Session |-> None]
        /\ work = [s \in Session |-> NothingBooked]
        /\ now = 0
        /\ requests = 0
------------------------------------------------------------------------------
Op(op, key) == [op |-> op, key |-> key]
PostOp(i) == Op("post", <<"entry", i>>)
Refuse == Op("refuse", None)

\* The adjustment account of the owner, the tag of the request, the book.
AdjustPlan(adjs) ==
  [j \in 1..(3 * Len(adjs)) |->
     LET x == adjs[(j + 2) \div 3]
     IN CASE j % 3 = 1 -> Op("find", <<AdjKey[x.key], x.owner>>)
          [] j % 3 = 2 -> Op("find", <<"tag", "adj">>)
          [] OTHER     -> PostOp((j + 2) \div 3)]

\* A transfer has a book for each team.
TransferPlan(r) == <<Op("row", r.from), Op("row", r.to), Op("find", <<"label", "purpose">>),
                     PostOp(1), PostOp(2)>>

\* An initial balance is booked under the empty ref.
InitPlan(r)     == <<Op("row", r.account), Op("insert", <<"ref", "empty">>), PostOp(1)>>

CreatePlan(r)   == <<Op("insert", <<"number", r.account>>)>>
                   \o [i \in 1..Len(r.labels) |-> Op("find", <<"banklabel", r.labels[i]>>)]
DeletePlan(r)   == [i \in 1..Len(r.accounts) |-> Op("row", r.accounts[i])]
SetupPlan(r)    == <<Op("find", <<"adj_asset", r.team>>), Op("find", <<"adj_expense", r.team>>)>>
TagPlan(r)      == [i \in 1..Len(r.tags) |-> Op("upsert", <<"tag", r.tags[i]>>)]

\* The ref of an expense is its team, its type and the second it is made in.
ExpensePlan(r)  == <<Op("insert", <<"expense", r.team, r.type, now>>), PostOp(1)>>

\* The ref of advertising: a shop's has one of its own, which may not be empty
\* (0); the others have the time of the call, for which its number stands.
AdsRef(r) == IF r.source = "shop" THEN <<"ads", r.shop, r.ref>> ELSE <<"paid", r.shop, requests>>

\* The tags of the request, the first of them its marketplace's; the label and
\* the tag of the marketplace that the shop is on.
AdsPlan(r) ==
  IF r.source = "shop" /\ r.ref = 0 THEN <<Refuse>>
  ELSE <<Op("seek", AdsRef(r))>> \o TagPlan(r) \o <<Op("insert", AdsRef(r))>>
       \o (IF Marketplace[r.shop] = None THEN <<Refuse>>
           ELSE <<Op("find", <<"label", Marketplace[r.shop]>>),
                  Op("find", <<"tag", Marketplace[r.shop]>>), PostOp(1)>>)

\* The plan of each handler.  A transfer and an adjustment book under refs of
\* their own, which nobody waits for.
Plan(r) == CASE r.call = "transfer" -> TransferPlan(r)
             [] r.call = "init"     -> InitPlan(r)
             [] r.call = "create"   -> CreatePlan(r)
             [] r.call = "delete"   -> DeletePlan(r)
             [] r.call = "adjust"   -> AdjustPlan(r.adjs)
             [] r.call = "expense"  -> ExpensePlan(r)
             [] r.call = "ads"      -> AdsPlan(r)
             [] r.call = "setup"    -> SetupPlan(r)
             [] r.call = "tag"      -> TagPlan(r)

Begin(s, r) ==
  /\ req[s] = None
  /\ requests < MaxRequests
  /\ requests' = requests + 1
  /\ req' = [req EXCEPT ![s] = r]
  /\ todo' = [todo EXCEPT ![s] = Plan(r)]
  /\ UNCHANGED <<account, keys, done, book, held, copy, work, now>>

\* Mutant of Return: rows and keys stay locked.
ReturnHolding(s) ==
  /\ req' = [req EXCEPT ![s] = None]
  /\ todo' = [todo EXCEPT ![s] = <<>>]
  /\ copy' = [copy EXCEPT ![s] = None]
  /\ work' = [work EXCEPT ![s] = NothingBooked]
  /\ UNCHANGED <<held, now, requests>>

\* The database transaction ends; what it holds is free.
Return(s) ==
  /\ req' = [req EXCEPT ![s] = None]
  /\ todo' = [todo EXCEPT ![s] = <<>>]
  /\ copy' = [copy EXCEPT ![s] = None]
  /\ work' = [work EXCEPT ![s] = NothingBooked]
  /\ held' = [held EXCEPT ![s] = {}]
  /\ UNCHANGED <<now, requests>>

\* ... without a trace.
GiveUp(s) == Return(s) /\ UNCHANGED <<account, keys, done, book>>

At(s, op) == req[s] # None /\ todo[s] # <<>> /\ Head(todo[s]).op = op
Target(s) == Head(todo[s]).key
Free(s, k) == \A q \in Session \ {s} : k \notin held[q]
Exists(s, k) == k \in keys \cup held[s]

\* The next step of the plan is done, and k is held from now on.
Advance(s) ==
  /\ todo' = [todo EXCEPT ![s] = Tail(@)]
  /\ UNCHANGED <<account, keys, done, book, req, now, requests>>
Hold(s, k) == held' = [held EXCEPT ![s] = @ \cup {k}]
------------------------------------------------------------------------------
\* What a handler checks on the row it has locked: a transfer leaves an account
\* of the calling team, and an initial balance is set on an empty account.
MayUse(s, a) ==
  /\ req[s].call = "transfer" /\ a = req[s].from => account[a].team = req[s].team
  /\ req[s].call = "init" => account[a].balance = 0

\* Mutant of LockRow: First without the locking clause.
ReadRow(s) ==
  /\ At(s, "row")
  /\ account[Target(s)] # None
  /\ Free(s, Target(s))
  /\ MayUse(s, Target(s))
  /\ copy' = [copy EXCEPT ![s] = account[Target(s)]]
  /\ Advance(s)
  /\ UNCHANGED <<held, work>>

LockRow(s) ==
  /\ At(s, "row")
  /\ account[Target(s)] # None
  /\ Free(s, Target(s))
  /\ MayUse(s, Target(s))
  /\ Hold(s, Target(s))
  /\ copy' = [copy EXCEPT ![s] = account[Target(s)]]
  /\ Advance(s)
  /\ UNCHANGED work

RefuseRow(s) ==
  /\ At(s, "row")
  /\ account[Target(s)] # None
  /\ Free(s, Target(s))
  /\ ~MayUse(s, Target(s))
  /\ GiveUp(s)

\* First finds no row, which is an error; an UPDATE affects none and goes on.
MissingRow(s) ==
  /\ At(s, "row")
  /\ account[Target(s)] = None
  /\ IF req[s].call = "delete"
     THEN Advance(s) /\ UNCHANGED <<held, copy, work>>
     ELSE GiveUp(s)

\* Find reads committed keys and its own; what another call is inserting is
\* not there yet.
Find(s) ==
  /\ At(s, "find")
  /\ Exists(s, Target(s))
  /\ Advance(s)
  /\ UNCHANGED <<held, copy, work>>

FindNothing(s) ==
  /\ At(s, "find")
  /\ ~Exists(s, Target(s))
  /\ LET op == IF req[s].call = "setup" THEN "save" ELSE "insert"
     IN todo' = [todo EXCEPT ![s] = <<Op(op, Target(s))>> \o Tail(@)]
  /\ UNCHANGED <<account, keys, done, book, held, req, copy, work, now, requests>>

\* Mutant of Insert: no unique index.
InsertAgain(s) ==
  /\ At(s, "insert")
  /\ Free(s, Target(s))
  /\ Hold(s, Target(s))
  /\ Advance(s)
  /\ UNCHANGED <<copy, work>>

\* An insert waits for the end of a transaction that has inserted the key.
Insert(s) ==
  /\ At(s, "insert")
  /\ Free(s, Target(s))
  /\ ~Exists(s, Target(s))
  /\ Hold(s, Target(s))
  /\ Advance(s)
  /\ UNCHANGED <<copy, work>>

\* Setup runs each statement by itself: an account it creates is committed.
Save(s) ==
  /\ At(s, "save")
  /\ Free(s, Target(s))
  /\ ~Exists(s, Target(s))
  /\ keys' = keys \cup {Target(s)}
  /\ todo' = [todo EXCEPT ![s] = Tail(@)]
  /\ UNCHANGED <<account, done, book, held, req, copy, work, now, requests>>

Sum(b, w) == [t \in Team |-> [k \in Key |-> [u \in Team |-> b[t][k][u] + w[t][k][u]]]]

\* Mutant of Duplicate: what is booked so far stays.
GiveUpHalf(s) ==
  /\ book' = Sum(book, work[s])
  /\ Return(s)
  /\ UNCHANGED <<account, keys, done>>
DuplicateHalf(s) ==
  /\ At(s, "insert") \/ At(s, "save")
  /\ Free(s, Target(s))
  /\ Exists(s, Target(s))
  /\ GiveUpHalf(s)

Duplicate(s) ==
  /\ At(s, "insert") \/ At(s, "save")
  /\ Free(s, Target(s))
  /\ Exists(s, Target(s))
  /\ GiveUp(s)

\* ON CONFLICT DO NOTHING.
Upsert(s) ==
  /\ At(s, "upsert")
  /\ Free(s, Target(s))
  /\ IF Exists(s, Target(s)) THEN UNCHANGED held ELSE Hold(s, Target(s))
  /\ Advance(s)
  /\ UNCHANGED <<copy, work>>

\* ByRefID: a ref that exists ends the call with ErrSkipTransaction.
Seek(s) ==
  /\ At(s, "seek")
  /\ ~Exists(s, Target(s))
  /\ Advance(s)
  /\ UNCHANGED <<held, copy, work>>

Skip(s) ==
  /\ At(s, "seek")
  /\ Exists(s, Target(s))
  /\ GiveUp(s)

Refused(s) == At(s, "refuse") /\ GiveUp(s)
------------------------------------------------------------------------------
Add(b, t, k, u, n) == [b EXCEPT ![t][k][u] = @ + n]

\* TransferCreate keeps a book for each team.  The payer: From its cash, To
\* the other team's cash, To the bank fee.  The receiver: From the payer's
\* cash, To its own.  Inside one team both books are its own.
PayerBook(r, b) ==
  LET t == r.team
  IN Add(Add(Add(b, t, "cash", t, -(r.amount + r.fee)), t, "cash", account[r.to].team, r.amount),
         t, "bank_fee", t, r.fee)

ReceiverBook(r, b) ==
  LET u == account[r.to].team
  IN Add(Add(b, u, "cash", r.team, -r.amount), u, "cash", u, r.amount)

\* AccountBalanceInit: From the start capital of the root team, To cash.
InitBook(r, b) ==
  LET t == account[r.account].team
  IN Add(Add(b, t, "capital_start", Root, -r.amount), t, "cash", t, r.amount)

ExpenseBook(r, b) ==
  Add(Add(b, r.team, "cash", r.team, -r.amount), r.team, "expense", r.team, r.amount)

AdsBook(r, b) ==
  Add(Add(b, r.team, IF r.source = "shop" THEN "selling_receivable" ELSE "cash",
          r.team, -r.amount),
      r.team, "ads_expense", r.team, r.amount)

\* AccountAdjustment: From the adjustment account To the account, or the other
\* way round for a negative amount.
AdjustBook(x, b) ==
  Add(Add(b, x.book, AdjKey[x.key], x.owner, -x.amount), x.book, x.key, x.owner, x.amount)

Booked(r, i, b) == CASE r.call = "transfer" -> IF i = 1 THEN PayerBook(r, b) ELSE ReceiverBook(r, b)
                     [] r.call = "init"     -> InitBook(r, b)
                     [] r.call = "expense"  -> ExpenseBook(r, b)
                     [] r.call = "ads"      -> AdsBook(r, b)
                     [] r.call = "adjust"   -> AdjustBook(r.adjs[i], b)
                     [] OTHER               -> b

\* A book of zero amounts is refused, a transfer needs two accounts, and an
\* initial balance moves both its accounts to the same side unless
\* capital_start is a debit account.
Bookable(r, i) ==
  CASE r.call = "transfer" -> r.from # r.to /\ r.amount # 0 /\ r.amount + r.fee # 0
    [] r.call = "init"     -> r.amount # 0 /\ CapitalType = "d"
    [] r.call = "adjust"   -> r.adjs[i].amount # 0
    [] OTHER               -> r.amount # 0

Post(s) ==
  /\ At(s, "post")
  /\ Bookable(req[s], Target(s)[2])
  /\ work' = [work EXCEPT ![s] = Booked(req[s], Target(s)[2], @)]
  /\ Advance(s)
  /\ UNCHANGED <<held, copy>>

PostFails(s) ==
  /\ At(s, "post")
  /\ ~Bookable(req[s], Target(s)[2])
  /\ GiveUp(s)

\* The bank accounts after a call: a new row; the row that was read, saved with
\* its balance; the rows an AccountDelete has updated.
Written(s) ==
  LET r == req[s]
  IN CASE r.call = "create" -> [account EXCEPT ![r.account] = NewAccount(r.team)]
       [] r.call = "init"   -> [account EXCEPT ![r.account] = [copy[s] EXCEPT !.balance = r.amount]]
       [] r.call = "delete" -> [a \in Bank |-> IF a \in held[s] THEN [account[a] EXCEPT !.deleted = TRUE]
                                                                 ELSE account[a]]
       [] OTHER             -> account

Commit(s) ==
  /\ req[s] # None
  /\ todo[s] = <<>>
  /\ account' = Written(s)
  /\ keys' = keys \cup (held[s] \ Bank)
  /\ done' = done \cup {[id |-> Cardinality(done) + 1, req |-> req[s]]}
  /\ book' = Sum(book, work[s])
  /\ Return(s)

\* Mutant of Fail: each statement runs by itself.
FailHalf(s) == req[s] # None /\ GiveUpHalf(s)

\* A statement or the commit fails, or the process stops.
Fail(s) == req[s] # None /\ GiveUp(s)

WaitsFor(s, q) == /\ s # q
                  /\ req[s] # None /\ todo[s] # <<>>
                  /\ Head(todo[s]).op \in {"row", "insert", "save", "upsert"}
                  /\ Target(s) \in held[q]

\* The database gives up a transaction of a cycle of waiting ones.
BreakDeadlock(s) ==
  /\ \E S \in SUBSET Session :
       /\ s \in S
       /\ \A q \in S : (\E r \in S : WaitsFor(q, r)) /\ (\E r \in S : WaitsFor(r, q))
  /\ GiveUp(s)

\* AccountUpdate is one UPDATE, which waits for the row.
AccountUpdate(a) ==
  /\ account[a] # None
  /\ requests < MaxRequests
  /\ \A s \in Session : a \notin held[s]
  /\ requests' = requests + 1
  /\ account' = [account EXCEPT ![a].renamed = TRUE]
  /\ UNCHANGED <<keys, done, book, held, req, todo, copy, work, now>>

Tick == /\ now < MaxTime
        /\ now' = now + 1
        /\ UNCHANGED <<account, keys, done, book, held, req, todo, copy, work, requests>>

Step(s) == \/ LockRow(s) \/ RefuseRow(s) \/ MissingRow(s)
           \/ Find(s) \/ FindNothing(s) \/ Insert(s) \/ Save(s) \/ Duplicate(s) \/ Upsert(s)
           \/ Seek(s) \/ Skip(s) \/ Refused(s) \/ Post(s) \/ PostFails(s) \/ Commit(s)

Next == \/ \E s \in Session :
             (\E r \in Request : Begin(s, r)) \/ Step(s) \/ Fail(s) \/ BreakDeadlock(s)
        \/ \E a \in Bank : AccountUpdate(a)
        \/ Tick

Spec == Init /\ [][Next]_vars

\* A handler runs until it returns, row locks are granted in order, and the
\* database looks for deadlocks.
FairSpec == Spec /\ \A s \in Session : SF_vars(Step(s)) /\ WF_vars(BreakDeadlock(s))
------------------------------------------------------------------------------
Books == [Team -> [Key -> [Team -> Int]]]

\* Type invariant.
TypeOK ==
  /\ account \in [Bank -> Account \cup {None}]
  /\ book \in Books /\ work \in [Session -> Books]
  /\ held \in [Session -> SUBSET (Bank \cup Resource)]
  /\ req \in [Session -> Call \cup {None}]
  /\ todo \in [Session -> Seq(PlanStep)]
  /\ copy \in [Session -> Account \cup {None}]
  /\ now \in 0..MaxTime /\ requests \in 0..MaxRequests

\* The cash of a team in its own book is what the committed calls moved.
TeamOf(a) == account[a].team
Moved(r, t) ==
  CASE r.call = "transfer" -> (IF r.team = t THEN -(r.amount + r.fee) ELSE 0)
                              + (IF TeamOf(r.to) = t THEN r.amount ELSE 0)
    [] r.call = "init"     -> IF TeamOf(r.account) = t THEN r.amount ELSE 0
    [] r.call = "expense"  -> IF r.team = t THEN -r.amount ELSE 0
    [] r.call = "ads"      -> IF r.team = t /\ r.source = "bank" THEN -r.amount ELSE 0
    [] r.call = "adjust"   ->
         MapThenSumSet(LAMBDA i : r.adjs[i].amount,
                       {i \in 1..Len(r.adjs) : /\ r.adjs[i].book = t /\ r.adjs[i].owner = t
                                               /\ r.adjs[i].key = "cash"})
    [] OTHER               -> 0
CashIsWhatTheCallsMoved ==
  \A t \in Team : book[t]["cash"][t] = MapThenSumSet(LAMBDA x : Moved(x.req, t), done)

\* What two teams' books say of each other's assets mirrors: a transfer is in
\* both, an adjustment is against an account of its own.
Assets(b, t, u) == b[t]["cash"][u] + b[t]["selling_receivable"][u] + b[t]["adj_asset"][u]
Mirrors(b) == \A t, u \in Team : t # u => Assets(b, t, u) = -Assets(b, u, t)
AssetsMirror == Mirrors(book)

\* Saving a whole row loses no update: a deletion stays, a new name stays, a
\* balance is set once, whoever else writes the row meanwhile.
UpdatesStay ==
  [][\A a \in Bank : account[a] # None =>
       /\ account'[a] # None
       /\ account'[a].team = account[a].team
       /\ account[a].deleted => account'[a].deleted
       /\ account[a].renamed => account'[a].renamed
       /\ account[a].balance # 0 => account'[a].balance = account[a].balance]_vars

\* Transfers in opposite directions, deletions and tags in opposite orders may
\* wait for each other in a circle; every call returns nevertheless.
EveryCallReturns == \A s \in Session : req[s] # None ~> req[s] = None

\* A row or key is held by one open transaction; rows that are held exist.
HeldInv == /\ \A s, q \in Session : s # q => held[s] \cap held[q] = {}
           /\ \A s \in Session : \A a \in Bank \cap held[s] : account[a] # None

\* The cost of advertising that a shop has paid is booked once for its ref,
\* whatever requests look for the ref before one of them has inserted it.
PaidByShop(x) == x.req.call = "ads" /\ x.req.source = "shop"
AdsAreBookedOnce ==
  \A x, y \in done :
    PaidByShop(x) /\ PaidByShop(y) /\ x.req.shop = y.req.shop /\ x.req.ref = y.req.ref => x = y

\* What is left of the plan of an adjustment books entries of the call.
PlanOf(s) ==
  \A i \in 1..Len(todo[s]) :
    req[s].call = "adjust" /\ todo[s][i].op = "post" => todo[s][i].key[2] \in 1..Len(req[s].adjs)

\* A transfer has found the account it goes to before it books, and books for
\* the payer first.
HalfBooked(s) == req[s].call = "transfer" /\ todo[s] = <<PostOp(2)>>
TransferOf(s) ==
  req[s].call = "transfer" =>
    \/ todo[s] = TransferPlan(req[s]) \/ todo[s] = Tail(TransferPlan(req[s]))
    \/ /\ account[req[s].to] # None
       /\ \/ \E op \in {"find", "insert"} :
               todo[s] = <<Op(op, <<"label", "purpose">>), PostOp(1), PostOp(2)>>
          \/ todo[s] \in {<<PostOp(1), PostOp(2)>>, <<PostOp(2)>>, <<>>}

\* What a call has booked is mirrored, once it has booked for both teams.
WorkMirrors(s) ==
  Mirrors(IF req[s] # None /\ HalfBooked(s) THEN ReceiverBook(req[s], work[s]) ELSE work[s])

\* An initial balance is saved on the row as it is.
CopyOf(s) ==
  req[s].call = "init" =>
    \/ todo[s] = InitPlan(req[s])
    \/ /\ \A i \in 1..Len(todo[s]) : todo[s][i].op # "row"
       /\ req[s].account \in held[s]
       /\ copy[s] = account[req[s].account] /\ copy[s] # None /\ copy[s].balance = 0

\* A number is taken before the account is opened.
NumberOf(s) ==
  req[s].call = "create" =>
    \/ todo[s] = CreatePlan(req[s])
    \/ <<"number", req[s].account>> \in held[s] /\ account[req[s].account] = None

CallInv(s) ==
  IF req[s] = None THEN todo[s] = <<>>
                   ELSE PlanOf(s) /\ TransferOf(s) /\ CopyOf(s) /\ NumberOf(s)

\* The number of an account is taken.
NumberInv == \A a \in Bank : account[a] # None => <<"number", a>> \in keys

\* The inductive invariant (module TreasuryProofs).
TreasuryInv == /\ TypeOK /\ HeldInv /\ NumberInv /\ \A s \in Session : CallInv(s)
               /\ AssetsMirror /\ \A s \in Session : WorkMirrors(s)
==============================================================================
