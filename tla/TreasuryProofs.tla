--------------------------- MODULE TreasuryProofs ---------------------------
(***************************************************************************)
(* Proofs about module Treasury, for any teams, bank accounts, requests    *)
(* and sessions: what two teams' books say of each other's assets mirrors, *)
(* no call undoes what another has written to a bank account, the cash of  *)
(* a team is what the calls that are done have moved, and advertising that *)
(* a shop has paid is booked once.                                         *)
(***************************************************************************)
EXTENDS Treasury, Sums, TLAPS

\* The fields of each call.
LEMMA CallFields ==
  ASSUME NEW r \in Call
  PROVE  /\ r.call \in {"transfer", "init", "create", "delete", "adjust", "expense", "ads",
                        "setup", "tag"}
         /\ r.call = "transfer" => /\ r.team \in Team /\ r.from \in Bank /\ r.to \in Bank
                                   /\ r.amount \in Int /\ r.fee \in Int
         /\ r.call = "init" => r.account \in Bank /\ r.amount \in Int
         /\ r.call = "create" => /\ r.account \in Bank /\ r.team \in Team
                                 /\ r.labels \in Seq(Word)
         /\ r.call = "delete" => r.accounts \in Seq(Bank)
         /\ r.call = "adjust" => r.adjs \in Seq(Adjustment)
         /\ r.call = "expense" => /\ r.team \in Team /\ r.type \in ExpenseType
                                  /\ r.amount \in Int
         /\ r.call = "ads" => /\ r.team \in Team /\ r.source \in {"shop", "bank"}
                              /\ r.shop \in Shop /\ r.ref \in Nat
                              /\ r.tags \in Seq(Word) /\ r.amount \in Int
         /\ r.call = "setup" => r.team \in Team
         /\ r.call = "tag" => r.tags \in Seq(Word)
  BY DEF Call

\* The steps and the keys that plans are made of.
LEMMA StepTypes ==
  /\ \A a \in Bank : Op("row", a) \in PlanStep
  /\ \A op \in {"find", "insert", "save", "upsert", "seek"}, k \in Resource : Op(op, k) \in PlanStep
  /\ \A i \in Nat : PostOp(i) \in PlanStep
  /\ Refuse \in PlanStep
  BY DEF Op, PostOp, Refuse, PlanStep

LEMMA KeyTypes ==
  /\ \A a \in Bank : <<"number", a>> \in Resource
  /\ \A x \in {"ref", "tag", "label", "banklabel"}, y \in Word : <<x, y>> \in Resource
  /\ \A k \in Key, t \in Team : <<k, t>> \in Resource
  /\ \A t \in Team, x \in ExpenseType, n \in Nat : <<"expense", t, x, n>> \in Resource
  /\ \A x \in {"ads", "paid"}, h \in Shop, n \in Nat : <<x, h, n>> \in Resource
  BY DEF Resource

\* The words of the plans.
LEMMA Words ==
  <<"tag", "adj">> \in Resource /\ <<"label", "purpose">> \in Resource
  /\ <<"ref", "empty">> \in Resource
  BY WordAssumption, KeyTypes

\* Sequences without a step that books.
NoPost(u) == u \in Seq(PlanStep) /\ \A p \in 1..Len(u) : u[p].op # "post"

\* Two of them in a row.
LEMMA NoPostCat ==
  ASSUME NEW u, NoPost(u), NEW v, NoPost(v)
  PROVE  NoPost(u \o v)
<1>1. u \in Seq(PlanStep) /\ v \in Seq(PlanStep)
  BY DEF NoPost
<1>2. /\ u \o v \in Seq(PlanStep) /\ Len(u \o v) = Len(u) + Len(v)
      /\ \A p \in 1..Len(u) : (u \o v)[p] = u[p]
      /\ \A p \in 1..Len(v) : (u \o v)[Len(u) + p] = v[p]
  BY <1>1
<1>3. ASSUME NEW p \in 1..Len(u \o v) PROVE (u \o v)[p].op # "post"
  <2>1. CASE p \in 1..Len(u)
    BY <1>2, <2>1 DEF NoPost
  <2>2. CASE p \notin 1..Len(u)
    <3>1. p - Len(u) \in 1..Len(v) /\ Len(u) + (p - Len(u)) = p
      BY <1>1, <1>2, <2>2
    <3> QED
      BY <1>2, <3>1 DEF NoPost
  <2> QED
    BY <2>1, <2>2
<1> QED
  BY <1>2, <1>3 DEF NoPost

\* The words of a request as keys, each of which is looked up or inserted.
LEMMA WordPlan ==
  ASSUME NEW ws \in Seq(Word), NEW op \in {"find", "upsert"}, NEW x \in {"tag", "banklabel"}
  PROVE  NoPost([i \in 1..Len(ws) |-> Op(op, <<x, ws[i]>>)])
<1>1. ASSUME NEW i \in 1..Len(ws)
      PROVE  Op(op, <<x, ws[i]>>) \in PlanStep /\ Op(op, <<x, ws[i]>>).op # "post"
  <2>1. <<x, ws[i]>> \in Resource
    BY KeyTypes
  <2> QED
    BY <2>1, StepTypes DEF Op
<1> QED
  BY <1>1 DEF NoPost

\* A plan that ends in an error.
Doomed(plan) == plan # <<>> /\ plan[Len(plan)] = Refuse

\* The plan of an ads call up to the insertion of its ref, and what follows.
AdsHead(r) == (<<Op("seek", AdsRef(r))>> \o TagPlan(r)) \o <<Op("insert", AdsRef(r))>>
AdsTail(m) == IF m = None THEN <<Refuse>>
              ELSE <<Op("find", <<"label", m>>), Op("find", <<"tag", m>>), PostOp(1)>>

\* A plan that ends with its only step that books.
PostsLast(plan) == /\ Len(plan) \in Nat /\ Len(plan) # 0 /\ plan[Len(plan)] = PostOp(1)
                   /\ \A p \in 1..(Len(plan) - 1) : plan[p].op # "post"

LEMMA AdsPlanSteps ==
  ASSUME NEW r \in Call, r.call = "ads", requests \in Nat
  PROVE  AdsPlan(r) \in Seq(PlanStep) /\ (Doomed(AdsPlan(r)) \/ PostsLast(AdsPlan(r)))
<1> DEFINE m == Marketplace[r.shop]
           u == AdsHead(r)
           v == AdsTail(m)
<1>1. /\ r.source \in {"shop", "bank"} /\ r.shop \in Shop /\ r.ref \in Nat
      /\ r.tags \in Seq(Word)
  BY CallFields
<1>2. CASE r.source = "shop" /\ r.ref = 0
  <2>1. AdsPlan(r) = <<Refuse>>
    BY <1>2 DEF AdsPlan
  <2> QED
    BY <2>1, StepTypes DEF Doomed
<1>3. CASE ~(r.source = "shop" /\ r.ref = 0)
  <2>1. AdsPlan(r) = u \o v
    BY <1>3 DEF AdsPlan, AdsHead, AdsTail
  <2>2. NoPost(u)
    <3>1. AdsRef(r) \in Resource
      BY <1>1, KeyTypes DEF AdsRef
    <3> DEFINE x == AdsRef(r)
    <3>2. NoPost(<<Op("seek", x)>>) /\ NoPost(<<Op("insert", x)>>)
      <4> HIDE DEF x
      <4>1. /\ Op("seek", x) \in PlanStep /\ Op("insert", x) \in PlanStep
            /\ Op("seek", x).op # "post" /\ Op("insert", x).op # "post"
        BY <3>1, StepTypes DEF Op, x
      <4> QED
        BY <4>1 DEF NoPost
    <3>3. NoPost(TagPlan(r))
      BY <1>1, WordPlan DEF TagPlan
    <3> HIDE DEF x
    <3>4. NoPost(<<Op("seek", x)>> \o TagPlan(r))
      BY <3>2, <3>3, NoPostCat
    <3>5. NoPost((<<Op("seek", x)>> \o TagPlan(r)) \o <<Op("insert", x)>>)
      BY <3>2, <3>4, NoPostCat
    <3> QED
      BY <3>5 DEF AdsHead, x
  <2> HIDE DEF u
  <2>3. u \in Seq(PlanStep) /\ \A p \in 1..Len(u) : u[p].op # "post"
    BY <2>2 DEF NoPost
  <2>4. CASE m = None
    <3>1. v = <<Refuse>> /\ Refuse \in PlanStep
      BY <2>4, StepTypes DEF AdsTail
    <3>2. /\ u \o <<Refuse>> \in Seq(PlanStep) /\ Len(u \o <<Refuse>>) = Len(u) + 1
          /\ (u \o <<Refuse>>)[Len(u) + 1] = Refuse
      BY <2>3, <3>1
    <3> HIDE DEF v
    <3> QED
      BY <2>1, <2>3, <3>1, <3>2 DEF Doomed
  <2>5. CASE m # None
    <3> DEFINE x == Op("find", <<"label", m>>)
               y == Op("find", <<"tag", m>>)
               z == PostOp(1)
    <3>0. m \in Word
      BY <1>1, <2>5, ShopAssumption
    <3>1. x \in PlanStep /\ y \in PlanStep /\ z \in PlanStep /\ x.op # "post" /\ y.op # "post"
      <4>1. <<"label", m>> \in Resource /\ <<"tag", m>> \in Resource
        BY <3>0, KeyTypes
      <4> QED
        BY <4>1, StepTypes DEF Op
    <3>2. v = <<x, y, z>>
      BY <2>5 DEF AdsTail
    <3> HIDE DEF x, y, v, m
    <3> DEFINE plan == u \o <<x, y, z>>
               n == Len(u)
    <3>3. n \in Nat
      BY <2>3
    <3>4. /\ plan \in Seq(PlanStep) /\ Len(plan) = n + 3
          /\ \A p \in 1..n : plan[p] = u[p]
          /\ plan[n + 1] = x /\ plan[n + 2] = y /\ plan[n + 3] = z
      <4> HIDE DEF z
      <4> QED
        BY <2>3, <3>1
    <3>5. plan = AdsPlan(r)
      BY <2>1, <3>2
    <3> HIDE DEF plan, n, z
    <3>6. ASSUME NEW p \in 1..(n + 2) PROVE plan[p].op # "post"
      <4>1. p \in 1..n \/ p = n + 1 \/ p = n + 2
        BY <3>3
      <4>2. \A q \in 1..n : u[q].op # "post"
        BY <2>3 DEF n
      <4> QED
        BY <3>1, <3>4, <4>1, <4>2
    <3>7. (n + 3) - 1 = n + 2 /\ n + 3 \in Nat /\ n + 3 # 0
      BY <3>3
    <3>8. PostsLast(plan)
      BY <3>4, <3>6, <3>7 DEF PostsLast, z
    <3> QED
      BY <3>4, <3>5, <3>8
  <2> QED
    BY <2>4, <2>5
<1> QED
  BY <1>2, <1>3

\* The steps of an adjustment's plan.
LEMMA AdjustPlanSteps ==
  ASSUME NEW adjs \in Seq(Adjustment)
  PROVE  /\ AdjustPlan(adjs) \in Seq(PlanStep)
         /\ \A i \in 1..Len(AdjustPlan(adjs)) :
              AdjustPlan(adjs)[i].op = "post" => AdjustPlan(adjs)[i].key[2] \in 1..Len(adjs)
<1> DEFINE n == 3 * Len(adjs)
           Step1(j) == Op("find", <<AdjKey[adjs[(j + 2) \div 3].key], adjs[(j + 2) \div 3].owner>>)
           Step2 == Op("find", <<"tag", "adj">>)
           Step3(j) == PostOp((j + 2) \div 3)
           StepOf(j) == CASE j % 3 = 1 -> Step1(j) [] j % 3 = 2 -> Step2 [] OTHER -> Step3(j)
<1>1. n \in Nat
  OBVIOUS
<1>2. AdjustPlan(adjs) = [j \in 1..n |-> StepOf(j)]
  BY DEF AdjustPlan
<1>3. ASSUME NEW j \in 1..n
      PROVE  /\ StepOf(j) \in PlanStep
             /\ StepOf(j).op = "post" => StepOf(j).key[2] \in 1..Len(adjs)
  <2>1. (j + 2) \div 3 \in 1..Len(adjs)
    BY SMT
  <2>2. Step1(j) \in PlanStep /\ Step1(j).op # "post"
    <3>1. adjs[(j + 2) \div 3] \in Adjustment
      BY <2>1
    <3>2. AdjKey[adjs[(j + 2) \div 3].key] \in Key /\ adjs[(j + 2) \div 3].owner \in Team
      BY <3>1 DEF Adjustment, AdjKey, Key
    <3> QED
      BY <3>2, StepTypes, KeyTypes DEF Op
  <2>3. Step2 \in PlanStep /\ Step2.op # "post"
    BY StepTypes, Words DEF Op
  <2>4. Step3(j) \in PlanStep /\ Step3(j).key[2] \in 1..Len(adjs)
    BY <2>1, StepTypes DEF PostOp, Op
  <2> QED
    BY <2>2, <2>3, <2>4
<1> HIDE DEF StepOf, n
<1>4. Len([j \in 1..n |-> StepOf(j)]) = n
  BY <1>1
<1> QED
  BY <1>1, <1>2, <1>3, <1>4

\* A plan is made of steps.
LEMMA PlanSteps ==
  ASSUME NEW r \in Call, now \in Nat, requests \in Nat
  PROVE  /\ Plan(r) \in Seq(PlanStep)
         /\ r.call = "adjust" => \A i \in 1..Len(Plan(r)) :
              Plan(r)[i].op = "post" => Plan(r)[i].key[2] \in 1..Len(r.adjs)
<1>1. CASE r.call = "transfer"
  <2>1. Plan(r) = <<Op("row", r.from), Op("row", r.to), Op("find", <<"label", "purpose">>),
                    PostOp(1), PostOp(2)>>
    BY <1>1 DEF Plan, TransferPlan
  <2>2. /\ Op("row", r.from) \in PlanStep /\ Op("row", r.to) \in PlanStep
        /\ Op("find", <<"label", "purpose">>) \in PlanStep
        /\ PostOp(1) \in PlanStep /\ PostOp(2) \in PlanStep
    BY <1>1, StepTypes, Words, CallFields
  <2> QED
    BY <1>1, <2>1, <2>2
<1>2. CASE r.call = "init"
  <2>1. Plan(r) = <<Op("row", r.account), Op("insert", <<"ref", "empty">>), PostOp(1)>>
    BY <1>2 DEF Plan, InitPlan
  <2>2. /\ Op("row", r.account) \in PlanStep /\ Op("insert", <<"ref", "empty">>) \in PlanStep
        /\ PostOp(1) \in PlanStep
    BY <1>2, StepTypes, Words, CallFields
  <2> QED
    BY <1>2, <2>1, <2>2
<1>3. CASE r.call = "create"
  <2> DEFINE x == <<"number", r.account>>
             u == <<Op("insert", x)>>
             v == [i \in 1..Len(r.labels) |-> Op("find", <<"banklabel", r.labels[i]>>)]
  <2>1. Plan(r) = u \o v
    BY <1>3 DEF Plan, CreatePlan
  <2>2. Op("insert", x) \in PlanStep
    BY <1>3, StepTypes, KeyTypes, CallFields
  <2>3. v \in Seq(PlanStep)
    BY <1>3, CallFields, WordPlan DEF NoPost
  <2> HIDE DEF x, v
  <2> QED
    BY <1>3, <2>1, <2>2, <2>3
<1>4. CASE r.call = "delete"
  BY <1>4, StepTypes, CallFields DEF Plan, DeletePlan
<1>5. CASE r.call = "adjust"
  BY <1>5, CallFields, AdjustPlanSteps DEF Plan
<1>6. CASE r.call = "expense"
  <2> DEFINE x == <<"expense", r.team, r.type, now>>
  <2>1. Plan(r) = <<Op("insert", x), PostOp(1)>>
    BY <1>6 DEF Plan, ExpensePlan
  <2>2. Op("insert", x) \in PlanStep /\ PostOp(1) \in PlanStep
    BY <1>6, StepTypes, KeyTypes, CallFields
  <2> HIDE DEF x
  <2> QED
    BY <1>6, <2>1, <2>2
<1>7. CASE r.call = "ads"
  BY <1>7, AdsPlanSteps DEF Plan
<1>8. CASE r.call = "setup"
  <2>1. Plan(r) = <<Op("find", <<"adj_asset", r.team>>), Op("find", <<"adj_expense", r.team>>)>>
    BY <1>8 DEF Plan, SetupPlan
  <2>2. /\ Op("find", <<"adj_asset", r.team>>) \in PlanStep
        /\ Op("find", <<"adj_expense", r.team>>) \in PlanStep
    <3>1. <<"adj_asset", r.team>> \in Resource /\ <<"adj_expense", r.team>> \in Resource
      BY <1>8, KeyTypes, CallFields DEF Key
    <3> QED
      BY <3>1, StepTypes
  <2> QED
    BY <1>8, <2>1, <2>2
<1>9. CASE r.call = "tag"
  BY <1>9, CallFields, WordPlan DEF Plan, TagPlan, NoPost
<1> QED
  BY <1>1, <1>2, <1>3, <1>4, <1>5, <1>6, <1>7, <1>8, <1>9, CallFields

\* How the plans of a transfer, an initial balance and a new account begin.
LEMMA PlanHeads ==
  ASSUME NEW r \in Call
  PROVE  /\ /\ TransferPlan(r) # <<>> /\ Head(TransferPlan(r)) = Op("row", r.from)
            /\ Tail(TransferPlan(r)) # <<>> /\ Head(Tail(TransferPlan(r))) = Op("row", r.to)
            /\ Tail(Tail(TransferPlan(r))) =
                 <<Op("find", <<"label", "purpose">>), PostOp(1), PostOp(2)>>
         /\ /\ InitPlan(r) # <<>> /\ Head(InitPlan(r)) = Op("row", r.account)
            /\ \A i \in 1..Len(Tail(InitPlan(r))) : Tail(InitPlan(r))[i].op # "row"
         /\ r.call = "create" =>
              CreatePlan(r) # <<>> /\ Head(CreatePlan(r)) = Op("insert", <<"number", r.account>>)
<1>1. Tail(InitPlan(r)) = <<Op("insert", <<"ref", "empty">>), PostOp(1)>>
  BY DEF InitPlan
<1>2. InitPlan(r) # <<>> /\ Head(InitPlan(r)) = Op("row", r.account)
  BY DEF InitPlan
<1>3. \A i \in 1..Len(Tail(InitPlan(r))) : Tail(InitPlan(r))[i].op # "row"
  <2> DEFINE x == Op("insert", <<"ref", "empty">>)
             y == PostOp(1)
  <2>1. x.op # "row" /\ y.op # "row"
    BY DEF Op, PostOp
  <2>2. Tail(InitPlan(r)) = <<x, y>>
    BY <1>1
  <2> HIDE DEF x, y
  <2>3. Len(<<x, y>>) = 2 /\ <<x, y>>[1] = x /\ <<x, y>>[2] = y
    OBVIOUS
  <2>4. \A i \in 1..2 : i = 1 \/ i = 2
    OBVIOUS
  <2>5. \A i \in 1..Len(<<x, y>>) : <<x, y>>[i].op # "row"
    BY <2>1, <2>3, <2>4
  <2> QED
    BY <2>2, <2>5
<1>4. ASSUME r.call = "create"
      PROVE  CreatePlan(r) # <<>> /\ Head(CreatePlan(r)) = Op("insert", <<"number", r.account>>)
  <2> DEFINE x == Op("insert", <<"number", r.account>>)
             v == [i \in 1..Len(r.labels) |-> Op("find", <<"banklabel", r.labels[i]>>)]
  <2>1. CreatePlan(r) = <<x>> \o v
    BY DEF CreatePlan
  <2>2. v \in Seq(PlanStep) /\ x \in PlanStep
    <3>1. v \in Seq(PlanStep)
      BY <1>4, CallFields, WordPlan DEF NoPost
    <3>2. x \in PlanStep
      BY <1>4, StepTypes, KeyTypes, CallFields
    <3> QED
      BY <3>1, <3>2
  <2> HIDE DEF x, v
  <2>3. <<x>> \o v # <<>> /\ Head(<<x>> \o v) = x
    BY <2>2
  <2> QED
    BY <2>1, <2>3 DEF x
<1> DEFINE p == TransferPlan(r)
           a == Op("row", r.from)
           b == Op("row", r.to)
           c == Op("find", <<"label", "purpose">>)
           d == PostOp(1)
           e == PostOp(2)
<1>5. p = <<a, b, c, d, e>>
  BY DEF TransferPlan
<1> HIDE DEF p, a, b, c, d, e
<1>6. p # <<>> /\ Head(p) = a /\ Tail(p) = <<b, c, d, e>>
  BY <1>5
<1>8. <<b, c, d, e>> # <<>> /\ Head(<<b, c, d, e>>) = b /\ Tail(<<b, c, d, e>>) = <<c, d, e>>
  OBVIOUS
<1>7. Tail(p) # <<>> /\ Head(Tail(p)) = b /\ Tail(Tail(p)) = <<c, d, e>>
  BY <1>6, <1>8
<1> QED
  BY <1>2, <1>3, <1>4, <1>6, <1>7 DEF p, a, b, c, d, e

------------------------------------------------------------------------------
\* What one posting changes of a team's assets.
IsAsset(k) == k \in {"cash", "selling_receivable", "adj_asset"}
Change(t, k, u, n, v, w) == IF v = t /\ w = u /\ IsAsset(k) THEN n ELSE 0

\* Book c is b after one posting.
Posts(b, t, k, u, n, c) == c = Add(b, t, k, u, n)

\* Add changes one account, by the amount.
LEMMA AddOne ==
  ASSUME NEW b \in Books, NEW t \in Team, NEW k \in Key, NEW u \in Team, NEW n \in Int
  PROVE  /\ Add(b, t, k, u, n) \in Books
         /\ \A v \in Team, l \in Key, w \in Team :
              Add(b, t, k, u, n)[v][l][w] =
                IF v = t /\ l = k /\ w = u THEN b[v][l][w] + n ELSE b[v][l][w]
<1>1. b[t] \in [Key -> [Team -> Int]] /\ b[t][k] \in [Team -> Int] /\ b[t][k][u] \in Int
  BY DEF Books
<1> DEFINE row == [b[t][k] EXCEPT ![u] = @ + n]
           page == [b[t] EXCEPT ![k] = row]
<1>2. /\ row \in [Team -> Int]
      /\ \A w \in Team : row[w] = IF w = u THEN b[t][k][w] + n ELSE b[t][k][w]
  BY <1>1
<1>5. Add(b, t, k, u, n) = [b EXCEPT ![t] = page]
  BY DEF Add
<1> HIDE DEF row
<1>3. /\ page \in [Key -> [Team -> Int]]
      /\ \A l \in Key : page[l] = IF l = k THEN row ELSE b[t][l]
  BY <1>1, <1>2
<1> HIDE DEF page
<1> QED
  BY <1>2, <1>3, <1>5 DEF Books

\* ... and the assets it belongs to.
LEMMA AddAssets ==
  ASSUME NEW b \in Books, NEW t \in Team, NEW k \in Key, NEW u \in Team, NEW n \in Int,
         NEW c, Posts(b, t, k, u, n, c)
  PROVE  /\ c \in Books
         /\ \A v, w \in Team : /\ Assets(b, v, w) \in Int
                               /\ Assets(c, v, w) = Assets(b, v, w) + Change(t, k, u, n, v, w)
<1>1. /\ c \in Books
      /\ \A v \in Team, l \in Key, w \in Team :
           c[v][l][w] = IF v = t /\ l = k /\ w = u THEN b[v][l][w] + n ELSE b[v][l][w]
  BY AddOne DEF Posts
<1> SUFFICES ASSUME NEW v \in Team, NEW w \in Team
             PROVE  /\ Assets(b, v, w) \in Int
                    /\ Assets(c, v, w) = Assets(b, v, w) + Change(t, k, u, n, v, w)
  BY <1>1
<1>2. \A l \in Key : b[v][l][w] \in Int
  BY DEF Books
<1>3. "cash" \in Key /\ "selling_receivable" \in Key /\ "adj_asset" \in Key
  BY DEF Key
<1> QED
  BY <1>1, <1>2, <1>3 DEF Assets, Change, IsAsset

\* The sum of two mirrored books is mirrored.
LEMMA SumMirrors ==
  ASSUME NEW b \in Books, NEW w \in Books, Mirrors(b), Mirrors(w)
  PROVE  Sum(b, w) \in Books /\ Mirrors(Sum(b, w))
<1>1. \A t \in Team, k \in Key, u \in Team :
        /\ b[t][k][u] \in Int /\ w[t][k][u] \in Int
        /\ Sum(b, w)[t][k][u] = b[t][k][u] + w[t][k][u]
  BY DEF Books, Sum
<1>2. Sum(b, w) \in Books
  BY <1>1 DEF Books, Sum
<1>3. "cash" \in Key /\ "selling_receivable" \in Key /\ "adj_asset" \in Key
  BY DEF Key
<1>4. \A t, u \in Team : /\ Assets(b, t, u) \in Int /\ Assets(w, t, u) \in Int
                         /\ Assets(Sum(b, w), t, u) = Assets(b, t, u) + Assets(w, t, u)
  BY <1>1, <1>3 DEF Assets
<1>5. Mirrors(Sum(b, w))
  BY <1>4 DEF Mirrors
<1> QED
  BY <1>2, <1>5

LEMMA NothingMirrors == NothingBooked \in Books /\ Mirrors(NothingBooked)
<1>1. \A t \in Team, k \in Key, u \in Team : NothingBooked[t][k][u] = 0
  BY DEF NothingBooked
<1>2. "cash" \in Key /\ "selling_receivable" \in Key /\ "adj_asset" \in Key
  BY DEF Key
<1>3. NothingBooked \in Books
  BY DEF NothingBooked, Books
<1> QED
  BY <1>1, <1>2, <1>3 DEF Mirrors, Assets

\* What the two books of a transfer change of what one team says of another.
LEMMA TransferAssets ==
  ASSUME NEW r \in Call, r.call = "transfer", NEW b \in Books, account[r.to] \in Account,
         NEW v \in Team, NEW w \in Team, v # w
  PROVE  LET u == account[r.to].team IN
         /\ PayerBook(r, b) \in Books /\ ReceiverBook(r, b) \in Books
         /\ Assets(b, v, w) \in Int
         /\ Assets(PayerBook(r, b), v, w) =
              Assets(b, v, w) + (IF v = r.team /\ w = u THEN r.amount ELSE 0)
         /\ Assets(ReceiverBook(r, b), v, w) =
              Assets(b, v, w) + (IF v = u /\ w = r.team THEN -r.amount ELSE 0)
<1> DEFINE t == r.team
           u == account[r.to].team
           n == r.amount
           m == -(n + r.fee)
           b1 == Add(b, t, "cash", t, m)
           b2 == Add(b1, t, "cash", u, n)
           b3 == Add(b2, t, "bank_fee", t, r.fee)
           k == -n
           c1 == Add(b, u, "cash", t, k)
           c2 == Add(c1, u, "cash", u, n)
<1>1. t \in Team /\ u \in Team /\ n \in Int /\ r.fee \in Int /\ m \in Int /\ k \in Int
  BY CallFields DEF Account
<1>2. PayerBook(r, b) = b3 /\ ReceiverBook(r, b) = c2
  BY DEF PayerBook, ReceiverBook
<1>3. /\ Posts(b, t, "cash", t, m, b1) /\ Posts(b1, t, "cash", u, n, b2)
      /\ Posts(b2, t, "bank_fee", t, r.fee, b3)
      /\ Posts(b, u, "cash", t, k, c1) /\ Posts(c1, u, "cash", u, n, c2)
  BY DEF Posts
<1> HIDE DEF b1, b2, b3, c1, c2, t, u, n, m, k
<1>4. "cash" \in Key /\ "bank_fee" \in Key
  BY DEF Key
<1>5. /\ b1 \in Books /\ Assets(b, v, w) \in Int
      /\ Assets(b1, v, w) = Assets(b, v, w) + Change(t, "cash", t, m, v, w)
  BY <1>1, <1>3, <1>4, AddAssets
<1>6. b2 \in Books /\ Assets(b2, v, w) = Assets(b1, v, w) + Change(t, "cash", u, n, v, w)
  BY <1>1, <1>3, <1>4, <1>5, AddAssets
<1>7. b3 \in Books /\ Assets(b3, v, w) = Assets(b2, v, w) + Change(t, "bank_fee", t, r.fee, v, w)
  BY <1>1, <1>3, <1>4, <1>6, AddAssets
<1>8. c1 \in Books /\ Assets(c1, v, w) = Assets(b, v, w) + Change(u, "cash", t, k, v, w)
  <2>1. Posts(b, u, "cash", t, k, c1)
    BY <1>3
  <2>2. "cash" \in Key
    BY <1>4
  <2>3. c1 \in Books /\ \A x, y \in Team :
                         Assets(c1, x, y) = Assets(b, x, y) + Change(u, "cash", t, k, x, y)
    BY <1>1, <2>1, <2>2, AddAssets, SMTT(30)
  <2> QED
    BY <2>3
<1>9. c2 \in Books /\ Assets(c2, v, w) = Assets(c1, v, w) + Change(u, "cash", u, n, v, w)
  BY <1>1, <1>3, <1>4, <1>8, AddAssets
<1>10. /\ Change(t, "cash", t, m, v, w) = 0
       /\ Change(t, "bank_fee", t, r.fee, v, w) = 0
       /\ Change(u, "cash", u, n, v, w) = 0
       /\ Change(t, "cash", u, n, v, w) = IF v = t /\ w = u THEN n ELSE 0
       /\ Change(u, "cash", t, k, v, w) = IF v = u /\ w = t THEN k ELSE 0
  BY DEF Change, IsAsset
<1>11. Assets(b3, v, w) = Assets(b, v, w) + (IF v = t /\ w = u THEN n ELSE 0)
  BY <1>1, <1>5, <1>6, <1>7, <1>10
<1>12. Assets(c2, v, w) = Assets(b, v, w) + (IF v = u /\ w = t THEN k ELSE 0)
  BY <1>1, <1>5, <1>8, <1>9, <1>10
<1> QED
  BY <1>2, <1>5, <1>7, <1>9, <1>11, <1>12 DEF t, u, n, k

LEMMA BooksOfTransfer ==
  ASSUME NEW r \in Call, r.call = "transfer", NEW b \in Books, account[r.to] \in Account
  PROVE  PayerBook(r, b) \in Books /\ ReceiverBook(r, b) \in Books
<1> DEFINE t == r.team
           u == account[r.to].team
           n == r.amount
           m == -(n + r.fee)
           b1 == Add(b, t, "cash", t, m)
           b2 == Add(b1, t, "cash", u, n)
           b3 == Add(b2, t, "bank_fee", t, r.fee)
           c1 == Add(b, u, "cash", t, -n)
           c2 == Add(c1, u, "cash", u, n)
<1>1. t \in Team /\ u \in Team /\ n \in Int /\ r.fee \in Int /\ m \in Int /\ -n \in Int
  BY CallFields DEF Account
<1>2. PayerBook(r, b) = b3 /\ ReceiverBook(r, b) = c2
  BY DEF PayerBook, ReceiverBook
<1>4. "cash" \in Key /\ "bank_fee" \in Key
  BY DEF Key
<1> HIDE DEF t, u, n, m
<1>5. b1 \in Books /\ c1 \in Books
  BY <1>1, <1>4, AddOne
<1> HIDE DEF b1, c1
<1>6. b2 \in Books /\ c2 \in Books
  BY <1>1, <1>4, <1>5, AddOne
<1> HIDE DEF b2, c2
<1>7. b3 \in Books
  BY <1>1, <1>4, <1>6, AddOne
<1> QED
  BY <1>2, <1>6, <1>7

\* The book of the receiver makes good what the book of the payer says.
LEMMA TransferMirrors ==
  ASSUME NEW r \in Call, r.call = "transfer", NEW b \in Books, Mirrors(b),
         account[r.to] \in Account
  PROVE  /\ PayerBook(r, b) \in Books
         /\ ReceiverBook(r, PayerBook(r, b)) \in Books
         /\ Mirrors(ReceiverBook(r, PayerBook(r, b)))
<1> DEFINE t == r.team
           u == account[r.to].team
           n == r.amount
           c == PayerBook(r, b)
           d == ReceiverBook(r, c)
<1>1. t \in Team /\ u \in Team /\ n \in Int /\ account[r.to].team \in Team
  BY CallFields DEF Account
<1>2. c \in Books /\ ReceiverBook(r, b) \in Books
  BY <1>1, BooksOfTransfer
<1>3. d \in Books
  <2> HIDE DEF c
  <2> QED
    BY <1>2, BooksOfTransfer
<1>4. ASSUME NEW v \in Team, NEW w \in Team, v # w
      PROVE  /\ Assets(b, v, w) \in Int
             /\ Assets(d, v, w) = Assets(b, v, w) + (IF v = t /\ w = u THEN n ELSE 0)
                                                 + (IF v = u /\ w = t THEN -n ELSE 0)
  <2>1. /\ Assets(b, v, w) \in Int
        /\ Assets(c, v, w) = Assets(b, v, w) + (IF v = t /\ w = u THEN n ELSE 0)
    BY <1>4, TransferAssets
  <2> HIDE DEF c
  <2>2. Assets(d, v, w) = Assets(c, v, w) + (IF v = u /\ w = t THEN -n ELSE 0)
    BY <1>2, <1>4, TransferAssets
  <2> HIDE DEF d, t, u, n
  <2> QED
    BY <1>1, <2>1, <2>2
<1> HIDE DEF c, d, t, u, n
<1>5. Mirrors(d)
  <2> SUFFICES ASSUME NEW v \in Team, NEW w \in Team, v # w
               PROVE  Assets(d, v, w) = -Assets(d, w, v)
    BY DEF Mirrors
  <2> DEFINE x == Assets(b, v, w)
             y == Assets(b, w, v)
  <2>1. x \in Int /\ y \in Int /\ x = -y
    BY <1>4 DEF Mirrors
  <2>2. /\ Assets(d, v, w) = x + (IF v = t /\ w = u THEN n ELSE 0) + (IF v = u /\ w = t THEN -n ELSE 0)
        /\ Assets(d, w, v) = y + (IF w = t /\ v = u THEN n ELSE 0) + (IF w = u /\ v = t THEN -n ELSE 0)
    BY <1>4
  <2> HIDE DEF x, y
  <2> QED
    BY <1>1, <2>1, <2>2
<1> QED
  BY <1>2, <1>3, <1>5 DEF c, d

\* A team's assets in the other books of a call: both sides of a posting
\* between two teams are booked, and all else is inside a team.
LEMMA BookedMirrors ==
  ASSUME NEW r \in Call, r.call # "transfer", NEW b \in Books, Mirrors(b), NEW i,
         r.call = "init" => account[r.account] \in Account,
         r.call = "adjust" => i \in 1..Len(r.adjs)
  PROVE  Booked(r, i, b) \in Books /\ Mirrors(Booked(r, i, b))
<1>k. Key = {"cash", "selling_receivable", "adj_asset", "bank_fee",
             "expense", "adj_expense", "ads_expense", "capital_start"}
  BY DEF Key
<1>h. ASSUME NEW t \in Team, NEW u \in Team, NEW k \in Key, NEW l \in Key,
             NEW v \in Team, NEW n \in Int,
             \/ ~IsAsset(k) /\ ~IsAsset(l)
             \/ IsAsset(k) /\ IsAsset(l) /\ u = v
             \/ ~IsAsset(k) /\ v = t
             \/ u = t /\ v = t
      PROVE  LET c == Add(Add(b, t, k, u, -n), t, l, v, n) IN c \in Books /\ Mirrors(c)
  <2> DEFINE m == -n
             b1 == Add(b, t, k, u, m)
             b2 == Add(b1, t, l, v, n)
  <2>0. m \in Int
    OBVIOUS
  <2>n. m = -n
    OBVIOUS
  <2>p1. Posts(b, t, k, u, m, b1)
    BY DEF Posts
  <2>p2. Posts(b1, t, l, v, n, b2)
    BY DEF Posts
  <2>q. b2 = Add(Add(b, t, k, u, -n), t, l, v, n)
    OBVIOUS
  <2> HIDE DEF b1, b2, m
  <2>1. b1 \in Books /\ \A p, q \in Team :
          /\ Assets(b, p, q) \in Int
          /\ Assets(b1, p, q) = Assets(b, p, q) + Change(t, k, u, m, p, q)
    BY <2>0, <2>p1, AddAssets
  <2>2. b2 \in Books /\ \A p, q \in Team :
          Assets(b2, p, q) = Assets(b1, p, q) + Change(t, l, v, n, p, q)
    BY <2>1, <2>p2, AddAssets
  <2>3. ASSUME NEW p \in Team, NEW q \in Team, p # q
        PROVE  Assets(b2, p, q) = Assets(b, p, q)
    <3>1. Change(t, k, u, m, p, q) + Change(t, l, v, n, p, q) = 0
      <4>1. n \in Int /\ m + n = 0
        BY <2>n
      <4> QED
        BY <2>0, <2>3, <4>1, <1>h DEF Change
    <3>2. Change(t, k, u, m, p, q) \in Int /\ Change(t, l, v, n, p, q) \in Int
      BY <2>0 DEF Change
    <3>3. /\ Assets(b, p, q) \in Int
          /\ Assets(b1, p, q) = Assets(b, p, q) + Change(t, k, u, m, p, q)
          /\ Assets(b2, p, q) = Assets(b1, p, q) + Change(t, l, v, n, p, q)
      BY <2>1, <2>2
    <3> QED
      BY <3>1, <3>2, <3>3
  <2>4. Mirrors(b2)
    BY <2>1, <2>3 DEF Mirrors
  <2> QED
    BY <2>2, <2>4, <2>q
<1>2. CASE r.call = "init"
  <2>1. account[r.account].team \in Team /\ r.amount \in Int
    BY <1>2, CallFields DEF Account
  <2> QED
    BY <1>2, <1>h, <1>k, <2>1, TeamAssumption DEF Booked, InitBook, IsAsset
<1>3. CASE r.call = "expense"
  BY <1>3, <1>h, <1>k, CallFields DEF Booked, ExpenseBook, IsAsset
<1>4. CASE r.call = "ads"
  BY <1>4, <1>h, <1>k, CallFields DEF Booked, AdsBook, IsAsset
<1>5. CASE r.call = "adjust"
  <2> DEFINE x == r.adjs[i]
  <2>1. x \in Adjustment
    BY <1>5, CallFields
  <2> HIDE DEF x
  <2>2. x.book \in Team /\ x.owner \in Team /\ x.amount \in Int /\ x.key \in DOMAIN AdjKey
    BY <2>1 DEF Adjustment
  <2>3. /\ x.key \in Key /\ AdjKey[x.key] \in Key
        /\ IsAsset(x.key) <=> IsAsset(AdjKey[x.key])
    BY <2>2, <1>k DEF AdjKey, IsAsset
  <2>4. Booked(r, i, b) = AdjustBook(x, b)
    BY <1>5 DEF Booked, x
  <2> QED
    BY <1>h, <2>2, <2>3, <2>4 DEF AdjustBook
<1>6. CASE r.call \notin {"transfer", "init", "expense", "ads", "adjust"}
  BY <1>6 DEF Booked
<1> QED
  BY <1>2, <1>3, <1>4, <1>5, <1>6
------------------------------------------------------------------------------
\* The step a session is at, and the ones that are left after it.
LEMMA HeadTail ==
  ASSUME TypeOK, NEW s \in Session, todo[s] # <<>>
  PROVE  /\ todo[s] \in Seq(PlanStep) /\ Tail(todo[s]) \in Seq(PlanStep)
         /\ 1 \in 1..Len(todo[s]) /\ Head(todo[s]) = todo[s][1] /\ Head(todo[s]) \in PlanStep
         /\ \A i \in 1..Len(Tail(todo[s])) :
              i + 1 \in 1..Len(todo[s]) /\ Tail(todo[s])[i] = todo[s][i + 1]
  BY DEF TypeOK

LEMMA TargetType ==
  ASSUME TypeOK, NEW s \in Session, NEW op, At(s, op)
  PROVE  /\ op = "row" => Target(s) \in Bank
         /\ op \in {"find", "insert", "save", "upsert", "seek"} => Target(s) \in Resource
<1>1. Head(todo[s]) \in PlanStep /\ Head(todo[s]).op = op
  BY HeadTail DEF At
<1> QED
  BY <1>1 DEF PlanStep, Target

\* Where a transfer is that is past its rows.
NextFinds(s) == /\ \E op \in {"find", "insert"} :
                 todo[s] = <<Op(op, <<"label", "purpose">>), PostOp(1), PostOp(2)>>
            /\ Head(todo[s]).op \in {"find", "insert"}
            /\ Tail(todo[s]) = <<PostOp(1), PostOp(2)>>
NextPays(s) == /\ todo[s] = <<PostOp(1), PostOp(2)>>
            /\ Head(todo[s]) = PostOp(1) /\ Tail(todo[s]) = <<PostOp(2)>>
NextReceives(s) == /\ todo[s] = <<PostOp(2)>>
            /\ Head(todo[s]) = PostOp(2) /\ Tail(todo[s]) = <<>>

LEMMA TransferSteps ==
  ASSUME NEW s \in Session, req[s] \in Call, req[s].call = "transfer", TransferOf(s),
         todo[s] = <<>> \/ Head(todo[s]).op # "row"
  PROVE  /\ account[req[s].to] # None
         /\ todo[s] = <<>> \/ NextFinds(s) \/ NextPays(s) \/ NextReceives(s)
<1> DEFINE p == TransferPlan(req[s])
           label == <<"label", "purpose">>
           b == PostOp(1)
           c == PostOp(2)
<1>1. /\ p # <<>> /\ Head(p).op = "row" /\ Tail(p) # <<>> /\ Head(Tail(p)).op = "row"
  BY PlanHeads DEF Op
<1> HIDE DEF p
<1>2. /\ account[req[s].to] # None
      /\ \/ \E op \in {"find", "insert"} : todo[s] = <<Op(op, label), b, c>>
         \/ todo[s] \in {<<b, c>>, <<c>>, <<>>}
  BY <1>1 DEF TransferOf, p
<1> HIDE DEF b, c, label
<1>3. ASSUME NEW op \in {"find", "insert"}, todo[s] = <<Op(op, label), b, c>>
      PROVE  Head(todo[s]).op \in {"find", "insert"} /\ Tail(todo[s]) = <<b, c>>
  <2> DEFINE a == Op(op, label)
  <2>1. a.op = op
    BY DEF Op
  <2> HIDE DEF a
  <2>2. Head(<<a, b, c>>) = a /\ Tail(<<a, b, c>>) = <<b, c>>
    OBVIOUS
  <2> QED
    BY <1>3, <2>1, <2>2 DEF a
<1>4. /\ todo[s] = <<b, c>> => Head(todo[s]) = b /\ Tail(todo[s]) = <<c>>
      /\ todo[s] = <<c>> => Head(todo[s]) = c /\ Tail(todo[s]) = <<>>
  <2>1. Head(<<b, c>>) = b /\ Tail(<<b, c>>) = <<c>>
    OBVIOUS
  <2>2. Head(<<c>>) = c /\ Tail(<<c>>) = <<>>
    OBVIOUS
  <2> QED
    BY <2>1, <2>2
<1> QED
  BY <1>2, <1>3, <1>4 DEF NextReceives, NextPays, NextFinds, b, c, label

\* Once a call is past its first steps, what it relies on holds.
LEMMA Past ==
  ASSUME TypeOK, NEW s \in Session, req[s] # None, CallInv(s)
  PROVE  /\ req[s] \in Call
         /\ todo[s] = <<>> \/ Head(todo[s]).op # "row" =>
              /\ req[s].call = "transfer" => account[req[s].to] # None
              /\ req[s].call = "init" =>
                   /\ \A i \in 1..Len(todo[s]) : todo[s][i].op # "row"
                   /\ req[s].account \in held[s]
                   /\ copy[s] = account[req[s].account] /\ copy[s] # None /\ copy[s].balance = 0
         /\ todo[s] = <<>> \/ Head(todo[s]).op # "insert" =>
              (req[s].call = "create" =>
                 <<"number", req[s].account>> \in held[s] /\ account[req[s].account] = None)
<1>1. req[s] \in Call
  BY DEF TypeOK
<1>2. InitPlan(req[s]) # <<>> /\ Head(InitPlan(req[s])).op = "row"
  BY <1>1, PlanHeads DEF Op
<1>3. req[s].call = "create" => CreatePlan(req[s]) # <<>> /\ Head(CreatePlan(req[s])).op = "insert"
  BY <1>1, PlanHeads DEF Op
<1>4. CopyOf(s) /\ NumberOf(s) /\ TransferOf(s)
  BY DEF CallInv
<1>5. todo[s] = <<>> \/ Head(todo[s]).op # "row" =>
        /\ req[s].call = "init" =>
                   /\ \A i \in 1..Len(todo[s]) : todo[s][i].op # "row"
                   /\ req[s].account \in held[s]
                   /\ copy[s] = account[req[s].account] /\ copy[s] # None /\ copy[s].balance = 0
  BY <1>2, <1>4 DEF CopyOf
<1>6. todo[s] = <<>> \/ Head(todo[s]).op # "insert" =>
              (req[s].call = "create" =>
                 <<"number", req[s].account>> \in held[s] /\ account[req[s].account] = None)
  BY <1>3, <1>4 DEF NumberOf
<1>7. (todo[s] = <<>> \/ Head(todo[s]).op # "row") /\ req[s].call = "transfer" =>
         account[req[s].to] # None
  BY <1>1, <1>4, TransferSteps
<1> QED
  BY <1>1, <1>5, <1>6, <1>7

\* Accounts that exist stay with their teams.
TeamsStay(acc, later) ==
  \A a \in Bank : acc[a] # None => later[a] # None /\ later[a].team = acc[a].team

\* What a call has booked is mirrored as long as it does nothing.
LEMMA OthersMirror ==
  ASSUME NEW q \in Session, TypeOK, CallInv(q), WorkMirrors(q), TeamsStay(account, account'),
         req'[q] = req[q], todo'[q] = todo[q], work'[q] = work[q]
  PROVE  WorkMirrors(q)'
<1>1. CASE req[q] # None /\ HalfBooked(q)
  <2>1. req[q] \in Call /\ req[q].call = "transfer" /\ TransferOf(q)
    BY <1>1 DEF TypeOK, HalfBooked, CallInv
  <2>2. Head(todo[q]).op = "post"
    <3> DEFINE c == PostOp(2)
    <3>1. todo[q] = <<c>> /\ c.op = "post"
      BY <1>1 DEF HalfBooked, PostOp, Op
    <3> HIDE DEF c
    <3>2. Head(<<c>>) = c
      OBVIOUS
    <3> QED
      BY <3>1, <3>2
  <2>3. account[req[q].to] # None /\ req[q].to \in Bank
    BY <2>1, <2>2, TransferSteps, CallFields
  <2>4. account'[req[q].to].team = account[req[q].to].team
    BY <2>3 DEF TeamsStay
  <2>5. ReceiverBook(req[q], work[q])' = ReceiverBook(req[q], work[q])
    BY <2>4 DEF ReceiverBook
  <2>6. HalfBooked(q)' /\ req'[q] # None
    BY <1>1 DEF HalfBooked
  <2> QED
    BY <1>1, <2>5, <2>6 DEF WorkMirrors
<1>2. CASE ~(req[q] # None /\ HalfBooked(q))
  BY <1>2 DEF WorkMirrors, HalfBooked
<1> QED
  BY <1>1, <1>2

\* ... and when it takes a step that books nothing.
LEMMA StepMirrors ==
  ASSUME TypeOK, NEW s \in Session, CallInv(s), WorkMirrors(s), NEW op, At(s, op), op # "post",
         req'[s] = req[s], todo'[s] = Tail(todo[s]), work'[s] = work[s]
  PROVE  WorkMirrors(s)'
<1> DEFINE c == PostOp(2)
<1>1. req[s] # None /\ todo[s] # <<>> /\ Head(todo[s]).op = op /\ req[s] \in Call
  BY DEF At, TypeOK
<1>p. c.op = "post"
  BY DEF PostOp, Op
<1>2. ~HalfBooked(s)
  <2> HIDE DEF c
  <2>1. Head(<<c>>) = c
    OBVIOUS
  <2> QED
    BY <1>1, <1>p, <2>1 DEF HalfBooked, c
<1>3. ASSUME req[s].call = "transfer" PROVE Tail(todo[s]) # <<PostOp(2)>>
  <2>t. TransferOf(s)
    BY <1>1 DEF CallInv
  <2>1. CASE op = "row"
    <3> DEFINE p == TransferPlan(req[s])
    <3>1. p # <<>> /\ Tail(p) # <<>> /\ Head(Tail(p)).op = "row"
          /\ Tail(Tail(p)) = <<Op("find", <<"label", "purpose">>), PostOp(1), PostOp(2)>>
      BY <1>1, PlanHeads DEF Op
    <3>2. todo[s] = p \/ todo[s] = Tail(p)
      <4> DEFINE x(o) == Op(o, <<"label", "purpose">>)
                 b == PostOp(1)
      <4>1. \A o \in {"find", "insert"} : x(o).op # "row"
        BY DEF Op
      <4>2. b.op = "post"
        BY DEF PostOp, Op
      <4>3. \/ todo[s] = p \/ todo[s] = Tail(p)
            \/ \E o \in {"find", "insert"} : todo[s] = <<x(o), b, c>>
            \/ todo[s] \in {<<b, c>>, <<c>>, <<>>}
        BY <1>3, <2>t DEF TransferOf
      <4> HIDE DEF x, b, c, p
      <4>4. /\ \A y : Head(<<y, b, c>>) = y
            /\ Head(<<b, c>>) = b /\ Head(<<c>>) = c
        OBVIOUS
      <4> QED
        BY <1>1, <1>p, <2>1, <4>1, <4>2, <4>3, <4>4
    <3>3. CASE todo[s] = p
      <4>1. Tail(todo[s]) # <<c>>
        <5> HIDE DEF c, p
        <5>1. Head(<<c>>) = c
          OBVIOUS
        <5> QED
          BY <1>p, <3>1, <3>3, <5>1
      <4> QED
        BY <4>1
    <3>4. CASE todo[s] = Tail(p)
      <4> DEFINE x == Op("find", <<"label", "purpose">>)
                 b == PostOp(1)
      <4>1. Tail(todo[s]) = <<x, b, c>>
        BY <3>1, <3>4
      <4> HIDE DEF x, b, c
      <4>2. <<x, b, c>> # <<c>>
        OBVIOUS
      <4> QED
        BY <4>1, <4>2 DEF c
    <3> QED
      BY <3>2, <3>3, <3>4
  <2>2. CASE op # "row"
    <3>1. NextFinds(s)
      <4>1. PostOp(1).op = "post"
        BY DEF PostOp, Op
      <4>2. NextFinds(s) \/ NextPays(s) \/ NextReceives(s)
        BY <1>1, <1>3, <2>t, <2>2, TransferSteps
      <4> QED
        BY <1>1, <1>p, <4>1, <4>2 DEF NextReceives, NextPays
    <3> DEFINE b == PostOp(1)
    <3>2. Tail(todo[s]) = <<b, c>>
      BY <3>1 DEF NextFinds
    <3> HIDE DEF b, c
    <3>3. <<b, c>> # <<c>>
      OBVIOUS
    <3> QED
      BY <3>2, <3>3 DEF c
  <2> QED
    BY <2>1, <2>2
<1> QED
  BY <1>1, <1>2, <1>3 DEF WorkMirrors, HalfBooked

\* A call goes on relying on what it did when nobody writes what it holds.
LEMMA OthersKeep ==
  ASSUME NEW q \in Session, CallInv(q), WorkMirrors(q),
         req'[q] = req[q], todo'[q] = todo[q], held'[q] = held[q], copy'[q] = copy[q],
         work'[q] = work[q], TypeOK, TeamsStay(account, account'),
         \A a \in Bank : /\ a \in held[q] => account'[a] = account[a]
                         /\ <<"number", a>> \in held[q] /\ account[a] = None => account'[a] = None
  PROVE  CallInv(q)' /\ WorkMirrors(q)'
<1>w. WorkMirrors(q)'
  BY OthersMirror
<1>s. \A a \in Bank : account[a] # None => account'[a] # None
  BY DEF TeamsStay
<1>1. CASE req[q] = None
  BY <1>1, <1>w DEF CallInv
<1>2. CASE req[q] # None
  <2>1. PlanOf(q)'
    BY <1>2 DEF CallInv, PlanOf
  <2>2. /\ req[q].call = "transfer" => req[q].to \in Bank
        /\ req[q].call \in {"init", "create"} => req[q].account \in Bank
    BY <1>2, CallFields DEF TypeOK
  <2>3. TransferOf(q)'
    <3> DEFINE r == req[q]
               td == todo[q]
    <3>1. req'[q] = r /\ todo'[q] = td
      OBVIOUS
    <3>2. (r.call = "transfer" /\ account[r.to] # None) => account'[r.to] # None
      BY <1>s, <2>2
    <3>3. TransferOf(q)
      BY <1>2 DEF CallInv
    <3> HIDE DEF r, td
    <3> QED
      BY <3>1, <3>2, <3>3 DEF TransferOf, r, td
  <2>4. CopyOf(q)'
    BY <1>2, <2>2 DEF CallInv, CopyOf
  <2>5. NumberOf(q)'
    BY <1>2, <2>2 DEF CallInv, NumberOf
  <2> QED
    BY <1>2, <1>w, <2>1, <2>3, <2>4, <2>5 DEF CallInv
<1> QED
  BY <1>1, <1>2

\* ... and so does a call that takes a step other than the one it begins with.
LEMMA AdvanceKeeps ==
  ASSUME TypeOK, NumberInv, NEW s \in Session, CallInv(s), NEW op, At(s, op), op # "row",
         req'[s] = req[s], todo'[s] = Tail(todo[s]), copy'[s] = copy[s],
         UNCHANGED account, held[s] \subseteq held'[s],
         op = "insert" => Target(s) \in held'[s] /\ Target(s) \notin keys
  PROVE  CallInv(s)'
<1>1. req[s] # None /\ todo[s] # <<>> /\ Head(todo[s]).op = op
  BY DEF At
<1>2. PlanOf(s)'
  BY <1>1, HeadTail DEF CallInv, PlanOf
<1>3. TransferOf(s)'
  <2> SUFFICES ASSUME req[s].call = "transfer"
               PROVE  /\ account[req[s].to] # None
                      /\ Tail(todo[s]) \in {<<PostOp(1), PostOp(2)>>, <<PostOp(2)>>, <<>>}
    BY DEF TransferOf
  <2>1. req[s] \in Call /\ TransferOf(s)
    BY <1>1 DEF TypeOK, CallInv
  <2> QED
    BY <1>1, <2>1, TransferSteps DEF NextReceives, NextPays, NextFinds
<1>4. CopyOf(s)'
  <2> SUFFICES ASSUME req[s].call = "init"
               PROVE  /\ \A i \in 1..Len(todo'[s]) : todo'[s][i].op # "row"
                      /\ req[s].account \in held'[s]
                      /\ copy[s] = account[req[s].account] /\ copy[s] # None /\ copy[s].balance = 0
    BY DEF CopyOf
  <2>1. /\ \A i \in 1..Len(todo[s]) : todo[s][i].op # "row"
        /\ req[s].account \in held[s]
        /\ copy[s] = account[req[s].account] /\ copy[s] # None /\ copy[s].balance = 0
    BY <1>1, Past
  <2>2. \A i \in 1..Len(todo'[s]) : todo'[s][i].op # "row"
    BY <1>1, <2>1, HeadTail
  <2> QED
    BY <2>1, <2>2
<1>5. NumberOf(s)'
  <2> SUFFICES ASSUME req[s].call = "create"
               PROVE  <<"number", req[s].account>> \in held'[s] /\ account[req[s].account] = None
    BY DEF NumberOf
  <2>1. CASE todo[s] = CreatePlan(req[s])
    <3>1. Target(s) = <<"number", req[s].account>> /\ op = "insert"
      <4>1. Head(todo[s]) = Op("insert", <<"number", req[s].account>>)
        BY <1>1, <2>1, Past, PlanHeads
      <4> QED
        BY <1>1, <4>1 DEF Target, Op
    <3>2. req[s].account \in Bank
      BY <1>1, Past, CallFields
    <3> QED
      BY <3>1, <3>2 DEF NumberInv
  <2>2. CASE todo[s] # CreatePlan(req[s])
    BY <1>1, <2>2 DEF CallInv, NumberOf
  <2> QED
    BY <2>1, <2>2
<1> QED
  BY <1>1, <1>2, <1>3, <1>4, <1>5 DEF CallInv
------------------------------------------------------------------------------
LEMMA InitInv == Init => TreasuryInv
<1> SUFFICES ASSUME Init PROVE TreasuryInv
  OBVIOUS
<1>1. TypeOK
  <2>1. account \in [Bank -> Account \cup {None}]
    BY OpenedAssumption DEF Init, NewAccount, Account
  <2>2. now \in 0..MaxTime /\ requests \in 0..MaxRequests
    BY BoundAssumption DEF Init
  <2>3. book \in Books /\ work \in [Session -> Books]
    BY NothingMirrors DEF Init
  <2> QED
    BY <2>1, <2>2, <2>3 DEF Init, TypeOK
<1>2. HeldInv
  BY DEF Init, HeldInv
<1>3. NumberInv
  BY DEF Init, NumberInv
<1>4. \A s \in Session : CallInv(s)
  BY DEF Init, CallInv
<1>5. AssetsMirror /\ \A s \in Session : WorkMirrors(s)
  BY NothingMirrors DEF Init, AssetsMirror, WorkMirrors
<1> QED
  BY <1>1, <1>2, <1>3, <1>4, <1>5 DEF TreasuryInv

\* A call begins with its plan.
LEMMA BeginKeeps ==
  ASSUME TreasuryInv, NEW s \in Session, NEW r \in Request, Begin(s, r)
  PROVE  TreasuryInv'
<1>r. r \in Call /\ r # None
  BY RequestAssumption, NoneAssumption
<1>n. now \in Nat /\ requests \in Nat
  BY BoundAssumption DEF TreasuryInv, TypeOK
<1>1. TypeOK'
  <2>1. requests' \in 0..MaxRequests
    BY BoundAssumption DEF TreasuryInv, TypeOK, Begin
  <2>2. todo' \in [Session -> Seq(PlanStep)]
    BY <1>r, <1>n, PlanSteps DEF TreasuryInv, TypeOK, Begin
  <2>3. req' \in [Session -> Call \cup {None}]
    BY <1>r DEF TreasuryInv, TypeOK, Begin
  <2> QED
    BY <2>1, <2>2, <2>3 DEF TreasuryInv, TypeOK, Begin
<1>2. HeldInv' /\ NumberInv' /\ AssetsMirror'
  BY DEF TreasuryInv, Begin, HeldInv, NumberInv, AssetsMirror
<1>3. req'[s] = r /\ todo'[s] = Plan(r)
  BY DEF TreasuryInv, TypeOK, Begin
<1>4. CallInv(s)'
  <2>1. PlanOf(s)'
    BY <1>r, <1>n, <1>3, PlanSteps DEF PlanOf
  <2>2. TransferOf(s)' /\ CopyOf(s)' /\ NumberOf(s)'
    BY <1>3 DEF TransferOf, CopyOf, NumberOf, Plan
  <2> QED
    BY <1>r, <1>3, <2>1, <2>2 DEF CallInv
<1>5. ASSUME NEW q \in Session, q # s PROVE CallInv(q)' /\ WorkMirrors(q)'
  BY <1>5, OthersKeep DEF TreasuryInv, TypeOK, Begin, TeamsStay
<1>6. WorkMirrors(s)'
  <2>1. req[s] = None /\ Mirrors(work[s]) /\ work' = work
    BY DEF TreasuryInv, Begin, WorkMirrors
  <2>2. r.call = "transfer" => Plan(r) # <<PostOp(2)>>
    <3> DEFINE c == PostOp(2)
               pl == TransferPlan(r)
    <3>1. pl # <<>> /\ Head(pl).op = "row" /\ c.op # "row"
      BY <1>r, PlanHeads DEF Op, PostOp
    <3>2. r.call = "transfer" => Plan(r) = pl
      BY DEF Plan
    <3>3. Head(<<c>>) = c
      OBVIOUS
    <3> HIDE DEF c, pl
    <3>4. pl # <<c>>
      BY <3>1, <3>3
    <3> QED
      BY <3>2, <3>4 DEF c
  <2> QED
    BY <1>3, <2>1, <2>2 DEF WorkMirrors, HalfBooked
<1> QED
  BY <1>1, <1>2, <1>4, <1>5, <1>6 DEF TreasuryInv

\* A call that ends holds nothing and has booked nothing.
LEMMA ReturnKeeps ==
  ASSUME TreasuryInv, NEW s \in Session, Return(s)
  PROVE  /\ req' \in [Session -> Call \cup {None}]
         /\ todo' \in [Session -> Seq(PlanStep)]
         /\ copy' \in [Session -> Account \cup {None}]
         /\ work' \in [Session -> Books]
         /\ held' \in [Session -> SUBSET (Bank \cup Resource)]
         /\ now' \in 0..MaxTime /\ requests' \in 0..MaxRequests
         /\ \A q \in Session : held'[q] \subseteq held[q]
         /\ CallInv(s)' /\ WorkMirrors(s)'
         /\ \A q \in Session \ {s} : /\ req'[q] = req[q] /\ todo'[q] = todo[q]
                                     /\ held'[q] = held[q] /\ copy'[q] = copy[q]
                                     /\ work'[q] = work[q]
  BY NothingMirrors DEF TreasuryInv, TypeOK, Return, CallInv, WorkMirrors

LEMMA GiveUpKeeps ==
  ASSUME TreasuryInv, NEW s \in Session, GiveUp(s)
  PROVE  TreasuryInv'
<1>1. TypeOK'
  BY ReturnKeeps DEF TreasuryInv, TypeOK, GiveUp
<1>2. HeldInv'
  BY ReturnKeeps DEF TreasuryInv, HeldInv, GiveUp
<1>3. NumberInv' /\ AssetsMirror'
  BY DEF TreasuryInv, NumberInv, AssetsMirror, GiveUp
<1>4. ASSUME NEW q \in Session PROVE CallInv(q)' /\ WorkMirrors(q)'
  <2>1. CASE q = s
    BY <2>1, ReturnKeeps DEF GiveUp
  <2>2. CASE q # s
    <3>1. TeamsStay(account, account') /\ account' = account
      BY DEF GiveUp, TeamsStay
    <3> QED
      BY <2>2, <3>1, ReturnKeeps, OthersKeep DEF TreasuryInv, GiveUp
  <2> QED
    BY <2>1, <2>2
<1> QED
  BY <1>1, <1>2, <1>3, <1>4 DEF TreasuryInv

\* A step towards a row or a key adds at most that one to what the call holds.
LEMMA LockRowKeeps ==
  ASSUME TreasuryInv, NEW s \in Session, LockRow(s)
  PROVE  TreasuryInv'
<1> DEFINE a == Target(s)
<1>a. /\ a \in Bank /\ account[a] # None /\ Free(s, a) /\ MayUse(s, a)
      /\ req[s] # None /\ todo[s] # <<>> /\ Head(todo[s]).op = "row" /\ Head(todo[s]).key = a
  BY TargetType DEF TreasuryInv, LockRow, At, Target
<1>b. /\ req' = req /\ todo'[s] = Tail(todo[s]) /\ copy'[s] = account[a]
      /\ held'[s] = held[s] \cup {a} /\ UNCHANGED <<account, keys, book, work>>
      /\ \A q \in Session \ {s} : todo'[q] = todo[q] /\ held'[q] = held[q] /\ copy'[q] = copy[q]
  BY DEF TreasuryInv, TypeOK, LockRow, Advance, Hold
<1>1. TypeOK'
  <2>1. todo' \in [Session -> Seq(PlanStep)]
    BY <1>a, HeadTail DEF TreasuryInv, TypeOK, LockRow, Advance
  <2>2. held' \in [Session -> SUBSET (Bank \cup Resource)]
    BY <1>a DEF TreasuryInv, TypeOK, LockRow, Hold
  <2>3. copy' \in [Session -> Account \cup {None}]
    BY <1>a DEF TreasuryInv, TypeOK, LockRow
  <2> QED
    BY <2>1, <2>2, <2>3 DEF TreasuryInv, TypeOK, LockRow, Advance
<1>2. HeldInv'
  BY <1>a, <1>b DEF TreasuryInv, HeldInv, Free
<1>3. NumberInv' /\ AssetsMirror'
  BY <1>b DEF TreasuryInv, NumberInv, AssetsMirror
<1> HIDE DEF a
<1>4. CallInv(s)'
  <2>t. TypeOK /\ CallInv(s) /\ req[s] \in Call
    BY <1>a DEF TreasuryInv, TypeOK
  <2>1. PlanOf(s)'
    BY <1>a, <1>b, <2>t, HeadTail DEF CallInv, PlanOf
  <2>2. TransferOf(s)'
    <3> SUFFICES ASSUME req[s].call = "transfer"
                 PROVE  \/ todo'[s] = Tail(TransferPlan(req[s]))
                        \/ /\ account[req[s].to] # None
                           /\ todo'[s] = <<Op("find", <<"label", "purpose">>), PostOp(1), PostOp(2)>>
      BY <1>b DEF TransferOf
    <3>1. CASE todo[s] = Tail(TransferPlan(req[s]))
      <4>1. /\ Head(todo[s]) = Op("row", req[s].to)
            /\ Tail(todo[s]) = <<Op("find", <<"label", "purpose">>), PostOp(1), PostOp(2)>>
        BY <2>t, <3>1, PlanHeads
      <4>2. req[s].to = a
        BY <1>a, <4>1 DEF Op
      <4> QED
        BY <1>a, <1>b, <4>1, <4>2
    <3>2. CASE todo[s] = TransferPlan(req[s])
      BY <1>b, <3>2
    <3>3. CASE todo[s] # TransferPlan(req[s]) /\ todo[s] # Tail(TransferPlan(req[s]))
      <4>1. PostOp(1).op # "row" /\ PostOp(2).op # "row"
        BY DEF PostOp, Op
      <4> DEFINE x(o) == Op(o, <<"label", "purpose">>)
                 c == PostOp(1)
                 d == PostOp(2)
      <4>2. /\ todo[s] # <<>>
            /\ \/ \E o \in {"find", "insert"} : todo[s] = <<x(o), c, d>>
               \/ todo[s] \in {<<c, d>>, <<d>>, <<>>}
        BY <1>a, <1>b, <2>t, <3>3 DEF CallInv, TransferOf
      <4>3. \A o \in {"find", "insert"} : x(o).op # "row"
        BY DEF Op
      <4> HIDE DEF x, c, d
      <4>4. /\ \A y : Head(<<y, c, d>>) = y
            /\ Head(<<c, d>>) = c /\ Head(<<d>>) = d
        OBVIOUS
      <4>5. Head(todo[s]).op # "row"
        BY <4>1, <4>2, <4>3, <4>4 DEF c, d
      <4> QED
        BY <1>a, <4>5
    <3> QED
      BY <3>1, <3>2, <3>3
  <2>3. CopyOf(s)'
    <3> SUFFICES ASSUME req[s].call = "init"
                 PROVE  /\ \A i \in 1..Len(todo'[s]) : todo'[s][i].op # "row"
                        /\ req[s].account \in held'[s]
                        /\ copy'[s] = account[req[s].account] /\ copy'[s] # None /\ copy'[s].balance = 0
      BY <1>b DEF CopyOf
    <3>1. todo[s] = InitPlan(req[s])
      BY <1>a, <2>t, HeadTail DEF CallInv, CopyOf
    <3>2. /\ Head(todo[s]) = Op("row", req[s].account)
          /\ \A i \in 1..Len(todo'[s]) : todo'[s][i].op # "row"
      <4>1. todo'[s] = Tail(InitPlan(req[s]))
        BY <1>b, <3>1
      <4>2. \A i \in 1..Len(Tail(InitPlan(req[s]))) : Tail(InitPlan(req[s]))[i].op # "row"
        BY <2>t, PlanHeads
      <4> QED
        BY <2>t, <3>1, <4>1, <4>2, PlanHeads
    <3>3. a = req[s].account
      BY <1>a, <3>2 DEF Op
    <3> QED
      BY <1>a, <1>b, <3>2, <3>3 DEF MayUse
  <2>4. NumberOf(s)'
    BY <1>a, <1>b, <2>t, Past DEF NumberOf
  <2> QED
    BY <1>a, <1>b, <2>1, <2>2, <2>3, <2>4 DEF CallInv
<1>5. ASSUME NEW q \in Session, q # s PROVE CallInv(q)' /\ WorkMirrors(q)'
  BY <1>b, <1>5, OthersKeep DEF TreasuryInv, TeamsStay
<1>6. WorkMirrors(s)'
  <2>1. At(s, "row")
    BY DEF LockRow
  <2> QED
    BY <1>b, <2>1, StepMirrors DEF TreasuryInv
<1> QED
  BY <1>1, <1>2, <1>3, <1>4, <1>5, <1>6 DEF TreasuryInv

\* A row that is not there ends the call, or is passed over by a deletion.
LEMMA MissingRowKeeps ==
  ASSUME TreasuryInv, NEW s \in Session, MissingRow(s)
  PROVE  TreasuryInv'
<1>1. CASE GiveUp(s)
  BY <1>1, GiveUpKeeps
<1>2. CASE /\ req[s].call = "delete" /\ At(s, "row") /\ Advance(s)
           /\ UNCHANGED <<held, copy, work>>
  <2>1. /\ req[s] # None /\ req[s] \in Call /\ todo[s] # <<>>
        /\ req' = req /\ todo'[s] = Tail(todo[s])
        /\ \A q \in Session \ {s} : todo'[q] = todo[q]
        /\ UNCHANGED <<account, keys, book, held, copy, work>>
    BY <1>2 DEF TreasuryInv, TypeOK, At, Advance
  <2>2. TypeOK'
    BY <1>2, <2>1, HeadTail DEF TreasuryInv, TypeOK, Advance
  <2>3. HeldInv' /\ NumberInv' /\ AssetsMirror'
    BY <2>1 DEF TreasuryInv, HeldInv, NumberInv, AssetsMirror
  <2>4. CallInv(s)'
    BY <1>2, <2>1 DEF CallInv, PlanOf, TransferOf, CopyOf, NumberOf
  <2>5. ASSUME NEW q \in Session, q # s PROVE CallInv(q)' /\ WorkMirrors(q)'
    BY <2>1, <2>5, OthersKeep DEF TreasuryInv, TeamsStay
  <2>6. WorkMirrors(s)'
    BY <1>2, <2>1, StepMirrors DEF TreasuryInv
  <2> QED
    BY <2>2, <2>3, <2>4, <2>5, <2>6 DEF TreasuryInv
<1> QED
  BY <1>1, <1>2 DEF MissingRow

\* A step that looks up or inserts a key, or books.
LEMMA KeyStepKeeps ==
  ASSUME TreasuryInv, NEW s \in Session, NEW op, At(s, op), op # "row",
         req' = req, todo' = [todo EXCEPT ![s] = Tail(@)], copy' = copy, account' = account,
         keys \subseteq keys', book' = book, now' = now, requests' = requests,
         \/ held' = held
         \/ /\ op \in {"insert", "upsert"} /\ Free(s, Target(s)) /\ Hold(s, Target(s)),
         op = "insert" => Target(s) \in held'[s] /\ Target(s) \notin keys,
         work' \in [Session -> Books], \A q \in Session \ {s} : work'[q] = work[q],
         WorkMirrors(s)'
  PROVE  TreasuryInv'
<1>1. \/ held' = held
      \/ /\ Target(s) \in Resource /\ Target(s) \notin Bank /\ Free(s, Target(s))
         /\ held' = [held EXCEPT ![s] = held[s] \cup {Target(s)}]
  BY TargetType, BankAssumption DEF TreasuryInv, At, Hold
<1>2. TypeOK'
  <2>1. todo' \in [Session -> Seq(PlanStep)]
    BY HeadTail DEF TreasuryInv, TypeOK, At
  <2>2. held' \in [Session -> SUBSET (Bank \cup Resource)]
    <3>1. held \in [Session -> SUBSET (Bank \cup Resource)]
      BY DEF TreasuryInv, TypeOK
    <3>2. Target(s) \in Resource => held[s] \cup {Target(s)} \in SUBSET (Bank \cup Resource)
      BY <3>1
    <3> QED
      BY <1>1, <3>1, <3>2
  <2> QED
    BY <2>1, <2>2 DEF TreasuryInv, TypeOK
<1>h. /\ held[s] \subseteq held'[s]
      /\ \A q \in Session \ {s} : held'[q] = held[q] /\ todo'[q] = todo[q]
      /\ todo'[s] = Tail(todo[s])
  BY DEF TreasuryInv, TypeOK, Hold
<1>3. HeldInv'
  <2>1. CASE held' = held
    BY <2>1 DEF TreasuryInv, HeldInv
  <2>2. CASE /\ Target(s) \notin Bank /\ Free(s, Target(s)) /\ held'[s] = held[s] \cup {Target(s)}
    BY <1>h, <2>2 DEF TreasuryInv, HeldInv, Free
  <2> QED
    BY <1>1, <2>1, <2>2 DEF TreasuryInv, TypeOK
<1>4. NumberInv' /\ AssetsMirror'
  BY DEF TreasuryInv, NumberInv, AssetsMirror
<1>5. CallInv(s)'
  BY <1>h, AdvanceKeeps DEF TreasuryInv
<1>6. ASSUME NEW q \in Session, q # s PROVE CallInv(q)' /\ WorkMirrors(q)'
  BY <1>h, <1>6, OthersKeep DEF TreasuryInv, TeamsStay
<1> QED
  BY <1>2, <1>3, <1>4, <1>5, <1>6 DEF TreasuryInv

\* A key that is not found is inserted next.
LEMMA FindNothingKeeps ==
  ASSUME TreasuryInv, NEW s \in Session, FindNothing(s)
  PROVE  TreasuryInv'
<1> DEFINE op == IF req[s].call = "setup" THEN "save" ELSE "insert"
           step == Op(op, Target(s))
           left == <<step>> \o Tail(todo[s])
<1>a. /\ req[s] # None /\ req[s] \in Call /\ todo[s] # <<>> /\ Head(todo[s]).op = "find"
      /\ Target(s) \in Resource
  BY TargetType DEF TreasuryInv, TypeOK, FindNothing, At
<1>b. step \in PlanStep /\ step.op \in {"save", "insert"}
  BY <1>a, StepTypes DEF Op
<1>c. /\ req' = req /\ todo' = [todo EXCEPT ![s] = left]
      /\ UNCHANGED <<account, keys, book, held, copy, work, now, requests>>
  BY DEF FindNothing
<1> HIDE DEF step
<1>d. /\ left \in Seq(PlanStep)
      /\ \A i \in 1..Len(left) : left[i] = step \/ \E j \in 1..Len(todo[s]) : left[i] = todo[s][j]
  <2>1. Tail(todo[s]) \in Seq(PlanStep)
    BY <1>a, HeadTail DEF TreasuryInv
  <2>2. /\ left \in Seq(PlanStep) /\ Len(left) = Len(Tail(todo[s])) + 1 /\ left[1] = step
        /\ \A i \in 1..Len(Tail(todo[s])) : left[i + 1] = Tail(todo[s])[i]
    BY <1>b, <2>1
  <2>3. ASSUME NEW i \in 1..Len(left), i # 1
        PROVE  \E j \in 1..Len(todo[s]) : left[i] = todo[s][j]
    <3>1. i - 1 \in 1..Len(Tail(todo[s])) /\ left[(i - 1) + 1] = Tail(todo[s])[i - 1]
      BY <2>1, <2>2, <2>3
    <3>2. i \in 1..Len(todo[s]) /\ Tail(todo[s])[i - 1] = todo[s][i]
      BY <1>a, <3>1, HeadTail DEF TreasuryInv
    <3> QED
      BY <3>1, <3>2
  <2> QED
    BY <2>2, <2>3
<1> HIDE DEF left
<1>1. TypeOK'
  BY <1>c, <1>d DEF TreasuryInv, TypeOK
<1>2. HeldInv' /\ NumberInv' /\ AssetsMirror'
  BY <1>c DEF TreasuryInv, HeldInv, NumberInv, AssetsMirror
<1>e. todo'[s] = left /\ \A q \in Session \ {s} : todo'[q] = todo[q]
  BY <1>c DEF TreasuryInv, TypeOK
<1>t. req[s].call = "transfer" =>
        /\ account[req[s].to] # None
        /\ todo'[s] = <<Op("insert", <<"label", "purpose">>), PostOp(1), PostOp(2)>>
  <2> SUFFICES ASSUME req[s].call = "transfer"
               PROVE  /\ account[req[s].to] # None
                      /\ todo'[s] = <<Op("insert", <<"label", "purpose">>), PostOp(1), PostOp(2)>>
    OBVIOUS
  <2>1. TransferOf(s)
    BY <1>a DEF TreasuryInv, CallInv
  <2>2. /\ account[req[s].to] # None
        /\ NextFinds(s) \/ NextPays(s) \/ NextReceives(s)
    BY <1>a, <2>1, TransferSteps
  <2>3. NextFinds(s)
    <3>1. PostOp(1).op # "find" /\ PostOp(2).op # "find"
      BY DEF PostOp, Op
    <3> QED
      BY <1>a, <2>2, <3>1 DEF NextPays, NextReceives
  <2> DEFINE k == <<"label", "purpose">>
             y == PostOp(1)
             z == PostOp(2)
  <2>4. Target(s) = k
    <3>1. PICK o \in {"find", "insert"} : todo[s] = <<Op(o, k), y, z>>
      BY <2>3 DEF NextFinds
    <3> DEFINE x == Op(o, k)
    <3>2. x.key = k
      BY DEF Op
    <3> HIDE DEF x, y, z, k
    <3>3. Head(<<x, y, z>>) = x
      OBVIOUS
    <3> QED
      BY <3>1, <3>2, <3>3 DEF Target, x
  <2>5. Tail(todo[s]) = <<y, z>>
    BY <2>3 DEF NextFinds
  <2>6. step = Op("insert", k)
    BY <2>4 DEF step
  <2>7. todo'[s] = left /\ left = <<step>> \o Tail(todo[s])
    BY <1>e DEF left
  <2> DEFINE x == Op("insert", k)
  <2> HIDE DEF x, y, z, k
  <2>8. <<x>> \o <<y, z>> = <<x, y, z>>
    <3> DEFINE S == {x, y, z}
               u == <<x>>
               v == <<y, z>>
               w == <<x, y, z>>
    <3>1. u \in Seq(S) /\ v \in Seq(S) /\ w \in Seq(S)
      OBVIOUS
    <3>2. Len(u) = 1 /\ Len(v) = 2 /\ Len(w) = 3 /\ u[1] = x /\ v[1] = y /\ v[2] = z
          /\ w[1] = x /\ w[2] = y /\ w[3] = z
      OBVIOUS
    <3> HIDE DEF u, v, w, S
    <3>3. u \o v \in Seq(S) /\ Len(u \o v) = 3
          /\ (u \o v)[1] = x /\ (u \o v)[2] = y /\ (u \o v)[3] = z
      <4>1. /\ u \o v \in Seq(S) /\ Len(u \o v) = Len(u) + Len(v)
            /\ \A p \in 1..(Len(u) + Len(v)) :
                 (u \o v)[p] = IF p <= Len(u) THEN u[p] ELSE v[p - Len(u)]
        BY <3>1
      <4> QED
        BY <3>2, <4>1
    <3>4. u \o v = w
      BY <3>1, <3>2, <3>3
    <3> QED
      BY <3>4 DEF u, v, w
  <2> QED
    BY <2>2, <2>5, <2>6, <2>7, <2>8 DEF x, y, z, k
<1>3. CallInv(s)'
  <2>0. TypeOK /\ CallInv(s)
    BY DEF TreasuryInv
  <2>1. PlanOf(s)'
    BY <1>a, <1>b, <1>c, <1>d, <1>e, <2>0 DEF CallInv, PlanOf
  <2>2. NumberOf(s)'
    BY <1>a, <1>c, <2>0, Past DEF NumberOf
  <2>4. TransferOf(s)'
    BY <1>a, <1>c, <1>t DEF TransferOf
  <2>3. CopyOf(s)'
    <3>1. req[s].call = "init" =>
            /\ \A i \in 1..Len(todo[s]) : todo[s][i].op # "row"
            /\ req[s].account \in held[s]
            /\ copy[s] = account[req[s].account] /\ copy[s] # None /\ copy[s].balance = 0
      BY <1>a, <2>0, Past
    <3> QED
      BY <1>b, <1>c, <1>d, <1>e, <3>1 DEF CopyOf
  <2> QED
    BY <1>a, <1>c, <2>1, <2>2, <2>3, <2>4 DEF CallInv
<1>4. ASSUME NEW q \in Session, q # s PROVE CallInv(q)' /\ WorkMirrors(q)'
  BY <1>c, <1>e, <1>4, OthersKeep DEF TreasuryInv, TeamsStay
<1>5. WorkMirrors(s)'
  <2>1. Mirrors(work[s])
    <3>1. ~HalfBooked(s)
      <4> DEFINE c == PostOp(2)
      <4>1. c.op # "find"
        BY DEF PostOp, Op
      <4> HIDE DEF c
      <4>2. Head(<<c>>) = c
        OBVIOUS
      <4> QED
        BY <1>a, <4>1, <4>2 DEF HalfBooked, c
    <3> QED
      BY <3>1 DEF TreasuryInv, WorkMirrors
  <2>2. req[s].call = "transfer" => todo'[s] # <<PostOp(2)>>
    <3> DEFINE x == Op("insert", <<"label", "purpose">>)
               y == PostOp(1)
               z == PostOp(2)
    <3>1. req[s].call = "transfer" => todo'[s] = <<x, y, z>>
      BY <1>t
    <3> HIDE DEF x, y, z
    <3>2. <<x, y, z>> # <<z>>
      OBVIOUS
    <3> QED
      BY <3>1, <3>2 DEF z
  <2> QED
    BY <1>c, <2>1, <2>2 DEF WorkMirrors, HalfBooked
<1> QED
  BY <1>1, <1>2, <1>3, <1>4, <1>5 DEF TreasuryInv

\* The payer's book, and then the receiver's.
LEMMA TransferPosts ==
  ASSUME TreasuryInv, NEW s \in Session, Post(s), req[s].call = "transfer"
  PROVE  LET c == Booked(req[s], Target(s)[2], work[s])
         IN /\ c \in Books
            /\ Mirrors(IF Tail(todo[s]) = <<PostOp(2)>> THEN ReceiverBook(req[s], c) ELSE c)
<1> DEFINE r == req[s]
           b == work[s]
<1>1. /\ r # None /\ r \in Call /\ b \in Books /\ todo[s] # <<>> /\ Head(todo[s]).op = "post"
      /\ TransferOf(s) /\ WorkMirrors(s)
  BY DEF TreasuryInv, TypeOK, Post, At, CallInv
<1>2. account[r.to] # None /\ (NextPays(s) \/ NextReceives(s))
  BY <1>1, TransferSteps DEF NextFinds
<1>3. account[r.to] \in Account
  BY <1>1, <1>2, CallFields DEF TreasuryInv, TypeOK
<1>4. CASE NextPays(s)
  <2>1. Target(s)[2] = 1 /\ Tail(todo[s]) = <<PostOp(2)>>
    BY <1>4 DEF NextPays, Target, PostOp, Op
  <2>2. Mirrors(b)
    <3> DEFINE x == PostOp(1)
               y == PostOp(2)
    <3>1. todo[s] = <<x, y>>
      BY <1>4 DEF NextPays
    <3> HIDE DEF x, y
    <3>2. <<x, y>> # <<y>>
      OBVIOUS
    <3> QED
      BY <1>1, <3>1, <3>2 DEF WorkMirrors, HalfBooked, y
  <2>3. Booked(r, 1, b) = PayerBook(r, b)
    BY DEF Booked
  <2> QED
    BY <1>1, <1>3, <2>1, <2>2, <2>3, TransferMirrors
<1>5. CASE NextReceives(s)
  <2>1. Target(s)[2] = 2 /\ Tail(todo[s]) # <<PostOp(2)>> /\ HalfBooked(s)
    BY <1>5 DEF NextReceives, Target, PostOp, Op, HalfBooked
  <2>2. Booked(r, 2, b) = ReceiverBook(r, b)
    BY DEF Booked
  <2>3. Mirrors(ReceiverBook(r, b))
    BY <1>1, <2>1 DEF WorkMirrors
  <2>4. ReceiverBook(r, b) \in Books
    BY <1>1, <1>3, BooksOfTransfer
  <2> QED
    BY <2>1, <2>2, <2>3, <2>4
<1> QED
  BY <1>2, <1>4, <1>5

LEMMA PostKeeps ==
  ASSUME TreasuryInv, NEW s \in Session, Post(s)
  PROVE  TreasuryInv'
<1> DEFINE i == Target(s)[2]
           c == Booked(req[s], i, work[s])
<1>a. /\ req[s] # None /\ req[s] \in Call /\ todo[s] # <<>>
      /\ Head(todo[s]).op = "post" /\ Head(todo[s]).key[2] = i
  BY DEF TreasuryInv, TypeOK, Post, At, Target
<1>b. TypeOK /\ CallInv(s)
  BY DEF TreasuryInv
<1>c. req[s].call = "init" => account[req[s].account] \in Account
  <2>1. req[s].call = "init" => account[req[s].account] # None
    BY <1>a, <1>b, Past
  <2> QED
    BY <1>a, <1>b, <2>1, CallFields DEF TypeOK
<1>3. req[s].call = "adjust" => i \in 1..Len(req[s].adjs)
  BY <1>a, HeadTail DEF TreasuryInv, CallInv, PlanOf
<1>4. work[s] \in Books /\ (req[s].call # "transfer" => Mirrors(work[s]))
  BY DEF TreasuryInv, TypeOK, WorkMirrors, HalfBooked
<1>5. /\ c \in Books
      /\ Mirrors(IF req[s].call = "transfer" /\ Tail(todo[s]) = <<PostOp(2)>>
                 THEN ReceiverBook(req[s], c) ELSE c)
  <2>1. CASE req[s].call = "transfer"
    BY <2>1, TransferPosts
  <2>2. CASE req[s].call # "transfer"
    <3> HIDE DEF i
    <3>1. c \in Books /\ Mirrors(c)
      BY <1>a, <1>c, <1>3, <1>4, <2>2, BookedMirrors
    <3> QED
      BY <2>2, <3>1
  <2> QED
    BY <2>1, <2>2
<1>6. /\ work' = [work EXCEPT ![s] = c] /\ todo' = [todo EXCEPT ![s] = Tail(todo[s])]
      /\ req' = req /\ account' = account
  BY DEF Post, Advance
<1> HIDE DEF c, i
<1>7. /\ work' \in [Session -> Books] /\ \A q \in Session \ {s} : work'[q] = work[q]
      /\ work'[s] = c /\ todo'[s] = Tail(todo[s])
  BY <1>5, <1>6 DEF TreasuryInv, TypeOK
<1>8. WorkMirrors(s)'
  <2>2. HalfBooked(s)' <=> (req[s].call = "transfer" /\ Tail(todo[s]) = <<PostOp(2)>>)
    BY <1>6, <1>7 DEF HalfBooked
  <2>3. ReceiverBook(req[s], work[s])' = ReceiverBook(req[s], c)
    BY <1>6, <1>7 DEF ReceiverBook
  <2> QED
    BY <1>5, <1>6, <1>7, <1>a, <2>2, <2>3 DEF WorkMirrors
<1> QED
  BY <1>7, <1>8, KeyStepKeeps DEF Post, Advance

------------------------------------------------------------------------------
\* What one step may write to a bank account: a new one may be opened, and the
\* team, a deletion, a new name and a balance stay.
Stays(x, y) ==
  /\ y \in Account
  /\ y.team = x.team
  /\ x.deleted => y.deleted
  /\ x.renamed => y.renamed
  /\ x.balance # 0 => y.balance = x.balance

\* A call writes the rows it holds, or opens the account whose number it holds.
LEMMA WrittenRows ==
  ASSUME TreasuryInv, NEW s \in Session, req[s] # None, todo[s] = <<>>
  PROVE  /\ Written(s) \in [Bank -> Account \cup {None}]
         /\ \A a \in Bank :
              \/ Written(s)[a] = account[a]
              \/ account[a] = None /\ <<"number", a>> \in held[s]
              \/ account[a] # None /\ a \in held[s] /\ Stays(account[a], Written(s)[a])
<1> DEFINE r == req[s]
<1>1. r \in Call /\ account \in [Bank -> Account \cup {None}] /\ None \notin Account
  BY NoneAssumption DEF TreasuryInv, TypeOK
<1>p. /\ r.call = "init" =>
           /\ r.account \in held[s]
           /\ copy[s] = account[r.account] /\ copy[s] # None /\ copy[s].balance = 0
      /\ r.call = "create" => <<"number", r.account>> \in held[s] /\ account[r.account] = None
  BY Past DEF TreasuryInv
<1>2. CASE r.call = "create"
  <2>1. r.account \in Bank /\ NewAccount(r.team) \in Account
    BY <1>1, <1>2, CallFields DEF NewAccount, Account
  <2>2. Written(s) = [account EXCEPT ![r.account] = NewAccount(r.team)]
    BY <1>2 DEF Written
  <2> QED
    BY <1>1, <1>2, <1>p, <2>1, <2>2
<1>3. CASE r.call = "init"
  <2>1. r.account \in Bank /\ r.amount \in Int
    BY <1>1, <1>3, CallFields
  <2> DEFINE old == account[r.account]
             new == [old EXCEPT !.balance = r.amount]
  <2>2. old \in Account /\ old.balance = 0 /\ copy[s] = old
    BY <1>1, <1>3, <1>p, <2>1
  <2>3. Stays(old, new)
    BY <2>1, <2>2 DEF Stays, Account
  <2>4. Written(s) = [account EXCEPT ![r.account] = new]
    BY <1>3, <2>2 DEF Written
  <2> HIDE DEF new
  <2>5. new \in Account
    BY <2>3 DEF Stays
  <2> QED
    BY <1>1, <1>3, <1>p, <2>1, <2>2, <2>3, <2>4, <2>5
<1>4. CASE r.call = "delete"
  <2>1. ASSUME NEW a \in Bank, a \in held[s]
        PROVE  account[a] # None /\ Stays(account[a], [account[a] EXCEPT !.deleted = TRUE])
    <3>1. account[a] \in Account
      BY <1>1, <2>1 DEF TreasuryInv, HeldInv
    <3>2. [account[a] EXCEPT !.deleted = TRUE] \in Account
      BY <3>1 DEF Account
    <3> QED
      BY <1>1, <3>1, <3>2 DEF Stays, Account
  <2>2. Written(s) = [a \in Bank |-> IF a \in held[s] THEN [account[a] EXCEPT !.deleted = TRUE]
                                                      ELSE account[a]]
    BY <1>4 DEF Written
  <2> QED
    BY <1>1, <2>1, <2>2 DEF Stays
<1>5. CASE r.call \notin {"create", "init", "delete"}
  BY <1>1, <1>5 DEF Written
<1> QED
  BY <1>2, <1>3, <1>4, <1>5

\* A call that commits.
LEMMA CommitKeeps ==
  ASSUME TreasuryInv, NEW s \in Session, Commit(s)
  PROVE  TreasuryInv'
<1>r. Return(s) /\ req[s] # None /\ todo[s] = <<>> /\ account' = Written(s)
  BY DEF Commit
<1>w. /\ account' \in [Bank -> Account \cup {None}]
      /\ \A a \in Bank :
           \/ account'[a] = account[a]
           \/ account[a] = None /\ <<"number", a>> \in held[s]
           \/ /\ account[a] # None /\ a \in held[s] /\ account'[a] # None
              /\ account'[a].team = account[a].team
  BY <1>r, WrittenRows, NoneAssumption DEF Stays
<1>b. book' \in Books /\ Mirrors(book')
  <2>1. Mirrors(work[s])
    <3>1. <<>> # <<PostOp(2)>>
      OBVIOUS
    <3> QED
      BY <1>r, <3>1 DEF TreasuryInv, WorkMirrors, HalfBooked
  <2> QED
    BY <2>1, SumMirrors DEF TreasuryInv, TypeOK, AssetsMirror, Commit
<1>k. \A a \in Bank : <<"number", a>> \in keys \/ <<"number", a>> \in held[s] => <<"number", a>> \in keys'
  BY KeyTypes, BankAssumption DEF Commit
<1>1. TypeOK'
  BY <1>r, <1>w, <1>b, ReturnKeeps DEF TypeOK
<1>2. HeldInv'
  <2>1. \A q \in Session : held'[q] \subseteq held[q]
    BY <1>r, ReturnKeeps
  <2>2. \A q, v \in Session : q # v => held'[q] \cap held'[v] = {}
    BY <2>1 DEF TreasuryInv, HeldInv
  <2>3. ASSUME NEW q \in Session, NEW a \in Bank, a \in held'[q]
        PROVE  account'[a] # None
    <3>1. account[a] # None
      BY <2>1, <2>3 DEF TreasuryInv, HeldInv
    <3> QED
      BY <1>w, <3>1
  <2> QED
    BY <2>2, <2>3 DEF HeldInv
<1>3. NumberInv'
  BY <1>w, <1>k DEF TreasuryInv, NumberInv
<1>4. AssetsMirror'
  BY <1>b DEF AssetsMirror
<1>t. TeamsStay(account, account')
  BY <1>w DEF TeamsStay
<1>5. ASSUME NEW q \in Session, q # s PROVE CallInv(q)' /\ WorkMirrors(q)'
  <2>1. held[s] \cap held[q] = {} /\ CallInv(q) /\ WorkMirrors(q) /\ TypeOK
    BY <1>5 DEF TreasuryInv, HeldInv
  <2>2. \A a \in Bank : /\ a \in held[q] => account'[a] = account[a]
                        /\ <<"number", a>> \in held[q] /\ account[a] = None => account'[a] = None
    <3> SUFFICES ASSUME NEW a \in Bank
                 PROVE  /\ a \in held[q] => account'[a] = account[a]
                        /\ <<"number", a>> \in held[q] /\ account[a] = None => account'[a] = None
      OBVIOUS
    <3>1. a \in held[q] => account[a] # None
      BY DEF TreasuryInv, HeldInv
    <3>2. CASE account'[a] = account[a]
      BY <3>2
    <3>3. CASE account[a] = None /\ <<"number", a>> \in held[s]
      BY <2>1, <3>1, <3>3
    <3>4. CASE account[a] # None /\ a \in held[s] /\ account'[a] # None /\ account'[a] # account[a]
      BY <2>1, <3>4
    <3> QED
      BY <1>w, <3>2, <3>3, <3>4
  <2> QED
    BY <1>r, <1>t, <1>5, <2>1, <2>2, ReturnKeeps, OthersKeep
<1> QED
  BY <1>r, <1>1, <1>2, <1>3, <1>4, <1>5, ReturnKeeps DEF TreasuryInv

\* AccountUpdate writes an account that no call holds.
LEMMA UpdateKeeps ==
  ASSUME TreasuryInv, NEW a \in Bank, AccountUpdate(a)
  PROVE  TreasuryInv' /\ Stays(account[a], account'[a])
<1>1. /\ account[a] \in Account /\ None \notin Account /\ \A s \in Session : a \notin held[s]
      /\ account' = [account EXCEPT ![a] = [account[a] EXCEPT !.renamed = TRUE]]
      /\ UNCHANGED <<keys, book, held, req, todo, copy, work, now>>
  BY NoneAssumption DEF TreasuryInv, TypeOK, AccountUpdate
<1>2. Stays(account[a], [account[a] EXCEPT !.renamed = TRUE])
  BY <1>1 DEF Stays, Account
<1>3. /\ account' \in [Bank -> Account \cup {None}] /\ account'[a] # None
      /\ account'[a] = [account[a] EXCEPT !.renamed = TRUE]
      /\ \A c \in Bank : c # a => account'[c] = account[c]
  BY <1>1, <1>2 DEF TreasuryInv, TypeOK, Stays
<1>4. TypeOK'
  <2>1. requests' \in 0..MaxRequests
    BY BoundAssumption DEF TreasuryInv, TypeOK, AccountUpdate
  <2> QED
    BY <1>1, <1>3, <2>1 DEF TreasuryInv, TypeOK
<1>5. HeldInv'
  BY <1>1, <1>3 DEF TreasuryInv, HeldInv
<1>6. NumberInv'
  BY <1>1, <1>3 DEF TreasuryInv, NumberInv
<1>7. AssetsMirror'
  BY <1>1 DEF TreasuryInv, AssetsMirror
<1>t. TeamsStay(account, account')
  BY <1>1, <1>2, <1>3 DEF TeamsStay, Stays
<1>8. ASSUME NEW s \in Session PROVE CallInv(s)' /\ WorkMirrors(s)'
  BY <1>1, <1>3, <1>t, OthersKeep DEF TreasuryInv
<1> QED
  BY <1>2, <1>3, <1>4, <1>5, <1>6, <1>7, <1>8 DEF TreasuryInv

\* The clock, and steps that change nothing.
LEMMA IdleKeeps ==
  ASSUME TreasuryInv, Tick \/ UNCHANGED vars
  PROVE  TreasuryInv'
<1>1. now' \in 0..MaxTime
  BY BoundAssumption DEF TreasuryInv, TypeOK, Tick, vars
<1>2. UNCHANGED <<account, keys, book, held, req, todo, copy, work, requests>>
  BY DEF Tick, vars
<1>3. TypeOK'
  BY <1>1, <1>2 DEF TreasuryInv, TypeOK
<1>4. \A s \in Session : CallInv(s)' /\ WorkMirrors(s)'
  BY <1>2, OthersKeep DEF TreasuryInv, TeamsStay
<1>5. HeldInv' /\ NumberInv' /\ AssetsMirror'
  BY <1>2 DEF TreasuryInv, HeldInv, NumberInv, AssetsMirror
<1> QED
  BY <1>3, <1>4, <1>5 DEF TreasuryInv

\* Every step of a handler.
LEMMA StepKeeps ==
  ASSUME TreasuryInv, NEW s \in Session, Step(s)
  PROVE  TreasuryInv'
<1>w. work \in [Session -> Books]
  BY DEF TreasuryInv, TypeOK
<1>m. ASSUME NEW op, At(s, op), op # "post", req' = req, todo' = [todo EXCEPT ![s] = Tail(@)],
             work' = work
      PROVE  WorkMirrors(s)'
  <2>1. todo'[s] = Tail(todo[s]) /\ req'[s] = req[s] /\ work'[s] = work[s]
    BY <1>m DEF TreasuryInv, TypeOK
  <2> QED
    BY <1>m, <2>1, StepMirrors DEF TreasuryInv
<1>1. CASE LockRow(s)
  BY <1>1, LockRowKeeps
<1>2. CASE RefuseRow(s) \/ Duplicate(s) \/ Skip(s) \/ Refused(s) \/ PostFails(s)
  BY <1>2, GiveUpKeeps DEF RefuseRow, Duplicate, Skip, Refused, PostFails
<1>3. CASE MissingRow(s)
  BY <1>3, MissingRowKeeps
<1>4. CASE Find(s)
  <2>1. WorkMirrors(s)'
    BY <1>4, <1>m DEF Find, Advance
  <2> QED
    BY <1>4, <1>w, <2>1, KeyStepKeeps DEF Find, Advance
<1>5. CASE FindNothing(s)
  BY <1>5, FindNothingKeeps
<1>6. CASE Insert(s)
  <2>1. Target(s) \in held'[s] /\ Target(s) \notin keys
    BY <1>6 DEF TreasuryInv, TypeOK, Insert, Hold, Exists
  <2>2. WorkMirrors(s)'
    BY <1>6, <1>m DEF Insert, Advance
  <2> QED
    BY <1>6, <1>w, <2>1, <2>2, KeyStepKeeps DEF Insert, Advance
<1>7. CASE Save(s)
  <2>1. WorkMirrors(s)'
    BY <1>7, <1>m DEF Save
  <2> QED
    BY <1>7, <1>w, <2>1, KeyStepKeeps DEF Save
<1>8. CASE Upsert(s)
  <2>1. WorkMirrors(s)'
    BY <1>8, <1>m DEF Upsert, Advance
  <2> QED
    BY <1>8, <1>w, <2>1, KeyStepKeeps DEF Upsert, Advance
<1>9. CASE Seek(s)
  <2>1. WorkMirrors(s)'
    BY <1>9, <1>m DEF Seek, Advance
  <2> QED
    BY <1>9, <1>w, <2>1, KeyStepKeeps DEF Seek, Advance
<1>10. CASE Post(s)
  BY <1>10, PostKeeps
<1>11. CASE Commit(s)
  BY <1>11, CommitKeeps
<1> QED
  BY <1>1, <1>2, <1>3, <1>4, <1>5, <1>6, <1>7, <1>8, <1>9, <1>10, <1>11 DEF Step

LEMMA NextKeeps ==
  ASSUME TreasuryInv, [Next]_vars
  PROVE  TreasuryInv'
<1>1. ASSUME NEW s \in Session, NEW r \in Request, Begin(s, r) PROVE TreasuryInv'
  BY <1>1, BeginKeeps
<1>2. ASSUME NEW s \in Session, Step(s) PROVE TreasuryInv'
  BY <1>2, StepKeeps
<1>3. ASSUME NEW s \in Session, Fail(s) \/ BreakDeadlock(s) PROVE TreasuryInv'
  BY <1>3, GiveUpKeeps DEF Fail, BreakDeadlock
<1>4. ASSUME NEW a \in Bank, AccountUpdate(a) PROVE TreasuryInv'
  BY <1>4, UpdateKeeps
<1>5. CASE Tick \/ UNCHANGED vars
  BY <1>5, IdleKeeps
<1> QED
  BY <1>1, <1>2, <1>3, <1>4, <1>5 DEF Next

\* What a handler of bank accounts, transfers, adjustments, expenses or tags
\* relies on between two of its statements holds whoever runs beside it: the
\* rows it has locked are as it read them, the account a transfer goes to
\* exists, the number of a new account is its own.
THEOREM Invariance == Spec => []TreasuryInv
<1>1. Init => TreasuryInv
  BY InitInv
<1>2. TreasuryInv /\ [Next]_vars => TreasuryInv'
  BY NextKeeps
<1> QED
  BY <1>1, <1>2, PTL DEF Spec

\* Two teams' books agree on what one owes the other whatever transfers,
\* adjustments, expenses and initial balances are committed, in any order
\* (TransferCreate writes both books, AccountAdjustment both sides of one).
THEOREM Mirror == Spec => []AssetsMirror
<1>1. TreasuryInv => AssetsMirror
  BY DEF TreasuryInv
<1> QED
  BY <1>1, Invariance, PTL

\* What a step leaves of every account that exists.
LEMMA AccountsStay ==
  ASSUME TreasuryInv, [Next]_vars, NEW a \in Bank, account[a] # None
  PROVE  account'[a] = account[a] \/ Stays(account[a], account'[a])
<1>1. ASSUME NEW s \in Session, Commit(s)
      PROVE  account'[a] = account[a] \/ Stays(account[a], account'[a])
  BY <1>1, WrittenRows DEF Commit
<1>2. ASSUME NEW c \in Bank, AccountUpdate(c)
      PROVE  account'[a] = account[a] \/ Stays(account[a], account'[a])
  <2>1. CASE c = a
    BY <1>2, <2>1, UpdateKeeps
  <2>2. CASE c # a
    BY <1>2, <2>2 DEF AccountUpdate, TreasuryInv, TypeOK
  <2> QED
    BY <2>1, <2>2
<1>3. CASE UNCHANGED account
  BY <1>3
<1>4. ASSUME NEW s \in Session, Step(s), ~Commit(s) PROVE UNCHANGED account
  BY <1>4 DEF Step, LockRow, RefuseRow, MissingRow, Find, FindNothing, Insert, Save, Duplicate,
              Upsert, Seek, Skip, Refused, Post, PostFails, GiveUp, Advance
<1>5. ASSUME NEW s \in Session,
             (\E r \in Request : Begin(s, r)) \/ Fail(s) \/ BreakDeadlock(s)
      PROVE  UNCHANGED account
  BY <1>5 DEF Begin, Fail, BreakDeadlock, GiveUp
<1>6. CASE Tick \/ UNCHANGED vars
  BY <1>6, <1>3 DEF Tick, vars
<1> QED
  BY <1>1, <1>2, <1>3, <1>4, <1>5, <1>6 DEF Next

\* No call undoes what another has written to a bank account, though
\* AccountBalanceInit saves the whole row it has read: the row stays locked
\* from the read to the save.
THEOREM Kept == Spec => UpdatesStay
<1>1. TreasuryInv /\ [Next]_vars =>
        [\A a \in Bank : account[a] # None =>
           /\ account'[a] # None
           /\ account'[a].team = account[a].team
           /\ account[a].deleted => account'[a].deleted
           /\ account[a].renamed => account'[a].renamed
           /\ account[a].balance # 0 => account'[a].balance = account[a].balance]_vars
  BY AccountsStay, NoneAssumption DEF Stays
<1> QED
  BY <1>1, Invariance, PTL DEF Spec, UpdatesStay
------------------------------------------------------------------------------
\* The cash a team has in its own book.
Cash(b, t) == b[t]["cash"][t]

\* The entries that a call books.
Entries(r) == IF r.call = "adjust" THEN 1..Len(r.adjs)
              ELSE IF r.call = "transfer" THEN {1, 2}
              ELSE IF r.call \in {"init", "expense", "ads"} THEN {1} ELSE {}

\* What entry i of a call adds to the cash of a team, where acc are the bank
\* accounts.
OfCash(x, t) == x.book = t /\ x.owner = t /\ x.key = "cash"
Part(acc, r, i, t) ==
  CASE r.call = "transfer" ->
         IF i = 1 THEN (IF r.team = t THEN -(r.amount + r.fee) ELSE 0)
                       + (IF r.team = t /\ acc[r.to].team = t THEN r.amount ELSE 0)
         ELSE IF r.team # t /\ acc[r.to].team = t THEN r.amount ELSE 0
    [] r.call = "init"     -> IF acc[r.account].team = t THEN r.amount ELSE 0
    [] r.call = "expense"  -> IF r.team = t THEN -r.amount ELSE 0
    [] r.call = "ads"      -> IF r.team = t /\ r.source = "bank" THEN -r.amount ELSE 0
    [] r.call = "adjust"   -> IF OfCash(r.adjs[i], t) THEN r.adjs[i].amount ELSE 0
    [] OTHER               -> 0
Parts(acc, r, t) == [i \in Entries(r) |-> Part(acc, r, i, t)]

\* What a call, and what each of a set of calls adds.
Whole(acc, r, t) == Total(Parts(acc, r, t), Entries(r))
Wholes(acc, D, t) == [x \in D |-> Whole(acc, x.req, t)]

\* The entries a plan has yet to book, each of them once.
IsPost(plan, p) == p \in 1..Len(plan) /\ plan[p].op = "post"
Pending(plan) == {plan[p].key[2] : p \in {p \in 1..Len(plan) : IsPost(plan, p)}}
Once(plan) == \A p, q \in 1..Len(plan) :
                IsPost(plan, p) /\ IsPost(plan, q) /\ p # q => plan[p].key[2] # plan[q].key[2]

\* The bank accounts of a call that books exist.
Located(acc, r) == /\ r.call = "transfer" => acc[r.to] # None
                   /\ r.call = "init" => acc[r.account] # None

\* Book b has the entries of call r that its plan has no longer.
Fits(acc, r, plan, b) ==
  /\ Once(plan) /\ Pending(plan) \subseteq Entries(r)
  /\ Pending(plan) # Entries(r) => Located(acc, r)
  /\ \A t \in Team : Cash(b, t) = Total(Parts(acc, r, t), Entries(r) \ Pending(plan))

\* A call that has not begun has booked nothing.
Idle(b) == \A t \in Team : Cash(b, t) = 0
\* A call whose plan ends in an error commits nothing.
WorkInv(s) == IF req[s] = None THEN Idle(work[s])
              ELSE Doomed(todo[s]) \/ Fits(account, req[s], todo[s], work[s])

\* The calls D that are done are numbered, so that the next one is another, and
\* the cash of a team in book b is what they moved.
Counted(acc, D, b) ==
  /\ IsFiniteSet(D)
  /\ \A x \in D : x.id \in 1..Cardinality(D) /\ x.req \in Call /\ Located(acc, x.req)
  /\ \A t \in Team : Cash(b, t) = Total(Wholes(acc, D, t), D)

\* The inductive invariant.
CashInv == Counted(account, done, book) /\ \A s \in Session : WorkInv(s)
------------------------------------------------------------------------------
\* The cash that an adjustment moves is the sum of its entries' parts.
LEMMA AdjustMoves ==
  ASSUME NEW r \in Call, r.call = "adjust", NEW t \in Team
  PROVE  Moved(r, t) = Whole(account, r, t)
<1> DEFINE n == Len(r.adjs)
           g == Parts(account, r, t)
           I == {i \in 1..n : r.adjs[i].book = t /\ r.adjs[i].owner = t /\ r.adjs[i].key = "cash"}
           it == CHOOSE it : it = [s \in SUBSET I |-> IF s = {} THEN 0 ELSE
                      r.adjs[CHOOSE i \in s : TRUE].amount + it[s \ {CHOOSE i \in s : TRUE}]]
<1>1. r.adjs \in Seq(Adjustment) /\ n \in Nat /\ Entries(r) = 1..n
  <2>1. r.adjs \in Seq(Adjustment)
    BY CallFields
  <2> QED
    BY <2>1 DEF Entries
<1>2. \A i \in 1..n : g[i] = (IF i \in I THEN r.adjs[i].amount ELSE 0) /\ g[i] \in Int
  <2> SUFFICES ASSUME NEW i \in 1..n
               PROVE  g[i] = (IF i \in I THEN r.adjs[i].amount ELSE 0) /\ g[i] \in Int
    OBVIOUS
  <2>1. r.adjs[i] \in Adjustment
    BY <1>1
  <2>2. r.adjs[i].amount \in Int
    BY <2>1 DEF Adjustment
  <2>3. g[i] = Part(account, r, i, t)
    BY <1>1 DEF Parts
  <2>4. Part(account, r, i, t) = IF i \in I THEN r.adjs[i].amount ELSE 0
    BY DEF Part, OfCash
  <2> HIDE DEF g, I
  <2> QED
    BY <2>2, <2>3, <2>4
<1>3. IsFiniteSet(1..n) /\ I \in SUBSET (1..n) /\ IsFiniteSet(I)
  <2>1. IsFiniteSet(1..n)
    BY <1>1, FS_Interval
  <2>2. I \in SUBSET (1..n)
    OBVIOUS
  <2> HIDE DEF I, n
  <2> QED
    BY <2>1, <2>2, FS_Subset
<1>4. Moved(r, t) = it[I]
  BY DEF Moved, MapThenSumSet, MapThenFoldSet
<1>5. \A s \in SUBSET I : s # {} => r.adjs[Pick(s)].amount = g[Pick(s)]
  <2> HIDE DEF g
  <2> QED
    BY <1>2, PickIn
<1>6. PICK f : Sums(f, g, SUBSET I)
  BY <1>3, SumsExists
<1>7. f = [s \in SUBSET I |-> IF s = {} THEN 0 ELSE
              r.adjs[CHOOSE i \in s : TRUE].amount + f[s \ {CHOOSE i \in s : TRUE}]]
  <2> HIDE DEF g, I
  <2> QED
    BY <1>5, <1>6 DEF Sums, Pick
<1>8. it = [s \in SUBSET I |-> IF s = {} THEN 0 ELSE
              r.adjs[CHOOSE i \in s : TRUE].amount + it[s \ {CHOOSE i \in s : TRUE}]]
  <2> DEFINE Rec(v) == [s \in SUBSET I |-> IF s = {} THEN 0 ELSE
                          r.adjs[CHOOSE i \in s : TRUE].amount + v[s \ {CHOOSE i \in s : TRUE}]]
  <2>1. f = Rec(f) /\ it = CHOOSE v : v = Rec(v)
    BY <1>7, Zenon
  <2> HIDE DEF Rec, it
  <2>2. it = Rec(it)
    BY <2>1, Zenon
  <2> QED
    BY <2>2, Zenon DEF Rec
<1> HIDE DEF it, g, I
<1>9. Sums(it, g, SUBSET I)
  BY <1>5, <1>8 DEF Sums, Pick
<1>10. Total(g, I) = it[I]
  BY <1>3, <1>9, TotalIs
<1>11. Total(g, 1..n) = Total(g, I)
  BY <1>2, <1>3, TotalRestrict, ZenonT(30)
<1>12. Whole(account, r, t) = Total(g, 1..n)
  BY <1>1, Zenon DEF g, Whole
<1> QED
  BY <1>4, <1>10, <1>11, <1>12, Zenon

\* What a call moves, in whole and in parts, are integers.
LEMMA PartType ==
  ASSUME NEW acc, NEW r \in Call, NEW t \in Team
  PROVE  /\ IsFiniteSet(Entries(r))
         /\ \A i \in Entries(r) : /\ Part(acc, r, i, t) \in Int
                                  /\ Parts(acc, r, t)[i] = Part(acc, r, i, t)
         /\ Whole(acc, r, t) \in Int
<1>1. IsFiniteSet(Entries(r))
  <2>1. r.call = "adjust" => Len(r.adjs) \in Nat
    BY CallFields
  <2>2. IsFiniteSet({1, 2}) /\ IsFiniteSet({1}) /\ IsFiniteSet({})
    <3>1. {1, 2} = {1} \cup {2}
      OBVIOUS
    <3>2. IsFiniteSet({1}) /\ IsFiniteSet({})
      BY FS_Singleton, FS_EmptySet
    <3>3. IsFiniteSet({1} \cup {2})
      BY <3>2, FS_AddElement
    <3> QED
      BY <3>1, <3>2, <3>3
  <2>3. r.call = "adjust" => IsFiniteSet(1..Len(r.adjs))
    BY <2>1, FS_Interval
  <2> QED
    BY <2>2, <2>3 DEF Entries
<1>2. ASSUME NEW i \in Entries(r) PROVE Part(acc, r, i, t) \in Int
  <2>1. CASE r.call = "adjust"
    <3>1. r.adjs \in Seq(Adjustment)
      BY <2>1, CallFields
    <3>2. i \in 1..Len(r.adjs)
      BY <2>1 DEF Entries
    <3>3. r.adjs[i] \in Adjustment
      BY <3>1, <3>2
    <3>4. r.adjs[i].amount \in Int
      BY <3>3 DEF Adjustment
    <3> QED
      BY <2>1, <3>4 DEF Part
  <2>2. CASE r.call # "adjust"
    BY <2>2, CallFields DEF Part
  <2> QED
    BY <2>1, <2>2
<1>3. \A i \in Entries(r) : Parts(acc, r, t)[i] = Part(acc, r, i, t)
  BY DEF Parts
<1>4. Whole(acc, r, t) \in Int
  BY <1>1, <1>2, <1>3, TotalType DEF Whole
<1> QED
  BY <1>1, <1>2, <1>3, <1>4

\* Moved is that whole.
LEMMA MovedIs ==
  ASSUME NEW r \in Call, NEW t \in Team
  PROVE  Moved(r, t) = Whole(account, r, t)
<1>1. CASE r.call = "adjust"
  BY <1>1, AdjustMoves
<1>4. CASE r.call = "transfer"
  <2> DEFINE g == Parts(account, r, t)
  <2>1. /\ Entries(r) = {1, 2}
        /\ Part(account, r, 1, t) + Part(account, r, 2, t) = Moved(r, t)
    <3>1. r.amount \in Int /\ r.fee \in Int
      BY <1>4, CallFields
    <3>2. Entries(r) = {1, 2}
      BY <1>4 DEF Entries
    <3>3. Part(account, r, 1, t) = (IF r.team = t THEN -(r.amount + r.fee) ELSE 0)
                                   + (IF r.team = t /\ account[r.to].team = t THEN r.amount ELSE 0)
      BY <1>4 DEF Part
    <3>4. Part(account, r, 2, t) = IF r.team # t /\ account[r.to].team = t THEN r.amount ELSE 0
      BY <1>4 DEF Part
    <3>5. Moved(r, t) = (IF r.team = t THEN -(r.amount + r.fee) ELSE 0)
                        + (IF account[r.to].team = t THEN r.amount ELSE 0)
      BY <1>4 DEF Moved, TeamOf
    <3> QED
      BY <3>1, <3>2, <3>3, <3>4, <3>5
  <2>2. /\ g[1] = Part(account, r, 1, t) /\ g[2] = Part(account, r, 2, t)
        /\ g[1] \in Int /\ g[2] \in Int
    BY <2>1, PartType
  <2> HIDE DEF g
  <2>f. IsFiniteSet({1}) /\ 2 \notin {1}
    <3>1. IsFiniteSet({1})
      BY FS_Singleton
    <3>2. 2 \notin {1}
      OBVIOUS
    <3> QED
      BY <3>1, <3>2
  <2>3. Total(g, {1}) = g[1]
    <3>1. {1} \ {1} = {}
      OBVIOUS
    <3> QED
      BY <2>2, <2>f, <3>1, TotalOne
  <2>4. Total(g, {1} \cup {2}) = Total(g, {1}) + g[2]
    <3>1. \A x \in {1} \cup {2} : g[x] \in Int
      BY <2>2
    <3> QED
      BY <2>f, <3>1, TotalAdd
  <2>5. {1} \cup {2} = {1, 2}
    OBVIOUS
  <2>6. Whole(account, r, t) = Total(g, {1, 2})
    BY <2>1 DEF Whole, g
  <2> QED
    BY <2>1, <2>2, <2>3, <2>4, <2>5, <2>6
<1>2. CASE r.call \in {"init", "expense", "ads"}
  <2>1. Entries(r) = {1} /\ Part(account, r, 1, t) = Moved(r, t)
    BY <1>2 DEF Entries, Part, Moved, TeamOf
  <2>2. /\ IsFiniteSet({1}) /\ Parts(account, r, t)[1] = Moved(r, t)
        /\ Parts(account, r, t)[1] \in Int
    BY <2>1, PartType
  <2> QED
    BY <2>1, <2>2, TotalOne DEF Whole
<1>3. CASE r.call \in {"create", "delete", "setup", "tag"}
  <2>1. Moved(r, t) = 0 /\ Entries(r) = {}
    BY <1>3 DEF Moved, Entries
  <2> QED
    BY <2>1, TotalEmpty DEF Whole
<1> QED
  BY <1>1, <1>2, <1>3, <1>4, CallFields

\* The sum of CashIsWhatTheCallsMoved is a total.
LEMMA MovesSumIs ==
  ASSUME IsFiniteSet(done), \A x \in done : x.req \in Call, NEW t \in Team
  PROVE  MapThenSumSet(LAMBDA x : Moved(x.req, t), done) = Total(Wholes(account, done, t), done)
<1> DEFINE g == Wholes(account, done, t)
           it == CHOOSE it : it = [s \in SUBSET done |-> IF s = {} THEN 0 ELSE
                      Moved((CHOOSE x \in s : TRUE).req, t) + it[s \ {CHOOSE x \in s : TRUE}]]
<1>1. MapThenSumSet(LAMBDA x : Moved(x.req, t), done) = it[done]
  BY DEF MapThenSumSet, MapThenFoldSet
<1>2. ASSUME NEW s \in SUBSET done, s # {} PROVE Moved(Pick(s).req, t) = g[Pick(s)]
  <2>1. Pick(s) \in done
    BY <1>2, PickIn
  <2> QED
    BY <2>1, MovedIs DEF Wholes
<1>3. PICK f : Sums(f, g, SUBSET done)
  BY SumsExists
<1>4. f = [s \in SUBSET done |-> IF s = {} THEN 0 ELSE
             Moved((CHOOSE x \in s : TRUE).req, t) + f[s \ {CHOOSE x \in s : TRUE}]]
  <2> HIDE DEF g
  <2> QED
    BY <1>2, <1>3 DEF Sums, Pick
<1>5. it = [s \in SUBSET done |-> IF s = {} THEN 0 ELSE
             Moved((CHOOSE x \in s : TRUE).req, t) + it[s \ {CHOOSE x \in s : TRUE}]]
  <2> DEFINE Rec(v) == [s \in SUBSET done |-> IF s = {} THEN 0 ELSE
        Moved((CHOOSE x \in s : TRUE).req, t) + v[s \ {CHOOSE x \in s : TRUE}]]
  <2>1. f = Rec(f) /\ it = CHOOSE v : v = Rec(v)
    BY <1>4, Zenon
  <2> HIDE DEF Rec, it
  <2>2. it = Rec(it)
    BY <2>1, Zenon
  <2> QED
    BY <2>2, Zenon DEF Rec
<1> HIDE DEF it, g
<1>6. Sums(it, g, SUBSET done)
  BY <1>2, <1>5 DEF Sums, Pick
<1>7. Total(g, done) = it[done]
  BY <1>6, TotalIs
<1> QED
  BY <1>1, <1>7 DEF g
------------------------------------------------------------------------------
\* A plan that books one entry, its last step.
LEMMA LastPost ==
  ASSUME NEW plan, PostsLast(plan)
  PROVE  Once(plan) /\ Pending(plan) = {1}
<1> USE DEF PostsLast
<1> DEFINE n == Len(plan)
<1>1. plan[n].op = "post" /\ plan[n].key[2] = 1
  BY DEF PostOp, Op
<1>2. \A p \in 1..n : IsPost(plan, p) <=> p = n
  BY <1>1 DEF IsPost
<1>3. n \in 1..n
  OBVIOUS
<1> HIDE DEF n
<1> QED
  BY <1>1, <1>2, <1>3 DEF Once, Pending, n

\* One that books none.
LEMMA NoPosts ==
  ASSUME NEW plan, \A p \in 1..Len(plan) : plan[p].op # "post"
  PROVE  Once(plan) /\ Pending(plan) = {}
  BY DEF Once, Pending, IsPost

\* A plan for an adjustment books its entries, each of them once.
LEMMA AdjustPosts ==
  ASSUME NEW adjs \in Seq(Adjustment)
  PROVE  Once(AdjustPlan(adjs)) /\ Pending(AdjustPlan(adjs)) = 1..Len(adjs)
<1> DEFINE n == Len(adjs)
           m == 3 * n
           plan == AdjustPlan(adjs)
<1>1. n \in Nat /\ m \in Nat
  OBVIOUS
<1>2. Len(plan) = m
  BY <1>1 DEF AdjustPlan
<1>3. ASSUME NEW p \in 1..m
      PROVE  /\ plan[p].op = "post" <=> p % 3 = 0
             /\ p % 3 = 0 => plan[p].key[2] = (p + 2) \div 3
  <2>1. CASE p % 3 = 1
    BY <2>1 DEF AdjustPlan, Op
  <2>2. CASE p % 3 = 2
    BY <2>2 DEF AdjustPlan, Op
  <2>3. CASE p % 3 = 0
    BY <2>3 DEF AdjustPlan, PostOp, Op
  <2>4. p % 3 \in {0, 1, 2}
    BY <1>1
  <2> QED
    BY <2>1, <2>2, <2>3, <2>4
<1> HIDE DEF plan, m
<1>4. \A p \in 1..m : IsPost(plan, p) <=> p % 3 = 0
  BY <1>2, <1>3 DEF IsPost
<1>5. Once(plan)
  <2> SUFFICES ASSUME NEW p \in 1..m, NEW q \in 1..m, p % 3 = 0, q % 3 = 0, p # q
               PROVE  plan[p].key[2] # plan[q].key[2]
    BY <1>2, <1>4 DEF Once
  <2>1. (p + 2) \div 3 # (q + 2) \div 3
    BY <1>1
  <2> QED
    BY <1>3, <2>1
<1>6. ASSUME NEW i \in 1..n PROVE i \in Pending(plan)
  <2>1. 3 * i \in 1..m /\ (3 * i) % 3 = 0 /\ (3 * i + 2) \div 3 = i
    BY <1>1 DEF m
  <2>2. plan[3 * i].key[2] = i /\ IsPost(plan, 3 * i)
    BY <1>3, <1>4, <2>1
  <2> QED
    BY <1>2, <2>1, <2>2 DEF Pending
<1>7. ASSUME NEW p \in 1..m, p % 3 = 0 PROVE plan[p].key[2] \in 1..n
  <2>1. (p + 2) \div 3 \in 1..n
    BY <1>1, <1>7 DEF m
  <2> QED
    BY <1>3, <1>7, <2>1
<1>8. \A i \in Pending(plan) : i \in 1..n
  BY <1>2, <1>4, <1>7 DEF Pending
<1> QED
  BY <1>5, <1>6, <1>8 DEF plan

\* A call begins with a plan that books all its entries, each of them once, or
\* ends in an error.
LEMMA PlanPosts ==
  ASSUME NEW r \in Call, now \in Nat, requests \in Nat
  PROVE  Doomed(Plan(r)) \/ (Once(Plan(r)) /\ Pending(Plan(r)) = Entries(r))
<1>1. CASE r.call = "transfer"
  <2> DEFINE plan == <<Op("row", r.from), Op("row", r.to), Op("find", <<"label", "purpose">>),
                       PostOp(1), PostOp(2)>>
  <2>1. /\ Len(plan) = 5 /\ \A p \in 1..3 : plan[p].op # "post"
        /\ plan[4].op = "post" /\ plan[5].op = "post"
        /\ plan[4].key[2] = 1 /\ plan[5].key[2] = 2
    BY DEF Op, PostOp
  <2>2. Plan(r) = plan /\ Entries(r) = {1, 2}
    BY <1>1 DEF Plan, TransferPlan, Entries
  <2> HIDE DEF plan
  <2>3. \A p : IsPost(plan, p) <=> p \in {4, 5}
    BY <2>1 DEF IsPost
  <2>4. Once(plan)
    BY <2>1, <2>3 DEF Once
  <2>5. Pending(plan) = {1, 2}
    BY <2>1, <2>3 DEF Pending
  <2> QED
    BY <2>2, <2>4, <2>5
<1>2. CASE r.call = "init"
  <2> DEFINE plan == <<Op("row", r.account), Op("insert", <<"ref", "empty">>), PostOp(1)>>
  <2>1. /\ Len(plan) = 3 /\ plan[3] = PostOp(1)
        /\ \A p \in 1..2 : plan[p].op # "post"
    BY DEF Op
  <2>2. Plan(r) = plan /\ Entries(r) = {1}
    BY <1>2 DEF Plan, InitPlan, Entries
  <2> HIDE DEF plan
  <2>3. PostsLast(plan)
    BY <2>1 DEF PostsLast
  <2> QED
    BY <2>2, <2>3, LastPost
<1>3. CASE r.call = "expense"
  <2> DEFINE x == <<"expense", r.team, r.type, now>>
             plan == <<Op("insert", x), PostOp(1)>>
  <2>1. /\ Len(plan) = 2 /\ plan[2] = PostOp(1)
        /\ \A p \in 1..1 : plan[p].op # "post"
    BY DEF Op
  <2>2. Plan(r) = plan /\ Entries(r) = {1}
    BY <1>3 DEF Plan, ExpensePlan, Entries
  <2> HIDE DEF plan
  <2>3. PostsLast(plan)
    BY <2>1 DEF PostsLast
  <2> QED
    BY <2>2, <2>3, LastPost
<1>4. CASE r.call = "ads"
  <2>1. Plan(r) = AdsPlan(r) /\ Entries(r) = {1}
    BY <1>4 DEF Plan, Entries
  <2> QED
    BY <1>4, <2>1, AdsPlanSteps, LastPost
<1>5. CASE r.call = "adjust"
  BY <1>5, CallFields, AdjustPosts DEF Plan, Entries
<1>6. CASE r.call \in {"create", "delete", "setup", "tag"}
  <2>1. \A p \in 1..Len(Plan(r)) : Plan(r)[p].op # "post"
    <3>1. CASE r.call = "create"
      <4> DEFINE x == Op("insert", <<"number", r.account>>)
                 v == [i \in 1..Len(r.labels) |-> Op("find", <<"banklabel", r.labels[i]>>)]
      <4>1. Plan(r) = <<x>> \o v
        BY <3>1 DEF Plan, CreatePlan
      <4>2. x \in PlanStep /\ x.op # "post"
        BY <3>1, StepTypes, KeyTypes, CallFields DEF Op
      <4>3. NoPost(v)
        BY <3>1, CallFields, WordPlan
      <4> HIDE DEF x, v
      <4>4. NoPost(<<x>>)
        BY <4>2 DEF NoPost
      <4>5. NoPost(<<x>> \o v)
        BY <4>3, <4>4, NoPostCat
      <4> QED
        BY <4>1, <4>5 DEF NoPost
    <3>2. CASE r.call = "delete"
      BY <3>2, CallFields DEF Plan, DeletePlan, Op
    <3>3. CASE r.call = "setup"
      BY <3>3 DEF Plan, SetupPlan, Op
    <3>4. CASE r.call = "tag"
      BY <3>4, CallFields, WordPlan DEF Plan, TagPlan, NoPost
    <3> QED
      BY <1>6, <3>1, <3>2, <3>3, <3>4
  <2>2. Entries(r) = {}
    BY <1>6 DEF Entries
  <2> QED
    BY <2>1, <2>2, NoPosts
<1> QED
  BY <1>1, <1>2, <1>3, <1>4, <1>5, <1>6, CallFields

\* One step less: an entry that is booked now is left no longer.
LEMMA TailPosts ==
  ASSUME NEW plan \in Seq(PlanStep), plan # <<>>, Once(plan)
  PROVE  /\ Once(Tail(plan))
         /\ Head(plan).op # "post" => Pending(Tail(plan)) = Pending(plan)
         /\ Head(plan).op = "post" =>
              /\ Head(plan).key[2] \notin Pending(Tail(plan))
              /\ Pending(plan) = Pending(Tail(plan)) \cup {Head(plan).key[2]}
<1> DEFINE left == Tail(plan)
           m == Len(plan)
<1>1. /\ m \in Nat /\ m # 0 /\ Len(left) = m - 1 /\ Head(plan) = plan[1]
      /\ \A p \in 1..Len(left) : left[p] = plan[p + 1]
  OBVIOUS
<1> HIDE DEF left, m
<1>2. \A p \in 1..(m - 1) : p + 1 \in 1..m /\ (IsPost(left, p) <=> IsPost(plan, p + 1))
  BY <1>1 DEF IsPost, m
<1>3. Once(left)
  <2> SUFFICES ASSUME NEW p \in 1..(m - 1), NEW q \in 1..(m - 1),
                      IsPost(left, p), IsPost(left, q), p # q
               PROVE  left[p].key[2] # left[q].key[2]
    BY <1>1 DEF Once
  <2>1. p + 1 # q + 1
    BY <1>1
  <2>2. plan[p + 1].key[2] # plan[q + 1].key[2]
    BY <1>2, <2>1 DEF Once, m
  <2> QED
    BY <1>1, <2>2
<1>4. ASSUME NEW i \in Pending(left)
      PROVE  i \in Pending(plan) /\ (Head(plan).op = "post" => Head(plan).key[2] # i)
  <2>1. PICK p \in 1..(m - 1) : IsPost(left, p) /\ i = left[p].key[2]
    BY <1>1 DEF Pending
  <2>2. p + 1 \in 1..m /\ IsPost(plan, p + 1) /\ i = plan[p + 1].key[2] /\ p + 1 # 1
    BY <1>1, <1>2, <2>1
  <2>3. i \in Pending(plan)
    BY <2>2 DEF Pending, m
  <2>4. 1 \in 1..m
    BY <1>1
  <2>5. ASSUME Head(plan).op = "post" PROVE Head(plan).key[2] # i
    <3>1. IsPost(plan, 1)
      BY <1>1, <2>4, <2>5 DEF IsPost, m
    <3> QED
      BY <1>1, <2>2, <2>4, <3>1 DEF Once, m
  <2> QED
    BY <2>3, <2>5
<1>5. ASSUME NEW i \in Pending(plan)
      PROVE  i \in Pending(left) \/ (Head(plan).op = "post" /\ i = Head(plan).key[2])
  <2>1. PICK p \in 1..m : IsPost(plan, p) /\ i = plan[p].key[2]
    BY DEF Pending, m
  <2>2. CASE p = 1
    BY <1>1, <2>1, <2>2 DEF IsPost
  <2>3. CASE p # 1
    <3>1. p - 1 \in 1..(m - 1) /\ (p - 1) + 1 = p
      BY <1>1, <2>3
    <3>2. IsPost(left, p - 1) /\ i = left[p - 1].key[2]
      BY <1>1, <1>2, <2>1, <3>1
    <3> QED
      BY <1>1, <3>1, <3>2 DEF Pending
  <2> QED
    BY <2>2, <2>3
<1>6. Head(plan).op = "post" => Head(plan).key[2] \in Pending(plan)
  <2>1. 1 \in 1..m
    BY <1>1
  <2> QED
    BY <1>1, <2>1 DEF Pending, IsPost, m
<1> QED
  BY <1>3, <1>4, <1>5, <1>6 DEF left

\* A search that is followed by an insertion leaves the same entries.
LEMMA SamePosts ==
  ASSUME NEW plan \in Seq(PlanStep), plan # <<>>, Once(plan), Head(plan).op # "post",
         NEW step \in PlanStep, step.op # "post"
  PROVE  /\ Once(<<step>> \o Tail(plan))
         /\ Pending(<<step>> \o Tail(plan)) = Pending(plan)
<1> DEFINE left == <<step>> \o Tail(plan)
           m == Len(plan)
<1>1. m \in Nat /\ Head(plan) = plan[1] /\ Tail(plan) \in Seq(PlanStep) /\ Len(Tail(plan)) = m - 1
      /\ \A p \in 1..(m - 1) : Tail(plan)[p] = plan[p + 1]
  OBVIOUS
<1>2. /\ Len(left) = m /\ left[1] = step
      /\ \A p \in 1..(m - 1) : left[p + 1] = Tail(plan)[p]
  BY <1>1
<1> HIDE DEF left, m
<1>3. ASSUME NEW p \in 1..m, p # 1 PROVE left[p] = plan[p]
  <2>1. p - 1 \in 1..(m - 1) /\ (p - 1) + 1 = p
    BY <1>1, <1>3
  <2> QED
    BY <1>1, <1>2, <2>1
<1>4. \A p \in 1..m : IsPost(left, p) <=> IsPost(plan, p)
  BY <1>1, <1>2, <1>3 DEF IsPost, m
<1>5. \A p \in 1..m : IsPost(plan, p) => left[p] = plan[p]
  BY <1>1, <1>3 DEF IsPost
<1>6. Once(left)
  BY <1>2, <1>4, <1>5 DEF Once, m
<1>7. Pending(left) = Pending(plan)
  BY <1>2, <1>4, <1>5 DEF Pending, m
<1> QED
  BY <1>6, <1>7 DEF left

\* A plan that ends in an error does so until it is there.
LEMMA StillDoomed ==
  ASSUME NEW plan \in Seq(PlanStep), Doomed(plan), Head(plan).op # "refuse", NEW step \in PlanStep
  PROVE  Doomed(Tail(plan)) /\ Doomed(<<step>> \o Tail(plan))
<1> DEFINE m == Len(plan)
           left == Tail(plan)
           more == <<step>> \o left
<1>1. m \in Nat /\ m # 0 /\ Head(plan) = plan[1] /\ plan[m] = Refuse
  BY DEF Doomed
<1>2. m # 1
  BY <1>1 DEF Refuse, Op
<1>3. /\ left \in Seq(PlanStep) /\ Len(left) = m - 1
      /\ \A p \in 1..(m - 1) : left[p] = plan[p + 1]
  BY <1>1
<1> HIDE DEF m, left
<1>4. /\ Len(more) = m /\ \A p \in 1..(m - 1) : more[p + 1] = left[p]
  BY <1>1, <1>3
<1> HIDE DEF more
<1>5. m - 1 \in 1..(m - 1) /\ (m - 1) + 1 = m
  BY <1>1, <1>2
<1>6. left[m - 1] = Refuse /\ more[m] = Refuse
  BY <1>1, <1>3, <1>4, <1>5
<1>7. left # <<>> /\ more # <<>>
  <2>1. Len(left) # 0 /\ Len(more) # 0
    BY <1>1, <1>3, <1>4, <1>5
  <2> QED
    BY <2>1
<1> QED
  BY <1>3, <1>4, <1>6, <1>7 DEF Doomed, left, more

------------------------------------------------------------------------------
\* What one posting changes of the cash a team has in its own book.
CashChange(t, k, u, n, v) == IF v = t /\ v = u /\ k = "cash" THEN n ELSE 0

\* One posting changes the cash by that.
LEMMA AddCash ==
  ASSUME NEW b \in Books, NEW t \in Team, NEW k \in Key, NEW u \in Team, NEW n \in Int,
         NEW c, Posts(b, t, k, u, n, c)
  PROVE  /\ c \in Books
         /\ \A v \in Team : /\ Cash(b, v) \in Int
                            /\ Cash(c, v) = Cash(b, v) + CashChange(t, k, u, n, v)
<1>1. /\ c \in Books
      /\ \A v \in Team, l \in Key, w \in Team :
           c[v][l][w] = IF v = t /\ l = k /\ w = u THEN b[v][l][w] + n ELSE b[v][l][w]
  BY AddOne DEF Posts
<1>2. "cash" \in Key
  BY DEF Key
<1>3. \A v \in Team : Cash(b, v) \in Int
  BY <1>2 DEF Cash, Books
<1>4. \A v \in Team : Cash(c, v) = IF v = t /\ "cash" = k /\ v = u THEN Cash(b, v) + n ELSE Cash(b, v)
  BY <1>1, <1>2 DEF Cash
<1> QED
  BY <1>1, <1>3, <1>4 DEF CashChange

\* Two postings change it by both.
LEMMA AddsCash ==
  ASSUME NEW b \in Books, NEW t \in Team, NEW k \in Key, NEW u \in Team, NEW n \in Int,
         NEW l \in Key, NEW w \in Team, NEW m \in Int, NEW v \in Team
  PROVE  /\ Cash(b, v) \in Int
         /\ Cash(Add(Add(b, t, k, u, n), t, l, w, m), v) =
              Cash(b, v) + CashChange(t, k, u, n, v) + CashChange(t, l, w, m, v)
<1> DEFINE c == Add(b, t, k, u, n)
           d == Add(c, t, l, w, m)
<1>1. Posts(b, t, k, u, n, c) /\ Posts(c, t, l, w, m, d)
  BY DEF Posts
<1> HIDE DEF c, d
<1>2. /\ c \in Books /\ Cash(b, v) \in Int
      /\ Cash(c, v) = Cash(b, v) + CashChange(t, k, u, n, v)
  BY <1>1, AddCash
<1>3. Cash(d, v) = Cash(c, v) + CashChange(t, l, w, m, v)
  BY <1>1, <1>2, AddCash
<1> QED
  BY <1>2, <1>3 DEF c, d

\* An entry of a call adds its part to the cash of every team.
LEMMA BookedCash ==
  ASSUME NEW r \in Call, NEW b \in Books, NEW i \in Entries(r), NEW v \in Team,
         r.call = "transfer" => account[r.to] \in Account,
         r.call = "init" => account[r.account] \in Account
  PROVE  /\ Cash(b, v) \in Int
         /\ Cash(Booked(r, i, b), v) = Cash(b, v) + Part(account, r, i, v)
<1>k. Key = {"cash", "selling_receivable", "adj_asset", "bank_fee",
             "expense", "adj_expense", "ads_expense", "capital_start"}
  BY DEF Key
<1>1. CASE r.call = "transfer"
  <2> DEFINE t == r.team
             u == account[r.to].team
             n == r.amount
             m == -(n + r.fee)
             b1 == Add(b, t, "cash", t, m)
             b2 == Add(b1, t, "cash", u, n)
             b3 == Add(b2, t, "bank_fee", t, r.fee)
  <2>1. /\ t \in Team /\ u \in Team /\ n \in Int /\ r.fee \in Int /\ m \in Int /\ -n \in Int
        /\ i \in {1, 2}
    BY <1>1, CallFields DEF Account, Entries
  <2>8. "cash" \in Key /\ "bank_fee" \in Key
    BY <1>k
  <2>2. CASE i = 1
    <3>1. Booked(r, i, b) = b3
      BY <1>1, <2>2 DEF Booked, PayerBook
    <3>2. /\ Posts(b, t, "cash", t, m, b1) /\ Posts(b1, t, "cash", u, n, b2)
          /\ Posts(b2, t, "bank_fee", t, r.fee, b3)
      BY DEF Posts
    <3>3. Part(account, r, i, v) = (IF v = t THEN m ELSE 0) + (IF v = t /\ v = u THEN n ELSE 0)
      BY <1>1, <2>2 DEF Part
    <3> HIDE DEF b1, b2, b3, t, u, n, m
    <3>4. /\ b1 \in Books /\ Cash(b, v) \in Int
          /\ Cash(b1, v) = Cash(b, v) + CashChange(t, "cash", t, m, v)
      BY <2>1, <2>8, <3>2, AddCash
    <3>5. b2 \in Books /\ Cash(b2, v) = Cash(b1, v) + CashChange(t, "cash", u, n, v)
      BY <2>1, <2>8, <3>4, <3>2, AddCash
    <3>6. b3 \in Books /\ Cash(b3, v) = Cash(b2, v) + CashChange(t, "bank_fee", t, r.fee, v)
      BY <2>1, <2>8, <3>5, <3>2, AddCash
    <3> QED
      BY <2>1, <3>1, <3>3, <3>4, <3>5, <3>6 DEF CashChange
  <2>3. CASE i = 2
    <3>1. Booked(r, i, b) = Add(Add(b, u, "cash", t, -n), u, "cash", u, n)
      BY <1>1, <2>3 DEF Booked, ReceiverBook
    <3>3. Part(account, r, i, v) = IF v # t /\ v = u THEN n ELSE 0
      BY <1>1, <2>3 DEF Part
    <3> HIDE DEF t, u, n, m
    <3>4. /\ Cash(b, v) \in Int
          /\ Cash(Booked(r, i, b), v) = Cash(b, v) + CashChange(u, "cash", t, -n, v)
                                                   + CashChange(u, "cash", u, n, v)
      BY <2>1, <2>8, <3>1, AddsCash
    <3> QED
      BY <2>1, <3>3, <3>4 DEF CashChange
  <2> QED
    BY <2>1, <2>2, <2>3
<1>2. CASE r.call = "init"
  <2> DEFINE t == account[r.account].team
             n == r.amount
  <2>1. t \in Team /\ n \in Int /\ -n \in Int /\ Root \in Team
    BY <1>2, CallFields, TeamAssumption DEF Account
  <2>2. Booked(r, i, b) = Add(Add(b, t, "capital_start", Root, -n), t, "cash", t, n)
    BY <1>2 DEF Booked, InitBook
  <2>3. Part(account, r, i, v) = IF v = t THEN n ELSE 0
    BY <1>2 DEF Part
  <2>4. "cash" \in Key /\ "capital_start" \in Key
    BY <1>k
  <2> HIDE DEF t, n
  <2>5. /\ Cash(b, v) \in Int
        /\ Cash(Booked(r, i, b), v) = Cash(b, v) + CashChange(t, "capital_start", Root, -n, v)
                                                 + CashChange(t, "cash", t, n, v)
    BY <2>1, <2>2, <2>4, AddsCash
  <2> QED
    BY <2>1, <2>3, <2>5 DEF CashChange
<1>3. CASE r.call = "expense"
  <2> DEFINE t == r.team
             n == r.amount
  <2>1. t \in Team /\ n \in Int /\ -n \in Int
    BY <1>3, CallFields
  <2>2. Booked(r, i, b) = Add(Add(b, t, "cash", t, -n), t, "expense", t, n)
    BY <1>3 DEF Booked, ExpenseBook
  <2>3. Part(account, r, i, v) = IF v = t THEN -n ELSE 0
    BY <1>3 DEF Part
  <2>4. "cash" \in Key /\ "expense" \in Key
    BY <1>k
  <2> HIDE DEF t, n
  <2>5. /\ Cash(b, v) \in Int
        /\ Cash(Booked(r, i, b), v) = Cash(b, v) + CashChange(t, "cash", t, -n, v)
                                                 + CashChange(t, "expense", t, n, v)
    BY <2>1, <2>2, <2>4, AddsCash
  <2> QED
    BY <2>1, <2>3, <2>5 DEF CashChange
<1>4. CASE r.call = "ads"
  <2> DEFINE t == r.team
             n == r.amount
             k == IF r.source = "shop" THEN "selling_receivable" ELSE "cash"
  <2>1. t \in Team /\ n \in Int /\ -n \in Int /\ r.source \in {"shop", "bank"}
    BY <1>4, CallFields
  <2>2. Booked(r, i, b) = Add(Add(b, t, k, t, -n), t, "ads_expense", t, n)
    BY <1>4 DEF Booked, AdsBook
  <2>3. Part(account, r, i, v) = IF v = t /\ k = "cash" THEN -n ELSE 0
    BY <1>4, <2>1 DEF Part
  <2>4. k \in Key /\ "ads_expense" \in Key
    BY <1>k
  <2> HIDE DEF t, n, k
  <2>5. /\ Cash(b, v) \in Int
        /\ Cash(Booked(r, i, b), v) = Cash(b, v) + CashChange(t, k, t, -n, v)
                                                 + CashChange(t, "ads_expense", t, n, v)
    BY <2>1, <2>2, <2>4, AddsCash
  <2> QED
    BY <2>1, <2>3, <2>5 DEF CashChange
<1>5. CASE r.call = "adjust"
  <2> DEFINE x == r.adjs[i]
             t == x.book
             u == x.owner
             n == x.amount
             k == AdjKey[x.key]
  <2>1. x \in Adjustment
    <3>1. r.adjs \in Seq(Adjustment)
      BY <1>5, CallFields
    <3>2. i \in 1..Len(r.adjs)
      BY <1>5 DEF Entries
    <3> QED
      BY <3>1, <3>2
  <2>2. t \in Team /\ u \in Team /\ n \in Int /\ -n \in Int /\ x.key \in DOMAIN AdjKey
    BY <2>1 DEF Adjustment
  <2>3. k \in Key /\ k # "cash" /\ x.key \in Key
    BY <2>2, <1>k DEF AdjKey
  <2>4. Booked(r, i, b) = Add(Add(b, t, k, u, -n), t, x.key, u, n)
    BY <1>5 DEF Booked, AdjustBook
  <2>5. Part(account, r, i, v) = IF t = v /\ u = v /\ x.key = "cash" THEN n ELSE 0
    BY <1>5 DEF Part, OfCash
  <2> HIDE DEF t, u, n, k, x
  <2>6. /\ Cash(b, v) \in Int
        /\ Cash(Booked(r, i, b), v) = Cash(b, v) + CashChange(t, k, u, -n, v)
                                                 + CashChange(t, x.key, u, n, v)
    BY <2>2, <2>3, <2>4, AddsCash
  <2> QED
    BY <2>2, <2>3, <2>5, <2>6 DEF CashChange
<1>6. CASE r.call \in {"create", "delete", "setup", "tag"}
  BY <1>6 DEF Entries
<1> QED
  BY <1>1, <1>2, <1>3, <1>4, <1>5, <1>6, CallFields

\* The cash of two books added up.
LEMMA SumCash ==
  ASSUME NEW b \in Books, NEW w \in Books, NEW v \in Team
  PROVE  /\ Cash(b, v) \in Int /\ Cash(w, v) \in Int
         /\ Cash(Sum(b, w), v) = Cash(b, v) + Cash(w, v)
<1>1. "cash" \in Key
  BY DEF Key
<1> QED
  BY <1>1 DEF Cash, Sum, Books

\* Nothing booked is no cash.
LEMMA NothingCash == \A t \in Team : Cash(NothingBooked, t) = 0
<1>1. "cash" \in Key
  BY DEF Key
<1> QED
  BY <1>1 DEF Cash, NothingBooked

------------------------------------------------------------------------------
\* Every step leaves the teams of the accounts that exist.
LEMMA TeamsKept ==
  ASSUME TreasuryInv, [Next]_vars
  PROVE  TeamsStay(account, account')
  BY AccountsStay, NoneAssumption DEF TeamsStay, Stays

\* What a call whose accounts exist moves stays what it is.
LEMMA PartsStay ==
  ASSUME NEW acc, NEW later, TeamsStay(acc, later), NEW r \in Call, Located(acc, r), NEW t \in Team
  PROVE  /\ Located(later, r)
         /\ Parts(later, r, t) = Parts(acc, r, t)
         /\ Whole(later, r, t) = Whole(acc, r, t)
<1>1. /\ r.call = "transfer" => later[r.to] # None /\ later[r.to].team = acc[r.to].team
      /\ r.call = "init" => later[r.account] # None /\ later[r.account].team = acc[r.account].team
  BY CallFields DEF TeamsStay, Located
<1>2. \A i \in Entries(r) : Part(later, r, i, t) = Part(acc, r, i, t)
  BY <1>1 DEF Part
<1>3. Parts(later, r, t) = Parts(acc, r, t)
  BY <1>2 DEF Parts
<1> QED
  BY <1>1, <1>3 DEF Located, Whole

\* ... and so does what an open call has booked.
LEMMA FitsStay ==
  ASSUME NEW acc, NEW later, TeamsStay(acc, later), NEW r \in Call, NEW plan, NEW b,
         Fits(acc, r, plan, b)
  PROVE  Fits(later, r, plan, b)
<1>1. CASE Pending(plan) # Entries(r)
  <2>1. Located(acc, r)
    BY <1>1 DEF Fits
  <2>2. Located(later, r)
    BY <2>1, PartsStay, TeamAssumption
  <2>3. \A t \in Team : Parts(later, r, t) = Parts(acc, r, t)
    BY <2>1, PartsStay
  <2> QED
    BY <2>2, <2>3 DEF Fits
<1>2. CASE Pending(plan) = Entries(r)
  <2>1. Entries(r) \ Pending(plan) = {}
    BY <1>2
  <2> QED
    BY <1>2, <2>1, TotalEmpty DEF Fits
<1> QED
  BY <1>1, <1>2

\* ... and what the calls that are done have.
LEMMA CountedStay ==
  ASSUME NEW acc, NEW later, TeamsStay(acc, later), NEW D, NEW b, Counted(acc, D, b)
  PROVE  Counted(later, D, b)
<1>1. \A x \in D : Located(later, x.req)
  BY PartsStay, TeamAssumption DEF Counted
<1>2. ASSUME NEW t \in Team PROVE Wholes(later, D, t) = Wholes(acc, D, t)
  <2>1. \A x \in D : Whole(later, x.req, t) = Whole(acc, x.req, t)
    BY PartsStay DEF Counted
  <2> QED
    BY <2>1 DEF Wholes
<1> QED
  BY <1>1, <1>2 DEF Counted

\* One more call that is done, with its number.
LEMMA CountedMore ==
  ASSUME NEW acc, NEW D, NEW b \in Books, Counted(acc, D, b),
         NEW r \in Call, Located(acc, r), NEW w \in Books,
         \A t \in Team : Cash(w, t) = Whole(acc, r, t)
  PROVE  Counted(acc, D \cup {[id |-> Cardinality(D) + 1, req |-> r]}, Sum(b, w))
<1> DEFINE n == Cardinality(D)
           x == [id |-> n + 1, req |-> r]
           E == D \cup {x}
<1>1. n \in Nat /\ IsFiniteSet(D)
  BY FS_CardinalityType DEF Counted
<1>2. x.id = n + 1 /\ x.req = r /\ x \notin D
  <2>1. x.id \notin 1..n
    BY <1>1
  <2> QED
    BY <2>1 DEF Counted
<1> HIDE DEF x
<1>3. IsFiniteSet(E) /\ Cardinality(E) = n + 1
  BY <1>1, <1>2, FS_AddElement
<1>4. ASSUME NEW y \in E
      PROVE  y.id \in 1..(n + 1) /\ y.req \in Call /\ Located(acc, y.req)
  BY <1>1, <1>2, <1>4 DEF Counted
<1>5. ASSUME NEW t \in Team PROVE Cash(Sum(b, w), t) = Total(Wholes(acc, E, t), E)
  <2> DEFINE g == Wholes(acc, E, t)
  <2>1. \A y \in E : g[y] = Whole(acc, y.req, t) /\ g[y] \in Int
    BY <1>4, PartType DEF Wholes
  <2>2. \A y \in D : Wholes(acc, D, t)[y] = g[y]
    BY <2>1 DEF Wholes
  <2> HIDE DEF g, E
  <2>3. D \subseteq E /\ x \in E
    BY DEF E
  <2>4. Total(Wholes(acc, D, t), D) = Total(g, D)
    BY <1>1, <2>2, TotalSame
  <2>5. Total(g, E) = Total(g, D) + g[x]
    BY <1>1, <1>2, <2>1, TotalAdd DEF E
  <2>6. Cash(b, t) = Total(g, D) /\ Cash(w, t) = g[x]
    BY <1>2, <2>1, <2>3, <2>4 DEF Counted
  <2>7. Cash(Sum(b, w), t) = Cash(b, t) + Cash(w, t)
    BY SumCash
  <2> QED
    BY <2>5, <2>6, <2>7 DEF g
<1> QED
  BY <1>3, <1>4, <1>5 DEF Counted, x

------------------------------------------------------------------------------
\* At first nothing is booked and no call is done.
LEMMA InitCash == Init => CashInv
<1> SUFFICES ASSUME Init PROVE CashInv
  OBVIOUS
<1>1. done = {} /\ book = NothingBooked
      /\ \A s \in Session : req[s] = None /\ work[s] = NothingBooked
  BY DEF Init
<1>2. IsFiniteSet({}) /\ \A g : Total(g, {}) = 0
  BY FS_EmptySet, TotalEmpty
<1>3. Counted(account, done, book)
  BY <1>1, <1>2, NothingCash DEF Counted
<1>4. \A s \in Session : WorkInv(s)
  BY <1>1, NothingCash DEF WorkInv, Idle
<1> QED
  BY <1>3, <1>4 DEF CashInv

\* A call that does nothing has booked what it had.
LEMMA WorkStays ==
  ASSUME TeamsStay(account, account'), NEW q \in Session, req[q] \in Call \cup {None}, WorkInv(q),
         req'[q] = req[q], todo'[q] = todo[q], work'[q] = work[q]
  PROVE  WorkInv(q)'
<1>1. CASE req[q] = None
  BY <1>1 DEF WorkInv
<1>2. CASE req[q] # None
  <2>1. (Doomed(todo[q]) \/ Fits(account, req[q], todo[q], work[q])) /\ req[q] \in Call
    BY <1>2 DEF WorkInv
  <2>2. Doomed(todo[q]) \/ Fits(account', req[q], todo[q], work[q])
    BY <2>1, FitsStay
  <2> QED
    BY <1>2, <2>2 DEF WorkInv
<1> QED
  BY <1>1, <1>2

\* A step of one call that commits nothing.
LEMMA OneWorks ==
  ASSUME TreasuryInv, CashInv, [Next]_vars, NEW s \in Session, done' = done, book' = book,
         \A q \in Session \ {s} : req'[q] = req[q] /\ todo'[q] = todo[q] /\ work'[q] = work[q],
         WorkInv(s)'
  PROVE  CashInv'
<1>1. TeamsStay(account, account')
  BY TeamsKept
<1>2. \A q \in Session : req[q] \in Call \cup {None} /\ WorkInv(q)
  BY DEF TreasuryInv, TypeOK, CashInv
<1>3. \A q \in Session : WorkInv(q)'
  BY <1>1, <1>2, WorkStays
<1>4. Counted(account', done, book)
  BY <1>1, CountedStay DEF CashInv
<1> QED
  BY <1>3, <1>4 DEF CashInv

\* A call begins: it has booked nothing, and all its entries are left.
LEMMA BeginCash ==
  ASSUME TreasuryInv, CashInv, [Next]_vars, NEW s \in Session, NEW r \in Request, Begin(s, r)
  PROVE  CashInv'
<1>1. r \in Call /\ r # None /\ now \in Nat /\ requests \in Nat
  BY RequestAssumption, NoneAssumption, BoundAssumption DEF TreasuryInv, TypeOK
<1>2. /\ req'[s] = r /\ todo'[s] = Plan(r) /\ work' = work /\ req[s] = None
      /\ done' = done /\ book' = book
      /\ \A q \in Session \ {s} : req'[q] = req[q] /\ todo'[q] = todo[q] /\ work'[q] = work[q]
  BY DEF TreasuryInv, TypeOK, Begin
<1>3. Idle(work[s])
  BY <1>2 DEF CashInv, WorkInv
<1>4. Doomed(Plan(r)) \/ Fits(account', r, Plan(r), work[s])
  <2> SUFFICES ASSUME ~Doomed(Plan(r)) PROVE Fits(account', r, Plan(r), work[s])
    OBVIOUS
  <2>1. Once(Plan(r)) /\ Pending(Plan(r)) = Entries(r)
    BY <1>1, PlanPosts
  <2>2. Entries(r) \ Pending(Plan(r)) = {}
    BY <2>1
  <2> QED
    BY <1>3, <2>1, <2>2, TotalEmpty DEF Fits, Idle
<1>5. WorkInv(s)'
  BY <1>1, <1>2, <1>4 DEF WorkInv
<1> QED
  BY <1>2, <1>5, OneWorks

\* A call returns: what it had booked is forgotten.
LEMMA GiveUpCash ==
  ASSUME TreasuryInv, CashInv, [Next]_vars, NEW s \in Session, GiveUp(s)
  PROVE  CashInv'
<1>1. /\ req'[s] = None /\ work'[s] = NothingBooked /\ done' = done /\ book' = book
      /\ \A q \in Session \ {s} : req'[q] = req[q] /\ todo'[q] = todo[q] /\ work'[q] = work[q]
  BY DEF TreasuryInv, TypeOK, GiveUp, Return
<1>2. WorkInv(s)'
  BY <1>1, NothingCash DEF WorkInv, Idle
<1> QED
  BY <1>1, <1>2, OneWorks

\* A step that books nothing.
LEMMA AdvanceCash ==
  ASSUME TreasuryInv, CashInv, [Next]_vars, NEW s \in Session, NEW op, At(s, op),
         op \notin {"post", "refuse"},
         req' = req, todo' = [todo EXCEPT ![s] = Tail(@)], work' = work,
         account' = account, done' = done, book' = book
  PROVE  CashInv'
<1>1. /\ req[s] # None /\ todo[s] \in Seq(PlanStep) /\ todo[s] # <<>>
      /\ Head(todo[s]).op \notin {"post", "refuse"}
      /\ todo'[s] = Tail(todo[s]) /\ \A q \in Session \ {s} : todo'[q] = todo[q]
  BY DEF TreasuryInv, TypeOK, At
<1>4. Doomed(Tail(todo[s])) \/ Fits(account, req[s], Tail(todo[s]), work[s])
  <2>1. Doomed(todo[s]) \/ Fits(account, req[s], todo[s], work[s])
    BY <1>1 DEF CashInv, WorkInv
  <2>2. ASSUME Fits(account, req[s], todo[s], work[s])
        PROVE  Fits(account, req[s], Tail(todo[s]), work[s])
    <3>1. Once(Tail(todo[s])) /\ Pending(Tail(todo[s])) = Pending(todo[s])
      BY <1>1, <2>2, TailPosts DEF Fits
    <3> QED
      BY <2>2, <3>1 DEF Fits
  <2>3. ASSUME Doomed(todo[s]) PROVE Doomed(Tail(todo[s]))
    BY <1>1, <2>3, StillDoomed, StepTypes
  <2> QED
    BY <2>1, <2>2, <2>3
<1>5. WorkInv(s)'
  BY <1>1, <1>4 DEF WorkInv
<1> QED
  BY <1>1, <1>5, OneWorks

\* A search that is followed by an insertion books nothing.
LEMMA FindNothingCash ==
  ASSUME TreasuryInv, CashInv, [Next]_vars, NEW s \in Session, FindNothing(s)
  PROVE  CashInv'
<1> DEFINE op == IF req[s].call = "setup" THEN "save" ELSE "insert"
           step == Op(op, Target(s))
           left == <<step>> \o Tail(todo[s])
<1>1. /\ req[s] # None /\ todo[s] \in Seq(PlanStep) /\ todo[s] # <<>>
      /\ Head(todo[s]).op = "find" /\ Target(s) \in Resource
  BY TargetType DEF TreasuryInv, TypeOK, FindNothing, At
<1>2. step \in PlanStep /\ step.op # "post"
  BY <1>1, StepTypes DEF Op
<1>3. /\ todo'[s] = left /\ \A q \in Session \ {s} : todo'[q] = todo[q]
      /\ req' = req /\ work' = work /\ account' = account /\ done' = done /\ book' = book
  BY DEF TreasuryInv, TypeOK, FindNothing
<1> HIDE DEF step
<1>4. Doomed(todo[s]) \/ Fits(account, req[s], todo[s], work[s])
  BY <1>1 DEF CashInv, WorkInv
<1>5. ASSUME Fits(account, req[s], todo[s], work[s])
      PROVE  Once(left) /\ Pending(left) = Pending(todo[s])
  BY <1>1, <1>2, <1>5, SamePosts DEF Fits
<1>8. ASSUME Doomed(todo[s]) PROVE Doomed(left)
  BY <1>1, <1>2, <1>8, StillDoomed
<1> HIDE DEF left
<1>6. Doomed(left) \/ Fits(account, req[s], left, work[s])
  BY <1>4, <1>5, <1>8 DEF Fits
<1>7. WorkInv(s)'
  BY <1>1, <1>3, <1>6 DEF WorkInv
<1> QED
  BY <1>3, <1>7, OneWorks

\* The accounts of a call that is past its rows exist.
LEMMA PastLocated ==
  ASSUME TreasuryInv, NEW s \in Session, req[s] # None, todo[s] = <<>> \/ Head(todo[s]).op # "row"
  PROVE  /\ Located(account, req[s])
         /\ req[s].call = "transfer" => account[req[s].to] \in Account
         /\ req[s].call = "init" => account[req[s].account] \in Account
<1>1. TypeOK /\ CallInv(s)
  BY DEF TreasuryInv
<1>2. /\ req[s] \in Call
      /\ req[s].call = "transfer" => account[req[s].to] # None
      /\ req[s].call = "init" => account[req[s].account] # None
  BY <1>1, Past
<1>3. \A a \in Bank : account[a] # None => account[a] \in Account
  BY <1>1 DEF TypeOK
<1>4. /\ req[s].call = "transfer" => req[s].to \in Bank
      /\ req[s].call = "init" => req[s].account \in Bank
  BY <1>2, CallFields
<1> QED
  BY <1>2, <1>3, <1>4 DEF Located

\* An entry that is booked adds its part.
LEMMA PostCash ==
  ASSUME TreasuryInv, CashInv, [Next]_vars, NEW s \in Session, Post(s)
  PROVE  CashInv'
<1> DEFINE r == req[s]
           i == Target(s)[2]
           b == work[s]
           c == Booked(r, i, b)
           old == Pending(todo[s])
           new == Pending(Tail(todo[s]))
<1>1. /\ r # None /\ r \in Call /\ b \in Books /\ todo[s] \in Seq(PlanStep) /\ todo[s] # <<>>
      /\ Head(todo[s]).op = "post" /\ Head(todo[s]).key[2] = i
  BY DEF TreasuryInv, TypeOK, Post, At, Target
<1>2. /\ todo'[s] = Tail(todo[s]) /\ work'[s] = c
      /\ \A q \in Session \ {s} : todo'[q] = todo[q] /\ work'[q] = work[q]
      /\ req' = req /\ account' = account /\ done' = done /\ book' = book
  BY DEF TreasuryInv, TypeOK, Post, Advance
<1>d. CASE Doomed(todo[s])
  <2>1. Doomed(Tail(todo[s]))
    BY <1>1, <1>d, StillDoomed, StepTypes
  <2>2. WorkInv(s)'
    BY <1>1, <1>2, <2>1 DEF WorkInv
  <2> QED
    BY <1>2, <2>2, OneWorks
<1> SUFFICES ASSUME ~Doomed(todo[s]) PROVE CashInv'
  BY <1>d
<1>3. Fits(account, r, todo[s], b)
  BY <1>1 DEF CashInv, WorkInv
<1>4. Once(Tail(todo[s])) /\ i \notin new /\ old = new \cup {i}
  BY <1>1, <1>3, TailPosts DEF Fits
<1>5. /\ Located(account, r)
      /\ r.call = "transfer" => account[r.to] \in Account
      /\ r.call = "init" => account[r.account] \in Account
  BY <1>1, PastLocated
<1>6. old \subseteq Entries(r)
  BY <1>3 DEF Fits
<1> HIDE DEF r, i, b, old, new
<1>7. i \in Entries(r)
  BY <1>4, <1>6
<1>8. ASSUME NEW t \in Team
      PROVE  Cash(c, t) = Total(Parts(account, r, t), Entries(r) \ new)
  <2> DEFINE g == Parts(account, r, t)
             A == Entries(r) \ old
             B == Entries(r) \ new
  <2>1. /\ IsFiniteSet(Entries(r))
        /\ \A j \in Entries(r) : g[j] = Part(account, r, j, t) /\ g[j] \in Int
    BY <1>1, PartType
  <2>2. A \subseteq Entries(r) /\ B = A \cup {i} /\ i \notin A
    BY <1>4, <1>7
  <2>3. Cash(b, t) = Total(g, A)
    BY <1>3 DEF Fits, old
  <2>4. Cash(c, t) = Cash(b, t) + Part(account, r, i, t)
    BY <1>1, <1>5, <1>7, BookedCash
  <2> HIDE DEF g, A, B, c
  <2>5. IsFiniteSet(A) /\ \A j \in A \cup {i} : g[j] \in Int
    BY <1>7, <2>1, <2>2, FS_Subset
  <2>6. Total(g, B) = Total(g, A) + g[i]
    BY <2>2, <2>5, TotalAdd
  <2>7. g[i] = Part(account, r, i, t)
    BY <1>7, <2>1
  <2>8. Cash(c, t) = Total(g, B)
    BY <2>3, <2>4, <2>6, <2>7
  <2> QED
    BY <2>8 DEF g, B
<1> HIDE DEF c
<1>9. Fits(account, r, Tail(todo[s]), c)
  BY <1>4, <1>5, <1>6, <1>8 DEF Fits, new
<1>10. WorkInv(s)'
  BY <1>1, <1>2, <1>9 DEF WorkInv, r
<1> QED
  BY <1>2, <1>10, OneWorks

\* A call that commits has booked all its entries.
LEMMA CommitCash ==
  ASSUME TreasuryInv, CashInv, [Next]_vars, NEW s \in Session, Commit(s)
  PROVE  CashInv'
<1> DEFINE r == req[s]
           x == [id |-> Cardinality(done) + 1, req |-> r]
<1>1. /\ r # None /\ r \in Call /\ work[s] \in Books /\ book \in Books /\ todo[s] = <<>>
  BY DEF TreasuryInv, TypeOK, Commit
<1>2. /\ req'[s] = None /\ work'[s] = NothingBooked
      /\ done' = done \cup {x} /\ book' = Sum(book, work[s])
      /\ \A q \in Session \ {s} : req'[q] = req[q] /\ todo'[q] = todo[q] /\ work'[q] = work[q]
  BY DEF TreasuryInv, TypeOK, Commit, Return
<1>3. Fits(account, r, <<>>, work[s])
  BY <1>1 DEF CashInv, WorkInv, Doomed
<1>4. Pending(<<>>) = {}
  BY DEF Pending
<1>5. \A t \in Team : Cash(work[s], t) = Whole(account, r, t)
  <2>1. Entries(r) \ {} = Entries(r)
    OBVIOUS
  <2> QED
    BY <1>3, <1>4, <2>1 DEF Fits, Whole
<1>6. Located(account, r)
  BY <1>1, PastLocated
<1>7. Counted(account, done, book)
  BY DEF CashInv
<1> HIDE DEF r
<1>8. Counted(account, done \cup {x}, Sum(book, work[s]))
  BY <1>1, <1>5, <1>6, <1>7, CountedMore
<1>9. TeamsStay(account, account')
  BY TeamsKept
<1> HIDE DEF x
<1>10. Counted(account', done', book')
  BY <1>2, <1>8, <1>9, CountedStay
<1>11. ASSUME NEW q \in Session PROVE WorkInv(q)'
  <2>1. CASE q = s
    BY <1>2, <2>1, NothingCash DEF WorkInv, Idle
  <2>2. CASE q # s
    <3>1. req[q] \in Call \cup {None} /\ WorkInv(q)
      BY DEF TreasuryInv, TypeOK, CashInv
    <3> QED
      BY <1>2, <1>9, <2>2, <3>1, WorkStays
  <2> QED
    BY <2>1, <2>2
<1> QED
  BY <1>10, <1>11 DEF CashInv

\* A change of a name, the clock, and steps that change nothing.
LEMMA IdleCash ==
  ASSUME TreasuryInv, CashInv, [Next]_vars, UNCHANGED <<done, book, req, todo, work>>
  PROVE  CashInv'
<1>1. TeamsStay(account, account')
  BY TeamsKept
<1>2. \A q \in Session : req[q] \in Call \cup {None} /\ WorkInv(q)
  BY DEF TreasuryInv, TypeOK, CashInv
<1>3. \A q \in Session : WorkInv(q)'
  BY <1>1, <1>2, WorkStays
<1>4. Counted(account', done, book)
  BY <1>1, CountedStay DEF CashInv
<1> QED
  BY <1>3, <1>4 DEF CashInv

\* Every step.
LEMMA NextCash ==
  ASSUME TreasuryInv, CashInv, [Next]_vars
  PROVE  CashInv'
<1>1. ASSUME NEW s \in Session, NEW r \in Request, Begin(s, r) PROVE CashInv'
  BY <1>1, BeginCash
<1>2. ASSUME NEW s \in Session,
             \/ RefuseRow(s) \/ Duplicate(s) \/ Skip(s) \/ Refused(s) \/ PostFails(s) \/ Fail(s)
             \/ BreakDeadlock(s) \/ (MissingRow(s) /\ GiveUp(s))
      PROVE  CashInv'
  <2>1. GiveUp(s)
    BY <1>2 DEF RefuseRow, Duplicate, Skip, Refused, PostFails, Fail, BreakDeadlock
  <2> QED
    BY <2>1, GiveUpCash
<1>3. ASSUME NEW s \in Session,
             \/ LockRow(s) \/ Find(s) \/ Insert(s) \/ Save(s) \/ Upsert(s) \/ Seek(s)
             \/ (MissingRow(s) /\ ~GiveUp(s))
      PROVE  CashInv'
  <2>1. /\ \E op : At(s, op) /\ op \notin {"post", "refuse"}
        /\ req' = req /\ todo' = [todo EXCEPT ![s] = Tail(@)] /\ work' = work
        /\ account' = account /\ done' = done /\ book' = book
    BY <1>3 DEF LockRow, Find, Insert, Save, Upsert, Seek, MissingRow, Advance
  <2> QED
    BY <2>1, AdvanceCash
<1>4. ASSUME NEW s \in Session, FindNothing(s) PROVE CashInv'
  BY <1>4, FindNothingCash
<1>5. ASSUME NEW s \in Session, Post(s) PROVE CashInv'
  BY <1>5, PostCash
<1>6. ASSUME NEW s \in Session, Commit(s) PROVE CashInv'
  BY <1>6, CommitCash
<1>7. ASSUME NEW a \in Bank, AccountUpdate(a) PROVE CashInv'
  BY <1>7, IdleCash DEF AccountUpdate
<1>8. CASE Tick \/ UNCHANGED vars
  BY <1>8, IdleCash DEF Tick, vars
<1>9. ASSUME NEW s \in Session, Step(s) PROVE CashInv'
  BY <1>2, <1>3, <1>4, <1>5, <1>6, <1>9 DEF Step
<1> QED
  BY <1>1, <1>2, <1>7, <1>8, <1>9 DEF Next

\* The cash a team has in its own book is what the calls that are done have
\* moved: a transfer takes the amount and the fee from one team and gives the
\* amount to the other, an adjustment of many entries books each of them once,
\* and a call that is refused, repeated or given up in the middle has moved
\* nothing, whatever calls run beside it (account/, adjustment/, expense/).
THEOREM CashMoved == Spec => []CashIsWhatTheCallsMoved
<1>1. CashInv => CashIsWhatTheCallsMoved
  <2> SUFFICES ASSUME CashInv, NEW t \in Team
               PROVE  book[t]["cash"][t] = MapThenSumSet(LAMBDA x : Moved(x.req, t), done)
    BY DEF CashIsWhatTheCallsMoved
  <2>1. /\ IsFiniteSet(done) /\ \A x \in done : x.req \in Call
        /\ Cash(book, t) = Total(Wholes(account, done, t), done)
    BY DEF CashInv, Counted
  <2> QED
    BY <2>1, MovesSumIs DEF Cash
<1>2. TreasuryInv /\ CashInv /\ [Next]_vars => CashInv'
  BY NextCash
<1> QED
  BY <1>1, <1>2, InitCash, Invariance, PTL DEF Spec
------------------------------------------------------------------------------
\* The ref of advertising that a shop has paid, and a plan that inserts it.
OfShop(r) == r.call = "ads" /\ r.source = "shop"
ShopRef(r) == <<"ads", r.shop, r.ref>>
Inserts(plan, k) == \E i \in 1..Len(plan) : plan[i] = Op("insert", k)

\* Such a call ends in an error, holds its ref, or has yet to insert it.
RefOf(s) ==
  req[s] # None /\ OfShop(req[s]) =>
    \/ todo[s] = <<Refuse>>
    \/ ShopRef(req[s]) \in held[s]
    \/ Inserts(todo[s], ShopRef(req[s]))

\* What an open call has inserted is not committed.
NewKeys(s) == (held[s] \ Bank) \cap keys = {}

\* The inductive invariant.
OnceInv == /\ \A s \in Session : RefOf(s) /\ NewKeys(s)
           /\ \A x \in done : OfShop(x.req) => ShopRef(x.req) \in keys
           /\ AdsAreBookedOnce

LEMMA InitOnce == Init => OnceInv
  BY DEF Init, OnceInv, RefOf, NewKeys, AdsAreBookedOnce

\* A call that does nothing.
LEMMA OthersOnce ==
  ASSUME NEW q \in Session, RefOf(q), req'[q] = req[q], todo'[q] = todo[q], held'[q] = held[q]
  PROVE  RefOf(q)'
  BY DEF RefOf

\* The plan of such a call inserts its ref, or ends in an error at once.
LEMMA PlanInserts ==
  ASSUME NEW r \in Call, OfShop(r), requests \in Nat
  PROVE  Plan(r) = <<Refuse>> \/ Inserts(Plan(r), ShopRef(r))
<1> DEFINE x == AdsRef(r)
           h == <<Op("seek", x)>> \o TagPlan(r)
           v == AdsTail(Marketplace[r.shop])
           z == Op("insert", x)
<1>1. r.call = "ads" /\ r.source = "shop" /\ Plan(r) = AdsPlan(r) /\ x = ShopRef(r)
  BY DEF OfShop, Plan, AdsRef, ShopRef
<1>2. /\ r.shop \in Shop /\ r.ref \in Nat /\ r.tags \in Seq(Word)
  BY <1>1, CallFields
<1>3. CASE r.ref = 0
  BY <1>1, <1>3 DEF AdsPlan
<1>4. CASE r.ref # 0
  <2>1. Plan(r) = (h \o <<z>>) \o v
    BY <1>1, <1>4 DEF AdsPlan, AdsTail
  <2>2. x \in Resource
    BY <1>1, <1>2, KeyTypes DEF ShopRef
  <2>3. NoPost(TagPlan(r))
    BY <1>2, WordPlan DEF TagPlan
  <2>4. Op("seek", x) \in PlanStep /\ z \in PlanStep
    BY <2>2, StepTypes
  <2>5. h \in Seq(PlanStep)
    <3> DEFINE y == Op("seek", x)
    <3> HIDE DEF y
    <3> QED
      BY <2>3, <2>4 DEF NoPost, y
  <2>6. v \in Seq(PlanStep)
    <3> DEFINE m == Marketplace[r.shop]
    <3>1. m \in Word \cup {None}
      BY <1>2, ShopAssumption
    <3>2. CASE m = None
      BY <3>2, StepTypes DEF AdsTail
    <3>3. CASE m # None
      <4>1. <<"label", m>> \in Resource /\ <<"tag", m>> \in Resource
        BY <3>1, <3>3, KeyTypes
      <4>2. /\ Op("find", <<"label", m>>) \in PlanStep /\ Op("find", <<"tag", m>>) \in PlanStep
            /\ PostOp(1) \in PlanStep
        BY <4>1, StepTypes
      <4> QED
        BY <3>3, <4>2 DEF AdsTail
    <3> QED
      BY <3>2, <3>3
  <2>7. z = Op("insert", ShopRef(r))
    BY <1>1
  <2> HIDE DEF h, v, z, x
  <2> DEFINE u == h \o <<z>>
             n == Len(h) + 1
  <2>8. u \in Seq(PlanStep) /\ Len(u) = n /\ u[n] = z /\ n \in Nat /\ n \in 1..n
    BY <2>4, <2>5
  <2> HIDE DEF u, n
  <2>9. /\ u \o v \in Seq(PlanStep) /\ Len(u \o v) = n + Len(v) /\ Len(v) \in Nat
        /\ (u \o v)[n] = u[n]
    BY <2>6, <2>8
  <2>10. n \in 1..Len(u \o v)
    BY <2>8, <2>9
  <2>11. Plan(r) = u \o v
    BY <2>1 DEF u
  <2> QED
    BY <2>7, <2>8, <2>9, <2>10, <2>11 DEF Inserts
<1> QED
  BY <1>3, <1>4

\* What is left of a plan, when its first step is done, inserts what it did,
\* but for what that step inserts.
LEMMA StillInserts ==
  ASSUME NEW plan \in Seq(PlanStep), plan # <<>>, NEW k, Inserts(plan, k),
         Head(plan) # Op("insert", k), NEW step \in PlanStep
  PROVE  Inserts(Tail(plan), k) /\ Inserts(<<step>> \o Tail(plan), k)
<1> DEFINE m == Len(plan)
           left == Tail(plan)
           more == <<step>> \o left
<1>1. PICK i \in 1..m : plan[i] = Op("insert", k)
  BY DEF Inserts
<1>2. m \in Nat /\ m # 0 /\ Head(plan) = plan[1] /\ i # 1
  BY <1>1
<1>3. /\ left \in Seq(PlanStep) /\ Len(left) = m - 1
      /\ \A p \in 1..(m - 1) : left[p] = plan[p + 1]
  BY <1>2
<1> HIDE DEF m, left
<1>4. Len(more) = m /\ \A p \in 1..(m - 1) : more[p + 1] = left[p]
  BY <1>2, <1>3
<1> HIDE DEF more
<1>5. i - 1 \in 1..(m - 1) /\ (i - 1) + 1 = i
  BY <1>1, <1>2
<1>6. left[i - 1] = Op("insert", k) /\ more[i] = Op("insert", k)
  BY <1>1, <1>3, <1>4, <1>5
<1> QED
  BY <1>1, <1>3, <1>4, <1>5, <1>6 DEF Inserts, left, more

\* A call returns.
LEMMA GiveUpOnce ==
  ASSUME TreasuryInv, OnceInv, NEW s \in Session, GiveUp(s)
  PROVE  OnceInv'
<1>1. /\ req'[s] = None /\ held'[s] = {} /\ keys' = keys /\ done' = done
      /\ \A q \in Session \ {s} : req'[q] = req[q] /\ todo'[q] = todo[q] /\ held'[q] = held[q]
  BY DEF TreasuryInv, TypeOK, GiveUp, Return
<1>2. ASSUME NEW q \in Session PROVE RefOf(q)' /\ NewKeys(q)'
  <2>1. CASE q = s
    BY <1>1, <2>1 DEF RefOf, NewKeys
  <2>2. CASE q # s
    BY <1>1, <2>2, OthersOnce DEF OnceInv, NewKeys
  <2> QED
    BY <2>1, <2>2
<1> QED
  BY <1>1, <1>2 DEF OnceInv, AdsAreBookedOnce

\* A step that takes a row, or looks up or inserts a key, or books.
LEMMA AdvanceOnce ==
  ASSUME TreasuryInv, OnceInv, NEW s \in Session, NEW op, At(s, op), op # "refuse",
         req' = req, todo' = [todo EXCEPT ![s] = Tail(@)], keys' = keys, done' = done,
         \/ held' = held
         \/ Hold(s, Target(s)) /\ (Target(s) \in Bank \/ Target(s) \notin keys),
         op = "insert" => Target(s) \in held'[s]
  PROVE  OnceInv'
<1>1. /\ req[s] # None /\ req[s] \in Call /\ todo[s] \in Seq(PlanStep) /\ todo[s] # <<>>
      /\ Head(todo[s]).op = op
      /\ todo'[s] = Tail(todo[s]) /\ held[s] \subseteq held'[s]
      /\ \A q \in Session \ {s} : todo'[q] = todo[q] /\ held'[q] = held[q]
  BY DEF TreasuryInv, TypeOK, At, Hold
<1>2. RefOf(s)'
  <2> SUFFICES ASSUME OfShop(req[s])
               PROVE  ShopRef(req[s]) \in held'[s] \/ Inserts(todo'[s], ShopRef(req[s]))
    BY DEF RefOf
  <2> DEFINE k == ShopRef(req[s])
  <2>1. todo[s] # <<Refuse>>
    <3> DEFINE c == Refuse
    <3>1. c.op = "refuse"
      BY DEF Refuse, Op
    <3> HIDE DEF c
    <3>2. Head(<<c>>) = c
      OBVIOUS
    <3> QED
      BY <1>1, <3>1, <3>2 DEF c
  <2>2. k \in held[s] \/ Inserts(todo[s], k)
    BY <1>1, <2>1 DEF OnceInv, RefOf
  <2>3. CASE Head(todo[s]) = Op("insert", k)
    <3>1. op = "insert" /\ Target(s) = k
      BY <1>1, <2>3 DEF Op, Target
    <3> QED
      BY <3>1
  <2>4. CASE Head(todo[s]) # Op("insert", k) /\ Inserts(todo[s], k)
    <3> HIDE DEF k
    <3> QED
      BY <1>1, <2>4, StillInserts, StepTypes DEF k
  <2> QED
    BY <1>1, <2>2, <2>3, <2>4
<1>3. NewKeys(s)'
  BY DEF OnceInv, NewKeys, TreasuryInv, TypeOK, Hold
<1>4. ASSUME NEW q \in Session, q # s PROVE RefOf(q)' /\ NewKeys(q)'
  BY <1>1, <1>4, OthersOnce DEF OnceInv, NewKeys
<1> QED
  BY <1>2, <1>3, <1>4 DEF OnceInv, AdsAreBookedOnce

\* A key that is not found is inserted next.
LEMMA FindNothingOnce ==
  ASSUME TreasuryInv, OnceInv, NEW s \in Session, FindNothing(s)
  PROVE  OnceInv'
<1> DEFINE op == IF req[s].call = "setup" THEN "save" ELSE "insert"
           step == Op(op, Target(s))
           left == <<step>> \o Tail(todo[s])
<1>1. /\ req[s] # None /\ req[s] \in Call /\ todo[s] \in Seq(PlanStep) /\ todo[s] # <<>>
      /\ Head(todo[s]).op = "find" /\ Target(s) \in Resource
  BY TargetType DEF TreasuryInv, TypeOK, FindNothing, At
<1>2. step \in PlanStep
  BY <1>1, StepTypes
<1>3. /\ todo'[s] = left /\ \A q \in Session \ {s} : todo'[q] = todo[q]
      /\ req' = req /\ held' = held /\ keys' = keys /\ done' = done
  BY DEF TreasuryInv, TypeOK, FindNothing
<1> HIDE DEF step
<1>4. RefOf(s)'
  <2> SUFFICES ASSUME OfShop(req[s])
               PROVE  ShopRef(req[s]) \in held[s] \/ Inserts(left, ShopRef(req[s]))
    BY <1>3 DEF RefOf
  <2> DEFINE k == ShopRef(req[s])
  <2>1. todo[s] # <<Refuse>>
    <3> DEFINE c == Refuse
    <3>1. c.op = "refuse"
      BY DEF Refuse, Op
    <3> HIDE DEF c
    <3>2. Head(<<c>>) = c
      OBVIOUS
    <3> QED
      BY <1>1, <3>1, <3>2 DEF c
  <2>2. k \in held[s] \/ Inserts(todo[s], k)
    BY <1>1, <2>1 DEF OnceInv, RefOf
  <2>3. Head(todo[s]) # Op("insert", k)
    BY <1>1 DEF Op
  <2>4. ASSUME Inserts(todo[s], k) PROVE Inserts(left, k)
    <3> HIDE DEF k
    <3> QED
      BY <1>1, <1>2, <2>3, <2>4, StillInserts
  <2> QED
    BY <2>2, <2>4
<1> HIDE DEF left
<1>5. NewKeys(s)'
  BY <1>3 DEF OnceInv, NewKeys
<1>6. ASSUME NEW q \in Session, q # s PROVE RefOf(q)' /\ NewKeys(q)'
  BY <1>3, <1>6, OthersOnce DEF OnceInv, NewKeys
<1> QED
  BY <1>3, <1>4, <1>5, <1>6 DEF OnceInv, AdsAreBookedOnce

\* Setup commits a key that nobody holds.
LEMMA SaveOnce ==
  ASSUME TreasuryInv, OnceInv, NEW s \in Session, Save(s)
  PROVE  OnceInv'
<1> DEFINE k == Target(s)
<1>1. /\ req[s] # None /\ req[s] \in Call /\ todo[s] \in Seq(PlanStep) /\ todo[s] # <<>>
      /\ Head(todo[s]).op = "save" /\ keys' = keys \cup {k}
      /\ todo'[s] = Tail(todo[s]) /\ \A q \in Session \ {s} : todo'[q] = todo[q]
      /\ req' = req /\ held' = held /\ done' = done
      /\ \A q \in Session : k \notin held[q]
  BY DEF TreasuryInv, TypeOK, Save, At, Free, Exists
<1> HIDE DEF k
<1>2. RefOf(s)'
  <2> SUFFICES ASSUME OfShop(req[s])
               PROVE  ShopRef(req[s]) \in held[s] \/ Inserts(Tail(todo[s]), ShopRef(req[s]))
    BY <1>1 DEF RefOf
  <2> DEFINE x == ShopRef(req[s])
  <2>1. todo[s] # <<Refuse>>
    <3> DEFINE c == Refuse
    <3>1. c.op = "refuse"
      BY DEF Refuse, Op
    <3> HIDE DEF c
    <3>2. Head(<<c>>) = c
      OBVIOUS
    <3> QED
      BY <1>1, <3>1, <3>2 DEF c
  <2>2. x \in held[s] \/ Inserts(todo[s], x)
    BY <1>1, <2>1 DEF OnceInv, RefOf
  <2>3. Head(todo[s]) # Op("insert", x)
    BY <1>1 DEF Op
  <2> HIDE DEF x
  <2>4. Inserts(todo[s], x) => Inserts(Tail(todo[s]), x)
    BY <1>1, <2>3, StillInserts, StepTypes
  <2> QED
    BY <2>2, <2>4 DEF x
<1>3. ASSUME NEW q \in Session PROVE NewKeys(q)'
  BY <1>1 DEF OnceInv, NewKeys
<1>4. ASSUME NEW q \in Session, q # s PROVE RefOf(q)'
  BY <1>1, <1>4, OthersOnce DEF OnceInv
<1> QED
  BY <1>1, <1>2, <1>3, <1>4 DEF OnceInv, AdsAreBookedOnce

\* A call that commits has held its ref, so that no call before it had it.
LEMMA CommitOnce ==
  ASSUME TreasuryInv, OnceInv, NEW s \in Session, Commit(s)
  PROVE  OnceInv'
<1> DEFINE r == req[s]
           n == [id |-> Cardinality(done) + 1, req |-> r]
<1>1. /\ r # None /\ r \in Call /\ todo[s] = <<>>
      /\ req'[s] = None /\ held'[s] = {} /\ keys' = keys \cup (held[s] \ Bank)
      /\ done' = done \cup {n} /\ n.req = r
      /\ \A q \in Session \ {s} : req'[q] = req[q] /\ todo'[q] = todo[q] /\ held'[q] = held[q]
  BY DEF TreasuryInv, TypeOK, Commit, Return
<1>2. OfShop(r) => /\ ShopRef(r) \in held[s] /\ ShopRef(r) \notin Bank
                   /\ ShopRef(r) \notin keys /\ ShopRef(r) \in keys'
  <2> SUFFICES ASSUME OfShop(r)
               PROVE  /\ ShopRef(r) \in held[s] /\ ShopRef(r) \notin Bank
                      /\ ShopRef(r) \notin keys /\ ShopRef(r) \in keys'
    OBVIOUS
  <2>1. ~Inserts(todo[s], ShopRef(r)) /\ todo[s] # <<Refuse>>
    BY <1>1 DEF Inserts
  <2>2. ShopRef(r) \in held[s]
    BY <1>1, <2>1 DEF OnceInv, RefOf
  <2>3. ShopRef(r) \notin Bank
    <3>1. ShopRef(r) \in Resource
      BY <1>1, KeyTypes, CallFields DEF OfShop, ShopRef
    <3> QED
      BY <3>1, BankAssumption
  <2>4. ShopRef(r) \notin keys
    BY <2>2, <2>3 DEF OnceInv, NewKeys
  <2> QED
    BY <1>1, <2>2, <2>3, <2>4
<1> HIDE DEF n, r
<1>3. ASSUME NEW x \in done' PROVE OfShop(x.req) => ShopRef(x.req) \in keys'
  BY <1>1, <1>2 DEF OnceInv
<1>4. ASSUME NEW x \in done', NEW y \in done', OfShop(x.req), OfShop(y.req),
             x.req.shop = y.req.shop, x.req.ref = y.req.ref
      PROVE  x = y
  <2>1. ShopRef(x.req) = ShopRef(y.req)
    BY <1>4 DEF ShopRef
  <2>2. CASE x \in done /\ y \in done
    BY <1>4, <2>2 DEF OnceInv, AdsAreBookedOnce, PaidByShop, OfShop
  <2>3. CASE x = n /\ y # n
    BY <1>1, <1>2, <1>4, <2>1, <2>3 DEF OnceInv
  <2>4. CASE y = n /\ x # n
    BY <1>1, <1>2, <1>4, <2>1, <2>4 DEF OnceInv
  <2> QED
    BY <1>1, <2>2, <2>3, <2>4
<1>5. AdsAreBookedOnce'
  BY <1>4 DEF AdsAreBookedOnce, PaidByShop, OfShop
<1>6. ASSUME NEW q \in Session PROVE RefOf(q)' /\ NewKeys(q)'
  <2>1. CASE q = s
    BY <1>1, <2>1 DEF RefOf, NewKeys
  <2>2. CASE q # s
    <3>1. RefOf(q)'
      BY <1>1, <2>2, OthersOnce DEF OnceInv
    <3>2. held[s] \cap held[q] = {}
      BY <2>2 DEF TreasuryInv, HeldInv
    <3>3. NewKeys(q)'
      BY <1>1, <2>2, <3>2 DEF OnceInv, NewKeys
    <3> QED
      BY <3>1, <3>3
  <2> QED
    BY <2>1, <2>2
<1> QED
  BY <1>3, <1>5, <1>6 DEF OnceInv

\* Every step.
LEMMA NextOnce ==
  ASSUME TreasuryInv, OnceInv, [Next]_vars
  PROVE  OnceInv'
<1>1. ASSUME NEW s \in Session, NEW r \in Request, Begin(s, r) PROVE OnceInv'
  <2>1. r \in Call /\ r # None /\ requests \in Nat
    BY RequestAssumption, NoneAssumption, BoundAssumption DEF TreasuryInv, TypeOK
  <2>2. /\ req'[s] = r /\ todo'[s] = Plan(r) /\ held' = held /\ keys' = keys /\ done' = done
        /\ \A q \in Session \ {s} : req'[q] = req[q] /\ todo'[q] = todo[q]
    BY <1>1 DEF TreasuryInv, TypeOK, Begin
  <2>3. RefOf(s)'
    BY <2>1, <2>2, PlanInserts DEF RefOf
  <2>4. \A q \in Session \ {s} : RefOf(q)'
    BY <2>2, OthersOnce DEF OnceInv
  <2> QED
    BY <2>2, <2>3, <2>4 DEF OnceInv, NewKeys, AdsAreBookedOnce
<1>2. ASSUME NEW s \in Session,
             \/ RefuseRow(s) \/ Duplicate(s) \/ Skip(s) \/ Refused(s) \/ PostFails(s) \/ Fail(s)
             \/ BreakDeadlock(s) \/ (MissingRow(s) /\ GiveUp(s))
      PROVE  OnceInv'
  <2>1. GiveUp(s)
    BY <1>2 DEF RefuseRow, Duplicate, Skip, Refused, PostFails, Fail, BreakDeadlock
  <2> QED
    BY <2>1, GiveUpOnce
<1>3. ASSUME NEW s \in Session,
             \/ LockRow(s) \/ Find(s) \/ Insert(s) \/ Upsert(s) \/ Seek(s) \/ Post(s)
             \/ (MissingRow(s) /\ ~GiveUp(s))
      PROVE  OnceInv'
  <2>1. PICK op : /\ At(s, op) /\ op # "refuse"
                  /\ req' = req /\ todo' = [todo EXCEPT ![s] = Tail(@)]
                  /\ keys' = keys /\ done' = done
                  /\ \/ held' = held
                     \/ Hold(s, Target(s)) /\ (op = "row" \/ Target(s) \notin keys)
                  /\ op = "insert" => Hold(s, Target(s))
    BY <1>3 DEF LockRow, Find, Insert, Upsert, Seek, Post, MissingRow, Advance, Exists
  <2>2. op = "row" => Target(s) \in Bank
    BY <2>1, TargetType DEF TreasuryInv
  <2>3. op = "insert" => Target(s) \in held'[s]
    BY <2>1 DEF Hold, TreasuryInv, TypeOK
  <2> QED
    BY <2>1, <2>2, <2>3, AdvanceOnce
<1>4. ASSUME NEW s \in Session, FindNothing(s) PROVE OnceInv'
  BY <1>4, FindNothingOnce
<1>5. ASSUME NEW s \in Session, Save(s) PROVE OnceInv'
  BY <1>5, SaveOnce
<1>6. ASSUME NEW s \in Session, Commit(s) PROVE OnceInv'
  BY <1>6, CommitOnce
<1>7. ASSUME UNCHANGED <<keys, done, held, req, todo>> PROVE OnceInv'
  BY <1>7, OthersOnce DEF OnceInv, NewKeys, AdsAreBookedOnce
<1>8. ASSUME NEW a \in Bank, AccountUpdate(a) PROVE OnceInv'
  BY <1>7, <1>8 DEF AccountUpdate
<1>9. CASE Tick \/ UNCHANGED vars
  BY <1>7, <1>9 DEF Tick, vars
<1>10. ASSUME NEW s \in Session, Step(s) PROVE OnceInv'
  BY <1>2, <1>3, <1>4, <1>5, <1>6, <1>10 DEF Step
<1> QED
  BY <1>1, <1>2, <1>8, <1>9, <1>10 DEF Next

\* The cost of advertising that a shop has paid is booked once for its ref,
\* though a call looks the ref up long before it inserts it, and two may find
\* nothing (AdsExCreate, ads_ex_create.go): the unique index of the refs
\* refuses the second when it inserts.
THEOREM AdsOnce == Spec => []AdsAreBookedOnce
<1>1. OnceInv => AdsAreBookedOnce
  BY DEF OnceInv
<1> QED
  BY <1>1, InitOnce, NextOnce, Invariance, PTL DEF Spec
==============================================================================
