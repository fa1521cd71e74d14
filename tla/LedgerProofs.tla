----------------------------- MODULE LedgerProofs -----------------------------
(***************************************************************************)
(* What the books of a handler add to an account, as sums that can be      *)
(* reasoned about: the moves of a book are tallied per account, the books  *)
(* per team, and both add up over sequences put together.  The lemmas are  *)
(* about values only, and so hold of the ledger before and after a step.   *)
(***************************************************************************)
EXTENDS Ledger, Sums, SequencesExt, SequenceTheorems

\* The keys of the accounts the handlers use.
Name == {"cash", "shopeepay", "payable", "receivable", "warehouse_cost", "service_revenue",
         "stock_pending", "stock_ready", "stock_broken", "stock_lost", "stock_cost",
         "stock_transfer", "stock_cod_fee", "stock_lost_expense", "stock_broken_expense",
         "stock_to_borrow_cost", "stock_borrow_cost", "borrow_stock_revenue",
         "sales_revenue", "selling_receivable", "selling_adj_receivable",
         "selling_other_expense", "return_expense", "other_revenue", "fake_order_expense"}

Move == [key : Name, owner : Party, amount : Int]
TeamBook == [team : Party, moves : Seq(Move)]

\* What moves add to the account of key and owner.
Weights(m, k, u) == [i \in DOMAIN m |-> IF m[i].key = k /\ m[i].owner = u
                                       THEN m[i].amount ELSE 0]
Tally(m, k, u) == Total(Weights(m, k, u), DOMAIN m)

\* What books add to the account team t keeps for u under key k.
Shares(bs, t, k, u) == [j \in DOMAIN bs |-> IF bs[j].team = t
                                          THEN Tally(bs[j].moves, k, u) ELSE 0]
On(bs, t, k, u) == Total(Shares(bs, t, k, u), DOMAIN bs)

\* The positions of a sequence are a finite set.
LEMMA SeqDomain ==
  ASSUME NEW S, NEW s \in Seq(S)
  PROVE  DOMAIN s = 1..Len(s) /\ Len(s) \in Nat /\ IsFiniteSet(DOMAIN s)
<1>1. DOMAIN s = 1..Len(s) /\ Len(s) \in Nat
  OBVIOUS
<1> QED
  BY <1>1, FS_Interval

\* A tally is an integer.
LEMMA TallyType ==
  ASSUME NEW m \in Seq(Move), NEW k, NEW u
  PROVE  /\ Tally(m, k, u) \in Int
         /\ \A i \in DOMAIN m : Weights(m, k, u)[i] \in Int
<1>1. \A i \in DOMAIN m : m[i] \in Move
  OBVIOUS
<1>2. \A i \in DOMAIN m : Weights(m, k, u)[i] \in Int
  BY <1>1 DEF Move, Weights
<1>3. IsFiniteSet(DOMAIN m)
  BY SeqDomain
<1> QED
  BY <1>2, <1>3, TotalType DEF Tally

\* No moves add nothing.
LEMMA TallyEmpty == \A k, u : <<>> \in Seq(Move) /\ Tally(<<>>, k, u) = 0
<1> SUFFICES ASSUME NEW k, NEW u PROVE <<>> \in Seq(Move) /\ Tally(<<>>, k, u) = 0
  OBVIOUS
<1>1. DOMAIN <<>> = {}
  OBVIOUS
<1> QED
  BY <1>1, TotalEmpty DEF Tally

\* To adds its amount to its account.
LEMMA TallyTo ==
  ASSUME NEW key \in Name, NEW owner \in Party, NEW amount \in Int, NEW k, NEW u
  PROVE  /\ To(key, owner, amount) \in Seq(Move)
         /\ Tally(To(key, owner, amount), k, u) =
              IF k = key /\ u = owner THEN amount ELSE 0
<1> DEFINE m == To(key, owner, amount)
           w == Weights(m, k, u)
<1>1. m \in Seq(Move) /\ DOMAIN m = {1} /\ m[1] = [key |-> key, owner |-> owner, amount |-> amount]
  BY DEF To, Move
<1>2. w[1] = (IF k = key /\ u = owner THEN amount ELSE 0) /\ w[1] \in Int
  BY <1>1 DEF Weights
<1>3. Total(w, {1}) = w[1]
  <2> HIDE DEF w
  <2>1. IsFiniteSet({1})
    BY FS_Singleton
  <2> QED
    BY <1>2, <2>1, TotalOne
<1> QED
  BY <1>1, <1>2, <1>3 DEF Tally

\* From takes its amount off its account.
LEMMA TallyFrom ==
  ASSUME NEW key \in Name, NEW owner \in Party, NEW amount \in Int, NEW k, NEW u
  PROVE  /\ From(key, owner, amount) \in Seq(Move)
         /\ Tally(From(key, owner, amount), k, u) =
              IF k = key /\ u = owner THEN -amount ELSE 0
<1>1. -amount \in Int /\ From(key, owner, amount) = To(key, owner, -amount)
  BY DEF From
<1>2. ASSUME NEW n \in Int
      PROVE  /\ To(key, owner, n) \in Seq(Move)
             /\ Tally(To(key, owner, n), k, u) = IF k = key /\ u = owner THEN n ELSE 0
  BY TallyTo
<1> QED
  BY <1>1, <1>2

\* Two sequences put together.
Cat(m, n) == m \o n

\* Moves put together add what each of them adds.
LEMMA TallyCat ==
  ASSUME NEW m \in Seq(Move), NEW n \in Seq(Move), NEW k, NEW u
  PROVE  /\ Cat(m, n) \in Seq(Move) /\ Tally(m, k, u) \in Int /\ Tally(n, k, u) \in Int
         /\ Tally(Cat(m, n), k, u) = Tally(m, k, u) + Tally(n, k, u)
<1> DEFINE c == m \o n
           f == Weights(m, k, u)
           g == Weights(n, k, u)
           h == Weights(c, k, u)
           a == Len(m)
           b == Len(n)
<1>1. /\ c \in Seq(Move) /\ Len(c) = a + b
      /\ \A i \in 1..a + b : c[i] = IF i <= a THEN m[i] ELSE n[i - a]
  BY ConcatProperties
<1>2. /\ DOMAIN m = 1..a /\ DOMAIN n = 1..b /\ DOMAIN c = 1..(a + b)
      /\ a \in Nat /\ b \in Nat
  BY <1>1
<1>3. ASSUME NEW i \in 1..a PROVE f[i] \in Int /\ h[i] = f[i]
  <2>1. i \in 1..(a + b) /\ c[i] = m[i]
    BY <1>1, <1>2
  <2>2. f[i] \in Int
    BY <1>2, TallyType
  <2>3. h[i] = IF c[i].key = k /\ c[i].owner = u THEN c[i].amount ELSE 0
    BY <1>2, <2>1 DEF Weights
  <2>4. f[i] = IF m[i].key = k /\ m[i].owner = u THEN m[i].amount ELSE 0
    BY <1>2 DEF Weights
  <2> QED
    BY <2>1, <2>2, <2>3, <2>4
<1>4. ASSUME NEW i \in 1..b PROVE g[i] \in Int /\ h[a + i] = g[i]
  <2>1. a + i \in 1..(a + b) /\ c[a + i] = n[i]
    <3>1. a + i \in 1..(a + b) /\ ~(a + i <= a) /\ (a + i) - a = i
      BY <1>2
    <3> QED
      BY <1>1, <3>1
  <2>2. g[i] \in Int
    BY <1>2, TallyType
  <2>3. h[a + i] = IF c[a + i].key = k /\ c[a + i].owner = u THEN c[a + i].amount ELSE 0
    BY <1>2, <2>1 DEF Weights
  <2>4. g[i] = IF n[i].key = k /\ n[i].owner = u THEN n[i].amount ELSE 0
    BY <1>2 DEF Weights
  <2> QED
    BY <2>1, <2>2, <2>3, <2>4
<1> HIDE DEF a, b, c, f, g, h
<1>5. Total(h, 1..(a + b)) = Total(f, 1..a) + Total(g, 1..b)
  BY SMTT(20), <1>2, <1>3, <1>4, TotalCat
<1>6. Tally(m, k, u) = Total(f, 1..a) /\ Tally(n, k, u) = Total(g, 1..b)
  BY <1>2 DEF Tally, f, g
<1>7. Tally(c, k, u) = Total(h, 1..(a + b))
  BY <1>2 DEF Tally, h
<1>8. c \in Seq(Move) /\ Cat(m, n) = c /\ Tally(m, k, u) \in Int /\ Tally(n, k, u) \in Int
  BY <1>1, TallyType DEF Cat, c
<1> QED
  BY <1>5, <1>6, <1>7, <1>8
------------------------------------------------------------------------------
\* What books add is an integer.
LEMMA OnType ==
  ASSUME NEW bs \in Seq(TeamBook), NEW t, NEW k, NEW u
  PROVE  /\ On(bs, t, k, u) \in Int
         /\ \A j \in DOMAIN bs : Shares(bs, t, k, u)[j] \in Int
<1>0. \A j \in DOMAIN bs : bs[j] \in TeamBook
  OBVIOUS
<1>1. \A j \in DOMAIN bs : bs[j].moves \in Seq(Move)
  BY <1>0 DEF TeamBook
<1>2. \A j \in DOMAIN bs : Shares(bs, t, k, u)[j] \in Int
  BY <1>1, TallyType DEF Shares
<1>3. IsFiniteSet(DOMAIN bs)
  BY SeqDomain
<1> QED
  BY <1>2, <1>3, TotalType DEF On

\* No books add nothing.
LEMMA OnEmpty == \A t, k, u : <<>> \in Seq(TeamBook) /\ On(<<>>, t, k, u) = 0
<1> SUFFICES ASSUME NEW t, NEW k, NEW u PROVE <<>> \in Seq(TeamBook) /\ On(<<>>, t, k, u) = 0
  OBVIOUS
<1>1. DOMAIN <<>> = {}
  OBVIOUS
<1> QED
  BY <1>1, TotalEmpty DEF On

\* One book adds what its moves add, on the accounts of its team.
LEMMA OnBook ==
  ASSUME NEW team \in Party, NEW m \in Seq(Move), NEW t, NEW k, NEW u
  PROVE  /\ <<Book(team, m)>> \in Seq(TeamBook)
         /\ On(<<Book(team, m)>>, t, k, u) = IF t = team THEN Tally(m, k, u) ELSE 0
<1> DEFINE bs == <<Book(team, m)>>
           w == Shares(bs, t, k, u)
<1>1. bs \in Seq(TeamBook) /\ DOMAIN bs = {1} /\ bs[1].team = team /\ bs[1].moves = m
  BY DEF Book, TeamBook
<1>2. w[1] = (IF t = team THEN Tally(m, k, u) ELSE 0) /\ w[1] \in Int
  <2>1. Tally(m, k, u) \in Int
    BY TallyType
  <2> QED
    BY <1>1, <2>1 DEF Shares
<1>3. Total(w, {1}) = w[1]
  <2> HIDE DEF w
  <2>1. IsFiniteSet({1})
    BY FS_Singleton
  <2> QED
    BY <1>2, <2>1, TotalOne
<1> QED
  BY <1>1, <1>2, <1>3 DEF On

\* Books put together add what each of them adds.
LEMMA OnCat ==
  ASSUME NEW bs \in Seq(TeamBook), NEW ds \in Seq(TeamBook), NEW t, NEW k, NEW u
  PROVE  /\ Cat(bs, ds) \in Seq(TeamBook)
         /\ On(bs, t, k, u) \in Int /\ On(ds, t, k, u) \in Int
         /\ On(Cat(bs, ds), t, k, u) = On(bs, t, k, u) + On(ds, t, k, u)
<1> DEFINE c == bs \o ds
           f == Shares(bs, t, k, u)
           g == Shares(ds, t, k, u)
           h == Shares(c, t, k, u)
           a == Len(bs)
           b == Len(ds)
<1>1. /\ c \in Seq(TeamBook) /\ Len(c) = a + b
      /\ \A i \in 1..a + b : c[i] = IF i <= a THEN bs[i] ELSE ds[i - a]
  BY ConcatProperties
<1>2. /\ DOMAIN bs = 1..a /\ DOMAIN ds = 1..b /\ DOMAIN c = 1..(a + b)
      /\ a \in Nat /\ b \in Nat
  BY <1>1
<1>3. ASSUME NEW i \in 1..a PROVE f[i] \in Int /\ h[i] = f[i]
  <2>1. i \in 1..(a + b) /\ c[i] = bs[i]
    BY <1>1, <1>2
  <2>2. f[i] \in Int
    BY <1>2, OnType
  <2>3. h[i] = IF c[i].team = t THEN Tally(c[i].moves, k, u) ELSE 0
    BY <1>2, <2>1 DEF Shares
  <2>4. f[i] = IF bs[i].team = t THEN Tally(bs[i].moves, k, u) ELSE 0
    BY <1>2 DEF Shares
  <2> QED
    BY <2>1, <2>2, <2>3, <2>4
<1>4. ASSUME NEW i \in 1..b PROVE g[i] \in Int /\ h[a + i] = g[i]
  <2>1. a + i \in 1..(a + b) /\ c[a + i] = ds[i]
    <3>1. a + i \in 1..(a + b) /\ ~(a + i <= a) /\ (a + i) - a = i
      BY <1>2
    <3> QED
      BY <1>1, <3>1
  <2>2. g[i] \in Int
    BY <1>2, OnType
  <2>3. h[a + i] = IF c[a + i].team = t THEN Tally(c[a + i].moves, k, u) ELSE 0
    BY <1>2, <2>1 DEF Shares
  <2>4. g[i] = IF ds[i].team = t THEN Tally(ds[i].moves, k, u) ELSE 0
    BY <1>2 DEF Shares
  <2> QED
    BY <2>1, <2>2, <2>3, <2>4
<1> HIDE DEF a, b, c, f, g, h
<1>5. Total(h, 1..(a + b)) = Total(f, 1..a) + Total(g, 1..b)
  BY SMTT(20), <1>2, <1>3, <1>4, TotalCat
<1>6. On(bs, t, k, u) = Total(f, 1..a) /\ On(ds, t, k, u) = Total(g, 1..b)
  BY <1>2 DEF On, f, g
<1>7. On(c, t, k, u) = Total(h, 1..(a + b))
  BY <1>2 DEF On, h
<1>8. c \in Seq(TeamBook) /\ Cat(bs, ds) = c /\ On(bs, t, k, u) \in Int /\ On(ds, t, k, u) \in Int
  BY <1>1, OnType DEF Cat, c
<1> QED
  BY <1>5, <1>6, <1>7, <1>8
------------------------------------------------------------------------------
\* A flattened sequence is built up front to back: f[i] is made of the first i.
Fronts(f, ss, n) == f = [i \in 1..n |-> IF i = 1 THEN ss[i] ELSE f[i - 1] \o ss[i]]

\* Its values on the fronts of ss, in full.
Flattens(f, ss, S) ==
  /\ FlattenSeq(ss) = f[Len(ss)] /\ Len(ss) \in 1..Len(ss) /\ f[1] = ss[1]
  /\ \A i \in 1..Len(ss) : f[i] \in Seq(S)
  /\ \A i \in 2..Len(ss) : f[i] = f[i - 1] \o ss[i]

\* The function by which FlattenSeq is defined exists.
LEMMA FlattenIs ==
  ASSUME NEW S, NEW ss \in Seq(Seq(S)), ss # <<>>
  PROVE  \E f : Flattens(f, ss, S)
<1> DEFINE N == {n \in Nat : \E f : Fronts(f, ss, n)}
<1>1. 0 \in N
  <2>1. Fronts([i \in 1..0 |-> 0], ss, 0)
    BY DEF Fronts
  <2> QED
    BY <2>1
<1>2. ASSUME NEW n \in N PROVE n + 1 \in N
  <2>0. n \in Nat
    OBVIOUS
  <2>1. PICK f : Fronts(f, ss, n)
    OBVIOUS
  <2> DEFINE g == [i \in 1..(n + 1) |-> IF i = 1 THEN ss[i] ELSE f[i - 1] \o ss[i]]
  <2> HIDE DEF N
  <2>2. \A i \in 1..n : i \in 1..(n + 1) /\ g[i] = f[i]
    <3>1. \A i \in 1..n : i \in 1..(n + 1)
      BY <2>0
    <3>2. \A i \in 1..n : f[i] = IF i = 1 THEN ss[i] ELSE f[i - 1] \o ss[i]
      BY <2>1 DEF Fronts
    <3> QED
      BY <3>1, <3>2
  <2>3. \A i \in 1..(n + 1) : i # 1 => i - 1 \in 1..n
    BY <2>0
  <2>4. Fronts(g, ss, n + 1)
    <3>1. \A i \in 1..(n + 1) : i # 1 => g[i - 1] = f[i - 1]
      BY <2>2, <2>3
    <3> QED
      BY <3>1 DEF Fronts
  <2>5. \E h : Fronts(h, ss, n + 1)
    <3> HIDE DEF g
    <3> QED
      BY <2>4
  <2> QED
    BY <2>0, <2>5 DEF N
<1>3. N = Nat
  <2> HIDE DEF N
  <2>1. N \subseteq Nat
    BY DEF N
  <2> QED
    BY <1>1, <1>2, <2>1, NatSet
<1>4. Len(ss) \in Nat
  OBVIOUS
<1>5. \E f : Fronts(f, ss, Len(ss))
  BY <1>3, <1>4
<1> DEFINE it == CHOOSE f : Fronts(f, ss, Len(ss))
<1>6. Fronts(it, ss, Len(ss))
  BY <1>5
<1>7. FlattenSeq(ss) = it[Len(ss)]
  BY DEF FlattenSeq, Fronts
<1> HIDE DEF it
<1>8. /\ Len(ss) \in 1..Len(ss) /\ it[1] = ss[1]
      /\ \A i \in 2..Len(ss) : it[i] = it[i - 1] \o ss[i]
  <2>1. \A i \in 1..Len(ss) : it[i] = IF i = 1 THEN ss[i] ELSE it[i - 1] \o ss[i]
    BY <1>6 DEF Fronts
  <2>2. Len(ss) \in 1..Len(ss) /\ 1 \in 1..Len(ss)
    BY <1>4
  <2>3. \A i \in 2..Len(ss) : i \in 1..Len(ss) /\ i # 1
    BY <1>4
  <2> HIDE DEF N
  <2>4. ASSUME NEW i \in 2..Len(ss) PROVE it[i] = it[i - 1] \o ss[i]
    <3>1. i \in 1..Len(ss) /\ i # 1
      BY <2>3
    <3> QED
      BY <2>1, <3>1
  <2>5. it[1] = ss[1]
    BY <2>1, <2>2
  <2> QED
    BY <2>2, <2>4, <2>5
<1>9. \A i \in 1..Len(ss) : it[i] \in Seq(S)
  <2> DEFINE M == {n \in Nat : n + 1 <= Len(ss) => it[n + 1] \in Seq(S)}
  <2> HIDE DEF N
  <2>1. 0 \in M
    <3>1. 0 + 1 = 1 /\ 1 \in 1..Len(ss)
      BY <1>4, <1>8
    <3> QED
      BY <1>8, <3>1
  <2>2. ASSUME NEW n \in M PROVE n + 1 \in M
    <3>0. n \in Nat
      OBVIOUS
    <3> SUFFICES ASSUME (n + 1) + 1 <= Len(ss) PROVE it[(n + 1) + 1] \in Seq(S)
      BY <3>0
    <3>1. it[n + 1] \in Seq(S)
      BY <1>4, <3>0
    <3> DEFINE c == (n + 1) + 1
    <3>2. c \in 2..Len(ss) /\ c - 1 = n + 1 /\ c \in 1..Len(ss)
      BY <1>4, <3>0
    <3> HIDE DEF M, c
    <3>3. it[c] = it[n + 1] \o ss[c]
      <4>1. it[c] = it[c - 1] \o ss[c]
        BY <1>8, <3>2
      <4> QED
        BY <3>2, <4>1
    <3>5. ss[c] \in Seq(S)
      BY <3>2
    <3>4. it[c] \in Seq(S)
      BY <3>1, <3>3, <3>5, ConcatProperties
    <3> QED
      BY <3>4 DEF c
  <2>3. M = Nat
    <3> HIDE DEF M
    <3>1. M \subseteq Nat
      BY DEF M
    <3> QED
      BY <2>1, <2>2, <3>1, NatSet
  <2>4. \A i \in 1..Len(ss) : i - 1 \in Nat /\ (i - 1) + 1 = i /\ i <= Len(ss)
    BY <1>4
  <2> QED
    BY <2>3, <2>4
<1> QED
  BY <1>7, <1>8, <1>9 DEF Flattens

\* Flattened moves add what the parts add.
LEMMA TallyFlatten ==
  ASSUME NEW ss \in Seq(Seq(Move)), NEW k, NEW u
  PROVE  /\ FlattenSeq(ss) \in Seq(Move)
         /\ Tally(FlattenSeq(ss), k, u) =
              Total([j \in DOMAIN ss |-> Tally(ss[j], k, u)], DOMAIN ss)
<1> DEFINE g == [j \in DOMAIN ss |-> Tally(ss[j], k, u)]
<1>0. DOMAIN ss = 1..Len(ss) /\ Len(ss) \in Nat /\ \A j \in DOMAIN ss : ss[j] \in Seq(Move)
  OBVIOUS
<1>3. \A j \in DOMAIN ss : g[j] = Tally(ss[j], k, u) /\ g[j] \in Int
  BY <1>0, TallyType
<1>1. CASE ss = <<>>
  <2>1. DOMAIN ss = {}
    BY <1>1
  <2>2. FlattenSeq(ss) = <<>>
    BY <1>1 DEF FlattenSeq
  <2>3. Total(g, DOMAIN ss) = 0
    <3> HIDE DEF g
    <3> QED
      BY <2>1, TotalEmpty
  <2> QED
    BY <2>2, <2>3, TallyEmpty
<1>2. CASE ss # <<>>
  <2>1. PICK f : Flattens(f, ss, Move)
    BY <1>2, FlattenIs
  <2>0. /\ FlattenSeq(ss) = f[Len(ss)] /\ f[1] = ss[1] /\ Len(ss) \in 1..Len(ss)
        /\ \A i \in 1..Len(ss) : f[i] \in Seq(Move)
        /\ \A i \in 2..Len(ss) : f[i] = f[i - 1] \o ss[i]
    BY <2>1 DEF Flattens
  <2> DEFINE v == [i \in 0..Len(ss) |-> IF i = 0 THEN 0 ELSE Tally(f[i], k, u)]
  <2>2. v[0] = 0 /\ \A i \in 1..Len(ss) : v[i] = Tally(f[i], k, u)
    BY <1>0
  <2> HIDE DEF v, g
  <2>3. ASSUME NEW i \in 1..Len(ss) PROVE g[i] \in Int /\ v[i] = v[i - 1] + g[i]
    <3>1. CASE i = 1
      BY <1>0, <1>3, <2>0, <2>2, <3>1
    <3>2. CASE i # 1
      <4>1. i \in 2..Len(ss) /\ i - 1 \in 1..Len(ss)
        BY <1>0, <3>2
      <4>2. f[i] = f[i - 1] \o ss[i]
        BY <2>0, <4>1
      <4> DEFINE a == f[i - 1]
                 b == ss[i]
      <4>3. a \in Seq(Move) /\ b \in Seq(Move) /\ f[i] = Cat(a, b)
        BY <1>0, <2>0, <4>1, <4>2 DEF Cat
      <4>4. v[i - 1] = Tally(a, k, u) /\ v[i] = Tally(f[i], k, u) /\ g[i] = Tally(b, k, u)
        BY <1>0, <1>3, <2>2, <4>1
      <4> HIDE DEF a, b
      <4>5. Tally(Cat(a, b), k, u) = Tally(a, k, u) + Tally(b, k, u)
        BY <4>3, TallyCat
      <4>6. Tally(a, k, u) \in Int /\ Tally(b, k, u) \in Int
        BY <4>3, TallyType
      <4> QED
        BY <4>3, <4>4, <4>5, <4>6
    <3> QED
      BY <3>1, <3>2
  <2> DEFINE n == Len(ss)
  <2>4. v[n] = Total(g, 1..n)
    <3>1. n \in Nat /\ n \in 0..n /\ v[0] = 0
      BY <1>0, <2>2
    <3>2. \A i \in 1..n : g[i] \in Int /\ v[i] = v[i - 1] + g[i]
      BY <2>3
    <3> HIDE DEF n
    <3> QED
      BY <3>1, <3>2, TotalPrefix
  <2> QED
    BY <1>0, <2>0, <2>2, <2>4 DEF g
<1> QED
  BY <1>1, <1>2

\* So do flattened books.
LEMMA OnFlatten ==
  ASSUME NEW ss \in Seq(Seq(TeamBook)), NEW t, NEW k, NEW u
  PROVE  /\ FlattenSeq(ss) \in Seq(TeamBook)
         /\ On(FlattenSeq(ss), t, k, u) =
              Total([j \in DOMAIN ss |-> On(ss[j], t, k, u)], DOMAIN ss)
<1> DEFINE g == [j \in DOMAIN ss |-> On(ss[j], t, k, u)]
<1>0. DOMAIN ss = 1..Len(ss) /\ Len(ss) \in Nat /\ \A j \in DOMAIN ss : ss[j] \in Seq(TeamBook)
  OBVIOUS
<1>3. \A j \in DOMAIN ss : g[j] = On(ss[j], t, k, u) /\ g[j] \in Int
  BY <1>0, OnType
<1>1. CASE ss = <<>>
  <2>1. DOMAIN ss = {}
    BY <1>1
  <2>2. FlattenSeq(ss) = <<>>
    BY <1>1 DEF FlattenSeq
  <2>3. Total(g, DOMAIN ss) = 0
    <3> HIDE DEF g
    <3> QED
      BY <2>1, TotalEmpty
  <2> QED
    BY <2>2, <2>3, OnEmpty
<1>2. CASE ss # <<>>
  <2>1. PICK f : Flattens(f, ss, TeamBook)
    BY <1>2, FlattenIs
  <2>0. /\ FlattenSeq(ss) = f[Len(ss)] /\ f[1] = ss[1] /\ Len(ss) \in 1..Len(ss)
        /\ \A i \in 1..Len(ss) : f[i] \in Seq(TeamBook)
        /\ \A i \in 2..Len(ss) : f[i] = f[i - 1] \o ss[i]
    BY <2>1 DEF Flattens
  <2> DEFINE v == [i \in 0..Len(ss) |-> IF i = 0 THEN 0 ELSE On(f[i], t, k, u)]
  <2>2. v[0] = 0 /\ \A i \in 1..Len(ss) : v[i] = On(f[i], t, k, u)
    BY <1>0
  <2> HIDE DEF v, g
  <2>3. ASSUME NEW i \in 1..Len(ss) PROVE g[i] \in Int /\ v[i] = v[i - 1] + g[i]
    <3>1. CASE i = 1
      BY <1>0, <1>3, <2>0, <2>2, <3>1
    <3>2. CASE i # 1
      <4>1. i \in 2..Len(ss) /\ i - 1 \in 1..Len(ss)
        BY <1>0, <3>2
      <4>2. f[i] = f[i - 1] \o ss[i]
        BY <2>0, <4>1
      <4> DEFINE a == f[i - 1]
                 b == ss[i]
      <4>3. a \in Seq(TeamBook) /\ b \in Seq(TeamBook) /\ f[i] = Cat(a, b)
        BY <1>0, <2>0, <4>1, <4>2 DEF Cat
      <4>4. v[i - 1] = On(a, t, k, u) /\ v[i] = On(f[i], t, k, u) /\ g[i] = On(b, t, k, u)
        BY <1>0, <1>3, <2>2, <4>1
      <4> HIDE DEF a, b
      <4>5. On(Cat(a, b), t, k, u) = On(a, t, k, u) + On(b, t, k, u)
        BY <4>3, OnCat
      <4>6. On(a, t, k, u) \in Int /\ On(b, t, k, u) \in Int
        BY <4>3, OnType
      <4> QED
        BY <4>3, <4>4, <4>5, <4>6
    <3> QED
      BY <3>1, <3>2
  <2> DEFINE n == Len(ss)
  <2>4. v[n] = Total(g, 1..n)
    <3>1. n \in Nat /\ n \in 0..n /\ v[0] = 0
      BY <1>0, <2>2
    <3>2. \A i \in 1..n : g[i] \in Int /\ v[i] = v[i - 1] + g[i]
      BY <2>3
    <3> HIDE DEF n
    <3> QED
      BY <3>1, <3>2, TotalPrefix
  <2> QED
    BY <1>0, <2>0, <2>2, <2>4 DEF g
<1> QED
  BY <1>1, <1>2
------------------------------------------------------------------------------
\* The positions of a book's moves on account x, and their amounts.
At(b, x) == {i \in DOMAIN b.moves : Account(b, i) = x}
Amounted(b) == [i \in DOMAIN b.moves |-> b.moves[i].amount]

\* The net effect Commit looks at is the tally of the book's moves.
LEMMA NetIsTotal ==
  ASSUME NEW b \in TeamBook, NEW x
  PROVE  Net(b, x) = Total(Amounted(b), At(b, x)) /\ IsFiniteSet(At(b, x))
<1> DEFINE S == At(b, x)
           g == Amounted(b)
           it == CHOOSE it : it = [s \in SUBSET S |-> IF s = {} THEN 0 ELSE
                   b.moves[CHOOSE i \in s : TRUE].amount + it[s \ {CHOOSE i \in s : TRUE}]]
<1>0. IsFiniteSet(S)
  <2>1. b.moves \in Seq(Move)
    BY DEF TeamBook
  <2>2. IsFiniteSet(DOMAIN b.moves)
    BY <2>1, SeqDomain
  <2> QED
    BY <2>2, FS_Subset DEF At
<1>1. Net(b, x) = it[S]
  BY DEF Net, At, MapThenSumSet, MapThenFoldSet
<1>2. \A s \in SUBSET S : s # {} => b.moves[Pick(s)].amount = g[Pick(s)]
  BY PickIn DEF Amounted, At
<1>3. PICK f : Sums(f, g, SUBSET S)
  BY <1>0, SumsExists
<1>4. f = [s \in SUBSET S |-> IF s = {} THEN 0 ELSE
             b.moves[CHOOSE i \in s : TRUE].amount + f[s \ {CHOOSE i \in s : TRUE}]]
  BY <1>2, <1>3 DEF Sums, Pick
<1>5. it = [s \in SUBSET S |-> IF s = {} THEN 0 ELSE
             b.moves[CHOOSE i \in s : TRUE].amount + it[s \ {CHOOSE i \in s : TRUE}]]
  <2> DEFINE Rec(v) == [s \in SUBSET S |-> IF s = {} THEN 0 ELSE
        b.moves[CHOOSE i \in s : TRUE].amount + v[s \ {CHOOSE i \in s : TRUE}]]
  <2>1. f = Rec(f) /\ it = CHOOSE v : v = Rec(v)
    BY <1>4, Zenon
  <2> HIDE DEF Rec, it
  <2>2. it = Rec(it)
    BY <2>1, Zenon
  <2> QED
    BY <2>2, Zenon DEF Rec
<1>6. Sums(it, g, SUBSET S)
  <2> HIDE DEF it
  <2> QED
    BY <1>2, <1>5 DEF Sums, Pick
<1>7. Total(g, S) = it[S]
  <2> HIDE DEF it, g, S
  <2> QED
    BY <1>0, <1>6, TotalIs
<1> QED
  BY <1>0, <1>1, <1>7

\* Per account the net effect is the tally, for the book's own team.
LEMMA NetIs ==
  ASSUME NEW b \in TeamBook, NEW t, NEW k, NEW u
  PROVE  Net(b, <<t, k, u>>) = IF b.team = t THEN Tally(b.moves, k, u) ELSE 0
<1> DEFINE x == <<t, k, u>>
           D == DOMAIN b.moves
           S == At(b, x)
           g == Amounted(b)
           w == Weights(b.moves, k, u)
<1>1. b.moves \in Seq(Move)
  BY DEF TeamBook
<1>2. IsFiniteSet(D) /\ S \in SUBSET D
  BY <1>1, SeqDomain DEF At
<1>3. \A i \in D : i \in S <=> b.team = t /\ b.moves[i].key = k /\ b.moves[i].owner = u
  BY DEF At, Account
<1>4. Net(b, x) = Total(g, S)
  BY NetIsTotal
<1>5. CASE b.team = t
  <2>1. \A i \in D : w[i] \in Int
    BY <1>1, TallyType
  <2>2. \A i \in D \ S : w[i] = 0
    BY <1>3, <1>5 DEF Weights
  <2>3. \A i \in S : w[i] = g[i]
    BY <1>3, <1>5 DEF Weights, Amounted, At
  <2> HIDE DEF w, g, S, D
  <2>4. Total(w, D) = Total(w, S)
    BY <1>2, <2>1, <2>2, TotalRestrict
  <2>5. IsFiniteSet(S)
    BY <1>2, FS_Subset
  <2>6. Total(w, S) = Total(g, S)
    BY <2>3, <2>5, TotalSame
  <2> QED
    BY <1>4, <1>5, <2>4, <2>6 DEF Tally, w, D
<1>6. CASE b.team # t
  <2>1. S = {}
    BY <1>2, <1>3, <1>6
  <2>2. Total(g, {}) = 0
    BY TotalEmpty
  <2> QED
    BY <1>4, <1>6, <2>1, <2>2
<1> QED
  BY <1>5, <1>6

\* The nets of the books of a handler on one account, and their sum.
Nets(bs, x) == [j \in DOMAIN bs |-> Net(bs[j], x)]
NetSum(bs, x) == MapThenSumSet(LAMBDA j : Net(bs[j], x), DOMAIN bs)

\* The nets of all books of a handler add up to what On says.
LEMMA NetSumIs ==
  ASSUME NEW bs \in Seq(TeamBook), NEW t, NEW k, NEW u
  PROVE  NetSum(bs, <<t, k, u>>) = On(bs, t, k, u)
<1> DEFINE x == <<t, k, u>>
           S == DOMAIN bs
           g == Nets(bs, x)
           it == CHOOSE it : it = [s \in SUBSET S |-> IF s = {} THEN 0 ELSE
                   Net(bs[CHOOSE j \in s : TRUE], x) + it[s \ {CHOOSE j \in s : TRUE}]]
<1>0. IsFiniteSet(S)
  BY SeqDomain
<1> HIDE DEF x
<1>1. NetSum(bs, x) = it[S]
  BY DEF NetSum, MapThenSumSet, MapThenFoldSet
<1>2. \A s \in SUBSET S : s # {} => Net(bs[Pick(s)], x) = g[Pick(s)]
  BY PickIn DEF Nets
<1>3. PICK f : Sums(f, g, SUBSET S)
  BY <1>0, SumsExists
<1>4. f = [s \in SUBSET S |-> IF s = {} THEN 0 ELSE
             Net(bs[CHOOSE j \in s : TRUE], x) + f[s \ {CHOOSE j \in s : TRUE}]]
  BY <1>2, <1>3 DEF Sums, Pick
<1>5. it = [s \in SUBSET S |-> IF s = {} THEN 0 ELSE
             Net(bs[CHOOSE j \in s : TRUE], x) + it[s \ {CHOOSE j \in s : TRUE}]]
  <2> DEFINE Rec(v) == [s \in SUBSET S |-> IF s = {} THEN 0 ELSE
        Net(bs[CHOOSE j \in s : TRUE], x) + v[s \ {CHOOSE j \in s : TRUE}]]
  <2>1. f = Rec(f) /\ it = CHOOSE v : v = Rec(v)
    BY <1>4, Zenon
  <2> HIDE DEF Rec, it
  <2>2. it = Rec(it)
    BY <2>1, Zenon
  <2> QED
    BY <2>2, Zenon DEF Rec
<1>6. Sums(it, g, SUBSET S)
  <2> HIDE DEF it
  <2> QED
    BY <1>2, <1>5 DEF Sums, Pick
<1>7. Total(g, S) = it[S]
  <2> HIDE DEF it, g, S
  <2> QED
    BY <1>0, <1>6, TotalIs
<1>8. \A j \in S : g[j] = Shares(bs, t, k, u)[j]
  <2>1. \A j \in S : bs[j] \in TeamBook
    OBVIOUS
  <2> QED
    BY <2>1, NetIs DEF Nets, Shares, x
<1>9. Total(g, S) = Total(Shares(bs, t, k, u), S)
  <2> HIDE DEF g, S
  <2> QED
    BY <1>0, <1>8, TotalSame
<1> QED
  BY <1>1, <1>7, <1>9 DEF On, x
------------------------------------------------------------------------------
\* What a ref holds: amounts for accounts of the parties.
IsEntries(e) == \A x \in DOMAIN e : x \in Party \X Name \X Party /\ e[x] \in Int
Amount(e, x) == IF x \in DOMAIN e THEN e[x] ELSE 0

\* The books of a handler hold, per account, what On says.
LEMMA EffectIs ==
  ASSUME NEW bs \in Seq(TeamBook)
  PROVE  /\ IsEntries(Effect(bs))
         /\ \A t, k, u : Amount(Effect(bs), <<t, k, u>>) = On(bs, t, k, u)
<1> DEFINE D == UNION {Touched(bs[j]) : j \in DOMAIN bs}
           e == [x \in D |-> NetSum(bs, x)]
<1>0. Effect(bs) = e
  BY DEF Effect, NetSum
<1>1. \A j \in DOMAIN bs : bs[j] \in TeamBook
  OBVIOUS
<1>2. ASSUME NEW x \in D PROVE x \in Party \X Name \X Party /\ e[x] \in Int
  <2>1. PICK j \in DOMAIN bs : x \in Touched(bs[j])
    OBVIOUS
  <2>2. PICK i \in DOMAIN bs[j].moves : x = Account(bs[j], i)
    BY <2>1 DEF Touched
  <2>3. bs[j].team \in Party /\ bs[j].moves \in Seq(Move)
    BY <1>1 DEF TeamBook
  <2>4. bs[j].moves[i] \in Move
    BY <2>2, <2>3
  <2> DEFINE t == bs[j].team
             k == bs[j].moves[i].key
             u == bs[j].moves[i].owner
  <2>5. x = <<t, k, u>> /\ t \in Party /\ k \in Name /\ u \in Party
    BY <2>2, <2>3, <2>4 DEF Account, Move
  <2> HIDE DEF t, k, u
  <2>6. NetSum(bs, x) \in Int
    BY <2>5, NetSumIs, OnType
  <2> QED
    BY <2>5, <2>6
<1>3. ASSUME NEW t, NEW k, NEW u PROVE Amount(e, <<t, k, u>>) = On(bs, t, k, u)
  <2> DEFINE x == <<t, k, u>>
  <2>1. CASE x \in D
    BY <2>1, NetSumIs DEF Amount
  <2>2. CASE x \notin D
    <3>1. ASSUME NEW j \in DOMAIN bs PROVE Shares(bs, t, k, u)[j] = 0
      <4>1. x \notin Touched(bs[j])
        BY <2>2
      <4>2. At(bs[j], x) = {}
        BY <4>1 DEF At, Touched
      <4>3. Net(bs[j], x) = 0
        BY <1>1, <4>2, NetIsTotal, TotalEmpty
      <4> QED
        BY <1>1, <4>3, NetIs DEF Shares
    <3>2. IsFiniteSet(DOMAIN bs)
      BY SeqDomain
    <3>3. On(bs, t, k, u) = 0
      BY <3>1, <3>2, TotalZero DEF On
    <3> QED
      BY <2>2, <3>3 DEF Amount
  <2> QED
    BY <2>1, <2>2
<1> QED
  BY <1>0, <1>2, <1>3 DEF IsEntries

\* A reversal leaves nothing on any account.
LEMMA ReversedIs ==
  ASSUME NEW e, IsEntries(e)
  PROVE  /\ IsEntries(Reversed(e)) /\ DOMAIN Reversed(e) = DOMAIN e
         /\ \A x : Amount(Reversed(e), x) = 0
BY DEF IsEntries, Amount, Reversed

\* Entries with more books added hold the sum of both.
LEMMA MergedIs ==
  ASSUME NEW e, NEW more, IsEntries(e), IsEntries(more)
  PROVE  /\ IsEntries(Merged(e, more))
         /\ \A x : /\ Amount(e, x) \in Int /\ Amount(more, x) \in Int
                   /\ Amount(Merged(e, more), x) = Amount(e, x) + Amount(more, x)
<1>1. \A x : Amount(e, x) \in Int /\ Amount(more, x) \in Int
  BY DEF IsEntries, Amount
<1>2. DOMAIN Merged(e, more) = DOMAIN e \cup DOMAIN more
  BY DEF Merged
<1>3. \A x \in DOMAIN e \cup DOMAIN more : Merged(e, more)[x] = Amount(e, x) + Amount(more, x)
  BY DEF Merged, Amount
<1>4. ASSUME NEW x PROVE Amount(Merged(e, more), x) = Amount(e, x) + Amount(more, x)
  <2>1. CASE x \in DOMAIN e \cup DOMAIN more
    BY <1>2, <1>3, <2>1 DEF Amount
  <2>2. CASE x \notin DOMAIN e \cup DOMAIN more
    BY <1>2, <2>2 DEF Amount
  <2> QED
    BY <2>1, <2>2
<1>5. IsEntries(Merged(e, more))
  <2>1. \A x \in DOMAIN e \cup DOMAIN more : x \in Party \X Name \X Party
    BY DEF IsEntries
  <2>2. \A x \in DOMAIN e \cup DOMAIN more : Merged(e, more)[x] \in Int
    BY <1>1, <1>3
  <2> QED
    BY <1>2, <2>1, <2>2 DEF IsEntries
<1> QED
  BY <1>1, <1>4, <1>5
==============================================================================
