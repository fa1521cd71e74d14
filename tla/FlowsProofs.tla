------------------------------ MODULE FlowsProofs ------------------------------
(***************************************************************************)
(* What the books of two teams must agree on holds of every ref by itself: *)
(* each handler writes books that agree, and an update, a correction or a  *)
(* rollback leaves a ref that agrees.  The agreements are equations        *)
(* between sums, and so hold of the balances, which add up the refs.       *)
(***************************************************************************)
EXTENDS Flows, LedgerProofs

\* An amount on the account of key and owner.
Put(k, u, key, owner, amount) == IF k = key /\ u = owner THEN amount ELSE 0

\* The moves m add x to the account of k and u.
Adds(m, k, u, x) == m \in Seq(Move) /\ x \in Int /\ Tally(m, k, u) = x

\* One move.
LEMMA AddsOne ==
  ASSUME NEW key \in Name, NEW owner \in Party, NEW n \in Int, NEW k, NEW u
  PROVE  /\ Adds(To(key, owner, n), k, u, Put(k, u, key, owner, n))
         /\ Adds(From(key, owner, n), k, u, Put(k, u, key, owner, -n))
BY TallyTo, TallyFrom DEF Adds, Put

\* Moves that are made only under a condition.
LEMMA AddsWhen ==
  ASSUME NEW m, NEW k, NEW u, NEW x, Adds(m, k, u, x), NEW c
  PROVE  Adds(When(c, m), k, u, IF c THEN x ELSE 0)
BY TallyEmpty DEF Adds, When

\* Moves put together.
LEMMA AddsCat ==
  ASSUME NEW m, NEW n, NEW k, NEW u, NEW x, NEW y, Adds(m, k, u, x), Adds(n, k, u, y)
  PROVE  Adds(Cat(m, n), k, u, x + y)
BY TallyCat DEF Adds

\* What the moves of an accepted inbound add to an account.
AcceptMoved(p, other, k, u) ==
  Put(k, u, "stock_pending", other, IF p.shipping # 0 THEN -p.shipping ELSE 0)
  + Put(k, u, "stock_pending", other, -(p.price * Items(p)))
  + Put(k, u, "stock_ready", other, Worth(p, p.accepted))
  + Put(k, u, "stock_broken", other, IF p.broken > 0 THEN Worth(p, p.broken) ELSE 0)
  + Put(k, u, "stock_lost", other, IF p.lost > 0 THEN Worth(p, p.lost) ELSE 0)

\* The numbers of an accepted inbound.
LEMMA AcceptInts ==
  ASSUME NEW p \in Accepts
  PROVE  /\ p.shipping \in Int /\ p.cod \in Int /\ p.price * Items(p) \in Int
         /\ \A i \in {p.accepted, p.lost, p.broken} : Worth(p, i) \in Int
<1>1. {p.price, p.accepted, p.lost, p.broken, p.shipping, p.cod} \subseteq Int /\ Items(p) > 0
  BY AcceptsAssumption
<1>2. Items(p) \in Int /\ Fees(p) \in Int
  BY <1>1 DEF Items, Fees
<1> QED
  BY <1>1, <1>2 DEF Worth

\* The moves of an accepted inbound, with the courier's claim y.
LEMMA AcceptAdds ==
  ASSUME NEW p \in Accepts, NEW other \in Party, NEW claim, NEW k, NEW u,
         NEW y, Adds(claim, k, u, y)
  PROVE  Adds(AcceptMoves(p, other, claim), k, u,
              (IF p.cod # 0 THEN y ELSE 0) + AcceptMoved(p, other, k, u))
<1> DEFINE n == p.price * Items(p)
           wa == Worth(p, p.accepted)
           wb == Worth(p, p.broken)
           wl == Worth(p, p.lost)
           a == When(p.shipping # 0, From("stock_pending", other, p.shipping))
           b == When(p.cod # 0, claim)
           c == From("stock_pending", other, n)
           d == To("stock_ready", other, wa)
           e == When(p.broken > 0, To("stock_broken", other, wb))
           f == When(p.lost > 0, To("stock_lost", other, wl))
           ta == Put(k, u, "stock_pending", other, IF p.shipping # 0 THEN -p.shipping ELSE 0)
           tb == IF p.cod # 0 THEN y ELSE 0
           tc == Put(k, u, "stock_pending", other, -n)
           td == Put(k, u, "stock_ready", other, wa)
           te == Put(k, u, "stock_broken", other, IF p.broken > 0 THEN wb ELSE 0)
           tf == Put(k, u, "stock_lost", other, IF p.lost > 0 THEN wl ELSE 0)
<1>1. p.shipping \in Int /\ n \in Int /\ wa \in Int /\ wb \in Int /\ wl \in Int
  BY AcceptInts
<1>2. AcceptMoves(p, other, claim) = Cat(Cat(Cat(Cat(Cat(a, b), c), d), e), f)
  BY DEF AcceptMoves, Cat
<1>3. AcceptMoved(p, other, k, u) = ta + tc + td + te + tf
  BY DEF AcceptMoved
<1>4. {"stock_pending", "stock_ready", "stock_broken", "stock_lost"} \subseteq Name
  BY DEF Name
<1> HIDE DEF n, wa, wb, wl
<1>5. Adds(a, k, u, ta) /\ Adds(b, k, u, tb) /\ Adds(c, k, u, tc)
  <2>1. Adds(a, k, u, IF p.shipping # 0 THEN Put(k, u, "stock_pending", other, -p.shipping) ELSE 0)
    BY <1>1, <1>4, AddsOne, AddsWhen
  <2> QED
    BY <1>1, <1>4, <2>1, AddsOne, AddsWhen DEF Put
<1>6. Adds(d, k, u, td) /\ Adds(e, k, u, te) /\ Adds(f, k, u, tf)
  <2>1. /\ Adds(e, k, u, IF p.broken > 0 THEN Put(k, u, "stock_broken", other, wb) ELSE 0)
        /\ Adds(f, k, u, IF p.lost > 0 THEN Put(k, u, "stock_lost", other, wl) ELSE 0)
    BY <1>1, <1>4, AddsOne, AddsWhen
  <2> QED
    BY <1>1, <1>4, <2>1, AddsOne DEF Put
<1> HIDE DEF a, b, c, d, e, f, ta, tb, tc, td, te, tf
<1>7. Adds(AcceptMoves(p, other, claim), k, u, ta + tb + tc + td + te + tf)
  BY <1>2, <1>5, <1>6, AddsCat
<1>8. ta + tb + tc + td + te + tf = tb + (ta + tc + td + te + tf)
  BY <1>5, <1>6 DEF Adds
<1> QED
  BY <1>3, <1>7, <1>8 DEF tb
------------------------------------------------------------------------------
\* The books bs add x to the account team t keeps for u under key k.
Gives(bs, t, k, u, x) == bs \in Seq(TeamBook) /\ x \in Int /\ On(bs, t, k, u) = x

\* One book.
LEMMA GivesBook ==
  ASSUME NEW team \in Party, NEW m, NEW t, NEW k, NEW u, NEW x, Adds(m, k, u, x)
  PROVE  Gives(<<Book(team, m)>>, t, k, u, IF t = team THEN x ELSE 0)
BY OnBook DEF Adds, Gives

\* Books put together.
LEMMA GivesCat ==
  ASSUME NEW bs, NEW ds, NEW t, NEW k, NEW u, NEW x, NEW y,
         Gives(bs, t, k, u, x), Gives(ds, t, k, u, y)
  PROVE  Gives(Cat(bs, ds), t, k, u, x + y)
BY OnCat DEF Gives

\* Books that are made only under a condition.
LEMMA GivesWhen ==
  ASSUME NEW bs, NEW t, NEW k, NEW u, NEW x, Gives(bs, t, k, u, x), NEW c
  PROVE  Gives(When(c, bs), t, k, u, IF c THEN x ELSE 0)
BY OnEmpty DEF Gives, When

\* The books of two teams.
LEMMA GivesPair ==
  ASSUME NEW a \in Party, NEW b \in Party, NEW m, NEW n, NEW t, NEW k, NEW u,
         NEW x, NEW y, Adds(m, k, u, x), Adds(n, k, u, y)
  PROVE  Gives(<<Book(a, m), Book(b, n)>>, t, k, u,
               (IF t = a THEN x ELSE 0) + (IF t = b THEN y ELSE 0))
<1>1. <<Book(a, m), Book(b, n)>> = Cat(<<Book(a, m)>>, <<Book(b, n)>>)
  BY DEF Cat
<1>2. /\ Gives(<<Book(a, m)>>, t, k, u, IF t = a THEN x ELSE 0)
      /\ Gives(<<Book(b, n)>>, t, k, u, IF t = b THEN y ELSE 0)
  BY GivesBook
<1> QED
  BY <1>1, <1>2, GivesCat
------------------------------------------------------------------------------
\* What one team claims of another in the entries e is what the other owes it.
Claims(e) == \A t, u \in Party : Amount(e, <<t, "receivable", u>>) = Amount(e, <<u, "payable", t>>)

\* The seller's broken and lost goods in a warehouse are the warehouse's.
Stocks(e) ==
  \A s \in Seller, w \in Warehouse, key \in {"stock_broken", "stock_lost"} :
    Amount(e, <<s, key, w>>) = Amount(e, <<w, key, s>>)

\* Sellers and warehouses have the same in transit.
Moving(e, S) == [x \in S |-> Amount(e, <<x[1], "stock_transfer", x[2]>>)]
Transit(e) ==
  Total(Moving(e, Seller \X Warehouse), Seller \X Warehouse) =
  Total(Moving(e, Warehouse \X Warehouse), Warehouse \X Warehouse)

Agreed(e) == Claims(e) /\ Stocks(e) /\ Transit(e)

\* The seller's goods, ready or sold, in each warehouse are the warehouse's.
Ready(e, s) ==
  \A w \in Warehouse :
    Amount(e, <<s, "stock_ready", w>>) + Amount(e, <<s, "stock_cost", w>>) =
    Amount(e, <<w, "stock_ready", s>>) + Amount(e, <<w, "stock_cost", s>>)

\* The keys of the accounts two teams agree on.
Shared == {"receivable", "payable", "stock_lost_expense", "stock_broken_expense",
           "stock_broken", "stock_lost", "stock_transfer", "stock_ready", "stock_cost"}

\* Sellers and warehouses are finite sets, and so are their pairs.
LEMMA PartiesFinite ==
  /\ Seller \subseteq Party /\ Warehouse \subseteq Party
  /\ IsFiniteSet(Seller \X Warehouse) /\ IsFiniteSet(Warehouse \X Warehouse)
BY PartyAssumption, FS_Product DEF Party

\* Entries without goods in transit.
LEMMA NoTransit ==
  ASSUME NEW e, \A t, u \in Party : Amount(e, <<t, "stock_transfer", u>>) = 0
  PROVE  Transit(e)
<1> DEFINE R == Seller \X Warehouse
           S == Warehouse \X Warehouse
<1>1. \A x \in R \cup S : Amount(e, <<x[1], "stock_transfer", x[2]>>) = 0
  BY PartiesFinite
<1>2. (\A x \in R : Moving(e, R)[x] = 0) /\ (\A x \in S : Moving(e, S)[x] = 0)
  BY <1>1 DEF Moving
<1>3. IsFiniteSet(R) /\ IsFiniteSet(S)
  BY PartiesFinite
<1> HIDE DEF R, S
<1>4. Total(Moving(e, R), R) = 0 /\ Total(Moving(e, S), S) = 0
  BY <1>2, <1>3, TotalZero
<1> QED
  BY <1>4 DEF Transit, R, S

\* Entries that do not touch the shared accounts agree; for all but the goods
\* they may touch the cost of goods.
LEMMA QuietAgrees ==
  ASSUME NEW e, \A x \in DOMAIN e : x[2] \notin Shared \ {"stock_cost"}
  PROVE  Agreed(e)
<1>1. \A t, u \in Party, k \in Shared \ {"stock_cost"} : Amount(e, <<t, k, u>>) = 0
  BY DEF Amount
<1>2. {"receivable", "payable", "stock_lost_expense", "stock_broken_expense", "stock_broken",
       "stock_lost", "stock_transfer"} \subseteq Shared \ {"stock_cost"}
  BY DEF Shared
<1>3. Claims(e)
  BY <1>1, <1>2 DEF Claims
<1>4. Stocks(e)
  <2>1. ASSUME NEW s \in Seller, NEW w \in Warehouse, NEW k \in Shared \ {"stock_cost"}
        PROVE  Amount(e, <<s, k, w>>) = 0 /\ Amount(e, <<w, k, s>>) = 0
    BY <1>1, PartiesFinite
  <2>2. {"stock_broken", "stock_lost"} \subseteq Shared \ {"stock_cost"}
    BY DEF Shared
  <2> QED
    BY <2>1, <2>2 DEF Stocks
<1> QED
  BY <1>1, <1>2, <1>3, <1>4, NoTransit DEF Agreed

\* Nor do they touch the goods that are ready or sold.
LEMMA QuietReady ==
  ASSUME NEW e, \A x \in DOMAIN e : x[2] \notin Shared
  PROVE  \A s \in Seller : Ready(e, s)
<1>1. \A t, u \in Party, k \in Shared : Amount(e, <<t, k, u>>) = 0
  BY DEF Amount
<1>2. {"stock_ready", "stock_cost"} \subseteq Shared
  BY DEF Shared
<1> QED
  BY <1>1, <1>2, PartiesFinite DEF Ready
------------------------------------------------------------------------------
\* What a ref holds after its handler posted bs.
LEMMA EffectGives ==
  ASSUME NEW bs, NEW t, NEW k, NEW u, NEW x, Gives(bs, t, k, u, x)
  PROVE  Amount(Effect(bs), <<t, k, u>>) = x
BY EffectIs DEF Gives

\* The books of an accepted inbound agree.
LEMMA AcceptAgrees ==
  ASSUME NEW p \in Accepts, NEW bs,
         bs = <<Book(p.warehouse, AcceptMoves(p, p.team, WarehouseClaim(p))),
                Book(p.team, AcceptMoves(p, p.warehouse, To("payable", p.warehouse, p.cod)))>>
  PROVE  /\ bs \in Seq(TeamBook)
         /\ Agreed(Effect(bs)) /\ \A s \in Seller : Ready(Effect(bs), s)
<1> DEFINE v == p.team
           w == p.warehouse
           e == Effect(bs)
           Fee(k, u) == Put(k, u, "cash", w, -p.cod) + Put(k, u, "stock_cod_fee", w, -p.cod)
                        + Put(k, u, "receivable", v, p.cod)
           Debt(k, u) == Put(k, u, "payable", w, p.cod)
           Here(k, u) == (IF p.cod # 0 THEN Fee(k, u) ELSE 0) + AcceptMoved(p, v, k, u)
           There(k, u) == (IF p.cod # 0 THEN Debt(k, u) ELSE 0) + AcceptMoved(p, w, k, u)
           A(t, k, u) == (IF t = w THEN Here(k, u) ELSE 0) + (IF t = v THEN There(k, u) ELSE 0)
<1>1. /\ v \in Seller /\ w \in Warehouse /\ v \in Party /\ w \in Party
      /\ v \notin Warehouse /\ w \notin Seller
  BY AcceptsAssumption, PartyAssumption, PartiesFinite
<1>2. p.cod \in Int /\ p.price * Items(p) \in Int /\ p.shipping \in Int
  BY AcceptInts
<1>3. ASSUME NEW t, NEW k, NEW u PROVE Gives(bs, t, k, u, A(t, k, u))
  <2>1. Adds(WarehouseClaim(p), k, u, Fee(k, u))
    <3>1. {"cash", "stock_cod_fee", "receivable"} \subseteq Name
      BY DEF Name
    <3> DEFINE a == From("cash", w, p.cod)
               b == From("stock_cod_fee", w, p.cod)
               c == To("receivable", v, p.cod)
    <3>2. WarehouseClaim(p) = Cat(Cat(a, b), c)
      BY DEF WarehouseClaim, Cat
    <3>3. /\ Adds(a, k, u, Put(k, u, "cash", w, -p.cod))
          /\ Adds(b, k, u, Put(k, u, "stock_cod_fee", w, -p.cod))
          /\ Adds(c, k, u, Put(k, u, "receivable", v, p.cod))
      BY <1>1, <1>2, <3>1, AddsOne
    <3> HIDE DEF a, b, c
    <3> QED
      BY <3>2, <3>3, AddsCat
  <2>2. Adds(To("payable", w, p.cod), k, u, Debt(k, u))
    BY <1>1, <1>2, AddsOne DEF Name
  <2> HIDE DEF Fee, Debt
  <2>3. /\ Adds(AcceptMoves(p, v, WarehouseClaim(p)), k, u, Here(k, u))
        /\ Adds(AcceptMoves(p, w, To("payable", w, p.cod)), k, u, There(k, u))
    BY <1>1, <2>1, <2>2, AcceptAdds
  <2> HIDE DEF Here, There
  <2> QED
    BY <1>1, <2>3, GivesPair
<1>4. \A t, k, u : Amount(e, <<t, k, u>>) = A(t, k, u)
  BY <1>3, EffectGives
<1> HIDE DEF e
<1>5. Claims(e)
  <2>1. ASSUME NEW t, NEW u
        PROVE  A(t, "receivable", u) = IF t = w /\ u = v THEN p.cod ELSE 0
    BY <1>1, <1>2 DEF AcceptMoved, Put
  <2>2. ASSUME NEW t, NEW u
        PROVE  A(u, "payable", t) = IF t = w /\ u = v THEN p.cod ELSE 0
    BY <1>1, <1>2 DEF AcceptMoved, Put
  <2> HIDE DEF A
  <2> QED
    BY <1>4, <2>1, <2>2 DEF Claims
<1>7. Stocks(e)
  BY <1>1, <1>4, AcceptInts DEF Stocks, AcceptMoved, Put
<1>8. Transit(e)
  BY <1>4, NoTransit DEF AcceptMoved, Put
<1>9. \A s \in Seller : Ready(e, s)
  BY <1>1, <1>4, AcceptInts DEF Ready, AcceptMoved, Put
<1>10. bs \in Seq(TeamBook)
  BY <1>3 DEF Gives
<1> QED
  BY <1>5, <1>7, <1>8, <1>9, <1>10 DEF Agreed, e
------------------------------------------------------------------------------
\* What the goods of an adjustment add to an account.
GoodsMoved(p, other, k, u) ==
  (IF p.broken > 0 THEN Put(k, u, "stock_ready", other, -p.broken)
                        + Put(k, u, "stock_broken", other, p.broken) ELSE 0)
  + (IF p.lost > 0 THEN Put(k, u, "stock_ready", other, -p.broken)
                        + Put(k, u, "stock_lost", other, p.broken) ELSE 0)

\* The moves of an adjustment add exactly that.
LEMMA GoodsAdds ==
  ASSUME NEW p \in Adjustments, NEW other \in Party, NEW k, NEW u
  PROVE  Adds(GoodsMoves(p, other), k, u, GoodsMoved(p, other, k, u))
<1> DEFINE a == From("stock_ready", other, p.broken)
           b == To("stock_broken", other, p.broken)
           c == To("stock_lost", other, p.broken)
           ta == Put(k, u, "stock_ready", other, -p.broken)
           tb == Put(k, u, "stock_broken", other, p.broken)
           tc == Put(k, u, "stock_lost", other, p.broken)
<1>1. p.broken \in Int /\ {"stock_ready", "stock_broken", "stock_lost"} \subseteq Name
  BY AdjustmentsAssumption DEF Name
<1>2. Adds(a, k, u, ta) /\ Adds(b, k, u, tb) /\ Adds(c, k, u, tc)
  BY <1>1, AddsOne
<1>3. GoodsMoves(p, other) = Cat(When(p.broken > 0, Cat(a, b)), When(p.lost > 0, Cat(a, c)))
  BY DEF GoodsMoves, Cat
<1>4. GoodsMoved(p, other, k, u) = (IF p.broken > 0 THEN ta + tb ELSE 0)
                                   + (IF p.lost > 0 THEN ta + tc ELSE 0)
  BY DEF GoodsMoved
<1> HIDE DEF a, b, c, ta, tb, tc
<1>5. Adds(Cat(a, b), k, u, ta + tb) /\ Adds(Cat(a, c), k, u, ta + tc)
  BY <1>2, AddsCat
<1>6. /\ Adds(When(p.broken > 0, Cat(a, b)), k, u, IF p.broken > 0 THEN ta + tb ELSE 0)
      /\ Adds(When(p.lost > 0, Cat(a, c)), k, u, IF p.lost > 0 THEN ta + tc ELSE 0)
  BY <1>5, AddsWhen
<1> QED
  BY <1>3, <1>4, <1>6, AddsCat

\* The charge of an adjustment under one key: the warehouse owes it the seller.
LEMMA ChargeAdds ==
  ASSUME NEW p \in Adjustments, NEW key \in {"stock_lost_expense", "stock_broken_expense"},
         NEW k, NEW u
  PROVE  LET c == Charges(p)[key]
             n == IF c > 0 THEN c ELSE 0
         IN /\ n \in Int
            /\ Adds(WarehouseCharge(p, key), k, u,
                    Put(k, u, key, p.team, n) + Put(k, u, "payable", p.team, n))
            /\ Adds(SellerCharge(p, key), k, u,
                    Put(k, u, key, p.warehouse, -n) + Put(k, u, "receivable", p.warehouse, n))
<1> DEFINE d == Charges(p)[key]
           l == IF d > 0 THEN d ELSE 0
           v == p.team
           w == p.warehouse
<1>1. d \in Int /\ v \in Party /\ w \in Party
  <2>1. p.lostCharge \in Int /\ p.brokenCharge \in Int /\ v \in Party /\ w \in Party
    BY AdjustmentsAssumption, PartiesFinite
  <2> QED
    BY <2>1 DEF Charges
<1>2. key \in Name /\ {"payable", "receivable"} \subseteq Name
  BY DEF Name
<1> DEFINE a == To(key, v, d)
           b == To("payable", v, d)
           f == From(key, w, d)
           g == To("receivable", w, d)
<1>3. WarehouseCharge(p, key) = When(d > 0, Cat(a, b)) /\ SellerCharge(p, key) = When(d > 0, Cat(f, g))
  BY DEF WarehouseCharge, SellerCharge, Cat
<1> HIDE DEF d, v, w
<1>4. /\ Adds(a, k, u, Put(k, u, key, v, d)) /\ Adds(b, k, u, Put(k, u, "payable", v, d))
      /\ Adds(f, k, u, Put(k, u, key, w, -d)) /\ Adds(g, k, u, Put(k, u, "receivable", w, d))
  BY <1>1, <1>2, AddsOne
<1> HIDE DEF a, b, f, g
<1>5. /\ Adds(When(d > 0, Cat(a, b)), k, u,
              IF d > 0 THEN Put(k, u, key, v, d) + Put(k, u, "payable", v, d) ELSE 0)
      /\ Adds(When(d > 0, Cat(f, g)), k, u,
              IF d > 0 THEN Put(k, u, key, w, -d) + Put(k, u, "receivable", w, d) ELSE 0)
  BY <1>4, AddsCat, AddsWhen
<1>6. /\ (IF d > 0 THEN Put(k, u, key, v, d) + Put(k, u, "payable", v, d) ELSE 0) =
           Put(k, u, key, v, l) + Put(k, u, "payable", v, l)
      /\ (IF d > 0 THEN Put(k, u, key, w, -d) + Put(k, u, "receivable", w, d) ELSE 0) =
           Put(k, u, key, w, -l) + Put(k, u, "receivable", w, l)
  BY <1>1 DEF Put
<1> QED
  BY <1>1, <1>3, <1>5, <1>6 DEF d, v, w

AdjustmentBooks(p) ==
  <<Book(p.warehouse, GoodsMoves(p, p.team)
                      \o WarehouseCharge(p, "stock_lost_expense")
                      \o WarehouseCharge(p, "stock_broken_expense")),
    Book(p.team, GoodsMoves(p, p.warehouse)
                 \o SellerCharge(p, "stock_lost_expense")
                 \o SellerCharge(p, "stock_broken_expense"))>>

\* The books of an adjustment agree.
LEMMA AdjustmentAgrees ==
  ASSUME NEW p \in Adjustments
  PROVE  LET bs == AdjustmentBooks(p)
         IN /\ bs \in Seq(TeamBook)
            /\ Agreed(Effect(bs)) /\ \A s \in Seller : Ready(Effect(bs), s)
<1> DEFINE bs == AdjustmentBooks(p)
           v == p.team
           w == p.warehouse
           e == Effect(bs)
           Up(n) == IF n > 0 THEN n ELSE 0
           l == Up(Charges(p)["stock_lost_expense"])
           b == Up(Charges(p)["stock_broken_expense"])
           Here(k, u) ==
             GoodsMoved(p, v, k, u)
             + (Put(k, u, "stock_lost_expense", v, l) + Put(k, u, "payable", v, l))
             + (Put(k, u, "stock_broken_expense", v, b) + Put(k, u, "payable", v, b))
           There(k, u) ==
             GoodsMoved(p, w, k, u)
             + (Put(k, u, "stock_lost_expense", w, -l) + Put(k, u, "receivable", w, l))
             + (Put(k, u, "stock_broken_expense", w, -b) + Put(k, u, "receivable", w, b))
           A(t, k, u) == (IF t = w THEN Here(k, u) ELSE 0) + (IF t = v THEN There(k, u) ELSE 0)
<1>1. /\ v \in Seller /\ w \in Warehouse /\ v \in Party /\ w \in Party
      /\ v \notin Warehouse /\ w \notin Seller
  BY AdjustmentsAssumption, PartyAssumption, PartiesFinite
<1>2. l \in Int /\ b \in Int /\ p.broken \in Int
  <2>1. l \in Int /\ b \in Int
    BY ChargeAdds
  <2> QED
    BY <2>1, AdjustmentsAssumption
<1>3. ASSUME NEW t, NEW k, NEW u PROVE Gives(bs, t, k, u, A(t, k, u))
  <2> DEFINE m1 == WarehouseCharge(p, "stock_lost_expense")
             m2 == WarehouseCharge(p, "stock_broken_expense")
             n1 == SellerCharge(p, "stock_lost_expense")
             n2 == SellerCharge(p, "stock_broken_expense")
             m == Cat(Cat(GoodsMoves(p, v), m1), m2)
             n == Cat(Cat(GoodsMoves(p, w), n1), n2)
  <2>1. bs = <<Book(w, m), Book(v, n)>>
    BY DEF Cat, AdjustmentBooks
  <2>2. /\ Adds(m1, k, u, Put(k, u, "stock_lost_expense", v, l) + Put(k, u, "payable", v, l))
        /\ Adds(n1, k, u, Put(k, u, "stock_lost_expense", w, -l) + Put(k, u, "receivable", w, l))
    BY ChargeAdds
  <2>3. /\ Adds(m2, k, u, Put(k, u, "stock_broken_expense", v, b) + Put(k, u, "payable", v, b))
        /\ Adds(n2, k, u, Put(k, u, "stock_broken_expense", w, -b) + Put(k, u, "receivable", w, b))
    BY ChargeAdds
  <2>4. /\ Adds(GoodsMoves(p, v), k, u, GoodsMoved(p, v, k, u))
        /\ Adds(GoodsMoves(p, w), k, u, GoodsMoved(p, w, k, u))
    BY <1>1, GoodsAdds
  <2> HIDE DEF m1, m2, n1, n2, l, b
  <2>5. Adds(m, k, u, Here(k, u))
    BY <2>2, <2>3, <2>4, AddsCat
  <2>6. Adds(n, k, u, There(k, u))
    BY <2>2, <2>3, <2>4, AddsCat
  <2> HIDE DEF Here, There, m, n, bs
  <2> QED
    BY <1>1, <2>1, <2>5, <2>6, GivesPair
<1>4. \A t, k, u : Amount(e, <<t, k, u>>) = A(t, k, u)
  <2> HIDE DEF A, bs
  <2> QED
    BY <1>3, EffectGives
<1> HIDE DEF e, l, b, bs
<1>5. Claims(e)
  <2>1. ASSUME NEW t, NEW u
        PROVE  A(t, "receivable", u) = IF t = v /\ u = w THEN l + b ELSE 0
    BY <1>1, <1>2 DEF GoodsMoved, Put
  <2>2. ASSUME NEW t, NEW u
        PROVE  A(u, "payable", t) = IF t = v /\ u = w THEN l + b ELSE 0
    BY <1>1, <1>2 DEF GoodsMoved, Put
  <2> HIDE DEF A
  <2> QED
    BY <1>4, <2>1, <2>2 DEF Claims
<1>7. Stocks(e)
  BY <1>1, <1>2, <1>4 DEF Stocks, GoodsMoved, Put
<1>8. Transit(e)
  BY <1>4, NoTransit DEF GoodsMoved, Put
<1>9. \A s \in Seller : Ready(e, s)
  <2> DEFINE n == (IF p.broken > 0 THEN -p.broken ELSE 0) + (IF p.lost > 0 THEN -p.broken ELSE 0)
  <2>1. ASSUME NEW t, NEW u
        PROVE  /\ A(t, "stock_ready", u) = (IF t = w /\ u = v THEN n ELSE 0)
                                           + (IF t = v /\ u = w THEN n ELSE 0)
               /\ A(t, "stock_cost", u) = 0
    BY <1>1, <1>2 DEF GoodsMoved, Put
  <2>2. n \in Int
    BY <1>2
  <2> HIDE DEF A, n
  <2> QED
    BY <1>1, <1>4, <2>1, <2>2 DEF Ready
<1>10. bs \in Seq(TeamBook)
  BY <1>3 DEF Gives
<1> QED
  BY <1>5, <1>7, <1>8, <1>9, <1>10 DEF Agreed, e, bs
------------------------------------------------------------------------------
\* The books of a part of an order: the claims are debts, the goods are even,
\* and the other shared accounts are not touched.
Untouched == {"stock_lost_expense", "stock_broken_expense", "stock_broken", "stock_lost",
              "stock_transfer"}

Owing(bs) == \A t, u \in Party : On(bs, t, "receivable", u) = On(bs, u, "payable", t)

Stocked(bs) ==
  \A s \in Seller, w \in Warehouse :
    On(bs, s, "stock_ready", w) + On(bs, s, "stock_cost", w) =
    On(bs, w, "stock_ready", s) + On(bs, w, "stock_cost", s)

Even(bs) == /\ bs \in Seq(TeamBook) /\ Owing(bs) /\ Stocked(bs)
            /\ \A t, u \in Party, k \in Untouched : On(bs, t, k, u) = 0

\* Even books leave a ref that agrees.
LEMMA EvenAgrees ==
  ASSUME NEW bs, Even(bs)
  PROVE  /\ bs \in Seq(TeamBook)
         /\ Agreed(Effect(bs)) /\ \A s \in Seller : Ready(Effect(bs), s)
<1> DEFINE e == Effect(bs)
<1>1. \A t, k, u : Amount(e, <<t, k, u>>) = On(bs, t, k, u)
  BY EffectIs DEF Even
<1> HIDE DEF e
<1>2. \A t, u \in Party, k \in Untouched : Amount(e, <<t, k, u>>) = 0
  BY <1>1 DEF Even
<1>3. Claims(e)
  BY <1>1 DEF Claims, Even, Owing
<1>4. Stocks(e)
  <2>1. /\ {"stock_lost_expense", "stock_broken_expense"} \subseteq Untouched
        /\ {"stock_broken", "stock_lost"} \subseteq Untouched
    BY DEF Untouched
  <2>2. ASSUME NEW s \in Seller, NEW w \in Warehouse, NEW k \in Untouched
        PROVE  Amount(e, <<s, k, w>>) = 0 /\ Amount(e, <<w, k, s>>) = 0
    BY <1>2, PartiesFinite
  <2> QED
    BY <2>1, <2>2 DEF Stocks
<1>5. Transit(e)
  BY <1>2, NoTransit DEF Untouched
<1>6. \A s \in Seller : Ready(e, s)
  BY <1>1 DEF Ready, Even, Stocked
<1> QED
  BY <1>3, <1>4, <1>5, <1>6 DEF Agreed, Even, e

\* Nothing is even.
LEMMA EvenEmpty == Even(<<>>)
BY OnEmpty DEF Even, Owing, Stocked

\* So are books that are made only under a condition, and books put together.
LEMMA EvenWhen ==
  ASSUME NEW bs, NEW c, c => Even(bs)
  PROVE  Even(When(c, bs))
BY EvenEmpty DEF When

\* Even books put together are even.
LEMMA EvenCat ==
  ASSUME NEW bs, NEW ds, Even(bs), Even(ds)
  PROVE  Even(Cat(bs, ds))
<1>1. \A t, k, u : /\ Cat(bs, ds) \in Seq(TeamBook)
                   /\ On(bs, t, k, u) \in Int /\ On(ds, t, k, u) \in Int
                   /\ On(Cat(bs, ds), t, k, u) = On(bs, t, k, u) + On(ds, t, k, u)
  BY OnCat DEF Even
<1>2. Owing(Cat(bs, ds))
  BY <1>1 DEF Even, Owing
<1>3. Stocked(Cat(bs, ds))
  <2> DEFINE c == Cat(bs, ds)
  <2> SUFFICES ASSUME NEW s \in Seller, NEW w \in Warehouse
               PROVE  On(c, s, "stock_ready", w) + On(c, s, "stock_cost", w) =
                      On(c, w, "stock_ready", s) + On(c, w, "stock_cost", s)
    BY DEF Stocked
  <2>1. /\ On(bs, s, "stock_ready", w) + On(bs, s, "stock_cost", w) =
           On(bs, w, "stock_ready", s) + On(bs, w, "stock_cost", s)
        /\ On(ds, s, "stock_ready", w) + On(ds, s, "stock_cost", w) =
           On(ds, w, "stock_ready", s) + On(ds, w, "stock_cost", s)
    BY DEF Even, Stocked
  <2>2. ASSUME NEW t, NEW k, NEW u
        PROVE  /\ On(bs, t, k, u) \in Int /\ On(ds, t, k, u) \in Int
               /\ On(c, t, k, u) = On(bs, t, k, u) + On(ds, t, k, u)
    BY <1>1
  <2> HIDE DEF c
  <2>3. /\ On(c, s, "stock_ready", w) = On(bs, s, "stock_ready", w) + On(ds, s, "stock_ready", w)
        /\ On(c, s, "stock_cost", w) = On(bs, s, "stock_cost", w) + On(ds, s, "stock_cost", w)
        /\ On(c, w, "stock_ready", s) = On(bs, w, "stock_ready", s) + On(ds, w, "stock_ready", s)
        /\ On(c, w, "stock_cost", s) = On(bs, w, "stock_cost", s) + On(ds, w, "stock_cost", s)
    BY <2>2
  <2>4. \A b \in {bs, ds} : \A k \in {"stock_ready", "stock_cost"} :
          On(b, s, k, w) \in Int /\ On(b, w, k, s) \in Int
    BY <2>2
  <2> QED
    BY <2>1, <2>3, <2>4
<1>4. \A t, u \in Party, k \in Untouched : On(Cat(bs, ds), t, k, u) = 0
  BY <1>1 DEF Even
<1> QED
  BY <1>1, <1>2, <1>3, <1>4 DEF Even

\* The books of all borrowed items are even when those of each item are.
LEMMA EvenFlatten ==
  ASSUME NEW ss \in Seq(Seq(TeamBook)), \A j \in DOMAIN ss : Even(ss[j])
  PROVE  Even(FlattenSeq(ss))
<1> DEFINE f == FlattenSeq(ss)
           D == DOMAIN ss
           G(t, k, u) == [j \in D |-> On(ss[j], t, k, u)]
<1>1. f \in Seq(TeamBook) /\ IsFiniteSet(D)
  BY OnFlatten, SeqDomain
<1>2. \A t, k, u : On(f, t, k, u) = Total(G(t, k, u), D)
  BY OnFlatten
<1>3. \A t, k, u : \A j \in D : G(t, k, u)[j] = On(ss[j], t, k, u) /\ G(t, k, u)[j] \in Int
  BY OnType DEF Even
<1> HIDE DEF D, G, f
<1>4. Owing(f)
  <2> SUFFICES ASSUME NEW t \in Party, NEW u \in Party
               PROVE  Total(G(t, "receivable", u), D) = Total(G(u, "payable", t), D)
    BY <1>2 DEF Owing
  <2>1. \A j \in D : G(t, "receivable", u)[j] = G(u, "payable", t)[j]
    BY <1>3 DEF Even, Owing, D
  <2> QED
    BY <1>1, <2>1, TotalSame
<1>5. Stocked(f)
  <2> SUFFICES ASSUME NEW s \in Seller, NEW w \in Warehouse
               PROVE  Total(G(s, "stock_ready", w), D) + Total(G(s, "stock_cost", w), D) =
                      Total(G(w, "stock_ready", s), D) + Total(G(w, "stock_cost", s), D)
    BY <1>2 DEF Stocked
  <2> DEFINE g == G(s, "stock_ready", w)
             h == G(s, "stock_cost", w)
             k == G(w, "stock_ready", s)
             l == G(w, "stock_cost", s)
             m == [j \in D |-> g[j] + h[j]]
  <2>1. \A j \in D : /\ g[j] \in Int /\ h[j] \in Int /\ k[j] \in Int /\ l[j] \in Int
                     /\ g[j] + h[j] = k[j] + l[j]
    BY <1>3 DEF Even, Stocked, D
  <2> HIDE DEF g, h, k, l
  <2>2. \A j \in D : m[j] = g[j] + h[j] /\ m[j] = k[j] + l[j]
    BY <2>1
  <2> HIDE DEF m
  <2>3. Total(m, D) = Total(g, D) + Total(h, D)
    BY <1>1, <2>1, <2>2, TotalPlus
  <2>4. Total(m, D) = Total(k, D) + Total(l, D)
    BY <1>1, <2>1, <2>2, TotalPlus
  <2> QED
    BY <2>3, <2>4 DEF g, h, k, l
<1>6. ASSUME NEW t \in Party, NEW u \in Party, NEW k \in Untouched PROVE On(f, t, k, u) = 0
  <2>1. \A j \in D : G(t, k, u)[j] = 0
    BY <1>3 DEF Even, D
  <2> QED
    BY <1>1, <1>2, <2>1, TotalZero
<1> QED
  BY <1>1, <1>4, <1>5, <1>6 DEF Even, f

\* The parts of an order, with the numbers of its payload.
LEMMA OrderInts ==
  ASSUME NEW p \in OrderPayloads
  PROVE  /\ p.team \in Seller /\ p.team \in Party /\ p.team \notin Warehouse
         /\ p.warehouse \in Warehouse /\ p.warehouse \in Party /\ p.warehouse \notin Seller
         /\ p.fee \in Int /\ p.own \in Int /\ p.amount \in Int /\ p.extra \in Int
BY OrdersAssumption, PartyAssumption, PartiesFinite

\* The fee is income of the warehouse and a claim, cost and debt of the seller.
LEMMA FeeEven ==
  ASSUME NEW p \in OrderPayloads
  PROVE  Even(WarehouseFee(p))
<1> DEFINE v == p.team
           w == p.warehouse
           n == p.fee
           a == To("service_revenue", v, n)
           b == To("receivable", v, n)
           c == To("warehouse_cost", w, n)
           d == To("payable", w, n)
           bs == <<Book(w, Cat(a, b)), Book(v, Cat(c, d))>>
           A(t, k, u) ==
             (IF t = w THEN Put(k, u, "service_revenue", v, n) + Put(k, u, "receivable", v, n)
              ELSE 0)
             + (IF t = v THEN Put(k, u, "warehouse_cost", w, n) + Put(k, u, "payable", w, n)
                ELSE 0)
<1>1. /\ v \in Seller /\ v \in Party /\ v \notin Warehouse
      /\ w \in Warehouse /\ w \in Party /\ w \notin Seller /\ n \in Int
  BY OrderInts
<1>2. WarehouseFee(p) = When(p.fee # 0, bs)
  BY DEF WarehouseFee, Cat
<1>3. {"service_revenue", "receivable", "warehouse_cost", "payable"} \subseteq Name
  BY DEF Name
<1> HIDE DEF v, w, n
<1>4. ASSUME NEW t, NEW k, NEW u PROVE Gives(bs, t, k, u, A(t, k, u))
  <2>1. /\ Adds(a, k, u, Put(k, u, "service_revenue", v, n))
        /\ Adds(b, k, u, Put(k, u, "receivable", v, n))
        /\ Adds(c, k, u, Put(k, u, "warehouse_cost", w, n))
        /\ Adds(d, k, u, Put(k, u, "payable", w, n))
    BY <1>1, <1>3, AddsOne
  <2> HIDE DEF a, b, c, d
  <2>2. /\ Adds(Cat(a, b), k, u,
                Put(k, u, "service_revenue", v, n) + Put(k, u, "receivable", v, n))
        /\ Adds(Cat(c, d), k, u,
                Put(k, u, "warehouse_cost", w, n) + Put(k, u, "payable", w, n))
    BY <2>1, AddsCat
  <2> QED
    BY <1>1, <2>2, GivesPair
<1>5. Even(bs)
  <2>1. bs \in Seq(TeamBook) /\ \A t, k, u : On(bs, t, k, u) = A(t, k, u)
    BY <1>4 DEF Gives
  <2> HIDE DEF bs
  <2>2. Owing(bs)
    <3>1. ASSUME NEW t, NEW u
          PROVE  /\ A(t, "receivable", u) = IF t = w /\ u = v THEN n ELSE 0
                 /\ A(u, "payable", t) = IF t = w /\ u = v THEN n ELSE 0
      BY <1>1 DEF Put
    <3> HIDE DEF A
    <3> QED
      BY <2>1, <3>1 DEF Owing
  <2>3. Stocked(bs)
    BY <2>1 DEF Stocked, Put
  <2>4. \A t, u \in Party, k \in Untouched : On(bs, t, k, u) = 0
    BY <2>1 DEF Untouched, Put
  <2> QED
    BY <2>1, <2>2, <2>3, <2>4 DEF Even
<1> QED
  BY <1>2, <1>5, EvenWhen

\* The seller's own goods, once ready, are sold.
LEMMA OwnEven ==
  ASSUME NEW p \in OrderPayloads
  PROVE  Even(OwnProductStock(p))
<1> DEFINE v == p.team
           w == p.warehouse
           n == p.own
           a == From("stock_ready", w, n)
           b == To("stock_cost", w, n)
           bs == <<Book(v, Cat(a, b))>>
           A(t, k, u) ==
             IF t = v THEN Put(k, u, "stock_ready", w, -n) + Put(k, u, "stock_cost", w, n) ELSE 0
<1>1. /\ v \in Seller /\ v \in Party /\ v \notin Warehouse
      /\ w \in Warehouse /\ w \in Party /\ w \notin Seller /\ n \in Int
  BY OrderInts
<1>2. OwnProductStock(p) = When(p.own # 0, bs)
  BY DEF OwnProductStock, Cat
<1>3. {"stock_ready", "stock_cost"} \subseteq Name
  BY DEF Name
<1> HIDE DEF v, w, n
<1>4. ASSUME NEW t, NEW k, NEW u PROVE Gives(bs, t, k, u, A(t, k, u))
  <2>1. /\ Adds(a, k, u, Put(k, u, "stock_ready", w, -n))
        /\ Adds(b, k, u, Put(k, u, "stock_cost", w, n))
    BY <1>1, <1>3, AddsOne
  <2> HIDE DEF a, b
  <2>2. Adds(Cat(a, b), k, u, Put(k, u, "stock_ready", w, -n) + Put(k, u, "stock_cost", w, n))
    BY <2>1, AddsCat
  <2> QED
    BY <1>1, <2>2, GivesBook
<1>5. Even(bs)
  <2>1. bs \in Seq(TeamBook) /\ \A t, k, u : On(bs, t, k, u) = A(t, k, u)
    BY <1>4 DEF Gives
  <2> HIDE DEF bs
  <2>2. Owing(bs)
    BY <2>1 DEF Owing, Put
  <2>3. Stocked(bs)
    BY <1>1, <2>1 DEF Stocked, Put
  <2>4. \A t, u \in Party, k \in Untouched : On(bs, t, k, u) = 0
    BY <2>1 DEF Untouched, Put
  <2> QED
    BY <2>1, <2>2, <2>3, <2>4 DEF Even
<1> QED
  BY <1>2, <1>5, EvenWhen

\* A borrowed item: the lender claims what the borrower owes, and lender and
\* warehouse take the goods off their accounts.
LEMMA BorrowedEven ==
  ASSUME NEW p \in OrderPayloads, NEW q \in [team : Seller, amount : Int, sell : Int]
  PROVE  Even(Borrowed(p, q))
<1> DEFINE v == p.team
           w == p.warehouse
           l == q.team
           n == q.amount
           x == q.sell
           a == From("stock_ready", l, n)
           b == To("stock_to_borrow_cost", l, n)
           c == From("stock_ready", w, n)
           d == To("stock_to_borrow_cost", w, n)
           e == To("borrow_stock_revenue", v, x)
           f == To("receivable", v, x)
           g == To("stock_borrow_cost", l, x)
           h == To("payable", l, x)
           m1 == Cat(a, b)
           m2 == Cat(Cat(Cat(c, d), e), f)
           m3 == Cat(g, h)
           T1(k, u) == Put(k, u, "stock_ready", l, -n) + Put(k, u, "stock_to_borrow_cost", l, n)
           T2(k, u) == Put(k, u, "stock_ready", w, -n) + Put(k, u, "stock_to_borrow_cost", w, n)
                       + Put(k, u, "borrow_stock_revenue", v, x) + Put(k, u, "receivable", v, x)
           T3(k, u) == Put(k, u, "stock_borrow_cost", l, x) + Put(k, u, "payable", l, x)
           bs == Borrowed(p, q)
           A(t, k, u) == (IF t = w THEN T1(k, u) ELSE 0) + (IF t = l THEN T2(k, u) ELSE 0)
                         + (IF t = v THEN T3(k, u) ELSE 0)
<1>1. /\ v \in Seller /\ v \in Party /\ v \notin Warehouse
      /\ w \in Warehouse /\ w \in Party /\ w \notin Seller
      /\ l \in Seller /\ l \in Party /\ l \notin Warehouse /\ n \in Int /\ x \in Int
  BY OrderInts, PartiesFinite, PartyAssumption
<1>2. bs = Cat(<<Book(w, m1), Book(l, m2)>>, <<Book(v, m3)>>)
  BY DEF Borrowed, Cat
<1>3. {"stock_ready", "stock_to_borrow_cost", "borrow_stock_revenue", "receivable",
       "stock_borrow_cost", "payable"} \subseteq Name
  BY DEF Name
<1> HIDE DEF v, w, l, n, x, bs
<1>4. ASSUME NEW t, NEW k, NEW u PROVE Gives(bs, t, k, u, A(t, k, u))
  <2>1. /\ Adds(a, k, u, Put(k, u, "stock_ready", l, -n))
        /\ Adds(b, k, u, Put(k, u, "stock_to_borrow_cost", l, n))
        /\ Adds(c, k, u, Put(k, u, "stock_ready", w, -n))
        /\ Adds(d, k, u, Put(k, u, "stock_to_borrow_cost", w, n))
    BY <1>1, <1>3, AddsOne
  <2>2. /\ Adds(e, k, u, Put(k, u, "borrow_stock_revenue", v, x))
        /\ Adds(f, k, u, Put(k, u, "receivable", v, x))
        /\ Adds(g, k, u, Put(k, u, "stock_borrow_cost", l, x))
        /\ Adds(h, k, u, Put(k, u, "payable", l, x))
    BY <1>1, <1>3, AddsOne
  <2> HIDE DEF a, b, c, d, e, f, g, h
  <2>3. Adds(m1, k, u, T1(k, u)) /\ Adds(m3, k, u, T3(k, u))
    BY <2>1, <2>2, AddsCat
  <2>4. Adds(m2, k, u, T2(k, u))
    BY <2>1, <2>2, AddsCat
  <2> HIDE DEF m1, m2, m3, T1, T2, T3
  <2>5. Gives(<<Book(w, m1), Book(l, m2)>>, t, k, u,
              (IF t = w THEN T1(k, u) ELSE 0) + (IF t = l THEN T2(k, u) ELSE 0))
    BY <1>1, <2>3, <2>4, GivesPair
  <2>6. Gives(<<Book(v, m3)>>, t, k, u, IF t = v THEN T3(k, u) ELSE 0)
    BY <1>1, <2>3, GivesBook
  <2> QED
    BY <1>2, <2>5, <2>6, GivesCat
<1>5. bs \in Seq(TeamBook) /\ \A t, k, u : On(bs, t, k, u) = A(t, k, u)
  BY <1>4 DEF Gives
<1>6. Owing(bs)
  <2>1. ASSUME NEW t, NEW u
        PROVE  /\ A(t, "receivable", u) = IF t = l /\ u = v THEN x ELSE 0
               /\ A(u, "payable", t) = IF t = l /\ u = v THEN x ELSE 0
    BY <1>1 DEF Put
  <2> HIDE DEF A
  <2> QED
    BY <1>5, <2>1 DEF Owing
<1>7. Stocked(bs)
  <2>1. ASSUME NEW t, NEW u
        PROVE  /\ A(t, "stock_ready", u) = (IF t = w /\ u = l THEN -n ELSE 0)
                                           + (IF t = l /\ u = w THEN -n ELSE 0)
               /\ A(t, "stock_cost", u) = 0
    BY <1>1 DEF Put
  <2> HIDE DEF A
  <2> QED
    BY <1>1, <1>5, <2>1 DEF Stocked
<1>8. \A t, u \in Party, k \in Untouched : On(bs, t, k, u) = 0
  BY <1>5 DEF Untouched, Put
<1> QED
  BY <1>5, <1>6, <1>7, <1>8 DEF Even, bs

\* All borrowed items.
LEMMA CrossEven ==
  ASSUME NEW p \in OrderPayloads
  PROVE  Even(CrossProductStock(p))
<1> DEFINE ss == [j \in DOMAIN p.borrow |-> Borrowed(p, p.borrow[j])]
<1>1. p.borrow \in Seq([team : Seller, amount : Int, sell : Int])
  BY OrdersAssumption
<1>2. \A j \in DOMAIN p.borrow : Even(Borrowed(p, p.borrow[j]))
  <2>1. \A j \in DOMAIN p.borrow : p.borrow[j] \in [team : Seller, amount : Int, sell : Int]
    <3> DEFINE Item == [team : Seller, amount : Int, sell : Int]
               b == p.borrow
    <3>1. b \in Seq(Item)
      BY <1>1
    <3> HIDE DEF Item, b
    <3>2. \A j \in DOMAIN b : b[j] \in Item
      BY <3>1
    <3> QED
      BY <3>2 DEF Item, b
  <2> QED
    BY <2>1, BorrowedEven
<1>3. \A j \in DOMAIN ss : Even(ss[j]) /\ ss[j] \in Seq(TeamBook)
  BY <1>2 DEF Even
<1>4. DOMAIN ss = 1..Len(p.borrow) /\ Len(p.borrow) \in Nat
  BY <1>1
<1>5. ss \in Seq(Seq(TeamBook))
  <2> DEFINE n == Len(p.borrow)
  <2>1. ss \in [1..n -> Seq(TeamBook)] /\ n \in Nat
    BY <1>3, <1>4
  <2> HIDE DEF n, ss
  <2> QED
    BY <2>1, SeqDef
<1> HIDE DEF ss
<1>6. Even(FlattenSeq(ss))
  BY <1>3, <1>5, EvenFlatten
<1> QED
  BY <1>6 DEF CrossProductStock, ss

\* A book of the seller about itself that leaves the shared accounts alone,
\* but for the cost that stands for no warehouse.
LEMMA OwnBookEven ==
  ASSUME NEW v \in Seller, NEW m, NEW key \in Name, NEW other \in Name,
         key \notin Shared \ {"stock_cost"}, other \notin Shared \ {"stock_cost"},
         NEW x \in Int, NEW y \in Int,
         \A k, u : Adds(m, k, u, Put(k, u, key, v, x) + Put(k, u, other, v, y))
  PROVE  Even(<<Book(v, m)>>)
<1> DEFINE bs == <<Book(v, m)>>
           A(t, k, u) == IF t = v THEN Put(k, u, key, v, x) + Put(k, u, other, v, y) ELSE 0
<1>1. v \in Party /\ v \notin Warehouse
  BY PartiesFinite, PartyAssumption
<1>2. \A t, k, u : Gives(bs, t, k, u, A(t, k, u))
  BY <1>1, GivesBook
<1>3. bs \in Seq(TeamBook) /\ \A t, k, u : On(bs, t, k, u) = A(t, k, u)
  BY <1>2 DEF Gives
<1>4. \A t, u, k : k \in Shared \ {"stock_cost"} => A(t, k, u) = 0
  BY DEF Put
<1>5. \A t, u : u \in Warehouse \/ t # v => A(t, "stock_cost", u) = 0
  BY <1>1 DEF Put
<1>6. \A s \in Seller, w \in Warehouse : w # v /\ A(s, "stock_cost", w) = 0 /\ A(w, "stock_cost", s) = 0
  BY <1>1, <1>5
<1>7. Untouched \cup {"receivable", "payable", "stock_ready"} \subseteq Shared \ {"stock_cost"}
  BY DEF Untouched, Shared
<1> HIDE DEF A, bs
<1>8. Owing(bs) /\ Stocked(bs) /\ \A t, u \in Party, k \in Untouched : On(bs, t, k, u) = 0
  BY <1>3, <1>4, <1>6, <1>7 DEF Owing, Stocked
<1> QED
  BY <1>3, <1>8 DEF Even, bs

\* The seller's revenue and its extra payment concern no other team.
LEMMA RevenueEven ==
  ASSUME NEW p \in OrderPayloads
  PROVE  Even(RevenueOrder(p))
<1> DEFINE v == p.team
           n == IF p.custom THEN p.extra ELSE p.amount
           a == To("sales_revenue", v, n)
           b == To("selling_receivable", v, n)
           c == ~p.custom \/ (p.parent /\ p.payment = "fake")
<1>1. v \in Seller /\ v \in Party /\ n \in Int
  BY OrderInts
<1>2. RevenueOrder(p) = When(c, <<Book(v, Cat(a, b))>>)
  BY DEF RevenueOrder, Cat
<1>3. /\ {"sales_revenue", "selling_receivable"} \subseteq Name
      /\ "sales_revenue" \notin Shared /\ "selling_receivable" \notin Shared
  BY DEF Name, Shared
<1> HIDE DEF v, n, c
<1>4. \A k, u : Adds(Cat(a, b), k, u, Put(k, u, "sales_revenue", v, n)
                                     + Put(k, u, "selling_receivable", v, n))
  <2>1. \A k, u : /\ Adds(a, k, u, Put(k, u, "sales_revenue", v, n))
                  /\ Adds(b, k, u, Put(k, u, "selling_receivable", v, n))
    BY <1>1, <1>3, AddsOne
  <2> HIDE DEF a, b
  <2> QED
    BY <2>1, AddsCat
<1> HIDE DEF a, b
<1>5. Even(<<Book(v, Cat(a, b))>>)
  BY <1>1, <1>3, <1>4, OwnBookEven
<1> QED
  BY <1>2, <1>5, EvenWhen

\* The extra payment of an order is booked by its team alone.
LEMMA AdditionalEven ==
  ASSUME NEW p \in OrderPayloads
  PROVE  Even(AdditionalAmount(p))
<1> DEFINE v == p.team
           n == p.extra
           key == IF p.method = "cash" THEN "cash" ELSE "shopeepay"
           other == IF p.payment = "fake" THEN "fake_order_expense" ELSE "stock_cost"
           x == IF p.method \in {"cash", "shopeepay"} THEN -n ELSE 0
           a == When(p.method \in {"cash", "shopeepay"}, From(p.method, v, n))
           b == To(other, v, n)
<1>1. v \in Seller /\ v \in Party /\ n \in Int /\ x \in Int
  BY OrderInts
<1>2. AdditionalAmount(p) = When(p.payment # "none", <<Book(v, Cat(a, b))>>)
  BY DEF AdditionalAmount, Cat
<1>3. key \in Name /\ other \in Name /\ {"cash", "shopeepay"} \subseteq Name
  BY DEF Name
<1>4. key \notin Shared \ {"stock_cost"} /\ other \notin Shared \ {"stock_cost"}
  BY DEF Shared
<1>5. ASSUME NEW k, NEW u PROVE Adds(a, k, u, Put(k, u, key, v, x))
  <2>1. CASE p.method \in {"cash", "shopeepay"}
    <3>1. p.method = key /\ x = -n /\ a = From(key, v, n)
      BY <2>1 DEF When
    <3> HIDE DEF a, key, x
    <3> QED
      BY <1>1, <1>3, <3>1, AddsOne
  <2>2. CASE p.method \notin {"cash", "shopeepay"}
    <3>1. a = <<>> /\ x = 0 /\ Put(k, u, key, v, x) = 0
      BY <2>2 DEF When, Put
    <3> HIDE DEF a, key, x
    <3> QED
      BY <3>1, TallyEmpty DEF Adds
  <2> QED
    BY <2>1, <2>2
<1>6. \A k, u : Adds(b, k, u, Put(k, u, other, v, n))
  BY <1>1, <1>3, AddsOne
<1> HIDE DEF v, n, a, b, key, other, x
<1>7. \A k, u : Adds(Cat(a, b), k, u, Put(k, u, key, v, x) + Put(k, u, other, v, n))
  BY <1>5, <1>6, AddsCat
<1>8. Even(<<Book(v, Cat(a, b))>>)
  BY <1>1, <1>3, <1>4, <1>7, OwnBookEven
<1> QED
  BY <1>2, <1>8, EvenWhen

\* The books of an order.
OrderBooks(p) == WarehouseFee(p) \o OwnProductStock(p) \o CrossProductStock(p)
                 \o RevenueOrder(p) \o AdditionalAmount(p)

\* They are even, whatever parts the order has.
LEMMA OrderEven ==
  ASSUME NEW p \in OrderPayloads
  PROVE  Even(OrderBooks(p))
<1> DEFINE a == WarehouseFee(p)
           b == OwnProductStock(p)
           c == CrossProductStock(p)
           d == RevenueOrder(p)
           e == AdditionalAmount(p)
<1>1. OrderBooks(p) = Cat(Cat(Cat(Cat(a, b), c), d), e)
  BY DEF OrderBooks, Cat
<1>2. Even(a) /\ Even(b) /\ Even(c) /\ Even(d) /\ Even(e)
  BY FeeEven, OwnEven, CrossEven, RevenueEven, AdditionalEven
<1> HIDE DEF a, b, c, d, e
<1> QED
  BY <1>1, <1>2, EvenCat

\* Goods that come back are even: their cost and what is pending stay with the
\* seller and the warehouse alike.
ReturnBooks(p) ==
  <<Book(p.team, From("stock_cost", p.warehouse, p.stock)
                 \o To("stock_pending", p.warehouse, p.stock)),
    Book(p.warehouse, From("stock_cost", p.team, p.stock)
                      \o To("stock_pending", p.team, p.stock))>>

\* The books of a return are even: both sides book the same goods.
LEMMA ReturnEven ==
  ASSUME NEW p \in Returns
  PROVE  Even(ReturnBooks(p))
<1> DEFINE v == p.team
           w == p.warehouse
           n == p.stock
           a == From("stock_cost", w, n)
           b == To("stock_pending", w, n)
           c == From("stock_cost", v, n)
           d == To("stock_pending", v, n)
           bs == ReturnBooks(p)
           A(t, k, u) ==
             (IF t = v THEN Put(k, u, "stock_cost", w, -n) + Put(k, u, "stock_pending", w, n)
              ELSE 0)
             + (IF t = w THEN Put(k, u, "stock_cost", v, -n) + Put(k, u, "stock_pending", v, n)
                ELSE 0)
<1>1. /\ v \in Seller /\ v \in Party /\ v \notin Warehouse
      /\ w \in Warehouse /\ w \in Party /\ w \notin Seller /\ n \in Int
  BY ReturnsAssumption, PartyAssumption, PartiesFinite
<1>2. bs = <<Book(v, Cat(a, b)), Book(w, Cat(c, d))>>
  BY DEF ReturnBooks, Cat
<1>3. {"stock_cost", "stock_pending"} \subseteq Name
  BY DEF Name
<1> HIDE DEF v, w, n, bs
<1>4. ASSUME NEW t, NEW k, NEW u PROVE Gives(bs, t, k, u, A(t, k, u))
  <2>1. /\ Adds(a, k, u, Put(k, u, "stock_cost", w, -n))
        /\ Adds(b, k, u, Put(k, u, "stock_pending", w, n))
        /\ Adds(c, k, u, Put(k, u, "stock_cost", v, -n))
        /\ Adds(d, k, u, Put(k, u, "stock_pending", v, n))
    BY <1>1, <1>3, AddsOne
  <2> HIDE DEF a, b, c, d
  <2>2. /\ Adds(Cat(a, b), k, u, Put(k, u, "stock_cost", w, -n) + Put(k, u, "stock_pending", w, n))
        /\ Adds(Cat(c, d), k, u, Put(k, u, "stock_cost", v, -n) + Put(k, u, "stock_pending", v, n))
    BY <2>1, AddsCat
  <2> QED
    BY <1>1, <1>2, <2>2, GivesPair
<1>5. bs \in Seq(TeamBook) /\ \A t, k, u : On(bs, t, k, u) = A(t, k, u)
  BY <1>4 DEF Gives
<1>6. Owing(bs)
  BY <1>5 DEF Owing, Put
<1>7. Stocked(bs)
  BY <1>1, <1>5 DEF Stocked, Put
<1>8. \A t, u \in Party, k \in Untouched : On(bs, t, k, u) = 0
  BY <1>5 DEF Untouched, Put
<1> QED
  BY <1>5, <1>6, <1>7, <1>8 DEF Even, bs
------------------------------------------------------------------------------
\* The sellers whose goods are moved, in some order.
LEMMA SellersIs ==
  ASSUME NEW S, S \subseteq Seller
  PROVE  SetToSeq(S) \in Seq(Seller) /\ \A j \in DOMAIN SetToSeq(S) : SetToSeq(S)[j] \in S
<1> DEFINE n == Cardinality(S)
<1>1. IsFiniteSet(S)
  BY PartyAssumption, FS_Subset
<1>2. n \in Nat /\ ExistsBijection(1..n, S)
  BY <1>1, FS_CardinalityType
<1>3. \E f \in [1..n -> S] : IsInjective(f)
  BY <1>2 DEF ExistsBijection, Bijection, Injection
<1>4. SetToSeq(S) \in [1..n -> S]
  BY <1>3 DEF SetToSeq
<1>5. SetToSeq(S) \in [1..n -> Seller]
  BY <1>4
<1> HIDE DEF n
<1> QED
  BY <1>2, <1>4, <1>5, SeqDef

\* The books of a move of goods: warehouse a has one with the moves xs of all
\* sellers qs, each seller one with its moves in ys.  On both sides ready goods
\* change by ns, and what is in transit, to b there and to c here, by ms.
MoveBooks(a, qs, xs, ys) ==
  Cat(<<Book(a, FlattenSeq(xs))>>, [j \in DOMAIN qs |-> Book(qs[j], ys[j])])

MovesGoods(a, b, c, qs, xs, ys, ns, ms) ==
  /\ qs \in Seq(Seller) /\ xs \in Seq(Seq(Move)) /\ ys \in Seq(Seq(Move))
  /\ DOMAIN xs = DOMAIN qs /\ DOMAIN ys = DOMAIN qs
  /\ \A j \in DOMAIN qs :
       /\ ns[j] \in Int /\ ms[j] \in Int
       /\ \A k, u : /\ Tally(xs[j], k, u) = Put(k, u, "stock_ready", qs[j], ns[j])
                                            + Put(k, u, "stock_transfer", b, ms[j])
                    /\ Tally(ys[j], k, u) = Put(k, u, "stock_ready", a, ns[j])
                                            + Put(k, u, "stock_transfer", c, ms[j])

\* What they add, as sums over the sellers.
AtWarehouse(xs, k, u) == [j \in DOMAIN xs |-> Tally(xs[j], k, u)]
AtSeller(qs, ys, t, k, u) == [j \in DOMAIN qs |-> IF qs[j] = t THEN Tally(ys[j], k, u) ELSE 0]

\* The books of a move of goods hold these sums.
LEMMA MoveGives ==
  ASSUME NEW a \in Warehouse, NEW b, NEW c, NEW qs, NEW xs, NEW ys, NEW ns, NEW ms,
         MovesGoods(a, b, c, qs, xs, ys, ns, ms)
  PROVE  LET bs == MoveBooks(a, qs, xs, ys)
         IN /\ bs \in Seq(TeamBook)
            /\ \A t, k, u :
                 On(bs, t, k, u) = (IF t = a THEN Total(AtWarehouse(xs, k, u), DOMAIN qs) ELSE 0)
                                   + Total(AtSeller(qs, ys, t, k, u), DOMAIN qs)
<1> DEFINE f == <<Book(a, FlattenSeq(xs))>>
           g == [j \in DOMAIN qs |-> Book(qs[j], ys[j])]
           n == Len(qs)
<1>1. /\ qs \in Seq(Seller) /\ xs \in Seq(Seq(Move)) /\ ys \in Seq(Seq(Move))
      /\ DOMAIN xs = DOMAIN qs /\ DOMAIN ys = DOMAIN qs
  BY DEF MovesGoods
<1>2. DOMAIN qs = 1..n /\ n \in Nat
  BY <1>1
<1>3. \A j \in DOMAIN qs : qs[j] \in Seller /\ ys[j] \in Seq(Move)
  BY <1>1
<1>4. \A j \in DOMAIN qs : g[j] \in TeamBook /\ g[j].team = qs[j] /\ g[j].moves = ys[j]
  BY <1>3, PartiesFinite DEF Book, TeamBook
<1>5. g \in Seq(TeamBook) /\ DOMAIN g = DOMAIN qs
  <2>1. g \in [1..n -> TeamBook]
    BY <1>2, <1>4
  <2> HIDE DEF g, n
  <2> QED
    BY <1>2, <2>1, SeqDef
<1>6. ASSUME NEW t, NEW k, NEW u
      PROVE  On(g, t, k, u) = Total(AtSeller(qs, ys, t, k, u), DOMAIN qs)
  <2>1. Shares(g, t, k, u) = AtSeller(qs, ys, t, k, u)
    BY <1>4, <1>5 DEF Shares, AtSeller
  <2> QED
    BY <1>5, <2>1 DEF On
<1>7. ASSUME NEW t, NEW k, NEW u
      PROVE  Gives(f, t, k, u, IF t = a THEN Total(AtWarehouse(xs, k, u), DOMAIN qs) ELSE 0)
  <2>1. Adds(FlattenSeq(xs), k, u, Total(AtWarehouse(xs, k, u), DOMAIN qs))
    <3>1. /\ FlattenSeq(xs) \in Seq(Move)
          /\ Tally(FlattenSeq(xs), k, u) = Total(AtWarehouse(xs, k, u), DOMAIN qs)
      BY <1>1, TallyFlatten DEF AtWarehouse
    <3>2. Tally(FlattenSeq(xs), k, u) \in Int
      BY <3>1, TallyType
    <3> QED
      BY <3>1, <3>2 DEF Adds
  <2> QED
    BY <2>1, PartiesFinite, GivesBook
<1> HIDE DEF f, g
<1>8. ASSUME NEW t, NEW k, NEW u
      PROVE  /\ Cat(f, g) \in Seq(TeamBook)
             /\ On(Cat(f, g), t, k, u) =
                  (IF t = a THEN Total(AtWarehouse(xs, k, u), DOMAIN qs) ELSE 0)
                  + Total(AtSeller(qs, ys, t, k, u), DOMAIN qs)
  BY <1>5, <1>6, <1>7, OnCat DEF Gives
<1> QED
  BY <1>8 DEF MoveBooks, f, g

\* The summands of a move, account by account.
LEMMA MoveSummands ==
  ASSUME NEW a \in Warehouse, NEW b \in Warehouse, NEW c \in Warehouse,
         NEW qs, NEW xs, NEW ys, NEW ns, NEW ms,
         MovesGoods(a, b, c, qs, xs, ys, ns, ms), NEW j \in DOMAIN qs, NEW t, NEW u
  PROVE  /\ ns[j] \in Int /\ ms[j] \in Int /\ qs[j] \in Seller
         /\ AtWarehouse(xs, "stock_ready", u)[j] = (IF u = qs[j] THEN ns[j] ELSE 0)
         /\ AtWarehouse(xs, "stock_transfer", u)[j] = (IF u = b THEN ms[j] ELSE 0)
         /\ AtSeller(qs, ys, t, "stock_ready", u)[j] =
              (IF qs[j] = t /\ u = a THEN ns[j] ELSE 0)
         /\ AtSeller(qs, ys, t, "stock_transfer", u)[j] =
              (IF qs[j] = t /\ u = c THEN ms[j] ELSE 0)
<1>1. ns[j] \in Int /\ ms[j] \in Int /\ j \in DOMAIN xs
  BY DEF MovesGoods
<1>2. qs[j] \in Seller
  BY DEF MovesGoods
<1>3. \A k, v : /\ Tally(xs[j], k, v) = Put(k, v, "stock_ready", qs[j], ns[j])
                                      + Put(k, v, "stock_transfer", b, ms[j])
                /\ Tally(ys[j], k, v) = Put(k, v, "stock_ready", a, ns[j])
                                      + Put(k, v, "stock_transfer", c, ms[j])
  BY DEF MovesGoods
<1>4. \A k : /\ AtWarehouse(xs, k, u)[j] = Tally(xs[j], k, u)
             /\ AtSeller(qs, ys, t, k, u)[j] = IF qs[j] = t THEN Tally(ys[j], k, u) ELSE 0
  BY <1>1 DEF AtWarehouse, AtSeller
<1> QED
  BY <1>1, <1>2, <1>3, <1>4 DEF Put

\* A move of goods leaves all other accounts alone.
LEMMA MoveQuiet ==
  ASSUME NEW a \in Warehouse, NEW b \in Warehouse, NEW c \in Warehouse,
         NEW qs, NEW xs, NEW ys, NEW ns, NEW ms,
         MovesGoods(a, b, c, qs, xs, ys, ns, ms), NEW j \in DOMAIN qs, NEW t, NEW u,
         NEW k, k \notin {"stock_ready", "stock_transfer"}
  PROVE  AtWarehouse(xs, k, u)[j] = 0 /\ AtSeller(qs, ys, t, k, u)[j] = 0
<1>1. j \in DOMAIN xs /\ Tally(xs[j], k, u) = 0 /\ Tally(ys[j], k, u) = 0
  BY DEF MovesGoods, Put
<1> QED
  BY <1>1 DEF AtWarehouse, AtSeller

\* The goods the sellers have in transit after a move are those the warehouse
\* has: both are the sum of ms.
LEMMA MoveTransit ==
  ASSUME NEW a \in Warehouse, NEW b \in Warehouse, NEW c \in Warehouse,
         NEW qs, NEW xs, NEW ys, NEW ns, NEW ms,
         MovesGoods(a, b, c, qs, xs, ys, ns, ms)
  PROVE  Transit(Effect(MoveBooks(a, qs, xs, ys)))
<1> DEFINE bs == MoveBooks(a, qs, xs, ys)
           e == Effect(bs)
           D == DOMAIN qs
           R == Seller \X Warehouse
           S == Warehouse \X Warehouse
           M == Total(ms, D)
           X(u) == AtWarehouse(xs, "stock_transfer", u)
           Y(t, u) == AtSeller(qs, ys, t, "stock_transfer", u)
<1>1. IsFiniteSet(D) /\ IsFiniteSet(R) /\ IsFiniteSet(S)
  <2>1. qs \in Seq(Seller)
    BY DEF MovesGoods
  <2> QED
    BY <2>1, SeqDomain, PartiesFinite
<1>2. \A t, u : Amount(e, <<t, "stock_transfer", u>>) =
                (IF t = a THEN Total(X(u), D) ELSE 0) + Total(Y(t, u), D)
  <2>1. /\ bs \in Seq(TeamBook)
        /\ \A t, k, u : On(bs, t, k, u) =
             (IF t = a THEN Total(AtWarehouse(xs, k, u), D) ELSE 0)
             + Total(AtSeller(qs, ys, t, k, u), D)
    BY MoveGives
  <2>2. \A t, k, u : Amount(e, <<t, k, u>>) = On(bs, t, k, u)
    BY <2>1, EffectIs
  <2> HIDE DEF bs, e, D
  <2> QED
    BY <2>1, <2>2
<1>3. \A j \in D : /\ ms[j] \in Int /\ qs[j] \in Seller
                   /\ \A u : X(u)[j] = IF u = b THEN ms[j] ELSE 0
                   /\ \A t, u : Y(t, u)[j] = IF qs[j] = t /\ u = c THEN ms[j] ELSE 0
  <2> SUFFICES ASSUME NEW j \in D, NEW t, NEW u
               PROVE  /\ ms[j] \in Int /\ qs[j] \in Seller
                      /\ X(u)[j] = IF u = b THEN ms[j] ELSE 0
                      /\ Y(t, u)[j] = IF qs[j] = t /\ u = c THEN ms[j] ELSE 0
    <3> HIDE DEF D, X, Y
    <3> QED
      OBVIOUS
  <2> QED
    BY MoveSummands
<1> HIDE DEF e, D, X, Y, bs
<1>4. M \in Int
  BY <1>1, <1>3, TotalType
<1>5. Total(Moving(e, S), S) = M
  <2>1. \A u : Total(X(u), D) = IF u = b THEN M ELSE 0
    <3>1. ASSUME NEW u, u = b PROVE Total(X(u), D) = M
      BY <1>1, <1>3, <3>1, TotalSame
    <3>2. ASSUME NEW u, u # b PROVE Total(X(u), D) = 0
      BY <1>1, <1>3, <3>2, TotalZero
    <3> QED
      BY <3>1, <3>2
  <2>2. ASSUME NEW t \in Warehouse, NEW u PROVE Total(Y(t, u), D) = 0
    <3>1. \A j \in D : Y(t, u)[j] = 0
      BY <1>3, PartyAssumption
    <3> QED
      BY <1>1, <3>1, TotalZero
  <2>3. ASSUME NEW t \in Warehouse, NEW u
        PROVE  Amount(e, <<t, "stock_transfer", u>>) = IF t = a /\ u = b THEN M ELSE 0
    <3> HIDE DEF M
    <3> QED
      BY <1>2, <1>4, <2>1, <2>2
  <2> DEFINE g == Moving(e, S)
             x == <<a, b>>
  <2>4. x \in S /\ g[x] = M /\ \A y \in S \ {x} : g[y] = 0
    <3>1. \A y \in S : g[y] = IF y[1] = a /\ y[2] = b THEN M ELSE 0
      BY <2>3 DEF Moving
    <3>2. x \in S /\ x[1] = a /\ x[2] = b /\ \A y \in S : y[1] = a /\ y[2] = b => y = x
      OBVIOUS
    <3> HIDE DEF g, x, S
    <3> QED
      BY <3>1, <3>2
  <2> HIDE DEF g, x, S
  <2>5. Total(g, S) = g[x]
    BY <1>1, <1>4, <2>4, TotalOne
  <2> QED
    BY <2>4, <2>5 DEF g
<1>6. Total(Moving(e, R), R) = M
  <2> DEFINE g == [j \in D |-> [y \in R |-> Y(y[1], y[2])[j]]]
             h == [y \in R |-> Y(y[1], y[2])]
             l == Moving(e, R)
  <2>1. ASSUME NEW y \in R PROVE l[y] = Total(h[y], D)
    <3>1. y[1] # a
      BY PartyAssumption
    <3>2. ASSUME NEW t, NEW u PROVE Total(Y(t, u), D) \in Int
      <4>1. \A j \in D : Y(t, u)[j] \in Int
        BY <1>3
      <4> QED
        BY <1>1, <4>1, TotalType
    <3>3. l[y] = Amount(e, <<y[1], "stock_transfer", y[2]>>)
      BY DEF Moving
    <3>4. h[y] = Y(y[1], y[2])
      OBVIOUS
    <3> HIDE DEF l, h
    <3> QED
      BY <1>2, <3>1, <3>2, <3>3, <3>4
  <2>2. ASSUME NEW j \in D PROVE ms[j] = Total(g[j], R)
    <3> DEFINE x == <<qs[j], c>>
               f == g[j]
    <3>1. \A y \in R : f[y] = IF y[1] = qs[j] /\ y[2] = c THEN ms[j] ELSE 0
      BY <1>3
    <3>2. x \in R /\ x[1] = qs[j] /\ x[2] = c
          /\ \A y \in R : y[1] = qs[j] /\ y[2] = c => y = x
      BY <1>3
    <3> HIDE DEF f, x, R
    <3>3. f[x] = ms[j] /\ f[x] \in Int /\ \A y \in R \ {x} : f[y] = 0
      BY <1>3, <3>1, <3>2
    <3>4. Total(f, R) = f[x]
      BY <1>1, <3>2, <3>3, TotalOne
    <3> QED
      BY <3>3, <3>4 DEF f
  <2>3. \A j \in D : \A y \in R : g[j][y] \in Int /\ h[y][j] = g[j][y]
    BY <1>3
  <2> HIDE DEF g, h, l, R
  <2>4. (\A y \in R : l[y] = Total(h[y], D)) /\ (\A j \in D : ms[j] = Total(g[j], R))
    BY <2>1, <2>2
  <2>5. Table(D, R, g, h, ms, l)
    BY <2>3, <2>4 DEF Table
  <2>6. Total(ms, D) = Total(l, R)
    BY <1>1, <2>5, TotalSwap
  <2> QED
    BY <2>6 DEF l
<1> QED
  BY <1>5, <1>6 DEF Transit, e, bs

\* The books of a move of goods agree.
LEMMA MoveAgrees ==
  ASSUME NEW a \in Warehouse, NEW b \in Warehouse, NEW c \in Warehouse,
         NEW qs, NEW xs, NEW ys, NEW ns, NEW ms,
         MovesGoods(a, b, c, qs, xs, ys, ns, ms)
  PROVE  LET bs == MoveBooks(a, qs, xs, ys)
         IN /\ bs \in Seq(TeamBook)
            /\ Agreed(Effect(bs)) /\ \A s \in Seller : Ready(Effect(bs), s)
<1> DEFINE bs == MoveBooks(a, qs, xs, ys)
           e == Effect(bs)
           D == DOMAIN qs
           X(k, u) == AtWarehouse(xs, k, u)
           Y(t, k, u) == AtSeller(qs, ys, t, k, u)
<1>1. IsFiniteSet(D) /\ bs \in Seq(TeamBook)
  <2>1. qs \in Seq(Seller)
    BY DEF MovesGoods
  <2> QED
    BY <2>1, SeqDomain, MoveGives
<1>2. ASSUME NEW t, NEW k, NEW u
      PROVE  Amount(e, <<t, k, u>>) =
             (IF t = a THEN Total(X(k, u), D) ELSE 0) + Total(Y(t, k, u), D)
  <2>1. On(bs, t, k, u) = (IF t = a THEN Total(X(k, u), D) ELSE 0) + Total(Y(t, k, u), D)
    BY MoveGives
  <2>2. Amount(e, <<t, k, u>>) = On(bs, t, k, u)
    BY <1>1, EffectIs
  <2> HIDE DEF bs, e, D, X, Y
  <2> QED
    BY <2>1, <2>2
<1>3. ASSUME NEW j \in D, NEW t, NEW u
      PROVE  /\ ns[j] \in Int /\ qs[j] \in Seller
             /\ X("stock_ready", u)[j] = IF u = qs[j] THEN ns[j] ELSE 0
             /\ Y(t, "stock_ready", u)[j] = IF qs[j] = t /\ u = a THEN ns[j] ELSE 0
  BY MoveSummands
<1>0. ASSUME NEW j \in D, NEW t, NEW u, NEW k, k \notin {"stock_ready", "stock_transfer"}
      PROVE  X(k, u)[j] = 0 /\ Y(t, k, u)[j] = 0
  BY <1>0, MoveQuiet
<1>4. Transit(e)
  BY MoveTransit
<1> HIDE DEF e, D, X, Y, bs
<1>5. ASSUME NEW t, NEW u, NEW k, k \notin {"stock_ready", "stock_transfer"}
      PROVE  Amount(e, <<t, k, u>>) = 0
  <2>1. (\A j \in D : X(k, u)[j] = 0) /\ (\A j \in D : Y(t, k, u)[j] = 0)
    BY <1>0, <1>5
  <2>2. Total(X(k, u), D) = 0 /\ Total(Y(t, k, u), D) = 0
    BY <1>1, <2>1, TotalZero
  <2> QED
    BY <1>2, <2>2
<1>6. Claims(e)
  BY <1>5 DEF Claims
<1>7. Stocks(e)
  <2>1. \A key \in {"stock_lost_expense", "stock_broken_expense", "stock_broken", "stock_lost"} :
          key \notin {"stock_ready", "stock_transfer"}
    OBVIOUS
  <2> QED
    BY <1>5, <2>1 DEF Stocks
<1>8. ASSUME NEW s \in Seller PROVE Ready(e, s)
  <2> SUFFICES ASSUME NEW w \in Warehouse
               PROVE  Amount(e, <<s, "stock_ready", w>>) = Amount(e, <<w, "stock_ready", s>>)
                      /\ Amount(e, <<s, "stock_ready", w>>) \in Int
    BY <1>5 DEF Ready
  <2>0. s # a
    BY PartyAssumption
  <2> DEFINE g == Y(s, "stock_ready", w)
             h == X("stock_ready", s)
             i == Y(w, "stock_ready", s)
  <2>1. \A j \in D : /\ g[j] = (IF qs[j] = s /\ w = a THEN ns[j] ELSE 0) /\ g[j] \in Int
                     /\ h[j] = (IF s = qs[j] THEN ns[j] ELSE 0)
                     /\ i[j] = 0
    <3>1. ASSUME NEW j \in D
          PROVE  /\ ns[j] \in Int /\ qs[j] # w
                 /\ g[j] = (IF qs[j] = s /\ w = a THEN ns[j] ELSE 0)
                 /\ h[j] = (IF s = qs[j] THEN ns[j] ELSE 0)
                 /\ i[j] = IF qs[j] = w /\ s = a THEN ns[j] ELSE 0
      BY <1>3, PartyAssumption
    <3> HIDE DEF g, h, i
    <3> QED
      BY <3>1
  <2>2. /\ Amount(e, <<s, "stock_ready", w>>) = 0 + Total(g, D)
        /\ Amount(e, <<w, "stock_ready", s>>) = (IF w = a THEN Total(h, D) ELSE 0) + Total(i, D)
    BY <1>2, <2>0
  <2> HIDE DEF g, h, i
  <2>3. Total(i, D) = 0 /\ Total(g, D) \in Int
    BY <1>1, <2>1, TotalZero, TotalType
  <2>4. CASE w = a
    <3>1. Total(g, D) = Total(h, D)
      BY <1>1, <2>1, <2>4, TotalSame
    <3> QED
      BY <2>2, <2>3, <2>4, <3>1
  <2>5. CASE w # a
    <3>1. Total(g, D) = 0
      BY <1>1, <2>1, <2>5, TotalZero
    <3> QED
      BY <2>2, <2>3, <2>5, <3>1
  <2> QED
    BY <2>4, <2>5
<1> QED
  BY <1>1, <1>4, <1>6, <1>7, <1>8 DEF Agreed, e, bs

\* A function on the positions 1..n is a sequence.
LEMMA FunSeq ==
  ASSUME NEW S, NEW n \in Nat, NEW f \in [1..n -> S]
  PROVE  f \in Seq(S)
BY SeqDef

\* The books of the two transfer handlers.
TransferBooks(p) ==
  <<Book(p.from, AllSellers(p, LAMBDA t :
       From("stock_ready", t, p.goods[t]) \o To("stock_transfer", p.to, p.goods[t])))>>
  \o SellerBooks(p, LAMBDA t :
       From("stock_ready", p.from, p.goods[t]) \o To("stock_transfer", p.to, p.goods[t]))

ArrivalBooks(p) ==
  <<Book(p.to, AllSellers(p, LAMBDA t :
       From("stock_transfer", p.from, p.goods[t]) \o To("stock_ready", t, p.goods[t])))>>
  \o SellerBooks(p, LAMBDA t : SellerArrival(p, t))

\* The first is a move of goods: ns are no longer ready, ms are in transit.
LEMMA TransferMoves ==
  ASSUME NEW p \in Transfers,
         NEW qs, qs = SetToSeq(DOMAIN p.goods),
         NEW xs, xs = [j \in DOMAIN qs |-> Cat(From("stock_ready", qs[j], p.goods[qs[j]]),
                                               To("stock_transfer", p.to, p.goods[qs[j]]))],
         NEW ys, ys = [j \in DOMAIN qs |-> Cat(From("stock_ready", p.from, p.goods[qs[j]]),
                                               To("stock_transfer", p.to, p.goods[qs[j]]))],
         NEW ns, NEW ms, \A j \in DOMAIN qs : ms[j] = p.goods[qs[j]] /\ ns[j] = -ms[j]
  PROVE  /\ TransferBooks(p) = MoveBooks(p.from, qs, xs, ys)
         /\ MovesGoods(p.from, p.to, p.to, qs, xs, ys, ns, ms)
<1> DEFINE v == p.from
           w == p.to
           D == DOMAIN qs
           n == Len(qs)
<1>1. v \in Party /\ w \in Party /\ DOMAIN p.goods \subseteq Seller
      /\ \A t \in DOMAIN p.goods : p.goods[t] \in Int
  BY TransfersAssumption, PartiesFinite
<1>2. qs \in Seq(Seller) /\ \A j \in D : qs[j] \in DOMAIN p.goods
  BY <1>1, SellersIs
<1>3. D = 1..n /\ n \in Nat
  BY <1>2
<1>4. {"stock_ready", "stock_transfer"} \subseteq Name
  BY DEF Name
<1>5. ASSUME NEW j \in D
      PROVE  /\ ns[j] \in Int /\ ms[j] \in Int /\ xs[j] \in Seq(Move) /\ ys[j] \in Seq(Move)
             /\ \A k, u : /\ Tally(xs[j], k, u) = Put(k, u, "stock_ready", qs[j], ns[j])
                                                  + Put(k, u, "stock_transfer", w, ms[j])
                          /\ Tally(ys[j], k, u) = Put(k, u, "stock_ready", v, ns[j])
                                                  + Put(k, u, "stock_transfer", w, ms[j])
  <2> DEFINE t == qs[j]
             g == ms[j]
             h == ns[j]
             x == xs[j]
             y == ys[j]
             a == From("stock_ready", t, g)
             b == To("stock_transfer", w, g)
             c == From("stock_ready", v, g)
  <2>1. g \in Int /\ h = -g /\ t \in Party
    BY <1>1, <1>2, PartiesFinite
  <2>2. x = Cat(a, b) /\ y = Cat(c, b)
    OBVIOUS
  <2> HIDE DEF v, w, t, g, h, x, y
  <2>3. \A k, u : /\ Adds(a, k, u, Put(k, u, "stock_ready", t, -g))
                  /\ Adds(b, k, u, Put(k, u, "stock_transfer", w, g))
                  /\ Adds(c, k, u, Put(k, u, "stock_ready", v, -g))
    BY <1>1, <1>4, <2>1, AddsOne
  <2> HIDE DEF a, b, c
  <2>4. \A k, u : /\ Adds(x, k, u, Put(k, u, "stock_ready", t, h)
                                   + Put(k, u, "stock_transfer", w, g))
                  /\ Adds(y, k, u, Put(k, u, "stock_ready", v, h)
                                   + Put(k, u, "stock_transfer", w, g))
    BY <2>1, <2>2, <2>3, AddsCat
  <2>5. /\ x \in Seq(Move) /\ y \in Seq(Move) /\ h \in Int
        /\ \A k, u : /\ Tally(x, k, u) = Put(k, u, "stock_ready", t, h)
                                         + Put(k, u, "stock_transfer", w, g)
                     /\ Tally(y, k, u) = Put(k, u, "stock_ready", v, h)
                                         + Put(k, u, "stock_transfer", w, g)
    BY <2>1, <2>4 DEF Adds
  <2> QED
    BY <2>1, <2>5 DEF t, g, h, x, y
<1>6. /\ xs \in Seq(Seq(Move)) /\ DOMAIN xs = D
      /\ ys \in Seq(Seq(Move)) /\ DOMAIN ys = D
  <2>1. DOMAIN xs = D /\ DOMAIN ys = D
    OBVIOUS
  <2>2. xs \in [1..n -> Seq(Move)] /\ ys \in [1..n -> Seq(Move)]
    BY <1>3, <1>5, <2>1
  <2>3. xs \in Seq(Seq(Move)) /\ ys \in Seq(Seq(Move))
    <3> HIDE DEF n
    <3> QED
      BY <1>3, <2>2, FunSeq
  <2> QED
    BY <2>1, <2>3
<1>7. TransferBooks(p) = MoveBooks(v, qs, xs, ys)
  <2>1. AllSellers(p, LAMBDA t : From("stock_ready", t, p.goods[t])
                                 \o To("stock_transfer", p.to, p.goods[t])) = FlattenSeq(xs)
    BY DEF AllSellers, Cat
  <2>2. SellerBooks(p, LAMBDA t : From("stock_ready", p.from, p.goods[t])
                                  \o To("stock_transfer", p.to, p.goods[t])) =
        [j \in D |-> Book(qs[j], ys[j])]
    BY DEF SellerBooks, Cat
  <2> QED
    BY <2>1, <2>2 DEF TransferBooks, MoveBooks, Cat
<1>8. MovesGoods(v, w, w, qs, xs, ys, ns, ms)
  <2> HIDE DEF v, w
  <2> QED
    BY <1>2, <1>5, <1>6 DEF MovesGoods
<1> QED
  BY <1>7, <1>8

\* So is the second, with ns ready at the warehouse they went to and ms leaving
\* the transit accounts.
LEMMA ArrivalMoves ==
  ASSUME NEW p \in Transfers,
         NEW qs, qs = SetToSeq(DOMAIN p.goods),
         NEW xs, xs = [j \in DOMAIN qs |-> Cat(From("stock_transfer", p.from, p.goods[qs[j]]),
                                               To("stock_ready", qs[j], p.goods[qs[j]]))],
         NEW ys, ys = [j \in DOMAIN qs |-> Cat(From("stock_transfer", p.to, p.goods[qs[j]]),
                                               To("stock_ready", p.to, p.goods[qs[j]]))],
         NEW ns, NEW ms, \A j \in DOMAIN qs : ns[j] = p.goods[qs[j]] /\ ms[j] = -ns[j]
  PROVE  /\ ArrivalBooks(p) = MoveBooks(p.to, qs, xs, ys)
         /\ MovesGoods(p.to, p.from, p.to, qs, xs, ys, ns, ms)
<1> DEFINE v == p.from
           w == p.to
           D == DOMAIN qs
           n == Len(qs)
<1>1. v \in Party /\ w \in Party /\ DOMAIN p.goods \subseteq Seller
      /\ \A t \in DOMAIN p.goods : p.goods[t] \in Int
  BY TransfersAssumption, PartiesFinite
<1>2. qs \in Seq(Seller) /\ \A j \in D : qs[j] \in DOMAIN p.goods
  BY <1>1, SellersIs
<1>3. D = 1..n /\ n \in Nat
  BY <1>2
<1>4. {"stock_ready", "stock_transfer"} \subseteq Name
  BY DEF Name
<1>5. ASSUME NEW j \in D
      PROVE  /\ ns[j] \in Int /\ ms[j] \in Int /\ xs[j] \in Seq(Move) /\ ys[j] \in Seq(Move)
             /\ \A k, u : /\ Tally(xs[j], k, u) = Put(k, u, "stock_ready", qs[j], ns[j])
                                                  + Put(k, u, "stock_transfer", v, ms[j])
                          /\ Tally(ys[j], k, u) = Put(k, u, "stock_ready", w, ns[j])
                                                  + Put(k, u, "stock_transfer", w, ms[j])
  <2> DEFINE t == qs[j]
             g == ns[j]
             h == ms[j]
             x == xs[j]
             y == ys[j]
             a == From("stock_transfer", v, g)
             b == To("stock_ready", t, g)
             c == From("stock_transfer", w, g)
             d == To("stock_ready", w, g)
  <2>1. g \in Int /\ h = -g /\ t \in Party
    BY <1>1, <1>2, PartiesFinite
  <2>2. x = Cat(a, b) /\ y = Cat(c, d)
    OBVIOUS
  <2> HIDE DEF v, w, t, g, h, x, y
  <2>3. \A k, u : /\ Adds(a, k, u, Put(k, u, "stock_transfer", v, -g))
                  /\ Adds(b, k, u, Put(k, u, "stock_ready", t, g))
                  /\ Adds(c, k, u, Put(k, u, "stock_transfer", w, -g))
                  /\ Adds(d, k, u, Put(k, u, "stock_ready", w, g))
    BY <1>1, <1>4, <2>1, AddsOne
  <2> HIDE DEF a, b, c, d
  <2>4. \A k, u : /\ Adds(x, k, u, Put(k, u, "stock_transfer", v, h)
                                   + Put(k, u, "stock_ready", t, g))
                  /\ Adds(y, k, u, Put(k, u, "stock_transfer", w, h)
                                   + Put(k, u, "stock_ready", w, g))
    BY <2>1, <2>2, <2>3, AddsCat
  <2>5. /\ x \in Seq(Move) /\ y \in Seq(Move) /\ h \in Int
        /\ \A k, u : /\ Tally(x, k, u) = Put(k, u, "stock_ready", t, g)
                                         + Put(k, u, "stock_transfer", v, h)
                     /\ Tally(y, k, u) = Put(k, u, "stock_ready", w, g)
                                         + Put(k, u, "stock_transfer", w, h)
    <3>1. \A i \in {g, h} : \A k, u, key, owner : Put(k, u, key, owner, i) \in Int
      BY <2>1 DEF Put
    <3> QED
      BY <2>1, <2>4, <3>1 DEF Adds
  <2> QED
    BY <2>1, <2>5 DEF t, g, h, x, y
<1>6. /\ xs \in Seq(Seq(Move)) /\ DOMAIN xs = D
      /\ ys \in Seq(Seq(Move)) /\ DOMAIN ys = D
  <2>1. DOMAIN xs = D /\ DOMAIN ys = D
    OBVIOUS
  <2>2. xs \in [1..n -> Seq(Move)] /\ ys \in [1..n -> Seq(Move)]
    BY <1>3, <1>5, <2>1
  <2>3. xs \in Seq(Seq(Move)) /\ ys \in Seq(Seq(Move))
    <3> HIDE DEF n
    <3> QED
      BY <1>3, <2>2, FunSeq
  <2> QED
    BY <2>1, <2>3
<1>7. ArrivalBooks(p) = MoveBooks(w, qs, xs, ys)
  <2>1. AllSellers(p, LAMBDA t : From("stock_transfer", p.from, p.goods[t])
                                 \o To("stock_ready", t, p.goods[t])) = FlattenSeq(xs)
    BY DEF AllSellers, Cat
  <2>2. SellerBooks(p, LAMBDA t : SellerArrival(p, t)) = [j \in D |-> Book(qs[j], ys[j])]
    BY DEF SellerBooks, SellerArrival, Cat
  <2> QED
    BY <2>1, <2>2 DEF ArrivalBooks, MoveBooks, Cat
<1>8. MovesGoods(w, v, w, qs, xs, ys, ns, ms)
  <2> HIDE DEF v, w
  <2> QED
    BY <1>2, <1>5, <1>6 DEF MovesGoods
<1> QED
  BY <1>7, <1>8

\* The books of both handlers agree.
LEMMA TransferAgrees ==
  ASSUME NEW p \in Transfers, NEW bs \in {TransferBooks(p), ArrivalBooks(p)}
  PROVE  /\ bs \in Seq(TeamBook)
         /\ Agreed(Effect(bs)) /\ \A s \in Seller : Ready(Effect(bs), s)
<1> DEFINE qs == SetToSeq(DOMAIN p.goods)
           D == DOMAIN qs
           up == [j \in D |-> p.goods[qs[j]]]
           down == [j \in D |-> -p.goods[qs[j]]]
           xs == [j \in D |-> Cat(From("stock_ready", qs[j], p.goods[qs[j]]),
                                  To("stock_transfer", p.to, p.goods[qs[j]]))]
           ys == [j \in D |-> Cat(From("stock_ready", p.from, p.goods[qs[j]]),
                                  To("stock_transfer", p.to, p.goods[qs[j]]))]
           xa == [j \in D |-> Cat(From("stock_transfer", p.from, p.goods[qs[j]]),
                                  To("stock_ready", qs[j], p.goods[qs[j]]))]
           ya == [j \in D |-> Cat(From("stock_transfer", p.to, p.goods[qs[j]]),
                                  To("stock_ready", p.to, p.goods[qs[j]]))]
<1>1. p.from \in Warehouse /\ p.to \in Warehouse
  BY TransfersAssumption
<1>2. /\ TransferBooks(p) = MoveBooks(p.from, qs, xs, ys)
      /\ MovesGoods(p.from, p.to, p.to, qs, xs, ys, down, up)
  <2>1. \A j \in D : up[j] = p.goods[qs[j]] /\ down[j] = -up[j]
    OBVIOUS
  <2> HIDE DEF qs, up, down
  <2> QED
    BY <2>1, TransferMoves DEF qs
<1>3. /\ ArrivalBooks(p) = MoveBooks(p.to, qs, xa, ya)
      /\ MovesGoods(p.to, p.from, p.to, qs, xa, ya, up, down)
  <2>1. \A j \in D : up[j] = p.goods[qs[j]] /\ down[j] = -up[j]
    OBVIOUS
  <2> HIDE DEF qs, up, down
  <2> QED
    BY <2>1, ArrivalMoves DEF qs
<1> HIDE DEF qs, D, up, down, xs, ys, xa, ya
<1> QED
  BY <1>1, <1>2, <1>3, MoveAgrees
------------------------------------------------------------------------------
\* The moves m are on accounts of X, a set of pairs of key and owner.
Within(m, X) == m \in Seq(Move) /\ \A i \in DOMAIN m : <<m[i].key, m[i].owner>> \in X

\* One move, moves under a condition, and moves put together.
LEMMA WithinOne ==
  ASSUME NEW X, NEW key \in Name, NEW owner \in Party, NEW n \in Int, <<key, owner>> \in X
  PROVE  Within(To(key, owner, n), X) /\ Within(From(key, owner, n), X)
<1>1. ASSUME NEW a \in Int PROVE Within(To(key, owner, a), X)
  <2> DEFINE m == To(key, owner, a)
  <2>1. m \in Seq(Move) /\ DOMAIN m = {1} /\ m[1] = [key |-> key, owner |-> owner, amount |-> a]
    BY DEF To, Move
  <2> QED
    BY <2>1 DEF Within
<1>2. -n \in Int
  OBVIOUS
<1> QED
  BY <1>1, <1>2 DEF From

\* Moves that are made only under a condition.
LEMMA WithinWhen ==
  ASSUME NEW X, NEW m, NEW c, c => Within(m, X)
  PROVE  Within(When(c, m), X)
<1>1. Within(<<>>, X)
  BY TallyEmpty DEF Within
<1> QED
  BY <1>1 DEF When

\* Moves put together.
LEMMA WithinCat ==
  ASSUME NEW X, NEW m, NEW n, Within(m, X), Within(n, X)
  PROVE  Within(Cat(m, n), X)
<1> DEFINE a == Len(m)
           b == Len(n)
           c == m \o n
<1>1. m \in Seq(Move) /\ n \in Seq(Move)
  BY DEF Within
<1>2. /\ c \in Seq(Move) /\ Len(c) = a + b
      /\ \A i \in 1..a + b : c[i] = IF i <= a THEN m[i] ELSE n[i - a]
  BY <1>1, ConcatProperties
<1>3. /\ DOMAIN m = 1..a /\ DOMAIN n = 1..b /\ DOMAIN c = 1..(a + b)
      /\ a \in Nat /\ b \in Nat
  BY <1>1, <1>2
<1>4. ASSUME NEW i \in 1..(a + b) PROVE <<c[i].key, c[i].owner>> \in X
  <2>1. CASE i <= a
    BY <1>2, <1>3, <2>1 DEF Within
  <2>2. CASE ~(i <= a)
    <3>1. i - a \in 1..b
      BY <1>3, <2>2
    <3> QED
      BY <1>2, <1>3, <2>2, <3>1 DEF Within
  <2> QED
    BY <2>1, <2>2
<1> QED
  BY <1>2, <1>3, <1>4 DEF Within, Cat

\* The book of one team leaves a ref on its own accounts within X.
LEMMA EffectWithin ==
  ASSUME NEW v \in Party, NEW m, NEW X, Within(m, X)
  PROVE  /\ <<Book(v, m)>> \in Seq(TeamBook)
         /\ \A x \in DOMAIN Effect(<<Book(v, m)>>) : x[1] = v /\ <<x[2], x[3]>> \in X
         /\ \A t, k, u : Amount(Effect(<<Book(v, m)>>), <<t, k, u>>) =
                         IF t = v THEN Tally(m, k, u) ELSE 0
<1> DEFINE b == Book(v, m)
           bs == <<b>>
<1>1. m \in Seq(Move)
  BY DEF Within
<1>2. bs \in Seq(TeamBook) /\ \A t, k, u : On(bs, t, k, u) = IF t = v THEN Tally(m, k, u) ELSE 0
  BY <1>1, OnBook
<1>3. DOMAIN bs = {1} /\ bs[1] = b
  OBVIOUS
<1>4. DOMAIN Effect(bs) = Touched(b)
  BY <1>3 DEF Effect
<1>5. \A x \in Touched(b) : x[1] = v /\ <<x[2], x[3]>> \in X
  BY DEF Touched, Account, Book, Within
<1>6. \A t, k, u : Amount(Effect(bs), <<t, k, u>>) = On(bs, t, k, u)
  BY <1>2, EffectIs
<1> HIDE DEF b
<1>7. ASSUME NEW t, NEW k, NEW u
      PROVE  Amount(Effect(bs), <<t, k, u>>) = IF t = v THEN Tally(m, k, u) ELSE 0
  <2>1. On(bs, t, k, u) = IF t = v THEN Tally(m, k, u) ELSE 0
    BY <1>2
  <2>2. Amount(Effect(bs), <<t, k, u>>) = On(bs, t, k, u)
    BY <1>6
  <2> HIDE DEF bs
  <2> QED
    BY <2>1, <2>2
<1> QED
  BY <1>2, <1>4, <1>5, <1>7 DEF b

\* The accounts no move is on have no tally.
LEMMA WithinTally ==
  ASSUME NEW m, NEW X, Within(m, X), NEW k, NEW u, <<k, u>> \notin X
  PROVE  Tally(m, k, u) = 0
<1>1. m \in Seq(Move)
  BY DEF Within
<1>2. IsFiniteSet(DOMAIN m) /\ \A i \in DOMAIN m : Weights(m, k, u)[i] = 0
  BY <1>1, SeqDomain DEF Within, Weights
<1> QED
  BY <1>2, TotalZero DEF Tally
------------------------------------------------------------------------------
\* The accounts of a seller's inbound: what pays for it, and what is pending.
InboundKeys == {"cash", "shopeepay", "stock_pending"}
Paying(v, w) == {<<"cash", v>>, <<"shopeepay", v>>, <<"stock_pending", w>>}

\* Commit's sum over a book whose accounts are debit accounts.
LEMMA RawIs ==
  ASSUME NEW b, b.moves \in Seq(Move), \A i \in DOMAIN b.moves : b.moves[i].key \notin CreditKeys
  PROVE  MapThenSumSet(LAMBDA i : Raw(b.moves[i]), DOMAIN b.moves)
           = Total(Amounted(b), DOMAIN b.moves)
<1> DEFINE S == DOMAIN b.moves
           g == Amounted(b)
           it == CHOOSE it : it = [s \in SUBSET S |-> IF s = {} THEN 0 ELSE
                   Raw(b.moves[CHOOSE i \in s : TRUE]) + it[s \ {CHOOSE i \in s : TRUE}]]
<1>0. IsFiniteSet(S)
  BY SeqDomain
<1>1. MapThenSumSet(LAMBDA i : Raw(b.moves[i]), S) = it[S]
  BY DEF MapThenSumSet, MapThenFoldSet
<1>2. \A s \in SUBSET S : s # {} => Raw(b.moves[Pick(s)]) = g[Pick(s)]
  BY PickIn DEF Amounted, Raw
<1>3. PICK f : Sums(f, g, SUBSET S)
  BY <1>0, SumsExists
<1>4. f = [s \in SUBSET S |-> IF s = {} THEN 0 ELSE
             Raw(b.moves[CHOOSE i \in s : TRUE]) + f[s \ {CHOOSE i \in s : TRUE}]]
  BY <1>2, <1>3 DEF Sums, Pick
<1>5. it = [s \in SUBSET S |-> IF s = {} THEN 0 ELSE
             Raw(b.moves[CHOOSE i \in s : TRUE]) + it[s \ {CHOOSE i \in s : TRUE}]]
  <2> DEFINE Rec(v) == [s \in SUBSET S |-> IF s = {} THEN 0 ELSE
        Raw(b.moves[CHOOSE i \in s : TRUE]) + v[s \ {CHOOSE i \in s : TRUE}]]
  <2>1. f = Rec(f) /\ it = CHOOSE v : v = Rec(v)
    BY <1>4, Zenon
  <2> HIDE DEF Rec, it
  <2>2. it = Rec(it)
    BY <2>1, Zenon
  <2> QED
    BY <2>2, Zenon DEF Rec
<1>6. Sums(it, g, SUBSET S)
  <2> HIDE DEF it
  <2> QED
    BY <1>2, <1>5 DEF Sums, Pick
<1>7. Total(g, S) = it[S]
  <2> HIDE DEF it, g, S
  <2> QED
    BY <1>0, <1>6, TotalIs
<1> QED
  BY <1>1, <1>7

\* A book Commit saved on these accounts is in balance, and pays something.
LEMMA InboundBalance ==
  ASSUME NEW v \in Seller, NEW w \in Warehouse, NEW m, Within(m, Paying(v, w)),
         Accepted(Book(v, m))
  PROVE  LET c == Tally(m, "cash", v)
             s == Tally(m, "shopeepay", v)
             p == Tally(m, "stock_pending", w)
         IN /\ c \in Int /\ s \in Int /\ p \in Int
            /\ c + s + p = 0 /\ (c # 0 \/ s # 0)
<1> DEFINE b == Book(v, m)
           D == DOMAIN m
           a == Amounted(b)
           f == Weights(m, "cash", v)
           g == Weights(m, "shopeepay", v)
           h == Weights(m, "stock_pending", w)
           fg == [i \in D |-> f[i] + g[i]]
<1>1. v \in Party /\ m \in Seq(Move) /\ b.team = v /\ b.moves = m /\ b \in TeamBook
  BY PartiesFinite DEF Within, Book, TeamBook
<1>2. IsFiniteSet(D) /\ \A i \in D : m[i] \in Move /\ <<m[i].key, m[i].owner>> \in Paying(v, w)
  BY <1>1, SeqDomain DEF Within
<1>3. \A i \in D : m[i].key \notin CreditKeys
  BY <1>2 DEF Paying, CreditKeys
<1>4. Total(a, D) = 0
  BY <1>1, <1>3, RawIs DEF Accepted
<1>5. \A i \in D : /\ f[i] \in Int /\ g[i] \in Int /\ h[i] \in Int
                   /\ fg[i] = f[i] + g[i] /\ a[i] = fg[i] + h[i]
  <2>1. \A i \in D : /\ a[i] = m[i].amount /\ a[i] \in Int
                     /\ f[i] = (IF m[i].key = "cash" /\ m[i].owner = v THEN a[i] ELSE 0)
                     /\ g[i] = (IF m[i].key = "shopeepay" /\ m[i].owner = v THEN a[i] ELSE 0)
                     /\ h[i] = (IF m[i].key = "stock_pending" /\ m[i].owner = w THEN a[i] ELSE 0)
    BY <1>1, <1>2 DEF Amounted, Weights, Move
  <2>2. \A i \in D : \/ m[i].key = "cash" /\ m[i].owner = v
                     \/ m[i].key = "shopeepay" /\ m[i].owner = v
                     \/ m[i].key = "stock_pending" /\ m[i].owner = w
    BY <1>2 DEF Paying
  <2>3. \A i \in D : fg[i] = f[i] + g[i]
    OBVIOUS
  <2> HIDE DEF a, f, g, h, fg
  <2> QED
    BY <2>1, <2>2, <2>3
<1>6. \A i \in D : Net(b, Account(b, i)) # 0
  BY <1>1 DEF Accepted, Touched
<1>7. \A k, u : Net(b, <<v, k, u>>) = Tally(m, k, u)
  BY <1>1, NetIs
<1>8. PICK i \in D : TRUE
  <2>1. m # <<>>
    BY <1>1 DEF Accepted
  <2>2. Len(m) \in Nat \ {0} /\ D = 1..Len(m)
    BY <1>1, <2>1, EmptySeq, SeqDomain
  <2>3. 1 \in 1..Len(m)
    BY <2>2
  <2> QED
    BY <2>2, <2>3
<1>9. Tally(m, m[i].key, m[i].owner) # 0
  BY <1>1, <1>6, <1>7 DEF Account
<1>10. \/ Tally(m, "cash", v) # 0 \/ Tally(m, "shopeepay", v) # 0
       \/ Tally(m, "stock_pending", w) # 0
  BY <1>2, <1>9 DEF Paying
<1> HIDE DEF a, f, g, h, fg, D
<1>11. Total(fg, D) = Total(f, D) + Total(g, D)
  BY <1>2, <1>5, TotalPlus
<1>12. Total(a, D) = Total(fg, D) + Total(h, D)
  <2>1. \A j \in D : fg[j] \in Int /\ h[j] \in Int /\ a[j] = fg[j] + h[j]
    BY <1>5
  <2> QED
    BY <1>2, <2>1, TotalPlus
<1>13. Total(f, D) \in Int /\ Total(g, D) \in Int /\ Total(h, D) \in Int
  BY <1>2, <1>5, TotalType
<1>14. /\ Tally(m, "cash", v) = Total(f, D) /\ Tally(m, "shopeepay", v) = Total(g, D)
       /\ Tally(m, "stock_pending", w) = Total(h, D)
  BY DEF Tally, f, g, h, D
<1> QED
  BY <1>4, <1>10, <1>11, <1>12, <1>13, <1>14

\* The moves of the two handlers of an inbound.
CreateMoves(p) == Paid(p, p.goods + p.shipping)
                  \o To("stock_pending", p.warehouse, p.goods)
                  \o When(p.shipping > 0, To("stock_pending", p.warehouse, p.shipping))

UpdateMoves(p, goods, shipping) ==
  To("stock_pending", p.warehouse, goods)
  \o When(shipping # 0, To("stock_pending", p.warehouse, shipping))
  \o Paid(p, goods + shipping)

\* They stay on the accounts of an inbound, and one method pays.
LEMMA InboundMoves ==
  ASSUME NEW p \in Inbounds, NEW g \in Int, NEW h \in Int,
         NEW m \in {CreateMoves(p), UpdateMoves(p, g, h)}
  PROVE  /\ Within(m, Paying(p.team, p.warehouse))
         /\ Tally(m, "cash", p.team) = 0 \/ Tally(m, "shopeepay", p.team) = 0
<1> DEFINE v == p.team
           w == p.warehouse
           X == IF p.method = "cash" THEN {<<"cash", v>>, <<"stock_pending", w>>}
                ELSE {<<"shopeepay", v>>, <<"stock_pending", w>>}
<1>1. v \in Party /\ w \in Party /\ p.goods \in Int /\ p.shipping \in Int
  BY InboundsAssumption, PartiesFinite
<1>2. InboundKeys \subseteq Name
  BY DEF InboundKeys, Name
<1>3. ASSUME NEW n \in Int, NEW c
      PROVE  /\ Within(Paid(p, n), X) /\ Within(To("stock_pending", w, n), X)
             /\ Within(When(c, To("stock_pending", w, n)), X)
  <2>1. p.method \in {"cash", "shopeepay"} => p.method \in Name /\ <<p.method, v>> \in X
    BY <1>2 DEF InboundKeys
  <2>2. <<"stock_pending", w>> \in X /\ "stock_pending" \in Name
    BY <1>2 DEF InboundKeys
  <2> HIDE DEF X, v, w
  <2>3. p.method \in {"cash", "shopeepay"} => Within(From(p.method, v, n), X)
    BY <1>1, <2>1, WithinOne
  <2>4. Within(When(p.method \in {"cash", "shopeepay"}, From(p.method, v, n)), X)
    BY <2>3, WithinWhen
  <2>5. Within(To("stock_pending", w, n), X)
    BY <1>1, <2>2, WithinOne
  <2>6. Within(When(c, To("stock_pending", w, n)), X)
    BY <2>5, WithinWhen
  <2> QED
    BY <2>4, <2>5, <2>6 DEF Paid, v
<1>4. Within(m, X)
  <2>1. /\ p.goods + p.shipping \in Int /\ g + h \in Int
    BY <1>1
  <2> HIDE DEF X, w
  <2>2. CASE m = CreateMoves(p)
    <3> DEFINE a == Paid(p, p.goods + p.shipping)
               b == To("stock_pending", w, p.goods)
               c == When(p.shipping > 0, To("stock_pending", w, p.shipping))
    <3>1. m = Cat(Cat(a, b), c)
      BY <2>2 DEF CreateMoves, Cat, w
    <3>2. Within(a, X) /\ Within(b, X) /\ Within(c, X)
      BY <1>1, <1>3, <2>1
    <3> HIDE DEF a, b, c
    <3> QED
      BY <3>1, <3>2, WithinCat
  <2>3. CASE m = UpdateMoves(p, g, h)
    <3> DEFINE a == To("stock_pending", w, g)
               b == When(h # 0, To("stock_pending", w, h))
               c == Paid(p, g + h)
    <3>1. m = Cat(Cat(a, b), c)
      BY <2>3 DEF UpdateMoves, Cat, w
    <3>2. Within(a, X) /\ Within(b, X) /\ Within(c, X)
      BY <1>3, <2>1
    <3> HIDE DEF a, b, c
    <3> QED
      BY <3>1, <3>2, WithinCat
  <2> QED
    BY <2>2, <2>3
<1>5. <<"cash", v>> \notin X \/ <<"shopeepay", v>> \notin X
  OBVIOUS
<1>6. X \subseteq Paying(v, w)
  BY DEF Paying
<1> HIDE DEF X
<1> QED
  BY <1>4, <1>5, <1>6, WithinTally DEF Within
------------------------------------------------------------------------------
\* What a seller paid for a restock is pending for it, and one method paid.
PendingAt(e, s) == [w \in Warehouse |-> Amount(e, <<s, "stock_pending", w>>)]
Pending(e, s) ==
  LET cash == Amount(e, <<s, "cash", s>>)
      shopeepay == Amount(e, <<s, "shopeepay", s>>)
  IN /\ cash = 0 \/ shopeepay = 0
     /\ cash + shopeepay + Total(PendingAt(e, s), Warehouse) = 0

\* A seller paid in the entries of a return: an update turned it into a purchase.
Updated(e, s) == Amount(e, <<s, "cash", s>>) # 0 \/ Amount(e, <<s, "shopeepay", s>>) # 0

\* The book of an inbound leaves both, whatever else is in the ref.
LEMMA InboundPending ==
  ASSUME NEW v \in Seller, NEW w \in Warehouse, NEW m, Within(m, Paying(v, w)),
         Tally(m, "cash", v) = 0 \/ Tally(m, "shopeepay", v) = 0, Accepted(Book(v, m)),
         NEW e, \A k, u : Amount(e, <<v, k, u>>) = Tally(m, k, u)
  PROVE  Pending(e, v) /\ Updated(e, v)
<1> DEFINE c == Tally(m, "cash", v)
           s == Tally(m, "shopeepay", v)
           p == Tally(m, "stock_pending", w)
           g == PendingAt(e, v)
<1>1. c \in Int /\ s \in Int /\ p \in Int /\ c + s + p = 0 /\ (c # 0 \/ s # 0)
  BY InboundBalance
<1>2. g[w] = p /\ \A u \in Warehouse \ {w} : g[u] = 0
  <2>1. \A u \in Warehouse : g[u] = Tally(m, "stock_pending", u)
    BY DEF PendingAt
  <2>2. ASSUME NEW u \in Warehouse \ {w} PROVE Tally(m, "stock_pending", u) = 0
    <3>1. <<"stock_pending", u>> \notin Paying(v, w)
      BY DEF Paying
    <3> QED
      BY <3>1, WithinTally
  <2> HIDE DEF g
  <2> QED
    BY <2>1, <2>2
<1> HIDE DEF g
<1>3. Total(g, Warehouse) = p
  BY <1>1, <1>2, PartyAssumption, TotalOne
<1> QED
  BY <1>1, <1>3 DEF Pending, Updated, g
------------------------------------------------------------------------------
\* The reset of an update clears the rows of the team, and no others.
LEMMA ResetIs ==
  ASSUME NEW e, IsEntries(e), NEW v
  PROVE  /\ IsEntries(ResetTeam(e, v)) /\ DOMAIN ResetTeam(e, v) = DOMAIN e
         /\ \A t, k, u : Amount(ResetTeam(e, v), <<t, k, u>>) =
                         IF t = v THEN 0 ELSE Amount(e, <<t, k, u>>)
<1>1. \A x \in DOMAIN e : x \in Party \X Name \X Party /\ e[x] \in Int
  BY DEF IsEntries
<1>2. /\ DOMAIN ResetTeam(e, v) = DOMAIN e
      /\ \A x \in DOMAIN e : ResetTeam(e, v)[x] = IF x[1] = v THEN 0 ELSE e[x]
  BY DEF ResetTeam
<1>3. ASSUME NEW t, NEW k, NEW u
      PROVE  Amount(ResetTeam(e, v), <<t, k, u>>) = IF t = v THEN 0 ELSE Amount(e, <<t, k, u>>)
  <2> DEFINE x == <<t, k, u>>
  <2>1. x[1] = t
    OBVIOUS
  <2> HIDE DEF x
  <2> QED
    BY <1>2, <2>1 DEF Amount, x
<1> QED
  BY <1>1, <1>2, <1>3 DEF IsEntries

\* Reset and new book: the team's rows are those of the book alone.
LEMMA UpdateIs ==
  ASSUME NEW e, IsEntries(e), NEW v \in Party, NEW m, NEW X, Within(m, X)
  PROVE  LET one == Effect(<<Book(v, m)>>)
             f == Merged(ResetTeam(e, v), one)
         IN /\ IsEntries(f) /\ DOMAIN f = DOMAIN e \cup DOMAIN one
            /\ \A t, k, u : Amount(f, <<t, k, u>>) =
                            IF t = v THEN Tally(m, k, u) ELSE Amount(e, <<t, k, u>>)
<1> DEFINE one == Effect(<<Book(v, m)>>)
           d == ResetTeam(e, v)
           f == Merged(d, one)
<1>1. /\ IsEntries(d) /\ DOMAIN d = DOMAIN e
      /\ \A t, k, u : Amount(d, <<t, k, u>>) = IF t = v THEN 0 ELSE Amount(e, <<t, k, u>>)
  BY ResetIs
<1>2. /\ IsEntries(one)
      /\ \A t, k, u : Amount(one, <<t, k, u>>) = IF t = v THEN Tally(m, k, u) ELSE 0
  <2> DEFINE bs == <<Book(v, m)>>
  <2>1. bs \in Seq(TeamBook)
    BY EffectWithin
  <2>2. \A t, k, u : Amount(one, <<t, k, u>>) = IF t = v THEN Tally(m, k, u) ELSE 0
    BY EffectWithin
  <2> HIDE DEF bs
  <2>3. IsEntries(Effect(bs))
    BY <2>1, EffectIs
  <2> QED
    BY <2>2, <2>3 DEF bs
<1>3. DOMAIN f = DOMAIN d \cup DOMAIN one
  BY DEF Merged
<1> HIDE DEF d, one
<1>4. /\ IsEntries(f)
      /\ \A x : /\ Amount(d, x) \in Int /\ Amount(one, x) \in Int
                /\ Amount(f, x) = Amount(d, x) + Amount(one, x)
  BY <1>1, <1>2, MergedIs
<1> HIDE DEF f
<1>5. ASSUME NEW t, NEW k, NEW u
      PROVE  Amount(f, <<t, k, u>>) = IF t = v THEN Tally(m, k, u) ELSE Amount(e, <<t, k, u>>)
  BY <1>1, <1>2, <1>4
<1> QED
  BY <1>1, <1>3, <1>4, <1>5 DEF d, one, f
------------------------------------------------------------------------------
\* What holds of every ref by itself.  The goods of a seller may differ only in
\* a return that an update turned into a purchase.
ReadyKept(r, e) ==
  \A s \in Seller : Ready(e, s) \/ (r[1] = "stock_return" /\ Updated(e, s))
RestockKept(e) == /\ \A x \in DOMAIN e : x[2] \in InboundKeys
                  /\ \A s \in Seller : Pending(e, s)
ReturnKept(e) == \A x \in DOMAIN e : x[2] \in InboundKeys \cup {"stock_cost"}
OneCorrection(e) ==
  \E p \in HandPayloads :
    LET one == Effect(<<Book(p.team, HandMoves(p))>>)
    IN \A x \in DOMAIN one \cup DOMAIN e :
         x \in DOMAIN e /\ e[x] = IF x \in DOMAIN one THEN one[x] ELSE 0

RefAgrees(r, e) == /\ IsEntries(e) /\ Agreed(e) /\ ReadyKept(r, e)
                   /\ r[1] = "restock" => RestockKept(e)
                   /\ r[1] = "stock_return" => ReturnKept(e)
                   /\ r[1] = "selling_receivable" => OneCorrection(e)

\* The inductive invariant: every ref agrees, and there are finitely many.
FlowsInv ==
  /\ calls \in 0..MaxCalls
  /\ IsFiniteSet(DOMAIN ledger)
  /\ \A r \in DOMAIN ledger : r = <<r[1], r[2]>> /\ r[2] \in Id /\ RefAgrees(r, ledger[r])

\* A ref that is not one of the special three.
LEMMA PlainRef ==
  ASSUME NEW type, type \notin {"restock", "stock_return", "selling_receivable"}, NEW id,
         NEW e, IsEntries(e), Agreed(e), \A s \in Seller : Ready(e, s)
  PROVE  RefAgrees(<<type, id>>, e)
BY DEF RefAgrees, ReadyKept

\* A handler that posts books which agree keeps the invariant.
LEMMA PostStep ==
  ASSUME FlowsInv, NEW type, NEW id \in Id, NEW bs, Post(type, id, bs),
         RefAgrees(<<type, id>>, Effect(bs))
  PROVE  FlowsInv'
<1> DEFINE r == <<type, id>>
           e == Effect(bs)
<1>1. calls' \in 0..MaxCalls
  BY BoundAssumption DEF FlowsInv, Post, Called
<1>2. ledger' = [q \in DOMAIN ledger \cup {r} |-> IF q = r THEN e ELSE ledger[q]]
  BY DEF Post
<1> HIDE DEF e
<1>3. /\ DOMAIN ledger' = DOMAIN ledger \cup {r}
      /\ \A q \in DOMAIN ledger' : ledger'[q] = IF q = r THEN e ELSE ledger[q]
  BY <1>2
<1>4. IsFiniteSet(DOMAIN ledger')
  BY <1>3, FS_AddElement DEF FlowsInv
<1>5. r = <<r[1], r[2]>> /\ r[2] \in Id /\ RefAgrees(r, e)
  BY DEF e
<1> HIDE DEF r
<1>6. ASSUME NEW q \in DOMAIN ledger'
      PROVE  q = <<q[1], q[2]>> /\ q[2] \in Id /\ RefAgrees(q, ledger'[q])
  BY <1>3, <1>5 DEF FlowsInv
<1> QED
  BY <1>1, <1>4, <1>6 DEF FlowsInv

\* A handler that changes one ref, and leaves it in agreement, keeps it too.
LEMMA ReplaceStep ==
  ASSUME FlowsInv, NEW r \in DOMAIN ledger, NEW e, RefAgrees(r, e),
         ledger' = [ledger EXCEPT ![r] = e], calls < MaxCalls, calls' = calls + 1
  PROVE  FlowsInv'
<1>1. calls' \in 0..MaxCalls
  BY BoundAssumption DEF FlowsInv
<1>2. /\ DOMAIN ledger' = DOMAIN ledger
      /\ \A q \in DOMAIN ledger' : ledger'[q] = IF q = r THEN e ELSE ledger[q]
  OBVIOUS
<1>3. ASSUME NEW q \in DOMAIN ledger'
      PROVE  q = <<q[1], q[2]>> /\ q[2] \in Id /\ RefAgrees(q, ledger'[q])
  BY <1>2 DEF FlowsInv
<1> QED
  BY <1>1, <1>2, <1>3 DEF FlowsInv
------------------------------------------------------------------------------
\* A ref that holds nothing on a seller's own accounts leaves it nothing pending.
LEMMA NothingPending ==
  ASSUME NEW e, NEW s, \A k, u : Amount(e, <<s, k, u>>) = 0
  PROVE  Pending(e, s)
<1> DEFINE g == PendingAt(e, s)
<1>1. \A w \in Warehouse : g[w] = 0
  BY DEF PendingAt
<1> HIDE DEF g
<1>2. Total(g, Warehouse) = 0
  BY <1>1, PartyAssumption, TotalZero
<1> QED
  BY <1>2 DEF Pending, g

\* What is pending for a seller depends on its rows alone.
LEMMA SamePending ==
  ASSUME NEW e, NEW f, NEW s, \A k, u : Amount(f, <<s, k, u>>) = Amount(e, <<s, k, u>>)
  PROVE  (Pending(f, s) <=> Pending(e, s)) /\ (Updated(f, s) <=> Updated(e, s))
<1>1. PendingAt(f, s) = PendingAt(e, s)
  BY DEF PendingAt
<1> QED
  BY <1>1 DEF Pending, Updated

\* InboundCreate leaves a restock in agreement.
LEMMA InboundCreated ==
  ASSUME NEW p \in Inbounds, NEW id, Accepted(Book(p.team, CreateMoves(p)))
  PROVE  RefAgrees(<<"restock", id>>, Effect(<<Book(p.team, CreateMoves(p))>>))
<1> DEFINE v == p.team
           w == p.warehouse
           m == CreateMoves(p)
           bs == <<Book(v, m)>>
           e == Effect(bs)
<1>1. v \in Seller /\ w \in Warehouse /\ v \in Party
  BY InboundsAssumption, PartiesFinite
<1>2. /\ Within(m, Paying(v, w))
      /\ Tally(m, "cash", v) = 0 \/ Tally(m, "shopeepay", v) = 0
  <2>1. 0 \in Int /\ m \in {CreateMoves(p), UpdateMoves(p, 0, 0)}
    OBVIOUS
  <2> QED
    BY <2>1, InboundMoves
<1>3. Accepted(Book(v, m))
  OBVIOUS
<1> HIDE DEF v, w, m
<1>4. /\ bs \in Seq(TeamBook)
      /\ \A x \in DOMAIN e : x[1] = v /\ <<x[2], x[3]>> \in Paying(v, w)
      /\ \A t, k, u : Amount(e, <<t, k, u>>) = IF t = v THEN Tally(m, k, u) ELSE 0
  BY <1>1, <1>2, EffectWithin
<1> HIDE DEF bs
<1>5. IsEntries(e)
  BY <1>4, EffectIs
<1> HIDE DEF e
<1>6. \A x \in DOMAIN e : x[2] \in InboundKeys
  BY <1>4 DEF Paying, InboundKeys
<1>7. Agreed(e) /\ \A s \in Seller : Ready(e, s)
  BY <1>6, QuietAgrees, QuietReady DEF InboundKeys, Shared
<1>8. ASSUME NEW s \in Seller PROVE Pending(e, s)
  <2>1. CASE s = v
    BY <1>1, <1>2, <1>3, <1>4, <2>1, InboundPending
  <2>2. CASE s # v
    BY <1>4, <2>2, NothingPending
  <2> QED
    BY <2>1, <2>2
<1>9. RefAgrees(<<"restock", id>>, e)
  BY <1>5, <1>6, <1>7, <1>8 DEF RefAgrees, ReadyKept, RestockKept
<1> QED
  BY <1>9 DEF e, bs, m, v

\* InboundUpdate leaves the ref it updates in agreement.
LEMMA InboundUpdated ==
  ASSUME NEW p \in Inbounds, NEW g \in Int, NEW h \in Int, NEW r, NEW e, RefAgrees(r, e),
         r[1] \in {"restock", "stock_return"},
         Accepted(Book(p.team, UpdateMoves(p, g, h)))
  PROVE  RefAgrees(r, Merged(ResetTeam(e, p.team),
                             Effect(<<Book(p.team, UpdateMoves(p, g, h))>>)))
<1> DEFINE v == p.team
           w == p.warehouse
           m == UpdateMoves(p, g, h)
           one == Effect(<<Book(v, m)>>)
           f == Merged(ResetTeam(e, v), one)
<1>1. v \in Seller /\ w \in Warehouse /\ v \in Party /\ v \notin Warehouse
  BY InboundsAssumption, PartiesFinite, PartyAssumption
<1>2. /\ Within(m, Paying(v, w))
      /\ Tally(m, "cash", v) = 0 \/ Tally(m, "shopeepay", v) = 0
  <2>1. m \in {CreateMoves(p), UpdateMoves(p, g, h)}
    OBVIOUS
  <2> QED
    BY <2>1, InboundMoves
<1>3. Accepted(Book(v, m)) /\ IsEntries(e)
  BY DEF RefAgrees
<1> HIDE DEF v, w, m
<1>4. /\ IsEntries(f) /\ DOMAIN f = DOMAIN e \cup DOMAIN one
      /\ \A t, k, u : Amount(f, <<t, k, u>>) =
                      IF t = v THEN Tally(m, k, u) ELSE Amount(e, <<t, k, u>>)
  BY <1>1, <1>2, <1>3, UpdateIs
<1>5. \A x \in DOMAIN one : x[2] \in InboundKeys
  <2>1. \A x \in DOMAIN one : x[1] = v /\ <<x[2], x[3]>> \in Paying(v, w)
    BY <1>1, <1>2, EffectWithin
  <2> HIDE DEF one
  <2> QED
    BY <2>1 DEF Paying, InboundKeys
<1> HIDE DEF one, f
<1>6. Pending(f, v) /\ Updated(f, v)
  <2>1. \A k, u : Amount(f, <<v, k, u>>) = Tally(m, k, u)
    BY <1>4
  <2> QED
    BY <1>1, <1>2, <1>3, <2>1, InboundPending
<1>7. ASSUME NEW s \in Seller, s # v
      PROVE  (Pending(f, s) <=> Pending(e, s)) /\ (Updated(f, s) <=> Updated(e, s))
  BY <1>4, <1>7, SamePending
<1>8. CASE r[1] = "restock"
  <2>1. \A x \in DOMAIN f : x[2] \in InboundKeys
    BY <1>4, <1>5, <1>8 DEF RefAgrees, RestockKept
  <2>2. Agreed(f) /\ \A s \in Seller : Ready(f, s)
    BY <2>1, QuietAgrees, QuietReady DEF InboundKeys, Shared
  <2>3. \A s \in Seller : Pending(f, s)
    BY <1>6, <1>7, <1>8 DEF RefAgrees, RestockKept
  <2> QED
    BY <1>4, <1>8, <2>1, <2>2, <2>3 DEF RefAgrees, ReadyKept, RestockKept, f, one, m, v
<1>9. CASE r[1] = "stock_return"
  <2>1. \A x \in DOMAIN f : x[2] \in InboundKeys \cup {"stock_cost"}
    BY <1>4, <1>5, <1>9 DEF RefAgrees, ReturnKept
  <2>2. Agreed(f)
    BY <2>1, QuietAgrees DEF InboundKeys, Shared
  <2>3. ASSUME NEW s \in Seller PROVE Ready(f, s) \/ Updated(f, s)
    <3>1. CASE s = v
      BY <1>6, <3>1
    <3>2. CASE s # v
      <4>1. Ready(e, s) \/ Updated(e, s)
        BY <1>9 DEF RefAgrees, ReadyKept
      <4>2. Ready(f, s) <=> Ready(e, s)
        BY <1>1, <1>4, <3>2 DEF Ready
      <4> QED
        BY <1>7, <3>2, <4>1, <4>2
    <3> QED
      BY <3>1, <3>2
  <2> QED
    BY <1>4, <1>9, <2>1, <2>2, <2>3 DEF RefAgrees, ReadyKept, ReturnKept, f, one, m, v
<1> QED
  BY <1>8, <1>9
------------------------------------------------------------------------------
\* The books of a handler without updates, rollbacks aside.
LEMMA PlainPosted ==
  ASSUME NEW type, type \notin {"restock", "stock_return", "selling_receivable"}, NEW id,
         NEW bs \in Seq(TeamBook), Agreed(Effect(bs)), \A s \in Seller : Ready(Effect(bs), s)
  PROVE  RefAgrees(<<type, id>>, Effect(bs))
<1>1. IsEntries(Effect(bs))
  BY EffectIs
<1> QED
  BY <1>1, PlainRef

\* A rollback leaves nothing, and nothing agrees with nothing.
LEMMA ReversedAgrees ==
  ASSUME NEW type, type \notin {"restock", "stock_return", "selling_receivable"}, NEW id,
         NEW e, IsEntries(e)
  PROVE  RefAgrees(<<type, id>>, Reversed(e))
<1> DEFINE f == Reversed(e)
<1>1. IsEntries(f) /\ \A x : Amount(f, x) = 0
  BY ReversedIs
<1> HIDE DEF f
<1>2. Transit(f)
  BY <1>1, NoTransit
<1>3. Agreed(f) /\ \A s \in Seller : Ready(f, s)
  BY <1>1, <1>2 DEF Agreed, Claims, Stocks, Ready
<1> QED
  BY <1>1, <1>3, PlainRef DEF f

\* Agreement depends on the amounts alone.
LEMMA SameAgrees ==
  ASSUME NEW e, NEW f, \A t, k, u : Amount(f, <<t, k, u>>) = Amount(e, <<t, k, u>>),
         Agreed(e), \A s \in Seller : Ready(e, s)
  PROVE  Agreed(f) /\ \A s \in Seller : Ready(f, s)
<1>1. Claims(f) /\ Stocks(f)
  BY DEF Agreed, Claims, Stocks
<1>2. \A S : Moving(f, S) = Moving(e, S)
  BY DEF Moving
<1>3. Transit(f)
  BY <1>2 DEF Agreed, Transit
<1> QED
  BY <1>1, <1>3 DEF Agreed, Ready

\* The books of the two teams of a return touch what they say.
LEMMA PairKeys ==
  ASSUME NEW a, NEW b, NEW m, NEW n, NEW K, Within(m, K \X Party), Within(n, K \X Party)
  PROVE  \A x \in DOMAIN Effect(<<Book(a, m), Book(b, n)>>) : x[2] \in K
<1> DEFINE bs == <<Book(a, m), Book(b, n)>>
<1>1. DOMAIN bs = {1, 2} /\ bs[1] = Book(a, m) /\ bs[2] = Book(b, n)
  OBVIOUS
<1>2. \A x \in Touched(Book(a, m)) \cup Touched(Book(b, n)) : x[2] \in K
  <2>1. ASSUME NEW c, NEW l, Within(l, K \X Party) PROVE \A x \in Touched(Book(c, l)) : x[2] \in K
    <3>1. \A i \in DOMAIN l : l[i].key \in K
      BY <2>1 DEF Within
    <3> QED
      BY <3>1 DEF Touched, Account, Book
  <2> QED
    BY <2>1
<1>3. DOMAIN Effect(bs) = Touched(Book(a, m)) \cup Touched(Book(b, n))
  <2>1. DOMAIN Effect(bs) = UNION {Touched(bs[j]) : j \in DOMAIN bs}
    BY DEF Effect
  <2> HIDE DEF bs
  <2> QED
    BY <1>1, <2>1
<1> QED
  BY <1>2, <1>3

\* OrderReturn and StockReturn leave a return in agreement.
LEMMA ReturnAgrees ==
  ASSUME NEW p \in Returns, NEW id
  PROVE  RefAgrees(<<"stock_return", id>>, Effect(ReturnBooks(p)))
<1> DEFINE e == Effect(ReturnBooks(p))
           K == {"stock_cost", "stock_pending"}
           m == From("stock_cost", p.warehouse, p.stock)
                \o To("stock_pending", p.warehouse, p.stock)
           n == From("stock_cost", p.team, p.stock) \o To("stock_pending", p.team, p.stock)
<1>1. IsEntries(e) /\ Agreed(e) /\ \A s \in Seller : Ready(e, s)
  <2>1. /\ ReturnBooks(p) \in Seq(TeamBook)
        /\ Agreed(e) /\ \A s \in Seller : Ready(e, s)
    BY ReturnEven, EvenAgrees
  <2> QED
    BY <2>1, EffectIs
<1>2. ASSUME NEW u \in {p.team, p.warehouse}
      PROVE  Within(From("stock_cost", u, p.stock) \o To("stock_pending", u, p.stock), K \X Party)
  <2>1. u \in Party /\ p.stock \in Int /\ K \subseteq Name
    BY ReturnsAssumption, PartiesFinite DEF Name
  <2>2. /\ Within(From("stock_cost", u, p.stock), K \X Party)
        /\ Within(To("stock_pending", u, p.stock), K \X Party)
    BY <2>1, WithinOne
  <2> QED
    BY <2>2, WithinCat DEF Cat
<1>3. Within(m, K \X Party) /\ Within(n, K \X Party)
  BY <1>2
<1>4. e = Effect(<<Book(p.team, m), Book(p.warehouse, n)>>)
  BY DEF ReturnBooks
<1> HIDE DEF e, m, n
<1>5. \A x \in DOMAIN e : x[2] \in K
  BY <1>3, <1>4, PairKeys
<1>6. ReturnKept(e)
  BY <1>5 DEF ReturnKept, InboundKeys
<1> QED
  BY <1>1, <1>6 DEF RefAgrees, ReadyKept, e
------------------------------------------------------------------------------
\* The accounts of a seller with the marketplace.
MarketKeys == {"selling_receivable", "selling_adj_receivable", "selling_other_expense",
               "return_expense", "other_revenue", "cash"}

\* A book on these accounts touches nothing another team has a part in.
LEMMA OwnBook ==
  ASSUME NEW v \in Seller, NEW m, Within(m, MarketKeys \X {v})
  PROVE  LET bs == <<Book(v, m)>>
         IN /\ bs \in Seq(TeamBook) /\ IsEntries(Effect(bs))
            /\ Agreed(Effect(bs)) /\ \A s \in Seller : Ready(Effect(bs), s)
<1> DEFINE bs == <<Book(v, m)>>
           e == Effect(bs)
<1>1. bs \in Seq(TeamBook) /\ \A x \in DOMAIN e : x[1] = v /\ <<x[2], x[3]>> \in MarketKeys \X {v}
  BY PartiesFinite, EffectWithin
<1> HIDE DEF bs
<1>2. IsEntries(e)
  BY <1>1, EffectIs
<1> HIDE DEF e
<1>3. \A x \in DOMAIN e : x[2] \notin Shared
  BY <1>1 DEF MarketKeys, Shared
<1>4. Agreed(e) /\ \A s \in Seller : Ready(e, s)
  BY <1>3, QuietAgrees, QuietReady
<1> QED
  BY <1>1, <1>2, <1>4 DEF e, bs

\* One move on them, and a shift of the estimate.
LEMMA MarketMoves ==
  ASSUME NEW v \in Seller, NEW n \in Int
  PROVE  /\ \A key \in MarketKeys : /\ Within(To(key, v, n), MarketKeys \X {v})
                                    /\ Within(From(key, v, n), MarketKeys \X {v})
         /\ Within(Receivable(v, n), MarketKeys \X {v})
         /\ Within(Shift(v, n), MarketKeys \X {v})
<1> DEFINE X == MarketKeys \X {v}
<1>1. v \in Party /\ MarketKeys \subseteq Name
  BY PartiesFinite DEF MarketKeys, Name
<1>2. \A key \in MarketKeys : Within(To(key, v, n), X) /\ Within(From(key, v, n), X)
  BY <1>1, WithinOne
<1>3. {"selling_receivable", "selling_adj_receivable"} \subseteq MarketKeys
  BY DEF MarketKeys
<1>4. Within(Receivable(v, n), X)
  BY <1>2, <1>3 DEF Receivable
<1> DEFINE a == From("selling_receivable", v, n)
           b == To("selling_adj_receivable", v, n)
<1>5. Within(a, X) /\ Within(b, X)
  BY <1>2, <1>3
<1>6. Shift(v, n) = When(n # 0, Cat(a, b))
  BY DEF Shift, Cat
<1> HIDE DEF a, b, X
<1>7. Within(Shift(v, n), X)
  BY <1>5, <1>6, WithinCat, WithinWhen
<1> QED
  BY <1>2, <1>4, <1>7 DEF X

\* The moves of a fund are on these accounts.
LEMMA FundWithin ==
  ASSUME NEW p \in Funds
  PROVE  Within(FundMoves(p), MarketKeys \X {p.team})
<1> DEFINE v == p.team
           X == MarketKeys \X {v}
           a == To("return_expense", v, -p.amount)
           b == To("selling_adj_receivable", v, p.amount)
           c == Receivable(v, p.amount)
           d == Shift(v, p.est + p.amount)
<1>1. v \in Seller /\ p.amount \in Int /\ p.est \in Int
  BY FundsAssumption
<1>2. {"return_expense", "selling_adj_receivable"} \subseteq MarketKeys
  BY DEF MarketKeys
<1>3. -p.amount \in Int /\ p.est + p.amount \in Int /\ p.est - p.amount \in Int
  BY <1>1
<1>4. Within(a, X) /\ Within(b, X) /\ Within(c, X) /\ Within(d, X)
  BY <1>1, <1>2, <1>3, MarketMoves
<1>5. FundMoves(p) = IF p.amount > 0 THEN Shift(v, p.est - p.amount)
                     ELSE When(p.amount < 0, Cat(a, IF p.est = 0 THEN b ELSE Cat(c, d)))
  BY DEF FundMoves, Cat
<1> HIDE DEF a, b, c, d
<1>6. Within(Cat(c, d), X)
  BY <1>4, WithinCat
<1>7. Within(Cat(a, IF p.est = 0 THEN b ELSE Cat(c, d)), X)
  BY <1>4, <1>6, WithinCat
<1>8. Within(When(p.amount < 0, Cat(a, IF p.est = 0 THEN b ELSE Cat(c, d))), X)
  BY <1>7, WithinWhen
<1>9. Within(Shift(v, p.est - p.amount), X)
  BY <1>1, <1>3, MarketMoves
<1> QED
  BY <1>5, <1>8, <1>9

\* The moves of a correction by hand are on these accounts.
LEMMA HandWithin ==
  ASSUME NEW p \in HandPayloads
  PROVE  Within(HandMoves(p), MarketKeys \X {p.team})
<1> DEFINE v == p.team
           X == MarketKeys \X {v}
           a == Receivable(v, p.amount)
           b == To("return_expense", v, -p.amount)
           c == To("other_revenue", v, p.amount)
           d == Receivable(v, -p.amount)
           e == To("selling_other_expense", v, p.amount)
           f == Shift(v, p.amount)
<1>1. v \in Seller /\ p.amount \in Int /\ -p.amount \in Int
  BY AmountsAssumption
<1>2. {"return_expense", "other_revenue", "selling_other_expense"} \subseteq MarketKeys
  BY DEF MarketKeys
<1>3. /\ Within(a, X) /\ Within(b, X) /\ Within(c, X)
      /\ Within(d, X) /\ Within(e, X) /\ Within(f, X)
  BY <1>1, <1>2, MarketMoves
<1>4. HandMoves(p) \in {Cat(a, b), Cat(a, c), Cat(d, e), Cat(f, f), f}
  BY DEF HandMoves, Cat
<1> HIDE DEF a, b, c, d, e, f
<1>5. Within(Cat(a, b), X) /\ Within(Cat(a, c), X) /\ Within(Cat(d, e), X) /\ Within(Cat(f, f), X)
  BY <1>3, WithinCat
<1> QED
  BY <1>3, <1>4, <1>5

\* The two moves of the other calls, on two accounts.
LEMMA PairWithin ==
  ASSUME NEW v \in Seller, NEW i \in Int, NEW n \in Int,
         NEW k \in MarketKeys, NEW l \in MarketKeys
  PROVE  /\ Within(From(k, v, i) \o To(l, v, n), MarketKeys \X {v})
         /\ Within(To(k, v, i) \o To(l, v, n), MarketKeys \X {v})
<1>1. /\ Within(From(k, v, i), MarketKeys \X {v}) /\ Within(To(k, v, i), MarketKeys \X {v})
      /\ Within(To(l, v, n), MarketKeys \X {v})
  BY MarketMoves
<1> QED
  BY <1>1, WithinCat DEF Cat
------------------------------------------------------------------------------
\* A correction leaves what one call books, whatever the ref held before.
LEMMA Corrected ==
  ASSUME NEW p \in HandPayloads, NEW id, NEW e, IsEntries(e)
  PROVE  LET one == Effect(<<Book(p.team, HandMoves(p))>>)
         IN /\ RefAgrees(<<"selling_receivable", id>>, one)
            /\ RefAgrees(<<"selling_receivable", id>>, Merged(Reversed(e), one))
<1> DEFINE one == Effect(<<Book(p.team, HandMoves(p))>>)
           d == Reversed(e)
           f == Merged(d, one)
<1>1. p.team \in Seller
  BY AmountsAssumption
<1>2. IsEntries(one) /\ Agreed(one) /\ \A s \in Seller : Ready(one, s)
  BY <1>1, HandWithin, OwnBook
<1>3. \A x \in DOMAIN d : d[x] = 0
  BY DEF Reversed
<1>4. IsEntries(d) /\ \A x : Amount(d, x) = 0
  BY ReversedIs
<1>5. /\ DOMAIN f = DOMAIN d \cup DOMAIN one
      /\ \A x \in DOMAIN f : f[x] = IF x \in DOMAIN one THEN one[x] ELSE 0
  <2>1. \A x \in DOMAIN one : one[x] \in Int
    BY <1>2 DEF IsEntries
  <2> HIDE DEF d, one
  <2> QED
    BY <1>3, <2>1 DEF Merged
<1>6. OneCorrection(one)
  BY DEF OneCorrection
<1>7. OneCorrection(f)
  <2> HIDE DEF f
  <2>1. \A x \in DOMAIN one \cup DOMAIN f :
          x \in DOMAIN f /\ f[x] = IF x \in DOMAIN one THEN one[x] ELSE 0
    BY <1>5
  <2> QED
    BY <2>1 DEF OneCorrection
<1> HIDE DEF d, one
<1>8. IsEntries(f) /\ \A x : Amount(f, x) = Amount(one, x)
  <2>1. /\ IsEntries(f)
        /\ \A x : /\ Amount(d, x) \in Int /\ Amount(one, x) \in Int
                  /\ Amount(f, x) = Amount(d, x) + Amount(one, x)
    BY <1>2, <1>4, MergedIs
  <2> HIDE DEF f
  <2>2. \A x : Amount(f, x) = Amount(one, x)
    BY <1>4, <2>1
  <2> QED
    BY <2>1, <2>2
<1> HIDE DEF f
<1>9. Agreed(f) /\ \A s \in Seller : Ready(f, s)
  <2>1. \A t, k, u : Amount(f, <<t, k, u>>) = Amount(one, <<t, k, u>>)
    BY <1>8
  <2> QED
    BY <1>2, <2>1, SameAgrees
<1>10. RefAgrees(<<"selling_receivable", id>>, one)
  BY <1>2, <1>6 DEF RefAgrees, ReadyKept
<1>11. RefAgrees(<<"selling_receivable", id>>, f)
  BY <1>7, <1>8, <1>9 DEF RefAgrees, ReadyKept
<1> QED
  BY <1>10, <1>11 DEF f, d, one
------------------------------------------------------------------------------
\* The stock service keeps the invariant: restocks and returns.
LEMMA CreateStep ==
  ASSUME FlowsInv, NEW id \in Id, NEW p \in Inbounds, InboundCreate(id, p)
  PROVE  FlowsInv'
<1> DEFINE bs == <<Book(p.team, CreateMoves(p))>>
<1>1. Post("restock", id, bs)
  BY DEF InboundCreate, CreateMoves
<1>2. Accepted(Book(p.team, CreateMoves(p)))
  <2>1. 1 \in DOMAIN bs /\ bs[1] = Book(p.team, CreateMoves(p))
    OBVIOUS
  <2>2. \A j \in DOMAIN bs : Accepted(bs[j])
    BY <1>1 DEF Post, Called
  <2> HIDE DEF bs
  <2> QED
    BY <2>1, <2>2
<1>3. RefAgrees(<<"restock", id>>, Effect(bs))
  BY <1>2, InboundCreated
<1> HIDE DEF bs
<1> QED
  BY <1>1, <1>3, PostStep

\* An update of a restock or a return.
LEMMA UpdateStep ==
  ASSUME FlowsInv, NEW id \in Id, NEW source \in DOMAIN UpdateType, NEW p \in Inbounds,
         InboundUpdate(id, source, p)
  PROVE  FlowsInv'
<1> DEFINE r == <<UpdateType[source], id>>
           e == ledger[r]
           before == PendingBefore(r, p.team)
<1>1. r \in DOMAIN ledger /\ r[1] \in {"restock", "stock_return"}
  BY DEF InboundUpdate, UpdateType
<1>2. RefAgrees(r, e)
  BY <1>1 DEF FlowsInv
<1>3. p.goods \in Int /\ p.shipping \in Int
  BY InboundsAssumption
<1>4. before \subseteq Int
  BY <1>2 DEF PendingBefore, RefAgrees, IsEntries
<1> HIDE DEF before
<1>5. PICK goods \in (IF p.goods > 0 THEN {p.goods} ELSE before),
           shipping \in (IF p.shipping # 0 THEN {p.shipping}
                         ELSE IF before = {} THEN {0} ELSE before) :
        /\ Called(<<UpdateBook(p, goods, shipping)>>)
        /\ ledger' = [ledger EXCEPT ![r] =
                        Merged(ResetTeam(@, p.team), Effect(<<UpdateBook(p, goods, shipping)>>))]
  BY DEF InboundUpdate, before
<1>6. goods \in Int /\ shipping \in Int
  BY <1>3, <1>4, <1>5
<1>7. UpdateBook(p, goods, shipping) = Book(p.team, UpdateMoves(p, goods, shipping))
  BY DEF UpdateBook, UpdateMoves
<1> DEFINE b == Book(p.team, UpdateMoves(p, goods, shipping))
           bs == <<b>>
           f == Merged(ResetTeam(e, p.team), Effect(bs))
<1>8. Called(bs)
  BY <1>5, <1>7
<1>9. Accepted(b) /\ calls < MaxCalls /\ calls' = calls + 1
  <2>1. 1 \in DOMAIN bs /\ bs[1] = b
    OBVIOUS
  <2> HIDE DEF bs, b
  <2> QED
    BY <1>8, <2>1 DEF Called
<1>10. RefAgrees(r, f)
  BY <1>1, <1>2, <1>6, <1>9, InboundUpdated
<1>11. ledger' = [ledger EXCEPT ![r] = f]
  BY <1>5, <1>7
<1> HIDE DEF f, r
<1> QED
  BY <1>1, <1>9, <1>10, <1>11, ReplaceStep

\* The handlers that only post, those of the stock service and of orders.
LEMMA PlainStep ==
  ASSUME FlowsInv, NEW id \in Id, NEW type,
         type \notin {"restock", "stock_return", "selling_receivable"},
         NEW bs \in Seq(TeamBook), Agreed(Effect(bs)), \A s \in Seller : Ready(Effect(bs), s),
         Post(type, id, bs)
  PROVE  FlowsInv'
BY PlainPosted, PostStep

\* Acceptance, transfer, arrival and adjustment of goods.
LEMMA GoodsStep ==
  ASSUME FlowsInv, NEW id \in Id
  PROVE  /\ \A p \in Accepts : InboundAccept(id, p) => FlowsInv'
         /\ \A p \in Transfers : /\ TransferToWarehouse(id, p) => FlowsInv'
                                 /\ TransferToWarehouseAccept(id, p) => FlowsInv'
         /\ \A p \in Adjustments : StockAdjustment(id, p) => FlowsInv'
<1>1. ASSUME NEW p \in Accepts, InboundAccept(id, p) PROVE FlowsInv'
  <2> DEFINE bs == <<Book(p.warehouse, AcceptMoves(p, p.team, WarehouseClaim(p))),
                     Book(p.team, AcceptMoves(p, p.warehouse, To("payable", p.warehouse, p.cod)))>>
             type == AcceptType[p.source]
  <2>1. Post(type, id, bs)
    BY <1>1 DEF InboundAccept
  <2>2. bs \in Seq(TeamBook) /\ Agreed(Effect(bs)) /\ \A s \in Seller : Ready(Effect(bs), s)
    BY AcceptAgrees
  <2>3. type \notin {"restock", "stock_return", "selling_receivable"}
    BY AcceptsAssumption DEF AcceptType
  <2> HIDE DEF bs, type
  <2> QED
    BY <2>1, <2>2, <2>3, PlainStep
<1>2. ASSUME NEW p \in Transfers, NEW bs \in {TransferBooks(p), ArrivalBooks(p)},
             NEW type \in {"stock_transfer", "stock_transfer_accept"}, Post(type, id, bs)
      PROVE  FlowsInv'
  <2>1. bs \in Seq(TeamBook) /\ Agreed(Effect(bs)) /\ \A s \in Seller : Ready(Effect(bs), s)
    BY TransferAgrees
  <2> QED
    BY <1>2, <2>1, PlainStep
<1>3. ASSUME NEW p \in Transfers, TransferToWarehouse(id, p) PROVE FlowsInv'
  <2>1. Post("stock_transfer", id, TransferBooks(p))
    BY <1>3 DEF TransferToWarehouse, TransferBooks
  <2> QED
    BY <1>2, <2>1
<1>4. ASSUME NEW p \in Transfers, TransferToWarehouseAccept(id, p) PROVE FlowsInv'
  <2>1. Post("stock_transfer_accept", id, ArrivalBooks(p))
    BY <1>4 DEF TransferToWarehouseAccept, ArrivalBooks
  <2> QED
    BY <1>2, <2>1
<1>5. ASSUME NEW p \in Adjustments, StockAdjustment(id, p) PROVE FlowsInv'
  <2> DEFINE bs == AdjustmentBooks(p)
  <2>1. Post("stock_adjustment", id, bs)
    BY <1>5 DEF StockAdjustment, AdjustmentBooks
  <2>2. bs \in Seq(TeamBook) /\ Agreed(Effect(bs)) /\ \A s \in Seller : Ready(Effect(bs), s)
    BY AdjustmentAgrees
  <2> HIDE DEF bs
  <2> QED
    BY <2>1, <2>2, PlainStep
<1> QED
  BY <1>1, <1>3, <1>4, <1>5

\* A rollback of an order or a transfer.
LEMMA CancelStep ==
  ASSUME FlowsInv, NEW id \in Id, NEW type \in {"order", "stock_transfer"},
         Rollback(<<type, id>>)
  PROVE  FlowsInv'
<1> DEFINE r == <<type, id>>
<1>1. /\ r \in DOMAIN ledger /\ calls < MaxCalls /\ calls' = calls + 1
      /\ ledger' = [ledger EXCEPT ![r] = Reversed(ledger[r])]
  BY DEF Rollback, Reversible
<1>2. IsEntries(ledger[r])
  BY <1>1 DEF FlowsInv, RefAgrees
<1>3. RefAgrees(r, Reversed(ledger[r]))
  BY <1>2, ReversedAgrees
<1> HIDE DEF r
<1> QED
  BY <1>1, <1>3, ReplaceStep

\* Orders and their returns.
LEMMA OrderStep ==
  ASSUME FlowsInv, NEW id \in Id
  PROVE  /\ \A p \in OrderPayloads : OnOrder(id, p) => FlowsInv'
         /\ \A p \in Returns : OrderReturn(id, p) => FlowsInv'
<1>1. ASSUME NEW p \in OrderPayloads, OnOrder(id, p) PROVE FlowsInv'
  <2> DEFINE bs == OrderBooks(p)
  <2>1. Post("order", id, bs)
    BY <1>1 DEF OnOrder, OrderBooks
  <2>2. bs \in Seq(TeamBook) /\ Agreed(Effect(bs)) /\ \A s \in Seller : Ready(Effect(bs), s)
    BY OrderEven, EvenAgrees
  <2> HIDE DEF bs
  <2> QED
    BY <2>1, <2>2, PlainStep
<1>2. ASSUME NEW p \in Returns, OrderReturn(id, p) PROVE FlowsInv'
  <2>1. Post("stock_return", id, ReturnBooks(p))
    BY <1>2 DEF OrderReturn, ReturnBooks
  <2> QED
    BY <2>1, ReturnAgrees, PostStep
<1> QED
  BY <1>1, <1>2

\* A call on the seller's own accounts with the marketplace.
LEMMA OwnStep ==
  ASSUME FlowsInv, NEW id \in Id, NEW type,
         type \notin {"restock", "stock_return", "selling_receivable"},
         NEW v \in Seller, NEW m, Within(m, MarketKeys \X {v}), Post(type, id, <<Book(v, m)>>)
  PROVE  FlowsInv'
<1> DEFINE bs == <<Book(v, m)>>
<1>1. bs \in Seq(TeamBook) /\ Agreed(Effect(bs)) /\ \A s \in Seller : Ready(Effect(bs), s)
  BY OwnBook
<1>2. Post(type, id, bs)
  OBVIOUS
<1> HIDE DEF bs
<1> QED
  BY <1>1, <1>2, PlainStep

\* The marketplace's calls, the corrections by hand aside.
LEMMA MarketStep ==
  ASSUME FlowsInv, NEW id \in Id
  PROVE  /\ \A p \in Funds : Fund(id, p) => FlowsInv'
         /\ \A p \in Amounts : /\ StreamAdjustment(id, p) => FlowsInv'
                               /\ Withdrawal(id, p) => FlowsInv'
                               /\ SellingExpenseOther(id, p) => FlowsInv'
                               /\ RevenueOther(id, p) => FlowsInv'
<1>1. ASSUME NEW p \in Funds, Fund(id, p) PROVE FlowsInv'
  <2>1. p.team \in Seller /\ Post("order_fund", id, <<Book(p.team, FundMoves(p))>>)
    BY <1>1, FundsAssumption DEF Fund
  <2> QED
    BY <2>1, FundWithin, OwnStep
<1>2. ASSUME NEW p \in Amounts
      PROVE  p.team \in Seller /\ p.amount \in Int
  BY AmountsAssumption
<1>3. {"selling_receivable", "cash", "other_revenue", "selling_other_expense"} \subseteq MarketKeys
  BY DEF MarketKeys
<1>4. ASSUME NEW p \in Amounts, StreamAdjustment(id, p) PROVE FlowsInv'
  <2> DEFINE size == IF p.amount > 0 THEN p.amount ELSE -p.amount
             m == To("other_revenue", p.team, size) \o To("selling_receivable", p.team, size)
  <2>1. size \in Int
    BY <1>2
  <2>2. Within(m, MarketKeys \X {p.team})
    <3> HIDE DEF size
    <3> QED
      BY <1>2, <1>3, <2>1, PairWithin
  <2>3. Post("common_adjustment", id, <<Book(p.team, When(p.amount # 0, m))>>)
    BY <1>4 DEF StreamAdjustment, Receivable
  <2> HIDE DEF m
  <2>4. Within(When(p.amount # 0, m), MarketKeys \X {p.team})
    BY <2>2, WithinWhen
  <2> QED
    BY <1>2, <2>3, <2>4, OwnStep
<1>5. ASSUME NEW p \in Amounts, NEW type \in {"wd", "selling_expense_other", "revenue_adjustment"},
             NEW m, Post(type, id, <<Book(p.team, m)>>), Within(m, MarketKeys \X {p.team})
      PROVE  FlowsInv'
  BY <1>2, <1>5, OwnStep
<1>6. ASSUME NEW p \in Amounts
      PROVE  /\ Withdrawal(id, p) => FlowsInv'
             /\ SellingExpenseOther(id, p) => FlowsInv'
             /\ RevenueOther(id, p) => FlowsInv'
  <2> DEFINE a == From("selling_receivable", p.team, p.amount) \o To("cash", p.team, p.amount)
             b == From("selling_receivable", p.team, p.amount)
                  \o To("selling_other_expense", p.team, p.amount)
             c == To("other_revenue", p.team, p.amount) \o To("cash", p.team, p.amount)
  <2>1. /\ Within(a, MarketKeys \X {p.team}) /\ Within(b, MarketKeys \X {p.team})
        /\ Within(c, MarketKeys \X {p.team})
    BY <1>2, <1>3, PairWithin
  <2>2. /\ Withdrawal(id, p) => Post("wd", id, <<Book(p.team, a)>>)
        /\ SellingExpenseOther(id, p) => Post("selling_expense_other", id, <<Book(p.team, b)>>)
        /\ RevenueOther(id, p) => Post("revenue_adjustment", id, <<Book(p.team, c)>>)
    BY DEF Withdrawal, SellingExpenseOther, RevenueOther
  <2> HIDE DEF a, b, c
  <2> QED
    BY <1>5, <2>1, <2>2
<1> QED
  BY <1>1, <1>4, <1>6

\* A correction by hand, the first of its ref or a later one.
LEMMA HandStep ==
  ASSUME FlowsInv, NEW id \in Id, NEW p \in HandPayloads, SellingReceivableAdjustment(id, p)
  PROVE  FlowsInv'
<1> DEFINE r == <<"selling_receivable", id>>
           bs == <<Book(p.team, HandMoves(p))>>
<1>1. CASE Post("selling_receivable", id, bs)
  <2>1. IsEntries(<<>>)
    BY DEF IsEntries
  <2>2. RefAgrees(r, Effect(bs))
    BY <2>1, Corrected
  <2> HIDE DEF bs
  <2> QED
    BY <1>1, <2>2, PostStep
<1>2. CASE /\ r \in DOMAIN ledger /\ calls < MaxCalls /\ calls' = calls + 1
           /\ ledger' = [ledger EXCEPT ![r] = Merged(Reversed(ledger[r]), Effect(bs))]
  <2>1. IsEntries(ledger[r])
    BY <1>2 DEF FlowsInv, RefAgrees
  <2> DEFINE f == Merged(Reversed(ledger[r]), Effect(bs))
  <2>2. RefAgrees(r, f)
    BY <2>1, Corrected
  <2>3. ledger' = [ledger EXCEPT ![r] = f]
    BY <1>2
  <2> HIDE DEF bs, r, f
  <2> QED
    BY <1>2, <2>2, <2>3, ReplaceStep
<1> QED
  BY <1>1, <1>2 DEF SellingReceivableAdjustment, Reversible, Called

\* Every step of the flows keeps the invariant.
LEMMA FlowsStep == FlowsInv /\ [Next]_vars => FlowsInv'
<1> SUFFICES ASSUME FlowsInv, [Next]_vars PROVE FlowsInv'
  OBVIOUS
<1>1. CASE UNCHANGED vars
  BY <1>1 DEF FlowsInv, vars
<1>2. CASE GoodsNext
  <2> PICK id \in Id :
         \/ \E p \in Inbounds : \/ InboundCreate(id, p)
                                \/ \E source \in DOMAIN UpdateType : InboundUpdate(id, source, p)
         \/ \E p \in Accepts : InboundAccept(id, p)
         \/ \E p \in Transfers : TransferToWarehouse(id, p) \/ TransferToWarehouseAccept(id, p)
         \/ TransferToWarehouseCancel(id)
         \/ \E p \in Adjustments : StockAdjustment(id, p)
    BY <1>2 DEF GoodsNext
  <2>1. TransferToWarehouseCancel(id) => FlowsInv'
    BY CancelStep DEF TransferToWarehouseCancel
  <2> QED
    BY <2>1, CreateStep, UpdateStep, GoodsStep
<1>3. CASE OrdersNext
  <2> PICK id \in Id : \/ \E p \in OrderPayloads : OnOrder(id, p)
                       \/ OrderCancel(id)
                       \/ \E p \in Returns : OrderReturn(id, p) \/ StockReturn(id, p)
    BY <1>3 DEF OrdersNext
  <2>1. OrderCancel(id) => FlowsInv'
    BY CancelStep DEF OrderCancel
  <2> QED
    BY <2>1, OrderStep DEF StockReturn
<1>4. CASE MarketplaceNext
  <2> PICK id \in Id :
         \/ \E p \in Funds : Fund(id, p)
         \/ \E p \in HandPayloads : SellingReceivableAdjustment(id, p)
         \/ \E p \in Amounts : \/ StreamAdjustment(id, p)
                               \/ Withdrawal(id, p)
                               \/ SellingExpenseOther(id, p)
                               \/ RevenueOther(id, p)
    BY <1>4 DEF MarketplaceNext
  <2> QED
    BY MarketStep, HandStep
<1> QED
  BY <1>1, <1>2, <1>3, <1>4 DEF Next

\* The invariant holds of the flows.
LEMMA FlowsAgree == Spec => []FlowsInv
<1>1. Init => FlowsInv
  <2> SUFFICES ASSUME Init PROVE FlowsInv
    OBVIOUS
  <2>1. ledger = <<>> /\ calls = 0
    BY DEF Init
  <2>2. DOMAIN ledger = {}
    BY <2>1
  <2> QED
    BY <2>1, <2>2, BoundAssumption, FS_EmptySet DEF FlowsInv
<1> QED
  BY <1>1, FlowsStep, PTL DEF Spec
------------------------------------------------------------------------------
\* What each ref adds to an account; the balance is their sum.
Held(t, k, u) == [r \in DOMAIN ledger |-> Amount(ledger[r], <<t, k, u>>)]

\* Part, the query of the properties, is the amount in the ref.
LEMMA PartIs ==
  \A r, t, k, u : Part(r, t, k, u) = IF r \in DOMAIN ledger
                                     THEN Amount(ledger[r], <<t, k, u>>) ELSE 0
BY DEF Part, Amount

\* The balance of an account is what the refs add to it.
LEMMA BalanceIs ==
  ASSUME IsFiniteSet(DOMAIN ledger), NEW t, NEW k, NEW u
  PROVE  Balance(t, k, u) = Total(Held(t, k, u), DOMAIN ledger)
<1> DEFINE S == DOMAIN ledger
           g == Held(t, k, u)
           it == CHOOSE it : it = [s \in SUBSET S |-> IF s = {} THEN 0 ELSE
                   Part(CHOOSE r \in s : TRUE, t, k, u) + it[s \ {CHOOSE r \in s : TRUE}]]
<1>1. Balance(t, k, u) = it[S]
  BY DEF Balance, MapThenSumSet, MapThenFoldSet
<1>2. \A s \in SUBSET S : s # {} => Part(Pick(s), t, k, u) = g[Pick(s)]
  BY PickIn, PartIs DEF Held
<1>3. PICK f : Sums(f, g, SUBSET S)
  BY SumsExists
<1>4. f = [s \in SUBSET S |-> IF s = {} THEN 0 ELSE
             Part(CHOOSE r \in s : TRUE, t, k, u) + f[s \ {CHOOSE r \in s : TRUE}]]
  BY <1>2, <1>3 DEF Sums, Pick
<1>5. it = [s \in SUBSET S |-> IF s = {} THEN 0 ELSE
             Part(CHOOSE r \in s : TRUE, t, k, u) + it[s \ {CHOOSE r \in s : TRUE}]]
  <2> DEFINE Rec(v) == [s \in SUBSET S |-> IF s = {} THEN 0 ELSE
        Part(CHOOSE r \in s : TRUE, t, k, u) + v[s \ {CHOOSE r \in s : TRUE}]]
  <2>1. f = Rec(f) /\ it = CHOOSE v : v = Rec(v)
    BY <1>4, Zenon
  <2> HIDE DEF Rec, it
  <2>2. it = Rec(it)
    BY <2>1, Zenon
  <2> QED
    BY <2>2, Zenon DEF Rec
<1>6. Sums(it, g, SUBSET S)
  <2> HIDE DEF it
  <2> QED
    BY <1>2, <1>5 DEF Sums, Pick
<1>7. Total(g, S) = it[S]
  <2> HIDE DEF it, g
  <2> QED
    BY <1>6, TotalIs
<1> QED
  BY <1>1, <1>7

\* The sum of TransitMirror over pairs of teams.
Transits(S) == [x \in S |-> Balance(x[1], "stock_transfer", x[2])]

\* It is a total.
LEMMA TransitSumIs ==
  ASSUME NEW S, IsFiniteSet(S)
  PROVE  MapThenSumSet(LAMBDA x : Balance(x[1], "stock_transfer", x[2]), S) =
         Total(Transits(S), S)
<1> DEFINE g == Transits(S)
           it == CHOOSE it : it = [s \in SUBSET S |-> IF s = {} THEN 0 ELSE
                   Balance((CHOOSE x \in s : TRUE)[1], "stock_transfer", (CHOOSE x \in s : TRUE)[2])
                   + it[s \ {CHOOSE x \in s : TRUE}]]
<1>1. MapThenSumSet(LAMBDA x : Balance(x[1], "stock_transfer", x[2]), S) = it[S]
  BY DEF MapThenSumSet, MapThenFoldSet
<1>2. \A s \in SUBSET S : s # {} =>
        Balance(Pick(s)[1], "stock_transfer", Pick(s)[2]) = g[Pick(s)]
  BY PickIn DEF Transits
<1>3. PICK f : Sums(f, g, SUBSET S)
  BY SumsExists
<1>4. f = [s \in SUBSET S |-> IF s = {} THEN 0 ELSE
             Balance((CHOOSE x \in s : TRUE)[1], "stock_transfer", (CHOOSE x \in s : TRUE)[2])
             + f[s \ {CHOOSE x \in s : TRUE}]]
  BY <1>2, <1>3 DEF Sums, Pick
<1>5. it = [s \in SUBSET S |-> IF s = {} THEN 0 ELSE
             Balance((CHOOSE x \in s : TRUE)[1], "stock_transfer", (CHOOSE x \in s : TRUE)[2])
             + it[s \ {CHOOSE x \in s : TRUE}]]
  <2> DEFINE Rec(v) == [s \in SUBSET S |-> IF s = {} THEN 0 ELSE
        Balance((CHOOSE x \in s : TRUE)[1], "stock_transfer", (CHOOSE x \in s : TRUE)[2])
        + v[s \ {CHOOSE x \in s : TRUE}]]
  <2>1. f = Rec(f) /\ it = CHOOSE v : v = Rec(v)
    BY <1>4, Zenon
  <2> HIDE DEF Rec, it
  <2>2. it = Rec(it)
    BY <2>1, Zenon
  <2> QED
    BY <2>2, Zenon DEF Rec
<1>6. Sums(it, g, SUBSET S)
  <2> HIDE DEF it
  <2> QED
    BY <1>2, <1>5 DEF Sums, Pick
<1>7. Total(g, S) = it[S]
  <2> HIDE DEF it, g
  <2> QED
    BY <1>6, TotalIs
<1> QED
  BY <1>1, <1>7

\* The sum of PaidIsPending over the warehouses.
PendingParts(r, s) == [w \in Warehouse |-> Part(r, s, "stock_pending", w)]

\* It is a total.
LEMMA PendingSumIs ==
  ASSUME NEW r, NEW v
  PROVE  MapThenSumSet(LAMBDA w : Part(r, v, "stock_pending", w), Warehouse) =
         Total(PendingParts(r, v), Warehouse)
<1> DEFINE S == Warehouse
           g == PendingParts(r, v)
           it == CHOOSE it : it = [s \in SUBSET S |-> IF s = {} THEN 0 ELSE
                   Part(r, v, "stock_pending", CHOOSE w \in s : TRUE)
                   + it[s \ {CHOOSE w \in s : TRUE}]]
<1>0. IsFiniteSet(S)
  BY PartyAssumption
<1>1. MapThenSumSet(LAMBDA w : Part(r, v, "stock_pending", w), Warehouse) = it[S]
  BY DEF MapThenSumSet, MapThenFoldSet
<1>2. \A s \in SUBSET S : s # {} => Part(r, v, "stock_pending", Pick(s)) = g[Pick(s)]
  BY PickIn DEF PendingParts
<1>3. PICK f : Sums(f, g, SUBSET S)
  BY <1>0, SumsExists
<1>4. f = [s \in SUBSET S |-> IF s = {} THEN 0 ELSE
             Part(r, v, "stock_pending", CHOOSE w \in s : TRUE)
             + f[s \ {CHOOSE w \in s : TRUE}]]
  BY <1>2, <1>3 DEF Sums, Pick
<1>5. it = [s \in SUBSET S |-> IF s = {} THEN 0 ELSE
             Part(r, v, "stock_pending", CHOOSE w \in s : TRUE)
             + it[s \ {CHOOSE w \in s : TRUE}]]
  <2> DEFINE Rec(h) == [s \in SUBSET S |-> IF s = {} THEN 0 ELSE
        Part(r, v, "stock_pending", CHOOSE w \in s : TRUE) + h[s \ {CHOOSE w \in s : TRUE}]]
  <2>1. f = Rec(f) /\ it = CHOOSE h : h = Rec(h)
    BY <1>4, Zenon
  <2> HIDE DEF Rec, it
  <2>2. it = Rec(it)
    BY <2>1, Zenon
  <2> QED
    BY <2>2, Zenon DEF Rec
<1>6. Sums(it, g, SUBSET S)
  <2> HIDE DEF it
  <2> QED
    BY <1>2, <1>5 DEF Sums, Pick
<1>7. Total(g, S) = it[S]
  <2> HIDE DEF it, g
  <2> QED
    BY <1>0, <1>6, TotalIs
<1> QED
  BY <1>1, <1>7
------------------------------------------------------------------------------
\* What holds of each ref: the amounts are integers, and agree.
LEMMA RefFacts ==
  ASSUME FlowsInv, NEW r \in DOMAIN ledger
  PROVE  /\ IsEntries(ledger[r]) /\ Agreed(ledger[r])
         /\ \A t, k, u : Held(t, k, u)[r] = Amount(ledger[r], <<t, k, u>>)
         /\ \A t, k, u : Held(t, k, u)[r] \in Int
<1>1. IsEntries(ledger[r]) /\ Agreed(ledger[r])
  BY DEF FlowsInv, RefAgrees
<1>2. \A x : Amount(ledger[r], x) \in Int
  BY <1>1 DEF IsEntries, Amount
<1>3. \A t, k, u : Held(t, k, u)[r] = Amount(ledger[r], <<t, k, u>>)
  BY DEF Held
<1> QED
  BY <1>1, <1>2, <1>3

\* The balances of accounts that are equal in every ref are equal.
LEMMA BalancesEqual ==
  ASSUME FlowsInv, NEW t, NEW k, NEW u, NEW s, NEW l, NEW v,
         \A r \in DOMAIN ledger : Held(t, k, u)[r] = Held(s, l, v)[r]
  PROVE  Balance(t, k, u) = Balance(s, l, v)
<1>1. IsFiniteSet(DOMAIN ledger)
  BY DEF FlowsInv
<1>2. Total(Held(t, k, u), DOMAIN ledger) = Total(Held(s, l, v), DOMAIN ledger)
  BY <1>1, TotalSame
<1> QED
  BY <1>1, <1>2, BalanceIs

\* What a team claims of another the other owes.
LEMMA ClaimsBalance == FlowsInv => ClaimsMirrorDebts
<1> SUFFICES ASSUME FlowsInv, NEW t \in Party, NEW u \in Party
             PROVE  Balance(t, "receivable", u) = Balance(u, "payable", t)
  BY DEF ClaimsMirrorDebts
<1>1. ASSUME NEW r \in DOMAIN ledger
      PROVE  Held(t, "receivable", u)[r] = Held(u, "payable", t)[r]
  <2>1. Claims(ledger[r])
    BY RefFacts DEF Agreed
  <2>2. /\ Held(t, "receivable", u)[r] = Amount(ledger[r], <<t, "receivable", u>>)
        /\ Held(u, "payable", t)[r] = Amount(ledger[r], <<u, "payable", t>>)
    BY RefFacts
  <2> QED
    BY <2>1, <2>2 DEF Claims
<1> QED
  BY <1>1, BalancesEqual

\* Two accounts of one team and two of another, equal when taken together.
LEMMA PairsEqual ==
  ASSUME FlowsInv, NEW s, NEW w, NEW k, NEW l,
         \A r \in DOMAIN ledger :
           Held(s, k, w)[r] + Held(s, l, w)[r] = Held(w, k, s)[r] + Held(w, l, s)[r]
  PROVE  Balance(s, k, w) + Balance(s, l, w) = Balance(w, k, s) + Balance(w, l, s)
<1> DEFINE R == DOMAIN ledger
           f == Held(s, k, w)
           g == Held(s, l, w)
           h == Held(w, k, s)
           i == Held(w, l, s)
           both == [r \in R |-> f[r] + g[r]]
<1>1. \A r \in R : f[r] \in Int /\ g[r] \in Int /\ h[r] \in Int /\ i[r] \in Int
  BY RefFacts
<1>2. IsFiniteSet(R)
  BY DEF FlowsInv
<1>3. \A r \in R : both[r] = f[r] + g[r] /\ both[r] = h[r] + i[r]
  OBVIOUS
<1> HIDE DEF f, g, h, i, both, R
<1>4. Total(both, R) = Total(f, R) + Total(g, R) /\ Total(both, R) = Total(h, R) + Total(i, R)
  BY <1>1, <1>2, <1>3, TotalPlus
<1> QED
  BY <1>2, <1>4, BalanceIs DEF f, g, h, i, R

\* Seller and warehouse agree about the goods.
LEMMA GoodsBalance == FlowsInv => GoodsMirror
<1> SUFFICES ASSUME FlowsInv, NEW s \in Seller, NEW w \in Warehouse
             PROVE  /\ ~ReturnUpdated(s) => ReadyOrSold(s, w) = ReadyOrSold(w, s)
                    /\ \A key \in {"stock_broken", "stock_lost"} :
                         Balance(s, key, w) = Balance(w, key, s)
  BY DEF GoodsMirror
<1>1. ASSUME NEW key \in {"stock_broken", "stock_lost"}
      PROVE  Balance(s, key, w) = Balance(w, key, s)
  <2>1. ASSUME NEW r \in DOMAIN ledger PROVE Held(s, key, w)[r] = Held(w, key, s)[r]
    <3>1. Stocks(ledger[r])
      BY RefFacts DEF Agreed
    <3>2. /\ Held(s, key, w)[r] = Amount(ledger[r], <<s, key, w>>)
          /\ Held(w, key, s)[r] = Amount(ledger[r], <<w, key, s>>)
      BY RefFacts
    <3> QED
      BY <3>1, <3>2 DEF Stocks
  <2> QED
    BY <2>1, BalancesEqual
<1>2. ASSUME ~ReturnUpdated(s) PROVE ReadyOrSold(s, w) = ReadyOrSold(w, s)
  <2>1. ASSUME NEW r \in DOMAIN ledger PROVE Ready(ledger[r], s)
    <3>1. ReadyKept(r, ledger[r]) /\ r = <<r[1], r[2]>> /\ r[2] \in Id
      BY DEF FlowsInv, RefAgrees
    <3>2. ASSUME r[1] = "stock_return", Updated(ledger[r], s) PROVE FALSE
      <4>1. r = <<"stock_return", r[2]>>
        BY <3>1, <3>2
      <4>2. \E key \in {"cash", "shopeepay"} : Part(<<"stock_return", r[2]>>, s, key, s) # 0
        BY <3>2, <4>1, PartIs DEF Updated
      <4> QED
        BY <1>2, <3>1, <4>2 DEF ReturnUpdated
    <3> QED
      BY <3>1, <3>2 DEF ReadyKept
  <2>2. ASSUME NEW r \in DOMAIN ledger
        PROVE  Held(s, "stock_ready", w)[r] + Held(s, "stock_cost", w)[r] =
               Held(w, "stock_ready", s)[r] + Held(w, "stock_cost", s)[r]
    <3>1. \A t, k, u : Held(t, k, u)[r] = Amount(ledger[r], <<t, k, u>>)
      BY RefFacts
    <3> QED
      BY <2>1, <3>1 DEF Ready
  <2> QED
    BY <2>2, PairsEqual DEF ReadyOrSold
<1> QED
  BY <1>1, <1>2

\* The goods in transit of all pairs are what the refs have in transit.
LEMMA TransitsAreRefs ==
  ASSUME FlowsInv, NEW S, IsFiniteSet(S)
  PROVE  Total(Transits(S), S) =
         Total([r \in DOMAIN ledger |-> Total(Moving(ledger[r], S), S)], DOMAIN ledger)
<1> DEFINE R == DOMAIN ledger
           g == [r \in R |-> Moving(ledger[r], S)]
           c == [x \in S |-> Held(x[1], "stock_transfer", x[2])]
           a == [r \in R |-> Total(Moving(ledger[r], S), S)]
           b == Transits(S)
<1>1. IsFiniteSet(R)
  BY DEF FlowsInv
<1>2. ASSUME NEW r \in R, NEW x \in S PROVE g[r][x] \in Int /\ c[x][r] = g[r][x]
  <2>1. /\ Held(x[1], "stock_transfer", x[2])[r] = Amount(ledger[r], <<x[1], "stock_transfer", x[2]>>)
        /\ Held(x[1], "stock_transfer", x[2])[r] \in Int
    BY RefFacts
  <2> QED
    BY <2>1 DEF Moving
<1>3. \A r \in R : a[r] = Total(g[r], S)
  OBVIOUS
<1>4. \A x \in S : b[x] = Total(c[x], R)
  BY <1>1, BalanceIs DEF Transits
<1> HIDE DEF R, g, c, a, b
<1>5. Table(R, S, g, c, a, b)
  BY <1>2, <1>3, <1>4 DEF Table
<1>6. Total(a, R) = Total(b, S)
  BY <1>1, <1>5, TotalSwap
<1> QED
  BY <1>6 DEF a, b, R

\* Sellers and warehouses have the same in transit.
LEMMA TransitBalance == FlowsInv => TransitMirror
<1> SUFFICES ASSUME FlowsInv PROVE TransitMirror
  OBVIOUS
<1> DEFINE S == Seller \X Warehouse
           W == Warehouse \X Warehouse
           R == DOMAIN ledger
           a == [r \in R |-> Total(Moving(ledger[r], S), S)]
           b == [r \in R |-> Total(Moving(ledger[r], W), W)]
<1>1. IsFiniteSet(S) /\ IsFiniteSet(W) /\ IsFiniteSet(R)
  BY PartiesFinite DEF FlowsInv
<1>2. \A r \in R : a[r] = b[r]
  BY RefFacts DEF Agreed, Transit
<1>3. /\ MapThenSumSet(LAMBDA x : Balance(x[1], "stock_transfer", x[2]), S) = Total(Transits(S), S)
      /\ MapThenSumSet(LAMBDA x : Balance(x[1], "stock_transfer", x[2]), W) = Total(Transits(W), W)
  BY <1>1, TransitSumIs
<1>4. Total(Transits(S), S) = Total(a, R) /\ Total(Transits(W), W) = Total(b, R)
  BY <1>1, TransitsAreRefs
<1>5. Total(a, R) = Total(b, R)
  <2> HIDE DEF a, b, R
  <2> QED
    BY <1>1, <1>2, TotalSame
<1> QED
  BY <1>3, <1>4, <1>5 DEF TransitMirror

\* What was paid for a restock is pending for it.
LEMMA PaidBalance == FlowsInv => PaidIsPending
<1> SUFFICES ASSUME FlowsInv, NEW s \in Seller, NEW id \in Id
             PROVE  LET r == <<"restock", id>>
                        cash == -Part(r, s, "cash", s)
                        shopeepay == -Part(r, s, "shopeepay", s)
                    IN /\ cash = 0 \/ shopeepay = 0
                       /\ cash + shopeepay =
                            MapThenSumSet(LAMBDA w : Part(r, s, "stock_pending", w), Warehouse)
  BY DEF PaidIsPending
<1> DEFINE r == <<"restock", id>>
           c == Part(r, s, "cash", s)
           p == Part(r, s, "shopeepay", s)
           g == PendingParts(r, s)
<1>1. c \in Int /\ p \in Int /\ (c = 0 \/ p = 0) /\ c + p + Total(g, Warehouse) = 0
      /\ Total(g, Warehouse) \in Int
  <2>1. CASE r \in DOMAIN ledger
    <3> DEFINE e == ledger[r]
    <3>1. IsEntries(e) /\ Pending(e, s)
      BY <2>1 DEF FlowsInv, RefAgrees, RestockKept
    <3>2. \A x : Amount(e, x) \in Int
      BY <3>1 DEF IsEntries, Amount
    <3>3. c = Amount(e, <<s, "cash", s>>) /\ p = Amount(e, <<s, "shopeepay", s>>)
      BY <2>1, PartIs
    <3>4. g = PendingAt(e, s) /\ \A w \in Warehouse : g[w] \in Int
      BY <2>1, <3>2, PartIs DEF PendingAt, PendingParts
    <3> HIDE DEF e, g, r, c, p
    <3>5. Total(g, Warehouse) \in Int
      BY <3>4, PartyAssumption, TotalType
    <3> QED
      BY <3>1, <3>2, <3>3, <3>4, <3>5 DEF Pending
  <2>2. CASE r \notin DOMAIN ledger
    <3>1. c = 0 /\ p = 0 /\ \A w \in Warehouse : g[w] = 0
      BY <2>2, PartIs DEF PendingParts
    <3> HIDE DEF g, c, p
    <3>2. Total(g, Warehouse) = 0
      BY <3>1, PartyAssumption, TotalZero
    <3> QED
      BY <3>1, <3>2
  <2> QED
    BY <2>1, <2>2
<1>2. MapThenSumSet(LAMBDA w : Part(r, s, "stock_pending", w), Warehouse) = Total(g, Warehouse)
  BY PendingSumIs
<1> HIDE DEF g
<1> DEFINE n == MapThenSumSet(LAMBDA w : Part(r, s, "stock_pending", w), Warehouse)
<1>3. n = Total(g, Warehouse)
  BY <1>2
<1> HIDE DEF n, c, p
<1>4. (-c = 0 \/ -p = 0) /\ -c + -p = n
  BY <1>1, <1>3
<1> QED
  BY <1>4 DEF n, c, p

\* A correction by hand counts once; books are kept by the parties.
LEMMA CorrectionsHold == FlowsInv => OneCorrectionHolds
BY DEF FlowsInv, RefAgrees, OneCorrection, OneCorrectionHolds

\* Books are kept by the parties.
LEMMA FlowsTyped == FlowsInv => TypeOK
BY DEF FlowsInv, RefAgrees, IsEntries, TypeOK
------------------------------------------------------------------------------
\* What the moves of a fund leave of the claim p.est of its order.
LEMMA FundClaims ==
  ASSUME NEW p \in Funds, p.est # p.amount, p.amount # 0
  PROVE  p.est + Tally(FundMoves(p), "selling_receivable", p.team)
           = IF p.amount > 0 THEN p.amount ELSE 0
<1> DEFINE v == p.team
           K == "selling_receivable"
           n == -p.amount
           s == p.est + p.amount
           z == p.est - p.amount
           a == To("return_expense", v, n)
           b == To("selling_adj_receivable", v, p.amount)
           c == Receivable(v, p.amount)
<1>1. v \in Party /\ p.amount \in Int /\ p.est \in Int /\ n \in Int /\ s \in Int /\ z \in Int
  BY FundsAssumption, PartiesFinite
<1>2. {"return_expense", "selling_adj_receivable", "selling_receivable"} \subseteq Name
  BY DEF Name
<1>3. ASSUME NEW i \in Int PROVE Adds(Shift(v, i), K, v, -i)
  <2> DEFINE d == From("selling_receivable", v, i)
             e == To("selling_adj_receivable", v, i)
  <2>1. Shift(v, i) = When(i # 0, Cat(d, e))
    BY DEF Shift, Cat
  <2>2. Adds(d, K, v, -i) /\ Adds(e, K, v, 0)
    BY <1>1, <1>2, AddsOne DEF Put
  <2> HIDE DEF d, e
  <2>3. Adds(Cat(d, e), K, v, -i + 0)
    BY <2>2, AddsCat
  <2>4. Adds(When(i # 0, Cat(d, e)), K, v, IF i # 0 THEN -i + 0 ELSE 0)
    BY <2>3, AddsWhen
  <2>5. (IF i # 0 THEN -i + 0 ELSE 0) = -i
    OBVIOUS
  <2> QED
    BY <2>1, <2>4, <2>5
<1>4. Adds(a, K, v, 0) /\ Adds(b, K, v, 0) /\ Adds(c, K, v, p.amount)
  BY <1>1, <1>2, AddsOne DEF Put, Receivable
<1> HIDE DEF v, n
<1>5. CASE p.amount > 0
  <2>1. FundMoves(p) = Shift(v, z)
    BY <1>5 DEF FundMoves, v
  <2>2. Tally(FundMoves(p), K, v) = -z
    BY <1>1, <1>3, <2>1 DEF Adds
  <2> QED
    BY <1>1, <1>5, <2>2 DEF v
<1>6. CASE ~(p.amount > 0)
  <2>1. p.amount < 0
    BY <1>1, <1>6
  <2>2. FundMoves(p) = Cat(a, IF p.est = 0 THEN b ELSE Cat(c, Shift(v, s)))
    BY <1>6, <2>1 DEF FundMoves, When, Cat, v, n
  <2> HIDE DEF a, b, c, s
  <2>3. Adds(Cat(c, Shift(v, s)), K, v, p.amount + -s)
    BY <1>1, <1>3, <1>4, AddsCat
  <2>4. Adds(Cat(a, b), K, v, 0 + 0) /\ Adds(Cat(a, Cat(c, Shift(v, s))), K, v, 0 + (p.amount + -s))
    BY <1>4, <2>3, AddsCat
  <2>5. Tally(FundMoves(p), K, v) = IF p.est = 0 THEN 0 ELSE p.amount + -s
    BY <1>1, <2>2, <2>4 DEF Adds
  <2> QED
    BY <1>1, <1>6, <2>5 DEF v, s
<1> QED
  BY <1>5, <1>6

\* A fund that is posted settles the claim of its order.
LEMMA FundStep ==
  ASSUME FlowsInv, NEW id \in Id, NEW p \in Funds, Fund(id, p), p.est = Claim(id, p.team)
  PROVE  Claim(id, p.team)' = IF p.amount > 0 THEN p.amount ELSE 0
<1> DEFINE v == p.team
           m == FundMoves(p)
           bs == <<Book(v, m)>>
           r == <<"order_fund", id>>
           o == <<"order", id>>
           x == <<v, "selling_receivable", v>>
           e == Effect(bs)
<1>1. v \in Party /\ p.amount \in Int /\ p.est \in Int
  BY FundsAssumption, PartiesFinite
<1>2. p.est # p.amount /\ Post("order_fund", id, bs)
  BY DEF Fund
<1>3. /\ r \notin DOMAIN ledger
      /\ ledger' = [q \in DOMAIN ledger \cup {r} |-> IF q = r THEN e ELSE ledger[q]]
      /\ Accepted(Book(v, m))
  <2>1. 1 \in DOMAIN bs /\ bs[1] = Book(v, m)
    OBVIOUS
  <2> HIDE DEF bs
  <2> QED
    BY <1>2, <2>1 DEF Post, Called
<1>4. p.amount # 0
  <2> SUFFICES ASSUME p.amount = 0 PROVE FALSE
    OBVIOUS
  <2>1. m = <<>>
    BY DEF FundMoves, When
  <2> QED
    BY <1>3, <2>1 DEF Accepted, Book
<1>5. Amount(e, x) = Tally(m, "selling_receivable", v)
  <2>1. Within(m, MarketKeys \X {v})
    BY FundWithin
  <2> HIDE DEF m
  <2> QED
    BY <1>1, <2>1, EffectWithin
<1> DEFINE n == IF o \in DOMAIN ledger THEN Amount(ledger[o], x) ELSE 0
<1>6. Claim(id, v) = n + 0
  BY <1>3, PartIs DEF Claim
<1>7. o # r
  OBVIOUS
<1>8. Claim(id, v)' = n + Amount(e, x)
  <2> HIDE DEF e, v, r, o, x
  <2>1. /\ r \in DOMAIN ledger' /\ ledger'[r] = e
        /\ o \in DOMAIN ledger' <=> o \in DOMAIN ledger
        /\ o \in DOMAIN ledger => ledger'[o] = ledger[o]
    BY <1>3, <1>7
  <2>2. Claim(id, v)' = Part(o, v, "selling_receivable", v)' + Part(r, v, "selling_receivable", v)'
    BY DEF Claim, o, r
  <2>3. Part(r, v, "selling_receivable", v)' = Amount(e, x)
    BY <2>1 DEF Part, Amount, x
  <2>4. Part(o, v, "selling_receivable", v)' = n
    BY <2>1 DEF Part, Amount, x
  <2> QED
    BY <2>2, <2>3, <2>4
<1>9. p.est = n + 0
  BY <1>6
<1>10. p.est + Tally(m, "selling_receivable", v) = IF p.amount > 0 THEN p.amount ELSE 0
  BY <1>2, <1>4, FundClaims
<1>11. Tally(m, "selling_receivable", v) \in Int /\ n \in Int
  <2>1. m \in Seq(Move)
    BY FundWithin DEF Within
  <2>2. Tally(m, "selling_receivable", v) \in Int
    <3> HIDE DEF m
    <3> QED
      BY <2>1, TallyType
  <2>3. ASSUME o \in DOMAIN ledger PROVE Amount(ledger[o], x) \in Int
    <3>1. IsEntries(ledger[o])
      BY <2>3 DEF FlowsInv, RefAgrees
    <3> QED
      BY <3>1 DEF IsEntries, Amount
  <2> HIDE DEF o, x
  <2> QED
    BY <2>2, <2>3
<1> QED
  BY <1>1, <1>5, <1>8, <1>9, <1>10, <1>11
------------------------------------------------------------------------------
\* The books are kept by the parties and on accounts of the parties, whatever
\* handlers run.
THEOREM FlowsTypeOK == Spec => []TypeOK
BY FlowsAgree, FlowsTyped, PTL

\* Whatever one team claims of another by revenue/ and stock/, for fees, for
\* borrowed goods, for the courier or for broken goods, the other owes it.
THEOREM ClaimsAreDebts == Spec => []ClaimsMirrorDebts
BY FlowsAgree, ClaimsBalance, PTL

\* Seller and warehouse agree about the goods that are there or were sold, broken
\* or lost, except for a seller whose return InboundUpdate made a purchase.
THEOREM GoodsAgree == Spec => []GoodsMirror
BY FlowsAgree, GoodsBalance, PTL

\* TransferToWarehouse and its acceptance, in any order and rolled back or not,
\* leave the sellers and the warehouses the same in transit.
THEOREM TransitAgrees == Spec => []TransitMirror
BY FlowsAgree, TransitBalance, PTL

\* After any updates InboundUpdate makes, a restock is paid by one method, and
\* what was paid is pending for it.
THEOREM PaymentsArePending == Spec => []PaidIsPending
BY FlowsAgree, PaidBalance, PTL

\* SellingReceivableAdjustment called again replaces the correction.
THEOREM CorrectionsCountOnce == Spec => []OneCorrectionHolds
BY FlowsAgree, CorrectionsHold, PTL

\* The fund of an order, posted against what the order claims, leaves the claim
\* at the amount that is paid out.
THEOREM FundsSettle == Spec => FundSettles
<1>1. ASSUME FlowsInv
      PROVE  \A id \in Id : \A p \in Funds :
               (Fund(id, p) /\ p.est = Claim(id, p.team)) =>
                  Claim(id, p.team)' = IF p.amount > 0 THEN p.amount ELSE 0
  BY <1>1, FundStep
<1> QED
  BY <1>1, FlowsAgree, PTL DEF FundSettles
==============================================================================
