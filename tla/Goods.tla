-------------------------------- MODULE Goods --------------------------------
(***************************************************************************)
(* The stock service (stock/): restocks, their update and acceptance,      *)
(* transfers between warehouses, adjustments.  A seller's goods lie in a   *)
(* warehouse, and both keep an account for them: the seller one that       *)
(* stands for the warehouse, the warehouse one that stands for the seller. *)
(***************************************************************************)
EXTENDS Ledger, SequencesExt

CONSTANTS Inbounds,    \* payloads of InboundCreate and InboundUpdate
          Accepts,     \* payloads of InboundAccept
          Transfers,   \* payloads of TransferToWarehouse and its Accept
          Adjustments  \* payloads of StockAdjustment

ASSUME InboundsAssumption ==
  \A p \in Inbounds : /\ p.team \in Seller /\ p.warehouse \in Warehouse
                      /\ p.goods \in Int /\ p.shipping \in Int
ASSUME TransfersAssumption ==
  \A p \in Transfers : /\ p.from \in Warehouse /\ p.to \in Warehouse
                       /\ DOMAIN p.goods \subseteq Seller
                       /\ \A t \in DOMAIN p.goods : p.goods[t] \in Int
ASSUME AdjustmentsAssumption ==
  \A p \in Adjustments :
    /\ p.team \in Seller /\ p.warehouse \in Warehouse
    /\ {p.lost, p.lostCharge, p.broken, p.brokenCharge} \subseteq Int

\* The payment method names the account that pays; another pays nothing, and
\* the book of the payload is then out of balance.
Paid(p, amount) ==
  When(p.method \in {"cash", "shopeepay"}, From(p.method, p.team, amount))

\* InboundCreate: only the seller's side is booked.
InboundCreate(id, p) ==
  Post("restock", id,
    <<Book(p.team, Paid(p, p.goods + p.shipping)
                   \o To("stock_pending", p.warehouse, p.goods)
                   \o When(p.shipping > 0,
                           To("stock_pending", p.warehouse, p.shipping)))>>)

\* The ref of the two sources InboundUpdate supports, and of the three of
\* InboundAccept.
UpdateType == [restock |-> "restock", return |-> "stock_return"]
AcceptType == [restock |-> "stock_accept", return |-> "stock_return_accept",
               transfer |-> "stock_transfer_accept"]

\* AccountBalanceKey: any of the pending accounts the team has in the ref (a
\* map is searched), whatever warehouse it stands for.
PendingBefore(r, team) ==
  {ledger[r][x] : x \in {y \in DOMAIN ledger[r] : y[1] = team /\ y[2] = "stock_pending"}}

\* The book InboundUpdate writes after the reset.
UpdateBook(p, goods, shipping) ==
  Book(p.team, To("stock_pending", p.warehouse, goods)
               \o When(shipping # 0, To("stock_pending", p.warehouse, shipping))
               \o Paid(p, goods + shipping))

\* Mutant of ResetTeam: the old entries stay.
ResetNothing(entries, team) == entries

\* The reset of InboundUpdate reverses the team's own rows only.
ResetTeam(entries, team) ==
  [x \in DOMAIN entries |-> IF x[1] = team THEN 0 ELSE entries[x]]

\* InboundUpdate: reset, then book anew.  Without products, and without a
\* shipping fee, the code puts what was pending before in their place.
InboundUpdate(id, source, p) ==
  LET r == <<UpdateType[source], id>>
  IN /\ r \in DOMAIN ledger
     /\ \E x \in DOMAIN ledger[r] : x[1] = p.team /\ ledger[r][x] # 0
     /\ \E goods \in IF p.goods > 0 THEN {p.goods} ELSE PendingBefore(r, p.team),
           shipping \in IF p.shipping # 0 THEN {p.shipping}
                        ELSE IF PendingBefore(r, p.team) = {} THEN {0}
                        ELSE PendingBefore(r, p.team) :
          LET books == <<UpdateBook(p, goods, shipping)>>
          IN /\ Called(books)
             /\ ledger' = [ledger EXCEPT ![r] =
                             Merged(ResetTeam(@, p.team), Effect(books))]

\* extPriceFee: the fees are spread over all items of the inbound (payloads have
\* items, and fees that divide by them).
Fees(p) == p.shipping + p.cod
Items(p) == p.accepted + p.lost + p.broken

ASSUME AcceptsAssumption ==
  \A p \in Accepts :
    /\ p.source \in DOMAIN AcceptType /\ p.team \in Seller /\ p.warehouse \in Warehouse
    /\ {p.price, p.accepted, p.lost, p.broken, p.shipping, p.cod} \subseteq Int
    /\ Items(p) > 0
Worth(p, items) == p.price * items + (Fees(p) * items) \div Items(p)

\* InboundAccept: what was pending becomes ready, broken or lost, on both
\* sides; a fee the warehouse paid to the courier becomes a claim.
AcceptMoves(p, other, claim) ==
  When(p.shipping # 0, From("stock_pending", other, p.shipping))
  \o When(p.cod # 0, claim)
  \o From("stock_pending", other, p.price * Items(p))
  \o To("stock_ready", other, Worth(p, p.accepted))
  \o When(p.broken > 0, To("stock_broken", other, Worth(p, p.broken)))
  \o When(p.lost > 0, To("stock_lost", other, Worth(p, p.lost)))

\* What the warehouse paid the courier it claims from the seller.
WarehouseClaim(p) ==
  From("cash", p.warehouse, p.cod) \o From("stock_cod_fee", p.warehouse, p.cod)
  \o To("receivable", p.team, p.cod)

InboundAccept(id, p) ==
  Post(AcceptType[p.source], id,
    <<Book(p.warehouse, AcceptMoves(p, p.team, WarehouseClaim(p))),
      Book(p.team, AcceptMoves(p, p.warehouse, To("payable", p.warehouse, p.cod)))>>)
------------------------------------------------------------------------------
\* One book per seller whose goods are moved (payload p.goods).
SellerBooks(p, moves(_)) ==
  LET sellers == SetToSeq(DOMAIN p.goods)
  IN [j \in DOMAIN sellers |-> Book(sellers[j], moves(sellers[j]))]

AllSellers(p, moves(_)) ==
  LET sellers == SetToSeq(DOMAIN p.goods)
  IN FlattenSeq([j \in DOMAIN sellers |-> moves(sellers[j])])

\* TransferToWarehouse: ready goods go in transit, the account of which stands
\* for the warehouse they go to.
TransferToWarehouse(id, p) ==
  Post("stock_transfer", id,
    <<Book(p.from, AllSellers(p, LAMBDA t :
         From("stock_ready", t, p.goods[t]) \o To("stock_transfer", p.to, p.goods[t])))>>
    \o SellerBooks(p, LAMBDA t :
         From("stock_ready", p.from, p.goods[t])
         \o To("stock_transfer", p.to, p.goods[t])))

\* TransferToWarehouseCancel does not look whether it was accepted.
TransferToWarehouseCancel(id) == Rollback(<<"stock_transfer", id>>)

\* Mutant of SellerArrival: the goods leave the source, not the transit account.
SellerArrivalFrom(p, t) ==
  From("stock_ready", p.from, p.goods[t]) \o To("stock_ready", p.to, p.goods[t])

SellerArrival(p, t) ==
  From("stock_transfer", p.to, p.goods[t]) \o To("stock_ready", p.to, p.goods[t])

\* TransferToWarehouseAccept shares its ref with InboundAccept of a transfer.
TransferToWarehouseAccept(id, p) ==
  Post("stock_transfer_accept", id,
    <<Book(p.to, AllSellers(p, LAMBDA t :
         From("stock_transfer", p.from, p.goods[t]) \o To("stock_ready", t, p.goods[t])))>>
    \o SellerBooks(p, LAMBDA t : SellerArrival(p, t)))

\* StockAdjustment.  Lost goods are moved by the amount of the broken ones, as
\* the code has it, and the warehouse may be charged.
GoodsMoves(p, other) ==
  When(p.broken > 0, From("stock_ready", other, p.broken)
                     \o To("stock_broken", other, p.broken))
  \o When(p.lost > 0, From("stock_ready", other, p.broken)
                      \o To("stock_lost", other, p.broken))

Charges(p) == [stock_lost_expense |-> p.lostCharge,
               stock_broken_expense |-> p.brokenCharge]

WarehouseCharge(p, key) ==
  When(Charges(p)[key] > 0, To(key, p.team, Charges(p)[key])
                            \o To("payable", p.team, Charges(p)[key]))

SellerCharge(p, key) ==
  When(Charges(p)[key] > 0, From(key, p.warehouse, Charges(p)[key])
                            \o To("receivable", p.warehouse, Charges(p)[key]))

StockAdjustment(id, p) ==
  Post("stock_adjustment", id,
    <<Book(p.warehouse, GoodsMoves(p, p.team)
                        \o WarehouseCharge(p, "stock_lost_expense")
                        \o WarehouseCharge(p, "stock_broken_expense")),
      Book(p.team, GoodsMoves(p, p.warehouse)
                   \o SellerCharge(p, "stock_lost_expense")
                   \o SellerCharge(p, "stock_broken_expense"))>>)

GoodsNext ==
  \E id \in Id :
    \/ \E p \in Inbounds : \/ InboundCreate(id, p)
                           \/ \E source \in DOMAIN UpdateType : InboundUpdate(id, source, p)
    \/ \E p \in Accepts : InboundAccept(id, p)
    \/ \E p \in Transfers : TransferToWarehouse(id, p) \/ TransferToWarehouseAccept(id, p)
    \/ TransferToWarehouseCancel(id)
    \/ \E p \in Adjustments : StockAdjustment(id, p)
==============================================================================
