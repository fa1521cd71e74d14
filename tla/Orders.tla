-------------------------------- MODULE Orders --------------------------------
(***************************************************************************)
(* Orders in the revenue service (revenue/): the order with its fee, its   *)
(* stock (the seller's own, or borrowed from another seller), its revenue  *)
(* and its extra payment; cancelling it; taking its goods back.            *)
(***************************************************************************)
EXTENDS Ledger, SequencesExt

CONSTANTS OrderPayloads,  \* payloads of OnOrder
          Returns         \* payloads of OrderReturn and StockReturn

ASSUME OrdersAssumption ==
  \A p \in OrderPayloads :
    /\ p.team \in Seller /\ p.warehouse \in Warehouse
    /\ {p.fee, p.own, p.amount, p.extra} \subseteq Int
    /\ p.borrow \in Seq([team : Seller, amount : Int, sell : Int])
ASSUME ReturnsAssumption ==
  \A p \in Returns : p.team \in Seller /\ p.warehouse \in Warehouse /\ p.stock \in Int

\* createWarehouseFee.
WarehouseFee(p) ==
  When(p.fee # 0,
    <<Book(p.warehouse, To("service_revenue", p.team, p.fee)
                        \o To("receivable", p.team, p.fee)),
      Book(p.team, To("warehouse_cost", p.warehouse, p.fee)
                   \o To("payable", p.warehouse, p.fee))>>)

\* Mutant of OwnProductStock: the cost stands for the seller, not the warehouse.
OwnStockOwnCost(p) ==
  When(p.own # 0,
    <<Book(p.team, From("stock_ready", p.warehouse, p.own)
                   \o To("stock_cost", p.team, p.own))>>)

\* ownProductStock: the book of the warehouse is built but never committed.
OwnProductStock(p) ==
  When(p.own # 0,
    <<Book(p.team, From("stock_ready", p.warehouse, p.own)
                   \o To("stock_cost", p.warehouse, p.own))>>)

\* Mutant of Borrowed: the lender books its claim on the warehouse.
BorrowedFromWarehouse(p, b) ==
  <<Book(p.warehouse, From("stock_ready", b.team, b.amount)
                      \o To("stock_to_borrow_cost", b.team, b.amount)),
    Book(b.team, From("stock_ready", p.warehouse, b.amount)
                 \o To("stock_to_borrow_cost", p.warehouse, b.amount)
                 \o To("borrow_stock_revenue", p.team, b.sell)
                 \o To("receivable", p.warehouse, b.sell)),
    Book(p.team, To("stock_borrow_cost", b.team, b.sell)
                 \o To("payable", b.team, b.sell))>>

\* The three books of one borrowed item: warehouse, lender, borrower.
Borrowed(p, b) ==
  <<Book(p.warehouse, From("stock_ready", b.team, b.amount)
                      \o To("stock_to_borrow_cost", b.team, b.amount)),
    Book(b.team, From("stock_ready", p.warehouse, b.amount)
                 \o To("stock_to_borrow_cost", p.warehouse, b.amount)
                 \o To("borrow_stock_revenue", p.team, b.sell)
                 \o To("receivable", p.team, b.sell)),
    Book(p.team, To("stock_borrow_cost", b.team, b.sell)
                 \o To("payable", b.team, b.sell))>>

CrossProductStock(p) ==
  FlattenSeq([j \in DOMAIN p.borrow |-> Borrowed(p, p.borrow[j])])

\* revenueOrder: a custom order has revenue only when it belongs to a parent
\* order and was paid as a fake one.
RevenueOrder(p) ==
  LET amount == IF p.custom THEN p.extra ELSE p.amount
  IN When(~p.custom \/ (p.parent /\ p.payment = "fake"),
       <<Book(p.team, To("sales_revenue", p.team, amount)
                      \o To("selling_receivable", p.team, amount))>>)

\* additionalAmount: a payment method the code does not know is an error; the
\* book without an account that pays is out of balance.
AdditionalAmount(p) ==
  When(p.payment # "none",
    <<Book(p.team,
        When(p.method \in {"cash", "shopeepay"}, From(p.method, p.team, p.extra))
        \o To(IF p.payment = "fake" THEN "fake_order_expense" ELSE "stock_cost",
              p.team, p.extra))>>)

\* OnOrder of the event CREATED.
OnOrder(id, p) ==
  Post("order", id, WarehouseFee(p) \o OwnProductStock(p) \o CrossProductStock(p)
                    \o RevenueOrder(p) \o AdditionalAmount(p))

OrderCancel(id) == Rollback(<<"order", id>>)

\* The cost of the returned goods becomes pending stock, on both sides.
OrderReturn(id, p) ==
  Post("stock_return", id,
    <<Book(p.team, From("stock_cost", p.warehouse, p.stock)
                   \o To("stock_pending", p.warehouse, p.stock)),
      Book(p.warehouse, From("stock_cost", p.team, p.stock)
                        \o To("stock_pending", p.team, p.stock))>>)

\* StockReturn is the same handler once more, under the same ref.
StockReturn(id, p) == OrderReturn(id, p)

OrdersNext ==
  \E id \in Id : \/ \E p \in OrderPayloads : OnOrder(id, p)
                 \/ OrderCancel(id)
                 \/ \E p \in Returns : OrderReturn(id, p) \/ StockReturn(id, p)
==============================================================================
