------------------------------- MODULE MCFlows -------------------------------
(* Payloads for Flows: two sellers, two warehouses, one id per kind of event. *)
EXTENDS Flows

Inbound(goods, shipping, method, warehouse) ==
  [team |-> "s1", warehouse |-> warehouse, goods |-> goods, shipping |-> shipping,
   method |-> method]

InboundsDef == {Inbound(8, 2, "cash", "w1"), Inbound(6, 1, "shopeepay", "w1"),
                Inbound(0, 1, "cash", "w2"), Inbound(8, 0, "shopeepay", "w2"),
                Inbound(4, 0, "other", "w1")}

Accepted3(source, accepted, lost, broken, shipping, cod) ==
  [source |-> source, team |-> "s1", warehouse |-> "w1", price |-> 2,
   accepted |-> accepted, lost |-> lost, broken |-> broken,
   shipping |-> shipping, cod |-> cod]

AcceptsDef == {Accepted3("restock", 4, 0, 0, 0, 4), Accepted3("restock", 2, 1, 1, 4, 0),
               Accepted3("return", 1, 0, 1, 0, 2), Accepted3("restock", 0, 4, 0, 0, 0),
               Accepted3("transfer", 2, 0, 0, 0, 0)}

TransfersDef ==
  {[from |-> "w1", to |-> "w2", goods |-> [t \in {"s1"} |-> 3]],
   [from |-> "w1", to |-> "w2", goods |-> [t \in {"s1", "s2"} |-> 2]]}

Adjustment(lost, lostCharge, broken, brokenCharge) ==
  [team |-> "s1", warehouse |-> "w1", lost |-> lost, lostCharge |-> lostCharge,
   broken |-> broken, brokenCharge |-> brokenCharge]

AdjustmentsDef == {Adjustment(0, 0, 2, 2), Adjustment(3, 3, 1, 0), Adjustment(2, 2, 0, 0),
                   Adjustment(0, 0, 1, 0)}

Order(fee, own, borrow, custom, parent, payment, method) ==
  [team |-> "s1", warehouse |-> "w1", fee |-> fee, own |-> own, borrow |-> borrow,
   amount |-> 9, custom |-> custom, parent |-> parent, payment |-> payment,
   method |-> method, extra |-> 5]

Lent == <<[team |-> "s2", amount |-> 2, sell |-> 3]>>

OrderPayloadsDef ==
  {Order(1, 4, <<>>, FALSE, FALSE, "none", "cash"), Order(0, 0, Lent, FALSE, FALSE, "none", "cash"),
   Order(2, 3, Lent, FALSE, FALSE, "supplier", "shopeepay"),
   Order(1, 0, <<>>, TRUE, TRUE, "fake", "cash"), Order(0, 2, <<>>, TRUE, FALSE, "fake", "cash"),
   Order(1, 0, <<>>, TRUE, TRUE, "supplier", "cash"), Order(1, 0, <<>>, FALSE, FALSE, "fake", "other")}

ReturnsDef == {[team |-> "s1", warehouse |-> "w1", stock |-> 4]}

FundsDef == {[team |-> "s1", est |-> est, amount |-> amount] :
               est \in {0, 9}, amount \in {-12, -4, 0, 7, 9, 10}}

HandPayloadsDef ==
  {[team |-> "s1", type |-> type, amount |-> amount] :
     type \in {"return_cost", "created_revenue"}, amount \in {-2, 3}}
  \cup {[team |-> "s1", type |-> type, amount |-> 1] :
     type \in {"refund_lost", "other_revenue", "other_cost", "cancel_receive"}}
  \cup {[team |-> "s2", type |-> "return_cost", amount |-> 3]}

AmountsDef == {[team |-> "s1", amount |-> amount] : amount \in {-2, 3}}
==============================================================================
