-------------------------------- MODULE Flows --------------------------------
(***************************************************************************)
(* The flows of goods and money together: what the stock service, orders   *)
(* and the marketplace write to one ledger, and what must agree between    *)
(* the books of two teams whatever calls succeed, and in which order.      *)
(***************************************************************************)
EXTENDS Goods, Orders, Marketplace

Next == GoodsNext \/ OrdersNext \/ MarketplaceNext

Spec == Init /\ [][Next]_vars
------------------------------------------------------------------------------
\* Type invariant: books are kept by the parties, on accounts of the parties.
TypeOK ==
  /\ calls \in 0..MaxCalls
  /\ \A r \in DOMAIN ledger :
       /\ r[2] \in Id
       /\ \A x \in DOMAIN ledger[r] :
            x[1] \in Party /\ x[3] \in Party /\ ledger[r][x] \in Int

\* What one team claims of another (fees, borrowed goods, courier fees, broken
\* goods) is what the other owes it, whatever is posted, updated or cancelled.
ClaimsMirrorDebts ==
  \A t, u \in Party : Balance(t, "receivable", u) = Balance(u, "payable", t)

\* InboundUpdate turned a return into a purchase: only the seller's side of it
\* was booked anew.
ReturnUpdated(s) ==
  \E id \in Id, key \in {"cash", "shopeepay"} :
    Part(<<"stock_return", id>>, s, key, s) # 0

\* The goods a seller has ready in a warehouse, and those sold from there.
ReadyOrSold(t, u) == Balance(t, "stock_ready", u) + Balance(t, "stock_cost", u)

\* The seller and the warehouse agree about the goods: ready and sold taken
\* together (the sale of own stock is booked by the seller alone), broken, and
\* lost.
GoodsMirror ==
  \A s \in Seller, w \in Warehouse :
    /\ ~ReturnUpdated(s) => ReadyOrSold(s, w) = ReadyOrSold(w, s)
    /\ \A key \in {"stock_broken", "stock_lost"} : Balance(s, key, w) = Balance(w, key, s)

\* What sellers have in transit the warehouses have in transit, though a
\* warehouse keeps no account per seller for it.
TransitMirror ==
  MapThenSumSet(LAMBDA x : Balance(x[1], "stock_transfer", x[2]), Seller \X Warehouse) =
  MapThenSumSet(LAMBDA x : Balance(x[1], "stock_transfer", x[2]), Warehouse \X Warehouse)

\* After any number of updates a restock is paid by one method, and what was
\* paid is what is pending for it.
PaidIsPending ==
  \A s \in Seller, id \in Id :
    LET paid(key) == -Part(<<"restock", id>>, s, key, s)
    IN /\ paid("cash") = 0 \/ paid("shopeepay") = 0
       /\ paid("cash") + paid("shopeepay") =
            MapThenSumSet(LAMBDA w : Part(<<"restock", id>>, s, "stock_pending", w), Warehouse)

\* The claim on the marketplace an order and its fund leave.
Claim(id, t) == Part(<<"order", id>>, t, "selling_receivable", t)
                + Part(<<"order_fund", id>>, t, "selling_receivable", t)

\* When the fund of an order arrives, with what the order claimed as estimate,
\* the claim becomes the amount that is paid out, and nothing for a return.
FundSettles ==
  [][\A id \in Id : \A p \in Funds :
       (Fund(id, p) /\ p.est = Claim(id, p.team)) =>
          Claim(id, p.team)' = IF p.amount > 0 THEN p.amount ELSE 0]_vars

\* However often it is corrected, a correction by hand counts once: its ref
\* carries what one call books.
OneCorrectionHolds ==
  \A id \in Id :
    LET r == <<"selling_receivable", id>>
    IN r \in DOMAIN ledger =>
         \E p \in HandPayloads :
           LET one == Effect(<<Book(p.team, HandMoves(p))>>)
           IN \A x \in DOMAIN one \cup DOMAIN ledger[r] :
                /\ x \in DOMAIN ledger[r]
                /\ ledger[r][x] = IF x \in DOMAIN one THEN one[x] ELSE 0

\* The warehouse's account of a seller's ready goods is the seller's account
\* of its goods in the warehouse.
ReadyMirrors ==
  \A s \in Seller, w \in Warehouse :
    Balance(s, "stock_ready", w) = Balance(w, "stock_ready", s)
==============================================================================
