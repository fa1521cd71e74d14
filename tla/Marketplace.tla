----------------------------- MODULE Marketplace -----------------------------
(***************************************************************************)
(* What the marketplace owes a seller (revenue/): the funds it reports for *)
(* an order against the estimate, its adjustments and withdrawals, and the *)
(* corrections that are made by hand.  Only the seller's books change.     *)
(***************************************************************************)
EXTENDS Ledger

CONSTANTS Funds,        \* payloads of the stream's fund event: team, est, amount
          HandPayloads, \* payloads of SellingReceivableAdjustment
          Amounts       \* payloads of the other calls: team, amount

ASSUME FundsAssumption ==
  \A p \in Funds : p.team \in Seller /\ p.est \in Int /\ p.amount \in Int
ASSUME AmountsAssumption ==
  \A p \in HandPayloads \cup Amounts : p.team \in Seller /\ p.amount \in Int

Receivable(team, amount) == To("selling_receivable", team, amount)

\* The estimate is corrected by amount (the two signs are two blocks of code).
Shift(team, amount) ==
  When(amount # 0, From("selling_receivable", team, amount)
                   \o To("selling_adj_receivable", team, amount))

\* Mutant of FundMoves: the rest of the estimate is not corrected on a return.
FundMovesShort(p) ==
  IF p.amount > 0 THEN Shift(p.team, p.est - p.amount)
  ELSE When(p.amount < 0,
         To("return_expense", p.team, -p.amount)
         \o IF p.est = 0 THEN To("selling_adj_receivable", p.team, p.amount)
            ELSE Receivable(p.team, p.amount))

\* revenueProcessor.fund: a negative amount is a returned order.
FundMoves(p) ==
  IF p.amount > 0 THEN Shift(p.team, p.est - p.amount)
  ELSE When(p.amount < 0,
         To("return_expense", p.team, -p.amount)
         \o IF p.est = 0 THEN To("selling_adj_receivable", p.team, p.amount)
            ELSE Receivable(p.team, p.amount) \o Shift(p.team, p.est + p.amount))

\* The amount that was expected is not booked.
Fund(id, p) == /\ p.est # p.amount
               /\ Post("order_fund", id, <<Book(p.team, FundMoves(p))>>)

\* revenueProcessor.adjustment: From of a negative amount, the sign is lost.
StreamAdjustment(id, p) ==
  LET size == IF p.amount > 0 THEN p.amount ELSE -p.amount
  IN Post("common_adjustment", id,
       <<Book(p.team, When(p.amount # 0, To("other_revenue", p.team, size)
                                         \o Receivable(p.team, size)))>>)

\* Withdrawal, and revenueProcessor.withdrawal which drops the sign first: one
\* ref per shop and second of the withdrawal.
Withdrawal(id, p) ==
  Post("wd", id, <<Book(p.team, From("selling_receivable", p.team, p.amount)
                                \o To("cash", p.team, p.amount))>>)

SellingExpenseOther(id, p) ==
  Post("selling_expense_other", id,
    <<Book(p.team, From("selling_receivable", p.team, p.amount)
                   \o To("selling_other_expense", p.team, p.amount))>>)

RevenueOther(id, p) ==
  Post("revenue_adjustment", id,
    <<Book(p.team, To("other_revenue", p.team, p.amount)
                   \o To("cash", p.team, p.amount))>>)

\* The amounts a type of SellingReceivableAdjustment takes.
Takes(type, amount) ==
  \/ type \in {"return_cost", "created_revenue"} /\ amount # 0
  \/ type \in {"refund_lost", "other_revenue", "other_cost", "cancel_receive"} /\ amount > 0

\* createdReceivableAdjustment goes on after its block for negative amounts,
\* so that these are booked twice.
HandMoves(p) ==
  CASE p.type = "return_cost" /\ p.amount < 0 ->
         Receivable(p.team, p.amount) \o To("return_expense", p.team, -p.amount)
    [] p.type \in {"return_cost", "refund_lost", "other_revenue"} /\ p.amount > 0 ->
         Receivable(p.team, p.amount) \o To("other_revenue", p.team, p.amount)
    [] p.type = "other_cost" ->
         Receivable(p.team, -p.amount) \o To("selling_other_expense", p.team, p.amount)
    [] p.type = "created_revenue" /\ p.amount < 0 ->
         Shift(p.team, p.amount) \o Shift(p.team, p.amount)
    [] OTHER -> Shift(p.team, p.amount)

\* Mutant of SellingReceivableAdjustment: what the ref holds is not reversed.
AdjustWithoutReversal(id, p) ==
  LET r == <<"selling_receivable", id>>
      books == <<Book(p.team, HandMoves(p))>>
  IN /\ Takes(p.type, p.amount)
     /\ \/ Post("selling_receivable", id, books)
        \/ /\ Reversible(r)
           /\ Called(books)
           /\ ledger' = [ledger EXCEPT ![r] = Merged(@, Effect(books))]

\* A first call creates the ref, a later one reverses what it holds and books
\* anew.  Calls that book nothing (OnlyRollback, ORDER_FUND) change nothing:
\* the reversal is rolled back with them (see Posting).
SellingReceivableAdjustment(id, p) ==
  LET r == <<"selling_receivable", id>>
      books == <<Book(p.team, HandMoves(p))>>
  IN /\ Takes(p.type, p.amount)
     /\ \/ Post("selling_receivable", id, books)
        \/ /\ Reversible(r)
           /\ Called(books)
           /\ ledger' = [ledger EXCEPT ![r] = Merged(Reversed(@), Effect(books))]

MarketplaceNext ==
  \E id \in Id :
    \/ \E p \in Funds : Fund(id, p)
    \/ \E p \in HandPayloads : SellingReceivableAdjustment(id, p)
    \/ \E p \in Amounts : \/ StreamAdjustment(id, p)
                          \/ Withdrawal(id, p)
                          \/ SellingExpenseOther(id, p)
                          \/ RevenueOther(id, p)
==============================================================================
