------------------------------ MODULE MCPosting ------------------------------
(* Sessions that race for one or two refs, for TLC.  Which kinds of handler *)
(* use a ref follows its type: orders and transfers are created and         *)
(* cancelled, receivable adjustments adjusted, restocks created and         *)
(* updated, advertising recorded once, expenses booked in a nested          *)
(* transaction.                                                             *)
EXTENDS Posting, TLC

CONSTANTS order, receivable, restock, advert, expense

MCKindsOf ==
  [r \in Ref |-> CASE r = order      -> {"create", "cancel"}
                   [] r = receivable -> {"adjust"}
                   [] r = restock    -> {"create", "update"}
                   [] r = advert     -> {"record"}
                   [] r = expense    -> {"expense"}]

\* Sessions differ only in the requests they happen to run.
Sessions == Permutations(Session)
==============================================================================
