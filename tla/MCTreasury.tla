----------------------------- MODULE MCTreasury -----------------------------
(* Two teams with a bank account each and a third account to be opened, for *)
(* TLC: transfers in both directions, within a team, and from another       *)
(* team's account; initial balances; deletions, tags and adjustments in     *)
(* opposite orders; advertising with and without a ref, a shop, an amount.  *)
EXTENDS Treasury, TLC

CONSTANTS t1, t2, a, b, c

MCOpened == (a :> t1) @@ (b :> t2) @@ (c :> None)
MCSeeded == {<<"adj_asset", t1>>, <<"adj_expense", t1>>, <<"adj_expense", t2>>,
             <<"tag", "adj">>}

Transfer(t, x, y, n, f) ==
  [call |-> "transfer", team |-> t, from |-> x, to |-> y, amount |-> n, fee |-> f]
Ads(t, src, sh, x, n) ==
  [call |-> "ads", team |-> t, source |-> src, shop |-> sh, ref |-> x, tags |-> <<"shop">>,
   amount |-> n]
MCMarketplace == ("here" :> "adj") @@ ("gone" :> None)
Adj(t, u, k, n) == [book |-> t, owner |-> u, key |-> k, amount |-> n]

MCRequests ==
  {Transfer(t1, a, b, 2, 1), Transfer(t2, b, a, 1, 0), Transfer(t1, a, c, 1, 1),
   Transfer(t2, a, b, 1, 0)}
  \cup {[call |-> "init", account |-> x, amount |-> 2] : x \in {a, b}}
  \cup {[call |-> "create", account |-> c, team |-> t1, labels |-> <<"adj", "shop">>],
        [call |-> "delete", accounts |-> <<b, a>>],
        [call |-> "adjust", adjs |-> <<Adj(t1, t1, "cash", -1), Adj(t1, t2, "cash", 1)>>],
        [call |-> "expense", team |-> t1, type |-> "rent", amount |-> 1],
        Ads(t1, "shop", "here", 1, 1), Ads(t2, "shop", "here", 0, 1),
        Ads(t2, "bank", "here", 0, 0), Ads(t1, "bank", "gone", 0, 1),
        [call |-> "setup", team |-> t2],
        [call |-> "tag", tags |-> <<"shop", "adj">>]}
==============================================================================
