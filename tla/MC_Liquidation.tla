-------------------------- MODULE MC_Liquidation --------------------------
EXTENDS Liquidation, TLC

CONSTANTS c, u    \* a volatile collateral, and the stable token that is lent

\* One volatile price; everything else is worth 1.
MCPrice == (c :> {1, 2}) @@ (u :> {1}) @@ (Claim :> {1})

\* No price moves.
MCStablePrice == [p \in Position |-> {1}]

\* At half its weight a swap of c may lose equity and gain collateral.
MCWeight == (c :> 50) @@ (u :> 100)

\* No swap, a fair one, one at twice the price.
MCTrade == {(c :> 0) @@ (u :> 0), (c :> -1) @@ (u :> 1), (c :> -1) @@ (u :> 2)}

\* No swaps: a single token is deposited and lent.
MCNoTrade == {[p \in Collateral |-> 0]}

\* Borrow one token, none, repay two.
MCRepayment == {-1, 0, 2}
=============================================================================
