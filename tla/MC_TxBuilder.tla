---- MODULE MC_TxBuilder ----
(* Two tokens: x is deposited and is the collateral, y is borrowed.        *)
EXTENDS TxBuilder

x == "x"
y == "y"
Tokens == {x, y}

Wallet == [t \in Tokens |-> IF t = x THEN 1 ELSE 0]

Call(op, who, t) == [op |-> op, who |-> who, token |-> t]

Operations ==
    { Call(op, "owner", x) : op \in {"create_account", "close_account", "close_empty_positions",
                                      "create_deposit_position", "close_deposit_position"} }
    \cup { [op |-> op, who |-> "owner", token |-> x, n |-> 1, authority |-> a] :
             op \in {"pool_deposit", "pool_deposit_deprecated"},
             a \in {"AccountAuthority", "MarginAccount"} }
    \cup { [op |-> "pool_repay", who |-> "owner", token |-> y, n |-> 1, authority |-> "MarginAccount"] }
    \cup { [op |-> "borrow", who |-> "owner", token |-> y, n |-> 1] }
    \cup { [op |-> "margin_repay", who |-> w, token |-> y, n |-> 1] : w \in Who }
    \cup { [op |-> "withdraw", who |-> "owner", token |-> x, n |-> 1] }
    \cup { [op |-> "margin_swap", who |-> "owner", token |-> y, to |-> x, n |-> 1, take |-> k] :
             k \in {0, 1} }
    \cup { [op |-> "swap_and_repay", who |-> w, token |-> x, to |-> y, n |-> 1, take |-> 1,
            repay |-> r, fee |-> 1] : w \in Who, r \in {NoAmount, 1} }
    \cup { [op |-> "transfer_deposit", who |-> "owner", token |-> x, n |-> 1, inward |-> b] :
             b \in BOOLEAN }
    \cup { [op |-> "close_pool_position", who |-> "owner", token |-> y, kind |-> k] :
             k \in {"Collateral", "Claim"} }
    \cup { Call("close_pool_positions", "owner", y) }
    \cup { [op |-> "liquidate_begin", who |-> "liquidator", token |-> x, refresh |-> b] :
             b \in BOOLEAN }
    \cup { Call(op, "liquidator", y) : op \in {"liquidate_end", "collect_liquidation_fees",
                                                "create_deposit_position",
                                                "close_empty_positions"} }
    \cup { Call("refresh_all_position_metadata", "owner", x) }

Races == { o \in Operations : o.who = "owner" /\ o.op \in
             {"pool_deposit", "pool_deposit_deprecated", "borrow", "close_empty_positions"} }
====
