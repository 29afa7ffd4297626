--------------------------- MODULE MC_Environment ---------------------------
(* Two operators: on a fresh local network; on an airspace in the old      *)
(* layouts, on a development network and under a multisig; with proposals  *)
(* of two runs; and with descriptions that change or are refused.          *)
EXTENDS Environment

CONSTANTS t1, t2, k1, k2

Desc(t, hasMint, leverage, features, pool) ==
    [token |-> t, symbol |-> "other", hasMint |-> hasMint, hasDecimals |-> TRUE,
     hasFeeds |-> TRUE, weight |-> 1, leverage |-> leverage, staleness |-> 9,
     features |-> features, pool |-> pool, oracle |-> "pyth"]

\* The native token, which needs no decimals.
Sol == [Desc(t2, FALSE, 2, {}, "none") EXCEPT !.symbol = "SOL", !.hasDecimals = FALSE]

Goal(network, cranks, tokens) ==
    [network |-> network, adapters |-> {}, cranks |-> cranks, tokens |-> tokens]

Fresh(mints) ==
    [governor |-> FALSE, airspace |-> FALSE, mints |-> mints, infos |-> {}, adapters |-> {},
     permit |-> [k \in Crank |-> {}], config |-> [m \in Mint |-> Nothing],
     pool |-> [t \in Token |-> Nothing], entry |-> [m \in Mint |-> Nothing]]

Config(u, old) == [exists |-> TRUE, old |-> old] @@ u

\* What an earlier version left: the second key may liquidate, the configs
\* and the metadata have no features.
Old(withPool) ==
    LET desc == Desc(t1, TRUE, 2, {}, "p1")
        mints == IF withPool THEN {MintOf(t1), Deposit(t1), Loan(t1)} ELSE {MintOf(t1)}
        update == MintOf(t1) :> MarginUpdate(desc) @@ Deposit(t1) :> DepositUpdate(desc)
                  @@ Loan(t1) :> LoanUpdate(desc)
    IN  [Fresh(mints) EXCEPT
            !.governor = TRUE, !.airspace = TRUE, !.adapters = {PoolAdapter},
            !.permit[k2] = {"LIQUIDATE", "OPERATE_VAULTS"},
            !.config = [m \in Mint |-> IF m \in mints THEN Config(update[m], TRUE) ELSE Nothing],
            !.pool[t1] = IF withPool THEN [exists |-> TRUE, params |-> "p1", oracle |-> "pyth"] ELSE @,
            !.entry = [m \in Mint |->
                IF m \notin mints \/ ~withPool THEN Nothing
                ELSE IF m = MintOf(t1) THEN [exists |-> TRUE, oracle |-> "pyth"]
                ELSE MetadataEntry("old", update[m].kind, update[m].modifier, 9, {})]]

Liquidates == k1 :> {"LIQUIDATE"}
Both == k1 :> {"REFRESH_POSITION_CONFIG"} @@ k2 :> {"LIQUIDATE"}
Stable == {"USD_STABLECOIN"}

\* Descriptions the builder refuses: without decimals, without feed ids, for a
\* new token and for one with a mint, and with bits that are no feature.
Unusable ==
    {[Desc(t2, FALSE, 2, {}, "none") EXCEPT !.hasDecimals = FALSE],
     [Desc(t2, FALSE, 2, {}, "none") EXCEPT !.hasFeeds = FALSE],
     [Desc(t1, TRUE, 2, {}, "none") EXCEPT !.hasFeeds = FALSE],
     Desc(t1, TRUE, 2, {"UNKNOWN"}, "none")}

MCScenario ==
    {[network |-> "Localnet", execution |-> "Direct", start |-> Fresh({}),
      targets |-> {Goal("Localnet", Liquidates, <<Desc(t1, FALSE, 2, {}, "p1"),
                                                  Desc(t2, FALSE, 2, Stable, "none")>>)},
      runs |-> 2, retargets |-> 0],
     [network |-> "Devnet", execution |-> "Direct", start |-> Old(TRUE),
      targets |-> {Goal("Devnet", Liquidates, <<Desc(t1, TRUE, 3, Stable, "p1")>>)},
      runs |-> 2, retargets |-> 0],
     [network |-> "Devnet", execution |-> "Direct", start |-> Old(FALSE),
      targets |-> {Goal("Devnet", Liquidates, <<Desc(t1, TRUE, 2, Stable, "none")>>),
                   Goal("Devnet", Both, <<Desc(t1, TRUE, 2, {"SOL_BASED"}, "none"),
                                          Desc(t2, FALSE, 2, {}, "none")>>)},
      runs |-> 3, retargets |-> 1],
     [network |-> "Mainnet", execution |-> "Governance", start |-> Old(TRUE),
      targets |-> {Goal("Mainnet", Liquidates, <<Desc(t1, TRUE, 3, Stable, "p2")>>)},
      runs |-> 1, retargets |-> 0],
     [network |-> "Mainnet", execution |-> "Governance", start |-> Fresh({MintOf(t1)}),
      targets |-> {Goal("Mainnet", Liquidates, <<Desc(t1, TRUE, 2, {}, "p1")>>)},
      runs |-> 2, retargets |-> 0],
     [network |-> "Mainnet", execution |-> "Governance", start |-> Old(FALSE),
      targets |-> {Goal("Mainnet", Liquidates, <<Desc(t1, TRUE, 2, Stable, "none")>>)},
      runs |-> 2, retargets |-> 0],
     [network |-> "Mainnet", execution |-> "Governance", start |-> Old(FALSE),
      targets |-> {Goal("Mainnet", Liquidates, <<Desc(t1, FALSE, 2, Stable, "none")>>),
                   Goal("Devnet", Both, <<>>),
                   Goal("Mainnet", Both, <<Desc(t1, TRUE, 2, Stable, "unordered")>>)},
      runs |-> 1, retargets |-> 0],
     [network |-> "Devnet", execution |-> "Direct", start |-> Old(FALSE),
      targets |-> {Goal("Devnet", Both, <<desc>>) : desc \in Unusable},
      runs |-> 1, retargets |-> 0]} \cup
    {[network |-> network, execution |-> "Direct", start |-> Fresh({MintOf(t2)}),
      targets |-> {Goal(network, Liquidates, <<Sol>>)},
      runs |-> 2, retargets |-> 0] : network \in {"Localnet", "Devnet"}}

MCSymmetry == Permutations(Operator)
=============================================================================
