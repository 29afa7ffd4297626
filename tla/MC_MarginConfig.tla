-------------------------- MODULE MC_MarginConfig --------------------------
(* Two margin accounts, a token of the margin program whose features       *)
(* change and a token of an adapter whose admin and kind are contested.    *)
EXTENDS MarginConfig, TLC

Margin(o) == [kind |-> "Margin", oracle |-> o]
By(ad) == [kind |-> "Adapter", program |-> ad]

Base(admin, kind, modifier, features) ==
    [underlying |-> "u", program |-> "token", admin |-> admin, kind |-> kind,
     modifier |-> modifier, staleness |-> 0, features |-> features]

CONSTANTS deposit, note, pool, vault

MC_Update ==
    deposit :> {Base(Margin("o1"), "Collateral", 1, f) :
                  f \in {{}, {"USD_STABLECOIN"}, {"USD_STABLECOIN", "RESTRICTED"},
                         {"RESTRICTED"}}}
    @@ note :> {Base(By(pool), "Collateral", 1, {}), Base(By(pool), "Collateral", 2, {}),
                Base(By(vault), "Collateral", 1, {}), Base(By(pool), "Claim", 2, {}),
                Base(Margin("o1"), "Claim", 2, {}),
                [Base(By(pool), "Claim", 2, {}) EXCEPT !.staleness = 9],
                [Base(By(pool), "Claim", 2, {}) EXCEPT !.program = "other"]}

MC_OldLayout == deposit :> TRUE @@ note :> FALSE
MC_AccountFeature == {{}, {"USD_STABLECOIN"}}
MC_ConstraintSet == {{}, {"DENY_TRANSFERS"}}
MC_Symmetry == Permutations(Account)
=============================================================================
