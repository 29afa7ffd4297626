--------------------------- MODULE MC_MarginPool ---------------------------
(***************************************************************************)
(* A small instance of MarginPool: the unit of time is a day of a short    *)
(* year, so that interest shows within a few steps.                        *)
(***************************************************************************)
EXTENDS MarginPool, TLC

MCRates == 0 :> 4000 @@ 1 :> 10000 @@ 2 :> 15000 @@ 3 :> 20000

MCUtilization == 1 :> 4000 @@ 2 :> 8000

\* Lending with a fee of half of the interest; deposits only; disabled.
MCLending ==
    [borrowRate |-> MCRates, utilizationRate |-> MCUtilization,
     managementFeeRate |-> 5000, depositLimit |-> 3, borrowLimit |-> 2,
     lending |-> TRUE, disabled |-> FALSE]

\* All of the interest is a fee at first.
MCFeeConfig ==
    {[MCLending EXCEPT !.managementFeeRate = 10000],
     [MCLending EXCEPT !.lending = FALSE, !.disabled = TRUE]}

MCOneConfig == {[MCLending EXCEPT !.managementFeeRate = 10000]}

MCSymmetry == Permutations(User)
=============================================================================
