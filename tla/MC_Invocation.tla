--------------------------- MODULE MC_Invocation ---------------------------
(* Two accounts, a trusted pool with loan and deposit notes, an exchange     *)
(* that is a registered adapter but not trusted, and the margin program      *)
(* registered as an adapter of its own.                                      *)
EXTENDS Invocation, TLC

CONSTANTS pool, exchange, loan, note, other

MC_Adapters == {pool, exchange, Margin}
MC_AdapterOf == loan :> pool @@ note :> pool @@ other :> exchange
MC_KindOf == loan :> "Claim" @@ note :> "Collateral" @@ other :> "Collateral"

One(m, cs) == <<[mint |-> m, changes |-> cs]>>

MC_Result ==
    {One(loan, <<"Register", "Require">>),
     One(loan, <<"Release", "Close">>), One(other, <<"Price">>),
     <<[mint |-> note, changes |-> <<"Price">>], [mint |-> loan, changes |-> <<"Price">>]>>}

MC_Symmetry == Permutations(Account)
=============================================================================
