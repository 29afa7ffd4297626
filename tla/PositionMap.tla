----------------------------- MODULE PositionMap -----------------------------
(***************************************************************************)
(* What the position registry of a margin account promises: a map from     *)
(* mint to the position registered for it, bounded by the capacity of the  *)
(* account and, outside of a liquidation, by the user's limit.             *)
(* PositionList (the arrays and the sorted keys) implements it.            *)
(***************************************************************************)
EXTENDS Integers, FiniteSets

CONSTANTS Mint, Address, Capacity, MaxUserPositions, MaxBalance

VARIABLES registry, liquidating

vars == <<registry, liquidating>>

Init == registry = [m \in {} |-> {}] /\ liquidating = FALSE

Held == DOMAIN registry

Register(m, a) ==
    /\ m \notin Held
    /\ Cardinality(Held) < IF liquidating \/ Capacity < MaxUserPositions
                           THEN Capacity ELSE MaxUserPositions
    /\ registry' = [x \in Held \cup {m} |->
                       IF x = m
                       THEN [address |-> a, balance |-> 0, required |-> FALSE]
                       ELSE registry[x]]
    /\ UNCHANGED liquidating

Unregister(m, a) ==
    /\ m \in Held
    /\ registry[m] = [address |-> a, balance |-> 0, required |-> FALSE]
    /\ registry' = [x \in Held \ {m} |-> registry[x]]
    /\ UNCHANGED liquidating

SetBalance(m, a, b) ==
    /\ m \in Held
    /\ registry[m].address = a
    /\ registry' = [registry EXCEPT ![m].balance = b]
    /\ UNCHANGED liquidating

SetRequired(m, flag) ==
    /\ m \in Held
    /\ registry' = [registry EXCEPT ![m].required = flag]
    /\ UNCHANGED liquidating

ToggleLiquidation == liquidating' = ~liquidating /\ UNCHANGED registry

Next ==
    \/ \E m \in Mint, a \in Address : Register(m, a) \/ Unregister(m, a)
    \/ \E m \in Mint, a \in Address, b \in 0 .. MaxBalance : SetBalance(m, a, b)
    \/ \E m \in Mint, flag \in BOOLEAN : SetRequired(m, flag)
    \/ ToggleLiquidation

Spec == Init /\ [][Next]_vars
=============================================================================
