---------------------------- MODULE Liquidation ----------------------------
(***************************************************************************)
(* One margin account (programs/margin), its valuation, and the protocol   *)
(* that lets a permitted liquidator act for its owner while it is          *)
(* unhealthy: begin, invoke, collect the fee, end, and the timeout after   *)
(* which anybody may end it.  Each instruction handler is one action; an   *)
(* error rolls the transaction back, so it is a step that is not enabled.  *)
(*                                                                         *)
(* Amounts are whole tokens, values are fixed-point numbers (Number128,    *)
(* here FixedPoint).  Clocks are abstracted to what the guards compare:    *)
(* whether a position's price has expired (MAX_PRICE_QUOTE_AGE, or not     *)
(* valid yet) and whether a liquidation has timed out.  One borrowed token *)
(* and one claim position stand for the account's debts.                   *)
(***************************************************************************)
EXTENDS FixedPoint, FiniteSets, FiniteSetsExt

CONSTANTS
    Liquidator,       \* the keys that may hold a LIQUIDATE permit
    Owner,            \* the owner of the margin account
    NoOne,            \* Pubkey::default()
    Collateral,       \* the tokens that may be held as collateral
    Borrowed,         \* the token that is lent to the account
    Claim,            \* the position that counts the debt
    Price,            \* the prices each position may be quoted at
    Weight,           \* value_modifier of each collateral, in percent
    Leverage,         \* value_modifier of the claim, in percent
    MaxLossBps,       \* LIQUIDATION_MAX_EQUITY_LOSS_PROPORTION_BPS
    MaxLossConstant,  \* LIQUIDATION_MAX_EQUITY_LOSS_CONSTANT
    IncreaseBps,      \* LIQUIDATION_MAX_REQUIRED_COLLATERAL_INCREASE_BPS
    FeeBps,           \* LIQUIDATION_FEE_BPS
    FeeSlots,         \* the length of accrued_liquidation_fees
    Trade,            \* bound: the balance changes of a swap
    Repayment,        \* bound: the net repayments of an invocation
    FeeMint,          \* bound: the mints liquidators name for their fee
    Requoted,         \* bound: the positions an invocation may refresh
    Expiring,         \* bound: the positions whose price may expire
    PastDueFlag,      \* bound: the values adapters give the PAST_DUE flag
    Constraint,       \* bound: whether adapters set DENY_TRANSFERS
    MaxGain,          \* bound: what invocations may gain for the account
    MaxBalance,       \* bound: the tokens in a position
    MaxClosings       \* bound: how often the owner closes the account

Position == Collateral \cup {Claim}

ASSUME LiquidationAssumption ==
    /\ IsFiniteSet(Collateral)
    /\ Borrowed \in Collateral
    /\ Claim \notin Collateral
    /\ NoOne \notin Liquidator \cup {Owner}
    /\ Owner \notin Liquidator
    /\ \A p \in Position : Price[p] \subseteq Nat \ {0} /\ Price[p] # {}
    /\ \A p \in Collateral : Weight[p] \in 0 .. 100
    /\ Leverage \in Nat /\ Leverage * One >= 100
    /\ {MaxLossBps, MaxLossConstant, IncreaseBps, FeeBps} \subseteq Nat
    /\ FeeSlots \in Nat \ {0}
    /\ Trade \subseteq [Collateral -> Int]
    /\ Repayment \subseteq Int
    /\ FeeMint \subseteq Collateral
    /\ Requoted \subseteq Position
    /\ Expiring \subseteq Position
    /\ PastDueFlag \subseteq BOOLEAN
    /\ Constraint \subseteq BOOLEAN
    /\ {MaxGain, MaxBalance} \subseteq Nat
    /\ MaxClosings \in Nat

VARIABLES
    account,      \* the MarginAccount
    liquidation,  \* the LiquidationState of each liquidator, if it exists
    permit,       \* the liquidators whose permit has LIQUIDATE
    closings,     \* how often the account has been closed
    trail         \* history: what each liquidation has cost so far

vars == <<account, liquidation, permit, closings, trail>>

\* There is no liquidation account for this liquidator.
NoLiquidation == [exists |-> FALSE]

\* Every slot of accrued_liquidation_fees is empty.
NoFees == [m \in {} |-> 0]

\* What the history variable starts from.
NoTrail == [grossLoss |-> 0, feeValue |-> 0, paid |-> 0,
            opening |-> 0, undisturbed |-> FALSE]

-----------------------------------------------------------------------------
(* Valuation (account.rs, positions.rs).  An account is a parameter since  *)
(* handlers value it before and after a change.                            *)

FromPercent(n) == FromInt(n) \div 100

Value(a, p) == FromInt(a.balance[p] * a.price[p])

\* A stale claim is an error; stale collateral is left out of the sums.
CanValue(a) == a.balance[Claim] = 0 \/ Claim \notin a.stale

Held(a) == {p \in Collateral : a.balance[p] > 0}
Counted(a) == Held(a) \ a.stale

Liabilities(a) == Value(a, Claim)

Equity(a) ==
    MapThenSumSet(LAMBDA p : Value(a, p), Counted(a)) - Liabilities(a)

RequiredCollateral(a) == Div(Liabilities(a), FromPercent(Leverage))

EffectiveCollateral(a) ==
    MapThenSumSet(LAMBDA p : Mul(FromPercent(Weight[p]), Value(a, p)), Counted(a))
        - Liabilities(a)

AvailableCollateral(a) == EffectiveCollateral(a) - RequiredCollateral(a)

PastDue(a) == a.balance[Claim] > 0 /\ a.pastDue

VerifyHealthy(a) == CanValue(a) /\ AvailableCollateral(a) >= 0

VerifyUnhealthy(a) ==
    /\ CanValue(a)
    /\ Held(a) \subseteq Counted(a)
    /\ AvailableCollateral(a) < 0 \/ PastDue(a)

-----------------------------------------------------------------------------
(* What the adapters may do in one invocation (adapter.rs): a swap changes *)
(* collateral balances, a net repayment (a borrow when negative) moves the *)
(* borrowed token and the claim together, a refresh quotes prices anew,    *)
(* and the claim may be registered first or closed last.                   *)

Quote == {q \in UNION {[S -> UNION {Price[p] : p \in S}] : S \in SUBSET Requoted} :
            \A p \in DOMAIN q : q[p] \in Price[p]}

Effect == [change : Trade, repaid : Repayment, quote : Quote,
           claim : {"keep", "register", "close"}]

\* The account after invoke_many: update_balances and apply_changes.
Invoked(a, fx) ==
    LET balance == [p \in Position |->
                      IF p = Claim THEN a.balance[p] - fx.repaid
                      ELSE a.balance[p] + fx.change[p]
                           - (IF p = Borrowed THEN fx.repaid ELSE 0)]
        closed == fx.claim = "close"
    IN  [a EXCEPT
            !.balance = balance,
            !.price = [p \in Position |->
                         IF p \in DOMAIN fx.quote THEN fx.quote[p] ELSE a.price[p]],
            !.stale = IF closed THEN (@ \ DOMAIN fx.quote) \cup {Claim}
                      ELSE @ \ DOMAIN fx.quote,
            !.pastDue = @ /\ ~closed,
            !.registered = CASE fx.claim = "register" -> @ \cup {Claim}
                             [] fx.claim = "close" -> @ \ {Claim}
                             [] OTHER -> @]

InvokeMany(a, fx) ==
    LET known == IF fx.claim = "register" THEN a.registered \cup {Claim}
                 ELSE a.registered
        touched == DOMAIN fx.quote \cup {p \in Collateral : fx.change[p] # 0}
                     \cup (IF fx.repaid # 0 THEN {Claim, Borrowed} ELSE {})
    IN  /\ fx.claim = "register" => Claim \notin a.registered
        /\ fx.claim = "close" => Claim \in a.registered /\ a.balance[Claim] = fx.repaid
        /\ touched \subseteq known
        /\ \A p \in Position : Invoked(a, fx).balance[p] \in 0 .. MaxBalance

-----------------------------------------------------------------------------
(* History.  A step that is not the liquidator's own and that changes what *)
(* the account is worth ends the comparison with the opening valuation.    *)

Disturb == trail' = [l \in Liquidator |-> [trail[l] EXCEPT !.undisturbed = FALSE]]

-----------------------------------------------------------------------------
(* The liquidation protocol.                                               *)

MaxEquityLoss(a) ==
    Mul(FromBps(MaxLossBps), Liabilities(a)) + FromInt(MaxLossConstant)

MaxAvailableCollateralLimit(a) == Mul(RequiredCollateral(a), FromBps(IncreaseBps))

\* The liquidation account is created by this instruction (init), so it must
\* not exist: the early return for a liquidator that already holds the
\* account is never reached (LiquidatingHasState).
LiquidateBegin(l) ==
    /\ account.exists
    /\ l \in permit
    /\ ~liquidation[l].exists
    /\ VerifyUnhealthy(account)
    /\ account.liquidator = NoOne
    /\ account' = [account EXCEPT !.liquidator = l]
    /\ liquidation' = [liquidation EXCEPT ![l] =
          [exists |-> TRUE, equityLoss |-> 0,
           maxEquityLoss |-> MaxEquityLoss(account),
           collateralChange |-> 0,
           limit |-> MaxAvailableCollateralLimit(account),
           timedOut |-> FALSE, isCollectingFees |-> FALSE, fees |-> NoFees]]
    /\ trail' = [trail EXCEPT ![l] =
          [NoTrail EXCEPT !.opening = AvailableCollateral(account),
                          !.undisturbed = TRUE]]
    /\ UNCHANGED <<permit, closings>>

Increases(fx, mint) == fx.change[mint]
Repayments(fx, mint) == IF mint = Borrowed THEN fx.repaid ELSE 0

LiquidationFee(fx, mint) ==
    LET eligible == AtLeast(Min({Increases(fx, mint), Repayments(fx, mint)}), 0)
    IN  AsInt(Mul(Div(FromBps(FeeBps), One + FromBps(FeeBps)), FromInt(eligible)))

\* accrue_liquidation_fee: the mint's slot, or an empty one.
AccrueLiquidationFee(fees, mint, amount) ==
    [m \in DOMAIN fees \cup {mint} |->
        (IF m \in DOMAIN fees THEN fees[m] ELSE 0) + (IF m = mint THEN amount ELSE 0)]

HasFeeSlot(fees, mint) == mint \in DOMAIN fees \/ Cardinality(DOMAIN fees) < FeeSlots

\* update_and_verify_liquidation.
Verified(liq, start, end) ==
    [liq EXCEPT !.equityLoss = @ + Equity(start) - Equity(end),
                !.collateralChange =
                    @ + AvailableCollateral(end) - AvailableCollateral(start)]

\* Mutant: the available collateral may shrink.
WithinLimitsShrinking(liq, end) ==
    /\ liq.equityLoss <= liq.maxEquityLoss
    /\ AvailableCollateral(end) <= liq.limit

\* Mutant: the equity lost is not compared with the maximum.
WithinLimitsLosing(liq, end) ==
    /\ liq.collateralChange >= 0
    /\ AvailableCollateral(end) <= liq.limit

WithinLimits(liq, end) ==
    /\ liq.equityLoss <= liq.maxEquityLoss
    /\ liq.collateralChange >= 0
    /\ AvailableCollateral(end) <= liq.limit

\* The accounts of the instruction are the liquidation state and the margin
\* account it names; the account's own liquidator is not compared.
LiquidatorInvoke(l, fx, mint) ==
    /\ account.exists
    /\ liquidation[l].exists
    /\ ~liquidation[l].isCollectingFees
    /\ CanValue(account)
    /\ InvokeMany(account, fx)
    /\ Repayments(fx, mint) >= 0
    /\ HasFeeSlot(liquidation[l].fees, mint)
    /\ LET end == Invoked(account, fx)
           fees == AccrueLiquidationFee(liquidation[l].fees, mint, LiquidationFee(fx, mint))
           liq == Verified([liquidation[l] EXCEPT !.fees = fees], account, end)
       IN  /\ CanValue(end)
           /\ WithinLimits(liq, end)
           /\ liq.equityLoss >= -MaxGain /\ liq.collateralChange <= MaxGain
           /\ account' = end
           /\ liquidation' = [liquidation EXCEPT ![l] = liq]
           /\ trail' = [k \in Liquidator |->
                 IF k = l
                 THEN [trail[k] EXCEPT !.grossLoss = @ + Equity(account) - Equity(end)]
                 ELSE [trail[k] EXCEPT !.undisturbed = FALSE]]
    /\ UNCHANGED <<permit, closings>>

\* The part of a fee of this value that the equity lost so far leaves, and
\* the loss that is then still to be made up for.
NetFee(loss, value) == IF loss <= 0 THEN value ELSE SaturatingSub(value, loss)
LossLeft(loss, value) == IF loss <= 0 THEN loss ELSE SaturatingSub(loss, value)

\* Mutant: the marker is_collecting_fees is not set.
CollectedUnmarked(liq, mint, value) ==
    [liq EXCEPT !.equityLoss = LossLeft(@, value),
                !.fees = [m \in DOMAIN @ \ {mint} |-> @[m]]]

\* The liquidation once the fee in this mint has been taken: its slot is
\* cleared, and no more invocations are accepted.
Collected(liq, mint, value) ==
    [liq EXCEPT !.isCollectingFees = TRUE,
                !.equityLoss = LossLeft(@, value),
                !.fees = [m \in DOMAIN @ \ {mint} |-> @[m]]]

\* p is the oracle's price, which the account's position need not have.
CollectLiquidationFee(l, mint, p) ==
    /\ account.exists
    /\ liquidation[l].exists
    /\ mint \in DOMAIN liquidation[l].fees
    /\ LET liq == liquidation[l]
           value == FromInt(liq.fees[mint] * p)
           tokens == AsInt(Div(NetFee(liq.equityLoss, value), FromInt(p)))
       IN  /\ tokens > 0 => mint \in account.registered
           /\ tokens <= account.balance[mint]
           /\ account' = [account EXCEPT !.balance[mint] = @ - tokens]
           /\ liquidation' = [liquidation EXCEPT ![l] = Collected(liq, mint, value)]
           /\ trail' = [k \in Liquidator |->
                 IF k = l
                 THEN [trail[k] EXCEPT !.feeValue = @ + value,
                                       !.paid = @ + FromInt(tokens * p)]
                 ELSE [trail[k] EXCEPT !.undisturbed = FALSE]]
    /\ VerifyHealthy(account')
    /\ UNCHANGED <<permit, closings>>

\* Mutant: the liquidation account is closed and end_liquidation forgotten.
LiquidateEndWithoutReset(l, authority) ==
    /\ account.exists
    /\ liquidation[l].exists
    /\ account.liquidator = l
    /\ authority = l \/ liquidation[l].timedOut
    /\ liquidation' = [liquidation EXCEPT ![l] = NoLiquidation]
    /\ trail' = [trail EXCEPT ![l] = NoTrail]
    /\ UNCHANGED <<account, permit, closings>>

\* Mutant: the timeout gives nobody else the right to end it.
LiquidateEndByLiquidator(l, authority) ==
    /\ account.exists
    /\ liquidation[l].exists
    /\ account.liquidator = l
    /\ authority = l
    /\ account' = [account EXCEPT !.liquidator = NoOne]
    /\ liquidation' = [liquidation EXCEPT ![l] = NoLiquidation]
    /\ trail' = [trail EXCEPT ![l] = NoTrail]
    /\ UNCHANGED <<permit, closings>>

LiquidateEnd(l, authority) ==
    /\ account.exists
    /\ liquidation[l].exists
    /\ account.liquidator = l
    /\ authority = l \/ liquidation[l].timedOut
    /\ account' = [account EXCEPT !.liquidator = NoOne]
    /\ liquidation' = [liquidation EXCEPT ![l] = NoLiquidation]
    /\ trail' = [trail EXCEPT ![l] = NoTrail]
    /\ UNCHANGED <<permit, closings>>

-----------------------------------------------------------------------------
(* What the owner, anybody, the adapters, the airspace's authority and the *)
(* clock do to the account.                                                *)

\* What MarginAccount::initialize leaves; a position that is not registered
\* counts as stale and holds nothing.
InitializedAccount ==
    [exists |-> TRUE, liquidator |-> NoOne, denyTransfers |-> FALSE,
     registered |-> {}, balance |-> [p \in Position |-> 0],
     price |-> [p \in Position |-> Min(Price[p])], stale |-> Position,
     pastDue |-> FALSE]

CreateAccount ==
    /\ ~account.exists
    /\ account' = InitializedAccount
    /\ UNCHANGED <<liquidation, permit, closings, trail>>

\* The handler checks the positions and the constraints only.
CloseAccount ==
    /\ account.exists
    /\ account.registered = {}
    /\ ~account.denyTransfers
    /\ closings < MaxClosings
    /\ account' = [InitializedAccount EXCEPT !.exists = FALSE]
    /\ closings' = closings + 1
    /\ Disturb
    /\ UNCHANGED <<liquidation, permit>>

\* An adapter places a constraint on an account without any, or lifts its own.
ConfigureAccountConstraints(deny) ==
    /\ account.exists
    /\ account.registered = {}
    /\ account.denyTransfers = ~deny
    /\ account' = [account EXCEPT !.denyTransfers = deny]
    /\ UNCHANGED <<liquidation, permit, closings, trail>>

VerifyAuthority(authority) ==
    authority = IF account.liquidator = NoOne THEN Owner ELSE account.liquidator

RegisterPosition(p, authority) ==
    /\ account.exists
    /\ VerifyAuthority(authority)
    /\ p \notin account.registered
    /\ account' = [account EXCEPT !.registered = @ \cup {p}]
    /\ UNCHANGED <<liquidation, permit, closings, trail>>

\* Mutant: the balance is not checked.
ClosePositionUnchecked(p, authority) ==
    /\ account.exists
    /\ VerifyAuthority(authority)
    /\ p \in account.registered
    /\ account' = [account EXCEPT !.registered = @ \ {p}, !.stale = @ \cup {p},
                                 !.price[p] = Min(Price[p])]
    /\ UNCHANGED <<liquidation, permit, closings, trail>>

ClosePosition(p, authority) ==
    /\ account.exists
    /\ VerifyAuthority(authority)
    /\ p \in account.registered
    /\ account.balance[p] = 0
    /\ account' = [account EXCEPT !.registered = @ \ {p}, !.stale = @ \cup {p},
                                 !.price[p] = Min(Price[p])]
    /\ UNCHANGED <<liquidation, permit, closings, trail>>

AdapterInvoke(fx) ==
    /\ account.exists
    /\ account.liquidator = NoOne
    /\ InvokeMany(account, fx)
    /\ account' = Invoked(account, fx)
    /\ VerifyHealthy(account')
    /\ Disturb
    /\ UNCHANGED <<liquidation, permit, closings>>

\* Into the position when n > 0, out of it when n < 0.  The owner signs; the
\* handler looks neither at a liquidation nor at the account's health.
TransferDeposit(p, n) ==
    /\ account.exists
    /\ p \in account.registered
    /\ n < 0 => ~account.denyTransfers
    /\ account.balance[p] + n \in 0 .. MaxBalance
    /\ account' = [account EXCEPT !.balance[p] = @ + n]
    /\ Disturb
    /\ UNCHANGED <<liquidation, permit, closings>>

\* Records what others did to the position's token account: tokens sent to
\* it, or loan notes burned because somebody repaid the debt.
UpdatePositionBalance(p, n) ==
    /\ account.exists
    /\ p \in account.registered
    /\ IF p = Claim THEN n < account.balance[p] ELSE n > account.balance[p]
    /\ account' = [account EXCEPT !.balance[p] = n]
    /\ Disturb
    /\ UNCHANGED <<liquidation, permit, closings>>

\* refresh_deposit_position, or accounting_invoke of a pool's refresh.
RefreshPosition(p, quoted) ==
    /\ account.exists
    /\ p \in account.registered
    /\ account' = [account EXCEPT !.price[p] = quoted, !.stale = @ \ {p}]
    /\ Disturb
    /\ UNCHANGED <<liquidation, permit, closings>>

\* An adapter sets or clears PAST_DUE on the claim.
FlagPastDue(flag) ==
    /\ account.exists
    /\ Claim \in account.registered
    /\ account' = [account EXCEPT !.pastDue = flag]
    /\ UNCHANGED <<liquidation, permit, closings, trail>>

ConfigureLiquidator(l) ==
    /\ permit' = IF l \in permit THEN permit \ {l} ELSE permit \cup {l}
    /\ UNCHANGED <<account, liquidation, closings, trail>>

PriceExpires(p) ==
    /\ p \in (account.registered \cap Expiring) \ account.stale
    /\ account' = [account EXCEPT !.stale = @ \cup {p}]
    /\ Disturb
    /\ UNCHANGED <<liquidation, permit, closings>>

TimesOut(l) ==
    /\ liquidation[l].exists
    /\ ~liquidation[l].timedOut
    /\ liquidation' = [liquidation EXCEPT ![l].timedOut = TRUE]
    /\ UNCHANGED <<account, permit, closings, trail>>

-----------------------------------------------------------------------------
Init ==
    /\ account = InitializedAccount
    /\ liquidation = [l \in Liquidator |-> NoLiquidation]
    /\ permit = {}
    /\ closings = 0
    /\ trail = [l \in Liquidator |-> NoTrail]

LiquidatorStep ==
    \E l \in Liquidator :
        \/ LiquidateBegin(l)
        \/ \E mint \in FeeMint :
              \/ \E fx \in Effect : LiquidatorInvoke(l, fx, mint)
              \/ \E p \in Price[mint] : CollectLiquidationFee(l, mint, p)

\* What the account's owner signs.
OwnerStep ==
    \/ CreateAccount
    \/ CloseAccount
    \/ \E fx \in Effect : AdapterInvoke(fx)
    \/ \E p \in Collateral, n \in -MaxBalance .. MaxBalance : TransferDeposit(p, n)

PositionStep ==
    \E p \in Collateral, authority \in Liquidator \cup {Owner} :
        RegisterPosition(p, authority) \/ ClosePosition(p, authority)

EndStep ==
    \E l \in Liquidator, authority \in Liquidator \cup {Owner} : LiquidateEnd(l, authority)

EnvironmentStep ==
    \/ \E deny \in Constraint : ConfigureAccountConstraints(deny)
    \/ \E p \in Position :
          \/ \E n \in 0 .. MaxBalance : UpdatePositionBalance(p, n)
          \/ \E quoted \in Price[p] : RefreshPosition(p, quoted)
          \/ PriceExpires(p)
    \/ \E flag \in PastDueFlag : FlagPastDue(flag)
    \/ \E l \in Liquidator : ConfigureLiquidator(l) \/ TimesOut(l)

Next == LiquidatorStep \/ OwnerStep \/ PositionStep \/ EndStep \/ EnvironmentStep

Spec == Init /\ [][Next]_vars

\* Time passes, and the owner, who wants the account back, ends a liquidation
\* that has timed out.
Fairness ==
    \A l \in Liquidator :
        /\ WF_vars(TimesOut(l))
        /\ WF_vars(LiquidateEnd(l, Owner))

FairSpec == Spec /\ Fairness

-----------------------------------------------------------------------------
IsLiquidation(liq) ==
    /\ liq.equityLoss \in Int
    /\ {liq.maxEquityLoss, liq.collateralChange, liq.limit} \subseteq Nat
    /\ {liq.timedOut, liq.isCollectingFees} \subseteq BOOLEAN
    /\ DOMAIN liq.fees \subseteq Collateral
    /\ Cardinality(DOMAIN liq.fees) <= FeeSlots
    /\ \A m \in DOMAIN liq.fees : liq.fees[m] \in Nat

\* The type of the account, and that a position that is not registered holds
\* nothing: valuation and closing rely on it (account.rs, positions.rs).
TypeOK ==
    /\ account.liquidator \in Liquidator \cup {NoOne}
    /\ account.registered \subseteq Position
    /\ \A p \in Position : account.price[p] \in Price[p]
    /\ \A p \in Position :
          account.balance[p] \in IF p \in account.registered THEN 0 .. MaxBalance ELSE {0}
    /\ Position \ account.registered \subseteq account.stale
    /\ account.pastDue => Claim \in account.registered
    /\ \A l \in Liquidator : liquidation[l].exists => IsLiquidation(liquidation[l])
    /\ permit \subseteq Liquidator
    /\ closings \in 0 .. MaxClosings

\* An account that has a liquidator has that liquidator's liquidation account,
\* without which liquidate_end could never give the account back
\* (liquidate_begin, liquidate_end, close_account, create_account).
LiquidatingHasState ==
    account.liquidator # NoOne => liquidation[account.liquidator].exists

\* Over a whole liquidation the liquidator is paid no more than its fees less
\* the equity its invocations lost (liquidator_invoke and
\* collect_liquidation_fee: the loss is set off against each fee in turn, and
\* nothing may be lost after the first has been collected).
FeesNetOfLoss ==
    \A l \in Liquidator : liquidation[l].exists =>
        trail[l].paid <= AtLeast(trail[l].feeValue - AtLeast(trail[l].grossLoss, 0), 0)

\* The records are well formed, and whatever a liquidator is paid it earned.
FeesAreEarned == TypeOK /\ FeesNetOfLoss

\* What a liquidation costs the account, losses and fees together, is bounded
\* by the greater of the maximal equity loss fixed when it began and the fees
\* collected (liquidate_begin's max_equity_loss is a bound on all steps).
CostBounded ==
    \A l \in Liquidator : liquidation[l].exists =>
        trail[l].grossLoss + trail[l].paid
            <= AtLeast(liquidation[l].maxEquityLoss, trail[l].feeValue)

\* As long as nobody else touches the account and no price expires, the
\* liquidator leaves its available collateral no lower than it was when the
\* liquidation began, or healthy, whatever it invoked and collected
\* (update_and_verify_liquidation, collect_liquidation_fee).
LiquidationHelps ==
    \A l \in Liquidator : trail[l].undisturbed =>
        AvailableCollateral(account) >= Min({trail[l].opening, 0})

\* Whatever the liquidator does, every liquidation comes to an end: after the
\* timeout the owner can end it (liquidate_end).
LiquidationEnds ==
    \A l \in Liquidator : account.liquidator = l ~> account.liquidator # l
=============================================================================
