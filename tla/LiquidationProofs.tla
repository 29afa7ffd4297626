-------------------------- MODULE LiquidationProofs --------------------------
(***************************************************************************)
(* That an account with a liquidator can always be given back, that what a *)
(* liquidation costs is bounded and paid for, and that it leaves the       *)
(* account no worse: proved for every set of liquidators and tokens, every *)
(* price and every bound.                                                  *)
(***************************************************************************)
EXTENDS Liquidation, RecursionTheorems, TLAPS

AccountFields ==
    {"exists", "liquidator", "denyTransfers", "registered", "balance", "price",
     "stale", "pastDue"}

\* The part of the types the argument needs.
Shape ==
    /\ DOMAIN account = AccountFields
    /\ account.liquidator \in Liquidator \cup {NoOne}
    /\ DOMAIN liquidation = Liquidator

HandBack == Shape /\ LiquidatingHasState

\* Initially there is neither a liquidator nor a liquidation account.
LEMMA HandBackInit == Init => HandBack
  BY DEF Init, HandBack, Shape, LiquidatingHasState, InitializedAccount, AccountFields

\* Invoking adapters changes the account's positions and not its liquidator.
LEMMA InvokedKeepsLiquidator ==
  ASSUME NEW a, NEW fx, DOMAIN a = AccountFields
  PROVE  /\ DOMAIN Invoked(a, fx) = AccountFields
         /\ Invoked(a, fx).liquidator = a.liquidator
  BY DEF Invoked, AccountFields

\* A step that leaves the account's liquidator and the liquidation accounts'
\* existence alone keeps the invariant.
LEMMA HandBackFrame ==
  ASSUME HandBack,
         DOMAIN account' = AccountFields,
         account'.liquidator \in {account.liquidator, NoOne},
         DOMAIN liquidation' = Liquidator,
         \A l \in Liquidator : liquidation'[l].exists = liquidation[l].exists
  PROVE  HandBack'
  BY LiquidationAssumption DEF HandBack, Shape, LiquidatingHasState

\* liquidate_begin creates the liquidation account of the liquidator it
\* installs, and no other liquidator was there.
LEMMA BeginKeepsHandBack ==
  ASSUME HandBack, NEW l \in Liquidator, LiquidateBegin(l)
  PROVE  HandBack'
  <1>1. DOMAIN account' = AccountFields /\ account'.liquidator = l
    BY DEF LiquidateBegin, HandBack, Shape, AccountFields
  <1>2. DOMAIN liquidation' = Liquidator /\ liquidation'[l].exists
    BY DEF LiquidateBegin, HandBack, Shape
  <1> QED
    BY <1>1, <1>2 DEF HandBack, Shape, LiquidatingHasState

\* liquidate_end closes the liquidation account and clears the liquidator in
\* the same step.
LEMMA EndKeepsHandBack ==
  ASSUME HandBack, NEW l \in Liquidator, NEW authority, LiquidateEnd(l, authority)
  PROVE  HandBack'
  <1>1. DOMAIN account' = AccountFields /\ account'.liquidator = NoOne
    BY DEF LiquidateEnd, HandBack, Shape, AccountFields
  <1>2. DOMAIN liquidation' = Liquidator
    BY DEF LiquidateEnd, HandBack, Shape
  <1> QED
    BY <1>1, <1>2 DEF HandBack, Shape, LiquidatingHasState

\* liquidator_invoke and collect_liquidation_fee rewrite a liquidation account
\* that exists, and leave the account's liquidator alone.
LEMMA LiquidatorStepKeepsHandBack ==
  ASSUME HandBack, LiquidatorStep
  PROVE  HandBack'
  <1>1. PICK l \in Liquidator :
          \/ LiquidateBegin(l)
          \/ \E mint \in FeeMint :
                \/ \E fx \in Effect : LiquidatorInvoke(l, fx, mint)
                \/ \E p \in Price[mint] : CollectLiquidationFee(l, mint, p)
    BY DEF LiquidatorStep
  <1>2. CASE LiquidateBegin(l)
    BY <1>2, BeginKeepsHandBack
  <1>3. ASSUME NEW mint \in FeeMint, NEW fx \in Effect, LiquidatorInvoke(l, fx, mint)
        PROVE  HandBack'
    <2>1. account' = Invoked(account, fx)
      BY <1>3 DEF LiquidatorInvoke
    <2>2. DOMAIN account' = AccountFields /\ account'.liquidator = account.liquidator
      BY <2>1, InvokedKeepsLiquidator DEF HandBack, Shape
    <2>3. DOMAIN liquidation' = Liquidator
      BY <1>3 DEF LiquidatorInvoke, HandBack, Shape
    <2>4. \A k \in Liquidator : liquidation'[k].exists = liquidation[k].exists
      BY <1>3 DEF LiquidatorInvoke, HandBack, Shape, Verified
    <2> QED
      BY <2>2, <2>3, <2>4, HandBackFrame
  <1>4. ASSUME NEW mint \in FeeMint, NEW p \in Price[mint], CollectLiquidationFee(l, mint, p)
        PROVE  HandBack'
    <2>1. DOMAIN account' = AccountFields /\ account'.liquidator = account.liquidator
      BY <1>4 DEF CollectLiquidationFee, HandBack, Shape, AccountFields
    <2>2. DOMAIN liquidation' = Liquidator
      BY <1>4 DEF CollectLiquidationFee, HandBack, Shape
    <2>3. PICK value :
            liquidation' = [liquidation EXCEPT ![l] = Collected(liquidation[l], mint, value)]
      BY <1>4 DEF CollectLiquidationFee
    <2>4. Collected(liquidation[l], mint, value).exists = liquidation[l].exists
      BY DEF Collected
    <2>5. \A k \in Liquidator : liquidation'[k].exists = liquidation[k].exists
      BY <2>3, <2>4 DEF HandBack, Shape
    <2> QED
      BY <2>1, <2>2, <2>5, HandBackFrame
  <1> QED
    BY <1>1, <1>2, <1>3, <1>4

\* What the owner signs never touches a liquidation account; a new account has
\* no liquidator, a closed one is blank.
LEMMA OwnerStepKeepsHandBack ==
  ASSUME HandBack, OwnerStep
  PROVE  HandBack'
  <1>1. liquidation' = liquidation
    BY DEF OwnerStep, CreateAccount, CloseAccount, AdapterInvoke, TransferDeposit
  <1>2. DOMAIN account' = AccountFields /\ account'.liquidator \in {account.liquidator, NoOne}
    <2>1. CASE CreateAccount
      BY <2>1 DEF CreateAccount, InitializedAccount, AccountFields
    <2>2. CASE CloseAccount
      BY <2>2 DEF CloseAccount, InitializedAccount, AccountFields
    <2>3. CASE \E fx \in Effect : AdapterInvoke(fx)
      BY <2>3, InvokedKeepsLiquidator DEF AdapterInvoke, HandBack, Shape
    <2>4. ASSUME NEW p \in Collateral, NEW n \in -MaxBalance .. MaxBalance, TransferDeposit(p, n)
          PROVE  DOMAIN account' = AccountFields /\ account'.liquidator = account.liquidator
      BY <2>4 DEF TransferDeposit, HandBack, Shape, AccountFields
    <2> QED
      BY <2>1, <2>2, <2>3, <2>4 DEF OwnerStep
  <1> QED
    BY <1>1, <1>2, HandBackFrame DEF HandBack, Shape

\* Registering and closing positions touches neither.
LEMMA PositionStepKeepsHandBack ==
  ASSUME HandBack, PositionStep
  PROVE  HandBack'
  <1>1. PICK p \in Collateral, authority \in Liquidator \cup {Owner} :
          RegisterPosition(p, authority) \/ ClosePosition(p, authority)
    BY DEF PositionStep
  <1>2. liquidation' = liquidation
    BY <1>1 DEF RegisterPosition, ClosePosition
  <1>3. DOMAIN account' = AccountFields /\ account'.liquidator = account.liquidator
    BY <1>1 DEF RegisterPosition, ClosePosition, HandBack, Shape, AccountFields
  <1> QED
    BY <1>2, <1>3, HandBackFrame DEF HandBack, Shape

\* Neither do adapters, oracles, permits and the clock, except that the clock
\* marks a liquidation account as timed out.
LEMMA EnvironmentStepKeepsHandBack ==
  ASSUME HandBack, EnvironmentStep
  PROVE  HandBack'
  <1>1. DOMAIN account' = AccountFields /\ account'.liquidator = account.liquidator
    <2> USE DEF HandBack, Shape, AccountFields
    <2>1. ASSUME NEW deny \in Constraint, ConfigureAccountConstraints(deny)
          PROVE  DOMAIN account' = AccountFields /\ account'.liquidator = account.liquidator
      BY <2>1 DEF ConfigureAccountConstraints
    <2>2. ASSUME NEW p \in Position, NEW n \in 0 .. MaxBalance, UpdatePositionBalance(p, n)
          PROVE  DOMAIN account' = AccountFields /\ account'.liquidator = account.liquidator
      BY <2>2 DEF UpdatePositionBalance
    <2>3. ASSUME NEW p \in Position, NEW quoted \in Price[p], RefreshPosition(p, quoted)
          PROVE  DOMAIN account' = AccountFields /\ account'.liquidator = account.liquidator
      BY <2>3 DEF RefreshPosition
    <2>4. ASSUME NEW p \in Position, PriceExpires(p)
          PROVE  DOMAIN account' = AccountFields /\ account'.liquidator = account.liquidator
      BY <2>4 DEF PriceExpires
    <2>5. ASSUME NEW flag \in PastDueFlag, FlagPastDue(flag)
          PROVE  DOMAIN account' = AccountFields /\ account'.liquidator = account.liquidator
      BY <2>5 DEF FlagPastDue
    <2>6. ASSUME NEW l \in Liquidator, ConfigureLiquidator(l) \/ TimesOut(l)
          PROVE  DOMAIN account' = AccountFields /\ account'.liquidator = account.liquidator
      BY <2>6 DEF ConfigureLiquidator, TimesOut
    <2> QED
      BY <2>1, <2>2, <2>3, <2>4, <2>5, <2>6 DEF EnvironmentStep
  <1>2. CASE \E l \in Liquidator : TimesOut(l)
    <2>1. DOMAIN liquidation' = Liquidator
      BY <1>2 DEF TimesOut, HandBack, Shape
    <2>2. \A k \in Liquidator : liquidation'[k].exists = liquidation[k].exists
      BY <1>2 DEF TimesOut, HandBack, Shape
    <2> QED
      BY <1>1, <2>1, <2>2, HandBackFrame
  <1>3. CASE ~ \E l \in Liquidator : TimesOut(l)
    <2>1. liquidation' = liquidation
      BY <1>3 DEF EnvironmentStep, ConfigureAccountConstraints, UpdatePositionBalance,
                  RefreshPosition, PriceExpires, FlagPastDue, ConfigureLiquidator
    <2> QED
      BY <1>1, <2>1, HandBackFrame DEF HandBack, Shape
  <1> QED
    BY <1>2, <1>3

\* Every step keeps the invariant.
LEMMA HandBackNext == HandBack /\ [Next]_vars => HandBack'
  <1> SUFFICES ASSUME HandBack, [Next]_vars PROVE HandBack'
    OBVIOUS
  <1>1. CASE LiquidatorStep
    BY <1>1, LiquidatorStepKeepsHandBack
  <1>2. CASE OwnerStep
    BY <1>2, OwnerStepKeepsHandBack
  <1>3. CASE PositionStep
    BY <1>3, PositionStepKeepsHandBack
  <1>4. CASE EndStep
    BY <1>4, EndKeepsHandBack DEF EndStep
  <1>5. CASE EnvironmentStep
    BY <1>5, EnvironmentStepKeepsHandBack
  <1>6. CASE UNCHANGED vars
    BY <1>6 DEF vars, HandBack, Shape, LiquidatingHasState
  <1> QED
    BY <1>1, <1>2, <1>3, <1>4, <1>5, <1>6 DEF Next

\* Whatever liquidators, owners and adapters do, an account with a liquidator
\* has that liquidator's liquidation account: liquidate_end always has the
\* account it needs, and the early return of liquidate_begin is dead code.
THEOREM LiquidatingKeepsState == Spec => []LiquidatingHasState
  <1>1. HandBack => LiquidatingHasState
    BY DEF HandBack
  <1> QED
    BY <1>1, HandBackInit, HandBackNext, PTL DEF Spec

-----------------------------------------------------------------------------
(* Valuation.                                                              *)

AccountType ==
    [exists : BOOLEAN, liquidator : Liquidator \cup {NoOne}, denyTransfers : BOOLEAN,
     registered : SUBSET Position, balance : [Position -> Nat], price : [Position -> Nat],
     stale : SUBSET Position, pastDue : BOOLEAN]

\* A truncated quotient of naturals.
LEMMA QuotientBounds ==
  ASSUME NEW a \in Nat, NEW b \in Nat \ {0}
  PROVE  a \div b \in Nat /\ b * (a \div b) <= a
  OBVIOUS

\* The fixed-point operators, on naturals.
LEMMA NumberTypes ==
  ASSUME NEW a \in Nat, NEW b \in Nat
  PROVE  /\ FromInt(a) \in Nat /\ FromBps(a) \in Nat /\ FromPercent(a) \in Nat
         /\ Mul(a, b) \in Nat /\ AsInt(a) \in Nat
         /\ b # 0 => Div(a, b) \in Nat
  <1>1. a * One \in Nat /\ a * b \in Nat /\ One \in Nat \ {0}
    BY OneAssumption
  <1>2. (a * One) \div 10000 \in Nat /\ (a * One) \div 100 \in Nat /\ (a * b) \div One \in Nat
        /\ a \div One \in Nat
    BY <1>1, QuotientBounds
  <1>3. b # 0 => (a * One) \div b \in Nat
    BY <1>1, QuotientBounds
  <1> QED
    BY <1>1, <1>2, <1>3 DEF FromInt, FromBps, BpsUnit, FromPercent, Mul, AsInt, Div

\* The value of a position, and its value as collateral.
LEMMA ValueType ==
  ASSUME NEW a \in AccountType, NEW p \in Position
  PROVE  /\ Value(a, p) \in Nat
         /\ p \in Collateral => Mul(FromPercent(Weight[p]), Value(a, p)) \in Nat
  <1>1. a.balance[p] * a.price[p] \in Nat
    BY DEF AccountType
  <1>2. Value(a, p) \in Nat
    BY <1>1, NumberTypes DEF Value
  <1>3. ASSUME p \in Collateral PROVE Mul(FromPercent(Weight[p]), Value(a, p)) \in Nat
    <2>1. Weight[p] \in Nat
      BY <1>3, LiquidationAssumption
    <2>2. FromPercent(Weight[p]) \in Nat
      BY <2>1, NumberTypes
    <2> QED
      BY <1>2, <2>2, NumberTypes
  <1> QED
    BY <1>2, <1>3

\* What is counted is a finite set of collaterals.
LEMMA CountedIsFinite ==
  ASSUME NEW a
  PROVE  Counted(a) \in SUBSET Collateral /\ IsFiniteSet(Counted(a))
  <1>1. Counted(a) \in SUBSET Collateral
    BY DEF Counted, Held
  <1>2. IsFiniteSet(Collateral)
    BY LiquidationAssumption
  <1> QED
    BY <1>1, <1>2, FS_Subset

Values(a) == [p \in Counted(a) |-> Value(a, p)]

WeightedValues(a) == [p \in Counted(a) |-> Mul(FromPercent(Weight[p]), Value(a, p))]

\* Equity and effective collateral as totals, which are integers.
LEMMA ValuationIsTotal ==
  ASSUME NEW a \in AccountType
  PROVE  /\ Equity(a) = Total(Values(a), Counted(a)) - Liabilities(a)
         /\ EffectiveCollateral(a) = Total(WeightedValues(a), Counted(a)) - Liabilities(a)
         /\ Total(Values(a), Counted(a)) \in Int
         /\ Total(WeightedValues(a), Counted(a)) \in Int
  <1> DEFINE S == Counted(a)
  <1>1. S \in SUBSET Collateral /\ IsFiniteSet(S) /\ S \subseteq Position
    BY CountedIsFinite DEF Position
  <1>2. Values(a) \in [S -> Int] /\ WeightedValues(a) \in [S -> Int]
    <2>1. \A p \in S : Value(a, p) \in Int /\ Mul(FromPercent(Weight[p]), Value(a, p)) \in Int
      BY <1>1, ValueType
    <2> QED
      BY <2>1, Zenon DEF Values, WeightedValues
  <1> DEFINE VDef(g) == [s \in SUBSET S |->
                           IF s = {} THEN 0 ELSE Values(a)[Chosen(s)] + g[s \ {Chosen(s)}]]
             WDef(g) == [s \in SUBSET S |->
                           IF s = {} THEN 0
                           ELSE WeightedValues(a)[Chosen(s)] + g[s \ {Chosen(s)}]]
             VSum(g) == [s \in SUBSET S |->
                           IF s = {} THEN 0 ELSE Value(a, Chosen(s)) + g[s \ {Chosen(s)}]]
             WSum(g) == [s \in SUBSET S |->
                           IF s = {} THEN 0
                           ELSE Mul(FromPercent(Weight[Chosen(s)]), Value(a, Chosen(s)))
                                  + g[s \ {Chosen(s)}]]
  <1>3. /\ Total(Values(a), S) \in Int /\ Total(WeightedValues(a), S) \in Int
        /\ (CHOOSE g : g = VDef(g))[S] = Total(Values(a), S)
        /\ (CHOOSE g : g = WDef(g))[S] = Total(WeightedValues(a), S)
    <2> HIDE DEF S
    <2> QED
      BY <1>1, <1>2, TotalIsSum, Zenon
  <1>4. \A g : VDef(g) = VSum(g) /\ WDef(g) = WSum(g)
    <2>1. \A s \in SUBSET S : s # {} => Chosen(s) \in S
      BY <1>1, OneLess, Zenon
    <2>2. \A p \in S : /\ Values(a)[p] = Value(a, p)
                      /\ WeightedValues(a)[p] = Mul(FromPercent(Weight[p]), Value(a, p))
      BY Zenon DEF Values, WeightedValues
    <2> HIDE DEF S
    <2> QED
      BY <2>1, <2>2
  <1>5. MapThenSumSet(LAMBDA p : Value(a, p), S) = (CHOOSE g : g = VSum(g))[S]
    BY Zenon DEF MapThenSumSet, MapThenFoldSet, Chosen
  <1>6. MapThenSumSet(LAMBDA p : Mul(FromPercent(Weight[p]), Value(a, p)), S)
          = (CHOOSE g : g = WSum(g))[S]
    BY Zenon DEF MapThenSumSet, MapThenFoldSet, Chosen
  <1> HIDE DEF VDef, VSum, WDef, WSum
  <1>7. (CHOOSE g : g = VSum(g)) = (CHOOSE g : g = VDef(g))
        /\ (CHOOSE g : g = WSum(g)) = (CHOOSE g : g = WDef(g))
    BY <1>4, Zenon
  <1> QED
    BY <1>3, <1>5, <1>6, <1>7, Zenon DEF Equity, EffectiveCollateral

\* Every valuation of an account is an integer, its debts a natural number.
LEMMA ValuationType ==
  ASSUME NEW a \in AccountType
  PROVE  /\ Liabilities(a) \in Nat /\ RequiredCollateral(a) \in Nat
         /\ Equity(a) \in Int /\ AvailableCollateral(a) \in Int
  <1>1. Liabilities(a) \in Nat
    BY ValueType DEF Liabilities, Position
  <1>2. FromPercent(Leverage) \in Nat \ {0}
    <2>1. Leverage \in Nat /\ Leverage * One >= 100 /\ Leverage * One \in Nat
      BY LiquidationAssumption, OneAssumption
    <2> DEFINE x == Leverage * One
    <2>2. x \in Nat /\ x >= 100
      BY <2>1
    <2> HIDE DEF x
    <2>3. x \div 100 \in Nat \ {0}
      BY <2>2
    <2> QED
      BY <2>3 DEF FromPercent, FromInt, x
  <1>3. RequiredCollateral(a) \in Nat
    BY <1>1, <1>2, NumberTypes DEF RequiredCollateral
  <1>4. Equity(a) \in Int /\ EffectiveCollateral(a) \in Int
    BY <1>1, ValuationIsTotal
  <1> QED
    BY <1>1, <1>3, <1>4 DEF AvailableCollateral

\* Two accounts that count the same positions at the same values, and owe the
\* same, have the same collateral to spare.
LEMMA SameAvailable ==
  ASSUME NEW a \in AccountType, NEW b \in AccountType,
         Counted(a) = Counted(b),
         \A p \in Counted(a) : a.balance[p] = b.balance[p] /\ a.price[p] = b.price[p],
         Value(a, Claim) = Value(b, Claim)
  PROVE  AvailableCollateral(a) = AvailableCollateral(b)
  <1>1. \A p \in Counted(a) : Value(a, p) = Value(b, p)
    BY DEF Value
  <1>2. WeightedValues(a) = WeightedValues(b)
    BY <1>1 DEF WeightedValues
  <1>3. Liabilities(a) = Liabilities(b)
    BY DEF Liabilities
  <1>4. EffectiveCollateral(a) = EffectiveCollateral(b)
    BY <1>2, <1>3, ValuationIsTotal
  <1> QED
    BY <1>3, <1>4 DEF AvailableCollateral, RequiredCollateral

\* In particular accounts with the same balances, prices and stale positions.
LEMMA SamePositions ==
  ASSUME NEW a \in AccountType, NEW b \in AccountType,
         a.balance = b.balance, a.price = b.price, a.stale = b.stale
  PROVE  AvailableCollateral(a) = AvailableCollateral(b)
  <1>1. Counted(a) = Counted(b) /\ Value(a, Claim) = Value(b, Claim)
    BY DEF Counted, Held, Value
  <1> QED
    BY <1>1, SameAvailable

-----------------------------------------------------------------------------
(* The account.                                                            *)

\* The part of TypeOK that is about the account, and that an account that has
\* been closed has no positions.
AccountOK(a) ==
    /\ a \in AccountType
    /\ \A p \in Position : a.price[p] \in Price[p]
    /\ \A p \in Position : a.balance[p] <= MaxBalance
    /\ \A p \in Position \ a.registered : a.balance[p] = 0 /\ p \in a.stale
    /\ a.pastDue => Claim \in a.registered
    /\ ~a.exists => a.registered = {}

\* A position that is registered anew gets the lowest of its prices.
LEMMA LowestPrice ==
  ASSUME NEW p \in Position
  PROVE  Min(Price[p]) \in Price[p] /\ Min(Price[p]) \in Nat
  <1>1. Price[p] \in SUBSET Nat /\ Price[p] # {}
    BY LiquidationAssumption
  <1>2. \E x \in Price[p] : \A y \in Price[p] : x <= y
    BY <1>1, LeastElement
  <1>3. Min(Price[p]) \in Price[p]
    BY <1>2, Zenon DEF Min
  <1> QED
    BY <1>1, <1>3

\* What create_account and close_account leave.
LEMMA BlankAccount ==
  /\ AccountOK(InitializedAccount)
  /\ AccountOK([InitializedAccount EXCEPT !.exists = FALSE])
  <1>1. \A p \in Position : Min(Price[p]) \in Price[p] /\ Min(Price[p]) \in Nat
    BY LowestPrice
  <1>2. MaxBalance \in Nat
    BY LiquidationAssumption
  <1>3. InitializedAccount \in AccountType
    BY <1>1 DEF InitializedAccount, AccountType
  <1>4. [InitializedAccount EXCEPT !.exists = FALSE] \in AccountType
    BY <1>3, Zenon DEF AccountType
  <1> QED
    BY <1>1, <1>2, <1>3, <1>4 DEF AccountOK, InitializedAccount

\* The account after an invocation: only registered positions are touched,
\* and the claim may only be closed when nothing is owed any more.
LEMMA InvokedAccount ==
  ASSUME NEW a, AccountOK(a), a.exists, NEW fx \in Effect, InvokeMany(a, fx)
  PROVE  AccountOK(Invoked(a, fx))
  <1> DEFINE b == Invoked(a, fx)
             known == IF fx.claim = "register" THEN a.registered \cup {Claim}
                      ELSE a.registered
  <1>1. /\ a \in AccountType
        /\ \A p \in Position : a.price[p] \in Price[p]
        /\ \A p \in Position \ a.registered : a.balance[p] = 0 /\ p \in a.stale
        /\ a.pastDue => Claim \in a.registered
    BY DEF AccountOK
  <1>2. /\ fx.change \in [Collateral -> Int] /\ fx.repaid \in Int
        /\ fx.quote \in Quote /\ fx.claim \in {"keep", "register", "close"}
    BY LiquidationAssumption, Zenon DEF Effect
  <1>3. /\ DOMAIN fx.quote \subseteq Position
        /\ \A p \in DOMAIN fx.quote : fx.quote[p] \in Price[p]
    BY <1>2, LiquidationAssumption DEF Quote
  <1>4. \A p \in Position : Price[p] \subseteq Nat
    BY LiquidationAssumption
  <1>5. /\ DOMAIN fx.quote \subseteq known
        /\ \A p \in Collateral \ known : fx.change[p] = 0
        /\ fx.repaid # 0 => Claim \in known /\ Borrowed \in known
        /\ \A p \in Position : b.balance[p] \in 0 .. MaxBalance
        /\ fx.claim = "close" => a.balance[Claim] = fx.repaid
    BY DEF InvokeMany
  <1>6. MaxBalance \in Nat /\ Claim \in Position
    BY LiquidationAssumption DEF Position
  <1>7. /\ b.exists = a.exists /\ b.liquidator = a.liquidator
        /\ b.denyTransfers = a.denyTransfers
        /\ b.pastDue = (a.pastDue /\ fx.claim # "close")
        /\ b.registered = IF fx.claim = "register" THEN a.registered \cup {Claim}
                          ELSE IF fx.claim = "close" THEN a.registered \ {Claim}
                          ELSE a.registered
        /\ b.stale = IF fx.claim = "close" THEN (a.stale \ DOMAIN fx.quote) \cup {Claim}
                     ELSE a.stale \ DOMAIN fx.quote
        /\ b.price = [p \in Position |->
                         IF p \in DOMAIN fx.quote THEN fx.quote[p] ELSE a.price[p]]
        /\ b.balance = [p \in Position |->
                         IF p = Claim THEN a.balance[p] - fx.repaid
                         ELSE a.balance[p] + fx.change[p]
                              - (IF p = Borrowed THEN fx.repaid ELSE 0)]
        /\ DOMAIN b = AccountFields
    BY <1>1, <1>2 DEF Invoked, AccountType, AccountFields
  <1> HIDE DEF b
  <1>8. \A p \in Position : b.price[p] \in Price[p] /\ b.price[p] \in Nat
    BY <1>1, <1>3, <1>4, <1>7
  <1>9. \A p \in Position : b.balance[p] \in Nat /\ b.balance[p] <= MaxBalance
    BY <1>5, <1>6
  <1>10. b.balance \in [Position -> Nat] /\ b.price \in [Position -> Nat]
    BY <1>7, <1>8, <1>9, Zenon
  <1>11. b.registered \in SUBSET Position /\ b.stale \in SUBSET Position
    <2>1. a.registered \in SUBSET Position /\ a.stale \in SUBSET Position
      BY <1>1 DEF AccountType
    <2> QED
      BY <1>6, <1>7, <2>1
  <1>12. b \in AccountType
    <2>1. a.exists \in BOOLEAN /\ a.liquidator \in Liquidator \cup {NoOne}
          /\ a.denyTransfers \in BOOLEAN /\ b.pastDue \in BOOLEAN
      BY <1>1, <1>7 DEF AccountType
    <2>2. b = [f \in AccountFields |-> b[f]]
      BY <1>1, <1>7, Zenon DEF b, Invoked
    <2> QED
      BY <1>7, <1>10, <1>11, <2>1, <2>2 DEF AccountType, AccountFields
  <1>13. \A p \in Position \ b.registered : b.balance[p] = 0 /\ p \in b.stale
    <2> SUFFICES ASSUME NEW p \in Position \ b.registered
                 PROVE  b.balance[p] = 0 /\ p \in b.stale
      OBVIOUS
    <2>1. CASE p = Claim /\ fx.claim = "close"
      BY <2>1, <1>1, <1>2, <1>5, <1>6, <1>7 DEF AccountType
    <2>2. CASE ~(p = Claim /\ fx.claim = "close")
      <3>1. p \notin known /\ p \notin a.registered
        BY <2>2, <1>7
      <3>2. a.balance[p] = 0 /\ p \in a.stale /\ p \notin DOMAIN fx.quote
        BY <3>1, <1>1, <1>5
      <3>3. p \in b.stale
        BY <3>2, <1>7
      <3>4. CASE p = Claim
        BY <3>1, <3>2, <3>4, <1>2, <1>5, <1>7
      <3>5. CASE p # Claim
        <4>1. fx.change[p] = 0 /\ (p = Borrowed => fx.repaid = 0)
          BY <3>1, <3>5, <1>5 DEF Position
        <4> QED
          BY <3>2, <3>3, <3>5, <4>1, <1>2, <1>7
      <3> QED
        BY <3>3, <3>4, <3>5
    <2> QED
      BY <2>1, <2>2
  <1>14. b.pastDue => Claim \in b.registered
    BY <1>1, <1>2, <1>7
  <1>15. b.exists
    BY <1>7
  <1> QED
    BY <1>8, <1>9, <1>12, <1>13, <1>14, <1>15 DEF AccountOK, b

\* Steps that leave the positions' prices, balances and staleness alone.
LEMMA AccountFrame ==
  ASSUME AccountOK(account), account.exists,
         NEW lq \in Liquidator \cup {NoOne}, NEW dt \in BOOLEAN, NEW pd \in BOOLEAN,
         NEW reg \in SUBSET Position,
         account.registered \subseteq reg, pd => Claim \in reg,
         account' = [account EXCEPT !.liquidator = lq, !.denyTransfers = dt,
                                    !.pastDue = pd, !.registered = reg]
  PROVE  /\ AccountOK(account')
         /\ AvailableCollateral(account') = AvailableCollateral(account)
  <1>1. account \in AccountType
    BY DEF AccountOK
  <1>2. account' \in AccountType
    BY <1>1, Zenon DEF AccountType
  <1>3. /\ account'.balance = account.balance /\ account'.price = account.price
        /\ account'.stale = account.stale /\ account'.registered = reg
        /\ account'.pastDue = pd /\ account'.exists = account.exists
    BY <1>1 DEF AccountType
  <1>4. AccountOK(account')
    BY <1>2, <1>3 DEF AccountOK
  <1> QED
    BY <1>1, <1>2, <1>3, <1>4, SamePositions

\* Steps that set one position's balance, price and staleness.
LEMMA PositionChange ==
  ASSUME AccountOK(account), NEW p \in account.registered,
         NEW bal \in 0 .. MaxBalance, NEW pr \in Price[p], NEW st \in SUBSET Position,
         account.stale \subseteq st \cup {p},
         account' = [account EXCEPT !.balance[p] = bal, !.price[p] = pr, !.stale = st]
  PROVE  AccountOK(account')
  <1>1. account \in AccountType /\ p \in Position
    BY DEF AccountOK, AccountType
  <1>2. pr \in Nat /\ bal \in Nat /\ bal <= MaxBalance
    BY <1>1, LiquidationAssumption
  <1>3. /\ account'.balance = [account.balance EXCEPT ![p] = bal]
        /\ account'.price = [account.price EXCEPT ![p] = pr]
        /\ account'.stale = st /\ account'.registered = account.registered
        /\ account'.pastDue = account.pastDue /\ account'.exists = account.exists
    BY <1>1 DEF AccountType
  <1>4. account.balance \in [Position -> Nat] /\ account.price \in [Position -> Nat]
    BY <1>1 DEF AccountType
  <1>5. account' \in AccountType
    <2>1. [account.balance EXCEPT ![p] = bal] \in [Position -> Nat]
          /\ [account.price EXCEPT ![p] = pr] \in [Position -> Nat]
      BY <1>2, <1>4
    <2> QED
      BY <1>1, <2>1, Zenon DEF AccountType
  <1>6. \A q \in Position : /\ account'.balance[q] = IF q = p THEN bal ELSE account.balance[q]
                            /\ account'.price[q] = IF q = p THEN pr ELSE account.price[q]
    BY <1>3, <1>4
  <1> QED
    BY <1>1, <1>2, <1>3, <1>5, <1>6 DEF AccountOK

\* Closing a position without a balance changes nothing that is counted.
LEMMA ClosedPosition ==
  ASSUME AccountOK(account), NEW p \in Collateral, NEW authority, ClosePosition(p, authority)
  PROVE  /\ AccountOK(account')
         /\ AvailableCollateral(account') = AvailableCollateral(account)
  <1>1. account \in AccountType /\ p \in Position /\ p # Claim
    BY LiquidationAssumption DEF AccountOK, Position
  <1>2. /\ account.exists /\ account.balance[p] = 0
        /\ account' = [account EXCEPT !.registered = @ \ {p}, !.stale = @ \cup {p},
                                      !.price[p] = Min(Price[p])]
    BY DEF ClosePosition
  <1>3. Min(Price[p]) \in Price[p] /\ Min(Price[p]) \in Nat
    BY <1>1, LowestPrice
  <1>4. /\ account'.balance = account.balance
        /\ account'.price = [account.price EXCEPT ![p] = Min(Price[p])]
        /\ account'.stale = account.stale \cup {p}
        /\ account'.registered = account.registered \ {p}
        /\ account'.pastDue = account.pastDue /\ account'.exists = account.exists
    BY <1>1, <1>2 DEF AccountType
  <1>5. account.price \in [Position -> Nat]
    BY <1>1 DEF AccountType
  <1>6. account' \in AccountType
    <2>1. [account.price EXCEPT ![p] = Min(Price[p])] \in [Position -> Nat]
      BY <1>3, <1>5
    <2>2. account.registered \ {p} \in SUBSET Position
          /\ account.stale \cup {p} \in SUBSET Position
      BY <1>1 DEF AccountType
    <2> QED
      BY <1>1, <1>2, <2>1, <2>2, Zenon DEF AccountType
  <1>7. \A q \in Position :
          account'.price[q] = IF q = p THEN Min(Price[p]) ELSE account.price[q]
    BY <1>4, <1>5
  <1>8. AccountOK(account')
    BY <1>1, <1>2, <1>3, <1>4, <1>6, <1>7 DEF AccountOK
  <1>9. Counted(account') = Counted(account) /\ p \notin Counted(account)
    BY <1>2, <1>4 DEF Counted, Held
  <1>10. Counted(account) \subseteq Position
    BY CountedIsFinite DEF Position
  <1>11. Value(account', Claim) = Value(account, Claim)
    BY <1>1, <1>4, <1>7 DEF Value, Position
  <1> QED
    BY <1>1, <1>4, <1>6, <1>7, <1>8, <1>9, <1>10, <1>11, SameAvailable

-----------------------------------------------------------------------------
(* Fees and losses.                                                        *)

\* What collect_liquidation_fee transfers is worth no more than the fee that
\* is due, at the oracle's price.
LEMMA PaidIsDue ==
  ASSUME NEW n \in Nat, NEW p \in Nat \ {0}
  PROVE  /\ AsInt(Div(n, FromInt(p))) \in Nat
         /\ FromInt(AsInt(Div(n, FromInt(p))) * p) \in Nat
         /\ FromInt(AsInt(Div(n, FromInt(p))) * p) <= n
  <1> DEFINE q == (n * One) \div (p * One)
             t == q \div One
  <1>1. One \in Nat \ {0} /\ n * One \in Nat /\ p * One \in Nat \ {0}
    BY OneAssumption
  <1>2. q \in Nat /\ (p * One) * q <= n * One
    BY <1>1, QuotientBounds
  <1>3. t \in Nat /\ One * t <= q
    <2> HIDE DEF q
    <2> QED
      BY <1>1, <1>2, QuotientBounds
  <1>4. AsInt(Div(n, FromInt(p))) = t
    BY DEF AsInt, Div, FromInt
  <1> HIDE DEF q, t
  <1>5. (p * q) * One <= n * One /\ p * q \in Nat
    BY <1>1, <1>2
  <1>6. p * q <= n
    <2> DEFINE x == p * q
    <2>1. x \in Nat /\ x * One <= n * One
      BY <1>5
    <2> HIDE DEF x
    <2>2. x <= n
      BY <2>1, <1>1
    <2> QED
      BY <2>2 DEF x
  <1>7. (One * t) * p <= q * p
    BY <1>1, <1>2, <1>3
  <1>8. (t * p) * One <= n /\ (t * p) * One \in Nat
    BY <1>1, <1>2, <1>3, <1>6, <1>7
  <1> QED
    BY <1>3, <1>4, <1>8 DEF FromInt

\* The fee of an invocation is a number of tokens.
LEMMA FeeType ==
  ASSUME NEW fx \in Effect, NEW mint \in Collateral
  PROVE  LiquidationFee(fx, mint) \in Nat
  <1> DEFINE inc == Increases(fx, mint)
             rep == Repayments(fx, mint)
             eligible == AtLeast(Min({inc, rep}), 0)
  <1>1. inc \in Int /\ rep \in Int
    <2>1. fx.change \in [Collateral -> Int] /\ fx.repaid \in Int
      BY LiquidationAssumption, Zenon DEF Effect
    <2> QED
      BY <2>1 DEF Increases, Repayments
  <1>2. Min({inc, rep}) \in Int
    <2> HIDE DEF inc, rep
    <2>1. \E x \in {inc, rep} : \A y \in {inc, rep} : x <= y
      BY <1>1
    <2>2. Min({inc, rep}) \in {inc, rep}
      BY <2>1, Zenon DEF Min
    <2> QED
      BY <1>1, <2>2
  <1>3. eligible \in Nat
    <2> DEFINE m == Min({inc, rep})
    <2> HIDE DEF m
    <2>1. AtLeast(m, 0) \in Nat
      BY <1>2 DEF AtLeast, m
    <2> QED
      BY <2>1 DEF m
  <1> HIDE DEF eligible
  <1>4. FromBps(FeeBps) \in Nat /\ One \in Nat \ {0}
    BY LiquidationAssumption, OneAssumption, NumberTypes
  <1>5. One + FromBps(FeeBps) \in Nat \ {0}
    BY <1>4
  <1>6. Div(FromBps(FeeBps), One + FromBps(FeeBps)) \in Nat
    BY <1>4, <1>5, NumberTypes
  <1>7. FromInt(eligible) \in Nat
    BY <1>3, NumberTypes
  <1>8. AsInt(Mul(Div(FromBps(FeeBps), One + FromBps(FeeBps)), FromInt(eligible))) \in Nat
    BY <1>6, <1>7, NumberTypes
  <1> QED
    BY <1>8 DEF LiquidationFee, eligible, inc, rep

Fees == UNION {[S -> Nat] : S \in SUBSET Collateral}

\* A fee is accrued in the slot of its mint, or in one that is still empty.
LEMMA AccruedFees ==
  ASSUME NEW fees \in Fees, Cardinality(DOMAIN fees) <= FeeSlots,
         NEW mint \in Collateral, NEW amount \in Nat, HasFeeSlot(fees, mint)
  PROVE  /\ AccrueLiquidationFee(fees, mint, amount) \in Fees
         /\ Cardinality(DOMAIN AccrueLiquidationFee(fees, mint, amount)) <= FeeSlots
  <1> DEFINE new == AccrueLiquidationFee(fees, mint, amount)
             S == DOMAIN fees
  <1>1. S \in SUBSET Collateral /\ fees \in [S -> Nat]
    BY DEF Fees
  <1>2. DOMAIN new = S \cup {mint}
    BY DEF AccrueLiquidationFee
  <1>3. new \in [S \cup {mint} -> Nat]
    BY <1>1 DEF AccrueLiquidationFee
  <1>4. new \in Fees
    BY <1>1, <1>3, Zenon DEF Fees
  <1>5. IsFiniteSet(S)
    BY <1>1, LiquidationAssumption, FS_Subset
  <1>6. Cardinality(S) \in Nat
    BY <1>5, FS_CardinalityType
  <1>7. Cardinality(S \cup {mint}) <= FeeSlots
    <2>1. CASE mint \in S
      <3>1. S \cup {mint} = S
        BY <2>1
      <3> QED
        BY <3>1
    <2>2. CASE mint \notin S
      <3>1. Cardinality(S \cup {mint}) = Cardinality(S) + 1
        BY <2>2, <1>5, FS_AddElement
      <3>2. Cardinality(S) < FeeSlots
        BY <2>2 DEF HasFeeSlot
      <3> HIDE DEF S
      <3> QED
        BY <3>1, <3>2, <1>6, LiquidationAssumption
    <2> QED
      BY <2>1, <2>2
  <1> QED
    BY <1>2, <1>4, <1>7

\* Collecting a fee empties its slot.
LEMMA ClearedFees ==
  ASSUME NEW fees \in Fees, Cardinality(DOMAIN fees) <= FeeSlots, NEW mint
  PROVE  /\ [m \in DOMAIN fees \ {mint} |-> fees[m]] \in Fees
         /\ Cardinality(DOMAIN [m \in DOMAIN fees \ {mint} |-> fees[m]]) <= FeeSlots
  <1> DEFINE S == DOMAIN fees
             new == [m \in S \ {mint} |-> fees[m]]
  <1>1. S \in SUBSET Collateral /\ fees \in [S -> Nat]
    BY DEF Fees
  <1>2. new \in [S \ {mint} -> Nat] /\ S \ {mint} \in SUBSET Collateral
    BY <1>1
  <1>3. new \in Fees
    BY <1>2, Zenon DEF Fees
  <1>4. IsFiniteSet(S)
    BY <1>1, LiquidationAssumption, FS_Subset
  <1>5. Cardinality(S \ {mint}) <= Cardinality(S) /\ Cardinality(S \ {mint}) \in Nat
        /\ Cardinality(S) \in Nat
    <2>1. S \ {mint} \in SUBSET S
      OBVIOUS
    <2> QED
      BY <1>4, <2>1, FS_Subset, FS_CardinalityType
  <1>6. DOMAIN new = S \ {mint}
    OBVIOUS
  <1>7. Cardinality(DOMAIN new) <= FeeSlots
    <2> HIDE DEF S, new
    <2>1. Cardinality(S) <= FeeSlots
      BY DEF S
    <2> QED
      BY <1>5, <1>6, <2>1, LiquidationAssumption
  <1> QED
    BY <1>3, <1>7

LiquidationType ==
    [exists : {TRUE}, equityLoss : Int, maxEquityLoss : Nat, collateralChange : Nat,
     limit : Nat, timedOut : BOOLEAN, isCollectingFees : BOOLEAN, fees : Fees]

TrailType ==
    [grossLoss : Int, feeValue : Nat, paid : Nat, opening : Int, undisturbed : BOOLEAN]

\* How equity_loss, what the invocations lost and what was paid hang together:
\* equity_loss is the loss the fees taken so far have not made up for, nothing
\* has been collected while is_collecting_fees is not set, and the loss of the
\* invocations stays within the maximum, since none is accepted afterwards.
Booked(liq, t) ==
    /\ Cardinality(DOMAIN liq.fees) <= FeeSlots
    /\ liq.equityLoss = IF t.grossLoss <= 0 THEN t.grossLoss
                        ELSE AtLeast(t.grossLoss - t.feeValue, 0)
    /\ t.paid <= AtLeast(t.feeValue - AtLeast(t.grossLoss, 0), 0)
    /\ ~liq.isCollectingFees => t.feeValue = 0 /\ t.paid = 0
    /\ t.grossLoss <= liq.maxEquityLoss

\* The collateral an undisturbed liquidation leaves: collateral_change is the
\* difference to the opening valuation, until a fee is collected, which needs
\* a healthy account.
Helped(liq, t, available) ==
    IF liq.isCollectingFees THEN available >= 0
    ELSE available = t.opening + liq.collateralChange

Ledger ==
    /\ liquidation \in [Liquidator -> {NoLiquidation} \cup LiquidationType]
    /\ trail \in [Liquidator -> TrailType]
    /\ \A l \in Liquidator : liquidation[l].exists => Booked(liquidation[l], trail[l])
    /\ \A l \in Liquidator : trail[l].undisturbed =>
          /\ liquidation[l].exists
          /\ Helped(liquidation[l], trail[l], AvailableCollateral(account))

IndInv ==
    /\ AccountOK(account)
    /\ Ledger
    /\ permit \subseteq Liquidator
    /\ closings \in 0 .. MaxClosings

\* A liquidation account that exists is a liquidation state.
LEMMA ExistingLiquidation ==
  ASSUME Ledger, NEW l \in Liquidator, liquidation[l].exists
  PROVE  liquidation[l] \in LiquidationType
  BY DEF Ledger, NoLiquidation

\* Steps that change neither the liquidations nor what the account is worth.
LEMMA QuietStep ==
  ASSUME Ledger, AvailableCollateral(account') = AvailableCollateral(account),
         liquidation' = liquidation, trail' = trail
  PROVE  Ledger'
  BY DEF Ledger

\* Steps that are not the liquidator's own and change what the account is
\* worth.
LEMMA DisturbingStep ==
  ASSUME Ledger, Disturb, liquidation' = liquidation
  PROVE  Ledger'
  <1>1. \A l \in Liquidator : trail[l] \in TrailType
    BY DEF Ledger
  <1>2. \A l \in Liquidator : trail'[l] = [trail[l] EXCEPT !.undisturbed = FALSE]
    BY DEF Disturb
  <1>3. \A l \in Liquidator : [trail[l] EXCEPT !.undisturbed = FALSE] \in TrailType
    BY <1>1, Zenon DEF TrailType
  <1>4. trail' \in [Liquidator -> TrailType]
    BY <1>3, Zenon DEF Disturb
  <1>5. \A l \in Liquidator :
          /\ trail'[l].grossLoss = trail[l].grossLoss /\ trail'[l].feeValue = trail[l].feeValue
          /\ trail'[l].paid = trail[l].paid /\ ~trail'[l].undisturbed
    BY <1>1, <1>2 DEF TrailType
  <1>6. \A l \in Liquidator : liquidation'[l].exists => Booked(liquidation'[l], trail'[l])
    BY <1>5 DEF Ledger, Booked
  <1> QED
    BY <1>4, <1>5, <1>6 DEF Ledger

\* What a step of liquidator l may do to the other liquidators' histories.
OthersKept(l) ==
    \A k \in Liquidator \ {l} :
        /\ trail'[k].grossLoss = trail[k].grossLoss
        /\ trail'[k].feeValue = trail[k].feeValue
        /\ trail'[k].paid = trail[k].paid
        /\ trail'[k].opening = trail[k].opening
        /\ trail'[k].undisturbed =>
             /\ trail[k].undisturbed
             /\ AvailableCollateral(account') = AvailableCollateral(account)

\* A step that rewrites liquidator l's liquidation and its history; the other
\* liquidations' histories are disturbed, or the account's worth is kept.
LEMMA OwnStep ==
  ASSUME Ledger, NEW l \in Liquidator, NEW liq, NEW t \in TrailType,
         liq \in {NoLiquidation} \cup LiquidationType,
         liquidation' = [liquidation EXCEPT ![l] = liq],
         trail' \in [Liquidator -> TrailType], trail'[l] = t, OthersKept(l),
         liq.exists => Booked(liq, t),
         t.undisturbed => liq.exists /\ Helped(liq, t, AvailableCollateral(account'))
  PROVE  Ledger'
  <1>1. liquidation \in [Liquidator -> {NoLiquidation} \cup LiquidationType]
    BY DEF Ledger
  <1>2. liquidation' \in [Liquidator -> {NoLiquidation} \cup LiquidationType]
    BY <1>1
  <1>3. liquidation'[l] = liq /\ \A k \in Liquidator \ {l} : liquidation'[k] = liquidation[k]
    BY <1>1
  <1>4. \A k \in Liquidator : liquidation'[k].exists => Booked(liquidation'[k], trail'[k])
    <2>1. ASSUME NEW k \in Liquidator \ {l}, liquidation'[k].exists
          PROVE  Booked(liquidation'[k], trail'[k])
      BY <2>1, <1>3 DEF Ledger, Booked, OthersKept
    <2> QED
      BY <1>3, <2>1
  <1>5. ASSUME NEW k \in Liquidator, trail'[k].undisturbed
        PROVE  /\ liquidation'[k].exists
               /\ Helped(liquidation'[k], trail'[k], AvailableCollateral(account'))
    <2>1. CASE k = l
      BY <2>1, <1>3, <1>5
    <2>2. CASE k # l
      BY <2>2, <1>3, <1>5 DEF Ledger, Helped, OthersKept
    <2> QED
      BY <2>1, <2>2
  <1> QED
    BY <1>2, <1>4, <1>5 DEF Ledger

-----------------------------------------------------------------------------
(* The steps.                                                              *)

\* liquidate_begin: the books are blank, the opening valuation is recorded.
LEMMA BeginKeepsLedger ==
  ASSUME IndInv, NEW l \in Liquidator, LiquidateBegin(l)
  PROVE  IndInv'
  <1>1. AccountOK(account) /\ Ledger /\ account \in AccountType /\ account.exists
    BY DEF IndInv, AccountOK, LiquidateBegin
  <1> DEFINE liq == [exists |-> TRUE, equityLoss |-> 0,
                     maxEquityLoss |-> MaxEquityLoss(account),
                     collateralChange |-> 0,
                     limit |-> MaxAvailableCollateralLimit(account),
                     timedOut |-> FALSE, isCollectingFees |-> FALSE, fees |-> NoFees]
             t == [NoTrail EXCEPT !.opening = AvailableCollateral(account),
                                  !.undisturbed = TRUE]
  <1>2. /\ account' = [account EXCEPT !.liquidator = l]
        /\ liquidation' = [liquidation EXCEPT ![l] = liq]
        /\ trail' = [trail EXCEPT ![l] = t]
    BY DEF LiquidateBegin
  <1>3. /\ AccountOK(account')
        /\ AvailableCollateral(account') = AvailableCollateral(account)
    <2>1. account' = [account EXCEPT !.liquidator = l, !.denyTransfers = account.denyTransfers,
                                     !.pastDue = account.pastDue,
                                     !.registered = account.registered]
      BY <1>1, <1>2 DEF AccountType
    <2>2. /\ account.denyTransfers \in BOOLEAN /\ account.pastDue \in BOOLEAN
          /\ account.registered \in SUBSET Position
          /\ account.pastDue => Claim \in account.registered
      BY <1>1 DEF AccountType, AccountOK
    <2> QED
      BY <1>1, <2>1, <2>2, AccountFrame
  <1>4. AvailableCollateral(account) \in Int /\ Liabilities(account) \in Nat
        /\ RequiredCollateral(account) \in Nat
    BY <1>1, ValuationType
  <1>5. MaxEquityLoss(account) \in Nat /\ MaxAvailableCollateralLimit(account) \in Nat
    <2>1. MaxLossBps \in Nat /\ MaxLossConstant \in Nat /\ IncreaseBps \in Nat
      BY LiquidationAssumption
    <2>2. FromBps(MaxLossBps) \in Nat /\ FromInt(MaxLossConstant) \in Nat
          /\ FromBps(IncreaseBps) \in Nat
      BY <2>1, NumberTypes
    <2>3. Mul(FromBps(MaxLossBps), Liabilities(account)) \in Nat
          /\ Mul(RequiredCollateral(account), FromBps(IncreaseBps)) \in Nat
      BY <1>4, <2>2, NumberTypes
    <2> QED
      BY <2>2, <2>3 DEF MaxEquityLoss, MaxAvailableCollateralLimit
  <1>6. NoFees \in Fees /\ Cardinality(DOMAIN NoFees) <= FeeSlots
    <2>1. DOMAIN NoFees = {} /\ NoFees \in [{} -> Nat]
      BY DEF NoFees
    <2>2. {} \in SUBSET Collateral
      OBVIOUS
    <2>3. NoFees \in Fees
      BY <2>1, <2>2, Zenon DEF Fees
    <2>4. Cardinality({}) = 0
      BY FS_EmptySet
    <2> QED
      BY <2>1, <2>3, <2>4, LiquidationAssumption
  <1>7. t \in TrailType /\ t.grossLoss = 0 /\ t.feeValue = 0 /\ t.paid = 0
        /\ t.opening = AvailableCollateral(account)
    <2>1. NoTrail \in TrailType
      BY DEF NoTrail, TrailType
    <2>2. t \in TrailType
      BY <2>1, <1>4, Zenon DEF TrailType
    <2>3. /\ NoTrail.grossLoss = 0 /\ NoTrail.feeValue = 0 /\ NoTrail.paid = 0
      BY DEF NoTrail
    <2> QED
      BY <2>1, <2>2, <2>3, Zenon DEF TrailType
  <1>8. liq \in LiquidationType
    BY <1>5, <1>6 DEF LiquidationType
  <1>9. Booked(liq, t) /\ Helped(liq, t, AvailableCollateral(account')) /\ liq.exists
    BY <1>3, <1>4, <1>5, <1>6, <1>7 DEF Booked, Helped, AtLeast
  <1> HIDE DEF liq, t
  <1>10. trail' \in [Liquidator -> TrailType] /\ trail'[l] = t
         /\ \A k \in Liquidator \ {l} : trail'[k] = trail[k]
    BY <1>1, <1>2, <1>7 DEF Ledger
  <1>11. OthersKept(l)
    BY <1>3, <1>10 DEF OthersKept
  <1>12. Ledger'
    BY <1>1, <1>2, <1>3, <1>7, <1>8, <1>9, <1>10, <1>11, OwnStep, Zenon
  <1> QED
    BY <1>3, <1>12 DEF IndInv, LiquidateBegin

\* liquidator_invoke: what is lost is added to equity_loss, and what the
\* account's collateral gained to collateral_change, which is not negative.
LEMMA InvokeKeepsLedger ==
  ASSUME IndInv, NEW l \in Liquidator, NEW fx \in Effect, NEW mint \in FeeMint,
         LiquidatorInvoke(l, fx, mint)
  PROVE  IndInv'
  <1>1. AccountOK(account) /\ Ledger /\ account.exists /\ account \in AccountType
        /\ InvokeMany(account, fx) /\ liquidation[l].exists
        /\ ~liquidation[l].isCollectingFees /\ HasFeeSlot(liquidation[l].fees, mint)
    BY DEF IndInv, AccountOK, LiquidatorInvoke
  <1> DEFINE end == Invoked(account, fx)
             fees == AccrueLiquidationFee(liquidation[l].fees, mint, LiquidationFee(fx, mint))
             liq == Verified([liquidation[l] EXCEPT !.fees = fees], account, end)
             loss == Equity(account) - Equity(end)
             gain == AvailableCollateral(end) - AvailableCollateral(account)
             t == [trail[l] EXCEPT !.grossLoss = @ + Equity(account) - Equity(end)]
  <1>2. /\ WithinLimits(liq, end) /\ account' = end
        /\ liquidation' = [liquidation EXCEPT ![l] = liq]
        /\ trail' = [k \in Liquidator |->
              IF k = l THEN t ELSE [trail[k] EXCEPT !.undisturbed = FALSE]]
    BY DEF LiquidatorInvoke
  <1>3. AccountOK(end) /\ end \in AccountType
    BY <1>1, InvokedAccount DEF AccountOK
  <1>4. /\ Equity(account) \in Int /\ Equity(end) \in Int
        /\ AvailableCollateral(account) \in Int /\ AvailableCollateral(end) \in Int
    BY <1>1, <1>3, ValuationType
  <1>5. liquidation[l] \in LiquidationType /\ trail[l] \in TrailType
        /\ Booked(liquidation[l], trail[l])
    BY <1>1, ExistingLiquidation DEF Ledger
  <1>5a. liquidation[l].equityLoss \in Int /\ liquidation[l].collateralChange \in Int
    <2>1. liquidation[l].equityLoss \in Int /\ liquidation[l].collateralChange \in Nat
      BY <1>5, Zenon DEF LiquidationType
    <2> QED
      BY <2>1
  <1>5b. trail[l].grossLoss \in Int /\ trail[l].opening \in Int
    BY <1>5 DEF TrailType
  <1>6. fees \in Fees /\ Cardinality(DOMAIN fees) <= FeeSlots
    <2>1. mint \in Collateral
      BY LiquidationAssumption
    <2>2. liquidation[l].fees \in Fees /\ Cardinality(DOMAIN liquidation[l].fees) <= FeeSlots
      BY <1>5 DEF LiquidationType, Booked
    <2>3. LiquidationFee(fx, mint) \in Nat
      BY <2>1, FeeType
    <2> DEFINE old == liquidation[l].fees
               amount == LiquidationFee(fx, mint)
    <2> HIDE DEF old, amount
    <2>4. AccrueLiquidationFee(old, mint, amount) \in Fees
          /\ Cardinality(DOMAIN AccrueLiquidationFee(old, mint, amount)) <= FeeSlots
      BY <2>1, <2>2, <2>3, <1>1, AccruedFees DEF old, amount
    <2> QED
      BY <2>4 DEF old, amount
  <1> HIDE DEF end, fees
  <1>7. /\ liq = [[liquidation[l] EXCEPT !.fees = fees] EXCEPT
                    !.equityLoss = liquidation[l].equityLoss + loss,
                    !.collateralChange = liquidation[l].collateralChange + gain]
        /\ t = [trail[l] EXCEPT !.grossLoss = trail[l].grossLoss + loss]
    <2>1. liquidation[l].equityLoss \in Int /\ liquidation[l].collateralChange \in Int
          /\ trail[l].grossLoss \in Int
      BY <1>5a, <1>5b
    <2>2. /\ liquidation[l].equityLoss + Equity(account) - Equity(end)
               = liquidation[l].equityLoss + loss
          /\ liquidation[l].collateralChange + AvailableCollateral(end)
                 - AvailableCollateral(account) = liquidation[l].collateralChange + gain
          /\ trail[l].grossLoss + Equity(account) - Equity(end) = trail[l].grossLoss + loss
      BY <1>4, <2>1
    <2> HIDE DEF loss, gain
    <2> QED
      BY <1>5, <2>2 DEF Verified, LiquidationType
  <1>8. loss \in Int /\ gain \in Int
    BY <1>4
  <1> HIDE DEF loss, gain, liq, t
  <1>9. /\ liq.exists = liquidation[l].exists
        /\ liq.equityLoss = liquidation[l].equityLoss + loss
        /\ liq.maxEquityLoss = liquidation[l].maxEquityLoss
        /\ liq.collateralChange = liquidation[l].collateralChange + gain
        /\ liq.isCollectingFees = liquidation[l].isCollectingFees
        /\ liq.fees = fees
    BY <1>5, <1>7 DEF LiquidationType
  <1>10. /\ t.grossLoss = trail[l].grossLoss + loss /\ t.feeValue = trail[l].feeValue
         /\ t.paid = trail[l].paid /\ t.opening = trail[l].opening
         /\ t.undisturbed = trail[l].undisturbed
    BY <1>5, <1>7 DEF TrailType
  <1>11. liq.equityLoss \in Int /\ liq.collateralChange \in Nat /\ t.grossLoss \in Int
         /\ liq.equityLoss <= liq.maxEquityLoss
    <2>1. liquidation[l].equityLoss \in Int /\ liquidation[l].collateralChange \in Int
          /\ trail[l].grossLoss \in Int
      BY <1>5a, <1>5b
    <2> QED
      BY <1>2, <1>8, <1>9, <1>10, <2>1 DEF WithinLimits
  <1>12. liq \in LiquidationType
    <2>1. liquidation[l].equityLoss + loss \in Int /\ liquidation[l].collateralChange + gain \in Nat
      BY <1>9, <1>11
    <2> QED
      BY <1>5, <1>6, <1>7, <2>1, Zenon DEF LiquidationType
  <1>13. t \in TrailType
    <2>1. trail[l].grossLoss + loss \in Int
      BY <1>10, <1>11
    <2> QED
      BY <1>5, <1>7, <2>1, Zenon DEF TrailType
  <1>14. liquidation[l].equityLoss = trail[l].grossLoss
         /\ trail[l].feeValue = 0 /\ trail[l].paid = 0 /\ trail[l].grossLoss \in Int
    BY <1>1, <1>5 DEF Booked, AtLeast, TrailType
  <1>15. Booked(liq, t)
    BY <1>1, <1>6, <1>9, <1>10, <1>11, <1>14 DEF Booked, AtLeast
  <1>16. t.undisturbed => liq.exists /\ Helped(liq, t, AvailableCollateral(account'))
    <2>1. ASSUME t.undisturbed
          PROVE  AvailableCollateral(end) = t.opening + liq.collateralChange
      <3>1. AvailableCollateral(account) = trail[l].opening + liquidation[l].collateralChange
        BY <2>1, <1>1, <1>10 DEF Ledger, Helped
      <3>2. trail[l].opening \in Int /\ liquidation[l].collateralChange \in Int
        BY <1>5a, <1>5b
      <3> QED
        BY <3>1, <3>2, <1>4, <1>9, <1>10 DEF gain
    <2> QED
      BY <2>1, <1>1, <1>2, <1>9 DEF Helped
  <1>17. /\ trail' \in [Liquidator -> TrailType] /\ trail'[l] = t
         /\ OthersKept(l)
    <2>1. \A k \in Liquidator : trail[k] \in TrailType
      BY <1>1 DEF Ledger
    <2>2. \A k \in Liquidator : [trail[k] EXCEPT !.undisturbed = FALSE] \in TrailType
      BY <2>1, Zenon DEF TrailType
    <2>3. trail' \in [Liquidator -> TrailType]
      BY <1>2, <1>13, <2>2, Zenon
    <2> QED
      BY <1>2, <2>1, <2>3 DEF TrailType, OthersKept
  <1>18. Ledger'
    BY <1>1, <1>2, <1>12, <1>13, <1>15, <1>16, <1>17, OwnStep, Zenon
  <1> QED
    BY <1>2, <1>3, <1>18 DEF IndInv, LiquidatorInvoke

\* collect_liquidation_fee: the fee is set off against the loss, the rest is
\* paid, and the account must be healthy afterwards.
LEMMA CollectKeepsLedger ==
  ASSUME IndInv, NEW l \in Liquidator, NEW mint \in FeeMint, NEW p \in Price[mint],
         CollectLiquidationFee(l, mint, p)
  PROVE  IndInv'
  <1>1. AccountOK(account) /\ Ledger /\ account \in AccountType /\ account.exists
        /\ liquidation[l].exists /\ mint \in DOMAIN liquidation[l].fees
    BY DEF IndInv, AccountOK, CollectLiquidationFee
  <1> DEFINE value == FromInt(liquidation[l].fees[mint] * p)
             due == NetFee(liquidation[l].equityLoss, value)
             tokens == AsInt(Div(due, FromInt(p)))
             pay == FromInt(tokens * p)
             liq == Collected(liquidation[l], mint, value)
             t == [trail[l] EXCEPT !.feeValue = @ + value, !.paid = @ + pay]
             cleared == [m \in DOMAIN liquidation[l].fees \ {mint} |-> liquidation[l].fees[m]]
  <1>2. /\ tokens > 0 => mint \in account.registered
        /\ tokens <= account.balance[mint]
        /\ account' = [account EXCEPT !.balance[mint] = @ - tokens]
        /\ liquidation' = [liquidation EXCEPT ![l] = liq]
        /\ trail' = [k \in Liquidator |->
              IF k = l THEN t ELSE [trail[k] EXCEPT !.undisturbed = FALSE]]
        /\ AvailableCollateral(account') >= 0
    BY DEF CollectLiquidationFee, VerifyHealthy
  <1>3. mint \in Collateral /\ mint \in Position /\ p \in Nat \ {0}
    <2>1. mint \in Collateral /\ mint \in Position
      BY LiquidationAssumption DEF Position
    <2> QED
      BY <2>1, LiquidationAssumption
  <1>4. liquidation[l] \in LiquidationType /\ trail[l] \in TrailType
        /\ Booked(liquidation[l], trail[l])
    BY <1>1, ExistingLiquidation DEF Ledger
  <1>5. liquidation[l].equityLoss \in Int /\ liquidation[l].fees \in Fees
    BY <1>4, Zenon DEF LiquidationType
  <1>6. trail[l].grossLoss \in Int /\ trail[l].feeValue \in Nat /\ trail[l].paid \in Nat
    BY <1>4 DEF TrailType
  <1>7. liquidation[l].fees[mint] \in Nat
    BY <1>1, <1>5 DEF Fees
  <1>8. value \in Nat
    <2>1. liquidation[l].fees[mint] * p \in Nat
      BY <1>3, <1>7
    <2> QED
      BY <2>1, NumberTypes
  <1> HIDE DEF value
  <1>9. due \in Nat
    BY <1>5, <1>8 DEF NetFee, SaturatingSub
  <1> HIDE DEF due
  <1>10. tokens \in Nat /\ pay \in Nat /\ pay <= due
    BY <1>3, <1>9, PaidIsDue
  <1> HIDE DEF tokens, pay
  <1>11. /\ LossLeft(liquidation[l].equityLoss, value) \in Int
         /\ LossLeft(liquidation[l].equityLoss, value)
              = IF trail[l].grossLoss <= 0 THEN trail[l].grossLoss
                ELSE AtLeast(trail[l].grossLoss - (trail[l].feeValue + value), 0)
         /\ trail[l].paid + pay
              <= AtLeast(trail[l].feeValue + value - AtLeast(trail[l].grossLoss, 0), 0)
    <2> DEFINE gross == trail[l].grossLoss
               fv == trail[l].feeValue
               paid == trail[l].paid
               loss == liquidation[l].equityLoss
    <2>1. /\ gross \in Int /\ fv \in Nat /\ paid \in Nat /\ loss \in Int
          /\ loss = IF gross <= 0 THEN gross ELSE AtLeast(gross - fv, 0)
          /\ paid <= AtLeast(fv - AtLeast(gross, 0), 0)
          /\ pay <= NetFee(loss, value)
      BY <1>4, <1>5, <1>6, <1>10 DEF Booked, due
    <2> HIDE DEF gross, fv, paid, loss
    <2>2. /\ LossLeft(loss, value) \in Int
          /\ LossLeft(loss, value) = IF gross <= 0 THEN gross ELSE AtLeast(gross - (fv + value), 0)
          /\ paid + pay <= AtLeast(fv + value - AtLeast(gross, 0), 0)
      BY <2>1, <1>8, <1>10 DEF NetFee, LossLeft, SaturatingSub, AtLeast
    <2> QED
      BY <2>2 DEF gross, fv, paid, loss
  <1>12. cleared \in Fees /\ Cardinality(DOMAIN cleared) <= FeeSlots
    <2>1. Cardinality(DOMAIN liquidation[l].fees) <= FeeSlots
      BY <1>4 DEF Booked
    <2> DEFINE old == liquidation[l].fees
    <2> HIDE DEF old
    <2>2. /\ [m \in DOMAIN old \ {mint} |-> old[m]] \in Fees
          /\ Cardinality(DOMAIN [m \in DOMAIN old \ {mint} |-> old[m]]) <= FeeSlots
      BY <1>5, <2>1, ClearedFees DEF old
    <2> QED
      BY <2>2 DEF old
  <1>13. liq = [liquidation[l] EXCEPT !.isCollectingFees = TRUE,
                  !.equityLoss = LossLeft(liquidation[l].equityLoss, value),
                  !.fees = cleared]
    BY <1>4, Zenon DEF Collected
  <1> HIDE DEF cleared, liq
  <1>14. liq \in LiquidationType
    BY <1>4, <1>11, <1>12, <1>13, Zenon DEF LiquidationType
  <1>15. /\ liq.exists /\ liq.isCollectingFees /\ liq.fees = cleared
         /\ liq.equityLoss = LossLeft(liquidation[l].equityLoss, value)
         /\ liq.maxEquityLoss = liquidation[l].maxEquityLoss
    BY <1>4, <1>13 DEF LiquidationType
  <1>16. t = [trail[l] EXCEPT !.feeValue = trail[l].feeValue + value,
                              !.paid = trail[l].paid + pay]
    BY <1>4 DEF TrailType
  <1> HIDE DEF t
  <1>17. t \in TrailType
    <2>1. trail[l].feeValue + value \in Nat /\ trail[l].paid + pay \in Nat
      BY <1>6, <1>8, <1>10
    <2> QED
      BY <1>4, <1>16, <2>1, Zenon DEF TrailType
  <1>18. /\ t.grossLoss = trail[l].grossLoss
         /\ t.feeValue = trail[l].feeValue + value
         /\ t.paid = trail[l].paid + pay
    BY <1>4, <1>16 DEF TrailType
  <1>19. Booked(liq, t)
    <2>1. t.grossLoss <= liq.maxEquityLoss
      BY <1>4, <1>15, <1>18 DEF Booked
    <2>2. liq.equityLoss = IF t.grossLoss <= 0 THEN t.grossLoss
                           ELSE AtLeast(t.grossLoss - t.feeValue, 0)
      BY <1>11, <1>15, <1>18, Zenon
    <2>3. t.paid <= AtLeast(t.feeValue - AtLeast(t.grossLoss, 0), 0)
      <3>1. (trail[l].feeValue + value) - AtLeast(trail[l].grossLoss, 0)
              = t.feeValue - AtLeast(t.grossLoss, 0)
        BY <1>18, Zenon
      <3> QED
        BY <1>6, <1>8, <1>10, <1>11, <1>18, <3>1 DEF AtLeast
    <2>4. Cardinality(DOMAIN liq.fees) <= FeeSlots
      BY <1>12, <1>15, Zenon
    <2> QED
      BY <1>15, <2>1, <2>2, <2>3, <2>4, Zenon DEF Booked
  <1>20. t.undisturbed => liq.exists /\ Helped(liq, t, AvailableCollateral(account'))
    BY <1>2, <1>15 DEF Helped
  <1>21. /\ trail' \in [Liquidator -> TrailType] /\ trail'[l] = t
         /\ OthersKept(l)
    <2>1. \A k \in Liquidator : trail[k] \in TrailType
      BY <1>1 DEF Ledger
    <2>2. \A k \in Liquidator : [trail[k] EXCEPT !.undisturbed = FALSE] \in TrailType
      BY <2>1, Zenon DEF TrailType
    <2>3. trail' \in [Liquidator -> TrailType]
      BY <1>2, <1>17, <2>2, Zenon
    <2> QED
      BY <1>2, <2>1, <2>3 DEF TrailType, OthersKept
  <1>22. Ledger'
    BY <1>1, <1>2, <1>14, <1>17, <1>19, <1>20, <1>21, OwnStep, Zenon
  <1>23. AccountOK(account')
    <2>1. account.balance \in [Position -> Nat] /\ account.price \in [Position -> Nat]
      BY <1>1 DEF AccountType
    <2>2. account.balance[mint] \in Nat /\ account.balance[mint] <= MaxBalance
          /\ MaxBalance \in Nat
      BY <1>1, <1>3, <2>1, LiquidationAssumption DEF AccountOK
    <2>3. CASE tokens = 0
      <3>1. account' = account
        BY <2>1, <2>2, <2>3, <1>1, <1>2, <1>3 DEF AccountType
      <3> QED
        BY <3>1, <1>1
    <2>4. CASE tokens # 0
      <3> DEFINE bal == account.balance[mint] - tokens
      <3>1. bal \in 0 .. MaxBalance /\ mint \in account.registered
        BY <2>2, <2>4, <1>2, <1>10
      <3>2. account.price[mint] \in Price[mint] /\ account.stale \in SUBSET Position
        BY <1>1, <1>3 DEF AccountOK, AccountType
      <3>3. account' = [account EXCEPT !.balance[mint] = bal,
                                       !.price[mint] = account.price[mint],
                                       !.stale = account.stale]
        BY <1>1, <1>2, <1>3, <2>1 DEF AccountType
      <3> HIDE DEF bal
      <3> QED
        BY <1>1, <3>1, <3>2, <3>3, PositionChange
    <2> QED
      BY <2>3, <2>4
  <1> QED
    BY <1>22, <1>23 DEF IndInv, CollectLiquidationFee

\* liquidate_end: the liquidation account and its history are gone.
LEMMA EndKeepsLedger ==
  ASSUME IndInv, NEW l \in Liquidator, NEW authority, LiquidateEnd(l, authority)
  PROVE  IndInv'
  <1>1. AccountOK(account) /\ Ledger /\ account \in AccountType /\ account.exists
    BY DEF IndInv, AccountOK, LiquidateEnd
  <1>2. /\ AccountOK(account')
        /\ AvailableCollateral(account') = AvailableCollateral(account)
    <2>1. account' = [account EXCEPT !.liquidator = NoOne,
                                     !.denyTransfers = account.denyTransfers,
                                     !.pastDue = account.pastDue,
                                     !.registered = account.registered]
      BY <1>1 DEF AccountType, LiquidateEnd
    <2>2. /\ account.denyTransfers \in BOOLEAN /\ account.pastDue \in BOOLEAN
          /\ account.registered \in SUBSET Position
          /\ account.pastDue => Claim \in account.registered
          /\ NoOne \in Liquidator \cup {NoOne}
      BY <1>1 DEF AccountType, AccountOK
    <2> QED
      BY <1>1, <2>1, <2>2, AccountFrame
  <1>3. NoTrail \in TrailType /\ ~NoTrail.undisturbed /\ ~NoLiquidation.exists
    BY DEF NoTrail, TrailType, NoLiquidation
  <1>4. trail' \in [Liquidator -> TrailType] /\ trail'[l] = NoTrail
        /\ \A k \in Liquidator \ {l} : trail'[k] = trail[k]
    BY <1>1, <1>3 DEF Ledger, LiquidateEnd
  <1>5. liquidation' = [liquidation EXCEPT ![l] = NoLiquidation]
    BY DEF LiquidateEnd
  <1>6. OthersKept(l)
    BY <1>2, <1>4 DEF OthersKept
  <1>7. Ledger'
    BY <1>1, <1>2, <1>3, <1>4, <1>5, <1>6, OwnStep, Zenon
  <1> QED
    BY <1>2, <1>7 DEF IndInv, LiquidateEnd

\* The clock marks a liquidation as timed out.
LEMMA TimesOutKeepsLedger ==
  ASSUME IndInv, NEW l \in Liquidator, TimesOut(l)
  PROVE  IndInv'
  <1>1. Ledger /\ liquidation[l].exists /\ account' = account /\ trail' = trail
    BY DEF IndInv, TimesOut
  <1> DEFINE liq == [liquidation[l] EXCEPT !.timedOut = TRUE]
  <1>2. liquidation[l] \in LiquidationType /\ trail[l] \in TrailType
        /\ Booked(liquidation[l], trail[l])
    BY <1>1, ExistingLiquidation DEF Ledger
  <1>3. liquidation' = [liquidation EXCEPT ![l] = liq]
    BY <1>1 DEF TimesOut, Ledger
  <1>4. liq \in LiquidationType
    BY <1>2, Zenon DEF LiquidationType
  <1>5. /\ liq.exists = liquidation[l].exists
        /\ liq.equityLoss = liquidation[l].equityLoss
        /\ liq.maxEquityLoss = liquidation[l].maxEquityLoss
        /\ liq.collateralChange = liquidation[l].collateralChange
        /\ liq.isCollectingFees = liquidation[l].isCollectingFees
        /\ liq.fees = liquidation[l].fees
    BY <1>2 DEF LiquidationType
  <1> HIDE DEF liq
  <1>6. Booked(liq, trail[l])
    BY <1>2, <1>5 DEF Booked
  <1>7. trail[l].undisturbed =>
          liq.exists /\ Helped(liq, trail[l], AvailableCollateral(account'))
    BY <1>1, <1>5 DEF Ledger, Helped
  <1>8. trail' \in [Liquidator -> TrailType]
    BY <1>1 DEF Ledger
  <1>9. OthersKept(l)
    BY <1>1 DEF OthersKept
  <1>10. Ledger'
    BY <1>1, <1>2, <1>3, <1>4, <1>6, <1>7, <1>8, <1>9, OwnStep, Zenon
  <1> QED
    BY <1>1, <1>10 DEF IndInv, TimesOut

\* What the owner signs: a new account replaces one without positions, the
\* rest disturbs the liquidations.
LEMMA OwnerKeepsLedger ==
  ASSUME IndInv, OwnerStep
  PROVE  IndInv'
  <1>1. AccountOK(account) /\ Ledger /\ account \in AccountType /\ permit \subseteq Liquidator
        /\ closings \in 0 .. MaxClosings
    BY DEF IndInv, AccountOK
  <1>2. CASE CreateAccount
    <2>1. account' = InitializedAccount /\ account.registered = {} /\ liquidation' = liquidation
          /\ trail' = trail /\ permit' = permit /\ closings' = closings
      BY <1>1, <1>2 DEF CreateAccount, AccountOK
    <2>2. AccountOK(account') /\ account' \in AccountType
      BY <2>1, BlankAccount DEF AccountOK
    <2>3. \A p \in Position : account.balance[p] = 0 /\ account'.balance[p] = 0
      BY <1>1, <2>1 DEF AccountOK, InitializedAccount
    <2>4. Counted(account) = {} /\ Counted(account') = {}
      <3>1. Held(account) = {} /\ Held(account') = {}
        BY <2>3 DEF Held, Position
      <3> QED
        BY <3>1 DEF Counted
    <2>5. Value(account', Claim) = Value(account, Claim)
      <3>1. /\ account.price[Claim] \in Nat /\ account'.price[Claim] \in Nat
            /\ account.balance[Claim] = 0 /\ account'.balance[Claim] = 0
        BY <1>1, <2>2, <2>3 DEF AccountType, Position
      <3> QED
        BY <3>1 DEF Value
    <2>6. AvailableCollateral(account') = AvailableCollateral(account)
      BY <1>1, <2>2, <2>4, <2>5, SameAvailable
    <2> QED
      BY <1>1, <2>1, <2>2, <2>6, QuietStep DEF IndInv
  <1>3. CASE CloseAccount
    <2>1. AccountOK(account')
      BY <1>3, BlankAccount DEF CloseAccount
    <2>2. closings' \in 0 .. MaxClosings
      BY <1>1, <1>3, LiquidationAssumption DEF CloseAccount
    <2> QED
      BY <1>1, <1>3, <2>1, <2>2, DisturbingStep DEF IndInv, CloseAccount
  <1>4. ASSUME NEW fx \in Effect, AdapterInvoke(fx)
        PROVE  IndInv'
    <2>1. AccountOK(account')
      BY <1>1, <1>4, InvokedAccount DEF AdapterInvoke
    <2> QED
      BY <1>1, <1>4, <2>1, DisturbingStep DEF IndInv, AdapterInvoke
  <1>5. ASSUME NEW p \in Collateral, NEW n \in -MaxBalance .. MaxBalance, TransferDeposit(p, n)
        PROVE  IndInv'
    <2> DEFINE bal == account.balance[p] + n
    <2>1. p \in account.registered /\ p \in Position /\ bal \in 0 .. MaxBalance
      BY <1>5 DEF TransferDeposit, Position
    <2>2. account.price[p] \in Price[p] /\ account.stale \in SUBSET Position
      BY <1>1, <2>1 DEF AccountOK, AccountType
    <2>3. account' = [account EXCEPT !.balance[p] = bal, !.price[p] = account.price[p],
                                     !.stale = account.stale]
      BY <1>1, <1>5, <2>1 DEF TransferDeposit, AccountType
    <2> HIDE DEF bal
    <2>4. AccountOK(account')
      BY <1>1, <2>1, <2>2, <2>3, PositionChange
    <2> QED
      BY <1>1, <1>5, <2>4, DisturbingStep DEF IndInv, TransferDeposit
  <1> QED
    BY <1>2, <1>3, <1>4, <1>5 DEF OwnerStep

\* Registering a position and closing an empty one leave the valuation alone.
LEMMA PositionKeepsLedger ==
  ASSUME IndInv, PositionStep
  PROVE  IndInv'
  <1>1. AccountOK(account) /\ Ledger /\ account \in AccountType /\ permit \subseteq Liquidator
        /\ closings \in 0 .. MaxClosings
    BY DEF IndInv, AccountOK
  <1>2. PICK p \in Collateral, authority \in Liquidator \cup {Owner} :
          RegisterPosition(p, authority) \/ ClosePosition(p, authority)
    BY DEF PositionStep
  <1>3. liquidation' = liquidation /\ trail' = trail /\ permit' = permit
        /\ closings' = closings
    BY <1>2 DEF RegisterPosition, ClosePosition
  <1>4. /\ AccountOK(account')
        /\ AvailableCollateral(account') = AvailableCollateral(account)
    <2>1. CASE RegisterPosition(p, authority)
      <3> DEFINE reg == account.registered \cup {p}
      <3>1. account' = [account EXCEPT !.liquidator = account.liquidator,
                                       !.denyTransfers = account.denyTransfers,
                                       !.pastDue = account.pastDue, !.registered = reg]
        BY <1>1, <2>1 DEF RegisterPosition, AccountType
      <3>2. /\ account.liquidator \in Liquidator \cup {NoOne}
            /\ account.denyTransfers \in BOOLEAN /\ account.pastDue \in BOOLEAN
            /\ reg \in SUBSET Position /\ account.registered \subseteq reg
            /\ account.pastDue => Claim \in reg
            /\ account.exists
        BY <1>1, <2>1 DEF AccountType, AccountOK, Position, RegisterPosition
      <3> HIDE DEF reg
      <3> QED
        BY <1>1, <3>1, <3>2, AccountFrame
    <2>2. CASE ClosePosition(p, authority)
      BY <1>1, <2>2, ClosedPosition
    <2> QED
      BY <1>2, <2>1, <2>2
  <1> QED
    BY <1>1, <1>3, <1>4, QuietStep DEF IndInv

\* Constraints, flags and permits leave the valuation alone; balances recorded
\* by others, prices and their expiry disturb the liquidations.
LEMMA EnvironmentKeepsLedger ==
  ASSUME IndInv, EnvironmentStep
  PROVE  IndInv'
  <1>1. AccountOK(account) /\ Ledger /\ account \in AccountType /\ permit \subseteq Liquidator
        /\ closings \in 0 .. MaxClosings
    BY DEF IndInv, AccountOK
  <1>2. /\ account.liquidator \in Liquidator \cup {NoOne}
        /\ account.denyTransfers \in BOOLEAN /\ account.pastDue \in BOOLEAN
        /\ account.registered \in SUBSET Position /\ account.stale \in SUBSET Position
        /\ account.pastDue => Claim \in account.registered
    BY <1>1 DEF AccountType, AccountOK
  <1>3. ASSUME NEW deny \in Constraint, ConfigureAccountConstraints(deny)
        PROVE  IndInv'
    <2>1. account' = [account EXCEPT !.liquidator = account.liquidator,
                                     !.denyTransfers = deny,
                                     !.pastDue = account.pastDue,
                                     !.registered = account.registered]
      BY <1>1, <1>3 DEF ConfigureAccountConstraints, AccountType
    <2>2. deny \in BOOLEAN /\ account.exists
      BY <1>3, LiquidationAssumption DEF ConfigureAccountConstraints
    <2>3. /\ AccountOK(account')
          /\ AvailableCollateral(account') = AvailableCollateral(account)
      BY <1>1, <1>2, <2>1, <2>2, AccountFrame
    <2> QED
      BY <1>1, <1>3, <2>3, QuietStep DEF IndInv, ConfigureAccountConstraints
  <1>4. ASSUME NEW p \in Position, NEW n \in 0 .. MaxBalance, UpdatePositionBalance(p, n)
        PROVE  IndInv'
    <2>1. p \in account.registered /\ account.price[p] \in Price[p]
      BY <1>1, <1>4 DEF UpdatePositionBalance, AccountOK
    <2>2. account' = [account EXCEPT !.balance[p] = n, !.price[p] = account.price[p],
                                     !.stale = account.stale]
      BY <1>1, <1>4 DEF UpdatePositionBalance, AccountType
    <2>3. AccountOK(account')
      BY <1>1, <1>2, <2>1, <2>2, PositionChange
    <2> QED
      BY <1>1, <1>4, <2>3, DisturbingStep DEF IndInv, UpdatePositionBalance
  <1>5. ASSUME NEW p \in Position, NEW quoted \in Price[p], RefreshPosition(p, quoted)
        PROVE  IndInv'
    <2> DEFINE bal == account.balance[p]
               st == account.stale \ {p}
    <2>1. p \in account.registered /\ bal \in 0 .. MaxBalance
      BY <1>1, <1>5, LiquidationAssumption DEF RefreshPosition, AccountOK, AccountType
    <2>2. account' = [account EXCEPT !.balance[p] = bal, !.price[p] = quoted, !.stale = st]
      BY <1>1, <1>5 DEF RefreshPosition, AccountType
    <2>3. st \in SUBSET Position /\ account.stale \subseteq st \cup {p}
      BY <1>2
    <2> HIDE DEF bal, st
    <2>4. AccountOK(account')
      BY <1>1, <2>1, <2>2, <2>3, PositionChange
    <2> QED
      BY <1>1, <1>5, <2>4, DisturbingStep DEF IndInv, RefreshPosition
  <1>6. ASSUME NEW p \in Position, PriceExpires(p)
        PROVE  IndInv'
    <2> DEFINE bal == account.balance[p]
               st == account.stale \cup {p}
    <2>1. p \in account.registered /\ bal \in 0 .. MaxBalance /\ account.price[p] \in Price[p]
      BY <1>1, <1>6, LiquidationAssumption DEF PriceExpires, AccountOK, AccountType
    <2>2. account' = [account EXCEPT !.balance[p] = bal, !.price[p] = account.price[p],
                                     !.stale = st]
      BY <1>1, <1>6 DEF PriceExpires, AccountType
    <2>3. st \in SUBSET Position /\ account.stale \subseteq st \cup {p}
      BY <1>2
    <2> HIDE DEF bal, st
    <2>4. AccountOK(account')
      BY <1>1, <2>1, <2>2, <2>3, PositionChange
    <2> QED
      BY <1>1, <1>6, <2>4, DisturbingStep DEF IndInv, PriceExpires
  <1>7. ASSUME NEW flag \in PastDueFlag, FlagPastDue(flag)
        PROVE  IndInv'
    <2>1. account' = [account EXCEPT !.liquidator = account.liquidator,
                                     !.denyTransfers = account.denyTransfers,
                                     !.pastDue = flag,
                                     !.registered = account.registered]
      BY <1>1, <1>7 DEF FlagPastDue, AccountType
    <2>2. flag \in BOOLEAN /\ account.exists /\ Claim \in account.registered
      BY <1>7, LiquidationAssumption DEF FlagPastDue
    <2>3. /\ AccountOK(account')
          /\ AvailableCollateral(account') = AvailableCollateral(account)
      BY <1>1, <1>2, <2>1, <2>2, AccountFrame
    <2> QED
      BY <1>1, <1>7, <2>3, QuietStep DEF IndInv, FlagPastDue
  <1>8. ASSUME NEW l \in Liquidator, ConfigureLiquidator(l)
        PROVE  IndInv'
    <2>1. account' = account /\ liquidation' = liquidation /\ trail' = trail
          /\ closings' = closings /\ permit' \subseteq Liquidator
      BY <1>1, <1>8 DEF ConfigureLiquidator
    <2> QED
      BY <1>1, <2>1, QuietStep DEF IndInv
  <1>9. ASSUME NEW l \in Liquidator, TimesOut(l)
        PROVE  IndInv'
    BY <1>9, TimesOutKeepsLedger
  <1> QED
    BY <1>3, <1>4, <1>5, <1>6, <1>7, <1>8, <1>9 DEF EnvironmentStep

-----------------------------------------------------------------------------
(* The invariant and what it says.                                         *)

\* Initially there is no liquidation.
LEMMA LedgerInit == Init => IndInv
  <1> SUFFICES ASSUME Init PROVE IndInv
    OBVIOUS
  <1>1. NoTrail \in TrailType /\ ~NoTrail.undisturbed /\ ~NoLiquidation.exists
    BY DEF NoTrail, TrailType, NoLiquidation
  <1>2. Ledger
    BY <1>1 DEF Init, Ledger
  <1> QED
    BY <1>2, BlankAccount, LiquidationAssumption DEF Init, IndInv

\* Every step keeps the invariant.
LEMMA LedgerNext == IndInv /\ [Next]_vars => IndInv'
  <1> SUFFICES ASSUME IndInv, [Next]_vars PROVE IndInv'
    OBVIOUS
  <1>1. CASE LiquidatorStep
    BY <1>1, BeginKeepsLedger, InvokeKeepsLedger, CollectKeepsLedger DEF LiquidatorStep
  <1>2. CASE OwnerStep
    BY <1>2, OwnerKeepsLedger
  <1>3. CASE PositionStep
    BY <1>3, PositionKeepsLedger
  <1>4. CASE EndStep
    BY <1>4, EndKeepsLedger DEF EndStep
  <1>5. CASE EnvironmentStep
    BY <1>5, EnvironmentKeepsLedger
  <1>6. CASE UNCHANGED vars
    BY <1>6, QuietStep DEF vars, IndInv
  <1> QED
    BY <1>1, <1>2, <1>3, <1>4, <1>5, <1>6 DEF Next

\* The account, the liquidation states and their history are well formed and
\* hang together as Booked and Helped say.
THEOREM LedgerInvariance == Spec => []IndInv
  BY LedgerInit, LedgerNext, PTL DEF Spec

\* Whatever sequence of instructions runs, the records are well formed, and a
\* liquidator is paid no more than its fees less the equity its invocations
\* lost: no order of liquidator_invoke and collect_liquidation_fee, no
\* truncation and no change of the oracle's price in between pays for a loss.
THEOREM PaidIsEarned == Spec => []FeesAreEarned
  <1>1. IndInv => FeesAreEarned
    <2> SUFFICES ASSUME IndInv PROVE FeesAreEarned
      OBVIOUS
    <2>1. AccountOK(account) /\ account \in AccountType /\ Ledger
      BY DEF IndInv, AccountOK
    <2>2. /\ account.liquidator \in Liquidator \cup {NoOne}
          /\ account.registered \subseteq Position
          /\ \A p \in Position : account.price[p] \in Price[p]
          /\ Position \ account.registered \subseteq account.stale
          /\ account.pastDue => Claim \in account.registered
      BY <2>1 DEF AccountOK, AccountType
    <2>3. \A p \in Position :
            account.balance[p] \in IF p \in account.registered THEN 0 .. MaxBalance ELSE {0}
      BY <2>1, LiquidationAssumption DEF AccountOK, AccountType
    <2>4. ASSUME NEW l \in Liquidator, liquidation[l].exists
          PROVE  /\ IsLiquidation(liquidation[l])
                 /\ trail[l].paid
                      <= AtLeast(trail[l].feeValue - AtLeast(trail[l].grossLoss, 0), 0)
      <3>1. liquidation[l] \in LiquidationType /\ Booked(liquidation[l], trail[l])
        BY <2>1, <2>4, ExistingLiquidation DEF Ledger
      <3>2. /\ liquidation[l].equityLoss \in Int
            /\ liquidation[l].maxEquityLoss \in Nat /\ liquidation[l].collateralChange \in Nat
            /\ liquidation[l].limit \in Nat
            /\ liquidation[l].timedOut \in BOOLEAN
            /\ liquidation[l].isCollectingFees \in BOOLEAN
            /\ liquidation[l].fees \in Fees
        BY <3>1, Zenon DEF LiquidationType
      <3>3. /\ DOMAIN liquidation[l].fees \subseteq Collateral
            /\ \A m \in DOMAIN liquidation[l].fees : liquidation[l].fees[m] \in Nat
        BY <3>2 DEF Fees
      <3> QED
        BY <3>1, <3>2, <3>3, Zenon DEF Booked, IsLiquidation
    <2> QED
      BY <2>2, <2>3, <2>4 DEF IndInv, FeesAreEarned, FeesNetOfLoss, TypeOK
  <1> QED
    BY <1>1, LedgerInvariance, PTL

\* The equity a liquidation costs the account, losses and fees together, never
\* exceeds the greater of the maximum fixed by liquidate_begin and the fees.
THEOREM CostIsBounded == Spec => []CostBounded
  <1>1. IndInv => CostBounded
    <2> SUFFICES ASSUME IndInv, NEW l \in Liquidator, liquidation[l].exists
                 PROVE  trail[l].grossLoss + trail[l].paid
                          <= AtLeast(liquidation[l].maxEquityLoss, trail[l].feeValue)
      BY DEF CostBounded
    <2>1. Ledger
      BY DEF IndInv
    <2>2. liquidation[l] \in LiquidationType /\ Booked(liquidation[l], trail[l])
          /\ trail[l] \in TrailType
      BY <2>1, ExistingLiquidation DEF Ledger
    <2>3. liquidation[l].maxEquityLoss \in Nat
      BY <2>2, Zenon DEF LiquidationType
    <2>4. trail[l].grossLoss \in Int /\ trail[l].feeValue \in Nat /\ trail[l].paid \in Nat
      BY <2>2 DEF TrailType
    <2> QED
      BY <2>2, <2>3, <2>4 DEF Booked, AtLeast
  <1> QED
    BY <1>1, LedgerInvariance, PTL

\* A liquidation nobody else interferes with leaves the account's available
\* collateral no lower than it began with, or the account healthy.
THEOREM LiquidationLeavesNoLess == Spec => []LiquidationHelps
  <1>1. IndInv => LiquidationHelps
    <2> SUFFICES ASSUME IndInv, NEW l \in Liquidator, trail[l].undisturbed
                 PROVE  AvailableCollateral(account) >= Min({trail[l].opening, 0})
      BY DEF LiquidationHelps
    <2>1. Ledger /\ account \in AccountType
      BY DEF IndInv, AccountOK
    <2>2. liquidation[l].exists
          /\ Helped(liquidation[l], trail[l], AvailableCollateral(account))
      BY <2>1 DEF Ledger
    <2>3. liquidation[l] \in LiquidationType /\ trail[l] \in TrailType
      BY <2>1, <2>2, ExistingLiquidation DEF Ledger
    <2>4. liquidation[l].collateralChange \in Nat
      BY <2>3, Zenon DEF LiquidationType
    <2>5. trail[l].opening \in Int
      BY <2>3 DEF TrailType
    <2>6. AvailableCollateral(account) \in Int
      BY <2>1, ValuationType
    <2> DEFINE o == trail[l].opening
    <2> HIDE DEF o
    <2>7. /\ Min({o, 0}) \in {o, 0}
          /\ \A y \in {o, 0} : Min({o, 0}) <= y
      <3>1. \E x \in {o, 0} : \A y \in {o, 0} : x <= y
        BY <2>5 DEF o
      <3> QED
        BY <3>1, Zenon DEF Min
    <2>8. AvailableCollateral(account) >= o \/ AvailableCollateral(account) >= 0
      BY <2>2, <2>4, <2>5, <2>6 DEF Helped, o
    <2>9. AvailableCollateral(account) >= Min({o, 0})
      <3> DEFINE m == Min({o, 0})
                 v == AvailableCollateral(account)
      <3>1. m \in Int /\ m <= o /\ m <= 0 /\ v \in Int /\ o \in Int /\ (v >= o \/ v >= 0)
        BY <2>5, <2>6, <2>7, <2>8 DEF o
      <3> HIDE DEF m, v
      <3>2. v >= m
        BY <3>1
      <3> QED
        BY <3>2 DEF m, v
    <2> QED
      BY <2>9 DEF o
  <1> QED
    BY <1>1, LedgerInvariance, PTL

=============================================================================
