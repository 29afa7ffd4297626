---------------------------- MODULE MarginConfig ----------------------------
(***************************************************************************)
(* The configuration of one airspace in the margin program and what the    *)
(* margin accounts copy from it: token configs, adapters, permits, the     *)
(* features that say which tokens an account may hold, and the constraints *)
(* adapters put on accounts.  Each instruction is one action; an error     *)
(* rolls the instruction back, so it is a step that is not enabled.        *)
(*                                                                         *)
(* Flags (bitflags) are sets of names.  Bit 0 is RESTRICTED in a token and *)
(* VIOLATION in an account; the other bits mean the same in both.          *)
(* The airspace authority's signature is the environment's choice to act:  *)
(* module Airspace models who that is.  Nothing is liquidated here.        *)
(***************************************************************************)
EXTENDS Integers, FiniteSets

CONSTANTS
    Account,           \* the addresses (owner and seed) of margin accounts
    Token,             \* the mints that may be configured
    Adapter,           \* the programs that may be adapters
    Refresher,         \* the keys that may hold a permit
    NoAdapter,         \* Pubkey::default()
    MaxCollateralModifier,  \* MAX_COLLATERAL_VALUE_MODIFIER
    MaxClaimModifier,       \* MAX_CLAIM_VALUE_MODIFIER
    MaxStaleness,           \* MAX_TOKEN_STALENESS
    MaxUserPositions,       \* MAX_USER_POSITIONS
    Update,            \* bound: the updates proposed for each token
    OldLayout,         \* bound: the configs that start in the old layout
    AccountFeature,    \* bound: the features owners ask for
    ConstraintSet,     \* bound: the constraints adapters ask for
    MigrateAgain,      \* bound: whether a migrated config is migrated again
    MaxBalance         \* bound: the tokens in a position

TokenFeature == {"RESTRICTED", "USD_STABLECOIN", "SOL_BASED", "WBTC_BASED"}
AccountFlag == {"VIOLATION", "USD_STABLECOIN", "SOL_BASED", "WBTC_BASED"}
Kind == {"Collateral", "Claim", "AdapterCollateral"}
Permission == {"LIQUIDATE", "REFRESH_POSITION_CONFIG", "OPERATE_VAULTS"}
AccountConstraint == {"DENY_WITHDRAWALS", "DENY_DEPOSITS", "DENY_TRANSFERS"}

\* A TokenConfigUpdate: admin names the oracle of a token of the margin program
\* or an adapter, program is the token program of the underlying mint.
TokenConfigUpdate(u) ==
    /\ DOMAIN u = {"underlying", "program", "admin", "kind", "modifier",
                   "staleness", "features"}
    /\ u.admin.kind \in {"Margin", "Adapter"}
    /\ u.admin.kind = "Adapter" => u.admin.program \in Adapter
    /\ u.kind \in Kind
    /\ {u.modifier, u.staleness} \subseteq Nat
    /\ u.features \subseteq TokenFeature

CheckModifierLimits(u) ==
    u.modifier <= IF u.kind = "Claim" THEN MaxClaimModifier ELSE MaxCollateralModifier

CheckMaxStaleness(u) == u.staleness <= MaxStaleness

\* What a config in the old layout was made from: a layout without features,
\* under the limits of the new one.
BeforeFeatures(u) == u.features = {} /\ CheckModifierLimits(u) /\ CheckMaxStaleness(u)

ASSUME ConfigAssumption ==
    /\ NoAdapter \notin Adapter
    /\ {MaxCollateralModifier, MaxClaimModifier, MaxStaleness,
        MaxUserPositions, MaxBalance} \subseteq Nat
    /\ \A t \in Token : \A u \in Update[t] : TokenConfigUpdate(u)
    /\ OldLayout \in [Token -> BOOLEAN]
    /\ \A t \in Token : OldLayout[t] => \E u \in Update[t] : BeforeFeatures(u)
    /\ \A f \in AccountFeature : f \subseteq AccountFlag
    /\ \A c \in ConstraintSet : c \subseteq AccountConstraint
    /\ MigrateAgain \in BOOLEAN

VARIABLES
    config,    \* the TokenConfig of each token, if it has one
    adapters,  \* the adapters with an AdapterConfig
    permit,    \* the permissions in each key's Permit; no permit, no permissions
    account,   \* the margin accounts that exist
    ticket     \* the adapter in each account's AccountConstraintTicket

vars == <<config, adapters, permit, account, ticket>>

Nothing == [exists |-> FALSE]

-----------------------------------------------------------------------------
(* Token configs (state/config.rs, configure_token.rs)                     *)

Stripped(features) == features \ {"RESTRICTED"}

IsValid(features) == Cardinality(Stripped(features)) <= 1

CheckValidConfiguration(features) ==
    features # {"RESTRICTED"} /\ IsValid(features)

CheckTokenProgram(u) == u.program \in {"token", "token_2022"}

CheckTokenKind(u) == u.admin.kind = "Margin" => u.kind = "Collateral"

CompareTokenKindImmutability(c, u) ==
    /\ u.kind = c.kind
    /\ c.underlying # "default"
    /\ u.underlying = c.underlying

\* Mutant: the new adapter is not compared with the current one.
AdapterMayChange(c, u) == u.admin.kind = c.admin.kind

\* An adapter's address is fixed and neither kind of admin becomes the other;
\* the oracle of a margin token may change.
AllowAdminTransition(c, u) ==
    /\ u.admin.kind = c.admin.kind
    /\ c.admin.kind = "Adapter" => u.admin.program = c.admin.program

\* Mutant: features may be cleared, then set anew.
ClearableFeatures(c, u) ==
    Stripped(c.features) # {} /\ Stripped(u.features) # {}
        => Stripped(u.features) = Stripped(c.features)

CompareFeatureImmutability(c, u) ==
    Stripped(c.features) # {} => Stripped(u.features) = Stripped(c.features)

AdapterProgram(c) == IF c.admin.kind = "Adapter" THEN c.admin.program ELSE NoAdapter

ValidateImmutabilityConstraints(c, u) ==
    /\ CompareTokenKindImmutability(c, u)
    /\ AllowAdminTransition(c, u)
    /\ CompareFeatureImmutability(c, u)

\* apply_config_update sets every field but the version and the layout.
AppliedUpdate(c, u) ==
    [exists |-> TRUE, old |-> FALSE, underlying |-> u.underlying, program |-> u.program,
     admin |-> u.admin, kind |-> u.kind, modifier |-> u.modifier,
     staleness |-> u.staleness, features |-> u.features]

\* An account in the old layout does not deserialize as a TokenConfig.
Readable(t) == config[t].exists /\ ~config[t].old

ConfigureToken(t, u) ==
    /\ config[t].exists => Readable(t)
    /\ CheckMaxStaleness(u)
    /\ CheckValidConfiguration(u.features)
    /\ CheckTokenKind(u)
    /\ CheckModifierLimits(u)
    /\ CheckTokenProgram(u)
    /\ config[t].exists => ValidateImmutabilityConstraints(config[t], u)
    /\ config' = [config EXCEPT ![t] = AppliedUpdate(config[t], u)]
    /\ UNCHANGED <<adapters, permit, account, ticket>>

\* The old layout is a prefix of the new one, so a config that has been
\* migrated still reads as an old one and its features are reset again.
MigrateTokenConfig(t) ==
    /\ config[t].exists
    /\ config[t].old \/ MigrateAgain
    /\ config' = [config EXCEPT ![t].old = FALSE, ![t].features = {}]
    /\ UNCHANGED <<adapters, permit, account, ticket>>

-----------------------------------------------------------------------------
(* Adapters and permits                                                    *)

ConfigureAdapter(ad, isAdapter) ==
    /\ adapters' = IF isAdapter THEN adapters \cup {ad} ELSE adapters \ {ad}
    /\ UNCHANGED <<config, permit, account, ticket>>

\* A permit with no permission left is closed.
ConfigurePermit(r, enable, flag) ==
    /\ permit' = [permit EXCEPT ![r] = IF enable THEN @ \cup {flag} ELSE @ \ {flag}]
    /\ UNCHANGED <<config, adapters, account, ticket>>

Validate(r, permission) == permission \in permit[r]

-----------------------------------------------------------------------------
(* Margin accounts and their positions                                     *)

Positions(a) == {t \in Token : account[a].position[t].exists}

NewAccount(features) ==
    [exists |-> TRUE, features |-> features, constraints |-> {},
     position |-> [t \in Token |-> Nothing]]

CreateAccount(a, features) ==
    /\ ~account[a].exists
    /\ "VIOLATION" \notin features
    /\ Cardinality(features) <= 1
    /\ account' = [account EXCEPT ![a] = NewAccount(features)]
    /\ UNCHANGED <<config, adapters, permit, ticket>>

\* Mutant: a constrained account may be closed.
CloseConstrained(a) ==
    /\ account[a].exists
    /\ Positions(a) = {}
    /\ account' = [account EXCEPT ![a] = Nothing]
    /\ UNCHANGED <<config, adapters, permit, ticket>>

CloseAccount(a) ==
    /\ account[a].exists
    /\ Positions(a) = {}
    /\ account[a].constraints = {}
    /\ account' = [account EXCEPT ![a] = Nothing]
    /\ UNCHANGED <<config, adapters, permit, ticket>>

\* AccountFeatureFlags::try_from drops bit 0, whose meaning differs.
AreTokenFeaturesCompatible(flags, features) ==
    IsValid(features) /\ flags = Stripped(features)

\* MarginAccount::register_position: what the account's features allow.
MayHold(flags, features) ==
    IF flags = {} THEN "RESTRICTED" \notin features
    ELSE AreTokenFeaturesCompatible(flags, features)

\* The position copies the config, the features only if they restrict it.
NewPosition(c) ==
    [exists |-> TRUE, kind |-> c.kind, adapter |-> AdapterProgram(c),
     modifier |-> c.modifier, staleness |-> c.staleness, balance |-> 0,
     features |-> IF "RESTRICTED" \in c.features THEN c.features ELSE {}]

RegisterWith(a, t) ==
    /\ Cardinality(Positions(a)) < MaxUserPositions
    /\ MayHold(account[a].features, config[t].features)
    /\ account' = [account EXCEPT ![a].position[t] =
                        IF @.exists THEN @ ELSE NewPosition(config[t])]
    /\ UNCHANGED <<config, adapters, permit, ticket>>

\* Registering a token that is registered already succeeds and does nothing.
CreateDepositPosition(a, t) ==
    /\ account[a].exists
    /\ Readable(t)
    /\ config[t].kind = "Collateral"
    /\ RegisterWith(a, t)

RegisterPosition(a, t) ==
    /\ account[a].exists
    /\ Readable(t)
    /\ AdapterProgram(config[t]) # NoAdapter
    /\ config[t].kind = "Collateral"
    /\ ~account[a].position[t].exists
    /\ RegisterWith(a, t)

\* An adapter registers a claim or its own collateral while it is invoked by
\* the authority (adapter.rs), which needs both approvals.
AdapterRegisterPosition(a, t) ==
    /\ account[a].exists
    /\ Readable(t)
    /\ AdapterProgram(config[t]) \in adapters
    /\ config[t].kind \in {"Claim", "AdapterCollateral"}
    /\ ~account[a].position[t].exists
    /\ RegisterWith(a, t)

Unregister(a, t) ==
    /\ account[a].exists
    /\ account[a].position[t].exists
    /\ account[a].position[t].balance = 0
    /\ account' = [account EXCEPT ![a].position[t] = Nothing]
    /\ UNCHANGED <<config, adapters, permit, ticket>>

ClosePosition(a, t) ==
    /\ Unregister(a, t)
    /\ account[a].position[t].kind = "Collateral"

\* What an adapter manages is closed by it, invoked by the authority.
AdapterClosePosition(a, t) ==
    /\ Unregister(a, t)
    /\ account[a].position[t].kind # "Collateral"
    /\ account[a].position[t].adapter \in adapters

\* Mutant: the account is not marked.
RefreshedUnmarked(acc, t) ==
    LET c == config[t]
    IN  [acc EXCEPT
            !.position[t].kind = c.kind,
            !.position[t].modifier = c.modifier,
            !.position[t].staleness = c.staleness,
            !.position[t].features = c.features]

\* What refresh_position_config makes of an account.
Refreshed(acc, t) ==
    LET c == config[t]
    IN  [acc EXCEPT
            !.position[t].kind = c.kind,
            !.position[t].modifier = c.modifier,
            !.position[t].staleness = c.staleness,
            !.position[t].features = c.features,
            !.features = IF @ = {} /\ "RESTRICTED" \in c.features
                         THEN {"VIOLATION"} ELSE @]

RefreshPositionConfig(r, a, t) ==
    /\ account[a].exists
    /\ Readable(t)
    /\ Validate(r, "REFRESH_POSITION_CONFIG")
    /\ account[a].position[t].exists
    /\ account' = [account EXCEPT ![a] = Refreshed(@, t)]
    /\ UNCHANGED <<config, adapters, permit, ticket>>

-----------------------------------------------------------------------------
(* Balances                                                                *)

HeldFeatures(acc) ==
    UNION {acc.position[t].features :
             t \in {s \in Token : acc.position[s].exists /\ acc.position[s].balance > 0}}

\* assert_position_feature_violation, which clears VIOLATION on its way.
FeaturesAllowed(acc) ==
    LET held == HeldFeatures(acc)
        flags == acc.features \ {"VIOLATION"}
    IN  \/ held = {}
        \/ /\ ~(flags = {} /\ "RESTRICTED" \in held)
           /\ AreTokenFeaturesCompatible(flags, held)

AfterFeatureCheck(acc) ==
    [acc EXCEPT !.features = IF HeldFeatures(acc) = {} THEN @ ELSE @ \ {"VIOLATION"}]

\* A position's balance follows its token account.
WithBalance(acc, t, n) == [acc EXCEPT !.position[t].balance = n]

\* adapter_invoke: an adapter changes a balance, its own or one of tokens the
\* account keeps itself, then the features are checked.
AdapterInvoke(a, t, n) ==
    /\ account[a].exists
    /\ account[a].position[t].exists
    /\ IF account[a].position[t].kind = "Collateral" THEN adapters # {}
       ELSE account[a].position[t].adapter \in adapters
    /\ LET invoked == WithBalance(account[a], t, n)
       IN  /\ FeaturesAllowed(invoked)
           /\ account' = [account EXCEPT ![a] = AfterFeatureCheck(invoked)]
    /\ UNCHANGED <<config, adapters, permit, ticket>>

\* transfer_deposit moves tokens the account keeps in, or out unless the
\* constraints deny it, and does not look at features.
TransferDeposit(a, t, n) ==
    /\ account[a].exists
    /\ account[a].position[t].exists
    /\ account[a].position[t].kind = "Collateral"
    /\ account[a].position[t].balance # n
    /\ "DENY_TRANSFERS" \in account[a].constraints => account[a].position[t].balance < n
    /\ account' = [account EXCEPT ![a] = WithBalance(@, t, n)]
    /\ UNCHANGED <<config, adapters, permit, ticket>>

\* Mutant: the source need not have what is moved.
OverdraftTransfer(a, b, t, n) ==
    /\ a # b
    /\ \A x \in {a, b} : account[x].exists /\ account[x].position[t].exists
    /\ account[b].position[t].balance + n <= MaxBalance
    /\ account' = [account EXCEPT
                        ![a] = WithBalance(@, t, @.position[t].balance - n),
                        ![b] = WithBalance(@, t, @.position[t].balance + n)]
    /\ UNCHANGED <<config, adapters, permit, ticket>>

\* The protocol governor moves tokens between accounts that both know them.
AdminTransferPosition(a, b, t, n) ==
    /\ a # b
    /\ \A x \in {a, b} : account[x].exists /\ account[x].position[t].exists
    /\ account[a].position[t].balance >= n
    /\ account[b].position[t].balance + n <= MaxBalance
    /\ account' = [account EXCEPT
                        ![a] = WithBalance(@, t, @.position[t].balance - n),
                        ![b] = WithBalance(@, t, @.position[t].balance + n)]
    /\ UNCHANGED <<config, adapters, permit, ticket>>

-----------------------------------------------------------------------------
(* Constraints                                                             *)

\* Mutant: the ticket is not checked before constraints are lifted.
LiftedByAnyone(ad, a, constraints) ==
    /\ ad \in adapters
    /\ account[a].exists
    /\ Positions(a) = {}
    /\ constraints = {} \/ account[a].constraints = {}
    /\ ticket' = [ticket EXCEPT ![a] = IF constraints = {} THEN NoAdapter ELSE ad]
    /\ account' = [account EXCEPT ![a].constraints = constraints]
    /\ UNCHANGED <<config, adapters, permit>>

\* Signed by a PDA of a registered adapter.  Lifting needs the ticket, and
\* closes it; setting needs an account that has no constraints.
ConfigureAccountConstraints(ad, a, constraints) ==
    /\ ad \in adapters
    /\ account[a].exists
    /\ Positions(a) = {}
    /\ IF constraints = {} THEN ticket[a] = ad ELSE account[a].constraints = {}
    /\ ticket' = [ticket EXCEPT ![a] = IF constraints = {} THEN NoAdapter ELSE ad]
    /\ account' = [account EXCEPT ![a].constraints = constraints]
    /\ UNCHANGED <<config, adapters, permit>>

-----------------------------------------------------------------------------

\* A config that predates token features: the layout has no field for them.
OldConfig(t) ==
    [AppliedUpdate(Nothing, CHOOSE u \in Update[t] : BeforeFeatures(u)) EXCEPT !.old = TRUE]

Init ==
    /\ config = [t \in Token |-> IF OldLayout[t] THEN OldConfig(t) ELSE Nothing]
    /\ adapters = {}
    /\ permit = [r \in Refresher |-> {}]
    /\ account = [a \in Account |-> Nothing]
    /\ ticket = [a \in Account |-> NoAdapter]

Configure ==
    \/ \E t \in Token : (\E u \in Update[t] : ConfigureToken(t, u)) \/ MigrateTokenConfig(t)
    \/ \E ad \in Adapter, b \in BOOLEAN : ConfigureAdapter(ad, b)
    \/ \E r \in Refresher, b \in BOOLEAN, p \in {"REFRESH_POSITION_CONFIG"} :
         ConfigurePermit(r, b, p)

Operate ==
    \E a \in Account :
        \/ \E f \in AccountFeature : CreateAccount(a, f)
        \/ CloseAccount(a)
        \/ \E ad \in Adapter, c \in ConstraintSet : ConfigureAccountConstraints(ad, a, c)
        \/ \E t \in Token :
             \/ CreateDepositPosition(a, t)
             \/ RegisterPosition(a, t)
             \/ AdapterRegisterPosition(a, t)
             \/ ClosePosition(a, t)
             \/ AdapterClosePosition(a, t)
             \/ \E r \in Refresher : RefreshPositionConfig(r, a, t)
             \/ \E n \in 0 .. MaxBalance : AdapterInvoke(a, t, n) \/ TransferDeposit(a, t, n)
             \/ \E b \in Account, n \in 1 .. MaxBalance : AdminTransferPosition(a, b, t, n)

Next == Configure \/ Operate

Spec == Init /\ [][Next]_vars

-----------------------------------------------------------------------------

\* Configs, permits and accounts have the shape their structs give them.
TypeOK ==
    /\ \A t \in Token : config[t].exists =>
         /\ config[t].old \in BOOLEAN
         /\ config[t].kind \in Kind
         /\ config[t].features \subseteq TokenFeature
         /\ {config[t].modifier, config[t].staleness} \subseteq Nat
    /\ adapters \subseteq Adapter
    /\ permit \in [Refresher -> SUBSET Permission]
    /\ ticket \in [Account -> Adapter \cup {NoAdapter}]
    /\ \A a \in Account : account[a].exists =>
         /\ account[a].features \subseteq AccountFlag
         /\ account[a].constraints \subseteq AccountConstraint
         /\ \A t \in Positions(a) :
              /\ account[a].position[t].kind \in Kind
              /\ account[a].position[t].adapter \in Adapter \cup {NoAdapter}
              /\ account[a].position[t].features \subseteq TokenFeature
              /\ account[a].position[t].balance \in 0 .. MaxBalance

\* A position's adapter and kind are copied when it is registered and read
\* long after the token may have been configured again; what may change in a
\* config (compare_token_kind_immutability, allow_admin_transition) never
\* makes them differ, so the program that values a position is always the one
\* its config names and its modifier is within the limit of its kind.
PositionsFollowConfig ==
    \A a \in Account : account[a].exists =>
        \A t \in Positions(a) :
            LET p == account[a].position[t]
            IN  /\ config[t].exists
                /\ p.kind = config[t].kind
                /\ p.adapter = AdapterProgram(config[t])
                /\ CheckModifierLimits(p)
                /\ CheckMaxStaleness(p)

\* The accounts are well formed and every position follows its config.
PositionsAreConfigured == TypeOK /\ PositionsFollowConfig

\* An account that accepts one kind of token only (AccountFeatureFlags) holds
\* no position in a token of another kind, however its config changed since
\* the position was registered (compare_feature_immutability).
AccountsHoldTheirKind ==
    \A a \in Account : account[a].exists =>
        LET flags == account[a].features \ {"VIOLATION"}
        IN  flags # {} => \A t \in Positions(a) : Stripped(config[t].features) = flags

\* An account with no feature flags at all has no position marked RESTRICTED:
\* registering one is refused and refresh_position_config, the only way to
\* get one, marks the account.
UnmarkedAccountsUnrestricted ==
    \A a \in Account : account[a].exists /\ account[a].features = {} =>
        \A t \in Positions(a) : "RESTRICTED" \notin account[a].position[t].features

\* The features of a token, of its positions and of the accounts that hold them
\* agree, in any order of configuring, registering, refreshing and closing.
FeaturesAgree == AccountsHoldTheirKind /\ UnmarkedAccountsUnrestricted

\* An account is constrained exactly while its ticket exists, across closing
\* and creating it again at the same address (AccountConstraintTicket).
ConstraintsHaveATicket ==
    \A a \in Account :
        (ticket[a] # NoAdapter) <=> (account[a].exists /\ account[a].constraints # {})

\* The constraints an adapter set are neither taken over by another adapter
\* nor lifted by one: the ticket stays as it is until its own adapter, which
\* must still be registered, removes it.
ConstraintsStayWithTheirAdapter ==
    [][\A a \in Account : ticket[a] # NoAdapter /\ ticket'[a] # ticket[a] =>
            ticket'[a] = NoAdapter /\ ticket[a] \in adapters]_vars
=============================================================================
