---------------------------- MODULE Environment ----------------------------
(***************************************************************************)
(* Configuring an airspace from a description of it: the builder reads the *)
(* accounts, plans the instructions that lead to the description           *)
(* (environment/src/builder), and the plan is executed, in transactions of *)
(* the operator or as proposals a multisig executes later.  The module     *)
(* composes the builder with the instructions it plans: the token configs  *)
(* and permits of the margin program (module MarginConfig), the creation   *)
(* and configuration of pools and the entries of the metadata program.     *)
(*                                                                         *)
(* Every function of the builder that reads accounts is a step, so that    *)
(* the accounts may change between two reads and before the plan is        *)
(* executed.  All keys the builder signs with are the airspace authority's.*)
(***************************************************************************)
EXTENDS Integers, Sequences, FiniteSets, SequencesExt

CONSTANTS
    Operator,       \* who runs the builder
    Token,          \* the tokens of the airspace
    Crank,          \* keys that may hold a permit
    PoolAdapter,    \* the program of DEFAULT_MARGIN_ADAPTERS
    NoAdapter,      \* Pubkey::default()
    Scenario        \* bound: the networks, ways to execute proposals, initial
                    \* accounts and descriptions, with their numbers of runs
                    \* and of changes of the description

Permission == {"LIQUIDATE", "REFRESH_POSITION_CONFIG", "OPERATE_VAULTS"}

\* A token has a mint and, with a pool, the mints of its two notes.
Mint == Token \X {"mint", "deposit", "loan"}
MintOf(t) == <<t, "mint">>
Deposit(t) == <<t, "deposit">>
Loan(t) == <<t, "loan">>

VARIABLES
    setting,    \* the scenario: above all network and execution
    target,     \* the description operators start from
    chain,      \* the accounts
    op,         \* for each operator: its builder and how far it is
    proposals,  \* the multisig's transactions, in the order of their index
    runs,       \* runs so far
    retargets   \* changes of the description so far

environmentVars == <<setting, target, chain, op, proposals, runs, retargets>>

Direct == setting.execution = "Direct"
Localnet == setting.network = "Localnet"

\* The rules of configure_token, as the margin program's module states them.
Margin == INSTANCE MarginConfig WITH
    config <- chain.config, adapters <- chain.adapters, permit <- chain.permit,
    account <- <<>>, ticket <- <<>>,
    Account <- {}, Token <- Mint, Adapter <- {PoolAdapter}, Refresher <- Crank,
    MaxCollateralModifier <- 100, MaxClaimModifier <- 100, MaxStaleness <- 100,
    MaxUserPositions <- 0, Update <- <<>>, OldLayout <- <<>>, AccountFeature <- {},
    ConstraintSet <- {}, MigrateAgain <- TRUE, MaxBalance <- 0

Nothing == [exists |-> FALSE]

\* The accounts, as the programs may leave them.
AccountsOK(c) ==
    /\ c.governor \in BOOLEAN /\ c.airspace \in BOOLEAN
    /\ c.mints \subseteq Mint /\ c.infos \subseteq Mint
    /\ c.permit \in [Crank -> SUBSET Permission]
    /\ \A m \in Mint : c.config[m].exists => m \in c.mints /\ c.config[m].old \in BOOLEAN

HaveMetadata(c) ==
    \A t \in Token : c.pool[t].exists =>
        /\ {Deposit(t), Loan(t)} \subseteq c.mints
        /\ \A m \in {MintOf(t), Deposit(t), Loan(t)} : c.entry[m].exists
        /\ c.entry[MintOf(t)].oracle = c.pool[t].oracle

\* A program's account has the fields of its type.
HaveFields(c) ==
    /\ DOMAIN c = {"governor", "airspace", "mints", "infos", "adapters", "permit", "config",
                   "pool", "entry"}
    /\ DOMAIN c.config = Mint /\ DOMAIN c.pool = Token /\ DOMAIN c.entry = Mint
    /\ \A m \in Mint : c.config[m].exists => {"exists", "old"} \subseteq DOMAIN c.config[m]
    /\ \A t \in Token : c.entry[MintOf(t)].exists =>
                            {"exists", "oracle"} \subseteq DOMAIN c.entry[MintOf(t)]

ASSUME ScenarioAssumption ==
    /\ IsFiniteSet(Crank)
    /\ \A s \in Scenario :
        /\ s.runs \in Nat /\ s.retargets \in Nat
        /\ HaveFields(s.start) /\ AccountsOK(s.start) /\ HaveMetadata(s.start)
        /\ \A goal \in s.targets :
            /\ IsFiniteSet(goal.adapters) /\ IsFiniteSet(DOMAIN goal.cranks)
            /\ goal.tokens \in Seq(ToSet(goal.tokens))
            /\ \A desc \in ToSet(goal.tokens) :
                /\ desc.token \in Token
                /\ desc.symbol = "SOL" => MintOf(desc.token) \in s.start.mints

-----------------------------------------------------------------------------
(* What the instructions do.  Accepts is the handler's checks, Effect the  *)
(* accounts it leaves; a transaction is all of its instructions or none.   *)

MetadataEntry(layout, kind, modifier, staleness, features) ==
    [exists |-> TRUE, layout |-> layout, kind |-> kind, modifier |-> modifier,
     staleness |-> staleness, features |-> features]

\* configure_token_handler.
AcceptsUpdate(c, m, u) ==
    /\ m \in c.mints
    /\ c.config[m].exists => ~c.config[m].old
    /\ Margin!CheckMaxStaleness(u)
    /\ Margin!CheckValidConfiguration(u.features)
    /\ Margin!CheckTokenKind(u)
    /\ Margin!CheckModifierLimits(u)
    /\ Margin!CheckTokenProgram(u)
    /\ c.config[m].exists => Margin!ValidateImmutabilityConstraints(c.config[m], u)

\* A mutation: no entry for the loan note.
CreatedWithoutLoan(c, t) ==
    [c EXCEPT !.mints = @ \cup {Deposit(t), Loan(t)},
              !.pool[t] = [exists |-> TRUE, params |-> "default", oracle |-> "NoOracle"],
              !.entry[MintOf(t)] = [exists |-> TRUE, oracle |-> "NoOracle"],
              !.entry[Deposit(t)] = MetadataEntry("new", "NonCollateral", 0, 5, {})]

\* create_pool_handler: the pool, the mints of its notes and three entries,
\* created and set.
CreatedPool(c, t) ==
    [c EXCEPT !.mints = @ \cup {Deposit(t), Loan(t)},
              !.pool[t] = [exists |-> TRUE, params |-> "default", oracle |-> "NoOracle"],
              !.entry[MintOf(t)] = [exists |-> TRUE, oracle |-> "NoOracle"],
              !.entry[Deposit(t)] = MetadataEntry("new", "NonCollateral", 0, 5, {}),
              !.entry[Loan(t)] = MetadataEntry("new", "Claim", 0, 5, {})]

\* A mutation: the loan's metadata is left as it was created.
ConfiguredDeposit(c, t, desc) ==
    [c EXCEPT !.pool[t] = [exists |-> TRUE, params |-> desc.pool, oracle |-> desc.oracle],
              !.entry[MintOf(t)].oracle = desc.oracle,
              !.entry[Deposit(t)] = MetadataEntry("new", "Collateral", desc.weight,
                                                  desc.staleness, desc.features)]

\* configure_handler, with everything there is to configure.
ConfiguredPool(c, t, desc) ==
    [c EXCEPT !.pool[t] = [exists |-> TRUE, params |-> desc.pool, oracle |-> desc.oracle],
              !.entry[MintOf(t)].oracle = desc.oracle,
              !.entry[Deposit(t)] = MetadataEntry("new", "Collateral", desc.weight,
                                                  desc.staleness, desc.features),
              !.entry[Loan(t)] = MetadataEntry("new", "Claim", desc.leverage,
                                               desc.staleness, desc.features)]

\* token_create_handler of the test service: the mint and the service's own
\* account about the token.
CreatedToken(c, m) == [c EXCEPT !.mints = @ \cup {m}, !.infos = @ \cup {m}]

\* token_init_native_handler: that account for the native mint, which is there.
InitializedNative(c, m) == [c EXCEPT !.infos = @ \cup {m}]

\* migrate_token_config_handler, which a config in the new layout passes as well.
MigratedConfig(config) == [config EXCEPT !.old = FALSE, !.features = {}]

\* set_entry of the metadata program: the account grows to what is written.
SetEntry(c, m, data) == [c EXCEPT !.entry[m] = data]

\* A mutation: a permission that is set already is taken away.
ToggledPermit(permissions, flag, enable) ==
    IF flag \in permissions THEN permissions \ {flag} ELSE permissions \cup {flag}

\* configure_permit.
ConfiguredPermit(permissions, flag, enable) ==
    IF enable THEN permissions \cup {flag} ELSE permissions \ {flag}

\* The account the instruction would create is there.
Initialized(c, ix) ==
    CASE ix.op = "create_governor_id" -> c.governor
      [] ix.op = "token_create" -> ix.mint \in c.mints
      [] ix.op = "token_init_native" -> ix.mint \in c.infos
      [] ix.op = "configure_adapter" -> ix.adapter \in c.adapters
      [] OTHER -> FALSE

Accepts(c, ix) ==
    CASE ix.op = "create_governor_id" -> TRUE
      [] ix.op = "token_create" -> ix.mint \notin c.mints \cup c.infos
      [] ix.op = "token_init_native" -> ix.mint \in c.mints /\ ix.mint \notin c.infos
      [] ix.op = "create_airspace" -> c.governor /\ ~c.airspace
      [] ix.op \in {"configure_adapter", "configure_permit"} -> c.airspace
      [] ix.op = "configure_token" -> c.airspace /\ AcceptsUpdate(c, ix.mint, ix.update)
      [] ix.op = "migrate_token_config" -> c.airspace /\ c.config[ix.mint].exists
      [] ix.op = "create_pool" ->
            /\ c.airspace /\ MintOf(ix.token) \in c.mints /\ ~c.pool[ix.token].exists
            /\ \A m \in {MintOf(ix.token), Deposit(ix.token), Loan(ix.token)} : ~c.entry[m].exists
      [] ix.op = "configure_pool" ->
            /\ c.airspace /\ c.pool[ix.token].exists /\ c.entry[MintOf(ix.token)].exists
            /\ \A m \in {Deposit(ix.token), Loan(ix.token)} :
                    c.entry[m].exists /\ c.entry[m].layout = "new"
            /\ ix.desc.pool # "unordered"
            /\ Margin!CheckMaxStaleness(ix.desc)
            /\ Margin!IsValid(ix.desc.features)
      [] ix.op = "set_entry" -> c.airspace /\ c.entry[ix.mint].exists

Effect(c, ix) ==
    CASE ix.op = "create_governor_id" -> [c EXCEPT !.governor = TRUE]
      [] ix.op = "token_create" -> CreatedToken(c, ix.mint)
      [] ix.op = "token_init_native" -> InitializedNative(c, ix.mint)
      [] ix.op = "create_airspace" -> [c EXCEPT !.airspace = TRUE]
      [] ix.op = "configure_adapter" -> [c EXCEPT !.adapters = @ \cup {ix.adapter}]
      [] ix.op = "configure_permit" ->
            [c EXCEPT !.permit[ix.crank] = ConfiguredPermit(@, ix.flag, ix.enable)]
      [] ix.op = "configure_token" ->
            [c EXCEPT !.config[ix.mint] = Margin!AppliedUpdate(@, ix.update)]
      [] ix.op = "migrate_token_config" ->
            [c EXCEPT !.config[ix.mint] = MigratedConfig(@)]
      [] ix.op = "create_pool" -> CreatedPool(c, ix.token)
      [] ix.op = "configure_pool" -> ConfiguredPool(c, ix.token, ix.desc)
      [] ix.op = "set_entry" -> SetEntry(c, ix.mint, ix.data)

\* if_not_initialized, which only wraps what filter_initializers returned for
\* a local network.
Execute(state, ix) ==
    IF ~state.ok \/ (ix.wrapped /\ Initialized(state.chain, ix)) THEN state
    ELSE IF ~Accepts(state.chain, ix) THEN [state EXCEPT !.ok = FALSE]
    ELSE [state EXCEPT !.chain = Effect(state.chain, ix)]

\* A transaction: its outcome, and the accounts after it if it succeeds.
Transaction(ixs) ==
    LET state[i \in 0 .. Len(ixs)] ==
            IF i = 0 THEN [ok |-> TRUE, chain |-> chain] ELSE Execute(state[i - 1], ixs[i])
    IN  state[Len(ixs)]

-----------------------------------------------------------------------------
(* The builder *)

\* propose: a transaction for each instruction, or one proposal for all.
Proposed(ixs) ==
    IF Direct THEN [i \in DOMAIN ixs |-> <<ixs[i]>>]
    ELSE IF ixs = <<>> THEN <<>> ELSE <<ixs>>

Marked(ix, wrapped) ==
    [field \in DOMAIN ix \cup {"wrapped"} |-> IF field = "wrapped" THEN wrapped ELSE ix[field]]

Plain(ix) == Marked(ix, FALSE)

\* filter_initializers: what is there already is left out.
FilterInitializers(ixs) ==
    FlattenSeq([i \in DOMAIN ixs |->
        IF Initialized(chain, ixs[i]) THEN <<>> ELSE <<Marked(ixs[i], Localnet)>>])

PlanGovernor == FilterInitializers(<<[op |-> "create_governor_id"]>>)

PlanAirspace ==
    IF chain.airspace THEN <<>> ELSE Proposed(<<Plain([op |-> "create_airspace"])>>)

\* create_test_tokens, for the tokens whose mint is not given; a token with the
\* symbol SOL has its name as well, so that its mint is the native one.
TestTokenIx(desc) ==
    [op |-> IF desc.symbol = "SOL" THEN "token_init_native" ELSE "token_create",
     mint |-> MintOf(desc.token)]

PlanTestTokens(goal) ==
    IF setting.network = "Mainnet" THEN <<>>
    ELSE FilterInitializers(FlattenSeq([i \in DOMAIN goal.tokens |->
            IF goal.tokens[i].hasMint THEN <<>> ELSE <<TestTokenIx(goal.tokens[i])>>]))

PlanAdapters(goal) ==
    LET adapters == SetToSeq(goal.adapters \cup {PoolAdapter})
    IN  Proposed(FilterInitializers([i \in DOMAIN adapters |->
            [op |-> "configure_adapter", adapter |-> adapters[i]]]))

Wanted(goal, k) == IF k \in DOMAIN goal.cranks THEN goal.cranks[k] ELSE {}

\* The two permissions the builder knows, set to what is wanted.
PermitChange(goal, k, flag) ==
    IF (flag \in chain.permit[k]) = (flag \in Wanted(goal, k)) THEN <<>>
    ELSE <<Plain([op |-> "configure_permit", crank |-> k, flag |-> flag,
                  enable |-> flag \in Wanted(goal, k)])>>

PermitChanges(goal, k) ==
    PermitChange(goal, k, "LIQUIDATE") \o PermitChange(goal, k, "REFRESH_POSITION_CONFIG")

\* A mutation: only the cranks of the description are looked at.
ListedPermits(goal) ==
    IF Localnet THEN <<>>
    ELSE LET cranks == SetToSeq(DOMAIN goal.cranks)
         IN  FlattenSeq([i \in DOMAIN cranks |-> Proposed(PermitChanges(goal, cranks[i]))])

\* configure_permits: the cranks of the description, then the other permits.
PlanPermits(goal) ==
    IF Localnet THEN <<>>
    ELSE LET cranks == SetToSeq(DOMAIN goal.cranks) \o SetToSeq(Crank \ DOMAIN goal.cranks)
         IN  FlattenSeq([i \in DOMAIN cranks |-> Proposed(PermitChanges(goal, cranks[i]))])

\* upgrade_token_config: the plan to migrate, and the config that plan leads to.
Migrations(m) ==
    IF chain.config[m].exists /\ chain.config[m].old
    THEN Proposed(<<Plain([op |-> "migrate_token_config", mint |-> m])>>) ELSE <<>>

UpgradedConfig(m) ==
    IF chain.config[m].exists /\ chain.config[m].old
    THEN MigratedConfig(chain.config[m]) ELSE chain.config[m]

TokenUpdate(desc, admin, kind, modifier) ==
    [underlying |-> desc.token, program |-> "token", admin |-> admin, kind |-> kind,
     modifier |-> modifier, staleness |-> desc.staleness, features |-> desc.features]

MarginUpdate(desc) ==
    TokenUpdate(desc, [kind |-> "Margin", oracle |-> desc.oracle], "Collateral", desc.weight)
ByPool == [kind |-> "Adapter", program |-> PoolAdapter]
DepositUpdate(desc) == TokenUpdate(desc, ByPool, "Collateral", desc.weight)
LoanUpdate(desc) == TokenUpdate(desc, ByPool, "Claim", desc.leverage)

\* TokenConfig == TokenConfigUpdate.
ConfigEquals(c, u) ==
    c.exists /\ \A field \in {"underlying", "admin", "kind", "modifier", "staleness", "features"} :
                    c[field] = u[field]

ConfigureTokenIx(m, u) == Plain([op |-> "configure_token", mint |-> m, update |-> u])

\* A mutation: the update is planned ahead of the migration.
UpdateFirst(desc) ==
    LET m == MintOf(desc.token)
    IN  (IF ConfigEquals(UpgradedConfig(m), MarginUpdate(desc)) THEN <<>>
         ELSE Proposed(<<ConfigureTokenIx(m, MarginUpdate(desc))>>)) \o Migrations(m)

\* configure_margin_token.
PlanMarginToken(desc) ==
    LET m == MintOf(desc.token)
    IN  Migrations(m) \o
        (IF ConfigEquals(UpgradedConfig(m), MarginUpdate(desc)) THEN <<>>
         ELSE Proposed(<<ConfigureTokenIx(m, MarginUpdate(desc))>>))

\* The entry of a note, in the new layout.
UpgradedEntry(m) ==
    LET e == chain.entry[m]
    IN  IF e.layout = "new" THEN e
        ELSE MetadataEntry("new", e.kind, e.modifier, e.staleness, {})

EntryMigrations(m) ==
    IF chain.entry[m].layout = "new" THEN <<>>
    ELSE Proposed(<<Plain([op |-> "set_entry", mint |-> m, data |-> UpgradedEntry(m)])>>)

ShouldReconfigure(desc) ==
    LET t == desc.token
        d == UpgradedEntry(Deposit(t))
        l == UpgradedEntry(Loan(t))
    IN  \/ ~chain.pool[t].exists
        \/ chain.pool[t].oracle # desc.oracle \/ chain.pool[t].params # desc.pool
        \/ d.staleness # l.staleness \/ d.staleness # desc.staleness
        \/ d.modifier # desc.weight \/ l.modifier # desc.leverage
        \/ d.features # desc.features \/ l.features # desc.features

\* The note configs are compared by three of their fields.
NoteDiffers(m, u) ==
    LET c == UpgradedConfig(m)
    IN  ~c.exists \/ c.modifier # u.modifier \/ c.staleness # u.staleness \/ c.features # u.features

NoteUpdate(m, u) == IF NoteDiffers(m, u) THEN <<ConfigureTokenIx(m, u)>> ELSE <<>>

\* margin_pool::configure_for_token.
PlanPool(desc) ==
    LET t == desc.token
        create == IF chain.pool[t].exists THEN <<>>
                  ELSE <<Plain([op |-> "create_pool", token |-> t])>>
        configure == IF ShouldReconfigure(desc)
                     THEN <<Plain([op |-> "configure_pool", token |-> t, desc |-> desc])>>
                     ELSE <<>>
        entries == IF chain.pool[t].exists
                   THEN EntryMigrations(Deposit(t)) \o EntryMigrations(Loan(t)) ELSE <<>>
    IN  IF desc.pool = "none" THEN <<>>
        ELSE entries \o Migrations(Deposit(t)) \o Migrations(Loan(t))
             \o Proposed(create \o configure)
             \o Proposed(NoteUpdate(Deposit(t), DepositUpdate(desc))
                         \o NoteUpdate(Loan(t), LoanUpdate(desc)))

\* configure_environment, configure_airspace and configure_tokens: the stages in
\* their order, and what each of them adds to the setup and to the proposals.
Stages(goal) ==
    <<<<"governor">>, <<"airspace">>, <<"test_tokens">>, <<"adapters">>, <<"permits">>>> \o
    FlattenSeq([i \in DOMAIN goal.tokens |-> <<<<"token", i>>, <<"pool", i>>>>])

StageSetup(goal, stage) ==
    CASE stage[1] = "governor" -> PlanGovernor
      [] stage[1] = "test_tokens" -> PlanTestTokens(goal)
      [] OTHER -> <<>>

StageProposals(goal, stage) ==
    CASE stage[1] = "airspace" -> PlanAirspace
      [] stage[1] = "adapters" -> PlanAdapters(goal)
      [] stage[1] = "permits" -> PlanPermits(goal)
      [] stage[1] = "token" -> PlanMarginToken(goal.tokens[stage[2]])
      [] stage[1] = "pool" -> PlanPool(goal.tokens[stage[2]])
      [] OTHER -> <<>>

\* create_test_tokens returns an error for missing decimals and panics for the
\* feed ids (those the token's oracle needs) that are missing or not readable.
TestTokenRefused(desc) ==
    ~desc.hasMint /\ desc.symbol # "SOL" /\ (~desc.hasDecimals \/ ~desc.hasFeeds)

\* token_context returns an error for a missing mint and panics for feed ids;
\* then TokenFeatures::from_bits panics for bits it does not know.
TokenRefused(desc) ==
    \/ setting.network = "Mainnet" /\ ~desc.hasMint
    \/ ~desc.hasFeeds
    \/ ~(desc.features \subseteq Margin!TokenFeature)

\* What makes a function of the builder return an error or panic: either ends
\* the run before anything is sent.
Refused(goal, stage) ==
    \/ stage[1] = "governor" /\ goal.network # setting.network
    \/ /\ stage[1] = "test_tokens" /\ setting.network # "Mainnet"
       /\ \E i \in DOMAIN goal.tokens : TestTokenRefused(goal.tokens[i])
    \/ stage[1] = "token" /\ TokenRefused(goal.tokens[stage[2]])

-----------------------------------------------------------------------------
(* The operators.  A run reads stage by stage, sends the setup and then    *)
(* the proposals in order (execute_plan).  It is clean as long as only its *)
(* own instructions have changed accounts since it started.                *)

Idle == [pc |-> "idle", stage |-> 1, setup |-> <<>>, plan |-> <<>>, bad |-> FALSE,
         clean |-> FALSE, goal |-> target, run |-> 0, next |-> 1]

\* The other runs are not clean any more.
Disturbed(run) ==
    [o \in Operator |-> IF op[o].run = run THEN op[o] ELSE [op[o] EXCEPT !.clean = FALSE]]

\* Builder::new; the index of the multisig's last transaction is given to it.
StartRun(o) ==
    /\ op[o].pc \in {"idle", "done", "failed", "crashed"}
    /\ runs < setting.runs
    /\ runs' = runs + 1
    /\ op' = [op EXCEPT ![o] = [Idle EXCEPT !.pc = "reading", !.clean = TRUE, !.run = runs + 1,
                                           !.next = Len(proposals) + 1]]
    /\ UNCHANGED <<setting, target, chain, proposals, retargets>>

ReadStage(o) ==
    LET me == op[o]
        stages == Stages(me.goal)
        stage == stages[me.stage]
    IN  /\ me.pc = "reading"
        /\ op' = [op EXCEPT ![o] =
                IF Refused(me.goal, stage) THEN [me EXCEPT !.pc = "failed"]
                ELSE [me EXCEPT !.setup = @ \o StageSetup(me.goal, stage),
                                !.plan = @ \o StageProposals(me.goal, stage),
                                !.stage = IF @ = Len(stages) THEN @ ELSE @ + 1,
                                !.pc = IF me.stage = Len(stages) THEN "setup" ELSE @]]
        /\ UNCHANGED <<setting, target, chain, proposals, runs, retargets>>

\* send_and_confirm_condensed: the setup in groups, all of them sent even if
\* one fails.  The groups create different accounts, so their order is left out.
SendSetup(o, n) ==
    LET me == op[o]
        tx == Transaction(SubSeq(me.setup, 1, n))
    IN  /\ me.pc = "setup" /\ n \in 1 .. Len(me.setup)
        /\ chain' = IF tx.ok THEN tx.chain ELSE chain
        /\ op' = [IF tx.ok THEN Disturbed(me.run) ELSE op EXCEPT
                    ![o] = [me EXCEPT !.setup = SubSeq(@, n + 1, Len(@)), !.bad = @ \/ ~tx.ok]]
        /\ UNCHANGED <<setting, target, proposals, runs, retargets>>

SetupEnds(o) ==
    /\ op[o].pc = "setup" /\ op[o].setup = <<>>
    /\ op' = [op EXCEPT ![o].pc = IF op[o].bad THEN "failed" ELSE "sending"]
    /\ UNCHANGED <<setting, target, chain, proposals, runs, retargets>>

\* send_and_confirm_condensed_in_order, with the instructions themselves: a
\* group of the next transactions, merged into one.
SendGroup(o, n) ==
    LET me == op[o]
        tx == Transaction(FlattenSeq(SubSeq(me.plan, 1, n)))
    IN  /\ Direct /\ me.pc = "sending" /\ n \in 1 .. Len(me.plan)
        /\ chain' = IF tx.ok THEN tx.chain ELSE chain
        /\ op' = IF tx.ok
                 THEN [Disturbed(me.run) EXCEPT ![o].plan = SubSeq(@, n + 1, Len(@))]
                 ELSE [op EXCEPT ![o].pc = "failed"]
        /\ UNCHANGED <<setting, target, proposals, runs, retargets>>

\* A mutation: the index counts the instructions of the proposal.
SubmitCounted(o) ==
    LET me == op[o]
    IN  /\ ~Direct /\ me.pc = "sending" /\ me.plan # <<>>
        /\ me.next = Len(proposals) + 1
        /\ proposals' = Append(proposals, [ixs |-> Head(me.plan), goal |-> me.goal,
                                           run |-> me.run, open |-> TRUE])
        /\ op' = [Disturbed(me.run) EXCEPT ![o].plan = Tail(@),
                                           ![o].next = @ + Len(Head(me.plan))]
        /\ UNCHANGED <<setting, target, chain, runs, retargets>>

\* The same, with vault_transaction_create: the proposal takes the index that
\* was counted from the one the builder was given.
SubmitProposal(o) ==
    LET me == op[o]
    IN  /\ ~Direct /\ me.pc = "sending" /\ me.plan # <<>>
        /\ IF me.next = Len(proposals) + 1
           THEN /\ proposals' = Append(proposals, [ixs |-> Head(me.plan), goal |-> me.goal,
                                                   run |-> me.run, open |-> TRUE])
                /\ op' = [Disturbed(me.run) EXCEPT ![o].plan = Tail(@), ![o].next = @ + 1]
           ELSE op' = [op EXCEPT ![o].pc = "failed"] /\ UNCHANGED proposals
        /\ UNCHANGED <<setting, target, chain, runs, retargets>>

Finish(o) ==
    /\ op[o].pc = "sending" /\ op[o].plan = <<>>
    /\ op' = [op EXCEPT ![o].pc = "done"]
    /\ UNCHANGED <<setting, target, chain, proposals, runs, retargets>>

Crash(o) ==
    /\ op[o].pc \in {"reading", "setup", "sending"}
    /\ op' = [op EXCEPT ![o] = [Idle EXCEPT !.pc = "crashed"]]
    /\ UNCHANGED <<setting, target, chain, proposals, runs, retargets>>

\* The multisig executes an approved transaction, whatever its index is; one
\* that fails stays approved.
ExecuteProposal(p) ==
    LET tx == Transaction(proposals[p].ixs)
    IN  /\ proposals[p].open /\ tx.ok
        /\ chain' = tx.chain
        /\ proposals' = [proposals EXCEPT ![p].open = FALSE]
        /\ op' = Disturbed(proposals[p].run)
        /\ UNCHANGED <<setting, target, runs, retargets>>

\* Somebody edits the description.
Retarget(goal) ==
    /\ retargets < setting.retargets /\ goal # target
    /\ target' = goal
    /\ retargets' = retargets + 1
    /\ UNCHANGED <<setting, chain, op, proposals, runs>>

EnvironmentInit ==
    /\ setting \in Scenario
    /\ target \in setting.targets
    /\ chain = setting.start
    /\ op = [o \in Operator |-> Idle]
    /\ proposals = <<>>
    /\ runs = 0
    /\ retargets = 0

EnvironmentNext ==
    \/ \E o \in Operator :
        \/ StartRun(o) \/ ReadStage(o) \/ SetupEnds(o) \/ Finish(o) \/ Crash(o)
        \/ \E n \in 1 .. Len(op[o].setup) : SendSetup(o, n)
        \/ \E n \in 1 .. Len(op[o].plan) : SendGroup(o, n)
        \/ SubmitProposal(o)
    \/ \E p \in DOMAIN proposals : ExecuteProposal(p)
    \/ \E goal \in setting.targets : Retarget(goal)

EnvironmentSpec == EnvironmentInit /\ [][EnvironmentNext]_environmentVars

-----------------------------------------------------------------------------
(* Properties *)

\* The accounts and the operators are what their declarations say; no operator
\* numbers a proposal past the multisig's next index.
EnvironmentTypeOK ==
    /\ AccountsOK(chain)
    /\ runs \in 0 .. setting.runs /\ retargets \in 0 .. setting.retargets
    /\ \A o \in Operator :
        /\ op[o].pc \in {"idle", "reading", "setup", "sending", "done", "failed", "crashed"}
        /\ op[o].stage \in 1 .. Len(Stages(op[o].goal))
        /\ op[o].bad \in BOOLEAN /\ op[o].clean \in BOOLEAN
        /\ op[o].run \in 0 .. runs /\ op[o].next \in 1 .. Len(proposals) + 1

\* "An existing pool should have a note metadata" (margin_pool.rs): whatever is
\* created in whichever order, a pool has its note mints, the entries of both
\* notes and that of its token, whose oracle is the pool's ("so they remain in
\* sync", configure_handler).
PoolsHaveMetadata == HaveMetadata(chain)

\* The accounts are well formed and every pool is complete.
PoolsAreComplete == EnvironmentTypeOK /\ PoolsHaveMetadata

NoteMatches(c, m, entry, update) ==
    /\ c.entry[m] = entry
    /\ c.config[m] = Margin!AppliedUpdate(c.config[m], update)

\* The accounts are as the description says.
MatchIn(c, goal) ==
    /\ c.governor /\ c.airspace
    /\ goal.adapters \cup {PoolAdapter} \subseteq c.adapters
    /\ ~Localnet => \A k \in Crank, flag \in Permission \ {"OPERATE_VAULTS"} :
                        flag \in c.permit[k] <=> flag \in Wanted(goal, k)
    /\ \A i \in DOMAIN goal.tokens :
        LET desc == goal.tokens[i]
            t == desc.token
        IN  /\ MintOf(t) \in c.mints
            /\ desc.symbol = "SOL" /\ ~desc.hasMint /\ setting.network # "Mainnet"
                    => MintOf(t) \in c.infos
            /\ c.config[MintOf(t)] = Margin!AppliedUpdate(Nothing, MarginUpdate(desc))
            /\ desc.pool # "none" =>
                /\ c.pool[t] = [exists |-> TRUE, params |-> desc.pool, oracle |-> desc.oracle]
                /\ NoteMatches(c, Deposit(t), MetadataEntry("new", "Collateral", desc.weight,
                                    desc.staleness, desc.features), DepositUpdate(desc))
                /\ NoteMatches(c, Loan(t), MetadataEntry("new", "Claim", desc.leverage,
                                    desc.staleness, desc.features), LoanUpdate(desc))

Matches(goal) == MatchIn(chain, goal)

Open(run) == {p \in DOMAIN proposals : proposals[p].run = run /\ proposals[p].open}

\* A run nobody interferes with leads to its description, from every state
\* another run may have left by failing or crashing part way, and in whichever
\* order the multisig executes its proposals.
CleanRunReachesTarget ==
    \A o \in Operator :
        op[o].pc = "done" /\ op[o].clean /\ Open(op[o].run) = {} => Matches(op[o].goal)

\* Neither the builder nor the programs have an objection to the description.
Legal(goal) ==
    /\ goal.network = setting.network
    /\ \A i \in DOMAIN goal.tokens :
        LET desc == goal.tokens[i]
            mints == {MintOf(desc.token)} \cup
                     (IF desc.pool = "none" THEN {} ELSE {Deposit(desc.token), Loan(desc.token)})
        IN  /\ \/ desc.hasMint
               \/ setting.network # "Mainnet" /\ (desc.hasDecimals \/ desc.symbol = "SOL")
            /\ desc.hasFeeds /\ desc.features \subseteq Margin!TokenFeature
            /\ desc.pool # "unordered"
            /\ Margin!CheckMaxStaleness(desc) /\ Margin!CheckValidConfiguration(desc.features)
            /\ \A m \in mints : chain.config[m].exists =>
                                    Margin!CompareFeatureImmutability(chain.config[m], desc)

\* Such a run fails only if the description lacks something the builder needs or
\* a program forbids what it asks for:
\* no instruction of the plan is ahead of one it depends on.  The proposals of
\* a run never block each other: while some are open, one can be executed.
CleanRunFailsOnlyIfIllegal ==
    \A o \in Operator :
        /\ op[o].clean
        /\ \/ op[o].pc = "failed"
           \/ /\ op[o].pc = "done" /\ Open(op[o].run) # {}
              /\ \A p \in Open(op[o].run) : ~Transaction(proposals[p].ixs).ok
        => ~Legal(op[o].goal)

\* An undisturbed run does what it is for: it ends with the description in
\* place, unless the programs forbid it.
CleanRunsSucceed == CleanRunReachesTarget /\ CleanRunFailsOnlyIfIllegal

\* The builder plans nothing exactly when nothing is left to do: a run after a
\* complete one is empty, and an empty one proves that the accounts are right.
NothingLeftToDo ==
    Matches(target) <=>
        \A i \in DOMAIN Stages(target) :
            LET stage == Stages(target)[i]
            IN  StageSetup(target, stage) = <<>> /\ StageProposals(target, stage) = <<>>

\* The transactions that are still to come: planned by a run or proposed.
Outstanding ==
    LET planning == {o \in Operator : op[o].pc \in {"reading", "setup", "sending"}}
        open == {p \in DOMAIN proposals : proposals[p].open}
    IN  (UNION {ToSet(op[o].plan) : o \in planning}) \cup {proposals[p].ixs : p \in open}

Migrates(ixs) == \E i \in DOMAIN ixs : ixs[i].op \in {"migrate_token_config", "set_entry"}

\* Everybody who is at work or has a proposal open follows the description.
AllFollowTarget ==
    /\ \A o \in Operator : op[o].pc \in {"reading", "setup", "sending"} => op[o].goal = target
    /\ \A p \in DOMAIN proposals : proposals[p].open => proposals[p].goal = target

\* Plans made from accounts as they were earlier do no harm once the accounts
\* are right, with one exception: a migration executed once more resets what
\* has been configured since (migrate_token_config, set_entry).
ConfiguredStaysConfigured ==
    [][Matches(target) /\ AllFollowTarget /\ (\A ixs \in Outstanding : ~Migrates(ixs))
            /\ target' = target => Matches(target)']_environmentVars
=============================================================================
