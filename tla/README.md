# Verification of the Glow margin programs

Glow is a set of Solana programs for cross-margin lending: a user's margin
account holds positions in tokens and in the notes of lending pools, may borrow
against them, and may be liquidated when it is unhealthy. Client libraries build,
pack and send the transactions that use the programs, and an environment builder
configures a deployment. This directory holds TLA+ models of both, the TLC
configurations that check them on small instances, and TLAPS proofs about them.

An instruction is atomic: the Solana runtime runs it with exclusive access to the
accounts it writes, and an error or a panic undoes all of it. So a handler is one
action and an error path is a step that is not enabled. What interleaves on chain
are the instructions of different signers (owners, liquidators, adapters, fee
collectors, the airspace authority), the clock and the oracles. Off chain nothing is
atomic: a client reads accounts, decides, and its transactions land later, in another
order or never. The models of the clients make every such gap a step.

## 1. Inventory

| component | source (`src/programs/` unless said otherwise) | state | operations | status |
|---|---|---|---|---|
| position registry | `margin/src/state/account/positions.rs` | sorted keys, slots, length | add, remove, lookup by mint or key, update | modelled in part, proved |
| lending pool | `margin-pool/src` | counters of tokens, notes, debt, fees; vault and note accounts | deposit, withdraw, borrow, repay, collect, withdraw_fees, configure, admin_transfer_loan; creation and metadata in `Environment` | modelled in part, proved |
| liquidation, account lifecycle | `margin/src/instructions/liquidat*.rs`, `collect_liquidation_fee.rs`, `create_account.rs`, `close_account.rs` | liquidator field, one liquidation account per liquidator | begin, invoke, collect, end, timeout | modelled in part, proved |
| valuation and health | `margin/src/state/account.rs` | none (a function of the positions) | valuation, verify_healthy, verify_unhealthy | modelled in part (in `Liquidation`) |
| adapter invocation | `margin/src/adapter.rs`, `util.rs`, `adapter_invoke.rs`, `accounting_invoke.rs`, `liquidator_invoke.rs` | invocation mark, return data, call stack | invoke_many, write_adapter_result, handle_adapter_result, apply_changes | modelled in part, proved |
| margin configuration, permits | `margin/src/state/config.rs`, `instructions/configure`, `instructions/admin` | token and adapter configs, permits, features, constraints and their tickets | configure_*, migrate, refresh_position_config, register, close, admin_transfer_position, constraints | modelled in part, proved |
| metadata | `metadata/src/lib.rs` | entries of a mint | create_entry, set_entry | modelled in part (in `Environment`) |
| airspace | `airspace/src` | governor, authority, pending transfers, issuers, permits | create, propose, cancel, finalize, license, issue, revoke | modelled, proved |
| transaction builder | `src/libraries/rust/margin/src/tx_builder`, `refresh`, `src/libraries/rust/instructions/src` | none of its own; reads the chain | deposit, borrow, repay, withdraw, swap, close, liquidate, refresh | modelled in part, proved |
| transaction packing | `src/libraries/rust/solana-client/src/{transaction,lookup_tables}.rs` | builders condensed so far | condense, optimise tables, compile, sign | modelled in part, proved |
| sending and retrying | `src/libraries/rust/{solana-client/src/rpc.rs,margin/src/solana,margin/src/util,client/src/client.rs}` | transactions under way, queues, log | submit, poll, send in order or at once, queue, retry | modelled in part, proved |
| environment builder | `src/libraries/rust/environment/src/builder` | plan of instructions, proposals | configure an environment, permits, tokens, pools; propose | modelled in part, proved |
| oracle prices | `margin-pool/src/instructions/margin_refresh_position.rs` | price of each position | refresh | not modelled: a price is an input of the models |
| lookup tables | `margin/src/instructions/lookup_tables` | addresses in an external registry | create, append | not modelled: decides nothing |
| program-common arithmetic | `src/libraries/rust/program-common/src` | none | fp32, interest pricing, valuation sums | not modelled |
| test service | `test-service/src` | faucet, mock oracles and swap | token_create, token_init_native and if_not_initialized in `Environment` | only what the builder uses |
| wallet and caches of the client | `src/libraries/rust/client/src` | cached accounts, a wallet connection | load, notify | not modelled |
| simulation, tools | `src/libraries/rust/{simulation,tools,...}` | | test runtime, command lines, generated code | not modelled |

How they interact. The margin program invokes adapters (the pool is one) on
behalf of an account; an adapter changes token accounts and returns position
changes (prices, flags, registrations) that the margin program applies. Pools use
notes: a deposit note is a collateral position, a loan note a claim position of a
margin account. A position copies parts of its token's configuration. Permits issued
in the airspace let a key liquidate or refresh; permits of the margin program too.
Liquidators act through `liquidator_invoke` under limits kept in a liquidation
account; pool instructions can also be used without a margin account. The builder
turns an operation into groups of instructions, packing merges the groups into as few
transactions as fit, sending lands them in order or all at once; the environment
builder does the same for the airspace authority, by itself or through a multisig.

What makes each part correct, and what is hard about it:

- *Position registry.* The key array and the slot array have to stay in step and
  sorted through any sequence of additions and removals, a key held by a caller
  has to stay good, and a full list must fail rather than overflow.
- *Lending pool.* Fixed-point arithmetic with a rounding direction for each
  action: no order of operations may let note holders lose value, leave debt
  without notes or notes without debt, or make a conversion panic; the counters
  have to agree with the token accounts; a pool that is behind on interest has to
  catch up before it is used.
- *Liquidation.* Limits fixed at the start must bound the sum of all later steps;
  fees are set off against losses; the owner gets the account back whatever the
  liquidator does; two liquidators, a timeout, a revoked permit, a closed and
  reopened account, an expired price and the owner's own transfers interleave.
- *Valuation.* Stale collateral is dropped, a stale claim is an error, a past-due
  claim makes the account liquidatable: the three have to fit together.
- *Invocation.* Calls nest, an adapter may call the margin program again, and the
  return data is one global slot: what is applied must be what the adapter just called
  wrote for this account, and only the owner's signature registers a position.
- *Configuration.* Positions and accounts copy parts of a configuration that changes
  under them, is migrated, and is restricted by features and adapters' constraints.
- *Airspace.* Who may grant what, what a grant is worth after its grantor has lost
  the right, and that an office can always change hands.
- *Transaction builder.* It decides from accounts it read which accounts to create;
  what it returns must land on those accounts, and must not lose tokens on others.
- *Packing.* Merging by estimated sizes from either end must keep order, signatures and
  the size limit, and the search must end.
- *Sending.* A confirmation may fail although the transaction lands. Nothing may be sent
  before what it depends on, nothing lost, and a retry may repeat only what is in doubt.
- *Environment builder.* Two operators, crashes, partly executed plans and proposals that
  are executed late must lead to the description and not away from it.

The 40 hazards this gives are listed in `PROJECT.json`, each at its line. A hazard whose
properties cover it only in part, or that the code does fall into, has a note that says so.

## 2. Modules

| module | stands for |
|---|---|
| `PositionMap` | what the registry promises: a bounded map from mint to position |
| `PositionList` | the registry as written: `map`, `positions`, `length`; implements `PositionMap` |
| `PositionListProofs` | its proofs |
| `FixedPoint` | `Number` and `Number128`: truncating products and quotients, rounding, saturation, the series for interest and the interpolation |
| `MarginPool` | one pool, its token accounts, its users and the clock |
| `MarginPoolProofs` | its proofs |
| `Liquidation` | one margin account, its valuation and the liquidation protocol |
| `LiquidationProofs` | its proofs |
| `Airspace` | the airspace program: governor, authority, licences, permits |
| `MarginConfig` | configurations, permits, features and constraints, and what accounts copy of them |
| `GovernanceProofs` | the proofs of `Airspace` and `MarginConfig` |
| `Invocation` | adapter calls on the runtime's call stack, and what is applied of their results |
| `InvocationProofs` | its proofs |
| `TxBuilder` | the builder of a user's and a liquidator's transactions, with the chain moving under it |
| `Packing` | condensing, lookup tables, compiling and signing |
| `TransactionProofs` | the proofs of `TxBuilder` and `Packing` |
| `Sending` | sending, confirming, ordering and retrying over an unreliable network |
| `Environment` | the environment builder composed with the programs it configures; uses the rules of `MarginConfig` |
| `SendingProofs` | the proofs of `Sending`, and of what `Environment` plans and sends |
| `RecursionTheorems` | induction over sets of naturals, what folds, sums and flattened sequences yield |
| `MC_*` | the instances TLC checks |

**PositionList.** A public key is a natural number, the default key is 0. `SortPrefix`
is the stable sort of the used keys, `RemoveEntry` is `copy_within` and the zeroing
of the last key, `FirstFree` the search for a slot. `RegisterPosition` stands for
`MarginAccount::register_position`, with the limit `MAX_USER_POSITIONS` that a
liquidation lifts; registering a mint that is already there returns its key and
changes nothing. `UnregisterPosition` checks address, balance and the REQUIRED flag.
The refinement to `PositionMap` maps each registered mint to the position in its slot.

**MarginPool.** `pool` is the account in `state.rs`, with `borrowed` and `fees` as
fixed-point numbers and the rest as integers; `vault`, `wallet`, `deposits`, `loans`,
`feeNotes`, `feeTokens` are what the token program holds. `AccrueInterest` is the
first thing almost every handler does; a handler that may only run on an up-to-date
pool is guarded by `UpToDate`, and `Collect` has the branch that accrues one week and
stops. `FromTokens`, `FromNotes` and `RoundsUp` are `convert_amount` and the table of
rounding directions; `TokensToMove` is `calculate_full_amount` with its three kinds
of request. `RateDefined`, `LoanRateDefined` (a division by a rate that was truncated to
zero) and `AccrualDefined` are the places where the code panics. A user is a wallet and its margin account at once: whether the margin
program would allow the operation is not decided in this module, so it admits more
behaviours than the composed system.

**Liquidation.** `account` is the `MarginAccount`, `liquidation[l]` the
`LiquidationState` at the address derived from the account and the liquidator, `permit`
the liquidators with LIQUIDATE. `InvokeMany` and `Invoked` say what adapters can do in
an invocation: a swap of collateral, a net repayment or loan that moves the borrowed
token and the claim together, new quotes, and opening or closing the claim position.
Times are replaced by what the guards ask of them: has this price expired, has this
liquidation timed out. `trail` is a history variable that no action reads: the
equity each liquidation lost, the value of its fees, what it was paid, and whether
anybody else has touched the account since it began.

**Airspace.** One airspace; others live at addresses of their own. A signature is the
parameter `signer`, and the zero key, which cannot sign, is `NoOne`. An account that
does not exist is a record with `exists` false, or `NoOne` in `permits`. The history
variable `entitled` collects the keys that have been the authority or licensed.
The builds for testing, which let anyone become the governor, are not modelled.

**MarginConfig.** `config` holds the `TokenConfig` of each mint, in its old or its new
layout, `account` the positions with the copied adapter, kind, modifier, staleness and
features, `ticket` the `AccountConstraintTicket`. Bit flags are sets of names; the bit
that means RESTRICTED in a token and VIOLATION in an account has two names. The checks of
`configure_token` are one operator each, because `Environment` uses them too. The
authority's signature is the environment's choice to act. Liquidation is left out.

**Invocation.** `stack` is the runtime's call stack, one frame per program call; a frame
of the margin program knows its account, whether the owner signed and which adapter it
waits for. `mark` is the set of heights in `Invocation::caller_heights`, `ret` the
runtime's return data with the program that set it. The runtime is external and modelled
from what `util.rs` and `adapter.rs` rely on: only direct re-entry, return data cleared by
every call. Balances and prices are reduced to whether a position is registered, required
and priced.

**TxBuilder.** `chain` is the token accounts of the margin account, the owner and the
liquidator, the registered positions with the balance the margin account has cached, and
which positions are fresh. `Build(chain, o)` is the builder: it returns the transactions
for operation `o` as sequences of instructions. `Execute` is what each instruction needs and
changes, much reduced. Tokens and notes trade one for one. A built transaction waits in
`pending` while other sessions' (`Racing`) land.

**Packing.** An instruction is a size and the accounts it names, a builder the
instructions that stay together and its keypairs. `condense_left` and
`find_first_condensed` are loops over estimates; their iterations are steps. The size of a
transaction counts the data of its instructions, each account that is in no selected table,
and each table that is used.

**Sending.** A behaviour uses one of four senders. Each call of `send_and_confirm` has what
the network did (`unsent`, under way, landed, lost) and what the client has seen of it;
the two move independently, so that a client may give up before its transaction lands. The
queue processor's steps are those between which other tasks run: pop, spawn, start, push to
the retry queue. `accepted`, `applied`, `doubts`, `owed` and `since` are history variables.

**Environment.** `op[o]` is an operator: the description it started from, the builder with
its groups, and how far it is. Each `configure_*` function that reads accounts is a step
(`ReadStage`) that plans instructions from what it reads; `SendSetup` and `SendGroup` send
them transaction by transaction, or `SubmitProposal` proposes them, and a multisig executes
the proposals later and in any order (`ExecuteProposal`). `Crash` and a failing transaction
end a run part way. `Refused` is where a function of the builder returns an error (another
network, no mint on the main network, no decimals for a test token) or panics (feed ids
that are missing or cannot be read, feature bits that do not exist); either ends the run
before anything is sent. What instructions do is stated over one `chain`; the checks of
`configure_token` come from `MarginConfig` by INSTANCE. A test token is created with its
mint, except for the one with the symbol SOL, whose mint is the native one and for which
`token_init_native` creates only the test service's own account (`infos`).

## 3. Runs

| run | instance | properties |
|---|---|---|
| `position_list` | 4 mints, 3 slots, user limit 2, 2 addresses | `MapSorted`, `KeysMatchSlots`, `FreeSlotMeansRoom`, `StableSlots`, `RefinesPositionMap` |
| `margin_pool` | 2 users, accruals of a week, two configurations | `BooksBalance` (`BooksMatchLedger`), `Solvent`, `NotesBacked`, `DebtHasNotes` (`LastNoteLeavesDust`, `LoanNotesAreOwed`), `SharePriceKept` |
| `pool_emptied` | 1 user | `EmptyPoolHasRate`, refuted |
| `liquidation` | 1 liquidator, a collateral with two prices that expires | `FeesAreEarned` (`FeesNetOfLoss`), `CostBounded`, `LiquidationHelps` |
| `liquidation_ends` | 2 liquidators, one token, flags, constraints, one closing, fairness | `LiquidatingHasState`, `LiquidationEnds` |
| `airspace` | 3 keys | `ProposalIsCurrent`, `RestrictedPermitsWereGranted` |
| `margin_config` | 2 accounts, 2 tokens, 2 adapters, a refresher; 340,832 states | `PositionsAreConfigured` (`PositionsFollowConfig`), `FeaturesAgree` (`AccountsHoldTheirKind`, `UnmarkedAccountsUnrestricted`), `ConstraintsHaveATicket`, `ConstraintsStayWithTheirAdapter` |
| `invocation` | 2 accounts, 3 mints, a trusted and an untrusted adapter, 4 stack frames; 654,777 states | `OnlyCallsAreMarked` (`MarksAreActiveInvocations`), `AdaptersChangeTheirOwn` (`ResultsReachTheirAccount`, `OthersPositionsUntouched`), `RegistrationIsSigned` |
| `tx_builder` | a collateral and a borrowed token, owner, liquidator, one racing session; 194,085 states | `AccountsAreCounted` (`TxBuilderTypeOK`, `PositionsAreOwn`, `DerivedAccountsAreCounted`), `BuiltTransactionsWork` (`FreshTransactionsLand`, `EverythingIsRefreshed`), `FreshDepositsAreCounted`, `SwapKeepsBalances` |
| `packing` | up to 4 builders of 6 shapes, with and without a table, fairness; 13,415 states | `InstructionsKept`, `CondensedIsOptimal` (`FewestTransactions`, `EndIsFullest`, `CompiledFits`), `TransactionsAreValid` (`MergedFit`, `CompiledIsSigned`), `CallsReturn` |
| `sending` | a list of 3, 2 queued items, 2 faults, 2 polls, fairness; 261,420 states | `ListsLandInOrder` (`LandedIsPrefix`, `OkMeansLanded`, `LogHoldsLanded`), `QueuesHoldAll` (`NothingLost`), `DuplicatesAreLate`, `WorkIsAnswered` (`ListAnswered`, `QueueServed`) |
| `environment` | 2 operators, 8 scenarios, direct and by proposals; 391,392 states | `PoolsAreComplete` (`PoolsHaveMetadata`), `CleanRunsSucceed` (`CleanRunReachesTarget`, `CleanRunFailsOnlyIfIllegal`), `NothingLeftToDo`, `ConfiguredStaysConfigured` |

A property that is a conjunction is followed by its named parts; `BooksBalance`,
`FeesAreEarned`, `PositionsAreConfigured`, `OnlyCallsAreMarked`, `TransactionsAreValid`,
`QueuesHoldAll` and `PoolsAreComplete` have their module's `TypeOK` as a further part. The
type invariants of `PositionList` and `Airspace` are proved (section 5) and not checked
again; neither is `GovernorProposalStands`.

**What they show.** *position_list*: every order of registering and closing on a list
that fills up, empties and lets a liquidation exceed the user's limit. With four mints
for three slots every insertion place (first, middle, last), every removal place and
every fragmentation of the slots occurs, and the list is full with a mint left over.
*margin_pool*: users deposit, borrow, repay for themselves and for each other and
withdraw, with every rounding, partial accrual, a disabled pool, changed rates, and fees
collected and paid out; the counters agree with the token accounts, no note holder loses
more than the rounding the code allows, a loan note always stands for some debt, and what
the last one leaves is less than a unit of the `Number` for each note.
*liquidation*: a liquidator that swaps fairly or at a loss, repays, lends,
collects and ends, while the owner transfers and prices move and expire; the cost
properties are sums over the whole liquidation. *liquidation_ends*: two liquidators
compete while permits, flags and constraints change and the account is closed and
created again; only the account's liquidator field decides between two liquidation
accounts. *airspace*: three keys, so that an authority, its successor and an issuer
are all different, in every order of handover, licence, permit and revocation.

*margin_config*: a token whose features change from the old layout on, a token whose
adapter and kind are contested, accounts that accept one kind of token only and that are
closed and created again, and two adapters that constrain them. What a position copied
never contradicts the configuration it was copied from, although both change.
*invocation*: every nesting of up to four frames, including the margin program as an
adapter of its own account and of the other one, with results written in every frame the
code allows. *tx_builder*: whatever accounts a history of operations has left (positions
with associated or derived accounts, none, registered and empty), what the builder returns
for a call that makes sense lands, provided nothing lands in between; and with
another session's transaction in between, debts and notes in derived accounts stay
counted. *packing*: the search by estimates is as good as trying all divisions, from both
ends. *sending*: two faults at any two places of a submission, a poll, a spawned batch or
an answer. *environment*: a fresh local network, airspaces in old layouts, the native token
on both kinds of test network, descriptions that are refused, for each reason there is, or
change while a run is under way, and proposals of two runs executed in any order.

**Bounds and scaling.** `One = 100` gives fixed-point numbers two decimals instead of
fifteen (`Number128`: ten), so that truncation shows within a few steps and not at
the fifteenth digit. The pool's year has 14 days and its rates are up to 200 %, the
limit the code accepts, so that a week's interest is visible; `Amount`, `WalletTokens`,
`TimeStep` and `MaxTime` bound requests, tokens and time. In `Liquidation`,
`MaxLossBps` (500) and `Leverage` (400 %) are in the range the programs use;
`MaxLossConstant`, `IncreaseBps` and `FeeBps` (100 %) are scaled so that with balances
up to 2 a fee of at least one token can be earned and a limit can be hit; `FeeSlots = 1`
(the code has 6) lets the slots run out. `Trade`, `Repayment`, `FeeMint`, `Requoted`,
`Expiring`, `PastDueFlag` and `Constraint` bound what adapters and the environment do
in a run; `MaxGain` cuts off invocations that make a present to the account;
`MaxBalance` and `MaxClosings` bound counters.

In `MarginConfig`, `Update`, `OldLayout`, `AccountFeature` and `ConstraintSet` are the
inputs, chosen so that every check is passed and failed. `MigrateAgain = FALSE`: a
configuration in the new layout is not migrated again. That is a real restriction: the
code allows it, the second migration clears the features, and `AccountsHoldTheirKind` does
not survive it (section 4). `Invocation` needs four frames: a caller, the margin program,
an adapter, and the margin program or an adapter again; `Result` has a registration, a
closing, a price for another adapter's position and two changes in one result. In
`TxBuilder` one token of collateral and one of debt are enough for every account to be
missing, empty and used; `Racing` are the operations that create or close what another
operation reads. In `Packing` sizes are scaled (a key has 4 bytes, a transaction 36), so
that one to four builders fit; `MaxAttempts = 3` (20) and `PerfectLimit = 2` (10) make
both limits bite; at most one lookup table is given, because the code errs with two
(section 4). In `Sending`, `MaxFaults = 2` (one fault leaves a retry nothing to fail),
`MaxPolls = 2` (120), `BatchSize = ChunkSize = 1`, so that two items are two batches, and
`MaxPushes`, `MaxSpawned` bound the queue's users and tasks. In `Environment` each scenario
has its own number of runs and of changed descriptions.
None of the assumptions of the modules fixes these values, and the proofs hold for all of
them. Symmetry is over the users of `margin_pool`, the keys of `airspace` other than the
protocol's governor, the accounts of `margin_config` and `invocation`, and the operators
of `environment`; no liveness property is checked with it.

**Fairness.** `liquidation_ends`: time passes (`TimesOut`), and the
owner ends a liquidation that has timed out. The code justifies the second:
`liquidate_end` takes any signer as authority once the timeout has passed, and needs
nothing but the account and its liquidation account. Nothing is assumed of the
liquidator. `packing`: the steps of a synchronous function are taken. `sending`: every task
the executor holds is polled again, and a transaction that the network has and does not drop lands.
Faults are bounded, so that `QueueServed` is about a network that stops failing; nothing
makes it stop soon. Nobody is assumed to push, and no operator is assumed to run the
builder: `environment` has no liveness property.

`CHECK_DEADLOCK FALSE` is set where the system may really stop. The pool runs: time
is bounded and a pool with empty wallets has nothing to do. `airspace`: a governor who has
proposed the zero key, in an airspace whose authority is the zero key, leaves no
instruction that succeeds. `invocation`: a step that fails aborts its transaction, which is
a behaviour that ends there. `tx_builder` and `environment`: clients stop when their bounds
are used up. `sending`: a list call returns, and an idle queue with no more pushes waits.

Each property of a passing run has one or more mutants (a conjunction one for most of its
parts), operators next to the definition they change, under which TLC finds the property
violated.

## 4. Where code and comments disagree

One statement made in a comment is refuted by a run:

- `EmptyPoolHasRate` (`pool_emptied`): *"If the pool is only left with uncollected fees
  (deposit notes = 0), then the deposit note exchange rate is 1."* The last withdrawal can
  take a fraction of a token of the fees, because the quotient that is to be rounded up in
  favour of the pool is truncated first; `total_value - uncollected_fees` then
  underflows and every conversion panics. How much a truncated quotient can cost the
  other holders is what `SharePriceKept` bounds.

The others were seen while the code was modelled. They have no run of their own; where one
limits a property or an instance, it says so. Paths are under `src/programs/margin/src` or
`src/libraries/rust` unless they are obvious.

On chain:

- *"The total amount of tokens available in the pool's vault"* (`deposit_tokens`):
  `withdraw_fees` does not write the pool. `BooksMatchLedger` and `Solvent` say what holds.
- *"The account will be considered unhealty if there is any balance on this position"*
  (PAST_DUE): `verify_healthy` does not look at the flag.
- *"...preventing the owner from taking any action"* (`liquidate_begin`):
  `transfer_deposit` and `close_account` do not look for a liquidation.
- *"Requires the account already be in the liquidation state"* (`liquidator_invoke`): the
  liquidation account can outlive the margin account, which can be created again.
- *"The cumulative amount of equity lost during liquidation so far"*: an invocation that
  only refreshes an expired price lowers it.
- `refresh_position_config.rs` expects the VIOLATION flag to go when the account is in
  order again; `state/account.rs` 645-681 returns early when no position has features, so
  the flag of an account emptied of them stays. `UnmarkedAccountsUnrestricted` is
  therefore stated in one direction only.
- The documentation of `PositionChange` (`adapter.rs` 81-89) describes changes to missing
  positions as ignored; `apply_changes` returns an error for some of them.
- Migrating a token configuration a second time clears its features, which may then be set
  to others than the accounts that hold the token accept (`MigrateAgain`).

In the clients:

- A deposit built while the position does not exist goes to the associated account;
  if another session registers the derived account first, the notes are minted where the
  margin account does not count them (`invoke_pool.rs` 17-19, 116-120). Hence
  `FreshDepositsAreCounted` is about transactions with nothing in between, and
  `DerivedAccountsAreCounted` about derived accounts.
- `tx_builder/user.rs`: a liquidator's builder unwraps a fee mint its documentation calls
  optional (1283-1288); `close_pool_position` closes the derived account although
  `pool_deposit` registers the associated one (320-356); `swap_and_repay` creates no
  associated accounts of the margin account, subtracts the fee from the amount without a
  check and uses the balance read when it was built; `collect_liquidation_fees` fails
  without a deposit position; a token sent to an empty position makes
  `close_empty_positions` fail. `Sensible` excludes these calls. A swap deposits what its
  accounts hold beyond the balance read when it was built (678), and with it whatever
  arrives in between: `SwapKeepsBalances` is about transactions with nothing in between.
- *"guaranteed to be optimal"* (`lookup_tables.rs` 3-5, 28): intersections are numbered
  after useless tables are filtered out, so with two tables the wrong one may be selected
  and a transaction that fitted no longer does.
- `condense`: one group that is too large by itself makes the whole request be sent as it
  came, and so does a request that needs exactly as many transactions as there are attempts.
  `FewestTransactions` excludes both. `MAX_TX_SIZE` is compared with the length in base64.
- `send_ordered` loses the signatures of what has landed when a later confirmation fails in
  the same call; `StaticQueueProcessor::process_all` discards the errors of batches;
  steady pushing keeps the retry queue from being served; `airdrop` polls without bound.
- The environment builder never grants or removes OPERATE_VAULTS, and never removes adapters
  or changes `is_restricted`. Proposals executed late undo newer configuration (permits,
  features after a second migration, metadata); `ConfiguredStaysConfigured` assumes that
  what is outstanding follows the description and migrates nothing. A token whose features
  may not be changed as described stops everything planned after it. `migrate` names the
  builder's payer, not the proposal's.
- `client/src/margin.rs` 302-416 seems to invert the check whether a lookup table needs
  updating; `tools/src/lookup_tables.rs` relies on the first address of a set with no
  order. Neither is modelled.

## 5. What is proved

All proofs are for every value of the constants that satisfies the modules' assumptions,
and those assumptions are evaluated by TLC on every instance. Each module has one inductive
invariant; the theorems named below are consequences of it. Of the 40 properties of the
passing runs 32 are theorems.

`RecursionTheorems`. The models use recursive functions (a push of many items, the result
of an adapter, the series for interest) and sums over finite sets (holdings, valuations).
The provers cannot instantiate an induction rule that takes an operator, so induction is
stated with a set (`SetInduction`, `SubsetInduction`), and from it that a fold over a
sequence exists (`FoldIsDefined`) and that a sum over a finite set exists, is unique and
changes with one summand as it should (`SumIsDefined`, `SumIsUnique`, `SumAfterChange`).
Plans and transactions are sequences joined from many parts: lemmas say what reversing,
joining and flattening yield (`ReverseConcat`, `FlattenConcat`, `FlattenElements`,
`FlattenTurned`), and, for sequences over whatever elements they have, where the elements
of a part come from (`SeqConcat`, `SeqFlatten`, `SeqParts`). A
proof about a recursive definition shows that the recursion equation has a solution, hence
that the chosen function is one, and then runs the induction over the set of indices up to
which the claim holds.

`PositionListProofs`. `IndInv` is `TypeOK`, `MapSorted` and `KeysMatchSlots`. None of the
three is inductive alone: the sort after an insertion gives a strictly ascending map only
if the new mint is in no key, which the scan of the whole array shows only if the unused
keys are zeroed; a removal keeps keys and slots in correspondence only because distinct
keys have distinct mints, hence distinct slots (`DistinctIndexes`). `SortPrefixSorts` shows
that the sorting permutation exists and what it yields; `InjectionIsOnto` and
`InvImpliesRoom` are the counting arguments: with `Capacity` keys in use no slot is free.
From `IndInv` follow `KeysStaySorted`, `KeysStayInStep`, `AddNeverOverflows`, the action
property `SlotsAreStable`, and `ListImplementsMap`: every step of the arrays is, under the
refinement mapping, a step of `PositionMap` or leaves it unchanged.

`MarginPoolProofs`. `IndInv` is `BooksBalance`, that only accepted configurations are in
force (else the interest could be negative), `NotesBacked` and `LoanNotesAreOwed`. The
argument is about one step on the books, `BooksStep(p, q)`, which every handler makes one
or two of after accruing: it is *fair*, that is, what the remaining notes lose against the
rate before it is less than that rate's number of tokens, in units of the `Number`; and debt
is gone only with its notes. A pool that loses a little at each withdrawal still backs every
note, because a rate is at least one: at exactly one a fair step loses nothing, and above it
the loss is no more than the excess over one (`FairIsBacked`). Bounds on truncated
products and quotients (`NotesRoundedDown`, `NotesRoundedUp`, `RatePerNote`) and the
natural-valued series (`SeriesIsNatural`, `Accrual`) carry it. Theorems:
`BooksAlwaysBalance`, `NotesAlwaysBacked`, `SharePriceIsKept`, `DebtAlwaysHasNotes`.

`LiquidationProofs`. `LiquidatingKeepsState`: an account with a liquidator has that
liquidator's liquidation account, the safety half of `LiquidationEnds`. For the costs,
`IndInv` links the history `trail` to the state the code keeps: `Booked` says that
`equity_loss` is the loss of the invocations that the fees have not made up for, that
nothing is paid before `is_collecting_fees` is set, and that the loss stays within the
maximum; `Helped` that `collateral_change` is the difference to the opening valuation until
the first fee, and that the account is healthy from then on. `FeesNetOfLoss` alone is not
inductive, because the next fee is set off against `equity_loss` and not against the
history. Valuations are sums over positions (`ValuationIsTotal`), so a step that moves one
position changes one summand. Theorems: `PaidIsEarned`, `CostIsBounded`,
`LiquidationLeavesNoLess`. The assumptions are that weights are at most 100 %, prices are
positive, tokens are finitely many, and a claim has a leverage that does not truncate to
zero (a claim without one saturates in the code and is not modelled).

`GovernanceProofs`, the airspace. `AirspaceInv` adds to `AirspaceTypeOK` and the invariants of the run that whoever may
issue permits now is on record (`IssuersOnRecord`): without it a permit issued by a
licensed key could come from a key nobody entitled. From it follow `ProposalsStayCurrent`,
`PermitsAreGranted` and the action property `GovernorProposalsStand`.

`GovernanceProofs`, the margin configuration. `IndInv` says what a configuration that a position will copy looks
like and what an existing one keeps for good (kind and admin), that every position agrees
with it in these, and `ConstraintsHaveATicket`. Theorems: `ConfiguredPositions`,
`TicketsMatch`, the action property `ConstraintsKept`, `UnmarkedUnrestricted`.
`AgreedFeatures` has the hypothesis `~MigrateAgain`, and needs it: a second migration
clears the features of a token that accounts hold (section 4). All the others are for both
values.

`InvocationProofs`. `IndInv` adds to `OnlyCallsAreMarked` that a frame waiting for a callee
is a marked frame of the margin program (`WaitingFrames`), that a frame which counts as
signed was (`SignedFrames`), and that return data of a trusted adapter was written one
frame above a frame of the margin program for that frame's account (`DirectResults`):
return data is global, and without the last conjunct a result could be another call's.
What a whole result does to a position is a fold over its entries and changes
(`ChangeEffect`, `EntryEffect`, `AppliedEffect`). Theorems: `MarkedByCalls`, and the action
properties `OwnChangesOnly` and `SignedRegistration`.

`SendingProofs`. `IndInv` says of each attempt what the client's knowledge implies about the
network (`AttemptOK`: not sent is not under way, confirmed is landed, landed took effect),
of a list that attempt k is for entry k and, in order, all but the last are confirmed, and
of the queues that an item pushed since it was last taken is still queued. The last is what
`NothingLost` needs: a confirmation of an earlier attempt settles an item only if it was not
queued again. The steps of an attempt are shown to be instances of one relation, `Moves`.
For `DuplicatesAreLate` the invariant is a balance for each item: the times it took effect,
plus its places in the two queues, plus the attempts that may still take effect, never
exceed the times it was queued plus the doubts. Lemmas say what a push, a pop, a reversal,
chunking and dropping finished attempts do to the items (`PushAllHolds`, `PopSplits`,
`ReverseContains`, `ChunksHold`, `KeptAttempts`) and to the number of attempts
(`CountAppend`, `CountChange`, `CountConcat`). Theorems: `ListsAgree`, `NoItemIsLost`,
`DuplicatesAreDoubted`. None of the bounds of the run is used.

`SendingProofs`, the environment. A plan may be executed long after it was made, over accounts
that others have changed since, so the invariant cannot speak of the accounts a plan was
made from. `EnvironmentInv` says that every plan, setup and proposal consists of instructions
of the builder (`IsPlanned`: each but a migration sets what the description it was planned
from has, a note's metadata is only replaced by an entry that exists, a pool is one of a
token of the airspace), and that the accounts are well formed, pools complete. Each instruction that a program accepts keeps the accounts so (`EffectOK`),
from every such state and whatever was planned before it, hence so does a transaction
(`TransactionOK`, over the recursion), from which all or nothing is kept. The other half is
that everything the builder's functions return has that shape (`ProposedOK`, `FilterOK`,
`PermitsOK`, `PoolOK`, `StageProposalsOK`), which is where entries read from the chain come
in: a note's metadata is migrated only because a pool that exists has it. That plans follow
their description makes them idempotent: an accepted instruction changes nothing of accounts
that match the description already (`EffectKeeps`; a pool is not created a second time, and
what `configure_pool` and `configure_token` write is there), hence neither does a
transaction (`TransactionKeeps`) nor a step (`StepKeeps`). Theorems:
`PoolsAreAlwaysComplete`, `ConfigurationStays`. Assumed of a scenario: what `ScenarioAssumption` says, that it starts
from well-formed accounts with complete pools, that descriptions name tokens of the
airspace and that the native mint exists; keys that may hold a permit are finitely many.

`TransactionProofs`, packing. `PackingInv` says of a call of `condense` that the groups
found so far, joined with the builders that are left, are the list that was given, turned
round if the search goes from the right (`LineKept`); that every group that was merged fits
(`Sendable`); and of a search that the longest prefix known to fit does fit, and the next
length to try lies between the bounds (`SearchInv`). The argument from the right needs that
reversing a list of lists and its lists reverses what it flattens to
(`DeepReverseProperties`), and that the size of a transaction does not depend on the order
of its instructions (`ReverseFits`). Signatures: a builder that has the keypairs of its
instructions keeps them when it is joined, and pruning drops only keypairs no instruction
names. Theorems: `InstructionsAreKept`, `TransactionsAreAlwaysValid`. Assumed: a transaction
without instructions fits, and each builder carries the keypairs its instructions need.

`TransactionProofs`, the builder. `TxBuilderInv` is that the chain is at rest and that every
transaction that waits consists of instructions the builder makes (`IsInstruction`). `AtRest`
joins what the accounts must satisfy together: the derived accounts are counted
(`CountedBut`), the flags of a liquidation agree (`Sound`), and the accounts are
`Balanced`: the sum over the tokens of what all accounts of a token hold, less what is owed
in its loan account, plus `MaxLoan`, is the same `Ceiling` in every state. Where the code
mints notes it takes tokens, and where it lends it records a debt, so `Ceiling` bounds every
single balance (`BalancedBound`); without the sum the bound of `TxBuilderTypeOK` is not
inductive, because a transfer credits one account by what only another's balance bounds.
Each instruction keeps the accounts in order from every state that is, not only from the
one it was built for (`ExecuteInOrder`); an invocation of several pool instructions is
counted but for the accounts it touched, until the margin program reads these back at its
end (`InvokeManyIntact`). That all twenty operations return such instructions is
`BuildSteps`. Theorem: `AccountsAreAlwaysCounted`. Assumed of an operation: an amount is a
natural number, an authority is the owner's or the account's, and so on for its other arguments
(`OperationAssumption`).

`TransactionProofs`, a swap. The transaction that waits is not related to the chain it was
built from by `TxBuilderInv`; `SwapIsCurrent` adds that a swap with nothing landed since is
the one that would be built now, which bringing balances up to date does not change because
`margin_swap` reads positions and balances only. The instructions before the invocation
create accounts and register them, and change no balance that the builder counts
(`PreparedRun`: a missing account and an empty one are worth the same). The invocation is
followed instruction by instruction: each one that succeeds moves what it says between two
accounts (`Paid`), so that the deposit takes what the swap left above the balance read, the
repayment takes the rest, and the repayment is not cut off at the debt because what is left
of a loan is never more than was borrowed (`SwapBalances`). This also holds when a token is
swapped for itself. Theorem: `SwapsKeepBalances`, for any amounts borrowed and taken.

`TransactionProofs`, notes. `BuildSteps` also says where the instructions of an operation may
pay deposit notes to: only into the accounts of a set `PaidNotes` that the builder chose from
the chain (`Aims`), and only an operation that pays none closes a position. `KeepsNotes` is
what is carried through a transaction: notes minted since its start are counted, and notes
that were counted still are. An instruction keeps this if the associated accounts among those
paid are positions (`Standing`, `ExecuteKeeps`); the derived ones need no such condition,
since they are counted wherever they exist. A withdrawal or a repayment inside
an invocation takes notes away and only the read-back at its end counts them, so within an
invocation the claim is what has changed and which accounts will be read back (`Near`). The
builder's choice stands when it found a position; `pool_deposit` without one first creates the
associated account and registers it, and only then pays (`Opens`). `FreshIsGuided` keeps this
from the time a transaction is built to the time it lands: operations that return several
transactions pay no notes, and bringing balances up to date moves no position. Theorem:
`FreshDepositsAreAlwaysCounted`, for the session's own transactions and for those of others.

Only model-checked:

- the liveness properties `LiquidationEnds`, `CallsReturn` and `WorkIsAnswered`: liveness
  under fairness is beyond the proof system;
- `Solvent`. It is stated to within one token. `withdraw_fees` leaves its notes counted in
  the pool, at the rate of that time; every later withdrawal may lower the rate by units of
  a truncated quotient (`SharePriceIsKept` bounds one of them), and these add up over the
  behaviour. No bound that is independent of the number of withdrawals is inductive;
- `EmptyPoolHasRate` is refuted and has nothing to prove;
- `CompiledFits`, a part of `CondensedIsOptimal`. The sizes are compared for two choices of
  tables, and above `PerfectLimit` the choice is a heuristic: that one useful table is never
  worse than what was assumed holds for the lists of at most one table of the run and fails
  for more (section 4);
- `CondensedIsOptimal`, `BuiltTransactionsWork`, `CleanRunsSucceed` and `NothingLeftToDo`
  compare what a search, a builder or a planner computes with all that it might have
  computed, or ask that whatever was built succeeds, for every input: an induction over
  data through every operation, and for the search also that a longer group is never
  smaller, which the choice of tables does not guarantee.

## 6. What is left out

- In `PositionList`: prices, token metadata and valuation (in `Liquidation`), and the
  refusal of an existing mint at another address, which is a stutter.
- In `MarginPool`: `register_loan` and `close_loan` (empty loan accounts, in `TxBuilder`),
  the metadata part of `configure` (in `Environment`), note prices. Configurations with a
  first utilization threshold of zero or with rates above what `compound_interest`
  supports are accepted by `configure` and make the pool unusable (`util.rs` 57, 78); they
  are not among the configurations of the run. No property says at which rate a stretch of
  time is charged: `configure` sets new rates without accruing first, so that they apply to
  the time since the last accrual.
- In `Liquidation`: several claims, the saturation of a claim without leverage, price
  exponents, balance staleness and position metadata changes. The owner is taken to hold
  the airspace permit that `create_account` asks for.
- Oracle prices: the conversion of oracle quotes, confidence and redemption rates is not
  modelled; a price is an input. Pool and valuation are not composed: a borrow and its
  health check are in different modules.
- In `MarginConfig`: liquidation, valuation, `OPERATE_VAULTS` vaults. In `Invocation`:
  balances and health checks, and the signatures of adapters' own accounts.
- In `TxBuilder`: prices, health, the exact amounts of notes, and lookup-table
  registration; the reads of one builder function are one step. In `Packing`: compute
  budget instructions and the difference between legacy and versioned headers. In
  `Sending`: `with_retries` and the RPC server's own resubmission.
- In `Airspace`: `RestrictedPermitsWereGranted` asks that a permit's issuer was entitled at
  some time. That it still is when it issues one is the guard of the action.
- In `Environment`: `remove_entry`, descriptions with the symbol but not the name of SOL,
  test amounts and decimals so large that their product overflows, lookup-table registration, the order within the setup
  groups, swap and staking pools. All the builder's keys are the airspace authority's;
  on a local network the code uses the signer.
- The client's caches and wallet, the simulation runtime, the command lines and the
  generated code have no protocol state.
- Widths: no counter of the modelled instances comes near 2^64; overflow of the pool's
  192-bit numbers is not modelled.

## 7. Plan

Done: all modules of section 2, and the proofs of section 5. What could be added to the
proofs is `CompiledFits` of `Packing` for lists of at most one table.

Modelling that is left: note prices as operators, and the composition of `MarginPool` with
the valuation of an account.
