----------------------------- MODULE TxBuilder -----------------------------
(***************************************************************************)
(* The transaction builder of the client library (tx_builder/user.rs,      *)
(* invoke_context.rs, invoke_pool.rs, refresh/) over the instruction       *)
(* builders (instructions/src/margin.rs, margin_pool.rs), for one margin   *)
(* account used by its owner and by a liquidator.                          *)
(*                                                                         *)
(* A builder reads the chain, decides from what it reads which accounts    *)
(* and positions to create, and returns instructions that land later or    *)
(* never.  Between the two the chain moves: a transaction of another       *)
(* session, of the liquidator or of anybody may land first.  A transaction *)
(* is atomic: the first instruction that fails undoes it.                  *)
(*                                                                         *)
(* Prices, rates and health are not modelled: tokens and notes trade one   *)
(* for one, and a transaction the health check refuses is one that is      *)
(* dropped.  The handlers are modelled in the other modules; here each is  *)
(* reduced to the accounts, positions and balances it needs and changes.   *)
(***************************************************************************)
EXTENDS Integers, Sequences, SequencesExt, FiniteSets, FiniteSetsExt

CONSTANTS
    Token,       \* tokens with a pool
    Config,      \* the tokens that also have a TokenConfig of their own
    Supply,      \* bound: the tokens of each kind in the owner's wallet
    MaxLoan,     \* bound: the debt an operation may bring a loan to
    Operation,   \* bound: the operations clients ask the builder for
    Racing       \* bound: those another session lands while one waits

ASSUME TxBuilderAssumption ==
    /\ IsFiniteSet(Token)
    /\ Config \subseteq Token /\ Racing \subseteq Operation
    /\ Supply \in [Token -> Nat] /\ MaxLoan \in Nat

VARIABLES
    chain,       \* the accounts on chain
    pending      \* the transactions built and not yet landed, in order

txBuilderVars == <<chain, pending>>

(* A mint is a pool's token, its deposit notes or its loan notes.          *)
Of(t) == <<"token", t>>
Note(t) == <<"note", t>>
Loan(t) == <<"loan", t>>
Mint == {"token", "note", "loan"} \X Token

(* Token accounts: the margin account's associated account and the one     *)
(* derived for a position, the owner's wallet and the liquidator's.        *)
Account == (Mint \X {"ata", "pda"}) \cup ({Of(t) : t \in Token} \X {"wallet", "liquidator"})
associated_token_address(m) == <<m, "ata">>
derive_position_token_account(m) == <<m, "pda">>
derive_loan_account(t) == <<Loan(t), "pda">>
Missing == -1
NoAddress == << <<"none", "none">>, "none">>
NoMint == "None"
NoAmount == -1

Who == {"owner", "liquidator"}

(* The operations of MarginTxBuilder that are modelled.                    *)
OperationName ==
    {"create_account", "close_account", "pool_deposit", "pool_deposit_deprecated", "borrow",
     "margin_repay", "pool_repay", "withdraw", "margin_swap", "swap_and_repay",
     "close_pool_positions", "close_pool_position", "close_empty_positions", "liquidate_begin",
     "liquidate_end", "collect_liquidation_fees", "refresh_all_position_metadata",
     "create_deposit_position", "close_deposit_position", "transfer_deposit"}

(* Those that take an amount, somebody's authority, and a second token.    *)
WithAmount == {"pool_deposit", "pool_deposit_deprecated", "borrow", "margin_repay", "pool_repay",
               "withdraw", "margin_swap", "swap_and_repay", "transfer_deposit"}
WithAuthority == {"pool_deposit", "pool_deposit_deprecated", "pool_repay"}
WithSwap == {"margin_swap", "swap_and_repay"}

ASSUME OperationAssumption ==
    \A o \in Operation :
        /\ o.op \in OperationName /\ o.who \in Who /\ o.token \in Token
        /\ o.op \in WithAmount => o.n \in Nat
        /\ o.op \in WithAuthority => o.authority \in {"MarginAccount", "AccountAuthority"}
        /\ o.op \in WithSwap => o.to \in Token /\ o.take \in Nat
        /\ o.op = "swap_and_repay" => o.fee \in Nat /\ o.repay \in Nat \cup {NoAmount}
        /\ o.op = "close_pool_position" => o.kind \in {"Collateral", "Claim"}

-----------------------------------------------------------------------------
(* Instructions                                                            *)

create_ata(m, place) == [op |-> "create_ata", account |-> <<m, place>>]

register_position(who, m) ==
    [op |-> "register_position", authority |-> who, mint |-> m,
     account |-> derive_position_token_account(m)]

close_position(who, m, account) ==
    [op |-> "close_position", authority |-> who, mint |-> m, account |-> account]

create_deposit_position(who, m) ==
    [op |-> "create_deposit_position", authority |-> who, mint |-> m,
     account |-> associated_token_address(m)]

refresh_deposit_position(t) ==
    [op |-> "refresh_deposit_position", mint |-> Of(t),
     account |-> associated_token_address(Of(t))]

transfer_deposit(t, source, destination, n) ==
    [op |-> "transfer_deposit", mint |-> Of(t), source |-> source,
     destination |-> destination, amount |-> n]

update_position_balance(account) ==
    [op |-> "update_position_balance", account |-> account]

refresh_position_config(m) == [op |-> "refresh_position_config", mint |-> m]

create_account == [op |-> "create_account"]
close_account == [op |-> "close_account"]
liquidate_begin(who) == [op |-> "liquidate_begin", authority |-> who]
liquidate_end(who) == [op |-> "liquidate_end", authority |-> who]

collect_liquidation_fee(t) ==
    [op |-> "collect_liquidation_fee", token |-> t,
     source |-> associated_token_address(Of(t)), destination |-> <<Of(t), "liquidator">>]

adapter_invoke(inners) == [op |-> "adapter_invoke", inners |-> inners]
accounting_invoke(inners) == [op |-> "accounting_invoke", inners |-> inners]
liquidator_invoke(inners, fee_mint) ==
    [op |-> "liquidator_invoke", inners |-> inners, fee |-> fee_mint]

\* The builder's code panicked instead of returning an instruction.
Panic == [op |-> "panic"]

(* Instructions of the pool, invoked through the margin program.  signer   *)
(* is the account whose signature the instruction needs.                   *)

Shift(n) == [kind |-> "ShiftBy", tokens |-> n]
SetSource(n) == [kind |-> "SetSourceTo", tokens |-> n]
SetDestination(n) == [kind |-> "SetDestinationTo", tokens |-> n]

deposit(t, signer, source, destination, change) ==
    [op |-> "deposit", token |-> t, signer |-> signer, source |-> source,
     destination |-> destination, change |-> change]

withdraw(t, source, destination, change) ==
    [op |-> "withdraw", token |-> t, signer |-> "margin", source |-> source,
     destination |-> destination, change |-> change]

margin_borrow(t, destination, change) ==
    [op |-> "margin_borrow", token |-> t, signer |-> "margin",
     source |-> derive_loan_account(t), destination |-> destination, change |-> change]

margin_borrow_v2(t, destination, n) ==
    [op |-> "margin_borrow_v2", token |-> t, signer |-> "margin",
     source |-> derive_loan_account(t), destination |-> destination, change |-> Shift(n)]

margin_repay(t, source, change) ==
    [op |-> "margin_repay", token |-> t, signer |-> "margin",
     source |-> source, destination |-> derive_loan_account(t), change |-> change]

repay(t, signer, source, destination, change) ==
    [op |-> "repay", token |-> t, signer |-> signer, source |-> source,
     destination |-> destination, change |-> change]

margin_refresh_position(t) == [op |-> "margin_refresh_position", token |-> t, signer |-> "none"]

register_loan(t) ==
    [op |-> "register_loan", token |-> t, signer |-> "margin", account |-> derive_loan_account(t)]

close_loan(t) ==
    [op |-> "close_loan", token |-> t, signer |-> "margin", account |-> derive_loan_account(t)]

\* The swap instruction the caller passes in.
swap(from, to, n) ==
    [op |-> "swap", signer |-> "margin", source |-> associated_token_address(Of(from)),
     destination |-> associated_token_address(Of(to)), amount |-> n]

-----------------------------------------------------------------------------
(* What the instructions need of the chain and do to it                    *)

Require(s, condition, next) == IF s.ok /\ condition THEN next ELSE [s EXCEPT !.ok = FALSE]

Registered(s, m) == s.position[m] # NoAddress
Exists(s, account) == s.held[account] # Missing
HasConfig(m) == m[1] = "token" => m[2] \in Config
VerifyAuthority(s, who) == s.open /\ who = IF s.liquidating THEN "liquidator" ELSE "owner"

\* set_position_balance for the accounts that are positions.
SetBalances(s, accounts) ==
    [s EXCEPT !.cached = [m \in Mint |-> IF s.position[m] \in accounts
                                         THEN s.held[s.position[m]] ELSE @[m]]]

Place(s, m, account) ==
    [s EXCEPT !.position[m] = account, !.cached[m] = 0, !.fresh = @ \ {m}]

\* Adds n to a balance.
Credited(held, account, n) == [held EXCEPT ![account] = @ + n]

Transfer(s, source, destination, n) ==
    Require(s, /\ Exists(s, source) /\ Exists(s, destination)
               /\ n >= 0 /\ s.held[source] >= n,
            [s EXCEPT !.held = Credited(Credited(@, source, -n), destination, n)])

\* calculate_full_amount for the changes the builder asks for.
TokensToMove(change, source, destination) ==
    CASE change.kind = "ShiftBy" -> change.tokens
      [] change.kind = "SetSourceTo" -> source - change.tokens
      [] change.kind = "SetDestinationTo" -> change.tokens - destination

\* A repayment that would leave the source at an amount repays the loan at most.
TokensToRepay(change, source, debt) ==
    LET n == TokensToMove(change, source, debt)
    IN  IF change.kind = "SetSourceTo" /\ debt < n THEN debt ELSE n

\* Prices the positions of the pool that are registered.
MarginRefreshPosition(s, ix) ==
    [s EXCEPT !.fresh = @ \cup {m \in {Note(ix.token), Loan(ix.token)} : Registered(s, m)}]

\* Creates the loan account and returns the change that registers its position.
RegisterLoan(s, ix) ==
    Require(s, ~Exists(s, ix.account) /\ ~Registered(s, Loan(ix.token)),
            [Place(s, Loan(ix.token), ix.account) EXCEPT !.held[ix.account] = 0])

\* Closes the loan account, which the token program allows when it is empty.
CloseLoan(s, ix) ==
    Require(s, Registered(s, Loan(ix.token)) /\ s.held[ix.account] = 0,
            [Place(s, Loan(ix.token), NoAddress) EXCEPT !.held[ix.account] = Missing])

\* One instruction of the pool, as the margin program invokes it.
InvokePool(s, ix) ==
    CASE ix.op \in {"deposit", "withdraw"} ->
           Require(s, ix.op = "withdraw" => Exists(s, associated_token_address(Of(ix.token))),
                   Transfer(s, ix.source, ix.destination,
                       TokensToMove(ix.change, s.held[ix.source], s.held[ix.destination])))
      [] ix.op \in {"margin_borrow", "margin_borrow_v2"} ->
           Require(s, Exists(s, ix.source) /\ Exists(s, ix.destination),
                   [s EXCEPT !.held = Credited(Credited(@, ix.source, ix.change.tokens),
                                               ix.destination, ix.change.tokens)])
      [] ix.op \in {"margin_repay", "repay"} ->
           LET n == TokensToRepay(ix.change, s.held[ix.source], s.held[ix.destination])
           IN  Require(s, /\ Exists(s, ix.source) /\ Exists(s, ix.destination)
                          /\ n \in 0 .. s.held[ix.source] /\ n <= s.held[ix.destination],
                       [s EXCEPT !.held = Credited(Credited(@, ix.source, -n), ix.destination, -n)])
      [] ix.op = "margin_refresh_position" -> MarginRefreshPosition(s, ix)
      [] ix.op = "register_loan" -> RegisterLoan(s, ix)
      [] ix.op = "close_loan" -> CloseLoan(s, ix)
      [] ix.op = "swap" -> Transfer(s, ix.source, ix.destination, ix.amount)

\* Mutant: the liquidation's state outlives it.
KeptState(s) == [s EXCEPT !.liquidating = FALSE]

LiquidationEnded(s) ==
    [s EXCEPT !.liquidating = FALSE, !.collecting = FALSE, !.accrued = [t \in Token |-> 0]]

\* Mutant: no balance is read back.
NothingTouched(ix) == {}

\* The accounts of an invocation whose balances the margin program reads back.
Touched(ix) == IF "source" \in DOMAIN ix THEN {ix.source, ix.destination} ELSE {}

InvokeAll(s, inners) ==
    LET invoked[i \in 0 .. Len(inners)] ==
            IF i = 0 THEN s ELSE InvokePool(invoked[i - 1], inners[i])
    IN  invoked[Len(inners)]

InvokeMany(s, inners) ==
    SetBalances(InvokeAll(s, inners), UNION {Touched(inners[i]) : i \in DOMAIN inners})

\* One instruction of a transaction.  A liquidator's invocation accrues fee.
Execute(s, ix, fee) ==
    CASE ix.op = "create_ata" ->
           [s EXCEPT !.held[ix.account] = IF @ = Missing THEN 0 ELSE @]
      [] ix.op = "create_account" -> Require(s, ~s.open, [s EXCEPT !.open = TRUE])
      [] ix.op = "close_account" ->
           Require(s, s.open /\ \A m \in Mint : ~Registered(s, m),
                   [LiquidationEnded(s) EXCEPT !.open = FALSE])
      [] ix.op = "register_position" ->
           Require(s, /\ VerifyAuthority(s, ix.authority) /\ HasConfig(ix.mint)
                      /\ ~Exists(s, ix.account) /\ ~Registered(s, ix.mint),
                   [Place(s, ix.mint, ix.account) EXCEPT !.held[ix.account] = 0])
      [] ix.op = "create_deposit_position" ->
           Require(s, /\ VerifyAuthority(s, ix.authority) /\ HasConfig(ix.mint)
                      /\ Exists(s, ix.account),
                   IF Registered(s, ix.mint) THEN s ELSE Place(s, ix.mint, ix.account))
      [] ix.op = "close_position" ->
           Require(s, /\ VerifyAuthority(s, ix.authority)
                      /\ s.position[ix.mint] = ix.account
                      /\ s.cached[ix.mint] = 0 /\ s.held[ix.account] = 0,
                   [Place(s, ix.mint, NoAddress) EXCEPT !.held[ix.account] = Missing])
      [] ix.op = "refresh_deposit_position" ->
           Require(s, s.position[ix.mint] = ix.account /\ HasConfig(ix.mint),
                   SetBalances([s EXCEPT !.fresh = @ \cup {ix.mint}], {ix.account}))
      [] ix.op = "transfer_deposit" ->
           Require(s, Registered(s, ix.mint) /\ s.position[ix.mint] \in {ix.source, ix.destination},
                   SetBalances(Transfer(s, ix.source, ix.destination, ix.amount),
                               {ix.source, ix.destination}))
      [] ix.op = "update_position_balance" -> SetBalances(s, {ix.account})
      [] ix.op = "refresh_position_config" -> Require(s, Registered(s, ix.mint), s)
      [] ix.op = "liquidate_begin" ->
           Require(s, /\ s.open /\ ~s.liquidating /\ ix.authority = "liquidator"
                      /\ \E t \in Token : s.cached[Loan(t)] > 0
                      /\ \A m \in Mint : s.cached[m] > 0 => m \in s.fresh,
                   [s EXCEPT !.liquidating = TRUE])
      [] ix.op = "liquidate_end" ->
           Require(s, s.liquidating, LiquidationEnded(s))
      [] ix.op = "collect_liquidation_fee" ->
           Require(s, /\ s.liquidating /\ s.accrued[ix.token] > 0
                      /\ s.position[Of(ix.token)] = ix.source,
                   SetBalances([Transfer(s, ix.source, ix.destination, s.accrued[ix.token])
                                   EXCEPT !.accrued[ix.token] = 0, !.collecting = TRUE],
                               {ix.source}))
      [] ix.op = "adapter_invoke" -> Require(s, s.open /\ ~s.liquidating, InvokeMany(s, ix.inners))
      [] ix.op = "accounting_invoke" ->
           Require(s, s.open /\ \A i \in DOMAIN ix.inners : ix.inners[i].signer # "margin",
                   InvokeMany(s, ix.inners))
      [] ix.op = "liquidator_invoke" ->
           Require(s, s.open /\ s.liquidating /\ ~s.collecting,
                   [InvokeMany(s, ix.inners) EXCEPT
                       !.accrued[ix.fee] = IF @ = 0 THEN fee ELSE @])

\* A transaction of the runtime: every instruction succeeds or none has an effect.
Run(s, tx, fee) ==
    LET executed[i \in 0 .. Len(tx)] ==
            IF i = 0 THEN s ELSE Execute(executed[i - 1], tx[i], fee)
    IN  executed[Len(tx)]

Lands(s, tx) == Run(s, tx, 0).ok

-----------------------------------------------------------------------------
(* Choosing the invocation                                                 *)

needs_signature(inners) == \E i \in DOMAIN inners : inners[i].signer = "margin"

adapter_invoke_ix(who, inners, fee_mint) ==
    CASE who = "owner" -> adapter_invoke(inners)
      [] who = "liquidator" /\ fee_mint = NoMint -> Panic
      [] who = "liquidator" /\ fee_mint # NoMint -> liquidator_invoke(inners, fee_mint)

smart_invoke(who, inner, fee_mint) ==
    IF needs_signature(<<inner>>) THEN adapter_invoke_ix(who, <<inner>>, fee_mint)
                                  ELSE accounting_invoke(<<inner>>)

\* MarginInvokeContext::invoke_ix
invoke_ix(who, inner, fee_mint) == smart_invoke(who, inner, fee_mint)

-----------------------------------------------------------------------------
(* Positions: found on chain as the builder reads it, or created           *)

\* Mutant: the position is registered whether or not it exists.
AlwaysRegister(c, who, m) == <<register_position(who, m)>>

CreatePosition(c, who, m) ==
    IF Registered(c, m) THEN <<>> ELSE <<register_position(who, m)>>

PositionAddress(c, m) ==
    IF Registered(c, m) THEN c.position[m] ELSE derive_position_token_account(m)

get_or_create_pool_loan_position(c, who, t) ==
    IF Registered(c, Loan(t)) THEN <<>>
    ELSE <<adapter_invoke_ix(who, <<register_loan(t)>>, NoMint)>>

create_deposit_account_and_position(who, m) ==
    <<create_ata(m, "ata"), create_deposit_position(who, m)>>

create_pool_deposit(who, t) ==
    create_deposit_account_and_position(who, Note(t)) \o
    <<invoke_ix(who, margin_refresh_position(t), IF who = "liquidator" THEN t ELSE NoMint)>>

\* Mutant: the notes go to the associated account wherever the position is.
DepositToAta(c, t) == associated_token_address(Note(t))

\* PoolTargetPosition::new and the address get_or_create_pool_deposit returns.
PoolTarget(c, t) ==
    IF Registered(c, Note(t)) THEN c.position[Note(t)] ELSE associated_token_address(Note(t))

get_or_create_pool_deposit(c, who, t) ==
    IF Registered(c, Note(t)) THEN <<>> ELSE create_pool_deposit(who, t)

with_liquidation_fee_accounts(who, t) ==
    IF who = "liquidator" THEN <<create_ata(Of(t), "ata"), create_ata(Of(t), "liquidator")>>
                          ELSE <<>>

\* MarginActionAuthority: who signs for the source, and its token account.
resolve(who, authority) ==
    CASE authority = "MarginAccount" -> "margin"
      [] authority = "AccountAuthority" -> who

SourceOf(t, signer) ==
    CASE signer = "margin" -> associated_token_address(Of(t))
      [] signer = "owner" -> <<Of(t), "wallet">>
      [] signer = "liquidator" -> <<Of(t), "liquidator">>

refresh_pool_position(t) == accounting_invoke(<<margin_refresh_position(t)>>)

-----------------------------------------------------------------------------
(* Refreshing every position                                               *)

refresh_all_pool_positions(c) ==
    LET pools == {t \in Token : Registered(c, Note(t)) \/ Registered(c, Loan(t))}
    IN  [i \in 1 .. Cardinality(pools) |-> refresh_pool_position(SetToSeq(pools)[i])]

\* Mutant: the tokens that also have a pool are left to the pool's refresh.
NoDepositRefresh(c) == <<>>

refresh_deposit_positions(c) ==
    LET tokens == {t \in Config : Registered(c, Of(t))}
    IN  [i \in 1 .. Cardinality(tokens) |-> refresh_deposit_position(SetToSeq(tokens)[i])]

refresh_positions(c) == refresh_all_pool_positions(c) \o refresh_deposit_positions(c)

-----------------------------------------------------------------------------
(* The operations of the builder.  Each returns the transactions to send   *)
(* in order; o holds the arguments of the call.                            *)

\* MarginInvokeContext::pool_deposit
invoke_pool_deposit(c, who, t, signer, change) ==
    get_or_create_pool_deposit(c, who, t) \o
    <<invoke_ix(who, deposit(t, signer, SourceOf(t, signer), PoolTarget(c, t), change),
                IF who = "liquidator" THEN t ELSE NoMint)>>

pool_deposit(c, o) ==
    invoke_pool_deposit(c, o.who, o.token, resolve(o.who, o.authority), Shift(o.n))

pool_deposit_deprecated(c, o) ==
    LET signer == resolve(o.who, o.authority)
        note == Note(o.token)
        inner == deposit(o.token, signer, SourceOf(o.token, signer), PositionAddress(c, note), Shift(o.n))
    IN  CreatePosition(c, o.who, note) \o
        (IF ~Registered(c, note) /\ needs_signature(<<inner>>)
         THEN <<refresh_pool_position(o.token)>> ELSE <<>>) \o
        <<smart_invoke(o.who, inner, NoMint)>>

borrow(c, o) ==
    with_liquidation_fee_accounts(o.who, o.token) \o
    CreatePosition(c, o.who, Note(o.token)) \o
    get_or_create_pool_loan_position(c, o.who, o.token) \o
    <<refresh_pool_position(o.token),
      adapter_invoke_ix(o.who,
          <<margin_borrow(o.token, PositionAddress(c, Note(o.token)), Shift(o.n))>>, o.token)>>

margin_repay_tx(c, o) ==
    with_liquidation_fee_accounts(o.who, o.token) \o
    CreatePosition(c, o.who, Note(o.token)) \o
    get_or_create_pool_loan_position(c, o.who, o.token) \o
    <<adapter_invoke_ix(o.who,
          <<margin_repay(o.token, PositionAddress(c, Note(o.token)), Shift(o.n))>>, o.token)>>

pool_repay(c, o) ==
    LET signer == resolve(o.who, o.authority)
    IN  <<smart_invoke(o.who,
              repay(o.token, signer, SourceOf(o.token, signer), derive_loan_account(o.token), Shift(o.n)),
              NoMint)>>

withdraw_tx(c, o) ==
    with_liquidation_fee_accounts(o.who, o.token) \o
    <<create_ata(Of(o.token), "ata")>> \o
    CreatePosition(c, o.who, Note(o.token)) \o
    <<adapter_invoke_ix(o.who,
          <<withdraw(o.token, PositionAddress(c, Note(o.token)), <<Of(o.token), "wallet">>, Shift(o.n))>>,
          o.token)>>

\* Mutant: the swap leaves the associated accounts empty.
NoBalance(c, account) == 0

\* get_token_balance(..).unwrap_or_default()
TokenBalance(c, account) == IF Exists(c, account) THEN c.held[account] ELSE 0

\* Borrow the token to swap, deposit what the swap returned and repay with what
\* it left, bringing both associated accounts back to the balances read here.
margin_swap(c, o) ==
    LET from == associated_token_address(Of(o.token))
        to == associated_token_address(Of(o.to))
    IN  <<create_ata(Of(o.token), "ata"), create_ata(Of(o.to), "ata")>> \o
        get_or_create_pool_loan_position(c, o.who, o.token) \o
        CreatePosition(c, o.who, Note(o.to)) \o
        <<adapter_invoke_ix(o.who,
              <<margin_refresh_position(o.token), margin_refresh_position(o.to),
                margin_borrow_v2(o.token, from, o.n),
                swap(o.token, o.to, o.take),
                deposit(o.to, "margin", to, PositionAddress(c, Note(o.to)),
                        SetSource(TokenBalance(c, to))),
                repay(o.token, "margin", from, derive_loan_account(o.token),
                      SetSource(TokenBalance(c, from)))>>,
              NoMint)>>

\* Withdraw the token to swap, repay a debt with what the swap returned and
\* deposit the rest, leaving the liquidator's fee in the associated account.
swap_and_repay(c, o) ==
    LET from == associated_token_address(Of(o.token))
        to == associated_token_address(Of(o.to))
        fee == IF o.who = "liquidator" THEN o.fee ELSE 0
        RefreshOf(t) == IF t \in Config THEN <<refresh_deposit_position(t)>> ELSE <<>>
    IN  refresh_positions(c) \o
        (IF o.who = "liquidator" THEN <<create_ata(Of(o.to), "liquidator")>> ELSE <<>>) \o
        <<create_deposit_position(o.who, Of(o.token)), create_deposit_position(o.who, Of(o.to))>> \o
        RefreshOf(o.token) \o RefreshOf(o.to) \o
        CreatePosition(c, o.who, Note(o.token)) \o
        get_or_create_pool_loan_position(c, o.who, o.to) \o
        CreatePosition(c, o.who, Note(o.to)) \o
        <<adapter_invoke_ix(o.who,
              <<margin_refresh_position(o.token), margin_refresh_position(o.to),
                withdraw(o.token, PositionAddress(c, Note(o.token)), from, Shift(o.n)),
                swap(o.token, o.to, o.take),
                repay(o.to, "margin", to, derive_loan_account(o.to),
                      IF o.repay = NoAmount THEN SetSource(TokenBalance(c, to) + fee)
                                            ELSE Shift(o.repay - fee)),
                deposit(o.to, "margin", to, PositionAddress(c, Note(o.to)),
                        SetSource(TokenBalance(c, to) + fee))>>,
              o.to)>>

close_pool_positions(c, o) ==
    <<close_position(o.who, Note(o.token), derive_position_token_account(Note(o.token))),
      adapter_invoke_ix(o.who, <<close_loan(o.token)>>, NoMint)>>

close_pool_position(c, o) ==
    CASE o.kind = "Collateral" ->
           <<close_position(o.who, Note(o.token), derive_position_token_account(Note(o.token)))>>
      [] o.kind = "Claim" -> <<adapter_invoke_ix(o.who, <<close_loan(o.token)>>, NoMint)>>

CloseEmpty(c, who, m) ==
    IF m[1] = "loan" THEN adapter_invoke_ix(who, <<close_loan(m[2])>>, NoMint)
    ELSE close_position(who, m, c.position[m])

close_empty_positions(c, o) ==
    LET empty == SetToSeq({m \in Mint : Registered(c, m) /\ c.cached[m] = 0})
    IN  [i \in DOMAIN empty |-> CloseEmpty(c, o.who, empty[i])]

liquidate_begin_builder(c, o) ==
    (IF o.refresh THEN refresh_positions(c) ELSE <<>>) \o <<liquidate_begin(o.who)>>

\* Two transactions: bring the accrued fees into the associated accounts, then
\* collect them.
FeeTransfer(c, o, t) ==
    LET ata == associated_token_address(Of(t))
    IN  CreatePosition(c, o.who, Note(t)) \o <<create_ata(Of(t), "ata")>> \o
        (IF Registered(c, Of(t)) /\ c.cached[Of(t)] < c.accrued[t]
         THEN <<liquidator_invoke(<<withdraw(t, PositionAddress(c, Note(t)), ata,
                                             SetDestination(c.accrued[t]))>>, t)>>
         ELSE <<>>)

FeeCollection(t) == <<create_ata(Of(t), "liquidator"), collect_liquidation_fee(t)>>

collect_liquidation_fees(c, o) ==
    LET fees == SetToSeq({t \in Token : c.accrued[t] > 0})
    IN  << FlattenSeq([i \in DOMAIN fees |-> FeeTransfer(c, o, fees[i])]),
           FlattenSeq([i \in DOMAIN fees |-> FeeCollection(fees[i])]) >>

refresh_all_position_metadata(c, o) ==
    LET mints == SetToSeq({m \in Mint : Registered(c, m)})
    IN  [i \in DOMAIN mints |-> <<refresh_position_config(mints[i])>>]

create_deposit_position_tx(c, o) ==
    <<create_ata(Of(o.token), "ata"), create_deposit_position(o.who, Of(o.token))>>

close_deposit_position(c, o) ==
    <<close_position(o.who, Of(o.token), associated_token_address(Of(o.token)))>>

transfer_deposit_tx(c, o) ==
    LET ata == associated_token_address(Of(o.token))
        wallet == <<Of(o.token), "wallet">>
    IN  (IF Registered(c, Of(o.token)) THEN <<>>
         ELSE <<create_ata(Of(o.token), "ata"), create_deposit_position(o.who, Of(o.token))>>) \o
        <<IF o.inward THEN transfer_deposit(o.token, wallet, ata, o.n)
                      ELSE transfer_deposit(o.token, ata, wallet, o.n)>>

\* The transactions an operation returns.
Build(c, o) ==
    CASE o.op = "create_account" -> << <<create_account>> >>
      [] o.op = "close_account" -> << <<close_account>> >>
      [] o.op = "pool_deposit" -> <<pool_deposit(c, o)>>
      [] o.op = "pool_deposit_deprecated" -> <<pool_deposit_deprecated(c, o)>>
      [] o.op = "borrow" -> <<borrow(c, o)>>
      [] o.op = "margin_repay" -> <<margin_repay_tx(c, o)>>
      [] o.op = "pool_repay" -> <<pool_repay(c, o)>>
      [] o.op = "withdraw" -> <<withdraw_tx(c, o)>>
      [] o.op = "margin_swap" -> <<margin_swap(c, o)>>
      [] o.op = "swap_and_repay" -> <<swap_and_repay(c, o)>>
      [] o.op = "close_pool_positions" -> <<close_pool_positions(c, o)>>
      [] o.op = "close_pool_position" -> <<close_pool_position(c, o)>>
      [] o.op = "close_empty_positions" -> <<close_empty_positions(c, o)>>
      [] o.op = "liquidate_begin" -> <<liquidate_begin_builder(c, o)>>
      [] o.op = "liquidate_end" -> << <<liquidate_end(o.who)>> >>
      [] o.op = "collect_liquidation_fees" -> collect_liquidation_fees(c, o)
      [] o.op = "refresh_all_position_metadata" -> refresh_all_position_metadata(c, o)
      [] o.op = "create_deposit_position" -> <<create_deposit_position_tx(c, o)>>
      [] o.op = "close_deposit_position" -> <<close_deposit_position(c, o)>>
      [] o.op = "transfer_deposit" -> <<transfer_deposit_tx(c, o)>>

Panics(txs) == \E i \in DOMAIN txs : \E j \in DOMAIN txs[i] : txs[i][j] = Panic

-----------------------------------------------------------------------------
(* Sessions                                                                *)

Idle == [o |-> [op |-> "none"], txs |-> <<>>, stale |-> FALSE]

TxBuilderInit ==
    /\ chain = [ok |-> TRUE, open |-> FALSE, liquidating |-> FALSE, collecting |-> FALSE,
                position |-> [m \in Mint |-> NoAddress],
                cached |-> [m \in Mint |-> 0],
                held |-> [a \in Account |-> IF a[2] = "wallet"
                                            THEN Supply[a[1][2]] ELSE Missing],
                accrued |-> [t \in Token |-> 0], fresh |-> {}]
    /\ pending = Idle

\* What has no effect beyond the transaction is forgotten with it.
Settled(s) == [s EXCEPT !.fresh = {}]

WithinBounds(s) == \A t \in Token : s.held[Loan(t), "pda"] <= MaxLoan

\* A session asks for transactions, built from the chain as it is now.
BuildTransactions(o) ==
    LET txs == Build(chain, o)
    IN  /\ pending = Idle
        /\ chain.open <=> o.op # "create_account"
        /\ ~Panics(txs)
        /\ \E i \in DOMAIN txs : txs[i] # <<>>
        /\ pending' = [o |-> o, txs |-> txs, stale |-> FALSE]
        /\ UNCHANGED chain

Dequeued == IF Len(pending.txs) = 1 THEN Idle ELSE [pending EXCEPT !.txs = Tail(@)]

\* bound: the fee a liquidator's invocation accrues
Fee == IF chain.liquidating THEN {0, 1} ELSE {0}

\* The next of the session's transactions lands.
LandTransaction(fee) ==
    LET s == Run(chain, Head(pending.txs), fee)
    IN  /\ pending # Idle
        /\ s.ok /\ WithinBounds(s)
        /\ chain' = Settled(s)
        /\ pending' = Dequeued

\* It fails, or never lands: the rest is not sent.
DropTransactions == pending # Idle /\ pending' = Idle /\ UNCHANGED chain

\* Another session builds and lands a transaction meanwhile.  At most one
\* does while a session waits.
OtherLands(o, fee) ==
    LET s == Run(chain, Build(chain, o)[1], fee)
    IN  /\ pending # Idle /\ ~pending.stale
        /\ ~Panics(Build(chain, o)) /\ Build(chain, o) # <<>>
        /\ s.ok /\ WithinBounds(s)
        /\ chain' = Settled(s)
        /\ pending' = [pending EXCEPT !.stale = TRUE]

\* Anybody sends tokens to the margin account's associated account.
Donate(t) ==
    LET s == Transfer(chain, <<Of(t), "wallet">>, associated_token_address(Of(t)), 1)
    IN  /\ s.ok
        /\ chain' = s
        /\ pending' = IF pending = Idle THEN Idle ELSE [pending EXCEPT !.stale = TRUE]

\* Anybody brings a position's balance up to date.
UpdateBalance(account) ==
    /\ chain.open
    /\ chain' = Run(chain, <<update_position_balance(account)>>, 0)
    /\ chain' # chain
    /\ UNCHANGED pending

TxBuilderNext ==
    \/ \E o \in Operation : BuildTransactions(o)
    \/ \E fee \in Fee : LandTransaction(fee)
    \/ DropTransactions
    \/ \E o \in Racing, fee \in Fee : OtherLands(o, fee)
    \/ \E t \in Token : Donate(t)
    \/ \E m \in Mint : UpdateBalance(associated_token_address(m))

TxBuilderSpec == TxBuilderInit /\ [][TxBuilderNext]_txBuilderVars

-----------------------------------------------------------------------------
(* Properties                                                              *)

\* Every balance is missing or a number the supply and the loans bound, since
\* no transaction makes tokens, and no fee or mark of a liquidation outlives it.
TxBuilderTypeOK ==
    /\ chain.ok /\ chain.fresh = {}
    /\ \A a \in Account :
          chain.held[a] \in Missing .. MapThenSumSet(LAMBDA t : Supply[t] + MaxLoan, Token)
    /\ \A m \in Mint : chain.cached[m] \in Nat
    /\ chain.accrued \in [Token -> 0 .. 1]
    /\ chain.collecting => chain.liquidating
    /\ chain.liquidating => chain.open
    /\ pending = Idle \/ pending.txs # <<>>

\* However transactions of several sessions interleave, a debt, and every note
\* in an account derived for its position, is a registered position whose
\* balance the margin account knows: register_position and register_loan refuse
\* a second account, and an account is closed only with its position.
DerivedAccountsAreCounted ==
    \A m \in Mint : chain.held[<<m, "pda">>] # Missing =>
        chain.position[m] = <<m, "pda">> /\ chain.cached[m] = chain.held[<<m, "pda">>]

\* A position is one of the margin account's own token accounts of its mint.
PositionsAreOwn ==
    \A m \in Mint : chain.position[m] \in {NoAddress, <<m, "ata">>, <<m, "pda">>}

\* The accounts are in order, a position is the margin account's own, and what a
\* derived account holds is counted.
AccountsAreCounted == TxBuilderTypeOK /\ PositionsAreOwn /\ DerivedAccountsAreCounted

\* The arguments and balances an operation needs of its caller.  Accounts and
\* positions are the builder's business and are not among them, except those
\* the code takes for granted: a registered loan where a liquidator would have
\* to register it, no empty loan where it would have to close one, the associated accounts swap_and_repay moves tokens through
\* and the deposit position of the token a fee is collected in.
Sensible(c, o) ==
    LET Notes(t) == TokenBalance(c, PositionAddress(c, Note(t)))
        Source == TokenBalance(c, SourceOf(o.token, resolve(o.who, o.authority)))
        Debt(t) == c.cached[Loan(t)]
        May == VerifyAuthority(c, o.who) /\ (o.who = "liquidator" => ~c.collecting)
        Synced(t) == c.cached[Of(t)] = c.held[Of(t), "ata"]
    IN  CASE o.op \in {"pool_deposit", "pool_deposit_deprecated"} ->
               May /\ Source >= o.n
          [] o.op \in {"borrow", "margin_swap"} -> May
          [] o.op = "margin_repay" ->
               May /\ Notes(o.token) >= o.n /\ Debt(o.token) >= o.n
          [] o.op = "pool_repay" ->
               May /\ Source >= o.n /\ Debt(o.token) >= o.n
          [] o.op = "withdraw" -> May /\ Notes(o.token) >= o.n
          [] o.op = "swap_and_repay" ->
               /\ May
               /\ {o.token, o.to} \subseteq Config
               /\ \A t \in {o.token, o.to} : Exists(c, associated_token_address(Of(t)))
               /\ Notes(o.token) >= o.n /\ o.repay = NoAmount
               /\ o.who = "liquidator" => Registered(c, Loan(o.to))
          [] o.op = "close_empty_positions" ->
               /\ May
               /\ \A t \in Token : /\ Registered(c, Of(t)) => Synced(t)
                                   /\ o.who = "liquidator" /\ Registered(c, Loan(t)) => Debt(t) > 0
          [] o.op = "liquidate_begin" ->
               c.open /\ ~c.liquidating /\ o.refresh /\ \E t \in Token : Debt(t) > 0
          [] o.op = "collect_liquidation_fees" ->
               /\ c.liquidating /\ ~c.collecting
               /\ \A t \in Token : c.accrued[t] > 0 =>
                     /\ Registered(c, Of(t)) /\ Synced(t)
                     /\ c.cached[Of(t)] + Notes(t) >= c.accrued[t]
          [] o.op = "create_deposit_position" -> May /\ o.token \in Config
          [] o.op = "transfer_deposit" ->
               /\ May /\ o.token \in Config
               /\ IF o.inward THEN TokenBalance(c, <<Of(o.token), "wallet">>) >= o.n
                  ELSE TokenBalance(c, associated_token_address(Of(o.token))) >= o.n
          [] OTHER -> FALSE

\* In every reachable state of the accounts, what the builder returns for a
\* sensible call lands when nothing else lands first: no account or position it
\* relies on is missing, none it creates exists, and every instruction comes
\* after those it depends on.
FreshTransactionsLand ==
    pending = Idle => \A o \in Operation : Sensible(chain, o) =>
        LET txs == Build(chain, o) IN ~Panics(txs) /\ Lands(chain, FlattenSeq(txs))

\* swap_and_repay, and liquidate_begin when asked to, refresh every position
\* that holds anything when the health check reads it ("the program otherwise
\* won't have their values").
EverythingIsRefreshed ==
    pending = Idle => \A o \in Operation : Sensible(chain, o) /\ o.op \in {"swap_and_repay", "liquidate_begin"} =>
        LET s == Run(chain, FlattenSeq(Build(chain, o)), 0)
        IN  \A m \in Mint : s.cached[m] > 0 => m \in s.fresh

\* What the builder returns does what it was asked for: it lands, and nothing
\* the health check would read is stale.
BuiltTransactionsWork == FreshTransactionsLand /\ EverythingIsRefreshed

\* A transaction built from the chain as it is never mints notes that the
\* margin account does not count as collateral.
FreshDepositsAreCounted ==
    [][\A m \in Mint, place \in {"ata", "pda"} :
          /\ pending # Idle /\ ~pending.stale /\ m[1] = "note"
          /\ chain'.held[m, place] > chain.held[m, place] /\ chain'.held[m, place] > 0
          => chain'.position[m] = <<m, place>> /\ chain'.cached[m] = chain'.held[m, place]]_txBuilderVars

\* "The balances before the swap have to be respected, and should not change
\* after the swap": margin_swap leaves both associated accounts as it read them,
\* whatever the swap takes, and nothing of the tokens swapped stays behind.
SwapKeepsBalances ==
    [][pending.o.op = "margin_swap" /\ ~pending.stale /\ chain' # chain
       /\ pending' = Idle
       => \A t \in Token : Max({0, chain'.held[Of(t), "ata"]}) = Max({0, chain.held[Of(t), "ata"]})]_txBuilderVars
=============================================================================
