----------------------------- MODULE MarginPool -----------------------------
(***************************************************************************)
(* A lending pool (programs/margin-pool): depositors hold deposit notes,   *)
(* borrowers hold loan notes, interest accrues on the loans and part of it *)
(* is set aside as fees.  Each instruction handler is one action; an error *)
(* or a panic rolls the transaction back, so it is a step that is not      *)
(* enabled.                                                                *)
(*                                                                         *)
(* A user stands for a wallet together with its margin account: whether    *)
(* the margin program lets the user borrow or withdraw is not decided      *)
(* here, so every pool operation is open to every user.                    *)
(***************************************************************************)
EXTENDS FixedPoint, FiniteSets, FiniteSetsExt

CONSTANTS
    User,             \* the depositors and borrowers
    WalletTokens,     \* bound: the tokens a user starts with
    Amount,           \* bound: the amounts named in requests
    Config,           \* the pool configurations the authority may set
    SecondsPerWeek,   \* MAX_ACCRUAL_SECONDS
    SecondsPerYear,
    TimeStep,         \* bound: how far the clock advances in a step
    MaxTime           \* bound: the last instant

ASSUME PoolAssumption ==
    /\ IsFiniteSet(User)
    /\ WalletTokens \in Nat
    /\ Amount \subseteq Nat
    /\ Config \subseteq [borrowRate : [0 .. 3 -> Nat], utilizationRate : [1 .. 2 -> Nat],
                         managementFeeRate : Nat, depositLimit : Nat, borrowLimit : Nat,
                         lending : BOOLEAN, disabled : BOOLEAN]
    /\ SecondsPerWeek \in Nat \ {0}
    /\ SecondsPerYear \in Nat \ {0}
    /\ TimeStep \subseteq Nat
    /\ MaxTime \in Nat

VARIABLES
    pool,       \* the MarginPool account
    config,     \* MarginPool::config
    now,        \* Clock::unix_timestamp
    vault,      \* the tokens in the pool's vault
    wallet,     \* the tokens of each user
    deposits,   \* the deposit notes of each user
    loans,      \* the loan notes of each user
    feeNotes,   \* the deposit notes in the fee destination
    feeTokens   \* the tokens the fee owner has withdrawn

ledger == <<vault, wallet, deposits, loans, feeNotes, feeTokens>>
vars == <<pool, config, now, ledger>>

-----------------------------------------------------------------------------
(* The pool's own arithmetic (state.rs).                                   *)

TotalValue(p) == p.borrowed + FromInt(p.depositTokens)

\* total_value() - total_uncollected_fees() panics when it is negative, and
\* with it every conversion between tokens and deposit notes.
RateDefined(p) == TotalValue(p) >= p.fees

DepositNoteExchangeRate(p) ==
    Div(AtLeast(TotalValue(p) - p.fees, One), FromInt(AtLeast(p.depositNotes, 1)))

LoanNoteExchangeRate(p) ==
    Div(AtLeast(p.borrowed, One), FromInt(AtLeast(p.loanNotes, 1)))

\* Tokens are converted by dividing by the rate, which truncates to zero when
\* there are many more loan notes than borrowed tokens.
LoanRateDefined(p) == LoanNoteExchangeRate(p) > 0

UtilizationRate(p) == Div(p.borrowed, TotalValue(p))

InterestRate(p, c) ==
    LET util == UtilizationRate(p)
        r(i) == FromBps(c.borrowRate[i])
        u(i) == FromBps(c.utilizationRate[i])
    IN  IF p.depositNotes = 0   THEN r(0)
        ELSE IF util <= u(1)    THEN Interpolate(util, 0, u(1), r(0), r(1))
        ELSE IF util <= u(2)    THEN Interpolate(util, u(1), u(2), r(1), r(2))
        ELSE IF util < One      THEN Interpolate(util, u(2), One, r(2), r(3))
        ELSE r(3)

\* The terms of the series used for a period: up to two hours, twelve hours,
\* a day, a week.
Terms(seconds) ==
    CASE seconds * 84 <= SecondsPerWeek -> 5
      [] seconds * 14 <= SecondsPerWeek /\ seconds * 84 > SecondsPerWeek -> 6
      [] seconds * 7 <= SecondsPerWeek /\ seconds * 14 > SecondsPerWeek -> 7
      [] OTHER -> 10

CompoundInterest(rate, seconds) ==
    Expm1Approx((rate * seconds) \div SecondsPerYear, Terms(seconds))

TimeBehind(p) == now - p.accruedUntil

\* accrue_interest returned true: the pool is up to date.
FullyAccrues(p) == TimeBehind(p) <= SecondsPerWeek

\* accrue_interest does not panic: interest_rate divides by the total value and,
\* in the first regime, by utilization_rate_1; compound_interest refuses rates
\* above 200 %.
AccrualDefined(p) ==
    \/ TimeBehind(p) = 0
    \/ /\ \/ p.depositNotes = 0
          \/ /\ TotalValue(p) > 0
             /\ FromBps(config.utilizationRate[1]) > 0 \/ UtilizationRate(p) > 0
       /\ InterestRate(p, config) <= 2 * One

\* Mutant: charges the management fee on the principal.
AccrueInterestFeeOnPrincipal(p) ==
    LET seconds == IF FullyAccrues(p) THEN TimeBehind(p) ELSE SecondsPerWeek
        interest == Mul(p.borrowed, CompoundInterest(InterestRate(p, config), seconds))
    IN  IF seconds = 0
        THEN p
        ELSE [p EXCEPT !.borrowed = @ + interest,
                       !.fees = @ + Mul(p.borrowed, FromBps(config.managementFeeRate)),
                       !.accruedUntil = @ + seconds]

\* accrue_interest catches up at most a week at a time.
AccrueInterest(p) ==
    LET seconds == IF FullyAccrues(p) THEN TimeBehind(p) ELSE SecondsPerWeek
        interest == Mul(p.borrowed, CompoundInterest(InterestRate(p, config), seconds))
    IN  IF seconds = 0
        THEN p
        ELSE [p EXCEPT !.borrowed = @ + interest,
                       !.fees = @ + Mul(interest, FromBps(config.managementFeeRate)),
                       !.accruedUntil = @ + seconds]

-----------------------------------------------------------------------------
(* Conversions between tokens and notes.                                   *)

\* Mutant: burns the rounded-down number of deposit notes.
RoundsUpForWithdrawer(action, kind) ==
    <<action, kind>> \in {<<"Borrow", "Tokens">>, <<"Deposit", "Notes">>, <<"Repay", "Notes">>}

\* Mutant: burns the rounded-up number of loan notes.
RoundsUpForBorrower(action, kind) ==
    <<action, kind>> \in {<<"Borrow", "Tokens">>, <<"Deposit", "Notes">>, <<"Repay", "Tokens">>,
                          <<"Repay", "Notes">>, <<"Withdraw", "Tokens">>}

RoundsUp(action, kind) ==
    <<action, kind>> \in {<<"Borrow", "Tokens">>, <<"Deposit", "Notes">>,
                          <<"Repay", "Notes">>, <<"Withdraw", "Tokens">>}

ExchangeRate(p, action) ==
    IF action \in {"Deposit", "Withdraw"} THEN DepositNoteExchangeRate(p)
                                          ELSE LoanNoteExchangeRate(p)

Round(x, up) == IF up THEN AsIntCeil(x) ELSE AsInt(x)

\* convert_amount for an amount of tokens, and for an amount of notes.
FromTokens(p, t, action) ==
    [tokens |-> t,
     notes  |-> Round(Div(FromInt(t), ExchangeRate(p, action)), RoundsUp(action, "Tokens"))]

FromNotes(p, n, action) ==
    [tokens |-> Round(Mul(FromInt(n), ExchangeRate(p, action)), RoundsUp(action, "Notes")),
     notes  |-> n]

\* A conversion where exactly one side is zero is an InvalidAmount error.
Valid(amount) == (amount.notes = 0) <=> (amount.tokens = 0)

ChangeKind == {"ShiftBy", "SetSourceTo", "SetDestinationTo"}

Request == [kind : ChangeKind, tokens : Amount]

\* calculate_full_amount: the tokens to move for a request, given the token
\* values of the source and the destination; negative when the code's
\* checked subtraction fails.
TokensToMove(action, change, source, destination) ==
    CASE change.kind = "ShiftBy" -> change.tokens
      [] change.kind = "SetDestinationTo" ->
            IF action = "Repay" THEN destination - change.tokens
                                ELSE change.tokens - destination
      [] change.kind = "SetSourceTo" ->
            CASE action = "Borrow" -> change.tokens - source
              [] action \in {"Deposit", "Withdraw"} -> source - change.tokens
              [] action = "Repay" ->
                    IF source >= change.tokens /\ destination < source - change.tokens
                    THEN destination
                    ELSE source - change.tokens

-----------------------------------------------------------------------------
(* The updates of the pool's books, each with the condition under which it *)
(* is not refused.                                                         *)

CanDeposit(p, amount) == p.depositTokens + amount.tokens <= config.depositLimit

Deposited(p, amount) ==
    [p EXCEPT !.depositTokens = @ + amount.tokens, !.depositNotes = @ + amount.notes]

CanWithdraw(p, amount) ==
    p.depositTokens >= amount.tokens /\ p.depositNotes >= amount.notes

Withdrawn(p, amount) ==
    [p EXCEPT !.depositTokens = @ - amount.tokens, !.depositNotes = @ - amount.notes]

Borrowed(p, amount) ==
    [p EXCEPT !.depositTokens = @ - amount.tokens,
              !.loanNotes = @ + amount.notes,
              !.borrowed = @ + FromInt(amount.tokens)]

\* The loan must leave a twentieth of the pool's value in the vault.
MaxPoolUtilRatioAfterBorrowBps == 9500

CanBorrow(p, amount) ==
    LET q == Borrowed(p, amount)
    IN  /\ config.lending
        /\ p.depositTokens >= amount.tokens
        /\ q.borrowed <= FromInt(config.borrowLimit)
        /\ TotalValue(q) > 0
        /\ AsBps(UtilizationRate(q)) <= MaxPoolUtilRatioAfterBorrowBps

CanRepay(p, amount) ==
    p.loanNotes >= amount.notes /\ AsIntCeil(p.borrowed) >= amount.tokens

\* Mutant: a subtraction that does not saturate.
RepaidExactly(p, amount) ==
    [p EXCEPT !.depositTokens = @ + amount.tokens,
              !.loanNotes = @ - amount.notes,
              !.borrowed = @ - FromInt(amount.tokens)]

\* The last repayment of all may exceed the debt by a fraction of a token.
Repaid(p, amount) ==
    [p EXCEPT !.depositTokens = @ + amount.tokens,
              !.loanNotes = @ - amount.notes,
              !.borrowed = SaturatingSub(@, FromInt(amount.tokens))]

\* Mutant: records the settled tokens as if they had come into the vault.
SettledWithTokens(p, repay, withdraw) ==
    [p EXCEPT !.depositTokens = @ + repay.tokens,
              !.depositNotes = @ - withdraw.notes,
              !.loanNotes = @ - repay.notes,
              !.borrowed = SaturatingSub(@, FromInt(repay.tokens))]

\* Mutant: leaves the loan notes on the books.
SettledKeepingLoanNotes(p, repay, withdraw) ==
    [p EXCEPT !.depositNotes = @ - withdraw.notes,
              !.borrowed = SaturatingSub(@, FromInt(repay.tokens))]

\* margin_repay cancels deposit notes against loan notes; no tokens move.
Settled(p, repay, withdraw) ==
    [p EXCEPT !.depositNotes = @ - withdraw.notes,
              !.loanNotes = @ - repay.notes,
              !.borrowed = SaturatingSub(@, FromInt(repay.tokens))]

\* collect_accrued_fees: the notes to mint, and the books with the remainder.
FeeNotesDue(p) == AsInt(Div(p.fees, DepositNoteExchangeRate(p)))

FeesCollected(p) ==
    [p EXCEPT !.fees = @ - Mul(FromInt(FeeNotesDue(p)), DepositNoteExchangeRate(p)),
              !.depositNotes = @ + FeeNotesDue(p)]

-----------------------------------------------------------------------------
(* The instruction handlers.  Each moves tokens or mints or burns notes    *)
(* through the token program, which refuses an overdraft.                  *)

\* accrue_interest brings the pool up to date, and signer_seeds signs.
UpToDate == FullyAccrues(pool) /\ AccrualDefined(pool) /\ ~config.disabled

Deposit(p, u, change) ==
    LET source == FromTokens(p, wallet[u], "Deposit")
        destination == FromNotes(p, deposits[u], "Deposit")
        tokens == TokensToMove("Deposit", change, source.tokens, destination.tokens)
        amount == FromTokens(p, tokens, "Deposit")
    IN  /\ RateDefined(p)
        /\ tokens \in 0 .. wallet[u]
        /\ Valid(source) /\ Valid(destination) /\ Valid(amount)
        /\ CanDeposit(p, amount)
        /\ pool' = Deposited(p, amount)
        /\ vault' = vault + amount.tokens
        /\ wallet' = [wallet EXCEPT ![u] = @ - amount.tokens]
        /\ deposits' = [deposits EXCEPT ![u] = @ + amount.notes]
        /\ UNCHANGED <<config, now, loans, feeNotes, feeTokens>>

\* The destination is the user's own wallet.
Withdraw(p, u, change) ==
    LET source == FromNotes(p, deposits[u], "Withdraw")
        tokens == TokensToMove("Withdraw", change, source.tokens, wallet[u])
        amount == FromTokens(p, tokens, "Withdraw")
    IN  /\ RateDefined(p)
        /\ tokens \in 0 .. vault
        /\ Valid(source) /\ Valid(amount)
        /\ CanWithdraw(p, amount)
        /\ deposits[u] >= amount.notes
        /\ pool' = Withdrawn(p, amount)
        /\ vault' = vault - amount.tokens
        /\ wallet' = [wallet EXCEPT ![u] = @ + amount.tokens]
        /\ deposits' = [deposits EXCEPT ![u] = @ - amount.notes]
        /\ UNCHANGED <<config, now, loans, feeNotes, feeTokens>>

\* Borrow, and deposit the borrowed tokens at once.
MarginBorrow(p, u, change) ==
    LET source == FromNotes(p, loans[u], "Borrow")
        destination == FromNotes(p, deposits[u], "Deposit")
        tokens == TokensToMove("Borrow", change, source.tokens, destination.tokens)
        loan == FromTokens(p, tokens, "Borrow")
        q == Borrowed(p, loan)
        deposit == FromTokens(q, tokens, "Deposit")
    IN  /\ RateDefined(p) /\ LoanRateDefined(p)
        /\ tokens >= 0
        /\ Valid(source) /\ Valid(destination) /\ Valid(loan) /\ Valid(deposit)
        /\ CanBorrow(p, loan)
        /\ CanDeposit(q, deposit)
        /\ pool' = Deposited(q, deposit)
        /\ loans' = [loans EXCEPT ![u] = @ + loan.notes]
        /\ deposits' = [deposits EXCEPT ![u] = @ + deposit.notes]
        /\ UNCHANGED <<config, now, vault, wallet, feeNotes, feeTokens>>

\* Borrow into the user's wallet; only ShiftBy is offered.
MarginBorrowV2(p, u, tokens) ==
    LET loan == FromTokens(p, tokens, "Borrow")
    IN  /\ LoanRateDefined(p)
        /\ tokens <= vault
        /\ Valid(FromNotes(p, loans[u], "Borrow")) /\ Valid(loan)
        /\ CanBorrow(p, loan)
        /\ pool' = Borrowed(p, loan)
        /\ vault' = vault - tokens
        /\ wallet' = [wallet EXCEPT ![u] = @ + tokens]
        /\ loans' = [loans EXCEPT ![u] = @ + loan.notes]
        /\ UNCHANGED <<config, now, deposits, feeNotes, feeTokens>>

\* Repay a loan with the deposit notes of the same account.
MarginRepay(p, u, change) ==
    LET source == FromNotes(p, deposits[u], "Withdraw")
        destination == FromNotes(p, loans[u], "Repay")
        tokens == TokensToMove("Repay", change, source.tokens, destination.tokens)
        repay == FromTokens(p, tokens, "Repay")
        withdraw == FromTokens(p, tokens, "Withdraw")
    IN  /\ RateDefined(p) /\ LoanRateDefined(p)
        /\ tokens >= 0
        /\ Valid(source) /\ Valid(destination) /\ Valid(repay) /\ Valid(withdraw)
        /\ p.depositNotes >= withdraw.notes
        /\ CanRepay(p, repay)
        /\ loans[u] >= repay.notes
        /\ deposits[u] >= withdraw.notes
        /\ pool' = Settled(p, repay, withdraw)
        /\ loans' = [loans EXCEPT ![u] = @ - repay.notes]
        /\ deposits' = [deposits EXCEPT ![u] = @ - withdraw.notes]
        /\ UNCHANGED <<config, now, vault, wallet, feeNotes, feeTokens>>

\* Anyone repays the loan of `debtor' from a wallet.  The handler values the
\* wallet with the loan notes' rate and the loan with the deposit notes' rate.
Repay(p, payer, debtor, change) ==
    LET source == FromTokens(p, wallet[payer], "Borrow")
        destination == FromNotes(p, loans[debtor], "Deposit")
        tokens == TokensToMove("Repay", change, source.tokens, destination.tokens)
        amount == FromTokens(p, tokens, "Repay")
    IN  /\ RateDefined(p) /\ LoanRateDefined(p)
        /\ tokens \in 0 .. wallet[payer]
        /\ Valid(source) /\ Valid(destination) /\ Valid(amount)
        /\ CanRepay(p, amount)
        /\ loans[debtor] >= amount.notes
        /\ pool' = Repaid(p, amount)
        /\ vault' = vault + amount.tokens
        /\ wallet' = [wallet EXCEPT ![payer] = @ - amount.tokens]
        /\ loans' = [loans EXCEPT ![debtor] = @ - amount.notes]
        /\ UNCHANGED <<config, now, deposits, feeNotes, feeTokens>>

\* A pool that is more than a week behind catches up by a week and no more.
CollectBehind ==
    /\ ~FullyAccrues(pool)
    /\ AccrualDefined(pool)
    /\ pool' = AccrueInterest(pool)
    /\ UNCHANGED <<config, now, ledger>>

CollectFees ==
    LET p == AccrueInterest(pool)
        q == FeesCollected(p)
    IN  /\ UpToDate
        /\ RateDefined(p)
        /\ RateDefined(q)
        /\ Valid(FromNotes(q, FeeNotesDue(p), "Withdraw"))
        /\ Valid(FromNotes(q, vault, "Withdraw"))
        /\ pool' = q
        /\ feeNotes' = feeNotes + FeeNotesDue(p)
        /\ UNCHANGED <<config, now, vault, wallet, deposits, loans, feeTokens>>

Collect == CollectBehind \/ CollectFees

\* Mutant: redeems the fee notes at the loan notes' rate.
WithdrawFeesAtLoanRate ==
    LET claimed == FromNotes(pool, feeNotes, "Borrow")
    IN  /\ ~config.disabled
        /\ RateDefined(pool)
        /\ Valid(claimed)
        /\ vault >= claimed.tokens
        /\ vault' = vault - claimed.tokens
        /\ feeNotes' = 0
        /\ feeTokens' = feeTokens + claimed.tokens
        /\ UNCHANGED <<pool, config, now, wallet, deposits, loans>>

\* The fee owner redeems the fee notes; the pool's books are not written.
WithdrawFees ==
    LET claimed == FromNotes(pool, feeNotes, "Withdraw")
    IN  /\ ~config.disabled
        /\ RateDefined(pool)
        /\ Valid(claimed)
        /\ vault >= claimed.tokens
        /\ vault' = vault - claimed.tokens
        /\ feeNotes' = 0
        /\ feeTokens' = feeTokens + claimed.tokens
        /\ UNCHANGED <<pool, config, now, wallet, deposits, loans>>

ValidConfig(c) ==
    /\ c.utilizationRate[1] < c.utilizationRate[2]
    /\ \A i \in 0 .. 2 : c.borrowRate[i] < c.borrowRate[i + 1]
    /\ c.managementFeeRate <= BpsUnit

\* The new rates apply from accrued_until on: nothing is accrued first.
Configure(c) ==
    /\ ValidConfig(c)
    /\ config' = c
    /\ UNCHANGED <<pool, now, ledger>>

AdminTransferLoan(from, to, notes) ==
    /\ ~config.disabled
    /\ loans[from] >= notes
    /\ loans' = [v \in User |->
                    loans[v] - (IF v = from THEN notes ELSE 0)
                             + (IF v = to   THEN notes ELSE 0)]
    /\ UNCHANGED <<pool, config, now, vault, wallet, deposits, feeNotes, feeTokens>>

Tick(d) ==
    /\ now + d <= MaxTime
    /\ now' = now + d
    /\ UNCHANGED <<pool, config, ledger>>

\* The configuration of a new pool: nothing can be deposited yet.
DefaultConfig ==
    [borrowRate |-> [i \in 0 .. 3 |-> 0], utilizationRate |-> [i \in 1 .. 2 |-> 0],
     managementFeeRate |-> 0, depositLimit |-> 0, borrowLimit |-> 0,
     lending |-> FALSE, disabled |-> FALSE]

\* create_pool.
Init ==
    /\ pool = [borrowed |-> 0, fees |-> 0, depositTokens |-> 0, depositNotes |-> 0,
               loanNotes |-> 0, accruedUntil |-> 0]
    /\ config = DefaultConfig
    /\ now = 0
    /\ vault = 0
    /\ wallet = [u \in User |-> WalletTokens]
    /\ deposits = [u \in User |-> 0]
    /\ loans = [u \in User |-> 0]
    /\ feeNotes = 0
    /\ feeTokens = 0

\* The handlers of depositors and borrowers, on the pool as accrue_interest
\* leaves it.
Trade(p) ==
    \E u \in User :
        \/ \E change \in Request :
              \/ Deposit(p, u, change)
              \/ Withdraw(p, u, change)
              \/ MarginBorrow(p, u, change)
              \/ MarginRepay(p, u, change)
              \/ \E debtor \in User : Repay(p, u, debtor, change)
        \/ \E t \in Amount : MarginBorrowV2(p, u, t)

Next ==
    \/ UpToDate /\ \E p \in {AccrueInterest(pool)} : Trade(p)
    \/ \E u, v \in User, n \in Amount : AdminTransferLoan(u, v, n)
    \/ Collect
    \/ WithdrawFees
    \/ \E c \in Config : Configure(c)
    \/ \E d \in TimeStep : Tick(d)

Spec == Init /\ [][Next]_vars

-----------------------------------------------------------------------------
(* Properties.                                                             *)

NetValue(p) == TotalValue(p) - p.fees

Holdings(f) == MapThenSumSet(LAMBDA u : f[u], User)

\* Every amount of the pool and of the token accounts is a natural number:
\* no checked or saturating subtraction of the handlers goes below zero, and
\* interest is never accrued into the future.
TypeOK ==
    /\ pool \in [borrowed : Nat, fees : Nat, depositTokens : Nat, depositNotes : Nat,
                 loanNotes : Nat, accruedUntil : Nat]
    /\ config \in Config \cup {DefaultConfig}
    /\ now \in 0 .. MaxTime
    /\ pool.accruedUntil <= now
    /\ vault \in Nat /\ feeNotes \in Nat /\ feeTokens \in Nat
    /\ wallet \in [User -> Nat] /\ deposits \in [User -> Nat] /\ loans \in [User -> Nat]

\* While there are deposit notes, each is worth at least one token, net of the
\* uncollected fees: whatever the order of deposits, loans, repayments and fee
\* collections, and however they round.  So deposit_note_exchange_rate does not
\* underflow, its clamp to one is never in force, and no conversion divides by
\* zero, while the pool has depositors.
NotesBacked ==
    pool.depositNotes > 0 => NetValue(pool) >= FromInt(pool.depositNotes)

\* The counters in the pool account agree with what the token program holds:
\* the loan notes are those in the loan accounts, the deposit tokens are those
\* in the vault and those the fee owner took, and no deposit note is held
\* that the pool does not count.
BooksMatchLedger ==
    /\ pool.loanNotes = Holdings(loans)
    /\ pool.depositTokens = vault + feeTokens
    /\ pool.depositNotes >= Holdings(deposits) + feeNotes

\* The amounts are well formed and the books match: no sequence of operations
\* drives a counter below zero or away from what the token program holds.
BooksBalance == TypeOK /\ BooksMatchLedger

\* A loan note always stands for some debt.  Otherwise repay would refuse any
\* amount with RepaymentExceedsTotalOutstanding, and the note, which keeps a
\* claim position open, could never be burned.
LoanNotesAreOwed == pool.loanNotes > 0 => pool.borrowed > 0

\* When the last loan note is burned, what remains of borrowed_tokens, which
\* nobody can repay any more, is less than a unit of the Number for each note.
LastNoteLeavesDust ==
    pool.loanNotes > 0 /\ pool'.loanNotes = 0 => pool'.borrowed < pool.loanNotes

\* Debt and loan notes go together, through any sequence of repayments that
\* round one of them up and the other down (repay, margin_repay).
DebtHasNotes == [][LastNoteLeavesDust /\ LoanNotesAreOwed']_vars

\* The vault and the outstanding debt cover the uncollected fees and every
\* deposit note in someone's hands, to within one token, even though
\* withdraw_fees takes tokens out of the vault without telling the pool.
Solvent ==
    FromInt(vault + 1) + pool.borrowed
        > pool.fees + (Holdings(deposits) + feeNotes) * DepositNoteExchangeRate(pool)

\* No step makes the remaining deposit notes worth less than the exchange rate
\* before it, but for the units lost where the quotient of a withdrawal is
\* truncated before it is rounded up: fewer than the rate has tokens.
SharePriceKept ==
    [][ LET rate == DepositNoteExchangeRate(pool)
        IN  pool'.depositNotes > 0 =>
              NetValue(pool') + (rate + One - 1) \div One >= pool'.depositNotes * rate ]_vars

\* What the comment on deposit_note_exchange_rate says: a pool left with no
\* deposit notes has an exchange rate.  Refuted: the last withdrawal may take
\* a fraction of the uncollected fees, and the subtraction then panics.
EmptyPoolHasRate == pool.depositNotes = 0 => RateDefined(pool)
=============================================================================
