----------------------------- MODULE Invocation -----------------------------
(***************************************************************************)
(* How the margin program calls adapters and applies what they return      *)
(* (adapter.rs, util.rs), on the call stack of the Solana runtime.         *)
(*                                                                         *)
(* A margin handler marks the margin account with its own stack height,    *)
(* calls the adapter, clears the mark and reads the return data.  An       *)
(* adapter may write position changes for an account only when the account *)
(* carries the mark of the height just below its own.  One transaction is  *)
(* active at a time; a step that fails aborts its transaction and rolls    *)
(* every change back, so it is a step that is not enabled.                 *)
(*                                                                         *)
(* The runtime is external: programs are re-entered only by themselves,    *)
(* every call clears the return data, and the return data carries the      *)
(* program that set it.                                                    *)
(***************************************************************************)
EXTENDS Integers, Sequences

CONSTANTS
    Account,     \* margin accounts of one airspace
    Mint,        \* position tokens that have a TokenConfig
    Margin,      \* the margin program (crate::ID)
    Safe,        \* SAFE_RETURN_DATA_PROGRAMS
    External,    \* every other program
    NoAdapter,   \* Pubkey::default(), the adapter of the margin program's tokens
    NoAccount,   \* no margin account
    Adapters,    \* the programs with an AdapterConfig in the airspace
    AdapterOf,   \* the adapter in each token's config
    KindOf,      \* the kind in each token's config
    MaxHeight,   \* the height of the runtime's call stack
    Result       \* bound: the results adapters write

Program == Safe \cup External \cup {Margin}
Kind == {"Collateral", "Claim", "AdapterCollateral"}
Change == {"Register", "Close", "Require", "Release", "Price"}

ASSUME InvocationAssumption ==
    /\ Margin \notin Safe \cup External
    /\ Safe \cap External = {}
    /\ NoAdapter \notin Program
    /\ "MarginAccountAuthority" \notin Program \cup {NoAdapter}
    /\ NoAccount \notin Account
    /\ Adapters \subseteq Program
    /\ AdapterOf \in [Mint -> Program \cup {NoAdapter}]
    /\ KindOf \in [Mint -> Kind]
    /\ MaxHeight \in Nat /\ MaxHeight <= 7
    /\ Result \subseteq Seq([mint : Mint, changes : Seq(Change)])

VARIABLES
    stack,     \* the frames of the running transaction, the callee last
    signers,   \* the accounts whose authority signed the transaction
    mark,      \* caller_heights: the stack heights each account is marked with
    ret,       \* the runtime's return data
    position   \* the positions of each account

vars == <<stack, signers, mark, ret, position>>

Height == Len(stack)
Top == stack[Height]
Absent == [registered |-> FALSE, required |-> FALSE, priced |-> FALSE]
NoResult == [program |-> NoAdapter, account |-> NoAccount, changes |-> <<>>]

\* A frame of the margin program is one call of a handler that invokes adapters;
\* callee is the adapter it waits for.
MarginFrame(a, s) == [program |-> Margin, account |-> a, signed |-> s, callee |-> NoAdapter]
OtherFrame(p) == [program |-> p, account |-> NoAccount, signed |-> FALSE, callee |-> NoAdapter]

-----------------------------------------------------------------------------
(* The runtime                                                             *)

MayEnter(p) ==
    /\ Height < MaxHeight
    /\ \/ \A h \in 1..Height : stack[h].program # p
       \/ Height > 0 /\ Top.program = p

-----------------------------------------------------------------------------
(* Marks (util.rs)                                                         *)

\* Mutant: the mark is the height of the caller's caller.
StartBelow(a) == mark' = [mark EXCEPT ![a] = @ \cup {Height - 1}]

Start(a) == mark' = [mark EXCEPT ![a] = @ \cup {Height}]

\* Mutant: the mark is set and never cleared.
LastingMark(a, h) == mark' = mark

End(a, h) == mark' = [mark EXCEPT ![a] = @ \ {h}]

\* Mutant: any mark on the account will do.
AnyMark(a) == mark[a] # {}

DirectlyInvoked(a) == Height # 0 /\ (Height - 1) \in mark[a]

-----------------------------------------------------------------------------
(* Adapter results (adapter.rs)                                            *)

\* Mutant: the signature is taken for granted.
AllApprovals(f) == {"MarginAccountAuthority", f.callee}

AdapterResultApprovals(f) ==
    {f.callee} \cup IF f.signed THEN {"MarginAccountAuthority"} ELSE {}

MayBeRegisteredOrClosed(m, approvals) ==
    /\ "MarginAccountAuthority" \in approvals
    /\ KindOf[m] = "Collateral" <=> AdapterOf[m] \notin approvals

\* Mutant: an adapter may change any position.
AnyAdapter(f, m, p) == TRUE

MayChange(f, m, p) == p.registered => AdapterOf[m] \in {f.callee, NoAdapter}

\* What one change does to a position and whether it is refused.  A balance is
\* not tracked: closing may find the position empty or fail.
ApplyChange(f, m, s, c) ==
    LET p == s.position IN
    CASE c = "Price" -> [s EXCEPT !.position.priced = p.registered]
      [] c = "Require" -> [ok |-> s.ok /\ p.registered, position |-> [p EXCEPT !.required = TRUE]]
      [] c = "Release" -> [ok |-> s.ok /\ p.registered, position |-> [p EXCEPT !.required = FALSE]]
      [] c = "Register" ->
           [ok |-> /\ s.ok
                   /\ ~p.registered
                   /\ MayBeRegisteredOrClosed(m, AdapterResultApprovals(f)),
            position |-> [Absent EXCEPT !.registered = TRUE]]
      [] c = "Close" ->
           [ok |-> /\ s.ok
                   /\ p.registered
                   /\ MayBeRegisteredOrClosed(m, AdapterResultApprovals(f))
                   /\ ~p.required,
            position |-> Absent]

\* apply_changes, for one entry of the result, one change after the other; the
\* adapter is compared once, at the start.
ApplyChanges(f, ps, e) ==
    LET p == ps.positions[e.mint]
        after[i \in 0 .. Len(e.changes)] ==
            IF i = 0 THEN [ok |-> ps.ok /\ MayChange(f, e.mint, p), position |-> p]
            ELSE ApplyChange(f, e.mint, after[i - 1], e.changes[i])
        end == after[Len(e.changes)]
    IN  [ok |-> end.ok, positions |-> [ps.positions EXCEPT ![e.mint] = end.position]]

\* handle_adapter_result: only the return data of trusted programs is read, and
\* only if the adapter itself set it.
Applicable(f) ==
    /\ f.callee \in Safe \cup {Margin}
    /\ ret.program = f.callee

ResultFor(f) == IF Applicable(f) THEN ret.changes ELSE <<>>

Applied(f) ==
    LET after[i \in 0 .. Len(ResultFor(f))] ==
            IF i = 0 THEN [ok |-> TRUE, positions |-> position[f.account]]
            ELSE ApplyChanges(f, after[i - 1], ResultFor(f)[i])
    IN  after[Len(ResultFor(f))]

-----------------------------------------------------------------------------
(* Calls                                                                   *)

\* A transaction starts, or another program calls a program that is not margin.
\* Trusted adapters call only token programs.
Call(p, who) ==
    /\ p # Margin
    /\ MayEnter(p)
    /\ \/ stack = <<>> /\ signers' = who
       \/ /\ Height > 0 /\ who = signers
          /\ Top.program \in External \/ (Top.program \in Safe /\ p \in External)
          /\ UNCHANGED signers
    /\ stack' = Append(stack, OtherFrame(p))
    /\ ret' = NoResult
    /\ UNCHANGED <<mark, position>>

\* adapter_invoke and liquidator_invoke need the authority's signature (s), which
\* holds for the transaction; anyone calls accounting_invoke.
EnterMargin(a, s, who) ==
    /\ MayEnter(Margin)
    /\ \/ stack = <<>> /\ signers' = who
       \/ /\ Height > 0 /\ who = signers
          /\ Top.program \in External
          /\ UNCHANGED signers
    /\ s => a \in who
    /\ stack' = Append(stack, MarginFrame(a, s))
    /\ ret' = NoResult
    /\ UNCHANGED <<mark, position>>

\* invoke, up to the call: p is one of the adapters named in invoke_many.
Invoke(p) ==
    /\ Height > 0 /\ Top.program = Margin
    /\ p \in Adapters \ {Margin} /\ MayEnter(p)
    /\ Start(Top.account)
    /\ stack' = Append([stack EXCEPT ![Height].callee = p], OtherFrame(p))
    /\ ret' = NoResult
    /\ UNCHANGED <<signers, position>>

\* The margin program may itself be registered as an adapter.
InvokeMargin(b, s) ==
    /\ Height > 0 /\ Top.program = Margin
    /\ Margin \in Adapters /\ MayEnter(Margin)
    /\ s => b \in signers
    /\ Start(Top.account)
    /\ stack' = Append([stack EXCEPT ![Height].callee = Margin], MarginFrame(b, s))
    /\ ret' = NoResult
    /\ UNCHANGED <<signers, position>>

\* A trusted adapter returns changes for account a.
WriteAdapterResult(a, r) ==
    /\ Height > 0 /\ Top.program \in Safe
    /\ DirectlyInvoked(a)
    /\ ret' = [program |-> Top.program, account |-> a, changes |-> r]
    /\ UNCHANGED <<stack, signers, mark, position>>

\* Any other program returns what it likes.
SetReturnData(r) ==
    /\ Height > 0 /\ Top.program \in External
    /\ ret' = [program |-> Top.program, account |-> NoAccount, changes |-> r]
    /\ UNCHANGED <<stack, signers, mark, position>>

\* The running program returns.  A margin handler that called it goes on: the
\* mark is cleared, the result applied and the return data cleared.
Return ==
    /\ Height > 0
    /\ LET h == Height - 1 IN
       /\ signers' = IF h = 0 THEN {} ELSE signers
       /\ IF h > 0 /\ stack[h].program = Margin
          THEN /\ Applied(stack[h]).ok
               /\ End(stack[h].account, h)
               /\ position' = [position EXCEPT ![stack[h].account] = Applied(stack[h]).positions]
               /\ stack' = [SubSeq(stack, 1, h) EXCEPT ![h].callee = NoAdapter]
               /\ ret' = NoResult
          ELSE /\ stack' = SubSeq(stack, 1, h)
               /\ ret' = IF h = 0 THEN NoResult ELSE ret
               /\ UNCHANGED <<mark, position>>

-----------------------------------------------------------------------------
Init ==
    /\ stack = <<>>
    /\ signers = {}
    /\ mark = [a \in Account |-> {}]
    /\ ret = NoResult
    /\ position = [a \in Account |-> [m \in Mint |-> Absent]]

\* register_position and close_position: transactions of the authority alone.
RegisterPosition(a, m) ==
    /\ stack = <<>>
    /\ ~position[a][m].registered
    /\ MayBeRegisteredOrClosed(m, {"MarginAccountAuthority"})
    /\ position' = [position EXCEPT ![a][m].registered = TRUE]
    /\ signers' = {a}
    /\ UNCHANGED <<stack, mark, ret>>

ClosePosition(a, m) ==
    /\ stack = <<>>
    /\ position[a][m].registered /\ ~position[a][m].required
    /\ MayBeRegisteredOrClosed(m, {"MarginAccountAuthority"})
    /\ position' = [position EXCEPT ![a][m] = Absent]
    /\ signers' = {a}
    /\ UNCHANGED <<stack, mark, ret>>

Next ==
    \/ \E p \in Program, who \in SUBSET Account : Call(p, who)
    \/ \E a \in Account, s \in BOOLEAN, who \in SUBSET Account : EnterMargin(a, s, who)
    \/ \E p \in Adapters : Invoke(p)
    \/ \E b \in Account, s \in BOOLEAN : InvokeMargin(b, s)
    \/ \E a \in Account, r \in Result : WriteAdapterResult(a, r)
    \/ \E r \in Result : SetReturnData(r)
    \/ Return
    \/ \E a \in Account, m \in Mint : RegisterPosition(a, m) \/ ClosePosition(a, m)

Spec == Init /\ [][Next]_vars

-----------------------------------------------------------------------------
Frame ==
    [program : Program, account : Account \cup {NoAccount}, signed : BOOLEAN,
     callee : Program \cup {NoAdapter}]

\* Types of the state; a mark is a height of the call stack, and a frame stands for
\* a margin account exactly when it is the margin program's (adapter.rs, util.rs).
TypeOK ==
    /\ stack \in Seq(Frame) /\ Height <= MaxHeight
    /\ \A h \in 1..Height : (stack[h].program = Margin) <=> (stack[h].account # NoAccount)
    /\ signers \subseteq Account
    /\ mark \in [Account -> SUBSET (1..MaxHeight)]
    /\ ret.program \in Program \cup {NoAdapter} /\ ret.account \in Account \cup {NoAccount}
    /\ ret.changes \in Result \cup {<<>>}
    /\ position \in [Account -> [Mint -> [registered : BOOLEAN, required : BOOLEAN,
                                         priced : BOOLEAN]]]
    /\ \A a \in Account, m \in Mint : ~position[a][m].registered => position[a][m] = Absent

\* An account is marked with a height exactly while a margin handler for that
\* account waits there for an adapter, so no mark outlives its call or its
\* transaction (Invocation::start, end).
MarksAreActiveInvocations ==
    \A a \in Account :
        mark[a] = {h \in 1..(Height - 1) : stack[h].account = a /\ stack[h].callee # NoAdapter}

\* The stack and the positions are well formed, and the marks are those of the
\* calls in progress.
OnlyCallsAreMarked == TypeOK /\ MarksAreActiveInvocations

\* Positions change within a call only as the adapter just called asked for, and
\* for the account it was called for, however calls are nested
\* (write_adapter_result, handle_adapter_result).
ResultsReachTheirAccount ==
    [][\A a \in Account : stack # <<>> /\ position'[a] # position[a] =>
          /\ Top.program \in Safe
          /\ ret.program = Top.program
          /\ ret.account = a]_vars

\* A position appears or disappears only in a transaction that the account's
\* authority signed: nothing that accounting_invoke reaches registers or closes
\* (adapter_result_approvals, may_be_registered_or_closed).
RegistrationIsSigned ==
    [][\A a \in Account, m \in Mint :
          position'[a][m].registered # position[a][m].registered => a \in signers']_vars

\* Within a call a registered position changes only by its own adapter, or when it
\* has none (apply_changes).
OthersPositionsUntouched ==
    [][\A a \in Account, m \in Mint :
          stack # <<>> /\ position[a][m].registered /\ position'[a][m] # position[a][m]
              => AdapterOf[m] \in {Top.program, NoAdapter}]_vars

\* What changes within a call is what its adapter asked for, where it may.
AdaptersChangeTheirOwn == ResultsReachTheirAccount /\ OthersPositionsUntouched
=============================================================================
