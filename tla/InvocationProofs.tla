-------------------------- MODULE InvocationProofs --------------------------
(***************************************************************************)
(* Proofs about Invocation, for every set of programs, accounts, tokens    *)
(* and results, and every depth of the call stack.                         *)
(***************************************************************************)
EXTENDS Invocation, RecursionTheorems

PositionState == [registered : BOOLEAN, required : BOOLEAN, priced : BOOLEAN]

WellFormed(p) == ~p.registered => p = Absent

-----------------------------------------------------------------------------
(* Applying a result.                                                      *)

\* Where one entry of a result, and where a whole result, has got to.
EntryState == [ok : BOOLEAN, position : PositionState]
ResultState == [ok : BOOLEAN, positions : [Mint -> PositionState]]
Entry == [mint : Mint, changes : Seq(Change)]

\* Only with the authority's signature does the authority approve.
LEMMA ApprovalMeansSigned ==
  ASSUME NEW f, f.callee \in Program \cup {NoAdapter},
         "MarginAccountAuthority" \in AdapterResultApprovals(f)
  PROVE  f.signed
  BY InvocationAssumption DEF AdapterResultApprovals

\* A position with nothing set is Absent.
LEMMA AbsentByFields ==
  ASSUME NEW p \in PositionState, ~p.registered, ~p.required, ~p.priced
  PROVE  p = Absent
  <1>1. p.registered = FALSE /\ p.required = FALSE /\ p.priced = FALSE
        BY DEF PositionState
  <1>2. p = [registered |-> p.registered, required |-> p.required, priced |-> p.priced]
        BY DEF PositionState
  <1>3. QED
        BY <1>1, <1>2 DEF Absent

\* One change: nothing that was refused is accepted later, and a position is
\* registered or closed only with the authority's signature.
LEMMA ChangeEffect ==
  ASSUME NEW f, f.callee \in Program \cup {NoAdapter}, NEW m \in Mint,
         NEW s \in EntryState, NEW c \in Change
  PROVE  LET r == ApplyChange(f, m, s, c)
         IN  /\ r \in EntryState
             /\ r.ok => /\ s.ok
                        /\ WellFormed(s.position) => WellFormed(r.position)
                        /\ r.position.registered # s.position.registered => f.signed
  <1> DEFINE r == ApplyChange(f, m, s, c)
             p == s.position
  <1>0. p \in PositionState /\ s.ok \in BOOLEAN /\ Absent \in PositionState
        BY DEF EntryState, PositionState, Absent
  <1>1. CASE c = "Price"
    <2>1. r = [s EXCEPT !.position.priced = p.registered]
          BY <1>1 DEF ApplyChange
    <2>2. r.ok = s.ok /\ r.position = [p EXCEPT !.priced = p.registered]
          BY <2>1 DEF EntryState
    <2>3. r \in EntryState
          BY <1>0, <2>1 DEF EntryState, PositionState
    <2>4. r.position.registered = p.registered
          BY <1>0, <2>2 DEF PositionState
    <2>5. WellFormed(p) => WellFormed(r.position)
      <3>1. r.position \in PositionState
            BY <2>3 DEF EntryState
      <3>2. ASSUME p = Absent PROVE r.position = Absent
        <4>1. p.registered = FALSE /\ p.required = FALSE /\ DOMAIN p = {"registered", "required", "priced"}
              BY <3>2 DEF Absent
        <4>2. ~r.position.registered /\ ~r.position.required /\ ~r.position.priced
              BY <2>2, <4>1
        <4>3. QED
              BY <3>1, <4>2, AbsentByFields
      <3>3. QED
            BY <2>4, <3>2 DEF WellFormed
    <2>6. QED
          BY <2>2, <2>3, <2>4, <2>5
  <1>2. CASE c \in {"Require", "Release"}
    <2>1. PICK b \in BOOLEAN :
            r = [ok |-> s.ok /\ p.registered, position |-> [p EXCEPT !.required = b]]
          BY <1>2 DEF ApplyChange
    <2>2. r \in EntryState
          BY <1>0, <2>1 DEF EntryState, PositionState
    <2>3. r.position.registered = p.registered /\ (r.ok => s.ok /\ p.registered)
          BY <1>0, <2>1 DEF PositionState
    <2>4. QED
          BY <2>2, <2>3 DEF WellFormed
  <1>3. CASE c \in {"Register", "Close"}
    <2>1. r.ok => s.ok /\ MayBeRegisteredOrClosed(m, AdapterResultApprovals(f))
          BY <1>3 DEF ApplyChange
    <2>2. r.ok \in BOOLEAN /\ DOMAIN r = {"ok", "position"}
          BY <1>3 DEF ApplyChange
    <2>3. r.position \in {Absent, [Absent EXCEPT !.registered = TRUE]}
          BY <1>3 DEF ApplyChange
    <2>4. r.position \in PositionState /\ WellFormed(r.position)
      <3>1. CASE r.position = Absent
            BY <1>0, <3>1 DEF WellFormed
      <3>2. CASE r.position = [Absent EXCEPT !.registered = TRUE]
        <4>1. r.position = [registered |-> TRUE, required |-> FALSE, priced |-> FALSE]
              BY <3>2 DEF Absent
        <4>2. QED
              BY <4>1 DEF WellFormed, PositionState
      <3>3. QED
            BY <2>3, <3>1, <3>2
    <2>5. r.ok => f.signed
          BY <2>1, ApprovalMeansSigned DEF MayBeRegisteredOrClosed
    <2>6. r \in EntryState
      <3>1. r = [ok |-> r.ok, position |-> r.position]
            BY <1>3 DEF ApplyChange
      <3>2. QED
            BY <2>2, <2>4, <3>1 DEF EntryState
    <2>7. QED
          BY <2>1, <2>4, <2>5, <2>6
  <1>4. QED
        BY <1>1, <1>2, <1>3 DEF Change

\* One entry of a result changes one position, which must be the adapter's own
\* or nobody's if it is registered.
LEMMA EntryEffect ==
  ASSUME NEW f, f.callee \in Program \cup {NoAdapter},
         NEW ps \in ResultState, NEW e \in Entry
  PROVE  LET r == ApplyChanges(f, ps, e)
         IN  /\ r \in ResultState
             /\ \A m \in Mint : m # e.mint => r.positions[m] = ps.positions[m]
             /\ r.ok =>
                  LET p == ps.positions[e.mint]
                      q == r.positions[e.mint]
                  IN  /\ ps.ok
                      /\ MayChange(f, e.mint, p)
                      /\ WellFormed(p) => WellFormed(q)
                      /\ q.registered # p.registered => f.signed
  <1> DEFINE p == ps.positions[e.mint]
             cs == e.changes
             b == [ok |-> ps.ok /\ MayChange(f, e.mint, p), position |-> p]
             F == [x \in EntryState \X Change |-> ApplyChange(f, e.mint, x[1], x[2])]
             Def(g) == [i \in 0 .. Len(cs) |-> IF i = 0 THEN b
                                               ELSE ApplyChange(f, e.mint, g[i - 1], cs[i])]
             after == CHOOSE g : g = Def(g)
             r == ApplyChanges(f, ps, e)
  <1>1. e.mint \in Mint /\ cs \in Seq(Change) /\ p \in PositionState
        BY DEF Entry, ResultState
  <1>2. b \in EntryState
        BY <1>1 DEF EntryState, MayChange
  <1>3. F \in [EntryState \X Change -> EntryState]
        BY <1>1, ChangeEffect
  <1>4. PICK g \in [0 .. Len(cs) -> EntryState] :
            /\ g[0] = b
            /\ \A i \in 1 .. Len(cs) : g[i] = F[<<g[i - 1], cs[i]>>]
    <2> HIDE DEF F, b, cs
    <2>1. \E g : IsFold(g, EntryState, F, b, cs)
          BY <1>1, <1>2, <1>3, FoldIsDefined
    <2>2. QED
          BY <2>1 DEF IsFold
  <1>5. g = Def(g)
    <2>1. ASSUME NEW i \in 1 .. Len(cs)
          PROVE  g[i] = ApplyChange(f, e.mint, g[i - 1], cs[i])
      <3>1. g[i - 1] \in EntryState /\ cs[i] \in Change
            BY <1>1, <1>4
      <3>2. QED
            BY <1>4, <3>1
    <2> HIDE DEF b, cs, F
    <2>2. \A i \in 0 .. Len(cs) : g[i] = Def(g)[i]
          BY <1>1, <1>4, <2>1
    <2>3. QED
          BY <1>4, <2>2
  <1>6. after = Def(after)
    <2>1. \E h : h = Def(h)
          BY <1>5
    <2> HIDE DEF Def
    <2>2. QED
          BY <2>1, Zenon
  <1>7. r = [ok |-> after[Len(cs)].ok,
             positions |-> [ps.positions EXCEPT ![e.mint] = after[Len(cs)].position]]
        BY DEF ApplyChanges
  <1> DEFINE Good(s) ==
                /\ s \in EntryState
                /\ s.ok => /\ ps.ok
                           /\ MayChange(f, e.mint, p)
                           /\ WellFormed(p) => WellFormed(s.position)
                           /\ s.position.registered # p.registered => f.signed
             S == {i \in Nat : i <= Len(cs) => Good(after[i])}
  <1> HIDE DEF after
  <1>8. Good(b)
        BY <1>2
  <1>9. after[0] = b /\ \A i \in 1 .. Len(cs) :
            after[i] = ApplyChange(f, e.mint, after[i - 1], cs[i])
    <2> HIDE DEF b, cs
    <2>1. QED
          BY <1>1, <1>6
  <1> HIDE DEF b
  <1>10. 0 \in S
        BY <1>8, <1>9
  <1>11. ASSUME NEW i \in Nat, i \in S PROVE i + 1 \in S
    <2>1. SUFFICES ASSUME i + 1 <= Len(cs) PROVE Good(after[i + 1])
          OBVIOUS
    <2>2. Good(after[i]) /\ cs[i + 1] \in Change
          BY <1>1, <1>11, <2>1
    <2>3. after[i + 1] = ApplyChange(f, e.mint, after[i], cs[i + 1])
      <3>1. i + 1 \in 1 .. Len(cs) /\ (i + 1) - 1 = i
            BY <1>1, <2>1
      <3>2. QED
            BY <1>9, <3>1
    <2> DEFINE s == after[i]
               t == ApplyChange(f, e.mint, s, cs[i + 1])
    <2>4. /\ t \in EntryState
          /\ t.ok => /\ s.ok
                     /\ WellFormed(s.position) => WellFormed(t.position)
                     /\ t.position.registered # s.position.registered => f.signed
          BY <1>1, <2>2, ChangeEffect
    <2> HIDE DEF s, t
    <2>5. Good(t)
          BY <2>2, <2>4 DEF s
    <2>6. QED
          BY <2>3, <2>5 DEF s, t
  <1>12. Good(after[Len(cs)])
    <2>1. Nat \subseteq S
      <3> HIDE DEF S
      <3>1. QED
            BY <1>10, <1>11, SetInduction
    <2>2. Len(cs) \in Nat
          BY <1>1
    <2>3. QED
          BY <2>1, <2>2
  <1>13. /\ r \in ResultState
         /\ \A m \in Mint : m # e.mint => r.positions[m] = ps.positions[m]
         /\ r.positions[e.mint] = after[Len(cs)].position
    <2>1. ps.positions \in [Mint -> PositionState]
          BY DEF ResultState
    <2>2. after[Len(cs)].position \in PositionState /\ after[Len(cs)].ok \in BOOLEAN
          BY <1>12 DEF EntryState
    <2> HIDE DEF cs
    <2>3. QED
          BY <1>1, <1>7, <2>1, <2>2 DEF ResultState
  <1>14. r.ok = after[Len(cs)].ok
        BY <1>7
  <1> HIDE DEF r, p
  <1>15. QED
        BY <1>12, <1>13, <1>14 DEF r, p

\* A whole result: positions that were registered and change are the adapter's
\* own or nobody's, registering and closing are signed, and a result that is
\* not the adapter's changes nothing.
LEMMA AppliedEffect ==
  ASSUME NEW f, f.callee \in Program \cup {NoAdapter},
         position[f.account] \in [Mint -> PositionState],
         ResultFor(f) \in Seq(Entry)
  PROVE  /\ Applied(f) \in ResultState
         /\ ~Applicable(f) => Applied(f).positions = position[f.account]
         /\ Applied(f).ok => \A m \in Mint :
              LET p == position[f.account][m]
                  q == Applied(f).positions[m]
              IN  /\ WellFormed(p) => WellFormed(q)
                  /\ q.registered # p.registered => f.signed
                  /\ p.registered /\ q # p => AdapterOf[m] \in {f.callee, NoAdapter}
  <1> DEFINE es == ResultFor(f)
             ps == position[f.account]
             b == [ok |-> TRUE, positions |-> ps]
             F == [x \in ResultState \X Entry |-> ApplyChanges(f, x[1], x[2])]
             Def(g) == [i \in 0 .. Len(es) |-> IF i = 0 THEN b
                                               ELSE ApplyChanges(f, g[i - 1], es[i])]
             after == CHOOSE g : g = Def(g)
  <1>1. es \in Seq(Entry) /\ Len(es) \in Nat
        OBVIOUS
  <1>2. b \in ResultState
        BY DEF ResultState
  <1>3. F \in [ResultState \X Entry -> ResultState]
        BY EntryEffect
  <1>4. PICK g \in [0 .. Len(es) -> ResultState] :
            /\ g[0] = b
            /\ \A i \in 1 .. Len(es) : g[i] = F[<<g[i - 1], es[i]>>]
    <2> HIDE DEF F, b, es
    <2>1. \E g : IsFold(g, ResultState, F, b, es)
          BY <1>1, <1>2, <1>3, FoldIsDefined
    <2>2. QED
          BY <2>1 DEF IsFold
  <1>5. g = Def(g)
    <2>1. ASSUME NEW i \in 1 .. Len(es)
          PROVE  g[i] = ApplyChanges(f, g[i - 1], es[i])
      <3>1. g[i - 1] \in ResultState /\ es[i] \in Entry
            BY <1>1, <1>4
      <3>2. QED
            BY <1>4, <3>1
    <2> HIDE DEF b, es, F
    <2>2. \A i \in 0 .. Len(es) : g[i] = Def(g)[i]
          BY <1>1, <1>4, <2>1
    <2>3. QED
          BY <1>4, <2>2
  <1>6. after = Def(after)
    <2>1. \E h : h = Def(h)
          BY <1>5
    <2> HIDE DEF Def
    <2>2. QED
          BY <2>1, Zenon
  <1>7. Applied(f) = after[Len(es)]
        BY DEF Applied
  <1> HIDE DEF after
  <1>8. after[0] = b /\ \A i \in 1 .. Len(es) :
            after[i] = ApplyChanges(f, after[i - 1], es[i])
    <2> HIDE DEF b, es, F
    <2>1. ASSUME NEW i \in 0 .. Len(es)
          PROVE  after[i] = IF i = 0 THEN b ELSE ApplyChanges(f, after[i - 1], es[i])
          BY <1>6, <2>1
    <2>2. 0 \in 0 .. Len(es) /\ \A i \in 1 .. Len(es) : i \in 0 .. Len(es) /\ i # 0
          BY <1>1
    <2>3. QED
          BY <2>1, <2>2
  <1> DEFINE Good(s) ==
                /\ s \in ResultState
                /\ s.ok => \A m \in Mint :
                     /\ WellFormed(ps[m]) => WellFormed(s.positions[m])
                     /\ s.positions[m].registered # ps[m].registered => f.signed
                     /\ ps[m].registered /\ s.positions[m] # ps[m] =>
                            AdapterOf[m] \in {f.callee, NoAdapter}
             S == {i \in Nat : i <= Len(es) => Good(after[i])}
  <1>9. 0 \in S
        BY <1>2, <1>8
  <1>10. ASSUME NEW i \in Nat, i \in S PROVE i + 1 \in S
    <2>1. SUFFICES ASSUME i + 1 <= Len(es) PROVE Good(after[i + 1])
          OBVIOUS
    <2> DEFINE s == after[i]
               e == es[i + 1]
               t == ApplyChanges(f, s, e)
    <2>2. Good(s) /\ e \in Entry
          BY <1>1, <1>10, <2>1
    <2>3. after[i + 1] = t
      <3>1. i + 1 \in 1 .. Len(es) /\ (i + 1) - 1 = i
            BY <1>1, <2>1
      <3>2. QED
            BY <1>8, <3>1
    <2>4. /\ t \in ResultState
          /\ \A m \in Mint : m # e.mint => t.positions[m] = s.positions[m]
          /\ t.ok => /\ s.ok
                     /\ MayChange(f, e.mint, s.positions[e.mint])
                     /\ WellFormed(s.positions[e.mint]) => WellFormed(t.positions[e.mint])
                     /\ t.positions[e.mint].registered # s.positions[e.mint].registered
                            => f.signed
          BY <2>2, EntryEffect
    <2> HIDE DEF s, t, e, ps
    <2>5. SUFFICES ASSUME t.ok, NEW m \in Mint
                   PROVE  /\ WellFormed(ps[m]) => WellFormed(t.positions[m])
                          /\ t.positions[m].registered # ps[m].registered => f.signed
                          /\ ps[m].registered /\ t.positions[m] # ps[m] =>
                                AdapterOf[m] \in {f.callee, NoAdapter}
          BY <2>3, <2>4 DEF s, e, t
    <2>6. CASE m # e.mint
          BY <2>2, <2>4, <2>5, <2>6
    <2>7. CASE m = e.mint
          BY <2>2, <2>4, <2>5, <2>7 DEF MayChange
    <2>8. QED
          BY <2>6, <2>7
  <1>11. Good(after[Len(es)])
    <2>1. Nat \subseteq S
      <3> HIDE DEF S
      <3>1. QED
            BY <1>9, <1>10, SetInduction
    <2>2. QED
          BY <1>1, <2>1
  <1>12. ~Applicable(f) => Applied(f) = b
    <2>1. SUFFICES ASSUME ~Applicable(f) PROVE Applied(f) = b
          OBVIOUS
    <2>2. Len(es) = 0
          BY <2>1 DEF ResultFor
    <2>3. QED
          BY <1>7, <1>8, <2>2
  <1>13. QED
        BY <1>7, <1>11, <1>12

-----------------------------------------------------------------------------
(* The invariant.                                                          *)

\* A margin handler waits for the program just above it, and nobody else and
\* not whoever runs waits for an adapter.
WaitingFrames ==
    /\ Height > 0 => Top.callee = NoAdapter
    /\ \A h \in 1 .. Height - 1 :
         stack[h].program = Margin => stack[h].callee = stack[h + 1].program
    /\ \A h \in 1 .. Height : stack[h].program # Margin => stack[h].callee = NoAdapter

\* Handlers that need the authority's signature have it.
SignedFrames == \A h \in 1 .. Height : stack[h].signed => stack[h].account \in signers

\* The return data of a trusted program is that of an adapter that a margin
\* handler has just called, and for the account of that handler.
DirectResults ==
    /\ ret.program \in Safe \cup External \cup {NoAdapter}
    /\ ret.program \in Safe =>
         /\ Height > 1
         /\ stack[Height - 1].program = Margin
         /\ stack[Height - 1].account = ret.account

IndInv ==
    /\ TypeOK
    /\ MarksAreActiveInvocations
    /\ WaitingFrames
    /\ SignedFrames
    /\ DirectResults

\* Before the first transaction the invariant holds.
LEMMA InitInv == Init => IndInv
  <1>1. SUFFICES ASSUME Init PROVE IndInv
        OBVIOUS
  <1>2. Height = 0
        BY <1>1 DEF Init, Height
  <1>3. TypeOK
    <2>1. Absent \in PositionState
          BY DEF Absent, PositionState
    <2>2. position \in [Account -> [Mint -> PositionState]]
          BY <1>1, <2>1 DEF Init
    <2>3. /\ ret.program = NoAdapter /\ ret.account = NoAccount /\ ret.changes = <<>>
          BY <1>1 DEF Init, NoResult
    <2>4. QED
          BY <1>1, <1>2, <2>2, <2>3, InvocationAssumption
          DEF Init, TypeOK, PositionState
  <1>4. MarksAreActiveInvocations
    <2>1. 1 .. Height - 1 = {}
          BY <1>2
    <2>2. QED
          BY <1>1, <2>1 DEF Init, MarksAreActiveInvocations
  <1>5. WaitingFrames /\ SignedFrames
        BY <1>2 DEF WaitingFrames, SignedFrames
  <1>6. DirectResults
        BY <1>1, InvocationAssumption DEF Init, DirectResults, NoResult, Program
  <1>7. QED
        BY <1>3, <1>4, <1>5, <1>6 DEF IndInv

\* NoResult is nobody's.
LEMMA NoResultFields ==
  /\ NoResult.program = NoAdapter /\ NoResult.account = NoAccount
  /\ NoResult.changes = <<>>
  /\ NoAdapter \notin Safe
  BY InvocationAssumption DEF NoResult, Program

\* A program other than a waiting margin handler calls: the invariant is kept.
LEMMA PushInv ==
  ASSUME IndInv, NEW fr \in Frame, fr.callee = NoAdapter,
         (fr.program = Margin) <=> (fr.account # NoAccount),
         Height < MaxHeight,
         Height > 0 => Top.program # Margin /\ signers' = signers,
         signers' \subseteq Account,
         fr.signed => fr.account \in signers',
         stack' \in Seq(Frame), Height' = Height + 1,
         \A h \in 1 .. Height : stack'[h] = stack[h],
         stack'[Height + 1] = fr,
         ret' = NoResult, UNCHANGED <<mark, position>>
  PROVE  IndInv'
  <1>1. stack \in Seq(Frame) /\ Height \in Nat
        BY DEF IndInv, TypeOK, Height
  <1>2. /\ stack' \in Seq(Frame) /\ Height' = Height + 1
        /\ \A h \in 1 .. Height : stack'[h] = stack[h]
        /\ stack'[Height + 1] = fr
        OBVIOUS
  <1>3. TypeOK'
    <2>1. \A h \in 1 .. Height' : (stack'[h].program = Margin) <=> (stack'[h].account # NoAccount)
          BY <1>1, <1>2 DEF IndInv, TypeOK
    <2>2. /\ ret'.program \in Program \cup {NoAdapter} /\ ret'.account \in Account \cup {NoAccount}
          /\ ret'.changes \in Result \cup {<<>>}
          BY NoResultFields
    <2>3. Height' <= MaxHeight
          BY <1>1, <1>2, InvocationAssumption
    <2>4. QED
          BY <1>2, <2>1, <2>2, <2>3 DEF IndInv, TypeOK
  <1>4. MarksAreActiveInvocations'
    <2>1. SUFFICES ASSUME NEW a \in Account
                   PROVE  mark[a] = {h \in 1 .. Height : stack'[h].account = a
                                                        /\ stack'[h].callee # NoAdapter}
          BY <1>1, <1>2 DEF MarksAreActiveInvocations
    <2>2. mark[a] = {h \in 1 .. Height - 1 : stack[h].account = a
                                             /\ stack[h].callee # NoAdapter}
          BY DEF IndInv, MarksAreActiveInvocations
    <2>3. Height > 0 => stack[Height].account # a
          BY InvocationAssumption, <1>1 DEF IndInv, TypeOK, Top
    <2>4. QED
          BY <1>1, <1>2, <2>2, <2>3
  <1>5. WaitingFrames'
    <2>1. Top'.callee = NoAdapter
          BY <1>2 DEF Top
    <2>2. ASSUME NEW h \in 1 .. Height, stack'[h].program = Margin
          PROVE  stack'[h].callee = stack'[h + 1].program
      <3>1. h # Height
            BY <1>1, <1>2, <2>2 DEF Top
      <3>2. h \in 1 .. Height - 1 /\ h + 1 \in 1 .. Height
            BY <1>1, <3>1
      <3>3. QED
            BY <1>2, <2>2, <3>2 DEF IndInv, WaitingFrames
    <2>3. ASSUME NEW h \in 1 .. Height + 1, stack'[h].program # Margin
          PROVE  stack'[h].callee = NoAdapter
      <3>1. CASE h \in 1 .. Height
            BY <2>3, <3>1 DEF IndInv, WaitingFrames
      <3>2. CASE h = Height + 1
            BY <3>2
      <3>3. QED
            BY <1>1, <3>1, <3>2
    <2>4. \A h \in 1 .. Height' - 1 :
             stack'[h].program = Margin => stack'[h].callee = stack'[h + 1].program
      <3>1. 1 .. Height' - 1 = 1 .. Height
            BY <1>1, <1>2
      <3>2. QED
            BY <2>2, <3>1, Zenon
    <2>5. \A h \in 1 .. Height' :
             stack'[h].program # Margin => stack'[h].callee = NoAdapter
          BY <1>2, <2>3, Zenon
    <2>6. QED
          BY <2>1, <2>4, <2>5, Zenon DEF WaitingFrames
  <1>6. SignedFrames'
        BY <1>1, <1>2 DEF IndInv, SignedFrames
  <1>7. DirectResults'
        BY NoResultFields DEF DirectResults
  <1>8. QED
        BY <1>3, <1>4, <1>5, <1>6, <1>7 DEF IndInv

\* A margin handler marks its account and calls p: the invariant is kept.
LEMMA MarkAndPushInv ==
  ASSUME IndInv, NEW p \in Program, NEW fr \in Frame, fr.callee = NoAdapter, fr.program = p,
         (fr.program = Margin) <=> (fr.account # NoAccount),
         Height > 0, Height < MaxHeight, Top.program = Margin,
         fr.signed => fr.account \in signers,
         Start(Top.account),
         stack' \in Seq(Frame), Height' = Height + 1,
         \A h \in 1 .. Height - 1 : stack'[h] = stack[h],
         NEW top, stack'[Height] = top, top.program = Margin, top.account = Top.account,
         top.callee = p, top.signed = Top.signed,
         stack'[Height + 1] = fr,
         ret' = NoResult, UNCHANGED <<signers, position>>
  PROVE  IndInv'
  <1>1. stack \in Seq(Frame) /\ Height \in Nat
        BY DEF IndInv, TypeOK, Height
  <1> DEFINE b == Top.account
  <1>2. Top \in Frame /\ Height \in 1 .. Height
        BY <1>1 DEF Top, Height
  <1>3. b \in Account
    <2>1. b # NoAccount
          BY <1>2 DEF IndInv, TypeOK, Top
    <2>2. b \in Account \cup {NoAccount}
          BY <1>2 DEF Frame
    <2>3. QED
          BY <2>1, <2>2
  <1>4. top.account = b
        OBVIOUS
  <1>5. p # NoAdapter
        BY InvocationAssumption
  <1>6. mark' = [mark EXCEPT ![b] = @ \cup {Height}] /\ mark \in [Account -> SUBSET (1 .. MaxHeight)]
        BY DEF Start, IndInv, TypeOK
  <1> HIDE DEF b
  <1>7. TypeOK'
    <2>1. ASSUME NEW h \in 1 .. Height'
          PROVE  (stack'[h].program = Margin) <=> (stack'[h].account # NoAccount)
      <3>1. CASE h \in 1 .. Height - 1
            BY <1>1, <3>1 DEF IndInv, TypeOK
      <3>2. CASE h = Height
            BY <1>3, <1>4, <3>2, InvocationAssumption
      <3>3. CASE h = Height + 1
            BY <3>3
      <3>4. QED
            BY <1>1, <3>1, <3>2, <3>3
    <2>2. /\ ret'.program \in Program \cup {NoAdapter} /\ ret'.account \in Account \cup {NoAccount}
          /\ ret'.changes \in Result \cup {<<>>}
          BY NoResultFields
    <2>3. Height' <= MaxHeight /\ Height \in 1 .. MaxHeight
          BY <1>1, InvocationAssumption
    <2>4. mark' \in [Account -> SUBSET (1 .. MaxHeight)]
          BY <1>3, <1>6, <2>3
    <2>5. QED
          BY <2>1, <2>2, <2>3, <2>4 DEF IndInv, TypeOK
  <1>8. MarksAreActiveInvocations'
    <2>1. SUFFICES ASSUME NEW a \in Account
                   PROVE  mark'[a] = {h \in 1 .. Height : stack'[h].account = a
                                                          /\ stack'[h].callee # NoAdapter}
          BY <1>1 DEF MarksAreActiveInvocations
    <2>2. mark[a] = {h \in 1 .. Height - 1 : stack[h].account = a
                                             /\ stack[h].callee # NoAdapter}
          BY DEF IndInv, MarksAreActiveInvocations
    <2>3. mark'[a] = IF a = b THEN mark[a] \cup {Height} ELSE mark[a]
          BY <1>3, <1>6
    <2>4. stack'[Height].account = b /\ stack'[Height].callee # NoAdapter
          BY <1>4, <1>5
    <2>5. {h \in 1 .. Height : stack'[h].account = a /\ stack'[h].callee # NoAdapter}
            = mark[a] \cup IF a = b THEN {Height} ELSE {}
          BY <1>1, <2>2, <2>4
    <2>6. QED
          BY <2>3, <2>5
  <1>9. WaitingFrames'
    <2>1. Top'.callee = NoAdapter
          BY DEF Top
    <2>2. ASSUME NEW h \in 1 .. Height, stack'[h].program = Margin
          PROVE  stack'[h].callee = stack'[h + 1].program
      <3>1. CASE h = Height
            BY <1>4, <3>1
      <3>2. CASE h \in 1 .. Height - 1
        <4>1. stack[h].callee = stack[h + 1].program
              BY <2>2, <3>2 DEF IndInv, WaitingFrames
        <4>2. stack'[h + 1].program = stack[h + 1].program
          <5>1. CASE h + 1 = Height
                BY <1>4, <5>1 DEF Top
          <5>2. CASE h + 1 # Height
                BY <1>1, <3>2, <5>2
          <5>3. QED
                BY <5>1, <5>2
        <4>3. QED
              BY <3>2, <4>1, <4>2
      <3>3. QED
            BY <1>1, <3>1, <3>2
    <2>3. ASSUME NEW h \in 1 .. Height + 1, stack'[h].program # Margin
          PROVE  stack'[h].callee = NoAdapter
      <3>1. CASE h \in 1 .. Height - 1
            BY <1>1, <2>3, <3>1 DEF IndInv, WaitingFrames
      <3>2. CASE h = Height + 1
            BY <3>2
      <3>3. h # Height
            BY <2>3
      <3>4. QED
            BY <1>1, <3>1, <3>2, <3>3
    <2>4. QED
          BY <1>1, <2>1, <2>2, <2>3 DEF WaitingFrames
  <1>10. SignedFrames'
    <2>1. ASSUME NEW h \in 1 .. Height + 1, stack'[h].signed
          PROVE  stack'[h].account \in signers
      <3>1. CASE h \in 1 .. Height - 1
            BY <1>1, <2>1, <3>1 DEF IndInv, SignedFrames
      <3>2. CASE h = Height
            BY <1>1, <1>4, <2>1, <3>2 DEF IndInv, SignedFrames, b, Top
      <3>3. CASE h = Height + 1
            BY <2>1, <3>3
      <3>4. QED
            BY <1>1, <3>1, <3>2, <3>3
    <2>2. QED
          BY <2>1 DEF SignedFrames
  <1>11. DirectResults'
        BY NoResultFields DEF DirectResults
  <1>12. QED
        BY <1>7, <1>8, <1>9, <1>10, <1>11 DEF IndInv

\* The frame of a margin handler is a frame.
LEMMA MarginFrames ==
  ASSUME NEW a \in Account, NEW s \in BOOLEAN
  PROVE  /\ MarginFrame(a, s) \in Frame
         /\ MarginFrame(a, s).program = Margin /\ MarginFrame(a, s).account = a
         /\ MarginFrame(a, s).signed = s /\ MarginFrame(a, s).callee = NoAdapter
         /\ a # NoAccount /\ Margin \in Program
  BY InvocationAssumption DEF MarginFrame, Frame, Program

\* So is the frame of any other program.
LEMMA OtherFrames ==
  ASSUME NEW p \in Program
  PROVE  /\ OtherFrame(p) \in Frame
         /\ OtherFrame(p).program = p /\ OtherFrame(p).account = NoAccount
         /\ OtherFrame(p).signed = FALSE /\ OtherFrame(p).callee = NoAdapter
  BY InvocationAssumption DEF OtherFrame, Frame

\* What pushing a frame does to the stack.
LEMMA Pushed ==
  ASSUME NEW st \in Seq(Frame), NEW fr \in Frame
  PROVE  /\ Append(st, fr) \in Seq(Frame)
         /\ Len(Append(st, fr)) = Len(st) + 1
         /\ \A h \in 1 .. Len(st) : Append(st, fr)[h] = st[h]
         /\ Append(st, fr)[Len(st) + 1] = fr
  OBVIOUS

WithCallee(st, h, p) == [st EXCEPT ![h].callee = p]

\* Setting the callee of a frame leaves the others alone.
LEMMA CalleeSet ==
  ASSUME NEW st \in Seq(Frame), NEW h \in 1 .. Len(st), NEW p \in Program \cup {NoAdapter}
  PROVE  /\ WithCallee(st, h, p) \in Seq(Frame)
         /\ Len(WithCallee(st, h, p)) = Len(st)
         /\ \A i \in 1 .. Len(st) : i # h => WithCallee(st, h, p)[i] = st[i]
         /\ WithCallee(st, h, p)[h] = [st[h] EXCEPT !.callee = p]
  <1> DEFINE new == WithCallee(st, h, p)
  <1> DEFINE fr == [st[h] EXCEPT !.callee = p]
  <1>1. st[h] \in Frame
        OBVIOUS
  <1>2. fr \in Frame
        BY <1>1 DEF Frame
  <1>3. new = [st EXCEPT ![h] = fr]
        BY DEF WithCallee
  <1> HIDE DEF fr, new
  <1>4. new \in Seq(Frame) /\ Len(new) = Len(st)
        BY <1>2, <1>3
  <1>5. \A i \in 1 .. Len(st) : new[i] = IF i = h THEN fr ELSE st[i]
        BY <1>3
  <1>6. QED
        BY <1>4, <1>5 DEF fr, new

\* What is left of a stack when the frames above n are gone.
LEMMA Cut ==
  ASSUME NEW st \in Seq(Frame), NEW n \in Nat, n <= Len(st)
  PROVE  /\ SubSeq(st, 1, n) \in Seq(Frame)
         /\ Len(SubSeq(st, 1, n)) = n
         /\ \A i \in 1 .. n : SubSeq(st, 1, n)[i] = st[i]
  OBVIOUS

\* The stack that returning to a margin handler leaves: its frame waits no more.
LEMMA CutAndCleared ==
  ASSUME NEW st \in Seq(Frame), NEW n \in 1 .. Len(st)
  PROVE  /\ WithCallee(SubSeq(st, 1, n), n, NoAdapter) \in Seq(Frame)
         /\ Len(WithCallee(SubSeq(st, 1, n), n, NoAdapter)) = n
         /\ \A i \in 1 .. n : i # n => WithCallee(SubSeq(st, 1, n), n, NoAdapter)[i] = st[i]
         /\ WithCallee(SubSeq(st, 1, n), n, NoAdapter)[n] = [st[n] EXCEPT !.callee = NoAdapter]
  <1> DEFINE cut == SubSeq(st, 1, n)
             fr == [st[n] EXCEPT !.callee = NoAdapter]
             new == WithCallee(cut, n, NoAdapter)
  <1>1. /\ cut \in Seq(Frame) /\ Len(cut) = n
        /\ \A i \in 1 .. n : cut[i] = st[i]
        BY Cut
  <1>2. fr \in Frame
    <2>1. st[n] \in Frame
          OBVIOUS
    <2>2. QED
          BY <2>1 DEF Frame
  <1>3. new = [cut EXCEPT ![n] = fr]
    <2>1. cut[n] = st[n]
          BY <1>1
    <2> HIDE DEF cut
    <2>2. QED
          BY <2>1 DEF WithCallee
  <1> HIDE DEF cut, fr, new
  <1>4. new \in Seq(Frame) /\ Len(new) = n
        BY <1>1, <1>2, <1>3
  <1>5. \A i \in 1 .. n : new[i] = IF i = n THEN fr ELSE cut[i]
        BY <1>1, <1>3
  <1>6. new[n] = fr /\ \A i \in 1 .. n : i # n => new[i] = st[i]
        BY <1>1, <1>5
  <1>7. QED
        BY <1>4, <1>6 DEF cut, fr, new

\* What a step leaves of the stack is a stack.
LEMMA StackFacts ==
  ASSUME IndInv
  PROVE  /\ stack \in Seq(Frame) /\ Height = Len(stack) /\ Height \in Nat
         /\ stack = <<>> <=> Height = 0
         /\ Height > 0 => Top \in Frame /\ Height \in 1 .. Height
         /\ signers \subseteq Account
  BY DEF IndInv, TypeOK, Height, Top

\* Calls of and by programs other than the margin program, and of a margin
\* handler, keep the invariant.
LEMMA CallInv ==
  ASSUME IndInv, NEW who \in SUBSET Account,
         \/ \E p \in Program : Call(p, who)
         \/ \E a \in Account, s \in BOOLEAN : EnterMargin(a, s, who)
  PROVE  IndInv'
  <1>1. PICK fr :
            /\ stack' = Append(stack, fr)
            /\ fr \in Frame /\ fr.callee = NoAdapter
            /\ (fr.program = Margin) <=> (fr.account # NoAccount)
            /\ fr.signed => fr.account \in signers'
    <2>1. ASSUME NEW p \in Program, Call(p, who)
          PROVE  /\ stack' = Append(stack, OtherFrame(p))
                 /\ OtherFrame(p) \in Frame /\ OtherFrame(p).callee = NoAdapter
                 /\ (OtherFrame(p).program = Margin) <=> (OtherFrame(p).account # NoAccount)
                 /\ OtherFrame(p).signed => OtherFrame(p).account \in signers'
      <3>1. stack' = Append(stack, OtherFrame(p)) /\ p # Margin
            BY <2>1 DEF Call
      <3>2. QED
            BY <3>1, OtherFrames
    <2>2. ASSUME NEW a \in Account, NEW s \in BOOLEAN, EnterMargin(a, s, who)
          PROVE  /\ stack' = Append(stack, MarginFrame(a, s))
                 /\ MarginFrame(a, s) \in Frame /\ MarginFrame(a, s).callee = NoAdapter
                 /\ (MarginFrame(a, s).program = Margin) <=> (MarginFrame(a, s).account # NoAccount)
                 /\ MarginFrame(a, s).signed => MarginFrame(a, s).account \in signers'
      <3>1. stack' = Append(stack, MarginFrame(a, s)) /\ (s => a \in signers')
            BY <2>2 DEF EnterMargin
      <3>2. QED
            BY <3>1, MarginFrames
    <2>3. QED
          BY <2>1, <2>2
  <1>2. Height < MaxHeight
        BY DEF Call, EnterMargin, MayEnter
  <1>3. Height > 0 => Top.program # Margin /\ signers' = signers
        BY InvocationAssumption, StackFacts DEF Call, EnterMargin
  <1>4. signers' \subseteq Account
        BY StackFacts DEF Call, EnterMargin
  <1>5. ret' = NoResult /\ UNCHANGED <<mark, position>>
        BY DEF Call, EnterMargin
  <1>6. /\ stack' \in Seq(Frame) /\ Height' = Height + 1
        /\ \A h \in 1 .. Height : stack'[h] = stack[h]
        /\ stack'[Height + 1] = fr
        BY <1>1, Pushed, StackFacts DEF Height
  <1>7. QED
        BY <1>1, <1>2, <1>3, <1>4, <1>5, <1>6, PushInv

\* Invoking an adapter, or the margin program itself as one, keeps it.
LEMMA InvokeInv ==
  ASSUME IndInv, NEW p \in Adapters,
         \/ Invoke(p)
         \/ p = Margin /\ \E b \in Account, s \in BOOLEAN : InvokeMargin(b, s)
  PROVE  IndInv'
  <1> DEFINE mid == WithCallee(stack, Height, p)
  <1>1. /\ Height > 0 /\ Top.program = Margin /\ Height < MaxHeight
        /\ Start(Top.account) /\ ret' = NoResult /\ UNCHANGED <<signers, position>>
        BY DEF Invoke, InvokeMargin, MayEnter
  <1>3. p \in Program
        BY InvocationAssumption
  <1>2. PICK fr :
            /\ stack' = Append(mid, fr)
            /\ fr \in Frame /\ fr.callee = NoAdapter /\ fr.program = p
            /\ (fr.program = Margin) <=> (fr.account # NoAccount)
            /\ fr.signed => fr.account \in signers
    <2>1. CASE Invoke(p)
      <3>1. stack' = Append(mid, OtherFrame(p)) /\ p # Margin
            BY <2>1 DEF Invoke, WithCallee
      <3> HIDE DEF mid
      <3>2. /\ OtherFrame(p) \in Frame /\ OtherFrame(p).callee = NoAdapter
            /\ OtherFrame(p).program = p
            /\ (OtherFrame(p).program = Margin) <=> (OtherFrame(p).account # NoAccount)
            /\ OtherFrame(p).signed => OtherFrame(p).account \in signers
            BY <1>3, <3>1, OtherFrames
      <3>3. QED
            BY <3>1, <3>2
    <2>2. ASSUME p = Margin, NEW b \in Account, NEW s \in BOOLEAN, InvokeMargin(b, s)
          PROVE  /\ stack' = Append(mid, MarginFrame(b, s))
                 /\ MarginFrame(b, s) \in Frame /\ MarginFrame(b, s).callee = NoAdapter
                 /\ MarginFrame(b, s).program = p
                 /\ (MarginFrame(b, s).program = Margin) <=> (MarginFrame(b, s).account # NoAccount)
                 /\ MarginFrame(b, s).signed => MarginFrame(b, s).account \in signers
      <3>1. stack' = Append(mid, MarginFrame(b, s)) /\ (s => b \in signers)
            BY <2>2 DEF InvokeMargin, WithCallee
      <3> HIDE DEF mid
      <3>2. QED
            BY <2>2, <3>1, MarginFrames
    <2> HIDE DEF mid
    <2>3. QED
          BY <2>1, <2>2
  <1>6. /\ mid \in Seq(Frame) /\ Len(mid) = Height
        /\ \A i \in 1 .. Height : i # Height => mid[i] = stack[i]
        /\ mid[Height] = [Top EXCEPT !.callee = p]
    <2>1. Height \in 1 .. Len(stack) /\ stack \in Seq(Frame) /\ Height = Len(stack)
          BY <1>1, StackFacts
    <2>2. QED
          BY <1>3, <2>1, CalleeSet DEF Top
  <1> HIDE DEF mid
  <1>7. /\ stack' \in Seq(Frame) /\ Height' = Height + 1
        /\ \A h \in 1 .. Height : stack'[h] = mid[h]
        /\ stack'[Height + 1] = fr
        BY <1>2, <1>6, Pushed DEF Height
  <1> DEFINE top == mid[Height]
  <1>8. /\ top.program = Margin /\ top.account = Top.account
        /\ top.callee = p /\ top.signed = Top.signed
        BY <1>1, <1>6, StackFacts DEF Frame
  <1>9. stack'[Height] = top /\ \A h \in 1 .. Height - 1 : stack'[h] = stack[h]
    <2>1. Height \in 1 .. Height
          /\ \A h \in 1 .. Height - 1 : h \in 1 .. Height /\ h # Height
          BY <1>1, StackFacts
    <2>2. QED
          BY <1>6, <1>7, <2>1
  <1> HIDE DEF top
  <1>10. QED
        BY <1>1, <1>2, <1>3, <1>7, <1>8, <1>9, MarkAndPushInv

\* What programs return keeps it: a trusted adapter that may write has been
\* called by a margin handler for that account.
LEMMA WriteInv ==
  ASSUME IndInv, NEW r \in Result,
         (\E a \in Account : WriteAdapterResult(a, r)) \/ SetReturnData(r)
  PROVE  IndInv'
  <1>1. UNCHANGED <<stack, signers, mark, position>> /\ Height > 0
        BY DEF WriteAdapterResult, SetReturnData
  <1>2. Height' = Height
        BY <1>1 DEF Height
  <1>3. PICK x \in Account \cup {NoAccount} :
            ret' = [program |-> Top.program, account |-> x, changes |-> r]
        BY DEF WriteAdapterResult, SetReturnData
  <1>4. ret'.program = Top.program /\ ret'.account = x /\ ret'.changes = r
        BY <1>3
  <1>5. Top.program \in Program
        BY <1>1, StackFacts DEF Frame
  <1>6. TypeOK'
        BY <1>1, <1>2, <1>3, <1>4, <1>5 DEF IndInv, TypeOK
  <1>7. MarksAreActiveInvocations' /\ WaitingFrames' /\ SignedFrames'
        BY <1>1, <1>2
        DEF IndInv, MarksAreActiveInvocations, WaitingFrames, SignedFrames, Top
  <1>8. DirectResults'
    <2>1. ASSUME NEW a \in Account, WriteAdapterResult(a, r) PROVE DirectResults'
      <3>1. ret'.account = a /\ Top.program \in Safe /\ (Height - 1) \in mark[a]
            BY <2>1, <1>4 DEF WriteAdapterResult, DirectlyInvoked
      <3>2. Height - 1 \in 1 .. Height - 1 /\ stack[Height - 1].account = a
            BY <3>1 DEF IndInv, MarksAreActiveInvocations
      <3>3. Height - 1 \in 1 .. Height /\ Height > 1
            BY <3>2, StackFacts
      <3>4. stack[Height - 1].program = Margin
            BY <3>2, <3>3, InvocationAssumption DEF IndInv, TypeOK
      <3>5. QED
            BY <1>1, <1>2, <1>4, <3>1, <3>2, <3>3, <3>4 DEF DirectResults
    <2>2. CASE SetReturnData(r)
          BY <1>4, <2>2, InvocationAssumption DEF SetReturnData, DirectResults
    <2>3. QED
          BY <2>1, <2>2
  <1>9. QED
        BY <1>6, <1>7, <1>8 DEF IndInv

\* The authority's own transactions keep it.
LEMMA RegistrationInv ==
  ASSUME IndInv, NEW a \in Account, NEW m \in Mint,
         RegisterPosition(a, m) \/ ClosePosition(a, m)
  PROVE  IndInv'
  <1>1. UNCHANGED <<stack, mark, ret>> /\ signers' = {a} /\ stack = <<>>
        BY DEF RegisterPosition, ClosePosition
  <1>2. Height' = Height /\ Height = 0
        BY <1>1, StackFacts DEF Height
  <1>3. position \in [Account -> [Mint -> PositionState]]
        BY DEF IndInv, TypeOK, PositionState
  <1> DEFINE q == IF RegisterPosition(a, m)
                  THEN [position[a][m] EXCEPT !.registered = TRUE] ELSE Absent
  <1>4. q \in PositionState /\ WellFormed(q)
    <2>1. position[a][m] \in PositionState
          BY <1>3
    <2>2. [position[a][m] EXCEPT !.registered = TRUE] \in PositionState
          /\ [position[a][m] EXCEPT !.registered = TRUE].registered = TRUE
          BY <2>1 DEF PositionState
    <2>3. Absent \in PositionState
          BY DEF Absent, PositionState
    <2>4. QED
          BY <2>2, <2>3 DEF WellFormed
  <1>5. position' = [position EXCEPT ![a] = [position[a] EXCEPT ![m] = q]]
        BY DEF RegisterPosition, ClosePosition
  <1> HIDE DEF q
  <1>6. \A b \in Account, n \in Mint :
            position'[b][n] = IF b = a /\ n = m THEN q ELSE position[b][n]
        BY <1>3, <1>5
  <1>7. position' \in [Account -> [Mint -> PositionState]]
        BY <1>3, <1>4, <1>5
  <1>8. TypeOK'
    <2>1. ASSUME NEW b \in Account, NEW n \in Mint, ~position'[b][n].registered
          PROVE  position'[b][n] = Absent
      <3>1. position'[b][n] = IF b = a /\ n = m THEN q ELSE position[b][n]
            BY <1>6
      <3>2. ~position[b][n].registered => position[b][n] = Absent
            BY DEF IndInv, TypeOK
      <3>3. QED
            BY <1>4, <2>1, <3>1, <3>2, Zenon DEF WellFormed
    <2>2. QED
          BY <1>1, <1>2, <1>7, <2>1 DEF IndInv, TypeOK, PositionState
  <1>9. MarksAreActiveInvocations'
        BY <1>1, <1>2 DEF IndInv, MarksAreActiveInvocations
  <1>10. WaitingFrames' /\ SignedFrames'
        BY <1>1, <1>2 DEF WaitingFrames, SignedFrames
  <1>11. DirectResults'
        BY <1>1, <1>2 DEF IndInv, DirectResults
  <1>12. QED
        BY <1>8, <1>9, <1>10, <1>11 DEF IndInv

\* Returning to a program that is not a waiting margin handler keeps the
\* invariant, and so does the end of the transaction.
LEMMA PlainReturnInv ==
  ASSUME IndInv, Return, Height = 1 \/ stack[Height - 1].program # Margin
  PROVE  IndInv'
  <1> DEFINE h == Height - 1
  <1>1. Height > 0 /\ Height \in Nat /\ h \in Nat /\ h <= Height
        BY StackFacts DEF Return
  <1>2. /\ stack' = SubSeq(stack, 1, h)
        /\ ret' = IF h = 0 THEN NoResult ELSE ret
        /\ signers' = IF h = 0 THEN {} ELSE signers
        /\ UNCHANGED <<mark, position>>
        BY <1>1 DEF Return
  <1>3. /\ stack' \in Seq(Frame) /\ Height' = h
        /\ \A i \in 1 .. h : stack'[i] = stack[i]
    <2>1. /\ stack' \in Seq(Frame) /\ Len(stack') = h
          /\ \A i \in 1 .. h : stack'[i] = stack[i]
          BY <1>1, <1>2, StackFacts, Cut
    <2>2. QED
          BY <2>1 DEF Height
  <1>4. ret.program \notin Safe
        BY <1>1 DEF IndInv, DirectResults
  <1>5. h = 0 \/ stack[h].program # Margin
        BY <1>1
  <1> HIDE DEF h
  <1>6. Height = h + 1
        BY <1>1 DEF h
  <1>7. TypeOK'
    <2>1. \A i \in 1 .. h : (stack'[i].program = Margin) <=> (stack'[i].account # NoAccount)
          BY <1>1, <1>3 DEF IndInv, TypeOK
    <2>2. /\ ret'.program \in Program \cup {NoAdapter} /\ ret'.account \in Account \cup {NoAccount}
          /\ ret'.changes \in Result \cup {<<>>}
          BY <1>2, NoResultFields DEF IndInv, TypeOK
    <2>3. Height' <= MaxHeight
          BY <1>1, <1>3, InvocationAssumption DEF IndInv, TypeOK
    <2>4. signers' \subseteq Account
          BY <1>2, StackFacts
    <2>5. QED
          BY <1>2, <1>3, <2>1, <2>2, <2>3, <2>4 DEF IndInv, TypeOK
  <1>8. MarksAreActiveInvocations'
    <2>1. SUFFICES ASSUME NEW a \in Account
                   PROVE  mark[a] = {i \in 1 .. h - 1 : stack'[i].account = a
                                                        /\ stack'[i].callee # NoAdapter}
          BY <1>2, <1>3 DEF MarksAreActiveInvocations
    <2>2. mark[a] = {i \in 1 .. h : stack[i].account = a /\ stack[i].callee # NoAdapter}
          BY <1>1, <1>6 DEF IndInv, MarksAreActiveInvocations
    <2>3. h > 0 => stack[h].account # a
          BY <1>1, <1>5, InvocationAssumption DEF IndInv, TypeOK
    <2>4. QED
          BY <1>1, <1>3, <2>2, <2>3
  <1>9. WaitingFrames'
    <2>1. ASSUME NEW i \in 1 .. h - 1, stack'[i].program = Margin
          PROVE  stack'[i].callee = stack'[i + 1].program
      <3>1. i \in 1 .. h /\ i + 1 \in 1 .. h /\ i \in 1 .. Height - 1
            BY <1>1, <1>6
      <3>2. QED
            BY <1>3, <2>1, <3>1 DEF IndInv, WaitingFrames
    <2>2. ASSUME NEW i \in 1 .. h, stack'[i].program # Margin
          PROVE  stack'[i].callee = NoAdapter
          BY <1>1, <1>3, <2>2 DEF IndInv, WaitingFrames
    <2>3. h > 0 => Top'.callee = NoAdapter
          BY <1>1, <1>3, <1>5, <2>2 DEF Top
    <2>4. QED
          BY <1>3, <2>1, <2>2, <2>3 DEF WaitingFrames
  <1>10. SignedFrames'
        BY <1>1, <1>2, <1>3 DEF IndInv, SignedFrames
  <1>11. DirectResults'
        BY <1>2, <1>4, NoResultFields DEF IndInv, DirectResults
  <1>12. QED
        BY <1>7, <1>8, <1>9, <1>10, <1>11 DEF IndInv

\* Returning to a margin handler clears exactly the mark that it had set.
LEMMA MarginReturnInv ==
  ASSUME IndInv, Return, Height > 1, stack[Height - 1].program = Margin
  PROVE  IndInv'
  <1> DEFINE h == Height - 1
             f == stack[h]
             new == Applied(f).positions
             cut == SubSeq(stack, 1, h)
  <1>1. Height \in Nat /\ h \in Nat /\ h > 0 /\ h < Height /\ h \in 1 .. h
        BY StackFacts
  <1>2. /\ Applied(f).ok
        /\ mark' = [mark EXCEPT ![f.account] = @ \ {h}]
        /\ position' = [position EXCEPT ![f.account] = new]
        /\ stack' = [cut EXCEPT ![h].callee = NoAdapter]
        /\ ret' = NoResult
        /\ signers' = signers
    <2>1. h # 0 /\ h > 0 /\ stack[h].program = Margin
          BY <1>1
    <2>2. QED
          BY <2>1, Zenon DEF Return, End
  <1>3. f \in Frame /\ f.account \in Account /\ f.callee \in Program \cup {NoAdapter}
    <2>1. f \in Frame
          BY <1>1, StackFacts
    <2>2. f.account # NoAccount
          BY <1>1 DEF IndInv, TypeOK
    <2>3. QED
          BY <2>1, <2>2 DEF Frame
  <1>4. position \in [Account -> [Mint -> PositionState]]
        BY DEF IndInv, TypeOK, PositionState
  <1>5. /\ new \in [Mint -> PositionState]
        /\ \A m \in Mint : WellFormed(position[f.account][m]) => WellFormed(new[m])
    <2>1. ResultFor(f) \in Seq(Entry)
      <3>1. Result \subseteq Seq(Entry)
            BY InvocationAssumption, Zenon DEF Entry
      <3>4. <<>> \in Seq(Entry)
            OBVIOUS
      <3>2. ret.changes \in Result \cup {<<>>}
            BY DEF IndInv, TypeOK
      <3>3. QED
            BY <3>1, <3>4, <3>2 DEF ResultFor
    <2>2. position[f.account] \in [Mint -> PositionState]
          BY <1>3, <1>4
    <2>3. Applied(f) \in ResultState
          BY <1>3, <2>1, <2>2, AppliedEffect
    <2>4. \A m \in Mint : WellFormed(position[f.account][m]) => WellFormed(new[m])
          BY <1>2, <1>3, <2>1, <2>2, AppliedEffect
    <2>5. QED
          BY <2>3, <2>4 DEF ResultState
  <1>7. /\ stack' \in Seq(Frame) /\ Height' = h
        /\ \A i \in 1 .. h : i # h => stack'[i] = stack[i]
        /\ stack'[h] = [f EXCEPT !.callee = NoAdapter]
    <2>1. h \in 1 .. Len(stack) /\ stack \in Seq(Frame)
          BY <1>1, StackFacts
    <2>2. stack' = WithCallee(cut, h, NoAdapter)
          BY <1>2 DEF WithCallee
    <2>3. Height' = Len(stack')
          BY DEF Height
    <2> HIDE DEF h
    <2>4. QED
          BY <2>1, <2>2, <2>3, CutAndCleared
  <1> DEFINE top == stack'[h]
  <1>8. /\ \A i \in 1 .. h - 1 : stack'[i] = stack[i]
        /\ top.program = Margin /\ top.account = f.account
        /\ top.callee = NoAdapter /\ top.signed = f.signed
    <2>1. \A i \in 1 .. h - 1 : i \in 1 .. h /\ i # h
          BY <1>1
    <2> HIDE DEF cut, h, f
    <2>2. \A i \in 1 .. h - 1 : stack'[i] = stack[i]
          BY <1>7, <2>1
    <2>3. f.program = Margin
          BY DEF f, h
    <2>4. QED
          BY <1>3, <1>7, <2>2, <2>3 DEF Frame
  <1> HIDE DEF h, f, cut, top, new
  <1>9. Height = h + 1
        BY <1>1 DEF h
  <1>10. TypeOK'
    <2>1. ASSUME NEW i \in 1 .. h
          PROVE  (stack'[i].program = Margin) <=> (stack'[i].account # NoAccount)
      <3>1. CASE i = h
            BY <1>3, <1>8, <3>1, InvocationAssumption DEF top
      <3>2. CASE i \in 1 .. h - 1
            BY <1>1, <1>8, <3>2 DEF IndInv, TypeOK
      <3>3. QED
            BY <1>1, <3>1, <3>2
    <2>2. /\ ret'.program \in Program \cup {NoAdapter} /\ ret'.account \in Account \cup {NoAccount}
          /\ ret'.changes \in Result \cup {<<>>}
          BY <1>2, NoResultFields
    <2>3. Height' <= MaxHeight
          BY <1>1, <1>7, InvocationAssumption DEF IndInv, TypeOK
    <2>4. mark' \in [Account -> SUBSET (1 .. MaxHeight)]
          BY <1>2, <1>3 DEF IndInv, TypeOK
    <2>5. position' \in [Account -> [Mint -> PositionState]]
          BY <1>2, <1>3, <1>4, <1>5
    <2>6. ASSUME NEW a \in Account, NEW m \in Mint, ~position'[a][m].registered
          PROVE  position'[a][m] = Absent
      <3>1. WellFormed(position[a][m])
            BY DEF IndInv, TypeOK, WellFormed
      <3>2. position'[a] = IF a = f.account THEN new ELSE position[a]
            BY <1>2, <1>4
      <3>3. QED
            BY <1>5, <2>6, <3>1, <3>2 DEF WellFormed
    <2>7. QED
          BY <1>2, <1>7, <2>1, <2>2, <2>3, <2>4, <2>5, <2>6 DEF IndInv, TypeOK, PositionState
  <1>11. MarksAreActiveInvocations'
    <2>1. SUFFICES ASSUME NEW a \in Account
                   PROVE  mark'[a] = {i \in 1 .. h - 1 : stack'[i].account = a
                                                         /\ stack'[i].callee # NoAdapter}
          BY <1>7 DEF MarksAreActiveInvocations
    <2>2. mark[a] = {i \in 1 .. h : stack[i].account = a /\ stack[i].callee # NoAdapter}
          BY <1>1, <1>9 DEF IndInv, MarksAreActiveInvocations
    <2>3. mark'[a] = mark[a] \ {h}
      <3>1. a # f.account => h \notin mark[a]
            BY <2>2 DEF f
      <3>2. mark'[a] = IF a = f.account THEN mark[a] \ {h} ELSE mark[a]
            BY <1>2, <1>3 DEF IndInv, TypeOK
      <3>3. QED
            BY <3>1, <3>2
    <2>4. QED
          BY <1>1, <1>8, <2>2, <2>3
  <1>12. WaitingFrames'
    <2>1. ASSUME NEW i \in 1 .. h - 1, stack'[i].program = Margin
          PROVE  stack'[i].callee = stack'[i + 1].program
      <3>1. i \in 1 .. Height - 1
            BY <1>1, <1>9
      <3>2. stack'[i + 1].program = stack[i + 1].program
        <4>1. CASE i + 1 = h
              BY <1>8, <4>1 DEF top, f, h
        <4>2. CASE i + 1 # h
              BY <1>1, <1>8, <4>2
        <4>3. QED
              BY <4>1, <4>2
      <3>3. QED
            BY <1>8, <2>1, <3>1, <3>2 DEF IndInv, WaitingFrames
    <2>2. ASSUME NEW i \in 1 .. h, stack'[i].program # Margin
          PROVE  stack'[i].callee = NoAdapter
      <3>1. i \in 1 .. h - 1 /\ i \in 1 .. Height
            BY <1>1, <1>8, <1>9, <2>2 DEF top
      <3>2. QED
            BY <1>8, <2>2, <3>1 DEF IndInv, WaitingFrames
    <2>3. Top'.callee = NoAdapter
          BY <1>7, <1>8 DEF Top, top
    <2>4. QED
          BY <1>7, <2>1, <2>2, <2>3 DEF WaitingFrames
  <1>13. SignedFrames'
    <2>1. ASSUME NEW i \in 1 .. h, stack'[i].signed
          PROVE  stack'[i].account \in signers
      <3>1. CASE i = h
            BY <1>1, <1>8, <1>9, <2>1, <3>1 DEF IndInv, SignedFrames, top, f
      <3>2. CASE i \in 1 .. h - 1
            BY <1>1, <1>8, <1>9, <2>1, <3>2 DEF IndInv, SignedFrames
      <3>3. QED
            BY <1>1, <3>1, <3>2
    <2>2. QED
          BY <1>2, <1>7, <2>1 DEF SignedFrames
  <1>14. DirectResults'
        BY <1>2, NoResultFields DEF DirectResults
  <1>15. QED
        BY <1>10, <1>11, <1>12, <1>13, <1>14 DEF IndInv

\* Every step keeps the invariant.
LEMMA NextInv == IndInv /\ [Next]_vars => IndInv'
  <1>1. SUFFICES ASSUME IndInv, [Next]_vars PROVE IndInv'
        OBVIOUS
  <1>2. ASSUME NEW p \in Program, NEW who \in SUBSET Account, Call(p, who)
        PROVE  IndInv'
        BY <1>1, <1>2, CallInv
  <1>3. ASSUME NEW a \in Account, NEW s \in BOOLEAN, NEW who \in SUBSET Account,
               EnterMargin(a, s, who)
        PROVE  IndInv'
        BY <1>1, <1>3, CallInv
  <1>4. ASSUME NEW p \in Adapters, Invoke(p) PROVE IndInv'
        BY <1>1, <1>4, InvokeInv
  <1>5. ASSUME NEW b \in Account, NEW s \in BOOLEAN, InvokeMargin(b, s)
        PROVE  IndInv'
    <2>1. Margin \in Adapters
          BY <1>5 DEF InvokeMargin
    <2>2. QED
          BY <1>1, <1>5, <2>1, InvokeInv
  <1>6. ASSUME NEW r \in Result,
               (\E a \in Account : WriteAdapterResult(a, r)) \/ SetReturnData(r)
        PROVE  IndInv'
        BY <1>1, <1>6, WriteInv
  <1>7. ASSUME Return PROVE IndInv'
    <2>1. Height > 0 /\ Height \in Nat
          BY <1>1, <1>7, StackFacts DEF Return
    <2>2. CASE Height = 1 \/ stack[Height - 1].program # Margin
          BY <1>1, <1>7, <2>2, PlainReturnInv
    <2>3. CASE Height > 1 /\ stack[Height - 1].program = Margin
          BY <1>1, <1>7, <2>3, MarginReturnInv
    <2>4. QED
          BY <2>1, <2>2, <2>3
  <1>8. ASSUME NEW a \in Account, NEW m \in Mint,
               RegisterPosition(a, m) \/ ClosePosition(a, m)
        PROVE  IndInv'
        BY <1>1, <1>8, RegistrationInv
  <1>9. CASE UNCHANGED vars
        BY <1>1, <1>9
        DEF vars, IndInv, TypeOK, MarksAreActiveInvocations, WaitingFrames, SignedFrames,
            DirectResults, Height, Top
  <1>10. QED
        BY <1>1, <1>2, <1>3, <1>4, <1>5, <1>6, <1>7, <1>8, <1>9 DEF Next

\* The inductive invariant holds in every reachable state.
THEOREM Invariance == Spec => []IndInv
  <1>1. QED
        BY InitInv, NextInv, PTL DEF Spec

\* An account carries exactly the marks of the margin handlers that wait for an
\* adapter on its behalf, in every reachable state, whatever calls whatever
\* (Invocation::start and end in util.rs).
THEOREM MarkedByCalls == Spec => []OnlyCallsAreMarked
  <1>1. IndInv => OnlyCallsAreMarked
        BY DEF IndInv, OnlyCallsAreMarked
  <1>2. QED
        BY <1>1, Invariance, PTL

-----------------------------------------------------------------------------
(* What a step does to positions.                                          *)

\* The steps that change positions are the return to a margin handler and the
\* authority's own transactions.
LEMMA WhoChangesPositions ==
  ASSUME IndInv, [Next]_vars, position' # position
  PROVE  \/ /\ Return /\ Height > 1 /\ stack[Height - 1].program = Margin
         \/ \E a \in Account, m \in Mint : RegisterPosition(a, m) \/ ClosePosition(a, m)
  <1>1. \A p \in Program, who \in SUBSET Account : ~Call(p, who)
        BY DEF Call
  <1>2. \A a \in Account, s \in BOOLEAN, who \in SUBSET Account : ~EnterMargin(a, s, who)
        BY DEF EnterMargin
  <1>3. /\ \A p \in Adapters : ~Invoke(p)
        /\ \A b \in Account, s \in BOOLEAN : ~InvokeMargin(b, s)
        BY DEF Invoke, InvokeMargin
  <1>4. /\ \A a \in Account, r \in Result : ~WriteAdapterResult(a, r)
        /\ \A r \in Result : ~SetReturnData(r)
        BY DEF WriteAdapterResult, SetReturnData
  <1>5. Return => Height > 1 /\ stack[Height - 1].program = Margin
    <2>1. Height \in Nat
          BY StackFacts
    <2>2. QED
          BY <2>1 DEF Return
  <1>6. position' # position => ~UNCHANGED vars
        BY DEF vars
  <1>7. QED
        BY <1>1, <1>2, <1>3, <1>4, <1>5, <1>6 DEF Next

\* What returning to a margin handler does to the positions: those of the account
\* it was called for, as far as the adapter itself asked for it, and registering
\* and closing only with the signature.
LEMMA ReturnEffect ==
  ASSUME IndInv, Return, Height > 1, stack[Height - 1].program = Margin,
         NEW a \in Account, position'[a] # position[a]
  PROVE  /\ Top.program \in Safe /\ ret.program = Top.program /\ ret.account = a
         /\ \A m \in Mint :
              /\ position'[a][m].registered # position[a][m].registered => a \in signers'
              /\ position[a][m].registered /\ position'[a][m] # position[a][m] =>
                   AdapterOf[m] \in {Top.program, NoAdapter}
  <1> DEFINE h == Height - 1
             f == stack[h]
             new == Applied(f).positions
  <1>1. Height \in Nat /\ h \in Nat /\ h > 0 /\ h < Height /\ h \in 1 .. Height
        BY StackFacts
  <1>2. /\ Applied(f).ok
        /\ position' = [position EXCEPT ![f.account] = new]
        /\ signers' = signers
    <2>1. h # 0 /\ h > 0 /\ stack[h].program = Margin
          BY <1>1
    <2>2. QED
          BY <2>1, Zenon DEF Return
  <1>3. f \in Frame /\ f.account \in Account /\ f.callee \in Program \cup {NoAdapter}
    <2>1. f \in Frame
          BY <1>1, StackFacts
    <2>2. f.account # NoAccount
          BY <1>1 DEF IndInv, TypeOK
    <2>3. QED
          BY <2>1, <2>2 DEF Frame
  <1>4. f.callee = Top.program
    <2>1. h \in 1 .. Height - 1 /\ h + 1 = Height
          BY <1>1
    <2>2. QED
          BY <2>1 DEF IndInv, WaitingFrames, Top
  <1>5. f.signed => f.account \in signers
        BY <1>1 DEF IndInv, SignedFrames
  <1>6. ret.program \in Safe => ret.account = f.account
        BY DEF IndInv, DirectResults
  <1>7. position \in [Account -> [Mint -> PositionState]]
        BY DEF IndInv, TypeOK, PositionState
  <1>8. ResultFor(f) \in Seq(Entry)
    <2>1. Result \subseteq Seq(Entry)
          BY InvocationAssumption, Zenon DEF Entry
    <2>2. <<>> \in Seq(Entry)
          OBVIOUS
    <2>3. ret.changes \in Result \cup {<<>>}
          BY DEF IndInv, TypeOK
    <2>4. QED
          BY <2>1, <2>2, <2>3 DEF ResultFor
  <1>9. position[f.account] \in [Mint -> PositionState]
        BY <1>3, <1>7
  <1>10. ~Applicable(f) => new = position[f.account]
        BY <1>3, <1>8, <1>9, AppliedEffect
  <1>11. \A m \in Mint :
            /\ new[m].registered # position[f.account][m].registered => f.signed
            /\ position[f.account][m].registered /\ new[m] # position[f.account][m] =>
                 AdapterOf[m] \in {f.callee, NoAdapter}
        BY <1>2, <1>3, <1>8, <1>9, AppliedEffect
  <1> HIDE DEF new, f, h
  <1>12. a = f.account /\ position'[a] = new
        BY <1>2, <1>3, <1>7
  <1>13. Applicable(f)
        BY <1>10, <1>12
  <1>14. ret.program = f.callee /\ f.callee \in Safe
    <2>1. ret.program = f.callee /\ f.callee \in Safe \cup {Margin}
          BY <1>13 DEF Applicable
    <2>2. ret.program \in Safe \cup External \cup {NoAdapter}
          BY DEF IndInv, DirectResults
    <2>3. QED
          BY <2>1, <2>2, InvocationAssumption DEF Program
  <1>15. QED
        BY <1>2, <1>4, <1>5, <1>6, <1>11, <1>12, <1>14

\* A position appears or disappears only in a transaction that the account's
\* authority signed, whatever adapters return and however calls are nested
\* (adapter_result_approvals, may_be_registered_or_closed).
THEOREM SignedRegistration == Spec => RegistrationIsSigned
  <1>1. ASSUME IndInv, [Next]_vars, NEW a \in Account, NEW m \in Mint,
               position'[a][m].registered # position[a][m].registered
        PROVE  a \in signers'
    <2>1. position' # position /\ position'[a] # position[a]
          BY <1>1
    <2>2. CASE Return /\ Height > 1 /\ stack[Height - 1].program = Margin
          BY <1>1, <2>1, <2>2, ReturnEffect
    <2>3. ASSUME NEW b \in Account, NEW n \in Mint,
                 RegisterPosition(b, n) \/ ClosePosition(b, n)
          PROVE  a \in signers'
      <3>1. PICK q : position' = [position EXCEPT ![b][n] = q]
            BY <2>3 DEF RegisterPosition, ClosePosition
      <3>2. position \in [Account -> [Mint -> PositionState]]
            BY <1>1 DEF IndInv, TypeOK, PositionState
      <3>3. a = b
            BY <2>1, <3>1, <3>2
      <3>4. QED
            BY <2>3, <3>3 DEF RegisterPosition, ClosePosition
    <2>4. QED
          BY <1>1, <2>1, <2>2, <2>3, WhoChangesPositions
  <1>2. IndInv /\ [Next]_vars =>
          \A a \in Account, m \in Mint :
              position'[a][m].registered # position[a][m].registered => a \in signers'
        BY <1>1
  <1>3. QED
        BY <1>2, Invariance, PTL DEF Spec, RegistrationIsSigned

\* Within a call, an account's positions change only when the program just called
\* is a trusted adapter that was called for this account and asked for it, and
\* then only positions that are its own or nobody's (write_adapter_result,
\* handle_adapter_result, apply_changes).
THEOREM OwnChangesOnly == Spec => AdaptersChangeTheirOwn
  <1>1. ASSUME IndInv, [Next]_vars, NEW a \in Account, stack # <<>>,
               position'[a] # position[a]
        PROVE  Return /\ Height > 1 /\ stack[Height - 1].program = Margin
    <2>1. position' # position
          BY <1>1
    <2>2. \A b \in Account, m \in Mint : ~(RegisterPosition(b, m) \/ ClosePosition(b, m))
          BY <1>1 DEF RegisterPosition, ClosePosition
    <2>3. QED
          BY <1>1, <2>1, <2>2, WhoChangesPositions
  <1>2. IndInv /\ [Next]_vars =>
          \A a \in Account : stack # <<>> /\ position'[a] # position[a] =>
              /\ Top.program \in Safe
              /\ ret.program = Top.program
              /\ ret.account = a
        BY <1>1, ReturnEffect
  <1>3. IndInv /\ [Next]_vars =>
          \A a \in Account, m \in Mint :
              stack # <<>> /\ position[a][m].registered /\ position'[a][m] # position[a][m]
                  => AdapterOf[m] \in {Top.program, NoAdapter}
        BY <1>1, ReturnEffect
  <1>4. Spec => ResultsReachTheirAccount
        BY <1>2, Invariance, PTL DEF Spec, ResultsReachTheirAccount
  <1>5. Spec => OthersPositionsUntouched
        BY <1>3, Invariance, PTL DEF Spec, OthersPositionsUntouched
  <1>6. QED
        BY <1>4, <1>5, PTL DEF AdaptersChangeTheirOwn
=============================================================================
