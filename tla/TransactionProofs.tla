------------------------- MODULE TransactionProofs -------------------------
(***************************************************************************)
(* Proofs about the client's transactions: Packing, for every set of       *)
(* requests, every list of lookup tables and every limit; and TxBuilder,   *)
(* for every finite set of tokens, every set of operations and every       *)
(* length of a run.                                                        *)
(***************************************************************************)
EXTENDS Packing, TxBuilder, RecursionTheorems

-----------------------------------------------------------------------------
(*                                Packing                                  *)


-----------------------------------------------------------------------------
(* Builders: joining, reversing, and who signs.                            *)

InstructionLists(builders) == [i \in DOMAIN builders |-> builders[i].instructions]

SignerLists(builders) == [i \in DOMAIN builders |-> builders[i].signers]

LEMMA BuilderFields ==
  ASSUME NEW b \in Builder
  PROVE  b.instructions \in Seq(Instruction) /\ b.signers \in Seq(Key)
  BY DEF Builder

LEMMA ListsType ==
  ASSUME NEW bs \in Seq(Builder)
  PROVE  /\ InstructionLists(bs) \in Seq(Seq(Instruction))
         /\ Len(InstructionLists(bs)) = Len(bs)
         /\ \A i \in 1 .. Len(bs) : InstructionLists(bs)[i] = bs[i].instructions
         /\ SignerLists(bs) \in Seq(Seq(Key))
         /\ Len(SignerLists(bs)) = Len(bs)
         /\ \A i \in 1 .. Len(bs) : SignerLists(bs)[i] = bs[i].signers
  <1> DEFINE n == Len(bs)
  <1>1. n \in Nat /\ DOMAIN bs = 1 .. n /\ \A i \in 1 .. n : bs[i] \in Builder
    OBVIOUS
  <1>2. \A i \in 1 .. n : bs[i].instructions \in Seq(Instruction) /\ bs[i].signers \in Seq(Key)
    BY <1>1, BuilderFields
  <1>3. /\ InstructionLists(bs) = [i \in 1 .. n |-> bs[i].instructions]
        /\ SignerLists(bs) = [i \in 1 .. n |-> bs[i].signers]
    BY <1>1 DEF InstructionLists, SignerLists
  <1> HIDE DEF n
  <1>4. /\ InstructionLists(bs) \in Seq(Seq(Instruction)) /\ Len(InstructionLists(bs)) = n
        /\ \A i \in 1 .. n : InstructionLists(bs)[i] = bs[i].instructions
    BY <1>1, <1>2, <1>3
  <1>5. /\ SignerLists(bs) \in Seq(Seq(Key)) /\ Len(SignerLists(bs)) = n
        /\ \A i \in 1 .. n : SignerLists(bs)[i] = bs[i].signers
    BY <1>1, <1>2, <1>3
  <1> QED
    BY <1>4, <1>5 DEF n

LEMMA InstructionsAre ==
  ASSUME NEW bs \in Seq(Builder)
  PROVE  /\ instructions(bs) = FlattenSeq(InstructionLists(bs))
         /\ instructions(bs) \in Seq(Instruction)
  BY ListsType, FlattenSeqType DEF instructions, InstructionLists

LEMMA JoinType ==
  ASSUME NEW bs \in Seq(Builder)
  PROVE  /\ ijoin(bs) \in Builder
         /\ ijoin(bs).instructions = instructions(bs)
         /\ ijoin(bs).signers = FlattenSeq(SignerLists(bs))
  <1>1. FlattenSeq(SignerLists(bs)) \in Seq(Key) /\ instructions(bs) \in Seq(Instruction)
    BY ListsType, FlattenSeqType, InstructionsAre
  <1>2. ijoin(bs) = [instructions |-> instructions(bs), signers |-> FlattenSeq(SignerLists(bs))]
    BY DEF ijoin, instructions, SignerLists
  <1> QED
    BY <1>1, <1>2 DEF Builder

\* Builders side by side: their instructions side by side.
LEMMA InstructionsConcat ==
  ASSUME NEW bs \in Seq(Builder), NEW cs \in Seq(Builder)
  PROVE  instructions(bs \o cs) = instructions(bs) \o instructions(cs)
  <1> DEFINE ds == bs \o cs
             u == InstructionLists(ds)
             v == InstructionLists(bs)
             w == InstructionLists(cs)
             m == Len(bs)
             n == Len(cs)
  <1>1. /\ ds \in Seq(Builder) /\ Len(ds) = m + n /\ m \in Nat /\ n \in Nat
        /\ \A i \in 1 .. m + n : ds[i] = IF i <= m THEN bs[i] ELSE cs[i - m]
    BY ConcatProperties
  <1>2. u \in Seq(Seq(Instruction)) /\ Len(u) = Len(ds) /\ \A i \in 1 .. Len(ds) : u[i] = ds[i].instructions
    <2> HIDE DEF ds
    <2> QED
      BY <1>1, ListsType
  <1>3. /\ v \in Seq(Seq(Instruction)) /\ Len(v) = m /\ \A i \in 1 .. m : v[i] = bs[i].instructions
        /\ w \in Seq(Seq(Instruction)) /\ Len(w) = n /\ \A i \in 1 .. n : w[i] = cs[i].instructions
    BY ListsType
  <1> HIDE DEF ds, u, v, w, m, n
  <1>4. /\ v \o w \in Seq(Seq(Instruction)) /\ Len(v \o w) = m + n
        /\ \A i \in 1 .. m + n : (v \o w)[i] = IF i <= m THEN v[i] ELSE w[i - m]
    <2>1. v \in Seq(Seq(Instruction)) /\ w \in Seq(Seq(Instruction))
      BY <1>3
    <2>2. /\ v \o w \in Seq(Seq(Instruction)) /\ Len(v \o w) = Len(v) + Len(w)
          /\ \A i \in 1 .. Len(v) + Len(w) : (v \o w)[i] = IF i <= Len(v) THEN v[i] ELSE w[i - Len(v)]
      BY <2>1, ConcatProperties
    <2> QED
      BY <1>3, <2>2, Zenon
  <1> DEFINE x == v \o w
  <1>5. ASSUME NEW i \in 1 .. m + n PROVE u[i] = x[i]
    <2>1. u[i] = ds[i].instructions
      BY <1>1, <1>2
    <2> HIDE DEF x
    <2>2. CASE i <= m
      <3>1. i \in 1 .. m /\ ds[i] = bs[i] /\ x[i] = v[i]
        BY <1>1, <1>4, <2>2 DEF x
      <3> QED
        BY <1>3, <2>1, <3>1
    <2>3. CASE ~(i <= m)
      <3>1. i - m \in 1 .. n
        BY <1>1, <2>3
      <3>2. ds[i] = cs[i - m]
        BY <1>1, <2>3
      <3>3. x[i] = w[i - m]
        BY <1>4, <2>3 DEF x
      <3> QED
        BY <1>3, <2>1, <3>1, <3>2, <3>3
    <2> QED
      BY <2>2, <2>3
  <1>6. u = [i \in 1 .. m + n |-> u[i]] /\ x = [i \in 1 .. m + n |-> x[i]]
    <2>1. x \in Seq(Seq(Instruction)) /\ Len(x) = m + n
      BY <1>4
    <2> HIDE DEF x
    <2> QED
      BY <1>1, <1>2, <2>1
  <1>7. u = x
    <2> HIDE DEF x
    <2> QED
      BY <1>5, <1>6
  <1>8. FlattenSeq(v \o w) = FlattenSeq(v) \o FlattenSeq(w)
    BY <1>3, FlattenConcat
  <1>9. instructions(ds) = FlattenSeq(u) /\ instructions(bs) = FlattenSeq(v) /\ instructions(cs) = FlattenSeq(w)
    BY <1>1, InstructionsAre DEF u, v, w
  <1> QED
    BY <1>7, <1>8, <1>9 DEF ds

LEMMA InstructionsSingle ==
  ASSUME NEW b \in Builder
  PROVE  instructions(<<b>>) = b.instructions /\ <<b>> \in Seq(Builder)
  <1>1. b.instructions \in Seq(Instruction)
    BY BuilderFields
  <1>2. <<b>> \in Seq(Builder) /\ InstructionLists(<<b>>) = <<b.instructions>>
    BY DEF InstructionLists
  <1>3. FlattenSeq(<<b.instructions>>) = b.instructions
    BY <1>1, FlattenSingle
  <1> QED
    BY <1>2, <1>3, InstructionsAre

LEMMA InstructionsEmpty == instructions(<< >>) = << >>
  BY FlattenEmpty DEF instructions

\* Reversing deeply, for condense_right, reverses the instructions.
LEMMA DeepReverseProperties ==
  ASSUME NEW bs \in Seq(Builder)
  PROVE  /\ DeepReverse(bs) \in Seq(Builder) /\ Len(DeepReverse(bs)) = Len(bs)
         /\ \A i \in 1 .. Len(bs) :
              /\ Len(bs) - i + 1 \in 1 .. Len(bs)
              /\ DeepReverse(bs)[i].instructions = Reverse(bs[Len(bs) - i + 1].instructions)
              /\ DeepReverse(bs)[i].signers = bs[Len(bs) - i + 1].signers
         /\ instructions(DeepReverse(bs)) = Reverse(instructions(bs))
  <1> DEFINE n == Len(bs)
             inner == [i \in DOMAIN bs |-> [bs[i] EXCEPT !.instructions = Reverse(@)]]
             r == DeepReverse(bs)
  <1>1. n \in Nat /\ DOMAIN bs = 1 .. n /\ \A i \in 1 .. n : bs[i] \in Builder
    OBVIOUS
  <1>2. ASSUME NEW b \in Builder
        PROVE  LET c == [b EXCEPT !.instructions = Reverse(@)]
               IN  c \in Builder /\ c.instructions = Reverse(b.instructions) /\ c.signers = b.signers
    <2>1. Reverse(b.instructions) \in Seq(Instruction)
      BY BuilderFields, ReverseProperties
    <2> DEFINE t == Reverse(b.instructions)
    <2>2. [b EXCEPT !.instructions = t] \in Builder /\ [b EXCEPT !.instructions = t].instructions = t
          /\ [b EXCEPT !.instructions = t].signers = b.signers
      <3> HIDE DEF t
      <3> QED
        BY <2>1 DEF Builder, t
    <2> QED
      BY <2>2
  <1>3. /\ inner \in Seq(Builder) /\ Len(inner) = n
        /\ \A i \in 1 .. n : /\ inner[i].instructions = Reverse(bs[i].instructions)
                             /\ inner[i].signers = bs[i].signers
    <2>1. inner = [i \in 1 .. n |-> [bs[i] EXCEPT !.instructions = Reverse(@)]]
      BY <1>1
    <2> HIDE DEF n, inner
    <2>2. \A i \in 1 .. n : inner[i] = [bs[i] EXCEPT !.instructions = Reverse(@)]
      BY <2>1, Zenon
    <2>3. \A i \in 1 .. n : /\ inner[i] \in Builder
                            /\ inner[i].instructions = Reverse(bs[i].instructions)
                            /\ inner[i].signers = bs[i].signers
      BY <1>1, <1>2, <2>2, Zenon
    <2>4. inner = [i \in 1 .. n |-> inner[i]]
      BY <2>1, <2>2, Zenon
    <2> QED
      BY <1>1, <2>3, <2>4
  <1>4. r = Reverse(inner)
    BY DEF DeepReverse
  <1> HIDE DEF n, inner, r
  <1>5. /\ r \in Seq(Builder) /\ Len(r) = n
        /\ \A i \in 1 .. n : n - i + 1 \in 1 .. n /\ r[i] = inner[n - i + 1]
    <2>1. /\ r \in Seq(Builder) /\ Len(r) = Len(inner)
          /\ \A i \in 1 .. Len(inner) : /\ Len(inner) - i + 1 \in 1 .. Len(inner)
                                        /\ r[i] = inner[Len(inner) - i + 1]
      <3>1. inner \in Seq(Builder)
        BY <1>3
      <3> QED
        BY <1>4, <3>1, ReverseProperties
    <2> QED
      BY <1>3, <2>1
  <1>6. \A i \in 1 .. n : /\ n - i + 1 \in 1 .. n
                          /\ r[i].instructions = Reverse(bs[n - i + 1].instructions)
                          /\ r[i].signers = bs[n - i + 1].signers
    BY <1>3, <1>5, Zenon
  <1> HIDE DEF r
  <1> DEFINE u == InstructionLists(r)
             v == InstructionLists(bs)
             w == Turned(v)
  <1>7. u \in Seq(Seq(Instruction)) /\ Len(u) = n /\ \A i \in 1 .. n : u[i] = r[i].instructions
    BY <1>5, ListsType
  <1>8. v \in Seq(Seq(Instruction)) /\ Len(v) = n /\ \A i \in 1 .. n : v[i] = bs[i].instructions
    BY ListsType DEF n
  <1>9. w \in Seq(Seq(Instruction)) /\ Len(w) = n /\ \A i \in 1 .. n : w[i] = Reverse(v[n - i + 1])
    <2> HIDE DEF v
    <2> QED
      BY <1>8, TurnedType
  <1>10. u = w
    <2>1. ASSUME NEW i \in 1 .. n PROVE u[i] = w[i]
      <3> HIDE DEF u, v, w
      <3>1. n - i + 1 \in 1 .. n /\ u[i] = Reverse(bs[n - i + 1].instructions)
        BY <1>6, <1>7, Zenon
      <3>2. w[i] = Reverse(v[n - i + 1]) /\ v[n - i + 1] = bs[n - i + 1].instructions
        BY <1>8, <1>9, <3>1, Zenon
      <3> QED
        BY <3>1, <3>2, Zenon
    <2> HIDE DEF u, w
    <2>2. u = [i \in 1 .. n |-> u[i]] /\ w = [i \in 1 .. n |-> w[i]]
      BY <1>7, <1>9
    <2> QED
      BY <2>1, <2>2
  <1>11. FlattenSeq(w) = Reverse(FlattenSeq(v))
    <2> HIDE DEF v
    <2> QED
      BY <1>8, FlattenTurned
  <1>12. instructions(r) = Reverse(instructions(bs))
    <2>1. instructions(r) = FlattenSeq(u) /\ instructions(bs) = FlattenSeq(v)
      BY <1>5, InstructionsAre
    <2> HIDE DEF u, v, w
    <2> QED
      BY <1>10, <1>11, <2>1
  <1> QED
    BY <1>5, <1>6, <1>12 DEF n, r

LEMMA SignaturesAndAccounts ==
  ASSUME NEW ixs, NEW k
  PROVE  /\ k \in NeedsSignature(ixs) <=> \E ix \in ToSet(ixs) : k \in ix.signs
         /\ k \in Accounts(ixs) <=> \E ix \in ToSet(ixs) : k \in ix.keys
  BY Zenon DEF NeedsSignature, Accounts, ToSet

LEMMA ReverseSignaturesAndAccounts ==
  ASSUME NEW ixs \in Seq(Instruction)
  PROVE  NeedsSignature(Reverse(ixs)) = NeedsSignature(ixs) /\ Accounts(Reverse(ixs)) = Accounts(ixs)
  <1>1. ToSet(Reverse(ixs)) = ToSet(ixs)
    BY ReverseProperties
  <1>2. \A k : k \in NeedsSignature(Reverse(ixs)) <=> k \in NeedsSignature(ixs)
    BY <1>1, SignaturesAndAccounts, Zenon
  <1>3. \A k : k \in Accounts(Reverse(ixs)) <=> k \in Accounts(ixs)
    BY <1>1, SignaturesAndAccounts, Zenon
  <1> QED
    BY <1>2, <1>3, Zenon

\* Joined builders bring all the keypairs that their instructions need.
LEMMA JoinHasSigners ==
  ASSUME NEW bs \in Seq(Builder), \A i \in 1 .. Len(bs) : HasSigners(bs[i])
  PROVE  HasSigners(ijoin(bs))
  <1> DEFINE u == InstructionLists(bs)
             v == SignerLists(bs)
  <1>1. /\ u \in Seq(Seq(Instruction)) /\ Len(u) = Len(bs) /\ \A i \in 1 .. Len(bs) : u[i] = bs[i].instructions
        /\ v \in Seq(Seq(Key)) /\ Len(v) = Len(bs) /\ \A i \in 1 .. Len(bs) : v[i] = bs[i].signers
    BY ListsType
  <1>2. ijoin(bs).instructions = FlattenSeq(u) /\ ijoin(bs).signers = FlattenSeq(v)
    BY JoinType, InstructionsAre
  <1> HIDE DEF u, v
  <1>3. ASSUME NEW k \in NeedsSignature(FlattenSeq(u)) PROVE k \in ToSet(FlattenSeq(v))
    <2>1. PICK ix \in ToSet(FlattenSeq(u)) : k \in ix.signs
      BY <1>3, SignaturesAndAccounts, Zenon
    <2>2. PICK i \in 1 .. Len(u) : ix \in ToSet(u[i])
      BY <1>1, FlattenElements, Zenon
    <2>3. i \in 1 .. Len(bs) /\ ix \in ToSet(bs[i].instructions)
      BY <1>1, <2>2
    <2>4. k \in NeedsSignature(bs[i].instructions)
      BY <2>1, <2>3, SignaturesAndAccounts, Zenon
    <2>5. k \in ToSet(bs[i].signers)
      BY <2>3, <2>4 DEF HasSigners
    <2>6. i \in 1 .. Len(v) /\ k \in ToSet(v[i])
      BY <1>1, <2>3, <2>5
    <2> QED
      BY <1>1, <2>6, FlattenElements, Zenon
  <1> QED
    BY <1>2, <1>3 DEF HasSigners

-----------------------------------------------------------------------------
(* Sizes.                                                                  *)

\* p lists the sums of the first sizes.
IsDataSum(p, ixs) ==
    /\ p \in [0 .. Len(ixs) -> Nat]
    /\ p[0] = 0
    /\ \A i \in 1 .. Len(ixs) : p[i] = p[i - 1] + ixs[i].bytes

LEMMA DataSumIsDefined ==
  ASSUME NEW ixs \in Seq(Instruction)
  PROVE  \E p : IsDataSum(p, ixs)
  <1> DEFINE F == [z \in Nat \X Instruction |-> z[1] + z[2].bytes]
  <1>1. \A ix \in Instruction : ix.bytes \in Nat
    BY PackingAssumption
  <1>2. F \in [Nat \X Instruction -> Nat] /\ \A a \in Nat, ix \in Instruction : F[<<a, ix>>] = a + ix.bytes
    BY <1>1
  <1>3. PICK g : IsFold(g, Nat, F, 0, ixs)
    <2>1. 0 \in Nat
      OBVIOUS
    <2> HIDE DEF F
    <2> QED
      BY <1>2, <2>1, FoldIsDefined
  <1> HIDE DEF F
  <1>4. ASSUME NEW i \in 1 .. Len(ixs) PROVE g[i] = g[i - 1] + ixs[i].bytes
    <2>1. i - 1 \in 0 .. Len(ixs) /\ ixs[i] \in Instruction
      OBVIOUS
    <2>2. g[i - 1] \in Nat /\ g[i] = F[<<g[i - 1], ixs[i]>>]
      BY <1>3, <2>1, Zenon DEF IsFold
    <2> QED
      BY <1>2, <2>1, <2>2, Zenon
  <1>5. IsDataSum(g, ixs)
    BY <1>3, <1>4, Zenon DEF IsFold, IsDataSum
  <1> QED
    BY <1>5

\* The sums are what the sizes make them.
LEMMA DataSizeIs ==
  ASSUME NEW ixs \in Seq(Instruction), NEW p, IsDataSum(p, ixs)
  PROVE  DataSize(ixs) = p[Len(ixs)] /\ DataSize(ixs) \in Nat
  <1> DEFINE n == Len(ixs)
             Def(f) == [i \in 0 .. n |-> IF i = 0 THEN 0 ELSE f[i - 1] + ixs[i].bytes]
             q == CHOOSE f : f = Def(f)
  <1>1. /\ n \in Nat /\ p \in [0 .. n -> Nat] /\ p[0] = 0
        /\ \A i \in 1 .. n : p[i] = p[i - 1] + ixs[i].bytes
    BY DEF IsDataSum
  <1>2. DataSize(ixs) = q[n]
    BY DEF DataSize
  <1> HIDE DEF n
  <1>3. p = Def(p)
    <2>1. ASSUME NEW i \in 0 .. n PROVE p[i] = IF i = 0 THEN 0 ELSE p[i - 1] + ixs[i].bytes
      <3>1. CASE i = 0
        BY <1>1, <3>1
      <3>2. CASE i # 0
        <4>1. i \in 1 .. n
          BY <1>1, <3>2
        <4> QED
          BY <1>1, <3>2, <4>1
      <3> QED
        BY <3>1, <3>2
    <2>2. p = [i \in 0 .. n |-> p[i]]
      BY <1>1
    <2> QED
      BY <2>1, <2>2, Zenon
  <1>4. q = Def(q)
    <2> HIDE DEF Def
    <2> QED
      BY <1>3, Zenon
  <1> HIDE DEF q
  <1>5. \A i \in 0 .. n : q[i] = IF i = 0 THEN 0 ELSE q[i - 1] + ixs[i].bytes
    BY <1>4, Zenon
  <1> DEFINE S == {j \in Nat : j <= n => q[j] = p[j]}
  <1>6. 0 \in S
    <2>1. 0 \in 0 .. n
      BY <1>1
    <2> QED
      BY <1>1, <1>5, <2>1
  <1>7. ASSUME NEW j \in Nat, j \in S PROVE j + 1 \in S
    <2>1. SUFFICES ASSUME j + 1 <= n PROVE q[j + 1] = p[j + 1]
      OBVIOUS
    <2>2. j + 1 \in 0 .. n /\ j + 1 \in 1 .. n /\ j + 1 # 0 /\ (j + 1) - 1 = j /\ j <= n
      BY <1>1, <2>1
    <2>3. q[j + 1] = q[j] + ixs[j + 1].bytes
      BY <1>5, <2>2
    <2>4. p[j + 1] = p[j] + ixs[j + 1].bytes
      BY <1>1, <2>2
    <2>5. q[j] = p[j]
      BY <1>7, <2>2
    <2> QED
      BY <2>3, <2>4, <2>5
  <1>8. Nat \subseteq S
    <2> HIDE DEF S
    <2> QED
      BY <1>6, <1>7, SetInduction
  <1>9. q[n] = p[n] /\ p[n] \in Nat
    BY <1>1, <1>8
  <1> QED
    BY <1>2, <1>9 DEF n

\* The instructions have the same size in whichever order they are.
LEMMA ReverseDataSize ==
  ASSUME NEW ixs \in Seq(Instruction)
  PROVE  DataSize(Reverse(ixs)) = DataSize(ixs)
  <1> DEFINE n == Len(ixs)
             r == Reverse(ixs)
  <1>1. PICK p : IsDataSum(p, ixs)
    BY DataSumIsDefined
  <1>2. n \in Nat /\ r \in Seq(Instruction) /\ Len(r) = n /\ \A i \in 1 .. n : r[i] = ixs[n - i + 1]
    BY ReverseProperties
  <1>3. DataSize(ixs) = p[n]
    BY <1>1, DataSizeIs
  <1>4. p[0] = 0 /\ \A i \in 1 .. n : p[i] = p[i - 1] + ixs[i].bytes /\ ixs[i].bytes \in Nat
    <2>1. \A i \in 1 .. n : ixs[i] \in Instruction
      OBVIOUS
    <2> QED
      BY <1>1, <2>1, PackingAssumption DEF IsDataSum
  <1>5. \A i \in 0 .. n : p[i] \in Nat
    BY <1>1 DEF IsDataSum
  <1> HIDE DEF n, r
  <1> DEFINE S == {j \in Nat : j <= n => p[n - j] <= p[n]}
  <1>6. Nat \subseteq S
    <2>1. 0 \in S
      BY <1>2, <1>5
    <2>2. ASSUME NEW j \in Nat, j \in S PROVE j + 1 \in S
      <3>1. SUFFICES ASSUME j + 1 <= n PROVE p[n - (j + 1)] <= p[n]
        OBVIOUS
      <3>2. n - j \in 1 .. n /\ (n - j) - 1 = n - (j + 1) /\ n - (j + 1) \in 0 .. n /\ j <= n /\ n - j \in 0 .. n /\ n \in 0 .. n
        BY <1>2, <3>1
      <3>3. p[n - j] = p[(n - j) - 1] + ixs[n - j].bytes /\ ixs[n - j].bytes \in Nat
        BY <1>4, <3>2, Zenon
      <3>4. p[n - j] <= p[n]
        BY <2>2, <3>2
      <3>5. p[n - j] \in Nat /\ p[n - (j + 1)] \in Nat /\ p[n] \in Nat
        BY <1>5, <3>2, Zenon
      <3>6. p[n - j] = p[n - (j + 1)] + ixs[n - j].bytes
        BY <3>2, <3>3, Zenon
      <3> DEFINE x == p[n - j]
                 y == p[n - (j + 1)]
                 z == p[n]
                 w == ixs[n - j].bytes
      <3>7. x = y + w /\ x <= z /\ x \in Nat /\ y \in Nat /\ z \in Nat /\ w \in Nat
        BY <3>3, <3>4, <3>5, <3>6, Zenon
      <3> HIDE DEF x, y, z, w
      <3>8. y <= z
        BY <3>7
      <3> QED
        BY <3>8 DEF y, z
    <2> HIDE DEF S
    <2> QED
      BY <2>1, <2>2, SetInduction
  <1> DEFINE q == [i \in 0 .. n |-> p[n] - p[n - i]]
  <1>7. IsDataSum(q, r)
    <2>0. \A i \in 0 .. n : q[i] = p[n] - p[n - i]
      OBVIOUS
    <2>1. q \in [0 .. n -> Nat]
      <3>1. SUFFICES ASSUME NEW i \in 0 .. n PROVE p[n] - p[n - i] \in Nat
        BY Zenon
      <3>2. i \in Nat /\ i <= n /\ n - i \in 0 .. n /\ n \in 0 .. n
        BY <1>2
      <3>3. p[n - i] <= p[n] /\ p[n] \in Nat /\ p[n - i] \in Nat
        BY <1>5, <1>6, <3>2
      <3> QED
        BY <3>3
    <2>2. q[0] = 0
      <3>1. 0 \in 0 .. n /\ n - 0 = n /\ n \in 0 .. n
        BY <1>2
      <3>2. q[0] = p[n] - p[n - 0] /\ p[n] \in Nat
        BY <1>5, <2>0, <3>1, Zenon
      <3> HIDE DEF q
      <3> QED
        BY <3>1, <3>2
    <2>3. ASSUME NEW i \in 1 .. n PROVE q[i] = q[i - 1] + r[i].bytes
      <3>1. /\ i \in 0 .. n /\ i - 1 \in 0 .. n /\ n - i \in 0 .. n /\ n - (i - 1) \in 0 .. n /\ n \in 0 .. n
            /\ n - (i - 1) = n - i + 1 /\ n - i + 1 \in 1 .. n /\ (n - i + 1) - 1 = n - i
        BY <1>2
      <3>2. q[i] = p[n] - p[n - i] /\ q[i - 1] = p[n] - p[n - (i - 1)]
        BY <2>0, <3>1, Zenon
      <3>3. p[n - i + 1] = p[(n - i + 1) - 1] + ixs[n - i + 1].bytes /\ ixs[n - i + 1].bytes \in Nat
        BY <1>4, <3>1, Zenon
      <3>4. r[i] = ixs[n - i + 1] /\ p[n] \in Nat /\ p[n - i] \in Nat
        BY <1>2, <1>5, <3>1, Zenon
      <3> HIDE DEF q
      <3> DEFINE x == p[n]
                 y == p[n - i]
                 z == p[n - i + 1]
                 w == ixs[n - i + 1].bytes
      <3>5. q[i] = x - y /\ q[i - 1] = x - z /\ z = y + w /\ r[i].bytes = w
        BY <3>1, <3>2, <3>3, <3>4, Zenon
      <3>6. x \in Nat /\ y \in Nat /\ w \in Nat
        BY <3>3, <3>4, Zenon
      <3> HIDE DEF x, y, z, w
      <3> QED
        BY <3>5, <3>6
    <2> HIDE DEF q
    <2> QED
      BY <1>2, <2>1, <2>2, <2>3, Zenon DEF IsDataSum
  <1>8. DataSize(r) = q[n]
    <2> HIDE DEF q
    <2> QED
      BY <1>2, <1>7, DataSizeIs
  <1>9. q[n] = p[n]
    <2>1. n \in 0 .. n /\ n - n = 0
      BY <1>2
    <2>2. q[n] = p[n] - p[n - n] /\ p[n] \in Nat
      BY <1>5, <2>1, Zenon
    <2> HIDE DEF q
    <2> QED
      BY <1>4, <2>1, <2>2
  <1> QED
    BY <1>3, <1>8, <1>9 DEF r

LEMMA MessageSizeIsPositive ==
  ASSUME NEW ixs \in Seq(Instruction), NEW chosen
  PROVE  MessageSize(ixs, chosen) \in Nat \ {0}
  <1> DEFINE accounts == Accounts(ixs)
             taken == LookedUp(accounts, NeedsSignature(ixs), chosen)
             looked == UNION taken
  <1>1. accounts \subseteq Key
    <2>1. \A ix \in ToSet(ixs) : ix.keys \subseteq Key
      BY PackingAssumption DEF ToSet
    <2> QED
      BY <2>1, SignaturesAndAccounts, Zenon
  <1>2. IsFiniteSet(accounts)
    BY <1>1, FS_Subset, PackingAssumption, Zenon
  <1> HIDE DEF accounts
  <1>3. taken \subseteq SUBSET accounts
    BY Zenon DEF LookedUp
  <1> HIDE DEF taken
  <1>4. IsFiniteSet(taken)
    BY <1>2, <1>3, FS_SUBSET, FS_Subset, Zenon
  <1>5. looked \subseteq accounts /\ accounts \ looked \subseteq accounts
    BY <1>3, Zenon
  <1> HIDE DEF looked
  <1>6. IsFiniteSet(looked) /\ IsFiniteSet(accounts \ looked)
    BY <1>2, <1>5, FS_Subset, Zenon
  <1>7. Cardinality(taken) \in Nat /\ Cardinality(looked) \in Nat /\ Cardinality(accounts \ looked) \in Nat
    BY <1>4, <1>6, FS_CardinalityType, Zenon
  <1>8. DataSize(ixs) \in Nat
    BY DataSumIsDefined, DataSizeIs, Zenon
  <1>9. MessageSize(ixs, chosen) = HeaderSize + DataSize(ixs)
            + KeySize * (Cardinality(accounts \ looked) + Cardinality(taken))
            + Cardinality(looked)
    BY Zenon DEF MessageSize, accounts, taken, looked
  <1>10. HeaderSize \in Nat \ {0} /\ KeySize \in Nat
    BY PackingAssumption
  <1> DEFINE c == Cardinality(accounts \ looked) + Cardinality(taken)
             d == Cardinality(looked)
             e == KeySize * c
  <1>11. c \in Nat /\ d \in Nat
    BY <1>7
  <1> HIDE DEF c, d
  <1>12. e \in Nat
    BY <1>10, <1>11
  <1> HIDE DEF e
  <1>13. HeaderSize + DataSize(ixs) + e + d \in Nat \ {0}
    BY <1>8, <1>10, <1>11, <1>12
  <1> QED
    BY <1>9, <1>13 DEF c, d, e

LEMMA EncodedSizeIsPositive ==
  ASSUME NEW n \in Nat \ {0}
  PROVE  EncodedSize(n) \in Nat \ {0}
  BY DEF EncodedSize

LEMMA FakeSizeIsPositive ==
  ASSUME NEW b \in Builder, NEW tbls
  PROVE  FakeEncodeWithLookup(b, tbls) \in Nat \ {0}
  <1> DEFINE m == MessageSize(b.instructions, OptimizeLookupTables(b.instructions, tbls))
  <1>1. m \in Nat \ {0}
    BY BuilderFields, MessageSizeIsPositive
  <1>2. FakeEncodeWithLookup(b, tbls) = EncodedSize(m)
    BY DEF FakeEncodeWithLookup
  <1> HIDE DEF m
  <1> QED
    BY <1>1, <1>2, EncodedSizeIsPositive

\* A transaction without instructions is as large as its header, and fits.
LEMMA EmptyFits ==
  ASSUME NEW b, b.instructions = << >>, NEW tbls
  PROVE  Fits(b, tbls)
  <1> DEFINE chosen == OptimizeLookupTables(<< >>, tbls)
             taken == LookedUp({}, NeedsSignature(<< >>), chosen)
  <1>1. Accounts(<< >>) = {}
    BY DEF Accounts
  <1>2. taken = {}
    <2> HIDE DEF chosen
    <2> QED
      BY Zenon DEF LookedUp
  <1>3. DataSize(<< >>) = 0
    <2>1. << >> \in Seq(Instruction) /\ Len(<< >>) = 0
      OBVIOUS
    <2>2. PICK p : IsDataSum(p, << >>)
      BY <2>1, DataSumIsDefined
    <2>3. DataSize(<< >>) = p[0]
      BY <2>1, <2>2, DataSizeIs
    <2> QED
      BY <2>2, <2>3 DEF IsDataSum
  <1>4. MessageSize(<< >>, chosen) = HeaderSize + DataSize(<< >>)
            + KeySize * (Cardinality({} \ UNION taken) + Cardinality(taken)) + Cardinality(UNION taken)
    <2> HIDE DEF chosen
    <2> QED
      BY <1>1, Zenon DEF MessageSize
  <1> HIDE DEF taken
  <1>5. {} \ UNION taken = {} /\ UNION taken = {} /\ Cardinality({}) = 0
    BY <1>2, FS_EmptySet
  <1>6. MessageSize(<< >>, chosen) = HeaderSize + 0 + KeySize * (0 + 0) + 0
    <2> HIDE DEF chosen
    <2> QED
      BY <1>2, <1>3, <1>4, <1>5, Zenon
  <1>7. MessageSize(<< >>, chosen) = HeaderSize
    <2>1. HeaderSize \in Nat /\ KeySize \in Nat
      BY PackingAssumption
    <2> HIDE DEF chosen
    <2> QED
      BY <1>6, <2>1
  <1> HIDE DEF chosen
  <1>8. FakeEncodeWithLookup(b, tbls) = EncodedSize(HeaderSize)
    BY <1>7, Zenon DEF FakeEncodeWithLookup, chosen
  <1> QED
    BY <1>8, HeaderAssumption DEF Fits

\* A transaction fits in either order of its instructions: the size and the
\* choice of tables depend on the accounts, not on the order they are named in.
LEMMA ReverseFits ==
  ASSUME NEW b \in Builder, NEW c, c.instructions = Reverse(b.instructions), NEW tbls
  PROVE  Fits(c, tbls) <=> Fits(b, tbls)
  <1> DEFINE s == b.instructions
             t == c.instructions
  <1>1. s \in Seq(Instruction) /\ t = Reverse(s)
    BY BuilderFields
  <1> HIDE DEF s, t
  <1>2. Accounts(t) = Accounts(s) /\ NeedsSignature(t) = NeedsSignature(s) /\ DataSize(t) = DataSize(s)
    BY <1>1, ReverseSignaturesAndAccounts, ReverseDataSize
  <1>3. GetTableIntersections(t, tbls) = GetTableIntersections(s, tbls)
    BY <1>2, Zenon DEF GetTableIntersections
  <1>4. OptimizeLookupTables(t, tbls) = OptimizeLookupTables(s, tbls)
    BY <1>3, Zenon DEF OptimizeLookupTables
  <1> DEFINE chosen == OptimizeLookupTables(s, tbls)
  <1> HIDE DEF chosen
  <1>5. MessageSize(t, chosen) = MessageSize(s, chosen)
    BY <1>2, Zenon DEF MessageSize
  <1>6. FakeEncodeWithLookup(c, tbls) = FakeEncodeWithLookup(b, tbls)
    BY <1>4, <1>5, Zenon DEF FakeEncodeWithLookup, chosen, s, t
  <1> QED
    BY <1>6, Zenon DEF Fits

-----------------------------------------------------------------------------
(* The two directions, groups, and the next length to try.                 *)

LEMMA OrientedProperties ==
  ASSUME NEW bs \in Seq(Builder), NEW r \in BOOLEAN
  PROVE  /\ Oriented(bs, r) \in Seq(Builder) /\ Len(Oriented(bs, r)) = Len(bs)
         /\ \A i \in 1 .. Len(bs) : \E j \in 1 .. Len(bs) :
              /\ Oriented(bs, r)[i].signers = bs[j].signers
              /\ Oriented(bs, r)[i].instructions =
                   IF r THEN Reverse(bs[j].instructions) ELSE bs[j].instructions
         /\ instructions(Oriented(bs, r)) =
              IF r THEN Reverse(instructions(bs)) ELSE instructions(bs)
  <1> DEFINE o == Oriented(bs, r)
             n == Len(bs)
  <1>1. CASE r = TRUE
    <2>1. o = DeepReverse(bs)
      BY <1>1 DEF Oriented
    <2>2. /\ o \in Seq(Builder) /\ Len(o) = n /\ instructions(o) = Reverse(instructions(bs))
          /\ \A i \in 1 .. n : /\ n - i + 1 \in 1 .. n
                               /\ o[i].instructions = Reverse(bs[n - i + 1].instructions)
                               /\ o[i].signers = bs[n - i + 1].signers
      <3>1. DeepReverse(bs) = o
        BY <2>1
      <3> HIDE DEF o
      <3> QED
        BY <3>1, DeepReverseProperties
    <2> HIDE DEF o, n
    <2>3. \A i \in 1 .. n : \E j \in 1 .. n :
            o[i].signers = bs[j].signers /\ o[i].instructions = Reverse(bs[j].instructions)
      BY <2>2, Zenon
    <2> QED
      BY <1>1, <2>2, <2>3 DEF o, n
  <1>2. CASE r = FALSE
    <2>1. Oriented(bs, r) = bs
      BY <1>2 DEF Oriented
    <2> QED
      BY <1>2, <2>1
  <1> QED
    BY <1>1, <1>2

LEMMA OrientedSigners ==
  ASSUME NEW bs \in Seq(Builder), NEW r \in BOOLEAN, \A i \in 1 .. Len(bs) : HasSigners(bs[i])
  PROVE  \A i \in 1 .. Len(bs) : HasSigners(Oriented(bs, r)[i])
  <1> DEFINE o == Oriented(bs, r)
  <1>1. SUFFICES ASSUME NEW i \in 1 .. Len(bs) PROVE HasSigners(o[i])
    OBVIOUS
  <1>2. PICK j \in 1 .. Len(bs) :
          /\ o[i].signers = bs[j].signers
          /\ o[i].instructions = IF r THEN Reverse(bs[j].instructions) ELSE bs[j].instructions
    BY OrientedProperties
  <1> HIDE DEF o
  <1>3. bs[j].instructions \in Seq(Instruction)
    <2>1. bs[j] \in Builder
      OBVIOUS
    <2> QED
      BY <2>1, BuilderFields
  <1>4. NeedsSignature(o[i].instructions) = NeedsSignature(bs[j].instructions)
    BY <1>2, <1>3, ReverseSignaturesAndAccounts
  <1>5. HasSigners(bs[j])
    OBVIOUS
  <1> QED
    BY <1>2, <1>4, <1>5 DEF HasSigners

LEMMA PrefixAndRest ==
  ASSUME NEW X, NEW s \in Seq(X), NEW n \in 0 .. Len(s)
  PROVE  /\ SubSeq(s, 1, n) \in Seq(X) /\ Len(SubSeq(s, 1, n)) = n
         /\ \A i \in 1 .. n : SubSeq(s, 1, n)[i] = s[i]
         /\ SubSeq(s, n + 1, Len(s)) \in Seq(X)
         /\ Len(SubSeq(s, n + 1, Len(s))) = Len(s) - n
         /\ \A i \in 1 .. Len(s) - n : SubSeq(s, n + 1, Len(s))[i] = s[n + i]
         /\ SubSeq(s, 1, n) \o SubSeq(s, n + 1, Len(s)) = s
  <1>1. /\ SubSeq(s, 1, n) \in Seq(X) /\ Len(SubSeq(s, 1, n)) = n
        /\ \A i \in 1 .. n : SubSeq(s, 1, n)[i] = s[i]
    <2>1. \A i \in 1 .. n : s[i] \in X
      OBVIOUS
    <2>2. /\ SubSeq(s, 1, n) \in Seq(X)
          /\ Len(SubSeq(s, 1, n)) = IF 1 <= n THEN n - 1 + 1 ELSE 0
          /\ \A i \in 1 .. n - 1 + 1 : SubSeq(s, 1, n)[i] = s[1 + i - 1]
      BY <2>1, SubSeqProperties
    <2> QED
      BY <2>2
  <1>2. /\ SubSeq(s, n + 1, Len(s)) \in Seq(X) /\ Len(SubSeq(s, n + 1, Len(s))) = Len(s) - n
        /\ \A i \in 1 .. Len(s) - n : SubSeq(s, n + 1, Len(s))[i] = s[n + i]
    <2>1. \A i \in n + 1 .. Len(s) : s[i] \in X
      OBVIOUS
    <2>2. /\ SubSeq(s, n + 1, Len(s)) \in Seq(X)
          /\ Len(SubSeq(s, n + 1, Len(s))) = IF n + 1 <= Len(s) THEN Len(s) - (n + 1) + 1 ELSE 0
          /\ \A i \in 1 .. Len(s) - (n + 1) + 1 : SubSeq(s, n + 1, Len(s))[i] = s[(n + 1) + i - 1]
      BY <2>1, SubSeqProperties
    <2> QED
      BY <2>2
  <1>3. SubSeq(s, 1, n) \o SubSeq(s, n + 1, Len(s)) = s
    <2>1. 1 \in 1 .. Len(s) + 1 /\ n \in 1 - 1 .. Len(s) /\ Len(s) \in n .. Len(s)
      OBVIOUS
    <2>2. SubSeq(s, 1, n) \o SubSeq(s, n + 1, Len(s)) = SubSeq(s, 1, Len(s))
      BY <2>1, ConcatAdjacentSubSeq
    <2> QED
      BY <2>2, SubSeqFull
  <1> QED
    BY <1>1, <1>2, <1>3

\* Taking a group moves its instructions from the front of what is left to the
\* end of what is condensed.
LEMMA GroupKeepsInstructions ==
  ASSUME NEW cs \in Seq(Builder), NEW bs \in Seq(Builder), NEW n \in 0 .. Len(bs)
  PROVE  LET next == ijoin(SubSeq(bs, 1, n))
             rest == SubSeq(bs, n + 1, Len(bs))
             all == instructions(cs) \o instructions(bs)
         IN  /\ next.instructions = << >> => instructions(cs) \o instructions(rest) = all
             /\ instructions(Append(cs, next)) \o instructions(rest) = all
  <1> DEFINE pre == SubSeq(bs, 1, n)
             next == ijoin(pre)
             rest == SubSeq(bs, n + 1, Len(bs))
             c == instructions(cs)
             p == instructions(pre)
             r == instructions(rest)
  <1>1. pre \in Seq(Builder) /\ rest \in Seq(Builder) /\ pre \o rest = bs
    BY PrefixAndRest
  <1> HIDE DEF pre, rest
  <1>2. instructions(bs) = p \o r
    BY <1>1, InstructionsConcat
  <1>3. c \in Seq(Instruction) /\ p \in Seq(Instruction) /\ r \in Seq(Instruction)
    BY <1>1, InstructionsAre
  <1>4. next \in Builder /\ next.instructions = p
    BY <1>1, JoinType
  <1> HIDE DEF next
  <1>5. instructions(Append(cs, next)) = c \o p
    <2>1. Append(cs, next) = cs \o <<next>>
      BY <1>4, AppendIsConcat
    <2>2. <<next>> \in Seq(Builder) /\ instructions(<<next>>) = p
      BY <1>4, InstructionsSingle
    <2> HIDE DEF p
    <2> QED
      BY <2>1, <2>2, InstructionsConcat
  <1> HIDE DEF c, p, r
  <1>6. (c \o p) \o r = c \o (p \o r)
    BY <1>3, ConcatAssociative, SMTT(30)
  <1>7. p = << >> => c \o r = c \o (p \o r)
    BY <1>3, ConcatEmptySeq
  <1>8. /\ next.instructions = << >> => c \o r = c \o instructions(bs)
        /\ instructions(Append(cs, next)) \o r = c \o instructions(bs)
    BY <1>2, <1>4, <1>5, <1>6, <1>7, Zenon
  <1> QED
    BY <1>8 DEF c, r, next, pre, rest

\* A group of one has the instructions of its builder, a group of none none.
LEMMA SmallGroups ==
  ASSUME NEW bs \in Seq(Builder)
  PROVE  /\ 1 <= Len(bs) => ijoin(SubSeq(bs, 1, 1)).instructions = bs[1].instructions
         /\ ijoin(SubSeq(bs, 1, 0)).instructions = << >>
  <1>1. ASSUME 1 <= Len(bs) PROVE ijoin(SubSeq(bs, 1, 1)).instructions = bs[1].instructions
    <2>1. 1 \in 0 .. Len(bs) /\ bs[1] \in Builder
      BY <1>1
    <2> DEFINE s == SubSeq(bs, 1, 1)
    <2>2. s \in Seq(Builder) /\ Len(s) = 1 /\ s[1] = bs[1]
      BY <2>1, PrefixAndRest
    <2> HIDE DEF s
    <2>3. s = <<bs[1]>>
      BY <2>2
    <2>4. ijoin(s).instructions = instructions(s)
      BY <2>2, JoinType
    <2>5. instructions(<<bs[1]>>) = bs[1].instructions
      BY <2>1, InstructionsSingle
    <2>6. ijoin(s).instructions = bs[1].instructions
      BY <2>3, <2>4, <2>5
    <2> QED
      BY <2>6 DEF s
  <1>2. ijoin(SubSeq(bs, 1, 0)).instructions = << >>
    <2>1. SubSeq(bs, 1, 0) = << >>
      BY SubSeqEmpty
    <2>2. << >> \in Seq(Builder)
      OBVIOUS
    <2>3. ijoin(<< >>).instructions = instructions(<< >>)
      BY <2>2, JoinType
    <2> QED
      BY <2>1, <2>3, InstructionsEmpty
  <1> QED
    BY <1>1, <1>2

LEMMA MinMaxOfTwo ==
  ASSUME NEW a \in Int, NEW b \in Int
  PROVE  /\ Max({a, b}) = IF a >= b THEN a ELSE b
         /\ Min({a, b}) = IF a <= b THEN a ELSE b
  <1>1. Max({a, b}) = IF a >= b THEN a ELSE b
    <2> DEFINE m == IF a >= b THEN a ELSE b
               P(x) == x \in {a, b} /\ \A y \in {a, b} : x >= y
    <2>1. P(m) /\ \A x : P(x) => x = m
      OBVIOUS
    <2>2. Max({a, b}) = CHOOSE x \in {a, b} : \A y \in {a, b} : x >= y
      BY DEF Max
    <2> QED
      BY <2>1, <2>2
  <1>2. Min({a, b}) = IF a <= b THEN a ELSE b
    <2> DEFINE m == IF a <= b THEN a ELSE b
               P(x) == x \in {a, b} /\ \A y \in {a, b} : x =< y
    <2>1. P(m) /\ \A x : P(x) => x = m
      OBVIOUS
    <2>2. Min({a, b}) = CHOOSE x \in {a, b} : \A y \in {a, b} : x =< y
      BY DEF Min
    <2> QED
      BY <2>1, <2>2
  <1> QED
    BY <1>1, <1>2

\* The estimate is clamped to the bounds, or to the upper one when they crossed.
LEMMA ClampIsBetween ==
  ASSUME NEW n \in Int, NEW b1 \in Int, NEW b2 \in Int
  PROVE  /\ Clamp(n, <<b1, b2>>) \in Int
         /\ b1 <= b2 => b1 <= Clamp(n, <<b1, b2>>) /\ Clamp(n, <<b1, b2>>) <= b2
         /\ b2 <= b1 => Clamp(n, <<b1, b2>>) = b2
  <1> DEFINE m == IF b1 >= n THEN b1 ELSE n
  <1>1. Max({b1, n}) = m /\ m \in Int /\ m >= b1
    BY MinMaxOfTwo
  <1>2. Clamp(n, <<b1, b2>>) = Min({b2, m})
    BY <1>1 DEF Clamp
  <1> HIDE DEF m
  <1>3. Min({b2, m}) = IF b2 <= m THEN b2 ELSE m
    BY <1>1, MinMaxOfTwo
  <1> QED
    BY <1>1, <1>2, <1>3

LEMMA EstimateType ==
  ASSUME NEW size \in Nat \ {0}, NEW len \in Nat
  PROVE  Estimate(size, len) \in Int
  <1> DEFINE x == 2 * MaxTxSize * len + size
             y == 2 * size
  <1>1. MaxTxSize \in Nat
    BY PackingAssumption
  <1>2. x \in Int /\ y \in Int /\ y > 0
    BY <1>1
  <1> HIDE DEF x, y
  <1>3. x \div y \in Int
    BY <1>2
  <1> QED
    BY <1>3 DEF Estimate, x, y

\* The next length to try is within the bounds as well.
LEMMA NextTryIsBetween ==
  ASSUME NEW b1 \in Int, NEW b2 \in Int, b1 <= b2, NEW guess \in Int, b1 <= guess, guess <= b2
  PROVE  /\ NextTry(<<b1, b2>>, guess) \in Int
         /\ b1 <= NextTry(<<b1, b2>>, guess) /\ NextTry(<<b1, b2>>, guess) <= b2
  BY DEF NextTry, Halfway
-----------------------------------------------------------------------------
(* The inductive invariant.                                                *)

\* The builders in the order condense_left sees them.
Line == Oriented(txs, right)

\* A builder that may leave: it fits, or it is one of those that came.
Sendable(builder) ==
    /\ HasSigners(builder)
    /\ \/ Fits(builder, usefulTables)
       \/ \E k \in 1 .. Len(Line) : builder.instructions = Line[k].instructions

WorkTypes ==
    /\ pc \in {"idle", "shrink", "search", "compile", "done"}
    /\ right \in BOOLEAN
    /\ attempts \in 0 .. MaxAttempts
    /\ txs \in Seq(Builder) /\ \A i \in 1 .. Len(txs) : HasSigners(txs[i])
    /\ shrinkMe \in Seq(Builder)
    /\ condensed \in Seq(Builder)

\* What is condensed and what is left are the line, in its order.
LineKept ==
    /\ instructions(condensed) \o instructions(shrinkMe) = instructions(Line)
    /\ \A i \in 1 .. Len(shrinkMe) : \E k \in 1 .. Len(Line) : shrinkMe[i] = Line[k]
    /\ \A i \in 1 .. Len(condensed) : Sendable(condensed[i])

\* The search: between two bounds of which the lower one fits, or, when not
\* even one builder fits, at nothing.
SearchInv ==
    pc = "search" =>
        \E b1, b2 \in 0 .. Len(shrinkMe) :
            /\ bounds = <<b1, b2>>
            /\ \/ 1 <= b1 /\ b1 <= tryLen /\ tryLen <= b2
               \/ b1 \in {0, 1} /\ b2 = 0 /\ tryLen = 0
            /\ tryLen \in 0 .. Len(shrinkMe)
            /\ b1 > 1 => Fits(ijoin(SubSeq(shrinkMe, 1, b1)), usefulTables)

OutputInv ==
    /\ output \in Seq(Builder) /\ \A i \in 1 .. Len(output) : HasSigners(output[i])
    /\ pc = "compile" =>
         /\ instructions(output) = instructions(txs)
         /\ \A j \in 1 .. Len(output) :
              \/ Fits(output[j], usefulTables)
              \/ \E i \in 1 .. Len(txs) : output[j].instructions = txs[i].instructions

PackingInv == WorkTypes /\ LineKept /\ SearchInv /\ OutputInv /\ CompiledIsSigned

LEMMA PackingInitInv == Init => PackingInv
  <1>1. SUFFICES ASSUME Init PROVE PackingInv
    OBVIOUS
  <1>2. << >> \in Seq(Builder) /\ Len(<< >>) = 0 /\ 1 .. 0 = {}
    OBVIOUS
  <1>3. WorkTypes
    <2>1. 0 \in 0 .. MaxAttempts
      BY PackingAssumption
    <2> QED
      BY <1>1, <1>2, <2>1 DEF Init, WorkTypes
  <1>4. LineKept
    <2>1. Line \in Seq(Builder) /\ Len(Line) = 0
      <3>1. txs = << >> /\ right = TRUE
        BY <1>1 DEF Init
      <3> QED
        BY <1>2, <3>1, OrientedProperties DEF Line
    <2>2. Line = << >>
      BY <2>1
    <2>3. << >> \o << >> = << >>
      BY <1>2, ConcatEmptySeq
    <2> QED
      BY <1>1, <1>2, <2>2, <2>3, InstructionsEmpty DEF Init, LineKept
  <1>5. SearchInv /\ OutputInv /\ CompiledIsSigned
    BY <1>1, <1>2 DEF Init, SearchInv, OutputInv, CompiledIsSigned
  <1> QED
    BY <1>3, <1>4, <1>5 DEF PackingInv

LEMMA CallInv ==
  ASSUME PackingInv, Call
  PROVE  PackingInv'
  <1>1. PICK b \in Request, t \in TableList, r \in BOOLEAN : Condense(b, t, r)
    BY DEF Call
  <1>2. b \in Seq(Builder) /\ \A i \in 1 .. Len(b) : HasSigners(b[i])
    BY RequestAssumption
  <1>3. << >> \in Seq(Builder) /\ Len(<< >>) = 0 /\ 1 .. 0 = {} /\ DOMAIN << >> = {}
    OBVIOUS
  <1>4. /\ pc' = "shrink" /\ txs' = b /\ right' = r /\ shrinkMe' = Oriented(b, r)
        /\ condensed' = << >> /\ attempts' = 0 /\ output' = << >> /\ compiled' = << >>
    BY <1>1 DEF Condense
  <1>5. Oriented(b, r) \in Seq(Builder)
    BY <1>2, OrientedProperties
  <1>6. WorkTypes'
    <2>1. 0 \in 0 .. MaxAttempts
      BY PackingAssumption
    <2> QED
      BY <1>2, <1>3, <1>4, <1>5, <2>1 DEF WorkTypes
  <1>7. LineKept'
    <2>1. Line' = shrinkMe'
      BY <1>4 DEF Line
    <2>2. instructions(shrinkMe') \in Seq(Instruction)
      BY <1>4, <1>5, InstructionsAre
    <2>3. << >> \o instructions(shrinkMe') = instructions(shrinkMe')
      BY <2>2, ConcatEmptySeq
    <2> QED
      BY <1>3, <1>4, <2>1, <2>3, InstructionsEmpty, Zenon DEF LineKept
  <1>8. SearchInv' /\ OutputInv' /\ CompiledIsSigned'
    BY <1>3, <1>4 DEF SearchInv, OutputInv, CompiledIsSigned
  <1> QED
    BY <1>6, <1>7, <1>8 DEF PackingInv

\* What is condensed does not change with the counters of the loops.
LEMMA LineKeptStutters ==
  ASSUME LineKept, UNCHANGED <<txs, right, usefulTables, shrinkMe, condensed>>
  PROVE  LineKept'
  BY Zenon DEF LineKept, Line, Sendable

LEMMA OutputStutters ==
  ASSUME OutputInv, CompiledIsSigned, UNCHANGED <<output, compiled>>, pc' # "compile"
  PROVE  OutputInv' /\ CompiledIsSigned'
  BY DEF OutputInv, CompiledIsSigned

LEMMA StartSearchInv ==
  ASSUME PackingInv, StartSearch
  PROVE  PackingInv'
  <1> DEFINE n == Len(shrinkMe)
  <1>1. shrinkMe \in Seq(Builder) /\ shrinkMe # << >> /\ attempts < MaxAttempts /\ attempts \in 0 .. MaxAttempts
    BY DEF PackingInv, WorkTypes, StartSearch
  <1>2. /\ pc' = "search" /\ attempts' = attempts + 1 /\ tryLen' = n /\ bounds' = <<1, n>>
        /\ UNCHANGED <<txs, tables, right, usefulTables, shrinkMe, condensed, output, compiled>>
    BY DEF StartSearch
  <1>3. n \in Nat /\ n >= 1
    BY <1>1
  <1>4. WorkTypes'
    <2>1. attempts' \in 0 .. MaxAttempts
      BY <1>1, <1>2, PackingAssumption
    <2> QED
      BY <1>2, <2>1 DEF PackingInv, WorkTypes
  <1>5. SearchInv'
    <2>1. /\ 1 \in 0 .. n /\ n \in 0 .. n
          /\ bounds' = <<1, n>>
          /\ 1 <= 1 /\ 1 <= tryLen' /\ tryLen' <= n
          /\ tryLen' \in 0 .. n /\ ~(1 > 1) /\ n = Len(shrinkMe)'
      BY <1>2, <1>3
    <2> HIDE DEF n
    <2> QED
      BY <2>1 DEF SearchInv
  <1>6. LineKept' /\ OutputInv' /\ CompiledIsSigned'
    BY <1>2, LineKeptStutters, OutputStutters DEF PackingInv
  <1> QED
    BY <1>4, <1>5, <1>6 DEF PackingInv

LEMMA SearchStepInv ==
  ASSUME PackingInv, SearchStep
  PROVE  PackingInv'
  <1> DEFINE n == Len(shrinkMe)
             group == ijoin(SubSeq(shrinkMe, 1, tryLen))
             size == FakeEncodeWithLookup(group, usefulTables)
  <1>1. shrinkMe \in Seq(Builder) /\ n \in Nat /\ MaxTxSize \in Nat
    BY PackingAssumption DEF PackingInv, WorkTypes
  <1>2. /\ pc = "search" /\ bounds[1] # bounds[2] /\ bounds' = Narrowed(size)
        /\ tryLen' = NextTry(Narrowed(size), Clamp(Estimate(size, tryLen), Narrowed(size)))
        /\ UNCHANGED <<pc, txs, tables, right, usefulTables, shrinkMe, condensed, attempts, output, compiled>>
    BY Zenon DEF SearchStep
  <1>3. PICK b1, b2 \in 0 .. n :
            /\ bounds = <<b1, b2>>
            /\ \/ 1 <= b1 /\ b1 <= tryLen /\ tryLen <= b2
               \/ b1 \in {0, 1} /\ b2 = 0 /\ tryLen = 0
            /\ tryLen \in 0 .. n
            /\ b1 > 1 => Fits(ijoin(SubSeq(shrinkMe, 1, b1)), usefulTables)
    BY <1>2, Zenon DEF PackingInv, SearchInv
  <1>4. size \in Nat \ {0}
    <2>1. group \in Builder
      BY <1>1, <1>3, PrefixAndRest, JoinType
    <2> QED
      BY <2>1, FakeSizeIsPositive
  <1>5. (size > MaxTxSize) <=> ~Fits(group, usefulTables)
    <2>1. Fits(group, usefulTables) <=> size <= MaxTxSize
      BY DEF Fits
    <2> HIDE DEF size
    <2> QED
      BY <1>1, <1>4, <2>1
  <1>6. Narrowed(size) = IF size > MaxTxSize THEN <<b1, tryLen - 1>> ELSE <<tryLen, b2>>
    BY <1>3 DEF Narrowed
  <1> DEFINE guess == Estimate(size, tryLen)
  <1>7. guess \in Int
    <2> HIDE DEF size
    <2> QED
      BY <1>3, <1>4, EstimateType
  <1> HIDE DEF group, size, guess, n
  <1>8. ASSUME NEW c1 \in 0 .. n, NEW c2 \in 0 .. n, Narrowed(size) = <<c1, c2>>,
               1 <= c1 /\ c1 <= c2,
               c1 > 1 => Fits(ijoin(SubSeq(shrinkMe, 1, c1)), usefulTables)
        PROVE  SearchInv'
    <2> DEFINE cl == Clamp(guess, <<c1, c2>>)
               nx == NextTry(<<c1, c2>>, cl)
    <2>1. cl \in Int /\ c1 <= cl /\ cl <= c2
      BY <1>7, <1>8, ClampIsBetween
    <2> HIDE DEF cl
    <2>2. nx \in Int /\ c1 <= nx /\ nx <= c2
      BY <1>8, <2>1, NextTryIsBetween
    <2>3. tryLen' = nx /\ bounds' = <<c1, c2>>
      BY <1>2, <1>8, Zenon DEF cl, guess
    <2> HIDE DEF nx
    <2>4. /\ 1 <= c1 /\ c1 <= tryLen' /\ tryLen' <= c2
          /\ tryLen' \in 0 .. n
      BY <1>1, <1>8, <2>2, <2>3
    <2>5. /\ c1 > 1 => Fits(ijoin(SubSeq(shrinkMe', 1, c1)), usefulTables')
          /\ n = Len(shrinkMe')
      BY <1>2, <1>8 DEF n
    <2> QED
      BY <2>3, <2>4, <2>5, Zenon DEF SearchInv
  <1>9. ASSUME NEW c1 \in {0, 1}, c1 \in 0 .. n, Narrowed(size) = <<c1, 0>>,
               tryLen' = 0
        PROVE  SearchInv'
    <2>1. n = Len(shrinkMe') /\ 0 \in 0 .. n /\ ~(c1 > 1) /\ bounds' = <<c1, 0>>
      BY <1>1, <1>2, <1>9 DEF n
    <2> QED
      BY <1>9, <2>1, Zenon DEF SearchInv
  <1>10. ASSUME 1 <= b1 /\ b1 <= tryLen /\ tryLen <= b2 PROVE SearchInv'
    <2>1. CASE size > MaxTxSize
      <3>1. Narrowed(size) = <<b1, tryLen - 1>> /\ ~Fits(group, usefulTables)
        BY <1>5, <1>6, <2>1
      <3>2. CASE b1 <= tryLen - 1
        <4>1. tryLen - 1 \in 0 .. n
          BY <1>1, <1>3, <1>10
        <4> QED
          BY <1>3, <1>8, <1>10, <3>1, <3>2, <4>1, Zenon
      <3>3. CASE ~(b1 <= tryLen - 1)
        <4>1. tryLen = b1
          BY <1>1, <1>3, <1>10, <3>3
        <4>2. ~(b1 > 1)
          BY <1>3, <3>1, <4>1 DEF group
        <4>3. b1 = 1 /\ tryLen = 1 /\ tryLen - 1 = 0
          BY <1>1, <1>3, <1>10, <4>1, <4>2
        <4>4. Narrowed(size) = <<1, 0>>
          BY <3>1, <4>3
        <4> DEFINE cl == Clamp(guess, <<1, 0>>)
        <4>5. cl = 0
          BY <1>7, ClampIsBetween
        <4>6. tryLen' = NextTry(<<1, 0>>, cl)
          BY <1>2, <4>4, Zenon DEF guess
        <4> HIDE DEF cl
        <4>7. tryLen' = 0
          BY <4>3, <4>5, <4>6 DEF NextTry
        <4> QED
          <5>1. 1 \in {0, 1} /\ 1 \in 0 .. n
            BY <1>3, <4>3
          <5> QED
            BY <1>9, <4>4, <4>7, <5>1, Zenon
      <3> QED
        BY <3>2, <3>3
    <2>2. CASE ~(size > MaxTxSize)
      <3>1. Narrowed(size) = <<tryLen, b2>> /\ Fits(group, usefulTables)
        BY <1>5, <1>6, <2>2
      <3>2. 1 <= tryLen /\ tryLen <= b2
        BY <1>1, <1>3, <1>10
      <3> QED
        <4>1. Fits(ijoin(SubSeq(shrinkMe, 1, tryLen)), usefulTables)
          BY <3>1 DEF group
        <4> QED
          BY <1>3, <1>8, <3>1, <3>2, <4>1, Zenon
    <2> QED
      BY <2>1, <2>2
  <1>11. ASSUME b1 \in {0, 1} /\ b2 = 0 /\ tryLen = 0 PROVE SearchInv'
    <2>1. Fits(group, usefulTables)
      <3>1. group.instructions = << >>
        BY <1>1, <1>11, SmallGroups DEF group
      <3> QED
        BY <3>1, EmptyFits
    <2>2. Narrowed(size) = <<0, 0>>
      BY <1>5, <1>6, <1>11, <2>1
    <2> DEFINE cl == Clamp(guess, <<0, 0>>)
    <2>3. cl = 0
      BY <1>7, ClampIsBetween
    <2>4. tryLen' = NextTry(<<0, 0>>, cl)
      BY <1>2, <2>2, Zenon DEF guess
    <2> HIDE DEF cl
    <2>5. tryLen' = 0
      BY <1>11, <2>3, <2>4 DEF NextTry, Halfway
    <2>6. 0 \in {0, 1} /\ 0 \in 0 .. n
      BY <1>1
    <2> QED
      BY <1>9, <2>2, <2>5, <2>6, Zenon
  <1>12. SearchInv'
    BY <1>3, <1>10, <1>11, Zenon
  <1>13. WorkTypes'
    BY <1>2 DEF PackingInv, WorkTypes
  <1>14. LineKept' /\ OutputInv' /\ CompiledIsSigned'
    <2>1. pc' # "compile"
      BY <1>2
    <2> QED
      BY <1>2, <2>1, LineKeptStutters, OutputStutters DEF PackingInv
  <1> QED
    BY <1>12, <1>13, <1>14 DEF PackingInv

\* The line: builders that have their signers.
LEMMA LineProperties ==
  ASSUME WorkTypes
  PROVE  /\ Line \in Seq(Builder) /\ Len(Line) = Len(txs)
         /\ \A k \in 1 .. Len(Line) : HasSigners(Line[k])
  <1>1. txs \in Seq(Builder) /\ right \in BOOLEAN /\ \A i \in 1 .. Len(txs) : HasSigners(txs[i])
    BY DEF WorkTypes
  <1>2. Line \in Seq(Builder) /\ Len(Line) = Len(txs)
    BY <1>1, OrientedProperties DEF Line
  <1>3. \A k \in 1 .. Len(txs) : HasSigners(Line[k])
    BY <1>1, OrientedSigners DEF Line
  <1> QED
    BY <1>2, <1>3

LEMMA TakeGroupInv ==
  ASSUME PackingInv, TakeGroup
  PROVE  PackingInv'
  <1> DEFINE n == bounds[1]
             pre == SubSeq(shrinkMe, 1, n)
             next == ijoin(pre)
             rest == SubSeq(shrinkMe, n + 1, Len(shrinkMe))
  <1>1. /\ shrinkMe \in Seq(Builder) /\ condensed \in Seq(Builder) /\ WorkTypes /\ LineKept /\ SearchInv
        /\ OutputInv /\ CompiledIsSigned
    BY DEF PackingInv, WorkTypes
  <1>2. /\ pc = "search" /\ bounds[1] = bounds[2] /\ shrinkMe' = rest /\ pc' = "shrink"
        /\ condensed' = IF next.instructions = << >> THEN condensed ELSE Append(condensed, next)
        /\ UNCHANGED <<txs, tables, right, usefulTables, attempts, bounds, tryLen, output, compiled>>
    BY Zenon DEF TakeGroup, search
  <1>3. /\ n \in 0 .. Len(shrinkMe)
        /\ n > 1 => Fits(next, usefulTables)
    <2>1. PICK b1, b2 \in 0 .. Len(shrinkMe) :
            /\ bounds = <<b1, b2>>
            /\ b1 > 1 => Fits(ijoin(SubSeq(shrinkMe, 1, b1)), usefulTables)
      BY <1>1, <1>2, Zenon DEF SearchInv
    <2>2. n = b1
      BY <2>1
    <2> HIDE DEF n
    <2> QED
      BY <2>1, <2>2
  <1> HIDE DEF n
  <1>4. /\ pre \in Seq(Builder) /\ Len(pre) = n /\ \A i \in 1 .. n : pre[i] = shrinkMe[i]
        /\ rest \in Seq(Builder) /\ Len(rest) = Len(shrinkMe) - n
        /\ \A i \in 1 .. Len(shrinkMe) - n : rest[i] = shrinkMe[n + i]
    BY <1>1, <1>3, PrefixAndRest
  <1>5. next \in Builder
    <2> HIDE DEF pre
    <2> QED
      BY <1>4, JoinType
  <1>6. /\ next.instructions = << >> =>
              instructions(condensed) \o instructions(rest) = instructions(condensed) \o instructions(shrinkMe)
        /\ instructions(Append(condensed, next)) \o instructions(rest) =
              instructions(condensed) \o instructions(shrinkMe)
    BY <1>1, <1>3, GroupKeepsInstructions
  <1>7. Sendable(next)
    <2>1. \A i \in 1 .. Len(shrinkMe) : HasSigners(shrinkMe[i])
      BY <1>1, LineProperties DEF LineKept
    <2>2. \A i \in 1 .. Len(pre) : HasSigners(pre[i])
      <3> HIDE DEF pre
      <3> QED
        BY <1>1, <1>3, <1>4, <2>1
    <2>3. HasSigners(next)
      <3> HIDE DEF pre
      <3> QED
        BY <1>4, <2>2, JoinHasSigners
    <2>4. CASE n > 1
      BY <1>3, <2>3, <2>4 DEF Sendable
    <2>5. CASE n = 1
      <3>1. 1 \in 1 .. Len(shrinkMe) /\ 1 <= Len(shrinkMe)
        BY <1>1, <1>3, <2>5
      <3>2. next.instructions = shrinkMe[1].instructions
        BY <1>1, <2>5, <3>1, SmallGroups
      <3>3. PICK k \in 1 .. Len(Line) : shrinkMe[1] = Line[k]
        BY <1>1, <3>1, Zenon DEF LineKept
      <3> HIDE DEF next
      <3> QED
        BY <2>3, <3>2, <3>3, Zenon DEF Sendable
    <2>6. CASE n = 0
      <3>1. next.instructions = << >>
        BY <1>1, <2>6, SmallGroups
      <3>2. Fits(next, usefulTables)
        BY <3>1, EmptyFits
      <3> QED
        BY <2>3, <3>2 DEF Sendable
    <2> QED
      BY <1>1, <1>3, <2>4, <2>5, <2>6
  <1> HIDE DEF next, rest, pre
  <1>8. /\ condensed' \in Seq(Builder)
        /\ \A i \in 1 .. Len(condensed') : Sendable(condensed'[i])
    <2>1. \A i \in 1 .. Len(condensed) : Sendable(condensed[i])
      BY <1>1 DEF LineKept
    <2>2. CASE next.instructions = << >>
      BY <1>1, <1>2, <2>1, <2>2
    <2>3. CASE next.instructions # << >>
      <3>1. condensed' = Append(condensed, next)
        BY <1>2, <2>3
      <3>2. /\ condensed' \in Seq(Builder) /\ Len(condensed') = Len(condensed) + 1
            /\ \A i \in 1 .. Len(condensed) : condensed'[i] = condensed[i]
            /\ condensed'[Len(condensed) + 1] = next
        BY <1>1, <1>5, <3>1, AppendProperties
      <3>3. ASSUME NEW i \in 1 .. Len(condensed') PROVE Sendable(condensed'[i])
        <4>1. i \in 1 .. Len(condensed) \/ i = Len(condensed) + 1
          BY <1>1, <3>2, <3>3
        <4> QED
          BY <1>7, <2>1, <3>2, <4>1
      <3> QED
        BY <3>2, <3>3
    <2> QED
      BY <2>2, <2>3
  <1>9. WorkTypes'
    <2>1. shrinkMe' \in Seq(Builder)
      BY <1>2, <1>4
    <2> QED
      BY <1>1, <1>2, <1>8, <2>1 DEF WorkTypes
  <1>10. LineKept'
    <2>1. Line' = Line /\ usefulTables' = usefulTables
      BY <1>2 DEF Line
    <2>2. instructions(condensed') \o instructions(shrinkMe') = instructions(condensed) \o instructions(shrinkMe)
      BY <1>2, <1>6
    <2>3. instructions(condensed') \o instructions(shrinkMe') = instructions(Line')
      BY <1>1, <2>1, <2>2 DEF LineKept
    <2>4. ASSUME NEW i \in 1 .. Len(shrinkMe') PROVE \E k \in 1 .. Len(Line') : shrinkMe'[i] = Line'[k]
      <3>1. i \in 1 .. Len(shrinkMe) - n /\ n + i \in 1 .. Len(shrinkMe)
        BY <1>1, <1>2, <1>3, <1>4, <2>4
      <3>2. shrinkMe'[i] = shrinkMe[n + i]
        BY <1>2, <1>4, <3>1
      <3>3. \E k \in 1 .. Len(Line) : shrinkMe[n + i] = Line[k]
        BY <1>1, <3>1, Zenon DEF LineKept
      <3> QED
        BY <2>1, <3>2, <3>3, Zenon
    <2>5. \A i \in 1 .. Len(condensed') : Sendable(condensed[i])'
      BY <1>8, <2>1, Zenon DEF Sendable
    <2> QED
      BY <2>3, <2>4, <2>5, Zenon DEF LineKept
  <1>11. SearchInv'
    BY <1>2 DEF SearchInv
  <1>12. OutputInv' /\ CompiledIsSigned'
    <2>1. pc' # "compile"
      BY <1>2
    <2> QED
      BY <1>1, <1>2, <2>1, OutputStutters
  <1> QED
    BY <1>9, <1>10, <1>11, <1>12 DEF PackingInv

\* What condense_left returns, turned back.
LEMMA ReturnedOutput ==
  ASSUME PackingInv, shrinkMe = << >>, NEW o, o = Oriented(condensed, right)
  PROVE  /\ o \in Seq(Builder) /\ \A i \in 1 .. Len(o) : HasSigners(o[i])
         /\ instructions(o) = instructions(txs)
         /\ \A j \in 1 .. Len(o) :
              \/ Fits(o[j], usefulTables)
              \/ \E i \in 1 .. Len(txs) : o[j].instructions = txs[i].instructions
  <1>1. /\ condensed \in Seq(Builder) /\ txs \in Seq(Builder) /\ right \in BOOLEAN
        /\ WorkTypes /\ LineKept
    BY DEF PackingInv, WorkTypes
  <1>2. /\ o \in Seq(Builder) /\ Len(o) = Len(condensed)
        /\ \A i \in 1 .. Len(condensed) : \E j \in 1 .. Len(condensed) :
              /\ o[i].signers = condensed[j].signers
              /\ o[i].instructions =
                   IF right THEN Reverse(condensed[j].instructions) ELSE condensed[j].instructions
        /\ instructions(o) = IF right THEN Reverse(instructions(condensed)) ELSE instructions(condensed)
    BY <1>1, OrientedProperties
  <1>3. /\ Len(Line) = Len(txs)
        /\ \A i \in 1 .. Len(txs) : \E j \in 1 .. Len(txs) :
              Line[i].instructions = IF right THEN Reverse(txs[j].instructions) ELSE txs[j].instructions
        /\ instructions(Line) = IF right THEN Reverse(instructions(txs)) ELSE instructions(txs)
    BY <1>1, OrientedProperties DEF Line
  <1>4. \A i \in 1 .. Len(condensed) : Sendable(condensed[i]) /\ condensed[i] \in Builder
    BY <1>1 DEF LineKept
  <1>5. \A i \in 1 .. Len(o) : HasSigners(o[i])
    <2>1. \A i \in 1 .. Len(condensed) : HasSigners(condensed[i])
      BY <1>4 DEF Sendable
    <2> QED
      BY <1>1, <1>2, <2>1, OrientedSigners
  <1>6. instructions(o) = instructions(txs)
    <2>1. /\ instructions(condensed) \in Seq(Instruction) /\ instructions(txs) \in Seq(Instruction)
      BY <1>1, InstructionsAre
    <2>2. instructions(condensed) = instructions(Line)
      <3>1. instructions(condensed) \o << >> = instructions(condensed)
        BY <2>1, ConcatEmptySeq
      <3> QED
        BY <1>1, <3>1, InstructionsEmpty DEF LineKept
    <2>3. Reverse(Reverse(instructions(txs))) = instructions(txs)
      BY <2>1, ReverseProperties
    <2> QED
      BY <1>2, <1>3, <2>2, <2>3, Zenon
  <1>7. ASSUME NEW j \in 1 .. Len(o)
        PROVE  \/ Fits(o[j], usefulTables)
               \/ \E i \in 1 .. Len(txs) : o[j].instructions = txs[i].instructions
    <2>1. PICK k \in 1 .. Len(condensed) :
            o[j].instructions =
              IF right THEN Reverse(condensed[k].instructions) ELSE condensed[k].instructions
      BY <1>2, Zenon
    <2> DEFINE c == condensed[k]
    <2>2. Sendable(c) /\ c \in Builder
      BY <1>4
    <2>3. CASE Fits(c, usefulTables)
      <3>1. CASE right
        <4>1. o[j].instructions = Reverse(c.instructions)
          BY <2>1, <3>1
        <4> QED
          BY <2>2, <2>3, <4>1, ReverseFits
      <3>2. CASE ~right
        <4>1. o[j].instructions = c.instructions
          BY <2>1, <3>2
        <4> QED
          BY <2>3, <4>1, Zenon DEF Fits, FakeEncodeWithLookup
      <3> QED
        BY <3>1, <3>2
    <2>4. ASSUME NEW m \in 1 .. Len(Line), c.instructions = Line[m].instructions
          PROVE  \E i \in 1 .. Len(txs) : o[j].instructions = txs[i].instructions
      <3>1. PICK i \in 1 .. Len(txs) :
              Line[m].instructions = IF right THEN Reverse(txs[i].instructions) ELSE txs[i].instructions
        BY <1>3, Zenon
      <3>2. txs[i].instructions \in Seq(Instruction)
        BY <1>1, BuilderFields
      <3>3. Reverse(Reverse(txs[i].instructions)) = txs[i].instructions
        BY <3>2, ReverseProperties
      <3>4. o[j].instructions = txs[i].instructions
        BY <2>1, <2>4, <3>1, <3>3, Zenon
      <3> QED
        BY <3>4
    <2>5. \/ Fits(c, usefulTables) \/ \E m \in 1 .. Len(Line) : c.instructions = Line[m].instructions
      BY <2>2 DEF Sendable
    <2> HIDE DEF c
    <2> QED
      BY <2>3, <2>4, <2>5, Zenon
  <1> QED
    BY <1>2, <1>5, <1>6, <1>7

LEMMA ReturnedInv ==
  ASSUME PackingInv, Returned
  PROVE  PackingInv'
  <1>1. /\ shrinkMe = << >> /\ output' = Oriented(condensed, right) /\ pc' = "compile"
        /\ UNCHANGED <<txs, tables, right, usefulTables, shrinkMe, condensed, attempts, search, compiled>>
    BY DEF Returned
  <1>2. OutputInv'
    <2>1. /\ output' \in Seq(Builder) /\ \A i \in 1 .. Len(output') : HasSigners(output'[i])
          /\ instructions(output') = instructions(txs)
          /\ \A j \in 1 .. Len(output') :
              \/ Fits(output'[j], usefulTables)
              \/ \E i \in 1 .. Len(txs) : output'[j].instructions = txs[i].instructions
      <3> DEFINE o == output'
      <3>1. o = Oriented(condensed, right)
        BY <1>1
      <3> HIDE DEF o
      <3>2. /\ o \in Seq(Builder) /\ \A i \in 1 .. Len(o) : HasSigners(o[i])
            /\ instructions(o) = instructions(txs)
            /\ \A j \in 1 .. Len(o) :
                 \/ Fits(o[j], usefulTables)
                 \/ \E i \in 1 .. Len(txs) : o[j].instructions = txs[i].instructions
        BY <1>1, <3>1, ReturnedOutput, Zenon
      <3> QED
        BY <3>2 DEF o
    <2> QED
      BY <1>1, <2>1, Zenon DEF OutputInv
  <1>3. WorkTypes' /\ SearchInv' /\ CompiledIsSigned'
    BY <1>1 DEF PackingInv, WorkTypes, SearchInv, CompiledIsSigned
  <1>4. LineKept'
    BY <1>1, LineKeptStutters DEF PackingInv
  <1> QED
    BY <1>2, <1>3, <1>4 DEF PackingInv

LEMMA GaveUpInv ==
  ASSUME PackingInv, GaveUp
  PROVE  PackingInv'
  <1>1. /\ output' = txs /\ pc' = "compile"
        /\ UNCHANGED <<txs, tables, right, usefulTables, shrinkMe, condensed, attempts, search, compiled>>
    BY DEF GaveUp
  <1>2. OutputInv'
    <2>1. txs \in Seq(Builder) /\ \A i \in 1 .. Len(txs) : HasSigners(txs[i])
      BY DEF PackingInv, WorkTypes
    <2> QED
      BY <1>1, <2>1, Zenon DEF OutputInv
  <1>3. WorkTypes' /\ SearchInv' /\ CompiledIsSigned'
    BY <1>1 DEF PackingInv, WorkTypes, SearchInv, CompiledIsSigned
  <1>4. LineKept'
    BY <1>1, LineKeptStutters DEF PackingInv
  <1> QED
    BY <1>2, <1>3, <1>4 DEF PackingInv

\* Pruning keeps exactly the keypairs that are needed, when all of them came.
LEMMA CompiledWithSigners ==
  ASSUME NEW b, HasSigners(b)
  PROVE  CompileWithLookup(b).signed
  <1>1. Prune(b) \subseteq NeedsSignature(b.instructions) /\ NeedsSignature(b.instructions) \subseteq Prune(b)
    BY Zenon DEF HasSigners, Prune
  <1> QED
    BY <1>1 DEF CompileWithLookup

LEMMA CompileInv ==
  ASSUME PackingInv, Compile
  PROVE  PackingInv'
  <1>1. /\ pc' = "done" /\ compiled' = [i \in DOMAIN output |-> CompileWithLookup(output[i])]
        /\ UNCHANGED <<txs, tables, right, usefulTables, shrinkMe, condensed, attempts, search, output>>
    BY DEF Compile
  <1>2. CompiledIsSigned'
    <2>1. \A i \in DOMAIN output : HasSigners(output[i])
      BY DEF PackingInv, OutputInv
    <2>2. DOMAIN compiled' = DOMAIN output /\ \A i \in DOMAIN output : compiled'[i] = CompileWithLookup(output[i])
      BY <1>1, Zenon
    <2> QED
      BY <2>1, <2>2, CompiledWithSigners, Zenon DEF CompiledIsSigned
  <1>3. WorkTypes' /\ SearchInv' /\ OutputInv'
    BY <1>1 DEF PackingInv, WorkTypes, SearchInv, OutputInv
  <1>4. LineKept'
    BY <1>1, LineKeptStutters DEF PackingInv
  <1> QED
    BY <1>2, <1>3, <1>4 DEF PackingInv

LEMMA ReturnInv ==
  ASSUME PackingInv, Return
  PROVE  PackingInv'
  <1>1. Init'
    BY DEF Return, Init
  <1>2. Init' => PackingInv'
    BY PackingInitInv, PTL
  <1> QED
    BY <1>1, <1>2

LEMMA PackingNextInv == PackingInv /\ [Next]_vars => PackingInv'
  <1>1. SUFFICES ASSUME PackingInv, [Next]_vars PROVE PackingInv'
    OBVIOUS
  <1>2. CASE UNCHANGED vars
    <2>1. /\ UNCHANGED <<txs, right, usefulTables, shrinkMe, condensed>>
          /\ UNCHANGED <<pc, attempts, bounds, tryLen, output, compiled>>
      BY <1>2 DEF vars, search
    <2>2. LineKept'
      BY <1>1, <2>1, LineKeptStutters DEF PackingInv
    <2>3. WorkTypes' /\ SearchInv' /\ OutputInv' /\ CompiledIsSigned'
      BY <1>1, <2>1 DEF PackingInv, WorkTypes, SearchInv, OutputInv, CompiledIsSigned
    <2> QED
      BY <2>2, <2>3 DEF PackingInv
  <1> QED
    BY <1>1, <1>2, CallInv, StartSearchInv, ReturnedInv, GaveUpInv, SearchStepInv, TakeGroupInv,
       CompileInv, ReturnInv, Zenon DEF Next, Work

THEOREM PackingInvariance == Spec => []PackingInv
  <1> QED
    BY PackingInitInv, PackingNextInv, PTL DEF Spec

\* Whatever list of builders condense is given, with whichever tables and from
\* whichever end, the instructions leave in the order they came.
THEOREM InstructionsAreKept == Spec => []InstructionsKept
  <1>1. PackingInv => InstructionsKept
    BY DEF PackingInv, OutputInv, InstructionsKept
  <1> QED
    BY <1>1, PackingInvariance, PTL

\* The search never looks past the list, what is merged fits (or came too large
\* by itself), and every compiled transaction has exactly its signatures.
THEOREM TransactionsAreAlwaysValid == Spec => []TransactionsAreValid
  <1>1. PackingInv => TransactionsAreValid
    <2>1. SUFFICES ASSUME PackingInv PROVE TypeOK /\ MergedFit
      BY DEF PackingInv, TransactionsAreValid
    <2>2. MergedFit
      <3>1. DOMAIN output = 1 .. Len(output) /\ DOMAIN txs = 1 .. Len(txs)
        BY <2>1 DEF PackingInv, OutputInv, WorkTypes
      <3> QED
        BY <2>1, <3>1, Zenon DEF PackingInv, OutputInv, MergedFit
    <2>3. pc = "search" => /\ tryLen \in 0 .. Len(shrinkMe)
                           /\ bounds[2] \in 0 .. Len(shrinkMe)
                           /\ bounds[1] \in 0 .. Len(shrinkMe)
      <3>1. SUFFICES ASSUME pc = "search"
                     PROVE  /\ tryLen \in 0 .. Len(shrinkMe)
                            /\ bounds[2] \in 0 .. Len(shrinkMe)
                            /\ bounds[1] \in 0 .. Len(shrinkMe)
        OBVIOUS
      <3>2. PICK b1, b2 \in 0 .. Len(shrinkMe) : bounds = <<b1, b2>> /\ tryLen \in 0 .. Len(shrinkMe)
        BY <2>1, <3>1, Zenon DEF PackingInv, SearchInv
      <3> QED
        BY <3>2
    <2> QED
      BY <2>1, <2>2, <2>3 DEF PackingInv, WorkTypes, TypeOK
  <1> QED
    BY <1>1, PackingInvariance, PTL

-----------------------------------------------------------------------------
(*                               TxBuilder                                 *)

(* What the accounts hold, together.                                       *)

\* A total changes by as much as one of its parts.
LEMMA TotalAfterChange ==
  ASSUME NEW S, IsFiniteSet(S), NEW f \in [S -> Int], NEW h \in [S -> Int],
         NEW u \in S, \A x \in S : x # u => h[x] = f[x]
  PROVE  /\ Total(f, S) \in Int /\ Total(h, S) \in Int
         /\ Total(h, S) = Total(f, S) + h[u] - f[u]
  <1>1. Total(f, S) \in Int /\ Total(h, S) \in Int
    BY TotalIsSum
  <1>2. \E g : IsSum(g, f, S)
    BY SumIsDefined
  <1>3. \E g : IsSum(g, h, S)
    BY SumIsDefined
  <1>. DEFINE F == CHOOSE g : IsSum(g, f, S)
              H == CHOOSE g : IsSum(g, h, S)
  <1>4. IsSum(F, f, S) /\ IsSum(H, h, S)
    BY <1>2, <1>3, Zenon
  <1>5. Total(f, S) = F[S] /\ Total(h, S) = H[S]
    BY Zenon DEF Total
  <1>. HIDE DEF F, H
  <1>6. H[S] = F[S] + h[u] - f[u]
    BY <1>4, SumAfterChange
  <1>. QED BY <1>1, <1>5, <1>6

\* A part is at most the total when no part is negative.
LEMMA PartOfTotal ==
  ASSUME NEW S, IsFiniteSet(S), NEW f \in [S -> Nat], NEW u \in S
  PROVE  Total(f, S) \in Nat /\ f[u] <= Total(f, S)
  <1>. DEFINE h == [f EXCEPT ![u] = 0]
  <1>1. /\ h \in [S -> Nat] /\ h \in [S -> Int] /\ f \in [S -> Int]
        /\ h[u] = 0 /\ \A x \in S : x # u => h[x] = f[x]
    OBVIOUS
  <1>. HIDE DEF h
  <1>2. ASSUME NEW g \in [S -> Nat]
        PROVE  Total(g, S) \in Nat
    <2>1. g \in [S -> Int]
      OBVIOUS
    <2>2. \E F : IsSum(F, g, S)
      BY <2>1, SumIsDefined
    <2>. DEFINE F == CHOOSE F : IsSum(F, g, S)
    <2>3. IsSum(F, g, S)
      BY <2>2, Zenon
    <2>4. Total(g, S) = F[S]
      BY Zenon DEF Total
    <2>. HIDE DEF F
    <2>5. F[S] \in Nat
      BY <2>3, SumIsNatural
    <2>. QED BY <2>4, <2>5
  <1>3. Total(f, S) \in Nat /\ Total(h, S) \in Nat
    BY <1>1, <1>2
  <1>4. Total(h, S) = Total(f, S) + h[u] - f[u]
    BY <1>1, TotalAfterChange
  <1>. QED BY <1>1, <1>3, <1>4

\* The accounts of tokens and of deposit notes, and those of loan notes.
Cash == {a \in Account : a[1][1] # "loan"}
Owed == {derive_loan_account(t) : t \in Token}

\* What an account contributes: its balance, or the debt it records.
Worth(a, v) == IF v = Missing THEN 0 ELSE IF a[1][1] = "loan" THEN -v ELSE v

\* What the accounts of a token contribute, and the room its debt has left.
Fund(h) == [t \in Token |->
    MaxLoan + Worth(<<Of(t), "ata">>, h[<<Of(t), "ata">>]) + Worth(<<Of(t), "pda">>, h[<<Of(t), "pda">>])
      + Worth(<<Of(t), "wallet">>, h[<<Of(t), "wallet">>])
      + Worth(<<Of(t), "liquidator">>, h[<<Of(t), "liquidator">>])
      + Worth(<<Note(t), "ata">>, h[<<Note(t), "ata">>]) + Worth(<<Note(t), "pda">>, h[<<Note(t), "pda">>])
      + Worth(<<Loan(t), "ata">>, h[<<Loan(t), "ata">>]) + Worth(<<Loan(t), "pda">>, h[<<Loan(t), "pda">>])]

Ceiling == Total([t \in Token |-> Supply[t] + MaxLoan], Token)

\* An account belongs to a token.
LEMMA AccountCases ==
  ASSUME NEW a \in Account
  PROVE  \E t \in Token :
            \/ a = <<Of(t), "ata">> \/ a = <<Of(t), "pda">> \/ a = <<Of(t), "wallet">>
            \/ a = <<Of(t), "liquidator">> \/ a = <<Note(t), "ata">> \/ a = <<Note(t), "pda">>
            \/ a = <<Loan(t), "ata">> \/ a = <<Loan(t), "pda">>
  <1>1. CASE a \in Mint \X {"ata", "pda"}
    <2>1. PICK m \in Mint, p \in {"ata", "pda"} : a = <<m, p>>
      BY <1>1
    <2>2. PICK k \in {"token", "note", "loan"}, t \in Token : m = <<k, t>>
      BY DEF Mint
    <2>. QED BY <2>1, <2>2 DEF Of, Note, Loan
  <1>2. CASE a \in {Of(t) : t \in Token} \X {"wallet", "liquidator"}
    BY <1>2
  <1>. QED BY <1>1, <1>2 DEF Account

LEMMA AccountsOf ==
  ASSUME NEW t \in Token
  PROVE  /\ {<<Of(t), "ata">>, <<Of(t), "pda">>, <<Of(t), "wallet">>, <<Of(t), "liquidator">>,
             <<Note(t), "ata">>, <<Note(t), "pda">>} \subseteq Cash
         /\ {<<Of(t), "ata">>, <<Of(t), "pda">>, <<Of(t), "wallet">>, <<Of(t), "liquidator">>,
             <<Note(t), "ata">>, <<Note(t), "pda">>, <<Loan(t), "ata">>, <<Loan(t), "pda">>} \subseteq Account
         /\ Of(t) \in Mint /\ Note(t) \in Mint /\ Loan(t) \in Mint
  <1>1. Of(t) \in Mint /\ Note(t) \in Mint /\ Loan(t) \in Mint
    BY DEF Mint, Of, Note, Loan
  <1>2. \A m \in Mint : <<m, "ata">> \in Account /\ <<m, "pda">> \in Account
    BY DEF Account
  <1>3. <<Of(t), "wallet">> \in Account /\ <<Of(t), "liquidator">> \in Account
    BY DEF Account
  <1>4. Of(t)[1] # "loan" /\ Note(t)[1] # "loan"
    BY DEF Of, Note
  <1>. QED BY <1>1, <1>2, <1>3, <1>4 DEF Cash

LEMMA WorthType ==
  ASSUME NEW a, NEW v \in Int
  PROVE  Worth(a, v) \in Int
  BY DEF Worth

LEMMA FundType ==
  ASSUME NEW h \in [Account -> Int]
  PROVE  Fund(h) \in [Token -> Int]
  <1>1. ASSUME NEW a \in Account
        PROVE  Worth(a, h[a]) \in Int
    BY WorthType
  <1>2. MaxLoan \in Int
    BY TxBuilderAssumption
  <1>3. ASSUME NEW t \in Token
        PROVE  Fund(h)[t] \in Int
    <2>1. /\ Worth(<<Of(t), "ata">>, h[<<Of(t), "ata">>]) \in Int
          /\ Worth(<<Of(t), "pda">>, h[<<Of(t), "pda">>]) \in Int
          /\ Worth(<<Of(t), "wallet">>, h[<<Of(t), "wallet">>]) \in Int
          /\ Worth(<<Of(t), "liquidator">>, h[<<Of(t), "liquidator">>]) \in Int
          /\ Worth(<<Note(t), "ata">>, h[<<Note(t), "ata">>]) \in Int
          /\ Worth(<<Note(t), "pda">>, h[<<Note(t), "pda">>]) \in Int
          /\ Worth(<<Loan(t), "ata">>, h[<<Loan(t), "ata">>]) \in Int
          /\ Worth(<<Loan(t), "pda">>, h[<<Loan(t), "pda">>]) \in Int
      BY <1>1, AccountsOf
    <2>. QED BY <1>2, <2>1 DEF Fund
  <1>. QED BY <1>3 DEF Fund

\* When one account changes, all of them together change by as much.
LEMMA FundAfterChange ==
  ASSUME NEW h \in [Account -> Int], NEW a \in Account, NEW v \in Int
  PROVE  LET r == [h EXCEPT ![a] = v]
         IN  /\ r \in [Account -> Int]
             /\ Total(Fund(h), Token) \in Int /\ Total(Fund(r), Token) \in Int
             /\ Total(Fund(r), Token) = Total(Fund(h), Token) + Worth(a, v) - Worth(a, h[a])
  <1>. DEFINE r == [h EXCEPT ![a] = v]
  <1>1. r \in [Account -> Int] /\ r[a] = v /\ \A b \in Account : b # a => r[b] = h[b]
    OBVIOUS
  <1>. HIDE DEF r
  <1>2. PICK u \in Token :
            \/ a = <<Of(u), "ata">> \/ a = <<Of(u), "pda">> \/ a = <<Of(u), "wallet">>
            \/ a = <<Of(u), "liquidator">> \/ a = <<Note(u), "ata">> \/ a = <<Note(u), "pda">>
            \/ a = <<Loan(u), "ata">> \/ a = <<Loan(u), "pda">>
    BY AccountCases
  <1>3. Fund(h) \in [Token -> Int] /\ Fund(r) \in [Token -> Int] /\ IsFiniteSet(Token)
    BY <1>1, FundType, TxBuilderAssumption
  <1>. DEFINE W(g, b) == Worth(b, g[b])
  <1>4. \A b \in Account : W(h, b) \in Int /\ W(r, b) \in Int /\ (b # a => W(r, b) = W(h, b))
    BY <1>1, WorthType
  <1>5. W(r, a) = Worth(a, v) /\ W(h, a) = Worth(a, h[a])
    BY <1>1
  <1>7. ASSUME NEW t \in Token
        PROVE  /\ Fund(h)[t] = MaxLoan + W(h, <<Of(t), "ata">>) + W(h, <<Of(t), "pda">>)
                     + W(h, <<Of(t), "wallet">>) + W(h, <<Of(t), "liquidator">>)
                     + W(h, <<Note(t), "ata">>) + W(h, <<Note(t), "pda">>)
                     + W(h, <<Loan(t), "ata">>) + W(h, <<Loan(t), "pda">>)
               /\ Fund(r)[t] = MaxLoan + W(r, <<Of(t), "ata">>) + W(r, <<Of(t), "pda">>)
                     + W(r, <<Of(t), "wallet">>) + W(r, <<Of(t), "liquidator">>)
                     + W(r, <<Note(t), "ata">>) + W(r, <<Note(t), "pda">>)
                     + W(r, <<Loan(t), "ata">>) + W(r, <<Loan(t), "pda">>)
    BY DEF Fund
  <1>. HIDE DEF W
  <1>8. MaxLoan \in Int
    BY TxBuilderAssumption
  <1>9. ASSUME NEW t \in Token, t # u
        PROVE  Fund(r)[t] = Fund(h)[t]
    <2>1. a \notin {<<Of(t), "ata">>, <<Of(t), "pda">>, <<Of(t), "wallet">>, <<Of(t), "liquidator">>,
                    <<Note(t), "ata">>, <<Note(t), "pda">>, <<Loan(t), "ata">>, <<Loan(t), "pda">>}
      BY <1>2, <1>9 DEF Of, Note, Loan
    <2>. QED BY <2>1, <1>4, <1>7, AccountsOf
  <1>10. Fund(r)[u] = Fund(h)[u] + W(r, a) - W(h, a)
    <2>. DEFINE A1 == <<Of(u), "ata">>
                A2 == <<Of(u), "pda">>
                A3 == <<Of(u), "wallet">>
                A4 == <<Of(u), "liquidator">>
                A5 == <<Note(u), "ata">>
                A6 == <<Note(u), "pda">>
                A7 == <<Loan(u), "ata">>
                A8 == <<Loan(u), "pda">>
    <2>1. {A1, A2, A3, A4, A5, A6, A7, A8} \subseteq Account
      BY AccountsOf
    <2>2. /\ A1 # A2 /\ A1 # A3 /\ A1 # A4 /\ A1 # A5 /\ A1 # A6 /\ A1 # A7 /\ A1 # A8
          /\ A2 # A3 /\ A2 # A4 /\ A2 # A5 /\ A2 # A6 /\ A2 # A7 /\ A2 # A8
          /\ A3 # A4 /\ A3 # A5 /\ A3 # A6 /\ A3 # A7 /\ A3 # A8
          /\ A4 # A5 /\ A4 # A6 /\ A4 # A7 /\ A4 # A8
          /\ A5 # A6 /\ A5 # A7 /\ A5 # A8 /\ A6 # A7 /\ A6 # A8 /\ A7 # A8
      BY DEF Of, Note, Loan
    <2>3. a \in {A1, A2, A3, A4, A5, A6, A7, A8}
      BY <1>2
    <2>4. /\ Fund(h)[u] = MaxLoan + W(h, A1) + W(h, A2) + W(h, A3) + W(h, A4)
                            + W(h, A5) + W(h, A6) + W(h, A7) + W(h, A8)
          /\ Fund(r)[u] = MaxLoan + W(r, A1) + W(r, A2) + W(r, A3) + W(r, A4)
                            + W(r, A5) + W(r, A6) + W(r, A7) + W(r, A8)
      BY <1>7
    <2>. HIDE DEF A1, A2, A3, A4, A5, A6, A7, A8
    <2>5. \A b \in {A1, A2, A3, A4, A5, A6, A7, A8} :
             W(h, b) \in Int /\ W(r, b) \in Int /\ (b # a => W(r, b) = W(h, b))
      BY <1>4, <2>1
    <2>. QED BY <1>8, <2>2, <2>3, <2>4, <2>5
  <1>11. /\ Total(Fund(h), Token) \in Int /\ Total(Fund(r), Token) \in Int
         /\ Total(Fund(r), Token) = Total(Fund(h), Token) + Fund(r)[u] - Fund(h)[u]
    BY <1>3, <1>9, TotalAfterChange
  <1>12. Fund(h)[u] \in Int /\ Fund(r)[u] \in Int /\ W(r, a) \in Int /\ W(h, a) \in Int
    BY <1>3, <1>4
  <1>. QED BY <1>1, <1>5, <1>10, <1>11, <1>12 DEF r

\* What the accounts hold: nothing is made or lost but by a debt that is recorded.
Balanced(h) ==
    /\ h \in [Account -> Int]
    /\ \A a \in Account : h[a] >= Missing
    /\ \A t \in Token : h[<<Loan(t), "ata">>] <= 0
    /\ Total(Fund(h), Token) = Ceiling

\* The accounts that exist still do.
Lasting(h, r) == \A a \in Account : h[a] # Missing => r[a] # Missing

LEMMA OwedAndCash ==
  /\ Cash \subseteq Account /\ Owed \subseteq Account
  /\ \A a \in Cash : a[1][1] # "loan" /\ a \notin Owed /\ \A t \in Token : a # <<Loan(t), "ata">>
  /\ \A a \in Owed : a[1][1] = "loan" /\ \A t \in Token : a # <<Loan(t), "ata">>
  <1>1. ASSUME NEW t \in Token
        PROVE  /\ <<Loan(t), "pda">> \in Account /\ <<Loan(t), "pda">>[1][1] = "loan"
               /\ <<Loan(t), "ata">>[1][1] = "loan"
               /\ \A u \in Token : <<Loan(t), "pda">> # <<Loan(u), "ata">>
    BY AccountsOf DEF Loan
  <1>2. Cash \subseteq Account /\ \A a \in Cash : a[1][1] # "loan"
    BY DEF Cash
  <1>3. \A a \in Owed : \E t \in Token : a = <<Loan(t), "pda">>
    BY DEF Owed, derive_loan_account
  <1>. QED BY <1>1, <1>2, <1>3

\* An empty account is created or closed.
LEMMA BalancedEmpty ==
  ASSUME NEW h, Balanced(h), NEW a \in Account, NEW v \in {Missing, 0}, h[a] \in {Missing, 0}
  PROVE  Balanced([h EXCEPT ![a] = v])
  <1>. DEFINE r == [h EXCEPT ![a] = v]
  <1>1. h \in [Account -> Int] /\ v \in Int
    BY DEF Balanced, Missing
  <1>2. Worth(a, v) = 0 /\ Worth(a, h[a]) = 0
    BY DEF Worth
  <1>3. /\ r \in [Account -> Int] /\ Total(Fund(h), Token) \in Int /\ Total(Fund(r), Token) \in Int
        /\ Total(Fund(r), Token) = Total(Fund(h), Token) + Worth(a, v) - Worth(a, h[a])
    BY <1>1, FundAfterChange
  <1>4. r[a] = v /\ \A b \in Account : b # a => r[b] = h[b]
    BY <1>1
  <1>. HIDE DEF r
  <1>5. Total(Fund(r), Token) = Total(Fund(h), Token)
    BY <1>2, <1>3
  <1>6. (\A b \in Account : r[b] >= Missing) /\ (\A t \in Token : r[<<Loan(t), "ata">>] <= 0)
    <2>1. \A b \in Account : r[b] >= Missing
      BY <1>4 DEF Balanced, Missing
    <2>2. ASSUME NEW t \in Token
          PROVE  r[<<Loan(t), "ata">>] <= 0
      <3>1. <<Loan(t), "ata">> \in Account
        BY AccountsOf
      <3>2. h[<<Loan(t), "ata">>] <= 0
        BY DEF Balanced
      <3>. QED BY <3>1, <3>2, <1>4 DEF Missing
    <2>. QED BY <2>1, <2>2
  <1>7. Balanced(r)
    BY <1>3, <1>5, <1>6 DEF Balanced
  <1>. QED BY <1>7 DEF r

\* Two accounts change by amounts that cancel.
LEMMA BalancedTwo ==
  ASSUME NEW h, Balanced(h), NEW a \in Cash \cup Owed, NEW b \in Cash \cup Owed,
         h[a] # Missing, h[b] # Missing, NEW m \in Int, NEW n \in Int,
         h[a] + m >= 0, h[b] + n >= 0, a = b => h[a] + m + n >= 0,
         (IF a[1][1] = "loan" THEN -m ELSE m) + (IF b[1][1] = "loan" THEN -n ELSE n) = 0
  PROVE  /\ Balanced(Credited(Credited(h, a, m), b, n))
         /\ Lasting(h, Credited(Credited(h, a, m), b, n))
  <1>. DEFINE v == h[a] + m
              g == [h EXCEPT ![a] = v]
              w == g[b] + n
              r == [g EXCEPT ![b] = w]
  <1>1. h \in [Account -> Int] /\ a \in Account /\ b \in Account /\ h[a] \in Int /\ h[b] \in Int
    BY OwedAndCash DEF Balanced
  <1>0. r = Credited(Credited(h, a, m), b, n)
    BY Zenon DEF Credited
  <1>4. v \in Int /\ v = h[a] + m
    BY <1>1
  <1>. HIDE DEF v
  <1>2. /\ g \in [Account -> Int] /\ g[a] = h[a] + m
        /\ \A x \in Account : x # a => g[x] = h[x]
    BY <1>1, <1>4
  <1>3. /\ Total(Fund(h), Token) \in Int /\ Total(Fund(g), Token) \in Int
        /\ Total(Fund(g), Token) = Total(Fund(h), Token) + Worth(a, h[a] + m) - Worth(a, h[a])
    <2>1. /\ Total(Fund(h), Token) \in Int /\ Total(Fund(g), Token) \in Int
          /\ Total(Fund(g), Token) = Total(Fund(h), Token) + Worth(a, v) - Worth(a, h[a])
      BY <1>1, <1>4, FundAfterChange
    <2>. QED BY <2>1, <1>4
  <1>. HIDE DEF g
  <1>5. g[b] \in Int /\ g[b] >= 0 - n /\ (a # b => g[b] = h[b]) /\ (a = b => g[b] = h[a] + m)
    BY <1>1, <1>2
  <1>15. w \in Int /\ w = g[b] + n
    BY <1>5
  <1>. HIDE DEF w
  <1>6. /\ r \in [Account -> Int] /\ r[b] = g[b] + n
        /\ \A x \in Account : x # b => r[x] = g[x]
    BY <1>1, <1>2, <1>15
  <1>7. /\ Total(Fund(r), Token) \in Int
        /\ Total(Fund(r), Token) = Total(Fund(g), Token) + Worth(b, g[b] + n) - Worth(b, g[b])
    <2>1. g \in [Account -> Int] /\ b \in Account /\ w \in Int
      BY <1>1, <1>2, <1>15
    <2>2. /\ Total(Fund(r), Token) \in Int
          /\ Total(Fund(r), Token) = Total(Fund(g), Token) + Worth(b, w) - Worth(b, g[b])
      BY <2>1, FundAfterChange, Zenon
    <2>. QED BY <2>2, <1>15
  <1>. HIDE DEF r
  <1>8. h[a] >= 0 /\ h[b] >= 0 /\ g[b] >= 0
    BY <1>1, <1>5 DEF Balanced, Missing
  <1>9. /\ Worth(a, h[a] + m) - Worth(a, h[a]) = IF a[1][1] = "loan" THEN -m ELSE m
        /\ Worth(b, g[b] + n) - Worth(b, g[b]) = IF b[1][1] = "loan" THEN -n ELSE n
    BY <1>1, <1>5, <1>8 DEF Worth, Missing
  <1>10. Total(Fund(r), Token) = Total(Fund(h), Token)
    <2>1. /\ Worth(a, h[a] + m) \in Int /\ Worth(a, h[a]) \in Int
          /\ Worth(b, g[b] + n) \in Int /\ Worth(b, g[b]) \in Int
      BY <1>1, <1>5, WorthType
    <2>. DEFINE x == IF a[1][1] = "loan" THEN -m ELSE m
                y == IF b[1][1] = "loan" THEN -n ELSE n
    <2>2. x \in Int /\ y \in Int /\ x + y = 0
      OBVIOUS
    <2>3. /\ Worth(a, h[a] + m) - Worth(a, h[a]) = x
          /\ Worth(b, g[b] + n) - Worth(b, g[b]) = y
      BY <1>9
    <2>. HIDE DEF x, y
    <2>. QED BY <2>1, <2>2, <2>3, <1>3, <1>7
  <1>11. \A x \in Account : \/ r[x] = h[x]
                            \/ x \in {a, b} /\ r[x] >= 0
    BY <1>1, <1>2, <1>5, <1>6, <1>8
  <1>12. Balanced(r)
    <2>1. \A x \in Account : r[x] >= Missing
      BY <1>11, <1>6 DEF Balanced, Missing
    <2>2. ASSUME NEW t \in Token
          PROVE  r[<<Loan(t), "ata">>] <= 0
      <3>1. <<Loan(t), "ata">> \in Account /\ <<Loan(t), "ata">> \notin {a, b}
        BY AccountsOf, OwedAndCash
      <3>. QED BY <3>1, <1>11 DEF Balanced
    <2>. QED BY <2>1, <2>2, <1>6, <1>10 DEF Balanced
  <1>13. Lasting(h, r)
    BY <1>11, <1>6 DEF Lasting, Missing
  <1>. QED BY <1>0, <1>12, <1>13 DEF r, w, v

\* No account holds more than all tokens and the debts allow.
LEMMA BalancedBound ==
  ASSUME NEW h, Balanced(h), \A t \in Token : h[<<Loan(t), "pda">>] <= MaxLoan,
         NEW a \in Account
  PROVE  h[a] \in Missing .. Ceiling
  <1>0. PICK u \in Token :
            \/ a = <<Of(u), "ata">> \/ a = <<Of(u), "pda">> \/ a = <<Of(u), "wallet">>
            \/ a = <<Of(u), "liquidator">> \/ a = <<Note(u), "ata">> \/ a = <<Note(u), "pda">>
            \/ a = <<Loan(u), "ata">> \/ a = <<Loan(u), "pda">>
    BY AccountCases
  <1>1. h \in [Account -> Int] /\ MaxLoan \in Nat /\ IsFiniteSet(Token)
    BY TxBuilderAssumption DEF Balanced
  <1>2. ASSUME NEW t \in Token
        PROVE  /\ Fund(h)[t] \in Nat
               /\ t = u /\ a \in Cash => h[a] <= Fund(h)[t]
    <2>. DEFINE A1 == <<Of(t), "ata">>
                A2 == <<Of(t), "pda">>
                A3 == <<Of(t), "wallet">>
                A4 == <<Of(t), "liquidator">>
                A5 == <<Note(t), "ata">>
                A6 == <<Note(t), "pda">>
                A7 == <<Loan(t), "ata">>
                A8 == <<Loan(t), "pda">>
    <2>1. {A1, A2, A3, A4, A5, A6} \subseteq Cash /\ {A7, A8} \subseteq Account
      BY AccountsOf
    <2>2. t = u /\ a \in Cash => a \in {A1, A2, A3, A4, A5, A6}
      <3>1. A7 \notin Cash /\ A8 \notin Cash
        BY DEF Cash, Loan
      <3>. QED BY <3>1, <1>0
    <2>3. Fund(h)[t] = MaxLoan + Worth(A1, h[A1]) + Worth(A2, h[A2]) + Worth(A3, h[A3])
                     + Worth(A4, h[A4]) + Worth(A5, h[A5]) + Worth(A6, h[A6])
                     + Worth(A7, h[A7]) + Worth(A8, h[A8])
      BY DEF Fund
    <2>4. Worth(A7, h[A7]) \in Nat /\ Worth(A8, h[A8]) \in Int /\ MaxLoan + Worth(A8, h[A8]) >= 0
      <3>1. A7[1][1] = "loan" /\ A8[1][1] = "loan"
        BY DEF Loan
      <3>2. h[A7] \in Int /\ h[A7] <= 0 /\ h[A8] \in Int /\ h[A8] <= MaxLoan
            /\ h[A7] >= Missing /\ h[A8] >= Missing
        BY <1>1, <2>1 DEF Balanced
      <3>. HIDE DEF A7, A8
      <3>. QED BY <1>1, <3>1, <3>2 DEF Worth, Missing
    <2>5. ASSUME NEW x \in Cash
          PROVE  Worth(x, h[x]) \in Nat /\ h[x] <= Worth(x, h[x])
      <3>1. x[1][1] # "loan" /\ h[x] \in Int /\ h[x] >= Missing
        BY OwedAndCash DEF Balanced
      <3>. QED BY <3>1 DEF Worth, Missing
    <2>6. /\ Worth(A1, h[A1]) \in Nat /\ Worth(A2, h[A2]) \in Nat /\ Worth(A3, h[A3]) \in Nat
          /\ Worth(A4, h[A4]) \in Nat /\ Worth(A5, h[A5]) \in Nat /\ Worth(A6, h[A6]) \in Nat
      BY <2>1, <2>5
    <2>7. ASSUME NEW x \in {A1, A2, A3, A4, A5, A6}
          PROVE  h[x] \in Int /\ h[x] <= Worth(x, h[x])
      <3>1. x \in Cash
        BY <2>1
      <3>. QED BY <3>1, <2>5, <1>1, OwedAndCash
    <2>. HIDE DEF A1, A2, A3, A4, A5, A6, A7, A8
    <2>. QED BY <1>1, <2>2, <2>3, <2>4, <2>6, <2>7
  <1>3. Fund(h) \in [Token -> Nat]
    BY <1>2 DEF Fund
  <1>4. Ceiling \in Nat /\ Total(Fund(h), Token) = Ceiling /\ Fund(h)[u] <= Ceiling
    BY <1>1, <1>3, PartOfTotal DEF Balanced
  <1>5. MaxLoan <= Ceiling
    <2>. DEFINE f == [t \in Token |-> Supply[t] + MaxLoan]
    <2>1. f \in [Token -> Nat] /\ MaxLoan <= f[u]
      BY TxBuilderAssumption
    <2>. HIDE DEF f
    <2>2. Total(f, Token) \in Nat /\ f[u] <= Total(f, Token)
      BY <2>1, <1>1, PartOfTotal
    <2>3. f[u] \in Nat /\ Ceiling = Total(f, Token)
      BY <2>1 DEF Ceiling, f
    <2>. QED BY <1>1, <2>1, <2>2, <2>3
  <1>6. CASE a \in Cash
    <2>1. h[a] \in Int /\ h[a] <= Fund(h)[u] /\ Fund(h)[u] \in Nat /\ h[a] >= Missing
      BY <1>6, <1>1, <1>2, <1>3 DEF Balanced
    <2>. QED BY <2>1, <1>4 DEF Missing
  <1>7. CASE a = <<Loan(u), "ata">> \/ a = <<Loan(u), "pda">>
    <2>1. h[a] \in Int /\ h[a] <= MaxLoan /\ h[a] >= Missing
      <3>1. h[a] \in Int /\ h[a] >= Missing
        BY <1>1 DEF Balanced
      <3>2. CASE a = <<Loan(u), "ata">>
        <4>1. h[a] <= 0
          BY <3>2 DEF Balanced
        <4>. QED BY <4>1, <3>1, <1>1
      <3>3. CASE a = <<Loan(u), "pda">>
        BY <3>3, <3>1
      <3>. QED BY <1>7, <3>2, <3>3
    <2>. QED BY <2>1, <1>1, <1>4, <1>5 DEF Missing
  <1>. QED BY <1>0, <1>6, <1>7, AccountsOf

(* The accounts of a session's chain.                                      *)

\* A state of the chain has the fields and the accounts of the initial one.
Shape(s) ==
    /\ {"position", "cached", "held"} \subseteq DOMAIN s
    /\ DOMAIN s.position = Mint /\ DOMAIN s.cached = Mint /\ DOMAIN s.held = Account

\* The derived accounts that are not among the ones a transaction is using are
\* counted, and the others are positions whose balance is still to be read.
CountedBut(s, used) ==
    /\ Shape(s)
    /\ \A m \in Mint :
          /\ s.position[m] \in {NoAddress, <<m, "ata">>, <<m, "pda">>}
          /\ s.held[<<m, "pda">>] # Missing =>
                /\ s.position[m] = <<m, "pda">>
                /\ s.cached[m] = s.held[<<m, "pda">>] \/ <<m, "pda">> \in used

\* No tokens are made, every position is an account that exists, and a fee or
\* the mark of one collected belongs to a liquidation of an open account.
Sound(s) ==
    /\ {"ok", "open", "liquidating", "collecting", "accrued", "fresh"} \subseteq DOMAIN s
    /\ Balanced(s.held)
    /\ s.cached \in [Mint -> Nat]
    /\ s.accrued \in [Token -> 0 .. 1]
    /\ \A m \in Mint : s.position[m] # NoAddress => s.held[s.position[m]] # Missing
    /\ s.collecting => s.liquidating
    /\ s.liquidating => s.open

Intact(s, used) == CountedBut(s, used) /\ Sound(s)

\* The accounts as they are between two instructions.
InOrder(s) == Intact(s, {})

LEMMA InOrderIsIntact ==
  ASSUME NEW s, NEW used, InOrder(s)
  PROVE  Intact(s, used)
  BY DEF InOrder, Intact, CountedBut

\* Fields that no other part of the state depends on.
LEMMA FieldsKept ==
  ASSUME NEW s, NEW used, Intact(s, used), NEW v
  PROVE  Intact([s EXCEPT !.ok = v], used) /\ Intact([s EXCEPT !.fresh = v], used)
  BY DEF Intact, CountedBut, Sound, Shape

LEMMA AccountMarked ==
  ASSUME NEW s, NEW used, Intact(s, used)
  PROVE  /\ Intact([s EXCEPT !.open = TRUE], used)
         /\ s.open => Intact([s EXCEPT !.liquidating = TRUE], used)
  BY DEF Intact, CountedBut, Sound, Shape

LEMMA FeeAccrued ==
  ASSUME NEW s, NEW used, Intact(s, used), NEW f \in [Token -> 0 .. 1]
  PROVE  /\ Intact([s EXCEPT !.accrued = f], used)
         /\ s.liquidating => Intact([s EXCEPT !.accrued = f, !.collecting = TRUE], used)
  BY DEF Intact, CountedBut, Sound, Shape

LEMMA EndedIntact ==
  ASSUME NEW s, NEW used, Intact(s, used)
  PROVE  /\ Intact(LiquidationEnded(s), used)
         /\ Intact([LiquidationEnded(s) EXCEPT !.open = FALSE], used)
  <1>. DEFINE f == [t \in Token |-> 0]
  <1>1. f \in [Token -> 0 .. 1] /\ LiquidationEnded(s) = [s EXCEPT !.liquidating = FALSE, !.collecting = FALSE, !.accrued = f]
    BY DEF LiquidationEnded
  <1>. HIDE DEF f
  <1>. QED BY <1>1 DEF Intact, CountedBut, Sound, Shape

LEMMA MintAccounts ==
  ASSUME NEW m \in Mint
  PROVE  /\ <<m, "pda">> \in Account /\ <<m, "ata">> \in Account
         /\ NoAddress \notin Account /\ <<m, "ata">> # NoAddress /\ <<m, "pda">> # NoAddress
  <1>1. <<m, "pda">> \in Account /\ <<m, "ata">> \in Account
    BY DEF Account
  <1>2. NoAddress \notin Account
    BY DEF NoAddress, Account, Mint, Of
  <1>. QED BY <1>1, <1>2

\* The accounts of other mints are other accounts.
LEMMA PositionsDiffer ==
  ASSUME NEW s, NEW used, CountedBut(s, used), NEW m \in Mint, NEW n \in Mint, m # n
  PROVE  /\ s.position[m] \notin {<<n, "ata">>, <<n, "pda">>}
         /\ s.position[m] # NoAddress => s.position[m] # s.position[n]
  <1>1. /\ <<m, "ata">> # <<n, "ata">> /\ <<m, "ata">> # <<n, "pda">>
        /\ <<m, "pda">> # <<n, "ata">> /\ <<m, "pda">> # <<n, "pda">>
    OBVIOUS
  <1>2. NoAddress \notin {<<n, "ata">>, <<n, "pda">>}
    BY MintAccounts
  <1>3. /\ s.position[m] \in {NoAddress, <<m, "ata">>, <<m, "pda">>}
        /\ s.position[n] \in {NoAddress, <<n, "ata">>, <<n, "pda">>}
    BY DEF CountedBut
  <1>. QED BY <1>1, <1>2, <1>3

\* An invocation ends with the balances read back.
LEMMA SetBalancesIntact ==
  ASSUME NEW s, NEW used, NEW accounts, Intact(s, used), used \subseteq accounts, accounts \subseteq Account
  PROVE  InOrder(SetBalances(s, accounts))
  <1>. DEFINE k == [m \in Mint |-> IF s.position[m] \in accounts THEN s.held[s.position[m]] ELSE s.cached[m]]
  <1>1. SetBalances(s, accounts) = [s EXCEPT !.cached = k]
    BY DEF SetBalances
  <1>2. k \in [Mint -> Nat]
    <2>1. ASSUME NEW m \in Mint
          PROVE  (IF s.position[m] \in accounts THEN s.held[s.position[m]] ELSE s.cached[m]) \in Nat
      <3>1. CASE s.position[m] \in accounts
        <4>1. s.position[m] \in Account /\ s.position[m] # NoAddress
          BY <3>1, MintAccounts
        <4>2. s.held[s.position[m]] # Missing /\ s.held[s.position[m]] >= Missing
              /\ s.held[s.position[m]] \in Int
          BY <4>1 DEF Intact, Sound, Balanced
        <4>. QED BY <3>1, <4>2 DEF Missing
      <3>2. CASE s.position[m] \notin accounts
        BY <3>2 DEF Intact, Sound
      <3>. QED BY <3>1, <3>2
    <2>. QED BY <2>1
  <1>3. ASSUME NEW m \in Mint
        PROVE  s.held[<<m, "pda">>] # Missing =>
                  s.position[m] = <<m, "pda">> /\ k[m] = s.held[<<m, "pda">>]
    BY DEF Intact, CountedBut
  <1>. HIDE DEF k
  <1>4. CountedBut([s EXCEPT !.cached = k], {})
    BY <1>2, <1>3 DEF Intact, CountedBut, Sound, Shape
  <1>5. Sound([s EXCEPT !.cached = k])
    BY <1>2 DEF Intact, CountedBut, Sound, Shape
  <1>. QED BY <1>1, <1>4, <1>5, Zenon DEF InOrder, Intact

\* The position of a mint changes, and its balance with it.
LEMMA PlaceFields ==
  ASSUME NEW s, NEW used, Intact(s, used), NEW m \in Mint, NEW a
  PROVE  LET r == Place(s, m, a)
         IN  /\ DOMAIN r = DOMAIN s /\ r.held = s.held /\ r.accrued = s.accrued
             /\ r.open = s.open /\ r.liquidating = s.liquidating /\ r.collecting = s.collecting
             /\ r.position = [s.position EXCEPT ![m] = a] /\ r.cached = [s.cached EXCEPT ![m] = 0]
             /\ r.cached \in [Mint -> Nat]
  BY DEF Place, Intact, CountedBut, Sound, Shape

LEMMA RegisterIntact ==
  ASSUME NEW s, NEW used, NEW m \in Mint, Intact(s, used), ~Exists(s, <<m, "pda">>)
  PROVE  Intact([Place(s, m, <<m, "pda">>) EXCEPT !.held[<<m, "pda">>] = 0], used)
  <1>. DEFINE a == <<m, "pda">>
              p == Place(s, m, a)
              h == [s.held EXCEPT ![a] = 0]
              r == [p EXCEPT !.held[a] = 0]
  <1>1. a \in Account /\ a # NoAddress
    BY MintAccounts
  <1>2. /\ DOMAIN p = DOMAIN s /\ p.held = s.held /\ p.accrued = s.accrued
        /\ p.open = s.open /\ p.liquidating = s.liquidating /\ p.collecting = s.collecting
        /\ p.position = [s.position EXCEPT ![m] = a] /\ p.cached = [s.cached EXCEPT ![m] = 0]
        /\ p.cached \in [Mint -> Nat]
    BY PlaceFields
  <1>. HIDE DEF p
  <1>3. /\ DOMAIN r = DOMAIN s /\ r.held = h /\ r.accrued = s.accrued
        /\ r.open = s.open /\ r.liquidating = s.liquidating /\ r.collecting = s.collecting
        /\ r.position = [s.position EXCEPT ![m] = a] /\ r.cached = [s.cached EXCEPT ![m] = 0]
        /\ r.cached \in [Mint -> Nat]
    BY <1>2 DEF Intact, CountedBut, Shape
  <1>4. Balanced(h)
    <2>1. Balanced(s.held) /\ s.held[a] \in {Missing, 0} /\ 0 \in {Missing, 0}
      BY DEF Intact, Sound, Exists
    <2>. HIDE DEF a
    <2>. QED BY <1>1, <2>1, BalancedEmpty
  <1>5. /\ DOMAIN s.position = Mint /\ DOMAIN s.cached = Mint /\ DOMAIN s.held = Account
        /\ h[a] = 0 /\ DOMAIN h = Account /\ \A b \in Account : b # a => h[b] = s.held[b]
    BY <1>1 DEF Intact, CountedBut, Shape
  <1>. HIDE DEF r, h
  <1>6. ASSUME NEW n \in Mint
        PROVE  /\ r.position[n] \in {NoAddress, <<n, "ata">>, <<n, "pda">>}
               /\ r.held[<<n, "pda">>] # Missing =>
                     /\ r.position[n] = <<n, "pda">>
                     /\ r.cached[n] = r.held[<<n, "pda">>] \/ <<n, "pda">> \in used
               /\ r.position[n] # NoAddress => r.held[r.position[n]] # Missing
    <2>1. CASE n = m
      BY <2>1, <1>3, <1>5, <1>1 DEF Missing
    <2>2. CASE n # m
      <3>1. r.position[n] = s.position[n] /\ r.cached[n] = s.cached[n]
        BY <2>2, <1>3, <1>5
      <3>2. <<n, "pda">> # a /\ s.position[n] # a
        BY <2>2, PositionsDiffer DEF Intact
      <3>3. s.position[n] \in {NoAddress, <<n, "ata">>, <<n, "pda">>} /\ <<n, "ata">> \in Account
            /\ <<n, "pda">> \in Account
        BY MintAccounts DEF Intact, CountedBut
      <3>4. h[<<n, "pda">>] = s.held[<<n, "pda">>]
            /\ (s.position[n] # NoAddress => h[s.position[n]] = s.held[s.position[n]])
        BY <3>2, <3>3, <1>5
      <3>. QED BY <3>1, <3>3, <3>4, <1>3 DEF Intact, CountedBut, Sound
    <2>. QED BY <2>1, <2>2
  <1>7. CountedBut(r, used)
    BY <1>3, <1>5, <1>6 DEF CountedBut, Shape, Intact
  <1>8. Sound(r)
    BY <1>3, <1>4, <1>6 DEF Sound, Intact
  <1>9. Intact(r, used)
    BY <1>7, <1>8 DEF Intact
  <1>. QED BY <1>9, Zenon DEF r, p

LEMMA DepositIntact ==
  ASSUME NEW s, NEW used, NEW m \in Mint, Intact(s, used), ~Registered(s, m), Exists(s, <<m, "ata">>)
  PROVE  Intact(Place(s, m, <<m, "ata">>), used)
  <1>. DEFINE a == <<m, "ata">>
              r == Place(s, m, a)
  <1>1. a \in Account /\ a # NoAddress /\ <<m, "pda">> # NoAddress
    BY MintAccounts
  <1>2. /\ DOMAIN r = DOMAIN s /\ r.held = s.held /\ r.accrued = s.accrued
        /\ r.open = s.open /\ r.liquidating = s.liquidating /\ r.collecting = s.collecting
        /\ r.position = [s.position EXCEPT ![m] = a] /\ r.cached = [s.cached EXCEPT ![m] = 0]
        /\ r.cached \in [Mint -> Nat]
    BY PlaceFields
  <1>3. DOMAIN s.position = Mint /\ DOMAIN s.cached = Mint /\ DOMAIN s.held = Account
    BY DEF Intact, CountedBut, Shape
  <1>4. s.held[<<m, "pda">>] = Missing
    BY <1>1 DEF Intact, CountedBut, Registered
  <1>. HIDE DEF r
  <1>5. ASSUME NEW n \in Mint
        PROVE  /\ r.position[n] \in {NoAddress, <<n, "ata">>, <<n, "pda">>}
               /\ r.held[<<n, "pda">>] # Missing =>
                     /\ r.position[n] = <<n, "pda">>
                     /\ r.cached[n] = r.held[<<n, "pda">>] \/ <<n, "pda">> \in used
               /\ r.position[n] # NoAddress => r.held[r.position[n]] # Missing
    <2>1. CASE n = m
      BY <2>1, <1>2, <1>3, <1>4 DEF Exists
    <2>2. CASE n # m
      <3>1. r.position[n] = s.position[n] /\ r.cached[n] = s.cached[n]
        BY <2>2, <1>2, <1>3
      <3>. QED BY <3>1, <1>2 DEF Intact, CountedBut, Sound
    <2>. QED BY <2>1, <2>2
  <1>6. CountedBut(r, used)
    BY <1>2, <1>3, <1>5 DEF CountedBut, Shape, Intact
  <1>7. Sound(r)
    BY <1>2, <1>5 DEF Sound, Intact
  <1>. QED BY <1>6, <1>7 DEF Intact, r

\* An account is closed with its position.
LEMMA CloseIntact ==
  ASSUME NEW s, NEW used, NEW m \in Mint, NEW a, Intact(s, used),
         s.position[m] = a \/ a = <<m, "pda">>, s.held[a] = 0
  PROVE  Intact([Place(s, m, NoAddress) EXCEPT !.held[a] = Missing], used)
  <1>. DEFINE p == Place(s, m, NoAddress)
              h == [s.held EXCEPT ![a] = Missing]
              r == [p EXCEPT !.held[a] = Missing]
  <1>1. a = NoAddress \/ a \in {<<m, "ata">>, <<m, "pda">>}
    BY DEF Intact, CountedBut
  <1>2. /\ DOMAIN p = DOMAIN s /\ p.held = s.held /\ p.accrued = s.accrued
        /\ p.open = s.open /\ p.liquidating = s.liquidating /\ p.collecting = s.collecting
        /\ p.position = [s.position EXCEPT ![m] = NoAddress] /\ p.cached = [s.cached EXCEPT ![m] = 0]
        /\ p.cached \in [Mint -> Nat]
    BY PlaceFields
  <1>. HIDE DEF p
  <1>3. /\ DOMAIN r = DOMAIN s /\ r.held = h /\ r.accrued = s.accrued
        /\ r.open = s.open /\ r.liquidating = s.liquidating /\ r.collecting = s.collecting
        /\ r.position = [s.position EXCEPT ![m] = NoAddress] /\ r.cached = [s.cached EXCEPT ![m] = 0]
        /\ r.cached \in [Mint -> Nat]
    BY <1>2 DEF Intact, CountedBut, Shape
  <1>4. /\ DOMAIN s.position = Mint /\ DOMAIN s.cached = Mint /\ DOMAIN s.held = Account
        /\ DOMAIN h = Account /\ \A b \in Account : b # a => h[b] = s.held[b]
        /\ a \in Account => h[a] = Missing
        /\ a \notin Account => h = s.held
    <2>1. s.held \in [Account -> Int]
      BY DEF Intact, Sound, Balanced
    <2>2. DOMAIN s.position = Mint /\ DOMAIN s.cached = Mint
      BY DEF Intact, CountedBut, Shape
    <2>. QED BY <2>1, <2>2
  <1>5. Balanced(h)
    <2>1. CASE a \in Account
      <3>1. Balanced(s.held) /\ s.held[a] \in {Missing, 0} /\ Missing \in {Missing, 0}
        BY DEF Intact, Sound
      <3>. QED BY <2>1, <3>1, BalancedEmpty
    <2>2. CASE a \notin Account
      BY <2>2, <1>4 DEF Intact, Sound
    <2>. QED BY <2>1, <2>2
  <1>. HIDE DEF r, h
  <1>6. ASSUME NEW n \in Mint
        PROVE  /\ r.position[n] \in {NoAddress, <<n, "ata">>, <<n, "pda">>}
               /\ r.held[<<n, "pda">>] # Missing =>
                     /\ r.position[n] = <<n, "pda">>
                     /\ r.cached[n] = r.held[<<n, "pda">>] \/ <<n, "pda">> \in used
               /\ r.position[n] # NoAddress => r.held[r.position[n]] # Missing
    <2>0. <<n, "ata">> \in Account /\ <<n, "pda">> \in Account /\ NoAddress \notin Account
      BY MintAccounts
    <2>1. CASE n = m
      <3>1. r.position[n] = NoAddress
        BY <2>1, <1>3, <1>4
      <3>2. r.held[<<n, "pda">>] = Missing
        <4>1. CASE s.held[<<n, "pda">>] = Missing
          BY <4>1, <2>0, <1>3, <1>4
        <4>2. CASE s.held[<<n, "pda">>] # Missing
          <5>1. a = <<n, "pda">>
            BY <4>2, <2>1 DEF Intact, CountedBut
          <5>. QED BY <5>1, <2>0, <1>3, <1>4
        <4>. QED BY <4>1, <4>2
      <3>. QED BY <3>1, <3>2
    <2>2. CASE n # m
      <3>1. r.position[n] = s.position[n] /\ r.cached[n] = s.cached[n]
        BY <2>2, <1>3, <1>4
      <3>2. <<n, "pda">> # a /\ (s.position[n] # NoAddress => s.position[n] # a)
        BY <2>0, <2>2, <1>1, PositionsDiffer DEF Intact
      <3>3. s.position[n] \in {NoAddress, <<n, "ata">>, <<n, "pda">>}
        BY DEF Intact, CountedBut
      <3>4. h[<<n, "pda">>] = s.held[<<n, "pda">>]
            /\ (s.position[n] # NoAddress => h[s.position[n]] = s.held[s.position[n]])
        BY <2>0, <3>2, <3>3, <1>4
      <3>. QED BY <3>1, <3>3, <3>4, <1>3 DEF Intact, CountedBut, Sound
    <2>. QED BY <2>1, <2>2
  <1>7. CountedBut(r, used)
    BY <1>3, <1>4, <1>6 DEF CountedBut, Shape, Intact
  <1>8. Sound(r)
    BY <1>3, <1>5, <1>6 DEF Sound, Intact
  <1>9. Intact(r, used)
    BY <1>7, <1>8 DEF Intact
  <1>. QED BY <1>9, Zenon DEF r, p

\* The balances change and nothing else does.
LEMMA HeldIntact ==
  ASSUME NEW s, NEW used, Intact(s, used), NEW h, Balanced(h), Lasting(s.held, h),
         \A m \in Mint : \/ h[<<m, "pda">>] = s.held[<<m, "pda">>]
                         \/ <<m, "pda">> \in used /\ s.held[<<m, "pda">>] # Missing
  PROVE  Intact([s EXCEPT !.held = h], used)
  <1>. DEFINE r == [s EXCEPT !.held = h]
  <1>1. /\ DOMAIN r = DOMAIN s /\ r.held = h /\ r.accrued = s.accrued
        /\ r.open = s.open /\ r.liquidating = s.liquidating /\ r.collecting = s.collecting
        /\ r.position = s.position /\ r.cached = s.cached
    BY DEF Intact, CountedBut, Shape
  <1>2. DOMAIN h = Account
    BY DEF Balanced
  <1>. HIDE DEF r
  <1>3. CountedBut(r, used)
    BY <1>1, <1>2 DEF Intact, CountedBut, Shape
  <1>4. ASSUME NEW m \in Mint, s.position[m] # NoAddress
        PROVE  h[s.position[m]] # Missing
    <2>1. s.position[m] \in Account /\ s.held[s.position[m]] # Missing
      BY <1>4, MintAccounts DEF Intact, CountedBut, Sound
    <2>. QED BY <2>1 DEF Lasting
  <1>5. Sound(r)
    BY <1>1, <1>4 DEF Sound, Intact
  <1>. QED BY <1>3, <1>5 DEF Intact, r

\* An associated account is created if it is missing.
LEMMA CreateIntact ==
  ASSUME NEW s, Intact(s, {}), NEW a \in Account, a[2] # "pda"
  PROVE  Intact([s EXCEPT !.held[a] = IF @ = Missing THEN 0 ELSE @], {})
  <1>. DEFINE v == IF s.held[a] = Missing THEN 0 ELSE s.held[a]
              h == [s.held EXCEPT ![a] = v]
  <1>1. [s EXCEPT !.held[a] = IF @ = Missing THEN 0 ELSE @] = [s EXCEPT !.held = h]
    BY DEF Intact, CountedBut, Shape
  <1>2. s.held \in [Account -> Int] /\ Balanced(s.held)
    BY DEF Intact, Sound, Balanced
  <1>3. Balanced(h)
    <2>1. CASE s.held[a] = Missing
      <3>1. v = 0 /\ v \in {Missing, 0} /\ s.held[a] \in {Missing, 0}
        BY <2>1
      <3>. HIDE DEF v
      <3>. QED BY <3>1, <1>2, BalancedEmpty
    <2>2. CASE s.held[a] # Missing
      <3>1. h = s.held
        BY <2>2, <1>2
      <3>. HIDE DEF h
      <3>. QED BY <3>1, <1>2
    <2>. QED BY <2>1, <2>2
  <1>4. Lasting(s.held, h)
    BY <1>2 DEF Lasting, Missing
  <1>5. ASSUME NEW m \in Mint
        PROVE  h[<<m, "pda">>] = s.held[<<m, "pda">>]
    BY <1>2, MintAccounts
  <1>. HIDE DEF h
  <1>. QED BY <1>1, <1>3, <1>4, <1>5, HeldIntact

\* What a step yields is in order if it is when the step is allowed.
LEMMA RequireIntact ==
  ASSUME NEW s, NEW used, NEW condition, NEW next, Intact(s, used),
         condition => Intact(next, used)
  PROVE  Intact(Require(s, condition, next), used)
  <1>1. Intact([s EXCEPT !.ok = FALSE], used)
    BY FieldsKept
  <1>. QED BY <1>1 DEF Require

\* The accounts a transaction is using, or no position's.
Usable(a, used) == a \in used \/ a[2] # "pda"

\* Two accounts change by amounts that cancel.
LEMMA CreditIntact ==
  ASSUME NEW s, NEW used, Intact(s, used), NEW a \in Cash \cup Owed, NEW b \in Cash \cup Owed,
         Usable(a, used), Usable(b, used), Exists(s, a), Exists(s, b), NEW m \in Int, NEW n \in Int,
         s.held[a] + m >= 0, s.held[b] + n >= 0, a = b => s.held[a] + m + n >= 0,
         (IF a[1][1] = "loan" THEN -m ELSE m) + (IF b[1][1] = "loan" THEN -n ELSE n) = 0
  PROVE  Intact([s EXCEPT !.held = Credited(Credited(@, a, m), b, n)], used)
  <1>. DEFINE h == s.held
              k == Credited(Credited(h, a, m), b, n)
  <1>1. Balanced(h) /\ h[a] # Missing /\ h[b] # Missing
    BY DEF Intact, Sound, Exists
  <1>2. h[a] + m >= 0 /\ h[b] + n >= 0 /\ (a = b => h[a] + m + n >= 0)
    OBVIOUS
  <1>. HIDE DEF h
  <1>3. Balanced(k) /\ Lasting(h, k)
    BY <1>1, <1>2, BalancedTwo
  <1>4. ASSUME NEW x \in Account, x # a, x # b
        PROVE  k[x] = h[x]
    <2>1. DOMAIN h = Account
      BY <1>1 DEF Balanced
    <2>2. DOMAIN Credited(h, a, m) = Account /\ Credited(h, a, m)[x] = h[x]
      BY <1>4, <2>1 DEF Credited
    <2>. DEFINE g == Credited(h, a, m)
    <2>3. g[x] = h[x] /\ DOMAIN g = Account
      BY <2>2
    <2>. HIDE DEF g
    <2>4. Credited(g, b, n)[x] = g[x]
      BY <1>4, <2>3 DEF Credited
    <2>. QED BY <2>3, <2>4 DEF g
  <1>5. ASSUME NEW x \in Mint
        PROVE  \/ k[<<x, "pda">>] = h[<<x, "pda">>]
               \/ <<x, "pda">> \in used /\ h[<<x, "pda">>] # Missing
    <2>. DEFINE z == <<x, "pda">>
    <2>1. z \in Account /\ z[2] = "pda"
      BY MintAccounts
    <2>. HIDE DEF k, z
    <2>2. z = a \/ z = b => z \in used /\ h[z] # Missing
      BY <2>1, <1>1 DEF Usable
    <2>3. z # a /\ z # b => k[z] = h[z]
      BY <2>1, <1>4
    <2>4. k[z] = h[z] \/ (z \in used /\ h[z] # Missing)
      BY <2>2, <2>3
    <2>. QED BY <2>4 DEF z
  <1>. HIDE DEF k
  <1>6. Intact([s EXCEPT !.held = k], used)
    BY <1>3, <1>5, HeldIntact DEF h
  <1>. QED BY <1>6, Zenon DEF k, h

LEMMA TransferIntact ==
  ASSUME NEW s, NEW used, Intact(s, used), NEW a \in Cash, NEW b \in Cash, NEW n \in Int,
         Usable(a, used), Usable(b, used)
  PROVE  Intact(Transfer(s, a, b, n), used)
  <1>. DEFINE c == /\ Exists(s, a) /\ Exists(s, b)
                   /\ n >= 0 /\ s.held[a] >= n
              r == [s EXCEPT !.held = Credited(Credited(@, a, -n), b, n)]
  <1>1. Transfer(s, a, b, n) = Require(s, c, r)
    BY Zenon DEF Transfer
  <1>2. ASSUME c
        PROVE  Intact(r, used)
    <2>1. s.held[a] \in Int /\ s.held[b] \in Int /\ s.held[b] >= Missing
      BY OwedAndCash DEF Intact, Sound, Balanced
    <2>2. /\ Exists(s, a) /\ Exists(s, b) /\ n >= 0 /\ s.held[a] >= n
      BY <1>2
    <2>. DEFINE k == -n
    <2>3. /\ k \in Int /\ s.held[a] + k >= 0 /\ s.held[b] + n >= 0
          /\ a = b => s.held[a] + k + n >= 0
      BY <2>1, <2>2 DEF Exists, Missing
    <2>4. a[1][1] # "loan" /\ b[1][1] # "loan"
      BY OwedAndCash
    <2>5. (IF a[1][1] = "loan" THEN -k ELSE k) + (IF b[1][1] = "loan" THEN -n ELSE n) = 0
      BY <2>4
    <2>6. a \in Cash \cup Owed /\ b \in Cash \cup Owed
      OBVIOUS
    <2>. HIDE DEF k
    <2>7. Intact([s EXCEPT !.held = Credited(Credited(@, a, k), b, n)], used)
      BY <2>2, <2>3, <2>5, <2>6, CreditIntact
    <2>. QED BY <2>7, Zenon DEF k
  <1>. HIDE DEF c, r
  <1>. QED BY <1>1, <1>2, RequireIntact

\* A change of tokens as the builder asks for it.
IsChange(change) ==
    change.kind \in {"ShiftBy", "SetSourceTo", "SetDestinationTo"} /\ change.tokens \in Int

\* An instruction of the pool as the builder makes them.
IsInner(ix) ==
    \/ /\ ix.op \in {"deposit", "withdraw"} /\ "source" \in DOMAIN ix
       /\ ix.source \in Cash /\ ix.destination \in Cash /\ IsChange(ix.change)
    \/ /\ ix.op \in {"margin_borrow", "margin_borrow_v2"} /\ "source" \in DOMAIN ix
       /\ ix.source \in Owed /\ ix.destination \in Cash /\ ix.change.tokens \in Nat
    \/ /\ ix.op \in {"margin_repay", "repay"} /\ "source" \in DOMAIN ix
       /\ ix.source \in Cash /\ ix.destination \in Owed /\ IsChange(ix.change)
    \/ /\ ix.op = "swap" /\ "source" \in DOMAIN ix
       /\ ix.source \in Cash /\ ix.destination \in Cash /\ ix.amount \in Int
    \/ ix.op = "margin_refresh_position" /\ "source" \notin DOMAIN ix
    \/ /\ ix.op \in {"register_loan", "close_loan"} /\ "source" \notin DOMAIN ix
       /\ ix.token \in Token /\ ix.account = derive_loan_account(ix.token)

LEMMA TouchedAccounts ==
  ASSUME NEW ix, IsInner(ix)
  PROVE  Touched(ix) \subseteq Account
  <1>1. Cash \subseteq Account /\ Owed \subseteq Account
    BY OwedAndCash
  <1>. QED BY <1>1 DEF IsInner, Touched

LEMMA MoveType ==
  ASSUME NEW change, IsChange(change), NEW a \in Int, NEW b \in Int
  PROVE  TokensToMove(change, a, b) \in Int /\ TokensToRepay(change, a, b) \in Int
  <1>1. change.tokens \in Int
    BY DEF IsChange
  <1>2. TokensToMove(change, a, b) \in Int
    <2>1. CASE change.kind = "ShiftBy"
      BY <2>1, <1>1 DEF TokensToMove
    <2>2. CASE change.kind = "SetSourceTo"
      BY <2>2, <1>1 DEF TokensToMove
    <2>3. CASE change.kind = "SetDestinationTo"
      BY <2>3, <1>1 DEF TokensToMove
    <2>. QED BY <2>1, <2>2, <2>3 DEF IsChange
  <1>. QED BY <1>2 DEF TokensToRepay

LEMMA InvokePoolIntact ==
  ASSUME NEW s, NEW used, NEW ix, Intact(s, used), IsInner(ix), Touched(ix) \subseteq used
  PROVE  Intact(InvokePool(s, ix), used)
  <1>0. /\ s.held \in [Account -> Int] /\ (\A a \in Account : s.held[a] >= Missing)
        /\ Cash \subseteq Account /\ Owed \subseteq Account
    BY OwedAndCash DEF Intact, Sound, Balanced
  <1>. DEFINE a == ix.source
              b == ix.destination
  <1>1. CASE /\ ix.op \in {"deposit", "withdraw"} /\ "source" \in DOMAIN ix
             /\ a \in Cash /\ b \in Cash /\ IsChange(ix.change)
    <2>. DEFINE n == TokensToMove(ix.change, s.held[a], s.held[b])
                c == ix.op = "withdraw" => Exists(s, associated_token_address(Of(ix.token)))
    <2>1. Usable(a, used) /\ Usable(b, used)
      BY <1>1 DEF Touched, Usable
    <2>2. InvokePool(s, ix) = Require(s, c, Transfer(s, a, b, n))
      BY <1>1, Zenon DEF InvokePool
    <2>3. n \in Int
      BY <1>0, <1>1, MoveType
    <2>. HIDE DEF n, c, a, b
    <2>4. Intact(Transfer(s, a, b, n), used)
      BY <1>1, <2>1, <2>3, TransferIntact
    <2>. QED BY <2>2, <2>4, RequireIntact
  <1>2. CASE /\ ix.op \in {"margin_borrow", "margin_borrow_v2"} /\ "source" \in DOMAIN ix
             /\ a \in Owed /\ b \in Cash /\ ix.change.tokens \in Nat
    <2>. DEFINE n == ix.change.tokens
                r == [s EXCEPT !.held = Credited(Credited(@, a, n), b, n)]
                c == Exists(s, a) /\ Exists(s, b)
    <2>1. Usable(a, used) /\ Usable(b, used)
      BY <1>2 DEF Touched, Usable
    <2>2. InvokePool(s, ix) = Require(s, c, r)
      BY <1>2, Zenon DEF InvokePool
    <2>3. n \in Nat
      BY <1>2
    <2>. HIDE DEF n, a, b
    <2>4. ASSUME c
          PROVE  Intact(r, used)
      <3>1. a[1][1] = "loan" /\ b[1][1] # "loan" /\ a # b
        BY <1>2, OwedAndCash
      <3>2. s.held[a] + n >= 0 /\ s.held[b] + n >= 0
        BY <1>0, <1>2, <2>3, <2>4 DEF Exists, Missing
      <3>3. (IF a[1][1] = "loan" THEN -n ELSE n) + (IF b[1][1] = "loan" THEN -n ELSE n) = 0
        BY <3>1, <2>3
      <3>. QED BY <1>2, <2>1, <2>3, <2>4, <3>1, <3>2, <3>3, CreditIntact
    <2>. HIDE DEF r, c
    <2>. QED BY <2>2, <2>4, RequireIntact
  <1>3. CASE /\ ix.op \in {"margin_repay", "repay"} /\ "source" \in DOMAIN ix
             /\ a \in Cash /\ b \in Owed /\ IsChange(ix.change)
    <2>. DEFINE n == TokensToRepay(ix.change, s.held[a], s.held[b])
                r == [s EXCEPT !.held = Credited(Credited(@, a, -n), b, -n)]
                c == /\ Exists(s, a) /\ Exists(s, b)
                     /\ n \in 0 .. s.held[a] /\ n <= s.held[b]
    <2>1. Usable(a, used) /\ Usable(b, used)
      BY <1>3 DEF Touched, Usable
    <2>2. InvokePool(s, ix) = Require(s, c, r)
      BY <1>3, Zenon DEF InvokePool
    <2>3. n \in Int
      BY <1>0, <1>3, MoveType
    <2>. HIDE DEF n, a, b
    <2>4. ASSUME c
          PROVE  Intact(r, used)
      <3>. DEFINE k == -n
      <3>1. a[1][1] # "loan" /\ b[1][1] = "loan" /\ a # b
        BY <1>3, OwedAndCash
      <3>2. k \in Int /\ s.held[a] + k >= 0 /\ s.held[b] + k >= 0
        BY <1>0, <1>3, <2>3, <2>4
      <3>. HIDE DEF k
      <3>3. (IF a[1][1] = "loan" THEN -k ELSE k) + (IF b[1][1] = "loan" THEN -k ELSE k) = 0
        BY <3>1, <3>2
      <3>4. Intact([s EXCEPT !.held = Credited(Credited(@, a, k), b, k)], used)
        BY <1>3, <2>1, <2>4, <3>1, <3>2, <3>3, CreditIntact
      <3>. QED BY <3>4, Zenon DEF k
    <2>. HIDE DEF r, c
    <2>. QED BY <2>2, <2>4, RequireIntact
  <1>4. CASE /\ ix.op = "swap" /\ "source" \in DOMAIN ix
             /\ a \in Cash /\ b \in Cash /\ ix.amount \in Int
    <2>1. Usable(a, used) /\ Usable(b, used)
      BY <1>4 DEF Touched, Usable
    <2>2. InvokePool(s, ix) = Transfer(s, a, b, ix.amount)
      BY <1>4, Zenon DEF InvokePool
    <2>. HIDE DEF a, b
    <2>. QED BY <1>4, <2>1, <2>2, TransferIntact
  <1>5. CASE ix.op = "margin_refresh_position"
    <2>1. InvokePool(s, ix) = MarginRefreshPosition(s, ix)
      BY <1>5, Zenon DEF InvokePool
    <2>. DEFINE f == s.fresh \cup {m \in {Note(ix.token), Loan(ix.token)} : Registered(s, m)}
    <2>2. MarginRefreshPosition(s, ix) = [s EXCEPT !.fresh = f]
      BY Zenon DEF MarginRefreshPosition
    <2>. HIDE DEF f
    <2>3. Intact([s EXCEPT !.fresh = f], used)
      BY FieldsKept
    <2>. QED BY <2>1, <2>2, <2>3, Zenon
  <1>6. CASE /\ ix.op = "register_loan" /\ ix.token \in Token
             /\ ix.account = derive_loan_account(ix.token)
    <2>. DEFINE m == Loan(ix.token)
                c == ~Exists(s, ix.account) /\ ~Registered(s, m)
                r == [Place(s, m, ix.account) EXCEPT !.held[ix.account] = 0]
    <2>1. InvokePool(s, ix) = Require(s, c, r)
      BY <1>6, Zenon DEF InvokePool, RegisterLoan
    <2>2. m \in Mint /\ ix.account = <<m, "pda">>
      BY <1>6, AccountsOf DEF derive_loan_account
    <2>. HIDE DEF m
    <2>3. c => Intact(r, used)
      BY <2>2, RegisterIntact
    <2>. HIDE DEF r, c
    <2>. QED BY <2>1, <2>3, RequireIntact
  <1>7. CASE /\ ix.op = "close_loan" /\ ix.token \in Token
             /\ ix.account = derive_loan_account(ix.token)
    <2>. DEFINE m == Loan(ix.token)
                c == Registered(s, m) /\ s.held[ix.account] = 0
                r == [Place(s, m, NoAddress) EXCEPT !.held[ix.account] = Missing]
    <2>1. InvokePool(s, ix) = Require(s, c, r)
      BY <1>7, Zenon DEF InvokePool, CloseLoan
    <2>2. m \in Mint /\ ix.account = <<m, "pda">>
      BY <1>7, AccountsOf DEF derive_loan_account
    <2>. HIDE DEF m
    <2>3. c => Intact(r, used)
      BY <2>2, CloseIntact
    <2>. HIDE DEF r, c
    <2>. QED BY <2>1, <2>3, RequireIntact
  <1>. HIDE DEF a, b
  <1>8. \/ /\ ix.op \in {"deposit", "withdraw"} /\ "source" \in DOMAIN ix
           /\ a \in Cash /\ b \in Cash /\ IsChange(ix.change)
        \/ /\ ix.op \in {"margin_borrow", "margin_borrow_v2"} /\ "source" \in DOMAIN ix
           /\ a \in Owed /\ b \in Cash /\ ix.change.tokens \in Nat
        \/ /\ ix.op \in {"margin_repay", "repay"} /\ "source" \in DOMAIN ix
           /\ a \in Cash /\ b \in Owed /\ IsChange(ix.change)
        \/ /\ ix.op = "swap" /\ "source" \in DOMAIN ix
           /\ a \in Cash /\ b \in Cash /\ ix.amount \in Int
        \/ ix.op = "margin_refresh_position"
        \/ /\ ix.op \in {"register_loan", "close_loan"} /\ ix.token \in Token
           /\ ix.account = derive_loan_account(ix.token)
    BY Zenon DEF IsInner, a, b
  <1>. QED BY <1>1, <1>2, <1>3, <1>4, <1>5, <1>6, <1>7, <1>8

IsInvocation(inners) ==
    /\ Len(inners) \in Nat /\ DOMAIN inners = 1 .. Len(inners)
    /\ \A i \in 1 .. Len(inners) : IsInner(inners[i])

\* The states between the instructions of an invocation exist.
LEMMA InvokeAllIsDefined ==
  ASSUME NEW s, NEW inners, Len(inners) \in Nat
  PROVE  \E g : /\ g = [i \in 0 .. Len(inners) |-> IF i = 0 THEN s ELSE InvokePool(g[i - 1], inners[i])]
                /\ InvokeAll(s, inners) = g[Len(inners)]
  <1>. DEFINE Def(g, n) == g = [i \in 0 .. n |-> IF i = 0 THEN s ELSE InvokePool(g[i - 1], inners[i])]
              S == {n \in Nat : \E g : Def(g, n)}
  <1>1. 0 \in S
    <2>1. Def([i \in 0 .. 0 |-> s], 0)
      OBVIOUS
    <2>. QED BY <2>1
  <1>2. ASSUME NEW n \in Nat, n \in S
        PROVE  n + 1 \in S
    <2>1. PICK g : Def(g, n)
      BY <1>2
    <2>. DEFINE h == [i \in 0 .. n + 1 |-> IF i = n + 1 THEN InvokePool(g[n], inners[n + 1]) ELSE g[i]]
    <2>2. \A i \in 0 .. n : h[i] = g[i]
      OBVIOUS
    <2>3. \A i \in 0 .. n + 1 : h[i] = IF i = 0 THEN s ELSE InvokePool(h[i - 1], inners[i])
      <3>1. TAKE i \in 0 .. n + 1
      <3>2. CASE i = n + 1
        <4>1. h[i] = InvokePool(g[n], inners[n + 1])
          BY <3>2
        <4>2. h[i - 1] = g[n] /\ i # 0
          BY <2>2, <3>2
        <4>. HIDE DEF h
        <4>. QED BY <4>1, <4>2, <3>2
      <3>3. CASE i \in 0 .. n
        <4>1. h[i] = g[i] /\ (i # 0 => h[i - 1] = g[i - 1])
          BY <2>2, <3>3
        <4>. HIDE DEF h
        <4>2. g[i] = IF i = 0 THEN s ELSE InvokePool(g[i - 1], inners[i])
          BY <2>1, <3>3
        <4>. QED BY <4>1, <4>2
      <3>. QED BY <3>2, <3>3
    <2>4. DOMAIN h = 0 .. n + 1 /\ h = [i \in DOMAIN h |-> h[i]]
      OBVIOUS
    <2>5. Def(h, n + 1)
      <3>. HIDE DEF h
      <3>. QED BY <2>3, <2>4
    <2>6. n + 1 \in Nat
      OBVIOUS
    <2>. HIDE DEF Def, h
    <2>. QED BY <2>5, <2>6, Zenon
  <1>3. Nat \subseteq S
    <2>. HIDE DEF S
    <2>. QED BY <1>1, <1>2, SetInduction
  <1>4. \E g : Def(g, Len(inners))
    BY <1>3
  <1>5. Def(CHOOSE g : Def(g, Len(inners)), Len(inners))
    <2>. HIDE DEF Def
    <2>. QED BY <1>4, Zenon
  <1>6. InvokeAll(s, inners) = (CHOOSE g : Def(g, Len(inners)))[Len(inners)]
    BY Zenon DEF InvokeAll
  <1>. QED BY <1>5, <1>6, Zenon

LEMMA InvokeAllIntact ==
  ASSUME NEW s, NEW inners, NEW used, Intact(s, used), IsInvocation(inners),
         \A i \in 1 .. Len(inners) : Touched(inners[i]) \subseteq used
  PROVE  Intact(InvokeAll(s, inners), used)
  <1>. DEFINE N == Len(inners)
  <1>1. PICK g : /\ g = [i \in 0 .. N |-> IF i = 0 THEN s ELSE InvokePool(g[i - 1], inners[i])]
                 /\ InvokeAll(s, inners) = g[N]
    BY InvokeAllIsDefined DEF IsInvocation
  <1>2. N \in Nat
    BY DEF IsInvocation
  <1>. HIDE DEF N
  <1>3. g[0] = s /\ \A i \in 1 .. N : g[i] = InvokePool(g[i - 1], inners[i])
    BY <1>1, <1>2
  <1>. DEFINE S == {n \in Nat : n <= N => Intact(g[n], used)}
  <1>4. 0 \in S
    BY <1>3
  <1>5. ASSUME NEW n \in Nat, n \in S
        PROVE  n + 1 \in S
    <2>. SUFFICES ASSUME n + 1 <= N
                  PROVE  Intact(g[n + 1], used)
      OBVIOUS
    <2>1. n + 1 \in 1 .. N /\ Intact(g[n], used)
      BY <1>5, <1>2
    <2>2. g[n + 1] = InvokePool(g[n], inners[n + 1])
      BY <1>3, <2>1
    <2>3. IsInner(inners[n + 1]) /\ Touched(inners[n + 1]) \subseteq used
      BY <2>1 DEF IsInvocation, N
    <2>. QED BY <2>1, <2>2, <2>3, InvokePoolIntact
  <1>6. Nat \subseteq S
    <2>. HIDE DEF S
    <2>. QED BY <1>4, <1>5, SetInduction
  <1>7. Intact(g[N], used)
    BY <1>6, <1>2
  <1>. QED BY <1>1, <1>7, Zenon

LEMMA InvokeManyIntact ==
  ASSUME NEW s, NEW inners, InOrder(s), IsInvocation(inners)
  PROVE  InOrder(InvokeMany(s, inners))
  <1>. DEFINE used == UNION {Touched(inners[i]) : i \in DOMAIN inners}
  <1>1. Intact(s, used)
    BY InOrderIsIntact
  <1>2. \A i \in 1 .. Len(inners) : Touched(inners[i]) \subseteq used
    BY DEF IsInvocation
  <1>3. InvokeMany(s, inners) = SetBalances(InvokeAll(s, inners), used)
    BY Zenon DEF InvokeMany
  <1>4. used \subseteq Account
    <2>1. \A i \in DOMAIN inners : Touched(inners[i]) \subseteq Account
      BY TouchedAccounts DEF IsInvocation
    <2>. QED BY <2>1, Zenon
  <1>. HIDE DEF used
  <1>5. Intact(InvokeAll(s, inners), used)
    BY <1>1, <1>2, InvokeAllIntact
  <1>. QED BY <1>3, <1>4, <1>5, SetBalancesIntact

\* An instruction as the builder makes them.
IsInstruction(ix) ==
    \/ ix.op \in {"create_account", "close_account", "refresh_position_config",
                  "liquidate_begin", "liquidate_end"}
    \/ ix.op \in {"refresh_deposit_position", "update_position_balance"} /\ ix.account \in Account
    \/ /\ ix.op = "transfer_deposit"
       /\ ix.source \in Cash /\ ix.destination \in Cash /\ ix.amount \in Int
    \/ ix.op = "close_position" /\ ix.mint \in Mint
    \/ ix.op = "create_ata" /\ ix.account \in Account /\ ix.account[2] # "pda"
    \/ ix.op = "register_position" /\ ix.mint \in Mint /\ ix.account = <<ix.mint, "pda">>
    \/ ix.op = "create_deposit_position" /\ ix.mint \in Mint /\ ix.account = <<ix.mint, "ata">>
    \/ /\ ix.op = "collect_liquidation_fee" /\ ix.token \in Token
       /\ ix.source \in Cash /\ ix.destination \in Cash /\ ix.destination[2] # "pda"
    \/ /\ ix.op \in {"adapter_invoke", "accounting_invoke", "liquidator_invoke"}
       /\ IsInvocation(ix.inners)

Fees == {0, 1}

LEMMA FeesType ==
  ASSUME NEW g \in [Token -> 0 .. 1], NEW x, NEW v, x \in Token => v \in 0 .. 1
  PROVE  [g EXCEPT ![x] = v] \in [Token -> 0 .. 1]
  OBVIOUS

LEMMA ExecuteInOrder ==
  ASSUME NEW s, NEW ix, NEW fee \in Fees, InOrder(s), IsInstruction(ix)
  PROVE  InOrder(Execute(s, ix, fee))
  <1>. DEFINE E == Execute(s, ix, fee)
  <1>0. Intact(s, {}) /\ InOrder([s EXCEPT !.ok = FALSE])
    BY FieldsKept DEF InOrder
  <1>1. CASE ix.op = "create_account"
    <2>. DEFINE r == [s EXCEPT !.open = TRUE]
    <2>1. E = Require(s, ~s.open, r)
      BY <1>1, Zenon DEF Execute
    <2>2. InOrder(r)
      BY <1>0, AccountMarked DEF InOrder
    <2>. HIDE DEF r
    <2>. QED BY <2>1, <2>2, <1>0 DEF Require
  <1>2. CASE ix.op = "close_account"
    <2>. DEFINE r == [LiquidationEnded(s) EXCEPT !.open = FALSE]
                c == s.open /\ \A m \in Mint : ~Registered(s, m)
    <2>1. E = Require(s, c, r)
      BY <1>2, Zenon DEF Execute
    <2>2. InOrder(r)
      BY <1>0, EndedIntact DEF InOrder
    <2>. HIDE DEF r, c
    <2>. QED BY <2>1, <2>2, <1>0 DEF Require
  <1>3. CASE ix.op = "close_position" /\ ix.mint \in Mint
    <2>. DEFINE r == [Place(s, ix.mint, NoAddress) EXCEPT !.held[ix.account] = Missing]
                c == /\ VerifyAuthority(s, ix.authority)
                     /\ s.position[ix.mint] = ix.account
                     /\ s.cached[ix.mint] = 0 /\ s.held[ix.account] = 0
    <2>1. E = Require(s, c, r)
      BY <1>3, Zenon DEF Execute
    <2>2. c => InOrder(r)
      BY CloseIntact, <1>0, <1>3 DEF InOrder
    <2>. HIDE DEF r, c
    <2>. QED BY <2>1, <2>2, <1>0 DEF Require
  <1>4. CASE ix.op = "refresh_deposit_position" /\ ix.account \in Account
    <2>. DEFINE f == s.fresh \cup {ix.mint}
                c == s.position[ix.mint] = ix.account /\ HasConfig(ix.mint)
    <2>1. E = Require(s, c, SetBalances([s EXCEPT !.fresh = f], {ix.account}))
      BY <1>4, Zenon DEF Execute
    <2>. HIDE DEF f, c
    <2>2. Intact([s EXCEPT !.fresh = f], {})
      BY <1>0, FieldsKept
    <2>3. InOrder(SetBalances([s EXCEPT !.fresh = f], {ix.account}))
      BY <1>4, <2>2, SetBalancesIntact
    <2>. QED BY <2>1, <2>3, <1>0 DEF Require
  <1>5. CASE /\ ix.op = "transfer_deposit"
             /\ ix.source \in Cash /\ ix.destination \in Cash /\ ix.amount \in Int
    <2>. DEFINE used == {ix.source, ix.destination}
                r == Transfer(s, ix.source, ix.destination, ix.amount)
                c == Registered(s, ix.mint) /\ s.position[ix.mint] \in used
    <2>1. E = Require(s, c, SetBalances(r, used))
      BY <1>5, Zenon DEF Execute
    <2>2. Intact(r, used)
      BY <1>5, TransferIntact, InOrderIsIntact DEF Usable
    <2>3. used \subseteq Account
      BY <1>5, OwedAndCash
    <2>. HIDE DEF r, c, used
    <2>4. InOrder(SetBalances(r, used))
      BY <2>2, <2>3, SetBalancesIntact
    <2>. QED BY <2>1, <2>4, <1>0 DEF Require
  <1>6. CASE ix.op = "update_position_balance" /\ ix.account \in Account
    <2>1. E = SetBalances(s, {ix.account})
      BY <1>6, Zenon DEF Execute
    <2>. QED BY <1>6, <2>1, <1>0, SetBalancesIntact
  <1>7. CASE ix.op = "refresh_position_config"
    <2>1. E = Require(s, Registered(s, ix.mint), s)
      BY <1>7, Zenon DEF Execute
    <2>. QED BY <2>1, <1>0 DEF Require
  <1>8. CASE ix.op = "liquidate_begin"
    <2>. DEFINE c == /\ s.open /\ ~s.liquidating /\ ix.authority = "liquidator"
                     /\ \E t \in Token : s.cached[Loan(t)] > 0
                     /\ \A m \in Mint : s.cached[m] > 0 => m \in s.fresh
                r == [s EXCEPT !.liquidating = TRUE]
    <2>1. E = Require(s, c, r)
      BY <1>8, Zenon DEF Execute
    <2>2. c => InOrder(r)
      BY <1>0, AccountMarked, Zenon DEF InOrder
    <2>. HIDE DEF r, c
    <2>. QED BY <2>1, <2>2, <1>0 DEF Require
  <1>9. CASE ix.op = "liquidate_end"
    <2>1. E = Require(s, s.liquidating, LiquidationEnded(s))
      BY <1>9, Zenon DEF Execute
    <2>2. InOrder(LiquidationEnded(s))
      BY <1>0, EndedIntact DEF InOrder
    <2>. QED BY <2>1, <2>2, <1>0 DEF Require
  <1>10. CASE ix.op = "create_ata" /\ ix.account \in Account /\ ix.account[2] # "pda"
    <2>1. E = [s EXCEPT !.held[ix.account] = IF @ = Missing THEN 0 ELSE @]
      BY <1>10, Zenon DEF Execute
    <2>2. Intact([s EXCEPT !.held[ix.account] = IF @ = Missing THEN 0 ELSE @], {})
      BY <1>0, <1>10, CreateIntact
    <2>. QED BY <2>1, <2>2, Zenon DEF InOrder
  <1>11. CASE ix.op = "register_position" /\ ix.mint \in Mint /\ ix.account = <<ix.mint, "pda">>
    <2>. DEFINE r == [Place(s, ix.mint, ix.account) EXCEPT !.held[ix.account] = 0]
                c == /\ VerifyAuthority(s, ix.authority) /\ HasConfig(ix.mint)
                     /\ ~Exists(s, ix.account) /\ ~Registered(s, ix.mint)
    <2>1. E = Require(s, c, r)
      BY <1>11, Zenon DEF Execute
    <2>2. c => InOrder(r)
      BY <1>0, <1>11, RegisterIntact DEF InOrder
    <2>. HIDE DEF r, c
    <2>. QED BY <2>1, <2>2, <1>0 DEF Require
  <1>12. CASE /\ ix.op = "create_deposit_position" /\ ix.mint \in Mint
              /\ ix.account = <<ix.mint, "ata">>
    <2>. DEFINE r == IF Registered(s, ix.mint) THEN s ELSE Place(s, ix.mint, ix.account)
                c == /\ VerifyAuthority(s, ix.authority) /\ HasConfig(ix.mint)
                     /\ Exists(s, ix.account)
    <2>1. E = Require(s, c, r)
      BY <1>12, Zenon DEF Execute
    <2>2. c => InOrder(r)
      BY <1>0, <1>12, DepositIntact DEF InOrder
    <2>. HIDE DEF r, c
    <2>. QED BY <2>1, <2>2, <1>0 DEF Require
  <1>13. CASE /\ ix.op = "collect_liquidation_fee" /\ ix.token \in Token
              /\ ix.source \in Cash /\ ix.destination \in Cash /\ ix.destination[2] # "pda"
    <2>. DEFINE t == Transfer(s, ix.source, ix.destination, s.accrued[ix.token])
                r == [t EXCEPT !.accrued[ix.token] = 0, !.collecting = TRUE]
                c == /\ s.liquidating /\ s.accrued[ix.token] > 0
                     /\ s.position[Of(ix.token)] = ix.source
                used == {ix.source}
    <2>1. E = Require(s, c, SetBalances(r, used))
      BY <1>13, Zenon DEF Execute
    <2>2. s.accrued \in [Token -> 0 .. 1] /\ s.accrued[ix.token] \in Int
      BY <1>0, <1>13 DEF Intact, Sound
    <2>3. Intact(t, used) /\ t.liquidating = s.liquidating
      <3>1. Intact(t, used)
        BY <1>13, <2>2, TransferIntact, InOrderIsIntact DEF Usable
      <3>2. t.liquidating = s.liquidating
        BY <1>0 DEF Transfer, Require, Intact, Sound
      <3>. QED BY <3>1, <3>2
    <2>4. used \subseteq Account
      BY <1>13, OwedAndCash
    <2>. HIDE DEF t, used
    <2>5. c => Intact(r, used)
      <3>. DEFINE f == [t.accrued EXCEPT ![ix.token] = 0]
      <3>1. t.accrued \in [Token -> 0 .. 1]
        BY <2>3 DEF Intact, Sound
      <3>2. f \in [Token -> 0 .. 1]
        BY <3>1, FeesType
      <3>3. r = [t EXCEPT !.accrued = f, !.collecting = TRUE]
        BY Zenon
      <3>. HIDE DEF f, r
      <3>. QED BY <2>3, <3>2, <3>3, FeeAccrued
    <2>. HIDE DEF r
    <2>6. c => InOrder(SetBalances(r, used))
      BY <2>4, <2>5, SetBalancesIntact
    <2>. HIDE DEF c
    <2>. QED BY <2>1, <2>6, <1>0 DEF Require
  <1>14. CASE ix.op = "adapter_invoke" /\ IsInvocation(ix.inners)
    <2>1. E = Require(s, s.open /\ ~s.liquidating, InvokeMany(s, ix.inners))
      BY <1>14, Zenon DEF Execute
    <2>. QED BY <2>1, <1>0, <1>14, InvokeManyIntact DEF Require
  <1>15. CASE ix.op = "accounting_invoke" /\ IsInvocation(ix.inners)
    <2>1. E = Require(s, s.open /\ \A i \in DOMAIN ix.inners : ix.inners[i].signer # "margin",
                      InvokeMany(s, ix.inners))
      BY <1>15, Zenon DEF Execute
    <2>. QED BY <2>1, <1>0, <1>15, InvokeManyIntact DEF Require
  <1>16. CASE ix.op = "liquidator_invoke" /\ IsInvocation(ix.inners)
    <2>. DEFINE t == InvokeMany(s, ix.inners)
                r == [t EXCEPT !.accrued[ix.fee] = IF @ = 0 THEN fee ELSE @]
    <2>1. E = Require(s, s.open /\ s.liquidating /\ ~s.collecting, r)
      BY <1>16, Zenon DEF Execute
    <2>2. Intact(t, {})
      BY <1>16, InvokeManyIntact DEF InOrder
    <2>. HIDE DEF t
    <2>3. InOrder(r)
      <3>. DEFINE f == [t.accrued EXCEPT ![ix.fee] = IF t.accrued[ix.fee] = 0 THEN fee ELSE t.accrued[ix.fee]]
      <3>1. t.accrued \in [Token -> 0 .. 1]
        BY <2>2 DEF Intact, Sound
      <3>2. f \in [Token -> 0 .. 1]
        <4>1. ix.fee \in Token => (IF t.accrued[ix.fee] = 0 THEN fee ELSE t.accrued[ix.fee]) \in 0 .. 1
          BY <3>1 DEF Fees
        <4>. QED BY <3>1, <4>1, FeesType
      <3>3. r = [t EXCEPT !.accrued = f]
        BY Zenon
      <3>. HIDE DEF f, r
      <3>. QED BY <2>2, <3>2, <3>3, FeeAccrued DEF InOrder
    <2>. HIDE DEF r
    <2>. QED BY <2>1, <2>3, <1>0 DEF Require
  <1>. HIDE DEF E
  <1>. QED BY <1>1, <1>2, <1>3, <1>4, <1>5, <1>6, <1>7, <1>8, <1>9, <1>10, <1>11, <1>12,
              <1>13, <1>14, <1>15, <1>16 DEF IsInstruction, E

\* The states between the instructions of a transaction exist.
LEMMA RunIsDefined ==
  ASSUME NEW s, NEW fee, NEW tx, Len(tx) \in Nat
  PROVE  \E g : /\ g[0] = s /\ Run(s, tx, fee) = g[Len(tx)]
                /\ \A i \in 1 .. Len(tx) : g[i] = Execute(g[i - 1], tx[i], fee)
  <1>. DEFINE Def(g, n) == g = [i \in 0 .. n |-> IF i = 0 THEN s ELSE Execute(g[i - 1], tx[i], fee)]
              S == {n \in Nat : \E g : Def(g, n)}
  <1>1. 0 \in S
    <2>1. Def([i \in 0 .. 0 |-> s], 0)
      OBVIOUS
    <2>. QED BY <2>1
  <1>2. ASSUME NEW n \in Nat, n \in S
        PROVE  n + 1 \in S
    <2>1. PICK g : Def(g, n)
      BY <1>2
    <2>. DEFINE h == [i \in 0 .. n + 1 |-> IF i = n + 1 THEN Execute(g[n], tx[n + 1], fee) ELSE g[i]]
    <2>2. \A i \in 0 .. n : h[i] = g[i]
      OBVIOUS
    <2>3. \A i \in 0 .. n + 1 : h[i] = IF i = 0 THEN s ELSE Execute(h[i - 1], tx[i], fee)
      <3>1. TAKE i \in 0 .. n + 1
      <3>2. CASE i = n + 1
        <4>1. h[i] = Execute(g[n], tx[n + 1], fee)
          BY <3>2
        <4>2. h[i - 1] = g[n] /\ i # 0
          BY <2>2, <3>2
        <4>. HIDE DEF h
        <4>. QED BY <4>1, <4>2, <3>2
      <3>3. CASE i \in 0 .. n
        <4>1. h[i] = g[i] /\ (i # 0 => h[i - 1] = g[i - 1])
          BY <2>2, <3>3
        <4>. HIDE DEF h
        <4>2. g[i] = IF i = 0 THEN s ELSE Execute(g[i - 1], tx[i], fee)
          BY <2>1, <3>3
        <4>. QED BY <4>1, <4>2
      <3>. QED BY <3>2, <3>3
    <2>4. DOMAIN h = 0 .. n + 1 /\ h = [i \in DOMAIN h |-> h[i]]
      OBVIOUS
    <2>5. Def(h, n + 1)
      <3>. HIDE DEF h
      <3>. QED BY <2>3, <2>4
    <2>6. n + 1 \in Nat
      OBVIOUS
    <2>. HIDE DEF Def, h
    <2>. QED BY <2>5, <2>6, Zenon
  <1>3. Nat \subseteq S
    <2>. HIDE DEF S
    <2>. QED BY <1>1, <1>2, SetInduction
  <1>4. \E g : Def(g, Len(tx))
    BY <1>3
  <1>5. Def(CHOOSE g : Def(g, Len(tx)), Len(tx))
    <2>. HIDE DEF Def
    <2>. QED BY <1>4, Zenon
  <1>6. Run(s, tx, fee) = (CHOOSE g : Def(g, Len(tx)))[Len(tx)]
    BY Zenon DEF Run
  <1>. DEFINE G == CHOOSE g : Def(g, Len(tx))
  <1>7. G[0] = s /\ \A i \in 1 .. Len(tx) : G[i] = Execute(G[i - 1], tx[i], fee)
    <2>1. G = [i \in 0 .. Len(tx) |-> IF i = 0 THEN s ELSE Execute(G[i - 1], tx[i], fee)]
      BY <1>5
    <2>. HIDE DEF G, S
    <2>. QED BY <2>1
  <1>. QED BY <1>6, <1>7, Zenon

LEMMA RunInOrder ==
  ASSUME NEW s, NEW tx, NEW fee \in Fees, InOrder(s), Len(tx) \in Nat,
         \A i \in 1 .. Len(tx) : IsInstruction(tx[i])
  PROVE  InOrder(Run(s, tx, fee))
  <1>0. \E g : /\ g[0] = s /\ Run(s, tx, fee) = g[Len(tx)]
               /\ \A i \in 1 .. Len(tx) : g[i] = Execute(g[i - 1], tx[i], fee)
    BY RunIsDefined
  <1>. DEFINE N == Len(tx)
  <1>3. PICK g : /\ g[0] = s /\ Run(s, tx, fee) = g[N]
                 /\ \A i \in 1 .. N : g[i] = Execute(g[i - 1], tx[i], fee)
    BY <1>0, Zenon
  <1>2. N \in Nat /\ \A i \in 1 .. N : IsInstruction(tx[i])
    OBVIOUS
  <1>. HIDE DEF N
  <1>. DEFINE S == {n \in Nat : n <= N => InOrder(g[n])}
  <1>4. 0 \in S
    BY <1>3
  <1>5. ASSUME NEW n \in Nat, n \in S
        PROVE  n + 1 \in S
    <2>. SUFFICES ASSUME n + 1 <= N
                  PROVE  InOrder(g[n + 1])
      OBVIOUS
    <2>1. n + 1 \in 1 .. N /\ InOrder(g[n])
      BY <1>5, <1>2
    <2>2. g[n + 1] = Execute(g[n], tx[n + 1], fee)
      BY <1>3, <2>1
    <2>. QED BY <1>2, <2>1, <2>2, ExecuteInOrder
  <1>6. Nat \subseteq S
    <2>. HIDE DEF S
    <2>. QED BY <1>4, <1>5, SetInduction
  <1>7. InOrder(g[N])
    BY <1>6, <1>2
  <1>. QED BY <1>3, <1>7, Zenon

(* Transactions: sequences of instructions of the builder, or of the panic *)
(* that BuildTransactions excludes.  P is where they may pay deposit notes *)
(* to.                                                                     *)
NoteAccount == {<<Note(t), place>> : t \in Token, place \in {"ata", "pda"}}

\* An instruction of the pool that pays notes into accounts of P only.
Pays(P, ix) ==
    /\ ix.op \in {"deposit", "withdraw", "margin_borrow", "margin_borrow_v2", "swap"}
    /\ ix.destination \in NoteAccount
    => ix.destination \in P
IsPart(P, ix) == IsInner(ix) /\ Pays(P, ix)

IsAimed(P, inners) == IsInvocation(inners) /\ \A i \in 1 .. Len(inners) : Pays(P, inners[i])

\* The margin program's instructions move tokens only, and where notes are paid
\* no position is closed.
Aims(P, ix) ==
    /\ ix.op \in {"transfer_deposit", "collect_liquidation_fee"} =>
          ix.source \notin NoteAccount /\ ix.destination \notin NoteAccount
    /\ ix.op = "close_position" => P = {}
    /\ ix.op \in {"adapter_invoke", "accounting_invoke", "liquidator_invoke"} =>
          \A i \in 1 .. Len(ix.inners) : Pays(P, ix.inners[i])

IsStep(P, ix) == (IsInstruction(ix) /\ Aims(P, ix)) \/ ix = Panic
IsTransaction(P, tx) == tx \in Seq(ToSet(tx)) /\ \A ix \in ToSet(tx) : IsStep(P, ix)

LEMMA NoteAccounts ==
  ASSUME NEW t \in Token, NEW u \in Token, NEW place
  PROVE  /\ <<Of(t), place>> \notin NoteAccount
         /\ derive_loan_account(t) \notin NoteAccount
         /\ place \in {"ata", "pda"} => <<Note(t), place>> \in NoteAccount
  BY DEF NoteAccount, Note, Of, Loan, derive_loan_account

LEMMA TransactionOver ==
  ASSUME NEW P, NEW X, NEW tx \in Seq(X), \A ix \in X : IsStep(P, ix)
  PROVE  IsTransaction(P, tx)
  BY OverElements, Zenon DEF IsTransaction

LEMMA TransactionConcat ==
  ASSUME NEW P, NEW s, NEW t, IsTransaction(P, s), IsTransaction(P, t)
  PROVE  IsTransaction(P, s \o t)
  <1>. DEFINE X == ToSet(s) \cup ToSet(t)
  <1>1. /\ \A ix \in X : IsStep(P, ix)
        /\ ToSet(s) \subseteq X /\ ToSet(t) \subseteq X
        /\ s \in Seq(ToSet(s)) /\ t \in Seq(ToSet(t))
    BY Zenon DEF IsTransaction
  <1>. HIDE DEF X
  <1>2. s \in Seq(X) /\ t \in Seq(X)
    <2>. DEFINE S == ToSet(s)
                T == ToSet(t)
    <2>1. s \in Seq(S) /\ t \in Seq(T) /\ S \subseteq X /\ T \subseteq X
      BY <1>1
    <2>. HIDE DEF S, T
    <2>. QED BY <2>1
  <1>3. s \o t \in Seq(X)
    BY <1>2
  <1>. QED BY <1>1, <1>3, TransactionOver

LEMMA TransactionEmpty ==
  ASSUME NEW P
  PROVE  IsTransaction(P, << >>)
  <1>. DEFINE X == {}
  <1>1. << >> \in Seq(X)
    OBVIOUS
  <1>2. \A x \in X : IsStep(P, x)
    OBVIOUS
  <1>. HIDE DEF X
  <1>. QED BY <1>1, <1>2, TransactionOver, Zenon

LEMMA TransactionOf ==
  ASSUME NEW P, NEW ix, IsStep(P, ix)
  PROVE  IsTransaction(P, <<ix>>)
  <1>. DEFINE X == {ix}
  <1>1. <<ix>> \in Seq(X)
    OBVIOUS
  <1>2. \A x \in X : IsStep(P, x)
    OBVIOUS
  <1>. HIDE DEF X
  <1>. QED BY <1>1, <1>2, TransactionOver, Zenon

LEMMA TransactionOfTwo ==
  ASSUME NEW P, NEW a, NEW b, IsStep(P, a), IsStep(P, b)
  PROVE  IsTransaction(P, <<a, b>>)
  <1>. DEFINE X == {a, b}
  <1>1. <<a, b>> \in Seq(X)
    OBVIOUS
  <1>2. \A x \in X : IsStep(P, x)
    OBVIOUS
  <1>. HIDE DEF X
  <1>. QED BY <1>1, <1>2, TransactionOver, Zenon

\* A sequence built by a function.
LEMMA TransactionFrom ==
  ASSUME NEW P, NEW n \in Nat, NEW f, DOMAIN f = 1 .. n, f = [i \in 1 .. n |-> f[i]],
         \A i \in 1 .. n : IsStep(P, f[i])
  PROVE  IsTransaction(P, f)
  <1>. DEFINE X == {f[i] : i \in 1 .. n}
  <1>1. \A ix \in X : IsStep(P, ix)
    OBVIOUS
  <1>2. \A i \in 1 .. n : f[i] \in X
    OBVIOUS
  <1>. HIDE DEF X
  <1>3. f \in [1 .. n -> X]
    BY <1>2
  <1>4. f \in Seq(X)
    BY <1>3
  <1>. QED BY <1>1, <1>4, TransactionOver

\* The accounts the builder reads or derives.
LEMMA Addresses ==
  ASSUME NEW c, InOrder(c), NEW t \in Token
  PROVE  /\ PositionAddress(c, Note(t)) \in Cash /\ PoolTarget(c, t) \in Cash
         /\ associated_token_address(Of(t)) \in Cash /\ derive_loan_account(t) \in Owed
         /\ <<Of(t), "wallet">> \in Cash /\ <<Of(t), "liquidator">> \in Cash
  <1>1. /\ {<<Of(t), "ata">>, <<Of(t), "wallet">>, <<Of(t), "liquidator">>,
            <<Note(t), "ata">>, <<Note(t), "pda">>} \subseteq Cash
        /\ Note(t) \in Mint
    BY AccountsOf
  <1>2. c.position[Note(t)] \in {NoAddress, <<Note(t), "ata">>, <<Note(t), "pda">>}
    BY <1>1 DEF InOrder, Intact, CountedBut
  <1>3. PositionAddress(c, Note(t)) \in Cash
    BY <1>1, <1>2 DEF PositionAddress, Registered, derive_position_token_account
  <1>4. PoolTarget(c, t) \in Cash
    BY <1>1, <1>2 DEF PoolTarget, Registered, associated_token_address
  <1>. QED BY <1>1, <1>3, <1>4 DEF associated_token_address, Owed

\* Who signs for a source, and the source.
LEMMA Sources ==
  ASSUME NEW t \in Token, NEW who \in Who, NEW authority \in {"MarginAccount", "AccountAuthority"}
  PROVE  SourceOf(t, resolve(who, authority)) \in Cash
  <1>1. <<Of(t), "ata">> \in Cash /\ <<Of(t), "wallet">> \in Cash /\ <<Of(t), "liquidator">> \in Cash
    BY AccountsOf
  <1>2. CASE authority = "MarginAccount"
    <2>1. resolve(who, authority) = "margin"
      BY <1>2, Zenon DEF resolve
    <2>2. SourceOf(t, "margin") = <<Of(t), "ata">>
      BY Zenon DEF SourceOf, associated_token_address
    <2>. QED BY <1>1, <2>1, <2>2
  <1>3. CASE authority = "AccountAuthority"
    <2>1. resolve(who, authority) = who
      BY <1>3 DEF resolve
    <2>2. SourceOf(t, "owner") = <<Of(t), "wallet">> /\ SourceOf(t, "liquidator") = <<Of(t), "liquidator">>
      BY DEF SourceOf
    <2>. QED BY <1>1, <2>1, <2>2 DEF Who
  <1>. QED BY <1>2, <1>3

LEMMA Balances ==
  ASSUME NEW c, InOrder(c), NEW a \in Account
  PROVE  TokenBalance(c, a) \in Nat
  <1>1. c.held[a] \in Int /\ c.held[a] >= Missing
    BY DEF InOrder, Intact, Sound, Balanced
  <1>. QED BY <1>1 DEF TokenBalance, Exists, Missing

LEMMA Changes ==
  ASSUME NEW n \in Int
  PROVE  IsChange(Shift(n)) /\ IsChange(SetSource(n)) /\ IsChange(SetDestination(n))
  BY DEF IsChange, Shift, SetSource, SetDestination

LEMMA ShiftIsChange ==
  ASSUME NEW n \in Nat
  PROVE  IsChange(Shift(n))
  BY Changes

\* Most instructions pay nobody.
LEMMA PlainStep ==
  ASSUME NEW P, NEW ix, IsInstruction(ix),
         ix.op \notin {"transfer_deposit", "collect_liquidation_fee", "close_position",
                      "adapter_invoke", "accounting_invoke", "liquidator_invoke"}
  PROVE  IsStep(P, ix)
  BY DEF IsStep, Aims

LEMMA MintSteps ==
  ASSUME NEW P, NEW who, NEW m \in Mint, NEW a
  PROVE  /\ IsStep(P, create_ata(m, "ata")) /\ IsStep(P, register_position(who, m))
         /\ IsStep(P, create_deposit_position(who, m))
         /\ P = {} => IsStep(P, close_position(who, m, a))
  <1>1. IsInstruction(create_ata(m, "ata"))
    BY MintAccounts DEF IsInstruction, create_ata
  <1>2. IsInstruction(register_position(who, m)) /\ IsInstruction(close_position(who, m, a))
    BY DEF IsInstruction, register_position, close_position, derive_position_token_account
  <1>3. IsInstruction(create_deposit_position(who, m))
    BY DEF IsInstruction, create_deposit_position, associated_token_address
  <1>4. /\ create_ata(m, "ata").op = "create_ata" /\ register_position(who, m).op = "register_position"
        /\ close_position(who, m, a).op = "close_position"
        /\ create_deposit_position(who, m).op = "create_deposit_position"
    BY DEF create_ata, register_position, close_position, create_deposit_position
  <1>5. P = {} => IsStep(P, close_position(who, m, a))
    BY <1>2, <1>4 DEF IsStep, Aims
  <1>. QED BY <1>1, <1>2, <1>3, <1>4, <1>5, PlainStep

LEMMA TokenSteps ==
  ASSUME NEW P, NEW t \in Token, NEW who
  PROVE  /\ IsStep(P, create_ata(Of(t), "ata")) /\ IsStep(P, create_ata(Of(t), "liquidator"))
         /\ IsStep(P, create_deposit_position(who, Of(t)))
         /\ IsStep(P, refresh_deposit_position(t)) /\ IsStep(P, collect_liquidation_fee(t))
  <1>1. /\ {<<Of(t), "ata">>, <<Of(t), "liquidator">>} \subseteq Cash /\ Cash \subseteq Account
        /\ Of(t) \in Mint
    BY AccountsOf, OwedAndCash
  <1>2. IsInstruction(create_ata(Of(t), "liquidator"))
    BY <1>1 DEF IsInstruction, create_ata
  <1>3. IsInstruction(refresh_deposit_position(t))
    BY <1>1 DEF IsInstruction, refresh_deposit_position, associated_token_address
  <1>4. IsInstruction(collect_liquidation_fee(t))
    BY <1>1 DEF IsInstruction, collect_liquidation_fee, associated_token_address
  <1>5. IsStep(P, create_ata(Of(t), "ata")) /\ IsStep(P, create_deposit_position(who, Of(t)))
    BY <1>1, MintSteps
  <1>6. /\ create_ata(Of(t), "liquidator").op = "create_ata"
        /\ refresh_deposit_position(t).op = "refresh_deposit_position"
        /\ collect_liquidation_fee(t).op = "collect_liquidation_fee"
        /\ collect_liquidation_fee(t).source = <<Of(t), "ata">>
        /\ collect_liquidation_fee(t).destination = <<Of(t), "liquidator">>
    BY DEF create_ata, refresh_deposit_position, collect_liquidation_fee, associated_token_address
  <1>7. IsStep(P, collect_liquidation_fee(t))
    BY <1>4, <1>6, NoteAccounts DEF IsStep, Aims
  <1>. QED BY <1>2, <1>3, <1>5, <1>6, <1>7, PlainStep

LEMMA AccountSteps ==
  ASSUME NEW P, NEW who, NEW m
  PROVE  /\ IsStep(P, refresh_position_config(m))
         /\ IsStep(P, create_account) /\ IsStep(P, close_account)
         /\ IsStep(P, liquidate_begin(who)) /\ IsStep(P, liquidate_end(who))
  <1>1. IsInstruction(refresh_position_config(m))
    BY DEF IsInstruction, refresh_position_config
  <1>2. IsInstruction(create_account) /\ IsInstruction(close_account)
    BY DEF IsInstruction, create_account, close_account
  <1>3. IsInstruction(liquidate_begin(who)) /\ IsInstruction(liquidate_end(who))
    BY DEF IsInstruction, liquidate_begin, liquidate_end
  <1>4. /\ refresh_position_config(m).op = "refresh_position_config"
        /\ create_account.op = "create_account" /\ close_account.op = "close_account"
        /\ liquidate_begin(who).op = "liquidate_begin" /\ liquidate_end(who).op = "liquidate_end"
    BY DEF refresh_position_config, create_account, close_account, liquidate_begin, liquidate_end
  <1>. QED BY <1>1, <1>2, <1>3, <1>4, PlainStep

LEMMA TransferSteps ==
  ASSUME NEW P, NEW t, NEW a \in Cash, NEW b \in Cash, NEW n \in Int,
         a \notin NoteAccount, b \notin NoteAccount
  PROVE  IsStep(P, transfer_deposit(t, a, b, n))
  <1>. DEFINE ix == transfer_deposit(t, a, b, n)
  <1>1. /\ ix.op = "transfer_deposit" /\ ix.source = a /\ ix.destination = b
        /\ IsInstruction(ix)
    BY DEF IsInstruction, transfer_deposit
  <1>. HIDE DEF ix
  <1>2. IsStep(P, ix)
    BY <1>1 DEF IsStep, Aims
  <1>. QED BY <1>2 DEF ix

LEMMA PoolInners ==
  ASSUME NEW t \in Token
  PROVE  /\ IsInner(margin_refresh_position(t))
         /\ IsInner(register_loan(t)) /\ IsInner(close_loan(t))
  BY DEF IsInner, margin_refresh_position, register_loan, close_loan

LEMMA CashInners ==
  ASSUME NEW t, NEW signer, NEW a \in Cash, NEW b \in Cash, NEW change, IsChange(change)
  PROVE  IsInner(deposit(t, signer, a, b, change)) /\ IsInner(withdraw(t, a, b, change))
  <1>1. IsInner(deposit(t, signer, a, b, change))
    BY DEF IsInner, deposit
  <1>2. IsInner(withdraw(t, a, b, change))
    BY DEF IsInner, withdraw
  <1>. QED BY <1>1, <1>2

LEMMA BorrowInners ==
  ASSUME NEW t \in Token, NEW a \in Cash, NEW n \in Nat
  PROVE  IsInner(margin_borrow(t, a, Shift(n))) /\ IsInner(margin_borrow_v2(t, a, n))
  <1>1. derive_loan_account(t) \in Owed /\ Shift(n).tokens = n
    BY DEF Owed, Shift
  <1>2. IsInner(margin_borrow(t, a, Shift(n)))
    BY <1>1 DEF IsInner, margin_borrow
  <1>3. IsInner(margin_borrow_v2(t, a, n))
    BY <1>1 DEF IsInner, margin_borrow_v2
  <1>. QED BY <1>2, <1>3

LEMMA RepayInners ==
  ASSUME NEW t \in Token, NEW signer, NEW a \in Cash, NEW change, IsChange(change)
  PROVE  /\ IsInner(margin_repay(t, a, change))
         /\ IsInner(repay(t, signer, a, derive_loan_account(t), change))
  <1>1. derive_loan_account(t) \in Owed
    BY DEF Owed
  <1>2. IsInner(margin_repay(t, a, change))
    BY <1>1 DEF IsInner, margin_repay
  <1>3. IsInner(repay(t, signer, a, derive_loan_account(t), change))
    BY <1>1 DEF IsInner, repay
  <1>. QED BY <1>2, <1>3

LEMMA SwapInner ==
  ASSUME NEW t \in Token, NEW u \in Token, NEW n \in Int
  PROVE  IsInner(swap(t, u, n))
  <1>1. associated_token_address(Of(t)) \in Cash /\ associated_token_address(Of(u)) \in Cash
    BY AccountsOf DEF associated_token_address
  <1>. QED BY <1>1 DEF IsInner, swap

\* The same, with where they pay notes to.
LEMMA PoolParts ==
  ASSUME NEW P, NEW t \in Token
  PROVE  /\ IsPart(P, margin_refresh_position(t))
         /\ IsPart(P, register_loan(t)) /\ IsPart(P, close_loan(t))
  BY PoolInners DEF IsPart, Pays, margin_refresh_position, register_loan, close_loan

LEMMA CashParts ==
  ASSUME NEW P, NEW t, NEW signer, NEW a \in Cash, NEW b \in Cash, NEW change, IsChange(change),
         b \in NoteAccount => b \in P
  PROVE  IsPart(P, deposit(t, signer, a, b, change)) /\ IsPart(P, withdraw(t, a, b, change))
  <1>1. deposit(t, signer, a, b, change).destination = b /\ withdraw(t, a, b, change).destination = b
    BY DEF deposit, withdraw
  <1>. QED BY <1>1, CashInners, Zenon DEF IsPart, Pays

LEMMA BorrowParts ==
  ASSUME NEW P, NEW t \in Token, NEW a \in Cash, NEW n \in Nat, a \in NoteAccount => a \in P
  PROVE  IsPart(P, margin_borrow(t, a, Shift(n))) /\ IsPart(P, margin_borrow_v2(t, a, n))
  <1>1. margin_borrow(t, a, Shift(n)).destination = a /\ margin_borrow_v2(t, a, n).destination = a
    BY DEF margin_borrow, margin_borrow_v2
  <1>. QED BY <1>1, BorrowInners, Zenon DEF IsPart, Pays

LEMMA RepayParts ==
  ASSUME NEW P, NEW t \in Token, NEW signer, NEW a \in Cash, NEW change, IsChange(change)
  PROVE  /\ IsPart(P, margin_repay(t, a, change))
         /\ IsPart(P, repay(t, signer, a, derive_loan_account(t), change))
  <1>1. /\ margin_repay(t, a, change).op = "margin_repay"
        /\ repay(t, signer, a, derive_loan_account(t), change).op = "repay"
    BY DEF margin_repay, repay
  <1>. HIDE DEF Pays
  <1>2. /\ Pays(P, margin_repay(t, a, change))
        /\ Pays(P, repay(t, signer, a, derive_loan_account(t), change))
    BY <1>1 DEF Pays
  <1>. QED BY <1>2, RepayInners, Zenon DEF IsPart

LEMMA SwapPart ==
  ASSUME NEW P, NEW t \in Token, NEW u \in Token, NEW n \in Int
  PROVE  IsPart(P, swap(t, u, n))
  <1>1. swap(t, u, n).destination = <<Of(u), "ata">>
    BY DEF swap, associated_token_address
  <1>. QED BY <1>1, SwapInner, NoteAccounts, Zenon DEF IsPart, Pays

LEMMA InvocationOf ==
  ASSUME NEW P, NEW a, IsPart(P, a)
  PROVE  IsAimed(P, <<a>>)
  <1>. DEFINE s == <<a>>
  <1>1. Len(s) = 1 /\ DOMAIN s = 1 .. 1 /\ s[1] = a
    OBVIOUS
  <1>2. IsInner(a) /\ Pays(P, a)
    BY DEF IsPart
  <1>. HIDE DEF s
  <1>3. IsAimed(P, s)
    BY <1>1, <1>2 DEF IsAimed, IsInvocation
  <1>. QED BY <1>3 DEF s

LEMMA InvocationOfSix ==
  ASSUME NEW P, NEW a, NEW b, NEW c, NEW d, NEW e, NEW f,
         IsPart(P, a), IsPart(P, b), IsPart(P, c), IsPart(P, d), IsPart(P, e), IsPart(P, f)
  PROVE  IsAimed(P, <<a, b, c, d, e, f>>)
  <1>. DEFINE s == <<a, b, c, d, e, f>>
  <1>1. Len(s) = 6 /\ DOMAIN s = 1 .. 6
    OBVIOUS
  <1>2. s[1] = a /\ s[2] = b /\ s[3] = c /\ s[4] = d /\ s[5] = e /\ s[6] = f
    OBVIOUS
  <1>. HIDE DEF s
  <1>3. \A i \in 1 .. 6 : i = 1 \/ i = 2 \/ i = 3 \/ i = 4 \/ i = 5 \/ i = 6
    OBVIOUS
  <1>4. \A i \in 1 .. 6 : IsPart(P, s[i])
    BY <1>2, <1>3
  <1>5. IsAimed(P, s)
    BY <1>1, <1>4 DEF IsAimed, IsInvocation, IsPart
  <1>. QED BY <1>5 DEF s

LEMMA InvokeSteps ==
  ASSUME NEW P, NEW who \in Who, NEW inners, IsAimed(P, inners), NEW fee_mint
  PROVE  /\ IsStep(P, adapter_invoke_ix(who, inners, fee_mint))
         /\ IsStep(P, accounting_invoke(inners))
         /\ IsStep(P, liquidator_invoke(inners, fee_mint))
  <1>1. /\ IsInstruction(adapter_invoke(inners)) /\ IsInstruction(accounting_invoke(inners))
        /\ IsInstruction(liquidator_invoke(inners, fee_mint))
    BY DEF IsAimed, IsInstruction, adapter_invoke, accounting_invoke, liquidator_invoke
  <1>2. \/ adapter_invoke_ix(who, inners, fee_mint) = adapter_invoke(inners)
        \/ adapter_invoke_ix(who, inners, fee_mint) = Panic
        \/ adapter_invoke_ix(who, inners, fee_mint) = liquidator_invoke(inners, fee_mint)
    <2>1. CASE who = "owner"
      BY <2>1, Zenon DEF adapter_invoke_ix
    <2>2. CASE who = "liquidator" /\ fee_mint = NoMint
      BY <2>2 DEF adapter_invoke_ix
    <2>3. CASE who = "liquidator" /\ fee_mint # NoMint
      BY <2>3 DEF adapter_invoke_ix
    <2>. QED BY <2>1, <2>2, <2>3 DEF Who
  <1>3. ASSUME NEW ix, IsInstruction(ix), ix.inners = inners,
               ix.op \in {"adapter_invoke", "accounting_invoke", "liquidator_invoke"}
        PROVE  IsStep(P, ix)
    BY <1>3 DEF IsStep, Aims, IsAimed
  <1>4. /\ IsStep(P, adapter_invoke(inners)) /\ IsStep(P, accounting_invoke(inners))
        /\ IsStep(P, liquidator_invoke(inners, fee_mint))
    BY <1>1, <1>3 DEF adapter_invoke, accounting_invoke, liquidator_invoke
  <1>5. IsStep(P, Panic)
    BY DEF IsStep
  <1>. QED BY <1>2, <1>4, <1>5, Zenon

LEMMA SmartSteps ==
  ASSUME NEW P, NEW who \in Who, NEW inner, IsPart(P, inner), NEW fee_mint
  PROVE  IsStep(P, smart_invoke(who, inner, fee_mint)) /\ IsStep(P, invoke_ix(who, inner, fee_mint))
  <1>1. IsAimed(P, <<inner>>)
    BY InvocationOf
  <1>2. IsStep(P, adapter_invoke_ix(who, <<inner>>, fee_mint)) /\ IsStep(P, accounting_invoke(<<inner>>))
    BY <1>1, InvokeSteps
  <1>. QED BY <1>2, Zenon DEF smart_invoke, invoke_ix

LEMMA FiniteMint == IsFiniteSet(Mint)
  <1>1. IsFiniteSet({"token", "note", "loan"})
    <2>1. IsFiniteSet({"token"} \cup {"note"})
      BY FS_Singleton, FS_Union
    <2>2. IsFiniteSet(({"token"} \cup {"note"}) \cup {"loan"})
      BY <2>1, FS_Singleton, FS_Union
    <2>3. ({"token"} \cup {"note"}) \cup {"loan"} = {"token", "note", "loan"}
      OBVIOUS
    <2>. QED BY <2>2, <2>3
  <1>. QED BY <1>1, FS_Product, TxBuilderAssumption DEF Mint

\* A sequence of steps made from the elements of a finite set.
LEMMA FiniteParts ==
  ASSUME NEW S
  PROVE  /\ S \subseteq Token => IsFiniteSet(S)
         /\ S \subseteq Mint => IsFiniteSet(S)
  BY FiniteMint, FS_Subset, TxBuilderAssumption

LEMMA CreatePositionSteps ==
  ASSUME NEW P, NEW c, NEW who, NEW m \in Mint
  PROVE  IsTransaction(P, CreatePosition(c, who, m))
  <1>1. IsTransaction(P, <<register_position(who, m)>>)
    BY MintSteps, TransactionOf
  <1>. QED BY <1>1, TransactionEmpty DEF CreatePosition

LEMMA CreateLoanSteps ==
  ASSUME NEW P, NEW c, NEW who \in Who, NEW t \in Token
  PROVE  IsTransaction(P, get_or_create_pool_loan_position(c, who, t))
  <1>1. IsAimed(P, <<register_loan(t)>>)
    BY PoolParts, InvocationOf
  <1>2. IsStep(P, adapter_invoke_ix(who, <<register_loan(t)>>, NoMint))
    BY <1>1, InvokeSteps
  <1>3. IsTransaction(P, <<adapter_invoke_ix(who, <<register_loan(t)>>, NoMint)>>)
    BY <1>2, TransactionOf
  <1>. QED BY <1>3, TransactionEmpty DEF get_or_create_pool_loan_position

LEMMA CreateDepositSteps ==
  ASSUME NEW P, NEW c, NEW who \in Who, NEW t \in Token
  PROVE  IsTransaction(P, get_or_create_pool_deposit(c, who, t))
  <1>. DEFINE f == IF who = "liquidator" THEN t ELSE NoMint
              a == create_deposit_account_and_position(who, Note(t))
              b == <<invoke_ix(who, margin_refresh_position(t), f)>>
  <1>1. IsTransaction(P, a)
    <2>1. IsStep(P, create_ata(Note(t), "ata")) /\ IsStep(P, create_deposit_position(who, Note(t)))
      BY AccountsOf, MintSteps
    <2>. QED BY <2>1, TransactionOfTwo DEF create_deposit_account_and_position
  <1>2. IsTransaction(P, b)
    <2>. HIDE DEF f
    <2>1. IsStep(P, invoke_ix(who, margin_refresh_position(t), f))
      BY PoolParts, SmartSteps
    <2>. QED BY <2>1, TransactionOf
  <1>3. create_pool_deposit(who, t) = a \o b
    BY Zenon DEF create_pool_deposit
  <1>. HIDE DEF a, b
  <1>4. IsTransaction(P, create_pool_deposit(who, t))
    BY <1>1, <1>2, <1>3, TransactionConcat
  <1>. QED BY <1>4, TransactionEmpty DEF get_or_create_pool_deposit

LEMMA FeeAccountSteps ==
  ASSUME NEW P, NEW who, NEW t \in Token
  PROVE  IsTransaction(P, with_liquidation_fee_accounts(who, t))
  <1>1. IsStep(P, create_ata(Of(t), "ata")) /\ IsStep(P, create_ata(Of(t), "liquidator"))
    BY TokenSteps
  <1>2. IsTransaction(P, <<create_ata(Of(t), "ata"), create_ata(Of(t), "liquidator")>>)
    BY <1>1, TransactionOfTwo
  <1>. QED BY <1>2, TransactionEmpty DEF with_liquidation_fee_accounts

LEMMA RefreshPoolStep ==
  ASSUME NEW P, NEW t \in Token
  PROVE  IsStep(P, refresh_pool_position(t))
  <1>1. IsAimed(P, <<margin_refresh_position(t)>>)
    BY PoolParts, InvocationOf
  <1>2. "owner" \in Who
    BY DEF Who
  <1>. QED BY <1>1, <1>2, InvokeSteps DEF refresh_pool_position

LEMMA RefreshSteps ==
  ASSUME NEW P, NEW c
  PROVE  IsTransaction(P, refresh_positions(c))
  <1>1. IsTransaction(P, refresh_all_pool_positions(c))
    <2>. DEFINE S == {t \in Token : Registered(c, Note(t)) \/ Registered(c, Loan(t))}
                f == [i \in 1 .. Cardinality(S) |-> refresh_pool_position(SetToSeq(S)[i])]
    <2>1. Cardinality(S) \in Nat /\ SetToSeq(S) \in [1 .. Cardinality(S) -> S] /\ S \subseteq Token
      <3>1. IsFiniteSet(S) /\ S \subseteq Token
        BY FiniteParts
      <3>. HIDE DEF S
      <3>. QED BY <3>1, SetToSeqOf
    <2>2. refresh_all_pool_positions(c) = f
      BY Zenon DEF refresh_all_pool_positions
    <2>. HIDE DEF S
    <2>3. /\ DOMAIN f = 1 .. Cardinality(S) /\ f = [i \in 1 .. Cardinality(S) |-> f[i]]
          /\ \A i \in 1 .. Cardinality(S) : f[i] = refresh_pool_position(SetToSeq(S)[i])
      OBVIOUS
    <2>. HIDE DEF f
    <2>4. \A i \in 1 .. Cardinality(S) : IsStep(P, f[i])
      <3>1. \A i \in 1 .. Cardinality(S) : SetToSeq(S)[i] \in Token
        BY <2>1
      <3>. QED BY <3>1, <2>3, RefreshPoolStep
    <2>. QED BY <2>1, <2>2, <2>3, <2>4, TransactionFrom
  <1>2. IsTransaction(P, refresh_deposit_positions(c))
    <2>. DEFINE S == {t \in Config : Registered(c, Of(t))}
                f == [i \in 1 .. Cardinality(S) |-> refresh_deposit_position(SetToSeq(S)[i])]
    <2>1. Cardinality(S) \in Nat /\ SetToSeq(S) \in [1 .. Cardinality(S) -> S] /\ S \subseteq Token
      <3>1. S \subseteq Token
        BY TxBuilderAssumption
      <3>2. IsFiniteSet(S)
        BY <3>1, FiniteParts
      <3>. HIDE DEF S
      <3>. QED BY <3>1, <3>2, SetToSeqOf
    <2>2. refresh_deposit_positions(c) = f
      BY Zenon DEF refresh_deposit_positions
    <2>. HIDE DEF S
    <2>3. /\ DOMAIN f = 1 .. Cardinality(S) /\ f = [i \in 1 .. Cardinality(S) |-> f[i]]
          /\ \A i \in 1 .. Cardinality(S) : f[i] = refresh_deposit_position(SetToSeq(S)[i])
      OBVIOUS
    <2>. HIDE DEF f
    <2>4. \A i \in 1 .. Cardinality(S) : IsStep(P, f[i])
      <3>1. \A i \in 1 .. Cardinality(S) : SetToSeq(S)[i] \in Token
        BY <2>1
      <3>. QED BY <3>1, <2>3, TokenSteps
    <2>. QED BY <2>1, <2>2, <2>3, <2>4, TransactionFrom
  <1>. QED BY <1>1, <1>2, TransactionConcat DEF refresh_positions

(* The operations of the builder return transactions.                      *)

LEMMA PoolDepositSteps ==
  ASSUME NEW P, NEW c, InOrder(c), NEW o, o.who \in Who, o.token \in Token, o.n \in Nat,
         o.authority \in {"MarginAccount", "AccountAuthority"},
         PoolTarget(c, o.token) \in P
  PROVE  IsTransaction(P, pool_deposit(c, o))
  <1>. DEFINE signer == resolve(o.who, o.authority)
              d == deposit(o.token, signer, SourceOf(o.token, signer), PoolTarget(c, o.token), Shift(o.n))
              f == IF o.who = "liquidator" THEN o.token ELSE NoMint
              a == get_or_create_pool_deposit(c, o.who, o.token)
              b == <<invoke_ix(o.who, d, f)>>
  <1>1. pool_deposit(c, o) = a \o b
    BY Zenon DEF pool_deposit, invoke_pool_deposit
  <1>2. IsPart(P, d)
    <2>1. /\ SourceOf(o.token, signer) \in Cash /\ PoolTarget(c, o.token) \in Cash
          /\ IsChange(Shift(o.n))
      BY Addresses, Sources, ShiftIsChange
    <2>. QED BY <2>1, CashParts
  <1>3. IsTransaction(P, a)
    BY CreateDepositSteps
  <1>. HIDE DEF a, d, f
  <1>4. IsStep(P, invoke_ix(o.who, d, f))
    BY <1>2, SmartSteps
  <1>5. IsTransaction(P, b)
    BY <1>4, TransactionOf
  <1>. HIDE DEF b
  <1>. QED BY <1>1, <1>3, <1>5, TransactionConcat

LEMMA PoolDepositDeprecatedSteps ==
  ASSUME NEW P, NEW c, InOrder(c), NEW o, o.who \in Who, o.token \in Token, o.n \in Nat,
         o.authority \in {"MarginAccount", "AccountAuthority"},
         PositionAddress(c, Note(o.token)) \in P
  PROVE  IsTransaction(P, pool_deposit_deprecated(c, o))
  <1>. DEFINE signer == resolve(o.who, o.authority)
              note == Note(o.token)
              d == deposit(o.token, signer, SourceOf(o.token, signer), PositionAddress(c, note), Shift(o.n))
              s1 == CreatePosition(c, o.who, note)
              s2 == IF ~Registered(c, note) /\ needs_signature(<<d>>)
                    THEN <<refresh_pool_position(o.token)>> ELSE <<>>
              s3 == <<smart_invoke(o.who, d, NoMint)>>
  <1>1. pool_deposit_deprecated(c, o) = s1 \o s2 \o s3
    BY Zenon DEF pool_deposit_deprecated
  <1>2. IsTransaction(P, s1)
    BY AccountsOf, CreatePositionSteps
  <1>3. IsTransaction(P, s2)
    <2>1. IsTransaction(P, <<refresh_pool_position(o.token)>>)
      BY RefreshPoolStep, TransactionOf
    <2>. QED BY <2>1, TransactionEmpty
  <1>4. IsTransaction(P, s3)
    <2>1. IsPart(P, d)
      <3>1. /\ SourceOf(o.token, signer) \in Cash /\ PositionAddress(c, note) \in Cash
            /\ IsChange(Shift(o.n))
        BY Addresses, Sources, ShiftIsChange
      <3>. QED BY <3>1, CashParts
    <2>. HIDE DEF d
    <2>2. IsStep(P, smart_invoke(o.who, d, NoMint))
      BY <2>1, SmartSteps
    <2>. QED BY <2>2, TransactionOf
  <1>. HIDE DEF s1, s2, s3
  <1>5. IsTransaction(P, s1 \o s2)
    BY <1>2, <1>3, TransactionConcat
  <1>. QED BY <1>1, <1>4, <1>5, TransactionConcat

\* One instruction of the pool through the margin program.
LEMMA InvokeOneSteps ==
  ASSUME NEW P, NEW who \in Who, NEW inner, IsPart(P, inner), NEW fee_mint
  PROVE  /\ IsStep(P, adapter_invoke_ix(who, <<inner>>, fee_mint))
         /\ IsStep(P, liquidator_invoke(<<inner>>, fee_mint))
         /\ IsTransaction(P, <<adapter_invoke_ix(who, <<inner>>, fee_mint)>>)
         /\ IsTransaction(P, <<liquidator_invoke(<<inner>>, fee_mint)>>)
  <1>1. IsAimed(P, <<inner>>)
    BY InvocationOf
  <1>2. /\ IsStep(P, adapter_invoke_ix(who, <<inner>>, fee_mint))
        /\ IsStep(P, liquidator_invoke(<<inner>>, fee_mint))
    BY <1>1, InvokeSteps
  <1>. QED BY <1>2, TransactionOf

\* The accounts and positions a pool's loan needs before it is used.
LEMMA LoanPreparationSteps ==
  ASSUME NEW P, NEW c, NEW who \in Who, NEW t \in Token
  PROVE  IsTransaction(P, with_liquidation_fee_accounts(who, t) \o
                       CreatePosition(c, who, Note(t)) \o
                       get_or_create_pool_loan_position(c, who, t))
  <1>. DEFINE s1 == with_liquidation_fee_accounts(who, t)
              s2 == CreatePosition(c, who, Note(t))
              s3 == get_or_create_pool_loan_position(c, who, t)
  <1>1. IsTransaction(P, s1) /\ IsTransaction(P, s2) /\ IsTransaction(P, s3)
    BY AccountsOf, FeeAccountSteps, CreatePositionSteps, CreateLoanSteps
  <1>. HIDE DEF s1, s2, s3
  <1>2. IsTransaction(P, s1 \o s2)
    BY <1>1, TransactionConcat
  <1>3. IsTransaction(P, s1 \o s2 \o s3)
    BY <1>1, <1>2, TransactionConcat
  <1>. QED BY <1>3 DEF s1, s2, s3

LEMMA BorrowSteps ==
  ASSUME NEW P, NEW c, InOrder(c), NEW o, o.who \in Who, o.token \in Token, o.n \in Nat,
         PositionAddress(c, Note(o.token)) \in P
  PROVE  IsTransaction(P, borrow(c, o))
  <1>. DEFINE s1 == with_liquidation_fee_accounts(o.who, o.token) \o
                    CreatePosition(c, o.who, Note(o.token)) \o
                    get_or_create_pool_loan_position(c, o.who, o.token)
              d == margin_borrow(o.token, PositionAddress(c, Note(o.token)), Shift(o.n))
              s2 == <<refresh_pool_position(o.token), adapter_invoke_ix(o.who, <<d>>, o.token)>>
  <1>1. borrow(c, o) = s1 \o s2
    BY Zenon DEF borrow
  <1>2. IsTransaction(P, s1)
    BY LoanPreparationSteps
  <1>3. IsTransaction(P, s2)
    <2>1. IsPart(P, d)
      BY Addresses, BorrowParts
    <2>. HIDE DEF d
    <2>2. IsStep(P, adapter_invoke_ix(o.who, <<d>>, o.token)) /\ IsStep(P, refresh_pool_position(o.token))
      BY <2>1, InvokeOneSteps, RefreshPoolStep
    <2>. QED BY <2>2, TransactionOfTwo
  <1>. HIDE DEF s1, s2
  <1>. QED BY <1>1, <1>2, <1>3, TransactionConcat

LEMMA MarginRepaySteps ==
  ASSUME NEW P, NEW c, InOrder(c), NEW o, o.who \in Who, o.token \in Token, o.n \in Nat
  PROVE  IsTransaction(P, margin_repay_tx(c, o))
  <1>. DEFINE s1 == with_liquidation_fee_accounts(o.who, o.token) \o
                    CreatePosition(c, o.who, Note(o.token)) \o
                    get_or_create_pool_loan_position(c, o.who, o.token)
              d == margin_repay(o.token, PositionAddress(c, Note(o.token)), Shift(o.n))
              s2 == <<adapter_invoke_ix(o.who, <<d>>, o.token)>>
  <1>1. margin_repay_tx(c, o) = s1 \o s2
    BY Zenon DEF margin_repay_tx
  <1>2. IsTransaction(P, s1)
    BY LoanPreparationSteps
  <1>3. IsTransaction(P, s2)
    <2>1. IsPart(P, d)
      <3>1. PositionAddress(c, Note(o.token)) \in Cash /\ IsChange(Shift(o.n))
        BY Addresses, ShiftIsChange
      <3>. QED BY <3>1, RepayParts
    <2>. HIDE DEF d
    <2>. QED BY <2>1, InvokeOneSteps
  <1>. HIDE DEF s1, s2
  <1>. QED BY <1>1, <1>2, <1>3, TransactionConcat

LEMMA PoolRepaySteps ==
  ASSUME NEW P, NEW c, InOrder(c), NEW o, o.who \in Who, o.token \in Token, o.n \in Nat,
         o.authority \in {"MarginAccount", "AccountAuthority"}
  PROVE  IsTransaction(P, pool_repay(c, o))
  <1>. DEFINE signer == resolve(o.who, o.authority)
              d == repay(o.token, signer, SourceOf(o.token, signer), derive_loan_account(o.token), Shift(o.n))
  <1>1. pool_repay(c, o) = <<smart_invoke(o.who, d, NoMint)>>
    BY Zenon DEF pool_repay
  <1>2. IsPart(P, d)
    BY Sources, Changes, RepayParts
  <1>. HIDE DEF d
  <1>3. IsStep(P, smart_invoke(o.who, d, NoMint))
    BY <1>2, SmartSteps
  <1>. QED BY <1>1, <1>3, TransactionOf

LEMMA WithdrawSteps ==
  ASSUME NEW P, NEW c, InOrder(c), NEW o, o.who \in Who, o.token \in Token, o.n \in Nat
  PROVE  IsTransaction(P, withdraw_tx(c, o))
  <1>. DEFINE s1 == with_liquidation_fee_accounts(o.who, o.token)
              s2 == <<create_ata(Of(o.token), "ata")>>
              s3 == CreatePosition(c, o.who, Note(o.token))
              d == withdraw(o.token, PositionAddress(c, Note(o.token)), <<Of(o.token), "wallet">>, Shift(o.n))
              s4 == <<adapter_invoke_ix(o.who, <<d>>, o.token)>>
  <1>1. withdraw_tx(c, o) = s1 \o s2 \o s3 \o s4
    BY Zenon DEF withdraw_tx
  <1>2. IsTransaction(P, s1) /\ IsTransaction(P, s2) /\ IsTransaction(P, s3)
    BY AccountsOf, FeeAccountSteps, CreatePositionSteps, TokenSteps, TransactionOf
  <1>3. IsTransaction(P, s4)
    <2>1. IsPart(P, d)
      <3>1. /\ PositionAddress(c, Note(o.token)) \in Cash /\ <<Of(o.token), "wallet">> \in Cash
            /\ IsChange(Shift(o.n)) /\ <<Of(o.token), "wallet">> \notin NoteAccount
        BY Addresses, ShiftIsChange, NoteAccounts
      <3>. QED BY <3>1, CashParts
    <2>. HIDE DEF d
    <2>. QED BY <2>1, InvokeOneSteps
  <1>. HIDE DEF s1, s2, s3, s4
  <1>4. IsTransaction(P, s1 \o s2)
    BY <1>2, TransactionConcat
  <1>5. IsTransaction(P, s1 \o s2 \o s3)
    BY <1>2, <1>4, TransactionConcat
  <1>. QED BY <1>1, <1>3, <1>5, TransactionConcat

LEMMA MarginSwapSteps ==
  ASSUME NEW P, NEW c, InOrder(c), NEW o, o.who \in Who, o.token \in Token, o.n \in Nat,
         o.to \in Token, o.take \in Nat,
         PositionAddress(c, Note(o.to)) \in P
  PROVE  IsTransaction(P, margin_swap(c, o))
  <1>. DEFINE from == associated_token_address(Of(o.token))
              to == associated_token_address(Of(o.to))
              s1 == <<create_ata(Of(o.token), "ata"), create_ata(Of(o.to), "ata")>>
              s2 == get_or_create_pool_loan_position(c, o.who, o.token)
              s3 == CreatePosition(c, o.who, Note(o.to))
              d1 == margin_refresh_position(o.token)
              d2 == margin_refresh_position(o.to)
              d3 == margin_borrow_v2(o.token, from, o.n)
              d4 == swap(o.token, o.to, o.take)
              d5 == deposit(o.to, "margin", to, PositionAddress(c, Note(o.to)),
                            SetSource(TokenBalance(c, to)))
              d6 == repay(o.token, "margin", from, derive_loan_account(o.token),
                          SetSource(TokenBalance(c, from)))
              s4 == <<adapter_invoke_ix(o.who, <<d1, d2, d3, d4, d5, d6>>, NoMint)>>
  <1>1. margin_swap(c, o) = s1 \o s2 \o s3 \o s4
    BY Zenon DEF margin_swap
  <1>2. IsTransaction(P, s1)
    <2>1. IsStep(P, create_ata(Of(o.token), "ata")) /\ IsStep(P, create_ata(Of(o.to), "ata"))
      BY TokenSteps
    <2>. QED BY <2>1, TransactionOfTwo
  <1>3. IsTransaction(P, s2) /\ IsTransaction(P, s3)
    BY AccountsOf, CreateLoanSteps, CreatePositionSteps
  <1>4. IsPart(P, d1) /\ IsPart(P, d2) /\ IsPart(P, d3) /\ IsPart(P, d4) /\ IsPart(P, d5) /\ IsPart(P, d6)
    <2>1. IsPart(P, d1) /\ IsPart(P, d2) /\ IsPart(P, d4)
      BY PoolParts, SwapPart
    <2>2. /\ from \in Cash /\ to \in Cash /\ PositionAddress(c, Note(o.to)) \in Cash
          /\ from \notin NoteAccount
      BY Addresses, NoteAccounts DEF associated_token_address
    <2>3. /\ IsChange(SetSource(TokenBalance(c, to)))
          /\ IsChange(SetSource(TokenBalance(c, from)))
      <3>. HIDE DEF from, to
      <3>. QED BY <2>2, OwedAndCash, Balances, Changes
    <2>4. IsPart(P, d3) /\ IsPart(P, d6)
      <3>. HIDE DEF from, to
      <3>. QED BY <2>2, <2>3, BorrowParts, RepayParts
    <2>5. IsPart(P, d5)
      <3>. HIDE DEF from, to
      <3>. QED BY <2>2, <2>3, CashParts
    <2>. QED BY <2>1, <2>4, <2>5
  <1>5. IsTransaction(P, s4)
    <2>. HIDE DEF d1, d2, d3, d4, d5, d6
    <2>1. IsAimed(P, <<d1, d2, d3, d4, d5, d6>>)
      BY <1>4, InvocationOfSix
    <2>2. IsStep(P, adapter_invoke_ix(o.who, <<d1, d2, d3, d4, d5, d6>>, NoMint))
      BY <2>1, InvokeSteps
    <2>. QED BY <2>2, TransactionOf
  <1>. HIDE DEF s1, s2, s3, s4
  <1>6. IsTransaction(P, s1 \o s2)
    BY <1>2, <1>3, TransactionConcat
  <1>7. IsTransaction(P, s1 \o s2 \o s3)
    BY <1>3, <1>6, TransactionConcat
  <1>. QED BY <1>1, <1>5, <1>7, TransactionConcat

LEMMA SwapAndRepaySteps ==
  ASSUME NEW P, NEW c, InOrder(c), NEW o, o.who \in Who, o.token \in Token, o.n \in Nat,
         o.to \in Token, o.take \in Nat, o.fee \in Nat, o.repay \in Nat \cup {NoAmount},
         PositionAddress(c, Note(o.to)) \in P
  PROVE  IsTransaction(P, swap_and_repay(c, o))
  <1>. DEFINE from == associated_token_address(Of(o.token))
              to == associated_token_address(Of(o.to))
              fee == IF o.who = "liquidator" THEN o.fee ELSE 0
              change == IF o.repay = NoAmount THEN SetSource(TokenBalance(c, to) + fee)
                                              ELSE Shift(o.repay - fee)
              s1 == refresh_positions(c)
              s2 == IF o.who = "liquidator" THEN <<create_ata(Of(o.to), "liquidator")>> ELSE <<>>
              s3 == <<create_deposit_position(o.who, Of(o.token)), create_deposit_position(o.who, Of(o.to))>>
              s4 == IF o.token \in Config THEN <<refresh_deposit_position(o.token)>> ELSE <<>>
              s5 == IF o.to \in Config THEN <<refresh_deposit_position(o.to)>> ELSE <<>>
              s6 == CreatePosition(c, o.who, Note(o.token))
              s7 == get_or_create_pool_loan_position(c, o.who, o.to)
              s8 == CreatePosition(c, o.who, Note(o.to))
              d1 == margin_refresh_position(o.token)
              d2 == margin_refresh_position(o.to)
              d3 == withdraw(o.token, PositionAddress(c, Note(o.token)), from, Shift(o.n))
              d4 == swap(o.token, o.to, o.take)
              d5 == repay(o.to, "margin", to, derive_loan_account(o.to), change)
              d6 == deposit(o.to, "margin", to, PositionAddress(c, Note(o.to)),
                            SetSource(TokenBalance(c, to) + fee))
              s9 == <<adapter_invoke_ix(o.who, <<d1, d2, d3, d4, d5, d6>>, o.to)>>
  <1>1. swap_and_repay(c, o) = s1 \o s2 \o s3 \o s4 \o s5 \o s6 \o s7 \o s8 \o s9
    BY Zenon DEF swap_and_repay
  <1>2. IsTransaction(P, s1) /\ IsTransaction(P, s6) /\ IsTransaction(P, s7) /\ IsTransaction(P, s8)
    BY AccountsOf, RefreshSteps, CreateLoanSteps, CreatePositionSteps
  <1>3. IsTransaction(P, s2)
    <2>1. IsTransaction(P, <<create_ata(Of(o.to), "liquidator")>>)
      BY TokenSteps, TransactionOf
    <2>. QED BY <2>1, TransactionEmpty
  <1>4. IsTransaction(P, s3)
    <2>1. /\ IsStep(P, create_deposit_position(o.who, Of(o.token)))
          /\ IsStep(P, create_deposit_position(o.who, Of(o.to)))
      BY TokenSteps
    <2>. QED BY <2>1, TransactionOfTwo
  <1>5. IsTransaction(P, s4) /\ IsTransaction(P, s5)
    <2>1. /\ IsTransaction(P, <<refresh_deposit_position(o.token)>>)
          /\ IsTransaction(P, <<refresh_deposit_position(o.to)>>)
      BY TokenSteps, TransactionOf
    <2>. QED BY <2>1, TransactionEmpty
  <1>6. IsPart(P, d1) /\ IsPart(P, d2) /\ IsPart(P, d3) /\ IsPart(P, d4) /\ IsPart(P, d5) /\ IsPart(P, d6)
    <2>1. IsPart(P, d1) /\ IsPart(P, d2) /\ IsPart(P, d4)
      BY PoolParts, SwapPart
    <2>2. /\ from \in Cash /\ to \in Cash /\ PositionAddress(c, Note(o.to)) \in Cash
          /\ PositionAddress(c, Note(o.token)) \in Cash /\ from \notin NoteAccount
      BY Addresses, NoteAccounts DEF associated_token_address
    <2>3. /\ fee \in Nat /\ TokenBalance(c, to) \in Nat
      <3>. HIDE DEF from, to
      <3>. QED BY <2>2, OwedAndCash, Balances
    <2>4. /\ IsChange(change) /\ IsChange(SetSource(TokenBalance(c, to) + fee)) /\ IsChange(Shift(o.n))
      <3>1. TokenBalance(c, to) + fee \in Int /\ o.repay - fee \in Int /\ o.n \in Int
        <4>. HIDE DEF fee, to
        <4>. QED BY <2>3 DEF NoAmount
      <3>. HIDE DEF fee, to
      <3>. QED BY <3>1, Changes
    <2>. HIDE DEF from, to, change, fee
    <2>5. IsPart(P, d5)
      BY <2>2, <2>4, RepayParts
    <2>6. IsPart(P, d3) /\ IsPart(P, d6)
      BY <2>2, <2>4, CashParts
    <2>. QED BY <2>1, <2>5, <2>6
  <1>7. IsTransaction(P, s9)
    <2>. HIDE DEF d1, d2, d3, d4, d5, d6
    <2>1. IsAimed(P, <<d1, d2, d3, d4, d5, d6>>)
      BY <1>6, InvocationOfSix
    <2>2. IsStep(P, adapter_invoke_ix(o.who, <<d1, d2, d3, d4, d5, d6>>, o.to))
      BY <2>1, InvokeSteps
    <2>. QED BY <2>2, TransactionOf
  <1>. HIDE DEF s1, s2, s3, s4, s5, s6, s7, s8, s9
  <1>8. IsTransaction(P, s1 \o s2)
    BY <1>2, <1>3, TransactionConcat
  <1>9. IsTransaction(P, s1 \o s2 \o s3)
    BY <1>8, <1>4, TransactionConcat
  <1>10. IsTransaction(P, s1 \o s2 \o s3 \o s4)
    BY <1>9, <1>5, TransactionConcat
  <1>11. IsTransaction(P, s1 \o s2 \o s3 \o s4 \o s5)
    BY <1>10, <1>5, TransactionConcat
  <1>12. IsTransaction(P, s1 \o s2 \o s3 \o s4 \o s5 \o s6)
    BY <1>11, <1>2, TransactionConcat
  <1>13. IsTransaction(P, s1 \o s2 \o s3 \o s4 \o s5 \o s6 \o s7)
    BY <1>12, <1>2, TransactionConcat
  <1>14. IsTransaction(P, s1 \o s2 \o s3 \o s4 \o s5 \o s6 \o s7 \o s8)
    BY <1>13, <1>2, TransactionConcat
  <1>. QED BY <1>1, <1>7, <1>14, TransactionConcat

LEMMA ClosePoolPositionsSteps ==
  ASSUME NEW P, NEW c, InOrder(c), NEW o, o.who \in Who, o.token \in Token,
         P = {}
  PROVE  IsTransaction(P, close_pool_positions(c, o))
  <1>1. IsPart(P, close_loan(o.token))
    BY PoolParts
  <1>2. IsStep(P, adapter_invoke_ix(o.who, <<close_loan(o.token)>>, NoMint))
    BY <1>1, InvokeOneSteps
  <1>3. IsStep(P, close_position(o.who, Note(o.token), derive_position_token_account(Note(o.token))))
    BY AccountsOf, MintSteps
  <1>. QED BY <1>2, <1>3, TransactionOfTwo DEF close_pool_positions

LEMMA ClosePoolPositionSteps ==
  ASSUME NEW P, NEW c, InOrder(c), NEW o, o.who \in Who, o.token \in Token, o.kind \in {"Collateral", "Claim"},
         P = {}
  PROVE  IsTransaction(P, close_pool_position(c, o))
  <1>. DEFINE s1 == <<close_position(o.who, Note(o.token), derive_position_token_account(Note(o.token)))>>
              s2 == <<adapter_invoke_ix(o.who, <<close_loan(o.token)>>, NoMint)>>
  <1>1. IsPart(P, close_loan(o.token))
    BY PoolParts
  <1>2. IsTransaction(P, s2)
    BY <1>1, InvokeOneSteps
  <1>3. IsTransaction(P, s1)
    BY AccountsOf, MintSteps, TransactionOf
  <1>4. close_pool_position(c, o) = CASE o.kind = "Collateral" -> s1 [] o.kind = "Claim" -> s2
    BY Zenon DEF close_pool_position
  <1>. HIDE DEF s1, s2
  <1>. QED BY <1>2, <1>3, <1>4

LEMMA CloseEmptySteps ==
  ASSUME NEW P, NEW c, InOrder(c), NEW o, o.who \in Who, o.token \in Token,
         P = {}
  PROVE  IsTransaction(P, close_empty_positions(c, o))
  <1>. DEFINE S == {m \in Mint : Registered(c, m) /\ c.cached[m] = 0}
              empty == SetToSeq(S)
              f == [i \in DOMAIN empty |-> CloseEmpty(c, o.who, empty[i])]
              n == Cardinality(S)
  <1>1. IsFiniteSet(S)
    BY FiniteParts
  <1>2. close_empty_positions(c, o) = f
    BY Zenon DEF close_empty_positions
  <1>0. \A m \in S : m \in Mint
    OBVIOUS
  <1>. HIDE DEF S
  <1>3. n \in Nat /\ DOMAIN empty = 1 .. n /\ \A i \in 1 .. n : empty[i] \in S
    BY <1>1, SetToSeqOf
  <1>. HIDE DEF empty, n
  <1>4. /\ DOMAIN f = 1 .. n /\ f = [i \in 1 .. n |-> f[i]]
        /\ \A i \in 1 .. n : f[i] = CloseEmpty(c, o.who, empty[i])
    BY <1>3
  <1>. HIDE DEF f
  <1>5. ASSUME NEW m \in Mint
        PROVE  IsStep(P, CloseEmpty(c, o.who, m))
    <2>1. IsPart(P, close_loan(m[2]))
      <3>1. m[2] \in Token
        BY DEF Mint
      <3>. QED BY <3>1, PoolParts
    <2>2. IsStep(P, adapter_invoke_ix(o.who, <<close_loan(m[2])>>, NoMint))
      BY <2>1, InvokeOneSteps
    <2>3. IsStep(P, close_position(o.who, m, c.position[m]))
      BY MintSteps
    <2>. QED BY <2>2, <2>3 DEF CloseEmpty
  <1>6. \A i \in 1 .. n : IsStep(P, f[i])
    <2>1. \A i \in 1 .. n : empty[i] \in Mint
      BY <1>0, <1>3
    <2>. QED BY <2>1, <1>4, <1>5
  <1>. QED BY <1>2, <1>3, <1>4, <1>6, TransactionFrom

LEMMA LiquidateBeginSteps ==
  ASSUME NEW P, NEW c, NEW o
  PROVE  IsTransaction(P, liquidate_begin_builder(c, o))
  <1>. DEFINE s1 == IF o.refresh THEN refresh_positions(c) ELSE <<>>
              s2 == <<liquidate_begin(o.who)>>
  <1>1. liquidate_begin_builder(c, o) = s1 \o s2
    BY Zenon DEF liquidate_begin_builder
  <1>2. IsTransaction(P, s1)
    BY RefreshSteps, TransactionEmpty
  <1>3. IsTransaction(P, s2)
    BY AccountSteps, TransactionOf
  <1>. HIDE DEF s1, s2
  <1>. QED BY <1>1, <1>2, <1>3, TransactionConcat

LEMMA FeeTransferSteps ==
  ASSUME NEW P, NEW c, InOrder(c), NEW o, o.who \in Who, NEW t \in Token
  PROVE  IsTransaction(P, FeeTransfer(c, o, t))
  <1>. DEFINE ata == associated_token_address(Of(t))
              s1 == CreatePosition(c, o.who, Note(t))
              s2 == <<create_ata(Of(t), "ata")>>
              d == withdraw(t, PositionAddress(c, Note(t)), ata, SetDestination(c.accrued[t]))
              s3 == IF Registered(c, Of(t)) /\ c.cached[Of(t)] < c.accrued[t]
                    THEN <<liquidator_invoke(<<d>>, t)>> ELSE <<>>
  <1>1. FeeTransfer(c, o, t) = s1 \o s2 \o s3
    BY Zenon DEF FeeTransfer
  <1>2. IsTransaction(P, s1) /\ IsTransaction(P, s2)
    BY AccountsOf, CreatePositionSteps, TokenSteps, TransactionOf
  <1>3. IsTransaction(P, s3)
    <2>1. IsPart(P, d)
      <3>1. c.accrued[t] \in Int
        BY DEF InOrder, Intact, Sound
      <3>2. ata \notin NoteAccount
        BY NoteAccounts DEF associated_token_address
      <3>. QED BY <3>1, <3>2, Addresses, Changes, CashParts
    <2>. HIDE DEF d
    <2>2. IsTransaction(P, <<liquidator_invoke(<<d>>, t)>>)
      BY <2>1, InvokeOneSteps
    <2>. QED BY <2>2, TransactionEmpty
  <1>. HIDE DEF s1, s2, s3
  <1>4. IsTransaction(P, s1 \o s2)
    BY <1>2, TransactionConcat
  <1>. QED BY <1>1, <1>3, <1>4, TransactionConcat

LEMMA FeeCollectionSteps ==
  ASSUME NEW P, NEW t \in Token
  PROVE  IsTransaction(P, FeeCollection(t))
  <1>1. IsStep(P, create_ata(Of(t), "liquidator")) /\ IsStep(P, collect_liquidation_fee(t))
    BY TokenSteps
  <1>. QED BY <1>1, TransactionOfTwo DEF FeeCollection

\* Transactions put together to one.
LEMMA FlattenSteps ==
  ASSUME NEW P, NEW n \in Nat, NEW f, DOMAIN f = 1 .. n, f = [i \in 1 .. n |-> f[i]],
         \A i \in 1 .. n : IsTransaction(P, f[i])
  PROVE  IsTransaction(P, FlattenSeq(f))
  <1>. DEFINE X == UNION {ToSet(f[i]) : i \in 1 .. n}
  <1>1. \A i \in 1 .. n : ToSet(f[i]) \subseteq X
    BY Zenon
  <1>2. \A x \in X : IsStep(P, x)
    BY Zenon DEF IsTransaction
  <1>. HIDE DEF X
  <1>3. \A i \in 1 .. n : f[i] \in Seq(X)
    <2>1. TAKE i \in 1 .. n
    <2>. DEFINE T == ToSet(f[i])
                g == f[i]
    <2>2. g \in Seq(T) /\ T \subseteq X
      BY <1>1 DEF IsTransaction
    <2>. HIDE DEF T, g
    <2>3. g \in Seq(X)
      BY <2>2
    <2>. QED BY <2>3 DEF g
  <1>4. f \in Seq(Seq(X))
    <2>. DEFINE Y == Seq(X)
    <2>1. \A i \in 1 .. n : f[i] \in Y
      BY <1>3
    <2>. HIDE DEF Y
    <2>2. f \in Seq(Y)
      BY <2>1
    <2>. QED BY <2>2 DEF Y
  <1>5. FlattenSeq(f) \in Seq(X)
    BY <1>4, FlattenSeqType
  <1>. QED BY <1>2, <1>5, TransactionOver

\* What a builder returns: transactions, to be sent in order.
AreTransactions(P, built) == built \in Seq(ToSet(built)) /\ \A tx \in ToSet(built) : IsTransaction(P, tx)

LEMMA TransactionsOver ==
  ASSUME NEW P, NEW X, NEW built \in Seq(X), \A tx \in X : IsTransaction(P, tx)
  PROVE  AreTransactions(P, built)
  BY OverElements, Zenon DEF AreTransactions

LEMMA OneTransaction ==
  ASSUME NEW P, NEW tx, IsTransaction(P, tx)
  PROVE  AreTransactions(P, <<tx>>)
  <1>. DEFINE X == {tx}
  <1>1. <<tx>> \in Seq(X)
    OBVIOUS
  <1>2. \A x \in X : IsTransaction(P, x)
    OBVIOUS
  <1>. HIDE DEF X
  <1>. QED BY <1>1, <1>2, TransactionsOver, Zenon

LEMMA OneInstruction ==
  ASSUME NEW P, NEW ix, IsStep(P, ix)
  PROVE  AreTransactions(P, << <<ix>> >>)
  BY TransactionOf, OneTransaction

LEMMA CollectFeesSteps ==
  ASSUME NEW P, NEW c, InOrder(c), NEW o, o.who \in Who, o.token \in Token
  PROVE  AreTransactions(P, collect_liquidation_fees(c, o))
  <1>. DEFINE S == {t \in Token : c.accrued[t] > 0}
              fees == SetToSeq(S)
              n == Cardinality(S)
              f == [i \in DOMAIN fees |-> FeeTransfer(c, o, fees[i])]
              g == [i \in DOMAIN fees |-> FeeCollection(fees[i])]
              a == FlattenSeq(f)
              b == FlattenSeq(g)
  <1>1. IsFiniteSet(S)
    BY FiniteParts
  <1>2. collect_liquidation_fees(c, o) = <<a, b>>
    BY Zenon DEF collect_liquidation_fees
  <1>0. S \subseteq Token
    OBVIOUS
  <1>. HIDE DEF S
  <1>3. n \in Nat /\ DOMAIN fees = 1 .. n /\ \A i \in 1 .. n : fees[i] \in Token
    BY <1>0, <1>1, SetToSeqOf
  <1>. HIDE DEF fees, n
  <1>4. IsTransaction(P, a)
    <2>1. /\ DOMAIN f = 1 .. n /\ f = [i \in 1 .. n |-> f[i]]
          /\ \A i \in 1 .. n : f[i] = FeeTransfer(c, o, fees[i])
      BY <1>3
    <2>. HIDE DEF f
    <2>2. \A i \in 1 .. n : IsTransaction(P, f[i])
      BY <1>3, <2>1, FeeTransferSteps
    <2>. QED BY <1>3, <2>1, <2>2, FlattenSteps
  <1>5. IsTransaction(P, b)
    <2>1. /\ DOMAIN g = 1 .. n /\ g = [i \in 1 .. n |-> g[i]]
          /\ \A i \in 1 .. n : g[i] = FeeCollection(fees[i])
      BY <1>3
    <2>. HIDE DEF g
    <2>2. \A i \in 1 .. n : IsTransaction(P, g[i])
      BY <1>3, <2>1, FeeCollectionSteps
    <2>. QED BY <1>3, <2>1, <2>2, FlattenSteps
  <1>. HIDE DEF a, b
  <1>. DEFINE X == {a, b}
  <1>6. <<a, b>> \in Seq(X) /\ \A x \in X : IsTransaction(P, x)
    BY <1>4, <1>5
  <1>. HIDE DEF X
  <1>. QED BY <1>2, <1>6, TransactionsOver

LEMMA RefreshMetadataSteps ==
  ASSUME NEW P, NEW c, NEW o
  PROVE  AreTransactions(P, refresh_all_position_metadata(c, o))
  <1>. DEFINE S == {m \in Mint : Registered(c, m)}
              mints == SetToSeq(S)
              n == Cardinality(S)
              f == [i \in DOMAIN mints |-> <<refresh_position_config(mints[i])>>]
  <1>1. IsFiniteSet(S)
    BY FiniteParts
  <1>2. refresh_all_position_metadata(c, o) = f
    BY Zenon DEF refresh_all_position_metadata
  <1>. HIDE DEF S
  <1>3. n \in Nat /\ DOMAIN mints = 1 .. n
    BY <1>1, SetToSeqOf
  <1>. HIDE DEF mints, n
  <1>4. /\ DOMAIN f = 1 .. n /\ f = [i \in 1 .. n |-> f[i]]
        /\ \A i \in 1 .. n : f[i] = <<refresh_position_config(mints[i])>>
    BY <1>3
  <1>. HIDE DEF f
  <1>5. \A i \in 1 .. n : IsTransaction(P, f[i])
    BY <1>4, AccountSteps, TransactionOf
  <1>. DEFINE X == {f[i] : i \in 1 .. n}
  <1>6. (\A x \in X : IsTransaction(P, x)) /\ \A i \in 1 .. n : f[i] \in X
    BY <1>5
  <1>. HIDE DEF X
  <1>7. f \in [1 .. n -> X]
    BY <1>4, <1>6
  <1>8. f \in Seq(X)
    BY <1>3, <1>7
  <1>. QED BY <1>2, <1>6, <1>8, TransactionsOver

LEMMA DepositPositionSteps ==
  ASSUME NEW P, NEW c, InOrder(c), NEW o, o.token \in Token
  PROVE  /\ IsTransaction(P, create_deposit_position_tx(c, o))
         /\ P = {} => IsTransaction(P, close_deposit_position(c, o))
         /\ o.n \in Nat => IsTransaction(P, transfer_deposit_tx(c, o))
  <1>1. /\ IsStep(P, create_ata(Of(o.token), "ata")) /\ IsStep(P, create_deposit_position(o.who, Of(o.token)))
    BY TokenSteps
  <1>2. IsTransaction(P, <<create_ata(Of(o.token), "ata"), create_deposit_position(o.who, Of(o.token))>>)
    BY <1>1, TransactionOfTwo
  <1>3. IsTransaction(P, create_deposit_position_tx(c, o))
    BY <1>2 DEF create_deposit_position_tx
  <1>4. P = {} => IsTransaction(P, close_deposit_position(c, o))
    BY AccountsOf, MintSteps, TransactionOf DEF close_deposit_position
  <1>5. ASSUME o.n \in Nat
        PROVE  IsTransaction(P, transfer_deposit_tx(c, o))
    <2>. DEFINE ata == associated_token_address(Of(o.token))
                wallet == <<Of(o.token), "wallet">>
                s1 == IF Registered(c, Of(o.token)) THEN <<>>
                      ELSE <<create_ata(Of(o.token), "ata"), create_deposit_position(o.who, Of(o.token))>>
                d == IF o.inward THEN transfer_deposit(o.token, wallet, ata, o.n)
                                 ELSE transfer_deposit(o.token, ata, wallet, o.n)
                s2 == <<d>>
    <2>1. transfer_deposit_tx(c, o) = s1 \o s2
      BY Zenon DEF transfer_deposit_tx
    <2>2. IsTransaction(P, s1)
      BY <1>2, TransactionEmpty
    <2>3. IsStep(P, d)
      <3>1. /\ wallet \in Cash /\ ata \in Cash
            /\ wallet \notin NoteAccount /\ ata \notin NoteAccount
        BY Addresses, NoteAccounts DEF associated_token_address
      <3>. HIDE DEF wallet, ata
      <3>. QED BY <1>5, <3>1, TransferSteps
    <2>. HIDE DEF d
    <2>4. IsTransaction(P, s2)
      BY <2>3, TransactionOf
    <2>. HIDE DEF s1, s2
    <2>. QED BY <2>1, <2>2, <2>4, TransactionConcat
  <1>. QED BY <1>3, <1>4, <1>5

\* The account of notes that an operation pays into, if it does.
PaidNotes(c, o) ==
    CASE o.op = "pool_deposit" -> {PoolTarget(c, o.token)}
      [] o.op \in {"pool_deposit_deprecated", "borrow"} -> {PositionAddress(c, Note(o.token))}
      [] o.op \in {"margin_swap", "swap_and_repay"} -> {PositionAddress(c, Note(o.to))}
      [] OTHER -> {}

LEMMA BuildSteps ==
  ASSUME NEW c, InOrder(c), NEW o \in Operation
  PROVE  AreTransactions(PaidNotes(c, o), Build(c, o))
  <1>. DEFINE P == PaidNotes(c, o)
  <1>1. o.op \in OperationName /\ o.who \in Who /\ o.token \in Token
    BY OperationAssumption
  <1>0. /\ o.op \in WithAmount => o.n \in Nat
        /\ o.op \in WithAuthority => o.authority \in {"MarginAccount", "AccountAuthority"}
        /\ o.op \in WithSwap => o.to \in Token /\ o.take \in Nat
        /\ o.op = "swap_and_repay" => o.fee \in Nat /\ o.repay \in Nat \cup {NoAmount}
    BY OperationAssumption, Zenon
  <1>2. CASE o.op = "create_account"
    <2>1. Build(c, o) = << <<create_account>> >>
      BY <1>2, Zenon DEF Build
    <2>. QED BY <2>1, AccountSteps, OneInstruction
  <1>3. CASE o.op = "close_account"
    <2>1. Build(c, o) = << <<close_account>> >>
      BY <1>3, Zenon DEF Build
    <2>. QED BY <2>1, AccountSteps, OneInstruction
  <1>4. CASE o.op = "pool_deposit"
    <2>1. Build(c, o) = <<pool_deposit(c, o)>>
      BY <1>4, Zenon DEF Build
    <2>2. o.n \in Nat /\ o.authority \in {"MarginAccount", "AccountAuthority"}
      BY <1>0, <1>4 DEF WithAmount, WithAuthority
    <2>3. P = {PoolTarget(c, o.token)}
      BY <1>4, Zenon DEF PaidNotes
    <2>. HIDE DEF P
    <2>4. AreTransactions(P, Build(c, o))
      BY <2>3, <2>1, <2>2, <1>1, PoolDepositSteps, OneTransaction
    <2>. QED BY <2>4 DEF P
  <1>5. CASE o.op = "pool_deposit_deprecated"
    <2>1. Build(c, o) = <<pool_deposit_deprecated(c, o)>>
      BY <1>5, Zenon DEF Build
    <2>2. o.n \in Nat /\ o.authority \in {"MarginAccount", "AccountAuthority"}
      BY <1>0, <1>5 DEF WithAmount, WithAuthority
    <2>3. P = {PositionAddress(c, Note(o.token))}
      BY <1>5, Zenon DEF PaidNotes
    <2>. HIDE DEF P
    <2>4. AreTransactions(P, Build(c, o))
      BY <2>3, <2>1, <2>2, <1>1, PoolDepositDeprecatedSteps, OneTransaction
    <2>. QED BY <2>4 DEF P
  <1>6. CASE o.op = "borrow"
    <2>1. Build(c, o) = <<borrow(c, o)>>
      BY <1>6, Zenon DEF Build
    <2>2. o.n \in Nat
      BY <1>0, <1>6 DEF WithAmount
    <2>3. P = {PositionAddress(c, Note(o.token))}
      BY <1>6, Zenon DEF PaidNotes
    <2>. HIDE DEF P
    <2>4. AreTransactions(P, Build(c, o))
      BY <2>3, <2>1, <2>2, <1>1, BorrowSteps, OneTransaction
    <2>. QED BY <2>4 DEF P
  <1>7. CASE o.op = "margin_repay"
    <2>1. Build(c, o) = <<margin_repay_tx(c, o)>>
      BY <1>7, Zenon DEF Build
    <2>2. o.n \in Nat
      BY <1>0, <1>7 DEF WithAmount
    <2>. QED BY <2>1, <2>2, <1>1, MarginRepaySteps, OneTransaction
  <1>8. CASE o.op = "pool_repay"
    <2>1. Build(c, o) = <<pool_repay(c, o)>>
      BY <1>8, Zenon DEF Build
    <2>2. o.n \in Nat /\ o.authority \in {"MarginAccount", "AccountAuthority"}
      BY <1>0, <1>8 DEF WithAmount, WithAuthority
    <2>. QED BY <2>1, <2>2, <1>1, PoolRepaySteps, OneTransaction
  <1>9. CASE o.op = "withdraw"
    <2>1. Build(c, o) = <<withdraw_tx(c, o)>>
      BY <1>9, Zenon DEF Build
    <2>2. o.n \in Nat
      BY <1>0, <1>9 DEF WithAmount
    <2>. QED BY <2>1, <2>2, <1>1, WithdrawSteps, OneTransaction
  <1>10. CASE o.op = "margin_swap"
    <2>1. Build(c, o) = <<margin_swap(c, o)>>
      BY <1>10, Zenon DEF Build
    <2>2. o.n \in Nat /\ o.to \in Token /\ o.take \in Nat
      BY <1>0, <1>10 DEF WithAmount, WithSwap
    <2>3. P = {PositionAddress(c, Note(o.to))}
      BY <1>10, Zenon DEF PaidNotes
    <2>. HIDE DEF P
    <2>4. AreTransactions(P, Build(c, o))
      BY <2>3, <2>1, <2>2, <1>1, MarginSwapSteps, OneTransaction
    <2>. QED BY <2>4 DEF P
  <1>11. CASE o.op = "swap_and_repay"
    <2>1. Build(c, o) = <<swap_and_repay(c, o)>>
      BY <1>11, Zenon DEF Build
    <2>2. o.n \in Nat /\ o.to \in Token /\ o.take \in Nat
          /\ o.fee \in Nat /\ o.repay \in Nat \cup {NoAmount}
      BY <1>0, <1>11 DEF WithAmount, WithSwap
    <2>3. P = {PositionAddress(c, Note(o.to))}
      BY <1>11, Zenon DEF PaidNotes
    <2>. HIDE DEF P
    <2>4. AreTransactions(P, Build(c, o))
      BY <2>3, <2>1, <2>2, <1>1, SwapAndRepaySteps, OneTransaction
    <2>. QED BY <2>4 DEF P
  <1>12. CASE o.op = "close_pool_positions"
    <2>1. Build(c, o) = <<close_pool_positions(c, o)>>
      BY <1>12, Zenon DEF Build
    <2>3. P = {}
      BY <1>12 DEF PaidNotes
    <2>. HIDE DEF P
    <2>4. AreTransactions(P, Build(c, o))
      BY <2>3, <2>1, <1>1, ClosePoolPositionsSteps, OneTransaction
    <2>. QED BY <2>4 DEF P
  <1>13. CASE o.op = "close_pool_position"
    <2>1. Build(c, o) = <<close_pool_position(c, o)>>
      BY <1>13, Zenon DEF Build
    <2>2. o.kind \in {"Collateral", "Claim"}
      BY <1>13, OperationAssumption
    <2>3. P = {}
      BY <1>13 DEF PaidNotes
    <2>. HIDE DEF P
    <2>4. AreTransactions(P, Build(c, o))
      BY <2>3, <2>1, <2>2, <1>1, ClosePoolPositionSteps, OneTransaction
    <2>. QED BY <2>4 DEF P
  <1>14. CASE o.op = "close_empty_positions"
    <2>1. Build(c, o) = <<close_empty_positions(c, o)>>
      BY <1>14, Zenon DEF Build
    <2>3. P = {}
      BY <1>14 DEF PaidNotes
    <2>. HIDE DEF P
    <2>4. AreTransactions(P, Build(c, o))
      BY <2>3, <2>1, <1>1, CloseEmptySteps, OneTransaction
    <2>. QED BY <2>4 DEF P
  <1>15. CASE o.op = "liquidate_begin"
    <2>1. Build(c, o) = <<liquidate_begin_builder(c, o)>>
      BY <1>15, Zenon DEF Build
    <2>. QED BY <2>1, LiquidateBeginSteps, OneTransaction
  <1>16. CASE o.op = "liquidate_end"
    <2>1. Build(c, o) = << <<liquidate_end(o.who)>> >>
      BY <1>16, Zenon DEF Build
    <2>. QED BY <2>1, AccountSteps, OneInstruction
  <1>17. CASE o.op = "collect_liquidation_fees"
    <2>1. Build(c, o) = collect_liquidation_fees(c, o)
      BY <1>17, Zenon DEF Build
    <2>. QED BY <2>1, <1>1, CollectFeesSteps
  <1>18. CASE o.op = "refresh_all_position_metadata"
    <2>1. Build(c, o) = refresh_all_position_metadata(c, o)
      BY <1>18, Zenon DEF Build
    <2>. QED BY <2>1, RefreshMetadataSteps
  <1>19. CASE o.op = "create_deposit_position"
    <2>1. Build(c, o) = <<create_deposit_position_tx(c, o)>>
      BY <1>19, Zenon DEF Build
    <2>. QED BY <2>1, <1>1, DepositPositionSteps, OneTransaction
  <1>20. CASE o.op = "close_deposit_position"
    <2>1. Build(c, o) = <<close_deposit_position(c, o)>>
      BY <1>20, Zenon DEF Build
    <2>3. P = {}
      BY <1>20 DEF PaidNotes
    <2>. HIDE DEF P
    <2>4. AreTransactions(P, Build(c, o))
      BY <2>3, <2>1, <1>1, DepositPositionSteps, OneTransaction
    <2>. QED BY <2>4 DEF P
  <1>21. CASE o.op = "transfer_deposit"
    <2>1. Build(c, o) = <<transfer_deposit_tx(c, o)>>
      BY <1>21, Zenon DEF Build
    <2>2. o.n \in Nat
      BY <1>0, <1>21 DEF WithAmount
    <2>. QED BY <2>1, <2>2, <1>1, DepositPositionSteps, OneTransaction
  <1>. QED BY <1>1, <1>2, <1>3, <1>4, <1>5, <1>6, <1>7, <1>8, <1>9, <1>10, <1>11, <1>12, <1>13,
              <1>14, <1>15, <1>16, <1>17, <1>18, <1>19, <1>20, <1>21, Zenon DEF OperationName

-----------------------------------------------------------------------------
(* The inductive invariant: the accounts are in order, and every           *)
(* transaction that waits is made of instructions of the builder, so that  *)
(* they stay in order however late the transaction lands.                  *)

IsExecutable(tx) == Len(tx) \in Nat /\ \A i \in 1 .. Len(tx) : IsInstruction(tx[i])

IsPending(p) ==
    /\ p = [o |-> p.o, txs |-> p.txs, stale |-> p.stale]
    /\ p.txs \in Seq(ToSet(p.txs))
    /\ \A tx \in ToSet(p.txs) : IsExecutable(tx)
    /\ p # Idle => p.txs # << >>

\* Between transactions nothing has failed, nothing is priced and no debt is
\* above its bound.
AtRest(s) == InOrder(s) /\ s.ok /\ s.fresh = {} /\ WithinBounds(s)

TxBuilderInv == AtRest(chain) /\ IsPending(pending)

LEMMA IdleIsPending == IsPending(Idle)
  <1>1. Idle.txs = << >> /\ Idle = [o |-> Idle.o, txs |-> Idle.txs, stale |-> Idle.stale]
    BY DEF Idle
  <1>. DEFINE e == Idle.txs
              X == {}
  <1>2. e \in Seq(X)
    BY <1>1
  <1>. HIDE DEF X, e
  <1>3. e \in Seq(ToSet(e)) /\ \A tx \in ToSet(e) : tx \in X
    BY <1>2, OverElements
  <1>4. \A tx \in ToSet(e) : FALSE
    BY <1>3 DEF X
  <1>. QED BY <1>1, <1>3, <1>4, Zenon DEF IsPending, e

\* Without a panic every step of what was built is an instruction.
LEMMA BuiltIsExecutable ==
  ASSUME NEW c, InOrder(c), NEW o \in Operation, ~Panics(Build(c, o))
  PROVE  /\ Build(c, o) \in Seq(ToSet(Build(c, o)))
         /\ \A tx \in ToSet(Build(c, o)) : IsExecutable(tx)
  <1>. DEFINE built == Build(c, o)
              P == PaidNotes(c, o)
  <1>1. AreTransactions(P, built) /\ ~Panics(built)
    BY BuildSteps
  <1>. HIDE DEF built, P
  <1>2. built \in Seq(ToSet(built)) /\ \A tx \in ToSet(built) : IsTransaction(P, tx)
    BY <1>1 DEF AreTransactions
  <1>3. ASSUME NEW tx \in ToSet(built)
        PROVE  IsExecutable(tx)
    <2>1. PICK k \in DOMAIN built : tx = built[k]
      BY DEF ToSet
    <2>2. tx \in Seq(ToSet(tx)) /\ \A ix \in ToSet(tx) : IsStep(P, ix)
      BY <1>2 DEF IsTransaction
    <2>3. Len(tx) \in Nat /\ DOMAIN tx = 1 .. Len(tx)
      <3>. DEFINE T == ToSet(tx)
      <3>1. tx \in Seq(T)
        BY <2>2
      <3>. HIDE DEF T
      <3>. QED BY <3>1
    <2>4. \A i \in 1 .. Len(tx) : tx[i] \in ToSet(tx)
      BY <2>3 DEF ToSet
    <2>5. \A i \in 1 .. Len(tx) : tx[i] # Panic
      BY <1>1, <2>1, <2>3 DEF Panics
    <2>6. \A i \in 1 .. Len(tx) : IsInstruction(tx[i])
      BY <2>2, <2>4, <2>5, Zenon DEF IsStep
    <2>. QED BY <2>3, <2>6 DEF IsExecutable
  <1>. QED BY <1>2, <1>3 DEF built

\* The owner's wallet holds the supply and nothing is owed.
LEMMA WalletsBalanced ==
  Balanced([a \in Account |-> IF a[2] = "wallet" THEN Supply[a[1][2]] ELSE Missing])
  <1>. DEFINE h == [a \in Account |-> IF a[2] = "wallet" THEN Supply[a[1][2]] ELSE Missing]
  <1>1. MaxLoan \in Nat /\ Supply \in [Token -> Nat]
    BY TxBuilderAssumption
  <1>2. ASSUME NEW t \in Token
        PROVE  /\ h[<<Of(t), "wallet">>] = Supply[t] /\ Supply[t] \in Nat
               /\ h[<<Of(t), "ata">>] = Missing /\ h[<<Of(t), "pda">>] = Missing
               /\ h[<<Of(t), "liquidator">>] = Missing
               /\ h[<<Note(t), "ata">>] = Missing /\ h[<<Note(t), "pda">>] = Missing
               /\ h[<<Loan(t), "ata">>] = Missing /\ h[<<Loan(t), "pda">>] = Missing
    <2>1. Of(t)[2] = t
      BY DEF Of
    <2>2. h[<<Of(t), "wallet">>] = Supply[t]
      BY <2>1, AccountsOf
    <2>. QED BY <1>1, <2>2, AccountsOf
  <1>. HIDE DEF h
  <1>3. h \in [Account -> Int] /\ \A a \in Account : h[a] >= Missing
    <2>1. ASSUME NEW a \in Account
          PROVE  h[a] \in Int /\ h[a] >= Missing
      <3>1. PICK t \in Token :
              \/ a = <<Of(t), "ata">> \/ a = <<Of(t), "pda">> \/ a = <<Of(t), "wallet">>
              \/ a = <<Of(t), "liquidator">> \/ a = <<Note(t), "ata">> \/ a = <<Note(t), "pda">>
              \/ a = <<Loan(t), "ata">> \/ a = <<Loan(t), "pda">>
        BY AccountCases
      <3>2. h[a] = Missing \/ h[a] \in Nat
        BY <3>1, <1>2
      <3>. QED BY <3>2 DEF Missing
    <2>2. h = [a \in Account |-> h[a]]
      BY DEF h
    <2>. QED BY <2>1, <2>2
  <1>4. ASSUME NEW t \in Token
        PROVE  h[<<Loan(t), "ata">>] <= 0
    <2>. DEFINE n == h[<<Loan(t), "ata">>]
    <2>1. n = Missing
      BY <1>2
    <2>. HIDE DEF n
    <2>2. n <= 0
      BY <2>1 DEF Missing
    <2>. QED BY <2>2 DEF n
  <1>5. Fund(h) = [t \in Token |-> Supply[t] + MaxLoan]
    <2>1. ASSUME NEW t \in Token
          PROVE  Fund(h)[t] = Supply[t] + MaxLoan
      <3>. DEFINE w == <<Of(t), "wallet">>
      <3>1. w[1][1] # "loan"
        BY DEF Of
      <3>2. Worth(w, h[w]) = Supply[t]
        <4>1. h[w] = Supply[t] /\ Supply[t] \in Nat
          BY <1>2
        <4>. HIDE DEF w
        <4>. QED BY <3>1, <4>1 DEF Worth, Missing
      <3>3. \A a : Worth(a, Missing) = 0
        BY DEF Worth
      <3>4. /\ Worth(<<Of(t), "ata">>, h[<<Of(t), "ata">>]) = 0
            /\ Worth(<<Of(t), "pda">>, h[<<Of(t), "pda">>]) = 0
            /\ Worth(<<Of(t), "liquidator">>, h[<<Of(t), "liquidator">>]) = 0
            /\ Worth(<<Note(t), "ata">>, h[<<Note(t), "ata">>]) = 0
            /\ Worth(<<Note(t), "pda">>, h[<<Note(t), "pda">>]) = 0
            /\ Worth(<<Loan(t), "ata">>, h[<<Loan(t), "ata">>]) = 0
            /\ Worth(<<Loan(t), "pda">>, h[<<Loan(t), "pda">>]) = 0
        BY <1>2, <3>3
      <3>5. Fund(h)[t] = MaxLoan + Worth(<<Of(t), "ata">>, h[<<Of(t), "ata">>])
              + Worth(<<Of(t), "pda">>, h[<<Of(t), "pda">>]) + Worth(w, h[w])
              + Worth(<<Of(t), "liquidator">>, h[<<Of(t), "liquidator">>])
              + Worth(<<Note(t), "ata">>, h[<<Note(t), "ata">>])
              + Worth(<<Note(t), "pda">>, h[<<Note(t), "pda">>])
              + Worth(<<Loan(t), "ata">>, h[<<Loan(t), "ata">>])
              + Worth(<<Loan(t), "pda">>, h[<<Loan(t), "pda">>])
        BY DEF Fund
      <3>6. Supply[t] \in Nat
        BY <1>2
      <3>. HIDE DEF w
      <3>. QED BY <1>1, <3>2, <3>4, <3>5, <3>6
    <2>2. Fund(h) = [t \in Token |-> Fund(h)[t]]
      BY DEF Fund
    <2>. QED BY <2>1, <2>2
  <1>6. Balanced(h)
    BY <1>3, <1>4, <1>5 DEF Balanced, Ceiling
  <1>. QED BY <1>6 DEF h

LEMMA TxBuilderInitInv == TxBuilderInit => TxBuilderInv
  <1>. SUFFICES ASSUME TxBuilderInit
                PROVE  TxBuilderInv
    OBVIOUS
  <1>. DEFINE h == [a \in Account |-> IF a[2] = "wallet" THEN Supply[a[1][2]] ELSE Missing]
  <1>1. /\ {"ok", "open", "liquidating", "collecting", "accrued", "fresh"} \subseteq DOMAIN chain
        /\ {"position", "cached", "held"} \subseteq DOMAIN chain
        /\ chain.position = [m \in Mint |-> NoAddress] /\ chain.cached = [m \in Mint |-> 0]
        /\ chain.accrued = [t \in Token |-> 0] /\ chain.held = h
        /\ chain.ok /\ chain.fresh = {} /\ ~chain.collecting /\ ~chain.liquidating
    BY DEF TxBuilderInit
  <1>3. Balanced(h)
    BY WalletsBalanced, Zenon
  <1>4. DOMAIN h = Account /\ (\A m \in Mint : h[<<m, "pda">>] = Missing)
    BY MintAccounts
  <1>5. WithinBounds(chain)
    <2>1. \A t \in Token : h[<<Loan(t), "pda">>] = Missing
      BY <1>4, AccountsOf
    <2>. HIDE DEF h
    <2>2. MaxLoan \in Nat
      BY TxBuilderAssumption
    <2>3. ASSUME NEW t \in Token
          PROVE  chain.held[Loan(t), "pda"] <= MaxLoan
      <3>1. chain.held[<<Loan(t), "pda">>] = Missing
        BY <1>1, <2>1, Zenon
      <3>. DEFINE n == chain.held[<<Loan(t), "pda">>]
      <3>2. n = Missing
        BY <3>1
      <3>. HIDE DEF n
      <3>3. n <= MaxLoan
        BY <2>2, <3>2 DEF Missing
      <3>. QED BY <3>3 DEF n
    <2>. QED BY <2>3 DEF WithinBounds
  <1>. HIDE DEF h
  <1>6. CountedBut(chain, {})
    BY <1>1, <1>4 DEF CountedBut, Shape
  <1>7. Sound(chain)
    BY <1>1, <1>3 DEF Sound
  <1>8. AtRest(chain)
    BY <1>1, <1>5, <1>6, <1>7 DEF AtRest, InOrder, Intact
  <1>2. IsPending(pending)
    BY IdleIsPending DEF TxBuilderInit
  <1>. QED BY <1>8, <1>2 DEF TxBuilderInv

LEMMA PendingDequeued ==
  ASSUME NEW p, IsPending(p), p # Idle
  PROVE  /\ IsExecutable(Head(p.txs))
         /\ IsPending(IF Len(p.txs) = 1 THEN Idle ELSE [p EXCEPT !.txs = Tail(@)])
  <1>. DEFINE built == p.txs
              T == ToSet(built)
  <1>1. built \in Seq(T) /\ built # << >> /\ \A tx \in T : IsExecutable(tx)
    BY Zenon DEF IsPending
  <1>2. p = [o |-> p.o, txs |-> built, stale |-> p.stale]
    BY DEF IsPending
  <1>. HIDE DEF T, built
  <1>3. Head(built) \in T /\ Tail(built) \in Seq(T) /\ Len(built) \in Nat /\ Len(built) >= 1
    BY <1>1
  <1>4. ASSUME Len(built) # 1
        PROVE  IsPending([p EXCEPT !.txs = Tail(built)])
    <2>. DEFINE r == Tail(built)
                q == [p EXCEPT !.txs = r]
    <2>1. r # << >>
      <3>1. Len(r) = Len(built) - 1
        BY <1>1
      <3>. HIDE DEF r
      <3>2. Len(r) # 0
        BY <3>1, <1>3, <1>4
      <3>. QED BY <3>2
    <2>2. r \in Seq(ToSet(r)) /\ \A tx \in ToSet(r) : tx \in T
      BY <1>3, OverElements
    <2>. HIDE DEF r
    <2>3. q.txs = r /\ q = [o |-> q.o, txs |-> q.txs, stale |-> q.stale]
      BY <1>2
    <2>. HIDE DEF q
    <2>4. IsPending(q)
      BY <2>1, <2>2, <2>3, <1>1, Zenon DEF IsPending
    <2>. QED BY <2>4 DEF q, r
  <1>5. IsExecutable(Head(built))
    BY <1>1, <1>3
  <1>. QED BY <1>4, <1>5, IdleIsPending DEF built

LEMMA PendingStale ==
  ASSUME NEW p, IsPending(p), p # Idle, NEW v
  PROVE  IsPending([p EXCEPT !.stale = v])
  <1>. DEFINE q == [p EXCEPT !.stale = v]
  <1>0. PICK x, y, z : p = [o |-> x, txs |-> y, stale |-> z]
    BY Zenon DEF IsPending
  <1>1. q = [o |-> x, txs |-> y, stale |-> v] /\ p.txs = y
    BY <1>0
  <1>. HIDE DEF q
  <1>2. q.txs = y /\ q = [o |-> q.o, txs |-> q.txs, stale |-> q.stale]
    BY <1>1
  <1>3. IsPending(q)
    BY <1>1, <1>2, Zenon DEF IsPending
  <1>. QED BY <1>3 DEF q

LEMMA FeeType == Fee \subseteq Fees
  BY DEF Fee, Fees

\* A transaction that lands.
LEMMA LandedAtRest ==
  ASSUME NEW s, NEW tx, NEW fee \in Fees, AtRest(s), IsExecutable(tx),
         Run(s, tx, fee).ok, WithinBounds(Run(s, tx, fee))
  PROVE  AtRest(Settled(Run(s, tx, fee)))
  <1>. DEFINE r == Run(s, tx, fee)
  <1>1. InOrder(r)
    BY RunInOrder DEF IsExecutable, AtRest
  <1>2. r.ok /\ WithinBounds(r)
    OBVIOUS
  <1>. HIDE DEF r
  <1>3. InOrder(Settled(r))
    BY <1>1, FieldsKept DEF Settled, InOrder
  <1>4. Settled(r).ok = r.ok /\ Settled(r).held = r.held /\ Settled(r).fresh = {}
    BY <1>1 DEF Settled, InOrder, Intact, CountedBut, Shape, Sound
  <1>. HIDE DEF r
  <1>5. AtRest(Settled(r))
    BY <1>2, <1>3, <1>4 DEF AtRest, WithinBounds
  <1>. QED BY <1>5 DEF r

\* A transfer between accounts of tokens touches no debt.
LEMMA DonatedAtRest ==
  ASSUME NEW s, AtRest(s), NEW t \in Token,
         Transfer(s, <<Of(t), "wallet">>, associated_token_address(Of(t)), 1).ok
  PROVE  AtRest(Transfer(s, <<Of(t), "wallet">>, associated_token_address(Of(t)), 1))
  <1>. DEFINE a == <<Of(t), "wallet">>
              b == associated_token_address(Of(t))
              r == Transfer(s, a, b, 1)
              k == Credited(Credited(s.held, a, -1), b, 1)
  <1>1. a \in Cash /\ b \in Cash /\ Usable(a, {}) /\ Usable(b, {})
    BY AccountsOf DEF associated_token_address, Usable
  <1>2. InOrder(r)
    <2>. HIDE DEF a, b
    <2>. QED BY <1>1, TransferIntact DEF AtRest, InOrder
  <1>3. {"ok", "fresh", "held"} \subseteq DOMAIN s /\ DOMAIN s.held = Account
    BY DEF AtRest, InOrder, Intact, CountedBut, Shape, Sound
  <1>4. r.fresh = s.fresh /\ (r.held = s.held \/ r.held = k)
    <2>. HIDE DEF a, b
    <2>. QED BY <1>3 DEF Transfer, Require
  <1>5. ASSUME NEW u \in Token
        PROVE  r.held[<<Loan(u), "pda">>] = s.held[<<Loan(u), "pda">>]
    <2>. DEFINE z == <<Loan(u), "pda">>
    <2>1. z \in Account /\ z # a /\ z # b
      BY AccountsOf DEF Loan, Of, associated_token_address
    <2>. HIDE DEF z, a, b
    <2>. DEFINE g == Credited(s.held, a, -1)
    <2>2. DOMAIN g = Account /\ g[z] = s.held[z]
      BY <1>3, <2>1 DEF Credited
    <2>. HIDE DEF g
    <2>3. Credited(g, b, 1)[z] = g[z]
      BY <2>1, <2>2 DEF Credited
    <2>4. k[z] = s.held[z]
      BY <2>2, <2>3 DEF g
    <2>5. r.held[z] = s.held[z]
      <3>. HIDE DEF k, r
      <3>. QED BY <1>4, <2>4
    <2>. QED BY <2>5 DEF z
  <1>6. r.ok
    OBVIOUS
  <1>. HIDE DEF r, k, a, b
  <1>7. AtRest(r)
    BY <1>2, <1>4, <1>5, <1>6 DEF AtRest, WithinBounds
  <1>. QED BY <1>7 DEF r, a, b

\* Reading a balance back changes nothing else.
LEMMA UpdatedAtRest ==
  ASSUME NEW s, AtRest(s), NEW a \in Account
  PROVE  AtRest(Run(s, <<update_position_balance(a)>>, 0))
  <1>. DEFINE ix == update_position_balance(a)
  <1>1. Run(s, <<ix>>, 0) = Execute(s, ix, 0)
    <2>. HIDE DEF ix
    <2>. DEFINE tx == <<ix>>
    <2>1. Len(tx) = 1 /\ tx[1] = ix
      OBVIOUS
    <2>. HIDE DEF tx
    <2>2. Len(tx) \in Nat
      BY <2>1
    <2>3. \A fee : \E g : /\ g[0] = s /\ Run(s, tx, fee) = g[Len(tx)]
                          /\ \A i \in 1 .. Len(tx) : g[i] = Execute(g[i - 1], tx[i], fee)
      BY <2>2, RunIsDefined
    <2>4. PICK g : /\ g[0] = s /\ Run(s, tx, 0) = g[Len(tx)]
                   /\ \A i \in 1 .. Len(tx) : g[i] = Execute(g[i - 1], tx[i], 0)
      BY <2>3, Zenon
    <2>5. g[1] = Execute(g[0], ix, 0)
      BY <2>1, <2>4
    <2>6. Run(s, tx, 0) = Execute(s, ix, 0)
      BY <2>1, <2>4, <2>5, Zenon
    <2>. QED BY <2>6 DEF tx
  <1>2. ix.op = "update_position_balance" /\ ix.account = a
    BY DEF update_position_balance
  <1>. HIDE DEF ix
  <1>3. Execute(s, ix, 0) = SetBalances(s, {ix.account})
    BY <1>2, Zenon DEF Execute
  <1>. DEFINE r == SetBalances(s, {a})
  <1>4. InOrder(r)
    BY SetBalancesIntact DEF AtRest, InOrder
  <1>5. r.ok = s.ok /\ r.fresh = s.fresh /\ r.held = s.held
    BY DEF SetBalances
  <1>. HIDE DEF r
  <1>6. AtRest(r)
    BY <1>4, <1>5 DEF AtRest, WithinBounds
  <1>. QED BY <1>1, <1>2, <1>3, <1>6 DEF r, ix

LEMMA TxBuilderNextInv == TxBuilderInv /\ [TxBuilderNext]_txBuilderVars => TxBuilderInv'
  <1>. SUFFICES ASSUME TxBuilderInv, [TxBuilderNext]_txBuilderVars
                PROVE  TxBuilderInv'
    OBVIOUS
  <1>0. AtRest(chain) /\ InOrder(chain) /\ IsPending(pending)
    BY DEF TxBuilderInv, AtRest
  <1>1. ASSUME NEW o \in Operation, BuildTransactions(o)
        PROVE  TxBuilderInv'
    <2>. DEFINE built == Build(chain, o)
    <2>1. /\ ~Panics(built) /\ \E i \in DOMAIN built : built[i] # << >>
          /\ pending' = [o |-> o, txs |-> built, stale |-> FALSE] /\ chain' = chain
      BY <1>1, Zenon DEF BuildTransactions
    <2>2. built \in Seq(ToSet(built)) /\ \A tx \in ToSet(built) : IsExecutable(tx)
      BY <1>0, <2>1, BuiltIsExecutable
    <2>. HIDE DEF built
    <2>3. built # << >>
      BY <2>1
    <2>4. pending'.txs = built /\ pending' = [o |-> pending'.o, txs |-> pending'.txs, stale |-> pending'.stale]
      BY <2>1
    <2>5. IsPending(pending')
      BY <2>2, <2>3, <2>4, Zenon DEF IsPending
    <2>. QED BY <1>0, <2>1, <2>5 DEF TxBuilderInv
  <1>2. ASSUME NEW fee \in Fee, LandTransaction(fee)
        PROVE  TxBuilderInv'
    <2>. DEFINE s == Run(chain, Head(pending.txs), fee)
    <2>1. /\ pending # Idle /\ s.ok /\ WithinBounds(s) /\ chain' = Settled(s)
          /\ pending' = IF Len(pending.txs) = 1 THEN Idle ELSE [pending EXCEPT !.txs = Tail(@)]
      BY <1>2, Zenon DEF LandTransaction, Dequeued
    <2>2. IsExecutable(Head(pending.txs)) /\ IsPending(pending')
      BY <1>0, <2>1, PendingDequeued
    <2>3. AtRest(chain')
      <3>1. fee \in Fees
        BY FeeType
      <3>. QED BY <1>0, <2>1, <2>2, <3>1, LandedAtRest
    <2>. QED BY <2>2, <2>3 DEF TxBuilderInv
  <1>3. ASSUME DropTransactions
        PROVE  TxBuilderInv'
    BY <1>0, <1>3, IdleIsPending DEF DropTransactions, TxBuilderInv
  <1>4. ASSUME NEW o \in Racing, NEW fee \in Fee, OtherLands(o, fee)
        PROVE  TxBuilderInv'
    <2>. DEFINE built == Build(chain, o)
                s == Run(chain, built[1], fee)
    <2>1. /\ pending # Idle /\ ~Panics(built) /\ built # << >>
          /\ s.ok /\ WithinBounds(s) /\ chain' = Settled(s)
          /\ pending' = [pending EXCEPT !.stale = TRUE]
      BY <1>4, Zenon DEF OtherLands
    <2>2. o \in Operation
      BY TxBuilderAssumption
    <2>3. built \in Seq(ToSet(built)) /\ \A tx \in ToSet(built) : IsExecutable(tx)
      BY <1>0, <2>1, <2>2, BuiltIsExecutable
    <2>. HIDE DEF built
    <2>4. built[1] \in ToSet(built)
      <3>. DEFINE T == ToSet(built)
      <3>1. built \in Seq(T) /\ built # << >>
        BY <2>1, <2>3
      <3>. HIDE DEF T
      <3>2. built[1] \in T
        BY <3>1
      <3>. QED BY <3>2 DEF T
    <2>5. AtRest(chain')
      <3>1. fee \in Fees
        BY FeeType
      <3>. QED BY <1>0, <2>1, <2>3, <2>4, <3>1, LandedAtRest
    <2>6. IsPending(pending')
      BY <1>0, <2>1, PendingStale, Zenon
    <2>. QED BY <2>5, <2>6 DEF TxBuilderInv
  <1>5. ASSUME NEW t \in Token, Donate(t)
        PROVE  TxBuilderInv'
    <2>. DEFINE s == Transfer(chain, <<Of(t), "wallet">>, associated_token_address(Of(t)), 1)
    <2>1. /\ s.ok /\ chain' = s
          /\ pending' = IF pending = Idle THEN Idle ELSE [pending EXCEPT !.stale = TRUE]
      BY <1>5, Zenon DEF Donate
    <2>2. AtRest(chain')
      BY <1>0, <2>1, DonatedAtRest
    <2>3. IsPending(pending')
      BY <1>0, <2>1, PendingStale, IdleIsPending, Zenon
    <2>. QED BY <2>2, <2>3 DEF TxBuilderInv
  <1>6. ASSUME NEW m \in Mint, UpdateBalance(associated_token_address(m))
        PROVE  TxBuilderInv'
    <2>. DEFINE a == associated_token_address(m)
    <2>1. chain' = Run(chain, <<update_position_balance(a)>>, 0) /\ pending' = pending
      BY <1>6, Zenon DEF UpdateBalance
    <2>2. a \in Account
      BY MintAccounts DEF associated_token_address
    <2>. HIDE DEF a
    <2>. QED BY <1>0, <2>1, <2>2, UpdatedAtRest DEF TxBuilderInv
  <1>7. CASE UNCHANGED txBuilderVars
    BY <1>0, <1>7 DEF txBuilderVars, TxBuilderInv
  <1>. QED BY <1>1, <1>2, <1>3, <1>4, <1>5, <1>6, <1>7, Zenon DEF TxBuilderNext

\* However the transactions of several sessions interleave with each other and
\* with donations, TxBuilderInv holds.
THEOREM TxBuilderInvariance == TxBuilderSpec => []TxBuilderInv
  BY TxBuilderInitInv, TxBuilderNextInv, PTL DEF TxBuilderSpec

\* The bound is what the wallet starts with and what may be owed.
LEMMA CeilingIsSum ==
  MapThenSumSet(LAMBDA t : Supply[t] + MaxLoan, Token) = Ceiling
  <1>. DEFINE f == [t \in Token |-> Supply[t] + MaxLoan]
              Def(g) == [s \in SUBSET Token |->
                            IF s = {} THEN 0 ELSE f[Chosen(s)] + g[s \ {Chosen(s)}]]
              Sum(g) == [s \in SUBSET Token |->
                            IF s = {} THEN 0 ELSE (Supply[Chosen(s)] + MaxLoan) + g[s \ {Chosen(s)}]]
  <1>1. f \in [Token -> Int] /\ IsFiniteSet(Token)
    BY TxBuilderAssumption
  <1>2. (CHOOSE g : g = Def(g))[Token] = Total(f, Token)
    <2>. HIDE DEF f
    <2>. QED BY <1>1, TotalIsSum, Zenon
  <1>3. \A g : Def(g) = Sum(g)
    <2>1. \A s \in SUBSET Token : s # {} => f[Chosen(s)] = Supply[Chosen(s)] + MaxLoan
      <3>1. \A s \in SUBSET Token : s # {} => Chosen(s) \in Token
        BY <1>1, OneLess, Zenon
      <3>. QED BY <3>1
    <2>. HIDE DEF f
    <2>. QED BY <2>1
  <1>4. MapThenSumSet(LAMBDA t : Supply[t] + MaxLoan, Token) = (CHOOSE g : g = Sum(g))[Token]
    BY Zenon DEF MapThenSumSet, MapThenFoldSet, Chosen
  <1>. HIDE DEF Def, Sum
  <1>5. (CHOOSE g : g = Sum(g)) = (CHOOSE g : g = Def(g))
    BY <1>3, Zenon
  <1>. QED BY <1>2, <1>4, <1>5, Zenon DEF Ceiling

\* The accounts are in order however the transactions of several sessions
\* interleave: every balance is missing or a number that the tokens there were
\* and the debts there may be bound, so no transaction makes tokens; a fee and
\* the mark of one collected belong to a liquidation; a position is the margin
\* account's own; and a debt, and every note in an account derived for its
\* position, is a registered position whose balance the margin account knows,
\* whatever the builder was asked for and whatever landed between reading the
\* chain and the transaction: for any finite set of tokens, any operations and
\* supplies and any length of a run.
THEOREM AccountsAreAlwaysCounted == TxBuilderSpec => []AccountsAreCounted
  <1>1. TxBuilderInv => AccountsAreCounted
    <2>. SUFFICES ASSUME TxBuilderInv
                  PROVE  AccountsAreCounted
      OBVIOUS
    <2>1. CountedBut(chain, {}) /\ Sound(chain) /\ AtRest(chain) /\ IsPending(pending)
      BY DEF TxBuilderInv, AtRest, InOrder, Intact
    <2>2. PositionsAreOwn /\ DerivedAccountsAreCounted
      BY <2>1 DEF CountedBut, PositionsAreOwn, DerivedAccountsAreCounted
    <2>3. ASSUME NEW a \in Account
          PROVE  chain.held[a] \in Missing .. MapThenSumSet(LAMBDA t : Supply[t] + MaxLoan, Token)
      <3>1. \A t \in Token : chain.held[<<Loan(t), "pda">>] <= MaxLoan
        BY <2>1 DEF AtRest, WithinBounds
      <3>2. chain.held[a] \in Missing .. Ceiling
        BY <2>1, <3>1, BalancedBound DEF Sound
      <3>. QED BY <3>2, CeilingIsSum, Zenon
    <2>4. /\ chain.ok /\ chain.fresh = {}
          /\ (\A m \in Mint : chain.cached[m] \in Nat) /\ chain.accrued \in [Token -> 0 .. 1]
          /\ chain.collecting => chain.liquidating
          /\ chain.liquidating => chain.open
      BY <2>1 DEF AtRest, Sound
    <2>5. pending = Idle \/ pending.txs # << >>
      BY <2>1 DEF IsPending
    <2>6. TxBuilderTypeOK
      BY <2>3, <2>4, <2>5, Zenon DEF TxBuilderTypeOK
    <2>. QED BY <2>2, <2>6 DEF AccountsAreCounted
  <1>. QED BY <1>1, TxBuilderInvariance, PTL

-----------------------------------------------------------------------------
(* What a swap leaves in the accounts.                                     *)

\* A step that succeeds found what it requires.
LEMMA RequireOk ==
  ASSUME NEW s, "ok" \in DOMAIN s, NEW c, NEW r, Require(s, c, r).ok
  PROVE  s.ok /\ c /\ Require(s, c, r) = r
  <1>1. CASE ~(s.ok /\ c)
    <2>1. Require(s, c, r) = [s EXCEPT !.ok = FALSE]
      BY <1>1, Zenon DEF Require
    <2>2. [s EXCEPT !.ok = FALSE].ok = FALSE
      OBVIOUS
    <2>. QED BY <2>1, <2>2, Zenon
  <1>2. CASE s.ok /\ c
    BY <1>2, Zenon DEF Require
  <1>. QED BY <1>1, <1>2

LEMMA CreditedIs ==
  ASSUME NEW h \in [Account -> Int], NEW a \in Account, NEW n \in Int
  PROVE  /\ Credited(h, a, n) \in [Account -> Int]
         /\ Credited(h, a, n)[a] = h[a] + n
         /\ \A x \in Account : x # a => Credited(h, a, n)[x] = h[x]
  <1>. DEFINE v == h[a] + n
  <1>1. v \in Int /\ Credited(h, a, n) = [h EXCEPT ![a] = v]
    BY DEF Credited
  <1>. HIDE DEF v
  <1>2. [h EXCEPT ![a] = v] \in [Account -> Int] /\ [h EXCEPT ![a] = v][a] = v
        /\ \A x \in Account : x # a => [h EXCEPT ![a] = v][x] = h[x]
    BY <1>1
  <1>. QED BY <1>1, <1>2 DEF v

\* r is h after a was credited m and b was credited n.
IsMoved(h, a, m, b, n, r) ==
    /\ r \in [Account -> Int]
    /\ a # b => r[a] = h[a] + m /\ r[b] = h[b] + n
    /\ a = b => r[a] = h[a] + m + n
    /\ \A x \in Account : x \notin {a, b} => r[x] = h[x]

LEMMA CreditedTwice ==
  ASSUME NEW h \in [Account -> Int], NEW a \in Account, NEW m \in Int,
         NEW b \in Account, NEW n \in Int
  PROVE  IsMoved(h, a, m, b, n, Credited(Credited(h, a, m), b, n))
  <1>. DEFINE g == Credited(h, a, m)
              r == Credited(g, b, n)
  <1>1. /\ g \in [Account -> Int] /\ g[a] = h[a] + m
        /\ \A x \in Account : x # a => g[x] = h[x]
    BY CreditedIs
  <1>2. h[a] \in Int /\ h[b] \in Int
    OBVIOUS
  <1>. HIDE DEF g
  <1>3. /\ r \in [Account -> Int] /\ r[b] = g[b] + n
        /\ \A x \in Account : x # b => r[x] = g[x]
    BY <1>1, CreditedIs
  <1>. HIDE DEF r
  <1>4. IsMoved(h, a, m, b, n, r)
    BY <1>1, <1>2, <1>3 DEF IsMoved
  <1>. QED BY <1>4 DEF r, g

\* The balances h become h3 by borrowing n, h4 by the swap, h5 by depositing
\* what the swap left above h, and h6 by repaying the rest.
Swapped(h, from, to, loan, note, n, take, h3, h4, k, h5, m, h6) ==
    /\ h \in [Account -> Int] /\ {from, to, loan, note} \subseteq Account
    /\ loan \notin {from, to, note} /\ note \notin {from, to}
    /\ n \in Nat /\ take \in Nat /\ h[loan] >= 0 /\ k \in Int /\ m \in Int
    /\ IsMoved(h, loan, n, from, n, h3)
    /\ IsMoved(h3, from, -take, to, take, h4)
    /\ k = h4[to] - h[to] /\ IsMoved(h4, to, -k, note, k, h5)
    /\ m = TokensToRepay(SetSource(h[from]), h5[from], h5[loan])
    /\ IsMoved(h5, from, -m, loan, -m, h6)

\* This leaves the two accounts with what they held.
LEMMA SwapBalances ==
  ASSUME NEW h, NEW from, NEW to, NEW loan, NEW note, NEW n, NEW take,
         NEW h3, NEW h4, NEW k, NEW h5, NEW m, NEW h6,
         Swapped(h, from, to, loan, note, n, take, h3, h4, k, h5, m, h6)
  PROVE  /\ h6 \in [Account -> Int]
         /\ \A x \in Account : x \notin {loan, note} => h6[x] = h[x]
  <1>0. /\ h \in [Account -> Int] /\ {from, to, loan, note} \subseteq Account
        /\ loan \notin {from, to, note} /\ note \notin {from, to}
        /\ n \in Nat /\ take \in Nat /\ h[loan] >= 0 /\ k \in Int /\ m \in Int
        /\ IsMoved(h, loan, n, from, n, h3)
        /\ IsMoved(h3, from, -take, to, take, h4)
        /\ k = h4[to] - h[to] /\ IsMoved(h4, to, -k, note, k, h5)
        /\ m = TokensToRepay(SetSource(h[from]), h5[from], h5[loan])
        /\ IsMoved(h5, from, -m, loan, -m, h6)
    BY Zenon DEF Swapped
  <1>1. /\ h3 \in [Account -> Int] /\ h3[loan] = h[loan] + n /\ h3[from] = h[from] + n
        /\ \A x \in Account : x \notin {loan, from} => h3[x] = h[x]
    BY <1>0 DEF IsMoved
  <1>2. /\ h4 \in [Account -> Int]
        /\ from # to => h4[from] = h3[from] - take /\ h4[to] = h3[to] + take
        /\ from = to => h4[from] = h3[from]
        /\ \A x \in Account : x \notin {from, to} => h4[x] = h3[x]
    <2>. DEFINE r == -take
    <2>1. r \in Int /\ r = 0 - take /\ h3[from] \in Int /\ h3[to] \in Int
      BY <1>0, <1>1
    <2>2. IsMoved(h3, from, r, to, take, h4)
      BY <1>0
    <2>. HIDE DEF r
    <2>3. h4 \in [Account -> Int] /\ \A x \in Account : x \notin {from, to} => h4[x] = h3[x]
      BY <1>0, <2>2 DEF IsMoved
    <2>4. CASE from # to
      BY <1>0, <2>1, <2>2, <2>3, <2>4 DEF IsMoved
    <2>5. CASE from = to
      BY <1>0, <2>1, <2>2, <2>3, <2>5 DEF IsMoved
    <2>. QED BY <1>0, <2>3, <2>4, <2>5
  <1>3. h[from] \in Int /\ h[to] \in Int /\ h[loan] \in Int /\ h4[to] \in Int
    BY <1>0, <1>2
  <1>4. /\ h5 \in [Account -> Int] /\ h5[to] = h4[to] - k
        /\ \A x \in Account : x \notin {to, note} => h5[x] = h4[x]
    BY <1>0, <1>2, <1>3 DEF IsMoved
  <1>5. h5[to] = h[to] /\ h5[loan] = h[loan] + n
    <2>1. h5[to] = h[to]
      BY <1>0, <1>3, <1>4
    <2>2. h5[loan] = h4[loan] /\ h4[loan] = h3[loan]
      BY <1>0, <1>2, <1>4
    <2>. QED BY <1>0, <1>1, <2>1, <2>2
  <1>6. from # to => h5[from] = h[from] + n - take
    BY <1>0, <1>1, <1>2, <1>3, <1>4
  <1>. DEFINE d == h5[from] - h[from]
  <1>7. m = IF h5[loan] < d THEN h5[loan] ELSE d
    BY <1>0 DEF TokensToRepay, TokensToMove, SetSource
  <1>8. m = d
    <2>1. h5[from] \in Int /\ h5[loan] \in Int
      BY <1>0, <1>4
    <2>2. d <= n /\ d \in Int
      <3>1. CASE from # to
        BY <1>0, <1>3, <1>6, <3>1
      <3>2. CASE from = to
        BY <1>0, <1>3, <1>5, <3>2
      <3>. QED BY <1>0, <3>1, <3>2
    <2>. HIDE DEF d
    <2>3. ~(h5[loan] < d)
      BY <1>0, <1>3, <1>5, <2>2
    <2>. QED BY <1>0, <1>7, <2>3
  <1>9. /\ h6 \in [Account -> Int] /\ h6[from] = h5[from] - m
        /\ \A x \in Account : x \notin {from, loan} => h6[x] = h5[x]
    BY <1>0, <1>4 DEF IsMoved
  <1>10. h6[from] = h[from]
    <2>1. h5[from] \in Int
      BY <1>0, <1>4
    <2>. QED BY <1>0, <1>3, <1>8, <1>9, <2>1
  <1>11. h6[to] = h[to]
    BY <1>0, <1>5, <1>9, <1>10
  <1>12. ASSUME NEW x \in Account, x \notin {loan, note, from, to}
         PROVE  h6[x] = h[x]
    BY <1>0, <1>1, <1>2, <1>4, <1>9, <1>12
  <1>. QED BY <1>0, <1>9, <1>10, <1>11, <1>12

-----------------------------------------------------------------------------
(* What the instructions of the pool have done when they succeed.          *)

Whole(s) == Intact(s, Account)

LEMMA WholeFields ==
  ASSUME NEW s, Whole(s)
  PROVE  /\ {"ok", "held", "position", "cached", "fresh"} \subseteq DOMAIN s
         /\ s.held \in [Account -> Int] /\ \A a \in Account : s.held[a] >= Missing
  BY DEF Whole, Intact, CountedBut, Shape, Sound, Balanced

\* r is s after a was credited m and b was credited n.
Paid(s, a, m, b, n, r) ==
    /\ s.ok /\ Exists(s, a) /\ Exists(s, b)
    /\ IsMoved(s.held, a, m, b, n, r.held)
    /\ r.position = s.position /\ r.cached = s.cached

LEMMA CreditPaid ==
  ASSUME NEW s, Whole(s), NEW a \in Account, NEW m \in Int, NEW b \in Account, NEW n \in Int,
         s.ok, Exists(s, a), Exists(s, b)
  PROVE  Paid(s, a, m, b, n, [s EXCEPT !.held = Credited(Credited(@, a, m), b, n)])
  <1>. DEFINE h == Credited(Credited(s.held, a, m), b, n)
              r == [s EXCEPT !.held = h]
  <1>1. {"ok", "held", "position", "cached", "fresh"} \subseteq DOMAIN s /\ s.held \in [Account -> Int]
    BY WholeFields
  <1>2. IsMoved(s.held, a, m, b, n, h)
    BY <1>1, CreditedTwice
  <1>. HIDE DEF h
  <1>3. r.held = h /\ r.position = s.position /\ r.cached = s.cached
    BY <1>1
  <1>. HIDE DEF r
  <1>4. Paid(s, a, m, b, n, r)
    BY <1>2, <1>3, Zenon DEF Paid
  <1>. QED BY <1>4, Zenon DEF r, h

LEMMA TransferPaid ==
  ASSUME NEW s, Whole(s), NEW a \in Account, NEW b \in Account, NEW n \in Int,
         Transfer(s, a, b, n).ok
  PROVE  Paid(s, a, -n, b, n, Transfer(s, a, b, n)) /\ n >= 0 /\ s.held[a] >= n
  <1>. DEFINE c == /\ Exists(s, a) /\ Exists(s, b)
                   /\ n >= 0 /\ s.held[a] >= n
              k == -n
              r == [s EXCEPT !.held = Credited(Credited(@, a, -n), b, n)]
  <1>1. Transfer(s, a, b, n) = Require(s, c, r)
    BY Zenon DEF Transfer
  <1>2. "ok" \in DOMAIN s
    BY WholeFields
  <1>3. s.ok /\ c /\ Require(s, c, r) = r
    <2>. HIDE DEF c, r
    <2>. QED BY <1>1, <1>2, RequireOk
  <1>4. k \in Int
    OBVIOUS
  <1>5. Paid(s, a, k, b, n, [s EXCEPT !.held = Credited(Credited(@, a, k), b, n)])
    <2>. HIDE DEF k
    <2>. QED BY <1>3, <1>4, CreditPaid
  <1>6. Paid(s, a, k, b, n, r)
    BY <1>5, Zenon
  <1>7. Paid(s, a, k, b, n, Transfer(s, a, b, n))
    <2>. HIDE DEF r, k, c
    <2>. QED BY <1>1, <1>3, <1>6, Zenon
  <1>8. n >= 0 /\ s.held[a] >= n
    BY <1>3
  <1>. QED BY <1>7, <1>8, Zenon

LEMMA MovePaid ==
  ASSUME NEW s, Whole(s), NEW ix, ix.op \in {"deposit", "withdraw"},
         ix.source \in Cash, ix.destination \in Cash, IsChange(ix.change),
         InvokePool(s, ix).ok
  PROVE  LET n == TokensToMove(ix.change, s.held[ix.source], s.held[ix.destination])
         IN  /\ n \in Int /\ n >= 0 /\ s.held[ix.source] >= n
             /\ Paid(s, ix.source, -n, ix.destination, n, InvokePool(s, ix))
  <1>. DEFINE a == ix.source
              b == ix.destination
              n == TokensToMove(ix.change, s.held[a], s.held[b])
              c == ix.op = "withdraw" => Exists(s, associated_token_address(Of(ix.token)))
              r == Transfer(s, a, b, n)
  <1>1. InvokePool(s, ix) = Require(s, c, r)
    BY Zenon DEF InvokePool
  <1>2. "ok" \in DOMAIN s /\ a \in Account /\ b \in Account
    BY WholeFields, OwedAndCash
  <1>3. n \in Int
    BY <1>2, WholeFields, MoveType
  <1>4. s.ok /\ Require(s, c, r) = r
    <2>. HIDE DEF c, r
    <2>. QED BY <1>1, <1>2, RequireOk
  <1>5. r.ok
    <2>. HIDE DEF c, r
    <2>. QED BY <1>1, <1>4
  <1>. HIDE DEF n, a, b
  <1>6. Paid(s, a, -n, b, n, r) /\ n >= 0 /\ s.held[a] >= n
    BY <1>2, <1>3, <1>5, TransferPaid
  <1>7. Paid(s, a, -n, b, n, InvokePool(s, ix))
    <2>. HIDE DEF r, c
    <2>. QED BY <1>1, <1>4, <1>6, Zenon
  <1>. QED BY <1>3, <1>6, <1>7 DEF n, a, b

LEMMA BorrowPaid ==
  ASSUME NEW s, Whole(s), NEW ix, ix.op \in {"margin_borrow", "margin_borrow_v2"},
         ix.source \in Owed, ix.destination \in Cash, ix.change.tokens \in Nat,
         InvokePool(s, ix).ok
  PROVE  Paid(s, ix.source, ix.change.tokens, ix.destination, ix.change.tokens, InvokePool(s, ix))
  <1>. DEFINE a == ix.source
              b == ix.destination
              n == ix.change.tokens
              c == Exists(s, a) /\ Exists(s, b)
              r == [s EXCEPT !.held = Credited(Credited(@, a, n), b, n)]
  <1>1. InvokePool(s, ix) = Require(s, c, r)
    BY Zenon DEF InvokePool
  <1>2. "ok" \in DOMAIN s /\ a \in Account /\ b \in Account /\ n \in Int
    BY WholeFields, OwedAndCash
  <1>3. s.ok /\ c /\ Require(s, c, r) = r
    <2>. HIDE DEF c, r
    <2>. QED BY <1>1, <1>2, RequireOk
  <1>. HIDE DEF n, a, b
  <1>4. Paid(s, a, n, b, n, r)
    BY <1>2, <1>3, CreditPaid
  <1>5. Paid(s, a, n, b, n, InvokePool(s, ix))
    <2>. HIDE DEF r, c
    <2>. QED BY <1>1, <1>3, <1>4, Zenon
  <1>. QED BY <1>5 DEF n, a, b

LEMMA RepayPaid ==
  ASSUME NEW s, Whole(s), NEW ix, ix.op \in {"margin_repay", "repay"},
         ix.source \in Cash, ix.destination \in Owed, IsChange(ix.change),
         InvokePool(s, ix).ok
  PROVE  LET n == TokensToRepay(ix.change, s.held[ix.source], s.held[ix.destination])
         IN  /\ n \in Int /\ n >= 0 /\ s.held[ix.source] >= n
             /\ Paid(s, ix.source, -n, ix.destination, -n, InvokePool(s, ix))
  <1>. DEFINE a == ix.source
              b == ix.destination
              n == TokensToRepay(ix.change, s.held[a], s.held[b])
              k == -n
              c == /\ Exists(s, a) /\ Exists(s, b)
                   /\ n \in 0 .. s.held[a] /\ n <= s.held[b]
              r == [s EXCEPT !.held = Credited(Credited(@, a, -n), b, -n)]
  <1>1. InvokePool(s, ix) = Require(s, c, r)
    BY Zenon DEF InvokePool
  <1>2. "ok" \in DOMAIN s /\ a \in Account /\ b \in Account
    BY WholeFields, OwedAndCash
  <1>3. n \in Int
    BY <1>2, WholeFields, MoveType
  <1>4. s.ok /\ c /\ Require(s, c, r) = r
    <2>. HIDE DEF c, r
    <2>. QED BY <1>1, <1>2, RequireOk
  <1>. HIDE DEF n, a, b
  <1>5. k \in Int
    BY <1>3
  <1>6. Paid(s, a, k, b, k, [s EXCEPT !.held = Credited(Credited(@, a, k), b, k)])
    <2>. HIDE DEF k
    <2>. QED BY <1>2, <1>4, <1>5, CreditPaid
  <1>7. Paid(s, a, k, b, k, r)
    BY <1>6, Zenon
  <1>8. Paid(s, a, k, b, k, InvokePool(s, ix))
    <2>. HIDE DEF r, c, k
    <2>. QED BY <1>1, <1>4, <1>7, Zenon
  <1>9. n >= 0 /\ s.held[a] >= n
    BY <1>2, <1>3, <1>4, WholeFields
  <1>. QED BY <1>3, <1>8, <1>9, Zenon DEF n, a, b, k

LEMMA SwapPaid ==
  ASSUME NEW s, Whole(s), NEW ix, ix.op = "swap",
         ix.source \in Cash, ix.destination \in Cash, ix.amount \in Int,
         InvokePool(s, ix).ok
  PROVE  /\ Paid(s, ix.source, -ix.amount, ix.destination, ix.amount, InvokePool(s, ix))
         /\ ix.amount >= 0 /\ s.held[ix.source] >= ix.amount
  <1>1. InvokePool(s, ix) = Transfer(s, ix.source, ix.destination, ix.amount)
    BY Zenon DEF InvokePool
  <1>2. ix.source \in Account /\ ix.destination \in Account
    BY OwedAndCash
  <1>. QED BY <1>1, <1>2, TransferPaid

LEMMA RefreshKeeps ==
  ASSUME NEW s, Whole(s), NEW ix, ix.op = "margin_refresh_position"
  PROVE  LET r == InvokePool(s, ix)
         IN  r.ok = s.ok /\ r.held = s.held /\ r.position = s.position /\ r.cached = s.cached
  <1>. DEFINE f == s.fresh \cup {m \in {Note(ix.token), Loan(ix.token)} : Registered(s, m)}
  <1>1. InvokePool(s, ix) = [s EXCEPT !.fresh = f]
    BY Zenon DEF InvokePool, MarginRefreshPosition
  <1>. HIDE DEF f
  <1>2. {"ok", "held", "position", "cached", "fresh"} \subseteq DOMAIN s
    BY WholeFields
  <1>. QED BY <1>1, <1>2

LEMMA InnerWhole ==
  ASSUME NEW s, Whole(s), NEW ix, IsInner(ix)
  PROVE  Whole(InvokePool(s, ix))
  BY TouchedAccounts, InvokePoolIntact DEF Whole

\* The states between the instructions of a swap.
LEMMA SixInvoked ==
  ASSUME NEW s, NEW inners, Len(inners) = 6
  PROVE  \E g : /\ g[1] = InvokePool(s, inners[1]) /\ g[2] = InvokePool(g[1], inners[2])
                /\ g[3] = InvokePool(g[2], inners[3]) /\ g[4] = InvokePool(g[3], inners[4])
                /\ g[5] = InvokePool(g[4], inners[5])
                /\ InvokeAll(s, inners) = InvokePool(g[5], inners[6])
  <1>1. Len(inners) \in Nat
    OBVIOUS
  <1>2. PICK g : /\ g = [i \in 0 .. Len(inners) |-> IF i = 0 THEN s ELSE InvokePool(g[i - 1], inners[i])]
                 /\ InvokeAll(s, inners) = g[Len(inners)]
    BY <1>1, InvokeAllIsDefined
  <1>3. /\ g = [i \in 0 .. 6 |-> IF i = 0 THEN s ELSE InvokePool(g[i - 1], inners[i])]
        /\ InvokeAll(s, inners) = g[6]
    BY <1>2
  <1>4. /\ g[0] = s /\ g[1] = InvokePool(g[0], inners[1]) /\ g[2] = InvokePool(g[1], inners[2])
        /\ g[3] = InvokePool(g[2], inners[3]) /\ g[4] = InvokePool(g[3], inners[4])
        /\ g[5] = InvokePool(g[4], inners[5]) /\ g[6] = InvokePool(g[5], inners[6])
    BY <1>3
  <1>. QED BY <1>3, <1>4, Zenon

\* r is what the instructions of a swap of t for u leave of s, when they read
\* that the associated accounts held v and w.
SwapInvoked(s, t, u, n, take, note, v, w, r) ==
    /\ t \in Token /\ u \in Token /\ n \in Nat /\ take \in Nat
    /\ note \in {<<Note(u), "ata">>, <<Note(u), "pda">>}
    /\ w = TokenBalance(s, associated_token_address(Of(u)))
    /\ v = TokenBalance(s, associated_token_address(Of(t)))
    /\ r = InvokeAll(s, <<margin_refresh_position(t), margin_refresh_position(u),
                          margin_borrow_v2(t, associated_token_address(Of(t)), n),
                          swap(t, u, take),
                          deposit(u, "margin", associated_token_address(Of(u)), note, SetSource(w)),
                          repay(t, "margin", associated_token_address(Of(t)),
                                derive_loan_account(t), SetSource(v))>>)
    /\ r.ok

\* A swap that succeeds moves what it borrowed, and nothing else: debts and
\* the notes of the token swapped to are all that changes.
LEMMA SwapLeaves ==
  ASSUME NEW s, Whole(s), NEW t, NEW u, NEW n, NEW take, NEW note, NEW v, NEW w, NEW r,
         SwapInvoked(s, t, u, n, take, note, v, w, r)
  PROVE  /\ r.held \in [Account -> Int]
         /\ \A x \in Account : x \notin {<<Loan(t), "pda">>, note} => r.held[x] = s.held[x]
  <1>. DEFINE from == associated_token_address(Of(t))
              to == associated_token_address(Of(u))
              loan == derive_loan_account(t)
              d1 == margin_refresh_position(t)
              d2 == margin_refresh_position(u)
              d3 == margin_borrow_v2(t, from, n)
              d4 == swap(t, u, take)
              d5 == deposit(u, "margin", to, note, SetSource(w))
              d6 == repay(t, "margin", from, loan, SetSource(v))
  <1>. USE DEF SwapInvoked
  <1>1. /\ from \in Cash /\ to \in Cash /\ note \in Cash /\ loan \in Owed
        /\ from \in Account /\ to \in Account /\ note \in Account /\ loan \in Account
        /\ loan \notin {from, to, note} /\ note \notin {from, to} /\ loan = <<Loan(t), "pda">>
    <2>1. from \in Cash /\ to \in Cash /\ note \in Cash
      BY AccountsOf DEF associated_token_address
    <2>2. loan \in Owed
      BY DEF Owed
    <2>3. note \notin {from, to} /\ loan = <<Loan(t), "pda">>
      BY DEF associated_token_address, Of, Note, derive_loan_account
    <2>. QED BY <2>1, <2>2, <2>3, OwedAndCash
  <1>2. /\ d1.op = "margin_refresh_position" /\ d2.op = "margin_refresh_position"
        /\ d3.op = "margin_borrow_v2" /\ d3.source = loan /\ d3.destination = from
        /\ d3.change.tokens = n
        /\ d4.op = "swap" /\ d4.source = from /\ d4.destination = to /\ d4.amount = take
        /\ d5.op = "deposit" /\ d5.source = to /\ d5.destination = note /\ d5.change = SetSource(w)
        /\ d6.op = "repay" /\ d6.source = from /\ d6.destination = loan /\ d6.change = SetSource(v)
    BY DEF margin_refresh_position, margin_borrow_v2, swap, deposit, repay, Shift
  <1>3. v \in Int /\ w \in Int
    <2>1. s.held[from] \in Int /\ s.held[to] \in Int
      <3>. HIDE DEF from, to
      <3>. QED BY <1>1, WholeFields
    <2>. QED BY <2>1 DEF TokenBalance
  <1>4. IsChange(SetSource(w)) /\ IsChange(SetSource(v))
    BY <1>3 DEF IsChange, SetSource
  <1>5. IsInner(d1) /\ IsInner(d2) /\ IsInner(d3) /\ IsInner(d4) /\ IsInner(d5)
    <2>1. IsInner(d1) /\ IsInner(d2) /\ IsInner(d4)
      BY PoolInners, SwapInner
    <2>. HIDE DEF from, to
    <2>2. IsInner(d3)
      BY <1>1, BorrowInners
    <2>3. IsInner(d5)
      BY <1>1, <1>4, CashInners
    <2>. QED BY <2>1, <2>2, <2>3
  <1>6. r = InvokeAll(s, <<d1, d2, d3, d4, d5, d6>>)
    BY Zenon
  <1>. HIDE DEF from, to, loan, d1, d2, d3, d4, d5, d6
  <1>25. \E g : /\ g[1] = InvokePool(s, d1) /\ g[2] = InvokePool(g[1], d2)
                /\ g[3] = InvokePool(g[2], d3) /\ g[4] = InvokePool(g[3], d4)
                /\ g[5] = InvokePool(g[4], d5) /\ r = InvokePool(g[5], d6)
    <2>. DEFINE inners == <<d1, d2, d3, d4, d5, d6>>
    <2>1. /\ Len(inners) = 6 /\ inners[1] = d1 /\ inners[2] = d2 /\ inners[3] = d3
          /\ inners[4] = d4 /\ inners[5] = d5 /\ inners[6] = d6
      OBVIOUS
    <2>2. r = InvokeAll(s, inners)
      BY <1>6
    <2>. HIDE DEF inners
    <2>3. PICK g : /\ g[1] = InvokePool(s, inners[1]) /\ g[2] = InvokePool(g[1], inners[2])
                   /\ g[3] = InvokePool(g[2], inners[3]) /\ g[4] = InvokePool(g[3], inners[4])
                   /\ g[5] = InvokePool(g[4], inners[5])
                   /\ InvokeAll(s, inners) = InvokePool(g[5], inners[6])
      BY <2>1, SixInvoked
    <2>. QED BY <2>1, <2>2, <2>3, Zenon
  <1>7. PICK x1, x2, x3, x4, x5 :
            /\ x1 = InvokePool(s, d1) /\ x2 = InvokePool(x1, d2) /\ x3 = InvokePool(x2, d3)
            /\ x4 = InvokePool(x3, d4) /\ x5 = InvokePool(x4, d5) /\ r = InvokePool(x5, d6)
    <2>1. PICK g : /\ g[1] = InvokePool(s, d1) /\ g[2] = InvokePool(g[1], d2)
                   /\ g[3] = InvokePool(g[2], d3) /\ g[4] = InvokePool(g[3], d4)
                   /\ g[5] = InvokePool(g[4], d5) /\ r = InvokePool(g[5], d6)
      BY <1>25, Zenon
    <2>. DEFINE y1 == g[1]
                y2 == g[2]
                y3 == g[3]
                y4 == g[4]
                y5 == g[5]
    <2>2. /\ y1 = InvokePool(s, d1) /\ y2 = InvokePool(y1, d2) /\ y3 = InvokePool(y2, d3)
          /\ y4 = InvokePool(y3, d4) /\ y5 = InvokePool(y4, d5) /\ r = InvokePool(y5, d6)
      BY <2>1
    <2>. HIDE DEF y1, y2, y3, y4, y5
    <2>. QED BY <2>2
  <1>8. r = InvokePool(x5, d6)
    BY <1>7
  <1>9. Whole(x1) /\ Whole(x2) /\ Whole(x3) /\ Whole(x4) /\ Whole(x5)
    BY <1>5, <1>7, InnerWhole, Zenon
  <1>. DEFINE m == TokensToRepay(SetSource(v), x5.held[from], x5.held[loan])
              k == TokensToMove(SetSource(w), x4.held[to], x4.held[note])
  <1>10. /\ m \in Int /\ Paid(x5, from, -m, loan, -m, r)
    <2>. HIDE DEF m
    <2>. QED BY <1>1, <1>2, <1>4, <1>8, <1>9, RepayPaid DEF m
  <1>11. x5.ok
    BY <1>10 DEF Paid
  <1>12. k \in Int /\ Paid(x4, to, -k, note, k, x5)
    <2>. HIDE DEF k
    <2>. QED BY <1>1, <1>2, <1>4, <1>7, <1>9, <1>11, MovePaid DEF k
  <1>13. x4.ok
    BY <1>12 DEF Paid
  <1>14. Paid(x3, from, -take, to, take, x4)
    BY <1>1, <1>2, <1>7, <1>9, <1>13, SwapPaid
  <1>15. x3.ok
    BY <1>14 DEF Paid
  <1>16. Paid(x2, loan, n, from, n, x3)
    BY <1>1, <1>2, <1>7, <1>9, <1>15, BorrowPaid
  <1>17. x2.held = s.held
    <2>1. x1.held = s.held
      BY <1>2, <1>7, RefreshKeeps
    <2>2. x2.held = x1.held
      BY <1>2, <1>7, <1>9, RefreshKeeps
    <2>. QED BY <2>1, <2>2
  <1>18. s.held[from] = v /\ s.held[loan] >= 0
    <2>1. s.held[from] # Missing /\ s.held[loan] # Missing
      BY <1>16, <1>17 DEF Paid, Exists
    <2>2. s.held[loan] >= 0
      BY <1>1, <2>1, WholeFields DEF Missing
    <2>3. v = TokenBalance(s, from)
      BY DEF from
    <2>. QED BY <2>1, <2>2, <2>3 DEF TokenBalance, Exists
  <1>19. s.held[to] = w
    <2>1. x3.held[to] # Missing
      BY <1>14 DEF Paid, Exists
    <2>2. CASE from = to
      BY <1>18, <2>2 DEF to, from
    <2>3. CASE from # to
      <3>1. x3.held[to] = s.held[to]
        BY <1>1, <1>16, <1>17, <2>3 DEF Paid, IsMoved
      <3>2. w = TokenBalance(s, to)
        BY DEF to
      <3>. QED BY <2>1, <3>1, <3>2 DEF TokenBalance, Exists
    <2>. QED BY <2>2, <2>3
  <1>20. k = x4.held[to] - s.held[to]
    BY <1>19 DEF TokensToMove, SetSource
  <1>21. m = TokensToRepay(SetSource(s.held[from]), x5.held[from], x5.held[loan])
    BY <1>18, Zenon
  <1>. HIDE DEF k, m
  <1>22. /\ IsMoved(s.held, loan, n, from, n, x3.held)
         /\ IsMoved(x3.held, from, -take, to, take, x4.held)
         /\ IsMoved(x4.held, to, -k, note, k, x5.held)
         /\ IsMoved(x5.held, from, -m, loan, -m, r.held)
    BY <1>10, <1>12, <1>14, <1>16, <1>17, Zenon DEF Paid
  <1>23. s.held \in [Account -> Int]
    BY WholeFields
  <1>24. /\ r.held \in [Account -> Int]
         /\ \A x \in Account : x \notin {loan, note} => r.held[x] = s.held[x]
    <2>. DEFINE h == s.held
                h3 == x3.held
                h4 == x4.held
                h5 == x5.held
                h6 == r.held
    <2>1. /\ IsMoved(h, loan, n, from, n, h3) /\ IsMoved(h3, from, -take, to, take, h4)
          /\ IsMoved(h4, to, -k, note, k, h5) /\ IsMoved(h5, from, -m, loan, -m, h6)
          /\ h \in [Account -> Int] /\ h[loan] >= 0 /\ k = h4[to] - h[to]
          /\ m = TokensToRepay(SetSource(h[from]), h5[from], h5[loan])
      BY <1>18, <1>20, <1>21, <1>22, <1>23
    <2>. HIDE DEF h, h3, h4, h5, h6
    <2>2. h6 \in [Account -> Int] /\ \A x \in Account : x \notin {loan, note} => h6[x] = h[x]
      <3>1. Swapped(h, from, to, loan, note, n, take, h3, h4, k, h5, m, h6)
        BY <1>1, <1>10, <1>12, <2>1, Zenon DEF Swapped
      <3>. QED BY <3>1, SwapBalances, SMT
    <2>. QED BY <2>2 DEF h, h6
  <1>. QED BY <1>1, <1>24

-----------------------------------------------------------------------------
(* What comes before the swap.                                             *)

\* The accounts hold what they held; one that is created holds nothing.
SameBalances(s, r) == \A a \in Account : TokenBalance(r, a) = TokenBalance(s, a)

\* Instructions that create accounts and register them.
Prepares(ix) ==
    \/ ix.op = "create_ata" /\ ix.account \in Account /\ ix.account[2] # "pda"
    \/ ix.op = "register_position" /\ ix.mint \in Mint /\ ix.account = <<ix.mint, "pda">>
    \/ ix.op = "adapter_invoke" /\ \E t \in Token : ix.inners = <<register_loan(t)>>

LEMMA PreparesIsInstruction ==
  ASSUME NEW ix, Prepares(ix)
  PROVE  IsInstruction(ix)
  <1>1. ASSUME NEW t \in Token
        PROVE  IsInvocation(<<register_loan(t)>>)
    <2>1. IsAimed({}, <<register_loan(t)>>)
      BY PoolParts, InvocationOf
    <2>. QED BY <2>1 DEF IsAimed
  <1>2. CASE ix.op = "adapter_invoke" /\ \E t \in Token : ix.inners = <<register_loan(t)>>
    BY <1>1, <1>2 DEF IsInstruction
  <1>3. CASE ~(ix.op = "adapter_invoke" /\ \E t \in Token : ix.inners = <<register_loan(t)>>)
    BY <1>3, Zenon DEF IsInstruction, Prepares
  <1>. QED BY <1>2, <1>3

\* An account that was missing is created.
LEMMA CreatedBalances ==
  ASSUME NEW s, Whole(s), NEW a \in Account, s.held[a] \in {Missing, 0},
         NEW r, \A x \in Account : x # a => r.held[x] = s.held[x], r.held[a] = 0
  PROVE  SameBalances(s, r)
  <1>. SUFFICES ASSUME NEW x \in Account
                PROVE  TokenBalance(r, x) = TokenBalance(s, x)
    BY DEF SameBalances
  <1>1. CASE x = a
    BY <1>1 DEF TokenBalance, Exists, Missing
  <1>2. CASE x # a
    BY <1>2 DEF TokenBalance, Exists
  <1>. QED BY <1>1, <1>2

LEMMA PlacedBalances ==
  ASSUME NEW s, Whole(s), NEW m, NEW a \in Account, ~Exists(s, a)
  PROVE  SameBalances(s, [Place(s, m, a) EXCEPT !.held[a] = 0])
  <1>. DEFINE p == Place(s, m, a)
              h == [s.held EXCEPT ![a] = 0]
              r == [p EXCEPT !.held[a] = 0]
  <1>1. "held" \in DOMAIN s /\ s.held \in [Account -> Int]
    BY WholeFields
  <1>2. "held" \in DOMAIN p /\ p.held = s.held
    BY <1>1 DEF Place
  <1>. HIDE DEF p
  <1>3. r.held = h
    BY <1>2
  <1>4. h[a] = 0 /\ \A x \in Account : x # a => h[x] = s.held[x]
    BY <1>1
  <1>5. s.held[a] \in {Missing, 0}
    BY DEF Exists
  <1>. HIDE DEF r, h
  <1>6. SameBalances(s, r)
    <2>1. r.held[a] = 0 /\ \A x \in Account : x # a => r.held[x] = s.held[x]
      BY <1>3, <1>4
    <2>. QED BY <1>5, <2>1, CreatedBalances
  <1>. QED BY <1>6 DEF r, p

LEMMA RequireBalances ==
  ASSUME NEW s, Whole(s), NEW c, NEW r, c => SameBalances(s, r)
  PROVE  SameBalances(s, Require(s, c, r))
  <1>. DEFINE f == [s EXCEPT !.ok = FALSE]
  <1>1. f.held = s.held
    BY WholeFields
  <1>. HIDE DEF f
  <1>2. SameBalances(s, f)
    BY <1>1 DEF SameBalances, TokenBalance, Exists
  <1>3. Require(s, c, r) = f \/ (c /\ Require(s, c, r) = r)
    BY Zenon DEF Require, f
  <1>. QED BY <1>2, <1>3, Zenon

LEMMA InvokeOneIs ==
  ASSUME NEW s, NEW ix
  PROVE  InvokeAll(s, <<ix>>) = InvokePool(s, ix)
  <1>. DEFINE inners == <<ix>>
  <1>1. Len(inners) = 1 /\ inners[1] = ix
    OBVIOUS
  <1>. HIDE DEF inners
  <1>2. Len(inners) \in Nat
    BY <1>1
  <1>3. PICK g : /\ g = [i \in 0 .. Len(inners) |-> IF i = 0 THEN s ELSE InvokePool(g[i - 1], inners[i])]
                 /\ InvokeAll(s, inners) = g[Len(inners)]
    BY <1>2, InvokeAllIsDefined
  <1>4. /\ g = [i \in 0 .. 1 |-> IF i = 0 THEN s ELSE InvokePool(g[i - 1], inners[i])]
        /\ InvokeAll(s, inners) = g[1]
    BY <1>1, <1>3
  <1>5. g[0] = s /\ g[1] = InvokePool(g[0], inners[1])
    BY <1>4
  <1>. QED BY <1>1, <1>4, <1>5, Zenon DEF inners

LEMMA InvokeManyHeld ==
  ASSUME NEW s, NEW inners
  PROVE  /\ InvokeMany(s, inners).held = InvokeAll(s, inners).held
         /\ InvokeMany(s, inners).ok = InvokeAll(s, inners).ok
         /\ InvokeMany(s, inners).position = InvokeAll(s, inners).position
  <1>. DEFINE q == InvokeAll(s, inners)
              used == UNION {Touched(inners[i]) : i \in DOMAIN inners}
  <1>1. InvokeMany(s, inners) = SetBalances(q, used)
    BY Zenon DEF InvokeMany
  <1>. HIDE DEF q, used
  <1>2. /\ SetBalances(q, used).held = q.held /\ SetBalances(q, used).ok = q.ok
        /\ SetBalances(q, used).position = q.position
    BY DEF SetBalances
  <1>. QED BY <1>1, <1>2 DEF q

LEMMA PreparedBalances ==
  ASSUME NEW s, InOrder(s), NEW ix, Prepares(ix), NEW fee
  PROVE  SameBalances(s, Execute(s, ix, fee))
  <1>0. Whole(s)
    BY InOrderIsIntact DEF Whole
  <1>1. CASE ix.op = "create_ata" /\ ix.account \in Account
    <2>. DEFINE a == ix.account
                v == IF s.held[a] = Missing THEN 0 ELSE s.held[a]
                h == [s.held EXCEPT ![a] = v]
                r == [s EXCEPT !.held[a] = IF @ = Missing THEN 0 ELSE @]
    <2>1. Execute(s, ix, fee) = r
      BY <1>1, Zenon DEF Execute
    <2>2. "held" \in DOMAIN s /\ s.held \in [Account -> Int] /\ a \in Account
      BY <1>0, <1>1, WholeFields
    <2>3. r.held = h
      BY <2>2
    <2>. HIDE DEF r, a
    <2>4. h[a] = v /\ \A x \in Account : x # a => h[x] = s.held[x]
      BY <2>2
    <2>. HIDE DEF h
    <2>5. ASSUME NEW x \in Account
          PROVE  TokenBalance(r, x) = TokenBalance(s, x)
      <3>1. CASE x = a
        BY <2>3, <2>4, <3>1 DEF TokenBalance, Exists, Missing
      <3>2. CASE x # a
        BY <2>3, <2>4, <3>2 DEF TokenBalance, Exists
      <3>. QED BY <3>1, <3>2
    <2>. QED BY <2>1, <2>5 DEF SameBalances
  <1>2. CASE ix.op = "register_position" /\ ix.mint \in Mint /\ ix.account = <<ix.mint, "pda">>
    <2>. DEFINE r == [Place(s, ix.mint, ix.account) EXCEPT !.held[ix.account] = 0]
                c == /\ VerifyAuthority(s, ix.authority) /\ HasConfig(ix.mint)
                     /\ ~Exists(s, ix.account) /\ ~Registered(s, ix.mint)
    <2>1. Execute(s, ix, fee) = Require(s, c, r)
      BY <1>2, Zenon DEF Execute
    <2>2. ix.account \in Account
      BY <1>2, MintAccounts
    <2>3. c => SameBalances(s, r)
      BY <1>0, <2>2, PlacedBalances
    <2>. HIDE DEF c, r
    <2>. QED BY <1>0, <2>1, <2>3, RequireBalances
  <1>3. ASSUME ix.op = "adapter_invoke", NEW t \in Token, ix.inners = <<register_loan(t)>>
        PROVE  SameBalances(s, Execute(s, ix, fee))
    <2>. DEFINE d == register_loan(t)
                a == derive_loan_account(t)
                m == Loan(t)
                c == s.open /\ ~s.liquidating
                k == ~Exists(s, a) /\ ~Registered(s, m)
                r == [Place(s, m, a) EXCEPT !.held[a] = 0]
                q == InvokeMany(s, <<d>>)
    <2>1. Execute(s, ix, fee) = Require(s, c, q)
      BY <1>3, Zenon DEF Execute
    <2>2. d.op = "register_loan" /\ d.token = t /\ d.account = a
      BY DEF register_loan
    <2>3. a \in Account
      BY AccountsOf DEF derive_loan_account
    <2>. HIDE DEF d, a
    <2>4. InvokePool(s, d) = Require(s, k, r)
      BY <2>2, Zenon DEF InvokePool, RegisterLoan
    <2>5. k => SameBalances(s, r)
      BY <1>0, <2>3, PlacedBalances
    <2>6. q.held = InvokePool(s, d).held
      BY InvokeManyHeld, InvokeOneIs
    <2>. HIDE DEF k, r, q, m
    <2>7. SameBalances(s, InvokePool(s, d))
      BY <1>0, <2>4, <2>5, RequireBalances
    <2>8. SameBalances(s, q)
      BY <2>6, <2>7 DEF SameBalances, TokenBalance, Exists
    <2>. HIDE DEF c
    <2>. QED BY <1>0, <2>1, <2>8, RequireBalances
  <1>. QED BY <1>1, <1>2, <1>3, Zenon DEF Prepares

\* The states between the instructions of a transaction.
RunsBy(g, s, tx, fee) ==
    /\ g[0] = s /\ Run(s, tx, fee) = g[Len(tx)]
    /\ \A i \in 1 .. Len(tx) : g[i] = Execute(g[i - 1], tx[i], fee)

LEMMA RunExists ==
  ASSUME NEW s, NEW tx, NEW fee, Len(tx) \in Nat
  PROVE  \E g : RunsBy(g, s, tx, fee)
  BY RunIsDefined DEF RunsBy

\* A transaction that prepares and then does one thing.
IsPrepared(tx) == Len(tx) \in Nat /\ Len(tx) # 0 /\ \A i \in 1 .. Len(tx) - 1 : Prepares(tx[i])

LEMMA PreparedRun ==
  ASSUME NEW s, InOrder(s), NEW tx, IsPrepared(tx), NEW fee \in Fees
  PROVE  \E p : /\ InOrder(p) /\ SameBalances(s, p)
                /\ Run(s, tx, fee) = Execute(p, tx[Len(tx)], fee)
  <1>0. \E g : RunsBy(g, s, tx, fee)
    <2>1. Len(tx) \in Nat
      BY DEF IsPrepared
    <2>. QED BY <2>1, RunExists
  <1>. DEFINE N == Len(tx)
  <1>1. PICK g : /\ g[0] = s /\ Run(s, tx, fee) = g[N]
                 /\ \A i \in 1 .. N : g[i] = Execute(g[i - 1], tx[i], fee)
    BY <1>0, Zenon DEF RunsBy
  <1>2. N \in Nat /\ N # 0 /\ \A i \in 1 .. N - 1 : Prepares(tx[i])
    BY DEF IsPrepared
  <1>. HIDE DEF N
  <1>. DEFINE Good(p) == InOrder(p) /\ SameBalances(s, p)
              S == {n \in Nat : n <= N - 1 => Good(g[n])}
  <1>3. 0 \in S
    BY <1>1 DEF SameBalances
  <1>4. ASSUME NEW n \in Nat, n \in S
        PROVE  n + 1 \in S
    <2>. SUFFICES ASSUME n + 1 <= N - 1
                  PROVE  Good(g[n + 1])
      OBVIOUS
    <2>1. n + 1 \in 1 .. N /\ n + 1 \in 1 .. N - 1 /\ Good(g[n])
      BY <1>4, <1>2
    <2>2. g[n + 1] = Execute(g[n], tx[n + 1], fee) /\ Prepares(tx[n + 1])
      BY <1>1, <1>2, <2>1
    <2>3. InOrder(g[n + 1]) /\ SameBalances(g[n], g[n + 1])
      BY <2>1, <2>2, PreparesIsInstruction, ExecuteInOrder, PreparedBalances
    <2>. QED BY <2>1, <2>3 DEF SameBalances
  <1>5. Nat \subseteq S
    <2>. HIDE DEF S
    <2>. QED BY <1>3, <1>4, SetInduction
  <1>6. Good(g[N - 1])
    BY <1>5, <1>2
  <1>7. g[N] = Execute(g[N - 1], tx[N], fee)
    BY <1>1, <1>2
  <1>. QED BY <1>1, <1>6, <1>7, Zenon DEF N

\* The instructions of the invocation that swaps.
SwapInners(c, o) ==
    LET from == associated_token_address(Of(o.token))
        to == associated_token_address(Of(o.to))
    IN  <<margin_refresh_position(o.token), margin_refresh_position(o.to),
          margin_borrow_v2(o.token, from, o.n), swap(o.token, o.to, o.take),
          deposit(o.to, "margin", to, PositionAddress(c, Note(o.to)), SetSource(TokenBalance(c, to))),
          repay(o.token, "margin", from, derive_loan_account(o.token),
                SetSource(TokenBalance(c, from)))>>

LEMMA MarginSwapIsPrepared ==
  ASSUME NEW c, NEW o, o.who = "owner", o.token \in Token, o.to \in Token
  PROVE  /\ IsPrepared(margin_swap(c, o))
         /\ margin_swap(c, o)[Len(margin_swap(c, o))] = adapter_invoke(SwapInners(c, o))
  <1>. DEFINE i1 == create_ata(Of(o.token), "ata")
              i2 == create_ata(Of(o.to), "ata")
              i3 == adapter_invoke(<<register_loan(o.token)>>)
              i4 == register_position(o.who, Note(o.to))
              last == adapter_invoke(SwapInners(c, o))
              X == {i1, i2, i3, i4}
              s2 == get_or_create_pool_loan_position(c, o.who, o.token)
              s3 == CreatePosition(c, o.who, Note(o.to))
              pre == <<i1, i2>> \o s2 \o s3
              tx == pre \o <<last>>
  <1>1. Prepares(i1) /\ Prepares(i2)
    <2>1. <<Of(o.token), "ata">> \in Account /\ <<Of(o.to), "ata">> \in Account
      BY AccountsOf
    <2>. QED BY <2>1 DEF Prepares, create_ata
  <1>2. Prepares(i3)
    BY DEF Prepares, adapter_invoke
  <1>3. Prepares(i4)
    <2>1. Note(o.to) \in Mint
      BY AccountsOf
    <2>. QED BY <2>1 DEF Prepares, register_position, derive_position_token_account
  <1>4. margin_swap(c, o) = tx
    <2>1. adapter_invoke_ix(o.who, SwapInners(c, o), NoMint) = last
      BY Zenon DEF adapter_invoke_ix
    <2>. QED BY <2>1, Zenon DEF margin_swap, SwapInners
  <1>5. s2 \in Seq(X)
    <2>1. adapter_invoke_ix(o.who, <<register_loan(o.token)>>, NoMint) = i3
      BY Zenon DEF adapter_invoke_ix
    <2>2. s2 = << >> \/ s2 = <<i3>>
      BY <2>1, Zenon DEF get_or_create_pool_loan_position
    <2>3. i3 \in X
      OBVIOUS
    <2>. HIDE DEF X, s2, i3
    <2>4. << >> \in Seq(X) /\ <<i3>> \in Seq(X)
      BY <2>3
    <2>. QED BY <2>2, <2>4, Zenon
  <1>6. s3 \in Seq(X)
    <2>1. s3 = << >> \/ s3 = <<i4>>
      BY Zenon DEF CreatePosition
    <2>2. i4 \in X
      OBVIOUS
    <2>. HIDE DEF X, s3, i4
    <2>3. << >> \in Seq(X) /\ <<i4>> \in Seq(X)
      BY <2>2
    <2>. QED BY <2>1, <2>3, Zenon
  <1>7. <<i1, i2>> \in Seq(X)
    <2>. HIDE DEF i1, i2, i3, i4
    <2>. QED OBVIOUS
  <1>8. \A x \in X : Prepares(x)
    <2>. HIDE DEF i1, i2, i3, i4
    <2>. QED BY <1>1, <1>2, <1>3
  <1>. HIDE DEF X, s2, s3, i1, i2, i3, i4, last
  <1>9. pre \in Seq(X)
    BY <1>5, <1>6, <1>7
  <1>. HIDE DEF pre
  <1>10. Len(pre) \in Nat /\ \A i \in 1 .. Len(pre) : pre[i] \in X
    BY <1>9
  <1>11. /\ Len(tx) = Len(pre) + 1 /\ tx[Len(pre) + 1] = last
         /\ \A i \in 1 .. Len(pre) : tx[i] = pre[i]
    BY <1>9
  <1>. HIDE DEF tx
  <1>12. IsPrepared(tx)
    <2>1. Len(tx) \in Nat /\ Len(tx) # 0 /\ Len(tx) - 1 = Len(pre)
      BY <1>10, <1>11
    <2>2. \A i \in 1 .. Len(pre) : Prepares(tx[i])
      BY <1>8, <1>10, <1>11
    <2>. QED BY <2>1, <2>2 DEF IsPrepared
  <1>. QED BY <1>4, <1>11, <1>12, Zenon DEF last

\* The swap is an invocation of the owner's, or panicked.
LEMMA MarginSwapOwner ==
  ASSUME NEW c, NEW o, o.who \in Who, o.token \in Token, o.to \in Token,
         IsExecutable(margin_swap(c, o))
  PROVE  o.who = "owner"
  <1>. SUFFICES ASSUME o.who # "owner"
                PROVE  FALSE
    OBVIOUS
  <1>1. o.who = "liquidator"
    BY DEF Who
  <1>. DEFINE s1 == <<create_ata(Of(o.token), "ata"), create_ata(Of(o.to), "ata")>>
              s2 == get_or_create_pool_loan_position(c, o.who, o.token)
              s3 == CreatePosition(c, o.who, Note(o.to))
              pre == s1 \o s2 \o s3
              tx == pre \o <<Panic>>
              P == {}
  <1>2. margin_swap(c, o) = tx
    <2>1. adapter_invoke_ix(o.who, SwapInners(c, o), NoMint) = Panic
      BY <1>1 DEF adapter_invoke_ix
    <2>. QED BY <2>1, Zenon DEF margin_swap, SwapInners
  <1>. HIDE DEF P
  <1>3. IsTransaction(P, pre)
    <2>1. IsTransaction(P, s1) /\ IsTransaction(P, s2) /\ IsTransaction(P, s3)
      <3>1. IsStep(P, create_ata(Of(o.token), "ata")) /\ IsStep(P, create_ata(Of(o.to), "ata"))
        BY TokenSteps
      <3>2. IsTransaction(P, s2) /\ IsTransaction(P, s3)
        BY AccountsOf, CreateLoanSteps, CreatePositionSteps
      <3>. QED BY <3>1, <3>2, TransactionOfTwo
    <2>. HIDE DEF s1, s2, s3
    <2>2. IsTransaction(P, s1 \o s2)
      BY <2>1, TransactionConcat
    <2>. QED BY <2>1, <2>2, TransactionConcat
  <1>. DEFINE X == ToSet(pre)
  <1>4. pre \in Seq(X)
    BY <1>3, Zenon DEF IsTransaction
  <1>. HIDE DEF X, pre
  <1>5. Len(pre) \in Nat /\ Len(tx) = Len(pre) + 1 /\ tx[Len(pre) + 1] = Panic
    BY <1>4
  <1>. HIDE DEF tx
  <1>6. IsInstruction(Panic)
    <2>1. Len(pre) + 1 \in 1 .. Len(tx)
      BY <1>5
    <2>. QED BY <1>2, <1>5, <2>1, Zenon DEF IsExecutable
  <1>7. Panic.op = "panic"
    BY DEF Panic
  <1>. QED BY <1>6, <1>7 DEF IsInstruction

\* A swap built from the chain as it is leaves the associated accounts alone.
LEMMA MarginSwapKeeps ==
  ASSUME NEW c, InOrder(c), NEW o, o.who \in Who, o.token \in Token, o.to \in Token,
         o.n \in Nat, o.take \in Nat, IsExecutable(margin_swap(c, o)), NEW fee \in Fees,
         Run(c, margin_swap(c, o), fee).ok
  PROVE  \A t \in Token : TokenBalance(Run(c, margin_swap(c, o), fee), <<Of(t), "ata">>)
                            = TokenBalance(c, <<Of(t), "ata">>)
  <1>. DEFINE tx == margin_swap(c, o)
              inners == SwapInners(c, o)
              ix == adapter_invoke(inners)
              r == Run(c, tx, fee)
              from == associated_token_address(Of(o.token))
              to == associated_token_address(Of(o.to))
              note == PositionAddress(c, Note(o.to))
  <1>1. o.who = "owner"
    BY MarginSwapOwner
  <1>2. IsPrepared(tx) /\ tx[Len(tx)] = ix
    BY <1>1, MarginSwapIsPrepared
  <1>3. r.ok
    OBVIOUS
  <1>4. ix.op = "adapter_invoke" /\ ix.inners = inners
    BY DEF adapter_invoke
  <1>5. from \in Account /\ to \in Account /\ from = <<Of(o.token), "ata">> /\ to = <<Of(o.to), "ata">>
    BY AccountsOf DEF associated_token_address
  <1>6. note \in {<<Note(o.to), "ata">>, <<Note(o.to), "pda">>}
    <2>1. c.position[Note(o.to)] \in {NoAddress, <<Note(o.to), "ata">>, <<Note(o.to), "pda">>}
      BY AccountsOf DEF InOrder, Intact, CountedBut
    <2>. QED BY <2>1 DEF PositionAddress, Registered, derive_position_token_account
  <1>. HIDE DEF tx, inners, ix, r
  <1>7. PICK p : InOrder(p) /\ SameBalances(c, p) /\ r = Execute(p, tx[Len(tx)], fee)
    BY <1>2, PreparedRun DEF r
  <1>. DEFINE k == p.open /\ ~p.liquidating
              q == InvokeMany(p, inners)
              a == InvokeAll(p, inners)
  <1>8. r = Require(p, k, q)
    <2>1. r = Execute(p, ix, fee)
      BY <1>2, <1>7
    <2>. QED BY <1>4, <2>1, Zenon DEF Execute
  <1>9. Whole(p)
    BY <1>7, InOrderIsIntact DEF Whole
  <1>10. r = q
    <2>1. "ok" \in DOMAIN p
      BY <1>9, WholeFields
    <2>. HIDE DEF k, q
    <2>. QED BY <1>3, <1>8, <2>1, RequireOk
  <1>11. r.held = a.held /\ a.ok
    BY <1>3, <1>10, InvokeManyHeld
  <1>. DEFINE v == TokenBalance(c, from)
              w == TokenBalance(c, to)
  <1>12. v = TokenBalance(p, from) /\ w = TokenBalance(p, to)
    BY <1>5, <1>7 DEF SameBalances
  <1>13. a = InvokeAll(p, <<margin_refresh_position(o.token), margin_refresh_position(o.to),
                            margin_borrow_v2(o.token, from, o.n), swap(o.token, o.to, o.take),
                            deposit(o.to, "margin", to, note, SetSource(w)),
                            repay(o.token, "margin", from, derive_loan_account(o.token), SetSource(v))>>)
    BY Zenon DEF inners, SwapInners
  <1>. HIDE DEF a, v, w, note
  <1>16. a.ok
    BY <1>11
  <1>14. \A x \in Account : x \notin {<<Loan(o.token), "pda">>, note} => a.held[x] = p.held[x]
    <2>1. note \in {<<Note(o.to), "ata">>, <<Note(o.to), "pda">>}
      BY <1>6
    <2>2. SwapInvoked(p, o.token, o.to, o.n, o.take, note, v, w, a)
      BY <1>12, <1>13, <1>16, <2>1, Zenon DEF SwapInvoked
    <2>. QED BY <1>9, <2>2, SwapLeaves
  <1>15. ASSUME NEW t \in Token
         PROVE  TokenBalance(r, <<Of(t), "ata">>) = TokenBalance(c, <<Of(t), "ata">>)
    <2>. DEFINE x == <<Of(t), "ata">>
    <2>0. x \in Account
      BY AccountsOf
    <2>4. /\ x # <<Loan(o.token), "pda">> /\ x # <<Note(o.to), "ata">>
          /\ x # <<Note(o.to), "pda">>
      BY DEF Of, Loan, Note
    <2>1. x \in Account /\ x \notin {<<Loan(o.token), "pda">>, note}
      BY <1>6, <2>0, <2>4, Zenon
    <2>. HIDE DEF x
    <2>2. r.held[x] = p.held[x] /\ TokenBalance(p, x) = TokenBalance(c, x)
      BY <1>7, <1>11, <1>14, <2>1 DEF SameBalances
    <2>3. TokenBalance(r, x) = TokenBalance(p, x)
      BY <2>2 DEF TokenBalance, Exists
    <2>. QED BY <2>2, <2>3 DEF x
  <1>. QED BY <1>15 DEF r, tx

-----------------------------------------------------------------------------
(* A swap that waits, with nothing landed since it was built, is the one   *)
(* that would be built now: bringing a balance up to date changes nothing  *)
(* that the builder of a swap reads.                                       *)

SwapIsCurrent ==
    pending.o.op = "margin_swap" /\ ~pending.stale =>
        pending.o \in Operation /\ pending.txs = <<margin_swap(chain, pending.o)>>

LEMMA SwapReads ==
  ASSUME NEW c, NEW r, r.position = c.position, r.held = c.held, NEW o
  PROVE  margin_swap(r, o) = margin_swap(c, o)
  <1>1. PositionAddress(r, Note(o.to)) = PositionAddress(c, Note(o.to))
    BY Zenon DEF PositionAddress, Registered
  <1>2. /\ TokenBalance(r, associated_token_address(Of(o.token)))
             = TokenBalance(c, associated_token_address(Of(o.token)))
        /\ TokenBalance(r, associated_token_address(Of(o.to)))
             = TokenBalance(c, associated_token_address(Of(o.to)))
    BY Zenon DEF TokenBalance, Exists
  <1>3. get_or_create_pool_loan_position(r, o.who, o.token)
          = get_or_create_pool_loan_position(c, o.who, o.token)
    BY Zenon DEF get_or_create_pool_loan_position, Registered
  <1>4. CreatePosition(r, o.who, Note(o.to)) = CreatePosition(c, o.who, Note(o.to))
    BY Zenon DEF CreatePosition, Registered
  <1>5. SwapInners(r, o) = SwapInners(c, o)
    BY <1>1, <1>2, SMT DEF SwapInners
  <1>. DEFINE Swap(loan, note, inners) ==
                  <<create_ata(Of(o.token), "ata"), create_ata(Of(o.to), "ata")>>
                  \o loan \o note \o <<adapter_invoke_ix(o.who, inners, NoMint)>>
  <1>6. /\ margin_swap(r, o) = Swap(get_or_create_pool_loan_position(r, o.who, o.token),
                                    CreatePosition(r, o.who, Note(o.to)), SwapInners(r, o))
        /\ margin_swap(c, o) = Swap(get_or_create_pool_loan_position(c, o.who, o.token),
                                    CreatePosition(c, o.who, Note(o.to)), SwapInners(c, o))
    BY Zenon DEF margin_swap, SwapInners
  <1>. HIDE DEF Swap
  <1>. QED BY <1>3, <1>4, <1>5, <1>6, Zenon

LEMMA UpdateKeeps ==
  ASSUME NEW s, NEW a
  PROVE  /\ Run(s, <<update_position_balance(a)>>, 0).position = s.position
         /\ Run(s, <<update_position_balance(a)>>, 0).held = s.held
  <1>. DEFINE ix == update_position_balance(a)
              tx == <<ix>>
              r == Run(s, tx, 0)
  <1>1. Len(tx) = 1 /\ tx[1] = ix /\ ix.op = "update_position_balance"
    BY DEF update_position_balance
  <1>. HIDE DEF tx, ix
  <1>2. Len(tx) \in Nat
    BY <1>1
  <1>3. PICK g : RunsBy(g, s, tx, 0)
    BY <1>2, RunExists
  <1>4. r = Execute(s, ix, 0)
    <2>1. /\ g[0] = s /\ r = g[Len(tx)]
          /\ \A i \in 1 .. Len(tx) : g[i] = Execute(g[i - 1], tx[i], 0)
      BY <1>3, Zenon DEF RunsBy
    <2>. HIDE DEF r
    <2>2. g[1] = Execute(g[0], ix, 0)
      BY <1>1, <2>1
    <2>. QED BY <1>1, <2>1, <2>2, Zenon
  <1>5. Execute(s, ix, 0) = SetBalances(s, {ix.account})
    BY <1>1, Zenon DEF Execute
  <1>. HIDE DEF r
  <1>6. r.position = s.position /\ r.held = s.held
    <2>. DEFINE used == {ix.account}
    <2>. HIDE DEF used
    <2>1. /\ SetBalances(s, used).position = s.position
          /\ SetBalances(s, used).held = s.held
      BY DEF SetBalances
    <2>. QED BY <1>4, <1>5, <2>1, Zenon DEF used
  <1>. QED BY <1>6 DEF r, tx, ix

LEMMA SwapIsBuilt ==
  ASSUME NEW c, NEW o, o.op = "margin_swap"
  PROVE  Build(c, o) = <<margin_swap(c, o)>>
  BY Zenon DEF Build

SwapInv == TxBuilderInv /\ SwapIsCurrent

LEMMA SwapInitInv == TxBuilderInit => SwapIsCurrent
  BY DEF TxBuilderInit, Idle, SwapIsCurrent

LEMMA SwapNextInv ==
  ASSUME TxBuilderInv, SwapIsCurrent, [TxBuilderNext]_txBuilderVars
  PROVE  SwapIsCurrent'
  <1>. SUFFICES ASSUME pending'.o.op = "margin_swap", ~pending'.stale
                PROVE  /\ pending'.o \in Operation
                       /\ pending'.txs = <<margin_swap(chain', pending'.o)>>
    BY Zenon DEF SwapIsCurrent
  <1>0. IsPending(pending)
    BY DEF TxBuilderInv
  <1>8. pending' # Idle
    BY DEF Idle
  <1>1. ASSUME NEW o \in Operation, BuildTransactions(o)
        PROVE  /\ pending'.o \in Operation
               /\ pending'.txs = <<margin_swap(chain', pending'.o)>>
    <2>. DEFINE built == Build(chain, o)
    <2>1. pending' = [o |-> o, txs |-> built, stale |-> FALSE] /\ chain' = chain
      BY <1>1, Zenon DEF BuildTransactions
    <2>. HIDE DEF built
    <2>2. pending'.o = o /\ pending'.txs = built
      BY <2>1
    <2>3. built = <<margin_swap(chain, o)>>
      BY <2>2, SwapIsBuilt DEF built
    <2>. QED BY <2>1, <2>2, <2>3, Zenon
  <1>2. ASSUME NEW fee \in Fee, LandTransaction(fee)
        PROVE  /\ pending'.o \in Operation
               /\ pending'.txs = <<margin_swap(chain', pending'.o)>>
    <2>1. pending' = IF Len(pending.txs) = 1 THEN Idle ELSE [pending EXCEPT !.txs = Tail(@)]
      BY <1>2, Zenon DEF LandTransaction, Dequeued
    <2>2. Len(pending.txs) # 1 /\ pending' = [pending EXCEPT !.txs = Tail(@)]
      BY <1>8, <2>1
    <2>3. pending'.o = pending.o /\ pending'.stale = pending.stale
      BY <1>0, <2>2 DEF IsPending
    <2>. DEFINE w == margin_swap(chain, pending.o)
    <2>4. pending.txs = <<w>>
      BY <2>3, Zenon DEF SwapIsCurrent
    <2>. HIDE DEF w
    <2>5. Len(pending.txs) = 1
      BY <2>4
    <2>. QED BY <2>2, <2>5
  <1>3. ~DropTransactions
    BY <1>8 DEF DropTransactions
  <1>4. ASSUME NEW o \in Racing, NEW fee \in Fee
        PROVE  ~OtherLands(o, fee)
    <2>. SUFFICES ASSUME OtherLands(o, fee)
                  PROVE  FALSE
      OBVIOUS
    <2>1. pending' = [pending EXCEPT !.stale = TRUE]
      BY Zenon DEF OtherLands
    <2>. QED BY <1>0, <2>1 DEF IsPending
  <1>5. ASSUME NEW t \in Token
        PROVE  ~Donate(t)
    <2>. SUFFICES ASSUME Donate(t)
                  PROVE  FALSE
      OBVIOUS
    <2>1. pending' = IF pending = Idle THEN Idle ELSE [pending EXCEPT !.stale = TRUE]
      BY Zenon DEF Donate
    <2>. QED BY <1>0, <1>8, <2>1 DEF IsPending
  <1>6. ASSUME NEW m \in Mint, UpdateBalance(associated_token_address(m))
        PROVE  /\ pending'.o \in Operation
               /\ pending'.txs = <<margin_swap(chain', pending'.o)>>
    <2>. DEFINE a == associated_token_address(m)
    <2>1. chain' = Run(chain, <<update_position_balance(a)>>, 0) /\ pending' = pending
      BY <1>6, Zenon DEF UpdateBalance
    <2>2. chain'.position = chain.position /\ chain'.held = chain.held
      BY <2>1, UpdateKeeps
    <2>3. margin_swap(chain', pending.o) = margin_swap(chain, pending.o)
      BY <2>2, SwapReads
    <2>. QED BY <2>1, <2>3, Zenon DEF SwapIsCurrent
  <1>7. CASE UNCHANGED txBuilderVars
    BY <1>7, Zenon DEF txBuilderVars, SwapIsCurrent
  <1>. QED BY <1>1, <1>2, <1>3, <1>4, <1>5, <1>6, <1>7, Zenon DEF TxBuilderNext

THEOREM SwapInvariance == TxBuilderSpec => []SwapInv
  <1>1. TxBuilderSpec => []TxBuilderInv
    BY TxBuilderInvariance
  <1>2. SwapIsCurrent /\ TxBuilderInv /\ [TxBuilderNext]_txBuilderVars => SwapIsCurrent'
    BY SwapNextInv
  <1>. QED BY <1>1, <1>2, SwapInitInv, PTL DEF TxBuilderSpec, SwapInv

\* A balance that is missing counts as none.
LEMMA MaxIsBalance ==
  ASSUME NEW s, InOrder(s), NEW a \in Cash
  PROVE  Max({0, s.held[a]}) = TokenBalance(s, a)
  <1>1. s.held[a] \in Int /\ s.held[a] >= Missing
    <2>1. Whole(s)
      BY InOrderIsIntact DEF Whole
    <2>. QED BY <2>1, WholeFields DEF Cash, Missing
  <1>2. Max({0, s.held[a]}) = IF 0 >= s.held[a] THEN 0 ELSE s.held[a]
    BY <1>1, MinMaxOfTwo
  <1>. QED BY <1>1, <1>2 DEF TokenBalance, Exists, Missing

LEMMA SwapStep ==
  ASSUME SwapInv, TxBuilderInv', [TxBuilderNext]_txBuilderVars,
         pending.o.op = "margin_swap", ~pending.stale, chain' # chain, pending' = Idle,
         NEW t \in Token
  PROVE  Max({0, chain'.held[Of(t), "ata"]}) = Max({0, chain.held[Of(t), "ata"]})
  <1>. DEFINE x == <<Of(t), "ata">>
  <1>0. InOrder(chain) /\ IsPending(pending) /\ SwapIsCurrent /\ InOrder(chain')
    BY DEF SwapInv, TxBuilderInv, AtRest
  <1>1. pending # Idle
    BY DEF Idle
  <1>2. PICK fee \in Fee : LandTransaction(fee)
    <2>1. ASSUME NEW o \in Operation
          PROVE  ~BuildTransactions(o)
      BY Zenon DEF BuildTransactions
    <2>2. ~DropTransactions
      BY Zenon DEF DropTransactions
    <2>3. ASSUME NEW o \in Racing, NEW fee \in Fee
          PROVE  ~OtherLands(o, fee)
      <3>. SUFFICES ASSUME OtherLands(o, fee)
                    PROVE  FALSE
        OBVIOUS
      <3>1. pending' = [pending EXCEPT !.stale = TRUE]
        BY Zenon DEF OtherLands
      <3>. QED BY <1>0, <3>1 DEF IsPending, Idle
    <2>4. ASSUME NEW u \in Token
          PROVE  ~Donate(u)
      <3>. SUFFICES ASSUME Donate(u)
                    PROVE  FALSE
        OBVIOUS
      <3>1. pending' = [pending EXCEPT !.stale = TRUE]
        BY <1>1, Zenon DEF Donate
      <3>. QED BY <1>0, <3>1 DEF IsPending, Idle
    <2>5. ASSUME NEW m \in Mint
          PROVE  ~UpdateBalance(associated_token_address(m))
      BY <1>1, Zenon DEF UpdateBalance
    <2>6. ~UNCHANGED txBuilderVars
      BY DEF txBuilderVars
    <2>. QED BY <2>1, <2>2, <2>3, <2>4, <2>5, <2>6, Zenon DEF TxBuilderNext
  <1>. DEFINE o == pending.o
              tx == margin_swap(chain, o)
              r == Run(chain, tx, fee)
  <1>3. o \in Operation /\ pending.txs = <<tx>>
    BY <1>0, Zenon DEF SwapIsCurrent
  <1>4. Head(pending.txs) = tx
    <2>. HIDE DEF tx
    <2>. QED BY <1>3
  <1>5. IsExecutable(tx)
    BY <1>0, <1>1, <1>4, PendingDequeued
  <1>6. r.ok /\ chain' = Settled(r)
    BY <1>2, <1>4, Zenon DEF LandTransaction
  <1>7. o.who \in Who /\ o.token \in Token /\ o.to \in Token /\ o.n \in Nat /\ o.take \in Nat
    BY <1>3, OperationAssumption DEF WithAmount, WithSwap
  <1>8. TokenBalance(r, x) = TokenBalance(chain, x)
    <2>1. fee \in Fees
      BY FeeType
    <2>. QED BY <1>0, <1>5, <1>6, <1>7, <2>1, MarginSwapKeeps
  <1>. HIDE DEF r
  <1>9. TokenBalance(chain', x) = TokenBalance(r, x)
    <2>1. Settled(r).held = r.held
      BY DEF Settled
    <2>. QED BY <1>6, <2>1 DEF TokenBalance, Exists
  <1>10. x \in Cash
    BY AccountsOf
  <1>. HIDE DEF x
  <1>11. Max({0, chain'.held[x]}) = Max({0, chain.held[x]})
    BY <1>0, <1>8, <1>9, <1>10, MaxIsBalance
  <1>. QED BY <1>11 DEF x

\* Whatever the swap takes, whatever it was asked for and however many notes and
\* debts there are, a margin swap that lands on the chain it was built from
\* leaves every associated account with the balance it had.
THEOREM SwapsKeepBalances == TxBuilderSpec => SwapKeepsBalances
  <1>1. /\ SwapInv /\ TxBuilderInv' /\ [TxBuilderNext]_txBuilderVars
        => [pending.o.op = "margin_swap" /\ ~pending.stale /\ chain' # chain /\ pending' = Idle
            => \A t \in Token : Max({0, chain'.held[Of(t), "ata"]})
                                  = Max({0, chain.held[Of(t), "ata"]})]_txBuilderVars
    BY SwapStep
  <1>. QED BY <1>1, SwapInvariance, TxBuilderInvariance, PTL DEF TxBuilderSpec, SwapKeepsBalances

-----------------------------------------------------------------------------
(* What a transaction leaves of the notes it mints.                        *)

\* The margin account counts what an account of notes holds.
IsCounted(x, s) == s.position[x[1]] = x /\ s.cached[x[1]] = s.held[x]

\* Notes that were minted are counted, and those that were counted still are.
KeepsNotes(s, r) ==
    \A x \in NoteAccount :
        r.held[x] > 0 /\ (r.held[x] > s.held[x] \/ IsCounted(x, s)) => IsCounted(x, r)

\* The associated accounts of P are positions.
Standing(P, s) == \A x \in P : x[2] = "ata" => s.position[x[1]] = x

LEMMA NotesAre ==
  ASSUME NEW x \in NoteAccount
  PROVE  /\ x \in Cash /\ x \in Account /\ x \notin Owed /\ x # NoAddress
         /\ x[1] \in Mint /\ x[1][1] = "note" /\ x[2] \in {"ata", "pda"} /\ x = <<x[1], x[2]>>
  <1>1. PICK t \in Token, place \in {"ata", "pda"} : x = <<Note(t), place>>
    BY DEF NoteAccount
  <1>2. x \in Cash /\ x \in Account /\ x[1] \in Mint /\ x[1] = Note(t) /\ x[2] = place
    BY <1>1, AccountsOf
  <1>3. x[1][1] = "note"
    BY <1>2 DEF Note
  <1>4. x \notin Owed
    BY <1>3 DEF Owed, derive_loan_account, Loan
  <1>5. x # NoAddress
    BY <1>2, MintAccounts
  <1>. QED BY <1>1, <1>2, <1>3, <1>4, <1>5

LEMMA KeptTwice ==
  ASSUME NEW s, NEW q, NEW r, Whole(s), Whole(q), Whole(r), KeepsNotes(s, q), KeepsNotes(q, r)
  PROVE  KeepsNotes(s, r)
  <1>. SUFFICES ASSUME NEW x \in NoteAccount, r.held[x] > 0,
                       r.held[x] > s.held[x] \/ IsCounted(x, s)
                PROVE  IsCounted(x, r)
    BY Zenon DEF KeepsNotes
  <1>1. s.held[x] \in Int /\ q.held[x] \in Int /\ r.held[x] \in Int
    BY WholeFields, NotesAre
  <1>2. CASE r.held[x] > q.held[x]
    BY <1>2, Zenon DEF KeepsNotes
  <1>3. CASE ~(r.held[x] > q.held[x])
    <2>1. q.held[x] > 0 /\ (q.held[x] > s.held[x] \/ IsCounted(x, s))
      BY <1>1, <1>3
    <2>2. IsCounted(x, q)
      BY <2>1, Zenon DEF KeepsNotes
    <2>. QED BY <2>2, Zenon DEF KeepsNotes
  <1>. QED BY <1>2, <1>3

\* Nothing is minted, and balances are read back at most.
LEMMA UnmovedKeeps ==
  ASSUME NEW s, NEW r, Whole(s),
         \A x \in NoteAccount :
             /\ r.held[x] = s.held[x] /\ r.position[x[1]] = s.position[x[1]]
             /\ s.position[x[1]] = x => r.cached[x[1]] \in {s.cached[x[1]], s.held[x]}
  PROVE  KeepsNotes(s, r)
  <1>. SUFFICES ASSUME NEW x \in NoteAccount, r.held[x] > 0,
                       r.held[x] > s.held[x] \/ IsCounted(x, s)
                PROVE  IsCounted(x, r)
    BY Zenon DEF KeepsNotes
  <1>1. s.held[x] \in Int /\ r.held[x] = s.held[x]
    BY WholeFields, NotesAre
  <1>2. IsCounted(x, s)
    BY <1>1
  <1>. QED BY <1>1, <1>2 DEF IsCounted

\* What an invocation has done to the notes before the balances are read back.
Near(s, q, P, used) ==
    \A x \in NoteAccount :
        /\ q.position[x[1]] = s.position[x[1]] /\ q.cached[x[1]] = s.cached[x[1]]
        /\ q.held[x] # s.held[x] => x \in used
        /\ q.held[x] > s.held[x] => x \in P
        /\ s.held[x] = Missing => q.held[x] = Missing

LEMMA NearItself ==
  ASSUME NEW s, NEW r, Whole(s), NEW P, NEW used,
         \A x \in NoteAccount : /\ r.held[x] = s.held[x] /\ r.position[x[1]] = s.position[x[1]]
                                /\ r.cached[x[1]] = s.cached[x[1]]
  PROVE  Near(s, r, P, used)
  <1>. SUFFICES ASSUME NEW x \in NoteAccount, r.held[x] > s.held[x]
                PROVE  FALSE
    BY DEF Near
  <1>1. s.held[x] \in Int /\ r.held[x] = s.held[x]
    BY WholeFields, NotesAre
  <1>. QED BY <1>1

LEMMA NearTwice ==
  ASSUME NEW s, NEW q, NEW r, Whole(s), Whole(q), Whole(r), NEW P, NEW used,
         Near(s, q, P, used), Near(q, r, P, used)
  PROVE  Near(s, r, P, used)
  <1>. SUFFICES ASSUME NEW x \in NoteAccount
                PROVE  /\ r.position[x[1]] = s.position[x[1]] /\ r.cached[x[1]] = s.cached[x[1]]
                       /\ r.held[x] # s.held[x] => x \in used
                       /\ r.held[x] > s.held[x] => x \in P
                       /\ s.held[x] = Missing => r.held[x] = Missing
    BY DEF Near
  <1>1. s.held[x] \in Int /\ q.held[x] \in Int /\ r.held[x] \in Int
    BY WholeFields, NotesAre
  <1>2. /\ q.position[x[1]] = s.position[x[1]] /\ q.cached[x[1]] = s.cached[x[1]]
        /\ q.held[x] # s.held[x] => x \in used
        /\ q.held[x] > s.held[x] => x \in P
        /\ s.held[x] = Missing => q.held[x] = Missing
    BY DEF Near
  <1>3. /\ r.position[x[1]] = q.position[x[1]] /\ r.cached[x[1]] = q.cached[x[1]]
        /\ r.held[x] # q.held[x] => x \in used
        /\ r.held[x] > q.held[x] => x \in P
        /\ q.held[x] = Missing => r.held[x] = Missing
    BY DEF Near
  <1>. QED BY <1>1, <1>2, <1>3

\* A payment changes the notes of the two accounts it names.
LEMMA PaidNear ==
  ASSUME NEW s, NEW r, Whole(s), NEW a \in Account, NEW b \in Account, NEW m \in Int, NEW n \in Int,
         Paid(s, a, m, b, n, r), NEW P, NEW used, a \in used, b \in used,
         a \in NoteAccount => m <= 0, b \in NoteAccount => n <= 0 \/ b \in P,
         a = b => m + n <= 0
  PROVE  s.ok /\ Near(s, r, P, used)
  <1>1. /\ s.ok /\ s.held[a] # Missing /\ s.held[b] # Missing
        /\ r.position = s.position /\ r.cached = s.cached /\ IsMoved(s.held, a, m, b, n, r.held)
    BY DEF Paid, Exists
  <1>2. ASSUME NEW x \in NoteAccount
        PROVE  /\ r.held[x] # s.held[x] => x \in used
               /\ r.held[x] > s.held[x] => x \in P
               /\ s.held[x] = Missing => r.held[x] = Missing
    <2>1. x \in Account /\ s.held[x] \in Int /\ r.held[x] \in Int
      BY <1>1, WholeFields, NotesAre DEF IsMoved
    <2>2. CASE x \notin {a, b}
      <3>1. r.held[x] = s.held[x]
        BY <1>1, <2>1, <2>2 DEF IsMoved
      <3>. QED BY <2>1, <3>1
    <2>3. CASE x = a /\ a = b
      <3>1. r.held[x] = s.held[x] + m + n
        BY <1>1, <2>3 DEF IsMoved
      <3>. QED BY <1>1, <2>1, <2>3, <3>1
    <2>4. CASE x = a /\ a # b
      <3>1. r.held[x] = s.held[x] + m
        BY <1>1, <2>4 DEF IsMoved
      <3>. QED BY <1>1, <2>1, <2>4, <3>1
    <2>5. CASE x = b /\ a # b
      <3>1. r.held[x] = s.held[x] + n
        BY <1>1, <2>5 DEF IsMoved
      <3>. QED BY <1>1, <2>1, <2>5, <3>1
    <2>. QED BY <2>2, <2>3, <2>4, <2>5
  <1>. QED BY <1>1, <1>2 DEF Near

\* The position of a mint changes with an account of it.
Altered(f, k, v) == [f EXCEPT ![k] = v]
Placed(s, m, a, b, v) == [Place(s, m, a) EXCEPT !.held[b] = v]

LEMMA PlacedFields ==
  ASSUME NEW s, Whole(s), NEW m \in Mint, NEW a, NEW b, NEW v,
         NEW r, r = Placed(s, m, a, b, v)
  PROVE  /\ r.held = Altered(s.held, b, v) /\ r.ok = s.ok
         /\ r.position = Altered(s.position, m, a) /\ r.cached = Altered(s.cached, m, 0)
  <1>. DEFINE p == Place(s, m, a)
  <1>0. r = [p EXCEPT !.held[b] = v]
    BY DEF Placed
  <1>1. {"ok", "held", "position", "cached", "fresh"} \subseteq DOMAIN s
    BY WholeFields
  <1>2. /\ DOMAIN p = DOMAIN s /\ p.held = s.held /\ p.ok = s.ok
        /\ p.position = [s.position EXCEPT ![m] = a] /\ p.cached = [s.cached EXCEPT ![m] = 0]
    BY <1>1 DEF Place
  <1>. HIDE DEF p
  <1>3. /\ r.held = [p.held EXCEPT ![b] = v] /\ r.ok = p.ok
        /\ r.position = p.position /\ r.cached = p.cached
    BY <1>0, <1>1, <1>2
  <1>. QED BY <1>2, <1>3 DEF p, Altered

\* What changes of another mint and another account leaves notes alone.
LEMMA PlacedElsewhere ==
  ASSUME NEW s, Whole(s), NEW m \in Mint, NEW a, NEW b, NEW v,
         NEW r, r = Placed(s, m, a, b, v),
         NEW x \in NoteAccount, x[1] # m, x # b
  PROVE  /\ r.held[x] = s.held[x] /\ r.position[x[1]] = s.position[x[1]]
         /\ r.cached[x[1]] = s.cached[x[1]]
  <1>1. /\ r.held = Altered(s.held, b, v) /\ r.position = Altered(s.position, m, a)
        /\ r.cached = Altered(s.cached, m, 0)
    BY PlacedFields
  <1>2. x \in Account /\ x[1] \in Mint
    BY NotesAre
  <1>3. DOMAIN s.held = Account /\ DOMAIN s.position = Mint /\ DOMAIN s.cached = Mint
    BY DEF Whole, Intact, CountedBut, Shape
  <1>. QED BY <1>1, <1>2, <1>3 DEF Altered

LEMMA LoanNear ==
  ASSUME NEW s, Whole(s), NEW ix, ix.op \in {"register_loan", "close_loan"}, ix.token \in Token,
         ix.account = derive_loan_account(ix.token), InvokePool(s, ix).ok, NEW P, NEW used
  PROVE  s.ok /\ Near(s, InvokePool(s, ix), P, used)
  <1>. DEFINE m == Loan(ix.token)
              b == ix.account
  <1>1. m \in Mint /\ b \in Account /\ \A x \in NoteAccount : x[1] # m /\ x # b
    <2>0. m \in Mint /\ <<m, "pda">> \in Account /\ b = <<m, "pda">>
      BY AccountsOf, Zenon DEF derive_loan_account
    <2>1. m \in Mint /\ b \in Account /\ b[1] = m
      <3>. HIDE DEF m, b
      <3>. QED BY <2>0
    <2>2. m[1] = "loan"
      BY DEF Loan
    <2>. HIDE DEF m, b
    <2>. QED BY <2>1, <2>2, NotesAre
  <1>0. "ok" \in DOMAIN s
    BY WholeFields
  <1>2. ASSUME NEW a, NEW v
        PROVE  Near(s, Placed(s, m, a, b, v), P, used)
    <2>. DEFINE r == Placed(s, m, a, b, v)
    <2>. HIDE DEF m, b
    <2>1. \A x \in NoteAccount : /\ r.held[x] = s.held[x] /\ r.position[x[1]] = s.position[x[1]]
                                 /\ r.cached[x[1]] = s.cached[x[1]]
      BY <1>1, PlacedElsewhere
    <2>. HIDE DEF r
    <2>2. Near(s, r, P, used)
      BY <2>1, NearItself
    <2>. QED BY <2>2 DEF r
  <1>3. CASE ix.op = "register_loan"
    <2>. DEFINE c == ~Exists(s, b) /\ ~Registered(s, m)
                r == Placed(s, m, b, b, 0)
    <2>1. InvokePool(s, ix) = Require(s, c, r)
      BY <1>3, Zenon DEF InvokePool, RegisterLoan, Placed
    <2>2. Near(s, r, P, used)
      BY <1>2
    <2>. HIDE DEF c, r
    <2>3. s.ok /\ Require(s, c, r) = r
      BY <1>0, <2>1, RequireOk
    <2>. QED BY <2>1, <2>2, <2>3
  <1>4. CASE ix.op = "close_loan"
    <2>. DEFINE c == Registered(s, m) /\ s.held[b] = 0
                r == Placed(s, m, NoAddress, b, Missing)
    <2>1. InvokePool(s, ix) = Require(s, c, r)
      BY <1>4, Zenon DEF InvokePool, CloseLoan, Placed
    <2>2. Near(s, r, P, used)
      BY <1>2
    <2>. HIDE DEF c, r
    <2>3. s.ok /\ Require(s, c, r) = r
      BY <1>0, <2>1, RequireOk
    <2>. QED BY <2>1, <2>2, <2>3
  <1>. QED BY <1>3, <1>4

LEMMA InvokePoolNear ==
  ASSUME NEW s, Whole(s), NEW P, NEW ix, IsPart(P, ix), InvokePool(s, ix).ok,
         NEW used, Touched(ix) \subseteq used
  PROVE  s.ok /\ Near(s, InvokePool(s, ix), P, used)
  <1>. DEFINE a == ix.source
              b == ix.destination
              r == InvokePool(s, ix)
  <1>0. /\ s.held \in [Account -> Int] /\ Cash \subseteq Account /\ Owed \subseteq Account
        /\ "source" \in DOMAIN ix => a \in used /\ b \in used
        /\ \A x \in NoteAccount : x \notin Owed
        /\ IsInner(ix) /\ Pays(P, ix)
    BY WholeFields, OwedAndCash, NotesAre DEF Touched, IsPart
  <1>1. CASE /\ ix.op \in {"deposit", "withdraw"} /\ "source" \in DOMAIN ix
             /\ a \in Cash /\ b \in Cash /\ IsChange(ix.change)
    <2>. DEFINE n == TokensToMove(ix.change, s.held[a], s.held[b])
                k == -n
    <2>1. n \in Int /\ n >= 0 /\ Paid(s, a, k, b, n, r)
      BY <1>1, MovePaid
    <2>2. b \in NoteAccount => b \in P
      BY <1>0, <1>1, Zenon DEF Pays
    <2>3. k \in Int /\ k <= 0 /\ k + n <= 0
      <3>. HIDE DEF n
      <3>. QED BY <2>1
    <2>. HIDE DEF n, k, a, b, r
    <2>9. s.ok /\ Near(s, r, P, used)
      BY <1>0, <1>1, <2>1, <2>2, <2>3, PaidNear
    <2>. QED BY <2>9 DEF r
  <1>2. CASE /\ ix.op \in {"margin_borrow", "margin_borrow_v2"} /\ "source" \in DOMAIN ix
             /\ a \in Owed /\ b \in Cash /\ ix.change.tokens \in Nat
    <2>. DEFINE n == ix.change.tokens
    <2>1. n \in Int /\ Paid(s, a, n, b, n, r)
      BY <1>2, BorrowPaid
    <2>2. b \in NoteAccount => b \in P
      BY <1>0, <1>2, Zenon DEF Pays
    <2>3. a # b /\ a \notin NoteAccount
      BY <1>0, <1>2, OwedAndCash
    <2>. HIDE DEF n, a, b, r
    <2>9. s.ok /\ Near(s, r, P, used)
      BY <1>0, <1>2, <2>1, <2>2, <2>3, PaidNear
    <2>. QED BY <2>9 DEF r
  <1>3. CASE /\ ix.op \in {"margin_repay", "repay"} /\ "source" \in DOMAIN ix
             /\ a \in Cash /\ b \in Owed /\ IsChange(ix.change)
    <2>. DEFINE n == TokensToRepay(ix.change, s.held[a], s.held[b])
                k == -n
    <2>1. n \in Int /\ n >= 0 /\ Paid(s, a, k, b, k, r)
      BY <1>3, RepayPaid
    <2>2. k \in Int /\ k <= 0
      <3>. HIDE DEF n
      <3>. QED BY <2>1
    <2>3. a # b
      BY <1>3, OwedAndCash
    <2>. HIDE DEF n, k, a, b, r
    <2>9. s.ok /\ Near(s, r, P, used)
      BY <1>0, <1>3, <2>1, <2>2, <2>3, PaidNear
    <2>. QED BY <2>9 DEF r
  <1>4. CASE /\ ix.op = "swap" /\ "source" \in DOMAIN ix
             /\ a \in Cash /\ b \in Cash /\ ix.amount \in Int
    <2>. DEFINE n == ix.amount
                k == -n
    <2>1. n \in Int /\ n >= 0 /\ Paid(s, a, k, b, n, r)
      BY <1>4, SwapPaid
    <2>2. b \in NoteAccount => b \in P
      BY <1>0, <1>4, Zenon DEF Pays
    <2>3. k \in Int /\ k <= 0 /\ k + n <= 0
      <3>. HIDE DEF n
      <3>. QED BY <2>1
    <2>. HIDE DEF n, k, a, b, r
    <2>9. s.ok /\ Near(s, r, P, used)
      BY <1>0, <1>4, <2>1, <2>2, <2>3, PaidNear
    <2>. QED BY <2>9 DEF r
  <1>5. CASE ix.op = "margin_refresh_position"
    <2>1. r.ok = s.ok /\ r.held = s.held /\ r.position = s.position /\ r.cached = s.cached
      BY <1>5, RefreshKeeps
    <2>2. r.ok
      OBVIOUS
    <2>. HIDE DEF r
    <2>3. Near(s, r, P, used)
      BY <2>1, NearItself
    <2>. QED BY <2>1, <2>2, <2>3 DEF r
  <1>6. CASE /\ ix.op \in {"register_loan", "close_loan"} /\ ix.token \in Token
             /\ ix.account = derive_loan_account(ix.token)
    BY <1>6, LoanNear
  <1>. HIDE DEF a, b, r
  <1>. QED BY <1>0, <1>1, <1>2, <1>3, <1>4, <1>5, <1>6, Zenon DEF IsInner, a, b, r

LEMMA InvokeAllNear ==
  ASSUME NEW s, Whole(s), NEW P, NEW inners, IsAimed(P, inners), InvokeAll(s, inners).ok,
         NEW used, \A i \in 1 .. Len(inners) : Touched(inners[i]) \subseteq used
  PROVE  s.ok /\ Near(s, InvokeAll(s, inners), P, used)
  <1>. DEFINE N == Len(inners)
  <1>1. PICK g : /\ g = [i \in 0 .. N |-> IF i = 0 THEN s ELSE InvokePool(g[i - 1], inners[i])]
                 /\ InvokeAll(s, inners) = g[N]
    BY InvokeAllIsDefined DEF IsAimed, IsInvocation
  <1>2. N \in Nat /\ \A i \in 1 .. N : IsPart(P, inners[i])
    BY DEF IsAimed, IsInvocation, IsPart
  <1>. HIDE DEF N
  <1>3. g[0] = s /\ \A i \in 1 .. N : g[i] = InvokePool(g[i - 1], inners[i])
    BY <1>1, <1>2
  <1>. DEFINE S == {n \in Nat : n <= N => /\ Whole(g[n])
                                          /\ g[n].ok => s.ok /\ Near(s, g[n], P, used)}
  <1>4. 0 \in S
    BY <1>3, NearItself
  <1>5. ASSUME NEW n \in Nat, n \in S
        PROVE  n + 1 \in S
    <2>. SUFFICES ASSUME n + 1 <= N
                  PROVE  /\ Whole(g[n + 1])
                         /\ g[n + 1].ok => s.ok /\ Near(s, g[n + 1], P, used)
      OBVIOUS
    <2>1. n + 1 \in 1 .. N /\ Whole(g[n]) /\ (g[n].ok => s.ok /\ Near(s, g[n], P, used))
      BY <1>5, <1>2
    <2>2. g[n + 1] = InvokePool(g[n], inners[n + 1])
      BY <1>3, <2>1
    <2>3. IsPart(P, inners[n + 1]) /\ Touched(inners[n + 1]) \subseteq used
      BY <1>2, <2>1 DEF N
    <2>4. Whole(g[n + 1])
      BY <2>1, <2>2, <2>3, InnerWhole DEF IsPart
    <2>5. ASSUME g[n + 1].ok
          PROVE  g[n].ok /\ Near(g[n], g[n + 1], P, used)
      BY <2>1, <2>2, <2>3, <2>5, InvokePoolNear
    <2>. QED BY <2>1, <2>4, <2>5, NearTwice
  <1>6. Nat \subseteq S
    <2>. HIDE DEF S
    <2>. QED BY <1>4, <1>5, SetInduction
  <1>7. g[N].ok => s.ok /\ Near(s, g[N], P, used)
    BY <1>6, <1>2
  <1>. QED BY <1>1, <1>7, Zenon

\* A balance that is read back is counted, and so is one that was not moved.
LEMMA ReadBackKeeps ==
  ASSUME NEW s, InOrder(s), NEW q, Whole(q), NEW P, NEW used, Near(s, q, P, used), Standing(P, s)
  PROVE  /\ KeepsNotes(s, SetBalances(q, used))
         /\ \A x \in NoteAccount : SetBalances(q, used).position[x[1]] = s.position[x[1]]
  <1>. DEFINE r == SetBalances(q, used)
  <1>1. /\ r.held = q.held /\ r.position = q.position
        /\ \A m \in Mint : r.cached[m] = IF q.position[m] \in used THEN q.held[q.position[m]]
                                         ELSE q.cached[m]
    BY WholeFields DEF SetBalances
  <1>. HIDE DEF r
  <1>2. ASSUME NEW x \in NoteAccount
        PROVE  r.position[x[1]] = s.position[x[1]]
    BY <1>1 DEF Near
  <1>3. ASSUME NEW x \in NoteAccount, r.held[x] > 0, r.held[x] > s.held[x] \/ IsCounted(x, s)
        PROVE  IsCounted(x, r)
    <2>0. x[1] \in Mint /\ x[2] \in {"ata", "pda"} /\ x = <<x[1], x[2]>>
      BY NotesAre
    <2>1. /\ q.position[x[1]] = s.position[x[1]] /\ q.cached[x[1]] = s.cached[x[1]]
          /\ q.held[x] # s.held[x] => x \in used
          /\ q.held[x] > s.held[x] => x \in P
          /\ s.held[x] = Missing => q.held[x] = Missing
      BY DEF Near
    <2>2. s.position[x[1]] = x
      <3>1. CASE IsCounted(x, s)
        BY <3>1 DEF IsCounted
      <3>2. CASE r.held[x] > s.held[x] /\ x[2] = "ata"
        BY <1>1, <2>1, <3>2 DEF Standing
      <3>3. CASE r.held[x] > s.held[x] /\ x[2] = "pda"
        <4>1. s.held[<<x[1], "pda">>] # Missing
          BY <1>1, <1>3, <2>0, <2>1, <3>3 DEF Missing
        <4>2. s.position[x[1]] = <<x[1], "pda">>
          BY <2>0, <4>1 DEF InOrder, Intact, CountedBut
        <4>. QED BY <2>0, <3>3, <4>2
      <3>. QED BY <1>3, <2>0, <3>1, <3>2, <3>3
    <2>3. r.position[x[1]] = x /\ q.position[x[1]] = x
      BY <1>1, <2>1, <2>2
    <2>4. CASE x \in used
      <3>1. r.cached[x[1]] = q.held[x]
        BY <1>1, <2>0, <2>3, <2>4
      <3>. QED BY <1>1, <2>3, <3>1 DEF IsCounted
    <2>5. CASE x \notin used
      <3>1. r.cached[x[1]] = s.cached[x[1]]
        BY <1>1, <2>0, <2>1, <2>3, <2>5
      <3>2. r.held[x] = s.held[x]
        BY <1>1, <2>1, <2>5
      <3>3. s.held[x] \in Int
        BY NotesAre, WholeFields, InOrderIsIntact DEF Whole
      <3>4. IsCounted(x, s)
        BY <1>3, <3>2, <3>3
      <3>. QED BY <2>3, <3>1, <3>2, <3>4 DEF IsCounted
    <2>. QED BY <2>4, <2>5
  <1>4. KeepsNotes(s, r)
    BY <1>3 DEF KeepsNotes
  <1>. QED BY <1>2, <1>4 DEF r

\* An invocation through the margin program.
LEMMA InvokeManyKeeps ==
  ASSUME NEW s, InOrder(s), NEW P, NEW inners, IsAimed(P, inners), Standing(P, s),
         InvokeMany(s, inners).ok
  PROVE  /\ s.ok /\ KeepsNotes(s, InvokeMany(s, inners))
         /\ \A x \in NoteAccount : InvokeMany(s, inners).position[x[1]] = s.position[x[1]]
  <1>. DEFINE used == UNION {Touched(inners[i]) : i \in DOMAIN inners}
              q == InvokeAll(s, inners)
  <1>1. Whole(s) /\ IsInvocation(inners)
    BY InOrderIsIntact DEF Whole, IsAimed
  <1>2. \A i \in 1 .. Len(inners) : Touched(inners[i]) \subseteq used
    BY <1>1 DEF IsInvocation
  <1>3. InvokeMany(s, inners) = SetBalances(q, used)
    BY Zenon DEF InvokeMany
  <1>4. Whole(q)
    <2>1. \A i \in 1 .. Len(inners) : Touched(inners[i]) \subseteq Account
      BY <1>1, TouchedAccounts DEF IsInvocation
    <2>. QED BY <1>1, <2>1, InvokeAllIntact DEF Whole
  <1>5. q.ok
    BY InvokeManyHeld
  <1>. HIDE DEF used
  <1>6. s.ok /\ Near(s, q, P, used)
    BY <1>1, <1>2, <1>5, InvokeAllNear
  <1>. HIDE DEF q
  <1>. QED BY <1>3, <1>4, <1>6, ReadBackKeeps

\* Keeping the notes depends on the balances and the positions only.
LEMMA KeptAs ==
  ASSUME NEW s, NEW q, NEW r, NEW P, r.held = q.held, r.position = q.position, r.cached = q.cached
  PROVE  /\ KeepsNotes(s, q) => KeepsNotes(s, r)
         /\ Standing(P, q) => Standing(P, r)
  BY Zenon DEF KeepsNotes, IsCounted, Standing

LEMMA FieldsKeep ==
  ASSUME NEW s, Whole(s), NEW r, r.held = s.held, r.position = s.position, r.cached = s.cached
  PROVE  /\ KeepsNotes(s, r)
         /\ \A P : Standing(P, s) => Standing(P, r)
  <1>1. KeepsNotes(s, r)
    BY UnmovedKeeps
  <1>2. \A P : Standing(P, s) => Standing(P, r)
    BY Zenon DEF Standing
  <1>. QED BY <1>1, <1>2

LEMMA StandingKept ==
  ASSUME NEW s, NEW r, NEW P, P \subseteq NoteAccount, Standing(P, s),
         \A x \in NoteAccount : r.position[x[1]] = s.position[x[1]]
  PROVE  Standing(P, r)
  BY Zenon DEF Standing

\* A balance read back when nothing was minted.
LEMMA BalanceKeeps ==
  ASSUME NEW s, InOrder(s), NEW q, Whole(q), NEW used, Near(s, q, {}, used),
         NEW P, P \subseteq NoteAccount, Standing(P, s)
  PROVE  KeepsNotes(s, SetBalances(q, used)) /\ Standing(P, SetBalances(q, used))
  <1>1. Standing({}, s)
    BY DEF Standing
  <1>2. /\ KeepsNotes(s, SetBalances(q, used))
        /\ \A x \in NoteAccount : SetBalances(q, used).position[x[1]] = s.position[x[1]]
    BY <1>1, ReadBackKeeps
  <1>. DEFINE r == SetBalances(q, used)
  <1>. HIDE DEF r
  <1>3. Standing(P, r)
    <2>1. \A x \in NoteAccount : r.position[x[1]] = s.position[x[1]]
      BY <1>2 DEF r
    <2>. QED BY <2>1, StandingKept
  <1>. QED BY <1>2, <1>3 DEF r

\* A position is registered or closed while its account holds nothing.
LEMMA PlacedKeeps ==
  ASSUME NEW s, Whole(s), NEW r, NEW m \in Mint, NEW a,
         r.position = Altered(s.position, m, a), r.cached = Altered(s.cached, m, 0),
         \A x \in NoteAccount : r.held[x] = s.held[x] \/ ~(r.held[x] > 0),
         \A x \in NoteAccount : s.position[m] = x => ~(r.held[x] > 0),
         NEW P, P \subseteq NoteAccount, Standing(P, s), s.position[m] = NoAddress \/ P = {}
  PROVE  KeepsNotes(s, r) /\ Standing(P, r)
  <1>1. DOMAIN s.position = Mint /\ DOMAIN s.cached = Mint
    BY DEF Whole, Intact, CountedBut, Shape
  <1>2. ASSUME NEW x \in NoteAccount, x[1] # m
        PROVE  r.position[x[1]] = s.position[x[1]] /\ r.cached[x[1]] = s.cached[x[1]]
    BY <1>1, <1>2, NotesAre DEF Altered
  <1>3. ASSUME NEW x \in NoteAccount, r.held[x] > 0, r.held[x] > s.held[x] \/ IsCounted(x, s)
        PROVE  IsCounted(x, r)
    <2>1. r.held[x] = s.held[x] /\ s.held[x] \in Int
      BY <1>3, NotesAre, WholeFields
    <2>2. IsCounted(x, s)
      BY <1>3, <2>1
    <2>3. x[1] # m
      BY <1>3, <2>2 DEF IsCounted
    <2>. QED BY <1>2, <2>1, <2>2, <2>3 DEF IsCounted
  <1>4. ASSUME NEW x \in P, x[2] = "ata"
        PROVE  r.position[x[1]] = x
    <2>1. s.position[x[1]] = x /\ x \in NoteAccount /\ s.position[m] = NoAddress
      BY <1>4 DEF Standing
    <2>2. x[1] # m
      BY <2>1, NotesAre
    <2>. QED BY <1>2, <2>1, <2>2
  <1>. QED BY <1>3, <1>4 DEF KeepsNotes, Standing

LEMMA CreatedKeeps ==
  ASSUME NEW s, Whole(s), NEW a \in Account, NEW r,
         r = [s EXCEPT !.held[a] = IF @ = Missing THEN 0 ELSE @]
  PROVE  r.ok = s.ok /\ r.position = s.position /\ KeepsNotes(s, r)
  <1>. DEFINE v == IF s.held[a] = Missing THEN 0 ELSE s.held[a]
              h == [s.held EXCEPT ![a] = v]
  <1>1. {"ok", "held", "position", "cached"} \subseteq DOMAIN s /\ s.held \in [Account -> Int]
    BY WholeFields
  <1>2. r = [s EXCEPT !.held = h]
    BY <1>1
  <1>3. \A x \in Account : h[x] = IF x = a THEN v ELSE s.held[x]
    BY <1>1
  <1>4. v = s.held[a] \/ (v = 0 /\ s.held[a] = Missing)
    OBVIOUS
  <1>. HIDE DEF v, h
  <1>5. r.ok = s.ok /\ r.held = h /\ r.position = s.position /\ r.cached = s.cached
    BY <1>1, <1>2
  <1>6. ASSUME NEW x \in NoteAccount, r.held[x] > 0, r.held[x] > s.held[x] \/ IsCounted(x, s)
        PROVE  IsCounted(x, r)
    <2>1. x \in Account /\ s.held[x] \in Int
      BY <1>1, NotesAre
    <2>2. r.held[x] = s.held[x]
      BY <1>3, <1>4, <1>5, <1>6, <2>1
    <2>3. IsCounted(x, s)
      BY <1>6, <2>1, <2>2
    <2>. QED BY <1>5, <2>2, <2>3 DEF IsCounted
  <1>. QED BY <1>5, <1>6 DEF KeepsNotes

\* A transfer between accounts of tokens.
LEMMA TransferNear ==
  ASSUME NEW s, Whole(s), NEW a \in Cash, NEW b \in Cash, NEW n \in Int,
         a \notin NoteAccount, b \notin NoteAccount, Transfer(s, a, b, n).ok, NEW used
  PROVE  s.ok /\ Near(s, Transfer(s, a, b, n), {}, used)
  <1>. DEFINE r == Transfer(s, a, b, n)
              k == -n
  <1>1. a \in Account /\ b \in Account
    BY OwedAndCash
  <1>2. Paid(s, a, k, b, n, r)
    BY <1>1, TransferPaid
  <1>. HIDE DEF r, k
  <1>3. /\ s.ok /\ r.position = s.position /\ r.cached = s.cached
        /\ IsMoved(s.held, a, k, b, n, r.held)
    BY <1>2 DEF Paid
  <1>4. \A x \in NoteAccount : r.held[x] = s.held[x]
    BY <1>3, NotesAre DEF IsMoved
  <1>5. Near(s, r, {}, used)
    BY <1>3, <1>4, NearItself
  <1>. QED BY <1>3, <1>5 DEF r

\* An instruction that succeeds counts the notes it mints and those that were
\* counted, if the accounts it may pay notes into stand.
LEMMA ExecuteKeeps ==
  ASSUME NEW s, InOrder(s), NEW P, P \subseteq NoteAccount, Standing(P, s),
         NEW ix, IsInstruction(ix), Aims(P, ix), NEW fee, Execute(s, ix, fee).ok
  PROVE  s.ok /\ KeepsNotes(s, Execute(s, ix, fee)) /\ Standing(P, Execute(s, ix, fee))
  <1>. DEFINE E == Execute(s, ix, fee)
  <1>0. /\ Whole(s) /\ {"ok", "held", "position", "cached", "fresh"} \subseteq DOMAIN s
        /\ {"open", "liquidating"} \subseteq DOMAIN s
        /\ s.held \in [Account -> Int]
    BY InOrderIsIntact, WholeFields DEF Whole, InOrder, Intact, Sound
  <1>a. ASSUME NEW c, NEW r, E = Require(s, c, r),
               s.ok /\ c => KeepsNotes(s, r) /\ Standing(P, r)
        PROVE  s.ok /\ KeepsNotes(s, E) /\ Standing(P, E)
    <2>1. E.ok
      OBVIOUS
    <2>. HIDE DEF E
    <2>2. s.ok /\ c /\ E = r
      BY <1>0, <1>a, <2>1, RequireOk
    <2>. QED BY <1>a, <2>2
  <1>1. CASE ix.op = "create_account"
    <2>. DEFINE r == [s EXCEPT !.open = TRUE]
    <2>1. E = Require(s, ~s.open, r)
      BY <1>1, Zenon DEF Execute
    <2>2. r.held = s.held /\ r.position = s.position /\ r.cached = s.cached
      BY <1>0
    <2>. HIDE DEF r, E
    <2>3. KeepsNotes(s, r) /\ Standing(P, r)
      BY <1>0, <2>2, FieldsKeep
    <2>4. s.ok /\ KeepsNotes(s, E) /\ Standing(P, E)
      BY <1>a, <2>1, <2>3
    <2>. QED BY <2>4 DEF E
  <1>2. CASE ix.op = "close_account"
    <2>. DEFINE r == [LiquidationEnded(s) EXCEPT !.open = FALSE]
                c == s.open /\ \A m \in Mint : ~Registered(s, m)
    <2>1. E = Require(s, c, r)
      BY <1>2, Zenon DEF Execute
    <2>2. r.held = s.held /\ r.position = s.position /\ r.cached = s.cached
      BY <1>0 DEF LiquidationEnded
    <2>. HIDE DEF r, E, c
    <2>3. KeepsNotes(s, r) /\ Standing(P, r)
      BY <1>0, <2>2, FieldsKeep
    <2>4. s.ok /\ KeepsNotes(s, E) /\ Standing(P, E)
      BY <1>a, <2>1, <2>3
    <2>. QED BY <2>4 DEF E
  <1>3. CASE ix.op = "close_position" /\ ix.mint \in Mint
    <2>. DEFINE m == ix.mint
                b == ix.account
                r == Placed(s, m, NoAddress, b, Missing)
                c == /\ VerifyAuthority(s, ix.authority)
                     /\ s.position[m] = b /\ s.cached[m] = 0 /\ s.held[b] = 0
    <2>1. E = Require(s, c, r)
      BY <1>3, Zenon DEF Execute, Placed
    <2>2. P = {}
      BY <1>3 DEF Aims
    <2>3. ASSUME c
          PROVE  KeepsNotes(s, r) /\ Standing(P, r)
      <3>1. s.position[m] = b
        BY <2>3
      <3>. HIDE DEF r, m, b, c
      <3>2. /\ r.held = Altered(s.held, b, Missing)
            /\ r.position = Altered(s.position, m, NoAddress)
            /\ r.cached = Altered(s.cached, m, 0)
        BY <1>0, <1>3, PlacedFields DEF r, m
      <3>3. /\ \A x \in NoteAccount : r.held[x] = s.held[x] \/ ~(r.held[x] > 0)
            /\ \A x \in NoteAccount : s.position[m] = x => ~(r.held[x] > 0)
        BY <1>0, <3>1, <3>2, NotesAre DEF Missing, Altered
      <3>. QED BY <1>0, <1>3, <2>2, <3>2, <3>3, PlacedKeeps DEF m
    <2>. HIDE DEF r, E, c
    <2>4. s.ok /\ KeepsNotes(s, E) /\ Standing(P, E)
      BY <1>a, <2>1, <2>3
    <2>. QED BY <2>4 DEF E
  <1>4. CASE ix.op = "refresh_deposit_position" /\ ix.account \in Account
    <2>. DEFINE f == s.fresh \cup {ix.mint}
                c == s.position[ix.mint] = ix.account /\ HasConfig(ix.mint)
                q == [s EXCEPT !.fresh = f]
                used == {ix.account}
    <2>1. E = Require(s, c, SetBalances(q, used))
      BY <1>4, Zenon DEF Execute
    <2>. HIDE DEF f, c
    <2>2. q.held = s.held /\ q.position = s.position /\ q.cached = s.cached
      BY <1>0
    <2>3. Whole(q)
      BY <1>0, FieldsKept DEF Whole
    <2>. HIDE DEF q, used, E
    <2>4. Near(s, q, {}, used)
      BY <1>0, <2>2, NearItself
    <2>5. KeepsNotes(s, SetBalances(q, used)) /\ Standing(P, SetBalances(q, used))
      BY <2>3, <2>4, BalanceKeeps
    <2>6. s.ok /\ KeepsNotes(s, E) /\ Standing(P, E)
      BY <1>a, <2>1, <2>5
    <2>. QED BY <2>6 DEF E
  <1>5. CASE /\ ix.op = "transfer_deposit"
             /\ ix.source \in Cash /\ ix.destination \in Cash /\ ix.amount \in Int
    <2>. DEFINE a == ix.source
                b == ix.destination
                used == {a, b}
                q == Transfer(s, a, b, ix.amount)
                c == Registered(s, ix.mint) /\ s.position[ix.mint] \in used
    <2>1. E = Require(s, c, SetBalances(q, used))
      BY <1>5, Zenon DEF Execute
    <2>2. a \notin NoteAccount /\ b \notin NoteAccount
      BY <1>5 DEF Aims
    <2>3. Whole(q)
      BY <1>0, <1>5, TransferIntact, OwedAndCash DEF Whole, Usable
    <2>4. E.ok => q.ok
      <3>1. E = Require(s, c, SetBalances(q, used)) => (E.ok => SetBalances(q, used).ok)
        <4>. HIDE DEF c, q, used, E
        <4>. QED BY <1>0, RequireOk
      <3>2. SetBalances(q, used).ok = q.ok
        BY DEF SetBalances
      <3>. QED BY <2>1, <3>1, <3>2
    <2>5. E.ok
      OBVIOUS
    <2>. HIDE DEF a, b, used, c, E
    <2>6. Near(s, q, {}, used)
      BY <1>0, <1>5, <2>2, <2>4, <2>5, TransferNear DEF a, b
    <2>. HIDE DEF q
    <2>7. KeepsNotes(s, SetBalances(q, used)) /\ Standing(P, SetBalances(q, used))
      BY <2>3, <2>6, BalanceKeeps
    <2>8. s.ok /\ KeepsNotes(s, E) /\ Standing(P, E)
      BY <1>a, <2>1, <2>7
    <2>. QED BY <2>8 DEF E
  <1>6. CASE ix.op = "update_position_balance" /\ ix.account \in Account
    <2>. DEFINE used == {ix.account}
    <2>1. E = SetBalances(s, used)
      BY <1>6, Zenon DEF Execute
    <2>2. SetBalances(s, used).ok = s.ok
      BY DEF SetBalances
    <2>3. E.ok
      OBVIOUS
    <2>. HIDE DEF used, E
    <2>4. Near(s, s, {}, used)
      BY <1>0, NearItself
    <2>5. s.ok /\ KeepsNotes(s, E) /\ Standing(P, E)
      BY <1>0, <2>1, <2>2, <2>3, <2>4, BalanceKeeps
    <2>. QED BY <2>5 DEF E
  <1>7. CASE ix.op = "refresh_position_config"
    <2>1. E = Require(s, Registered(s, ix.mint), s)
      BY <1>7, Zenon DEF Execute
    <2>. HIDE DEF E
    <2>2. KeepsNotes(s, s)
      BY <1>0, FieldsKeep
    <2>3. s.ok /\ KeepsNotes(s, E) /\ Standing(P, E)
      BY <1>a, <2>1, <2>2
    <2>. QED BY <2>3 DEF E
  <1>8. CASE ix.op = "liquidate_begin"
    <2>. DEFINE c == /\ s.open /\ ~s.liquidating /\ ix.authority = "liquidator"
                     /\ \E t \in Token : s.cached[Loan(t)] > 0
                     /\ \A m \in Mint : s.cached[m] > 0 => m \in s.fresh
                r == [s EXCEPT !.liquidating = TRUE]
    <2>1. E = Require(s, c, r)
      BY <1>8, Zenon DEF Execute
    <2>2. r.held = s.held /\ r.position = s.position /\ r.cached = s.cached
      BY <1>0
    <2>. HIDE DEF r, E, c
    <2>3. KeepsNotes(s, r) /\ Standing(P, r)
      BY <1>0, <2>2, FieldsKeep
    <2>4. s.ok /\ KeepsNotes(s, E) /\ Standing(P, E)
      BY <1>a, <2>1, <2>3
    <2>. QED BY <2>4 DEF E
  <1>9. CASE ix.op = "liquidate_end"
    <2>. DEFINE r == LiquidationEnded(s)
    <2>1. E = Require(s, s.liquidating, r)
      BY <1>9, Zenon DEF Execute
    <2>2. r.held = s.held /\ r.position = s.position /\ r.cached = s.cached
      BY <1>0 DEF LiquidationEnded
    <2>. HIDE DEF r, E
    <2>3. KeepsNotes(s, r) /\ Standing(P, r)
      BY <1>0, <2>2, FieldsKeep
    <2>4. s.ok /\ KeepsNotes(s, E) /\ Standing(P, E)
      BY <1>a, <2>1, <2>3
    <2>. QED BY <2>4 DEF E
  <1>10. CASE ix.op = "create_ata" /\ ix.account \in Account /\ ix.account[2] # "pda"
    <2>. DEFINE a == ix.account
    <2>1. E = [s EXCEPT !.held[a] = IF @ = Missing THEN 0 ELSE @]
      BY <1>10, Zenon DEF Execute
    <2>2. E.ok
      OBVIOUS
    <2>. HIDE DEF E, a
    <2>3. E.ok = s.ok /\ E.position = s.position /\ KeepsNotes(s, E)
      BY <1>0, <1>10, <2>1, CreatedKeeps DEF a
    <2>4. s.ok /\ KeepsNotes(s, E) /\ Standing(P, E)
      BY <2>2, <2>3 DEF Standing
    <2>. QED BY <2>4 DEF E
  <1>11. CASE ix.op = "register_position" /\ ix.mint \in Mint /\ ix.account = <<ix.mint, "pda">>
    <2>. DEFINE m == ix.mint
                b == ix.account
                r == Placed(s, m, b, b, 0)
                c == /\ VerifyAuthority(s, ix.authority) /\ HasConfig(m)
                     /\ ~Exists(s, b) /\ ~Registered(s, m)
    <2>1. E = Require(s, c, r)
      BY <1>11, Zenon DEF Execute, Placed
    <2>2. ASSUME c
          PROVE  KeepsNotes(s, r) /\ Standing(P, r)
      <3>1. s.position[m] = NoAddress
        BY <2>2, Zenon DEF Registered
      <3>0. m \in Mint /\ r = Placed(s, m, b, b, 0)
        BY <1>11
      <3>. HIDE DEF r, m, b, c
      <3>2. /\ r.held = Altered(s.held, b, 0)
            /\ r.position = Altered(s.position, m, b)
            /\ r.cached = Altered(s.cached, m, 0)
        BY <1>0, <3>0, PlacedFields
      <3>3. /\ \A x \in NoteAccount : r.held[x] = s.held[x] \/ ~(r.held[x] > 0)
            /\ \A x \in NoteAccount : s.position[m] # x
        BY <1>0, <3>1, <3>2, NotesAre DEF Altered
      <3>. QED BY <1>0, <1>11, <3>1, <3>2, <3>3, PlacedKeeps DEF m
    <2>. HIDE DEF r, E, c
    <2>3. s.ok /\ KeepsNotes(s, E) /\ Standing(P, E)
      BY <1>a, <2>1, <2>2
    <2>. QED BY <2>3 DEF E
  <1>12. CASE /\ ix.op = "create_deposit_position" /\ ix.mint \in Mint
              /\ ix.account = <<ix.mint, "ata">>
    <2>. DEFINE m == ix.mint
                p == Place(s, m, ix.account)
                r == IF Registered(s, m) THEN s ELSE p
                c == /\ VerifyAuthority(s, ix.authority) /\ HasConfig(m)
                     /\ Exists(s, ix.account)
    <2>1. E = Require(s, c, r)
      BY <1>12, Zenon DEF Execute
    <2>2. KeepsNotes(s, s) /\ Standing(P, s)
      BY <1>0, FieldsKeep
    <2>3. ASSUME ~Registered(s, m)
          PROVE  KeepsNotes(s, p) /\ Standing(P, p)
      <3>1. s.position[m] = NoAddress
        BY <2>3, Zenon DEF Registered
      <3>2. /\ p.held = s.held
            /\ p.position = Altered(s.position, m, ix.account)
            /\ p.cached = Altered(s.cached, m, 0)
        BY <1>0 DEF Place, Altered
      <3>. HIDE DEF p, m
      <3>3. \A x \in NoteAccount : s.position[m] # x
        BY <3>1, NotesAre
      <3>. QED BY <1>0, <1>12, <3>1, <3>2, <3>3, PlacedKeeps DEF m
    <2>4. KeepsNotes(s, r) /\ Standing(P, r)
      <3>. HIDE DEF p
      <3>. QED BY <2>2, <2>3
    <2>. HIDE DEF r, E, c
    <2>5. s.ok /\ KeepsNotes(s, E) /\ Standing(P, E)
      BY <1>a, <2>1, <2>4
    <2>. QED BY <2>5 DEF E
  <1>13. CASE /\ ix.op = "collect_liquidation_fee" /\ ix.token \in Token
              /\ ix.source \in Cash /\ ix.destination \in Cash /\ ix.destination[2] # "pda"
    <2>. DEFINE a == ix.source
                b == ix.destination
                n == s.accrued[ix.token]
                t == Transfer(s, a, b, n)
                q == [t EXCEPT !.accrued[ix.token] = 0, !.collecting = TRUE]
                c == /\ s.liquidating /\ n > 0 /\ s.position[Of(ix.token)] = a
                used == {a}
                r == SetBalances(q, used)
    <2>1. E = Require(s, c, r)
      BY <1>13, Zenon DEF Execute
    <2>2. a \notin NoteAccount /\ b \notin NoteAccount
      BY <1>13 DEF Aims
    <2>3. n \in Int
      BY <1>13 DEF InOrder, Intact, Sound
    <2>. HIDE DEF n
    <2>4. Whole(t)
      BY <1>0, <1>13, <2>3, TransferIntact, OwedAndCash DEF Whole, Usable
    <2>5. q.ok = t.ok /\ q.held = t.held /\ q.position = t.position /\ q.cached = t.cached
      <3>. HIDE DEF t
      <3>. QED BY <2>4, WholeFields
    <2>6. ASSUME r.ok
          PROVE  KeepsNotes(s, r) /\ Standing(P, r)
      <3>. DEFINE w == SetBalances(t, used)
      <3>1. r.ok = q.ok /\ r.held = w.held /\ r.position = w.position /\ r.cached = w.cached
        <4>. HIDE DEF q, t, used
        <4>. QED BY <2>5 DEF SetBalances
      <3>2. t.ok
        <4>. HIDE DEF r, q, t
        <4>. QED BY <2>5, <2>6, <3>1
      <3>. HIDE DEF r, q, used, a, b
      <3>3. Near(s, t, {}, used)
        BY <1>0, <1>13, <2>2, <2>3, <3>2, TransferNear DEF a, b
      <3>. HIDE DEF t
      <3>4. KeepsNotes(s, w) /\ Standing(P, w)
        BY <2>4, <3>3, BalanceKeeps
      <3>. HIDE DEF w
      <3>. QED BY <3>1, <3>4, KeptAs, Zenon
    <2>7. E.ok
      OBVIOUS
    <2>. HIDE DEF r, E, c
    <2>8. s.ok /\ c /\ E = r
      BY <1>0, <2>1, <2>7, RequireOk
    <2>9. s.ok /\ KeepsNotes(s, E) /\ Standing(P, E)
      BY <2>6, <2>7, <2>8
    <2>. QED BY <2>9 DEF E
  <1>14. ASSUME IsInvocation(ix.inners), ix.op \in {"adapter_invoke", "accounting_invoke", "liquidator_invoke"},
                NEW r, E = r, r.ok,
                LET t == InvokeMany(s, ix.inners)
                IN  r.ok = t.ok /\ r.held = t.held /\ r.position = t.position /\ r.cached = t.cached
         PROVE  s.ok /\ KeepsNotes(s, r) /\ Standing(P, r)
    <2>. DEFINE t == InvokeMany(s, ix.inners)
    <2>1. IsAimed(P, ix.inners)
      BY <1>14 DEF IsAimed, Aims
    <2>2. t.ok
      BY <1>14
    <2>3. s.ok /\ KeepsNotes(s, t) /\ \A x \in NoteAccount : t.position[x[1]] = s.position[x[1]]
      BY <2>1, <2>2, InvokeManyKeeps
    <2>. HIDE DEF t, E
    <2>4. Standing(P, t)
      BY <2>3, StandingKept
    <2>5. r.held = t.held /\ r.position = t.position /\ r.cached = t.cached
      BY <1>14 DEF t
    <2>. QED BY <2>3, <2>4, <2>5, KeptAs, Zenon
  <1>15. CASE ix.op \in {"adapter_invoke", "accounting_invoke", "liquidator_invoke"}
              /\ IsInvocation(ix.inners)
    <2>. DEFINE t == InvokeMany(s, ix.inners)
                u == [t EXCEPT !.accrued[ix.fee] = IF @ = 0 THEN fee ELSE @]
    <2>0. Whole(t)
      BY <1>15, InvokeManyIntact, InOrderIsIntact DEF Whole
    <2>1. \E c, r : E = Require(s, c, r) /\ r \in {t, u}
      <3>1. CASE ix.op = "adapter_invoke"
        <4>1. E = Require(s, s.open /\ ~s.liquidating, t)
          BY <3>1, Zenon DEF Execute
        <4>. HIDE DEF E, t, u
        <4>. QED BY <4>1
      <3>2. CASE ix.op = "accounting_invoke"
        <4>1. E = Require(s, s.open /\ \A i \in DOMAIN ix.inners : ix.inners[i].signer # "margin", t)
          BY <3>2, Zenon DEF Execute
        <4>. HIDE DEF E, t, u
        <4>. QED BY <4>1
      <3>3. CASE ix.op = "liquidator_invoke"
        <4>1. E = Require(s, s.open /\ s.liquidating /\ ~s.collecting, u)
          BY <3>3, Zenon DEF Execute
        <4>. HIDE DEF E, t, u
        <4>. QED BY <4>1
      <3>. QED BY <1>15, <3>1, <3>2, <3>3
    <2>2. u.ok = t.ok /\ u.held = t.held /\ u.position = t.position /\ u.cached = t.cached
      <3>. HIDE DEF t
      <3>. QED BY <2>0, WholeFields
    <2>3. E.ok
      OBVIOUS
    <2>. HIDE DEF E, u
    <2>4. PICK c, r : E = Require(s, c, r) /\ r \in {t, u}
      BY <2>1
    <2>5. E = r
      <3>. HIDE DEF t
      <3>. QED BY <1>0, <2>3, <2>4, RequireOk
    <2>6. r.ok /\ r.ok = t.ok /\ r.held = t.held /\ r.position = t.position /\ r.cached = t.cached
      <3>. HIDE DEF t
      <3>. QED BY <2>2, <2>3, <2>4, <2>5
    <2>7. s.ok /\ KeepsNotes(s, r) /\ Standing(P, r)
      BY <1>14, <1>15, <2>5, <2>6
    <2>8. s.ok /\ KeepsNotes(s, E) /\ Standing(P, E)
      BY <2>5, <2>7
    <2>. QED BY <2>8 DEF E
  <1>. HIDE DEF E
  <1>. QED BY <1>1, <1>2, <1>3, <1>4, <1>5, <1>6, <1>7, <1>8, <1>9, <1>10, <1>11, <1>12,
              <1>13, <1>15, Zenon DEF IsInstruction, E

\* What has failed stays failed.
LEMMA ExecuteOk ==
  ASSUME NEW s, InOrder(s), NEW ix, IsInstruction(ix), NEW fee, Execute(s, ix, fee).ok
  PROVE  s.ok
  <1>. DEFINE E == Execute(s, ix, fee)
  <1>0. E.ok /\ "ok" \in DOMAIN s
    BY DEF InOrder, Intact, Sound
  <1>a. ASSUME NEW c, NEW r, E = Require(s, c, r)
        PROVE  s.ok
    <2>. HIDE DEF E
    <2>. QED BY <1>0, <1>a, RequireOk
  <1>b. (\E c, r : E = Require(s, c, r)) => s.ok
    <2>. HIDE DEF E
    <2>. QED BY <1>a, Zenon
  <1>c. ASSUME E.ok = s.ok
        PROVE  s.ok
    <2>. HIDE DEF E
    <2>. QED BY <1>0, <1>c
  <1>1. CASE ix.op \in {"create_account", "close_account"}
    <2>1. ix.op = "create_account" => E = Require(s, ~s.open, [s EXCEPT !.open = TRUE])
      BY Zenon DEF Execute
    <2>2. ix.op = "close_account" =>
            E = Require(s, s.open /\ \A m \in Mint : ~Registered(s, m),
                        [LiquidationEnded(s) EXCEPT !.open = FALSE])
      BY Zenon DEF Execute
    <2>. HIDE DEF E
    <2>. QED BY <2>1, <2>2, <1>1, <1>b
  <1>2. CASE ix.op = "close_position"
    <2>1. E = Require(s, /\ VerifyAuthority(s, ix.authority)
                         /\ s.position[ix.mint] = ix.account
                         /\ s.cached[ix.mint] = 0 /\ s.held[ix.account] = 0,
                      [Place(s, ix.mint, NoAddress) EXCEPT !.held[ix.account] = Missing])
      BY <1>2, Zenon DEF Execute
    <2>. HIDE DEF E
    <2>. QED BY <2>1, <1>b, Zenon
  <1>3. CASE ix.op = "refresh_deposit_position"
    <2>1. E = Require(s, s.position[ix.mint] = ix.account /\ HasConfig(ix.mint),
                      SetBalances([s EXCEPT !.fresh = @ \cup {ix.mint}], {ix.account}))
      BY <1>3, Zenon DEF Execute
    <2>. HIDE DEF E
    <2>. QED BY <2>1, <1>b, Zenon
  <1>4. CASE ix.op = "transfer_deposit"
    <2>1. E = Require(s, Registered(s, ix.mint) /\ s.position[ix.mint] \in {ix.source, ix.destination},
                      SetBalances(Transfer(s, ix.source, ix.destination, ix.amount),
                                  {ix.source, ix.destination}))
      BY <1>4, Zenon DEF Execute
    <2>. HIDE DEF E
    <2>. QED BY <2>1, <1>b, Zenon
  <1>5. CASE ix.op = "update_position_balance"
    <2>1. E = SetBalances(s, {ix.account})
      BY <1>5, Zenon DEF Execute
    <2>2. SetBalances(s, {ix.account}).ok = s.ok
      BY DEF SetBalances
    <2>. HIDE DEF E
    <2>. QED BY <2>1, <2>2, <1>c
  <1>6. CASE ix.op \in {"refresh_position_config", "liquidate_end"}
    <2>1. ix.op = "refresh_position_config" => E = Require(s, Registered(s, ix.mint), s)
      BY Zenon DEF Execute
    <2>2. ix.op = "liquidate_end" => E = Require(s, s.liquidating, LiquidationEnded(s))
      BY Zenon DEF Execute
    <2>. HIDE DEF E
    <2>. QED BY <2>1, <2>2, <1>6, <1>b
  <1>7. CASE ix.op = "liquidate_begin"
    <2>1. E = Require(s, /\ s.open /\ ~s.liquidating /\ ix.authority = "liquidator"
                         /\ \E t \in Token : s.cached[Loan(t)] > 0
                         /\ \A m \in Mint : s.cached[m] > 0 => m \in s.fresh,
                      [s EXCEPT !.liquidating = TRUE])
      BY <1>7, Zenon DEF Execute
    <2>. HIDE DEF E
    <2>. QED BY <2>1, <1>b, Zenon
  <1>8. CASE ix.op = "create_ata" /\ ix.account \in Account
    <2>1. E = [s EXCEPT !.held[ix.account] = IF @ = Missing THEN 0 ELSE @]
      BY <1>8, Zenon DEF Execute
    <2>2. Whole(s)
      BY InOrderIsIntact DEF Whole
    <2>. HIDE DEF E
    <2>. QED BY <2>1, <2>2, <1>8, <1>c, CreatedKeeps
  <1>9. CASE ix.op = "register_position"
    <2>1. E = Require(s, /\ VerifyAuthority(s, ix.authority) /\ HasConfig(ix.mint)
                         /\ ~Exists(s, ix.account) /\ ~Registered(s, ix.mint),
                      [Place(s, ix.mint, ix.account) EXCEPT !.held[ix.account] = 0])
      BY <1>9, Zenon DEF Execute
    <2>. HIDE DEF E
    <2>. QED BY <2>1, <1>b, Zenon
  <1>10. CASE ix.op = "create_deposit_position"
    <2>1. E = Require(s, /\ VerifyAuthority(s, ix.authority) /\ HasConfig(ix.mint)
                         /\ Exists(s, ix.account),
                      IF Registered(s, ix.mint) THEN s ELSE Place(s, ix.mint, ix.account))
      BY <1>10, Zenon DEF Execute
    <2>. HIDE DEF E
    <2>. QED BY <2>1, <1>b, Zenon
  <1>11. CASE ix.op = "collect_liquidation_fee"
    <2>1. E = Require(s, /\ s.liquidating /\ s.accrued[ix.token] > 0
                         /\ s.position[Of(ix.token)] = ix.source,
                      SetBalances([Transfer(s, ix.source, ix.destination, s.accrued[ix.token])
                                      EXCEPT !.accrued[ix.token] = 0, !.collecting = TRUE],
                                  {ix.source}))
      BY <1>11, Zenon DEF Execute
    <2>. HIDE DEF E
    <2>. QED BY <2>1, <1>b, Zenon
  <1>12. CASE ix.op \in {"adapter_invoke", "accounting_invoke", "liquidator_invoke"}
    <2>1. ix.op = "adapter_invoke" =>
            E = Require(s, s.open /\ ~s.liquidating, InvokeMany(s, ix.inners))
      BY Zenon DEF Execute
    <2>2. ix.op = "accounting_invoke" =>
            E = Require(s, s.open /\ \A i \in DOMAIN ix.inners : ix.inners[i].signer # "margin",
                        InvokeMany(s, ix.inners))
      BY Zenon DEF Execute
    <2>3. ix.op = "liquidator_invoke" =>
            E = Require(s, s.open /\ s.liquidating /\ ~s.collecting,
                        [InvokeMany(s, ix.inners) EXCEPT !.accrued[ix.fee] = IF @ = 0 THEN fee ELSE @])
      BY Zenon DEF Execute
    <2>. HIDE DEF E
    <2>4. ix.op = "adapter_invoke" => s.ok
      BY <2>1, <1>b, Zenon
    <2>5. ix.op = "accounting_invoke" => s.ok
      BY <2>2, <1>b, Zenon
    <2>6. ix.op = "liquidator_invoke" => s.ok
      BY <2>3, <1>b, Zenon
    <2>. QED BY <2>4, <2>5, <2>6, <1>12
  <1>. HIDE DEF E
  <1>. QED BY <1>1, <1>2, <1>3, <1>4, <1>5, <1>6, <1>7, <1>8, <1>9, <1>10, <1>11, <1>12
           DEF IsInstruction

\* The rest of a transaction, from a state in which the accounts it may pay
\* notes into stand.
LEMMA RestKeeps ==
  ASSUME NEW P, P \subseteq NoteAccount, NEW fee \in Fees, NEW tx, NEW g, NEW N \in Nat, NEW k \in 0 .. N,
         InOrder(g[k]), g[k].ok => Standing(P, g[k]), g[N].ok,
         \A i \in 1 .. N : IsInstruction(tx[i]) /\ Aims(P, tx[i]),
         \A i \in 1 .. N : g[i] = Execute(g[i - 1], tx[i], fee)
  PROVE  g[k].ok /\ KeepsNotes(g[k], g[N])
  <1>. DEFINE Q(s) == InOrder(s) /\ (s.ok => g[k].ok /\ KeepsNotes(g[k], s) /\ Standing(P, s))
              S == {n \in Nat : n + k <= N => Q(g[n + k])}
  <1>0. ASSUME NEW s, InOrder(s)
        PROVE  Whole(s)
    BY <1>0, InOrderIsIntact DEF Whole
  <1>1. 0 \in S
    <2>1. KeepsNotes(g[k], g[k])
      BY <1>0, FieldsKeep
    <2>2. Q(g[k])
      BY <2>1
    <2>. HIDE DEF Q
    <2>. QED BY <2>2
  <1>2. ASSUME NEW n \in Nat, n \in S
        PROVE  n + 1 \in S
    <2>. SUFFICES ASSUME (n + 1) + k <= N
                  PROVE  Q(g[(n + 1) + k])
      OBVIOUS
    <2>. DEFINE j == n + k
                s == g[j]
                r == g[j + 1]
                ix == tx[j + 1]
    <2>1. j + 1 \in 1 .. N /\ (n + 1) + k = j + 1 /\ (j + 1) - 1 = j
      OBVIOUS
    <2>2. Q(s)
      BY <1>2
    <2>3. r = Execute(s, ix, fee) /\ IsInstruction(ix) /\ Aims(P, ix)
      BY <2>1
    <2>. HIDE DEF j, s, r, ix
    <2>4. InOrder(r)
      BY <2>2, <2>3, ExecuteInOrder
    <2>5. ASSUME r.ok
          PROVE  g[k].ok /\ KeepsNotes(g[k], r) /\ Standing(P, r)
      <3>1. s.ok
        BY <2>2, <2>3, <2>5, ExecuteOk
      <3>2. g[k].ok /\ KeepsNotes(g[k], s) /\ Standing(P, s)
        BY <2>2, <3>1
      <3>3. KeepsNotes(s, r) /\ Standing(P, r)
        BY <2>2, <2>3, <2>5, <3>2, ExecuteKeeps
      <3>4. Whole(g[k]) /\ Whole(s) /\ Whole(r)
        BY <1>0, <2>2, <2>4
      <3>. QED BY <3>2, <3>3, <3>4, KeptTwice
    <2>6. Q(r)
      BY <2>4, <2>5
    <2>. HIDE DEF Q
    <2>. QED BY <2>1, <2>6 DEF r
  <1>3. Nat \subseteq S
    <2>. HIDE DEF S
    <2>. QED BY <1>1, <1>2, SetInduction
  <1>4. (N - k) \in Nat /\ (N - k) + k = N
    OBVIOUS
  <1>5. Q(g[N])
    <2>. HIDE DEF Q
    <2>. QED BY <1>3, <1>4
  <1>. QED BY <1>5

\* The transaction first registers the account that it then pays notes into.
Opens(c, P, tx) ==
    /\ Len(tx) >= 2 /\ tx[1].op = "create_ata" /\ tx[2].op = "create_deposit_position"
    /\ P = {tx[2].account} /\ c.position[tx[2].mint] = NoAddress

\* The transaction pays notes only into accounts that are positions, on a chain
\* with the positions of c, when it does.
Guided(c, tx) ==
    \E P \in SUBSET NoteAccount : /\ \A i \in 1 .. Len(tx) : Aims(P, tx[i])
                                  /\ Standing(P, c) \/ Opens(c, P, tx)

IsPlain(tx) == \A i \in 1 .. Len(tx) : Aims({}, tx[i])

LEMMA PlainIsGuided ==
  ASSUME NEW c, NEW tx, IsPlain(tx)
  PROVE  Guided(c, tx)
  <1>. DEFINE P == {}
  <1>1. P \in SUBSET NoteAccount /\ Standing(P, c) /\ \A i \in 1 .. Len(tx) : Aims(P, tx[i])
    BY DEF IsPlain, Standing
  <1>. HIDE DEF P
  <1>. QED BY <1>1, Zenon DEF Guided

\* The position that create_deposit_position finds or makes.
LEMMA OpenedStands ==
  ASSUME NEW s, InOrder(s), NEW ix, IsInstruction(ix), ix.op = "create_deposit_position",
         s.position[ix.mint] = NoAddress, NEW fee, Execute(s, ix, fee).ok
  PROVE  ix.account \in Account /\ Standing({ix.account}, Execute(s, ix, fee))
  <1>. DEFINE m == ix.mint
              a == ix.account
              p == Place(s, m, a)
              c == VerifyAuthority(s, ix.authority) /\ HasConfig(m) /\ Exists(s, a)
              E == Execute(s, ix, fee)
  <1>1. E = Require(s, c, IF Registered(s, m) THEN s ELSE p)
    BY Zenon DEF Execute
  <1>2. ~Registered(s, m) /\ m \in Mint /\ a = <<m, "ata">> /\ a \in Account
    <2>1. m \in Mint /\ a = <<m, "ata">>
      BY DEF IsInstruction
    <2>. QED BY <2>1, MintAccounts DEF Registered
  <1>3. p.position[m] = a
    BY <1>2 DEF Place, InOrder, Intact, CountedBut, Shape
  <1>4. E.ok /\ "ok" \in DOMAIN s
    BY DEF InOrder, Intact, Sound
  <1>. HIDE DEF p, c, E, m, a
  <1>5. E = p
    BY <1>1, <1>2, <1>4, RequireOk
  <1>6. Standing({a}, E)
    BY <1>2, <1>3, <1>5 DEF Standing
  <1>. QED BY <1>2, <1>6 DEF E, a

LEMMA LandedKeeps ==
  ASSUME NEW c, InOrder(c), NEW tx, IsExecutable(tx), Guided(c, tx), NEW fee \in Fees,
         Run(c, tx, fee).ok
  PROVE  KeepsNotes(c, Run(c, tx, fee))
  <1>. DEFINE N == Len(tx)
  <1>1. N \in Nat /\ \A i \in 1 .. N : IsInstruction(tx[i])
    BY DEF IsExecutable
  <1>2. PICK P \in SUBSET NoteAccount : /\ \A i \in 1 .. N : Aims(P, tx[i])
                                        /\ Standing(P, c) \/ Opens(c, P, tx)
    BY Zenon DEF Guided
  <1>3. PICK g : RunsBy(g, c, tx, fee)
    BY <1>1, RunExists
  <1>4. /\ g[0] = c /\ Run(c, tx, fee) = g[N] /\ g[N].ok
        /\ \A i \in 1 .. N : g[i] = Execute(g[i - 1], tx[i], fee)
    BY <1>3, Zenon DEF RunsBy
  <1>5. CASE Standing(P, c)
    <2>. HIDE DEF N
    <2>1. 0 \in 0 .. N /\ InOrder(g[0]) /\ (g[0].ok => Standing(P, g[0]))
      BY <1>1, <1>4, <1>5
    <2>. DEFINE k == 0
    <2>2. k \in 0 .. N /\ InOrder(g[k]) /\ (g[k].ok => Standing(P, g[k]))
      BY <2>1
    <2>3. N \in Nat /\ P \subseteq NoteAccount /\ \A i \in 1 .. N : IsInstruction(tx[i]) /\ Aims(P, tx[i])
      BY <1>1, <1>2
    <2>4. g[N].ok /\ \A i \in 1 .. N : g[i] = Execute(g[i - 1], tx[i], fee)
      BY <1>4
    <2>5. g[k] = c /\ g[N] = Run(c, tx, fee)
      BY <1>4
    <2>. HIDE DEF k
    <2>6. g[k].ok /\ KeepsNotes(g[k], g[N])
      BY <2>2, <2>3, <2>4, RestKeeps
    <2>. QED BY <2>5, <2>6, Zenon
  <1>6. CASE Opens(c, P, tx)
    <2>. DEFINE a == tx[1]
                b == tx[2]
                q == g[1]
                r == g[2]
    <2>1. N >= 2 /\ a.op = "create_ata" /\ b.op = "create_deposit_position"
          /\ P = {b.account} /\ c.position[b.mint] = NoAddress
      BY <1>6 DEF Opens
    <2>. HIDE DEF N
    <2>2. 1 \in 1 .. N /\ 2 \in 1 .. N /\ 2 \in 0 .. N /\ 1 - 1 = 0 /\ 2 - 1 = 1
      BY <1>1, <2>1
    <2>3. /\ q = Execute(c, a, fee) /\ r = Execute(q, b, fee)
          /\ IsInstruction(a) /\ IsInstruction(b)
      BY <1>1, <1>4, <2>2
    <2>4. InOrder(q) /\ InOrder(r)
      <3>1. InOrder(q)
        BY <2>3, ExecuteInOrder
      <3>. QED BY <2>3, <3>1, ExecuteInOrder
    <2>5. Aims({}, a) /\ Aims({}, b) /\ \A s : Standing({}, s)
      BY <2>1 DEF Aims, Standing
    <2>6. q.position = c.position
      <3>1. a.account \in Account
        BY <2>1, <2>3 DEF IsInstruction
      <3>2. q = [c EXCEPT !.held[a.account] = IF @ = Missing THEN 0 ELSE @]
        BY <2>1, <2>3, Zenon DEF Execute
      <3>3. Whole(c)
        BY InOrderIsIntact DEF Whole
      <3>. HIDE DEF q, a
      <3>. QED BY <3>1, <3>2, <3>3, CreatedKeeps
    <2>. HIDE DEF a, b
    <2>7. r.ok => Standing(P, r)
      <3>. HIDE DEF q, r
      <3>. QED BY <2>1, <2>3, <2>4, <2>6, OpenedStands
    <2>8. r.ok /\ KeepsNotes(r, g[N])
      BY <1>1, <1>2, <1>4, <2>2, <2>4, <2>7, RestKeeps
    <2>9. g[N] = Run(c, tx, fee) /\ InOrder(g[N])
      <3>1. InOrder(Run(c, tx, fee))
        BY <1>1, RunInOrder DEF N
      <3>. QED BY <1>4, <3>1, Zenon
    <2>. DEFINE e == g[N]
    <2>. HIDE DEF q, r, e
    <2>10. q.ok /\ KeepsNotes(q, r)
      <3>1. {} \subseteq NoteAccount
        OBVIOUS
      <3>. DEFINE Z == {}
      <3>. HIDE DEF Z
      <3>. QED BY <2>3, <2>4, <2>5, <2>8, ExecuteKeeps, <3>1 DEF Z
    <2>11. KeepsNotes(c, q)
      <3>1. {} \subseteq NoteAccount
        OBVIOUS
      <3>. QED BY <2>3, <2>5, <2>10, ExecuteKeeps, <3>1
    <2>12. Whole(c) /\ Whole(q) /\ Whole(r) /\ Whole(e)
      BY <2>4, <2>9, InOrderIsIntact DEF Whole, e
    <2>13. KeepsNotes(c, r)
      BY <2>10, <2>11, <2>12, KeptTwice
    <2>14. KeepsNotes(c, e)
      BY <2>8, <2>12, <2>13, KeptTwice DEF e
    <2>. QED BY <2>9, <2>14 DEF e
  <1>. QED BY <1>2, <1>5, <1>6

\* A panic aims at nothing either.
LEMMA TransactionAims ==
  ASSUME NEW P, NEW tx, IsTransaction(P, tx)
  PROVE  \A i \in 1 .. Len(tx) : Aims(P, tx[i])
  <1>1. ASSUME NEW ix, IsStep(P, ix)
        PROVE  Aims(P, ix)
    <2>1. CASE ix = Panic
      <3>1. ix.op = "panic"
        BY <2>1 DEF Panic
      <3>. QED BY <3>1 DEF Aims
    <2>. QED BY <1>1, <2>1 DEF IsStep
  <1>. DEFINE T == ToSet(tx)
  <1>2. tx \in Seq(T) /\ \A ix \in T : IsStep(P, ix)
    BY Zenon DEF IsTransaction
  <1>. HIDE DEF T
  <1>3. \A i \in 1 .. Len(tx) : tx[i] \in T
    BY <1>2
  <1>. QED BY <1>1, <1>2, <1>3

LEMMA GuidedBy ==
  ASSUME NEW c, NEW P, P \subseteq NoteAccount, NEW tx, IsTransaction(P, tx),
         Standing(P, c) \/ Opens(c, P, tx)
  PROVE  Guided(c, tx)
  <1>1. P \in SUBSET NoteAccount /\ \A i \in 1 .. Len(tx) : Aims(P, tx[i])
    BY TransactionAims
  <1>. QED BY <1>1, Zenon DEF Guided

\* Where notes are paid: a position, an account that register_position makes
\* one, or the associated account that is to become one.
LEMMA AddressStands ==
  ASSUME NEW c, InOrder(c), NEW t \in Token
  PROVE  /\ PositionAddress(c, Note(t)) \in NoteAccount /\ Standing({PositionAddress(c, Note(t))}, c)
         /\ PoolTarget(c, t) \in NoteAccount
         /\ Registered(c, Note(t)) => Standing({PoolTarget(c, t)}, c)
         /\ ~Registered(c, Note(t)) => /\ PoolTarget(c, t) = <<Note(t), "ata">>
                                       /\ c.position[Note(t)] = NoAddress
  <1>. DEFINE m == Note(t)
              p == c.position[m]
  <1>1. m \in Mint /\ <<m, "ata">> \in NoteAccount /\ <<m, "pda">> \in NoteAccount
    BY AccountsOf, NoteAccounts
  <1>2. p \in {NoAddress, <<m, "ata">>, <<m, "pda">>}
    BY <1>1 DEF InOrder, Intact, CountedBut
  <1>3. Registered(c, m) <=> p # NoAddress
    BY DEF Registered
  <1>4. /\ PositionAddress(c, m) = IF Registered(c, m) THEN p ELSE <<m, "pda">>
        /\ PoolTarget(c, t) = IF Registered(c, m) THEN p ELSE <<m, "ata">>
    BY Zenon DEF PositionAddress, PoolTarget, derive_position_token_account, associated_token_address
  <1>5. ASSUME p \in {<<m, "ata">>, <<m, "pda">>}
        PROVE  p[1] = m
    BY <1>5
  <1>6. ASSUME p # NoAddress
        PROVE  p \in NoteAccount /\ Standing({p}, c)
    <2>1. p \in {<<m, "ata">>, <<m, "pda">>} /\ p[1] = m
      BY <1>2, <1>5, <1>6
    <2>. HIDE DEF m
    <2>. QED BY <1>1, <2>1 DEF Standing
  <1>7. Standing({<<m, "pda">>}, c)
    BY DEF Standing
  <1>. HIDE DEF p, m
  <1>8. PositionAddress(c, m) \in NoteAccount /\ Standing({PositionAddress(c, m)}, c)
    BY <1>1, <1>3, <1>4, <1>6, <1>7
  <1>9. /\ PoolTarget(c, t) \in NoteAccount
        /\ Registered(c, m) => Standing({PoolTarget(c, t)}, c)
        /\ ~Registered(c, m) => PoolTarget(c, t) = <<m, "ata">> /\ p = NoAddress
    BY <1>1, <1>3, <1>4, <1>6
  <1>. QED BY <1>8, <1>9 DEF m, p

\* pool_deposit makes the associated account a position before it pays into it.
LEMMA PoolDepositOpens ==
  ASSUME NEW c, InOrder(c), NEW o, o.token \in Token, ~Registered(c, Note(o.token))
  PROVE  Opens(c, {PoolTarget(c, o.token)}, pool_deposit(c, o))
  <1>. DEFINE t == o.token
              signer == resolve(o.who, o.authority)
              f == IF o.who = "liquidator" THEN t ELSE NoMint
              a == create_ata(Note(t), "ata")
              b == create_deposit_position(o.who, Note(t))
              d == invoke_ix(o.who, margin_refresh_position(t), f)
              e == invoke_ix(o.who, deposit(t, signer, SourceOf(t, signer), PoolTarget(c, t), Shift(o.n)), f)
              tx == pool_deposit(c, o)
  <1>1. tx = (<<a, b>> \o <<d>>) \o <<e>>
    BY Zenon DEF pool_deposit, invoke_pool_deposit, get_or_create_pool_deposit,
                 create_pool_deposit, create_deposit_account_and_position
  <1>2. /\ a.op = "create_ata" /\ b.op = "create_deposit_position"
        /\ b.account = <<Note(t), "ata">> /\ b.mint = Note(t)
    BY DEF create_ata, create_deposit_position, associated_token_address
  <1>3. PoolTarget(c, t) = <<Note(t), "ata">> /\ c.position[Note(t)] = NoAddress
    BY AddressStands
  <1>. HIDE DEF a, b, d, e, tx
  <1>4. Len(tx) >= 2 /\ tx[1] = a /\ tx[2] = b
    BY <1>1
  <1>5. Opens(c, {PoolTarget(c, t)}, tx)
    BY <1>2, <1>3, <1>4, Zenon DEF Opens
  <1>. QED BY <1>5 DEF tx, t

\* What waits pays its notes into positions: every transaction is plain, or the
\* only one is guided by the chain it was built from.
Waits(c, awaiting) ==
    \/ \A i \in 1 .. Len(awaiting) : IsPlain(awaiting[i])
    \/ Len(awaiting) = 1 /\ Guided(c, awaiting[1])

LEMMA OneWaits ==
  ASSUME NEW c, NEW P, P \subseteq NoteAccount, NEW tx, AreTransactions(P, <<tx>>),
         Standing(P, c) \/ Opens(c, P, tx)
  PROVE  Waits(c, <<tx>>)
  <1>. DEFINE awaiting == <<tx>>
  <1>1. Len(awaiting) = 1 /\ awaiting[1] = tx /\ tx \in ToSet(awaiting)
    BY DEF ToSet
  <1>. HIDE DEF awaiting
  <1>2. IsTransaction(P, tx)
    BY <1>1 DEF AreTransactions, awaiting
  <1>3. Guided(c, tx)
    BY <1>2, GuidedBy
  <1>4. Waits(c, awaiting)
    BY <1>1, <1>3, Zenon DEF Waits
  <1>. QED BY <1>4 DEF awaiting

\* What the builder returns is guided by the chain it read.
LEMMA BuildWaits ==
  ASSUME NEW c, InOrder(c), NEW o \in Operation
  PROVE  Waits(c, Build(c, o))
  <1>. DEFINE P == PaidNotes(c, o)
              built == Build(c, o)
  <1>0. AreTransactions(P, built) /\ o.op \in OperationName /\ o.token \in Token
    BY BuildSteps, OperationAssumption
  <1>1. o.op \in WithSwap => o.to \in Token
    BY OperationAssumption
  <1>2. CASE o.op = "pool_deposit"
    <2>1. built = <<pool_deposit(c, o)>> /\ P = {PoolTarget(c, o.token)}
      BY <1>2, Zenon DEF Build, PaidNotes
    <2>2. P \subseteq NoteAccount /\ (Standing(P, c) \/ Opens(c, P, pool_deposit(c, o)))
      <3>. HIDE DEF P
      <3>. QED BY <1>0, <2>1, AddressStands, PoolDepositOpens
    <2>. HIDE DEF P, built
    <2>3. Waits(c, built)
      BY <1>0, <2>1, <2>2, OneWaits
    <2>. QED BY <2>3 DEF built
  <1>3. ASSUME o.op \in {"pool_deposit_deprecated", "borrow", "margin_swap", "swap_and_repay"},
               NEW t \in Token, P = {PositionAddress(c, Note(t))}, NEW tx, built = <<tx>>
        PROVE  Waits(c, built)
    <2>. HIDE DEF P, built
    <2>1. P \subseteq NoteAccount /\ Standing(P, c)
      BY <1>3, AddressStands
    <2>. QED BY <1>0, <1>3, <2>1, OneWaits
  <1>4. CASE o.op = "pool_deposit_deprecated"
    <2>1. built = <<pool_deposit_deprecated(c, o)>> /\ P = {PositionAddress(c, Note(o.token))}
      BY <1>4, Zenon DEF Build, PaidNotes
    <2>. HIDE DEF P, built
    <2>2. Waits(c, built)
      BY <1>0, <1>3, <1>4, <2>1
    <2>. QED BY <2>2 DEF built
  <1>5. CASE o.op = "borrow"
    <2>1. built = <<borrow(c, o)>> /\ P = {PositionAddress(c, Note(o.token))}
      BY <1>5, Zenon DEF Build, PaidNotes
    <2>. HIDE DEF P, built
    <2>2. Waits(c, built)
      BY <1>0, <1>3, <1>5, <2>1
    <2>. QED BY <2>2 DEF built
  <1>6. CASE o.op = "margin_swap"
    <2>1. built = <<margin_swap(c, o)>> /\ P = {PositionAddress(c, Note(o.to))} /\ o.to \in Token
      BY <1>1, <1>6, Zenon DEF Build, PaidNotes, WithSwap
    <2>. HIDE DEF P, built
    <2>2. Waits(c, built)
      BY <1>3, <1>6, <2>1
    <2>. QED BY <2>2 DEF built
  <1>7. CASE o.op = "swap_and_repay"
    <2>1. built = <<swap_and_repay(c, o)>> /\ P = {PositionAddress(c, Note(o.to))} /\ o.to \in Token
      BY <1>1, <1>7, Zenon DEF Build, PaidNotes, WithSwap
    <2>. HIDE DEF P, built
    <2>2. Waits(c, built)
      BY <1>3, <1>7, <2>1
    <2>. QED BY <2>2 DEF built
  <1>8. CASE o.op \notin {"pool_deposit", "pool_deposit_deprecated", "borrow", "margin_swap",
                          "swap_and_repay"}
    <2>1. P = {}
      BY <1>8, Zenon DEF PaidNotes
    <2>. HIDE DEF P, built
    <2>2. built \in Seq(ToSet(built)) /\ \A tx \in ToSet(built) : IsTransaction({}, tx)
      BY <1>0, <2>1 DEF AreTransactions
    <2>. DEFINE T == ToSet(built)
    <2>3. built \in Seq(T)
      BY <2>2
    <2>. HIDE DEF T
    <2>4. \A i \in 1 .. Len(built) : built[i] \in T
      BY <2>3
    <2>5. \A i \in 1 .. Len(built) : IsPlain(built[i])
      <3>. SUFFICES ASSUME NEW i \in 1 .. Len(built)
                    PROVE  IsPlain(built[i])
        OBVIOUS
      <3>1. IsTransaction({}, built[i])
        BY <2>2, <2>4 DEF T
      <3>. QED BY <3>1, TransactionAims, Zenon DEF IsPlain
    <2>6. Waits(c, built)
      BY <2>5, Zenon DEF Waits
    <2>. QED BY <2>6 DEF built
  <1>. QED BY <1>2, <1>4, <1>5, <1>6, <1>7, <1>8, Zenon

LEMMA WaitsOn ==
  ASSUME NEW c, NEW r, r.position = c.position, NEW awaiting, Waits(c, awaiting)
  PROVE  Waits(r, awaiting)
  <1>1. \A P : Standing(P, c) => Standing(P, r)
    BY DEF Standing
  <1>2. \A P, tx : Opens(c, P, tx) => Opens(r, P, tx)
    BY Zenon DEF Opens
  <1>3. \A tx : Guided(c, tx) => Guided(r, tx)
    BY <1>1, <1>2, Zenon DEF Guided
  <1>. QED BY <1>3, Zenon DEF Waits

\* Of several transactions none pays notes, whatever the chain has become.
LEMMA WaitsInTurn ==
  ASSUME NEW c, NEW X, NEW awaiting \in Seq(X), awaiting # << >>, Waits(c, awaiting)
  PROVE  /\ Guided(c, Head(awaiting))
         /\ Len(awaiting) # 1 => \A r : Waits(r, Tail(awaiting))
  <1>1. 1 \in 1 .. Len(awaiting) /\ Head(awaiting) = awaiting[1]
    OBVIOUS
  <1>2. Guided(c, Head(awaiting))
    <2>1. CASE \A i \in 1 .. Len(awaiting) : IsPlain(awaiting[i])
      <3>1. IsPlain(Head(awaiting))
        BY <1>1, <2>1
      <3>. QED BY <3>1, PlainIsGuided
    <2>2. CASE Len(awaiting) = 1 /\ Guided(c, awaiting[1])
      BY <1>1, <2>2, Zenon
    <2>. QED BY <2>1, <2>2, Zenon DEF Waits
  <1>3. ASSUME Len(awaiting) # 1
        PROVE  \A r : Waits(r, Tail(awaiting))
    <2>1. \A i \in 1 .. Len(awaiting) : IsPlain(awaiting[i])
      BY <1>3, Zenon DEF Waits
    <2>2. \A i \in 1 .. Len(Tail(awaiting)) : Tail(awaiting)[i] = awaiting[i + 1] /\ i + 1 \in 1 .. Len(awaiting)
      OBVIOUS
    <2>3. \A i \in 1 .. Len(Tail(awaiting)) : IsPlain(Tail(awaiting)[i])
      BY <2>1, <2>2
    <2>. QED BY <2>3, Zenon DEF Waits
  <1>. QED BY <1>2, <1>3

\* While nothing else has landed, what waits pays notes into positions only.
FreshIsGuided == pending # Idle /\ ~pending.stale => Waits(chain, pending.txs)

DepositInv == TxBuilderInv /\ FreshIsGuided

LEMMA DepositInitInv == TxBuilderInit => FreshIsGuided
  BY DEF TxBuilderInit, FreshIsGuided

LEMMA DepositNextInv ==
  ASSUME TxBuilderInv, FreshIsGuided, [TxBuilderNext]_txBuilderVars
  PROVE  FreshIsGuided'
  <1>. SUFFICES ASSUME pending' # Idle, ~pending'.stale
                PROVE  Waits(chain', pending'.txs)
    BY Zenon DEF FreshIsGuided
  <1>0. IsPending(pending) /\ InOrder(chain)
    BY DEF TxBuilderInv, AtRest
  <1>1. ASSUME NEW o \in Operation, BuildTransactions(o)
        PROVE  Waits(chain', pending'.txs)
    <2>. DEFINE built == Build(chain, o)
    <2>1. pending' = [o |-> o, txs |-> built, stale |-> FALSE] /\ chain' = chain
      BY <1>1, Zenon DEF BuildTransactions
    <2>2. Waits(chain, built)
      BY <1>0, BuildWaits
    <2>. HIDE DEF built
    <2>3. pending'.txs = built
      BY <2>1
    <2>. QED BY <2>1, <2>2, <2>3, Zenon
  <1>2. ASSUME NEW fee \in Fee, LandTransaction(fee)
        PROVE  Waits(chain', pending'.txs)
    <2>1. /\ pending # Idle
          /\ pending' = IF Len(pending.txs) = 1 THEN Idle ELSE [pending EXCEPT !.txs = Tail(@)]
      BY <1>2, Zenon DEF LandTransaction, Dequeued
    <2>2. Len(pending.txs) # 1 /\ pending' = [pending EXCEPT !.txs = Tail(@)]
      BY <2>1
    <2>3. pending'.txs = Tail(pending.txs) /\ pending'.stale = pending.stale
      BY <1>0, <2>2 DEF IsPending
    <2>4. Waits(chain, pending.txs)
      BY <2>1, <2>3, Zenon DEF FreshIsGuided
    <2>. DEFINE X == ToSet(pending.txs)
    <2>5. pending.txs \in Seq(X) /\ pending.txs # << >>
      BY <1>0, <2>1, Zenon DEF IsPending
    <2>. HIDE DEF X
    <2>6. \A r : Waits(r, Tail(pending.txs))
      BY <2>2, <2>4, <2>5, WaitsInTurn
    <2>. QED BY <2>3, <2>6, Zenon
  <1>3. ~DropTransactions
    BY DEF DropTransactions
  <1>4. ASSUME NEW o \in Racing, NEW fee \in Fee
        PROVE  ~OtherLands(o, fee)
    <2>. SUFFICES ASSUME OtherLands(o, fee)
                  PROVE  FALSE
      OBVIOUS
    <2>1. pending' = [pending EXCEPT !.stale = TRUE]
      BY Zenon DEF OtherLands
    <2>. QED BY <1>0, <2>1 DEF IsPending
  <1>5. ASSUME NEW t \in Token
        PROVE  ~Donate(t)
    <2>. SUFFICES ASSUME Donate(t)
                  PROVE  FALSE
      OBVIOUS
    <2>1. pending' = IF pending = Idle THEN Idle ELSE [pending EXCEPT !.stale = TRUE]
      BY Zenon DEF Donate
    <2>. QED BY <1>0, <2>1 DEF IsPending
  <1>6. ASSUME NEW m \in Mint, UpdateBalance(associated_token_address(m))
        PROVE  Waits(chain', pending'.txs)
    <2>. DEFINE a == associated_token_address(m)
    <2>1. chain' = Run(chain, <<update_position_balance(a)>>, 0) /\ pending' = pending
      BY <1>6, Zenon DEF UpdateBalance
    <2>2. chain'.position = chain.position
      BY <2>1, UpdateKeeps
    <2>3. Waits(chain, pending.txs)
      BY <2>1, Zenon DEF FreshIsGuided
    <2>. QED BY <2>1, <2>2, <2>3, WaitsOn
  <1>7. CASE UNCHANGED txBuilderVars
    BY <1>7, Zenon DEF txBuilderVars, FreshIsGuided
  <1>. QED BY <1>1, <1>2, <1>3, <1>4, <1>5, <1>6, <1>7, Zenon DEF TxBuilderNext

THEOREM DepositInvariance == TxBuilderSpec => []DepositInv
  <1>1. TxBuilderSpec => []TxBuilderInv
    BY TxBuilderInvariance
  <1>2. FreshIsGuided /\ TxBuilderInv /\ [TxBuilderNext]_txBuilderVars => FreshIsGuided'
    BY DepositNextInv
  <1>. QED BY <1>1, <1>2, DepositInitInv, PTL DEF TxBuilderSpec, DepositInv

\* A guided transaction that lands leaves what it minted counted.
LEMMA LandedCounts ==
  ASSUME NEW c, InOrder(c), NEW tx, IsExecutable(tx), Guided(c, tx), NEW fee \in Fees,
         Run(c, tx, fee).ok, NEW d, d = Settled(Run(c, tx, fee)),
         NEW x \in NoteAccount, d.held[x] > c.held[x], d.held[x] > 0
  PROVE  IsCounted(x, d)
  <1>. DEFINE r == Run(c, tx, fee)
  <1>1. KeepsNotes(c, r)
    BY LandedKeeps
  <1>. HIDE DEF r
  <1>2. Settled(r).held = r.held /\ Settled(r).position = r.position /\ Settled(r).cached = r.cached
    BY DEF Settled
  <1>3. d.held = r.held /\ d.position = r.position /\ d.cached = r.cached
    BY <1>2, Zenon DEF r
  <1>4. IsCounted(x, r)
    BY <1>1, <1>3, Zenon DEF KeepsNotes
  <1>. QED BY <1>3, <1>4, Zenon DEF IsCounted

\* A donation moves tokens, not notes.
LEMMA DonatedNotes ==
  ASSUME NEW s, InOrder(s), NEW t \in Token, NEW x \in NoteAccount
  PROVE  Transfer(s, <<Of(t), "wallet">>, associated_token_address(Of(t)), 1).held[x] = s.held[x]
  <1>. DEFINE a == <<Of(t), "wallet">>
              b == associated_token_address(Of(t))
              g == Credited(s.held, a, -1)
              k == Credited(g, b, 1)
              r == Transfer(s, a, b, 1)
  <1>1. DOMAIN s.held = Account /\ {"ok", "held"} \subseteq DOMAIN s /\ x \in Account
    BY NotesAre DEF InOrder, Intact, CountedBut, Shape, Sound
  <1>2. x # a /\ x # b
    BY NoteAccounts DEF associated_token_address
  <1>. HIDE DEF a, b
  <1>3. DOMAIN g = Account /\ g[x] = s.held[x]
    BY <1>1, <1>2 DEF Credited
  <1>. HIDE DEF g
  <1>4. k[x] = g[x]
    BY <1>1, <1>2, <1>3 DEF Credited
  <1>5. r.held = s.held \/ r.held = k
    BY <1>1 DEF Transfer, Require, g
  <1>. HIDE DEF k, r
  <1>6. r.held[x] = s.held[x]
    BY <1>3, <1>4, <1>5, Zenon
  <1>. QED BY <1>6 DEF r, a, b

LEMMA DepositStep ==
  ASSUME DepositInv, TxBuilderInv', [TxBuilderNext]_txBuilderVars,
         pending # Idle, ~pending.stale, NEW x \in NoteAccount,
         chain'.held[x] > chain.held[x], chain'.held[x] > 0
  PROVE  IsCounted(x, chain')
  <1>0. InOrder(chain) /\ IsPending(pending) /\ FreshIsGuided
    BY DEF DepositInv, TxBuilderInv, AtRest
  <1>9. chain'.held[x] # chain.held[x]
    <2>1. Whole(chain)
      BY <1>0, InOrderIsIntact DEF Whole
    <2>2. chain.held[x] \in Int
      BY <2>1, WholeFields, NotesAre
    <2>. QED BY <2>2
  <1>1. ASSUME NEW o \in Operation
        PROVE  ~BuildTransactions(o)
    BY Zenon DEF BuildTransactions
  <1>2. ASSUME NEW fee \in Fee, LandTransaction(fee)
        PROVE  IsCounted(x, chain')
    <2>. DEFINE tx == Head(pending.txs)
    <2>1. Run(chain, tx, fee).ok /\ chain' = Settled(Run(chain, tx, fee))
      BY <1>2, Zenon DEF LandTransaction
    <2>2. IsExecutable(tx)
      BY <1>0, PendingDequeued
    <2>3. Waits(chain, pending.txs)
      BY <1>0, Zenon DEF FreshIsGuided
    <2>4. Guided(chain, tx)
      <3>. DEFINE X == ToSet(pending.txs)
      <3>1. pending.txs \in Seq(X) /\ pending.txs # << >>
        BY <1>0, Zenon DEF IsPending
      <3>. HIDE DEF X
      <3>. QED BY <2>3, <3>1, WaitsInTurn
    <2>5. fee \in Fees
      BY FeeType
    <2>. HIDE DEF tx
    <2>. QED BY <1>0, <2>1, <2>2, <2>4, <2>5, LandedCounts
  <1>3. ~DropTransactions
    BY <1>9, Zenon DEF DropTransactions
  <1>4. ASSUME NEW o \in Racing, NEW fee \in Fee, OtherLands(o, fee)
        PROVE  IsCounted(x, chain')
    <2>. DEFINE built == Build(chain, o)
                tx == built[1]
    <2>1. /\ ~Panics(built) /\ built # << >>
          /\ Run(chain, tx, fee).ok /\ chain' = Settled(Run(chain, tx, fee))
      BY <1>4, Zenon DEF OtherLands
    <2>2. o \in Operation
      BY TxBuilderAssumption
    <2>3. /\ built \in Seq(ToSet(built)) /\ \A u \in ToSet(built) : IsExecutable(u)
          /\ Waits(chain, built)
      BY <1>0, <2>1, <2>2, BuiltIsExecutable, BuildWaits
    <2>. HIDE DEF built
    <2>4. IsExecutable(tx) /\ Guided(chain, tx)
      <3>. DEFINE T == ToSet(built)
      <3>1. built \in Seq(T) /\ built # << >> /\ \A u \in T : IsExecutable(u)
        BY <2>1, <2>3
      <3>. HIDE DEF T
      <3>2. tx \in T /\ tx = Head(built)
        BY <3>1
      <3>. QED BY <2>3, <3>1, <3>2, WaitsInTurn
    <2>5. fee \in Fees
      BY FeeType
    <2>. HIDE DEF tx
    <2>. QED BY <1>0, <2>1, <2>4, <2>5, LandedCounts
  <1>5. ASSUME NEW t \in Token
        PROVE  ~Donate(t)
    <2>. SUFFICES ASSUME Donate(t)
                  PROVE  FALSE
      OBVIOUS
    <2>1. chain' = Transfer(chain, <<Of(t), "wallet">>, associated_token_address(Of(t)), 1)
      BY Zenon DEF Donate
    <2>. QED BY <1>0, <1>9, <2>1, DonatedNotes
  <1>6. ASSUME NEW m \in Mint
        PROVE  ~UpdateBalance(associated_token_address(m))
    <2>. SUFFICES ASSUME UpdateBalance(associated_token_address(m))
                  PROVE  FALSE
      OBVIOUS
    <2>. DEFINE a == associated_token_address(m)
    <2>1. chain' = Run(chain, <<update_position_balance(a)>>, 0)
      BY Zenon DEF UpdateBalance
    <2>2. chain'.held = chain.held
      BY <2>1, UpdateKeeps
    <2>. QED BY <1>9, <2>2, Zenon
  <1>7. ~UNCHANGED txBuilderVars
    BY <1>9, Zenon DEF txBuilderVars
  <1>. QED BY <1>1, <1>2, <1>3, <1>4, <1>5, <1>6, <1>7, Zenon DEF TxBuilderNext

LEMMA NotesOf ==
  ASSUME NEW m \in Mint, m[1] = "note", NEW place \in {"ata", "pda"}
  PROVE  <<m, place>> \in NoteAccount
  <1>1. \A k \in Mint : \E kind \in {"token", "note", "loan"}, t \in Token : k = <<kind, t>>
    BY DEF Mint
  <1>2. PICK kind \in {"token", "note", "loan"}, t \in Token : m = <<kind, t>>
    BY <1>1
  <1>3. m = <<"note", t>>
    BY <1>2
  <1>4. <<Note(t), place>> \in NoteAccount
    BY NoteAccounts
  <1>. QED BY <1>3, <1>4, Zenon DEF Note

LEMMA DepositsStep ==
  ASSUME DepositInv, TxBuilderInv', [TxBuilderNext]_txBuilderVars,
         NEW m \in Mint, NEW place \in {"ata", "pda"},
         pending # Idle, ~pending.stale, m[1] = "note",
         chain'.held[m, place] > chain.held[m, place], chain'.held[m, place] > 0
  PROVE  chain'.position[m] = <<m, place>> /\ chain'.cached[m] = chain'.held[m, place]
  <1>. DEFINE x == <<m, place>>
  <1>1. x \in NoteAccount
    BY NotesOf
  <1>2. x[1] = m
    OBVIOUS
  <1>3. chain'.held[x] > chain.held[x] /\ chain'.held[x] > 0
    OBVIOUS
  <1>. HIDE DEF x
  <1>4. IsCounted(x, chain')
    BY <1>1, <1>3, DepositStep
  <1>5. chain'.position[m] = x /\ chain'.cached[m] = chain'.held[x]
    BY <1>2, <1>4, Zenon DEF IsCounted
  <1>. QED BY <1>5 DEF x

\* Whatever was asked for, in whichever of the builder's ways an account for
\* notes is found or made, and whichever session's transaction it is: notes
\* minted by a transaction that lands on the chain it was built from are in the
\* account that is their position, and the margin account knows the balance.
THEOREM FreshDepositsAreAlwaysCounted == TxBuilderSpec => FreshDepositsAreCounted
  <1>1. /\ DepositInv /\ TxBuilderInv' /\ [TxBuilderNext]_txBuilderVars
        => [\A m \in Mint, place \in {"ata", "pda"} :
              /\ pending # Idle /\ ~pending.stale /\ m[1] = "note"
              /\ chain'.held[m, place] > chain.held[m, place] /\ chain'.held[m, place] > 0
              => chain'.position[m] = <<m, place>> /\ chain'.cached[m] = chain'.held[m, place]]_txBuilderVars
    BY DepositsStep
  <1>. QED BY <1>1, DepositInvariance, TxBuilderInvariance, PTL DEF TxBuilderSpec, FreshDepositsAreCounted
=============================================================================
