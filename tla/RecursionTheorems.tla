------------------------- MODULE RecursionTheorems -------------------------
(***************************************************************************)
(* Induction over the naturals, and what it gives for the recursive        *)
(* functions of this project.  The facts are stated with sets and          *)
(* functions, not with operators as parameters, so that a proof can cite   *)
(* them for a set or a function of its own.                                *)
(***************************************************************************)
EXTENDS Integers, Sequences, FiniteSets, SequencesExt, FiniteSetTheorems,
        SequenceTheorems, WellFoundedInduction, TLAPS

\* A nonempty set of naturals has a least element.
LEMMA LeastElement ==
    ASSUME NEW S \in SUBSET Nat, S # {}
    PROVE  \E x \in S : \A y \in S : x <= y
<1> DEFINE R == {ss \in Nat \X Nat : ss[1] < ss[2]}
<1>1. IsWellFoundedOn(R, Nat)
      BY NatLessThanWellFounded, Zenon DEF OpToRel
<1> HIDE DEF R
<1>2. PICK x \in S : \A y \in S : ~(<<y, x>> \in R)
      BY <1>1, WFMin, Zenon
<1>3. \A y \in S : ~(y < x)
      BY <1>2 DEF R
<1>4. QED
      BY <1>3

\* A set that holds 0 and with every natural the next holds them all.
LEMMA SetInduction ==
    ASSUME NEW S, 0 \in S, \A n \in Nat : n \in S => n + 1 \in S
    PROVE  Nat \subseteq S
<1> DEFINE T == {n \in Nat : n \notin S}
<1>1. SUFFICES ASSUME T # {} PROVE FALSE
      OBVIOUS
<1>2. PICK x \in T : \A y \in T : x <= y
      BY <1>1, LeastElement
<1>3. x \in Nat /\ x # 0
      BY <1>2
<1>4. x - 1 \in Nat /\ x - 1 \in S
      BY <1>2, <1>3
<1>5. (x - 1) + 1 \in S
      BY <1>4
<1>6. QED
      BY <1>2, <1>3, <1>5

\* g lists the intermediate results of folding s from the left with F.
IsFold(g, X, F, b, s) ==
    /\ g \in [0 .. Len(s) -> X]
    /\ g[0] = b
    /\ \A i \in 1 .. Len(s) : g[i] = F[<<g[i - 1], s[i]>>]

\* Folding a sequence from the left with a function: the intermediate results
\* exist.
LEMMA FoldIsDefined ==
    ASSUME NEW X, NEW Y, NEW F \in [X \X Y -> X], NEW b \in X, NEW s \in Seq(Y)
    PROVE  \E g : IsFold(g, X, F, b, s)
<1> DEFINE Folds(g, n) ==
               /\ g \in [0 .. n -> X]
               /\ g[0] = b
               /\ \A i \in 1 .. n : g[i] = F[<<g[i - 1], s[i]>>]
           S == {n \in Nat : n <= Len(s) => \E g : Folds(g, n)}
<1>1. 0 \in S
  <2>1. Folds([i \in 0 .. 0 |-> b], 0)
        OBVIOUS
  <2>2. QED
        BY <2>1
<1>2. ASSUME NEW n \in Nat, n \in S PROVE n + 1 \in S
  <2>1. SUFFICES ASSUME n + 1 <= Len(s) PROVE \E g : Folds(g, n + 1)
        OBVIOUS
  <2>2. PICK g : Folds(g, n)
        BY <1>2, <2>1
  <2> DEFINE h == [i \in 0 .. n + 1 |-> IF i <= n THEN g[i] ELSE F[<<g[n], s[n + 1]>>]]
  <2>3. s[n + 1] \in Y /\ g[n] \in X
        BY <2>1, <2>2
  <2>4. F[<<g[n], s[n + 1]>>] \in X
        BY <2>3
  <2>5. h \in [0 .. n + 1 -> X]
        BY <2>2, <2>4
  <2>6. h[0] = b
        BY <2>2
  <2>7. ASSUME NEW i \in 1 .. n + 1 PROVE h[i] = F[<<h[i - 1], s[i]>>]
    <3>1. CASE i <= n
          BY <2>2, <3>1
    <3>2. CASE i = n + 1
          BY <2>2, <3>2
    <3>3. QED
          BY <3>1, <3>2
  <2>8. QED
        BY <2>5, <2>6, <2>7
<1>3. Nat \subseteq S
  <2> HIDE DEF S
  <2>1. QED
        BY <1>1, <1>2, SetInduction
<1>4. Len(s) \in Nat
      OBVIOUS
<1>5. PICK g : Folds(g, Len(s))
      BY <1>3, <1>4
<1>6. QED
      BY <1>5 DEF IsFold

-----------------------------------------------------------------------------
(* Sums over finite sets, by taking one chosen element after the other.    *)

Chosen(s) == CHOOSE x \in s : TRUE

\* g sums f over the subsets of U.
IsSum(g, f, U) ==
    /\ g \in [SUBSET U -> Int]
    /\ \A s \in SUBSET U : g[s] = IF s = {} THEN 0 ELSE f[Chosen(s)] + g[s \ {Chosen(s)}]

\* Taking the chosen element out of a subset leaves a subset with one less.
LEMMA OneLess ==
    ASSUME NEW U, IsFiniteSet(U), NEW s \in SUBSET U, s # {}
    PROVE  /\ Chosen(s) \in s /\ Chosen(s) \in U
           /\ s \ {Chosen(s)} \in SUBSET U
           /\ Cardinality(s) \in Nat
           /\ Cardinality(s \ {Chosen(s)}) = Cardinality(s) - 1
<1>1. Chosen(s) \in s
      BY Zenon DEF Chosen
<1>2. IsFiniteSet(s)
      BY FS_Subset
<1>3. Cardinality(s) \in Nat
      BY <1>2, FS_CardinalityType
<1>4. Cardinality(s \ {Chosen(s)}) = Cardinality(s) - 1
      BY <1>1, <1>2, FS_RemoveElement
<1>5. QED
      BY <1>1, <1>3, <1>4

\* What holds of the empty set, and of a subset when it holds of the subset
\* without its chosen element, holds of every subset of a finite set.
LEMMA SubsetInduction ==
    ASSUME NEW U, IsFiniteSet(U), NEW P,
           {} \in P,
           \A s \in SUBSET U : s # {} /\ s \ {Chosen(s)} \in P => s \in P
    PROVE  SUBSET U \subseteq P
<1> DEFINE S == {n \in Nat : \A s \in SUBSET U : Cardinality(s) = n => s \in P}
<1>1. \A s \in SUBSET U : IsFiniteSet(s) /\ Cardinality(s) \in Nat
      BY FS_Subset, FS_CardinalityType
<1>2. 0 \in S
  <2>1. ASSUME NEW s \in SUBSET U, Cardinality(s) = 0 PROVE s \in P
    <3>1. s = {}
          BY <1>1, <2>1, FS_EmptySet
    <3>2. QED
          BY <3>1
  <2>2. QED
        BY <2>1
<1>3. ASSUME NEW n \in Nat, n \in S PROVE n + 1 \in S
  <2>1. ASSUME NEW s \in SUBSET U, Cardinality(s) = n + 1 PROVE s \in P
    <3>1. s # {}
          BY <2>1, FS_EmptySet
    <3>2. s \ {Chosen(s)} \in SUBSET U /\ Cardinality(s \ {Chosen(s)}) = Cardinality(s) - 1
          BY <3>1, OneLess
    <3>3. s \ {Chosen(s)} \in P
          BY <1>3, <2>1, <3>2
    <3>4. QED
          BY <3>1, <3>3
  <2>2. QED
        BY <2>1
<1>4. Nat \subseteq S
  <2> HIDE DEF S
  <2>1. QED
        BY <1>2, <1>3, SetInduction
<1>5. QED
      BY <1>1, <1>4

\* Such a sum exists.
LEMMA SumIsDefined ==
    ASSUME NEW U, IsFiniteSet(U), NEW f \in [U -> Int]
    PROVE  \E g : IsSum(g, f, U)
<1> DEFINE D(n) == {s \in SUBSET U : Cardinality(s) <= n}
           Sums(g, n) ==
               /\ g \in [D(n) -> Int]
               /\ \A s \in D(n) : g[s] = IF s = {} THEN 0
                                         ELSE f[Chosen(s)] + g[s \ {Chosen(s)}]
           S == {n \in Nat : \E g : Sums(g, n)}
<1>1. \A s \in SUBSET U : Cardinality(s) \in Nat
      BY FS_Subset, FS_CardinalityType
<1>2. 0 \in S
  <2>1. \A s \in D(0) : s = {}
    <3>1. SUFFICES ASSUME NEW s \in D(0) PROVE s = {}
          OBVIOUS
    <3>2. Cardinality(s) = 0 /\ IsFiniteSet(s)
          BY <1>1, FS_Subset
    <3>3. QED
          BY <3>2, FS_EmptySet
  <2> DEFINE z == [s \in D(0) |-> 0]
  <2>2. Sums(z, 0)
        BY <2>1
  <2>3. QED
        BY <2>2
<1>3. ASSUME NEW n \in Nat, n \in S PROVE n + 1 \in S
  <2>1. PICK g : Sums(g, n)
        BY <1>3
  <2> DEFINE h == [s \in D(n + 1) |-> IF s = {} THEN 0
                                      ELSE f[Chosen(s)] + g[s \ {Chosen(s)}]]
  <2>2. ASSUME NEW s \in D(n + 1), s # {}
        PROVE  Chosen(s) \in U /\ s \ {Chosen(s)} \in D(n)
    <3>1. Chosen(s) \in U /\ s \ {Chosen(s)} \in SUBSET U /\ Cardinality(s) \in Nat
          /\ Cardinality(s \ {Chosen(s)}) = Cardinality(s) - 1
          BY <2>2, OneLess
    <3>2. QED
          BY <2>2, <3>1
  <2>3. D(n) \subseteq D(n + 1)
        BY <1>1
  <2> HIDE DEF D
  <2>4. h \in [D(n + 1) -> Int]
    <3>1. ASSUME NEW s \in D(n + 1), s # {}
          PROVE  f[Chosen(s)] \in Int /\ g[s \ {Chosen(s)}] \in Int
          BY <2>1, <2>2, <3>1
    <3>2. \A s \in D(n + 1) :
              (IF s = {} THEN 0 ELSE f[Chosen(s)] + g[s \ {Chosen(s)}]) \in Int
      <4>1. SUFFICES ASSUME NEW s \in D(n + 1)
                     PROVE  (IF s = {} THEN 0
                             ELSE f[Chosen(s)] + g[s \ {Chosen(s)}]) \in Int
            OBVIOUS
      <4> DEFINE a == f[Chosen(s)]
                 b == g[s \ {Chosen(s)}]
      <4>2. CASE s = {}
            BY <4>2
      <4>3. CASE s # {}
        <5>1. a \in Int /\ b \in Int
              BY <3>1, <4>3, Zenon
        <5> HIDE DEF a, b
        <5>2. a + b \in Int
              BY <5>1
        <5>3. QED
              BY <4>3, <5>2, Zenon DEF a, b
      <4>4. QED
            BY <4>2, <4>3, Zenon
    <3>3. QED
          BY <3>2, Zenon
  <2>5. \A s \in D(n) : h[s] = g[s]
        BY <2>1, <2>3
  <2>6. \A s \in D(n + 1) : h[s] = IF s = {} THEN 0
                                    ELSE f[Chosen(s)] + h[s \ {Chosen(s)}]
        BY <2>2, <2>5
  <2> HIDE DEF h
  <2>7. Sums(h, n + 1)
        BY <2>4, <2>6
  <2> HIDE DEF Sums
  <2>8. n + 1 \in Nat
        OBVIOUS
  <2>9. QED
        BY <2>7, <2>8, Zenon
<1>4. Nat \subseteq S
  <2> HIDE DEF S
  <2>1. QED
        BY <1>2, <1>3, SetInduction
<1>5. Cardinality(U) \in Nat /\ D(Cardinality(U)) = SUBSET U
  <2>1. \A s \in SUBSET U : Cardinality(s) <= Cardinality(U)
        BY FS_Subset
  <2>2. QED
        BY <2>1, FS_CardinalityType
<1>6. PICK g : Sums(g, Cardinality(U))
      BY <1>4, <1>5
<1> HIDE DEF D
<1>7. QED
      BY <1>5, <1>6 DEF IsSum

\* h satisfies the equations of the sum.
SumEquations(h, f, U) ==
    /\ h[{}] = 0
    /\ \A s \in SUBSET U : s # {} => h[s] = f[Chosen(s)] + h[s \ {Chosen(s)}]

\* Whatever satisfies the equations of the sum is the sum.
LEMMA SumIsUnique ==
    ASSUME NEW U, IsFiniteSet(U), NEW f, NEW g, IsSum(g, f, U), NEW h, SumEquations(h, f, U)
    PROVE  h[U] = g[U]
<1> DEFINE P == {s \in SUBSET U : h[s] = g[s]}
<1>1. {} \in P
  <2>1. {} \in SUBSET U
        OBVIOUS
  <2>2. g[{}] = 0
        BY <2>1, Zenon DEF IsSum
  <2>3. QED
        BY <2>1, <2>2, Zenon DEF SumEquations
<1>2. ASSUME NEW s \in SUBSET U, s # {}, s \ {Chosen(s)} \in P PROVE s \in P
  <2>1. g[s] = f[Chosen(s)] + g[s \ {Chosen(s)}]
        BY <1>2, Zenon DEF IsSum
  <2>2. h[s] = f[Chosen(s)] + h[s \ {Chosen(s)}]
        BY <1>2, Zenon DEF SumEquations
  <2>3. h[s \ {Chosen(s)}] = g[s \ {Chosen(s)}]
        BY <1>2, Zenon
  <2>4. QED
        BY <2>1, <2>2, <2>3, Zenon
<1>3. SUBSET U \subseteq P
  <2> HIDE DEF P
  <2>1. QED
        BY <1>1, <1>2, SubsetInduction
<1>4. QED
      BY <1>3

\* The sum of f over S.
Total(f, S) == (CHOOSE g : IsSum(g, f, S))[S]

\* A recursive function that sums f, as the folds of the community modules
\* define it, gives the total, which is an integer.
LEMMA TotalIsSum ==
    ASSUME NEW S, IsFiniteSet(S), NEW f \in [S -> Int]
    PROVE  /\ Total(f, S) \in Int
           /\ LET Def(g) == [s \in SUBSET S |->
                                IF s = {} THEN 0 ELSE f[Chosen(s)] + g[s \ {Chosen(s)}]]
              IN  (CHOOSE g : g = Def(g))[S] = Total(f, S)
<1> DEFINE Def(g) == [s \in SUBSET S |->
                        IF s = {} THEN 0 ELSE f[Chosen(s)] + g[s \ {Chosen(s)}]]
           h == CHOOSE g : g = Def(g)
           k == CHOOSE g : IsSum(g, f, S)
<1>1. IsSum(k, f, S)
      BY SumIsDefined, Zenon
<1>2. k = Def(k)
      BY <1>1 DEF IsSum
<1> HIDE DEF Def, k
<1>3. h = Def(h)
      BY <1>2, Zenon
<1> HIDE DEF h
<1>4. \A s \in SUBSET S : s # {} => h[s] = f[Chosen(s)] + h[s \ {Chosen(s)}]
      BY <1>3 DEF Def
<1>5. h[{}] = 0
  <2>1. {} \in SUBSET S
        OBVIOUS
  <2>2. QED
        BY <1>3, <2>1, Zenon DEF Def
<1>6. h[S] = k[S]
  <2>1. SumEquations(h, f, S)
        BY <1>4, <1>5, Zenon DEF SumEquations
  <2>2. QED
        BY <1>1, <2>1, SumIsUnique, Zenon
<1>7. k[S] \in Int
  <2>1. S \in SUBSET S
        OBVIOUS
  <2>2. QED
        BY <1>1, <2>1, Zenon DEF IsSum
<1>8. QED
      BY <1>6, <1>7, Zenon DEF Total, h, k, Def

\* When f changes at u only, so does the sum, by as much.
LEMMA SumAfterChange ==
    ASSUME NEW U, IsFiniteSet(U), NEW f \in [U -> Int], NEW h \in [U -> Int],
           NEW F, NEW H, IsSum(F, f, U), IsSum(H, h, U),
           NEW u \in U, \A x \in U : x # u => h[x] = f[x]
    PROVE  H[U] = F[U] + h[u] - f[u]
<1> DEFINE P == {s \in SUBSET U : H[s] = F[s] + (IF u \in s THEN h[u] - f[u] ELSE 0)}
<1>1. {} \in P
  <2>1. {} \in SUBSET U /\ u \notin {}
        OBVIOUS
  <2>2. F[{}] = 0 /\ H[{}] = 0
        BY <2>1, Zenon DEF IsSum
  <2>3. H[{}] = F[{}] + (IF u \in {} THEN h[u] - f[u] ELSE 0)
        BY <2>1, <2>2
  <2>4. QED
        BY <2>1, <2>3, Zenon
<1>2. ASSUME NEW s \in SUBSET U, s # {}, s \ {Chosen(s)} \in P PROVE s \in P
  <2> DEFINE c == Chosen(s)
             r == s \ {c}
  <2>1. c \in s /\ c \in U /\ r \in SUBSET U
        BY <1>2, OneLess
  <2>2. F[s] = f[c] + F[r] /\ H[s] = h[c] + H[r]
        BY <1>2 DEF IsSum
  <2>3. F[r] \in Int /\ H[r] \in Int /\ f[c] \in Int /\ h[c] \in Int
        /\ f[u] \in Int /\ h[u] \in Int
        BY <2>1 DEF IsSum
  <2>4. H[r] = F[r] + (IF u \in r THEN h[u] - f[u] ELSE 0)
        BY <1>2
  <2>5. u \in r <=> u \in s /\ u # c
        OBVIOUS
  <2> HIDE DEF c, r
  <2>6. QED
        BY <2>1, <2>2, <2>3, <2>4, <2>5
<1>3. SUBSET U \subseteq P
  <2> HIDE DEF P
  <2>1. QED
        BY <1>1, <1>2, SubsetInduction
<1>4. U \in P
      BY <1>3
<1>5. F[U] \in Int /\ H[U] \in Int /\ h[u] \in Int /\ f[u] \in Int
      BY DEF IsSum
<1>6. QED
      BY <1>4, <1>5

\* A sum of naturals is a natural.
LEMMA SumIsNatural ==
    ASSUME NEW U, IsFiniteSet(U), NEW f \in [U -> Nat], NEW F, IsSum(F, f, U)
    PROVE  F[U] \in Nat
<1> DEFINE P == {s \in SUBSET U : F[s] \in Nat}
<1>1. {} \in P
  <2>1. {} \in SUBSET U
        OBVIOUS
  <2>2. F[{}] = 0
        BY <2>1, Zenon DEF IsSum
  <2>3. F[{}] \in Nat
        BY <2>2
  <2>4. QED
        BY <2>1, <2>3, Zenon
<1>2. ASSUME NEW s \in SUBSET U, s # {}, s \ {Chosen(s)} \in P PROVE s \in P
  <2> DEFINE c == Chosen(s)
             r == s \ {c}
  <2>1. c \in U
        BY <1>2, OneLess
  <2>2. F[s] = f[c] + F[r]
        BY <1>2 DEF IsSum
  <2>3. f[c] \in Nat /\ F[r] \in Nat
        BY <1>2, <2>1
  <2> HIDE DEF c, r
  <2>4. QED
        BY <2>2, <2>3
<1>3. SUBSET U \subseteq P
  <2> HIDE DEF P
  <2>1. QED
        BY <1>1, <1>2, SubsetInduction
<1>4. QED
      BY <1>3

-----------------------------------------------------------------------------
(* Sequences in general.                                                   *)

LEMMA ConcatElements ==
  ASSUME NEW X, NEW s \in Seq(X), NEW t \in Seq(X), NEW x
  PROVE  x \in ToSet(s \o t) <=> x \in ToSet(s) \/ x \in ToSet(t)
  <1>1. /\ s \o t \in Seq(X) /\ Len(s) \in Nat /\ Len(t) \in Nat
        /\ DOMAIN s = 1 .. Len(s) /\ DOMAIN t = 1 .. Len(t)
        /\ DOMAIN (s \o t) = 1 .. Len(s) + Len(t)
        /\ \A i \in 1 .. Len(s) + Len(t) : (s \o t)[i] = IF i <= Len(s) THEN s[i] ELSE t[i - Len(s)]
    BY ConcatProperties
  <1>2. ASSUME x \in ToSet(s \o t) PROVE x \in ToSet(s) \/ x \in ToSet(t)
    <2>1. PICK i \in 1 .. Len(s) + Len(t) : x = (s \o t)[i]
      BY <1>1, <1>2 DEF ToSet
    <2>2. x = IF i <= Len(s) THEN s[i] ELSE t[i - Len(s)]
      BY <1>1, <2>1
    <2>3. CASE i <= Len(s)
      BY <1>1, <2>2, <2>3 DEF ToSet
    <2>4. CASE ~(i <= Len(s))
      <3>1. i - Len(s) \in DOMAIN t
        BY <1>1, <2>4
      <3> QED
        BY <2>2, <2>4, <3>1 DEF ToSet
    <2> QED
      BY <2>3, <2>4
  <1>3. ASSUME x \in ToSet(s) PROVE x \in ToSet(s \o t)
    <2>1. PICK i \in 1 .. Len(s) : x = s[i]
      BY <1>1, <1>3 DEF ToSet
    <2>2. i \in 1 .. Len(s) + Len(t) /\ (s \o t)[i] = s[i]
      BY <1>1
    <2> QED
      BY <1>1, <2>1, <2>2 DEF ToSet
  <1>4. ASSUME x \in ToSet(t) PROVE x \in ToSet(s \o t)
    <2>1. PICK i \in 1 .. Len(t) : x = t[i]
      BY <1>1, <1>4 DEF ToSet
    <2>2. i + Len(s) \in 1 .. Len(s) + Len(t) /\ (s \o t)[i + Len(s)] = t[i]
      BY <1>1
    <2> QED
      BY <1>1, <2>1, <2>2 DEF ToSet
  <1> QED
    BY <1>2, <1>3, <1>4

LEMMA ReverseProperties ==
  ASSUME NEW X, NEW s \in Seq(X)
  PROVE  /\ Reverse(s) \in Seq(X) /\ Len(Reverse(s)) = Len(s)
         /\ \A i \in 1 .. Len(s) : /\ Len(s) - i + 1 \in 1 .. Len(s)
                                   /\ Reverse(s)[i] = s[Len(s) - i + 1]
         /\ Reverse(Reverse(s)) = s
         /\ ToSet(Reverse(s)) = ToSet(s)
  <1> DEFINE n == Len(s)
  <1>1. n \in Nat /\ DOMAIN s = 1 .. n /\ \A i \in 1 .. n : s[i] \in X
    OBVIOUS
  <1> HIDE DEF n
  <1>2. \A i \in 1 .. n : n - i + 1 \in 1 .. n /\ (n - i) + 1 = n - i + 1
    BY <1>1
  <1>3. Reverse(s) = [i \in 1 .. n |-> s[n - i + 1]]
    BY <1>2 DEF Reverse, n
  <1>4. /\ Reverse(s) \in Seq(X) /\ Len(Reverse(s)) = n /\ DOMAIN Reverse(s) = 1 .. n
        /\ \A i \in 1 .. n : Reverse(s)[i] = s[n - i + 1]
    <2>1. \A i \in 1 .. n : s[n - i + 1] \in X
      BY <1>1, <1>2
    <2> QED
      BY <1>1, <1>3, <2>1
  <1>5. Reverse(Reverse(s)) = s
    <2> DEFINE r == Reverse(s)
               rr == Reverse(r)
    <2>1. rr = [i \in 1 .. n |-> r[(n - i) + 1]]
      <3>1. Len(r) = n
        BY <1>4
      <3> HIDE DEF r
      <3> QED
        BY <3>1, Zenon DEF Reverse
    <2> HIDE DEF r
    <2>2. ASSUME NEW i \in 1 .. n PROVE rr[i] = s[i]
      <3>1. n - i + 1 \in 1 .. n /\ n - (n - i + 1) + 1 = i
        BY <1>1
      <3>2. rr[i] = r[n - i + 1]
        BY <2>1, <1>2
      <3> QED
        BY <1>4, <3>1, <3>2 DEF r
    <2>3. DOMAIN rr = 1 .. n /\ rr = [i \in 1 .. n |-> rr[i]] /\ s = [i \in 1 .. n |-> s[i]]
      BY <1>1, <2>1
    <2> HIDE DEF rr
    <2>4. rr = s
      BY <2>2, <2>3
    <2> QED
      BY <2>4 DEF r, rr
  <1>6. ASSUME NEW x PROVE x \in ToSet(Reverse(s)) <=> x \in ToSet(s)
    <2>1. ASSUME x \in ToSet(Reverse(s)) PROVE x \in ToSet(s)
      BY <1>1, <1>2, <1>4, <2>1 DEF ToSet
    <2>2. ASSUME x \in ToSet(s) PROVE x \in ToSet(Reverse(s))
      <3>1. PICK i \in 1 .. n : x = s[i]
        BY <1>1, <2>2 DEF ToSet
      <3>2. n - i + 1 \in 1 .. n /\ n - (n - i + 1) + 1 = i
        BY <1>1
      <3>3. Reverse(s)[n - i + 1] = s[i]
        BY <1>4, <3>2
      <3> QED
        BY <1>4, <3>1, <3>2, <3>3 DEF ToSet
    <2> QED
      BY <2>1, <2>2
  <1> QED
    BY <1>2, <1>4, <1>5, <1>6 DEF n

LEMMA ReverseConcat ==
  ASSUME NEW X, NEW s \in Seq(X), NEW t \in Seq(X)
  PROVE  Reverse(s \o t) = Reverse(t) \o Reverse(s)
  <1> DEFINE m == Len(s)
             n == Len(t)
             st == s \o t
             rs == Reverse(s)
             rt == Reverse(t)
             a == Reverse(st)
             b == rt \o rs
  <1>1. /\ m \in Nat /\ n \in Nat
        /\ st \in Seq(X) /\ Len(st) = m + n
        /\ \A i \in 1 .. m + n : st[i] = IF i <= m THEN s[i] ELSE t[i - m]
    BY ConcatProperties
  <1>2. /\ rt \in Seq(X) /\ Len(rt) = n
        /\ \A i \in 1 .. n : rt[i] = t[n - i + 1]
    BY ReverseProperties
  <1>3. /\ rs \in Seq(X) /\ Len(rs) = m
        /\ \A i \in 1 .. m : rs[i] = s[m - i + 1]
    BY ReverseProperties
  <1> HIDE DEF m, n, st, rs, rt
  <1>4. /\ a \in Seq(X) /\ Len(a) = m + n
        /\ \A i \in 1 .. m + n : a[i] = st[(m + n) - i + 1]
    <2>1. /\ a \in Seq(X) /\ Len(a) = Len(st)
          /\ \A i \in 1 .. Len(st) : a[i] = st[Len(st) - i + 1]
      BY <1>1, ReverseProperties, Zenon
    <2> HIDE DEF a
    <2> QED
      BY <1>1, <2>1
  <1>5. /\ b \in Seq(X) /\ Len(b) = n + m
        /\ \A i \in 1 .. n + m : b[i] = IF i <= n THEN rt[i] ELSE rs[i - n]
    <2>0. rt \in Seq(X) /\ rs \in Seq(X)
      BY <1>2, <1>3
    <2>1. /\ b \in Seq(X) /\ Len(b) = Len(rt) + Len(rs)
          /\ \A i \in 1 .. Len(rt) + Len(rs) : b[i] = IF i <= Len(rt) THEN rt[i] ELSE rs[i - Len(rt)]
      BY <2>0, ConcatProperties
    <2> HIDE DEF b
    <2> QED
      BY <1>2, <1>3, <2>1, Zenon
  <1> HIDE DEF a, b
  <1>6. ASSUME NEW i \in 1 .. m + n PROVE a[i] = b[i]
    <2>1. (m + n) - i + 1 \in 1 .. m + n /\ i \in 1 .. n + m
      BY <1>1
    <2>2. a[i] = IF (m + n) - i + 1 <= m THEN s[(m + n) - i + 1] ELSE t[((m + n) - i + 1) - m]
      BY <1>1, <1>4, <2>1
    <2>3. CASE i <= n
      <3>1. ~((m + n) - i + 1 <= m) /\ ((m + n) - i + 1) - m = n - i + 1 /\ i \in 1 .. n
        BY <1>1, <2>3
      <3> QED
        BY <1>2, <1>5, <2>1, <2>2, <2>3, <3>1
    <2>4. CASE ~(i <= n)
      <3>1. (m + n) - i + 1 <= m /\ i - n \in 1 .. m /\ m - (i - n) + 1 = (m + n) - i + 1
        BY <1>1, <2>4
      <3> QED
        BY <1>3, <1>5, <2>1, <2>2, <2>4, <3>1
    <2> QED
      BY <2>3, <2>4
  <1>7. a = [i \in 1 .. m + n |-> a[i]] /\ b = [i \in 1 .. m + n |-> b[i]]
    BY <1>1, <1>4, <1>5
  <1>8. a = b
    BY <1>6, <1>7
  <1> QED
    BY <1>8 DEF a, b, st, rs, rt

-----------------------------------------------------------------------------
(* Flattening sequences of sequences.                                      *)

\* g lists the intermediate results of flattening ss.
IsFlattening(g, X, ss) ==
    /\ g \in [0 .. Len(ss) -> Seq(X)]
    /\ g[0] = << >>
    /\ \A i \in 1 .. Len(ss) : g[i] = g[i - 1] \o ss[i]

\* Flattenings of two sequences agree as far as the sequences do.
LEMMA FlatteningsAgree ==
  ASSUME NEW X, NEW ss, NEW tt, NEW g, NEW h, NEW m \in Nat,
         Len(ss) \in Nat, Len(tt) \in Nat,
         IsFlattening(g, X, ss), IsFlattening(h, X, tt),
         m <= Len(ss), m <= Len(tt), \A i \in 1 .. m : ss[i] = tt[i]
  PROVE  g[m] = h[m]
  <1> DEFINE S == {n \in Nat : n <= m => g[n] = h[n]}
  <1>1. 0 \in S
    BY DEF IsFlattening
  <1>2. ASSUME NEW n \in Nat, n \in S PROVE n + 1 \in S
    <2>1. SUFFICES ASSUME n + 1 <= m PROVE g[n + 1] = h[n + 1]
      OBVIOUS
    <2>2. n + 1 \in 1 .. Len(ss) /\ n + 1 \in 1 .. Len(tt) /\ n + 1 \in 1 .. m /\ (n + 1) - 1 = n
      BY <2>1
    <2>3. g[n + 1] = g[n] \o ss[n + 1] /\ h[n + 1] = h[n] \o tt[n + 1]
      BY <2>2 DEF IsFlattening
    <2>4. g[n] = h[n] /\ ss[n + 1] = tt[n + 1]
      BY <1>2, <2>1, <2>2
    <2> QED
      BY <2>3, <2>4
  <1>3. Nat \subseteq S
    <2> HIDE DEF S
    <2> QED
      BY <1>1, <1>2, SetInduction
  <1> QED
    BY <1>3

\* FlattenSeq is the last of the intermediate results, which exist.
LEMMA FlattenSeqIsFlattening ==
  ASSUME NEW X, NEW ss \in Seq(Seq(X))
  PROVE  \E g : IsFlattening(g, X, ss) /\ FlattenSeq(ss) = g[Len(ss)]
  <1> DEFINE n == Len(ss)
             F == [z \in Seq(X) \X Seq(X) |-> z[1] \o z[2]]
             Def(f) == [i \in 1 .. n |-> IF i = 1 THEN ss[i] ELSE f[i - 1] \o ss[i]]
             flat == CHOOSE f : f = Def(f)
  <1>1. n \in Nat /\ n = Len(ss) /\ \A i \in 1 .. n : ss[i] \in Seq(X)
    OBVIOUS
  <1>0. \A s, t \in Seq(X) : F[<<s, t>>] = s \o t
    OBVIOUS
  <1>2. PICK g : IsFold(g, Seq(X), F, << >>, ss)
    <2>1. F \in [Seq(X) \X Seq(X) -> Seq(X)]
      <3>1. \A s, t \in Seq(X) : s \o t \in Seq(X)
        BY ConcatProperties
      <3> QED
        BY <3>1
    <2>2. << >> \in Seq(X)
      OBVIOUS
    <2> HIDE DEF F
    <2> QED
      BY <2>1, <2>2, FoldIsDefined
  <1>3. IsFlattening(g, X, ss)
    <2>1. ASSUME NEW i \in 1 .. n PROVE g[i] = g[i - 1] \o ss[i]
      <3>1. g[i - 1] \in Seq(X) /\ ss[i] \in Seq(X) /\ g[i] = F[<<g[i - 1], ss[i]>>]
        <4>1. i \in 1 .. Len(ss) /\ i - 1 \in 0 .. Len(ss)
          BY <1>1
        <4> HIDE DEF F, n
        <4> QED
          BY <1>1, <1>2, <4>1, Zenon DEF IsFold
      <3>2. F[<<g[i - 1], ss[i]>>] = g[i - 1] \o ss[i]
        <4> HIDE DEF F
        <4> QED
          BY <1>0, <3>1, Zenon
      <3> QED
        BY <3>1, <3>2, Zenon
    <2> QED
      BY <1>2, <2>1 DEF IsFold, IsFlattening
  <1> HIDE DEF F
  <1>6. g[0] = << >> /\ \A i \in 1 .. n : g[i] = g[i - 1] \o ss[i]
    BY <1>3 DEF IsFlattening
  <1>7. n # 0 => g[1] = ss[1] /\ 1 \in 1 .. n
    <2>1. SUFFICES ASSUME n # 0 PROVE g[1] = ss[1] /\ 1 \in 1 .. n
      OBVIOUS
    <2>2. 1 \in 1 .. n /\ 1 - 1 = 0
      <3> HIDE DEF n
      <3> QED
        BY <1>1, <2>1
    <2>3. g[1] = << >> \o ss[1]
      <3> HIDE DEF n
      <3> QED
        BY <1>6, <2>2
    <2>4. << >> \o ss[1] = ss[1]
      BY <1>1, <2>2, ConcatEmptySeq
    <2> QED
      BY <2>2, <2>3, <2>4
  <1>4. CASE n = 0
    <2>1. ss = << >> /\ FlattenSeq(ss) = ss
      BY <1>4 DEF FlattenSeq
    <2> QED
      BY <1>3, <1>4, <2>1 DEF IsFlattening
  <1>5. CASE n # 0
    <2> DEFINE h == [i \in 1 .. n |-> g[i]]
    <2>1. h = Def(h)
      <3>1. ASSUME NEW i \in 1 .. n PROVE h[i] = IF i = 1 THEN ss[i] ELSE h[i - 1] \o ss[i]
        <4> HIDE DEF n
        <4>1. CASE i = 1
          BY <1>5, <1>7, <4>1
        <4>2. CASE i # 1
          <5>0. i - 1 \in 1 .. n
            BY <1>1, <4>2
          <5>1. i - 1 \in 1 .. n /\ g[i] = g[i - 1] \o ss[i]
            BY <1>6, <5>0, Zenon
          <5>2. h[i] = g[i] /\ h[i - 1] = g[i - 1]
            BY <5>1, Zenon
          <5> HIDE DEF h
          <5> QED
            BY <4>2, <5>1, <5>2
        <4> QED
          BY <4>1, <4>2
      <3> HIDE DEF n
      <3> QED
        BY <3>1
    <2>2. flat = Def(flat)
      <3> HIDE DEF Def, h
      <3> QED
        BY <2>1, Zenon
    <2>3. FlattenSeq(ss) = flat[n]
      BY <1>5 DEF FlattenSeq
    <2> HIDE DEF flat, n
    <2> DEFINE S == {j \in Nat : j \in 1 .. n => flat[j] = g[j]}
    <2>4. 0 \in S
      OBVIOUS
    <2>5. ASSUME NEW j \in Nat, j \in S PROVE j + 1 \in S
      <3>1. SUFFICES ASSUME j + 1 \in 1 .. n PROVE flat[j + 1] = g[j + 1]
        OBVIOUS
      <3>2. CASE j = 0
        <4>1. flat[1] = ss[1]
          BY <1>5, <2>2, <1>1
        <4> QED
          BY <1>5, <1>7, <3>2, <4>1
      <3>3. CASE j # 0
        <4>1. j \in 1 .. n /\ j + 1 # 1 /\ (j + 1) - 1 = j
          BY <1>1, <3>1, <3>3
        <4>2. flat[j + 1] = flat[j] \o ss[j + 1]
          BY <2>2, <3>1, <4>1
        <4>3. g[j + 1] = g[j] \o ss[j + 1]
          BY <1>6, <3>1, <4>1
        <4> QED
          BY <2>5, <4>1, <4>2, <4>3
      <3> QED
        BY <3>2, <3>3
    <2>6. Nat \subseteq S
      <3> HIDE DEF S
      <3> QED
        BY <2>4, <2>5, SetInduction
    <2>7. flat[n] = g[n]
      BY <1>1, <1>5, <2>6
    <2> QED
      BY <1>3, <2>3, <2>7 DEF n
  <1> QED
    BY <1>4, <1>5

\* Any list of intermediate results ends with the flattening.
LEMMA FlattenSeqIs ==
  ASSUME NEW X, NEW ss \in Seq(Seq(X)), NEW g, IsFlattening(g, X, ss)
  PROVE  FlattenSeq(ss) = g[Len(ss)] /\ FlattenSeq(ss) \in Seq(X)
  <1>1. PICK h : IsFlattening(h, X, ss) /\ FlattenSeq(ss) = h[Len(ss)]
    BY FlattenSeqIsFlattening
  <1>2. Len(ss) \in Nat /\ Len(ss) <= Len(ss) /\ Len(ss) \in 0 .. Len(ss)
    OBVIOUS
  <1>3. g[Len(ss)] = h[Len(ss)]
    <2>1. \A i \in 1 .. Len(ss) : ss[i] = ss[i]
      OBVIOUS
    <2> QED
      BY <1>1, <1>2, <2>1, FlatteningsAgree
  <1>4. g[Len(ss)] \in Seq(X)
    BY <1>2, Zenon DEF IsFlattening
  <1> QED
    BY <1>1, <1>3, <1>4, Zenon

LEMMA FlattenSeqType ==
  ASSUME NEW X, NEW ss \in Seq(Seq(X))
  PROVE  FlattenSeq(ss) \in Seq(X)
  BY FlattenSeqIsFlattening, FlattenSeqIs, Zenon

LEMMA FlattenEmpty == FlattenSeq(<< >>) = << >>
  BY DEF FlattenSeq

LEMMA FlattenSingle ==
  ASSUME NEW X, NEW s \in Seq(X)
  PROVE  <<s>> \in Seq(Seq(X)) /\ FlattenSeq(<<s>>) = s
  <1>1. <<s>> \in Seq(Seq(X)) /\ Len(<<s>>) = 1 /\ <<s>>[1] = s
    OBVIOUS
  <1>2. PICK g : IsFlattening(g, X, <<s>>) /\ FlattenSeq(<<s>>) = g[Len(<<s>>)]
    BY <1>1, FlattenSeqIsFlattening, Zenon
  <1>3. g[1] = g[0] \o <<s>>[1] /\ g[0] = << >>
    <2>1. 1 \in 1 .. Len(<<s>>) /\ 1 - 1 = 0
      BY <1>1
    <2>2. g[1] = g[1 - 1] \o <<s>>[1] /\ g[0] = << >>
      BY <1>2, <2>1, Zenon DEF IsFlattening
    <2> QED
      BY <2>1, <2>2
  <1>4. << >> \o s = s
    BY ConcatEmptySeq
  <1> QED
    BY <1>1, <1>2, <1>3, <1>4

LEMMA FlattenConcat ==
  ASSUME NEW X, NEW ss \in Seq(Seq(X)), NEW tt \in Seq(Seq(X))
  PROVE  FlattenSeq(ss \o tt) = FlattenSeq(ss) \o FlattenSeq(tt)
  <1> DEFINE m == Len(ss)
             n == Len(tt)
             both == ss \o tt
  <1>1. PICK g : IsFlattening(g, X, ss) /\ FlattenSeq(ss) = g[m]
    BY FlattenSeqIsFlattening
  <1>2. PICK h : IsFlattening(h, X, tt) /\ FlattenSeq(tt) = h[n]
    BY FlattenSeqIsFlattening
  <1> DEFINE k == [i \in 0 .. m + n |-> IF i <= m THEN g[i] ELSE g[m] \o h[i - m]]
  <1>3. /\ m \in Nat /\ n \in Nat /\ both \in Seq(Seq(X)) /\ Len(both) = m + n
        /\ \A i \in 1 .. m : both[i] = ss[i] /\ ss[i] \in Seq(X)
        /\ \A i \in 1 .. n : both[m + i] = tt[i] /\ tt[i] \in Seq(X)
    BY ConcatProperties
  <1>4. /\ g[0] = << >> /\ h[0] = << >>
        /\ \A i \in 0 .. m : g[i] \in Seq(X)
        /\ \A i \in 0 .. n : h[i] \in Seq(X)
        /\ \A i \in 1 .. m : g[i] = g[i - 1] \o ss[i]
        /\ \A i \in 1 .. n : h[i] = h[i - 1] \o tt[i]
    BY <1>1, <1>2, Zenon DEF IsFlattening
  <1> HIDE DEF m, n, both
  <1>5. \A i \in 0 .. m : k[i] = g[i]
    BY <1>3
  <1>6. \A i \in 0 .. n : k[m + i] = g[m] \o h[i]
    <2>1. SUFFICES ASSUME NEW i \in 0 .. n PROVE k[m + i] = g[m] \o h[i]
      OBVIOUS
    <2>2. m + i \in 0 .. m + n /\ (m + i) - m = i /\ (m + i <= m <=> i = 0)
      BY <1>3
    <2>3. k[m + i] = IF m + i <= m THEN g[m + i] ELSE g[m] \o h[(m + i) - m]
      BY <2>2, Zenon
    <2>4. CASE i = 0
      <3>1. k[m + i] = g[m] /\ g[m] \in Seq(X) /\ h[i] = << >>
        BY <1>3, <1>4, <1>5, <2>4
      <3>2. g[m] \o << >> = g[m]
        BY <3>1, ConcatEmptySeq
      <3> QED
        BY <3>1, <3>2
    <2>5. CASE i # 0
      <3> HIDE DEF k
      <3> QED
        BY <2>2, <2>3, <2>5
    <2> QED
      BY <2>4, <2>5
  <1>7. IsFlattening(k, X, both)
    <2>1. k \in [0 .. m + n -> Seq(X)]
      <3>1. SUFFICES ASSUME NEW i \in 0 .. m + n PROVE (IF i <= m THEN g[i] ELSE g[m] \o h[i - m]) \in Seq(X)
        BY Zenon
      <3>2. CASE i <= m
        BY <1>3, <1>4, <3>2
      <3>3. CASE ~(i <= m)
        <4>1. m \in 0 .. m /\ i - m \in 0 .. n
          BY <1>3, <3>3
        <4>2. g[m] \in Seq(X) /\ h[i - m] \in Seq(X)
          BY <1>4, <4>1, Zenon
        <4>3. g[m] \o h[i - m] \in Seq(X)
          BY <4>2, ConcatProperties
        <4> QED
          BY <3>3, <4>3
      <3> QED
        BY <3>2, <3>3
    <2>2. k[0] = << >>
      BY <1>3, <1>4, <1>5
    <2>3. ASSUME NEW i \in 1 .. m + n PROVE k[i] = k[i - 1] \o both[i]
      <3> HIDE DEF k
      <3>1. CASE i <= m
        <4>1. i \in 1 .. m /\ i \in 0 .. m /\ i - 1 \in 0 .. m
          BY <1>3, <3>1
        <4> QED
          BY <1>3, <1>4, <1>5, <4>1, Zenon
      <3>2. CASE ~(i <= m)
        <4> DEFINE j == i - m
        <4>1. j \in 1 .. n /\ j \in 0 .. n /\ j - 1 \in 0 .. n /\ m + j = i /\ m + (j - 1) = i - 1 /\ m \in 0 .. m
          BY <1>3, <3>2
        <4> HIDE DEF j
        <4>2. k[m + j] = g[m] \o h[j] /\ k[m + (j - 1)] = g[m] \o h[j - 1] /\ both[m + j] = tt[j]
          BY <1>3, <1>6, <4>1, Zenon
        <4>3. k[i] = g[m] \o h[j] /\ k[i - 1] = g[m] \o h[j - 1] /\ both[i] = tt[j]
          BY <4>1, <4>2
        <4>4. g[m] \in Seq(X) /\ h[j - 1] \in Seq(X) /\ tt[j] \in Seq(X) /\ h[j] = h[j - 1] \o tt[j]
          BY <1>3, <1>4, <4>1, Zenon
        <4>5. (g[m] \o h[j - 1]) \o tt[j] = g[m] \o (h[j - 1] \o tt[j])
          <5> DEFINE u == g[m]
                     v == h[j - 1]
                     w == tt[j]
          <5>1. u \in Seq(X) /\ v \in Seq(X) /\ w \in Seq(X)
            BY <4>4
          <5> HIDE DEF u, v, w
          <5>2. (u \o v) \o w = u \o (v \o w)
            BY <5>1, ConcatAssociative, SMTT(30)
          <5> QED
            BY <5>2 DEF u, v, w
        <4> QED
          BY <4>3, <4>4, <4>5, Zenon
      <3> QED
        BY <3>1, <3>2
    <2> HIDE DEF k
    <2> QED
      BY <1>3, <2>1, <2>2, <2>3, Zenon DEF IsFlattening
  <1> HIDE DEF k
  <1>8. FlattenSeq(both) = k[Len(both)]
    BY <1>3, <1>7, FlattenSeqIs, Zenon
  <1>9. k[m + n] = g[m] \o h[n]
    <2>1. n \in 0 .. n
      BY <1>3
    <2> QED
      BY <1>6, <2>1, Zenon
  <1> QED
    BY <1>1, <1>2, <1>3, <1>8, <1>9 DEF both

\* The elements of a flattening are those of the sequences in it.
LEMMA FlattenElements ==
  ASSUME NEW X, NEW ss \in Seq(Seq(X)), NEW x
  PROVE  x \in ToSet(FlattenSeq(ss)) <=> \E i \in 1 .. Len(ss) : x \in ToSet(ss[i])
  <1> DEFINE n == Len(ss)
             T(j) == \E i \in 1 .. j : x \in ToSet(ss[i])
  <1>1. PICK g : IsFlattening(g, X, ss) /\ FlattenSeq(ss) = g[n]
    BY FlattenSeqIsFlattening
  <1>2. /\ n \in Nat
        /\ g[0] = << >>
        /\ \A i \in 0 .. n : g[i] \in Seq(X)
        /\ \A i \in 1 .. n : g[i] = g[i - 1] \o ss[i] /\ ss[i] \in Seq(X)
    <2>1. n \in Nat /\ \A i \in 1 .. n : ss[i] \in Seq(X)
      OBVIOUS
    <2> QED
      BY <1>1, <2>1, Zenon DEF IsFlattening
  <1> HIDE DEF n
  <1> DEFINE S == {j \in Nat : j <= n => (x \in ToSet(g[j]) <=> T(j))}
  <1>3. 0 \in S
    <2>1. ToSet(g[0]) = {}
      BY <1>2 DEF ToSet
    <2> QED
      BY <2>1
  <1>4. ASSUME NEW j \in Nat, j \in S PROVE j + 1 \in S
    <2>1. SUFFICES ASSUME j + 1 <= n PROVE x \in ToSet(g[j + 1]) <=> T(j + 1)
      OBVIOUS
    <2>2. j + 1 \in 1 .. n /\ (j + 1) - 1 = j /\ j \in 0 .. n /\ j <= n
      BY <1>2, <2>1
    <2>3. g[j + 1] = g[j] \o ss[j + 1] /\ g[j] \in Seq(X) /\ ss[j + 1] \in Seq(X)
      BY <1>2, <2>2
    <2>4. x \in ToSet(g[j + 1]) <=> x \in ToSet(g[j]) \/ x \in ToSet(ss[j + 1])
      BY <2>3, ConcatElements, Zenon
    <2>5. T(j + 1) <=> T(j) \/ x \in ToSet(ss[j + 1])
      <3> HIDE DEF n
      <3>1. 1 .. j + 1 = (1 .. j) \cup {j + 1}
        OBVIOUS
      <3> QED
        BY <3>1, Zenon
    <2> QED
      BY <1>4, <2>2, <2>4, <2>5
  <1>5. Nat \subseteq S
    <2> HIDE DEF S
    <2> QED
      BY <1>3, <1>4, SetInduction
  <1> QED
    BY <1>1, <1>2, <1>5 DEF n

\* The sequences of ss in the reverse order, and each of them reversed.
Turned(ss) == [i \in 1 .. Len(ss) |-> Reverse(ss[Len(ss) - i + 1])]

LEMMA TurnedType ==
  ASSUME NEW X, NEW ss \in Seq(Seq(X))
  PROVE  /\ Turned(ss) \in Seq(Seq(X)) /\ Len(Turned(ss)) = Len(ss)
         /\ \A i \in 1 .. Len(ss) : Turned(ss)[i] = Reverse(ss[Len(ss) - i + 1])
  <1> DEFINE n == Len(ss)
  <1>1. n \in Nat /\ \A i \in 1 .. n : ss[i] \in Seq(X)
    OBVIOUS
  <1> HIDE DEF n
  <1>2. \A i \in 1 .. n : Reverse(ss[n - i + 1]) \in Seq(X)
    <2>1. SUFFICES ASSUME NEW i \in 1 .. n PROVE Reverse(ss[n - i + 1]) \in Seq(X)
      OBVIOUS
    <2>2. n - i + 1 \in 1 .. n
      BY <1>1
    <2>3. ss[n - i + 1] \in Seq(X)
      BY <1>1, <2>2
    <2> QED
      BY <2>3, ReverseProperties
  <1>3. Turned(ss) = [i \in 1 .. n |-> Reverse(ss[n - i + 1])]
    BY DEF Turned, n
  <1> QED
    BY <1>1, <1>2, <1>3 DEF n

\* Turning the sequences reverses their flattening.
LEMMA FlattenTurned ==
  ASSUME NEW X, NEW seqs \in Seq(Seq(X))
  PROVE  FlattenSeq(Turned(seqs)) = Reverse(FlattenSeq(seqs))
  <1> DEFINE Good(ss) == FlattenSeq(Turned(ss)) = Reverse(FlattenSeq(ss))
             S == {n \in Nat : \A ss \in Seq(Seq(X)) : Len(ss) = n => Good(ss)}
  <1>1. 0 \in S
    <2>1. SUFFICES ASSUME NEW ss \in Seq(Seq(X)), Len(ss) = 0 PROVE Good(ss)
      OBVIOUS
    <2>2. ss = << >> /\ Turned(ss) = << >>
      BY <2>1 DEF Turned
    <2>3. Reverse(<< >>) = << >>
      BY DEF Reverse
    <2> QED
      BY <2>2, <2>3, FlattenEmpty
  <1>2. ASSUME NEW n \in Nat, n \in S PROVE n + 1 \in S
    <2>1. SUFFICES ASSUME NEW ss \in Seq(Seq(X)), Len(ss) = n + 1 PROVE Good(ss)
      OBVIOUS
    <2>2. PICK tt \in Seq(Seq(X)), e \in Seq(X) : ss = Append(tt, e)
      <3>1. ss # << >>
        BY <2>1
      <3> QED
        BY <3>1, SequenceEmptyOrAppend, Zenon
    <2>3. ss = tt \o <<e>>
      BY <2>2, AppendIsConcat
    <2>4. Len(tt) = n /\ \A i \in 1 .. n : ss[i] = tt[i]
      BY <2>1, <2>2, AppendProperties
    <2>5. ss[n + 1] = e
      BY <2>2, <2>4, AppendProperties
    <2>6. Good(tt)
      BY <1>2, <2>4
    <2> DEFINE r == Reverse(e)
               u == Turned(tt)
    <2>7. /\ r \in Seq(X) /\ <<r>> \in Seq(Seq(X)) /\ FlattenSeq(<<r>>) = r
          /\ <<e>> \in Seq(Seq(X)) /\ FlattenSeq(<<e>>) = e
      <3>1. r \in Seq(X)
        BY ReverseProperties
      <3> HIDE DEF r
      <3> QED
        BY <3>1, FlattenSingle
    <2>8. /\ u \in Seq(Seq(X)) /\ Len(u) = n
          /\ \A i \in 1 .. n : u[i] = Reverse(tt[n - i + 1])
      <3>1. /\ u \in Seq(Seq(X)) /\ Len(u) = Len(tt)
            /\ \A i \in 1 .. Len(tt) : u[i] = Reverse(tt[Len(tt) - i + 1])
        BY TurnedType, Zenon
      <3> QED
        BY <2>4, <3>1, Zenon
    <2>9. /\ Turned(ss) \in Seq(Seq(X)) /\ Len(Turned(ss)) = n + 1
          /\ \A i \in 1 .. n + 1 : Turned(ss)[i] = Reverse(ss[(n + 1) - i + 1])
      <3>1. /\ Turned(ss) \in Seq(Seq(X)) /\ Len(Turned(ss)) = Len(ss)
            /\ \A i \in 1 .. Len(ss) : Turned(ss)[i] = Reverse(ss[Len(ss) - i + 1])
        BY TurnedType, Zenon
      <3> QED
        BY <2>1, <3>1, Zenon
    <2> DEFINE v == <<r>> \o u
               w == Turned(ss)
    <2>10. v \in Seq(Seq(X)) /\ Len(v) = n + 1 /\ \A i \in 1 .. n + 1 : v[i] = IF i = 1 THEN r ELSE u[i - 1]
      <3> HIDE DEF r, u
      <3>1. /\ <<r>> \o u \in Seq(Seq(X)) /\ Len(<<r>> \o u) = 1 + n
            /\ \A i \in 1 .. 1 + n : (<<r>> \o u)[i] = IF i <= 1 THEN <<r>>[i] ELSE u[i - 1]
        BY <2>7, <2>8, ConcatProperties
      <3> QED
        BY <3>1
    <2>11. ASSUME NEW i \in 1 .. n + 1 PROVE w[i] = v[i]
      <3>1. w[i] = Reverse(ss[(n + 1) - i + 1])
        BY <2>9
      <3> HIDE DEF u, v, w
      <3>2. CASE i = 1
        <4>1. (n + 1) - i + 1 = n + 1
          BY <3>2
        <4>2. w[i] = Reverse(e)
          BY <2>5, <3>1, <4>1
        <4> QED
          BY <2>10, <3>2, <4>2
      <3>3. CASE i # 1
        <4>1. i - 1 \in 1 .. n /\ n - (i - 1) + 1 = (n + 1) - i + 1 /\ (n + 1) - i + 1 \in 1 .. n
          BY <3>3
        <4>2. v[i] = u[i - 1]
          <5> HIDE DEF r
          <5> QED
            BY <2>10, <3>3
        <4>3. u[i - 1] = Reverse(tt[n - (i - 1) + 1])
          BY <2>8, <4>1, Zenon
        <4>4. ss[(n + 1) - i + 1] = tt[(n + 1) - i + 1]
          BY <2>4, <4>1, Zenon
        <4> QED
          BY <3>1, <4>1, <4>2, <4>3, <4>4
      <3> QED
        BY <3>2, <3>3
    <2>12. Turned(ss) = <<r>> \o u
      <3> HIDE DEF r, u, v, w
      <3>1. w = [i \in 1 .. n + 1 |-> w[i]] /\ v = [i \in 1 .. n + 1 |-> v[i]]
        BY <2>9, <2>10 DEF w
      <3>2. w = v
        BY <2>11, <3>1
      <3> QED
        BY <3>2 DEF v, w
    <2> HIDE DEF v, w
    <2> DEFINE ft == FlattenSeq(tt)
    <2>13. ft \in Seq(X)
      BY FlattenSeqType
    <2>14. FlattenSeq(ss) = ft \o e
      BY <2>3, <2>7, FlattenConcat
    <2>15. FlattenSeq(Turned(ss)) = r \o Reverse(ft)
      <3>1. FlattenSeq(<<r>> \o u) = FlattenSeq(<<r>>) \o FlattenSeq(u)
        <4> HIDE DEF r, u
        <4> QED
          BY <2>7, <2>8, FlattenConcat, Zenon
      <3> HIDE DEF r
      <3> QED
        BY <2>6, <2>7, <2>12, <3>1
    <2>16. Reverse(ft \o e) = r \o Reverse(ft)
      <3> HIDE DEF ft
      <3> QED
        BY <2>13, ReverseConcat
    <2> QED
      BY <2>14, <2>15, <2>16
  <1>3. Nat \subseteq S
    <2> HIDE DEF S
    <2> QED
      BY <1>1, <1>2, SetInduction
  <1>4. Len(seqs) \in Nat
    OBVIOUS
  <1>5. Len(seqs) \in S
    <2> HIDE DEF S
    <2> QED
      BY <1>3, <1>4
  <1> QED
    BY <1>5

-----------------------------------------------------------------------------
(* Sequences whose elements need not come from a given set.                *)

\* A sequence is one over its own elements.
LEMMA OverElements ==
  ASSUME NEW X, NEW s \in Seq(X)
  PROVE  s \in Seq(ToSet(s)) /\ \A x \in ToSet(s) : x \in X
  <1>1. DOMAIN s = 1 .. Len(s) /\ Len(s) \in Nat /\ \A i \in 1 .. Len(s) : s[i] \in X
    OBVIOUS
  <1>2. s = [i \in 1 .. Len(s) |-> s[i]]
    OBVIOUS
  <1>3. \A x \in ToSet(s) : x \in X
    BY <1>1 DEF ToSet
  <1>. DEFINE T == ToSet(s)
              n == Len(s)
  <1>4. n \in Nat /\ s = [i \in 1 .. n |-> s[i]] /\ \A i \in 1 .. n : s[i] \in T
    BY <1>1, <1>2 DEF ToSet
  <1>. HIDE DEF T, n
  <1>5. s \in Seq(T)
    BY <1>4
  <1>. QED BY <1>3, <1>5 DEF T

\* A finite set made a sequence.
LEMMA SetToSeqOf ==
  ASSUME NEW S, IsFiniteSet(S)
  PROVE  Cardinality(S) \in Nat /\ SetToSeq(S) \in [1 .. Cardinality(S) -> S]
  <1>. DEFINE n == Cardinality(S)
              P(f) == f \in [1 .. n -> S] /\ IsInjective(f)
  <1>1. n \in Nat /\ ExistsBijection(1 .. n, S)
    BY FS_CardinalityType
  <1>2. PICK f \in [1 .. n -> S] : \A i, j \in 1 .. n : f[i] = f[j] => i = j
    BY <1>1 DEF ExistsBijection, Bijection, Injection, IsInjective
  <1>3. IsInjective(f)
    BY <1>2 DEF IsInjective
  <1>4. P(CHOOSE g : P(g))
    <2>1. P(f)
      BY <1>3
    <2>. HIDE DEF P
    <2>. QED BY <2>1, Zenon
  <1>. QED BY <1>1, <1>4, Zenon DEF SetToSeq

IsSeq(s) == s \in Seq(ToSet(s))

LEMMA SeqOver ==
  ASSUME NEW X, NEW s \in Seq(X)
  PROVE  IsSeq(s) /\ \A x \in ToSet(s) : x \in X
  BY OverElements, Zenon DEF IsSeq

LEMMA SeqFacts ==
  ASSUME NEW s, IsSeq(s)
  PROVE  /\ Len(s) \in Nat /\ DOMAIN s = 1 .. Len(s)
         /\ \A i \in 1 .. Len(s) : s[i] \in ToSet(s)
         /\ \A x \in ToSet(s) : \E i \in 1 .. Len(s) : x = s[i]
  <1>. DEFINE T == ToSet(s)
  <1>1. s \in Seq(T)
    BY DEF IsSeq
  <1>. HIDE DEF T
  <1>2. Len(s) \in Nat /\ DOMAIN s = 1 .. Len(s)
    BY <1>1
  <1>. QED BY <1>2 DEF ToSet

LEMMA SeqConcat ==
  ASSUME NEW s, NEW t, IsSeq(s), IsSeq(t)
  PROVE  IsSeq(s \o t) /\ \A x \in ToSet(s \o t) : x \in ToSet(s) \/ x \in ToSet(t)
  <1>. DEFINE S == ToSet(s)
              T == ToSet(t)
              X == S \cup T
  <1>1. s \in Seq(S) /\ t \in Seq(T) /\ S \subseteq X /\ T \subseteq X
    BY DEF IsSeq
  <1>2. \A x \in X : x \in ToSet(s) \/ x \in ToSet(t)
    BY Zenon
  <1>. HIDE DEF S, T, X
  <1>3. s \in Seq(X) /\ t \in Seq(X)
    BY <1>1
  <1>4. s \o t \in Seq(X)
    BY <1>3
  <1>. QED BY <1>2, <1>4, SeqOver

LEMMA SeqEmpty == IsSeq(<< >>) /\ \A x : x \notin ToSet(<< >>)
  <1>. DEFINE X == {}
              e == << >>
  <1>1. e \in Seq(X) /\ \A x : x \notin X
    OBVIOUS
  <1>. HIDE DEF X, e
  <1>2. IsSeq(e) /\ \A x : x \notin ToSet(e)
    BY <1>1, SeqOver
  <1>. QED BY <1>2 DEF e

LEMMA SeqOne ==
  ASSUME NEW y
  PROVE  IsSeq(<<y>>) /\ \A x \in ToSet(<<y>>) : x = y
  <1>. DEFINE X == {y}
              e == <<y>>
  <1>1. e \in Seq(X) /\ \A x \in X : x = y
    OBVIOUS
  <1>. HIDE DEF X, e
  <1>2. IsSeq(e) /\ \A x \in ToSet(e) : x = y
    BY <1>1, SeqOver
  <1>. QED BY <1>2 DEF e

LEMMA SeqFrom ==
  ASSUME NEW n \in Nat, NEW f, DOMAIN f = 1 .. n, f = [i \in 1 .. n |-> f[i]]
  PROVE  IsSeq(f) /\ Len(f) = n /\ \A x \in ToSet(f) : \E i \in 1 .. n : x = f[i]
  <1>. DEFINE X == {f[i] : i \in 1 .. n}
  <1>1. (\A i \in 1 .. n : f[i] \in X) /\ \A x \in X : \E i \in 1 .. n : x = f[i]
    OBVIOUS
  <1>. HIDE DEF X
  <1>2. f \in [1 .. n -> X]
    BY <1>1
  <1>3. f \in Seq(X) /\ Len(f) = n
    BY <1>2
  <1>. QED BY <1>1, <1>3, SeqOver

LEMMA SeqFlatten ==
  ASSUME NEW ss, IsSeq(ss), \A s \in ToSet(ss) : IsSeq(s)
  PROVE  /\ IsSeq(FlattenSeq(ss))
         /\ \A x \in ToSet(FlattenSeq(ss)) : \E s \in ToSet(ss) : x \in ToSet(s)
  <1>. DEFINE Y == ToSet(ss)
              X == UNION {ToSet(s) : s \in Y}
  <1>1. \A s \in Y : s \in Seq(ToSet(s)) /\ ToSet(s) \subseteq X
    BY Zenon DEF IsSeq
  <1>2. \A x \in X : \E s \in ToSet(ss) : x \in ToSet(s)
    BY Zenon
  <1>3. ss \in Seq(Y)
    BY Zenon DEF IsSeq
  <1>. HIDE DEF X, Y
  <1>4. \A s \in Y : s \in Seq(X)
    <2>1. TAKE s \in Y
    <2>. DEFINE T == ToSet(s)
    <2>2. s \in Seq(T) /\ T \subseteq X
      BY <1>1
    <2>. HIDE DEF T
    <2>. QED BY <2>2
  <1>5. ss \in Seq(Seq(X))
    <2>. DEFINE Z == Seq(X)
    <2>1. Y \subseteq Z
      BY <1>4
    <2>. HIDE DEF Z
    <2>2. ss \in Seq(Z)
      BY <1>3, <2>1
    <2>. QED BY <2>2 DEF Z
  <1>6. FlattenSeq(ss) \in Seq(X)
    BY <1>5, FlattenSeqType
  <1>. QED BY <1>2, <1>6, SeqOver

LEMMA SeqParts ==
  ASSUME NEW s, IsSeq(s), NEW n \in 1 .. Len(s)
  PROVE  /\ IsSeq(SubSeq(s, 1, n)) /\ \A x \in ToSet(SubSeq(s, 1, n)) : x \in ToSet(s)
         /\ IsSeq(SubSeq(s, n + 1, Len(s)))
         /\ \A x \in ToSet(SubSeq(s, n + 1, Len(s))) : x \in ToSet(s)
  <1>. DEFINE T == ToSet(s)
              N == Len(s)
  <1>1. s \in Seq(T) /\ N \in Nat /\ n \in 1 .. N
    BY SeqFacts DEF IsSeq
  <1>2. \A i \in 1 .. N : s[i] \in T
    BY SeqFacts
  <1>. HIDE DEF T
  <1>3. SubSeq(s, 1, n) \in Seq(T) /\ SubSeq(s, n + 1, N) \in Seq(T)
    BY <1>1, <1>2
  <1>4. /\ IsSeq(SubSeq(s, 1, n)) /\ \A x \in ToSet(SubSeq(s, 1, n)) : x \in T
        /\ IsSeq(SubSeq(s, n + 1, N)) /\ \A x \in ToSet(SubSeq(s, n + 1, N)) : x \in T
    BY <1>3, SeqOver
  <1>. QED BY <1>4 DEF T

LEMMA SeqHeadTail ==
  ASSUME NEW s, IsSeq(s), s # << >>
  PROVE  /\ Head(s) \in ToSet(s)
         /\ IsSeq(Tail(s)) /\ \A x \in ToSet(Tail(s)) : x \in ToSet(s)
  <1>. DEFINE T == ToSet(s)
  <1>1. s \in Seq(T)
    BY DEF IsSeq
  <1>. HIDE DEF T
  <1>2. Head(s) \in T /\ Tail(s) \in Seq(T)
    BY <1>1
  <1>3. IsSeq(Tail(s)) /\ \A x \in ToSet(Tail(s)) : x \in T
    BY <1>2, SeqOver
  <1>. QED BY <1>2, <1>3 DEF T
=============================================================================
