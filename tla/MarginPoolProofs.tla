-------------------------- MODULE MarginPoolProofs --------------------------
(***************************************************************************)
(* That the books of the pool match the token accounts, that every deposit *)
(* note is worth a token and no step lowers what it is worth by more than  *)
(* a truncated quotient, and that debt and loan notes go together: proved  *)
(* for every number of users, precision, accepted configuration and clock. *)
(***************************************************************************)
EXTENDS MarginPool, RecursionTheorems, TLAPS

USE OneAssumption DEF FromInt, BpsUnit

-----------------------------------------------------------------------------
(* Fixed-point arithmetic.                                                 *)

\* A truncated quotient is within one of the quotient.
LEMMA DivBounds ==
    ASSUME NEW a \in Nat, NEW b \in Nat \ {0}
    PROVE  /\ a \div b \in Nat
           /\ b * (a \div b) <= a
           /\ a < b * (a \div b) + b
OBVIOUS

\* A quotient is at least any number whose product with the divisor fits.
LEMMA DivLowerBound ==
    ASSUME NEW a \in Nat, NEW b \in Nat \ {0}, NEW c \in Nat, b * c <= a
    PROVE  c <= a \div b
<1> DEFINE q == a \div b
<1>1. q \in Nat /\ a < b * q + b
      BY DivBounds
<1> HIDE DEF q
<1>2. SUFFICES ASSUME q < c PROVE FALSE
      BY <1>1 DEF q
<1>3. q + 1 <= c
      BY <1>1, <1>2
<1>4. b * (q + 1) <= b * c
      BY <1>1, <1>3
<1>5. b * (q + 1) = b * q + b
      BY <1>1
<1>6. QED
      BY <1>1, <1>4, <1>5

\* The whole part of a Number, rounded down and up.
LEMMA WholePart ==
    ASSUME NEW a \in Nat
    PROVE  /\ AsInt(a) \in Nat /\ AsIntCeil(a) \in Nat
           /\ One * AsInt(a) <= a /\ a < One * AsInt(a) + One
           /\ a <= One * AsIntCeil(a)
<1>1. a + One - 1 \in Nat
      OBVIOUS
<1>2. QED
      BY <1>1, DivBounds DEF AsInt, AsIntCeil

\* Cancelling One.
LEMMA CancelOne ==
    ASSUME NEW a \in Int, NEW b \in Int
    PROVE  /\ One * a <= One * b => a <= b
           /\ One * a < One * b => a < b
OBVIOUS

-----------------------------------------------------------------------------
(* What the conversions between tokens and notes round to, for an exchange *)
(* rate r.                                                                 *)

\* Rounded down, the notes are worth at most the tokens, and one note more is
\* worth more.
LEMMA NotesRoundedDown ==
    ASSUME NEW t \in Nat, NEW r \in Nat \ {0}
    PROVE  LET n == AsInt(Div(FromInt(t), r))
           IN  n \in Nat /\ r * n <= FromInt(t) /\ FromInt(t) < r * (n + 1)
<1> DEFINE x == t * One
           d == (x * One) \div r
           n == AsInt(d)
<1>1. x \in Nat /\ x * One \in Nat
      OBVIOUS
<1>2. d \in Nat /\ r * d <= x * One /\ x * One < r * d + r
      BY <1>1, DivBounds
<1> HIDE DEF x, d
<1>3. n \in Nat /\ One * n <= d /\ d < One * n + One
      BY <1>2, WholePart
<1> HIDE DEF n
<1>4. r * n <= x
  <2>1. r * (One * n) <= r * d
        BY <1>2, <1>3
  <2>2. r * (One * n) = One * (r * n)
        BY <1>3
  <2>3. One * (r * n) <= One * x
        BY <1>1, <1>2, <1>3, <2>1, <2>2
  <2>4. QED
        BY <1>1, <1>3, <2>3, CancelOne
<1>5. x < r * (n + 1)
  <2>1. d + 1 <= One * (n + 1)
        BY <1>2, <1>3
  <2>2. r * (d + 1) <= r * (One * (n + 1))
        BY <1>2, <1>3, <2>1
  <2>3. r * (d + 1) = r * d + r
        BY <1>2
  <2>4. r * (One * (n + 1)) = One * (r * (n + 1))
        BY <1>3
  <2>5. One * x < One * (r * (n + 1))
        BY <1>1, <1>2, <1>3, <2>2, <2>3, <2>4
  <2>6. QED
        BY <1>1, <1>3, <2>5, CancelOne
<1>6. QED
      BY <1>3, <1>4, <1>5 DEF n, d, x, Div

\* Rounded up, the notes are worth the tokens but for the units lost where the
\* quotient is truncated first: fewer than the rate has tokens.
LEMMA NotesRoundedUp ==
    ASSUME NEW t \in Nat, NEW r \in Nat \ {0}
    PROVE  LET n == AsIntCeil(Div(FromInt(t), r))
           IN  n \in Nat /\ One * (FromInt(t) - r * n) < r
<1> DEFINE x == t * One
           d == (x * One) \div r
           n == AsIntCeil(d)
<1>1. x \in Nat /\ x * One \in Nat
      OBVIOUS
<1>2. d \in Nat /\ x * One < r * d + r
      BY <1>1, DivBounds
<1> HIDE DEF x, d
<1>3. n \in Nat /\ d <= One * n
      BY <1>2, WholePart
<1> HIDE DEF n
<1>4. r * d <= r * (One * n)
      BY <1>2, <1>3
<1>5. One * (x - r * n) = x * One - r * (One * n)
      BY <1>1, <1>3
<1>6. One * (x - r * n) < r
      BY <1>1, <1>2, <1>3, <1>4, <1>5
<1>7. QED
      BY <1>3, <1>6 DEF n, d, x, Div

\* The notes of a loan, rounded up, are no fewer than its tokens pay for.
LEMMA NotesAreNatural ==
    ASSUME NEW t \in Nat, NEW r \in Nat \ {0}, NEW up \in BOOLEAN
    PROVE  Round(Div(FromInt(t), r), up) \in Nat
<1>1. t * One * One \in Nat
      OBVIOUS
<1>2. Div(FromInt(t), r) \in Nat
      BY <1>1, DivBounds DEF Div
<1>3. QED
      BY <1>2, WholePart DEF Round

\* Notes are converted to a natural number of tokens.
LEMMA TokensAreNatural ==
    ASSUME NEW n \in Nat, NEW r \in Nat, NEW up \in BOOLEAN
    PROVE  Round(Mul(FromInt(n), r), up) \in Nat
<1>1. n * One * r \in Nat
      OBVIOUS
<1>2. Mul(FromInt(n), r) \in Nat
      BY <1>1, DivBounds DEF Mul
<1>3. QED
      BY <1>2, WholePart DEF Round

-----------------------------------------------------------------------------
(* Exchange rates.                                                         *)

PoolType == [borrowed : Nat, fees : Nat, depositTokens : Nat, depositNotes : Nat,
             loanNotes : Nat, accruedUntil : Nat]

\* NotesBacked, of any value of the pool account.
Backed(p) == p.depositNotes > 0 => NetValue(p) >= FromInt(p.depositNotes)

\* A rate is the value of a note, short of it by less than a unit.
LEMMA RatePerNote ==
    ASSUME NEW v \in Nat, NEW m \in Nat \ {0}
    PROVE  LET r == Div(v, FromInt(m))
           IN  /\ r \in Nat /\ m * r <= v /\ v < m * r + m
               /\ v >= FromInt(m) => r >= One
<1> DEFINE a == v * One
           b == m * One
           r == a \div b
<1>1. a \in Nat /\ b \in Nat \ {0}
      OBVIOUS
<1>2. r \in Nat /\ b * r <= a /\ a < b * r + b
      BY <1>1, DivBounds
<1>3. v >= m * One => r >= One
  <2>1. SUFFICES ASSUME v >= m * One PROVE One <= r
        BY <1>2
  <2>2. b * One <= a
        BY <2>1
  <2> HIDE DEF a, b
  <2>3. QED
        BY <1>1, <2>2, DivLowerBound
<1> HIDE DEF r
<1>4. b * r = One * (m * r) /\ a = One * v /\ b * r + b = One * (m * r + m)
      BY <1>2
<1>5. m * r <= v /\ v < m * r + m
      BY <1>2, <1>4, CancelOne
<1>6. QED
      BY <1>2, <1>3, <1>5 DEF r, Div

\* The rate per note does not fall when the value grows.
LEMMA RatePerNoteGrows ==
    ASSUME NEW v \in Nat, NEW w \in Nat, NEW m \in Nat \ {0}, v <= w
    PROVE  Div(v, FromInt(m)) <= Div(w, FromInt(m))
<1> DEFINE b == m * One
           r == (v * One) \div b
<1>1. b \in Nat \ {0} /\ v * One \in Nat /\ w * One \in Nat /\ v * One <= w * One
      OBVIOUS
<1>2. r \in Nat /\ b * r <= v * One
      BY <1>1, DivBounds
<1>3. b * r <= w * One
      BY <1>1, <1>2
<1> HIDE DEF b, r
<1>4. r <= (w * One) \div b
      BY <1>1, <1>2, <1>3, DivLowerBound
<1>5. QED
      BY <1>4 DEF r, b, Div

\* The net value of a pool is an integer, and not negative when it is backed
\* by the notes or the rate is defined.
LEMMA NetValueType ==
    ASSUME NEW p \in PoolType
    PROVE  /\ NetValue(p) \in Int
           /\ RateDefined(p) <=> NetValue(p) >= 0
           /\ Backed(p) /\ p.depositNotes > 0 => NetValue(p) >= One
BY DEF PoolType, NetValue, TotalValue, RateDefined, Backed

\* While the notes are backed, the deposit rate is at least one and the notes
\* are worth no more at that rate than the pool has.
LEMMA DepositRate ==
    ASSUME NEW p \in PoolType, Backed(p)
    PROVE  LET r == DepositNoteExchangeRate(p)
           IN  /\ r \in Nat /\ r >= One
               /\ RateDefined(p) => r * p.depositNotes <= NetValue(p)
<1> DEFINE v == AtLeast(NetValue(p), One)
           m == AtLeast(p.depositNotes, 1)
           r == Div(v, FromInt(m))
<1>1. p.depositNotes \in Nat /\ NetValue(p) \in Int
      BY NetValueType DEF PoolType
<1>2. v \in Nat /\ v >= One /\ m \in Nat \ {0}
      BY <1>1 DEF AtLeast
<1>3. v >= FromInt(m)
      BY <1>1 DEF AtLeast, Backed
<1>4. r \in Nat /\ m * r <= v /\ r >= One
  <2> HIDE DEF v, m
  <2>1. QED
        BY <1>2, <1>3, RatePerNote
<1>5. ASSUME RateDefined(p) PROVE r * p.depositNotes <= NetValue(p)
  <2> HIDE DEF r
  <2>1. CASE p.depositNotes = 0
        BY <1>1, <1>4, <1>5, <2>1, NetValueType
  <2>2. CASE p.depositNotes > 0
    <3>1. v = NetValue(p) /\ m = p.depositNotes
          BY <1>1, <2>2, NetValueType DEF AtLeast
    <3>2. QED
          BY <1>1, <1>4, <3>1
  <2>3. QED
        BY <1>1, <2>1, <2>2
<1>6. DepositNoteExchangeRate(p) = r
      BY DEF DepositNoteExchangeRate, NetValue
<1> HIDE DEF r
<1>7. QED
      BY <1>4, <1>5, <1>6

\* The deposit rate does not fall when the value of the pool grows.
LEMMA DepositRateGrows ==
    ASSUME NEW p \in PoolType, NEW q \in PoolType,
           q.depositNotes = p.depositNotes, NetValue(q) >= NetValue(p)
    PROVE  DepositNoteExchangeRate(p) <= DepositNoteExchangeRate(q)
<1>1. p.depositNotes \in Nat /\ NetValue(p) \in Int /\ NetValue(q) \in Int
      BY NetValueType DEF PoolType
<1> DEFINE v == AtLeast(NetValue(p), One)
           w == AtLeast(NetValue(q), One)
           m == AtLeast(p.depositNotes, 1)
<1>2. v \in Nat /\ w \in Nat /\ v <= w /\ m \in Nat \ {0}
      BY <1>1 DEF AtLeast
<1>3. DepositNoteExchangeRate(p) = Div(v, FromInt(m))
      BY DEF DepositNoteExchangeRate, NetValue
<1>4. DepositNoteExchangeRate(q) = Div(w, FromInt(m))
      BY DEF DepositNoteExchangeRate, NetValue
<1> HIDE DEF v, w, m
<1>5. QED
      BY <1>2, <1>3, <1>4, RatePerNoteGrows

\* The loan rate is the debt per note, but for less than a unit.
LEMMA LoanRate ==
    ASSUME NEW p \in PoolType
    PROVE  LET r == LoanNoteExchangeRate(p)
               m == AtLeast(p.loanNotes, 1)
               b == AtLeast(p.borrowed, One)
           IN  r \in Nat /\ m * r <= b /\ b < m * r + m
<1> DEFINE m == AtLeast(p.loanNotes, 1)
           b == AtLeast(p.borrowed, One)
<1>1. m \in Nat \ {0} /\ b \in Nat
      BY DEF PoolType, AtLeast
<1>2. LoanNoteExchangeRate(p) = Div(b, FromInt(m))
      BY DEF LoanNoteExchangeRate
<1> HIDE DEF m, b
<1>3. LoanNoteExchangeRate(p) \in Nat /\ m * LoanNoteExchangeRate(p) <= b
      /\ b < m * LoanNoteExchangeRate(p) + m
      BY <1>1, <1>2, RatePerNote
<1>4. QED
      BY <1>3 DEF m, b

-----------------------------------------------------------------------------
(* Interest.                                                               *)

\* The terms of the series, the factorials among them, are natural numbers.
SeriesState == [power : Nat, factorial : Nat \ {0}, total : Nat]

SeriesStep(x, prev, k) ==
    LET power == Mul(prev.power, x)
        factorial == prev.factorial * k
    IN  [power |-> power, factorial |-> factorial, total |-> prev.total + power \div factorial]

\* A term of the series follows from the one before it.
LEMMA SeriesStepType ==
    ASSUME NEW x \in Nat, NEW prev \in SeriesState, NEW k \in Nat \ {0}
    PROVE  SeriesStep(x, prev, k) \in SeriesState
<1> DEFINE power == Mul(prev.power, x)
           factorial == prev.factorial * k
<1>1. prev.power * x \in Nat
      BY DEF SeriesState
<1>2. power \in Nat
      BY <1>1, DivBounds DEF Mul
<1>3. factorial \in Nat \ {0}
      BY DEF SeriesState
<1>4. power \div factorial \in Nat
  <2> HIDE DEF power, factorial
  <2>1. QED
        BY <1>2, <1>3, DivBounds
<1> HIDE DEF power, factorial
<1>5. prev.total + power \div factorial \in Nat
      BY <1>4 DEF SeriesState
<1>6. QED
      BY <1>2, <1>3, <1>5 DEF SeriesStep, SeriesState, power, factorial

\* The series sums to a natural number.
LEMMA SeriesIsNatural ==
    ASSUME NEW x \in Nat, NEW terms \in Nat
    PROVE  Expm1Approx(x, terms) \in Nat
<1>1. CASE terms = 0
      BY <1>1 DEF Expm1Approx
<1>2. CASE terms > 0
  <2> DEFINE b == [power |-> x, factorial |-> 1, total |-> x]
             s == [i \in 1 .. terms - 1 |-> i + 1]
             Y == Nat \ {0}
             F == [c \in SeriesState \X Y |-> SeriesStep(x, c[1], c[2])]
             Def(g) == [k \in 1 .. terms |-> IF k = 1 THEN b ELSE SeriesStep(x, g[k - 1], k)]
             sum == CHOOSE g : g = Def(g)
  <2>1. b \in SeriesState
        BY DEF SeriesState
  <2>2. s \in Seq(Y) /\ Len(s) = terms - 1
        BY <1>2
  <2>3. F \in [SeriesState \X Y -> SeriesState]
        BY SeriesStepType
  <2>4. PICK g \in [0 .. terms - 1 -> SeriesState] :
            /\ g[0] = b
            /\ \A i \in 1 .. terms - 1 : g[i] = F[<<g[i - 1], s[i]>>]
    <3> HIDE DEF F, b, s, Y
    <3>1. \E g : IsFold(g, SeriesState, F, b, s)
          BY <2>1, <2>2, <2>3, FoldIsDefined
    <3>2. QED
          BY <2>2, <3>1 DEF IsFold
  <2> DEFINE h == [k \in 1 .. terms |-> g[k - 1]]
  <2>5. \A i \in 1 .. terms - 1 : g[i] = SeriesStep(x, g[i - 1], i + 1)
    <3>1. SUFFICES ASSUME NEW i \in 1 .. terms - 1
                   PROVE  g[i] = SeriesStep(x, g[i - 1], i + 1)
          OBVIOUS
    <3>2. s[i] = i + 1 /\ i + 1 \in Y /\ g[i - 1] \in SeriesState
          BY <1>2
    <3>3. g[i] = F[<<g[i - 1], i + 1>>]
          BY <2>4, <3>2
    <3>4. QED
          BY <3>2, <3>3
  <2>6. h = Def(h)
    <3>1. \A k \in 1 .. terms : h[k] = IF k = 1 THEN b ELSE SeriesStep(x, h[k - 1], k)
      <4>1. SUFFICES ASSUME NEW k \in 1 .. terms
                     PROVE  h[k] = IF k = 1 THEN b ELSE SeriesStep(x, h[k - 1], k)
            OBVIOUS
      <4>2. CASE k = 1
            BY <2>4, <4>2
      <4>3. CASE k > 1
        <5>1. k - 1 \in 1 .. terms - 1 /\ k - 1 \in 1 .. terms /\ (k - 1) + 1 = k
              BY <4>3
        <5>2. g[k - 1] = SeriesStep(x, g[(k - 1) - 1], k)
              BY <2>5, <5>1
        <5>3. h[k] = g[k - 1] /\ h[k - 1] = g[(k - 1) - 1]
              BY <5>1
        <5>4. QED
              BY <4>3, <5>2, <5>3
      <4>4. QED
            BY <4>2, <4>3
    <3>2. QED
          BY <3>1
  <2> HIDE DEF b, Def, h
  <2>7. sum = Def(sum)
        BY <2>6, Zenon
  <2> HIDE DEF sum
  <2>8. \A k \in 1 .. terms : sum[k] = IF k = 1 THEN b ELSE SeriesStep(x, sum[k - 1], k)
        BY <2>7 DEF Def
  <2> DEFINE S == {n \in Nat : n + 1 <= terms => sum[n + 1] \in SeriesState}
  <2>9. 0 \in S
        BY <1>2, <2>1, <2>8
  <2>10. ASSUME NEW n \in Nat, n \in S PROVE n + 1 \in S
    <3>1. SUFFICES ASSUME (n + 1) + 1 <= terms PROVE sum[(n + 1) + 1] \in SeriesState
          OBVIOUS
    <3>2. sum[n + 1] \in SeriesState
          BY <2>10, <3>1
    <3> DEFINE k == (n + 1) + 1
    <3>3. k \in 1 .. terms /\ k # 1 /\ k - 1 = n + 1 /\ k \in Nat \ {0}
          BY <3>1
    <3>4. sum[k] = SeriesStep(x, sum[n + 1], k)
      <4> HIDE DEF k
      <4>1. sum[k] = SeriesStep(x, sum[k - 1], k)
            BY <2>8, <3>3
      <4>2. QED
            BY <3>3, <4>1
    <3> HIDE DEF k
    <3>5. sum[k] \in SeriesState
          BY <3>2, <3>3, <3>4, SeriesStepType
    <3>6. QED
          BY <3>5 DEF k
  <2>11. Nat \subseteq S
    <3> HIDE DEF S
    <3>1. QED
          BY <2>9, <2>10, SetInduction
  <2>12. terms - 1 \in Nat /\ (terms - 1) + 1 = terms
         BY <1>2
  <2>13. sum[terms] \in SeriesState
         BY <2>11, <2>12
  <2>14. Expm1Approx(x, terms) = sum[terms].total
    <3>1. terms # 0
          BY <1>2
    <3>2. QED
          BY <3>1, Zenon DEF Expm1Approx, sum, Def, b, SeriesStep
  <2>15. QED
         BY <2>13, <2>14 DEF SeriesState
<1>3. QED
      BY <1>1, <1>2

\* The configuration of a new pool, or one that configure accepted.
ConfigAccepted == config = DefaultConfig \/ (config \in Config /\ ValidConfig(config))

\* The rates of an accepted configuration do not fall, and its fee is not more
\* than all of the interest.
LEMMA ConfigRates ==
    ASSUME ConfigAccepted
    PROVE  /\ \A i \in 0 .. 3 : config.borrowRate[i] \in Nat
           /\ \A i \in 0 .. 2 : config.borrowRate[i] <= config.borrowRate[i + 1]
           /\ \A i \in 1 .. 2 : config.utilizationRate[i] \in Nat
           /\ config.managementFeeRate \in Nat /\ config.managementFeeRate <= 10000
<1>1. CASE config = DefaultConfig
      BY <1>1 DEF DefaultConfig
<1>2. CASE config \in Config /\ ValidConfig(config)
  <2>1. /\ config.borrowRate \in [0 .. 3 -> Nat] /\ config.utilizationRate \in [1 .. 2 -> Nat]
        /\ config.managementFeeRate \in Nat
        BY <1>2, PoolAssumption
  <2>2. \A i \in 0 .. 2 : config.borrowRate[i] < config.borrowRate[i + 1]
        BY <1>2 DEF ValidConfig
  <2>3. config.managementFeeRate <= 10000
        BY <1>2 DEF ValidConfig
  <2>4. QED
        BY <2>1, <2>2, <2>3
<1>3. QED
      BY <1>1, <1>2 DEF ConfigAccepted

\* Basis points as a Number: a natural number, that grows with them.
LEMMA BasisPoints ==
    ASSUME NEW a \in Nat, NEW b \in Nat, a <= b
    PROVE  FromBps(a) \in Nat /\ FromBps(b) \in Nat /\ FromBps(a) <= FromBps(b)
<1>1. a * One \in Nat /\ b * One \in Nat /\ a * One <= b * One
      OBVIOUS
<1> DEFINE m == a * One
           n == b * One
<1> HIDE DEF m, n
<1>2. m \in Nat /\ n \in Nat /\ m <= n
      BY <1>1 DEF m, n
<1>3. m \div 10000 \in Nat /\ n \div 10000 \in Nat /\ m \div 10000 <= n \div 10000
      BY <1>2
<1>4. QED
      BY <1>3 DEF FromBps, m, n

\* A fraction of at most 10000 basis points takes no more than the whole.
LEMMA FractionOfWhole ==
    ASSUME NEW x \in Nat, NEW f \in Nat, f <= 10000
    PROVE  Mul(x, FromBps(f)) \in Nat /\ Mul(x, FromBps(f)) <= x
<1>1. FromBps(f) \in Nat /\ FromBps(f) <= FromBps(10000)
      BY BasisPoints
<1>2. FromBps(10000) = One
      BY DEF FromBps
<1> DEFINE y == FromBps(f)
<1> HIDE DEF y
<1>3. y \in Nat /\ y <= One
      BY <1>1, <1>2 DEF y
<1>4. x * y \in Nat /\ x * y <= One * x
      BY <1>3
<1>5. (x * y) \div One \in Nat /\ One * ((x * y) \div One) <= x * y
      BY <1>4, DivBounds
<1>6. (x * y) \div One <= x
      BY <1>4, <1>5, CancelOne
<1>7. QED
      BY <1>5, <1>6 DEF Mul, y

\* Interpolation between two rates that do not fall.
LEMMA InterpolateType ==
    ASSUME NEW x \in Nat, NEW x0 \in Nat, NEW x1 \in Nat, NEW y0 \in Nat, NEW y1 \in Nat,
           x0 <= x, x0 < x1, y0 <= y1
    PROVE  Interpolate(x, x0, x1, y0, y1) \in Nat
<1> DEFINE a == x - x0
           b == y1 - y0
           c == x1 - x0
<1>1. a \in Nat /\ b \in Nat /\ c \in Nat \ {0}
      OBVIOUS
<1> HIDE DEF a, b, c
<1>2. a * b \in Nat
      BY <1>1
<1>3. Mul(a, b) \in Nat
      BY <1>2, DivBounds DEF Mul
<1>4. Mul(a, b) * One \in Nat
      BY <1>3
<1>5. Div(Mul(a, b), c) \in Nat
      BY <1>1, <1>4, DivBounds DEF Div
<1>6. QED
      BY <1>5 DEF Interpolate, a, b, c

\* Where accrue_interest does not panic, the interest rate is a natural number.
LEMMA InterestRateType ==
    ASSUME NEW p \in PoolType, ConfigAccepted, AccrualDefined(p), TimeBehind(p) # 0
    PROVE  InterestRate(p, config) \in Nat
<1> DEFINE util == UtilizationRate(p)
           r(i) == FromBps(config.borrowRate[i])
           u(i) == FromBps(config.utilizationRate[i])
<1>1. /\ r(0) \in Nat /\ r(1) \in Nat /\ r(2) \in Nat /\ r(3) \in Nat
      /\ r(0) <= r(1) /\ r(1) <= r(2) /\ r(2) <= r(3)
  <2>1. /\ config.borrowRate[0] \in Nat /\ config.borrowRate[1] \in Nat
        /\ config.borrowRate[2] \in Nat /\ config.borrowRate[3] \in Nat
        /\ config.borrowRate[0] <= config.borrowRate[1]
        /\ config.borrowRate[1] <= config.borrowRate[2]
        /\ config.borrowRate[2] <= config.borrowRate[3]
        BY ConfigRates
  <2>2. QED
        BY <2>1, BasisPoints
<1>2. u(1) \in Nat /\ u(2) \in Nat
  <2>1. config.utilizationRate[1] \in Nat /\ config.utilizationRate[2] \in Nat
        BY ConfigRates
  <2>2. QED
        BY <2>1, BasisPoints
<1>3. CASE p.depositNotes = 0
      BY <1>1, <1>3 DEF InterestRate
<1>4. CASE p.depositNotes # 0
  <2>1. TotalValue(p) > 0 /\ (u(1) > 0 \/ util > 0)
        BY <1>4 DEF AccrualDefined
  <2>2. TotalValue(p) \in Nat \ {0} /\ p.borrowed * One \in Nat
        BY <2>1 DEF TotalValue, PoolType
  <2>3. util \in Nat
        BY <2>2, DivBounds DEF UtilizationRate, Div
  <2>4. InterestRate(p, config) =
            IF util <= u(1)      THEN Interpolate(util, 0, u(1), r(0), r(1))
            ELSE IF util <= u(2) THEN Interpolate(util, u(1), u(2), r(1), r(2))
            ELSE IF util < One   THEN Interpolate(util, u(2), One, r(2), r(3))
            ELSE r(3)
        BY <1>4 DEF InterestRate
  <2> HIDE DEF util, r, u
  <2>5. CASE util <= u(1)
    <3>1. 0 \in Nat /\ 0 < u(1) /\ 0 <= util
          BY <1>2, <2>1, <2>3, <2>5
    <3>2. Interpolate(util, 0, u(1), r(0), r(1)) \in Nat
          BY <1>1, <1>2, <2>3, <3>1, InterpolateType
    <3>3. QED
          BY <2>4, <2>5, <3>2
  <2>6. CASE ~(util <= u(1)) /\ util <= u(2)
    <3>1. u(1) <= util /\ u(1) < u(2)
          BY <1>2, <2>3, <2>6
    <3>2. Interpolate(util, u(1), u(2), r(1), r(2)) \in Nat
          BY <1>1, <1>2, <2>3, <3>1, InterpolateType
    <3>3. QED
          BY <2>4, <2>6, <3>2
  <2>7. CASE ~(util <= u(1)) /\ ~(util <= u(2)) /\ util < One
    <3>1. u(2) <= util /\ u(2) < One /\ One \in Nat
          BY <1>2, <2>3, <2>7
    <3>2. Interpolate(util, u(2), One, r(2), r(3)) \in Nat
          BY <1>1, <1>2, <2>3, <3>1, InterpolateType
    <3>3. QED
          BY <2>4, <2>7, <3>2
  <2>8. CASE ~(util <= u(1)) /\ ~(util <= u(2)) /\ ~(util < One)
        BY <1>1, <2>4, <2>8
  <2>9. QED
        BY <2>5, <2>6, <2>7, <2>8
<1>5. QED
      BY <1>3, <1>4

\* What accrue_interest does to the books: the debt, the fees and the value net
\* of fees do not fall, no note is made or burned, and the pool is not brought
\* past the clock.
LEMMA Accrual ==
    ASSUME pool \in PoolType, now \in Nat, pool.accruedUntil <= now,
           ConfigAccepted, AccrualDefined(pool)
    PROVE  LET p == AccrueInterest(pool)
           IN  /\ p \in PoolType /\ p.accruedUntil <= now
               /\ p.depositTokens = pool.depositTokens
               /\ p.depositNotes = pool.depositNotes
               /\ p.loanNotes = pool.loanNotes
               /\ p.borrowed >= pool.borrowed
               /\ NetValue(p) >= NetValue(pool)
<1> DEFINE seconds == IF FullyAccrues(pool) THEN TimeBehind(pool) ELSE SecondsPerWeek
           rate == InterestRate(pool, config)
           factor == CompoundInterest(rate, seconds)
           interest == Mul(pool.borrowed, factor)
           fee == Mul(interest, FromBps(config.managementFeeRate))
           p == AccrueInterest(pool)
<1>1. TimeBehind(pool) \in Nat /\ seconds \in Nat /\ seconds <= TimeBehind(pool)
      /\ pool.accruedUntil + seconds <= now
      BY PoolAssumption DEF TimeBehind, FullyAccrues, PoolType
<1>2. CASE seconds = 0
  <2>1. p = pool
        BY <1>2 DEF AccrueInterest
  <2>2. NetValue(pool) \in Int
        BY NetValueType
  <2>3. QED
        BY <2>1, <2>2 DEF PoolType
<1>3. CASE seconds # 0
  <2>1. rate \in Nat
        BY <1>1, <1>3, InterestRateType
  <2> HIDE DEF rate, seconds
  <2>2. rate * seconds \in Nat
        BY <1>1, <2>1
  <2>3. (rate * seconds) \div SecondsPerYear \in Nat /\ Terms(seconds) \in Nat
        BY <2>2, DivBounds, PoolAssumption DEF Terms
  <2>4. factor \in Nat
        BY <2>3, SeriesIsNatural DEF CompoundInterest
  <2> HIDE DEF factor
  <2>5. pool.borrowed * factor \in Nat
        BY <2>4 DEF PoolType
  <2>6. interest \in Nat
        BY <2>5, DivBounds DEF Mul
  <2> HIDE DEF interest
  <2>7. fee \in Nat /\ fee <= interest
    <3>1. config.managementFeeRate \in Nat /\ config.managementFeeRate <= 10000
          BY ConfigRates
    <3>2. \A x, f \in Nat : f <= 10000 => Mul(x, FromBps(f)) \in Nat /\ Mul(x, FromBps(f)) <= x
          BY FractionOfWhole
    <3> DEFINE m == config.managementFeeRate
    <3>3. fee = Mul(interest, FromBps(m))
          OBVIOUS
    <3>4. m \in Nat /\ m <= 10000
          BY <3>1
    <3> HIDE DEF m, fee
    <3>5. Mul(interest, FromBps(m)) \in Nat /\ Mul(interest, FromBps(m)) <= interest
          BY <2>6, <3>2, <3>4
    <3>6. QED
          BY <3>3, <3>5
  <2> HIDE DEF fee
  <2>8. p = [pool EXCEPT !.borrowed = @ + interest, !.fees = @ + fee,
                         !.accruedUntil = @ + seconds]
        BY <1>3, Zenon DEF AccrueInterest, seconds, rate, factor, interest, fee
  <2> HIDE DEF p
  <2>9. /\ p.borrowed = pool.borrowed + interest
        /\ p.fees = pool.fees + fee
        /\ p.accruedUntil = pool.accruedUntil + seconds
        /\ p.depositTokens = pool.depositTokens
        /\ p.depositNotes = pool.depositNotes
        /\ p.loanNotes = pool.loanNotes
        BY <2>8 DEF PoolType
  <2>10. p \in PoolType
    <3>1. pool.borrowed + interest \in Nat /\ pool.fees + fee \in Nat
          /\ pool.accruedUntil + seconds \in Nat
          BY <1>1, <2>6, <2>7 DEF PoolType
    <3>2. QED
          BY <2>8, <3>1, Zenon DEF PoolType
  <2>11. QED
         BY <1>1, <2>6, <2>7, <2>9, <2>10 DEF PoolType, NetValue, TotalValue, p
<1>4. QED
      BY <1>2, <1>3

-----------------------------------------------------------------------------
(* The holdings of all users together.                                     *)

\* Holdings is a sum over the users in the sense of RecursionTheorems.
LEMMA HoldingsIsSum ==
    ASSUME NEW f \in [User -> Int]
    PROVE  \E F : IsSum(F, f, User) /\ Holdings(f) = F[User]
<1> DEFINE Def(g) == [s \in SUBSET User |->
                        IF s = {} THEN 0 ELSE f[Chosen(s)] + g[s \ {Chosen(s)}]]
<1>1. IsFiniteSet(User)
      BY PoolAssumption
<1>2. \E F : IsSum(F, f, User)
      BY <1>1, SumIsDefined
<1>3. Holdings(f) = (CHOOSE g : g = Def(g))[User]
      BY Zenon DEF Holdings, MapThenSumSet, MapThenFoldSet, Chosen
<1>4. (CHOOSE g : g = Def(g))[User] = Total(f, User)
      BY <1>1, TotalIsSum, Zenon
<1>5. QED
      BY <1>2, <1>3, <1>4, Zenon DEF Total

\* When the holding of one user changes, the total changes by as much.
LEMMA HoldingsAfterChange ==
    ASSUME NEW f \in [User -> Nat], NEW u \in User, NEW d \in Int, f[u] + d \in Nat,
           NEW h \in [User -> Nat], h[u] = f[u] + d, \A v \in User : v # u => h[v] = f[v]
    PROVE  /\ Holdings(f) \in Nat /\ Holdings(h) = Holdings(f) + d
<1>1. f \in [User -> Int] /\ h \in [User -> Int] /\ IsFiniteSet(User)
      BY PoolAssumption
<1>2. PICK F : IsSum(F, f, User) /\ Holdings(f) = F[User]
      BY <1>1, HoldingsIsSum
<1>3. PICK H : IsSum(H, h, User) /\ Holdings(h) = H[User]
      BY <1>1, HoldingsIsSum
<1>4. F[User] \in Nat
      BY <1>1, <1>2, SumIsNatural
<1>5. H[User] = F[User] + h[u] - f[u]
      BY <1>1, <1>2, <1>3, SumAfterChange
<1>6. f[u] \in Nat
      OBVIOUS
<1>7. QED
      BY <1>2, <1>3, <1>4, <1>5, <1>6

\* The same, as the handlers write it.
LEMMA HoldingsAdd ==
    ASSUME NEW f \in [User -> Nat], NEW u \in User, NEW d \in Int, f[u] + d \in Nat
    PROVE  LET h == [f EXCEPT ![u] = f[u] + d]
           IN  h \in [User -> Nat] /\ Holdings(f) \in Nat /\ Holdings(h) = Holdings(f) + d
<1> DEFINE h == [f EXCEPT ![u] = f[u] + d]
<1>1. h \in [User -> Nat] /\ h[u] = f[u] + d /\ \A v \in User : v # u => h[v] = f[v]
      OBVIOUS
<1> HIDE DEF h
<1>2. Holdings(f) \in Nat /\ Holdings(h) = Holdings(f) + d
      BY <1>1, HoldingsAfterChange
<1>3. QED
      BY <1>1, <1>2 DEF h

\* Nobody holds anything at first.
LEMMA NoHoldings == Holdings([u \in User |-> 0]) = 0
<1> DEFINE f == [u \in User |-> 0]
<1>1. f \in [User -> Int] /\ IsFiniteSet(User) /\ \A u \in User : f[u] = 0
      BY PoolAssumption
<1> HIDE DEF f
<1>2. PICK F : IsSum(F, f, User) /\ Holdings(f) = F[User]
      BY <1>1, HoldingsIsSum
<1> DEFINE P == {s \in SUBSET User : F[s] = 0}
<1>3. {} \in P
  <2>1. {} \in SUBSET User
        OBVIOUS
  <2>2. F[{}] = 0
        BY <1>2, <2>1, Zenon DEF IsSum
  <2>3. QED
        BY <2>1, <2>2, Zenon
<1>4. ASSUME NEW s \in SUBSET User, s # {}, s \ {Chosen(s)} \in P PROVE s \in P
  <2>1. F[s] = f[Chosen(s)] + F[s \ {Chosen(s)}]
        BY <1>2, <1>4, Zenon DEF IsSum
  <2>2. f[Chosen(s)] = 0
        BY <1>1, <1>4, OneLess
  <2>3. F[s \ {Chosen(s)}] = 0
        BY <1>4, Zenon
  <2>4. F[s] = 0
        BY <2>1, <2>2, <2>3
  <2>5. QED
        BY <2>4, Zenon
<1>5. SUBSET User \subseteq P
  <2> HIDE DEF P
  <2>1. QED
        BY <1>1, <1>3, <1>4, SubsetInduction
<1>6. QED
      BY <1>2, <1>5 DEF f

\* Together the users hold a natural number.
LEMMA HoldingsNatural ==
    ASSUME NEW f \in [User -> Nat]
    PROVE  Holdings(f) \in Nat
<1>1. f \in [User -> Int] /\ IsFiniteSet(User)
      BY PoolAssumption
<1>2. PICK F : IsSum(F, f, User) /\ Holdings(f) = F[User]
      BY <1>1, HoldingsIsSum
<1>3. QED
      BY <1>1, <1>2, SumIsNatural

\* And when a handler takes notes away.
LEMMA HoldingsTake ==
    ASSUME NEW f \in [User -> Nat], NEW u \in User, NEW n \in Nat, f[u] - n \in Nat
    PROVE  LET h == [f EXCEPT ![u] = f[u] - n]
           IN  h \in [User -> Nat] /\ Holdings(f) \in Nat /\ Holdings(h) = Holdings(f) - n
<1> DEFINE d == 0 - n
<1>1. d \in Int /\ f[u] + d = f[u] - n /\ f[u] + d \in Nat
      OBVIOUS
<1> HIDE DEF d
<1> DEFINE g == [f EXCEPT ![u] = f[u] + d]
           h == [f EXCEPT ![u] = f[u] - n]
<1>2. g = h
      BY <1>1
<1>3. h \in [User -> Nat] /\ Holdings(f) \in Nat /\ Holdings(h) = Holdings(f) + d
  <2>1. g \in [User -> Nat] /\ Holdings(f) \in Nat /\ Holdings(g) = Holdings(f) + d
        BY <1>1, HoldingsAdd, Zenon
  <2> HIDE DEF g, h
  <2>2. QED
        BY <1>2, <2>1, Zenon
<1> HIDE DEF h
<1>4. Holdings(h) = Holdings(f) - n
      BY <1>3 DEF d
<1>5. QED
      BY <1>3, <1>4 DEF h

-----------------------------------------------------------------------------
(* What an operation may do to the pool's books.                           *)

\* The pool p at exchange rate r: its notes are worth no more than it has, but
\* for fewer units than r has tokens.
Fair(p, r) == p.depositNotes > 0 => One * (r * p.depositNotes - NetValue(p)) < r

\* LoanNotesAreOwed, of any value of the pool account.
Owed(p) == p.loanNotes > 0 => p.borrowed > 0

\* The operations on the pool's books are all of this kind.
BooksStep(p, q) ==
    /\ q \in PoolType
    /\ q.accruedUntil = p.accruedUntil
    /\ Fair(q, DepositNoteExchangeRate(p))
    /\ Owed(q)
    /\ p.loanNotes > 0 /\ q.loanNotes = 0 => q.borrowed < p.loanNotes

\* A pool that is fair at a rate of at least one backs its notes.
LEMMA FairIsBacked ==
    ASSUME NEW q \in PoolType, NEW r \in Nat, r >= One, Fair(q, r)
    PROVE  Backed(q)
<1> DEFINE n == q.depositNotes
           v == NetValue(q)
           e == r * n - v
<1>1. SUFFICES ASSUME n > 0 PROVE v >= n * One
      BY DEF Backed
<1>2. n \in Nat \ {0} /\ v \in Int
      BY <1>1, NetValueType DEF PoolType
<1>3. One * e < r
      BY <1>1 DEF Fair
<1> HIDE DEF n, v
<1>4. e \in Int /\ v = r * n - e
      BY <1>2
<1> HIDE DEF e
<1>5. (r - One) * n >= r - One /\ (r - One) * n = r * n - n * One
      BY <1>2
<1>6. e <= r - One
  <2>1. CASE e <= 0
        BY <1>4, <2>1
  <2>2. CASE e >= 1
    <3>1. (e - 1) * (One - 1) >= 0
          BY <1>4, <2>2
    <3>2. (e - 1) * (One - 1) = One * e - e - One + 1
          BY <1>4
    <3>3. QED
          BY <1>3, <1>4, <3>1, <3>2
  <2>3. QED
        BY <1>4, <2>1, <2>2
<1>7. QED
      BY <1>2, <1>4, <1>5, <1>6

\* A pool that is fair at a rate keeps the value of its notes at any rate that
\* is not higher, but for the units SharePriceKept allows.
LEMMA FairKeepsPrice ==
    ASSUME NEW q \in PoolType, NEW r \in Nat, NEW s \in Nat, s <= r, r >= One, Fair(q, r),
           q.depositNotes > 0
    PROVE  NetValue(q) + (s + One - 1) \div One >= q.depositNotes * s
<1> DEFINE n == q.depositNotes
           v == NetValue(q)
           c == (s + One - 1) \div One
           e == r * n - v
           d == r - s
<1>1. n \in Nat \ {0} /\ v \in Int
      BY NetValueType DEF PoolType
<1>2. One * e < r
      BY DEF Fair
<1>3. c \in Nat /\ s <= One * c
      BY WholePart DEF AsIntCeil
<1> HIDE DEF n, v, c
<1>4. e \in Int /\ v = r * n - e /\ d \in Nat /\ r = s + d
      BY <1>1
<1> HIDE DEF e, d
<1>5. One * e < One * (c + d)
  <2>1. d <= One * d
        BY <1>4
  <2>2. One * (c + d) = One * c + One * d
        BY <1>3, <1>4
  <2>3. QED
        BY <1>2, <1>3, <1>4, <2>1, <2>2
<1>6. e < c + d
      BY <1>3, <1>4, <1>5, CancelOne
<1>7. r * n = s * n + d * n /\ d * n >= d
      BY <1>1, <1>4
<1>8. v + c >= n * s
      BY <1>1, <1>3, <1>4, <1>6, <1>7
<1>9. QED
      BY <1>8 DEF n, v, c

\* convert_amount for a deposit: the notes are worth at most the tokens.
LEMMA DepositAmount ==
    ASSUME NEW p, NEW t \in Nat, DepositNoteExchangeRate(p) \in Nat \ {0}
    PROVE  LET a == FromTokens(p, t, "Deposit")
           IN  /\ a.tokens = t /\ a.notes \in Nat
               /\ DepositNoteExchangeRate(p) * a.notes <= t * One
<1> DEFINE n == AsInt(Div(FromInt(t), DepositNoteExchangeRate(p)))
<1>1. ~RoundsUp("Deposit", "Tokens")
      BY DEF RoundsUp
<1>2. FromTokens(p, t, "Deposit") = [tokens |-> t, notes |-> n]
      BY <1>1, Zenon DEF FromTokens, ExchangeRate, Round
<1>3. n \in Nat /\ DepositNoteExchangeRate(p) * n <= t * One
      BY NotesRoundedDown
<1> HIDE DEF n
<1>4. QED
      BY <1>2, <1>3

\* convert_amount for a withdrawal: the notes are worth the tokens, but for
\* fewer units than the rate has tokens.
LEMMA WithdrawAmount ==
    ASSUME NEW p, NEW t \in Nat, DepositNoteExchangeRate(p) \in Nat \ {0}
    PROVE  LET a == FromTokens(p, t, "Withdraw")
               r == DepositNoteExchangeRate(p)
           IN  /\ a.tokens = t /\ a.notes \in Nat
               /\ One * (t * One - r * a.notes) < r
<1> DEFINE n == AsIntCeil(Div(FromInt(t), DepositNoteExchangeRate(p)))
<1>1. RoundsUp("Withdraw", "Tokens")
      BY DEF RoundsUp
<1>2. FromTokens(p, t, "Withdraw") = [tokens |-> t, notes |-> n]
      BY <1>1, Zenon DEF FromTokens, ExchangeRate, Round
<1>3. n \in Nat /\ One * (t * One - DepositNoteExchangeRate(p) * n) < DepositNoteExchangeRate(p)
      BY NotesRoundedUp
<1> HIDE DEF n
<1>4. QED
      BY <1>2, <1>3

\* convert_amount for a repayment: the notes are worth at most the tokens, and
\* with one note more they are worth more.
LEMMA RepayAmount ==
    ASSUME NEW p, NEW t \in Nat, LoanNoteExchangeRate(p) \in Nat \ {0}
    PROVE  LET a == FromTokens(p, t, "Repay")
               r == LoanNoteExchangeRate(p)
           IN  /\ a.tokens = t /\ a.notes \in Nat
               /\ r * a.notes <= t * One /\ t * One < r * (a.notes + 1)
<1> DEFINE n == AsInt(Div(FromInt(t), LoanNoteExchangeRate(p)))
<1>1. ~RoundsUp("Repay", "Tokens")
      BY DEF RoundsUp
<1>2. FromTokens(p, t, "Repay") = [tokens |-> t, notes |-> n]
      BY <1>1, Zenon DEF FromTokens, ExchangeRate, Round
<1>3. n \in Nat /\ LoanNoteExchangeRate(p) * n <= t * One
      /\ t * One < LoanNoteExchangeRate(p) * (n + 1)
      BY NotesRoundedDown
<1> HIDE DEF n
<1>4. QED
      BY <1>2, <1>3

\* convert_amount for a loan.
LEMMA BorrowAmount ==
    ASSUME NEW p, NEW t \in Nat, LoanNoteExchangeRate(p) \in Nat \ {0}
    PROVE  LET a == FromTokens(p, t, "Borrow")
           IN  a.tokens = t /\ a.notes \in Nat
<1> DEFINE n == AsIntCeil(Div(FromInt(t), LoanNoteExchangeRate(p)))
<1>1. RoundsUp("Borrow", "Tokens")
      BY DEF RoundsUp
<1>2. FromTokens(p, t, "Borrow") = [tokens |-> t, notes |-> n]
      BY <1>1, Zenon DEF FromTokens, ExchangeRate, Round
<1>3. n \in Nat
      BY NotesRoundedUp
<1> HIDE DEF n
<1>4. QED
      BY <1>2, <1>3

\* Steps that leave the deposit notes alone and do not lower the pool's value.
LEMMA FairWhenNotLowered ==
    ASSUME NEW p \in PoolType, NEW q \in PoolType, Backed(p),
           q.depositNotes = p.depositNotes, NetValue(q) >= NetValue(p)
    PROVE  Fair(q, DepositNoteExchangeRate(p))
<1> DEFINE r == DepositNoteExchangeRate(p)
<1>1. SUFFICES ASSUME p.depositNotes > 0
               PROVE  One * (r * p.depositNotes - NetValue(q)) < r
      BY DEF Fair
<1>2. p.depositNotes \in Nat /\ NetValue(p) \in Int /\ NetValue(q) \in Int /\ RateDefined(p)
      BY <1>1, NetValueType DEF PoolType
<1>3. r \in Nat /\ r >= One /\ r * p.depositNotes <= NetValue(p)
      BY <1>2, DepositRate
<1> HIDE DEF r
<1>4. r * p.depositNotes \in Nat /\ r * p.depositNotes - NetValue(q) <= 0
      BY <1>2, <1>3
<1>5. QED
      BY <1>2, <1>3, <1>4

\* A deposit is fair.
LEMMA DepositStep ==
    ASSUME NEW p \in PoolType, Backed(p), Owed(p), RateDefined(p), NEW t \in Nat
    PROVE  LET a == FromTokens(p, t, "Deposit")
           IN  BooksStep(p, Deposited(p, a)) /\ a.tokens = t /\ a.notes \in Nat
<1> DEFINE r == DepositNoteExchangeRate(p)
           a == FromTokens(p, t, "Deposit")
           q == Deposited(p, a)
<1>1. r \in Nat /\ r >= One /\ r * p.depositNotes <= NetValue(p)
      BY DepositRate
<1>2. a.tokens = t /\ a.notes \in Nat /\ r * a.notes <= t * One
      BY <1>1, DepositAmount
<1> HIDE DEF a, r
<1>3. /\ q.borrowed = p.borrowed /\ q.fees = p.fees /\ q.loanNotes = p.loanNotes
      /\ q.accruedUntil = p.accruedUntil
      /\ q.depositTokens = p.depositTokens + t /\ q.depositNotes = p.depositNotes + a.notes
      BY <1>2 DEF Deposited, PoolType
<1>4. q \in PoolType
  <2>1. p.depositTokens + a.tokens \in Nat /\ p.depositNotes + a.notes \in Nat
        BY <1>2 DEF PoolType
  <2>2. QED
        BY <2>1, Zenon DEF Deposited, PoolType
<1> HIDE DEF q
<1>5. NetValue(q) = NetValue(p) + t * One
      BY <1>3 DEF NetValue, TotalValue, PoolType
<1>6. p.depositNotes \in Nat /\ NetValue(p) \in Int
      BY NetValueType DEF PoolType
<1>7. r * q.depositNotes = r * p.depositNotes + r * a.notes
      BY <1>1, <1>2, <1>3, <1>6
<1>8. r * q.depositNotes - NetValue(q) <= 0
      BY <1>1, <1>2, <1>5, <1>6, <1>7
<1>9. r * q.depositNotes - NetValue(q) \in Int
      BY <1>1, <1>2, <1>5, <1>6, <1>7
<1>10. One * (r * q.depositNotes - NetValue(q)) < r
       BY <1>1, <1>8, <1>9
<1>11. BooksStep(p, q)
       BY <1>3, <1>4, <1>10 DEF BooksStep, Fair, Owed, r, PoolType
<1>12. QED
       BY <1>2, <1>11 DEF q, a

\* Burning the notes of a withdrawal is fair to the others.
LEMMA FairBurn ==
    ASSUME NEW p \in PoolType, Backed(p), RateDefined(p), NEW q \in PoolType,
           NEW t \in Nat, NEW k \in Nat,
           LET r == DepositNoteExchangeRate(p) IN One * (t * One - r * k) < r,
           q.depositNotes = p.depositNotes - k, NetValue(q) >= NetValue(p) - t * One
    PROVE  Fair(q, DepositNoteExchangeRate(p))
<1> DEFINE r == DepositNoteExchangeRate(p)
           n == p.depositNotes
           v == NetValue(p)
           w == NetValue(q)
           x == t * One
<1>1. r \in Nat /\ r >= One /\ r * n <= v
      BY DepositRate
<1>2. n \in Nat /\ v \in Int /\ w \in Int /\ x \in Nat
      BY NetValueType DEF PoolType
<1>3. One * (x - r * k) < r /\ w >= v - x
      OBVIOUS
<1> HIDE DEF r, n, v, w, x
<1>4. r * (n - k) = r * n - r * k
      BY <1>1, <1>2
<1>5. r * (n - k) - w \in Int /\ x - r * k \in Int /\ r * (n - k) - w <= x - r * k
      BY <1>1, <1>2, <1>3, <1>4
<1>6. One * (r * (n - k) - w) <= One * (x - r * k)
      BY <1>5
<1>7. One * (r * (n - k) - w) < r
      BY <1>1, <1>3, <1>5, <1>6
<1>8. QED
      BY <1>7 DEF Fair, r, n, w

\* What a repayment does to the debt: notes that remain still stand for some,
\* and the last one leaves less than a unit for each note.
LEMMA DebtAfterRepay ==
    ASSUME NEW p \in PoolType, Owed(p), LoanRateDefined(p), NEW t \in Nat,
           FromTokens(p, t, "Repay").notes <= p.loanNotes
    PROVE  LET m == FromTokens(p, t, "Repay").notes
               b == SaturatingSub(p.borrowed, t * One)
           IN  /\ FromTokens(p, t, "Repay").tokens = t
               /\ m \in Nat /\ p.loanNotes - m \in Nat
               /\ b \in Nat /\ b >= p.borrowed - t * One
               /\ p.loanNotes - m > 0 => b > 0
               /\ p.loanNotes > 0 /\ p.loanNotes - m = 0 => b < p.loanNotes
<1> DEFINE r == LoanNoteExchangeRate(p)
           m == FromTokens(p, t, "Repay").notes
           b == SaturatingSub(p.borrowed, t * One)
           l == p.loanNotes
           c == p.borrowed
           v == AtLeast(c, One)
           x == t * One
<1>1. l \in Nat /\ c \in Nat /\ x \in Nat /\ v \in Nat /\ v >= c /\ v >= One
      BY DEF PoolType, AtLeast
<1>2. r \in Nat \ {0} /\ (l > 0 => l * r <= v /\ v < l * r + l)
  <2>1. r \in Nat /\ AtLeast(l, 1) * r <= v /\ v < AtLeast(l, 1) * r + AtLeast(l, 1)
        BY LoanRate
  <2>2. r # 0
        BY DEF LoanRateDefined
  <2>3. l > 0 => AtLeast(l, 1) = l
        BY <1>1 DEF AtLeast
  <2>4. QED
        BY <2>1, <2>2, <2>3
<1>3. FromTokens(p, t, "Repay").tokens = t /\ m \in Nat /\ r * m <= x /\ x < r * (m + 1)
      BY <1>2, RepayAmount
<1>4. l - m \in Nat
      BY <1>1, <1>3
<1>5. b \in Nat /\ b >= c - x /\ (c > x => b > 0) /\ (c >= x => b = c - x) /\ (c < x => b = 0)
      BY <1>1 DEF SaturatingSub
<1>6. v = c \/ (c < One /\ v = One)
      BY <1>1 DEF AtLeast
<1>7. l > 0 => c > 0
      BY DEF Owed
<1> HIDE DEF r, m, b, l, c, v
<1>8. ASSUME l - m > 0 PROVE b > 0
  <2>1. m + 1 <= l /\ l > 0
        BY <1>1, <1>3, <1>8
  <2>2. r * (m + 1) <= l * r
        BY <1>1, <1>2, <1>3, <2>1
  <2>3. x < v
        BY <1>1, <1>2, <1>3, <2>1, <2>2
  <2>4. CASE v = c
        BY <1>1, <1>5, <2>3, <2>4
  <2>5. CASE c < One /\ v = One
    <3>1. t = 0
      <4>1. t >= 1 => t * One >= One
            OBVIOUS
      <4>2. QED
            BY <2>3, <2>5, <4>1
    <3>2. x = 0
          BY <3>1
    <3>3. QED
          BY <1>1, <1>5, <1>7, <2>1, <3>2
  <2>6. QED
        BY <1>6, <2>4, <2>5
<1>9. ASSUME l > 0, l - m = 0 PROVE b < l
  <2>1. m = l
        BY <1>1, <1>3, <1>9
  <2>2. l * r <= x
        BY <1>1, <1>2, <1>3, <2>1
  <2>3. c < x + l
        BY <1>1, <1>2, <1>9, <2>2
  <2>4. QED
        BY <1>1, <1>5, <1>9, <2>3
<1>10. QED
       BY <1>3, <1>4, <1>5, <1>8, <1>9 DEF r, m, b, l, c

\* A withdrawal is fair.
LEMMA WithdrawStep ==
    ASSUME NEW p \in PoolType, Backed(p), Owed(p), RateDefined(p), NEW t \in Nat,
           CanWithdraw(p, FromTokens(p, t, "Withdraw"))
    PROVE  LET a == FromTokens(p, t, "Withdraw")
           IN  BooksStep(p, Withdrawn(p, a)) /\ a.tokens = t /\ a.notes \in Nat
<1> DEFINE r == DepositNoteExchangeRate(p)
           a == FromTokens(p, t, "Withdraw")
           q == Withdrawn(p, a)
<1>1. r \in Nat /\ r >= One
      BY DepositRate
<1>2. a.tokens = t /\ a.notes \in Nat /\ One * (t * One - r * a.notes) < r
      BY <1>1, WithdrawAmount
<1>3. p.depositTokens >= a.tokens /\ p.depositNotes >= a.notes
      BY DEF CanWithdraw
<1> HIDE DEF a
<1>4. /\ q.borrowed = p.borrowed /\ q.fees = p.fees /\ q.loanNotes = p.loanNotes
      /\ q.accruedUntil = p.accruedUntil
      /\ q.depositTokens = p.depositTokens - t /\ q.depositNotes = p.depositNotes - a.notes
      BY <1>2 DEF Withdrawn, PoolType
<1>5. q \in PoolType
  <2>1. p.depositTokens - a.tokens \in Nat /\ p.depositNotes - a.notes \in Nat
        BY <1>2, <1>3 DEF PoolType
  <2>2. QED
        BY <2>1, Zenon DEF Withdrawn, PoolType
<1> HIDE DEF q
<1>6. NetValue(q) >= NetValue(p) - t * One
      BY <1>4 DEF NetValue, TotalValue, PoolType
<1> DEFINE k == a.notes
<1>7. k \in Nat /\ One * (t * One - r * k) < r /\ q.depositNotes = p.depositNotes - k
      BY <1>2, <1>4
<1> HIDE DEF k
<1>8. Fair(q, r)
      BY <1>5, <1>6, <1>7, FairBurn
<1>9. BooksStep(p, q)
      BY <1>4, <1>5, <1>8 DEF BooksStep, Owed, PoolType
<1>10. QED
       BY <1>2, <1>9 DEF q, a

\* Settling a loan with deposit notes is fair.
LEMMA SettleStep ==
    ASSUME NEW p \in PoolType, Backed(p), Owed(p), RateDefined(p), LoanRateDefined(p),
           NEW t \in Nat,
           FromTokens(p, t, "Repay").notes <= p.loanNotes,
           FromTokens(p, t, "Withdraw").notes <= p.depositNotes
    PROVE  LET a == FromTokens(p, t, "Repay")
               b == FromTokens(p, t, "Withdraw")
           IN  BooksStep(p, Settled(p, a, b)) /\ a.notes \in Nat /\ b.notes \in Nat
<1> DEFINE r == DepositNoteExchangeRate(p)
           a == FromTokens(p, t, "Repay")
           b == FromTokens(p, t, "Withdraw")
           c == SaturatingSub(p.borrowed, t * One)
           m == a.notes
           k == b.notes
           q == Settled(p, a, b)
<1>1. r \in Nat /\ r >= One
      BY DepositRate
<1>2. k \in Nat /\ One * (t * One - r * k) < r
      BY <1>1, WithdrawAmount
<1>3. /\ a.tokens = t /\ m \in Nat /\ p.loanNotes - m \in Nat
      /\ c \in Nat /\ c >= p.borrowed - t * One
      /\ p.loanNotes - m > 0 => c > 0
      /\ p.loanNotes > 0 /\ p.loanNotes - m = 0 => c < p.loanNotes
      BY DebtAfterRepay
<1>4. p.depositNotes - k \in Nat
      BY <1>2 DEF PoolType
<1> HIDE DEF a, b, r, c
<1>5. q = [p EXCEPT !.depositNotes = p.depositNotes - k, !.loanNotes = p.loanNotes - m,
                    !.borrowed = c]
      BY <1>3 DEF Settled, c
<1> HIDE DEF m, k, q
<1>6. /\ q.borrowed = c /\ q.fees = p.fees /\ q.loanNotes = p.loanNotes - m
      /\ q.accruedUntil = p.accruedUntil
      /\ q.depositTokens = p.depositTokens /\ q.depositNotes = p.depositNotes - k
      BY <1>5 DEF PoolType
<1>7. q \in PoolType
      BY <1>3, <1>4, <1>5, Zenon DEF PoolType
<1>8. NetValue(q) >= NetValue(p) - t * One
      BY <1>3, <1>6 DEF NetValue, TotalValue, PoolType
<1>9. Fair(q, r)
      BY <1>2, <1>6, <1>7, <1>8, FairBurn DEF r
<1>10. BooksStep(p, q)
       BY <1>3, <1>6, <1>7, <1>9 DEF BooksStep, Owed, PoolType, r
<1>11. QED
       BY <1>2, <1>3, <1>10 DEF q, a, b, m, k

\* A loan leaves the value of the pool and its deposit rate as they are.
LEMMA BorrowStep ==
    ASSUME NEW p \in PoolType, Backed(p), Owed(p), LoanRateDefined(p), NEW t \in Nat,
           t <= p.depositTokens, Valid(FromTokens(p, t, "Borrow"))
    PROVE  LET a == FromTokens(p, t, "Borrow")
               q == Borrowed(p, a)
           IN  /\ BooksStep(p, q) /\ a.tokens = t /\ a.notes \in Nat
               /\ Backed(q) /\ (RateDefined(p) => RateDefined(q))
               /\ DepositNoteExchangeRate(q) = DepositNoteExchangeRate(p)
<1> DEFINE a == FromTokens(p, t, "Borrow")
           m == a.notes
           q == Borrowed(p, a)
<1>1. LoanNoteExchangeRate(p) \in Nat \ {0}
  <2>1. LoanNoteExchangeRate(p) \in Nat
        BY LoanRate
  <2>2. QED
        BY <2>1 DEF LoanRateDefined
<1>2. a.tokens = t /\ m \in Nat
      BY <1>1, BorrowAmount
<1>3. m > 0 => t > 0
      BY <1>2 DEF Valid
<1> HIDE DEF a
<1>4. q = [p EXCEPT !.depositTokens = p.depositTokens - t, !.loanNotes = p.loanNotes + m,
                    !.borrowed = p.borrowed + t * One]
      BY <1>2 DEF Borrowed
<1> HIDE DEF m, q
<1>5. /\ q.borrowed = p.borrowed + t * One /\ q.fees = p.fees
      /\ q.loanNotes = p.loanNotes + m /\ q.accruedUntil = p.accruedUntil
      /\ q.depositTokens = p.depositTokens - t /\ q.depositNotes = p.depositNotes
      BY <1>4 DEF PoolType
<1>6. q \in PoolType
  <2>1. p.depositTokens - t \in Nat /\ p.loanNotes + m \in Nat /\ p.borrowed + t * One \in Nat
        BY <1>2 DEF PoolType
  <2>2. QED
        BY <1>4, <2>1, Zenon DEF PoolType
<1>7. TotalValue(q) = TotalValue(p) /\ TotalValue(p) \in Int
      BY <1>5 DEF TotalValue, PoolType
<1>8. NetValue(q) = NetValue(p) /\ NetValue(p) \in Int
      BY <1>5, <1>7 DEF NetValue, PoolType
<1>9. Fair(q, DepositNoteExchangeRate(p))
      BY <1>5, <1>6, <1>8, FairWhenNotLowered
<1>10. t > 0 => t * One > 0
       OBVIOUS
<1>11. BooksStep(p, q)
       BY <1>2, <1>3, <1>5, <1>6, <1>9, <1>10 DEF BooksStep, Owed, PoolType
<1>12. DepositNoteExchangeRate(q) = DepositNoteExchangeRate(p)
       BY <1>5, <1>7, Zenon DEF DepositNoteExchangeRate
<1>13. Backed(q) /\ (RateDefined(p) => RateDefined(q))
       BY <1>5, <1>7, <1>8 DEF Backed, RateDefined
<1>14. QED
       BY <1>2, <1>11, <1>12, <1>13 DEF q, a, m

\* A repayment from a wallet is fair.
LEMMA RepayStep ==
    ASSUME NEW p \in PoolType, Backed(p), Owed(p), LoanRateDefined(p), NEW t \in Nat,
           FromTokens(p, t, "Repay").notes <= p.loanNotes
    PROVE  LET a == FromTokens(p, t, "Repay")
           IN  BooksStep(p, Repaid(p, a)) /\ a.tokens = t /\ a.notes \in Nat
<1> DEFINE a == FromTokens(p, t, "Repay")
           c == SaturatingSub(p.borrowed, t * One)
           m == a.notes
           q == Repaid(p, a)
<1>1. /\ a.tokens = t /\ m \in Nat /\ p.loanNotes - m \in Nat
      /\ c \in Nat /\ c >= p.borrowed - t * One
      /\ p.loanNotes - m > 0 => c > 0
      /\ p.loanNotes > 0 /\ p.loanNotes - m = 0 => c < p.loanNotes
      BY DebtAfterRepay
<1> HIDE DEF a, c
<1>2. q = [p EXCEPT !.depositTokens = p.depositTokens + t, !.loanNotes = p.loanNotes - m,
                    !.borrowed = c]
      BY <1>1 DEF Repaid, c
<1> HIDE DEF m, q
<1>3. /\ q.borrowed = c /\ q.fees = p.fees /\ q.loanNotes = p.loanNotes - m
      /\ q.accruedUntil = p.accruedUntil
      /\ q.depositTokens = p.depositTokens + t /\ q.depositNotes = p.depositNotes
      BY <1>2 DEF PoolType
<1>4. q \in PoolType
  <2>1. p.depositTokens + t \in Nat
        BY DEF PoolType
  <2>2. QED
        BY <1>1, <1>2, <2>1, Zenon DEF PoolType
<1>5. NetValue(q) >= NetValue(p)
      BY <1>1, <1>3 DEF NetValue, TotalValue, PoolType
<1>6. Fair(q, DepositNoteExchangeRate(p))
      BY <1>3, <1>4, <1>5, FairWhenNotLowered
<1>7. BooksStep(p, q)
      BY <1>1, <1>3, <1>4, <1>6 DEF BooksStep, Owed, PoolType
<1>8. QED
      BY <1>1, <1>7 DEF q, a, m

\* The fee notes are worth no more than the fees they stand for: collecting
\* them is fair.
LEMMA CollectStep ==
    ASSUME NEW p \in PoolType, Backed(p), Owed(p), RateDefined(p)
    PROVE  BooksStep(p, FeesCollected(p)) /\ FeeNotesDue(p) \in Nat
<1> DEFINE r == DepositNoteExchangeRate(p)
           d == (p.fees * One) \div r
           k == FeeNotesDue(p)
           q == FeesCollected(p)
           f == p.fees
<1>1. r \in Nat \ {0} /\ r >= One /\ r * p.depositNotes <= NetValue(p)
      BY DepositRate
<1>2. f \in Nat /\ f * One \in Nat
      BY DEF PoolType
<1> HIDE DEF r
<1>3. d \in Nat /\ r * d <= f * One
      BY <1>1, <1>2, DivBounds
<1>4. k = AsInt(d)
      BY DEF FeeNotesDue, Div, r
<1> HIDE DEF d, k
<1>5. k \in Nat /\ One * k <= d
      BY <1>3, <1>4, WholePart
<1> HIDE DEF f
<1>6. k * r <= f
  <2>1. r * (One * k) <= r * d
        BY <1>1, <1>3, <1>5
  <2>2. r * (One * k) = One * (k * r)
        BY <1>1, <1>5
  <2>3. One * (k * r) <= One * f
        BY <1>1, <1>2, <1>3, <1>5, <2>1, <2>2
  <2>4. QED
        BY <1>1, <1>2, <1>5, <2>3, CancelOne
<1>7. Mul(FromInt(k), r) = k * r
  <2>1. (k * One) * r = One * (k * r) /\ k * r \in Nat
        BY <1>1, <1>5
  <2>2. \A y \in Nat : (One * y) \div One = y
        OBVIOUS
  <2>3. QED
        BY <2>1, <2>2 DEF Mul
<1>8. q = [p EXCEPT !.fees = f - k * r, !.depositNotes = p.depositNotes + k]
      BY <1>7 DEF FeesCollected, k, f, r
<1> HIDE DEF q
<1>9. f - k * r \in Nat /\ p.depositNotes + k \in Nat
      BY <1>1, <1>2, <1>5, <1>6 DEF PoolType
<1>10. /\ q.borrowed = p.borrowed /\ q.fees = f - k * r /\ q.loanNotes = p.loanNotes
       /\ q.accruedUntil = p.accruedUntil
       /\ q.depositTokens = p.depositTokens /\ q.depositNotes = p.depositNotes + k
       BY <1>8 DEF PoolType
<1>11. q \in PoolType
       BY <1>8, <1>9, Zenon DEF PoolType
<1>12. NetValue(q) = NetValue(p) + k * r /\ NetValue(p) \in Int /\ p.depositNotes \in Nat
  <2>1. k * r \in Nat
        BY <1>1, <1>5
  <2>2. QED
        BY <1>2, <1>10, <2>1, NetValueType DEF NetValue, TotalValue, PoolType, f
<1>13. r * (p.depositNotes + k) = r * p.depositNotes + k * r
       BY <1>1, <1>5, <1>12
<1>14. r * q.depositNotes - NetValue(q) <= 0 /\ r * q.depositNotes - NetValue(q) \in Int
       BY <1>1, <1>5, <1>10, <1>12, <1>13
<1>15. One * (r * q.depositNotes - NetValue(q)) < r
       BY <1>1, <1>14
<1>16. BooksStep(p, q)
       BY <1>10, <1>11, <1>15 DEF BooksStep, Fair, Owed, PoolType, r
<1>17. QED
       BY <1>5, <1>16 DEF q, k

-----------------------------------------------------------------------------
(* The inductive invariant, and the handlers of depositors and borrowers.  *)

\* Only accepted configurations are in force, and no debt is lost track of:
\* without the first the interest could be negative, without the second the
\* rounding of a repayment could not be bounded.
IndInv == BooksBalance /\ ConfigAccepted /\ NotesBacked /\ LoanNotesAreOwed

LedgerType ==
    /\ vault \in Nat /\ feeNotes \in Nat /\ feeTokens \in Nat
    /\ wallet \in [User -> Nat] /\ deposits \in [User -> Nat] /\ loans \in [User -> Nat]

\* The pool as accrue_interest leaves it.
Accrued(p) ==
    /\ p \in PoolType /\ p.accruedUntil <= now
    /\ p.depositTokens = pool.depositTokens
    /\ p.depositNotes = pool.depositNotes
    /\ p.loanNotes = pool.loanNotes
    /\ NetValue(p) >= NetValue(pool)
    /\ Backed(p) /\ Owed(p)

\* A step on the books of p, with the ledger kept in line.
LedgerStep(p) ==
    /\ BooksStep(p, pool')
    /\ LedgerType' /\ BooksMatchLedger'
    /\ UNCHANGED <<config, now>>

\* Accruing interest keeps the notes backed and the loans owed.
LEMMA AccrualKeeps ==
    ASSUME IndInv, AccrualDefined(pool)
    PROVE  Accrued(AccrueInterest(pool))
<1> DEFINE p == AccrueInterest(pool)
<1>1. pool \in PoolType /\ now \in Nat /\ pool.accruedUntil <= now /\ ConfigAccepted
      BY PoolAssumption DEF IndInv, BooksBalance, TypeOK, PoolType
<1>2. /\ p \in PoolType /\ p.accruedUntil <= now
      /\ p.depositTokens = pool.depositTokens
      /\ p.depositNotes = pool.depositNotes
      /\ p.loanNotes = pool.loanNotes
      /\ p.borrowed >= pool.borrowed
      /\ NetValue(p) >= NetValue(pool)
      BY <1>1, Accrual
<1> HIDE DEF p
<1>3. Backed(p)
  <2>1. NetValue(pool) \in Int /\ NetValue(p) \in Int /\ p.depositNotes \in Nat
        BY <1>1, <1>2, NetValueType DEF PoolType
  <2>2. QED
        BY <1>2, <2>1 DEF IndInv, NotesBacked, Backed
<1>4. Owed(p)
      BY <1>1, <1>2 DEF IndInv, LoanNotesAreOwed, Owed, PoolType
<1>5. QED
      BY <1>2, <1>3, <1>4 DEF Accrued, p

\* What the invariant says of the ledger.
LEMMA LedgerFacts ==
    ASSUME IndInv
    PROVE  /\ pool \in PoolType /\ LedgerType
           /\ pool.loanNotes = Holdings(loans)
           /\ pool.depositTokens = vault + feeTokens
           /\ pool.depositNotes >= Holdings(deposits) + feeNotes
BY DEF IndInv, BooksBalance, TypeOK, BooksMatchLedger, PoolType, LedgerType

\* deposit.
LEMMA DepositKeeps ==
    ASSUME IndInv, NEW p, Accrued(p), NEW u \in User, NEW change, Deposit(p, u, change)
    PROVE  LedgerStep(p)
<1> DEFINE t == TokensToMove("Deposit", change, FromTokens(p, wallet[u], "Deposit").tokens,
                                                FromNotes(p, deposits[u], "Deposit").tokens)
           a == FromTokens(p, t, "Deposit")
           n == a.notes
<1>1. /\ RateDefined(p) /\ t \in 0 .. wallet[u]
      /\ pool' = Deposited(p, a)
      /\ vault' = vault + a.tokens
      /\ wallet' = [wallet EXCEPT ![u] = wallet[u] - a.tokens]
      /\ deposits' = [deposits EXCEPT ![u] = deposits[u] + a.notes]
      /\ UNCHANGED <<config, now, loans, feeNotes, feeTokens>>
      BY DEF Deposit
<1> HIDE DEF t
<1>2. LedgerType /\ wallet[u] \in Nat /\ deposits[u] \in Nat
      BY LedgerFacts DEF LedgerType
<1>3. t \in Nat /\ wallet[u] - t \in Nat
      BY <1>1, <1>2
<1>4. p \in PoolType /\ Backed(p) /\ Owed(p)
      BY DEF Accrued
<1>5. BooksStep(p, Deposited(p, a)) /\ a.tokens = t /\ n \in Nat
      BY <1>1, <1>3, <1>4, DepositStep
<1> HIDE DEF a
<1>6. deposits' = [deposits EXCEPT ![u] = deposits[u] + n] /\ deposits[u] + n \in Nat
      BY <1>1, <1>2, <1>5
<1>7. pool'.depositTokens = p.depositTokens + t /\ pool'.depositNotes = p.depositNotes + n
      /\ pool'.loanNotes = p.loanNotes
      BY <1>1, <1>4, <1>5 DEF Deposited, PoolType
<1> HIDE DEF n
<1>8. deposits' \in [User -> Nat] /\ Holdings(deposits) \in Nat
      /\ Holdings(deposits') = Holdings(deposits) + n
  <2>1. deposits \in [User -> Nat] /\ n \in Int
        BY <1>2, <1>5 DEF LedgerType
  <2>2. QED
        BY <1>6, <2>1, HoldingsAdd, Zenon
<1>9. LedgerType'
      BY <1>1, <1>2, <1>3, <1>5, <1>8 DEF LedgerType
<1>10. BooksMatchLedger'
  <2>1. loans' = loans /\ feeNotes' = feeNotes /\ feeTokens' = feeTokens /\ vault' = vault + t
        BY <1>1, <1>5
  <2>2. vault \in Nat /\ feeNotes \in Nat /\ feeTokens \in Nat /\ pool.depositNotes \in Nat
        BY <1>2, LedgerFacts DEF LedgerType, PoolType
  <2>3. QED
        BY <1>3, <1>5, <1>7, <1>8, <2>1, <2>2, LedgerFacts DEF BooksMatchLedger, Accrued
<1>11. QED
       BY <1>1, <1>5, <1>9, <1>10 DEF LedgerStep

\* withdraw.
LEMMA WithdrawKeeps ==
    ASSUME IndInv, NEW p, Accrued(p), NEW u \in User, NEW change, Withdraw(p, u, change)
    PROVE  LedgerStep(p)
<1> DEFINE t == TokensToMove("Withdraw", change, FromNotes(p, deposits[u], "Withdraw").tokens,
                                                 wallet[u])
           a == FromTokens(p, t, "Withdraw")
           n == a.notes
<1>1. /\ RateDefined(p) /\ t \in 0 .. vault /\ CanWithdraw(p, a) /\ deposits[u] >= a.notes
      /\ pool' = Withdrawn(p, a)
      /\ vault' = vault - a.tokens
      /\ wallet' = [wallet EXCEPT ![u] = wallet[u] + a.tokens]
      /\ deposits' = [deposits EXCEPT ![u] = deposits[u] - a.notes]
      /\ UNCHANGED <<config, now, loans, feeNotes, feeTokens>>
      BY DEF Withdraw
<1> HIDE DEF t
<1>2. LedgerType /\ wallet[u] \in Nat /\ deposits[u] \in Nat /\ vault \in Nat
      BY LedgerFacts DEF LedgerType
<1>3. t \in Nat /\ vault - t \in Nat /\ wallet[u] + t \in Nat
      BY <1>1, <1>2
<1>4. p \in PoolType /\ Backed(p) /\ Owed(p)
      BY DEF Accrued
<1>5. BooksStep(p, Withdrawn(p, a)) /\ a.tokens = t /\ n \in Nat
      BY <1>1, <1>3, <1>4, WithdrawStep
<1> HIDE DEF a
<1>6. deposits' = [deposits EXCEPT ![u] = deposits[u] - n] /\ deposits[u] - n \in Nat
      BY <1>1, <1>2, <1>5
<1>7. pool'.depositTokens = p.depositTokens - t /\ pool'.depositNotes = p.depositNotes - n
      /\ pool'.loanNotes = p.loanNotes
      BY <1>1, <1>4, <1>5 DEF Withdrawn, PoolType
<1> HIDE DEF n
<1>8. deposits' \in [User -> Nat] /\ Holdings(deposits) \in Nat
      /\ Holdings(deposits') = Holdings(deposits) - n
  <2>1. deposits \in [User -> Nat]
        BY <1>2 DEF LedgerType
  <2>2. QED
        BY <1>5, <1>6, <2>1, HoldingsTake, Zenon
<1>9. LedgerType'
      BY <1>1, <1>2, <1>3, <1>5, <1>8 DEF LedgerType
<1>10. BooksMatchLedger'
  <2>1. loans' = loans /\ feeNotes' = feeNotes /\ feeTokens' = feeTokens /\ vault' = vault - t
        BY <1>1, <1>5
  <2>2. vault \in Nat /\ feeNotes \in Nat /\ feeTokens \in Nat /\ pool.depositNotes \in Nat
        BY <1>2, LedgerFacts DEF LedgerType, PoolType
  <2>3. QED
        BY <1>3, <1>5, <1>7, <1>8, <2>1, <2>2, LedgerFacts DEF BooksMatchLedger, Accrued
<1>11. QED
       BY <1>1, <1>5, <1>9, <1>10 DEF LedgerStep

\* calculate_full_amount asks for an integer.
LEMMA TokensToMoveType ==
    ASSUME NEW action \in {"Borrow", "Repay"}, NEW change \in Request,
           NEW source \in Nat, NEW destination \in Nat
    PROVE  TokensToMove(action, change, source, destination) \in Int
<1>1. change.tokens \in Nat /\ change.kind \in ChangeKind
      BY PoolAssumption DEF Request
<1> DEFINE c == change.tokens
           k == change.kind
<1>2. TokensToMove(action, change, source, destination) =
          CASE k = "ShiftBy" -> c
            [] k = "SetDestinationTo" ->
                  IF action = "Repay" THEN destination - c ELSE c - destination
            [] k = "SetSourceTo" ->
                  CASE action = "Borrow" -> c - source
                    [] action \in {"Deposit", "Withdraw"} -> source - c
                    [] action = "Repay" ->
                          IF source >= c /\ destination < source - c
                          THEN destination ELSE source - c
      BY Zenon DEF TokensToMove
<1> HIDE DEF c, k
<1>3. c \in Nat /\ k \in {"ShiftBy", "SetSourceTo", "SetDestinationTo"}
      BY <1>1 DEF c, k, ChangeKind
<1>4. QED
      BY <1>2, <1>3

\* margin_borrow_v2.
LEMMA MarginBorrowV2Keeps ==
    ASSUME IndInv, NEW p, Accrued(p), NEW u \in User, NEW t \in Amount, MarginBorrowV2(p, u, t)
    PROVE  LedgerStep(p)
<1> DEFINE a == FromTokens(p, t, "Borrow")
           m == a.notes
<1>1. /\ LoanRateDefined(p) /\ t <= vault /\ Valid(a) /\ CanBorrow(p, a)
      /\ pool' = Borrowed(p, a)
      /\ vault' = vault - t
      /\ wallet' = [wallet EXCEPT ![u] = wallet[u] + t]
      /\ loans' = [loans EXCEPT ![u] = loans[u] + a.notes]
      /\ UNCHANGED <<config, now, deposits, feeNotes, feeTokens>>
      BY DEF MarginBorrowV2
<1>2. LedgerType /\ wallet[u] \in Nat /\ loans[u] \in Nat /\ vault \in Nat /\ t \in Nat
      BY LedgerFacts, PoolAssumption DEF LedgerType
<1>3. vault - t \in Nat /\ wallet[u] + t \in Nat
      BY <1>1, <1>2
<1>4. p \in PoolType /\ Backed(p) /\ Owed(p)
      BY DEF Accrued
<1>5. t <= p.depositTokens
      BY <1>1 DEF CanBorrow, FromTokens
<1>6. BooksStep(p, Borrowed(p, a)) /\ a.tokens = t /\ m \in Nat
      BY <1>1, <1>2, <1>4, <1>5, BorrowStep
<1> HIDE DEF a
<1>7. loans' = [loans EXCEPT ![u] = loans[u] + m] /\ loans[u] + m \in Nat
      BY <1>1, <1>2, <1>6
<1>8. pool'.depositTokens = p.depositTokens - t /\ pool'.depositNotes = p.depositNotes
      /\ pool'.loanNotes = p.loanNotes + m
      BY <1>1, <1>4, <1>6 DEF Borrowed, PoolType
<1> HIDE DEF m
<1>9. loans' \in [User -> Nat] /\ Holdings(loans) \in Nat
      /\ Holdings(loans') = Holdings(loans) + m
  <2>1. loans \in [User -> Nat] /\ m \in Int
        BY <1>2, <1>6 DEF LedgerType
  <2>2. QED
        BY <1>7, <2>1, HoldingsAdd, Zenon
<1>10. LedgerType'
       BY <1>1, <1>2, <1>3, <1>9 DEF LedgerType
<1>11. BooksMatchLedger'
  <2>1. deposits' = deposits /\ feeNotes' = feeNotes /\ feeTokens' = feeTokens
        /\ vault' = vault - t
        BY <1>1
  <2>2. vault \in Nat /\ feeNotes \in Nat /\ feeTokens \in Nat /\ pool.depositNotes \in Nat
        BY <1>2, LedgerFacts DEF LedgerType, PoolType
  <2>3. QED
        BY <1>2, <1>6, <1>8, <1>9, <2>1, <2>2, LedgerFacts DEF BooksMatchLedger, Accrued
<1>12. QED
       BY <1>1, <1>6, <1>10, <1>11 DEF LedgerStep

\* repay.
LEMMA RepayKeeps ==
    ASSUME IndInv, NEW p, Accrued(p), NEW u \in User, NEW v \in User, NEW change,
           Repay(p, u, v, change)
    PROVE  LedgerStep(p)
<1> DEFINE t == TokensToMove("Repay", change, FromTokens(p, wallet[u], "Borrow").tokens,
                                              FromNotes(p, loans[v], "Deposit").tokens)
           a == FromTokens(p, t, "Repay")
           m == a.notes
<1>1. /\ LoanRateDefined(p) /\ t \in 0 .. wallet[u] /\ CanRepay(p, a) /\ loans[v] >= a.notes
      /\ pool' = Repaid(p, a)
      /\ vault' = vault + a.tokens
      /\ wallet' = [wallet EXCEPT ![u] = wallet[u] - a.tokens]
      /\ loans' = [loans EXCEPT ![v] = loans[v] - a.notes]
      /\ UNCHANGED <<config, now, deposits, feeNotes, feeTokens>>
      BY DEF Repay
<1> HIDE DEF t
<1>2. LedgerType /\ wallet[u] \in Nat /\ loans[v] \in Nat /\ vault \in Nat
      BY LedgerFacts DEF LedgerType
<1>3. t \in Nat /\ vault + t \in Nat /\ wallet[u] - t \in Nat
      BY <1>1, <1>2
<1>4. p \in PoolType /\ Backed(p) /\ Owed(p) /\ p.loanNotes \in Nat
      BY DEF Accrued, PoolType
<1>5. LoanNoteExchangeRate(p) \in Nat \ {0}
  <2>1. LoanNoteExchangeRate(p) \in Nat
        BY <1>4, LoanRate
  <2>2. QED
        BY <1>1, <2>1 DEF LoanRateDefined
<1>6. m \in Nat
      BY <1>3, <1>5, RepayAmount
<1>7. FromTokens(p, t, "Repay").notes <= p.loanNotes
      BY <1>1, <1>4, <1>6 DEF CanRepay
<1>8. BooksStep(p, Repaid(p, a)) /\ a.tokens = t
      BY <1>1, <1>3, <1>4, <1>7, RepayStep
<1> HIDE DEF a
<1>9. loans' = [loans EXCEPT ![v] = loans[v] - m] /\ loans[v] - m \in Nat
      BY <1>1, <1>2, <1>6
<1>10. pool'.depositTokens = p.depositTokens + t /\ pool'.depositNotes = p.depositNotes
       /\ pool'.loanNotes = p.loanNotes - m
       BY <1>1, <1>4, <1>8 DEF Repaid, PoolType
<1> HIDE DEF m
<1>11. loans' \in [User -> Nat] /\ Holdings(loans) \in Nat
       /\ Holdings(loans') = Holdings(loans) - m
  <2>1. loans \in [User -> Nat]
        BY <1>2 DEF LedgerType
  <2>2. QED
        BY <1>6, <1>9, <2>1, HoldingsTake, Zenon
<1>12. LedgerType'
       BY <1>1, <1>2, <1>3, <1>8, <1>11 DEF LedgerType
<1>13. BooksMatchLedger'
  <2>1. deposits' = deposits /\ feeNotes' = feeNotes /\ feeTokens' = feeTokens
        /\ vault' = vault + t
        BY <1>1, <1>8
  <2>2. vault \in Nat /\ feeNotes \in Nat /\ feeTokens \in Nat /\ pool.depositNotes \in Nat
        BY <1>2, LedgerFacts DEF LedgerType, PoolType
  <2>3. QED
        BY <1>3, <1>6, <1>10, <1>11, <2>1, <2>2, LedgerFacts DEF BooksMatchLedger, Accrued
<1>14. QED
       BY <1>1, <1>8, <1>12, <1>13 DEF LedgerStep

\* Notes are valued at a natural number of tokens.
LEMMA NotesValue ==
    ASSUME NEW p \in PoolType, Backed(p), NEW n \in Nat,
           NEW action \in {"Deposit", "Withdraw", "Borrow", "Repay"}
    PROVE  FromNotes(p, n, action).tokens \in Nat
<1>1. DepositNoteExchangeRate(p) \in Nat /\ LoanNoteExchangeRate(p) \in Nat
      BY DepositRate, LoanRate
<1>2. ExchangeRate(p, action) \in Nat
      BY <1>1 DEF ExchangeRate
<1>3. RoundsUp(action, "Notes") \in BOOLEAN
      BY DEF RoundsUp
<1> DEFINE x == Round(Mul(FromInt(n), ExchangeRate(p, action)), RoundsUp(action, "Notes"))
<1>4. x \in Nat
      BY <1>2, <1>3, TokensAreNatural, Zenon
<1> HIDE DEF x
<1>5. FromNotes(p, n, action) = [tokens |-> x, notes |-> n]
      BY DEF FromNotes, x
<1>6. QED
      BY <1>4, <1>5

\* margin_borrow: a loan and a deposit in one step.
LEMMA MarginBorrowKeeps ==
    ASSUME IndInv, NEW p, Accrued(p), NEW u \in User, NEW change \in Request,
           MarginBorrow(p, u, change)
    PROVE  LedgerStep(p)
<1> DEFINE s == FromNotes(p, loans[u], "Borrow").tokens
           e == FromNotes(p, deposits[u], "Deposit").tokens
           t == TokensToMove("Borrow", change, s, e)
           a == FromTokens(p, t, "Borrow")
           q == Borrowed(p, a)
           b == FromTokens(q, t, "Deposit")
           m == a.notes
           n == b.notes
<1>1. /\ RateDefined(p) /\ LoanRateDefined(p) /\ t >= 0 /\ Valid(a) /\ CanBorrow(p, a)
      /\ pool' = Deposited(q, b)
      /\ loans' = [loans EXCEPT ![u] = loans[u] + a.notes]
      /\ deposits' = [deposits EXCEPT ![u] = deposits[u] + b.notes]
      /\ UNCHANGED <<config, now, vault, wallet, feeNotes, feeTokens>>
      BY DEF MarginBorrow
<1>2. LedgerType /\ deposits[u] \in Nat /\ loans[u] \in Nat
      BY LedgerFacts DEF LedgerType
<1>3. p \in PoolType /\ Backed(p) /\ Owed(p)
      BY DEF Accrued
<1>4. s \in Nat /\ e \in Nat
      BY <1>2, <1>3, NotesValue
<1>5. t \in Nat
  <2> HIDE DEF s, e
  <2>1. t \in Int
        BY <1>4, TokensToMoveType
  <2>2. QED
        BY <1>1, <2>1
<1> HIDE DEF t
<1>6. t <= p.depositTokens
      BY <1>1 DEF CanBorrow, FromTokens
<1>7. /\ BooksStep(p, q) /\ a.tokens = t /\ m \in Nat /\ Backed(q) /\ RateDefined(q)
      /\ DepositNoteExchangeRate(q) = DepositNoteExchangeRate(p)
      BY <1>1, <1>3, <1>5, <1>6, BorrowStep
<1>8. /\ q.depositTokens = p.depositTokens - t /\ q.depositNotes = p.depositNotes
      /\ q.loanNotes = p.loanNotes + m
      BY <1>3, <1>7 DEF Borrowed, PoolType
<1> HIDE DEF a, q
<1>9. q \in PoolType /\ Owed(q)
      BY <1>7 DEF BooksStep
<1>10. BooksStep(q, Deposited(q, b)) /\ b.tokens = t /\ n \in Nat
       BY <1>5, <1>7, <1>9, DepositStep
<1>11. /\ pool'.depositTokens = p.depositTokens /\ pool'.depositNotes = p.depositNotes + n
       /\ pool'.loanNotes = p.loanNotes + m
  <2>1. /\ pool'.depositTokens = q.depositTokens + b.tokens
        /\ pool'.depositNotes = q.depositNotes + b.notes
        /\ pool'.loanNotes = q.loanNotes
        BY <1>1, <1>9 DEF Deposited, PoolType
  <2>2. QED
        BY <1>3, <1>5, <1>8, <1>10, <2>1 DEF PoolType
<1> HIDE DEF b
<1>12. BooksStep(p, pool')
  <2>1. p.loanNotes > 0 => pool'.loanNotes # 0
        BY <1>3, <1>7, <1>11 DEF PoolType
  <2>2. q.accruedUntil = p.accruedUntil
        BY <1>7 DEF BooksStep
  <2>3. BooksStep(q, pool')
        BY <1>1, <1>10
  <2>4. QED
        BY <1>7, <2>1, <2>2, <2>3 DEF BooksStep
<1>13. loans[u] + m \in Nat /\ deposits[u] + n \in Nat
       /\ loans' = [loans EXCEPT ![u] = loans[u] + m]
       /\ deposits' = [deposits EXCEPT ![u] = deposits[u] + n]
       BY <1>1, <1>2, <1>7, <1>10
<1> HIDE DEF m, n
<1>14. loans' \in [User -> Nat] /\ Holdings(loans) \in Nat
       /\ Holdings(loans') = Holdings(loans) + m
  <2>1. loans \in [User -> Nat] /\ m \in Int
        BY <1>2, <1>7 DEF LedgerType
  <2>2. QED
        BY <1>13, <2>1, HoldingsAdd, Zenon
<1>15. deposits' \in [User -> Nat] /\ Holdings(deposits) \in Nat
       /\ Holdings(deposits') = Holdings(deposits) + n
  <2>1. deposits \in [User -> Nat] /\ n \in Int
        BY <1>2, <1>10 DEF LedgerType
  <2>2. QED
        BY <1>13, <2>1, HoldingsAdd, Zenon
<1>16. LedgerType'
       BY <1>1, <1>2, <1>14, <1>15 DEF LedgerType
<1>17. BooksMatchLedger'
  <2>1. feeNotes' = feeNotes /\ feeTokens' = feeTokens /\ vault' = vault
        BY <1>1
  <2>2. vault \in Nat /\ feeNotes \in Nat /\ feeTokens \in Nat /\ pool.depositNotes \in Nat
        BY <1>2, LedgerFacts DEF LedgerType, PoolType
  <2>3. QED
        BY <1>7, <1>10, <1>11, <1>14, <1>15, <2>1, <2>2, LedgerFacts DEF BooksMatchLedger, Accrued
<1>18. QED
       BY <1>1, <1>12, <1>16, <1>17 DEF LedgerStep

\* margin_repay.
LEMMA MarginRepayKeeps ==
    ASSUME IndInv, NEW p, Accrued(p), NEW u \in User, NEW change \in Request,
           MarginRepay(p, u, change)
    PROVE  LedgerStep(p)
<1> DEFINE s == FromNotes(p, deposits[u], "Withdraw").tokens
           e == FromNotes(p, loans[u], "Repay").tokens
           t == TokensToMove("Repay", change, s, e)
           a == FromTokens(p, t, "Repay")
           b == FromTokens(p, t, "Withdraw")
           m == a.notes
           n == b.notes
<1>1. /\ RateDefined(p) /\ LoanRateDefined(p) /\ t >= 0
      /\ p.depositNotes >= b.notes /\ CanRepay(p, a)
      /\ loans[u] >= a.notes /\ deposits[u] >= b.notes
      /\ pool' = Settled(p, a, b)
      /\ loans' = [loans EXCEPT ![u] = loans[u] - a.notes]
      /\ deposits' = [deposits EXCEPT ![u] = deposits[u] - b.notes]
      /\ UNCHANGED <<config, now, vault, wallet, feeNotes, feeTokens>>
      BY DEF MarginRepay
<1>2. LedgerType /\ deposits[u] \in Nat /\ loans[u] \in Nat
      BY LedgerFacts DEF LedgerType
<1>3. p \in PoolType /\ Backed(p) /\ Owed(p) /\ p.loanNotes \in Nat /\ p.depositNotes \in Nat
      BY DEF Accrued, PoolType
<1>4. s \in Nat /\ e \in Nat
      BY <1>2, <1>3, NotesValue
<1>5. t \in Nat
  <2> HIDE DEF s, e
  <2>1. t \in Int
        BY <1>4, TokensToMoveType
  <2>2. QED
        BY <1>1, <2>1
<1> HIDE DEF t
<1>6. m \in Nat /\ n \in Nat
  <2>1. LoanNoteExchangeRate(p) \in Nat /\ DepositNoteExchangeRate(p) \in Nat \ {0}
        BY <1>3, LoanRate, DepositRate
  <2>2. LoanNoteExchangeRate(p) \in Nat \ {0}
        BY <1>1, <2>1 DEF LoanRateDefined
  <2>3. m \in Nat
        BY <1>5, <2>2, RepayAmount
  <2>4. n \in Nat
        BY <1>5, <2>1, WithdrawAmount
  <2>5. QED
        BY <2>3, <2>4
<1>7. FromTokens(p, t, "Repay").notes <= p.loanNotes
      /\ FromTokens(p, t, "Withdraw").notes <= p.depositNotes
      BY <1>1, <1>3, <1>6 DEF CanRepay
<1>8. BooksStep(p, Settled(p, a, b))
      BY <1>1, <1>3, <1>5, <1>7, SettleStep
<1> HIDE DEF a, b
<1>9. loans[u] - m \in Nat /\ deposits[u] - n \in Nat
      /\ loans' = [loans EXCEPT ![u] = loans[u] - m]
      /\ deposits' = [deposits EXCEPT ![u] = deposits[u] - n]
      BY <1>1, <1>2, <1>6
<1>10. pool'.depositTokens = p.depositTokens /\ pool'.depositNotes = p.depositNotes - n
       /\ pool'.loanNotes = p.loanNotes - m
       BY <1>1, <1>3 DEF Settled, PoolType
<1> HIDE DEF m, n
<1>11. loans' \in [User -> Nat] /\ Holdings(loans) \in Nat
       /\ Holdings(loans') = Holdings(loans) - m
  <2>1. loans \in [User -> Nat]
        BY <1>2 DEF LedgerType
  <2>2. QED
        BY <1>6, <1>9, <2>1, HoldingsTake, Zenon
<1>12. deposits' \in [User -> Nat] /\ Holdings(deposits) \in Nat
       /\ Holdings(deposits') = Holdings(deposits) - n
  <2>1. deposits \in [User -> Nat]
        BY <1>2 DEF LedgerType
  <2>2. QED
        BY <1>6, <1>9, <2>1, HoldingsTake, Zenon
<1>13. LedgerType'
       BY <1>1, <1>2, <1>11, <1>12 DEF LedgerType
<1>14. BooksMatchLedger'
  <2>1. feeNotes' = feeNotes /\ feeTokens' = feeTokens /\ vault' = vault
        BY <1>1
  <2>2. vault \in Nat /\ feeNotes \in Nat /\ feeTokens \in Nat /\ pool.depositNotes \in Nat
        BY <1>2, LedgerFacts DEF LedgerType, PoolType
  <2>3. QED
        BY <1>6, <1>10, <1>11, <1>12, <2>1, <2>2, LedgerFacts DEF BooksMatchLedger, Accrued
<1>15. QED
       BY <1>1, <1>8, <1>13, <1>14 DEF LedgerStep

\* A trade is a step on the books of the accrued pool that keeps the ledger in
\* line.
LEMMA TradeKeeps ==
    ASSUME IndInv, NEW p, Accrued(p), Trade(p)
    PROVE  LedgerStep(p)
<1>1. PICK u \in User :
          \/ \E change \in Request :
                \/ Deposit(p, u, change)
                \/ Withdraw(p, u, change)
                \/ MarginBorrow(p, u, change)
                \/ MarginRepay(p, u, change)
                \/ \E debtor \in User : Repay(p, u, debtor, change)
          \/ \E t \in Amount : MarginBorrowV2(p, u, t)
      BY DEF Trade
<1>2. QED
      BY <1>1, DepositKeeps, WithdrawKeeps, MarginBorrowKeeps, MarginRepayKeeps, RepayKeeps,
         MarginBorrowV2Keeps

-----------------------------------------------------------------------------
(* The other handlers, and the theorems.                                   *)

\* What every step does, with the pool p that accrue_interest left behind.
StepEffect ==
    /\ \E p : Accrued(p) /\ BooksStep(p, pool')
    /\ LedgerType' /\ BooksMatchLedger'
    /\ ConfigAccepted'
    /\ now' \in 0 .. MaxTime /\ now' >= now

\* Leaving the books as they are is fair.
LEMMA SelfStep ==
    ASSUME NEW p \in PoolType, Backed(p), Owed(p)
    PROVE  BooksStep(p, p)
<1>1. NetValue(p) \in Int
      BY NetValueType
<1>2. Fair(p, DepositNoteExchangeRate(p))
      BY <1>1, FairWhenNotLowered
<1>3. QED
      BY <1>2 DEF BooksStep, PoolType

\* The pool as it is counts as accrued.
LEMMA PoolAccrued ==
    ASSUME IndInv
    PROVE  Accrued(pool) /\ BooksStep(pool, pool)
<1>1. pool \in PoolType /\ pool.accruedUntil <= now
      BY DEF IndInv, BooksBalance, TypeOK, PoolType
<1>2. NetValue(pool) \in Int
      BY <1>1, NetValueType
<1>3. Backed(pool) /\ Owed(pool)
      BY DEF IndInv, NotesBacked, LoanNotesAreOwed, Backed, Owed
<1>4. QED
      BY <1>1, <1>2, <1>3, SelfStep DEF Accrued

\* collect.
LEMMA CollectKeeps ==
    ASSUME IndInv, Collect
    PROVE  StepEffect
<1>1. LedgerType /\ BooksMatchLedger /\ ConfigAccepted /\ now \in 0 .. MaxTime
      BY LedgerFacts DEF IndInv, BooksBalance, TypeOK
<1>2. CASE CollectBehind
  <2> DEFINE p == AccrueInterest(pool)
  <2>1. AccrualDefined(pool) /\ pool' = p /\ UNCHANGED <<config, now, ledger>>
        BY <1>2 DEF CollectBehind
  <2>2. Accrued(p)
        BY <2>1, AccrualKeeps
  <2> HIDE DEF p
  <2>3. BooksStep(p, pool')
        BY <2>1, <2>2, SelfStep DEF Accrued
  <2>4. LedgerType' /\ ConfigAccepted'
        BY <1>1, <2>1 DEF LedgerType, ConfigAccepted, ledger
  <2>5. BooksMatchLedger'
        BY <1>1, <2>1, <2>2 DEF BooksMatchLedger, Accrued, ledger
  <2>6. QED
        BY <1>1, <2>1, <2>2, <2>3, <2>4, <2>5 DEF StepEffect
<1>3. CASE CollectFees
  <2> DEFINE p == AccrueInterest(pool)
             k == FeeNotesDue(p)
  <2>1. /\ AccrualDefined(pool) /\ RateDefined(p) /\ pool' = FeesCollected(p)
        /\ feeNotes' = feeNotes + k
        /\ UNCHANGED <<config, now, vault, wallet, deposits, loans, feeTokens>>
        BY <1>3 DEF CollectFees, UpToDate
  <2>2. Accrued(p)
        BY <2>1, AccrualKeeps
  <2> HIDE DEF p
  <2>3. BooksStep(p, FeesCollected(p)) /\ k \in Nat
        BY <2>1, <2>2, CollectStep DEF Accrued
  <2>4. LedgerType' /\ ConfigAccepted'
        BY <1>1, <2>1, <2>3 DEF LedgerType, ConfigAccepted
  <2>5. pool'.depositTokens = p.depositTokens /\ pool'.depositNotes = p.depositNotes + k
        /\ pool'.loanNotes = p.loanNotes
        BY <2>1, <2>2 DEF FeesCollected, PoolType, Accrued
  <2> HIDE DEF k
  <2>6. BooksMatchLedger'
    <3>1. deposits' = deposits /\ loans' = loans /\ vault' = vault /\ feeTokens' = feeTokens
          BY <2>1
    <3>2. Holdings(deposits) \in Nat
          BY <1>1, HoldingsNatural DEF LedgerType
    <3>3. feeNotes \in Nat /\ pool.depositNotes \in Nat
          BY <1>1, LedgerFacts DEF LedgerType, PoolType
    <3>4. QED
          BY <1>1, <2>1, <2>2, <2>3, <2>5, <3>1, <3>2, <3>3 DEF BooksMatchLedger, Accrued
  <2>7. QED
        BY <1>1, <2>1, <2>2, <2>3, <2>4, <2>6 DEF StepEffect
<1>4. QED
      BY <1>2, <1>3 DEF Collect

\* withdraw_fees: the books do not change, and the ledger not against them.
LEMMA WithdrawFeesKeeps ==
    ASSUME IndInv, WithdrawFees
    PROVE  StepEffect
<1> DEFINE t == FromNotes(pool, feeNotes, "Withdraw").tokens
<1>1. /\ vault >= t /\ vault' = vault - t /\ feeNotes' = 0 /\ feeTokens' = feeTokens + t
      /\ UNCHANGED <<pool, config, now, wallet, deposits, loans>>
      BY DEF WithdrawFees
<1>2. LedgerType /\ BooksMatchLedger /\ ConfigAccepted /\ now \in 0 .. MaxTime
      BY LedgerFacts DEF IndInv, BooksBalance, TypeOK
<1>3. Accrued(pool) /\ BooksStep(pool, pool)
      BY PoolAccrued
<1>4. t \in Nat
      BY <1>2, <1>3, NotesValue DEF Accrued, LedgerType
<1> HIDE DEF t
<1>5. LedgerType' /\ ConfigAccepted'
      BY <1>1, <1>2, <1>4 DEF LedgerType, ConfigAccepted
<1>6. BooksMatchLedger'
  <2>1. Holdings(deposits) \in Nat
        BY <1>2, HoldingsNatural DEF LedgerType
  <2>2. vault \in Nat /\ feeNotes \in Nat /\ feeTokens \in Nat /\ pool.depositNotes \in Nat
        BY <1>2, LedgerFacts DEF LedgerType, PoolType
  <2>3. QED
        BY <1>1, <1>2, <1>4, <2>1, <2>2 DEF BooksMatchLedger
<1>7. pool' = pool
      BY <1>1
<1>8. QED
      BY <1>1, <1>2, <1>3, <1>5, <1>6, <1>7 DEF StepEffect

\* admin_transfer_loan: notes move from one account to the other, or back to
\* the same.
LEMMA AdminTransferLoanKeeps ==
    ASSUME IndInv, NEW from \in User, NEW to \in User, NEW n \in Amount,
           AdminTransferLoan(from, to, n)
    PROVE  StepEffect
<1> DEFINE g == [loans EXCEPT ![from] = loans[from] - n]
           h == [v \in User |-> loans[v] - (IF v = from THEN n ELSE 0) + (IF v = to THEN n ELSE 0)]
<1>1. /\ loans[from] >= n /\ loans' = h
      /\ UNCHANGED <<pool, config, now, vault, wallet, deposits, feeNotes, feeTokens>>
      BY DEF AdminTransferLoan
<1>2. LedgerType /\ BooksMatchLedger /\ ConfigAccepted /\ now \in 0 .. MaxTime
      BY LedgerFacts DEF IndInv, BooksBalance, TypeOK
<1>3. loans \in [User -> Nat] /\ n \in Nat /\ loans[from] - n \in Nat
      BY <1>1, <1>2, PoolAssumption DEF LedgerType
<1>4. g \in [User -> Nat] /\ Holdings(loans) \in Nat /\ Holdings(g) = Holdings(loans) - n
      BY <1>3, HoldingsTake, Zenon
<1>5. /\ h \in [User -> Nat] /\ g[to] + n \in Nat /\ h[to] = g[to] + n
      /\ \A v \in User : v # to => h[v] = g[v]
      BY <1>3
<1> HIDE DEF g, h
<1>6. Holdings(h) = Holdings(g) + n
      BY <1>3, <1>4, <1>5, HoldingsAfterChange
<1>7. Holdings(h) = Holdings(loans)
      BY <1>3, <1>4, <1>6
<1>8. LedgerType' /\ ConfigAccepted'
      BY <1>1, <1>2, <1>5 DEF LedgerType, ConfigAccepted
<1>9. BooksMatchLedger'
      BY <1>1, <1>2, <1>7 DEF BooksMatchLedger
<1>10. pool' = pool
       BY <1>1
<1>11. QED
       BY <1>1, <1>2, <1>8, <1>9, <1>10, PoolAccrued DEF StepEffect

\* Steps that touch neither the books nor the ledger: configure, and time.
LEMMA QuietStepKeeps ==
    ASSUME IndInv, UNCHANGED <<pool, ledger>>, ConfigAccepted', now' \in 0 .. MaxTime,
           now' >= now
    PROVE  StepEffect
<1>1. LedgerType /\ BooksMatchLedger
      BY LedgerFacts DEF IndInv, BooksBalance
<1>2. LedgerType' /\ BooksMatchLedger' /\ pool' = pool
      BY <1>1 DEF LedgerType, BooksMatchLedger, ledger
<1>3. QED
      BY <1>2, PoolAccrued DEF StepEffect

\* Every step is of the kind StepEffect describes.
LEMMA StepHasEffect ==
    ASSUME IndInv, [Next]_vars
    PROVE  StepEffect
<1>1. ConfigAccepted /\ now \in 0 .. MaxTime
      BY DEF IndInv, BooksBalance, TypeOK
<1>2. CASE UpToDate /\ \E p \in {AccrueInterest(pool)} : Trade(p)
  <2> DEFINE p == AccrueInterest(pool)
  <2>1. AccrualDefined(pool) /\ Trade(p)
        BY <1>2 DEF UpToDate
  <2>2. Accrued(p)
        BY <2>1, AccrualKeeps
  <2> HIDE DEF p
  <2>3. LedgerStep(p)
        BY <2>1, <2>2, TradeKeeps
  <2>4. ConfigAccepted'
        BY <1>1, <2>3 DEF LedgerStep, ConfigAccepted
  <2>5. QED
        BY <1>1, <2>2, <2>3, <2>4 DEF LedgerStep, StepEffect
<1>3. CASE \E u, v \in User, n \in Amount : AdminTransferLoan(u, v, n)
      BY <1>3, AdminTransferLoanKeeps
<1>4. CASE Collect
      BY <1>4, CollectKeeps
<1>5. CASE WithdrawFees
      BY <1>5, WithdrawFeesKeeps
<1>6. CASE \E c \in Config : Configure(c)
  <2>1. ConfigAccepted'
        BY <1>6 DEF Configure, ConfigAccepted
  <2>2. UNCHANGED <<pool, now, ledger>>
        BY <1>6 DEF Configure
  <2>3. QED
        BY <1>1, <2>1, <2>2, QuietStepKeeps
<1>7. CASE \E d \in TimeStep : Tick(d)
  <2>1. PICK d \in TimeStep : Tick(d)
        BY <1>7
  <2>2. d \in Nat /\ MaxTime \in Nat
        BY PoolAssumption
  <2>3. now' \in 0 .. MaxTime /\ now' >= now /\ UNCHANGED <<pool, config, ledger>>
        BY <1>1, <2>1, <2>2 DEF Tick
  <2>4. ConfigAccepted'
        BY <1>1, <2>3 DEF ConfigAccepted
  <2>5. QED
        BY <2>3, <2>4, QuietStepKeeps
<1>8. CASE UNCHANGED vars
  <2>1. UNCHANGED <<pool, config, now, ledger>>
        BY <1>8 DEF vars
  <2>2. ConfigAccepted'
        BY <1>1, <2>1 DEF ConfigAccepted
  <2>3. QED
        BY <1>1, <2>1, <2>2, QuietStepKeeps
<1>9. QED
      BY <1>2, <1>3, <1>4, <1>5, <1>6, <1>7, <1>8 DEF Next

\* Such a step keeps the invariant.
LEMMA EffectKeeps ==
    ASSUME IndInv, StepEffect
    PROVE  IndInv'
<1>1. PICK p : Accrued(p) /\ BooksStep(p, pool')
      BY DEF StepEffect
<1>2. DepositNoteExchangeRate(p) \in Nat /\ DepositNoteExchangeRate(p) >= One
      BY <1>1, DepositRate DEF Accrued
<1>3. pool' \in PoolType /\ Fair(pool', DepositNoteExchangeRate(p)) /\ Owed(pool')
      /\ pool'.accruedUntil = p.accruedUntil
      BY <1>1 DEF BooksStep
<1>4. Backed(pool')
      BY <1>2, <1>3, FairIsBacked
<1>5. NotesBacked'
      BY <1>4 DEF NotesBacked, Backed, NetValue, TotalValue
<1>6. LoanNotesAreOwed'
      BY <1>3 DEF LoanNotesAreOwed, Owed
<1>7. pool'.accruedUntil <= now'
  <2>1. p.accruedUntil <= now /\ p.accruedUntil \in Nat
        BY <1>1 DEF Accrued, PoolType
  <2>2. now \in Nat /\ now' \in Nat /\ now <= now'
        BY DEF StepEffect, IndInv, BooksBalance, TypeOK
  <2>3. QED
        BY <1>3, <2>1, <2>2
<1>8. (config \in Config \cup {DefaultConfig})'
      BY DEF StepEffect, ConfigAccepted, DefaultConfig
<1>9. TypeOK'
      BY <1>3, <1>7, <1>8 DEF StepEffect, TypeOK, LedgerType, PoolType
<1>10. QED
       BY <1>5, <1>6, <1>9 DEF IndInv, BooksBalance, StepEffect

\* A new pool satisfies the invariant.
LEMMA InitHolds == Init => IndInv
<1>1. SUFFICES ASSUME Init PROVE IndInv
      OBVIOUS
<1>2. TypeOK /\ ConfigAccepted
      BY <1>1, PoolAssumption DEF Init, TypeOK, ConfigAccepted
<1>3. BooksMatchLedger
      BY <1>1, NoHoldings DEF Init, BooksMatchLedger
<1>4. NotesBacked /\ LoanNotesAreOwed
      BY <1>1 DEF Init, NotesBacked, LoanNotesAreOwed
<1>5. QED
      BY <1>2, <1>3, <1>4 DEF IndInv, BooksBalance

\* The invariant holds in every state of a pool.
THEOREM Invariance == Spec => []IndInv
<1>1. IndInv /\ [Next]_vars => IndInv'
      BY StepHasEffect, EffectKeeps
<1>2. QED
      BY <1>1, InitHolds, PTL DEF Spec

\* The counters of the pool account (state.rs) agree with what the token
\* program holds, and no checked or saturating subtraction of a handler goes
\* below zero, for any number of users, any amounts and any rates.
THEOREM BooksAlwaysBalance == Spec => []BooksBalance
<1>1. IndInv => BooksBalance
      BY DEF IndInv
<1>2. QED
      BY <1>1, Invariance, PTL

\* Every deposit note is worth at least one token: deposit_note_exchange_rate
\* does not underflow while there are depositors.
THEOREM NotesAlwaysBacked == Spec => []NotesBacked
<1>1. IndInv => NotesBacked
      BY DEF IndInv
<1>2. QED
      BY <1>1, Invariance, PTL

\* No deposit, withdrawal, loan, repayment or collection takes value from the
\* notes of the others, but for the units a truncated quotient loses.
THEOREM SharePriceIsKept == Spec => SharePriceKept
<1> DEFINE A ==
        LET rate == DepositNoteExchangeRate(pool)
        IN  pool'.depositNotes > 0 =>
              NetValue(pool') + (rate + One - 1) \div One >= pool'.depositNotes * rate
<1>1. IndInv /\ [Next]_vars => A
  <2>1. SUFFICES ASSUME IndInv, [Next]_vars, pool'.depositNotes > 0
                 PROVE  LET rate == DepositNoteExchangeRate(pool)
                        IN  NetValue(pool') + (rate + One - 1) \div One
                              >= pool'.depositNotes * rate
        OBVIOUS
  <2>2. PICK p : Accrued(p) /\ BooksStep(p, pool')
        BY <2>1, StepHasEffect DEF StepEffect
  <2> DEFINE r == DepositNoteExchangeRate(p)
             s == DepositNoteExchangeRate(pool)
  <2>3. r \in Nat /\ r >= One
        BY <2>2, DepositRate DEF Accrued
  <2>4. pool \in PoolType /\ Backed(pool)
        BY <2>1, PoolAccrued DEF Accrued
  <2>5. s \in Nat
        BY <2>4, DepositRate
  <2>6. s <= r
        BY <2>2, <2>4, DepositRateGrows DEF Accrued
  <2>7. pool' \in PoolType /\ Fair(pool', r)
        BY <2>2 DEF BooksStep
  <2> HIDE DEF r, s
  <2>8. NetValue(pool') + (s + One - 1) \div One >= pool'.depositNotes * s
        BY <2>1, <2>3, <2>5, <2>6, <2>7, FairKeepsPrice
  <2>9. QED
        BY <2>8 DEF s
<1> HIDE DEF A
<1>2. IndInv /\ [Next]_vars => [A]_vars
      BY <1>1
<1>3. Spec => [][A]_vars
      BY <1>2, Invariance, PTL DEF Spec
<1>4. QED
      BY <1>3 DEF SharePriceKept, A

\* Loan notes always stand for some debt, and when the last one is burned less
\* than a unit of the Number for each of them is left, whatever the rounding of
\* repay and margin_repay.
THEOREM DebtAlwaysHasNotes == Spec => DebtHasNotes
<1>1. IndInv /\ [Next]_vars => LastNoteLeavesDust /\ LoanNotesAreOwed'
  <2>1. SUFFICES ASSUME IndInv, [Next]_vars
                 PROVE  LastNoteLeavesDust /\ LoanNotesAreOwed'
        OBVIOUS
  <2>2. PICK p : Accrued(p) /\ BooksStep(p, pool')
        BY <2>1, StepHasEffect DEF StepEffect
  <2>3. LastNoteLeavesDust
        BY <2>2 DEF LastNoteLeavesDust, Accrued, BooksStep
  <2>4. LoanNotesAreOwed'
        BY <2>2 DEF LoanNotesAreOwed, Owed, BooksStep
  <2>5. QED
        BY <2>3, <2>4
<1>2. IndInv /\ [Next]_vars => [LastNoteLeavesDust /\ LoanNotesAreOwed']_vars
      BY <1>1
<1>3. QED
      BY <1>2, Invariance, PTL DEF Spec, DebtHasNotes

=============================================================================
