---------------------------- MODULE SendingProofs ----------------------------
(***************************************************************************)
(* What the senders of a list tell their caller agrees with what landed,   *)
(* no item of the queue processor is lost, and none takes effect more      *)
(* often than it was queued or doubted: proved for every list, every size  *)
(* of batches and chunks, and every number of pushes and faults.           *)
(*                                                                         *)
(* And what is sent to configure an airspace: whatever the builder plans,  *)
(* executed in whichever order and however late, leaves every pool of the  *)
(* airspace complete and undoes nothing that is configured as described,   *)
(* for every description and every number of operators.                    *)
(***************************************************************************)
EXTENDS Sending, Environment, RecursionTheorems, SequenceTheorems, TLAPS

-----------------------------------------------------------------------------
(* Queues.                                                                 *)

\* A set view of a queue.
LEMMA ToSetContains ==
  ASSUME NEW X, NEW q \in Seq(X)
  PROVE  \A x : x \in ToSet(q) <=> Contains(q, x)
  <1>1. DOMAIN q = 1 .. Len(q)
    OBVIOUS
  <1> QED
    BY <1>1 DEF ToSet, Contains

\* Adding an item to a queue that does not hold it.
LEMMA AppendContains ==
  ASSUME NEW X, NEW q \in Seq(X), NEW e \in X
  PROVE  /\ Append(q, e) \in Seq(X)
         /\ \A x : Contains(Append(q, e), x) <=> Contains(q, x) \/ x = e
         /\ IsInjective(q) /\ ~Contains(q, e) => IsInjective(Append(q, e))
  <1> DEFINE r == Append(q, e)
             n == Len(q)
  <1>1. /\ r \in Seq(X) /\ Len(r) = n + 1 /\ n \in Nat /\ r[n + 1] = e
        /\ \A i \in 1 .. n : r[i] = q[i]
        /\ DOMAIN r = 1 .. n + 1 /\ DOMAIN q = 1 .. n
    OBVIOUS
  <1> HIDE DEF r, n
  <1>2. ASSUME NEW x PROVE Contains(r, x) <=> Contains(q, x) \/ x = e
    <2>1. ASSUME Contains(r, x) PROVE Contains(q, x) \/ x = e
      <3>1. PICK i \in 1 .. n + 1 : r[i] = x
        BY <1>1, <2>1 DEF Contains
      <3>2. CASE i = n + 1
        BY <1>1, <3>1, <3>2
      <3>3. CASE i \in 1 .. n
        BY <1>1, <3>1, <3>3 DEF Contains, n
      <3> QED
        BY <1>1, <3>2, <3>3
    <2>2. ASSUME Contains(q, x) PROVE Contains(r, x)
      <3>1. PICK i \in 1 .. n : q[i] = x
        BY <2>2 DEF Contains, n
      <3>2. i \in 1 .. Len(r) /\ r[i] = x
        BY <1>1, <3>1
      <3> QED
        BY <3>2 DEF Contains
    <2>3. ASSUME x = e PROVE Contains(r, x)
      <3>1. n + 1 \in 1 .. Len(r) /\ r[n + 1] = x
        BY <1>1, <2>3
      <3> QED
        BY <3>1 DEF Contains
    <2> QED
      BY <2>1, <2>2, <2>3
  <1>3. ASSUME IsInjective(q), ~Contains(q, e) PROVE IsInjective(r)
    <2> SUFFICES ASSUME NEW i \in 1 .. n + 1, NEW j \in 1 .. n + 1, r[i] = r[j]
                 PROVE  i = j
      BY <1>1 DEF IsInjective
    <2>1. \A k \in 1 .. n : q[k] # e
      BY <1>3 DEF Contains, n
    <2>2. CASE i \in 1 .. n /\ j \in 1 .. n
      BY <1>1, <1>3, <2>2 DEF IsInjective
    <2>3. CASE i = n + 1 /\ j \in 1 .. n
      BY <1>1, <2>1, <2>3
    <2>4. CASE i \in 1 .. n /\ j = n + 1
      BY <1>1, <2>1, <2>4
    <2> QED
      BY <1>1, <2>2, <2>3, <2>4
  <1> QED
    BY <1>1, <1>2, <1>3 DEF r

\* push_many: the queue holds what it held and what was pushed, and nothing
\* twice.
LEMMA PushAllHolds ==
  ASSUME NEW q \in Seq(Item), IsInjective(q), NEW items \in Seq(Item)
  PROVE  /\ PushAll(q, items) \in Seq(Item)
         /\ IsInjective(PushAll(q, items))
         /\ \A x : Contains(PushAll(q, items), x) <=> Contains(q, x) \/ Contains(items, x)
  <1> DEFINE n == Len(items)
             Pushed(r, x) == IF Contains(r, x) THEN r ELSE Append(r, x)
             F == [z \in Seq(Item) \X Item |-> Pushed(z[1], z[2])]
             Def(g) == [i \in 0 .. n |-> IF i = 0 THEN q ELSE Pushed(g[i - 1], items[i])]
             push == CHOOSE g : g = Def(g)
  <1>1. n \in Nat /\ \A i \in 1 .. n : items[i] \in Item
    OBVIOUS
  <1>2. F \in [Seq(Item) \X Item -> Seq(Item)]
    <2>1. ASSUME NEW r \in Seq(Item), NEW x \in Item PROVE Pushed(r, x) \in Seq(Item)
      OBVIOUS
    <2> QED
      BY <2>1
  <1>3. PICK g \in [0 .. n -> Seq(Item)] :
          /\ g[0] = q
          /\ \A i \in 1 .. n : g[i] = F[<<g[i - 1], items[i]>>]
    <2> HIDE DEF F
    <2>1. \E g : IsFold(g, Seq(Item), F, q, items)
      BY <1>2, FoldIsDefined
    <2> QED
      BY <2>1 DEF IsFold
  <1>4. g = Def(g)
    <2>1. ASSUME NEW i \in 1 .. n PROVE g[i] = Pushed(g[i - 1], items[i])
      <3>1. g[i - 1] \in Seq(Item) /\ items[i] \in Item
        <4> HIDE DEF n, F
        <4> QED
          BY <1>1, <1>3
      <3> HIDE DEF Pushed, n
      <3> QED
        BY <1>3, <3>1
    <2> HIDE DEF n, F, Pushed
    <2>2. \A i \in 0 .. n : g[i] = Def(g)[i]
      BY <1>1, <1>3, <2>1
    <2> QED
      BY <1>3, <2>2
  <1>5. push = Def(push)
    <2>1. \E h : h = Def(h)
      BY <1>4
    <2> HIDE DEF Def
    <2> QED
      BY <2>1, Zenon
  <1>6. PushAll(q, items) = push[n]
    BY DEF PushAll
  <1> HIDE DEF push
  <1>7. push[0] = q /\ \A i \in 1 .. n : push[i] = Pushed(push[i - 1], items[i])
    <2> HIDE DEF n, Pushed
    <2> QED
      BY <1>1, <1>5
  <1> DEFINE Good(i) == /\ push[i] \in Seq(Item) /\ IsInjective(push[i])
                        /\ \A x : Contains(push[i], x)
                                    <=> Contains(q, x) \/ \E j \in 1 .. i : items[j] = x
             S == {i \in Nat : i <= n => Good(i)}
  <1>8. 0 \in S
    BY <1>7
  <1>9. ASSUME NEW i \in Nat, i \in S PROVE i + 1 \in S
    <2> SUFFICES ASSUME i + 1 <= n PROVE Good(i + 1)
      OBVIOUS
    <2>1. Good(i) /\ items[i + 1] \in Item
      BY <1>1, <1>9
    <2>2. push[i + 1] = Pushed(push[i], items[i + 1])
      <3>1. i + 1 \in 1 .. n /\ (i + 1) - 1 = i
        BY <1>1
      <3> QED
        BY <1>7, <3>1
    <2> DEFINE r == push[i]
               e == items[i + 1]
    <2>3. \A x : (\E j \in 1 .. i + 1 : items[j] = x)
                    <=> (\E j \in 1 .. i : items[j] = x) \/ e = x
      BY <1>1
    <2>4. /\ Append(r, e) \in Seq(Item)
          /\ \A x : Contains(Append(r, e), x) <=> Contains(r, x) \/ x = e
          /\ ~Contains(r, e) => IsInjective(Append(r, e))
      <3> HIDE DEF r, e
      <3>1. r \in Seq(Item) /\ IsInjective(r) /\ e \in Item
        BY <2>1 DEF r, e
      <3> QED
        BY <3>1, AppendContains
    <2> HIDE DEF e
    <2>5. CASE Contains(r, e)
      BY <2>1, <2>2, <2>3, <2>5 DEF e
    <2>6. CASE ~Contains(r, e)
      BY <2>1, <2>2, <2>3, <2>4, <2>6 DEF e
    <2> QED
      BY <2>5, <2>6
  <1>10. Good(n)
    <2>1. Nat \subseteq S
      <3> HIDE DEF S
      <3> QED
        BY <1>8, <1>9, SetInduction
    <2> HIDE DEF Good, n
    <2> QED
      BY <1>1, <2>1
  <1> QED
    BY <1>6, <1>10 DEF Contains

\* pop_many: taking a batch from the front leaves the rest, and a queue
\* without duplicates has none of the batch in the rest.
LEMMA PopSplits ==
  ASSUME NEW q \in Seq(Item), NEW max \in Nat
  PROVE  /\ PopMany(q, max) \in Seq(Item) /\ Rest(q, max) \in Seq(Item)
         /\ IsInjective(q) => /\ IsInjective(PopMany(q, max)) /\ IsInjective(Rest(q, max))
                              /\ \A x : ~(Contains(PopMany(q, max), x) /\ Contains(Rest(q, max), x))
         /\ \A x : Contains(q, x) <=> Contains(PopMany(q, max), x) \/ Contains(Rest(q, max), x)
  <1> DEFINE n == Len(q)
             m == Least(max, n)
             a == PopMany(q, max)
             b == Rest(q, max)
  <1>1. n \in Nat /\ m \in 0 .. n /\ DOMAIN q = 1 .. n /\ \A i \in 1 .. n : q[i] \in Item
    BY DEF Least
  <1>2. a = SubSeq(q, 1, m) /\ b = SubSeq(q, m + 1, n)
    BY DEF PopMany, Rest
  <1> HIDE DEF m, n, a, b
  <1>3. /\ a \in Seq(Item) /\ Len(a) = m /\ DOMAIN a = 1 .. m
        /\ \A i \in 1 .. m : a[i] = q[i]
    BY <1>1, <1>2 DEF n
  <1>4. /\ b \in Seq(Item) /\ Len(b) = n - m /\ DOMAIN b = 1 .. n - m
        /\ \A i \in 1 .. n - m : b[i] = q[m + i]
    <2>1. b \in Seq(Item)
      BY <1>1, <1>2 DEF n
    <2>2. Len(b) = n - m
      <3>1. CASE m = n
        <4>1. b = << >>
          BY <1>1, <1>2, <3>1
        <4> QED
          BY <1>1, <3>1, <4>1
      <3>2. CASE m < n
        <4>1. Len(b) = n + 1 - (m + 1)
          BY <1>1, <1>2, <3>2 DEF n
        <4> QED
          BY <1>1, <4>1
      <3> QED
        BY <1>1, <3>1, <3>2
    <2>3. ASSUME NEW i \in 1 .. n - m PROVE b[i] = q[m + i]
      <3>1. b[i] = q[(m + 1) + i - 1]
        BY <1>1, <1>2 DEF n
      <3> QED
        BY <1>1, <3>1
    <2> QED
      BY <2>1, <2>2, <2>3
  <1>5. ASSUME NEW x PROVE Contains(q, x) <=> Contains(a, x) \/ Contains(b, x)
    <2>1. ASSUME Contains(q, x) PROVE Contains(a, x) \/ Contains(b, x)
      <3>1. PICK i \in 1 .. n : q[i] = x
        BY <2>1 DEF Contains, n
      <3>2. CASE i <= m
        <4>1. i \in 1 .. Len(a) /\ a[i] = x
          BY <1>1, <1>3, <3>1, <3>2
        <4> QED
          BY <4>1 DEF Contains
      <3>3. CASE i > m
        <4>1. i - m \in 1 .. Len(b) /\ b[i - m] = x
          BY <1>1, <1>4, <3>1, <3>3
        <4> QED
          BY <4>1 DEF Contains
      <3> QED
        BY <1>1, <3>2, <3>3
    <2>2. ASSUME Contains(a, x) PROVE Contains(q, x)
      <3>1. PICK i \in 1 .. m : a[i] = x
        BY <1>3, <2>2 DEF Contains
      <3>2. i \in 1 .. n /\ q[i] = x
        BY <1>1, <1>3, <3>1
      <3> QED
        BY <3>2 DEF Contains, n
    <2>3. ASSUME Contains(b, x) PROVE Contains(q, x)
      <3>1. PICK i \in 1 .. n - m : b[i] = x
        BY <1>4, <2>3 DEF Contains
      <3>2. m + i \in 1 .. n /\ q[m + i] = x
        BY <1>1, <1>4, <3>1
      <3> QED
        BY <3>2 DEF Contains, n
    <2> QED
      BY <2>1, <2>2, <2>3
  <1>6. ASSUME IsInjective(q) PROVE IsInjective(a)
    <2> SUFFICES ASSUME NEW i \in 1 .. m, NEW j \in 1 .. m, a[i] = a[j] PROVE i = j
      BY <1>3 DEF IsInjective
    <2>1. i \in 1 .. n /\ j \in 1 .. n /\ q[i] = q[j]
      BY <1>1, <1>3
    <2> QED
      BY <1>1, <1>6, <2>1 DEF IsInjective
  <1>7. ASSUME IsInjective(q) PROVE IsInjective(b)
    <2> SUFFICES ASSUME NEW i \in 1 .. n - m, NEW j \in 1 .. n - m, b[i] = b[j] PROVE i = j
      BY <1>4 DEF IsInjective
    <2>1. m + i \in 1 .. n /\ m + j \in 1 .. n /\ q[m + i] = q[m + j]
      BY <1>1, <1>4
    <2>2. m + i = m + j
      BY <1>1, <1>7, <2>1 DEF IsInjective
    <2> QED
      BY <1>1, <2>2
  <1>8. ASSUME IsInjective(q), NEW x, Contains(a, x), Contains(b, x) PROVE FALSE
    <2>1. PICK i \in 1 .. m : a[i] = x
      BY <1>3, <1>8 DEF Contains
    <2>2. PICK j \in 1 .. n - m : b[j] = x
      BY <1>4, <1>8 DEF Contains
    <2>3. i \in 1 .. n /\ m + j \in 1 .. n /\ q[i] = q[m + j]
      BY <1>1, <1>3, <1>4, <2>1, <2>2
    <2>4. i = m + j
      BY <1>1, <1>8, <2>3 DEF IsInjective
    <2> QED
      BY <1>1, <2>4
  <1> QED
    BY <1>3, <1>4, <1>5, <1>6, <1>7, <1>8 DEF a, b

\* Reversing a list of items keeps its items.
LEMMA ReverseContains ==
  ASSUME NEW q \in Seq(Item)
  PROVE  Reverse(q) \in Seq(Item) /\ \A x : Contains(Reverse(q), x) <=> Contains(q, x)
  <1> DEFINE n == Len(q)
             r == Reverse(q)
  <1>1. n \in Nat /\ \A i \in 1 .. n : q[i] \in Item
    OBVIOUS
  <1>2. r = [i \in 1 .. n |-> q[(n - i) + 1]]
    BY DEF Reverse
  <1> HIDE DEF n, r
  <1>3. \A i \in 1 .. n : (n - i) + 1 \in 1 .. n /\ (n - ((n - i) + 1)) + 1 = i
    BY <1>1
  <1>4. r \in Seq(Item) /\ Len(r) = n /\ \A i \in 1 .. n : r[i] = q[(n - i) + 1]
    BY <1>1, <1>2, <1>3
  <1>5. ASSUME NEW x, Contains(r, x) PROVE Contains(q, x)
    <2>1. PICK i \in 1 .. n : r[i] = x
      BY <1>4, <1>5 DEF Contains
    <2> QED
      BY <1>3, <1>4, <2>1 DEF Contains, n
  <1>6. ASSUME NEW x, Contains(q, x) PROVE Contains(r, x)
    <2>1. PICK i \in 1 .. n : q[i] = x
      BY <1>6 DEF Contains, n
    <2>2. (n - i) + 1 \in 1 .. Len(r) /\ r[(n - i) + 1] = x
      BY <1>3, <1>4, <2>1
    <2> QED
      BY <2>2 DEF Contains
  <1> QED
    BY <1>4, <1>5, <1>6 DEF r

-----------------------------------------------------------------------------
(* Attempts.                                                               *)

\* A new attempt.
LEMMA NewAttempt ==
  ASSUME NEW items \in Seq(Item)
  PROVE  /\ Attempt(items) \in AttemptState
         /\ Attempt(items).items = items /\ Attempt(items).net = "unsent"
         /\ Attempt(items).client = "sending"
  <1>1. 0 \in 0 .. MaxPolls - 1
    BY SendingAssumption
  <1> QED
    BY <1>1 DEF Attempt, AttemptState

\* The chunks of a batch: each item of the batch is in one of them, and in one
\* only if the batch holds nothing twice.
LEMMA ChunksHold ==
  ASSUME NEW items \in Seq(Item)
  PROVE  /\ Chunks(items) \in Seq(AttemptState)
         /\ \A c \in 1 .. Len(Chunks(items)) :
               /\ Chunks(items)[c].net = "unsent" /\ Chunks(items)[c].client = "sending"
               /\ \A x : Contains(Chunks(items)[c].items, x) => Contains(items, x)
         /\ \A x : Contains(items, x) =>
               \E c \in 1 .. Len(Chunks(items)) : Contains(Chunks(items)[c].items, x)
         /\ IsInjective(items) =>
               \A x : \A c, d \in 1 .. Len(Chunks(items)) :
                  Contains(Chunks(items)[c].items, x) /\ Contains(Chunks(items)[d].items, x)
                     => c = d
  <1> DEFINE n == Len(items)
             s == ChunkSize
             m == (n + s - 1) \div s
             Part(c) == SubSeq(items, (c - 1) * s + 1, Least(c * s, n))
             ch == Chunks(items)
  <1>1. n \in Nat /\ s \in Nat \ {0} /\ DOMAIN items = 1 .. n
        /\ \A i \in 1 .. n : items[i] \in Item
    BY SendingAssumption
  <1>2. ch = [c \in 1 .. m |-> Attempt(Part(c))]
    BY DEF Chunks
  <1> HIDE DEF n, s, ch
  <1>3. m \in Nat /\ n <= m * s /\ \A c \in 1 .. m : (c - 1) * s < n
    <2> DEFINE t == n + s - 1
    <2>1. t \in Nat
      BY <1>1
    <2> HIDE DEF t
    <2>2. t \div s \in Nat /\ (t \div s) * s <= t /\ t < (t \div s) * s + s
      BY <1>1, <2>1
    <2>3. m = t \div s
      BY DEF t
    <2> HIDE DEF m
    <2>4. m \in Nat /\ m * s <= n + s - 1 /\ n + s - 1 < m * s + s
      BY <2>2, <2>3 DEF t
    <2>5. n <= m * s
      BY <1>1, <2>4
    <2>6. ASSUME NEW c \in 1 .. m PROVE (c - 1) * s < n
      <3>1. c * s <= m * s
        BY <1>1, <2>4
      <3>2. (c - 1) * s = c * s - s
        BY <1>1, <2>4
      <3> QED
        BY <1>1, <2>4, <3>1, <3>2
    <2> QED
      BY <2>4, <2>5, <2>6
  <1> HIDE DEF m
  <1>4. ASSUME NEW c \in 1 .. m
        PROVE  /\ Part(c) \in Seq(Item)
               /\ \A x : Contains(Part(c), x)
                    <=> \E i \in 1 .. n : (c - 1) * s < i /\ i <= c * s /\ items[i] = x
    <2> DEFINE lo == (c - 1) * s
               hi == Least(c * s, n)
    <2>1. lo \in Nat /\ c * s \in Nat /\ lo < n /\ lo < c * s
      <3>1. (c - 1) * s \in Nat /\ c * s \in Nat /\ (c - 1) * s = c * s - s
        BY <1>1, <1>3
      <3> QED
        BY <1>1, <1>3, <3>1
    <2> DEFINE cs == c * s
    <2> HIDE DEF lo, cs
    <2>2. hi \in Nat /\ hi <= n /\ lo < hi /\ \A i \in 1 .. n : i <= hi <=> i <= cs
      BY <1>1, <2>1 DEF Least, cs
    <2> HIDE DEF hi
    <2> DEFINE p == SubSeq(items, lo + 1, hi)
    <2>3. p \in Seq(Item) /\ Len(p) = hi - lo /\ \A i \in 1 .. hi - lo : p[i] = items[lo + i]
      <3>1. items \in Seq(Item) /\ lo + 1 \in 1 .. Len(items) /\ hi \in 1 .. Len(items)
        BY <1>1, <2>1, <2>2 DEF n
      <3> QED
        BY <2>1, <2>2, <3>1
    <2>4. Part(c) = p
      BY DEF lo, hi
    <2> HIDE DEF p, Part
    <2>5. ASSUME NEW x, Contains(p, x)
          PROVE  \E i \in 1 .. n : lo < i /\ i <= cs /\ items[i] = x
      <3>1. PICK i \in 1 .. hi - lo : p[i] = x
        BY <2>3, <2>5 DEF Contains
      <3>2. lo + i \in 1 .. n /\ lo < lo + i /\ lo + i <= hi /\ items[lo + i] = x
        BY <1>1, <2>1, <2>2, <2>3, <3>1
      <3> QED
        BY <2>2, <3>2
    <2>6. ASSUME NEW x, NEW i \in 1 .. n, lo < i, i <= cs, items[i] = x
          PROVE  Contains(p, x)
      <3>1. i - lo \in 1 .. hi - lo /\ lo + (i - lo) = i
        BY <1>1, <2>1, <2>2, <2>6
      <3>2. i - lo \in 1 .. Len(p) /\ p[i - lo] = x
        BY <2>3, <2>6, <3>1
      <3> QED
        BY <3>2 DEF Contains
    <2> QED
      BY <2>3, <2>4, <2>5, <2>6 DEF lo, cs
  <1> HIDE DEF Part
  <1>5. /\ ch \in Seq(AttemptState) /\ Len(ch) = m
        /\ \A c \in 1 .. m : /\ ch[c].net = "unsent" /\ ch[c].client = "sending"
                             /\ ch[c].items = Part(c)
    <2>1. \A c \in 1 .. m :
            /\ Attempt(Part(c)) \in AttemptState /\ Attempt(Part(c)).net = "unsent"
            /\ Attempt(Part(c)).client = "sending" /\ Attempt(Part(c)).items = Part(c)
      BY <1>4, NewAttempt
    <2> QED
      BY <1>2, <1>3, <2>1
  <1>6. ASSUME NEW x, NEW c \in 1 .. m, Contains(ch[c].items, x) PROVE Contains(items, x)
    <2>1. Contains(Part(c), x)
      BY <1>5, <1>6
    <2>2. \E i \in 1 .. n : items[i] = x
      BY <1>4, <2>1
    <2> QED
      BY <2>2 DEF Contains, n
  <1>7. ASSUME NEW x, Contains(items, x) PROVE \E c \in 1 .. m : Contains(ch[c].items, x)
    <2>1. PICK i \in 1 .. n : items[i] = x
      BY <1>7 DEF Contains, n
    <2> DEFINE j == i - 1
               c == j \div s + 1
    <2>2. j \in Nat /\ j < n
      BY <1>1
    <2> HIDE DEF j
    <2>3. j \div s \in Nat /\ (j \div s) * s <= j /\ j < (j \div s) * s + s
      BY <1>1, <2>2
    <2> DEFINE d == j \div s
    <2>4. d \in Nat /\ c = d + 1 /\ d * s <= j /\ j < d * s + s
      BY <2>3
    <2> HIDE DEF c, d
    <2>5. (c - 1) * s < i /\ i <= c * s
      <3>1. c - 1 = d /\ c * s = d * s + s /\ d * s \in Nat
        BY <1>1, <2>4
      <3>2. (c - 1) * s = d * s
        BY <3>1
      <3> QED
        BY <1>1, <2>4, <3>1, <3>2 DEF j
    <2>6. c \in 1 .. m
      <3>1. c <= m
        <4>1. SUFFICES ASSUME c > m PROVE FALSE
          BY <1>3, <2>4
        <4>2. d >= m
          BY <1>3, <2>4, <4>1
        <4>3. d * s >= m * s
          BY <1>1, <1>3, <2>4, <4>2
        <4>4. d * s \in Nat /\ m * s \in Nat
          BY <1>1, <1>3, <2>4
        <4> QED
          BY <1>1, <1>3, <2>2, <2>4, <4>3, <4>4
      <3> QED
        BY <1>3, <2>4, <3>1
    <2>7. Contains(Part(c), x)
      BY <1>4, <2>1, <2>5, <2>6
    <2> QED
      BY <1>5, <2>6, <2>7
  <1>8. ASSUME IsInjective(items), NEW x, NEW c \in 1 .. m, NEW d \in 1 .. m,
               Contains(ch[c].items, x), Contains(ch[d].items, x)
        PROVE  c = d
    <2>1. PICK i \in 1 .. n : (c - 1) * s < i /\ i <= c * s /\ items[i] = x
      BY <1>4, <1>5, <1>8
    <2>2. PICK j \in 1 .. n : (d - 1) * s < j /\ j <= d * s /\ items[j] = x
      BY <1>4, <1>5, <1>8
    <2>3. i = j
      BY <1>1, <1>8, <2>1, <2>2 DEF IsInjective
    <2>4. (c - 1) * s < d * s /\ (d - 1) * s < c * s
      <3>1. /\ (c - 1) * s \in Int /\ d * s \in Int /\ (d - 1) * s \in Int /\ c * s \in Int
        BY <1>1, <1>3
      <3> QED
        BY <1>1, <2>1, <2>2, <2>3, <3>1
    <2>5. c - 1 < d /\ d - 1 < c
      BY <1>1, <1>3, <2>4
    <2> QED
      BY <1>3, <2>5
  <1> QED
    BY <1>5, <1>6, <1>7, <1>8 DEF ch

\* An attempt with the item that may still land, or fail and be tried again.
MayTakeEffect(a, x) == Contains(a.items, x) /\ Pending(a) /\ a.net # "landed"

Effective(s, x) == {k \in 1 .. Len(s) : MayTakeEffect(s[k], x)}

\* How many attempts with the item may still take effect.
Count(s, x) == Cardinality(Effective(s, x))

Unit(b) == IF b THEN 1 ELSE 0

\* There are finitely many of them.
LEMMA CountType ==
  ASSUME NEW s \in Seq(AttemptState), NEW x
  PROVE  IsFiniteSet(Effective(s, x)) /\ Count(s, x) \in Nat
  <1>1. IsFiniteSet(1 .. Len(s))
    BY FS_Interval
  <1>2. Effective(s, x) \in SUBSET (1 .. Len(s))
    BY DEF Effective
  <1>3. IsFiniteSet(Effective(s, x))
    BY <1>1, <1>2, FS_Subset
  <1> QED
    BY <1>3, FS_CardinalityType DEF Count

\* One more attempt.
LEMMA CountAppend ==
  ASSUME NEW s \in Seq(AttemptState), NEW e \in AttemptState, NEW x
  PROVE  Count(Append(s, e), x) = Count(s, x) + Unit(MayTakeEffect(e, x))
  <1> DEFINE n == Len(s)
             r == Append(s, e)
             A == Effective(s, x)
  <1>1. n \in Nat /\ Len(r) = n + 1 /\ r[n + 1] = e /\ \A k \in 1 .. n : r[k] = s[k]
    OBVIOUS
  <1>2. IsFiniteSet(A) /\ Cardinality(A) \in Nat /\ Count(s, x) = Cardinality(A)
    BY CountType DEF Count
  <1>3. A = {k \in 1 .. n : MayTakeEffect(s[k], x)}
    BY DEF Effective
  <1>4. n + 1 \notin A
    BY <1>1, <1>3
  <1> HIDE DEF n, r, A
  <1>5. Effective(r, x) = {k \in 1 .. n + 1 : MayTakeEffect(r[k], x)}
    BY <1>1 DEF Effective
  <1>6. CASE MayTakeEffect(e, x)
    <2>1. Effective(r, x) = A \cup {n + 1}
      BY <1>1, <1>3, <1>5, <1>6
    <2>2. Cardinality(A \cup {n + 1}) = Cardinality(A) + 1
      BY <1>2, <1>4, FS_AddElement
    <2> QED
      BY <1>2, <1>6, <2>1, <2>2 DEF Count, Unit, r
  <1>7. CASE ~MayTakeEffect(e, x)
    <2>1. Effective(r, x) = A
      BY <1>1, <1>3, <1>5, <1>7
    <2> QED
      BY <1>2, <1>7, <2>1 DEF Count, Unit, r
  <1> QED
    BY <1>6, <1>7

\* One attempt gets on.
LEMMA CountChange ==
  ASSUME NEW s \in Seq(AttemptState), NEW r \in Seq(AttemptState), NEW k \in 1 .. Len(s),
         Len(r) = Len(s), \A j \in 1 .. Len(s) : j # k => r[j] = s[j], NEW x
  PROVE  Count(r, x) + Unit(MayTakeEffect(s[k], x)) = Count(s, x) + Unit(MayTakeEffect(r[k], x))
  <1> DEFINE A == Effective(s, x)
             B == Effective(r, x)
             C == A \ {k}
  <1>1. IsFiniteSet(A) /\ Count(s, x) = Cardinality(A) /\ Count(r, x) = Cardinality(B)
    BY CountType DEF Count
  <1>2. IsFiniteSet(C) /\ k \notin C
    BY <1>1, FS_Subset
  <1>3. Cardinality(C) \in Nat /\ Cardinality(C \cup {k}) = Cardinality(C) + 1
    BY <1>2, FS_CardinalityType, FS_AddElement
  <1>4. /\ MayTakeEffect(s[k], x) => A = C \cup {k}
        /\ ~MayTakeEffect(s[k], x) => A = C
        /\ MayTakeEffect(r[k], x) => B = C \cup {k}
        /\ ~MayTakeEffect(r[k], x) => B = C
    BY DEF Effective
  <1> DEFINE was == Unit(MayTakeEffect(s[k], x))
             is == Unit(MayTakeEffect(r[k], x))
  <1>5. /\ was \in Nat /\ is \in Nat
        /\ MayTakeEffect(s[k], x) => was = 1
        /\ ~MayTakeEffect(s[k], x) => was = 0
        /\ MayTakeEffect(r[k], x) => is = 1
        /\ ~MayTakeEffect(r[k], x) => is = 0
    BY DEF Unit
  <1> HIDE DEF A, B, C, was, is
  <1>6. /\ MayTakeEffect(s[k], x) => Cardinality(A) = Cardinality(C \cup {k})
        /\ ~MayTakeEffect(s[k], x) => Cardinality(A) = Cardinality(C)
        /\ MayTakeEffect(r[k], x) => Cardinality(B) = Cardinality(C \cup {k})
        /\ ~MayTakeEffect(r[k], x) => Cardinality(B) = Cardinality(C)
    BY <1>4, Zenon
  <1>7. Cardinality(B) + was = Cardinality(A) + is
    <2> DEFINE a == Cardinality(A)
               b == Cardinality(B)
               c == Cardinality(C)
               d == Cardinality(C \cup {k})
               p == MayTakeEffect(s[k], x)
               q == MayTakeEffect(r[k], x)
    <2>1. /\ c \in Nat /\ d = c + 1 /\ was \in Nat /\ is \in Nat
          /\ p => a = d /\ was = 1
          /\ ~p => a = c /\ was = 0
          /\ q => b = d /\ is = 1
          /\ ~q => b = c /\ is = 0
      BY <1>3, <1>5, <1>6, Zenon
    <2> HIDE DEF a, b, c, d, p, q
    <2>2. a = c + was /\ b = c + is
      BY <2>1
    <2>3. b + was = a + is
      BY <2>1, <2>2
    <2> QED
      BY <2>3 DEF a, b
  <1> QED
    BY <1>1, <1>7 DEF was, is

\* More attempts, of which one at most has the item.
LEMMA CountConcat ==
  ASSUME NEW s \in Seq(AttemptState), NEW t \in Seq(AttemptState), NEW x,
         NEW has \in BOOLEAN,
         \A c \in 1 .. Len(t) : MayTakeEffect(t[c], x) => has,
         \A c, d \in 1 .. Len(t) : MayTakeEffect(t[c], x) /\ MayTakeEffect(t[d], x) => c = d
  PROVE  Count(s \o t, x) <= Count(s, x) + Unit(has)
  <1> DEFINE n == Len(s)
             m == Len(t)
             r == s \o t
             A == Effective(s, x)
             B == Effective(r, x)
  <1>1. /\ n \in Nat /\ m \in Nat /\ r \in Seq(AttemptState) /\ Len(r) = n + m
        /\ \A k \in 1 .. n : r[k] = s[k]
        /\ \A c \in 1 .. m : r[n + c] = t[c]
    OBVIOUS
  <1>2. IsFiniteSet(A) /\ Cardinality(A) \in Nat /\ Count(s, x) = Cardinality(A)
    BY CountType DEF Count
  <1>3. /\ A = {k \in 1 .. n : MayTakeEffect(s[k], x)}
        /\ B = {k \in 1 .. n + m : MayTakeEffect(r[k], x)}
    BY <1>1 DEF Effective
  <1>4. Count(s \o t, x) = Cardinality(B)
    BY DEF Count
  <1> HIDE DEF A, B, r
  <1>5. CASE \E c \in 1 .. m : MayTakeEffect(t[c], x)
    <2>1. PICK c \in 1 .. m : MayTakeEffect(t[c], x)
      BY <1>5
    <2>2. B = A \cup {n + c}
      <3>1. ASSUME NEW k \in B PROVE k \in A \cup {n + c}
        <4>1. CASE k <= n
          BY <1>1, <1>3, <3>1, <4>1
        <4>2. CASE k > n
          <5>1. k - n \in 1 .. m /\ n + (k - n) = k
            BY <1>1, <1>3, <3>1, <4>2
          <5>2. MayTakeEffect(t[k - n], x)
            BY <1>1, <1>3, <3>1, <5>1
          <5>3. k - n = c
            BY <2>1, <5>1, <5>2
          <5> QED
            BY <1>1, <5>1, <5>3
        <4> QED
          BY <1>1, <1>3, <3>1, <4>1, <4>2
      <3>2. A \subseteq B
        BY <1>1, <1>3
      <3>3. n + c \in B
        BY <1>1, <1>3, <2>1
      <3> QED
        BY <3>1, <3>2, <3>3
    <2>3. n + c \notin A
      BY <1>1, <1>3
    <2>4. Cardinality(A \cup {n + c}) = Cardinality(A) + 1
      BY <1>2, <2>3, FS_AddElement
    <2>5. has
      BY <2>1
    <2> QED
      BY <1>2, <1>4, <2>2, <2>4, <2>5 DEF Unit
  <1>6. CASE ~ \E c \in 1 .. m : MayTakeEffect(t[c], x)
    <2>1. B = A
      <3>1. ASSUME NEW k \in B PROVE k \in A
        <4>1. CASE k <= n
          BY <1>1, <1>3, <3>1, <4>1
        <4>2. CASE k > n
          <5>1. k - n \in 1 .. m /\ n + (k - n) = k
            BY <1>1, <1>3, <3>1, <4>2
          <5> QED
            BY <1>1, <1>3, <1>6, <3>1, <5>1
        <4> QED
          BY <1>1, <1>3, <3>1, <4>1, <4>2
      <3>2. A \subseteq B
        BY <1>1, <1>3
      <3> QED
        BY <3>1, <3>2
    <2> QED
      BY <1>2, <1>4, <2>1 DEF Unit
  <1> QED
    BY <1>5, <1>6

\* The attempts that are kept when a batch starts: those that are pending, and
\* with them all that may still take effect.
LEMMA KeptAttempts ==
  ASSUME NEW s \in Seq(AttemptState)
  PROVE  /\ StillPending(s) \in Seq(AttemptState)
         /\ \A k \in 1 .. Len(StillPending(s)) : \E j \in 1 .. Len(s) : StillPending(s)[k] = s[j]
         /\ \A j \in 1 .. Len(s) : Pending(s[j]) =>
               \E k \in 1 .. Len(StillPending(s)) : StillPending(s)[k] = s[j]
         /\ \A x : Count(StillPending(s), x) = Count(s, x)
  <1> DEFINE n == Len(s)
             Kept(r, e) == IF Pending(e) THEN Append(r, e) ELSE r
             F == [z \in Seq(AttemptState) \X AttemptState |-> Kept(z[1], z[2])]
             Def(g) == [j \in 0 .. n |-> IF j = 0 THEN <<>> ELSE Kept(g[j - 1], s[j])]
             kept == CHOOSE g : g = Def(g)
  <1>1. n \in Nat /\ \A j \in 1 .. n : s[j] \in AttemptState
    OBVIOUS
  <1>2. F \in [Seq(AttemptState) \X AttemptState -> Seq(AttemptState)]
    <2>1. ASSUME NEW r \in Seq(AttemptState), NEW e \in AttemptState
          PROVE  Kept(r, e) \in Seq(AttemptState)
      OBVIOUS
    <2> QED
      BY <2>1
  <1>3. PICK g \in [0 .. n -> Seq(AttemptState)] :
          /\ g[0] = <<>>
          /\ \A j \in 1 .. n : g[j] = F[<<g[j - 1], s[j]>>]
    <2> HIDE DEF F
    <2>1. << >> \in Seq(AttemptState)
      OBVIOUS
    <2>2. \E g : IsFold(g, Seq(AttemptState), F, << >>, s)
      BY <1>2, <2>1, FoldIsDefined
    <2> QED
      BY <2>2 DEF IsFold
  <1>4. g = Def(g)
    <2>1. ASSUME NEW j \in 1 .. n PROVE g[j] = Kept(g[j - 1], s[j])
      <3>1. g[j - 1] \in Seq(AttemptState) /\ s[j] \in AttemptState
        <4> HIDE DEF n, F
        <4> QED
          BY <1>1, <1>3
      <3> HIDE DEF Kept, n
      <3> QED
        BY <1>3, <3>1
    <2> HIDE DEF n, F, Kept
    <2>2. \A j \in 0 .. n : g[j] = Def(g)[j]
      BY <1>1, <1>3, <2>1
    <2> QED
      BY <1>3, <2>2
  <1>5. kept = Def(kept)
    <2>1. \E h : h = Def(h)
      BY <1>4
    <2> HIDE DEF Def
    <2> QED
      BY <2>1, Zenon
  <1>6. StillPending(s) = kept[n]
    BY DEF StillPending
  <1> HIDE DEF kept
  <1>7. kept[0] = <<>> /\ \A j \in 1 .. n : kept[j] = Kept(kept[j - 1], s[j])
    <2> HIDE DEF n, Kept
    <2> QED
      BY <1>1, <1>5
  <1> DEFINE Good(j) ==
                /\ kept[j] \in Seq(AttemptState)
                /\ \A k \in 1 .. Len(kept[j]) : \E i \in 1 .. j : kept[j][k] = s[i]
                /\ \A i \in 1 .. j : Pending(s[i]) =>
                      \E k \in 1 .. Len(kept[j]) : kept[j][k] = s[i]
                /\ \A x : Count(kept[j], x) = Count(SubSeq(s, 1, j), x)
             S == {j \in Nat : j <= n => Good(j)}
  <1>8. 0 \in S
    <2>1. SubSeq(s, 1, 0) = << >>
      OBVIOUS
    <2>2. kept[0] = << >> /\ << >> \in Seq(AttemptState) /\ Len(<< >>) = 0
      BY <1>7
    <2>3. Good(0)
      BY <2>1, <2>2
    <2> QED
      BY <2>3
  <1>9. ASSUME NEW j \in Nat, j \in S PROVE j + 1 \in S
    <2> SUFFICES ASSUME j + 1 <= n PROVE Good(j + 1)
      OBVIOUS
    <2> DEFINE r == kept[j]
               e == s[j + 1]
               p == SubSeq(s, 1, j)
    <2>1. Good(j) /\ e \in AttemptState
      BY <1>1, <1>9
    <2>2. kept[j + 1] = Kept(r, e)
      <3>1. j + 1 \in 1 .. n /\ (j + 1) - 1 = j
        BY <1>1
      <3> QED
        BY <1>7, <3>1
    <2>3. SubSeq(s, 1, j + 1) = Append(p, e) /\ p \in Seq(AttemptState)
      <3>1. 1 \in 1 .. Len(s) + 1 /\ j + 1 \in 1 - 1 .. Len(s) /\ ~(j + 1 < 1) /\ (j + 1) - 1 = j
        BY <1>1
      <3>2. SubSeq(s, 1, j + 1) = Append(SubSeq(s, 1, (j + 1) - 1), s[j + 1])
        BY <3>1, SubSeqRecursiveSecond
      <3>3. p \in Seq(AttemptState)
        BY <1>1
      <3> QED
        BY <3>1, <3>2, <3>3
    <2> HIDE DEF p, e
    <2>4. \A x : Count(SubSeq(s, 1, j + 1), x) = Count(p, x) + Unit(MayTakeEffect(e, x))
      <3>1. e \in AttemptState /\ p \in Seq(AttemptState)
        BY <2>1, <2>3
      <3>2. \A x : Count(Append(p, e), x) = Count(p, x) + Unit(MayTakeEffect(e, x))
        BY <3>1, CountAppend, Zenon
      <3> QED
        BY <2>3, <3>2, Zenon
    <2>5. CASE Pending(e)
      <3> DEFINE t == Append(r, e)
      <3>1. r \in Seq(AttemptState)
        BY <2>1
      <3>2. kept[j + 1] = t
        BY <2>2, <2>5
      <3>3. /\ t \in Seq(AttemptState) /\ Len(t) = Len(r) + 1 /\ t[Len(r) + 1] = e
            /\ Len(r) \in Nat /\ \A k \in 1 .. Len(r) : t[k] = r[k]
        BY <2>1, <3>1
      <3>4. \A x : Count(t, x) = Count(r, x) + Unit(MayTakeEffect(e, x))
        BY <2>1, <3>1, CountAppend
      <3>5. \A x : Count(kept[j + 1], x) = Count(SubSeq(s, 1, j + 1), x)
        BY <2>1, <2>4, <3>2, <3>4 DEF p
      <3> HIDE DEF t
      <3>6. ASSUME NEW k \in 1 .. Len(t) PROVE \E i \in 1 .. j + 1 : t[k] = s[i]
        <4>1. CASE k = Len(r) + 1
          BY <3>3, <4>1 DEF e
        <4>2. CASE k \in 1 .. Len(r)
          <5>1. PICK i \in 1 .. j : r[k] = s[i]
            BY <2>1, <4>2
          <5> QED
            BY <3>3, <4>2, <5>1
        <4> QED
          BY <3>3, <4>1, <4>2
      <3>7. ASSUME NEW i \in 1 .. j + 1, Pending(s[i]) PROVE \E k \in 1 .. Len(t) : t[k] = s[i]
        <4>1. CASE i = j + 1
          BY <3>3, <4>1 DEF e
        <4>2. CASE i \in 1 .. j
          <5>1. PICK k \in 1 .. Len(r) : r[k] = s[i]
            BY <2>1, <3>7, <4>2
          <5> QED
            BY <3>3, <5>1
        <4> QED
          BY <4>1, <4>2
      <3> QED
        BY <3>2, <3>3, <3>5, <3>6, <3>7
    <2>6. CASE ~Pending(e)
      <3>1. kept[j + 1] = r
        BY <2>2, <2>6
      <3>2. \A x : ~MayTakeEffect(e, x)
        BY <2>6 DEF MayTakeEffect
      <3>3. \A x : Count(p, x) \in Nat
        BY <2>3, CountType
      <3>4. \A x : Count(kept[j + 1], x) = Count(SubSeq(s, 1, j + 1), x)
        BY <2>1, <2>4, <3>1, <3>2, <3>3 DEF Unit, p
      <3> QED
        BY <2>1, <2>6, <3>1, <3>4 DEF e
    <2> QED
      BY <2>5, <2>6
  <1>10. Good(n)
    <2>1. Nat \subseteq S
      <3> HIDE DEF S
      <3> QED
        BY <1>8, <1>9, SetInduction
    <2> HIDE DEF Good, n
    <2> QED
      BY <1>1, <2>1
  <1>11. SubSeq(s, 1, n) = s
    OBVIOUS
  <1> DEFINE Keeps(r) ==
                /\ r \in Seq(AttemptState)
                /\ \A k \in 1 .. Len(r) : \E j \in 1 .. Len(s) : r[k] = s[j]
                /\ \A j \in 1 .. Len(s) : Pending(s[j]) =>
                      \E k \in 1 .. Len(r) : r[k] = s[j]
                /\ \A x : Count(r, x) = Count(s, x)
  <1>12. Keeps(kept[n])
    <2>1. \A x : Count(kept[n], x) = Count(s, x)
      BY <1>10, <1>11
    <2> QED
      BY <1>10, <2>1, Zenon
  <1>13. Keeps(StillPending(s))
    <2> HIDE DEF Keeps
    <2> QED
      BY <1>6, <1>12
  <1> QED
    BY <1>13, Zenon

-----------------------------------------------------------------------------
(* The invariant.                                                          *)

\* What the client knows of an attempt and what became of it: a transaction is
\* not on its way before it was submitted, and one that is confirmed landed.
AttemptOK(a, effects) ==
    /\ a.client = "sending" => a.net = "unsent"
    /\ a.client = "ok" => a.net = "landed"
    /\ a.net = "landed" => \A i \in Item : Contains(a.items, i) => effects[i] > 0

Types ==
    /\ mode \in ListMode \cup {"queue"}
    /\ subs \in Seq(AttemptState)
    /\ result \in {"none", "ok", "err"} /\ txLog \subseteq Item
    /\ input \in Seq(Item) /\ retry \in Seq(Item)
    /\ IsInjective(input) /\ IsInjective(retry)
    /\ proc \in {"idle", "spawn", "count", "join"} /\ spawned \in 0 .. MaxSpawned
    /\ applied \in [Item -> Nat] /\ accepted \in [Item -> Nat] /\ doubts \in [Item -> Nat]
    /\ owed \subseteq Item

Attempts == \A k \in 1 .. Len(subs) : AttemptOK(subs[k], applied)

\* Attempt k of the sender of a list is for entry k; in order, all but the last
\* are confirmed; an Ok result needs them all.
Lists ==
    /\ mode \in ListMode =>
         /\ spawned = 0 /\ proc = "idle" /\ owed = {}
         /\ Len(subs) <= Len(Plan)
         /\ \A k \in 1 .. Len(subs) : subs[k].items = <<Plan[k]>>
         /\ mode = "at_once" => Len(subs) = Len(Plan)
         /\ mode \in {"in_order", "client"} =>
              \A k \in 1 .. Len(subs) : k < Len(subs) => subs[k].client = "ok"
         /\ result = "ok" =>
              Len(subs) = Len(Plan) /\ \A k \in 1 .. Len(subs) : subs[k].client = "ok"
    /\ mode = "queue" => result = "none"
    /\ LogHoldsLanded

\* An item pushed since it was last taken is still queued, so that the answer
\* to an earlier attempt does not settle it.
Queues ==
    /\ \A i \in since : Contains(input, i)
    /\ NothingLost

IndInv == Types /\ Attempts /\ Lists /\ Queues

\* Initially the first attempts of a list are ready to be sent.
LEMMA InvInit == Init => IndInv
  <1> SUFFICES ASSUME Init PROVE IndInv
    OBVIOUS
  <1>1. /\ mode \in ListMode \cup {"queue"} /\ subs = FirstAttempts(mode)
        /\ result = "none" /\ txLog = {} /\ input = <<>> /\ retry = <<>>
        /\ proc = "idle" /\ spawned = 0 /\ owed = {} /\ since = {}
        /\ accepted = [i \in Item |-> 0] /\ applied = [i \in Item |-> 0]
        /\ doubts = [i \in Item |-> 0]
    BY DEF Init
  <1>2. Plan \in Seq(Item) /\ Len(Plan) \in Nat /\ DOMAIN Plan = 1 .. Len(Plan)
    BY SendingAssumption
  <1>3. \A k \in 1 .. Len(Plan) :
          /\ Attempt(<<Plan[k]>>) \in AttemptState /\ Attempt(<<Plan[k]>>).items = <<Plan[k]>>
          /\ Attempt(<<Plan[k]>>).net = "unsent" /\ Attempt(<<Plan[k]>>).client = "sending"
    <2>1. \A k \in 1 .. Len(Plan) : <<Plan[k]>> \in Seq(Item)
      BY <1>2
    <2> QED
      BY <2>1, NewAttempt
  <1>4. /\ subs \in Seq(AttemptState)
        /\ \A k \in 1 .. Len(subs) :
              subs[k].net = "unsent" /\ subs[k].client = "sending"
        /\ mode \in ListMode =>
              /\ Len(subs) <= Len(Plan)
              /\ \A k \in 1 .. Len(subs) : subs[k].items = <<Plan[k]>>
              /\ mode = "at_once" => Len(subs) = Len(Plan)
              /\ mode # "at_once" => Len(subs) <= 1
    <2>1. CASE mode = "at_once"
      <3>1. subs = [k \in 1 .. Len(Plan) |-> Attempt(<<Plan[k]>>)]
        BY <1>1, <1>2, <2>1 DEF FirstAttempts
      <3>2. /\ subs \in Seq(AttemptState) /\ Len(subs) = Len(Plan)
            /\ \A k \in 1 .. Len(Plan) : subs[k] = Attempt(<<Plan[k]>>)
        BY <1>2, <1>3, <3>1
      <3>3. \A k \in 1 .. Len(subs) : /\ subs[k].net = "unsent" /\ subs[k].client = "sending"
                                      /\ subs[k].items = <<Plan[k]>>
        BY <1>3, <3>2, Zenon
      <3>4. Len(subs) <= Len(Plan)
        BY <1>2, <3>2
      <3> QED
        BY <2>1, <3>2, <3>3, <3>4, Zenon
    <2>2. CASE mode \in {"in_order", "client"} /\ Plan # <<>>
      <3>1. subs = <<Attempt(<<Plan[1]>>)>>
        BY <1>1, <2>2 DEF FirstAttempts
      <3>2. 1 \in 1 .. Len(Plan)
        BY <1>2, <2>2
      <3>3. subs \in Seq(AttemptState) /\ Len(subs) = 1 /\ subs[1] = Attempt(<<Plan[1]>>)
        BY <1>3, <3>1, <3>2
      <3> QED
        BY <1>2, <1>3, <2>2, <3>2, <3>3
    <2>3. CASE mode = "queue" \/ (mode \in {"in_order", "client"} /\ Plan = <<>>)
      <3>1. subs = <<>>
        BY <1>1, <2>3 DEF FirstAttempts
      <3>2. subs \in Seq(AttemptState) /\ Len(subs) = 0
        BY <3>1
      <3> QED
        BY <1>2, <2>3, <3>2 DEF ListMode
    <2> QED
      BY <1>1, <2>1, <2>2, <2>3 DEF ListMode
  <1>5. <<>> \in Seq(Item) /\ IsInjective(<<>>)
    BY DEF IsInjective
  <1>6. Types
    BY <1>1, <1>4, <1>5, SendingAssumption DEF Types
  <1>7. Attempts
    BY <1>4 DEF Attempts, AttemptOK
  <1>8. Lists
    BY <1>1, <1>2, <1>4 DEF Lists, LogHoldsLanded, ListMode
  <1>9. Queues
    BY <1>1 DEF Queues, NothingLost
  <1> QED
    BY <1>6, <1>7, <1>8, <1>9 DEF IndInv

\* What it takes for attempt k to get on to state x: it stays confirmed if it
\* is, and its items stay with a live attempt or go to a queue if they are owed.
Moves(k, x) ==
    /\ k \in DOMAIN subs /\ x \in AttemptState /\ subs' = [subs EXCEPT ![k] = x]
    /\ x.items = subs[k].items /\ AttemptOK(x, applied')
    /\ subs[k].client = "ok" => x.client = "ok"
    /\ applied' \in [Item -> Nat] /\ \A i \in Item : applied'[i] >= applied[i]
    /\ doubts' \in [Item -> Nat] /\ accepted' = accepted
    /\ UNCHANGED <<mode, result, txLog, input, proc, spawned, since>>
    /\ retry' \in Seq(Item) /\ IsInjective(retry')
    /\ \A i \in Item : Contains(retry, i) => Contains(retry', i)
    /\ owed' \subseteq owed
    /\ subs[k].client \in {"sending", "polling"} =>
          \A i \in owed' : Contains(x.items, i) =>
             x.client \in {"sending", "polling"} \/ Contains(retry', i) \/ Contains(input, i)

\* The sequence of attempts when one gets on.
LEMMA MovedAttempt ==
  ASSUME NEW s \in Seq(AttemptState), NEW k \in DOMAIN s, NEW x \in AttemptState
  PROVE  /\ [s EXCEPT ![k] = x] \in Seq(AttemptState)
         /\ Len([s EXCEPT ![k] = x]) = Len(s) /\ Len(s) \in Nat
         /\ DOMAIN s = 1 .. Len(s) /\ DOMAIN [s EXCEPT ![k] = x] = 1 .. Len(s)
         /\ k \in 1 .. Len(s) /\ [s EXCEPT ![k] = x][k] = x
         /\ \A j \in 1 .. Len(s) : j # k => [s EXCEPT ![k] = x][j] = s[j]
  <1>1. DOMAIN s = 1 .. Len(s) /\ Len(s) \in Nat
    OBVIOUS
  <1> QED
    BY <1>1, ExceptSeq

\* Such a step keeps the invariant.
LEMMA MovesInv ==
  ASSUME IndInv, NEW k, NEW x, Moves(k, x)
  PROVE  IndInv'
  <1>1. /\ subs \in Seq(AttemptState) /\ k \in DOMAIN subs /\ x \in AttemptState
        /\ subs' = [subs EXCEPT ![k] = x]
    BY DEF Moves, IndInv, Types
  <1>2. /\ subs' \in Seq(AttemptState) /\ Len(subs') = Len(subs) /\ Len(subs) \in Nat
        /\ DOMAIN subs = 1 .. Len(subs) /\ DOMAIN subs' = 1 .. Len(subs)
        /\ k \in 1 .. Len(subs) /\ subs'[k] = x
        /\ \A j \in 1 .. Len(subs) : j # k => subs'[j] = subs[j]
    BY <1>1, MovedAttempt
  <1>3. \A j \in 1 .. Len(subs) : /\ subs'[j].items = subs[j].items
                                  /\ subs[j].client = "ok" => subs'[j].client = "ok"
    BY <1>2 DEF Moves
  <1>4. Types'
    BY <1>2 DEF Types, IndInv, Moves
  <1>5. Attempts'
    <2> SUFFICES ASSUME NEW j \in 1 .. Len(subs) PROVE AttemptOK(subs'[j], applied')
      BY <1>2 DEF Attempts
    <2>1. CASE j = k
      BY <1>2, <2>1 DEF Moves
    <2>2. CASE j # k
      <3>1. AttemptOK(subs[j], applied) /\ subs'[j] = subs[j]
        BY <1>2, <2>2 DEF IndInv, Attempts
      <3>2. \A i \in Item : applied[i] > 0 => applied'[i] > 0
        BY DEF Moves, IndInv, Types
      <3> QED
        BY <3>1, <3>2 DEF AttemptOK
    <2> QED
      BY <2>1, <2>2
  <1>6. Lists'
    <2>1. LogHoldsLanded'
      <3>1. txLog' = txLog /\ txLog \subseteq Item /\ \A i \in txLog : applied[i] > 0
        BY DEF Moves, IndInv, Types, Lists, LogHoldsLanded
      <3>2. \A i \in Item : applied[i] > 0 => applied'[i] > 0
        BY DEF Moves, IndInv, Types
      <3> QED
        BY <3>1, <3>2 DEF LogHoldsLanded
    <2>2. mode' = mode /\ result' = result /\ spawned' = spawned /\ proc' = proc
          /\ owed' \subseteq owed
      BY DEF Moves
    <2> QED
      BY <1>2, <1>3, <2>1, <2>2 DEF Lists, IndInv
  <1>7. Queues'
    <2>1. since' = since /\ input' = input /\ owed' \subseteq owed /\ owed \subseteq Item
      BY DEF Moves, IndInv, Types
    <2>2. ASSUME NEW i \in owed'
          PROVE  \/ Contains(input', i) \/ Contains(retry', i)
                 \/ \E j \in 1 .. Len(subs) : /\ subs'[j].client \in {"sending", "polling"}
                                              /\ Contains(subs'[j].items, i)
      <3>1. \/ Contains(input, i) \/ Contains(retry, i)
            \/ \E j \in 1 .. Len(subs) : /\ subs[j].client \in {"sending", "polling"}
                                         /\ Contains(subs[j].items, i)
        BY <1>2, <2>1, <2>2 DEF IndInv, Queues, NothingLost, Live
      <3>2. CASE Contains(input, i) \/ Contains(retry, i)
        BY <2>1, <2>2, <3>2 DEF Moves
      <3>3. ASSUME NEW j \in 1 .. Len(subs), subs[j].client \in {"sending", "polling"},
                   Contains(subs[j].items, i)
            PROVE  \/ Contains(input', i) \/ Contains(retry', i)
                   \/ \E m \in 1 .. Len(subs) : /\ subs'[m].client \in {"sending", "polling"}
                                                /\ Contains(subs'[m].items, i)
        <4>1. CASE j = k
          <5>1. Contains(x.items, i)
            BY <3>3, <4>1 DEF Moves
          <5>2. x.client \in {"sending", "polling"} \/ Contains(retry', i) \/ Contains(input, i)
            BY <2>2, <3>3, <4>1, <5>1 DEF Moves
          <5> QED
            BY <1>2, <2>1, <5>1, <5>2
        <4>2. CASE j # k
          BY <1>2, <3>3, <4>2
        <4> QED
          BY <4>1, <4>2
      <3> QED
        BY <3>1, <3>2, <3>3
    <2>3. NothingLost'
      BY <1>2, <2>2 DEF NothingLost, Live
    <2> QED
      BY <2>1, <2>3 DEF Queues, IndInv
  <1> QED
    BY <1>4, <1>5, <1>6, <1>7 DEF IndInv

-----------------------------------------------------------------------------
(* The steps of an attempt.                                                *)

Nets == {"unsent", "pending", "landed", "failed", "dropped"}
Clients == {"sending", "polling", "ok", "err", "send_err"}

\* An attempt with a new outcome and a new answer.
Changed(a, net, client) == [a EXCEPT !.net = net, !.client = client]

\* It is an attempt with the same items.
LEMMA ChangedAttempt ==
  ASSUME NEW a \in AttemptState, NEW net \in Nets, NEW client \in Clients
  PROVE  /\ Changed(a, net, client) \in AttemptState
         /\ Changed(a, net, client).items = a.items
         /\ Changed(a, net, client).net = net
         /\ Changed(a, net, client).client = client
  <1>1. Changed(a, net, client) \in AttemptState
    BY Zenon DEF AttemptState, Nets, Clients, Changed
  <1>2. /\ Changed(a, net, client).items = a.items
        /\ Changed(a, net, client).net = net
        /\ Changed(a, net, client).client = client
    BY DEF AttemptState, Changed
  <1> QED
    BY <1>1, <1>2

\* How often an item takes effect, is queued for a retry and may still take
\* effect is paid for by the doubts.
Pays(k, x) ==
    \A i \in Item :
        applied'[i] + Unit(Contains(retry', i)) + Unit(MayTakeEffect(x, i)) + doubts[i]
          <= applied[i] + Unit(Contains(retry, i)) + Unit(MayTakeEffect(subs[k], i)) + doubts'[i]

\* Units are 0 or 1, and grow with the condition.
LEMMA UnitFacts ==
  ASSUME NEW p, NEW q
  PROVE  /\ Unit(p) \in {0, 1} /\ (p => Unit(p) = 1) /\ (~p => Unit(p) = 0)
         /\ (p => q) => Unit(p) <= Unit(q)
  <1>1. Unit(p) = IF p THEN 1 ELSE 0
    BY DEF Unit
  <1>2. Unit(q) = IF q THEN 1 ELSE 0
    BY DEF Unit
  <1> QED
    BY <1>1, <1>2

\* Steps that leave the queues and the history alone.
LEMMA PlainMoves ==
  ASSUME IndInv, NEW k \in DOMAIN subs, NEW x \in AttemptState,
         subs' = [subs EXCEPT ![k] = x], x.items = subs[k].items,
         AttemptOK(x, applied), subs[k].client = "ok" => x.client = "ok",
         subs[k].client \in {"sending", "polling"} => x.client \in {"sending", "polling"},
         \A i \in Item : MayTakeEffect(x, i) => MayTakeEffect(subs[k], i),
         UNCHANGED <<mode, result, txLog, queue, history>>
  PROVE  Moves(k, x) /\ Pays(k, x)
  <1>1. /\ retry' = retry /\ applied' = applied /\ doubts' = doubts /\ accepted' = accepted
        /\ owed' = owed
        /\ UNCHANGED <<mode, result, txLog, input, proc, spawned, since>>
    BY DEF queue, history
  <1>2. applied \in [Item -> Nat] /\ doubts \in [Item -> Nat]
        /\ retry \in Seq(Item) /\ IsInjective(retry)
    BY DEF IndInv, Types
  <1>3. Moves(k, x)
    BY <1>1, <1>2 DEF Moves
  <1>4. ASSUME NEW i \in Item
        PROVE  applied'[i] + Unit(Contains(retry', i)) + Unit(MayTakeEffect(x, i)) + doubts[i]
                 <= applied[i] + Unit(Contains(retry, i)) + Unit(MayTakeEffect(subs[k], i))
                      + doubts'[i]
    <2> DEFINE u == Unit(Contains(retry, i))
               v == Unit(MayTakeEffect(x, i))
               w == Unit(MayTakeEffect(subs[k], i))
    <2>1. u \in {0, 1} /\ v \in {0, 1} /\ w \in {0, 1} /\ v <= w
      BY UnitFacts
    <2>2. applied[i] \in Nat /\ doubts[i] \in Nat
      BY <1>2
    <2> HIDE DEF u, v, w
    <2>3. applied[i] + u + v + doubts[i] <= applied[i] + u + w + doubts[i]
      BY <2>1, <2>2
    <2> QED
      BY <1>1, <2>3 DEF u, v, w
  <1> QED
    BY <1>3, <1>4 DEF Pays

\* An attempt's fields, and that an attempt that may still take effect is one
\* that is pending with the item.
LEMMA AttemptFacts ==
  ASSUME IndInv, NEW k \in DOMAIN subs
  PROVE  /\ subs[k] \in AttemptState /\ subs[k].items \in Seq(Item) /\ subs[k].net \in Nets
         /\ subs[k].client \in Clients /\ AttemptOK(subs[k], applied)
         /\ subs \in Seq(AttemptState)
  <1>1. subs \in Seq(AttemptState) /\ k \in 1 .. Len(subs)
    BY DEF IndInv, Types
  <1>2. subs[k] \in AttemptState /\ AttemptOK(subs[k], applied)
    BY <1>1 DEF IndInv, Attempts
  <1> QED
    BY <1>1, <1>2 DEF AttemptState, Nets, Clients

\* A transaction lands: what may take effect does.
LEMMA LandMoves ==
  ASSUME IndInv, NEW k \in DOMAIN subs, Land(k)
  PROVE  \E x : Moves(k, x) /\ Pays(k, x)
  <1> DEFINE a == subs[k]
             x == Changed(a, "landed", a.client)
  <1>1. /\ a \in AttemptState /\ a.client \in Clients /\ AttemptOK(a, applied)
        /\ a.net = "pending" /\ subs \in Seq(AttemptState) /\ "landed" \in Nets
    BY AttemptFacts DEF Land, Nets
  <1>2. x \in AttemptState /\ x.items = a.items /\ x.net = "landed" /\ x.client = a.client
    BY <1>1, ChangedAttempt
  <1>3. subs' = [subs EXCEPT ![k] = x]
    BY <1>1 DEF Land, AttemptState, Changed
  <1>4. /\ applied' = [i \in Item |-> applied[i] + (IF Contains(a.items, i) THEN 1 ELSE 0)]
        /\ UNCHANGED <<mode, result, txLog, input, retry, proc, spawned, since, owed,
                       accepted, doubts>>
    BY DEF Land, queue
  <1>5. /\ applied \in [Item -> Nat] /\ doubts \in [Item -> Nat]
        /\ retry \in Seq(Item) /\ IsInjective(retry)
    BY DEF IndInv, Types
  <1>6. applied' \in [Item -> Nat]
        /\ \A i \in Item : applied'[i] = applied[i] + Unit(Contains(a.items, i))
    BY <1>4, <1>5 DEF Unit
  <1> HIDE DEF x
  <1>7. AttemptOK(x, applied')
    <2>1. ASSUME NEW i \in Item, Contains(a.items, i) PROVE applied'[i] > 0
      BY <1>4, <1>5, <2>1
    <2> QED
      BY <1>1, <1>2, <2>1 DEF AttemptOK
  <1>8. \A i \in Item : applied'[i] >= applied[i]
    <2> SUFFICES ASSUME NEW i \in Item PROVE applied'[i] >= applied[i]
      OBVIOUS
    <2> DEFINE c == Unit(Contains(a.items, i))
    <2>1. applied[i] \in Nat /\ applied'[i] = applied[i] + c /\ c \in {0, 1}
      BY <1>5, <1>6, UnitFacts
    <2> HIDE DEF c
    <2> QED
      BY <2>1
  <1>9. Moves(k, x)
    BY <1>1, <1>2, <1>3, <1>4, <1>5, <1>6, <1>7, <1>8 DEF Moves
  <1>10. ASSUME NEW i \in Item
        PROVE  applied'[i] + Unit(Contains(retry', i)) + Unit(MayTakeEffect(x, i)) + doubts[i]
                 <= applied[i] + Unit(Contains(retry, i)) + Unit(MayTakeEffect(subs[k], i))
                      + doubts'[i]
    <2> DEFINE u == Unit(Contains(retry, i))
               v == Unit(MayTakeEffect(x, i))
               w == Unit(MayTakeEffect(subs[k], i))
               c == Unit(Contains(a.items, i))
    <2>1. ~MayTakeEffect(x, i) /\ (MayTakeEffect(a, i) <=> Contains(a.items, i))
      BY <1>1, <1>2 DEF MayTakeEffect, Pending
    <2>2. u \in {0, 1} /\ v = 0 /\ w \in {0, 1} /\ c \in {0, 1} /\ c <= w
      BY <2>1, UnitFacts
    <2>3. applied[i] \in Nat /\ doubts[i] \in Nat /\ applied'[i] = applied[i] + c
      BY <1>5, <1>6
    <2> HIDE DEF u, v, w, c
    <2>4. applied'[i] + u + v + doubts[i] <= applied[i] + u + w + doubts[i]
      BY <2>2, <2>3
    <2> QED
      BY <1>4, <2>4 DEF u, v, w
  <1> QED
    BY <1>9, <1>10 DEF Pays

\* A transaction fails or expires.
LEMMA RejectedMoves ==
  ASSUME IndInv, NEW k \in DOMAIN subs, Rejected(k)
  PROVE  \E x : Moves(k, x) /\ Pays(k, x)
  <1>1. PICK outcome \in {"failed", "dropped"} : subs' = [subs EXCEPT ![k].net = outcome]
    BY DEF Rejected
  <1> DEFINE a == subs[k]
             x == Changed(a, outcome, a.client)
  <1>2. /\ a \in AttemptState /\ a.client \in Clients /\ AttemptOK(a, applied)
        /\ a.net = "pending" /\ subs \in Seq(AttemptState) /\ outcome \in Nets
    BY AttemptFacts DEF Rejected, Nets
  <1>3. x \in AttemptState /\ x.items = a.items /\ x.net = outcome /\ x.client = a.client
    BY <1>2, ChangedAttempt
  <1>4. subs' = [subs EXCEPT ![k] = x]
    BY <1>1, <1>2 DEF AttemptState, Changed
  <1>5. UNCHANGED <<mode, result, txLog, queue, history>>
    BY DEF Rejected
  <1> HIDE DEF x
  <1>6. AttemptOK(x, applied) /\ \A i \in Item : MayTakeEffect(x, i) => MayTakeEffect(a, i)
    BY <1>2, <1>3 DEF AttemptOK, MayTakeEffect, Pending
  <1> QED
    BY <1>2, <1>3, <1>4, <1>5, <1>6, PlainMoves

\* The node takes the transaction.
LEMMA SubmitMoves ==
  ASSUME IndInv, NEW k \in DOMAIN subs, Submit(k)
  PROVE  \E x : Moves(k, x) /\ Pays(k, x)
  <1> DEFINE a == subs[k]
             x == Changed(a, "pending", "polling")
  <1>2. /\ a \in AttemptState /\ AttemptOK(a, applied)
        /\ a.client = "sending" /\ a.net = "unsent" /\ subs \in Seq(AttemptState)
    BY AttemptFacts DEF Submit, AttemptOK
  <1>3. x \in AttemptState /\ x.items = a.items /\ x.net = "pending" /\ x.client = "polling"
    BY <1>2, ChangedAttempt DEF Nets, Clients
  <1>4. subs' = [subs EXCEPT ![k] = x]
    BY <1>2 DEF AttemptState, Submit, Changed
  <1>5. UNCHANGED <<mode, result, txLog, queue, history>>
    BY DEF Submit
  <1> HIDE DEF x
  <1>6. AttemptOK(x, applied) /\ \A i \in Item : MayTakeEffect(x, i) => MayTakeEffect(a, i)
    BY <1>2, <1>3 DEF AttemptOK, MayTakeEffect, Pending
  <1> QED
    BY <1>2, <1>3, <1>4, <1>5, <1>6, PlainMoves

\* A poll finds nothing and is not the last.
LEMMA WaitMoves ==
  ASSUME IndInv, NEW k \in DOMAIN subs, subs[k].polls + 1 < MaxPolls,
         subs' = [subs EXCEPT ![k].polls = @ + 1],
         UNCHANGED <<mode, result, txLog, queue, history>>
  PROVE  \E x : Moves(k, x) /\ Pays(k, x)
  <1> DEFINE a == subs[k]
             x == [a EXCEPT !.polls = @ + 1]
  <1>1. a \in AttemptState /\ AttemptOK(a, applied) /\ subs \in Seq(AttemptState)
    BY AttemptFacts
  <1>2. a.polls + 1 \in 0 .. MaxPolls - 1
    <2>1. MaxPolls \in Nat /\ a.polls \in 0 .. MaxPolls - 1
      BY <1>1, SendingAssumption DEF AttemptState
    <2> QED
      BY <2>1
  <1>3. x \in AttemptState
    BY <1>1, <1>2, Zenon DEF AttemptState
  <1>4. x.items = a.items /\ x.net = a.net /\ x.client = a.client
    BY <1>1 DEF AttemptState
  <1>5. subs' = [subs EXCEPT ![k] = x]
    BY <1>1 DEF AttemptState
  <1> HIDE DEF x
  <1>6. AttemptOK(x, applied) /\ \A i \in Item : MayTakeEffect(x, i) => MayTakeEffect(a, i)
    BY <1>1, <1>4 DEF AttemptOK, MayTakeEffect, Pending
  <1> QED
    BY <1>1, <1>3, <1>4, <1>5, <1>6, PlainMoves

\* A confirmed attempt settles its items, but for those queued again since.
LEMMA SucceedsMoves ==
  ASSUME IndInv, NEW k \in DOMAIN subs, subs[k].client = "polling", subs[k].net = "landed",
         Succeeds(k)
  PROVE  \E x : Moves(k, x) /\ Pays(k, x)
  <1> DEFINE a == subs[k]
             x == Changed(a, a.net, "ok")
  <1>1. /\ a \in AttemptState /\ a.net \in Nets /\ AttemptOK(a, applied)
        /\ subs \in Seq(AttemptState) /\ "ok" \in Clients /\ a.items \in Seq(Item)
    BY AttemptFacts DEF Clients
  <1>2. x \in AttemptState /\ x.items = a.items /\ x.net = a.net /\ x.client = "ok"
    BY <1>1, ChangedAttempt
  <1>3. subs' = [subs EXCEPT ![k] = x]
    BY <1>1 DEF Succeeds, AttemptState, Changed
  <1>4. /\ UNCHANGED <<mode, result, txLog, input, retry, proc, spawned, since,
                       accepted, applied, doubts>>
        /\ owed' = IF mode = "queue" THEN owed \ (ToSet(a.items) \ since) ELSE owed
    BY DEF Succeeds, queue
  <1>5. /\ applied \in [Item -> Nat] /\ doubts \in [Item -> Nat]
        /\ retry \in Seq(Item) /\ IsInjective(retry) /\ mode \in ListMode \cup {"queue"}
    BY DEF IndInv, Types
  <1> HIDE DEF x
  <1>6. AttemptOK(x, applied')
    BY <1>1, <1>2, <1>4 DEF AttemptOK
  <1>7. ASSUME NEW i \in owed', Contains(x.items, i) PROVE Contains(input, i)
    <2>1. i \in owed /\ owed # {}
      BY <1>4, <1>7
    <2>2. mode = "queue"
      BY <1>5, <2>1 DEF IndInv, Lists
    <2>3. i \in ToSet(a.items)
      BY <1>1, <1>2, <1>7, ToSetContains
    <2>4. i \in since
      BY <1>4, <1>7, <2>2, <2>3
    <2> QED
      BY <2>4 DEF IndInv, Queues
  <1>8. owed' \subseteq owed
    BY <1>4
  <1>9. Moves(k, x)
    BY <1>1, <1>2, <1>3, <1>4, <1>5, <1>6, <1>7, <1>8 DEF Moves
  <1>10. ASSUME NEW i \in Item
        PROVE  applied'[i] + Unit(Contains(retry', i)) + Unit(MayTakeEffect(x, i)) + doubts[i]
                 <= applied[i] + Unit(Contains(retry, i)) + Unit(MayTakeEffect(subs[k], i))
                      + doubts'[i]
    <2> DEFINE u == Unit(Contains(retry, i))
               v == Unit(MayTakeEffect(x, i))
               w == Unit(MayTakeEffect(subs[k], i))
    <2>1. ~MayTakeEffect(x, i)
      BY <1>1, <1>2 DEF MayTakeEffect
    <2>2. u \in {0, 1} /\ v = 0 /\ w \in {0, 1}
      BY <2>1, UnitFacts
    <2>3. applied[i] \in Nat /\ doubts[i] \in Nat
      BY <1>5
    <2> HIDE DEF u, v, w
    <2>4. applied[i] + u + v + doubts[i] <= applied[i] + u + w + doubts[i]
      BY <2>2, <2>3
    <2> QED
      BY <1>4, <2>4 DEF u, v, w
  <1> QED
    BY <1>9, <1>10 DEF Pays

\* A failed attempt queues its items for a retry, and is doubted if its
\* transaction is under way or has landed.
LEMMA FailsMoves ==
  ASSUME IndInv, NEW k \in DOMAIN subs, subs[k].client \in {"sending", "polling"},
         NEW net \in Nets, NEW why \in {"err", "send_err"},
         net = "landed" <=> subs[k].net = "landed", Fails(k, net, why)
  PROVE  \E x : Moves(k, x) /\ Pays(k, x)
  <1> DEFINE a == subs[k]
             x == Changed(a, net, why)
  <1>1. /\ a \in AttemptState /\ AttemptOK(a, applied) /\ a.client \in Clients
        /\ subs \in Seq(AttemptState) /\ why \in Clients /\ a.items \in Seq(Item)
    BY AttemptFacts DEF Clients
  <1>2. x \in AttemptState /\ x.items = a.items /\ x.net = net /\ x.client = why
    BY <1>1, ChangedAttempt
  <1>3. subs' = [subs EXCEPT ![k] = x]
    BY <1>1 DEF Fails, AttemptState, Changed
  <1> DEFINE held(i) == net \in {"pending", "landed"} /\ Contains(a.items, i)
  <1>4. /\ UNCHANGED <<mode, result, txLog, input, proc, spawned, since,
                       accepted, applied, owed>>
        /\ retry' = IF mode = "queue" THEN PushAll(retry, Reverse(a.items)) ELSE retry
        /\ doubts' = [i \in Item |-> doubts[i] + (IF held(i) THEN 1 ELSE 0)]
    BY DEF Fails, Retried
  <1>5. /\ applied \in [Item -> Nat] /\ doubts \in [Item -> Nat]
        /\ retry \in Seq(Item) /\ IsInjective(retry) /\ mode \in ListMode \cup {"queue"}
    BY DEF IndInv, Types
  <1> HIDE DEF x
  <1>6. AttemptOK(x, applied')
    BY <1>1, <1>2, <1>4 DEF AttemptOK
  <1>7. /\ retry' \in Seq(Item) /\ IsInjective(retry')
        /\ \A i : Contains(retry, i) => Contains(retry', i)
        /\ \A i : Contains(retry', i) => Contains(retry, i) \/ Contains(a.items, i)
        /\ mode = "queue" => \A i : Contains(a.items, i) => Contains(retry', i)
    <2> DEFINE b == a.items
               r == Reverse(b)
               q == PushAll(retry, r)
    <2>0. b \in Seq(Item)
      BY <1>1
    <2> HIDE DEF b
    <2>1. r \in Seq(Item) /\ \A i : Contains(r, i) <=> Contains(b, i)
      BY <2>0, ReverseContains
    <2> HIDE DEF r
    <2>2. /\ q \in Seq(Item) /\ IsInjective(q)
          /\ \A i : Contains(q, i) <=> Contains(retry, i) \/ Contains(r, i)
      BY <1>5, <2>1, PushAllHolds
    <2>3. retry' = IF mode = "queue" THEN q ELSE retry
      BY <1>4 DEF b, r
    <2> HIDE DEF q
    <2>4. CASE mode = "queue"
      BY <2>1, <2>2, <2>3, <2>4 DEF b
    <2>5. CASE mode # "queue"
      BY <1>5, <2>3, <2>5
    <2> QED
      BY <2>4, <2>5
  <1>8. doubts' \in [Item -> Nat] /\ \A i \in Item : doubts'[i] = doubts[i] + Unit(held(i))
    <2> HIDE DEF held
    <2> QED
      BY <1>4, <1>5 DEF Unit
  <1>9. ASSUME NEW i \in owed', Contains(x.items, i) PROVE Contains(retry', i)
    <2>1. i \in owed /\ owed # {}
      BY <1>4, <1>9
    <2>2. mode = "queue"
      BY <1>5, <2>1 DEF IndInv, Lists
    <2> QED
      BY <1>2, <1>7, <1>9, <2>2
  <1>10. \A i \in Item : applied'[i] >= applied[i]
    BY <1>4, <1>5
  <1>11. Moves(k, x)
    BY <1>1, <1>2, <1>3, <1>4, <1>5, <1>6, <1>7, <1>8, <1>9, <1>10 DEF Moves
  <1>12. ASSUME NEW i \in Item
        PROVE  applied'[i] + Unit(Contains(retry', i)) + Unit(MayTakeEffect(x, i)) + doubts[i]
                 <= applied[i] + Unit(Contains(retry, i)) + Unit(MayTakeEffect(subs[k], i))
                      + doubts'[i]
    <2> DEFINE t == Unit(Contains(retry', i))
               u == Unit(Contains(retry, i))
               v == Unit(MayTakeEffect(x, i))
               w == Unit(MayTakeEffect(a, i))
               d == Unit(held(i))
    <2>1. t \in {0, 1} /\ u \in {0, 1} /\ v \in {0, 1} /\ w \in {0, 1} /\ d \in {0, 1}
      BY UnitFacts
    <2>2. v <= w
      <3>1. MayTakeEffect(x, i) => MayTakeEffect(a, i)
        BY <1>2 DEF MayTakeEffect, Pending
      <3> QED
        BY <3>1, UnitFacts
    <2>3. t + v <= u + w + d
      <3>1. CASE ~Contains(a.items, i)
        <4>1. Contains(retry', i) => Contains(retry, i)
          BY <1>7, <3>1
        <4>2. t <= u
          BY <4>1, UnitFacts
        <4> HIDE DEF t, u, v, w, d
        <4> QED
          BY <2>1, <2>2, <4>2
      <3>2. CASE Contains(a.items, i) /\ net \in {"pending", "landed"}
        <4>1. d = 1
          BY <3>2, UnitFacts
        <4> HIDE DEF t, u, v, w, d
        <4> QED
          BY <2>1, <2>2, <4>1
      <3>3. CASE Contains(a.items, i) /\ net \notin {"pending", "landed"}
        <4>1. ~MayTakeEffect(x, i) /\ MayTakeEffect(a, i)
          BY <1>2, <3>3 DEF MayTakeEffect, Pending
        <4>2. v = 0 /\ w = 1
          BY <4>1, UnitFacts
        <4> HIDE DEF t, u, v, w, d
        <4> QED
          BY <2>1, <4>2
      <3> QED
        BY <3>1, <3>2, <3>3
    <2>4. applied[i] \in Nat /\ doubts[i] \in Nat /\ doubts'[i] = doubts[i] + d
      BY <1>5, <1>8
    <2> HIDE DEF t, u, v, w, d
    <2>5. applied[i] + t + v + doubts[i] <= applied[i] + u + w + doubts'[i]
      BY <2>1, <2>3, <2>4
    <2> QED
      BY <1>4, <2>5 DEF t, u, v, w
  <1> QED
    BY <1>11, <1>12 DEF Pays

\* Every step of an attempt, of the network's and of the client's.
LEMMA AttemptMoves ==
  ASSUME IndInv, NEW k \in DOMAIN subs,
         \/ Client(k) \/ CompileFails(k) \/ SubmitFails(k) \/ PollFails(k)
         \/ Land(k) \/ Rejected(k)
  PROVE  \E x : Moves(k, x) /\ Pays(k, x)
  <1>1. /\ AttemptOK(subs[k], applied) /\ subs[k].net \in Nets
        /\ subs[k].client = "sending" => subs[k].net = "unsent"
    BY AttemptFacts DEF AttemptOK
  <1>2. CASE Submit(k)
    BY <1>2, SubmitMoves
  <1>3. CASE PollFinds(k)
    <2>1. CASE subs[k].net = "landed" /\ Succeeds(k)
      BY <1>3, <2>1, SucceedsMoves DEF PollFinds
    <2>2. CASE subs[k].net = "failed" /\ Fails(k, "failed", "err")
      <3>1. subs[k].client \in {"sending", "polling"} /\ "failed" \in Nets
            /\ "err" \in {"err", "send_err"} /\ ("failed" = "landed" <=> subs[k].net = "landed")
        BY <1>3, <2>2 DEF PollFinds, Nets
      <3> QED
        BY <2>2, <3>1, FailsMoves
    <2> QED
      BY <1>3, <2>1, <2>2 DEF PollFinds
  <1>4. CASE PollWaits(k)
    <2>1. CASE subs[k].polls + 1 < MaxPolls
      BY <1>4, <2>1, WaitMoves DEF PollWaits
    <2>2. CASE ~(subs[k].polls + 1 < MaxPolls)
      <3>1. /\ subs[k].client \in {"sending", "polling"} /\ "err" \in {"err", "send_err"}
            /\ Fails(k, subs[k].net, "err")
        BY <1>4, <2>2 DEF PollWaits
      <3> QED
        BY <1>1, <3>1, FailsMoves
    <2> QED
      BY <2>1, <2>2
  <1>5. CASE CompileFails(k)
    <2>1. /\ subs[k].client \in {"sending", "polling"} /\ "unsent" \in Nets
          /\ "err" \in {"err", "send_err"} /\ ("unsent" = "landed" <=> subs[k].net = "landed")
          /\ Fails(k, "unsent", "err")
      BY <1>1, <1>5 DEF CompileFails, Nets
    <2> QED
      BY <2>1, FailsMoves
  <1>6. CASE SubmitFails(k)
    <2>1. PICK net \in {"unsent", "pending"} : Fails(k, net, "send_err")
      BY <1>6 DEF SubmitFails
    <2>2. /\ subs[k].client \in {"sending", "polling"} /\ net \in Nets
          /\ "send_err" \in {"err", "send_err"} /\ (net = "landed" <=> subs[k].net = "landed")
      BY <1>1, <1>6 DEF SubmitFails, Nets
    <2> QED
      BY <2>1, <2>2, FailsMoves
  <1>7. CASE PollFails(k)
    <2>1. /\ subs[k].client \in {"sending", "polling"} /\ "err" \in {"err", "send_err"}
          /\ Fails(k, subs[k].net, "err")
      BY <1>7 DEF PollFails
    <2> QED
      BY <1>1, <2>1, FailsMoves
  <1>8. CASE Land(k)
    BY <1>8, LandMoves
  <1>9. CASE Rejected(k)
    BY <1>9, RejectedMoves
  <1> QED
    BY <1>2, <1>3, <1>4, <1>5, <1>6, <1>7, <1>8, <1>9 DEF Client

-----------------------------------------------------------------------------
(* The steps of the senders and of the queue processor.                    *)

\* The next entry of the list is sent when all before it are confirmed.
LEMMA SendNextInv ==
  ASSUME IndInv, SendNext
  PROVE  IndInv'
  <1> DEFINE n == Len(subs)
             e == Attempt(<<Plan[n + 1]>>)
  <1>1. /\ mode \in {"in_order", "client"} /\ result = "none" /\ AllOk /\ n < Len(Plan)
        /\ subs' = Append(subs, e)
        /\ UNCHANGED <<mode, result, txLog, input, retry, proc, spawned,
                       accepted, applied, doubts, owed, since>>
    BY DEF SendNext, queue, history
  <1>2. subs \in Seq(AttemptState) /\ n \in Nat /\ Plan \in Seq(Item) /\ Len(Plan) \in Nat
    BY SendingAssumption DEF IndInv, Types
  <1>3. <<Plan[n + 1]>> \in Seq(Item)
    BY <1>1, <1>2
  <1>4. /\ e \in AttemptState /\ e.items = <<Plan[n + 1]>> /\ e.net = "unsent"
        /\ e.client = "sending"
    BY <1>3, NewAttempt
  <1>5. /\ \A k \in 1 .. n : subs[k].client = "ok"
        /\ \A k \in 1 .. n : AttemptOK(subs[k], applied)
        /\ \A k \in 1 .. n : subs[k].items = <<Plan[k]>>
        /\ spawned = 0 /\ proc = "idle" /\ owed = {} /\ LogHoldsLanded
    BY <1>1, <1>2 DEF AllOk, IndInv, Attempts, Lists, ListMode
  <1> HIDE DEF e
  <1>6. /\ subs' \in Seq(AttemptState) /\ Len(subs') = n + 1 /\ subs'[n + 1] = e
        /\ \A k \in 1 .. n : subs'[k] = subs[k]
    BY <1>1, <1>2, <1>4
  <1> HIDE DEF n
  <1>7. Types'
    BY <1>1, <1>6 DEF IndInv, Types
  <1>8. Attempts'
    <2> SUFFICES ASSUME NEW k \in 1 .. n + 1 PROVE AttemptOK(subs'[k], applied')
      BY <1>6 DEF Attempts
    <2>1. CASE k = n + 1
      BY <1>4, <1>6, <2>1 DEF AttemptOK
    <2>2. CASE k \in 1 .. n
      BY <1>1, <1>5, <1>6, <2>2
    <2> QED
      BY <1>2, <2>1, <2>2
  <1>9. Lists'
    <2>1. ASSUME NEW k \in 1 .. n + 1
          PROVE  /\ subs'[k].items = <<Plan[k]>>
                 /\ k < n + 1 => subs'[k].client = "ok"
      <3>1. CASE k = n + 1
        BY <1>2, <1>4, <1>6, <3>1
      <3>2. CASE k \in 1 .. n
        BY <1>5, <1>6, <3>2
      <3> QED
        BY <1>2, <3>1, <3>2
    <2>2. LogHoldsLanded'
      BY <1>1, <1>5 DEF LogHoldsLanded
    <2>3. Len(subs') <= Len(Plan)
      BY <1>1, <1>2, <1>6
    <2>4. mode' \in {"in_order", "client"} /\ result' = "none" /\ spawned' = 0
          /\ proc' = "idle" /\ owed' = {}
      BY <1>1, <1>5
    <2> QED
      BY <1>6, <2>1, <2>2, <2>3, <2>4 DEF Lists, ListMode
  <1>10. Queues'
    BY <1>1, <1>5 DEF Queues, NothingLost, IndInv
  <1> QED
    BY <1>7, <1>8, <1>9, <1>10 DEF IndInv

\* The sender of a list returns, and send_ordered logs what was confirmed.
LEMMA ListReturnsInv ==
  ASSUME IndInv, ListReturns
  PROVE  IndInv'
  <1>1. /\ mode \in ListMode /\ result = "none"
        /\ (AllOk => Len(subs) = Len(Plan))
        /\ result' = Outcome /\ txLog' = IF mode = "client" THEN Logged ELSE txLog
        /\ UNCHANGED <<mode, subs, input, retry, proc, spawned,
                       accepted, applied, doubts, owed, since>>
    BY DEF ListReturns, network, queue, history
  <1>2. /\ subs \in Seq(AttemptState) /\ DOMAIN subs = 1 .. Len(subs) /\ Len(subs) \in Nat
        /\ Plan \in Seq(Item) /\ Len(Plan) \in Nat /\ Len(subs) <= Len(Plan)
        /\ \A k \in 1 .. Len(subs) : subs[k].items = <<Plan[k]>> /\ AttemptOK(subs[k], applied)
        /\ txLog \subseteq Item /\ LogHoldsLanded
    <2>1. /\ subs \in Seq(AttemptState) /\ txLog \subseteq Item /\ LogHoldsLanded
          /\ Plan \in Seq(Item)
      BY SendingAssumption DEF IndInv, Types, Lists
    <2>2. /\ Len(subs) <= Len(Plan)
          /\ \A k \in 1 .. Len(subs) : subs[k].items = <<Plan[k]>>
      BY <1>1 DEF IndInv, Lists
    <2>3. \A k \in 1 .. Len(subs) : AttemptOK(subs[k], applied)
      BY DEF IndInv, Attempts
    <2>4. DOMAIN subs = 1 .. Len(subs) /\ Len(subs) \in Nat /\ Len(Plan) \in Nat
      BY <2>1
    <2> QED
      BY <2>1, <2>2, <2>3, <2>4
  <1>3. ASSUME NEW i \in Logged PROVE i \in Item /\ applied[i] > 0
    <2>1. PICK k \in 1 .. Len(subs) : subs[k].client = "ok" /\ i = Plan[k]
      BY <1>2, <1>3 DEF Logged
    <2>2. i \in Item
      BY <1>2, <2>1
    <2>3. subs[k].net = "landed"
      BY <1>2, <2>1 DEF AttemptOK
    <2>4. Contains(subs[k].items, i)
      <3>1. <<i>>[1] = i /\ Len(<<i>>) = 1
        OBVIOUS
      <3>2. Contains(<<i>>, i)
        BY <3>1 DEF Contains
      <3> QED
        BY <1>2, <2>1, <3>2
    <2> QED
      BY <1>2, <2>1, <2>2, <2>3, <2>4 DEF AttemptOK
  <1>4. txLog' \subseteq Item /\ \A i \in txLog' : applied'[i] > 0
    BY <1>1, <1>2, <1>3 DEF LogHoldsLanded
  <1>5. result' \in {"none", "ok", "err"} /\ (result' = "ok" => AllOk)
    BY <1>1 DEF Outcome
  <1>6. Types'
    BY <1>1, <1>4, <1>5 DEF IndInv, Types
  <1>7. Attempts'
    BY <1>1 DEF IndInv, Attempts
  <1>8. Lists'
    <2>1. LogHoldsLanded'
      BY <1>4 DEF LogHoldsLanded
    <2>2. result' = "ok" => Len(subs) = Len(Plan) /\ \A k \in 1 .. Len(subs) : subs[k].client = "ok"
      BY <1>1, <1>2, <1>5 DEF AllOk
    <2>3. mode # "queue"
      BY <1>1 DEF ListMode
    <2> QED
      BY <1>1, <2>1, <2>2, <2>3 DEF IndInv, Lists
  <1>9. Queues'
    BY <1>1 DEF IndInv, Queues, NothingLost, Live
  <1> QED
    BY <1>6, <1>7, <1>8, <1>9 DEF IndInv

\* The processor gets on to spawn, to count or to join.
LEMMA ProcessorInv ==
  ASSUME IndInv, ProcessAll \/ SpawnBatch \/ CountRemaining
  PROVE  /\ IndInv'
         /\ UNCHANGED <<mode, subs, input, retry, accepted, applied, doubts>>
  <1>1. /\ UNCHANGED <<mode, subs, result, txLog, input, retry,
                       accepted, applied, doubts, owed, since>>
        /\ proc' \in {"spawn", "count", "join"}
        /\ spawned' \in {spawned, spawned + 1} /\ (spawned' # spawned => spawned < MaxSpawned)
        /\ mode = "queue" \/ proc # "idle"
    BY DEF ProcessAll, SpawnBatch, CountRemaining, network, history
  <1>2. mode = "queue"
    BY <1>1 DEF IndInv, Lists, Types
  <1>3. spawned' \in 0 .. MaxSpawned
    <2>1. spawned \in 0 .. MaxSpawned /\ MaxSpawned \in Nat
      BY SendingAssumption DEF IndInv, Types
    <2> QED
      BY <1>1, <2>1
  <1>4. Types'
    BY <1>1, <1>3 DEF IndInv, Types
  <1>5. Attempts'
    BY <1>1 DEF IndInv, Attempts
  <1>6. Lists'
    BY <1>1, <1>2 DEF IndInv, Lists, LogHoldsLanded, ListMode
  <1>7. Queues'
    BY <1>1 DEF IndInv, Queues, NothingLost, Live
  <1> QED
    BY <1>1, <1>4, <1>5, <1>6, <1>7 DEF IndInv

\* An item is queued, unless it already is.
LEMMA PushInv ==
  ASSUME IndInv, NEW i \in QueueItem, Push(i)
  PROVE  /\ IndInv'
         /\ UNCHANGED <<mode, subs, retry, applied, doubts>> /\ i \in Item
         /\ accepted' = [accepted EXCEPT ![i] = @ + (IF Contains(input, i) THEN 0 ELSE 1)]
         /\ \A x : Contains(input', x) <=> Contains(input, x) \/ x = i
  <1>1. /\ mode = "queue" /\ input' = PushAll(input, <<i>>)
        /\ accepted' = [accepted EXCEPT ![i] = @ + (IF Contains(input, i) THEN 0 ELSE 1)]
        /\ owed' = owed \cup {i} /\ since' = since \cup {i}
        /\ UNCHANGED <<mode, subs, result, txLog, retry, proc, spawned, applied, doubts>>
    BY DEF Push, network
  <1>2. i \in Item
    BY SendingAssumption
  <1>3. /\ input' \in Seq(Item) /\ IsInjective(input')
        /\ \A x : Contains(input', x) <=> Contains(input, x) \/ x = i
    <2> DEFINE s == <<i>>
    <2>1. s \in Seq(Item) /\ Len(s) = 1 /\ s[1] = i
      BY <1>2
    <2>2. \A x : Contains(s, x) <=> x = i
      <3> HIDE DEF s
      <3> QED
        BY <2>1 DEF Contains
    <2>3. input \in Seq(Item) /\ IsInjective(input)
      BY DEF IndInv, Types
    <2>4. input' = PushAll(input, s)
      BY <1>1
    <2> HIDE DEF s
    <2> QED
      BY <2>1, <2>2, <2>3, <2>4, PushAllHolds
  <1>4. accepted' \in [Item -> Nat]
    <2>1. accepted \in [Item -> Nat]
      BY DEF IndInv, Types
    <2> QED
      BY <1>1, <1>2, <2>1
  <1>5. Types'
    BY <1>1, <1>2, <1>3, <1>4 DEF IndInv, Types
  <1>6. Attempts'
    BY <1>1 DEF IndInv, Attempts
  <1>7. Lists'
    BY <1>1 DEF IndInv, Lists, LogHoldsLanded, ListMode
  <1>8. Queues'
    <2>1. ASSUME NEW x \in since' PROVE Contains(input', x)
      BY <1>1, <1>3, <2>1 DEF IndInv, Queues
    <2>2. ASSUME NEW x \in owed'
          PROVE  \/ Contains(input', x) \/ Contains(retry', x)
                 \/ \E k \in DOMAIN subs : Live(k) /\ Contains(subs[k].items, x)
      BY <1>1, <1>3, <2>2 DEF IndInv, Queues, NothingLost
    <2>3. NothingLost'
      BY <1>1, <2>2 DEF NothingLost, Live
    <2> QED
      BY <2>1, <2>3 DEF Queues
  <1> QED
    BY <1>1, <1>2, <1>3, <1>5, <1>6, <1>7, <1>8 DEF IndInv

\* What failed goes back to the queue, up to a batch.
LEMMA JoinInv ==
  ASSUME IndInv, JoinAndRequeue
  PROVE  /\ IndInv'
         /\ UNCHANGED <<mode, subs, accepted, applied, doubts>>
         /\ \A x : /\ Contains(input', x) =>
                         Contains(input, x) \/ (Contains(retry, x) /\ ~Contains(retry', x))
                   /\ Contains(retry', x) => Contains(retry, x)
  <1> DEFINE pop == PopMany(retry, BatchSize)
             rest == Rest(retry, BatchSize)
  <1>1. /\ proc = "join" /\ input' = PushAll(input, pop) /\ retry' = rest
        /\ proc' \in {"spawn", "idle"}
        /\ UNCHANGED <<mode, subs, result, txLog, spawned, accepted, applied, doubts,
                       owed, since>>
    BY DEF JoinAndRequeue, KeptRetries, network, history
  <1>2. mode = "queue"
    BY <1>1 DEF IndInv, Lists, Types
  <1>3. /\ input \in Seq(Item) /\ IsInjective(input) /\ retry \in Seq(Item)
        /\ IsInjective(retry) /\ BatchSize \in Nat
    BY SendingAssumption DEF IndInv, Types
  <1>4. /\ pop \in Seq(Item) /\ rest \in Seq(Item) /\ IsInjective(rest)
        /\ \A x : ~(Contains(pop, x) /\ Contains(rest, x))
        /\ \A x : Contains(retry, x) <=> Contains(pop, x) \/ Contains(rest, x)
    BY <1>3, PopSplits
  <1> HIDE DEF pop, rest
  <1>5. /\ input' \in Seq(Item) /\ IsInjective(input')
        /\ \A x : Contains(input', x) <=> Contains(input, x) \/ Contains(pop, x)
    BY <1>1, <1>3, <1>4, PushAllHolds
  <1>6. Types'
    BY <1>1, <1>4, <1>5 DEF IndInv, Types
  <1>7. Attempts'
    BY <1>1 DEF IndInv, Attempts
  <1>8. Lists'
    BY <1>1, <1>2 DEF IndInv, Lists, LogHoldsLanded, ListMode
  <1>9. Queues'
    <2>1. ASSUME NEW x \in since' PROVE Contains(input', x)
      BY <1>1, <1>5, <2>1 DEF IndInv, Queues
    <2>2. ASSUME NEW x \in owed'
          PROVE  \/ Contains(input', x) \/ Contains(retry', x)
                 \/ \E k \in DOMAIN subs : Live(k) /\ Contains(subs[k].items, x)
      BY <1>1, <1>4, <1>5, <2>2 DEF IndInv, Queues, NothingLost
    <2>3. NothingLost'
      BY <1>1, <2>2 DEF NothingLost, Live
    <2> QED
      BY <2>1, <2>3 DEF Queues
  <1>10. \A x : /\ Contains(input', x) =>
                      Contains(input, x) \/ (Contains(retry, x) /\ ~Contains(retry', x))
                /\ Contains(retry', x) => Contains(retry, x)
    BY <1>1, <1>4, <1>5
  <1> QED
    BY <1>1, <1>6, <1>7, <1>8, <1>9, <1>10 DEF IndInv

\* A batch leaves the queue and is sent in chunks: no item takes more room in
\* the queue and the attempts together than before.
LEMMA BatchInv ==
  ASSUME IndInv, ProcessBatch
  PROVE  /\ IndInv'
         /\ UNCHANGED <<mode, retry, accepted, applied, doubts>>
         /\ \A x \in Item : Unit(Contains(input', x)) + Count(subs', x)
                              <= Unit(Contains(input, x)) + Count(subs, x)
  <1> DEFINE pop == PopMany(input, BatchSize)
             rest == Rest(input, BatchSize)
             kept == StillPending(subs)
             new == Chunks(pop)
             n == Len(kept)
             m == Len(new)
  <1>1. /\ spawned > 0 /\ spawned' = spawned - 1 /\ input' = rest /\ subs' = kept \o new
        /\ since' = since \ ToSet(pop)
        /\ UNCHANGED <<mode, result, txLog, retry, proc, accepted, applied, doubts, owed>>
    BY DEF ProcessBatch
  <1>2. /\ input \in Seq(Item) /\ IsInjective(input) /\ BatchSize \in Nat
        /\ subs \in Seq(AttemptState) /\ spawned \in 0 .. MaxSpawned /\ MaxSpawned \in Nat
    BY SendingAssumption DEF IndInv, Types
  <1>3. mode = "queue"
    BY <1>1, <1>2 DEF IndInv, Lists, Types
  <1>4. /\ pop \in Seq(Item) /\ rest \in Seq(Item) /\ IsInjective(pop) /\ IsInjective(rest)
        /\ \A x : ~(Contains(pop, x) /\ Contains(rest, x))
        /\ \A x : Contains(input, x) <=> Contains(pop, x) \/ Contains(rest, x)
    BY <1>2, PopSplits
  <1> HIDE DEF pop, rest
  <1>5. /\ kept \in Seq(AttemptState)
        /\ \A k \in 1 .. n : \E j \in 1 .. Len(subs) : kept[k] = subs[j]
        /\ \A j \in 1 .. Len(subs) : Pending(subs[j]) => \E k \in 1 .. n : kept[k] = subs[j]
        /\ \A x : Count(kept, x) = Count(subs, x)
    BY <1>2, KeptAttempts
  <1>6. /\ new \in Seq(AttemptState)
        /\ \A c \in 1 .. m : /\ new[c].net = "unsent" /\ new[c].client = "sending"
                             /\ \A x : Contains(new[c].items, x) => Contains(pop, x)
        /\ \A x : Contains(pop, x) => \E c \in 1 .. m : Contains(new[c].items, x)
        /\ \A x : \A c, d \in 1 .. m :
              Contains(new[c].items, x) /\ Contains(new[d].items, x) => c = d
    BY <1>4, ChunksHold
  <1> HIDE DEF kept, new
  <1>7. /\ n \in Nat /\ m \in Nat /\ subs' \in Seq(AttemptState) /\ Len(subs') = n + m
        /\ \A k \in 1 .. n : subs'[k] = kept[k]
        /\ \A c \in 1 .. m : subs'[n + c] = new[c]
    BY <1>1, <1>5, <1>6
  <1> HIDE DEF n, m
  <1>8. Types'
    BY <1>1, <1>2, <1>4, <1>7 DEF IndInv, Types
  <1>9. Attempts'
    <2> SUFFICES ASSUME NEW k \in 1 .. n + m PROVE AttemptOK(subs'[k], applied')
      BY <1>7 DEF Attempts
    <2>1. CASE k \in 1 .. n
      <3>1. PICK j \in 1 .. Len(subs) : kept[k] = subs[j]
        BY <1>5, <2>1, Zenon
      <3>2. subs'[k] = subs[j]
        BY <1>7, <2>1, <3>1
      <3> QED
        BY <1>1, <3>2 DEF IndInv, Attempts
    <2>2. CASE k - n \in 1 .. m
      <3>1. n + (k - n) = k
        BY <1>7
      <3>2. subs'[k] = new[k - n]
        BY <1>7, <2>2, <3>1
      <3> QED
        BY <1>6, <2>2, <3>2 DEF AttemptOK
    <2> QED
      BY <1>7, <2>1, <2>2
  <1>10. Lists'
    BY <1>1, <1>3 DEF IndInv, Lists, LogHoldsLanded, ListMode
  <1>11. Queues'
    <2>1. ASSUME NEW x \in since' PROVE Contains(input', x)
      <3>1. x \in since /\ x \notin ToSet(pop)
        BY <1>1, <2>1
      <3>2. Contains(input, x) /\ ~Contains(pop, x)
        BY <1>4, <3>1, ToSetContains DEF IndInv, Queues
      <3> QED
        BY <1>1, <1>4, <3>2
    <2>2. ASSUME NEW x \in owed'
          PROVE  \/ Contains(input', x) \/ Contains(retry', x)
                 \/ \E k \in 1 .. n + m : /\ subs'[k].client \in {"sending", "polling"}
                                          /\ Contains(subs'[k].items, x)
      <3>1. \/ Contains(pop, x) \/ Contains(rest, x) \/ Contains(retry, x)
            \/ \E j \in 1 .. Len(subs) : /\ subs[j].client \in {"sending", "polling"}
                                         /\ Contains(subs[j].items, x)
        <4>1. x \in owed /\ DOMAIN subs = 1 .. Len(subs)
          BY <1>1, <1>2, <2>2
        <4>2. \/ Contains(input, x) \/ Contains(retry, x)
              \/ \E j \in DOMAIN subs : /\ subs[j].client \in {"sending", "polling"}
                                        /\ Contains(subs[j].items, x)
          BY <4>1, Zenon DEF IndInv, Queues, NothingLost, Live
        <4> QED
          BY <1>4, <4>1, <4>2, Zenon
      <3>2. CASE Contains(rest, x) \/ Contains(retry, x)
        BY <1>1, <3>2
      <3>3. CASE Contains(pop, x)
        <4>1. PICK c \in 1 .. m : Contains(new[c].items, x)
          BY <1>6, <3>3
        <4>2. n + c \in 1 .. n + m /\ subs'[n + c] = new[c] /\ new[c].client = "sending"
          BY <1>6, <1>7
        <4> QED
          BY <4>1, <4>2
      <3>4. ASSUME NEW j \in 1 .. Len(subs), subs[j].client \in {"sending", "polling"},
                   Contains(subs[j].items, x)
            PROVE  \E k \in 1 .. n + m : /\ subs'[k].client \in {"sending", "polling"}
                                         /\ Contains(subs'[k].items, x)
        <4>1. Pending(subs[j])
          BY <3>4 DEF Pending
        <4>2. PICK k \in 1 .. n : kept[k] = subs[j]
          BY <1>5, <4>1
        <4>3. k \in 1 .. n + m /\ subs'[k] = subs[j]
          BY <1>7, <4>2
        <4> QED
          BY <3>4, <4>3
      <3> QED
        BY <3>1, <3>2, <3>3, <3>4
    <2>3. NothingLost'
      <3>1. DOMAIN subs' = 1 .. n + m
        BY <1>7
      <3> QED
        BY <2>2, <3>1 DEF NothingLost, Live
    <2> QED
      BY <2>1, <2>3 DEF Queues
  <1>12. ASSUME NEW x \in Item
         PROVE  Unit(Contains(input', x)) + Count(subs', x)
                  <= Unit(Contains(input, x)) + Count(subs, x)
    <2> DEFINE has == Contains(pop, x)
               old == Contains(input, x)
               left == Contains(rest, x)
    <2>1. has \in BOOLEAN
      BY DEF Contains
    <2>2. /\ \A c \in 1 .. Len(new) : MayTakeEffect(new[c], x) => has
          /\ \A c, d \in 1 .. Len(new) :
                MayTakeEffect(new[c], x) /\ MayTakeEffect(new[d], x) => c = d
      BY <1>6 DEF MayTakeEffect, m
    <2>3. Count(subs', x) <= Count(kept, x) + Unit(has)
      <3> HIDE DEF has
      <3> QED
        BY <1>1, <1>5, <1>6, <2>1, <2>2, CountConcat
    <2>4. Count(subs, x) \in Nat /\ Count(kept, x) = Count(subs, x) /\ Count(subs', x) \in Nat
      BY <1>2, <1>5, <1>7, CountType
    <2>5. Unit(left) + Unit(has) <= Unit(old) /\ {Unit(left), Unit(has), Unit(old)} \subseteq Nat
      <3>1. ~(has /\ left) /\ (old <=> has \/ left)
        BY <1>4
      <3> HIDE DEF has, left, old
      <3> QED
        BY <3>1 DEF Unit
    <2>6. Contains(input', x) = left
      BY <1>1
    <2> DEFINE u == Unit(left)
               v == Unit(has)
               w == Unit(old)
    <2>7. u \in Nat /\ v \in Nat /\ w \in Nat /\ u + v <= w
      BY <2>5
    <2> HIDE DEF u, v, w, left
    <2>8. u + Count(subs', x) <= w + Count(subs, x)
      BY <2>3, <2>4, <2>7 DEF v
    <2> QED
      BY <2>6, <2>8 DEF u, w
  <1> QED
    BY <1>1, <1>8, <1>9, <1>10, <1>11, <1>12 DEF IndInv

-----------------------------------------------------------------------------
(* The theorems.                                                           *)

\* Every step keeps the invariant.
LEMMA InvNext ==
  ASSUME IndInv, [Next]_vars
  PROVE  IndInv'
  <1>1. CASE UNCHANGED vars
    <2>1. UNCHANGED <<mode, subs, result, txLog, input, retry, proc, spawned, accepted,
                      applied, doubts, owed, since>>
      BY <1>1 DEF vars, network, queue, history
    <2> QED
      BY <2>1 DEF IndInv, Types, Attempts, Lists, Queues, NothingLost, LogHoldsLanded, Live
  <1>2. ASSUME NEW k \in DOMAIN subs,
               \/ Client(k) \/ CompileFails(k) \/ SubmitFails(k) \/ PollFails(k)
               \/ Land(k) \/ Rejected(k)
        PROVE  IndInv'
    BY <1>2, AttemptMoves, MovesInv
  <1>3. CASE SendNext
    BY <1>3, SendNextInv
  <1>4. CASE ListReturns
    BY <1>4, ListReturnsInv
  <1>5. ASSUME NEW i \in QueueItem, Push(i) PROVE IndInv'
    BY <1>5, PushInv
  <1>6. CASE ProcessAll \/ SpawnBatch \/ CountRemaining
    BY <1>6, ProcessorInv
  <1>7. CASE JoinAndRequeue
    BY <1>7, JoinInv
  <1>8. CASE ProcessBatch
    BY <1>8, BatchInv
  <1> QED
    BY <1>1, <1>2, <1>3, <1>4, <1>5, <1>6, <1>7, <1>8 DEF Next, Sender, Processor

\* The invariant holds in every state of every behaviour.
THEOREM Invariance == Spec => []IndInv
  <1>1. Init => IndInv
    BY InvInit
  <1>2. IndInv /\ [Next]_vars => IndInv'
    BY InvNext
  <1> QED
    BY <1>1, <1>2, PTL DEF Spec

\* What send_and_confirm_condensed, its _in_order variant and send_ordered tell
\* their caller agrees with what took effect: what lands is a beginning of the
\* list, Ok means all of it landed, and the log holds nothing that did not.
THEOREM ListsAgree == Spec => []ListsLandInOrder
  <1>1. IndInv => ListsLandInOrder
    <2> SUFFICES ASSUME IndInv PROVE ListsLandInOrder
      OBVIOUS
    <2>1. /\ DOMAIN subs = 1 .. Len(subs) /\ Len(subs) \in Nat
          /\ mode \in ListMode \cup {"queue"} /\ mode = "queue" => result = "none"
          /\ \A k \in 1 .. Len(subs) : AttemptOK(subs[k], applied)
      BY DEF IndInv, Types, Attempts, Lists
    <2>2. \A k \in 1 .. Len(subs) : subs[k].client = "ok" => subs[k].net = "landed"
      BY <2>1 DEF AttemptOK
    <2>3. LandedIsPrefix
      <3> SUFFICES ASSUME mode \in {"in_order", "client"}, NEW k \in 1 .. Len(subs),
                          NEW j \in 1 .. k - 1
                   PROVE  subs[j].net = "landed"
        BY <2>1 DEF LandedIsPrefix
      <3>1. j \in 1 .. Len(subs) /\ j < Len(subs) /\ mode \in ListMode
        BY <2>1 DEF ListMode
      <3>2. subs[j].client = "ok"
        BY <3>1 DEF IndInv, Lists
      <3> QED
        BY <2>2, <3>1, <3>2
    <2>4. OkMeansLanded
      <3> SUFFICES ASSUME result = "ok"
                   PROVE  /\ Len(subs) = Len(Plan)
                          /\ \A k \in 1 .. Len(subs) : subs[k].net = "landed"
        BY <2>1 DEF OkMeansLanded
      <3>1. mode \in ListMode
        BY DEF IndInv, Lists, Types
      <3>2. Len(subs) = Len(Plan) /\ \A k \in 1 .. Len(subs) : subs[k].client = "ok"
        BY <3>1 DEF IndInv, Lists
      <3> QED
        BY <2>2, <3>2
    <2> QED
      BY <2>3, <2>4 DEF ListsLandInOrder, IndInv, Lists
  <1> QED
    BY <1>1, Invariance, PTL

\* Whatever fails, is retried or is queued again meanwhile, neither queue of the
\* processor holds an item twice, and every item queued and not yet processed
\* is in one of them or on its way.
THEOREM NoItemIsLost == Spec => []QueuesHoldAll
  <1>1. IndInv => QueuesHoldAll
    <2> SUFFICES ASSUME IndInv PROVE QueuesHoldAll
      OBVIOUS
    <2>1. subs \in Seq(AttemptState)
      BY DEF IndInv, Types
    <2>2. \A k \in DOMAIN subs : subs[k] \in AttemptState
      BY <2>1
    <2>3. TypeOK
      BY <2>2 DEF TypeOK, IndInv, Types
    <2> QED
      BY <2>3 DEF QueuesHoldAll, IndInv, Queues
  <1> QED
    BY <1>1, Invariance, PTL

\* Each time a queue took an item pays for one transaction with it, and each
\* doubt for one more: the item is in a queue, in an attempt that may still
\* take effect, or has taken effect.
Balance ==
    mode = "queue" =>
        \A i \in Item :
            applied[i] + Unit(Contains(input, i)) + Unit(Contains(retry, i)) + Count(subs, i)
              <= accepted[i] + doubts[i]

\* Initially there is nothing to pay for.
LEMMA BalanceInit == Init => Balance
  <1> SUFFICES ASSUME Init, mode = "queue", NEW i \in Item
               PROVE  applied[i] + Unit(Contains(input, i)) + Unit(Contains(retry, i))
                        + Count(subs, i) <= accepted[i] + doubts[i]
    BY DEF Balance
  <1>1. subs = << >> /\ input = << >> /\ retry = << >> /\ applied[i] = 0 /\ accepted[i] = 0
        /\ doubts[i] = 0
    BY DEF Init, FirstAttempts, ListMode
  <1>2. Unit(Contains(input, i)) = 0 /\ Unit(Contains(retry, i)) = 0
    <2>1. ~Contains(<< >>, i)
      BY DEF Contains
    <2> QED
      BY <1>1, <2>1, UnitFacts
  <1>3. Count(subs, i) = 0
    <2>1. Effective(<< >>, i) = {}
      BY DEF Effective
    <2>2. Cardinality({}) = 0
      BY FS_EmptySet
    <2> QED
      BY <1>1, <2>1, <2>2, Zenon DEF Count
  <1> QED
    BY <1>1, <1>2, <1>3

\* An attempt that gets on keeps the balance.
LEMMA MovesBalance ==
  ASSUME IndInv, Balance, NEW k, NEW x, Moves(k, x), Pays(k, x)
  PROVE  Balance'
  <1>1. mode' = mode /\ input' = input /\ accepted' = accepted /\ applied' \in [Item -> Nat]
        /\ doubts' \in [Item -> Nat]
    BY DEF Moves
  <1>2. /\ subs \in Seq(AttemptState) /\ k \in DOMAIN subs /\ x \in AttemptState
        /\ subs' = [subs EXCEPT ![k] = x]
        /\ applied \in [Item -> Nat] /\ accepted \in [Item -> Nat] /\ doubts \in [Item -> Nat]
    BY DEF Moves, IndInv, Types
  <1>3. /\ subs' \in Seq(AttemptState) /\ Len(subs') = Len(subs)
        /\ k \in 1 .. Len(subs) /\ subs'[k] = x
        /\ \A j \in 1 .. Len(subs) : j # k => subs'[j] = subs[j]
    BY <1>2, MovedAttempt
  <1> SUFFICES ASSUME mode = "queue", NEW i \in Item
               PROVE  applied'[i] + Unit(Contains(input, i)) + Unit(Contains(retry', i))
                        + Count(subs', i) <= accepted[i] + doubts'[i]
    BY <1>1 DEF Balance
  <1> DEFINE a == Unit(Contains(input, i))
             r == Unit(Contains(retry, i))
             s == Unit(Contains(retry', i))
             v == Unit(MayTakeEffect(subs[k], i))
             w == Unit(MayTakeEffect(x, i))
             c == Count(subs, i)
             d == Count(subs', i)
  <1>4. d + v = c + w
    <2> DEFINE p == subs'
               e == p[k]
    <2>1. /\ p \in Seq(AttemptState) /\ Len(p) = Len(subs) /\ k \in 1 .. Len(subs)
          /\ \A j \in 1 .. Len(subs) : j # k => p[j] = subs[j]
      BY <1>3
    <2>2. e = x
      BY <1>3
    <2> HIDE DEF p
    <2>3. Count(p, i) + Unit(MayTakeEffect(subs[k], i)) = Count(subs, i) + Unit(MayTakeEffect(e, i))
      BY <1>2, <2>1, CountChange, Zenon
    <2> QED
      BY <2>2, <2>3, Zenon DEF p
  <1>5. c \in Nat /\ d \in Nat
    BY <1>2, <1>3, CountType
  <1>6. a \in {0, 1} /\ r \in {0, 1} /\ s \in {0, 1} /\ v \in {0, 1} /\ w \in {0, 1}
    BY UnitFacts
  <1>7. applied'[i] + s + w + doubts[i] <= applied[i] + r + v + doubts'[i]
    BY DEF Pays
  <1>8. applied[i] + a + r + c <= accepted[i] + doubts[i]
    BY DEF Balance
  <1>9. applied[i] \in Nat /\ applied'[i] \in Nat /\ accepted[i] \in Nat /\ doubts[i] \in Nat
        /\ doubts'[i] \in Nat
    BY <1>1, <1>2
  <1> HIDE DEF a, r, s, v, w, c, d
  <1>10. applied'[i] + a + s + d <= accepted[i] + doubts'[i]
    BY <1>4, <1>5, <1>6, <1>7, <1>8, <1>9
  <1> QED
    BY <1>10 DEF a, s, d

\* Every step keeps the balance.
LEMMA BalanceNext ==
  ASSUME IndInv, Balance, [Next]_vars
  PROVE  Balance'
  <1>0. /\ subs \in Seq(AttemptState) /\ applied \in [Item -> Nat]
        /\ accepted \in [Item -> Nat] /\ doubts \in [Item -> Nat]
        /\ mode \in ListMode \cup {"queue"}
    BY DEF IndInv, Types
  <1>1. CASE UNCHANGED <<mode, subs, input, retry, accepted, applied, doubts>>
    BY <1>1 DEF Balance
  <1>2. ASSUME NEW k \in DOMAIN subs,
               \/ Client(k) \/ CompileFails(k) \/ SubmitFails(k) \/ PollFails(k)
               \/ Land(k) \/ Rejected(k)
        PROVE  Balance'
    <2>1. PICK x : Moves(k, x) /\ Pays(k, x)
      BY <1>2, AttemptMoves
    <2> QED
      BY <2>1, MovesBalance
  <1>3. CASE Sender
    <2>1. mode \in ListMode /\ mode' = mode
      BY <1>3 DEF Sender, SendNext, ListReturns, ListMode
    <2> QED
      BY <2>1 DEF Balance, ListMode
  <1>4. ASSUME NEW j \in QueueItem, Push(j) PROVE Balance'
    <2>1. /\ UNCHANGED <<mode, subs, retry, applied, doubts>> /\ j \in Item
          /\ accepted' = [accepted EXCEPT ![j] = @ + (IF Contains(input, j) THEN 0 ELSE 1)]
          /\ \A x : Contains(input', x) <=> Contains(input, x) \/ x = j
      BY <1>4, PushInv
    <2> SUFFICES ASSUME mode = "queue", NEW i \in Item
                 PROVE  applied[i] + Unit(Contains(input', i)) + Unit(Contains(retry, i))
                          + Count(subs, i) <= accepted'[i] + doubts[i]
      BY <2>1 DEF Balance
    <2> DEFINE a == Unit(Contains(input, i))
               b == Unit(Contains(input', i))
               r == Unit(Contains(retry, i))
               c == Count(subs, i)
    <2>2. a \in {0, 1} /\ b \in {0, 1} /\ r \in {0, 1}
      BY UnitFacts
    <2>3. accepted'[i] \in Nat /\ accepted'[i] - accepted[i] >= b - a
      <3>1. CASE i = j /\ ~Contains(input, i)
        <4>1. accepted'[i] = accepted[i] + 1
          BY <1>0, <2>1, <3>1
        <4> HIDE DEF a, b
        <4> QED
          BY <1>0, <2>2, <4>1
      <3>2. CASE i # j \/ Contains(input, i)
        <4>1. accepted'[i] = accepted[i]
          BY <1>0, <2>1, <3>2
        <4>2. b <= a
          <5>1. Contains(input', i) => Contains(input, i)
            BY <2>1, <3>2
          <5> QED
            BY <5>1, UnitFacts
        <4> HIDE DEF a, b
        <4> QED
          BY <1>0, <2>2, <4>1, <4>2
      <3> QED
        BY <3>1, <3>2
    <2>4. applied[i] + a + r + c <= accepted[i] + doubts[i] /\ c \in Nat
      BY <1>0, CountType DEF Balance
    <2>5. applied[i] \in Nat /\ accepted[i] \in Nat /\ doubts[i] \in Nat
      BY <1>0
    <2> HIDE DEF a, b, r, c
    <2>6. applied[i] + b + r + c <= accepted'[i] + doubts[i]
      BY <2>2, <2>3, <2>4, <2>5
    <2> QED
      BY <2>6 DEF b, r, c
  <1>5. CASE ProcessAll \/ SpawnBatch \/ CountRemaining
    BY <1>1, <1>5, ProcessorInv
  <1>6. CASE JoinAndRequeue
    <2>1. /\ UNCHANGED <<mode, subs, accepted, applied, doubts>>
          /\ \A x : /\ Contains(input', x) =>
                          Contains(input, x) \/ (Contains(retry, x) /\ ~Contains(retry', x))
                    /\ Contains(retry', x) => Contains(retry, x)
      BY <1>6, JoinInv
    <2> SUFFICES ASSUME mode = "queue", NEW i \in Item
                 PROVE  applied[i] + Unit(Contains(input', i)) + Unit(Contains(retry', i))
                          + Count(subs, i) <= accepted[i] + doubts[i]
      BY <2>1 DEF Balance
    <2> DEFINE a == Unit(Contains(input, i))
               b == Unit(Contains(input', i))
               r == Unit(Contains(retry, i))
               s == Unit(Contains(retry', i))
               c == Count(subs, i)
    <2>2. a \in {0, 1} /\ b \in {0, 1} /\ r \in {0, 1} /\ s \in {0, 1}
      BY UnitFacts
    <2>3. b + s <= a + r
      <3>1. s <= r
        BY <2>1, UnitFacts
      <3>2. CASE Contains(input', i) => Contains(input, i)
        <4>1. b <= a
          BY <3>2, UnitFacts
        <4> HIDE DEF a, b, r, s
        <4> QED
          BY <2>2, <3>1, <4>1
      <3>3. CASE ~(Contains(input', i) => Contains(input, i))
        <4>1. Contains(retry, i) /\ ~Contains(retry', i)
          BY <2>1, <3>3
        <4>2. r = 1 /\ s = 0
          BY <4>1 DEF Unit
        <4> HIDE DEF a, b, r, s
        <4> QED
          BY <2>2, <4>2
      <3> QED
        BY <3>2, <3>3
    <2>4. applied[i] + a + r + c <= accepted[i] + doubts[i] /\ c \in Nat
      BY <1>0, CountType DEF Balance
    <2>5. applied[i] \in Nat /\ accepted[i] \in Nat /\ doubts[i] \in Nat
      BY <1>0
    <2> HIDE DEF a, b, r, s, c
    <2>6. applied[i] + b + s + c <= accepted[i] + doubts[i]
      BY <2>2, <2>3, <2>4, <2>5
    <2> QED
      BY <2>6 DEF b, s, c
  <1>7. CASE ProcessBatch
    <2>1. /\ IndInv' /\ UNCHANGED <<mode, retry, accepted, applied, doubts>>
          /\ \A x \in Item : Unit(Contains(input', x)) + Count(subs', x)
                               <= Unit(Contains(input, x)) + Count(subs, x)
      BY <1>7, BatchInv
    <2> SUFFICES ASSUME mode = "queue", NEW i \in Item
                 PROVE  applied[i] + Unit(Contains(input', i)) + Unit(Contains(retry, i))
                          + Count(subs', i) <= accepted[i] + doubts[i]
      BY <2>1 DEF Balance
    <2> DEFINE a == Unit(Contains(input, i))
               b == Unit(Contains(input', i))
               r == Unit(Contains(retry, i))
               c == Count(subs, i)
               d == Count(subs', i)
    <2>2. a \in {0, 1} /\ b \in {0, 1} /\ r \in {0, 1}
      BY UnitFacts
    <2>3. subs' \in Seq(AttemptState)
      BY <2>1 DEF IndInv, Types
    <2>4. c \in Nat /\ d \in Nat /\ b + d <= a + c
      BY <1>0, <2>1, <2>3, CountType
    <2>5. applied[i] + a + r + c <= accepted[i] + doubts[i]
      BY DEF Balance
    <2>6. applied[i] \in Nat /\ accepted[i] \in Nat /\ doubts[i] \in Nat
      BY <1>0
    <2> HIDE DEF a, b, r, c, d
    <2>7. applied[i] + b + r + d <= accepted[i] + doubts[i]
      BY <2>2, <2>4, <2>5, <2>6
    <2> QED
      BY <2>7 DEF b, r, d
  <1>8. CASE UNCHANGED vars
    BY <1>1, <1>8 DEF vars, network, queue, history
  <1> QED
    BY <1>2, <1>3, <1>4, <1>5, <1>6, <1>7, <1>8 DEF Next, Processor

\* An item of the queue processor takes effect more often than it was queued
\* only when an attempt was given up while its transaction was under way: a
\* retry alone never executes anything twice.
THEOREM DuplicatesAreDoubted == Spec => []DuplicatesAreLate
  <1>1. Init => Balance
    BY BalanceInit
  <1>2. IndInv /\ Balance /\ [Next]_vars => Balance'
    BY BalanceNext
  <1>3. IndInv /\ Balance => DuplicatesAreLate
    <2> SUFFICES ASSUME IndInv, Balance, mode = "queue", NEW i \in Item
                 PROVE  applied[i] <= accepted[i] + doubts[i]
      BY DEF DuplicatesAreLate
    <2> DEFINE a == Unit(Contains(input, i))
               r == Unit(Contains(retry, i))
               c == Count(subs, i)
    <2>1. a \in {0, 1} /\ r \in {0, 1}
      BY UnitFacts
    <2>2. c \in Nat /\ applied[i] \in Nat /\ accepted[i] \in Nat /\ doubts[i] \in Nat
      BY CountType DEF IndInv, Types
    <2>3. applied[i] + a + r + c <= accepted[i] + doubts[i]
      BY DEF Balance
    <2> HIDE DEF a, r, c
    <2> QED
      BY <2>1, <2>2, <2>3
  <1> QED
    BY <1>1, <1>2, <1>3, Invariance, PTL DEF Spec

-----------------------------------------------------------------------------
(* What is planned and sent to configure an airspace: the instructions the *)
(* builder plans, and the accounts they leave.                             *)

\* The instructions that create what a later one needs.
IsInitializer(ix) ==
    \/ ix.op = "create_governor_id"
    \/ ix.op \in {"token_create", "token_init_native"} /\ ix.mint \in Mint

\* An update, or a pool's configuration, is one of a description's tokens.
IsUpdate(m, u, goal) ==
    \E desc \in ToSet(goal.tokens) :
        \/ m = MintOf(desc.token) /\ u = MarginUpdate(desc)
        \/ /\ desc.pool # "none"
           /\ \/ m = Deposit(desc.token) /\ u = DepositUpdate(desc)
              \/ m = Loan(desc.token) /\ u = LoanUpdate(desc)

Pooled(goal) == {desc \in ToSet(goal.tokens) : desc.pool # "none" /\ desc.token \in Token}

\* The instructions the builder plans from a description: except for the
\* migrations, each sets what the description has.
IsPlanned(ix, goal) ==
    \/ IsInitializer(ix)
    \/ ix.op \in {"create_airspace", "configure_adapter", "migrate_token_config"}
    \/ ix.op = "configure_token" /\ IsUpdate(ix.mint, ix.update, goal)
    \/ ix.op = "create_pool" /\ \E desc \in Pooled(goal) : ix.token = desc.token
    \/ /\ ix.op = "configure_pool"
       /\ ix.desc \in Pooled(goal) /\ ix.token = ix.desc.token
    \/ /\ ix.op = "configure_permit" /\ ix.flag \in Permission \ {"OPERATE_VAULTS"}
       /\ ix.enable = (ix.flag \in Wanted(goal, ix.crank))
    \/ ix.op = "set_entry" /\ ix.data.exists /\ ix.mint[2] # "mint"

ChainOK(c) == HaveFields(c) /\ AccountsOK(c) /\ HaveMetadata(c)

LEMMA MintsOf ==
  ASSUME NEW t \in Token
  PROVE  MintOf(t) \in Mint /\ Deposit(t) \in Mint /\ Loan(t) \in Mint
  BY DEF Mint, MintOf, Deposit, Loan

LEMMA FlagsOK ==
  ASSUME NEW c, ChainOK(c)
  PROVE  ChainOK([c EXCEPT !.governor = TRUE]) /\ ChainOK([c EXCEPT !.airspace = TRUE])
  BY DEF ChainOK, HaveFields, AccountsOK, HaveMetadata

LEMMA AdaptersOK ==
  ASSUME NEW c, ChainOK(c), NEW v
  PROVE  ChainOK([c EXCEPT !.adapters = v])
  BY DEF ChainOK, HaveFields, AccountsOK, HaveMetadata

LEMMA TokenCreateOK ==
  ASSUME NEW c, ChainOK(c), NEW m \in Mint
  PROVE  ChainOK(CreatedToken(c, m))
  BY DEF CreatedToken, ChainOK, HaveFields, AccountsOK, HaveMetadata

LEMMA InitNativeOK ==
  ASSUME NEW c, ChainOK(c), NEW m \in Mint
  PROVE  ChainOK(InitializedNative(c, m))
  BY DEF InitializedNative, ChainOK, HaveFields, AccountsOK, HaveMetadata

LEMMA PermitOK ==
  ASSUME NEW c, ChainOK(c), NEW k, NEW v, k \in Crank => v \subseteq Permission
  PROVE  ChainOK([c EXCEPT !.permit[k] = v])
  BY DEF ChainOK, HaveFields, AccountsOK, HaveMetadata

LEMMA ConfigureTokenOK ==
  ASSUME NEW c, ChainOK(c), NEW m, NEW u, m \in c.mints
  PROVE  ChainOK([c EXCEPT !.config[m] = Margin!AppliedUpdate(@, u)])
  BY DEF Margin!AppliedUpdate, ChainOK, HaveFields, AccountsOK, HaveMetadata

LEMMA MigrateOK ==
  ASSUME NEW c, ChainOK(c), NEW m, c.config[m].exists
  PROVE  ChainOK([c EXCEPT !.config[m] = MigratedConfig(@)])
  <1>. DEFINE after == MigratedConfig(c.config[m])
  <1>1. m \in Mint => /\ after.exists /\ after.old \in BOOLEAN /\ m \in c.mints
                      /\ {"exists", "old"} \subseteq DOMAIN after
    BY DEF MigratedConfig, ChainOK, HaveFields, AccountsOK
  <1>2. [c EXCEPT !.config[m] = MigratedConfig(@)] = [c EXCEPT !.config[m] = after]
    OBVIOUS
  <1>. HIDE DEF after
  <1>3. ChainOK([c EXCEPT !.config[m] = after])
    BY <1>1 DEF ChainOK, HaveFields, AccountsOK, HaveMetadata
  <1>. QED BY <1>2, <1>3

LEMMA NotesDiffer ==
  ASSUME NEW t, NEW u
  PROVE  /\ MintOf(t) # Deposit(u) /\ MintOf(t) # Loan(u) /\ Deposit(t) # Loan(u)
         /\ MintOf(t) = MintOf(u) => t = u
         /\ Deposit(t) = Deposit(u) => t = u
         /\ Loan(t) = Loan(u) => t = u
  BY DEF MintOf, Deposit, Loan

LEMMA CreatePoolOK ==
  ASSUME NEW c, ChainOK(c), NEW t \in Token
  PROVE  ChainOK(CreatedPool(c, t))
  <1>. DEFINE p == [exists |-> TRUE, params |-> "default", oracle |-> "NoOracle"]
              e == [exists |-> TRUE, oracle |-> "NoOracle"]
              d == MetadataEntry("new", "NonCollateral", 0, 5, {})
              l == MetadataEntry("new", "Claim", 0, 5, {})
              r == [c EXCEPT !.mints = @ \cup {Deposit(t), Loan(t)}, !.pool[t] = p,
                             !.entry[MintOf(t)] = e, !.entry[Deposit(t)] = d, !.entry[Loan(t)] = l]
  <1>1. CreatedPool(c, t) = r
    BY Zenon DEF CreatedPool
  <1>2. /\ p.exists /\ e.exists /\ d.exists /\ l.exists /\ p.oracle = e.oracle
        /\ {"exists", "oracle"} \subseteq DOMAIN e
    BY DEF MetadataEntry
  <1>. HIDE DEF p, e, d, l
  <1>3. MintOf(t) # Deposit(t) /\ MintOf(t) # Loan(t) /\ Deposit(t) # Loan(t)
    BY NotesDiffer
  <1>4. /\ DOMAIN r = DOMAIN c /\ DOMAIN r.entry = Mint /\ DOMAIN r.pool = Token
        /\ r.governor = c.governor /\ r.airspace = c.airspace /\ r.permit = c.permit
        /\ r.config = c.config /\ r.mints = c.mints \cup {Deposit(t), Loan(t)}
        /\ r.infos = c.infos
        /\ \A u \in Token : r.pool[u] = IF u = t THEN p ELSE c.pool[u]
        /\ \A m \in Mint : r.entry[m] = IF m = MintOf(t) THEN e ELSE IF m = Deposit(t) THEN d
                                         ELSE IF m = Loan(t) THEN l ELSE c.entry[m]
    BY <1>3, MintsOf DEF ChainOK, HaveFields
  <1>. HIDE DEF r
  <1>5. HaveFields(r)
    BY <1>2, <1>4, MintsOf, NotesDiffer DEF ChainOK, HaveFields
  <1>6. AccountsOK(r)
    BY <1>4, MintsOf DEF ChainOK, AccountsOK
  <1>7. HaveMetadata(r)
    BY <1>2, <1>4, MintsOf, NotesDiffer DEF ChainOK, HaveMetadata
  <1>. QED BY <1>1, <1>5, <1>6, <1>7 DEF ChainOK

LEMMA ConfigurePoolOK ==
  ASSUME NEW c, ChainOK(c), NEW t \in Token, NEW desc, c.pool[t].exists
  PROVE  ChainOK(ConfiguredPool(c, t, desc))
  <1>. DEFINE p == [exists |-> TRUE, params |-> desc.pool, oracle |-> desc.oracle]
              e == [c.entry[MintOf(t)] EXCEPT !.oracle = desc.oracle]
              d == MetadataEntry("new", "Collateral", desc.weight, desc.staleness, desc.features)
              l == MetadataEntry("new", "Claim", desc.leverage, desc.staleness, desc.features)
              r == [c EXCEPT !.pool[t] = p, !.entry[MintOf(t)].oracle = desc.oracle,
                             !.entry[Deposit(t)] = d, !.entry[Loan(t)] = l]
  <1>1. ConfiguredPool(c, t, desc) = r
    BY Zenon DEF ConfiguredPool
  <1>2. c.entry[MintOf(t)].exists /\ {"exists", "oracle"} \subseteq DOMAIN c.entry[MintOf(t)]
    BY DEF ChainOK, HaveFields, HaveMetadata
  <1>3. /\ p.exists /\ e.exists /\ d.exists /\ l.exists /\ p.oracle = e.oracle
        /\ {"exists", "oracle"} \subseteq DOMAIN e
    BY <1>2 DEF MetadataEntry
  <1>. HIDE DEF p, d, l
  <1>4. MintOf(t) # Deposit(t) /\ MintOf(t) # Loan(t) /\ Deposit(t) # Loan(t)
    BY NotesDiffer
  <1>5. /\ DOMAIN r = DOMAIN c /\ DOMAIN r.entry = Mint /\ DOMAIN r.pool = Token
        /\ r.governor = c.governor /\ r.airspace = c.airspace /\ r.permit = c.permit
        /\ r.config = c.config /\ r.mints = c.mints /\ r.infos = c.infos
        /\ \A u \in Token : r.pool[u] = IF u = t THEN p ELSE c.pool[u]
        /\ \A m \in Mint : r.entry[m] = IF m = MintOf(t) THEN e ELSE IF m = Deposit(t) THEN d
                                         ELSE IF m = Loan(t) THEN l ELSE c.entry[m]
    BY <1>4, MintsOf DEF ChainOK, HaveFields
  <1>. HIDE DEF r, e
  <1>6. HaveFields(r)
    BY <1>3, <1>5, MintsOf, NotesDiffer DEF ChainOK, HaveFields
  <1>7. AccountsOK(r)
    BY <1>5, MintsOf DEF ChainOK, AccountsOK
  <1>8. HaveMetadata(r)
    BY <1>3, <1>5, MintsOf, NotesDiffer DEF ChainOK, HaveMetadata
  <1>. QED BY <1>1, <1>6, <1>7, <1>8 DEF ChainOK

LEMMA SetEntryOK ==
  ASSUME NEW c, ChainOK(c), NEW m, NEW data, data.exists, m[2] # "mint"
  PROVE  ChainOK(SetEntry(c, m, data))
  BY MintsOf DEF SetEntry, ChainOK, HaveFields, AccountsOK, HaveMetadata, MintOf

LEMMA EffectOK ==
  ASSUME NEW goal, NEW c, ChainOK(c), NEW ix, IsPlanned(ix, goal), Accepts(c, ix)
  PROVE  ChainOK(Effect(c, ix))
  <1>1. CASE ix.op = "create_governor_id"
    <2>1. Effect(c, ix) = [c EXCEPT !.governor = TRUE]
      BY <1>1, Zenon DEF Effect
    <2>. QED BY <2>1, FlagsOK, Zenon
  <1>2. CASE ix.op = "create_airspace"
    <2>1. Effect(c, ix) = [c EXCEPT !.airspace = TRUE]
      BY <1>2, Zenon DEF Effect
    <2>. QED BY <2>1, FlagsOK, Zenon
  <1>3. CASE ix.op = "configure_adapter"
    <2>1. Effect(c, ix) = [c EXCEPT !.adapters = @ \cup {ix.adapter}]
      BY <1>3, Zenon DEF Effect
    <2>. QED BY <2>1, AdaptersOK
  <1>4. CASE ix.op = "configure_token"
    <2>1. Effect(c, ix) = [c EXCEPT !.config[ix.mint] = Margin!AppliedUpdate(@, ix.update)]
      BY <1>4, Zenon DEF Effect
    <2>2. AcceptsUpdate(c, ix.mint, ix.update)
      BY <1>4, Zenon DEF Accepts
    <2>3. ix.mint \in c.mints
      BY <2>2, Zenon DEF AcceptsUpdate
    <2>. QED BY <2>1, <2>3, ConfigureTokenOK
  <1>5. CASE ix.op = "migrate_token_config"
    <2>1. Effect(c, ix) = [c EXCEPT !.config[ix.mint] = MigratedConfig(@)]
      BY <1>5, Zenon DEF Effect
    <2>2. c.config[ix.mint].exists
      BY <1>5, Zenon DEF Accepts
    <2>. QED BY <2>1, <2>2, MigrateOK
  <1>6. CASE ix.op = "token_create" /\ ix.mint \in Mint
    <2>1. Effect(c, ix) = CreatedToken(c, ix.mint)
      BY <1>6, Zenon DEF Effect
    <2>. QED BY <1>6, <2>1, TokenCreateOK, Zenon
  <1>11. CASE ix.op = "token_init_native" /\ ix.mint \in Mint
    <2>1. Effect(c, ix) = InitializedNative(c, ix.mint)
      BY <1>11, Zenon DEF Effect
    <2>. QED BY <1>11, <2>1, InitNativeOK, Zenon
  <1>7. CASE ix.op = "create_pool" /\ \E desc \in Pooled(goal) : ix.token = desc.token
    <2>2. ix.token \in Token
      BY <1>7, Zenon DEF Pooled
    <2>1. Effect(c, ix) = CreatedPool(c, ix.token)
      BY <1>7, Zenon DEF Effect
    <2>. QED BY <2>1, <2>2, CreatePoolOK, Zenon
  <1>8. CASE ix.op = "configure_pool" /\ ix.desc \in Pooled(goal) /\ ix.token = ix.desc.token
    <2>3. ix.token \in Token
      BY <1>8, Zenon DEF Pooled
    <2>1. Effect(c, ix) = ConfiguredPool(c, ix.token, ix.desc)
      BY <1>8, Zenon DEF Effect
    <2>2. c.pool[ix.token].exists
      BY <1>8, Zenon DEF Accepts
    <2>. QED BY <2>1, <2>2, <2>3, ConfigurePoolOK, Zenon
  <1>9. CASE ix.op = "configure_permit" /\ ix.flag \in Permission \ {"OPERATE_VAULTS"}
    <2>. DEFINE v == ConfiguredPermit(c.permit[ix.crank], ix.flag, ix.enable)
    <2>1. Effect(c, ix) = [c EXCEPT !.permit[ix.crank] = v]
      BY <1>9, Zenon DEF Effect
    <2>2. ix.crank \in Crank => c.permit[ix.crank] \subseteq Permission
      BY DEF ChainOK, AccountsOK
    <2>3. ix.crank \in Crank => v \subseteq Permission
      BY <1>9, <2>2 DEF ConfiguredPermit
    <2>. HIDE DEF v
    <2>4. ChainOK([c EXCEPT !.permit[ix.crank] = v])
      BY <2>3, PermitOK
    <2>. QED BY <2>1, <2>4, Zenon
  <1>10. CASE ix.op = "set_entry" /\ ix.data.exists /\ ix.mint[2] # "mint"
    <2>1. Effect(c, ix) = SetEntry(c, ix.mint, ix.data)
      BY <1>10, Zenon DEF Effect
    <2>. QED BY <1>10, <2>1, SetEntryOK, Zenon
  <1>. QED
    BY <1>1, <1>2, <1>3, <1>4, <1>5, <1>6, <1>7, <1>8, <1>9, <1>10, <1>11
       DEF IsPlanned, IsInitializer

\* The running transaction: its outcome so far and the accounts.
IsRunning(s) == DOMAIN s = {"ok", "chain"} /\ ChainOK(s.chain)

LEMMA ExecuteOK ==
  ASSUME NEW goal, NEW s, IsRunning(s), NEW ix, IsPlanned(ix, goal)
  PROVE  IsRunning(Execute(s, ix))
  <1>1. CASE ~s.ok \/ (ix.wrapped /\ Initialized(s.chain, ix))
    BY <1>1, Zenon DEF Execute
  <1>2. CASE ~(~s.ok \/ (ix.wrapped /\ Initialized(s.chain, ix))) /\ ~Accepts(s.chain, ix)
    <2>1. Execute(s, ix) = [s EXCEPT !.ok = FALSE]
      BY <1>2, Zenon DEF Execute
    <2>2. \A v : DOMAIN [s EXCEPT !.ok = v] = {"ok", "chain"} /\ [s EXCEPT !.ok = v].chain = s.chain
      BY DEF IsRunning
    <2>. QED BY <2>1, <2>2, Zenon DEF IsRunning
  <1>3. CASE ~(~s.ok \/ (ix.wrapped /\ Initialized(s.chain, ix))) /\ Accepts(s.chain, ix)
    <2>1. Execute(s, ix) = [s EXCEPT !.chain = Effect(s.chain, ix)]
      BY <1>3, Zenon DEF Execute
    <2>2. ChainOK(Effect(s.chain, ix))
      BY <1>3, EffectOK, Zenon DEF IsRunning
    <2>3. \A v : DOMAIN [s EXCEPT !.chain = v] = {"ok", "chain"} /\ [s EXCEPT !.chain = v].chain = v
      BY DEF IsRunning
    <2>. QED BY <2>1, <2>2, <2>3, Zenon DEF IsRunning
  <1>. QED BY <1>1, <1>2, <1>3, Zenon

\* What a plan consists of: sequences of such instructions.
IsIxs(s, goal) == IsSeq(s) /\ \A ix \in ToSet(s) : IsPlanned(ix, goal)
IsPlans(ps, goal) == IsSeq(ps) /\ \A s \in ToSet(ps) : IsIxs(s, goal)
IsSetup(s) == IsSeq(s) /\ \A ix \in ToSet(s) : IsInitializer(ix)

LEMMA TransactionIsDefined ==
  ASSUME NEW ixs, Len(ixs) \in Nat
  PROVE  \E g : /\ g = [i \in 0 .. Len(ixs) |->
                            IF i = 0 THEN [ok |-> TRUE, chain |-> chain]
                            ELSE Execute(g[i - 1], ixs[i])]
                /\ Transaction(ixs) = g[Len(ixs)]
  <1>. DEFINE s == [ok |-> TRUE, chain |-> chain]
              Def(g, n) == g = [i \in 0 .. n |-> IF i = 0 THEN s ELSE Execute(g[i - 1], ixs[i])]
              S == {n \in Nat : \E g : Def(g, n)}
  <1>1. Transaction(ixs) = (CHOOSE g : Def(g, Len(ixs)))[Len(ixs)]
    BY Zenon DEF Transaction
  <1>. HIDE DEF s
  <1>2. 0 \in S
    <2>1. Def([i \in 0 .. 0 |-> s], 0)
      OBVIOUS
    <2>. QED BY <2>1
  <1>3. ASSUME NEW n \in Nat, n \in S
        PROVE  n + 1 \in S
    <2>1. PICK g : Def(g, n)
      BY <1>3
    <2>. DEFINE h == [i \in 0 .. n + 1 |-> IF i = n + 1 THEN Execute(g[n], ixs[n + 1]) ELSE g[i]]
    <2>2. \A i \in 0 .. n : h[i] = g[i]
      OBVIOUS
    <2>3. \A i \in 0 .. n + 1 : h[i] = IF i = 0 THEN s ELSE Execute(h[i - 1], ixs[i])
      <3>1. TAKE i \in 0 .. n + 1
      <3>2. CASE i = n + 1
        <4>1. h[i] = Execute(g[n], ixs[n + 1])
          BY <3>2
        <4>2. h[i - 1] = g[n] /\ i # 0
          BY <2>2, <3>2
        <4>. HIDE DEF h
        <4>. QED BY <4>1, <4>2, <3>2
      <3>3. CASE i \in 0 .. n
        <4>1. h[i] = g[i] /\ (i # 0 => h[i - 1] = g[i - 1])
          BY <2>2, <3>3
        <4>. HIDE DEF h
        <4>2. g[i] = IF i = 0 THEN s ELSE Execute(g[i - 1], ixs[i])
          BY <2>1, <3>3
        <4>. QED BY <4>1, <4>2
      <3>. QED BY <3>2, <3>3
    <2>4. DOMAIN h = 0 .. n + 1 /\ h = [i \in DOMAIN h |-> h[i]]
      OBVIOUS
    <2>5. Def(h, n + 1)
      <3>. HIDE DEF h
      <3>. QED BY <2>3, <2>4
    <2>6. n + 1 \in Nat
      OBVIOUS
    <2>. HIDE DEF Def, h
    <2>. QED BY <2>5, <2>6, Zenon
  <1>4. Nat \subseteq S
    <2>. HIDE DEF S
    <2>. QED BY <1>2, <1>3, SetInduction
  <1>5. \E g : Def(g, Len(ixs))
    BY <1>4
  <1>6. Def(CHOOSE g : Def(g, Len(ixs)), Len(ixs))
    <2>. HIDE DEF Def
    <2>. QED BY <1>5, Zenon
  <1>. QED BY <1>1, <1>6, Zenon DEF s

LEMMA TransactionOK ==
  ASSUME NEW goal, NEW ixs, IsIxs(ixs, goal), ChainOK(chain)
  PROVE  ChainOK(Transaction(ixs).chain)
  <1>. DEFINE N == Len(ixs)
  <1>1. /\ N \in Nat /\ \A i \in 1 .. N : IsPlanned(ixs[i], goal)
    BY SeqFacts DEF IsIxs
  <1>2. PICK g : /\ g = [i \in 0 .. N |-> IF i = 0 THEN [ok |-> TRUE, chain |-> chain]
                                           ELSE Execute(g[i - 1], ixs[i])]
                 /\ Transaction(ixs) = g[N]
    BY <1>1, TransactionIsDefined
  <1>. HIDE DEF N
  <1>3. IsRunning([ok |-> TRUE, chain |-> chain])
    BY DEF IsRunning
  <1>4. /\ IsRunning(g[0])
        /\ \A i \in 1 .. N : g[i] = Execute(g[i - 1], ixs[i])
    <2>. DEFINE s == [ok |-> TRUE, chain |-> chain]
    <2>1. IsRunning(s) /\ g = [i \in 0 .. N |-> IF i = 0 THEN s ELSE Execute(g[i - 1], ixs[i])]
      BY <1>2, <1>3, Zenon
    <2>. HIDE DEF s
    <2>. QED BY <1>1, <2>1
  <1>. DEFINE S == {n \in Nat : n <= N => IsRunning(g[n])}
  <1>5. 0 \in S
    BY <1>4
  <1>6. ASSUME NEW n \in Nat, n \in S
        PROVE  n + 1 \in S
    <2>. SUFFICES ASSUME n + 1 <= N
                  PROVE  IsRunning(g[n + 1])
      OBVIOUS
    <2>1. n + 1 \in 1 .. N /\ IsRunning(g[n])
      BY <1>6, <1>1
    <2>2. g[n + 1] = Execute(g[n], ixs[n + 1])
      BY <1>4, <2>1
    <2>. QED BY <1>1, <2>1, <2>2, ExecuteOK
  <1>7. Nat \subseteq S
    <2>. HIDE DEF S
    <2>. QED BY <1>5, <1>6, SetInduction
  <1>8. IsRunning(g[N])
    BY <1>7, <1>1
  <1>. QED BY <1>2, <1>8, Zenon DEF IsRunning

-----------------------------------------------------------------------------
(* Plans.                                                                  *)

LEMMA IxsEmpty ==
  ASSUME NEW goal
  PROVE  IsIxs(<< >>, goal)
  BY SeqEmpty, Zenon DEF IsIxs

LEMMA IxsOne ==
  ASSUME NEW goal, NEW ix, IsPlanned(ix, goal)
  PROVE  IsIxs(<<ix>>, goal)
  BY SeqOne, Zenon DEF IsIxs

LEMMA IxsConcat ==
  ASSUME NEW goal, NEW s, NEW t, IsIxs(s, goal), IsIxs(t, goal)
  PROVE  IsIxs(s \o t, goal)
  <1>1. IsSeq(s) /\ IsSeq(t) /\ \A ix : ix \in ToSet(s) \/ ix \in ToSet(t) => IsPlanned(ix, goal)
    BY Zenon DEF IsIxs
  <1>2. IsSeq(s \o t) /\ \A x \in ToSet(s \o t) : x \in ToSet(s) \/ x \in ToSet(t)
    BY <1>1, SeqConcat
  <1>. DEFINE st == s \o t
  <1>3. IsSeq(st) /\ \A ix \in ToSet(st) : IsPlanned(ix, goal)
    BY <1>1, <1>2
  <1>. QED BY <1>3 DEF IsIxs

LEMMA SetupConcat ==
  ASSUME NEW s, NEW t, IsSetup(s), IsSetup(t)
  PROVE  IsSetup(s \o t)
  <1>1. IsSeq(s) /\ IsSeq(t) /\ \A ix : ix \in ToSet(s) \/ ix \in ToSet(t) => IsInitializer(ix)
    BY Zenon DEF IsSetup
  <1>2. IsSeq(s \o t) /\ \A x \in ToSet(s \o t) : x \in ToSet(s) \/ x \in ToSet(t)
    BY <1>1, SeqConcat
  <1>. DEFINE st == s \o t
  <1>3. IsSeq(st) /\ \A ix \in ToSet(st) : IsInitializer(ix)
    BY <1>1, <1>2
  <1>. QED BY <1>3 DEF IsSetup

LEMMA SetupIsPlanned ==
  ASSUME NEW goal, NEW s, IsSetup(s)
  PROVE  IsIxs(s, goal)
  BY Zenon DEF IsSetup, IsIxs, IsPlanned

LEMMA IxsFlatten ==
  ASSUME NEW goal, NEW ps, IsPlans(ps, goal)
  PROVE  IsIxs(FlattenSeq(ps), goal)
  <1>1. IsSeq(ps) /\ (\A s \in ToSet(ps) : IsSeq(s))
        /\ \A s \in ToSet(ps) : \A ix \in ToSet(s) : IsPlanned(ix, goal)
    BY Zenon DEF IsPlans, IsIxs
  <1>2. /\ IsSeq(FlattenSeq(ps))
        /\ \A x \in ToSet(FlattenSeq(ps)) : \E s \in ToSet(ps) : x \in ToSet(s)
    BY <1>1, SeqFlatten, Zenon
  <1>. QED BY <1>1, <1>2, Zenon DEF IsIxs

LEMMA PlansEmpty ==
  ASSUME NEW goal
  PROVE  IsPlans(<< >>, goal)
  BY SeqEmpty, Zenon DEF IsPlans

LEMMA PlansOne ==
  ASSUME NEW goal, NEW s, IsIxs(s, goal)
  PROVE  IsPlans(<<s>>, goal)
  BY SeqOne, Zenon DEF IsPlans

LEMMA PlansConcat ==
  ASSUME NEW goal, NEW s, NEW t, IsPlans(s, goal), IsPlans(t, goal)
  PROVE  IsPlans(s \o t, goal)
  <1>1. IsSeq(s) /\ IsSeq(t) /\ \A x : x \in ToSet(s) \/ x \in ToSet(t) => IsIxs(x, goal)
    BY Zenon DEF IsPlans
  <1>2. IsSeq(s \o t) /\ \A x \in ToSet(s \o t) : x \in ToSet(s) \/ x \in ToSet(t)
    BY <1>1, SeqConcat
  <1>. DEFINE st == s \o t
  <1>3. IsSeq(st) /\ \A x \in ToSet(st) : IsIxs(x, goal)
    BY <1>1, <1>2
  <1>. QED BY <1>3 DEF IsPlans

\* A sequence built from one of plans for each element.
LEMMA PlansOver ==
  ASSUME NEW goal, NEW n \in Nat, NEW f, DOMAIN f = 1 .. n, f = [i \in 1 .. n |-> f[i]],
         \A i \in 1 .. n : IsPlans(f[i], goal)
  PROVE  IsPlans(FlattenSeq(f), goal)
  <1>1. IsSeq(f) /\ \A x \in ToSet(f) : \E i \in 1 .. n : x = f[i]
    BY SeqFrom
  <1>2. \A x \in ToSet(f) : IsPlans(x, goal)
    BY <1>1, Zenon
  <1>3. /\ (\A x \in ToSet(f) : IsSeq(x))
        /\ \A x \in ToSet(f) : \A s \in ToSet(x) : IsIxs(s, goal)
    BY <1>2, Zenon DEF IsPlans
  <1>4. /\ IsSeq(FlattenSeq(f))
        /\ \A s \in ToSet(FlattenSeq(f)) : \E x \in ToSet(f) : s \in ToSet(x)
    BY <1>1, <1>3, SeqFlatten, Zenon
  <1>. QED BY <1>3, <1>4, Zenon DEF IsPlans

LEMMA ProposedOK ==
  ASSUME NEW goal, NEW ixs, IsIxs(ixs, goal)
  PROVE  IsPlans(Proposed(ixs), goal)
  <1>1. CASE Direct
    <2>. DEFINE n == Len(ixs)
                f == [i \in DOMAIN ixs |-> <<ixs[i]>>]
    <2>1. n \in Nat /\ DOMAIN ixs = 1 .. n /\ \A i \in 1 .. n : IsPlanned(ixs[i], goal)
      BY SeqFacts DEF IsIxs
    <2>2. Proposed(ixs) = f
      BY <1>1, Zenon DEF Proposed
    <2>3. DOMAIN f = 1 .. n /\ f = [i \in 1 .. n |-> f[i]] /\ \A i \in 1 .. n : f[i] = <<ixs[i]>>
      BY <2>1
    <2>4. \A i \in 1 .. n : IsIxs(<<ixs[i]>>, goal)
      BY <2>1, IxsOne, Zenon
    <2>. HIDE DEF f, n
    <2>5. IsSeq(f) /\ \A x \in ToSet(f) : \E i \in 1 .. n : x = f[i]
      BY <2>1, <2>3, SeqFrom
    <2>6. \A x \in ToSet(f) : IsIxs(x, goal)
      BY <2>3, <2>4, <2>5, Zenon
    <2>. QED BY <2>2, <2>5, <2>6, Zenon DEF IsPlans
  <1>2. CASE ~Direct /\ ixs = << >>
    <2>1. Proposed(ixs) = << >>
      BY <1>2, Zenon DEF Proposed
    <2>. QED BY <2>1, PlansEmpty, Zenon
  <1>3. CASE ~Direct /\ ixs # << >>
    <2>1. Proposed(ixs) = <<ixs>>
      BY <1>3, Zenon DEF Proposed
    <2>. QED BY <2>1, PlansOne, Zenon
  <1>. QED BY <1>1, <1>2, <1>3, Zenon

\* What propose makes of nothing or of one instruction.
LEMMA ProposedMaybe ==
  ASSUME NEW goal, NEW ix, IsPlanned(ix, goal)
  PROVE  IsPlans(Proposed(<<ix>>), goal)
  BY IxsOne, ProposedOK, Zenon

LEMMA MarkedField ==
  ASSUME NEW ix, NEW wrapped, NEW field \in DOMAIN ix, field # "wrapped"
  PROVE  Marked(ix, wrapped)[field] = ix[field]
  BY DEF Marked

LEMMA InitializersPlanned ==
  ASSUME NEW w
  PROVE  /\ IsInitializer(Marked([op |-> "create_governor_id"], w))
         /\ \A m \in Mint, o \in {"token_create", "token_init_native"} :
                IsInitializer(Marked([op |-> o, mint |-> m], w))
         /\ \A a, goal : IsPlanned(Marked([op |-> "configure_adapter", adapter |-> a], w), goal)
  <1>1. Marked([op |-> "create_governor_id"], w).op = "create_governor_id"
    BY MarkedField
  <1>2. \A m, o : LET ix == Marked([op |-> o, mint |-> m], w)
                  IN  ix.op = o /\ ix.mint = m
    BY MarkedField
  <1>3. \A a : Marked([op |-> "configure_adapter", adapter |-> a], w).op = "configure_adapter"
    BY MarkedField
  <1>4. ASSUME NEW m \in Mint, NEW o \in {"token_create", "token_init_native"}
        PROVE  IsInitializer(Marked([op |-> o, mint |-> m], w))
    <2>. DEFINE ix == Marked([op |-> o, mint |-> m], w)
    <2>1. ix.op = o /\ ix.mint = m
      BY <1>2, Zenon
    <2>. HIDE DEF ix
    <2>2. IsInitializer(ix)
      BY <2>1 DEF IsInitializer
    <2>. QED BY <2>2, Zenon DEF ix
  <1>. QED BY <1>1, <1>3, <1>4, Zenon DEF IsPlanned, IsInitializer

LEMMA PlainPlanned ==
  ASSUME NEW goal
  PROVE  /\ IsPlanned(Plain([op |-> "create_airspace"]), goal)
         /\ \A m : IsPlanned(Plain([op |-> "migrate_token_config", mint |-> m]), goal)
         /\ \A m, u : IsUpdate(m, u, goal) => IsPlanned(ConfigureTokenIx(m, u), goal)
  <1>1. Marked([op |-> "create_airspace"], FALSE).op = "create_airspace"
    BY MarkedField
  <1>2. \A m : Marked([op |-> "migrate_token_config", mint |-> m], FALSE).op
                    = "migrate_token_config"
    BY MarkedField
  <1>3. \A m, u : LET ix == Marked([op |-> "configure_token", mint |-> m, update |-> u], FALSE)
                  IN  ix.op = "configure_token" /\ ix.mint = m /\ ix.update = u
    BY MarkedField
  <1>4. IsPlanned(Plain([op |-> "create_airspace"]), goal)
    BY <1>1, Zenon DEF IsPlanned, Plain
  <1>5. ASSUME NEW m
        PROVE  IsPlanned(Plain([op |-> "migrate_token_config", mint |-> m]), goal)
    BY <1>2, Zenon DEF IsPlanned, Plain
  <1>6. ASSUME NEW m, NEW u, IsUpdate(m, u, goal)
        PROVE  IsPlanned(ConfigureTokenIx(m, u), goal)
    <2>. DEFINE ix == ConfigureTokenIx(m, u)
    <2>1. ix.op = "configure_token" /\ ix.mint = m /\ ix.update = u
      BY <1>3, Zenon DEF ConfigureTokenIx, Plain
    <2>. HIDE DEF ix
    <2>2. IsPlanned(ix, goal)
      BY <1>6, <2>1, Zenon DEF IsPlanned
    <2>. QED BY <2>2, Zenon DEF ix
  <1>. QED BY <1>4, <1>5, <1>6, Zenon

LEMMA PoolPlanned ==
  ASSUME NEW goal, NEW desc \in Pooled(goal)
  PROVE  /\ IsPlanned(Plain([op |-> "create_pool", token |-> desc.token]), goal)
         /\ IsPlanned(Plain([op |-> "configure_pool", token |-> desc.token, desc |-> desc]), goal)
  <1>1. \A t : LET ix == Marked([op |-> "create_pool", token |-> t], FALSE)
               IN  ix.op = "create_pool" /\ ix.token = t
    BY MarkedField
  <1>2. \A t, d : LET ix == Marked([op |-> "configure_pool", token |-> t, desc |-> d], FALSE)
                  IN  ix.op = "configure_pool" /\ ix.token = t /\ ix.desc = d
    BY MarkedField
  <1>. DEFINE ix == Plain([op |-> "create_pool", token |-> desc.token])
              iy == Plain([op |-> "configure_pool", token |-> desc.token, desc |-> desc])
  <1>3. /\ ix.op = "create_pool" /\ ix.token = desc.token
        /\ iy.op = "configure_pool" /\ iy.token = desc.token /\ iy.desc = desc
    BY <1>1, <1>2, Zenon DEF Plain
  <1>. HIDE DEF ix, iy
  <1>4. IsPlanned(ix, goal)
    BY <1>3, Zenon DEF IsPlanned
  <1>5. iy.desc \in Pooled(goal) /\ iy.token = iy.desc.token
    BY <1>3, Zenon
  <1>6. IsPlanned(iy, goal)
    BY <1>3, <1>5, Zenon DEF IsPlanned
  <1>. QED BY <1>4, <1>6, Zenon DEF ix, iy

LEMMA PermitPlanned ==
  ASSUME NEW goal, NEW k, NEW flag \in Permission \ {"OPERATE_VAULTS"}
  PROVE  IsPlanned(Plain([op |-> "configure_permit", crank |-> k, flag |-> flag,
                          enable |-> flag \in Wanted(goal, k)]), goal)
  <1>1. \A enable : LET ix == Marked([op |-> "configure_permit", crank |-> k, flag |-> flag,
                                      enable |-> enable], FALSE)
                    IN  /\ ix.op = "configure_permit" /\ ix.crank = k
                        /\ ix.flag = flag /\ ix.enable = enable
    BY MarkedField
  <1>. DEFINE ix == Plain([op |-> "configure_permit", crank |-> k, flag |-> flag,
                           enable |-> flag \in Wanted(goal, k)])
  <1>2. /\ ix.op = "configure_permit" /\ ix.crank = k /\ ix.flag = flag
        /\ ix.enable = (flag \in Wanted(goal, k))
    BY <1>1, Zenon DEF Plain
  <1>. HIDE DEF ix
  <1>3. ix.enable = (ix.flag \in Wanted(goal, ix.crank))
    BY <1>2, Zenon
  <1>4. IsPlanned(ix, goal)
    BY <1>2, <1>3, Zenon DEF IsPlanned
  <1>. QED BY <1>4, Zenon DEF ix

LEMMA SetEntryFields ==
  ASSUME NEW m, NEW data
  PROVE  LET ix == Plain([op |-> "set_entry", mint |-> m, data |-> data])
         IN  ix.op = "set_entry" /\ ix.mint = m /\ ix.data = data
  <1>1. LET ix == Marked([op |-> "set_entry", mint |-> m, data |-> data], FALSE)
        IN  ix.op = "set_entry" /\ ix.mint = m /\ ix.data = data
    BY MarkedField
  <1>. QED BY <1>1, Zenon DEF Plain

LEMMA SetEntryPlanned ==
  ASSUME NEW goal, NEW m, NEW data, m[2] # "mint", data.exists
  PROVE  IsPlanned(Plain([op |-> "set_entry", mint |-> m, data |-> data]), goal)
  <1>. DEFINE ix == Plain([op |-> "set_entry", mint |-> m, data |-> data])
  <1>1. ix.op = "set_entry" /\ ix.mint = m /\ ix.data = data
    BY SetEntryFields
  <1>. HIDE DEF ix
  <1>2. ix.data.exists /\ ix.mint[2] # "mint"
    BY <1>1, Zenon
  <1>3. IsPlanned(ix, goal)
    BY <1>1, <1>2, Zenon DEF IsPlanned
  <1>. QED BY <1>3, Zenon DEF ix

LEMMA FilterOK ==
  ASSUME NEW ixs, NEW n \in Nat, DOMAIN ixs = 1 .. n
  PROVE  /\ IsSeq(FilterInitializers(ixs))
         /\ \A x \in ToSet(FilterInitializers(ixs)) :
                \E i \in 1 .. n : x = Marked(ixs[i], Localnet)
  <1>. DEFINE f == [i \in DOMAIN ixs |->
                        IF Initialized(chain, ixs[i]) THEN <<>> ELSE <<Marked(ixs[i], Localnet)>>]
              Of(x) == \E i \in 1 .. n : x = Marked(ixs[i], Localnet)
  <1>1. FilterInitializers(ixs) = FlattenSeq(f)
    BY Zenon DEF FilterInitializers
  <1>2. DOMAIN f = 1 .. n /\ f = [i \in 1 .. n |-> f[i]]
    OBVIOUS
  <1>3. ASSUME NEW i \in 1 .. n
        PROVE  IsSeq(f[i]) /\ \A x \in ToSet(f[i]) : Of(x)
    <2>. DEFINE ix == Marked(ixs[i], Localnet)
    <2>1. f[i] = << >> \/ f[i] = <<ix>>
      BY Zenon
    <2>2. Of(ix)
      BY Zenon
    <2>. HIDE DEF f, ix, Of
    <2>. QED BY <2>1, <2>2, SeqEmpty, SeqOne, Zenon
  <1>. HIDE DEF f, Of
  <1>4. IsSeq(f) /\ \A s \in ToSet(f) : \E i \in 1 .. n : s = f[i]
    BY <1>2, SeqFrom
  <1>5. \A s \in ToSet(f) : IsSeq(s) /\ \A x \in ToSet(s) : Of(x)
    BY <1>3, <1>4, Zenon
  <1>6. /\ IsSeq(FlattenSeq(f))
        /\ \A x \in ToSet(FlattenSeq(f)) : \E s \in ToSet(f) : x \in ToSet(s)
    BY <1>4, <1>5, SeqFlatten, Zenon
  <1>7. \A x \in ToSet(FlattenSeq(f)) : Of(x)
    BY <1>5, <1>6, Zenon
  <1>. QED BY <1>1, <1>6, <1>7, Zenon DEF Of

\* A description, as ScenarioAssumption has it.
IsGoal(goal) ==
    /\ IsFiniteSet(goal.adapters) /\ IsFiniteSet(DOMAIN goal.cranks)
    /\ IsSeq(goal.tokens) /\ \A desc \in ToSet(goal.tokens) : desc.token \in Token

LEMMA GoalTokens ==
  ASSUME NEW goal, IsGoal(goal)
  PROVE  /\ Len(goal.tokens) \in Nat /\ DOMAIN goal.tokens = 1 .. Len(goal.tokens)
         /\ \A i \in 1 .. Len(goal.tokens) :
                goal.tokens[i] \in ToSet(goal.tokens) /\ goal.tokens[i].token \in Token
  BY SeqFacts DEF IsGoal

LEMMA GovernorOK == IsSetup(PlanGovernor)
  <1>. DEFINE ix == [op |-> "create_governor_id"]
              ixs == <<ix>>
  <1>1. IsInitializer(Marked(ix, Localnet))
    BY InitializersPlanned, Zenon
  <1>. HIDE DEF ix
  <1>2. DOMAIN ixs = 1 .. 1 /\ 1 \in Nat /\ \A i \in 1 .. 1 : ixs[i] = ix
    OBVIOUS
  <1>. HIDE DEF ixs
  <1>3. /\ IsSeq(FilterInitializers(ixs))
        /\ \A x \in ToSet(FilterInitializers(ixs)) : \E i \in 1 .. 1 : x = Marked(ixs[i], Localnet)
    BY <1>2, FilterOK
  <1>4. IsSetup(FilterInitializers(ixs))
    BY <1>1, <1>2, <1>3, Zenon DEF IsSetup
  <1>. QED BY <1>4, Zenon DEF PlanGovernor, ix, ixs

LEMMA AirspaceOK ==
  ASSUME NEW goal
  PROVE  IsPlans(PlanAirspace, goal)
  <1>. DEFINE ix == Plain([op |-> "create_airspace"])
  <1>1. IsPlans(Proposed(<<ix>>), goal)
    BY PlainPlanned, ProposedMaybe, Zenon
  <1>. HIDE DEF ix
  <1>2. PlanAirspace = << >> \/ PlanAirspace = Proposed(<<ix>>)
    BY Zenon DEF PlanAirspace, ix
  <1>. QED BY <1>1, <1>2, PlansEmpty, Zenon

LEMMA TestTokensOK ==
  ASSUME NEW goal, IsGoal(goal)
  PROVE  IsSetup(PlanTestTokens(goal))
  <1>. DEFINE n == Len(goal.tokens)
              f == [i \in DOMAIN goal.tokens |->
                        IF goal.tokens[i].hasMint THEN <<>>
                        ELSE <<TestTokenIx(goal.tokens[i])>>]
              Mintable(ix) == \E m \in Mint, o \in {"token_create", "token_init_native"} :
                                    ix = [op |-> o, mint |-> m]
              ixs == FlattenSeq(f)
  <1>1. n \in Nat /\ DOMAIN goal.tokens = 1 .. n /\ \A i \in 1 .. n : goal.tokens[i].token \in Token
    BY GoalTokens
  <1>2. DOMAIN f = 1 .. n /\ f = [i \in 1 .. n |-> f[i]]
    BY <1>1
  <1>3. ASSUME NEW i \in 1 .. n
        PROVE  IsSeq(f[i]) /\ \A ix \in ToSet(f[i]) : Mintable(ix)
    <2>. DEFINE m == MintOf(goal.tokens[i].token)
                ix == TestTokenIx(goal.tokens[i])
    <2>1. m \in Mint
      BY <1>1, MintsOf
    <2>2. Mintable(ix)
      BY <2>1 DEF TestTokenIx
    <2>3. f[i] = << >> \/ f[i] = <<ix>>
      BY <1>1
    <2>. HIDE DEF f, ix, Mintable
    <2>. QED BY <2>2, <2>3, SeqEmpty, SeqOne, Zenon
  <1>. HIDE DEF f, Mintable
  <1>4. IsSeq(f) /\ \A x \in ToSet(f) : \E i \in 1 .. n : x = f[i]
    BY <1>1, <1>2, SeqFrom
  <1>5. \A x \in ToSet(f) : IsSeq(x) /\ \A ix \in ToSet(x) : Mintable(ix)
    BY <1>3, <1>4, Zenon
  <1>6. IsSeq(ixs) /\ \A ix \in ToSet(ixs) : \E x \in ToSet(f) : ix \in ToSet(x)
    BY <1>4, <1>5, SeqFlatten, Zenon
  <1>7. \A ix \in ToSet(ixs) : Mintable(ix)
    BY <1>5, <1>6, Zenon
  <1>. HIDE DEF ixs
  <1>8. \A ix \in ToSet(ixs) : IsInitializer(Marked(ix, Localnet))
    BY <1>7, InitializersPlanned, Zenon DEF Mintable
  <1>9. /\ Len(ixs) \in Nat /\ DOMAIN ixs = 1 .. Len(ixs)
        /\ \A i \in 1 .. Len(ixs) : ixs[i] \in ToSet(ixs)
    BY <1>6, SeqFacts
  <1>10. IsSetup(FilterInitializers(ixs))
    <2>. DEFINE N == Len(ixs)
    <2>. HIDE DEF N
    <2>1. /\ IsSeq(FilterInitializers(ixs))
          /\ \A x \in ToSet(FilterInitializers(ixs)) : \E i \in 1 .. N : x = Marked(ixs[i], Localnet)
      BY <1>9, FilterOK DEF N
    <2>. QED BY <1>8, <1>9, <2>1, Zenon DEF IsSetup, N
  <1>11. PlanTestTokens(goal) = << >> \/ PlanTestTokens(goal) = FilterInitializers(ixs)
    BY Zenon DEF PlanTestTokens, ixs, f
  <1>. QED BY <1>10, <1>11, SeqEmpty, Zenon DEF IsSetup

LEMMA AdapterSetOK ==
  ASSUME NEW goal, IsGoal(goal)
  PROVE  IsPlans(PlanAdapters(goal), goal)
  <1>. DEFINE S == goal.adapters \cup {PoolAdapter}
              n == Cardinality(S)
              adapters == SetToSeq(S)
              ixs == [i \in DOMAIN adapters |-> [op |-> "configure_adapter", adapter |-> adapters[i]]]
  <1>1. IsFiniteSet(S)
    BY FS_Singleton, FS_Union, Zenon DEF IsGoal
  <1>2. n \in Nat /\ DOMAIN adapters = 1 .. n
    <2>. HIDE DEF S
    <2>. QED BY <1>1, SetToSeqOf
  <1>. HIDE DEF adapters, n
  <1>3. /\ DOMAIN ixs = 1 .. n
        /\ \A i \in 1 .. n : ixs[i] = [op |-> "configure_adapter", adapter |-> adapters[i]]
    BY <1>2
  <1>. HIDE DEF ixs
  <1>4. \A i \in 1 .. n : IsPlanned(Marked(ixs[i], Localnet), goal)
    BY <1>3, InitializersPlanned, Zenon
  <1>5. IsIxs(FilterInitializers(ixs), goal)
    <2>1. /\ IsSeq(FilterInitializers(ixs))
          /\ \A x \in ToSet(FilterInitializers(ixs)) : \E i \in 1 .. n : x = Marked(ixs[i], Localnet)
      BY <1>2, <1>3, FilterOK
    <2>. QED BY <1>4, <2>1, Zenon DEF IsIxs
  <1>6. IsPlans(Proposed(FilterInitializers(ixs)), goal)
    BY <1>5, ProposedOK, Zenon
  <1>. QED BY <1>6, Zenon DEF PlanAdapters, ixs, adapters, S

LEMMA PermitChangesOK ==
  ASSUME NEW goal, NEW k
  PROVE  IsPlans(Proposed(PermitChanges(goal, k)), goal)
  <1>1. ASSUME NEW flag \in Permission \ {"OPERATE_VAULTS"}
        PROVE  IsIxs(PermitChange(goal, k, flag), goal)
    <2>. DEFINE ix == Plain([op |-> "configure_permit", crank |-> k, flag |-> flag,
                             enable |-> flag \in Wanted(goal, k)])
    <2>1. IsIxs(<<ix>>, goal)
      BY PermitPlanned, IxsOne, Zenon
    <2>. HIDE DEF ix
    <2>2. PermitChange(goal, k, flag) = << >> \/ PermitChange(goal, k, flag) = <<ix>>
      BY Zenon DEF PermitChange, ix
    <2>. QED BY <2>1, <2>2, IxsEmpty, Zenon
  <1>. DEFINE s == PermitChange(goal, k, "LIQUIDATE")
              t == PermitChange(goal, k, "REFRESH_POSITION_CONFIG")
  <1>2. IsIxs(s, goal) /\ IsIxs(t, goal)
    BY <1>1 DEF Permission
  <1>3. PermitChanges(goal, k) = s \o t
    BY Zenon DEF PermitChanges
  <1>. HIDE DEF s, t
  <1>4. IsIxs(s \o t, goal)
    BY <1>2, IxsConcat
  <1>. QED BY <1>3, <1>4, ProposedOK

LEMMA PermitsOK ==
  ASSUME NEW goal, IsGoal(goal)
  PROVE  IsPlans(PlanPermits(goal), goal)
  <1>. DEFINE S == DOMAIN goal.cranks
              R == Crank \ DOMAIN goal.cranks
              s == SetToSeq(S)
              t == SetToSeq(R)
              cranks == s \o t
              n == Cardinality(S) + Cardinality(R)
              f == [i \in DOMAIN cranks |-> Proposed(PermitChanges(goal, cranks[i]))]
  <1>1. IsFiniteSet(S) /\ IsFiniteSet(R)
    BY ScenarioAssumption, FS_Difference, Zenon DEF IsGoal
  <1>2. /\ Cardinality(S) \in Nat /\ s \in [1 .. Cardinality(S) -> S]
        /\ Cardinality(R) \in Nat /\ t \in [1 .. Cardinality(R) -> R]
    <2>. HIDE DEF S, R
    <2>. QED BY <1>1, SetToSeqOf
  <1>3. s \in Seq(S) /\ t \in Seq(R) /\ Len(s) = Cardinality(S) /\ Len(t) = Cardinality(R)
    <2>. HIDE DEF S, R, s, t
    <2>. QED BY <1>2
  <1>4. n \in Nat /\ DOMAIN cranks = 1 .. n
    <2>. HIDE DEF S, R, s, t
    <2>1. s \in Seq(S \cup R) /\ t \in Seq(S \cup R)
      BY <1>3
    <2>. QED BY <1>2, <1>3, <2>1
  <1>. HIDE DEF cranks, n
  <1>5. /\ DOMAIN f = 1 .. n /\ f = [i \in 1 .. n |-> f[i]]
        /\ \A i \in 1 .. n : f[i] = Proposed(PermitChanges(goal, cranks[i]))
    BY <1>4
  <1>. HIDE DEF f
  <1>6. \A i \in 1 .. n : IsPlans(f[i], goal)
    BY <1>5, PermitChangesOK, Zenon
  <1>7. IsPlans(FlattenSeq(f), goal)
    BY <1>4, <1>5, <1>6, PlansOver
  <1>8. PlanPermits(goal) = << >> \/ PlanPermits(goal) = FlattenSeq(f)
    BY Zenon DEF PlanPermits, f, cranks, s, t, S, R
  <1>. QED BY <1>7, <1>8, PlansEmpty, Zenon

LEMMA MigrationsOK ==
  ASSUME NEW goal, NEW m
  PROVE  IsPlans(Migrations(m), goal)
  <1>. DEFINE ix == Plain([op |-> "migrate_token_config", mint |-> m])
  <1>1. IsPlans(Proposed(<<ix>>), goal)
    BY PlainPlanned, ProposedMaybe, Zenon
  <1>. HIDE DEF ix
  <1>2. Migrations(m) = << >> \/ Migrations(m) = Proposed(<<ix>>)
    BY Zenon DEF Migrations, ix
  <1>. QED BY <1>1, <1>2, PlansEmpty, Zenon

LEMMA MarginTokenOK ==
  ASSUME NEW goal, NEW desc \in ToSet(goal.tokens)
  PROVE  IsPlans(PlanMarginToken(desc), goal)
  <1>. DEFINE m == MintOf(desc.token)
              ix == ConfigureTokenIx(m, MarginUpdate(desc))
              s == Migrations(m)
              t == IF ConfigEquals(UpgradedConfig(m), MarginUpdate(desc)) THEN <<>>
                   ELSE Proposed(<<ix>>)
  <1>1. IsPlans(s, goal)
    BY MigrationsOK, Zenon
  <1>2. IsPlans(Proposed(<<ix>>), goal)
    <2>1. IsUpdate(m, MarginUpdate(desc), goal)
      BY Zenon DEF IsUpdate
    <2>. QED BY <2>1, PlainPlanned, ProposedMaybe, Zenon
  <1>3. IsPlans(t, goal)
    BY <1>2, PlansEmpty, Zenon
  <1>4. PlanMarginToken(desc) = s \o t
    BY Zenon DEF PlanMarginToken
  <1>. HIDE DEF s, t
  <1>. QED BY <1>1, <1>3, <1>4, PlansConcat

LEMMA EntryMigrationsOK ==
  ASSUME NEW goal, NEW m, m[2] # "mint", chain.entry[m].exists
  PROVE  IsPlans(EntryMigrations(m), goal)
  <1>. DEFINE data == UpgradedEntry(m)
              ix == Plain([op |-> "set_entry", mint |-> m, data |-> data])
  <1>1. data.exists
    BY DEF UpgradedEntry, MetadataEntry
  <1>. HIDE DEF data
  <1>2. IsPlans(Proposed(<<ix>>), goal)
    BY <1>1, SetEntryPlanned, ProposedMaybe, Zenon
  <1>. HIDE DEF ix
  <1>3. EntryMigrations(m) = << >> \/ EntryMigrations(m) = Proposed(<<ix>>)
    BY Zenon DEF EntryMigrations, ix, data
  <1>. QED BY <1>2, <1>3, PlansEmpty, Zenon

LEMMA NoteUpdateOK ==
  ASSUME NEW goal, NEW m, NEW u, IsUpdate(m, u, goal)
  PROVE  IsIxs(NoteUpdate(m, u), goal)
  <1>. DEFINE ix == ConfigureTokenIx(m, u)
  <1>1. IsIxs(<<ix>>, goal)
    BY PlainPlanned, IxsOne, Zenon
  <1>2. NoteUpdate(m, u) = << >> \/ NoteUpdate(m, u) = <<ix>>
    BY Zenon DEF NoteUpdate
  <1>. QED BY <1>1, <1>2, IxsEmpty, Zenon

LEMMA PoolOK ==
  ASSUME ChainOK(chain), NEW goal, NEW desc \in ToSet(goal.tokens), desc.token \in Token
  PROVE  IsPlans(PlanPool(desc), goal)
  <1>. DEFINE t == desc.token
              createIx == Plain([op |-> "create_pool", token |-> t])
              configureIx == Plain([op |-> "configure_pool", token |-> t, desc |-> desc])
              create == IF chain.pool[t].exists THEN <<>> ELSE <<createIx>>
              configure == IF ShouldReconfigure(desc) THEN <<configureIx>> ELSE <<>>
              entriesD == EntryMigrations(Deposit(t))
              entriesL == EntryMigrations(Loan(t))
              entries == IF chain.pool[t].exists THEN entriesD \o entriesL ELSE <<>>
              migrateD == Migrations(Deposit(t))
              migrateL == Migrations(Loan(t))
              noteD == NoteUpdate(Deposit(t), DepositUpdate(desc))
              noteL == NoteUpdate(Loan(t), LoanUpdate(desc))
              pool == Proposed(create \o configure)
              notes == Proposed(noteD \o noteL)
              all == entries \o migrateD \o migrateL \o pool \o notes
  <1>10. SUFFICES ASSUME desc.pool # "none" PROVE IsPlans(PlanPool(desc), goal)
    BY PlansEmpty, Zenon DEF PlanPool
  <1>1. IsIxs(create, goal) /\ IsIxs(configure, goal)
    <2>1. desc \in Pooled(goal)
      BY <1>10, Zenon DEF Pooled
    <2>2. IsIxs(<<createIx>>, goal) /\ IsIxs(<<configureIx>>, goal)
      BY <2>1, PoolPlanned, IxsOne, Zenon
    <2>. HIDE DEF createIx, configureIx
    <2>. QED BY <2>2, IxsEmpty, Zenon
  <1>2. IsPlans(pool, goal)
    <2>. HIDE DEF create, configure
    <2>1. IsIxs(create \o configure, goal)
      BY <1>1, IxsConcat
    <2>. QED BY <2>1, ProposedOK
  <1>3. IsPlans(notes, goal)
    <2>1. /\ IsUpdate(Deposit(t), DepositUpdate(desc), goal)
          /\ IsUpdate(Loan(t), LoanUpdate(desc), goal)
      BY <1>10, Zenon DEF IsUpdate
    <2>2. IsIxs(noteD, goal) /\ IsIxs(noteL, goal)
      BY <2>1, NoteUpdateOK, Zenon
    <2>. HIDE DEF noteD, noteL
    <2>3. IsIxs(noteD \o noteL, goal)
      BY <2>2, IxsConcat
    <2>. QED BY <2>3, ProposedOK
  <1>4. IsPlans(entries, goal)
    <2>1. CASE chain.pool[t].exists
      <3>1. /\ chain.entry[Deposit(t)].exists /\ chain.entry[Loan(t)].exists
            /\ Deposit(t)[2] # "mint" /\ Loan(t)[2] # "mint"
        <4>1. chain.entry[Deposit(t)].exists /\ chain.entry[Loan(t)].exists
          BY <2>1 DEF ChainOK, HaveMetadata
        <4>. QED BY <4>1 DEF Deposit, Loan
      <3>2. IsPlans(entriesD, goal) /\ IsPlans(entriesL, goal)
        BY <3>1, EntryMigrationsOK, Zenon
      <3>3. entries = entriesD \o entriesL
        BY <2>1, Zenon
      <3>. HIDE DEF entriesD, entriesL, entries
      <3>4. IsPlans(entries, goal)
        BY <3>2, <3>3, PlansConcat
      <3>. QED BY <3>4
    <2>2. CASE ~chain.pool[t].exists
      BY <2>2, PlansEmpty, Zenon
    <2>. QED BY <2>1, <2>2, Zenon
  <1>7. IsPlans(migrateD, goal) /\ IsPlans(migrateL, goal)
    BY MigrationsOK, Zenon
  <1>8. PlanPool(desc) = << >> \/ PlanPool(desc) = all
    BY Zenon DEF PlanPool
  <1>9. IsPlans(all, goal)
    <2>. HIDE DEF entries, migrateD, migrateL, pool, notes
    <2>1. IsPlans(entries \o migrateD, goal)
      BY <1>4, <1>7, PlansConcat
    <2>2. IsPlans(entries \o migrateD \o migrateL, goal)
      BY <2>1, <1>7, PlansConcat
    <2>3. IsPlans(entries \o migrateD \o migrateL \o pool, goal)
      BY <2>2, <1>2, PlansConcat
    <2>. QED BY <2>3, <1>3, PlansConcat
  <1>. HIDE DEF all
  <1>. QED BY <1>8, <1>9, PlansEmpty, Zenon

\* The stages: five of the airspace, two for each token.
IsStage(goal, stage) ==
    \/ stage[1] \in {"governor", "airspace", "test_tokens", "adapters", "permits"}
    \/ /\ stage[1] \in {"token", "pool"}
       /\ stage[2] \in DOMAIN goal.tokens

LEMMA StagesOK ==
  ASSUME NEW goal, IsGoal(goal)
  PROVE  /\ Len(Stages(goal)) \in Nat /\ Len(Stages(goal)) >= 1
         /\ \A i \in 1 .. Len(Stages(goal)) : IsStage(goal, Stages(goal)[i])
  <1>. DEFINE n == Len(goal.tokens)
              f == [i \in DOMAIN goal.tokens |-> <<<<"token", i>>, <<"pool", i>>>>]
              s == <<<<"governor">>, <<"airspace">>, <<"test_tokens">>, <<"adapters">>, <<"permits">>>>
              t == FlattenSeq(f)
  <1>1. n \in Nat /\ DOMAIN goal.tokens = 1 .. n
    BY GoalTokens
  <1>2. /\ DOMAIN f = 1 .. n /\ f = [i \in 1 .. n |-> f[i]]
        /\ \A i \in 1 .. n : f[i] = <<<<"token", i>>, <<"pool", i>>>>
    BY <1>1
  <1>3. ASSUME NEW i \in 1 .. n
        PROVE  IsSeq(f[i]) /\ \A x \in ToSet(f[i]) : IsStage(goal, x)
    <2>. DEFINE a == <<"token", i>>
                b == <<"pool", i>>
    <2>1. IsStage(goal, a) /\ IsStage(goal, b)
      BY <1>1 DEF IsStage
    <2>2. f[i] = <<a, b>>
      BY <1>1
    <2>. HIDE DEF a, b
    <2>3. <<a, b>> \in Seq({a, b})
      OBVIOUS
    <2>4. IsSeq(<<a, b>>) /\ \A x \in ToSet(<<a, b>>) : x \in {a, b}
      BY <2>3, SeqOver, Zenon
    <2>. HIDE DEF f
    <2>. QED BY <2>1, <2>2, <2>4
  <1>. HIDE DEF f
  <1>4. IsSeq(f) /\ \A x \in ToSet(f) : \E i \in 1 .. n : x = f[i]
    BY <1>1, <1>2, SeqFrom
  <1>5. \A x \in ToSet(f) : IsSeq(x) /\ \A y \in ToSet(x) : IsStage(goal, y)
    BY <1>3, <1>4, Zenon
  <1>6. IsSeq(t) /\ \A y \in ToSet(t) : \E x \in ToSet(f) : y \in ToSet(x)
    BY <1>4, <1>5, SeqFlatten, Zenon
  <1>7. \A y \in ToSet(t) : IsStage(goal, y)
    BY <1>5, <1>6, Zenon
  <1>8. /\ DOMAIN s = 1 .. 5 /\ s = [i \in 1 .. 5 |-> s[i]] /\ Len(s) = 5
    OBVIOUS
  <1>9. \A i \in 1 .. 5 : IsStage(goal, s[i])
    BY DEF IsStage
  <1>. HIDE DEF s, t
  <1>10. IsSeq(s) /\ \A x \in ToSet(s) : IsStage(goal, x)
    <2>. DEFINE k == 5
    <2>1. k \in Nat /\ DOMAIN s = 1 .. k /\ s = [i \in 1 .. k |-> s[i]]
      BY <1>8
    <2>2. \A i \in 1 .. k : IsStage(goal, s[i])
      BY <1>9
    <2>. HIDE DEF k
    <2>3. IsSeq(s) /\ \A x \in ToSet(s) : \E i \in 1 .. k : x = s[i]
      BY <2>1, SeqFrom
    <2>. QED BY <2>2, <2>3, Zenon
  <1>. DEFINE st == s \o t
  <1>11. IsSeq(st) /\ \A x \in ToSet(st) : x \in ToSet(s) \/ x \in ToSet(t)
    BY <1>6, <1>10, SeqConcat
  <1>12. Len(st) = Len(s) + Len(t) /\ Len(s) \in Nat /\ Len(t) \in Nat
    <2>. DEFINE X == ToSet(s) \cup ToSet(t)
    <2>1. s \in Seq(X) /\ t \in Seq(X)
      <3>. DEFINE S == ToSet(s)
                  T == ToSet(t)
      <3>1. s \in Seq(S) /\ t \in Seq(T)
        BY <1>6, <1>10 DEF IsSeq
      <3>. HIDE DEF S, T
      <3>. QED BY <3>1 DEF S, T
    <2>. HIDE DEF X
    <2>. QED BY <2>1
  <1>13. Stages(goal) = st
    BY Zenon DEF Stages, s, t, f
  <1>. HIDE DEF st
  <1>14. /\ Len(st) \in Nat /\ \A i \in 1 .. Len(st) : st[i] \in ToSet(st)
    BY <1>11, SeqFacts
  <1>15. \A i \in 1 .. Len(st) : IsStage(goal, st[i])
    BY <1>7, <1>10, <1>11, <1>14, Zenon
  <1>16. Len(st) >= 1
    BY <1>8, <1>12
  <1>. QED BY <1>13, <1>14, <1>15, <1>16

LEMMA StageSetupOK ==
  ASSUME NEW goal, IsGoal(goal), NEW stage
  PROVE  IsSetup(StageSetup(goal, stage))
  <1>1. CASE stage[1] = "governor"
    BY <1>1, GovernorOK, Zenon DEF StageSetup
  <1>2. CASE stage[1] = "test_tokens"
    BY <1>2, TestTokensOK, Zenon DEF StageSetup
  <1>3. CASE stage[1] # "governor" /\ stage[1] # "test_tokens"
    BY <1>3, SeqEmpty, Zenon DEF StageSetup, IsSetup
  <1>. QED BY <1>1, <1>2, <1>3, Zenon

LEMMA StageProposalsOK ==
  ASSUME ChainOK(chain), NEW goal, IsGoal(goal), NEW stage, IsStage(goal, stage)
  PROVE  IsPlans(StageProposals(goal, stage), goal)
  <1>1. CASE stage[1] = "airspace"
    BY <1>1, AirspaceOK, Zenon DEF StageProposals
  <1>2. CASE stage[1] = "adapters"
    BY <1>2, AdapterSetOK, Zenon DEF StageProposals
  <1>3. CASE stage[1] = "permits"
    BY <1>3, PermitsOK, Zenon DEF StageProposals
  <1>4. CASE stage[1] = "token"
    <2>. DEFINE desc == goal.tokens[stage[2]]
    <2>1. desc \in ToSet(goal.tokens)
      BY <1>4, GoalTokens DEF IsStage
    <2>2. IsPlans(PlanMarginToken(desc), goal)
      <3>. HIDE DEF desc
      <3>. QED BY <2>1, MarginTokenOK, Zenon
    <2>3. StageProposals(goal, stage) = PlanMarginToken(desc)
      BY <1>4, Zenon DEF StageProposals
    <2>. QED BY <2>2, <2>3, Zenon
  <1>5. CASE stage[1] = "pool"
    <2>. DEFINE desc == goal.tokens[stage[2]]
    <2>1. desc \in ToSet(goal.tokens) /\ desc.token \in Token
      BY <1>5, GoalTokens DEF IsStage
    <2>2. IsPlans(PlanPool(desc), goal)
      <3>. HIDE DEF desc
      <3>. QED BY <2>1, PoolOK, Zenon
    <2>3. StageProposals(goal, stage) = PlanPool(desc)
      BY <1>5, Zenon DEF StageProposals
    <2>. QED BY <2>2, <2>3, Zenon
  <1>6. CASE stage[1] \in {"governor", "test_tokens"}
    BY <1>6, PlansEmpty, Zenon DEF StageProposals
  <1>. QED BY <1>1, <1>2, <1>3, <1>4, <1>5, <1>6, Zenon DEF IsStage

-----------------------------------------------------------------------------
(* The invariant: what operators have planned and what has been proposed   *)
(* are instructions of the builder, which leave the accounts well formed   *)
(* from every such state and not only from the one they were planned in.   *)

\* An operator with a scenario, a number of runs and one of proposals.
OperatorFits(me, s, n, k) ==
    /\ DOMAIN me = {"pc", "stage", "setup", "plan", "bad", "clean", "goal", "run", "next"}
    /\ me.pc \in {"idle", "reading", "setup", "sending", "done", "failed", "crashed"}
    /\ me.goal \in s.targets
    /\ me.stage \in 1 .. Len(Stages(me.goal))
    /\ me.bad \in BOOLEAN /\ me.clean \in BOOLEAN
    /\ me.run \in 0 .. n /\ me.next \in 1 .. k + 1
    /\ IsSetup(me.setup) /\ IsPlans(me.plan, me.goal)

OperatorsFit(f, s, n, k) ==
    DOMAIN f = Operator /\ \A o \in Operator : OperatorFits(f[o], s, n, k)

IsProposal(p) == DOMAIN p = {"ixs", "goal", "run", "open"} /\ IsIxs(p.ixs, p.goal)

BoundsOK ==
    /\ setting \in Scenario /\ target \in setting.targets
    /\ runs \in 0 .. setting.runs /\ retargets \in 0 .. setting.retargets

ProposalsOK == IsSeq(proposals) /\ \A p \in ToSet(proposals) : IsProposal(p)

EnvironmentInv ==
    /\ BoundsOK /\ ChainOK(chain) /\ ProposalsOK
    /\ OperatorsFit(op, setting, runs, Len(proposals))

LEMMA TargetsAreGoals ==
  ASSUME NEW s \in Scenario, NEW goal \in s.targets
  PROVE  IsGoal(goal)
  BY ScenarioAssumption DEF IsGoal, IsSeq

LEMMA ScenarioFacts ==
  ASSUME NEW s \in Scenario
  PROVE  s.runs \in Nat /\ s.retargets \in Nat /\ ChainOK(s.start)
  BY ScenarioAssumption DEF ChainOK

LEMMA FitsLater ==
  ASSUME NEW f, NEW s, NEW n \in Nat, NEW k \in Nat, OperatorsFit(f, s, n, k),
         NEW n2 \in Nat, NEW k2 \in Nat, n <= n2, k <= k2
  PROVE  OperatorsFit(f, s, n2, k2)
  <1>1. \A o \in Operator : /\ f[o].run \in 0 .. n => f[o].run \in 0 .. n2
                            /\ f[o].next \in 1 .. k + 1 => f[o].next \in 1 .. k2 + 1
    OBVIOUS
  <1>. QED BY <1>1, Zenon DEF OperatorsFit, OperatorFits

LEMMA FitsAfter ==
  ASSUME NEW f, NEW s, NEW n, NEW k, OperatorsFit(f, s, n, k),
         NEW o \in Operator, NEW me, OperatorFits(me, s, n, k)
  PROVE  OperatorsFit([f EXCEPT ![o] = me], s, n, k)
  BY DEF OperatorsFit

LEMMA PcFits ==
  ASSUME NEW me, NEW s, NEW n, NEW k, OperatorFits(me, s, n, k),
         NEW pc \in {"idle", "reading", "setup", "sending", "done", "failed", "crashed"}
  PROVE  OperatorFits([me EXCEPT !.pc = pc], s, n, k)
  BY DEF OperatorFits

LEMMA CleanFits ==
  ASSUME NEW me, NEW s, NEW n, NEW k, OperatorFits(me, s, n, k), NEW v \in BOOLEAN
  PROVE  OperatorFits([me EXCEPT !.clean = v], s, n, k) /\ [me EXCEPT !.clean = v].run = me.run
  BY DEF OperatorFits

LEMMA SetupFits ==
  ASSUME NEW me, NEW s, NEW n, NEW k, OperatorFits(me, s, n, k),
         NEW setup, IsSetup(setup), NEW v \in BOOLEAN
  PROVE  OperatorFits([me EXCEPT !.setup = setup, !.bad = v], s, n, k)
  BY DEF OperatorFits

LEMMA PlanFits ==
  ASSUME NEW me, NEW s, NEW n, NEW k, OperatorFits(me, s, n, k),
         NEW plan, IsPlans(plan, me.goal), NEW next \in 1 .. k + 1
  PROVE  /\ OperatorFits([me EXCEPT !.plan = plan], s, n, k)
         /\ OperatorFits([me EXCEPT !.plan = plan, !.next = next], s, n, k)
  BY DEF OperatorFits

LEMMA StageFits ==
  ASSUME NEW me, NEW s, NEW n, NEW k, OperatorFits(me, s, n, k),
         NEW setup, IsSetup(setup), NEW plan, IsPlans(plan, me.goal),
         NEW stage \in 1 .. Len(Stages(me.goal)), NEW pc \in {"reading", "setup"}
  PROVE  OperatorFits([me EXCEPT !.setup = setup, !.plan = plan, !.stage = stage, !.pc = pc],
                      s, n, k)
  BY DEF OperatorFits

LEMMA RunFits ==
  ASSUME NEW me, NEW s, NEW n, NEW k, OperatorFits(me, s, n, k), NEW v \in BOOLEAN,
         NEW run \in 0 .. n, NEW next \in 1 .. k + 1
  PROVE  OperatorFits([me EXCEPT !.pc = "reading", !.clean = v, !.run = run, !.next = next],
                      s, n, k)
  BY DEF OperatorFits

LEMMA IdleFits ==
  ASSUME BoundsOK, NEW n \in Nat, NEW k \in Nat
  PROVE  OperatorFits(Idle, setting, n, k)
  <1>. DEFINE v == FALSE
  <1>1. Len(Stages(target)) \in Nat /\ Len(Stages(target)) >= 1
    BY TargetsAreGoals, StagesOK DEF BoundsOK
  <1>2. IsSetup(<< >>) /\ IsPlans(<< >>, target) /\ v \in BOOLEAN /\ target \in setting.targets
    BY SeqEmpty, PlansEmpty DEF BoundsOK, IsSetup
  <1>3. Idle = [pc |-> "idle", stage |-> 1, setup |-> <<>>, plan |-> <<>>, bad |-> v,
                clean |-> v, goal |-> target, run |-> 0, next |-> 1]
    BY Zenon DEF Idle
  <1>. HIDE DEF v
  <1>. QED BY <1>1, <1>2, <1>3 DEF OperatorFits

LEMMA DisturbedFits ==
  ASSUME NEW s, NEW n, NEW k, OperatorsFit(op, s, n, k), NEW run
  PROVE  /\ OperatorsFit(Disturbed(run), s, n, k)
         /\ \A o \in Operator : op[o].run = run => Disturbed(run)[o] = op[o]
  <1>. DEFINE f == [o \in Operator |->
                        IF op[o].run = run THEN op[o] ELSE [op[o] EXCEPT !.clean = FALSE]]
  <1>1. Disturbed(run) = f
    BY Zenon DEF Disturbed
  <1>2. DOMAIN f = Operator
    OBVIOUS
  <1>3. \A o \in Operator : IF op[o].run = run THEN f[o] = op[o]
                            ELSE f[o] = [op[o] EXCEPT !.clean = FALSE]
    BY Zenon
  <1>. HIDE DEF f
  <1>4. ASSUME NEW o \in Operator
        PROVE  OperatorFits(f[o], s, n, k)
    <2>1. OperatorFits(op[o], s, n, k)
      BY Zenon DEF OperatorsFit
    <2>2. OperatorFits([op[o] EXCEPT !.clean = FALSE], s, n, k)
      BY <2>1, CleanFits, FALSE \in BOOLEAN, Zenon
    <2>. QED BY <1>3, <2>1, <2>2, Zenon
  <1>. QED BY <1>1, <1>2, <1>3, <1>4, Zenon DEF OperatorsFit

LEMMA EnvironmentInitInv == EnvironmentInit => EnvironmentInv
  <1>. SUFFICES ASSUME EnvironmentInit PROVE EnvironmentInv
    OBVIOUS
  <1>1. BoundsOK
    BY ScenarioFacts DEF EnvironmentInit, BoundsOK
  <1>2. ChainOK(chain)
    BY ScenarioFacts DEF EnvironmentInit
  <1>3. ProposalsOK
    BY SeqEmpty, Zenon DEF EnvironmentInit, ProposalsOK
  <1>4. OperatorFits(Idle, setting, 0, 0)
    BY <1>1, IdleFits
  <1>5. runs = 0 /\ Len(proposals) = 0 /\ op = [o \in Operator |-> Idle]
    BY DEF EnvironmentInit
  <1>6. OperatorsFit(op, setting, 0, 0)
    <2>1. DOMAIN op = Operator /\ \A o \in Operator : op[o] = Idle
      BY <1>5
    <2>. QED BY <1>4, <2>1, Zenon DEF OperatorsFit
  <1>. QED BY <1>1, <1>2, <1>3, <1>5, <1>6, Zenon DEF EnvironmentInv

-----------------------------------------------------------------------------
(* One lemma for each step.                                                *)

LEMMA InvFacts ==
  ASSUME EnvironmentInv
  PROVE  /\ runs \in Nat /\ setting.runs \in Nat /\ Len(proposals) \in Nat
         /\ retargets \in Nat /\ setting.retargets \in Nat
         /\ DOMAIN op = Operator
         /\ \A o \in Operator : OperatorFits(op[o], setting, runs, Len(proposals))
  <1>1. setting.runs \in Nat /\ setting.retargets \in Nat
    BY ScenarioFacts DEF EnvironmentInv, BoundsOK
  <1>2. runs \in Nat /\ retargets \in Nat
    BY <1>1 DEF EnvironmentInv, BoundsOK
  <1>3. Len(proposals) \in Nat
    BY SeqFacts DEF EnvironmentInv, ProposalsOK
  <1>. QED BY <1>1, <1>2, <1>3, Zenon DEF EnvironmentInv, OperatorsFit

\* Steps that only change an operator.
LEMMA OperatorStep ==
  ASSUME EnvironmentInv, UNCHANGED <<setting, target, chain, proposals, runs, retargets>>,
         OperatorsFit(op', setting, runs, Len(proposals))
  PROVE  EnvironmentInv'
  <1>1. BoundsOK'
    BY Zenon DEF EnvironmentInv, BoundsOK
  <1>2. ChainOK(chain') /\ ProposalsOK'
    BY Zenon DEF EnvironmentInv, ProposalsOK
  <1>. QED BY <1>1, <1>2, Zenon DEF EnvironmentInv

LEMMA StartRunInv ==
  ASSUME EnvironmentInv, NEW o \in Operator, StartRun(o)
  PROVE  EnvironmentInv'
  <1>. DEFINE k == Len(proposals)
              v == TRUE
              me == [Idle EXCEPT !.pc = "reading", !.clean = v, !.run = runs + 1, !.next = k + 1]
  <1>1. runs \in Nat /\ setting.runs \in Nat /\ k \in Nat /\ runs < setting.runs
    BY InvFacts, Zenon DEF StartRun
  <1>2. runs + 1 \in 0 .. setting.runs /\ runs + 1 \in Nat /\ runs + 1 \in 0 .. runs + 1
        /\ k + 1 \in 1 .. k + 1 /\ runs <= runs + 1 /\ k <= k
    BY <1>1
  <1>3. OperatorFits(Idle, setting, runs + 1, k)
    BY <1>1, <1>2, IdleFits, Zenon DEF EnvironmentInv
  <1>4. OperatorFits(me, setting, runs + 1, k)
    <2>1. v \in BOOLEAN
      OBVIOUS
    <2>. HIDE DEF v
    <2>. QED BY <1>2, <1>3, <2>1, RunFits
  <1>5. OperatorsFit(op, setting, runs + 1, k)
    BY <1>1, <1>2, FitsLater DEF EnvironmentInv
  <1>6. op' = [op EXCEPT ![o] = me]
    BY Zenon DEF StartRun
  <1>. HIDE DEF me
  <1>7. OperatorsFit(op', setting, runs + 1, k)
    BY <1>4, <1>5, <1>6, FitsAfter
  <1>8. runs' = runs + 1 /\ UNCHANGED <<setting, target, chain, proposals, retargets>>
    BY Zenon DEF StartRun
  <1>9. BoundsOK'
    BY <1>2, <1>8 DEF EnvironmentInv, BoundsOK
  <1>10. ChainOK(chain') /\ ProposalsOK'
    BY <1>8, Zenon DEF EnvironmentInv, ProposalsOK
  <1>. QED BY <1>7, <1>8, <1>9, <1>10, Zenon DEF EnvironmentInv

LEMMA ReadStageInv ==
  ASSUME EnvironmentInv, NEW o \in Operator, ReadStage(o)
  PROVE  EnvironmentInv'
  <1>. DEFINE me == op[o]
              stages == Stages(me.goal)
              stage == stages[me.stage]
              n == runs
              k == Len(proposals)
  <1>1. OperatorFits(me, setting, n, k) /\ me.pc = "reading"
    BY InvFacts, Zenon DEF ReadStage
  <1>2. UNCHANGED <<setting, target, chain, proposals, runs, retargets>>
    BY Zenon DEF ReadStage
  <1>3. IsGoal(me.goal)
    BY <1>1, TargetsAreGoals, Zenon DEF OperatorFits, EnvironmentInv, BoundsOK
  <1>4. Len(stages) \in Nat /\ me.stage \in 1 .. Len(stages)
    BY <1>1, <1>3, StagesOK, Zenon DEF OperatorFits
  <1>5. IsStage(me.goal, stage)
    BY <1>3, <1>4, StagesOK, Zenon
  <1>6. IsSetup(StageSetup(me.goal, stage)) /\ IsPlans(StageProposals(me.goal, stage), me.goal)
    BY <1>3, <1>5, StageSetupOK, StageProposalsOK, Zenon DEF EnvironmentInv
  <1>7. CASE Refused(me.goal, stage)
    <2>1. op' = [op EXCEPT ![o] = [me EXCEPT !.pc = "failed"]]
      BY <1>7, Zenon DEF ReadStage
    <2>2. OperatorFits([me EXCEPT !.pc = "failed"], setting, n, k)
      BY <1>1, PcFits
    <2>. HIDE DEF me, n, k
    <2>3. OperatorsFit(op', setting, n, k)
      BY <2>1, <2>2, FitsAfter, Zenon DEF EnvironmentInv, n, k
    <2>. QED BY <1>2, <2>3, OperatorStep, Zenon DEF n, k
  <1>8. CASE ~Refused(me.goal, stage)
    <2>. DEFINE setup == me.setup \o StageSetup(me.goal, stage)
                plan == me.plan \o StageProposals(me.goal, stage)
                st == IF me.stage = Len(stages) THEN me.stage ELSE me.stage + 1
                pc == IF me.stage = Len(stages) THEN "setup" ELSE me.pc
                after == [me EXCEPT !.setup = setup, !.plan = plan, !.stage = st, !.pc = pc]
    <2>1. op' = [op EXCEPT ![o] = after]
      BY <1>8 DEF ReadStage
    <2>2. IsSetup(setup)
      <3>1. IsSetup(me.setup)
        BY <1>1, Zenon DEF OperatorFits
      <3>. HIDE DEF me, stage
      <3>. QED BY <1>6, <3>1, SetupConcat
    <2>3. IsPlans(plan, me.goal)
      <3>1. IsPlans(me.plan, me.goal)
        BY <1>1, Zenon DEF OperatorFits
      <3>. HIDE DEF me, stage
      <3>. QED BY <1>6, <3>1, PlansConcat
    <2>4. st \in 1 .. Len(stages) /\ pc \in {"reading", "setup"}
      BY <1>1, <1>4
    <2>. HIDE DEF setup, plan, st, pc
    <2>5. OperatorFits(after, setting, n, k)
      BY <1>1, <2>2, <2>3, <2>4, StageFits
    <2>. HIDE DEF after, n, k
    <2>6. OperatorsFit(op', setting, n, k)
      BY <2>1, <2>5, FitsAfter, Zenon DEF EnvironmentInv, n, k
    <2>. QED BY <1>2, <2>6, OperatorStep, Zenon DEF n, k
  <1>. QED BY <1>7, <1>8, Zenon

LEMMA PcStep ==
  ASSUME EnvironmentInv, NEW o \in Operator,
         NEW pc \in {"idle", "reading", "setup", "sending", "done", "failed", "crashed"},
         op' = [op EXCEPT ![o] = [op[o] EXCEPT !.pc = pc]],
         UNCHANGED <<setting, target, chain, proposals, runs, retargets>>
  PROVE  EnvironmentInv'
  <1>. DEFINE n == runs
              k == Len(proposals)
              after == [op[o] EXCEPT !.pc = pc]
  <1>1. OperatorFits(after, setting, n, k)
    BY InvFacts, PcFits
  <1>. HIDE DEF n, k, after
  <1>2. OperatorsFit(op', setting, n, k)
    BY <1>1, FitsAfter, Zenon DEF EnvironmentInv, n, k, after
  <1>. QED BY <1>2, OperatorStep, Zenon DEF n, k

LEMMA SetupEndsInv ==
  ASSUME EnvironmentInv, NEW o \in Operator, SetupEnds(o)
  PROVE  EnvironmentInv'
  <1>. DEFINE pc == IF op[o].bad THEN "failed" ELSE "sending"
  <1>1. pc \in {"idle", "reading", "setup", "sending", "done", "failed", "crashed"}
    OBVIOUS
  <1>2. op' = [op EXCEPT ![o].pc = pc]
    BY Zenon DEF SetupEnds
  <1>. HIDE DEF pc
  <1>3. op' = [op EXCEPT ![o] = [op[o] EXCEPT !.pc = pc]]
    BY <1>2
  <1>. QED BY <1>1, <1>3, PcStep, Zenon DEF SetupEnds

LEMMA FinishInv ==
  ASSUME EnvironmentInv, NEW o \in Operator, Finish(o)
  PROVE  EnvironmentInv'
  <1>1. op' = [op EXCEPT ![o] = [op[o] EXCEPT !.pc = "done"]]
    BY DEF Finish
  <1>2. "done" \in {"idle", "reading", "setup", "sending", "done", "failed", "crashed"}
    OBVIOUS
  <1>. QED BY <1>1, <1>2, PcStep, Zenon DEF Finish

LEMMA CrashInv ==
  ASSUME EnvironmentInv, NEW o \in Operator, Crash(o)
  PROVE  EnvironmentInv'
  <1>. DEFINE n == runs
              k == Len(proposals)
              after == [Idle EXCEPT !.pc = "crashed"]
  <1>1. OperatorFits(Idle, setting, n, k)
    BY InvFacts, IdleFits DEF EnvironmentInv
  <1>2. OperatorFits(after, setting, n, k)
    BY <1>1, PcFits
  <1>. HIDE DEF n, k
  <1>3. op' = [op EXCEPT ![o] = after] /\ UNCHANGED <<setting, target, chain, proposals, runs, retargets>>
    BY Zenon DEF Crash
  <1>. HIDE DEF after
  <1>4. OperatorsFit(op', setting, n, k)
    BY <1>2, <1>3, FitsAfter, Zenon DEF EnvironmentInv, n, k
  <1>. QED BY <1>3, <1>4, OperatorStep, Zenon DEF n, k

\* Steps that change the accounts and the operators.
LEMMA AccountsStep ==
  ASSUME EnvironmentInv, UNCHANGED <<setting, target, proposals, runs, retargets>>,
         ChainOK(chain'), OperatorsFit(op', setting, runs, Len(proposals))
  PROVE  EnvironmentInv'
  <1>1. BoundsOK'
    BY Zenon DEF EnvironmentInv, BoundsOK
  <1>2. ProposalsOK'
    BY Zenon DEF EnvironmentInv, ProposalsOK
  <1>. QED BY <1>1, <1>2, Zenon DEF EnvironmentInv

LEMMA SendSetupInv ==
  ASSUME EnvironmentInv, NEW o \in Operator, NEW n \in 1 .. Len(op[o].setup), SendSetup(o, n)
  PROVE  EnvironmentInv'
  <1>. DEFINE me == op[o]
              tx == Transaction(SubSeq(me.setup, 1, n))
              k == Len(proposals)
              setup == SubSeq(me.setup, n + 1, Len(me.setup))
              v == me.bad \/ ~tx.ok
              f == IF tx.ok THEN Disturbed(me.run) ELSE op
              after == [me EXCEPT !.setup = setup, !.bad = v]
  <1>1. OperatorFits(me, setting, runs, k) /\ IsSetup(me.setup)
    BY InvFacts, Zenon DEF OperatorFits
  <1>2. /\ IsSetup(SubSeq(me.setup, 1, n)) /\ IsSetup(setup)
    <2>. DEFINE s == me.setup
    <2>1. n \in 1 .. Len(s) /\ IsSeq(s) /\ \A ix \in ToSet(s) : IsInitializer(ix)
      BY <1>1, Zenon DEF IsSetup
    <2>. HIDE DEF s
    <2>2. IsSetup(SubSeq(s, 1, n)) /\ IsSetup(SubSeq(s, n + 1, Len(s)))
      BY <2>1, SeqParts, Zenon DEF IsSetup
    <2>. QED BY <2>2, Zenon DEF s
  <1>3. ChainOK(tx.chain)
    BY <1>2, SetupIsPlanned, TransactionOK, Zenon DEF EnvironmentInv
  <1>4. v \in BOOLEAN
    OBVIOUS
  <1>5. op' = [f EXCEPT ![o] = [me EXCEPT !.setup = SubSeq(@, n + 1, Len(@)), !.bad = @ \/ ~tx.ok]]
    BY Zenon DEF SendSetup
  <1>6. op' = [f EXCEPT ![o] = after]
    BY <1>5, Zenon
  <1>7. /\ chain' = IF tx.ok THEN tx.chain ELSE chain
        /\ UNCHANGED <<setting, target, proposals, runs, retargets>>
    BY Zenon DEF SendSetup
  <1>8. OperatorsFit(f, setting, runs, k)
    BY DisturbedFits, Zenon DEF EnvironmentInv
  <1>. HIDE DEF tx, f, v, setup
  <1>9. OperatorFits(after, setting, runs, k)
    BY <1>1, <1>2, <1>4, SetupFits
  <1>. HIDE DEF after
  <1>10. OperatorsFit(op', setting, runs, k)
    <2>. HIDE DEF k
    <2>. QED BY <1>6, <1>8, <1>9, FitsAfter
  <1>11. ChainOK(chain')
    BY <1>3, <1>7, Zenon DEF EnvironmentInv
  <1>. QED BY <1>7, <1>10, <1>11, AccountsStep, Zenon

LEMMA SendGroupInv ==
  ASSUME EnvironmentInv, NEW o \in Operator, NEW n \in 1 .. Len(op[o].plan), SendGroup(o, n)
  PROVE  EnvironmentInv'
  <1>. DEFINE me == op[o]
              tx == Transaction(FlattenSeq(SubSeq(me.plan, 1, n)))
              k == Len(proposals)
              plan == SubSeq(me.plan, n + 1, Len(me.plan))
              f == Disturbed(me.run)
  <1>1. OperatorFits(me, setting, runs, k) /\ IsPlans(me.plan, me.goal)
    BY InvFacts, Zenon DEF OperatorFits
  <1>2. /\ IsPlans(SubSeq(me.plan, 1, n), me.goal) /\ IsPlans(plan, me.goal)
    <2>. DEFINE s == me.plan
                goal == me.goal
    <2>1. n \in 1 .. Len(s) /\ IsSeq(s) /\ \A x \in ToSet(s) : IsIxs(x, goal)
      BY <1>1, Zenon DEF IsPlans
    <2>. HIDE DEF s, goal
    <2>2. IsPlans(SubSeq(s, 1, n), goal) /\ IsPlans(SubSeq(s, n + 1, Len(s)), goal)
      BY <2>1, SeqParts, Zenon DEF IsPlans
    <2>. QED BY <2>2, Zenon DEF s, goal
  <1>3. ChainOK(tx.chain)
    BY <1>2, IxsFlatten, TransactionOK, Zenon DEF EnvironmentInv
  <1>4. UNCHANGED <<setting, target, proposals, runs, retargets>>
    BY Zenon DEF SendGroup
  <1>5. ChainOK(chain')
    <2>1. chain' = IF tx.ok THEN tx.chain ELSE chain
      BY Zenon DEF SendGroup
    <2>. QED BY <1>3, <2>1, Zenon DEF EnvironmentInv
  <1>6. CASE tx.ok
    <2>1. op' = [f EXCEPT ![o].plan = SubSeq(@, n + 1, Len(@))]
      BY <1>6, Zenon DEF SendGroup
    <2>2. OperatorsFit(f, setting, runs, k) /\ f[o] = me
      BY DisturbedFits, Zenon DEF EnvironmentInv
    <2>. HIDE DEF f
    <2>3. op' = [f EXCEPT ![o] = [f[o] EXCEPT !.plan = SubSeq(f[o].plan, n + 1, Len(f[o].plan))]]
      BY <2>1
    <2>4. op' = [f EXCEPT ![o] = [me EXCEPT !.plan = plan]]
      BY <2>2, <2>3, Zenon
    <2>. HIDE DEF plan
    <2>5. OperatorFits([me EXCEPT !.plan = plan], setting, runs, k)
      <3>1. me.next \in 1 .. k + 1
        BY <1>1, Zenon DEF OperatorFits
      <3>. QED BY <1>1, <1>2, <3>1, PlanFits
    <2>6. OperatorsFit(op', setting, runs, k)
      <3>. DEFINE after == [me EXCEPT !.plan = plan]
      <3>. HIDE DEF after, k
      <3>. QED BY <2>2, <2>4, <2>5, FitsAfter, Zenon DEF after
    <2>. QED BY <1>4, <1>5, <2>6, AccountsStep, Zenon
  <1>7. CASE ~tx.ok
    <2>1. op' = [op EXCEPT ![o].pc = "failed"]
      BY <1>7, Zenon DEF SendGroup
    <2>2. op' = [op EXCEPT ![o] = [op[o] EXCEPT !.pc = "failed"]]
      BY <2>1
    <2>3. chain' = chain
      BY <1>7, Zenon DEF SendGroup
    <2>. QED BY <1>4, <2>2, <2>3, PcStep
  <1>. QED BY <1>6, <1>7, Zenon

LEMMA SubmitProposalInv ==
  ASSUME EnvironmentInv, NEW o \in Operator, SubmitProposal(o)
  PROVE  EnvironmentInv'
  <1>. DEFINE me == op[o]
              k == Len(proposals)
  <1>1. OperatorFits(me, setting, runs, k) /\ IsPlans(me.plan, me.goal) /\ me.next \in 1 .. k + 1
    BY InvFacts, Zenon DEF OperatorFits
  <1>2. me.plan # << >> /\ UNCHANGED <<setting, target, chain, runs, retargets>>
    BY Zenon DEF SubmitProposal
  <1>3. CASE me.next = k + 1
    <2>. DEFINE v == TRUE
                p == [ixs |-> Head(me.plan), goal |-> me.goal, run |-> me.run, open |-> v]
                f == Disturbed(me.run)
                after == [me EXCEPT !.plan = Tail(me.plan), !.next = me.next + 1]
    <2>1. proposals' = Append(proposals, p)
      BY <1>3, Zenon DEF SubmitProposal
    <2>2. op' = [f EXCEPT ![o].plan = Tail(@), ![o].next = @ + 1]
      BY <1>3, Zenon DEF SubmitProposal
    <2>3. IsIxs(Head(me.plan), me.goal) /\ IsPlans(Tail(me.plan), me.goal)
      BY <1>1, <1>2, SeqHeadTail, Zenon DEF IsPlans
    <2>. HIDE DEF v
    <2>4. IsProposal(p)
      BY <2>3 DEF IsProposal
    <2>. HIDE DEF p
    <2>5. k \in Nat /\ runs \in Nat /\ Len(proposals') = k + 1 /\ ProposalsOK'
      <3>1. IsSeq(proposals) /\ k \in Nat /\ runs \in Nat
        BY InvFacts, Zenon DEF EnvironmentInv, ProposalsOK
      <3>. DEFINE X == ToSet(proposals) \cup {p}
                  T == ToSet(proposals)
      <3>2. proposals \in Seq(T) /\ T \subseteq X /\ p \in X
        BY <3>1 DEF IsSeq
      <3>3. \A x \in X : IsProposal(x)
        BY <2>4 DEF EnvironmentInv, ProposalsOK
      <3>. HIDE DEF X, T
      <3>4. proposals' \in Seq(X) /\ Len(proposals') = k + 1
        BY <2>1, <3>2
      <3>5. IsSeq(proposals') /\ \A x \in ToSet(proposals') : x \in X
        BY <3>4, SeqOver
      <3>. QED BY <3>1, <3>3, <3>4, <3>5, Zenon DEF ProposalsOK
    <2>6. OperatorsFit(f, setting, runs, k) /\ f[o] = me
      BY DisturbedFits, Zenon DEF EnvironmentInv
    <2>. HIDE DEF f
    <2>7. OperatorsFit(f, setting, runs, k + 1)
      <3>. HIDE DEF k
      <3>1. k <= k + 1 /\ k + 1 \in Nat /\ runs <= runs
        BY <2>5
      <3>. QED BY <2>5, <2>6, <3>1, FitsLater
    <2>8. OperatorFits(me, setting, runs, k + 1)
      BY <2>6, <2>7, Zenon DEF OperatorsFit
    <2>9. OperatorFits(after, setting, runs, k + 1)
      <3>. DEFINE plan == Tail(me.plan)
                  next == me.next + 1
      <3>1. next \in 1 .. (k + 1) + 1 /\ IsPlans(plan, me.goal)
        BY <1>3, <2>3, <2>5
      <3>. HIDE DEF plan, next, k
      <3>2. OperatorFits([me EXCEPT !.plan = plan, !.next = next], setting, runs, k + 1)
        BY <2>8, <3>1, PlanFits
      <3>. QED BY <3>2, Zenon DEF plan, next
    <2>10. op' = [f EXCEPT ![o] = after]
      <3>1. DOMAIN f = Operator /\ DOMAIN me = {"pc", "stage", "setup", "plan", "bad", "clean",
                                                "goal", "run", "next"}
        BY <1>1, <2>6, Zenon DEF OperatorsFit, OperatorFits
      <3>. QED BY <2>2, <2>6, <3>1
    <2>. HIDE DEF after
    <2>11. OperatorsFit(op', setting, runs, k + 1)
      <3>. HIDE DEF k
      <3>. QED BY <2>7, <2>9, <2>10, FitsAfter
    <2>12. BoundsOK' /\ ChainOK(chain')
      BY <1>2, Zenon DEF EnvironmentInv, BoundsOK
    <2>. QED BY <1>2, <2>5, <2>11, <2>12, Zenon DEF EnvironmentInv
  <1>4. CASE me.next # k + 1
    <2>1. op' = [op EXCEPT ![o].pc = "failed"] /\ proposals' = proposals
      BY <1>4, Zenon DEF SubmitProposal
    <2>2. op' = [op EXCEPT ![o] = [op[o] EXCEPT !.pc = "failed"]]
      BY <2>1
    <2>. QED BY <1>2, <2>1, <2>2, PcStep
  <1>. QED BY <1>3, <1>4, Zenon

LEMMA ExecuteProposalInv ==
  ASSUME EnvironmentInv, NEW i \in DOMAIN proposals, ExecuteProposal(i)
  PROVE  EnvironmentInv'
  <1>. DEFINE tx == Transaction(proposals[i].ixs)
              k == Len(proposals)
              T == ToSet(proposals)
              v == FALSE
              p == [proposals[i] EXCEPT !.open = v]
              X == T \cup {p}
  <1>1. /\ k \in Nat /\ DOMAIN proposals = 1 .. k /\ proposals \in Seq(T)
        /\ \A j \in 1 .. k : proposals[j] \in T
        /\ \A x \in T : IsProposal(x)
    BY SeqFacts DEF EnvironmentInv, ProposalsOK, IsSeq
  <1>2. IsProposal(proposals[i])
    BY <1>1
  <1>3. chain' = tx.chain /\ ChainOK(tx.chain)
    BY <1>2, TransactionOK, Zenon DEF ExecuteProposal, IsProposal, EnvironmentInv
  <1>4. /\ op' = Disturbed(proposals[i].run)
        /\ UNCHANGED <<setting, target, runs, retargets>>
        /\ proposals' = [proposals EXCEPT ![i].open = FALSE]
    BY Zenon DEF ExecuteProposal
  <1>5. proposals' = [proposals EXCEPT ![i].open = v]
    BY <1>4, Zenon
  <1>. HIDE DEF v
  <1>6. proposals' = [proposals EXCEPT ![i] = p]
    BY <1>5
  <1>7. IsProposal(p)
    BY <1>2 DEF IsProposal
  <1>8. \A x \in X : IsProposal(x)
    BY <1>1, <1>7
  <1>9. T \subseteq X /\ p \in X
    OBVIOUS
  <1>. HIDE DEF p, X, T
  <1>10. proposals' \in Seq(X) /\ Len(proposals') = k
    BY <1>1, <1>6, <1>9
  <1>11. ProposalsOK'
    <2>1. IsSeq(proposals') /\ \A x \in ToSet(proposals') : x \in X
      BY <1>10, SeqOver
    <2>. QED BY <1>8, <2>1, Zenon DEF ProposalsOK
  <1>12. OperatorsFit(op', setting, runs, k)
    BY <1>4, DisturbedFits, Zenon DEF EnvironmentInv
  <1>13. BoundsOK'
    BY <1>4, Zenon DEF EnvironmentInv, BoundsOK
  <1>. QED BY <1>3, <1>4, <1>10, <1>11, <1>12, <1>13, Zenon DEF EnvironmentInv

LEMMA RetargetInv ==
  ASSUME EnvironmentInv, NEW goal \in setting.targets, Retarget(goal)
  PROVE  EnvironmentInv'
  <1>1. /\ retargets < setting.retargets /\ target' = goal /\ retargets' = retargets + 1
        /\ UNCHANGED <<setting, chain, op, proposals, runs>>
    BY Zenon DEF Retarget
  <1>2. retargets + 1 \in 0 .. setting.retargets
    BY <1>1, InvFacts
  <1>3. BoundsOK'
    BY <1>1, <1>2, Zenon DEF EnvironmentInv, BoundsOK
  <1>. QED BY <1>1, <1>3, Zenon DEF EnvironmentInv, ProposalsOK

LEMMA EnvironmentStutter ==
  ASSUME EnvironmentInv, UNCHANGED environmentVars
  PROVE  EnvironmentInv'
  BY Zenon DEF environmentVars, EnvironmentInv, BoundsOK, ProposalsOK

LEMMA EnvironmentNextInv == EnvironmentInv /\ [EnvironmentNext]_environmentVars => EnvironmentInv'
  <1>. SUFFICES ASSUME EnvironmentInv, [EnvironmentNext]_environmentVars
                PROVE  EnvironmentInv'
    OBVIOUS
  <1>1. ASSUME NEW o \in Operator,
               \/ StartRun(o) \/ ReadStage(o) \/ SetupEnds(o) \/ Finish(o) \/ Crash(o)
               \/ \E n \in 1 .. Len(op[o].setup) : SendSetup(o, n)
               \/ \E n \in 1 .. Len(op[o].plan) : SendGroup(o, n)
               \/ SubmitProposal(o)
        PROVE  EnvironmentInv'
    BY <1>1, StartRunInv, ReadStageInv, SetupEndsInv, FinishInv, CrashInv, SendSetupInv,
       SendGroupInv, SubmitProposalInv, Zenon
  <1>2. ASSUME NEW p \in DOMAIN proposals, ExecuteProposal(p)
        PROVE  EnvironmentInv'
    BY <1>2, ExecuteProposalInv, Zenon
  <1>3. ASSUME NEW goal \in setting.targets, Retarget(goal)
        PROVE  EnvironmentInv'
    BY <1>3, RetargetInv, Zenon
  <1>. QED BY <1>1, <1>2, <1>3, EnvironmentStutter, Zenon DEF EnvironmentNext

\* The invariant holds in every state.
THEOREM EnvironmentInvariance == EnvironmentSpec => []EnvironmentInv
  BY EnvironmentInitInv, EnvironmentNextInv, PTL DEF EnvironmentSpec

LEMMA InvImpliesComplete == EnvironmentInv => PoolsAreComplete
  <1>. SUFFICES ASSUME EnvironmentInv PROVE PoolsAreComplete
    OBVIOUS
  <1>1. HaveMetadata(chain) /\ AccountsOK(chain)
    BY Zenon DEF EnvironmentInv, ChainOK
  <1>2. /\ runs \in 0 .. setting.runs /\ retargets \in 0 .. setting.retargets
    BY Zenon DEF EnvironmentInv, BoundsOK
  <1>3. \A o \in Operator : OperatorFits(op[o], setting, runs, Len(proposals))
    BY InvFacts, Zenon
  <1>4. EnvironmentTypeOK
    BY <1>1, <1>2, <1>3, Zenon DEF EnvironmentTypeOK, OperatorFits
  <1>. QED BY <1>1, <1>4, Zenon DEF PoolsAreComplete, PoolsHaveMetadata

\* Whatever runs of however many operators interleave, fail, crash and are
\* executed late as proposals, the accounts are well formed, no operator numbers
\* a proposal past the multisig's next index, and a pool has the mints of its
\* notes and the three entries, its token's with the oracle of the pool.
THEOREM PoolsAreAlwaysComplete == EnvironmentSpec => []PoolsAreComplete
  BY EnvironmentInvariance, InvImpliesComplete, PTL

-----------------------------------------------------------------------------
(* What is configured stays configured: an instruction of a plan sets what *)
(* the description has, and so changes nothing of accounts that match it.  *)

LEMMA AppliedAgain ==
  ASSUME NEW c, NEW d, NEW u
  PROVE  Margin!AppliedUpdate(c, u) = Margin!AppliedUpdate(d, u)
  BY DEF Margin!AppliedUpdate

\* What matching accounts are for one of the description's tokens.
LEMMA ConfigOf ==
  ASSUME NEW goal, IsGoal(goal), NEW c, MatchIn(c, goal), NEW desc \in ToSet(goal.tokens)
  PROVE  c.config[MintOf(desc.token)] = Margin!AppliedUpdate(Nothing, MarginUpdate(desc))
  <1>1. PICK i \in DOMAIN goal.tokens : desc = goal.tokens[i]
    BY SeqFacts DEF IsGoal
  <1>. QED BY <1>1, Zenon DEF MatchIn

LEMMA NotesOf ==
  ASSUME NEW goal, IsGoal(goal), NEW c, MatchIn(c, goal), NEW desc \in ToSet(goal.tokens),
         desc.pool # "none"
  PROVE  /\ c.pool[desc.token] = [exists |-> TRUE, params |-> desc.pool, oracle |-> desc.oracle]
         /\ NoteMatches(c, Deposit(desc.token),
                        MetadataEntry("new", "Collateral", desc.weight, desc.staleness,
                                      desc.features), DepositUpdate(desc))
         /\ NoteMatches(c, Loan(desc.token),
                        MetadataEntry("new", "Claim", desc.leverage, desc.staleness,
                                      desc.features), LoanUpdate(desc))
  <1>1. PICK i \in DOMAIN goal.tokens : desc = goal.tokens[i]
    BY SeqFacts DEF IsGoal
  <1>. QED BY <1>1, Zenon DEF MatchIn

\* Accounts with the same configs, pools and entries of notes.
LEMMA KeepsMatch ==
  ASSUME NEW goal, IsGoal(goal), NEW c, MatchIn(c, goal), NEW d, d.governor, d.airspace,
         c.adapters \subseteq d.adapters, c.mints \subseteq d.mints, c.infos \subseteq d.infos,
         ~Localnet => \A k \in Crank, flag \in Permission \ {"OPERATE_VAULTS"} :
                        flag \in d.permit[k] <=> flag \in Wanted(goal, k),
         \A m \in Mint : d.config[m] = c.config[m],
         \A t \in Token : /\ d.pool[t] = c.pool[t]
                          /\ d.entry[Deposit(t)] = c.entry[Deposit(t)]
                          /\ d.entry[Loan(t)] = c.entry[Loan(t)]
  PROVE  MatchIn(d, goal)
  <1>1. ASSUME NEW i \in DOMAIN goal.tokens
        PROVE  LET desc == goal.tokens[i]
                   t == desc.token
               IN  /\ MintOf(t) \in d.mints
                   /\ desc.symbol = "SOL" /\ ~desc.hasMint /\ setting.network # "Mainnet"
                        => MintOf(t) \in d.infos
                   /\ d.config[MintOf(t)] = Margin!AppliedUpdate(Nothing, MarginUpdate(desc))
                   /\ desc.pool # "none" =>
                      /\ d.pool[t] = [exists |-> TRUE, params |-> desc.pool, oracle |-> desc.oracle]
                      /\ NoteMatches(d, Deposit(t), MetadataEntry("new", "Collateral", desc.weight,
                                          desc.staleness, desc.features), DepositUpdate(desc))
                      /\ NoteMatches(d, Loan(t), MetadataEntry("new", "Claim", desc.leverage,
                                          desc.staleness, desc.features), LoanUpdate(desc))
    <2>. DEFINE desc == goal.tokens[i]
                t == desc.token
                D == MetadataEntry("new", "Collateral", desc.weight, desc.staleness, desc.features)
                L == MetadataEntry("new", "Claim", desc.leverage, desc.staleness, desc.features)
                p == [exists |-> TRUE, params |-> desc.pool, oracle |-> desc.oracle]
    <2>1. t \in Token /\ MintOf(t) \in Mint /\ Deposit(t) \in Mint /\ Loan(t) \in Mint
      BY GoalTokens, MintsOf
    <2>. DEFINE needsInfo == desc.symbol = "SOL" /\ ~desc.hasMint /\ setting.network # "Mainnet"
    <2>2. /\ MintOf(t) \in c.mints /\ (needsInfo => MintOf(t) \in c.infos)
          /\ c.config[MintOf(t)] = Margin!AppliedUpdate(Nothing, MarginUpdate(desc))
          /\ desc.pool # "none" => /\ c.pool[t] = p
                                   /\ NoteMatches(c, Deposit(t), D, DepositUpdate(desc))
                                   /\ NoteMatches(c, Loan(t), L, LoanUpdate(desc))
      BY Zenon DEF MatchIn
    <2>. HIDE DEF desc, t, D, L, p, needsInfo
    <2>3. \A m \in Mint : \A e, u : d.entry[m] = c.entry[m] /\ NoteMatches(c, m, e, u)
                                            => NoteMatches(d, m, e, u)
      BY Zenon DEF NoteMatches
    <2>4. /\ MintOf(t) \in d.mints /\ (needsInfo => MintOf(t) \in d.infos)
          /\ d.config[MintOf(t)] = Margin!AppliedUpdate(Nothing, MarginUpdate(desc))
      BY <2>1, <2>2
    <2>5. desc.pool # "none" => /\ d.pool[t] = p
                                /\ NoteMatches(d, Deposit(t), D, DepositUpdate(desc))
                                /\ NoteMatches(d, Loan(t), L, LoanUpdate(desc))
      BY <2>1, <2>2, <2>3, Zenon
    <2>. QED BY <2>4, <2>5, Zenon DEF desc, t, D, L, p, needsInfo
  <1>2. goal.adapters \cup {PoolAdapter} \subseteq d.adapters
    BY DEF MatchIn
  <1>. QED BY <1>1, <1>2, Zenon DEF MatchIn

\* Accounts that do not differ in what the description is about.
LEMMA KeepsMore ==
  ASSUME NEW goal, IsGoal(goal), NEW c, MatchIn(c, goal), NEW d, d.governor, d.airspace,
         c.adapters \subseteq d.adapters, c.mints \subseteq d.mints, c.infos \subseteq d.infos,
         d.permit = c.permit, d.config = c.config, d.pool = c.pool, d.entry = c.entry
  PROVE  MatchIn(d, goal)
  <1>1. ~Localnet => \A k \in Crank, flag \in Permission \ {"OPERATE_VAULTS"} :
                        flag \in d.permit[k] <=> flag \in Wanted(goal, k)
    BY Zenon DEF MatchIn
  <1>. QED BY <1>1, KeepsMatch, Zenon

LEMMA PermitKeeps ==
  ASSUME NEW goal, IsGoal(goal), NEW c, ChainOK(c), MatchIn(c, goal), NEW k,
         NEW flag \in Permission \ {"OPERATE_VAULTS"}
  PROVE  MatchIn([c EXCEPT !.permit[k] = ConfiguredPermit(c.permit[k], flag,
                                                          flag \in Wanted(goal, k))], goal)
  <1>. DEFINE v == ConfiguredPermit(c.permit[k], flag, flag \in Wanted(goal, k))
              d == [c EXCEPT !.permit[k] = v]
  <1>1. \A f : f \in v <=> IF f = flag THEN f \in Wanted(goal, k) ELSE f \in c.permit[k]
    BY DEF ConfiguredPermit
  <1>2. DOMAIN c.permit = Crank
    BY DEF ChainOK, AccountsOK
  <1>. HIDE DEF v
  <1>3. /\ d.governor = c.governor /\ d.airspace = c.airspace /\ d.adapters = c.adapters
        /\ d.mints = c.mints /\ d.infos = c.infos /\ d.config = c.config /\ d.pool = c.pool
        /\ d.entry = c.entry
        /\ \A j \in Crank : d.permit[j] = IF j = k THEN v ELSE c.permit[j]
    BY <1>2 DEF ChainOK, HaveFields
  <1>. HIDE DEF d
  <1>4. c.governor /\ c.airspace
        /\ (~Localnet => \A j \in Crank, f \in Permission \ {"OPERATE_VAULTS"} :
                            f \in c.permit[j] <=> f \in Wanted(goal, j))
    BY Zenon DEF MatchIn
  <1>5. ~Localnet => \A j \in Crank, f \in Permission \ {"OPERATE_VAULTS"} :
                        f \in d.permit[j] <=> f \in Wanted(goal, j)
    <2>. SUFFICES ASSUME ~Localnet, NEW j \in Crank, NEW f \in Permission \ {"OPERATE_VAULTS"}
                  PROVE  f \in d.permit[j] <=> f \in Wanted(goal, j)
      OBVIOUS
    <2>1. f \in c.permit[j] <=> f \in Wanted(goal, j)
      BY <1>4, Zenon
    <2>. QED BY <1>1, <1>3, <2>1
  <1>6. d.governor /\ d.airspace /\ c.adapters \subseteq d.adapters /\ c.mints \subseteq d.mints
        /\ c.infos \subseteq d.infos
    BY <1>3, <1>4, Zenon
  <1>7. MatchIn(d, goal)
    BY <1>3, <1>5, <1>6, KeepsMatch, Zenon
  <1>. QED BY <1>7, Zenon DEF d, v

LEMMA UpdateKeeps ==
  ASSUME NEW goal, IsGoal(goal), NEW c, ChainOK(c), MatchIn(c, goal), NEW m, NEW u,
         IsUpdate(m, u, goal)
  PROVE  MatchIn([c EXCEPT !.config[m] = Margin!AppliedUpdate(c.config[m], u)], goal)
  <1>. DEFINE v == Margin!AppliedUpdate(c.config[m], u)
              d == [c EXCEPT !.config[m] = v]
  <1>1. v = c.config[m]
    <2>. PICK desc \in ToSet(goal.tokens) :
            \/ m = MintOf(desc.token) /\ u = MarginUpdate(desc)
            \/ /\ desc.pool # "none"
               /\ \/ m = Deposit(desc.token) /\ u = DepositUpdate(desc)
                  \/ m = Loan(desc.token) /\ u = LoanUpdate(desc)
      BY Zenon DEF IsUpdate
    <2>. DEFINE t == desc.token
                D == MetadataEntry("new", "Collateral", desc.weight, desc.staleness, desc.features)
                L == MetadataEntry("new", "Claim", desc.leverage, desc.staleness, desc.features)
    <2>1. c.config[MintOf(t)] = Margin!AppliedUpdate(c.config[MintOf(t)], MarginUpdate(desc))
      <3>1. c.config[MintOf(t)] = Margin!AppliedUpdate(Nothing, MarginUpdate(desc))
        BY ConfigOf
      <3>. QED BY <3>1, AppliedAgain, Zenon
    <2>3. desc.pool # "none" => /\ NoteMatches(c, Deposit(t), D, DepositUpdate(desc))
                                /\ NoteMatches(c, Loan(t), L, LoanUpdate(desc))
      BY NotesOf
    <2>. HIDE DEF D, L
    <2>2. \A n, e, w : NoteMatches(c, n, e, w) => c.config[n] = Margin!AppliedUpdate(c.config[n], w)
      BY Zenon DEF NoteMatches
    <2>. QED BY <2>1, <2>2, <2>3, Zenon
  <1>. HIDE DEF v
  <1>2. /\ d.governor = c.governor /\ d.airspace = c.airspace /\ d.adapters = c.adapters
        /\ d.mints = c.mints /\ d.infos = c.infos /\ d.permit = c.permit /\ d.pool = c.pool
        /\ d.entry = c.entry
        /\ \A j \in Mint : d.config[j] = c.config[j]
    BY <1>1 DEF ChainOK, HaveFields
  <1>. HIDE DEF d
  <1>3. /\ c.governor /\ c.airspace
        /\ ~Localnet => \A k \in Crank, flag \in Permission \ {"OPERATE_VAULTS"} :
                            flag \in c.permit[k] <=> flag \in Wanted(goal, k)
    BY Zenon DEF MatchIn
  <1>4. /\ d.governor /\ d.airspace /\ c.adapters \subseteq d.adapters /\ c.mints \subseteq d.mints
        /\ c.infos \subseteq d.infos
        /\ ~Localnet => \A k \in Crank, flag \in Permission \ {"OPERATE_VAULTS"} :
                            flag \in d.permit[k] <=> flag \in Wanted(goal, k)
    BY <1>2, <1>3, Zenon
  <1>5. MatchIn(d, goal)
    BY <1>2, <1>4, KeepsMatch, Zenon
  <1>. QED BY <1>5, Zenon DEF d, v

LEMMA ConfiguredPoolKeeps ==
  ASSUME NEW goal, IsGoal(goal), NEW c, ChainOK(c), MatchIn(c, goal), NEW desc \in Pooled(goal)
  PROVE  MatchIn(ConfiguredPool(c, desc.token, desc), goal)
  <1>. DEFINE t == desc.token
              p == [exists |-> TRUE, params |-> desc.pool, oracle |-> desc.oracle]
              D == MetadataEntry("new", "Collateral", desc.weight, desc.staleness, desc.features)
              L == MetadataEntry("new", "Claim", desc.leverage, desc.staleness, desc.features)
              o == desc.oracle
              d == [c EXCEPT !.pool[t] = p, !.entry[MintOf(t)].oracle = o,
                             !.entry[Deposit(t)] = D, !.entry[Loan(t)] = L]
  <1>1. ConfiguredPool(c, t, desc) = d
    BY Zenon DEF ConfiguredPool
  <1>2. t \in Token /\ desc \in ToSet(goal.tokens) /\ desc.pool # "none"
    BY Zenon DEF Pooled
  <1>3. c.pool[t] = p /\ c.entry[Deposit(t)] = D /\ c.entry[Loan(t)] = L
    <2>1. /\ c.pool[t] = p
          /\ NoteMatches(c, Deposit(t), D, DepositUpdate(desc))
          /\ NoteMatches(c, Loan(t), L, LoanUpdate(desc))
      BY <1>2, NotesOf
    <2>. HIDE DEF p, D, L, t, o
    <2>2. \A n, e, w : NoteMatches(c, n, e, w) => c.entry[n] = e
      BY Zenon DEF NoteMatches
    <2>. QED BY <2>1, <2>2, Zenon
  <1>. HIDE DEF p, D, L, t, o
  <1>4. /\ d.governor = c.governor /\ d.airspace = c.airspace /\ d.adapters = c.adapters
        /\ d.mints = c.mints /\ d.infos = c.infos /\ d.permit = c.permit /\ d.config = c.config
        /\ \A s \in Token : d.pool[s] = c.pool[s]
        /\ \A m \in Mint : m # MintOf(t) => d.entry[m] = c.entry[m]
    BY <1>2, <1>3, MintsOf DEF ChainOK, HaveFields
  <1>. HIDE DEF d
  <1>5. /\ \A s \in Token : /\ d.pool[s] = c.pool[s]
                            /\ d.entry[Deposit(s)] = c.entry[Deposit(s)]
                            /\ d.entry[Loan(s)] = c.entry[Loan(s)]
        /\ \A m \in Mint : d.config[m] = c.config[m]
    BY <1>4, MintsOf, NotesDiffer
  <1>6. /\ c.governor /\ c.airspace
        /\ ~Localnet => \A k \in Crank, flag \in Permission \ {"OPERATE_VAULTS"} :
                            flag \in c.permit[k] <=> flag \in Wanted(goal, k)
    BY Zenon DEF MatchIn
  <1>7. /\ d.governor /\ d.airspace /\ c.adapters \subseteq d.adapters /\ c.mints \subseteq d.mints
        /\ c.infos \subseteq d.infos
        /\ ~Localnet => \A k \in Crank, flag \in Permission \ {"OPERATE_VAULTS"} :
                            flag \in d.permit[k] <=> flag \in Wanted(goal, k)
    BY <1>4, <1>6, Zenon
  <1>8. MatchIn(d, goal)
    BY <1>5, <1>7, KeepsMatch
  <1>. QED BY <1>1, <1>8, Zenon DEF t

\* The instructions that do not migrate.
Steady(ix) == ix.op \notin {"migrate_token_config", "set_entry"}

LEMMA EffectKeeps ==
  ASSUME NEW goal, IsGoal(goal), NEW c, ChainOK(c), MatchIn(c, goal),
         NEW ix, IsPlanned(ix, goal), Steady(ix), Accepts(c, ix)
  PROVE  MatchIn(Effect(c, ix), goal)
  <1>1. /\ c.governor /\ c.airspace
        /\ DOMAIN c = {"governor", "airspace", "mints", "infos", "adapters", "permit", "config",
                       "pool", "entry"}
    BY DEF MatchIn, ChainOK, HaveFields
  <1>2. CASE ix.op = "create_governor_id"
    <2>. DEFINE d == [c EXCEPT !.governor = TRUE]
    <2>1. Effect(c, ix) = d
      BY <1>2, Zenon DEF Effect
    <2>2. /\ d.governor /\ d.airspace /\ d.adapters = c.adapters /\ d.mints = c.mints
          /\ d.infos = c.infos /\ d.permit = c.permit /\ d.config = c.config
          /\ d.pool = c.pool /\ d.entry = c.entry
      BY <1>1
    <2>. HIDE DEF d
    <2>. QED BY <2>1, <2>2, KeepsMore
  <1>3. CASE ix.op = "create_airspace"
    BY <1>1, <1>3, Zenon DEF Accepts
  <1>4. CASE ix.op = "configure_adapter"
    <2>. DEFINE d == [c EXCEPT !.adapters = @ \cup {ix.adapter}]
    <2>1. Effect(c, ix) = d
      BY <1>4, Zenon DEF Effect
    <2>2. /\ d.governor /\ d.airspace /\ c.adapters \subseteq d.adapters /\ d.mints = c.mints
          /\ d.infos = c.infos /\ d.permit = c.permit /\ d.config = c.config
          /\ d.pool = c.pool /\ d.entry = c.entry
      BY <1>1
    <2>. HIDE DEF d
    <2>. QED BY <2>1, <2>2, KeepsMore
  <1>10. CASE ix.op = "token_init_native" /\ ix.mint \in Mint
    <2>. DEFINE d == [c EXCEPT !.infos = @ \cup {ix.mint}]
    <2>1. Effect(c, ix) = d
      BY <1>10, Zenon DEF Effect, InitializedNative
    <2>2. /\ d.governor /\ d.airspace /\ d.adapters = c.adapters /\ d.mints = c.mints
          /\ c.infos \subseteq d.infos /\ d.permit = c.permit /\ d.config = c.config
          /\ d.pool = c.pool /\ d.entry = c.entry
      BY <1>1
    <2>. HIDE DEF d
    <2>. QED BY <2>1, <2>2, KeepsMore
  <1>5. CASE ix.op = "token_create" /\ ix.mint \in Mint
    <2>. DEFINE d == [c EXCEPT !.mints = @ \cup {ix.mint}, !.infos = @ \cup {ix.mint}]
    <2>1. Effect(c, ix) = d
      BY <1>5, Zenon DEF Effect, CreatedToken
    <2>2. /\ d.governor /\ d.airspace /\ d.adapters = c.adapters /\ c.mints \subseteq d.mints
          /\ c.infos \subseteq d.infos /\ d.permit = c.permit /\ d.config = c.config
          /\ d.pool = c.pool /\ d.entry = c.entry
      BY <1>1
    <2>. HIDE DEF d
    <2>. QED BY <2>1, <2>2, KeepsMore
  <1>6. CASE ix.op = "configure_token" /\ IsUpdate(ix.mint, ix.update, goal)
    <2>1. Effect(c, ix)
            = [c EXCEPT !.config[ix.mint] = Margin!AppliedUpdate(c.config[ix.mint], ix.update)]
      BY <1>6, Zenon DEF Effect
    <2>. DEFINE m == ix.mint
                u == ix.update
    <2>2. IsUpdate(m, u, goal)
      BY <1>6, Zenon
    <2>. HIDE DEF m, u
    <2>3. MatchIn([c EXCEPT !.config[m] = Margin!AppliedUpdate(c.config[m], u)], goal)
      BY <2>2, UpdateKeeps
    <2>. QED BY <2>1, <2>3, Zenon DEF m, u
  <1>7. CASE ix.op = "create_pool" /\ \E desc \in Pooled(goal) : ix.token = desc.token
    <2>1. PICK desc \in Pooled(goal) : ix.token = desc.token
      BY <1>7
    <2>2. ~c.pool[ix.token].exists
      BY <1>7, Zenon DEF Accepts
    <2>3. c.pool[desc.token] = [exists |-> TRUE, params |-> desc.pool, oracle |-> desc.oracle]
      BY NotesOf DEF Pooled
    <2>. QED BY <2>1, <2>2, <2>3
  <1>8. CASE ix.op = "configure_pool" /\ ix.desc \in Pooled(goal) /\ ix.token = ix.desc.token
    <2>1. Effect(c, ix) = ConfiguredPool(c, ix.desc.token, ix.desc)
      BY <1>8, Zenon DEF Effect
    <2>. QED BY <1>8, <2>1, ConfiguredPoolKeeps, Zenon
  <1>9. CASE /\ ix.op = "configure_permit" /\ ix.flag \in Permission \ {"OPERATE_VAULTS"}
             /\ ix.enable = (ix.flag \in Wanted(goal, ix.crank))
    <2>1. Effect(c, ix) = [c EXCEPT !.permit[ix.crank] =
                              ConfiguredPermit(c.permit[ix.crank], ix.flag, ix.enable)]
      BY <1>9, Zenon DEF Effect
    <2>2. Effect(c, ix) = [c EXCEPT !.permit[ix.crank] =
                              ConfiguredPermit(c.permit[ix.crank], ix.flag,
                                               ix.flag \in Wanted(goal, ix.crank))]
      BY <1>9, <2>1, Zenon
    <2>. DEFINE k == ix.crank
                flag == ix.flag
    <2>3. flag \in Permission \ {"OPERATE_VAULTS"}
      BY <1>9, Zenon
    <2>. HIDE DEF k, flag
    <2>4. MatchIn([c EXCEPT !.permit[k] = ConfiguredPermit(c.permit[k], flag,
                                                         flag \in Wanted(goal, k))], goal)
      BY <2>3, PermitKeeps
    <2>. QED BY <2>2, <2>4, Zenon DEF k, flag
  <1>. QED
    BY <1>2, <1>3, <1>4, <1>5, <1>6, <1>7, <1>8, <1>9, <1>10
       DEF IsPlanned, IsInitializer, Steady

LEMMA ExecuteKeeps ==
  ASSUME NEW goal, IsGoal(goal), NEW s, IsRunning(s), MatchIn(s.chain, goal),
         NEW ix, IsPlanned(ix, goal), Steady(ix)
  PROVE  MatchIn(Execute(s, ix).chain, goal)
  <1>1. CASE ~s.ok \/ (ix.wrapped /\ Initialized(s.chain, ix))
    BY <1>1, Zenon DEF Execute
  <1>2. CASE ~(~s.ok \/ (ix.wrapped /\ Initialized(s.chain, ix))) /\ ~Accepts(s.chain, ix)
    <2>1. Execute(s, ix) = [s EXCEPT !.ok = FALSE]
      BY <1>2, Zenon DEF Execute
    <2>2. \A v : [s EXCEPT !.ok = v].chain = s.chain
      BY DEF IsRunning
    <2>. QED BY <2>1, <2>2, Zenon
  <1>3. CASE ~(~s.ok \/ (ix.wrapped /\ Initialized(s.chain, ix))) /\ Accepts(s.chain, ix)
    <2>1. Execute(s, ix) = [s EXCEPT !.chain = Effect(s.chain, ix)]
      BY <1>3, Zenon DEF Execute
    <2>2. MatchIn(Effect(s.chain, ix), goal)
      BY <1>3, EffectKeeps, Zenon DEF IsRunning
    <2>3. \A v : [s EXCEPT !.chain = v].chain = v
      BY DEF IsRunning
    <2>. QED BY <2>1, <2>2, <2>3, Zenon
  <1>. QED BY <1>1, <1>2, <1>3, Zenon

LEMMA TransactionKeeps ==
  ASSUME NEW goal, IsGoal(goal), NEW ixs, IsIxs(ixs, goal), \A ix \in ToSet(ixs) : Steady(ix),
         ChainOK(chain), MatchIn(chain, goal)
  PROVE  MatchIn(Transaction(ixs).chain, goal)
  <1>. DEFINE N == Len(ixs)
  <1>1. /\ N \in Nat /\ \A i \in 1 .. N : IsPlanned(ixs[i], goal) /\ Steady(ixs[i])
    BY SeqFacts DEF IsIxs
  <1>2. PICK g : /\ g = [i \in 0 .. N |-> IF i = 0 THEN [ok |-> TRUE, chain |-> chain]
                                           ELSE Execute(g[i - 1], ixs[i])]
                 /\ Transaction(ixs) = g[N]
    BY <1>1, TransactionIsDefined
  <1>. HIDE DEF N
  <1>. DEFINE Fits(s) == IsRunning(s) /\ MatchIn(s.chain, goal)
  <1>3. Fits(g[0]) /\ \A i \in 1 .. N : g[i] = Execute(g[i - 1], ixs[i])
    <2>. DEFINE s == [ok |-> TRUE, chain |-> chain]
    <2>1. IsRunning(s) /\ s.chain = chain
      BY DEF IsRunning
    <2>2. Fits(s) /\ g = [i \in 0 .. N |-> IF i = 0 THEN s ELSE Execute(g[i - 1], ixs[i])]
      BY <1>2, <2>1, Zenon
    <2>. HIDE DEF s, Fits
    <2>. QED BY <1>1, <2>2
  <1>. DEFINE S == {n \in Nat : n <= N => Fits(g[n])}
  <1>4. 0 \in S
    <2>. HIDE DEF Fits
    <2>. QED BY <1>3
  <1>5. ASSUME NEW n \in Nat, n \in S
        PROVE  n + 1 \in S
    <2>. SUFFICES ASSUME n + 1 <= N
                  PROVE  Fits(g[n + 1])
      OBVIOUS
    <2>1. n + 1 \in 1 .. N /\ Fits(g[n])
      <3>. HIDE DEF Fits
      <3>. QED BY <1>5, <1>1
    <2>2. g[n + 1] = Execute(g[n], ixs[n + 1])
      <3>. HIDE DEF Fits
      <3>. QED BY <1>3, <2>1
    <2>3. IsPlanned(ixs[n + 1], goal) /\ Steady(ixs[n + 1])
      BY <1>1, <2>1, Zenon
    <2>4. IsRunning(Execute(g[n], ixs[n + 1])) /\ MatchIn(Execute(g[n], ixs[n + 1]).chain, goal)
      BY <2>1, <2>3, ExecuteOK, ExecuteKeeps, Zenon
    <2>. QED BY <2>2, <2>4, Zenon
  <1>6. Nat \subseteq S
    <2>. HIDE DEF S
    <2>. QED BY <1>4, <1>5, SetInduction
  <1>7. Fits(g[N])
    <2>. HIDE DEF Fits
    <2>. QED BY <1>6, <1>1
  <1>. QED BY <1>2, <1>7, Zenon

\* What is outstanding is steady if no migration is.
LEMMA NotMigrating ==
  ASSUME NEW ixs, IsSeq(ixs), ~Migrates(ixs)
  PROVE  \A ix \in ToSet(ixs) : Steady(ix)
  <1>1. /\ DOMAIN ixs = 1 .. Len(ixs)
        /\ \A ix \in ToSet(ixs) : \E i \in 1 .. Len(ixs) : ix = ixs[i]
    BY SeqFacts
  <1>2. \A i \in DOMAIN ixs : ixs[i].op \notin {"migrate_token_config", "set_entry"}
    BY Zenon DEF Migrates
  <1>. QED BY <1>1, <1>2, Zenon DEF Steady

LEMMA OutstandingIsSteady ==
  ASSUME EnvironmentInv, \A ixs \in Outstanding : ~Migrates(ixs)
  PROVE  /\ \A o \in Operator : op[o].pc = "sending" =>
                \A ixs \in ToSet(op[o].plan) : \A ix \in ToSet(ixs) : Steady(ix)
         /\ \A p \in DOMAIN proposals : proposals[p].open =>
                \A ix \in ToSet(proposals[p].ixs) : Steady(ix)
  <1>1. ASSUME NEW o \in Operator, op[o].pc = "sending", NEW ixs \in ToSet(op[o].plan)
        PROVE  \A ix \in ToSet(ixs) : Steady(ix)
    <2>1. ixs \in Outstanding
      <3>1. o \in {a \in Operator : op[a].pc \in {"reading", "setup", "sending"}}
        BY <1>1
      <3>. QED BY <1>1, <3>1, Zenon DEF Outstanding
    <2>2. IsSeq(ixs)
      BY <1>1, InvFacts, Zenon DEF OperatorFits, IsPlans, IsIxs
    <2>. QED BY <2>1, <2>2, NotMigrating, Zenon
  <1>2. ASSUME NEW p \in DOMAIN proposals, proposals[p].open
        PROVE  \A ix \in ToSet(proposals[p].ixs) : Steady(ix)
    <2>1. proposals[p].ixs \in Outstanding
      <3>1. p \in {q \in DOMAIN proposals : proposals[q].open}
        BY <1>2
      <3>. QED BY <3>1, Zenon DEF Outstanding
    <2>2. IsProposal(proposals[p])
      BY SeqFacts DEF EnvironmentInv, ProposalsOK
    <2>3. IsSeq(proposals[p].ixs)
      BY <2>2, Zenon DEF IsProposal, IsIxs
    <2>. QED BY <2>1, <2>3, NotMigrating, Zenon
  <1>. QED BY <1>1, <1>2, Zenon

\* The accounts match, everybody follows the description and nobody migrates.
Settled ==
    Matches(target) /\ AllFollowTarget /\ \A ixs \in Outstanding : ~Migrates(ixs)

LEMMA TargetIsGoal ==
  ASSUME EnvironmentInv
  PROVE  IsGoal(target) /\ ChainOK(chain)
  BY TargetsAreGoals, Zenon DEF EnvironmentInv, BoundsOK

LEMMA SendSetupKeeps ==
  ASSUME EnvironmentInv, Settled, NEW o \in Operator, NEW n \in 1 .. Len(op[o].setup),
         SendSetup(o, n)
  PROVE  MatchIn(chain', target) /\ setting' = setting
  <1>. DEFINE s == op[o].setup
              ixs == SubSeq(s, 1, n)
              tx == Transaction(ixs)
  <1>1. /\ chain' = IF tx.ok THEN tx.chain ELSE chain
        /\ setting' = setting
    BY Zenon DEF SendSetup
  <1>2. IsSeq(s) /\ n \in 1 .. Len(s) /\ \A ix \in ToSet(s) : IsInitializer(ix)
    BY InvFacts, Zenon DEF OperatorFits, IsSetup
  <1>. HIDE DEF s
  <1>3. IsSetup(ixs)
    BY <1>2, SeqParts, Zenon DEF IsSetup
  <1>. HIDE DEF ixs
  <1>4. IsIxs(ixs, target) /\ \A ix \in ToSet(ixs) : Steady(ix)
    <2>1. \A ix : IsInitializer(ix) => Steady(ix)
      BY DEF IsInitializer, Steady
    <2>. QED BY <1>3, <2>1, SetupIsPlanned, Zenon DEF IsSetup
  <1>5. MatchIn(chain, target)
    BY Zenon DEF Settled, Matches
  <1>6. MatchIn(tx.chain, target)
    BY <1>4, <1>5, TargetIsGoal, TransactionKeeps
  <1>. QED BY <1>1, <1>5, <1>6, Zenon

LEMMA SendGroupKeeps ==
  ASSUME EnvironmentInv, Settled, NEW o \in Operator, NEW n \in 1 .. Len(op[o].plan),
         SendGroup(o, n)
  PROVE  MatchIn(chain', target) /\ setting' = setting
  <1>. DEFINE s == op[o].plan
              ps == SubSeq(s, 1, n)
              ixs == FlattenSeq(ps)
              tx == Transaction(ixs)
  <1>1. /\ chain' = IF tx.ok THEN tx.chain ELSE chain
        /\ setting' = setting /\ op[o].pc = "sending"
    BY Zenon DEF SendGroup
  <1>2. op[o].goal = target
    BY <1>1 DEF Settled, AllFollowTarget
  <1>3. IsPlans(s, target) /\ n \in 1 .. Len(s)
    BY <1>2, InvFacts, Zenon DEF OperatorFits
  <1>4. \A x \in ToSet(s) : \A ix \in ToSet(x) : Steady(ix)
    BY <1>1, OutstandingIsSteady, Zenon DEF Settled
  <1>. HIDE DEF s
  <1>5. IsSeq(ps) /\ \A x \in ToSet(ps) : x \in ToSet(s)
    BY <1>3, SeqParts, Zenon DEF IsPlans
  <1>. HIDE DEF ps
  <1>6. IsPlans(ps, target)
    BY <1>3, <1>5, Zenon DEF IsPlans
  <1>7. IsIxs(ixs, target)
    BY <1>6, IxsFlatten, Zenon
  <1>8. \A ix \in ToSet(ixs) : Steady(ix)
    <2>1. IsSeq(ps) /\ \A x \in ToSet(ps) : IsSeq(x)
      BY <1>6, Zenon DEF IsPlans, IsIxs
    <2>2. \A ix \in ToSet(ixs) : \E x \in ToSet(ps) : ix \in ToSet(x)
      BY <2>1, SeqFlatten, Zenon
    <2>. QED BY <1>4, <1>5, <2>2, Zenon
  <1>. HIDE DEF ixs
  <1>9. MatchIn(chain, target)
    BY Zenon DEF Settled, Matches
  <1>10. MatchIn(tx.chain, target)
    BY <1>7, <1>8, <1>9, TargetIsGoal, TransactionKeeps
  <1>. QED BY <1>1, <1>9, <1>10, Zenon

LEMMA ExecuteProposalKeeps ==
  ASSUME EnvironmentInv, Settled, NEW p \in DOMAIN proposals, ExecuteProposal(p)
  PROVE  MatchIn(chain', target) /\ setting' = setting
  <1>. DEFINE ixs == proposals[p].ixs
              tx == Transaction(ixs)
  <1>1. chain' = tx.chain /\ setting' = setting /\ proposals[p].open
    BY Zenon DEF ExecuteProposal
  <1>2. proposals[p].goal = target
    BY <1>1, Zenon DEF Settled, AllFollowTarget
  <1>3. IsProposal(proposals[p])
    BY SeqFacts DEF EnvironmentInv, ProposalsOK
  <1>4. IsIxs(ixs, target)
    BY <1>2, <1>3, Zenon DEF IsProposal
  <1>5. \A ix \in ToSet(ixs) : Steady(ix)
    BY <1>1, OutstandingIsSteady, Zenon DEF Settled
  <1>. HIDE DEF ixs
  <1>6. MatchIn(chain, target)
    BY Zenon DEF Settled, Matches
  <1>7. MatchIn(tx.chain, target)
    BY <1>4, <1>5, <1>6, TargetIsGoal, TransactionKeeps
  <1>. QED BY <1>1, <1>7, Zenon

\* The other steps leave the accounts alone.
LEMMA StepKeeps ==
  ASSUME EnvironmentInv, Settled, [EnvironmentNext]_environmentVars
  PROVE  MatchIn(chain', target) /\ setting' = setting
  <1>1. MatchIn(chain, target)
    BY Zenon DEF Settled, Matches
  <1>2. ASSUME NEW o \in Operator,
               StartRun(o) \/ ReadStage(o) \/ SetupEnds(o) \/ Finish(o) \/ Crash(o) \/ SubmitProposal(o)
        PROVE  chain' = chain /\ setting' = setting
    BY <1>2, Zenon DEF StartRun, ReadStage, SetupEnds, Finish, Crash, SubmitProposal
  <1>3. ASSUME NEW goal \in setting.targets, Retarget(goal)
        PROVE  chain' = chain /\ setting' = setting
    BY <1>3, Zenon DEF Retarget
  <1>4. UNCHANGED environmentVars => chain' = chain /\ setting' = setting
    BY Zenon DEF environmentVars
  <1>. QED BY <1>1, <1>2, <1>3, <1>4, SendSetupKeeps, SendGroupKeeps, ExecuteProposalKeeps, Zenon
       DEF EnvironmentNext

\* Nothing planned from accounts as they were earlier, by a run that crashed or a
\* proposal executed late, undoes a configuration that is in place, as long as
\* nobody follows another description and no migration is outstanding
\* (environment/src/builder: the builder compares and then sets).
THEOREM ConfigurationStays == EnvironmentSpec => ConfiguredStaysConfigured
  <1>. DEFINE A == Settled /\ target' = target => Matches(target)'
  <1>1. ASSUME EnvironmentInv, [EnvironmentNext]_environmentVars
        PROVE  A
    <2>. SUFFICES ASSUME Settled, target' = target
                  PROVE  Matches(target)'
      OBVIOUS
    <2>1. MatchIn(chain', target) /\ setting' = setting
      BY <1>1, StepKeeps, Zenon
    <2>. QED BY <2>1 DEF Matches, MatchIn, NoteMatches, Localnet, Margin!AppliedUpdate
  <1>. HIDE DEF A
  <1>2. EnvironmentInv /\ [EnvironmentNext]_environmentVars => [A]_environmentVars
    BY <1>1
  <1>3. EnvironmentSpec => [][A]_environmentVars
    BY <1>2, EnvironmentInvariance, PTL DEF EnvironmentSpec
  <1>. QED BY <1>3 DEF ConfiguredStaysConfigured, A, Settled
=============================================================================
