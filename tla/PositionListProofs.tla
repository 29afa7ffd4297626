------------------------- MODULE PositionListProofs -------------------------
(***************************************************************************)
(* Proofs about the position registry, for every capacity and every set of *)
(* mints: the sorted keys and the slots stay in step, add() never writes   *)
(* past the end of the key array, and the arrays implement PositionMap.    *)
(***************************************************************************)
EXTENDS PositionList, FiniteSetTheorems, WellFoundedInduction, TLAPS

\* The inductive invariant: the type and the two facts that relate the
\* arrays.  That a free slot means room in the key array follows from it.
IndInv == TypeOK /\ MapSorted /\ KeysMatchSlots

-----------------------------------------------------------------------------

\* A nonempty set of naturals has a least element.
LEMMA LeastElement ==
    ASSUME NEW S \in SUBSET Nat, S # {}
    PROVE  \E x \in S : \A y \in S : x <= y
<1> DEFINE R == {ss \in Nat \X Nat : ss[1] < ss[2]}
<1>1. IsWellFoundedOn(R, Nat)
      BY NatLessThanWellFounded, Zenon DEF OpToRel
<1> HIDE DEF R
<1>2. PICK x \in S : \A y \in S : ~(<<y, x>> \in R)
      BY <1>1, WFMin, Zenon
<1>3. \A y \in S : ~(y < x)
      BY <1>2 DEF R
<1>4. QED
      BY <1>3

\* An injective function from 0 .. n-1 to itself reaches every element: the
\* rearrangement made by the sort loses no key.
LEMMA InjectionIsOnto ==
    ASSUME NEW n \in Nat,
           NEW p \in [0 .. n - 1 -> 0 .. n - 1],
           \A i, j \in 0 .. n - 1 : p[i] = p[j] => i = j
    PROVE  \A k \in 0 .. n - 1 : \E i \in 0 .. n - 1 : p[i] = k
<1>1. SUFFICES ASSUME NEW k \in 0 .. n - 1, \A i \in 0 .. n - 1 : p[i] # k
               PROVE  FALSE
      OBVIOUS
<1>2. p \in [0 .. n - 1 -> (0 .. n - 1) \ {k}]
      BY <1>1
<1>3. IsFiniteSet(0 .. n - 1) /\ Cardinality(0 .. n - 1) = n
      BY FS_Interval
<1>4. /\ IsFiniteSet((0 .. n - 1) \ {k})
      /\ Cardinality((0 .. n - 1) \ {k}) = Cardinality(0 .. n - 1) - 1
      BY <1>3, FS_RemoveElement, Zenon
<1>5. Cardinality((0 .. n - 1) \ {k}) < Cardinality(0 .. n - 1)
      BY <1>3, <1>4
<1>6. \E x, y \in 0 .. n - 1 : x # y /\ p[x] = p[y]
      BY <1>2, <1>3, <1>4, <1>5, FS_PigeonHole
<1>7. QED
      BY <1>6

\* What sorting does to a prefix that is sorted up to its last key, when that
\* key's mint is new: the prefix becomes strictly sorted and keeps its keys.
LEMMA SortPrefixSorts ==
    ASSUME NEW n \in 1 .. Capacity,
           NEW keys \in [Slot -> AccountPositionKey],
           \A i, j \in 0 .. n - 2 : i < j => keys[i].mint < keys[j].mint,
           \A i \in 0 .. n - 2 : keys[i].mint # keys[n - 1].mint
    PROVE  LET s == SortPrefix(keys, n)
           IN  /\ s \in [Slot -> AccountPositionKey]
               /\ \A i, j \in 0 .. n - 1 : i < j => s[i].mint < s[j].mint
               /\ \A i \in 0 .. n - 1 : \E j \in 0 .. n - 1 : s[i] = keys[j]
               /\ \A j \in 0 .. n - 1 : \E i \in 0 .. n - 1 : s[i] = keys[j]
               /\ \A i \in Slot : i >= n => s[i] = keys[i]
<1> USE PositionListAssumption
<1> DEFINE Rearranges(p) ==
               /\ \A i, j \in 0 .. n - 1 : p[i] = p[j] => i = j
               /\ \A i, j \in 0 .. n - 1 :
                        i < j => keys[p[i]].mint <= keys[p[j]].mint
           Later == {i \in 0 .. n - 1 : i = n - 1 \/ keys[n - 1].mint < keys[i].mint}
<1>a. Mint \cup {Default} \subseteq Nat
      BY DEF Default
<1>b. \A i \in Slot : keys[i] \in AccountPositionKey /\ keys[i].mint \in Nat
      BY <1>a DEF AccountPositionKey
<1>0. /\ n \in Nat /\ n - 1 \in Nat
      /\ 0 .. n - 1 \subseteq Slot
      /\ \A i \in Slot : keys[i].mint \in Nat /\ keys[i] \in AccountPositionKey
      BY <1>b DEF Slot
<1>1. \E p \in [0 .. n - 1 -> 0 .. n - 1] : Rearranges(p)
  <2>1. PICK k \in Later : \A m \in Later : k <= m
    <3>1. Later \in SUBSET Nat /\ n - 1 \in Later
          BY <1>0
    <3>2. QED
          BY <3>1, LeastElement
  <2>2. k \in 0 .. n - 1
        OBVIOUS
  <2> HIDE DEF Later
  <2> DEFINE q == [i \in 0 .. n - 1 |-> IF i < k THEN i
                                        ELSE IF i = k THEN n - 1 ELSE i - 1]
  <2>3. q \in [0 .. n - 1 -> 0 .. n - 1]
        BY <1>0, <2>2
  <2>4. \A i, j \in 0 .. n - 1 : q[i] = q[j] => i = j
        BY <1>0, <2>2
  <2>5. \A i \in 0 .. n - 1 : i < k => keys[i].mint < keys[n - 1].mint
        BY <1>0, <2>1, <2>2 DEF Later
  <2>6. \A i \in 0 .. n - 2 : i >= k => keys[n - 1].mint < keys[i].mint
    <3>1. SUFFICES ASSUME NEW i \in 0 .. n - 2, i >= k
                   PROVE  keys[n - 1].mint < keys[i].mint
          OBVIOUS
    <3>2. keys[n - 1].mint < keys[k].mint
          BY <1>0, <2>1, <2>2, <3>1 DEF Later
    <3>3. QED
          BY <1>0, <2>2, <3>1, <3>2
  <2>7. \A i, j \in 0 .. n - 1 : i < j => keys[q[i]].mint <= keys[q[j]].mint
    <3>1. SUFFICES ASSUME NEW i \in 0 .. n - 1, NEW j \in 0 .. n - 1, i < j
                   PROVE  keys[q[i]].mint <= keys[q[j]].mint
          OBVIOUS
    <3>2. CASE j < k
          BY <1>0, <2>2, <3>1, <3>2
    <3>3. CASE j = k
          BY <1>0, <2>2, <2>5, <3>1, <3>3
    <3>4. CASE j > k /\ i < k
          BY <1>0, <2>2, <3>1, <3>4
    <3>5. CASE j > k /\ i = k
          BY <1>0, <2>2, <2>6, <3>1, <3>5
    <3>6. CASE j > k /\ i > k
          BY <1>0, <2>2, <3>1, <3>6
    <3>7. QED
          BY <2>2, <3>1, <3>2, <3>3, <3>4, <3>5, <3>6
  <2>8. Rearranges(q)
        BY <2>4, <2>7
  <2>9. QED
        BY <2>3, <2>8
<1>2. PICK p \in [0 .. n - 1 -> 0 .. n - 1] :
         /\ \A i, j \in 0 .. n - 1 : p[i] = p[j] => i = j
         /\ \A i, j \in 0 .. n - 1 : i < j => keys[p[i]].mint <= keys[p[j]].mint
         /\ SortPrefix(keys, n) = [i \in Slot |-> IF i < n THEN keys[p[i]] ELSE keys[i]]
      BY <1>1, Zenon DEF SortPrefix
<1>3. PICK s : s = SortPrefix(keys, n)
      OBVIOUS
<1> HIDE DEF Rearranges, Later
<1>4. /\ \A i \in 0 .. n - 1 : p[i] \in 0 .. n - 1 /\ s[i] = keys[p[i]]
      /\ \A i \in Slot : i >= n => s[i] = keys[i]
      /\ DOMAIN s = Slot
      BY <1>0, <1>2, <1>3 DEF Slot
<1>5. s \in [Slot -> AccountPositionKey]
      BY <1>0, <1>2, <1>3 DEF Slot
<1>6. \A i, j \in 0 .. n - 1 : i < j => keys[i].mint # keys[j].mint
  <2>1. SUFFICES ASSUME NEW i \in 0 .. n - 1, NEW j \in 0 .. n - 1, i < j
                 PROVE  keys[i].mint # keys[j].mint
        OBVIOUS
  <2>2. i \in 0 .. n - 2 /\ keys[i].mint \in Nat /\ keys[j].mint \in Nat
        BY <1>0, <2>1
  <2>3. CASE j = n - 1
        BY <2>2, <2>3
  <2>4. CASE j \in 0 .. n - 2
    <3>1. keys[i].mint < keys[j].mint
          BY <2>1, <2>2, <2>4, Zenon
    <3>2. \A a, b \in Nat : a < b => a # b
          OBVIOUS
    <3>3. QED
          BY <2>2, <3>1, <3>2, Zenon
  <2>5. QED
        BY <1>0, <2>1, <2>3, <2>4
<1>7. \A i, j \in 0 .. n - 1 : i < j => s[i].mint < s[j].mint
  <2>1. SUFFICES ASSUME NEW i \in 0 .. n - 1, NEW j \in 0 .. n - 1, i < j
                 PROVE  s[i].mint < s[j].mint
        OBVIOUS
  <2>2. p[i] # p[j] /\ keys[p[i]].mint <= keys[p[j]].mint
        BY <1>2, <2>1
  <2>3. /\ p[i] \in 0 .. n - 1 /\ s[i] = keys[p[i]]
        /\ p[j] \in 0 .. n - 1 /\ s[j] = keys[p[j]]
        BY <1>4, <2>1
  <2>4. keys[p[i]].mint \in Nat /\ keys[p[j]].mint \in Nat
        BY <1>0, <2>3
  <2>5. keys[p[i]].mint # keys[p[j]].mint
    <3>1. p[i] < p[j] \/ p[j] < p[i]
          BY <1>0, <2>2, <2>3
    <3>2. QED
          BY <1>6, <2>3, <3>1
  <2>6. \A a, b \in Nat : a <= b /\ a # b => a < b
        OBVIOUS
  <2>7. keys[p[i]].mint < keys[p[j]].mint
        BY <2>2, <2>4, <2>5, <2>6, Zenon
  <2>8. QED
        BY <2>3, <2>7, Zenon
<1>8. \A j \in 0 .. n - 1 : \E i \in 0 .. n - 1 : s[i] = keys[j]
  <2>1. TAKE j \in 0 .. n - 1
  <2>2. \A k \in 0 .. n - 1 : \E i \in 0 .. n - 1 : p[i] = k
    <3>1. n \in Nat /\ p \in [0 .. n - 1 -> 0 .. n - 1]
          BY <1>0
    <3>2. \A i, j2 \in 0 .. n - 1 : p[i] = p[j2] => i = j2
          BY <1>2, Zenon
    <3> HIDE <1>0, <1>2
    <3>3. QED
          BY <3>1, <3>2, InjectionIsOnto, ZenonT(60)
  <2>3. PICK i \in 0 .. n - 1 : p[i] = j
        BY <2>2
  <2>4. QED
        BY <1>4, <2>3
<1>9. QED
      BY <1>3, <1>4, <1>5, <1>7, <1>8

-----------------------------------------------------------------------------

\* The types of the parts, in the form the provers use.
LEMMA TypeFacts ==
    ASSUME IndInv
    PROVE  /\ length \in Nat /\ length <= Capacity /\ Capacity \in Nat
           /\ 0 .. length - 1 \subseteq Slot
           /\ \A i \in Slot : /\ map[i] \in AccountPositionKey
                              /\ map[i].index \in Slot
                              /\ map[i].mint \in Mint \cup {Default}
                              /\ map[i].mint \in Nat
           /\ Mint \cup {Default} \subseteq Nat
<1>1. Mint \cup {Default} \subseteq Nat
      BY PositionListAssumption DEF Default
<1>2. length \in Nat /\ length <= Capacity /\ Capacity \in Nat
      BY PositionListAssumption DEF IndInv, TypeOK
<1>3. 0 .. length - 1 \subseteq Slot
      BY <1>2 DEF Slot
<1>4. \A i \in Slot : /\ map[i] \in AccountPositionKey
                      /\ map[i].index \in Slot
                      /\ map[i].mint \in Mint \cup {Default}
      BY DEF IndInv, TypeOK, AccountPositionKey
<1>5. QED
      BY <1>1, <1>2, <1>3, <1>4

\* Two keys in use never name the same slot: their mints are the slot's.
LEMMA DistinctIndexes ==
    ASSUME IndInv, NEW i \in 0 .. length - 1, NEW j \in 0 .. length - 1, i # j
    PROVE  map[i].index # map[j].index
<1>1. positions[map[i].index].token = map[i].mint /\ positions[map[j].index].token = map[j].mint
      BY DEF IndInv, KeysMatchSlots
<1>2. map[i].mint # map[j].mint
  <2>1. i \in Nat /\ j \in Nat /\ map[i].mint \in Nat /\ map[j].mint \in Nat
        BY TypeFacts
  <2>2. i < j \/ j < i
        BY <2>1
  <2>3. i < j => map[i].mint < map[j].mint
        BY DEF IndInv, MapSorted
  <2>4. j < i => map[j].mint < map[i].mint
        BY DEF IndInv, MapSorted
  <2>5. QED
        BY <2>1, <2>2, <2>3, <2>4
<1>3. QED
      BY <1>1, <1>2

\* The pigeonhole argument: Capacity keys with distinct slots leave none free.
LEMMA InvImpliesRoom == IndInv => FreeSlotMeansRoom
<1>1. SUFFICES ASSUME IndInv, NEW s \in Slot, IsFree(s), length >= Capacity
               PROVE  FALSE
      BY TypeFacts DEF FreeSlotMeansRoom
<1>2. length = Capacity /\ 0 .. length - 1 = Slot
      BY <1>1, TypeFacts DEF Slot
<1> DEFINE f == [i \in Slot |-> map[i].index]
<1>3. f \in [Slot -> Slot \ {s}]
  <2>1. SUFFICES ASSUME NEW i \in Slot
                 PROVE  map[i].index \in Slot \ {s}
        OBVIOUS
  <2>2. map[i].mint # Default /\ positions[map[i].index].token = map[i].mint
        BY <1>1, <1>2 DEF IndInv, KeysMatchSlots
  <2>3. map[i].index # s
        BY <1>1, <2>2 DEF IsFree
  <2>4. QED
        BY <1>1, <2>3, TypeFacts
<1>4. IsFiniteSet(Slot) /\ Cardinality(Slot) \in Nat
      BY FS_Interval, FS_CardinalityType, TypeFacts, <1>1 DEF Slot
<1>5. /\ IsFiniteSet(Slot \ {s})
      /\ Cardinality(Slot \ {s}) = Cardinality(Slot) - 1
      BY <1>4, FS_RemoveElement, Zenon
<1>6. Cardinality(Slot \ {s}) < Cardinality(Slot)
      BY <1>4, <1>5
<1>7. \E x, y \in Slot : x # y /\ f[x] = f[y]
  <2> HIDE DEF f
  <2> QED BY <1>3, <1>4, <1>5, <1>6, FS_PigeonHole
<1>8. QED
      BY <1>1, <1>2, <1>7, DistinctIndexes, ZenonT(60)

\* The slot that add() takes is a free one.
LEMMA FirstFreeIsFree ==
    ASSUME IndInv, \E s \in Slot : IsFree(s)
    PROVE  FirstFree \in Slot /\ IsFree(FirstFree)
<1> DEFINE Free == {s \in Slot : IsFree(s)}
<1>1. Slot \subseteq Nat
      BY DEF Slot
<1>2. Free \in SUBSET Nat /\ Free # {}
      BY <1>1
<1>3. PICK x \in Free : \A y \in Free : x <= y
  <2> HIDE DEF Free
  <2> QED BY <1>2, LeastElement
<1>4. x \in Slot /\ IsFree(x) /\ \A t \in Slot : t < x => ~IsFree(t)
      BY <1>1, <1>3
<1>5. QED
      BY <1>4, Zenon DEF FirstFree

-----------------------------------------------------------------------------

\* What a registration does to the key array: the keys in use afterwards are
\* the old ones and the new one, sorted.
LEMMA RegisterKeys ==
    ASSUME IndInv, NEW m \in Mint, NEW a \in Address, RegisterPosition(m, a)
    PROVE  /\ length < Capacity /\ length' = length + 1
           /\ FirstFree \in Slot /\ IsFree(FirstFree)
           /\ map' \in [Slot -> AccountPositionKey]
           /\ \A i, j \in 0 .. length : i < j => map'[i].mint < map'[j].mint
           /\ \A i \in 0 .. length :
                 \/ \E j \in 0 .. length - 1 : map'[i] = map[j]
                 \/ map'[i] = [mint |-> m, index |-> FirstFree]
           /\ \A j \in 0 .. length - 1 : \E i \in 0 .. length : map'[i] = map[j]
           /\ \E i \in 0 .. length : map'[i] = [mint |-> m, index |-> FirstFree]
           /\ \A i \in Slot : i > length => map'[i] = ZeroedKey
<1> DEFINE new == [mint |-> m, index |-> FirstFree]
           keys == [map EXCEPT ![length] = new]
           n == length + 1
<1>1. length < Capacity /\ length' = length + 1
      BY InvImpliesRoom DEF RegisterPosition, FreeSlotMeansRoom
<1>2. FirstFree \in Slot /\ IsFree(FirstFree)
      BY FirstFreeIsFree DEF RegisterPosition
<1>3. new \in AccountPositionKey
      BY <1>2 DEF AccountPositionKey
<1>4. length \in Slot /\ length \in Nat /\ n \in 1 .. Capacity
      BY <1>1, TypeFacts DEF Slot
<1>5. keys \in [Slot -> AccountPositionKey]
      BY <1>3, <1>4 DEF IndInv, TypeOK
<1>6. /\ \A i \in Slot : i # length => keys[i] = map[i]
      /\ keys[length] = new
      BY <1>4 DEF IndInv, TypeOK
<1>7. 0 .. n - 2 = 0 .. length - 1 /\ n - 1 = length /\ 0 .. n - 1 = 0 .. length
      BY <1>4
<1>8. \A i \in 0 .. length - 1 : keys[i] = map[i]
      BY <1>4, <1>6, TypeFacts
<1>9. \A i, j \in 0 .. n - 2 : i < j => keys[i].mint < keys[j].mint
  <2> HIDE DEF keys, n
  <2> QED BY <1>7, <1>8 DEF IndInv, MapSorted
<1>10. \A i \in 0 .. n - 2 : keys[i].mint # keys[n - 1].mint
  <2>1. \A i \in 0 .. length - 1 : map[i].mint # m
        BY TypeFacts DEF RegisterPosition, HasKey
  <2>2. keys[n - 1].mint = m
        BY <1>6, <1>7
  <2> HIDE DEF keys, n
  <2>3. QED
        BY <1>7, <1>8, <2>1, <2>2
<1>11. PICK s : s = SortPrefix(keys, n)
      OBVIOUS
<1>12. map' = s
      BY <1>11 DEF RegisterPosition
<1> HIDE DEF keys, n, new
<1>13. /\ s \in [Slot -> AccountPositionKey]
       /\ \A i, j \in 0 .. n - 1 : i < j => s[i].mint < s[j].mint
       /\ \A i \in 0 .. n - 1 : \E j \in 0 .. n - 1 : s[i] = keys[j]
       /\ \A j \in 0 .. n - 1 : \E i \in 0 .. n - 1 : s[i] = keys[j]
       /\ \A i \in Slot : i >= n => s[i] = keys[i]
      BY <1>4, <1>5, <1>9, <1>10, <1>11, SortPrefixSorts, ZenonT(60)
<1>14. \A i, j \in 0 .. length : i < j => map'[i].mint < map'[j].mint
  <2>1. \A i, j \in 0 .. n - 1 : i < j => s[i].mint < s[j].mint
        BY <1>13, Zenon
  <2>2. QED
        BY <1>7, <1>12, <2>1, Zenon
<1>15. \A i \in 0 .. length :
          (\E j \in 0 .. length - 1 : map'[i] = map[j]) \/ map'[i] = new
  <2>1. TAKE i \in 0 .. length
  <2>2. PICK j \in 0 .. length : s[i] = keys[j]
        BY <1>7, <1>13
  <2>3. j = length \/ j \in 0 .. length - 1
        BY <1>4
  <2>4. QED
        BY <1>6, <1>8, <1>12, <2>2, <2>3
<1>16. \A j \in 0 .. length - 1 : \E i \in 0 .. length : map'[i] = map[j]
  <2>1. TAKE j \in 0 .. length - 1
  <2>2. j \in 0 .. length
        BY <1>4
  <2>3. QED
        BY <1>7, <1>8, <1>12, <1>13, <2>2
<1>17. \E i \in 0 .. length : map'[i] = new
  <2>1. length \in 0 .. length
        BY <1>4
  <2>2. QED
        BY <1>6, <1>7, <1>12, <1>13, <2>1
<1>18. \A i \in Slot : i > length => map'[i] = ZeroedKey
  <2>1. SUFFICES ASSUME NEW i \in Slot, i > length
                 PROVE  map'[i] = ZeroedKey
        OBVIOUS
  <2>2. i >= n /\ i # length /\ i >= length
        BY <1>4, <2>1 DEF n, Slot
  <2>3. s[i] = map[i]
        BY <1>6, <1>13, <2>2
  <2>4. QED
        BY <1>12, <2>2, <2>3 DEF IndInv, KeysMatchSlots
<1>19. QED
      BY <1>1, <1>2, <1>12, <1>13, <1>14, <1>15, <1>16, <1>17, <1>18 DEF new

\* Registering a position keeps the invariant: add fills the first free slot,
\* appends a key for it and sorts the keys in use.
LEMMA RegisterInv ==
    ASSUME IndInv, NEW m \in Mint, NEW a \in Address, RegisterPosition(m, a)
    PROVE  IndInv'
<1> DEFINE new == [mint |-> m, index |-> FirstFree]
           pos == [token |-> m, address |-> a, balance |-> 0, required |-> FALSE]
<1>1. /\ length < Capacity /\ length' = length + 1
      /\ FirstFree \in Slot /\ IsFree(FirstFree)
      /\ map' \in [Slot -> AccountPositionKey]
      /\ \A i, j \in 0 .. length : i < j => map'[i].mint < map'[j].mint
      /\ \A i \in 0 .. length :
            (\E j \in 0 .. length - 1 : map'[i] = map[j]) \/ map'[i] = new
      /\ \A j \in 0 .. length - 1 : \E i \in 0 .. length : map'[i] = map[j]
      /\ \E i \in 0 .. length : map'[i] = new
      /\ \A i \in Slot : i > length => map'[i] = ZeroedKey
      BY RegisterKeys
<1>2. positions' = [positions EXCEPT ![FirstFree] = pos] /\ liquidating' = liquidating
      BY DEF RegisterPosition
<1>3. length \in Nat /\ 0 .. length' - 1 = 0 .. length
      BY <1>1, TypeFacts
<1>4. pos \in AccountPosition
      BY PositionListAssumption DEF AccountPosition
<1>5. /\ positions' \in [Slot -> AccountPosition]
      /\ positions'[FirstFree] = pos
      /\ \A s \in Slot : s # FirstFree => positions'[s] = positions[s]
      BY <1>1, <1>2, <1>4 DEF IndInv, TypeOK
<1>6. TypeOK'
      BY <1>1, <1>2, <1>5, TypeFacts DEF IndInv, TypeOK
<1>7. MapSorted'
      BY <1>1, <1>3 DEF MapSorted
<1>8. m # Default
      BY PositionListAssumption DEF Default
<1>9. KeysMatchSlots'
  <2>1. \A i \in 0 .. length :
           map'[i].mint # Default /\ positions'[map'[i].index].token = map'[i].mint
    <3>1. TAKE i \in 0 .. length
    <3>2. CASE map'[i] = new
          BY <1>5, <1>8, <3>2
    <3>3. CASE \E j \in 0 .. length - 1 : map'[i] = map[j]
      <4>1. PICK j \in 0 .. length - 1 : map'[i] = map[j]
            BY <3>3
      <4>2. map[j].mint # Default /\ positions[map[j].index].token = map[j].mint
            BY DEF IndInv, KeysMatchSlots
      <4>3. map[j].index \in Slot /\ map[j].index # FirstFree
            BY <1>1, <4>2, TypeFacts DEF IsFree
      <4>4. QED
            BY <1>5, <4>1, <4>2, <4>3
    <3>4. QED
          BY <1>1, <3>2, <3>3
  <2>2. \A s \in Slot : positions'[s].token # Default => \E i \in 0 .. length : map'[i].index = s
    <3>1. SUFFICES ASSUME NEW s \in Slot, positions'[s].token # Default
                   PROVE  \E i \in 0 .. length : map'[i].index = s
          OBVIOUS
    <3>2. CASE s = FirstFree
          BY <1>1, <3>2
    <3>3. CASE s # FirstFree
      <4>1. \E j \in 0 .. length - 1 : map[j].index = s
            BY <1>5, <3>1, <3>3 DEF IndInv, KeysMatchSlots, IsFree
      <4>2. QED
            BY <1>1, <4>1
    <3>4. QED
          BY <3>2, <3>3
  <2>3. \A i \in Slot : i >= length' => map'[i] = ZeroedKey
    <3>1. \A i \in Slot : i >= length' => i > length
          BY <1>1, <1>3 DEF Slot
    <3>2. QED
          BY <1>1, <3>1
  <2>4. QED
        BY <1>3, <2>1, <2>2, <2>3 DEF KeysMatchSlots, IsFree
<1>10. QED
      BY <1>6, <1>7, <1>9 DEF IndInv

-----------------------------------------------------------------------------

\* The search finds the key of a registered mint.
LEMMA SearchFinds ==
    ASSUME NEW m, Registered(m)
    PROVE  GetMapIndex(m) \in 0 .. length - 1 /\ map[GetMapIndex(m)].mint = m
BY Zenon DEF Registered, GetMapIndex

\* What a removal does to the key array: the entry k goes, the others keep
\* their keys and their order, the freed entry is zeroed.
LEMMA RemoveKeys ==
    ASSUME IndInv, NEW k \in 0 .. length - 1, map' = RemoveEntry(map, k, length)
    PROVE  /\ length \in Nat /\ length - 1 \in Nat
           /\ map' \in [Slot -> AccountPositionKey]
           /\ \A i \in 0 .. length - 2 :
                 \/ i < k /\ map'[i] = map[i]
                 \/ i >= k /\ i + 1 \in 0 .. length - 1 /\ map'[i] = map[i + 1]
           /\ \A j \in 0 .. length - 1 :
                 j # k => \E i \in 0 .. length - 2 : map'[i] = map[j]
           /\ \A i \in Slot : i >= length - 1 => map'[i] = ZeroedKey
<1>1. /\ length \in Nat /\ length - 1 \in Nat /\ length <= Capacity /\ Capacity \in Nat
      /\ k \in Nat /\ k < length
      BY TypeFacts
<1>2. ZeroedKey \in AccountPositionKey
      BY <1>1 DEF ZeroedKey, AccountPositionKey, Slot
<1>3. /\ map \in [Slot -> AccountPositionKey]
      /\ \A i \in Slot : i >= length => map[i] = ZeroedKey
      BY DEF IndInv, TypeOK, KeysMatchSlots
<1>4. /\ DOMAIN map' = Slot
      /\ \A i \in Slot : /\ i < k => map'[i] = map[i]
                         /\ k <= i /\ i < length - 1 => map'[i] = map[i + 1]
                         /\ i = length - 1 => map'[i] = ZeroedKey
                         /\ i > length - 1 => map'[i] = map[i]
  <2>1. SUFFICES ASSUME NEW i \in Slot
                 PROVE  /\ i < k => map'[i] = map[i]
                        /\ k <= i /\ i < length - 1 => map'[i] = map[i + 1]
                        /\ i = length - 1 => map'[i] = ZeroedKey
                        /\ i > length - 1 => map'[i] = map[i]
        BY DEF RemoveEntry
  <2>2. i \in Nat
        BY DEF Slot
  <2>3. map'[i] = CASE i < k                    -> map[i]
                    [] k <= i /\ i < length - 1 -> map[i + 1]
                    [] i = length - 1           -> ZeroedKey
                    [] OTHER                    -> map[i]
        BY DEF RemoveEntry
  <2>4. CASE i < k
        BY <1>1, <2>2, <2>3, <2>4
  <2>5. CASE k <= i /\ i < length - 1
        BY <1>1, <2>2, <2>3, <2>5
  <2>6. CASE i = length - 1
        BY <1>1, <2>2, <2>3, <2>6
  <2>7. CASE i > length - 1
        BY <1>1, <2>2, <2>3, <2>7
  <2>8. QED
        BY <1>1, <2>2, <2>4, <2>5, <2>6, <2>7
<1>5. \A i \in Slot : i >= length - 1 => map'[i] = ZeroedKey
  <2>1. SUFFICES ASSUME NEW i \in Slot, i >= length - 1
                 PROVE  map'[i] = ZeroedKey
        OBVIOUS
  <2>2. i = length - 1 \/ (i > length - 1 /\ i >= length)
        BY <1>1, <2>1 DEF Slot
  <2>3. QED
        BY <1>3, <1>4, <2>2
<1>6. \A i \in 0 .. length - 2 :
         \/ i < k /\ map'[i] = map[i]
         \/ i >= k /\ i + 1 \in 0 .. length - 1 /\ map'[i] = map[i + 1]
  <2>1. TAKE i \in 0 .. length - 2
  <2>2. i \in Slot /\ i \in Nat /\ i < length - 1
        BY <1>1 DEF Slot
  <2>3. CASE i < k
        BY <1>4, <2>2, <2>3
  <2>4. CASE i >= k
        BY <1>1, <1>4, <2>2, <2>4
  <2>5. QED
        BY <1>1, <2>2, <2>3, <2>4
<1>7. \A j \in 0 .. length - 1 :
         j # k => \E i \in 0 .. length - 2 : map'[i] = map[j]
  <2>1. SUFFICES ASSUME NEW j \in 0 .. length - 1, j # k
                 PROVE  \E i \in 0 .. length - 2 : map'[i] = map[j]
        OBVIOUS
  <2>2. CASE j < k
    <3>1. j \in 0 .. length - 2 /\ j \in Slot
          BY <1>1, <2>2 DEF Slot
    <3>2. QED
          BY <1>4, <2>2, <3>1
  <2>3. CASE j > k
    <3>1. j - 1 \in 0 .. length - 2 /\ j - 1 \in Slot /\ k <= j - 1 /\ j - 1 < length - 1
          BY <1>1, <2>3 DEF Slot
    <3>2. map'[j - 1] = map[(j - 1) + 1] /\ (j - 1) + 1 = j
          BY <1>1, <1>4, <3>1
    <3>3. QED
          BY <3>1, <3>2
  <2>4. QED
        BY <1>1, <2>1, <2>2, <2>3
<1>8. map' \in [Slot -> AccountPositionKey]
  <2>1. SUFFICES ASSUME NEW i \in Slot
                 PROVE  map'[i] \in AccountPositionKey
        BY <1>4 DEF RemoveEntry
  <2>2. CASE i < k
        BY <1>3, <1>4, <2>2
  <2>3. CASE k <= i /\ i < length - 1
    <3>1. i + 1 \in Slot
          BY <1>1, <2>3 DEF Slot
    <3>2. QED
          BY <1>3, <1>4, <2>3, <3>1
  <2>4. CASE i >= length - 1
        BY <1>2, <1>5, <2>4
  <2>5. QED
        BY <1>1, <2>2, <2>3, <2>4 DEF Slot
<1>9. QED
      BY <1>1, <1>5, <1>6, <1>7, <1>8

\* Closing a position keeps the invariant: remove frees the slot, shifts the
\* keys behind the removed one and shortens the map.
LEMMA UnregisterInv ==
    ASSUME IndInv, NEW m \in Mint, NEW a \in Address, UnregisterPosition(m, a)
    PROVE  IndInv'
<1> DEFINE k == GetMapIndex(m)
           t == map[k].index
<1>1. k \in 0 .. length - 1 /\ map[k].mint = m
      BY SearchFinds DEF UnregisterPosition
<1>2. /\ map' = RemoveEntry(map, k, length) /\ length' = length - 1
      /\ positions' = [positions EXCEPT ![t] = ZeroedPosition]
      /\ liquidating' = liquidating
      BY DEF UnregisterPosition
<1> HIDE DEF k
<1>3. /\ length \in Nat /\ length - 1 \in Nat
      /\ map' \in [Slot -> AccountPositionKey]
      /\ \A i \in 0 .. length - 2 :
            \/ i < k /\ map'[i] = map[i]
            \/ i >= k /\ i + 1 \in 0 .. length - 1 /\ map'[i] = map[i + 1]
      /\ \A j \in 0 .. length - 1 :
            j # k => \E i \in 0 .. length - 2 : map'[i] = map[j]
      /\ \A i \in Slot : i >= length - 1 => map'[i] = ZeroedKey
      BY <1>1, <1>2, RemoveKeys
<1>4. 0 .. length' - 1 = 0 .. length - 2 /\ k \in Nat
      BY <1>1, <1>2, <1>3
<1>5. t \in Slot /\ ZeroedPosition \in AccountPosition
      BY <1>1, TypeFacts, PositionListAssumption DEF ZeroedPosition, AccountPosition
<1>6. /\ positions' \in [Slot -> AccountPosition]
      /\ positions'[t] = ZeroedPosition
      /\ \A s \in Slot : s # t => positions'[s] = positions[s]
      BY <1>2, <1>5 DEF IndInv, TypeOK
<1>7. TypeOK'
      BY <1>2, <1>3, <1>6, TypeFacts DEF IndInv, TypeOK
<1>8. \A i \in 0 .. length - 2 : \E j \in 0 .. length - 1 : j # k /\ map'[i] = map[j]
  <2>1. TAKE i \in 0 .. length - 2
  <2>2. CASE i < k /\ map'[i] = map[i]
        BY <1>3, <1>4, <2>2
  <2>3. CASE i >= k /\ i + 1 \in 0 .. length - 1 /\ map'[i] = map[i + 1]
        BY <1>3, <1>4, <2>3
  <2>4. QED
        BY <1>3, <2>2, <2>3
<1>9. MapSorted'
  <2>1. SUFFICES ASSUME NEW i \in 0 .. length - 2, NEW j \in 0 .. length - 2, i < j
                 PROVE  map'[i].mint < map'[j].mint
        BY <1>4 DEF MapSorted
  <2>2. PICK x \in 0 .. length - 1 : map'[i] = map[x] /\ ((x = i /\ i < k) \/ (x = i + 1 /\ i >= k))
    <3>1. CASE i < k /\ map'[i] = map[i]
      <4>1. i \in 0 .. length - 1
            BY <1>3
      <4>2. QED
            BY <3>1, <4>1, Zenon
    <3>2. CASE i >= k /\ i + 1 \in 0 .. length - 1 /\ map'[i] = map[i + 1]
          BY <3>2
    <3>3. QED
          BY <1>3, <3>1, <3>2
  <2>3. PICK y \in 0 .. length - 1 : map'[j] = map[y] /\ ((y = j /\ j < k) \/ (y = j + 1 /\ j >= k))
    <3>1. CASE j < k /\ map'[j] = map[j]
      <4>1. j \in 0 .. length - 1
            BY <1>3
      <4>2. QED
            BY <3>1, <4>1, Zenon
    <3>2. CASE j >= k /\ j + 1 \in 0 .. length - 1 /\ map'[j] = map[j + 1]
          BY <3>2
    <3>3. QED
          BY <1>3, <3>1, <3>2
  <2>4. x < y
        BY <1>3, <1>4, <2>1, <2>2, <2>3
  <2>5. QED
        BY <2>2, <2>3, <2>4 DEF IndInv, MapSorted
<1>10. KeysMatchSlots'
  <2>1. \A i \in 0 .. length - 2 :
           map'[i].mint # Default /\ positions'[map'[i].index].token = map'[i].mint
    <3>1. TAKE i \in 0 .. length - 2
    <3>2. PICK j \in 0 .. length - 1 : j # k /\ map'[i] = map[j]
          BY <1>8
    <3>3. map[j].mint # Default /\ positions[map[j].index].token = map[j].mint
          BY DEF IndInv, KeysMatchSlots
    <3>4. map[j].index # t
          BY <1>1, <3>2, DistinctIndexes
    <3>5. QED
          BY <1>6, <3>2, <3>3, <3>4, TypeFacts
  <2>2. \A s \in Slot : positions'[s].token # Default => \E i \in 0 .. length - 2 : map'[i].index = s
    <3>1. SUFFICES ASSUME NEW s \in Slot, positions'[s].token # Default
                   PROVE  \E i \in 0 .. length - 2 : map'[i].index = s
          OBVIOUS
    <3>2. s # t
          BY <1>6, <3>1 DEF ZeroedPosition
    <3>3. PICK j \in 0 .. length - 1 : map[j].index = s
          BY <1>6, <3>1, <3>2 DEF IndInv, KeysMatchSlots, IsFree
    <3>4. j # k
          BY <3>2, <3>3
    <3>5. QED
          BY <1>3, <3>3, <3>4
  <2>3. QED
        BY <1>2, <1>3, <1>4, <2>1, <2>2 DEF KeysMatchSlots, IsFree
<1>11. QED
      BY <1>7, <1>9, <1>10 DEF IndInv

\* The actions that only rewrite the data of one occupied slot.
LEMMA DataInv ==
    ASSUME IndInv, NEW m \in Mint,
           \/ \E a \in Address, b \in 0 .. MaxBalance : SetPositionBalance(m, a, b)
           \/ \E flag \in BOOLEAN : SetRequired(m, flag)
    PROVE  /\ IndInv'
           /\ UNCHANGED <<length, map>>
<1>1. Registered(m) /\ UNCHANGED <<length, map, liquidating>>
      BY DEF SetPositionBalance, SetRequired
<1>2. GetMapIndex(m) \in 0 .. length - 1 /\ map[GetMapIndex(m)].mint = m
      BY <1>1, SearchFinds
<1>3. GetSlot(m) \in Slot /\ positions[GetSlot(m)].token = m
      BY <1>2, TypeFacts DEF IndInv, KeysMatchSlots, GetSlot
<1>4. GetSlotByKey(map[GetMapIndex(m)]) = GetSlot(m)
      BY <1>2, <1>3 DEF GetSlotByKey, GetSlot
<1>5. \E b \in 0 .. MaxBalance, flag \in BOOLEAN :
         \/ positions' = [positions EXCEPT ![GetSlot(m)].balance = b]
         \/ positions' = [positions EXCEPT ![GetSlot(m)].required = flag]
  <2>1. ASSUME NEW a \in Address, NEW b \in 0 .. MaxBalance, SetPositionBalance(m, a, b)
        PROVE  positions' = [positions EXCEPT ![GetSlot(m)].balance = b]
        BY <2>1 DEF SetPositionBalance
  <2>2. ASSUME NEW flag \in BOOLEAN, SetRequired(m, flag)
        PROVE  positions' = [positions EXCEPT ![GetSlot(m)].required = flag]
        BY <1>4, <2>2 DEF SetRequired
  <2>3. 0 \in 0 .. MaxBalance /\ TRUE \in BOOLEAN
        BY PositionListAssumption
  <2>4. QED
        BY <2>1, <2>2, <2>3, Zenon
<1>6. /\ positions' \in [Slot -> AccountPosition]
      /\ \A s \in Slot : positions'[s].token = positions[s].token
      BY <1>3, <1>5 DEF IndInv, TypeOK, AccountPosition
<1>7. TypeOK' /\ MapSorted'
      BY <1>1, <1>6 DEF IndInv, TypeOK, MapSorted
<1>8. KeysMatchSlots'
  <2>1. \A s \in Slot : IsFree(s)' <=> IsFree(s)
        BY <1>6 DEF IsFree
  <2>2. \A i \in 0 .. length - 1 : map[i].index \in Slot
        BY TypeFacts
  <2>3. QED
        BY <1>1, <1>6, <2>1, <2>2 DEF IndInv, KeysMatchSlots
<1>9. QED
      BY <1>1, <1>7, <1>8 DEF IndInv

\* The zeroed list of a new account satisfies the invariant.
LEMMA InitInv == Init => IndInv
<1>1. SUFFICES ASSUME Init
               PROVE  IndInv
      OBVIOUS
<1>2. /\ length = 0 /\ 0 .. length - 1 = {} /\ 0 \in Slot /\ Capacity \in Nat
      /\ map = [i \in Slot |-> ZeroedKey]
      /\ positions = [s \in Slot |-> ZeroedPosition]
      /\ liquidating = FALSE
      BY <1>1, PositionListAssumption DEF Init, Slot
<1>3. ZeroedKey \in AccountPositionKey /\ ZeroedPosition \in AccountPosition
      BY <1>2, PositionListAssumption
      DEF ZeroedKey, AccountPositionKey, ZeroedPosition, AccountPosition
<1>4. TypeOK
  <2>0. liquidating \in BOOLEAN
        BY <1>2, Zenon
  <2>1. length \in 0 .. Capacity
        BY <1>2
  <2>2. map \in [Slot -> AccountPositionKey] /\ positions \in [Slot -> AccountPosition]
        BY <1>2, <1>3
  <2>3. QED
        BY <2>0, <2>1, <2>2 DEF TypeOK
<1>a. MapSorted
      BY <1>2 DEF MapSorted
<1>5. \A s \in Slot : IsFree(s)
      BY <1>2 DEF IsFree, ZeroedPosition
<1>6. KeysMatchSlots
      BY <1>2, <1>5 DEF KeysMatchSlots
<1>7. QED
      BY <1>4, <1>a, <1>6 DEF IndInv

\* Every operation on the positions keeps the invariant.
LEMMA NextInv == IndInv /\ [Next]_vars => IndInv'
<1>1. SUFFICES ASSUME IndInv, [Next]_vars
               PROVE  IndInv'
      OBVIOUS
<1>2. ASSUME NEW m \in Mint, NEW a \in Address, RegisterPosition(m, a)
      PROVE  IndInv'
      BY <1>1, <1>2, RegisterInv
<1>3. ASSUME NEW m \in Mint, NEW a \in Address, UnregisterPosition(m, a)
      PROVE  IndInv'
      BY <1>1, <1>3, UnregisterInv
<1>4. ASSUME NEW m \in Mint,
             \/ \E a \in Address, b \in 0 .. MaxBalance : SetPositionBalance(m, a, b)
             \/ \E flag \in BOOLEAN : SetRequired(m, flag)
      PROVE  IndInv'
      BY <1>1, <1>4, DataInv
<1>5. CASE StartLiquidation \/ EndLiquidation \/ UNCHANGED vars
      BY <1>1, <1>5 DEF StartLiquidation, EndLiquidation, vars, IndInv, TypeOK,
                        MapSorted, KeysMatchSlots, IsFree
<1>6. QED
      BY <1>1, <1>2, <1>3, <1>4, <1>5 DEF Next

\* The invariant that carries the others holds in every reachable state.
THEOREM Invariance == Spec => []IndInv
<1>1. QED
      BY InitInv, NextInv, PTL DEF Spec

\* For every capacity and every set of mints, the keys of a margin account
\* stay sorted by mint, which get_map_index's binary search relies on.
THEOREM KeysStaySorted == Spec => []MapSorted
<1>1. IndInv => MapSorted
      BY DEF IndInv
<1>2. QED
      BY Invariance, <1>1, PTL

\* The keys in use are the occupied slots, and unused keys are zeroed.
THEOREM KeysStayInStep == Spec => []KeysMatchSlots
<1>1. IndInv => KeysMatchSlots
      BY DEF IndInv
<1>2. QED
      BY Invariance, <1>1, PTL

\* add() never writes past the end of the key array.
THEOREM AddNeverOverflows == Spec => []FreeSlotMeansRoom
<1>1. QED
      BY Invariance, InvImpliesRoom, PTL

\* A step keeps the slot of every mint that is registered before and after.
LEMMA StepKeepsSlots ==
    ASSUME IndInv, IndInv', [Next]_vars,
           NEW i \in 0 .. length - 1, NEW j \in 0 .. length' - 1,
           map[i].mint = map'[j].mint
    PROVE  map[i].index = map'[j].index
<1>1. /\ length \in Nat /\ i \in Nat
      /\ \A x, y \in 0 .. length - 1 : map[x].mint = map[y].mint => x = y
  <2>1. \A x \in 0 .. length - 1 : positions[map[x].index].token = map[x].mint
        BY DEF IndInv, KeysMatchSlots
  <2>2. \A x, y \in 0 .. length - 1 : x < y => map[x].mint < map[y].mint
        BY DEF IndInv, MapSorted
  <2>3. \A x \in 0 .. length - 1 : x \in Nat /\ map[x].mint \in Nat
        BY TypeFacts
  <2>4. QED
        BY <2>2, <2>3, TypeFacts
<1>2. ASSUME NEW m \in Mint, NEW a \in Address, RegisterPosition(m, a)
      PROVE  map[i].index = map'[j].index
  <2>1. /\ length' = length + 1
        /\ \A x \in 0 .. length :
              \/ \E y \in 0 .. length - 1 : map'[x] = map[y]
              \/ map'[x] = [mint |-> m, index |-> FirstFree]
        BY <1>2, RegisterKeys
  <2>2. map[i].mint # m
        BY <1>2, TypeFacts DEF RegisterPosition, HasKey
  <2>3. j \in 0 .. length /\ map'[j].mint # m
        BY <1>1, <2>1, <2>2
  <2>4. PICK y \in 0 .. length - 1 : map'[j] = map[y]
        BY <2>1, <2>3
  <2>5. QED
        BY <1>1, <2>4
<1>3. ASSUME NEW m \in Mint, NEW a \in Address, UnregisterPosition(m, a)
      PROVE  map[i].index = map'[j].index
  <2> DEFINE k == GetMapIndex(m)
  <2>1. k \in 0 .. length - 1 /\ map' = RemoveEntry(map, k, length) /\ length' = length - 1
        BY <1>3, SearchFinds DEF UnregisterPosition
  <2> HIDE DEF k
  <2>2. j \in 0 .. length - 2
        BY <1>1, <2>1
  <2>3. \A x \in 0 .. length - 2 :
           \/ x < k /\ map'[x] = map[x]
           \/ x >= k /\ x + 1 \in 0 .. length - 1 /\ map'[x] = map[x + 1]
        BY <2>1, RemoveKeys
  <2>4. PICK y \in 0 .. length - 1 : map'[j] = map[y]
        BY <1>1, <2>2, <2>3
  <2>5. QED
        BY <1>1, <2>4
<1>4. CASE UNCHANGED <<length, map>>
      BY <1>1, <1>4
<1>5. QED
  <2>1. ASSUME NEW m \in Mint,
               \/ \E a \in Address, b \in 0 .. MaxBalance : SetPositionBalance(m, a, b)
               \/ \E flag \in BOOLEAN : SetRequired(m, flag)
        PROVE  UNCHANGED <<length, map>>
        BY <2>1, DataInv
  <2>2. CASE StartLiquidation \/ EndLiquidation \/ UNCHANGED vars
        BY <1>4, <2>2 DEF StartLiquidation, EndLiquidation, vars
  <2>3. QED
        BY <1>2, <1>3, <1>4, <2>1, <2>2 DEF Next

\* A key held across registrations and removals of other mints stays valid.
THEOREM SlotsAreStable == Spec => StableSlots
<1>1. IndInv /\ IndInv' /\ [Next]_vars =>
         [\A i \in 0 .. length - 1, j \in 0 .. length' - 1 :
             map[i].mint = map'[j].mint => map[i].index = map'[j].index]_vars
      BY StepKeepsSlots
<1>2. QED
      BY Invariance, <1>1, PTL DEF Spec, StableSlots

-----------------------------------------------------------------------------
(* The arrays implement the map.                                           *)

\* The map of PositionMap that the arrays stand for, and the slot of each mint.
Registry ==
    [m \in {x \in Mint : Registered(x)} |->
        [address  |-> positions[GetSlot(m)].address,
         balance  |-> positions[GetSlot(m)].balance,
         required |-> positions[GetSlot(m)].required]]

SlotOf == [m \in {x \in Mint : Registered(x)} |-> GetSlot(m)]

\* The slots alone determine the map: the slot of a mint is the one that holds it.
Lookups ==
    /\ DOMAIN SlotOf \subseteq Mint
    /\ \A m \in DOMAIN SlotOf : SlotOf[m] \in Slot /\ positions[SlotOf[m]].token = m
    /\ \A s \in Slot : positions[s].token \in Mint =>
          positions[s].token \in DOMAIN SlotOf /\ SlotOf[positions[s].token] = s
    /\ Registry = [m \in DOMAIN SlotOf |->
                      [address  |-> positions[SlotOf[m]].address,
                       balance  |-> positions[SlotOf[m]].balance,
                       required |-> positions[SlotOf[m]].required]]

\* Searching the sorted keys finds the slot that holds the mint, and finds
\* every mint that some slot holds.
LEMMA LookupsAgree == IndInv => Lookups
<1>1. SUFFICES ASSUME IndInv PROVE Lookups
      OBVIOUS
<1>2. DOMAIN SlotOf = {x \in Mint : Registered(x)} /\ \A m \in DOMAIN SlotOf : SlotOf[m] = GetSlot(m)
      BY DEF SlotOf
<1>3. ASSUME NEW m \in Mint, Registered(m)
      PROVE  GetSlot(m) \in Slot /\ positions[GetSlot(m)].token = m
  <2>1. GetMapIndex(m) \in 0 .. length - 1 /\ map[GetMapIndex(m)].mint = m
        BY <1>3, SearchFinds
  <2>2. QED
        BY <1>1, <2>1, TypeFacts DEF IndInv, KeysMatchSlots, GetSlot
<1>4. ASSUME NEW s \in Slot, positions[s].token \in Mint
      PROVE  Registered(positions[s].token) /\ GetSlot(positions[s].token) = s
  <2> DEFINE m == positions[s].token
  <2>1. ~IsFree(s)
        BY <1>4, PositionListAssumption DEF IsFree, Default
  <2>2. PICK i \in 0 .. length - 1 : map[i].index = s
        BY <1>1, <2>1 DEF IndInv, KeysMatchSlots
  <2>3. map[i].mint = m
        BY <1>1, <2>2 DEF IndInv, KeysMatchSlots
  <2>4. Registered(m)
        BY <2>3 DEF Registered
  <2> HIDE DEF m
  <2>5. GetMapIndex(m) \in 0 .. length - 1 /\ map[GetMapIndex(m)].mint = m
        BY <2>4, SearchFinds
  <2> DEFINE j == GetMapIndex(m)
  <2>6. i = j
    <3> HIDE DEF j
    <3>1. j \in 0 .. length - 1 /\ map[j].mint = m
          BY <2>5 DEF j
    <3>2. /\ map[i].mint \in Nat /\ i \in Nat /\ j \in Nat
          /\ \A x, y \in 0 .. length - 1 : x < y => map[x].mint < map[y].mint
          BY <1>1, <3>1, TypeFacts DEF IndInv, MapSorted
    <3>3. ~(i < j) /\ ~(j < i)
          BY <2>3, <3>1, <3>2
    <3>4. QED
          BY <3>2, <3>3
  <2>7. QED
        BY <2>2, <2>4, <2>6 DEF GetSlot, m
<1>5. Registry = [m \in DOMAIN SlotOf |->
                     [address  |-> positions[SlotOf[m]].address,
                      balance  |-> positions[SlotOf[m]].balance,
                      required |-> positions[SlotOf[m]].required]]
      BY <1>2 DEF Registry
<1>6. QED
      BY <1>2, <1>3, <1>4, <1>5 DEF Lookups

\* Also after a step.
LEMMA LookupsAgreeNext == IndInv' => Lookups'
BY LookupsAgree, PTL

\* The map holds as many positions as there are keys in use, so it is bounded as
\* the arrays are.
LEMMA MapIsNotLarger ==
    ASSUME IndInv
    PROVE  Cardinality(DOMAIN Registry) \in Nat /\ Cardinality(DOMAIN Registry) <= length
<1> DEFINE Keys == 0 .. length - 1
           f == [i \in Keys |-> map[i].mint]
<1>1. DOMAIN Registry = {x \in Mint : Registered(x)}
      BY DEF Registry
<1>2. \A i \in Keys : map[i].mint \in DOMAIN Registry
  <2>1. SUFFICES ASSUME NEW i \in Keys PROVE map[i].mint \in DOMAIN Registry
        OBVIOUS
  <2>2. map[i].mint \in Mint
        BY TypeFacts DEF IndInv, KeysMatchSlots
  <2>3. QED
        BY <1>1, <2>2 DEF Registered
<1>3. \A m \in DOMAIN Registry : \E i \in Keys : map[i].mint = m
      BY <1>1 DEF Registered
<1>4. f \in Surjection(Keys, DOMAIN Registry)
      BY <1>2, <1>3 DEF Surjection
<1>5. IsFiniteSet(Keys) /\ Cardinality(Keys) = length
  <2>1. 0 \in Int /\ length - 1 \in Int /\ length \in Nat
        BY TypeFacts
  <2>2. IsFiniteSet(Keys)
        BY <2>1, FS_Interval
  <2>3. Cardinality(Keys) = IF 0 > length - 1 THEN 0 ELSE length - 1 - 0 + 1
        BY <2>1, FS_Interval
  <2>4. QED
        BY <2>1, <2>2, <2>3
<1> HIDE DEF Keys, f
<1>6. IsFiniteSet(DOMAIN Registry) /\ Cardinality(DOMAIN Registry) <= Cardinality(Keys)
      BY <1>4, <1>5, FS_Surjection
<1>7. QED
      BY <1>5, <1>6, FS_CardinalityType

\* The abstract specification counts with the same definition.
LEMMA SameCount == ASSUME NEW S PROVE Abstract!Cardinality(S) = Cardinality(S)
BY Zenon DEF Abstract!Cardinality, Cardinality

\* Registering adds the position to the map, within its limits.
LEMMA RegisterRefines ==
    ASSUME IndInv, IndInv', NEW m \in Mint, NEW a \in Address, RegisterPosition(m, a)
    PROVE  Abstract!Register(m, a)
<1> DEFINE s == FirstFree
           pos == [token |-> m, address |-> a, balance |-> 0, required |-> FALSE]
<1>1. /\ length < Capacity /\ s \in Slot /\ positions[s].token = Default
      BY RegisterKeys DEF IsFree
<1>2. /\ positions' = [positions EXCEPT ![s] = pos]
      /\ liquidating' = liquidating /\ (liquidating \/ length < MaxUserPositions)
      BY DEF RegisterPosition
<1>3. Lookups /\ Lookups'
      BY LookupsAgree, LookupsAgreeNext
<1>4. DOMAIN Registry = DOMAIN SlotOf /\ m \notin DOMAIN SlotOf
  <2>1. ~Registered(m)
        BY TypeFacts DEF RegisterPosition, HasKey, Registered
  <2>2. QED
        BY <2>1 DEF Registry, SlotOf
<1> HIDE DEF s, pos
<1>5. /\ \A t \in Slot : positions'[t] = IF t = s THEN pos ELSE positions[t]
      BY <1>1, <1>2 DEF IndInv, TypeOK
<1>6. pos.token = m /\ pos.address = a /\ pos.balance = 0 /\ pos.required = FALSE
      BY DEF pos
<1>7. \A x \in Mint : x # Default
      BY PositionListAssumption DEF Default
<1>8. ASSUME NEW x \in DOMAIN SlotOf
      PROVE  x \in DOMAIN SlotOf' /\ SlotOf'[x] = SlotOf[x] /\ SlotOf[x] # s
  <2>1. SlotOf[x] \in Slot /\ positions[SlotOf[x]].token = x /\ x \in Mint
        BY <1>3 DEF Lookups
  <2>2. SlotOf[x] # s
        BY <1>1, <1>7, <2>1
  <2>3. positions'[SlotOf[x]].token = x
        BY <1>5, <2>1, <2>2
  <2>4. QED
        BY <1>3, <2>1, <2>2, <2>3 DEF Lookups
<1>9. m \in DOMAIN SlotOf' /\ SlotOf'[m] = s
      BY <1>1, <1>3, <1>5, <1>6 DEF Lookups
<1>10. ASSUME NEW x \in DOMAIN SlotOf', x # m
       PROVE  x \in DOMAIN SlotOf
  <2>1. SlotOf'[x] \in Slot /\ positions'[SlotOf'[x]].token = x /\ x \in Mint
        BY <1>3 DEF Lookups
  <2>2. positions[SlotOf'[x]].token = x
        BY <1>5, <1>6, <1>10, <2>1
  <2>3. QED
        BY <1>3, <2>1, <2>2 DEF Lookups
<1>11. DOMAIN SlotOf' = DOMAIN SlotOf \cup {m}
      BY <1>8, <1>9, <1>10
<1>12. Registry' = [x \in DOMAIN Registry \cup {m} |->
                       IF x = m THEN [address |-> a, balance |-> 0, required |-> FALSE]
                       ELSE Registry[x]]
  <2>1. Registry' = [x \in DOMAIN SlotOf' |->
                        [address  |-> positions'[SlotOf'[x]].address,
                         balance  |-> positions'[SlotOf'[x]].balance,
                         required |-> positions'[SlotOf'[x]].required]]
        BY <1>3 DEF Lookups
  <2>2. ASSUME NEW x \in DOMAIN SlotOf'
        PROVE  [address  |-> positions'[SlotOf'[x]].address,
                balance  |-> positions'[SlotOf'[x]].balance,
                required |-> positions'[SlotOf'[x]].required]
               = IF x = m THEN [address |-> a, balance |-> 0, required |-> FALSE]
                 ELSE Registry[x]
    <3>1. CASE x = m
          BY <1>1, <1>5, <1>6, <1>9, <3>1
    <3>2. CASE x # m
      <4>1. x \in DOMAIN SlotOf /\ SlotOf'[x] = SlotOf[x] /\ SlotOf[x] # s
            BY <1>8, <1>10, <3>2
      <4>2. SlotOf[x] \in Slot
            BY <1>3, <4>1 DEF Lookups
      <4>3. positions'[SlotOf'[x]] = positions[SlotOf[x]]
            BY <1>5, <4>1, <4>2
      <4>4. Registry[x] = [address  |-> positions[SlotOf[x]].address,
                           balance  |-> positions[SlotOf[x]].balance,
                           required |-> positions[SlotOf[x]].required]
            BY <1>3, <4>1 DEF Lookups
      <4>5. QED
            BY <3>2, <4>3, <4>4
    <3>3. QED
          BY <3>1, <3>2
  <2>3. QED
        BY <1>4, <1>11, <2>1, <2>2
<1>13. Cardinality(DOMAIN Registry) < IF liquidating \/ Capacity < MaxUserPositions
                                      THEN Capacity ELSE MaxUserPositions
  <2>1. /\ Cardinality(DOMAIN Registry) \in Nat /\ Cardinality(DOMAIN Registry) <= length
        /\ length \in Nat /\ Capacity \in Nat /\ MaxUserPositions \in Nat
        BY MapIsNotLarger, TypeFacts, PositionListAssumption
  <2>2. QED
        BY <1>1, <1>2, <2>1
<1>14. QED
      BY <1>2, <1>4, <1>12, <1>13, SameCount, Zenon DEF Abstract!Register, Abstract!Held, Registry

\* Unregistering takes an empty position out of the map and leaves the others.
LEMMA UnregisterRefines ==
    ASSUME IndInv, IndInv', NEW m \in Mint, NEW a \in Address, UnregisterPosition(m, a)
    PROVE  Abstract!Unregister(m, a)
<1> DEFINE s == SlotOf[m]
<1>1. Lookups /\ Lookups'
      BY LookupsAgree, LookupsAgreeNext
<1>2. DOMAIN Registry = DOMAIN SlotOf /\ m \in DOMAIN SlotOf /\ s = map[GetMapIndex(m)].index
      BY DEF UnregisterPosition, Registry, SlotOf, GetSlot
<1>3. /\ positions' = [positions EXCEPT ![s] = ZeroedPosition]
      /\ positions[s].address = a /\ positions[s].balance = 0 /\ ~positions[s].required
      /\ liquidating' = liquidating
      BY <1>2 DEF UnregisterPosition
<1>4. s \in Slot /\ positions[s].token = m
      BY <1>1, <1>2 DEF Lookups
<1>5. positions[s].required = FALSE
  <2>1. positions[s].required \in BOOLEAN
        BY <1>4 DEF IndInv, TypeOK, AccountPosition
  <2>2. QED
        BY <1>3, <2>1
<1> HIDE DEF s
<1>6. \A t \in Slot : positions'[t] = IF t = s THEN ZeroedPosition ELSE positions[t]
      BY <1>3, <1>4 DEF IndInv, TypeOK
<1>7. ZeroedPosition.token = Default /\ \A x \in Mint : x # Default
      BY PositionListAssumption DEF Default, ZeroedPosition
<1>8. ASSUME NEW x \in DOMAIN SlotOf, x # m
      PROVE  x \in DOMAIN SlotOf' /\ SlotOf'[x] = SlotOf[x] /\ SlotOf[x] # s
  <2>1. SlotOf[x] \in Slot /\ positions[SlotOf[x]].token = x /\ x \in Mint
        BY <1>1 DEF Lookups
  <2>2. SlotOf[x] # s
        BY <1>4, <1>8, <2>1
  <2>3. positions'[SlotOf[x]].token = x
        BY <1>6, <2>1, <2>2
  <2>4. QED
        BY <1>1, <2>1, <2>2, <2>3 DEF Lookups
<1>9. ASSUME NEW x \in DOMAIN SlotOf'
      PROVE  x \in DOMAIN SlotOf /\ x # m
  <2>1. SlotOf'[x] \in Slot /\ positions'[SlotOf'[x]].token = x /\ x \in Mint
        BY <1>1 DEF Lookups
  <2>2. SlotOf'[x] # s /\ positions[SlotOf'[x]].token = x
        BY <1>6, <1>7, <2>1
  <2>3. x \in DOMAIN SlotOf /\ SlotOf[x] = SlotOf'[x]
        BY <1>1, <2>1, <2>2 DEF Lookups
  <2>4. QED
        BY <2>2, <2>3 DEF s
<1>10. DOMAIN SlotOf' = DOMAIN SlotOf \ {m}
      BY <1>8, <1>9
<1>11. Registry' = [x \in DOMAIN Registry \ {m} |-> Registry[x]]
  <2>1. Registry' = [x \in DOMAIN SlotOf' |->
                        [address  |-> positions'[SlotOf'[x]].address,
                         balance  |-> positions'[SlotOf'[x]].balance,
                         required |-> positions'[SlotOf'[x]].required]]
        BY <1>1 DEF Lookups
  <2>2. ASSUME NEW x \in DOMAIN SlotOf'
        PROVE  [address  |-> positions'[SlotOf'[x]].address,
                balance  |-> positions'[SlotOf'[x]].balance,
                required |-> positions'[SlotOf'[x]].required] = Registry[x]
    <3>1. x \in DOMAIN SlotOf /\ SlotOf'[x] = SlotOf[x] /\ SlotOf[x] # s
          BY <1>8, <1>9
    <3>2. SlotOf[x] \in Slot
          BY <1>1, <3>1 DEF Lookups
    <3>3. positions'[SlotOf'[x]] = positions[SlotOf[x]]
          BY <1>6, <3>1, <3>2
    <3>4. Registry[x] = [address  |-> positions[SlotOf[x]].address,
                         balance  |-> positions[SlotOf[x]].balance,
                         required |-> positions[SlotOf[x]].required]
          BY <1>1, <3>1 DEF Lookups
    <3>5. QED
          BY <3>3, <3>4
  <2>3. QED
        BY <1>2, <1>10, <2>1, <2>2
<1>12. Registry[m] = [address |-> a, balance |-> 0, required |-> FALSE]
      BY <1>1, <1>2, <1>3, <1>5 DEF Lookups, s
<1>13. QED
      BY <1>2, <1>3, <1>11, <1>12, Zenon DEF Abstract!Unregister, Abstract!Held, Registry

\* A step that rewrites the data of the slot of one mint changes the map there
\* and nowhere else.
LEMMA DataRefines ==
    ASSUME IndInv, IndInv', NEW m \in DOMAIN SlotOf, NEW q,
           positions' = [positions EXCEPT ![SlotOf[m]] = q], q.token = m
    PROVE  Registry' = [Registry EXCEPT ![m] = [address |-> q.address, balance |-> q.balance,
                                                required |-> q.required]]
<1> DEFINE s == SlotOf[m]
<1>1. Lookups /\ Lookups'
      BY LookupsAgree, LookupsAgreeNext
<1>2. s \in Slot /\ positions[s].token = m
      BY <1>1 DEF Lookups
<1>3. \A t \in Slot : positions'[t] = IF t = s THEN q ELSE positions[t]
      BY <1>2 DEF IndInv, TypeOK
<1> HIDE DEF s
<1>4. \A t \in Slot : positions'[t].token = positions[t].token
      BY <1>2, <1>3
<1>5. ASSUME NEW x \in DOMAIN SlotOf
      PROVE  x \in DOMAIN SlotOf' /\ SlotOf'[x] = SlotOf[x]
  <2>1. SlotOf[x] \in Slot /\ positions[SlotOf[x]].token = x /\ x \in Mint
        BY <1>1 DEF Lookups
  <2>2. positions'[SlotOf[x]].token = x
        BY <1>4, <2>1
  <2>3. QED
        BY <1>1, <2>1, <2>2 DEF Lookups
<1>6. ASSUME NEW x \in DOMAIN SlotOf' PROVE x \in DOMAIN SlotOf
  <2>1. SlotOf'[x] \in Slot /\ positions'[SlotOf'[x]].token = x /\ x \in Mint
        BY <1>1 DEF Lookups
  <2>2. positions[SlotOf'[x]].token = x
        BY <1>4, <2>1
  <2>3. QED
        BY <1>1, <2>1, <2>2 DEF Lookups
<1>7. DOMAIN SlotOf' = DOMAIN SlotOf
      BY <1>5, <1>6
<1>8. Registry' = [x \in DOMAIN SlotOf' |->
                      [address  |-> positions'[SlotOf'[x]].address,
                       balance  |-> positions'[SlotOf'[x]].balance,
                       required |-> positions'[SlotOf'[x]].required]]
      BY <1>1 DEF Lookups
<1>9. ASSUME NEW x \in DOMAIN SlotOf
      PROVE  [address  |-> positions'[SlotOf'[x]].address,
              balance  |-> positions'[SlotOf'[x]].balance,
              required |-> positions'[SlotOf'[x]].required]
             = IF x = m THEN [address |-> q.address, balance |-> q.balance,
                              required |-> q.required]
               ELSE Registry[x]
  <2>1. SlotOf'[x] = SlotOf[x] /\ SlotOf[x] \in Slot /\ positions[SlotOf[x]].token = x
        BY <1>1, <1>5 DEF Lookups
  <2>2. CASE x = m
        BY <1>2, <1>3, <2>1, <2>2 DEF s
  <2>3. CASE x # m
    <3>1. positions'[SlotOf'[x]] = positions[SlotOf[x]]
          BY <1>2, <1>3, <2>1, <2>3
    <3>2. Registry[x] = [address  |-> positions[SlotOf[x]].address,
                         balance  |-> positions[SlotOf[x]].balance,
                         required |-> positions[SlotOf[x]].required]
          BY <1>1 DEF Lookups
    <3>3. QED
          BY <2>3, <3>1, <3>2
  <2>4. QED
        BY <2>2, <2>3
<1>10. DOMAIN Registry = DOMAIN SlotOf
      BY DEF Registry, SlotOf
<1> DEFINE r == [address |-> q.address, balance |-> q.balance, required |-> q.required]
<1> HIDE DEF r
<1>11. Registry' = [x \in DOMAIN Registry |-> IF x = m THEN r ELSE Registry[x]]
      BY <1>7, <1>8, <1>9, <1>10 DEF r
<1>12. QED
  <2>1. Registry = [x \in DOMAIN Registry |-> Registry[x]]
        BY DEF Registry
  <2>2. [Registry EXCEPT ![m] = r] = [x \in DOMAIN Registry |-> IF x = m THEN r ELSE Registry[x]]
    <3>1. PICK R : R = Registry
          OBVIOUS
    <3>2. [R EXCEPT ![m] = r] = [x \in DOMAIN R |-> IF x = m THEN r ELSE R[x]]
          OBVIOUS
    <3>3. QED
          BY <3>1, <3>2
  <2>3. QED
        BY <1>11, <2>2 DEF r

\* Setting a balance, and setting or clearing the REQUIRED flag, through whatever
\* key, are the operations of the map.
LEMMA SetRefines ==
    ASSUME IndInv, IndInv', NEW m \in Mint
    PROVE  /\ \A a \in Address, b \in 0 .. MaxBalance :
                 SetPositionBalance(m, a, b) => Abstract!SetBalance(m, a, b)
           /\ \A flag \in BOOLEAN : SetRequired(m, flag) => Abstract!SetRequired(m, flag)
<1>1. Lookups
      BY LookupsAgree
<1>2. DOMAIN Registry = DOMAIN SlotOf /\ (Registered(m) => m \in DOMAIN SlotOf /\ SlotOf[m] = GetSlot(m))
      BY DEF Registry, SlotOf
<1> DEFINE p == positions[SlotOf[m]]
<1>3. ASSUME Registered(m)
      PROVE  /\ SlotOf[m] \in Slot /\ p \in AccountPosition /\ p.token = m
             /\ Registry[m] = [address |-> p.address, balance |-> p.balance, required |-> p.required]
  <2>1. SlotOf[m] \in Slot /\ p.token = m
        BY <1>1, <1>2, <1>3 DEF Lookups
  <2>2. p \in AccountPosition
        BY <2>1 DEF IndInv, TypeOK
  <2>3. QED
        BY <1>1, <1>2, <1>3, <2>1, <2>2 DEF Lookups
<1>4. ASSUME NEW a \in Address, NEW b \in 0 .. MaxBalance, SetPositionBalance(m, a, b)
      PROVE  Abstract!SetBalance(m, a, b)
  <2> DEFINE q == [p EXCEPT !.balance = b]
  <2>1. Registered(m) /\ p.address = a /\ liquidating' = liquidating
        /\ positions' = [positions EXCEPT ![SlotOf[m]] = q]
        BY <1>2, <1>4 DEF SetPositionBalance
  <2>2. q.token = m /\ q.address = p.address /\ q.balance = b /\ q.required = p.required
        BY <1>3, <2>1 DEF AccountPosition
  <2> HIDE DEF q
  <2>3. Registry' = [Registry EXCEPT ![m] = [address |-> q.address, balance |-> q.balance,
                                             required |-> q.required]]
        BY <1>2, <2>1, <2>2, DataRefines
  <2>4. [address |-> q.address, balance |-> q.balance, required |-> q.required]
        = [Registry[m] EXCEPT !.balance = b]
        BY <1>3, <2>1, <2>2
  <2>5. Registry' = [Registry EXCEPT ![m].balance = b]
        BY <2>3, <2>4
  <2>6. m \in DOMAIN Registry /\ Registry[m].address = a
        BY <1>2, <1>3, <2>1
  <2>7. QED
        BY <2>1, <2>5, <2>6, Zenon DEF Abstract!SetBalance, Abstract!Held, Registry
<1>5. ASSUME NEW flag \in BOOLEAN, SetRequired(m, flag)
      PROVE  Abstract!SetRequired(m, flag)
  <2> DEFINE q == [p EXCEPT !.required = flag]
  <2>1. Registered(m) /\ liquidating' = liquidating
        /\ positions' = [positions EXCEPT ![SlotOf[m]] = q]
    <3>1. Registered(m)
          BY <1>5 DEF SetRequired
    <3>2. map[GetMapIndex(m)].mint = m
          BY <3>1, SearchFinds
    <3>3. GetSlotByKey(map[GetMapIndex(m)]) = SlotOf[m]
          BY <1>2, <3>1, <3>2 DEF GetSlotByKey, GetSlot
    <3>4. QED
          BY <1>5, <3>1, <3>3 DEF SetRequired
  <2>2. q.token = m /\ q.address = p.address /\ q.balance = p.balance /\ q.required = flag
        BY <1>3, <2>1 DEF AccountPosition
  <2> HIDE DEF q
  <2>3. Registry' = [Registry EXCEPT ![m] = [address |-> q.address, balance |-> q.balance,
                                             required |-> q.required]]
        BY <1>2, <2>1, <2>2, DataRefines
  <2>4. [address |-> q.address, balance |-> q.balance, required |-> q.required]
        = [Registry[m] EXCEPT !.required = flag]
        BY <1>3, <2>1, <2>2
  <2>5. Registry' = [Registry EXCEPT ![m].required = flag]
        BY <2>3, <2>4
  <2>6. QED
        BY <1>2, <2>1, <2>5, Zenon DEF Abstract!SetRequired, Abstract!Held, Registry
<1>6. QED
      BY <1>4, <1>5

\* An empty list is the empty map.
LEMMA InitRefines == Init => Abstract!Init
<1>1. SUFFICES ASSUME Init PROVE Abstract!Init
      OBVIOUS
<1>2. {x \in Mint : Registered(x)} = {}
      BY <1>1 DEF Init, Registered
<1>3. Registry = [m \in {} |-> {}]
      BY <1>2 DEF Registry
<1>4. QED
      BY <1>1, <1>3 DEF Init, Registry, Abstract!Init

\* Every step of the arrays is a step of the map, or leaves it as it is.
LEMMA NextRefines ==
    ASSUME IndInv, IndInv', [Next]_vars
    PROVE  [Abstract!Next]_(Abstract!vars)
<1>1. ASSUME NEW m \in Mint, NEW a \in Address, RegisterPosition(m, a)
      PROVE  Abstract!Next
      BY <1>1, RegisterRefines, Zenon DEF Abstract!Next
<1>2. ASSUME NEW m \in Mint, NEW a \in Address, UnregisterPosition(m, a)
      PROVE  Abstract!Next
      BY <1>2, UnregisterRefines, Zenon DEF Abstract!Next
<1>3. ASSUME NEW m \in Mint, NEW a \in Address, NEW b \in 0 .. MaxBalance,
             SetPositionBalance(m, a, b)
      PROVE  Abstract!Next
      BY <1>3, SetRefines, Zenon DEF Abstract!Next
<1>4. ASSUME NEW m \in Mint, NEW flag \in BOOLEAN, SetRequired(m, flag)
      PROVE  Abstract!Next
      BY <1>4, SetRefines, Zenon DEF Abstract!Next
<1>5. UNCHANGED <<length, map, positions>> => Registry' = Registry
      BY DEF Registry, Registered, GetSlot, GetMapIndex
<1>6. CASE StartLiquidation \/ EndLiquidation
  <2>1. liquidating' = ~liquidating /\ UNCHANGED <<length, map, positions>>
        BY <1>6 DEF StartLiquidation, EndLiquidation, IndInv, TypeOK
  <2>2. Abstract!ToggleLiquidation
        BY <1>5, <2>1, Zenon DEF Abstract!ToggleLiquidation, Registry
  <2>3. QED
        BY <2>2, Zenon DEF Abstract!Next
<1>7. CASE UNCHANGED vars
  <2>1. Registry' = Registry /\ liquidating' = liquidating
        BY <1>5, <1>7 DEF vars
  <2>2. UNCHANGED Abstract!vars
        BY <2>1, Zenon DEF Abstract!vars, Registry
  <2>3. QED
        BY <2>2
<1>8. QED
      BY <1>1, <1>2, <1>3, <1>4, <1>6, <1>7 DEF Next

\* For every capacity, limit and set of mints, the arrays with their sorted keys
\* implement the map from mint to position: no registration, removal or lookup
\* loses, duplicates or confuses a position (AccountPositionList).
THEOREM ListImplementsMap == Spec => RefinesPositionMap
<1>1. Spec => Abstract!Init
      BY InitRefines DEF Spec
<1>2. IndInv /\ IndInv' /\ [Next]_vars => [Abstract!Next]_(Abstract!vars)
      BY NextRefines
<1>3. QED
      BY <1>1, <1>2, Invariance, PTL DEF Spec, RefinesPositionMap, Abstract!Spec
=============================================================================
