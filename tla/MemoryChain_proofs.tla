------------------------ MODULE MemoryChain_proofs ------------------------
(***************************************************************************)
(* Proofs about BuddyBlockAllocator and about the chain of memory          *)
(* allocators that is built on it.  The first part is about a buddy system *)
(* of its own (Spec); what it shows of a single call is then used for the  *)
(* chain (ChainSpec), where TrySubAllocate, FailMemory and DeallocateSub   *)
(* make these calls.                                                       *)
(***************************************************************************)
EXTENDS MemoryChain, SetSums, SequenceTheorems

-----------------------------------------------------------------------------
(* Powers of two.  That they double follows from the number of subsets of  *)
(* a set with one more element.                                            *)
LEMMA SubsetsDouble ==
  ASSUME NEW S, IsFiniteSet(S), NEW x, x \notin S
  PROVE  Cardinality(SUBSET (S \cup {x})) = 2 * Cardinality(SUBSET S)
<1>1. PICK with : with = {s \cup {x} : s \in SUBSET S}
  OBVIOUS
<1>2. IsFiniteSet(SUBSET S) /\ Cardinality(SUBSET S) \in Nat
  BY FS_SUBSET, FS_CardinalityType
<1>3. ExistsBijection(SUBSET S, with)
  <2>1. PICK f : f = [s \in SUBSET S |-> s \cup {x}]
    OBVIOUS
  <2>2. f \in [SUBSET S -> with] /\ \A y \in with : \E s \in SUBSET S : f[s] = y
    BY <1>1, <2>1
  <2>3. \A s, u \in SUBSET S : f[s] = f[u] => s = u
    <3> SUFFICES ASSUME NEW s \in SUBSET S, NEW u \in SUBSET S, f[s] = f[u] PROVE s = u
      OBVIOUS
    <3>1. s \cup {x} = u \cup {x} /\ x \notin s /\ x \notin u
      BY <2>1
    <3>2. QED
      BY <3>1
  <2>4. f \in Bijection(SUBSET S, with)
    BY <2>2, <2>3 DEF Bijection, Injection, Surjection, IsInjective
  <2>5. QED
    BY <2>4 DEF ExistsBijection
<1>4. IsFiniteSet(with) /\ Cardinality(with) = Cardinality(SUBSET S)
  BY <1>2, <1>3, FS_Bijection
<1>5. SUBSET (S \cup {x}) = (SUBSET S) \cup with
  <2>1. ASSUME NEW s \in SUBSET (S \cup {x}), x \in s PROVE s \in with
    <3>1. s \ {x} \in SUBSET S /\ s = (s \ {x}) \cup {x}
      BY <2>1
    <3>2. QED
      BY <1>1, <3>1
  <2>2. ASSUME NEW s \in SUBSET (S \cup {x}), x \notin s PROVE s \in SUBSET S
    BY <2>2
  <2>3. ASSUME NEW s \in with PROVE s \in SUBSET (S \cup {x})
    BY <1>1, <2>3
  <2>4. QED
    BY <2>1, <2>2, <2>3
<1>6. (SUBSET S) \cap with = {}
  <2>1. ASSUME NEW s \in with PROVE s \notin SUBSET S
    BY <1>1, <2>1
  <2>2. QED
    BY <2>1
<1>7. Cardinality((SUBSET S) \cup with) = Cardinality(SUBSET S) + Cardinality(with) - Cardinality({})
  BY <1>2, <1>4, <1>6, FS_Union
<1>8. QED
  <2>1. Cardinality({}) = 0
    BY FS_EmptySet
  <2>2. PICK c : c = Cardinality(SUBSET S)
    OBVIOUS
  <2>3. Cardinality((SUBSET S) \cup with) = 2 * c
    BY <1>2, <1>4, <1>7, <2>1, <2>2
  <2>4. QED
    BY <1>5, <2>2, <2>3, Zenon

LEMMA PowerDoubles ==
  ASSUME NEW n \in Nat
  PROVE  2^n \in Nat /\ 2^n > 0 /\ 2^(n + 1) = 2 * 2^n
<1>1. IsFiniteSet(1..n) /\ Cardinality(1..n) = n /\ IsFiniteSet(1..(n + 1)) /\ Cardinality(1..(n + 1)) = n + 1
  BY FS_Interval
<1>2. 1..(n + 1) = (1..n) \cup {n + 1} /\ n + 1 \notin 1..n
  OBVIOUS
<1>3. PICK S : S = 1..n
  OBVIOUS
<1>4. PICK T : T = 1..(n + 1)
  OBVIOUS
<1>5. /\ IsFiniteSet(SUBSET S) /\ Cardinality(SUBSET S) = 2^n
      /\ IsFiniteSet(SUBSET T) /\ Cardinality(SUBSET T) = 2^(n + 1)
  BY <1>1, <1>3, <1>4, FS_SUBSET
<1>6. Cardinality(SUBSET T) = 2 * Cardinality(SUBSET S)
  BY <1>1, <1>2, <1>3, <1>4, SubsetsDouble
<1>7. Cardinality(SUBSET S) \in Nat /\ Cardinality(SUBSET S) # 0
  BY <1>5, FS_CardinalityType, FS_EmptySet
<1>8. QED
  BY <1>5, <1>6, <1>7

LEMMA PowerAdds ==
  ASSUME NEW m \in Nat, NEW n \in Nat
  PROVE  2^(m + n) = 2^m * 2^n
<1> DEFINE P == {k \in Nat : 2^(m + k) # 2^m * 2^k}
<1> SUFFICES ASSUME P # {} PROVE FALSE
  OBVIOUS
<1>1. PICK k \in P : \A j \in P : k <= j
  BY SmallestNat
<1>2. 2^m \in Nat /\ 2^k \in Nat
  BY PowerDoubles
<1>3. k # 0
  <2> SUFFICES ASSUME k = 0 PROVE FALSE
    OBVIOUS
  <2>1. 2^k = 1 /\ m + k = m
    OBVIOUS
  <2>2. 2^(m + k) = 2^m * 2^k
    BY <1>2, <2>1
  <2>3. QED
    BY <2>2
<1>4. PICK j \in Nat : k = j + 1
  BY <1>3
<1>5. j \notin P
  BY <1>1, <1>4
<1>6. 2^(m + j) = 2^m * 2^j
  BY <1>5
<1>7. 2^k = 2 * 2^j /\ 2^j \in Nat
  BY <1>4, PowerDoubles
<1>8. PICK i \in Nat : i = m + j
  OBVIOUS
<1>9. 2^(i + 1) = 2 * 2^i /\ m + k = i + 1
  BY <1>4, <1>8, PowerDoubles
<1>10. 2^(m + k) = 2 * (2^m * 2^j)
  BY <1>6, <1>8, <1>9
<1>11. 2 * (2^m * 2^j) = 2^m * (2 * 2^j)
  BY <1>2, <1>7
<1>12. QED
  BY <1>7, <1>10, <1>11


-----------------------------------------------------------------------------
(* The tree of blocks.                                                     *)
LEMMA PowerOne == 2^0 = 1 /\ 2^1 = 2
<1>1. 2^0 = 1 /\ 2^(0 + 1) = 2 * 2^0
  BY PowerDoubles
<1>2. QED
  BY <1>1

LEMMA BlockFacts ==
  ASSUME NEW b \in Block
  PROVE  /\ b[1] \in Levels /\ b[1] \in Nat /\ b[1] <= MaxOrder
         /\ b[2] \in Nat /\ b[2] < 2^b[1] /\ b = <<b[1], b[2]>>
<1>1. PICK l \in Levels : b \in {<<l, i>> : i \in 0..(2^l - 1)}
  BY DEF Block
<1>2. PICK i \in 0..(2^l - 1) : b = <<l, i>>
  BY <1>1
<1>3. l \in Nat /\ l <= MaxOrder
  BY BuddyAssumption DEF Levels
<1>4. 2^l \in Nat
  BY <1>3, PowerDoubles
<1>5. QED
  BY <1>2, <1>3, <1>4

LEMMA MakeBlock ==
  ASSUME NEW l \in Levels, NEW i \in Nat, i < 2^l
  PROVE  <<l, i>> \in Block
<1>1. 2^l \in Nat
  BY BuddyAssumption, PowerDoubles DEF Levels
<1>2. i \in 0..(2^l - 1)
  BY <1>1
<1>3. QED
  BY <1>2 DEF Block

LEMMA DivLess ==
  ASSUME NEW x \in Nat, NEW p \in Nat, p > 0, NEW q \in Nat, x < q * p
  PROVE  x \div p \in Nat /\ x \div p < q
OBVIOUS

LEMMA DivTwice ==
  ASSUME NEW x \in Nat, NEW p \in Nat, p > 0
  PROVE  (x \div p) \div 2 = x \div (2 * p)
OBVIOUS

LEMMA NextMultiple ==
  ASSUME NEW p \in Nat, NEW q \in Nat, p < q, NEW s \in Nat
  PROVE  p * s + s <= q * s
OBVIOUS

LEMMA PathType ==
  ASSUME NEW b \in Block, NEW l \in Levels
  PROVE  AtLevel(b, l) \in Block /\ AtLevel(b, l)[1] = l /\ AtLevel(b, b[1]) = b
<1>1. PICK k \in Nat, x \in Nat : k = b[1] /\ x = b[2] /\ b = <<k, x>> /\ x < 2^k
  BY BlockFacts
<1>2. l \in Nat
  BY BuddyAssumption DEF Levels
<1>3. 2^k \in Nat /\ 2^l \in Nat
  BY <1>2, PowerDoubles
<1>4. AtLevel(b, b[1]) = b
  <2>1. k - k = 0 /\ x \div 1 = x /\ k <= k
    OBVIOUS
  <2>2. AtLevel(b, k) = <<k, x \div 2^(k - k)>>
    BY <1>1, <2>1 DEF AtLevel
  <2>3. QED
    BY <1>1, <2>1, <2>2, PowerOne
<1>5. CASE l <= k
  <2>1. PICK m \in Nat : m = k - l
    BY <1>2, <1>5
  <2>2. l + m = k /\ 2^m \in Nat /\ 2^m > 0
    BY <1>2, <2>1, PowerDoubles
  <2>3. 2^k = 2^l * 2^m
    BY <1>2, <2>2, PowerAdds
  <2>4. x \div 2^m \in Nat /\ x \div 2^m < 2^l
    BY <1>1, <1>3, <2>2, <2>3, DivLess
  <2>5. AtLevel(b, l) = <<l, x \div 2^m>>
    BY <1>1, <1>5, <2>1 DEF AtLevel
  <2>6. QED
    BY <1>4, <2>4, <2>5, MakeBlock
<1>6. CASE l > k
  <2>1. PICK m \in Nat : m = l - k
    BY <1>2, <1>6
  <2>2. k + m = l /\ 2^m \in Nat /\ 2^m > 0
    BY <1>2, <2>1, PowerDoubles
  <2>3. 2^l = 2^k * 2^m
    BY <2>2, PowerAdds
  <2>4. x * 2^m \in Nat /\ x * 2^m + 2^m <= 2^k * 2^m
    BY <1>1, <1>3, <2>2, NextMultiple
  <2>5. AtLevel(b, l) = <<l, x * 2^m>>
    BY <1>1, <1>2, <1>6, <2>1 DEF AtLevel
  <2>6. x * 2^m < 2^l
    BY <1>3, <2>2, <2>3, <2>4
  <2>7. QED
    BY <1>4, <2>4, <2>5, <2>6, MakeBlock
<1>7. QED
  BY <1>1, <1>2, <1>5, <1>6

(* The block that a block is a half of.                                    *)
Parent(b) == AtLevel(b, b[1] - 1)

LEMMA ParentForm ==
  ASSUME NEW b \in Block, b[1] > 0
  PROVE  Parent(b) = <<b[1] - 1, b[2] \div 2>> /\ Parent(b) \in Block /\ b[1] - 1 \in Levels
<1>1. PICK k \in Nat, x \in Nat : k = b[1] /\ x = b[2]
  BY BlockFacts
<1>2. k - 1 \in Levels /\ k - 1 <= k /\ k - (k - 1) = 1
  <2>1. k > 0 /\ k <= MaxOrder
    BY <1>1, BlockFacts
  <2>2. QED
    BY <2>1, BuddyAssumption DEF Levels
<1>3. AtLevel(b, k - 1) = <<k - 1, x \div 2>>
  BY <1>1, <1>2, PowerOne DEF AtLevel
<1>4. QED
  BY <1>1, <1>2, <1>3, PathType DEF Parent

LEMMA PathStep ==
  ASSUME NEW b \in Block, NEW l \in Levels, l > 0
  PROVE  Parent(AtLevel(b, l)) = AtLevel(b, l - 1)
<1>1. PICK k \in Nat, x \in Nat : k = b[1] /\ x = b[2]
  BY BlockFacts
<1>2. l \in Nat /\ l - 1 \in Nat
  BY BuddyAssumption DEF Levels
<1>3. PICK a \in Block : a = AtLevel(b, l) /\ a[1] = l
  BY PathType
<1>4. Parent(a) = <<l - 1, a[2] \div 2>>
  BY <1>3, ParentForm
<1>5. CASE l <= k
  <2>1. PICK m \in Nat : m = k - l
    BY <1>2, <1>5
  <2>2. 2^m \in Nat /\ 2^m > 0 /\ 2^(m + 1) = 2 * 2^m
    BY PowerDoubles
  <2>3. a[2] = x \div 2^m
    BY <1>1, <1>3, <1>5, <2>1 DEF AtLevel
  <2>4. l - 1 <= k /\ k - (l - 1) = m + 1
    BY <1>2, <1>5, <2>1
  <2>5. AtLevel(b, l - 1) = <<l - 1, x \div (2 * 2^m)>>
    BY <1>1, <2>2, <2>4 DEF AtLevel
  <2>6. QED
    BY <1>3, <1>4, <2>2, <2>3, <2>5, DivTwice
<1>6. CASE l > k
  <2>1. PICK m \in Nat : m + 1 = l - k
    BY <1>2, <1>6
  <2>2. 2^m \in Nat /\ 2^m > 0 /\ 2^(m + 1) = 2 * 2^m
    BY PowerDoubles
  <2>3. a[2] = x * (2 * 2^m)
    BY <1>1, <1>2, <1>3, <1>6, <2>1, <2>2 DEF AtLevel
  <2>4. a[2] \div 2 = x * 2^m
    <3>1. PICK y \in Nat : y = x * 2^m
      BY <2>2
    <3>2. x * (2 * 2^m) = 2 * (x * 2^m)
      BY <2>2
    <3>3. QED
      BY <2>3, <3>1, <3>2
  <2>5. AtLevel(b, l - 1) = <<l - 1, x * 2^m>>
    <3>1. CASE l - 1 = k
      <4>1. m = 0 /\ k - k = 0 /\ x \div 1 = x /\ x * 1 = x /\ k <= k
        BY <1>2, <2>1, <3>1
      <4>2. QED
        BY <1>1, <3>1, <4>1, PowerOne DEF AtLevel
    <3>2. CASE l - 1 > k
      <4>1. l - 1 - k = m /\ ~(l - 1 <= k)
        BY <1>2, <2>1, <3>2
      <4>2. QED
        BY <1>1, <4>1 DEF AtLevel
    <3>3. QED
      BY <1>2, <1>6, <3>1, <3>2
  <2>6. QED
    BY <1>3, <1>4, <2>4, <2>5
<1>7. QED
  BY <1>2, <1>5, <1>6

LEMMA BuddyFacts ==
  ASSUME NEW b \in Block, b[1] > 0
  PROVE  /\ Buddy(b) \in Block /\ Buddy(b)[1] = b[1] /\ Buddy(b) # b
         /\ Buddy(Buddy(b)) = b /\ Parent(Buddy(b)) = Parent(b)
         /\ \A c \in Block : c[1] = b[1] /\ Parent(c) = Parent(b) => c = b \/ c = Buddy(b)
<1>1. PICK k \in Nat, x \in Nat : k = b[1] /\ x = b[2] /\ b = <<k, x>> /\ x < 2^k /\ k > 0 /\ k \in Levels
  BY BlockFacts
<1>2. PICK m \in Nat : m + 1 = k
  BY <1>1
<1>3. 2^k = 2 * 2^m /\ 2^m \in Nat
  BY <1>2, PowerDoubles
<1>4. PICK y \in Nat : y = IF x % 2 = 0 THEN x + 1 ELSE x - 1
  OBVIOUS
<1>5. /\ y < 2^k /\ y # x /\ y \div 2 = x \div 2
      /\ x = IF y % 2 = 0 THEN y + 1 ELSE y - 1
  BY <1>1, <1>3, <1>4
<1>6. Buddy(b) = <<k, y>>
  BY <1>1, <1>4 DEF Buddy
<1>7. PICK c \in Block : c = <<k, y>> /\ c = Buddy(b) /\ c[1] = k /\ c[2] = y
  BY <1>1, <1>5, <1>6, MakeBlock
<1>8. Buddy(c) = <<k, x>>
  BY <1>5, <1>7 DEF Buddy
<1>9. Parent(c) = <<k - 1, y \div 2>> /\ Parent(b) = <<k - 1, x \div 2>>
  BY <1>1, <1>7, ParentForm
<1>10. ASSUME NEW d \in Block, d[1] = k, Parent(d) = Parent(b) PROVE d = b \/ d = c
  <2>1. PICK z \in Nat : z = d[2] /\ d = <<k, z>>
    BY <1>10, BlockFacts
  <2>2. Parent(d) = <<k - 1, z \div 2>>
    BY <1>1, <1>10, <2>1, ParentForm
  <2>3. z \div 2 = x \div 2
    BY <1>9, <1>10, <2>2
  <2>4. z = x \/ z = y
    BY <1>4, <2>3
  <2>5. QED
    BY <1>1, <1>7, <2>1, <2>4
<1>11. QED
  BY <1>1, <1>5, <1>7, <1>8, <1>9, <1>10


-----------------------------------------------------------------------------
(* Free lists.                                                             *)
LEMMA InsertedList ==
  ASSUME NEW S, NEW list \in Seq(S), IsInjective(list), NEW b \in S, b \notin Range(list)
  PROVE  /\ InsertFreeBlock(list, b) \in Seq(S) /\ IsInjective(InsertFreeBlock(list, b))
         /\ Range(InsertFreeBlock(list, b)) = Range(list) \cup {b}
<1>1. PICK n \in Nat : n = Len(list) /\ DOMAIN list = 1..n
  OBVIOUS
<1>2. PICK new : new = <<b>> \o list
  OBVIOUS
<1>3. /\ new \in Seq(S) /\ Len(new) = n + 1 /\ DOMAIN new = 1..(n + 1) /\ new[1] = b
      /\ \A i \in 2..(n + 1) : new[i] = list[i - 1]
  BY <1>1, <1>2
<1>4. \A i \in 2..(n + 1) : i - 1 \in 1..n
  BY <1>1
<1>5. \A i \in 1..n : new[i + 1] = list[i] /\ i + 1 \in 1..(n + 1)
  BY <1>1, <1>3
<1>6. ASSUME NEW i \in 1..(n + 1), NEW j \in 1..(n + 1), new[i] = new[j] PROVE i = j
  <2>1. \A k \in 2..(n + 1) : new[k] # b
    BY <1>1, <1>3, <1>4 DEF Range
  <2>2. CASE i = 1 \/ j = 1
    BY <1>1, <1>3, <1>6, <2>1, <2>2
  <2>3. CASE i # 1 /\ j # 1
    <3>1. i \in 2..(n + 1) /\ j \in 2..(n + 1)
      BY <1>1, <2>3
    <3>2. list[i - 1] = list[j - 1] /\ i - 1 \in DOMAIN list /\ j - 1 \in DOMAIN list
      BY <1>1, <1>3, <1>4, <1>6, <3>1
    <3>3. i - 1 = j - 1
      BY <3>2 DEF IsInjective
    <3>4. QED
      BY <1>1, <3>1, <3>3
  <2>4. QED
    BY <2>2, <2>3
<1>7. Range(new) = Range(list) \cup {b}
  <2>1. ASSUME NEW x \in Range(new) PROVE x \in Range(list) \cup {b}
    <3>1. PICK i \in 1..(n + 1) : x = new[i]
      BY <1>3, <2>1 DEF Range
    <3>2. i = 1 \/ i \in 2..(n + 1)
      BY <1>1
    <3>3. QED
      BY <1>1, <1>3, <1>4, <3>1, <3>2 DEF Range
  <2>2. ASSUME NEW x \in Range(list) PROVE x \in Range(new)
    <3>1. PICK i \in 1..n : x = list[i]
      BY <1>1, <2>2 DEF Range
    <3>2. x = new[i + 1] /\ i + 1 \in DOMAIN new
      BY <1>3, <1>5, <3>1
    <3>3. QED
      BY <3>2 DEF Range
  <2>3. b \in Range(new)
    BY <1>1, <1>3 DEF Range
  <2>4. QED
    BY <2>1, <2>2, <2>3
<1>8. QED
  BY <1>2, <1>3, <1>6, <1>7 DEF InsertFreeBlock, IsInjective

LEMMA RemovedList ==
  ASSUME NEW S, NEW list \in Seq(S), IsInjective(list), NEW b \in Range(list)
  PROVE  /\ RemoveFreeBlock(list, b) \in Seq(S) /\ IsInjective(RemoveFreeBlock(list, b))
         /\ Range(RemoveFreeBlock(list, b)) = Range(list) \ {b}
<1>1. PICK n \in Nat : n = Len(list) /\ DOMAIN list = 1..n
  OBVIOUS
<1>2. PICK at \in DOMAIN list : list[at] = b /\ at = CHOOSE i \in DOMAIN list : list[i] = b
  BY <1>1 DEF Range
<1>3. at \in Nat /\ 1 <= at /\ at <= n /\ n >= 1 /\ n - 1 \in Nat
  BY <1>1, <1>2
<1>4. PICK left : left = SubSeq(list, 1, at - 1)
  OBVIOUS
<1>5. PICK right : right = SubSeq(list, at + 1, n)
  OBVIOUS
<1>6. /\ left \in Seq(S) /\ Len(left) = at - 1
      /\ \A i \in 1..(at - 1) : left[i] = list[i]
  <2>1. \A i \in 1..(at - 1) : list[i] \in S
    BY <1>1, <1>3
  <2>2. 1 \in Int /\ at - 1 \in Int /\ (at - 1) - 1 + 1 = at - 1 /\ \A i \in Int : 1 + i - 1 = i
    BY <1>3
  <2>3. /\ left \in Seq(S) /\ Len(left) = IF 1 <= at - 1 THEN (at - 1) - 1 + 1 ELSE 0
        /\ \A i \in 1..((at - 1) - 1 + 1) : left[i] = list[1 + i - 1]
    BY <1>4, <2>1, <2>2, SubSeqProperties
  <2>4. QED
    BY <1>3, <2>2, <2>3
<1>7. /\ right \in Seq(S) /\ Len(right) = n - at
      /\ \A i \in 1..(n - at) : right[i] = list[at + i]
  <2>1. PICK m \in Int : m = at + 1
    BY <1>3
  <2>2. \A i \in m..n : list[i] \in S
    BY <1>1, <1>3, <2>1
  <2>3. n \in Int /\ right = SubSeq(list, m, n)
    BY <1>5, <2>1
  <2>4. /\ right \in Seq(S) /\ Len(right) = IF m <= n THEN n - m + 1 ELSE 0
        /\ \A i \in 1..(n - m + 1) : right[i] = list[m + i - 1]
    BY <2>2, <2>3, SubSeqProperties
  <2>5. n - m + 1 = n - at /\ \A i \in Int : m + i - 1 = at + i
    BY <1>3, <2>1
  <2>6. Len(right) = n - at
    BY <1>3, <2>1, <2>4
  <2>7. ASSUME NEW i \in 1..(n - at) PROVE right[i] = list[at + i]
    <3>1. i \in Int /\ i \in 1..(n - m + 1)
      BY <1>3, <2>5, <2>7
    <3>2. right[i] = list[m + i - 1]
      BY <2>4, <3>1
    <3>3. m + i - 1 = at + i
      BY <2>5, <3>1
    <3>4. QED
      BY <3>2, <3>3
  <2>8. QED
    BY <2>4, <2>6, <2>7
<1>8. PICK new : new = left \o right /\ new = RemoveFreeBlock(list, b)
  BY <1>1, <1>2, <1>4, <1>5 DEF RemoveFreeBlock, RemoveAt
<1>9. /\ new \in Seq(S) /\ Len(new) = n - 1 /\ DOMAIN new = 1..(n - 1)
       /\ \A i \in 1..(n - 1) : new[i] = IF i <= at - 1 THEN left[i] ELSE right[i - (at - 1)]
  <2>1. /\ new \in Seq(S) /\ Len(new) = Len(left) + Len(right)
        /\ \A i \in 1..(Len(left) + Len(right)) :
              new[i] = IF i <= Len(left) THEN left[i] ELSE right[i - Len(left)]
    <3>1. left \in Seq(S) /\ right \in Seq(S)
      BY <1>6, <1>7
    <3>2. /\ left \o right \in Seq(S) /\ Len(left \o right) = Len(left) + Len(right)
          /\ \A i \in 1..(Len(left) + Len(right)) : (left \o right)[i] =
                IF i <= Len(left) THEN left[i] ELSE right[i - Len(left)]
      BY <3>1, ConcatProperties
    <3>3. QED
      BY <1>8, <3>2, Zenon
  <2>2. Len(left) + Len(right) = n - 1
    BY <1>3, <1>6, <1>7
  <2>3. QED
    BY <1>3, <1>6, <2>1, <2>2
<1> DEFINE Shift(k) == IF k < at THEN k ELSE k + 1
<1>10. \A i \in 1..(n - 1) : new[i] = list[Shift(i)]
  <2> SUFFICES ASSUME NEW i \in 1..(n - 1) PROVE new[i] = list[Shift(i)]
    OBVIOUS
  <2>1. CASE i < at
    <3>1. i \in 1..(at - 1) /\ i <= at - 1
      BY <1>3, <2>1
    <3>2. QED
      BY <1>6, <1>9, <2>1, <3>1
  <2>2. CASE ~(i < at)
    <3>1. i - (at - 1) \in 1..(n - at) /\ at + (i - (at - 1)) = i + 1 /\ ~(i <= at - 1)
      BY <1>3, <2>2
    <3>2. QED
      BY <1>7, <1>9, <2>2, <3>1
  <2>3. QED
    BY <2>1, <2>2
<1>11. \A i, j \in 1..(n - 1) :
         Shift(i) \in 1..n /\ Shift(i) # at /\ (Shift(i) = Shift(j) => i = j)
  BY <1>3
<1>12. \A k \in 1..n : k # at => \E i \in 1..(n - 1) : Shift(i) = k
  <2> SUFFICES ASSUME NEW k \in 1..n, k # at PROVE \E i \in 1..(n - 1) : Shift(i) = k
    OBVIOUS
  <2>1. CASE k < at
    <3>1. k \in 1..(n - 1) /\ Shift(k) = k
      BY <1>3, <2>1
    <3>2. QED
      BY <3>1
  <2>2. CASE k > at
    <3>1. k - 1 \in 1..(n - 1) /\ Shift(k - 1) = k
      BY <1>3, <2>2
    <3>2. QED
      BY <3>1
  <2>3. QED
    BY <1>3, <2>1, <2>2
<1> HIDE DEF Shift
<1>13. IsInjective(new)
  BY <1>1, <1>9, <1>10, <1>11 DEF IsInjective
<1>14. Range(new) = Range(list) \ {b}
  <2>1. ASSUME NEW x \in Range(new) PROVE x \in Range(list) \ {b}
    <3>1. PICK i \in 1..(n - 1) : x = list[Shift(i)]
      BY <1>9, <1>10, <2>1 DEF Range
    <3>2. Shift(i) \in DOMAIN list /\ Shift(i) # at /\ at \in DOMAIN list
      BY <1>1, <1>2, <1>11
    <3>3. QED
      BY <1>2, <3>1, <3>2 DEF Range, IsInjective
  <2>2. ASSUME NEW x \in Range(list), x # b PROVE x \in Range(new)
    <3>1. PICK k \in 1..n : x = list[k] /\ k # at
      BY <1>1, <1>2, <2>2 DEF Range
    <3>2. PICK i \in 1..(n - 1) : Shift(i) = k
      BY <1>12, <3>1
    <3>3. QED
      BY <1>9, <1>10, <3>1, <3>2 DEF Range
  <2>3. QED
    BY <2>1, <2>2
<1>15. QED
  BY <1>8, <1>9, <1>13, <1>14


-----------------------------------------------------------------------------
(* The inductive invariant: the types, and TreeWellFormed without the fact *)
(* that nothing allocated means nothing split, which follows from the      *)
(* rest.                                                                   *)
Shape ==
    /\ state \in [DOMAIN state -> {"Free", "Split", "Allocated"}] /\ DOMAIN state \subseteq Block
    /\ freeLists \in [Levels -> Seq(Block)]
    /\ \A b \in InState("Split") : b[1] < MaxOrder

Merged == \A b \in InState("Free") : b[1] > 0 => Buddy(b) \notin InState("Free")

TreeInv == Shape /\ FreeListsExact /\ FullBinaryTree /\ Merged

Root == <<0, 0>>

(* FullBinaryTree for one block.                                           *)
LEMMA Exists ==
  ASSUME FullBinaryTree, NEW b \in Block
  PROVE  b \in DOMAIN state <=> b = Root \/ (b[1] > 0 /\ Parent(b) \in InState("Split"))
BY DEF FullBinaryTree, Parent, Root

(* Neither half of a block on the path below a leaf exists.                *)
LEMMA BelowLeaf ==
  ASSUME FullBinaryTree, NEW b \in Block, b \notin InState("Split"), NEW l \in Levels, l > b[1]
  PROVE  AtLevel(b, l) \notin DOMAIN state /\ Buddy(AtLevel(b, l)) \notin DOMAIN state
<1>1. b[1] \in Nat /\ Levels \subseteq Nat
  BY BlockFacts, BuddyAssumption DEF Levels
<1> DEFINE P == {k \in Levels : k > b[1] /\ (AtLevel(b, k) \in DOMAIN state
                                             \/ Buddy(AtLevel(b, k)) \in DOMAIN state)}
<1> SUFFICES ASSUME P # {} PROVE FALSE
  OBVIOUS
<1>2. PICK k \in P : \A j \in P : k <= j
  BY <1>1, SmallestNat
<1>3. k \in Nat /\ k > 0 /\ k - 1 \in Levels /\ k > b[1] /\ k \in Levels
  BY <1>1, BuddyAssumption DEF Levels
<1>4. PICK a \in Block : a = AtLevel(b, k) /\ a[1] = k
  BY <1>3, PathType
<1>5. Parent(a) = AtLevel(b, k - 1) /\ Parent(Buddy(a)) = Parent(a) /\ Buddy(a) \in Block /\ Buddy(a)[1] = k
  BY <1>3, <1>4, PathStep, BuddyFacts
<1>6. a # Root /\ Buddy(a) # Root
  BY <1>3, <1>4, <1>5 DEF Root
<1>7. a \in DOMAIN state \/ Buddy(a) \in DOMAIN state
  BY <1>4
<1>8. AtLevel(b, k - 1) \in InState("Split")
  BY <1>4, <1>5, <1>6, <1>7, Exists
<1>9. CASE k - 1 = b[1]
  BY <1>8, <1>9, PathType
<1>10. CASE k - 1 # b[1]
  <2>1. k - 1 > b[1] /\ k - 1 < k
    BY <1>1, <1>3, <1>10
  <2>2. AtLevel(b, k - 1) \in DOMAIN state
    BY <1>8 DEF InState
  <2>3. k - 1 \in P
    BY <1>3, <2>1, <2>2
  <2>4. QED
    BY <1>2, <1>3, <2>1, <2>3
<1>11. QED
  BY <1>9, <1>10

(* Every block above one that exists is split.                             *)
LEMMA AboveIsSplit ==
  ASSUME FullBinaryTree, NEW b \in Block, b \in DOMAIN state, NEW l \in Levels, l < b[1]
  PROVE  AtLevel(b, l) \in InState("Split")
<1>1. PICK n \in Nat : n = b[1] /\ n <= MaxOrder
  BY BlockFacts
<1>2. l \in Nat
  BY BuddyAssumption DEF Levels
<1> DEFINE P == {d \in Nat : d > 0 /\ d <= n /\ AtLevel(b, n - d) \notin InState("Split")}
<1> SUFFICES ASSUME P # {} PROVE FALSE
  <2>1. n - l \in Nat /\ n - l > 0 /\ n - l <= n /\ n - (n - l) = l
    BY <1>1, <1>2
  <2>2. n - l \notin P
    OBVIOUS
  <2>3. QED
    BY <2>1, <2>2
<1>3. PICK d \in P : \A j \in P : d <= j
  BY SmallestNat
<1>4. d \in Nat /\ d > 0 /\ d <= n
  OBVIOUS
<1>5. PICK k \in Levels : k = n - d + 1 /\ k > 0 /\ k - 1 = n - d
  BY <1>1, <1>4, BuddyAssumption DEF Levels
<1>6. AtLevel(b, k) \in DOMAIN state
  <2>1. CASE d = 1
    BY <1>1, <1>5, <2>1, PathType
  <2>2. CASE d > 1
    <3>1. d - 1 \in Nat /\ d - 1 > 0 /\ d - 1 <= n /\ d - 1 < d /\ n - (d - 1) = k
      BY <1>1, <1>4, <1>5, <2>2
    <3>2. d - 1 \notin P
      BY <1>3, <1>4, <3>1
    <3>3. AtLevel(b, k) \in InState("Split")
      BY <3>1, <3>2
    <3>4. QED
      BY <3>3 DEF InState
  <2>3. QED
    BY <1>4, <2>1, <2>2
<1>7. PICK a \in Block : a = AtLevel(b, k) /\ a[1] = k
  BY PathType
<1>8. a # Root /\ Parent(a) = AtLevel(b, n - d)
  BY <1>5, <1>7, PathStep DEF Root
<1>9. QED
  BY <1>6, <1>7, <1>8, Exists

(* The halves of the blocks on a path.                                     *)
LEMMA HalfOfPath ==
  ASSUME NEW f \in Block, NEW b \in Block, b[1] > 0
  PROVE  /\ b[1] - 1 \in Levels
         /\ Parent(b) = AtLevel(f, b[1] - 1)
              <=> b = AtLevel(f, b[1]) \/ b = Buddy(AtLevel(f, b[1]))
<1>1. b[1] \in Levels /\ b[1] - 1 \in Levels
  BY BlockFacts, ParentForm
<1>2. PICK a \in Block : a = AtLevel(f, b[1]) /\ a[1] = b[1]
  BY <1>1, PathType
<1>3. Parent(a) = AtLevel(f, b[1] - 1)
  BY <1>1, <1>2, PathStep
<1>4. QED
  BY <1>1, <1>2, <1>3, BuddyFacts


-----------------------------------------------------------------------------
(* TryAllocateBlock: f is the free block found, level that of the request. *)
SplitOf(f, level) == {AtLevel(f, l) : l \in f[1]..(level - 1)}
RightOf(f, level) == {Buddy(AtLevel(f, l)) : l \in (f[1] + 1)..level}

SplitsTo(f, level) ==
    /\ state' = [b \in DOMAIN state \cup SplitOf(f, level) \cup RightOf(f, level)
                         \cup {AtLevel(f, level)} |->
                   IF b = AtLevel(f, level) THEN "Allocated"
                   ELSE IF b \in SplitOf(f, level) THEN "Split"
                   ELSE IF b \in RightOf(f, level) THEN "Free"
                   ELSE state[b]]
    /\ freeLists' = [l \in Levels |->
                       IF l = f[1] THEN RemoveFreeBlock(freeLists[l], f)
                       ELSE IF l \in (f[1] + 1)..level
                       THEN InsertFreeBlock(freeLists[l], Buddy(AtLevel(f, l)))
                       ELSE freeLists[l]]

LEMMA LargestLevel ==
  ASSUME NEW L, L \subseteq Levels, L # {}
  PROVE  Max(L) \in L /\ \A l \in L : l <= Max(L)
<1>1. PICK D : D = {MaxOrder - l : l \in L}
  OBVIOUS
<1>2. D \subseteq Nat /\ D # {}
  <2>1. PICK l \in L : TRUE
    OBVIOUS
  <2>2. MaxOrder - l \in D
    BY <1>1
  <2>3. \A k \in Levels : MaxOrder - k \in Nat
    BY BuddyAssumption DEF Levels
  <2>4. QED
    BY <1>1, <2>2, <2>3
<1>3. PICK d \in D : \A e \in D : d <= e
  BY <1>2, SmallestNat
<1>4. PICK m \in L : d = MaxOrder - m
  BY <1>1, <1>3
<1>5. \A l \in L : m >= l
  <2> SUFFICES ASSUME NEW l \in L PROVE m >= l
    OBVIOUS
  <2>1. MaxOrder - l \in D /\ l \in Int /\ m \in Int
    BY <1>1, BuddyAssumption DEF Levels
  <2>2. QED
    BY <1>3, <1>4, <2>1, BuddyAssumption
<1>6. Max(L) \in L /\ \A l \in L : Max(L) >= l
  BY <1>5 DEF Max
<1>7. \A l \in L : l \in Int
  BY BuddyAssumption DEF Levels
<1>8. QED
  BY <1>6, <1>7

LEMMA HeadIsFree ==
  ASSUME TreeInv, NEW l \in Levels, freeLists[l] # <<>>
  PROVE  /\ Head(freeLists[l]) \in Block /\ Head(freeLists[l]) \in InState("Free")
         /\ Head(freeLists[l])[1] = l
<1>1. PICK list \in Seq(Block) : list = freeLists[l]
  BY DEF TreeInv, Shape
<1>2. 1 \in DOMAIN list /\ Head(list) = list[1] /\ list[1] \in Block
  BY <1>1
<1>3. list[1] \in Range(list)
  BY <1>2 DEF Range
<1>4. Range(list) = {b \in InState("Free") : b[1] = l}
  BY <1>1 DEF TreeInv, FreeListsExact
<1>5. QED
  BY <1>1, <1>2, <1>3, <1>4

LEMMA TrySplits ==
  ASSUME TreeInv, NEW order \in Levels, NEW alignment, TryAllocateBlock(order, alignment)
  PROVE  \E level \in Levels, f \in Block :
           f \in InState("Free") /\ f[1] <= level /\ SplitsTo(f, level)
<1>1. PICK level \in Levels : level = ComputeLevel(order)
  BY BuddyAssumption DEF Levels, ComputeLevel
<1>2. PICK L : L = UsableLevels(level, alignment)
  OBVIOUS
<1>3. L \subseteq Levels /\ L # {} /\ \A l \in L : l <= level /\ freeLists[l] # <<>>
  BY <1>1, <1>2, BuddyAssumption DEF TryAllocateBlock, UsableLevels, Usable, Levels
<1>4. PICK from \in L : from = GetNextFreeAlignedBlock(level, alignment)
  BY <1>2, <1>3, LargestLevel DEF GetNextFreeAlignedBlock
<1>5. PICK f \in Block : f = Head(freeLists[from]) /\ f \in InState("Free") /\ f[1] = from
  BY <1>3, <1>4, HeadIsFree
<1>6. SplitsTo(f, level)
  BY <1>1, <1>4, <1>5 DEF TryAllocateBlock, SplitsTo, SplitOf, RightOf
<1>7. QED
  BY <1>3, <1>4, <1>5, <1>6

(* What the blocks along the path become.                                  *)
LEMMA SplitStates ==
  ASSUME TreeInv, NEW f \in Block, f \in InState("Free"), NEW level \in Levels, f[1] <= level,
         SplitsTo(f, level)
  PROVE  /\ \A b \in SplitOf(f, level) : b \in Block /\ b[1] \in f[1]..(level - 1) /\ b = AtLevel(f, b[1])
         /\ \A b \in RightOf(f, level) : /\ b \in Block /\ b[1] \in (f[1] + 1)..level
                                         /\ b = Buddy(AtLevel(f, b[1])) /\ b \notin DOMAIN state
         /\ AtLevel(f, level) \in Block /\ AtLevel(f, level)[1] = level
         /\ \A b \in Block : b \in DOMAIN state' <=>
              b \in DOMAIN state \/ b \in SplitOf(f, level) \/ b \in RightOf(f, level) \/ b = AtLevel(f, level)
         /\ InState("Split")' = InState("Split") \cup SplitOf(f, level)
         /\ InState("Free")' = (InState("Free") \ {f}) \cup RightOf(f, level)
         /\ InState("Allocated")' = InState("Allocated") \cup {AtLevel(f, level)}
         /\ AtLevel(f, level) \notin InState("Allocated")
<1>1. PICK from \in Nat : from = f[1] /\ from \in Levels
  BY BlockFacts
<1>2. /\ level \in Nat /\ from <= level /\ level <= MaxOrder
      /\ \A l \in from..level : l \in Nat /\ l \in Levels
  BY <1>1, BuddyAssumption DEF Levels
<1>3. PICK S : S = SplitOf(f, level)
  OBVIOUS
<1>4. PICK R : R = RightOf(f, level)
  OBVIOUS
<1>5. PICK new \in Block : new = AtLevel(f, level) /\ new[1] = level
  BY PathType
<1>6. \A l \in from..level : AtLevel(f, l) \in Block /\ AtLevel(f, l)[1] = l
  BY <1>2, PathType
<1>7. AtLevel(f, from) = f
  BY <1>1, PathType
<1>8. \A b \in S : b \in Block /\ b[1] \in from..(level - 1) /\ b = AtLevel(f, b[1])
  BY <1>1, <1>2, <1>3, <1>6 DEF SplitOf
<1>9. f \notin InState("Split")
  BY DEF InState
<1>10. ASSUME NEW l \in (from + 1)..level
       PROVE  /\ AtLevel(f, l) \notin DOMAIN state /\ Buddy(AtLevel(f, l)) \notin DOMAIN state
              /\ Buddy(AtLevel(f, l)) \in Block /\ Buddy(AtLevel(f, l))[1] = l
              /\ Buddy(AtLevel(f, l)) # AtLevel(f, l)
  <2>1. l \in Levels /\ l > from /\ l > 0 /\ l \in from..level
    BY <1>1, <1>2
  <2>2. AtLevel(f, l) \notin DOMAIN state /\ Buddy(AtLevel(f, l)) \notin DOMAIN state
    BY <1>1, <1>9, <2>1, BelowLeaf DEF TreeInv
  <2>3. QED
    BY <1>6, <2>1, <2>2, BuddyFacts
<1>11. \A b \in R : /\ b \in Block /\ b[1] \in (from + 1)..level /\ b = Buddy(AtLevel(f, b[1]))
                    /\ b \notin DOMAIN state
  BY <1>1, <1>4, <1>10 DEF RightOf
<1>12. new \notin S /\ new \notin R
  <2>1. new \notin S
    BY <1>2, <1>5, <1>8
  <2>2. new \notin R
    BY <1>1, <1>2, <1>5, <1>10, <1>11
  <2>3. QED
    BY <2>1, <2>2
<1>13. \A b \in S : b \notin R
  <2> SUFFICES ASSUME NEW b \in S, b \in R PROVE FALSE
    OBVIOUS
  <2>1. b = AtLevel(f, b[1]) /\ b = Buddy(AtLevel(f, b[1])) /\ b[1] \in (from + 1)..level
    BY <1>8, <1>11
  <2>2. QED
    BY <1>10, <2>1
<1>14. \A b \in S : b = f \/ b \notin DOMAIN state
  <2> SUFFICES ASSUME NEW b \in S, b # f PROVE b \notin DOMAIN state
    OBVIOUS
  <2>1. b[1] \in from..(level - 1) /\ b = AtLevel(f, b[1]) /\ b[1] # from
    BY <1>7, <1>8
  <2>2. b[1] \in (from + 1)..level
    BY <1>1, <1>2, <2>1
  <2>3. QED
    BY <1>10, <2>1, <2>2
<1>15. new = f \/ new \notin DOMAIN state
  <2>1. CASE level = from
    BY <1>5, <1>7, <2>1
  <2>2. CASE level # from
    <3>1. level \in (from + 1)..level
      BY <1>1, <1>2, <2>2
    <3>2. QED
      BY <1>5, <1>10, <3>1
  <2>3. QED
    BY <2>1, <2>2
<1>16. f = new \/ f \in S
  <2>1. CASE level = from
    BY <1>5, <1>7, <2>1
  <2>2. CASE level # from
    <3>1. from \in from..(level - 1)
      BY <1>1, <1>2, <2>2
    <3>2. QED
      BY <1>1, <1>3, <1>7, <3>1 DEF SplitOf
  <2>3. QED
    BY <2>1, <2>2
<1>17. f \in DOMAIN state /\ state[f] = "Free"
  BY DEF InState
<1>18. /\ DOMAIN state' = DOMAIN state \cup S \cup R \cup {new}
       /\ \A b \in DOMAIN state' : state'[b] = IF b = new THEN "Allocated"
                                              ELSE IF b \in S THEN "Split"
                                              ELSE IF b \in R THEN "Free"
                                              ELSE state[b]
  BY <1>3, <1>4, <1>5 DEF SplitsTo
<1>19. InState("Split")' = InState("Split") \cup S
  BY <1>11, <1>12, <1>14, <1>15, <1>17, <1>18 DEF InState
<1>20. InState("Free")' = (InState("Free") \ {f}) \cup R
  BY <1>11, <1>12, <1>13, <1>14, <1>15, <1>16, <1>17, <1>18 DEF InState
<1>21. InState("Allocated")' = InState("Allocated") \cup {new}
  BY <1>11, <1>14, <1>17, <1>18 DEF InState
<1>22. new \notin InState("Allocated")
  BY <1>15, <1>17 DEF InState
<1>23. QED
  BY <1>1, <1>3, <1>4, <1>5, <1>8, <1>11, <1>18, <1>19, <1>20, <1>21, <1>22


LEMMA SplitKeepsShape ==
  ASSUME TreeInv, NEW f \in Block, f \in InState("Free"), NEW level \in Levels, f[1] <= level,
         SplitsTo(f, level)
  PROVE  Shape' /\ FreeListsExact'
<1>1. PICK from \in Nat : from = f[1] /\ from \in Levels
  BY BlockFacts
<1>2. \A l \in (from + 1)..level : l \in Levels
  BY <1>1, BuddyAssumption DEF Levels
<1>3. DOMAIN state' \subseteq Block
  <2>1. DOMAIN state' = DOMAIN state \cup SplitOf(f, level) \cup RightOf(f, level) \cup {AtLevel(f, level)}
    BY DEF SplitsTo
  <2>2. DOMAIN state \subseteq Block
    BY DEF TreeInv, Shape
  <2>3. QED
    BY <2>1, <2>2, SplitStates
<1>4. state' \in [DOMAIN state' -> {"Free", "Split", "Allocated"}]
  BY DEF SplitsTo, TreeInv, Shape
<1>5. DOMAIN freeLists' = Levels /\ freeLists' = [l \in Levels |-> freeLists'[l]]
  BY DEF SplitsTo
<1>6. ASSUME NEW l \in Levels
      PROVE  /\ freeLists'[l] \in Seq(Block) /\ IsInjective(freeLists'[l])
             /\ Range(freeLists'[l]) = {b \in InState("Free")' : b[1] = l}
  <2>1. PICK list \in Seq(Block) : list = freeLists[l]
    BY DEF TreeInv, Shape
  <2>2. IsInjective(list) /\ Range(list) = {b \in InState("Free") : b[1] = l}
    BY <2>1 DEF TreeInv, FreeListsExact
  <2>3. InState("Free")' = (InState("Free") \ {f}) \cup RightOf(f, level)
    BY SplitStates
  <2>4. \A b \in RightOf(f, level) : b[1] \in (from + 1)..level /\ b = Buddy(AtLevel(f, b[1])) /\ b \in Block /\ b \notin DOMAIN state
    BY <1>1, SplitStates
  <2>5. CASE l = from
    <3>1. f \in Range(list)
      BY <1>1, <2>2, <2>5
    <3>2. freeLists'[l] = RemoveFreeBlock(list, f)
      BY <1>1, <2>1, <2>5 DEF SplitsTo
    <3>3. \A b \in RightOf(f, level) : b[1] # l
      BY <1>1, <2>4, <2>5
    <3>4. {b \in InState("Free")' : b[1] = l} = {b \in InState("Free") : b[1] = l} \ {f}
      BY <2>3, <3>3
    <3>5. /\ RemoveFreeBlock(list, f) \in Seq(Block) /\ IsInjective(RemoveFreeBlock(list, f))
          /\ Range(RemoveFreeBlock(list, f)) = Range(list) \ {f}
      BY <2>2, <3>1, RemovedList
    <3>6. QED
      BY <2>2, <3>2, <3>4, <3>5
  <2>6. CASE l \in (from + 1)..level
    <3>1. PICK r : r = Buddy(AtLevel(f, l))
      OBVIOUS
    <3>2. r \in RightOf(f, level)
      BY <1>1, <2>6, <3>1 DEF RightOf
    <3>3. r[1] = l
      <4>1. AtLevel(f, l) \in Block /\ AtLevel(f, l)[1] = l /\ l > 0
        BY <1>1, <2>6, PathType
      <4>2. QED
        BY <3>1, <4>1, BuddyFacts
    <3>4. freeLists'[l] = InsertFreeBlock(list, r)
      BY <1>1, <2>1, <2>6, <3>1 DEF SplitsTo
    <3>5. r \in Block /\ r \notin Range(list)
      BY <2>2, <2>4, <3>2 DEF InState
    <3>6. {b \in InState("Free")' : b[1] = l} = {b \in InState("Free") : b[1] = l} \cup {r}
      <4>1. \A b \in RightOf(f, level) : b[1] = l => b = r
        BY <2>4, <3>1
      <4>2. f[1] # l
        BY <1>1, <2>6
      <4>3. QED
        BY <2>3, <3>2, <3>3, <4>1, <4>2
    <3>7. /\ InsertFreeBlock(list, r) \in Seq(Block) /\ IsInjective(InsertFreeBlock(list, r))
          /\ Range(InsertFreeBlock(list, r)) = Range(list) \cup {r}
      BY <2>2, <3>5, InsertedList
    <3>8. QED
      BY <2>2, <3>4, <3>6, <3>7
  <2>7. CASE l # from /\ l \notin (from + 1)..level
    <3>1. freeLists'[l] = list
      BY <1>1, <2>1, <2>7 DEF SplitsTo
    <3>2. \A b \in RightOf(f, level) : b[1] # l
      BY <2>4, <2>7
    <3>3. {b \in InState("Free")' : b[1] = l} = {b \in InState("Free") : b[1] = l}
      BY <1>1, <2>3, <2>7, <3>2
    <3>4. QED
      BY <2>2, <3>1, <3>3
  <2>8. QED
    BY <2>5, <2>6, <2>7
<1>7. freeLists' \in [Levels -> Seq(Block)]
  BY <1>5, <1>6
<1>8. \A b \in InState("Split")' : b[1] < MaxOrder
  <2>1. \A b \in SplitOf(f, level) : b[1] \in f[1]..(level - 1)
    BY SplitStates
  <2>2. \A l \in f[1]..(level - 1) : l < MaxOrder
    BY <1>1, BuddyAssumption DEF Levels
  <2>3. InState("Split")' = InState("Split") \cup SplitOf(f, level)
    BY SplitStates
  <2>4. QED
    BY <2>1, <2>2, <2>3 DEF TreeInv, Shape
<1>9. QED
  BY <1>3, <1>4, <1>6, <1>7, <1>8 DEF Shape, FreeListsExact

LEMMA SplitKeepsTree ==
  ASSUME TreeInv, NEW f \in Block, f \in InState("Free"), NEW level \in Levels, f[1] <= level,
         SplitsTo(f, level)
  PROVE  FullBinaryTree'
<1>1. PICK from \in Nat : from = f[1] /\ from \in Levels
  BY BlockFacts
<1>2. level \in Nat /\ from <= level /\ Levels \subseteq Nat
  BY <1>1, BuddyAssumption DEF Levels
<1>3. f \in DOMAIN state
  BY DEF InState
<1> SUFFICES ASSUME NEW b \in Block
             PROVE  b \in DOMAIN state' <=> b = Root \/ (b[1] > 0 /\ Parent(b) \in InState("Split")')
  BY DEF FullBinaryTree, Parent, Root
<1>4. b \in DOMAIN state <=> b = Root \/ (b[1] > 0 /\ Parent(b) \in InState("Split"))
  BY Exists DEF TreeInv
<1>5. b \in DOMAIN state' <=>
        b \in DOMAIN state \/ b \in SplitOf(f, level) \/ b \in RightOf(f, level) \/ b = AtLevel(f, level)
  BY SplitStates
<1>6. InState("Split")' = InState("Split") \cup SplitOf(f, level)
  BY SplitStates
<1>7. b[1] \in Nat
  BY BlockFacts
<1>8. CASE b[1] = 0
  <2>1. b = Root
    <3>1. b[2] \in Nat /\ b[2] < 2^b[1] /\ b = <<b[1], b[2]>>
      BY BlockFacts
    <3>2. b[2] = 0
      BY <1>8, <3>1, PowerOne
    <3>3. QED
      BY <1>8, <3>1, <3>2 DEF Root
  <2>2. QED
    BY <1>4, <1>5, <2>1
<1>9. CASE b[1] > 0
  <2>1. b[1] - 1 \in Levels /\ Parent(b) \in Block /\ Parent(b)[1] = b[1] - 1
    BY <1>9, ParentForm
  <2>2. Parent(b) \in SplitOf(f, level)
          <=> b[1] \in (from + 1)..level /\ Parent(b) = AtLevel(f, b[1] - 1)
    <3>1. \A s \in SplitOf(f, level) : s[1] \in from..(level - 1) /\ s = AtLevel(f, s[1])
      BY <1>1, SplitStates
    <3>2. b[1] - 1 \in from..(level - 1) <=> b[1] \in (from + 1)..level
      BY <1>1, <1>2, <1>7
    <3>3. \A l \in from..(level - 1) : AtLevel(f, l) \in SplitOf(f, level)
      BY <1>1 DEF SplitOf
    <3>4. QED
      BY <2>1, <3>1, <3>2, <3>3
  <2>3. Parent(b) \in SplitOf(f, level)
          <=> b[1] \in (from + 1)..level /\ (b = AtLevel(f, b[1]) \/ b = Buddy(AtLevel(f, b[1])))
    BY <1>9, <2>2, HalfOfPath
  <2>4. b \in RightOf(f, level) <=> b[1] \in (from + 1)..level /\ b = Buddy(AtLevel(f, b[1]))
    <3>1. \A r \in RightOf(f, level) : r[1] \in (from + 1)..level /\ r = Buddy(AtLevel(f, r[1]))
      BY <1>1, SplitStates
    <3>2. \A l \in (from + 1)..level : Buddy(AtLevel(f, l)) \in RightOf(f, level)
      BY <1>1 DEF RightOf
    <3>3. QED
      BY <3>1, <3>2
  <2>5. (b \in SplitOf(f, level) \/ b = AtLevel(f, level)) <=> b[1] \in from..level /\ b = AtLevel(f, b[1])
    <3>1. \A s \in SplitOf(f, level) : s[1] \in from..(level - 1) /\ s = AtLevel(f, s[1])
      BY <1>1, SplitStates
    <3>2. AtLevel(f, level)[1] = level
      BY PathType
    <3>3. \A l \in from..(level - 1) : AtLevel(f, l) \in SplitOf(f, level)
      BY <1>1 DEF SplitOf
    <3>4. b[1] \in from..level <=> b[1] \in from..(level - 1) \/ b[1] = level
      BY <1>1, <1>2, <1>7
    <3>5. QED
      BY <3>1, <3>2, <3>3, <3>4
  <2>6. b[1] \in from..level <=> b[1] \in (from + 1)..level \/ b[1] = from
    BY <1>1, <1>2, <1>7
  <2>7. b[1] = from /\ b = AtLevel(f, b[1]) => b \in DOMAIN state
    BY <1>1, <1>3, PathType
  <2>8. b # Root
    BY <1>9 DEF Root
  <2>9. QED
    BY <1>4, <1>5, <1>6, <1>9, <2>3, <2>4, <2>5, <2>6, <2>7, <2>8
<1>10. QED
  BY <1>7, <1>8, <1>9

LEMMA SplitKeepsMerged ==
  ASSUME TreeInv, NEW f \in Block, f \in InState("Free"), NEW level \in Levels, f[1] <= level,
         SplitsTo(f, level)
  PROVE  Merged'
<1>1. PICK from \in Nat : from = f[1] /\ from \in Levels
  BY BlockFacts
<1>2. level \in Nat /\ from <= level /\ Levels \subseteq Nat
  BY <1>1, BuddyAssumption DEF Levels
<1>3. InState("Free")' = (InState("Free") \ {f}) \cup RightOf(f, level)
  BY SplitStates
<1>4. \A r \in RightOf(f, level) : /\ r \in Block /\ r[1] \in (from + 1)..level /\ r[1] \in Levels /\ r[1] > 0
                                   /\ r = Buddy(AtLevel(f, r[1]))
  <2>1. \A l \in (from + 1)..level : l > 0 /\ l \in Levels
    BY <1>1, <1>2, BuddyAssumption DEF Levels
  <2>2. QED
    BY <1>1, <2>1, SplitStates
<1>5. ASSUME NEW r \in RightOf(f, level)
      PROVE  Buddy(r) = AtLevel(f, r[1]) /\ Buddy(r) \notin RightOf(f, level) /\ Buddy(r) \notin DOMAIN state
  <2>1. PICK a \in Block : a = AtLevel(f, r[1]) /\ a[1] = r[1]
    BY <1>4, PathType
  <2>2. r = Buddy(a) /\ a[1] > 0
    BY <1>4, <2>1
  <2>3. Buddy(r) = a /\ r # a
    BY <2>1, <2>2, BuddyFacts
  <2>4. a \notin DOMAIN state
    <3>1. f \notin InState("Split") /\ r[1] > f[1] /\ r[1] \in Levels
      BY <1>1, <1>4 DEF InState
    <3>2. QED
      BY <2>1, <3>1, BelowLeaf DEF TreeInv
  <2>5. a \notin RightOf(f, level)
    BY <1>4, <2>1, <2>2, <2>3
  <2>6. QED
    BY <2>1, <2>3, <2>4, <2>5
<1>6. \A b \in InState("Free") : b \in Block /\ b \in DOMAIN state
  BY DEF TreeInv, Shape, InState
<1> SUFFICES ASSUME NEW b \in InState("Free")', b[1] > 0, Buddy(b) \in InState("Free")'
             PROVE  FALSE
  BY DEF Merged
<1>7. CASE b \in RightOf(f, level)
  BY <1>3, <1>5, <1>6, <1>7
<1>8. CASE b \in InState("Free") /\ Buddy(b) \in InState("Free")
  BY <1>8 DEF TreeInv, Merged
<1>9. CASE b \in InState("Free") /\ Buddy(b) \in RightOf(f, level)
  <2>1. Buddy(Buddy(b)) = b
    BY <1>6, <1>9, BuddyFacts
  <2>2. QED
    BY <1>5, <1>6, <1>9, <2>1
<1>10. QED
  BY <1>3, <1>7, <1>8, <1>9


-----------------------------------------------------------------------------
(* DeallocateBlock: to is the level of the block it is merged into.        *)
PathOf(c, to) == {AtLevel(c, l) : l \in (to + 1)..c[1]}
BuddiesOf(c, to) == {Buddy(AtLevel(c, l)) : l \in (to + 1)..c[1]}
UnsplitOf(c, to) == {AtLevel(c, l) : l \in to..(c[1] - 1)}

MergesTo(c, to) ==
    /\ to \in Levels /\ to <= c[1]
    /\ \A l \in (to + 1)..c[1] : BuddyIsFree(AtLevel(c, l))
    /\ to > 0 => ~ BuddyIsFree(AtLevel(c, to))
    /\ state' = [b \in DOMAIN state \ (PathOf(c, to) \cup BuddiesOf(c, to)) |->
                   IF b = AtLevel(c, to) THEN "Free" ELSE state[b]]
    /\ freeLists' = [l \in Levels |->
                       IF l = to THEN InsertFreeBlock(freeLists[l], AtLevel(c, to))
                       ELSE IF l \in (to + 1)..c[1]
                       THEN RemoveFreeBlock(freeLists[l], Buddy(AtLevel(c, l)))
                       ELSE freeLists[l]]

LEMMA DeallocateMerges ==
  ASSUME NEW c \in Block, DeallocateBlock(c)
  PROVE  \E to \in Levels : MergesTo(c, to)
<1>1. PICK n \in Nat : n = c[1] /\ n <= MaxOrder
  BY BlockFacts
<1>2. PICK L : L = MergeLevels(c)
  OBVIOUS
<1>3. L \subseteq Nat /\ n \in L
  <2>1. L = {l \in 0..n : \A k \in (l + 1)..n : BuddyIsFree(AtLevel(c, k))}
    BY <1>1, <1>2 DEF MergeLevels
  <2>2. n \in 0..n /\ (n + 1)..n = {}
    OBVIOUS
  <2>3. QED
    BY <2>1, <2>2
<1>4. PICK x \in L : \A y \in L : x <= y
  BY <1>3, SmallestNat
<1>5. PICK to : to = Min(L)
  OBVIOUS
<1>6. to \in L /\ \A y \in L : to <= y
  BY <1>4, <1>5 DEF Min
<1>7. to \in Nat /\ to <= n /\ \A k \in (to + 1)..n : BuddyIsFree(AtLevel(c, k))
  BY <1>1, <1>2, <1>6 DEF MergeLevels
<1>8. to \in Levels
  BY <1>1, <1>7, BuddyAssumption DEF Levels
<1>9. ASSUME to > 0, BuddyIsFree(AtLevel(c, to)) PROVE FALSE
  <2>1. to - 1 \in 0..n /\ \A k \in (to - 1 + 1)..n : k = to \/ k \in (to + 1)..n
    BY <1>1, <1>7, <1>9
  <2>2. to - 1 \in L
    BY <1>1, <1>2, <1>7, <1>9, <2>1 DEF MergeLevels
  <2>3. QED
    BY <1>6, <1>7, <2>2
<1>10. PICK deleted : deleted = UNION {{AtLevel(c, l), Buddy(AtLevel(c, l))} : l \in (to + 1)..c[1]}
  OBVIOUS
<1>11. deleted = PathOf(c, to) \cup BuddiesOf(c, to)
  <2>1. ASSUME NEW b \in deleted PROVE b \in PathOf(c, to) \cup BuddiesOf(c, to)
    <3>1. PICK l \in (to + 1)..c[1] : b \in {AtLevel(c, l), Buddy(AtLevel(c, l))}
      BY <1>10, <2>1
    <3>2. QED
      BY <3>1 DEF PathOf, BuddiesOf
  <2>2. ASSUME NEW b \in PathOf(c, to) PROVE b \in deleted
    BY <1>10, <2>2 DEF PathOf
  <2>3. ASSUME NEW b \in BuddiesOf(c, to) PROVE b \in deleted
    BY <1>10, <2>3 DEF BuddiesOf
  <2>4. QED
    BY <2>1, <2>2, <2>3
<1>12. state' = [b \in DOMAIN state \ deleted |-> IF b = AtLevel(c, to) THEN "Free" ELSE state[b]]
  BY <1>2, <1>5, <1>10 DEF DeallocateBlock
<1>13. freeLists' = [l \in Levels |->
                       IF l = to THEN InsertFreeBlock(freeLists[l], AtLevel(c, to))
                       ELSE IF l \in (to + 1)..c[1]
                       THEN RemoveFreeBlock(freeLists[l], Buddy(AtLevel(c, l)))
                       ELSE freeLists[l]]
  BY <1>2, <1>5 DEF DeallocateBlock
<1>14. QED
  BY <1>1, <1>7, <1>8, <1>9, <1>11, <1>12, <1>13 DEF MergesTo

(* What the blocks along the path become.                                  *)
LEMMA MergeStates ==
  ASSUME TreeInv, NEW c \in Block, c \in InState("Allocated"), NEW to \in Levels, MergesTo(c, to)
  PROVE  /\ \A b \in PathOf(c, to) : b \in Block /\ b[1] \in (to + 1)..c[1] /\ b = AtLevel(c, b[1])
         /\ \A b \in BuddiesOf(c, to) : /\ b \in Block /\ b[1] \in (to + 1)..c[1]
                                        /\ b = Buddy(AtLevel(c, b[1])) /\ b \in InState("Free")
         /\ \A b \in UnsplitOf(c, to) : b \in Block /\ b[1] \in to..(c[1] - 1) /\ b = AtLevel(c, b[1])
         /\ AtLevel(c, to) \in Block /\ AtLevel(c, to)[1] = to
         /\ AtLevel(c, to) \in DOMAIN state /\ AtLevel(c, to) \notin InState("Free")
         /\ DOMAIN state' = DOMAIN state \ (PathOf(c, to) \cup BuddiesOf(c, to))
         /\ InState("Split")' = InState("Split") \ UnsplitOf(c, to)
         /\ InState("Free")' = (InState("Free") \ BuddiesOf(c, to)) \cup {AtLevel(c, to)}
         /\ InState("Allocated")' = InState("Allocated") \ {c}
<1>1. PICK n \in Nat : n = c[1] /\ n <= MaxOrder
  BY BlockFacts
<1>2. to \in Nat /\ to <= n /\ \A l \in to..n : l \in Levels /\ l \in Nat
  BY <1>1, BuddyAssumption DEF Levels, MergesTo
<1>3. PICK P : P = PathOf(c, to)
  OBVIOUS
<1>4. PICK B : B = BuddiesOf(c, to)
  OBVIOUS
<1>5. PICK U : U = UnsplitOf(c, to)
  OBVIOUS
<1>6. PICK m \in Block : m = AtLevel(c, to) /\ m[1] = to
  BY PathType
<1>7. \A l \in to..n : AtLevel(c, l) \in Block /\ AtLevel(c, l)[1] = l
  BY <1>2, PathType
<1>8. c \in DOMAIN state /\ state[c] = "Allocated" /\ AtLevel(c, n) = c
  BY <1>1, PathType DEF InState
<1>9. \A l \in to..(n - 1) : AtLevel(c, l) \in DOMAIN state /\ state[AtLevel(c, l)] = "Split"
  <2> SUFFICES ASSUME NEW l \in to..(n - 1)
               PROVE AtLevel(c, l) \in DOMAIN state /\ state[AtLevel(c, l)] = "Split"
    OBVIOUS
  <2>1. l \in Levels /\ l < n
    BY <1>1, <1>2
  <2>2. AtLevel(c, l) \in InState("Split")
    BY <1>1, <1>8, <2>1, AboveIsSplit DEF TreeInv
  <2>3. QED
    BY <2>2 DEF InState
<1>10. \A b \in P : b \in Block /\ b[1] \in (to + 1)..n /\ b = AtLevel(c, b[1])
  BY <1>1, <1>2, <1>3, <1>7 DEF PathOf
<1>11. \A b \in U : b \in Block /\ b[1] \in to..(n - 1) /\ b = AtLevel(c, b[1])
  BY <1>1, <1>2, <1>5, <1>7 DEF UnsplitOf
<1>12. ASSUME NEW l \in (to + 1)..n
       PROVE  /\ Buddy(AtLevel(c, l)) \in Block /\ Buddy(AtLevel(c, l))[1] = l
              /\ Buddy(AtLevel(c, l)) \in DOMAIN state /\ state[Buddy(AtLevel(c, l))] = "Free"
  <2>1. BuddyIsFree(AtLevel(c, l))
    BY <1>1 DEF MergesTo
  <2>2. l \in to..n /\ l > 0
    BY <1>1, <1>2
  <2>3. QED
    BY <1>7, <2>1, <2>2, BuddyFacts DEF BuddyIsFree
<1>13. \A b \in B : /\ b \in Block /\ b[1] \in (to + 1)..n /\ b = Buddy(AtLevel(c, b[1]))
                    /\ b \in DOMAIN state /\ state[b] = "Free"
  BY <1>1, <1>4, <1>12 DEF BuddiesOf
<1>14. m \in DOMAIN state /\ state[m] = IF to = n THEN "Allocated" ELSE "Split"
  <2>1. CASE to = n
    BY <1>6, <1>8, <2>1
  <2>2. CASE to # n
    <3>1. to \in to..(n - 1)
      BY <1>1, <1>2, <2>2
    <3>2. QED
      BY <1>6, <1>9, <2>2, <3>1
  <2>3. QED
    BY <2>1, <2>2
<1>15. m \notin P /\ m \notin B
  BY <1>1, <1>2, <1>6, <1>10, <1>13
<1>16. \A b \in P : b = c \/ (b \in U /\ b \in DOMAIN state /\ state[b] = "Split")
  <2> SUFFICES ASSUME NEW b \in P, b # c PROVE b \in U /\ b \in DOMAIN state /\ state[b] = "Split"
    OBVIOUS
  <2>1. b[1] \in (to + 1)..n /\ b = AtLevel(c, b[1]) /\ b[1] # n
    BY <1>8, <1>10
  <2>2. b[1] \in to..(n - 1)
    BY <1>1, <1>2, <2>1
  <2>3. QED
    BY <1>1, <1>5, <1>9, <2>1, <2>2 DEF UnsplitOf
<1>17. c = m \/ c \in P
  <2>1. CASE to = n
    BY <1>6, <1>8, <2>1
  <2>2. CASE to # n
    <3>1. n \in (to + 1)..n
      BY <1>1, <1>2, <2>2
    <3>2. QED
      BY <1>1, <1>3, <1>8, <3>1 DEF PathOf
  <2>3. QED
    BY <2>1, <2>2
<1>18. \A b \in U : b \in P \/ b = m
  <2> SUFFICES ASSUME NEW b \in U, b # m PROVE b \in P
    OBVIOUS
  <2>1. b[1] \in to..(n - 1) /\ b = AtLevel(c, b[1]) /\ b[1] # to
    BY <1>6, <1>11
  <2>2. b[1] \in (to + 1)..n
    BY <1>1, <1>2, <2>1
  <2>3. QED
    BY <1>1, <1>3, <2>1, <2>2 DEF PathOf
<1>19. to # n => m \in U
  <2> SUFFICES ASSUME to # n PROVE m \in U
    OBVIOUS
  <2>1. to \in to..(n - 1)
    BY <1>1, <1>2
  <2>2. QED
    BY <1>1, <1>5, <1>6, <2>1 DEF UnsplitOf
<1>20. to = n => m = c /\ P = {}
  <2>1. to = n => P = {}
    BY <1>1, <1>10
  <2>2. QED
    BY <1>6, <1>8, <2>1
<1>21. /\ DOMAIN state' = DOMAIN state \ (P \cup B)
       /\ \A b \in DOMAIN state' : state'[b] = IF b = m THEN "Free" ELSE state[b]
  BY <1>3, <1>4, <1>6 DEF MergesTo
<1>22. InState("Split")' = InState("Split") \ U
  <2>1. \A b \in DOMAIN state : b \in B => state[b] # "Split"
    BY <1>13
  <2>2. \A b \in DOMAIN state : state[b] = "Split" /\ b \in P => b \in U
    BY <1>8, <1>16
  <2>3. \A b \in DOMAIN state : state[b] = "Split" /\ b = m => b \in U
    BY <1>14, <1>19
  <2>4. QED
    BY <1>18, <1>21, <2>1, <2>2, <2>3 DEF InState
<1>23. InState("Free")' = (InState("Free") \ B) \cup {m}
  <2>1. \A b \in DOMAIN state : b \in P => state[b] # "Free"
    BY <1>8, <1>16
  <2>2. QED
    BY <1>14, <1>15, <1>21, <2>1 DEF InState
<1>24. InState("Allocated")' = InState("Allocated") \ {c}
  <2>1. \A b \in DOMAIN state : state[b] = "Allocated" /\ b \in P => b = c
    BY <1>16
  <2>2. \A b \in DOMAIN state : state[b] = "Allocated" /\ b = m => b = c
    BY <1>14, <1>20
  <2>3. QED
    BY <1>13, <1>17, <1>21, <2>1, <2>2 DEF InState
<1>25. m \notin InState("Free") /\ \A b \in B : b \in InState("Free")
  BY <1>13, <1>14 DEF InState
<1>26. QED
  BY <1>1, <1>3, <1>4, <1>5, <1>6, <1>10, <1>11, <1>13, <1>14, <1>21, <1>22, <1>23, <1>24, <1>25


LEMMA MergeKeepsShape ==
  ASSUME TreeInv, NEW c \in Block, c \in InState("Allocated"), NEW to \in Levels, MergesTo(c, to)
  PROVE  Shape' /\ FreeListsExact'
<1>1. PICK n \in Nat : n = c[1] /\ n <= MaxOrder
  BY BlockFacts
<1>2. PICK m \in Block : m = AtLevel(c, to) /\ m[1] = to /\ m \notin InState("Free")
  BY MergeStates
<1>3. DOMAIN state' \subseteq Block
  BY MergeStates DEF TreeInv, Shape
<1>4. state' \in [DOMAIN state' -> {"Free", "Split", "Allocated"}]
  BY DEF MergesTo, TreeInv, Shape
<1>5. DOMAIN freeLists' = Levels /\ freeLists' = [l \in Levels |-> freeLists'[l]]
  BY DEF MergesTo
<1>6. ASSUME NEW l \in Levels
      PROVE  /\ freeLists'[l] \in Seq(Block) /\ IsInjective(freeLists'[l])
             /\ Range(freeLists'[l]) = {b \in InState("Free")' : b[1] = l}
  <2>1. PICK list \in Seq(Block) : list = freeLists[l]
    BY DEF TreeInv, Shape
  <2>2. IsInjective(list) /\ Range(list) = {b \in InState("Free") : b[1] = l}
    BY <2>1 DEF TreeInv, FreeListsExact
  <2>3. InState("Free")' = (InState("Free") \ BuddiesOf(c, to)) \cup {m}
    BY <1>2, MergeStates
  <2>4. \A b \in BuddiesOf(c, to) : b[1] \in (to + 1)..n /\ b = Buddy(AtLevel(c, b[1])) /\ b \in Block /\ b \in InState("Free")
    BY <1>1, MergeStates
  <2>5. to \in Nat
    BY BuddyAssumption DEF Levels
  <2>6. CASE l = to
    <3>1. freeLists'[l] = InsertFreeBlock(list, m)
      BY <1>2, <2>1, <2>6 DEF MergesTo
    <3>2. \A b \in BuddiesOf(c, to) : b[1] # l
      BY <1>1, <2>4, <2>5, <2>6
    <3>3. {b \in InState("Free")' : b[1] = l} = {b \in InState("Free") : b[1] = l} \cup {m}
      BY <1>2, <2>3, <2>6, <3>2
    <3>4. m \notin Range(list)
      BY <1>2, <2>2
    <3>5. /\ InsertFreeBlock(list, m) \in Seq(Block) /\ IsInjective(InsertFreeBlock(list, m))
          /\ Range(InsertFreeBlock(list, m)) = Range(list) \cup {m}
      BY <2>2, <3>4, InsertedList
    <3>6. QED
      BY <2>2, <3>1, <3>3, <3>5
  <2>7. CASE l \in (to + 1)..n
    <3>1. PICK r : r = Buddy(AtLevel(c, l))
      OBVIOUS
    <3>2. r \in BuddiesOf(c, to)
      BY <1>1, <2>7, <3>1 DEF BuddiesOf
    <3>3. r[1] = l
      <4>1. AtLevel(c, l) \in Block /\ AtLevel(c, l)[1] = l /\ l > 0
        BY <1>1, <2>5, <2>7, PathType
      <4>2. QED
        BY <3>1, <4>1, BuddyFacts
    <3>4. freeLists'[l] = RemoveFreeBlock(list, r)
      BY <1>1, <2>1, <2>5, <2>7, <3>1 DEF MergesTo
    <3>5. r \in Range(list)
      BY <2>2, <2>4, <3>2, <3>3
    <3>6. {b \in InState("Free")' : b[1] = l} = {b \in InState("Free") : b[1] = l} \ {r}
      <4>1. \A b \in BuddiesOf(c, to) : b[1] = l => b = r
        BY <2>4, <3>1
      <4>2. m[1] # l
        BY <1>2, <2>5, <2>7
      <4>3. QED
        BY <2>3, <3>2, <3>3, <4>1, <4>2
    <3>7. /\ RemoveFreeBlock(list, r) \in Seq(Block) /\ IsInjective(RemoveFreeBlock(list, r))
          /\ Range(RemoveFreeBlock(list, r)) = Range(list) \ {r}
      BY <2>2, <3>5, RemovedList
    <3>8. QED
      BY <2>2, <3>4, <3>6, <3>7
  <2>8. CASE l # to /\ l \notin (to + 1)..n
    <3>1. freeLists'[l] = list
      BY <1>1, <2>1, <2>8 DEF MergesTo
    <3>2. \A b \in BuddiesOf(c, to) : b[1] # l
      BY <2>4, <2>8
    <3>3. {b \in InState("Free")' : b[1] = l} = {b \in InState("Free") : b[1] = l}
      BY <1>2, <2>3, <2>8, <3>2
    <3>4. QED
      BY <2>2, <3>1, <3>3
  <2>9. QED
    BY <2>6, <2>7, <2>8
<1>7. freeLists' \in [Levels -> Seq(Block)]
  BY <1>5, <1>6
<1>8. \A b \in InState("Split")' : b[1] < MaxOrder
  BY MergeStates DEF TreeInv, Shape
<1>9. QED
  BY <1>3, <1>4, <1>6, <1>7, <1>8 DEF Shape, FreeListsExact

LEMMA MergeKeepsTree ==
  ASSUME TreeInv, NEW c \in Block, c \in InState("Allocated"), NEW to \in Levels, MergesTo(c, to)
  PROVE  FullBinaryTree'
<1>1. PICK n \in Nat : n = c[1] /\ n <= MaxOrder
  BY BlockFacts
<1>2. to \in Nat /\ to <= n
  BY <1>1, BuddyAssumption DEF Levels, MergesTo
<1> SUFFICES ASSUME NEW b \in Block
             PROVE  b \in DOMAIN state' <=> b = Root \/ (b[1] > 0 /\ Parent(b) \in InState("Split")')
  BY DEF FullBinaryTree, Parent, Root
<1>3. b \in DOMAIN state <=> b = Root \/ (b[1] > 0 /\ Parent(b) \in InState("Split"))
  BY Exists DEF TreeInv
<1>4. DOMAIN state' = DOMAIN state \ (PathOf(c, to) \cup BuddiesOf(c, to))
  BY MergeStates
<1>5. InState("Split")' = InState("Split") \ UnsplitOf(c, to)
  BY MergeStates
<1>6. b[1] \in Nat
  BY BlockFacts
<1>7. b \in PathOf(c, to) <=> b[1] \in (to + 1)..n /\ b = AtLevel(c, b[1])
  <2>1. \A p \in PathOf(c, to) : p[1] \in (to + 1)..n /\ p = AtLevel(c, p[1])
    BY <1>1, MergeStates
  <2>2. \A l \in (to + 1)..n : AtLevel(c, l) \in PathOf(c, to)
    BY <1>1 DEF PathOf
  <2>3. QED
    BY <2>1, <2>2
<1>8. b \in BuddiesOf(c, to) <=> b[1] \in (to + 1)..n /\ b = Buddy(AtLevel(c, b[1]))
  <2>1. \A p \in BuddiesOf(c, to) : p[1] \in (to + 1)..n /\ p = Buddy(AtLevel(c, p[1]))
    BY <1>1, MergeStates
  <2>2. \A l \in (to + 1)..n : Buddy(AtLevel(c, l)) \in BuddiesOf(c, to)
    BY <1>1 DEF BuddiesOf
  <2>3. QED
    BY <2>1, <2>2
<1>9. CASE b[1] = 0
  <2>1. b = Root
    <3>1. b[2] \in Nat /\ b[2] < 2^b[1] /\ b = <<b[1], b[2]>>
      BY BlockFacts
    <3>2. b[2] = 0
      BY <1>9, <3>1, PowerOne
    <3>3. QED
      BY <1>9, <3>1, <3>2 DEF Root
  <2>2. b[1] \notin (to + 1)..n
    BY <1>2, <1>9
  <2>3. QED
    BY <1>3, <1>4, <1>7, <1>8, <2>1, <2>2
<1>10. CASE b[1] > 0
  <2>1. b[1] - 1 \in Levels /\ Parent(b) \in Block /\ Parent(b)[1] = b[1] - 1
    BY <1>10, ParentForm
  <2>2. Parent(b) \in UnsplitOf(c, to)
          <=> b[1] \in (to + 1)..n /\ Parent(b) = AtLevel(c, b[1] - 1)
    <3>1. \A s \in UnsplitOf(c, to) : s[1] \in to..(n - 1) /\ s = AtLevel(c, s[1])
      BY <1>1, MergeStates
    <3>2. b[1] - 1 \in to..(n - 1) <=> b[1] \in (to + 1)..n
      BY <1>1, <1>2, <1>6
    <3>3. \A l \in to..(n - 1) : AtLevel(c, l) \in UnsplitOf(c, to)
      BY <1>1 DEF UnsplitOf
    <3>4. QED
      BY <2>1, <3>1, <3>2, <3>3
  <2>3. Parent(b) \in UnsplitOf(c, to) <=> b \in PathOf(c, to) \/ b \in BuddiesOf(c, to)
    BY <1>7, <1>8, <1>10, <2>2, HalfOfPath
  <2>4. b # Root
    BY <1>10 DEF Root
  <2>5. QED
    BY <1>3, <1>4, <1>5, <1>10, <2>3, <2>4
<1>11. QED
  BY <1>6, <1>9, <1>10

LEMMA MergeKeepsMerged ==
  ASSUME TreeInv, NEW c \in Block, c \in InState("Allocated"), NEW to \in Levels, MergesTo(c, to)
  PROVE  Merged'
<1>1. PICK m \in Block : m = AtLevel(c, to) /\ m[1] = to /\ m \notin InState("Free")
  BY MergeStates
<1>2. InState("Free")' = (InState("Free") \ BuddiesOf(c, to)) \cup {m}
  BY <1>1, MergeStates
<1>3. to > 0 => Buddy(m) \notin InState("Free")
  BY <1>1 DEF MergesTo, BuddyIsFree, InState
<1>4. \A b \in InState("Free") : b \in Block
  BY DEF TreeInv, Shape, InState
<1> SUFFICES ASSUME NEW b \in InState("Free")', b[1] > 0, Buddy(b) \in InState("Free")'
             PROVE  FALSE
  BY DEF Merged
<1>5. b \in Block /\ Buddy(b) # b /\ Buddy(Buddy(b)) = b /\ Buddy(b)[1] = b[1]
  BY <1>2, <1>4, BuddyFacts
<1>6. CASE b = m
  BY <1>1, <1>2, <1>3, <1>5, <1>6
<1>7. CASE Buddy(b) = m
  <2>1. b \in InState("Free") /\ Buddy(m) = b /\ to > 0
    BY <1>1, <1>2, <1>5, <1>7
  <2>2. QED
    BY <1>3, <2>1
<1>8. CASE b # m /\ Buddy(b) # m
  BY <1>2, <1>8 DEF TreeInv, Merged
<1>9. QED
  BY <1>6, <1>7, <1>8

-----------------------------------------------------------------------------
LEMMA InitTree == Init => TreeInv
<1> SUFFICES ASSUME Init PROVE TreeInv
  OBVIOUS
<1>1. Root \in Block /\ 0 \in Levels
  <2>1. 0 \in Levels /\ 0 < 2^0
    BY BuddyAssumption, PowerOne DEF Levels
  <2>2. QED
    BY <2>1, MakeBlock DEF Root
<1>2. DOMAIN state = {Root} /\ state = [b \in {Root} |-> "Free"] /\ state[Root] = "Free"
  BY DEF Init, Root
<1>3. InState("Free") = {Root} /\ InState("Split") = {}
  BY <1>2 DEF InState
<1>4. Shape
  BY <1>1, <1>2, <1>3 DEF Shape, Init, Root
<1>5. FreeListsExact
  <2> SUFFICES ASSUME NEW l \in Levels
               PROVE  /\ IsInjective(freeLists[l])
                      /\ Range(freeLists[l]) = {b \in InState("Free") : b[1] = l}
    BY DEF FreeListsExact
  <2>1. CASE l = 0
    <3>1. freeLists[l] = <<Root>>
      BY <2>1 DEF Init, Root
    <3>2. QED
      BY <1>3, <2>1, <3>1 DEF IsInjective, Range, Root
  <2>2. CASE l # 0
    <3>1. freeLists[l] = <<>>
      BY <2>2 DEF Init
    <3>2. Root[1] # l
      BY <2>2 DEF Root
    <3>3. QED
      BY <1>3, <3>1, <3>2 DEF IsInjective, Range
  <2>3. QED
    BY <2>1, <2>2
<1>6. FullBinaryTree
  <2>1. \A b \in Block : b \in DOMAIN state <=> b = Root
    BY <1>1, <1>2
  <2>2. \A b \in Block : b \in DOMAIN state <=>
          b = Root \/ (b[1] > 0 /\ AtLevel(b, b[1] - 1) \in InState("Split"))
    BY <1>3, <2>1
  <2>3. QED
    BY <2>2 DEF FullBinaryTree, Root
<1>7. Merged
  BY <1>3 DEF Merged, Root
<1>8. QED
  BY <1>4, <1>5, <1>6, <1>7 DEF TreeInv

LEMMA StepTree == TreeInv /\ [Next]_vars => TreeInv'
<1> SUFFICES ASSUME TreeInv, [Next]_vars PROVE TreeInv'
  OBVIOUS
<1>1. ASSUME NEW order \in Levels, NEW a \in Levels, TryAllocateBlock(order, 2^a) PROVE TreeInv'
  <2>1. PICK level \in Levels, f \in Block : f \in InState("Free") /\ f[1] <= level /\ SplitsTo(f, level)
    BY <1>1, TrySplits
  <2>2. QED
    BY <2>1, SplitKeepsShape, SplitKeepsTree, SplitKeepsMerged DEF TreeInv
<1>2. ASSUME NEW c \in InState("Allocated"), DeallocateBlock(c) PROVE TreeInv'
  <2>1. c \in Block
    BY DEF TreeInv, Shape, InState
  <2>2. PICK to \in Levels : MergesTo(c, to)
    BY <1>2, <2>1, DeallocateMerges
  <2>3. QED
    BY <2>1, <2>2, MergeKeepsShape, MergeKeepsTree, MergeKeepsMerged DEF TreeInv
<1>3. CASE UNCHANGED vars
  BY <1>3 DEF vars, TreeInv, Shape, FreeListsExact, FullBinaryTree, Merged, InState
<1>4. QED
  BY <1>1, <1>2, <1>3 DEF Next

(* The inductive invariant holds in every reachable state.                 *)
THEOREM TreeInvariant == Spec => []TreeInv
<1>1. QED
  BY InitTree, StepTree, PTL DEF Spec

(* A split block has two halves.  Those of a split block of the largest    *)
(* level are not split: when nothing is allocated both are free, which     *)
(* DeallocateBlock would have merged.                                      *)
LEMMA NothingAllocated ==
  ASSUME TreeInv, InState("Allocated") = {}
  PROVE  state = [b \in {<<0, 0>>} |-> "Free"]
<1>1. Root \in Block /\ Root \in DOMAIN state
  <2>1. 0 \in Levels /\ 0 < 2^0
    BY BuddyAssumption, PowerOne DEF Levels
  <2>2. Root \in Block
    BY <2>1, MakeBlock DEF Root
  <2>3. QED
    BY <2>2, Exists DEF TreeInv
<1>2. \A b \in DOMAIN state : b \in Block /\ (b \in InState("Split") \/ b \in InState("Free"))
  BY DEF TreeInv, Shape, InState
<1>3. InState("Split") = {}
  <2> SUFFICES ASSUME InState("Split") # {} PROVE FALSE
    OBVIOUS
  <2>1. PICK L : L = {b[1] : b \in InState("Split")}
    OBVIOUS
  <2>2. L \subseteq Levels
    BY <1>2, <2>1, BlockFacts DEF InState
  <2>3. L # {}
    <3>1. PICK b \in InState("Split") : TRUE
      OBVIOUS
    <3>2. b[1] \in L
      BY <2>1
    <3>3. QED
      BY <3>2
  <2>4. PICK top : top = Max(L) /\ top \in L /\ \A l \in L : l <= top
    BY <2>2, <2>3, LargestLevel
  <2>5. PICK s \in InState("Split") : s[1] = top
    BY <2>1, <2>4
  <2>6. s \in Block /\ s[1] < MaxOrder /\ \A b \in InState("Split") : b[1] <= s[1]
    BY <1>2, <2>1, <2>4, <2>5 DEF InState, TreeInv, Shape
  <2>7. PICK k \in Nat, x \in Nat : k = s[1] /\ x = s[2] /\ x < 2^k /\ s = <<k, x>>
    BY <2>6, BlockFacts
  <2>8. k + 1 \in Levels /\ 2 * x \in Nat /\ 2 * x < 2^(k + 1) /\ (2 * x) \div 2 = x
    <3>1. 2^(k + 1) = 2 * 2^k /\ 2^k \in Nat
      BY PowerDoubles
    <3>2. QED
      BY <2>6, <2>7, <3>1, BuddyAssumption DEF Levels
  <2>9. PICK h \in Block : h = <<k + 1, 2 * x>> /\ h[1] = k + 1 /\ h[2] = 2 * x
    BY <2>8, MakeBlock
  <2>10. Parent(h) = s /\ h[1] > 0
    <3>1. h[1] > 0 /\ k + 1 - 1 = k
      BY <2>7, <2>9
    <3>2. Parent(h) = <<k + 1 - 1, (2 * x) \div 2>>
      BY <2>9, <3>1, ParentForm
    <3>3. QED
      BY <2>7, <2>8, <3>1, <3>2
  <2>11. Buddy(h) \in Block /\ Buddy(h)[1] = h[1] /\ Parent(Buddy(h)) = s
    BY <2>10, BuddyFacts
  <2>12. h \in DOMAIN state /\ Buddy(h) \in DOMAIN state
    BY <2>5, <2>9, <2>10, <2>11, Exists DEF TreeInv
  <2>13. h \notin InState("Split") /\ Buddy(h) \notin InState("Split")
    BY <2>6, <2>7, <2>9, <2>11
  <2>14. h \in InState("Free") /\ Buddy(h) \in InState("Free")
    BY <1>2, <2>12, <2>13
  <2>15. QED
    BY <2>10, <2>14 DEF TreeInv, Merged
<1>4. \A b \in DOMAIN state : b = Root
  BY <1>2, <1>3, Exists DEF TreeInv
<1>5. DOMAIN state = {Root} /\ state[Root] = "Free"
  BY <1>1, <1>2, <1>3, <1>4 DEF InState
<1>6. state = [b \in DOMAIN state |-> state[b]]
  BY DEF TreeInv, Shape
<1>7. QED
  BY <1>5, <1>6 DEF Root

LEMMA TreeIsWellFormed == TreeInv => TypeOK /\ TreeWellFormed
<1>1. TreeInv => TypeOK
  <2> SUFFICES ASSUME TreeInv PROVE TypeOK
    OBVIOUS
  <2>1. ASSUME NEW l \in Levels PROVE freeLists[l] \in Seq(DOMAIN state)
    <3>1. PICK list \in Seq(Block) : list = freeLists[l]
      BY DEF TreeInv, Shape
    <3>2. PICK n \in Nat : n = Len(list) /\ DOMAIN list = 1..n
      OBVIOUS
    <3>3. Range(list) \subseteq DOMAIN state
      BY <3>1 DEF TreeInv, FreeListsExact, InState
    <3>4. \A i \in 1..n : list[i] \in DOMAIN state
      BY <3>2, <3>3 DEF Range
    <3>5. list = [i \in 1..n |-> list[i]]
      BY <3>2
    <3>6. QED
      BY <3>1, <3>2, <3>4, <3>5, SeqDef
  <2>2. QED
    BY <2>1 DEF TypeOK, TreeInv, Shape
<1>2. TreeInv => TreeWellFormed
  BY NothingAllocated DEF TreeInv, TreeWellFormed, FullyMerged, Merged
<1>3. QED
  BY <1>1, <1>2

(* TreeWellFormed and TypeOK hold in every reachable state: every mix of   *)
(* splits by TryAllocateBlock and merges by DeallocateBlock leaves a full  *)
(* binary tree whose free blocks are merged and listed exactly once.       *)
THEOREM TreeStaysWellFormed == Spec => [](TypeOK /\ TreeWellFormed)
<1>1. QED
  BY TreeIsWellFormed, TreeInvariant, PTL


-----------------------------------------------------------------------------
(* An offset is a multiple of the block's size, so of any smaller          *)
(* alignment: whichever block heads a list of the right level, it will do. *)
LEMMA MultipleAligned ==
  ASSUME NEW i \in Nat, NEW p \in Nat, p > 0, NEW d \in Nat
  PROVE  (i * (p * d)) % p = 0
<1>1. PICK j \in Nat : j = i * d
  OBVIOUS
<1>2. i * (p * d) = p * j
  BY <1>1
<1>3. (p * j) % p = 0
  OBVIOUS
<1>4. QED
  BY <1>2, <1>3

(* FailsOnlyWhenFull holds in every reachable state: although              *)
(* GetNextFreeAlignedBlock looks only at the head of each list, a request  *)
(* aligned to at most its size fails only when no block could hold it.     *)
THEOREM FailsOnlyWhenNothingFits == Spec => []FailsOnlyWhenFull
<1>1. TreeInv => FailsOnlyWhenFull
  <2> SUFFICES ASSUME TreeInv, NEW order \in Levels, NEW a \in Levels, a <= order, Fits(order, 2^a)
               PROVE  UsableLevels(ComputeLevel(order), 2^a) # {}
    BY DEF FailsOnlyWhenFull
  <2>1. PICK b \in InState("Free") : b[1] <= ComputeLevel(order)
    BY DEF Fits
  <2>2. b \in Block
    BY DEF TreeInv, Shape, InState
  <2>3. PICK l \in Nat : l = b[1] /\ l \in Levels
    BY <2>2, BlockFacts
  <2>4. PICK d \in Nat : MaxOrder - l = a + d
    <3>1. MaxOrder - l - a \in Nat /\ MaxOrder - l = a + (MaxOrder - l - a)
      BY <2>1, <2>3, BuddyAssumption DEF ComputeLevel, Levels
    <3>2. QED
      BY <3>1
  <2>5. b \in Range(freeLists[l])
    BY <2>3 DEF TreeInv, FreeListsExact
  <2>6. freeLists[l] # <<>>
    BY <2>5 DEF Range
  <2>7. PICK h \in Block : h = Head(freeLists[l]) /\ h[1] = l
    BY <2>3, <2>6, HeadIsFree
  <2>8. h[2] \in Nat /\ a \in Nat
    BY <2>7, BlockFacts, BuddyAssumption DEF Levels
  <2>9. 2^a \in Nat /\ 2^a > 0 /\ 2^d \in Nat /\ 2^(a + d) = 2^a * 2^d
    BY <2>8, PowerDoubles, PowerAdds
  <2>10. Offset(h) = h[2] * (2^a * 2^d)
    BY <2>4, <2>7, <2>9 DEF Offset, Size
  <2>11. Offset(h) % 2^a = 0
    BY <2>8, <2>9, <2>10, MultipleAligned
  <2>12. l \in 0..ComputeLevel(order)
    BY <2>1, <2>3, BuddyAssumption DEF ComputeLevel, Levels
  <2>13. l \in UsableLevels(ComputeLevel(order), 2^a)
    BY <2>6, <2>7, <2>11, <2>12 DEF UsableLevels, Usable
  <2>14. QED
    BY <2>13
<1>2. QED
  BY <1>1, TreeInvariant, PTL

-----------------------------------------------------------------------------
(* The blocks as byte ranges.                                              *)
LEMMA RangeFacts ==
  ASSUME NEW b \in Block
  PROVE  /\ 2^MaxOrder \in Nat /\ Size(b) \in Nat /\ Size(b) > 0 /\ Offset(b) \in Nat
         /\ Offset(b) + Size(b) <= 2^MaxOrder
<1>1. PICK k \in Nat, x \in Nat : k = b[1] /\ x = b[2] /\ x < 2^k /\ k <= MaxOrder
  BY BlockFacts
<1>2. PICK m \in Nat : m = MaxOrder - k /\ k + m = MaxOrder
  BY <1>1, BuddyAssumption
<1>3. 2^m \in Nat /\ 2^m > 0 /\ 2^k \in Nat /\ 2^MaxOrder \in Nat /\ 2^(k + m) = 2^k * 2^m
  BY <1>2, BuddyAssumption, PowerDoubles, PowerAdds
<1>4. Size(b) = 2^m /\ Offset(b) = x * 2^m
  BY <1>1, <1>2 DEF Offset, Size
<1>5. x * 2^m \in Nat /\ x * 2^m + 2^m <= 2^k * 2^m
  BY <1>1, <1>3, NextMultiple
<1>6. QED
  BY <1>2, <1>3, <1>4, <1>5

LEMMA QuotientOf ==
  ASSUME NEW x \in Nat, NEW p \in Nat, p > 0, NEW q \in Nat, q * p <= x, x < q * p + p
  PROVE  x \div p = q
OBVIOUS

(* A block that is not part of another one has no byte in common with it.  *)
LEMMA NotPartOf ==
  ASSUME NEW b \in Block, NEW c \in Block, b[1] <= c[1], AtLevel(c, b[1]) # b
  PROVE  Offset(b) + Size(b) <= Offset(c) \/ Offset(c) + Size(c) <= Offset(b)
<1>1. PICK k \in Nat, x \in Nat : k = b[1] /\ x = b[2] /\ b = <<k, x>> /\ k <= MaxOrder
  BY BlockFacts
<1>2. PICK n \in Nat, y \in Nat : n = c[1] /\ y = c[2] /\ n <= MaxOrder
  BY BlockFacts
<1>3. PICK d \in Nat : d = n - k
  BY <1>1, <1>2
<1>4. PICK m \in Nat : m = MaxOrder - n
  BY <1>2, BuddyAssumption
<1>5. MaxOrder - k = d + m
  BY <1>1, <1>2, <1>3, <1>4, BuddyAssumption
<1>6. PICK p \in Nat : p = 2^d /\ p > 0
  BY PowerDoubles
<1>7. PICK s \in Nat : s = 2^m /\ s > 0
  BY PowerDoubles
<1>8. 2^(d + m) = p * s
  BY <1>6, <1>7, PowerAdds
<1>9. Size(b) = p * s /\ Offset(b) = x * (p * s) /\ Size(c) = s /\ Offset(c) = y * s
  BY <1>1, <1>2, <1>4, <1>5, <1>7, <1>8 DEF Offset, Size
<1>10. AtLevel(c, k) = <<k, y \div p>>
  BY <1>1, <1>2, <1>3, <1>6 DEF AtLevel
<1>11. y \div p # x
  BY <1>1, <1>10
<1>12. PICK z \in Nat : z = x * p
  OBVIOUS
<1>13. x * (p * s) = z * s
  BY <1>12
<1>14. CASE y < z
  <2>1. y * s + s <= z * s
    BY <1>14, NextMultiple
  <2>2. QED
    BY <1>9, <1>13, <2>1
<1>15. CASE y >= z + p
  <2>1. (z + p) * s <= y * s /\ (z + p) * s = z * s + p * s
    BY <1>15
  <2>2. QED
    BY <1>9, <1>13, <2>1
<1>16. CASE z <= y /\ y < z + p
  BY <1>6, <1>11, <1>12, <1>16, QuotientOf
<1>17. QED
  BY <1>14, <1>15, <1>16

(* No byte is in two blocks in use.                                        *)
Apart ==
    \A b, c \in InState("Allocated") : b # c =>
        Offset(b) + Size(b) <= Offset(c) \/ Offset(c) + Size(c) <= Offset(b)

LEMMA AllocatedApart == TreeInv => Apart
<1> SUFFICES ASSUME TreeInv PROVE Apart
  OBVIOUS
<1>1. \A b \in InState("Allocated") : b \in Block /\ b \in DOMAIN state /\ b \notin InState("Split")
  BY DEF TreeInv, Shape, InState
<1>2. ASSUME NEW b \in InState("Allocated"), NEW c \in InState("Allocated"), b # c, b[1] <= c[1]
      PROVE  Offset(b) + Size(b) <= Offset(c) \/ Offset(c) + Size(c) <= Offset(b)
  <2>1. b[1] \in Nat /\ c[1] \in Nat /\ b[1] \in Levels
    BY <1>1, BlockFacts
  <2>2. AtLevel(c, b[1]) # b
    <3>1. CASE b[1] = c[1]
      BY <1>1, <1>2, <2>1, <3>1, PathType
    <3>2. CASE b[1] < c[1]
      BY <1>1, <2>1, <3>2, AboveIsSplit DEF TreeInv
    <3>3. QED
      BY <1>2, <2>1, <3>1, <3>2
  <2>3. QED
    BY <1>1, <1>2, <2>2, NotPartOf
<1>3. \A b \in InState("Allocated") : b[1] \in Nat
  BY <1>1, BlockFacts
<1>4. ASSUME NEW b \in InState("Allocated"), NEW c \in InState("Allocated"), b # c
      PROVE  Offset(b) + Size(b) <= Offset(c) \/ Offset(c) + Size(c) <= Offset(b)
  <2>1. b[1] <= c[1] \/ c[1] <= b[1]
    BY <1>3
  <2>2. QED
    BY <1>2, <1>4, <2>1
<1>5. QED
  BY <1>4 DEF Apart

(* A block as the interface sees it.                                       *)
RangeOf(b) == [offset |-> Offset(b), size |-> Size(b)]

LEMMA RangeIsBlock ==
  ASSUME NEW b \in Block
  PROVE  RangeOf(b) \in Interface!Block /\ RangeOf(b).offset + RangeOf(b).size <= 2^MaxOrder
<1>1. PICK M \in Nat : M = 2^MaxOrder
  BY RangeFacts
<1>2. PICK o \in Nat, s \in Nat : o = Offset(b) /\ s = Size(b) /\ s > 0 /\ o + s <= M
  BY <1>1, RangeFacts
<1>3. o \in 0..(M - 1) /\ s \in 1..M
  BY <1>2
<1>4. QED
  BY <1>1, <1>2, <1>3 DEF RangeOf, Interface!Block

LEMMA StepRefines == TreeInv /\ TreeInv' /\ [Next]_vars => [Interface!Next]_Live
<1> SUFFICES ASSUME TreeInv, TreeInv', [Next]_vars PROVE [Interface!Next]_Live
  OBVIOUS
<1>1. Apart /\ Apart'
  BY AllocatedApart, PTL
<1>2. Live = {RangeOf(b) : b \in InState("Allocated")}
  BY DEF Live, RangeOf
<1>3. Live' = {RangeOf(b) : b \in InState("Allocated")'}
  BY DEF Live, RangeOf, Offset, Size
<1>4. \A b \in InState("Allocated") : b \in Block
  BY DEF TreeInv, Shape, InState
<1>5. ASSUME NEW order \in Levels, NEW a \in Levels, TryAllocateBlock(order, 2^a) PROVE Interface!Next
  <2>1. PICK level \in Levels, f \in Block : f \in InState("Free") /\ f[1] <= level /\ SplitsTo(f, level)
    BY <1>5, TrySplits
  <2>2. PICK n \in Block : n = AtLevel(f, level)
    BY PathType
  <2>3. InState("Allocated")' = InState("Allocated") \cup {n} /\ n \notin InState("Allocated")
    BY <2>1, <2>2, SplitStates
  <2>4. Live' = Live \cup {RangeOf(n)}
    BY <1>2, <1>3, <2>3
  <2>5. ASSUME NEW r \in Live PROVE Interface!Disjoint(RangeOf(n), r)
    <3>1. PICK c \in InState("Allocated") : r = RangeOf(c)
      BY <1>2, <2>5
    <3>2. c # n /\ c \in InState("Allocated")' /\ n \in InState("Allocated")'
      BY <2>3
    <3>3. Offset(n) + Size(n) <= Offset(c) \/ Offset(c) + Size(c) <= Offset(n)
      BY <1>1, <3>2 DEF Apart, Offset, Size
    <3>4. QED
      BY <3>1, <3>3 DEF RangeOf, Interface!Disjoint
  <2>6. Interface!TryAllocateBlock(RangeOf(n))
    BY <2>4, <2>5, RangeIsBlock DEF Interface!TryAllocateBlock
  <2>7. QED
    BY <2>6, RangeIsBlock DEF Interface!Next
<1>6. ASSUME NEW c \in InState("Allocated"), DeallocateBlock(c) PROVE Interface!Next
  <2>1. PICK to \in Levels : MergesTo(c, to)
    BY <1>4, <1>6, DeallocateMerges
  <2>2. InState("Allocated")' = InState("Allocated") \ {c}
    BY <1>4, <2>1, MergeStates
  <2>3. \A b \in InState("Allocated") : b # c => RangeOf(b) # RangeOf(c)
    <3> SUFFICES ASSUME NEW b \in InState("Allocated"), b # c, RangeOf(b) = RangeOf(c) PROVE FALSE
      OBVIOUS
    <3>1. Offset(b) = Offset(c) /\ Size(b) = Size(c)
      BY DEF RangeOf
    <3>2. Offset(c) \in Nat /\ Size(c) \in Nat /\ Size(c) > 0
      BY <1>4, RangeFacts
    <3>3. QED
      BY <1>1, <3>1, <3>2 DEF Apart
  <2>4. Live' = Live \ {RangeOf(c)} /\ RangeOf(c) \in Live
    BY <1>2, <1>3, <2>2, <2>3
  <2>5. QED
    BY <1>4, <2>4, RangeIsBlock DEF Interface!Next, Interface!DeallocateBlock
<1>7. CASE UNCHANGED vars
  BY <1>7 DEF vars, Live, InState, Offset, Size
<1>8. QED
  BY <1>5, <1>6, <1>7 DEF Next

(* The buddy system implements the BlockAllocator interface: whatever the  *)
(* sequence of TryAllocateBlock and DeallocateBlock, the blocks in use lie *)
(* within the range and never overlap.                                     *)
THEOREM Refinement == Spec => IsBlockAllocator
<1>1. Init => Interface!Init
  <2>1. Init => InState("Allocated") = {}
    BY DEF Init, InState
  <2>2. QED
    BY <2>1 DEF Interface!Init, Live
<1>2. TreeInv /\ TreeInv' /\ [Next]_vars => [Interface!Next]_Live
  BY StepRefines
<1>3. QED
  BY <1>1, <1>2, TreeInvariant, PTL DEF Spec, IsBlockAllocator, Interface!Spec

-----------------------------------------------------------------------------
(* Memory pools.                                                           *)

(* Lists of segments.                                                      *)

Segment == [size : Nat, pool : Seq(MemoryIds)]

Sorted(list) == \A i, j \in DOMAIN list : i < j => list[i].size < list[j].size

SizesOf(list) == {list[i].size : i \in DOMAIN list}

Held(list) == UNION {Range(list[i].pool) : i \in DOMAIN list}

(* The segments are sorted, and each pool holds memory, none twice, that   *)
(* SetPool has linked to this segment.  So no memory is in two pools.      *)
Tidy(list, mem) ==
    /\ list \in Seq(Segment)
    /\ Sorted(list)
    /\ \A i \in DOMAIN list :
          /\ IsInjective(list[i].pool)
          /\ \A m \in Range(list[i].pool) : mem[m].segment = list[i].size

(* What the binary search keeps: everything before the range is smaller,   *)
(* what is behind it is larger.                                            *)
InRange(list, size, range) ==
    /\ range \in [left : 1..Len(list), right : 1..Len(list)]
    /\ range.left <= range.right
    /\ \A j \in 1..(range.left - 1) : list[j].size < size
    /\ \/ range.right = Len(list)
       \/ list[range.right].size > size
       \/ range.left = range.right /\ list[range.left].size = size

(* n turns are enough to make it that small.                               *)
SmallAfter(list, range, n) ==
    range.left = range.right \/ range.right - range.left <= Len(list) - 1 - n

LEMMA SegmentFacts ==
  ASSUME NEW list \in Seq(Segment)
  PROVE  /\ DOMAIN list = 1..Len(list) /\ Len(list) \in Nat
         /\ \A i \in DOMAIN list :
               /\ list[i] = [size |-> list[i].size, pool |-> list[i].pool]
               /\ list[i].size \in Nat /\ list[i].pool \in Seq(MemoryIds)
<1>1. \A i \in DOMAIN list : list[i] \in Segment
  OBVIOUS
<1>2. QED
  BY <1>1 DEF Segment

LEMMA MiddleIn ==
  ASSUME NEW a \in Nat, NEW b \in Nat, a < b
  PROVE  GetMiddleSegment(a, b) \in Nat /\ a <= GetMiddleSegment(a, b) /\ GetMiddleSegment(a, b) < b
BY DEF GetMiddleSegment

LEMMA NarrowSearches ==
  ASSUME NEW list \in Seq(Segment), Sorted(list), NEW size \in Nat, NEW range, NEW n \in Nat,
         InRange(list, size, range), SmallAfter(list, range, n)
  PROVE  InRange(list, size, Narrow(list, size, range)) /\ SmallAfter(list, Narrow(list, size, range), n + 1)
<1> DEFINE l == range.left
           r == range.right
           m == GetMiddleSegment(l, r)
           new == Narrow(list, size, range)
<1>1. /\ l \in 1..Len(list) /\ r \in 1..Len(list) /\ l <= r /\ Len(list) \in Nat
      /\ range = [left |-> l, right |-> r] /\ DOMAIN list = 1..Len(list)
  BY DEF InRange
<1>2. CASE l = r
  <2>1. new = range
    BY <1>2 DEF Narrow
  <2>2. QED
    BY <2>1, <1>2 DEF SmallAfter
<1>3. CASE l # r
  <2>1. m \in Nat /\ l <= m /\ m < r
    BY <1>1, <1>3, MiddleIn
  <2>2. m \in DOMAIN list /\ m \in 1..Len(list) /\ list[m].size \in Nat
    BY <1>1, <2>1, SegmentFacts
  <2>3. \A j \in 1..(m - 1) : list[j].size < list[m].size
    <3> SUFFICES ASSUME NEW j \in 1..(m - 1) PROVE list[j].size < list[m].size
      OBVIOUS
    <3>1. j \in DOMAIN list /\ j < m
      BY <1>1, <2>1, <2>2
    <3>2. QED
      BY <3>1, <2>2 DEF Sorted
  <2>4. CASE list[m].size = size
    <3>1. new = [left |-> m, right |-> m]
      BY <1>3, <2>4 DEF Narrow
    <3>2. new.left = m /\ new.right = m /\ new \in [left : 1..Len(list), right : 1..Len(list)]
      BY <3>1, <2>2
    <3>3. \A j \in 1..(m - 1) : list[j].size < size
      BY <2>3, <2>4
    <3>4. QED
      BY <3>2, <3>3, <2>1, <2>4 DEF InRange, SmallAfter
  <2>5. CASE list[m].size > size
    <3>1. new = [left |-> l, right |-> m]
      BY <1>1, <1>3, <2>2, <2>5 DEF Narrow
    <3>2. QED
      BY <3>1, <1>1, <1>3, <2>1, <2>2, <2>5 DEF InRange, SmallAfter
  <2>6. CASE list[m].size < size
    <3>1. new = [left |-> m + 1, right |-> r]
      BY <1>1, <1>3, <2>1, <2>2, <2>6 DEF Narrow
    <3>2. \A j \in 1..m : list[j].size \in Nat /\ list[j].size < size
      <4> SUFFICES ASSUME NEW j \in 1..m PROVE list[j].size \in Nat /\ list[j].size < size
        OBVIOUS
      <4>1. j = m \/ j \in 1..(m - 1)
        BY <2>2
      <4>2. j \in DOMAIN list
        BY <2>2
      <4>3. list[j].size \in Nat
        BY <4>2, SegmentFacts
      <4>4. QED
        BY <4>1, <4>3, <2>3, <2>2, <2>6
    <3>3. (m + 1) - 1 = m
      BY <2>1
    <3>4. new.left = m + 1 /\ new.right = r
      BY <3>1
    <3>5. /\ range.right = Len(list)
          \/ list[range.right].size > size
      BY <1>3 DEF InRange
    <3>6. InRange(list, size, new)
      BY <3>1, <3>2, <3>3, <3>4, <3>5, <1>1, <2>1, <2>2 DEF InRange
    <3>7. SmallAfter(list, new, n + 1)
      BY <3>4, <1>1, <1>3, <2>1 DEF SmallAfter
    <3>8. QED
      BY <3>6, <3>7
  <2>7. QED
    BY <2>2, <2>4, <2>5, <2>6
<1>4. QED
  BY <1>2, <1>3

(* FindSegment finds the segment of the size, or the one before or after   *)
(* which it belongs.                                                       *)
LEMMA SegmentFound ==
  ASSUME NEW list \in Seq(Segment), Sorted(list), list # <<>>, NEW size \in Nat
  PROVE  /\ FindSegment(list, size) \in DOMAIN list
         /\ \A j \in 1..(FindSegment(list, size) - 1) : list[j].size < size
         /\ \/ FindSegment(list, size) = Len(list)
            \/ list[FindSegment(list, size)].size >= size
<1> DEFINE N == Len(list)
           Next1(g, n) == IF n = 0 THEN [left |-> 1, right |-> Len(list)] ELSE Narrow(list, size, g[n - 1])
           Is(g, k) == g = [n \in 0..k |-> Next1(g, n)]
<1>1. N \in Nat /\ N > 0
  OBVIOUS
<1>2. \E g : Is(g, N)
  <2> DEFINE P == {k \in Nat : ~ \E g : Is(g, k)}
  <2> SUFFICES ASSUME N \in P PROVE FALSE
    <3> HIDE DEF Is
    <3> QED
      BY <1>1
  <2>1. PICK k \in P : \A j \in P : k <= j
    <3> P \subseteq Nat /\ P # {}
      OBVIOUS
    <3> QED
      BY SmallestNat
  <2>2. k # 0
    <3>1. PICK g : g = [n \in 0..0 |-> [left |-> 1, right |-> Len(list)]]
      OBVIOUS
    <3>2. \A n \in 0..0 : n = 0
      OBVIOUS
    <3>3. Is(g, 0)
      BY <3>1, <3>2
    <3>4. QED
      BY <2>1, <3>3
  <2>3. k - 1 \in Nat /\ k - 1 \notin P
    BY <2>1, <2>2
  <2>4. PICK g : Is(g, k - 1)
    BY <2>3
  <2>5. PICK h : h = [n \in 0..k |-> IF n = k THEN Next1(g, k) ELSE g[n]]
    OBVIOUS
  <2>6. \A n \in 0..(k - 1) : n \in 0..k /\ n # k
    BY <2>3
  <2>7. \A n \in 0..(k - 1) : h[n] = g[n]
    BY <2>5, <2>6
  <2>8. \A n \in 0..(k - 1) : g[n] = Next1(g, n)
    BY <2>4
  <2>9. ASSUME NEW n \in 0..k PROVE h[n] = Next1(h, n)
    <3>1. n = 0 \/ n - 1 \in 0..(k - 1)
      BY <2>3
    <3>2. Next1(h, n) = Next1(g, n)
      BY <3>1, <2>7
    <3>3. CASE n = k
      BY <3>2, <3>3, <2>5
    <3>4. CASE n # k
      <4>1. n \in 0..(k - 1)
        BY <3>4, <2>3
      <4>2. QED
        BY <4>1, <3>2, <2>7, <2>8
    <3>5. QED
      BY <3>3, <3>4
  <2>10. Is(h, k)
    <3> HIDE DEF Next1
    <3>1. h = [n \in 0..k |-> h[n]]
      BY <2>5
    <3>2. QED
      BY <3>1, <2>9
  <2>11. QED
    BY <2>1, <2>10
<1> DEFINE G == CHOOSE g : g = [n \in 0..Len(list) |-> Next1(g, n)]
<1>3. FindSegment(list, size) = G[Len(list)].left
  BY DEF FindSegment
<1>4. Is(G, N)
  BY <1>2
<1>5. \A n \in 0..N : G[n] = Next1(G, n)
  <2> HIDE DEF Next1, G
  <2> QED
    BY <1>4
<1> HIDE DEF G
<1> DEFINE Ok(n) == InRange(list, size, G[n]) /\ SmallAfter(list, G[n], n)
<1>6. \A n \in 0..N : Ok(n)
  <2> DEFINE P == {k \in 0..N : ~ Ok(k)}
  <2> SUFFICES ASSUME P # {} PROVE FALSE
    OBVIOUS
  <2>1. PICK k \in P : \A j \in P : k <= j
    <3> P \subseteq Nat
      BY <1>1
    <3> QED
      BY SmallestNat
  <2>2. Ok(0)
    <3>1. G[0] = [left |-> 1, right |-> N]
      BY <1>1, <1>5
    <3>2. QED
      BY <1>1, <3>1 DEF InRange, SmallAfter
  <2>3. k # 0 /\ k \in 0..N
    BY <2>1, <2>2
  <2>4. k - 1 \in 0..N /\ k - 1 \notin P
    BY <1>1, <2>1, <2>3
  <2>5. Ok(k - 1) /\ (k - 1) + 1 = k /\ k - 1 \in Nat
    BY <1>1, <2>3, <2>4
  <2>6. G[k] = Narrow(list, size, G[k - 1])
    BY <1>5, <2>3
  <2>7. Ok(k)
    BY <2>5, <2>6, NarrowSearches
  <2>8. QED
    BY <2>1, <2>7
<1>7. G[N].left = G[N].right
  BY <1>1, <1>6 DEF InRange, SmallAfter
<1>8. PICK i : i = FindSegment(list, size)
  OBVIOUS
<1>9. InRange(list, size, G[N]) /\ G[N].left = i /\ G[N].right = i
  BY <1>1, <1>3, <1>6, <1>7, <1>8
<1>10. /\ i \in 1..Len(list)
       /\ \A j \in 1..(i - 1) : list[j].size < size
       /\ i = Len(list) \/ list[i].size > size \/ list[i].size = size
  BY <1>9 DEF InRange
<1>11. i \in DOMAIN list /\ list[i].size \in Nat
  BY <1>10, SegmentFacts
<1>12. i = Len(list) \/ list[i].size >= size
  BY <1>10, <1>11
<1>13. QED
  BY <1>8, <1>10, <1>11, <1>12

(* The segment e comes in at i, what follows moves up.                     *)
Inserts(new, list, i, e) ==
    /\ new \in Seq(Segment) /\ Len(new) = Len(list) + 1
    /\ DOMAIN new = 1..(Len(list) + 1)
    /\ new[i] = e
    /\ \A j \in 1..(Len(list) + 1) : j < i => new[j] = list[j]
    /\ \A j \in 1..(Len(list) + 1) : j > i => new[j] = list[j - 1]

LEMMA Inserted ==
  ASSUME NEW list \in Seq(Segment), NEW i \in 1..(Len(list) + 1), NEW e \in Segment
  PROVE  Inserts(InsertAt(list, i, e), list, i, e)
<1>1. Len(list) \in Nat /\ i \in Nat /\ i >= 1 /\ i <= Len(list) + 1
  OBVIOUS
<1>2. PICK a : a = SubSeq(list, 1, i - 1)
  OBVIOUS
<1>3. PICK c : c = SubSeq(list, i, Len(list))
  OBVIOUS
<1>4. /\ a \in Seq(Segment) /\ Len(a) = i - 1 /\ \A j \in 1..(i - 1) : a[j] = list[j]
  BY <1>1, <1>2
<1>5. /\ c \in Seq(Segment) /\ Len(c) = Len(list) - i + 1
      /\ \A j \in 1..(Len(list) - i + 1) : c[j] = list[i + j - 1]
  BY <1>1, <1>3
<1>6. <<e>> \in Seq(Segment) /\ Len(<<e>>) = 1 /\ <<e>>[1] = e
  OBVIOUS
<1>7. PICK b : b = a \o <<e>>
  OBVIOUS
<1>8. /\ b \in Seq(Segment) /\ Len(b) = i
      /\ \A j \in 1..i : b[j] = IF j < i THEN list[j] ELSE e
  <2>1. b \in Seq(Segment) /\ Len(b) = (i - 1) + 1
    BY <1>1, <1>4, <1>6, <1>7
  <2>2. \A j \in 1..i : b[j] = IF j <= i - 1 THEN a[j] ELSE <<e>>[j - (i - 1)]
    BY <1>1, <1>4, <1>6, <1>7
  <2>3. ASSUME NEW j \in 1..i PROVE b[j] = IF j < i THEN list[j] ELSE e
    <3>1. CASE j < i
      BY <3>1, <1>1, <1>4, <2>2
    <3>2. CASE j = i
      <4>1. j - (i - 1) = 1 /\ ~ (j <= i - 1)
        BY <3>2, <1>1
      <4>2. QED
        BY <4>1, <3>2, <1>6, <2>2
    <3>3. QED
      BY <3>1, <3>2, <1>1
  <2>4. QED
    BY <2>1, <2>3, <1>1
<1>9. InsertAt(list, i, e) = b \o c
  BY <1>2, <1>3, <1>7 DEF InsertAt
<1>10. PICK d : d = b \o c
  OBVIOUS
<1>11. /\ d \in Seq(Segment) /\ Len(d) = Len(list) + 1
       /\ \A j \in 1..(Len(list) + 1) : d[j] = IF j <= i THEN b[j] ELSE c[j - i]
  BY <1>1, <1>5, <1>8, <1>10
<1>12. ASSUME NEW j \in 1..(Len(list) + 1)
       PROVE  d[j] = IF j < i THEN list[j] ELSE IF j = i THEN e ELSE list[j - 1]
  <2>1. CASE j <= i
    BY <2>1, <1>1, <1>8, <1>11
  <2>2. CASE j > i
    <3>1. j - i \in 1..(Len(list) - i + 1) /\ i + (j - i) - 1 = j - 1
      BY <2>2, <1>1
    <3>2. c[j - i] = list[j - 1]
      BY <3>1, <1>5
    <3>3. QED
      BY <3>2, <2>2, <1>1, <1>11
  <2>3. QED
    BY <2>1, <2>2, <1>1
<1>13. DOMAIN d = 1..(Len(list) + 1)
  BY <1>11
<1>14. /\ d[i] = e
       /\ \A j \in 1..(Len(list) + 1) : j < i => d[j] = list[j]
       /\ \A j \in 1..(Len(list) + 1) : j > i => d[j] = list[j - 1]
  BY <1>1, <1>12
<1>15. Inserts(d, list, i, e)
  BY <1>11, <1>13, <1>14 DEF Inserts
<1>16. QED
  BY <1>9, <1>10, <1>15

LEMMA InsertedSorted ==
  ASSUME NEW list \in Seq(Segment), Sorted(list), NEW i \in 1..(Len(list) + 1), NEW e,
         \A j \in 1..(i - 1) : list[j].size < e.size,
         \A j \in i..Len(list) : e.size < list[j].size, NEW d, Inserts(d, list, i, e)
  PROVE  Sorted(d)
<1>1. Len(list) \in Nat /\ i \in Nat /\ i >= 1 /\ i <= Len(list) + 1 /\ DOMAIN list = 1..Len(list)
  OBVIOUS
<1>3. /\ DOMAIN d = 1..(Len(list) + 1)
      /\ d[i] = e
      /\ \A j \in 1..(Len(list) + 1) : j < i => d[j] = list[j]
      /\ \A j \in 1..(Len(list) + 1) : j > i => d[j] = list[j - 1]
  BY DEF Inserts
<1> SUFFICES ASSUME NEW j \in 1..(Len(list) + 1), NEW k \in 1..(Len(list) + 1), j < k
             PROVE  d[j].size < d[k].size
  BY <1>3 DEF Sorted
<1>4. CASE k < i
  BY <1>1, <1>3, <1>4 DEF Sorted
<1>5. CASE k = i
  BY <1>1, <1>3, <1>5
<1>6. CASE k > i
  <2>1. d[k] = list[k - 1] /\ k - 1 \in i..Len(list) /\ k - 1 \in DOMAIN list
    BY <1>1, <1>3, <1>6
  <2>2. CASE j < i
    <3>1. d[j] = list[j] /\ j < k - 1 /\ j \in DOMAIN list
      BY <1>1, <1>3, <1>6, <2>2
    <3>2. QED
      BY <2>1, <3>1 DEF Sorted
  <2>3. CASE j = i
    BY <1>1, <1>3, <2>1, <2>3
  <2>4. CASE j > i
    <3>1. d[j] = list[j - 1] /\ j - 1 < k - 1 /\ j - 1 \in DOMAIN list
      BY <1>1, <1>3, <1>6, <2>4
    <3>2. QED
      BY <2>1, <3>1 DEF Sorted
  <2>5. QED
    BY <1>1, <2>2, <2>3, <2>4
<1>7. QED
  BY <1>1, <1>4, <1>5, <1>6

(* A segment that is new is empty.                                         *)
LEMMA InsertedTidy ==
  ASSUME NEW mem, NEW list, Tidy(list, mem), NEW i \in 1..(Len(list) + 1), NEW size \in Nat,
         \A j \in 1..(i - 1) : list[j].size < size,
         \A j \in i..Len(list) : size < list[j].size,
         NEW new, new = InsertAt(list, i, [size |-> size, pool |-> <<>>])
  PROVE  /\ Tidy(new, mem) /\ Held(new) = Held(list)
         /\ SizesOf(new) = SizesOf(list) \cup {size} /\ Len(new) = Len(list) + 1
<1> DEFINE e == [size |-> size, pool |-> <<>>]
           N == Len(list)
<1>1. list \in Seq(Segment) /\ Sorted(list) /\ N \in Nat /\ DOMAIN list = 1..N
  BY DEF Tidy
<1>2. e \in Segment /\ e.size = size /\ e.pool = <<>>
  BY DEF Segment
<1> HIDE DEF e
<1>14. Inserts(new, list, i, e)
  BY <1>1, <1>2, Inserted DEF e
<1>3. /\ new \in Seq(Segment) /\ Len(new) = N + 1 /\ DOMAIN new = 1..(N + 1)
      /\ new[i] = e
      /\ \A j \in 1..(N + 1) : j < i => new[j] = list[j]
      /\ \A j \in 1..(N + 1) : j > i => new[j] = list[j - 1]
  BY <1>14 DEF Inserts
<1>4. Sorted(new)
  BY <1>1, <1>2, <1>14, InsertedSorted
<1>5. i \in Nat /\ i >= 1 /\ i <= N + 1
  BY <1>1
<1> HIDE DEF N
<1>6. \A j \in 1..(N + 1) : j = i \/ \E k \in DOMAIN list : new[j] = list[k]
  <2> SUFFICES ASSUME NEW j \in 1..(N + 1), j # i PROVE \E k \in DOMAIN list : new[j] = list[k]
    OBVIOUS
  <2>1. CASE j < i
    <3>1. j \in 1..N /\ new[j] = list[j]
      BY <2>1, <1>1, <1>3, <1>5
    <3>2. QED
      BY <3>1, <1>1
  <2>2. CASE j > i
    <3>1. j - 1 \in 1..N /\ new[j] = list[j - 1]
      BY <2>2, <1>1, <1>3, <1>5
    <3>2. QED
      BY <3>1, <1>1
  <2>3. QED
    BY <2>1, <2>2, <1>5
<1>7. \A k \in DOMAIN list : \E j \in 1..(N + 1) : new[j] = list[k]
  <2> SUFFICES ASSUME NEW k \in 1..N PROVE \E j \in 1..(N + 1) : new[j] = list[k]
    BY <1>1
  <2>1. CASE k < i
    <3>1. k \in 1..(N + 1) /\ new[k] = list[k]
      BY <2>1, <1>1, <1>3
    <3>2. QED
      BY <3>1
  <2>2. CASE ~ (k < i)
    <3>1. k + 1 \in 1..(N + 1) /\ (k + 1) - 1 = k /\ ~ (k + 1 < i) /\ k + 1 # i
      <4>1. k \in Nat /\ i \in Nat /\ N \in Nat /\ k <= N /\ k >= 1
        BY <1>1, <1>5
      <4>2. QED
        BY <4>1, <2>2
    <3>2. new[k + 1] = list[k]
      BY <3>1, <1>3
    <3>3. QED
      BY <3>1, <3>2
  <2>3. QED
    BY <2>1, <2>2
<1>8. new[i] = e /\ i \in 1..(N + 1)
  BY <1>1, <1>3, <1>5
<1>9. Range(e.pool) = {} /\ IsInjective(e.pool)
  BY <1>2 DEF Range, IsInjective
<1>10. Tidy(new, mem)
  <2> SUFFICES ASSUME NEW j \in 1..(N + 1)
               PROVE  IsInjective(new[j].pool) /\ \A m \in Range(new[j].pool) : mem[m].segment = new[j].size
    BY <1>3, <1>4 DEF Tidy
  <2> QED
    BY <1>6, <1>8, <1>9 DEF Tidy
<1>11. Held(new) = Held(list)
  <2>1. Held(new) \subseteq Held(list)
    BY <1>3, <1>6, <1>8, <1>9 DEF Held
  <2>2. Held(list) \subseteq Held(new)
    <3> SUFFICES ASSUME NEW k \in DOMAIN list, NEW m \in Range(list[k].pool) PROVE m \in Held(new)
      BY DEF Held
    <3>1. PICK j \in 1..(N + 1) : new[j] = list[k]
      BY <1>7
    <3>2. j \in DOMAIN new /\ m \in Range(new[j].pool)
      BY <3>1, <1>3
    <3>3. QED
      BY <3>2 DEF Held
  <2>3. QED
    BY <2>1, <2>2
<1>12. SizesOf(new) = SizesOf(list) \cup {size}
  <2>1. SizesOf(new) \subseteq SizesOf(list) \cup {size}
    BY <1>2, <1>3, <1>6, <1>8 DEF SizesOf
  <2>2. SizesOf(list) \cup {size} \subseteq SizesOf(new)
    BY <1>2, <1>3, <1>7, <1>8 DEF SizesOf
  <2>3. QED
    BY <2>1, <2>2
<1>13. QED
  BY <1>3, <1>10, <1>11, <1>12 DEF N

(* GetOrCreateFreeSegment leaves a sorted list with the segment in it.     *)
LEMMA GetOrCreateTidy ==
  ASSUME NEW mem, NEW list, Tidy(list, mem), NEW size \in Nat,
         NEW new, new = GetOrCreateFreeSegment(list, size)
  PROVE  Tidy(new, mem) /\ Held(new) = Held(list) /\ SizesOf(new) = SizesOf(list) \cup {size}
<1>1. list \in Seq(Segment) /\ Sorted(list) /\ Len(list) \in Nat /\ DOMAIN list = 1..Len(list)
  BY DEF Tidy
<1>2. CASE list = <<>>
  <2> DEFINE e == [size |-> size, pool |-> <<>>]
  <2>1. new = <<e>> /\ e.size = size /\ e.pool = <<>> /\ e \in Segment
    BY <1>2 DEF GetOrCreateFreeSegment, Segment
  <2>2. new \in Seq(Segment) /\ DOMAIN new = {1} /\ new[1] = e
    <3> HIDE DEF e
    <3>1. DOMAIN new = 1..1 /\ new \in Seq(Segment) /\ new[1] = e
      BY <2>1
    <3>2. QED
      BY <3>1
  <2> HIDE DEF e
  <2>3. Range(e.pool) = {} /\ IsInjective(e.pool)
    BY <2>1 DEF Range, IsInjective
  <2>4. Tidy(new, mem)
    BY <2>2, <2>3 DEF Tidy, Sorted
  <2>5. Held(new) = {} /\ Held(list) = {} /\ SizesOf(list) = {} /\ SizesOf(new) = {size}
    BY <1>2, <2>1, <2>2, <2>3 DEF Held, SizesOf
  <2>6. QED
    BY <2>4, <2>5
<1>3. CASE list # <<>>
  <2>1. PICK i : i = FindSegment(list, size)
    OBVIOUS
  <2>2. /\ i \in DOMAIN list /\ i \in 1..Len(list) /\ list[i].size \in Nat
        /\ \A j \in 1..(i - 1) : list[j].size < size
        /\ i = Len(list) \/ list[i].size >= size
    BY <1>1, <1>3, <2>1, SegmentFound, SegmentFacts
  <2>3. CASE list[i].size = size
    <3>1. new = list
      BY <1>3, <2>1, <2>3 DEF GetOrCreateFreeSegment
    <3>2. size \in SizesOf(list)
      BY <2>2, <2>3 DEF SizesOf
    <3>3. QED
      BY <3>1, <3>2
  <2>4. CASE list[i].size > size
    <3>1. new = InsertAt(list, i, [size |-> size, pool |-> <<>>])
      BY <1>3, <2>1, <2>2, <2>4 DEF GetOrCreateFreeSegment
    <3>2. \A j \in i..Len(list) : size < list[j].size
      <4> SUFFICES ASSUME NEW j \in i..Len(list), j # i PROVE size < list[j].size
        BY <2>4
      <4>1. j \in DOMAIN list /\ i < j /\ list[j].size \in Nat
        BY <1>1, <2>2, SegmentFacts
      <4>2. QED
        BY <4>1, <2>2, <2>4, <1>1 DEF Sorted
    <3>3. i \in 1..(Len(list) + 1)
      BY <1>1, <2>2
    <3>4. QED
      BY <3>1, <3>2, <3>3, <2>2, InsertedTidy
  <2>5. CASE list[i].size < size
    <3>1. new = InsertAt(list, i + 1, [size |-> size, pool |-> <<>>])
      BY <1>3, <2>1, <2>2, <2>5 DEF GetOrCreateFreeSegment
    <3>2. i = Len(list) /\ i + 1 \in 1..(Len(list) + 1) /\ (i + 1) - 1 = i
      BY <1>1, <2>2, <2>5
    <3>3. \A j \in 1..i : j \in 1..(i - 1) \/ j = i
      BY <2>2
    <3>4. \A j \in 1..((i + 1) - 1) : list[j].size < size
      BY <3>2, <3>3, <2>2, <2>5
    <3>5. \A j \in (i + 1)..Len(list) : size < list[j].size
      BY <1>1, <3>2
    <3>6. QED
      BY <3>1, <3>2, <3>4, <3>5, InsertedTidy
  <2>6. QED
    BY <2>2, <2>3, <2>4, <2>5
<1>4. QED
  BY <1>2, <1>3

LEMMA TidyFacts ==
  ASSUME NEW mem, NEW list, Tidy(list, mem)
  PROVE  /\ list \in Seq(Segment) /\ Len(list) \in Nat /\ DOMAIN list = 1..Len(list)
         /\ \A i \in DOMAIN list :
               /\ list[i].size \in Nat /\ list[i].pool \in Seq(MemoryIds) /\ list[i] \in Segment
               /\ IsInjective(list[i].pool)
               /\ Range(list[i].pool) \subseteq MemoryIds \cap Held(list)
               /\ \A m \in Range(list[i].pool) : mem[m].segment = list[i].size
         /\ \A i, j \in DOMAIN list : list[i].size = list[j].size => i = j
         /\ Held(list) \subseteq MemoryIds
<1>1. list \in Seq(Segment) /\ Sorted(list)
  BY DEF Tidy
<1>2. /\ Len(list) \in Nat /\ DOMAIN list = 1..Len(list)
      /\ \A i \in DOMAIN list : /\ list[i].size \in Nat /\ list[i].pool \in Seq(MemoryIds)
                                /\ list[i] \in Segment
  BY <1>1, SegmentFacts
<1>3. \A i \in DOMAIN list : Range(list[i].pool) \subseteq MemoryIds \cap Held(list)
  <2> SUFFICES ASSUME NEW i \in DOMAIN list, NEW m \in Range(list[i].pool)
               PROVE  m \in MemoryIds /\ m \in Held(list)
    OBVIOUS
  <2>1. m \in Held(list)
    BY DEF Held
  <2>2. PICK p : p = list[i].pool
    OBVIOUS
  <2>3. p \in Seq(MemoryIds) /\ m \in Range(p)
    BY <1>2, <2>2
  <2>4. m \in MemoryIds
    BY <2>3 DEF Range
  <2>5. QED
    BY <2>1, <2>4
<1>4. \A i, j \in DOMAIN list : list[i].size = list[j].size => i = j
  <2> SUFFICES ASSUME NEW i \in DOMAIN list, NEW j \in DOMAIN list, list[i].size = list[j].size PROVE i = j
    OBVIOUS
  <2>1. i \in Nat /\ j \in Nat /\ list[i].size \in Nat
    BY <1>2
  <2>2. ~ (i < j) /\ ~ (j < i)
    BY <1>1, <2>1 DEF Sorted
  <2>3. QED
    BY <2>1, <2>2
<1>5. Held(list) \subseteq MemoryIds
  BY <1>3 DEF Held
<1>6. QED
  BY <1>1, <1>2, <1>3, <1>4, <1>5 DEF Tidy

(* A memory object is in one pool of a chain at most.                      *)
LEMMA OnePool ==
  ASSUME NEW mem, NEW list, Tidy(list, mem), NEW i \in DOMAIN list, NEW j \in DOMAIN list,
         NEW m \in Range(list[i].pool), m \in Range(list[j].pool)
  PROVE  i = j
<1>1. mem[m].segment = list[i].size /\ mem[m].segment = list[j].size
  BY TidyFacts
<1>2. QED
  BY <1>1, TidyFacts

LEMMA IndexFound ==
  ASSUME NEW mem, NEW list, Tidy(list, mem), NEW size \in SizesOf(list)
  PROVE  IndexOfSize(list, size) \in DOMAIN list /\ list[IndexOfSize(list, size)].size = size
BY DEF IndexOfSize, SizesOf

(* The pools change, the segments stay.                                    *)
SameSegments(new, list, mem) ==
    /\ new \in Seq(Segment) /\ DOMAIN new = DOMAIN list
    /\ \A i \in DOMAIN list :
          /\ new[i].size = list[i].size /\ IsInjective(new[i].pool)
          /\ \A m \in Range(new[i].pool) : mem[m].segment = list[i].size

LEMMA PoolsReplaced ==
  ASSUME NEW mem, NEW mem2, NEW list, Tidy(list, mem), NEW new, SameSegments(new, list, mem2)
  PROVE  Tidy(new, mem2) /\ SizesOf(new) = SizesOf(list)
<1> USE DEF SameSegments
<1>1. Sorted(new)
  BY DEF Tidy, Sorted
<1>2. SizesOf(new) = SizesOf(list)
  BY DEF SizesOf
<1>3. QED
  BY <1>1, <1>2 DEF Tidy

(* What comes into pool i is linked to its segment, and the memory of the  *)
(* other pools stays linked.                                               *)
Links(pool, list, i, mem, mem2) ==
    /\ \A m \in Range(pool) : mem2[m].segment = list[i].size
    /\ \A m \in Held(list) \ Range(list[i].pool) : mem2[m].segment = mem[m].segment

WithPool(list, i, pool) == [list EXCEPT ![i] = [size |-> list[i].size, pool |-> pool]]

(* One pool of the list changes.                                           *)
LEMMA PoolReplaced ==
  ASSUME NEW mem, NEW mem2, NEW list, Tidy(list, mem), NEW i \in DOMAIN list,
         NEW pool \in Seq(MemoryIds), IsInjective(pool), NEW new,
         new = WithPool(list, i, pool),
         Links(pool, list, i, mem, mem2)
  PROVE  /\ Tidy(new, mem2) /\ SizesOf(new) = SizesOf(list) /\ Len(new) = Len(list)
         /\ Held(new) = (Held(list) \ Range(list[i].pool)) \cup Range(pool)
<1>1. /\ list \in Seq(Segment) /\ Len(list) \in Nat /\ DOMAIN list = 1..Len(list)
      /\ \A j \in DOMAIN list : list[j].size \in Nat /\ list[j] \in Segment
  BY TidyFacts
<1>2. PICK e : e = [size |-> list[i].size, pool |-> pool]
  OBVIOUS
<1>3. e \in Segment /\ e.size = list[i].size /\ e.pool = pool
  BY <1>1, <1>2 DEF Segment
<1>4. /\ new \in Seq(Segment) /\ DOMAIN new = DOMAIN list /\ new[i] = e
      /\ \A j \in DOMAIN list : j # i => new[j] = list[j]
  BY <1>1, <1>2, <1>3 DEF WithPool
<1>5. Len(new) = Len(list)
  BY <1>1, <1>4
<1>6. ASSUME NEW j \in DOMAIN list
      PROVE  /\ new[j].size = list[j].size /\ IsInjective(new[j].pool)
             /\ \A m \in Range(new[j].pool) : mem2[m].segment = list[j].size
  <2>1. CASE j = i
    BY <2>1, <1>3, <1>4 DEF Links
  <2>2. CASE j # i
    <3>1. new[j] = list[j]
      BY <2>2, <1>4
    <3>2. \A m \in Range(list[j].pool) : m \in Held(list) \ Range(list[i].pool)
      BY <2>2, OnePool, TidyFacts
    <3>3. QED
      BY <3>1, <3>2, TidyFacts DEF Links
  <2>3. QED
    BY <2>1, <2>2
<1>7. Tidy(new, mem2) /\ SizesOf(new) = SizesOf(list)
  <2>1. SameSegments(new, list, mem2)
    BY <1>4, <1>6 DEF SameSegments
  <2>2. QED
    BY <2>1, PoolsReplaced
<1>8. Held(new) = (Held(list) \ Range(list[i].pool)) \cup Range(pool)
  <2>1. ASSUME NEW j \in DOMAIN new, NEW m \in Range(new[j].pool)
        PROVE  m \in (Held(list) \ Range(list[i].pool)) \cup Range(pool)
    <3>1. CASE j = i
      BY <3>1, <1>3, <1>4
    <3>2. CASE j # i
      <4>1. new[j] = list[j] /\ j \in DOMAIN list
        BY <3>2, <1>4
      <4>2. m \in Held(list) /\ m \notin Range(list[i].pool)
        BY <3>2, <4>1, OnePool, TidyFacts
      <4>3. QED
        BY <4>2
    <3>3. QED
      BY <3>1, <3>2
  <2>2. ASSUME NEW m \in Range(pool) PROVE m \in Held(new)
    BY <1>3, <1>4 DEF Held
  <2>3. ASSUME NEW j \in DOMAIN list, NEW m \in Range(list[j].pool), m \notin Range(list[i].pool)
        PROVE  m \in Held(new)
    <3>1. j # i
      BY <2>3
    <3>2. new[j] = list[j] /\ j \in DOMAIN new
      BY <3>1, <1>4
    <3>3. QED
      BY <3>2, <2>3 DEF Held
  <2>4. Held(new) \subseteq (Held(list) \ Range(list[i].pool)) \cup Range(pool)
    BY <2>1 DEF Held
  <2>5. (Held(list) \ Range(list[i].pool)) \cup Range(pool) \subseteq Held(new)
    BY <2>2, <2>3 DEF Held
  <2>6. QED
    BY <2>4, <2>5
<1>9. QED
  BY <1>5, <1>7, <1>8

(* What is behind the first n of a pool.                                   *)
LEMMA PoolTrimmed ==
  ASSUME NEW pool \in Seq(MemoryIds), IsInjective(pool), NEW n \in 0..Len(pool), NEW new,
         new = SubSeq(pool, n + 1, Len(pool))
  PROVE  /\ new \in Seq(MemoryIds) /\ IsInjective(new) /\ Range(new) = Range(pool) \ FirstOf(pool, n)
         /\ FirstOf(pool, n) \subseteq Range(pool) /\ FirstOf(pool, n) \subseteq MemoryIds
<1>1. Len(pool) \in Nat /\ n \in Nat /\ n <= Len(pool) /\ DOMAIN pool = 1..Len(pool)
  OBVIOUS
<1>2. /\ new \in Seq(MemoryIds) /\ Len(new) = Len(pool) - n
      /\ \A k \in 1..(Len(pool) - n) : new[k] = pool[n + k]
  <2>1. \A k \in (n + 1)..Len(pool) : pool[k] \in MemoryIds
    BY <1>1
  <2>2. n + 1 \in Int /\ Len(pool) \in Int /\ Len(pool) - (n + 1) + 1 = Len(pool) - n
    BY <1>1
  <2>3. /\ new \in Seq(MemoryIds)
        /\ Len(new) = IF n + 1 <= Len(pool) THEN Len(pool) - (n + 1) + 1 ELSE 0
        /\ \A k \in 1..(Len(pool) - (n + 1) + 1) : new[k] = pool[(n + 1) + k - 1]
    BY <2>1, <2>2, SubSeqProperties
  <2>4. Len(new) = Len(pool) - n
    <3>1. PICK a, b : a = Len(new) /\ b = Len(pool)
      OBVIOUS
    <3>2. b \in Nat /\ n \in Nat /\ n <= b
      BY <1>1, <3>1
    <3>3. a = IF n + 1 <= b THEN b - (n + 1) + 1 ELSE 0
      BY <2>3, <3>1
    <3>4. a = b - n
      BY <3>2, <3>3
    <3>5. QED
      BY <3>1, <3>4
  <2>5. ASSUME NEW k \in 1..(Len(pool) - n) PROVE new[k] = pool[n + k]
    <3>1. new[k] = pool[(n + 1) + k - 1]
      BY <2>2, <2>3
    <3>2. (n + 1) + k - 1 = n + k
      BY <1>1
    <3>3. QED
      BY <3>1, <3>2
  <2>6. QED
    BY <2>3, <2>4, <2>5
<1>3. DOMAIN new = 1..(Len(pool) - n)
  BY <1>2
<1>4. \A k \in DOMAIN new : n + k \in DOMAIN pool /\ new[k] = pool[n + k]
  <2>1. \A k \in 1..(Len(pool) - n) : n + k \in 1..Len(pool)
    BY <1>1
  <2>2. QED
    BY <2>1, <1>1, <1>2, <1>3
<1>5. \A j, k \in DOMAIN pool : pool[j] = pool[k] => j = k
  BY DEF IsInjective
<1>6. IsInjective(new)
  <2> SUFFICES ASSUME NEW j \in DOMAIN new, NEW k \in DOMAIN new, new[j] = new[k] PROVE j = k
    BY DEF IsInjective
  <2>1. n + j = n + k
    BY <1>4, <1>5
  <2>2. QED
    BY <2>1, <1>1, <1>3
<1>7. FirstOf(pool, n) \subseteq Range(pool) /\ FirstOf(pool, n) \subseteq MemoryIds
  <2>1. \A k \in 1..n : k \in DOMAIN pool /\ pool[k] \in MemoryIds
    BY <1>1
  <2>2. QED
    BY <2>1 DEF FirstOf, Range
<1>8. Range(new) = Range(pool) \ FirstOf(pool, n)
  <2>1. ASSUME NEW k \in DOMAIN new PROVE new[k] \in Range(pool) \ FirstOf(pool, n)
    <3>1. n + k \in DOMAIN pool /\ new[k] = pool[n + k] /\ n + k > n
      BY <1>1, <1>3, <1>4
    <3>2. \A j \in 1..n : j \in DOMAIN pool /\ j # n + k
      BY <1>1, <3>1
    <3>3. QED
      BY <3>1, <3>2, <1>5 DEF FirstOf, Range
  <2>2. ASSUME NEW j \in DOMAIN pool, pool[j] \notin FirstOf(pool, n) PROVE pool[j] \in Range(new)
    <3>1. j \notin 1..n
      BY <2>2 DEF FirstOf
    <3>2. j - n \in DOMAIN new /\ n + (j - n) = j
      BY <3>1, <1>1, <1>3
    <3>3. QED
      BY <3>2, <1>4 DEF Range
  <2>3. Range(new) \subseteq Range(pool) \ FirstOf(pool, n)
    BY <2>1 DEF Range
  <2>4. Range(pool) \ FirstOf(pool, n) \subseteq Range(new)
    BY <2>2 DEF Range
  <2>5. QED
    BY <2>3, <2>4
<1>9. QED
  BY <1>2, <1>6, <1>7, <1>8

(* What is behind the front of a pool.                                     *)
LEMMA FrontTaken ==
  ASSUME NEW pool \in Seq(MemoryIds), IsInjective(pool), pool # <<>>
  PROVE  /\ Tail(pool) \in Seq(MemoryIds) /\ IsInjective(Tail(pool)) /\ Head(pool) \in Range(pool)
         /\ Range(Tail(pool)) = Range(pool) \ {Head(pool)}
<1>1. Len(pool) \in Nat /\ Len(pool) >= 1 /\ 1 \in DOMAIN pool /\ Head(pool) = pool[1]
  OBVIOUS
<1>2. Tail(pool) = SubSeq(pool, 1 + 1, Len(pool))
  BY TailIsSubSeq
<1>3. 1 \in 0..Len(pool)
  BY <1>1
<1>4. FirstOf(pool, 1) = {Head(pool)}
  <2>1. 1..1 = {1}
    OBVIOUS
  <2>2. QED
    BY <1>1, <2>1 DEF FirstOf
<1>5. Head(pool) \in Range(pool)
  BY <1>1 DEF Range
<1>6. QED
  BY <1>2, <1>3, <1>4, <1>5, PoolTrimmed

(* Memory is put in front of a pool.                                       *)
LEMMA FrontPut ==
  ASSUME NEW pool \in Seq(MemoryIds), IsInjective(pool), NEW m \in MemoryIds, m \notin Range(pool)
  PROVE  /\ <<m>> \o pool \in Seq(MemoryIds) /\ IsInjective(<<m>> \o pool)
         /\ Range(<<m>> \o pool) = Range(pool) \cup {m}
<1>1. InsertFreeBlock(pool, m) = <<m>> \o pool
  BY DEF InsertFreeBlock
<1>2. PICK new : new = InsertFreeBlock(pool, m)
  OBVIOUS
<1>3. new \in Seq(MemoryIds) /\ IsInjective(new) /\ Range(new) = Range(pool) \cup {m}
  BY <1>2, InsertedList
<1>4. QED
  BY <1>1, <1>2, <1>3

-----------------------------------------------------------------------------
(* The invariant of the chain.                                             *)

UsedIndices == 0..(2^(MaxOrder - MemoryOrder) - 1)

(* The memory in the used pool.                                            *)
Used == {usedPool[i] : i \in DOMAIN usedPool} \ {NoMemory}

MemoryType == [size : Nat, alignment : Nat, refs : Nat, segment : Nat]

MemoryInv ==
    /\ memory \in [MemoryIds -> MemoryType]
    /\ \A m \in Existing : memory[m].size > 0 /\ memory[m].alignment > 0

(* The segment of a fixed pool.                                            *)
FixedSegment(chain) == IF chain = "sub" THEN MemorySize ELSE FixedSize

ListsInv ==
    /\ segments \in [Chains -> Seq(Segment)]
    /\ \A c \in Chains :
          /\ Tidy(segments[c], memory)
          /\ PoolAlgorithm[c] = "fixed" =>
                Len(segments[c]) = 1 /\ segments[c][1].size = FixedSegment(c)

UsedInv ==
    /\ usedPool \in [UsedIndices -> MemoryIds \cup {NoMemory}]
    /\ \A i, j \in UsedIndices : usedPool[i] = usedPool[j] => i = j \/ usedPool[i] = NoMemory

(* The elements of S are in one of a, b, c and d each.                     *)
Parts(S, a, b, c, d) ==
    /\ S = a \cup b \cup c \cup d
    /\ a \cap b = {} /\ a \cap c = {} /\ a \cap d = {}
    /\ b \cap c = {} /\ b \cap d = {} /\ c \cap d = {}

(* A memory object that exists is in the used pool, in a free pool or with *)
(* a client, and in one of them only.                                      *)
PlacesInv == UsedInv /\ Parts(Existing, Used, Pooled("sub"), Pooled("dedicated"), DOMAIN dedicated)

(* The segment that memory in use goes back to is there.                   *)
HomesInv ==
    /\ \A m \in Used : memory[m].segment \in SizesOf(segments["sub"])
    /\ \A m \in DOMAIN dedicated : memory[m].segment \in SizesOf(segments["dedicated"])

LEMMA ChainFacts ==
  /\ Chains = {"sub", "dedicated"} /\ MemoryOrder \in Nat /\ MemoryOrder <= MaxOrder
  /\ MemorySize \in Nat /\ MemorySize > 0 /\ MemoryAlignment \in Nat /\ MemoryAlignment > 0
  /\ MaxMemory \in Nat /\ FixedSize \in Nat /\ ConditionalSize \in Nat
  /\ IsFiniteSet(MemoryIds) /\ MemoryIds \subseteq Nat /\ NoMemory \notin MemoryIds /\ NoMemory \in Nat
  /\ PoolAlgorithm \in [Chains -> {"fixed", "segmented"}]
  /\ \A r \in Requests : /\ r \in MemoryAllocationRequest
                         /\ r = [size |-> r.size, alignment |-> r.alignment, never |-> r.never]
                         /\ r.size \in Nat /\ r.size > 0 /\ r.alignment \in Nat /\ r.alignment > 0
                         /\ r.never \in BOOLEAN
<1>1. /\ MemoryOrder \in Nat /\ MemoryOrder <= MaxOrder /\ MemoryAlignment \in Nat /\ MemoryAlignment > 0
      /\ MaxMemory \in Nat /\ FixedSize \in Nat /\ ConditionalSize \in Nat
      /\ PoolAlgorithm \in [Chains -> {"fixed", "segmented"}]
      /\ Requests \subseteq MemoryAllocationRequest
  BY MemoryChainAssumption
<1>2. MemorySize \in Nat /\ MemorySize > 0
  BY <1>1, PowerDoubles DEF MemorySize
<1>3. IsFiniteSet(MemoryIds) /\ MemoryIds \subseteq Nat /\ NoMemory \notin MemoryIds /\ NoMemory \in Nat
  BY <1>1, FS_Interval DEF MemoryIds, NoMemory
<1>4. ASSUME NEW r \in Requests
      PROVE  /\ r \in MemoryAllocationRequest
             /\ r = [size |-> r.size, alignment |-> r.alignment, never |-> r.never]
             /\ r.size \in Nat /\ r.size > 0 /\ r.alignment \in Nat /\ r.alignment > 0
             /\ r.never \in BOOLEAN
  <2>1. r \in MemoryAllocationRequest
    BY <1>1
  <2>2. QED
    BY <2>1 DEF MemoryAllocationRequest
<1>5. QED
  BY <1>1, <1>2, <1>3, <1>4 DEF Chains

LEMMA AlignedUp ==
  ASSUME NEW n \in Nat, NEW a \in Nat, a > 0
  PROVE  AlignTo(n, a) \in Nat /\ AlignTo(n, a) >= n
<1>1. PICK q : q = (n + a - 1) \div a
  OBVIOUS
<1>2. q \in Nat /\ n + a - 1 < q * a + a
  BY <1>1
<1>3. q * a \in Nat /\ q * a >= n
  BY <1>2
<1>4. QED
  BY <1>1, <1>3 DEF AlignTo

LEMMA TidyKept ==
  ASSUME NEW mem, NEW mem2, NEW list, Tidy(list, mem), \A m \in Held(list) : mem2[m].segment = mem[m].segment
  PROVE  Tidy(list, mem2)
<1>1. ASSUME NEW i \in DOMAIN list, NEW m \in Range(list[i].pool) PROVE mem2[m].segment = list[i].size
  <2>1. m \in Held(list)
    BY DEF Held
  <2>2. QED
    BY <2>1 DEF Tidy
<1>2. QED
  BY <1>1 DEF Tidy

LEMMA PooledIsHeld ==
  ASSUME NEW c PROVE Pooled(c) = Held(segments[c]) /\ Pooled(c)' = Held(segments'[c])
BY DEF Pooled, Held

(* The segments after GetOrCreateFreeSegment.                              *)
LEMMA SegmentsForFacts ==
  ASSUME ListsInv, NEW chain \in Chains, NEW request, request.size \in Nat,
         NEW list, list = SegmentsFor(chain, request)
  PROVE  /\ Tidy(list, memory) /\ Held(list) = Held(segments[chain])
         /\ SizesOf(segments[chain]) \subseteq SizesOf(list)
         /\ SegmentFor(chain, request) \in SizesOf(list) /\ SegmentFor(chain, request) \in Nat
         /\ PoolAlgorithm[chain] = "fixed" =>
               list = segments[chain] /\ SegmentFor(chain, request) = FixedSegment(chain)
<1>1. PoolAlgorithm[chain] = "fixed" \/ PoolAlgorithm[chain] = "segmented"
  BY ChainFacts
<1>2. CASE PoolAlgorithm[chain] = "fixed"
  <2>1. list = segments[chain] /\ SegmentFor(chain, request) = segments[chain][1].size
    BY <1>2 DEF SegmentsFor, SegmentFor
  <2>2. Tidy(list, memory) /\ Len(list) = 1 /\ list[1].size = FixedSegment(chain)
    BY <1>2, <2>1 DEF ListsInv
  <2>3. 1 \in DOMAIN list /\ list[1].size \in Nat
    BY <2>2, TidyFacts
  <2>4. list[1].size \in SizesOf(list)
    BY <2>3 DEF SizesOf
  <2>5. QED
    BY <2>1, <2>2, <2>3, <2>4
<1>3. CASE PoolAlgorithm[chain] = "segmented"
  <2>1. PICK size : size = AlignTo(request.size, MemoryAlignment)
    OBVIOUS
  <2>2. size \in Nat
    BY <2>1, AlignedUp, ChainFacts
  <2>3. list = GetOrCreateFreeSegment(segments[chain], size) /\ SegmentFor(chain, request) = size
    BY <1>3, <2>1 DEF SegmentsFor, SegmentFor
  <2>4. Tidy(segments[chain], memory)
    BY DEF ListsInv
  <2>5. Tidy(list, memory) /\ Held(list) = Held(segments[chain]) /\ SizesOf(list) = SizesOf(segments[chain]) \cup {size}
    BY <2>2, <2>3, <2>4, GetOrCreateTidy
  <2>6. QED
    BY <1>3, <2>2, <2>3, <2>5
<1>4. QED
  BY <1>1, <1>2, <1>3

(* The chain's list is replaced by one with the same segments or more.     *)
ListsBecome(chain, new) ==
    /\ segments' = [segments EXCEPT ![chain] = new]
    /\ Tidy(new, memory')
    /\ SizesOf(segments[chain]) \subseteq SizesOf(new)
    /\ PoolAlgorithm[chain] = "fixed" => Len(new) = 1 /\ new[1].size = FixedSegment(chain)

LEMMA ListsKept ==
  ASSUME ListsInv, NEW chain \in Chains, NEW new, ListsBecome(chain, new),
         \A c \in Chains \ {chain} : \A m \in Pooled(c) : memory'[m].segment = memory[m].segment
  PROVE  /\ ListsInv'
         /\ Pooled(chain)' = Held(new)
         /\ \A c \in Chains \ {chain} : Pooled(c)' = Pooled(c)
         /\ \A c \in Chains : SizesOf(segments[c]) \subseteq SizesOf(segments'[c])
<1>1. /\ segments'[chain] = new /\ \A c \in Chains \ {chain} : segments'[c] = segments[c]
      /\ segments' \in [Chains -> Seq(Segment)]
  BY DEF ListsBecome, ListsInv, Tidy
<1>2. Tidy(new, memory')
  BY DEF ListsBecome
<1>3. ASSUME NEW c \in Chains
      PROVE  /\ Tidy(segments'[c], memory')
             /\ SizesOf(segments[c]) \subseteq SizesOf(segments'[c])
             /\ PoolAlgorithm[c] = "fixed" => Len(segments'[c]) = 1 /\ segments'[c][1].size = FixedSegment(c)
  <2>1. CASE c = chain
    BY <2>1, <1>1, <1>2 DEF ListsBecome
  <2>2. CASE c # chain
    <3>1. segments'[c] = segments[c] /\ Tidy(segments[c], memory)
      BY <2>2, <1>1 DEF ListsInv
    <3>2. \A m \in Held(segments[c]) : memory'[m].segment = memory[m].segment
      BY <2>2, PooledIsHeld
    <3>3. Tidy(segments[c], memory')
      BY <3>1, <3>2, TidyKept
    <3>4. QED
      BY <3>1, <3>3 DEF ListsInv
  <2>3. QED
    BY <2>1, <2>2
<1>4. ListsInv'
  BY <1>1, <1>3 DEF ListsInv, FixedSegment, MemorySize
<1>5. \A c \in Chains \ {chain} : Pooled(c)' = Pooled(c)
  BY <1>1, PooledIsHeld
<1>6. Pooled(chain)' = Held(new)
  BY <1>1, PooledIsHeld
<1>7. QED
  BY <1>3, <1>4, <1>5, <1>6

-----------------------------------------------------------------------------
(* What the pools do to the memory.                                        *)

(* Memory that is not below blocks has no references.                      *)
UnreferencedInv == \A m \in Existing \ Used : memory[m].refs = 0

MemoriesInv == MemoryInv /\ ListsInv /\ PlacesInv /\ HomesInv /\ UnreferencedInv

LEMMA MemoryRecord ==
  ASSUME MemoryInv, NEW m \in MemoryIds
  PROVE  /\ memory[m] = [size |-> memory[m].size, alignment |-> memory[m].alignment,
                         refs |-> memory[m].refs, segment |-> memory[m].segment]
         /\ memory[m].size \in Nat /\ memory[m].alignment \in Nat
         /\ memory[m].refs \in Nat /\ memory[m].segment \in Nat
<1>1. memory[m] \in MemoryType
  BY DEF MemoryInv
<1>2. QED
  BY <1>1 DEF MemoryType

(* One memory object is replaced by one that exists.                       *)
LEMMA MemoryReplaced ==
  ASSUME MemoryInv, NEW m \in MemoryIds, NEW new \in MemoryType, new.size > 0, new.alignment > 0,
         memory' = [memory EXCEPT ![m] = new]
  PROVE  /\ MemoryInv' /\ memory'[m] = new /\ Existing' = Existing \cup {m}
         /\ \A k \in MemoryIds \ {m} : memory'[k] = memory[k]
<1>1. memory' \in [MemoryIds -> MemoryType] /\ memory'[m] = new
      /\ \A k \in MemoryIds \ {m} : memory'[k] = memory[k]
  BY DEF MemoryInv
<1>2. new # Absent
  BY DEF Absent
<1>3. Existing' = Existing \cup {m}
  BY <1>1, <1>2 DEF Existing
<1>4. \A k \in Existing' : memory'[k].size > 0 /\ memory'[k].alignment > 0
  BY <1>1, <1>3 DEF MemoryInv, Existing
<1>5. MemoryInv'
  BY <1>1, <1>4 DEF MemoryInv
<1>6. QED
  BY <1>1, <1>3, <1>5

(* Where memory can be.                                                    *)
LEMMA PlacesFacts ==
  ASSUME PlacesInv, ListsInv
  PROVE  /\ Existing \subseteq MemoryIds /\ Used \subseteq Existing /\ DOMAIN dedicated \subseteq Existing
         /\ \A c \in Chains : Pooled(c) \subseteq Existing \ (Used \cup DOMAIN dedicated)
         /\ \A c, d \in Chains : c # d => Pooled(c) \cap Pooled(d) = {}
         /\ \A c \in Chains : Tidy(segments[c], memory)
  BY ChainFacts DEF PlacesInv, Parts, ListsInv, Existing

Relink(mem, m, size, refs) == [mem EXCEPT ![m].segment = size, ![m].refs = @ + refs]

WithLink(mem, m, size, refs) ==
    [mem EXCEPT ![m] = [size |-> mem[m].size, alignment |-> mem[m].alignment,
                        refs |-> mem[m].refs + refs, segment |-> size]]

LEMMA Relinked ==
  ASSUME NEW mem \in [MemoryIds -> MemoryType], NEW m \in MemoryIds, NEW size \in Nat, NEW refs \in Nat
  PROVE  Relink(mem, m, size, refs) = WithLink(mem, m, size, refs)
<1>0. PICK after : after = Relink(mem, m, size, refs)
  OBVIOUS
<1>1. after[m] = [size |-> mem[m].size, alignment |-> mem[m].alignment,
                  refs |-> mem[m].refs + refs, segment |-> size]
  BY <1>0 DEF MemoryType, Relink
<1>2. after = [k \in MemoryIds |-> after[k]]
  BY <1>0 DEF Relink
<1>3. \A k \in MemoryIds \ {m} : after[k] = mem[k]
  BY <1>0 DEF Relink
<1>4. QED
  BY <1>0, <1>1, <1>2, <1>3 DEF WithLink

(* The pool of a segment is replaced.                                      *)
LEMMA PoolSet ==
  ASSUME NEW a, NEW b, NEW pool, NEW r, r = [size |-> a, pool |-> b]
  PROVE  [r EXCEPT !.pool = pool] = [size |-> a, pool |-> pool]
<1>1. [[size |-> a, pool |-> b] EXCEPT !.pool = pool] = [size |-> a, pool |-> pool]
  OBVIOUS
<1>2. QED
  BY <1>1, Zenon

(* What a pool gave: m was in the pool or did not exist, and is now out of *)
(* it.  Nothing else has moved.                                            *)
Got(chain, m, created) ==
    /\ MemoryInv' /\ ListsInv'
    /\ m \in MemoryIds /\ Existing' = Existing \cup {m}
    /\ IF created THEN m \notin Existing ELSE m \in Pooled(chain)
    /\ Pooled(chain)' = Pooled(chain) \ {m}
    /\ \A c \in Chains \ {chain} : Pooled(c)' = Pooled(c)
    /\ \A k \in MemoryIds \ {m} : memory'[k] = memory[k]
    /\ ~created => memory'[m].size = memory[m].size
    /\ memory'[m].segment \in SizesOf(segments'[chain])
    /\ \A c \in Chains : SizesOf(segments[c]) \subseteq SizesOf(segments'[c])

LEMMA AcquireGot ==
  ASSUME MemoriesInv, NEW chain \in Chains, NEW request, request.size \in Nat,
         NEW m \in MemoryIds, NEW refs \in Nat, AcquireFromPool(chain, request, m, refs)
  PROVE  /\ Got(chain, m, FALSE) /\ memory'[m].refs = refs
         /\ memory'[m].segment = SegmentFor(chain, request)
<1> USE DEF MemoriesInv
<1>1. PICK list : list = SegmentsFor(chain, request)
  OBVIOUS
<1>2. PICK size : size = SegmentFor(chain, request)
  OBVIOUS
<1>3. /\ Tidy(list, memory) /\ Held(list) = Held(segments[chain])
      /\ SizesOf(segments[chain]) \subseteq SizesOf(list)
      /\ size \in SizesOf(list) /\ size \in Nat
      /\ PoolAlgorithm[chain] = "fixed" => list = segments[chain] /\ size = FixedSegment(chain)
  BY <1>1, <1>2, SegmentsForFacts
<1>4. PICK i : i = IndexOfSize(list, size)
  OBVIOUS
<1>5. i \in DOMAIN list /\ list[i].size = size
  BY <1>3, <1>4, IndexFound
<1>6. /\ list[i].pool # <<>> /\ m = Head(list[i].pool)
      /\ segments' = [segments EXCEPT ![chain] = [list EXCEPT ![i].pool = Tail(@)]]
      /\ memory' = [memory EXCEPT ![m].segment = size, ![m].refs = @ + refs]
  BY <1>1, <1>2, <1>4 DEF AcquireFromPool
<1>7. PICK pool : pool = list[i].pool
  OBVIOUS
<1>8. pool \in Seq(MemoryIds) /\ IsInjective(pool) /\ Range(pool) \subseteq Held(list)
      /\ list[i] = [size |-> size, pool |-> pool]
      /\ \A k \in Range(pool) : memory[k].segment = size
  BY <1>3, <1>5, <1>7, TidyFacts, SegmentFacts
<1>9. PICK rest : rest = Tail(pool)
  OBVIOUS
<1>10. rest \in Seq(MemoryIds) /\ IsInjective(rest) /\ m \in Range(pool) /\ Range(rest) = Range(pool) \ {m}
  BY <1>6, <1>7, <1>8, <1>9, FrontTaken
<1>11. m \in Pooled(chain)
  BY <1>3, <1>8, <1>10, PooledIsHeld
<1>12. m \in Existing /\ m \notin Used /\ memory[m].refs = 0
  BY <1>11, PlacesFacts DEF UnreferencedInv
<1>13. PICK new : new = [size |-> memory[m].size, alignment |-> memory[m].alignment,
                         refs |-> refs, segment |-> size]
  OBVIOUS
<1>14. memory' = [memory EXCEPT ![m] = new]
  <2>1. memory[m].refs + refs = refs
    BY <1>12
  <2>2. memory \in [MemoryIds -> MemoryType]
    BY DEF MemoryInv
  <2>3. memory' = Relink(memory, m, size, refs)
    BY <1>6 DEF Relink
  <2>4. memory' = WithLink(memory, m, size, refs)
    BY <2>2, <2>3, <1>3, Relinked
  <2>5. QED
    BY <2>1, <2>4, <1>13 DEF WithLink
<1>15. new \in MemoryType /\ new.size > 0 /\ new.alignment > 0 /\ new.refs = refs /\ new.segment = size
  BY <1>3, <1>12, <1>13, MemoryRecord DEF MemoryInv, MemoryType
<1>16. /\ MemoryInv' /\ memory'[m] = new /\ Existing' = Existing \cup {m}
       /\ \A k \in MemoryIds \ {m} : memory'[k] = memory[k]
  BY <1>14, <1>15, MemoryReplaced
<1>17. PICK after : after = WithPool(list, i, rest)
  OBVIOUS
<1>18. [list EXCEPT ![i].pool = Tail(@)] = after
  <2>1. [list[i] EXCEPT !.pool = rest] = [size |-> list[i].size, pool |-> rest]
    BY <1>5, <1>8, PoolSet
  <2>2. Tail(list[i].pool) = rest
    BY <1>7, <1>9
  <2>3. QED
    BY <2>1, <2>2, <1>17, Zenon DEF WithPool
<1>19. /\ Tidy(after, memory') /\ SizesOf(after) = SizesOf(list) /\ Len(after) = Len(list)
       /\ Held(after) = (Held(list) \ Range(list[i].pool)) \cup Range(rest)
  <2>1. \A k \in Range(rest) : memory'[k].segment = list[i].size
    BY <1>5, <1>8, <1>10, <1>16, TidyFacts, <1>3
  <2>2. \A k \in Held(list) \ Range(list[i].pool) : memory'[k].segment = memory[k].segment
    BY <1>7, <1>10, <1>16, TidyFacts, <1>3
  <2>3. Links(rest, list, i, memory, memory')
    BY <2>1, <2>2 DEF Links
  <2>4. QED
    BY <2>3, <1>3, <1>5, <1>10, <1>17, PoolReplaced
<1>20. Held(after) = Pooled(chain) \ {m}
  BY <1>3, <1>7, <1>8, <1>10, <1>19, PooledIsHeld
<1>21. ListsBecome(chain, after)
  <2>1. PoolAlgorithm[chain] = "fixed" => Len(after) = 1 /\ after[1].size = FixedSegment(chain)
    <3> SUFFICES ASSUME PoolAlgorithm[chain] = "fixed" PROVE Len(after) = 1 /\ after[1].size = FixedSegment(chain)
      OBVIOUS
    <3>1. Len(list) = 1 /\ size = FixedSegment(chain) /\ list = segments[chain]
      BY <1>3 DEF ListsInv
    <3>2. i = 1
      BY <3>1, <1>3, <1>5, TidyFacts
    <3>3. QED
      BY <3>1, <3>2, <1>5, <1>17, <1>19 DEF WithPool
  <2>2. segments' = [segments EXCEPT ![chain] = after]
    BY <1>6, <1>18
  <2>3. QED
    BY <2>1, <2>2, <1>3, <1>19 DEF ListsBecome
<1>22. \A c \in Chains \ {chain} : \A k \in Pooled(c) : memory'[k].segment = memory[k].segment
  <2> SUFFICES ASSUME NEW c \in Chains \ {chain}, NEW k \in Pooled(c) PROVE memory'[k].segment = memory[k].segment
    OBVIOUS
  <2>1. k # m /\ k \in MemoryIds
    BY <1>11, PlacesFacts
  <2>2. QED
    BY <2>1, <1>16
<1>23. /\ ListsInv' /\ Pooled(chain)' = Held(after)
       /\ \A c \in Chains \ {chain} : Pooled(c)' = Pooled(c)
       /\ \A c \in Chains : SizesOf(segments[c]) \subseteq SizesOf(segments'[c])
  BY <1>21, <1>22, ListsKept
<1>24. memory'[m].segment \in SizesOf(segments'[chain])
  <2>1. segments'[chain] = after
    BY <1>21 DEF ListsBecome, ListsInv
  <2>2. QED
    BY <2>1, <1>3, <1>15, <1>16, <1>19
<1>25. memory'[m].size = memory[m].size
  BY <1>13, <1>16
<1>26. QED
  BY <1>2, <1>11, <1>15, <1>16, <1>20, <1>23, <1>24, <1>25 DEF Got


LEMMA CreateGot ==
  ASSUME MemoriesInv, NEW chain \in Chains, NEW request, request.size \in Nat \ {0},
         request.alignment \in Nat \ {0},
         NEW m \in MemoryIds, NEW refs \in Nat, CreateMemory(chain, request, m, refs)
  PROVE  /\ Got(chain, m, TRUE) /\ memory'[m].refs = refs
         /\ memory'[m].segment = SegmentFor(chain, request)
         /\ memory'[m].size = AlignTo(request.size, request.alignment)
<1> USE DEF MemoriesInv
<1>1. PICK list : list = SegmentsFor(chain, request)
  OBVIOUS
<1>2. PICK size : size = SegmentFor(chain, request)
  OBVIOUS
<1>3. /\ Tidy(list, memory) /\ Held(list) = Held(segments[chain])
      /\ SizesOf(segments[chain]) \subseteq SizesOf(list)
      /\ size \in SizesOf(list) /\ size \in Nat
      /\ PoolAlgorithm[chain] = "fixed" => list = segments[chain] /\ size = FixedSegment(chain)
  BY <1>1, <1>2, SegmentsForFacts
<1>4. PICK new : new = [size |-> AlignTo(request.size, request.alignment),
                        alignment |-> request.alignment, refs |-> refs, segment |-> size]
  OBVIOUS
<1>5. /\ m \in Unused /\ memory' = [memory EXCEPT ![m] = new]
      /\ segments' = [segments EXCEPT ![chain] = list]
  BY <1>1, <1>2, <1>4 DEF CreateMemory
<1>6. m \notin Existing
  BY <1>5 DEF Unused, Existing
<1>7. new \in MemoryType /\ new.size > 0 /\ new.alignment > 0 /\ new.refs = refs /\ new.segment = size
  <2>1. AlignTo(request.size, request.alignment) \in Nat /\ AlignTo(request.size, request.alignment) > 0
    BY AlignedUp
  <2>2. QED
    BY <2>1, <1>3, <1>4 DEF MemoryType
<1>8. /\ MemoryInv' /\ memory'[m] = new /\ Existing' = Existing \cup {m}
      /\ \A k \in MemoryIds \ {m} : memory'[k] = memory[k]
  BY <1>5, <1>7, MemoryReplaced
<1>9. \A c \in Chains : \A k \in Pooled(c) : memory'[k].segment = memory[k].segment
  <2> SUFFICES ASSUME NEW c \in Chains, NEW k \in Pooled(c) PROVE memory'[k].segment = memory[k].segment
    OBVIOUS
  <2>1. k # m /\ k \in MemoryIds
    BY <1>6, PlacesFacts
  <2>2. QED
    BY <2>1, <1>8
<1>10. Tidy(list, memory')
  <2>1. \A k \in Held(list) : memory'[k].segment = memory[k].segment
    BY <1>3, <1>9, PooledIsHeld
  <2>2. QED
    BY <2>1, <1>3, TidyKept
<1>11. ListsBecome(chain, list)
  <2>1. PoolAlgorithm[chain] = "fixed" => Len(list) = 1 /\ list[1].size = FixedSegment(chain)
    BY <1>3 DEF ListsInv
  <2>2. QED
    BY <2>1, <1>3, <1>5, <1>10 DEF ListsBecome
<1>12. /\ ListsInv' /\ Pooled(chain)' = Held(list)
       /\ \A c \in Chains \ {chain} : Pooled(c)' = Pooled(c)
       /\ \A c \in Chains : SizesOf(segments[c]) \subseteq SizesOf(segments'[c])
  BY <1>9, <1>11, ListsKept
<1>13. Pooled(chain)' = Pooled(chain) \ {m}
  <2>1. m \notin Pooled(chain)
    BY <1>6, PlacesFacts
  <2>2. QED
    BY <2>1, <1>3, <1>12, PooledIsHeld
<1>14. memory'[m].segment \in SizesOf(segments'[chain])
  <2>1. segments'[chain] = list
    BY <1>5 DEF ListsInv
  <2>2. QED
    BY <2>1, <1>3, <1>7, <1>8
<1>15. memory'[m].size = AlignTo(request.size, request.alignment)
  BY <1>4, <1>8
<1>16. QED
  BY <1>2, <1>6, <1>7, <1>8, <1>12, <1>13, <1>14, <1>15 DEF Got

(* The segments change, the pools hold what they held.                     *)
SamePools ==
    /\ ListsInv'
    /\ \A c \in Chains : Pooled(c)' = Pooled(c) /\ SizesOf(segments[c]) \subseteq SizesOf(segments'[c])

LEMMA FailSamePools ==
  ASSUME MemoriesInv, NEW chain \in Chains, NEW request, request.size \in Nat, PoolFails(chain, request)
  PROVE  SamePools /\ memory' = memory
<1> USE DEF MemoriesInv
<1>1. PICK list : list = SegmentsFor(chain, request)
  OBVIOUS
<1>3. /\ Tidy(list, memory) /\ Held(list) = Held(segments[chain])
      /\ SizesOf(segments[chain]) \subseteq SizesOf(list)
      /\ PoolAlgorithm[chain] = "fixed" => list = segments[chain]
  BY <1>1, SegmentsForFacts
<1>5. memory' = memory /\ segments' = [segments EXCEPT ![chain] = list]
  BY <1>1 DEF PoolFails
<1>11. ListsBecome(chain, list)
  <2>1. PoolAlgorithm[chain] = "fixed" => Len(list) = 1 /\ list[1].size = FixedSegment(chain)
    BY <1>3 DEF ListsInv
  <2>2. QED
    BY <2>1, <1>3, <1>5 DEF ListsBecome
<1>12. /\ ListsInv' /\ Pooled(chain)' = Held(list)
       /\ \A c \in Chains \ {chain} : Pooled(c)' = Pooled(c)
       /\ \A c \in Chains : SizesOf(segments[c]) \subseteq SizesOf(segments'[c])
  BY <1>5, <1>11, ListsKept
<1>13. Pooled(chain)' = Pooled(chain)
  BY <1>3, <1>12, PooledIsHeld
<1>14. QED
  BY <1>5, <1>12, <1>13 DEF SamePools

(* The links stay when memory gets or loses a reference.                   *)
SameLinks == \A k \in MemoryIds : memory'[k].segment = memory[k].segment

(* m is back in its pool.                                                  *)
Returned(chain, m) ==
    /\ ListsInv'
    /\ Pooled(chain)' = Pooled(chain) \cup {m}
    /\ \A c \in Chains \ {chain} : Pooled(c)' = Pooled(c)
    /\ \A c \in Chains : SizesOf(segments[c]) \subseteq SizesOf(segments'[c])

LEMMA ReturnReturned ==
  ASSUME MemoriesInv, NEW chain \in Chains, NEW m \in MemoryIds, m \notin Pooled(chain),
         memory[m].segment \in SizesOf(segments[chain]),
         segments' = ReturnToPool(chain, m), SameLinks
  PROVE  Returned(chain, m)
<1> USE DEF MemoriesInv
<1>1. PICK list, i : list = segments[chain] /\ i = IndexOfSize(list, memory[m].segment)
  OBVIOUS
<1>2. Tidy(list, memory)
  BY <1>1, PlacesFacts
<1>3. i \in DOMAIN list /\ list[i].size = memory[m].segment
  BY <1>1, <1>2, IndexFound
<1>4. PICK pool : pool = list[i].pool
  OBVIOUS
<1>5. /\ pool \in Seq(MemoryIds) /\ IsInjective(pool) /\ Range(pool) \subseteq Held(list)
      /\ list[i] = [size |-> list[i].size, pool |-> pool]
      /\ \A k \in Range(pool) : memory[k].segment = list[i].size
  BY <1>2, <1>3, <1>4, TidyFacts, SegmentFacts
<1>6. m \notin Range(pool)
  BY <1>1, <1>5, PooledIsHeld
<1>7. PICK longer : longer = <<m>> \o pool
  OBVIOUS
<1>8. longer \in Seq(MemoryIds) /\ IsInjective(longer) /\ Range(longer) = Range(pool) \cup {m}
  BY <1>5, <1>6, <1>7, FrontPut
<1>9. PICK after : after = WithPool(list, i, longer)
  OBVIOUS
<1>10. segments' = [segments EXCEPT ![chain] = after]
  <2>1. [list[i] EXCEPT !.pool = longer] = [size |-> list[i].size, pool |-> longer]
    BY <1>5, PoolSet
  <2>2. [list EXCEPT ![i].pool = <<m>> \o @] = after
    BY <2>1, <1>4, <1>7, <1>9, Zenon DEF WithPool
  <2>3. segments' = [segments EXCEPT ![chain] = [list EXCEPT ![i].pool = <<m>> \o @]]
    BY <1>1, Zenon DEF ReturnToPool
  <2>4. QED
    BY <2>2, <2>3
<1>11. Held(list) \subseteq MemoryIds
  BY <1>2, TidyFacts
<1>12. Links(longer, list, i, memory, memory')
  BY <1>3, <1>5, <1>8, <1>11 DEF Links, SameLinks
<1>13. /\ Tidy(after, memory') /\ SizesOf(after) = SizesOf(list) /\ Len(after) = Len(list)
       /\ Held(after) = (Held(list) \ Range(list[i].pool)) \cup Range(longer)
  BY <1>2, <1>3, <1>8, <1>9, <1>12, PoolReplaced
<1>14. Held(after) = Pooled(chain) \cup {m}
  BY <1>1, <1>4, <1>5, <1>8, <1>13, PooledIsHeld
<1>15. ListsBecome(chain, after)
  <2>1. PoolAlgorithm[chain] = "fixed" => Len(after) = 1 /\ after[1].size = FixedSegment(chain)
    <3> SUFFICES ASSUME PoolAlgorithm[chain] = "fixed" PROVE Len(after) = 1 /\ after[1].size = FixedSegment(chain)
      OBVIOUS
    <3>1. Len(list) = 1 /\ list[1].size = FixedSegment(chain) /\ 1 \in DOMAIN list
      BY <1>1, <1>2, TidyFacts DEF ListsInv
    <3>2. i = 1
      BY <3>1, <1>2, <1>3, TidyFacts
    <3>3. QED
      BY <3>1, <3>2, <1>9, <1>13 DEF WithPool
  <2>2. QED
    BY <2>1, <1>1, <1>10, <1>13 DEF ListsBecome
<1>16. \A c \in Chains \ {chain} : \A k \in Pooled(c) : memory'[k].segment = memory[k].segment
  BY PlacesFacts DEF SameLinks
<1>17. QED
  BY <1>14, <1>15, <1>16, ListsKept DEF Returned


LEMMA TrimsPool ==
  ASSUME NEW pool \in Seq(MemoryIds), NEW bytes
  PROVE  TrimCount(pool, bytes) \in 0..Len(pool)
<1>1. Len(pool) \in Nat /\ DOMAIN pool = 1..Len(pool)
  OBVIOUS
<1>2. PICK enough : enough = {n \in DOMAIN pool : SizeOf(FirstOf(pool, n)) >= bytes}
  OBVIOUS
<1>3. enough \subseteq Nat /\ enough \subseteq 1..Len(pool)
  BY <1>1, <1>2
<1>4. TrimCount(pool, bytes) = IF enough = {} THEN Len(pool) ELSE Min(enough)
  BY <1>2 DEF TrimCount
<1>5. enough # {} => Min(enough) \in enough
  BY <1>3, SmallestNat DEF Min
<1>6. CASE enough = {}
  BY <1>1, <1>4, <1>6
<1>7. CASE enough # {}
  <2>1. TrimCount(pool, bytes) = Min(enough)
    BY <1>4, <1>7
  <2>2. TrimCount(pool, bytes) \in 1..Len(pool)
    BY <2>1, <1>3, <1>5, <1>7
  <2>3. QED
    BY <2>2, <1>1
<1>8. QED
  BY <1>6, <1>7

(* What ReleaseMemory takes out of each pool of the list is its front.     *)
Trims(count, list) == \A i \in DOMAIN list : count[i] \in 0..Len(list[i].pool)

LEMMA ReleasedTrims ==
  ASSUME NEW list \in Seq(Segment), NEW bytes
  PROVE  Trims(Released(list, bytes), list)
<1> DEFINE left(total) == (bytes - total) % Word
           turn(i, total) == TrimCount(list[i].pool, left(total))
           total[i \in 0..Len(list)] ==
             IF i = 0 THEN 0
             ELSE total[i - 1] + SizeOf(FirstOf(list[i].pool, turn(i, total[i - 1])))
           goes(i) == \A j \in 1..(i - 1) : total[j] < left(total[j])
           count == [i \in DOMAIN list |-> IF goes(i) THEN turn(i, total[i - 1]) ELSE 0]
<1>1. Released(list, bytes) = count
  BY DEF Released
<1> HIDE DEF total, goes
<1>2. ASSUME NEW i \in DOMAIN list PROVE count[i] \in 0..Len(list[i].pool)
  <2>1. count[i] = IF goes(i) THEN turn(i, total[i - 1]) ELSE 0
    OBVIOUS
  <2>2. list[i].pool \in Seq(MemoryIds)
    BY SegmentFacts
  <2>3. PICK t : t = left(total[i - 1])
    OBVIOUS
  <2>4. turn(i, total[i - 1]) \in 0..Len(list[i].pool)
    BY <2>2, <2>3, TrimsPool
  <2>5. 0 \in 0..Len(list[i].pool)
    BY <2>2
  <2> HIDE DEF turn, count
  <2>6. QED
    BY <2>1, <2>4, <2>5
<1> HIDE DEF count
<1>3. QED
  BY <1>1, <1>2 DEF Trims

LEMMA KeptIs ==
  ASSUME NEW list \in Seq(Segment), NEW count
  PROVE  KeptOf(list, count) =
           [i \in DOMAIN list |-> [size |-> list[i].size,
                                   pool |-> SubSeq(list[i].pool, count[i] + 1, Len(list[i].pool))]]
<1>1. ASSUME NEW i \in DOMAIN list
      PROVE  [list[i] EXCEPT !.pool = SubSeq(@, count[i] + 1, Len(@))]
               = [size |-> list[i].size, pool |-> SubSeq(list[i].pool, count[i] + 1, Len(list[i].pool))]
  <2>1. list[i] = [size |-> list[i].size, pool |-> list[i].pool]
    BY SegmentFacts
  <2>2. PICK new : new = SubSeq(list[i].pool, count[i] + 1, Len(list[i].pool))
    OBVIOUS
  <2>3. [list[i] EXCEPT !.pool = new] = [size |-> list[i].size, pool |-> new]
    BY <2>1, PoolSet
  <2>4. QED
    BY <2>2, <2>3, Zenon
<1>2. QED
  BY <1>1, Zenon DEF KeptOf

Keeps(mem, mem2, S) == \A m \in S : mem2[m].segment = mem[m].segment

(* The rest of each pool is kept.                                          *)
Trimmed(kept, freed, list, mem) ==
    /\ Tidy(kept, mem) /\ SizesOf(kept) = SizesOf(list) /\ Len(kept) = Len(list)
    /\ Held(kept) = Held(list) \ freed /\ freed \subseteq Held(list)
    /\ DOMAIN kept = DOMAIN list /\ \A i \in DOMAIN list : kept[i].size = list[i].size

LEMMA PoolsTrimmed ==
  ASSUME NEW mem, NEW mem2, NEW list, Tidy(list, mem), NEW count, Trims(count, list),
         Keeps(mem, mem2, MemoryIds \ FreedOf(list, count))
  PROVE  Trimmed(KeptOf(list, count), FreedOf(list, count), list, mem2)
<1>0. PICK freed, kept : freed = FreedOf(list, count) /\ kept = KeptOf(list, count)
  OBVIOUS
<1>1. /\ list \in Seq(Segment) /\ Len(list) \in Nat /\ DOMAIN list = 1..Len(list)
      /\ \A i \in DOMAIN list : /\ list[i].size \in Nat /\ list[i].pool \in Seq(MemoryIds)
                                /\ IsInjective(list[i].pool)
                                /\ \A m \in Range(list[i].pool) : mem[m].segment = list[i].size
  BY TidyFacts
<1>11. kept = [i \in DOMAIN list |-> [size |-> list[i].size,
                                     pool |-> SubSeq(list[i].pool, count[i] + 1, Len(list[i].pool))]]
  BY <1>0, <1>1, KeptIs
<1>2. DOMAIN kept = DOMAIN list /\ \A i \in DOMAIN list : kept[i].size = list[i].size
  BY <1>11
<1>3. ASSUME NEW i \in DOMAIN list
      PROVE  /\ kept[i].pool \in Seq(MemoryIds) /\ IsInjective(kept[i].pool)
             /\ Range(kept[i].pool) = Range(list[i].pool) \ FirstOf(list[i].pool, count[i])
             /\ FirstOf(list[i].pool, count[i]) \subseteq Range(list[i].pool)
             /\ kept[i] \in Segment
  <2>1. PICK pool, n, new : pool = list[i].pool /\ n = count[i] /\ new = SubSeq(pool, n + 1, Len(pool))
    OBVIOUS
  <2>2. kept[i] = [size |-> list[i].size, pool |-> new]
    BY <2>1, <1>11
  <2>3. pool \in Seq(MemoryIds) /\ IsInjective(pool) /\ n \in 0..Len(pool)
    BY <2>1, <1>1 DEF Trims
  <2>4. /\ new \in Seq(MemoryIds) /\ IsInjective(new) /\ Range(new) = Range(pool) \ FirstOf(pool, n)
        /\ FirstOf(pool, n) \subseteq Range(pool)
    BY <2>1, <2>3, PoolTrimmed
  <2>5. kept[i] \in Segment
    BY <2>2, <2>4, <1>1 DEF Segment
  <2>6. QED
    BY <2>1, <2>2, <2>4, <2>5
<1>4. ASSUME NEW i \in DOMAIN list
      PROVE  Range(kept[i].pool) = Range(list[i].pool) \ freed
  <2>1. ASSUME NEW m \in Range(list[i].pool), m \in freed PROVE m \in FirstOf(list[i].pool, count[i])
    <3>1. PICK j \in DOMAIN list : m \in FirstOf(list[j].pool, count[j])
      BY <1>0, <2>1 DEF FreedOf
    <3>2. m \in Range(list[j].pool)
      BY <3>1, <1>3
    <3>3. i = j
      BY <3>2, OnePool
    <3>4. QED
      BY <3>1, <3>3
  <2>2. FirstOf(list[i].pool, count[i]) \subseteq freed
    BY <1>0 DEF FreedOf
  <2>3. QED
    BY <2>1, <2>2, <1>3
<1>5. Held(kept) = Held(list) \ freed
  BY <1>2, <1>4 DEF Held
<1>6. freed \subseteq Held(list)
  BY <1>0, <1>3 DEF FreedOf, Held
<1>7. kept \in Seq(Segment) /\ Len(kept) = Len(list)
  <2>1. kept \in [1..Len(list) -> Segment]
    <3>1. kept = [i \in 1..Len(list) |-> kept[i]]
      BY <1>1, <1>11
    <3>2. QED
      BY <3>1, <1>1, <1>3
  <2>2. QED
    BY <2>1, <1>1
<1>8. SameSegments(kept, list, mem2)
  <2>1. ASSUME NEW i \in DOMAIN list, NEW m \in Range(kept[i].pool) PROVE mem2[m].segment = list[i].size
    <3>1. m \in Range(list[i].pool) /\ m \notin freed
      BY <1>4
    <3>2. m \in MemoryIds /\ mem[m].segment = list[i].size
      BY <3>1, TidyFacts
    <3>3. QED
      BY <1>0, <3>1, <3>2 DEF Keeps
  <2>2. QED
    BY <2>1, <1>2, <1>3, <1>7 DEF SameSegments
<1>9. Tidy(kept, mem2) /\ SizesOf(kept) = SizesOf(list)
  BY <1>8, PoolsReplaced
<1>10. QED
  BY <1>0, <1>2, <1>5, <1>6, <1>7, <1>9 DEF Trimmed

(* freed is memory of the chain's pool that is gone.                       *)
Freed(chain, freed) ==
    /\ MemoryInv' /\ ListsInv'
    /\ freed \subseteq Pooled(chain) /\ Existing' = Existing \ freed
    /\ Pooled(chain)' = Pooled(chain) \ freed
    /\ \A c \in Chains \ {chain} : Pooled(c)' = Pooled(c)
    /\ \A c \in Chains : SizesOf(segments[c]) \subseteq SizesOf(segments'[c])
    /\ \A k \in MemoryIds \ freed : memory'[k] = memory[k]

(* The statistics after freed memory of the chain.                         *)
ReleasedStats(chain, freed) ==
    [stats EXCEPT ![StatsOf(chain)] = AddMemory(@, 0, 0, 0 - SizeOf(freed)),
                  !["heap"] = HeapReleases(@, freed)]

LEMMA ReleaseFrees ==
  ASSUME MemoriesInv, NEW chain \in Chains, NEW bytes, ReleaseMemory(chain, bytes)
  PROVE  \E freed : /\ Freed(chain, freed) /\ stats' = ReleasedStats(chain, freed)
<1> USE DEF MemoriesInv
<1>1. PICK list, count : list = segments[chain] /\ count = Released(list, bytes)
  OBVIOUS
<1>2. PICK freed, kept : freed = FreedOf(list, count) /\ kept = KeptOf(list, count)
  OBVIOUS
<1>3. Tidy(list, memory) /\ list \in Seq(Segment)
  BY <1>1, PlacesFacts, TidyFacts
<1>4. Trims(count, list)
  BY <1>1, <1>3, ReleasedTrims
<1>6. /\ segments' = [segments EXCEPT ![chain] = kept]
      /\ memory' = [m \in MemoryIds |-> IF m \in freed THEN Absent ELSE memory[m]]
      /\ stats' = ReleasedStats(chain, freed)
  BY <1>1, <1>2, Zenon DEF ReleaseMemory, ReleasedStats
<1>7. \A k \in MemoryIds \ freed : memory'[k] = memory[k]
  BY <1>6
<1>8. Keeps(memory, memory', MemoryIds \ freed)
  BY <1>7 DEF Keeps
<1>9. /\ Tidy(kept, memory') /\ SizesOf(kept) = SizesOf(list) /\ Len(kept) = Len(list)
      /\ Held(kept) = Held(list) \ freed /\ freed \subseteq Held(list)
      /\ DOMAIN kept = DOMAIN list /\ \A i \in DOMAIN list : kept[i].size = list[i].size
  <2>1. Trimmed(kept, freed, list, memory')
    BY <1>2, <1>3, <1>4, <1>8, PoolsTrimmed
  <2>2. QED
    BY <2>1 DEF Trimmed
<1>10. freed \subseteq Pooled(chain) /\ freed \subseteq MemoryIds
  BY <1>1, <1>9, PooledIsHeld, PlacesFacts
<1>11. memory' \in [MemoryIds -> MemoryType] /\ \A k \in freed : memory'[k] = Absent
  <2>1. Absent \in MemoryType
    BY DEF Absent, MemoryType
  <2>2. QED
    BY <2>1, <1>6, <1>10 DEF MemoryInv
<1>12. Existing' = Existing \ freed
  BY <1>7, <1>11, <1>10 DEF Existing
<1>13. MemoryInv'
  <2>1. \A k \in Existing' : memory'[k].size > 0 /\ memory'[k].alignment > 0
    BY <1>7, <1>12 DEF MemoryInv, Existing
  <2>2. QED
    BY <2>1, <1>11 DEF MemoryInv
<1>14. ListsBecome(chain, kept)
  <2>1. PoolAlgorithm[chain] = "fixed" => Len(kept) = 1 /\ kept[1].size = FixedSegment(chain)
    <3> SUFFICES ASSUME PoolAlgorithm[chain] = "fixed" PROVE Len(kept) = 1 /\ kept[1].size = FixedSegment(chain)
      OBVIOUS
    <3>1. Len(list) = 1 /\ list[1].size = FixedSegment(chain) /\ 1 \in DOMAIN list
      BY <1>1, <1>3, TidyFacts DEF ListsInv
    <3>2. QED
      BY <3>1, <1>9
  <2>2. QED
    BY <2>1, <1>1, <1>6, <1>9 DEF ListsBecome
<1>15. \A c \in Chains \ {chain} : \A m \in Pooled(c) : memory'[m].segment = memory[m].segment
  <2> SUFFICES ASSUME NEW c \in Chains \ {chain}, NEW m \in Pooled(c) PROVE memory'[m].segment = memory[m].segment
    OBVIOUS
  <2>1. m \notin freed /\ m \in MemoryIds
    BY <1>10, PlacesFacts
  <2>2. QED
    BY <2>1, <1>7
<1>16. /\ ListsInv' /\ Pooled(chain)' = Held(kept)
       /\ \A c \in Chains \ {chain} : Pooled(c)' = Pooled(c)
       /\ \A c \in Chains : SizesOf(segments[c]) \subseteq SizesOf(segments'[c])
  BY <1>14, <1>15, ListsKept
<1>17. Pooled(chain)' = Pooled(chain) \ freed
  BY <1>1, <1>9, <1>16, PooledIsHeld
<1>18. Freed(chain, freed)
  BY <1>7, <1>10, <1>12, <1>13, <1>16, <1>17 DEF Freed
<1>19. QED
  BY <1>6, <1>18

-----------------------------------------------------------------------------
(* The blocks of the buddy system.                                         *)

(* The sub-allocation that has its block and not yet its memory.           *)
Pending == IF op = Idle THEN {} ELSE {op.block}

BlocksInv ==
    /\ TreeInv
    /\ op = Idle \/ op \in [pc : {"memory"}, request : Requests, block : Block]
    /\ InState("Allocated") = DOMAIN subs \cup Pending
    /\ DOMAIN subs \cap Pending = {} /\ IsFiniteSet(DOMAIN subs)

LEMMA MemoryIndex ==
  ASSUME NEW b \in Block
  PROVE  GetMemoryIndex(b) \in UsedIndices
<1>1. Offset(b) \in Nat /\ Offset(b) < 2^MaxOrder
  BY RangeFacts
<1>2. MaxOrder - MemoryOrder \in Nat /\ (MaxOrder - MemoryOrder) + MemoryOrder = MaxOrder /\ MemoryOrder \in Nat
  BY ChainFacts, BuddyAssumption
<1>3. PICK q : q = 2^(MaxOrder - MemoryOrder)
  OBVIOUS
<1>4. q \in Nat /\ 2^MaxOrder = q * MemorySize
  BY <1>2, <1>3, PowerDoubles, PowerAdds DEF MemorySize
<1>5. GetMemoryIndex(b) \in Nat /\ GetMemoryIndex(b) < q
  BY <1>1, <1>4, ChainFacts, DivLess DEF GetMemoryIndex
<1>6. QED
  BY <1>3, <1>4, <1>5 DEF UsedIndices

LEMMA SmallRequest ==
  ASSUME NEW r \in Requests, ValidateRequest(r, MemorySize)
  PROVE  r.size <= MemorySize
<1>1. MemorySize # kInvalidSize
  <2>1. MemoryAlignment \in Nat /\ MemorySize + MemoryAlignment < Word /\ Word \in Nat /\ MemoryAlignment > 0
    BY MemoryChainAssumption
  <2>2. QED
    BY <2>1, ChainFacts DEF kInvalidSize
<1>2. AlignTo(r.size, r.alignment) <= MemorySize
  BY <1>1 DEF ValidateRequest
<1>3. QED
  BY <1>2, ChainFacts, AlignedUp

LEMMA MemoryInRange == MemorySize <= 2^MaxOrder
<1>1. MaxOrder - MemoryOrder \in Nat /\ (MaxOrder - MemoryOrder) + MemoryOrder = MaxOrder /\ MemoryOrder \in Nat
  BY ChainFacts, BuddyAssumption
<1>2. PICK q \in Nat : q = 2^(MaxOrder - MemoryOrder) /\ q > 0
  BY <1>1, PowerDoubles
<1>3. 2^MaxOrder = q * MemorySize
  BY <1>1, <1>2, PowerAdds DEF MemorySize
<1>4. \A s \in Nat : s <= q * s
  BY <1>2
<1>5. QED
  BY <1>3, <1>4, ChainFacts

(* The order of a request is the smallest whose block holds it.            *)
LEMMA OrderType ==
  ASSUME NEW n \in Nat, n <= 2^MaxOrder
  PROVE  Order(n) \in 0..MaxOrder + 1 /\ n <= 2^Order(n)
<1>1. PICK P : P = {k \in 0..MaxOrder : n <= 2^k}
  OBVIOUS
<1>2. P \subseteq Nat /\ MaxOrder \in P
  BY <1>1, BuddyAssumption
<1>3. PICK k \in P : \A j \in P : k <= j
  BY <1>2, SmallestNat
<1>4. k \in 0..MaxOrder + 1 /\ n <= 2^k /\ (k = 0 \/ 2^(k - 1) < n)
  <2>1. k \in 0..MaxOrder /\ k \in Nat
    BY <1>1
  <2>2. ASSUME k # 0 PROVE 2^(k - 1) < n
    <3>1. k - 1 \in 0..MaxOrder /\ k - 1 \in Nat /\ ~ (k <= k - 1)
      BY <2>1, <2>2, BuddyAssumption
    <3>2. k - 1 \notin P
      BY <1>3, <3>1
    <3>3. 2^(k - 1) \in Nat
      BY <3>1, PowerDoubles
    <3>4. QED
      BY <1>1, <3>1, <3>2, <3>3
  <2>3. QED
    BY <1>1, <2>1, <2>2, BuddyAssumption
<1>5. QED
  BY <1>4 DEF Order

(* Allocating a block adds one to those in use.                            *)
LEMMA BlockTaken ==
  ASSUME TreeInv, NEW order \in Levels, NEW alignment, TryAllocateBlock(order, alignment)
  PROVE  TreeInv' /\ \E n \in Block : /\ n \notin InState("Allocated")
                                      /\ InState("Allocated")' = InState("Allocated") \cup {n}
<1>1. PICK level \in Levels, f \in Block : f \in InState("Free") /\ f[1] <= level /\ SplitsTo(f, level)
  BY TrySplits
<1>2. TreeInv'
  BY <1>1, SplitKeepsShape, SplitKeepsTree, SplitKeepsMerged DEF TreeInv
<1>3. AtLevel(f, level) \in Block
  BY PathType
<1>4. /\ InState("Allocated")' = InState("Allocated") \cup {AtLevel(f, level)}
      /\ AtLevel(f, level) \notin InState("Allocated")
  BY <1>1, SplitStates
<1>5. QED
  BY <1>2, <1>3, <1>4

LEMMA BlockGivenBack ==
  ASSUME TreeInv, NEW c, DeallocateBlock(c)
  PROVE  /\ TreeInv' /\ c \in Block /\ c \in InState("Allocated")
         /\ InState("Allocated")' = InState("Allocated") \ {c}
<1>1. c \in InState("Allocated") /\ c \in Block
  BY DEF DeallocateBlock, TreeInv, Shape, InState
<1>2. PICK to \in Levels : MergesTo(c, to)
  BY <1>1, DeallocateMerges
<1>3. TreeInv'
  BY <1>1, <1>2, MergeKeepsShape, MergeKeepsTree, MergeKeepsMerged DEF TreeInv
<1>4. QED
  BY <1>1, <1>2, <1>3, MergeStates

LEMMA TreeKept == ASSUME TreeInv, UNCHANGED vars PROVE TreeInv' /\ InState("Allocated")' = InState("Allocated")
BY DEF vars, TreeInv, Shape, FreeListsExact, FullBinaryTree, Merged, InState

LEMMA BlocksFacts ==
  ASSUME BlocksInv
  PROVE  /\ InState("Allocated") \subseteq Block /\ DOMAIN subs \subseteq Block /\ IsFiniteSet(DOMAIN subs)
         /\ op.pc = "memory" => /\ op # Idle /\ op.request \in Requests /\ op.block \in Block
                                /\ op.block \in InState("Allocated") /\ op.block \notin DOMAIN subs
                                /\ InState("Allocated") = DOMAIN subs \cup {op.block}
         /\ op = Idle => InState("Allocated") = DOMAIN subs
<1>1. InState("Allocated") \subseteq Block
  BY DEF BlocksInv, TreeInv, Shape, InState
<1>2. ASSUME op.pc = "memory"
      PROVE  /\ op # Idle /\ op.request \in Requests /\ op.block \in Block
             /\ op.block \in InState("Allocated") /\ op.block \notin DOMAIN subs
             /\ InState("Allocated") = DOMAIN subs \cup {op.block}
  <2>1. op # Idle
    BY <1>2 DEF Idle
  <2>2. Pending = {op.block}
    BY <2>1 DEF Pending
  <2>3. QED
    BY <2>1, <2>2 DEF BlocksInv
<1>3. op = Idle => InState("Allocated") = DOMAIN subs
  BY DEF BlocksInv, Pending
<1>4. QED
  BY <1>1, <1>2, <1>3 DEF BlocksInv

LEMMA TrySubAllocateBlocks ==
  ASSUME BlocksInv, NEW r \in Requests, TrySubAllocate(r)
  PROVE  BlocksInv'
<1>1. /\ op = Idle /\ TryAllocateBlock(Order(r.size), r.alignment) /\ DOMAIN subs' = DOMAIN subs
      /\ ValidateRequest(r, MemorySize)
  BY DEF TrySubAllocate
<1>2. Order(r.size) \in Levels
  <2>1. r.size \in Nat /\ r.size <= 2^MaxOrder
    <3>1. r.size <= MemorySize /\ r.size \in Nat /\ MemorySize \in Nat /\ 2^MaxOrder \in Nat
      BY <1>1, SmallRequest, ChainFacts, PowerDoubles, BuddyAssumption
    <3>2. QED
      BY <3>1, MemoryInRange
  <2>2. Order(r.size) \in 0..MaxOrder + 1 /\ Order(r.size) <= MaxOrder
    BY <1>1, <2>1, OrderType DEF TryAllocateBlock
  <2>3. QED
    BY <2>2, BuddyAssumption DEF Levels
<1>3. PICK n \in Block : /\ n \notin InState("Allocated") /\ TreeInv'
                         /\ InState("Allocated")' = InState("Allocated") \cup {n}
  BY <1>1, <1>2, BlockTaken DEF BlocksInv
<1>4. PICK b : b = CHOOSE c \in InState("Allocated")' : c \notin InState("Allocated")
  OBVIOUS
<1>5. b = n
  BY <1>3, <1>4
<1>6. op' = [pc |-> "memory", request |-> r, block |-> b]
  BY <1>4 DEF TrySubAllocate
<1>7. op' \in [pc : {"memory"}, request : Requests, block : Block]
  BY <1>5, <1>6
<1>8. Pending' = {n}
  <2>1. op'.pc = "memory" /\ op'.block = n
    BY <1>5, <1>6
  <2>2. op' # Idle
    BY <2>1 DEF Idle
  <2>3. QED
    BY <2>1, <2>2 DEF Pending
<1>9. QED
  BY <1>1, <1>3, <1>7, <1>8, BlocksFacts DEF BlocksInv

(* A sub-allocation gets its memory.                                       *)
LEMMA SubAllocatedBlocks ==
  ASSUME BlocksInv, op.pc = "memory", NEW m, SubAllocated(m)
  PROVE  BlocksInv' /\ DOMAIN subs' = DOMAIN subs \cup {op.block}
<1>1. DOMAIN subs' = DOMAIN subs \cup {op.block} /\ op' = Idle /\ UNCHANGED vars
  BY DEF SubAllocated, vars, With
<1>2. IsFiniteSet(DOMAIN subs')
  BY <1>1, BlocksFacts, FS_AddElement
<1>3. Pending' = {}
  BY <1>1 DEF Pending
<1>4. QED
  BY <1>1, <1>2, <1>3, TreeKept, BlocksFacts DEF BlocksInv

LEMMA FailMemoryBlocks ==
  ASSUME BlocksInv, FailMemory
  PROVE  BlocksInv'
<1>1. op.pc = "memory" /\ DeallocateBlock(op.block) /\ op' = Idle /\ DOMAIN subs' = DOMAIN subs
  BY DEF FailMemory
<1>2. Pending' = {}
  BY <1>1 DEF Pending
<1>3. QED
  BY <1>1, <1>2, BlockGivenBack, BlocksFacts DEF BlocksInv

LEMMA DeallocateSubBlocks ==
  ASSUME BlocksInv, NEW b \in DOMAIN subs, DeallocateSub(b)
  PROVE  BlocksInv' /\ DOMAIN subs' = DOMAIN subs \ {b}
<1>1. op = Idle /\ DeallocateBlock(b) /\ DOMAIN subs' = DOMAIN subs \ {b} /\ op' = op
  BY DEF DeallocateSub, Without
<1>2. Pending' = {}
  BY <1>1 DEF Pending
<1>3. IsFiniteSet(DOMAIN subs')
  BY <1>1, BlocksFacts, FS_RemoveElement
<1>4. QED
  BY <1>1, <1>2, <1>3, BlockGivenBack, BlocksFacts DEF BlocksInv

LEMMA BlocksKept ==
  ASSUME BlocksInv, UNCHANGED <<state, freeLists, op>>, DOMAIN subs' = DOMAIN subs
  PROVE  BlocksInv'
<1>1. UNCHANGED vars /\ Pending' = Pending
  BY DEF vars, Pending
<1>2. QED
  BY <1>1, TreeKept DEF BlocksInv

-----------------------------------------------------------------------------
(* Where the memory is after each call.                                    *)

(* The used pool gets or loses memory.                                     *)
LEMMA UsedSet ==
  ASSUME UsedInv, NEW i \in UsedIndices, usedPool[i] = NoMemory, NEW m \in MemoryIds, m \notin Used,
         usedPool' = [usedPool EXCEPT ![i] = m]
  PROVE  UsedInv' /\ Used' = Used \cup {m}
<1>1. /\ usedPool' \in [UsedIndices -> MemoryIds \cup {NoMemory}] /\ usedPool'[i] = m
      /\ \A j \in UsedIndices \ {i} : usedPool'[j] = usedPool[j]
      /\ DOMAIN usedPool = UsedIndices /\ DOMAIN usedPool' = UsedIndices
  BY DEF UsedInv
<1>2. \A j \in UsedIndices : usedPool[j] # m
  BY <1>1, ChainFacts DEF Used
<1>3. \A j, k \in UsedIndices : usedPool'[j] = usedPool'[k] => j = k \/ usedPool'[j] = NoMemory
  BY <1>1, <1>2 DEF UsedInv
<1>4. Used' = Used \cup {m}
  BY <1>1, ChainFacts DEF Used
<1>5. QED
  BY <1>1, <1>3, <1>4 DEF UsedInv, UsedIndices

LEMMA UsedCleared ==
  ASSUME UsedInv, NEW i \in UsedIndices, NEW m \in MemoryIds, usedPool[i] = m,
         usedPool' = [usedPool EXCEPT ![i] = NoMemory]
  PROVE  UsedInv' /\ Used' = Used \ {m}
<1>1. /\ usedPool' \in [UsedIndices -> MemoryIds \cup {NoMemory}] /\ usedPool'[i] = NoMemory
      /\ \A j \in UsedIndices \ {i} : usedPool'[j] = usedPool[j]
      /\ DOMAIN usedPool = UsedIndices /\ DOMAIN usedPool' = UsedIndices
  BY DEF UsedInv
<1>2. \A j \in UsedIndices \ {i} : usedPool[j] # m
  BY ChainFacts DEF UsedInv
<1>3. \A j, k \in UsedIndices : usedPool'[j] = usedPool'[k] => j = k \/ usedPool'[j] = NoMemory
  BY <1>1 DEF UsedInv
<1>4. Used' = Used \ {m}
  BY <1>1, <1>2, ChainFacts DEF Used
<1>5. QED
  BY <1>1, <1>3, <1>4 DEF UsedInv, UsedIndices

LEMMA UsedFacts ==
  ASSUME UsedInv, NEW i \in UsedIndices, usedPool[i] # NoMemory
  PROVE  usedPool[i] \in MemoryIds /\ usedPool[i] \in Used
BY DEF UsedInv, Used

LEMMA UsedKept == ASSUME UsedInv, usedPool' = usedPool PROVE UsedInv' /\ Used' = Used
BY DEF UsedInv, Used, UsedIndices

(* Memory of the sub chain goes to the used pool, ...                      *)
LEMMA GetMemoryPlaces ==
  ASSUME MemoriesInv, NEW m, NEW created \in BOOLEAN, Got("sub", m, created), NEW i \in UsedIndices,
         usedPool[i] = NoMemory, usedPool' = [usedPool EXCEPT ![i] = m], dedicated' = dedicated
  PROVE  MemoriesInv' /\ Used' = Used \cup {m} /\ m \notin Used
<1> USE DEF MemoriesInv
<1>1. /\ MemoryInv' /\ ListsInv' /\ m \in MemoryIds /\ Existing' = Existing \cup {m}
      /\ m \notin Existing \/ m \in Pooled("sub")
      /\ Pooled("sub")' = Pooled("sub") \ {m} /\ Pooled("dedicated")' = Pooled("dedicated")
      /\ \A k \in MemoryIds \ {m} : memory'[k] = memory[k]
      /\ memory'[m].segment \in SizesOf(segments'["sub"])
      /\ SizesOf(segments["sub"]) \subseteq SizesOf(segments'["sub"])
      /\ SizesOf(segments["dedicated"]) \subseteq SizesOf(segments'["dedicated"])
  BY ChainFacts DEF Got
<1>2. m \notin Used /\ m \notin Pooled("dedicated") /\ m \notin DOMAIN dedicated
  BY <1>1 DEF PlacesInv, Parts
<1>3. UsedInv' /\ Used' = Used \cup {m}
  BY <1>1, <1>2, UsedSet DEF PlacesInv
<1>4. Existing \subseteq MemoryIds /\ Used \subseteq Existing /\ DOMAIN dedicated \subseteq Existing
  BY PlacesFacts
<1>5. Parts(Existing, Used, Pooled("sub"), Pooled("dedicated"), DOMAIN dedicated)'
  BY <1>1, <1>2, <1>3 DEF PlacesInv, Parts
<1>6. HomesInv'
  <2>1. \A k \in Used' : memory'[k].segment \in SizesOf(segments'["sub"])
    BY <1>1, <1>3, <1>4 DEF HomesInv
  <2>2. \A k \in DOMAIN dedicated' : memory'[k].segment \in SizesOf(segments'["dedicated"])
    BY <1>1, <1>2, <1>4 DEF HomesInv
  <2>3. QED
    BY <2>1, <2>2 DEF HomesInv, SizesOf
<1>7. UnreferencedInv'
  <2>1. \A k \in Existing' \ Used' : k \in Existing \ Used /\ memory'[k] = memory[k]
    BY <1>1, <1>3, <1>4
  <2>2. QED
    BY <2>1 DEF UnreferencedInv
<1>8. QED
  BY <1>1, <1>2, <1>3, <1>5, <1>6, <1>7 DEF PlacesInv

(* ... of the dedicated chain to a client.                                 *)
LEMMA GetDedicatedPlaces ==
  ASSUME MemoriesInv, NEW m, NEW created \in BOOLEAN, Got("dedicated", m, created), memory'[m].refs = 0,
         usedPool' = usedPool, DOMAIN dedicated' = DOMAIN dedicated \cup {m}
  PROVE  MemoriesInv' /\ Used' = Used /\ m \notin DOMAIN dedicated /\ m \notin Used
<1> USE DEF MemoriesInv
<1>1. /\ MemoryInv' /\ ListsInv' /\ m \in MemoryIds /\ Existing' = Existing \cup {m}
      /\ m \notin Existing \/ m \in Pooled("dedicated")
      /\ Pooled("dedicated")' = Pooled("dedicated") \ {m} /\ Pooled("sub")' = Pooled("sub")
      /\ \A k \in MemoryIds \ {m} : memory'[k] = memory[k]
      /\ memory'[m].segment \in SizesOf(segments'["dedicated"])
      /\ SizesOf(segments["sub"]) \subseteq SizesOf(segments'["sub"])
      /\ SizesOf(segments["dedicated"]) \subseteq SizesOf(segments'["dedicated"])
  BY ChainFacts DEF Got
<1>2. m \notin Used /\ m \notin Pooled("sub") /\ m \notin DOMAIN dedicated
  BY <1>1 DEF PlacesInv, Parts
<1>3. UsedInv' /\ Used' = Used
  BY UsedKept DEF PlacesInv
<1>4. Existing \subseteq MemoryIds /\ Used \subseteq Existing /\ DOMAIN dedicated \subseteq Existing
  BY PlacesFacts
<1>5. Parts(Existing, Used, Pooled("sub"), Pooled("dedicated"), DOMAIN dedicated)'
  BY <1>1, <1>2, <1>3 DEF PlacesInv, Parts
<1>6. HomesInv'
  <2>1. \A k \in Used' : memory'[k].segment \in SizesOf(segments'["sub"])
    BY <1>1, <1>2, <1>3, <1>4 DEF HomesInv
  <2>2. \A k \in DOMAIN dedicated' : memory'[k].segment \in SizesOf(segments'["dedicated"])
    BY <1>1, <1>4 DEF HomesInv
  <2>3. QED
    BY <2>1, <2>2 DEF HomesInv, SizesOf
<1>7. UnreferencedInv'
  <2>1. \A k \in Existing' \ Used' : k = m \/ (k \in Existing \ Used /\ memory'[k] = memory[k])
    BY <1>1, <1>3, <1>4
  <2>2. QED
    BY <2>1 DEF UnreferencedInv
<1>8. QED
  BY <1>1, <1>2, <1>3, <1>5, <1>6, <1>7 DEF PlacesInv

(* Memory of the used pool gets or loses a reference.                      *)
LEMMA Referenced ==
  ASSUME MemoryInv, NEW m \in Existing, NEW n \in Nat, memory' = [memory EXCEPT ![m].refs = n]
  PROVE  /\ MemoryInv' /\ SameLinks /\ Existing' = Existing /\ memory'[m].refs = n
         /\ memory'[m].size = memory[m].size
         /\ \A k \in MemoryIds \ {m} : memory'[k] = memory[k]
<1>1. m \in MemoryIds
  BY DEF Existing
<1>2. PICK new : new = [size |-> memory[m].size, alignment |-> memory[m].alignment, refs |-> n,
                        segment |-> memory[m].segment]
  OBVIOUS
<1>3. memory' = [memory EXCEPT ![m] = new]
  <2>1. memory \in [MemoryIds -> MemoryType]
    BY DEF MemoryInv
  <2>2. memory'[m] = new
    BY <1>1, <1>2, <2>1 DEF MemoryType
  <2>3. memory' = [k \in MemoryIds |-> memory'[k]] /\ \A k \in MemoryIds \ {m} : memory'[k] = memory[k]
    BY <2>1
  <2>4. QED
    BY <2>1, <2>2, <2>3
<1>4. new \in MemoryType /\ new.size > 0 /\ new.alignment > 0
  BY <1>1, <1>2, MemoryRecord DEF MemoryInv, MemoryType
<1>5. /\ MemoryInv' /\ memory'[m] = new /\ Existing' = Existing \cup {m}
      /\ \A k \in MemoryIds \ {m} : memory'[k] = memory[k]
  BY <1>1, <1>3, <1>4, MemoryReplaced
<1>6. SameLinks
  BY <1>2, <1>5 DEF SameLinks
<1>7. QED
  BY <1>2, <1>5, <1>6

(* Nothing moves, the lists may get segments.                              *)
LEMMA SamePlaces ==
  ASSUME MemoriesInv, MemoryInv', SamePools, Existing' = Existing, SameLinks,
         \A k \in MemoryIds \ Used : memory'[k] = memory[k],
         usedPool' = usedPool, DOMAIN dedicated' = DOMAIN dedicated
  PROVE  MemoriesInv' /\ Used' = Used
<1> USE DEF MemoriesInv
<1>1. /\ ListsInv' /\ Pooled("sub")' = Pooled("sub") /\ Pooled("dedicated")' = Pooled("dedicated")
      /\ SizesOf(segments["sub"]) \subseteq SizesOf(segments'["sub"])
      /\ SizesOf(segments["dedicated"]) \subseteq SizesOf(segments'["dedicated"])
  BY ChainFacts DEF SamePools
<1>2. UsedInv' /\ Used' = Used
  BY UsedKept DEF PlacesInv
<1>3. PlacesInv'
  BY <1>1, <1>2 DEF PlacesInv, Parts
<1>4. Existing \subseteq MemoryIds /\ Used \subseteq Existing /\ DOMAIN dedicated \subseteq Existing
  BY PlacesFacts
<1>5. HomesInv'
  <2>1. \A k \in Used' : memory'[k].segment \in SizesOf(segments'["sub"])
    BY <1>1, <1>2, <1>4 DEF HomesInv, SameLinks
  <2>2. \A k \in DOMAIN dedicated' : memory'[k].segment \in SizesOf(segments'["dedicated"])
    BY <1>1, <1>4 DEF HomesInv, SameLinks
  <2>3. QED
    BY <2>1, <2>2 DEF HomesInv, SizesOf
<1>6. UnreferencedInv'
  BY <1>2, <1>4 DEF UnreferencedInv
<1>7. QED
  BY <1>1, <1>3, <1>5, <1>6, <1>2

LEMMA SegmentsSamePools == ASSUME ListsInv, segments' = segments, SameLinks PROVE SamePools
<1>1. \A c \in Chains : Tidy(segments[c], memory')
  <2> SUFFICES ASSUME NEW c \in Chains PROVE Tidy(segments[c], memory')
    OBVIOUS
  <2>1. Tidy(segments[c], memory)
    BY DEF ListsInv
  <2>2. \A k \in Held(segments[c]) : memory'[k].segment = memory[k].segment
    BY <2>1, TidyFacts DEF SameLinks
  <2>3. QED
    BY <2>1, <2>2, TidyKept
<1>2. ListsInv'
  BY <1>1 DEF ListsInv, FixedSegment, MemorySize
<1>3. \A c \in Chains : Pooled(c)' = Pooled(c)
  BY DEF Pooled
<1>4. QED
  BY <1>2, <1>3 DEF SamePools

(* Memory without blocks is back in the pool of the sub chain, ...         *)
LEMMA ReturnSubPlaces ==
  ASSUME MemoriesInv, NEW m \in Existing, NEW i \in UsedIndices, usedPool[i] = m,
         memory' = [memory EXCEPT ![m].refs = 0],
         usedPool' = [usedPool EXCEPT ![i] = NoMemory], segments' = ReturnToPool("sub", m),
         dedicated' = dedicated
  PROVE  /\ MemoriesInv' /\ Used' = Used \ {m} /\ Existing' = Existing
         /\ Pooled("sub")' = Pooled("sub") \cup {m} /\ Pooled("dedicated")' = Pooled("dedicated")
<1> USE DEF MemoriesInv
<1>1. /\ MemoryInv' /\ SameLinks /\ Existing' = Existing /\ memory'[m].refs = 0
      /\ \A k \in MemoryIds \ {m} : memory'[k] = memory[k]
  BY Referenced
<1>2. m \in MemoryIds /\ m \in Used
  BY UsedFacts, ChainFacts DEF Existing, PlacesInv
<1>3. m \notin Pooled("sub") /\ m \notin Pooled("dedicated") /\ m \notin DOMAIN dedicated
  BY <1>2 DEF PlacesInv, Parts
<1>4. memory[m].segment \in SizesOf(segments["sub"])
  BY <1>2 DEF HomesInv
<1>5. Returned("sub", m)
  BY <1>1, <1>2, <1>3, <1>4, ReturnReturned, ChainFacts
<1>6. /\ ListsInv' /\ Pooled("sub")' = Pooled("sub") \cup {m} /\ Pooled("dedicated")' = Pooled("dedicated")
      /\ SizesOf(segments["sub"]) \subseteq SizesOf(segments'["sub"])
      /\ SizesOf(segments["dedicated"]) \subseteq SizesOf(segments'["dedicated"])
  BY <1>5, ChainFacts DEF Returned
<1>7. UsedInv' /\ Used' = Used \ {m}
  BY <1>2, UsedCleared DEF PlacesInv
<1>8. Parts(Existing, Used, Pooled("sub"), Pooled("dedicated"), DOMAIN dedicated)'
  BY <1>1, <1>2, <1>3, <1>6, <1>7 DEF PlacesInv, Parts
<1>9. Existing \subseteq MemoryIds /\ Used \subseteq Existing /\ DOMAIN dedicated \subseteq Existing
  BY PlacesFacts
<1>10. HomesInv'
  <2>1. \A k \in Used' : memory'[k].segment \in SizesOf(segments'["sub"])
    BY <1>1, <1>6, <1>7, <1>9 DEF HomesInv, SameLinks
  <2>2. \A k \in DOMAIN dedicated' : memory'[k].segment \in SizesOf(segments'["dedicated"])
    BY <1>1, <1>6, <1>9 DEF HomesInv, SameLinks
  <2>3. QED
    BY <2>1, <2>2 DEF HomesInv, SizesOf
<1>11. UnreferencedInv'
  <2>1. \A k \in Existing' \ Used' : k = m \/ (k \in Existing \ Used /\ memory'[k] = memory[k])
    BY <1>1, <1>7, <1>9
  <2>2. QED
    BY <1>1, <2>1 DEF UnreferencedInv
<1>12. QED
  BY <1>1, <1>6, <1>7, <1>8, <1>10, <1>11 DEF PlacesInv

(* ... a client's in that of the dedicated chain.                          *)
LEMMA ReturnDedicatedPlaces ==
  ASSUME MemoriesInv, NEW m \in DOMAIN dedicated, memory' = memory, usedPool' = usedPool,
         segments' = ReturnToPool("dedicated", m), DOMAIN dedicated' = DOMAIN dedicated \ {m}
  PROVE  /\ MemoriesInv' /\ Used' = Used /\ Existing' = Existing
         /\ Pooled("dedicated")' = Pooled("dedicated") \cup {m} /\ Pooled("sub")' = Pooled("sub")
<1> USE DEF MemoriesInv
<1>1. MemoryInv' /\ SameLinks /\ Existing' = Existing
  BY DEF MemoryInv, SameLinks, Existing
<1>2. m \in MemoryIds /\ m \notin Used
  BY PlacesFacts DEF PlacesInv, Parts
<1>3. m \notin Pooled("sub") /\ m \notin Pooled("dedicated")
  BY DEF PlacesInv, Parts
<1>4. memory[m].segment \in SizesOf(segments["dedicated"])
  BY DEF HomesInv
<1>5. Returned("dedicated", m)
  BY <1>1, <1>2, <1>3, <1>4, ReturnReturned, ChainFacts
<1>6. /\ ListsInv' /\ Pooled("dedicated")' = Pooled("dedicated") \cup {m} /\ Pooled("sub")' = Pooled("sub")
      /\ SizesOf(segments["sub"]) \subseteq SizesOf(segments'["sub"])
      /\ SizesOf(segments["dedicated"]) \subseteq SizesOf(segments'["dedicated"])
  BY <1>5, ChainFacts DEF Returned
<1>7. UsedInv' /\ Used' = Used
  BY UsedKept DEF PlacesInv
<1>8. Parts(Existing, Used, Pooled("sub"), Pooled("dedicated"), DOMAIN dedicated)'
  BY <1>1, <1>2, <1>3, <1>6, <1>7 DEF PlacesInv, Parts
<1>10. HomesInv'
  <2>1. \A k \in Used' : memory'[k].segment \in SizesOf(segments'["sub"])
    BY <1>6, <1>7 DEF HomesInv
  <2>2. \A k \in DOMAIN dedicated' : memory'[k].segment \in SizesOf(segments'["dedicated"])
    BY <1>6 DEF HomesInv
  <2>3. QED
    BY <2>1, <2>2 DEF HomesInv, SizesOf
<1>11. UnreferencedInv'
  BY <1>1, <1>7 DEF UnreferencedInv
<1>12. QED
  BY <1>1, <1>6, <1>7, <1>8, <1>10, <1>11 DEF PlacesInv

(* ReleaseMemory.                                                          *)
LEMMA FreedPlaces ==
  ASSUME MemoriesInv, NEW chain \in Chains, NEW freed, Freed(chain, freed),
         usedPool' = usedPool, dedicated' = dedicated
  PROVE  MemoriesInv' /\ Used' = Used /\ \A m \in Used \cup DOMAIN dedicated : memory'[m] = memory[m]
<1> USE DEF MemoriesInv
<1>1. /\ MemoryInv' /\ ListsInv' /\ freed \subseteq Pooled(chain) /\ Existing' = Existing \ freed
      /\ Pooled(chain)' = Pooled(chain) \ freed
      /\ \A c \in Chains \ {chain} : Pooled(c)' = Pooled(c)
      /\ SizesOf(segments["sub"]) \subseteq SizesOf(segments'["sub"])
      /\ SizesOf(segments["dedicated"]) \subseteq SizesOf(segments'["dedicated"])
      /\ \A k \in MemoryIds \ freed : memory'[k] = memory[k]
  BY ChainFacts DEF Freed
<1>2. freed \cap Used = {} /\ freed \cap DOMAIN dedicated = {} /\ freed \subseteq MemoryIds
  BY <1>1, PlacesFacts
<1>3. UsedInv' /\ Used' = Used
  BY UsedKept DEF PlacesInv
<1>4. Parts(Existing, Used, Pooled("sub"), Pooled("dedicated"), DOMAIN dedicated)'
  <2>1. chain = "sub" \/ chain = "dedicated"
    BY ChainFacts
  <2>2. CASE chain = "sub"
    BY <2>2, <1>1, <1>2, <1>3, ChainFacts DEF PlacesInv, Parts
  <2>3. CASE chain = "dedicated"
    BY <2>3, <1>1, <1>2, <1>3, ChainFacts DEF PlacesInv, Parts
  <2>4. QED
    BY <2>1, <2>2, <2>3
<1>5. Existing \subseteq MemoryIds /\ Used \subseteq Existing /\ DOMAIN dedicated \subseteq Existing
  BY PlacesFacts
<1>6. \A m \in Used \cup DOMAIN dedicated : memory'[m] = memory[m]
  BY <1>1, <1>2, <1>5
<1>7. HomesInv'
  <2>1. \A k \in Used' : memory'[k].segment \in SizesOf(segments'["sub"])
    BY <1>1, <1>3, <1>6 DEF HomesInv
  <2>2. \A k \in DOMAIN dedicated' : memory'[k].segment \in SizesOf(segments'["dedicated"])
    BY <1>1, <1>6 DEF HomesInv
  <2>3. QED
    BY <2>1, <2>2 DEF HomesInv, SizesOf
<1>8. UnreferencedInv'
  BY <1>1, <1>3, <1>5 DEF UnreferencedInv
<1>9. QED
  BY <1>1, <1>3, <1>4, <1>6, <1>7, <1>8 DEF PlacesInv

-----------------------------------------------------------------------------
(* References.                                                             *)

BlocksAt(i) == {b \in DOMAIN subs : GetMemoryIndex(b) = i}

(* RefsCountBlocks for one index.                                          *)
RefsAt(i) ==
    IF BlocksAt(i) = {} THEN usedPool[i] = NoMemory
    ELSE usedPool[i] # NoMemory /\ memory[usedPool[i]].refs = Cardinality(BlocksAt(i))

LEMMA RefsIs == ASSUME UsedInv PROVE RefsCountBlocks <=> \A i \in UsedIndices : RefsAt(i)
BY DEF UsedInv, RefsCountBlocks, RefsAt, BlocksAt, GetMemoryIndex

LEMMA RefsIsNext == ASSUME UsedInv' PROVE RefsCountBlocks' <=> \A i \in UsedIndices : RefsAt(i)'
BY DEF UsedInv, RefsCountBlocks, RefsAt, BlocksAt, GetMemoryIndex, UsedIndices, Offset, Size, MemorySize

LEMMA BlocksAtNext == ASSUME NEW i PROVE BlocksAt(i)' = {b \in DOMAIN subs' : GetMemoryIndex(b) = i}
BY DEF BlocksAt, GetMemoryIndex, Offset, Size, MemorySize

LEMMA RefsKept ==
  ASSUME UsedInv, RefsCountBlocks, DOMAIN subs' = DOMAIN subs, usedPool' = usedPool,
         \A m \in Used : memory'[m].refs = memory[m].refs
  PROVE  RefsCountBlocks'
<1>1. UsedInv'
  BY UsedKept
<1> SUFFICES ASSUME NEW i \in UsedIndices PROVE RefsAt(i)'
  BY <1>1, RefsIsNext
<1>2. RefsAt(i)
  BY RefsIs
<1>3. BlocksAt(i)' = BlocksAt(i)
  BY BlocksAtNext DEF BlocksAt
<1>4. usedPool[i] # NoMemory => usedPool[i] \in Used
  BY UsedFacts
<1>5. QED
  BY <1>2, <1>3, <1>4 DEF RefsAt

(* A block is added to an index, with a reference.                         *)
LEMMA RefsAdded ==
  ASSUME UsedInv, UsedInv', RefsCountBlocks, IsFiniteSet(DOMAIN subs), NEW b, b \notin DOMAIN subs,
         DOMAIN subs' = DOMAIN subs \cup {b}, NEW i \in UsedIndices, GetMemoryIndex(b) = i,
         NEW m \in MemoryIds, usedPool'[i] = m,
         \A j \in UsedIndices \ {i} : usedPool'[j] = usedPool[j],
         \A k \in Used \ {m} : memory'[k].refs = memory[k].refs,
         usedPool[i] = m => memory[m].refs \in Nat /\ memory'[m].refs = memory[m].refs + 1,
         usedPool[i] # m => usedPool[i] = NoMemory /\ memory'[m].refs = 1
  PROVE  RefsCountBlocks'
<1> SUFFICES ASSUME NEW j \in UsedIndices PROVE RefsAt(j)'
  BY RefsIsNext
<1>1. RefsAt(j) /\ RefsAt(i)
  BY RefsIs
<1>2. IsFiniteSet(BlocksAt(i))
  BY FS_Subset DEF BlocksAt
<1>3. CASE j = i
  <2>1. BlocksAt(i)' = BlocksAt(i) \cup {b} /\ b \notin BlocksAt(i)
    BY BlocksAtNext DEF BlocksAt
  <2>2. Cardinality(BlocksAt(i)') = Cardinality(BlocksAt(i)) + 1 /\ Cardinality(BlocksAt(i)) \in Nat
    BY <1>2, <2>1, FS_AddElement, FS_CardinalityType
  <2>3. m # NoMemory
    BY ChainFacts
  <2>4. CASE usedPool[i] = m
    BY <1>1, <1>3, <2>1, <2>2, <2>3, <2>4 DEF RefsAt
  <2>5. CASE usedPool[i] # m
    <3>1. BlocksAt(i) = {} /\ Cardinality(BlocksAt(i)) = 0
      BY <1>1, <2>5, FS_EmptySet DEF RefsAt
    <3>2. QED
      BY <1>3, <2>1, <2>2, <2>3, <2>5, <3>1 DEF RefsAt
  <2>6. QED
    BY <2>4, <2>5
<1>4. CASE j # i
  <2>1. BlocksAt(j)' = BlocksAt(j)
    BY <1>4, BlocksAtNext DEF BlocksAt
  <2>2. usedPool'[j] = usedPool[j]
    BY <1>4
  <2>3. ASSUME usedPool[j] # NoMemory PROVE memory'[usedPool[j]].refs = memory[usedPool[j]].refs
    <3>1. usedPool[j] \in Used
      BY <2>3, UsedFacts
    <3>2. usedPool[j] # m
      BY <1>4, <2>2, <2>3 DEF UsedInv, UsedIndices
    <3>3. QED
      BY <3>1, <3>2
  <2>4. QED
    BY <1>1, <2>1, <2>2, <2>3 DEF RefsAt
<1>5. QED
  BY <1>3, <1>4

(* A block of an index goes, with a reference.                             *)
LEMMA RefsRemoved ==
  ASSUME UsedInv, UsedInv', RefsCountBlocks, IsFiniteSet(DOMAIN subs), NEW b \in DOMAIN subs,
         DOMAIN subs' = DOMAIN subs \ {b}, NEW i \in UsedIndices, GetMemoryIndex(b) = i,
         NEW m, usedPool[i] = m,
         \A j \in UsedIndices \ {i} : usedPool'[j] = usedPool[j],
         \A k \in Used \ {m} : memory'[k].refs = memory[k].refs,
         memory'[m].refs = memory[m].refs - 1,
         usedPool'[i] = IF memory[m].refs = 1 THEN NoMemory ELSE m
  PROVE  RefsCountBlocks'
<1> SUFFICES ASSUME NEW j \in UsedIndices PROVE RefsAt(j)'
  BY RefsIsNext
<1>1. RefsAt(j) /\ RefsAt(i)
  BY RefsIs
<1>2. IsFiniteSet(BlocksAt(i))
  BY FS_Subset DEF BlocksAt
<1>3. CASE j = i
  <2>1. BlocksAt(i)' = BlocksAt(i) \ {b} /\ b \in BlocksAt(i)
    BY BlocksAtNext DEF BlocksAt
  <2>2. /\ Cardinality(BlocksAt(i)') = Cardinality(BlocksAt(i)) - 1 /\ Cardinality(BlocksAt(i)) \in Nat
        /\ IsFiniteSet(BlocksAt(i)')
    BY <1>2, <2>1, FS_RemoveElement, FS_CardinalityType
  <2>3. memory[m].refs = Cardinality(BlocksAt(i)) /\ m # NoMemory
    BY <1>1, <2>1 DEF RefsAt
  <2>4. BlocksAt(i)' = {} <=> memory[m].refs = 1
    BY <2>2, <2>3, FS_EmptySet
  <2>5. QED
    BY <1>3, <2>2, <2>3, <2>4 DEF RefsAt
<1>4. CASE j # i
  <2>1. BlocksAt(j)' = BlocksAt(j)
    BY <1>4, BlocksAtNext DEF BlocksAt
  <2>2. usedPool'[j] = usedPool[j]
    BY <1>4
  <2>3. ASSUME usedPool[j] # NoMemory PROVE memory'[usedPool[j]].refs = memory[usedPool[j]].refs
    <3>1. usedPool[j] \in Used
      BY <2>3, UsedFacts
    <3>2. usedPool[j] # m
      BY <1>4, <2>3 DEF UsedInv
    <3>3. QED
      BY <3>1, <3>2
  <2>4. QED
    BY <1>1, <2>1, <2>2, <2>3 DEF RefsAt
<1>5. QED
  BY <1>3, <1>4

-----------------------------------------------------------------------------
(* The steps, for the memory and the references.                           *)

PlacesOK == BlocksInv /\ MemoriesInv /\ RefsCountBlocks

(* The memory request of the buddy system.                                 *)
LEMMA MemoryRequestFacts ==
  ASSUME NEW r \in Requests
  PROVE  /\ MemoryRequest(r).size = MemorySize /\ MemoryRequest(r).alignment = MemoryAlignment
         /\ MemoryRequest(r).size \in Nat \ {0} /\ MemoryRequest(r).alignment \in Nat \ {0}
<1>1. r = [size |-> r.size, alignment |-> r.alignment, never |-> r.never]
  BY ChainFacts
<1>2. MemoryRequest(r).size = MemorySize /\ MemoryRequest(r).alignment = MemoryAlignment
  BY <1>1 DEF MemoryRequest
<1>3. QED
  BY <1>2, ChainFacts

LEMMA TrySubAllocatePlaces ==
  ASSUME PlacesOK, NEW r \in Requests, TrySubAllocate(r)
  PROVE  PlacesOK' /\ Used' = Used /\ Existing' = Existing /\ SamePools
<1>1. /\ UNCHANGED <<usedPool, segments, memory, subs, dedicated>>
  BY DEF TrySubAllocate
<1>2. SameLinks /\ SamePools /\ Existing' = Existing /\ MemoryInv'
  BY <1>1, SegmentsSamePools DEF SameLinks, Existing, PlacesOK, MemoriesInv, MemoryInv
<1>3. MemoriesInv' /\ Used' = Used
  BY <1>1, <1>2, SamePlaces DEF PlacesOK
<1>4. RefsCountBlocks'
  BY <1>1, RefsKept DEF PlacesOK, MemoriesInv, PlacesInv
<1>5. QED
  BY <1>2, <1>3, <1>4, TrySubAllocateBlocks DEF PlacesOK

-----------------------------------------------------------------------------
(* Sizes of memory and blocks.                                             *)

(* The bytes of the memory in S.                                           *)
Bytes(mem, S) == SumOver([m \in MemoryIds |-> mem[m].size], S)

(* The bytes of the blocks in S.                                           *)
BlockBytes(S) == SumOver([b \in Block |-> Size(b)], S)

Sized(mem) == \A m \in MemoryIds : mem[m].size \in Nat

LEMMA BytesFacts ==
  ASSUME NEW mem, Sized(mem), NEW S \in SUBSET MemoryIds
  PROVE  /\ Bytes(mem, S) \in Nat /\ IsFiniteSet(S) /\ Cardinality(S) \in Nat
         /\ \A m \in MemoryIds \ S : /\ Bytes(mem, S \cup {m}) = Bytes(mem, S) + mem[m].size
                                     /\ Cardinality(S \cup {m}) = Cardinality(S) + 1
         /\ \A m \in S : /\ Bytes(mem, S \ {m}) = Bytes(mem, S) - mem[m].size
                         /\ Cardinality(S \ {m}) = Cardinality(S) - 1
<1>1. IsFiniteSet(S) /\ Cardinality(S) \in Nat
  BY ChainFacts, FS_Subset, FS_CardinalityType
<1>2. PICK f : f = [m \in MemoryIds |-> mem[m].size]
  OBVIOUS
<1>3. \A m \in MemoryIds : f[m] = mem[m].size /\ f[m] \in Nat /\ f[m] \in Int
  BY <1>2 DEF Sized
<1>4. \A T : Bytes(mem, T) = SumOver(f, T)
  BY <1>2 DEF Bytes
<1>5. \A x \in S : f[x] \in Nat /\ f[x] \in Int
  BY <1>3
<1>6. SumOver(f, S) \in Nat
  BY <1>1, <1>5, SumNat
<1>7. ASSUME NEW m \in MemoryIds \ S
      PROVE  /\ Bytes(mem, S \cup {m}) = Bytes(mem, S) + mem[m].size
             /\ Cardinality(S \cup {m}) = Cardinality(S) + 1
  <2>1. m \notin S /\ \A x \in S \cup {m} : f[x] \in Int
    BY <1>3, <1>5
  <2>2. SumOver(f, S \cup {m}) = SumOver(f, S) + f[m]
    BY <1>1, <2>1, SumAdd
  <2>3. QED
    BY <1>1, <1>3, <1>4, <2>2, FS_AddElement
<1>8. ASSUME NEW m \in S
      PROVE  /\ Bytes(mem, S \ {m}) = Bytes(mem, S) - mem[m].size
             /\ Cardinality(S \ {m}) = Cardinality(S) - 1
  <2>1. SumOver(f, S) = f[m] + SumOver(f, S \ {m})
    BY <1>1, <1>5, SumRemove
  <2>2. SumOver(f, S \ {m}) \in Nat
    <3>1. IsFiniteSet(S \ {m}) /\ \A x \in S \ {m} : f[x] \in Nat
      BY <1>1, <1>5, FS_RemoveElement
    <3>2. QED
      BY <3>1, SumNat
  <2>3. Bytes(mem, S) = mem[m].size + Bytes(mem, S \ {m}) /\ Bytes(mem, S \ {m}) \in Nat /\ mem[m].size \in Nat
    BY <1>3, <1>4, <2>1, <2>2
  <2>4. Cardinality(S \ {m}) = Cardinality(S) - 1
    BY <1>1, FS_RemoveElement
  <2>5. QED
    BY <2>3, <2>4
<1>9. QED
  BY <1>1, <1>4, <1>6, <1>7, <1>8

SameSizes(mem, mem2, S) == \A m \in S : mem2[m].size = mem[m].size

LEMMA BytesSame ==
  ASSUME NEW mem, NEW mem2, NEW S \in SUBSET MemoryIds, SameSizes(mem, mem2, S)
  PROVE  Bytes(mem2, S) = Bytes(mem, S)
<1>1. IsFiniteSet(S)
  BY ChainFacts, FS_Subset
<1>2. PICK f, g : f = [m \in MemoryIds |-> mem[m].size] /\ g = [m \in MemoryIds |-> mem2[m].size]
  OBVIOUS
<1>3. \A m \in S : g[m] = f[m]
  BY <1>2 DEF SameSizes
<1>4. SumOver(g, S) = SumOver(f, S)
  BY <1>1, <1>3, SumSame
<1>5. QED
  BY <1>2, <1>4 DEF Bytes

LEMMA BytesMinus ==
  ASSUME NEW mem, Sized(mem), NEW S \in SUBSET MemoryIds, NEW T \in SUBSET S
  PROVE  /\ Bytes(mem, S \ T) = Bytes(mem, S) - Bytes(mem, T)
         /\ Cardinality(S \ T) = Cardinality(S) - Cardinality(T)
<1>1. IsFiniteSet(S) /\ IsFiniteSet(T) /\ IsFiniteSet(S \ T) /\ (S \ T) \cap T = {} /\ (S \ T) \cup T = S
  BY ChainFacts, FS_Subset, FS_Difference
<1>2. PICK f : f = [m \in MemoryIds |-> mem[m].size]
  OBVIOUS
<1>3. \A m \in (S \ T) \cup T : f[m] \in Int
  BY <1>2 DEF Sized
<1>4. PICK R : R = S \ T
  OBVIOUS
<1>5. SumOver(f, R \cup T) = SumOver(f, R) + SumOver(f, T)
  BY <1>1, <1>3, <1>4, SumUnion
<1>6. Bytes(mem, R) \in Nat /\ Bytes(mem, T) \in Nat /\ Cardinality(R) \in Nat /\ Cardinality(T) \in Nat
  BY <1>4, BytesFacts
<1>7. Cardinality(R \cup T) = Cardinality(R) + Cardinality(T)
  <2>1. R \cap T = {} /\ IsFiniteSet(R)
    BY <1>1, <1>4
  <2>2. Cardinality(R \cap T) = 0
    BY <2>1, FS_EmptySet
  <2>3. Cardinality(R \cup T) = Cardinality(R) + Cardinality(T) - Cardinality(R \cap T)
    BY <1>1, <2>1, FS_Union
  <2>4. QED
    BY <1>6, <2>2, <2>3
<1>8. Bytes(mem, R \cup T) = Bytes(mem, R) + Bytes(mem, T)
  BY <1>2, <1>5 DEF Bytes
<1>9. R \cup T = S
  BY <1>1, <1>4
<1>10. Bytes(mem, S) = Bytes(mem, R) + Bytes(mem, T) /\ Cardinality(S) = Cardinality(R) + Cardinality(T)
  BY <1>7, <1>8, <1>9
<1>11. Bytes(mem, R) = Bytes(mem, S) - Bytes(mem, T) /\ Cardinality(R) = Cardinality(S) - Cardinality(T)
  BY <1>6, <1>10
<1>12. QED
  BY <1>4, <1>11

LEMMA BytesUnion ==
  ASSUME NEW mem, Sized(mem), NEW S \in SUBSET MemoryIds, NEW T \in SUBSET MemoryIds, S \cap T = {}
  PROVE  /\ Bytes(mem, S \cup T) = Bytes(mem, S) + Bytes(mem, T)
         /\ Cardinality(S \cup T) = Cardinality(S) + Cardinality(T)
<1>1. PICK U : U = S \cup T
  OBVIOUS
<1>2. U \in SUBSET MemoryIds /\ T \in SUBSET U /\ U \ T = S
  BY <1>1
<1>3. Bytes(mem, S) = Bytes(mem, U) - Bytes(mem, T) /\ Cardinality(S) = Cardinality(U) - Cardinality(T)
  BY <1>2, BytesMinus
<1>4. /\ Bytes(mem, U) \in Nat /\ Bytes(mem, T) \in Nat /\ Cardinality(U) \in Nat /\ Cardinality(T) \in Nat
  BY <1>2, BytesFacts
<1>5. QED
  BY <1>1, <1>3, <1>4

(* SizeOf of the model.                                                    *)
LEMMA SizeOfIs ==
  ASSUME NEW S \in SUBSET MemoryIds
  PROVE  SizeOf(S) = Bytes(memory, S)
<1>1. IsFiniteSet(S)
  BY ChainFacts, FS_Subset
<1>2. PICK f, r : f = [m \in MemoryIds |-> memory[m].size] /\ r = memory
  OBVIOUS
<1>3. \A m \in S : f[m] = r[m].size
  BY <1>2
<1>4. MapThenSumSet(LAMBDA x : r[x].size, S) = SumOver(f, S)
  BY <1>1, <1>3, SumOfSizes
<1>5. QED
  BY <1>2, <1>4 DEF SizeOf, Bytes

LEMMA BlockBytesFacts ==
  ASSUME NEW S \in SUBSET Block, IsFiniteSet(S)
  PROVE  /\ BlockBytes(S) \in Nat /\ Cardinality(S) \in Nat
         /\ \A b \in Block \ S : /\ BlockBytes(S \cup {b}) = BlockBytes(S) + Size(b)
                                 /\ Cardinality(S \cup {b}) = Cardinality(S) + 1
         /\ \A b \in S : /\ BlockBytes(S \ {b}) = BlockBytes(S) - Size(b)
                         /\ Cardinality(S \ {b}) = Cardinality(S) - 1
<1>1. PICK f : f = [b \in Block |-> Size(b)]
  OBVIOUS
<1>2. \A b \in Block : f[b] = Size(b) /\ f[b] \in Nat /\ f[b] \in Int
  BY <1>1, RangeFacts
<1>3. \A T : BlockBytes(T) = SumOver(f, T)
  BY <1>1 DEF BlockBytes
<1>4. \A x \in S : f[x] \in Nat /\ f[x] \in Int
  BY <1>2
<1>5. SumOver(f, S) \in Nat /\ Cardinality(S) \in Nat
  BY <1>4, SumNat, FS_CardinalityType
<1>6. ASSUME NEW b \in Block \ S
      PROVE  /\ BlockBytes(S \cup {b}) = BlockBytes(S) + Size(b)
             /\ Cardinality(S \cup {b}) = Cardinality(S) + 1
  <2>1. b \notin S /\ \A x \in S \cup {b} : f[x] \in Int
    BY <1>2, <1>4
  <2>2. SumOver(f, S \cup {b}) = SumOver(f, S) + f[b]
    BY <2>1, SumAdd
  <2>3. QED
    BY <1>2, <1>3, <2>2, FS_AddElement
<1>7. ASSUME NEW b \in S
      PROVE  /\ BlockBytes(S \ {b}) = BlockBytes(S) - Size(b)
             /\ Cardinality(S \ {b}) = Cardinality(S) - 1
  <2>1. SumOver(f, S) = f[b] + SumOver(f, S \ {b})
    BY <1>4, SumRemove
  <2>2. SumOver(f, S \ {b}) \in Nat
    <3>1. IsFiniteSet(S \ {b}) /\ \A x \in S \ {b} : f[x] \in Nat
      BY <1>4, FS_RemoveElement
    <3>2. QED
      BY <3>1, SumNat
  <2>3. BlockBytes(S) = Size(b) + BlockBytes(S \ {b}) /\ BlockBytes(S \ {b}) \in Nat /\ Size(b) \in Nat
    BY <1>2, <1>3, <2>1, <2>2, RangeFacts
  <2>4. Cardinality(S \ {b}) = Cardinality(S) - 1
    BY FS_RemoveElement
  <2>5. QED
    BY <2>3, <2>4
<1>8. QED
  BY <1>3, <1>5, <1>6, <1>7

LEMMA BlockBytesIs ==
  ASSUME NEW S \in SUBSET Block, IsFiniteSet(S)
  PROVE  MapThenSumSet(Size, S) = BlockBytes(S)
<1> DEFINE f == [b \in Block |-> Size(b)]
           Is(g) == g = [s \in SUBSET S |-> IF s = {} THEN 0 ELSE Size(Some(s)) + g[s \ {Some(s)}]]
           G == CHOOSE g : Is(g)
           F == CHOOSE g : IsSum(g, f, S)
<1>1. MapThenSumSet(Size, S) = G[S]
  BY DEF MapThenSumSet, MapThenFoldSet, Some
<1>2. SumOver(f, S) = F[S]
  BY DEF SumOver, MapThenSumSet, MapThenFoldSet, IsSum, Some
<1>3. \A s \in SUBSET S : s # {} => f[Some(s)] = Size(Some(s))
  BY SomeIn
<1>4. ASSUME NEW g PROVE Is(g) <=> IsSum(g, f, S)
  <2>1. [s \in SUBSET S |-> IF s = {} THEN 0 ELSE Size(Some(s)) + g[s \ {Some(s)}]]
        = [s \in SUBSET S |-> IF s = {} THEN 0 ELSE f[Some(s)] + g[s \ {Some(s)}]]
    BY <1>3
  <2>2. QED
    BY <2>1 DEF IsSum
<1>5. IsSum(F, f, S)
  BY SumExists
<1>6. Is(G)
  BY <1>4, <1>5
<1>7. IsSum(G, f, S)
  BY <1>4, <1>6
<1> HIDE DEF G, F
<1>8. G[S] = F[S]
  BY <1>5, <1>7, SumUnique
<1>9. QED
  BY <1>1, <1>2, <1>8 DEF BlockBytes

-----------------------------------------------------------------------------
(* Statistics.                                                             *)

Counts(a, b, c, d, e) ==
    [usedBlockCount |-> a, usedBlockUsage |-> b, usedMemoryCount |-> c,
     usedMemoryUsage |-> d, freeMemoryUsage |-> e]

(* The updates of several fields that the operators of the model make.     *)
BlockSet(s, x, y) == [s EXCEPT !.usedBlockCount = x, !.usedBlockUsage = y]

MemorySet(s, x, y) == [s EXCEPT !.usedMemoryCount = x, !.usedMemoryUsage = y]

MemoryAndFreeSet(s, x, y, z) ==
    [s EXCEPT !.usedMemoryCount = x, !.usedMemoryUsage = y, !.freeMemoryUsage = z]

LEMMA SetBlock ==
  ASSUME NEW a, NEW b, NEW c, NEW d, NEW e, NEW x, NEW y
  PROVE  BlockSet(Counts(a, b, c, d, e), x, y) = Counts(x, y, c, d, e)
<1> DEFINE s == Counts(a, b, c, d, e)
<1>1. [s EXCEPT !.usedBlockCount = x] = Counts(x, b, c, d, e)
  BY DEF Counts
<1>2. [Counts(x, b, c, d, e) EXCEPT !.usedBlockUsage = y] = Counts(x, y, c, d, e)
  BY DEF Counts
<1> HIDE DEF s
<1>3. BlockSet(s, x, y) = [[s EXCEPT !.usedBlockCount = x] EXCEPT !.usedBlockUsage = y]
  BY DEF BlockSet
<1>4. QED
  BY <1>1, <1>2, <1>3, Zenon DEF s

LEMMA SetMemory ==
  ASSUME NEW a, NEW b, NEW c, NEW d, NEW e, NEW x, NEW y
  PROVE  MemorySet(Counts(a, b, c, d, e), x, y) = Counts(a, b, x, y, e)
<1> DEFINE s == Counts(a, b, c, d, e)
<1>1. [s EXCEPT !.usedMemoryCount = x] = Counts(a, b, x, d, e)
  BY DEF Counts
<1>2. [Counts(a, b, x, d, e) EXCEPT !.usedMemoryUsage = y] = Counts(a, b, x, y, e)
  BY DEF Counts
<1> HIDE DEF s
<1>3. MemorySet(s, x, y) = [[s EXCEPT !.usedMemoryCount = x] EXCEPT !.usedMemoryUsage = y]
  BY DEF MemorySet
<1>4. QED
  BY <1>1, <1>2, <1>3, Zenon DEF s

LEMMA SetMemoryAndFree ==
  ASSUME NEW a, NEW b, NEW c, NEW d, NEW e, NEW x, NEW y, NEW z
  PROVE  MemoryAndFreeSet(Counts(a, b, c, d, e), x, y, z) = Counts(a, b, x, y, z)
<1> DEFINE s == Counts(a, b, c, d, e)
<1>1. MemorySet(s, x, y) = Counts(a, b, x, y, e)
  BY SetMemory
<1>2. [Counts(a, b, x, y, e) EXCEPT !.freeMemoryUsage = z] = Counts(a, b, x, y, z)
  BY DEF Counts
<1> HIDE DEF s
<1>3. MemoryAndFreeSet(s, x, y, z) = [MemorySet(s, x, y) EXCEPT !.freeMemoryUsage = z]
  BY DEF MemorySet, MemoryAndFreeSet
<1>4. QED
  BY <1>1, <1>2, <1>3, Zenon DEF s

LEMMA CountsOf ==
  ASSUME NEW a, NEW b, NEW c, NEW d, NEW e
  PROVE  /\ Counts(a, b, c, d, e).usedBlockCount = a /\ Counts(a, b, c, d, e).usedBlockUsage = b
         /\ Counts(a, b, c, d, e).usedMemoryCount = c /\ Counts(a, b, c, d, e).usedMemoryUsage = d
         /\ Counts(a, b, c, d, e).freeMemoryUsage = e
BY DEF Counts

(* What the operators on the statistics do.                                *)
LEMMA BlockAdded ==
  ASSUME NEW a \in Int, NEW b \in Int, NEW c, NEW d, NEW e, NEW sign \in Int, NEW size \in Int
  PROVE  AddBlock(Counts(a, b, c, d, e), sign, size) = Counts(a + sign, b + sign * size, c, d, e)
<1>1. PICK x, y : x = a + sign /\ y = b + sign * size
  OBVIOUS
<1>2. PICK s : s = Counts(a, b, c, d, e)
  OBVIOUS
<1>3. s.usedBlockCount + sign = x /\ s.usedBlockUsage + sign * size = y
  BY <1>1, <1>2, CountsOf
<1>4. AddBlock(s, sign, size) = BlockSet(s, x, y)
  BY <1>3, Zenon DEF AddBlock, BlockSet
<1>5. BlockSet(Counts(a, b, c, d, e), x, y) = Counts(x, y, c, d, e)
  BY SetBlock
<1>6. AddBlock(s, sign, size) = Counts(x, y, c, d, e)
  BY <1>2, <1>4, <1>5, Zenon
<1>7. QED
  BY <1>1, <1>2, <1>6

LEMMA MemoryAdded ==
  ASSUME NEW a, NEW b, NEW c \in Int, NEW d \in Int, NEW e \in Int, NEW sign \in Int, NEW size \in Int,
         NEW free \in Int
  PROVE  AddMemory(Counts(a, b, c, d, e), sign, size, free) = Counts(a, b, c + sign, d + sign * size, e + free)
<1>1. PICK x, y, z : x = c + sign /\ y = d + sign * size /\ z = e + free
  OBVIOUS
<1>2. PICK s : s = Counts(a, b, c, d, e)
  OBVIOUS
<1>3. s.usedMemoryCount + sign = x /\ s.usedMemoryUsage + sign * size = y /\ s.freeMemoryUsage + free = z
  BY <1>1, <1>2, CountsOf
<1>4. AddMemory(s, sign, size, free) = MemoryAndFreeSet(s, x, y, z)
  BY <1>3, Zenon DEF AddMemory, MemoryAndFreeSet
<1>5. MemoryAndFreeSet(Counts(a, b, c, d, e), x, y, z) = Counts(a, b, x, y, z)
  BY SetMemoryAndFree
<1>6. AddMemory(s, sign, size, free) = Counts(a, b, x, y, z)
  BY <1>2, <1>4, <1>5, Zenon
<1>7. QED
  BY <1>1, <1>2, <1>6

LEMMA HeapReleased ==
  ASSUME NEW a, NEW b, NEW c, NEW d, NEW e, NEW S
  PROVE  HeapReleases(Counts(a, b, c, d, e), S) = Counts(a, b, c - Cardinality(S), d - SizeOf(S), e)
<1>1. PICK x, y : x = c - Cardinality(S) /\ y = d - SizeOf(S)
  OBVIOUS
<1>2. PICK s : s = Counts(a, b, c, d, e)
  OBVIOUS
<1>3. s.usedMemoryCount - Cardinality(S) = x /\ s.usedMemoryUsage - SizeOf(S) = y
  BY <1>1, <1>2, CountsOf
<1>4. HeapReleases(s, S) = MemorySet(s, x, y)
  BY <1>3, Zenon DEF HeapReleases, MemorySet
<1>5. MemorySet(Counts(a, b, c, d, e), x, y) = Counts(a, b, x, y, e)
  BY SetMemory
<1>6. HeapReleases(s, S) = Counts(a, b, x, y, e)
  BY <1>2, <1>4, <1>5, Zenon
<1>7. QED
  BY <1>1, <1>2, <1>6

-----------------------------------------------------------------------------
(* Each allocator's statistics are those of what it has.                   *)

Allocators == {"buddy", "subPool", "dedicated", "dedicatedPool", "heap"}

StatsAre(s, buddy, subPool, ded, dedicatedPool, heap) ==
    /\ s = [a \in Allocators |-> s[a]]
    /\ s["buddy"] = buddy /\ s["subPool"] = subPool /\ s["dedicated"] = ded
    /\ s["dedicatedPool"] = dedicatedPool /\ s["heap"] = heap

BlockCounts(count, bytes) == Counts(count, bytes, 0, 0, 0)

MemoryCounts(count, bytes, free) == Counts(0, 0, count, bytes, free)

(* The statistics s of allocators that have this.                          *)
StatsFor(s, mem, blocks, used, subPool, ded, dedicatedPool, existing) ==
    StatsAre(s,
      BlockCounts(Cardinality(blocks), BlockBytes(blocks)),
      MemoryCounts(Cardinality(used), Bytes(mem, used), Bytes(mem, subPool)),
      BlockCounts(Cardinality(ded), Bytes(mem, ded)),
      MemoryCounts(Cardinality(ded), Bytes(mem, ded), Bytes(mem, dedicatedPool)),
      MemoryCounts(Cardinality(existing), Bytes(mem, existing), 0))

StatInv ==
    StatsFor(stats, memory, DOMAIN subs, Used, Pooled("sub"), DOMAIN dedicated,
             Pooled("dedicated"), Existing)

LEMMA UsedBlockStats ==
  ASSUME NEW s, NEW A, NEW B, NEW C, NEW D, NEW E, StatsAre(s, A, B, C, D, E), NEW sign, NEW b
  PROVE  StatsAre(UsedBlock(s, sign, b), AddBlock(A, sign, Size(b)), B, C, D, E)
BY DEF StatsAre, UsedBlock, Allocators

LEMMA DedicatedBlockStats ==
  ASSUME NEW s, NEW A, NEW B, NEW C, NEW D, NEW E, StatsAre(s, A, B, C, D, E), NEW sign, NEW size
  PROVE  StatsAre([s EXCEPT !["dedicated"] = AddBlock(@, sign, size)], A, B, AddBlock(C, sign, size), D, E)
BY DEF StatsAre, Allocators

LEMMA GotMemoryStats ==
  ASSUME NEW s, NEW A, NEW B, NEW C, NEW D, NEW E, StatsAre(s, A, B, C, D, E), NEW size, NEW created \in BOOLEAN
  PROVE  /\ StatsAre(GotMemory("sub", s, size, created), A,
                     AddMemory(B, 1, size, IF created THEN 0 ELSE 0 - size), C, D,
                     IF created THEN AddMemory(E, 1, size, 0) ELSE E)
         /\ StatsAre(GotMemory("dedicated", s, size, created), A, B, C,
                     AddMemory(D, 1, size, IF created THEN 0 ELSE 0 - size),
                     IF created THEN AddMemory(E, 1, size, 0) ELSE E)
BY DEF StatsAre, GotMemory, StatsOf, Allocators

LEMMA TakenBackStats ==
  ASSUME NEW s, NEW A, NEW B, NEW C, NEW D, NEW E, StatsAre(s, A, B, C, D, E), NEW m
  PROVE  /\ StatsAre(PoolTakesBack("sub", s, m), A, AddMemory(B, -1, memory[m].size, memory[m].size), C, D, E)
         /\ StatsAre(PoolTakesBack("dedicated", s, m), A, B, C,
                     AddMemory(D, -1, memory[m].size, memory[m].size), E)
BY DEF StatsAre, PoolTakesBack, StatsOf, Allocators

LEMMA ReleasedStatsAre ==
  ASSUME NEW A, NEW B, NEW C, NEW D, NEW E, StatsAre(stats, A, B, C, D, E), NEW freed
  PROVE  /\ StatsAre(ReleasedStats("sub", freed), A, AddMemory(B, 0, 0, 0 - SizeOf(freed)), C, D,
                     HeapReleases(E, freed))
         /\ StatsAre(ReleasedStats("dedicated", freed), A, B, C, AddMemory(D, 0, 0, 0 - SizeOf(freed)),
                     HeapReleases(E, freed))
BY DEF StatsAre, ReleasedStats, StatsOf, Allocators

-----------------------------------------------------------------------------
(* The calls of the chain.                                                 *)

ChainInv == PlacesOK /\ StatInv

LEMMA StatInvNext ==
  StatInv' <=> StatsFor(stats', memory', DOMAIN subs', Used', Pooled("sub")', DOMAIN dedicated',
                        Pooled("dedicated")', Existing')
BY DEF StatInv

LEMMA SizedMemory == ASSUME MemoryInv PROVE Sized(memory)
BY MemoryRecord DEF Sized

LEMMA SizedMemoryNext == ASSUME MemoryInv' PROVE Sized(memory')
BY DEF Sized, MemoryInv, MemoryType

(* The sets the statistics are about.                                      *)
LEMMA SetsFacts ==
  ASSUME PlacesOK
  PROVE  /\ Used \in SUBSET MemoryIds /\ Existing \in SUBSET MemoryIds
         /\ DOMAIN dedicated \in SUBSET MemoryIds /\ Sized(memory)
         /\ \A c \in Chains : Pooled(c) \in SUBSET MemoryIds
         /\ DOMAIN subs \in SUBSET Block /\ IsFiniteSet(DOMAIN subs)
BY PlacesFacts, BlocksFacts, SizedMemory DEF PlacesOK, MemoriesInv

LEMMA BlockCountsAdd ==
  ASSUME PlacesOK, NEW b \in Block
  PROVE  /\ b \notin DOMAIN subs =>
              AddBlock(BlockCounts(Cardinality(DOMAIN subs), BlockBytes(DOMAIN subs)), 1, Size(b))
                = BlockCounts(Cardinality(DOMAIN subs \cup {b}), BlockBytes(DOMAIN subs \cup {b}))
         /\ b \in DOMAIN subs =>
              AddBlock(BlockCounts(Cardinality(DOMAIN subs), BlockBytes(DOMAIN subs)), -1, Size(b))
                = BlockCounts(Cardinality(DOMAIN subs \ {b}), BlockBytes(DOMAIN subs \ {b}))
<1>1. PICK S : S = DOMAIN subs
  OBVIOUS
<1>2. S \in SUBSET Block /\ IsFiniteSet(S)
  BY <1>1, SetsFacts
<1>3. PICK n, k, size : n = Cardinality(S) /\ k = BlockBytes(S) /\ size = Size(b)
  OBVIOUS
<1>4. n \in Nat /\ k \in Nat /\ size \in Nat
  BY <1>2, <1>3, BlockBytesFacts, RangeFacts
<1>5. b \notin S => BlockBytes(S \cup {b}) = k + size /\ Cardinality(S \cup {b}) = n + 1
  BY <1>2, <1>3, BlockBytesFacts
<1>6. b \in S => BlockBytes(S \ {b}) = k - size /\ Cardinality(S \ {b}) = n - 1
  BY <1>2, <1>3, BlockBytesFacts
<1>7. AddBlock(BlockCounts(n, k), 1, size) = BlockCounts(n + 1, k + size)
  <2>1. AddBlock(Counts(n, k, 0, 0, 0), 1, size) = Counts(n + 1, k + 1 * size, 0, 0, 0)
    BY <1>4, BlockAdded
  <2>2. k + 1 * size = k + size
    BY <1>4
  <2>3. QED
    BY <2>1, <2>2 DEF BlockCounts
<1>8. AddBlock(BlockCounts(n, k), -1, size) = BlockCounts(n - 1, k - size)
  <2>1. -1 \in Int /\ AddBlock(Counts(n, k, 0, 0, 0), -1, size) = Counts(n + -1, k + -1 * size, 0, 0, 0)
    BY <1>4, BlockAdded
  <2>2. k + -1 * size = k - size /\ n + -1 = n - 1
    BY <1>4
  <2>3. QED
    BY <2>1, <2>2 DEF BlockCounts
<1>9. QED
  BY <1>1, <1>3, <1>5, <1>6, <1>7, <1>8

(* The counts of memory m that goes in and out.                            *)
LEMMA MemoryCountsAdd ==
  ASSUME NEW n \in Int, NEW k \in Int, NEW f \in Int, NEW size \in Int
  PROVE  /\ AddMemory(MemoryCounts(n, k, f), 1, size, 0) = MemoryCounts(n + 1, k + size, f)
         /\ AddMemory(MemoryCounts(n, k, f), 1, size, 0 - size) = MemoryCounts(n + 1, k + size, f - size)
         /\ AddMemory(MemoryCounts(n, k, f), -1, size, size) = MemoryCounts(n - 1, k - size, f + size)
         /\ AddMemory(MemoryCounts(n, k, f), 0, 0, 0 - size) = MemoryCounts(n, k, f - size)
<1>1. AddMemory(Counts(0, 0, n, k, f), 1, size, 0) = Counts(0, 0, n + 1, k + 1 * size, f + 0)
  BY MemoryAdded
<1>2. 0 - size \in Int /\ AddMemory(Counts(0, 0, n, k, f), 1, size, 0 - size)
        = Counts(0, 0, n + 1, k + 1 * size, f + (0 - size))
  BY MemoryAdded
<1>3. -1 \in Int /\ AddMemory(Counts(0, 0, n, k, f), -1, size, size) = Counts(0, 0, n + -1, k + -1 * size, f + size)
  BY MemoryAdded
<1>4. AddMemory(Counts(0, 0, n, k, f), 0, 0, 0 - size) = Counts(0, 0, n + 0, k + 0 * 0, f + (0 - size))
  BY <1>2, MemoryAdded
<1>5. /\ k + 1 * size = k + size /\ f + 0 = f /\ f + (0 - size) = f - size
      /\ n + -1 = n - 1 /\ k + -1 * size = k - size /\ n + 0 = n /\ k + 0 * 0 = k
  OBVIOUS
<1>6. QED
  BY <1>1, <1>2, <1>3, <1>4, <1>5 DEF MemoryCounts

LEMMA UseMemoryInv ==
  ASSUME ChainInv, UseMemory
  PROVE  ChainInv'
<1> USE DEF ChainInv
<1>1. PICK i, m : i = GetMemoryIndex(op.block) /\ m = usedPool[i]
  OBVIOUS
<1>2. /\ op.pc = "memory" /\ m # NoMemory /\ memory' = [memory EXCEPT ![m].refs = @ + 1]
      /\ stats' = UsedBlock(stats, 1, op.block) /\ segments' = segments /\ SubAllocated(m)
  BY <1>1 DEF UseMemory
<1>3. op.block \in Block /\ op.block \notin DOMAIN subs
  BY <1>2, BlocksFacts DEF PlacesOK
<1>4. i \in UsedIndices
  BY <1>1, <1>3, MemoryIndex
<1>5. UsedInv /\ MemoryInv /\ MemoriesInv /\ RefsCountBlocks /\ ListsInv
  BY DEF PlacesOK, MemoriesInv, PlacesInv
<1>6. m \in MemoryIds /\ m \in Used /\ m \in Existing
  BY <1>1, <1>2, <1>4, <1>5, UsedFacts, PlacesFacts DEF MemoriesInv
<1>7. PICK n : n = memory[m].refs + 1
  OBVIOUS
<1>8. n \in Nat /\ memory' = [memory EXCEPT ![m].refs = n]
  <2>1. memory[m].refs \in Nat
    BY <1>5, <1>6, MemoryRecord
  <2>2. memory' = [memory EXCEPT ![m].refs = n]
    BY <1>2, <1>7, Zenon
  <2>3. QED
    BY <2>1, <2>2, <1>7
<1>9. /\ MemoryInv' /\ SameLinks /\ Existing' = Existing /\ memory'[m].refs = n
      /\ memory'[m].size = memory[m].size
      /\ \A k \in MemoryIds \ {m} : memory'[k] = memory[k]
  BY <1>5, <1>6, <1>8, Referenced
<1>10. BlocksInv' /\ DOMAIN subs' = DOMAIN subs \cup {op.block}
  BY <1>2, SubAllocatedBlocks DEF PlacesOK
<1>11. usedPool' = usedPool /\ dedicated' = dedicated
  <2>1. usedPool' = [usedPool EXCEPT ![i] = m] /\ dedicated' = dedicated
    BY <1>1, <1>2 DEF SubAllocated
  <2>2. QED
    BY <2>1, <1>1, <1>4, <1>5 DEF UsedInv
<1>12. SamePools
  BY <1>2, <1>5, <1>9, SegmentsSamePools
<1>13. MemoriesInv' /\ Used' = Used
  <2>1. \A k \in MemoryIds \ Used : memory'[k] = memory[k]
    BY <1>6, <1>9
  <2>2. QED
    BY <2>1, <1>5, <1>9, <1>11, <1>12, SamePlaces
<1>14. RefsCountBlocks'
  <2>1. UsedInv' /\ usedPool'[i] = m /\ \A j \in UsedIndices \ {i} : usedPool'[j] = usedPool[j]
    BY <1>1, <1>11, <1>13 DEF MemoriesInv, PlacesInv
  <2>2. \A k \in Used \ {m} : memory'[k].refs = memory[k].refs
    BY <1>5, <1>9, PlacesFacts DEF MemoriesInv
  <2>3. memory[m].refs \in Nat /\ memory'[m].refs = memory[m].refs + 1
    BY <1>5, <1>6, <1>7, <1>9, MemoryRecord
  <2>4. IsFiniteSet(DOMAIN subs)
    BY BlocksFacts DEF PlacesOK
  <2>5. QED
    BY <2>1, <2>2, <2>3, <2>4, <1>1, <1>3, <1>4, <1>5, <1>6, <1>10, RefsAdded
<1>15. PlacesOK'
  BY <1>10, <1>13, <1>14 DEF PlacesOK
<1>16. SameSizes(memory, memory', MemoryIds)
  BY <1>9 DEF SameSizes
<1>17. StatInv'
  <2>1. \A S \in SUBSET MemoryIds : Bytes(memory', S) = Bytes(memory, S)
    <3> SUFFICES ASSUME NEW S \in SUBSET MemoryIds PROVE Bytes(memory', S) = Bytes(memory, S)
      OBVIOUS
    <3>1. SameSizes(memory, memory', S)
      BY <1>16 DEF SameSizes
    <3>2. QED
      BY <3>1, BytesSame
  <2>2. Pooled("sub")' = Pooled("sub") /\ Pooled("dedicated")' = Pooled("dedicated")
    BY <1>12, ChainFacts DEF SamePools
  <2>3. AddBlock(BlockCounts(Cardinality(DOMAIN subs), BlockBytes(DOMAIN subs)), 1, Size(op.block))
                = BlockCounts(Cardinality(DOMAIN subs \cup {op.block}), BlockBytes(DOMAIN subs \cup {op.block}))
    BY <1>3, BlockCountsAdd
  <2>4. StatsAre(stats',
      AddBlock(BlockCounts(Cardinality(DOMAIN subs), BlockBytes(DOMAIN subs)), 1, Size(op.block)),
      MemoryCounts(Cardinality(Used), Bytes(memory, Used), Bytes(memory, Pooled("sub"))),
      BlockCounts(Cardinality(DOMAIN dedicated), Bytes(memory, DOMAIN dedicated)),
      MemoryCounts(Cardinality(DOMAIN dedicated), Bytes(memory, DOMAIN dedicated),
                   Bytes(memory, Pooled("dedicated"))),
      MemoryCounts(Cardinality(Existing), Bytes(memory, Existing), 0))
    BY <1>2, UsedBlockStats DEF StatInv, StatsFor
  <2>5. QED
    BY <2>1, <2>2, <2>3, <2>4, <1>9, <1>10, <1>11, <1>13, StatInvNext, SetsFacts, ChainFacts DEF StatsFor
<1>18. QED
  BY <1>15, <1>17

(* What the sizes are after a pool gave memory.                            *)
LEMMA GotSizes ==
  ASSUME MemoriesInv, NEW chain \in Chains, NEW m, NEW created \in BOOLEAN, Got(chain, m, created),
         NEW size, size = memory'[m].size
  PROVE  /\ size \in Nat
         /\ \A S \in SUBSET Existing :
               /\ Bytes(memory', S) = Bytes(memory, S)
               /\ Bytes(memory, S) \in Nat /\ Cardinality(S) \in Nat
               /\ m \notin S => /\ Bytes(memory', S \cup {m}) = Bytes(memory, S) + size
                                /\ Cardinality(S \cup {m}) = Cardinality(S) + 1
         /\ ~created => Bytes(memory', Pooled(chain)') = Bytes(memory, Pooled(chain)) - size
         /\ created => Bytes(memory', Pooled(chain)') = Bytes(memory, Pooled(chain))
<1>1. /\ m \in MemoryIds /\ Existing \subseteq MemoryIds /\ Pooled(chain) \subseteq Existing
      /\ Sized(memory) /\ Sized(memory') /\ size \in Nat
  BY PlacesFacts, SizedMemory, SizedMemoryNext DEF Got, MemoriesInv, Sized
<1>2. SameSizes(memory, memory', Existing)
  BY <1>1 DEF Got, SameSizes
<1>3. ASSUME NEW S \in SUBSET Existing
      PROVE  /\ Bytes(memory', S) = Bytes(memory, S)
             /\ Bytes(memory, S) \in Nat /\ Cardinality(S) \in Nat
             /\ m \notin S => /\ Bytes(memory', S \cup {m}) = Bytes(memory, S) + size
                              /\ Cardinality(S \cup {m}) = Cardinality(S) + 1
  <2>1. S \in SUBSET MemoryIds /\ SameSizes(memory, memory', S)
    BY <1>1, <1>2 DEF SameSizes
  <2>2. Bytes(memory', S) = Bytes(memory, S)
    BY <2>1, BytesSame
  <2>3. Bytes(memory, S) \in Nat /\ Cardinality(S) \in Nat
    BY <2>1, <1>1, BytesFacts
  <2>4. \A k \in MemoryIds \ S : /\ Bytes(memory', S \cup {k}) = Bytes(memory', S) + memory'[k].size
                                 /\ Cardinality(S \cup {k}) = Cardinality(S) + 1
    BY <2>1, <1>1, BytesFacts
  <2>5. QED
    BY <2>2, <2>3, <2>4, <1>1
<1>4. Pooled(chain) \in SUBSET Existing /\ Pooled(chain)' = Pooled(chain) \ {m}
  BY <1>1 DEF Got
<1>5. Bytes(memory', Pooled(chain)) = Bytes(memory, Pooled(chain))
  BY <1>3, <1>4
<1>6. CASE created
  <2>1. Pooled(chain)' = Pooled(chain)
    BY <1>1, <1>4, <1>6 DEF Got
  <2>2. QED
    BY <1>1, <1>3, <1>5, <1>6, <2>1
<1>7. CASE ~created
  <2>1. m \in Pooled(chain)
    BY <1>7 DEF Got
  <2>2. Pooled(chain) \in SUBSET MemoryIds
    BY <1>1
  <2>3. \A k \in Pooled(chain) : Bytes(memory', Pooled(chain) \ {k}) = Bytes(memory', Pooled(chain)) - memory'[k].size
    BY <1>1, <2>2, BytesFacts
  <2>4. QED
    BY <1>1, <1>3, <1>4, <1>5, <1>7, <2>1, <2>3
<1>8. QED
  BY <1>6, <1>7

(* The pool's and the heap's statistics count it.                          *)
LEMMA GotCounts ==
  ASSUME MemoriesInv, NEW chain \in Chains, NEW m, NEW created \in BOOLEAN, Got(chain, m, created),
         NEW size, size = memory'[m].size, NEW S \in SUBSET Existing, m \notin S
  PROVE  /\ AddMemory(MemoryCounts(Cardinality(S), Bytes(memory, S), Bytes(memory, Pooled(chain))), 1, size,
                      IF created THEN 0 ELSE 0 - size)
              = MemoryCounts(Cardinality(S \cup {m}), Bytes(memory', S \cup {m}), Bytes(memory', Pooled(chain)'))
         /\ (IF created THEN AddMemory(MemoryCounts(Cardinality(Existing), Bytes(memory, Existing), 0), 1, size, 0)
             ELSE MemoryCounts(Cardinality(Existing), Bytes(memory, Existing), 0))
              = MemoryCounts(Cardinality(Existing'), Bytes(memory', Existing'), 0)
<1>1. PICK n, k, f, e, t, z : /\ n = Cardinality(S) /\ k = Bytes(memory, S) /\ f = Bytes(memory, Pooled(chain))
                           /\ e = Cardinality(Existing) /\ t = Bytes(memory, Existing) /\ z = size
  OBVIOUS
<1>2. Pooled(chain) \in SUBSET Existing
  BY PlacesFacts DEF MemoriesInv
<1>3. n \in Nat /\ k \in Nat /\ f \in Nat /\ e \in Nat /\ t \in Nat /\ size \in Nat
  BY <1>1, <1>2, GotSizes
<1>3a. n \in Int /\ k \in Int /\ f \in Int /\ e \in Int /\ t \in Int /\ 0 \in Int /\ z \in Int
  BY <1>1, <1>3
<1>4. Cardinality(S \cup {m}) = n + 1 /\ Bytes(memory', S \cup {m}) = k + size
  BY <1>1, GotSizes
<1>5. Bytes(memory', Pooled(chain)') = IF created THEN f ELSE f - size
  BY <1>1, GotSizes
<1>6. CASE created
  <2>1. AddMemory(MemoryCounts(n, k, f), 1, z, 0) = MemoryCounts(n + 1, k + z, f)
    BY <1>3a, MemoryCountsAdd
  <2>2. AddMemory(MemoryCounts(e, t, 0), 1, z, 0) = MemoryCounts(e + 1, t + z, 0)
    BY <1>3a, MemoryCountsAdd
  <2>3. Existing' = Existing \cup {m} /\ m \notin Existing
    BY <1>6 DEF Got
  <2>4. Cardinality(Existing \cup {m}) = e + 1 /\ Bytes(memory', Existing \cup {m}) = t + size
    BY <1>1, <2>3, GotSizes
  <2>5. QED
    BY <1>1, <1>4, <1>5, <1>6, <2>1, <2>2, <2>3, <2>4
<1>7. CASE ~created
  <2>1. AddMemory(MemoryCounts(n, k, f), 1, z, 0 - z) = MemoryCounts(n + 1, k + z, f - z)
    BY <1>3a, MemoryCountsAdd
  <2>2. Existing' = Existing
    BY <1>2, <1>7 DEF Got
  <2>3. Bytes(memory', Existing) = t
    BY <1>1, GotSizes
  <2>4. QED
    BY <1>1, <1>4, <1>5, <1>7, <2>1, <2>2, <2>3
<1>8. QED
  BY <1>6, <1>7

LEMMA GetMemoryInv ==
  ASSUME ChainInv, GetMemory
  PROVE  ChainInv'
<1> USE DEF ChainInv
<1>1. PICK r, i : r = MemoryRequest(op.request) /\ i = GetMemoryIndex(op.block)
  OBVIOUS
<1>2. op.pc = "memory" /\ usedPool[i] = NoMemory
  BY <1>1 DEF GetMemory
<1>3. PICK m \in MemoryIds, created \in BOOLEAN :
         /\ IF created THEN CreateMemory("sub", r, m, 1) ELSE AcquireFromPool("sub", r, m, 1)
         /\ stats' = UsedBlock(GotMemory("sub", stats, memory'[m].size, created), 1, op.block)
         /\ SubAllocated(m)
  BY <1>1 DEF GetMemory
<1>4. op.block \in Block /\ op.block \notin DOMAIN subs /\ op.request \in Requests /\ IsFiniteSet(DOMAIN subs)
  BY <1>2, BlocksFacts DEF PlacesOK
<1>5. i \in UsedIndices
  BY <1>1, <1>4, MemoryIndex
<1>6. UsedInv /\ MemoriesInv /\ RefsCountBlocks
  BY DEF PlacesOK, MemoriesInv, PlacesInv
<1>7. r.size \in Nat \ {0} /\ r.alignment \in Nat \ {0}
  BY <1>1, <1>4, MemoryRequestFacts
<1>8. Got("sub", m, created) /\ memory'[m].refs = 1
  <2>1. "sub" \in Chains /\ 1 \in Nat /\ r.size \in Nat
    BY <1>7, ChainFacts
  <2>2. CASE created
    <3>1. CreateMemory("sub", r, m, 1)
      BY <1>3, <2>2
    <3>2. Got("sub", m, TRUE) /\ memory'[m].refs = 1
      BY <3>1, <2>1, <1>6, <1>7, CreateGot
    <3>3. QED
      BY <2>2, <3>2
  <2>3. CASE ~created
    <3>1. AcquireFromPool("sub", r, m, 1)
      BY <1>3, <2>3
    <3>2. Got("sub", m, FALSE) /\ memory'[m].refs = 1
      BY <3>1, <2>1, <1>6, AcquireGot
    <3>3. QED
      BY <2>3, <3>2
  <2>4. QED
    BY <2>2, <2>3
<1>9. BlocksInv' /\ DOMAIN subs' = DOMAIN subs \cup {op.block}
  BY <1>2, <1>3, SubAllocatedBlocks DEF PlacesOK
<1>10. usedPool' = [usedPool EXCEPT ![i] = m] /\ dedicated' = dedicated
  BY <1>1, <1>3 DEF SubAllocated
<1>11. MemoriesInv' /\ Used' = Used \cup {m} /\ m \notin Used
  BY <1>2, <1>5, <1>6, <1>8, <1>10, GetMemoryPlaces
<1>12. RefsCountBlocks'
  <2>1. UsedInv' /\ usedPool'[i] = m /\ \A j \in UsedIndices \ {i} : usedPool'[j] = usedPool[j]
    BY <1>5, <1>6, <1>10, <1>11 DEF MemoriesInv, PlacesInv, UsedInv
  <2>2. \A k \in Used \ {m} : memory'[k].refs = memory[k].refs
    BY <1>6, <1>8, PlacesFacts DEF MemoriesInv, Got
  <2>3. usedPool[i] # m
    BY <1>2, ChainFacts
  <2>4. QED
    BY <2>1, <2>2, <2>3, <1>1, <1>2, <1>4, <1>5, <1>6, <1>8, <1>9, RefsAdded
<1>13. PlacesOK'
  BY <1>9, <1>11, <1>12 DEF PlacesOK
<1>14. StatInv'
  <2>1. PICK size : size = memory'[m].size
    OBVIOUS
  <2>2. StatsAre(stats,
          BlockCounts(Cardinality(DOMAIN subs), BlockBytes(DOMAIN subs)),
          MemoryCounts(Cardinality(Used), Bytes(memory, Used), Bytes(memory, Pooled("sub"))),
          BlockCounts(Cardinality(DOMAIN dedicated), Bytes(memory, DOMAIN dedicated)),
          MemoryCounts(Cardinality(DOMAIN dedicated), Bytes(memory, DOMAIN dedicated), Bytes(memory, Pooled("dedicated"))),
          MemoryCounts(Cardinality(Existing), Bytes(memory, Existing), 0))
    BY DEF StatInv, StatsFor
  <2>3. StatsAre(GotMemory("sub", stats, size, created),
          BlockCounts(Cardinality(DOMAIN subs), BlockBytes(DOMAIN subs)),
          AddMemory(MemoryCounts(Cardinality(Used), Bytes(memory, Used), Bytes(memory, Pooled("sub"))), 1, size,
                    IF created THEN 0 ELSE 0 - size),
          BlockCounts(Cardinality(DOMAIN dedicated), Bytes(memory, DOMAIN dedicated)),
          MemoryCounts(Cardinality(DOMAIN dedicated), Bytes(memory, DOMAIN dedicated), Bytes(memory, Pooled("dedicated"))),
          IF created THEN AddMemory(MemoryCounts(Cardinality(Existing), Bytes(memory, Existing), 0), 1, size, 0)
          ELSE MemoryCounts(Cardinality(Existing), Bytes(memory, Existing), 0))
    BY <2>2, GotMemoryStats
  <2>4. Used \in SUBSET Existing /\ DOMAIN dedicated \in SUBSET Existing /\ Pooled("dedicated") \in SUBSET Existing
    BY <1>6, PlacesFacts, ChainFacts DEF MemoriesInv
  <2>5. StatsAre(GotMemory("sub", stats, size, created),
          BlockCounts(Cardinality(DOMAIN subs), BlockBytes(DOMAIN subs)),
          MemoryCounts(Cardinality(Used'), Bytes(memory', Used'), Bytes(memory', Pooled("sub")')),
          BlockCounts(Cardinality(DOMAIN dedicated), Bytes(memory, DOMAIN dedicated)),
          MemoryCounts(Cardinality(DOMAIN dedicated), Bytes(memory, DOMAIN dedicated), Bytes(memory, Pooled("dedicated"))),
          MemoryCounts(Cardinality(Existing'), Bytes(memory', Existing'), 0))
    BY <2>1, <2>3, <2>4, <1>6, <1>8, <1>11, ChainFacts, GotCounts
  <2>6. StatsAre(stats',
          AddBlock(BlockCounts(Cardinality(DOMAIN subs), BlockBytes(DOMAIN subs)), 1, Size(op.block)),
          MemoryCounts(Cardinality(Used'), Bytes(memory', Used'), Bytes(memory', Pooled("sub")')),
          BlockCounts(Cardinality(DOMAIN dedicated), Bytes(memory, DOMAIN dedicated)),
          MemoryCounts(Cardinality(DOMAIN dedicated), Bytes(memory, DOMAIN dedicated), Bytes(memory, Pooled("dedicated"))),
          MemoryCounts(Cardinality(Existing'), Bytes(memory', Existing'), 0))
    BY <2>1, <2>5, <1>3, UsedBlockStats
  <2>7. Pooled("dedicated")' = Pooled("dedicated") /\ dedicated' = dedicated
    BY <1>8, <1>10, ChainFacts DEF Got
  <2>8. /\ Bytes(memory', DOMAIN dedicated) = Bytes(memory, DOMAIN dedicated)
        /\ Bytes(memory', Pooled("dedicated")) = Bytes(memory, Pooled("dedicated"))
    BY <2>1, <2>4, <1>6, <1>8, ChainFacts, GotSizes
  <2>9. AddBlock(BlockCounts(Cardinality(DOMAIN subs), BlockBytes(DOMAIN subs)), 1, Size(op.block))
          = BlockCounts(Cardinality(DOMAIN subs'), BlockBytes(DOMAIN subs'))
    BY <1>4, <1>9, BlockCountsAdd
  <2>10. QED
    BY <2>6, <2>7, <2>8, <2>9, StatInvNext DEF StatsFor
<1>15. QED
  BY <1>13, <1>14

(* Nothing that is counted changes.                                        *)
LEMMA StatsKept ==
  ASSUME PlacesOK, StatInv, stats' = stats, DOMAIN subs' = DOMAIN subs, DOMAIN dedicated' = DOMAIN dedicated,
         Used' = Used, Existing' = Existing, SamePools, SameSizes(memory, memory', MemoryIds)
  PROVE  StatInv'
<1>1. \A S \in SUBSET MemoryIds : Bytes(memory', S) = Bytes(memory, S)
  <2> SUFFICES ASSUME NEW S \in SUBSET MemoryIds PROVE Bytes(memory', S) = Bytes(memory, S)
    OBVIOUS
  <2>1. SameSizes(memory, memory', S)
    BY DEF SameSizes
  <2>2. QED
    BY <2>1, BytesSame
<1>2. Pooled("sub")' = Pooled("sub") /\ Pooled("dedicated")' = Pooled("dedicated")
  BY ChainFacts DEF SamePools
<1>3. QED
  BY <1>1, <1>2, StatInvNext, SetsFacts, ChainFacts DEF StatInv, StatsFor

LEMMA TrySubAllocateInv ==
  ASSUME ChainInv, NEW r \in Requests, TrySubAllocate(r)
  PROVE  ChainInv'
<1>1. PlacesOK' /\ Used' = Used /\ Existing' = Existing /\ SamePools
  BY TrySubAllocatePlaces DEF ChainInv
<1>2. UNCHANGED <<memory, subs, dedicated, stats>>
  BY DEF TrySubAllocate
<1>3. SameSizes(memory, memory', MemoryIds)
  BY <1>2 DEF SameSizes
<1>4. QED
  BY <1>1, <1>2, <1>3, StatsKept DEF ChainInv

LEMMA FailMemoryInv ==
  ASSUME ChainInv, FailMemory
  PROVE  ChainInv'
<1> USE DEF ChainInv
<1>1. PICK r : r = MemoryRequest(op.request)
  OBVIOUS
<1>2. /\ op.pc = "memory" /\ PoolFails("sub", r)
      /\ UNCHANGED <<usedPool, subs, dedicated, stats>>
  BY <1>1 DEF FailMemory
<1>3. op.request \in Requests
  BY <1>2, BlocksFacts DEF PlacesOK
<1>4. r.size \in Nat /\ "sub" \in Chains
  BY <1>1, <1>3, MemoryRequestFacts, ChainFacts
<1>5. SamePools /\ memory' = memory
  BY <1>2, <1>4, FailSamePools DEF PlacesOK
<1>6. SameLinks /\ Existing' = Existing /\ MemoryInv' /\ SameSizes(memory, memory', MemoryIds)
  BY <1>5 DEF SameLinks, Existing, PlacesOK, MemoriesInv, MemoryInv, SameSizes
<1>7. MemoriesInv' /\ Used' = Used
  BY <1>2, <1>5, <1>6, SamePlaces DEF PlacesOK
<1>8. RefsCountBlocks'
  BY <1>2, <1>5, RefsKept DEF PlacesOK, MemoriesInv, PlacesInv
<1>9. PlacesOK'
  BY <1>7, <1>8, FailMemoryBlocks DEF PlacesOK
<1>10. QED
  BY <1>2, <1>5, <1>6, <1>7, <1>9, StatsKept

(* Memory of S goes back to the pool of the chain.                         *)
LEMMA ReturnedCounts ==
  ASSUME MemoriesInv, NEW chain \in Chains, NEW S \in SUBSET Existing, NEW m \in S, m \notin Pooled(chain),
         SameSizes(memory, memory', MemoryIds), Pooled(chain)' = Pooled(chain) \cup {m}
  PROVE  /\ AddMemory(MemoryCounts(Cardinality(S), Bytes(memory, S), Bytes(memory, Pooled(chain))), -1,
                      memory[m].size, memory[m].size)
              = MemoryCounts(Cardinality(S \ {m}), Bytes(memory', S \ {m}), Bytes(memory', Pooled(chain)'))
         /\ \A T \in SUBSET MemoryIds : Bytes(memory', T) = Bytes(memory, T)
<1>1. PICK n, k, f, z : /\ n = Cardinality(S) /\ k = Bytes(memory, S) /\ f = Bytes(memory, Pooled(chain))
                        /\ z = memory[m].size
  OBVIOUS
<1>2. /\ Pooled(chain) \in SUBSET MemoryIds /\ S \in SUBSET MemoryIds /\ Sized(memory) /\ m \in MemoryIds
  BY PlacesFacts, SizedMemory DEF MemoriesInv
<1>3. n \in Int /\ k \in Int /\ f \in Int /\ z \in Int
  BY <1>1, <1>2, BytesFacts DEF Sized
<1>4. ASSUME NEW T \in SUBSET MemoryIds PROVE Bytes(memory', T) = Bytes(memory, T)
  <2>1. SameSizes(memory, memory', T)
    BY DEF SameSizes
  <2>2. QED
    BY <2>1, BytesSame
<1>5. Cardinality(S \ {m}) = n - 1 /\ Bytes(memory, S \ {m}) = k - z
  <2>1. \A x \in S : /\ Bytes(memory, S \ {x}) = Bytes(memory, S) - memory[x].size
                     /\ Cardinality(S \ {x}) = Cardinality(S) - 1
    BY <1>2, BytesFacts
  <2>2. QED
    BY <2>1, <1>1
<1>6. Bytes(memory, Pooled(chain) \cup {m}) = f + z
  <2>1. \A x \in MemoryIds \ Pooled(chain) :
           Bytes(memory, Pooled(chain) \cup {x}) = Bytes(memory, Pooled(chain)) + memory[x].size
    BY <1>2, BytesFacts
  <2>2. QED
    BY <2>1, <1>1, <1>2
<1>7. AddMemory(MemoryCounts(n, k, f), -1, z, z) = MemoryCounts(n - 1, k - z, f + z)
  BY <1>3, MemoryCountsAdd
<1>8. /\ Bytes(memory', S \ {m}) = k - z /\ Bytes(memory', Pooled(chain)') = f + z
  BY <1>2, <1>4, <1>5, <1>6
<1>9. QED
  BY <1>1, <1>4, <1>5, <1>7, <1>8

(* The first facts of a DeallocateSub of block, below which is memory m.   *)
LEMMA BlocksMemory ==
  ASSUME PlacesOK, NEW block \in DOMAIN subs, NEW i, i = GetMemoryIndex(block), NEW m, m = usedPool[i]
  PROVE  /\ i \in UsedIndices /\ block \in Block /\ m \in MemoryIds /\ m \in Used /\ m \in Existing
         /\ memory[m].refs \in Nat /\ memory[m].refs > 0
<1>1. block \in Block /\ IsFiniteSet(DOMAIN subs)
  BY BlocksFacts DEF PlacesOK
<1>2. i \in UsedIndices
  BY <1>1, MemoryIndex
<1>3. RefsAt(i)
  BY <1>2, RefsIs DEF PlacesOK, MemoriesInv, PlacesInv
<1>4. block \in BlocksAt(i) /\ IsFiniteSet(BlocksAt(i))
  BY <1>1, FS_Subset DEF BlocksAt
<1>5. Cardinality(BlocksAt(i)) \in Nat /\ Cardinality(BlocksAt(i)) # 0
  BY <1>4, FS_CardinalityType, FS_EmptySet
<1>6. m # NoMemory /\ memory[m].refs = Cardinality(BlocksAt(i))
  BY <1>3, <1>4 DEF RefsAt
<1>7. m \in MemoryIds /\ m \in Used
  BY <1>2, <1>6, UsedFacts DEF PlacesOK, MemoriesInv, PlacesInv
<1>8. m \in Existing
  BY <1>7, PlacesFacts DEF PlacesOK, MemoriesInv
<1>9. QED
  BY <1>1, <1>2, <1>5, <1>6, <1>7, <1>8

LEMMA DeallocateSubInv ==
  ASSUME ChainInv, NEW block \in DOMAIN subs, DeallocateSub(block)
  PROVE  ChainInv'
<1> USE DEF ChainInv
<1>1. PICK i, m : i = GetMemoryIndex(block) /\ m = usedPool[i]
  OBVIOUS
<1>2. /\ i \in UsedIndices /\ block \in Block /\ m \in MemoryIds /\ m \in Used /\ m \in Existing
      /\ memory[m].refs \in Nat /\ memory[m].refs > 0
  BY <1>1, BlocksMemory
<1>3. PICK n : n = memory[m].refs - 1
  OBVIOUS
<1>4. n \in Nat /\ memory' = [memory EXCEPT ![m].refs = n] /\ dedicated' = dedicated
  <2>1. n \in Nat
    BY <1>2, <1>3
  <2>2. memory' = [memory EXCEPT ![m].refs = @ - 1] /\ dedicated' = dedicated
    BY <1>1 DEF DeallocateSub
  <2>3. memory' = [memory EXCEPT ![m].refs = n]
    BY <2>2, <1>3, Zenon
  <2>4. QED
    BY <2>1, <2>2, <2>3
<1>5. MemoriesInv /\ MemoryInv /\ ListsInv /\ UsedInv /\ RefsCountBlocks /\ BlocksInv
  BY DEF PlacesOK, MemoriesInv, PlacesInv
<1>6. /\ MemoryInv' /\ SameLinks /\ Existing' = Existing /\ memory'[m].refs = n
      /\ memory'[m].size = memory[m].size
      /\ \A k \in MemoryIds \ {m} : memory'[k] = memory[k]
  BY <1>2, <1>4, <1>5, Referenced
<1>7. SameSizes(memory, memory', MemoryIds)
  BY <1>6 DEF SameSizes
<1>8. BlocksInv' /\ DOMAIN subs' = DOMAIN subs \ {block} /\ IsFiniteSet(DOMAIN subs)
  BY <1>5, DeallocateSubBlocks, BlocksFacts
<1>9. AddBlock(BlockCounts(Cardinality(DOMAIN subs), BlockBytes(DOMAIN subs)), -1, Size(block))
          = BlockCounts(Cardinality(DOMAIN subs'), BlockBytes(DOMAIN subs'))
  BY <1>2, <1>8, BlockCountsAdd
<1>10. \A k \in Used \ {m} : memory'[k].refs = memory[k].refs
  BY <1>5, <1>6, PlacesFacts DEF MemoriesInv
<1>11. StatsAre(stats,
          BlockCounts(Cardinality(DOMAIN subs), BlockBytes(DOMAIN subs)),
          MemoryCounts(Cardinality(Used), Bytes(memory, Used), Bytes(memory, Pooled("sub"))),
          BlockCounts(Cardinality(DOMAIN dedicated), Bytes(memory, DOMAIN dedicated)),
          MemoryCounts(Cardinality(DOMAIN dedicated), Bytes(memory, DOMAIN dedicated), Bytes(memory, Pooled("dedicated"))),
          MemoryCounts(Cardinality(Existing), Bytes(memory, Existing), 0))
  BY DEF StatInv, StatsFor
<1>12. CASE IsLastRef(m)
  <2>1. /\ usedPool' = [usedPool EXCEPT ![i] = NoMemory]
        /\ segments' = ReturnToPool("sub", m)
        /\ stats' = UsedBlock(PoolTakesBack("sub", stats, m), -1, block)
    BY <1>1, <1>12 DEF DeallocateSub, Invalidated
  <2>2. memory' = [memory EXCEPT ![m].refs = 0] /\ memory[m].refs = 1
    BY <1>2, <1>3, <1>4, <1>12 DEF IsLastRef
  <2>3. /\ MemoriesInv' /\ Used' = Used \ {m}
        /\ Pooled("sub")' = Pooled("sub") \cup {m} /\ Pooled("dedicated")' = Pooled("dedicated")
    BY <2>1, <2>2, <1>1, <1>2, <1>4, <1>5, ReturnSubPlaces
  <2>4. RefsCountBlocks'
    <3>1. UsedInv' /\ usedPool'[i] = NoMemory /\ \A j \in UsedIndices \ {i} : usedPool'[j] = usedPool[j]
      BY <1>2, <1>5, <2>1, <2>3 DEF MemoriesInv, PlacesInv, UsedInv
    <3>2. memory'[m].refs = memory[m].refs - 1 /\ usedPool'[i] = IF memory[m].refs = 1 THEN NoMemory ELSE m
      BY <1>3, <1>6, <2>2, <3>1
    <3>3. QED
      BY <3>1, <3>2, <1>1, <1>2, <1>5, <1>8, <1>10, RefsRemoved
  <2>5. m \notin Pooled("sub") /\ Used \in SUBSET Existing /\ "sub" \in Chains
    BY <1>2, <1>5, PlacesFacts, ChainFacts DEF MemoriesInv
  <2>6. /\ AddMemory(MemoryCounts(Cardinality(Used), Bytes(memory, Used), Bytes(memory, Pooled("sub"))), -1,
                     memory[m].size, memory[m].size)
             = MemoryCounts(Cardinality(Used'), Bytes(memory', Used'), Bytes(memory', Pooled("sub")'))
        /\ \A T \in SUBSET MemoryIds : Bytes(memory', T) = Bytes(memory, T)
    BY <2>3, <2>5, <1>2, <1>5, <1>7, ReturnedCounts
  <2>7. StatsAre(PoolTakesBack("sub", stats, m),
          BlockCounts(Cardinality(DOMAIN subs), BlockBytes(DOMAIN subs)),
          MemoryCounts(Cardinality(Used'), Bytes(memory', Used'), Bytes(memory', Pooled("sub")')),
          BlockCounts(Cardinality(DOMAIN dedicated), Bytes(memory, DOMAIN dedicated)),
          MemoryCounts(Cardinality(DOMAIN dedicated), Bytes(memory, DOMAIN dedicated), Bytes(memory, Pooled("dedicated"))),
          MemoryCounts(Cardinality(Existing), Bytes(memory, Existing), 0))
    BY <2>6, <1>11, TakenBackStats
  <2>8. StatsAre(stats',
          AddBlock(BlockCounts(Cardinality(DOMAIN subs), BlockBytes(DOMAIN subs)), -1, Size(block)),
          MemoryCounts(Cardinality(Used'), Bytes(memory', Used'), Bytes(memory', Pooled("sub")')),
          BlockCounts(Cardinality(DOMAIN dedicated), Bytes(memory, DOMAIN dedicated)),
          MemoryCounts(Cardinality(DOMAIN dedicated), Bytes(memory, DOMAIN dedicated), Bytes(memory, Pooled("dedicated"))),
          MemoryCounts(Cardinality(Existing), Bytes(memory, Existing), 0))
    BY <2>1, <2>7, UsedBlockStats
  <2>9. StatInv'
    BY <2>3, <2>6, <2>8, <1>4, <1>6, <1>9, StatInvNext, SetsFacts, ChainFacts DEF StatsFor
  <2>10. QED
    BY <2>3, <2>4, <2>9, <1>8 DEF PlacesOK
<1>13. CASE ~IsLastRef(m)
  <2>1. stats' = UsedBlock(stats, -1, block) /\ UNCHANGED <<usedPool, segments>>
    BY <1>1, <1>13 DEF DeallocateSub
  <2>2. SamePools
    BY <2>1, <1>5, <1>6, SegmentsSamePools
  <2>3. MemoriesInv' /\ Used' = Used
    <3>1. \A k \in MemoryIds \ Used : memory'[k] = memory[k]
      BY <1>2, <1>6
    <3>2. QED
      BY <3>1, <2>1, <2>2, <1>4, <1>5, <1>6, SamePlaces
  <2>4. RefsCountBlocks'
    <3>1. UsedInv' /\ usedPool'[i] = m /\ \A j \in UsedIndices \ {i} : usedPool'[j] = usedPool[j]
      BY <1>1, <2>1, <2>3 DEF MemoriesInv, PlacesInv
    <3>2. memory'[m].refs = memory[m].refs - 1 /\ usedPool'[i] = IF memory[m].refs = 1 THEN NoMemory ELSE m
      BY <1>3, <1>6, <1>13, <3>1 DEF IsLastRef
    <3>3. QED
      BY <3>1, <3>2, <1>1, <1>2, <1>5, <1>8, <1>10, RefsRemoved
  <2>5. StatsAre(stats',
          AddBlock(BlockCounts(Cardinality(DOMAIN subs), BlockBytes(DOMAIN subs)), -1, Size(block)),
          MemoryCounts(Cardinality(Used), Bytes(memory, Used), Bytes(memory, Pooled("sub"))),
          BlockCounts(Cardinality(DOMAIN dedicated), Bytes(memory, DOMAIN dedicated)),
          MemoryCounts(Cardinality(DOMAIN dedicated), Bytes(memory, DOMAIN dedicated), Bytes(memory, Pooled("dedicated"))),
          MemoryCounts(Cardinality(Existing), Bytes(memory, Existing), 0))
    BY <2>1, <1>11, UsedBlockStats
  <2>6. \A S \in SUBSET MemoryIds : Bytes(memory', S) = Bytes(memory, S)
    <3> SUFFICES ASSUME NEW S \in SUBSET MemoryIds PROVE Bytes(memory', S) = Bytes(memory, S)
      OBVIOUS
    <3>1. SameSizes(memory, memory', S)
      BY <1>7 DEF SameSizes
    <3>2. QED
      BY <3>1, BytesSame
  <2>7. Pooled("sub")' = Pooled("sub") /\ Pooled("dedicated")' = Pooled("dedicated")
    BY <2>2, ChainFacts DEF SamePools
  <2>8. StatInv'
    BY <2>3, <2>5, <2>6, <2>7, <1>4, <1>6, <1>9, StatInvNext, SetsFacts, ChainFacts DEF StatsFor
  <2>9. QED
    BY <2>3, <2>4, <2>8, <1>8 DEF PlacesOK
<1>14. QED
  BY <1>12, <1>13

LEMMA DedicatedCountsAdd ==
  ASSUME NEW n \in Int, NEW k \in Int, NEW size \in Int
  PROVE  /\ AddBlock(BlockCounts(n, k), 1, size) = BlockCounts(n + 1, k + size)
         /\ AddBlock(BlockCounts(n, k), -1, size) = BlockCounts(n - 1, k - size)
<1>1. AddBlock(Counts(n, k, 0, 0, 0), 1, size) = Counts(n + 1, k + 1 * size, 0, 0, 0)
  BY BlockAdded
<1>2. -1 \in Int /\ AddBlock(Counts(n, k, 0, 0, 0), -1, size) = Counts(n + -1, k + -1 * size, 0, 0, 0)
  BY BlockAdded
<1>3. k + 1 * size = k + size /\ k + -1 * size = k - size /\ n + -1 = n - 1
  OBVIOUS
<1>4. QED
  BY <1>1, <1>2, <1>3 DEF BlockCounts

LEMMA AllocateDedicatedInv ==
  ASSUME ChainInv, NEW r \in Requests, AllocateDedicated(r)
  PROVE  ChainInv'
<1> USE DEF ChainInv
<1>1. PICK m \in MemoryIds, created \in BOOLEAN :
         /\ IF created THEN CreateMemory("dedicated", r, m, 0) ELSE AcquireFromPool("dedicated", r, m, 0)
         /\ stats' = [GotMemory("dedicated", stats, memory'[m].size, created)
                        EXCEPT !["dedicated"] = AddBlock(@, 1, memory'[m].size)]
         /\ dedicated' = With(dedicated, m, r.size)
  BY DEF AllocateDedicated
<1>2. UNCHANGED <<state, freeLists, usedPool, subs, op>>
  BY DEF AllocateDedicated
<1>3. MemoriesInv /\ UsedInv /\ RefsCountBlocks /\ BlocksInv
  BY DEF PlacesOK, MemoriesInv, PlacesInv
<1>4. /\ "dedicated" \in Chains /\ 0 \in Nat /\ r.size \in Nat /\ r.size \in Nat \ {0} /\ r.alignment \in Nat \ {0}
  BY ChainFacts
<1>5. Got("dedicated", m, created) /\ memory'[m].refs = 0
  <2>1. CASE created
    <3>1. CreateMemory("dedicated", r, m, 0)
      BY <1>1, <2>1
    <3>2. Got("dedicated", m, TRUE) /\ memory'[m].refs = 0
      BY <3>1, <1>3, <1>4, CreateGot
    <3>3. QED
      BY <2>1, <3>2
  <2>2. CASE ~created
    <3>1. AcquireFromPool("dedicated", r, m, 0)
      BY <1>1, <2>2
    <3>2. Got("dedicated", m, FALSE) /\ memory'[m].refs = 0
      BY <3>1, <1>3, <1>4, AcquireGot
    <3>3. QED
      BY <2>2, <3>2
  <2>3. QED
    BY <2>1, <2>2
<1>6. DOMAIN dedicated' = DOMAIN dedicated \cup {m}
  BY <1>1 DEF With
<1>7. MemoriesInv' /\ Used' = Used /\ m \notin DOMAIN dedicated /\ m \notin Used
  BY <1>2, <1>3, <1>5, <1>6, GetDedicatedPlaces
<1>8. BlocksInv'
  BY <1>2, <1>3, BlocksKept
<1>9. RefsCountBlocks'
  <2>1. \A k \in Used : memory'[k].refs = memory[k].refs
    BY <1>3, <1>5, <1>7, PlacesFacts DEF MemoriesInv, Got
  <2>2. QED
    BY <2>1, <1>2, <1>3, RefsKept
<1>10. PlacesOK'
  BY <1>7, <1>8, <1>9 DEF PlacesOK
<1>11. StatInv'
  <2>1. PICK size : size = memory'[m].size
    OBVIOUS
  <2>2. Used \in SUBSET Existing /\ DOMAIN dedicated \in SUBSET Existing /\ Pooled("sub") \in SUBSET Existing
    BY <1>3, PlacesFacts, ChainFacts DEF MemoriesInv
  <2>3. StatsAre(GotMemory("dedicated", stats, size, created),
          BlockCounts(Cardinality(DOMAIN subs), BlockBytes(DOMAIN subs)),
          MemoryCounts(Cardinality(Used), Bytes(memory, Used), Bytes(memory, Pooled("sub"))),
          BlockCounts(Cardinality(DOMAIN dedicated), Bytes(memory, DOMAIN dedicated)),
          AddMemory(MemoryCounts(Cardinality(DOMAIN dedicated), Bytes(memory, DOMAIN dedicated), Bytes(memory, Pooled("dedicated"))),
                    1, size, IF created THEN 0 ELSE 0 - size),
          IF created THEN AddMemory(MemoryCounts(Cardinality(Existing), Bytes(memory, Existing), 0), 1, size, 0)
          ELSE MemoryCounts(Cardinality(Existing), Bytes(memory, Existing), 0))
    BY GotMemoryStats DEF StatInv, StatsFor
  <2>4. StatsAre(GotMemory("dedicated", stats, size, created),
          BlockCounts(Cardinality(DOMAIN subs), BlockBytes(DOMAIN subs)),
          MemoryCounts(Cardinality(Used), Bytes(memory, Used), Bytes(memory, Pooled("sub"))),
          BlockCounts(Cardinality(DOMAIN dedicated), Bytes(memory, DOMAIN dedicated)),
          MemoryCounts(Cardinality(DOMAIN dedicated'), Bytes(memory', DOMAIN dedicated'), Bytes(memory', Pooled("dedicated")')),
          MemoryCounts(Cardinality(Existing'), Bytes(memory', Existing'), 0))
    BY <2>1, <2>2, <2>3, <1>3, <1>4, <1>5, <1>6, <1>7, GotCounts
  <2>5. StatsAre(stats',
          BlockCounts(Cardinality(DOMAIN subs), BlockBytes(DOMAIN subs)),
          MemoryCounts(Cardinality(Used), Bytes(memory, Used), Bytes(memory, Pooled("sub"))),
          AddBlock(BlockCounts(Cardinality(DOMAIN dedicated), Bytes(memory, DOMAIN dedicated)), 1, size),
          MemoryCounts(Cardinality(DOMAIN dedicated'), Bytes(memory', DOMAIN dedicated'), Bytes(memory', Pooled("dedicated")')),
          MemoryCounts(Cardinality(Existing'), Bytes(memory', Existing'), 0))
    BY <2>1, <2>4, <1>1, DedicatedBlockStats
  <2>6. AddBlock(BlockCounts(Cardinality(DOMAIN dedicated), Bytes(memory, DOMAIN dedicated)), 1, size)
          = BlockCounts(Cardinality(DOMAIN dedicated'), Bytes(memory', DOMAIN dedicated'))
    <3>1. /\ Bytes(memory, DOMAIN dedicated) \in Nat /\ Cardinality(DOMAIN dedicated) \in Nat
          /\ Bytes(memory', DOMAIN dedicated \cup {m}) = Bytes(memory, DOMAIN dedicated) + size
          /\ Cardinality(DOMAIN dedicated \cup {m}) = Cardinality(DOMAIN dedicated) + 1 /\ size \in Nat
      BY <2>1, <2>2, <1>3, <1>4, <1>5, <1>7, GotSizes
    <3>2. PICK n, k, z : n = Cardinality(DOMAIN dedicated) /\ k = Bytes(memory, DOMAIN dedicated) /\ z = size
      OBVIOUS
    <3>3. n \in Int /\ k \in Int /\ z \in Int
      BY <3>1, <3>2
    <3>4. AddBlock(BlockCounts(n, k), 1, z) = BlockCounts(n + 1, k + z)
      BY <3>3, DedicatedCountsAdd
    <3>5. QED
      BY <3>1, <3>2, <3>4, <1>6
  <2>7. Pooled("sub")' = Pooled("sub") /\ subs' = subs
    BY <1>2, <1>5, ChainFacts DEF Got
  <2>8. Bytes(memory', Used) = Bytes(memory, Used) /\ Bytes(memory', Pooled("sub")) = Bytes(memory, Pooled("sub"))
    BY <2>1, <2>2, <1>3, <1>4, <1>5, GotSizes
  <2>9. QED
    BY <2>5, <2>6, <2>7, <2>8, <1>7, StatInvNext DEF StatsFor
<1>12. QED
  BY <1>10, <1>11

LEMMA FailDedicatedInv ==
  ASSUME ChainInv, NEW r \in Requests, FailDedicated(r)
  PROVE  ChainInv'
<1> USE DEF ChainInv
<1>1. PoolFails("dedicated", r) /\ UNCHANGED <<state, freeLists, usedPool, subs, dedicated, stats, op>>
  BY DEF FailDedicated
<1>2. r.size \in Nat /\ "dedicated" \in Chains
  BY ChainFacts
<1>3. SamePools /\ memory' = memory
  BY <1>1, <1>2, FailSamePools DEF PlacesOK
<1>4. SameLinks /\ Existing' = Existing /\ MemoryInv' /\ SameSizes(memory, memory', MemoryIds)
  BY <1>3 DEF SameLinks, Existing, PlacesOK, MemoriesInv, MemoryInv, SameSizes
<1>5. MemoriesInv' /\ Used' = Used
  BY <1>1, <1>3, <1>4, SamePlaces DEF PlacesOK
<1>6. RefsCountBlocks'
  BY <1>1, <1>3, RefsKept DEF PlacesOK, MemoriesInv, PlacesInv
<1>7. PlacesOK'
  BY <1>1, <1>5, <1>6, BlocksKept DEF PlacesOK
<1>8. QED
  BY <1>1, <1>3, <1>4, <1>5, <1>7, StatsKept

LEMMA DeallocateDedicatedInv ==
  ASSUME ChainInv, NEW m \in DOMAIN dedicated, DeallocateDedicated(m)
  PROVE  ChainInv'
<1> USE DEF ChainInv
<1>1. /\ segments' = ReturnToPool("dedicated", m)
      /\ stats' = [PoolTakesBack("dedicated", stats, m) EXCEPT !["dedicated"] = AddBlock(@, -1, memory[m].size)]
      /\ UNCHANGED <<state, freeLists, usedPool, memory, subs, op>>
  BY DEF DeallocateDedicated
<1>2. DOMAIN dedicated' = DOMAIN dedicated \ {m}
  BY DEF DeallocateDedicated, Without
<1>3. MemoriesInv /\ UsedInv /\ RefsCountBlocks /\ BlocksInv
  BY DEF PlacesOK, MemoriesInv, PlacesInv
<1>4. /\ MemoriesInv' /\ Used' = Used /\ Existing' = Existing
      /\ Pooled("dedicated")' = Pooled("dedicated") \cup {m} /\ Pooled("sub")' = Pooled("sub")
  BY <1>1, <1>2, <1>3, ReturnDedicatedPlaces
<1>5. PlacesOK'
  BY <1>1, <1>3, <1>4, BlocksKept, RefsKept DEF PlacesOK
<1>6. /\ m \notin Pooled("dedicated") /\ DOMAIN dedicated \in SUBSET Existing /\ "dedicated" \in Chains
      /\ m \in MemoryIds
  BY <1>3, PlacesFacts, ChainFacts DEF MemoriesInv
<1>7. SameSizes(memory, memory', MemoryIds)
  BY <1>1 DEF SameSizes
<1>8. PICK size : size = memory[m].size
  OBVIOUS
<1>9. AddMemory(MemoryCounts(Cardinality(DOMAIN dedicated), Bytes(memory, DOMAIN dedicated), Bytes(memory, Pooled("dedicated"))),
                -1, size, size)
        = MemoryCounts(Cardinality(DOMAIN dedicated'), Bytes(memory', DOMAIN dedicated'), Bytes(memory', Pooled("dedicated")'))
  BY <1>2, <1>3, <1>4, <1>6, <1>7, <1>8, ReturnedCounts
<1>10. StatsAre(PoolTakesBack("dedicated", stats, m),
          BlockCounts(Cardinality(DOMAIN subs), BlockBytes(DOMAIN subs)),
          MemoryCounts(Cardinality(Used), Bytes(memory, Used), Bytes(memory, Pooled("sub"))),
          BlockCounts(Cardinality(DOMAIN dedicated), Bytes(memory, DOMAIN dedicated)),
          AddMemory(MemoryCounts(Cardinality(DOMAIN dedicated), Bytes(memory, DOMAIN dedicated), Bytes(memory, Pooled("dedicated"))),
                    -1, size, size),
          MemoryCounts(Cardinality(Existing), Bytes(memory, Existing), 0))
  BY <1>8, TakenBackStats DEF StatInv, StatsFor
<1>11. StatsAre(stats',
          BlockCounts(Cardinality(DOMAIN subs), BlockBytes(DOMAIN subs)),
          MemoryCounts(Cardinality(Used), Bytes(memory, Used), Bytes(memory, Pooled("sub"))),
          AddBlock(BlockCounts(Cardinality(DOMAIN dedicated), Bytes(memory, DOMAIN dedicated)), -1, size),
          MemoryCounts(Cardinality(DOMAIN dedicated'), Bytes(memory', DOMAIN dedicated'), Bytes(memory', Pooled("dedicated")')),
          MemoryCounts(Cardinality(Existing), Bytes(memory, Existing), 0))
  BY <1>1, <1>8, <1>9, <1>10, DedicatedBlockStats
<1>12. AddBlock(BlockCounts(Cardinality(DOMAIN dedicated), Bytes(memory, DOMAIN dedicated)), -1, size)
        = BlockCounts(Cardinality(DOMAIN dedicated'), Bytes(memory, DOMAIN dedicated'))
  <2>1. Sized(memory) /\ DOMAIN dedicated \in SUBSET MemoryIds
    BY SetsFacts
  <2>2. /\ Bytes(memory, DOMAIN dedicated) \in Nat /\ Cardinality(DOMAIN dedicated) \in Nat
        /\ \A x \in DOMAIN dedicated :
              /\ Bytes(memory, DOMAIN dedicated \ {x}) = Bytes(memory, DOMAIN dedicated) - memory[x].size
              /\ Cardinality(DOMAIN dedicated \ {x}) = Cardinality(DOMAIN dedicated) - 1
    BY <2>1, BytesFacts
  <2>3. PICK n, k, z : n = Cardinality(DOMAIN dedicated) /\ k = Bytes(memory, DOMAIN dedicated) /\ z = size
    OBVIOUS
  <2>4. n \in Int /\ k \in Int /\ z \in Int
    BY <2>1, <2>2, <2>3, <1>6, <1>8 DEF Sized
  <2>5. AddBlock(BlockCounts(n, k), -1, z) = BlockCounts(n - 1, k - z)
    BY <2>4, DedicatedCountsAdd
  <2>6. QED
    BY <2>2, <2>3, <2>5, <1>2, <1>8
<1>13. StatInv'
  BY <1>1, <1>4, <1>11, <1>12, StatInvNext DEF StatsFor
<1>14. QED
  BY <1>5, <1>13

LEMMA MemoryCountsReleased ==
  ASSUME NEW n \in Int, NEW k \in Int, NEW f \in Int, NEW z \in Int
  PROVE  AddMemory(MemoryCounts(n, k, f), 0, 0, 0 - z) = MemoryCounts(n, k, f - z)
<1>1. AddMemory(Counts(0, 0, n, k, f), 0, 0, 0 - z) = Counts(0, 0, n + 0, k + 0 * 0, f + (0 - z))
  <2>1. 0 - z \in Int /\ 0 \in Int
    OBVIOUS
  <2>2. QED
    BY <2>1, MemoryAdded
<1>2. f + (0 - z) = f - z /\ n + 0 = n /\ k + 0 * 0 = k
  OBVIOUS
<1>3. QED
  BY <1>1, <1>2 DEF MemoryCounts

LEMMA ReleaseMemoryInv ==
  ASSUME ChainInv, NEW chain \in Chains, NEW bytes, ReleaseMemory(chain, bytes)
  PROVE  ChainInv'
<1> USE DEF ChainInv
<1>1. UNCHANGED <<state, freeLists, usedPool, subs, dedicated, op>>
  BY DEF ReleaseMemory
<1>2. MemoriesInv /\ UsedInv /\ RefsCountBlocks /\ BlocksInv
  BY DEF PlacesOK, MemoriesInv, PlacesInv
<1>3. PICK freed : Freed(chain, freed) /\ stats' = ReleasedStats(chain, freed)
  BY <1>2, ReleaseFrees
<1>4. MemoriesInv' /\ Used' = Used /\ \A m \in Used \cup DOMAIN dedicated : memory'[m] = memory[m]
  BY <1>1, <1>2, <1>3, FreedPlaces
<1>5. PlacesOK'
  BY <1>1, <1>2, <1>4, BlocksKept, RefsKept DEF PlacesOK
<1>6. /\ Sized(memory) /\ Existing \in SUBSET MemoryIds /\ freed \in SUBSET Existing /\ freed \in SUBSET MemoryIds
      /\ freed \in SUBSET Pooled(chain) /\ Pooled(chain) \in SUBSET MemoryIds
      /\ \A k \in MemoryIds \ freed : memory'[k] = memory[k]
      /\ \A c \in Chains : Pooled(c) \subseteq Existing \ (Used \cup DOMAIN dedicated)
      /\ Used \subseteq MemoryIds /\ DOMAIN dedicated \subseteq MemoryIds
  BY <1>2, <1>3, PlacesFacts, SetsFacts DEF Freed, MemoriesInv
<1>7. ASSUME NEW S \in SUBSET MemoryIds, S \cap freed = {} PROVE Bytes(memory', S) = Bytes(memory, S)
  <2>1. SameSizes(memory, memory', S)
    BY <1>6, <1>7 DEF SameSizes
  <2>2. QED
    BY <2>1, BytesSame
<1>8. PICK n, k, f, e, t, z, c : /\ n = Cardinality(IF chain = "sub" THEN Used ELSE DOMAIN dedicated)
                                 /\ k = Bytes(memory, IF chain = "sub" THEN Used ELSE DOMAIN dedicated)
                                 /\ f = Bytes(memory, Pooled(chain))
                                 /\ e = Cardinality(Existing) /\ t = Bytes(memory, Existing)
                                 /\ z = Bytes(memory, freed) /\ c = Cardinality(freed)
  OBVIOUS
<1>9. n \in Int /\ k \in Int /\ f \in Int /\ z \in Int
  BY <1>6, <1>8, BytesFacts
<1>10. SizeOf(freed) = z
  BY <1>6, <1>8, SizeOfIs
<1>11. AddMemory(MemoryCounts(n, k, f), 0, 0, 0 - z) = MemoryCounts(n, k, f - z)
  BY <1>9, MemoryCountsReleased
<1>12. HeapReleases(MemoryCounts(e, t, 0), freed) = MemoryCounts(e - c, t - z, 0)
  <2>1. HeapReleases(Counts(0, 0, e, t, 0), freed) = Counts(0, 0, e - Cardinality(freed), t - SizeOf(freed), 0)
    BY HeapReleased
  <2>2. QED
    BY <2>1, <1>8, <1>10 DEF MemoryCounts
<1>13. Bytes(memory', Pooled(chain)') = f - z
  <2>1. Pooled(chain)' = Pooled(chain) \ freed
    BY <1>3 DEF Freed
  <2>2. Bytes(memory, Pooled(chain) \ freed) = f - z
    BY <1>6, <1>8, BytesMinus
  <2>3. QED
    BY <2>1, <2>2, <1>6, <1>7
<1>14. Bytes(memory', Existing') = t - z /\ Cardinality(Existing') = e - c
  <2>1. Existing' = Existing \ freed
    BY <1>3 DEF Freed
  <2>2. Bytes(memory, Existing \ freed) = t - z /\ Cardinality(Existing \ freed) = e - c
    BY <1>6, <1>8, BytesMinus
  <2>3. QED
    BY <2>1, <2>2, <1>6, <1>7
<1>15. Bytes(memory', Used) = Bytes(memory, Used) /\ Bytes(memory', DOMAIN dedicated) = Bytes(memory, DOMAIN dedicated)
  BY <1>6, <1>7
<1>16. CASE chain = "sub"
  <2>1. StatsAre(stats',
          BlockCounts(Cardinality(DOMAIN subs), BlockBytes(DOMAIN subs)),
          AddMemory(MemoryCounts(n, k, f), 0, 0, 0 - SizeOf(freed)),
          BlockCounts(Cardinality(DOMAIN dedicated), Bytes(memory, DOMAIN dedicated)),
          MemoryCounts(Cardinality(DOMAIN dedicated), Bytes(memory, DOMAIN dedicated), Bytes(memory, Pooled("dedicated"))),
          HeapReleases(MemoryCounts(e, t, 0), freed))
    BY <1>3, <1>8, <1>16, ReleasedStatsAre DEF StatInv, StatsFor
  <2>2. Pooled("dedicated")' = Pooled("dedicated") /\ Bytes(memory', Pooled("dedicated")) = Bytes(memory, Pooled("dedicated"))
    <3>1. Pooled("dedicated") \in SUBSET MemoryIds /\ Pooled("dedicated") \cap freed = {}
      BY <1>2, <1>6, <1>16, PlacesFacts, ChainFacts DEF MemoriesInv
    <3>2. QED
      BY <3>1, <1>3, <1>7, <1>16, ChainFacts DEF Freed
  <2>3. n = Cardinality(Used) /\ k = Bytes(memory, Used)
    BY <1>8, <1>16
  <2>4. QED
    BY <2>1, <2>2, <2>3, <1>1, <1>4, <1>5, <1>10, <1>11, <1>12, <1>13, <1>14, <1>15, <1>16, StatInvNext DEF StatsFor
<1>17. CASE chain = "dedicated"
  <2>1. StatsAre(stats',
          BlockCounts(Cardinality(DOMAIN subs), BlockBytes(DOMAIN subs)),
          MemoryCounts(Cardinality(Used), Bytes(memory, Used), Bytes(memory, Pooled("sub"))),
          BlockCounts(Cardinality(DOMAIN dedicated), Bytes(memory, DOMAIN dedicated)),
          AddMemory(MemoryCounts(n, k, f), 0, 0, 0 - SizeOf(freed)),
          HeapReleases(MemoryCounts(e, t, 0), freed))
    BY <1>3, <1>8, <1>17, ReleasedStatsAre DEF StatInv, StatsFor
  <2>2. Pooled("sub")' = Pooled("sub") /\ Bytes(memory', Pooled("sub")) = Bytes(memory, Pooled("sub"))
    <3>1. Pooled("sub") \in SUBSET MemoryIds /\ Pooled("sub") \cap freed = {}
      BY <1>2, <1>6, <1>17, PlacesFacts, ChainFacts DEF MemoriesInv
    <3>2. QED
      BY <3>1, <1>3, <1>7, <1>17, ChainFacts DEF Freed
  <2>3. n = Cardinality(DOMAIN dedicated) /\ k = Bytes(memory, DOMAIN dedicated)
    BY <1>8, <1>17
  <2>4. QED
    BY <2>1, <2>2, <2>3, <1>1, <1>4, <1>5, <1>10, <1>11, <1>12, <1>13, <1>14, <1>15, <1>17, StatInvNext DEF StatsFor
<1>18. QED
  BY <1>16, <1>17, ChainFacts

LEMMA StutterInv ==
  ASSUME ChainInv, UNCHANGED chainVars
  PROVE  ChainInv'
<1>1. UNCHANGED vars /\ UNCHANGED <<state, freeLists, usedPool, segments, memory, subs, dedicated, stats, op>>
  BY DEF chainVars, vars
<1>2. SameLinks /\ Existing' = Existing /\ MemoryInv' /\ SameSizes(memory, memory', MemoryIds) /\ SamePools
  <2>1. SameLinks /\ Existing' = Existing /\ SameSizes(memory, memory', MemoryIds)
    BY <1>1 DEF SameLinks, Existing, SameSizes
  <2>2. MemoryInv' /\ SamePools
    BY <1>1, <2>1, SegmentsSamePools DEF ChainInv, PlacesOK, MemoriesInv, MemoryInv
  <2>3. QED
    BY <2>1, <2>2
<1>3. MemoriesInv' /\ Used' = Used
  BY <1>1, <1>2, SamePlaces DEF ChainInv, PlacesOK
<1>4. RefsCountBlocks'
  BY <1>1, RefsKept DEF ChainInv, PlacesOK, MemoriesInv, PlacesInv
<1>5. PlacesOK'
  BY <1>1, <1>3, <1>4, BlocksKept DEF ChainInv, PlacesOK
<1>6. QED
  BY <1>1, <1>2, <1>3, <1>5, StatsKept DEF ChainInv

LEMMA StepChain == ASSUME ChainInv, [ChainNext]_chainVars PROVE ChainInv'
<1>1. ASSUME NEW r \in Requests, TrySubAllocate(r) PROVE ChainInv'
  BY <1>1, TrySubAllocateInv
<1>2. ASSUME NEW r \in Requests, AllocateDedicated(r) PROVE ChainInv'
  BY <1>2, AllocateDedicatedInv
<1>3. ASSUME NEW r \in Requests, FailDedicated(r) PROVE ChainInv'
  BY <1>3, FailDedicatedInv
<1>4. CASE UseMemory
  BY <1>4, UseMemoryInv
<1>5. CASE GetMemory
  BY <1>5, GetMemoryInv
<1>6. CASE FailMemory
  BY <1>6, FailMemoryInv
<1>7. ASSUME NEW block \in DOMAIN subs, DeallocateSub(block) PROVE ChainInv'
  BY <1>7, DeallocateSubInv
<1>8. ASSUME NEW m \in DOMAIN dedicated, DeallocateDedicated(m) PROVE ChainInv'
  BY <1>8, DeallocateDedicatedInv
<1>9. ASSUME NEW chain \in Chains, NEW bytes \in Releases, ReleaseMemory(chain, bytes) PROVE ChainInv'
  BY <1>9, ReleaseMemoryInv
<1>10. CASE UNCHANGED chainVars
  BY <1>10, StutterInv
<1>11. QED
  BY <1>1, <1>2, <1>3, <1>4, <1>5, <1>6, <1>7, <1>8, <1>9, <1>10 DEF ChainNext

(* Empty lists.                                                            *)
LEMMA EmptyLists ==
  ASSUME NEW mem
  PROVE  /\ Tidy(<<>>, mem) /\ Held(<<>>) = {}
         /\ \A n \in Nat : LET list == << [size |-> n, pool |-> <<>>] >>
                           IN  /\ Tidy(list, mem) /\ Held(list) = {} /\ Len(list) = 1 /\ list[1].size = n
<1>1. Tidy(<<>>, mem) /\ Held(<<>>) = {}
  BY DEF Tidy, Sorted, Held
<1>2. ASSUME NEW n \in Nat, NEW list, list = << [size |-> n, pool |-> <<>>] >>
      PROVE  Tidy(list, mem) /\ Held(list) = {} /\ Len(list) = 1 /\ list[1].size = n
  <2>1. [size |-> n, pool |-> <<>>] \in Segment
    BY DEF Segment
  <2>2. list \in Seq(Segment) /\ DOMAIN list = {1} /\ Len(list) = 1 /\ list[1].size = n /\ list[1].pool = <<>>
    BY <1>2, <2>1
  <2>3. Range(list[1].pool) = {} /\ IsInjective(list[1].pool)
    BY <2>2 DEF Range, IsInjective
  <2>4. QED
    BY <2>2, <2>3 DEF Tidy, Sorted, Held
<1>3. QED
  BY <1>1, <1>2

LEMMA InitChain == ChainInit => ChainInv
<1> SUFFICES ASSUME ChainInit PROVE ChainInv
  OBVIOUS
<1>1. TreeInv /\ InState("Allocated") = {}
  <2>1. Init
    BY DEF ChainInit
  <2>2. QED
    BY <2>1, InitTree DEF Init, InState
<1>2. subs = <<>> /\ DOMAIN subs = {} /\ dedicated = <<>> /\ DOMAIN dedicated = {} /\ op = Idle
  BY DEF ChainInit
<1>3. usedPool = [i \in UsedIndices |-> NoMemory] /\ Used = {} /\ UsedInv
  BY DEF ChainInit, UsedIndices, Used, UsedInv
<1>4. memory = [m \in MemoryIds |-> Absent] /\ Existing = {} /\ MemoryInv
  BY DEF ChainInit, Existing, MemoryInv, MemoryType, Absent
<1>5. segments = [c \in Chains |-> IF PoolAlgorithm[c] = "segmented" THEN <<>>
                                   ELSE << [size |-> FixedSegment(c), pool |-> <<>>] >>]
  BY DEF ChainInit, FixedSegment
<1>6. ASSUME NEW c \in Chains
      PROVE  /\ Tidy(segments[c], memory) /\ Pooled(c) = {}
             /\ PoolAlgorithm[c] = "fixed" => Len(segments[c]) = 1 /\ segments[c][1].size = FixedSegment(c)
  <2>1. FixedSegment(c) \in Nat
    BY ChainFacts DEF FixedSegment
  <2>2. PICK n, list : n \in Nat /\ n = FixedSegment(c) /\ list = << [size |-> n, pool |-> <<>>] >>
    BY <2>1
  <2>3. Tidy(list, memory) /\ Held(list) = {} /\ Len(list) = 1 /\ list[1].size = n
    BY <2>2, EmptyLists
  <2>4. Tidy(<<>>, memory) /\ Held(<<>>) = {}
    BY EmptyLists
  <2>5. CASE PoolAlgorithm[c] = "segmented"
    BY <1>5, <2>4, <2>5, PooledIsHeld
  <2>6. CASE PoolAlgorithm[c] = "fixed"
    <3>1. segments[c] = list
      BY <1>5, <2>2, <2>6
    <3>2. QED
      BY <2>2, <2>3, <3>1, PooledIsHeld
  <2>7. QED
    BY <2>5, <2>6, ChainFacts
<1>7. ListsInv
  <2>1. DOMAIN segments = Chains /\ segments = [c \in Chains |-> segments[c]]
    BY <1>5
  <2>2. \A c \in Chains : segments[c] \in Seq(Segment)
    BY <1>6 DEF Tidy
  <2>3. QED
    BY <2>1, <2>2, <1>6 DEF ListsInv
<1>8. MemoriesInv
  BY <1>2, <1>3, <1>4, <1>6, <1>7, ChainFacts DEF MemoriesInv, PlacesInv, Parts, HomesInv, UnreferencedInv
<1>9. BlocksInv
  BY <1>1, <1>2, FS_EmptySet DEF BlocksInv, Pending
<1>10. RefsCountBlocks
  BY <1>2, <1>3 DEF RefsCountBlocks
<1>11. StatInv
  <2>1. Bytes(memory, {}) = 0 /\ BlockBytes({}) = 0 /\ Cardinality({}) = 0
    BY SumEmpty, FS_EmptySet DEF Bytes, BlockBytes
  <2>2. stats = [a \in Allocators |-> Counts(0, 0, 0, 0, 0)]
    BY DEF ChainInit, Allocators, ZeroStats, Counts
  <2>3. Pooled("sub") = {} /\ Pooled("dedicated") = {}
    BY <1>6, ChainFacts
  <2>4. PICK z : z = Counts(0, 0, 0, 0, 0)
    OBVIOUS
  <2>5. StatsAre(stats, z, z, z, z, z)
    BY <2>2, <2>4 DEF StatsAre, Allocators
  <2>6. z = BlockCounts(0, 0) /\ z = MemoryCounts(0, 0, 0)
    BY <2>4 DEF BlockCounts, MemoryCounts
  <2>7. QED
    BY <2>1, <2>3, <2>5, <2>6, <1>2, <1>3, <1>4 DEF StatInv, StatsFor
<1>12. QED
  BY <1>8, <1>9, <1>10, <1>11 DEF ChainInv, PlacesOK

(* Every call of the chain (TryAllocateMemory, DeallocateMemory and        *)
(* ReleaseMemory of the allocators, whether a pool or the heap fails or    *)
(* not) keeps ChainInv: where each memory object is, which blocks are      *)
(* below it and what mStats of each allocator counts.                      *)
THEOREM ChainInvariant == ChainSpec => []ChainInv
<1>1. ChainInv /\ [ChainNext]_chainVars => ChainInv'
  BY StepChain
<1>2. QED
  BY <1>1, InitChain, PTL DEF ChainSpec

(* BlocksMatchMemory in every reachable state: memory of                   *)
(* BuddyMemoryAllocator is in mUsedPool exactly while blocks are allocated *)
(* from it, with a reference for each, and a TryAllocateMemory that fails  *)
(* below the block gives the block back.                                   *)
THEOREM BlocksAndMemoryMatch == ChainSpec => []BlocksMatchMemory
<1>1. ChainInv => BlocksMatchMemory
  BY BlocksFacts DEF ChainInv, PlacesOK, BlocksMatchMemory, NoBlockLeaks
<1>2. QED
  BY <1>1, ChainInvariant, PTL

(* The three kinds of places.                                              *)
UsedPlaces(m) == {<<"used", i>> : i \in {j \in DOMAIN usedPool : usedPool[j] = m}}

PoolPlaces(c, m) ==
    UNION {{<<c, i, k>> : k \in {j \in DOMAIN segments[c][i].pool : segments[c][i].pool[j] = m}} :
           i \in DOMAIN segments[c]}

DedicatedPlaces(m) == {<<"dedicated", n>> : n \in {m} \cap DOMAIN dedicated}

LEMMA PlacesAre ==
  ASSUME NEW m
  PROVE  Places(m) = UsedPlaces(m) \cup PoolPlaces("sub", m) \cup PoolPlaces("dedicated", m) \cup DedicatedPlaces(m)
<1>1. PICK u, a, b, c, d : /\ u = UNION {PoolPlaces(x, m) : x \in Chains}
                           /\ a = UsedPlaces(m) /\ b = PoolPlaces("sub", m)
                           /\ c = PoolPlaces("dedicated", m) /\ d = DedicatedPlaces(m)
  OBVIOUS
<1>2. Places(m) = a \cup u \cup d
  BY <1>1 DEF Places, UsedPlaces, PoolPlaces, DedicatedPlaces
<1>3. u = b \cup c
  BY <1>1, ChainFacts
<1>4. a \cup u \cup d = a \cup b \cup c \cup d
  BY <1>3
<1>5. QED
  BY <1>1, <1>2, <1>4, Zenon

LEMMA UsedPlace ==
  ASSUME UsedInv, NEW m \in MemoryIds
  PROVE  /\ m \notin Used => UsedPlaces(m) = {}
         /\ m \in Used => \E p : UsedPlaces(m) = {p}
<1>1. DOMAIN usedPool = UsedIndices /\ m # NoMemory
  BY ChainFacts DEF UsedInv
<1>2. m \notin Used => UsedPlaces(m) = {}
  BY <1>1 DEF Used, UsedPlaces
<1>3. ASSUME m \in Used PROVE \E p : UsedPlaces(m) = {p}
  <2>1. PICK i \in UsedIndices : usedPool[i] = m
    BY <1>1, <1>3 DEF Used
  <2>2. {j \in DOMAIN usedPool : usedPool[j] = m} = {i}
    BY <1>1, <2>1 DEF UsedInv
  <2>3. UsedPlaces(m) = {<<"used", i>>}
    BY <2>2 DEF UsedPlaces
  <2>4. QED
    BY <2>3
<1>4. QED
  BY <1>2, <1>3

LEMMA PoolPlace ==
  ASSUME ListsInv, NEW c \in Chains, NEW m \in MemoryIds
  PROVE  /\ m \notin Pooled(c) => PoolPlaces(c, m) = {}
         /\ m \in Pooled(c) => \E p : PoolPlaces(c, m) = {p}
<1>1. Tidy(segments[c], memory)
  BY DEF ListsInv
<1>2. m \notin Pooled(c) => PoolPlaces(c, m) = {}
  BY DEF Pooled, PoolPlaces, Range
<1>3. ASSUME m \in Pooled(c) PROVE \E p : PoolPlaces(c, m) = {p}
  <2>1. PICK i \in DOMAIN segments[c] : m \in Range(segments[c][i].pool)
    BY <1>3 DEF Pooled
  <2>2. PICK pool : pool = segments[c][i].pool
    OBVIOUS
  <2>3. PICK k \in DOMAIN pool : pool[k] = m
    BY <2>1, <2>2 DEF Range
  <2>4. IsInjective(pool)
    BY <1>1, <2>2, TidyFacts
  <2>5. {j \in DOMAIN pool : pool[j] = m} = {k}
    BY <2>3, <2>4 DEF IsInjective
  <2>6. \A h \in DOMAIN segments[c] : h # i => {j \in DOMAIN segments[c][h].pool : segments[c][h].pool[j] = m} = {}
    <3> SUFFICES ASSUME NEW h \in DOMAIN segments[c], h # i
                 PROVE  m \notin Range(segments[c][h].pool)
      BY DEF Range
    <3>1. QED
      BY <1>1, <2>1, OnePool
  <2>7. PoolPlaces(c, m) = {<<c, i, k>>}
    BY <2>2, <2>5, <2>6 DEF PoolPlaces
  <2>8. QED
    BY <2>7
<1>4. QED
  BY <1>2, <1>3

(* MemoryInOnePlace in every reachable state: AcquireFromPool,             *)
(* ReturnToPool and TrimPoolUntil of the pools never lose memory and never *)
(* hand it out twice, whatever the pools' algorithms and the requests are. *)
THEOREM MemoryIsInOnePlace == ChainSpec => []MemoryInOnePlace
<1>1. ChainInv => MemoryInOnePlace
  <2> SUFFICES ASSUME ChainInv, NEW m \in Existing PROVE Cardinality(Places(m)) = 1
    BY DEF MemoryInOnePlace
  <2>1. ListsInv /\ UsedInv /\ PlacesInv
    BY DEF ChainInv, PlacesOK, MemoriesInv, PlacesInv
  <2>2. m \in MemoryIds
    BY DEF Existing
  <2>3. /\ m \notin Used => UsedPlaces(m) = {}
        /\ m \in Used => \E p : UsedPlaces(m) = {p}
    BY <2>1, <2>2, UsedPlace
  <2>4. /\ m \notin Pooled("sub") => PoolPlaces("sub", m) = {}
        /\ m \in Pooled("sub") => \E p : PoolPlaces("sub", m) = {p}
        /\ m \notin Pooled("dedicated") => PoolPlaces("dedicated", m) = {}
        /\ m \in Pooled("dedicated") => \E p : PoolPlaces("dedicated", m) = {p}
    BY <2>1, <2>2, PoolPlace, ChainFacts
  <2>5. /\ m \notin DOMAIN dedicated => DedicatedPlaces(m) = {}
        /\ m \in DOMAIN dedicated => DedicatedPlaces(m) = {<<"dedicated", m>>}
    BY DEF DedicatedPlaces
  <2>6. \E p : Places(m) = {p}
    BY <2>1, <2>3, <2>4, <2>5, PlacesAre DEF PlacesInv, Parts
  <2>7. QED
    BY <2>6, FS_Singleton
<1>2. QED
  BY <1>1, ChainInvariant, PTL

LEMMA PlusCounts ==
  ASSUME NEW a, NEW b, NEW c, NEW d, NEW e, NEW u, NEW v, NEW w, NEW x, NEW y
  PROVE  Plus(Counts(a, b, c, d, e), Counts(u, v, w, x, y)) = Counts(a + u, b + v, c + w, d + x, e + y)
<1>1. PICK s, t : s = Counts(a, b, c, d, e) /\ t = Counts(u, v, w, x, y)
  OBVIOUS
<1>2. DOMAIN s = {"usedBlockCount", "usedBlockUsage", "usedMemoryCount", "usedMemoryUsage", "freeMemoryUsage"}
  BY <1>1 DEF Counts
<1>3. /\ s["usedBlockCount"] = a /\ s["usedBlockUsage"] = b /\ s["usedMemoryCount"] = c
      /\ s["usedMemoryUsage"] = d /\ s["freeMemoryUsage"] = e
      /\ t["usedBlockCount"] = u /\ t["usedBlockUsage"] = v /\ t["usedMemoryCount"] = w
      /\ t["usedMemoryUsage"] = x /\ t["freeMemoryUsage"] = y
  BY <1>1 DEF Counts
<1>4. Plus(s, t) = Counts(a + u, b + v, c + w, d + x, e + y)
  BY <1>2, <1>3 DEF Plus, Counts
<1>5. QED
  BY <1>1, <1>4

(* GetStats is what the allocators have in use and in their pools.         *)
LEMMA GetStatsIs ==
  ASSUME NEW a, NEW b, NEW c, NEW d, NEW e, NEW u, NEW v, NEW x, NEW y, NEW z, NEW h,
         StatsAre(stats, BlockCounts(a, b), MemoryCounts(c, d, e), BlockCounts(u, v),
                  MemoryCounts(x, y, z), h),
         u \in Int, v \in Int, x \in Int, y \in Int, z \in Int
  PROVE  GetStats = Counts(a + u, b + v, c + x, d + y, e + z)
<1>1. /\ stats["buddy"] = Counts(a, b, 0, 0, 0) /\ stats["subPool"] = Counts(0, 0, c, d, e)
      /\ stats["dedicated"] = Counts(u, v, 0, 0, 0) /\ stats["dedicatedPool"] = Counts(0, 0, x, y, z)
  BY DEF StatsAre, BlockCounts, MemoryCounts
<1>2. PICK s : s = stats["subPool"]
  OBVIOUS
<1>3. s.usedMemoryCount = c /\ s.usedMemoryUsage = d /\ s.freeMemoryUsage = e
  BY <1>1, <1>2, CountsOf
<1>4. GetStats = Plus(MemoryAndFreeSet(stats["buddy"], c, d, e), Plus(stats["dedicated"], stats["dedicatedPool"]))
  BY <1>2, <1>3, Zenon DEF GetStats, MemoryAndFreeSet
<1>5. MemoryAndFreeSet(Counts(a, b, 0, 0, 0), c, d, e) = Counts(a, b, c, d, e)
  BY SetMemoryAndFree
<1>6. Plus(Counts(u, v, 0, 0, 0), Counts(0, 0, x, y, z)) = Counts(u + 0, v + 0, 0 + x, 0 + y, 0 + z)
  BY PlusCounts
<1>7. u + 0 = u /\ v + 0 = v /\ 0 + x = x /\ 0 + y = y /\ 0 + z = z
  OBVIOUS
<1>8. Plus(Counts(a, b, c, d, e), Counts(u, v, x, y, z)) = Counts(a + u, b + v, c + x, d + y, e + z)
  BY PlusCounts
<1>9. QED
  BY <1>1, <1>4, <1>5, <1>6, <1>7, <1>8

(* StatsExact in every reachable state: what GetStats of                   *)
(* ConditionalMemoryAllocator adds up from the allocators below it is what *)
(* the clients hold and the pools keep.                                    *)
THEOREM StatisticsAreExact == ChainSpec => []StatsExact
<1>1. ChainInv => StatsExact
  <2> SUFFICES ASSUME ChainInv PROVE StatsExact
    OBVIOUS
  <2>1. PICK U, D, P, Q, B : /\ U = Used /\ D = DOMAIN dedicated /\ P = Pooled("sub")
                             /\ Q = Pooled("dedicated") /\ B = DOMAIN subs
    OBVIOUS
  <2>2. /\ U \in SUBSET MemoryIds /\ D \in SUBSET MemoryIds /\ P \in SUBSET MemoryIds /\ Q \in SUBSET MemoryIds
        /\ B \in SUBSET Block /\ IsFiniteSet(B) /\ Sized(memory)
    BY <2>1, SetsFacts, ChainFacts DEF ChainInv
  <2>3. Parts(Existing, U, P, Q, D)
    BY <2>1 DEF ChainInv, PlacesOK, MemoriesInv, PlacesInv
  <2>4. /\ Existing \ (P \cup Q) = U \cup D /\ U \cap D = {} /\ P \cap Q = {}
    BY <2>3 DEF Parts
  <2>5. /\ Bytes(memory, U \cup D) = Bytes(memory, U) + Bytes(memory, D)
        /\ Cardinality(U \cup D) = Cardinality(U) + Cardinality(D)
        /\ Bytes(memory, P \cup Q) = Bytes(memory, P) + Bytes(memory, Q)
    BY <2>2, <2>4, BytesUnion
  <2>6. /\ SizeOf(U \cup D) = Bytes(memory, U) + Bytes(memory, D)
        /\ SizeOf(P \cup Q) = Bytes(memory, P) + Bytes(memory, Q)
        /\ SizeOf(D) = Bytes(memory, D) /\ MapThenSumSet(Size, B) = BlockBytes(B)
    <3>1. U \cup D \in SUBSET MemoryIds /\ P \cup Q \in SUBSET MemoryIds
      BY <2>2
    <3>2. QED
      BY <3>1, <2>2, <2>5, SizeOfIs, BlockBytesIs
  <2>7. StatsAre(stats, BlockCounts(Cardinality(B), BlockBytes(B)),
          MemoryCounts(Cardinality(U), Bytes(memory, U), Bytes(memory, P)),
          BlockCounts(Cardinality(D), Bytes(memory, D)),
          MemoryCounts(Cardinality(D), Bytes(memory, D), Bytes(memory, Q)),
          MemoryCounts(Cardinality(Existing), Bytes(memory, Existing), 0))
    BY <2>1 DEF ChainInv, StatInv, StatsFor
  <2>8. Cardinality(D) \in Int /\ Bytes(memory, D) \in Int /\ Bytes(memory, Q) \in Int
    BY <2>2, BytesFacts
  <2>9. GetStats = Counts(Cardinality(B) + Cardinality(D), BlockBytes(B) + Bytes(memory, D),
                          Cardinality(U) + Cardinality(D), Bytes(memory, U) + Bytes(memory, D),
                          Bytes(memory, P) + Bytes(memory, Q))
    BY <2>7, <2>8, GetStatsIs
  <2>10. GetStats =
           [usedBlockCount |-> Cardinality(B) + Cardinality(D),
            usedBlockUsage |-> MapThenSumSet(Size, B) + SizeOf(D),
            usedMemoryCount |-> Cardinality(Existing \ (P \cup Q)),
            usedMemoryUsage |-> SizeOf(Existing \ (P \cup Q)),
            freeMemoryUsage |-> SizeOf(P \cup Q)]
    BY <2>4, <2>5, <2>6, <2>9 DEF Counts
  <2>11. QED
    BY <2>1, <2>10 DEF StatsExact
<1>2. QED
  BY <1>1, ChainInvariant, PTL

LEMMA CountsAreNat ==
  ASSUME NEW n \in Nat, NEW k \in Nat, NEW f \in Nat
  PROVE  /\ \A x \in DOMAIN ZeroStats : BlockCounts(n, k)[x] \in Nat
         /\ \A x \in DOMAIN ZeroStats : MemoryCounts(n, k, f)[x] \in Nat
<1>1. DOMAIN ZeroStats = {"usedBlockCount", "usedBlockUsage", "usedMemoryCount", "usedMemoryUsage", "freeMemoryUsage"}
  BY DEF ZeroStats
<1>2. QED
  BY <1>1 DEF BlockCounts, MemoryCounts, Counts

(* ChainTypeOK in every reachable state: the used pool, the free pools and *)
(* the clients refer to memory that exists, and no count of mStats ever    *)
(* gets negative.                                                          *)
THEOREM ChainTypeCorrect == ChainSpec => []ChainTypeOK
<1>1. ChainInv => ChainTypeOK
  <2> SUFFICES ASSUME ChainInv PROVE ChainTypeOK
    OBVIOUS
  <2>1. PlacesOK /\ MemoriesInv /\ MemoryInv /\ ListsInv /\ PlacesInv /\ UsedInv
    BY DEF ChainInv, PlacesOK, MemoriesInv, PlacesInv
  <2>2. usedPool \in [UsedIndices -> {NoMemory} \cup Existing]
    <3>1. \A i \in UsedIndices : usedPool[i] \in {NoMemory} \cup Existing
      BY <2>1, UsedFacts, PlacesFacts
    <3>2. QED
      BY <2>1, <3>1 DEF UsedInv
  <2>3. \A m \in Existing : memory[m] \in [size : Nat \ {0}, alignment : Nat \ {0}, refs : Nat, segment : Nat]
    <3> SUFFICES ASSUME NEW m \in Existing
                 PROVE  memory[m] \in [size : Nat \ {0}, alignment : Nat \ {0}, refs : Nat, segment : Nat]
      OBVIOUS
    <3>1. m \in MemoryIds /\ memory[m].size > 0 /\ memory[m].alignment > 0
      BY <2>1 DEF Existing, MemoryInv
    <3>2. PICK a, b, c, d : /\ memory[m] = [size |-> a, alignment |-> b, refs |-> c, segment |-> d]
                            /\ a \in Nat /\ b \in Nat /\ c \in Nat /\ d \in Nat /\ a > 0 /\ b > 0
      BY <2>1, <3>1, MemoryRecord
    <3>3. QED
      BY <3>2
  <2>4. \A c \in Chains : \A i \in DOMAIN segments[c] : segments[c][i].pool \in Seq(Existing)
    <3> SUFFICES ASSUME NEW c \in Chains, NEW i \in DOMAIN segments[c]
                 PROVE  segments[c][i].pool \in Seq(Existing)
      OBVIOUS
    <3>1. PICK pool : pool = segments[c][i].pool
      OBVIOUS
    <3>2. Tidy(segments[c], memory)
      BY <2>1 DEF ListsInv
    <3>3. pool \in Seq(MemoryIds)
      BY <3>1, <3>2, TidyFacts
    <3>4. Range(pool) \subseteq Existing
      BY <2>1, <3>1, PlacesFacts DEF Pooled
    <3>5. PICK n \in Nat : n = Len(pool) /\ DOMAIN pool = 1..n /\ pool = [k \in 1..n |-> pool[k]]
      BY <3>3
    <3>6. \A k \in 1..n : pool[k] \in Existing
      BY <3>4, <3>5 DEF Range
    <3>7. QED
      BY <3>1, <3>5, <3>6, SeqDef
  <2>5. DOMAIN dedicated \subseteq Existing
    BY <2>1, PlacesFacts
  <2>6. \A a \in DOMAIN stats : \A f \in DOMAIN ZeroStats : stats[a][f] \in Nat
    <3>1. PICK U, D, P, Q, B, E : /\ U = Used /\ D = DOMAIN dedicated /\ P = Pooled("sub")
                                  /\ Q = Pooled("dedicated") /\ B = DOMAIN subs /\ E = Existing
      OBVIOUS
    <3>2. /\ U \in SUBSET MemoryIds /\ D \in SUBSET MemoryIds /\ P \in SUBSET MemoryIds /\ Q \in SUBSET MemoryIds
          /\ E \in SUBSET MemoryIds /\ B \in SUBSET Block /\ IsFiniteSet(B) /\ Sized(memory)
      BY <2>1, <3>1, SetsFacts, ChainFacts
    <3>3. /\ Cardinality(B) \in Nat /\ BlockBytes(B) \in Nat /\ Cardinality(U) \in Nat /\ Bytes(memory, U) \in Nat
          /\ Bytes(memory, P) \in Nat /\ Cardinality(D) \in Nat /\ Bytes(memory, D) \in Nat
          /\ Bytes(memory, Q) \in Nat /\ Cardinality(E) \in Nat /\ Bytes(memory, E) \in Nat /\ 0 \in Nat
      BY <3>2, BytesFacts, BlockBytesFacts
    <3>4. StatsAre(stats, BlockCounts(Cardinality(B), BlockBytes(B)),
            MemoryCounts(Cardinality(U), Bytes(memory, U), Bytes(memory, P)),
            BlockCounts(Cardinality(D), Bytes(memory, D)),
            MemoryCounts(Cardinality(D), Bytes(memory, D), Bytes(memory, Q)),
            MemoryCounts(Cardinality(E), Bytes(memory, E), 0))
      BY <3>1 DEF ChainInv, StatInv, StatsFor
    <3>5. DOMAIN stats = Allocators
      BY <3>4 DEF StatsAre
    <3>6. \A a \in Allocators : \A f \in DOMAIN ZeroStats : stats[a][f] \in Nat
      <4> DEFINE Natural(s) == \A f \in DOMAIN ZeroStats : s[f] \in Nat
      <4>1. Natural(BlockCounts(Cardinality(B), BlockBytes(B)))
        BY <3>3, CountsAreNat
      <4>2. Natural(MemoryCounts(Cardinality(U), Bytes(memory, U), Bytes(memory, P)))
        BY <3>3, CountsAreNat
      <4>3. Natural(BlockCounts(Cardinality(D), Bytes(memory, D)))
        BY <3>3, CountsAreNat
      <4>4. Natural(MemoryCounts(Cardinality(D), Bytes(memory, D), Bytes(memory, Q)))
        BY <3>3, CountsAreNat
      <4>5. Natural(MemoryCounts(Cardinality(E), Bytes(memory, E), 0))
        BY <3>3, CountsAreNat
      <4> HIDE DEF Natural
      <4>6. \A a \in Allocators : Natural(stats[a])
        BY <3>4, <4>1, <4>2, <4>3, <4>4, <4>5, Zenon DEF StatsAre, Allocators
      <4>7. QED
        BY <4>6 DEF Natural
    <3>7. QED
      BY <3>5, <3>6
  <2>7. QED
    BY <2>2, <2>3, <2>4, <2>5, <2>6 DEF ChainTypeOK, UsedIndices
<1>2. QED
  BY <1>1, ChainInvariant, PTL

(* TypeOK and TreeWellFormed of the buddy system hold in the chain as      *)
(* well: BuddyMemoryAllocator calls its BlockAllocator as it has to, on    *)
(* the failing paths too.                                                  *)
THEOREM TreeInChain == ChainSpec => [](TypeOK /\ TreeWellFormed)
<1>1. ChainInv => TreeInv
  BY DEF ChainInv, PlacesOK, BlocksInv
<1>2. TreeInv => TypeOK /\ TreeWellFormed
  BY TreeIsWellFormed
<1>3. QED
  BY <1>1, <1>2, ChainInvariant, PTL

(* The pool of larger requests is segmented, and the requests that reach   *)
(* it are aligned like its segments.                                       *)
DedicatedIsUniform ==
    /\ PoolAlgorithm["dedicated"] = "segmented"
    /\ \A r \in Requests : ~IsForFirst(r) => r.alignment = MemoryAlignment

(* Memory is as large as the segments it goes to.                          *)
SizesInv == \A m \in Existing : memory[m].size = memory[m].segment

(* A multiple of the alignment is aligned.                                 *)
LEMMA AlignedStays ==
  ASSUME NEW n \in Nat, NEW a \in Nat, a > 0, n % a = 0
  PROVE  AlignTo(n, a) = n
<1>1. PICK q \in Nat : q = n \div a
  OBVIOUS
<1>2. n = q * a
  BY <1>1
<1>3. (q * a + a - 1) \div a = q
  <2>1. PICK k \in Nat : k = q * a
    OBVIOUS
  <2>2. PICK d \in Nat : d = (k + a - 1) \div a
    BY <2>1
  <2>3. d * a <= k + a - 1 /\ k + a - 1 < d * a + a
    BY <2>1, <2>2
  <2>4. ~ (d > q)
    <3>1. d > q => d >= q + 1
      OBVIOUS
    <3>2. d >= q + 1 => d * a >= (q + 1) * a
      OBVIOUS
    <3>3. (q + 1) * a = k + a
      BY <2>1
    <3>4. d * a \in Nat
      OBVIOUS
    <3>5. QED
      BY <2>1, <2>3, <3>1, <3>2, <3>3, <3>4
  <2>5. ~ (d < q)
    <3>1. d < q => d + 1 <= q
      OBVIOUS
    <3>2. d + 1 <= q => (d + 1) * a <= q * a
      OBVIOUS
    <3>3. (d + 1) * a = d * a + a
      OBVIOUS
    <3>4. d * a \in Nat
      OBVIOUS
    <3>5. QED
      BY <2>1, <2>3, <3>1, <3>2, <3>3, <3>4
  <2>6. QED
    BY <2>1, <2>2, <2>4, <2>5
<1>4. AlignTo(n, a) = ((q * a + a - 1) \div a) * a
  BY <1>2 DEF AlignTo
<1>5. QED
  BY <1>2, <1>3, <1>4

(* The front of a pool has been linked to the segment of the request.      *)
LEMMA AcquireSegment ==
  ASSUME MemoriesInv, NEW chain \in Chains, NEW request, request.size \in Nat, NEW m \in MemoryIds,
         NEW refs, AcquireFromPool(chain, request, m, refs)
  PROVE  memory[m].segment = SegmentFor(chain, request)
<1>1. PICK list, i : list = SegmentsFor(chain, request) /\ i = IndexOfSize(list, SegmentFor(chain, request))
  OBVIOUS
<1>2. Tidy(list, memory) /\ SegmentFor(chain, request) \in SizesOf(list)
  BY <1>1, SegmentsForFacts DEF MemoriesInv
<1>3. i \in DOMAIN list /\ list[i].size = SegmentFor(chain, request)
  BY <1>1, <1>2, IndexFound
<1>4. list[i].pool # <<>> /\ m = Head(list[i].pool)
  BY <1>1 DEF AcquireFromPool
<1>5. m \in Range(list[i].pool)
  <2>1. list[i].pool \in Seq(MemoryIds) /\ IsInjective(list[i].pool)
    BY <1>2, <1>3, TidyFacts
  <2>2. QED
    BY <1>4, <2>1, FrontTaken
<1>6. QED
  BY <1>2, <1>3, <1>5, TidyFacts

LEMMA SizesKept ==
  ASSUME SizesInv, Existing' \subseteq Existing,
         \A k \in Existing' : memory'[k].size = memory[k].size /\ memory'[k].segment = memory[k].segment
  PROVE  SizesInv'
BY DEF SizesInv

(* The size of memory that a pool gave is that of its segment.             *)
LEMMA GotUniform ==
  ASSUME MemoriesInv, SizesInv, NEW chain \in Chains, NEW m, NEW created \in BOOLEAN, Got(chain, m, created),
         memory'[m].size = memory'[m].segment
  PROVE  SizesInv'
<1>1. Existing' = Existing \cup {m} /\ \A k \in MemoryIds \ {m} : memory'[k] = memory[k]
  BY DEF Got
<1>2. Existing \subseteq MemoryIds
  BY PlacesFacts DEF MemoriesInv
<1>3. QED
  BY <1>1, <1>2 DEF SizesInv

UniformInv == ChainInv /\ SizesInv /\ LargeEnough

LEMMA GetMemoryUniform ==
  ASSUME UniformInv, GetMemory
  PROVE  SizesInv' /\ LargeEnough'
<1> USE DEF UniformInv
<1>1. PICK r : r = MemoryRequest(op.request)
  OBVIOUS
<1>2. op.pc = "memory"
  BY DEF GetMemory
<1>3. PICK m \in MemoryIds, created \in BOOLEAN :
         /\ IF created THEN CreateMemory("sub", r, m, 1) ELSE AcquireFromPool("sub", r, m, 1)
         /\ SubAllocated(m)
  BY <1>1 DEF GetMemory
<1>4. op.request \in Requests
  BY <1>2, BlocksFacts DEF ChainInv, PlacesOK
<1>5. MemoriesInv /\ ListsInv
  BY DEF ChainInv, PlacesOK, MemoriesInv
<1>6. /\ r.size = MemorySize /\ r.alignment = MemoryAlignment
      /\ r.size \in Nat \ {0} /\ r.alignment \in Nat \ {0} /\ r.size \in Nat /\ "sub" \in Chains /\ 1 \in Nat
  BY <1>1, <1>4, MemoryRequestFacts, ChainFacts
<1>7. CASE created
  <2>1. CreateMemory("sub", r, m, 1)
    BY <1>3, <1>7
  <2>2. /\ Got("sub", m, TRUE) /\ memory'[m].segment = SegmentFor("sub", r)
        /\ memory'[m].size = AlignTo(r.size, r.alignment)
    BY <2>1, <1>5, <1>6, CreateGot
  <2>3. AlignTo(MemorySize, MemoryAlignment) = MemorySize
    BY AlignedStays, ChainFacts, MemoryChainAssumption
  <2>4. SegmentFor("sub", r) = MemorySize
    <3>1. CASE PoolAlgorithm["sub"] = "fixed"
      BY <3>1, <1>5, <1>6, SegmentsForFacts DEF FixedSegment
    <3>2. CASE PoolAlgorithm["sub"] # "fixed"
      BY <3>2, <2>3, <1>6 DEF SegmentFor
    <3>3. QED
      BY <3>1, <3>2
  <2>5. memory'[m].size = memory'[m].segment
    BY <2>2, <2>3, <2>4, <1>6
  <2>6. SizesInv'
    BY <2>2, <2>5, <1>5, <1>6, GotUniform
  <2>7. LargeEnough'
    <3>1. m \notin Existing /\ \A k \in MemoryIds \ {m} : memory'[k] = memory[k]
      BY <2>2 DEF Got
    <3>2. dedicated' = dedicated /\ DOMAIN dedicated \subseteq Existing /\ Existing \subseteq MemoryIds
      BY <1>3, <1>5, PlacesFacts DEF SubAllocated, MemoriesInv
    <3>3. QED
      BY <3>1, <3>2 DEF LargeEnough
  <2>8. QED
    BY <2>6, <2>7
<1>8. CASE ~created
  <2>1. AcquireFromPool("sub", r, m, 1)
    BY <1>3, <1>8
  <2>2. Got("sub", m, FALSE) /\ memory'[m].segment = SegmentFor("sub", r)
    BY <2>1, <1>5, <1>6, AcquireGot
  <2>3. memory[m].segment = SegmentFor("sub", r)
    BY <2>1, <1>5, <1>6, AcquireSegment
  <2>4. m \in Pooled("sub") /\ m \in Existing /\ memory'[m].size = memory[m].size
    BY <2>2, <1>5, <1>6, PlacesFacts DEF Got, MemoriesInv
  <2>5. memory'[m].size = memory'[m].segment
    BY <2>2, <2>3, <2>4 DEF SizesInv
  <2>6. SizesInv'
    BY <2>2, <2>5, <1>5, <1>6, GotUniform
  <2>7. LargeEnough'
    <3>1. \A k \in MemoryIds \ {m} : memory'[k] = memory[k]
      BY <2>2 DEF Got
    <3>2. dedicated' = dedicated /\ DOMAIN dedicated \subseteq MemoryIds
      BY <1>3, <1>5, PlacesFacts DEF SubAllocated, MemoriesInv
    <3>3. QED
      BY <2>4, <3>1, <3>2 DEF LargeEnough
  <2>8. QED
    BY <2>6, <2>7
<1>9. QED
  BY <1>7, <1>8

LEMMA AllocateDedicatedUniform ==
  ASSUME DedicatedIsUniform, UniformInv, NEW r \in Requests, AllocateDedicated(r)
  PROVE  SizesInv' /\ LargeEnough'
<1> USE DEF UniformInv
<1>1. PICK m \in MemoryIds, created \in BOOLEAN :
         /\ IF created THEN CreateMemory("dedicated", r, m, 0) ELSE AcquireFromPool("dedicated", r, m, 0)
         /\ dedicated' = With(dedicated, m, r.size)
  BY DEF AllocateDedicated
<1>2. r.alignment = MemoryAlignment
  BY DEF AllocateDedicated, DedicatedIsUniform
<1>3. MemoriesInv
  BY DEF ChainInv, PlacesOK
<1>4. /\ "dedicated" \in Chains /\ 0 \in Nat /\ r.size \in Nat /\ r.size \in Nat \ {0} /\ r.alignment \in Nat \ {0}
  BY ChainFacts
<1>5. SegmentFor("dedicated", r) = AlignTo(r.size, MemoryAlignment) /\ AlignTo(r.size, MemoryAlignment) >= r.size
  BY <1>4, AlignedUp, ChainFacts DEF SegmentFor, DedicatedIsUniform
<1>6. /\ Got("dedicated", m, created) /\ memory'[m].segment = SegmentFor("dedicated", r)
      /\ memory'[m].size = memory'[m].segment
  <2>1. CASE created
    <3>1. CreateMemory("dedicated", r, m, 0)
      BY <1>1, <2>1
    <3>2. /\ Got("dedicated", m, TRUE) /\ memory'[m].segment = SegmentFor("dedicated", r)
          /\ memory'[m].size = AlignTo(r.size, r.alignment)
      BY <3>1, <1>3, <1>4, CreateGot
    <3>3. QED
      BY <2>1, <3>2, <1>2, <1>5
  <2>2. CASE ~created
    <3>1. AcquireFromPool("dedicated", r, m, 0)
      BY <1>1, <2>2
    <3>2. Got("dedicated", m, FALSE) /\ memory'[m].segment = SegmentFor("dedicated", r)
      BY <3>1, <1>3, <1>4, AcquireGot
    <3>3. memory[m].segment = SegmentFor("dedicated", r)
      BY <3>1, <1>3, <1>4, AcquireSegment
    <3>4. m \in Existing /\ memory'[m].size = memory[m].size
      BY <3>2, <1>3, <1>4, PlacesFacts DEF Got, MemoriesInv
    <3>5. QED
      BY <2>2, <3>2, <3>3, <3>4 DEF SizesInv
  <2>3. QED
    BY <2>1, <2>2
<1>7. SizesInv'
  BY <1>3, <1>4, <1>6, GotUniform
<1>8. LargeEnough'
  <2>1. \A k \in MemoryIds \ {m} : memory'[k] = memory[k]
    BY <1>6 DEF Got
  <2>2. /\ DOMAIN dedicated' = DOMAIN dedicated \cup {m} /\ dedicated'[m] = r.size
        /\ \A k \in DOMAIN dedicated \ {m} : dedicated'[k] = dedicated[k]
    BY <1>1 DEF With
  <2>3. DOMAIN dedicated \subseteq MemoryIds
    BY <1>3, PlacesFacts DEF MemoriesInv
  <2>4. memory'[m].size >= dedicated'[m]
    BY <2>2, <1>5, <1>6
  <2>5. QED
    BY <2>1, <2>2, <2>3, <2>4 DEF LargeEnough
<1>9. QED
  BY <1>7, <1>8

(* Memory gets or loses a reference.                                       *)
LEMMA ReferencedUniform ==
  ASSUME UniformInv, NEW m \in Existing, NEW n \in Nat, memory' = [memory EXCEPT ![m].refs = n],
         dedicated' = dedicated
  PROVE  SizesInv' /\ LargeEnough'
<1>1. MemoryInv /\ MemoriesInv
  BY DEF UniformInv, ChainInv, PlacesOK, MemoriesInv
<1>2. /\ SameLinks /\ Existing' = Existing /\ memory'[m].size = memory[m].size
      /\ \A k \in MemoryIds \ {m} : memory'[k] = memory[k]
  BY <1>1, Referenced
<1>3. Existing \subseteq MemoryIds /\ DOMAIN dedicated \subseteq MemoryIds
  BY <1>1, PlacesFacts DEF MemoriesInv
<1>4. SizesInv'
  BY <1>2, <1>3, SizesKept DEF SameLinks, UniformInv
<1>5. LargeEnough'
  BY <1>2, <1>3 DEF LargeEnough, UniformInv
<1>6. QED
  BY <1>4, <1>5

LEMMA UseMemoryUniform ==
  ASSUME UniformInv, UseMemory
  PROVE  SizesInv' /\ LargeEnough'
<1>1. PICK i, m : i = GetMemoryIndex(op.block) /\ m = usedPool[i]
  OBVIOUS
<1>2. /\ op.pc = "memory" /\ m # NoMemory /\ memory' = [memory EXCEPT ![m].refs = @ + 1] /\ dedicated' = dedicated
  BY <1>1 DEF UseMemory, SubAllocated
<1>3. BlocksInv /\ MemoriesInv /\ UsedInv /\ MemoryInv
  BY DEF UniformInv, ChainInv, PlacesOK, MemoriesInv, PlacesInv
<1>4. i \in UsedIndices
  BY <1>1, <1>2, <1>3, BlocksFacts, MemoryIndex
<1>5. m \in MemoryIds /\ m \in Existing
  BY <1>1, <1>2, <1>3, <1>4, UsedFacts, PlacesFacts DEF MemoriesInv
<1>6. PICK n : n = memory[m].refs + 1
  OBVIOUS
<1>7. n \in Nat
  <2>1. memory[m].refs \in Nat
    BY <1>3, <1>5, MemoryRecord
  <2>2. QED
    BY <1>6, <2>1
<1>8. memory' = [memory EXCEPT ![m].refs = n]
  BY <1>2, <1>6, Zenon
<1>9. QED
  BY <1>2, <1>5, <1>7, <1>8, ReferencedUniform

LEMMA DeallocateSubUniform ==
  ASSUME UniformInv, NEW block \in DOMAIN subs, DeallocateSub(block)
  PROVE  SizesInv' /\ LargeEnough'
<1>1. PICK i, m : i = GetMemoryIndex(block) /\ m = usedPool[i]
  OBVIOUS
<1>2. m \in Existing /\ memory[m].refs \in Nat /\ memory[m].refs > 0
  BY <1>1, BlocksMemory DEF UniformInv, ChainInv
<1>3. PICK n : n = memory[m].refs - 1
  OBVIOUS
<1>4. n \in Nat
  BY <1>2, <1>3
<1>5. memory' = [memory EXCEPT ![m].refs = @ - 1] /\ dedicated' = dedicated
  BY <1>1 DEF DeallocateSub
<1>6. memory' = [memory EXCEPT ![m].refs = n]
  BY <1>3, <1>5, Zenon
<1>7. QED
  BY <1>2, <1>4, <1>5, <1>6, ReferencedUniform

(* The memory stays as it is.                                              *)
LEMMA SameUniform ==
  ASSUME UniformInv, memory' = memory, DOMAIN dedicated' \subseteq DOMAIN dedicated,
         \A m \in DOMAIN dedicated' : dedicated'[m] = dedicated[m]
  PROVE  SizesInv' /\ LargeEnough'
BY DEF UniformInv, SizesInv, LargeEnough, Existing

LEMMA ReleaseMemoryUniform ==
  ASSUME UniformInv, NEW chain \in Chains, NEW bytes, ReleaseMemory(chain, bytes)
  PROVE  SizesInv' /\ LargeEnough'
<1>1. MemoriesInv /\ UNCHANGED <<usedPool, dedicated>>
  BY DEF UniformInv, ChainInv, PlacesOK, ReleaseMemory
<1>2. PICK freed : Freed(chain, freed)
  BY <1>1, ReleaseFrees
<1>3. /\ Existing' = Existing \ freed /\ \A k \in MemoryIds \ freed : memory'[k] = memory[k]
      /\ Existing \subseteq MemoryIds
  BY <1>1, <1>2, PlacesFacts DEF Freed, MemoriesInv
<1>4. SizesInv'
  BY <1>3, SizesKept DEF UniformInv
<1>5. \A m \in DOMAIN dedicated : memory'[m] = memory[m]
  BY <1>1, <1>2, FreedPlaces
<1>6. LargeEnough'
  BY <1>1, <1>5 DEF LargeEnough, UniformInv
<1>7. QED
  BY <1>4, <1>6

LEMMA StepUniform ==
  ASSUME DedicatedIsUniform, UniformInv, [ChainNext]_chainVars
  PROVE  UniformInv'
<1>1. ChainInv'
  BY StepChain DEF UniformInv
<1>2. SizesInv' /\ LargeEnough'
  <2>1. ASSUME NEW r \in Requests, TrySubAllocate(r) PROVE SizesInv' /\ LargeEnough'
    BY <2>1, SameUniform DEF TrySubAllocate
  <2>2. ASSUME NEW r \in Requests, AllocateDedicated(r) PROVE SizesInv' /\ LargeEnough'
    BY <2>2, AllocateDedicatedUniform
  <2>3. ASSUME NEW r \in Requests, FailDedicated(r) PROVE SizesInv' /\ LargeEnough'
    BY <2>3, SameUniform DEF FailDedicated, PoolFails
  <2>4. CASE UseMemory
    BY <2>4, UseMemoryUniform
  <2>5. CASE GetMemory
    BY <2>5, GetMemoryUniform
  <2>6. CASE FailMemory
    BY <2>6, SameUniform DEF FailMemory, PoolFails
  <2>7. ASSUME NEW block \in DOMAIN subs, DeallocateSub(block) PROVE SizesInv' /\ LargeEnough'
    BY <2>7, DeallocateSubUniform
  <2>8. ASSUME NEW m \in DOMAIN dedicated, DeallocateDedicated(m) PROVE SizesInv' /\ LargeEnough'
    BY <2>8, SameUniform DEF DeallocateDedicated, Without
  <2>9. ASSUME NEW chain \in Chains, NEW bytes \in Releases, ReleaseMemory(chain, bytes)
        PROVE  SizesInv' /\ LargeEnough'
    BY <2>9, ReleaseMemoryUniform
  <2>10. CASE UNCHANGED chainVars
    BY <2>10, SameUniform DEF chainVars
  <2>11. QED
    BY <2>1, <2>2, <2>3, <2>4, <2>5, <2>6, <2>7, <2>8, <2>9, <2>10 DEF ChainNext
<1>3. QED
  BY <1>1, <1>2 DEF UniformInv

(* If the larger requests go to a segmented pool and are aligned as it is  *)
(* (ResourceAllocator sets the alignment of a request for its dedicated    *)
(* allocators to their GetMemoryAlignment), memory is as large as the      *)
(* segment it is linked to and at least as its client's request.           *)
THEOREM SizesAreUniform ==
  ASSUME DedicatedIsUniform
  PROVE  ChainSpec => []UniformInv
<1>1. ChainInit => UniformInv
  BY InitChain DEF ChainInit, UniformInv, SizesInv, LargeEnough, Existing
<1>2. UniformInv /\ [ChainNext]_chainVars => UniformInv'
  BY StepUniform
<1>3. QED
  BY <1>1, <1>2, PTL DEF ChainSpec

(* PoolsAreUniform, under this hypothesis: the segments that FindSegment   *)
(* searches are sorted without duplicates, and the ASSERT of ReturnToPool, *)
(* that memory has the size of its pool, holds.                            *)
THEOREM PoolsStayUniform ==
  ASSUME DedicatedIsUniform
  PROVE  ChainSpec => []PoolsAreUniform
<1>1. UniformInv => PoolsAreUniform
  <2> SUFFICES ASSUME UniformInv, NEW c \in Chains, NEW i \in DOMAIN segments[c]
               PROVE  /\ i > 1 => segments[c][i - 1].size < segments[c][i].size
                      /\ \A m \in Range(segments[c][i].pool) : memory[m].size = segments[c][i].size
    BY DEF PoolsAreUniform
  <2>1. ListsInv /\ PlacesInv /\ Tidy(segments[c], memory)
    BY DEF UniformInv, ChainInv, PlacesOK, MemoriesInv, ListsInv
  <2>2. i > 1 => segments[c][i - 1].size < segments[c][i].size
    <3>1. PICK n \in Nat : DOMAIN segments[c] = 1..n
      BY <2>1, TidyFacts
    <3>2. i > 1 => i - 1 \in DOMAIN segments[c] /\ i - 1 < i
      BY <3>1
    <3>3. QED
      BY <2>1, <3>2 DEF Tidy, Sorted
  <2>3. ASSUME NEW m \in Range(segments[c][i].pool) PROVE memory[m].size = segments[c][i].size
    <3>1. memory[m].segment = segments[c][i].size
      BY <2>1, <2>3, TidyFacts
    <3>2. m \in Existing
      BY <2>1, <2>3, PlacesFacts DEF Pooled
    <3>3. QED
      BY <3>1, <3>2 DEF UniformInv, SizesInv
  <2>4. QED
    BY <2>2, <2>3
<1>2. QED
  BY <1>1, SizesAreUniform, PTL

(* LargeEnough, under this hypothesis: DedicatedMemoryAllocator never      *)
(* gives a client less memory than requested, in particular not memory of  *)
(* another segment that was freed before.                                  *)
THEOREM DedicatedIsLargeEnough ==
  ASSUME DedicatedIsUniform
  PROVE  ChainSpec => []LargeEnough
<1>1. UniformInv => LargeEnough
  BY DEF UniformInv
<1>2. QED
  BY <1>1, SizesAreUniform, PTL
=============================================================================
