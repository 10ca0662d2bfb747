--------------------- MODULE SlabMemoryAllocator_proofs ---------------------
(***************************************************************************)
(* Proofs about SlabMemoryAllocator for every block size, slab sizes,      *)
(* limits, growth factor, requests and failures, and without regard to the *)
(* bounds on the number of slabs, blocks and pre-fetches.                  *)
(***************************************************************************)
EXTENDS SlabMemoryAllocator, SetSums

SlabType == [used : Nat, memory : BOOLEAN, index : Nat \ {0}]

(* Every item of a list is a slab of the cache or a hole.                  *)
ListsSlabs(list, cache) == \A k \in DOMAIN list : list[k] \in DOMAIN cache \cup {Hole}

(* The slab i of a cache is at position n of its list and nowhere else.    *)
OnlyAt(list, n, i) ==
    /\ n \in DOMAIN list /\ list[n] = i
    /\ \A k \in DOMAIN list : list[k] = i => k = n

NotIn(list, i) == \A k \in DOMAIN list : list[k] # i

IsHome(s, free, full, slab, i) ==
    IF IsFull(s, slab) THEN OnlyAt(full, slab.index, i) /\ NotIn(free, i)
    ELSE OnlyAt(free, slab.index, i) /\ NotIn(full, i)

(* What the cache of size s keeps: the last item of the free list is a     *)
(* slab, which is what FreeList.back() rests on, and no slab has more      *)
(* blocks in use than it has.                                              *)
CacheInv(s, free, full, cache) ==
    /\ free \in Seq(Nat) /\ full \in Seq(Nat) /\ cache \in Seq(SlabType)
    /\ ListsSlabs(free, cache) /\ ListsSlabs(full, cache)
    /\ free # <<>> => Back(free) # Hole
    /\ cache # <<>> => BlockSize <= s
    /\ \A i \in DOMAIN cache :
          /\ cache[i].used <= BlockCount(s)
          /\ cache[i].memory <=> cache[i].used > 0
          /\ IsHome(s, free, full, cache[i], i)

CachesInv ==
    /\ freeList \in [Sizes -> Seq(Nat)] /\ fullList \in [Sizes -> Seq(Nat)]
    /\ slabs \in [Sizes -> Seq(SlabType)]
    /\ \A s \in Sizes : CacheInv(s, freeList[s], fullList[s], slabs[s])

(* The pre-fetch has the size of a cache.                                  *)
PrefetchInv ==
    \/ nextSlab = None
    \/ nextSlab \in [size : Sizes, state : {"pending", "ready", "failed"}]

Holding(cache) == {i \in DOMAIN cache : cache[i].used > 0}

Prefetched(next, s) == IF next.state = "ready" /\ next.size = s THEN 1 ELSE 0

OutstandingInv ==
    /\ outstanding \in [Sizes -> Nat]
    /\ \A s \in Sizes : outstanding[s] = Cardinality(Holding(slabs[s])) + Prefetched(nextSlab, s)

(* The reference that keeps the entry alive.                               *)
Own(keeps) == IF keeps THEN 1 ELSE 0

RefsInv ==
    /\ refs \in Nat /\ kept \in BOOLEAN
    /\ refs = BlocksInUse(slabs) + Own(kept)
    /\ refs = 0 => nextSlab = None

OtherInv ==
    /\ lastUsedSlabSize \in Sizes \cup {0}
    /\ hits \in Nat /\ misses \in Nat
    /\ nullFreed \in BOOLEAN /\ steady \in BOOLEAN

IInv == CachesInv /\ PrefetchInv /\ OutstandingInv /\ RefsInv /\ OtherInv

-----------------------------------------------------------------------------
(* Slab sizes.                                                             *)

LEMMA MaxIn ==
  ASSUME NEW n \in Nat, NEW S, S \subseteq 0..n, S # {}
  PROVE  Max(S) \in S /\ \A y \in S : Max(S) >= y
<1> DEFINE T == {n - x : x \in S}
<1>1. T \subseteq Nat /\ T # {}
  <2>1. \A x \in S : n - x \in Nat
    OBVIOUS
  <2>2. PICK x : x \in S
    OBVIOUS
  <2>3. n - x \in T
    BY <2>2
  <2>4. QED
    BY <2>1, <2>3
<1>2. PICK t \in T : \A y \in T : t <= y
  <2> HIDE DEF T
  <2>1. QED
    BY <1>1, SmallestNat
<1>3. PICK x \in S : t = n - x
  OBVIOUS
<1>4. \A y \in S : n - x <= n - y
  BY <1>2, <1>3
<1>5. \A y \in S : x >= y
  BY <1>4
<1>6. QED
  BY <1>3, <1>5 DEF Max

LEMMA PowersAreNat == \A p \in PowersOfTwo : p \in Nat /\ 1 <= p /\ p <= 65536
BY DEF PowersOfTwo

LEMMA SizesArePowers ==
  /\ Sizes \subseteq PowersOfTwo /\ Sizes \subseteq Nat \ {0} /\ Sizes \subseteq 0..MaxSlabSize
  /\ MinSlabSize \in Sizes /\ MaxSlabSize \in Sizes /\ 0 \notin Sizes
  /\ kInvalidSize \in Nat /\ kInvalidSize > MaxSlabSize
  /\ IsFiniteSet(Sizes)
<1>1. /\ Sizes \subseteq PowersOfTwo /\ Sizes \subseteq Nat \ {0} /\ Sizes \subseteq 0..MaxSlabSize
      /\ MinSlabSize \in Sizes /\ MaxSlabSize \in Sizes /\ 0 \notin Sizes
      /\ kInvalidSize \in Nat /\ kInvalidSize > MaxSlabSize
  BY PowersAreNat, SlabMemoryAssumption DEF Sizes, kInvalidSize
<1>2. IsFiniteSet(0..MaxSlabSize)
  BY <1>1, FS_Interval
<1>3. QED
  BY <1>1, <1>2, FS_Subset

(* A power of two divides every larger one.                                *)
LEMMA PowersDivide ==
  ASSUME NEW a \in PowersOfTwo, NEW b \in PowersOfTwo, a <= b
  PROVE  \E k \in Nat : b = k * a
BY DEF PowersOfTwo


(* The size of a slab in which the request fits, with an acceptable loss,  *)
(* is at least that of a block.  It rests on the limit being below 1: a    *)
(* block is the request aligned to a power of two, so a smaller slab would *)
(* be at most half of the alignment, and the loss more than the slab.      *)
LEMMA HoldsABlock ==
  ASSUME NEW r \in RequestSizes, NEW size \in PowersOfTwo, Fits(r, size)
  PROVE  BlockSize <= size
<1> USE PowersAreNat, SlabMemoryAssumption
<1>1. PICK a \in PowersOfTwo : BlockSize = AlignTo(r, a)
  BY RequestAssumption
<1>2. /\ r \in Nat /\ 1 <= r /\ r <= size /\ size \in Nat /\ 1 <= size
      /\ a \in Nat /\ 1 <= a /\ BlockSize \in Nat
      /\ FragmentationPermille \in Nat /\ FragmentationPermille <= 999
      /\ 1000 * (BlockSize - r) <= FragmentationPermille * size
  BY DEF Fits
<1> DEFINE q == (r + a - 1) \div a
<1>3. q \in Nat /\ q * a <= r + a - 1 /\ r + a - 1 < (q + 1) * a
  BY <1>2
<1>4. BlockSize = q * a
  BY <1>1 DEF AlignTo
<1> HIDE DEF q
<1>5. CASE a <= size
  <2>1. PICK k \in Nat : size = k * a
    BY <1>5, PowersDivide
  <2>2. q * a < (k + 1) * a
    BY <1>2, <1>3, <2>1
  <2>3. q < k + 1
    BY <1>2, <1>3, <2>2
  <2>4. q * a <= k * a
    BY <1>2, <1>3, <2>3
  <2>5. QED
    BY <1>4, <2>1, <2>4
<1>6. CASE size < a
  <2>1. PICK k \in Nat : a = k * size
    BY <1>2, <1>6, PowersDivide
  <2>2. k >= 2
    BY <1>2, <1>6, <2>1
  <2>3. a >= 2 * size
    BY <1>2, <2>1, <2>2
  <2>4. q = 1
    BY <1>2, <1>3, <1>6
  <2>5. BlockSize = a
    BY <1>2, <1>4, <2>4
  <2>6. BlockSize - r >= size
    BY <1>2, <2>3, <2>5
  <2>7. FragmentationPermille * size <= 999 * size
    BY <1>2
  <2>8. QED
    BY <1>2, <2>6, <2>7
<1>7. QED
  BY <1>2, <1>5, <1>6

LEMMA GrownIsLarger == \A s \in Sizes : Grown(s) \in Nat /\ s <= Grown(s)
<1> SUFFICES ASSUME NEW s \in Sizes PROVE Grown(s) \in Nat /\ s <= Grown(s)
  OBVIOUS
<1>1. s \in Nat /\ GrowthPct \in Nat /\ GrowthPct >= 100
  BY SizesArePowers, SlabMemoryAssumption
<1>2. s * GrowthPct \in Nat /\ s * GrowthPct >= s * 100
  BY <1>1
<1>3. QED
  BY <1>1, <1>2 DEF Grown

(* What the loop of ComputeSlabSize and NextPowerOfTwo compute.            *)
LEMMA DoubledSize ==
  ASSUME NEW r \in RequestSizes, NEW base \in Sizes \cup {Grown(s) : s \in Sizes},
         NEW fitting, fitting = Multiple(r, base)
  PROVE  /\ NextPowerOfTwo(base * fitting) \in PowersOfTwo
         /\ base \in Nat /\ MinSlabSize <= base /\ base <= NextPowerOfTwo(base * fitting)
         /\ BlockSize <= NextPowerOfTwo(base * fitting)
<1>1. base \in Nat /\ MinSlabSize <= base /\ MinSlabSize \in Nat
  BY SizesArePowers, GrownIsLarger, SlabMemoryAssumption DEF Sizes
<1>2. PICK p \in PowersOfTwo : Fits(r, base * p) /\ base * p <= 65536
  BY SizeBoundAssumption
<1>3. /\ fitting \in PowersOfTwo /\ Fits(r, base * fitting) /\ fitting <= p
  <2> DEFINE S == {x \in PowersOfTwo : Fits(r, base * x)}
  <2>1. S \subseteq Nat /\ p \in S
    BY <1>2, PowersAreNat
  <2>2. PICK least \in S : \A x \in S : least <= x
    <3> HIDE DEF S
    <3>1. QED
      BY <2>1, SmallestNat
  <2>3. \A q \in PowersOfTwo : q < least => ~Fits(r, base * q)
    BY <2>1, <2>2, PowersAreNat
  <2>4. /\ fitting \in PowersOfTwo /\ Fits(r, base * fitting)
        /\ \A q \in PowersOfTwo : q < fitting => ~Fits(r, base * q)
    BY <2>2, <2>3 DEF Multiple
  <2>5. ~(p < fitting)
    BY <1>2, <2>4
  <2>6. QED
    BY <2>4, <2>5, PowersAreNat
<1>4. fitting \in Nat /\ 1 <= fitting /\ p \in Nat
  BY <1>3, PowersAreNat
<1> DEFINE n == base * fitting
<1>5. n \in Nat /\ base <= n /\ n <= 65536
  <2>1. n \in Nat /\ base <= n
    BY <1>1, <1>4
  <2>2. n <= base * p
    BY <1>1, <1>3, <1>4
  <2>3. QED
    BY <1>1, <1>2, <1>4, <2>1, <2>2
<1>6. Fits(r, n)
  BY <1>3
<1> HIDE DEF n
<1>7. /\ NextPowerOfTwo(n) \in PowersOfTwo /\ n <= NextPowerOfTwo(n)
  <2> DEFINE S == {x \in PowersOfTwo : n <= x}
  <2>1. S \subseteq Nat /\ S # {}
    <3>1. 65536 \in S
      BY <1>5 DEF PowersOfTwo
    <3>2. QED
      BY <3>1, PowersAreNat
  <2>2. PICK least \in S : \A x \in S : least <= x
    <3> HIDE DEF S
    <3>1. QED
      BY <2>1, SmallestNat
  <2>3. \A q \in PowersOfTwo : q < least => q < n
    BY <1>5, <2>1, <2>2, PowersAreNat
  <2>4. QED
    BY <2>2, <2>3 DEF NextPowerOfTwo
<1>8. Fits(r, NextPowerOfTwo(n))
  <2>1. /\ r \in Nat /\ BlockSize \in Nat /\ FragmentationPermille \in Nat
        /\ NextPowerOfTwo(n) \in Nat
    BY <1>7, PowersAreNat, SlabMemoryAssumption
  <2>2. FragmentationPermille * n <= FragmentationPermille * NextPowerOfTwo(n)
    BY <1>5, <1>7, <2>1
  <2>3. QED
    BY <1>5, <1>6, <1>7, <2>1, <2>2 DEF Fits
<1>9. BlockSize <= NextPowerOfTwo(n)
  BY <1>7, <1>8, HoldsABlock
<1>10. base <= NextPowerOfTwo(n)
  BY <1>1, <1>5, <1>7, PowersAreNat
<1>11. QED
  BY <1>1, <1>7, <1>9, <1>10 DEF n


(* A slab in a free list has room for a block.                             *)
Roomy(free) == \A s \in Sizes : free[s] # <<>> => BlockSize <= s

(* The sizes that ComputeSlabSize may return.                              *)
UsableSize(size) == size \in Sizes /\ BlockSize <= size

LEMMA SlabSize ==
  ASSUME NEW free, NEW table, Roomy(free), NEW r \in RequestSizes, NEW available,
         NEW base \in Sizes \cup {Grown(s) : s \in Sizes}
  PROVE  LET size == ComputeSlabSize(free, table, r, base, available)
         IN  size \in Nat /\ (size > MaxSlabSize \/ UsableSize(size))
<1> DEFINE doubled == NextPowerOfTwo(base * Multiple(r, base))
<1>1. doubled \in Nat /\ (doubled > MaxSlabSize \/ UsableSize(doubled))
  <2>1. /\ doubled \in PowersOfTwo /\ base \in Nat /\ MinSlabSize <= base /\ base <= doubled
        /\ BlockSize <= doubled
    BY DoubledSize
  <2> HIDE DEF doubled
  <2>2. doubled \in Nat /\ MinSlabSize \in Nat /\ MaxSlabSize \in Nat
    BY <2>1, PowersAreNat, SlabMemoryAssumption
  <2>3. QED
    BY <2>1, <2>2 DEF UsableSize, Sizes
<1> DEFINE reused == FindNextFreeSlabOfSize(free, table, r)
<1>2. reused \in Nat /\ (reused > MaxSlabSize \/ UsableSize(reused))
  <2> DEFINE found == {s \in Sizes : /\ free[s] # <<>>
                                     /\ table[s][Back(free[s])].memory
                                     /\ s >= r}
  <2>1. reused = IF found = {} THEN kInvalidSize ELSE Max(found)
    BY DEF FindNextFreeSlabOfSize
  <2>2. found \subseteq Sizes /\ \A s \in found : BlockSize <= s
    BY DEF Roomy
  <2> HIDE DEF found
  <2>3. CASE found = {}
    BY <2>1, <2>3, SizesArePowers
  <2>4. CASE found # {}
    <3>1. found \subseteq 0..MaxSlabSize /\ MaxSlabSize \in Nat
      BY <2>2, SizesArePowers
    <3>2. Max(found) \in found
      BY <2>4, <3>1, MaxIn
    <3>3. QED
      BY <2>1, <2>2, <2>4, <3>2, SizesArePowers DEF UsableSize
  <2>5. QED
    BY <2>3, <2>4
<1>3. ComputeSlabSize(free, table, r, base, available) = IF available < doubled THEN reused ELSE doubled
  BY DEF ComputeSlabSize
<1> HIDE DEF doubled, reused
<1>4. QED
  BY <1>1, <1>2, <1>3

LEMMA LimitedSize ==
  ASSUME NEW n, NEW s, UsableSize(s), NEW c \in Nat, c > MaxSlabSize \/ UsableSize(c)
  PROVE  UsableSize(LimitGrowth(n, s, c))
BY SlabMemoryAssumption DEF LimitGrowth, UsableSize, Sizes

(* TryAllocateMemory is refused, or goes on with a slab of the free list   *)
(* or with a new one, of a size that holds a block.                        *)
LEMMA ChosenSlab ==
  ASSUME Roomy(freeList), lastUsedSlabSize \in Sizes \cup {0},
         NEW r \in RequestSizes, NEW available
  PROVE  LET choice == ChooseSlab(r, available)
         IN  \/ choice = NoSlab
             \/ /\ choice \in [size : Sizes, new : BOOLEAN] /\ choice # NoSlab
                /\ UsableSize(choice.size)
                /\ ~choice.new => freeList[choice.size] # <<>>
<1> DEFINE base == IF lastUsedSlabSize > MinSlabSize THEN lastUsedSlabSize ELSE MinSlabSize
           size == ComputeSlabSize(freeList, slabs, r, base, available)
           grown == ComputeSlabSize(freeList, slabs, r, Grown(size), available)
           newSize == LimitGrowth(Cardinality(Occupied(fullList[size])), size, grown)
<1>1. base \in Sizes
  BY SizesArePowers
<1>2. size \in Nat /\ (size > MaxSlabSize \/ UsableSize(size))
  <2> HIDE DEF base
  <2>1. QED
    BY <1>1, SlabSize
<1>3. ChooseSlab(r, available) =
        IF size > MaxSlabSize THEN NoSlab
        ELSE IF freeList[size] # <<>> THEN [size |-> size, new |-> FALSE]
        ELSE IF lastUsedSlabSize = 0 THEN [size |-> size, new |-> TRUE]
        ELSE IF grown = kInvalidSize THEN NoSlab
        ELSE [size |-> IF newSize > size THEN newSize ELSE size, new |-> TRUE]
  BY DEF ChooseSlab
<1>4. size <= MaxSlabSize => UsableSize(newSize)
  <2> HIDE DEF size
  <2> SUFFICES ASSUME size <= MaxSlabSize PROVE UsableSize(newSize)
    OBVIOUS
  <2>1. UsableSize(size)
    BY <1>2, SlabMemoryAssumption
  <2>2. Grown(size) \in {Grown(s) : s \in Sizes}
    BY <2>1 DEF UsableSize
  <2>3. grown \in Nat /\ (grown > MaxSlabSize \/ UsableSize(grown))
    BY <2>2, SlabSize
  <2> HIDE DEF grown
  <2>4. QED
    BY <2>1, <2>3, LimitedSize
<1> HIDE DEF size, grown, newSize
<1>5. NoSlab.size \notin Sizes
  BY SizesArePowers DEF NoSlab, Sizes
<1>6. QED
  BY <1>2, <1>3, <1>4, <1>5, SlabMemoryAssumption DEF UsableSize, NoSlab

(* The size that is pre-fetched, if any, is that of a cache.               *)
LEMMA PrefetchedSize ==
  ASSUME NEW free, NEW table, Roomy(free), NEW o, NEW s, UsableSize(s), NEW i,
         NEW r \in RequestSizes, NEW available, NEW always
  PROVE  LET ahead == PrefetchSize(o, table, free, s, i, r, available, always)
         IN  ahead \in Sizes \cup {0}
<1> DEFINE grown == ComputeSlabSize(free, table, r, Grown(s), available)
           size == LimitGrowth(SoonFull(s), s, grown)
<1>1. Grown(s) \in {Grown(t) : t \in Sizes}
  BY DEF UsableSize
<1>2. grown \in Nat /\ (grown > MaxSlabSize \/ UsableSize(grown))
  BY <1>1, SlabSize
<1>3. UsableSize(size)
  <2> HIDE DEF grown
  <2>1. QED
    BY <1>2, LimitedSize
<1>4. PrefetchSize(o, table, free, s, i, r, available, always) \in {size, 0}
  BY DEF PrefetchSize
<1> HIDE DEF size
<1>5. QED
  BY <1>3, <1>4 DEF UsableSize


-----------------------------------------------------------------------------
(* Stable lists.                                                           *)

(* erase empties one position, changes no other one, and drops only holes  *)
(* at the end, so that the last item left is no hole.                      *)
LEMMA EraseFacts ==
  ASSUME NEW list \in Seq(Nat), NEW n \in DOMAIN list
  PROVE  LET left == Erase(list, n)
         IN  /\ left \in Seq(Nat) /\ Len(left) <= Len(list) /\ DOMAIN left \subseteq DOMAIN list
             /\ \A k \in DOMAIN left : left[k] = IF k = n THEN Hole ELSE list[k]
             /\ \A k \in DOMAIN list : k # n /\ list[k] # Hole => k \in DOMAIN left
             /\ left # <<>> => Back(left) # Hole
<1> DEFINE holed == [list EXCEPT ![n] = Hole]
           left == Erase(list, n)
<1>1. /\ holed \in Seq(Nat) /\ Len(holed) = Len(list) /\ DOMAIN holed = DOMAIN list
      /\ \A k \in DOMAIN list : holed[k] = IF k = n THEN Hole ELSE list[k]
  BY DEF Hole
<1>2. left = IF Occupied(holed) = {} THEN <<>> ELSE SubSeq(holed, 1, Max(Occupied(holed)))
  BY DEF Erase
<1>3. Occupied(holed) = {k \in DOMAIN list : k # n /\ list[k] # Hole}
  BY <1>1 DEF Occupied
<1>4. CASE Occupied(holed) = {}
  <2>1. left = <<>>
    BY <1>2, <1>4
  <2>2. \A k \in DOMAIN list : ~(k # n /\ list[k] # Hole)
    BY <1>3, <1>4
  <2> HIDE DEF left, holed
  <2>3. left \in Seq(Nat) /\ Len(left) <= Len(list) /\ DOMAIN left = {}
    BY <2>1
  <2>4. QED
    BY <2>1, <2>2, <2>3 DEF left
<1>5. CASE Occupied(holed) # {}
  <2> DEFINE m == Max(Occupied(holed))
  <2> HIDE DEF holed, left
  <2>1. Occupied(holed) \subseteq 0..Len(list)
    <3>1. DOMAIN list \subseteq 0..Len(list)
      OBVIOUS
    <3>2. QED
      BY <1>3, <3>1
  <2>2. m \in Occupied(holed) /\ \A k \in Occupied(holed) : m >= k
    <3>1. Len(list) \in Nat
      OBVIOUS
    <3>2. QED
      BY <1>5, <2>1, <3>1, MaxIn
  <2>3. left = SubSeq(holed, 1, m)
    BY <1>2, <1>5
  <2> HIDE DEF m
  <2>4. m \in 1..Len(list) /\ m \in DOMAIN list /\ m # n /\ list[m] # Hole
    BY <1>3, <2>2
  <2>5. /\ left \in Seq(Nat) /\ Len(left) = m
        /\ \A k \in 1..m : left[k] = holed[k]
    BY <1>1, <2>3, <2>4
  <2>6. DOMAIN left = 1..m /\ DOMAIN left \subseteq DOMAIN list
    BY <2>4, <2>5
  <2>7. \A k \in DOMAIN left : left[k] = IF k = n THEN Hole ELSE list[k]
    BY <1>1, <2>5, <2>6
  <2>8. \A k \in DOMAIN list : k # n /\ list[k] # Hole => k \in DOMAIN left
    <3> SUFFICES ASSUME NEW k \in DOMAIN list, k # n, list[k] # Hole PROVE k \in DOMAIN left
      OBVIOUS
    <3>1. m >= k
      BY <1>3, <2>2
    <3>2. QED
      BY <2>4, <2>6, <3>1
  <2>9. Back(left) # Hole
    BY <2>4, <2>5, <2>6, <2>7 DEF Back
  <2>10. QED
    BY <2>4, <2>5, <2>6, <2>7, <2>8, <2>9 DEF left
<1>6. QED
  BY <1>4, <1>5

(* A new item goes to the end of a list.                                   *)
LEMMA AppendFacts ==
  ASSUME NEW list \in Seq(Nat), NEW i \in Nat \ {0}
  PROVE  /\ Append(list, i) \in Seq(Nat) /\ Append(list, i) # <<>>
         /\ DOMAIN Append(list, i) = DOMAIN list \cup {Len(list) + 1}
         /\ Len(list) + 1 \notin DOMAIN list
         /\ \A k \in DOMAIN list : Append(list, i)[k] = list[k]
         /\ Append(list, i)[Len(list) + 1] = i
         /\ Back(Append(list, i)) = i
BY DEF Back

-----------------------------------------------------------------------------
(* What the operations do to the cache of one size.                        *)

(* The slab to allocate from is in the free list.                          *)
LEMMA BackIsFree ==
  ASSUME NEW s, NEW free, NEW full, NEW cache, CacheInv(s, free, full, cache), free # <<>>
  PROVE  /\ Back(free) \in DOMAIN cache /\ Back(free) \in Nat \ {0}
         /\ ~IsFull(s, cache[Back(free)])
         /\ BlockSize <= s
<1>1. Len(free) \in DOMAIN free
  BY DEF CacheInv
<1>2. Back(free) \in DOMAIN cache /\ Back(free) \in Nat \ {0}
  BY <1>1 DEF CacheInv, ListsSlabs, Back, Hole
<1>3. ~IsFull(s, cache[Back(free)])
  BY <1>1, <1>2 DEF CacheInv, IsHome, NotIn, Back
<1>4. cache # <<>>
  BY <1>2 DEF CacheInv
<1>5. QED
  BY <1>2, <1>3, <1>4 DEF CacheInv

LEMMA EmptyCache ==
  ASSUME NEW s
  PROVE  CacheInv(s, <<>>, <<>>, <<>>)
BY DEF CacheInv, ListsSlabs

(* A new slab is pushed to the free list.                                  *)
LEMMA NewSlabInCache ==
  ASSUME NEW s \in Nat, BlockSize <= s, NEW free, NEW full, NEW cache, CacheInv(s, free, full, cache)
  PROVE  LET more == Append(cache, NewSlab(Len(free) + 1))
         IN  /\ CacheInv(s, Append(free, Len(more)), full, more)
             /\ Len(more) = Len(cache) + 1 /\ more[Len(more)].used = 0
<1> DEFINE slab == NewSlab(Len(free) + 1)
           more == Append(cache, slab)
           i == Len(cache) + 1
           list == Append(free, i)
<1>1. free \in Seq(Nat) /\ full \in Seq(Nat) /\ cache \in Seq(SlabType)
  BY DEF CacheInv
<1>2. slab \in SlabType /\ slab.used = 0 /\ ~slab.memory /\ slab.index = Len(free) + 1
  BY <1>1 DEF NewSlab, SlabType
<1>3. /\ more \in Seq(SlabType) /\ Len(more) = i /\ DOMAIN more = DOMAIN cache \cup {i}
      /\ i \notin DOMAIN cache /\ i \in Nat \ {0} /\ more[i] = slab
      /\ \A j \in DOMAIN cache : more[j] = cache[j]
      /\ more # <<>>
  <2> HIDE DEF slab
  <2>1. /\ more \in Seq(SlabType) /\ Len(more) = i /\ more[i] = slab
        /\ \A j \in 1..Len(cache) : more[j] = cache[j]
    BY <1>1, <1>2
  <2>2. DOMAIN cache = 1..Len(cache) /\ Len(cache) \in Nat
    BY <1>1
  <2>3. DOMAIN more = 1..i
    BY <2>1
  <2>4. QED
    BY <2>1, <2>2, <2>3
<1>4. /\ list \in Seq(Nat) /\ list # <<>>
      /\ DOMAIN list = DOMAIN free \cup {Len(free) + 1} /\ Len(free) + 1 \notin DOMAIN free
      /\ \A k \in DOMAIN free : list[k] = free[k]
      /\ list[Len(free) + 1] = i /\ Back(list) = i
  <2> HIDE DEF i
  <2>1. QED
    BY <1>1, <1>3, AppendFacts
<1>5. BlockCount(s) \in Nat /\ BlockCount(s) > 0
  <2>1. BlockSize \in Nat /\ BlockSize > 0
    BY SlabMemoryAssumption
  <2>2. QED
    BY <2>1 DEF BlockCount
<1> HIDE DEF slab, more, i, list
<1>6. NotIn(free, i) /\ NotIn(full, i)
  BY <1>3 DEF CacheInv, ListsSlabs, NotIn, Hole
<1>7. ListsSlabs(list, more) /\ ListsSlabs(full, more) /\ Back(list) # Hole
  BY <1>3, <1>4 DEF CacheInv, ListsSlabs, Hole
<1>8. ASSUME NEW j \in DOMAIN cache
      PROVE  /\ more[j].used <= BlockCount(s) /\ (more[j].memory <=> more[j].used > 0)
             /\ IsHome(s, list, full, more[j], j)
  <2>1. more[j] = cache[j] /\ j # i
    BY <1>3
  <2>2. IsHome(s, free, full, cache[j], j)
    BY DEF CacheInv
  <2>3. OnlyAt(free, cache[j].index, j) => OnlyAt(list, cache[j].index, j)
    BY <1>4, <2>1 DEF OnlyAt
  <2>4. NotIn(free, j) => NotIn(list, j)
    BY <1>4, <2>1 DEF NotIn
  <2>5. QED
    BY <2>1, <2>2, <2>3, <2>4 DEF IsHome, CacheInv
<1>9. /\ more[i].used <= BlockCount(s) /\ (more[i].memory <=> more[i].used > 0)
      /\ IsHome(s, list, full, more[i], i)
  <2>1. ~IsFull(s, slab)
    BY <1>2, <1>5 DEF IsFull
  <2>2. OnlyAt(list, slab.index, i)
    BY <1>2, <1>4, <1>6 DEF OnlyAt, NotIn
  <2>3. IsHome(s, list, full, slab, i)
    BY <1>6, <2>1, <2>2 DEF IsHome
  <2>4. slab.used <= BlockCount(s) /\ (slab.memory <=> slab.used > 0)
    BY <1>2, <1>5
  <2>5. QED
    BY <1>3, <2>3, <2>4
<1>10. CacheInv(s, list, full, more)
  BY <1>1, <1>3, <1>4, <1>7, <1>8, <1>9 DEF CacheInv
<1>11. QED
  BY <1>2, <1>3, <1>10 DEF slab, more, i, list


(* Slab i was taken from list src to the end of list dst, and every other  *)
(* slab is where it was.                                                   *)
Moved(src, dst, i, left, more) ==
    /\ left \in Seq(Nat) /\ more \in Seq(Nat)
    /\ OnlyAt(more, Len(dst) + 1, i) /\ NotIn(left, i)
    /\ left # <<>> => Back(left) # Hole
    /\ more # <<>> /\ Back(more) # Hole
    /\ \A j \in Nat \ {0, i} :
          /\ \A k : OnlyAt(src, k, j) => OnlyAt(left, k, j)
          /\ \A k : OnlyAt(dst, k, j) => OnlyAt(more, k, j)
          /\ NotIn(src, j) => NotIn(left, j)
          /\ NotIn(dst, j) => NotIn(more, j)
    /\ \A cache : i \in DOMAIN cache =>
          /\ ListsSlabs(src, cache) => ListsSlabs(left, cache)
          /\ ListsSlabs(dst, cache) => ListsSlabs(more, cache)

LEMMA MoveSlabInCache ==
  ASSUME NEW src \in Seq(Nat), NEW dst \in Seq(Nat), NEW i \in Nat \ {0}, NEW n,
         OnlyAt(src, n, i), NotIn(dst, i)
  PROVE  Moved(src, dst, i, Erase(src, n), Append(dst, i))
<1> DEFINE left == Erase(src, n)
           more == Append(dst, i)
<1>1. n \in DOMAIN src /\ src[n] = i /\ \A k \in DOMAIN src : src[k] = i => k = n
  BY DEF OnlyAt
<1>2. /\ left \in Seq(Nat) /\ DOMAIN left \subseteq DOMAIN src
      /\ \A k \in DOMAIN left : left[k] = IF k = n THEN Hole ELSE src[k]
      /\ \A k \in DOMAIN src : k # n /\ src[k] # Hole => k \in DOMAIN left
      /\ left # <<>> => Back(left) # Hole
  BY <1>1, EraseFacts
<1>3. /\ more \in Seq(Nat) /\ more # <<>>
      /\ DOMAIN more = DOMAIN dst \cup {Len(dst) + 1}
      /\ Len(dst) + 1 \notin DOMAIN dst
      /\ \A k \in DOMAIN dst : more[k] = dst[k]
      /\ more[Len(dst) + 1] = i
      /\ Back(more) = i
  BY AppendFacts
<1> HIDE DEF left, more
<1>4. OnlyAt(more, Len(dst) + 1, i) /\ NotIn(left, i)
  BY <1>1, <1>2, <1>3 DEF OnlyAt, NotIn, Hole
<1>5. ASSUME NEW j \in Nat \ {0, i}
      PROVE  /\ \A k : OnlyAt(src, k, j) => OnlyAt(left, k, j)
             /\ \A k : OnlyAt(dst, k, j) => OnlyAt(more, k, j)
             /\ NotIn(src, j) => NotIn(left, j)
             /\ NotIn(dst, j) => NotIn(more, j)
  <2>1. \A k : OnlyAt(src, k, j) => OnlyAt(left, k, j)
    BY <1>1, <1>2 DEF OnlyAt, Hole
  <2>2. \A k : OnlyAt(dst, k, j) => OnlyAt(more, k, j)
    BY <1>3 DEF OnlyAt
  <2>3. NotIn(src, j) => NotIn(left, j)
    BY <1>2 DEF NotIn, Hole
  <2>4. NotIn(dst, j) => NotIn(more, j)
    BY <1>3 DEF NotIn
  <2>5. QED
    BY <2>1, <2>2, <2>3, <2>4
<1>6. ASSUME NEW cache, i \in DOMAIN cache
      PROVE  /\ ListsSlabs(src, cache) => ListsSlabs(left, cache)
             /\ ListsSlabs(dst, cache) => ListsSlabs(more, cache)
  BY <1>2, <1>3, <1>6 DEF ListsSlabs
<1>7. Back(more) # Hole
  BY <1>3 DEF Hole
<1>8. QED
  BY <1>2, <1>3, <1>4, <1>5, <1>6, <1>7 DEF Moved, left, more

(* The facts about a slab that do not depend on the lists.                 *)
SlabInv(s, slab) ==
    /\ slab \in SlabType
    /\ slab.used <= BlockCount(s)
    /\ slab.memory <=> slab.used > 0

(* A slab that changes without becoming full, or ceasing to be, stays      *)
(* where it is.                                                            *)
LEMMA SlabStays ==
  ASSUME NEW s, NEW free, NEW full, NEW cache, CacheInv(s, free, full, cache),
         NEW i \in DOMAIN cache, NEW slab, SlabInv(s, slab), slab.index = cache[i].index,
         IsFull(s, slab) <=> IsFull(s, cache[i])
  PROVE  CacheInv(s, free, full, [cache EXCEPT ![i] = slab])
<1> DEFINE new == [cache EXCEPT ![i] = slab]
<1>1. /\ new \in Seq(SlabType) /\ DOMAIN new = DOMAIN cache /\ new[i] = slab
      /\ \A j \in DOMAIN cache : j # i => new[j] = cache[j]
  BY DEF CacheInv, SlabInv
<1>2. new # <<>> /\ cache # <<>>
  BY <1>1 DEF CacheInv
<1> HIDE DEF new
<1>3. IsHome(s, free, full, slab, i)
  BY DEF CacheInv, IsHome
<1>4. \A j \in DOMAIN new : /\ new[j].used <= BlockCount(s)
                            /\ new[j].memory <=> new[j].used > 0
                            /\ IsHome(s, free, full, new[j], j)
  BY <1>1, <1>3 DEF CacheInv, SlabInv
<1>5. QED
  BY <1>1, <1>2, <1>4 DEF CacheInv, ListsSlabs, new

LEMMA SlabBecomesFull ==
  ASSUME NEW s, NEW free, NEW full, NEW cache, CacheInv(s, free, full, cache),
         NEW i \in DOMAIN cache, NEW slab, SlabInv(s, slab), slab.index = Len(full) + 1,
         IsFull(s, slab), ~IsFull(s, cache[i])
  PROVE  CacheInv(s, Erase(free, cache[i].index), Append(full, i), [cache EXCEPT ![i] = slab])
<1> DEFINE new == [cache EXCEPT ![i] = slab]
           left == Erase(free, cache[i].index)
           more == Append(full, i)
<1>1. /\ new \in Seq(SlabType) /\ DOMAIN new = DOMAIN cache /\ new[i] = slab
      /\ \A j \in DOMAIN cache : j # i => new[j] = cache[j]
  BY DEF CacheInv, SlabInv
<1>2. new # <<>> /\ cache # <<>>
  BY <1>1 DEF CacheInv
<1>3. /\ free \in Seq(Nat) /\ full \in Seq(Nat) /\ DOMAIN cache \subseteq Nat \ {0}
      /\ OnlyAt(free, cache[i].index, i) /\ NotIn(full, i)
  BY DEF CacheInv, IsHome
<1>4. Moved(free, full, i, left, more)
  BY <1>3, MoveSlabInCache
<1> HIDE DEF new, left, more
<1>5. IsHome(s, left, more, slab, i)
  BY <1>4 DEF IsHome, Moved
<1>6. ASSUME NEW j \in DOMAIN cache, j # i PROVE IsHome(s, left, more, cache[j], j)
  <2>1. IsHome(s, free, full, cache[j], j) /\ j \in Nat \ {0, i}
    BY <1>3, <1>6 DEF CacheInv
  <2>2. QED
    BY <1>4, <2>1 DEF IsHome, Moved
<1>7. \A j \in DOMAIN new : /\ new[j].used <= BlockCount(s)
                            /\ new[j].memory <=> new[j].used > 0
                            /\ IsHome(s, left, more, new[j], j)
  BY <1>1, <1>5, <1>6 DEF CacheInv, SlabInv
<1>8. ListsSlabs(left, new) /\ ListsSlabs(more, new)
  <2>1. ListsSlabs(left, cache) /\ ListsSlabs(more, cache)
    BY <1>4 DEF CacheInv, Moved
  <2>2. QED
    BY <1>1, <2>1 DEF ListsSlabs
<1>9. QED
  BY <1>1, <1>2, <1>4, <1>7, <1>8 DEF CacheInv, Moved, new, left, more

LEMMA SlabBecomesFree ==
  ASSUME NEW s, NEW free, NEW full, NEW cache, CacheInv(s, free, full, cache),
         NEW i \in DOMAIN cache, NEW slab, SlabInv(s, slab), slab.index = Len(free) + 1,
         ~IsFull(s, slab), IsFull(s, cache[i])
  PROVE  CacheInv(s, Append(free, i), Erase(full, cache[i].index), [cache EXCEPT ![i] = slab])
<1> DEFINE new == [cache EXCEPT ![i] = slab]
           left == Erase(full, cache[i].index)
           more == Append(free, i)
<1>1. /\ new \in Seq(SlabType) /\ DOMAIN new = DOMAIN cache /\ new[i] = slab
      /\ \A j \in DOMAIN cache : j # i => new[j] = cache[j]
  BY DEF CacheInv, SlabInv
<1>2. new # <<>> /\ cache # <<>>
  BY <1>1 DEF CacheInv
<1>3. /\ free \in Seq(Nat) /\ full \in Seq(Nat) /\ DOMAIN cache \subseteq Nat \ {0}
      /\ OnlyAt(full, cache[i].index, i) /\ NotIn(free, i)
  BY DEF CacheInv, IsHome
<1>4. Moved(full, free, i, left, more)
  BY <1>3, MoveSlabInCache
<1> HIDE DEF new, left, more
<1>5. IsHome(s, more, left, slab, i)
  BY <1>4 DEF IsHome, Moved
<1>6. ASSUME NEW j \in DOMAIN cache, j # i PROVE IsHome(s, more, left, cache[j], j)
  <2>1. IsHome(s, free, full, cache[j], j) /\ j \in Nat \ {0, i}
    BY <1>3, <1>6 DEF CacheInv
  <2>2. QED
    BY <1>4, <2>1 DEF IsHome, Moved
<1>7. \A j \in DOMAIN new : /\ new[j].used <= BlockCount(s)
                            /\ new[j].memory <=> new[j].used > 0
                            /\ IsHome(s, more, left, new[j], j)
  BY <1>1, <1>5, <1>6 DEF CacheInv, SlabInv
<1>8. ListsSlabs(left, new) /\ ListsSlabs(more, new)
  <2>1. ListsSlabs(left, cache) /\ ListsSlabs(more, cache)
    BY <1>4 DEF CacheInv, Moved
  <2>2. QED
    BY <1>1, <2>1 DEF ListsSlabs
<1>9. QED
  BY <1>1, <1>2, <1>4, <1>7, <1>8 DEF CacheInv, Moved, new, left, more


-----------------------------------------------------------------------------
(* Blocks in use, and slabs that hold memory.                              *)

LEMMA SumOfUsed ==
  ASSUME NEW r, NEW f, NEW S, IsFiniteSet(S), \A x \in S : f[x] = r[x].used
  PROVE  MapThenSumSet(LAMBDA x : r[x].used, S) = SumOver(f, S)
<1> DEFINE Is(g) == g = [s \in SUBSET S |-> IF s = {} THEN 0 ELSE r[Some(s)].used + g[s \ {Some(s)}]]
           G == CHOOSE g : Is(g)
           F == CHOOSE g : IsSum(g, f, S)
<1>1. MapThenSumSet(LAMBDA x : r[x].used, S) = G[S]
  BY DEF MapThenSumSet, MapThenFoldSet, Some
<1>2. SumOver(f, S) = F[S]
  BY DEF SumOver, MapThenSumSet, MapThenFoldSet, IsSum, Some
<1>3. \A s \in SUBSET S : s # {} => f[Some(s)] = r[Some(s)].used
  BY SomeIn
<1>4. ASSUME NEW g PROVE Is(g) <=> IsSum(g, f, S)
  <2>1. [s \in SUBSET S |-> IF s = {} THEN 0 ELSE r[Some(s)].used + g[s \ {Some(s)}]]
        = [s \in SUBSET S |-> IF s = {} THEN 0 ELSE f[Some(s)] + g[s \ {Some(s)}]]
    BY <1>3
  <2>2. QED
    BY <2>1 DEF IsSum
<1>5. IsSum(F, f, S)
  BY SumExists
<1>6. Is(G)
  BY <1>4, <1>5
<1>7. IsSum(G, f, S)
  BY <1>4, <1>6
<1> HIDE DEF G, F
<1>8. G[S] = F[S]
  BY <1>5, <1>7, SumUnique
<1>9. QED
  BY <1>1, <1>2, <1>8

LEMMA SumOfCaches ==
  ASSUME NEW r, NEW f, NEW S, IsFiniteSet(S), \A x \in S : f[x] = UsedBlocks(r[x])
  PROVE  MapThenSumSet(LAMBDA x : UsedBlocks(r[x]), S) = SumOver(f, S)
<1> DEFINE Is(g) == g = [s \in SUBSET S |-> IF s = {} THEN 0 ELSE UsedBlocks(r[Some(s)]) + g[s \ {Some(s)}]]
           G == CHOOSE g : Is(g)
           F == CHOOSE g : IsSum(g, f, S)
<1>1. MapThenSumSet(LAMBDA x : UsedBlocks(r[x]), S) = G[S]
  BY DEF MapThenSumSet, MapThenFoldSet, Some
<1>2. SumOver(f, S) = F[S]
  BY DEF SumOver, MapThenSumSet, MapThenFoldSet, IsSum, Some
<1>3. \A s \in SUBSET S : s # {} => f[Some(s)] = UsedBlocks(r[Some(s)])
  BY SomeIn
<1>4. ASSUME NEW g PROVE Is(g) <=> IsSum(g, f, S)
  <2>1. [s \in SUBSET S |-> IF s = {} THEN 0 ELSE UsedBlocks(r[Some(s)]) + g[s \ {Some(s)}]]
        = [s \in SUBSET S |-> IF s = {} THEN 0 ELSE f[Some(s)] + g[s \ {Some(s)}]]
    BY <1>3
  <2>2. QED
    BY <2>1 DEF IsSum
<1>5. IsSum(F, f, S)
  BY SumExists
<1>6. Is(G)
  BY <1>4, <1>5
<1>7. IsSum(G, f, S)
  BY <1>4, <1>6
<1> HIDE DEF G, F
<1>8. G[S] = F[S]
  BY <1>5, <1>7, SumUnique
<1>9. QED
  BY <1>1, <1>2, <1>8

LEMMA FiniteCache ==
  ASSUME NEW cache \in Seq(SlabType)
  PROVE  IsFiniteSet(DOMAIN cache) /\ \A i \in DOMAIN cache : cache[i] \in SlabType
<1>1. DOMAIN cache = 1..Len(cache) /\ Len(cache) \in Nat
  OBVIOUS
<1>2. QED
  BY <1>1, FS_Interval

LEMMA UsedAsSum ==
  ASSUME NEW cache \in Seq(SlabType), NEW S, S = DOMAIN cache, NEW f, f = [i \in S |-> cache[i].used]
  PROVE  /\ UsedBlocks(cache) = SumOver(f, S) /\ UsedBlocks(cache) \in Nat
         /\ IsFiniteSet(S) /\ \A i \in S : f[i] \in Nat /\ cache[i].used <= UsedBlocks(cache)
<1>1. IsFiniteSet(S) /\ \A i \in S : f[i] = cache[i].used /\ f[i] \in Nat
  BY FiniteCache DEF SlabType
<1>2. UsedBlocks(cache) = SumOver(f, S)
  BY <1>1, SumOfUsed DEF UsedBlocks
<1>3. SumOver(f, S) \in Nat /\ \A i \in S : f[i] <= SumOver(f, S)
  BY <1>1, SumNat
<1>4. QED
  BY <1>1, <1>2, <1>3

LEMMA UsedNat ==
  ASSUME NEW cache \in Seq(SlabType)
  PROVE  /\ UsedBlocks(cache) \in Nat
         /\ \A i \in DOMAIN cache : cache[i].used <= UsedBlocks(cache)
<1>1. PICK S, f : S = DOMAIN cache /\ f = [i \in S |-> cache[i].used]
  OBVIOUS
<1>2. QED
  BY <1>1, UsedAsSum

LEMMA UsedEmpty == UsedBlocks(<<>>) = 0
<1>1. PICK cache : cache = <<>>
  OBVIOUS
<1>2. PICK S, f : S = DOMAIN cache /\ f = [i \in S |-> cache[i].used]
  OBVIOUS
<1>3. cache \in Seq(SlabType) /\ S = {}
  BY <1>1, <1>2
<1>4. UsedBlocks(cache) = SumOver(f, S)
  BY <1>2, <1>3, UsedAsSum
<1>5. QED
  BY <1>1, <1>3, <1>4, SumEmpty

LEMMA UsedChange ==
  ASSUME NEW cache \in Seq(SlabType), NEW i \in DOMAIN cache, NEW slab \in SlabType,
         NEW new, new = [cache EXCEPT ![i] = slab]
  PROVE  UsedBlocks(new) = UsedBlocks(cache) + slab.used - cache[i].used
<1>1. PICK S, f, g : S = DOMAIN cache /\ f = [j \in S |-> cache[j].used]
                                     /\ g = [j \in S |-> new[j].used]
  OBVIOUS
<1>2. new \in Seq(SlabType) /\ DOMAIN new = S /\ new[i] = slab
      /\ \A j \in S \ {i} : new[j] = cache[j]
  BY <1>1
<1>3. /\ UsedBlocks(cache) = SumOver(f, S) /\ IsFiniteSet(S) /\ \A j \in S : f[j] \in Nat
  BY <1>1, UsedAsSum
<1>4. /\ UsedBlocks(new) = SumOver(g, S) /\ \A j \in S : g[j] \in Nat
  BY <1>1, <1>2, UsedAsSum
<1>5. \A j \in S : f[j] \in Int /\ g[j] \in Int
  BY <1>3, <1>4
<1>6. \A j \in S \ {i} : g[j] = f[j]
  BY <1>1, <1>2
<1>7. SumOver(g, S) = SumOver(f, S) + g[i] - f[i]
  <2>1. i \in S
    BY <1>1
  <2>2. QED
    BY <1>3, <1>5, <1>6, <2>1, SumChange
<1>8. QED
  BY <1>1, <1>2, <1>3, <1>4, <1>7

LEMMA UsedAppend ==
  ASSUME NEW cache \in Seq(SlabType), NEW slab \in SlabType, slab.used = 0,
         NEW new, new = Append(cache, slab)
  PROVE  new \in Seq(SlabType) /\ UsedBlocks(new) = UsedBlocks(cache)
<1>1. PICK S, T, f, g, n : /\ S = DOMAIN cache /\ f = [j \in S |-> cache[j].used]
                           /\ T = DOMAIN new /\ g = [j \in T |-> new[j].used]
                           /\ n = Len(cache) + 1
  OBVIOUS
<1>2. /\ new \in Seq(SlabType) /\ T = S \cup {n} /\ n \notin S /\ new[n] = slab
      /\ \A j \in S : new[j] = cache[j]
  BY <1>1
<1>3. /\ UsedBlocks(cache) = SumOver(f, S) /\ UsedBlocks(cache) \in Nat /\ IsFiniteSet(S)
      /\ \A j \in S : f[j] \in Nat
  BY <1>1, UsedAsSum
<1>4. /\ UsedBlocks(new) = SumOver(g, T) /\ \A j \in T : g[j] \in Nat
  BY <1>1, <1>2, UsedAsSum
<1>5. g[n] = 0 /\ \A j \in S : f[j] = g[j]
  BY <1>1, <1>2
<1>6. SumOver(g, T) = SumOver(g, S) + g[n]
  <2>1. \A j \in S \cup {n} : g[j] \in Int
    BY <1>2, <1>4
  <2>2. QED
    BY <1>2, <1>3, <2>1, SumAdd
<1>7. SumOver(f, S) = SumOver(g, S)
  BY <1>3, <1>5, SumSame
<1>8. QED
  BY <1>2, <1>3, <1>4, <1>5, <1>6, <1>7

Tables == [Sizes -> Seq(SlabType)]

LEMMA BlocksAsSum ==
  ASSUME NEW table \in Tables, NEW f, f = [s \in Sizes |-> UsedBlocks(table[s])]
  PROVE  /\ BlocksInUse(table) = SumOver(f, Sizes) /\ BlocksInUse(table) \in Nat
         /\ \A s \in Sizes : f[s] \in Nat /\ UsedBlocks(table[s]) <= BlocksInUse(table)
<1>1. \A s \in Sizes : f[s] = UsedBlocks(table[s]) /\ f[s] \in Nat
  BY UsedNat DEF Tables
<1>2. BlocksInUse(table) = SumOver(f, Sizes)
  BY <1>1, SumOfCaches, SizesArePowers DEF BlocksInUse
<1>3. SumOver(f, Sizes) \in Nat /\ \A s \in Sizes : f[s] <= SumOver(f, Sizes)
  BY <1>1, SumNat, SizesArePowers
<1>4. QED
  BY <1>1, <1>2, <1>3

LEMMA BlocksNat ==
  ASSUME NEW table \in Tables
  PROVE  /\ BlocksInUse(table) \in Nat
         /\ \A s \in Sizes : \A i \in DOMAIN table[s] : table[s][i].used <= BlocksInUse(table)
<1>1. PICK f : f = [s \in Sizes |-> UsedBlocks(table[s])]
  OBVIOUS
<1>2. /\ BlocksInUse(table) \in Nat
      /\ \A s \in Sizes : UsedBlocks(table[s]) <= BlocksInUse(table)
  BY <1>1, BlocksAsSum
<1>3. ASSUME NEW s \in Sizes, NEW i \in DOMAIN table[s]
      PROVE  table[s][i].used <= BlocksInUse(table)
  <2>1. table[s] \in Seq(SlabType)
    BY DEF Tables
  <2>2. UsedBlocks(table[s]) \in Nat /\ table[s][i].used <= UsedBlocks(table[s])
    BY <2>1, UsedNat
  <2>3. table[s][i].used \in Nat
    BY <2>1, FiniteCache DEF SlabType
  <2>4. QED
    BY <1>2, <2>2, <2>3
<1>4. QED
  BY <1>2, <1>3

LEMMA BlocksNone ==
  ASSUME NEW table, table = [s \in Sizes |-> <<>>]
  PROVE  table \in Tables /\ BlocksInUse(table) = 0
<1>1. PICK f : f = [s \in Sizes |-> UsedBlocks(table[s])]
  OBVIOUS
<1>2. table \in Tables
  BY DEF Tables
<1>3. \A s \in Sizes : f[s] = 0
  BY <1>1, UsedEmpty
<1>4. QED
  BY <1>1, <1>2, <1>3, BlocksAsSum, SumZero, SizesArePowers

(* One cache changes.                                                      *)
LEMMA BlocksChange ==
  ASSUME NEW table \in Tables, NEW s \in Sizes, NEW cache \in Seq(SlabType),
         NEW new, new = [table EXCEPT ![s] = cache]
  PROVE  /\ new \in Tables
         /\ BlocksInUse(new) = BlocksInUse(table) + UsedBlocks(cache) - UsedBlocks(table[s])
<1>1. PICK f, g : /\ f = [t \in Sizes |-> UsedBlocks(table[t])]
                  /\ g = [t \in Sizes |-> UsedBlocks(new[t])]
  OBVIOUS
<1>2. new \in Tables /\ new[s] = cache /\ \A t \in Sizes \ {s} : new[t] = table[t]
  BY DEF Tables
<1>3. BlocksInUse(table) = SumOver(f, Sizes) /\ \A t \in Sizes : f[t] \in Nat
  BY <1>1, BlocksAsSum
<1>4. BlocksInUse(new) = SumOver(g, Sizes) /\ \A t \in Sizes : g[t] \in Nat
  BY <1>1, <1>2, BlocksAsSum
<1>5. \A t \in Sizes : f[t] \in Int /\ g[t] \in Int
  BY <1>3, <1>4
<1>6. \A t \in Sizes \ {s} : g[t] = f[t]
  BY <1>1, <1>2
<1>7. SumOver(g, Sizes) = SumOver(f, Sizes) + g[s] - f[s]
  BY <1>5, <1>6, SumChange, SizesArePowers
<1>8. QED
  BY <1>1, <1>2, <1>3, <1>4, <1>7

(* The slabs of a cache that hold memory, when one of them changes.        *)
LEMMA HoldingChange ==
  ASSUME NEW cache \in Seq(SlabType), NEW i \in DOMAIN cache, NEW slab \in SlabType,
         NEW new, new = [cache EXCEPT ![i] = slab]
  PROVE  /\ Cardinality(Holding(new)) \in Nat /\ Cardinality(Holding(cache)) \in Nat
         /\ Cardinality(Holding(new)) =
              Cardinality(Holding(cache)) + (IF slab.used > 0 THEN 1 ELSE 0)
                                          - (IF cache[i].used > 0 THEN 1 ELSE 0)
<1>1. /\ DOMAIN new = DOMAIN cache /\ new[i] = slab
      /\ \A j \in DOMAIN cache : j # i => new[j] = cache[j]
  OBVIOUS
<1>2. IsFiniteSet(Holding(cache))
  BY FiniteCache, FS_Subset DEF Holding
<1>3. Holding(new) \ {i} = Holding(cache) \ {i}
  BY <1>1 DEF Holding
<1>4. (i \in Holding(new) <=> slab.used > 0) /\ (i \in Holding(cache) <=> cache[i].used > 0)
  BY <1>1 DEF Holding
<1>5. /\ Cardinality(Holding(new)) \in Nat /\ Cardinality(Holding(cache)) \in Nat
      /\ Cardinality(Holding(new)) =
           Cardinality(Holding(cache)) + (IF i \in Holding(new) THEN 1 ELSE 0)
                                       - (IF i \in Holding(cache) THEN 1 ELSE 0)
  BY <1>2, <1>3, DifferInOne
<1>6. QED
  BY <1>4, <1>5

LEMMA HoldingAppend ==
  ASSUME NEW cache \in Seq(SlabType), NEW slab \in SlabType, slab.used = 0
  PROVE  Holding(Append(cache, slab)) = Holding(cache)
BY DEF Holding


(* One slab of the caches changes.                                         *)
Changed(table, s, i, slab, new) ==
    /\ new \in Tables
    /\ BlocksInUse(new) = BlocksInUse(table) + slab.used - table[s][i].used
    /\ \A t \in Sizes \ {s} : new[t] = table[t]
    /\ Cardinality(Holding(new[s])) \in Nat /\ Cardinality(Holding(table[s])) \in Nat
    /\ Cardinality(Holding(new[s])) = Cardinality(Holding(table[s]))
                                         + (IF slab.used > 0 THEN 1 ELSE 0)
                                         - (IF table[s][i].used > 0 THEN 1 ELSE 0)

LEMMA SlabChange ==
  ASSUME NEW table \in Tables, NEW s \in Sizes, NEW i \in DOMAIN table[s], NEW slab \in SlabType,
         NEW new, new = [table EXCEPT ![s] = [table[s] EXCEPT ![i] = slab]]
  PROVE  Changed(table, s, i, slab, new)
<1>1. PICK old, cache : old = table[s] /\ cache = [old EXCEPT ![i] = slab]
  OBVIOUS
<1>2. old \in Seq(SlabType) /\ cache \in Seq(SlabType) /\ i \in DOMAIN old
  BY <1>1 DEF Tables
<1>3. new = [table EXCEPT ![s] = cache]
  BY <1>1
<1>4. UsedBlocks(cache) = UsedBlocks(old) + slab.used - old[i].used
  BY <1>1, <1>2, UsedChange
<1>5. /\ new \in Tables
      /\ BlocksInUse(new) = BlocksInUse(table) + UsedBlocks(cache) - UsedBlocks(old)
  <2>1. /\ new \in Tables
        /\ BlocksInUse(new) = BlocksInUse(table) + UsedBlocks(cache) - UsedBlocks(table[s])
    BY <1>2, <1>3, BlocksChange
  <2>2. QED
    BY <1>1, <2>1
<1>6. BlocksInUse(table) \in Nat /\ UsedBlocks(old) \in Nat /\ slab.used \in Nat
      /\ old[i].used \in Nat
  BY <1>2, BlocksNat, UsedNat, FiniteCache DEF SlabType
<1>7. /\ Cardinality(Holding(cache)) \in Nat /\ Cardinality(Holding(old)) \in Nat
      /\ Cardinality(Holding(cache)) =
           Cardinality(Holding(old)) + (IF slab.used > 0 THEN 1 ELSE 0)
                                     - (IF old[i].used > 0 THEN 1 ELSE 0)
  BY <1>1, <1>2, HoldingChange
<1>8. new[s] = cache /\ \A t \in Sizes \ {s} : new[t] = table[t]
  BY <1>3 DEF Tables
<1>9. BlocksInUse(new) = BlocksInUse(table) + slab.used - table[s][i].used
  BY <1>1, <1>4, <1>5, <1>6
<1>10. QED
  BY <1>1, <1>5, <1>7, <1>8, <1>9 DEF Changed

-----------------------------------------------------------------------------
(* The steps.                                                              *)

LEMMA InitIInv == Init => IInv
<1> SUFFICES ASSUME Init PROVE IInv
  OBVIOUS
<1> USE DEF Init, InitSlabs
<1>1. CachesInv
  <2>1. \A s \in Sizes : CacheInv(s, <<>>, <<>>, <<>>)
    BY EmptyCache
  <2>2. QED
    BY <2>1 DEF CachesInv
<1>2. OutstandingInv
  <2>1. Holding(<<>>) = {}
    BY DEF Holding
  <2>2. Cardinality(Holding(<<>>)) = 0
    BY <2>1, FS_EmptySet
  <2>3. QED
    BY <2>2 DEF OutstandingInv, Prefetched, None
<1>3. RefsInv
  <2>1. slabs = [s \in Sizes |-> <<>>]
    OBVIOUS
  <2>2. BlocksInUse(slabs) = 0
    BY <2>1, BlocksNone
  <2>3. ~kept /\ kept \in BOOLEAN /\ refs = 0 /\ nextSlab = None
    OBVIOUS
  <2>4. Own(kept) = 0
    BY <2>3 DEF Own
  <2>5. QED
    BY <2>2, <2>3, <2>4 DEF RefsInv
<1>4. QED
  BY <1>1, <1>2, <1>3 DEF IInv, PrefetchInv, OtherInv

(* The slab that TryAllocateFromSlab takes: the caches with the new slab,  *)
(* if there is one, and the slab at the end of the free list.              *)
SlabReady(s, i, free, table) ==
    /\ s \in Sizes /\ free \in [Sizes -> Seq(Nat)] /\ table \in Tables
    /\ \A t \in Sizes : CacheInv(t, free[t], fullList[t], table[t])
    /\ i = Back(free[s]) /\ i \in DOMAIN table[s] /\ i \in Nat \ {0}
    /\ ~IsFull(s, table[s][i])
    /\ BlocksInUse(table) = BlocksInUse(slabs)
    /\ \A t \in Sizes : Holding(table[t]) = Holding(slabs[t])

LEMMA CachesAreRoomy ==
  ASSUME NEW free, NEW full, NEW table,
         \A t \in Sizes : CacheInv(t, free[t], full[t], table[t])
  PROVE  Roomy(free)
BY BackIsFree DEF Roomy

(* The caches with the new slab, if there is to be one.                    *)
SlabsFor(s, new) ==
    IF new THEN [slabs EXCEPT ![s] = Append(@, NewSlab(Len(freeList[s]) + 1))] ELSE slabs

FreeFor(s, new, table) ==
    IF new THEN [freeList EXCEPT ![s] = Append(@, Len(table[s]))] ELSE freeList

LEMMA TakeSlab ==
  ASSUME CachesInv, NEW s, UsableSize(s), NEW new \in BOOLEAN, ~new => freeList[s] # <<>>,
         NEW table, table = SlabsFor(s, new), NEW free, free = FreeFor(s, new, table)
  PROVE  SlabReady(s, Back(free[s]), free, table)
<1>1. s \in Sizes /\ s \in Nat /\ BlockSize <= s
  BY SizesArePowers DEF UsableSize
<1>2. slabs \in Tables /\ freeList \in [Sizes -> Seq(Nat)]
  BY DEF CachesInv, Tables
<1>3. /\ free \in [Sizes -> Seq(Nat)] /\ table \in Tables
      /\ \A t \in Sizes : CacheInv(t, free[t], fullList[t], table[t])
      /\ BlocksInUse(table) = BlocksInUse(slabs)
      /\ \A t \in Sizes : Holding(table[t]) = Holding(slabs[t])
      /\ free[s] # <<>>
  <2>1. CASE ~new
    BY <1>1, <1>2, <2>1 DEF CachesInv, SlabsFor, FreeFor
  <2>2. CASE new
    <3>1. PICK slab, cache, more, list :
             /\ slab = NewSlab(Len(freeList[s]) + 1) /\ cache = slabs[s]
             /\ more = Append(cache, slab) /\ list = Append(freeList[s], Len(more))
      OBVIOUS
    <3>2. cache \in Seq(SlabType) /\ slab \in SlabType /\ slab.used = 0
      <4>1. Len(freeList[s]) \in Nat
        BY <1>1, <1>2
      <4>2. QED
        BY <1>1, <1>2, <3>1, <4>1 DEF NewSlab, SlabType, Tables
    <3>3. more \in Seq(SlabType) /\ UsedBlocks(more) = UsedBlocks(cache)
      BY <3>1, <3>2, UsedAppend
    <3>4. table = [slabs EXCEPT ![s] = more]
      BY <2>2, <3>1 DEF SlabsFor
    <3>5. table[s] = more /\ \A t \in Sizes : t # s => table[t] = slabs[t]
      BY <1>1, <1>2, <3>4 DEF Tables
    <3>6. CacheInv(s, freeList[s], fullList[s], cache)
      BY <1>1, <3>1 DEF CachesInv
    <3>7. CacheInv(s, list, fullList[s], more)
      BY <1>1, <3>1, <3>6, NewSlabInCache
    <3>8. free = [freeList EXCEPT ![s] = list]
      BY <2>2, <3>1, <3>5 DEF FreeFor
    <3>9. list \in Seq(Nat) /\ list # <<>>
      <4>1. Len(more) \in Nat /\ freeList[s] \in Seq(Nat)
        BY <1>1, <1>2, <3>3
      <4>2. QED
        BY <3>1, <4>1
    <3>10. free \in [Sizes -> Seq(Nat)] /\ free[s] = list
           /\ \A t \in Sizes : t # s => free[t] = freeList[t]
      BY <1>1, <1>2, <3>8, <3>9
    <3>11. \A t \in Sizes : CacheInv(t, free[t], fullList[t], table[t])
      BY <3>5, <3>7, <3>10 DEF CachesInv
    <3>12. table \in Tables /\ BlocksInUse(table) = BlocksInUse(slabs)
      <4>1. /\ table \in Tables
            /\ BlocksInUse(table) = BlocksInUse(slabs) + UsedBlocks(more) - UsedBlocks(slabs[s])
        BY <1>1, <1>2, <3>3, <3>4, BlocksChange
      <4>2. BlocksInUse(slabs) \in Nat /\ UsedBlocks(cache) \in Nat
        BY <1>2, <3>2, BlocksNat, UsedNat
      <4>3. QED
        BY <3>1, <3>3, <4>1, <4>2
    <3>13. Holding(more) = Holding(cache)
      BY <3>1, <3>2, HoldingAppend
    <3>14. QED
      BY <3>1, <3>5, <3>9, <3>10, <3>11, <3>12, <3>13
  <2>3. QED
    BY <2>1, <2>2
<1>4. CacheInv(s, free[s], fullList[s], table[s]) /\ free[s] # <<>>
  BY <1>1, <1>3
<1>5. /\ Back(free[s]) \in DOMAIN table[s] /\ Back(free[s]) \in Nat \ {0}
      /\ ~IsFull(s, table[s][Back(free[s])])
  BY <1>4, BackIsFree
<1>6. QED
  BY <1>1, <1>3, <1>5 DEF SlabReady


LEMMA OwnReference == \A k \in BOOLEAN : Own(k) \in {0, 1} /\ (k <=> Own(k) = 1)
BY DEF Own

(* Giving the pre-fetched memory back leaves what the slabs hold.          *)
LEMMA GivenBack ==
  ASSUME PrefetchInv, NEW held \in [Sizes -> Nat], NEW out \in [Sizes -> Nat],
         \A t \in Sizes : out[t] = held[t] + Prefetched(nextSlab, t)
  PROVE  GiveBack(out) = held
<1>1. CASE nextSlab.state = "ready"
  <2>1. nextSlab.size \in Sizes
    BY <1>1 DEF PrefetchInv, None
  <2>2. GiveBack(out) = [out EXCEPT ![nextSlab.size] = @ - 1]
    BY <1>1 DEF GiveBack
  <2>3. \A t \in Sizes : [out EXCEPT ![nextSlab.size] = @ - 1][t] = held[t]
    BY <1>1, <2>1 DEF Prefetched
  <2>4. QED
    BY <2>2, <2>3
<1>2. CASE nextSlab.state # "ready"
  <2>1. \A t \in Sizes : out[t] = held[t]
    BY <1>2 DEF Prefetched
  <2>2. QED
    BY <1>2, <2>1 DEF GiveBack
<1>3. QED
  BY <1>1, <1>2

HeldMemory == [t \in Sizes |-> Cardinality(Holding(slabs[t]))]

LEMMA HeldNat ==
  ASSUME CachesInv
  PROVE  HeldMemory \in [Sizes -> Nat]
BY FiniteCache, FS_Subset, FS_CardinalityType DEF HeldMemory, Holding, CachesInv

(* What the callback of TrySubAllocateMemory leaves: the memory of the     *)
(* slab, new or pre-fetched, is accounted for, and pre-fetched memory of   *)
(* another size was given back.                                            *)
LEMMA MemoryGot ==
  ASSUME CachesInv, PrefetchInv, OutstandingInv, NEW s \in Sizes, NEW has \in BOOLEAN,
         NEW o \in GetOrCreateMemory(s, has)
  PROVE  /\ o.ok \in BOOLEAN /\ o.hit \in Nat /\ o.miss \in Nat
         /\ o.next = None \/ o.next = nextSlab
         /\ o.out \in [Sizes -> Nat]
         /\ \A t \in Sizes :
               o.out[t] = HeldMemory[t] + Prefetched(o.next, t)
                          + (IF o.ok /\ ~has /\ t = s THEN 1 ELSE 0)
<1> DEFINE keepNext == [ok |-> TRUE, next |-> nextSlab, hit |-> 0, miss |-> 0, out |-> outstanding]
           missed == [keepNext EXCEPT !.next = None,
                                      !.miss = IF nextSlab = None THEN 0 ELSE 1,
                                      !.out = GiveBack(@)]
<1>1. HeldMemory \in [Sizes -> Nat] /\ outstanding \in [Sizes -> Nat]
      /\ \A t \in Sizes : outstanding[t] = HeldMemory[t] + Prefetched(nextSlab, t)
  BY HeldNat DEF OutstandingInv, HeldMemory
<1>2. \A t : Prefetched(None, t) = 0
  BY DEF Prefetched, None
<1>3. GiveBack(outstanding) = HeldMemory
  BY <1>1, GivenBack
<1> DEFINE late == IF nextSlab = None THEN 0 ELSE 1
<1>4. late \in {0, 1}
  OBVIOUS
<1> HIDE DEF late
<1>5. missed = [ok |-> TRUE, next |-> None, hit |-> 0, miss |-> late, out |-> HeldMemory]
  <2>1. missed = [keepNext EXCEPT !.next = None, !.miss = late, !.out = GiveBack(keepNext.out)]
    BY DEF late
  <2>2. keepNext.out = outstanding
    OBVIOUS
  <2>3. missed = [keepNext EXCEPT !.next = None, !.miss = late, !.out = HeldMemory]
    BY <1>3, <2>1, <2>2
  <2> HIDE DEF missed
  <2>4. QED
    BY <2>3
<1> HIDE DEF missed
<1>6. CASE has
  <2>1. o = keepNext
    BY <1>6 DEF GetOrCreateMemory
  <2>2. QED
    BY <1>1, <1>6, <2>1
<1>7. CASE ~has /\ nextSlab = [size |-> s, state |-> "ready"]
  <2>1. o = [keepNext EXCEPT !.next = None, !.hit = 1]
    BY <1>7 DEF GetOrCreateMemory
  <2>2. o.ok /\ o.ok \in BOOLEAN /\ o.hit = 1 /\ o.miss = 0 /\ o.next = None /\ o.out = outstanding
    BY <2>1
  <2>3. \A t \in Sizes : Prefetched(nextSlab, t) = IF t = s THEN 1 ELSE 0
    BY <1>7 DEF Prefetched
  <2>4. QED
    BY <1>1, <1>2, <1>7, <2>2, <2>3
<1>8. CASE ~has /\ nextSlab # [size |-> s, state |-> "ready"]
  <2>1. \/ o = [missed EXCEPT !.out[s] = @ + 1]
        \/ o = [missed EXCEPT !.ok = FALSE]
    BY <1>8 DEF GetOrCreateMemory, missed
  <2>2. CASE o = [missed EXCEPT !.out[s] = @ + 1]
    <3>1. o.ok /\ o.ok \in BOOLEAN /\ o.hit = 0 /\ o.miss \in {0, 1} /\ o.next = None
          /\ o.out = [HeldMemory EXCEPT ![s] = @ + 1]
      BY <1>4, <1>5, <2>2
    <3>2. QED
      BY <1>1, <1>2, <1>8, <3>1
  <2>3. CASE o = [missed EXCEPT !.ok = FALSE]
    <3>1. ~o.ok /\ o.ok \in BOOLEAN /\ o.hit = 0 /\ o.miss \in {0, 1} /\ o.next = None
          /\ o.out = HeldMemory
      BY <1>4, <1>5, <2>3
    <3>2. QED
      BY <1>1, <1>2, <3>1
  <2>4. QED
    BY <2>1, <2>2, <2>3
<1>9. QED
  BY <1>6, <1>7, <1>8


(* The slab that a block is taken from, before it may become full.         *)
LEMMA BlockTaken ==
  ASSUME NEW s \in Nat, NEW free, NEW full, NEW cache, CacheInv(s, free, full, cache),
         NEW i \in DOMAIN cache, ~IsFull(s, cache[i])
  PROVE  /\ SlabInv(s, WithBlock(cache[i])) /\ WithBlock(cache[i]).index = cache[i].index
         /\ WithBlock(cache[i]).used = cache[i].used + 1 /\ WithBlock(cache[i]).memory
         /\ cache[i].used \in Nat /\ cache[i].index \in Nat \ {0}
<1>1. PICK slab : slab = cache[i]
  OBVIOUS
<1>2. slab \in SlabType /\ slab.used <= BlockCount(s) /\ slab.used # BlockCount(s)
  BY <1>1, FiniteCache DEF CacheInv, IsFull
<1>3. BlockCount(s) \in Int
  <2>1. BlockSize \in Nat \ {0}
    BY SlabMemoryAssumption
  <2>2. QED
    BY <2>1 DEF BlockCount
<1>4. \A x \in SlabType : /\ WithBlock(x) \in SlabType /\ WithBlock(x).used = x.used + 1
                          /\ WithBlock(x).index = x.index /\ WithBlock(x).memory = TRUE
  <2>1. \A x \in SlabType, n \in Nat, m \in BOOLEAN :
           /\ [x EXCEPT !.used = n, !.memory = m] \in SlabType
           /\ [x EXCEPT !.used = n, !.memory = m].used = n
           /\ [x EXCEPT !.used = n, !.memory = m].index = x.index
           /\ [x EXCEPT !.used = n, !.memory = m].memory = m
    BY DEF SlabType
  <2>2. \A x \in SlabType : x.used + 1 \in Nat
    BY DEF SlabType
  <2>3. QED
    BY <2>1, <2>2 DEF WithBlock
<1>5. /\ slab.used \in Nat /\ slab.index \in Nat \ {0}
      /\ WithBlock(slab).used = slab.used + 1 /\ WithBlock(slab).index = slab.index
      /\ WithBlock(slab).memory = TRUE
  BY <1>2, <1>4 DEF SlabType
<1>6. WithBlock(slab).memory
  BY <1>5
<1>7. WithBlock(slab) \in SlabType
  BY <1>2, <1>4
<1>8. WithBlock(slab).used <= BlockCount(s) /\ WithBlock(slab).used > 0
  BY <1>2, <1>3, <1>5
<1>9. SlabInv(s, WithBlock(slab))
  BY <1>6, <1>7, <1>8 DEF SlabInv
<1>10. QED
  BY <1>1, <1>5, <1>6, <1>9


(* The block that is taken, in the caches.                                 *)
LEMMA SlabUsed ==
  ASSUME NEW s, NEW i, NEW free, NEW table, SlabReady(s, i, free, table),
         fullList \in [Sizes -> Seq(Nat)],
         NEW used, used = [table EXCEPT ![s][i] = WithBlock(@)],
         MoveToFull(free, used, s, i)
  PROVE  /\ CachesInv' /\ BlocksInUse(slabs') = BlocksInUse(slabs) + 1
         /\ \A t \in Sizes \ {s} : Holding(slabs'[t]) = Holding(slabs[t])
         /\ Cardinality(Holding(slabs'[s])) =
               Cardinality(Holding(slabs[s])) + (IF table[s][i].memory THEN 0 ELSE 1)
<1> USE DEF SlabReady
<1>1. PICK cache, new : cache = table[s] /\ new = WithBlock(cache[i])
  OBVIOUS
<1>2. /\ s \in Nat /\ cache \in Seq(SlabType) /\ i \in DOMAIN cache
      /\ CacheInv(s, free[s], fullList[s], cache) /\ ~IsFull(s, cache[i])
  BY <1>1, SizesArePowers DEF Tables
<1>3. /\ SlabInv(s, new) /\ new.index = cache[i].index /\ new.used = cache[i].used + 1
      /\ new.memory /\ cache[i].used \in Nat
  BY <1>1, <1>2, BlockTaken
<1>4. /\ used = [table EXCEPT ![s] = [cache EXCEPT ![i] = new]]
      /\ used[s] = [cache EXCEPT ![i] = new] /\ used[s][i] = new
      /\ \A t \in Sizes : t # s => used[t] = table[t]
  BY <1>1, <1>2 DEF WithBlock, Tables
<1>5. ASSUME NEW last, SlabInv(s, last), last.used = cache[i].used + 1,
             slabs' = [table EXCEPT ![s] = [table[s] EXCEPT ![i] = last]]
      PROVE  /\ slabs' \in Tables /\ BlocksInUse(slabs') = BlocksInUse(slabs) + 1
             /\ slabs'[s] = [cache EXCEPT ![i] = last]
             /\ \A t \in Sizes \ {s} : slabs'[t] = table[t]
             /\ Cardinality(Holding(slabs'[s])) =
                   Cardinality(Holding(slabs[s])) + (IF table[s][i].memory THEN 0 ELSE 1)
  <2>1. last \in SlabType
    BY <1>5 DEF SlabInv
  <2>2. Changed(table, s, i, last, slabs')
    <3>1. PICK next : next = slabs'
      OBVIOUS
    <3>2. next = [table EXCEPT ![s] = [table[s] EXCEPT ![i] = last]] /\ s \in Sizes
          /\ i \in DOMAIN table[s] /\ table \in Tables
      BY <1>5, <3>1
    <3>3. Changed(table, s, i, last, next)
      BY <2>1, <3>2, SlabChange
    <3>4. QED
      BY <3>1, <3>3
  <2>3. BlocksInUse(table) \in Nat /\ Holding(table[s]) = Holding(slabs[s])
    BY BlocksNat
  <2>4. (table[s][i].memory <=> table[s][i].used > 0) /\ table[s][i].used \in Nat
        /\ last.used > 0 /\ last.used = table[s][i].used + 1
    BY <1>1, <1>2, <1>3, <1>5 DEF CacheInv
  <2>5. Cardinality(Holding(slabs'[s])) =
           Cardinality(Holding(slabs[s])) + (IF table[s][i].memory THEN 0 ELSE 1)
    <3>1. /\ Cardinality(Holding(slabs'[s])) \in Nat /\ Cardinality(Holding(slabs[s])) \in Nat
          /\ Cardinality(Holding(slabs'[s])) =
                Cardinality(Holding(slabs[s])) + 1 - (IF table[s][i].used > 0 THEN 1 ELSE 0)
      BY <2>2, <2>3, <2>4 DEF Changed
    <3>2. CASE table[s][i].memory
      BY <2>4, <3>1, <3>2
    <3>3. CASE ~table[s][i].memory
      BY <2>4, <3>1, <3>3
    <3>4. QED
      BY <3>2, <3>3
  <2>6. BlocksInUse(slabs') = BlocksInUse(slabs) + 1
    BY <2>2, <2>3, <2>4 DEF Changed
  <2>7. /\ slabs' \in Tables /\ slabs'[s] = [cache EXCEPT ![i] = last]
        /\ \A t \in Sizes \ {s} : slabs'[t] = table[t]
    BY <1>1, <1>5, <2>2 DEF Changed, Tables
  <2>8. QED
    BY <2>5, <2>6, <2>7
<1>6. CASE ~IsFull(s, new)
  <2>1. freeList' = free /\ fullList' = fullList /\ slabs' = used
    BY <1>4, <1>6 DEF MoveToFull
  <2>2. CacheInv(s, free[s], fullList[s], [cache EXCEPT ![i] = new])
    BY <1>2, <1>3, <1>6, SlabStays
  <2>3. slabs' = [table EXCEPT ![s] = [table[s] EXCEPT ![i] = new]]
    BY <1>1, <1>4, <2>1
  <2>4. /\ slabs' \in Tables /\ BlocksInUse(slabs') = BlocksInUse(slabs) + 1
        /\ slabs'[s] = [cache EXCEPT ![i] = new]
        /\ \A t \in Sizes \ {s} : slabs'[t] = table[t]
        /\ Cardinality(Holding(slabs'[s])) =
              Cardinality(Holding(slabs[s])) + (IF table[s][i].memory THEN 0 ELSE 1)
    BY <1>3, <1>5, <2>3
  <2>5. CachesInv'
    BY <2>1, <2>2, <2>4 DEF CachesInv, Tables
  <2>6. QED
    BY <2>4, <2>5
<1>7. CASE IsFull(s, new)
  <2> DEFINE last == [new EXCEPT !.index = Len(fullList[s]) + 1]
  <2>1. /\ freeList' = [free EXCEPT ![s] = Erase(@, cache[i].index)]
        /\ fullList' = [fullList EXCEPT ![s] = Append(@, i)]
        /\ slabs' = [used EXCEPT ![s][i].index = Len(fullList[s]) + 1]
    BY <1>3, <1>4, <1>7 DEF MoveToFull
  <2>2. Len(fullList[s]) \in Nat
    OBVIOUS
  <2>3. /\ SlabInv(s, last) /\ last.index = Len(fullList[s]) + 1 /\ last.used = new.used
    <3>1. \A n \in Nat \ {0} : \A x \in SlabType :
             /\ [x EXCEPT !.index = n] \in SlabType /\ [x EXCEPT !.index = n].index = n
             /\ [x EXCEPT !.index = n].used = x.used /\ [x EXCEPT !.index = n].memory = x.memory
      BY DEF SlabType
    <3>2. Len(fullList[s]) + 1 \in Nat \ {0} /\ new \in SlabType
      BY <1>3, <2>2 DEF SlabInv
    <3>3. /\ last \in SlabType /\ last.index = Len(fullList[s]) + 1
          /\ last.used = new.used /\ last.memory = new.memory
      BY <3>1, <3>2
    <3> HIDE DEF last
    <3>4. QED
      BY <1>3, <3>3 DEF SlabInv
  <2>4. slabs' = [table EXCEPT ![s] = [table[s] EXCEPT ![i] = last]]
    <3>1. slabs' = [used EXCEPT ![s] = [used[s] EXCEPT ![i] = last]]
      BY <1>4, <2>1
    <3> HIDE DEF last
    <3>2. [used[s] EXCEPT ![i] = last] = [cache EXCEPT ![i] = last]
      BY <1>4
    <3>3. slabs' = [used EXCEPT ![s] = [cache EXCEPT ![i] = last]]
      BY <3>1, <3>2
    <3>4. PICK c : c = [cache EXCEPT ![i] = last]
      OBVIOUS
    <3>5. PICK d : d = [cache EXCEPT ![i] = new]
      OBVIOUS
    <3>6. [[table EXCEPT ![s] = d] EXCEPT ![s] = c] = [table EXCEPT ![s] = c]
      BY DEF Tables
    <3>7. QED
      BY <1>1, <1>4, <3>3, <3>4, <3>5, <3>6
  <2> HIDE DEF last
  <2>5. IsFull(s, last)
    BY <1>7, <2>3 DEF IsFull
  <2>6. CacheInv(s, Erase(free[s], cache[i].index), Append(fullList[s], i), [cache EXCEPT ![i] = last])
    BY <1>2, <2>3, <2>5, SlabBecomesFull
  <2>7. /\ slabs' \in Tables /\ BlocksInUse(slabs') = BlocksInUse(slabs) + 1
        /\ slabs'[s] = [cache EXCEPT ![i] = last]
        /\ \A t \in Sizes \ {s} : slabs'[t] = table[t]
        /\ Cardinality(Holding(slabs'[s])) =
              Cardinality(Holding(slabs[s])) + (IF table[s][i].memory THEN 0 ELSE 1)
    BY <1>3, <1>5, <2>3, <2>4
  <2>8. /\ Erase(free[s], cache[i].index) \in Seq(Nat) /\ Append(fullList[s], i) \in Seq(Nat)
    BY <2>6 DEF CacheInv
  <2>9. /\ freeList' \in [Sizes -> Seq(Nat)] /\ fullList' \in [Sizes -> Seq(Nat)]
        /\ freeList'[s] = Erase(free[s], cache[i].index) /\ fullList'[s] = Append(fullList[s], i)
        /\ \A t \in Sizes : t # s => freeList'[t] = free[t] /\ fullList'[t] = fullList[t]
    BY <2>1, <2>8
  <2>10. CachesInv'
    BY <2>6, <2>7, <2>9 DEF CachesInv, Tables
  <2>11. QED
    BY <2>7, <2>10
<1>8. QED
  BY <1>6, <1>7


(* The references of the entry before the block in use adds one.           *)
LEMMA EntryReferences ==
  ASSUME CachesInv, RefsInv, NEW keepAlive \in BOOLEAN,
         NEW keeps, keeps = (kept \/ (refs = 0 /\ keepAlive)),
         NEW n, n = GetOrCreate(keepAlive)
  PROVE  /\ n \in Nat /\ keeps \in BOOLEAN
         /\ n = BlocksInUse(slabs) + Own(keeps)
         /\ n = 0 => nextSlab = None
<1>1. BlocksInUse(slabs) \in Nat
  BY BlocksNat DEF CachesInv, Tables
<1>2. refs \in Nat /\ kept \in BOOLEAN /\ refs = BlocksInUse(slabs) + Own(kept)
      /\ (refs = 0 => nextSlab = None) /\ keeps \in BOOLEAN
  BY DEF RefsInv
<1>3. CASE refs = 0 /\ keepAlive
  <2>1. keeps /\ n = 1
    BY <1>3 DEF GetOrCreate
  <2>2. BlocksInUse(slabs) = 0
    BY <1>1, <1>2, <1>3, OwnReference
  <2>3. Own(keeps) = 1
    BY <1>2, <2>1, OwnReference
  <2>4. QED
    BY <1>2, <2>1, <2>2, <2>3
<1>4. CASE ~(refs = 0 /\ keepAlive)
  <2>1. n = refs /\ (keeps <=> kept)
    BY <1>4 DEF GetOrCreate
  <2>2. Own(keeps) = Own(kept)
    BY <1>2, <2>1, OwnReference
  <2>3. QED
    BY <1>2, <2>1, <2>2
<1>5. QED
  BY <1>3, <1>4

(* TryAllocateMemory, refused, failed or successful.                       *)
LEMMA AllocatePreserves ==
  ASSUME IInv, NEW r \in RequestSizes, NEW available \in Availables, NEW always \in BOOLEAN,
         NEW keepAlive \in BOOLEAN, TryAllocateMemory(r, available, always, keepAlive)
  PROVE  IInv'
<1>1. PICK n : n = GetOrCreate(keepAlive)
  OBVIOUS
<1>2. /\ kept' = (kept \/ (refs = 0 /\ keepAlive)) /\ steady' \in BOOLEAN
      /\ TryAllocateFromSlab(r, available, always, n)
  <2>1. steady' = (/\ steady /\ available >= 2 * MaxSlabSize /\ r = BlockSize
                   /\ refs' > GetOrCreate(keepAlive))
    BY DEF TryAllocateMemory
  <2>2. steady' \in BOOLEAN
    BY <2>1
  <2>3. QED
    BY <1>1, <2>2 DEF TryAllocateMemory
<1>3. CachesInv /\ PrefetchInv /\ OutstandingInv /\ RefsInv /\ OtherInv /\ Roomy(freeList)
  BY CachesAreRoomy DEF IInv, CachesInv
<1>4. /\ n \in Nat /\ kept' \in BOOLEAN
      /\ n = BlocksInUse(slabs) + Own(kept')
      /\ n = 0 => nextSlab = None
  <2>1. PICK keeps : keeps = kept'
    OBVIOUS
  <2>2. keeps = (kept \/ (refs = 0 /\ keepAlive))
    BY <1>2, <2>1
  <2>3. /\ n \in Nat /\ keeps \in BOOLEAN /\ n = BlocksInUse(slabs) + Own(keeps)
        /\ (n = 0 => nextSlab = None)
    BY <1>1, <1>3, <2>2, EntryReferences
  <2>4. QED
    BY <2>1, <2>3
<1> DEFINE choice == ChooseSlab(r, available)
           s == choice.size
           table == IF choice.new THEN [slabs EXCEPT ![s] = Append(@, NewSlab(Len(freeList[s]) + 1))]
                    ELSE slabs
           free == IF choice.new THEN [freeList EXCEPT ![s] = Append(@, Len(table[s]))] ELSE freeList
           i == Back(free[s])
           used == [table EXCEPT ![s][i] = WithBlock(@)]
<1>5. CASE choice = NoSlab /\ refs' = n
           /\ UNCHANGED <<slabVars, nextSlab, hits, misses, outstanding, nullFreed>>
  <2>1. CachesInv' /\ PrefetchInv' /\ OutstandingInv'
    BY <1>3, <1>5 DEF CachesInv, PrefetchInv, OutstandingInv, slabVars
  <2>2. RefsInv'
    BY <1>4, <1>5 DEF RefsInv, slabVars
  <2>3. OtherInv'
    BY <1>2, <1>3, <1>5 DEF OtherInv, slabVars
  <2>4. QED
    BY <2>1, <2>2, <2>3 DEF IInv
<1>6. ASSUME choice # NoSlab,
             nullFreed' = (nullFreed \/ (~table[s][i].memory /\ nextSlab.state = "failed")),
             NEW o \in GetOrCreateMemory(s, table[s][i].memory),
             NEW ahead, ahead = PrefetchSize(o, used, free, s, i, r, available, always),
             hits' = hits + o.hit /\ misses' = misses + o.miss /\ outstanding' = o.out,
             \/ /\ o.ok
                /\ refs' = n + 1
                /\ lastUsedSlabSize' = s
                /\ nextSlab' = IF ahead > 0 THEN [size |-> ahead, state |-> "pending"]
                               ELSE o.next
                /\ MoveToFull(free, used, s, i)
             \/ /\ ~o.ok
                /\ refs' = n
                /\ nextSlab' = o.next
                /\ UNCHANGED <<fullList, lastUsedSlabSize>>
                /\ IF n = 0 THEN UNCHANGED <<freeList, slabs>>
                   ELSE freeList' = free /\ slabs' = table
      PROVE  IInv'
  <2>1. /\ choice \in [size : Sizes, new : BOOLEAN] /\ UsableSize(s)
        /\ ~choice.new => freeList[s] # <<>>
    <3>1. lastUsedSlabSize \in Sizes \cup {0}
      BY <1>3 DEF OtherInv
    <3>2. QED
      BY <1>3, <1>6, <3>1, ChosenSlab
  <2> HIDE DEF choice
  <2>2. SlabReady(s, i, free, table)
    <3>1. PICK new \in BOOLEAN : new = choice.new
      BY <2>1
    <3> HIDE DEF table, free, s
    <3>2. PICK t, f, z : t = table /\ f = free /\ z = s
      OBVIOUS
    <3>3. t = SlabsFor(z, new)
      BY <3>1, <3>2 DEF table, SlabsFor
    <3>4. f = FreeFor(z, new, t)
      BY <3>1, <3>2 DEF free, FreeFor
    <3>5. UsableSize(z) /\ (~new => freeList[z] # <<>>)
      BY <2>1, <3>1, <3>2
    <3>6. SlabReady(z, Back(f[z]), f, t)
      BY <1>3, <3>1, <3>3, <3>4, <3>5, TakeSlab
    <3>7. QED
      BY <3>2, <3>6
  <2> HIDE DEF s, table, free, i
  <2>3. s \in Sizes /\ i \in DOMAIN table[s] /\ table \in Tables
        /\ (table[s][i].memory \in BOOLEAN)
    <3>1. s \in Sizes /\ i \in DOMAIN table[s] /\ table \in Tables
      BY <2>2 DEF SlabReady
    <3>2. table[s] \in Seq(SlabType)
      BY <3>1 DEF Tables
    <3>3. table[s][i] \in SlabType
      BY <3>1, <3>2, FiniteCache
    <3>4. QED
      BY <3>1, <3>3 DEF SlabType
  <2>4. /\ o.ok \in BOOLEAN /\ o.hit \in Nat /\ o.miss \in Nat
        /\ o.next = None \/ o.next = nextSlab
        /\ o.out \in [Sizes -> Nat]
        /\ \A t \in Sizes :
              o.out[t] = HeldMemory[t] + Prefetched(o.next, t)
                         + (IF o.ok /\ ~table[s][i].memory /\ t = s THEN 1 ELSE 0)
    BY <1>3, <1>6, <2>3, MemoryGot
  <2>5. hits' \in Nat /\ misses' \in Nat /\ nullFreed' \in BOOLEAN
    BY <1>3, <1>6, <2>4 DEF OtherInv
  <2>6. \A t \in Sizes : HeldMemory[t] = Cardinality(Holding(slabs[t])) /\ HeldMemory[t] \in Nat
    <3>1. \A t \in Sizes : HeldMemory[t] = Cardinality(Holding(slabs[t]))
      BY DEF HeldMemory
    <3>2. QED
      BY <1>3, <3>1, HeldNat
  <2>7. CASE /\ o.ok
             /\ refs' = n + 1
             /\ lastUsedSlabSize' = s
             /\ nextSlab' = IF ahead > 0 THEN [size |-> ahead, state |-> "pending"] ELSE o.next
             /\ MoveToFull(free, used, s, i)
    <3>1. /\ CachesInv' /\ BlocksInUse(slabs') = BlocksInUse(slabs) + 1
          /\ \A t \in Sizes \ {s} : Holding(slabs'[t]) = Holding(slabs[t])
          /\ Cardinality(Holding(slabs'[s])) =
                Cardinality(Holding(slabs[s])) + (IF table[s][i].memory THEN 0 ELSE 1)
      <4>1. fullList \in [Sizes -> Seq(Nat)]
        BY <1>3 DEF CachesInv
      <4>2. used = [table EXCEPT ![s][i] = WithBlock(@)]
        OBVIOUS
      <4> HIDE DEF used
      <4>3. QED
        BY <2>2, <2>7, <4>1, <4>2, SlabUsed
    <3>2. ahead \in Sizes \cup {0}
      <4>1. Roomy(free)
        BY <2>2, CachesAreRoomy DEF SlabReady
      <4> HIDE DEF used
      <4>2. QED
        BY <1>6, <2>1, <4>1, PrefetchedSize
    <3>3. /\ nextSlab' = None \/ nextSlab' \in [size : Sizes, state : {"pending", "ready", "failed"}]
          /\ \A t \in Sizes : Prefetched(nextSlab', t) = Prefetched(o.next, t)
      <4>1. CASE ahead > 0
        <5>1. nextSlab' = [size |-> ahead, state |-> "pending"] /\ ahead \in Sizes
          BY <2>7, <3>2, <4>1
        <5>2. o.next.state # "ready"
          <6>1. o.next = None
            BY <1>6, <4>1 DEF PrefetchSize
          <6>2. QED
            BY <6>1 DEF None
        <5>3. QED
          BY <5>1, <5>2 DEF Prefetched
      <4>2. CASE ~(ahead > 0)
        BY <1>3, <2>4, <2>7, <4>2 DEF PrefetchInv
      <4>3. QED
        BY <4>1, <4>2
    <3>4. OutstandingInv'
      <4>1. ASSUME NEW t \in Sizes
            PROVE  o.out[t] = Cardinality(Holding(slabs'[t])) + Prefetched(nextSlab', t)
        <5>1. PICK got, held, was, pre, pre2 :
                 /\ got = o.out[t] /\ held = Cardinality(Holding(slabs'[t]))
                 /\ was = HeldMemory[t]
                 /\ pre = Prefetched(o.next, t) /\ pre2 = Prefetched(nextSlab', t)
          OBVIOUS
        <5>2. pre \in Nat /\ pre2 = pre /\ was \in Nat /\ was = Cardinality(Holding(slabs[t]))
          BY <2>6, <3>3, <5>1 DEF Prefetched
        <5>3. got = was + pre + (IF ~table[s][i].memory /\ t = s THEN 1 ELSE 0)
          BY <2>4, <2>7, <5>1
        <5>4. held = was + (IF ~table[s][i].memory /\ t = s THEN 1 ELSE 0)
          <6>1. CASE t # s
            BY <3>1, <5>1, <5>2, <6>1
          <6>2. CASE t = s
            BY <3>1, <5>1, <5>2, <6>2
          <6>3. QED
            BY <6>1, <6>2
        <5>5. got = held + pre2
          BY <5>2, <5>3, <5>4
        <5>6. QED
          BY <5>1, <5>5
      <4>2. QED
        BY <1>6, <2>4, <4>1 DEF OutstandingInv
    <3>5. RefsInv'
      <4>1. BlocksInUse(slabs) \in Nat /\ Own(kept') \in Nat
        BY <1>3, <1>4, BlocksNat, OwnReference DEF CachesInv, Tables
      <4>2. refs' \in Nat /\ refs' = BlocksInUse(slabs') + Own(kept') /\ refs' # 0
        BY <1>4, <2>7, <3>1, <4>1
      <4>3. QED
        BY <1>4, <4>2 DEF RefsInv
    <3>6. OtherInv'
      BY <1>2, <2>3, <2>5, <2>7 DEF OtherInv
    <3>7. PrefetchInv'
      BY <3>3 DEF PrefetchInv
    <3>8. QED
      BY <3>1, <3>4, <3>5, <3>6, <3>7 DEF IInv
  <2>8. CASE /\ ~o.ok
             /\ refs' = n
             /\ nextSlab' = o.next
             /\ UNCHANGED <<fullList, lastUsedSlabSize>>
             /\ IF n = 0 THEN UNCHANGED <<freeList, slabs>>
                ELSE freeList' = free /\ slabs' = table
    <3>1. /\ CachesInv' /\ BlocksInUse(slabs') = BlocksInUse(slabs)
          /\ \A t \in Sizes : Holding(slabs'[t]) = Holding(slabs[t])
      <4>1. CASE n = 0
        BY <1>3, <2>8, <4>1 DEF CachesInv
      <4>2. CASE n # 0
        BY <1>3, <2>2, <2>8, <4>2 DEF SlabReady, CachesInv, Tables
      <4>3. QED
        BY <4>1, <4>2
    <3>2. PrefetchInv'
      BY <1>3, <2>4, <2>8 DEF PrefetchInv
    <3>3. OutstandingInv'
      <4>1. \A t \in Sizes : o.out[t] = HeldMemory[t] + Prefetched(o.next, t)
        <5>1. \A t \in Sizes : Prefetched(o.next, t) \in Nat
          BY DEF Prefetched
        <5>2. QED
          BY <2>4, <2>6, <2>8, <5>1
      <4>2. QED
        BY <1>6, <2>4, <2>6, <2>8, <3>1, <4>1 DEF OutstandingInv
    <3>4. RefsInv'
      BY <1>4, <2>4, <2>8, <3>1 DEF RefsInv
    <3>5. OtherInv'
      BY <1>2, <1>3, <2>5, <2>8 DEF OtherInv
    <3>6. QED
      BY <3>1, <3>2, <3>3, <3>4, <3>5 DEF IInv
  <2>9. QED
    BY <1>6, <2>7, <2>8
<1>7. QED
  BY <1>2, <1>5, <1>6 DEF TryAllocateFromSlab



-----------------------------------------------------------------------------
(* Blocks that are freed.                                                  *)

(* The slab without the block, and the memory it leaves behind.            *)
LEMMA BlockFreed ==
  ASSUME NEW s \in Sizes, CacheInv(s, freeList[s], fullList[s], slabs[s]),
         NEW i \in DOMAIN slabs[s], slabs[s][i].used > 0, outstanding \in [Sizes -> Nat],
         NEW slab, slab = Freed(s, i).slab
  PROVE  /\ SlabInv(s, slab) /\ slab.used = slabs[s][i].used - 1
         /\ slabs[s][i].used \in Nat \ {0} /\ ~IsFull(s, slab)
         /\ slab.index = IF IsFull(s, slabs[s][i]) THEN Len(freeList[s]) + 1
                         ELSE slabs[s][i].index
         /\ Freed(s, i).out \in [Sizes -> Int]
         /\ \A t \in Sizes : Freed(s, i).out[t] =
               outstanding[t] - (IF t = s /\ slab.used = 0 THEN 1 ELSE 0)
<1>1. PICK old : old = slabs[s][i]
  OBVIOUS
<1>2. /\ old \in SlabType /\ old.used <= BlockCount(s) /\ (old.memory <=> old.used > 0)
      /\ Len(freeList[s]) \in Nat /\ BlockCount(s) \in Int
  <2>1. old \in SlabType /\ old.used <= BlockCount(s) /\ (old.memory <=> old.used > 0)
    BY <1>1, FiniteCache DEF CacheInv
  <2>2. BlockSize \in Nat \ {0} /\ s \in Nat
    BY SlabMemoryAssumption, SizesArePowers
  <2>3. QED
    BY <2>1, <2>2 DEF BlockCount, CacheInv
<1>3. PICK position : position = IF IsFull(s, old) THEN Len(freeList[s]) + 1 ELSE old.index
  OBVIOUS
<1>4. position \in Nat \ {0} /\ old.used - 1 \in Nat /\ old.used \in Nat \ {0}
  BY <1>1, <1>2, <1>3 DEF SlabType
<1>5. PICK moved : moved = [old EXCEPT !.used = old.used - 1, !.index = position]
  OBVIOUS
<1>6. /\ moved \in SlabType /\ moved.used = old.used - 1 /\ moved.index = position
      /\ moved.memory = old.memory
  BY <1>2, <1>4, <1>5 DEF SlabType
<1>7. slab = ReleaseIfEmpty(moved)
  BY <1>1, <1>3, <1>5 DEF Freed
<1>8. /\ slab \in SlabType /\ slab.used = moved.used /\ slab.index = moved.index
      /\ slab.memory <=> slab.used > 0
  <2>1. CASE moved.used = 0
    <3>1. \A x \in SlabType :
             /\ [x EXCEPT !.memory = FALSE] \in SlabType /\ [x EXCEPT !.memory = FALSE].used = x.used
             /\ [x EXCEPT !.memory = FALSE].index = x.index
             /\ ~[x EXCEPT !.memory = FALSE].memory
      BY DEF SlabType
    <3>2. slab = [moved EXCEPT !.memory = FALSE]
      BY <1>7, <2>1 DEF ReleaseIfEmpty
    <3>3. /\ slab \in SlabType /\ slab.used = moved.used /\ slab.index = moved.index
          /\ ~slab.memory
      BY <1>6, <3>1, <3>2
    <3>4. QED
      BY <2>1, <3>3
  <2>2. CASE moved.used # 0
    <3>1. slab = moved
      BY <1>7, <2>2 DEF ReleaseIfEmpty
    <3>2. old.memory /\ moved.used > 0
      BY <1>1, <1>2, <1>4, <1>6, <2>2
    <3>3. QED
      BY <1>6, <3>1, <3>2
  <2>3. QED
    BY <2>1, <2>2
<1>9. Freed(s, i).out = IF slab.memory THEN outstanding ELSE [outstanding EXCEPT ![s] = @ - 1]
  BY <1>1, <1>3, <1>5, <1>7 DEF Freed
<1>10. PICK out : out = Freed(s, i).out
  OBVIOUS
<1>11. out \in [Sizes -> Int]
       /\ \A t \in Sizes : out[t] = outstanding[t] - (IF t = s /\ slab.used = 0 THEN 1 ELSE 0)
  <2>1. slab.used \in Nat
    BY <1>8 DEF SlabType
  <2>2. CASE slab.used = 0
    <3>1. out = [outstanding EXCEPT ![s] = @ - 1]
      BY <1>8, <1>9, <1>10, <2>2
    <3>2. QED
      BY <2>2, <3>1
  <2>3. CASE slab.used > 0
    BY <1>8, <1>9, <1>10, <2>3
  <2>4. QED
    BY <2>1, <2>2, <2>3
<1>12. SlabInv(s, slab) /\ ~IsFull(s, slab)
  BY <1>2, <1>4, <1>6, <1>8 DEF SlabInv, IsFull
<1>13. QED
  BY <1>1, <1>3, <1>4, <1>6, <1>8, <1>10, <1>11, <1>12

WithSlab(table, s, i, slab) == [table EXCEPT ![s] = [table[s] EXCEPT ![i] = slab]]

(* The memory that is left is what the slabs hold without the block.       *)
LEMMA MemoryLeft ==
  ASSUME CachesInv, PrefetchInv, OutstandingInv, NEW s \in Sizes, NEW i \in DOMAIN slabs[s],
         slabs[s][i].used > 0, NEW slab, slab = Freed(s, i).slab,
         NEW table, table = WithSlab(slabs, s, i, slab)
  PROVE  /\ Changed(slabs, s, i, slab, table)
         /\ slab.used = slabs[s][i].used - 1
         /\ Freed(s, i).out \in [Sizes -> Nat]
         /\ \A t \in Sizes :
               Freed(s, i).out[t] = Cardinality(Holding(table[t])) + Prefetched(nextSlab, t)
<1>1. PICK out : out = Freed(s, i).out
  OBVIOUS
<1>2. outstanding \in [Sizes -> Nat]
      /\ \A t \in Sizes : outstanding[t] = Cardinality(Holding(slabs[t])) + Prefetched(nextSlab, t)
  BY DEF OutstandingInv
<1>3. /\ SlabInv(s, slab) /\ slab.used = slabs[s][i].used - 1
      /\ slabs[s][i].used \in Nat \ {0}
      /\ out \in [Sizes -> Int]
      /\ \A t \in Sizes : out[t] = outstanding[t] - (IF t = s /\ slab.used = 0 THEN 1 ELSE 0)
  <2>1. CacheInv(s, freeList[s], fullList[s], slabs[s])
    BY DEF CachesInv
  <2>2. QED
    BY <1>1, <1>2, <2>1, BlockFreed
<1>4. slabs \in Tables /\ slab \in SlabType
  BY <1>3 DEF CachesInv, Tables, SlabInv
<1>5. Changed(slabs, s, i, slab, table)
  BY <1>4, SlabChange DEF WithSlab
<1>6. \A t \in Sizes : Prefetched(nextSlab, t) \in Nat
  BY DEF Prefetched
<1>7. ASSUME NEW t \in Sizes
      PROVE  out[t] \in Nat /\ out[t] = Cardinality(Holding(table[t])) + Prefetched(nextSlab, t)
  <2>1. CASE t = s
    <3>1. /\ Cardinality(Holding(table[s])) \in Nat /\ Cardinality(Holding(slabs[s])) \in Nat
          /\ Cardinality(Holding(table[s])) =
                Cardinality(Holding(slabs[s])) + (IF slab.used > 0 THEN 1 ELSE 0) - 1
      BY <1>3, <1>5 DEF Changed
    <3>2. slab.used \in Nat
      BY <1>4 DEF SlabType
    <3>3. QED
      BY <1>2, <1>3, <1>6, <2>1, <3>1, <3>2
  <2>2. CASE t # s
    BY <1>2, <1>3, <1>5, <2>2 DEF Changed
  <2>3. QED
    BY <2>1, <2>2
<1>8. out \in [Sizes -> Nat]
  BY <1>3, <1>7
<1>9. QED
  BY <1>1, <1>3, <1>5, <1>7, <1>8

(* The entry that is destroyed holds nothing but the pre-fetched memory.   *)
LEMMA DestroyPreserves ==
  ASSUME PrefetchInv, NEW out \in [Sizes -> Nat], \A t \in Sizes : out[t] = Prefetched(nextSlab, t),
         nullFreed \in BOOLEAN, Destroy(out), refs' = 0, kept' \in BOOLEAN, ~kept', steady' \in BOOLEAN
  PROVE  IInv'
<1> USE DEF Destroy
<1>1. PICK nothing : nothing = [t \in Sizes |-> 0]
  OBVIOUS
<1>2. outstanding' = nothing
  <2>1. nothing \in [Sizes -> Nat] /\ \A t \in Sizes : out[t] = nothing[t] + Prefetched(nextSlab, t)
    BY <1>1 DEF Prefetched
  <2>2. GiveBack(out) = nothing
    BY <2>1, GivenBack
  <2>3. QED
    BY <2>2
<1>3. CachesInv'
  <2>1. \A s \in Sizes : CacheInv(s, <<>>, <<>>, <<>>)
    BY EmptyCache
  <2>2. QED
    BY <2>1 DEF CachesInv
<1>4. OutstandingInv'
  <2>1. Holding(<<>>) = {}
    BY DEF Holding
  <2>2. Cardinality(Holding(<<>>)) = 0
    BY <2>1, FS_EmptySet
  <2>3. \A t \in Sizes : Prefetched(nextSlab', t) = 0
    BY DEF Prefetched, None
  <2>4. \A t \in Sizes : slabs'[t] = <<>>
    OBVIOUS
  <2>5. QED
    BY <1>1, <1>2, <2>2, <2>3, <2>4 DEF OutstandingInv
<1>5. RefsInv'
  <2>1. BlocksInUse(slabs') = 0
    <3>1. PICK table : table = [t \in Sizes |-> <<>>]
      OBVIOUS
    <3>2. BlocksInUse(table) = 0
      BY <3>1, BlocksNone
    <3>3. QED
      BY <3>1, <3>2
  <2>2. ~kept' /\ kept' \in BOOLEAN /\ refs' = 0 /\ nextSlab' = None
    OBVIOUS
  <2> HIDE DEF Destroy
  <2>3. Own(kept') = 0
    BY <2>2 DEF Own
  <2>4. QED
    BY <2>1, <2>2, <2>3 DEF RefsInv
<1>6. OtherInv'
  <2>1. nullFreed' = (nullFreed \/ nextSlab.state = "failed")
    OBVIOUS
  <2>2. lastUsedSlabSize' = 0 /\ hits' = 0 /\ misses' = 0
    OBVIOUS
  <2> HIDE DEF Destroy
  <2>3. nullFreed' \in BOOLEAN
    BY <2>1
  <2>4. QED
    BY <2>2, <2>3 DEF OtherInv
<1>7. PrefetchInv'
  BY DEF PrefetchInv
<1>8. QED
  BY <1>3, <1>4, <1>5, <1>6, <1>7 DEF IInv


(* A block freed in an entry that lives on.                                *)
LEMMA SlabFreed ==
  ASSUME CachesInv, PrefetchInv, OutstandingInv, NEW s \in Sizes, NEW i \in DOMAIN slabs[s],
         slabs[s][i].used > 0, MoveToFree(s, i), outstanding' = Freed(s, i).out,
         nextSlab' = nextSlab
  PROVE  CachesInv' /\ OutstandingInv' /\ BlocksInUse(slabs') = BlocksInUse(slabs) - 1
<1>1. PICK slab, cache, table :
         /\ slab = Freed(s, i).slab /\ cache = [slabs[s] EXCEPT ![i] = slab]
         /\ table = WithSlab(slabs, s, i, slab)
  OBVIOUS
<1>2. outstanding \in [Sizes -> Nat]
  BY DEF OutstandingInv
<1>3. /\ SlabInv(s, slab) /\ slab.used = slabs[s][i].used - 1
      /\ slabs[s][i].used \in Nat \ {0} /\ ~IsFull(s, slab)
      /\ slab.index = IF IsFull(s, slabs[s][i]) THEN Len(freeList[s]) + 1 ELSE slabs[s][i].index
  BY <1>1, <1>2, BlockFreed DEF CachesInv
<1>4. slabs' = table
  BY <1>1 DEF MoveToFree, WithSlab
<1>5. /\ Changed(slabs, s, i, slab, table)
      /\ Freed(s, i).out \in [Sizes -> Nat]
      /\ \A t \in Sizes :
            Freed(s, i).out[t] = Cardinality(Holding(table[t])) + Prefetched(nextSlab, t)
  BY <1>1, MemoryLeft
<1>6. OutstandingInv'
  BY <1>4, <1>5 DEF OutstandingInv
<1>7. BlocksInUse(slabs') = BlocksInUse(slabs) - 1
  <2>1. BlocksInUse(slabs) \in Nat
    BY BlocksNat DEF CachesInv, Tables
  <2>2. QED
    BY <1>3, <1>4, <1>5, <2>1 DEF Changed
<1>8. /\ freeList \in [Sizes -> Seq(Nat)] /\ fullList \in [Sizes -> Seq(Nat)]
      /\ CacheInv(s, freeList[s], fullList[s], slabs[s])
  BY DEF CachesInv
<1>9. table \in Tables /\ table[s] = cache /\ \A t \in Sizes \ {s} : table[t] = slabs[t]
  BY <1>1, <1>5 DEF Changed, CachesInv, WithSlab
<1>10. CASE IsFull(s, slabs[s][i])
  <2>1. PICK more, left : /\ more = Append(freeList[s], i)
                          /\ left = Erase(fullList[s], slabs[s][i].index)
    OBVIOUS
  <2>2. CacheInv(s, more, left, cache)
    BY <1>1, <1>3, <1>8, <1>10, <2>1, SlabBecomesFree
  <2>3. more \in Seq(Nat) /\ left \in Seq(Nat)
    BY <2>2 DEF CacheInv
  <2>4. freeList' = [freeList EXCEPT ![s] = more] /\ fullList' = [fullList EXCEPT ![s] = left]
    BY <1>10, <2>1 DEF MoveToFree
  <2>5. /\ freeList' \in [Sizes -> Seq(Nat)] /\ fullList' \in [Sizes -> Seq(Nat)]
        /\ freeList'[s] = more /\ fullList'[s] = left
        /\ \A t \in Sizes : t # s => freeList'[t] = freeList[t] /\ fullList'[t] = fullList[t]
    BY <1>8, <2>3, <2>4
  <2>6. CachesInv'
    BY <1>4, <1>9, <2>2, <2>5 DEF CachesInv, Tables
  <2>7. QED
    BY <1>6, <1>7, <2>6
<1>11. CASE ~IsFull(s, slabs[s][i])
  <2>1. CacheInv(s, freeList[s], fullList[s], cache)
    BY <1>1, <1>3, <1>8, <1>11, SlabStays
  <2>2. freeList' = freeList /\ fullList' = fullList
    BY <1>11 DEF MoveToFree
  <2>3. CachesInv'
    BY <1>4, <1>9, <2>1, <2>2 DEF CachesInv, Tables
  <2>4. QED
    BY <1>6, <1>7, <2>3
<1>12. QED
  BY <1>10, <1>11

(* The caches without a block in use hold no memory.                       *)
LEMMA NothingHeld ==
  ASSUME NEW table \in Tables, BlocksInUse(table) = 0
  PROVE  \A t \in Sizes : Cardinality(Holding(table[t])) = 0
<1> SUFFICES ASSUME NEW t \in Sizes PROVE Cardinality(Holding(table[t])) = 0
  OBVIOUS
<1>1. table[t] \in Seq(SlabType)
  BY DEF Tables
<1>2. \A i \in DOMAIN table[t] : table[t][i].used \in Nat /\ table[t][i].used <= 0
  BY <1>1, BlocksNat, FiniteCache DEF SlabType
<1>3. Holding(table[t]) = {}
  BY <1>2 DEF Holding
<1>4. QED
  BY <1>3, FS_EmptySet

LEMMA DeallocatePreserves ==
  ASSUME IInv, NEW s \in Sizes, NEW i \in DOMAIN slabs[s], DeallocateMemory(s, i)
  PROVE  IInv'
<1>1. CachesInv /\ PrefetchInv /\ OutstandingInv /\ RefsInv /\ OtherInv
  BY DEF IInv
<1>2. /\ slabs[s][i].used > 0 /\ refs' = refs - 1 /\ steady' = FALSE /\ kept' = kept
  BY DEF DeallocateMemory
<1>3. PICK slab, table :
         /\ slab = Freed(s, i).slab
         /\ table = WithSlab(slabs, s, i, slab)
  OBVIOUS
<1>4. /\ Changed(slabs, s, i, slab, table) /\ slab.used = slabs[s][i].used - 1
      /\ Freed(s, i).out \in [Sizes -> Nat]
      /\ \A t \in Sizes :
            Freed(s, i).out[t] = Cardinality(Holding(table[t])) + Prefetched(nextSlab, t)
  BY <1>1, <1>2, <1>3, MemoryLeft
<1>5. /\ BlocksInUse(slabs) \in Nat /\ slabs[s][i].used <= BlocksInUse(slabs)
      /\ slabs[s][i].used \in Nat
  <2>1. slabs \in Tables /\ slabs[s] \in Seq(SlabType)
    BY <1>1 DEF CachesInv, Tables
  <2>2. QED
    BY <2>1, BlocksNat, FiniteCache DEF SlabType
<1>6. refs \in Nat /\ kept \in BOOLEAN /\ refs = BlocksInUse(slabs) + Own(kept)
      /\ Own(kept) \in {0, 1} /\ (kept <=> Own(kept) = 1)
  BY <1>1, OwnReference DEF RefsInv
<1>7. CASE refs = 1
  <2>1. Destroy(Freed(s, i).out)
    BY <1>7 DEF DeallocateMemory
  <2>2. BlocksInUse(slabs) = 1 /\ ~kept
    BY <1>2, <1>5, <1>6, <1>7
  <2>3. table \in Tables /\ BlocksInUse(table) = 0
    BY <1>2, <1>4, <1>5, <2>2 DEF Changed
  <2>4. \A t \in Sizes : Cardinality(Holding(table[t])) = 0
    BY <2>3, NothingHeld
  <2>5. \A t \in Sizes : Freed(s, i).out[t] = Prefetched(nextSlab, t)
    <3>1. \A t \in Sizes : Prefetched(nextSlab, t) \in Nat
      BY DEF Prefetched
    <3>2. QED
      BY <1>4, <2>4, <3>1
  <2>6. refs' = 0 /\ kept' \in BOOLEAN /\ ~kept' /\ steady' \in BOOLEAN /\ nullFreed \in BOOLEAN
    <3>1. kept' = kept /\ kept \in BOOLEAN /\ ~kept /\ steady' = FALSE
      BY <1>2, <1>6, <2>2
    <3>2. kept' \in BOOLEAN /\ ~kept' /\ steady' \in BOOLEAN
      BY <3>1
    <3>3. refs' = 0 /\ nullFreed \in BOOLEAN
      BY <1>1, <1>2, <1>7 DEF OtherInv
    <3>4. QED
      BY <3>2, <3>3
  <2>7. QED
    BY <1>1, <1>4, <2>1, <2>5, <2>6, DestroyPreserves
<1>8. CASE refs # 1
  <2>1. /\ MoveToFree(s, i) /\ outstanding' = Freed(s, i).out
        /\ UNCHANGED <<lastUsedSlabSize, nextSlab, hits, misses, nullFreed>>
    BY <1>8 DEF DeallocateMemory
  <2>2. CachesInv' /\ OutstandingInv' /\ BlocksInUse(slabs') = BlocksInUse(slabs) - 1
    BY <1>1, <1>2, <2>1, SlabFreed
  <2>3. refs' \in Nat /\ refs' # 0 /\ refs' = BlocksInUse(slabs') + Own(kept')
    BY <1>2, <1>5, <1>6, <1>8, <2>2
  <2>4. RefsInv'
    BY <1>2, <1>6, <2>3 DEF RefsInv
  <2>5. PrefetchInv' /\ OtherInv'
    BY <1>1, <1>2, <2>1 DEF PrefetchInv, OtherInv
  <2>6. QED
    BY <2>2, <2>4, <2>5 DEF IInv
<1>9. QED
  BY <1>7, <1>8


(* AllocateMemoryTask, which succeeds or fails.                            *)
LEMMA TaskPreserves ==
  ASSUME IInv, AllocateMemoryTask
  PROVE  IInv'
<1> USE DEF AllocateMemoryTask
<1>1. CachesInv /\ PrefetchInv /\ OutstandingInv /\ RefsInv /\ OtherInv
  BY DEF IInv
<1>2. /\ freeList' = freeList /\ fullList' = fullList /\ slabs' = slabs
      /\ lastUsedSlabSize' = lastUsedSlabSize /\ hits' = hits /\ misses' = misses
      /\ refs' = refs /\ kept' = kept /\ nullFreed' = nullFreed
  BY DEF slabVars
<1>3. nextSlab \in [size : Sizes, state : {"pending", "ready", "failed"}]
  BY <1>1 DEF PrefetchInv, None
<1>4. PICK size \in Sizes : size = nextSlab.size
  BY <1>3
<1>5. refs # 0
  BY <1>1 DEF RefsInv, None
<1>6. CachesInv' /\ RefsInv' /\ OtherInv'
  BY <1>1, <1>2, <1>5 DEF CachesInv, RefsInv, OtherInv
<1>7. \A t \in Sizes : Prefetched(nextSlab, t) = 0
  BY DEF Prefetched
<1>8. PrefetchInv' /\ OutstandingInv'
  <2>1. CASE /\ nextSlab' = [nextSlab EXCEPT !.state = "ready"]
             /\ outstanding' = [outstanding EXCEPT ![nextSlab.size] = @ + 1]
    <3>1. nextSlab' = [size |-> size, state |-> "ready"]
      BY <1>3, <1>4, <2>1
    <3>2. /\ outstanding' \in [Sizes -> Nat]
          /\ \A t \in Sizes : outstanding'[t] = outstanding[t] + (IF t = size THEN 1 ELSE 0)
      BY <1>1, <1>4, <2>1 DEF OutstandingInv
    <3>3. \A t \in Sizes : Prefetched(nextSlab', t) = IF t = size THEN 1 ELSE 0
      BY <3>1 DEF Prefetched
    <3>4. \A t \in Sizes : /\ outstanding[t] \in Nat
                           /\ outstanding[t] = Cardinality(Holding(slabs'[t])) + Prefetched(nextSlab, t)
      BY <1>1, <1>2 DEF OutstandingInv
    <3>5. \A t \in Sizes : outstanding'[t] = Cardinality(Holding(slabs'[t])) + Prefetched(nextSlab', t)
      <4> SUFFICES ASSUME NEW t \in Sizes
                   PROVE  outstanding'[t] = Cardinality(Holding(slabs'[t])) + Prefetched(nextSlab', t)
        OBVIOUS
      <4>1. PICK held : held = Cardinality(Holding(slabs'[t]))
        OBVIOUS
      <4>2. outstanding[t] = held
        <5>1. HeldMemory[t] \in Nat /\ HeldMemory[t] = Cardinality(Holding(slabs[t]))
          BY <1>1, HeldNat DEF HeldMemory
        <5>2. QED
          BY <1>2, <1>7, <3>4, <4>1, <5>1
      <4>3. QED
        BY <3>2, <3>3, <4>1, <4>2
    <3>6. QED
      BY <3>1, <3>2, <3>5 DEF PrefetchInv, OutstandingInv
  <2>2. CASE /\ nextSlab' = [nextSlab EXCEPT !.state = "failed"]
             /\ outstanding' = outstanding
    <3>1. nextSlab' = [size |-> size, state |-> "failed"]
      BY <1>3, <1>4, <2>2
    <3>2. \A t \in Sizes : Prefetched(nextSlab', t) = Prefetched(nextSlab, t)
      BY <1>7, <3>1 DEF Prefetched
    <3>3. PrefetchInv'
      BY <3>1 DEF PrefetchInv
    <3>4. slabs' = slabs /\ outstanding' = outstanding
      BY <1>2, <2>2
    <3> HIDE DEF AllocateMemoryTask
    <3>5. OutstandingInv'
      BY <1>1, <3>2, <3>4 DEF OutstandingInv
    <3>6. QED
      BY <3>3, <3>5
  <2>3. QED
    BY <2>1, <2>2
<1>9. QED
  BY <1>6, <1>8 DEF IInv

(* Clear, when no block is in use.                                         *)
LEMMA ClearPreserves ==
  ASSUME IInv, Clear
  PROVE  IInv'
<1>1. CachesInv /\ PrefetchInv /\ OutstandingInv /\ RefsInv /\ OtherInv
  BY DEF IInv
<1>2. kept /\ refs = 1 /\ refs' = 0 /\ kept' = FALSE /\ steady' = FALSE /\ Destroy(outstanding)
  BY DEF Clear
<1>3. slabs \in Tables /\ BlocksInUse(slabs) \in Nat
  BY <1>1, BlocksNat DEF CachesInv, Tables
<1>4. BlocksInUse(slabs) = 0
  <2>1. PICK own : own = Own(kept)
    OBVIOUS
  <2>2. own = 1
    BY <1>2, <2>1 DEF Own
  <2>3. refs = BlocksInUse(slabs) + own
    BY <1>1, <2>1 DEF RefsInv
  <2>4. refs = 1
    BY <1>2
  <2>5. QED
    BY <1>3, <2>2, <2>3, <2>4
<1>5. \A t \in Sizes : Cardinality(Holding(slabs[t])) = 0
  BY <1>3, <1>4, NothingHeld
<1>6. outstanding \in [Sizes -> Nat] /\ \A t \in Sizes : outstanding[t] = Prefetched(nextSlab, t)
  <2>1. \A t \in Sizes : Prefetched(nextSlab, t) \in Nat
    BY DEF Prefetched
  <2>2. QED
    BY <1>1, <1>5, <2>1 DEF OutstandingInv
<1>7. kept' \in BOOLEAN /\ ~kept' /\ steady' \in BOOLEAN /\ nullFreed \in BOOLEAN
  <2>1. kept' = FALSE /\ steady' = FALSE
    BY <1>2
  <2>2. kept' \in BOOLEAN /\ ~kept' /\ steady' \in BOOLEAN
    BY <2>1
  <2>3. QED
    BY <1>1, <2>2 DEF OtherInv
<1>8. QED
  BY <1>1, <1>2, <1>6, <1>7, DestroyPreserves

LEMMA StepIInv == IInv /\ [Next]_vars => IInv'
<1> SUFFICES ASSUME IInv, [Next]_vars PROVE IInv'
  OBVIOUS
<1>1. CASE \E size \in RequestSizes, available \in Availables, always \in BOOLEAN,
              keepAlive \in IF refs = 0 THEN BOOLEAN ELSE {FALSE} :
              TryAllocateMemory(size, available, always, keepAlive)
  <2>1. PICK size \in RequestSizes, available \in Availables, always \in BOOLEAN,
             keepAlive \in BOOLEAN : TryAllocateMemory(size, available, always, keepAlive)
    BY <1>1
  <2>2. QED
    BY <2>1, AllocatePreserves
<1>2. CASE \E s \in Sizes : \E i \in DOMAIN slabs[s] : DeallocateMemory(s, i)
  BY <1>2, DeallocatePreserves
<1>3. CASE AllocateMemoryTask
  BY <1>3, TaskPreserves
<1>4. CASE Clear
  BY <1>4, ClearPreserves
<1>5. CASE UNCHANGED vars
  BY <1>5 DEF vars, slabVars, IInv, CachesInv, PrefetchInv, OutstandingInv, RefsInv, OtherInv
<1>6. QED
  BY <1>1, <1>2, <1>3, <1>4, <1>5 DEF Next



-----------------------------------------------------------------------------
(* The size of the slab that is pre-fetched.                               *)

(* The size of the slab that follows `full` full slabs of size s.          *)
Due(full, s) == LimitGrowth(full, s, NextPowerOfTwo(Grown(s)))

(* While every request succeeds, all slabs are full but perhaps the last   *)
(* one, which has memory, and the pre-fetched slab has the size that       *)
(* follows when that one is full too.                                      *)
SteadyLists ==
    /\ \A s \in Sizes \ {lastUsedSlabSize} : freeList[s] = <<>>
    /\ lastUsedSlabSize # 0 =>
          /\ UsableSize(lastUsedSlabSize)
          /\ Len(freeList[lastUsedSlabSize]) <= 1
          /\ freeList[lastUsedSlabSize] # <<>> =>
                slabs[lastUsedSlabSize][Back(freeList[lastUsedSlabSize])].memory

SteadyPrefetch ==
    nextSlab # None =>
       /\ lastUsedSlabSize # 0 /\ nextSlab.state # "failed"
       /\ nextSlab.size = Due(Cardinality(Occupied(fullList[lastUsedSlabSize]))
                                 + Len(freeList[lastUsedSlabSize]), lastUsedSlabSize)

SteadyInv == steady => misses = 0 /\ SteadyLists /\ SteadyPrefetch

(* A request of the whole block needs no doubling.                         *)
LEMMA SizeForBlock ==
  ASSUME BlockSize \in RequestSizes, NEW base \in Sizes \cup {Grown(s) : s \in Sizes},
         BlockSize <= base, NEW free, NEW table, NEW available
  PROVE  /\ ComputeSlabSize(free, table, BlockSize, base, available) =
               IF available < NextPowerOfTwo(base)
               THEN FindNextFreeSlabOfSize(free, table, BlockSize) ELSE NextPowerOfTwo(base)
         /\ NextPowerOfTwo(base) \in PowersOfTwo /\ base <= NextPowerOfTwo(base)
<1>1. base \in Nat /\ BlockSize \in Nat /\ FragmentationPermille \in Nat
  BY SizesArePowers, GrownIsLarger, SlabMemoryAssumption
<1>2. 1 \in PowersOfTwo /\ Fits(BlockSize, base * 1)
  <2>1. Fits(BlockSize, base * 1)
    <3>1. PICK b \in Nat : b = base * 1 /\ BlockSize <= b
      BY <1>1
    <3>2. FragmentationPermille * b >= 0
      BY <1>1, <3>1
    <3>3. 1000 * (BlockSize - BlockSize) = 0
      BY <1>1
    <3>4. Fits(BlockSize, b)
      BY <3>1, <3>2, <3>3 DEF Fits
    <3>5. QED
      BY <3>1, <3>4
  <2>2. 1 \in PowersOfTwo
    BY DEF PowersOfTwo
  <2>3. QED
    BY <2>1, <2>2
<1>3. PICK fitting : fitting = Multiple(BlockSize, base)
  OBVIOUS
<1>4. fitting = 1
  <2>1. \A q \in PowersOfTwo : q < 1 => ~Fits(BlockSize, base * q)
    BY PowersAreNat
  <2>2. /\ fitting \in PowersOfTwo
        /\ \A q \in PowersOfTwo : q < fitting => ~Fits(BlockSize, base * q)
    BY <1>2, <1>3, <2>1 DEF Multiple
  <2>3. ~(1 < fitting)
    BY <1>2, <2>2
  <2>4. QED
    BY <2>2, <2>3, PowersAreNat
<1>5. fitting = 1 /\ base * fitting = base
  BY <1>1, <1>4
<1>6. ComputeSlabSize(free, table, BlockSize, base, available) =
        IF available < NextPowerOfTwo(base * fitting)
        THEN FindNextFreeSlabOfSize(free, table, BlockSize) ELSE NextPowerOfTwo(base * fitting)
  BY <1>3 DEF ComputeSlabSize
<1>7. NextPowerOfTwo(base * fitting) \in PowersOfTwo /\ base <= NextPowerOfTwo(base * fitting)
  BY <1>3, DoubledSize
<1>8. QED
  BY <1>5, <1>6, <1>7

LEMMA PowerIsNext == \A p \in PowersOfTwo : NextPowerOfTwo(p) = p
<1> SUFFICES ASSUME NEW p \in PowersOfTwo PROVE NextPowerOfTwo(p) = p
  OBVIOUS
<1> DEFINE next == NextPowerOfTwo(p)
<1>1. \A q \in PowersOfTwo : q \in Nat /\ p \in Nat
  BY PowersAreNat
<1>2. p <= p /\ \A q \in PowersOfTwo : q < p => q < p
  BY <1>1
<1>3. next \in PowersOfTwo /\ p <= next /\ \A q \in PowersOfTwo : q < next => q < p
  BY <1>2 DEF NextPowerOfTwo
<1>4. ~(p < next)
  BY <1>1, <1>3
<1>5. QED
  BY <1>1, <1>3, <1>4

(* The slab size is capped at MaxSlabSize, so that the one found in its    *)
(* place when it is not available makes no difference.                     *)
LEMMA DueSize ==
  ASSUME BlockSize \in RequestSizes, NEW s, UsableSize(s), NEW full \in Nat
  PROVE  /\ Due(full, s) \in Sizes /\ s <= Due(full, s)
         /\ LimitGrowth(full, s, s) = s
         /\ NextPowerOfTwo(Grown(s)) > MaxSlabSize => Due(full, s) = s
         /\ NextPowerOfTwo(Grown(s)) \in Nat
<1> DEFINE next == NextPowerOfTwo(Grown(s))
<1>1. s \in Sizes /\ s \in Nat /\ s <= MaxSlabSize /\ MaxSlabSize \in Nat /\ MinSlabSize <= s
      /\ BlockSize \in Nat /\ BlockSize <= s /\ MinSlabSize \in Nat
  BY SlabMemoryAssumption, SizesArePowers DEF UsableSize, Sizes
<1>2. next \in PowersOfTwo /\ Grown(s) <= next /\ Grown(s) \in Nat /\ s <= Grown(s)
  <2>1. Grown(s) \in {Grown(t) : t \in Sizes} /\ Grown(s) \in Nat /\ s <= Grown(s)
    BY <1>1, GrownIsLarger
  <2>2. BlockSize <= Grown(s)
    BY <1>1, <2>1
  <2>3. QED
    BY <2>1, <2>2, SizeForBlock
<1>3. next \in Nat /\ s <= next
  BY <1>1, <1>2, PowersAreNat
<1> HIDE DEF next
<1>4. Due(full, s) = LimitGrowth(full, s, next)
  BY DEF Due, next
<1>5. Due(full, s) \in {s, next} /\ (next > MaxSlabSize => Due(full, s) = s)
      /\ LimitGrowth(full, s, s) = s
  BY <1>4 DEF LimitGrowth
<1>6. QED
  BY <1>1, <1>2, <1>3, <1>5 DEF next, Sizes

(* While SteadyLists, a block is taken from the slab that has one left,    *)
(* or from a new slab of the size that is due.                             *)
LEMMA SteadyChoice ==
  ASSUME SteadyLists, lastUsedSlabSize \in Sizes, BlockSize \in RequestSizes,
         freeList \in [Sizes -> Seq(Nat)], NEW available \in Nat, available >= 2 * MaxSlabSize,
         NEW full, full = Cardinality(Occupied(fullList[lastUsedSlabSize])), full \in Nat,
         NEW choice, choice = ChooseSlab(BlockSize, available), choice # NoSlab
  PROVE  choice = IF freeList[lastUsedSlabSize] # <<>>
                  THEN [size |-> lastUsedSlabSize, new |-> FALSE]
                  ELSE [size |-> Due(full, lastUsedSlabSize), new |-> TRUE]
<1> DEFINE base == IF lastUsedSlabSize > MinSlabSize THEN lastUsedSlabSize ELSE MinSlabSize
           size == ComputeSlabSize(freeList, slabs, BlockSize, base, available)
           grown == ComputeSlabSize(freeList, slabs, BlockSize, Grown(size), available)
           newSize == LimitGrowth(Cardinality(Occupied(fullList[size])), size, grown)
<1>1. PICK s : s = lastUsedSlabSize
  OBVIOUS
<1>2. /\ s \in Sizes /\ s \in Nat \ {0} /\ s <= MaxSlabSize /\ MaxSlabSize \in Nat
      /\ MinSlabSize \in Nat /\ MinSlabSize <= s /\ s \in PowersOfTwo /\ BlockSize <= s
      /\ BlockSize \in Nat /\ UsableSize(s)
  BY <1>1, SizesArePowers, SlabMemoryAssumption DEF SteadyLists, UsableSize, Sizes
<1>3. base = s
  BY <1>1, <1>2
<1> HIDE DEF base
<1>4. size = s
  <2>1. ComputeSlabSize(freeList, slabs, BlockSize, s, available) = s
    BY <1>2, SizeForBlock, PowerIsNext
  <2>2. QED
    BY <1>3, <2>1
<1>5. choice = IF size > MaxSlabSize THEN NoSlab
               ELSE IF freeList[size] # <<>> THEN [size |-> size, new |-> FALSE]
               ELSE IF lastUsedSlabSize = 0 THEN [size |-> size, new |-> TRUE]
               ELSE IF grown = kInvalidSize THEN NoSlab
               ELSE [size |-> IF newSize > size THEN newSize ELSE size, new |-> TRUE]
  BY DEF ChooseSlab, base
<1> HIDE DEF size
<1>6. CASE freeList[s] # <<>>
  <2>1. choice = [size |-> s, new |-> FALSE]
    BY <1>2, <1>4, <1>5, <1>6
  <2>2. QED
    BY <1>1, <1>6, <2>1
<1>7. CASE freeList[s] = <<>>
  <2> DEFINE next == NextPowerOfTwo(Grown(s))
  <2>1. grown = IF available < next THEN FindNextFreeSlabOfSize(freeList, slabs, BlockSize) ELSE next
    <3>1. Grown(s) \in {Grown(t) : t \in Sizes} /\ BlockSize <= Grown(s)
      BY <1>2, GrownIsLarger
    <3>2. ComputeSlabSize(freeList, slabs, BlockSize, Grown(s), available)
             = IF available < next THEN FindNextFreeSlabOfSize(freeList, slabs, BlockSize) ELSE next
      BY <3>1, SizeForBlock
    <3>3. QED
      BY <1>4, <3>2
  <2>2. FindNextFreeSlabOfSize(freeList, slabs, BlockSize) = kInvalidSize
    <3>1. \A t \in Sizes : freeList[t] = <<>>
      BY <1>1, <1>7 DEF SteadyLists
    <3>2. QED
      BY <3>1 DEF FindNextFreeSlabOfSize
  <2> HIDE DEF next, grown
  <2>3. ~(size > MaxSlabSize) /\ lastUsedSlabSize # 0
    BY <1>1, <1>2, <1>4
  <2>4. grown # kInvalidSize
    BY <1>4, <1>5, <1>7, <2>3
  <2>5. grown = next
    BY <2>1, <2>2, <2>4
  <2>6. newSize = Due(full, s)
    BY <1>1, <1>4, <2>5 DEF Due, next
  <2> HIDE DEF newSize
  <2>7. Due(full, s) \in Sizes /\ s <= Due(full, s)
    BY <1>2, DueSize
  <2>8. (IF newSize > size THEN newSize ELSE size) = Due(full, s)
    <3>1. PICK due \in Nat : due = Due(full, s) /\ s <= due
      BY <2>7, SizesArePowers
    <3>2. QED
      BY <1>2, <1>4, <2>6, <3>1
  <2>9. choice = [size |-> Due(full, s), new |-> TRUE]
    BY <1>4, <1>5, <1>7, <2>3, <2>4, <2>8
  <2>10. QED
    BY <1>1, <1>7, <2>9
<1>8. QED
  BY <1>6, <1>7

(* The only slab in a free list is the one that the block was taken from:  *)
(* what is pre-fetched has the size that is due when it is full.           *)
LEMMA SteadyAhead ==
  ASSUME BlockSize \in RequestSizes, NEW s, UsableSize(s), NEW free, NEW table,
         \A t \in Sizes \ {s} : free[t] = <<>>, free[s] # <<>>, table[s][Back(free[s])].memory,
         SoonFull(s) \in Nat, NEW available \in Nat, available >= 2 * MaxSlabSize,
         NEW o, NEW i, NEW always
  PROVE  PrefetchSize(o, table, free, s, i, BlockSize, available, always) \in {0, Due(SoonFull(s), s)}
<1> DEFINE grown == ComputeSlabSize(free, table, BlockSize, Grown(s), available)
           size == LimitGrowth(SoonFull(s), s, grown)
           next == NextPowerOfTwo(Grown(s))
           found == {t \in Sizes : /\ free[t] # <<>>
                                   /\ table[t][Back(free[t])].memory
                                   /\ t >= BlockSize}
<1>1. /\ s \in Sizes /\ s \in Nat /\ s <= MaxSlabSize /\ MaxSlabSize \in Nat /\ BlockSize <= s
      /\ BlockSize \in Nat
  BY SizesArePowers, SlabMemoryAssumption DEF UsableSize, Sizes
<1>2. grown = IF available < next THEN FindNextFreeSlabOfSize(free, table, BlockSize) ELSE next
  <2>1. Grown(s) \in {Grown(t) : t \in Sizes} /\ BlockSize <= Grown(s)
    BY <1>1, GrownIsLarger
  <2>2. QED
    BY <2>1, SizeForBlock
<1>3. FindNextFreeSlabOfSize(free, table, BlockSize) = s
  <2>1. s \in found /\ \A t \in found : t = s
    BY <1>1
  <2>2. found = {s} /\ found # {}
    BY <2>1
  <2>3. FindNextFreeSlabOfSize(free, table, BlockSize) = IF found = {} THEN kInvalidSize ELSE Max(found)
    BY DEF FindNextFreeSlabOfSize
  <2> HIDE DEF found
  <2>4. found \subseteq 0..MaxSlabSize
    BY <1>1, <2>2
  <2>5. Max(found) \in found
    BY <1>1, <2>2, <2>4, MaxIn
  <2>6. QED
    BY <2>2, <2>3, <2>5
<1>4. size = Due(SoonFull(s), s)
  <2> HIDE DEF next
  <2>1. next \in Nat /\ LimitGrowth(SoonFull(s), s, s) = s
        /\ (next > MaxSlabSize => Due(SoonFull(s), s) = s)
    BY DueSize DEF next
  <2>2. CASE available < next
    <3>1. next > MaxSlabSize
      BY <1>1, <2>1, <2>2
    <3>2. grown = s
      BY <1>2, <1>3, <2>2
    <3> HIDE DEF grown
    <3>3. QED
      BY <2>1, <3>1, <3>2
  <2>3. CASE ~(available < next)
    <3>1. grown = next
      BY <1>2, <2>3
    <3> HIDE DEF grown
    <3>2. QED
      BY <3>1 DEF Due, next
  <2>4. QED
    BY <2>2, <2>3
<1>5. PrefetchSize(o, table, free, s, i, BlockSize, available, always) \in {0, size}
  BY DEF PrefetchSize
<1> HIDE DEF size
<1>6. QED
  BY <1>4, <1>5

LEMMA OccupiedCount ==
  ASSUME NEW list \in Seq(Nat)
  PROVE  /\ Cardinality(Occupied(list)) \in Nat
         /\ \A i \in Nat \ {0} :
               Cardinality(Occupied(Append(list, i))) = Cardinality(Occupied(list)) + 1
<1>1. IsFiniteSet(Occupied(list))
  <2>1. DOMAIN list = 1..Len(list) /\ Len(list) \in Nat
    OBVIOUS
  <2>2. IsFiniteSet(DOMAIN list)
    BY <2>1, FS_Interval
  <2>3. Occupied(list) \subseteq DOMAIN list
    BY DEF Occupied
  <2>4. QED
    BY <2>2, <2>3, FS_Subset
<1>2. ASSUME NEW i \in Nat \ {0}
      PROVE  Cardinality(Occupied(Append(list, i))) = Cardinality(Occupied(list)) + 1
  <2>1. /\ Occupied(Append(list, i)) = Occupied(list) \cup {Len(list) + 1}
        /\ Len(list) + 1 \notin Occupied(list)
    BY AppendFacts DEF Occupied, Hole
  <2>2. QED
    BY <1>1, <2>1, FS_AddElement
<1>3. QED
  BY <1>1, <1>2, FS_CardinalityType

LEMMA EraseOnlyItem ==
  ASSUME NEW list \in Seq(Nat), Len(list) = 1, NEW n \in DOMAIN list
  PROVE  Erase(list, n) = <<>>
<1>1. PICK left : left = Erase(list, n)
  OBVIOUS
<1>2. /\ left \in Seq(Nat) /\ Len(left) <= 1
      /\ \A k \in DOMAIN left : left[k] = IF k = n THEN Hole ELSE list[k]
      /\ left # <<>> => Back(left) # Hole
  BY <1>1, EraseFacts
<1>3. n = 1
  OBVIOUS
<1>4. CASE left # <<>>
  <2>1. Len(left) = 1 /\ 1 \in DOMAIN left
    BY <1>2, <1>4
  <2>2. Back(left) = Hole
    BY <1>2, <1>3, <2>1 DEF Back
  <2>3. QED
    BY <1>2, <1>4, <2>2
<1>5. QED
  BY <1>1, <1>4

(* A new slab is the only item of its free list and has no memory.         *)
LEMMA OneFreeSlab ==
  ASSUME CachesInv, NEW s \in Sizes, NEW new \in BOOLEAN,
         \A t \in Sizes \ {s} : freeList[t] = <<>>,
         IF new THEN freeList[s] = <<>> ELSE Len(freeList[s]) = 1,
         NEW table, table = SlabsFor(s, new), NEW free, free = FreeFor(s, new, table)
  PROVE  /\ free \in [Sizes -> Seq(Nat)]
         /\ Len(free[s]) = 1 /\ \A t \in Sizes \ {s} : free[t] = <<>>
         /\ new => ~table[s][Back(free[s])].memory
<1>1. freeList \in [Sizes -> Seq(Nat)] /\ slabs[s] \in Seq(SlabType) /\ slabs \in Tables
  BY DEF CachesInv, Tables
<1>2. CASE new
  <2>1. PICK slab, n : slab = NewSlab(Len(freeList[s]) + 1) /\ n = Len(slabs[s]) + 1
    OBVIOUS
  <2>2. table = [slabs EXCEPT ![s] = Append(slabs[s], slab)]
    BY <1>2, <2>1 DEF SlabsFor
  <2>3. ~slab.memory
    BY <2>1 DEF NewSlab
  <2>4. slab \in SlabType
    <3>1. Len(freeList[s]) \in Nat
      BY <1>1
    <3>2. QED
      BY <2>1, <3>1 DEF NewSlab, SlabType
  <2>5. table[s] = Append(slabs[s], slab) /\ n \in Nat
    BY <1>1, <2>1, <2>2 DEF Tables
  <2>6. table[s][n] = slab /\ Len(table[s]) = n
    BY <1>1, <2>1, <2>4, <2>5
  <2>7. free = [freeList EXCEPT ![s] = Append(freeList[s], n)]
    BY <1>2, <2>6 DEF FreeFor
  <2>8. free[s] = <<n>> /\ free \in [Sizes -> Seq(Nat)]
        /\ \A t \in Sizes \ {s} : free[t] = freeList[t]
    <3>1. Append(freeList[s], n) = <<n>> /\ <<n>> \in Seq(Nat)
      <4>1. freeList[s] = <<>>
        BY <1>2
      <4>2. Append(<<>>, n) = <<n>>
        BY <2>5
      <4>3. QED
        BY <2>5, <4>1, <4>2
    <3>2. free = [freeList EXCEPT ![s] = <<n>>]
      BY <2>7, <3>1
    <3>3. QED
      BY <1>1, <3>1, <3>2
  <2>9. Back(free[s]) = n /\ Len(free[s]) = 1
    BY <2>8 DEF Back
  <2>10. QED
    BY <2>3, <2>6, <2>8, <2>9
<1>3. CASE ~new
  BY <1>1, <1>3 DEF FreeFor
<1>4. QED
  BY <1>2, <1>3

(* The lists after the block was taken.                                    *)
LEMMA SteadyMove ==
  ASSUME fullList \in [Sizes -> Seq(Nat)], NEW free \in [Sizes -> Seq(Nat)], NEW used,
         NEW s \in Sizes, UsableSize(s), Len(free[s]) = 1, \A t \in Sizes \ {s} : free[t] = <<>>,
         NEW i \in Nat \ {0}, i = Back(free[s]), used[s][i].memory,
         used[s][i].index \in DOMAIN free[s],
         MoveToFull(free, used, s, i), lastUsedSlabSize' = s
  PROVE  /\ SteadyLists'
         /\ Cardinality(Occupied(fullList'[s])) + Len(freeList'[s]) = SoonFull(s)
<1>1. Cardinality(Occupied(fullList[s])) \in Nat /\ fullList[s] \in Seq(Nat) /\ s # 0
  BY OccupiedCount, SizesArePowers
<1>2. CASE IsFull(s, used[s][i])
  <2>1. /\ freeList' = [free EXCEPT ![s] = Erase(free[s], used[s][i].index)]
        /\ fullList' = [fullList EXCEPT ![s] = Append(fullList[s], i)]
    BY <1>2 DEF MoveToFull
  <2>2. Erase(free[s], used[s][i].index) = <<>>
    BY EraseOnlyItem
  <2>3. freeList'[s] = <<>> /\ \A t \in Sizes \ {s} : freeList'[t] = free[t]
    BY <2>1, <2>2
  <2>4. fullList'[s] = Append(fullList[s], i)
    BY <2>1
  <2>5. Cardinality(Occupied(fullList'[s])) = Cardinality(Occupied(fullList[s])) + 1
    BY <1>1, <2>4, OccupiedCount
  <2>6. Len(freeList'[s]) = 0
    BY <2>3
  <2>7. SteadyLists'
    BY <1>1, <2>3, <2>6 DEF SteadyLists
  <2>8. QED
    BY <1>1, <2>5, <2>6, <2>7 DEF SoonFull
<1>3. CASE ~IsFull(s, used[s][i])
  <2>1. freeList' = free /\ fullList' = fullList /\ slabs' = used
    BY <1>3 DEF MoveToFull
  <2>2. /\ \A t \in Sizes \ {s} : freeList'[t] = <<>>
        /\ Len(freeList'[s]) <= 1 /\ slabs'[s][Back(freeList'[s])].memory
    <3>1. freeList'[s] = free[s] /\ slabs'[s][Back(freeList'[s])] = used[s][i]
      BY <2>1
    <3>2. slabs'[s][Back(freeList'[s])].memory
      BY <3>1
    <3>3. \A t \in Sizes \ {s} : freeList'[t] = <<>>
      BY <2>1
    <3>4. Len(freeList'[s]) <= 1
      <4>1. PICK n : n = Len(free[s])
        OBVIOUS
      <4>2. n = 1 /\ Len(freeList'[s]) = n
        BY <3>1, <4>1
      <4>3. QED
        BY <4>2
    <3>5. QED
      BY <3>2, <3>3, <3>4
  <2>3. SteadyLists'
    <3>1. slabs'[lastUsedSlabSize'][Back(freeList'[lastUsedSlabSize'])].memory
      BY <2>2
    <3>2. /\ \A t \in Sizes \ {lastUsedSlabSize'} : freeList'[t] = <<>>
          /\ UsableSize(lastUsedSlabSize') /\ Len(freeList'[lastUsedSlabSize']) <= 1
      BY <2>2
    <3>3. QED
      BY <3>1, <3>2 DEF SteadyLists
  <2>4. QED
    BY <1>1, <2>1, <2>3 DEF SoonFull
<1>4. QED
  BY <1>2, <1>3

(* The pre-fetch of the right size, or none, is no miss.                   *)
LEMMA NoMiss ==
  ASSUME NEW s, NEW has \in BOOLEAN, NEW o \in GetOrCreateMemory(s, has), o.ok,
         ~has => nextSlab = None \/ nextSlab = [size |-> s, state |-> "ready"]
  PROVE  o.miss = 0 /\ (o.next = None \/ (o.next = nextSlab /\ has))
<1> DEFINE keepNext == [ok |-> TRUE, next |-> nextSlab, hit |-> 0, miss |-> 0, out |-> outstanding]
           missed == [keepNext EXCEPT !.next = None,
                                      !.miss = IF nextSlab = None THEN 0 ELSE 1,
                                      !.out = GiveBack(@)]
<1>1. CASE has
  BY <1>1 DEF GetOrCreateMemory
<1>2. CASE ~has /\ nextSlab = [size |-> s, state |-> "ready"]
  BY <1>2 DEF GetOrCreateMemory
<1>3. CASE ~has /\ nextSlab # [size |-> s, state |-> "ready"]
  <2>1. nextSlab = None
    BY <1>3
  <2>2. \/ o = [missed EXCEPT !.out[s] = @ + 1]
        \/ o = [missed EXCEPT !.ok = FALSE]
    BY <1>3 DEF GetOrCreateMemory, missed
  <2>3. missed.miss = 0 /\ missed.next = None
    BY <2>1
  <2>4. missed = [ok |-> TRUE, next |-> None, hit |-> 0, miss |-> 0, out |-> missed.out]
    <3>1. PICK out : out = GiveBack(keepNext.out)
      OBVIOUS
    <3>2. missed = [keepNext EXCEPT !.next = None, !.miss = 0, !.out = out]
      BY <2>1, <3>1
    <3> HIDE DEF missed
    <3>3. missed = [ok |-> TRUE, next |-> None, hit |-> 0, miss |-> 0, out |-> out]
      BY <3>2
    <3>4. QED
      BY <3>3
  <2> HIDE DEF missed
  <2>5. o.miss = 0 /\ o.next = None
    BY <2>2, <2>3, <2>4
  <2>6. QED
    BY <2>5
<1>4. QED
  BY <1>1, <1>2, <1>3

(* A request that succeeds while SteadyInv.                                *)
LEMMA SteadyAllocate ==
  ASSUME IInv, SteadyInv, NEW r \in RequestSizes, NEW available \in Availables,
         NEW always \in BOOLEAN, NEW keepAlive \in BOOLEAN,
         TryAllocateMemory(r, available, always, keepAlive)
  PROVE  SteadyInv'
<1> SUFFICES ASSUME steady' PROVE SteadyInv'
  BY DEF SteadyInv
<1>1. PICK n : n = GetOrCreate(keepAlive)
  OBVIOUS
<1>2. /\ steady /\ available >= 2 * MaxSlabSize /\ r = BlockSize /\ refs' > n
      /\ TryAllocateFromSlab(r, available, always, n)
  BY <1>1 DEF TryAllocateMemory
<1>3. CachesInv /\ PrefetchInv /\ OutstandingInv /\ OtherInv /\ n \in Nat /\ Roomy(freeList)
      /\ available \in Nat
  <2>1. CachesInv /\ PrefetchInv /\ OutstandingInv /\ RefsInv /\ OtherInv
    BY DEF IInv
  <2>2. PICK keeps : keeps = (kept \/ (refs = 0 /\ keepAlive))
    OBVIOUS
  <2>3. n \in Nat
    BY <1>1, <2>1, <2>2, EntryReferences
  <2>4. QED
    BY <2>1, <2>3, CachesAreRoomy, SlabMemoryAssumption DEF CachesInv
<1>4. misses = 0 /\ SteadyLists /\ SteadyPrefetch
  BY <1>2 DEF SteadyInv
<1> DEFINE choice == ChooseSlab(r, available)
           s == choice.size
           table == IF choice.new THEN [slabs EXCEPT ![s] = Append(@, NewSlab(Len(freeList[s]) + 1))]
                    ELSE slabs
           free == IF choice.new THEN [freeList EXCEPT ![s] = Append(@, Len(table[s]))] ELSE freeList
           i == Back(free[s])
           used == [table EXCEPT ![s][i] = WithBlock(@)]
<1> DEFINE Waited == choice # NoSlab => (~table[s][i].memory => nextSlab.state # "pending")
<1>5. Waited
  BY <1>2 DEF TryAllocateFromSlab
<1> HIDE DEF Waited
<1>6. CASE choice = NoSlab /\ refs' = n
           /\ UNCHANGED <<slabVars, nextSlab, hits, misses, outstanding, nullFreed>>
  <2>1. refs' = n
    BY <1>6
  <2>2. QED
    BY <1>2, <1>3, <2>1
<1>7. ASSUME choice # NoSlab,
             nullFreed' = (nullFreed \/ (~table[s][i].memory /\ nextSlab.state = "failed")),
             NEW o \in GetOrCreateMemory(s, table[s][i].memory),
             NEW ahead, ahead = PrefetchSize(o, used, free, s, i, r, available, always),
             hits' = hits + o.hit /\ misses' = misses + o.miss /\ outstanding' = o.out,
             \/ /\ o.ok
                /\ refs' = n + 1
                /\ lastUsedSlabSize' = s
                /\ nextSlab' = IF ahead > 0 THEN [size |-> ahead, state |-> "pending"]
                               ELSE o.next
                /\ MoveToFull(free, used, s, i)
             \/ /\ ~o.ok
                /\ refs' = n
                /\ nextSlab' = o.next
                /\ UNCHANGED <<fullList, lastUsedSlabSize>>
                /\ IF n = 0 THEN UNCHANGED <<freeList, slabs>>
                   ELSE freeList' = free /\ slabs' = table
      PROVE  SteadyInv'
  <2>1. /\ o.ok /\ lastUsedSlabSize' = s /\ MoveToFull(free, used, s, i)
        /\ nextSlab' = IF ahead > 0 THEN [size |-> ahead, state |-> "pending"] ELSE o.next
    <3>1. refs' # n
      BY <1>2, <1>3
    <3> HIDE DEF s, table, free, i, used
    <3>2. QED
      BY <1>7, <3>1
  <2>2. /\ choice \in [size : Sizes, new : BOOLEAN] /\ UsableSize(s)
        /\ ~choice.new => freeList[s] # <<>>
    <3>1. lastUsedSlabSize \in Sizes \cup {0}
      BY <1>3 DEF OtherInv
    <3>2. QED
      BY <1>3, <1>7, <3>1, ChosenSlab
  <2>3. \A t \in Sizes : Cardinality(Occupied(fullList[t])) \in Nat
    BY <1>3, OccupiedCount DEF CachesInv
  <2>4. lastUsedSlabSize # 0 =>
           choice = IF freeList[lastUsedSlabSize] # <<>>
                    THEN [size |-> lastUsedSlabSize, new |-> FALSE]
                    ELSE [size |-> Due(Cardinality(Occupied(fullList[lastUsedSlabSize])),
                                       lastUsedSlabSize),
                          new |-> TRUE]
    <3> SUFFICES ASSUME lastUsedSlabSize # 0
                 PROVE  choice = IF freeList[lastUsedSlabSize] # <<>>
                    THEN [size |-> lastUsedSlabSize, new |-> FALSE]
                    ELSE [size |-> Due(Cardinality(Occupied(fullList[lastUsedSlabSize])),
                                       lastUsedSlabSize),
                          new |-> TRUE]
      OBVIOUS
    <3>1. PICK full, picked : /\ full = Cardinality(Occupied(fullList[lastUsedSlabSize]))
                              /\ picked = ChooseSlab(BlockSize, available)
      OBVIOUS
    <3>2. lastUsedSlabSize \in Sizes /\ full \in Nat /\ freeList \in [Sizes -> Seq(Nat)]
      BY <1>3, <2>3, <3>1 DEF OtherInv, CachesInv
    <3>3. BlockSize \in RequestSizes /\ picked = choice /\ picked # NoSlab
      BY <1>2, <1>7, <3>1
    <3> HIDE DEF choice
    <3>4. picked = IF freeList[lastUsedSlabSize] # <<>>
                   THEN [size |-> lastUsedSlabSize, new |-> FALSE]
                   ELSE [size |-> Due(full, lastUsedSlabSize), new |-> TRUE]
      BY <1>2, <1>3, <1>4, <3>1, <3>2, <3>3, SteadyChoice
    <3>5. QED
      BY <3>1, <3>3, <3>4
  <2> HIDE DEF choice
  <2>5. PICK new \in BOOLEAN : new = choice.new
    BY <2>2
  <2>6. s \in Sizes /\ s # 0 /\ (~new => freeList[s] # <<>>)
    BY <2>2, <2>5, SizesArePowers DEF UsableSize
  <2>7. /\ \A t \in Sizes \ {s} : freeList[t] = <<>>
        /\ IF new THEN freeList[s] = <<>> ELSE Len(freeList[s]) = 1
    <3>1. CASE lastUsedSlabSize = 0
      <4>1. \A t \in Sizes : freeList[t] = <<>>
        BY <1>4, <3>1, SizesArePowers DEF SteadyLists
      <4>2. freeList[s] = <<>> /\ new
        BY <2>6, <4>1
      <4>3. QED
        BY <4>1, <4>2
    <3>2. CASE lastUsedSlabSize # 0 /\ freeList[lastUsedSlabSize] # <<>>
      <4>1. choice = [size |-> lastUsedSlabSize, new |-> FALSE]
        BY <2>4, <3>2
      <4>2. s = lastUsedSlabSize /\ ~new
        BY <2>5, <4>1
      <4>3. freeList[s] \in Seq(Nat) /\ freeList[s] # <<>> /\ Len(freeList[s]) <= 1
        BY <1>3, <1>4, <2>6, <3>2, <4>2 DEF CachesInv, SteadyLists
      <4>4. Len(freeList[s]) = 1
        <5>1. \A list \in Seq(Nat) : list # <<>> /\ Len(list) <= 1 => Len(list) = 1
          <6>1. \A k \in Nat : k # 0 /\ k <= 1 => k = 1
            OBVIOUS
          <6>2. \A list \in Seq(Nat) : list # <<>> => Len(list) \in Nat /\ Len(list) # 0
            OBVIOUS
          <6>3. QED
            BY <6>1, <6>2
        <5>2. QED
          BY <4>3, <5>1
      <4>5. \A t \in Sizes \ {s} : freeList[t] = <<>>
        BY <1>4, <4>2 DEF SteadyLists
      <4>6. QED
        BY <4>2, <4>4, <4>5
    <3>3. CASE lastUsedSlabSize # 0 /\ freeList[lastUsedSlabSize] = <<>>
      <4>1. choice.new = TRUE
        BY <2>4, <3>3
      <4>2. \A t \in Sizes : freeList[t] = <<>>
        BY <1>4, <3>3 DEF SteadyLists
      <4>3. new
        BY <2>5, <4>1
      <4>4. QED
        BY <2>6, <4>2, <4>3
    <3>4. QED
      BY <3>1, <3>2, <3>3
  <2>8. SlabReady(s, i, free, table) /\ table = SlabsFor(s, new) /\ free = FreeFor(s, new, table)
    <3> HIDE DEF s
    <3>1. table = SlabsFor(s, new)
      BY <2>5 DEF SlabsFor
    <3>2. free = FreeFor(s, new, table)
      BY <2>5 DEF FreeFor
    <3> HIDE DEF table, free
    <3>3. ~new => freeList[s] # <<>>
      BY <2>6
    <3>4. PICK t, f, z : t = table /\ f = free /\ z = s
      OBVIOUS
    <3>5. SlabReady(z, Back(f[z]), f, t)
      BY <1>3, <2>2, <2>5, <3>1, <3>2, <3>3, <3>4, TakeSlab
    <3>6. QED
      BY <3>1, <3>2, <3>4, <3>5
  <2> HIDE DEF table, free, i
  <2>9. /\ free \in [Sizes -> Seq(Nat)]
        /\ Len(free[s]) = 1 /\ \A t \in Sizes \ {s} : free[t] = <<>>
        /\ i = Back(free[s]) /\ (new => ~table[s][i].memory)
    <3>1. PICK t, f, z : t = table /\ f = free /\ z = s
      OBVIOUS
    <3>2. z \in Sizes
      BY <2>6, <3>1
    <3> HIDE DEF s
    <3>3. /\ f \in [Sizes -> Seq(Nat)]
          /\ Len(f[z]) = 1 /\ \A x \in Sizes \ {z} : f[x] = <<>>
          /\ new => ~t[z][Back(f[z])].memory
      BY <1>3, <2>5, <2>7, <2>8, <3>1, <3>2, OneFreeSlab
    <3>4. QED
      BY <3>1, <3>3 DEF i
  <2>10. ~table[s][i].memory => nextSlab = None \/ nextSlab = [size |-> s, state |-> "ready"]
    <3> SUFFICES ASSUME ~table[s][i].memory, nextSlab # None
                 PROVE  nextSlab = [size |-> s, state |-> "ready"]
      OBVIOUS
    <3>1. /\ lastUsedSlabSize # 0 /\ nextSlab.state # "failed"
          /\ nextSlab.size = Due(Cardinality(Occupied(fullList[lastUsedSlabSize]))
                                    + Len(freeList[lastUsedSlabSize]), lastUsedSlabSize)
      BY <1>4 DEF SteadyPrefetch
    <3>2. nextSlab \in [size : Sizes, state : {"pending", "ready", "failed"}]
          /\ nextSlab.state # "pending"
      BY <1>3, <1>7, <1>5 DEF PrefetchInv, Waited
    <3>3. freeList[lastUsedSlabSize] = <<>>
      <4>1. SUFFICES ASSUME freeList[lastUsedSlabSize] # <<>> PROVE FALSE
        OBVIOUS
      <4>2. choice = [size |-> lastUsedSlabSize, new |-> FALSE]
        BY <2>4, <3>1, <4>1
      <4>3. ~new /\ s = lastUsedSlabSize
        BY <2>5, <4>2
      <4>4. slabs[s][Back(freeList[s])].memory
        BY <1>4, <3>1, <4>1, <4>3 DEF SteadyLists
      <4>5. table = slabs /\ free = freeList
        BY <2>8, <4>3 DEF SlabsFor, FreeFor
      <4>6. i = Back(freeList[s]) /\ ~slabs[s][i].memory
        BY <2>9, <4>5
      <4>7. QED
        BY <4>4, <4>6
    <3>4. s = Due(Cardinality(Occupied(fullList[lastUsedSlabSize])), lastUsedSlabSize)
      BY <2>4, <3>1, <3>3
    <3>5. Cardinality(Occupied(fullList[lastUsedSlabSize])) + Len(freeList[lastUsedSlabSize])
             = Cardinality(Occupied(fullList[lastUsedSlabSize]))
      <4>1. lastUsedSlabSize \in Sizes
        BY <1>3, <3>1 DEF OtherInv
      <4>2. Cardinality(Occupied(fullList[lastUsedSlabSize])) \in Nat
            /\ Len(freeList[lastUsedSlabSize]) = 0
        BY <2>3, <3>3, <4>1
      <4>3. QED
        BY <4>2
    <3>6. nextSlab.size = s
      BY <3>1, <3>4, <3>5
    <3>7. QED
      BY <3>1, <3>2, <3>6
  <2>11. PICK has \in BOOLEAN : has <=> table[s][i].memory
    OBVIOUS
  <2>12. o.miss = 0 /\ (o.next = None \/ (o.next = nextSlab /\ has))
    <3>1. table[s][i].memory \in BOOLEAN
      <4>1. table[s] \in Seq(SlabType) /\ i \in DOMAIN table[s]
        BY <2>8 DEF SlabReady, Tables
      <4>2. QED
        BY <4>1, FiniteCache DEF SlabType
    <3>2. has = table[s][i].memory
      BY <2>11, <3>1
    <3>3. ~has => nextSlab = None \/ nextSlab = [size |-> s, state |-> "ready"]
      BY <2>10, <2>11
    <3> HIDE DEF s
    <3>4. o \in GetOrCreateMemory(s, has) /\ o.ok
      BY <1>7, <2>1, <3>2
    <3>5. QED
      BY <3>3, <3>4, NoMiss
  <2>13. used[s][i].memory /\ used[s][i].index \in DOMAIN free[s] /\ i \in Nat \ {0}
    <3>1. PICK cache, new2 : cache = table[s] /\ new2 = WithBlock(cache[i])
      OBVIOUS
    <3>2. /\ s \in Nat /\ CacheInv(s, free[s], fullList[s], cache) /\ i \in DOMAIN cache
          /\ ~IsFull(s, cache[i]) /\ table \in Tables /\ i \in Nat \ {0}
      BY <2>6, <2>8, <3>1, SizesArePowers DEF SlabReady
    <3>3. new2.index = cache[i].index /\ new2.memory
      BY <3>1, <3>2, BlockTaken
    <3>4. cache[i].index \in DOMAIN free[s]
      BY <3>2 DEF CacheInv, IsHome, OnlyAt
    <3>5. used[s][i] = new2
      BY <2>6, <3>1, <3>2 DEF WithBlock, Tables
    <3>6. QED
      BY <3>2, <3>3, <3>4, <3>5
  <2> HIDE DEF used, s
  <2>14. /\ SteadyLists'
         /\ Cardinality(Occupied(fullList'[s])) + Len(freeList'[s]) = SoonFull(s)
    <3>1. fullList \in [Sizes -> Seq(Nat)]
      BY <1>3 DEF CachesInv
    <3>2. QED
      BY <2>1, <2>2, <2>6, <2>9, <2>13, <3>1, SteadyMove
  <2>15. SteadyPrefetch'
    <3>1. CASE ahead > 0
      <4>1. SoonFull(s) \in Nat /\ available \in Nat /\ BlockSize \in RequestSizes
        BY <1>2, <1>3, <2>3, <2>6 DEF SoonFull
      <4>2. free[s] # <<>> /\ used[s][Back(free[s])].memory
        BY <2>9, <2>13
      <4>3. ahead = PrefetchSize(o, used, free, s, i, BlockSize, available, always)
        BY <1>2, <1>7
      <4>4. ahead \in {0, Due(SoonFull(s), s)}
        BY <1>2, <2>2, <2>9, <4>1, <4>2, <4>3, SteadyAhead
      <4>5. nextSlab' = [size |-> Due(SoonFull(s), s), state |-> "pending"]
        BY <2>1, <3>1, <4>4
      <4>6. nextSlab'.state # "failed" /\ nextSlab'.size = Due(SoonFull(s), s)
        BY <4>5
      <4>7. QED
        BY <2>1, <2>6, <2>14, <4>6 DEF SteadyPrefetch
    <3>2. CASE ~(ahead > 0) /\ o.next = None
      BY <2>1, <3>2 DEF SteadyPrefetch
    <3>3. CASE ~(ahead > 0) /\ o.next = nextSlab /\ has /\ nextSlab # None
      <4>1. nextSlab' = nextSlab
        BY <2>1, <3>3
      <4>2. /\ lastUsedSlabSize # 0 /\ nextSlab.state # "failed"
            /\ nextSlab.size = Due(Cardinality(Occupied(fullList[lastUsedSlabSize]))
                                      + Len(freeList[lastUsedSlabSize]), lastUsedSlabSize)
        BY <1>4, <3>3 DEF SteadyPrefetch
      <4>3. ~new
        BY <2>9, <2>11, <3>3
      <4>4. freeList[lastUsedSlabSize] # <<>>
        BY <2>4, <2>5, <4>2, <4>3
      <4>5. s = lastUsedSlabSize
        BY <2>4, <4>2, <4>4 DEF s
      <4>6. Len(freeList[s]) = 1
        BY <2>7, <4>3
      <4>7. nextSlab.size = Due(SoonFull(s), s)
        BY <4>2, <4>5, <4>6 DEF SoonFull
      <4>8. QED
        BY <2>1, <2>6, <2>14, <4>1, <4>2, <4>7 DEF SteadyPrefetch
    <3>4. QED
      BY <2>12, <3>1, <3>2, <3>3
  <2>16. misses' = 0
    BY <1>4, <1>7, <2>12
  <2>17. QED
    BY <2>14, <2>15, <2>16 DEF SteadyInv
<1>8. TryAllocateFromSlab(r, available, always, n)
  BY <1>2
<1>9. QED
  BY <1>6, <1>7, <1>8 DEF TryAllocateFromSlab

(* Only the size of the pre-fetch matters to SteadyInv, and the request or *)
(* the pre-fetch that fails ends it, as a block that is freed does.        *)
LEMMA StepSteady == IInv /\ SteadyInv /\ [Next]_vars => SteadyInv'
<1> SUFFICES ASSUME IInv, SteadyInv, [Next]_vars PROVE SteadyInv'
  OBVIOUS
<1>1. CASE \E size \in RequestSizes, available \in Availables, always \in BOOLEAN,
              keepAlive \in IF refs = 0 THEN BOOLEAN ELSE {FALSE} :
              TryAllocateMemory(size, available, always, keepAlive)
  <2>1. PICK size \in RequestSizes, available \in Availables, always \in BOOLEAN,
             keepAlive \in BOOLEAN : TryAllocateMemory(size, available, always, keepAlive)
    BY <1>1
  <2>2. QED
    BY <2>1, SteadyAllocate
<1>2. CASE \E s \in Sizes : \E i \in DOMAIN slabs[s] : DeallocateMemory(s, i)
  <2>1. steady' = FALSE
    BY <1>2 DEF DeallocateMemory
  <2>2. QED
    BY <2>1 DEF SteadyInv
<1>3. CASE AllocateMemoryTask
  <2>1. CASE steady' = FALSE
    BY <2>1 DEF SteadyInv
  <2>2. CASE nextSlab' = [nextSlab EXCEPT !.state = "ready"] /\ steady' = steady
    <3>1. nextSlab # None /\ nextSlab \in [size : Sizes, state : {"pending", "ready", "failed"}]
      BY <1>3 DEF AllocateMemoryTask, None, IInv, PrefetchInv
    <3>2. nextSlab'.size = nextSlab.size /\ nextSlab'.state # "failed"
      BY <2>2, <3>1
    <3>3. /\ freeList' = freeList /\ fullList' = fullList /\ slabs' = slabs
          /\ lastUsedSlabSize' = lastUsedSlabSize /\ misses' = misses
      BY <1>3 DEF AllocateMemoryTask, slabVars
    <3>4. SteadyLists => SteadyLists'
      BY <3>3 DEF SteadyLists
    <3>5. SteadyPrefetch => SteadyPrefetch'
      BY <3>1, <3>2, <3>3 DEF SteadyPrefetch
    <3>6. QED
      BY <2>2, <3>3, <3>4, <3>5 DEF SteadyInv
  <2>3. QED
    BY <1>3, <2>1, <2>2 DEF AllocateMemoryTask
<1>4. CASE Clear
  <2>1. steady' = FALSE
    BY <1>4 DEF Clear
  <2>2. QED
    BY <2>1 DEF SteadyInv
<1>5. CASE UNCHANGED vars
  BY <1>5 DEF vars, slabVars, SteadyInv, SteadyLists, SteadyPrefetch
<1>6. QED
  BY <1>1, <1>2, <1>3, <1>4, <1>5 DEF Next


-----------------------------------------------------------------------------
(* The theorems.                                                           *)

(* Every cache keeps its slabs in their lists, the memory and the          *)
(* references are accounted for, and the pre-fetched slab has the size of  *)
(* a cache.                                                                *)
THEOREM InductiveInvariant == Spec => []IInv
BY InitIInv, StepIInv, PTL DEF Spec

(* The state has its type.                                                 *)
THEOREM TypeCorrect == Spec => []TypeOK
<1>1. IInv => TypeOK
  <2> SUFFICES ASSUME IInv PROVE TypeOK
    OBVIOUS
  <2>1. freeList \in [Sizes -> StableList] /\ fullList \in [Sizes -> StableList]
        /\ slabs \in [Sizes -> Seq([used : Nat, memory : BOOLEAN, index : Nat \ {0}])]
    BY DEF IInv, CachesInv, StableList, SlabType
  <2>2. nextSlab \in [size : Sizes \cup {0}, state : {"none", "pending", "ready", "failed"}]
    BY DEF IInv, PrefetchInv, None
  <2>3. {hits, misses, refs} \subseteq Nat /\ outstanding \in [Sizes -> Nat]
        /\ lastUsedSlabSize \in Sizes \cup {0}
    BY DEF IInv, OtherInv, RefsInv, OutstandingInv
  <2>4. {kept, nullFreed, steady} \subseteq BOOLEAN
    BY DEF IInv, OtherInv, RefsInv
  <2>5. QED
    BY <2>1, <2>2, <2>3, <2>4 DEF TypeOK
<1>2. QED
  BY <1>1, InductiveInvariant, PTL

(* SlabMemoryAllocator moves and erases the slabs it means: a slab is at   *)
(* its IndexInList in the list of its state, and nowhere else.             *)
THEOREM SlabsAreWhereTheySay == Spec => []SlabIsWhereItSays
<1>1. IInv => SlabIsWhereItSays
  BY DEF IInv, CachesInv, CacheInv, IsHome, OnlyAt, NotIn, SlabIsWhereItSays
<1>2. QED
  BY <1>1, InductiveInvariant, PTL

(* SlabMemoryAllocator neither leaks memory nor gives it back twice or     *)
(* while a block lives in it, pre-fetched memory included.                 *)
THEOREM MemoryIsAccountedFor == Spec => []MemoryAccountedFor
<1>1. IInv => MemoryAccountedFor
  <2> SUFFICES ASSUME IInv PROVE MemoryAccountedFor
    OBVIOUS
  <2>1. \A s \in Sizes :
          outstanding[s] =
             Cardinality({i \in DOMAIN slabs[s] : slabs[s][i].used > 0})
             + IF nextSlab.state = "ready" /\ nextSlab.size = s THEN 1 ELSE 0
    BY DEF IInv, OutstandingInv, Holding, Prefetched
  <2>2. ASSUME NEW s \in Sizes, NEW i \in DOMAIN slabs[s]
        PROVE  slabs[s][i].memory = (slabs[s][i].used > 0)
    <3>1. slabs[s][i].memory \in BOOLEAN
      <4>1. slabs[s] \in Seq(SlabType)
        BY DEF IInv, CachesInv
      <4>2. QED
        BY <4>1, FiniteCache DEF SlabType
    <3>2. slabs[s][i].memory <=> slabs[s][i].used > 0
      BY DEF IInv, CachesInv, CacheInv
    <3>3. QED
      BY <3>1, <3>2
  <2>3. QED
    BY <2>1, <2>2 DEF MemoryAccountedFor
<1>2. QED
  BY <1>1, InductiveInvariant, PTL

(* SlabCacheAllocator drops the entry of a block size with its last block, *)
(* and the entry that is gone holds no memory.                             *)
THEOREM EntriesLiveWhileUsed == Spec => []EntryLivesWhileUsed
<1>1. IInv => EntryLivesWhileUsed
  <2> SUFFICES ASSUME IInv PROVE EntryLivesWhileUsed
    OBVIOUS
  <2>1. CachesInv /\ OutstandingInv /\ RefsInv
    BY DEF IInv
  <2>2. refs = BlocksInUse(slabs) + IF kept THEN 1 ELSE 0
    BY <2>1 DEF RefsInv, Own
  <2>3. ASSUME refs = 0
        PROVE  nextSlab = None /\ \A s \in Sizes : outstanding[s] = 0
    <3>1. nextSlab = None
      BY <2>1, <2>3 DEF RefsInv
    <3>2. slabs \in Tables /\ BlocksInUse(slabs) \in Nat
      BY <2>1, BlocksNat DEF CachesInv, Tables
    <3>3. BlocksInUse(slabs) = 0
      <4>1. PICK own : own = IF kept THEN 1 ELSE 0
        OBVIOUS
      <4>2. own \in {0, 1} /\ refs = BlocksInUse(slabs) + own
        BY <2>2, <4>1
      <4>3. QED
        BY <2>3, <3>2, <4>2
    <3>4. \A s \in Sizes : Cardinality(Holding(slabs[s])) = 0 /\ Prefetched(nextSlab, s) = 0
      BY <3>1, <3>2, <3>3, NothingHeld DEF Prefetched, None
    <3>5. QED
      BY <2>1, <3>1, <3>4 DEF OutstandingInv
  <2>4. QED
    BY <2>2, <2>3 DEF EntryLivesWhileUsed
<1>2. QED
  BY <1>1, InductiveInvariant, PTL


(* "Otherwise, the pre-fetch will always miss the cache": a pre-fetch is   *)
(* never lost while the client only allocates and every request succeeds,  *)
(* whatever the slab sizes, the growth factor and the thresholds.          *)
THEOREM PrefetchesPayOff == Spec => []PrefetchPaysOff
<1>1. Init => SteadyInv
  <2> SUFFICES ASSUME Init PROVE SteadyInv
    OBVIOUS
  <2>1. misses = 0 /\ nextSlab = None /\ lastUsedSlabSize = 0 /\ \A s \in Sizes : freeList[s] = <<>>
    BY DEF Init, InitSlabs
  <2>2. QED
    BY <2>1 DEF SteadyInv, SteadyLists, SteadyPrefetch
<1>2. SteadyInv => PrefetchPaysOff
  BY DEF SteadyInv, PrefetchPaysOff
<1>3. QED
  BY <1>1, <1>2, StepSteady, InductiveInvariant, PTL DEF Spec
=============================================================================
