--------------------- MODULE SlabBlockAllocator_proofs ----------------------
(* Proofs about SlabBlockAllocator, for every number and size of blocks.   *)
EXTENDS SlabBlockAllocator, TLAPS

USE SlabAssumption

(* Popping the head of an injective list removes exactly that entry.       *)
LEMMA PopHead ==
    ASSUME NEW S, NEW list \in Seq(S), list # <<>>,
           \A i, j \in DOMAIN list : list[i] = list[j] => i = j
    PROVE  /\ Tail(list) \in Seq(S)
           /\ Head(list) \in S
           /\ \A i, j \in DOMAIN Tail(list) : Tail(list)[i] = Tail(list)[j] => i = j
           /\ Listed(Tail(list)) = Listed(list) \ {Head(list)}
           /\ Head(list) \in Listed(list)
<1>1. Len(list) \in Nat \ {0} /\ DOMAIN list = 1..Len(list)
  OBVIOUS
<1>2. /\ Tail(list) \in Seq(S)
      /\ Len(Tail(list)) = Len(list) - 1
      /\ \A i \in 1..(Len(list) - 1) : Tail(list)[i] = list[i + 1]
  BY <1>1
<1>3. DOMAIN Tail(list) = 1..(Len(list) - 1)
  BY <1>2
<1>4. Head(list) = list[1] /\ Head(list) \in S
  BY <1>1
<1>5. \A i, j \in DOMAIN Tail(list) : Tail(list)[i] = Tail(list)[j] => i = j
  BY <1>1, <1>2, <1>3
<1>6. Listed(Tail(list)) = Listed(list) \ {Head(list)}
  <2>1. ASSUME NEW x \in Listed(Tail(list)) PROVE x \in Listed(list) \ {Head(list)}
    <3>1. PICK i \in DOMAIN Tail(list) : x = Tail(list)[i]
      BY <2>1 DEF Listed
    <3>2. x = list[i + 1] /\ i + 1 \in DOMAIN list /\ i + 1 # 1
      BY <3>1, <1>1, <1>2, <1>3
    <3> QED
      BY <3>2, <1>1, <1>4 DEF Listed
  <2>2. ASSUME NEW x \in Listed(list) \ {Head(list)} PROVE x \in Listed(Tail(list))
    <3>1. PICK i \in DOMAIN list : x = list[i]
      BY <2>2 DEF Listed
    <3>2. i - 1 \in DOMAIN Tail(list) /\ Tail(list)[i - 1] = x
      BY <3>1, <2>2, <1>1, <1>2, <1>3, <1>4
    <3> QED
      BY <3>2 DEF Listed
  <2> QED
    BY <2>1, <2>2
<1>7. Head(list) \in Listed(list)
  BY <1>1, <1>4 DEF Listed
<1> QED
  BY <1>2, <1>4, <1>5, <1>6, <1>7

(* Pushing a new entry at the head of an injective list.                   *)
LEMMA PushHead ==
    ASSUME NEW S, NEW list \in Seq(S), NEW x \in S, x \notin Listed(list),
           \A i, j \in DOMAIN list : list[i] = list[j] => i = j
    PROVE  /\ <<x>> \o list \in Seq(S)
           /\ <<x>> \o list # <<>>
           /\ \A i, j \in DOMAIN (<<x>> \o list) : (<<x>> \o list)[i] = (<<x>> \o list)[j] => i = j
           /\ Listed(<<x>> \o list) = Listed(list) \cup {x}
<1> DEFINE new == <<x>> \o list
<1>1. Len(list) \in Nat /\ DOMAIN list = 1..Len(list)
  OBVIOUS
<1>2. new \in Seq(S) /\ Len(new) = Len(list) + 1
  OBVIOUS
<1>3. DOMAIN new = 1..(Len(list) + 1)
  BY <1>2
<1>4. new[1] = x /\ \A i \in 1..Len(list) : new[i + 1] = list[i]
  BY <1>1
<1>5. \A i \in DOMAIN new : i = 1 \/ (i - 1 \in DOMAIN list /\ new[i] = list[i - 1])
  <2>1. SUFFICES ASSUME NEW i \in DOMAIN new, i # 1
                 PROVE  i - 1 \in DOMAIN list /\ new[i] = list[i - 1]
    OBVIOUS
  <2>2. i - 1 \in 1..Len(list) /\ (i - 1) + 1 = i
    BY <2>1, <1>1, <1>3
  <2> HIDE DEF new
  <2> QED
    BY <2>2, <1>1, <1>4
<1>6. \A i, j \in DOMAIN new : new[i] = new[j] => i = j
  <2> HIDE DEF new
  <2>1. SUFFICES ASSUME NEW i \in DOMAIN new, NEW j \in DOMAIN new, new[i] = new[j]
                 PROVE  i = j
    OBVIOUS
  <2>2. i \in Nat /\ j \in Nat
    BY <2>1, <1>1, <1>3
  <2>3. CASE i = 1 /\ j = 1
    BY <2>3
  <2>4. CASE i = 1 /\ j # 1
    BY <2>1, <2>4, <1>4, <1>5 DEF Listed
  <2>5. CASE i # 1 /\ j = 1
    BY <2>1, <2>5, <1>4, <1>5 DEF Listed
  <2>6. CASE i # 1 /\ j # 1
    <3>1. i - 1 = j - 1
      BY <2>1, <2>6, <1>5
    <3> QED
      BY <3>1, <2>2
  <2> QED
    BY <2>3, <2>4, <2>5, <2>6
<1>7. Listed(new) = Listed(list) \cup {x}
  <2> HIDE DEF new
  <2>1. ASSUME NEW y \in Listed(new) PROVE y \in Listed(list) \cup {x}
    BY <2>1, <1>4, <1>5 DEF Listed
  <2>2. ASSUME NEW y \in Listed(list) PROVE y \in Listed(new)
    <3>1. PICK i \in DOMAIN list : y = list[i]
      BY <2>2 DEF Listed
    <3>2. i + 1 \in DOMAIN new /\ new[i + 1] = y
      BY <3>1, <1>1, <1>3, <1>4
    <3> QED
      BY <3>2 DEF Listed
  <2>3. x \in Listed(new)
    BY <1>1, <1>3, <1>4 DEF Listed
  <2> QED
    BY <2>1, <2>2, <2>3
<1> QED
  BY <1>2, <1>3, <1>6, <1>7

(* The list of a single fresh block.                                       *)
LEMMA Singleton ==
    ASSUME NEW S, NEW x \in S
    PROVE  /\ <<x>> \in Seq(S)
           /\ <<x>> # <<>>
           /\ \A i, j \in DOMAIN <<x>> : <<x>>[i] = <<x>>[j] => i = j
           /\ Listed(<<x>>) = {x}
  BY DEF Listed

(* The empty list holds no block.                                          *)
LEMMA EmptyList == Listed(<<>>) = {}
  BY DEF Listed
-----------------------------------------------------------------------------
(* A slab starts with its first block in the free list.                    *)
LEMMA InitIInv == Init => IInv
<1> SUFFICES ASSUME Init PROVE IInv
  OBVIOUS
<1>1. 0 \in Blocks
  BY DEF Blocks
<1>2. TypeOK
  BY <1>1, Singleton DEF Init, TypeOK
<1>3. BlocksAccountedFor
  <2>1. Listed(freeList) = {0} /\ 0..nextFreeBlockIndex = {0}
    BY <1>1, Singleton DEF Init
  <2>2. \A i, j \in DOMAIN freeList : freeList[i] = freeList[j] => i = j
    BY <1>1, Singleton DEF Init
  <2> QED
    BY <2>1, <2>2 DEF Init, BlocksAccountedFor
<1> QED
  BY <1>2, <1>3 DEF Init, IInv

(* TryAllocateBlock keeps the invariant: it moves the head of the list to  *)
(* the caller and, when the list runs empty, adds the next fresh block.    *)
LEMMA AllocatePreserves ==
    ASSUME IInv, NEW requestSize, NEW alignment, TryAllocateBlock(requestSize, alignment)
    PROVE  IInv'
<1> USE DEF IInv
<1>1. /\ nextFreeBlockIndex \in Nat /\ nextFreeBlockIndex < BlockCount
      /\ freeList \in Seq(Blocks) /\ allocated \subseteq Blocks
  BY DEF TypeOK, Blocks
<1>2. CASE freeList = <<>>
  <2>1. UNCHANGED vars
    BY <1>2 DEF TryAllocateBlock, vars
  <2> QED
    BY <2>1 DEF vars, TypeOK, BlocksAccountedFor, NotFull
<1>3. CASE freeList # <<>>
  <2> DEFINE h == Head(freeList)
             rest == Tail(freeList)
  <2>1. /\ rest \in Seq(Blocks)
        /\ h \in Blocks
        /\ \A i, j \in DOMAIN rest : rest[i] = rest[j] => i = j
        /\ Listed(rest) = Listed(freeList) \ {h}
        /\ h \in Listed(freeList)
    BY <1>1, <1>3, PopHead DEF BlocksAccountedFor
  <2>2. allocated' = allocated \cup {h} /\ allocated' \subseteq Blocks
    BY <1>1, <1>3, <2>1 DEF TryAllocateBlock
  <2> HIDE DEF h
  <2>3. Listed(rest) \cap allocated' = {} /\ Listed(rest) \cup allocated' = 0..nextFreeBlockIndex
    BY <2>1, <2>2 DEF BlocksAccountedFor
  <2>4. CASE rest = <<>> /\ NotFull
    <3> DEFINE fresh == nextFreeBlockIndex + 1
    <3>1. freeList' = <<fresh>> /\ nextFreeBlockIndex' = fresh
      BY <1>3, <2>4 DEF TryAllocateBlock
    <3>2. fresh \in Blocks /\ fresh \in Nat /\ fresh \notin 0..nextFreeBlockIndex
          /\ 0..fresh = (0..nextFreeBlockIndex) \cup {fresh}
      BY <1>1, <2>4 DEF Blocks, NotFull
    <3>3. /\ freeList' \in Seq(Blocks) /\ freeList' # <<>>
          /\ \A i, j \in DOMAIN freeList' : freeList'[i] = freeList'[j] => i = j
          /\ Listed(freeList') = {fresh}
      BY <3>1, <3>2, Singleton
    <3>4. allocated' = 0..nextFreeBlockIndex
      BY <2>3, <2>4, EmptyList
    <3>5. TypeOK'
      BY <2>2, <3>1, <3>2, <3>3 DEF TypeOK
    <3> HIDE DEF fresh
    <3>6. Listed(freeList') \cap allocated' = {} /\ Listed(freeList') \cup allocated' = 0..fresh
      BY <3>2, <3>3, <3>4
    <3>7. Listed(freeList)' = Listed(freeList')
      BY DEF Listed
    <3>8. BlocksAccountedFor'
      BY <3>1, <3>3, <3>6, <3>7 DEF BlocksAccountedFor
    <3> QED
      BY <3>3, <3>5, <3>8
  <2>5. CASE ~(rest = <<>> /\ NotFull)
    <3>1. freeList' = rest /\ nextFreeBlockIndex' = nextFreeBlockIndex
      BY <1>3, <2>5 DEF TryAllocateBlock
    <3>2. TypeOK'
      BY <2>1, <2>2, <3>1 DEF TypeOK
    <3>3. BlocksAccountedFor'
      <4>1. Listed(freeList)' = Listed(rest)
        BY <3>1 DEF Listed
      <4> QED
        BY <2>1, <2>3, <3>1, <4>1 DEF BlocksAccountedFor
    <3>4. freeList' = <<>> => ~NotFull'
      BY <2>5, <3>1 DEF NotFull
    <3> QED
      BY <3>2, <3>3, <3>4
  <2> QED
    BY <2>4, <2>5
<1> QED
  BY <1>2, <1>3

(* DeallocateBlock keeps the invariant: the caller's block becomes the     *)
(* head of the free list.                                                  *)
LEMMA DeallocatePreserves ==
    ASSUME IInv, NEW block \in allocated, DeallocateBlock(block)
    PROVE  IInv'
<1> USE DEF IInv
<1>1. block \in Blocks /\ block \notin Listed(freeList) /\ freeList \in Seq(Blocks)
  BY DEF TypeOK, BlocksAccountedFor
<1>2. /\ freeList' = <<block>> \o freeList
      /\ allocated' = allocated \ {block}
      /\ nextFreeBlockIndex' = nextFreeBlockIndex
  BY DEF DeallocateBlock
<1>3. /\ freeList' \in Seq(Blocks) /\ freeList' # <<>>
      /\ \A i, j \in DOMAIN freeList' : freeList'[i] = freeList'[j] => i = j
      /\ Listed(freeList') = Listed(freeList) \cup {block}
  BY <1>1, <1>2, PushHead DEF BlocksAccountedFor
<1>4. Listed(freeList)' = Listed(freeList')
  BY DEF Listed
<1>5. TypeOK'
  BY <1>2, <1>3 DEF TypeOK
<1>6. BlocksAccountedFor'
  <2>1. Listed(freeList') \cap allocated' = {}
    BY <1>1, <1>2, <1>3 DEF BlocksAccountedFor
  <2>2. Listed(freeList') \cup allocated' = 0..nextFreeBlockIndex
    BY <1>1, <1>2, <1>3 DEF BlocksAccountedFor
  <2> QED
    BY <1>2, <1>3, <1>4, <2>1, <2>2 DEF BlocksAccountedFor
<1> QED
  BY <1>3, <1>5, <1>6

(* Every step preserves the inductive invariant.                           *)
LEMMA StepIInv == IInv /\ [Next]_vars => IInv'
<1> SUFFICES ASSUME IInv, [Next]_vars PROVE IInv'
  OBVIOUS
<1>1. CASE Next
  BY <1>1, AllocatePreserves, DeallocatePreserves DEF Next
<1>2. CASE UNCHANGED vars
  BY <1>2 DEF vars, IInv, TypeOK, BlocksAccountedFor, NotFull, Listed
<1> QED
  BY <1>1, <1>2

(* The inductive invariant of the slab, for every number and size of       *)
(* blocks and every sequence of TryAllocateBlock and DeallocateBlock.      *)
THEOREM InductiveInvariant == Spec => []IInv
<1>1. Init => IInv
  BY InitIInv
<1>2. IInv /\ [Next]_vars => IInv'
  BY StepIInv
<1> QED
  BY <1>1, <1>2, PTL DEF Spec

(* No block is lost or handed out twice.                                   *)
THEOREM NoBlockLostOrShared == Spec => []BlocksAccountedFor
<1>1. IInv => BlocksAccountedFor
  BY DEF IInv
<1> QED
  BY <1>1, InductiveInvariant, PTL

(* Every variable keeps its type in every reachable state.                 *)
THEOREM TypeCorrect == Spec => []TypeOK
<1>1. IInv => TypeOK
  BY DEF IInv
<1> QED
  BY <1>1, InductiveInvariant, PTL

(* TryAllocateBlock fails only when all BlockCount blocks are in use.      *)
THEOREM FailsOnlyWhenFull == Spec => []NullOnlyWhenFull
<1>1. IInv => NullOnlyWhenFull
  <2> SUFFICES ASSUME IInv, freeList = <<>> PROVE allocated = Blocks
    BY DEF NullOnlyWhenFull
  <2>1. nextFreeBlockIndex = BlockCount - 1
    BY DEF IInv, TypeOK, NotFull, Blocks
  <2>2. Listed(freeList) = {}
    BY EmptyList
  <2> QED
    BY <2>1, <2>2 DEF IInv, BlocksAccountedFor, Blocks
<1> QED
  BY <1>1, InductiveInvariant, PTL
-----------------------------------------------------------------------------
(* Blocks with different indices do not share a byte.                      *)
LEMMA OffsetsApart ==
    ASSUME NEW i \in Nat, NEW j \in Nat, NEW size \in Nat, i < j
    PROVE  i * size + size <= j * size
<1> DEFINE k == j - i - 1
<1>1. k \in Nat /\ j = i + 1 + k
  OBVIOUS
<1>2. k * size >= 0 /\ k * size \in Int /\ i * size \in Int
  BY <1>1
<1> HIDE DEF k
<1>3. j * size = i * size + size + k * size
  BY <1>1
<1> QED
  BY <1>2, <1>3

(* The byte range of block b.                                              *)
Bytes(b) == [offset |-> Offset(b), size |-> BlockSize]

(* The bytes of a block lie within the slab.                               *)
LEMMA BytesInSlab ==
    ASSUME NEW b \in Blocks
    PROVE  /\ Bytes(b) \in Interface!Block
           /\ Bytes(b).offset + Bytes(b).size <= BlockCount * BlockSize
<1>1. b \in Nat /\ b < BlockCount /\ BlockCount \in Nat /\ BlockSize \in Nat /\ BlockSize > 0
  BY DEF Blocks
<1>2. b * BlockSize + BlockSize <= BlockCount * BlockSize
  BY <1>1, OffsetsApart
<1>3. b * BlockSize \in Nat /\ BlockCount * BlockSize \in Nat
  BY <1>1
<1>4. b * BlockSize \in 0..(BlockCount * BlockSize - 1) /\ BlockSize \in 1..(BlockCount * BlockSize)
  BY <1>1, <1>2, <1>3
<1> QED
  BY <1>2, <1>4 DEF Bytes, Offset, Interface!Block

(* Blocks of different indices share no byte.                              *)
LEMMA BytesDisjoint ==
    ASSUME NEW b \in Blocks, NEW c \in Blocks, b # c
    PROVE  Interface!Disjoint(Bytes(b), Bytes(c)) /\ Bytes(b) # Bytes(c)
<1>1. b \in Nat /\ c \in Nat /\ BlockSize \in Nat /\ BlockSize > 0
  BY DEF Blocks
<1>2. b < c \/ c < b
  BY <1>1
<1>3. b * BlockSize + BlockSize <= c * BlockSize \/ c * BlockSize + BlockSize <= b * BlockSize
  BY <1>1, <1>2, OffsetsApart
<1>4. b * BlockSize \in Nat /\ c * BlockSize \in Nat
  BY <1>1
<1>5. b * BlockSize # c * BlockSize
  BY <1>1, <1>3, <1>4
<1> QED
  BY <1>3, <1>5 DEF Bytes, Offset, Interface!Disjoint

(* The ranges in use are the bytes of the allocated blocks.                *)
LEMMA LiveIsBytes == Live = {Bytes(b) : b \in allocated}
  BY DEF Live, Bytes

(* Every step of the slab is a step of the interface, or leaves it alone.  *)
LEMMA StepRefines == IInv /\ [Next]_vars => [Interface!Next]_Live
<1> SUFFICES ASSUME IInv, [Next]_vars PROVE [Interface!Next]_Live
  OBVIOUS
<1>0. allocated \subseteq Blocks /\ freeList \in Seq(Blocks)
  BY DEF IInv, TypeOK
<1>1. Live' = {Bytes(b) : b \in allocated'}
  BY DEF Live, Bytes, Offset
<1>2. ASSUME NEW requestSize, NEW alignment, TryAllocateBlock(requestSize, alignment)
      PROVE  [Interface!Next]_Live
  <2>1. CASE freeList = <<>>
    <3>1. allocated' = allocated
      BY <1>2, <2>1 DEF TryAllocateBlock
    <3> QED
      BY <3>1, <1>1, LiveIsBytes
  <2>2. CASE freeList # <<>>
    <3> DEFINE h == Head(freeList)
    <3>1. h \in Blocks /\ h \in Listed(freeList)
      BY <1>0, <2>2, PopHead DEF IInv, BlocksAccountedFor
    <3>2. allocated' = allocated \cup {h}
      BY <1>2, <2>2 DEF TryAllocateBlock
    <3> HIDE DEF h
    <3>3. h \notin allocated
      BY <3>1 DEF IInv, BlocksAccountedFor
    <3>4. \A c \in Live : Interface!Disjoint(Bytes(h), c)
      BY <1>0, <3>1, <3>3, LiveIsBytes, BytesDisjoint
    <3>5. Live' = Live \cup {Bytes(h)}
      BY <1>1, <3>2, LiveIsBytes
    <3>6. Interface!TryAllocateBlock(Bytes(h))
      BY <3>1, <3>4, <3>5, BytesInSlab DEF Interface!TryAllocateBlock
    <3> QED
      BY <3>1, <3>6, BytesInSlab DEF Interface!Next
  <2> QED
    BY <2>1, <2>2
<1>3. ASSUME NEW block \in allocated, DeallocateBlock(block)
      PROVE  [Interface!Next]_Live
  <2>1. block \in Blocks /\ Bytes(block) \in Live
    BY <1>0, LiveIsBytes
  <2>2. allocated' = allocated \ {block}
    BY <1>3 DEF DeallocateBlock
  <2>3. \A c \in allocated : Bytes(c) = Bytes(block) => c = block
    BY <1>0, <2>1, BytesDisjoint
  <2>4. Live' = Live \ {Bytes(block)}
    BY <1>1, <2>2, <2>3, LiveIsBytes
  <2>5. Interface!DeallocateBlock(Bytes(block))
    BY <2>1, <2>4 DEF Interface!DeallocateBlock
  <2> QED
    BY <2>1, <2>5, BytesInSlab DEF Interface!Next
<1>4. CASE UNCHANGED vars
  BY <1>1, <1>4, LiveIsBytes DEF vars
<1> QED
  BY <1>2, <1>3, <1>4 DEF Next

(* The slab implements the BlockAllocator interface: whatever the order of *)
(* calls, blocks in use lie in the slab and never overlap.                 *)
THEOREM Refinement == Spec => IsBlockAllocator
<1>1. Init => Interface!Init
  BY DEF Init, Interface!Init, Live
<1>2. IInv /\ [Next]_vars => [Interface!Next]_Live
  BY StepRefines
<1> QED
  BY <1>1, <1>2, InductiveInvariant, PTL DEF Spec, IsBlockAllocator, Interface!Spec
=============================================================================
