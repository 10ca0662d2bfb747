------------------------------ MODULE SetSums ------------------------------
(***************************************************************************)
(* Sums over finite sets: the facts about MapThenSumSet that the proofs of *)
(* the components' statistics need.  The library defines the sum by        *)
(* recursion over the subsets of the set; that the recursion is well       *)
(* founded, and that the order of the elements does not matter, is shown   *)
(* here with the least set that would be a counterexample.                 *)
(***************************************************************************)
EXTENDS Integers, FiniteSets, FiniteSetsExt, FiniteSetTheorems, WellFoundedInduction, TLAPS

(* The sum of f over S.                                                    *)
SumOver(f, S) == MapThenSumSet(LAMBDA x : f[x], S)

Some(s) == CHOOSE x \in s : TRUE

(* g is the function that the recursion of the library defines for S.      *)
IsSum(g, f, S) ==
    g = [s \in SUBSET S |-> IF s = {} THEN 0 ELSE f[Some(s)] + g[s \ {Some(s)}]]

(* Every non-empty set of natural numbers has a smallest element.          *)
LEMMA SmallestNat ==
  ASSUME NEW S, S \subseteq Nat, S # {}
  PROVE  \E x \in S : \A y \in S : x <= y
<1>1. \E x \in S : \A y \in S : ~ (<<y, x>> \in OpToRel(<, Nat))
  BY NatLessThanWellFounded, WFMin
<1>2. PICK x \in S : \A y \in S : ~ (<<y, x>> \in OpToRel(<, Nat))
  BY <1>1
<1>3. \A y \in S : y < x => <<y, x>> \in OpToRel(<, Nat)
  BY DEF OpToRel
<1>4. \A y \in S : ~ (y < x)
  BY <1>2, <1>3
<1>5. \A y \in S : x <= y
  BY <1>4
<1>6. QED
  BY <1>5

(* Among the subsets of a finite set that have some property, one has no   *)
(* smaller one below it.                                                   *)
LEMMA SmallestSubset ==
  ASSUME NEW S, IsFiniteSet(S), NEW P, P \subseteq SUBSET S, P # {}
  PROVE  \E s \in P : \A u \in P : u \subseteq s => u = s
<1> DEFINE N == {Cardinality(s) : s \in P}
<1>1. \A s \in P : IsFiniteSet(s) /\ Cardinality(s) \in Nat
  BY FS_Subset, FS_CardinalityType
<1>2. N \subseteq Nat /\ N # {}
  BY <1>1
<1>3. PICK n \in N : \A k \in N : n <= k
  <2> HIDE DEF N
  <2>1. QED
    BY <1>2, SmallestNat
<1>4. PICK s \in P : Cardinality(s) = n
  BY <1>3
<1>5. ASSUME NEW u \in P, u \subseteq s PROVE u = s
  <2>1. Cardinality(s) <= Cardinality(u)
    BY <1>3, <1>4
  <2>2. Cardinality(u) <= Cardinality(s)
    BY <1>1, <1>5, FS_Subset
  <2>3. Cardinality(u) = Cardinality(s)
    BY <1>1, <2>1, <2>2
  <2>4. QED
    BY <1>1, <1>5, <2>3, FS_Subset
<1>6. QED
  BY <1>5

(* Two finite sets that differ at most in one element.                     *)
LEMMA DifferInOne ==
  ASSUME NEW S, NEW T, NEW x, IsFiniteSet(S), T \ {x} = S \ {x}
  PROVE  /\ Cardinality(S) \in Nat /\ Cardinality(T) \in Nat
         /\ Cardinality(T) = Cardinality(S) + (IF x \in T THEN 1 ELSE 0)
                                            - (IF x \in S THEN 1 ELSE 0)
<1>1. /\ IsFiniteSet(S \ {x})
      /\ Cardinality(S \ {x}) = IF x \in S THEN Cardinality(S) - 1 ELSE Cardinality(S)
  BY FS_RemoveElement
<1>2. /\ IsFiniteSet((T \ {x}) \cup {x})
      /\ Cardinality((T \ {x}) \cup {x}) = Cardinality(T \ {x}) + 1
  <2>1. x \notin T \ {x}
    OBVIOUS
  <2>2. QED
    BY <1>1, <2>1, FS_AddElement
<1>3. Cardinality(S) \in Nat /\ Cardinality(S \ {x}) \in Nat
  BY <1>1, FS_CardinalityType
<1>4. CASE x \in T
  <2>1. T = (T \ {x}) \cup {x}
    BY <1>4
  <2>2. Cardinality(T) = Cardinality(T \ {x}) + 1
    BY <2>1, <1>2
  <2>3. QED
    BY <1>1, <1>3, <1>4, <2>2
<1>5. CASE x \notin T
  <2>1. T = T \ {x}
    BY <1>5
  <2>2. Cardinality(T) = Cardinality(S \ {x})
    BY <2>1
  <2>3. QED
    BY <1>1, <1>3, <1>5, <2>2
<1>6. QED
  BY <1>4, <1>5

(* The element the recursion takes.                                        *)
LEMMA SomeIn == ASSUME NEW s, s # {} PROVE Some(s) \in s
BY DEF Some

(* Two solutions of the recursion agree where both are defined.            *)
LEMMA SumUnique ==
  ASSUME NEW f, NEW S, IsFiniteSet(S), NEW T, IsFiniteSet(T), NEW g, NEW h,
         IsSum(g, f, S), IsSum(h, f, T), NEW s, s \subseteq S, s \subseteq T
  PROVE  g[s] = h[s]
<1> DEFINE P == {u \in SUBSET s : g[u] # h[u]}
<1> SUFFICES ASSUME P # {} PROVE FALSE
  OBVIOUS
<1>1. IsFiniteSet(s)
  BY FS_Subset
<1>2. PICK u \in P : \A v \in P : v \subseteq u => v = u
  <2>1. P \subseteq SUBSET s
    OBVIOUS
  <2> HIDE DEF P
  <2>2. QED
    BY <1>1, <2>1, SmallestSubset
<1>3. /\ g[u] = IF u = {} THEN 0 ELSE f[Some(u)] + g[u \ {Some(u)}]
      /\ h[u] = IF u = {} THEN 0 ELSE f[Some(u)] + h[u \ {Some(u)}]
  BY DEF IsSum
<1>4. u # {}
  BY <1>3
<1>5. g[u \ {Some(u)}] = h[u \ {Some(u)}]
  BY <1>2, <1>4, SomeIn
<1>6. QED
  BY <1>3, <1>4, <1>5

(* The recursion has a solution for every finite set.                      *)
LEMMA SumExists ==
  ASSUME NEW f, NEW S, IsFiniteSet(S)
  PROVE  \E g : IsSum(g, f, S)
<1> DEFINE P == {s \in SUBSET S : ~ \E g : IsSum(g, f, s)}
<1> SUFFICES ASSUME P # {} PROVE FALSE
  OBVIOUS
<1>1. PICK s \in P : \A v \in P : v \subseteq s => v = s
  <2>1. P \subseteq SUBSET S
    OBVIOUS
  <2> HIDE DEF P
  <2>2. QED
    BY <2>1, SmallestSubset
<1> DEFINE G(v) == CHOOSE g : IsSum(g, f, v)
           val(v) == IF v = {} THEN 0 ELSE f[Some(v)] + G(v \ {Some(v)})[v \ {Some(v)}]
           gs == [v \in SUBSET s |-> val(v)]
<1>2. ASSUME NEW v \in SUBSET s, v # s PROVE IsSum(G(v), f, v) /\ IsFiniteSet(v)
  <2>1. v \notin P
    BY <1>1, <1>2
  <2>2. \E g : IsSum(g, f, v)
    BY <2>1
  <2>3. IsFiniteSet(v)
    BY FS_Subset
  <2>4. QED
    BY <2>2, <2>3
<1>3. ASSUME NEW v \in SUBSET s, v # s PROVE G(v)[v] = val(v)
  <2> HIDE DEF G
  <2>1. IsSum(G(v), f, v) /\ IsFiniteSet(v)
    BY <1>2, <1>3
  <2>2. G(v)[v] = IF v = {} THEN 0 ELSE f[Some(v)] + G(v)[v \ {Some(v)}]
    BY <2>1 DEF IsSum
  <2>3. ASSUME v # {} PROVE G(v)[v \ {Some(v)}] = G(v \ {Some(v)})[v \ {Some(v)}]
    <3> DEFINE w == v \ {Some(v)}
    <3>1. w \in SUBSET s /\ w # s /\ w \subseteq v
      BY <1>3, <2>3, SomeIn
    <3> HIDE DEF w
    <3>2. IsSum(G(w), f, w) /\ IsFiniteSet(w)
      BY <1>2, <3>1
    <3>3. G(v)[w] = G(w)[w]
      BY <2>1, <3>1, <3>2, SumUnique
    <3>4. QED
      BY <3>3 DEF w
  <2>4. QED
    BY <2>2, <2>3
<1>4. \A v \in SUBSET s : v # {} => val(v) = f[Some(v)] + gs[v \ {Some(v)}]
  <2> SUFFICES ASSUME NEW v \in SUBSET s, v # {} PROVE val(v) = f[Some(v)] + gs[v \ {Some(v)}]
    OBVIOUS
  <2> DEFINE w == v \ {Some(v)}
  <2>1. w \in SUBSET s /\ w # s
    BY SomeIn
  <2>2. G(w)[w] = val(w)
    BY <1>3, <2>1
  <2>3. gs[w] = val(w)
    BY <2>1
  <2>4. val(v) = f[Some(v)] + G(w)[w]
    OBVIOUS
  <2>5. QED
    BY <2>2, <2>3, <2>4
<1>5. IsSum(gs, f, s)
  <2>1. \A v \in SUBSET s : v = {} => val(v) = 0
    OBVIOUS
  <2>2. gs = [v \in SUBSET s |-> val(v)]
    OBVIOUS
  <2> HIDE DEF val, gs
  <2>3. \A v \in SUBSET s : val(v) = IF v = {} THEN 0 ELSE f[Some(v)] + gs[v \ {Some(v)}]
    BY <1>4, <2>1
  <2>4. gs = [v \in SUBSET s |-> IF v = {} THEN 0 ELSE f[Some(v)] + gs[v \ {Some(v)}]]
    BY <2>2, <2>3
  <2>5. QED
    BY <2>4 DEF IsSum
<1>6. QED
  BY <1>1, <1>5

(* The library's recursion, unfolded once.                                 *)
LEMMA SumUnfolds ==
  ASSUME NEW f, NEW S, IsFiniteSet(S)
  PROVE  SumOver(f, S) = IF S = {} THEN 0 ELSE f[Some(S)] + SumOver(f, S \ {Some(S)})
<1> DEFINE G(v) == CHOOSE g : IsSum(g, f, v)
           w == S \ {Some(S)}
<1>1. \A T : SumOver(f, T) = G(T)[T]
  BY DEF SumOver, MapThenSumSet, MapThenFoldSet, IsSum, Some
<1>2. IsFiniteSet(w) /\ w \subseteq S
  BY FS_Subset
<1>3. IsSum(G(S), f, S) /\ IsSum(G(w), f, w)
  BY <1>2, SumExists
<1> HIDE DEF G, w
<1>4. G(S)[w] = G(w)[w]
  <2>1. PICK g : g = G(S)
    OBVIOUS
  <2>2. PICK h : h = G(w)
    OBVIOUS
  <2>3. PICK v : v = w
    OBVIOUS
  <2>4. /\ IsSum(g, f, S) /\ IsSum(h, f, v) /\ IsFiniteSet(v)
        /\ v \subseteq S /\ v \subseteq v
    BY <1>2, <1>3, <2>1, <2>2, <2>3
  <2>5. g[v] = h[v]
    BY <2>4, SumUnique
  <2>6. QED
    BY <2>1, <2>2, <2>3, <2>5
<1>5. G(S)[S] = IF S = {} THEN 0 ELSE f[Some(S)] + G(S)[w]
  BY <1>3 DEF IsSum, w
<1>6. QED
  BY <1>1, <1>4, <1>5 DEF w

(* A sum of integers is an integer.                                        *)
LEMMA SumType ==
  ASSUME NEW f, NEW S, IsFiniteSet(S), \A x \in S : f[x] \in Int
  PROVE  SumOver(f, S) \in Int
<1> DEFINE P == {s \in SUBSET S : SumOver(f, s) \notin Int}
<1> SUFFICES ASSUME P # {} PROVE FALSE
  OBVIOUS
<1>1. PICK s \in P : \A v \in P : v \subseteq s => v = s
  <2>1. P \subseteq SUBSET S
    OBVIOUS
  <2> HIDE DEF P
  <2>2. QED
    BY <2>1, SmallestSubset
<1>2. IsFiniteSet(s)
  BY FS_Subset
<1>3. SumOver(f, s) = IF s = {} THEN 0 ELSE f[Some(s)] + SumOver(f, s \ {Some(s)})
  BY <1>2, SumUnfolds
<1>4. s # {}
  BY <1>3
<1>5. SumOver(f, s \ {Some(s)}) \in Int
  BY <1>1, <1>4, SomeIn
<1>6. f[Some(s)] \in Int
  BY <1>4, SomeIn
<1>7. QED
  BY <1>3, <1>4, <1>5, <1>6

(* The sum over no element.                                                *)
LEMMA SumEmpty == ASSUME NEW f PROVE SumOver(f, {}) = 0
BY SumUnfolds, FS_EmptySet

(* Any element may be taken out of the sum.                                *)
LEMMA SumRemove ==
  ASSUME NEW f, NEW S, IsFiniteSet(S), \A x \in S : f[x] \in Int, NEW y \in S
  PROVE  SumOver(f, S) = f[y] + SumOver(f, S \ {y})
<1> DEFINE P == {s \in SUBSET S : \E z \in s : SumOver(f, s) # f[z] + SumOver(f, s \ {z})}
<1> SUFFICES ASSUME P # {} PROVE FALSE
  OBVIOUS
<1>1. PICK s \in P : \A v \in P : v \subseteq s => v = s
  <2>1. P \subseteq SUBSET S
    OBVIOUS
  <2> HIDE DEF P
  <2>2. QED
    BY <2>1, SmallestSubset
<1>2. PICK z \in s : SumOver(f, s) # f[z] + SumOver(f, s \ {z})
  BY <1>1
<1> DEFINE x == Some(s)
           w == s \ {x}
           u == s \ {z}
<1>3. x \in s
  BY SomeIn
<1>4. /\ IsFiniteSet(s) /\ IsFiniteSet(w) /\ IsFiniteSet(u) /\ IsFiniteSet(w \ {z})
      /\ s \subseteq S
  BY FS_Subset
<1> HIDE DEF x
<1>5. SumOver(f, s) = f[x] + SumOver(f, w)
  BY <1>4, SumUnfolds DEF x
<1>6. x # z
  BY <1>2, <1>5
<1>7. w \notin P /\ u \notin P
  BY <1>1, <1>3
<1>8. SumOver(f, w) = f[z] + SumOver(f, w \ {z})
  BY <1>6, <1>7
<1>9. SumOver(f, u) = f[x] + SumOver(f, u \ {x})
  BY <1>3, <1>6, <1>7
<1>10. u \ {x} = w \ {z}
  OBVIOUS
<1>11. /\ f[x] \in Int /\ f[z] \in Int /\ SumOver(f, w \ {z}) \in Int
  <2>1. f[x] \in Int /\ f[z] \in Int /\ \A q \in w \ {z} : f[q] \in Int
    BY <1>3, <1>4
  <2>2. QED
    BY <1>4, <2>1, SumType
<1>12. SumOver(f, s) # f[z] + SumOver(f, u)
  BY <1>2
<1>13. SumOver(f, u) = f[x] + SumOver(f, w \ {z})
  BY <1>9, <1>10
<1> HIDE DEF u, w
<1>14. QED
  BY <1>5, <1>8, <1>11, <1>12, <1>13

(* The sum over one element more.                                          *)
LEMMA SumAdd ==
  ASSUME NEW f, NEW S, IsFiniteSet(S), NEW y, y \notin S, \A x \in S \cup {y} : f[x] \in Int
  PROVE  SumOver(f, S \cup {y}) = SumOver(f, S) + f[y]
<1>1. PICK T : T = S \cup {y}
  OBVIOUS
<1>2. IsFiniteSet(T)
  BY <1>1, FS_AddElement
<1>3. y \in T /\ T \ {y} = S /\ \A x \in T : f[x] \in Int
  BY <1>1
<1>4. SumOver(f, T) = f[y] + SumOver(f, S)
  BY <1>2, <1>3, SumRemove
<1>5. SumOver(f, S) \in Int
  BY SumType
<1>6. QED
  BY <1>1, <1>3, <1>4, <1>5

(* Functions that agree on a set have the same sum over it.                *)
LEMMA SumSame ==
  ASSUME NEW f, NEW g, NEW S, IsFiniteSet(S), \A x \in S : f[x] = g[x]
  PROVE  SumOver(f, S) = SumOver(g, S)
<1> DEFINE P == {s \in SUBSET S : SumOver(f, s) # SumOver(g, s)}
<1> SUFFICES ASSUME P # {} PROVE FALSE
  OBVIOUS
<1>1. PICK s \in P : \A v \in P : v \subseteq s => v = s
  <2>1. P \subseteq SUBSET S
    OBVIOUS
  <2> HIDE DEF P
  <2>2. QED
    BY <2>1, SmallestSubset
<1>2. IsFiniteSet(s)
  BY FS_Subset
<1>3. /\ SumOver(f, s) = IF s = {} THEN 0 ELSE f[Some(s)] + SumOver(f, s \ {Some(s)})
      /\ SumOver(g, s) = IF s = {} THEN 0 ELSE g[Some(s)] + SumOver(g, s \ {Some(s)})
  BY <1>2, SumUnfolds
<1>4. s # {}
  BY <1>3
<1>5. Some(s) \in s
  BY <1>4, SomeIn
<1>6. SumOver(f, s \ {Some(s)}) = SumOver(g, s \ {Some(s)})
  BY <1>1, <1>5
<1>7. f[Some(s)] = g[Some(s)]
  BY <1>5
<1>8. QED
  BY <1>3, <1>4, <1>6, <1>7

(* The sum of a function that changes at one element.                      *)
LEMMA SumChange ==
  ASSUME NEW f, NEW g, NEW S, IsFiniteSet(S), \A x \in S : f[x] \in Int /\ g[x] \in Int,
         NEW y \in S, \A x \in S \ {y} : g[x] = f[x]
  PROVE  /\ SumOver(f, S) \in Int /\ SumOver(g, S) \in Int
         /\ SumOver(g, S) = SumOver(f, S) + g[y] - f[y]
<1>1. PICK T : T = S \ {y}
  OBVIOUS
<1>2. IsFiniteSet(T)
  BY <1>1, FS_Subset
<1>3. SumOver(f, T) = SumOver(g, T) /\ SumOver(f, T) \in Int
  BY <1>1, <1>2, SumSame, SumType
<1>4. /\ SumOver(f, S) = f[y] + SumOver(f, S \ {y})
      /\ SumOver(g, S) = g[y] + SumOver(g, S \ {y})
  BY SumRemove
<1>5. QED
  BY <1>1, <1>3, <1>4

(* A sum of natural numbers is one, and no smaller than any of them.       *)
LEMMA SumNat ==
  ASSUME NEW f, NEW S, IsFiniteSet(S), \A x \in S : f[x] \in Nat
  PROVE  SumOver(f, S) \in Nat /\ \A y \in S : f[y] <= SumOver(f, S)
<1> DEFINE P == {s \in SUBSET S : SumOver(f, s) \notin Nat}
<1>1. P = {}
  <2> SUFFICES ASSUME P # {} PROVE FALSE
    OBVIOUS
  <2>1. PICK s \in P : \A v \in P : v \subseteq s => v = s
    <3>1. P \subseteq SUBSET S
      OBVIOUS
    <3> HIDE DEF P
    <3>2. QED
      BY <3>1, SmallestSubset
  <2>2. IsFiniteSet(s)
    BY FS_Subset
  <2>3. SumOver(f, s) = IF s = {} THEN 0 ELSE f[Some(s)] + SumOver(f, s \ {Some(s)})
    BY <2>2, SumUnfolds
  <2>4. s # {}
    BY <2>3
  <2>5. Some(s) \in s
    BY <2>4, SomeIn
  <2>6. SumOver(f, s \ {Some(s)}) \in Nat
    BY <2>1, <2>5
  <2>7. f[Some(s)] \in Nat
    BY <2>5
  <2>8. QED
    BY <2>3, <2>4, <2>6, <2>7
<1>2. \A s \in SUBSET S : SumOver(f, s) \in Nat
  BY <1>1
<1>3. ASSUME NEW y \in S PROVE f[y] <= SumOver(f, S)
  <2>1. SumOver(f, S) = f[y] + SumOver(f, S \ {y})
    BY SumRemove
  <2>2. SumOver(f, S \ {y}) \in Nat
    BY <1>2
  <2>3. QED
    BY <2>1, <2>2
<1>4. QED
  BY <1>2, <1>3

(* The sum of zeros.                                                       *)
LEMMA SumZero ==
  ASSUME NEW f, NEW S, IsFiniteSet(S), \A x \in S : f[x] = 0
  PROVE  SumOver(f, S) = 0
<1> DEFINE P == {s \in SUBSET S : SumOver(f, s) # 0}
<1> SUFFICES ASSUME P # {} PROVE FALSE
  OBVIOUS
<1>1. PICK s \in P : \A v \in P : v \subseteq s => v = s
  <2>1. P \subseteq SUBSET S
    OBVIOUS
  <2> HIDE DEF P
  <2>2. QED
    BY <2>1, SmallestSubset
<1>2. IsFiniteSet(s)
  BY FS_Subset
<1>3. SumOver(f, s) = IF s = {} THEN 0 ELSE f[Some(s)] + SumOver(f, s \ {Some(s)})
  BY <1>2, SumUnfolds
<1>4. s # {} /\ Some(s) \in s
  BY <1>3, SomeIn
<1>5. SumOver(f, s \ {Some(s)}) = 0 /\ f[Some(s)] = 0
  BY <1>1, <1>4
<1>6. QED
  BY <1>3, <1>4, <1>5

(* The sum of a field of records is the sum of a function.                 *)
LEMMA SumOfSizes ==
  ASSUME NEW r, NEW f, NEW S, IsFiniteSet(S), \A x \in S : f[x] = r[x].size
  PROVE  MapThenSumSet(LAMBDA x : r[x].size, S) = SumOver(f, S)
<1> DEFINE Is(g) == g = [s \in SUBSET S |-> IF s = {} THEN 0 ELSE r[Some(s)].size + g[s \ {Some(s)}]]
           G == CHOOSE g : Is(g)
           F == CHOOSE g : IsSum(g, f, S)
<1>1. MapThenSumSet(LAMBDA x : r[x].size, S) = G[S]
  BY DEF MapThenSumSet, MapThenFoldSet, Some
<1>2. SumOver(f, S) = F[S]
  BY DEF SumOver, MapThenSumSet, MapThenFoldSet, IsSum, Some
<1>3. \A s \in SUBSET S : s # {} => f[Some(s)] = r[Some(s)].size
  BY SomeIn
<1>4. ASSUME NEW g PROVE Is(g) <=> IsSum(g, f, S)
  <2>1. [s \in SUBSET S |-> IF s = {} THEN 0 ELSE r[Some(s)].size + g[s \ {Some(s)}]]
        = [s \in SUBSET S |-> IF s = {} THEN 0 ELSE f[Some(s)] + g[s \ {Some(s)}]]
    BY <1>3
  <2>2. QED
    BY <2>1 DEF IsSum
<1>5. IsSum(F, f, S)
  BY SumExists
<1>6. Is(G)
  BY <1>4, <1>5
<1>7. IsSum(G, f, S)
  BY <1>4, <1>6
<1> HIDE DEF G, F
<1>8. G[S] = F[S]
  BY <1>5, <1>7, SumUnique
<1>9. QED
  BY <1>1, <1>2, <1>8

(* The sum over two sets without a common element.                         *)
LEMMA SumUnion ==
  ASSUME NEW f, NEW S, NEW T, IsFiniteSet(S), IsFiniteSet(T), S \cap T = {},
         \A x \in S \cup T : f[x] \in Int
  PROVE  SumOver(f, S \cup T) = SumOver(f, S) + SumOver(f, T)
<1> DEFINE P == {t \in SUBSET T : SumOver(f, S \cup t) # SumOver(f, S) + SumOver(f, t)}
<1> SUFFICES ASSUME P # {} PROVE FALSE
  OBVIOUS
<1>1. PICK t \in P : \A v \in P : v \subseteq t => v = t
  <2>1. P \subseteq SUBSET T
    OBVIOUS
  <2> HIDE DEF P
  <2>2. QED
    BY <2>1, SmallestSubset
<1>2. t \subseteq T /\ IsFiniteSet(t) /\ SumOver(f, S) \in Int
  BY FS_Subset, SumType
<1>3. t # {}
  <2> SUFFICES ASSUME t = {} PROVE FALSE
    OBVIOUS
  <2>1. S \cup t = S /\ SumOver(f, t) = 0
    BY SumEmpty
  <2>2. SumOver(f, S \cup t) = SumOver(f, S) + SumOver(f, t)
    BY <1>2, <2>1
  <2>3. QED
    BY <2>2
<1>4. PICK y \in t : y \notin S /\ f[y] \in Int
  BY <1>2, <1>3
<1>5. PICK v : v = t \ {y}
  OBVIOUS
<1>6. v \notin P /\ v \subseteq T /\ IsFiniteSet(v) /\ IsFiniteSet(S \cup v)
  BY <1>1, <1>2, <1>4, <1>5, FS_Subset, FS_Union
<1>7. SumOver(f, S \cup v) = SumOver(f, S) + SumOver(f, v)
  BY <1>6
<1>8. t = v \cup {y} /\ S \cup t = (S \cup v) \cup {y} /\ y \notin v /\ y \notin S \cup v
  BY <1>4, <1>5
<1>9. SumOver(f, t) = SumOver(f, v) + f[y]
  <2>1. \A x \in v \cup {y} : f[x] \in Int
    BY <1>4, <1>6
  <2>2. QED
    BY <1>6, <1>8, <2>1, SumAdd
<1>10. SumOver(f, S \cup t) = SumOver(f, S \cup v) + f[y]
  <2>1. \A x \in (S \cup v) \cup {y} : f[x] \in Int
    BY <1>4, <1>6
  <2>2. QED
    BY <1>6, <1>8, <2>1, SumAdd
<1>11. SumOver(f, v) \in Int
  BY <1>6, SumType
<1>12. SumOver(f, S \cup t) = SumOver(f, S) + SumOver(f, t)
  BY <1>2, <1>4, <1>7, <1>9, <1>10, <1>11
<1>13. QED
  BY <1>12

(* A larger set has no smaller sum.                                        *)
LEMMA SumWithin ==
  ASSUME NEW f, NEW S, NEW T, IsFiniteSet(T), S \subseteq T, \A x \in T : f[x] \in Nat
  PROVE  /\ SumOver(f, S) \in Nat /\ SumOver(f, T) \in Nat /\ SumOver(f, S) <= SumOver(f, T)
         /\ IsFiniteSet(S)
<1>1. PICK R : R = T \ S
  OBVIOUS
<1>2. IsFiniteSet(S) /\ IsFiniteSet(R) /\ S \cap R = {} /\ S \cup R = T
  BY <1>1, FS_Subset
<1>3. SumOver(f, S) \in Nat /\ SumOver(f, R) \in Nat /\ SumOver(f, T) \in Nat
  BY <1>1, <1>2, SumNat
<1>4. SumOver(f, T) = SumOver(f, S) + SumOver(f, R)
  <2>1. \A x \in S \cup R : f[x] \in Int
    BY <1>2
  <2>2. SumOver(f, S \cup R) = SumOver(f, S) + SumOver(f, R)
    BY <1>2, <2>1, SumUnion
  <2>3. QED
    BY <1>2, <2>2
<1>5. QED
  BY <1>2, <1>3, <1>4
=============================================================================
