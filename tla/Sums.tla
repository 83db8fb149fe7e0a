-------------------------------- MODULE Sums --------------------------------
(***************************************************************************)
(* Sums over finite sets: what SumFunctionOnSet computes, for the proofs    *)
(* about stock, carts, ratings and reports.  The recursion it is defined by *)
(* is shown to have a solution, by levels of subsets of at most n elements; *)
(* every induction here is on the least counterexample.                     *)
(***************************************************************************)
EXTENDS Integers, Functions, FiniteSetTheorems, WellFoundedInduction, TLAPS

\* The element the fold takes next, and the recursion it follows on D.
Pick(s) == CHOOSE x \in s : TRUE
IsSum(g, f, D) == g = [s \in D |-> IF s = {} THEN 0 ELSE f[Pick(s)] + g[s \ {Pick(s)}]]

\* The subsets of S that have at most n elements.
Level(S, n) == {s \in SUBSET S : Cardinality(s) <= n}

LEMMA PickIn == ASSUME NEW s, s # {} PROVE Pick(s) \in s
BY DEF Pick

\* A set of natural numbers that is not empty has a least element.
LEMMA LeastOf ==
  ASSUME NEW T, T \subseteq Nat, T # {}
  PROVE  \E m \in T : \A n \in T : m <= n
<1>1. PICK m \in T : \A n \in T : <<n, m>> \notin OpToRel(<, Nat)
  BY WFMin, NatLessThanWellFounded
<1>2. \A n \in T : ~(n < m)
  BY <1>1 DEF OpToRel
<1>. QED
  BY <1>2

\* Taking an element away.
LEMMA OneLess ==
  ASSUME NEW s, IsFiniteSet(s), NEW x \in s
  PROVE  /\ IsFiniteSet(s \ {x}) /\ Cardinality(s \ {x}) = Cardinality(s) - 1
         /\ Cardinality(s) \in Nat /\ Cardinality(s \ {x}) \in Nat
BY FS_RemoveElement, FS_CardinalityType

\* The recursion has a solution on every level.
LEMMA LevelsHaveSums ==
  ASSUME NEW f, NEW S, IsFiniteSet(S), NEW n \in Nat
  PROVE  \E g : IsSum(g, f, Level(S, n))
<1>. DEFINE Has(m) == \E g : IsSum(g, f, Level(S, m))
            Bad == {m \in Nat : ~Has(m)}
<1>. SUFFICES Bad = {}
  OBVIOUS
<1>. SUFFICES ASSUME Bad # {} PROVE FALSE
  OBVIOUS
<1>1. PICK m \in Bad : \A k \in Bad : m <= k
  BY LeastOf
<1>2. \A s \in SUBSET S : IsFiniteSet(s) /\ Cardinality(s) \in Nat
  BY FS_Subset, FS_CardinalityType
<1>3. CASE m = 0
  <2>. DEFINE g == [s \in Level(S, 0) |-> 0]
  <2>1. \A s \in Level(S, 0) : s = {}
    BY <1>2, FS_EmptySet DEF Level
  <2>2. g = [s \in Level(S, 0) |-> IF s = {} THEN 0 ELSE f[Pick(s)] + g[s \ {Pick(s)}]]
    BY <2>1
  <2>3. IsSum(g, f, Level(S, 0))
    BY <2>2 DEF IsSum
  <2>. QED
    BY <1>3, <2>3
<1>4. CASE m # 0
  <2>1. m - 1 \in Nat /\ m - 1 \notin Bad
    BY <1>1, <1>4
  <2>2. PICK g : IsSum(g, f, Level(S, m - 1))
    BY <2>1
  <2>. DEFINE h == [s \in Level(S, m) |->
                      IF s \in Level(S, m - 1) THEN g[s]
                      ELSE f[Pick(s)] + g[s \ {Pick(s)}]]
  <2>3. \A s \in Level(S, m) : s # {} => s \ {Pick(s)} \in Level(S, m - 1)
                                     /\ s \ {Pick(s)} \in Level(S, m)
    BY <1>2, <2>1, PickIn, OneLess DEF Level
  <2>4. {} \in Level(S, m - 1)
    BY <2>1, FS_EmptySet DEF Level
  <2>5. \A s \in Level(S, m - 1) : g[s] = IF s = {} THEN 0 ELSE f[Pick(s)] + g[s \ {Pick(s)}]
    BY <2>2 DEF IsSum
  <2>6. \A s \in Level(S, m) : h[s] = IF s = {} THEN 0 ELSE f[Pick(s)] + h[s \ {Pick(s)}]
    BY <2>3, <2>4, <2>5
  <2>7. IsSum(h, f, Level(S, m))
    BY <2>6 DEF IsSum
  <2>. QED
    BY <2>7
<1>. QED
  BY <1>3, <1>4

\* The sum over a finite set follows the recursion.
SumOf(f, S) == CHOOSE g : IsSum(g, f, SUBSET S)

LEMMA SumOfIsSum ==
  ASSUME NEW f, NEW S, IsFiniteSet(S)
  PROVE  IsSum(SumOf(f, S), f, SUBSET S)
<1>1. Cardinality(S) \in Nat /\ \A s \in SUBSET S : Cardinality(s) <= Cardinality(S)
  BY FS_Subset, FS_CardinalityType
<1>2. Level(S, Cardinality(S)) = SUBSET S
  BY <1>1 DEF Level
<1>3. \E g : IsSum(g, f, SUBSET S)
  BY <1>1, <1>2, LevelsHaveSums
<1>. QED
  BY <1>3, Zenon DEF SumOf

LEMMA SumIsSumOf ==
  ASSUME NEW f, NEW S
  PROVE  SumFunctionOnSet(f, S) = SumOf(f, S)[S]
BY Zenon DEF SumFunctionOnSet, FoldFunctionOnSet, MapThenFoldSet, Pick, IsSum, SumOf

\* There is one solution: on a subset it agrees with that of any larger set.
LEMMA SumOfAgrees ==
  ASSUME NEW f, NEW S, IsFiniteSet(S), NEW T \in SUBSET S
  PROVE  SumOf(f, S)[T] = SumOf(f, T)[T]
<1>. DEFINE G == SumOf(f, S)
            H == SumOf(f, T)
            Bad == {m \in Nat : \E s \in SUBSET T : Cardinality(s) = m /\ G[s] # H[s]}
<1>1. \A s \in SUBSET T : IsFiniteSet(s) /\ Cardinality(s) \in Nat
  BY FS_Subset, FS_CardinalityType
<1>2. \A s \in SUBSET T :
        /\ G[s] = IF s = {} THEN 0 ELSE f[Pick(s)] + G[s \ {Pick(s)}]
        /\ H[s] = IF s = {} THEN 0 ELSE f[Pick(s)] + H[s \ {Pick(s)}]
  <2>1. IsFiniteSet(T)
    BY FS_Subset
  <2>2. IsSum(G, f, SUBSET S) /\ IsSum(H, f, SUBSET T)
    BY <2>1, SumOfIsSum
  <2>. HIDE DEF G, H
  <2>3. \A s \in SUBSET S : G[s] = IF s = {} THEN 0 ELSE f[Pick(s)] + G[s \ {Pick(s)}]
    BY <2>2 DEF IsSum
  <2>4. \A s \in SUBSET T : H[s] = IF s = {} THEN 0 ELSE f[Pick(s)] + H[s \ {Pick(s)}]
    BY <2>2 DEF IsSum
  <2>. QED
    BY <2>3, <2>4
<1>. HIDE DEF G, H
<1>3. Bad = {}
  <2>. SUFFICES ASSUME Bad # {} PROVE FALSE
    OBVIOUS
  <2>1. PICK m \in Bad : \A k \in Bad : m <= k
    BY LeastOf
  <2>2. PICK s \in SUBSET T : Cardinality(s) = m /\ G[s] # H[s]
    BY <2>1
  <2>3. s # {}
    BY <1>2, <2>2
  <2>4. s \ {Pick(s)} \in SUBSET T /\ Cardinality(s \ {Pick(s)}) \in Nat
        /\ Cardinality(s \ {Pick(s)}) < m
    BY <1>1, <2>2, <2>3, PickIn, OneLess
  <2>5. G[s \ {Pick(s)}] = H[s \ {Pick(s)}]
    BY <2>1, <2>4
  <2>. QED
    BY <1>2, <2>2, <2>3, <2>5
<1>4. G[T] = H[T]
  BY <1>1, <1>3
<1>. QED
  BY <1>4 DEF G, H

\* The sum over nothing is zero; that over something is what the fold takes first
\* plus the rest.
LEMMA SumEmpty == ASSUME NEW f PROVE SumFunctionOnSet(f, {}) = 0
<1>1. IsSum(SumOf(f, {}), f, SUBSET {})
  BY SumOfIsSum, FS_EmptySet
<1>2. SumOf(f, {})[{}] = 0
  BY <1>1 DEF IsSum
<1>. QED
  BY <1>2, SumIsSumOf

LEMMA SumTakes ==
  ASSUME NEW f, NEW S, IsFiniteSet(S), S # {}
  PROVE  SumFunctionOnSet(f, S) = f[Pick(S)] + SumFunctionOnSet(f, S \ {Pick(S)})
<1>1. IsSum(SumOf(f, S), f, SUBSET S)
  BY SumOfIsSum
<1>2. SumOf(f, S)[S] = f[Pick(S)] + SumOf(f, S)[S \ {Pick(S)}]
  BY <1>1 DEF IsSum
<1>3. SumOf(f, S)[S \ {Pick(S)}] = SumOf(f, S \ {Pick(S)})[S \ {Pick(S)}]
  BY SumOfAgrees
<1>. QED
  BY <1>2, <1>3, SumIsSumOf

\* Functions that agree on a set have the same sum over it.
LEMMA SumSame ==
  ASSUME NEW f, NEW g, NEW S, IsFiniteSet(S), \A x \in S : f[x] = g[x]
  PROVE  SumFunctionOnSet(f, S) = SumFunctionOnSet(g, S)
<1>. DEFINE Bad == {m \in Nat : \E s \in SUBSET S : /\ Cardinality(s) = m
                                                  /\ SumFunctionOnSet(f, s) # SumFunctionOnSet(g, s)}
<1>1. \A s \in SUBSET S : IsFiniteSet(s) /\ Cardinality(s) \in Nat
  BY FS_Subset, FS_CardinalityType
<1>2. Bad = {}
  <2>. SUFFICES ASSUME Bad # {} PROVE FALSE
    OBVIOUS
  <2>1. PICK m \in Bad : \A k \in Bad : m <= k
    BY LeastOf
  <2>2. PICK s \in SUBSET S : Cardinality(s) = m /\ SumFunctionOnSet(f, s) # SumFunctionOnSet(g, s)
    BY <2>1
  <2>3. s # {}
    BY <2>2, SumEmpty
  <2>4. s \ {Pick(s)} \in SUBSET S /\ Cardinality(s \ {Pick(s)}) \in Nat
        /\ Cardinality(s \ {Pick(s)}) < m
    BY <1>1, <2>2, <2>3, PickIn, OneLess
  <2>5. SumFunctionOnSet(f, s \ {Pick(s)}) = SumFunctionOnSet(g, s \ {Pick(s)})
    BY <2>1, <2>4
  <2>6. f[Pick(s)] = g[Pick(s)]
    BY <2>3, PickIn
  <2>7. /\ SumFunctionOnSet(f, s) = f[Pick(s)] + SumFunctionOnSet(f, s \ {Pick(s)})
        /\ SumFunctionOnSet(g, s) = g[Pick(s)] + SumFunctionOnSet(g, s \ {Pick(s)})
    BY <1>1, <2>3, SumTakes
  <2>. QED
    BY <2>2, <2>5, <2>6, <2>7
<1>. QED
  BY <1>1, <1>2

\* Sums of integers are integers, those of natural numbers natural numbers.
LEMMA SumInt ==
  ASSUME NEW f, NEW S, IsFiniteSet(S), \A x \in S : f[x] \in Int
  PROVE  SumFunctionOnSet(f, S) \in Int
<1>. DEFINE Bad == {m \in Nat : \E s \in SUBSET S : /\ Cardinality(s) = m
                                                  /\ SumFunctionOnSet(f, s) \notin Int}
<1>1. \A s \in SUBSET S : IsFiniteSet(s) /\ Cardinality(s) \in Nat
  BY FS_Subset, FS_CardinalityType
<1>2. Bad = {}
  <2>. SUFFICES ASSUME Bad # {} PROVE FALSE
    OBVIOUS
  <2>1. PICK m \in Bad : \A k \in Bad : m <= k
    BY LeastOf
  <2>2. PICK s \in SUBSET S : Cardinality(s) = m /\ SumFunctionOnSet(f, s) \notin Int
    BY <2>1
  <2>3. s # {}
    BY <2>2, SumEmpty
  <2>4. s \ {Pick(s)} \in SUBSET S /\ Cardinality(s \ {Pick(s)}) \in Nat
        /\ Cardinality(s \ {Pick(s)}) < m
    BY <1>1, <2>2, <2>3, PickIn, OneLess
  <2>5. SumFunctionOnSet(f, s \ {Pick(s)}) \in Int /\ f[Pick(s)] \in Int
    BY <2>1, <2>3, <2>4, PickIn
  <2>6. SumFunctionOnSet(f, s) = f[Pick(s)] + SumFunctionOnSet(f, s \ {Pick(s)})
    BY <1>1, <2>3, SumTakes
  <2>. QED
    BY <2>2, <2>5, <2>6
<1>. QED
  BY <1>1, <1>2

LEMMA SumNat ==
  ASSUME NEW f, NEW S, IsFiniteSet(S), \A x \in S : f[x] \in Nat
  PROVE  SumFunctionOnSet(f, S) \in Nat
<1>. DEFINE Bad == {m \in Nat : \E s \in SUBSET S : /\ Cardinality(s) = m
                                                  /\ SumFunctionOnSet(f, s) \notin Nat}
<1>1. \A s \in SUBSET S : IsFiniteSet(s) /\ Cardinality(s) \in Nat
  BY FS_Subset, FS_CardinalityType
<1>2. Bad = {}
  <2>. SUFFICES ASSUME Bad # {} PROVE FALSE
    OBVIOUS
  <2>1. PICK m \in Bad : \A k \in Bad : m <= k
    BY LeastOf
  <2>2. PICK s \in SUBSET S : Cardinality(s) = m /\ SumFunctionOnSet(f, s) \notin Nat
    BY <2>1
  <2>3. s # {}
    BY <2>2, SumEmpty
  <2>4. s \ {Pick(s)} \in SUBSET S /\ Cardinality(s \ {Pick(s)}) \in Nat
        /\ Cardinality(s \ {Pick(s)}) < m
    BY <1>1, <2>2, <2>3, PickIn, OneLess
  <2>5. SumFunctionOnSet(f, s \ {Pick(s)}) \in Nat /\ f[Pick(s)] \in Nat
    BY <2>1, <2>3, <2>4, PickIn
  <2>6. SumFunctionOnSet(f, s) = f[Pick(s)] + SumFunctionOnSet(f, s \ {Pick(s)})
    BY <1>1, <2>3, SumTakes
  <2>. QED
    BY <2>2, <2>5, <2>6
<1>. QED
  BY <1>1, <1>2

\* Whichever element the fold takes first, any element may be taken away first.
LEMMA SumRemove ==
  ASSUME NEW f, NEW S, IsFiniteSet(S), \A x \in S : f[x] \in Int, NEW x \in S
  PROVE  SumFunctionOnSet(f, S) = f[x] + SumFunctionOnSet(f, S \ {x})
<1>. DEFINE Bad == {m \in Nat : \E s \in SUBSET S : \E y \in s :
                       /\ Cardinality(s) = m
                       /\ SumFunctionOnSet(f, s) # f[y] + SumFunctionOnSet(f, s \ {y})}
<1>1. \A s \in SUBSET S : /\ IsFiniteSet(s) /\ Cardinality(s) \in Nat
                          /\ SumFunctionOnSet(f, s) \in Int
  BY FS_Subset, FS_CardinalityType, SumInt
<1>2. Bad = {}
  <2>. SUFFICES ASSUME Bad # {} PROVE FALSE
    OBVIOUS
  <2>1. PICK m \in Bad : \A k \in Bad : m <= k
    BY LeastOf
  <2>2. PICK s \in SUBSET S : \E y \in s :
          /\ Cardinality(s) = m /\ SumFunctionOnSet(f, s) # f[y] + SumFunctionOnSet(f, s \ {y})
    BY <2>1
  <2>3. PICK y \in s : /\ Cardinality(s) = m
                       /\ SumFunctionOnSet(f, s) # f[y] + SumFunctionOnSet(f, s \ {y})
    BY <2>2
  <2>. DEFINE p == Pick(s)
  <2>4. p \in s
    BY <2>3, PickIn
  <2>5. SumFunctionOnSet(f, s) = f[p] + SumFunctionOnSet(f, s \ {p})
    BY <1>1, <2>3, SumTakes
  <2>. HIDE DEF p
  <2>6. p # y
    BY <2>3, <2>5
  <2>7. \A z \in s : /\ s \ {z} \in SUBSET S /\ Cardinality(s \ {z}) \in Nat
                     /\ Cardinality(s \ {z}) < m
    BY <1>1, <2>3, OneLess
  <2>8. ASSUME NEW r \in SUBSET S, Cardinality(r) \in Nat, Cardinality(r) < m, NEW w \in r
        PROVE  SumFunctionOnSet(f, r) = f[w] + SumFunctionOnSet(f, r \ {w})
    <3>. SUFFICES ASSUME SumFunctionOnSet(f, r) # f[w] + SumFunctionOnSet(f, r \ {w}) PROVE FALSE
      OBVIOUS
    <3>1. Cardinality(r) \in Bad
      BY <2>8
    <3>. QED
      BY <2>1, <2>8, <3>1
  <2>. DEFINE r == (s \ {p}) \ {y}
  <2>9. SumFunctionOnSet(f, s \ {p}) = f[y] + SumFunctionOnSet(f, r)
    BY <2>3, <2>4, <2>6, <2>7, <2>8
  <2>10. SumFunctionOnSet(f, s \ {y}) = f[p] + SumFunctionOnSet(f, r)
    <3>1. SumFunctionOnSet(f, s \ {y}) = f[p] + SumFunctionOnSet(f, (s \ {y}) \ {p})
      BY <2>3, <2>4, <2>6, <2>7, <2>8
    <3>2. (s \ {y}) \ {p} = r
      OBVIOUS
    <3>. QED
      BY <3>1, <3>2
  <2>11. SumFunctionOnSet(f, r) \in Int /\ f[p] \in Int /\ f[y] \in Int
    <3>1. r \in SUBSET S
      OBVIOUS
    <3>. HIDE DEF r
    <3>. QED
      BY <1>1, <2>3, <2>4, <3>1
  <2>. HIDE DEF r
  <2>. QED
    BY <2>3, <2>5, <2>9, <2>10, <2>11
<1>. QED
  BY <1>1, <1>2, ZenonT(30)

\* One value changes.
LEMMA SumGrows ==
  ASSUME NEW f, NEW g, NEW S, IsFiniteSet(S), NEW x \in S, NEW n \in Int,
         \A y \in S : f[y] \in Int, \A y \in S \ {x} : g[y] = f[y], g[x] = f[x] + n
  PROVE  SumFunctionOnSet(g, S) = SumFunctionOnSet(f, S) + n
<1>1. IsFiniteSet(S \ {x})
  BY FS_Subset
<1>2. SumFunctionOnSet(f, S) = f[x] + SumFunctionOnSet(f, S \ {x})
  BY SumRemove
<1>. \A y \in S : g[y] \in Int
  OBVIOUS
<1>3. SumFunctionOnSet(g, S) = g[x] + SumFunctionOnSet(g, S \ {x})
  BY SumRemove
<1>4. SumFunctionOnSet(g, S \ {x}) = SumFunctionOnSet(f, S \ {x})
  BY <1>1, SumSame
<1>5. SumFunctionOnSet(f, S \ {x}) \in Int /\ f[x] \in Int
  BY <1>1, SumInt
<1>. QED
  BY <1>2, <1>3, <1>4, <1>5

\* One element joins.
LEMMA SumJoin ==
  ASSUME NEW f, NEW S, IsFiniteSet(S), NEW x, x \notin S,
         \A y \in S \cup {x} : f[y] \in Int
  PROVE  SumFunctionOnSet(f, S \cup {x}) = SumFunctionOnSet(f, S) + f[x]
<1>. DEFINE U == S \cup {x}
<1>1. IsFiniteSet(U) /\ U \ {x} = S /\ x \in U /\ \A y \in U : f[y] \in Int
  BY FS_AddElement
<1>2. SumFunctionOnSet(f, U) = f[x] + SumFunctionOnSet(f, S)
  <2>. HIDE DEF U
  <2>1. SumFunctionOnSet(f, U) = f[x] + SumFunctionOnSet(f, U \ {x})
    BY <1>1, SumRemove
  <2>. QED
    BY <1>1, <2>1
<1>3. SumFunctionOnSet(f, S) \in Int
  BY SumInt
<1>. QED
  BY <1>1, <1>2, <1>3

\* Term by term: the sum of sums, and of multiples.
LEMMA SumPlus ==
  ASSUME NEW f, NEW g, NEW h, NEW S, IsFiniteSet(S),
         \A x \in S : f[x] \in Int /\ g[x] \in Int /\ h[x] = f[x] + g[x]
  PROVE  SumFunctionOnSet(h, S) = SumFunctionOnSet(f, S) + SumFunctionOnSet(g, S)
<1>. DEFINE Bad == {m \in Nat : \E s \in SUBSET S :
                       /\ Cardinality(s) = m
                       /\ SumFunctionOnSet(h, s) # SumFunctionOnSet(f, s) + SumFunctionOnSet(g, s)}
<1>1. \A s \in SUBSET S : /\ IsFiniteSet(s) /\ Cardinality(s) \in Nat
                          /\ SumFunctionOnSet(f, s) \in Int /\ SumFunctionOnSet(g, s) \in Int
  BY FS_Subset, FS_CardinalityType, SumInt
<1>2. Bad = {}
  <2>. SUFFICES ASSUME Bad # {} PROVE FALSE
    OBVIOUS
  <2>1. PICK m \in Bad : \A k \in Bad : m <= k
    BY LeastOf
  <2>2. PICK s \in SUBSET S :
          /\ Cardinality(s) = m
          /\ SumFunctionOnSet(h, s) # SumFunctionOnSet(f, s) + SumFunctionOnSet(g, s)
    BY <2>1
  <2>3. s # {}
    <3>1. /\ SumFunctionOnSet(f, {}) = 0 /\ SumFunctionOnSet(g, {}) = 0
          /\ SumFunctionOnSet(h, {}) = 0
      BY SumEmpty
    <3>2. SumFunctionOnSet(h, {}) = SumFunctionOnSet(f, {}) + SumFunctionOnSet(g, {})
      BY <3>1
    <3>. QED
      BY <2>2, <3>2
  <2>. DEFINE p == Pick(s)
  <2>4. p \in s /\ h[p] = f[p] + g[p] /\ f[p] \in Int /\ g[p] \in Int
    BY <2>3, PickIn
  <2>5. /\ SumFunctionOnSet(f, s) = f[p] + SumFunctionOnSet(f, s \ {p})
        /\ SumFunctionOnSet(g, s) = g[p] + SumFunctionOnSet(g, s \ {p})
        /\ SumFunctionOnSet(h, s) = h[p] + SumFunctionOnSet(h, s \ {p})
    BY <1>1, <2>3, SumTakes
  <2>. HIDE DEF p
  <2>6. s \ {p} \in SUBSET S /\ Cardinality(s \ {p}) \in Nat /\ Cardinality(s \ {p}) < m
    BY <1>1, <2>2, <2>4, OneLess
  <2>7. SumFunctionOnSet(h, s \ {p}) = SumFunctionOnSet(f, s \ {p}) + SumFunctionOnSet(g, s \ {p})
    BY <2>1, <2>6
  <2>8. SumFunctionOnSet(f, s \ {p}) \in Int /\ SumFunctionOnSet(g, s \ {p}) \in Int
    BY <1>1, <2>6
  <2>. QED
    BY <2>2, <2>4, <2>5, <2>7, <2>8
<1>. QED
  BY <1>1, <1>2

\* A sum over a set is the sum over two parts of it.
LEMMA SumParts ==
  ASSUME NEW f, NEW S, NEW T, IsFiniteSet(S), IsFiniteSet(T), S \cap T = {},
         \A x \in S \cup T : f[x] \in Int
  PROVE  SumFunctionOnSet(f, S \cup T) = SumFunctionOnSet(f, S) + SumFunctionOnSet(f, T)
<1>. DEFINE Bad == {m \in Nat : \E s \in SUBSET T :
                       /\ Cardinality(s) = m
                       /\ SumFunctionOnSet(f, S \cup s) # SumFunctionOnSet(f, S) + SumFunctionOnSet(f, s)}
<1>1. \A s \in SUBSET T : /\ IsFiniteSet(s) /\ Cardinality(s) \in Nat /\ IsFiniteSet(S \cup s)
                          /\ SumFunctionOnSet(f, s) \in Int
  BY FS_Subset, FS_CardinalityType, FS_Union, SumInt
<1>2. SumFunctionOnSet(f, S) \in Int
  BY SumInt
<1>3. Bad = {}
  <2>. SUFFICES ASSUME Bad # {} PROVE FALSE
    OBVIOUS
  <2>1. PICK m \in Bad : \A k \in Bad : m <= k
    BY LeastOf
  <2>2. PICK s \in SUBSET T :
          /\ Cardinality(s) = m
          /\ SumFunctionOnSet(f, S \cup s) # SumFunctionOnSet(f, S) + SumFunctionOnSet(f, s)
    BY <2>1
  <2>3. s # {}
    <3>1. S \cup {} = S
      OBVIOUS
    <3>. QED
      BY <1>2, <2>2, <3>1, SumEmpty
  <2>4. PICK p : p \in s
    BY <2>3
  <2>. DEFINE r == s \ {p}
            U == S \cup s
  <2>5. /\ r \in SUBSET T /\ Cardinality(r) \in Nat /\ Cardinality(r) < m
        /\ U \ {p} = S \cup r /\ p \in U /\ \A x \in U : f[x] \in Int
        /\ IsFiniteSet(U)
    BY <1>1, <2>2, <2>4, OneLess, SMTT(30)
  <2>6. SumFunctionOnSet(f, s) = f[p] + SumFunctionOnSet(f, r)
    <3>1. IsFiniteSet(s) /\ \A x \in s : f[x] \in Int
      BY <1>1
    <3>. QED
      BY <2>4, <3>1, SumRemove
  <2>. HIDE DEF r, U
  <2>7. SumFunctionOnSet(f, S \cup r) = SumFunctionOnSet(f, S) + SumFunctionOnSet(f, r)
    <3>. SUFFICES ASSUME SumFunctionOnSet(f, S \cup r) # SumFunctionOnSet(f, S) + SumFunctionOnSet(f, r)
                  PROVE FALSE
      OBVIOUS
    <3>1. Cardinality(r) \in Bad
      BY <2>5
    <3>. QED
      BY <2>1, <2>5, <3>1
  <2>8. SumFunctionOnSet(f, U) = f[p] + SumFunctionOnSet(f, S \cup r)
    <3>1. SumFunctionOnSet(f, U) = f[p] + SumFunctionOnSet(f, U \ {p})
      BY <2>5, SumRemove
    <3>. QED
      BY <2>5, <3>1
  <2>9. f[p] \in Int /\ SumFunctionOnSet(f, r) \in Int
    BY <1>1, <2>4, <2>5
  <2>10. SumFunctionOnSet(f, U) = SumFunctionOnSet(f, S) + SumFunctionOnSet(f, s)
    BY <1>2, <2>6, <2>7, <2>8, <2>9
  <2>. QED
    BY <2>2, <2>10 DEF U
<1>. QED
  BY <1>1, <1>3

\* Zeros.
LEMMA SumZero ==
  ASSUME NEW f, NEW S, IsFiniteSet(S), \A x \in S : f[x] = 0
  PROVE  SumFunctionOnSet(f, S) = 0
<1>1. SumFunctionOnSet(f, S) = SumFunctionOnSet(f, S) + SumFunctionOnSet(f, S)
  <2>1. \A x \in S : f[x] \in Int /\ f[x] = f[x] + f[x]
    OBVIOUS
  <2>. QED
    BY <2>1, SumPlus
<1>2. SumFunctionOnSet(f, S) \in Int
  <2>1. \A x \in S : f[x] \in Int
    OBVIOUS
  <2>. QED
    BY <2>1, SumInt
<1>3. \A n \in Int : n = n + n => n = 0
  OBVIOUS
<1>. QED
  BY <1>1, <1>2, <1>3

\* A sum over a part is no more than the sum over the whole, of natural numbers.
LEMMA SumSubset ==
  ASSUME NEW f, NEW S, NEW T, IsFiniteSet(T), S \subseteq T, \A x \in T : f[x] \in Nat
  PROVE  SumFunctionOnSet(f, S) <= SumFunctionOnSet(f, T)
<1>. DEFINE R == T \ S
<1>1. IsFiniteSet(S) /\ IsFiniteSet(R) /\ S \cap R = {} /\ S \cup R = T
  BY FS_Subset
<1>2. SumFunctionOnSet(f, S) \in Nat /\ SumFunctionOnSet(f, R) \in Nat
  <2>. HIDE DEF R
  <2>1. \A x \in S : f[x] \in Nat
    OBVIOUS
  <2>2. \A x \in R : f[x] \in Nat
    BY <1>1
  <2>. QED
    BY <1>1, <2>1, <2>2, SumNat
<1>3. SumFunctionOnSet(f, T) = SumFunctionOnSet(f, S) + SumFunctionOnSet(f, R)
  <2>. HIDE DEF R
  <2>1. \A x \in S \cup R : f[x] \in Int
    BY <1>1
  <2>2. SumFunctionOnSet(f, S \cup R) = SumFunctionOnSet(f, S) + SumFunctionOnSet(f, R)
    BY <1>1, <2>1, SumParts
  <2>. QED
    BY <1>1, <2>2
<1>. QED
  BY <1>2, <1>3

\* Adding up by groups: g tells the group of each element, G the elements of each
\* group, h their sum.
LEMMA SumByGroups ==
  ASSUME NEW f, NEW g, NEW h, NEW S, NEW K, IsFiniteSet(S), IsFiniteSet(K),
         NEW G \in [K -> SUBSET S],
         \A x \in S : f[x] \in Int, \A x \in S : g[x] \in K,
         \A k \in K, x \in S : x \in G[k] <=> g[x] = k,
         \A k \in K : h[k] = SumFunctionOnSet(f, G[k])
  PROVE  SumFunctionOnSet(h, K) = SumFunctionOnSet(f, S)
<1>. DEFINE In(L) == {x \in S : g[x] \in L}
            Bad == {m \in Nat : \E L \in SUBSET K :
                       /\ Cardinality(L) = m
                       /\ SumFunctionOnSet(h, L) # SumFunctionOnSet(f, In(L))}
<1>1. \A L \in SUBSET K : IsFiniteSet(L) /\ Cardinality(L) \in Nat
  BY FS_Subset, FS_CardinalityType
<1>2. \A s \in SUBSET S : IsFiniteSet(s) /\ SumFunctionOnSet(f, s) \in Int
  BY FS_Subset, SumInt
<1>3. \A k \in K : h[k] \in Int
  <2>1. \A k \in K : G[k] \in SUBSET S
    OBVIOUS
  <2>. QED
    BY <1>2, <2>1
<1>4. Bad = {}
  <2>. SUFFICES ASSUME Bad # {} PROVE FALSE
    OBVIOUS
  <2>1. PICK m \in Bad : \A k \in Bad : m <= k
    BY LeastOf
  <2>2. PICK L \in SUBSET K : /\ Cardinality(L) = m
                              /\ SumFunctionOnSet(h, L) # SumFunctionOnSet(f, In(L))
    BY <2>1
  <2>3. L # {}
    <3>1. In({}) = {}
      OBVIOUS
    <3>2. SumFunctionOnSet(h, {}) = 0 /\ SumFunctionOnSet(f, {}) = 0
      BY SumEmpty
    <3>. QED
      BY <2>2, <3>1, <3>2
  <2>4. PICK p : p \in L
    BY <2>3
  <2>. DEFINE r == L \ {p}
            P == {x \in S : g[x] = p}
  <2>5. /\ r \in SUBSET K /\ Cardinality(r) \in Nat /\ Cardinality(r) < m /\ p \in K
        /\ IsFiniteSet(L) /\ \A k \in L : h[k] \in Int
    BY <1>1, <1>3, <2>2, <2>4, OneLess
  <2>6. SumFunctionOnSet(h, L) = h[p] + SumFunctionOnSet(h, r)
    BY <2>4, <2>5, SumRemove
  <2>7. SumFunctionOnSet(h, r) = SumFunctionOnSet(f, In(r))
    <3>. HIDE DEF r
    <3>. SUFFICES ASSUME SumFunctionOnSet(h, r) # SumFunctionOnSet(f, In(r)) PROVE FALSE
      OBVIOUS
    <3>1. Cardinality(r) \in Bad /\ m \in Nat
      BY <2>1, <2>5
    <3>. HIDE DEF Bad
    <3>. QED
      BY <2>1, <2>5, <3>1
  <2>8. In(L) = P \cup In(r) /\ P \cap In(r) = {} /\ P \in SUBSET S /\ In(r) \in SUBSET S
    BY <2>4
  <2>9. h[p] = SumFunctionOnSet(f, P)
    <3>1. G[p] = P
      BY <2>5
    <3>. QED
      BY <2>5, <3>1
  <2>. DEFINE A == In(L)
              B == In(r)
  <2>10. A = P \cup B /\ P \cap B = {} /\ P \in SUBSET S /\ B \in SUBSET S
    BY <2>8
  <2>11. SumFunctionOnSet(h, r) = SumFunctionOnSet(f, B)
    BY <2>7
  <2>12. SumFunctionOnSet(h, L) # SumFunctionOnSet(f, A)
    BY <2>2
  <2>. HIDE DEF A, B, P, r, In
  <2>13. SumFunctionOnSet(f, P \cup B) = SumFunctionOnSet(f, P) + SumFunctionOnSet(f, B)
    <3>1. IsFiniteSet(P) /\ IsFiniteSet(B) /\ \A x \in P \cup B : f[x] \in Int
      BY <1>2, <2>10
    <3>. QED
      BY <2>10, <3>1, SumParts
  <2>. QED
    BY <2>6, <2>9, <2>10, <2>11, <2>12, <2>13
<1>5. SumFunctionOnSet(h, K) = SumFunctionOnSet(f, In(K))
  <2>1. K \in SUBSET K /\ Cardinality(K) \in Nat /\ Cardinality(K) \notin Bad
    BY <1>1, <1>4
  <2>. QED
    BY <2>1
<1>6. In(K) = S
  OBVIOUS
<1>. QED
  BY <1>5, <1>6

\* Rows and columns: r[x][y] is the entry, a[x] the sum of a row, b[y] of a column.
LEMMA SumSwap ==
  ASSUME NEW r, NEW c, NEW a, NEW b, NEW S, NEW T, IsFiniteSet(S), IsFiniteSet(T),
         \A x \in S, y \in T : r[x][y] \in Int,
         \A x \in S, y \in T : c[y][x] = r[x][y],
         \A x \in S : a[x] = SumFunctionOnSet(r[x], T),
         \A y \in T : b[y] = SumFunctionOnSet(c[y], S)
  PROVE  SumFunctionOnSet(a, S) = SumFunctionOnSet(b, T)
<1>. DEFINE Col(s) == [y \in T |-> SumFunctionOnSet(c[y], s)]
            Bad == {m \in Nat : \E s \in SUBSET S :
                       /\ Cardinality(s) = m
                       /\ SumFunctionOnSet(a, s) # SumFunctionOnSet(Col(s), T)}
<1>1. \A s \in SUBSET S : IsFiniteSet(s) /\ Cardinality(s) \in Nat
  BY FS_Subset, FS_CardinalityType
<1>2. \A x \in S : a[x] \in Int
  BY SumInt
<1>3. \A s \in SUBSET S : \A y \in T : SumFunctionOnSet(c[y], s) \in Int
  <2>1. ASSUME NEW s \in SUBSET S, NEW y \in T PROVE SumFunctionOnSet(c[y], s) \in Int
    <3>1. \A x \in s : c[y][x] \in Int
      OBVIOUS
    <3>. QED
      BY <1>1, <3>1, SumInt
  <2>. QED
    BY <2>1
<1>4. Bad = {}
  <2>. SUFFICES ASSUME Bad # {} PROVE FALSE
    OBVIOUS
  <2>1. PICK m \in Bad : \A k \in Bad : m <= k
    BY LeastOf
  <2>2. PICK s \in SUBSET S : /\ Cardinality(s) = m
                              /\ SumFunctionOnSet(a, s) # SumFunctionOnSet(Col(s), T)
    BY <2>1
  <2>3. s # {}
    <3>. DEFINE z == Col({})
    <3>1. \A y \in T : z[y] = 0
      BY SumEmpty
    <3>. HIDE DEF z
    <3>2. SumFunctionOnSet(z, T) = 0
      BY <3>1, SumZero
    <3>3. SumFunctionOnSet(a, {}) = 0
      BY SumEmpty
    <3>. QED
      BY <2>2, <3>2, <3>3 DEF z
  <2>4. PICK p : p \in s
    BY <2>3
  <2>. DEFINE q == s \ {p}
              u == Col(s)
              v == Col(q)
              w == r[p]
  <2>5. q \in SUBSET S /\ Cardinality(q) \in Nat /\ Cardinality(q) < m /\ p \in S /\ IsFiniteSet(s)
    BY <1>1, <2>2, <2>4, OneLess
  <2>6. SumFunctionOnSet(a, s) = a[p] + SumFunctionOnSet(a, q)
    <3>1. IsFiniteSet(s) /\ \A x \in s : a[x] \in Int
      BY <1>1, <1>2
    <3>. HIDE DEF q
    <3>2. SumFunctionOnSet(a, s) = a[p] + SumFunctionOnSet(a, s \ {p})
      BY <2>4, <3>1, SumRemove, SMTT(60)
    <3>. QED
      BY <3>2 DEF q
  <2>7. SumFunctionOnSet(a, q) = SumFunctionOnSet(v, T)
    <3>. SUFFICES ASSUME SumFunctionOnSet(a, q) # SumFunctionOnSet(Col(q), T) PROVE FALSE
      OBVIOUS
    <3>. HIDE DEF q
    <3>1. Cardinality(q) \in Bad
      BY <2>5
    <3>. QED
      BY <2>1, <2>5, <3>1
  <2>8. a[p] = SumFunctionOnSet(w, T)
    BY <2>5
  <2>9. ASSUME NEW y \in T PROVE w[y] \in Int /\ v[y] \in Int /\ u[y] = w[y] + v[y]
    <3>1. \A x \in s : c[y][x] \in Int
      OBVIOUS
    <3>2. SumFunctionOnSet(c[y], s) = c[y][p] + SumFunctionOnSet(c[y], s \ {p})
      BY <2>4, <2>5, <3>1, SumRemove
    <3>3. w[y] \in Int /\ c[y][p] = w[y]
      BY <2>5
    <3>4. u[y] = SumFunctionOnSet(c[y], s) /\ v[y] = SumFunctionOnSet(c[y], q)
      OBVIOUS
    <3>5. v[y] \in Int
      BY <1>3, <2>5, <3>4
    <3>. QED
      BY <3>2, <3>3, <3>4, <3>5
  <2>10. SumFunctionOnSet(a, s) # SumFunctionOnSet(u, T)
    BY <2>2
  <2>. HIDE DEF q, u, v, w
  <2>11. SumFunctionOnSet(u, T) = SumFunctionOnSet(w, T) + SumFunctionOnSet(v, T)
    BY <2>9, SumPlus
  <2>. QED
    BY <2>6, <2>7, <2>8, <2>10, <2>11
<1>5. SumFunctionOnSet(a, S) = SumFunctionOnSet(Col(S), T)
  BY <1>1, <1>4
<1>. DEFINE d == Col(S)
<1>6. \A y \in T : d[y] = b[y] /\ b[y] \in Int
  BY <1>3
<1>7. SumFunctionOnSet(a, S) = SumFunctionOnSet(d, T)
  BY <1>5
<1>. HIDE DEF d
<1>8. SumFunctionOnSet(d, T) = SumFunctionOnSet(b, T)
  BY <1>6, SumSame
<1>. QED
  BY <1>7, <1>8

\* Multiples.
LEMMA SumTimes ==
  ASSUME NEW f, NEW h, NEW S, IsFiniteSet(S), NEW n \in Int,
         \A x \in S : f[x] \in Int /\ h[x] = n * f[x]
  PROVE  SumFunctionOnSet(h, S) = n * SumFunctionOnSet(f, S)
<1>. DEFINE Bad == {m \in Nat : \E s \in SUBSET S :
                       /\ Cardinality(s) = m
                       /\ SumFunctionOnSet(h, s) # n * SumFunctionOnSet(f, s)}
<1>1. \A s \in SUBSET S : /\ IsFiniteSet(s) /\ Cardinality(s) \in Nat
                          /\ SumFunctionOnSet(f, s) \in Int
  BY FS_Subset, FS_CardinalityType, SumInt
<1>2. Bad = {}
  <2>. SUFFICES ASSUME Bad # {} PROVE FALSE
    OBVIOUS
  <2>1. PICK m \in Bad : \A k \in Bad : m <= k
    BY LeastOf
  <2>2. PICK s \in SUBSET S : /\ Cardinality(s) = m
                              /\ SumFunctionOnSet(h, s) # n * SumFunctionOnSet(f, s)
    BY <2>1
  <2>3. s # {}
    <3>1. SumFunctionOnSet(f, {}) = 0 /\ SumFunctionOnSet(h, {}) = 0
      BY SumEmpty
    <3>2. n * 0 = 0
      OBVIOUS
    <3>. QED
      BY <2>2, <3>1, <3>2
  <2>. DEFINE p == Pick(s)
  <2>4. p \in s /\ f[p] \in Int /\ h[p] = n * f[p]
    BY <2>3, PickIn
  <2>5. /\ SumFunctionOnSet(f, s) = f[p] + SumFunctionOnSet(f, s \ {p})
        /\ SumFunctionOnSet(h, s) = h[p] + SumFunctionOnSet(h, s \ {p})
    BY <1>1, <2>3, SumTakes
  <2>. HIDE DEF p
  <2>6. s \ {p} \in SUBSET S /\ Cardinality(s \ {p}) \in Nat /\ Cardinality(s \ {p}) < m
    BY <1>1, <2>2, <2>4, OneLess
  <2>7. SumFunctionOnSet(h, s \ {p}) = n * SumFunctionOnSet(f, s \ {p})
    BY <2>1, <2>6
  <2>8. SumFunctionOnSet(f, s \ {p}) \in Int
    BY <1>1, <2>6
  <2>9. \A i, j \in Int : n * i + n * j = n * (i + j)
    OBVIOUS
  <2>. QED
    BY <2>2, <2>4, <2>5, <2>7, <2>8, <2>9
<1>. QED
  BY <1>1, <1>2

\* As many terms as elements, none further from zero than n.
LEMMA SumWithin ==
  ASSUME NEW f, NEW S, IsFiniteSet(S), NEW n \in Int,
         \A x \in S : f[x] \in Int /\ f[x] <= n /\ -n <= f[x]
  PROVE  SumFunctionOnSet(f, S) <= Cardinality(S) * n /\ -(Cardinality(S) * n) <= SumFunctionOnSet(f, S)
<1>. DEFINE Fits(s) == /\ SumFunctionOnSet(f, s) <= Cardinality(s) * n
                       /\ -(Cardinality(s) * n) <= SumFunctionOnSet(f, s)
            Bad == {m \in Nat : \E s \in SUBSET S : Cardinality(s) = m /\ ~Fits(s)}
<1>1. \A s \in SUBSET S : /\ IsFiniteSet(s) /\ Cardinality(s) \in Nat
                          /\ SumFunctionOnSet(f, s) \in Int
  BY FS_Subset, FS_CardinalityType, SumInt
<1>2. Bad = {}
  <2>. SUFFICES ASSUME Bad # {} PROVE FALSE
    OBVIOUS
  <2>1. PICK m \in Bad : \A k \in Bad : m <= k
    BY LeastOf
  <2>2. PICK s \in SUBSET S : Cardinality(s) = m /\ ~Fits(s)
    BY <2>1
  <2>3. s # {}
    <3>1. SumFunctionOnSet(f, {}) = 0 /\ Cardinality({}) = 0
      BY SumEmpty, FS_EmptySet
    <3>2. 0 <= 0 * n /\ -(0 * n) <= 0
      OBVIOUS
    <3>3. Fits({})
      BY <3>1, <3>2
    <3>. QED
      BY <2>2, <3>3
  <2>. DEFINE p == Pick(s)
              q == s \ {p}
              k == Cardinality(q)
              x == SumFunctionOnSet(f, q)
  <2>4. p \in s /\ f[p] \in Int /\ f[p] <= n /\ -n <= f[p]
    BY <2>3, PickIn
  <2>5. SumFunctionOnSet(f, s) = f[p] + x
    BY <1>1, <2>3, SumTakes
  <2>. HIDE DEF p
  <2>6. q \in SUBSET S /\ k \in Nat /\ k < m /\ Cardinality(s) = k + 1
    BY <1>1, <2>2, <2>4, OneLess
  <2>7. Fits(q)
    BY <2>1, <2>6
  <2>8. x \in Int /\ x <= k * n /\ -(k * n) <= x
    BY <1>1, <2>6, <2>7
  <2>. HIDE DEF q, k, x
  <2>9. (k + 1) * n = k * n + n /\ k * n \in Int
    <3>1. \A i, j \in Int : (i + 1) * j = i * j + j /\ i * j \in Int
      OBVIOUS
    <3>2. k \in Int /\ n \in Int
      BY <2>6
    <3>. QED
      BY <3>1, <3>2
  <2>10. f[p] + x <= (k + 1) * n /\ -((k + 1) * n) <= f[p] + x
    BY <2>4, <2>8, <2>9
  <2>11. Fits(s)
    BY <2>5, <2>6, <2>10
  <2>. QED
    BY <2>2, <2>11
<1>. QED
  BY <1>1, <1>2

\* A finite set of integers that is not empty has a greatest element.
LEMMA GreatestOf ==
  ASSUME NEW S, IsFiniteSet(S), S # {}, S \subseteq Int
  PROVE  \E x \in S : \A y \in S : y <= x
<1>. DEFINE Top(s) == \E x \in s : \A y \in s : y <= x
            Bad == {m \in Nat : \E s \in SUBSET S : s # {} /\ Cardinality(s) = m /\ ~Top(s)}
<1>1. \A s \in SUBSET S : IsFiniteSet(s) /\ Cardinality(s) \in Nat
  BY FS_Subset, FS_CardinalityType
<1>2. Bad = {}
  <2>. SUFFICES ASSUME Bad # {} PROVE FALSE
    OBVIOUS
  <2>1. PICK m \in Bad : \A k \in Bad : m <= k
    BY LeastOf
  <2>2. PICK s \in SUBSET S : s # {} /\ Cardinality(s) = m /\ ~Top(s)
    BY <2>1
  <2>3. PICK p : p \in s
    BY <2>2
  <2>4. s \ {p} \in SUBSET S /\ Cardinality(s \ {p}) \in Nat /\ Cardinality(s \ {p}) < m
    BY <1>1, <2>2, <2>3, OneLess
  <2>5. s \ {p} # {}
    <3>. SUFFICES ASSUME s \ {p} = {} PROVE FALSE
      OBVIOUS
    <3>1. s = {p} /\ p \in Int
      BY <2>3
    <3>. QED
      BY <2>2, <3>1
  <2>6. Top(s \ {p})
    <3>. SUFFICES ASSUME ~Top(s \ {p}) PROVE FALSE
      OBVIOUS
    <3>. DEFINE q == s \ {p}
    <3>1. q \in SUBSET S /\ q # {} /\ ~Top(q) /\ Cardinality(q) \in Nat /\ Cardinality(q) < m
      BY <2>4, <2>5
    <3>. HIDE DEF q, Top
    <3>2. Cardinality(q) \in Bad /\ m \in Nat
      BY <2>1, <3>1
    <3>. HIDE DEF Bad
    <3>. QED
      BY <2>1, <3>1, <3>2
  <2>7. PICK x : x \in s \ {p} /\ \A y \in s \ {p} : y <= x
    BY <2>6
  <2>8. Top(s)
    <3>1. x \in Int /\ p \in Int /\ \A y \in s : y \in Int
      BY <2>3, <2>7
    <3>2. CASE p <= x
      BY <2>7, <3>1, <3>2
    <3>3. CASE ~(p <= x)
      BY <2>3, <2>7, <3>1, <3>3
    <3>. QED
      BY <3>2, <3>3
  <2>. QED
    BY <2>2, <2>8
<1>3. Top(S)
  BY <1>1, <1>2
<1>. QED
  BY <1>3
=============================================================================
