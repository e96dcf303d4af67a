----------------------------- MODULE StockProofs -----------------------------
(* What the sums over document lines do, and what the operations of the       *)
(* stock engine keep true of a level row.  The proofs about the documents that *)
(* move stock rest on it.                                                     *)
EXTENDS StockEngine, LineSums, Integers, FiniteSetsExt, FiniteSetTheorems, WellFoundedInduction, TLAPS

(* Induction over the natural numbers, with a set for what is proved of them. *)

\* A set of natural numbers has a least one.
LEMMA LeastNumber ==
    ASSUME NEW T, T \subseteq Nat, T # {}
    PROVE  \E n \in T : \A m \in T : n <= m
<1> DEFINE Less == { p \in Nat \X Nat : p[1] < p[2] }
<1>1. Less = OpToRel(<, Nat)
  BY DEF OpToRel
<1>2. PICK n \in T : \A m \in T : << m, n >> \notin Less
  <2> HIDE DEF Less
  <2>1. IsWellFoundedOn(Less, Nat)
    BY <1>1, NatLessThanWellFounded, Zenon
  <2> QED BY <2>1, WFMin
<1>3. ASSUME NEW m \in T PROVE n <= m
  <2>1. m \in Nat /\ n \in Nat /\ << m, n >> \notin Less
    BY <1>2
  <2> QED BY <2>1
<1> QED BY <1>3

\* A set that holds 0, and with a number the next, holds every natural number.
LEMMA SetInduction ==
    ASSUME NEW S, 0 \in S, \A n \in Nat : n \in S => n + 1 \in S
    PROVE  \A n \in Nat : n \in S
<1> SUFFICES ASSUME NEW k \in Nat, k \notin S PROVE FALSE
  OBVIOUS
<1> DEFINE T == Nat \ S
<1>1. PICK n \in T : \A m \in T : n <= m
  <2>1. T \subseteq Nat /\ T # {}
    OBVIOUS
  <2> HIDE DEF T
  <2> QED BY <2>1, LeastNumber
<1>2. n - 1 \in Nat /\ n - 1 \notin T
  BY <1>1
<1>3. (n - 1) + 1 = n
  BY <1>1
<1> QED BY <1>1, <1>2, <1>3

(* Sums of integers over a finite set, as the models fold them.             *)

Tally(f, S) == MapThenSumSet(LAMBDA x : f[x], S)

\* Induction over a finite set, with a set for the subsets it is proved of.
LEMMA SubsetInduction ==
    ASSUME NEW S, IsFiniteSet(S), NEW G, {} \in G,
           \A T \in SUBSET S : \A x \in S \ T : T \in G => T \cup {x} \in G
    PROVE  S \in G
<1> DEFINE N == { n \in Nat : \A T \in SUBSET S : Cardinality(T) = n => T \in G }
<1>1. 0 \in N
  <2>1. ASSUME NEW T \in SUBSET S, Cardinality(T) = 0 PROVE T = {}
    BY <2>1, FS_Subset, FS_EmptySet
  <2> QED BY <2>1
<1>2. ASSUME NEW n \in Nat, n \in N PROVE n + 1 \in N
  <2> SUFFICES ASSUME NEW T \in SUBSET S, Cardinality(T) = n + 1 PROVE T \in G
    OBVIOUS
  <2>1. IsFiniteSet(T)
    BY FS_Subset
  <2>2. PICK x : x \in T
    <3>1. Cardinality(T) # 0
      OBVIOUS
    <3>2. T # {}
      BY <3>1, FS_EmptySet, Zenon
    <3> QED BY <3>2
  <2>3. T \ {x} \in SUBSET S /\ x \in S \ (T \ {x}) /\ (T \ {x}) \cup {x} = T
    BY <2>2
  <2>4. Cardinality(T \ {x}) = n
    <3>1. Cardinality(T \ {x}) = Cardinality(T) - 1
      BY <2>1, <2>2, FS_RemoveElement
    <3> QED BY <3>1
  <2>5. T \ {x} \in G
    BY <1>2, <2>3, <2>4
  <2> QED BY <2>3, <2>5
<1>3. \A n \in Nat : n \in N
  <2> HIDE DEF N
  <2> QED BY <1>1, <1>2, SetInduction
<1>4. Cardinality(S) \in Nat
  BY FS_CardinalityType
<1> QED BY <1>3, <1>4

Pieces(f, S) == { u \in S \X Nat : 1 <= u[2] /\ u[2] <= f[u[1]] }
Negated(f, S) == [x \in S |-> -f[x]]
Balance(f, S) == Cardinality(Pieces(f, S)) - Cardinality(Pieces(Negated(f, S), S))

LEMMA PiecesOneMore ==
    ASSUME NEW S, NEW x \in S, NEW f, f[x] \in Int, IsFiniteSet(Pieces(f, S \ {x}))
    PROVE  /\ IsFiniteSet(Pieces(f, S))
           /\ Cardinality(Pieces(f, S)) = Cardinality(Pieces(f, S \ {x})) + (IF f[x] > 0 THEN f[x] ELSE 0)
<1> DEFINE R == {x} \X (1..f[x])
<1>1. Pieces(f, S) = Pieces(f, S \ {x}) \cup R /\ Pieces(f, S \ {x}) \cap R = {}
  BY DEF Pieces
<1>2. IsFiniteSet(R) /\ Cardinality(R) = IF f[x] > 0 THEN f[x] ELSE 0
  <2>1. IsFiniteSet(1..f[x]) /\ Cardinality(1..f[x]) = IF 1 > f[x] THEN 0 ELSE f[x] - 1 + 1
    BY FS_Interval
  <2>2. IsFiniteSet({x}) /\ Cardinality({x}) = 1
    BY FS_Singleton
  <2>3. IsFiniteSet(R) /\ Cardinality(R) = Cardinality({x}) * Cardinality(1..f[x])
    BY <2>1, <2>2, FS_Product, Zenon
  <2>4. Cardinality(R) = 1 * Cardinality(1..f[x])
    BY <2>2, <2>3, Zenon
  <2> HIDE DEF R
  <2> QED BY <2>1, <2>3, <2>4
<1> HIDE DEF R
<1>3. IsFiniteSet(Pieces(f, S))
      /\ Cardinality(Pieces(f, S) ) = Cardinality(Pieces(f, S \ {x})) + Cardinality(R) - Cardinality(Pieces(f, S \ {x}) \cap R)
  BY <1>1, <1>2, FS_Union, Zenon
<1>4. Cardinality(Pieces(f, S \ {x}) \cap R) = 0
  BY <1>1, FS_EmptySet
<1>5. Cardinality(Pieces(f, S \ {x})) \in Nat
  BY FS_CardinalityType
<1> QED BY <1>2, <1>3, <1>4, <1>5

LEMMA PiecesFinite ==
    ASSUME NEW S, IsFiniteSet(S), NEW f, \A x \in S : f[x] \in Int
    PROVE  IsFiniteSet(Pieces(f, S))
<1> DEFINE G == { T \in SUBSET S : IsFiniteSet(Pieces(f, T)) }
<1>1. {} \in G
  <2>1. Pieces(f, {}) = {}
    BY DEF Pieces
  <2> QED BY <2>1, FS_EmptySet
<1>2. ASSUME NEW T \in SUBSET S, NEW x \in S \ T, T \in G PROVE T \cup {x} \in G
  <2>1. (T \cup {x}) \ {x} = T
    OBVIOUS
  <2>2. IsFiniteSet(Pieces(f, T \cup {x}))
    BY <1>2, <2>1, PiecesOneMore
  <2> QED BY <2>2
<1> HIDE DEF G
<1>3. S \in G
  BY <1>1, <1>2, SubsetInduction
<1> QED BY <1>3 DEF G

LEMMA BalanceSame ==
    ASSUME NEW S, NEW f, NEW g, \A x \in S : f[x] = g[x]
    PROVE  Balance(f, S) = Balance(g, S)
<1>1. Pieces(f, S) = Pieces(g, S)
  BY DEF Pieces
<1>2. Negated(f, S) = Negated(g, S)
  BY DEF Negated
<1> QED BY <1>1, <1>2 DEF Balance

LEMMA BalanceRemove ==
    ASSUME NEW S, IsFiniteSet(S), NEW f, \A x \in S : f[x] \in Int
    PROVE  /\ Balance(f, {}) = 0
           /\ Balance(f, S) \in Int
           /\ \A x \in S : Balance(f, S) = f[x] + Balance(f, S \ {x})
<1>1. Balance(f, {}) = 0
  <2>1. Pieces(f, {}) = {} /\ Pieces(Negated(f, {}), {}) = {}
    BY DEF Pieces
  <2> QED BY <2>1, FS_EmptySet DEF Balance
<1>2. \A x \in S : Negated(f, S)[x] = -f[x]
  BY DEF Negated
<1>3. ASSUME NEW T \in SUBSET S
      PROVE  /\ IsFiniteSet(Pieces(f, T)) /\ Cardinality(Pieces(f, T)) \in Nat
             /\ IsFiniteSet(Pieces(Negated(f, S), T)) /\ Cardinality(Pieces(Negated(f, S), T)) \in Nat
  <2>1. IsFiniteSet(T)
    BY FS_Subset
  <2>2. \A x \in T : f[x] \in Int /\ Negated(f, S)[x] \in Int
    BY <1>2
  <2> QED BY <2>1, <2>2, PiecesFinite, FS_CardinalityType
<1>4. Balance(f, S) \in Int
  <2>1. S \in SUBSET S
    OBVIOUS
  <2> QED BY <1>3, <2>1 DEF Balance
<1>5. ASSUME NEW x \in S PROVE Balance(f, S) = f[x] + Balance(f, S \ {x})
  <2>1. Pieces(Negated(f, S \ {x}), S \ {x}) = Pieces(Negated(f, S), S \ {x})
    BY DEF Pieces, Negated
  <2>2. Cardinality(Pieces(f, S)) = Cardinality(Pieces(f, S \ {x})) + (IF f[x] > 0 THEN f[x] ELSE 0)
    BY <1>3, PiecesOneMore
  <2>3. Cardinality(Pieces(Negated(f, S), S))
          = Cardinality(Pieces(Negated(f, S), S \ {x})) + (IF Negated(f, S)[x] > 0 THEN Negated(f, S)[x] ELSE 0)
    <3>1. Negated(f, S)[x] \in Int
      BY <1>2
    <3> QED BY <1>3, <3>1, PiecesOneMore
  <2>4. /\ Cardinality(Pieces(f, S \ {x})) \in Nat
        /\ Cardinality(Pieces(Negated(f, S), S \ {x})) \in Nat
    BY <1>3
  <2> QED BY <1>2, <2>1, <2>2, <2>3, <2>4 DEF Balance
<1> QED BY <1>1, <1>4, <1>5

Pick(s) == CHOOSE x \in s : TRUE
Folded(f, h, S) == [s \in SUBSET S |-> IF s = {} THEN 0 ELSE f[Pick(s)] + h[s \ {Pick(s)}]]

\* The fold has the sum for its value, in whatever order it takes the elements.
LEMMA TallyIsBalance ==
    ASSUME NEW S, IsFiniteSet(S), NEW f, \A x \in S : f[x] \in Int
    PROVE  Tally(f, S) = Balance(f, S)
<1>1. Tally(f, S) = (CHOOSE h : h = Folded(f, h, S))[S]
  BY DEF Tally, MapThenSumSet, MapThenFoldSet, Folded, Pick
<1>2. ASSUME NEW T \in SUBSET S, T # {}
      PROVE  Pick(T) \in T /\ T \ {Pick(T)} \in SUBSET S /\ Balance(f, T) = f[Pick(T)] + Balance(f, T \ {Pick(T)})
  <2>1. Pick(T) \in T
    BY <1>2 DEF Pick
  <2>2. IsFiniteSet(T)
    BY FS_Subset
  <2>3. \A x \in T : f[x] \in Int
    OBVIOUS
  <2> QED BY <2>1, <2>2, <2>3, BalanceRemove
<1>3. Balance(f, {}) = 0
  BY BalanceRemove
<1>4. \E h : h = Folded(f, h, S)
  <2> DEFINE h == [T \in SUBSET S |-> Balance(f, T)]
  <2>1. h = Folded(f, h, S)
    BY <1>2, <1>3 DEF Folded
  <2> QED BY <2>1
<1>5. PICK h : h = Folded(f, h, S) /\ Tally(f, S) = h[S]
  BY <1>1, <1>4
<1> DEFINE G == { T \in SUBSET S : h[T] = Balance(f, T) }
           N == { n \in Nat : \A T \in SUBSET S : Cardinality(T) = n => h[T] = Balance(f, T) }
<1>6. 0 \in N
  <2>1. ASSUME NEW T \in SUBSET S, Cardinality(T) = 0 PROVE h[T] = Balance(f, T)
    <3>1. T = {}
      BY <2>1, FS_Subset, FS_EmptySet
    <3> QED BY <1>3, <1>5, <3>1 DEF Folded
  <2> QED BY <2>1
<1>7. ASSUME NEW n \in Nat, n \in N PROVE n + 1 \in N
  <2> SUFFICES ASSUME NEW T \in SUBSET S, Cardinality(T) = n + 1 PROVE h[T] = Balance(f, T)
    OBVIOUS
  <2>1. IsFiniteSet(T)
    BY FS_Subset
  <2>2. T # {}
    BY FS_EmptySet
  <2>3. Cardinality(T \ {Pick(T)}) = n
    <3>1. Cardinality(T \ {Pick(T)}) = Cardinality(T) - 1
      BY <1>2, <2>1, <2>2, FS_RemoveElement
    <3> QED BY <3>1
  <2>4. h[T \ {Pick(T)}] = Balance(f, T \ {Pick(T)})
    BY <1>2, <1>7, <2>2, <2>3
  <2>5. h[T] = f[Pick(T)] + h[T \ {Pick(T)}]
    BY <1>5, <2>2 DEF Folded
  <2> QED BY <1>2, <2>2, <2>4, <2>5
<1>8. \A n \in Nat : n \in N
  <2> HIDE DEF N
  <2> QED BY <1>6, <1>7, SetInduction
<1>9. Cardinality(S) \in Nat /\ S \in SUBSET S
  BY FS_CardinalityType
<1> QED BY <1>5, <1>8, <1>9

\* A sum over nothing is zero.
LEMMA TallyEmpty == ASSUME NEW f PROVE Tally(f, {}) = 0
<1>1. IsFiniteSet({}) /\ \A x \in {} : f[x] \in Int
  BY FS_EmptySet
<1> QED BY <1>1, TallyIsBalance, BalanceRemove

\* A sum of integers is an integer.
LEMMA TallyType ==
    ASSUME NEW S, IsFiniteSet(S), NEW f, \A x \in S : f[x] \in Int
    PROVE  Tally(f, S) \in Int
BY TallyIsBalance, BalanceRemove

\* A sum depends only on the values it ranges over.
LEMMA TallySame ==
    ASSUME NEW S, IsFiniteSet(S), NEW f, \A x \in S : f[x] \in Int, NEW g, \A x \in S : f[x] = g[x]
    PROVE  Tally(f, S) = Tally(g, S)
<1>1. \A x \in S : g[x] \in Int
  OBVIOUS
<1> QED BY <1>1, TallyIsBalance, BalanceSame

\* Any element can be taken out of a sum.
LEMMA TallyRemove ==
    ASSUME NEW S, IsFiniteSet(S), NEW f, \A x \in S : f[x] \in Int, NEW x \in S
    PROVE  Tally(f, S) = f[x] + Tally(f, S \ {x})
<1>1. IsFiniteSet(S \ {x}) /\ \A y \in S \ {x} : f[y] \in Int
  BY FS_RemoveElement
<1> QED BY <1>1, TallyIsBalance, BalanceRemove

\* One element more adds its value.
LEMMA TallyInsert ==
    ASSUME NEW S, IsFiniteSet(S), NEW x, x \notin S, NEW f, \A y \in S \cup {x} : f[y] \in Int
    PROVE  Tally(f, S \cup {x}) = f[x] + Tally(f, S)
<1>1. IsFiniteSet(S \cup {x}) /\ (S \cup {x}) \ {x} = S /\ x \in S \cup {x}
  BY FS_AddElement
<1> QED BY <1>1, TallyRemove

\* The sum of the sums of pairs is the sum of both sums.
LEMMA TallyAdd ==
    ASSUME NEW S, IsFiniteSet(S), NEW f, NEW g, NEW h,
           \A x \in S : f[x] \in Int /\ g[x] \in Int /\ h[x] = f[x] + g[x]
    PROVE  Tally(h, S) = Tally(f, S) + Tally(g, S)
<1> DEFINE G == { T \in SUBSET S : Tally(h, T) = Tally(f, T) + Tally(g, T) }
<1>1. {} \in G
  BY TallyEmpty
<1>2. ASSUME NEW T \in SUBSET S, NEW x \in S \ T, T \in G PROVE T \cup {x} \in G
  <2>1. IsFiniteSet(T)
    BY FS_Subset
  <2>2. \A y \in T \cup {x} : f[y] \in Int /\ g[y] \in Int /\ h[y] \in Int
    OBVIOUS
  <2>3. /\ Tally(f, T \cup {x}) = f[x] + Tally(f, T)
        /\ Tally(g, T \cup {x}) = g[x] + Tally(g, T)
        /\ Tally(h, T \cup {x}) = h[x] + Tally(h, T)
    BY <2>1, <2>2, TallyInsert
  <2>4. Tally(f, T) \in Int /\ Tally(g, T) \in Int /\ Tally(h, T) \in Int
    BY <2>1, <2>2, TallyType
  <2> QED BY <1>2, <2>2, <2>3, <2>4
<1> HIDE DEF G
<1>3. S \in G
  BY <1>1, <1>2, SubsetInduction
<1> QED BY <1>3 DEF G

\* A factor can be taken out of a sum.
LEMMA TallyScale ==
    ASSUME NEW S, IsFiniteSet(S), NEW f, NEW c \in Int, NEW h,
           \A x \in S : f[x] \in Int /\ h[x] = f[x] * c
    PROVE  Tally(h, S) = Tally(f, S) * c
<1> DEFINE G == { T \in SUBSET S : Tally(h, T) = Tally(f, T) * c }
<1>1. {} \in G
  BY TallyEmpty
<1>2. ASSUME NEW T \in SUBSET S, NEW x \in S \ T, T \in G PROVE T \cup {x} \in G
  <2>1. IsFiniteSet(T)
    BY FS_Subset
  <2>2. \A y \in T \cup {x} : f[y] \in Int /\ h[y] \in Int /\ h[y] = f[y] * c
    OBVIOUS
  <2>3. /\ Tally(f, T \cup {x}) = f[x] + Tally(f, T)
        /\ Tally(h, T \cup {x}) = h[x] + Tally(h, T)
    BY <2>1, <2>2, TallyInsert
  <2>4. Tally(f, T) \in Int /\ Tally(h, T) \in Int
    BY <2>1, <2>2, TallyType
  <2>5. PICK a \in Int, b \in Int : a = f[x] /\ b = Tally(f, T)
    BY <2>2, <2>4
  <2>6. (a + b) * c = a * c + b * c
    OBVIOUS
  <2> QED BY <1>2, <2>2, <2>3, <2>4, <2>5, <2>6
<1> HIDE DEF G
<1>3. S \in G
  BY <1>1, <1>2, SubsetInduction
<1> QED BY <1>3 DEF G

\* Each value at most b: their sum is at most b times their number.
LEMMA TallyAtMost ==
    ASSUME NEW S, IsFiniteSet(S), NEW f, NEW b \in Int,
           \A x \in S : f[x] \in Int /\ f[x] <= b
    PROVE  Tally(f, S) <= b * Cardinality(S)
<1> DEFINE G == { T \in SUBSET S : Tally(f, T) <= b * Cardinality(T) }
<1>1. {} \in G
  BY TallyEmpty, FS_EmptySet
<1>2. ASSUME NEW T \in SUBSET S, NEW x \in S \ T, T \in G PROVE T \cup {x} \in G
  <2>1. IsFiniteSet(T)
    BY FS_Subset
  <2>2. Tally(f, T \cup {x}) = f[x] + Tally(f, T)
    BY <2>1, TallyInsert
  <2>3. Tally(f, T) \in Int
    BY <2>1, TallyType
  <2>4. Cardinality(T) \in Nat /\ Cardinality(T \cup {x}) = Cardinality(T) + 1
    BY <2>1, FS_CardinalityType, FS_AddElement
  <2>5. PICK k \in Nat : k = Cardinality(T)
    BY <2>4
  <2>6. b * (k + 1) = b * k + b
    OBVIOUS
  <2> QED BY <1>2, <2>2, <2>3, <2>4, <2>5, <2>6
<1> HIDE DEF G
<1>3. S \in G
  BY <1>1, <1>2, SubsetInduction
<1> QED BY <1>3 DEF G

\* A sum of zeros is zero.
LEMMA TallyZero ==
    ASSUME NEW S, IsFiniteSet(S), NEW f, \A x \in S : f[x] = 0
    PROVE  Tally(f, S) = 0
<1> DEFINE G == { T \in SUBSET S : Tally(f, T) = 0 }
<1>1. {} \in G
  BY TallyEmpty
<1>2. ASSUME NEW T \in SUBSET S, NEW x \in S \ T, T \in G PROVE T \cup {x} \in G
  <2>1. IsFiniteSet(T)
    BY FS_Subset
  <2>2. \A y \in T \cup {x} : f[y] \in Int
    OBVIOUS
  <2>3. Tally(f, T \cup {x}) = f[x] + Tally(f, T)
    BY <2>1, <2>2, TallyInsert
  <2> QED BY <1>2, <2>3
<1> HIDE DEF G
<1>3. S \in G
  BY <1>1, <1>2, SubsetInduction
<1> QED BY <1>3 DEF G

\* The sum over two sets that share no element.
LEMMA TallyUnion ==
    ASSUME NEW S, IsFiniteSet(S), NEW U, IsFiniteSet(U), S \cap U = {}, NEW f, \A x \in S \cup U : f[x] \in Int
    PROVE  Tally(f, S \cup U) = Tally(f, S) + Tally(f, U)
<1> DEFINE G == { T \in SUBSET S : Tally(f, T \cup U) = Tally(f, T) + Tally(f, U) }
<1>1. {} \in G
  <2>1. {} \cup U = U /\ Tally(f, U) \in Int
    BY TallyType
  <2> QED BY <2>1, TallyEmpty
<1>2. ASSUME NEW T \in SUBSET S, NEW x \in S \ T, T \in G PROVE T \cup {x} \in G
  <2>1. IsFiniteSet(T) /\ IsFiniteSet(T \cup U)
    BY FS_Subset, FS_Union
  <2>2. Tally(f, T \cup {x}) = f[x] + Tally(f, T)
    BY <2>1, TallyInsert
  <2>3. x \notin T \cup U /\ (T \cup {x}) \cup U = (T \cup U) \cup {x}
    OBVIOUS
  <2>4. \A y \in (T \cup U) \cup {x} : f[y] \in Int
    OBVIOUS
  <2>5. Tally(f, (T \cup U) \cup {x}) = f[x] + Tally(f, T \cup U)
    BY <2>1, <2>3, <2>4, TallyInsert
  <2>6. Tally(f, T) \in Int /\ Tally(f, U) \in Int /\ f[x] \in Int
    BY <2>1, TallyType
  <2>7. Tally(f, T \cup U) = Tally(f, T) + Tally(f, U)
    BY <1>2
  <2>8. Tally(f, (T \cup {x}) \cup U) = f[x] + Tally(f, T \cup U)
    BY <2>3, <2>5, Zenon
  <2>9. Tally(f, (T \cup {x}) \cup U) = Tally(f, T \cup {x}) + Tally(f, U)
    BY <2>2, <2>6, <2>7, <2>8
  <2> QED BY <2>9
<1> HIDE DEF G
<1>3. S \in G
  BY <1>1, <1>2, SubsetInduction
<1> QED BY <1>3 DEF G
(* Sums over document lines.                                                *)

LEMMA UnitsFinite ==
    ASSUME NEW S, IsFiniteSet(S), NEW f
    PROVE  IsFiniteSet(Units(f, S))
<1>1. IsFiniteSet(1..MaxQty)
  BY FS_Interval, MaxQtyAssumption
<1>2. IsFiniteSet(S \X (1..MaxQty))
  BY <1>1, FS_Product
<1>3. Units(f, S) \subseteq S \X (1..MaxQty)
  BY DEF Units
<1> QED BY <1>2, <1>3, FS_Subset

\* A sum of line quantities is a natural number.
LEMMA SumType ==
    ASSUME NEW S, IsFiniteSet(S), NEW f
    PROVE  Sum(f, S) \in Nat
BY UnitsFinite, FS_CardinalityType DEF Sum

\* A sum depends only on the quantities of the lines it ranges over.
LEMMA SumSame ==
    ASSUME NEW S, NEW f, NEW g, \A l \in S : f[l] = g[l]
    PROVE  Sum(f, S) = Sum(g, S)
<1>1. Units(f, S) = Units(g, S)
  BY DEF Units
<1> QED BY <1>1 DEF Sum

\* Lines without quantity sum to nothing.
LEMMA SumZero ==
    ASSUME NEW S, NEW f, \A l \in S : f[l] = 0
    PROVE  Sum(f, S) = 0
<1>1. Units(f, S) = {}
  BY DEF Units
<1> QED BY <1>1, FS_EmptySet DEF Sum

\* Line by line larger quantities have the larger sum.
LEMMA SumMonotone ==
    ASSUME NEW S, IsFiniteSet(S), NEW f, NEW g,
           \A l \in S : f[l] \in Nat /\ g[l] \in Nat /\ f[l] <= g[l]
    PROVE  Sum(f, S) <= Sum(g, S)
<1>1. Units(f, S) \subseteq Units(g, S)
  BY DEF Units
<1> QED BY <1>1, UnitsFinite, FS_Subset DEF Sum

\* Fewer lines with smaller quantities have the smaller sum.
LEMMA SumSmaller ==
    ASSUME NEW S, IsFiniteSet(S), NEW T \in SUBSET S, NEW f, NEW g,
           \A l \in T : f[l] \in Nat /\ g[l] \in Nat /\ f[l] <= g[l]
    PROVE  Sum(f, T) <= Sum(g, S)
<1>1. Units(f, T) \subseteq Units(g, S)
  BY DEF Units
<1> QED BY <1>1, UnitsFinite, FS_Subset DEF Sum

\* The sum of line by line sums is the sum of the two sums.
LEMMA SumAdd ==
    ASSUME NEW S, IsFiniteSet(S), NEW f, NEW g, NEW h,
           \A l \in S : /\ f[l] \in Nat /\ g[l] \in Nat
                        /\ h[l] = f[l] + g[l] /\ h[l] <= MaxQty
    PROVE  Sum(h, S) = Sum(f, S) + Sum(g, S)
<1> DEFINE upper == { u \in S \X (1..MaxQty) : f[u[1]] < u[2] /\ u[2] <= h[u[1]] }
           lift == [u \in Units(g, S) |-> << u[1], u[2] + f[u[1]] >>]
<1>1. Units(h, S) = Units(f, S) \cup upper
  BY DEF Units
<1>2. Units(f, S) \cap upper = {}
  BY DEF Units
<1>3. upper \subseteq Units(h, S)
  BY <1>1
<1>4. IsFiniteSet(upper)
  BY <1>3, UnitsFinite, FS_Subset
<1>5. Cardinality(Units(h, S)) = Cardinality(Units(f, S)) + Cardinality(upper)
  <2>1. Cardinality(Units(f, S) \cup upper)
          = Cardinality(Units(f, S)) + Cardinality(upper) - Cardinality(Units(f, S) \cap upper)
    BY <1>4, UnitsFinite, FS_Union
  <2>2. Cardinality(Units(f, S) \cap upper) = 0
    BY <1>2, FS_EmptySet
  <2>3. Cardinality(Units(f, S)) \in Nat /\ Cardinality(upper) \in Nat
    BY <1>4, UnitsFinite, FS_CardinalityType
  <2> QED BY <1>1, <2>1, <2>2, <2>3
<1>6. lift \in Bijection(Units(g, S), upper)
  <2>1. ASSUME NEW u \in Units(g, S) PROVE lift[u] \in upper
    <3>1. u[1] \in S /\ u[2] \in 1..MaxQty /\ u[2] <= g[u[1]]
      BY DEF Units
    <3>2. u[2] + f[u[1]] \in 1..MaxQty /\ f[u[1]] < u[2] + f[u[1]] /\ u[2] + f[u[1]] <= h[u[1]]
      BY <3>1, MaxQtyAssumption
    <3> QED BY <3>1, <3>2
  <2>2. ASSUME NEW u \in Units(g, S), NEW v \in Units(g, S), lift[u] = lift[v] PROVE u = v
    <3>1. /\ u[1] \in S /\ u[2] \in Nat /\ u = << u[1], u[2] >>
          /\ v[1] \in S /\ v[2] \in Nat /\ v = << v[1], v[2] >>
      BY DEF Units
    <3>2. u[1] = v[1] /\ u[2] + f[u[1]] = v[2] + f[v[1]]
      BY <2>2
    <3> QED BY <3>1, <3>2
  <2>3. ASSUME NEW w \in upper PROVE \E u \in Units(g, S) : lift[u] = w
    <3> DEFINE u == << w[1], w[2] - f[w[1]] >>
    <3>1. /\ w[1] \in S /\ w[2] \in 1..MaxQty /\ f[w[1]] < w[2] /\ w[2] <= h[w[1]]
          /\ w = << w[1], w[2] >>
      OBVIOUS
    <3>2. w[2] - f[w[1]] \in 1..MaxQty /\ w[2] - f[w[1]] <= g[w[1]]
      BY <3>1, MaxQtyAssumption
    <3>3. u \in Units(g, S)
      BY <3>1, <3>2 DEF Units
    <3>4. lift[u] = << w[1], (w[2] - f[w[1]]) + f[w[1]] >>
      BY <3>3
    <3>5. (w[2] - f[w[1]]) + f[w[1]] = w[2]
      BY <3>1
    <3> QED BY <3>1, <3>3, <3>4, <3>5
  <2>4. lift \in [Units(g, S) -> upper]
    BY <2>1
  <2> HIDE DEF lift, upper
  <2> QED BY <2>2, <2>3, <2>4 DEF Bijection, Injection, IsInjective, Surjection
<1>7. Cardinality(Units(g, S)) = Cardinality(upper)
  BY <1>4, <1>6, UnitsFinite, FS_Bijection DEF ExistsBijection
<1> QED BY <1>5, <1>7 DEF Sum

\* Lines without quantity add nothing.
LEMMA SumSupport ==
    ASSUME NEW S, NEW T, T \subseteq S, NEW f, \A l \in S \ T : f[l] = 0
    PROVE  Sum(f, S) = Sum(f, T)
<1>1. Units(f, S) = Units(f, T)
  BY DEF Units
<1> QED BY <1>1 DEF Sum

\* The sum over two sets of lines that share none.
LEMMA SumUnion ==
    ASSUME NEW S, IsFiniteSet(S), NEW T, IsFiniteSet(T), S \cap T = {}, NEW f
    PROVE  Sum(f, S \cup T) = Sum(f, S) + Sum(f, T)
<1>1. Units(f, S \cup T) = Units(f, S) \cup Units(f, T) /\ Units(f, S) \cap Units(f, T) = {}
  BY DEF Units
<1>2. IsFiniteSet(Units(f, S)) /\ IsFiniteSet(Units(f, T))
  BY UnitsFinite
<1>3. Cardinality(Units(f, S) \cup Units(f, T))
        = Cardinality(Units(f, S)) + Cardinality(Units(f, T)) - Cardinality(Units(f, S) \cap Units(f, T))
  BY <1>2, FS_Union
<1>4. Cardinality(Units(f, S)) \in Nat /\ Cardinality(Units(f, T)) \in Nat
  BY <1>2, FS_CardinalityType
<1>5. Cardinality(Units(f, S) \cap Units(f, T)) = 0
  BY <1>1, FS_EmptySet
<1>6. Sum(f, S \cup T) = Cardinality(Units(f, S)) + Cardinality(Units(f, T)) - 0
  BY <1>1, <1>3, <1>5, Zenon DEF Sum
<1>7. Sum(f, S) = Cardinality(Units(f, S)) /\ Sum(f, T) = Cardinality(Units(f, T))
  BY DEF Sum
<1> QED BY <1>4, <1>6, <1>7

\* The sum over one line is its quantity.
LEMMA SumOne ==
    ASSUME NEW x, NEW f, f[x] \in Qtys
    PROVE  Sum(f, {x}) = f[x]
<1>1. f[x] \in Nat /\ f[x] <= MaxQty
  BY MaxQtyAssumption DEF Qtys
<1>2. Units(f, {x}) = {x} \X (1..f[x])
  BY <1>1, MaxQtyAssumption DEF Units
<1>3. IsFiniteSet(1..f[x]) /\ Cardinality(1..f[x]) = f[x]
  BY <1>1, FS_Interval
<1>4. IsFiniteSet({x}) /\ Cardinality({x}) = 1
  BY FS_Singleton
<1>5. Cardinality({x} \X (1..f[x])) = 1 * f[x]
  <2>1. Cardinality({x} \X (1..f[x])) = Cardinality({x}) * Cardinality(1..f[x])
    BY <1>3, <1>4, FS_Product, Zenon
  <2> QED BY <1>3, <1>4, <2>1, Zenon
<1>6. Sum(f, {x}) = 1 * f[x]
  BY <1>2, <1>5, Zenon DEF Sum
<1> QED BY <1>1, <1>6

\* One line more adds its quantity.
LEMMA SumInsert ==
    ASSUME NEW S, IsFiniteSet(S), NEW x, x \notin S, NEW f, f[x] \in Qtys
    PROVE  Sum(f, S \cup {x}) = Sum(f, S) + f[x]
<1>1. IsFiniteSet({x}) /\ S \cap {x} = {}
  BY FS_Singleton
<1>2. Sum(f, S \cup {x}) = Sum(f, S) + Sum(f, {x})
  BY <1>1, SumUnion, Zenon
<1>3. Sum(f, {x}) = f[x]
  BY SumOne
<1> QED BY <1>2, <1>3, Zenon

\* One document more in a sum.
LEMMA SumJoin ==
    ASSUME NEW S, IsFiniteSet(S), NEW x, x \notin S, NEW f, NEW g,
           \A y \in S : f[y] = g[y], g[x] \in Qtys
    PROVE  Sum(g, S \cup {x}) = Sum(f, S) + g[x]
<1>1. Sum(g, S) = Sum(f, S)
  BY SumSame
<1>2. Sum(g, S \cup {x}) = Sum(g, S) + g[x]
  BY SumInsert
<1> QED BY <1>1, <1>2

\* Only lines without quantity sum to nothing.
LEMMA SumZeroOnly ==
    ASSUME NEW S, IsFiniteSet(S), NEW f, \A l \in S : f[l] \in Qtys, Sum(f, S) = 0
    PROVE  \A l \in S : f[l] = 0
<1>1. Units(f, S) = {}
  BY UnitsFinite, FS_EmptySet DEF Sum
<1>2. SUFFICES ASSUME NEW l \in S, f[l] # 0 PROVE << l, 1 >> \in Units(f, S)
  BY <1>1
<1>3. f[l] \in Nat /\ 1 <= f[l] /\ 1 \in 1..MaxQty
  BY <1>2, MaxQtyAssumption DEF Qtys
<1> QED BY <1>3 DEF Units

----------------------------------------------------------------------------
(* Rows in order, as the models sort them.                                  *)

\* What a strict order R ranks: any two of S, one way round.
Ranks(R, S) ==
    /\ \A a, b \in S : a # b => << a, b >> \in R \/ << b, a >> \in R
    /\ \A a, b, c \in S : << a, b >> \in R /\ << b, c >> \in R => << a, c >> \in R

\* Of finitely many that are ranked, one comes before all others.
LEMMA FirstRanked ==
    ASSUME NEW S, IsFiniteSet(S), NEW R, Ranks(R, S), S # {}
    PROVE  \E m \in S : \A a \in S \ {m} : << m, a >> \in R
<1> DEFINE G == { T \in SUBSET S : T = {} \/ \E m \in T : \A a \in T \ {m} : << m, a >> \in R }
<1>1. {} \in G
  OBVIOUS
<1>2. ASSUME NEW T \in SUBSET S, NEW x \in S \ T, T \in G PROVE T \cup {x} \in G
  <2>1. CASE T = {}
    <3>1. \A a \in (T \cup {x}) \ {x} : << x, a >> \in R
      BY <2>1
    <3> QED BY <3>1
  <2>2. CASE T # {}
    <3>1. PICK m \in T : \A a \in T \ {m} : << m, a >> \in R
      BY <1>2, <2>2
    <3>2. CASE << m, x >> \in R
      <4>1. \A a \in (T \cup {x}) \ {m} : << m, a >> \in R
        BY <3>1, <3>2
      <4> QED BY <4>1
    <3>3. CASE << x, m >> \in R
      <4>1. \A a \in (T \cup {x}) \ {x} : << x, a >> \in R
        BY <3>1, <3>3 DEF Ranks
      <4> QED BY <4>1
    <3> QED BY <3>2, <3>3 DEF Ranks
  <2> QED BY <2>1, <2>2
<1>3. S \in G
  <2> HIDE DEF G
  <2> QED BY <1>1, <1>2, SubsetInduction
<1> QED BY <1>3

\* Finitely many that are ranked stand in a row, each before those behind it.
LEMMA RowOfRanked ==
    ASSUME NEW S, IsFiniteSet(S), NEW R, Ranks(R, S)
    PROVE  \E s \in [1..Cardinality(S) -> S] : \A i, j \in 1..Cardinality(S) : i < j => << s[i], s[j] >> \in R
<1> DEFINE Row(T, s) == /\ s \in [1..Cardinality(T) -> T]
                        /\ \A i, j \in 1..Cardinality(T) : i < j => << s[i], s[j] >> \in R
           N == { n \in Nat : \A T \in SUBSET S : Cardinality(T) = n => \E s : Row(T, s) }
<1>1. 0 \in N
  <2>1. ASSUME NEW T \in SUBSET S, Cardinality(T) = 0 PROVE \E s : Row(T, s)
    <3>1. 1..0 = {}
      OBVIOUS
    <3>2. Row(T, [i \in 1..Cardinality(T) |-> CHOOSE t \in T : TRUE])
      BY <2>1, <3>1
    <3> QED BY <3>2
  <2> QED BY <2>1
<1>2. ASSUME NEW n \in Nat, n \in N PROVE n + 1 \in N
  <2>1. ASSUME NEW T \in SUBSET S, Cardinality(T) = n + 1 PROVE \E s : Row(T, s)
    <3>1. IsFiniteSet(T) /\ T # {}
      BY <2>1, FS_Subset, FS_EmptySet
    <3>2. PICK m \in T : \A a \in T \ {m} : << m, a >> \in R
      <4>1. Ranks(R, T)
        BY DEF Ranks
      <4> QED BY <3>1, <4>1, FirstRanked
    <3>3. T \ {m} \in SUBSET S /\ Cardinality(T \ {m}) = n
      <4>1. Cardinality(T \ {m}) = Cardinality(T) - 1
        BY <3>1, FS_RemoveElement
      <4> QED BY <2>1, <4>1
    <3>4. PICK s : Row(T \ {m}, s)
      BY <1>2, <3>3
    <3> DEFINE r == [i \in 1..(n + 1) |-> IF i = 1 THEN m ELSE s[i - 1]]
    <3>5. s \in [1..n -> T \ {m}] /\ \A i, j \in 1..n : i < j => << s[i], s[j] >> \in R
      BY <3>3, <3>4
    <3>6. \A i \in 1..(n + 1) : i # 1 => i - 1 \in 1..n
      OBVIOUS
    <3>7. r \in [1..(n + 1) -> T]
      BY <3>5, <3>6
    <3>8. ASSUME NEW i \in 1..(n + 1), NEW j \in 1..(n + 1), i < j PROVE << r[i], r[j] >> \in R
      <4>1. j # 1 /\ j - 1 \in 1..n /\ r[j] = s[j - 1] /\ s[j - 1] \in T \ {m}
        BY <3>5, <3>6, <3>8
      <4>2. CASE i = 1
        BY <3>2, <4>1, <4>2
      <4>3. CASE i # 1
        <5>1. i - 1 \in 1..n /\ i - 1 < j - 1 /\ r[i] = s[i - 1]
          BY <3>6, <3>8, <4>3
        <5> QED BY <3>5, <4>1, <5>1
      <4> QED BY <4>2, <4>3
    <3> HIDE DEF r
    <3>9. Row(T, r)
      BY <2>1, <3>7, <3>8
    <3> QED BY <3>9
  <2> QED BY <2>1
<1>3. \A n \in Nat : n \in N
  <2> HIDE DEF N
  <2> QED BY <1>1, <1>2, SetInduction
<1>4. Cardinality(S) \in Nat
  BY FS_CardinalityType
<1> QED BY <1>3, <1>4
\* A row of distinct elements that is as long as there are elements has them all.
LEMMA RowsCover ==
    ASSUME NEW T, IsFiniteSet(T), NEW s \in [1..Cardinality(T) -> T],
           \A i, j \in 1..Cardinality(T) : i < j => s[i] # s[j]
    PROVE  \A t \in T : \E i \in 1..Cardinality(T) : s[i] = t
<1>1. Cardinality(T) \in Nat
  BY FS_CardinalityType
<1>2. s \in Injection(1..Cardinality(T), T)
  <2>1. \A i, j \in 1..Cardinality(T) : i # j => i < j \/ j < i
    BY <1>1
  <2>2. \A i, j \in 1..Cardinality(T) : s[i] = s[j] => i = j
    BY <2>1
  <2> QED BY <2>2 DEF Injection, IsInjective
<1>3. Cardinality(1..Cardinality(T)) = Cardinality(T)
  BY <1>1, FS_Interval
<1>4. s \in Surjection(1..Cardinality(T), T)
  BY <1>2, <1>3, FS_Injection
<1> QED BY <1>4 DEF Surjection

----------------------------------------------------------------------------
(* The stock engine.                                                       *)

\* Division with remainder, as the rounding uses it.
LEMMA DivisionWithRemainder ==
    ASSUME NEW a \in Int, NEW b \in Nat \ {0}
    PROVE  /\ a \div b \in Int
           /\ a % b \in 0..(b - 1)
           /\ a = b * (a \div b) + (a % b)
OBVIOUS

\* round_dp: the quotient is an integer and at most half a unit away from the
\* exact one.
LEMMA RoundingError ==
    ASSUME NEW a \in Int, NEW b \in Nat \ {0}
    PROVE  /\ RoundedQuotient(a, b) \in Int
           /\ 2 * (b * RoundedQuotient(a, b) - a) <= b
           /\ 2 * (a - b * RoundedQuotient(a, b)) <= b
<1> DEFINE q == a \div b
           r == a % b
<1>1. q \in Int /\ r \in 0..(b - 1) /\ a = b * q + r
  BY DivisionWithRemainder
<1>2. RoundedQuotient(a, b) = IF 2 * r > b \/ (2 * r = b /\ q % 2 = 1) THEN q + 1 ELSE q
  BY DEF RoundedQuotient
<1> HIDE DEF q, r
<1>3. CASE 2 * r > b \/ (2 * r = b /\ q % 2 = 1)
  <2>1. RoundedQuotient(a, b) = q + 1
    BY <1>2, <1>3
  <2>2. b * (q + 1) = b * q + b
    BY <1>1
  <2>3. b * (q + 1) - a = b - r /\ 2 * r >= b
    <3>1. b * q \in Int
      BY <1>1
    <3> QED BY <1>1, <1>3, <2>2, <3>1
  <2> QED BY <1>1, <2>1, <2>2, <2>3
<1>4. CASE ~(2 * r > b \/ (2 * r = b /\ q % 2 = 1))
  <2>1. RoundedQuotient(a, b) = q
    BY <1>2, <1>4
  <2>2. b * q - a = 0 - r /\ 2 * r <= b
    <3>1. b * q \in Int
      BY <1>1
    <3> QED BY <1>1, <1>4, <3>1
  <2> QED BY <1>1, <2>1, <2>2
<1> QED BY <1>3, <1>4

LEMMA MoneyType == ASSUME NEW costs \in Int PROVE round_money(costs) \in Int
BY RoundingError, CostPerCentAssumption DEF round_money, CostPerCentAssumption

LEMMA AverageType == ASSUME NEW l \in Level PROVE level_average(l) \in Int
<1>1. CASE l.on_hand = 0
  BY <1>1 DEF level_average
<1>2. CASE l.on_hand # 0
  <2>1. l.value * CostPerCent \in Int /\ l.on_hand \in Nat \ {0}
    BY <1>2, CostPerCentAssumption DEF Level, CostPerCentAssumption
  <2> QED BY <1>2, <2>1, RoundingError DEF level_average
<1> QED BY <1>1, <1>2

----------------------------------------------------------------------------

\* StockEngine::apply, inbound: a receipt keeps a level sound.
THEOREM ReceiptKeepsSound ==
    ASSUME NEW l \in Level, SoundLevel(l), NEW qty \in Int, NEW unit_cost \in Int,
           CanReceive(l, qty, unit_cost)
    PROVE  Received(l, qty, unit_cost) \in Level /\ SoundLevel(Received(l, qty, unit_cost))
<1>1. round_money(qty * unit_cost) \in Int
  BY MoneyType
<1> DEFINE worth == round_money(qty * unit_cost)
           after == Received(l, qty, unit_cost)
<1>2. after = [l EXCEPT !.on_hand = @ + qty, !.value = @ + worth]
  BY DEF Received
<1>3. worth \in Int
  BY <1>1
<1> HIDE DEF worth, after
<1>4. after.on_hand = l.on_hand + qty /\ after.reserved = l.reserved
      /\ after.on_order = l.on_order /\ after.value = l.value + worth
  BY <1>2 DEF Level
<1>5. l.on_hand + qty \in Nat /\ l.value + worth \in Int
  BY <1>3 DEF CanReceive, Level
<1>6. after \in Level
  BY <1>2, <1>5 DEF Level
<1>7. SoundLevel(after)
  BY <1>4, <1>5 DEF CanReceive, SoundLevel, Level
<1> QED BY <1>6, <1>7 DEF after

\* StockEngine::apply, outbound: an issue that passes the check of free stock
\* leaves no level negative, takes no stock that others hold, and leaves no
\* value on a level it empties, however the average was rounded.
THEOREM IssueKeepsSound ==
    ASSUME NEW l \in Level, SoundLevel(l), NEW qty \in Int, NEW covered \in Int,
           CanIssue(l, qty, covered)
    PROVE  Issued(l, qty, covered) \in Level /\ SoundLevel(Issued(l, qty, covered))
<1>1. IssueValue(l, qty) \in Int
  <2>1. CASE l.on_hand = qty
    BY <2>1 DEF IssueValue, Level
  <2>2. CASE l.on_hand # qty
    <3>1. qty * level_average(l) \in Int
      BY AverageType
    <3> QED BY <2>2, <3>1, MoneyType DEF IssueValue
  <2> QED BY <2>1, <2>2
<1>2. l.on_hand = qty => IssueValue(l, qty) = l.value
  BY DEF IssueValue
<1> DEFINE cost == IssueValue(l, qty)
           after == Issued(l, qty, covered)
<1>3. after = [l EXCEPT !.on_hand = @ - qty, !.value = @ - cost, !.reserved = @ - covered]
  BY DEF Issued
<1>4. cost \in Int /\ (l.on_hand = qty => cost = l.value)
  BY <1>1, <1>2
<1> HIDE DEF cost, after
<1>5. after \in Level
  <2>1. /\ l.on_hand - qty \in Nat /\ l.value - cost \in Int
        /\ l.reserved - covered \in Nat
    BY <1>4 DEF CanIssue, SoundLevel, Level
  <2> QED BY <1>3, <2>1 DEF Level
<1>6. SoundLevel(after)
  BY <1>3, <1>4 DEF CanIssue, SoundLevel, Level
<1> QED BY <1>5, <1>6 DEF after

\* reserve_up_to grants free stock only, never more than was asked for.
THEOREM ReserveKeepsSound ==
    ASSUME NEW l \in Level, SoundLevel(l), NEW want \in Int
    PROVE  /\ reserve_up_to(l, want) \in Level /\ SoundLevel(reserve_up_to(l, want))
           /\ Grant(l, want) \in Nat
           /\ Grant(l, want) > 0 => Grant(l, want) <= want
<1>1. Grant(l, want) \in Nat /\ Grant(l, want) <= l.on_hand - l.reserved
  BY DEF Grant, Least, Greatest, SoundLevel, Level
<1>2. Grant(l, want) > 0 => Grant(l, want) <= want
  BY DEF Grant, Least, Greatest, SoundLevel, Level
<1> QED BY <1>1, <1>2 DEF reserve_up_to, SoundLevel, Level

\* release_reserved and adjust_on_order stop at zero.
THEOREM ReleaseKeepsSound ==
    ASSUME NEW l \in Level, SoundLevel(l), NEW qty \in Int
    PROVE  /\ release_reserved(l, qty) \in Level /\ SoundLevel(release_reserved(l, qty))
           /\ adjust_on_order(l, qty) \in Level /\ SoundLevel(adjust_on_order(l, qty))
BY DEF release_reserved, adjust_on_order, Least, Greatest, SoundLevel, Level

=============================================================================
