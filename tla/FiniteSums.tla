----------------------------- MODULE FiniteSums -----------------------------
(***************************************************************************)
(* Facts that the other proof modules share: induction over the natural    *)
(* numbers and over finite sets, and what SumFunction of the community     *)
(* modules computes.                                                       *)
(*                                                                         *)
(* Induction is stated with sets in place of predicates: the set holds the *)
(* numbers, or the subsets, for which the claim is true.  It comes from    *)
(* the well-founded ordering of finite sets (FS_StrictSubsetOrdering...).  *)
(***************************************************************************)
EXTENDS Integers, Functions, FiniteSetTheorems, WellFoundedInduction, TLAPS

-----------------------------------------------------------------------------
(* Induction                                                               *)

\* Every set of natural numbers that has an element has a least one.
LEMMA LeastNat ==
    ASSUME NEW S \in SUBSET Nat, NEW n \in S
    PROVE  \E m \in S : \A k \in S : m <= k
<1> DEFINE T == {0 .. k : k \in S}
<1>1. T \subseteq FiniteSubsetsOf(Nat)
  <2>1. ASSUME NEW k \in S
        PROVE  0 .. k \in SUBSET Nat /\ IsFiniteSet(0 .. k)
    <3>1. 0 \in Int /\ k \in Int
        OBVIOUS
    <3>2. IsFiniteSet(0 .. k)
        BY <3>1, FS_Interval
    <3> QED BY <3>2
  <2> QED BY <2>1 DEF FiniteSubsetsOf
<1>2. T # {}
    OBVIOUS
<1>3. PICK x \in T : \A y \in T : ~(<<y, x>> \in StrictSubsetOrdering(Nat))
    BY <1>1, <1>2, WFMin, FS_StrictSubsetOrderingWellFounded
<1>4. PICK m \in S : x = 0 .. m
    OBVIOUS
<1>5. ASSUME NEW k \in S, k < m PROVE FALSE
  <2>1. 0 .. k \in T
      OBVIOUS
  <2>2. 0 .. k \subseteq 0 .. m /\ 0 .. k # 0 .. m
    <3>1. m \in 0 .. m /\ m \notin 0 .. k
        BY <1>5
    <3> QED BY <3>1, <1>5
  <2>3. <<0 .. k, 0 .. m>> \in StrictSubsetOrdering(Nat)
      BY <2>2 DEF StrictSubsetOrdering
  <2> QED BY <1>3, <1>4, <2>1, <2>3
<1> QED BY <1>5

\* Induction along 0 .. m, for a set that holds the numbers with the property.
LEMMA SetInduction ==
    ASSUME NEW m \in Nat, NEW S, 0 \in S,
           \A i \in 0 .. m - 1 : i \in S => i + 1 \in S
    PROVE  \A i \in 0 .. m : i \in S
<1> DEFINE T == {i \in 0 .. m : i \notin S}
<1> SUFFICES ASSUME NEW i \in 0 .. m, i \notin S PROVE FALSE
    OBVIOUS
<1>1. T \in SUBSET Nat /\ i \in T
    OBVIOUS
<1>2. PICK j \in T : \A k \in T : j <= k
    BY <1>1, LeastNat
<1>3. j # 0 /\ j - 1 \in 0 .. m - 1 /\ (j - 1) + 1 = j
    OBVIOUS
<1>4. j - 1 \in S
    BY <1>2, <1>3
<1>5. (j - 1) + 1 \in S
    BY <1>3, <1>4
<1> QED BY <1>3, <1>5

\* The least j in 1 .. m + 1 that is beyond m or outside S splits 1 .. m into a
\* part inside S and the rest.
LEMMA FirstOutside ==
    ASSUME NEW m \in Nat, NEW S
    PROVE  \E k \in 0 .. m : /\ \A i \in 1 .. k : i \in S
                             /\ k < m => k + 1 \notin S
<1> DEFINE T == {j \in 1 .. m + 1 : j = m + 1 \/ j \notin S}
<1>1. T \in SUBSET Nat /\ m + 1 \in T
    OBVIOUS
<1>2. PICK j \in T : \A i \in T : j <= i
    BY <1>1, LeastNat
<1>3. j - 1 \in 0 .. m /\ (j - 1 < m => j \notin S)
    OBVIOUS
<1>4. \A i \in 1 .. j - 1 : i \in S
    BY <1>2, <1>3
<1>5. (j - 1) + 1 = j
    BY <1>3
<1> QED BY <1>3, <1>4, <1>5

\* A set that holds {} and, with a subset of the finite set S, every subset with
\* one more element, holds all subsets of S.
LEMMA FiniteInduction ==
    ASSUME NEW S, IsFiniteSet(S), NEW P, {} \in P,
           \A T \in SUBSET S : \A x \in S \ T : T \in P => T \cup {x} \in P
    PROVE  \A T \in SUBSET S : T \in P
<1> DEFINE Bad == {T \in SUBSET S : T \notin P}
<1> SUFFICES ASSUME Bad # {} PROVE FALSE
    OBVIOUS
<1>1. Bad \subseteq FiniteSubsetsOf(S)
    BY FS_FiniteSubsetsOfFinite
<1>2. PICK T \in Bad : \A U \in Bad : ~(<<U, T>> \in StrictSubsetOrdering(S))
    BY <1>1, WFMin, FS_StrictSubsetOrderingWellFounded
<1>3. PICK x : x \in T
    BY <1>2
<1>4. T \ {x} \in SUBSET S /\ x \in S \ (T \ {x}) /\ (T \ {x}) \cup {x} = T
    BY <1>3
<1>5. T \ {x} \notin P
    BY <1>2, <1>4
<1>6. <<T \ {x}, T>> \in StrictSubsetOrdering(S)
  <2>1. T \ {x} # T /\ T \ {x} \subseteq T /\ T \in SUBSET S
      BY <1>3
  <2> QED BY <1>4, <2>1 DEF StrictSubsetOrdering
<1> QED BY <1>2, <1>4, <1>5, <1>6

-----------------------------------------------------------------------------
(* Sums                                                                    *)

\* f[x] cells for every x of T: their number is the sum.
Cells(f, T) == UNION {{x} \X (1 .. f[x]) : x \in T}

\* One more index adds its own cells.
LEMMA CellsInsert ==
    ASSUME NEW f, NEW T, NEW x, x \notin T, f[x] \in Nat, IsFiniteSet(Cells(f, T))
    PROVE  /\ IsFiniteSet(Cells(f, T \cup {x}))
           /\ Cardinality(Cells(f, T \cup {x})) = Cardinality(Cells(f, T)) + f[x]
<1> DEFINE A == Cells(f, T)
           B == {x} \X (1 .. f[x])
<1>1. Cells(f, T \cup {x}) = A \cup B
    BY DEF Cells
<1>2. A \cap B = {}
    BY DEF Cells
<1>3. IsFiniteSet(B) /\ Cardinality(B) = f[x]
  <2>1. 1 \in Int /\ f[x] \in Int
      OBVIOUS
  <2>2. IsFiniteSet(1 .. f[x])
        /\ Cardinality(1 .. f[x]) = IF 1 > f[x] THEN 0 ELSE f[x] - 1 + 1
      BY <2>1, FS_Interval
  <2>3. IsFiniteSet({x}) /\ Cardinality({x}) = 1
      BY FS_Singleton
  <2>4. IsFiniteSet(B) /\ Cardinality(B) = 1 * Cardinality(1 .. f[x])
      BY <2>2, <2>3, FS_Product
  <2> QED BY <2>2, <2>4
<1>4. IsFiniteSet(A \cup B)
      /\ Cardinality(A \cup B) = Cardinality(A) + Cardinality(B)
                                   - Cardinality(A \cap B)
    BY <1>3, FS_Union
<1>5. Cardinality(A \cap B) = 0 /\ Cardinality(A) \in Nat
    BY <1>2, FS_EmptySet, FS_CardinalityType
<1> HIDE DEF A, B
<1>6. Cardinality(A \cup B) = Cardinality(A) + f[x]
    BY <1>3, <1>4, <1>5
<1> QED BY <1>1, <1>4, <1>6 DEF A

\* Finitely many finite columns.
LEMMA CellsFinite ==
    ASSUME NEW f, NEW S, IsFiniteSet(S), \A x \in S : f[x] \in Nat
    PROVE  \A T \in SUBSET S :
              IsFiniteSet(Cells(f, T)) /\ Cardinality(Cells(f, T)) \in Nat
<1> DEFINE P == {T \in SUBSET S : IsFiniteSet(Cells(f, T))}
<1>1. {} \in P
  <2>1. Cells(f, {}) = {}
      BY DEF Cells
  <2> QED BY <2>1, FS_EmptySet
<1>2. ASSUME NEW T \in SUBSET S, NEW x \in S \ T, T \in P PROVE T \cup {x} \in P
  <2>1. IsFiniteSet(Cells(f, T \cup {x}))
      BY <1>2, CellsInsert
  <2> QED BY <2>1
<1>3. \A T \in SUBSET S : T \in P
  <2> HIDE DEF P
  <2> QED BY <1>1, <1>2, FiniteInduction
<1> QED BY <1>3, FS_CardinalityType

\* SumFunctionOnSet is a recursive function on the subsets.  The number of cells
\* solves its equation, so a solution exists, and there is only one.
LEMMA SumIsCells ==
    ASSUME NEW f, NEW S, IsFiniteSet(S), \A x \in S : f[x] \in Nat
    PROVE  SumFunctionOnSet(f, S) = Cardinality(Cells(f, S))
<1> DEFINE pick(s) == CHOOSE x \in s : TRUE
           Solves(g) == g = [s \in SUBSET S |->
                               IF s = {} THEN 0
                               ELSE f[pick(s)] + g[s \ {pick(s)}]]
           n == [s \in SUBSET S |-> Cardinality(Cells(f, s))]
           iter == CHOOSE g : Solves(g)
<1>1. SumFunctionOnSet(f, S) = iter[S]
    BY DEF SumFunctionOnSet, FoldFunctionOnSet, MapThenFoldSet
<1>2. \A s \in SUBSET S : n[s] \in Nat
    BY CellsFinite
<1>3. n[{}] = 0
  <2>1. Cells(f, {}) = {}
      BY DEF Cells
  <2> QED BY <2>1, FS_EmptySet
<1>4. ASSUME NEW s \in SUBSET S, s # {}
      PROVE  /\ s \ {pick(s)} \in SUBSET S /\ pick(s) \in s
             /\ n[s] = f[pick(s)] + n[s \ {pick(s)}]
  <2>1. pick(s) \in s
      BY <1>4
  <2> HIDE DEF pick
  <2>2. s \ {pick(s)} \in SUBSET S /\ (s \ {pick(s)}) \cup {pick(s)} = s
      BY <2>1
  <2>3. IsFiniteSet(Cells(f, s \ {pick(s)})) /\ f[pick(s)] \in Nat
      BY <2>1, <2>2, CellsFinite
  <2>4. pick(s) \notin s \ {pick(s)}
      OBVIOUS
  <2>5. Cardinality(Cells(f, (s \ {pick(s)}) \cup {pick(s)}))
          = Cardinality(Cells(f, s \ {pick(s)})) + f[pick(s)]
      BY <2>3, <2>4, CellsInsert
  <2>6. n[s \ {pick(s)}] \in Nat
      BY <1>2, <2>2
  <2>7. n[s] = n[s \ {pick(s)}] + f[pick(s)]
      BY <2>2, <2>5
  <2> HIDE DEF n
  <2> QED BY <2>1, <2>2, <2>3, <2>6, <2>7
<1> HIDE DEF pick
<1>5. Solves(n)
  <2> DEFINE h == [s \in SUBSET S |-> IF s = {} THEN 0
                                      ELSE f[pick(s)] + n[s \ {pick(s)}]]
  <2>1. \A s \in SUBSET S : n[s] = h[s]
      BY <1>3, <1>4
  <2>2. n = h
      BY <2>1
  <2> QED BY <2>2
<1> HIDE DEF Solves
<1>6. Solves(iter)
    BY <1>5
<1> HIDE DEF iter
<1>7. /\ iter[{}] = 0
      /\ \A s \in SUBSET S :
            s # {} => iter[s] = f[pick(s)] + iter[s \ {pick(s)}]
    BY <1>6 DEF Solves
<1> DEFINE Bad == {s \in SUBSET S : iter[s] # n[s]}
<1>8. Bad = {}
  <2> SUFFICES ASSUME Bad # {} PROVE FALSE
      OBVIOUS
  <2>1. Bad \subseteq FiniteSubsetsOf(S)
      BY FS_FiniteSubsetsOfFinite
  <2>2. PICK s \in Bad : \A u \in Bad : ~(<<u, s>> \in StrictSubsetOrdering(S))
      BY <2>1, WFMin, FS_StrictSubsetOrderingWellFounded
  <2>3. s \in SUBSET S /\ s # {} /\ iter[s] # n[s]
      BY <1>3, <1>7, <2>2
  <2> HIDE DEF n
  <2>4. s \ {pick(s)} \notin Bad
    <3>1. <<s \ {pick(s)}, s>> \in StrictSubsetOrdering(S)
        BY <1>4, <2>3 DEF StrictSubsetOrdering
    <3> QED BY <2>2, <3>1
  <2>5. iter[s \ {pick(s)}] = n[s \ {pick(s)}]
      BY <1>4, <2>3, <2>4
  <2> QED BY <1>4, <1>7, <2>3, <2>5
<1>9. iter[S] = n[S]
    BY <1>8
<1> QED BY <1>1, <1>9

\* The empty sum, one more summand, and a sum of natural numbers.
LEMMA SumInsert ==
    ASSUME NEW f, NEW S, IsFiniteSet(S), \A x \in S : f[x] \in Nat
    PROVE  /\ SumFunctionOnSet(f, {}) = 0
           /\ SumFunctionOnSet(f, S) \in Nat
           /\ \A x \in S : SumFunctionOnSet(f, S)
                             = SumFunctionOnSet(f, S \ {x}) + f[x]
<1>1. SumFunctionOnSet(f, {}) = 0
  <2>1. Cells(f, {}) = {} /\ IsFiniteSet({}) /\ Cardinality({}) = 0
      BY FS_EmptySet DEF Cells
  <2>2. SumFunctionOnSet(f, {}) = Cardinality(Cells(f, {}))
      BY <2>1, SumIsCells
  <2> QED BY <2>1, <2>2
<1>2. SumFunctionOnSet(f, S) \in Nat
    BY SumIsCells, CellsFinite
<1>3. ASSUME NEW x \in S
      PROVE  SumFunctionOnSet(f, S) = SumFunctionOnSet(f, S \ {x}) + f[x]
  <2> DEFINE T == S \ {x}
  <2>1. IsFiniteSet(T) /\ x \notin T /\ T \cup {x} = S /\ T \in SUBSET S
      BY FS_RemoveElement
  <2>2. SumFunctionOnSet(f, T) = Cardinality(Cells(f, T))
      BY <2>1, SumIsCells
  <2>3. SumFunctionOnSet(f, S) = Cardinality(Cells(f, S))
      BY SumIsCells
  <2>4. IsFiniteSet(Cells(f, T)) /\ f[x] \in Nat
      BY <2>1, CellsFinite
  <2> HIDE DEF T
  <2>5. Cardinality(Cells(f, T \cup {x})) = Cardinality(Cells(f, T)) + f[x]
      BY <2>1, <2>4, CellsInsert
  <2>6. SumFunctionOnSet(f, S) = SumFunctionOnSet(f, T) + f[x]
      BY <2>1, <2>2, <2>3, <2>5
  <2> QED BY <2>6 DEF T
<1> QED BY <1>1, <1>2, <1>3

\* The sum depends on the summands only.
LEMMA SumSame ==
    ASSUME NEW f, NEW g, NEW S, IsFiniteSet(S),
           \A x \in S : f[x] \in Nat /\ g[x] = f[x]
    PROVE  SumFunctionOnSet(g, S) = SumFunctionOnSet(f, S)
<1>1. Cells(g, S) = Cells(f, S)
    BY DEF Cells
<1>2. SumFunctionOnSet(f, S) = Cardinality(Cells(f, S))
    BY SumIsCells
<1>3. SumFunctionOnSet(g, S) = Cardinality(Cells(g, S))
    BY SumIsCells
<1> QED BY <1>1, <1>2, <1>3

\* Nothing sums up to nothing.
LEMMA SumZero ==
    ASSUME NEW f, NEW S, IsFiniteSet(S), \A x \in S : f[x] = 0
    PROVE  SumFunctionOnSet(f, S) = 0
<1>1. Cells(f, S) = {}
    BY DEF Cells
<1>2. \A x \in S : f[x] \in Nat
    OBVIOUS
<1>3. SumFunctionOnSet(f, S) = Cardinality(Cells(f, S))
    BY <1>2, SumIsCells
<1> QED BY <1>1, <1>3, FS_EmptySet

\* One summand changes.
LEMMA SumChange ==
    ASSUME NEW f, NEW g, NEW S, IsFiniteSet(S), NEW x \in S,
           \A y \in S : f[y] \in Nat /\ g[y] \in Nat /\ (y # x => g[y] = f[y])
    PROVE  /\ SumFunctionOnSet(f, S) \in Nat /\ SumFunctionOnSet(g, S) \in Nat
           /\ SumFunctionOnSet(g, S) = SumFunctionOnSet(f, S) - f[x] + g[x]
<1> DEFINE T == S \ {x}
<1>1. IsFiniteSet(T) /\ \A y \in T : f[y] \in Nat /\ g[y] = f[y]
    BY FS_RemoveElement
<1>2. SumFunctionOnSet(g, T) = SumFunctionOnSet(f, T)
  <2> HIDE DEF T
  <2> QED BY <1>1, SumSame
<1>3. /\ SumFunctionOnSet(f, S) \in Nat
      /\ SumFunctionOnSet(f, S) = SumFunctionOnSet(f, T) + f[x]
    BY SumInsert
<1>4. /\ SumFunctionOnSet(g, S) \in Nat
      /\ SumFunctionOnSet(g, S) = SumFunctionOnSet(g, T) + g[x]
    BY SumInsert
<1>5. SumFunctionOnSet(f, T) \in Nat
  <2> HIDE DEF T
  <2> QED BY <1>1, SumInsert
<1> HIDE DEF T
<1> QED BY <1>2, <1>3, <1>4, <1>5

\* No summand exceeds the sum.
LEMMA SumBound ==
    ASSUME NEW f, NEW S, IsFiniteSet(S), \A y \in S : f[y] \in Nat, NEW x \in S
    PROVE  f[x] <= SumFunctionOnSet(f, S)
<1> DEFINE T == S \ {x}
<1>1. IsFiniteSet(T) /\ \A y \in T : f[y] \in Nat
    BY FS_RemoveElement
<1>2. SumFunctionOnSet(f, S) = SumFunctionOnSet(f, T) + f[x]
    BY SumInsert
<1> HIDE DEF T
<1>3. SumFunctionOnSet(f, T) \in Nat
    BY <1>1, SumInsert
<1> QED BY <1>2, <1>3

\* Sums are added summand by summand.
LEMMA SumPlus ==
    ASSUME NEW f, NEW g, NEW h, NEW S, IsFiniteSet(S),
           \A x \in S : f[x] \in Nat /\ g[x] \in Nat /\ h[x] = f[x] + g[x]
    PROVE  SumFunctionOnSet(h, S)
             = SumFunctionOnSet(f, S) + SumFunctionOnSet(g, S)
<1> DEFINE P == {T \in SUBSET S : SumFunctionOnSet(h, T)
                      = SumFunctionOnSet(f, T) + SumFunctionOnSet(g, T)}
<1>1. {} \in P
  <2>1. IsFiniteSet({})
      BY FS_EmptySet
  <2>2. /\ SumFunctionOnSet(f, {}) = 0 /\ SumFunctionOnSet(g, {}) = 0
        /\ SumFunctionOnSet(h, {}) = 0
      BY <2>1, SumInsert
  <2> QED BY <2>2
<1>2. ASSUME NEW T \in SUBSET S, NEW x \in S \ T, T \in P PROVE T \cup {x} \in P
  <2> DEFINE U == T \cup {x}
  <2>1. IsFiniteSet(T) /\ IsFiniteSet(U) /\ U \ {x} = T /\ x \in U
      BY FS_Subset, FS_AddElement
  <2>2. \A y \in U : f[y] \in Nat /\ g[y] \in Nat /\ h[y] \in Nat
      OBVIOUS
  <2>3. h[x] = f[x] + g[x] /\ f[x] \in Nat /\ g[x] \in Nat
      OBVIOUS
  <2> HIDE DEF U
  <2>4. SumFunctionOnSet(f, U) = SumFunctionOnSet(f, T) + f[x]
      BY <2>1, <2>2, SumInsert
  <2>5. SumFunctionOnSet(g, U) = SumFunctionOnSet(g, T) + g[x]
      BY <2>1, <2>2, SumInsert
  <2>6. SumFunctionOnSet(h, U) = SumFunctionOnSet(h, T) + h[x]
      BY <2>1, <2>2, SumInsert
  <2>7. SumFunctionOnSet(f, T) \in Nat /\ SumFunctionOnSet(g, T) \in Nat
    <3>1. \A y \in T : f[y] \in Nat /\ g[y] \in Nat
        OBVIOUS
    <3> QED BY <2>1, <3>1, SumInsert
  <2>8. SumFunctionOnSet(h, T) = SumFunctionOnSet(f, T) + SumFunctionOnSet(g, T)
      BY <1>2
  <2>9. SumFunctionOnSet(h, U) = SumFunctionOnSet(f, U) + SumFunctionOnSet(g, U)
      BY <2>3, <2>4, <2>5, <2>6, <2>7, <2>8
  <2> QED BY <2>9 DEF U
<1>3. S \in P
  <2>1. S \in SUBSET S
      OBVIOUS
  <2> HIDE DEF P
  <2> QED BY <1>1, <1>2, <2>1, FiniteInduction
<1> QED BY <1>3

\* The sum along a sequence that grows.
LEMMA SumNext ==
    ASSUME NEW f, NEW k \in Nat, \A j \in 1 .. k + 1 : f[j] \in Nat
    PROVE  /\ SumFunctionOnSet(f, 1 .. k) \in Nat
           /\ SumFunctionOnSet(f, 1 .. k + 1)
                = SumFunctionOnSet(f, 1 .. k) + f[k + 1]
<1> DEFINE A == 1 .. k
           B == 1 .. k + 1
<1>1. IsFiniteSet(A) /\ IsFiniteSet(B)
  <2>1. 1 \in Int /\ k \in Int /\ k + 1 \in Int
      OBVIOUS
  <2> QED BY <2>1, FS_Interval
<1>2. B \ {k + 1} = A /\ k + 1 \in B
    OBVIOUS
<1>3. (\A j \in B : f[j] \in Nat) /\ (\A j \in A : f[j] \in Nat)
    OBVIOUS
<1> HIDE DEF A, B
<1>4. SumFunctionOnSet(f, A) \in Nat
    BY <1>1, <1>3, SumInsert
<1>5. SumFunctionOnSet(f, B) = SumFunctionOnSet(f, B \ {k + 1}) + f[k + 1]
    BY <1>1, <1>2, <1>3, SumInsert
<1> QED BY <1>2, <1>4, <1>5 DEF A, B

\* The sum along a sequence that loses its i-th element.
LEMMA SumRemove ==
    ASSUME NEW f, NEW g, NEW m \in Nat, NEW i \in 1 .. m + 1,
           \A k \in 1 .. m + 1 : f[k] \in Nat,
           \A k \in 1 .. m : g[k] = IF k < i THEN f[k] ELSE f[k + 1]
    PROVE  SumFunctionOnSet(g, 1 .. m) + f[i] = SumFunctionOnSet(f, 1 .. m + 1)
<1> DEFINE fs(k) == SumFunctionOnSet(f, 1 .. k)
           gs(k) == SumFunctionOnSet(g, 1 .. k)
<1>1. \A k \in 1 .. m : g[k] \in Nat
    OBVIOUS
<1>2. fs(0) = 0 /\ gs(0) = 0
  <2>1. 1 .. 0 = {} /\ IsFiniteSet({})
      BY FS_EmptySet
  <2> QED BY <2>1, SumInsert
<1>3. ASSUME NEW k \in 0 .. m PROVE fs(k + 1) = fs(k) + f[k + 1] /\ fs(k) \in Nat
  <2>1. \A j \in 1 .. k + 1 : f[j] \in Nat
      OBVIOUS
  <2> QED BY <2>1, SumNext
<1>4. ASSUME NEW k \in 0 .. m - 1
      PROVE  gs(k + 1) = gs(k) + g[k + 1] /\ gs(k) \in Nat
  <2>1. k \in Nat /\ \A j \in 1 .. k + 1 : g[j] \in Nat
      BY <1>1
  <2> QED BY <2>1, SumNext
<1> HIDE DEF fs, gs
\* Before the gap the sums agree, from it on they differ by f[i].
<1> DEFINE P == {k \in 0 .. m : IF k < i THEN gs(k) = fs(k)
                                         ELSE gs(k) + f[i] = fs(k + 1)}
<1>5. 0 \in P
    BY <1>2
<1>6. ASSUME NEW k \in 0 .. m - 1, k \in P PROVE k + 1 \in P
  <2>1. gs(k + 1) = gs(k) + g[k + 1] /\ gs(k) \in Nat
      BY <1>4
  <2>2. fs(k + 1) = fs(k) + f[k + 1] /\ fs(k) \in Nat /\ f[k + 1] \in Nat
      BY <1>3
  <2>3. fs(k + 1 + 1) = fs(k + 1) + f[k + 1 + 1] /\ fs(k + 1) \in Nat
        /\ f[k + 1 + 1] \in Nat
      BY <1>3
  <2>4. g[k + 1] = IF k + 1 < i THEN f[k + 1] ELSE f[k + 1 + 1]
      OBVIOUS
  <2>5. CASE k + 1 < i
    <3>1. gs(k) = fs(k)
        BY <1>6, <2>5
    <3> QED BY <2>1, <2>2, <2>4, <2>5, <3>1
  <2>6. CASE k + 1 = i
    <3>1. gs(k) = fs(k)
        BY <1>6, <2>6
    <3>2. gs(k + 1) + f[i] = fs(k + 1 + 1)
        BY <2>1, <2>2, <2>3, <2>4, <2>6, <3>1
    <3> QED BY <2>6, <3>2
  <2>7. CASE k >= i
    <3>1. gs(k) + f[i] = fs(k + 1) /\ f[i] \in Nat
        BY <1>6, <2>7
    <3>2. gs(k + 1) + f[i] = fs(k + 1 + 1)
        BY <2>1, <2>3, <2>4, <2>7, <3>1
    <3> QED BY <2>7, <3>2
  <2> QED BY <2>5, <2>6, <2>7
<1>7. m \in P
  <2>1. m \in 0 .. m
      OBVIOUS
  <2> HIDE DEF P
  <2> QED BY <1>5, <1>6, <2>1, SetInduction
<1>8. CASE m < i
  <2>1. i = m + 1 /\ gs(m) = fs(m) /\ fs(m + 1) = fs(m) + f[m + 1]
      BY <1>3, <1>7, <1>8
  <2> QED BY <2>1 DEF fs, gs
<1>9. CASE m >= i
    BY <1>7, <1>9 DEF fs, gs
<1> QED BY <1>8, <1>9
=============================================================================
