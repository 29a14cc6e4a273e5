------------------------------ MODULE EdictsProofs ------------------------------
(***************************************************************************)
(* Machine-checked facts about sums and folds over sets and sequences of   *)
(* any size, and about what a transaction's edicts distribute.             *)
(***************************************************************************)
EXTENDS Edicts, FiniteSetTheorems, SequenceTheorems, TLAPS

-----------------------------------------------------------------------------
(* Induction, stated of sets, so that it can be cited.                     *)
LEMMA LeastOfNat ==
  ASSUME NEW T \in SUBSET Nat, T # {}
  PROVE  \E x \in T : \A y \in T : x <= y
<1> DEFINE R == {ss \in Nat \X Nat : ss[1] < ss[2]}
<1>1. IsWellFoundedOn(R, Nat)
  BY NatLessThanWellFounded DEF OpToRel
<1> HIDE DEF R
<1>2. PICK x \in T : \A y \in T : ~(<<y, x>> \in R)
  BY <1>1, WFMin
<1>3. \A y \in T : ~(y < x)
  BY <1>2 DEF R
<1> QED BY <1>3

LEMMA SetInduction ==
  ASSUME NEW T, 0 \in T, \A n \in Nat : n \in T => n + 1 \in T
  PROVE  Nat \subseteq T
<1> SUFFICES ASSUME Nat \ T # {} PROVE FALSE
  OBVIOUS
<1>1. PICK x \in Nat \ T : \A y \in Nat \ T : x <= y
  BY LeastOfNat
<1>2. x # 0 /\ x - 1 \in Nat /\ ~(x <= x - 1)
  BY <1>1
<1>3. x - 1 \in T
  BY <1>1, <1>2
<1> QED BY <1>1, <1>2, <1>3

(* A set of finite sets that has, with all smaller subsets of one, that    *)
(* one, has them all.                                                      *)
LEMMA SubsetInduction ==
  ASSUME NEW S, IsFiniteSet(S), NEW G,
         \A T \in SUBSET S : (\A x \in T : T \ {x} \in G) => T \in G
  PROVE  S \in G
<1> DEFINE N == {n \in Nat : \A T \in SUBSET S :
                   IsFiniteSet(T) /\ Cardinality(T) = n => T \in G}
<1>1. 0 \in N
  <2>1. \A T \in SUBSET S : IsFiniteSet(T) /\ Cardinality(T) = 0 => T = {}
    BY FS_EmptySet
  <2>2. {} \in G
    OBVIOUS
  <2> QED BY <2>1, <2>2
<1>2. ASSUME NEW n \in Nat, n \in N
      PROVE  n + 1 \in N
  <2> SUFFICES ASSUME NEW T \in SUBSET S, IsFiniteSet(T), Cardinality(T) = n + 1
               PROVE  T \in G
    BY <1>2
  <2>1. ASSUME NEW x \in T
        PROVE  T \ {x} \in G
    <3>0. Cardinality(T \ {x}) = Cardinality(T) - 1 /\ IsFiniteSet(T \ {x})
      BY FS_RemoveElement
    <3>1. IsFiniteSet(T \ {x}) /\ Cardinality(T \ {x}) = n
      BY <3>0
    <3>2. T \ {x} \in SUBSET S
      OBVIOUS
    <3> QED BY <1>2, <3>1, <3>2
  <2> QED BY <2>1
<1> HIDE DEF N
<1>3. Nat \subseteq N
  BY <1>1, <1>2, SetInduction
<1>4. Cardinality(S) \in Nat
  BY FS_CardinalityType
<1> QED BY <1>3, <1>4 DEF N

-----------------------------------------------------------------------------
(* A recursive function over the subsets of a finite set.                  *)
Folds(g, S, base, step, c) ==
  \A s \in SUBSET S : g[s] = IF s = {} THEN base ELSE step[<<s, g[s \ {c[s]}]>>]

LEMMA FoldExists ==
  ASSUME NEW S, IsFiniteSet(S), NEW V, NEW base \in V,
         NEW step \in [(SUBSET S) \X V -> V],
         NEW c, \A s \in SUBSET S : s # {} => c[s] \in s
  PROVE  \E g \in [SUBSET S -> V] : Folds(g, S, base, step, c)
<1> DEFINE Upto(n) == {s \in SUBSET S : Cardinality(s) <= n}
           N == {n \in Nat : \E g \in [Upto(n) -> V] :
                   \A s \in Upto(n) :
                     g[s] = IF s = {} THEN base ELSE step[<<s, g[s \ {c[s]}]>>]}
<1>0. \A s \in SUBSET S : IsFiniteSet(s) /\ Cardinality(s) \in Nat
  BY FS_Subset, FS_CardinalityType
<1>1. \A n \in Nat : \A s \in Upto(n + 1) : s # {} => s \ {c[s]} \in Upto(n)
  <2> SUFFICES ASSUME NEW n \in Nat, NEW s \in Upto(n + 1), s # {}
               PROVE  s \ {c[s]} \in Upto(n)
    OBVIOUS
  <2>1. Cardinality(s \ {c[s]}) = Cardinality(s) - 1
    BY <1>0, FS_RemoveElement
  <2> QED BY <1>0, <2>1
<1>2. 0 \in N
  <2>1. \A s \in Upto(0) : s = {}
    BY <1>0, FS_EmptySet
  <2>2. [s \in Upto(0) |-> base] \in [Upto(0) -> V]
    OBVIOUS
  <2> QED BY <2>1, <2>2
<1>3. ASSUME NEW n \in Nat, n \in N
      PROVE  n + 1 \in N
  <2> DEFINE D == Upto(n)
             E == Upto(n + 1)
  <2>1. PICK g \in [D -> V] :
          \A s \in D : g[s] = IF s = {} THEN base ELSE step[<<s, g[s \ {c[s]}]>>]
    BY <1>3
  <2>2. D \subseteq E /\ E \subseteq SUBSET S
    BY <1>0
  <2>3. \A s \in E : s # {} => s \ {c[s]} \in D
    BY <1>1
  <2>4. \A s \in D : s # {} => s \ {c[s]} \in D
    BY <2>2, <2>3
  <2> DEFINE k == [s \in E |-> IF s = {} THEN base ELSE step[<<s, g[s \ {c[s]}]>>]]
  <2> HIDE DEF D, E
  <2>5. k \in [E -> V]
    <3> SUFFICES ASSUME NEW s \in E
                 PROVE  (IF s = {} THEN base ELSE step[<<s, g[s \ {c[s]}]>>]) \in V
      OBVIOUS
    <3>1. ASSUME s # {}
          PROVE  step[<<s, g[s \ {c[s]}]>>] \in V
      <4>1. s \in SUBSET S
        BY <2>2
      <4>2. s \ {c[s]} \in D
        BY <2>3, <3>1
      <4>3. g[s \ {c[s]}] \in V
        BY <2>1, <4>2
      <4>4. \A a \in SUBSET S : \A v \in V : step[<<a, v>>] \in V
        OBVIOUS
      <4> QED BY <4>1, <4>3, <4>4, Zenon
    <3> QED BY <3>1
  <2>6. \A s \in D : k[s] = g[s]
    BY <2>1, <2>2
  <2>7. \A s \in E : k[s] = IF s = {} THEN base ELSE step[<<s, k[s \ {c[s]}]>>]
    BY <2>3, <2>6
  <2> HIDE DEF k
  <2>8. \E f \in [E -> V] : \A s \in E : f[s] = IF s = {} THEN base ELSE step[<<s, f[s \ {c[s]}]>>]
    BY <2>5, <2>7
  <2>9. n + 1 \in Nat
    OBVIOUS
  <2> HIDE DEF Upto
  <2> QED BY <2>8, <2>9, Zenon DEF E
<1> HIDE DEF N
<1>4. Nat \subseteq N
  BY <1>2, <1>3, SetInduction
<1>5. Cardinality(S) \in N
  BY <1>0, <1>4
<1>6. Upto(Cardinality(S)) = SUBSET S
  BY <1>0, FS_Subset
<1> HIDE DEF Upto
<1> QED BY <1>5, <1>6 DEF N, Folds

-----------------------------------------------------------------------------
(* Sums of natural numbers over a finite set.                              *)
Sums(g, f, S) ==
  \A s \in SUBSET S :
    g[s] = IF s = {} THEN 0
           ELSE f[CHOOSE x \in s : TRUE] + g[s \ {CHOOSE x \in s : TRUE}]

LEMMA SumIsFold ==
  ASSUME NEW S, IsFiniteSet(S), NEW f, \A x \in S : f[x] \in Nat
  PROVE  \E g \in [SUBSET S -> Nat] : Sums(g, f, S) /\ SumFunctionOnSet(f, S) = g[S]
<1> DEFINE c == [s \in SUBSET S |-> CHOOSE x \in s : TRUE]
           step == [a \in (SUBSET S) \X Nat |->
                      IF a[1] = {} THEN 0 ELSE f[CHOOSE x \in a[1] : TRUE] + a[2]]
           Iter(g) == g = [s \in SUBSET S |->
                             IF s = {} THEN 0
                             ELSE f[CHOOSE x \in s : TRUE] + g[s \ {CHOOSE x \in s : TRUE}]]
           iter == CHOOSE g : Iter(g)
<1>1. \A s \in SUBSET S : s # {} => (CHOOSE x \in s : TRUE) \in s
  OBVIOUS
<1>2. \A s \in SUBSET S : s # {} => c[s] \in s
  BY <1>1
<1>3. step \in [(SUBSET S) \X Nat -> Nat]
  BY <1>1
<1>4. 0 \in Nat
  OBVIOUS
<1> HIDE DEF c, step
<1>5. PICK g \in [SUBSET S -> Nat] : Folds(g, S, 0, step, c)
  BY <1>2, <1>3, <1>4, FoldExists
<1>6. \A s \in SUBSET S :
        g[s] = IF s = {} THEN 0
               ELSE f[CHOOSE x \in s : TRUE] + g[s \ {CHOOSE x \in s : TRUE}]
  <2> SUFFICES ASSUME NEW s \in SUBSET S, s # {}
               PROVE  g[s] = f[CHOOSE x \in s : TRUE] + g[s \ {CHOOSE x \in s : TRUE}]
    BY <1>5 DEF Folds
  <2>1. c[s] = CHOOSE x \in s : TRUE
    BY DEF c
  <2>2. g[s] = step[<<s, g[s \ {c[s]}]>>]
    BY <1>5 DEF Folds
  <2>3. g[s \ {c[s]}] \in Nat
    OBVIOUS
  <2>4. \A a \in SUBSET S : \A v \in Nat : a # {} =>
          step[<<a, v>>] = f[CHOOSE x \in a : TRUE] + v
    BY DEF step
  <2> QED BY <2>1, <2>2, <2>3, <2>4
<1>7. Iter(g)
  BY <1>6
<1>8. Iter(iter)
  BY <1>7, Zenon
<1>9. SumFunctionOnSet(f, S) = iter[S]
  BY Zenon DEF SumFunctionOnSet, FoldFunctionOnSet, MapThenFoldSet
<1> HIDE DEF iter
<1>10. iter = [s \in SUBSET S |-> iter[s]]
  BY <1>8
<1>11. \A s \in SUBSET S : iter[s] = g[s]
  <2> DEFINE G == {s \in SUBSET S : iter[s] = g[s]}
  <2>1. ASSUME NEW s \in SUBSET S, \A x \in s : s \ {x} \in G
        PROVE  s \in G
    BY <1>6, <1>8, <2>1
  <2>2. ASSUME NEW s \in SUBSET S PROVE s \in G
    <3>1. IsFiniteSet(s)
      BY FS_Subset
    <3>2. \A T \in SUBSET s : (\A x \in T : T \ {x} \in G) => T \in G
      BY <2>1
    <3> HIDE DEF G
    <3> QED BY <3>1, <3>2, SubsetInduction
  <2> QED BY <2>2
<1> QED BY <1>6, <1>9, <1>11 DEF Sums

LEMMA SumOfNone == \A f : SumFunctionOnSet(f, {}) = 0
<1> SUFFICES ASSUME NEW f
             PROVE  SumFunctionOnSet(f, {}) = 0
  OBVIOUS
<1>1. IsFiniteSet({})
  BY FS_EmptySet
<1>2. PICK g \in [SUBSET {} -> Nat] : Sums(g, f, {}) /\ SumFunctionOnSet(f, {}) = g[{}]
  BY <1>1, SumIsFold
<1> QED BY <1>2 DEF Sums

(* The order of a sum does not matter.                                     *)
LEMMA SumRemove ==
  ASSUME NEW S, IsFiniteSet(S), NEW f, \A x \in S : f[x] \in Nat
  PROVE  /\ SumFunctionOnSet(f, S) \in Nat
         /\ \A x \in S : SumFunctionOnSet(f, S) = f[x] + SumFunctionOnSet(f, S \ {x})
<1> DEFINE c(s) == CHOOSE x \in s : TRUE
<1>0. \A s \in SUBSET S : s # {} => c(s) \in s
  OBVIOUS
<1>1. \A U \in SUBSET S : \E g \in [SUBSET U -> Nat] :
        Sums(g, f, U) /\ SumFunctionOnSet(f, U) = g[U]
  <2> SUFFICES ASSUME NEW U \in SUBSET S
               PROVE  \E g \in [SUBSET U -> Nat] :
                        Sums(g, f, U) /\ SumFunctionOnSet(f, U) = g[U]
    OBVIOUS
  <2>1. IsFiniteSet(U) /\ \A x \in U : f[x] \in Nat
    BY FS_Subset
  <2> QED BY <2>1, SumIsFold
<1>2. \A g, U : Sums(g, f, U) =>
        \A s \in SUBSET U : g[s] = IF s = {} THEN 0 ELSE f[c(s)] + g[s \ {c(s)}]
  BY Zenon DEF Sums
<1> HIDE DEF c
<1>3. PICK g \in [SUBSET S -> Nat] : Sums(g, f, S) /\ SumFunctionOnSet(f, S) = g[S]
  BY <1>1
<1>4. \A s \in SUBSET S : g[s] = IF s = {} THEN 0 ELSE f[c(s)] + g[s \ {c(s)}]
  BY <1>2, <1>3
<1>5. \A U \in SUBSET S : SumFunctionOnSet(f, U) = g[U]
  <2> SUFFICES ASSUME NEW U \in SUBSET S
               PROVE  SumFunctionOnSet(f, U) = g[U]
    OBVIOUS
  <2>1. PICK h \in [SUBSET U -> Nat] :
          Sums(h, f, U) /\ SumFunctionOnSet(f, U) = h[U]
    BY <1>1
  <2>2. \A s \in SUBSET U : h[s] = IF s = {} THEN 0 ELSE f[c(s)] + h[s \ {c(s)}]
    BY <1>2, <2>1
  <2> DEFINE G == {s \in SUBSET U : g[s] = h[s]}
  <2>3. \A T \in SUBSET U : (\A x \in T : T \ {x} \in G) => T \in G
    BY <1>0, <1>4, <2>2
  <2>4. IsFiniteSet(U)
    BY FS_Subset
  <2> HIDE DEF G
  <2>5. U \in G
    BY <2>3, <2>4, SubsetInduction
  <2> QED BY <2>1, <2>5 DEF G
<1>6. \A s \in SUBSET S : \A x \in s : g[s] = f[x] + g[s \ {x}]
  <2> DEFINE G == {s \in SUBSET S : \A x \in s : g[s] = f[x] + g[s \ {x}]}
  <2>1. ASSUME NEW T \in SUBSET S, \A x \in T : T \ {x} \in G, NEW x \in T
        PROVE  g[T] = f[x] + g[T \ {x}]
    <3>1. c(T) \in T /\ g[T] = f[c(T)] + g[T \ {c(T)}]
      BY <1>0, <1>4
    <3>2. CASE x = c(T)
      BY <3>1, <3>2
    <3>3. CASE x # c(T)
      <4>1. x \in T \ {c(T)} /\ c(T) \in T \ {x}
        BY <3>1, <3>3
      <4>2. T \ {c(T)} \in G /\ T \ {x} \in G
        BY <2>1, <3>1
      <4>3. g[T \ {c(T)}] = f[x] + g[(T \ {c(T)}) \ {x}]
        BY <4>1, <4>2
      <4>4. g[T \ {x}] = f[c(T)] + g[(T \ {x}) \ {c(T)}]
        BY <4>1, <4>2
      <4>5. (T \ {c(T)}) \ {x} = (T \ {x}) \ {c(T)}
        OBVIOUS
      <4>6. (T \ {x}) \ {c(T)} \in SUBSET S /\ f[x] \in Nat /\ f[c(T)] \in Nat
        BY <3>1
      <4>7. g[(T \ {x}) \ {c(T)}] \in Nat
        BY <4>6
      <4>8. g[T \ {c(T)}] = f[x] + g[(T \ {x}) \ {c(T)}]
        BY <4>3, <4>5
      <4> HIDE DEF G
      <4>9. \A a, b, i, k, m, n \in Nat :
              k = a + m /\ m = b + n /\ i = a + n => k = b + i
        OBVIOUS
      <4>10. g[T] \in Nat /\ g[T \ {x}] \in Nat /\ g[T \ {c(T)}] \in Nat
        OBVIOUS
      <4> QED BY <3>1, <4>4, <4>6, <4>7, <4>8, <4>9, <4>10
    <3> QED BY <3>2, <3>3
  <2>2. ASSUME NEW s \in SUBSET S PROVE s \in G
    <3>1. IsFiniteSet(s)
      BY FS_Subset
    <3>2. \A T \in SUBSET s : (\A x \in T : T \ {x} \in G) => T \in G
      BY <2>1
    <3> HIDE DEF G
    <3> QED BY <3>1, <3>2, SubsetInduction
  <2> QED BY <2>2
<1> QED BY <1>5, <1>6, <1>3

LEMMA SumAdd ==
  ASSUME NEW S, IsFiniteSet(S), NEW x, x \notin S,
         NEW f, \A y \in S \cup {x} : f[y] \in Nat
  PROVE  SumFunctionOnSet(f, S \cup {x}) = f[x] + SumFunctionOnSet(f, S)
<1>1. IsFiniteSet(S \cup {x})
  BY FS_AddElement
<1>2. (S \cup {x}) \ {x} = S
  OBVIOUS
<1>3. \A y \in S \cup {x} :
        SumFunctionOnSet(f, S \cup {x}) = f[y] + SumFunctionOnSet(f, (S \cup {x}) \ {y})
  BY <1>1, SumRemove
<1> QED BY <1>2, <1>3

(* What holds of the empty set, and of a set whenever it holds of the set  *)
(* without one of its elements, holds of every finite set.                 *)
LEMMA ElementInduction ==
  ASSUME NEW S, IsFiniteSet(S), NEW G, {} \in G,
         \A T \in SUBSET S : \A x \in T : T \ {x} \in G => T \in G
  PROVE  S \in G
<1>1. \A T \in SUBSET S : (\A x \in T : T \ {x} \in G) => T \in G
  OBVIOUS
<1> QED BY <1>1, SubsetInduction

LEMMA SumType ==
  ASSUME NEW S, IsFiniteSet(S), NEW f, \A x \in S : f[x] \in Nat
  PROVE  /\ SumFunctionOnSet(f, S) \in Nat
         /\ \A x \in S : f[x] <= SumFunctionOnSet(f, S)
<1>1. SumFunctionOnSet(f, S) \in Nat
  BY SumRemove
<1>2. ASSUME NEW x \in S
      PROVE  f[x] <= SumFunctionOnSet(f, S)
  <2>1. SumFunctionOnSet(f, S) = f[x] + SumFunctionOnSet(f, S \ {x})
    BY SumRemove
  <2>2. IsFiniteSet(S \ {x}) /\ \A y \in S \ {x} : f[y] \in Nat
    BY FS_RemoveElement
  <2>3. SumFunctionOnSet(f, S \ {x}) \in Nat
    BY <2>2, SumRemove
  <2> QED BY <2>1, <2>3
<1> QED BY <1>1, <1>2

LEMMA SumSame ==
  ASSUME NEW S, IsFiniteSet(S), NEW f, NEW h, \A x \in S : f[x] \in Nat /\ f[x] = h[x]
  PROVE  SumFunctionOnSet(f, S) = SumFunctionOnSet(h, S)
<1> DEFINE G == {s \in SUBSET S : SumFunctionOnSet(f, s) = SumFunctionOnSet(h, s)}
<1>1. {} \in G
  BY SumOfNone
<1>2. ASSUME NEW T \in SUBSET S, NEW x \in T, T \ {x} \in G
      PROVE  T \in G
  <2>1. IsFiniteSet(T) /\ (\A y \in T : f[y] \in Nat) /\ (\A y \in T : h[y] \in Nat)
    BY FS_Subset
  <2>2. SumFunctionOnSet(f, T) = f[x] + SumFunctionOnSet(f, T \ {x})
    BY <2>1, SumRemove
  <2>3. SumFunctionOnSet(h, T) = h[x] + SumFunctionOnSet(h, T \ {x})
    BY <2>1, SumRemove
  <2> QED BY <1>2, <2>2, <2>3
<1> HIDE DEF G
<1>3. S \in G
  BY <1>1, <1>2, ElementInduction
<1> QED BY <1>3 DEF G

LEMMA SumZero ==
  ASSUME NEW S, IsFiniteSet(S), NEW f, \A x \in S : f[x] = 0
  PROVE  SumFunctionOnSet(f, S) = 0
<1> DEFINE G == {s \in SUBSET S : SumFunctionOnSet(f, s) = 0}
<1>1. {} \in G
  BY SumOfNone
<1>2. ASSUME NEW T \in SUBSET S, NEW x \in T, T \ {x} \in G
      PROVE  T \in G
  <2>1. IsFiniteSet(T) /\ (\A y \in T : f[y] \in Nat)
    BY FS_Subset
  <2>2. SumFunctionOnSet(f, T) = f[x] + SumFunctionOnSet(f, T \ {x})
    BY <2>1, SumRemove
  <2> QED BY <1>2, <2>2
<1> HIDE DEF G
<1>3. S \in G
  BY <1>1, <1>2, ElementInduction
<1> QED BY <1>3 DEF G

LEMMA SumUnion ==
  ASSUME NEW S, IsFiniteSet(S), NEW T, IsFiniteSet(T), S \cap T = {},
         NEW f, \A x \in S \cup T : f[x] \in Nat
  PROVE  SumFunctionOnSet(f, S \cup T) = SumFunctionOnSet(f, S) + SumFunctionOnSet(f, T)
<1> DEFINE G == {U \in SUBSET T : SumFunctionOnSet(f, S \cup U) =
                   SumFunctionOnSet(f, S) + SumFunctionOnSet(f, U)}
<1>0. SumFunctionOnSet(f, S) \in Nat
  BY SumType
<1>1. {} \in G
  BY <1>0, SumOfNone
<1>2. ASSUME NEW U \in SUBSET T, NEW x \in U, U \ {x} \in G
      PROVE  U \in G
  <2>1. IsFiniteSet(U) /\ IsFiniteSet(S \cup U) /\ IsFiniteSet(U \ {x})
    BY FS_Subset, FS_Union, FS_RemoveElement
  <2>2. SumFunctionOnSet(f, U) = f[x] + SumFunctionOnSet(f, U \ {x})
    BY <2>1, SumRemove
  <2>3. SumFunctionOnSet(f, S \cup U) = f[x] + SumFunctionOnSet(f, (S \cup U) \ {x})
    BY <2>1, SumRemove
  <2>4. (S \cup U) \ {x} = S \cup (U \ {x})
    OBVIOUS
  <2>5. SumFunctionOnSet(f, U \ {x}) \in Nat /\ f[x] \in Nat
    BY <2>1, SumType
  <2> QED BY <1>0, <1>2, <2>2, <2>3, <2>4, <2>5
<1> HIDE DEF G
<1>3. T \in G
  BY <1>1, <1>2, ElementInduction
<1> QED BY <1>3 DEF G

(* Elements that count for nothing may be left out.                        *)
LEMMA SumSupport ==
  ASSUME NEW T, IsFiniteSet(T), NEW S \in SUBSET T,
         NEW f, \A x \in S : f[x] \in Nat, \A x \in T \ S : f[x] = 0
  PROVE  SumFunctionOnSet(f, T) = SumFunctionOnSet(f, S)
<1>1. IsFiniteSet(S) /\ IsFiniteSet(T \ S) /\ S \cap (T \ S) = {}
  BY FS_Subset, FS_Difference
<1>2. \A x \in S \cup (T \ S) : f[x] \in Nat
  OBVIOUS
<1>3. SumFunctionOnSet(f, S \cup (T \ S)) =
        SumFunctionOnSet(f, S) + SumFunctionOnSet(f, T \ S)
  BY <1>1, <1>2, SumUnion
<1>4. SumFunctionOnSet(f, T \ S) = 0 /\ SumFunctionOnSet(f, S) \in Nat
  BY <1>1, SumZero, SumType
<1>5. S \cup (T \ S) = T
  OBVIOUS
<1> QED BY <1>3, <1>4, <1>5

LEMMA SumPlus ==
  ASSUME NEW S, IsFiniteSet(S), NEW f, NEW g, NEW h,
         \A x \in S : f[x] \in Nat /\ g[x] \in Nat /\ h[x] = f[x] + g[x]
  PROVE  SumFunctionOnSet(h, S) = SumFunctionOnSet(f, S) + SumFunctionOnSet(g, S)
<1> DEFINE G == {U \in SUBSET S : SumFunctionOnSet(h, U) =
                   SumFunctionOnSet(f, U) + SumFunctionOnSet(g, U)}
<1>1. {} \in G
  BY SumOfNone
<1>2. ASSUME NEW U \in SUBSET S, NEW x \in U, U \ {x} \in G
      PROVE  U \in G
  <2>1. IsFiniteSet(U) /\ IsFiniteSet(U \ {x})
    BY FS_Subset, FS_RemoveElement
  <2>0. (\A y \in U : f[y] \in Nat) /\ (\A y \in U : g[y] \in Nat) /\ (\A y \in U : h[y] \in Nat)
    OBVIOUS
  <2>2. SumFunctionOnSet(f, U) = f[x] + SumFunctionOnSet(f, U \ {x})
    BY <2>0, <2>1, SumRemove
  <2>3. SumFunctionOnSet(g, U) = g[x] + SumFunctionOnSet(g, U \ {x})
    BY <2>0, <2>1, SumRemove
  <2>4. SumFunctionOnSet(h, U) = h[x] + SumFunctionOnSet(h, U \ {x})
    BY <2>0, <2>1, SumRemove
  <2>5. SumFunctionOnSet(f, U \ {x}) \in Nat /\ SumFunctionOnSet(g, U \ {x}) \in Nat
    BY <2>0, <2>1, SumType
  <2> QED BY <1>2, <2>0, <2>2, <2>3, <2>4, <2>5
<1> HIDE DEF G
<1>3. S \in G
  BY <1>1, <1>2, ElementInduction
<1> QED BY <1>3 DEF G

-----------------------------------------------------------------------------
(* Maps of amounts added up.                                               *)
AmountsOf(K) == UNION {[D -> Nat] : D \in SUBSET K}
PositivesOf(K) == UNION {[D -> Nat \ {0}] : D \in SUBSET K}

AddsUp(g, f, S) ==
  \A s \in SUBSET S :
    g[s] = IF s = {} THEN << >>
           ELSE Added(f[CHOOSE x \in s : TRUE], g[s \ {CHOOSE x \in s : TRUE}])

LEMMA AmountType ==
  ASSUME NEW K, NEW f \in AmountsOf(K)
  PROVE  /\ DOMAIN f \subseteq K
         /\ f = [x \in DOMAIN f |-> f[x]]
         /\ \A x \in DOMAIN f : f[x] \in Nat
         /\ \A id : Amount(f, id) \in Nat
<1>1. PICK D \in SUBSET K : f \in [D -> Nat]
  BY DEF AmountsOf
<1> QED BY <1>1 DEF Amount

LEMMA AddedType ==
  ASSUME NEW f, NEW g,
         \A id \in DOMAIN f : f[id] \in Nat, \A id \in DOMAIN g : g[id] \in Nat
  PROVE  /\ DOMAIN Added(f, g) = DOMAIN f \cup DOMAIN g
         /\ Added(f, g) = [id \in DOMAIN Added(f, g) |-> Added(f, g)[id]]
         /\ \A id \in DOMAIN Added(f, g) :
              /\ Added(f, g)[id] \in Nat
              /\ Added(f, g)[id] = Amount(f, id) + Amount(g, id)
<1>1. Added(f, g) = [id \in DOMAIN f \cup DOMAIN g |-> Amount(f, id) + Amount(g, id)]
  BY DEF Added
<1>2. \A id : Amount(f, id) \in Nat /\ Amount(g, id) \in Nat
  BY DEF Amount
<1> QED BY <1>1, <1>2

LEMMA AmountAdded ==
  \A f, g : \A id : Amount(Added(f, g), id) = Amount(f, id) + Amount(g, id)
  BY DEF Amount, Added

LEMMA AddedIsFold ==
  ASSUME NEW S, IsFiniteSet(S), NEW K, NEW f,
         \A x \in S : DOMAIN f[x] \subseteq K /\ \A id \in DOMAIN f[x] : f[x][id] \in Nat
  PROVE  \E g \in [SUBSET S -> AmountsOf(K)] :
           AddsUp(g, f, S) /\ FoldFunctionOnSet(Added, << >>, f, S) = g[S]
<1> DEFINE c == [s \in SUBSET S |-> CHOOSE x \in s : TRUE]
           V == AmountsOf(K)
           step == [a \in (SUBSET S) \X V |->
                      IF a[1] = {} THEN << >> ELSE Added(f[CHOOSE x \in a[1] : TRUE], a[2])]
           Iter(g) == g = [s \in SUBSET S |->
                             IF s = {} THEN << >>
                             ELSE Added(f[CHOOSE x \in s : TRUE], g[s \ {CHOOSE x \in s : TRUE}])]
           iter == CHOOSE g : Iter(g)
<1>1. \A s \in SUBSET S : s # {} => (CHOOSE x \in s : TRUE) \in s
  OBVIOUS
<1>2. \A s \in SUBSET S : s # {} => c[s] \in s
  BY <1>1
<1>3. << >> \in V
  BY DEF AmountsOf
<1>4. \A x \in S : \A v \in V : Added(f[x], v) \in V
  <2> SUFFICES ASSUME NEW x \in S, NEW v \in V PROVE Added(f[x], v) \in V
    OBVIOUS
  <2>1. DOMAIN v \subseteq K /\ \A id \in DOMAIN v : v[id] \in Nat
    BY AmountType
  <2>2. DOMAIN f[x] \subseteq K /\ \A id \in DOMAIN f[x] : f[x][id] \in Nat
    OBVIOUS
  <2> DEFINE r == Added(f[x], v)
  <2>3. /\ DOMAIN r = DOMAIN f[x] \cup DOMAIN v
        /\ r = [id \in DOMAIN r |-> r[id]]
        /\ \A id \in DOMAIN r : r[id] \in Nat
    BY <2>1, <2>2, AddedType
  <2> HIDE DEF r
  <2>4. DOMAIN r \in SUBSET K /\ r \in [DOMAIN r -> Nat]
    BY <2>1, <2>2, <2>3
  <2>5. r \in V
    BY <2>4 DEF AmountsOf
  <2> QED BY <2>5 DEF r
<1> HIDE DEF V
<1>5. step \in [(SUBSET S) \X V -> V]
  BY <1>1, <1>3, <1>4
<1> HIDE DEF c, step
<1>6. PICK g \in [SUBSET S -> V] : Folds(g, S, << >>, step, c)
  BY <1>2, <1>3, <1>5, FoldExists
<1>7. \A s \in SUBSET S :
        g[s] = IF s = {} THEN << >>
               ELSE Added(f[CHOOSE x \in s : TRUE], g[s \ {CHOOSE x \in s : TRUE}])
  <2> SUFFICES ASSUME NEW s \in SUBSET S, s # {}
               PROVE  g[s] = Added(f[CHOOSE x \in s : TRUE], g[s \ {CHOOSE x \in s : TRUE}])
    BY <1>6 DEF Folds
  <2>1. c[s] = CHOOSE x \in s : TRUE
    BY DEF c
  <2>2. g[s] = step[<<s, g[s \ {c[s]}]>>]
    BY <1>6 DEF Folds
  <2>3. g[s \ {c[s]}] \in V
    OBVIOUS
  <2>4. \A a \in SUBSET S : \A v \in V : a # {} =>
          step[<<a, v>>] = Added(f[CHOOSE x \in a : TRUE], v)
    BY DEF step
  <2> QED BY <2>1, <2>2, <2>3, <2>4
<1>8. Iter(g)
  BY <1>7
<1>9. Iter(iter)
  BY <1>8, Zenon
<1>10. FoldFunctionOnSet(Added, << >>, f, S) = iter[S]
  BY Zenon DEF FoldFunctionOnSet, MapThenFoldSet
<1> HIDE DEF iter
<1>11. \A s \in SUBSET S : iter[s] = g[s]
  <2> DEFINE G == {s \in SUBSET S : iter[s] = g[s]}
  <2>1. ASSUME NEW s \in SUBSET S, \A x \in s : s \ {x} \in G
        PROVE  s \in G
    BY <1>7, <1>9, <2>1
  <2>2. ASSUME NEW s \in SUBSET S PROVE s \in G
    <3>1. IsFiniteSet(s)
      BY FS_Subset
    <3>2. \A T \in SUBSET s : (\A x \in T : T \ {x} \in G) => T \in G
      BY <2>1
    <3> HIDE DEF G
    <3> QED BY <3>1, <3>2, SubsetInduction
  <2> QED BY <2>2
<1> QED BY <1>7, <1>10, <1>11 DEF AddsUp, V

(* What maps of amounts add up to.                                         *)
AllAdded(f, S) == FoldFunctionOnSet(Added, << >>, f, S)

LEMMA AddedUpType ==
  ASSUME NEW S, IsFiniteSet(S), NEW K, NEW f,
         \A x \in S : DOMAIN f[x] \subseteq K /\ \A id \in DOMAIN f[x] : f[x][id] \in Nat
  PROVE  /\ AllAdded(f, S) \in AmountsOf(K)
         /\ DOMAIN AllAdded(f, S) = UNION {DOMAIN f[x] : x \in S}
<1>1. PICK g \in [SUBSET S -> AmountsOf(K)] : AddsUp(g, f, S) /\ AllAdded(f, S) = g[S]
  BY AddedIsFold DEF AllAdded
<1>2. ASSUME NEW x \in S, NEW v \in AmountsOf(K)
      PROVE  DOMAIN Added(f[x], v) = DOMAIN f[x] \cup DOMAIN v
  BY DEF Added
<1> DEFINE G == {s \in SUBSET S : DOMAIN g[s] = UNION {DOMAIN f[x] : x \in s}}
<1>3. ASSUME NEW s \in SUBSET S, \A x \in s : s \ {x} \in G
      PROVE  s \in G
  <2>1. CASE s = {}
    <3>1. g[s] = << >>
      BY <1>1, <2>1 DEF AddsUp
    <3>2. DOMAIN g[s] = {}
      BY <3>1
    <3> QED BY <2>1, <3>2
  <2>2. CASE s # {}
    <3>1. PICK x \in s : g[s] = Added(f[x], g[s \ {x}])
      BY <1>1, <2>2 DEF AddsUp
    <3>2. s \ {x} \in G /\ g[s \ {x}] \in AmountsOf(K)
      BY <1>3
    <3>3. DOMAIN g[s] = DOMAIN f[x] \cup DOMAIN g[s \ {x}]
      BY <1>2, <3>1, <3>2
    <3>4. DOMAIN g[s \ {x}] = UNION {DOMAIN f[y] : y \in s \ {x}}
      BY <3>2
    <3> QED BY <3>3, <3>4
  <2> QED BY <2>1, <2>2
<1> HIDE DEF G
<1>4. S \in G
  BY <1>3, SubsetInduction
<1> QED BY <1>1, <1>4 DEF G

LEMMA AddedUp ==
  ASSUME NEW S, IsFiniteSet(S), NEW f, NEW h, NEW id,
         \A x \in S : \A i \in DOMAIN f[x] : f[x][i] \in Nat,
         \A x \in S : h[x] = Amount(f[x], id)
  PROVE  Amount(AllAdded(f, S), id) = SumFunctionOnSet(h, S)
<1> DEFINE K == UNION {DOMAIN f[x] : x \in S}
<1>0. \A x \in S : DOMAIN f[x] \subseteq K /\ \A i \in DOMAIN f[x] : f[x][i] \in Nat
  OBVIOUS
<1> HIDE DEF K
<1>1. PICK g \in [SUBSET S -> AmountsOf(K)] : AddsUp(g, f, S) /\ AllAdded(f, S) = g[S]
  <2>1. \E g \in [SUBSET S -> AmountsOf(K)] :
          AddsUp(g, f, S) /\ FoldFunctionOnSet(Added, << >>, f, S) = g[S]
    BY <1>0, AddedIsFold
  <2> QED BY <2>1, Zenon DEF AllAdded
<1>2. \A x \in S : h[x] \in Nat
  BY DEF Amount
<1> DEFINE G == {s \in SUBSET S : Amount(g[s], id) = SumFunctionOnSet(h, s)}
<1>3. ASSUME NEW s \in SUBSET S, \A x \in s : s \ {x} \in G
      PROVE  s \in G
  <2>1. CASE s = {}
    <3>1. g[s] = << >>
      BY <1>1, <2>1 DEF AddsUp
    <3>2. DOMAIN g[s] = {}
      BY <3>1
    <3> QED BY <2>1, <3>2, SumOfNone DEF Amount
  <2>2. CASE s # {}
    <3>1. PICK x \in s : g[s] = Added(f[x], g[s \ {x}])
      BY <1>1, <2>2 DEF AddsUp
    <3>2. Amount(g[s], id) = h[x] + Amount(g[s \ {x}], id)
      BY <3>1, AmountAdded
    <3>3. SumFunctionOnSet(h, s) = h[x] + SumFunctionOnSet(h, s \ {x})
      BY <1>2, FS_Subset, SumRemove
    <3>4. Amount(g[s \ {x}], id) = SumFunctionOnSet(h, s \ {x})
      BY <1>3
    <3> QED BY <3>2, <3>3, <3>4
  <2> QED BY <2>1, <2>2
<1> HIDE DEF G
<1>4. S \in G
  BY <1>3, SubsetInduction
<1> QED BY <1>1, <1>4 DEF G

-----------------------------------------------------------------------------
(* The rank of an output among those that one edict shares a balance over. *)
LEMMA SumConstant ==
  ASSUME NEW S, IsFiniteSet(S), NEW q \in Nat, NEW f, \A x \in S : f[x] = q
  PROVE  SumFunctionOnSet(f, S) = Cardinality(S) * q
<1> DEFINE G == {s \in SUBSET S : SumFunctionOnSet(f, s) = Cardinality(s) * q}
<1>1. {} \in G
  BY SumOfNone, FS_EmptySet
<1>2. ASSUME NEW T \in SUBSET S, NEW x \in T, T \ {x} \in G
      PROVE  T \in G
  <2>1. IsFiniteSet(T) /\ (\A y \in T : f[y] \in Nat)
    BY FS_Subset
  <2>2. SumFunctionOnSet(f, T) = q + SumFunctionOnSet(f, T \ {x})
    BY <2>1, SumRemove
  <2>3. Cardinality(T \ {x}) = Cardinality(T) - 1 /\ Cardinality(T) \in Nat
    BY <2>1, FS_RemoveElement, FS_CardinalityType
  <2>4. \A m \in Nat : q + (m - 1) * q = m * q
    OBVIOUS
  <2> QED BY <1>2, <2>2, <2>3, <2>4
<1> HIDE DEF G
<1>3. S \in G
  BY <1>1, <1>2, ElementInduction
<1> QED BY <1>3 DEF G

Rank(D, o) == Cardinality({d \in D : d < o})
Lowest(D, k) == {o \in D : Rank(D, o) < k}

LEMMA RankFacts ==
  ASSUME NEW D \in SUBSET Nat, IsFiniteSet(D)
  PROVE  /\ \A o \in D : Rank(D, o) \in Nat /\ Rank(D, o) < Cardinality(D)
         /\ \A o \in D : \A p \in D : o < p => Rank(D, o) < Rank(D, p)
         /\ \A o \in D : \A p \in D : Rank(D, o) = Rank(D, p) => o = p
<1> DEFINE B(o) == {d \in D : d < o}
<1>1. \A o : IsFiniteSet(B(o)) /\ Cardinality(B(o)) \in Nat
  BY FS_Subset, FS_CardinalityType
<1>2. ASSUME NEW o \in D
      PROVE  Rank(D, o) \in Nat /\ Rank(D, o) < Cardinality(D)
  <2>1. o \notin B(o) /\ B(o) \in SUBSET D
    OBVIOUS
  <2>2. Cardinality(B(o)) <= Cardinality(D) /\ Cardinality(B(o)) # Cardinality(D)
    BY <2>1, FS_Subset
  <2>3. Cardinality(D) \in Nat
    BY FS_CardinalityType
  <2> QED BY <1>1, <2>2, <2>3 DEF Rank
<1>3. ASSUME NEW o \in D, NEW p \in D, o < p
      PROVE  Rank(D, o) < Rank(D, p)
  <2>1. B(o) \in SUBSET B(p)
    <3>1. o \in Nat /\ p \in Nat /\ \A d \in D : d \in Nat
      OBVIOUS
    <3>2. \A d \in D : d < o => d < p
      BY <1>3, <3>1
    <3> QED BY <3>2
  <2>2. o \in B(p) /\ o \notin B(o)
    BY <1>3
  <2>3. Cardinality(B(o)) <= Cardinality(B(p)) /\ Cardinality(B(o)) # Cardinality(B(p))
    BY <1>1, <2>1, <2>2, FS_Subset
  <2> QED BY <1>1, <2>3 DEF Rank
<1>4. ASSUME NEW o \in D, NEW p \in D, Rank(D, o) = Rank(D, p)
      PROVE  o = p
  <2>1. o < p \/ p < o \/ o = p
    OBVIOUS
  <2> QED BY <1>2, <1>3, <1>4, <2>1
<1> QED BY <1>2, <1>3, <1>4

(* The outputs of the lowest ranks come one by one.                        *)
LEMMA LowestFacts ==
  ASSUME NEW D \in SUBSET Nat, IsFiniteSet(D)
  PROVE  /\ Lowest(D, 0) = {}
         /\ Lowest(D, Cardinality(D)) = D
         /\ \A k \in Nat :
              \/ Lowest(D, k + 1) = Lowest(D, k)
              \/ \E o \in D : /\ o \notin Lowest(D, k)
                              /\ Rank(D, o) = k
                              /\ Lowest(D, k + 1) = Lowest(D, k) \cup {o}
<1>0. \A o \in D : Rank(D, o) \in Nat /\ Rank(D, o) < Cardinality(D)
  BY RankFacts
<1>1. Lowest(D, 0) = {} /\ Lowest(D, Cardinality(D)) = D
  <2>1. \A o \in D : ~(Rank(D, o) < 0)
    BY <1>0
  <2>2. {o \in D : Rank(D, o) < 0} = {}
    BY <2>1
  <2>3. {o \in D : Rank(D, o) < Cardinality(D)} = D
    BY <1>0
  <2> QED BY <2>2, <2>3 DEF Lowest
<1>2. ASSUME NEW k \in Nat
      PROVE  \/ Lowest(D, k + 1) = Lowest(D, k)
             \/ \E o \in D : /\ o \notin Lowest(D, k)
                             /\ Rank(D, o) = k
                             /\ Lowest(D, k + 1) = Lowest(D, k) \cup {o}
  <2>1. \A o \in D : Rank(D, o) < k + 1 <=> Rank(D, o) < k \/ Rank(D, o) = k
    BY RankFacts
  <2>2. CASE \A o \in D : Rank(D, o) # k
    BY <2>1, <2>2 DEF Lowest
  <2>3. ASSUME NEW o \in D, Rank(D, o) = k
        PROVE  /\ o \notin Lowest(D, k)
               /\ Lowest(D, k + 1) = Lowest(D, k) \cup {o}
    <3>1. \A p \in D : Rank(D, p) = k <=> p = o
      BY <2>3, RankFacts
    <3>2. \A p \in D : p \in Lowest(D, k + 1) <=> p \in Lowest(D, k) \/ p = o
      BY <2>1, <3>1 DEF Lowest
    <3>3. Lowest(D, k + 1) \subseteq D /\ Lowest(D, k) \subseteq D
      BY DEF Lowest
    <3>4. o \notin Lowest(D, k)
      BY <2>3 DEF Lowest
    <3> QED BY <3>2, <3>3, <3>4
  <2> QED BY <2>2, <2>3
<1> QED BY <1>1, <1>2

LEMMA FewLowest ==
  ASSUME NEW D \in SUBSET Nat, IsFiniteSet(D), NEW r \in Nat
  PROVE  /\ IsFiniteSet(Lowest(D, r))
         /\ Cardinality(Lowest(D, r)) \in Nat
         /\ Cardinality(Lowest(D, r)) <= r
<1>1. \A k : IsFiniteSet(Lowest(D, k)) /\ Cardinality(Lowest(D, k)) \in Nat
  <2>1. \A k : Lowest(D, k) \in SUBSET D
    BY DEF Lowest
  <2> QED BY <2>1, FS_Subset, FS_CardinalityType
<1> DEFINE N == {k \in Nat : Cardinality(Lowest(D, k)) <= k}
<1>2. 0 \in N
  <2>1. Lowest(D, 0) = {}
    BY LowestFacts
  <2> QED BY <2>1, FS_EmptySet
<1>3. ASSUME NEW k \in Nat, k \in N
      PROVE  k + 1 \in N
  <2>1. CASE Lowest(D, k + 1) = Lowest(D, k)
    BY <1>1, <1>3, <2>1
  <2>2. ASSUME NEW o \in D, o \notin Lowest(D, k),
               Lowest(D, k + 1) = Lowest(D, k) \cup {o}
        PROVE  k + 1 \in N
    <3>1. Cardinality(Lowest(D, k) \cup {o}) = Cardinality(Lowest(D, k)) + 1
      BY <1>1, <2>2, FS_AddElement
    <3> QED BY <1>1, <1>3, <2>2, <3>1
  <2> QED BY <2>1, <2>2, LowestFacts
<1> HIDE DEF N
<1>4. Nat \subseteq N
  BY <1>2, <1>3, SetInduction
<1> QED BY <1>1, <1>4 DEF N

-----------------------------------------------------------------------------
(* No edict gives away more than there is.                                 *)
LEMMA EvenSharesFit ==
  ASSUME NEW D \in SUBSET Nat, IsFiniteSet(D), NEW balance \in Nat
  PROVE  /\ EvenShares(D, balance) \in [D -> Nat]
         /\ SumFunctionOnSet(EvenShares(D, balance), D) <= balance
<1> DEFINE n == Cardinality(D)
           q == balance \div n
           r == balance % n
           whole == [o \in D |-> q]
           extra == [o \in D |-> IF Rank(D, o) < r THEN 1 ELSE 0]
           share == EvenShares(D, balance)
<1>1. CASE D = {}
  <2>1. share \in [D -> Nat] /\ SumFunctionOnSet(share, D) = 0
    BY <1>1, SumOfNone DEF EvenShares
  <2> QED BY <2>1
<1>2. CASE D # {}
  <2>1. n \in Nat /\ n > 0
    BY <1>2, FS_EmptySet, FS_CardinalityType
  <2>2. q \in Nat /\ r \in Nat /\ n * q + r = balance
    <3> HIDE DEF n
    <3> QED BY <2>1
  <2>3. \A o \in D : share[o] = q + (IF Rank(D, o) < r THEN 1 ELSE 0)
    BY DEF EvenShares, Rank
  <2>4. share = [o \in D |-> share[o]]
    BY DEF EvenShares
  <2> HIDE DEF n, q, r, share
  <2>5. \A o \in D : /\ whole[o] \in Nat /\ extra[o] \in Nat
                     /\ share[o] = whole[o] + extra[o]
    BY <2>2, <2>3
  <2>6. share \in [D -> Nat]
    BY <2>4, <2>5
  <2>7. SumFunctionOnSet(whole, D) = n * q
    <3>1. \A o \in D : whole[o] = q
      OBVIOUS
    <3> HIDE DEF whole
    <3> QED BY <2>2, <3>1, SumConstant DEF n
  <2>8. SumFunctionOnSet(extra, D) \in Nat /\ SumFunctionOnSet(extra, D) <= r
    <3> DEFINE L == Lowest(D, r)
    <3>1. L \in SUBSET D /\ (\A o \in L : extra[o] = 1) /\ \A o \in D \ L : extra[o] = 0
      BY DEF Lowest
    <3>2. IsFiniteSet(L) /\ Cardinality(L) \in Nat /\ Cardinality(L) <= r
      BY <2>2, FewLowest
    <3> HIDE DEF L, extra
    <3>3. SumFunctionOnSet(extra, D) = SumFunctionOnSet(extra, L)
      <4>1. \A o \in L : extra[o] \in Nat
        BY <3>1
      <4> QED BY <3>1, <4>1, SumSupport
    <3>4. SumFunctionOnSet(extra, L) = Cardinality(L) * 1
      BY <3>1, <3>2, SumConstant
    <3> QED BY <3>2, <3>3, <3>4
  <2> HIDE DEF whole, extra
  <2>9. SumFunctionOnSet(share, D) = SumFunctionOnSet(whole, D) + SumFunctionOnSet(extra, D)
    BY <2>5, SumPlus
  <2>10. n * q \in Nat
    BY <2>1, <2>2
  <2>11. SumFunctionOnSet(share, D) <= balance
    BY <2>2, <2>7, <2>8, <2>9, <2>10
  <2> QED BY <2>6, <2>11 DEF share
<1> QED BY <1>1, <1>2

(* What an output gets of equal shares: as much as is left for it.         *)
LEMMA EqualShareOf ==
  ASSUME NEW D \in SUBSET Nat, IsFiniteSet(D), NEW amount \in Nat, NEW balance \in Nat,
         NEW o \in D
  PROVE  LET left == balance - Rank(D, o) * amount
         IN EqualShares(D, amount, balance)[o] =
              IF left <= 0 THEN 0 ELSE IF left <= amount THEN left ELSE amount
<1> DEFINE Share(left) == IF left <= 0 THEN 0 ELSE IF left <= amount THEN left ELSE amount
<1>1. \A left \in Int : Max({0, Min({amount, left})}) = Share(left)
  <2> SUFFICES ASSUME NEW left \in Int PROVE Max({0, Min({amount, left})}) = Share(left)
    OBVIOUS
  <2>1. Min({amount, left}) = IF left <= amount THEN left ELSE amount
    BY DEF Min
  <2> DEFINE m == IF left <= amount THEN left ELSE amount
  <2>2. m \in Int
    OBVIOUS
  <2> HIDE DEF m
  <2>3. Max({0, m}) = IF m <= 0 THEN 0 ELSE m
    BY <2>2 DEF Max
  <2> QED BY <2>1, <2>3 DEF m
<1>2. EqualShares(D, amount, balance)[o] = Max({0, Min({amount, balance - Rank(D, o) * amount})})
  BY DEF EqualShares, Rank
<1>3. balance - Rank(D, o) * amount \in Int
  <2>1. Rank(D, o) \in Nat
    BY RankFacts
  <2> QED BY <2>1
<1> QED BY <1>1, <1>2, <1>3

LEMMA EqualSharesFit ==
  ASSUME NEW D \in SUBSET Nat, IsFiniteSet(D), NEW amount \in Nat, NEW balance \in Nat
  PROVE  /\ EqualShares(D, amount, balance) \in [D -> Nat]
         /\ SumFunctionOnSet(EqualShares(D, amount, balance), D) <= balance
<1> DEFINE share == EqualShares(D, amount, balance)
           Share(left) == IF left <= 0 THEN 0 ELSE IF left <= amount THEN left ELSE amount
           Upto(k) == SumFunctionOnSet(share, Lowest(D, k))
           N == {k \in Nat : Upto(k) <= k * amount /\ Upto(k) <= balance}
<1>2. \A o \in D : Rank(D, o) \in Nat
  BY RankFacts
<1>3. \A k \in Nat : k * amount \in Nat
  OBVIOUS
<1>4. \A o \in D : share[o] = Share(balance - Rank(D, o) * amount)
  BY EqualShareOf
<1>5. share = [o \in D |-> share[o]]
  BY DEF EqualShares
<1> HIDE DEF share
<1>6. \A o \in D : share[o] \in Nat
  BY <1>2, <1>3, <1>4
<1>7. share \in [D -> Nat]
  BY <1>5, <1>6
<1>8. 0 \in N
  <2>1. Lowest(D, 0) = {}
    BY LowestFacts
  <2> QED BY <2>1, SumOfNone
<1>9. ASSUME NEW k \in Nat, k \in N
      PROVE  k + 1 \in N
  <2>1. (k + 1) * amount = k * amount + amount /\ k * amount \in Nat
    OBVIOUS
  <2>2. Upto(k) \in Nat /\ Upto(k) <= k * amount /\ Upto(k) <= balance
    <3>1. IsFiniteSet(Lowest(D, k)) /\ \A o \in Lowest(D, k) : share[o] \in Nat
      BY <1>6, FewLowest DEF Lowest
    <3> QED BY <1>9, <3>1, SumType
  <2>3. CASE Lowest(D, k + 1) = Lowest(D, k)
    BY <2>1, <2>2, <2>3
  <2>4. ASSUME NEW o \in D, o \notin Lowest(D, k), Rank(D, o) = k,
               Lowest(D, k + 1) = Lowest(D, k) \cup {o}
        PROVE  k + 1 \in N
    <3>1. IsFiniteSet(Lowest(D, k)) /\ \A p \in Lowest(D, k) \cup {o} : share[p] \in Nat
      BY <1>6, FewLowest DEF Lowest
    <3>2. Upto(k + 1) = share[o] + Upto(k)
      BY <2>4, <3>1, SumAdd
    <3>3. share[o] = Share(balance - k * amount)
      BY <1>4, <2>4
    <3> DEFINE a == k * amount
               u == Upto(k)
    <3>4. a \in Nat /\ u \in Nat /\ u <= a /\ u <= balance
      BY <2>1, <2>2
    <3>5. share[o] = Share(balance - a) /\ Upto(k + 1) = share[o] + u /\ (k + 1) * amount = a + amount
      BY <2>1, <3>2, <3>3
    <3> HIDE DEF a, u
    <3>6. Upto(k + 1) <= (k + 1) * amount /\ Upto(k + 1) <= balance
      BY <3>4, <3>5
    <3> QED BY <3>6
  <2> QED BY <2>3, <2>4, LowestFacts
<1> HIDE DEF N
<1>10. Nat \subseteq N
  BY <1>8, <1>9, SetInduction
<1>11. Cardinality(D) \in N
  BY <1>10, FS_CardinalityType
<1>12. SumFunctionOnSet(share, D) <= balance
  BY <1>11, LowestFacts DEF N
<1> QED BY <1>7, <1>12 DEF share

LEMMA OutputsFinite ==
  ASSUME NEW tx, Deciphered(tx)
  PROVE  /\ OutputsOf(tx) \in SUBSET Nat /\ IsFiniteSet(OutputsOf(tx))
         /\ Destinations(tx) \in SUBSET OutputsOf(tx) /\ IsFiniteSet(Destinations(tx))
         /\ tx.op_return \in SUBSET OutputsOf(tx) /\ IsFiniteSet(tx.op_return)
<1>1. tx.outputs \in Nat /\ tx.op_return \in SUBSET OutputsOf(tx)
  BY DEF Deciphered
<1>2. OutputsOf(tx) \in SUBSET Nat /\ IsFiniteSet(OutputsOf(tx))
  BY <1>1, FS_Interval DEF OutputsOf
<1>3. Destinations(tx) \in SUBSET OutputsOf(tx)
  BY DEF Destinations
<1> QED BY <1>1, <1>2, <1>3, FS_Subset

LEMMA PositiveSum ==
  ASSUME NEW S, IsFiniteSet(S), NEW f \in [S -> Nat]
  PROVE  /\ Positive(f) \in [DOMAIN Positive(f) -> Nat \ {0}]
         /\ DOMAIN Positive(f) \in SUBSET S
         /\ \A x \in DOMAIN Positive(f) : Positive(f)[x] = f[x]
         /\ SumFunction(Positive(f)) = SumFunctionOnSet(f, S)
<1> DEFINE P == {x \in S : f[x] > 0}
           p == Positive(f)
<1>1. p = [x \in P |-> f[x]]
  BY DEF Positive
<1>2. p \in [P -> Nat \ {0}] /\ P \in SUBSET S
  BY <1>1
<1>3. /\ IsFiniteSet(P)
      /\ \A x \in P : p[x] \in Nat /\ p[x] = f[x]
      /\ \A x \in P : f[x] \in Nat
      /\ \A x \in S \ P : f[x] = 0
  BY <1>1, FS_Subset
<1> HIDE DEF p, P
<1>4. SumFunctionOnSet(p, P) = SumFunctionOnSet(f, P)
  BY <1>3, SumSame
<1>5. SumFunctionOnSet(f, S) = SumFunctionOnSet(f, P)
  BY <1>2, <1>3, SumSupport
<1>6. DOMAIN p = P
  BY <1>2
<1>7. SumFunction(p) = SumFunctionOnSet(f, S)
  BY <1>4, <1>5, <1>6, Zenon DEF SumFunction
<1> QED BY <1>2, <1>3, <1>6, <1>7 DEF p

(* What an edict gives of a balance.                                       *)
LEMMA SharesFit ==
  ASSUME NEW tx, Deciphered(tx), NEW e, e.amount \in Nat, e.output \in 0..tx.outputs,
         NEW balance \in Nat
  PROVE  /\ Positive(Shares(tx, e, balance)) \in
              [DOMAIN Positive(Shares(tx, e, balance)) -> Nat \ {0}]
         /\ DOMAIN Positive(Shares(tx, e, balance)) \in SUBSET OutputsOf(tx)
         /\ SumFunction(Positive(Shares(tx, e, balance))) \in Nat
         /\ SumFunction(Positive(Shares(tx, e, balance))) <= balance
<1> DEFINE share == Shares(tx, e, balance)
           D == Destinations(tx)
<1>0. D \in SUBSET Nat /\ IsFiniteSet(D) /\ D \in SUBSET OutputsOf(tx)
  BY OutputsFinite
<1>1. tx.outputs \in Nat
  BY DEF Deciphered
<1>2. \E S \in SUBSET OutputsOf(tx) :
        IsFiniteSet(S) /\ share \in [S -> Nat] /\ SumFunctionOnSet(share, S) <= balance
  <2>1. CASE e.output = tx.outputs /\ e.amount = 0
    <3>1. share = EvenShares(D, balance)
      BY <1>1, <2>1 DEF Shares
    <3>2. /\ EvenShares(D, balance) \in [D -> Nat]
          /\ SumFunctionOnSet(EvenShares(D, balance), D) <= balance
      BY <1>0, EvenSharesFit
    <3> HIDE DEF share, D
    <3> QED BY <1>0, <3>1, <3>2
  <2>2. CASE e.output = tx.outputs /\ e.amount > 0
    <3>1. share = EqualShares(D, e.amount, balance)
      BY <1>1, <2>2 DEF Shares
    <3>2. /\ EqualShares(D, e.amount, balance) \in [D -> Nat]
          /\ SumFunctionOnSet(EqualShares(D, e.amount, balance), D) <= balance
      BY <1>0, EqualSharesFit
    <3> HIDE DEF share, D
    <3> QED BY <1>0, <3>1, <3>2
  <2>3. ASSUME e.output < tx.outputs
        PROVE  \E S \in SUBSET OutputsOf(tx) :
                 IsFiniteSet(S) /\ share \in [S -> Nat] /\ SumFunctionOnSet(share, S) <= balance
    <3>1. {e.output} \in SUBSET OutputsOf(tx) /\ IsFiniteSet({e.output})
      <4>1. e.output \in OutputsOf(tx)
        BY <1>1, <2>3 DEF OutputsOf
      <4> QED BY <4>1, FS_Singleton
    <3>2. \A a, b \in Nat : Min({a, b}) \in Nat /\ Min({a, b}) <= b
      BY DEF Min
    <3>3. \E n \in Nat : n <= balance /\ share = [o \in {e.output} |-> n]
      <4>1. CASE e.amount = 0
        BY <1>1, <2>3, <4>1 DEF Shares
      <4>2. CASE e.amount > 0
        <5>1. e.output # tx.outputs /\ e.amount # 0
          BY <1>1, <2>3, <4>2
        <5>2. share = [o \in {e.output} |-> Min({e.amount, balance})]
          BY <2>3, <4>2, <5>1 DEF Shares
        <5>3. Min({e.amount, balance}) \in Nat /\ Min({e.amount, balance}) <= balance
          BY <3>2
        <5> HIDE DEF share
        <5> QED BY <5>2, <5>3
      <4> QED BY <4>1, <4>2
    <3>4. PICK n \in Nat : n <= balance /\ share = [o \in {e.output} |-> n]
      BY <3>3
    <3>5. share \in [{e.output} -> Nat] /\ \A o \in {e.output} : share[o] = n
      BY <3>4
    <3> HIDE DEF share
    <3>6. SumFunctionOnSet(share, {e.output}) = Cardinality({e.output}) * n
      BY <3>1, <3>5, SumConstant
    <3>7. Cardinality({e.output}) = 1
      BY FS_Singleton
    <3> QED BY <3>1, <3>4, <3>5, <3>6, <3>7
  <2> QED BY <1>1, <2>1, <2>2, <2>3
<1>3. PICK S \in SUBSET OutputsOf(tx) :
        IsFiniteSet(S) /\ share \in [S -> Nat] /\ SumFunctionOnSet(share, S) <= balance
  BY <1>2
<1> HIDE DEF share
<1>4. /\ Positive(share) \in [DOMAIN Positive(share) -> Nat \ {0}]
      /\ DOMAIN Positive(share) \in SUBSET S
      /\ SumFunction(Positive(share)) = SumFunctionOnSet(share, S)
  BY <1>3, PositiveSum
<1>5. SumFunctionOnSet(share, S) \in Nat
  BY <1>3, SumType
<1> QED BY <1>3, <1>4, <1>5 DEF share

-----------------------------------------------------------------------------
(* Between two edicts, all that is held is unallocated or on an output.    *)
OnAllocated(tx, allocated, id) ==
  SumFunctionOnSet([o \in OutputsOf(tx) |-> Amount(allocated[o], id)], OutputsOf(tx))

Conserving(tx, held) ==
  {st \in [unallocated : [DOMAIN held -> Nat],
           allocated : [OutputsOf(tx) -> PositivesOf(DOMAIN held)]] :
     \A id \in DOMAIN held :
       held[id] = st.unallocated[id] + OnAllocated(tx, st.allocated, id)}

LEMMA PositivesType ==
  ASSUME NEW K, NEW f \in PositivesOf(K)
  PROVE  /\ DOMAIN f \subseteq K
         /\ f = [x \in DOMAIN f |-> f[x]]
         /\ \A x \in DOMAIN f : f[x] \in Nat /\ f[x] > 0
         /\ \A id : Amount(f, id) \in Nat
<1>1. PICK D \in SUBSET K : f \in [D -> Nat \ {0}]
  BY DEF PositivesOf
<1> QED BY <1>1 DEF Amount

LEMMA NothingIsPositive == \A K : << >> \in PositivesOf(K) /\ \A id : Amount(<< >>, id) = 0
<1>1. DOMAIN << >> = {} /\ \A V : << >> \in [{} -> V]
  OBVIOUS
<1>2. \A K : {} \in SUBSET K
  OBVIOUS
<1> QED BY <1>1, <1>2, Zenon DEF PositivesOf, Amount

LEMMA AddedPositive ==
  ASSUME NEW K, NEW f \in PositivesOf(K), NEW g \in PositivesOf(K)
  PROVE  Added(f, g) \in PositivesOf(K)
<1>1. /\ DOMAIN f \subseteq K /\ DOMAIN g \subseteq K
      /\ \A x \in DOMAIN f : f[x] \in Nat /\ f[x] > 0
      /\ \A x \in DOMAIN g : g[x] \in Nat /\ g[x] > 0
  BY PositivesType
<1> DEFINE D == DOMAIN f \cup DOMAIN g
<1>2. \A x \in D : Amount(f, x) + Amount(g, x) \in Nat \ {0}
  BY <1>1 DEF Amount
<1>3. Added(f, g) \in [D -> Nat \ {0}] /\ D \in SUBSET K
  BY <1>1, <1>2 DEF Added
<1> QED BY <1>3 DEF PositivesOf

(* What is on the outputs grows by what is given to each.                  *)
LEMMA OnAllocatedAdded ==
  ASSUME NEW tx, Deciphered(tx), NEW K,
         NEW a \in [OutputsOf(tx) -> PositivesOf(K)],
         NEW S \in SUBSET OutputsOf(tx), NEW g \in [S -> PositivesOf(K)],
         NEW b, b = [o \in OutputsOf(tx) |-> IF o \in S THEN Added(a[o], g[o]) ELSE a[o]]
  PROVE  /\ b \in [OutputsOf(tx) -> PositivesOf(K)]
         /\ \A id : OnAllocated(tx, a, id) \in Nat
         /\ \A id : OnAllocated(tx, b, id) =
              OnAllocated(tx, a, id) + SumFunctionOnSet([o \in S |-> Amount(g[o], id)], S)
<1> DEFINE Outs == OutputsOf(tx)
<1>0. IsFiniteSet(Outs) /\ IsFiniteSet(S)
  BY OutputsFinite, FS_Subset
<1>1. b \in [Outs -> PositivesOf(K)]
  BY AddedPositive
<1>2. ASSUME NEW id
      PROVE  /\ OnAllocated(tx, a, id) \in Nat
             /\ OnAllocated(tx, b, id) =
                  OnAllocated(tx, a, id) + SumFunctionOnSet([o \in S |-> Amount(g[o], id)], S)
  <2> DEFINE u == [o \in Outs |-> Amount(a[o], id)]
             v == [o \in Outs |-> Amount(b[o], id)]
             w == [o \in Outs |-> IF o \in S THEN Amount(g[o], id) ELSE 0]
             x == [o \in S |-> Amount(g[o], id)]
  <2>1. \A o \in Outs : u[o] \in Nat
    BY PositivesType
  <2>2. \A o \in S : x[o] \in Nat /\ x[o] = w[o]
    BY PositivesType
  <2>3. \A o \in Outs \ S : w[o] = 0
    OBVIOUS
  <2>4. \A o \in Outs : v[o] = u[o] + w[o]
    <3>1. \A o \in S : v[o] = u[o] + w[o]
      BY AmountAdded
    <3>2. \A o \in Outs \ S : v[o] = u[o]
      OBVIOUS
    <3> HIDE DEF u, v, w
    <3> QED BY <2>1, <2>3, <3>1, <3>2
  <2>5. OnAllocated(tx, a, id) = SumFunctionOnSet(u, Outs)
        /\ OnAllocated(tx, b, id) = SumFunctionOnSet(v, Outs)
    BY Zenon DEF OnAllocated
  <2> HIDE DEF u, v, w, x, Outs
  <2>6. \A o \in Outs : w[o] \in Nat
    BY <2>2, <2>3
  <2>7. SumFunctionOnSet(u, Outs) \in Nat
    BY <1>0, <2>1, SumType
  <2>8. SumFunctionOnSet(v, Outs) = SumFunctionOnSet(u, Outs) + SumFunctionOnSet(w, Outs)
    <3>1. \A o \in Outs : u[o] \in Nat /\ w[o] \in Nat /\ v[o] = u[o] + w[o]
      BY <2>1, <2>4, <2>6
    <3> QED BY <1>0, <3>1, SumPlus
  <2>9. SumFunctionOnSet(w, Outs) = SumFunctionOnSet(w, S)
    <3>1. S \in SUBSET Outs /\ \A o \in S : w[o] \in Nat
      BY <2>6 DEF Outs
    <3> QED BY <1>0, <2>3, <3>1, SumSupport
  <2>10. SumFunctionOnSet(x, S) = SumFunctionOnSet(w, S)
    BY <1>0, <2>2, SumSame
  <2> QED BY <2>5, <2>7, <2>8, <2>9, <2>10 DEF x
<1> QED BY <1>1, <1>2

LEMMA AllocateConserves ==
  ASSUME NEW tx, Deciphered(tx), NEW etched, NEW held, held \in AmountsOf(DOMAIN held),
         NEW st \in Conserving(tx, held),
         NEW e, e.amount \in Nat, e.output \in 0..tx.outputs
  PROVE  Allocate(tx, etched, st, e) \in Conserving(tx, held)
<1> DEFINE K == DOMAIN held
           Outs == OutputsOf(tx)
           id == IF e.id = DefaultId THEN etched ELSE e.id
           share == Positive(Shares(tx, e, st.unallocated[id]))
           S == DOMAIN share
           n == SumFunction(share)
           st2 == Allocate(tx, etched, st, e)
           g == [o \in S |-> [i \in {id} |-> share[o]]]
<1>1. /\ st.unallocated \in [K -> Nat]
      /\ st.allocated \in [Outs -> PositivesOf(K)]
      /\ \A i \in K : held[i] = st.unallocated[i] + OnAllocated(tx, st.allocated, i)
  BY DEF Conserving
<1> HIDE DEF K
<1>2. CASE id \notin K
  BY <1>1, <1>2, Zenon DEF Allocate
<1>3. CASE id \in K
  <2>1. st.unallocated[id] \in Nat
    BY <1>1, <1>3
  <2>2. /\ share \in [S -> Nat \ {0}]
        /\ S \in SUBSET Outs
        /\ n \in Nat
        /\ n <= st.unallocated[id]
    BY <2>1, SharesFit
  <2>3. st2 = [unallocated |-> Put(st.unallocated, id, st.unallocated[id] - n),
               allocated |-> [o \in Outs |-> IF o \in S
                                THEN Added(st.allocated[o], [i \in {id} |-> share[o]])
                                ELSE st.allocated[o]]]
    BY <1>1, <1>3 DEF Allocate
  <2> HIDE DEF share, S, n, st2, id, Outs
  <2>4. st2.unallocated \in [K -> Nat]
        /\ \A i \in K : st2.unallocated[i] =
             IF i = id THEN st.unallocated[i] - n ELSE st.unallocated[i]
    BY <1>1, <1>3, <2>1, <2>2, <2>3 DEF Put
  <2>5. g \in [S -> PositivesOf(K)]
    <3> SUFFICES ASSUME NEW o \in S
                 PROVE  [i \in {id} |-> share[o]] \in PositivesOf(K)
      OBVIOUS
    <3>1. {id} \in SUBSET K /\ [i \in {id} |-> share[o]] \in [{id} -> Nat \ {0}]
      BY <1>3, <2>2
    <3> QED BY <3>1, Zenon DEF PositivesOf
  <2>6. st2.allocated = [o \in Outs |-> IF o \in S THEN Added(st.allocated[o], g[o])
                                                  ELSE st.allocated[o]]
    BY <2>3
  <2>7. /\ st2.allocated \in [Outs -> PositivesOf(K)]
        /\ \A i : OnAllocated(tx, st.allocated, i) \in Nat
        /\ \A i : OnAllocated(tx, st2.allocated, i) =
             OnAllocated(tx, st.allocated, i) + SumFunctionOnSet([o \in S |-> Amount(g[o], i)], S)
    <3> DEFINE a == st.allocated
               b == st2.allocated
    <3>1. a \in [OutputsOf(tx) -> PositivesOf(K)] /\ S \in SUBSET OutputsOf(tx)
      BY <1>1, <2>2 DEF Outs
    <3>2. b = [o \in OutputsOf(tx) |-> IF o \in S THEN Added(a[o], g[o]) ELSE a[o]]
      BY <2>6 DEF Outs
    <3> HIDE DEF g, a, b
    <3>3. /\ b \in [OutputsOf(tx) -> PositivesOf(K)]
          /\ \A i : OnAllocated(tx, a, i) \in Nat
          /\ \A i : OnAllocated(tx, b, i) =
               OnAllocated(tx, a, i) + SumFunctionOnSet([o \in S |-> Amount(g[o], i)], S)
      BY <2>5, <3>1, <3>2, OnAllocatedAdded
    <3> QED BY <3>3, Zenon DEF a, b, Outs
  <2>8. IsFiniteSet(S)
    BY <2>2, OutputsFinite, FS_Subset DEF Outs
  <2>9. SumFunctionOnSet([o \in S |-> Amount(g[o], id)], S) = n
    <3> DEFINE h == [o \in S |-> Amount(g[o], id)]
    <3>1. \A o \in S : h[o] \in Nat /\ h[o] = share[o]
      BY <2>2 DEF Amount
    <3> HIDE DEF h
    <3>2. SumFunctionOnSet(h, S) = SumFunctionOnSet(share, S)
      BY <2>8, <3>1, SumSame
    <3>3. n = SumFunctionOnSet(share, S)
      BY DEF n, S, SumFunction
    <3> QED BY <3>2, <3>3 DEF h
  <2>10. ASSUME NEW i \in K, i # id
         PROVE  SumFunctionOnSet([o \in S |-> Amount(g[o], i)], S) = 0
    <3> DEFINE h == [o \in S |-> Amount(g[o], i)]
    <3>1. \A o \in S : h[o] = 0
      BY <2>10 DEF Amount
    <3> HIDE DEF h
    <3>2. SumFunctionOnSet(h, S) = 0
      BY <2>8, <3>1, SumZero
    <3> QED BY <3>2 DEF h
  <2> HIDE DEF g
  <2>11. ASSUME NEW i \in K
         PROVE  held[i] = st2.unallocated[i] + OnAllocated(tx, st2.allocated, i)
    <3>1. /\ st.unallocated[i] \in Nat /\ OnAllocated(tx, st.allocated, i) \in Nat
          /\ held[i] = st.unallocated[i] + OnAllocated(tx, st.allocated, i)
      BY <1>1, <2>7
    <3>2. CASE i = id
      BY <2>2, <2>4, <2>7, <2>9, <3>1, <3>2
    <3>3. CASE i # id
      <4>1. OnAllocated(tx, st2.allocated, i) = OnAllocated(tx, st.allocated, i) + 0
        BY <2>7, <2>10, <3>3
      <4>2. st2.unallocated[i] = st.unallocated[i]
        BY <2>4, <3>3
      <4> QED BY <3>1, <4>1, <4>2
    <3> QED BY <3>2, <3>3
  <2>12. st2 \in [unallocated : [K -> Nat], allocated : [Outs -> PositivesOf(K)]]
    BY <2>3, <2>4, <2>7
  <2> QED BY <2>11, <2>12 DEF Conserving, K, Outs, st2
<1> QED BY <1>2, <1>3

-----------------------------------------------------------------------------
(* The edicts one after the other.                                         *)
Said(tx) == IF tx.cenotaph THEN << >> ELSE tx.edicts

Untouched(tx, unallocated) ==
  [unallocated |-> unallocated, allocated |-> [o \in OutputsOf(tx) |-> << >>]]

LEMMA MaxOfInterval ==
  /\ \A k \in Nat \ {0} : Max(1..k) = k /\ (1..k) \ {k} = 1..(k - 1)
  /\ \A n \in Nat : \A s \in SUBSET (1..n) : s # {} => Max(s) \in s
<1>1. ASSUME NEW k \in Nat \ {0}
      PROVE  Max(1..k) = k /\ (1..k) \ {k} = 1..(k - 1)
  <2>1. k \in 1..k /\ \A y \in 1..k : k >= y
    OBVIOUS
  <2>2. \A x \in 1..k : (\A y \in 1..k : x >= y) => x = k
    BY <2>1
  <2>3. Max(1..k) = k
    BY <2>1, <2>2 DEF Max
  <2> QED BY <2>3
<1>2. ASSUME NEW n \in Nat, NEW s \in SUBSET (1..n), s # {}
      PROVE  Max(s) \in s
  <2> DEFINE T == {n - x : x \in s}
  <2>1. T \in SUBSET Nat /\ T # {}
    BY <1>2
  <2> HIDE DEF T
  <2>2. PICK m \in T : \A y \in T : m <= y
    BY <2>1, LeastOfNat
  <2>3. PICK x \in s : m = n - x
    BY <2>2 DEF T
  <2>4. \A y \in s : n - x <= n - y
    BY <2>2, <2>3 DEF T
  <2>5. \A y \in s : x >= y
    BY <2>4
  <2> QED BY <2>5, Zenon DEF Max
<1> QED BY <1>1, <1>2

LEMMA EdictsInTurn ==
  ASSUME NEW tx, NEW etched, NEW held, NEW V, NEW n \in Nat,
         DOMAIN Said(tx) = 1..n, Untouched(tx, held) \in V,
         \A st \in V : \A k \in 1..n : Allocate(tx, etched, st, Said(tx)[k]) \in V
  PROVE  \E st \in [0..n -> V] :
           /\ st[0] = Untouched(tx, held)
           /\ \A k \in 1..n : st[k] = Allocate(tx, etched, st[k - 1], Said(tx)[k])
           /\ AfterEdicts(tx, etched, held) = st[n]
<1> DEFINE S == 1..n
           Es == Said(tx)
           base == Untouched(tx, held)
           c == [s \in SUBSET S |-> Max(s)]
           step == [a \in (SUBSET S) \X V |->
                      IF a[1] = {} THEN base
                      ELSE Allocate(tx, etched, a[2], Es[Max(a[1])])]
           Iter(g) == g = [s \in SUBSET S |->
                             IF s = {} THEN base
                             ELSE Allocate(tx, etched, g[s \ {Max(s)}], Es[Max(s)])]
           iter == CHOOSE g : Iter(g)
<1>0. IsFiniteSet(S)
  BY FS_Interval
<1>1. \A s \in SUBSET S : s # {} => Max(s) \in s
  BY MaxOfInterval
<1>2. \A s \in SUBSET S : s # {} => c[s] \in s
  BY <1>1
<1> HIDE DEF base, Es
<1>3. base \in V /\ \A st \in V : \A k \in S : Allocate(tx, etched, st, Es[k]) \in V
  BY DEF base, Es
<1> HIDE DEF S
<1>4. step \in [(SUBSET S) \X V -> V]
  BY <1>1, <1>3
<1> HIDE DEF c, step
<1>5. PICK g \in [SUBSET S -> V] : Folds(g, S, base, step, c)
  BY <1>0, <1>2, <1>3, <1>4, FoldExists
<1>6. \A s \in SUBSET S :
        g[s] = IF s = {} THEN base
               ELSE Allocate(tx, etched, g[s \ {Max(s)}], Es[Max(s)])
  <2> SUFFICES ASSUME NEW s \in SUBSET S, s # {}
               PROVE  g[s] = Allocate(tx, etched, g[s \ {Max(s)}], Es[Max(s)])
    BY <1>5 DEF Folds
  <2>1. c[s] = Max(s)
    BY DEF c
  <2>2. g[s] = step[<<s, g[s \ {c[s]}]>>]
    BY <1>5 DEF Folds
  <2>3. g[s \ {c[s]}] \in V
    OBVIOUS
  <2>4. \A a \in SUBSET S : \A v \in V : a # {} =>
          step[<<a, v>>] = Allocate(tx, etched, v, Es[Max(a)])
    BY DEF step
  <2> QED BY <2>1, <2>2, <2>3, <2>4
<1>7. Iter(g)
  BY <1>6
<1>8. Iter(iter)
  BY <1>7, Zenon
<1>9. AfterEdicts(tx, etched, held) = iter[DOMAIN Es]
  BY Zenon DEF AfterEdicts, FoldLeft, MapThenFoldSet, base, Untouched, Es, Said, S
<1> HIDE DEF iter
<1>10. \A s \in SUBSET S : iter[s] = g[s]
  <2> DEFINE G == {s \in SUBSET S : iter[s] = g[s]}
  <2>1. ASSUME NEW s \in SUBSET S, \A x \in s : s \ {x} \in G
        PROVE  s \in G
    BY <1>1, <1>6, <1>8, <2>1
  <2>2. ASSUME NEW s \in SUBSET S PROVE s \in G
    <3>1. IsFiniteSet(s)
      BY <1>0, FS_Subset
    <3>2. \A T \in SUBSET s : (\A x \in T : T \ {x} \in G) => T \in G
      BY <2>1
    <3> HIDE DEF G
    <3> QED BY <3>1, <3>2, SubsetInduction
  <2> QED BY <2>2
<1> DEFINE st == [k \in 0..n |-> g[1..k]]
<1>11. \A k \in 0..n : 1..k \in SUBSET S
  BY DEF S
<1>12. st \in [0..n -> V]
  BY <1>11
<1>13. st[0] = base
  <2>1. 1..0 = {} /\ 0 \in 0..n
    OBVIOUS
  <2>2. g[{}] = base
    BY <1>6
  <2> QED BY <2>1, <2>2
<1>14. ASSUME NEW k \in 1..n
       PROVE  st[k] = Allocate(tx, etched, st[k - 1], Es[k])
  <2>1. 1..k \in SUBSET S /\ 1..k # {} /\ k \in 0..n /\ k - 1 \in 0..n
    <3>1. k \in 1..k /\ k \in 0..n /\ k - 1 \in 0..n
      OBVIOUS
    <3> QED BY <1>11, <3>1
  <2>2. Max(1..k) = k /\ (1..k) \ {k} = 1..(k - 1)
    BY MaxOfInterval
  <2>3. g[1..k] = Allocate(tx, etched, g[(1..k) \ {Max(1..k)}], Es[Max(1..k)])
    BY <1>6, <2>1
  <2> QED BY <2>1, <2>2, <2>3
<1>15. AfterEdicts(tx, etched, held) = st[n]
  BY <1>9, <1>10, <1>11 DEF S, Es
<1> HIDE DEF st
<1> QED BY <1>12, <1>13, <1>14, <1>15, Zenon DEF base, Es

(* The states after none, one, two, ... of the edicts.                     *)
InTurn(tx, etched, held, st) ==
  /\ st \in [0..Len(Said(tx)) -> Conserving(tx, held)]
  /\ st[0] = Untouched(tx, held)
  /\ \A k \in 1..Len(Said(tx)) : st[k] = Allocate(tx, etched, st[k - 1], Said(tx)[k])
  /\ AfterEdicts(tx, etched, held) = st[Len(Said(tx))]

LEMMA EdictsConserveInTurn ==
  ASSUME NEW tx, Deciphered(tx), NEW etched, NEW held, held \in AmountsOf(DOMAIN held)
  PROVE  \E st : InTurn(tx, etched, held, st)
<1> DEFINE V == Conserving(tx, held)
           first == Untouched(tx, held)
<1>1. PICK n \in Nat : DOMAIN Said(tx) = 1..n
                       /\ \A k \in 1..n : /\ Said(tx)[k].amount \in Nat
                                          /\ Said(tx)[k].output \in 0..tx.outputs
  <2>1. CASE tx.cenotaph
    <3>1. Said(tx) = << >> /\ DOMAIN << >> = 1..0 /\ 1..0 = {}
      BY <2>1 DEF Said
    <3> QED BY <3>1
  <2>2. CASE ~tx.cenotaph
    <3> DEFINE R == [id : Nat \X Nat, amount : Nat, output : 0..tx.outputs]
    <3>1. Said(tx) = tx.edicts /\ tx.edicts \in Seq(R)
      BY <2>2 DEF Said, Deciphered
    <3>2. \A e \in R : e.amount \in Nat /\ e.output \in 0..tx.outputs
      OBVIOUS
    <3> HIDE DEF R
    <3>3. Len(tx.edicts) \in Nat /\ DOMAIN tx.edicts = 1..Len(tx.edicts)
          /\ \A k \in 1..Len(tx.edicts) : tx.edicts[k] \in R
      BY <3>1
    <3> QED BY <3>1, <3>2, <3>3
  <2> QED BY <2>1, <2>2
<1>2. first \in V
  <2>1. /\ first.unallocated = held
        /\ first.allocated = [o \in OutputsOf(tx) |-> << >>]
        /\ first = [unallocated |-> held, allocated |-> [o \in OutputsOf(tx) |-> << >>]]
    BY DEF Untouched
  <2>2. held \in [DOMAIN held -> Nat] /\ \A id \in DOMAIN held : held[id] \in Nat
    BY DEF AmountsOf
  <2>3. first.allocated \in [OutputsOf(tx) -> PositivesOf(DOMAIN held)]
    BY <2>1, NothingIsPositive
  <2>4. ASSUME NEW id
        PROVE  OnAllocated(tx, first.allocated, id) = 0
    <3> DEFINE f == [o \in OutputsOf(tx) |-> Amount(first.allocated[o], id)]
    <3>1. \A o \in OutputsOf(tx) : f[o] = 0
      BY <2>1, NothingIsPositive
    <3> HIDE DEF f
    <3>2. SumFunctionOnSet(f, OutputsOf(tx)) = 0
      BY <3>1, SumZero, OutputsFinite
    <3> QED BY <3>2, Zenon DEF OnAllocated, f
  <2> HIDE DEF first
  <2>5. \A id \in DOMAIN held :
          held[id] = first.unallocated[id] + OnAllocated(tx, first.allocated, id)
    BY <2>1, <2>2, <2>4
  <2>6. first \in [unallocated : [DOMAIN held -> Nat],
                   allocated : [OutputsOf(tx) -> PositivesOf(DOMAIN held)]]
    BY <2>1, <2>2, <2>3
  <2> QED BY <2>5, <2>6 DEF Conserving
<1>3. \A st \in V : \A k \in 1..n : Allocate(tx, etched, st, Said(tx)[k]) \in V
  BY <1>1, AllocateConserves
<1> HIDE DEF V, first
<1>4. PICK st \in [0..n -> V] :
        /\ st[0] = Untouched(tx, held)
        /\ \A k \in 1..n : st[k] = Allocate(tx, etched, st[k - 1], Said(tx)[k])
        /\ AfterEdicts(tx, etched, held) = st[n]
  <2>1. Untouched(tx, held) \in V /\ DOMAIN Said(tx) = 1..n
    BY <1>1, <1>2 DEF first
  <2> QED BY <1>3, <2>1, EdictsInTurn
<1>5. Len(Said(tx)) = n
  <2>1. Said(tx) \in Seq([id : Nat \X Nat, amount : Nat, output : 0..tx.outputs])
    BY DEF Said, Deciphered
  <2>2. Len(Said(tx)) \in Nat /\ DOMAIN Said(tx) = 1..Len(Said(tx))
    BY <2>1
  <2> HIDE DEF Said
  <2> QED BY <1>1, <2>2
<1>6. InTurn(tx, etched, held, st)
  BY <1>4, <1>5 DEF InTurn, V
<1> QED BY <1>6

LEMMA AfterEdictsConserve ==
  ASSUME NEW tx, Deciphered(tx), NEW etched, NEW held, held \in AmountsOf(DOMAIN held)
  PROVE  AfterEdicts(tx, etched, held) \in Conserving(tx, held)
<1>1. PICK st : InTurn(tx, etched, held, st)
  BY EdictsConserveInTurn
<1>2. Len(Said(tx)) \in Nat
  <2>1. Said(tx) \in Seq([id : Nat \X Nat, amount : Nat, output : 0..tx.outputs])
    BY DEF Said, Deciphered
  <2> HIDE DEF Said
  <2> QED BY <2>1
<1> QED BY <1>1, <1>2 DEF InTurn

(* What a transaction holds ends up on its outputs or is burned: nothing   *)
(* is lost or made up, and no empty balance is stored.                     *)
Distributes(tx, held, d) ==
  /\ DOMAIN d.kept \subseteq Destinations(tx)
  /\ \A o \in DOMAIN d.kept : /\ d.kept[o] \in PositivesOf(DOMAIN held)
                              /\ DOMAIN d.kept[o] # {}
  /\ d.burned \in AmountsOf(DOMAIN held)
  /\ \A id \in DOMAIN held :
       held[id] = Amount(d.burned, id) +
                  SumFunctionOnSet([o \in DOMAIN d.kept |-> Amount(d.kept[o], id)], DOMAIN d.kept)

LEMMA DefaultOutputFacts ==
  ASSUME NEW tx, Deciphered(tx)
  PROVE  /\ DefaultOutput(tx) \in SUBSET OutputsOf(tx)
         /\ \A o \in DefaultOutput(tx) : DefaultOutput(tx) = {o}
<1>1. Destinations(tx) \in SUBSET OutputsOf(tx) /\ OutputsOf(tx) \in SUBSET Nat
  BY OutputsFinite
<1>2. tx.pointer \in SUBSET OutputsOf(tx) /\ \A o, p \in tx.pointer : o = p
  BY DEF Deciphered
<1>3. CASE tx.pointer # {}
  BY <1>2, <1>3 DEF DefaultOutput
<1>4. CASE tx.pointer = {}
  <2>1. DefaultOutput(tx) = {o \in Destinations(tx) : \A d \in Destinations(tx) : o <= d}
    BY <1>4 DEF DefaultOutput
  <2>2. ASSUME NEW o \in DefaultOutput(tx), NEW p \in DefaultOutput(tx)
        PROVE  o = p
    <3>1. o <= p /\ p <= o /\ o \in Nat /\ p \in Nat
      BY <1>1, <2>1
    <3> QED BY <3>1
  <2> QED BY <1>1, <2>1, <2>2
<1> QED BY <1>3, <1>4

(* Where what the edicts leave goes; what is then on the outputs, and what *)
(* is burned before the OP_RETURNs.                                        *)
TargetOf(tx) == IF tx.cenotaph THEN {} ELSE DefaultOutput(tx)

AllocatedAtLast(tx, etched, held) ==
  LET st == AfterEdicts(tx, etched, held)
  IN [o \in OutputsOf(tx) |->
        IF o \in TargetOf(tx) THEN Added(st.allocated[o], Positive(st.unallocated))
                              ELSE st.allocated[o]]

RestAtLast(tx, etched, held) ==
  LET st == AfterEdicts(tx, etched, held)
  IN CASE tx.cenotaph -> st.unallocated
       [] ~tx.cenotaph /\ TargetOf(tx) = {} -> Positive(st.unallocated)
       [] ~tx.cenotaph /\ TargetOf(tx) # {} -> << >>

LEMMA AtLast ==
  ASSUME NEW tx, Deciphered(tx), NEW etched, NEW held, held \in AmountsOf(DOMAIN held)
  PROVE  /\ AllocatedAtLast(tx, etched, held) \in [OutputsOf(tx) -> PositivesOf(DOMAIN held)]
         /\ DOMAIN RestAtLast(tx, etched, held) \subseteq DOMAIN held
         /\ \A i \in DOMAIN RestAtLast(tx, etched, held) :
              RestAtLast(tx, etched, held)[i] \in Nat
         /\ \A i \in DOMAIN held :
              /\ Amount(RestAtLast(tx, etched, held), i) \in Nat
              /\ held[i] = Amount(RestAtLast(tx, etched, held), i) +
                             OnAllocated(tx, AllocatedAtLast(tx, etched, held), i)
<1> DEFINE K == DOMAIN held
           Outs == OutputsOf(tx)
           st == AfterEdicts(tx, etched, held)
           target == TargetOf(tx)
           gift == Positive(st.unallocated)
           allocated == [o \in Outs |-> IF o \in target THEN Added(st.allocated[o], gift)
                                                        ELSE st.allocated[o]]
           rest == CASE tx.cenotaph -> st.unallocated
                     [] ~tx.cenotaph /\ target = {} -> gift
                     [] ~tx.cenotaph /\ target # {} -> << >>
<1>1. AllocatedAtLast(tx, etched, held) = allocated /\ RestAtLast(tx, etched, held) = rest
  BY Zenon DEF AllocatedAtLast, RestAtLast
<1>2. /\ st.unallocated \in [K -> Nat]
      /\ st.allocated \in [Outs -> PositivesOf(K)]
      /\ \A i \in K : held[i] = st.unallocated[i] + OnAllocated(tx, st.allocated, i)
  <2>1. st \in Conserving(tx, held)
    BY AfterEdictsConserve
  <2> HIDE DEF st
  <2> QED BY <2>1 DEF Conserving
<1>3. target \in SUBSET Outs /\ \A o \in target : target = {o}
  BY DefaultOutputFacts DEF TargetOf
<1>4. /\ gift \in PositivesOf(K)
      /\ \A id : Amount(gift, id) = Amount(st.unallocated, id)
  <2> HIDE DEF st, K
  <2> DEFINE P == {i \in K : st.unallocated[i] > 0}
  <2>1. gift = [i \in P |-> st.unallocated[i]]
    BY <1>2 DEF Positive
  <2>2. gift \in [P -> Nat \ {0}] /\ P \in SUBSET K
    BY <1>2, <2>1
  <2>3. \A id : Amount(gift, id) = Amount(st.unallocated, id)
    BY <1>2, <2>1 DEF Amount
  <2> HIDE DEF gift, P
  <2> QED BY <2>2, <2>3, Zenon DEF PositivesOf
<1> HIDE DEF st, gift, target
<1>5. /\ allocated \in [Outs -> PositivesOf(K)]
      /\ \A i : OnAllocated(tx, st.allocated, i) \in Nat
      /\ \A i : OnAllocated(tx, allocated, i) = OnAllocated(tx, st.allocated, i) +
                  SumFunctionOnSet([o \in target |-> Amount(gift, i)], target)
  <2> DEFINE a == st.allocated
             g == [o \in target |-> gift]
             b == allocated
  <2>1. a \in [OutputsOf(tx) -> PositivesOf(K)] /\ target \in SUBSET OutputsOf(tx)
    BY <1>2, <1>3
  <2>2. g \in [target -> PositivesOf(K)] /\ \A o \in target : g[o] = gift
    BY <1>4
  <2>3. b = [o \in OutputsOf(tx) |-> IF o \in target THEN Added(a[o], g[o]) ELSE a[o]]
    OBVIOUS
  <2> HIDE DEF a, b, g
  <2>4. /\ b \in [OutputsOf(tx) -> PositivesOf(K)]
        /\ \A i : OnAllocated(tx, a, i) \in Nat
        /\ \A i : OnAllocated(tx, b, i) = OnAllocated(tx, a, i) +
                    SumFunctionOnSet([o \in target |-> Amount(g[o], i)], target)
    BY <2>1, <2>2, <2>3, OnAllocatedAdded
  <2>5. \A i : [o \in target |-> Amount(g[o], i)] = [o \in target |-> Amount(gift, i)]
    BY <2>2
  <2>6. \A i : OnAllocated(tx, b, i) = OnAllocated(tx, a, i) +
                 SumFunctionOnSet([o \in target |-> Amount(gift, i)], target)
    BY <2>4, <2>5
  <2> HIDE DEF allocated
  <2> QED BY <2>4, <2>6 DEF a, b
<1>6. ASSUME NEW i \in K
      PROVE  /\ Amount(rest, i) \in Nat
             /\ held[i] = Amount(rest, i) + OnAllocated(tx, allocated, i)
  <2> DEFINE f == [o \in target |-> Amount(gift, i)]
             u == st.unallocated[i]
  <2>0. u \in Nat /\ Amount(st.unallocated, i) = u
    BY <1>2 DEF Amount
  <2>1. OnAllocated(tx, allocated, i) =
          OnAllocated(tx, st.allocated, i) + SumFunctionOnSet(f, target)
    BY <1>5
  <2>2. CASE target = {}
    <3>1. SumFunctionOnSet(f, target) = 0
      BY <2>2, SumOfNone
    <3>2. rest = st.unallocated \/ rest = gift
      BY <2>2
    <3>3. Amount(rest, i) = u
      BY <1>4, <2>0, <3>2
    <3> HIDE DEF f, rest, allocated, u
    <3> QED BY <1>2, <1>5, <2>0, <2>1, <3>1, <3>3 DEF u
  <2>3. ASSUME NEW o \in target
        PROVE  /\ Amount(rest, i) \in Nat
               /\ held[i] = Amount(rest, i) + OnAllocated(tx, allocated, i)
    <3>1. target = {o} /\ IsFiniteSet(target) /\ Cardinality(target) = 1
      BY <1>3, FS_Singleton
    <3>2. \A p \in target : f[p] = u
      BY <1>4, <2>0
    <3>3. SumFunctionOnSet(f, target) = Cardinality(target) * u
      <4> HIDE DEF f, u
      <4> QED BY <2>0, <3>1, <3>2, SumConstant
    <3>4. ~tx.cenotaph
      BY DEF target, TargetOf
    <3>5. rest = << >>
      BY <3>1, <3>4
    <3>6. Amount(rest, i) = 0
      BY <3>5, NothingIsPositive
    <3> HIDE DEF f, rest, allocated, u
    <3> QED BY <1>2, <1>5, <2>0, <2>1, <3>1, <3>3, <3>6 DEF u
  <2> QED BY <2>2, <2>3
<1>7. DOMAIN rest \subseteq K /\ \A i \in DOMAIN rest : rest[i] \in Nat
  <2>1. rest = st.unallocated \/ rest = gift \/ rest = << >>
    OBVIOUS
  <2>2. DOMAIN gift \subseteq K /\ \A i \in DOMAIN gift : gift[i] \in Nat
    BY <1>4, PositivesType
  <2>3. DOMAIN << >> = {}
    OBVIOUS
  <2> HIDE DEF rest
  <2> QED BY <1>2, <2>1, <2>2, <2>3
<1> QED BY <1>1, <1>5, <1>6, <1>7 DEF Outs, K

(* What a transaction holds of a rune comes, whatever its edicts say, to   *)
(* outputs that are not OP_RETURNs or is burned, and only outputs that get *)
(* something are kept (rune_updater.rs:52-209).                            *)
THEOREM DistributionFacts ==
  ASSUME NEW tx, Deciphered(tx), NEW etched, NEW held, held \in AmountsOf(DOMAIN held)
  PROVE  Distributes(tx, held, Distribution(tx, etched, held))
<1> DEFINE K == DOMAIN held
           Outs == OutputsOf(tx)
           allocated == AllocatedAtLast(tx, etched, held)
           rest == RestAtLast(tx, etched, held)
           thrown == AllAdded(allocated, tx.op_return)
           Kept == {d \in Destinations(tx) : DOMAIN allocated[d] # {}}
           kept == [o \in Kept |-> allocated[o]]
           d == Distribution(tx, etched, held)
<1>1. d = [kept |-> kept, burned |-> Added(rest, thrown)]
  BY Zenon DEF Distribution, AllAdded, AllocatedAtLast, RestAtLast, TargetOf
<1>5. allocated \in [Outs -> PositivesOf(K)]
  BY AtLast
<1>6. \A i \in K : /\ Amount(rest, i) \in Nat
                   /\ held[i] = Amount(rest, i) + OnAllocated(tx, allocated, i)
  BY AtLast
<1>7. DOMAIN rest \subseteq K /\ \A i \in DOMAIN rest : rest[i] \in Nat
  BY AtLast
<1> HIDE DEF d
<1> HIDE DEF allocated, rest
<1>8. /\ thrown \in AmountsOf(K)
      /\ \A id, h : (\A o \in tx.op_return : h[o] = Amount(allocated[o], id)) =>
           Amount(thrown, id) = SumFunctionOnSet(h, tx.op_return)
  <2>1. IsFiniteSet(tx.op_return) /\ tx.op_return \in SUBSET Outs
    BY OutputsFinite
  <2>2. \A o \in tx.op_return : DOMAIN allocated[o] \subseteq K
          /\ \A id \in DOMAIN allocated[o] : allocated[o][id] \in Nat
    BY <1>5, <2>1, PositivesType
  <2> HIDE DEF K
  <2>3. thrown \in AmountsOf(K)
    BY <2>1, <2>2, AddedUpType
  <2>4. ASSUME NEW id, NEW h, \A o \in tx.op_return : h[o] = Amount(allocated[o], id)
        PROVE  Amount(thrown, id) = SumFunctionOnSet(h, tx.op_return)
    BY <2>1, <2>2, <2>4, AddedUp
  <2> QED BY <2>3, <2>4
<1> HIDE DEF thrown
<1>9. ASSUME NEW i
      PROVE  OnAllocated(tx, allocated, i) = Amount(thrown, i) +
               SumFunctionOnSet([o \in DOMAIN kept |-> Amount(kept[o], i)], DOMAIN kept)
  <2> DEFINE f == [o \in Outs |-> Amount(allocated[o], i)]
             D == Destinations(tx)
             R == tx.op_return
             fk == [o \in DOMAIN kept |-> Amount(kept[o], i)]
             fr == [o \in R |-> Amount(allocated[o], i)]
  <2>0. DOMAIN kept = Kept
    OBVIOUS
  <2>1. /\ Outs = R \cup D /\ R \cap D = {}
        /\ IsFiniteSet(R) /\ IsFiniteSet(D) /\ R \in SUBSET Outs /\ D \in SUBSET Outs
    BY OutputsFinite DEF Destinations
  <2>2. \A o \in Outs : f[o] \in Nat
    BY <1>5, PositivesType
  <2>3. \A o \in D \ Kept : f[o] = 0
    BY <2>1 DEF Amount
  <2>4. Kept \in SUBSET D /\ \A o \in Kept : fk[o] = f[o]
    BY <2>1
  <2>5. \A o \in R : fr[o] = f[o]
    BY <2>1
  <2>6. OnAllocated(tx, allocated, i) = SumFunctionOnSet(f, Outs)
    BY Zenon DEF OnAllocated
  <2>7. Amount(thrown, i) = SumFunctionOnSet(fr, R)
    <3>1. \A o \in tx.op_return : fr[o] = Amount(allocated[o], i)
      OBVIOUS
    <3> HIDE DEF fr
    <3> QED BY <1>8, <3>1
  <2> HIDE DEF f, fk, fr, D, R, Outs, Kept, kept
  <2>8. SumFunctionOnSet(f, R \cup D) = SumFunctionOnSet(f, R) + SumFunctionOnSet(f, D)
    BY <2>1, <2>2, SumUnion
  <2>9. SumFunctionOnSet(f, R) = SumFunctionOnSet(fr, R)
    <3>1. \A o \in R : f[o] \in Nat /\ f[o] = fr[o]
      BY <2>1, <2>2, <2>5
    <3> QED BY <2>1, <3>1, SumSame
  <2>10. SumFunctionOnSet(f, D) = SumFunctionOnSet(f, Kept)
    <3>1. \A o \in Kept : f[o] \in Nat
      BY <2>1, <2>2, <2>4
    <3> QED BY <2>1, <2>3, <2>4, <3>1, SumSupport
  <2>11. SumFunctionOnSet(f, Kept) = SumFunctionOnSet(fk, Kept)
    <3>1. \A o \in Kept : f[o] \in Nat /\ f[o] = fk[o]
      BY <2>1, <2>2, <2>4
    <3>2. IsFiniteSet(Kept)
      BY <2>1, <2>4, FS_Subset
    <3> QED BY <3>1, <3>2, SumSame
  <2> QED BY <2>0, <2>1, <2>6, <2>7, <2>8, <2>9, <2>10, <2>11 DEF fk
<1>10. /\ DOMAIN kept \subseteq Destinations(tx)
       /\ \A o \in DOMAIN kept : kept[o] \in PositivesOf(K) /\ DOMAIN kept[o] # {}
  <2>1. \A o \in Kept : o \in Outs
    BY OutputsFinite
  <2> QED BY <1>5, <2>1
<1> DEFINE burned == Added(rest, thrown)
<1>11. /\ burned \in AmountsOf(K)
       /\ \A id : Amount(burned, id) = Amount(rest, id) + Amount(thrown, id)
  <2>1. DOMAIN thrown \subseteq K /\ \A id \in DOMAIN thrown : thrown[id] \in Nat
    BY <1>8, AmountType
  <2>2. /\ DOMAIN burned = DOMAIN rest \cup DOMAIN thrown
        /\ burned = [id \in DOMAIN burned |-> burned[id]]
        /\ \A id \in DOMAIN burned : burned[id] \in Nat
    BY <1>7, <2>1, AddedType
  <2>3. \A id : Amount(burned, id) = Amount(rest, id) + Amount(thrown, id)
    BY AmountAdded
  <2> HIDE DEF burned
  <2>4. burned \in [DOMAIN burned -> Nat] /\ DOMAIN burned \in SUBSET K
    BY <1>7, <2>1, <2>2
  <2> QED BY <2>3, <2>4, Zenon DEF AmountsOf
<1> HIDE DEF kept, burned, K
<1>12. \A i \in K : held[i] = Amount(burned, i) +
         SumFunctionOnSet([o \in DOMAIN kept |-> Amount(kept[o], i)], DOMAIN kept)
  <2> SUFFICES ASSUME NEW i \in K
               PROVE  held[i] = Amount(burned, i) +
                        SumFunctionOnSet([o \in DOMAIN kept |-> Amount(kept[o], i)], DOMAIN kept)
    OBVIOUS
  <2> DEFINE total == SumFunctionOnSet([o \in DOMAIN kept |-> Amount(kept[o], i)], DOMAIN kept)
  <2>1. total \in Nat
    <3> DEFINE f == [o \in DOMAIN kept |-> Amount(kept[o], i)]
    <3>1. \A o \in DOMAIN kept : f[o] \in Nat
      BY <1>10, PositivesType
    <3>2. IsFiniteSet(DOMAIN kept)
      BY <1>10, OutputsFinite, FS_Subset
    <3> HIDE DEF f
    <3>3. SumFunctionOnSet(f, DOMAIN kept) \in Nat
      BY <3>1, <3>2, SumType
    <3> QED BY <3>3 DEF f
  <2>2. Amount(thrown, i) \in Nat
    BY <1>8, AmountType
  <2>3. OnAllocated(tx, allocated, i) = Amount(thrown, i) + total
    BY <1>9
  <2>4. Amount(burned, i) = Amount(rest, i) + Amount(thrown, i)
    BY <1>11
  <2> HIDE DEF total
  <2>5. held[i] = Amount(burned, i) + total
    BY <1>6, <2>1, <2>2, <2>3, <2>4
  <2> QED BY <2>5 DEF total
<1>13. d.kept = kept /\ d.burned = burned
  BY <1>1 DEF kept, burned
<1> QED BY <1>10, <1>11, <1>12, <1>13 DEF Distributes, K, d

=============================================================================
