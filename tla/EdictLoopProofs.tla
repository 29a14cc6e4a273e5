---------------------------- MODULE EdictLoopProofs ----------------------------
(***************************************************************************)
(* Machine-checked proofs about EdictLoop: the loops of index_runes        *)
(* compute the distribution that Edicts writes in one expression, for      *)
(* transactions with any number of outputs and edicts, and no checked      *)
(* operation of Lot panics on the way.                                     *)
(***************************************************************************)
EXTENDS EdictLoop, EdictsProofs

-----------------------------------------------------------------------------
(* The destinations in their order.                                        *)
Sorted(D, n, s) ==
  /\ n \in Nat /\ n = Cardinality(D)
  /\ s \in [1..n -> D]
  /\ \A i \in 1..n : Rank(D, s[i]) = i - 1

LEMMA EveryRankOccurs ==
  ASSUME NEW D \in SUBSET Nat, IsFiniteSet(D), NEW k \in 0..(Cardinality(D) - 1)
  PROVE  \E o \in D : Rank(D, o) = k
<1>1. SUFFICES ASSUME \A o \in D : Rank(D, o) # k PROVE FALSE
  OBVIOUS
<1> DEFINE n == Cardinality(D)
           I == 0..(n - 1)
           T == I \ {k}
           f == [o \in D |-> Rank(D, o)]
<1>2. n \in Nat
  BY FS_CardinalityType
<1>3. IsFiniteSet(T) /\ Cardinality(T) < n
  <2>1. 0 \in Int /\ n - 1 \in Int /\ k \in 0..(n - 1)
    BY <1>2
  <2>2. IsFiniteSet(I) /\ Cardinality(I) = n
    <3> HIDE DEF n
    <3>1. ~(0 > n - 1) /\ (n - 1) - 0 + 1 = n
      BY <1>2, <2>1
    <3> QED BY <2>1, <3>1, FS_Interval
  <2>3. k \in I
    OBVIOUS
  <2> HIDE DEF n, I
  <2>4. IsFiniteSet(T) /\ Cardinality(T) = n - 1
    BY <2>2, <2>3, FS_RemoveElement
  <2> QED BY <1>2, <2>4
<1>4. f \in [D -> T]
  BY <1>1, <1>2, RankFacts
<1>5. \A o \in D : f[o] = Rank(D, o)
  OBVIOUS
<1> HIDE DEF T, f
<1>6. \E x, y \in D : x # y /\ f[x] = f[y]
  BY <1>3, <1>4, FS_PigeonHole
<1> QED BY <1>5, <1>6, RankFacts

LEMMA OutputsSorted ==
  ASSUME Deciphered(tx)
  PROVE  /\ Sorted(Destinations(tx), Cardinality(Destinations(tx)), Outputs)
         /\ DOMAIN Outputs = 1..Cardinality(Destinations(tx))
         /\ Len(Outputs) = Cardinality(Destinations(tx))
         /\ Outputs = << >> <=> Destinations(tx) = {}
<1> DEFINE D == Destinations(tx)
           n == Cardinality(D)
<1>1. D \in SUBSET Nat /\ IsFiniteSet(D)
  BY OutputsFinite
<1>2. n \in Nat
  BY <1>1, FS_CardinalityType
<1>3. Outputs = [i \in 1..n |-> CHOOSE o \in D : Rank(D, o) = i - 1]
  BY DEF Outputs, Rank
<1>4. n = 0 <=> D = {}
  BY <1>1, FS_EmptySet
<1> HIDE DEF D
<1>5. ASSUME NEW i \in 1..n
      PROVE  Outputs[i] \in D /\ Rank(D, Outputs[i]) = i - 1
  <2>1. i - 1 \in 0..(n - 1)
    BY <1>2
  <2>2. \E o \in D : Rank(D, o) = i - 1
    BY <1>1, <2>1, EveryRankOccurs
  <2>3. Outputs[i] = CHOOSE o \in D : Rank(D, o) = i - 1
    BY <1>3
  <2> QED BY <2>2, <2>3
<1> HIDE DEF n
<1>6. DOMAIN Outputs = 1..n /\ Outputs \in [1..n -> D]
  BY <1>3, <1>5
<1>7. Len(Outputs) = n
  BY <1>2, <1>6
<1>8. Outputs = << >> <=> n = 0
  BY <1>2, <1>6, <1>7
<1>9. Sorted(D, n, Outputs)
  BY <1>2, <1>5, <1>6 DEF Sorted, n
<1> QED BY <1>4, <1>6, <1>7, <1>8, <1>9 DEF n, D

(* The first k of them are those of a rank below k.                        *)
LEMMA SortedInTurn ==
  ASSUME NEW D \in SUBSET Nat, IsFiniteSet(D), NEW n, NEW s, Sorted(D, n, s)
  PROVE  /\ Lowest(D, 0) = {}
         /\ Lowest(D, n) = D
         /\ \A k \in 1..n : /\ s[k] \in D /\ s[k] \notin Lowest(D, k - 1)
                            /\ Lowest(D, k) = Lowest(D, k - 1) \cup {s[k]}
<1>1. ASSUME NEW k \in 1..n
      PROVE  /\ s[k] \in D /\ s[k] \notin Lowest(D, k - 1)
             /\ Lowest(D, k) = Lowest(D, k - 1) \cup {s[k]}
  <2>1. s[k] \in D /\ Rank(D, s[k]) = k - 1 /\ k \in Nat /\ k - 1 \in Nat /\ (k - 1) + 1 = k
    BY DEF Sorted
  <2>2. s[k] \notin Lowest(D, k - 1)
    BY <2>1 DEF Lowest
  <2>3. s[k] \in Lowest(D, k)
    BY <2>1 DEF Lowest
  <2>4. \/ Lowest(D, k) = Lowest(D, k - 1)
        \/ \E o \in D : /\ o \notin Lowest(D, k - 1)
                        /\ Rank(D, o) = k - 1
                        /\ Lowest(D, k) = Lowest(D, k - 1) \cup {o}
    <3>1. \A j \in Nat :
            \/ Lowest(D, j + 1) = Lowest(D, j)
            \/ \E o \in D : /\ o \notin Lowest(D, j)
                            /\ Rank(D, o) = j
                            /\ Lowest(D, j + 1) = Lowest(D, j) \cup {o}
      BY LowestFacts
    <3> QED BY <2>1, <3>1
  <2> QED BY <2>1, <2>2, <2>3, <2>4
<1>2. Lowest(D, 0) = {} /\ Lowest(D, n) = D
  BY LowestFacts DEF Sorted
<1> QED BY <1>1, <1>2

-----------------------------------------------------------------------------
(* What one edict has given out when k outputs have had their share.       *)
Given(D, share, balance, k) ==
  [balance |-> balance - SumFunctionOnSet(share, Lowest(D, k)),
   shares |-> Positive([o \in Lowest(D, k) |-> share[o]]),
   fits |-> TRUE]

(* Shares of a balance that is a Lot.                                      *)
Affords(D, share, balance) ==
  /\ balance \in 0..MaxLot
  /\ share \in [D -> Nat]
  /\ SumFunctionOnSet(share, D) <= balance

LEMMA SumPart ==
  ASSUME NEW D, IsFiniteSet(D), NEW S \in SUBSET D, NEW f, \A x \in D : f[x] \in Nat
  PROVE  /\ SumFunctionOnSet(f, S) \in Nat
         /\ SumFunctionOnSet(f, S) <= SumFunctionOnSet(f, D)
<1>1. IsFiniteSet(S) /\ IsFiniteSet(D \ S)
  BY FS_Subset
<1>2. S \cap (D \ S) = {} /\ S \cup (D \ S) = D
  OBVIOUS
<1>3. SumFunctionOnSet(f, S \cup (D \ S)) =
        SumFunctionOnSet(f, S) + SumFunctionOnSet(f, D \ S)
  BY <1>1, <1>2, SumUnion
<1>4. SumFunctionOnSet(f, S) \in Nat /\ SumFunctionOnSet(f, D \ S) \in Nat
  BY <1>1, SumType
<1>5. SumFunctionOnSet(f, D) = SumFunctionOnSet(f, S) + SumFunctionOnSet(f, D \ S)
  BY <1>2, <1>3, Zenon
<1> QED BY <1>4, <1>5

LEMMA GiveGoesOn ==
  ASSUME NEW D \in SUBSET Nat, IsFiniteSet(D), NEW n, NEW s, Sorted(D, n, s),
         NEW share, NEW balance, Affords(D, share, balance), NEW k \in 1..n
  PROVE  Give(Given(D, share, balance, k - 1), share[s[k]], s[k])
           = Given(D, share, balance, k)
<1> DEFINE o == s[k]
           S == Lowest(D, k - 1)
           T == Lowest(D, k)
           before == SumFunctionOnSet(share, S)
           after == SumFunctionOnSet(share, T)
           a == Positive([p \in S |-> share[p]])
           b == Positive([p \in T |-> share[p]])
<1>1. o \in D /\ o \notin S /\ T = S \cup {o}
  BY SortedInTurn
<1>2. S \in SUBSET D /\ T \in SUBSET D
  BY DEF Lowest
<1>3. \A p \in D : share[p] \in Nat
  BY DEF Affords
<1> HIDE DEF o, S, T
<1>4. /\ before \in Nat /\ after \in Nat
      /\ after <= SumFunctionOnSet(share, D)
      /\ SumFunctionOnSet(share, D) \in Nat
  BY <1>2, <1>3, SumPart
<1>5. after = share[o] + before
  <2>1. IsFiniteSet(S)
    BY <1>2, FS_Subset
  <2>2. \A p \in S \cup {o} : share[p] \in Nat
    BY <1>1, <1>2, <1>3
  <2> QED BY <1>1, <2>1, <2>2, SumAdd
<1> HIDE DEF before, after
<1>6. balance \in Nat /\ balance <= MaxLot /\ MaxLot \in Nat
      /\ SumFunctionOnSet(share, D) <= balance
  BY LotAssumption DEF Affords
<1>7. share[o] \in Nat
  BY <1>1, <1>3
<1>8. Fits(balance - before - share[o]) /\ balance - before - share[o] = balance - after
  BY <1>4, <1>5, <1>6, <1>7 DEF Fits
<1>9. ASSUME share[o] = 0 PROVE a = b
  <2>1. {p \in S : share[p] > 0} = {p \in T : share[p] > 0}
    BY <1>1, <1>9
  <2> QED BY <1>1, <2>1 DEF Positive
<1>10. ASSUME share[o] # 0 PROVE Added(a, [p \in {o} |-> share[o]]) = b
  <2>1. /\ DOMAIN a = {p \in S : share[p] > 0} /\ \A p \in DOMAIN a : a[p] = share[p]
        /\ DOMAIN b = {p \in T : share[p] > 0} /\ \A p \in DOMAIN b : b[p] = share[p]
        /\ b = [p \in DOMAIN b |-> b[p]]
    BY DEF Positive
  <2> HIDE DEF a, b
  <2>2. DOMAIN b = DOMAIN a \cup {o} /\ o \notin DOMAIN a
    BY <1>1, <1>7, <1>10, <2>1
  <2>3. b[o] = share[o] /\ \A p \in DOMAIN a : b[p] = a[p] /\ a[p] \in Nat /\ p # o
    BY <1>2, <1>3, <2>1, <2>2
  <2> DEFINE g == [p \in {o} |-> share[o]]
  <2>4. DOMAIN g = {o} /\ g[o] = share[o]
    OBVIOUS
  <2> HIDE DEF g
  <2>5. \A p \in DOMAIN b : Amount(a, p) + Amount(g, p) = b[p]
    BY <1>7, <2>2, <2>3, <2>4 DEF Amount
  <2> QED BY <2>1, <2>2, <2>4, <2>5 DEF Added, g
<1> HIDE DEF a, b
<1>11. /\ Given(D, share, balance, k - 1)
            = [balance |-> balance - before, shares |-> a, fits |-> TRUE]
       /\ Given(D, share, balance, k)
            = [balance |-> balance - after, shares |-> b, fits |-> TRUE]
  BY DEF Given, before, after, a, b, S, T
<1> DEFINE st == [balance |-> balance - before, shares |-> a, fits |-> TRUE]
<1>12. Give(st, share[o], o) = [balance |-> balance - after, shares |-> b, fits |-> TRUE]
  <2>1. CASE share[o] = 0
    <3>1. Give(st, share[o], o) = st
      BY <2>1 DEF Give
    <3>2. balance - before = balance - after
      BY <1>4, <1>5, <1>6, <2>1
    <3> QED BY <1>9, <2>1, <3>1, <3>2
  <2>2. CASE share[o] # 0
    BY <1>8, <1>10, <2>2 DEF Give
  <2> QED BY <2>1, <2>2
<1> QED BY <1>11, <1>12 DEF o

(* When every output has had its share, all shares are given.              *)
LEMMA GivenInTheEnd ==
  ASSUME NEW D \in SUBSET Nat, IsFiniteSet(D), NEW n, NEW s, Sorted(D, n, s),
         NEW share, NEW balance, Affords(D, share, balance)
  PROVE  /\ Given(D, share, balance, 0) = Before(balance)
         /\ Given(D, share, balance, n) =
              [balance |-> balance - SumFunction(Positive(share)),
               shares |-> Positive(share), fits |-> TRUE]
<1>1. Lowest(D, 0) = {} /\ Lowest(D, n) = D
  BY SortedInTurn
<1>2. share \in [D -> Nat] /\ balance \in Nat
  BY DEF Affords
<1>3. Given(D, share, balance, 0) = Before(balance)
  <2>1. SumFunctionOnSet(share, {}) = 0
    BY SumOfNone
  <2>2. Positive([o \in {} |-> share[o]]) = << >>
    <3>1. DOMAIN Positive([o \in {} |-> share[o]]) = {}
      BY DEF Positive
    <3> QED BY <3>1 DEF Positive
  <2>3. balance - 0 = balance
    BY <1>2
  <2> QED BY <1>1, <2>1, <2>2, <2>3 DEF Given, Before
<1>4. [o \in D |-> share[o]] = share
  BY <1>2
<1>5. SumFunction(Positive(share)) = SumFunctionOnSet(share, D)
  BY <1>2, PositiveSum
<1> QED BY <1>1, <1>3, <1>4, <1>5 DEF Given

-----------------------------------------------------------------------------
(* Equal shares: what is left of the balance when k outputs have theirs.   *)
LEMMA EqualSharesInTurn ==
  ASSUME NEW D \in SUBSET Nat, IsFiniteSet(D), NEW n, NEW s, Sorted(D, n, s),
         NEW amount \in Nat, NEW balance \in Nat, NEW k \in 1..n
  PROVE  EqualShares(D, amount, balance)[s[k]] =
           LET left == balance - SumFunctionOnSet(EqualShares(D, amount, balance),
                                                  Lowest(D, k - 1))
           IN IF amount <= left THEN amount ELSE left
<1> DEFINE share == EqualShares(D, amount, balance)
           Upto(j) == SumFunctionOnSet(share, Lowest(D, j))
           Left(j) == IF j * amount <= balance THEN balance - j * amount ELSE 0
           N == {j \in Nat : j <= n => Upto(j) \in Nat /\ balance - Upto(j) = Left(j)}
<1>1. n \in Nat /\ \A j \in 1..n : s[j] \in D /\ Rank(D, s[j]) = j - 1
  BY DEF Sorted
<1>2. \A j \in 1..n :
        share[s[j]] = LET left == balance - (j - 1) * amount
                      IN IF left <= 0 THEN 0 ELSE IF left <= amount THEN left ELSE amount
  <2> SUFFICES ASSUME NEW j \in 1..n
               PROVE  share[s[j]] =
                        LET left == balance - (j - 1) * amount
                        IN IF left <= 0 THEN 0 ELSE IF left <= amount THEN left ELSE amount
    OBVIOUS
  <2>1. s[j] \in D /\ Rank(D, s[j]) = j - 1
    BY <1>1
  <2>2. ASSUME NEW o \in D
        PROVE  share[o] = LET left == balance - Rank(D, o) * amount
                          IN IF left <= 0 THEN 0
                             ELSE IF left <= amount THEN left ELSE amount
    BY EqualShareOf, Zenon
  <2> HIDE DEF share
  <2>3. share[s[j]] = LET left == balance - Rank(D, s[j]) * amount
                      IN IF left <= 0 THEN 0 ELSE IF left <= amount THEN left ELSE amount
    BY <2>1, <2>2, Zenon
  <2> QED BY <2>1, <2>3
<1>3. \A o \in D : share[o] \in Nat
  BY EqualSharesFit
<1> HIDE DEF share
<1>4. 0 \in N
  <2>1. Upto(0) = 0
    BY SortedInTurn, SumOfNone
  <2>2. 0 * amount = 0
    OBVIOUS
  <2> QED BY <2>1, <2>2
<1>5. ASSUME NEW j \in Nat, j \in N
      PROVE  j + 1 \in N
  <2>1. SUFFICES ASSUME j + 1 <= n
                 PROVE  Upto(j + 1) \in Nat /\ balance - Upto(j + 1) = Left(j + 1)
    OBVIOUS
  <2>2. j + 1 \in 1..n /\ (j + 1) - 1 = j /\ j <= n
    BY <1>1, <2>1
  <2>3. s[j + 1] \in D /\ s[j + 1] \notin Lowest(D, j)
        /\ Lowest(D, j + 1) = Lowest(D, j) \cup {s[j + 1]}
    <3>1. \A i \in 1..n : s[i] \in D /\ s[i] \notin Lowest(D, i - 1)
            /\ Lowest(D, i) = Lowest(D, i - 1) \cup {s[i]}
      BY SortedInTurn
    <3> QED BY <2>2, <3>1
  <2>4. Upto(j + 1) = share[s[j + 1]] + Upto(j)
    <3>1. IsFiniteSet(Lowest(D, j)) /\ \A p \in Lowest(D, j) \cup {s[j + 1]} : share[p] \in Nat
      BY <1>3, <2>3, FewLowest DEF Lowest
    <3> QED BY <2>3, <3>1, SumAdd
  <2> DEFINE x == share[s[j + 1]]
             u == Upto(j)
             m == j * amount
  <2>5. x = LET left == balance - m
            IN IF left <= 0 THEN 0 ELSE IF left <= amount THEN left ELSE amount
    BY <1>2, <2>2
  <2>6. u \in Nat /\ balance - u = IF m <= balance THEN balance - m ELSE 0
    BY <1>5, <2>2
  <2>7. m \in Nat /\ (j + 1) * amount = m + amount
    OBVIOUS
  <2>8. x \in Nat
    BY <1>3, <2>3
  <2> HIDE DEF x, u, m
  <2>9. x + u \in Nat /\ balance - (x + u) =
          IF m + amount <= balance THEN balance - (m + amount) ELSE 0
    BY <2>5, <2>6, <2>7, <2>8
  <2> QED BY <2>4, <2>7, <2>9 DEF x, u
<1> HIDE DEF N
<1>6. k - 1 \in N
  <2>1. Nat \subseteq N
    BY <1>4, <1>5, SetInduction
  <2> QED BY <1>1, <2>1
<1> DEFINE u == Upto(k - 1)
           m == (k - 1) * amount
<1>7. u \in Nat /\ balance - u = IF m <= balance THEN balance - m ELSE 0
  BY <1>1, <1>6 DEF N
<1>8. m \in Nat
  BY <1>1
<1>9. share[s[k]] = LET left == balance - m
                    IN IF left <= 0 THEN 0 ELSE IF left <= amount THEN left ELSE amount
  BY <1>2
<1> HIDE DEF u, m
<1>10. share[s[k]] = IF amount <= balance - u THEN amount ELSE balance - u
  BY <1>7, <1>8, <1>9
<1> QED BY <1>10 DEF u, share

(* Even shares: the first ones get one more.                               *)
LEMMA EvenSharesInTurn ==
  ASSUME NEW D \in SUBSET Nat, IsFiniteSet(D), NEW n, NEW s, Sorted(D, n, s),
         NEW balance \in Nat, NEW k \in 1..n
  PROVE  EvenShares(D, balance)[s[k]] = balance \div n + Extra(k, balance % n)
<1>1. s[k] \in D /\ Rank(D, s[k]) = k - 1 /\ n = Cardinality(D)
  BY DEF Sorted
<1>2. EvenShares(D, balance)[s[k]] =
        balance \div Cardinality(D) +
          (IF Rank(D, s[k]) < balance % Cardinality(D) THEN 1 ELSE 0)
  BY <1>1 DEF EvenShares, Rank
<1> QED BY <1>1, <1>2, Zenon DEF Extra

(* A recursion over the first natural numbers that goes the steps of v.    *)
LEMMA RecursionAlong ==
  ASSUME NEW n \in Nat, NEW f, NEW v, f[{}] = v[0],
         \A k \in 1..n : f[1..(k - 1)] = v[k - 1] => f[1..k] = v[k]
  PROVE  f[1..n] = v[n]
<1> DEFINE N == {k \in Nat : k <= n => f[1..k] = v[k]}
<1>1. 0 \in N
  <2>1. 1..0 = {}
    OBVIOUS
  <2> QED BY <2>1
<1>2. ASSUME NEW k \in Nat, k \in N
      PROVE  k + 1 \in N
  <2>1. SUFFICES ASSUME k + 1 <= n PROVE f[1..(k + 1)] = v[k + 1]
    OBVIOUS
  <2>2. k + 1 \in 1..n /\ (k + 1) - 1 = k /\ k <= n
    BY <2>1
  <2>3. f[1..((k + 1) - 1)] = v[(k + 1) - 1] => f[1..(k + 1)] = v[k + 1]
    BY <2>2
  <2>4. f[1..k] = v[k]
    BY <1>2, <2>2
  <2> QED BY <2>2, <2>3, <2>4
<1> HIDE DEF N
<1>3. Nat \subseteq N
  BY <1>1, <1>2, SetInduction
<1> QED BY <1>3 DEF N

-----------------------------------------------------------------------------
(* What the loops over the outputs keep.                                   *)
LoopStates(D) ==
  [balance : Int, shares : UNION {[T -> Int] : T \in SUBSET D}, fits : BOOLEAN]

LEMMA GiveTyped ==
  ASSUME NEW D, NEW st \in LoopStates(D), NEW amount \in Int, NEW o \in D
  PROVE  Give(st, amount, o) \in LoopStates(D)
<1>1. CASE amount = 0
  BY <1>1 DEF Give
<1>2. CASE amount # 0
  <2>1. PICK T \in SUBSET D : st.shares \in [T -> Int]
    BY DEF LoopStates
  <2> DEFINE g == [p \in {o} |-> amount]
             h == Added(st.shares, g)
  <2>2. DOMAIN g = {o} /\ g[o] = amount
    OBVIOUS
  <2> HIDE DEF g
  <2>3. DOMAIN st.shares = T /\ \A p \in T : st.shares[p] \in Int
    BY <2>1
  <2>4. \A p : Amount(st.shares, p) \in Int /\ Amount(g, p) \in Int
    BY <2>2, <2>3 DEF Amount
  <2>5. h \in [T \cup {o} -> Int]
    BY <2>2, <2>3, <2>4 DEF Added
  <2>6. T \cup {o} \in SUBSET D
    OBVIOUS
  <2> HIDE DEF h
  <2>7. h \in UNION {[U -> Int] : U \in SUBSET D}
    BY <2>5, <2>6
  <2>8. st.balance - amount \in Int /\ (st.fits /\ Fits(st.balance - amount)) \in BOOLEAN
    BY DEF LoopStates
  <2>9. Give(st, amount, o) = [balance |-> st.balance - amount, shares |-> h,
                              fits |-> st.fits /\ Fits(st.balance - amount)]
    BY <1>2 DEF Give, h, g
  <2> QED BY <2>7, <2>8, <2>9 DEF LoopStates
<1> QED BY <1>1, <1>2

LEMMA BeforeTyped ==
  ASSUME NEW D, NEW balance \in Int
  PROVE  Before(balance) \in LoopStates(D)
<1>1. << >> \in [{} -> Int] /\ {} \in SUBSET D
  OBVIOUS
<1>2. << >> \in UNION {[T -> Int] : T \in SUBSET D}
  BY <1>1
<1> QED BY <1>2 DEF Before, LoopStates

Loops(g, n, s, balance, give) ==
  \A S \in SUBSET (1..n) :
    g[S] = IF S = {} THEN Before(balance)
           ELSE Give(g[S \ {Max(S)}],
                     give[<<Max(S), g[S \ {Max(S)}].balance>>], s[Max(S)])

(* A loop over the outputs s in which the i-th one is given what give says *)
(* of i and of what is left: it has a result, whatever it starts from.     *)
LEMMA GiveLoop ==
  ASSUME NEW D, NEW n \in Nat, NEW s \in [1..n -> D], NEW balance \in Int,
         NEW give \in [(1..n) \X Int -> Int]
  PROVE  \E g \in [SUBSET (1..n) -> LoopStates(D)] : Loops(g, n, s, balance, give)
<1> DEFINE I == 1..n
           V == LoopStates(D)
           c == [S \in SUBSET I |-> Max(S)]
           step == [a \in (SUBSET I) \X V |->
                      IF a[1] = {} THEN Before(balance)
                      ELSE Give(a[2], give[<<Max(a[1]), a[2].balance>>], s[Max(a[1])])]
<1>1. IsFiniteSet(I)
  BY FS_Interval
<1>2. \A S \in SUBSET I : S # {} => Max(S) \in S
  BY MaxOfInterval
<1>3. \A S \in SUBSET I : S # {} => c[S] \in S
  BY <1>2
<1>4. Before(balance) \in V
  BY BeforeTyped
<1> HIDE DEF I
<1>5. s \in [I -> D] /\ give \in [I \X Int -> Int]
  BY DEF I
<1>6. \A v \in V : v.balance \in Int
  BY DEF LoopStates
<1> HIDE DEF V
<1>7. ASSUME NEW S \in SUBSET I, NEW v \in V, S # {}
      PROVE  Give(v, give[<<Max(S), v.balance>>], s[Max(S)]) \in V
  <2>1. Max(S) \in I /\ v.balance \in Int
    BY <1>2, <1>6, <1>7
  <2>2. give[<<Max(S), v.balance>>] \in Int /\ s[Max(S)] \in D
    BY <1>5, <2>1
  <2> QED BY <2>2, GiveTyped DEF V
<1>8. step \in [(SUBSET I) \X V -> V]
  BY <1>4, <1>7
<1>9. \A S \in SUBSET I : \A v \in V : S # {} =>
        step[<<S, v>>] = Give(v, give[<<Max(S), v.balance>>], s[Max(S)])
  OBVIOUS
<1>10. \A S \in SUBSET I : c[S] = Max(S)
  OBVIOUS
<1> HIDE DEF c, step
<1>11. PICK g \in [SUBSET I -> V] : Folds(g, I, Before(balance), step, c)
  BY <1>1, <1>3, <1>4, <1>8, FoldExists
<1>12. ASSUME NEW S \in SUBSET I, S # {}
       PROVE  g[S] = Give(g[S \ {Max(S)}],
                          give[<<Max(S), g[S \ {Max(S)}].balance>>], s[Max(S)])
  <2>1. g[S] = step[<<S, g[S \ {c[S]}]>>] /\ c[S] = Max(S)
    BY <1>10, <1>11, <1>12 DEF Folds
  <2>2. g[S \ {Max(S)}] \in V
    OBVIOUS
  <2> QED BY <1>9, <1>12, <2>1, <2>2
<1>13. g[{}] = Before(balance)
  BY <1>11 DEF Folds
<1>14. Loops(g, n, s, balance, give)
  BY <1>12, <1>13 DEF Loops, I
<1> QED BY <1>14 DEF I, V

-----------------------------------------------------------------------------
(* The state of a loop over all outputs that gives each its share.         *)
AllGiven(share, balance) ==
  [balance |-> balance - SumFunction(Positive(share)),
   shares |-> Positive(share), fits |-> TRUE]

(* A loop f over the outputs that gives the k-th one its share of what is  *)
(* left after k - 1 steps ends with all shares given.                      *)
LEMMA LoopGivesAll ==
  ASSUME NEW D \in SUBSET Nat, IsFiniteSet(D), NEW n, NEW s, Sorted(D, n, s),
         NEW share, NEW balance, Affords(D, share, balance), NEW f,
         f[{}] = Before(balance),
         \A k \in 1..n : f[1..(k - 1)] = Given(D, share, balance, k - 1) =>
           f[1..k] = Give(Given(D, share, balance, k - 1), share[s[k]], s[k])
  PROVE  f[1..n] = AllGiven(share, balance)
<1> DEFINE v == [k \in 0..n |-> Given(D, share, balance, k)]
<1>1. n \in Nat
  BY DEF Sorted
<1>2. \A k \in 0..n : v[k] = Given(D, share, balance, k)
  OBVIOUS
<1> HIDE DEF v
<1>3. f[{}] = v[0]
  BY <1>1, <1>2, GivenInTheEnd
<1>4. ASSUME NEW k \in 1..n, f[1..(k - 1)] = v[k - 1]
      PROVE  f[1..k] = v[k]
  <2>1. k \in 0..n /\ k - 1 \in 0..n
    BY <1>1
  <2>2. f[1..k] = Give(Given(D, share, balance, k - 1), share[s[k]], s[k])
    BY <1>2, <1>4, <2>1
  <2>3. Give(Given(D, share, balance, k - 1), share[s[k]], s[k]) = Given(D, share, balance, k)
    BY GiveGoesOn
  <2> QED BY <1>2, <2>1, <2>2, <2>3
<1>5. f[1..n] = v[n]
  BY <1>1, <1>3, <1>4, RecursionAlong
<1>6. n \in 0..n
  BY <1>1
<1>7. f[1..n] = Given(D, share, balance, n)
  BY <1>2, <1>5, <1>6
<1> QED BY <1>7, GivenInTheEnd DEF AllGiven

(* Max and what is before it, for the first k numbers.                     *)
LEMMA FirstNumbers ==
  ASSUME NEW n \in Nat, NEW k \in 1..n
  PROVE  /\ 1..k \in SUBSET (1..n) /\ 1..k # {}
         /\ Max(1..k) = k /\ (1..k) \ {k} = 1..(k - 1)
<1>1. k \in 1..k /\ k \in Nat \ {0} /\ \A j \in 1..k : j \in 1..n
  OBVIOUS
<1>2. Max(1..k) = k /\ (1..k) \ {k} = 1..(k - 1)
  BY <1>1, MaxOfInterval
<1> QED BY <1>1, <1>2

(* The loop of an edict that gives every output the same amount.           *)
LEMMA PaidGivesAll ==
  ASSUME Deciphered(tx), NEW amount \in Nat, NEW balance \in 0..MaxLot
  PROVE  Paid(amount, balance) =
           AllGiven(EqualShares(Destinations(tx), amount, balance), balance)
<1> DEFINE D == Destinations(tx)
           n == Cardinality(D)
           I == 1..n
           s == Outputs
           share == EqualShares(D, amount, balance)
           give == [a \in I \X Int |-> IF amount <= a[2] THEN amount ELSE a[2]]
           Iter(f) == f = [S \in SUBSET I |->
                             IF S = {} THEN Before(balance)
                             ELSE Give(f[S \ {Max(S)}],
                                       Affordable(amount, f[S \ {Max(S)}].balance),
                                       s[Max(S)])]
           iter == CHOOSE f : Iter(f)
<1>1. D \in SUBSET Nat /\ IsFiniteSet(D)
  BY OutputsFinite
<1>2. Sorted(D, n, s) /\ DOMAIN s = I
  BY OutputsSorted
<1>3. n \in Nat /\ s \in [I -> D]
  BY <1>2 DEF Sorted
<1>4. balance \in Nat /\ balance \in Int /\ MaxLot \in Nat
  BY LotAssumption
<1>5. \A x \in Int : Affordable(amount, x) = IF amount <= x THEN amount ELSE x
  BY DEF Affordable, Min
<1>6. give \in [I \X Int -> Int]
  OBVIOUS
<1>7. \A i \in I : \A x \in Int : give[<<i, x>>] = Affordable(amount, x)
  BY <1>5
<1>8. Paid(amount, balance) = iter[DOMAIN s]
  BY <1>2, Zenon DEF Paid, FoldLeft, MapThenFoldSet
<1> HIDE DEF D, s, give, n, share
<1>9. \A S \in SUBSET I : S # {} => Max(S) \in S
  BY <1>3, MaxOfInterval
<1>10. PICK g \in [SUBSET I -> LoopStates(D)] : Loops(g, n, s, balance, give)
  BY <1>3, <1>4, <1>6, GiveLoop
<1>11. \A S \in SUBSET I :
         g[S] = IF S = {} THEN Before(balance)
                ELSE Give(g[S \ {Max(S)}],
                          give[<<Max(S), g[S \ {Max(S)}].balance>>], s[Max(S)])
  BY <1>10 DEF Loops
<1> HIDE DEF I
<1>12. \A v \in LoopStates(D) : v.balance \in Int
  BY DEF LoopStates
<1>13. ASSUME NEW S \in SUBSET I, S # {}
       PROVE  give[<<Max(S), g[S \ {Max(S)}].balance>>] =
                Affordable(amount, g[S \ {Max(S)}].balance)
  <2>1. Max(S) \in I /\ g[S \ {Max(S)}].balance \in Int
    BY <1>9, <1>12, <1>13
  <2> QED BY <1>7, <2>1
<1>14. Iter(g)
  BY <1>13, <1>11
<1>15. Iter(iter)
  BY <1>14, Zenon
<1> HIDE DEF iter
<1>16. iter[{}] = Before(balance)
  BY <1>15
<1>17. Affords(D, share, balance)
  BY <1>1, <1>4, EqualSharesFit DEF Affords, share
<1>18. ASSUME NEW k \in 1..n, iter[1..(k - 1)] = Given(D, share, balance, k - 1)
       PROVE  iter[1..k] = Give(Given(D, share, balance, k - 1), share[s[k]], s[k])
  <2>1. 1..k \in SUBSET I /\ 1..k # {} /\ Max(1..k) = k /\ (1..k) \ {k} = 1..(k - 1)
    BY <1>3, FirstNumbers DEF I
  <2>2. iter[1..k] = Give(iter[(1..k) \ {Max(1..k)}],
                          Affordable(amount, iter[(1..k) \ {Max(1..k)}].balance),
                          s[Max(1..k)])
    BY <1>15, <2>1
  <2> DEFINE left == balance - SumFunctionOnSet(share, Lowest(D, k - 1))
  <2>3. Given(D, share, balance, k - 1).balance = left
    BY DEF Given
  <2>4. share[s[k]] = IF amount <= left THEN amount ELSE left
    BY <1>1, <1>2, <1>4, EqualSharesInTurn DEF share
  <2>5. left \in Int
    <3>1. SumFunctionOnSet(share, Lowest(D, k - 1)) \in Nat
      <4>1. Lowest(D, k - 1) \in SUBSET D /\ \A p \in D : share[p] \in Nat
        BY <1>17 DEF Lowest, Affords
      <4> QED BY <1>1, <4>1, SumPart
    <3> QED BY <1>4, <3>1
  <2> HIDE DEF left
  <2>6. Affordable(amount, left) = share[s[k]]
    BY <1>5, <2>4, <2>5
  <2> QED BY <1>18, <2>1, <2>2, <2>3, <2>6
<1>19. iter[1..n] = AllGiven(share, balance)
  BY <1>1, <1>2, <1>16, <1>17, <1>18, LoopGivesAll
<1> QED BY <1>2, <1>8, <1>19 DEF share, D, I

(* The loop of an edict that divides a balance between the outputs.        *)
LEMMA DividedGivesAll ==
  ASSUME Deciphered(tx), Outputs # << >>, NEW balance \in 0..MaxLot
  PROVE  Divided(balance) = AllGiven(EvenShares(Destinations(tx), balance), balance)
<1> DEFINE D == Destinations(tx)
           n == Cardinality(D)
           I == 1..n
           s == Outputs
           share == EvenShares(D, balance)
           each == balance \div Len(s)
           more == balance % Len(s)
           idx == [i \in DOMAIN s |-> i]
           give == [a \in I \X Int |-> each + Extra(a[1], more)]
           Iter(f) == f = [S \in SUBSET (DOMAIN idx) |->
                             IF S = {} THEN Before(balance)
                             ELSE Give(f[S \ {Max(S)}],
                                       each + Extra(idx[Max(S)], more),
                                       s[idx[Max(S)]])]
           iter == CHOOSE f : Iter(f)
<1>1. D \in SUBSET Nat /\ IsFiniteSet(D)
  BY OutputsFinite
<1>2. Sorted(D, n, s) /\ DOMAIN s = I /\ Len(s) = n /\ D # {}
  BY OutputsSorted
<1>3. n \in Nat \ {0} /\ s \in [I -> D]
  <2>1. n \in Nat /\ s \in [I -> D]
    BY <1>2 DEF Sorted
  <2>2. n # 0
    BY <1>1, <1>2, FS_EmptySet
  <2> QED BY <2>1, <2>2
<1>4. balance \in Nat /\ balance \in Int /\ MaxLot \in Nat /\ n \in Nat
  BY <1>3, LotAssumption
<1>5. each = balance \div n /\ more = balance % n
  BY <1>2
<1>6. Divided(balance) = iter[DOMAIN idx]
  BY Zenon DEF Divided, FoldLeftDomain, FoldLeft, MapThenFoldSet
<1>7. DOMAIN idx = I /\ \A i \in I : idx[i] = i
  BY <1>2
<1> HIDE DEF D, s, n, share, idx
<1>8. each \in Nat /\ more \in Nat
  BY <1>3, <1>4, <1>5
<1> HIDE DEF each, more
<1>9. \A i \in I : Extra(i, more) \in Nat
  BY DEF Extra
<1>10. give \in [I \X Int -> Int]
  BY <1>8, <1>9
<1>11. \A i \in I : \A x \in Int : give[<<i, x>>] = each + Extra(i, more)
  OBVIOUS
<1> HIDE DEF give
<1>12. \A S \in SUBSET I : S # {} => Max(S) \in S
  BY <1>4, MaxOfInterval
<1>13. PICK g \in [SUBSET I -> LoopStates(D)] : Loops(g, n, s, balance, give)
  BY <1>3, <1>4, <1>10, GiveLoop
<1>14. \A S \in SUBSET I :
         g[S] = IF S = {} THEN Before(balance)
                ELSE Give(g[S \ {Max(S)}],
                          give[<<Max(S), g[S \ {Max(S)}].balance>>], s[Max(S)])
  BY <1>13 DEF Loops
<1> HIDE DEF I
<1>15. \A v \in LoopStates(D) : v.balance \in Int
  BY DEF LoopStates
<1>16. ASSUME NEW S \in SUBSET I, S # {}
       PROVE  /\ give[<<Max(S), g[S \ {Max(S)}].balance>>] = each + Extra(idx[Max(S)], more)
              /\ s[idx[Max(S)]] = s[Max(S)]
  <2>1. Max(S) \in I /\ g[S \ {Max(S)}].balance \in Int
    BY <1>12, <1>15, <1>16
  <2>2. idx[Max(S)] = Max(S)
    BY <1>7, <2>1
  <2>3. give[<<Max(S), g[S \ {Max(S)}].balance>>] = each + Extra(Max(S), more)
    BY <1>11, <2>1
  <2> QED BY <2>2, <2>3
<1>17. Iter(g)
  BY <1>7, <1>14, <1>16
<1>18. Iter(iter)
  BY <1>17, Zenon
<1> HIDE DEF iter
<1>19. iter[{}] = Before(balance)
  BY <1>18
<1>20. Affords(D, share, balance)
  BY <1>1, <1>4, EvenSharesFit DEF Affords, share
<1>21. ASSUME NEW k \in 1..n, iter[1..(k - 1)] = Given(D, share, balance, k - 1)
       PROVE  iter[1..k] = Give(Given(D, share, balance, k - 1), share[s[k]], s[k])
  <2>1. 1..k \in SUBSET I /\ 1..k # {} /\ Max(1..k) = k /\ (1..k) \ {k} = 1..(k - 1)
    BY <1>4, FirstNumbers DEF I
  <2>2. iter[1..k] = Give(iter[(1..k) \ {Max(1..k)}],
                          each + Extra(idx[Max(1..k)], more), s[idx[Max(1..k)]])
    BY <1>7, <1>18, <2>1
  <2>3. idx[k] = k
    BY <1>7 DEF I
  <2>4. share[s[k]] = each + Extra(k, more)
    BY <1>1, <1>2, <1>4, <1>5, EvenSharesInTurn DEF share
  <2> QED BY <1>21, <2>1, <2>2, <2>3, <2>4
<1>22. iter[1..n] = AllGiven(share, balance)
  BY <1>1, <1>2, <1>19, <1>20, <1>21, LoopGivesAll
<1> QED BY <1>6, <1>7, <1>22 DEF share, D, I

-----------------------------------------------------------------------------
(* One output alone.                                                       *)
LEMMA OneGivesAll ==
  ASSUME NEW balance \in 0..MaxLot, NEW amount \in 0..balance, NEW o \in Nat
  PROVE  Give(Before(balance), amount, o) = AllGiven([p \in {o} |-> amount], balance)
<1> DEFINE D == {o}
           s == <<o>>
           share == [p \in {o} |-> amount]
<1>1. D \in SUBSET Nat /\ IsFiniteSet(D) /\ Cardinality(D) = 1
  BY FS_Singleton
<1>2. Rank(D, o) = 0
  <2>1. {d \in D : d < o} = {}
    OBVIOUS
  <2> QED BY <2>1, FS_EmptySet DEF Rank
<1>3. Sorted(D, 1, s)
  <2>1. s \in [1..1 -> D] /\ s[1] = o /\ 1 - 1 = 0
    OBVIOUS
  <2>2. \A i \in 1..1 : i = 1
    OBVIOUS
  <2> QED BY <1>1, <1>2, <2>1, <2>2 DEF Sorted
<1>4. balance \in Nat /\ amount \in Nat /\ amount <= balance
  BY LotAssumption
<1>5. Affords(D, share, balance)
  <2>1. share \in [D -> Nat] /\ share[o] = amount
    BY <1>4
  <2> HIDE DEF share
  <2>2. SumFunctionOnSet(share, {o}) = amount
    <3>1. \A y \in {} \cup {o} : share[y] \in Nat
      BY <1>4, <2>1
    <3>2. SumFunctionOnSet(share, {} \cup {o}) = share[o] + SumFunctionOnSet(share, {})
      BY <3>1, FS_EmptySet, SumAdd
    <3>3. SumFunctionOnSet(share, {}) = 0
      BY SumOfNone
    <3>4. {} \cup {o} = {o}
      OBVIOUS
    <3>5. SumFunctionOnSet(share, {o}) = share[o] + SumFunctionOnSet(share, {})
      BY <3>2, <3>4, Zenon
    <3> QED BY <1>4, <2>1, <3>3, <3>5
  <2> QED BY <1>4, <2>1, <2>2 DEF Affords
<1>6. share[s[1]] = amount /\ s[1] = o /\ 1 \in 1..1 /\ 1 - 1 = 0
  OBVIOUS
<1> HIDE DEF share, D, s
<1>7. Give(Given(D, share, balance, 1 - 1), share[s[1]], s[1]) = Given(D, share, balance, 1)
  BY <1>1, <1>3, <1>5, <1>6, GiveGoesOn
<1>8. /\ Given(D, share, balance, 0) = Before(balance)
      /\ Given(D, share, balance, 1) = AllGiven(share, balance)
  BY <1>1, <1>3, <1>5, GivenInTheEnd DEF AllGiven
<1> QED BY <1>6, <1>7, <1>8 DEF share

(* One edict gives out what Edicts says are its shares, and no more than   *)
(* there is.                                                               *)
LEMMA CarriedGivesAll ==
  ASSUME Deciphered(tx), NEW e, e.amount \in Nat, e.output \in 0..tx.outputs,
         NEW balance \in 0..MaxLot
  PROVE  Carried(e, balance) = AllGiven(Shares(tx, e, balance), balance)
<1> DEFINE D == Destinations(tx)
<1>1. tx.outputs \in Nat /\ balance \in Nat
  BY LotAssumption DEF Deciphered
<1>2. CASE e.output = tx.outputs /\ Outputs = << >>
  <2>1. D = {}
    BY <1>2, OutputsSorted
  <2>2. Carried(e, balance) = Before(balance)
    BY <1>1, <1>2 DEF Carried
  <2>3. DOMAIN Shares(tx, e, balance) = {}
    <3>1. DOMAIN EvenShares(D, balance) = {} /\ DOMAIN EqualShares(D, e.amount, balance) = {}
      BY <2>1 DEF EvenShares, EqualShares
    <3>2. Shares(tx, e, balance) \in {EvenShares(D, balance), EqualShares(D, e.amount, balance)}
      BY <1>1, <1>2 DEF Shares
    <3> QED BY <3>1, <3>2
  <2>4. Positive(Shares(tx, e, balance)) = << >>
    <3>1. DOMAIN Positive(Shares(tx, e, balance)) = {}
      BY <2>3 DEF Positive
    <3> QED BY <3>1 DEF Positive
  <2>5. SumFunction(<< >>) = 0
    <3>1. DOMAIN << >> = {}
      OBVIOUS
    <3>2. SumFunctionOnSet(<< >>, {}) = 0
      BY SumOfNone
    <3> QED BY <3>1, <3>2, Zenon DEF SumFunction
  <2>6. balance - 0 = balance
    BY <1>1
  <2> QED BY <2>2, <2>4, <2>5, <2>6 DEF AllGiven, Before
<1>3. CASE e.output = tx.outputs /\ Outputs # << >> /\ e.amount = 0
  <2>1. Carried(e, balance) = Divided(balance)
    BY <1>1, <1>3 DEF Carried
  <2>2. Shares(tx, e, balance) = EvenShares(D, balance)
    BY <1>1, <1>3 DEF Shares
  <2> QED BY <1>3, <2>1, <2>2, DividedGivesAll
<1>4. CASE e.output = tx.outputs /\ Outputs # << >> /\ e.amount > 0
  <2>1. Carried(e, balance) = Paid(e.amount, balance)
    BY <1>1, <1>4 DEF Carried
  <2>2. Shares(tx, e, balance) = EqualShares(D, e.amount, balance)
    BY <1>1, <1>4 DEF Shares
  <2> QED BY <2>1, <2>2, PaidGivesAll
<1>5. CASE e.output < tx.outputs /\ e.amount = 0
  <2>1. Carried(e, balance) = Give(Before(balance), balance, e.output)
    BY <1>1, <1>5 DEF Carried
  <2>2. Shares(tx, e, balance) = [o \in {e.output} |-> balance]
    BY <1>1, <1>5 DEF Shares
  <2>3. balance \in 0..balance /\ e.output \in Nat
    BY <1>1
  <2> QED BY <2>1, <2>2, <2>3, OneGivesAll
<1>6. CASE e.output < tx.outputs /\ e.amount > 0
  <2> DEFINE m == Min({e.amount, balance})
  <2>1. Carried(e, balance) = Give(Before(balance), m, e.output)
    BY <1>1, <1>6 DEF Carried, Affordable
  <2>2. Shares(tx, e, balance) = [o \in {e.output} |-> m]
    BY <1>1, <1>6 DEF Shares
  <2>3. m \in 0..balance /\ e.output \in Nat
    BY <1>1 DEF Min
  <2> HIDE DEF m
  <2> QED BY <2>1, <2>2, <2>3, OneGivesAll
<1> QED BY <1>1, <1>2, <1>3, <1>4, <1>5, <1>6

-----------------------------------------------------------------------------
(* What holds at every point of the loops: while there are edicts, what is *)
(* unallocated and allocated is what Edicts says it is after as many       *)
(* edicts, and at last what has been burned and stored of it.              *)
AmongEdicts ==
  /\ next \in 1..(Len(Said(tx)) + 1)
  /\ burned = << >> /\ kept = << >>
  /\ \E st : /\ InTurn(tx, etched, held, st)
             /\ unallocated = st[next - 1].unallocated
             /\ allocated = st[next - 1].allocated

BurnedSoFar ==
  Added(RestAtLast(tx, etched, held),
        AllAdded(allocated, {o \in tx.op_return : o < next}))
KeptSoFar ==
  [o \in {d \in Destinations(tx) : d < next /\ DOMAIN allocated[d] # {}} |-> allocated[o]]

AmongOutputs ==
  /\ next \in 0..tx.outputs
  /\ unallocated = << >>
  /\ allocated = AllocatedAtLast(tx, etched, held)
  /\ burned = BurnedSoFar
  /\ kept = KeptSoFar

LoopInductive ==
  /\ tx \in Transaction /\ held \in Holdings
  /\ \/ pc = "edicts" /\ AmongEdicts
     \/ pc = "outputs" /\ AmongOutputs
     \/ pc = "done" /\ AmongOutputs /\ next = tx.outputs

(* What the assumptions say of the arguments.                              *)
LEMMA ArgumentFacts ==
  ASSUME tx \in Transaction, held \in Holdings
  PROVE  /\ Deciphered(tx)
         /\ tx.outputs \in Nat
         /\ held \in [DOMAIN held -> Nat] /\ held \in AmountsOf(DOMAIN held)
         /\ \A id \in DOMAIN held : held[id] \in Nat /\ held[id] <= MaxLot
         /\ DefaultId \notin DOMAIN held
         /\ MaxLot \in Nat
<1>1. /\ Deciphered(tx) /\ MaxLot \in Nat
      /\ held \in [DOMAIN held -> 0..MaxLot] /\ DefaultId \notin DOMAIN held
  BY LotAssumption
<1>2. \A id \in DOMAIN held : held[id] \in Nat /\ held[id] <= MaxLot
  BY <1>1
<1>3. held \in [DOMAIN held -> Nat]
  BY <1>1, <1>2
<1>4. held \in AmountsOf(DOMAIN held)
  BY <1>3 DEF AmountsOf
<1> QED BY <1>1, <1>2, <1>3, <1>4 DEF Deciphered

LEMMA SaidFacts ==
  ASSUME Deciphered(tx)
  PROVE  /\ Len(Said(tx)) \in Nat
         /\ \A k \in 1..Len(Said(tx)) :
              Said(tx)[k].amount \in Nat /\ Said(tx)[k].output \in 0..tx.outputs
         /\ \A k \in Nat \ {0} : (~tx.cenotaph /\ k <= Len(tx.edicts)) <=> k <= Len(Said(tx))
         /\ ~tx.cenotaph => Said(tx) = tx.edicts
<1> DEFINE R == [id : Nat \X Nat, amount : Nat, output : 0..tx.outputs]
<1>1. Said(tx) \in Seq(R)
  BY DEF Said, Deciphered
<1>2. \A e \in R : e.amount \in Nat /\ e.output \in 0..tx.outputs
  OBVIOUS
<1> HIDE DEF R
<1>3. Len(Said(tx)) \in Nat /\ \A k \in 1..Len(Said(tx)) : Said(tx)[k] \in R
  <2> HIDE DEF Said
  <2> QED BY <1>1
<1>4. \A k \in Nat \ {0} : (~tx.cenotaph /\ k <= Len(tx.edicts)) <=> k <= Len(Said(tx))
  <2>1. CASE tx.cenotaph
    <3>1. Len(Said(tx)) = 0
      BY <2>1 DEF Said
    <3> QED BY <2>1, <3>1
  <2>2. CASE ~tx.cenotaph
    BY <2>2 DEF Said
  <2> QED BY <2>1, <2>2
<1>5. ~tx.cenotaph => Said(tx) = tx.edicts
  BY DEF Said
<1> QED BY <1>2, <1>3, <1>4, <1>5

(* Nobody holds more of a rune than the transaction did.                   *)
LEMMA ConservingFacts ==
  ASSUME Deciphered(tx), NEW st \in Conserving(tx, held),
         \A id \in DOMAIN held : held[id] \in Nat
  PROVE  /\ st.unallocated \in [DOMAIN held -> Nat]
         /\ st.allocated \in [OutputsOf(tx) -> PositivesOf(DOMAIN held)]
         /\ \A id \in DOMAIN held : st.unallocated[id] \in Nat /\ st.unallocated[id] <= held[id]
         /\ \A id \in DOMAIN held : \A o \in OutputsOf(tx) :
              /\ Amount(st.allocated[o], id) \in Nat
              /\ Amount(st.allocated[o], id) + st.unallocated[id] <= held[id]
<1>1. /\ st.unallocated \in [DOMAIN held -> Nat]
      /\ st.allocated \in [OutputsOf(tx) -> PositivesOf(DOMAIN held)]
      /\ \A id \in DOMAIN held :
           held[id] = st.unallocated[id] + OnAllocated(tx, st.allocated, id)
  BY DEF Conserving
<1>2. ASSUME NEW id \in DOMAIN held
      PROVE  /\ OnAllocated(tx, st.allocated, id) \in Nat
             /\ \A o \in OutputsOf(tx) :
                  /\ Amount(st.allocated[o], id) \in Nat
                  /\ Amount(st.allocated[o], id) <= OnAllocated(tx, st.allocated, id)
  <2> DEFINE f == [o \in OutputsOf(tx) |-> Amount(st.allocated[o], id)]
  <2>1. \A o \in OutputsOf(tx) : f[o] = Amount(st.allocated[o], id) /\ f[o] \in Nat
    BY <1>1, PositivesType
  <2>2. OnAllocated(tx, st.allocated, id) = SumFunctionOnSet(f, OutputsOf(tx))
    BY Zenon DEF OnAllocated
  <2> HIDE DEF f
  <2>3. /\ SumFunctionOnSet(f, OutputsOf(tx)) \in Nat
        /\ \A o \in OutputsOf(tx) : f[o] <= SumFunctionOnSet(f, OutputsOf(tx))
    BY <2>1, OutputsFinite, SumType
  <2> QED BY <2>1, <2>2, <2>3
<1>3. \A id \in DOMAIN held : st.unallocated[id] \in Nat
  BY <1>1
<1> QED BY <1>1, <1>2, <1>3

LEMMA InitLoops == Init => LoopInductive
<1> SUFFICES ASSUME Init PROVE LoopInductive
  OBVIOUS
<1>1. /\ tx \in Transaction /\ held \in Holdings /\ pc = "edicts" /\ next = 1
      /\ burned = << >> /\ kept = << >>
      /\ unallocated = held /\ allocated = [o \in OutputsOf(tx) |-> << >>]
  BY DEF Init
<1>2. Deciphered(tx) /\ held \in AmountsOf(DOMAIN held)
  BY <1>1, ArgumentFacts
<1>3. PICK st : InTurn(tx, etched, held, st)
  BY <1>2, EdictsConserveInTurn
<1>4. st[0] = Untouched(tx, held)
  BY <1>3 DEF InTurn
<1>5. st[0].unallocated = held /\ st[0].allocated = [o \in OutputsOf(tx) |-> << >>]
  BY <1>4 DEF Untouched
<1>6. next \in 1..(Len(Said(tx)) + 1) /\ next - 1 = 0
  BY <1>1, <1>2, SaidFacts
<1>7. AmongEdicts
  BY <1>1, <1>3, <1>5, <1>6 DEF AmongEdicts
<1> QED BY <1>1, <1>7 DEF LoopInductive

(* The edict that is next, and the state before it.                        *)
LEMMA EdictFacts ==
  ASSUME LoopInductive, pc = "edicts", EdictsLeft
  PROVE  LET e == tx.edicts[next]
         IN /\ Deciphered(tx) /\ AmongEdicts
            /\ next \in 1..Len(Said(tx)) /\ next + 1 \in 1..(Len(Said(tx)) + 1)
            /\ (next + 1) - 1 = next
            /\ e = Said(tx)[next] /\ e.amount \in Nat /\ e.output \in 0..tx.outputs
<1>1. Deciphered(tx) /\ AmongEdicts
  BY ArgumentFacts DEF LoopInductive
<1>2. Len(Said(tx)) \in Nat /\ next \in 1..(Len(Said(tx)) + 1)
  BY <1>1, SaidFacts DEF AmongEdicts
<1>3. next \in Nat \ {0}
  BY <1>2
<1>4. next <= Len(Said(tx)) /\ Said(tx) = tx.edicts
  BY <1>1, <1>3, SaidFacts DEF EdictsLeft
<1>5. next \in 1..Len(Said(tx)) /\ next + 1 \in 1..(Len(Said(tx)) + 1) /\ (next + 1) - 1 = next
  BY <1>2, <1>4
<1>6. Said(tx)[next].amount \in Nat /\ Said(tx)[next].output \in 0..tx.outputs
  BY <1>1, <1>5, SaidFacts
<1> QED BY <1>1, <1>4, <1>5, <1>6

(* The next state of the loop is the next one of InTurn.                   *)
LEMMA EdictKeeps ==
  ASSUME LoopInductive, pc = "edicts", EdictsLeft, pc' = "edicts", next' = next + 1,
         UNCHANGED <<tx, etched, held, burned, kept>>,
         \A st \in Conserving(tx, held) :
           unallocated = st.unallocated /\ allocated = st.allocated =>
             /\ Allocate(tx, etched, st, tx.edicts[next]).unallocated = unallocated'
             /\ Allocate(tx, etched, st, tx.edicts[next]).allocated = allocated'
  PROVE  LoopInductive'
<1>1. /\ AmongEdicts /\ next \in 1..Len(Said(tx)) /\ next + 1 \in 1..(Len(Said(tx)) + 1)
      /\ (next + 1) - 1 = next /\ tx.edicts[next] = Said(tx)[next]
  BY EdictFacts
<1>2. PICK st : /\ InTurn(tx, etched, held, st)
                /\ unallocated = st[next - 1].unallocated
                /\ allocated = st[next - 1].allocated
  BY <1>1 DEF AmongEdicts
<1>3. /\ st[next - 1] \in Conserving(tx, held)
      /\ st[next] = Allocate(tx, etched, st[next - 1], tx.edicts[next])
  <2>1. next - 1 \in 0..Len(Said(tx))
    BY <1>1
  <2> QED BY <1>1, <1>2, <2>1 DEF InTurn
<1>4. unallocated' = st[next].unallocated /\ allocated' = st[next].allocated
  BY <1>2, <1>3
<1>5. \E u : /\ InTurn(tx, etched, held, u)
             /\ unallocated' = u[(next + 1) - 1].unallocated
             /\ allocated' = u[(next + 1) - 1].allocated
  BY <1>1, <1>2, <1>4
<1>6. AmongEdicts'
  BY <1>1, <1>5 DEF AmongEdicts
<1> QED BY <1>6 DEF LoopInductive

LEMMA SkipKeeps ==
  ASSUME LoopInductive, Skip
  PROVE  LoopInductive'
<1> DEFINE e == tx.edicts[next]
<1>1. /\ pc = "edicts" /\ EdictsLeft /\ next' = next + 1
      /\ UNCHANGED <<tx, etched, held, unallocated, allocated, burned, kept, pc>>
      /\ IdOf(e) = DefaultId \/ IdOf(e) \notin DOMAIN unallocated
  BY DEF Skip
<1>2. ASSUME NEW st \in Conserving(tx, held), unallocated = st.unallocated
      PROVE  Allocate(tx, etched, st, e) = st
  <2>1. st.unallocated \in [DOMAIN held -> Nat]
    BY DEF Conserving
  <2>2. DefaultId \notin DOMAIN held
    BY ArgumentFacts DEF LoopInductive
  <2>3. IdOf(e) \notin DOMAIN st.unallocated
    BY <1>1, <1>2, <2>1, <2>2
  <2> QED BY <2>3, Zenon DEF Allocate, IdOf
<1> HIDE DEF e
<1>3. \A st \in Conserving(tx, held) :
        unallocated = st.unallocated /\ allocated = st.allocated =>
          /\ Allocate(tx, etched, st, e).unallocated = unallocated'
          /\ Allocate(tx, etched, st, e).allocated = allocated'
  BY <1>1, <1>2
<1> QED BY <1>1, <1>3, EdictKeeps DEF e

(* Adding an amount to a rune's balance.                                   *)
LEMMA PutIsAdded ==
  ASSUME NEW K, NEW f \in PositivesOf(K), NEW id, NEW g, NEW y,
         DOMAIN g = {id}, g[id] \in Nat, y = Amount(f, id) + g[id]
  PROVE  Put(f, id, y) = Added(f, g)
<1>1. \A i \in DOMAIN f : f[i] \in Nat
  BY PositivesType
<1>2. \A i \in DOMAIN f \cup {id} :
        (IF i = id THEN y ELSE f[i]) = Amount(f, i) + Amount(g, i)
  BY <1>1 DEF Amount
<1> QED BY <1>2 DEF Put, Added

LEMMA CarryKeeps ==
  ASSUME LoopInductive, Carry
  PROVE  LoopInductive'
<1> DEFINE e == tx.edicts[next]
           id == IdOf(e)
           K == DOMAIN held
           result == Carried(e, unallocated[id])
           sums == [o \in DOMAIN result.shares |-> Amount(allocated[o], id) + result.shares[o]]
           share == Positive(Shares(tx, e, unallocated[id]))
<1>1. /\ pc = "edicts" /\ EdictsLeft /\ next' = next + 1 /\ id \in DOMAIN unallocated
      /\ unallocated' = Put(unallocated, id, result.balance)
      /\ allocated' = [o \in OutputsOf(tx) |-> IF o \in DOMAIN sums
                                               THEN Put(allocated[o], id, sums[o])
                                               ELSE allocated[o]]
      /\ pc' = Unless(result.fits /\ \A o \in DOMAIN sums : Fits(sums[o]), "edicts")
      /\ UNCHANGED <<tx, etched, held, burned, kept>>
  BY DEF Carry
<1>2. /\ Deciphered(tx) /\ AmongEdicts
      /\ next \in 1..Len(Said(tx))
      /\ e.amount \in Nat /\ e.output \in 0..tx.outputs
  BY <1>1, EdictFacts
<1>3. /\ held \in AmountsOf(K) /\ MaxLot \in Nat
      /\ \A i \in K : held[i] \in Nat /\ held[i] <= MaxLot
  BY ArgumentFacts DEF LoopInductive
<1>4. PICK was : /\ was \in Conserving(tx, held)
                 /\ unallocated = was.unallocated /\ allocated = was.allocated
  <2>1. PICK st : /\ InTurn(tx, etched, held, st)
                  /\ unallocated = st[next - 1].unallocated
                  /\ allocated = st[next - 1].allocated
    BY <1>2 DEF AmongEdicts
  <2>2. next - 1 \in 0..Len(Said(tx))
    BY <1>2
  <2>3. st[next - 1] \in Conserving(tx, held)
    BY <2>1, <2>2 DEF InTurn
  <2> QED BY <2>1, <2>3
<1> HIDE DEF e, K
<1>5. /\ DOMAIN unallocated = K
      /\ allocated \in [OutputsOf(tx) -> PositivesOf(K)]
      /\ unallocated[id] \in 0..MaxLot
  <2>1. /\ unallocated \in [K -> Nat]
        /\ allocated \in [OutputsOf(tx) -> PositivesOf(K)]
        /\ \A i \in K : unallocated[i] \in Nat /\ unallocated[i] <= held[i]
    BY <1>2, <1>3, <1>4, ConservingFacts DEF K
  <2>2. id \in K
    BY <1>1, <2>1
  <2> QED BY <1>3, <2>1, <2>2
<1>6. result = AllGiven(Shares(tx, e, unallocated[id]), unallocated[id])
  BY <1>2, <1>5, CarriedGivesAll
<1>7. /\ result.balance = unallocated[id] - SumFunction(share)
      /\ result.shares = share /\ result.fits = TRUE
  BY <1>6 DEF AllGiven
<1>8. /\ share \in [DOMAIN share -> Nat \ {0}]
      /\ DOMAIN share \in SUBSET OutputsOf(tx)
  <2>1. unallocated[id] \in Nat
    BY <1>3, <1>5
  <2> QED BY <1>2, <2>1, SharesFit
<1> HIDE DEF id, result, share
<1>9. /\ DOMAIN sums = DOMAIN share
      /\ \A o \in DOMAIN share : sums[o] = Amount(allocated[o], id) + share[o]
  BY <1>7
<1> HIDE DEF sums
<1>10. ASSUME NEW o \in DOMAIN share
       PROVE  Put(allocated[o], id, sums[o]) = Added(allocated[o], [i \in {id} |-> share[o]])
  <2>1. allocated[o] \in PositivesOf(K) /\ share[o] \in Nat
    BY <1>5, <1>8
  <2> DEFINE g == [i \in {id} |-> share[o]]
  <2>2. DOMAIN g = {id} /\ g[id] = share[o]
    OBVIOUS
  <2> HIDE DEF g
  <2>3. sums[o] = Amount(allocated[o], id) + g[id]
    BY <1>9, <2>2
  <2>4. Put(allocated[o], id, sums[o]) = Added(allocated[o], g)
    BY <2>1, <2>2, <2>3, PutIsAdded
  <2> QED BY <2>4 DEF g
<1> DEFINE after == [unallocated |-> unallocated', allocated |-> allocated']
<1>11. ASSUME NEW st \in Conserving(tx, held),
              unallocated = st.unallocated, allocated = st.allocated
       PROVE  Allocate(tx, etched, st, e) = after
  <2>1. Allocate(tx, etched, st, e) =
          [unallocated |-> Put(unallocated, id, unallocated[id] - SumFunction(share)),
           allocated |-> [o \in OutputsOf(tx) |->
                            IF o \in DOMAIN share
                            THEN Added(allocated[o], [i \in {id} |-> share[o]])
                            ELSE allocated[o]]]
    BY <1>1, <1>11, Zenon DEF Allocate, id, IdOf, share
  <2>2. unallocated' = Put(unallocated, id, unallocated[id] - SumFunction(share))
    BY <1>1, <1>7
  <2>3. allocated' = [o \in OutputsOf(tx) |->
                        IF o \in DOMAIN share
                        THEN Added(allocated[o], [i \in {id} |-> share[o]])
                        ELSE allocated[o]]
    BY <1>1, <1>9, <1>10
  <2> QED BY <2>1, <2>2, <2>3
<1>12. after \in Conserving(tx, held)
  <2>1. Allocate(tx, etched, was, e) \in Conserving(tx, held)
    BY <1>2, <1>3, <1>4, AllocateConserves DEF K
  <2> QED BY <1>4, <1>11, <2>1
<1>13. \A o \in DOMAIN sums : Fits(sums[o])
  <2> SUFFICES ASSUME NEW o \in DOMAIN share PROVE Fits(sums[o])
    BY <1>9
  <2>1. id \in K /\ o \in OutputsOf(tx)
    BY <1>1, <1>5, <1>8
  <2>2. Amount(allocated'[o], id) = sums[o]
    <3>1. allocated'[o] = Put(allocated[o], id, sums[o])
      BY <1>1, <1>9, <2>1
    <3> QED BY <3>1 DEF Put, Amount
  <2>3. after.unallocated[id] \in Nat /\ Amount(after.allocated[o], id) \in Nat
        /\ Amount(after.allocated[o], id) + after.unallocated[id] <= held[id]
    BY <1>2, <1>3, <1>12, <2>1, ConservingFacts DEF K
  <2>4. sums[o] \in Nat /\ held[id] \in Nat /\ sums[o] + after.unallocated[id] <= held[id]
    BY <1>3, <2>1, <2>2, <2>3
  <2> QED BY <1>3, <2>1, <2>3, <2>4 DEF Fits
<1>14. pc' = "edicts"
  BY <1>1, <1>7, <1>13 DEF Unless
<1>15. \A st \in Conserving(tx, held) :
         unallocated = st.unallocated /\ allocated = st.allocated =>
           /\ Allocate(tx, etched, st, e).unallocated = unallocated'
           /\ Allocate(tx, etched, st, e).allocated = allocated'
  BY <1>11
<1> QED BY <1>1, <1>14, <1>15, EdictKeeps DEF e

-----------------------------------------------------------------------------
(* Balances that are added up one after the other.                         *)
LEMMA NothingAdded ==
  ASSUME NEW f, f = [id \in DOMAIN f |-> f[id]], \A id \in DOMAIN f : f[id] \in Nat
  PROVE  Added(f, << >>) = f
<1>1. \A id \in DOMAIN f : Amount(f, id) + Amount(<< >>, id) = f[id]
  BY DEF Amount
<1>2. DOMAIN f \cup DOMAIN << >> = DOMAIN f
  OBVIOUS
<1> QED BY <1>1, <1>2 DEF Added

LEMMA NoneAddedUp == \A f : AllAdded(f, {}) = << >>
<1> SUFFICES ASSUME NEW f PROVE AllAdded(f, {}) = << >>
  OBVIOUS
<1>1. AllAdded(f, {}) \in AmountsOf({})
  BY FS_EmptySet, AddedUpType
<1>2. DOMAIN AllAdded(f, {}) = {}
     /\ AllAdded(f, {}) = [x \in DOMAIN AllAdded(f, {}) |-> AllAdded(f, {})[x]]
  BY <1>1, AmountType
<1> HIDE DEF AllAdded
<1> QED BY <1>2

(* Balances with amounts that are naturals.                                *)
Balances(f) == f = [id \in DOMAIN f |-> f[id]] /\ \A id \in DOMAIN f : f[id] \in Nat

LEMMA SameBalances ==
  ASSUME NEW f, NEW g, Balances(f), Balances(g), DOMAIN f = DOMAIN g,
         \A id \in DOMAIN f : Amount(f, id) = Amount(g, id)
  PROVE  f = g
<1>1. \A id \in DOMAIN f : f[id] = g[id]
  BY DEF Amount
<1> QED BY <1>1 DEF Balances

LEMMA AddedBalances ==
  ASSUME NEW f, NEW g, Balances(f), Balances(g)
  PROVE  /\ Balances(Added(f, g))
         /\ DOMAIN Added(f, g) = DOMAIN f \cup DOMAIN g
         /\ \A id : Amount(Added(f, g), id) = Amount(f, id) + Amount(g, id)
<1>1. (\A id \in DOMAIN f : f[id] \in Nat) /\ (\A id \in DOMAIN g : g[id] \in Nat)
  BY DEF Balances
<1>2. /\ DOMAIN Added(f, g) = DOMAIN f \cup DOMAIN g
      /\ Added(f, g) = [id \in DOMAIN Added(f, g) |-> Added(f, g)[id]]
      /\ \A id \in DOMAIN Added(f, g) : Added(f, g)[id] \in Nat
  BY <1>1, AddedType
<1>3. Balances(Added(f, g))
  BY <1>2, Zenon DEF Balances
<1> QED BY <1>2, <1>3, AmountAdded

LEMMA BalancesAmount ==
  ASSUME NEW f, Balances(f)
  PROVE  \A id : Amount(f, id) \in Nat
BY DEF Balances, Amount

LEMMA AddedUpBalances ==
  ASSUME NEW S, IsFiniteSet(S), NEW f, \A x \in S : Balances(f[x])
  PROVE  /\ Balances(AllAdded(f, S))
         /\ DOMAIN AllAdded(f, S) = UNION {DOMAIN f[x] : x \in S}
<1> DEFINE K == UNION {DOMAIN f[x] : x \in S}
<1>1. \A x \in S : DOMAIN f[x] \subseteq K /\ \A id \in DOMAIN f[x] : f[x][id] \in Nat
  BY DEF Balances
<1> HIDE DEF K
<1>2. /\ AllAdded(f, S) \in AmountsOf(K)
      /\ DOMAIN AllAdded(f, S) = UNION {DOMAIN f[x] : x \in S}
  BY <1>1, AddedUpType
<1> HIDE DEF AllAdded
<1>3. Balances(AllAdded(f, S))
  BY <1>2, AmountType DEF Balances
<1> QED BY <1>2, <1>3

(* One more element is added.                                              *)
LEMMA OneMoreAddedUp ==
  ASSUME NEW S, IsFiniteSet(S), NEW x, x \notin S,
         NEW f, \A y \in S \cup {x} : Balances(f[y]), NEW r, Balances(r)
  PROVE  Added(Added(r, AllAdded(f, S)), f[x]) = Added(r, AllAdded(f, S \cup {x}))
<1> DEFINE T == S \cup {x}
           a == AllAdded(f, S)
           b == AllAdded(f, T)
<1>1. IsFiniteSet(T)
  BY FS_AddElement
<1>2. /\ Balances(a) /\ DOMAIN a = UNION {DOMAIN f[y] : y \in S}
      /\ Balances(b) /\ DOMAIN b = UNION {DOMAIN f[y] : y \in T}
      /\ Balances(f[x])
  BY <1>1, AddedUpBalances
<1>3. DOMAIN b = DOMAIN a \cup DOMAIN f[x]
  BY <1>2
<1>4. ASSUME NEW id
      PROVE  Amount(b, id) = Amount(f[x], id) + Amount(a, id)
  <2> DEFINE h == [y \in T |-> Amount(f[y], id)]
  <2>1. \A y \in T : h[y] = Amount(f[y], id) /\ h[y] \in Nat
    BY BalancesAmount
  <2>2. \A y \in T : \A i \in DOMAIN f[y] : f[y][i] \in Nat
    BY DEF Balances
  <2> HIDE DEF h
  <2>3. Amount(a, id) = SumFunctionOnSet(h, S)
    BY <2>1, <2>2, AddedUp
  <2>4. Amount(b, id) = SumFunctionOnSet(h, T)
    <3> HIDE DEF T
    <3> QED BY <1>1, <2>1, <2>2, AddedUp
  <2>5. SumFunctionOnSet(h, T) = h[x] + SumFunctionOnSet(h, S)
    BY <2>1, SumAdd
  <2> QED BY <2>1, <2>3, <2>4, <2>5
<1> HIDE DEF a, b, T
<1> DEFINE u == Added(r, a)
           v == Added(u, f[x])
           w == Added(r, b)
<1>5. /\ Balances(u) /\ DOMAIN u = DOMAIN r \cup DOMAIN a
      /\ \A id : Amount(u, id) = Amount(r, id) + Amount(a, id)
  BY <1>2, AddedBalances
<1> HIDE DEF u
<1>6. /\ Balances(v) /\ DOMAIN v = DOMAIN u \cup DOMAIN f[x]
      /\ \A id : Amount(v, id) = Amount(u, id) + Amount(f[x], id)
  BY <1>2, <1>5, AddedBalances
<1>7. /\ Balances(w) /\ DOMAIN w = DOMAIN r \cup DOMAIN b
      /\ \A id : Amount(w, id) = Amount(r, id) + Amount(b, id)
  BY <1>2, AddedBalances
<1> HIDE DEF v, w
<1>8. ASSUME NEW id
      PROVE  Amount(v, id) = Amount(w, id)
  <2>1. Amount(r, id) \in Nat /\ Amount(a, id) \in Nat /\ Amount(f[x], id) \in Nat
    BY <1>2, BalancesAmount
  <2> QED BY <1>4, <1>5, <1>6, <1>7, <2>1
<1>9. DOMAIN v = DOMAIN w
  BY <1>3, <1>5, <1>6, <1>7
<1>10. v = w
  BY <1>6, <1>7, <1>8, <1>9, SameBalances
<1> QED BY <1>10 DEF v, w, u, a, b, T

-----------------------------------------------------------------------------
(* What is on the outputs and what is burned before them.                  *)
LEMMA AtLastFacts ==
  ASSUME tx \in Transaction, held \in Holdings,
         allocated = AllocatedAtLast(tx, etched, held),
         NEW r, r = RestAtLast(tx, etched, held)
  PROVE  /\ allocated \in [OutputsOf(tx) -> PositivesOf(DOMAIN held)]
         /\ \A o \in OutputsOf(tx) : Balances(allocated[o])
         /\ DOMAIN r \subseteq DOMAIN held
         /\ \A id \in DOMAIN held :
              /\ Amount(r, id) \in Nat
              /\ held[id] = Amount(r, id) + OnAllocated(tx, allocated, id)
<1>1. Deciphered(tx) /\ held \in AmountsOf(DOMAIN held)
  BY ArgumentFacts
<1>2. /\ allocated \in [OutputsOf(tx) -> PositivesOf(DOMAIN held)]
      /\ DOMAIN r \subseteq DOMAIN held
      /\ \A id \in DOMAIN held :
           /\ Amount(r, id) \in Nat
           /\ held[id] = Amount(r, id) + OnAllocated(tx, allocated, id)
  BY <1>1, AtLast
<1>3. \A o \in OutputsOf(tx) : Balances(allocated[o])
  BY <1>2, PositivesType DEF Balances
<1> QED BY <1>2, <1>3

LEMMA RestBalances ==
  ASSUME tx \in Transaction, held \in Holdings
  PROVE  Balances(RestAtLast(tx, etched, held))
<1>1. Deciphered(tx) /\ held \in AmountsOf(DOMAIN held)
  BY ArgumentFacts
<1>2. \A i \in DOMAIN RestAtLast(tx, etched, held) : RestAtLast(tx, etched, held)[i] \in Nat
  BY <1>1, AtLast
<1> DEFINE st == AfterEdicts(tx, etched, held)
<1>3. st.unallocated = [i \in DOMAIN st.unallocated |-> st.unallocated[i]]
  <2>1. st \in Conserving(tx, held)
    BY <1>1, AfterEdictsConserve
  <2> HIDE DEF st
  <2>2. st.unallocated \in [DOMAIN held -> Nat]
    BY <2>1 DEF Conserving
  <2> QED BY <2>2
<1>4. Positive(st.unallocated) =
        [i \in DOMAIN Positive(st.unallocated) |-> Positive(st.unallocated)[i]]
  BY DEF Positive
<1>5. << >> = [i \in DOMAIN << >> |-> << >>[i]]
  OBVIOUS
<1>6. RestAtLast(tx, etched, held) \in {st.unallocated, Positive(st.unallocated), << >>}
  BY DEF RestAtLast
<1> HIDE DEF st
<1>7. RestAtLast(tx, etched, held) =
        [i \in DOMAIN RestAtLast(tx, etched, held) |-> RestAtLast(tx, etched, held)[i]]
  BY <1>3, <1>4, <1>5, <1>6
<1> QED BY <1>2, <1>7, Zenon DEF Balances

LEMMA RestKeeps ==
  ASSUME LoopInductive, Rest
  PROVE  LoopInductive'
<1> DEFINE st == AfterEdicts(tx, etched, held)
<1>1. /\ pc = "edicts" /\ ~EdictsLeft /\ unallocated' = << >> /\ next' = 0
      /\ UNCHANGED <<tx, etched, held, kept>>
      /\ AmongEdicts /\ tx \in Transaction /\ held \in Holdings
  BY DEF Rest, LoopInductive
<1>2. /\ Deciphered(tx) /\ held \in AmountsOf(DOMAIN held) /\ MaxLot \in Nat
      /\ \A id \in DOMAIN held : held[id] \in Nat /\ held[id] <= MaxLot
      /\ tx.outputs \in Nat
  BY <1>1, ArgumentFacts
<1>3. unallocated = st.unallocated /\ allocated = st.allocated
  <2>1. Len(Said(tx)) \in Nat /\ next \in 1..(Len(Said(tx)) + 1)
    BY <1>1, <1>2, SaidFacts DEF AmongEdicts
  <2>2. next \in Nat \ {0}
    BY <2>1
  <2>3. ~(next <= Len(Said(tx)))
    BY <1>1, <1>2, <2>2, SaidFacts DEF EdictsLeft
  <2>4. next - 1 = Len(Said(tx))
    BY <2>1, <2>3
  <2>5. PICK u : /\ InTurn(tx, etched, held, u)
                 /\ unallocated = u[next - 1].unallocated
                 /\ allocated = u[next - 1].allocated
    BY <1>1 DEF AmongEdicts
  <2>6. u[next - 1] = AfterEdicts(tx, etched, held)
    BY <2>4, <2>5 DEF InTurn
  <2> QED BY <2>5, <2>6
<1>4. st \in Conserving(tx, held)
  BY <1>2, AfterEdictsConserve
<1> DEFINE last == AllocatedAtLast(tx, etched, held)
           rest == RestAtLast(tx, etched, held)
           target == TargetOf(tx)
<1>5. last = [o \in OutputsOf(tx) |-> IF o \in target THEN Added(allocated[o], Remains)
                                                     ELSE allocated[o]]
  BY <1>3, Zenon DEF AllocatedAtLast, Remains
<1>6. /\ tx.cenotaph => rest = unallocated /\ target = {}
      /\ ~tx.cenotaph => target = DefaultOutput(tx)
      /\ ~tx.cenotaph /\ target = {} => rest = Remains
      /\ ~tx.cenotaph /\ target # {} => rest = << >>
  BY <1>3 DEF RestAtLast, TargetOf, Remains
<1>7. /\ allocated \in [OutputsOf(tx) -> PositivesOf(DOMAIN held)]
      /\ unallocated \in [DOMAIN held -> Nat]
      /\ \A id \in DOMAIN held : \A o \in OutputsOf(tx) :
           /\ Amount(allocated[o], id) \in Nat
           /\ Amount(allocated[o], id) + unallocated[id] <= held[id]
  <2> HIDE DEF st
  <2> QED BY <1>2, <1>3, <1>4, ConservingFacts
<1> HIDE DEF st, last, rest, target
<1>8. /\ pc' = "outputs" /\ allocated' = last /\ burned' = rest
  <2>1. CASE target = {}
    <3>1. last = allocated
      BY <1>5, <1>7, <2>1
    <3>2. DefaultOutput(tx) = {} \/ tx.cenotaph
      BY <1>6, <2>1
    <3>3. pc' = "outputs" /\ allocated' = allocated
          /\ burned' = IF tx.cenotaph THEN unallocated ELSE Remains
      BY <3>2 DEF Rest
    <3> QED BY <1>6, <2>1, <3>1, <3>3
  <2>2. CASE target # {}
    <3>1. ~tx.cenotaph /\ target = DefaultOutput(tx) /\ rest = << >>
      BY <1>6, <2>2
    <3>2. PICK o \in target :
            /\ allocated' = [allocated EXCEPT ![o] = Added(@, Remains)]
            /\ pc' = Unless(AddFits(allocated[o], Remains), "outputs")
            /\ burned' = burned
      BY <2>2, <3>1 DEF Rest
    <3>3. o \in OutputsOf(tx) /\ target = {o}
      BY <1>2, <3>1, DefaultOutputFacts
    <3>4. allocated' = last
      BY <1>5, <1>7, <3>2, <3>3
    <3>5. burned' = << >>
      BY <1>1, <3>2 DEF AmongEdicts
    <3>6. ASSUME NEW id \in DOMAIN Remains
          PROVE  Fits(Amount(allocated[o], id) + Remains[id])
      <4>1. id \in DOMAIN held /\ Remains[id] = unallocated[id] /\ unallocated[id] \in Nat
        BY <1>7 DEF Remains, Positive
      <4>2. /\ Amount(allocated[o], id) \in Nat
            /\ Amount(allocated[o], id) + unallocated[id] <= held[id]
            /\ held[id] \in Nat /\ held[id] <= MaxLot
        BY <1>2, <1>7, <3>3, <4>1
      <4> QED BY <1>2, <4>1, <4>2 DEF Fits
    <3> QED BY <3>1, <3>2, <3>4, <3>5, <3>6 DEF AddFits, Unless
  <2> QED BY <2>1, <2>2
<1>9. burned' = Added(rest, AllAdded(allocated', {o \in tx.op_return : o < next'}))
  <2>1. tx.op_return \in SUBSET Nat
    BY <1>2, OutputsFinite
  <2>2. {o \in tx.op_return : o < next'} = {}
    BY <1>1, <2>1
  <2>3. AllAdded(allocated', {o \in tx.op_return : o < next'}) = << >>
    BY <2>2, NoneAddedUp, Zenon
  <2>4. Added(rest, << >>) = rest
    BY <1>1, RestBalances, NothingAdded DEF rest, Balances
  <2> QED BY <1>8, <2>3, <2>4
<1>10. kept' = KeptSoFar'
  <2>1. Destinations(tx) \in SUBSET Nat
    BY <1>2, OutputsFinite
  <2>2. {d \in Destinations(tx) : d < next' /\ DOMAIN allocated'[d] # {}} = {}
    BY <1>1, <2>1
  <2>3. KeptSoFar' = [o \in {} |-> allocated'[o]]
    BY <1>1, <2>2 DEF KeptSoFar
  <2>4. kept' = << >>
    BY <1>1 DEF AmongEdicts
  <2> QED BY <2>3, <2>4
<1>11. AmongOutputs'
  <2>1. /\ tx' = tx /\ etched' = etched /\ held' = held
        /\ next' = 0 /\ unallocated' = << >>
    BY <1>1
  <2>2. tx.outputs \in Nat
    BY <1>2
  <2>3. (next \in 0..tx.outputs)'
    BY <2>1, <2>2
  <2>4. (allocated = AllocatedAtLast(tx, etched, held))'
    BY <2>1, <1>8, Zenon DEF last
  <2>5. (burned = BurnedSoFar)'
    <3>1. burned' = Added(RestAtLast(tx, etched, held),
                          AllAdded(allocated', {o \in tx.op_return : o < next'}))
      BY <1>9, Zenon DEF rest
    <3> QED BY <2>1, <3>1, Zenon DEF BurnedSoFar
  <2> QED BY <2>1, <2>3, <2>4, <2>5, <1>10 DEF AmongOutputs
<1> QED BY <1>1, <1>8, <1>11 DEF LoopInductive

(* Of what is burned so far and what is on one more output, no id makes    *)
(* more than was held of it.                                               *)
LEMMA BurnedFits ==
  ASSUME tx \in Transaction, held \in Holdings,
         allocated = AllocatedAtLast(tx, etched, held),
         NEW S \in SUBSET OutputsOf(tx), NEW x \in OutputsOf(tx) \ S
  PROVE  AddFits(Added(RestAtLast(tx, etched, held), AllAdded(allocated, S)), allocated[x])
<1> DEFINE r == RestAtLast(tx, etched, held)
           before == Added(r, AllAdded(allocated, S))
           T == S \cup {x}
<1> SUFFICES ASSUME NEW id \in DOMAIN allocated[x]
             PROVE  Fits(Amount(before, id) + allocated[x][id])
  BY DEF AddFits
<1> DEFINE on == [o \in OutputsOf(tx) |-> Amount(allocated[o], id)]
<1>1. /\ Deciphered(tx) /\ MaxLot \in Nat
      /\ \A i \in DOMAIN held : held[i] \in Nat /\ held[i] <= MaxLot
  BY ArgumentFacts
<1>2. /\ IsFiniteSet(OutputsOf(tx)) /\ IsFiniteSet(S)
  BY <1>1, OutputsFinite, FS_Subset
<1>3. /\ allocated \in [OutputsOf(tx) -> PositivesOf(DOMAIN held)]
      /\ \A o \in OutputsOf(tx) : Balances(allocated[o])
      /\ \A i \in DOMAIN held : /\ Amount(r, i) \in Nat
                                /\ held[i] = Amount(r, i) + OnAllocated(tx, allocated, i)
  BY AtLastFacts
<1> HIDE DEF r
<1>4. id \in DOMAIN held
  <2>1. allocated[x] \in PositivesOf(DOMAIN held)
    BY <1>3
  <2> QED BY <2>1, PositivesType
<1>5. \A o \in OutputsOf(tx) : on[o] \in Nat
  BY <1>3, BalancesAmount
<1>6. Amount(AllAdded(allocated, S), id) = SumFunctionOnSet(on, S)
  <2>1. \A o \in S : \A i \in DOMAIN allocated[o] : allocated[o][i] \in Nat
    BY <1>3 DEF Balances
  <2>2. \A o \in S : on[o] = Amount(allocated[o], id)
    OBVIOUS
  <2> QED BY <1>2, <2>1, <2>2, AddedUp
<1>7. Amount(before, id) = Amount(r, id) + SumFunctionOnSet(on, S)
  BY <1>6, AmountAdded
<1>8. OnAllocated(tx, allocated, id) = SumFunctionOnSet(on, OutputsOf(tx))
  BY Zenon DEF OnAllocated
<1> HIDE DEF on, before
<1>9. SumFunctionOnSet(on, T) = on[x] + SumFunctionOnSet(on, S)
  <2>1. \A o \in S \cup {x} : on[o] \in Nat
    BY <1>5
  <2> QED BY <1>2, <2>1, SumAdd
<1>10. /\ SumFunctionOnSet(on, S) \in Nat
       /\ SumFunctionOnSet(on, T) <= SumFunctionOnSet(on, OutputsOf(tx))
       /\ SumFunctionOnSet(on, OutputsOf(tx)) \in Nat
  <2>1. T \in SUBSET OutputsOf(tx)
    OBVIOUS
  <2> HIDE DEF T
  <2> QED BY <1>2, <1>5, <2>1, SumPart, SumType
<1>11. on[x] = allocated[x][id] /\ on[x] \in Nat
  BY <1>5 DEF on, Amount
<1>12. Amount(r, id) \in Nat /\ held[id] \in Nat /\ held[id] <= MaxLot
       /\ held[id] = Amount(r, id) + SumFunctionOnSet(on, OutputsOf(tx))
  BY <1>1, <1>3, <1>4, <1>8
<1> QED BY <1>1, <1>7, <1>9, <1>10, <1>11, <1>12 DEF Fits

(* An output goes on with what the loop has burned and stored so far.      *)
LEMMA OutputKeeps ==
  ASSUME LoopInductive, Output
  PROVE  LoopInductive'
<1>1. /\ tx \in Transaction /\ held \in Holdings
      /\ pc = "outputs" /\ AmongOutputs /\ next < tx.outputs
      /\ next' = next + 1
      /\ tx' = tx /\ etched' = etched /\ held' = held
      /\ unallocated' = unallocated /\ allocated' = allocated
  BY DEF LoopInductive, Output
<1>2. /\ Deciphered(tx) /\ tx.outputs \in Nat
      /\ OutputsOf(tx) \in SUBSET Nat
      /\ Destinations(tx) \in SUBSET Nat
      /\ tx.op_return \in SUBSET OutputsOf(tx) /\ IsFiniteSet(tx.op_return)
  BY <1>1, ArgumentFacts, OutputsFinite
<1>3. /\ next \in OutputsOf(tx) /\ next \in Nat
      /\ next + 1 \in 0..tx.outputs
      /\ next \in Destinations(tx) <=> next \notin tx.op_return
      /\ \A o \in Nat : o < next + 1 <=> (o < next \/ o = next)
      /\ ~(next < next)
  BY <1>1, <1>2 DEF AmongOutputs, OutputsOf, Destinations
<1> DEFINE rest == RestAtLast(tx, etched, held)
           before == {o \in tx.op_return : o < next}
           after == {o \in tx.op_return : o < next + 1}
           stored == {d \in Destinations(tx) : d < next /\ DOMAIN allocated[d] # {}}
           balances == allocated[next]
<1>4. /\ \A o \in OutputsOf(tx) : Balances(allocated[o])
      /\ Balances(rest)
      /\ burned = Added(rest, AllAdded(allocated, before))
      /\ kept = [o \in stored |-> allocated[o]]
      /\ allocated = AllocatedAtLast(tx, etched, held)
  <2>1. allocated = AllocatedAtLast(tx, etched, held) /\ burned = BurnedSoFar /\ kept = KeptSoFar
    BY <1>1 DEF AmongOutputs
  <2> QED BY <1>1, <2>1, AtLastFacts, RestBalances, Zenon DEF BurnedSoFar, KeptSoFar
<1>5. /\ before \in SUBSET OutputsOf(tx) /\ IsFiniteSet(before)
      /\ next \notin before
      /\ next \in tx.op_return => after = before \cup {next}
      /\ next \notin tx.op_return => after = before
  <2>1. before \subseteq tx.op_return
    OBVIOUS
  <2> QED BY <1>2, <1>3, <2>1, FS_Subset
<1> HIDE DEF rest
<1>6. /\ pc' = "outputs"
      /\ burned' = Added(rest, AllAdded(allocated, after))
      /\ kept' = [o \in {d \in Destinations(tx) : d < next + 1 /\ DOMAIN allocated[d] # {}} |->
                    allocated[o]]
  <2>1. CASE next \in tx.op_return
    <3>1. kept' = kept
      BY <1>3, <2>1 DEF Output, Stored
    <3>2. {d \in Destinations(tx) : d < next + 1 /\ DOMAIN allocated[d] # {}} = stored
      BY <1>2, <1>3, <2>1
    <3>3. Added(burned, balances) = Added(rest, AllAdded(allocated, after))
      <4> HIDE DEF before, after
      <4>1. \A y \in before \cup {next} : Balances(allocated[y])
        BY <1>3, <1>4, <1>5
      <4> QED BY <1>4, <1>5, <2>1, <4>1, OneMoreAddedUp
    <3>4. DOMAIN balances = {} => Added(burned, balances) = burned
      <4> SUFFICES ASSUME DOMAIN balances = {}
                   PROVE  Added(burned, balances) = burned
        OBVIOUS
      <4>1. balances = << >>
        <5>1. balances = [i \in DOMAIN balances |-> balances[i]]
          BY <1>3, <1>4 DEF Balances
        <5> QED BY <5>1
      <4>2. Balances(burned)
        <5> HIDE DEF before
        <5>1. \A y \in before : Balances(allocated[y])
          BY <1>4, <1>5
        <5>2. Balances(AllAdded(allocated, before))
          BY <1>5, <5>1, AddedUpBalances
        <5> QED BY <1>4, <5>2, AddedBalances
      <4> QED BY <4>1, <4>2, NothingAdded DEF Balances
    <3>5. AddFits(burned, balances)
      <4> HIDE DEF before
      <4> QED BY <1>1, <1>3, <1>4, <1>5, BurnedFits DEF rest
    <3>6. pc' = "outputs" /\ burned' = Added(burned, balances)
      BY <1>1, <2>1, <3>4, <3>5 DEF Output, Stored, Unless
    <3> QED BY <1>4, <3>1, <3>2, <3>3, <3>6
  <2>2. CASE next \notin tx.op_return
    <3>1. pc' = "outputs" /\ burned' = burned
      BY <1>1, <2>2 DEF Output, Stored
    <3>2. CASE DOMAIN balances = {}
      <4>1. kept' = kept
        BY <3>2 DEF Output
      <4>2. {d \in Destinations(tx) : d < next + 1 /\ DOMAIN allocated[d] # {}} = stored
        BY <1>2, <1>3, <3>2
      <4> QED BY <1>4, <1>5, <2>2, <3>1, <4>1, <4>2
    <3>3. CASE DOMAIN balances # {}
      <4>1. kept' = Put(kept, next, balances)
        BY <2>2, <3>3 DEF Output, Stored
      <4>2. {d \in Destinations(tx) : d < next + 1 /\ DOMAIN allocated[d] # {}} = stored \cup {next}
        BY <1>2, <1>3, <2>2, <3>3
      <4>3. Put(kept, next, balances) = [o \in stored \cup {next} |-> allocated[o]]
        <5> HIDE DEF stored
        <5>1. DOMAIN kept = stored /\ \A o \in stored : kept[o] = allocated[o]
          BY <1>4
        <5> QED BY <5>1 DEF Put
      <4> QED BY <1>5, <1>4, <2>2, <3>1, <4>1, <4>2, <4>3
    <3> QED BY <3>2, <3>3
  <2> QED BY <2>1, <2>2
<1>7. AmongOutputs'
  <2>1. (next \in 0..tx.outputs)' /\ unallocated' = << >>
    BY <1>1, <1>3 DEF AmongOutputs
  <2>2. (allocated = AllocatedAtLast(tx, etched, held))'
    BY <1>1, <1>4, Zenon
  <2>3. (burned = BurnedSoFar)'
    BY <1>1, <1>6, Zenon DEF BurnedSoFar, rest
  <2>4. (kept = KeptSoFar)'
    BY <1>1, <1>6, Zenon DEF KeptSoFar
  <2> QED BY <2>1, <2>2, <2>3, <2>4 DEF AmongOutputs
<1> QED BY <1>1, <1>6, <1>7 DEF LoopInductive

LEMMA ReturnKeeps ==
  ASSUME LoopInductive, Return
  PROVE  LoopInductive'
<1>1. /\ tx \in Transaction /\ held \in Holdings
      /\ AmongOutputs /\ next >= tx.outputs /\ pc' = "done"
      /\ UNCHANGED <<tx, etched, held, unallocated, allocated, burned, kept, next>>
  BY DEF LoopInductive, Return
<1>2. next = tx.outputs
  <2>1. tx.outputs \in Nat
    BY <1>1, ArgumentFacts
  <2> QED BY <1>1, <2>1 DEF AmongOutputs
<1>3. AmongOutputs'
  BY <1>1, Zenon DEF AmongOutputs, BurnedSoFar, KeptSoFar
<1> QED BY <1>1, <1>2, <1>3 DEF LoopInductive

LEMMA StutterKeeps ==
  ASSUME LoopInductive, UNCHANGED vars
  PROVE  LoopInductive'
<1>1. /\ tx' = tx /\ etched' = etched /\ held' = held /\ unallocated' = unallocated
      /\ allocated' = allocated /\ burned' = burned /\ kept' = kept
      /\ next' = next /\ pc' = pc
  BY DEF vars
<1>2. AmongEdicts => AmongEdicts'
  BY <1>1, Zenon DEF AmongEdicts
<1>3. AmongOutputs => AmongOutputs'
  BY <1>1, Zenon DEF AmongOutputs, BurnedSoFar, KeptSoFar
<1> QED BY <1>1, <1>2, <1>3 DEF LoopInductive

LEMMA AlwaysLoops == Spec => []LoopInductive
<1>1. Init => LoopInductive
  BY InitLoops
<1>2. LoopInductive /\ [Next]_vars => LoopInductive'
  BY SkipKeeps, CarryKeeps, RestKeeps, OutputKeeps, ReturnKeeps, StutterKeeps DEF Next
<1> QED BY <1>1, <1>2, PTL DEF Spec

-----------------------------------------------------------------------------
(* While the edicts are carried out, everything is unallocated or on an    *)
(* output.                                                                 *)
LEMMA NothingLostAmongEdicts ==
  ASSUME LoopInductive, pc = "edicts"
  PROVE  NothingLost
<1>1. /\ tx \in Transaction /\ held \in Holdings /\ AmongEdicts
  BY DEF LoopInductive
<1>2. /\ Deciphered(tx) /\ \A id \in DOMAIN held : held[id] \in Nat
  BY <1>1, ArgumentFacts
<1>3. PICK u : /\ InTurn(tx, etched, held, u)
               /\ unallocated = u[next - 1].unallocated
               /\ allocated = u[next - 1].allocated
  BY <1>1 DEF AmongEdicts
<1>4. u[next - 1] \in Conserving(tx, held)
  <2>1. next - 1 \in 0..Len(Said(tx))
    <3>1. Len(Said(tx)) \in Nat
      BY <1>2, SaidFacts
    <3> QED BY <1>1, <3>1 DEF AmongEdicts
  <2> QED BY <1>3, <2>1 DEF InTurn
<1>5. /\ unallocated \in [DOMAIN held -> Nat]
      /\ allocated \in [OutputsOf(tx) -> PositivesOf(DOMAIN held)]
      /\ \A id \in DOMAIN held :
           held[id] = unallocated[id] + OnAllocated(tx, allocated, id)
  BY <1>3, <1>4 DEF Conserving
<1> SUFFICES ASSUME NEW id \in DOMAIN held
             PROVE  held[id] = Amount(unallocated, id) + Placed(id) + Amount(burned, id)
  BY DEF NothingLost
<1> DEFINE on == [o \in OutputsOf(tx) |-> Amount(allocated[o], id)]
<1>6. Placed(id) = SumFunction(on)
  <2>1. \A o : Waiting(o)
    BY DEF Waiting
  <2>2. [o \in OutputsOf(tx) |->
           IF Waiting(o) THEN Amount(allocated[o], id)
           ELSE IF o \in DOMAIN kept THEN Amount(kept[o], id) ELSE 0] = on
    BY <2>1
  <2> HIDE DEF on
  <2> QED BY <2>2, Zenon DEF Placed
<1>7. OnAllocated(tx, allocated, id) = SumFunctionOnSet(on, OutputsOf(tx))
  BY Zenon DEF OnAllocated
<1>8. SumFunction(on) = SumFunctionOnSet(on, OutputsOf(tx)) /\ SumFunctionOnSet(on, OutputsOf(tx)) \in Nat
  <2>1. DOMAIN on = OutputsOf(tx)
    OBVIOUS
  <2>2. \A o \in OutputsOf(tx) : on[o] \in Nat
    BY <1>5, PositivesType
  <2> HIDE DEF on
  <2>3. SumFunction(on) = SumFunctionOnSet(on, OutputsOf(tx))
    BY <2>1, Zenon DEF SumFunction
  <2> QED BY <1>2, <2>2, <2>3, OutputsFinite, SumType
<1>9. Amount(unallocated, id) = unallocated[id] /\ unallocated[id] \in Nat
  BY <1>5 DEF Amount
<1>10. Amount(burned, id) = 0
  BY <1>1 DEF AmongEdicts, Amount
<1> HIDE DEF on
<1> QED BY <1>5, <1>6, <1>7, <1>8, <1>9, <1>10

(* While the outputs are gone through, everything is on an output, still   *)
(* in allocated or already stored, or burned.                              *)
LEMMA NothingLostAmongOutputs ==
  ASSUME LoopInductive, pc \in {"outputs", "done"}
  PROVE  NothingLost
<1>1. tx \in Transaction /\ held \in Holdings /\ AmongOutputs
  BY DEF LoopInductive
<1>2. /\ Deciphered(tx) /\ tx.outputs \in Nat
      /\ OutputsOf(tx) \in SUBSET Nat /\ IsFiniteSet(OutputsOf(tx))
      /\ tx.op_return \in SUBSET OutputsOf(tx)
  BY <1>1, ArgumentFacts, OutputsFinite
<1> DEFINE r == RestAtLast(tx, etched, held)
           S == {o \in tx.op_return : o < next}
           T == OutputsOf(tx) \ S
<1>3. /\ allocated = AllocatedAtLast(tx, etched, held)
      /\ unallocated = << >> /\ next \in Nat
      /\ burned = Added(r, AllAdded(allocated, S))
      /\ kept = KeptSoFar
  <2>1. next \in Nat
    BY <1>1, <1>2 DEF AmongOutputs
  <2> QED BY <1>1, <2>1, Zenon DEF AmongOutputs, BurnedSoFar
<1>4. /\ allocated \in [OutputsOf(tx) -> PositivesOf(DOMAIN held)]
      /\ \A o \in OutputsOf(tx) : Balances(allocated[o])
      /\ \A id \in DOMAIN held : /\ Amount(r, id) \in Nat
                                 /\ held[id] = Amount(r, id) + OnAllocated(tx, allocated, id)
  BY <1>1, <1>3, AtLastFacts
<1>5. /\ S \in SUBSET OutputsOf(tx) /\ IsFiniteSet(S)
      /\ T \in SUBSET OutputsOf(tx) /\ IsFiniteSet(T)
      /\ S \cap T = {} /\ S \cup T = OutputsOf(tx)
  <2>1. S \subseteq OutputsOf(tx)
    BY <1>2
  <2> QED BY <1>2, <2>1, FS_Subset
<1> SUFFICES ASSUME NEW id \in DOMAIN held
             PROVE  held[id] = Amount(unallocated, id) + Placed(id) + Amount(burned, id)
  BY DEF NothingLost
<1> DEFINE on == [o \in OutputsOf(tx) |-> Amount(allocated[o], id)]
           placed == [o \in OutputsOf(tx) |->
                        IF Waiting(o) THEN Amount(allocated[o], id)
                        ELSE IF o \in DOMAIN kept THEN Amount(kept[o], id) ELSE 0]
<1>6. \A o \in OutputsOf(tx) : on[o] = Amount(allocated[o], id) /\ on[o] \in Nat
  BY <1>4, BalancesAmount
<1>7. /\ DOMAIN placed = OutputsOf(tx)
      /\ \A o \in S : placed[o] = 0
      /\ \A o \in T : placed[o] = on[o]
  <2>1. \A o \in OutputsOf(tx) : Waiting(o) <=> next <= o
    BY DEF Waiting
  <2>2. /\ DOMAIN kept = {d \in Destinations(tx) : d < next /\ DOMAIN allocated[d] # {}}
        /\ \A o \in DOMAIN kept : kept[o] = allocated[o]
    BY <1>3 DEF KeptSoFar
  <2>3. ASSUME NEW o \in S
        PROVE  placed[o] = 0
    <3>1. o \in OutputsOf(tx) /\ o \notin Destinations(tx) /\ ~(next <= o)
      BY <1>2, <1>3 DEF Destinations
    <3> QED BY <2>1, <2>2, <3>1
  <2>4. ASSUME NEW o \in T
        PROVE  placed[o] = on[o]
    <3>1. CASE next <= o
      BY <2>1, <3>1
    <3>2. CASE ~(next <= o)
      <4>1. o \in OutputsOf(tx) /\ o < next /\ o \in Destinations(tx)
        BY <1>2, <1>3, <3>2 DEF Destinations
      <4>2. CASE DOMAIN allocated[o] = {}
        <5>1. o \notin DOMAIN kept
          BY <2>2, <4>2
        <5>2. Amount(allocated[o], id) = 0
          BY <4>2 DEF Amount
        <5> QED BY <2>1, <3>2, <4>1, <5>1, <5>2
      <4>3. CASE DOMAIN allocated[o] # {}
        <5>1. o \in DOMAIN kept /\ kept[o] = allocated[o]
          BY <2>2, <4>1, <4>3
        <5> QED BY <2>1, <3>2, <4>1, <5>1
      <4> QED BY <4>2, <4>3
    <3> QED BY <3>1, <3>2
  <2> QED BY <2>3, <2>4
<1>8. Placed(id) = SumFunction(placed)
  BY Zenon DEF Placed
<1>9. OnAllocated(tx, allocated, id) = SumFunctionOnSet(on, OutputsOf(tx))
  BY Zenon DEF OnAllocated
<1>10. Amount(AllAdded(allocated, S), id) = SumFunctionOnSet(on, S)
  <2>1. \A o \in S : \A i \in DOMAIN allocated[o] : allocated[o][i] \in Nat
    BY <1>4, <1>5 DEF Balances
  <2>2. \A o \in S : on[o] = Amount(allocated[o], id)
    BY <1>5, <1>6
  <2> HIDE DEF S, on
  <2> QED BY <1>5, <2>1, <2>2, AddedUp
<1> HIDE DEF S, T, on, placed
<1>11. SumFunctionOnSet(on, OutputsOf(tx)) = SumFunctionOnSet(on, S) + SumFunctionOnSet(on, T)
  BY <1>5, <1>6, SumUnion
<1>12. SumFunctionOnSet(placed, OutputsOf(tx)) = SumFunctionOnSet(placed, T)
  <2>1. \A o \in T : placed[o] \in Nat
    BY <1>5, <1>6, <1>7
  <2>2. \A o \in OutputsOf(tx) \ T : placed[o] = 0
    BY <1>5, <1>7
  <2> QED BY <1>2, <1>5, <2>1, <2>2, SumSupport
<1>13. SumFunctionOnSet(placed, T) = SumFunctionOnSet(on, T)
  <2>1. \A o \in T : placed[o] \in Nat /\ placed[o] = on[o]
    BY <1>5, <1>6, <1>7
  <2> QED BY <1>5, <2>1, SumSame
<1>14. SumFunction(placed) = SumFunctionOnSet(placed, OutputsOf(tx))
  BY <1>7, Zenon DEF SumFunction
<1>15. SumFunctionOnSet(on, S) \in Nat /\ SumFunctionOnSet(on, T) \in Nat
  BY <1>5, <1>6, SumType
<1>16. Amount(burned, id) = Amount(r, id) + SumFunctionOnSet(on, S)
  BY <1>3, <1>10, AmountAdded
<1>17. Amount(unallocated, id) = 0
  BY <1>3 DEF Amount
<1> HIDE DEF r
<1> QED BY <1>4, <1>8, <1>9, <1>11, <1>12, <1>13, <1>14, <1>15, <1>16, <1>17

(* A loop that is through has come to what Distribution says.              *)
LEMMA DoneDistributes == LoopInductive => ComputesDistribution
<1> SUFFICES ASSUME LoopInductive, pc = "done"
             PROVE  LET d == Distribution(tx, etched, held)
                    IN kept = d.kept /\ burned = d.burned
  BY DEF ComputesDistribution
<1>1. tx \in Transaction /\ held \in Holdings /\ AmongOutputs /\ next = tx.outputs
  BY DEF LoopInductive
<1>2. /\ tx.outputs \in Nat
      /\ tx.op_return \in SUBSET OutputsOf(tx)
      /\ Destinations(tx) \in SUBSET OutputsOf(tx)
  BY <1>1, ArgumentFacts, OutputsFinite
<1>3. \A o \in OutputsOf(tx) : o < next
  BY <1>1, <1>2 DEF OutputsOf
<1> DEFINE last == AllocatedAtLast(tx, etched, held)
           rest == RestAtLast(tx, etched, held)
<1>4. Distribution(tx, etched, held) =
        [kept |-> [o \in {d \in Destinations(tx) : DOMAIN last[d] # {}} |-> last[o]],
         burned |-> Added(rest, AllAdded(last, tx.op_return))]
  BY Zenon DEF Distribution, AllAdded, AllocatedAtLast, RestAtLast, TargetOf
<1>5. allocated = last /\ burned = BurnedSoFar /\ kept = KeptSoFar
  BY <1>1 DEF AmongOutputs
<1> HIDE DEF last, rest
<1>6. {o \in tx.op_return : o < next} = tx.op_return
  BY <1>2, <1>3
<1>7. {d \in Destinations(tx) : d < next /\ DOMAIN allocated[d] # {}}
        = {d \in Destinations(tx) : DOMAIN last[d] # {}}
  BY <1>2, <1>3, <1>5
<1>8. burned = Added(rest, AllAdded(last, tx.op_return))
  BY <1>5, <1>6, Zenon DEF BurnedSoFar, rest
<1>9. kept = [o \in {d \in Destinations(tx) : DOMAIN last[d] # {}} |-> last[o]]
  BY <1>5, <1>7, Zenon DEF KeptSoFar
<1> QED BY <1>4, <1>8, <1>9

-----------------------------------------------------------------------------
(* Whatever a transaction holds and its edicts say, the checked additions  *)
(* and subtractions of Lot never panic: no share is more than the balance  *)
(* it is taken from, and what comes together on an output or is burned is  *)
(* part of what was held (lot.rs:20-72, rune_updater.rs:52-209).           *)
THEOREM NoLotPanics == Spec => []NeverPanics
<1>1. LoopInductive => NeverPanics
  BY DEF LoopInductive, NeverPanics
<1> QED BY <1>1, AlwaysLoops, PTL

(* Between any two steps of the loops, all that the transaction held of a  *)
(* rune is unallocated, on one of its outputs, or burned, for any number   *)
(* of edicts and outputs (rune_updater.rs:52-209).                         *)
THEOREM LoopsLoseNothing == Spec => []NothingLost
<1>1. LoopInductive => NothingLost
  BY NothingLostAmongEdicts, NothingLostAmongOutputs DEF LoopInductive
<1> QED BY <1>1, AlwaysLoops, PTL

(* The loops over edicts and outputs compute the Distribution of Edicts,   *)
(* by which RuneLedger indexes a transaction (rune_updater.rs:52-209).     *)
THEOREM LoopsDistribute == Spec => []ComputesDistribution
<1> QED BY DoneDistributes, AlwaysLoops, PTL

=============================================================================
