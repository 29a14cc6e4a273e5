------------------------------ MODULE LogsProofs ------------------------------
(***************************************************************************)
(* Machine-checked proofs about Logs, for any capacity, number of entries, *)
(* distribution over the buffers, and limits of a client.                  *)
(***************************************************************************)
EXTENDS Logs, FiniteSetTheorems, SequenceTheorems, TLAPS

-----------------------------------------------------------------------------
(* Ranks in a finite set under a strict total order, a set of pairs.       *)
Below(C, R, x) == {y \in C : <<y, x>> \in R}
Rank(C, R, x) == Cardinality(Below(C, R, x))

Orders(R, C) ==
  /\ \A x \in C : <<x, x>> \notin R
  /\ \A x, y \in C : x # y => <<x, y>> \in R \/ <<y, x>> \in R
  /\ \A x, y, z \in C : <<x, y>> \in R /\ <<y, z>> \in R => <<x, z>> \in R

LEMMA RankFacts ==
  ASSUME NEW C, IsFiniteSet(C), NEW R, Orders(R, C)
  PROVE  /\ Cardinality(C) \in Nat
         /\ \A x \in C : Rank(C, R, x) \in Nat /\ Rank(C, R, x) < Cardinality(C)
         /\ \A x, y \in C : <<x, y>> \in R => Rank(C, R, x) < Rank(C, R, y)
         /\ \A x, y \in C : Rank(C, R, x) = Rank(C, R, y) => x = y
         /\ \A x, y \in C : Rank(C, R, x) < Rank(C, R, y) => <<x, y>> \in R
<1>1. \A x : /\ Below(C, R, x) \in SUBSET C
             /\ IsFiniteSet(Below(C, R, x))
             /\ Rank(C, R, x) \in Nat
  BY FS_Subset, FS_CardinalityType DEF Below, Rank
<1>2. Cardinality(C) \in Nat
  BY FS_CardinalityType
<1>3. ASSUME NEW x \in C
      PROVE  Rank(C, R, x) < Cardinality(C)
  <2>1. x \notin Below(C, R, x)
    BY DEF Orders, Below
  <2>2. Cardinality(Below(C, R, x)) <= Cardinality(C)
        /\ Cardinality(Below(C, R, x)) # Cardinality(C)
    BY <1>1, <2>1, FS_Subset
  <2> QED BY <1>1, <1>2, <2>2 DEF Rank
<1>4. ASSUME NEW x \in C, NEW y \in C, <<x, y>> \in R
      PROVE  Rank(C, R, x) < Rank(C, R, y)
  <2>1. Below(C, R, x) \in SUBSET Below(C, R, y)
    BY <1>4 DEF Orders, Below
  <2>2. x \in Below(C, R, y) /\ x \notin Below(C, R, x)
    BY <1>4 DEF Orders, Below
  <2>3. Cardinality(Below(C, R, x)) <= Cardinality(Below(C, R, y))
        /\ Cardinality(Below(C, R, x)) # Cardinality(Below(C, R, y))
    BY <1>1, <2>1, <2>2, FS_Subset
  <2> QED BY <1>1, <2>3 DEF Rank
<1>5. ASSUME NEW x \in C, NEW y \in C, Rank(C, R, x) = Rank(C, R, y)
      PROVE  x = y
  <2>1. x = y \/ <<x, y>> \in R \/ <<y, x>> \in R
    BY DEF Orders
  <2> QED BY <1>1, <1>4, <1>5, <2>1
<1>6. ASSUME NEW x \in C, NEW y \in C, Rank(C, R, x) < Rank(C, R, y)
      PROVE  <<x, y>> \in R
  <2>1. x = y \/ <<x, y>> \in R \/ <<y, x>> \in R
    BY DEF Orders
  <2> QED BY <1>1, <1>4, <1>6, <2>1
<1> QED BY <1>1, <1>2, <1>3, <1>4, <1>5, <1>6

LEMMA EveryRankOccurs ==
  ASSUME NEW C, IsFiniteSet(C), NEW R, Orders(R, C), NEW k \in 0..(Cardinality(C) - 1)
  PROVE  \E x \in C : Rank(C, R, x) = k
<1>1. SUFFICES ASSUME \A x \in C : Rank(C, R, x) # k PROVE FALSE
  OBVIOUS
<1> DEFINE n == Cardinality(C)
           I == 0..(n - 1)
           T == I \ {k}
           f == [x \in C |-> Rank(C, R, x)]
<1>2. n \in Nat
  BY FS_CardinalityType
<1>3. IsFiniteSet(T) /\ Cardinality(T) < n
  <2>1. 0 \in Int /\ n - 1 \in Int /\ k \in 0..(n - 1)
    BY <1>2
  <2>2. IsFiniteSet(I) /\ Cardinality(I) = n
    <3> HIDE DEF n
    <3>1. ~(0 > n - 1) /\ (n - 1) - 0 + 1 = n
      BY <1>2, <2>1
    <3> QED BY <2>1, <3>1, FS_Interval
  <2>3. k \in I
    OBVIOUS
  <2> HIDE DEF n, I
  <2>4. IsFiniteSet(T) /\ Cardinality(T) = n - 1
    BY <2>2, <2>3, FS_RemoveElement
  <2> QED BY <1>2, <2>4
<1>4. f \in [C -> T]
  <2>1. \A x \in C : Rank(C, R, x) \in Nat /\ Rank(C, R, x) < n
    BY RankFacts
  <2> QED BY <1>1, <1>2, <2>1
<1>5. \A x \in C : f[x] = Rank(C, R, x)
  OBVIOUS
<1> HIDE DEF T, f
<1>6. \E x, y \in C : x # y /\ f[x] = f[y]
  BY <1>3, <1>4, FS_PigeonHole
<1> QED BY <1>5, <1>6, RankFacts

-----------------------------------------------------------------------------
(* The log as a function of the buffers b and of what a client c asks for. *)
PriorityFacts == 
  /\ DOMAIN Priorities = 1..5 /\ Len(Priorities) = 5
  /\ \A k \in 1..5 : Priorities[k] \in ToSet(Priorities)
  /\ \A p \in ToSet(Priorities) : \E k \in 1..5 : Priorities[k] = p
  /\ \A j, k \in 1..5 : Priorities[j] = Priorities[k] => j = k

LEMMA PrioritiesDiffer == PriorityFacts
<1>1. DOMAIN Priorities = 1..5 /\ Len(Priorities) = 5
  BY DEF Priorities
<1>2. ToSet(Priorities) = {Priorities[k] : k \in 1..5}
  BY <1>1 DEF ToSet
<1>3. ASSUME NEW j \in 1..5, NEW k \in 1..5, Priorities[j] = Priorities[k]
      PROVE  j = k
  <2>1. /\ Priorities[1] = "DEBUG" /\ Priorities[2] = "INFO" /\ Priorities[3] = "WARNING"
        /\ Priorities[4] = "ERROR" /\ Priorities[5] = "CRITICAL"
    BY DEF Priorities
  <2>2. (j = 1 \/ j = 2 \/ j = 3 \/ j = 4 \/ j = 5) /\ (k = 1 \/ k = 2 \/ k = 3 \/ k = 4 \/ k = 5)
    OBVIOUS
  <2> QED BY <1>3, <2>1, <2>2
<1> QED BY <1>1, <1>2, <1>3 DEF PriorityFacts

Entries == [timestamp : Nat, counter : Nat, message : Message]

EntryAt(b, x) == b[Priorities[x[1]]][x[2]]

PlacesIn(b) == UNION {{k} \X DOMAIN b[Priorities[k]] : k \in 1..5}

(* Buffers as they are when n entries were logged up to time t: no entry   *)
(* is there twice.                                                         *)
Buffered(b, n, t) ==
  /\ b \in [ToSet(Priorities) -> Seq(Entries)]
  /\ \A p \in ToSet(Priorities) : Len(b[p]) <= Capacity
  /\ \A x \in PlacesIn(b) : EntryAt(b, x).counter < n /\ EntryAt(b, x).timestamp <= t
  /\ \A x, y \in PlacesIn(b) : EntryAt(b, x).counter = EntryAt(b, y).counter => x = y

Seen(b, c) ==
  {x \in PlacesIn(b) : /\ c.debug \/ Priorities[x[1]] # "DEBUG"
                       /\ EntryAt(b, x).timestamp >= c.time}

Earlier(b, x, y) ==
  \/ EntryAt(b, x).timestamp < EntryAt(b, y).timestamp
  \/ EntryAt(b, x).timestamp = EntryAt(b, y).timestamp /\ Precedes(x, y)

OrderIn(b) == {w \in PlacesIn(b) \X PlacesIn(b) : Earlier(b, w[1], w[2])}

RankIn(b, c, x) == Rank(Seen(b, c), OrderIn(b), x)

(* What a client has is of before now, and the same in the buffers.        *)
Past(g, b, n, t) ==
  /\ g \in Seq(Entries)
  /\ Len(g) <= 5 * Capacity
  /\ \A i \in 1..Len(g) :
       /\ g[i].counter < n /\ g[i].timestamp < t
       /\ \A x \in PlacesIn(b) :
            EntryAt(b, x).counter = g[i].counter => EntryAt(b, x) = g[i]

(* The entries behind what the client skips: none that it has, and none    *)
(* that is older.                                                          *)
Ahead(g, b, c) ==
  \A x \in Seen(b, c) :
    RankIn(b, c, x) >= Len(g) =>
      \A i \in 1..Len(g) : /\ g[i].counter # EntryAt(b, x).counter
                           /\ g[i].timestamp <= EntryAt(b, x).timestamp

(* What the client has is the beginning of the log.                        *)
Begins(g, b, c) ==
  \A i \in 1..Len(g) :
    \E x \in Seen(b, c) : RankIn(b, c, x) = i - 1 /\ EntryAt(b, x) = g[i]

LogInductive ==
  /\ counter \in Nat /\ now \in Nat
  /\ Buffered(buffers, counter, now)
  /\ Past(got, buffers, counter, now)
  /\ Ahead(got, buffers, client)
  /\ PagesNeverRepeat
  /\ ~evicted => Begins(got, buffers, client)

-----------------------------------------------------------------------------
(* Places.                                                                 *)
LEMMA PlaceFacts ==
  ASSUME NEW b, NEW n, NEW t, Buffered(b, n, t)
  PROVE  /\ \A x \in PlacesIn(b) :
              /\ x[1] \in 1..5 /\ x[2] \in 1..Len(b[Priorities[x[1]]])
              /\ x = <<x[1], x[2]>> /\ x[2] \in Nat
              /\ EntryAt(b, x) \in Entries
              /\ EntryAt(b, x).timestamp \in Nat /\ EntryAt(b, x).counter \in Nat
         /\ \A k \in 1..5 : /\ b[Priorities[k]] \in Seq(Entries)
                            /\ Len(b[Priorities[k]]) \in Nat
                            /\ Len(b[Priorities[k]]) <= Capacity
                            /\ \A i \in 1..Len(b[Priorities[k]]) : <<k, i>> \in PlacesIn(b)
<1>1. ASSUME NEW k \in 1..5
      PROVE  /\ b[Priorities[k]] \in Seq(Entries)
             /\ Len(b[Priorities[k]]) \in Nat
             /\ Len(b[Priorities[k]]) <= Capacity
             /\ DOMAIN b[Priorities[k]] = 1..Len(b[Priorities[k]])
  <2>1. Priorities[k] \in ToSet(Priorities)
    BY PrioritiesDiffer DEF PriorityFacts
  <2>2. b[Priorities[k]] \in Seq(Entries) /\ Len(b[Priorities[k]]) <= Capacity
    BY <2>1 DEF Buffered
  <2> QED BY <2>2
<1>2. ASSUME NEW x \in PlacesIn(b)
      PROVE  /\ x[1] \in 1..5 /\ x[2] \in 1..Len(b[Priorities[x[1]]])
             /\ x = <<x[1], x[2]>>
  <2>1. PICK k \in 1..5 : x \in {k} \X DOMAIN b[Priorities[k]]
    BY DEF PlacesIn
  <2>2. x[1] = k /\ x[2] \in DOMAIN b[Priorities[k]] /\ x = <<x[1], x[2]>>
    BY <2>1
  <2> QED BY <1>1, <2>2
<1>3. ASSUME NEW x \in PlacesIn(b)
      PROVE  EntryAt(b, x) \in Entries
  <2> DEFINE s == b[Priorities[x[1]]]
  <2>1. s \in Seq(Entries) /\ x[2] \in 1..Len(s)
    BY <1>1, <1>2
  <2> HIDE DEF s
  <2>2. s[x[2]] \in Entries
    BY <2>1
  <2> QED BY <2>2 DEF s, EntryAt
<1>4. ASSUME NEW k \in 1..5, NEW i \in 1..Len(b[Priorities[k]])
      PROVE  <<k, i>> \in PlacesIn(b)
  BY <1>1 DEF PlacesIn
<1>5. \A e \in Entries : e.timestamp \in Nat /\ e.counter \in Nat
  BY DEF Entries
<1> QED BY <1>1, <1>2, <1>3, <1>4, <1>5

LEMMA PlacesFinite ==
  ASSUME NEW b, NEW n, NEW t, Buffered(b, n, t)
  PROVE  IsFiniteSet(PlacesIn(b)) /\ Cardinality(PlacesIn(b)) <= 5 * Capacity
<1> DEFINE I == 1..5
           J == 1..Capacity
<1>1. Capacity \in Nat
  BY LogsAssumption
<1>2. IsFiniteSet(I) /\ Cardinality(I) = 5
  <2>1. 1 \in Int /\ 5 \in Int /\ ~(1 > 5) /\ 5 - 1 + 1 = 5
    OBVIOUS
  <2> QED BY <2>1, FS_Interval
<1>3. IsFiniteSet(J) /\ Cardinality(J) = Capacity
  <2>1. 1 \in Int /\ Capacity \in Int /\ (1 > Capacity <=> Capacity = 0) /\ Capacity - 1 + 1 = Capacity
    BY <1>1
  <2> QED BY <2>1, FS_Interval
<1>4. PlacesIn(b) \in SUBSET (I \X J)
  <2> SUFFICES ASSUME NEW x \in PlacesIn(b) PROVE x \in I \X J
    OBVIOUS
  <2>1. /\ x[1] \in I /\ x[2] \in 1..Len(b[Priorities[x[1]]]) /\ x = <<x[1], x[2]>>
        /\ Len(b[Priorities[x[1]]]) \in Nat /\ Len(b[Priorities[x[1]]]) <= Capacity
    BY PlaceFacts
  <2>2. x[2] \in J
    BY <1>1, <2>1
  <2> QED BY <2>1, <2>2
<1> HIDE DEF I, J
<1>5. IsFiniteSet(I \X J) /\ Cardinality(I \X J) = 5 * Capacity
  BY <1>2, <1>3, FS_Product
<1> QED BY <1>4, <1>5, FS_Subset

LEMMA PlacesOrdered ==
  ASSUME NEW b, NEW n, NEW t, Buffered(b, n, t)
  PROVE  /\ Orders(OrderIn(b), PlacesIn(b))
         /\ \A x, y \in PlacesIn(b) : <<x, y>> \in OrderIn(b) <=> Earlier(b, x, y)
<1>1. \A x \in PlacesIn(b) : /\ x[1] \in Nat /\ x[2] \in Nat /\ x = <<x[1], x[2]>>
                             /\ EntryAt(b, x).timestamp \in Nat
  BY PlaceFacts
<1>2. \A x, y \in PlacesIn(b) : <<x, y>> \in OrderIn(b) <=> Earlier(b, x, y)
  BY DEF OrderIn
<1>3. \A x \in PlacesIn(b) : ~Earlier(b, x, x)
  BY <1>1 DEF Earlier, Precedes
<1>4. ASSUME NEW x \in PlacesIn(b), NEW y \in PlacesIn(b), x # y
      PROVE  Earlier(b, x, y) \/ Earlier(b, y, x)
  <2>1. x[1] # y[1] \/ x[2] # y[2]
    BY <1>1, <1>4
  <2> QED BY <1>1, <2>1 DEF Earlier, Precedes
<1>5. ASSUME NEW x \in PlacesIn(b), NEW y \in PlacesIn(b), NEW z \in PlacesIn(b),
             Earlier(b, x, y), Earlier(b, y, z)
      PROVE  Earlier(b, x, z)
  BY <1>1, <1>5 DEF Earlier, Precedes
<1> QED BY <1>2, <1>3, <1>4, <1>5 DEF Orders

(* The places that a client is shown.                                      *)
LEMMA SeenFacts ==
  ASSUME NEW b, NEW n, NEW t, Buffered(b, n, t), NEW c
  PROVE  /\ Seen(b, c) \in SUBSET PlacesIn(b)
         /\ IsFiniteSet(Seen(b, c))
         /\ Cardinality(Seen(b, c)) \in Nat
         /\ Cardinality(Seen(b, c)) <= 5 * Capacity
         /\ Orders(OrderIn(b), Seen(b, c))
<1>1. Seen(b, c) \in SUBSET PlacesIn(b)
  BY DEF Seen
<1>2. IsFiniteSet(PlacesIn(b)) /\ Cardinality(PlacesIn(b)) <= 5 * Capacity
  BY PlacesFinite
<1>3. Orders(OrderIn(b), Seen(b, c))
  BY <1>1, PlacesOrdered DEF Orders
<1>4. /\ IsFiniteSet(Seen(b, c))
      /\ Cardinality(Seen(b, c)) <= Cardinality(PlacesIn(b))
  BY <1>1, <1>2, FS_Subset
<1>5. Cardinality(Seen(b, c)) \in Nat /\ Cardinality(PlacesIn(b)) \in Nat /\ 5 * Capacity \in Nat
  BY <1>2, <1>4, FS_CardinalityType, LogsAssumption
<1> QED BY <1>1, <1>2, <1>3, <1>4, <1>5

LEMMA SeenRanks ==
  ASSUME NEW b, NEW n, NEW t, Buffered(b, n, t), NEW c
  PROVE  /\ \A x \in Seen(b, c) : /\ RankIn(b, c, x) \in Nat
                                  /\ RankIn(b, c, x) < Cardinality(Seen(b, c))
         /\ \A x, y \in Seen(b, c) : RankIn(b, c, x) = RankIn(b, c, y) => x = y
         /\ \A x, y \in Seen(b, c) :
              RankIn(b, c, x) < RankIn(b, c, y) =>
                /\ EntryAt(b, x).timestamp <= EntryAt(b, y).timestamp
                /\ EntryAt(b, x).counter # EntryAt(b, y).counter
         /\ \A k \in 0..(Cardinality(Seen(b, c)) - 1) : \E x \in Seen(b, c) : RankIn(b, c, x) = k
<1> DEFINE C == Seen(b, c)
           R == OrderIn(b)
<1>1. C \in SUBSET PlacesIn(b) /\ IsFiniteSet(C) /\ Orders(R, C)
  BY SeenFacts
<1>2. /\ \A x, y \in PlacesIn(b) : <<x, y>> \in R <=> Earlier(b, x, y)
      /\ \A x \in PlacesIn(b) : EntryAt(b, x).timestamp \in Nat
      /\ \A x, y \in PlacesIn(b) : EntryAt(b, x).counter = EntryAt(b, y).counter => x = y
  BY PlacesOrdered, PlaceFacts DEF Buffered
<1> HIDE DEF C, R
<1>3. /\ \A x \in C : Rank(C, R, x) \in Nat /\ Rank(C, R, x) < Cardinality(C)
      /\ \A x, y \in C : Rank(C, R, x) = Rank(C, R, y) => x = y
      /\ \A x, y \in C : Rank(C, R, x) < Rank(C, R, y) => <<x, y>> \in R
  BY <1>1, RankFacts
<1>4. \A k \in 0..(Cardinality(C) - 1) : \E x \in C : Rank(C, R, x) = k
  BY <1>1, EveryRankOccurs
<1>5. ASSUME NEW x \in C, NEW y \in C, Rank(C, R, x) < Rank(C, R, y)
      PROVE  /\ EntryAt(b, x).timestamp <= EntryAt(b, y).timestamp
             /\ EntryAt(b, x).counter # EntryAt(b, y).counter
  <2>1. x \in PlacesIn(b) /\ y \in PlacesIn(b) /\ x # y
    BY <1>1, <1>3, <1>5
  <2>2. Earlier(b, x, y)
    BY <1>2, <1>3, <1>5, <2>1
  <2> QED BY <1>2, <2>1, <2>2 DEF Earlier
<1> QED BY <1>3, <1>4, <1>5 DEF C, R, RankIn

(* do_reply sorts what it shows: each entry is at its rank.                *)
LEMMA SelectedFacts ==
  ASSUME NEW n, NEW t, Buffered(buffers, n, t)
  PROVE  /\ Selected \in Seq(Entries)
         /\ Len(Selected) = Cardinality(Seen(buffers, client))
         /\ \A k \in 1..Len(Selected) :
              \E x \in Seen(buffers, client) :
                RankIn(buffers, client, x) = k - 1 /\ Selected[k] = EntryAt(buffers, x)
<1> DEFINE C == Seen(buffers, client)
           m == Cardinality(C)
           shown == Recent(Exported(client.debug), client.time)
           place(k) == CHOOSE x \in C : RankIn(buffers, client, x) = k - 1
<1>1. shown = C
  <2>1. \A x : At(x) = EntryAt(buffers, x)
    BY DEF At, EntryAt
  <2>2. ASSUME NEW x
        PROVE  x \in Exported(client.debug) <=>
                 x \in PlacesIn(buffers) /\ (client.debug \/ Priorities[x[1]] # "DEBUG")
    <3>1. \A k : x \in {k} \X DOMAIN buffers[Priorities[k]] => x[1] = k
      OBVIOUS
    <3> QED BY <3>1, PrioritiesDiffer DEF Exported, PlacesIn, PriorityFacts
  <2> QED BY <2>1, <2>2 DEF Recent, Seen
<1>2. C \in SUBSET PlacesIn(buffers) /\ m \in Nat
  BY SeenFacts
<1>3. \A x \in C : Cardinality({y \in C : Before(y, x)}) = RankIn(buffers, client, x)
  <2> SUFFICES ASSUME NEW x \in C
               PROVE  {y \in C : Before(y, x)} = Below(C, OrderIn(buffers), x)
    BY DEF RankIn, Rank
  <2>1. \A y \in C : Before(y, x) <=> <<y, x>> \in OrderIn(buffers)
    <3>1. \A y \in C : <<y, x>> \in OrderIn(buffers) <=> Earlier(buffers, y, x)
      BY <1>2, PlacesOrdered
    <3>2. \A y : Before(y, x) <=> Earlier(buffers, y, x)
      BY DEF Before, Earlier, At, EntryAt
    <3> QED BY <3>1, <3>2
  <2> HIDE DEF C
  <2> QED BY <2>1 DEF Below
<1>4. Selected = [k \in 1..m |-> At(CHOOSE x \in C : Cardinality({y \in C : Before(y, x)}) = k - 1)]
  <2>1. Selected = Sorted(shown)
    BY Zenon DEF Selected
  <2> HIDE DEF C, shown
  <2>2. Selected = Sorted(C)
    BY <1>1, <2>1, Zenon
  <2> QED BY <2>2, Zenon DEF Sorted
<1>5. ASSUME NEW k \in 1..m
      PROVE  \E x \in C : RankIn(buffers, client, x) = k - 1 /\ Selected[k] = EntryAt(buffers, x)
  <2> DEFINE P(x) == x \in C /\ Cardinality({y \in C : Before(y, x)}) = k - 1
             x == CHOOSE x \in C : Cardinality({y \in C : Before(y, x)}) = k - 1
  <2>1. \E z \in C : Cardinality({y \in C : Before(y, z)}) = k - 1
    <3>1. k - 1 \in 0..(m - 1)
      BY <1>2
    <3>2. \E z \in C : RankIn(buffers, client, z) = k - 1
      BY <3>1, SeenRanks
    <3> QED BY <1>3, <3>2
  <2>2. x \in C /\ Cardinality({y \in C : Before(y, x)}) = k - 1
    <3> HIDE DEF C
    <3> QED BY <2>1, Zenon
  <2>3. Selected[k] = At(x)
    <3> HIDE DEF C, m
    <3> QED BY <1>4
  <2> QED BY <1>3, <2>2, <2>3 DEF At, EntryAt
<1>6. \A k \in 1..m : Selected[k] \in Entries
  <2>1. \A x \in C : EntryAt(buffers, x) \in Entries
    BY <1>2, PlaceFacts
  <2> QED BY <1>5, <2>1
<1>7. Selected \in Seq(Entries) /\ Len(Selected) = m
  <2> HIDE DEF C, m
  <2>1. Selected = [k \in 1..m |-> Selected[k]]
    BY <1>4
  <2>2. Selected \in [1..m -> Entries]
    BY <1>6, <2>1
  <2> QED BY <1>2, <2>2, SeqDef, LenProperties DEF C, m
<1> QED BY <1>5, <1>7

-----------------------------------------------------------------------------
(* One more entry e in the buffer of priority q: each other one was there  *)
(* before, at the place Back.                                              *)
Logged(b, b2, q, e) ==
  b2 = [b EXCEPT ![Priorities[q]] =
          Append(IF Len(b[Priorities[q]]) = Capacity THEN Tail(b[Priorities[q]])
                                                     ELSE b[Priorities[q]], e)]

Back(b, q, y) ==
  IF Len(b[Priorities[q]]) = Capacity /\ y[1] = q THEN <<q, y[2] + 1>> ELSE y

Latest(b2, q) == <<q, Len(b2[Priorities[q]])>>

(* What becomes of the buffer itself.                                      *)
Shifted(b, b2, q, e) ==
  /\ b2 \in [ToSet(Priorities) -> Seq(Entries)]
  /\ \A k \in 1..5 \ {q} : b2[Priorities[k]] = b[Priorities[k]]
  /\ LET s == b[Priorities[q]]
         s2 == b2[Priorities[q]]
     IN /\ Len(s2) \in Nat \ {0} /\ Len(s2) <= Capacity
        /\ s2[Len(s2)] = e
        /\ Len(s) = Capacity => /\ Len(s2) = Len(s)
                               /\ \A i \in 1..(Len(s2) - 1) : s2[i] = s[i + 1]
        /\ Len(s) # Capacity => /\ Len(s2) = Len(s) + 1
                               /\ \A i \in 1..(Len(s2) - 1) : s2[i] = s[i]

LEMMA LoggedBuffers ==
  ASSUME NEW b, NEW n, NEW t, Buffered(b, n, t), NEW q \in 1..5, NEW e \in Entries,
         NEW b2, Logged(b, b2, q, e)
  PROVE  Shifted(b, b2, q, e)
<1> DEFINE p == Priorities[q]
           full == Len(b[p]) = Capacity
           s == IF full THEN Tail(b[p]) ELSE b[p]
<1>1. p \in ToSet(Priorities) /\ \A k \in 1..5 \ {q} : Priorities[k] \in ToSet(Priorities) \ {p}
  BY PrioritiesDiffer DEF PriorityFacts
<1>2. b \in [ToSet(Priorities) -> Seq(Entries)]
  BY DEF Buffered
<1>3. b[p] \in Seq(Entries) /\ Len(b[p]) \in Nat /\ Len(b[p]) <= Capacity
      /\ Capacity \in Nat \ {0}
  BY PlaceFacts, LogsAssumption
<1>4. b2 = [b EXCEPT ![p] = Append(s, e)]
  BY Zenon DEF Logged
<1> HIDE DEF p, s
<1>5. b2[p] = Append(s, e)
  BY <1>1, <1>2, <1>4
<1>6. \A k \in 1..5 \ {q} : b2[Priorities[k]] = b[Priorities[k]]
  BY <1>1, <1>2, <1>4
<1>7. /\ s \in Seq(Entries)
      /\ full => Len(s) = Len(b[p]) - 1 /\ \A i \in 1..Len(s) : s[i] = b[p][i + 1]
      /\ ~full => s = b[p]
  <2>1. CASE full
    <3>1. s = Tail(b[p]) /\ b[p] # << >>
      BY <1>3, <2>1 DEF s
    <3> QED BY <1>3, <2>1, <3>1
  <2>2. CASE ~full
    BY <1>3, <2>2 DEF s
  <2> QED BY <2>1, <2>2
<1>8. /\ Append(s, e) \in Seq(Entries) /\ Len(Append(s, e)) = Len(s) + 1
      /\ \A i \in 1..Len(s) : Append(s, e)[i] = s[i]
      /\ Append(s, e)[Len(s) + 1] = e
      /\ Len(s) \in Nat
  BY <1>7
<1>9. b2 \in [ToSet(Priorities) -> Seq(Entries)]
  BY <1>1, <1>2, <1>4, <1>8
<1>10. Len(b2[p]) = Len(s) + 1 /\ Len(b2[p]) - 1 = Len(s) /\ b2[p][Len(s) + 1] = e
  BY <1>5, <1>8
<1>11. \A i \in 1..(Len(b2[p]) - 1) : b2[p][i] = s[i]
  BY <1>5, <1>8, <1>10
<1>12. /\ full => Len(b2[p]) = Len(b[p]) /\ \A i \in 1..(Len(b2[p]) - 1) : b2[p][i] = b[p][i + 1]
       /\ ~full => Len(b2[p]) = Len(b[p]) + 1 /\ \A i \in 1..(Len(b2[p]) - 1) : b2[p][i] = b[p][i]
  BY <1>3, <1>7, <1>10, <1>11
<1>13. Len(b2[p]) \in Nat \ {0} /\ Len(b2[p]) <= Capacity
  BY <1>3, <1>8, <1>10, <1>12
<1> QED BY <1>6, <1>9, <1>10, <1>12, <1>13 DEF p, Shifted

LEMMA PlacesAre ==
  ASSUME NEW b, \A k \in 1..5 : b[Priorities[k]] \in Seq(Entries)
  PROVE  \A x : x \in PlacesIn(b) <=>
           \E k \in 1..5 : \E i \in 1..Len(b[Priorities[k]]) : x = <<k, i>>
<1>1. \A k \in 1..5 : DOMAIN b[Priorities[k]] = 1..Len(b[Priorities[k]])
  OBVIOUS
<1>2. \A x : x \in PlacesIn(b) <=> \E k \in 1..5 : x \in {k} \X DOMAIN b[Priorities[k]]
  BY DEF PlacesIn
<1>3. ASSUME NEW x, NEW k \in 1..5
      PROVE  x \in {k} \X DOMAIN b[Priorities[k]] <=>
               \E i \in 1..Len(b[Priorities[k]]) : x = <<k, i>>
  <2> DEFINE D == DOMAIN b[Priorities[k]]
  <2>1. D = 1..Len(b[Priorities[k]])
    BY <1>1
  <2> HIDE DEF D
  <2>2. x \in {k} \X D <=> \E i \in D : x = <<k, i>>
    OBVIOUS
  <2> QED BY <2>1, <2>2 DEF D
<1> QED BY <1>2, <1>3, Zenon

(* What becomes of the places.                                             *)
Moved(b, b2, q, e) ==
  LET z == Latest(b2, q)
  IN /\ z \in PlacesIn(b2) /\ EntryAt(b2, z) = e
     /\ \A y \in PlacesIn(b2) \ {z} :
          /\ Back(b, q, y) \in PlacesIn(b)
          /\ Back(b, q, y)[1] = y[1]
          /\ EntryAt(b2, y) = EntryAt(b, Back(b, q, y))
     /\ \A y, w \in PlacesIn(b2) \ {z} :
          /\ Back(b, q, y) = Back(b, q, w) => y = w
          /\ Precedes(Back(b, q, y), Back(b, q, w)) <=> Precedes(y, w)
     /\ Len(b[Priorities[q]]) # Capacity =>
          /\ PlacesIn(b2) = PlacesIn(b) \cup {z} /\ z \notin PlacesIn(b)
          /\ \A y : Back(b, q, y) = y

LEMMA LoggedPlaces ==
  ASSUME NEW b, NEW n, NEW t, Buffered(b, n, t), NEW q \in 1..5, NEW e \in Entries,
         NEW b2, Logged(b, b2, q, e)
  PROVE  Moved(b, b2, q, e)
<1> DEFINE p == Priorities[q]
           full == Len(b[p]) = Capacity
           len == Len(b2[p])
           z == Latest(b2, q)
           back(y) == Back(b, q, y)
<1>1. /\ b2 \in [ToSet(Priorities) -> Seq(Entries)]
      /\ \A k \in 1..5 \ {q} : b2[Priorities[k]] = b[Priorities[k]]
      /\ len \in Nat \ {0} /\ len <= Capacity
      /\ b2[p][len] = e
      /\ full => len = Len(b[p]) /\ \A i \in 1..(len - 1) : b2[p][i] = b[p][i + 1]
      /\ ~full => len = Len(b[p]) + 1 /\ \A i \in 1..(len - 1) : b2[p][i] = b[p][i]
  <2>1. Shifted(b, b2, q, e)
    BY LoggedBuffers
  <2> QED BY <2>1 DEF Shifted
<1>2. \A k \in 1..5 : b2[Priorities[k]] \in Seq(Entries) /\ b[Priorities[k]] \in Seq(Entries)
        /\ Len(b[Priorities[k]]) \in Nat /\ Len(b[Priorities[k]]) <= Capacity
  BY <1>1, PlaceFacts, PrioritiesDiffer DEF PriorityFacts
<1>3. \A x : x \in PlacesIn(b) <=>
        \E k \in 1..5 : \E i \in 1..Len(b[Priorities[k]]) : x = <<k, i>>
  BY <1>2, PlacesAre
<1>4. \A x : x \in PlacesIn(b2) <=>
        \E k \in 1..5 : \E i \in 1..Len(b2[Priorities[k]]) : x = <<k, i>>
  BY <1>2, PlacesAre
<1>5. z = <<q, len>> /\ z \in PlacesIn(b2) /\ EntryAt(b2, z) = e
  BY <1>1, <1>4 DEF Latest, EntryAt
<1>6. Capacity \in Nat \ {0} /\ len \in Nat \ {0} /\ Len(b[p]) \in Nat
  BY <1>1, <1>2, LogsAssumption
<1>7. ASSUME NEW y \in PlacesIn(b2) \ {z}
      PROVE  /\ back(y) \in PlacesIn(b) /\ back(y)[1] = y[1]
             /\ EntryAt(b2, y) = EntryAt(b, back(y))
             /\ y = <<y[1], y[2]>> /\ y[1] \in 1..5 /\ y[2] \in Nat
             /\ back(y)[2] = IF full /\ y[1] = q THEN y[2] + 1 ELSE y[2]
             /\ ~full => y \in PlacesIn(b)
  <2>0. PICK k \in 1..5 : \E i \in 1..Len(b2[Priorities[k]]) : y = <<k, i>>
    BY <1>4
  <2>1. PICK i \in 1..Len(b2[Priorities[k]]) : y = <<k, i>>
    BY <2>0
  <2>2. y[1] = k /\ y[2] = i /\ i \in Nat
    BY <1>2, <2>1
  <2>3. CASE k # q
    <3>1. b2[Priorities[k]] = b[Priorities[k]] /\ back(y) = y
      BY <1>1, <2>2, <2>3 DEF Back
    <3>2. y \in PlacesIn(b)
      BY <1>3, <2>1, <3>1
    <3> QED BY <2>1, <2>2, <2>3, <3>1, <3>2 DEF EntryAt
  <2>4. CASE k = q
    <3>1. i \in 1..(len - 1)
      BY <1>5, <1>6, <2>1, <2>4
    <3>2. CASE full
      <4>1. back(y) = <<q, i + 1>> /\ i + 1 \in 1..Len(b[p])
        BY <1>1, <1>6, <2>2, <2>4, <3>1, <3>2 DEF Back
      <4>2. back(y) \in PlacesIn(b)
        BY <1>3, <4>1
      <4>3. b2[p][i] = b[p][i + 1]
        BY <1>1, <3>1, <3>2
      <4> QED BY <2>1, <2>2, <2>4, <3>2, <4>1, <4>2, <4>3 DEF EntryAt
    <3>3. CASE ~full
      <4>1. back(y) = y /\ i \in 1..Len(b[p])
        BY <1>1, <1>6, <3>1, <3>3 DEF Back
      <4>2. y \in PlacesIn(b)
        BY <1>3, <2>1, <2>4, <4>1
      <4>3. b2[p][i] = b[p][i]
        BY <1>1, <3>1, <3>3
      <4> QED BY <2>1, <2>2, <2>4, <3>3, <4>1, <4>2, <4>3 DEF EntryAt
    <3> QED BY <3>2, <3>3
  <2> QED BY <2>3, <2>4
<1>8. ASSUME NEW y \in PlacesIn(b2) \ {z}, NEW w \in PlacesIn(b2) \ {z}
      PROVE  /\ back(y) = back(w) => y = w
             /\ Precedes(back(y), back(w)) <=> Precedes(y, w)
  <2>1. /\ back(y)[1] = y[1] /\ y = <<y[1], y[2]>> /\ y[1] \in 1..5 /\ y[2] \in Nat
        /\ back(y)[2] = IF full /\ y[1] = q THEN y[2] + 1 ELSE y[2]
    BY <1>7
  <2>2. /\ back(w)[1] = w[1] /\ w = <<w[1], w[2]>> /\ w[1] \in 1..5 /\ w[2] \in Nat
        /\ back(w)[2] = IF full /\ w[1] = q THEN w[2] + 1 ELSE w[2]
    BY <1>7
  <2> HIDE DEF back, full
  <2> QED BY <2>1, <2>2 DEF Precedes
<1>9. ASSUME ~full
      PROVE  /\ PlacesIn(b2) = PlacesIn(b) \cup {z} /\ z \notin PlacesIn(b)
             /\ \A y : back(y) = y
  <2>1. PlacesIn(b2) \subseteq PlacesIn(b) \cup {z}
    BY <1>7, <1>9
  <2>2. ASSUME NEW x \in PlacesIn(b)
        PROVE  x \in PlacesIn(b2)
    <3>0. PICK k \in 1..5 : \E i \in 1..Len(b[Priorities[k]]) : x = <<k, i>>
      BY <1>3
    <3>1. PICK i \in 1..Len(b[Priorities[k]]) : x = <<k, i>>
      BY <3>0
    <3>2. i \in 1..Len(b2[Priorities[k]])
      <4>1. CASE k = q
        <5>1. Len(b2[Priorities[k]]) = Len(b[Priorities[k]]) + 1
          BY <1>1, <1>9, <4>1
        <5> QED BY <1>2, <3>1, <5>1
      <4>2. CASE k # q
        BY <1>1, <3>1, <4>2
      <4> QED BY <4>1, <4>2
    <3> QED BY <1>4, <3>1, <3>2
  <2>3. z \notin PlacesIn(b)
    <3>1. ~(len \in 1..Len(b[p]))
      BY <1>1, <1>6, <1>9
    <3> QED BY <1>3, <1>5, <3>1
  <2>4. \A y : back(y) = y
    BY <1>9 DEF Back
  <2> QED BY <1>5, <2>1, <2>2, <2>3, <2>4
<1> QED BY <1>5, <1>7, <1>8, <1>9 DEF Moved

LEMMA LoggedOrder ==
  ASSUME NEW b, NEW n, NEW t, Buffered(b, n, t), NEW q \in 1..5, NEW e \in Entries,
         NEW b2, Logged(b, b2, q, e), NEW c
  PROVE  /\ \A y, w \in PlacesIn(b2) \ {Latest(b2, q)} :
              Earlier(b2, y, w) <=> Earlier(b, Back(b, q, y), Back(b, q, w))
         /\ \A y \in PlacesIn(b2) \ {Latest(b2, q)} :
              y \in Seen(b2, c) <=> Back(b, q, y) \in Seen(b, c)
<1>1. Moved(b, b2, q, e)
  BY LoggedPlaces
<1>2. ASSUME NEW y \in PlacesIn(b2) \ {Latest(b2, q)}, NEW w \in PlacesIn(b2) \ {Latest(b2, q)}
      PROVE  Earlier(b2, y, w) <=> Earlier(b, Back(b, q, y), Back(b, q, w))
  <2>1. /\ EntryAt(b2, y) = EntryAt(b, Back(b, q, y))
        /\ EntryAt(b2, w) = EntryAt(b, Back(b, q, w))
        /\ Precedes(Back(b, q, y), Back(b, q, w)) <=> Precedes(y, w)
    BY <1>1 DEF Moved
  <2> QED BY <2>1, Zenon DEF Earlier
<1>3. ASSUME NEW y \in PlacesIn(b2) \ {Latest(b2, q)}
      PROVE  y \in Seen(b2, c) <=> Back(b, q, y) \in Seen(b, c)
  <2>1. /\ EntryAt(b2, y) = EntryAt(b, Back(b, q, y))
        /\ Back(b, q, y)[1] = y[1] /\ Back(b, q, y) \in PlacesIn(b)
    BY <1>1 DEF Moved
  <2> QED BY <2>1 DEF Seen
<1> QED BY <1>2, <1>3

(* The entry is later than what the client has got.                        *)
LEMMA LogKeepsBuffered ==
  ASSUME NEW b, NEW n \in Nat, NEW t \in Nat, Buffered(b, n, t), NEW q \in 1..5,
         NEW e \in Entries, e.counter = n, e.timestamp = t,
         NEW b2, Logged(b, b2, q, e)
  PROVE  Buffered(b2, n + 1, t)
<1> DEFINE z == Latest(b2, q)
<1>1. Moved(b, b2, q, e) /\ Shifted(b, b2, q, e)
  BY LoggedPlaces, LoggedBuffers
<1>2. ASSUME NEW p \in ToSet(Priorities) PROVE Len(b2[p]) <= Capacity
  <2>1. PICK k \in 1..5 : Priorities[k] = p
    BY PrioritiesDiffer DEF PriorityFacts
  <2>2. CASE k = q
    BY <1>1, <2>1, <2>2 DEF Shifted
  <2>3. CASE k # q
    BY <1>1, <2>1, <2>3 DEF Shifted, Buffered
  <2> QED BY <2>2, <2>3
<1>3. \A x \in PlacesIn(b2) \ {z} :
        /\ Back(b, q, x) \in PlacesIn(b) /\ EntryAt(b2, x) = EntryAt(b, Back(b, q, x))
        /\ EntryAt(b2, x).counter \in Nat /\ EntryAt(b2, x).counter < n
        /\ EntryAt(b2, x).timestamp <= t
  <2>1. \A x \in PlacesIn(b) : /\ EntryAt(b, x).counter \in Nat /\ EntryAt(b, x).counter < n
                               /\ EntryAt(b, x).timestamp <= t
    BY PlaceFacts DEF Buffered
  <2> QED BY <1>1, <2>1 DEF Moved
<1>4. EntryAt(b2, z).counter = n /\ EntryAt(b2, z).timestamp = t
  BY <1>1 DEF Moved
<1>5. \A x \in PlacesIn(b2) : EntryAt(b2, x).counter < n + 1 /\ EntryAt(b2, x).timestamp <= t
  <2> HIDE DEF z
  <2> QED BY <1>3, <1>4
<1>6. ASSUME NEW x \in PlacesIn(b2), NEW y \in PlacesIn(b2),
             EntryAt(b2, x).counter = EntryAt(b2, y).counter
      PROVE  x = y
  <2>1. CASE x = z \/ y = z
    <3> HIDE DEF z
    <3> QED BY <1>3, <1>4, <1>6, <2>1
  <2>2. CASE x # z /\ y # z
    <3>1. Back(b, q, x) = Back(b, q, y)
      BY <1>3, <1>6, <2>2 DEF Buffered
    <3> QED BY <1>1, <2>2, <3>1 DEF Moved
  <2> QED BY <2>1, <2>2
<1> QED BY <1>1, <1>2, <1>5, <1>6 DEF Shifted, Buffered

LEMMA LogKeepsPast ==
  ASSUME NEW b, NEW n \in Nat, NEW t \in Nat, Buffered(b, n, t), NEW q \in 1..5,
         NEW e \in Entries, e.counter = n, e.timestamp = t,
         NEW b2, Logged(b, b2, q, e), NEW g, Past(g, b, n, t)
  PROVE  Past(g, b2, n + 1, t)
<1>1. Moved(b, b2, q, e)
  BY LoggedPlaces
<1>2. ASSUME NEW i \in 1..Len(g)
      PROVE  /\ g[i].counter < n /\ g[i].counter < n + 1 /\ g[i].timestamp < t
             /\ \A x \in PlacesIn(b) : EntryAt(b, x).counter = g[i].counter => EntryAt(b, x) = g[i]
  <2>1. g[i] \in Entries
    BY DEF Past
  <2>2. g[i].counter \in Nat
    BY <2>1 DEF Entries
  <2> QED BY <2>2 DEF Past
<1>3. ASSUME NEW i \in 1..Len(g), NEW x \in PlacesIn(b2), EntryAt(b2, x).counter = g[i].counter
      PROVE  EntryAt(b2, x) = g[i]
  <2>1. x # Latest(b2, q)
    BY <1>1, <1>2, <1>3 DEF Moved
  <2>2. Back(b, q, x) \in PlacesIn(b) /\ EntryAt(b2, x) = EntryAt(b, Back(b, q, x))
    BY <1>1, <2>1 DEF Moved
  <2> QED BY <1>2, <1>3, <2>2
<1> QED BY <1>2, <1>3 DEF Past

LEMMA RankNotAbove ==
  ASSUME NEW C, IsFiniteSet(C), NEW R, NEW x, NEW D, IsFiniteSet(D), NEW Q, NEW y,
         NEW f \in [Below(C, R, x) -> Below(D, Q, y)],
         \A u, w \in Below(C, R, x) : f[u] = f[w] => u = w
  PROVE  Rank(C, R, x) <= Rank(D, Q, y)
<1>1. /\ IsFiniteSet(Below(C, R, x)) /\ IsFiniteSet(Below(D, Q, y))
      /\ Rank(C, R, x) \in Nat /\ Rank(D, Q, y) \in Nat
  BY FS_Subset, FS_CardinalityType DEF Below, Rank
<1>2. ~(Rank(D, Q, y) < Rank(C, R, x))
  BY <1>1, FS_PigeonHole DEF Rank
<1> QED BY <1>1, <1>2

(* Where the new entry is not before x, x does not come later.             *)
LEMMA LoggedRanks ==
  ASSUME NEW b, NEW n \in Nat, NEW t \in Nat, Buffered(b, n, t), NEW q \in 1..5,
         NEW e \in Entries, e.counter = n, e.timestamp = t,
         NEW b2, Logged(b, b2, q, e), NEW c,
         NEW x \in Seen(b2, c) \ {Latest(b2, q)}, ~Earlier(b2, Latest(b2, q), x)
  PROVE  /\ Back(b, q, x) \in Seen(b, c)
         /\ RankIn(b2, c, x) <= RankIn(b, c, Back(b, q, x))
<1> DEFINE z == Latest(b2, q)
           C == Seen(b2, c)
           D == Seen(b, c)
           f == [y \in Below(C, OrderIn(b2), x) |-> Back(b, q, y)]
<1>1. Moved(b, b2, q, e) /\ Buffered(b2, n + 1, t)
  BY LoggedPlaces, LogKeepsBuffered
<1>2. /\ C \in SUBSET PlacesIn(b2) /\ IsFiniteSet(C)
      /\ D \in SUBSET PlacesIn(b) /\ IsFiniteSet(D)
  BY <1>1, SeenFacts
<1>3. \A y \in C \ {z} : Back(b, q, y) \in D
  BY <1>2, LoggedOrder
<1>4. ASSUME NEW y \in Below(C, OrderIn(b2), x)
      PROVE  y \in C \ {z} /\ Back(b, q, y) \in Below(D, OrderIn(b), Back(b, q, x))
  <2>1. y \in C /\ Earlier(b2, y, x)
    BY DEF Below, OrderIn
  <2>2. y \in C \ {z}
    BY <2>1
  <2>3. Back(b, q, y) \in D /\ Back(b, q, x) \in D
    BY <1>3, <2>2
  <2>4. Earlier(b, Back(b, q, y), Back(b, q, x))
    BY <1>2, <2>1, <2>2, LoggedOrder
  <2> QED BY <1>2, <2>2, <2>3, <2>4 DEF Below, OrderIn
<1>5. f \in [Below(C, OrderIn(b2), x) -> Below(D, OrderIn(b), Back(b, q, x))]
  BY <1>4
<1>6. ASSUME NEW u \in Below(C, OrderIn(b2), x), NEW w \in Below(C, OrderIn(b2), x), f[u] = f[w]
      PROVE  u = w
  <2>1. u \in PlacesIn(b2) \ {z} /\ w \in PlacesIn(b2) \ {z}
    BY <1>2, <1>4
  <2>2. Back(b, q, u) = Back(b, q, w)
    BY <1>6
  <2> QED BY <1>1, <2>1, <2>2 DEF Moved
<1> HIDE DEF f
<1>7. RankIn(b2, c, x) <= RankIn(b, c, Back(b, q, x))
  BY <1>2, <1>5, <1>6, RankNotAbove DEF RankIn
<1> QED BY <1>3, <1>7

LEMMA LogKeepsAhead ==
  ASSUME NEW b, NEW n \in Nat, NEW t \in Nat, Buffered(b, n, t), NEW q \in 1..5,
         NEW e \in Entries, e.counter = n, e.timestamp = t,
         NEW b2, Logged(b, b2, q, e), NEW c, NEW g, Past(g, b, n, t), Ahead(g, b, c)
  PROVE  Ahead(g, b2, c)
<1>1. Moved(b, b2, q, e) /\ Buffered(b2, n + 1, t) /\ Past(g, b2, n + 1, t)
  BY LoggedPlaces, LogKeepsBuffered, LogKeepsPast
<1>2. SUFFICES ASSUME NEW x \in Seen(b2, c), RankIn(b2, c, x) >= Len(g), NEW i \in 1..Len(g)
               PROVE  /\ g[i].counter # EntryAt(b2, x).counter
                      /\ g[i].timestamp <= EntryAt(b2, x).timestamp
  BY DEF Ahead
<1>3. /\ g[i].timestamp \in Nat /\ g[i].timestamp < t
      /\ g[i].counter \in Nat /\ g[i].counter < n
      /\ Len(g) \in Nat
  <2>1. g \in Seq(Entries)
    BY DEF Past
  <2>2. g[i] \in Entries
    BY <2>1
  <2> QED BY <2>1, <2>2 DEF Past, Entries
<1>4. x \in PlacesIn(b2)
  BY DEF Seen
<1>5. EntryAt(b2, Latest(b2, q)) = e
  BY <1>1 DEF Moved
<1>6. CASE x = Latest(b2, q)
  BY <1>3, <1>5, <1>6
<1>7. CASE x # Latest(b2, q) /\ Earlier(b2, Latest(b2, q), x)
  <2>1. EntryAt(b2, x).timestamp \in Nat /\ EntryAt(b2, x).timestamp >= t
    BY <1>1, <1>4, <1>5, <1>7, PlaceFacts DEF Earlier
  <2>2. g[i].timestamp # EntryAt(b2, x).timestamp
    BY <1>3, <2>1
  <2> QED BY <1>1, <1>3, <1>4, <2>1, <2>2 DEF Past
<1>8. CASE x # Latest(b2, q) /\ ~Earlier(b2, Latest(b2, q), x)
  <2> DEFINE y == Back(b, q, x)
  <2>1. y \in Seen(b, c) /\ RankIn(b2, c, x) <= RankIn(b, c, y)
    BY <1>8, LoggedRanks
  <2>2. RankIn(b2, c, x) \in Nat /\ RankIn(b, c, y) \in Nat
    BY <1>1, <2>1, SeenRanks
  <2>3. RankIn(b, c, y) >= Len(g)
    BY <1>2, <1>3, <2>1, <2>2
  <2>4. EntryAt(b2, x) = EntryAt(b, y)
    BY <1>1, <1>4, <1>8 DEF Moved
  <2> QED BY <2>1, <2>3, <2>4 DEF Ahead
<1> QED BY <1>6, <1>7, <1>8

LEMMA LogKeepsBegins ==
  ASSUME NEW b, NEW n \in Nat, NEW t \in Nat, Buffered(b, n, t), NEW q \in 1..5,
         NEW e \in Entries, e.counter = n, e.timestamp = t,
         NEW b2, Logged(b, b2, q, e), Len(b[Priorities[q]]) # Capacity,
         NEW c, NEW g, Past(g, b, n, t), Begins(g, b, c)
  PROVE  Begins(g, b2, c)
<1> DEFINE z == Latest(b2, q)
<1>1. Moved(b, b2, q, e) /\ Buffered(b2, n + 1, t)
  BY LoggedPlaces, LogKeepsBuffered
<1>2. /\ PlacesIn(b2) = PlacesIn(b) \cup {z} /\ z \notin PlacesIn(b)
      /\ \A y : Back(b, q, y) = y
      /\ \A y \in PlacesIn(b) : EntryAt(b2, y) = EntryAt(b, y)
      /\ EntryAt(b2, z) = e
  BY <1>1 DEF Moved
<1>3. SUFFICES ASSUME NEW i \in 1..Len(g)
               PROVE  \E x \in Seen(b2, c) : RankIn(b2, c, x) = i - 1 /\ EntryAt(b2, x) = g[i]
  BY DEF Begins
<1>4. PICK x \in Seen(b, c) : RankIn(b, c, x) = i - 1 /\ EntryAt(b, x) = g[i]
  BY DEF Begins
<1>5. x \in PlacesIn(b) /\ x # z
  BY <1>2 DEF Seen
<1>6. /\ \A y, w \in PlacesIn(b) : Earlier(b2, y, w) <=> Earlier(b, y, w)
      /\ \A y \in PlacesIn(b) : y \in Seen(b2, c) <=> y \in Seen(b, c)
  BY <1>2, LoggedOrder
<1>7. ~Earlier(b2, z, x)
  <2>1. EntryAt(b2, x).timestamp < t /\ EntryAt(b2, x).timestamp \in Nat
    BY <1>2, <1>4, <1>5, PlaceFacts DEF Past
  <2> QED BY <1>2, <2>1 DEF Earlier
<1>8. Below(Seen(b2, c), OrderIn(b2), x) = Below(Seen(b, c), OrderIn(b), x)
  <2>1. \A y : y \in Below(Seen(b2, c), OrderIn(b2), x) <=>
                 y \in Seen(b2, c) /\ y \in PlacesIn(b2) /\ Earlier(b2, y, x)
    BY <1>2, <1>5 DEF Below, OrderIn, Seen
  <2>2. \A y : y \in Below(Seen(b, c), OrderIn(b), x) <=>
                 y \in Seen(b, c) /\ y \in PlacesIn(b) /\ Earlier(b, y, x)
    BY <1>5 DEF Below, OrderIn, Seen
  <2>3. \A y : y \in Below(Seen(b2, c), OrderIn(b2), x) <=> y \in Below(Seen(b, c), OrderIn(b), x)
    <3>1. \A y \in Seen(b, c) : y \in PlacesIn(b)
      BY DEF Seen
    <3> HIDE DEF z
    <3> QED BY <1>2, <1>5, <1>6, <1>7, <2>1, <2>2, <3>1
  <2> QED BY <2>3
<1>9. x \in Seen(b2, c) /\ RankIn(b2, c, x) = i - 1 /\ EntryAt(b2, x) = g[i]
  BY <1>2, <1>4, <1>5, <1>6, <1>8 DEF RankIn, Rank
<1> QED BY <1>9

-----------------------------------------------------------------------------
(* A page.                                                                 *)
LEMMA StretchFacts ==
  ASSUME NEW S, NEW log \in Seq(S), NEW offset \in Nat, NEW limit \in Nat
  PROVE  LET s == Stretch(log, offset, limit)
         IN /\ s \in Seq(S)
            /\ Len(s) = 0 \/ offset + Len(s) <= Len(log)
            /\ \A i \in 1..Len(s) : s[i] = log[offset + i]
<1> DEFINE d == Len(log) - offset
           m == Max({0, d})
           k == Min({limit, m})
           s == Stretch(log, offset, limit)
<1>1. d \in Int
  OBVIOUS
<1>2. m \in Nat /\ (m = 0 \/ m = d)
  <2> HIDE DEF d
  <2> DEFINE M == IF 0 >= d THEN 0 ELSE d
  <2>1. M \in {0, d} /\ \A y \in {0, d} : M >= y
    BY <1>1
  <2>2. m \in {0, d} /\ \A y \in {0, d} : m >= y
    <3> HIDE DEF M
    <3> QED BY <2>1, Zenon DEF Max
  <2> QED BY <1>1, <2>2
<1>3. k \in Nat /\ k <= m
  <2> HIDE DEF m
  <2> DEFINE M == IF limit <= m THEN limit ELSE m
  <2>1. M \in {limit, m} /\ \A y \in {limit, m} : M <= y
    BY <1>2
  <2>2. k \in {limit, m} /\ \A y \in {limit, m} : k <= y
    <3> HIDE DEF M
    <3> QED BY <2>1, Zenon DEF Min
  <2> QED BY <1>2, <2>2
<1>4. k = 0 \/ offset + k <= Len(log)
  <2> HIDE DEF k, m
  <2> QED BY <1>2, <1>3
<1>5. s = [i \in 1..k |-> log[offset + i]]
  BY DEF Stretch
<1> HIDE DEF k
<1>6. \A i \in 1..k : offset + i \in 1..Len(log)
  BY <1>3, <1>4
<1>7. s \in [1..k -> S] /\ \A i \in 1..k : s[i] = log[offset + i]
  BY <1>5, <1>6
<1>8. s \in Seq(S) /\ Len(s) = k
  <2> HIDE DEF s
  <2> QED BY <1>3, <1>7, SeqDef, LenProperties
<1> QED BY <1>4, <1>7, <1>8

(* What the client has after one more page: each further entry is at its   *)
(* rank in the log.                                                        *)
Continues(g, g2, b, c) ==
  /\ g \in Seq(Entries) /\ g2 \in Seq(Entries)
  /\ Len(g) <= Len(g2)
  /\ Len(g2) <= 5 * Capacity
  /\ \A i \in 1..Len(g) : g2[i] = g[i]
  /\ \A i \in (Len(g) + 1)..Len(g2) :
       \E x \in Seen(b, c) : RankIn(b, c, x) = i - 1 /\ EntryAt(b, x) = g2[i]

LEMMA PageContinues ==
  ASSUME NEW n, NEW t, Buffered(buffers, n, t), NEW u, Past(got, buffers, n, u),
         NEW limit \in Nat
  PROVE  Continues(got, got \o Page(Len(got), limit), buffers, client)
<1> DEFINE o == Len(got)
           l == limit % Usize
           p == Page(o, limit)
           N == 5 * Capacity
<1>1. got \in Seq(Entries) /\ o \in Nat /\ o <= N
  BY DEF Past
<1>2. /\ Selected \in Seq(Entries) /\ Len(Selected) \in Nat /\ Len(Selected) <= N
      /\ \A k \in 1..Len(Selected) :
           \E x \in Seen(buffers, client) :
             RankIn(buffers, client, x) = k - 1 /\ Selected[k] = EntryAt(buffers, x)
  BY SelectedFacts, SeenFacts
<1>3. N \in Nat /\ Usize \in Nat /\ Usize > N
  BY LogsAssumption
<1> HIDE DEF N
<1>4. o % Usize = o /\ l \in Nat
  BY <1>1, <1>3
<1>5. p = Stretch(Selected, o, l)
  BY <1>4, Zenon DEF Page
<1> HIDE DEF p, o, l
<1>6. /\ p \in Seq(Entries) /\ Len(p) \in Nat
      /\ Len(p) = 0 \/ o + Len(p) <= Len(Selected)
      /\ \A i \in 1..Len(p) : p[i] = Selected[o + i]
  BY <1>1, <1>2, <1>4, <1>5, StretchFacts
<1>7. /\ got \o p \in Seq(Entries) /\ Len(got \o p) = o + Len(p)
      /\ \A i \in 1..o : (got \o p)[i] = got[i]
      /\ \A i \in (o + 1)..(o + Len(p)) : (got \o p)[i] = p[i - o]
  BY <1>1, <1>6 DEF o
<1>8. o <= o + Len(p) /\ o + Len(p) <= N
  BY <1>1, <1>2, <1>3, <1>6
<1>9. ASSUME NEW i \in (o + 1)..(o + Len(p))
      PROVE  \E x \in Seen(buffers, client) :
               RankIn(buffers, client, x) = i - 1 /\ EntryAt(buffers, x) = (got \o p)[i]
  <2>1. i - o \in 1..Len(p) /\ o + (i - o) = i /\ i \in 1..Len(Selected)
    BY <1>1, <1>2, <1>6
  <2>2. (got \o p)[i] = Selected[i]
    BY <1>6, <1>7, <2>1
  <2> QED BY <1>2, <2>1, <2>2
<1> QED BY <1>1, <1>7, <1>8, <1>9 DEF o, p, N, Continues

LEMMA PageKeepsPast ==
  ASSUME NEW b, NEW n \in Nat, NEW t \in Nat, Buffered(b, n, t), NEW c,
         NEW g, NEW g2, Past(g, b, n, t), Continues(g, g2, b, c),
         \A x \in PlacesIn(b) : EntryAt(b, x).timestamp < t
  PROVE  Past(g2, b, n, t)
<1>1. ASSUME NEW i \in 1..Len(g2)
      PROVE  /\ g2[i].counter < n /\ g2[i].timestamp < t
             /\ \A x \in PlacesIn(b) :
                  EntryAt(b, x).counter = g2[i].counter => EntryAt(b, x) = g2[i]
  <2>1. CASE i \in 1..Len(g)
    BY <2>1 DEF Continues, Past
  <2>2. CASE i \notin 1..Len(g)
    <3>1. i \in (Len(g) + 1)..Len(g2)
      BY <2>2 DEF Continues
    <3>2. PICK x \in Seen(b, c) : EntryAt(b, x) = g2[i]
      BY <3>1 DEF Continues
    <3>3. x \in PlacesIn(b)
      BY DEF Seen
    <3> QED BY <3>2, <3>3 DEF Buffered
  <2> QED BY <2>1, <2>2
<1> QED BY <1>1 DEF Past, Continues

LEMMA PageKeepsAhead ==
  ASSUME NEW b, NEW n, NEW t, Buffered(b, n, t), NEW c,
         NEW g, NEW g2, Ahead(g, b, c), Continues(g, g2, b, c)
  PROVE  Ahead(g2, b, c)
<1> SUFFICES ASSUME NEW x \in Seen(b, c), RankIn(b, c, x) >= Len(g2), NEW i \in 1..Len(g2)
             PROVE  /\ g2[i].counter # EntryAt(b, x).counter
                    /\ g2[i].timestamp <= EntryAt(b, x).timestamp
  BY DEF Ahead
<1>1. RankIn(b, c, x) \in Nat /\ Len(g) \in Nat /\ Len(g2) \in Nat /\ Len(g) <= Len(g2)
  BY SeenRanks DEF Continues
<1>2. CASE i \in 1..Len(g)
  <2>1. RankIn(b, c, x) >= Len(g) /\ g2[i] = g[i]
    BY <1>1, <1>2 DEF Continues
  <2> QED BY <1>2, <2>1 DEF Ahead
<1>3. CASE i \notin 1..Len(g)
  <2>1. i \in (Len(g) + 1)..Len(g2)
    BY <1>1, <1>3
  <2>2. PICK y \in Seen(b, c) : RankIn(b, c, y) = i - 1 /\ EntryAt(b, y) = g2[i]
    BY <2>1 DEF Continues
  <2>3. RankIn(b, c, y) < RankIn(b, c, x)
    BY <1>1, <2>2
  <2> QED BY <2>2, <2>3, SeenRanks
<1> QED BY <1>2, <1>3

(* No entry twice, in the order of time.                                   *)
Unrepeated(g) ==
  \A i, j \in 1..Len(g) : i < j =>
    /\ g[i].counter # g[j].counter
    /\ g[i].timestamp <= g[j].timestamp

LEMMA PageKeepsUnrepeated ==
  ASSUME NEW b, NEW n, NEW t, Buffered(b, n, t), NEW c,
         NEW g, NEW g2, Ahead(g, b, c), Continues(g, g2, b, c), Unrepeated(g)
  PROVE  Unrepeated(g2)
<1> SUFFICES ASSUME NEW i \in 1..Len(g2), NEW j \in 1..Len(g2), i < j
             PROVE  /\ g2[i].counter # g2[j].counter
                    /\ g2[i].timestamp <= g2[j].timestamp
  BY DEF Unrepeated
<1>1. Len(g) \in Nat /\ Len(g2) \in Nat /\ Len(g) <= Len(g2)
  BY DEF Continues
<1>2. CASE j \in 1..Len(g)
  <2>1. i \in 1..Len(g) /\ g2[i] = g[i] /\ g2[j] = g[j]
    BY <1>1, <1>2 DEF Continues
  <2> QED BY <1>2, <2>1 DEF Unrepeated
<1>3. CASE j \notin 1..Len(g)
  <2>1. j \in (Len(g) + 1)..Len(g2)
    BY <1>1, <1>3
  <2>2. PICK y \in Seen(b, c) : RankIn(b, c, y) = j - 1 /\ EntryAt(b, y) = g2[j]
    BY <2>1 DEF Continues
  <2>3. CASE i \in 1..Len(g)
    <3>1. RankIn(b, c, y) >= Len(g) /\ g2[i] = g[i]
      BY <1>1, <2>1, <2>2, <2>3 DEF Continues
    <3> QED BY <2>2, <2>3, <3>1 DEF Ahead
  <2>4. CASE i \notin 1..Len(g)
    <3>1. i \in (Len(g) + 1)..Len(g2)
      BY <1>1, <2>4
    <3>2. PICK x \in Seen(b, c) : RankIn(b, c, x) = i - 1 /\ EntryAt(b, x) = g2[i]
      BY <3>1 DEF Continues
    <3>3. RankIn(b, c, x) < RankIn(b, c, y)
      BY <1>1, <2>2, <3>2
    <3> QED BY <2>2, <3>2, <3>3, SeenRanks
  <2> QED BY <2>3, <2>4
<1> QED BY <1>2, <1>3

LEMMA PageKeepsBegins ==
  ASSUME NEW b, NEW c, NEW g, NEW g2, Begins(g, b, c), Continues(g, g2, b, c)
  PROVE  Begins(g2, b, c)
<1> SUFFICES ASSUME NEW i \in 1..Len(g2)
             PROVE  \E x \in Seen(b, c) : RankIn(b, c, x) = i - 1 /\ EntryAt(b, x) = g2[i]
  BY DEF Begins
<1>1. CASE i \in 1..Len(g)
  BY <1>1 DEF Begins, Continues
<1>2. CASE i \notin 1..Len(g)
  <2>1. i \in (Len(g) + 1)..Len(g2)
    BY <1>2 DEF Continues
  <2> QED BY <2>1 DEF Continues
<1> QED BY <1>1, <1>2

-----------------------------------------------------------------------------
(* The theorems.                                                           *)
LEMMA LogStep ==
  ASSUME LogInductive, NEW p \in ToSet(Priorities), NEW m \in Message, Log(p, m)
  PROVE  LogInductive'
<1> DEFINE e == [timestamp |-> now, counter |-> counter, message |-> m]
<1>1. PICK q \in 1..5 : Priorities[q] = p
  BY PrioritiesDiffer DEF PriorityFacts
<1>2. /\ counter \in Nat /\ now \in Nat /\ Buffered(buffers, counter, now)
      /\ Past(got, buffers, counter, now) /\ Ahead(got, buffers, client)
      /\ PagesNeverRepeat
      /\ ~evicted => Begins(got, buffers, client)
  BY DEF LogInductive
<1>3. /\ counter' = counter + 1 /\ now' = now /\ client' = client /\ got' = got
      /\ evicted' = (evicted \/ Len(buffers[p]) = Capacity)
  BY DEF Log, Full
<1>4. Logged(buffers, buffers', q, e)
  BY <1>1 DEF Log, Full, Logged
<1>5. e \in Entries /\ e.counter = counter /\ e.timestamp = now
  BY <1>2 DEF Entries
<1> HIDE DEF e
<1>6. /\ Buffered(buffers', counter + 1, now)
      /\ Past(got, buffers', counter + 1, now)
      /\ Ahead(got, buffers', client)
  BY <1>2, <1>4, <1>5, LogKeepsBuffered, LogKeepsPast, LogKeepsAhead
<1>7. ASSUME ~evicted' PROVE Begins(got, buffers', client)
  <2>1. ~evicted /\ Len(buffers[Priorities[q]]) # Capacity
    BY <1>1, <1>3, <1>7
  <2> QED BY <1>2, <1>4, <1>5, <2>1, LogKeepsBegins
<1>8. PagesNeverRepeat'
  BY <1>2, <1>3 DEF PagesNeverRepeat
<1> QED BY <1>2, <1>3, <1>6, <1>7, <1>8 DEF LogInductive

LEMMA PageStep ==
  ASSUME LogInductive, NEW limit \in Limits, NextPage(limit)
  PROVE  LogInductive'
<1>1. /\ counter \in Nat /\ now \in Nat /\ Buffered(buffers, counter, now)
      /\ Past(got, buffers, counter, now) /\ Ahead(got, buffers, client)
      /\ PagesNeverRepeat
      /\ ~evicted => Begins(got, buffers, client)
  BY DEF LogInductive
<1>2. /\ counter' = counter /\ now' = now /\ client' = client
      /\ buffers' = buffers /\ evicted' = evicted
      /\ got' = got \o Page(Len(got), limit)
  BY DEF NextPage
<1>3. Continues(got, got', buffers, client)
  <2>1. limit \in Nat
    BY LogsAssumption
  <2> QED BY <1>1, <1>2, <2>1, PageContinues
<1>4. ASSUME NEW x \in PlacesIn(buffers) PROVE EntryAt(buffers, x).timestamp < now
  <2>1. x[1] \in 1..5 /\ x[2] \in 1..Len(buffers[Priorities[x[1]]])
        /\ buffers[Priorities[x[1]]] \in Seq(Entries)
    BY <1>1, PlaceFacts
  <2>2. Priorities[x[1]] \in DOMAIN buffers
    BY <1>1, <2>1, PrioritiesDiffer DEF PriorityFacts, Buffered
  <2>3. EntryAt(buffers, x) \in ToSet(buffers[Priorities[x[1]]])
    BY <2>1 DEF EntryAt, ToSet
  <2> QED BY <2>2, <2>3 DEF NextPage
<1>5. Past(got', buffers, counter, now) /\ Ahead(got', buffers, client)
  BY <1>1, <1>3, <1>4, PageKeepsPast, PageKeepsAhead
<1>6. ~evicted => Begins(got', buffers, client)
  BY <1>1, <1>3, PageKeepsBegins
<1>7. PagesNeverRepeat'
  <2>1. got \in Seq(Entries) /\ got' \in Seq(Entries)
    BY <1>3 DEF Continues
  <2>2. DOMAIN got = 1..Len(got) /\ DOMAIN got' = 1..Len(got')
    BY <2>1
  <2>3. Unrepeated(got)
    BY <1>1, <2>2 DEF PagesNeverRepeat, Unrepeated
  <2>4. Unrepeated(got')
    BY <1>1, <1>3, <2>3, PageKeepsUnrepeated
  <2> QED BY <2>2, <2>4 DEF PagesNeverRepeat, Unrepeated
<1> QED BY <1>1, <1>2, <1>5, <1>6, <1>7 DEF LogInductive

(* LogInductive holds in every state.                                      *)
LEMMA LogInvariant == Spec => []LogInductive
<1>1. Init => LogInductive
  <2> SUFFICES ASSUME Init PROVE LogInductive
    OBVIOUS
  <2>1. /\ buffers = [p \in ToSet(Priorities) |-> << >>]
        /\ counter = 0 /\ now = 1 /\ got = << >>
    BY DEF Init
  <2>2. \A p \in ToSet(Priorities) : buffers[p] = << >>
    BY <2>1
  <2>3. \A k \in 1..5 : buffers[Priorities[k]] = << >>
    BY <2>2, PrioritiesDiffer DEF PriorityFacts
  <2>4. PlacesIn(buffers) = {}
    <3>1. \A x : x \notin PlacesIn(buffers)
      <4>0. << >> \in Seq(Entries) /\ Len(<< >>) = 0
        OBVIOUS
      <4>1. \A k \in 1..5 : buffers[Priorities[k]] \in Seq(Entries) /\ Len(buffers[Priorities[k]]) = 0
        BY <2>3, <4>0, Zenon
      <4> QED BY <4>1, PlacesAre
    <3> QED BY <3>1
  <2>5. buffers \in [ToSet(Priorities) -> Seq(Entries)]
    BY <2>1
  <2>6. \A p \in ToSet(Priorities) : Len(buffers[p]) <= Capacity
    BY <2>2, LogsAssumption
  <2>7. Buffered(buffers, counter, now)
    BY <2>4, <2>5, <2>6 DEF Buffered
  <2>8. got \in Seq(Entries) /\ Len(got) = 0 /\ 1..Len(got) = {} /\ DOMAIN got = {}
    BY <2>1
  <2>9. Past(got, buffers, counter, now)
    BY <2>8, LogsAssumption DEF Past
  <2>10. Ahead(got, buffers, client) /\ Begins(got, buffers, client) /\ PagesNeverRepeat
    BY <2>8 DEF Ahead, Begins, PagesNeverRepeat
  <2> QED BY <2>1, <2>7, <2>9, <2>10 DEF LogInductive
<1>2. LogInductive /\ [Next]_vars => LogInductive'
  <2> SUFFICES ASSUME LogInductive, [Next]_vars PROVE LogInductive'
    OBVIOUS
  <2>1. DOMAIN buffers = ToSet(Priorities)
    BY DEF LogInductive, Buffered
  <2>2. CASE UNCHANGED vars
    BY <2>2 DEF vars, LogInductive, PagesNeverRepeat
  <2>3. CASE \E p \in DOMAIN buffers, m \in Message : Log(p, m)
    BY <2>1, <2>3, LogStep
  <2>4. ASSUME NEW m \in Message, HashFails(m) PROVE LogInductive'
    <3>1. "CRITICAL" \in ToSet(Priorities)
      <4>1. Priorities[5] = "CRITICAL"
        BY DEF Priorities
      <4> QED BY <4>1, PrioritiesDiffer DEF PriorityFacts
    <3>2. Log("CRITICAL", m) \/ UNCHANGED vars
      BY <2>4 DEF HashFails
    <3> QED BY <2>2, <3>1, <3>2, LogStep
  <2>5. CASE NextRound
    <3>1. /\ now' = now + 1 /\ buffers' = buffers /\ counter' = counter
          /\ client' = client /\ got' = got /\ evicted' = evicted
      BY <2>5 DEF NextRound
    <3>2. now \in Nat /\ counter \in Nat /\ Buffered(buffers, counter, now)
          /\ Past(got, buffers, counter, now)
      BY DEF LogInductive
    <3>3. Buffered(buffers, counter, now + 1)
      <4>1. \A x \in PlacesIn(buffers) : /\ EntryAt(buffers, x).timestamp \in Nat
                                         /\ EntryAt(buffers, x).timestamp <= now
        BY <3>2, PlaceFacts DEF Buffered
      <4>2. \A x \in PlacesIn(buffers) : EntryAt(buffers, x).timestamp <= now + 1
        BY <3>2, <4>1
      <4> QED BY <3>2, <4>2 DEF Buffered
    <3>4. Past(got, buffers, counter, now + 1)
      <4>1. \A i \in 1..Len(got) : got[i] \in Entries
        BY <3>2 DEF Past
      <4>2. \A i \in 1..Len(got) : got[i].timestamp \in Nat /\ got[i].timestamp < now
        BY <3>2, <4>1 DEF Past, Entries
      <4>3. \A i \in 1..Len(got) : got[i].timestamp < now + 1
        BY <3>2, <4>2
      <4> QED BY <3>2, <4>3 DEF Past
    <3> QED BY <3>1, <3>2, <3>3, <3>4 DEF LogInductive, PagesNeverRepeat
  <2>6. CASE \E limit \in Limits : NextPage(limit)
    BY <2>6, PageStep
  <2> QED BY <2>2, <2>3, <2>4, <2>5, <2>6 DEF Next
<1> QED BY <1>1, <1>2, PTL DEF Spec

(* Whatever is logged between two pages, a client that asks for the page   *)
(* behind what it has gets no entry twice, and all in the order of their   *)
(* times.                                                                  *)
THEOREM PagesAreNew == Spec => []PagesNeverRepeat
<1>1. LogInductive => PagesNeverRepeat
  BY DEF LogInductive
<1> QED BY <1>1, LogInvariant, PTL

(* As long as no full buffer drops an entry, what such a client has is the *)
(* beginning of the log.                                                   *)
THEOREM PagesMissNothing == Spec => []PagesComplete
<1>1. LogInductive => PagesComplete
  <2> SUFFICES ASSUME LogInductive, ~evicted PROVE IsPrefix(got, Selected)
    BY DEF PagesComplete
  <2>1. /\ Buffered(buffers, counter, now) /\ Begins(got, buffers, client)
        /\ got \in Seq(Entries)
    BY DEF LogInductive, Past
  <2>2. /\ Selected \in Seq(Entries) /\ Len(Selected) = Cardinality(Seen(buffers, client))
        /\ \A k \in 1..Len(Selected) :
             \E x \in Seen(buffers, client) :
               RankIn(buffers, client, x) = k - 1 /\ Selected[k] = EntryAt(buffers, x)
    BY <2>1, SelectedFacts
  <2>3. ASSUME NEW i \in 1..Len(got)
        PROVE  i <= Len(Selected) /\ Selected[i] = got[i]
    <3>1. PICK x \in Seen(buffers, client) :
            RankIn(buffers, client, x) = i - 1 /\ EntryAt(buffers, x) = got[i]
      BY <2>1 DEF Begins
    <3>2. i - 1 < Len(Selected) /\ i \in Nat /\ Len(Selected) \in Nat
      BY <2>1, <2>2, <3>1, SeenRanks
    <3>3. i \in 1..Len(Selected)
      BY <2>3, <3>2
    <3>4. PICK y \in Seen(buffers, client) :
            RankIn(buffers, client, y) = i - 1 /\ Selected[i] = EntryAt(buffers, y)
      BY <2>2, <3>3
    <3>5. x = y
      BY <2>1, <3>1, <3>4, SeenRanks
    <3> QED BY <3>1, <3>3, <3>4, <3>5
  <2>4. Len(got) \in Nat /\ Len(Selected) \in Nat /\ Len(got) <= Len(Selected)
    <3>1. Len(got) \in Nat /\ Len(Selected) \in Nat
      BY <2>1, <2>2
    <3>2. CASE Len(got) = 0
      BY <3>1, <3>2
    <3>3. CASE Len(got) # 0
      <4>1. Len(got) \in 1..Len(got)
        BY <3>1, <3>3
      <4> QED BY <2>3, <3>1, <4>1
    <3> QED BY <3>1, <3>2, <3>3
  <2>5. SubSeq(got, 1, Len(got)) = SubSeq(Selected, 1, Len(got))
    BY <2>1, <2>2, <2>3, <2>4, SubSeqProperties
  <2> QED BY <2>4, <2>5 DEF IsPrefix
<1> QED BY <1>1, LogInvariant, PTL

=============================================================================
