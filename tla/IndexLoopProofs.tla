--------------------------- MODULE IndexLoopProofs ---------------------------
(***************************************************************************)
(* Machine-checked proofs about IndexLoop, for every block tree, window    *)
(* depth, distribution of outcalls, number of loops and of subscribers.    *)
(* The inductive invariant is Inductive: Basic holds whatever the operator *)
(* does, Ordered as long as every start() found the indexer at rest.  Then *)
(* the refinement of ChainIndex.                                           *)
(***************************************************************************)
EXTENDS IndexLoop, TLAPS, WellFoundedInduction

-----------------------------------------------------------------------------
(* Facts about the data.                                                   *)

(* A bounded set of naturals has a largest element, which Max chooses.     *)
LEMMA MaxOfBounded ==
  ASSUME NEW S \in SUBSET Nat, S # {}, NEW n \in Nat, \A h \in S : h <= n
  PROVE  Max(S) \in S /\ \A h \in S : h <= Max(S)
<1> DEFINE T == {m \in Nat : \A h \in S : h <= m}
<1>1. T # {} /\ T \subseteq Nat
  OBVIOUS
<1>2. PICK x \in T : \A y \in T : ~(<<y, x>> \in OpToRel(<, Nat))
  BY <1>1, NatLessThanWellFounded, WFMin
<1>3. \A y \in T : ~ (y < x)
  BY <1>2 DEF OpToRel
<1>4. x \in S
  <2> SUFFICES ASSUME x \notin S PROVE FALSE OBVIOUS
  <2>1. PICK s \in S : TRUE
    OBVIOUS
  <2>2. x \in Nat /\ s <= x /\ s # x
    BY <2>1
  <2>3. x - 1 \in Nat /\ x - 1 < x
    BY <2>2
  <2>4. \A h \in S : h <= x - 1
    BY <2>2
  <2> QED BY <2>3, <2>4, <1>3
<1>5. \A h \in S : x >= h
  OBVIOUS
<1> QED BY <1>4, <1>5 DEF Max

(* A set of naturals has a smallest element, which Min chooses.            *)
LEMMA MinOfNats ==
  ASSUME NEW S \in SUBSET Nat, S # {}
  PROVE  Min(S) \in S /\ \A h \in S : Min(S) <= h
<1>1. PICK x \in S : \A y \in S : ~(<<y, x>> \in OpToRel(<, Nat))
  BY NatLessThanWellFounded, WFMin
<1>2. \A y \in S : ~(y < x)
  BY <1>1 DEF OpToRel
<1>3. \A y \in S : x <= y
  BY <1>2
<1> QED BY <1>3 DEF Min

(* Counting one application more keeps the ledger a ledger.                *)
LEMMA CountFacts ==
  ASSUME NEW S, NEW f \in [S -> Int], NEW s \in S
  PROVE  [f EXCEPT ![s] = @ + 1] \in [S -> Int]
OBVIOUS

(* The latest header is the highest of the retained ones.                  *)
LEMMA LatestFacts ==
  ASSUME TypeOK, BelowTip
  PROVE  /\ DOMAIN block_header # {} =>
              /\ LatestHeight \in DOMAIN block_header
              /\ \A h \in DOMAIN block_header : h <= LatestHeight
         /\ NextHeight \in Nat
         /\ NextHeight \notin DOMAIN block_header
         /\ LatestBlock \in Block \cup {NoBlock}
         /\ LatestBlock = NoBlock <=> DOMAIN block_header = {}
<1>1. CASE DOMAIN block_header = {}
  BY <1>1, BlockTreeAssumption DEF NextHeight, LatestBlock
<1>2. CASE DOMAIN block_header # {}
  <2>1. HeightOf[tip] \in Nat /\ \A h \in DOMAIN block_header : h <= HeightOf[tip]
    BY BlockTreeAssumption DEF TypeOK, BelowTip
  <2>2. DOMAIN block_header \in SUBSET Nat
    BY DEF TypeOK
  <2>3. /\ LatestHeight \in DOMAIN block_header
        /\ \A h \in DOMAIN block_header : h <= LatestHeight
    BY <1>2, <2>1, <2>2, MaxOfBounded DEF LatestHeight
  <2>4. block_header[LatestHeight] \in Block
    BY <2>3 DEF TypeOK
  <2> QED
    BY <1>2, <2>2, <2>3, <2>4, BlockTreeAssumption DEF NextHeight, LatestBlock
<1> QED BY <1>1, <1>2

(* The empty map is a function on the empty set.                           *)
LEMMA EmptyMap ==
  DOMAIN << >> = {} /\ \A S : << >> \in [{} -> S]
<1>1. DOMAIN << >> = {}
  OBVIOUS
<1>2. ASSUME NEW S PROVE << >> \in [{} -> S]
  OBVIOUS
<1> QED BY <1>1, <1>2

(* EmptyFrame is a frame.                                                  *)
LEMMA EmptyFrameType == EmptyFrame \in Frame
BY BlockTreeAssumption DEF EmptyFrame, Frame

-----------------------------------------------------------------------------
(* Basic: types and what a suspended loop knows.                           *)

(* Every initial state is well typed and all loops are idle.               *)
LEMMA BasicInit == Init => Basic
<1> SUFFICES ASSUME Init PROVE Basic OBVIOUS
<1> USE BlockTreeAssumption, LoopAssumption, EmptyFrameType
<1>0. DOMAIN block_header = {} /\ DOMAIN change_record = {}
  BY EmptyMap DEF Init
<1>1. TypeOK
  <2>1. /\ block_header \in [DOMAIN block_header -> Block]
        /\ change_record \in [DOMAIN change_record -> SUBSET Segment]
    BY <1>0, EmptyMap DEF Init
  <2>2. /\ tip \in Block /\ ever_best \in SUBSET Block /\ statistic \in SUBSET Nat
        /\ shutting_down \in BOOLEAN /\ orderly \in BOOLEAN
    BY DEF Init
  <2>3. ledger \in [Segment -> Int]
    BY DEF Init
  <2>4. pc \in [Loops -> Pc] /\ frame \in [Loops -> Frame]
    BY DEF Init, Pc
  <2> QED BY <1>0, <2>1, <2>2, <2>3, <2>4 DEF TypeOK
<1>2. BelowTip
  BY <1>0, AncestryAssumption DEF Init, BelowTip
<1>3. \A p \in Loops : FrameShape(p)
  BY DEF Init, FrameShape
<1>4. OnlyBestChainIndexed
  BY DEF Init, OnlyBestChainIndexed
<1> QED BY <1>1, <1>2, <1>3, <1>4 DEF Basic

(* A loop ends its iteration, for good or until the next timer, and leaves *)
(* the maps alone.                                                         *)
LEMMA BasicLoopEnds ==
  ASSUME Basic, NEW p \in Loops, NEW x \in {"idle", "timer"},
         pc' = [pc EXCEPT ![p] = x],
         frame' = [frame EXCEPT ![p] = EmptyFrame],
         UNCHANGED <<tip, ever_best, store, shutting_down, orderly>>
  PROVE  Basic'
<1>1. TypeOK'
  BY EmptyFrameType DEF Basic, TypeOK, store, Pc, Await
<1>2. BelowTip' /\ OnlyBestChainIndexed'
  BY DEF Basic, BelowTip, OnlyBestChainIndexed, store
<1>3. ASSUME NEW q \in Loops PROVE FrameShape(q)'
  BY <1>3 DEF Basic, TypeOK, FrameShape
<1> QED BY <1>1, <1>2, <1>3 DEF Basic

(* A loop moves on to another await and changes only its locals.           *)
LEMMA BasicAdvance ==
  ASSUME Basic, NEW p \in Loops, NEW x \in Pc, NEW f \in Frame,
         pc' = [pc EXCEPT ![p] = x],
         frame' = [frame EXCEPT ![p] = f],
         UNCHANGED <<tip, ever_best, store, shutting_down>>,
         orderly' \in BOOLEAN,
         FrameShape(p)'
  PROVE  Basic'
<1>1. TypeOK'
  BY DEF Basic, TypeOK, store
<1>2. BelowTip' /\ OnlyBestChainIndexed'
  BY DEF Basic, BelowTip, OnlyBestChainIndexed, store
<1>3. ASSUME NEW q \in Loops PROVE FrameShape(q)'
  BY <1>3 DEF Basic, TypeOK, FrameShape, store
<1> QED BY <1>1, <1>2, <1>3 DEF Basic

(* Segments are pairs of a block and a number up to its outcalls.          *)
LEMMA SegmentFacts ==
  /\ \A b \in Block : SegmentsOf(b) \subseteq Segment
  /\ \A b \in Block : \A k \in 0..Outcalls[b] :
       <<b, k>> \in SegmentsOf(b) /\ <<b, k>> \in Segment
  /\ \A s \in Segment : s[1] \in Block /\ s \in SegmentsOf(s[1])
  /\ \A b \in Block : \A s \in SegmentsOf(b) : s[1] = b
BY LoopAssumption DEF Segment, SegmentsOf

(* The end of index_block: the maps gain the block and are pruned.         *)
LEMMA BasicFinishBlock ==
  ASSUME Basic, NEW p \in Loops, NEW b \in ever_best, NEW r \in SUBSET Segment,
         frame[p].height = HeightOf[b],
         <<b, frame[p].segment>> \in Segment,
         FinishBlock(p, b, r),
         ledger' = [ledger EXCEPT ![<<b, frame[p].segment>>] = @ + 1],
         UNCHANGED <<tip, ever_best, shutting_down, orderly>>
  PROVE  Basic'
<1> DEFINE h == frame[p].height
<1>1. b \in Block /\ h \in Nat /\ h <= HeightOf[tip]
  BY BlockTreeAssumption DEF Basic, TypeOK, BelowTip
<1>2. /\ block_header' = Pruned(Put(block_header, h, b), h)
      /\ change_record' = Pruned(Put(change_record, h, r), h)
      /\ statistic' = Retained(statistic \cup {h}, h)
      /\ \E x \in {"idle", "timer", "notify"} :
           /\ pc' = [pc EXCEPT ![p] = x]
           /\ frame' = IF x = "notify"
                       THEN frame ELSE [frame EXCEPT ![p] = EmptyFrame]
  BY DEF FinishBlock, Reschedule
<1>3. TypeOK'
  <2>1. /\ DOMAIN block_header' \in SUBSET Nat
        /\ block_header' \in [DOMAIN block_header' -> Block]
    BY <1>1, <1>2 DEF Basic, TypeOK, Pruned, Put, Restrict, Retained
  <2>2. /\ DOMAIN change_record' \in SUBSET Nat
        /\ change_record' \in [DOMAIN change_record' -> SUBSET Segment]
    BY <1>1, <1>2 DEF Basic, TypeOK, Pruned, Put, Restrict, Retained
  <2>3. statistic' \in SUBSET Nat
    BY <1>1, <1>2 DEF Basic, TypeOK, Retained
  <2>4. ledger' \in [Segment -> Int]
    BY CountFacts DEF Basic, TypeOK
  <2>5. pc' \in [Loops -> Pc] /\ frame' \in [Loops -> Frame]
    BY <1>2, EmptyFrameType DEF Basic, TypeOK, Pc, Await
  <2> QED BY <2>1, <2>2, <2>3, <2>4, <2>5 DEF Basic, TypeOK
<1>4. BelowTip'
  <2>1. \A g \in DOMAIN block_header' : g \in DOMAIN block_header \/ g = h
    BY <1>2 DEF Pruned, Put, Restrict, Retained
  <2> QED BY <1>1, <2>1 DEF Basic, BelowTip
<1>5. ASSUME NEW q \in Loops PROVE FrameShape(q)'
  BY <1>2 DEF Basic, TypeOK, FrameShape
<1>6. OnlyBestChainIndexed'
  BY SegmentFacts DEF Basic, TypeOK, OnlyBestChainIndexed
<1> QED BY <1>3, <1>4, <1>5, <1>6 DEF Basic

(* One segment of index_block.                                             *)
LEMMA BasicIndexSegment ==
  ASSUME Basic, NEW p \in Loops, NEW b \in ever_best,
         frame[p].height = HeightOf[b],
         frame[p].segment \in 0..Outcalls[b],
         frame[p].record = {<<b, k>> : k \in 0..(frame[p].segment - 1)},
         IndexSegment(p, b),
         UNCHANGED <<tip, ever_best, shutting_down, orderly>>
  PROVE  Basic'
<1> DEFINE n == frame[p].segment
           s == <<b, n>>
           r == frame[p].record \cup {s}
<1>1. b \in Block /\ n \in Nat /\ s \in Segment
  BY SegmentFacts DEF Basic, TypeOK
<1>2. r \in SUBSET Segment
  BY <1>1 DEF Basic, TypeOK, Frame
<1>3. CASE FinishBlock(p, b, r)
  BY <1>1, <1>2, <1>3, BasicFinishBlock DEF IndexSegment, Recorded
<1>4. CASE ~FinishBlock(p, b, r)
  <2> DEFINE f == [frame[p] EXCEPT !.block = b, !.record = r, !.segment = n + 1]
  <2>1. /\ n < Outcalls[b]
        /\ ledger' = [ledger EXCEPT ![s] = @ + 1]
        /\ statistic' = statistic \cup {frame[p].height}
        /\ pc' = [pc EXCEPT ![p] = "commit"]
        /\ frame' = [frame EXCEPT ![p] = f]
        /\ UNCHANGED <<block_header, change_record>>
    BY <1>4 DEF IndexSegment, Recorded
  <2>2. /\ f \in Frame
        /\ f.block = b /\ f.segment = n + 1 /\ f.record = r
        /\ f.height = frame[p].height
    <3>1. frame[p] \in Frame
      BY DEF Basic, TypeOK
    <3>2. n + 1 \in Nat
      BY <1>1
    <3> HIDE DEF n, r, s
    <3>3. f \in Frame
      BY <1>1, <1>2, <3>1, <3>2 DEF Frame
    <3>4. f.block = b /\ f.segment = n + 1 /\ f.record = r
      BY <3>1 DEF Frame
    <3>5. f.height = frame[p].height
      BY <3>1 DEF Frame
    <3> QED BY <3>3, <3>4, <3>5
  <2>3. TypeOK'
    <3>1. ledger' \in [Segment -> Int]
      BY <1>1, <2>1, CountFacts DEF Basic, TypeOK
    <3>2. statistic' \in SUBSET Nat
      BY <1>1, <2>1, BlockTreeAssumption DEF Basic, TypeOK
    <3>3. pc' \in [Loops -> Pc] /\ frame' \in [Loops -> Frame]
      BY <2>1, <2>2 DEF Basic, TypeOK, Pc, Await
    <3> QED BY <2>1, <3>1, <3>2, <3>3 DEF Basic, TypeOK
  <2>4. BelowTip'
    BY <2>1 DEF Basic, BelowTip
  <2>5. n + 1 \in 1..Outcalls[b]
    BY <1>1, <2>1, LoopAssumption
  <2>6. r = {<<b, k>> : k \in 0..n}
    BY <1>1
  <2>7. FrameShape(p)'
    <3>1. frame'[p] = f /\ pc'[p] = "commit"
      BY <2>1 DEF Basic, TypeOK
    <3>2. (n + 1) - 1 = n /\ f.height = HeightOf[b]
      BY <1>1, <2>2
    <3> HIDE DEF n, r, s, f
    <3> QED BY <2>1, <2>2, <2>5, <2>6, <3>1, <3>2 DEF FrameShape
  <2>8. ASSUME NEW q \in Loops, q # p PROVE FrameShape(q)'
    BY <2>1, <2>2, <2>8 DEF Basic, TypeOK, FrameShape
  <2>9. OnlyBestChainIndexed'
    BY <2>1, <1>1 DEF Basic, TypeOK, OnlyBestChainIndexed
  <2> QED BY <2>3, <2>4, <2>7, <2>8, <2>9 DEF Basic
<1> QED BY <1>3, <1>4

(* The depth loop of detect_reorg asks for another hash, or gives up.      *)
LEMMA BasicProbe ==
  ASSUME Basic, NEW p \in Loops, NEW d \in Nat \ {0}, Probe(p, d),
         UNCHANGED <<tip, ever_best, store, shutting_down, orderly>>
  PROVE  Basic'
<1> DEFINE c == frame[p].height - d
           f == [frame[p] EXCEPT !.depth = d, !.indexed = block_header[c]]
<1>1. CASE Recoverable(p, d)
  <2>1. pc' = [pc EXCEPT ![p] = "ancestor"] /\ frame' = [frame EXCEPT ![p] = f]
    BY <1>1 DEF Probe
  <2>2. block_header[c] \in Block /\ d \in 1..MaxReorgDepth
    BY <1>1, LoopAssumption DEF Recoverable, Basic, TypeOK
  <2>3. frame[p] \in Frame
    BY DEF Basic, TypeOK
  <2>4. f \in Frame /\ f.depth = d
    <3> HIDE DEF c
    <3> QED BY <2>2, <2>3 DEF Frame
  <2>5. frame'[p] = f /\ pc'[p] = "ancestor"
    BY <2>1 DEF Basic, TypeOK
  <2>6. FrameShape(p)'
    <3> HIDE DEF f
    <3> QED BY <2>2, <2>4, <2>5 DEF FrameShape
  <2>7. orderly' \in BOOLEAN
    BY DEF Basic, TypeOK
  <2> HIDE DEF f
  <2> QED BY <2>1, <2>4, <2>6, <2>7, BasicAdvance DEF Pc, Await
<1>2. CASE ~Recoverable(p, d)
  BY <1>2, BasicLoopEnds DEF Probe, Halt
<1> QED BY <1>1, <1>2

(* handle_reorg takes entries away and undoes what their records name.     *)
LEMMA BasicRollBack ==
  ASSUME Basic, NEW p \in Loops, RollBack(p), Reschedule(p),
         UNCHANGED <<tip, ever_best, shutting_down, orderly>>
  PROVE  Basic'
<1> DEFINE H == RolledBack(frame[p].height, frame[p].depth)
<1>1. /\ ledger' = Undone(H)
      /\ change_record' = Restrict(change_record, DOMAIN change_record \ H)
      /\ statistic' = statistic \ H
      /\ block_header' = Restrict(block_header, DOMAIN block_header \ H)
  BY DEF RollBack
<1> HIDE DEF H
<1>2. PICK x \in {"idle", "timer"} :
        /\ pc' = [pc EXCEPT ![p] = x]
        /\ frame' = [frame EXCEPT ![p] = EmptyFrame]
  BY DEF Reschedule
<1>3. TypeOK'
  <2>1. /\ DOMAIN block_header' \in SUBSET Nat
        /\ block_header' \in [DOMAIN block_header' -> Block]
        /\ DOMAIN change_record' \in SUBSET Nat
        /\ change_record' \in [DOMAIN change_record' -> SUBSET Segment]
    BY <1>1 DEF Basic, TypeOK, Restrict
  <2>2. ledger' \in [Segment -> Int] /\ statistic' \in SUBSET Nat
    BY <1>1 DEF Basic, TypeOK, Undone
  <2>3. pc' \in [Loops -> Pc] /\ frame' \in [Loops -> Frame]
    BY <1>2, EmptyFrameType DEF Basic, TypeOK, Pc
  <2> QED BY <2>1, <2>2, <2>3 DEF Basic, TypeOK
<1>4. BelowTip'
  BY <1>1 DEF Basic, BelowTip, Restrict
<1>5. ASSUME NEW q \in Loops PROVE FrameShape(q)'
  BY <1>2 DEF Basic, TypeOK, FrameShape
<1>6. OnlyBestChainIndexed'
  BY <1>1 DEF Basic, TypeOK, OnlyBestChainIndexed, Undone
<1> QED BY <1>3, <1>4, <1>5, <1>6 DEF Basic

(* The steps of a loop that go well.                                       *)
LEMMA BasicProgress ==
  ASSUME Basic, NEW p \in Loops, Progress(p)
  PROVE  Basic'
<1>0. frame[p] \in Frame /\ orderly \in BOOLEAN
  BY DEF Basic, TypeOK
<1>1. CASE TimerFires(p)
  <2> DEFINE f == [frame[p] EXCEPT !.height = NextHeight, !.prev = LatestBlock]
  <2>1. NextHeight \in Nat /\ LatestBlock \in Block \cup {NoBlock}
    BY LatestFacts DEF Basic
  <2>2. frame[p] = EmptyFrame
    BY <1>1 DEF TimerFires, Basic, FrameShape
  <2>3. f \in Frame /\ f.segment = 0 /\ f.record = {}
    <3>1. frame[p].segment = 0 /\ frame[p].record = {}
      BY <2>2 DEF EmptyFrame
    <3>2. f.segment = frame[p].segment /\ f.record = frame[p].record
      BY <1>0 DEF Frame
    <3>3. f \in Frame
      BY <1>0, <2>1 DEF Frame
    <3> QED BY <3>1, <3>2, <3>3
  <2>4. pc' = [pc EXCEPT ![p] = "hash"] /\ frame' = [frame EXCEPT ![p] = f]
    BY <1>1 DEF TimerFires
  <2>5. frame'[p] = f /\ pc'[p] = "hash"
    BY <2>4 DEF Basic, TypeOK
  <2> HIDE DEF f
  <2>6. FrameShape(p)'
    BY <2>3, <2>5 DEF FrameShape
  <2> QED BY <1>0, <1>1, <2>3, <2>4, <2>6, BasicAdvance
          DEF TimerFires, Pc, Await
<1>2. CASE HashFound(p)
  <2>1. PICK b \in OnBestChain(frame[p].height) :
          frame' = [frame EXCEPT ![p] = [frame[p] EXCEPT !.block = b]]
    BY <1>2 DEF HashFound
  <2> DEFINE f == [frame[p] EXCEPT !.block = b]
  <2>2. b \in Block /\ b \in ever_best /\ HeightOf[b] = frame[p].height
    BY BlockTreeAssumption DEF OnBestChain, Basic, TypeOK, BelowTip
  <2>3. f \in Frame /\ f.block = b /\ f.height = HeightOf[b]
        /\ f.segment = frame[p].segment /\ f.record = frame[p].record
    BY <1>0, <2>2 DEF Frame
  <2>4. pc' = [pc EXCEPT ![p] = "block"] /\ frame' = [frame EXCEPT ![p] = f]
    BY <1>2, <2>1 DEF HashFound
  <2>5. frame'[p] = f /\ pc'[p] = "block"
    BY <2>4 DEF Basic, TypeOK
  <2>6. frame[p].segment = 0 /\ frame[p].record = {}
    BY <1>2 DEF HashFound, Basic, FrameShape
  <2>7. ever_best' = ever_best
    BY <1>2 DEF HashFound
  <2> HIDE DEF f
  <2>8. FrameShape(p)'
    BY <2>2, <2>3, <2>5, <2>6, <2>7 DEF FrameShape
  <2> QED BY <1>0, <1>2, <2>3, <2>4, <2>8, BasicAdvance
          DEF HashFound, Pc, Await
<1>3. CASE HashNotFound(p)
  BY <1>3, BasicLoopEnds DEF HashNotFound, Reschedule
<1>4. ASSUME NEW b \in Block, BlockArrives(p, b) PROVE Basic'
  <2>1. /\ b \in ever_best /\ frame[p].height = HeightOf[b]
        /\ frame[p].segment = 0 /\ frame[p].record = {}
    BY <1>4 DEF BlockArrives, Verified, Basic, FrameShape
  <2>2. CASE Forked(p, b)
    BY <1>4, <2>2, BasicProbe DEF BlockArrives
  <2>3. CASE ~Forked(p, b)
    <3>1. /\ frame[p].segment \in 0..Outcalls[b]
          /\ {<<b, k>> : k \in 0..(frame[p].segment - 1)} = {}
      BY <2>1, LoopAssumption
    <3> QED BY <1>4, <2>1, <2>3, <3>1, BasicIndexSegment DEF BlockArrives
  <2> QED BY <2>2, <2>3
<1>5. CASE AncestorAnswered(p)
  <2>1. frame[p].depth + 1 \in Nat \ {0}
    BY <1>0 DEF Frame
  <2> QED BY <1>5, <2>1, BasicProbe, BasicRollBack DEF AncestorAnswered
<1>6. CASE CommitAnswered(p)
  <2>1. /\ frame[p].block \in ever_best
        /\ frame[p].height = HeightOf[frame[p].block]
        /\ frame[p].segment \in 0..Outcalls[frame[p].block]
        /\ frame[p].record =
             {<<frame[p].block, k>> : k \in 0..(frame[p].segment - 1)}
    BY <1>6 DEF CommitAnswered, Basic, FrameShape
  <2> QED BY <1>6, <2>1, BasicIndexSegment DEF CommitAnswered
<1>7. CASE Notified(p)
  <2>1. CASE frame[p].notified + 1 < Subscribers
    <3> DEFINE f == [frame[p] EXCEPT !.notified = frame[p].notified + 1]
    <3>1. f \in Frame
      BY <1>0 DEF Frame
    <3>2. pc' = [pc EXCEPT ![p] = "notify"] /\ frame' = [frame EXCEPT ![p] = f]
      BY <1>7, <2>1, LoopAssumption DEF Notified, Basic, TypeOK, Frame
    <3>3. pc'[p] = "notify"
      BY <3>2 DEF Basic, TypeOK
    <3> HIDE DEF f
    <3>4. FrameShape(p)'
      BY <3>3 DEF FrameShape
    <3> QED BY <1>0, <1>7, <3>1, <3>2, <3>4, BasicAdvance
            DEF Notified, Pc, Await
  <2>2. CASE ~(frame[p].notified + 1 < Subscribers)
    BY <1>7, <2>2, BasicLoopEnds DEF Notified, Reschedule
  <2> QED BY <2>1, <2>2
<1> QED BY <1>1, <1>2, <1>3, <1>4, <1>5, <1>6, <1>7 DEF Progress

(* Every step keeps the types and the shape of the frames.                 *)
LEMMA BasicStep == Basic /\ [Next]_vars => Basic'
<1> SUFFICES ASSUME Basic, [Next]_vars PROVE Basic' OBVIOUS
<1>1. CASE UNCHANGED vars
  BY <1>1 DEF vars, store, Basic, TypeOK, BelowTip, FrameShape,
              OnlyBestChainIndexed
<1>2. CASE NewTip
  <2>1. PICK b \in Block : /\ HeightOf[b] > HeightOf[tip]
                          /\ tip' = b
                          /\ ever_best' = ever_best \cup Chain[b]
    BY <1>2 DEF NewTip
  <2>2. UNCHANGED <<store, shutting_down, pc, frame, orderly>>
    BY <1>2 DEF NewTip
  <2>3. TypeOK'
    BY <2>1, <2>2, BlockTreeAssumption DEF Basic, TypeOK, store
  <2>4. BelowTip'
    <3>1. HeightOf[b] \in Nat /\ HeightOf[tip] \in Nat
      BY BlockTreeAssumption DEF Basic, TypeOK
    <3>2. \A c \in ever_best' : HeightOf[c] <= HeightOf[b]
      BY <2>1, <3>1, BlockTreeAssumption, AncestryAssumption
         DEF Basic, TypeOK, BelowTip
    <3>3. \A h \in DOMAIN block_header' : h <= HeightOf[b]
      BY <2>1, <2>2, <3>1 DEF Basic, TypeOK, BelowTip, store
    <3> QED BY <2>1, <3>2, <3>3 DEF BelowTip
  <2>5. ASSUME NEW q \in Loops PROVE FrameShape(q)'
    BY <2>1, <2>2 DEF Basic, FrameShape
  <2>6. OnlyBestChainIndexed'
    BY <2>1, <2>2 DEF Basic, OnlyBestChainIndexed, store
  <2> QED BY <2>3, <2>4, <2>5, <2>6 DEF Basic
<1>3. CASE Stop
  BY <1>3 DEF Stop, store, Basic, TypeOK, BelowTip, FrameShape,
              OnlyBestChainIndexed
<1>4. CASE Upgrade
  <2>1. TypeOK'
    BY <1>4 DEF Upgrade, store, Basic, TypeOK, Pc
  <2>2. ASSUME NEW q \in Loops PROVE FrameShape(q)'
    BY <1>4 DEF Upgrade, Basic, FrameShape
  <2> QED
    BY <1>4, <2>1, <2>2 DEF Upgrade, store, Basic, BelowTip,
                            OnlyBestChainIndexed
<1>5. ASSUME NEW p \in Loops, Start(p) PROVE Basic'
  <2>1. TypeOK'
    BY <1>5 DEF Start, store, Basic, TypeOK, Pc
  <2>2. ASSUME NEW q \in Loops PROVE FrameShape(q)'
    BY <1>5 DEF Start, Basic, TypeOK, FrameShape
  <2> QED
    BY <1>5, <2>1, <2>2 DEF Start, store, Basic, BelowTip,
                            OnlyBestChainIndexed
<1>6. ASSUME NEW p \in Loops, Progress(p) PROVE Basic'
  BY <1>6, BasicProgress
<1>7. ASSUME NEW p \in Loops, OutcallFails(p) \/ Trap(p) PROVE Basic'
  BY <1>7, BasicLoopEnds DEF OutcallFails, HashFails, BlockFails,
     AncestorFails, CommitFails, Trap, Reschedule, Halt
<1> QED BY <1>1, <1>2, <1>3, <1>4, <1>5, <1>6, <1>7 DEF Next, Admin

-----------------------------------------------------------------------------
(* Every reachable state is well typed, whatever the operator, the network *)
(* and the RPC node do.                                                    *)
THEOREM TypeCorrect == Spec => []TypeOK
<1>1. Basic => TypeOK
  BY DEF Basic
<1> QED BY <1>1, BasicInit, BasicStep, PTL DEF Spec

(* No block is ever applied that the Bitcoin canister never had on its     *)
(* best chain, even with several loops at once and after partial failures. *)
THEOREM OnlyBestChain == Spec => []OnlyBestChainIndexed
<1>1. Basic => OnlyBestChainIndexed
  BY DEF Basic
<1> QED BY <1>1, BasicInit, BasicStep, PTL DEF Spec

-----------------------------------------------------------------------------
(* Ordered: what holds between the maps, and between them and the locals,  *)
(* as long as only one loop runs and no leftovers are built upon.          *)

(* Initially nothing is indexed and no loop runs.                          *)
LEMMA OrderedInit == Init => Ordered
<1> SUFFICES ASSUME Init PROVE Ordered OBVIOUS
<1>1. /\ DOMAIN block_header = {} /\ DOMAIN change_record = {}
      /\ statistic = {} /\ \A p \in Loops : pc[p] = "idle"
      /\ \A s \in Segment : ledger[s] = 0
  BY EmptyMap DEF Init
<1>2. LatestBlock = NoBlock
  BY <1>1 DEF LatestBlock
<1>3. OneLoop /\ LinkedWindow /\ OneBranch /\ RecordsMatch
  BY <1>1 DEF OneLoop, LinkedWindow, OneBranch, RecordsMatch
<1>4. \A p \in Loops : FrameFresh(p)
  BY <1>1 DEF FrameFresh
<1>5. StatisticMatches
  BY <1>1 DEF StatisticMatches, Whole
<1>6. LedgerMatches
  BY <1>1, <1>2, SegmentFacts DEF LedgerMatches, Indexed
<1> QED BY <1>3, <1>4, <1>5, <1>6 DEF Ordered

(* A loop that runs is the only one, and no block is half indexed unless   *)
(* it is the one the loop is suspended in.                                 *)
LEMMA RunningFacts ==
  ASSUME Basic, Ordered, NEW p \in Loops, pc[p] # "idle"
  PROVE  /\ \A q \in Loops : q # p => pc[q] = "idle"
         /\ pc[p] # "commit" => Whole
         /\ pc[p] = "commit" => statistic = DOMAIN block_header \cup {NextHeight}
BY DEF Ordered, OneLoop, StatisticMatches

(* The loop ends its iteration; out of a half indexed block only for good. *)
LEMMA OrderedLoopEnds ==
  ASSUME Basic, Ordered, NEW p \in Loops, NEW x \in {"idle", "timer"},
         pc[p] # "idle", pc[p] = "commit" => x = "idle",
         pc' = [pc EXCEPT ![p] = x],
         UNCHANGED store
  PROVE  Ordered'
<1>1. \A q \in Loops : q # p => pc[q] = "idle" /\ pc'[q] = "idle"
  BY RunningFacts DEF Basic, TypeOK
<1>2. pc'[p] = x
  BY DEF Basic, TypeOK
<1>3. OneLoop'
  BY <1>1, <1>2 DEF OneLoop
<1>4. \A q \in Loops : FrameFresh(q)'
  BY <1>1, <1>2 DEF FrameFresh
<1>5. LinkedWindow'
  BY DEF Ordered, LinkedWindow, LatestHeight, store
<1>6. OneBranch' /\ RecordsMatch'
  BY DEF Ordered, OneBranch, RecordsMatch, LatestBlock, LatestHeight, store
<1>7. StatisticMatches'
  <2>1. \A q \in Loops : pc'[q] # "commit"
    BY <1>1, <1>2
  <2>2. CASE pc[p] = "commit"
    BY <1>1, <1>2, <2>1, <2>2, RunningFacts
       DEF StatisticMatches, NextHeight, LatestHeight, store
  <2>3. CASE pc[p] # "commit"
    BY <2>1, <2>3, RunningFacts DEF StatisticMatches, Whole, store
  <2> QED BY <2>2, <2>3
<1>8. LedgerMatches'
  <2>1. \A q \in Loops : pc'[q] # "commit"
    BY <1>1, <1>2
  <2>2. Whole' = Whole /\ Indexed' = Indexed
    BY DEF Whole, Indexed, LatestBlock, LatestHeight, store
  <2> QED BY <2>1, <2>2 DEF Ordered, LedgerMatches, store
<1> QED BY <1>3, <1>4, <1>5, <1>6, <1>7, <1>8 DEF Ordered

(* The loop goes on to an await other than commit; the maps stay.          *)
LEMMA OrderedAdvance ==
  ASSUME Basic, Ordered, NEW p \in Loops, NEW x \in Pc \ {"commit"},
         pc[p] \notin {"idle", "commit"},
         pc' = [pc EXCEPT ![p] = x],
         UNCHANGED store,
         FrameFresh(p)'
  PROVE  Ordered'
<1>1. \A q \in Loops : q # p => pc[q] = "idle" /\ pc'[q] = "idle"
  BY RunningFacts DEF Basic, TypeOK
<1>2. pc'[p] = x
  BY DEF Basic, TypeOK
<1>3. OneLoop'
  BY <1>1, <1>2 DEF OneLoop
<1>4. \A q \in Loops : FrameFresh(q)'
  BY <1>1, <1>2 DEF FrameFresh
<1>5. LinkedWindow'
  BY DEF Ordered, LinkedWindow, LatestHeight, store
<1>6. OneBranch' /\ RecordsMatch'
  BY DEF Ordered, OneBranch, RecordsMatch, LatestBlock, LatestHeight, store
<1>7. \A q \in Loops : pc'[q] # "commit"
  BY <1>1, <1>2
<1>8. StatisticMatches'
  BY <1>7, RunningFacts DEF StatisticMatches, Whole, store
<1>9. LedgerMatches'
  <2>1. Whole' = Whole /\ Indexed' = Indexed
    BY DEF Whole, Indexed, LatestBlock, LatestHeight, store
  <2> QED BY <1>7, <2>1 DEF Ordered, LedgerMatches, store
<1> QED BY <1>3, <1>4, <1>5, <1>6, <1>8, <1>9 DEF Ordered

(* What index_block may rely on when a loop enters or re-enters it for b.  *)
Indexing(p, b) ==
  /\ pc[p] # "idle"
  /\ b \in Block
  /\ frame[p].height = NextHeight
  /\ frame[p].prev = LatestBlock
  /\ HeightOf[b] = NextHeight
  /\ Prev[b] = LatestBlock
  /\ frame[p].segment \in 0..Outcalls[b]
  /\ frame[p].record = {<<b, k>> : k \in 0..(frame[p].segment - 1)}
  /\ statistic \subseteq DOMAIN block_header \cup {NextHeight}
  /\ DOMAIN block_header \subseteq statistic
  /\ \A c \in Block : \A s \in SegmentsOf(c) :
       ledger[s] = IF c \in Indexed \/ s \in frame[p].record THEN 1 ELSE 0

(* A block one above the latest is not on the indexed chain.               *)
LEMMA NextNotIndexed ==
  ASSUME Basic, Ordered, NEW b \in Block, HeightOf[b] = NextHeight
  PROVE  b \notin Indexed
<1>1. CASE LatestBlock = NoBlock
  BY <1>1 DEF Indexed
<1>2. CASE LatestBlock # NoBlock
  <2>1. LatestHeight \in DOMAIN block_header /\ LatestBlock \in Block
    BY <1>2, LatestFacts DEF Basic
  <2>2. HeightOf[LatestBlock] = LatestHeight /\ NextHeight = LatestHeight + 1
    BY <1>2, <2>1, LatestFacts
       DEF Ordered, LinkedWindow, LatestBlock, NextHeight
  <2>3. \A c \in Chain[LatestBlock] : HeightOf[c] <= LatestHeight
    BY <2>1, <2>2, AncestryAssumption
  <2>4. LatestHeight \in Nat
    BY <2>1 DEF Basic, TypeOK
  <2> QED BY <1>2, <2>2, <2>3, <2>4 DEF Indexed
<1> QED BY <1>1, <1>2

(* Applying a segment adds it to what the ledger counts once.              *)
LEMMA LedgerAfterSegment ==
  ASSUME Basic, Ordered, NEW p \in Loops, NEW b, Indexing(p, b),
         ledger' = [ledger EXCEPT ![<<b, frame[p].segment>>] = @ + 1],
         NEW c \in Block, NEW s \in SegmentsOf(c)
  PROVE  ledger'[s] = IF c \in Indexed
                         \/ s \in frame[p].record \cup {<<b, frame[p].segment>>}
                      THEN 1 ELSE 0
<1> DEFINE n == frame[p].segment
           t == <<b, n>>
<1>1. /\ t \in Segment /\ s \in Segment /\ s[1] = c /\ t[1] = b
      /\ n \in Nat /\ b \notin Indexed
  BY SegmentFacts, NextNotIndexed DEF Indexing, Basic, TypeOK, Frame
<1>2. ledger[s] = IF c \in Indexed \/ s \in frame[p].record THEN 1 ELSE 0
  BY DEF Indexing
<1>3. CASE s = t
  <2>1. t \notin frame[p].record
    BY <1>1 DEF Indexing
  <2>2. c \notin Indexed
    BY <1>1, <1>3
  <2>3. ledger'[t] = ledger[t] + 1
    BY <1>1 DEF Basic, TypeOK
  <2> QED BY <1>2, <1>3, <2>1, <2>2, <2>3
<1>4. CASE s # t
  <2>1. ledger'[s] = ledger[s]
    BY <1>1, <1>4 DEF Basic, TypeOK
  <2> QED BY <1>2, <1>4, <2>1
<1> QED BY <1>3, <1>4

(* A segment that is not the last: the loop suspends inside the block.     *)
LEMMA OrderedSuspend ==
  ASSUME Basic, Ordered, NEW p \in Loops, NEW b, Indexing(p, b),
         frame[p].segment < Outcalls[b],
         ledger' = [ledger EXCEPT ![<<b, frame[p].segment>>] = @ + 1],
         statistic' = statistic \cup {frame[p].height},
         pc' = [pc EXCEPT ![p] = "commit"],
         frame' = [frame EXCEPT ![p] =
           [frame[p] EXCEPT !.block = b,
                            !.record = frame[p].record
                                         \cup {<<b, frame[p].segment>>},
                            !.segment = frame[p].segment + 1]],
         UNCHANGED <<block_header, change_record>>
  PROVE  Ordered'
<1> DEFINE n == frame[p].segment
           t == <<b, n>>
           r == frame[p].record \cup {t}
           f == [frame[p] EXCEPT !.block = b, !.record = r, !.segment = n + 1]
<1>1. \A q \in Loops : q # p => pc[q] = "idle" /\ pc'[q] = "idle"
  BY RunningFacts DEF Indexing, Basic, TypeOK
<1>2. pc'[p] = "commit" /\ frame'[p] = f
  BY DEF Basic, TypeOK
<1>3. /\ f.height = NextHeight /\ f.prev = frame[p].prev
      /\ f.block = b /\ f.record = r
  BY DEF Basic, TypeOK, Frame, Indexing
<1>4. /\ LatestHeight' = LatestHeight /\ LatestBlock' = LatestBlock
      /\ NextHeight' = NextHeight /\ Indexed' = Indexed
  BY DEF LatestHeight, LatestBlock, NextHeight, Indexed
<1>5. OneLoop'
  BY <1>1, <1>2 DEF OneLoop
<1>6. ASSUME NEW q \in Loops PROVE FrameFresh(q)'
  <2>1. CASE q # p
    BY <1>1, <2>1 DEF FrameFresh
  <2>2. CASE q = p
    <3>1. f.prev = LatestBlock /\ Prev[b] = LatestBlock
      BY <1>3 DEF Indexing
    <3> HIDE DEF f
    <3> QED BY <1>2, <1>3, <1>4, <2>2, <3>1 DEF FrameFresh
  <2> QED BY <2>1, <2>2
<1>7. LinkedWindow' /\ OneBranch' /\ RecordsMatch'
  BY <1>4 DEF Ordered, LinkedWindow, OneBranch, RecordsMatch
<1>8. StatisticMatches'
  BY <1>2, <1>4 DEF Indexing, StatisticMatches
<1>9. LedgerMatches'
  <2>1. ~Whole'
    BY LatestFacts DEF Whole, Indexing, Basic
  <2>2. \A c \in Block : \A s \in SegmentsOf(c) :
          ledger'[s] = IF c \in Indexed \/ s \in r THEN 1 ELSE 0
    BY LedgerAfterSegment
  <2> HIDE DEF f, r
  <2>3. \A q \in Loops : pc'[q] = "commit" => frame'[q].record = r
    BY <1>1, <1>2, <1>3
  <2> QED BY <1>4, <2>1, <2>2, <2>3 DEF LedgerMatches
<1> QED BY <1>5, <1>6, <1>7, <1>8, <1>9 DEF Ordered

(* The last segment: the block joins the maps, which are pruned.           *)
LEMMA OrderedFinish ==
  ASSUME Basic, Ordered, NEW p \in Loops, NEW b, Indexing(p, b),
         frame[p].segment = Outcalls[b],
         ledger' = [ledger EXCEPT ![<<b, frame[p].segment>>] = @ + 1],
         FinishBlock(p, b, frame[p].record \cup {<<b, frame[p].segment>>})
  PROVE  Ordered'
<1>0. \A c \in Block : \A s \in SegmentsOf(c) :
        ledger'[s] = IF c \in Indexed
                        \/ s \in frame[p].record \cup {<<b, frame[p].segment>>}
                     THEN 1 ELSE 0
  BY LedgerAfterSegment
<1> DEFINE h == NextHeight
           D == DOMAIN block_header
           r == frame[p].record \cup {<<b, frame[p].segment>>}
<1>1. /\ block_header' = Pruned(Put(block_header, h, b), h)
      /\ change_record' = Pruned(Put(change_record, h, r), h)
      /\ statistic' = Retained(statistic \cup {h}, h)
      /\ pc' = [pc EXCEPT ![p] = pc'[p]]
      /\ pc'[p] \in {"idle", "timer", "notify"}
  BY DEF FinishBlock, Reschedule, Indexing, Basic, TypeOK
<1>2. \A q \in Loops : /\ q # p => pc'[q] = "idle"
                       /\ pc'[q] \in {"idle", "timer", "notify"}
  BY <1>1, RunningFacts DEF Indexing, Basic, TypeOK
<1>3. /\ h \in Nat /\ D \subseteq Nat
      /\ MaxReorgDepth \in Nat /\ MaxReorgDepth > 0
      /\ \A g \in D : g < h
      /\ D # {} => LatestHeight \in D /\ h = LatestHeight + 1
  <2>1. /\ h \in Nat /\ D \subseteq Nat
        /\ MaxReorgDepth \in Nat /\ MaxReorgDepth > 0
    BY LatestFacts, LoopAssumption DEF Basic, TypeOK
  <2>2. D # {} => LatestHeight \in D /\ h = LatestHeight + 1
    BY LatestFacts DEF Basic, NextHeight
  <2>3. \A g \in D : g <= LatestHeight
    BY LatestFacts DEF Basic
  <2> QED BY <2>1, <2>2, <2>3
<1>4. /\ DOMAIN block_header' = {g \in D \cup {h} : g > h - MaxReorgDepth}
      /\ block_header'[h] = b
      /\ \A g \in DOMAIN block_header' : g # h => block_header'[g] = block_header[g]
  BY <1>1, <1>3 DEF Pruned, Put, Restrict, Retained
<1> HIDE DEF h, D
<1>5. h \in DOMAIN block_header' /\ \A g \in DOMAIN block_header' : g <= h
  <2>1. h > h - MaxReorgDepth
    BY <1>3
  <2>2. \A g \in D \cup {h} : g <= h
    BY <1>3
  <2> QED BY <1>4, <2>1, <2>2
<1>6. LatestHeight' = h
  <2>1. DOMAIN block_header' \in SUBSET Nat
    BY <1>3, <1>4
  <2>2. /\ Max(DOMAIN block_header') \in DOMAIN block_header'
        /\ \A g \in DOMAIN block_header' : g <= Max(DOMAIN block_header')
    BY <1>3, <1>5, <2>1, MaxOfBounded
  <2> QED BY <1>5, <2>1, <2>2 DEF LatestHeight
<1>7. LatestBlock' = b /\ NextHeight' = h + 1
  BY <1>4, <1>5, <1>6 DEF LatestBlock, NextHeight
<1>8. /\ b \in Block /\ HeightOf[b] = h /\ b # NoBlock
      /\ LatestBlock = NoBlock <=> D = {}
      /\ LatestBlock # NoBlock => LatestBlock \in Block
      /\ D # {} => LatestBlock = block_header[LatestHeight]
      /\ Prev[b] = LatestBlock
  BY LatestFacts, BlockTreeAssumption DEF Indexing, Basic, h, D, LatestBlock
<1>9. Indexed' = Indexed \cup {b} /\ Indexed' = Chain[b]
  BY <1>7, <1>8, BlockTreeAssumption DEF Indexed
<1>10. OneLoop'
  BY <1>2 DEF OneLoop
<1>11. \A q \in Loops : FrameFresh(q)'
  BY <1>2 DEF FrameFresh
<1>12. LinkedWindow'
  <2> SUFFICES ASSUME NEW g \in DOMAIN block_header'
      PROVE  /\ HeightOf[block_header'[g]] = g
             /\ g > h - MaxReorgDepth
             /\ g..h \subseteq DOMAIN block_header'
             /\ g # h => Prev[block_header'[g + 1]] = block_header'[g]
    BY <1>6 DEF LinkedWindow
  <2>1. CASE g = h
    BY <1>3, <1>4, <1>5, <1>8, <2>1
  <2>2. CASE g # h
    <3>0. g \in D
      BY <1>4, <2>2
    <3>1. /\ g \in D /\ g \in Nat /\ g < h
          /\ LatestHeight \in Nat /\ h = LatestHeight + 1
      BY <1>3, <3>0
    <3>2. /\ HeightOf[block_header[g]] = g
          /\ g..LatestHeight \subseteq D
          /\ g # LatestHeight => Prev[block_header[g + 1]] = block_header[g]
      BY <3>1 DEF Ordered, LinkedWindow, D
    <3>3. g > h - MaxReorgDepth
      BY <1>4
    <3>4. g..h \subseteq DOMAIN block_header'
      BY <1>3, <1>4, <3>1, <3>2, <3>3
    <3>5. CASE g = LatestHeight
      <4>1. g + 1 = h /\ D # {}
        BY <3>1, <3>5
      <4>2. block_header'[g + 1] = b /\ block_header'[g] = block_header[g]
        BY <1>4, <2>2, <4>1
      <4>3. Prev[b] = block_header[g]
        BY <1>8, <3>5, <4>1
      <4> QED BY <3>2, <3>3, <3>4, <4>2, <4>3
    <3>6. CASE g # LatestHeight
      <4>1. g + 1 \in DOMAIN block_header' /\ g + 1 # h
        BY <1>3, <3>1, <3>4, <3>6
      <4> QED BY <1>4, <2>2, <3>2, <3>3, <3>4, <3>6, <4>1
    <3> QED BY <3>5, <3>6
  <2> QED BY <2>1, <2>2
<1>13. OneBranch'
  <2> SUFFICES ASSUME NEW g \in DOMAIN block_header'
      PROVE  block_header'[g] \in Chain[b]
    BY <1>7 DEF OneBranch
  <2>1. CASE g = h
    BY <1>4, <1>8, <2>1, BlockTreeAssumption
  <2>2. CASE g # h
    <3>1. g \in D /\ block_header'[g] = block_header[g]
      BY <1>4, <2>2
    <3>2. block_header[g] \in Chain[LatestBlock]
      BY <3>1 DEF Ordered, OneBranch, D
    <3> QED BY <1>8, <3>1, <3>2, BlockTreeAssumption
  <2> QED BY <2>1, <2>2
<1>14. r = SegmentsOf(b)
  <2>1. Outcalls[b] \in Nat
    BY <1>8, LoopAssumption
  <2> QED BY <2>1 DEF Indexing, SegmentsOf
<1>15. RecordsMatch'
  <2>1. DOMAIN change_record = D /\ \A g \in D : change_record[g] = SegmentsOf(block_header[g])
    BY DEF Ordered, RecordsMatch, D
  <2>2. /\ DOMAIN change_record' = {g \in D \cup {h} : g > h - MaxReorgDepth}
        /\ change_record'[h] = r
        /\ \A g \in DOMAIN change_record' : g # h => change_record'[g] = change_record[g]
    <3> HIDE DEF r
    <3> QED BY <1>1, <1>3, <2>1 DEF Pruned, Put, Restrict, Retained
  <2> HIDE DEF r
  <2> QED BY <1>4, <1>14, <2>1, <2>2 DEF RecordsMatch
<1>16. Whole'
  <2>1. statistic \cup {h} = D \cup {h}
    BY DEF Indexing, h, D
  <2> QED BY <1>1, <1>4, <2>1 DEF Whole, Retained
<1>17. StatisticMatches'
  BY <1>2, <1>16 DEF StatisticMatches
<1>18. LedgerMatches'
  <2>1. ASSUME NEW c \in Block, NEW s \in SegmentsOf(c)
        PROVE  ledger'[s] = IF c \in Indexed' THEN 1 ELSE 0
    <3>1. ledger'[s] = IF c \in Indexed \/ s \in r THEN 1 ELSE 0
      BY <1>0
    <3>2. s \in r <=> c = b
      <4> HIDE DEF r
      <4> QED BY <1>8, <1>14, SegmentFacts
    <3> HIDE DEF r
    <3> QED BY <1>9, <3>1, <3>2
  <2> QED BY <1>2, <2>1 DEF LedgerMatches
<1> QED
  BY <1>10, <1>11, <1>12, <1>13, <1>15, <1>17, <1>18 DEF Ordered

(* What handle_reorg finds and what it leaves: a is the common ancestor.   *)
LEMMA RollBackFacts ==
  ASSUME Basic, Ordered, NEW p \in Loops, pc[p] = "ancestor", RollBack(p),
         NEW a, a = frame[p].height - frame[p].depth
  PROVE  /\ a \in DOMAIN block_header /\ a \in Nat
         /\ LatestHeight \in DOMAIN block_header /\ LatestHeight \in Nat
         /\ a <= LatestHeight
         /\ LatestBlock = block_header[LatestHeight] /\ LatestBlock \in Block
         /\ RolledBack(frame[p].height, frame[p].depth) = (a + 1)..LatestHeight
         /\ DOMAIN block_header' = {g \in DOMAIN block_header : g <= a}
         /\ \A g \in DOMAIN block_header' : block_header'[g] = block_header[g]
         /\ LatestHeight' = a
         /\ LatestBlock' = block_header[a]
<1> DEFINE D == DOMAIN block_header
           H == RolledBack(frame[p].height, frame[p].depth)
<1>1. /\ a \in D /\ a \in Nat /\ frame[p].height = NextHeight
      /\ frame[p].depth \in Nat
  BY LoopAssumption DEF Ordered, FrameFresh, Basic, TypeOK, FrameShape
<1>2. /\ LatestHeight \in D /\ LatestHeight \in Nat
      /\ \A g \in D : g <= LatestHeight
      /\ NextHeight = LatestHeight + 1
      /\ LatestBlock = block_header[LatestHeight] /\ LatestBlock \in Block
  BY <1>1, LatestFacts DEF Basic, TypeOK, NextHeight, LatestBlock
<1>3. H = (a + 1)..LatestHeight
  BY <1>1, <1>2 DEF RolledBack
<1>4. block_header' = Restrict(block_header, D \ H)
  BY DEF RollBack
<1>5. D \ H = {g \in D : g <= a}
  <2>1. \A g \in D : g \in Nat /\ g <= LatestHeight
    BY <1>2 DEF Basic, TypeOK
  <2> QED BY <1>1, <1>2, <1>3, <2>1
<1>6. /\ DOMAIN block_header' = {g \in D : g <= a}
      /\ \A g \in DOMAIN block_header' : block_header'[g] = block_header[g]
  BY <1>4, <1>5 DEF Restrict
<1>7. LatestHeight' = a
  <2>1. DOMAIN block_header' \in SUBSET Nat /\ a \in DOMAIN block_header'
    BY <1>1, <1>6 DEF Basic, TypeOK
  <2>2. /\ Max(DOMAIN block_header') \in DOMAIN block_header'
        /\ \A g \in DOMAIN block_header' : g <= Max(DOMAIN block_header')
    BY <1>1, <1>6, <2>1, MaxOfBounded
  <2>3. Max(DOMAIN block_header') <= a /\ a <= Max(DOMAIN block_header')
    BY <1>6, <2>1, <2>2
  <2>4. Max(DOMAIN block_header') \in Nat
    BY <2>1, <2>2
  <2> QED BY <1>1, <2>3, <2>4 DEF LatestHeight
<1>8. LatestBlock' = block_header[a]
  BY <1>1, <1>6, <1>7 DEF LatestBlock
<1> QED BY <1>1, <1>2, <1>3, <1>6, <1>7, <1>8

(* The retained blocks below another one are its ancestors.                *)
LEMMA BranchFacts ==
  ASSUME Basic, Ordered, NEW a \in DOMAIN block_header
  PROVE  /\ Chain[block_header[a]] = {c \in Chain[LatestBlock] : HeightOf[c] <= a}
         /\ \A c \in Chain[LatestBlock] :
              HeightOf[c] = a => c = block_header[a]
<1>1. LatestBlock \in Block /\ block_header[a] \in Chain[LatestBlock]
  BY LatestFacts DEF Ordered, OneBranch, Basic
<1>2. HeightOf[block_header[a]] = a
  BY DEF Ordered, LinkedWindow
<1> QED BY <1>1, <1>2, AncestryAssumption

(* A rollback leaves the window, its records and the ledger of the common  *)
(* ancestor.                                                               *)
LEMMA OrderedRollBack ==
  ASSUME Basic, Ordered, NEW p \in Loops, pc[p] = "ancestor",
         RollBack(p), Reschedule(p)
  PROVE  Ordered'
<1> DEFINE a == frame[p].height - frame[p].depth
           D == DOMAIN block_header
           H == RolledBack(frame[p].height, frame[p].depth)
<1>1. /\ a \in D /\ a \in Nat
      /\ LatestHeight \in D /\ LatestHeight \in Nat
      /\ a <= LatestHeight
      /\ LatestBlock = block_header[LatestHeight] /\ LatestBlock \in Block
      /\ H = (a + 1)..LatestHeight
      /\ DOMAIN block_header' = {g \in D : g <= a}
      /\ \A g \in DOMAIN block_header' : block_header'[g] = block_header[g]
      /\ LatestHeight' = a
      /\ LatestBlock' = block_header[a]
  BY RollBackFacts
<1>2. /\ ledger' = Undone(H)
      /\ change_record' = Restrict(change_record, D \ H)
      /\ statistic' = statistic \ H
      /\ block_header' = Restrict(block_header, D \ H)
  BY DEF RollBack, Ordered, RecordsMatch
<1> HIDE DEF a, H
<1>3. \A q \in Loops : pc'[q] \in {"idle", "timer"} /\ (q # p => pc'[q] = "idle")
  BY RunningFacts DEF Reschedule, Basic, TypeOK
<1>4. OneLoop' /\ \A q \in Loops : FrameFresh(q)'
  BY <1>3 DEF OneLoop, FrameFresh
<1>5. Chain[block_header[a]] = {c \in Chain[LatestBlock] : HeightOf[c] <= a}
  BY <1>1, BranchFacts
<1>6. LinkedWindow'
  <2> SUFFICES ASSUME NEW g \in DOMAIN block_header'
      PROVE  /\ HeightOf[block_header'[g]] = g
             /\ g > a - MaxReorgDepth
             /\ g..a \subseteq DOMAIN block_header'
             /\ g # a => Prev[block_header'[g + 1]] = block_header'[g]
    BY <1>1 DEF LinkedWindow
  <2>1. /\ g \in D /\ g \in Nat /\ g <= a
        /\ block_header'[g] = block_header[g]
    BY <1>1 DEF Basic, TypeOK
  <2>2. /\ HeightOf[block_header[g]] = g
        /\ g > LatestHeight - MaxReorgDepth
        /\ g..LatestHeight \subseteq D
        /\ g # LatestHeight => Prev[block_header[g + 1]] = block_header[g]
    BY <2>1 DEF Ordered, LinkedWindow
  <2>3. g > a - MaxReorgDepth
    BY <1>1, <2>1, <2>2, LoopAssumption
  <2>4. g..a \subseteq DOMAIN block_header'
    BY <1>1, <2>1, <2>2
  <2>5. CASE g # a
    <3>1. g + 1 \in DOMAIN block_header' /\ g # LatestHeight
      BY <1>1, <2>1, <2>4, <2>5
    <3> QED BY <1>1, <2>1, <2>2, <2>3, <2>4, <3>1
  <2> QED BY <2>1, <2>2, <2>3, <2>4, <2>5
<1>7. OneBranch'
  <2> SUFFICES ASSUME NEW g \in DOMAIN block_header'
      PROVE  block_header'[g] \in Chain[block_header[a]]
    BY <1>1 DEF OneBranch
  <2>1. g \in D /\ g <= a /\ block_header'[g] = block_header[g]
    BY <1>1
  <2>2. block_header[g] \in Chain[LatestBlock] /\ HeightOf[block_header[g]] = g
    BY <2>1 DEF Ordered, OneBranch, LinkedWindow
  <2> QED BY <1>5, <2>1, <2>2
<1>8. RecordsMatch'
  BY <1>2 DEF Ordered, RecordsMatch, Restrict
<1>9. Whole /\ Whole'
  <2>1. Whole
    BY RunningFacts
  <2> QED BY <1>2, <2>1 DEF Whole, Restrict
<1>10. StatisticMatches'
  BY <1>3, <1>9 DEF StatisticMatches
<1>11. LedgerMatches'
  <2>1. ASSUME NEW c \in Block, NEW s \in SegmentsOf(c)
        PROVE  ledger'[s] = IF c \in Indexed' THEN 1 ELSE 0
    <3>1. /\ s \in Segment
          /\ ledger[s] = IF c \in Chain[LatestBlock] THEN 1 ELSE 0
          /\ c \in Indexed' <=> c \in Chain[LatestBlock] /\ HeightOf[c] <= a
      <4>1. Indexed = Chain[LatestBlock] /\ Indexed' = Chain[block_header[a]]
        BY <1>1, BlockTreeAssumption DEF Indexed, Basic, TypeOK
      <4> QED BY <1>5, <1>9, <4>1, SegmentFacts DEF Ordered, LedgerMatches
    <3>2. (\E g \in H \cap DOMAIN change_record : s \in change_record[g])
            <=> \E g \in H \cap D : c = block_header[g]
      <4>1. \A g \in D : block_header[g] \in Block
        BY DEF Basic, TypeOK
      <4> QED BY <4>1, SegmentFacts DEF Ordered, RecordsMatch
    <3>3. ledger'[s] = IF \E g \in H \cap D : c = block_header[g]
                       THEN ledger[s] - 1 ELSE ledger[s]
      BY <1>2, <3>1, <3>2 DEF Undone
    <3>4. (\E g \in H \cap D : c = block_header[g])
            <=> c \in Chain[LatestBlock] /\ HeightOf[c] > a
      <4>1. ASSUME NEW g \in H \cap D, c = block_header[g]
            PROVE  c \in Chain[LatestBlock] /\ HeightOf[c] > a
        BY <1>1, <4>1 DEF Ordered, OneBranch, LinkedWindow
      <4>2. ASSUME c \in Chain[LatestBlock], HeightOf[c] > a
            PROVE  \E g \in H \cap D : c = block_header[g]
        <5>1. HeightOf[c] \in Nat /\ HeightOf[c] <= LatestHeight
          BY <1>1, <4>2, BlockTreeAssumption, AncestryAssumption
             DEF Ordered, LinkedWindow
        <5>2. a..LatestHeight \subseteq D
          BY <1>1 DEF Ordered, LinkedWindow
        <5>3. HeightOf[c] \in H \cap D
          BY <1>1, <4>2, <5>1, <5>2
        <5> QED BY <4>2, <5>3, BranchFacts
      <4> QED BY <4>1, <4>2
    <3>5. HeightOf[c] \in Nat
      BY BlockTreeAssumption
    <3>6. HeightOf[c] <= a <=> ~ (HeightOf[c] > a)
      BY <1>1, <3>5
    <3> QED BY <3>1, <3>3, <3>4, <3>6
  <2> QED BY <1>3, <2>1 DEF LedgerMatches
<1> QED BY <1>4, <1>6, <1>7, <1>8, <1>10, <1>11 DEF Ordered

-----------------------------------------------------------------------------
(* Ordered is kept by every step after which the indexer is orderly.       *)

(* A block that arrives unforked is the next block of the indexed chain.   *)
LEMMA ArrivalIndexing ==
  ASSUME Basic, Ordered, NEW p \in Loops, NEW b \in Block,
         BlockArrives(p, b), ~Forked(p, b)
  PROVE  Indexing(p, b) /\ IndexSegment(p, b)
<1>1. /\ pc[p] = "block" /\ HeightOf[b] = frame[p].height
      /\ frame[p].height = NextHeight /\ frame[p].prev = LatestBlock
      /\ frame[p].segment = 0 /\ frame[p].record = {}
  BY DEF BlockArrives, Verified, Basic, FrameShape, Ordered, FrameFresh
<1>2. Prev[b] = LatestBlock
  <2>1. CASE LatestBlock # NoBlock
    BY <1>1, <2>1 DEF Forked
  <2>2. CASE LatestBlock = NoBlock
    <3>1. HeightOf[b] = FirstHeight
      BY <1>1, <2>2, LatestFacts DEF NextHeight, Basic
    <3> QED BY <2>2, <3>1, BlockTreeAssumption
  <2> QED BY <2>1, <2>2
<1>3. Whole
  BY <1>1, RunningFacts
<1>4. /\ frame[p].segment \in 0..Outcalls[b]
      /\ frame[p].record = {<<b, k>> : k \in 0..(frame[p].segment - 1)}
  BY <1>1, LoopAssumption
<1>5. Indexing(p, b)
  BY <1>1, <1>2, <1>3, <1>4 DEF Indexing, Whole, Ordered, LedgerMatches
<1> QED BY <1>5 DEF BlockArrives

(* A commit that is answered resumes the next block of the indexed chain.  *)
LEMMA CommitIndexing ==
  ASSUME Basic, Ordered, NEW p \in Loops, CommitAnswered(p)
  PROVE  Indexing(p, frame[p].block) /\ IndexSegment(p, frame[p].block)
<1>1. /\ pc[p] = "commit"
      /\ frame[p].block \in Block
      /\ frame[p].height = HeightOf[frame[p].block]
      /\ frame[p].segment \in 0..Outcalls[frame[p].block]
      /\ frame[p].record =
           {<<frame[p].block, k>> : k \in 0..(frame[p].segment - 1)}
  BY DEF CommitAnswered, Basic, TypeOK, FrameShape
<1>2. /\ frame[p].height = NextHeight /\ frame[p].prev = LatestBlock
      /\ Prev[frame[p].block] = LatestBlock
  BY <1>1 DEF Ordered, FrameFresh
<1>3. statistic = DOMAIN block_header \cup {NextHeight}
  BY <1>1, RunningFacts
<1>4. \A c \in Block : \A s \in SegmentsOf(c) :
        ledger[s] = IF c \in Indexed \/ s \in frame[p].record THEN 1 ELSE 0
  BY <1>1 DEF Ordered, LedgerMatches
<1> QED BY <1>1, <1>2, <1>3, <1>4 DEF Indexing, CommitAnswered

(* One segment, whether it is the last of its block or not.                *)
LEMMA OrderedIndexSegment ==
  ASSUME Basic, Ordered, NEW p \in Loops, NEW b, Indexing(p, b),
         IndexSegment(p, b)
  PROVE  Ordered'
<1>1. frame[p].segment \in Nat /\ Outcalls[b] \in Nat
  BY LoopAssumption DEF Indexing
<1>2. CASE frame[p].segment = Outcalls[b]
  <2>1. /\ ledger' = [ledger EXCEPT ![<<b, frame[p].segment>>] = @ + 1]
        /\ FinishBlock(p, b, frame[p].record \cup {<<b, frame[p].segment>>})
    BY <1>1, <1>2 DEF IndexSegment, Recorded
  <2> QED BY <1>2, <2>1, OrderedFinish
<1>3. CASE frame[p].segment < Outcalls[b]
  <2>1. /\ ledger' = [ledger EXCEPT ![<<b, frame[p].segment>>] = @ + 1]
        /\ statistic' = statistic \cup {frame[p].height}
        /\ pc' = [pc EXCEPT ![p] = "commit"]
        /\ frame' = [frame EXCEPT ![p] =
             [frame[p] EXCEPT !.block = b,
                              !.record = frame[p].record
                                           \cup {<<b, frame[p].segment>>},
                              !.segment = frame[p].segment + 1]]
        /\ UNCHANGED <<block_header, change_record>>
    BY <1>1, <1>3 DEF IndexSegment, Recorded
  <2> QED BY <1>3, <2>1, OrderedSuspend
<1> QED BY <1>1, <1>2, <1>3 DEF Indexing

(* Another turn of the depth loop, or giving up, touches no map.           *)
LEMMA OrderedProbe ==
  ASSUME Basic, Ordered, NEW p \in Loops, NEW d \in Nat \ {0},
         pc[p] \in {"block", "ancestor"}, Probe(p, d), UNCHANGED store
  PROVE  Ordered'
<1> DEFINE c == frame[p].height - d
           f == [frame[p] EXCEPT !.depth = d, !.indexed = block_header[c]]
<1>1. CASE Recoverable(p, d)
  <2>1. pc' = [pc EXCEPT ![p] = "ancestor"] /\ frame' = [frame EXCEPT ![p] = f]
    BY <1>1 DEF Probe
  <2>2. frame'[p] = f /\ pc'[p] = "ancestor"
    BY <2>1 DEF Basic, TypeOK
  <2>3. /\ f.height = frame[p].height /\ f.prev = frame[p].prev
        /\ f.depth = d /\ f.indexed = block_header[c]
    <3> HIDE DEF c
    <3> QED BY DEF Basic, TypeOK, Frame
  <2>4. /\ c \in DOMAIN block_header
        /\ frame[p].height = NextHeight /\ frame[p].prev = LatestBlock
    BY <1>1 DEF Recoverable, Ordered, FrameFresh
  <2> HIDE DEF f
  <2>5. FrameFresh(p)'
    BY <2>2, <2>3, <2>4
       DEF FrameFresh, NextHeight, LatestBlock, LatestHeight, store
  <2> QED BY <2>1, <2>5, OrderedAdvance DEF Pc, Await
<1>2. CASE ~Recoverable(p, d)
  BY <1>2, OrderedLoopEnds DEF Probe, Halt
<1> QED BY <1>1, <1>2

(* Every step of a loop that goes well.                                    *)
LEMMA OrderedProgress ==
  ASSUME Basic, Ordered, NEW p \in Loops, Progress(p)
  PROVE  Ordered'
<1>1. CASE TimerFires(p)
  <2> DEFINE f == [frame[p] EXCEPT !.height = NextHeight, !.prev = LatestBlock]
  <2>1. f.height = NextHeight /\ f.prev = LatestBlock
    BY DEF Basic, TypeOK, Frame
  <2>2. pc' = [pc EXCEPT ![p] = "hash"] /\ frame' = [frame EXCEPT ![p] = f]
    BY <1>1 DEF TimerFires
  <2>3. frame'[p] = f /\ pc'[p] = "hash"
    BY <2>2 DEF Basic, TypeOK
  <2>4. UNCHANGED store
    BY <1>1 DEF TimerFires
  <2> HIDE DEF f
  <2>5. FrameFresh(p)'
    BY <2>1, <2>3, <2>4
       DEF FrameFresh, NextHeight, LatestBlock, LatestHeight, store
  <2> QED BY <1>1, <2>2, <2>4, <2>5, OrderedAdvance DEF TimerFires, Pc, Await
<1>2. CASE HashFound(p)
  <2>1. PICK b : frame' = [frame EXCEPT ![p] = [frame[p] EXCEPT !.block = b]]
    BY <1>2 DEF HashFound
  <2>2. frame'[p].height = frame[p].height /\ frame'[p].prev = frame[p].prev
    BY <2>1 DEF Basic, TypeOK, Frame
  <2>3. pc' = [pc EXCEPT ![p] = "block"] /\ pc'[p] = "block" /\ UNCHANGED store
    BY <1>2 DEF HashFound, Basic, TypeOK
  <2>4. frame[p].height = NextHeight /\ frame[p].prev = LatestBlock
    BY <1>2 DEF HashFound, Ordered, FrameFresh
  <2>5. FrameFresh(p)'
    BY <2>2, <2>3, <2>4
       DEF FrameFresh, NextHeight, LatestBlock, LatestHeight, store
  <2> QED BY <1>2, <2>3, <2>5, OrderedAdvance DEF HashFound, Pc, Await
<1>3. CASE HashNotFound(p)
  BY <1>3, OrderedLoopEnds DEF HashNotFound, Reschedule
<1>4. ASSUME NEW b \in Block, BlockArrives(p, b) PROVE Ordered'
  <2>1. CASE Forked(p, b)
    BY <1>4, <2>1, OrderedProbe DEF BlockArrives
  <2>2. CASE ~Forked(p, b)
    <3>1. Indexing(p, b) /\ IndexSegment(p, b)
      BY <1>4, <2>2, ArrivalIndexing
    <3> QED BY <3>1, OrderedIndexSegment
  <2> QED BY <2>1, <2>2
<1>5. CASE AncestorAnswered(p)
  <2>1. frame[p].depth + 1 \in Nat \ {0}
    BY DEF Basic, TypeOK, Frame
  <2> QED BY <1>5, <2>1, OrderedProbe, OrderedRollBack DEF AncestorAnswered
<1>6. CASE CommitAnswered(p)
  BY <1>6, CommitIndexing, OrderedIndexSegment
<1>7. CASE Notified(p)
  <2>1. CASE frame[p].notified + 1 < Subscribers
    <3>1. pc' = [pc EXCEPT ![p] = "notify"] /\ pc'[p] = "notify"
      BY <1>7, <2>1, LoopAssumption DEF Notified, Basic, TypeOK, Frame
    <3> QED BY <1>7, <3>1, OrderedAdvance DEF Notified, FrameFresh, Pc, Await
  <2>2. CASE ~(frame[p].notified + 1 < Subscribers)
    BY <1>7, <2>2, OrderedLoopEnds DEF Notified, Reschedule
  <2> QED BY <2>1, <2>2
<1> QED BY <1>1, <1>2, <1>3, <1>4, <1>5, <1>6, <1>7 DEF Progress

(* Every step that leaves the indexer orderly.                             *)
LEMMA OrderedStep ==
  Basic /\ (orderly => Ordered) /\ [Next]_vars => (orderly => Ordered)'
<1> SUFFICES ASSUME Basic, orderly => Ordered, [Next]_vars, orderly'
             PROVE  Ordered'
  OBVIOUS
<1>1. orderly /\ Ordered
  BY DEF vars, Next, NewTip, Admin, Stop, Upgrade, Start, Progress,
     TimerFires, HashFound, HashNotFound, BlockArrives, AncestorAnswered,
     CommitAnswered, Notified, OutcallFails, HashFails, BlockFails,
     AncestorFails, CommitFails, Trap
<1>2. CASE UNCHANGED vars \/ NewTip \/ Stop
  <2>1. UNCHANGED <<store, pc, frame>>
    BY <1>2 DEF vars, NewTip, Stop
  <2> QED
    BY <1>1, <2>1 DEF store, Ordered, OneLoop, FrameFresh, LinkedWindow,
       OneBranch, RecordsMatch, StatisticMatches, LedgerMatches, Whole,
       Indexed, NextHeight, LatestBlock, LatestHeight
<1>3. CASE Upgrade
  <2>1. UNCHANGED store /\ \A q \in Loops : pc'[q] = "idle" /\ pc[q] # "commit"
    BY <1>3 DEF Upgrade
  <2>2. OneLoop' /\ \A q \in Loops : FrameFresh(q)'
    BY <2>1 DEF OneLoop, FrameFresh
  <2>3. StatisticMatches'
    BY <1>1, <2>1 DEF Ordered, StatisticMatches, Whole, NextHeight,
       LatestHeight, store
  <2>4. LedgerMatches'
    BY <1>1, <2>1 DEF Ordered, LedgerMatches, Whole, Indexed, LatestBlock,
       LatestHeight, store
  <2>5. LinkedWindow' /\ OneBranch' /\ RecordsMatch'
    BY <1>1, <2>1 DEF Ordered, LinkedWindow, OneBranch, RecordsMatch,
       LatestBlock, LatestHeight, store
  <2> QED BY <2>2, <2>3, <2>4, <2>5 DEF Ordered
<1>4. ASSUME NEW p \in Loops, Start(p) PROVE Ordered'
  <2>1. /\ UNCHANGED <<store, frame>> /\ Whole
        /\ \A q \in Loops : pc[q] = "idle" /\ pc'[q] # "commit"
        /\ \A q \in Loops : q # p => pc'[q] = "idle"
        /\ pc'[p] = "timer"
    BY <1>4 DEF Start, Basic, TypeOK
  <2>2. OneLoop' /\ \A q \in Loops : FrameFresh(q)'
    BY <2>1 DEF OneLoop, FrameFresh
  <2>3. StatisticMatches'
    BY <2>1 DEF StatisticMatches, Whole, store
  <2>4. LedgerMatches'
    BY <1>1, <2>1 DEF Ordered, LedgerMatches, Whole, Indexed, LatestBlock,
       LatestHeight, store
  <2>5. LinkedWindow' /\ OneBranch' /\ RecordsMatch'
    BY <1>1, <2>1 DEF Ordered, LinkedWindow, OneBranch, RecordsMatch,
       LatestBlock, LatestHeight, store
  <2> QED BY <2>2, <2>3, <2>4, <2>5 DEF Ordered
<1>5. ASSUME NEW p \in Loops, Progress(p) PROVE Ordered'
  BY <1>1, <1>5, OrderedProgress
<1>6. ASSUME NEW p \in Loops, OutcallFails(p) \/ Trap(p) PROVE Ordered'
  BY <1>1, <1>6, OrderedLoopEnds DEF OutcallFails, HashFails, BlockFails,
     AncestorFails, CommitFails, Trap, Reschedule, Halt
<1> QED BY <1>2, <1>3, <1>4, <1>5, <1>6 DEF Next, Admin

-----------------------------------------------------------------------------
(* The inductive invariant holds in every reachable state.                 *)
THEOREM InductiveInvariant == Spec => []Inductive
<1>1. Init => Inductive
  BY BasicInit, OrderedInit DEF Inductive
<1>2. Inductive /\ [Next]_vars => Inductive'
  BY BasicStep, OrderedStep DEF Inductive
<1> QED BY <1>1, <1>2, PTL DEF Spec

(* The retained headers always form one linked window of bounded length.   *)
THEOREM WindowIsLinked == Spec => []WindowLinked
<1>1. Inductive => WindowLinked
  BY DEF Inductive, Ordered, WindowLinked
<1> QED BY <1>1, InductiveInvariant, PTL

(* Whatever can be rolled back has a complete change record.               *)
THEOREM RecordsAreComplete == Spec => []RecordsComplete
<1>1. Inductive => RecordsComplete
  BY DEF Inductive, Ordered, RecordsMatch, RecordsComplete
<1> QED BY <1>1, InductiveInvariant, PTL

(* After any reorganisations, failures and restarts the rune maps are a    *)
(* replay of the indexed chain.                                            *)
THEOREM ReplayOfChain == Spec => []LedgerIsReplay
<1>1. Inductive => LedgerIsReplay
  BY DEF Inductive, Ordered, LedgerMatches, LedgerIsReplay
<1> QED BY <1>1, InductiveInvariant, PTL

(* The leftovers of a half indexed block are met by no later step.         *)
THEOREM HalfBlocksAreIsolated == Spec => []HalfBlockIsolated
<1>1. Inductive => HalfBlockIsolated
  <2> SUFFICES ASSUME Inductive, orderly, ~Whole
               PROVE  /\ statistic = DOMAIN block_header \cup {NextHeight}
                      /\ \A p \in Loops : pc[p] \in {"idle", "commit"}
    BY DEF HalfBlockIsolated
  <2>1. StatisticMatches /\ OneLoop
    BY DEF Inductive, Ordered
  <2> QED BY <2>1 DEF StatisticMatches, OneLoop
<1> QED BY <1>1, InductiveInvariant, PTL

-----------------------------------------------------------------------------
(* Finality.                                                               *)

(* The final blocks are the indexed ones up to the floor.                  *)
LEMMA FinalFacts ==
  ASSUME Basic, Ordered, DOMAIN block_header # {}
  PROVE  /\ FloorHeight \in DOMAIN block_header
         /\ \A g \in DOMAIN block_header : FloorHeight <= g
         /\ Final \subseteq Indexed /\ Final \subseteq Block
         /\ \A c \in Final : HeightOf[c] <= FloorHeight
<1>1. /\ FloorHeight \in DOMAIN block_header
      /\ \A g \in DOMAIN block_header : FloorHeight <= g
  BY MinOfNats DEF FloorHeight, Basic, TypeOK
<1>2. Final = {c \in Chain[LatestBlock] : HeightOf[c] <= FloorHeight}
  BY <1>1, BranchFacts DEF Final
<1>3. LatestBlock # NoBlock /\ LatestBlock \in Block
  BY LatestFacts DEF Basic
<1> QED BY <1>1, <1>2, <1>3, BlockTreeAssumption DEF Indexed

(* Indexing one more segment leaves the final blocks alone.                *)
LEMMA FinalityIndexSegment ==
  ASSUME Basic, Ordered, NEW p \in Loops, NEW b, Indexing(p, b),
         IndexSegment(p, b), DOMAIN block_header # {}
  PROVE  KeepsFinal
<1>1. \A c \in Final : \A s \in SegmentsOf(c) : ledger'[s] = ledger[s]
  <2> SUFFICES ASSUME NEW c \in Final, NEW s \in SegmentsOf(c)
               PROVE  ledger'[s] = ledger[s]
    OBVIOUS
  <2>1. ledger' = [ledger EXCEPT ![<<b, frame[p].segment>>] = @ + 1]
    BY DEF IndexSegment, Recorded
  <2>2. c # b
    BY FinalFacts, NextNotIndexed DEF Indexing
  <2>3. s # <<b, frame[p].segment>> /\ s \in Segment
    BY <2>2, FinalFacts, SegmentFacts
  <2> QED BY <2>1, <2>3 DEF Basic, TypeOK
<1>2. /\ DOMAIN block_header' # {}
      /\ DOMAIN block_header' \subseteq DOMAIN block_header \cup {NextHeight}
  <2>1. CASE UNCHANGED block_header
    BY <2>1
  <2>2. CASE ~ UNCHANGED block_header
    <3>1. block_header' = Pruned(Put(block_header, NextHeight, b), NextHeight)
      BY <2>2 DEF IndexSegment, Recorded, FinishBlock, Indexing
    <3>2. NextHeight \in Nat /\ NextHeight > NextHeight - MaxReorgDepth
      BY LatestFacts, LoopAssumption DEF Basic
    <3> QED BY <3>1, <3>2 DEF Pruned, Put, Restrict, Retained
  <2> QED BY <2>1, <2>2
<1>3. FloorHeight <= FloorHeight'
  <2>1. \A g \in DOMAIN block_header : FloorHeight <= g
    BY FinalFacts
  <2>2. FloorHeight <= NextHeight /\ NextHeight \in Nat
    <3>1. FloorHeight <= LatestHeight /\ NextHeight = LatestHeight + 1
      BY <2>1, LatestFacts DEF Basic, NextHeight
    <3>2. FloorHeight \in Nat /\ LatestHeight \in Nat
      BY FinalFacts, LatestFacts DEF Basic, TypeOK
    <3> QED BY <3>1, <3>2
  <2>3. DOMAIN block_header' \in SUBSET Nat
    BY <1>2, <2>2 DEF Basic, TypeOK
  <2>4. FloorHeight' \in DOMAIN block_header'
    BY <1>2, <2>3, MinOfNats DEF FloorHeight
  <2> QED BY <1>2, <2>1, <2>2, <2>4
<1> QED BY <1>1, <1>2, <1>3 DEF KeepsFinal

(* A rollback ends above the floor.                                        *)
LEMMA FinalityRollBack ==
  ASSUME Basic, Ordered, NEW p \in Loops, pc[p] = "ancestor", RollBack(p)
  PROVE  KeepsFinal
<1> DEFINE a == frame[p].height - frame[p].depth
           D == DOMAIN block_header
           H == RolledBack(frame[p].height, frame[p].depth)
<1>1. /\ a \in D /\ a \in Nat /\ LatestHeight \in Nat
      /\ H = (a + 1)..LatestHeight
      /\ DOMAIN block_header' = {g \in D : g <= a}
  BY RollBackFacts
<1>2. ledger' = Undone(H)
  BY DEF RollBack
<1> HIDE DEF a, H
<1>3. D \subseteq Nat /\ D # {} /\ FloorHeight \in D /\ FloorHeight <= a
  BY <1>1, FinalFacts DEF Basic, TypeOK
<1>4. DOMAIN block_header' # {} /\ FloorHeight <= FloorHeight'
  <2>1. DOMAIN block_header' \in SUBSET Nat /\ DOMAIN block_header' # {}
    BY <1>1, <1>3
  <2>2. FloorHeight' \in DOMAIN block_header'
    BY <2>1, MinOfNats DEF FloorHeight
  <2> QED BY <1>1, <1>3, <2>1, <2>2, FinalFacts
<1>5. ASSUME NEW c \in Final, NEW s \in SegmentsOf(c)
      PROVE  ledger'[s] = ledger[s]
  <2>1. c \in Block /\ s \in Segment /\ s[1] = c /\ HeightOf[c] <= FloorHeight
    BY <1>3, FinalFacts, SegmentFacts
  <2>2. HeightOf[c] \in Nat /\ HeightOf[c] <= a
    BY <1>1, <1>3, <2>1, BlockTreeAssumption
  <2>3. ASSUME NEW g \in H \cap DOMAIN change_record, s \in change_record[g]
        PROVE  FALSE
    <3>1. g \in D /\ g > a /\ g \in Nat
      BY <1>1, <1>3 DEF Ordered, RecordsMatch
    <3>2. s \in SegmentsOf(block_header[g]) /\ block_header[g] \in Block
      BY <2>3, <3>1 DEF Ordered, RecordsMatch, Basic, TypeOK
    <3>3. c = block_header[g] /\ HeightOf[block_header[g]] = g
      BY <2>1, <3>1, <3>2, SegmentFacts DEF Ordered, LinkedWindow
    <3> QED BY <1>1, <2>2, <3>1, <3>3
  <2> QED BY <1>2, <2>1, <2>3 DEF Undone
<1> QED BY <1>4, <1>5 DEF KeepsFinal

(* Every step keeps the final blocks.                                      *)
LEMMA FinalityStep == Inductive /\ [Next]_vars => [KeepsFinal]_vars
<1> SUFFICES ASSUME Inductive, [Next]_vars, orderly', DOMAIN block_header # {},
                    ~ UNCHANGED vars
             PROVE  KeepsFinal
  BY DEF KeepsFinal
<1>1. Basic /\ Ordered
  BY DEF Inductive, vars, Next, NewTip, Admin, Stop, Upgrade, Start, Progress,
     TimerFires, HashFound, HashNotFound, BlockArrives, AncestorAnswered,
     CommitAnswered, Notified, OutcallFails, HashFails, BlockFails,
     AncestorFails, CommitFails, Trap
<1>2. CASE UNCHANGED store
  <2>1. /\ UNCHANGED <<block_header, ledger>>
        /\ FloorHeight' = FloorHeight /\ FloorHeight \in Nat
    BY <1>1, <1>2, FinalFacts DEF store, FloorHeight, Basic, TypeOK
  <2> QED BY <2>1 DEF KeepsFinal
<1>3. ASSUME NEW p \in Loops, NEW b \in Block, BlockArrives(p, b),
             ~Forked(p, b)
      PROVE  KeepsFinal
  BY <1>1, <1>3, ArrivalIndexing, FinalityIndexSegment
<1>4. ASSUME NEW p \in Loops, CommitAnswered(p) PROVE KeepsFinal
  BY <1>1, <1>4, CommitIndexing, FinalityIndexSegment
<1>5. ASSUME NEW p \in Loops, pc[p] = "ancestor", RollBack(p) PROVE KeepsFinal
  BY <1>1, <1>5, FinalityRollBack
<1> QED
  BY <1>2, <1>3, <1>4, <1>5
     DEF Next, NewTip, Admin, Stop, Upgrade, Start, Progress, TimerFires,
     HashFound, HashNotFound, BlockArrives, AncestorAnswered, Notified,
     OutcallFails, HashFails, BlockFails, AncestorFails, CommitFails, Trap

(* Nothing at or below the floor of the window is ever undone or repeated, *)
(* and the floor never sinks.                                              *)
THEOREM FloorIsFinal == Spec => FinalityKept
BY InductiveInvariant, FinalityStep, PTL DEF Spec, FinalityKept

-----------------------------------------------------------------------------
(* Giving up.                                                              *)

(* The height at which the depth loop ends without an ancestor is the      *)
(* lowest retained one.                                                    *)
LEMMA LastProbeIsFloor ==
  ASSUME Basic, Ordered, NEW p \in Loops, pc[p] = "ancestor",
         ~Recoverable(p, frame[p].depth + 1)
  PROVE  \A h \in DOMAIN block_header : frame[p].height - frame[p].depth <= h
<1> DEFINE a == frame[p].height - frame[p].depth
           D == DOMAIN block_header
<1>1. /\ a \in D /\ D \subseteq Nat
      /\ frame[p].height = NextHeight /\ frame[p].height \in Nat
      /\ frame[p].depth \in 1..MaxReorgDepth /\ frame[p].depth \in Nat
      /\ LatestHeight \in D /\ NextHeight = LatestHeight + 1
  <2>1. /\ a \in D /\ frame[p].height = NextHeight
        /\ frame[p].depth \in 1..MaxReorgDepth
    BY DEF Basic, FrameShape, Ordered, FrameFresh
  <2>2. LatestHeight \in D /\ NextHeight = LatestHeight + 1
    BY <2>1, LatestFacts DEF Basic, NextHeight
  <2> QED BY <2>1, <2>2 DEF Basic, TypeOK, Frame
<1>2. SUFFICES ASSUME NEW h \in D, h < a PROVE FALSE
  BY <1>1
<1>3. /\ h > LatestHeight - MaxReorgDepth
      /\ h..LatestHeight \subseteq D
  BY DEF Ordered, LinkedWindow
<1>4. frame[p].height - (frame[p].depth + 1) \in D
  BY <1>1, <1>2, <1>3
<1>5. frame[p].depth + 1 <= MaxReorgDepth
  BY <1>1, <1>2, <1>3, LoopAssumption
<1> QED BY <1>4, <1>5 DEF Recoverable

(* A running loop gives a reorganisation up only if no retained block is   *)
(* on the best chain: one that were would have the floor below it, and the *)
(* floor is what the last probe compared.                                  *)
THEOREM GivesUpOnlyBelowFloor == Spec => HaltsOnlyBelowFloor
<1> DEFINE A == \A p \in Loops :
                  /\ orderly
                  /\ AncestorAnswered(p)
                  /\ pc'[p] = "idle"
                  /\ ~shutting_down
                  => \A h \in DOMAIN block_header : block_header[h] \notin Chain[tip]
<1>1. Inductive /\ [Next]_vars => [A]_vars
  <2> SUFFICES ASSUME Inductive, orderly, ~shutting_down,
                      NEW p \in Loops, AncestorAnswered(p), pc'[p] = "idle",
                      NEW h \in DOMAIN block_header,
                      block_header[h] \in Chain[tip]
               PROVE  FALSE
    OBVIOUS
  <2> DEFINE a == frame[p].height - frame[p].depth
  <2>1. Basic /\ Ordered /\ pc[p] = "ancestor"
    BY DEF Inductive, AncestorAnswered
  <2>2. PICK b \in OnBestChain(a) :
          b # frame[p].indexed /\ Probe(p, frame[p].depth + 1)
    BY <2>1 DEF AncestorAnswered, Reschedule, Basic, TypeOK
  <2>3. \A g \in DOMAIN block_header : a <= g
    <3>1. ~Recoverable(p, frame[p].depth + 1)
      BY <2>1, <2>2 DEF Probe, Basic, TypeOK
    <3> QED BY <2>1, <3>1, LastProbeIsFloor
  <2>4. /\ a \in DOMAIN block_header /\ frame[p].indexed = block_header[a]
        /\ a \in Nat /\ h \in Nat /\ tip \in Block
    BY <2>1 DEF Ordered, FrameFresh, Basic, TypeOK
  <2>5. /\ block_header[a] \in Block /\ block_header[h] \in Block
        /\ LatestBlock \in Block
        /\ HeightOf[block_header[a]] = a /\ HeightOf[block_header[h]] = h
        /\ block_header[a] \in Chain[LatestBlock]
        /\ block_header[h] \in Chain[LatestBlock]
    <3>1. LatestBlock \in Block
      BY <2>1, LatestFacts DEF Basic
    <3> QED BY <2>1, <2>4, <3>1
            DEF Ordered, LinkedWindow, OneBranch, Basic, TypeOK
  <2>6. block_header[a] \in Chain[block_header[h]]
    BY <2>3, <2>5, AncestryAssumption
  <2>7. block_header[a] \in Chain[tip]
    BY <2>4, <2>5, <2>6, AncestryAssumption
  <2>8. b \in Chain[tip] /\ HeightOf[b] = a /\ b # block_header[a]
    BY <2>2, <2>4 DEF OnBestChain
  <2> QED BY <2>4, <2>5, <2>7, <2>8, AncestryAssumption
<1> QED BY <1>1, InductiveInvariant, PTL DEF Spec, HaltsOnlyBelowFloor

-----------------------------------------------------------------------------
(***************************************************************************)
(* IndexLoop implements ChainIndex, for every block tree, window depth and *)
(* distribution of outcalls, as long as every start() found the indexer at *)
(* rest.  The refinement mapping takes a block for applied when all of its *)
(* segments are; what makes it work is that the applied blocks are then    *)
(* the indexed branch also while a block is in progress or was abandoned.  *)
(***************************************************************************)
AppliedIsBranch == Applied = Indexed

(* No half indexed block, or a loop that is still at it.                   *)
Settled == Whole \/ \E p \in Loops : pc[p] = "commit"

-----------------------------------------------------------------------------
(* The applied blocks.                                                     *)

(* At rest, or inside a block, a block is applied as a whole or is not     *)
(* applied: the block in progress lacks its last segment.                  *)
LEMMA AppliedFacts == Basic /\ Ordered /\ Settled => AppliedIsBranch
<1> SUFFICES ASSUME Basic, Ordered, Settled PROVE Applied = Indexed
  BY DEF AppliedIsBranch
<1>1. Indexed \subseteq Block
  BY LatestFacts, BlockTreeAssumption DEF Basic, Indexed
<1>2. ASSUME NEW b \in Block, b \in Indexed PROVE b \in Applied
  <2>1. \A s \in SegmentsOf(b) : ledger[s] = 1
    BY <1>2 DEF Ordered, LedgerMatches, Settled
  <2> QED BY <2>1 DEF Applied
<1>3. ASSUME NEW b \in Block, b \notin Indexed PROVE b \notin Applied
  <2> DEFINE s == <<b, Outcalls[b]>>
  <2>1. s \in SegmentsOf(b)
    BY LoopAssumption, SegmentFacts
  <2>2. CASE Whole
    <3>1. ledger[s] = 0
      BY <1>3, <2>1, <2>2 DEF Ordered, LedgerMatches
    <3> QED BY <2>1, <3>1 DEF Applied
  <2>3. ASSUME NEW p \in Loops, pc[p] = "commit" PROVE b \notin Applied
    <3>1. s \notin frame[p].record
      <4>1. /\ frame[p].segment \in 1..Outcalls[frame[p].block]
            /\ frame[p].block \in Block
            /\ frame[p].record =
                 {<<frame[p].block, k>> : k \in 0..(frame[p].segment - 1)}
        BY <2>3 DEF Basic, TypeOK, FrameShape
      <4> QED BY <4>1, LoopAssumption
    <3>2. ledger[s] = 0
      BY <1>3, <2>1, <2>3, <3>1 DEF Ordered, LedgerMatches
    <3> QED BY <2>1, <3>2 DEF Applied
  <2> QED BY <2>2, <2>3 DEF Settled
<1> QED BY <1>1, <1>2, <1>3 DEF Applied

(* Finishing a block leaves it the latest one and the maps whole.          *)
LEMMA FinishFacts ==
  ASSUME Basic, Ordered, NEW p \in Loops, NEW b, Indexing(p, b), NEW r,
         FinishBlock(p, b, r)
  PROVE  /\ Whole'
         /\ LatestBlock' = b
         /\ LatestHeight' = NextHeight
         /\ NextHeight \in DOMAIN block_header'
         /\ \A g \in DOMAIN block_header' : g <= NextHeight
         /\ DOMAIN block_header' \subseteq DOMAIN block_header \cup {NextHeight}
         /\ \A g \in DOMAIN block_header' :
              g # NextHeight => block_header'[g] = block_header[g]
<1> DEFINE h == NextHeight
           D == DOMAIN block_header
<1>1. /\ block_header' = Pruned(Put(block_header, h, b), h)
      /\ statistic' = Retained(statistic \cup {h}, h)
  BY DEF FinishBlock, Indexing
<1>2. /\ h \in Nat /\ D \subseteq Nat /\ \A g \in D : g < h
      /\ h > h - MaxReorgDepth
  <2>1. h \in Nat /\ D \subseteq Nat /\ h > h - MaxReorgDepth
    BY LatestFacts, LoopAssumption DEF Basic, TypeOK
  <2>2. D # {} => LatestHeight \in D /\ h = LatestHeight + 1
    BY LatestFacts DEF Basic, NextHeight
  <2>3. \A g \in D : g <= LatestHeight
    BY LatestFacts DEF Basic
  <2> QED BY <2>1, <2>2, <2>3
<1>3. /\ DOMAIN block_header' = {g \in D \cup {h} : g > h - MaxReorgDepth}
      /\ block_header'[h] = b
      /\ \A g \in DOMAIN block_header' : g # h => block_header'[g] = block_header[g]
  BY <1>1, <1>2 DEF Pruned, Put, Restrict, Retained
<1>4. Whole'
  <2>1. statistic \cup {h} = D \cup {h}
    BY DEF Indexing
  <2> QED BY <1>1, <1>3, <2>1 DEF Whole, Retained
<1> HIDE DEF h, D
<1>5. h \in DOMAIN block_header' /\ \A g \in DOMAIN block_header' : g <= h
  <2>1. \A g \in D \cup {h} : g <= h
    BY <1>2
  <2> QED BY <1>2, <1>3, <2>1
<1>6. LatestHeight' = h
  <2>1. DOMAIN block_header' \in SUBSET Nat
    BY <1>2, <1>3
  <2>2. /\ Max(DOMAIN block_header') \in DOMAIN block_header'
        /\ \A g \in DOMAIN block_header' : g <= Max(DOMAIN block_header')
    BY <1>2, <1>5, <2>1, MaxOfBounded
  <2> QED BY <1>2, <1>5, <2>1, <2>2 DEF LatestHeight
<1>7. LatestBlock' = b
  BY <1>3, <1>5, <1>6 DEF LatestBlock
<1> QED BY <1>3, <1>4, <1>5, <1>6, <1>7 DEF h, D

(* A rollback begins and ends with whole blocks.                           *)
LEMMA RollBackKeepsWhole ==
  ASSUME Basic, Ordered, NEW p \in Loops, pc[p] = "ancestor", RollBack(p)
  PROVE  Whole'
<1>1. Whole
  BY RunningFacts
<1> QED BY <1>1 DEF RollBack, Whole, Restrict

-----------------------------------------------------------------------------
(* Initial states and steps.                                               *)

(* Initially no block is applied, kept or final.                           *)
LEMMA AbstractInit == Init => Abstract!Init /\ AppliedIsBranch
<1> SUFFICES ASSUME Init PROVE Abstract!Init /\ AppliedIsBranch OBVIOUS
<1>1. DOMAIN block_header = {} /\ \A s \in Segment : ledger[s] = 0
  BY EmptyMap DEF Init
<1>2. Head = NoBlock /\ Floor = NoBlock /\ Indexed = {}
  BY <1>1 DEF Head, Floor, LatestBlock, Indexed
<1>3. Applied = {}
  <2>1. ASSUME NEW b \in Block PROVE b \notin Applied
    <3>1. <<b, 0>> \in SegmentsOf(b) /\ <<b, 0>> \in Segment
      BY LoopAssumption, SegmentFacts
    <3> QED BY <1>1, <3>1 DEF Applied
  <2> QED BY <2>1 DEF Applied
<1> QED BY <1>2, <1>3 DEF Init, Abstract!Init, AppliedIsBranch

(* What leaves the maps alone leaves the abstract indexer alone.           *)
LEMMA StoreFixesAbstract ==
  UNCHANGED store =>
    UNCHANGED <<Head, Floor, Applied, Indexed>>
BY DEF store, Head, Floor, FloorHeight, Applied, Indexed, LatestBlock, LatestHeight

(* A segment that is not the last one is invisible; the last one appends   *)
(* its block to the branch.                                                *)
LEMMA AbstractSegment ==
  ASSUME Basic, Ordered, Basic', Ordered', Applied = Indexed,
         NEW p \in Loops, NEW b, Indexing(p, b), b \in ever_best,
         IndexSegment(p, b), UNCHANGED <<tip, ever_best>>
  PROVE  /\ Applied' = Indexed'
         /\ UNCHANGED Abstract!vars \/ Abstract!Extend(b)
<1>1. CASE frame[p].segment < Outcalls[b]
  <2>1. pc'[p] = "commit" /\ UNCHANGED <<block_header>>
    BY <1>1, LoopAssumption DEF IndexSegment, Basic, TypeOK
  <2>2. Applied' = Indexed'
    <3>1. Settled'
      BY <2>1 DEF Settled
    <3>2. AppliedIsBranch'
      BY <3>1, AppliedFacts, PTL
    <3> QED BY <3>2 DEF AppliedIsBranch
  <2>3. UNCHANGED <<Head, Floor, Indexed>>
    BY <2>1 DEF Head, Floor, FloorHeight, Indexed, LatestBlock, LatestHeight
  <2> QED BY <2>2, <2>3 DEF Abstract!vars
<1>2. CASE frame[p].segment = Outcalls[b]
  <2>1. PICK r : FinishBlock(p, b, r)
    BY <1>2, LoopAssumption DEF IndexSegment, Recorded, Indexing
  <2>2. /\ Whole' /\ Head' = b /\ LatestBlock' = b /\ LatestHeight' = NextHeight
        /\ NextHeight \in DOMAIN block_header'
        /\ \A g \in DOMAIN block_header' : g <= NextHeight
        /\ DOMAIN block_header' \subseteq DOMAIN block_header \cup {NextHeight}
        /\ \A g \in DOMAIN block_header' :
             g # NextHeight => block_header'[g] = block_header[g]
    BY <2>1, FinishFacts DEF Head
  <2>3. Applied' = Indexed'
    <3>1. Settled'
      BY <2>2 DEF Settled
    <3>2. AppliedIsBranch'
      BY <3>1, AppliedFacts, PTL
    <3> QED BY <3>2 DEF AppliedIsBranch
  <2>4. /\ b \in Block /\ b # NoBlock /\ Prev[b] = Head
        /\ Head # NoBlock => Head \in Block
        /\ Head = NoBlock <=> DOMAIN block_header = {}
    BY LatestFacts, BlockTreeAssumption DEF Indexing, Basic, Head
  <2>5. Applied' = Applied \cup {b}
    <3>1. Indexed' = Chain[b] /\ Indexed = IF Head = NoBlock THEN {} ELSE Chain[Head]
      BY <2>2, <2>4 DEF Indexed, Head
    <3> QED BY <2>3, <2>4, <3>1, BlockTreeAssumption
  <2>6. /\ FloorHeight' \in DOMAIN block_header'
        /\ Floor' = block_header'[FloorHeight']
    <3>1. DOMAIN block_header' \in SUBSET Nat
      BY DEF Basic, TypeOK
    <3> QED BY <2>2, <3>1, MinOfNats DEF FloorHeight, Floor
  <2>7. /\ Floor' \in Chain[b] /\ HeightOf[Floor'] = FloorHeight'
        /\ FloorHeight' > NextHeight - MaxReorgDepth
    BY <2>2, <2>6 DEF Ordered, OneBranch, LinkedWindow
  <2>8. HeightOf[b] - HeightOf[Floor'] < MaxReorgDepth
    <3>1. HeightOf[b] = NextHeight /\ NextHeight \in Nat /\ FloorHeight' \in Nat
      BY <2>6, LatestFacts DEF Indexing, Basic, TypeOK
    <3> QED BY <2>7, <3>1, LoopAssumption
  <2>9. Floor # NoBlock => Floor \in Chain[Floor']
    <3> SUFFICES ASSUME Floor # NoBlock PROVE Floor \in Chain[Floor']
      OBVIOUS
    <3>1. DOMAIN block_header # {}
      BY DEF Floor
    <3>2. /\ FloorHeight \in DOMAIN block_header
          /\ \A g \in DOMAIN block_header : FloorHeight <= g
          /\ Floor = block_header[FloorHeight]
      BY <3>1, FinalFacts DEF Floor
    <3>3. Floor \in Chain[Head] /\ Head \in Block /\ HeightOf[Floor] = FloorHeight
      BY <2>4, <3>1, <3>2 DEF Ordered, OneBranch, LinkedWindow, Head
    <3>4. Floor \in Chain[b]
      BY <2>4, <3>3, BlockTreeAssumption
    <3>5. FloorHeight <= FloorHeight'
      <4>1. FloorHeight <= NextHeight
        <5>1. LatestHeight \in DOMAIN block_header /\ NextHeight = LatestHeight + 1
          BY <3>1, LatestFacts DEF Basic, NextHeight
        <5>2. FloorHeight <= LatestHeight
          BY <3>2, <5>1
        <5>3. FloorHeight \in Nat /\ LatestHeight \in Nat
          BY <3>2, <5>1 DEF Basic, TypeOK
        <5> QED BY <5>1, <5>2, <5>3
      <4> QED BY <2>2, <2>6, <3>2, <4>1
    <3> QED BY <2>4, <2>7, <3>3, <3>4, <3>5, AncestryAssumption
  <2>10. Abstract!Extend(b)
    BY <2>2, <2>4, <2>5, <2>7, <2>8, <2>9 DEF Abstract!Extend
  <2> QED BY <2>3, <2>10
<1> QED BY <1>1, <1>2, LoopAssumption DEF Indexing

(* A rollback to the common ancestor a retreats to it.                     *)
LEMMA AbstractRollBack ==
  ASSUME Basic, Ordered, Basic', Ordered', Applied = Indexed,
         NEW p \in Loops, pc[p] = "ancestor", RollBack(p),
         frame[p].indexed \in Chain[tip], UNCHANGED <<tip, ever_best>>
  PROVE  /\ Applied' = Indexed'
         /\ \E c \in Block : Abstract!Retreat(c)
<1> DEFINE a == frame[p].height - frame[p].depth
           c == block_header[a]
<1>1. /\ a \in DOMAIN block_header /\ a \in Nat
      /\ LatestBlock \in Block
      /\ DOMAIN block_header' = {g \in DOMAIN block_header : g <= a}
      /\ \A g \in DOMAIN block_header' : block_header'[g] = block_header[g]
      /\ LatestBlock' = c
  BY RollBackFacts
<1>2. Applied' = Indexed'
  <2>1. Settled'
    BY RollBackKeepsWhole DEF Settled
  <2>2. AppliedIsBranch'
    BY <2>1, AppliedFacts, PTL
  <2> QED BY <2>2 DEF AppliedIsBranch
<1>3. c \in Chain[tip] /\ c \in Block /\ c # NoBlock
  BY <1>1, BlockTreeAssumption DEF Ordered, FrameFresh, Basic, TypeOK
<1>4. /\ c \in Chain[LatestBlock] /\ LatestBlock # NoBlock
      /\ Chain[c] = {d \in Chain[LatestBlock] : HeightOf[d] <= a}
      /\ HeightOf[c] = a
  BY <1>1, BranchFacts, BlockTreeAssumption DEF Ordered, OneBranch, LinkedWindow
<1> HIDE DEF a, c
<1>5. Applied' = {d \in Applied : HeightOf[d] <= HeightOf[c]}
  BY <1>1, <1>2, <1>3, <1>4 DEF Indexed
<1>6. /\ FloorHeight \in DOMAIN block_header
      /\ \A g \in DOMAIN block_header : FloorHeight <= g
  BY <1>1, FinalFacts
<1>7. FloorHeight' = FloorHeight
  <2>1. FloorHeight \in DOMAIN block_header'
    BY <1>1, <1>6
  <2>2. DOMAIN block_header' \in SUBSET Nat
    BY DEF Basic, TypeOK
  <2>3. /\ FloorHeight' \in DOMAIN block_header'
        /\ \A g \in DOMAIN block_header' : FloorHeight' <= g
    BY <2>1, <2>2, MinOfNats DEF FloorHeight
  <2> QED BY <1>1, <1>6, <2>1, <2>2, <2>3
<1>8. Floor' = Floor /\ Floor = block_header[FloorHeight]
  BY <1>1, <1>6, <1>7 DEF Floor
<1>9. Floor \in Chain[c]
  <2>1. Floor \in Chain[LatestBlock] /\ HeightOf[Floor] = FloorHeight
    BY <1>6, <1>8 DEF Ordered, OneBranch, LinkedWindow
  <2> QED BY <1>1, <1>4, <1>6, <2>1
<1>10. Abstract!Retreat(c)
  BY <1>1, <1>3, <1>4, <1>5, <1>8, <1>9 DEF Abstract!Retreat, Head
<1> QED BY <1>2, <1>3, <1>10

(* Every step of the loop is a step of the abstract indexer, or invisible. *)
LEMMA AbstractStep ==
  Inductive /\ orderly /\ AppliedIsBranch /\ [Next]_vars /\ Inductive' /\ orderly'
    => [Abstract!Next]_(Abstract!vars) /\ AppliedIsBranch'
<1> SUFFICES ASSUME Inductive, orderly, Applied = Indexed, [Next]_vars,
                    Inductive', orderly'
             PROVE  /\ Abstract!Next \/ UNCHANGED Abstract!vars
                    /\ Applied' = Indexed'
  BY DEF AppliedIsBranch
<1>1. Basic /\ Ordered /\ Basic' /\ Ordered'
  BY DEF Inductive
<1>2. CASE UNCHANGED store
  <2>1. UNCHANGED <<Head, Floor, Applied, Indexed>>
    BY <1>2, StoreFixesAbstract
  <2>2. CASE UNCHANGED <<tip, ever_best>>
    BY <2>1, <2>2 DEF Abstract!vars
  <2>3. CASE NewTip
    BY <2>1, <2>3 DEF NewTip, Abstract!Next, Abstract!BestMoves
  <2> QED
    BY <2>1, <2>2, <2>3
       DEF vars, Next, Admin, Stop, Upgrade, Start, Progress, TimerFires,
       HashFound, HashNotFound, BlockArrives, AncestorAnswered, CommitAnswered,
       Notified, OutcallFails, HashFails, BlockFails, AncestorFails,
       CommitFails, Trap
<1>3. ASSUME NEW p \in Loops, NEW b \in Block, BlockArrives(p, b), ~Forked(p, b)
      PROVE  /\ Abstract!Next \/ UNCHANGED Abstract!vars
             /\ Applied' = Indexed'
  <2>1. Indexing(p, b) /\ IndexSegment(p, b)
    BY <1>1, <1>3, ArrivalIndexing
  <2>2. b \in ever_best /\ UNCHANGED <<tip, ever_best>>
    BY <1>1, <1>3 DEF BlockArrives, Verified, Basic, FrameShape
  <2> QED BY <1>1, <2>1, <2>2, AbstractSegment DEF Abstract!Next
<1>4. ASSUME NEW p \in Loops, CommitAnswered(p)
      PROVE  /\ Abstract!Next \/ UNCHANGED Abstract!vars
             /\ Applied' = Indexed'
  <2> DEFINE b == frame[p].block
  <2>1. Indexing(p, b) /\ IndexSegment(p, b)
    BY <1>1, <1>4, CommitIndexing
  <2>2. b \in ever_best /\ b \in Block /\ UNCHANGED <<tip, ever_best>>
    BY <1>1, <1>4 DEF CommitAnswered, Basic, TypeOK, FrameShape
  <2> HIDE DEF b
  <2> QED BY <1>1, <2>1, <2>2, AbstractSegment DEF Abstract!Next
<1>5. ASSUME NEW p \in Loops, AncestorAnswered(p), RollBack(p)
      PROVE  /\ Abstract!Next \/ UNCHANGED Abstract!vars
             /\ Applied' = Indexed'
  <2>1. CASE frame[p].indexed \in Chain[tip]
    BY <1>1, <1>5, <2>1, AbstractRollBack DEF AncestorAnswered, Abstract!Next
  <2>2. CASE UNCHANGED store
    BY <1>2, <2>2
  <2> QED BY <1>5, <2>1, <2>2 DEF AncestorAnswered, OnBestChain
<1>6. UNCHANGED store
      \/ (\E p \in Loops, b \in Block : BlockArrives(p, b) /\ ~Forked(p, b))
      \/ (\E p \in Loops : CommitAnswered(p))
      \/ (\E p \in Loops : AncestorAnswered(p) /\ RollBack(p))
  BY DEF vars, Next, NewTip, Admin, Stop, Upgrade, Start, Progress, TimerFires,
     HashFound, HashNotFound, BlockArrives, AncestorAnswered,
     Notified, OutcallFails, HashFails, BlockFails, AncestorFails,
     CommitFails, Trap
<1> QED BY <1>2, <1>3, <1>4, <1>5, <1>6

-----------------------------------------------------------------------------
(* While every start finds the indexer at rest, the indexing loop          *)
(* implements the abstract indexer: one branch, extended by whole blocks   *)
(* and cut back to common ancestors above the floor (updater.rs:31-197,    *)
(* reorg.rs:29-174).                                                       *)
THEOREM Implementation == Spec /\ []orderly => Implements
<1>1. Init => Abstract!Init /\ AppliedIsBranch
  BY AbstractInit
<1>2. Spec => []Inductive
  BY InductiveInvariant
<1> QED BY <1>1, <1>2, AbstractStep, PTL DEF Spec, Implements, Abstract!Spec

=============================================================================
