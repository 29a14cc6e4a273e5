---------------------------- MODULE RpcFetchProofs ----------------------------
(***************************************************************************)
(* Machine-checked proofs about RpcFetch, for replies, ranges and limits   *)
(* of every size and a node that changes its reply at any time.            *)
(***************************************************************************)
EXTENDS RpcFetch, TLAPS, SequenceTheorems

(* What the proofs need of the types.                                      *)
Typed ==
  /\ node \in Reply /\ node \in seen /\ seen \subseteq Reply
  /\ range \in Nat \X Nat
  /\ buf \in Seq(Reply \X Nat)
  /\ pc = "done" \/ pc = "request"
  /\ pc = "request" => result = "none"

(* While all replies fit into the first range, it is the only one.         *)
OneRange ==
  /\ pc = "request"
  /\ \A r \in seen : Size[r] <= First
  => range = FirstRange /\ buf = << >>

FetchInductive == Typed /\ RangesAdjoin /\ OneRange /\ NotTorn

-----------------------------------------------------------------------------
(* A stretch of a reply is a sequence of bytes, as long as it is wide.     *)
LEMMA BytesFacts ==
  ASSUME NEW r \in Reply, NEW m \in Nat, NEW n \in Int, n >= m - 1
  PROVE  /\ Bytes(r, m, n) \in Seq(Reply \X Nat)
         /\ Len(Bytes(r, m, n)) = n - m + 1
         /\ \A i \in 1..(n - m + 1) : Bytes(r, m, n)[i] = <<r, m + i - 1>>
<1>1. n - m + 1 \in Nat
  OBVIOUS
<1>2. \A i \in 1..(n - m + 1) : <<r, m + i - 1>> \in Reply \X Nat
  OBVIOUS
<1> QED BY <1>1, <1>2 DEF Bytes

(* The first n bytes of a reply.                                           *)
LEMMA PrefixFacts ==
  ASSUME NEW r \in Reply, NEW n \in Nat
  PROVE  /\ Bytes(r, 0, n - 1) \in Seq(Reply \X Nat)
         /\ Len(Bytes(r, 0, n - 1)) = n
         /\ \A i \in 1..n : Bytes(r, 0, n - 1)[i] = <<r, i - 1>>
<1>1. n - 1 \in Int /\ n - 1 >= 0 - 1 /\ 0 \in Nat /\ (n - 1) - 0 + 1 = n
  OBVIOUS
<1>2. /\ Bytes(r, 0, n - 1) \in Seq(Reply \X Nat)
      /\ Len(Bytes(r, 0, n - 1)) = (n - 1) - 0 + 1
      /\ \A i \in 1..((n - 1) - 0 + 1) : Bytes(r, 0, n - 1)[i] = <<r, 0 + i - 1>>
  BY <1>1, BytesFacts
<1>3. \A i \in 1..n : Bytes(r, 0, n - 1)[i] = <<r, i - 1>>
  BY <1>1, <1>2
<1> QED BY <1>1, <1>2, <1>3

(* Two stretches that meet make one.                                       *)
LEMMA BytesMeet ==
  ASSUME NEW r \in Reply, NEW m \in Nat, NEW k \in Nat
  PROVE  Bytes(r, 0, m - 1) \o Bytes(r, m, m + k - 1) = Bytes(r, 0, m + k - 1)
<1> DEFINE a == Bytes(r, 0, m - 1)
           b == Bytes(r, m, m + k - 1)
           c == Bytes(r, 0, m + k - 1)
<1>1. /\ a \in Seq(Reply \X Nat) /\ Len(a) = m
      /\ \A i \in 1..m : a[i] = <<r, i - 1>>
  BY PrefixFacts
<1>2. /\ b \in Seq(Reply \X Nat) /\ Len(b) = k
      /\ \A i \in 1..k : b[i] = <<r, m + i - 1>>
  <2>1. m + k - 1 \in Int /\ m + k - 1 >= m - 1 /\ (m + k - 1) - m + 1 = k
    OBVIOUS
  <2>2. /\ b \in Seq(Reply \X Nat) /\ Len(b) = (m + k - 1) - m + 1
        /\ \A i \in 1..((m + k - 1) - m + 1) : b[i] = <<r, m + i - 1>>
    BY <2>1, BytesFacts
  <2> QED BY <2>1, <2>2
<1>3. /\ c \in Seq(Reply \X Nat) /\ Len(c) = m + k
      /\ \A i \in 1..(m + k) : c[i] = <<r, i - 1>>
  <2> DEFINE n == m + k
  <2>1. n \in Nat /\ c = Bytes(r, 0, n - 1)
    OBVIOUS
  <2> HIDE DEF n, c
  <2>2. /\ c \in Seq(Reply \X Nat) /\ Len(c) = n
        /\ \A i \in 1..n : c[i] = <<r, i - 1>>
    BY <2>1, PrefixFacts
  <2> QED BY <2>2 DEF n
<1> HIDE DEF a, b, c
<1>4. a \o b \in Seq(Reply \X Nat) /\ Len(a \o b) = m + k
  BY <1>1, <1>2, ConcatProperties
<1>5. ASSUME NEW i \in 1..(m + k) PROVE (a \o b)[i] = c[i]
  <2>1. CASE i <= m
    <3>1. (a \o b)[i] = a[i] /\ i \in 1..m
      <4>1. i \in 1..Len(a) + Len(b) /\ i <= Len(a) /\ i \in 1..m
        BY <1>1, <1>2, <2>1
      <4> QED BY <1>1, <1>2, <4>1, ConcatProperties
    <3> QED BY <1>1, <1>3, <3>1
  <2>2. CASE i > m
    <3>1. i - m \in 1..k /\ m + (i - m) - 1 = i - 1
      BY <2>2
    <3>2. (a \o b)[i] = b[i - m]
      <4>1. i \in 1..Len(a) + Len(b) /\ ~(i <= Len(a))
        BY <1>1, <1>2, <2>2
      <4>2. (a \o b)[i] = b[i - Len(a)]
        BY <1>1, <1>2, <4>1, ConcatProperties
      <4> QED BY <1>1, <4>2
    <3>3. b[i - m] = <<r, i - 1>>
      BY <1>2, <3>1
    <3> QED BY <1>3, <3>2, <3>3
  <2>3. i <= m \/ i > m
    OBVIOUS
  <2> QED BY <2>1, <2>2, <2>3
<1>6. a \o b = c
  BY <1>3, <1>4, <1>5, SeqEqual
<1> QED BY <1>6 DEF a, b, c

(* A good result of bytes of one reply is that reply.                      *)
LEMMA OutcomeFacts ==
  ASSUME NEW r \in Reply, NEW n \in Nat, n # 0, n <= Size[r],
         "ok" \in Outcomes(Bytes(r, 0, n - 1))
  PROVE  /\ r \in Good
         /\ \/ Bytes(r, 0, n - 1) = Text(r)
            \/ r \in Newline /\ Bytes(r, 0, n - 1) = Bytes(r, 0, Size[r] - 2)
<1> DEFINE t == Bytes(r, 0, n - 1)
<1>1. /\ t \in Seq(Reply \X Nat) /\ Len(t) = n
      /\ \A i \in 1..n : t[i] = <<r, i - 1>>
  BY PrefixFacts
<1> HIDE DEF t
<1>2. From(t) = {r}
  <2>1. DOMAIN t = 1..n /\ 1 \in 1..n
    BY <1>1
  <2>2. \A i \in DOMAIN t : t[i][1] = r
    BY <1>1, <2>1
  <2> QED BY <2>1, <2>2 DEF From
<1>3. Complete(t) /\ r \in Good
  BY <1>2 DEF Outcomes, t
<1>4. t[Len(t)][1] = r
  BY <1>1
<1>5. \/ n = Size[r]
      \/ r \in Newline /\ n = Size[r] - 1
  BY <1>1, <1>3, <1>4 DEF Complete
<1>6. \/ n - 1 = Size[r] - 1
      \/ r \in Newline /\ n - 1 = Size[r] - 2
  BY <1>5, FetchAssumption
<1> QED BY <1>3, <1>6 DEF Text

-----------------------------------------------------------------------------
(* What is not torn by a change of the reply: it stayed the same, or fits  *)
(* into the first range.                                                   *)
Steady == seen = {node} \/ \A r \in seen : Size[r] <= First

(* The range asked for and its place in the present reply.                 *)
LEMMA RangeFacts ==
  ASSUME Typed, RangesAdjoin, pc = "request"
  PROVE  /\ node \in Reply
         /\ range[1] \in Nat /\ range[2] \in Nat /\ range[1] <= range[2]
         /\ Size[node] \in Nat \ {0}
         /\ First \in Nat \ {0} /\ Limit \in Nat \ {0}
BY FetchAssumption DEF Typed, RangesAdjoin

(* Nothing is missing or foreign in the bytes of a steady reply.           *)
LEMMA SteadyPrefix ==
  ASSUME Typed, RangesAdjoin, OneRange, pc = "request", Steady
  PROVE  buf = Bytes(node, 0, range[1] - 1) /\ range[1] < Size[node]
<1>1. CASE seen = {node}
  BY <1>1 DEF RangesAdjoin
<1>2. CASE \A r \in seen : Size[r] <= First
  <2>1. range[1] = 0 /\ buf = << >>
    BY <1>2 DEF OneRange, FirstRange
  <2>2. Bytes(node, 0, 0 - 1) = << >>
    <3>1. Len(Bytes(node, 0, 0 - 1)) = 0 /\ Bytes(node, 0, 0 - 1) \in Seq(Reply \X Nat)
      BY RangeFacts, PrefixFacts
    <3> QED BY <3>1, EmptySeq
  <2> QED BY <2>1, <2>2, RangeFacts
<1> QED BY <1>1, <1>2 DEF Steady

(* A part that begins where the bytes so far end.                          *)
LEMMA PartFacts ==
  ASSUME Typed, RangesAdjoin, OneRange, pc = "request", range[1] < Size[node],
         NEW end, end = Lowest(range[2], Size[node] - 1)
  PROVE  /\ end \in Nat /\ range[1] <= end /\ end < Size[node] /\ end <= range[2]
         /\ buf \o Bytes(node, range[1], end) \in Seq(Reply \X Nat)
         /\ Steady => buf \o Bytes(node, range[1], end) = Bytes(node, 0, end)
<1>1. /\ end \in Nat /\ range[1] <= end /\ end < Size[node] /\ end <= range[2]
  BY RangeFacts DEF Lowest
<1>2. buf \o Bytes(node, range[1], end) \in Seq(Reply \X Nat)
  <2>1. Bytes(node, range[1], end) \in Seq(Reply \X Nat)
    <3>1. /\ node \in Reply /\ range[1] \in Nat
          /\ end \in Int /\ end >= range[1] - 1
      BY <1>1, RangeFacts
    <3> QED BY <3>1, BytesFacts
  <2> QED BY <2>1, ConcatProperties DEF Typed
<1>3. ASSUME Steady
      PROVE  buf \o Bytes(node, range[1], end) = Bytes(node, 0, end)
  <2>1. PICK k \in Nat : range[1] + k - 1 = end
    <3>1. end - range[1] + 1 \in Nat
          /\ range[1] + (end - range[1] + 1) - 1 = end
      BY <1>1, RangeFacts
    <3> QED BY <3>1
  <2>2. Bytes(node, 0, range[1] - 1) \o Bytes(node, range[1], range[1] + k - 1)
          = Bytes(node, 0, range[1] + k - 1)
    BY RangeFacts, BytesMeet
  <2> QED BY <1>3, <2>1, <2>2, SteadyPrefix
<1> QED BY <1>1, <1>2, <1>3

(* The result is good and of one reply.                                    *)
Whole(text) ==
  \E r \in seen \cap Good :
    \/ text = Text(r)
    \/ r \in Newline /\ text = Bytes(r, 0, Size[r] - 2)

(* The end of a call keeps the invariant if what it returns is whole.      *)
LEMMA FinishKeeps ==
  ASSUME FetchInductive, pc = "request",
         NEW text \in Seq(Reply \X Nat), Finish(text),
         Steady /\ "ok" \in Outcomes(text) => Whole(text)
  PROVE  FetchInductive'
<1>1. Typed'
  BY DEF FetchInductive, Typed, Finish
<1>2. RangesAdjoin' /\ OneRange'
  BY DEF RangesAdjoin, OneRange, Finish
<1>3. NotTorn'
  BY DEF NotTorn, Finish, Whole, Steady
<1> QED BY <1>1, <1>2, <1>3 DEF FetchInductive

(* The part that ends with byte end is all there is, if it is good.        *)
LEMMA PartWhole ==
  ASSUME Typed, NEW end \in Nat, end < Size[node], node \in seen,
         "ok" \in Outcomes(Bytes(node, 0, end))
  PROVE  Whole(Bytes(node, 0, end))
<1>1. PICK n \in Nat : n # 0 /\ n <= Size[node] /\ n - 1 = end
  <2>1. end + 1 \in Nat /\ end + 1 # 0 /\ end + 1 <= Size[node] /\ (end + 1) - 1 = end
    BY FetchAssumption DEF Typed
  <2> QED BY <2>1
<1>2. node \in Reply
  BY DEF Typed
<1>3. /\ node \in Good
      /\ \/ Bytes(node, 0, n - 1) = Text(node)
         \/ node \in Newline /\ Bytes(node, 0, n - 1) = Bytes(node, 0, Size[node] - 2)
  BY <1>1, <1>2, OutcomeFacts
<1> QED BY <1>1, <1>3 DEF Whole

LEMMA PartAnsweredKeeps ==
  ASSUME FetchInductive, PartAnswered
  PROVE  FetchInductive'
<1> DEFINE total == Size[node]
           end == Lowest(range[2], total - 1)
           text == buf \o Bytes(node, range[1], end)
           next == Split(end, total)
<1>1. /\ pc = "request" /\ range[1] < total
      /\ Typed /\ RangesAdjoin /\ OneRange
  BY DEF PartAnswered, FetchInductive
<1>2. /\ end \in Nat /\ range[1] <= end /\ end < Size[node] /\ end <= range[2]
      /\ text \in Seq(Reply \X Nat)
      /\ Steady => text = Bytes(node, 0, end)
  BY <1>1, PartFacts
<1>3. CASE Exhausted(next) /\ Finish(text)
  <2>1. Steady /\ "ok" \in Outcomes(text) => Whole(text)
    <3>1. node \in seen
      BY <1>1 DEF Typed
    <3> QED BY <1>1, <1>2, <3>1, PartWhole
  <2> HIDE DEF text, next
  <2> QED BY <1>1, <1>2, <1>3, <2>1, FinishKeeps
<1>4. CASE /\ ~Exhausted(next)
           /\ buf' = text
           /\ range' = next
           /\ UNCHANGED <<node, seen, pc, result>>
  <2>1. /\ total \in Nat \ {0} /\ First \in Nat \ {0} /\ Limit \in Nat \ {0}
        /\ range[2] \in Nat /\ range[1] \in Nat
    BY <1>1, RangeFacts
  <2> HIDE DEF end, text, total
  <2>2. /\ next[1] = end + 1
        /\ next[2] \in Int /\ next[1] < next[2]
        /\ next[2] <= total - 1
        /\ next[2] - next[1] < Limit
        /\ next = <<next[1], next[2]>>
    BY <1>2, <1>4, <2>1 DEF Split, Exhausted
  <2>3. next \in Nat \X Nat /\ next[1] # 0 /\ next[1] < total /\ next[1] - 1 = end
    <3>1. next[1] \in Nat /\ next[1] # 0 /\ next[1] - 1 = end
      BY <1>2, <2>2
    <3>2. next[2] \in Nat /\ next[1] < total
      BY <2>1, <2>2, <3>1
    <3> QED BY <2>2, <3>1, <3>2
  <2>4. ~(\A r \in seen : Size[r] <= First)
    <3>1. SUFFICES ASSUME \A r \in seen : Size[r] <= First PROVE FALSE
      OBVIOUS
    <3>2. range = <<0, First - 1>> /\ total <= First
      BY <1>1, <3>1 DEF OneRange, FirstRange, Typed, total
    <3>3. end = total - 1
      BY <2>1, <3>2 DEF end, Lowest
    <3> QED BY <2>1, <2>2, <3>3
  <2>5. Typed'
    BY <1>1, <1>2, <1>4, <2>3 DEF Typed
  <2>6. RangesAdjoin'
    <3>1. seen = {node} => text = Bytes(node, 0, end)
      BY <1>2 DEF Steady
    <3> QED BY <1>4, <2>2, <2>3, <3>1 DEF RangesAdjoin, total
  <2>7. OneRange'
    BY <1>4, <2>4 DEF OneRange
  <2>8. NotTorn'
    BY <1>1, <1>4 DEF NotTorn, Typed
  <2> QED BY <2>5, <2>6, <2>7, <2>8 DEF FetchInductive
<1> QED BY <1>1, <1>3, <1>4 DEF PartAnswered

(* A whole reply behind some bytes of it is no JSON text.                  *)
LEMMA WholeAnsweredKeeps ==
  ASSUME FetchInductive, WholeAnswered
  PROVE  FetchInductive'
<1> DEFINE text == buf \o Text(node)
<1>1. /\ pc = "request" /\ Finish(text)
      /\ Typed /\ RangesAdjoin /\ OneRange
  BY DEF WholeAnswered, FetchInductive
<1>2. /\ Text(node) \in Seq(Reply \X Nat) /\ Len(Text(node)) = Size[node]
      /\ \A i \in 1..Size[node] : Text(node)[i] = <<node, i - 1>>
  BY <1>1, RangeFacts, PrefixFacts DEF Text
<1>3. text \in Seq(Reply \X Nat)
  BY <1>1, <1>2, ConcatProperties DEF Typed
<1>4. ASSUME Steady, "ok" \in Outcomes(text)
      PROVE  Whole(text)
  <2>1. buf = Bytes(node, 0, range[1] - 1) /\ range[1] < Size[node]
    BY <1>1, <1>4, SteadyPrefix
  <2>2. buf \in Seq(Reply \X Nat) /\ Len(buf) = range[1]
    BY <1>1, <2>1, RangeFacts, PrefixFacts
  <2>3. range[1] = 0
    <3>1. SUFFICES ASSUME range[1] # 0 PROVE FALSE
      OBVIOUS
    <3>2. range[1] + 1 \in 1..Len(buf) + Len(Text(node)) /\ ~(range[1] + 1 <= Len(buf))
      BY <1>1, <1>2, <2>1, <2>2, RangeFacts
    <3>3. text[range[1] + 1] = Text(node)[range[1] + 1 - Len(buf)]
      BY <1>2, <2>2, <3>2, ConcatProperties
    <3>4. range[1] + 1 - Len(buf) = 1 /\ 1 \in 1..Size[node]
      BY <1>1, <2>2, RangeFacts
    <3>5. text[range[1] + 1] = <<node, 0>>
      BY <1>2, <3>3, <3>4
    <3>6. Len(text) = Len(buf) + Len(Text(node))
      BY <1>2, <2>2, ConcatProperties
    <3>7. range[1] + 1 \in DOMAIN text
      BY <1>3, <3>2, <3>6
    <3> HIDE DEF text
    <3>8. text[range[1] + 1][2] = (range[1] + 1) - 1
      BY <1>4, <3>7 DEF Outcomes, Complete
    <3> QED BY <1>1, <3>1, <3>5, <3>8, RangeFacts
  <2>4. text = Bytes(node, 0, Size[node] - 1)
    <3>1. buf = << >>
      BY <2>2, <2>3, EmptySeq
    <3> QED BY <1>2, <3>1, ConcatEmptySeq DEF Text
  <2>5. Size[node] - 1 \in Nat /\ Size[node] - 1 < Size[node] /\ node \in seen
    BY <1>1, RangeFacts DEF Typed
  <2> HIDE DEF text
  <2> QED BY <1>1, <1>4, <2>4, <2>5, PartWhole
<1> HIDE DEF text
<1> QED BY <1>1, <1>3, <1>4, FinishKeeps

LEMMA PlaceUnknownKeeps ==
  ASSUME FetchInductive, PlaceUnknown
  PROVE  FetchInductive'
<1> DEFINE end == Lowest(range[2], Size[node] - 1)
           text == buf \o Bytes(node, range[1], end)
<1>1. pc = "request" /\ Typed /\ RangesAdjoin /\ OneRange /\ node \in seen
  BY DEF PlaceUnknown, FetchInductive, Typed
<1>2. CASE range[1] < Size[node] /\ Finish(text)
  <2>1. /\ end \in Nat /\ end < Size[node]
        /\ text \in Seq(Reply \X Nat)
        /\ Steady => text = Bytes(node, 0, end)
    BY <1>1, <1>2, PartFacts
  <2>2. Steady /\ "ok" \in Outcomes(text) => Whole(text)
    BY <1>1, <2>1, PartWhole
  <2> HIDE DEF text
  <2> QED BY <1>1, <1>2, <2>1, <2>2, FinishKeeps
<1>3. CASE Finish(buf)
  <2>1. ASSUME Steady, "ok" \in Outcomes(buf)
        PROVE  Whole(buf)
    <3>1. buf = Bytes(node, 0, range[1] - 1) /\ range[1] < Size[node]
      BY <1>1, <2>1, SteadyPrefix
    <3>2. buf # << >>
      BY <2>1 DEF Outcomes, Complete
    <3>3. buf \in Seq(Reply \X Nat) /\ Len(buf) = range[1]
      BY <1>1, <3>1, RangeFacts, PrefixFacts
    <3>4. range[1] # 0
      BY <3>2, <3>3, EmptySeq
    <3>5. range[1] - 1 \in Nat /\ range[1] - 1 < Size[node]
      BY <1>1, <3>1, <3>4, RangeFacts
    <3> QED BY <1>1, <2>1, <3>1, <3>5, PartWhole
  <2> QED BY <1>1, <1>3, <2>1, FinishKeeps DEF Typed
<1>4. CASE Finish(Append(buf, Foreign(node)))
  <2> DEFINE page == Append(buf, Foreign(node))
  <2>1. buf \in Seq(Reply \X Nat) /\ Foreign(node) \in Reply \X Nat /\ Size[node] \in Nat
    BY <1>1, RangeFacts DEF Typed, Foreign
  <2>2. /\ page \in Seq(Reply \X Nat)
        /\ Len(page) = Len(buf) + 1
        /\ page[Len(page)] = <<node, Size[node]>>
    BY <2>1 DEF Foreign
  <2>3. Len(page) \in DOMAIN page /\ Len(buf) \in Nat
    BY <2>1, <2>2
  <2> HIDE DEF page
  <2>4. ~Complete(page)
    <3>1. SUFFICES ASSUME Complete(page) PROVE FALSE
      OBVIOUS
    <3>2. Size[node] = Len(page) - 1
      BY <2>2, <2>3, <3>1 DEF Complete
    <3>3. Len(page) = Size[node] \/ Len(page) = Size[node] - 1
      BY <2>2, <3>1 DEF Complete
    <3> QED BY <2>1, <2>2, <2>3, <3>2, <3>3
  <2>5. "ok" \notin Outcomes(page)
    BY <2>4 DEF Outcomes
  <2>6. Finish(page)
    BY <1>4 DEF page
  <2> QED BY <1>1, <2>2, <2>5, <2>6, FinishKeeps
<1> QED BY <1>2, <1>3, <1>4 DEF PlaceUnknown

LEMMA OthersKeep ==
  ASSUME FetchInductive,
         NotSatisfiable \/ OutcallRejected \/ NodeMoves \/ UNCHANGED vars
  PROVE  FetchInductive'
<1>1. CASE NotSatisfiable
  BY <1>1 DEF FetchInductive, Typed, RangesAdjoin, OneRange, NotTorn, NotSatisfiable
<1>2. CASE OutcallRejected
  <2>1. /\ \/ pc' = pc /\ result' = result
           \/ pc' = "done" /\ result' = "err"
        /\ pc = "request" /\ UNCHANGED <<node, seen, range, buf>>
    BY <1>2 DEF OutcallRejected
  <2> QED BY <2>1 DEF FetchInductive, Typed, RangesAdjoin, OneRange, NotTorn
<1>3. CASE NodeMoves
  <2>1. Typed' /\ OneRange' /\ NotTorn'
    BY <1>3 DEF FetchInductive, Typed, OneRange, NotTorn, NodeMoves
  <2>2. RangesAdjoin'
    BY <1>3 DEF FetchInductive, Typed, RangesAdjoin, NodeMoves
  <2> QED BY <2>1, <2>2 DEF FetchInductive
<1>4. CASE UNCHANGED vars
  BY <1>4 DEF FetchInductive, Typed, RangesAdjoin, OneRange, NotTorn, vars
<1> QED BY <1>1, <1>2, <1>3, <1>4

LEMMA InitFetches == Init => FetchInductive
<1> SUFFICES ASSUME Init PROVE FetchInductive
  OBVIOUS
<1>1. /\ node \in Reply /\ seen = {node} /\ pc = "request" /\ result = "none"
      /\ range = <<0, First - 1>> /\ buf = << >>
  BY DEF Init, FirstRange
<1>2. First - 1 \in Nat /\ 0 < Size[node]
  BY <1>1, FetchAssumption
<1>3. Bytes(node, 0, 0 - 1) = << >>
  <2>1. Len(Bytes(node, 0, 0 - 1)) = 0 /\ Bytes(node, 0, 0 - 1) \in Seq(Reply \X Nat)
    BY <1>1, PrefixFacts
  <2> QED BY <2>1, EmptySeq
<1>4. Typed /\ OneRange /\ NotTorn
  BY <1>1, <1>2 DEF Typed, OneRange, NotTorn, FirstRange
<1>5. RangesAdjoin
  <2>1. range[1] = 0 /\ range[2] = First - 1
    BY <1>1
  <2>2. buf = Bytes(node, 0, range[1] - 1)
    BY <1>1, <1>3, <2>1
  <2>3. 0 <= First - 1 /\ First - 1 - 0 < First
    BY <1>2, FetchAssumption
  <2> QED BY <1>2, <2>1, <2>2, <2>3 DEF RangesAdjoin
<1> QED BY <1>4, <1>5 DEF FetchInductive

LEMMA AlwaysFetches == Spec => []FetchInductive
<1>1. ASSUME FetchInductive, [Next]_vars
      PROVE  FetchInductive'
  BY <1>1, PartAnsweredKeeps, WholeAnsweredKeeps, PlaceUnknownKeeps, OthersKeep
     DEF Next, Answered
<1> QED BY InitFetches, <1>1, PTL DEF Spec

(* Each range begins where the bytes so far end and asks for what is       *)
(* missing and allowed (rpc.rs:51-59, 80-84, 162-221).                     *)
THEOREM RangesAlwaysAdjoin == Spec => []RangesAdjoin
<1>1. FetchInductive => RangesAdjoin
  BY DEF FetchInductive
<1> QED BY AlwaysFetches, <1>1, PTL

(* A reply that stays the same, or of which every version fits into the    *)
(* first range, is never returned in pieces of two moments (rpc.rs:162-    *)
(* 233, 295-310).                                                          *)
THEOREM NeverTorn == Spec => []NotTorn
<1>1. FetchInductive => NotTorn
  BY DEF FetchInductive
<1> QED BY AlwaysFetches, <1>1, PTL

-----------------------------------------------------------------------------
(* As long as the reply stays the same, a range behind the first begins    *)
(* after a number of full ranges, and ends with the reply or is full.      *)
AtBoundary ==
  pc = "request" /\ seen = {node} =>
    \/ range = FirstRange
    \/ /\ \E k \in 0..range[1] : range[1] = First + k * Limit
       /\ range[2] = IF range[1] + Limit >= Size[node]
                     THEN Size[node] - 1 ELSE range[1] + Limit - 1

BoundaryInductive == FetchInductive /\ AtBoundary /\ FailsForACause

(* The whole of a good reply is returned.                                  *)
LEMMA GoodIsReturned ==
  ASSUME NEW r \in Good, NEW n \in Nat, n # 0,
         n = Size[r] \/ (r \in Newline /\ n = Size[r] - 1)
  PROVE  Outcomes(Bytes(r, 0, n - 1)) = {"ok"}
<1> DEFINE t == Bytes(r, 0, n - 1)
<1>1. r \in Reply
  BY FetchAssumption
<1>2. /\ t \in Seq(Reply \X Nat) /\ Len(t) = n
      /\ \A i \in 1..n : t[i] = <<r, i - 1>>
  BY <1>1, PrefixFacts
<1> HIDE DEF t
<1>3. DOMAIN t = 1..n /\ 1 \in 1..n /\ n \in 1..n /\ t # << >>
  BY <1>2
<1>4. From(t) = {r}
  <2>1. \A i \in DOMAIN t : t[i][1] = r
    BY <1>2, <1>3
  <2> QED BY <1>3, <2>1 DEF From
<1>5. \A i \in DOMAIN t : t[i][2] = i - 1
  BY <1>2, <1>3
<1>6. t[Len(t)][1] = r
  BY <1>2, <1>3
<1>7. Complete(t)
  BY <1>2, <1>3, <1>5, <1>6 DEF Complete
<1>8. From(t) \cap Good # {}
  BY <1>4
<1> QED BY <1>4, <1>7, <1>8 DEF Outcomes, t

(* Where a call ends although bytes are missing, the last byte of the      *)
(* reply is missing, and it alone.                                         *)
LEMMA StopsOneShort ==
  ASSUME BoundaryInductive, pc = "request", seen = {node},
         NEW end, end = Lowest(range[2], Size[node] - 1),
         Exhausted(Split(end, Size[node])), end # Size[node] - 1
  PROVE  /\ end = Size[node] - 2
         /\ \E k \in 0..Size[node] : Size[node] = First + k * Limit + 1
<1>1. /\ node \in Reply
      /\ range[1] \in Nat /\ range[2] \in Nat /\ range[1] <= range[2]
      /\ Size[node] \in Nat \ {0} /\ First \in Nat \ {0} /\ Limit \in Nat \ {0, 1}
  BY RangeFacts, FetchAssumption DEF BoundaryInductive, FetchInductive
<1>2. end = range[2] /\ range[2] < Size[node] - 1
  BY <1>1 DEF Lowest
<1>3. end = Size[node] - 2
  <2>1. CASE end + 1 + Limit >= Size[node]
    <3>1. end + 1 >= Size[node] - 1
      BY <2>1 DEF Exhausted, Split
    <3> QED BY <1>1, <1>2, <3>1
  <2>2. CASE ~(end + 1 + Limit >= Size[node])
    <3>1. end + 1 >= end + Limit
      BY <2>2 DEF Exhausted, Split
    <3> QED BY <1>1, <1>2, <3>1
  <2> QED BY <2>1, <2>2
<1>4. CASE range = FirstRange
  <2>1. range[2] = First - 1
    BY <1>4 DEF FirstRange
  <2>2. 0 \in 0..Size[node] /\ 0 * Limit = 0
    BY <1>1
  <2>4. Size[node] = First + 0 + 1
    <3>1. Size[node] - 2 = First - 1
      BY <1>2, <1>3, <2>1
    <3>2. Size[node] \in Int /\ First \in Int
      BY <1>1
    <3> QED BY <3>1, <3>2
  <2>3. Size[node] = First + 0 * Limit + 1
    BY <2>2, <2>4
  <2> QED BY <1>3, <2>2, <2>3
<1>5. CASE range # FirstRange
  <2>1. /\ \E k \in 0..range[1] : range[1] = First + k * Limit
        /\ range[2] = IF range[1] + Limit >= Size[node]
                      THEN Size[node] - 1 ELSE range[1] + Limit - 1
    BY <1>5 DEF BoundaryInductive, AtBoundary
  <2>2. range[2] = range[1] + Limit - 1
    BY <1>1, <1>2, <2>1
  <2>3. PICK k \in 0..range[1] : range[1] = First + k * Limit
    BY <2>1
  <2>4. k \in Nat /\ (k + 1) * Limit = k * Limit + Limit /\ k * Limit \in Nat
    BY <1>1, <2>3
  <2>5. k + 1 \in 0..Size[node]
    BY <1>1, <1>2, <2>3
  <2>6. ASSUME NEW m \in Nat, range[1] = First + m
        PROVE  Size[node] = First + (m + Limit) + 1
    <3>1. Size[node] - 2 = range[1] + Limit - 1
      BY <1>2, <1>3, <2>2
    <3>2. Size[node] \in Int /\ First \in Int /\ Limit \in Int /\ range[1] \in Int
      BY <1>1
    <3>3. Size[node] = range[1] + Limit + 1
      BY <3>1, <3>2
    <3> QED BY <2>6, <3>2, <3>3
  <2>7. Size[node] = First + (k + 1) * Limit + 1
    BY <2>3, <2>4, <2>6
  <2> QED BY <1>3, <2>5, <2>7
<1> QED BY <1>4, <1>5

LEMMA PartEndsForACause ==
  ASSUME BoundaryInductive, PartAnswered
  PROVE  AtBoundary' /\ FailsForACause'
<1> DEFINE total == Size[node]
           end == Lowest(range[2], total - 1)
           text == buf \o Bytes(node, range[1], end)
           next == Split(end, total)
<1>1. /\ pc = "request" /\ range[1] < total /\ node' = node /\ seen' = seen
      /\ Typed /\ RangesAdjoin /\ OneRange /\ AtBoundary /\ FailsForACause
  BY DEF PartAnswered, BoundaryInductive, FetchInductive, Finish
<1>2. /\ total \in Nat \ {0} /\ First \in Nat \ {0} /\ Limit \in Nat \ {0, 1}
      /\ range[2] \in Nat /\ range[1] \in Nat /\ range[1] <= range[2]
  BY <1>1, RangeFacts, FetchAssumption
<1>3. /\ end \in Nat /\ range[1] <= end /\ end < total /\ end <= range[2]
      /\ Steady => text = Bytes(node, 0, end)
  BY <1>1, PartFacts
<1>4. CASE Exhausted(next) /\ Finish(text)
  <2>1. AtBoundary'
    BY <1>4 DEF AtBoundary, Finish
  <2>2. ASSUME result' \in {"err", "trap"}, seen = {node}, node \in Good
        PROVE  OneByteOver(node)
    <3>1. text = Bytes(node, 0, end) /\ result' \in Outcomes(text)
      BY <1>3, <1>4, <2>2 DEF Steady, Finish
    <3> HIDE DEF text
    <3>2. PICK n \in Nat : n # 0 /\ n = end + 1 /\ n - 1 = end
      BY <1>3
    <3>3. ~(n = Size[node] \/ (node \in Newline /\ n = Size[node] - 1))
      <4>1. SUFFICES ASSUME n = Size[node] \/ (node \in Newline /\ n = Size[node] - 1)
                     PROVE  FALSE
        OBVIOUS
      <4>2. Outcomes(Bytes(node, 0, n - 1)) = {"ok"}
        BY <2>2, <3>2, <4>1, GoodIsReturned
      <4> QED BY <2>2, <3>1, <3>2, <4>2
    <3>4. end # Size[node] - 1
      BY <1>2, <1>3, <3>2, <3>3
    <3>5. /\ end = Size[node] - 2
          /\ \E k \in 0..Size[node] : Size[node] = First + k * Limit + 1
      BY <1>1, <1>4, <2>2, <3>4, StopsOneShort
    <3>6. node \notin Newline
      BY <1>2, <3>2, <3>3, <3>5
    <3> QED BY <3>5, <3>6 DEF OneByteOver
  <2>3. FailsForACause'
    <3>1. node' = node /\ seen' = seen
      BY <1>1
    <3> QED BY <2>2, <3>1 DEF FailsForACause, OneByteOver
  <2> QED BY <2>1, <2>3
<1>5. CASE ~Exhausted(next) /\ range' = next /\ UNCHANGED <<pc, result>>
  <2>1. FailsForACause'
    BY <1>1, <1>5 DEF FailsForACause, Typed
  <2>2. ASSUME seen = {node}
        PROVE  /\ \E k \in 0..next[1] : next[1] = First + k * Limit
               /\ next[2] = IF next[1] + Limit >= total
                            THEN total - 1 ELSE next[1] + Limit - 1
    <3>1. next[1] = end + 1
      BY DEF Split
    <3>2. next[2] = IF end + 1 + Limit >= total THEN total - 1 ELSE end + Limit
      BY DEF Split
    <3>3. end = range[2] /\ end < total - 1
      <4>1. end + 1 < next[2] /\ next[2] <= total - 1
        BY <1>2, <1>3, <1>5, <3>1, <3>2 DEF Exhausted
      <4> QED BY <1>2, <1>3, <4>1, <3>2 DEF Lowest
    <3> HIDE DEF end, next
    <3>4. next[2] = IF next[1] + Limit >= total THEN total - 1 ELSE next[1] + Limit - 1
      BY <1>2, <1>3, <3>1, <3>2
    <3>5. CASE range = FirstRange
      <4>1. next[1] = First
        BY <1>2, <3>1, <3>3, <3>5 DEF FirstRange
      <4>2. 0 \in 0..next[1] /\ 0 * Limit = 0 /\ First + 0 = First
        BY <1>2, <4>1
      <4>3. next[1] = First + 0 * Limit
        BY <4>1, <4>2
      <4> QED BY <3>4, <4>2, <4>3
    <3>6. CASE range # FirstRange
      <4>1. /\ \E k \in 0..range[1] : range[1] = First + k * Limit
            /\ range[2] = IF range[1] + Limit >= total
                          THEN total - 1 ELSE range[1] + Limit - 1
        BY <1>1, <2>2, <3>6 DEF AtBoundary
      <4>2. next[1] = range[1] + Limit
        BY <1>2, <1>3, <3>1, <3>3, <4>1
      <4>3. PICK k \in 0..range[1] : range[1] = First + k * Limit
        BY <4>1
      <4>4. k \in Nat /\ (k + 1) * Limit = k * Limit + Limit /\ k * Limit \in Nat
        BY <1>2, <4>3
      <4>5. k + 1 \in 0..next[1]
        BY <1>2, <4>2, <4>3
      <4>6. next[1] = First + (k + 1) * Limit
        BY <1>2, <4>2, <4>3, <4>4
      <4> QED BY <3>4, <4>5, <4>6
    <3> QED BY <3>5, <3>6
  <2>3. AtBoundary'
    BY <1>1, <1>5, <2>2 DEF AtBoundary
  <2> QED BY <2>1, <2>3
<1> QED BY <1>4, <1>5 DEF PartAnswered

LEMMA WholeEndsForACause ==
  ASSUME BoundaryInductive, WholeAnswered
  PROVE  AtBoundary' /\ FailsForACause'
<1>1. /\ pc = "request" /\ Finish(buf \o Text(node)) /\ node \in Reply
      /\ smooth' => buf = << >>
  BY DEF WholeAnswered, BoundaryInductive, FetchInductive, Typed
<1>2. AtBoundary'
  BY <1>1 DEF AtBoundary, Finish
<1>3. ASSUME smooth', node \in Good PROVE result' = "ok"
  <2>1. PICK n \in Nat : n # 0 /\ n = Size[node]
    BY <1>1, FetchAssumption
  <2>2. Bytes(node, 0, n - 1) \in Seq(Reply \X Nat) /\ Text(node) = Bytes(node, 0, n - 1)
    BY <1>1, <2>1, PrefixFacts DEF Text
  <2>3. buf \o Text(node) = Bytes(node, 0, n - 1)
    BY <1>1, <1>3, <2>2, ConcatEmptySeq
  <2>4. Outcomes(Bytes(node, 0, n - 1)) = {"ok"}
    BY <1>3, <2>1, GoodIsReturned
  <2> QED BY <1>1, <2>3, <2>4 DEF Finish
<1>4. FailsForACause'
  <2>1. node' = node
    BY <1>1 DEF Finish
  <2> QED BY <1>3, <2>1 DEF FailsForACause
<1> QED BY <1>2, <1>4

LEMMA OthersEndForACause ==
  ASSUME BoundaryInductive,
         PlaceUnknown \/ NotSatisfiable \/ OutcallRejected \/ NodeMoves \/ UNCHANGED vars
  PROVE  AtBoundary' /\ FailsForACause'
<1>1. Typed /\ RangesAdjoin /\ AtBoundary /\ FailsForACause
  BY DEF BoundaryInductive, FetchInductive
<1>2. CASE PlaceUnknown
  <2>1. pc' = "done" /\ smooth' = FALSE
    BY <1>2 DEF PlaceUnknown, Finish
  <2> QED BY <2>1 DEF AtBoundary, FailsForACause
<1>3. CASE NotSatisfiable
  <2>1. pc = "request" /\ range[1] >= Size[node] /\ pc' = "done"
        /\ UNCHANGED <<node, seen>>
    BY <1>3 DEF NotSatisfiable
  <2>2. seen # {node}
    BY <1>1, <2>1, RangeFacts DEF RangesAdjoin
  <2> QED BY <2>1, <2>2 DEF AtBoundary, FailsForACause
<1>4. CASE OutcallRejected
  <2>1. smooth' = FALSE /\ pc = "request" /\ UNCHANGED <<node, seen, range>>
    BY <1>4 DEF OutcallRejected
  <2> QED BY <1>1, <2>1 DEF AtBoundary, FailsForACause
<1>5. CASE NodeMoves
  <2>1. seen' # {node'} /\ pc' = pc
    BY <1>1, <1>5 DEF NodeMoves, Typed
  <2> QED BY <2>1 DEF AtBoundary, FailsForACause
<1>6. CASE UNCHANGED vars
  BY <1>1, <1>6 DEF AtBoundary, FailsForACause, OneByteOver, vars
<1> QED BY <1>2, <1>3, <1>4, <1>5, <1>6

(* A good reply that stays the same and is served without failures is      *)
(* returned, unless its last byte falls into a range of its own            *)
(* (rpc.rs:49-70, 162-233).                                                *)
THEOREM FailuresHaveACause == Spec => []FailsForACause
<1>1. Init => BoundaryInductive
  BY InitFetches DEF Init, BoundaryInductive, AtBoundary, FailsForACause
<1>2. ASSUME BoundaryInductive, [Next]_vars
      PROVE  BoundaryInductive'
  <2>1. FetchInductive'
    BY <1>2, PartAnsweredKeeps, WholeAnsweredKeeps, PlaceUnknownKeeps, OthersKeep
       DEF Next, Answered, BoundaryInductive
  <2>2. AtBoundary' /\ FailsForACause'
    BY <1>2, PartEndsForACause, WholeEndsForACause, OthersEndForACause
       DEF Next, Answered
  <2> QED BY <2>1, <2>2 DEF BoundaryInductive
<1>3. BoundaryInductive => FailsForACause
  BY DEF BoundaryInductive
<1> QED BY <1>1, <1>2, <1>3, PTL DEF Spec

=============================================================================
