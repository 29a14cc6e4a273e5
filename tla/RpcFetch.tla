------------------------------- MODULE RpcFetch -------------------------------
(***************************************************************************)
(* One call of make_rpc: the reply of the Bitcoin RPC node is fetched in   *)
(* byte ranges by HTTP outcalls, each of which is tried up to four times,  *)
(* and parsed when the ranges are exhausted.  The node is external: it     *)
(* answers with the whole reply, with the part asked for and its place     *)
(* (Content-Range), with an error page, or not at all, and its reply may   *)
(* change between two ranges (a transaction gains a confirmation or loses  *)
(* its block).                                                             *)
(*                                                                         *)
(* A byte is <<reply, position>>: what matters of a text is which reply    *)
(* each of its bytes is from.                                              *)
(***************************************************************************)
EXTENDS Integers, Sequences

CONSTANTS
  Reply,     \* the texts the node may serve for this request
  Size,      \* [Reply -> Nat], in bytes
  Newline,   \* the replies that end in a newline behind the JSON object
  Good,      \* the replies with a result and no error
  First,     \* max_response_bytes of the endpoint: 256 to 1_999_000
  Limit,     \* MAX_RESPONSE_BYTES, 1_999_000
  Slack,     \* the 999 bytes that a response may be longer than its range
  Retries    \* 3

ASSUME FetchAssumption ==
  /\ Size \in [Reply -> Nat \ {0}]
  /\ Newline \subseteq Reply
  /\ Good \subseteq Reply
  /\ First \in Nat \ {0}
  /\ Limit \in Nat \ {0, 1}
  /\ Slack \in Nat
  /\ Retries \in Nat

VARIABLES
  node,      \* the reply the node serves now
  seen,      \* history: the replies it served since the call began
  range,     \* <<first, last>> byte of the range to ask for
  retry,     \* failures of the present range
  buf,       \* the bytes so far
  pc,        \* request: waits for an answer; done
  result,    \* none | ok | err | trap
  smooth     \* history: every answer was the whole reply or the part asked for

vars == <<node, seen, range, retry, buf, pc, result, smooth>>

MutFirstRange == <<0, First \div 2 - 1>>
FirstRange == <<0, First - 1>>

Init ==
  /\ node \in Reply
  /\ seen = {node}
  /\ range = FirstRange
  /\ retry = 0
  /\ buf = << >>
  /\ pc = "request"
  /\ result = "none"
  /\ smooth = TRUE

-----------------------------------------------------------------------------
(* The bytes from..to of the reply.                                        *)
Bytes(r, from, to) == [i \in 1..(to - from + 1) |-> <<r, from + i - 1>>]

Text(r) == Bytes(r, 0, Size[r] - 1)

(* serde_json reads a text without gap, repetition or missing end; a       *)
(* trailing newline is not missed.                                         *)
Complete(text) ==
  /\ text # << >>
  /\ \A i \in DOMAIN text : text[i][2] = i - 1
  /\ LET r == text[Len(text)][1]
     IN \/ Len(text) = Size[r]
        \/ r \in Newline /\ Len(text) = Size[r] - 1

From(text) == {text[i][1] : i \in DOMAIN text}

(* A text pieced together from several replies may or may not parse.       *)
Outcomes(text) ==
  IF ~Complete(text) \/ From(text) \cap Good = {} THEN {"err"}
  ELSE IF \E r \in Good : From(text) = {r} THEN {"ok"}
  ELSE {"ok", "err"}

Finish(text) ==
  /\ buf' = text
  /\ result' \in Outcomes(text)
  /\ pc' = "done"
  /\ UNCHANGED <<node, seen, range, retry>>

-----------------------------------------------------------------------------
(* split: the range after the one that ended with byte end, of total.      *)
MutSplit(end, total) ==
  <<end + 1, IF end + 1 + Limit >= total THEN total - 1 ELSE end + 1 + Limit>>
Split(end, total) ==
  <<end + 1, IF end + 1 + Limit >= total THEN total - 1 ELSE end + Limit>>

(* The loop ends when nothing is left to ask for.                          *)
MutExhausted(next) == next[1] + 1 >= next[2]
Exhausted(next) == next[1] >= next[2]

Lowest(m, n) == IF m <= n THEN m ELSE n

(* Status 206 with the place of the part in a reply of known length.       *)
PartAnswered ==
  LET total == Size[node]
      end == Lowest(range[2], total - 1)
      text == buf \o Bytes(node, range[1], end)
      next == Split(end, total)
  IN /\ pc = "request"
     /\ range[1] < total
     /\ \/ /\ Exhausted(next)
           /\ Finish(text)
        \/ /\ ~Exhausted(next)
           /\ buf' = text
           /\ range' = next
           /\ retry' = 0
           /\ UNCHANGED <<node, seen, pc, result>>
     /\ UNCHANGED smooth

(* Status 200: the node ignores the range.  A response may not be longer   *)
(* than the range and the slack.                                           *)
WholeAnswered ==
  /\ pc = "request"
  /\ Size[node] <= range[2] - range[1] + 1 + Slack
  /\ Finish(buf \o Text(node))
  /\ smooth' = (smooth /\ buf = << >>)

(* A body that is no part of any reply, an error page: it ends in what no  *)
(* reply has at that place.                                                *)
Foreign(r) == <<r, Size[r]>>

(* A part of a reply of unknown length ("/*"), or any other status without *)
(* a Content-Range: with an error page, or with nothing.                   *)
PlaceUnknown ==
  /\ pc = "request"
  /\ \/ range[1] < Size[node] /\
        Finish(buf \o Bytes(node, range[1], Lowest(range[2], Size[node] - 1)))
     \/ Finish(Append(buf, Foreign(node)))
     \/ Finish(buf)
  /\ smooth' = FALSE

(* Status 416, "bytes */total": the reply has become shorter than what was *)
(* read of it, and indexing the range that is not there panics.            *)
NotSatisfiable ==
  /\ pc = "request"
  /\ range[1] >= Size[node]
  /\ pc' = "done"
  /\ result' = "trap"
  /\ UNCHANGED <<node, seen, range, retry, buf, smooth>>

(* make_single_request: the outcall is rejected, also because the response *)
(* is too long or the replicas saw different ones.                         *)
Retriable == retry < Retries
MutOutcallRejected ==
  /\ pc = "request"
  /\ retry' = IF Retriable THEN retry + 1 ELSE 0
  /\ smooth' = FALSE
  /\ UNCHANGED <<node, seen, range, buf, pc, result>>
OutcallRejected ==
  /\ pc = "request"
  /\ \/ /\ Retriable
        /\ retry' = retry + 1
        /\ UNCHANGED <<pc, result>>
     \/ /\ ~Retriable
        /\ pc' = "done"
        /\ result' = "err"
        /\ UNCHANGED retry
  /\ smooth' = FALSE
  /\ UNCHANGED <<node, seen, range, buf>>

NodeMoves ==
  /\ pc = "request"
  /\ node' \in Reply \ {node}
  /\ seen' = seen \cup {node'}
  /\ UNCHANGED <<range, retry, buf, pc, result, smooth>>

Answered ==
  \/ PartAnswered
  \/ WholeAnswered
  \/ PlaceUnknown
  \/ NotSatisfiable
  \/ OutcallRejected

Next == Answered \/ NodeMoves

Spec == Init /\ [][Next]_vars

(* Every HTTP outcall is answered or rejected.                             *)
FairSpec == Spec /\ WF_vars(Answered)

-----------------------------------------------------------------------------
(* Properties.                                                             *)

(* As long as the reply stays the same, the next range begins where the    *)
(* bytes so far end, is not empty, reaches at least to the last byte or    *)
(* asks for as much as it may, and the lengths computed from it neither    *)
(* underflow nor pass the limit of an HTTP outcall (rpc.rs:51-59, 80-84).  *)
RangesAdjoin ==
  pc = "request" =>
    /\ range[1] <= range[2]
    /\ range[2] - range[1] < IF range[1] = 0 THEN First ELSE Limit
    /\ seen = {node} =>
         /\ buf = Bytes(node, 0, range[1] - 1)
         /\ range[1] < Size[node]

(* What make_rpc returns is one reply, wholly and from one moment, if the  *)
(* reply stayed the same or fits into the first range: the sizes given for *)
(* getrawtransaction (1885 to 3522 bytes in a range of 4096) and for       *)
(* getblockheader are what keeps a confirmation from being read in two     *)
(* halves (rpc.rs:295-296, 330-331).                                       *)
NotTorn ==
  /\ result = "ok"
  /\ seen = {node} \/ \A r \in seen : Size[r] <= First
  => \E r \in seen \cap Good :
       \/ buf = Text(r)
       \/ r \in Newline /\ buf = Bytes(r, 0, Size[r] - 2)

(* The reply is one byte longer than a number of full ranges, and that     *)
(* byte is not a newline.                                                  *)
OneByteOver(r) ==
  /\ \E k \in 0..Size[r] : Size[r] = First + k * Limit + 1
  /\ r \notin Newline

(* A good reply that stays the same and is served without failures is      *)
(* returned, unless its last byte falls into a range of its own            *)
(* (rpc.rs:162-233).                                                       *)
FailsForACause ==
  result \in {"err", "trap"} /\ smooth /\ seen = {node} =>
    node \notin Good \/ OneByteOver(node)

(* Every call comes to an end: what the fairness of IndexLoop assumes of   *)
(* its outcalls (rpc.rs:128-233).                                          *)
Ends == <>(pc = "done")

(* The ranges make up the total, as split says of itself (rpc.rs:49-50).   *)
RangesMakeUpTotal ==
  result \in {"ok", "err"} /\ smooth /\ seen = {node} => Len(buf) = Size[node]

=============================================================================
