------------------------------ MODULE IndexLoop ------------------------------
(***************************************************************************)
(* The indexing loop of the canister: update_index, index_block,           *)
(* detect_reorg, handle_reorg, prune_change_record, the administrative     *)
(* calls that start and stop it, and the height-keyed stable maps.         *)
(*                                                                         *)
(* A canister runs one message at a time and commits its writes when the   *)
(* message ends, so an action is one message: from the reply of an         *)
(* inter-canister call (or a timer) to the next call.  What index_runes    *)
(* does to the rune maps is abstracted to "this segment of this block has  *)
(* been applied": a segment is the run of transactions between two         *)
(* consecutive outcalls of tx_commits_to_rune, the only await inside       *)
(* index_block, hence the unit of atomicity.  RuneLedger models what a     *)
(* segment does to balances and rune entries.                              *)
(***************************************************************************)
EXTENDS Bitcoin, StableMaps

CONSTANTS
  MaxReorgDepth,  \* get_max_recoverable_reorg_depth(network): 6 or 64
  Outcalls,       \* [Block -> Nat], commitment outcalls while indexing a block
  Loops,          \* slots for update_index loops that may exist at one time
  Subscribers     \* config.subscribers.len()

ASSUME LoopAssumption ==
  /\ MaxReorgDepth \in Nat \ {0}
  /\ Outcalls \in [Block -> Nat]
  /\ Subscribers \in Nat

(* The segments of a block, numbered from 0; k outcalls make k+1 of them.  *)
SegmentsOf(b) == {<<b, k>> : k \in 0..Outcalls[b]}
Segment == UNION {SegmentsOf(b) : b \in Block}

VARIABLES
  tip,            \* best block, as the Bitcoin canister sees it
  ever_best,      \* history: the blocks that were on the best chain so far
  block_header,   \* HEIGHT_TO_BLOCK_HEADER: partial function height -> block
  change_record,  \* HEIGHT_TO_CHANGE_RECORD: height -> segments it undoes
  statistic,      \* heights with an entry in HEIGHT_TO_STATISTIC_RUNES and
                  \* HEIGHT_TO_STATISTIC_RESERVED_RUNES (always written, pruned
                  \* and removed together)
  ledger,         \* how often each segment is applied to the rune maps
  shutting_down,  \* SHUTTING_DOWN, on the heap
  pc,             \* per loop: the await it is suspended at
  frame,          \* per loop: the locals alive across that await
  orderly         \* history: every start() so far found no loop running and
                  \* no half indexed block

store == <<block_header, change_record, statistic, ledger>>
vars == <<tip, ever_best, store, shutting_down, pc, frame, orderly>>

(* hash: get_block_hash(height); block: rpc::get_block; ancestor:          *)
(* get_block_hash(check_height); commit: an outcall of tx_commits_to_rune; *)
(* notify: notify_new_block.                                               *)
Await == {"hash", "block", "ancestor", "commit", "notify"}
Pc == {"idle", "timer"} \cup Await

Frame == [height   : Nat,                   \* height being indexed
          prev     : Block \cup {NoBlock},  \* index_prev_blockhash
          block    : Block \cup {NoBlock},  \* block_hash
          depth    : Nat,                   \* detect_reorg: loop variable
          indexed  : Block \cup {NoBlock},  \* detect_reorg: index_block_hash
          segment  : Nat,                   \* segments applied so far
          record   : SUBSET Segment,        \* rune_updater.change_record
          notified : Nat]                   \* subscribers already called

EmptyFrame == [height |-> FirstHeight, prev |-> NoBlock, block |-> NoBlock,
               depth |-> 0, indexed |-> NoBlock, segment |-> 0,
               record |-> {}, notified |-> 0]

-----------------------------------------------------------------------------
(* Reads and writes of the stable maps.                                    *)

LatestHeight == Max(DOMAIN block_header)
LatestBlock == IF DOMAIN block_header = {} THEN NoBlock
                                           ELSE block_header[LatestHeight]

NextHeight == IF DOMAIN block_header = {} THEN FirstHeight
                                          ELSE LatestHeight + 1

(* Block hash the Bitcoin canister reports at a height, if it has one.     *)
OnBestChain(h) == {b \in Chain[tip] : HeightOf[b] = h}

(* A half indexed block has statistics and no header.                      *)
Whole == statistic = DOMAIN block_header

-----------------------------------------------------------------------------
Init ==
  /\ tip \in Block
  /\ ever_best = Chain[tip]
  /\ block_header = << >>
  /\ change_record = << >>
  /\ statistic = {}
  /\ ledger = [s \in Segment |-> 0]
  /\ shutting_down = FALSE
  /\ pc = [p \in Loops |-> "idle"]
  /\ frame = [p \in Loops |-> EmptyFrame]
  /\ orderly = TRUE

(* The tail of update_index: the next timer is set unless a stop came.     *)
MutReschedule(p) ==
  /\ pc' = [pc EXCEPT ![p] = "timer"]
  /\ frame' = [frame EXCEPT ![p] = EmptyFrame]
Reschedule(p) ==
  /\ pc' = [pc EXCEPT ![p] = IF shutting_down THEN "idle" ELSE "timer"]
  /\ frame' = [frame EXCEPT ![p] = EmptyFrame]

(* The two `return`s of update_index that skip the tail.                   *)
MutHalt(p) == Reschedule(p)
Halt(p) ==
  /\ pc' = [pc EXCEPT ![p] = "idle"]
  /\ frame' = [frame EXCEPT ![p] = EmptyFrame]

-----------------------------------------------------------------------------
(* Administration.                                                         *)

Start(p) ==
  /\ pc[p] = "idle"
  /\ shutting_down' = FALSE
  /\ pc' = [pc EXCEPT ![p] = "timer"]
  /\ orderly' = (orderly /\ Whole /\ \A q \in Loops : pc[q] = "idle")
  /\ UNCHANGED <<tip, ever_best, store, frame>>

Stop ==
  /\ shutting_down' = TRUE
  /\ UNCHANGED <<tip, ever_best, store, pc, frame, orderly>>

(* An upgrade stops the canister first, so that no call is outstanding;    *)
(* the timer and the heap are lost and post_upgrade starts no loop.        *)
Upgrade ==
  /\ \A p \in Loops : pc[p] \in {"idle", "timer"}
  /\ pc' = [p \in Loops |-> "idle"]
  /\ shutting_down' = FALSE
  /\ UNCHANGED <<tip, ever_best, store, frame, orderly>>

-----------------------------------------------------------------------------
(* index_block and prune_change_record.                                    *)

(* The heights of H kept once the block at height h has been indexed.      *)
MutRetained(H, h) == {g \in H : g >= h - MaxReorgDepth}
Retained(H, h) == {g \in H : g > h - MaxReorgDepth}

Pruned(f, h) == Restrict(f, Retained(DOMAIN f, h))

(* RuneUpdater::update, the header insert, the pruning, then the calls to  *)
(* the subscribers; record is the block's complete change record.          *)
FinishBlock(p, b, record) ==
  LET h == frame[p].height
  IN /\ change_record' = Pruned(Put(change_record, h, record), h)
     /\ block_header' = Pruned(Put(block_header, h, b), h)
     /\ statistic' = Retained(statistic \cup {h}, h)
     /\ IF Subscribers = 0
        THEN Reschedule(p)
        ELSE /\ pc' = [pc EXCEPT ![p] = "notify"]
             /\ UNCHANGED frame

(* The RuneUpdater, and in it the change record, lives across the awaits   *)
(* of its block.                                                           *)
MutRecorded(p, s) == {s}
Recorded(p, s) == frame[p].record \cup {s}

(* One segment of b: the statistics row of the height is (re)written, the  *)
(* transactions up to the next outcall are applied, and the block is       *)
(* finished if there is none.                                              *)
IndexSegment(p, b) ==
  LET s == <<b, frame[p].segment>>
      record == Recorded(p, s)
  IN /\ ledger' = [ledger EXCEPT ![s] = @ + 1]
     /\ \/ /\ frame[p].segment = Outcalls[b]
           /\ FinishBlock(p, b, record)
        \/ /\ frame[p].segment < Outcalls[b]
           /\ statistic' = statistic \cup {frame[p].height}
           /\ pc' = [pc EXCEPT ![p] = "commit"]
           /\ frame' = [frame EXCEPT ![p] =
                [frame[p] EXCEPT !.block = b, !.record = record,
                                 !.segment = frame[p].segment + 1]]
           /\ UNCHANGED <<block_header, change_record>>

CommitAnswered(p) ==
  /\ pc[p] = "commit"
  /\ IndexSegment(p, frame[p].block)
  /\ UNCHANGED <<tip, ever_best, shutting_down, orderly>>

(* The outcall fails (or its answer panics): the error leaves index_block  *)
(* with the earlier segments written and no change record, and             *)
(* update_index returns without setting the next timer.                    *)
CommitFails(p) ==
  /\ pc[p] = "commit"
  /\ Halt(p)
  /\ UNCHANGED <<tip, ever_best, store, shutting_down, orderly>>

-----------------------------------------------------------------------------
(* detect_reorg and handle_reorg.                                          *)

MutForked(p, b) == FALSE
Forked(p, b) == frame[p].prev # NoBlock /\ frame[p].prev # Prev[b]

(* The depth loop goes on while depth is in range and the height below the *)
(* fork still has a header.                                                *)
MutRecoverable(p, depth) ==
  depth < MaxReorgDepth /\ frame[p].height - depth \in DOMAIN block_header
Recoverable(p, depth) ==
  depth <= MaxReorgDepth /\ frame[p].height - depth \in DOMAIN block_header

(* Head of the loop: ask for the hash at check_height, or give up.         *)
Probe(p, depth) ==
  \/ /\ Recoverable(p, depth)
     /\ pc' = [pc EXCEPT ![p] = "ancestor"]
     /\ frame' = [frame EXCEPT ![p] =
          [frame[p] EXCEPT !.depth = depth,
                           !.indexed = block_header[frame[p].height - depth]]]
  \/ /\ ~Recoverable(p, depth)
     /\ Halt(p)

MutRolledBack(height, depth) == (height - depth + 1)..(height - 2)
MutRolledTooFar(height, depth) == (height - depth)..(height - 1)
MutRolledDown(height, depth) == height..(height - depth + 1)
RolledBack(height, depth) == (height - depth + 1)..(height - 1)

MutUndone(H) == ledger
Undone(H) ==
  [s \in Segment |->
     IF \E h \in H \cap DOMAIN change_record : s \in change_record[h]
     THEN ledger[s] - 1 ELSE ledger[s]]

RollBack(p) ==
  LET H == RolledBack(frame[p].height, frame[p].depth)
  IN /\ ledger' = Undone(H)
     /\ change_record' = Restrict(change_record, DOMAIN change_record \ H)
     /\ statistic' = statistic \ H
     /\ block_header' = Restrict(block_header, DOMAIN block_header \ H)

AncestorAnswered(p) ==
  /\ pc[p] = "ancestor"
  /\ \E b \in OnBestChain(frame[p].height - frame[p].depth) :
       \/ /\ b = frame[p].indexed
          /\ RollBack(p)
          /\ Reschedule(p)
       \/ /\ b # frame[p].indexed
          /\ Probe(p, frame[p].depth + 1)
          /\ UNCHANGED store
  /\ UNCHANGED <<tip, ever_best, shutting_down, orderly>>

(* Error::Retry: no hash at check_height, or the outcall failed.           *)
AncestorFails(p) ==
  /\ pc[p] = "ancestor"
  /\ Reschedule(p)
  /\ UNCHANGED <<tip, ever_best, store, shutting_down, orderly>>

-----------------------------------------------------------------------------
(* update_index up to the block.                                           *)

TimerFires(p) ==
  /\ pc[p] = "timer"
  /\ pc' = [pc EXCEPT ![p] = "hash"]
  /\ frame' = [frame EXCEPT ![p] =
       [frame[p] EXCEPT !.height = NextHeight, !.prev = LatestBlock]]
  /\ UNCHANGED <<tip, ever_best, store, shutting_down, orderly>>

HashFound(p) ==
  /\ pc[p] = "hash"
  /\ \E b \in OnBestChain(frame[p].height) :
       frame' = [frame EXCEPT ![p] = [frame[p] EXCEPT !.block = b]]
  /\ pc' = [pc EXCEPT ![p] = "block"]
  /\ UNCHANGED <<tip, ever_best, store, shutting_down, orderly>>

HashNotFound(p) ==
  /\ pc[p] = "hash"
  /\ OnBestChain(frame[p].height) = {}
  /\ Reschedule(p)
  /\ UNCHANGED <<tip, ever_best, store, shutting_down, orderly>>

(* The call is rejected although the hash exists.                          *)
HashFails(p) ==
  /\ pc[p] = "hash"
  /\ OnBestChain(frame[p].height) # {}
  /\ Reschedule(p)
  /\ UNCHANGED <<tip, ever_best, store, shutting_down, orderly>>

(* get_block accepts a block only if it hashes to the requested hash and   *)
(* matches its Merkle root.                                                *)
MutVerified(p, b) == HeightOf[b] = frame[p].height
Verified(p, b) == b = frame[p].block

BlockArrives(p, b) ==
  /\ pc[p] = "block"
  /\ Verified(p, b)
  /\ \/ /\ ~Forked(p, b)
        /\ IndexSegment(p, b)
     \/ /\ Forked(p, b)
        /\ Probe(p, 1)
        /\ UNCHANGED store
  /\ UNCHANGED <<tip, ever_best, shutting_down, orderly>>

BlockFails(p) ==
  /\ pc[p] = "block"
  /\ Reschedule(p)
  /\ UNCHANGED <<tip, ever_best, store, shutting_down, orderly>>

-----------------------------------------------------------------------------
(* A subscriber answers or rejects; either way the next one is called.     *)
Notified(p) ==
  /\ pc[p] = "notify"
  /\ \/ /\ frame[p].notified + 1 < Subscribers
        /\ frame' = [frame EXCEPT ![p] =
             [frame[p] EXCEPT !.notified = frame[p].notified + 1]]
        /\ UNCHANGED pc
     \/ /\ frame[p].notified + 1 >= Subscribers
        /\ Reschedule(p)
  /\ UNCHANGED <<tip, ever_best, store, shutting_down, orderly>>

(* A panic while a block is applied or rolled back (assert!, unwrap, the   *)
(* checked arithmetic of Lot, the instruction limit), or in make_rpc (see  *)
(* RpcFetch), which on regtest also asks for the hash: the writes of this  *)
(* message are undone, those of earlier ones stay, and the loop is gone.   *)
Trap(p) ==
  /\ pc[p] \in {"hash", "block", "ancestor", "commit"}
  /\ Halt(p)
  /\ UNCHANGED <<tip, ever_best, store, shutting_down, orderly>>

(* Bitcoin moves to a higher best block, on the same branch or another.    *)
NewTip ==
  /\ \E b \in Block : /\ HeightOf[b] > HeightOf[tip]
                     /\ tip' = b
                     /\ ever_best' = ever_best \cup Chain[b]
  /\ UNCHANGED <<store, shutting_down, pc, frame, orderly>>

-----------------------------------------------------------------------------
OutcallFails(p) ==
  HashFails(p) \/ BlockFails(p) \/ AncestorFails(p) \/ CommitFails(p)

Progress(p) ==
  \/ TimerFires(p)
  \/ HashFound(p)
  \/ HashNotFound(p)
  \/ \E b \in Block : BlockArrives(p, b)
  \/ AncestorAnswered(p)
  \/ CommitAnswered(p)
  \/ Notified(p)

Admin == Stop \/ Upgrade \/ \E p \in Loops : Start(p)

Next ==
  \/ NewTip
  \/ Admin
  \/ \E p \in Loops : Progress(p) \/ OutcallFails(p) \/ Trap(p)

Spec == Init /\ [][Next]_vars

(* A subscriber or an outcall may fail, but every call is answered, and    *)
(* the timer of the Internet Computer fires: a loop never stops by being   *)
(* forgotten.                                                              *)
FairSpec == Spec /\ \A p \in Loops : WF_vars(Progress(p))

-----------------------------------------------------------------------------
(* Invariants.                                                             *)

(* The stable maps, the flag and the locals hold values of their types;    *)
(* HEIGHT_TO_BLOCK_HEADER has a latest height whenever it is not empty.    *)
TypeOK ==
  /\ tip \in Block
  /\ ever_best \in SUBSET Block
  /\ DOMAIN block_header \in SUBSET Nat
  /\ block_header \in [DOMAIN block_header -> Block]
  /\ DOMAIN change_record \in SUBSET Nat
  /\ change_record \in [DOMAIN change_record -> SUBSET Segment]
  /\ statistic \in SUBSET Nat
  /\ ledger \in [Segment -> Int]
  /\ shutting_down \in BOOLEAN
  /\ pc \in [Loops -> Pc]
  /\ frame \in [Loops -> Frame]
  /\ orderly \in BOOLEAN

(* The retained headers are a contiguous window of at most MaxReorgDepth   *)
(* heights, each block the parent of the next: what detect_reorg and       *)
(* handle_reorg take for granted when they walk it (reorg.rs:49-62, 103).  *)
LinkedWindow ==
  \A h \in DOMAIN block_header :
    /\ HeightOf[block_header[h]] = h
    /\ h > LatestHeight - MaxReorgDepth
    /\ h..LatestHeight \subseteq DOMAIN block_header
    /\ h # LatestHeight => Prev[block_header[h + 1]] = block_header[h]
WindowLinked == orderly => LinkedWindow

(* When no block is half indexed, every retained block can be undone: its  *)
(* change record exists and names exactly what the block wrote.  Without   *)
(* it handle_reorg would silently skip a height (reorg.rs:105).            *)
RecordsComplete ==
  orderly /\ Whole =>
    /\ DOMAIN change_record = DOMAIN block_header
    /\ \A h \in DOMAIN block_header :
         change_record[h] = SegmentsOf(block_header[h])

(* When no block is half indexed, the rune maps are what a replay of the   *)
(* chain that ends in the latest header gives: every segment of every      *)
(* block of that chain exactly once and nothing else, after any sequence   *)
(* of reorganisations, restarts and failed calls (updater.rs:139-197,      *)
(* reorg.rs:97-157).                                                       *)
Indexed == IF LatestBlock = NoBlock THEN {} ELSE Chain[LatestBlock]
LedgerIsReplay ==
  orderly /\ Whole =>
    \A b \in Block : \A s \in SegmentsOf(b) :
      ledger[s] = IF b \in Indexed THEN 1 ELSE 0

(* A half indexed block is the one above the latest header, and either a   *)
(* loop is suspended inside it or no loop is left: no rollback, prune or   *)
(* later block ever meets its leftovers (updater.rs:53-61, 148-169).       *)
HalfBlockIsolated ==
  orderly /\ ~Whole =>
    /\ statistic = DOMAIN block_header \cup {NextHeight}
    /\ \A p \in Loops : pc[p] \in {"idle", "commit"}

(* Only blocks that the Bitcoin canister had on its best chain are ever    *)
(* applied, whatever the RPC node serves (updater.rs:35-36, rpc.rs:263).   *)
OnlyBestChainIndexed ==
  \A s \in Segment : ledger[s] > 0 => s[1] \in ever_best

-----------------------------------------------------------------------------
(* The inductive invariant behind all of them (IndexLoopProofs).  The      *)
(* first three parts hold whatever the operator does, the others as long   *)
(* as every start found the loop idle and no half indexed block.           *)

(* The best chain only grows, so nothing the indexer holds is above it.    *)
BelowTip ==
  /\ Chain[tip] \subseteq ever_best
  /\ \A b \in ever_best : HeightOf[b] <= HeightOf[tip]
  /\ \A h \in DOMAIN block_header : h <= HeightOf[tip]

(* What a suspended loop knows about the block it works on.                *)
FrameShape(p) ==
  LET f == frame[p]
  IN /\ pc[p] \in {"idle", "timer"} => f = EmptyFrame
     /\ pc[p] \in {"hash", "block"} => f.segment = 0 /\ f.record = {}
     /\ pc[p] \in {"block", "commit"} =>
          f.block \in ever_best /\ f.height = HeightOf[f.block]
     /\ pc[p] = "commit" =>
          /\ f.segment \in 1..Outcalls[f.block]
          /\ f.record = {<<f.block, k>> : k \in 0..(f.segment - 1)}
     /\ pc[p] = "ancestor" => f.depth \in 1..MaxReorgDepth

OneLoop == \A p, q \in Loops : pc[p] # "idle" /\ pc[q] # "idle" => p = q

(* The locals of the loop agree with the maps: nobody else wrote them.     *)
FrameFresh(p) ==
  LET f == frame[p]
  IN /\ pc[p] \in {"hash", "block", "ancestor", "commit"} =>
          f.height = NextHeight /\ f.prev = LatestBlock
     /\ pc[p] = "commit" => Prev[f.block] = LatestBlock
     /\ pc[p] = "ancestor" =>
          /\ f.height - f.depth \in DOMAIN block_header
          /\ f.indexed = block_header[f.height - f.depth]

OneBranch ==
  \A h \in DOMAIN block_header : block_header[h] \in Chain[LatestBlock]

RecordsMatch ==
  /\ DOMAIN change_record = DOMAIN block_header
  /\ \A h \in DOMAIN block_header :
       change_record[h] = SegmentsOf(block_header[h])

StatisticMatches ==
  IF \E p \in Loops : pc[p] = "commit"
  THEN statistic = DOMAIN block_header \cup {NextHeight}
  ELSE \/ Whole
       \/ /\ statistic = DOMAIN block_header \cup {NextHeight}
          /\ \A p \in Loops : pc[p] = "idle"

LedgerMatches ==
  \A b \in Block : \A s \in SegmentsOf(b) :
    /\ Whole => ledger[s] = IF b \in Indexed THEN 1 ELSE 0
    /\ \A p \in Loops : pc[p] = "commit" =>
         ledger[s] = IF b \in Indexed \/ s \in frame[p].record THEN 1 ELSE 0

Basic ==
  /\ TypeOK
  /\ BelowTip
  /\ \A p \in Loops : FrameShape(p)
  /\ OnlyBestChainIndexed

Ordered ==
  /\ OneLoop
  /\ \A p \in Loops : FrameFresh(p)
  /\ LinkedWindow
  /\ OneBranch
  /\ RecordsMatch
  /\ StatisticMatches
  /\ LedgerMatches

Inductive == Basic /\ (orderly => Ordered)

-----------------------------------------------------------------------------
(* Action properties.                                                      *)

FloorHeight == Min(DOMAIN block_header)
Final == IF DOMAIN block_header = {} THEN {}
                                     ELSE Chain[block_header[FloorHeight]]

(* The lowest retained block and everything below it are final: no step    *)
(* undoes or repeats any part of them, and the floor never sinks           *)
(* (reorg.rs:103, 165-174).                                                *)
KeepsFinal ==
  orderly' /\ DOMAIN block_header # {} =>
    /\ DOMAIN block_header' # {}
    /\ FloorHeight <= FloorHeight'
    /\ \A b \in Final : \A s \in SegmentsOf(b) : ledger'[s] = ledger[s]
FinalityKept == [][KeepsFinal]_vars

(* A running loop gives a reorganisation up as unrecoverable only if no    *)
(* retained block is on the best chain, even when the best chain changes   *)
(* between two of the probes (reorg.rs:49-91).                             *)
HaltsOnlyBelowFloor ==
  [][ \A p \in Loops :
        /\ orderly
        /\ AncestorAnswered(p)
        /\ pc'[p] = "idle"
        /\ ~shutting_down
        => \A h \in DOMAIN block_header : block_header[h] \notin Chain[tip]
    ]_vars

(* A failed outcall does not end the loop: the block is tried again after  *)
(* the next timer, unless a stop was asked for (updater.rs:94-132).        *)
OutcallFailureRetried ==
  [][ \A p \in Loops :
        OutcallFails(p) => pc'[p] = "timer" \/ shutting_down ]_vars

(* No part of a block is ever applied twice without being undone between.  *)
AppliedOnce == \A s \in Segment : ledger[s] <= 1

-----------------------------------------------------------------------------
(* Refinement.                                                             *)

Head == LatestBlock
Floor == IF DOMAIN block_header = {} THEN NoBlock ELSE block_header[FloorHeight]
Applied == {b \in Block : \A s \in SegmentsOf(b) : ledger[s] > 0}

Abstract == INSTANCE ChainIndex
              WITH best <- tip, seen <- ever_best,
                   head <- Head, floor <- Floor, applied <- Applied

(* As long as every start was orderly, the loop with its outcalls, failed  *)
(* calls, traps, prunings and change records is one indexed branch that    *)
(* grows by whole blocks and is cut back to common ancestors above the     *)
(* floor: nobody outside can tell a block in progress or a failed attempt  *)
(* from no attempt at all (updater.rs:31-197, reorg.rs:29-174).            *)
Implements == Abstract!Spec

-----------------------------------------------------------------------------
(* Liveness.                                                               *)

(* Interference, failed calls and traps; a failure that leaves what a good *)
(* answer would have left is none.                                         *)
Disturbance ==
  \/ Admin
  \/ \E p \in Loops : (OutcallFails(p) \/ Trap(p)) /\ ~Progress(p)

(* Once calls stop failing and nobody interferes, a loop that has not      *)
(* given up indexes the best chain to its tip, through every               *)
(* reorganisation on the way, and stays there (updater.rs:31-137).         *)
CatchesUp ==
  /\ <>[][~Disturbance]_vars
  /\ <>[](\E p \in Loops : pc[p] # "idle")
  => <>[](LatestBlock = tip)

(* A stop takes effect: every loop ends, unless a start or an upgrade      *)
(* clears the flag first (updater.rs:124-132, main.rs:185-196).            *)
StopTakesEffect ==
  shutting_down ~> (~shutting_down \/ \A p \in Loops : pc[p] = "idle")

=============================================================================
