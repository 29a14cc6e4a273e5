------------------------------ MODULE ChainIndex ------------------------------
(***************************************************************************)
(* What the indexer promises, without loops, calls, records and windows:   *)
(* a set of applied blocks that is always the ancestry of one block, the   *)
(* head.  The head moves to one of its children, or back to an ancestor    *)
(* that is on the best chain, never below the floor; the floor only moves  *)
(* up and stays less than MaxReorgDepth blocks below the head it was moved *)
(* for.  IndexLoop implements this specification (its Implements).         *)
(***************************************************************************)
EXTENDS Bitcoin

CONSTANT MaxReorgDepth  \* get_max_recoverable_reorg_depth(network)

VARIABLES
  best,     \* the best block
  seen,     \* the blocks that were on the best chain so far
  head,     \* the latest applied block, or NoBlock
  floor,    \* the latest block that is final, or NoBlock
  applied   \* the blocks whose transactions are in the rune maps

vars == <<best, seen, head, floor, applied>>

Init ==
  /\ best \in Block
  /\ seen = Chain[best]
  /\ head = NoBlock
  /\ floor = NoBlock
  /\ applied = {}

BestMoves ==
  /\ \E b \in Block : /\ HeightOf[b] > HeightOf[best]
                     /\ best' = b
                     /\ seen' = seen \cup Chain[b]
  /\ UNCHANGED <<head, floor, applied>>

(* A child of the head is applied, as a whole.                             *)
Extend(b) ==
  /\ b \in seen
  /\ Prev[b] = head
  /\ head' = b
  /\ applied' = applied \cup {b}
  /\ floor' \in Chain[b]
  /\ floor # NoBlock => floor \in Chain[floor']
  /\ HeightOf[b] - HeightOf[floor'] < MaxReorgDepth
  /\ UNCHANGED <<best, seen>>

(* A reorganisation: everything above a common ancestor is taken back.     *)
Retreat(c) ==
  /\ head # NoBlock
  /\ c \in Chain[head] \cap Chain[best]
  /\ floor \in Chain[c]
  /\ head' = c
  /\ applied' = {b \in applied : HeightOf[b] <= HeightOf[c]}
  /\ UNCHANGED <<best, seen, floor>>

Next == BestMoves \/ \E b \in Block : Extend(b) \/ Retreat(b)

Spec == Init /\ [][Next]_vars

=============================================================================
