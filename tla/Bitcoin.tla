------------------------------- MODULE Bitcoin -------------------------------
(***************************************************************************)
(* The Bitcoin block tree, as far as the indexer can tell blocks apart.    *)
(* It is external: the indexer sees it through two services, the Bitcoin   *)
(* canister (bitcoin_get_block_headers) and a Bitcoin RPC node.  A block   *)
(* stands for its hash, which fixes its header, its height and its whole   *)
(* ancestry.                                                               *)
(***************************************************************************)
EXTENDS Integers

CONSTANTS
  Block,        \* the blocks that are ever mined
  NoBlock,      \* "no hash": Option::None, or an answer that is not a block
  FirstHeight,  \* Rune::first_rune_height(network), where indexing starts
  HeightOf,     \* [Block -> Nat]
  Prev,         \* header.prev_blockhash, or NoBlock when the parent lies
                \* below FirstHeight
  Chain         \* [Block -> SUBSET Block], a block with all its ancestors

(* What is taken from Bitcoin itself: parents are one lower than their     *)
(* children, and the ancestry of a block is a path with exactly one block  *)
(* at every height from FirstHeight up to the block.                       *)
ASSUME BlockTreeAssumption ==
  /\ NoBlock \notin Block
  /\ FirstHeight \in Nat
  /\ HeightOf \in [Block -> Nat]
  /\ Prev \in [Block -> Block \cup {NoBlock}]
  /\ Chain \in [Block -> SUBSET Block]
  /\ \A b \in Block :
       /\ HeightOf[b] >= FirstHeight
       /\ Prev[b] = NoBlock <=> HeightOf[b] = FirstHeight
       /\ Prev[b] \in Block => /\ HeightOf[b] = HeightOf[Prev[b]] + 1
                               /\ Chain[b] = {b} \cup Chain[Prev[b]]
       /\ Prev[b] = NoBlock => Chain[b] = {b}
       /\ b \in Chain[b]

ASSUME AncestryAssumption ==
  \A b \in Block :
    /\ \A c \in Chain[b] :
         /\ HeightOf[c] <= HeightOf[b]
         /\ Chain[c] = {d \in Chain[b] : HeightOf[d] <= HeightOf[c]}
    /\ \A c, d \in Chain[b] : HeightOf[c] = HeightOf[d] => c = d
    /\ \A h \in FirstHeight..HeightOf[b] : \E c \in Chain[b] : HeightOf[c] = h

=============================================================================
