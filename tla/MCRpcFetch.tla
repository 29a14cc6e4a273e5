------------------------------ MODULE MCRpcFetch ------------------------------
(* An instance of RpcFetch with ranges of four and then five bytes, and    *)
(* replies of most lengths up to three ranges.  Replies of equal length   *)
(* and of different ones may take each other's place.                      *)
EXTENDS RpcFetch, FiniteSets

MCReply == (2..10) \cup {13, 14, 15, 104, 106, 110}
MCSize == [r \in MCReply |-> r % 100]
MCNewline == {5, 7, 8, 110}
MCGood == MCReply \ {3, 8, 13}

(* State constraint: the reply changes to one other reply and back.        *)
FewMoves == Cardinality(seen) <= 2

=============================================================================
