----------------------------- MODULE MCIndexLoop -----------------------------
(* Instances of IndexLoop: a block tree with one fork that the window      *)
(* still covers (b leaves a at height 1) and one that it does not (c       *)
(* leaves at height 0), for MaxReorgDepth = 3.                             *)
EXTENDS IndexLoop

CONSTANTS a0, a1, a2, a3, b2, b3, b4, c1, c2, c3, c4, c5

A == <<a0, a1, a2, a3>>
B == <<a0, a1, b2, b3, b4>>
C == <<a0, c1, c2, c3, c4, c5>>
CONSTANT Branches  \* the branches that are mined in this instance
AB == {A, B}
ABC == {A, B, C}

MCBlock == UNION {Range(br) : br \in Branches}

Site(b) == CHOOSE at \in Branches \X (1..6) :
             at[2] \in DOMAIN at[1] /\ at[1][at[2]] = b

MCHeightOf == [b \in MCBlock |-> Site(b)[2] - 1]
MCPrev == [b \in MCBlock |->
             LET at == Site(b) IN IF at[2] = 1 THEN NoBlock
                                              ELSE at[1][at[2] - 1]]
MCChain == [b \in MCBlock |->
              LET at == Site(b) IN {at[1][i] : i \in 1..at[2]}]

(* Which blocks hold etchings whose commitment has to be looked up.        *)
NoOutcalls == [b \in MCBlock |-> 0]
SomeOutcalls == [b \in MCBlock |-> IF b \in {a1, b3} THEN 1 ELSE 0]

(* State constraints: for the runs that assume an orderly operator, and    *)
(* for those that do not and may apply a segment without end.              *)
Orderly == orderly
AppliedTwice == \A s \in Segment : ledger[s] <= 2
=============================================================================
