---------------------------- MODULE MCCommitCheck ----------------------------
(* An instance of CommitCheck: two branches that hold the same             *)
(* transactions at different heights, and transactions with up to two      *)
(* inputs of every kind.                                                   *)
EXTENDS CommitCheck, SequencesExt

CONSTANTS a0, a1, a2, a3, b1, b2, b3, b4, early, late, plain

Branches == {<<a0, a1, a2, a3>>, <<a0, b1, b2, b3, b4>>}
MCBlock == UNION {ToSet(br) : br \in Branches}

Site(b) == CHOOSE s \in Branches \X (1..5) :
             s[2] \in DOMAIN s[1] /\ s[1][s[2]] = b

MCHeightOf == [b \in MCBlock |-> Site(b)[2] - 1]
MCPrev == [b \in MCBlock |->
             LET s == Site(b) IN IF s[2] = 1 THEN NoBlock
                                             ELSE s[1][s[2] - 1]]
MCChain == [b \in MCBlock |->
              LET s == Site(b) IN {s[1][i] : i \in 1..s[2]}]

(* early is three blocks older on the a branch than on the b branch, late  *)
(* is younger on the a branch.                                             *)
MCMined == [b \in MCBlock |->
              CASE b = a1 -> {early}
                [] b = b4 -> {early}
                [] b = a3 -> {late}
                [] b = b2 -> {late}
                [] b = a0 -> {plain}
                [] OTHER -> {}]

Scripts ==
  {<< >>, <<"commitment">>, <<"other", "commitment">>, <<"error", "commitment">>}
Input == [spends : {early, late, plain}, script : Scripts]
MCSpending == {<<i>> : i \in Input} \cup (Input \X Input)
=============================================================================
