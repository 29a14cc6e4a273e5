------------------------------ MODULE CommitCheck ------------------------------
(***************************************************************************)
(* One call of tx_commits_to_rune: does a transaction of the block being   *)
(* indexed commit to the rune it etches, by revealing the commitment in a  *)
(* tapscript of a taproot output that is old enough?  How old the output   *)
(* is, the Bitcoin RPC node says in two answers, the hash of the block     *)
(* that holds the transaction and the height of that block: it follows its *)
(* own best chain, which may leave the branch of the block being indexed   *)
(* at any time.                                                            *)
(*                                                                         *)
(* IndexLoop has the outcalls of this module as its await "commit", and    *)
(* RuneLedger has its outcomes as the alternatives of TxEnds and           *)
(* CommitFails.                                                            *)
(***************************************************************************)
EXTENDS Bitcoin, Sequences, FiniteSets

CONSTANTS
  Output,              \* the transactions whose outputs may be spent
  Mined,               \* [Block -> SUBSET Output], the ones in each block
  Taproot,             \* the ones whose output pays to taproot
  Spending,            \* the inputs of the transactions to be checked, each a
                       \* sequence of [spends, script]
  CommitConfirmations, \* Runestone::COMMIT_CONFIRMATIONS, 6
  MaxSeen              \* bound: best blocks of the node during the call

(* A script is a sequence of instructions: "commitment" pushes the         *)
(* commitment of the rune, "error" cannot be decoded, "other" is any       *)
(* other; an input without a tapscript has the empty one.                  *)
Instruction == {"commitment", "error", "other"}

ASSUME CommitAssumption ==
  /\ Mined \in [Block -> SUBSET Output]
  /\ Taproot \subseteq Output
  /\ Spending \subseteq Seq([spends : Output, script : Seq(Instruction)])
  /\ CommitConfirmations \in Nat \ {0}
  /\ MaxSeen \in Nat \ {0}
  /\ \A b \in Block : \A c, d \in Chain[b] : Mined[c] \cap Mined[d] # {} => c = d

VARIABLES
  block,   \* the block being indexed; its height is RuneUpdater.height
  inputs,  \* tx.input
  node,    \* best block of the RPC node
  seen,    \* history: its best blocks since the call began
  at,      \* the instruction under inspection: [input, instruction]
  found,   \* tx_info.blockhash
  pc,      \* scan | transaction | header | done
  result,  \* none | true | false | err | trap
  smooth   \* history: no outcall failed or panicked

vars == <<block, inputs, node, seen, at, found, pc, result, smooth>>

Holds(b, o) == \E c \in Chain[b] : o \in Mined[c]

(* What a block spends is mined in it or below.                            *)
Init ==
  /\ block \in Block
  /\ inputs \in {s \in Spending :
                   \A i \in DOMAIN s : Holds(block, s[i].spends)}
  /\ node \in Block
  /\ seen = {node}
  /\ at = [input |-> 1, instruction |-> 1]
  /\ found = NoBlock
  /\ pc = "scan"
  /\ result = "none"
  /\ smooth = TRUE

-----------------------------------------------------------------------------
Return(r) ==
  /\ pc' = "done"
  /\ result' = r

NextInput == [input |-> at.input + 1, instruction |-> 1]
MutNextInstruction == [at EXCEPT !.instruction = 1]
NextInstruction == [at EXCEPT !.instruction = at.instruction + 1]

AfterError == NextInput

(* The two loops up to the next commitment, one turn at a time.            *)
Scan ==
  /\ pc = "scan"
  /\ \/ /\ at.input > Len(inputs)
        /\ Return("false")
        /\ UNCHANGED at
     \/ /\ at.input <= Len(inputs)
        /\ LET script == inputs[at.input].script
           IN \/ /\ at.instruction > Len(script)
                 /\ at' = NextInput
                 /\ UNCHANGED pc
              \/ /\ at.instruction <= Len(script)
                 /\ script[at.instruction] = "error"
                 /\ at' = AfterError
                 /\ UNCHANGED pc
              \/ /\ at.instruction <= Len(script)
                 /\ script[at.instruction] = "other"
                 /\ at' = NextInstruction
                 /\ UNCHANGED pc
              \/ /\ at.instruction <= Len(script)
                 /\ script[at.instruction] = "commitment"
                 /\ pc' = "transaction"
                 /\ UNCHANGED at
        /\ UNCHANGED result
  /\ UNCHANGED <<block, inputs, node, seen, found, smooth>>

Spent == inputs[at.input].spends

(* get_raw_transaction_info: the transaction, and the hash of the block    *)
(* that holds it on the best chain of the node, if one does.               *)
MutPaysTaproot == TRUE
PaysTaproot == Spent \in Taproot

MutSkipped == Return("err") /\ UNCHANGED at
Skipped ==
  /\ at' = NextInstruction
  /\ pc' = "scan"
  /\ UNCHANGED result

TransactionAnswered ==
  /\ pc = "transaction"
  /\ \/ /\ ~PaysTaproot
        /\ Skipped
        /\ UNCHANGED found
     \/ /\ PaysTaproot
        /\ ~Holds(node, Spent)
        /\ Return("err")
        /\ UNCHANGED <<at, found>>
     \/ /\ PaysTaproot
        /\ \E c \in Chain[node] : Spent \in Mined[c] /\ found' = c
        /\ pc' = "header"
        /\ UNCHANGED <<at, result>>
  /\ UNCHANGED <<block, inputs, node, seen, smooth>>

(* get_block_header_info: the height of that block, which may have left    *)
(* the best chain; the subtraction panics below zero.                      *)
MutUpdaterHeight == HeightOf[block] - 1
UpdaterHeight == HeightOf[block]
MutConfirmations == UpdaterHeight - HeightOf[found]
Confirmations == UpdaterHeight - HeightOf[found] + 1

HeaderAnswered ==
  /\ pc = "header"
  /\ \/ /\ HeightOf[found] > UpdaterHeight
        /\ Return("trap")
        /\ UNCHANGED at
     \/ /\ HeightOf[found] <= UpdaterHeight
        /\ Confirmations >= CommitConfirmations
        /\ Return("true")
        /\ UNCHANGED at
     \/ /\ HeightOf[found] <= UpdaterHeight
        /\ Confirmations < CommitConfirmations
        /\ Skipped
  /\ found' = NoBlock
  /\ UNCHANGED <<block, inputs, node, seen, smooth>>

(* Either outcall may fail or panic in make_rpc (see RpcFetch), fail also  *)
(* because the node does not know the transaction.                         *)
OutcallFails ==
  /\ pc \in {"transaction", "header"}
  /\ \E r \in {"err", "trap"} : Return(r)
  /\ smooth' = FALSE
  /\ UNCHANGED <<block, inputs, node, seen, at, found>>

(* The node is another one of several, or has seen another best block.     *)
NodeMoves ==
  /\ pc # "done"
  /\ node' \in IF Cardinality(seen) < MaxSeen THEN Block \ {node}
                                           ELSE seen \ {node}
  /\ seen' = seen \cup {node'}
  /\ UNCHANGED <<block, inputs, at, found, pc, result, smooth>>

Steps == Scan \/ TransactionAnswered \/ HeaderAnswered \/ OutcallFails

Next == Steps \/ NodeMoves

Spec == Init /\ [][Next]_vars

(* Every outcall comes to an end (RpcFetch, Ends).                         *)
FairSpec == Spec /\ WF_vars(Steps)

-----------------------------------------------------------------------------
(* Properties.                                                             *)

(* What it means to commit, on the branch of a block: an input reveals the *)
(* commitment where a script can be read up to it, and spends a taproot    *)
(* output that was confirmed often enough when the block was mined.        *)
Reveals(script) ==
  \E i \in DOMAIN script :
    script[i] = "commitment" /\ \A j \in 1..i : script[j] # "error"

Commits(s, b) ==
  \E i \in DOMAIN s :
    /\ Reveals(s[i].script)
    /\ s[i].spends \in Taproot
    /\ \E c \in Chain[b] :
         /\ s[i].spends \in Mined[c]
         /\ HeightOf[b] - HeightOf[c] + 1 >= CommitConfirmations

(* The node is on the branch of the block, perhaps behind it or ahead.     *)
OnBranch(n) == block \in Chain[n] \/ n \in Chain[block]

(* While the node stays on the branch of the block, the answer is what the *)
(* branch says, whenever the node moves (rune_updater.rs:384-441).         *)
AnswerIsOfBranch ==
  result \in {"true", "false"} /\ (\A n \in seen : OnBranch(n)) =>
    (result = "true" <=> Commits(inputs, block))

(* Wherever the node is when it answers, a commitment is only accepted     *)
(* from a transaction that was deep enough on some chain it had as its     *)
(* best (rune_updater.rs:408-436).                                         *)
AcceptedFromSomeChain ==
  result = "true" =>
    \E n \in seen : \E c \in Chain[n] :
      /\ Spent \in Mined[c] \cap Taproot
      /\ HeightOf[c] + CommitConfirmations <= HeightOf[block] + 1

(* Where make_rpc did not panic itself, the subtraction did, and that      *)
(* needs a node that left the branch: one that is only ahead or behind     *)
(* cannot cause it (rune_updater.rs:428-432).                              *)
TrapsOnlyOffBranch ==
  result = "trap" /\ smooth => \E n \in seen : ~OnBranch(n)

(* The block fails only for an outcall that failed, or a node that does    *)
(* not know the block being indexed (rune_updater.rs:408-426).             *)
FailsForACause ==
  result = "err" => ~smooth \/ \E n \in seen : block \notin Chain[n]

(* The answer comes, whatever the node does (rune_updater.rs:384-441).     *)
Ends == <>(pc = "done")

=============================================================================
