--------------------------- MODULE CommitCheckProofs ---------------------------
(***************************************************************************)
(* Machine-checked proofs about CommitCheck, for every block tree, every   *)
(* transaction and any moves of the node.                                  *)
(***************************************************************************)
EXTENDS CommitCheck, TLAPS

Place == [input : Nat \ {0}, instruction : Nat \ {0}]

(* What the proofs need of the types.                                      *)
Typed ==
  /\ block \in Block
  /\ inputs \in Spending
  /\ node \in seen
  /\ seen \subseteq Block
  /\ at \in Place
  /\ found \in Block \cup {NoBlock}
  /\ pc \in {"scan", "transaction", "header", "done"}
  /\ pc # "done" => result = "none"

(* What the block spends is on its branch.                                 *)
SpentOnBranch == \A i \in DOMAIN inputs : Holds(block, inputs[i].spends)

(* The node never left the branch of the block.                            *)
Stayed == \A n \in seen : OnBranch(n)

AtCommitment ==
  /\ at.input \in DOMAIN inputs
  /\ at.instruction \in DOMAIN inputs[at.input].script
  /\ inputs[at.input].script[at.instruction] = "commitment"

(* Everything before the instruction under inspection could be decoded.    *)
Decoded ==
  at.input \in DOMAIN inputs =>
    \A j \in DOMAIN inputs[at.input].script :
      j < at.instruction => inputs[at.input].script[j] # "error"

(* The i-th input spends a taproot output that is old enough.              *)
Qualifies(i) ==
  /\ inputs[i].spends \in Taproot
  /\ \E c \in Chain[block] :
       /\ inputs[i].spends \in Mined[c]
       /\ HeightOf[block] - HeightOf[c] + 1 >= CommitConfirmations

(* Nothing before the instruction under inspection commits.                *)
NoneSoFar ==
  \A i \in DOMAIN inputs :
    /\ i < at.input => ~(Reveals(inputs[i].script) /\ Qualifies(i))
    /\ i = at.input =>
         \A j \in DOMAIN inputs[i].script :
           j < at.instruction /\ inputs[i].script[j] = "commitment" => ~Qualifies(i)

Found ==
  /\ found \in Block
  /\ Spent \in Taproot
  /\ Spent \in Mined[found]
  /\ \E n \in seen : found \in Chain[n]

Searching ==
  /\ pc \in {"transaction", "header"} => AtCommitment
  /\ pc # "done" => Decoded /\ (Stayed => NoneSoFar)
  /\ pc = "header" => Found

CommitInductive ==
  /\ Typed
  /\ SpentOnBranch
  /\ Searching
  /\ AnswerIsOfBranch
  /\ AcceptedFromSomeChain
  /\ TrapsOnlyOffBranch
  /\ FailsForACause

-----------------------------------------------------------------------------
(* A block on the chain of a node that is on the branch of the block being *)
(* indexed is on that branch as well, unless it is above the block.        *)
LEMMA BranchesAgree ==
  ASSUME NEW b \in Block, NEW n \in Block, NEW c \in Chain[n],
         b \in Chain[n] \/ n \in Chain[b], HeightOf[c] <= HeightOf[b]
  PROVE  c \in Chain[b]
<1>1. CASE b \in Chain[n]
  BY <1>1, AncestryAssumption
<1>2. CASE n \in Chain[b]
  <2>1. Chain[n] = {d \in Chain[b] : HeightOf[d] <= HeightOf[n]}
    BY <1>2, AncestryAssumption
  <2> QED BY <2>1
<1> QED BY <1>1, <1>2

(* What the branch of a block holds, a node that is ahead of it holds.     *)
LEMMA AheadHolds ==
  ASSUME NEW b \in Block, NEW n \in Block, b \in Chain[n],
         NEW o, Holds(b, o)
  PROVE  Holds(n, o)
<1>1. Chain[b] = {d \in Chain[n] : HeightOf[d] <= HeightOf[b]}
  BY AncestryAssumption
<1> QED BY <1>1 DEF Holds

(* Where the node never left the branch, the block of the transaction it   *)
(* found is the one on the branch.                                         *)
LEMMA FoundOnBranch ==
  ASSUME Typed, SpentOnBranch, AtCommitment, Found, Stayed
  PROVE  /\ found \in Chain[block]
         /\ HeightOf[found] <= HeightOf[block]
         /\ \A c \in Chain[block] : Spent \in Mined[c] => c = found
<1>1. PICK n \in seen : found \in Chain[n]
  BY DEF Found
<1>2. n \in Block /\ block \in Block /\ OnBranch(n)
  BY <1>1 DEF Typed, Stayed
<1>3. PICK d \in Chain[block] : Spent \in Mined[d]
  BY DEF SpentOnBranch, AtCommitment, Holds, Spent
<1>4. Chain[block] \subseteq Block /\ HeightOf[d] <= HeightOf[block]
  BY <1>2, <1>3, AncestryAssumption, BlockTreeAssumption
<1>5. found \in Chain[block]
  <2>1. CASE block \in Chain[n]
    <3>1. d \in Chain[n]
      BY <1>2, <1>3, <2>1, AncestryAssumption
    <3>2. d = found
      BY <1>1, <1>2, <1>3, <3>1, CommitAssumption DEF Found
    <3> QED BY <1>3, <3>2
  <2>2. CASE n \in Chain[block]
    BY <1>1, <1>2, <2>2, AncestryAssumption
  <2> QED BY <1>2, <2>1, <2>2 DEF OnBranch
<1>6. \A c \in Chain[block] : Spent \in Mined[c] => c = found
  BY <1>2, <1>5, CommitAssumption DEF Found
<1> QED BY <1>2, <1>5, <1>6, AncestryAssumption

LEMMA SequenceFacts ==
  ASSUME NEW T, NEW s \in Seq(T)
  PROVE  /\ Len(s) \in Nat
         /\ DOMAIN s = 1..Len(s)
         /\ \A i \in DOMAIN s : s[i] \in T
OBVIOUS

LEMMA InputFacts ==
  ASSUME Typed
  PROVE  /\ inputs \in Seq([spends : Output, script : Seq(Instruction)])
         /\ Len(inputs) \in Nat
         /\ DOMAIN inputs = 1..Len(inputs)
         /\ \A i \in DOMAIN inputs :
              /\ inputs[i].script \in Seq(Instruction)
              /\ Len(inputs[i].script) \in Nat
              /\ DOMAIN inputs[i].script = 1..Len(inputs[i].script)
<1>1. inputs \in Seq([spends : Output, script : Seq(Instruction)])
  BY CommitAssumption DEF Typed
<1>2. Len(inputs) \in Nat /\ DOMAIN inputs = 1..Len(inputs)
  BY <1>1, SequenceFacts
<1>3. ASSUME NEW i \in DOMAIN inputs
      PROVE  inputs[i].script \in Seq(Instruction)
  <2>1. inputs[i] \in [spends : Output, script : Seq(Instruction)]
    BY <1>1, <1>3, SequenceFacts
  <2> QED BY <2>1
<1>4. ASSUME NEW i \in DOMAIN inputs
      PROVE  /\ Len(inputs[i].script) \in Nat
             /\ DOMAIN inputs[i].script = 1..Len(inputs[i].script)
  BY <1>3, SequenceFacts
<1> QED BY <1>1, <1>2, <1>3, <1>4

LEMMA InitHolds == Init => CommitInductive
<1> SUFFICES ASSUME Init PROVE CommitInductive
  OBVIOUS
<1>1. Typed
  BY DEF Init, Typed, Place
<1>2. SpentOnBranch
  BY DEF Init, SpentOnBranch
<1>3. Searching
  <2>1. at.input = 1 /\ at.instruction = 1 /\ pc = "scan"
    BY DEF Init
  <2>2. Decoded
    BY <1>1, <2>1, InputFacts DEF Decoded
  <2>3. NoneSoFar
    <3>1. \A i \in DOMAIN inputs : ~(i < 1)
      BY <1>1, InputFacts
    <3>2. \A i \in DOMAIN inputs : \A j \in DOMAIN inputs[i].script : ~(j < 1)
      BY <1>1, InputFacts
    <3> QED BY <2>1, <3>1, <3>2 DEF NoneSoFar
  <2> QED BY <2>1, <2>2, <2>3 DEF Searching
<1>4. AnswerIsOfBranch /\ AcceptedFromSomeChain /\ TrapsOnlyOffBranch /\ FailsForACause
  BY DEF Init, AnswerIsOfBranch, AcceptedFromSomeChain, TrapsOnlyOffBranch,
         FailsForACause
<1> QED BY <1>1, <1>2, <1>3, <1>4 DEF CommitInductive

(* A turn of the two loops: to the next input, to the next instruction, to *)
(* a commitment or to the end.                                             *)
LEMMA ScanKeepsPlace ==
  ASSUME CommitInductive, Scan
  PROVE  Typed' /\ Searching' /\ AnswerIsOfBranch'
<1> USE DEF CommitInductive
<1>1. /\ pc = "scan" /\ result = "none" /\ Decoded
      /\ UNCHANGED <<block, inputs, node, seen, found, smooth>>
      /\ at.input \in Nat \ {0} /\ at.instruction \in Nat \ {0}
      /\ Stayed => NoneSoFar
  BY DEF Scan, Typed, Searching, Place
<1>2. Len(inputs) \in Nat /\ DOMAIN inputs = 1..Len(inputs)
  BY InputFacts
<1>3. /\ Stayed' <=> Stayed
      /\ \A i : Qualifies(i)' <=> Qualifies(i)
  BY <1>1 DEF Stayed, OnBranch, Qualifies
<1> DEFINE script == inputs[at.input].script
<1>4. CASE at.input > Len(inputs)
  <2>1. pc' = "done" /\ result' = "false" /\ at' = at
    BY <1>1, <1>4 DEF Scan, Return
  <2>2. Stayed => ~Commits(inputs, block)
    <3> SUFFICES ASSUME Stayed, NEW i \in DOMAIN inputs
                 PROVE  ~(Reveals(inputs[i].script) /\ Qualifies(i))
      BY DEF Commits, Qualifies
    <3>1. i < at.input
      BY <1>1, <1>2, <1>4
    <3> QED BY <1>1, <3>1 DEF NoneSoFar
  <2>3. AnswerIsOfBranch'
    BY <1>1, <1>3, <2>1, <2>2 DEF AnswerIsOfBranch, Stayed, Commits
  <2> QED BY <1>1, <2>1, <2>3 DEF Typed, Searching
<1>5. CASE at.input <= Len(inputs)
  <2>1. result' = "none" /\ at.input \in DOMAIN inputs
    BY <1>1, <1>2, <1>5 DEF Scan
  <2>2. /\ script \in Seq(Instruction) /\ Len(script) \in Nat
        /\ DOMAIN script = 1..Len(script)
    BY <2>1, InputFacts
  <2>3. AnswerIsOfBranch'
    BY <2>1 DEF AnswerIsOfBranch
  <2>4. CASE /\ at' = NextInput
             /\ pc' = pc
             /\ Reveals(script) =>
                  \E j \in DOMAIN script :
                    j < at.instruction /\ script[j] = "commitment"
    <3>1. Typed'
      BY <1>1, <2>1, <2>4 DEF Typed, Place, NextInput
    <3>2. at'.input = at.input + 1 /\ at'.instruction = 1
      BY <2>4 DEF NextInput
    <3>3. Decoded'
      BY <1>1, <1>2, <3>1, <3>2, InputFacts DEF Decoded
    <3>4. ASSUME Stayed', NEW i \in DOMAIN inputs, i < at'.input
          PROVE  ~(Reveals(inputs[i].script) /\ Qualifies(i))
      <4>1. NoneSoFar
        BY <1>1, <1>3, <3>4
      <4>2. CASE i < at.input
        BY <4>1, <4>2 DEF NoneSoFar
      <4>3. CASE i = at.input
        BY <2>4, <4>1, <4>3 DEF NoneSoFar
      <4> QED BY <1>1, <1>2, <3>2, <3>4, <4>2, <4>3
    <3>5. ASSUME NEW i \in DOMAIN inputs, NEW j \in DOMAIN inputs[i].script
          PROVE  ~(j < at'.instruction)
      BY <3>2, InputFacts
    <3>6. Stayed' => NoneSoFar'
      BY <1>1, <1>3, <3>4, <3>5 DEF NoneSoFar
    <3> QED BY <1>1, <2>3, <2>4, <3>1, <3>3, <3>6 DEF Searching
  <2>5. CASE /\ at' = NextInstruction
             /\ pc' = pc
             /\ at.instruction <= Len(script)
             /\ script[at.instruction] = "other"
    <3>1. at'.input = at.input /\ at'.instruction = at.instruction + 1 /\ at' \in Place
      BY <1>1, <2>5 DEF NextInstruction, Typed, Place
    <3>2. Typed'
      BY <1>1, <2>1, <2>5, <3>1 DEF Typed
    <3>3. \A j \in DOMAIN script : j < at'.instruction =>
            j < at.instruction \/ j = at.instruction
      BY <1>1, <2>2, <3>1
    <3>4. Decoded'
      BY <1>1, <2>5, <3>1, <3>3 DEF Decoded
    <3>5. Stayed' => NoneSoFar'
      BY <1>1, <1>3, <2>5, <3>1, <3>3 DEF NoneSoFar
    <3> QED BY <1>1, <2>3, <2>5, <3>2, <3>4, <3>5 DEF Searching
  <2>6. CASE /\ at' = at
             /\ pc' = "transaction"
             /\ at.instruction <= Len(script)
             /\ script[at.instruction] = "commitment"
    <3>1. AtCommitment'
      BY <1>1, <2>1, <2>2, <2>6 DEF AtCommitment
    <3>2. Typed'
      BY <1>1, <2>1, <2>6 DEF Typed
    <3>3. Decoded' /\ (Stayed' => NoneSoFar')
      BY <1>1, <1>3, <2>6 DEF Decoded, NoneSoFar
    <3> QED BY <2>3, <2>6, <3>1, <3>2, <3>3 DEF Searching
  <2>7. \/ at' = NextInput /\ pc' = pc /\ at.instruction > Len(script)
        \/ /\ at' = NextInput /\ pc' = pc
           /\ at.instruction <= Len(script) /\ script[at.instruction] = "error"
        \/ /\ at' = NextInstruction /\ pc' = pc
           /\ at.instruction <= Len(script) /\ script[at.instruction] = "other"
        \/ /\ at' = at /\ pc' = "transaction"
           /\ at.instruction <= Len(script)
           /\ script[at.instruction] = "commitment"
    BY <1>1, <1>2, <1>5 DEF Scan, AfterError
  <2>8. CASE at.instruction > Len(script) /\ at' = NextInput /\ pc' = pc
    BY <1>1, <2>2, <2>4, <2>8 DEF Reveals
  <2>9. CASE /\ at' = NextInput /\ pc' = pc
             /\ at.instruction <= Len(script) /\ script[at.instruction] = "error"
    <3>1. ASSUME NEW i \in DOMAIN script, script[i] = "commitment",
                 \A j \in 1..i : script[j] # "error"
          PROVE  i < at.instruction
      BY <1>1, <2>2, <2>9, <3>1
    <3> QED BY <2>4, <2>9, <3>1 DEF Reveals
  <2> QED BY <2>5, <2>6, <2>7, <2>8, <2>9
<1> QED BY <1>1, <1>2, <1>4, <1>5

(* The search goes on after a commitment that does not count.              *)
LEMMA SkippedKeepsPlace ==
  ASSUME CommitInductive, pc \in {"transaction", "header"}, Skipped,
         UNCHANGED <<block, inputs, node, seen, smooth>>,
         found' \in Block \cup {NoBlock},
         Stayed => ~Qualifies(at.input)
  PROVE  CommitInductive'
<1> USE DEF CommitInductive
<1>1. /\ at.input \in DOMAIN inputs /\ at.instruction \in DOMAIN inputs[at.input].script
      /\ inputs[at.input].script[at.instruction] = "commitment"
      /\ Decoded /\ (Stayed => NoneSoFar) /\ result = "none"
      /\ at.input \in Nat \ {0} /\ at.instruction \in Nat \ {0}
  BY DEF Searching, AtCommitment, Typed, Place
<1>2. /\ at' \in Place /\ at'.input = at.input
      /\ at'.instruction = at.instruction + 1
      /\ pc' = "scan" /\ result' = "none"
  BY <1>1 DEF Skipped, NextInstruction, Typed, Place
<1>3. /\ Stayed' <=> Stayed
      /\ \A i : Qualifies(i)' <=> Qualifies(i)
  BY DEF Stayed, OnBranch, Qualifies
<1>4. \A j \in DOMAIN inputs[at.input].script :
        j < at'.instruction => j < at.instruction \/ j = at.instruction
  BY <1>1, <1>2, InputFacts
<1>5. Decoded'
  BY <1>1, <1>2, <1>4 DEF Decoded
<1>6. Stayed' => NoneSoFar'
  BY <1>1, <1>2, <1>3, <1>4 DEF NoneSoFar
<1>7. Typed'
  BY <1>2 DEF Typed
<1>8. SpentOnBranch'
  BY DEF SpentOnBranch
<1>9. AnswerIsOfBranch' /\ AcceptedFromSomeChain' /\ TrapsOnlyOffBranch' /\ FailsForACause'
  BY <1>2 DEF AnswerIsOfBranch, AcceptedFromSomeChain, TrapsOnlyOffBranch, FailsForACause
<1> QED BY <1>2, <1>5, <1>6, <1>7, <1>8, <1>9 DEF Searching

LEMMA ScanKeeps ==
  ASSUME CommitInductive, Scan
  PROVE  CommitInductive'
<1>1. /\ UNCHANGED <<block, inputs, node, seen, found, smooth>>
      /\ result' \in {"none", "false"}
  BY DEF Scan, Return, CommitInductive, Typed
<1>2. SpentOnBranch'
  BY <1>1 DEF CommitInductive, SpentOnBranch
<1>3. AcceptedFromSomeChain' /\ TrapsOnlyOffBranch' /\ FailsForACause'
  BY <1>1 DEF AcceptedFromSomeChain, TrapsOnlyOffBranch, FailsForACause
<1> QED BY <1>2, <1>3, ScanKeepsPlace DEF CommitInductive

LEMMA TransactionKeeps ==
  ASSUME CommitInductive, TransactionAnswered
  PROVE  CommitInductive'
<1> USE DEF CommitInductive
<1>1. /\ pc = "transaction" /\ AtCommitment /\ result = "none" /\ node \in Block
      /\ UNCHANGED <<block, inputs, node, seen, smooth>>
  BY DEF TransactionAnswered, Searching, Typed
<1>2. CASE ~PaysTaproot /\ Skipped /\ found' = found
  <2>1. ~Qualifies(at.input)
    BY <1>2 DEF PaysTaproot, Spent, Qualifies
  <2> QED BY <1>1, <1>2, <2>1, SkippedKeepsPlace DEF Typed
<1>3. CASE ~Holds(node, Spent) /\ Return("err") /\ UNCHANGED <<at, found>>
  <2>1. block \notin Chain[node]
    <3>1. Holds(block, Spent)
      BY <1>1 DEF SpentOnBranch, AtCommitment, Spent
    <3> QED BY <1>1, <1>3, <3>1, AheadHolds DEF Typed
  <2>2. result' = "err" /\ pc' = "done" /\ node \in seen
    BY <1>3 DEF Return, Typed
  <2>3. FailsForACause'
    BY <1>1, <2>1, <2>2 DEF FailsForACause
  <2>4. Typed' /\ SpentOnBranch' /\ Searching'
    BY <1>1, <1>3, <2>2 DEF Typed, SpentOnBranch, Searching
  <2>5. AnswerIsOfBranch' /\ AcceptedFromSomeChain' /\ TrapsOnlyOffBranch'
    BY <2>2 DEF AnswerIsOfBranch, AcceptedFromSomeChain, TrapsOnlyOffBranch
  <2> QED BY <2>3, <2>4, <2>5
<1>4. CASE /\ PaysTaproot
           /\ \E c \in Chain[node] : Spent \in Mined[c] /\ found' = c
           /\ pc' = "header"
           /\ UNCHANGED <<at, result>>
  <2>1. found' \in Block /\ found' \in Chain[node] /\ Spent \in Mined[found']
    BY <1>1, <1>4, BlockTreeAssumption
  <2>2. Found'
    BY <1>1, <1>4, <2>1 DEF Found, PaysTaproot, Spent, Typed
  <2>3. Typed' /\ SpentOnBranch'
    BY <1>1, <1>4, <2>1 DEF Typed, SpentOnBranch
  <2>4. /\ Stayed' <=> Stayed
        /\ \A i : Qualifies(i)' <=> Qualifies(i)
    BY <1>1 DEF Stayed, OnBranch, Qualifies
  <2>5. AtCommitment' /\ Decoded' /\ (Stayed' => NoneSoFar')
    BY <1>1, <1>4, <2>4 DEF AtCommitment, Decoded, NoneSoFar, Searching
  <2>6. AnswerIsOfBranch' /\ AcceptedFromSomeChain' /\ TrapsOnlyOffBranch' /\ FailsForACause'
    BY <1>1, <1>4 DEF AnswerIsOfBranch, AcceptedFromSomeChain, TrapsOnlyOffBranch,
         FailsForACause
  <2> QED BY <1>4, <2>2, <2>3, <2>5, <2>6 DEF Searching
<1> QED BY <1>2, <1>3, <1>4 DEF TransactionAnswered

LEMMA HeaderKeeps ==
  ASSUME CommitInductive, HeaderAnswered
  PROVE  CommitInductive'
<1> USE DEF CommitInductive
<1>1. /\ pc = "header" /\ AtCommitment /\ Found /\ result = "none"
      /\ Decoded /\ (Stayed => NoneSoFar)
      /\ found' = NoBlock
      /\ UNCHANGED <<block, inputs, node, seen, smooth>>
  BY DEF HeaderAnswered, Searching, Typed
<1>2. HeightOf[found] \in Nat /\ HeightOf[block] \in Nat
      /\ CommitConfirmations \in Nat
  BY <1>1, BlockTreeAssumption, CommitAssumption DEF Found, Typed
<1>3. Stayed' <=> Stayed
  BY <1>1 DEF Stayed, OnBranch
<1>4. CASE HeightOf[found] > UpdaterHeight /\ Return("trap") /\ at' = at
  <2>1. ~Stayed
    BY <1>1, <1>2, <1>4, FoundOnBranch DEF UpdaterHeight
  <2>2. result' = "trap" /\ pc' = "done"
    BY <1>4 DEF Return
  <2>3. TrapsOnlyOffBranch'
    BY <1>3, <2>1 DEF TrapsOnlyOffBranch, Stayed
  <2>4. Typed' /\ SpentOnBranch' /\ Searching'
    BY <1>1, <1>4, <2>2 DEF Typed, SpentOnBranch, Searching
  <2>5. AnswerIsOfBranch' /\ AcceptedFromSomeChain' /\ FailsForACause'
    BY <2>2 DEF AnswerIsOfBranch, AcceptedFromSomeChain, FailsForACause
  <2> QED BY <2>3, <2>4, <2>5
<1>5. CASE /\ HeightOf[found] <= UpdaterHeight
           /\ Confirmations >= CommitConfirmations
           /\ Return("true") /\ at' = at
  <2>1. /\ HeightOf[block] - HeightOf[found] + 1 >= CommitConfirmations
        /\ result' = "true" /\ pc' = "done"
    BY <1>5 DEF Confirmations, UpdaterHeight, Return
  <2>2. ASSUME Stayed PROVE Commits(inputs, block)
    <3>1. found \in Chain[block]
      BY <1>1, <2>2, FoundOnBranch
    <3>2. Reveals(inputs[at.input].script)
      <4>1. \A j \in 1..at.instruction :
              j \in DOMAIN inputs[at.input].script /\ (j < at.instruction \/ j = at.instruction)
        BY <1>1, InputFacts DEF AtCommitment, Typed, Place
      <4> QED BY <1>1, <4>1 DEF AtCommitment, Decoded, Reveals
    <3> QED BY <1>1, <2>1, <3>1, <3>2 DEF Commits, AtCommitment, Found, Spent
  <2>3. AnswerIsOfBranch'
    BY <1>1, <1>3, <2>1, <2>2 DEF AnswerIsOfBranch, Stayed, Commits
  <2>4. AcceptedFromSomeChain'
    <3>1. PICK n \in seen : found \in Chain[n]
      BY <1>1 DEF Found
    <3>2. HeightOf[found] + CommitConfirmations <= HeightOf[block] + 1
      BY <1>2, <2>1
    <3>3. Spent' = Spent /\ Spent \in Mined[found] \cap Taproot
      BY <1>1, <1>5 DEF Found, Spent
    <3> QED BY <1>1, <3>1, <3>2, <3>3 DEF AcceptedFromSomeChain
  <2>5. Typed' /\ SpentOnBranch' /\ Searching'
    BY <1>1, <1>5, <2>1 DEF Typed, SpentOnBranch, Searching
  <2>6. TrapsOnlyOffBranch' /\ FailsForACause'
    BY <2>1 DEF TrapsOnlyOffBranch, FailsForACause
  <2> QED BY <2>3, <2>4, <2>5, <2>6
<1>6. CASE /\ HeightOf[found] <= UpdaterHeight
           /\ Confirmations < CommitConfirmations
           /\ Skipped
  <2>1. Stayed => ~Qualifies(at.input)
    BY <1>1, <1>2, <1>6, FoundOnBranch DEF Qualifies, Spent, Confirmations, UpdaterHeight
  <2> QED BY <1>1, <1>6, <2>1, SkippedKeepsPlace
<1> QED BY <1>4, <1>5, <1>6 DEF HeaderAnswered

LEMMA FailureKeeps ==
  ASSUME CommitInductive, OutcallFails
  PROVE  CommitInductive'
<1> USE DEF CommitInductive
<1>1. /\ result' \in {"err", "trap"} /\ pc' = "done" /\ smooth' = FALSE
      /\ UNCHANGED <<block, inputs, node, seen, at, found>>
  BY DEF OutcallFails, Return
<1>2. Typed' /\ SpentOnBranch' /\ Searching'
  BY <1>1 DEF Typed, SpentOnBranch, Searching
<1>3. AnswerIsOfBranch' /\ AcceptedFromSomeChain' /\ TrapsOnlyOffBranch' /\ FailsForACause'
  BY <1>1 DEF AnswerIsOfBranch, AcceptedFromSomeChain, TrapsOnlyOffBranch, FailsForACause
<1> QED BY <1>2, <1>3

LEMMA NodeKeeps ==
  ASSUME CommitInductive, NodeMoves
  PROVE  CommitInductive'
<1> USE DEF CommitInductive
<1>1. /\ pc # "done" /\ result = "none" /\ result' = "none"
      /\ node' \in Block /\ seen' = seen \cup {node'}
      /\ UNCHANGED <<block, inputs, at, found, pc, smooth>>
  BY DEF NodeMoves, Typed
<1>2. Typed' /\ SpentOnBranch'
  BY <1>1 DEF Typed, SpentOnBranch
<1>3. /\ Stayed' => Stayed
      /\ \A i : Qualifies(i)' <=> Qualifies(i)
  BY <1>1 DEF Stayed, OnBranch, Qualifies
<1>4. Found => Found'
  BY <1>1 DEF Found, Spent
<1>5. Searching'
  BY <1>1, <1>3, <1>4 DEF Searching, AtCommitment, Decoded, NoneSoFar
<1>6. AnswerIsOfBranch' /\ AcceptedFromSomeChain' /\ TrapsOnlyOffBranch' /\ FailsForACause'
  BY <1>1 DEF AnswerIsOfBranch, AcceptedFromSomeChain, TrapsOnlyOffBranch, FailsForACause
<1> QED BY <1>2, <1>5, <1>6

LEMMA StepKeeps ==
  ASSUME CommitInductive, [Next]_vars
  PROVE  CommitInductive'
<1>1. CASE UNCHANGED vars
  BY <1>1 DEF vars, CommitInductive, Typed, SpentOnBranch, Searching, AtCommitment,
       Decoded, Stayed, OnBranch, NoneSoFar, Qualifies, Found, Spent,
       AnswerIsOfBranch, AcceptedFromSomeChain, TrapsOnlyOffBranch, FailsForACause
<1> QED BY <1>1, ScanKeeps, TransactionKeeps, HeaderKeeps, FailureKeeps, NodeKeeps
        DEF Next, Steps

(* The inductive invariant of a call of tx_commits_to_rune: where the      *)
(* search stands, and what it has shown so far.                            *)
THEOREM CommitInvariant == Spec => []CommitInductive
<1>1. Init => CommitInductive
  BY InitHolds
<1>2. CommitInductive /\ [Next]_vars => CommitInductive'
  BY StepKeeps
<1> QED BY <1>1, <1>2, PTL DEF Spec

(* While the node stays on the branch of the block being indexed, the      *)
(* answer of tx_commits_to_rune is what the branch says.                   *)
THEOREM AnswersAreOfBranch == Spec => []AnswerIsOfBranch
<1>1. CommitInductive => AnswerIsOfBranch
  BY DEF CommitInductive
<1> QED BY <1>1, CommitInvariant, PTL

(* Wherever the node is when it answers, a commitment is only accepted     *)
(* from a transaction that was deep enough on a chain of its.              *)
THEOREM NoneTooYoung == Spec => []AcceptedFromSomeChain
<1>1. CommitInductive => AcceptedFromSomeChain
  BY DEF CommitInductive
<1> QED BY <1>1, CommitInvariant, PTL

(* Unless make_rpc itself panicked, a panic is that of the subtraction of  *)
(* heights, and the node left the branch.                                  *)
THEOREM PanicsOnlyOffBranch == Spec => []TrapsOnlyOffBranch
<1>1. CommitInductive => TrapsOnlyOffBranch
  BY DEF CommitInductive
<1> QED BY <1>1, CommitInvariant, PTL

(* A block fails at a commitment only if an outcall failed or the node did *)
(* not know the block.                                                     *)
THEOREM FailuresHaveACause == Spec => []FailsForACause
<1>1. CommitInductive => FailsForACause
  BY DEF CommitInductive
<1> QED BY <1>1, CommitInvariant, PTL

=============================================================================
