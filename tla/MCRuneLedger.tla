----------------------------- MODULE MCRuneLedger -----------------------------
(* An instance of RuneLedger: six transactions of which every order that   *)
(* spends only mined outputs is mined, in blocks of any length.            *)
EXTENDS RuneLedger

CONSTANTS etch, mint, mint2, spend, cenotaph, reserve, R
MCTx == {etch, mint, mint2, spend, cenotaph, reserve}

Plain ==
  [outputs |-> 2, op_return |-> {0}, cenotaph |-> FALSE, edicts |-> << >>,
   pointer |-> {}, inputs |-> {}, mint |-> {}, etches |-> FALSE,
   rune |-> {}, premine |-> 0, terms |-> {}]

(* The rune that is minted and sent, if it is etched where it can be.      *)
first == <<2, 0>>

Terms == [amount |-> 2, cap |-> 2, start_offset |-> {1}, start_height |-> {1},
          end_offset |-> {2}, end_height |-> {5}]

MCContent ==
  [t \in MCTx |->
     CASE t = etch ->  \* premine split unevenly over two outputs
            [Plain EXCEPT !.outputs = 3, !.etches = TRUE, !.rune = {R},
               !.premine = 3, !.terms = {Terms},
               !.edicts = <<[id |-> DefaultId, amount |-> 0, output |-> 3]>>]
       [] t \in {mint, mint2} -> [Plain EXCEPT !.mint = {first}]
       [] t = spend ->  \* one unit burned, one each to both outputs, then rest
            [Plain EXCEPT !.outputs = 3, !.inputs = {<<etch, 1>>, <<mint, 1>>},
               !.pointer = {2}, !.mint = {first},
               !.edicts = <<[id |-> first, amount |-> 1, output |-> 0],
                            [id |-> first, amount |-> 2, output |-> 3]>>]
       [] t = cenotaph ->  \* etches the same name and burns its inputs
            [Plain EXCEPT !.inputs = {<<etch, 2>>}, !.cenotaph = TRUE,
               !.etches = TRUE, !.rune = {R}]
       [] t = reserve ->  \* a rune without a name
            [Plain EXCEPT !.etches = TRUE, !.premine = 1]]

MCUnlockHeight == [r \in {R} |-> 2]

Orderly == orderly
=============================================================================
