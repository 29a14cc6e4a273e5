----------------------------- MODULE MCEdictLoop -----------------------------
(* An instance of EdictLoop: every transaction of up to three outputs with *)
(* up to two edicts, amounts from nothing to more than there is.           *)
EXTENDS EdictLoop

A == <<1, 0>>
B == <<2, 0>>

Edict(n) == [id : {DefaultId, A}, amount : {0, 1, 3}, output : 0..n]
EdictLists(n) == {<< >>} \cup {<<e>> : e \in Edict(n)} \cup (Edict(n) \X Edict(n))

Runestones(n) ==
  [outputs : {n}, op_return : {{}, {0}, {n - 1}, 0..(n - 1)}, cenotaph : {FALSE},
   edicts : EdictLists(n), pointer : {{}, {0}, {n - 1}}]
Cenotaphs(n) ==
  [outputs : {n}, op_return : {{}, {0}}, cenotaph : {TRUE}, edicts : {<< >>},
   pointer : {{}}]

MCTransaction == UNION {Runestones(n) \cup Cenotaphs(n) : n \in 1..3}
MCHoldings == {f @@ g : f \in {A :> n : n \in {0, 3, 5}} \cup {<< >>},
                        g \in {B :> n : n \in {0, 5}} \cup {<< >>}}
MCEtched == {DefaultId, B}
=============================================================================
