-------------------------------- MODULE Edicts --------------------------------
(***************************************************************************)
(* How index_runes distributes the runes a transaction holds over its      *)
(* outputs: the edicts in their order, then the pointer or the default     *)
(* output, then what lands in OP_RETURN outputs or belongs to a cenotaph   *)
(* is burned.                                                              *)
(*                                                                         *)
(* A transaction is a record, as far as index_runes looks at it.  An       *)
(* option is a set of at most one element, and a transaction without an    *)
(* artifact is a runestone that says nothing:                              *)
(*   outputs    number of outputs, op_return the unspendable ones          *)
(*   cenotaph   the artifact is a cenotaph                                 *)
(*   edicts     sequence of [id, amount, output]                           *)
(*   pointer    option of an output                                        *)
(* Runestone::decipher (the ordinals crate) only returns edicts with       *)
(* output <= outputs and pointers < outputs, so that the two assertions    *)
(* of index_runes hold.  Amounts are naturals: decipher rejects supplies   *)
(* above 2^128-1, so that the checked arithmetic of Lot does not overflow  *)
(* as long as the supply is conserved.                                     *)
(***************************************************************************)
EXTENDS StableMaps, SequencesExt

(* RuneId::default(), 0:0, which an edict uses for the rune being etched.  *)
DefaultId == <<0, 0>>

OutputsOf(tx) == 0..(tx.outputs - 1)
Destinations(tx) == OutputsOf(tx) \ tx.op_return

(* What Runestone::decipher makes sure of.                                 *)
Deciphered(tx) ==
  /\ tx.outputs \in Nat
  /\ tx.op_return \subseteq OutputsOf(tx)
  /\ tx.cenotaph \in BOOLEAN
  /\ tx.edicts \in Seq([id : Nat \X Nat, amount : Nat, output : 0..tx.outputs])
  /\ tx.pointer \subseteq OutputsOf(tx)
  /\ \A o, p \in tx.pointer : o = p

(* What every output gets out of a balance by one edict.                   *)
EvenShares(D, balance) ==
  [o \in D |->
     LET rank == Cardinality({d \in D : d < o})
         n == Cardinality(D)
     IN balance \div n + (IF rank < balance % n THEN 1 ELSE 0)]

EqualShares(D, amount, balance) ==
  [o \in D |->
     LET left == balance - Cardinality({d \in D : d < o}) * amount
     IN Max({0, Min({amount, left})})]

Shares(tx, e, balance) ==
  CASE e.output = tx.outputs /\ e.amount = 0 ->
         EvenShares(Destinations(tx), balance)
    [] e.output = tx.outputs /\ e.amount > 0 ->
         EqualShares(Destinations(tx), e.amount, balance)
    [] e.output < tx.outputs /\ e.amount = 0 ->
         [o \in {e.output} |-> balance]
    [] e.output < tx.outputs /\ e.amount > 0 ->
         [o \in {e.output} |-> Min({e.amount, balance})]

(* One edict.  etched is the id etched by this transaction, or DefaultId   *)
(* if there is none: no balance has that id, and the edict is skipped.     *)
Allocate(tx, etched, st, e) ==
  LET id == IF e.id = DefaultId THEN etched ELSE e.id
      share == Positive(Shares(tx, e, st.unallocated[id]))
  IN IF id \notin DOMAIN st.unallocated THEN st
     ELSE [unallocated |->
             Put(st.unallocated, id,
                 st.unallocated[id] - SumFunction(share)),
           allocated |->
             [o \in OutputsOf(tx) |->
                IF o \in DOMAIN share
                THEN Added(st.allocated[o], [i \in {id} |-> share[o]])
                ELSE st.allocated[o]]]

AfterEdicts(tx, etched, unallocated) ==
  FoldLeft(LAMBDA st, e : Allocate(tx, etched, st, e),
           [unallocated |-> unallocated,
            allocated |-> [o \in OutputsOf(tx) |-> << >>]],
           IF tx.cenotaph THEN << >> ELSE tx.edicts)

(* The output that takes what the edicts leave: the pointer, or the first  *)
(* one that is not an OP_RETURN.                                           *)
DefaultOutput(tx) ==
  IF tx.pointer # {} THEN tx.pointer
  ELSE {o \in Destinations(tx) : \A d \in Destinations(tx) : o <= d}

(* kept: the balances of the outputs that hold any; burned: the rest.      *)
Distribution(tx, etched, unallocated) ==
  LET st == AfterEdicts(tx, etched, unallocated)
      target == IF tx.cenotaph THEN {} ELSE DefaultOutput(tx)
      allocated == [o \in OutputsOf(tx) |->
                      IF o \in target
                      THEN Added(st.allocated[o], Positive(st.unallocated))
                      ELSE st.allocated[o]]
      rest == CASE tx.cenotaph -> st.unallocated
                [] ~tx.cenotaph /\ target = {} -> Positive(st.unallocated)
                [] ~tx.cenotaph /\ target # {} -> << >>
  IN [kept |-> [o \in {d \in Destinations(tx) : DOMAIN allocated[d] # {}} |->
                  allocated[o]],
      burned |-> Added(rest, FoldFunctionOnSet(Added, << >>, allocated,
                                               tx.op_return))]

=============================================================================
