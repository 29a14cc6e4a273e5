------------------------------ MODULE EdictLoop ------------------------------
(***************************************************************************)
(* The second half of index_runes step by step: the loop over the edicts,  *)
(* in it the loops over the outputs, then the rest, then the outputs one   *)
(* by one, all in the checked 128-bit arithmetic of Lot.  Edicts says in   *)
(* one expression what comes out of it.                                    *)
(***************************************************************************)
EXTENDS Edicts

CONSTANTS
  Transaction,  \* what index_runes may be given, see Edicts
  Holdings,     \* what its inputs, its mint and its premine may amount to
  Etched,       \* ids that may be etched by it, or DefaultId for none
  MaxLot        \* u128::MAX

ASSUME LotAssumption ==
  /\ MaxLot \in Nat
  /\ \A t \in Transaction : Deciphered(t)
  /\ \A h \in Holdings : h \in [DOMAIN h -> 0..MaxLot] /\ DefaultId \notin DOMAIN h

VARIABLES
  tx, etched, held,  \* the arguments of the loop
  unallocated,       \* id -> Lot
  allocated,         \* per output: id -> Lot
  burned,            \* id -> Lot
  kept,              \* mem_insert_outpoint_to_rune_balances
  next,              \* the edict or the output that is next
  pc                 \* edicts | rest | outputs | done | panic

vars == <<tx, etched, held, unallocated, allocated, burned, kept, next, pc>>

Init ==
  /\ tx \in Transaction
  /\ etched \in Etched
  /\ held \in Holdings
  /\ unallocated = held
  /\ allocated = [o \in OutputsOf(tx) |-> << >>]
  /\ burned = << >>
  /\ kept = << >>
  /\ next = 1
  /\ pc = "edicts"

-----------------------------------------------------------------------------
(* Lot: checked_add and checked_sub, of which expect panics.               *)
Fits(n) == n >= 0 /\ n <= MaxLot

(* The closure allocate of one edict, on [balance, shares, fits].          *)
MutGive(st, amount, output) ==
  IF amount = 0 THEN st
  ELSE [st EXCEPT !.shares = Added(st.shares, [o \in {output} |-> amount])]
Give(st, amount, output) ==
  IF amount = 0 THEN st
  ELSE [balance |-> st.balance - amount,
        shares |-> Added(st.shares, [o \in {output} |-> amount]),
        fits |-> st.fits /\ Fits(st.balance - amount)]

Before(balance) == [balance |-> balance, shares |-> << >>, fits |-> TRUE]

(* The outputs that are not OP_RETURNs, in ascending order.                *)
Outputs ==
  [i \in 1..Cardinality(Destinations(tx)) |->
     CHOOSE o \in Destinations(tx) :
       Cardinality({d \in Destinations(tx) : d < o}) = i - 1]

(* Amount zero for all outputs: the first ones get the remainder.          *)
MutExtra(i, remainder) == IF i > Len(Outputs) - remainder THEN 1 ELSE 0
Extra(i, remainder) == IF i - 1 < remainder THEN 1 ELSE 0

Divided(balance) ==
  LET n == Len(Outputs)
  IN FoldLeftDomain(
       LAMBDA st, i : Give(st, balance \div n + Extra(i, balance % n), Outputs[i]),
       Before(balance), Outputs)

(* An amount for each output, as long as there is any.                     *)
MutAffordable(amount, balance) == amount
Affordable(amount, balance) == Min({amount, balance})

Paid(amount, balance) ==
  FoldLeft(LAMBDA st, o : Give(st, Affordable(amount, st.balance), o),
           Before(balance), Outputs)

(* What one edict does with the balance of its rune.                       *)
Carried(e, balance) ==
  CASE e.output = tx.outputs /\ Outputs = << >> -> Before(balance)
    [] e.output = tx.outputs /\ Outputs # << >> /\ e.amount = 0 -> Divided(balance)
    [] e.output = tx.outputs /\ Outputs # << >> /\ e.amount > 0 ->
         Paid(e.amount, balance)
    [] e.output < tx.outputs /\ e.amount = 0 ->
         Give(Before(balance), balance, e.output)
    [] e.output < tx.outputs /\ e.amount > 0 ->
         Give(Before(balance), Affordable(e.amount, balance), e.output)

EdictsLeft == ~tx.cenotaph /\ next <= Len(tx.edicts)

IdOf(e) == IF e.id = DefaultId THEN etched ELSE e.id

Skip ==
  /\ pc = "edicts"
  /\ EdictsLeft
  /\ \/ IdOf(tx.edicts[next]) = DefaultId
     \/ IdOf(tx.edicts[next]) \notin DOMAIN unallocated
  /\ next' = next + 1
  /\ UNCHANGED <<tx, etched, held, unallocated, allocated, burned, kept, pc>>

(* A panic takes back what the message has written; here it ends the loop. *)
Unless(fits, at) == IF fits THEN at ELSE "panic"

Carry ==
  /\ pc = "edicts"
  /\ EdictsLeft
  /\ LET id == IdOf(tx.edicts[next])
         st == Carried(tx.edicts[next], unallocated[id])
         sums == [o \in DOMAIN st.shares |->
                    Amount(allocated[o], id) + st.shares[o]]
     IN /\ id \in DOMAIN unallocated
        /\ unallocated' = Put(unallocated, id, st.balance)
        /\ allocated' = [o \in OutputsOf(tx) |->
             IF o \in DOMAIN sums THEN Put(allocated[o], id, sums[o])
                                  ELSE allocated[o]]
        /\ pc' = Unless(st.fits /\ \A o \in DOMAIN sums : Fits(sums[o]), "edicts")
  /\ next' = next + 1
  /\ UNCHANGED <<tx, etched, held, burned, kept>>

-----------------------------------------------------------------------------
(* g's values added to those of f, each by a checked addition.             *)
AddFits(f, g) == \A id \in DOMAIN g : Fits(Amount(f, id) + g[id])

Remains == Positive(unallocated)

(* The rest: burned by a cenotaph or for want of an output, else for the   *)
(* pointer or the first output that is not an OP_RETURN.                   *)
Rest ==
  /\ pc = "edicts"
  /\ ~EdictsLeft
  /\ \/ /\ tx.cenotaph
        /\ burned' = unallocated
        /\ pc' = "outputs"
        /\ UNCHANGED allocated
     \/ /\ ~tx.cenotaph
        /\ DefaultOutput(tx) = {}
        /\ burned' = Remains
        /\ pc' = "outputs"
        /\ UNCHANGED allocated
     \/ /\ ~tx.cenotaph
        /\ \E o \in DefaultOutput(tx) :
             /\ allocated' = [allocated EXCEPT ![o] = Added(@, Remains)]
             /\ pc' = Unless(AddFits(allocated[o], Remains), "outputs")
        /\ UNCHANGED burned
  /\ unallocated' = << >>
  /\ next' = 0
  /\ UNCHANGED <<tx, etched, held, kept>>

(* One output: nothing on it, an OP_RETURN, or balances to be stored.      *)
Stored(o) == o \notin tx.op_return

Output ==
  /\ pc = "outputs"
  /\ next < tx.outputs
  /\ LET balances == allocated[next]
     IN \/ /\ DOMAIN balances = {}
           /\ UNCHANGED <<burned, kept, pc>>
        \/ /\ DOMAIN balances # {}
           /\ ~Stored(next)
           /\ burned' = Added(burned, balances)
           /\ pc' = Unless(AddFits(burned, balances), "outputs")
           /\ UNCHANGED kept
        \/ /\ DOMAIN balances # {}
           /\ Stored(next)
           /\ kept' = Put(kept, next, balances)
           /\ UNCHANGED <<burned, pc>>
  /\ next' = next + 1
  /\ UNCHANGED <<tx, etched, held, unallocated, allocated>>

Return ==
  /\ pc = "outputs"
  /\ next >= tx.outputs
  /\ pc' = "done"
  /\ UNCHANGED <<tx, etched, held, unallocated, allocated, burned, kept, next>>

Next == Skip \/ Carry \/ Rest \/ Output \/ Return

Spec == Init /\ [][Next]_vars

-----------------------------------------------------------------------------
(* Properties.                                                             *)

(* No edict, however it is chosen, makes the arithmetic of Lot panic, and  *)
(* with it the block fail: what a transaction holds of a rune is never     *)
(* added up to more than it was (lot.rs:20-72, rune_updater.rs:74-160).    *)
NeverPanics == pc # "panic"

(* At every point of the loops, all of a rune that the transaction held is *)
(* unallocated, on one of its outputs, or burned                           *)
(* (rune_updater.rs:52-209).                                               *)
Waiting(o) == pc \in {"edicts", "panic"} \/ next <= o
Placed(id) ==
  SumFunction([o \in OutputsOf(tx) |->
     IF Waiting(o) THEN Amount(allocated[o], id)
     ELSE IF o \in DOMAIN kept THEN Amount(kept[o], id) ELSE 0])
NothingLost ==
  \A id \in DOMAIN held :
    held[id] = Amount(unallocated, id) + Placed(id) + Amount(burned, id)

(* The loops compute what Edicts says they do, and RuneLedger relies on    *)
(* (rune_updater.rs:52-209).                                               *)
ComputesDistribution ==
  pc = "done" =>
    LET d == Distribution(tx, etched, held)
    IN kept = d.kept /\ burned = d.burned

=============================================================================
