------------------------------ MODULE RuneLedger ------------------------------
(***************************************************************************)
(* What indexing a block does to the rune maps, transaction by             *)
(* transaction, and how a change record takes it back: RuneUpdater         *)
(* (index_runes, mint, etched, create_rune_entry, update) and the body of  *)
(* handle_reorg.                                                           *)
(*                                                                         *)
(* index_runes suspends at one place, the commitment outcalls of an        *)
(* etching, so a transaction is two steps: TxBegins up to that place and   *)
(* TxEnds from there.  IndexLoop says when blocks arrive, fork and are     *)
(* pruned; here any block may arrive and any retained one be rolled back.  *)
(* A header is inserted, pruned and removed together with its change       *)
(* record (IndexLoop, RecordsComplete), so record stands for both.         *)
(***************************************************************************)
EXTENDS Edicts

CONSTANTS
  Tx,            \* transaction ids
  Content,       \* [Tx -> what index_runes reads in a transaction]
  Rune,          \* names that are not reserved
  UnlockHeight,  \* [Rune -> Nat]: rune < Rune::minimum_at_height(h) below it
  FirstHeight,   \* Rune::first_rune_height(network)
  MaxReorgDepth, \* get_max_recoverable_reorg_depth(network)
  LastHeight,    \* bound: no block is indexed above this height
  BlockSize      \* bound: transactions in a block

ASSUME LedgerAssumption ==
  /\ FirstHeight \in Nat \ {0}
  /\ MaxReorgDepth \in Nat \ {0}
  /\ LastHeight \in Nat
  /\ BlockSize \in Nat
  /\ UnlockHeight \in [Rune -> Nat]

(* A rune id is a height and a transaction index; Rune::reserved(id) is a  *)
(* name of its own for every id, written as the id.                        *)
Id == (FirstHeight..LastHeight) \X (0..(BlockSize - 1))
Name == Rune \cup Id
OutPoint == Tx \X Nat

(* Reserved names begin above all names that can be chosen.                *)
ASSUME NameAssumption == Rune \cap Id = {}

(* Content[t] has the fields of Edicts and                                 *)
(*   inputs    set of outpoints       mint      option of an id            *)
(*   etches    there is an etching    rune      option of its name         *)
(*   premine   amount                 terms     option of                  *)
(* [amount, cap, start_offset, start_height, end_offset, end_height], the  *)
(* last four again options.                                                *)
ASSUME ContentAssumption ==
  \A t \in Tx :
    /\ Deciphered(Content[t])
    /\ \A r, s \in Content[t].rune : r = s
    /\ Content[t].premine \in Nat
    /\ \A x, y \in Content[t].terms : x = y
    /\ \A x \in Content[t].terms :
         /\ x.amount \in Nat
         /\ x.cap \in Nat
         /\ x.start_offset \cup x.start_height \subseteq Nat
         /\ x.end_offset \cup x.end_height \subseteq Nat

VARIABLES
  maps,     \* the rune maps, see EmptyMaps
  runes,    \* HEIGHT_TO_STATISTIC_RUNES
  reserved, \* HEIGHT_TO_STATISTIC_RESERVED_RUNES
  record,   \* HEIGHT_TO_CHANGE_RECORD
  updater,  \* the RuneUpdater of the block being indexed
  frame,    \* index_runes: locals that live across the outcall
  pc,       \* idle | tx | etching | halted
  mined,    \* history: the transactions of each block of the indexed chain
  base,     \* history: maps and statistics before each block
  orderly   \* history: no block was started on a half indexed one

vars == <<maps, runes, reserved, record, updater, frame, pc, mined, base,
          orderly>>

EmptyMaps ==
  [balances |-> << >>,  \* OUTPOINT_TO_RUNE_BALANCES: outpoint -> id -> Nat
   born     |-> << >>,  \* OUTPOINT_TO_HEIGHT
   entry    |-> << >>,  \* RUNE_ID_TO_RUNE_ENTRY
   id_of    |-> << >>,  \* RUNE_TO_RUNE_ID
   rune_of  |-> << >>]  \* TRANSACTION_ID_TO_RUNE

EmptyRecord ==
  [removed |-> << >>,   \* removed_outpoints: outpoint -> [balances, height]
   added   |-> {},      \* added_outpoints
   burned  |-> << >>,   \* id -> entry.burned before the block
   mints   |-> << >>,   \* id -> entry.mints before the block
   runes   |-> {}]      \* added_runes: <<name, id, tx>>

MutNewUpdater(h, n) ==
  [height |-> h, burned |-> << >>, runes |-> 0, change_record |-> EmptyRecord]
NewUpdater(h, n) ==
  [height |-> h, burned |-> << >>, runes |-> n, change_record |-> EmptyRecord]

NoFrame == [tx |-> {}, index |-> 0, unallocated |-> << >>]

NextHeight == IF DOMAIN record = {} THEN FirstHeight
                                    ELSE Max(DOMAIN record) + 1

Snapshot == [maps |-> maps, runes |-> Latest(runes, 0),
             reserved |-> Latest(reserved, 0)]

Init ==
  /\ maps = EmptyMaps
  /\ runes = << >>
  /\ reserved = << >>
  /\ record = << >>
  /\ updater = NewUpdater(0, 0)
  /\ frame = NoFrame
  /\ pc = "idle"
  /\ mined = << >>
  /\ base = << >>
  /\ orderly = TRUE

-----------------------------------------------------------------------------
(* The transactions the Bitcoin network may put next into the block.       *)

MinedTx == UNION {ToSet(mined[h]) : h \in DOMAIN mined}

Confirmable(t) ==
  /\ t \notin MinedTx
  /\ \A o \in Content[t].inputs :
       /\ o[1] \in MinedTx
       /\ \A u \in MinedTx : o \notin Content[u].inputs

-----------------------------------------------------------------------------
(* index_block up to its loop over the transactions.                       *)
StartBlock ==
  /\ pc = "idle"
  /\ NextHeight <= LastHeight
  /\ runes' = Put(runes, NextHeight, Latest(runes, 0))
  /\ reserved' = Put(reserved, NextHeight, Latest(reserved, 0))
  /\ updater' = NewUpdater(NextHeight, Latest(runes, 0))
  /\ pc' = "tx"
  /\ mined' = Put(mined, NextHeight, << >>)
  /\ base' = Put(base, NextHeight, Snapshot)
  /\ UNCHANGED <<maps, record, frame, orderly>>

(* RuneEntry::start and end: the later of the two starts, the earlier of   *)
(* the two ends, counted from the block of the etching or absolute.        *)
Starts(id, terms) == terms.start_height \cup {id[1] + o : o \in terms.start_offset}
Ends(id, terms) == terms.end_height \cup {id[1] + o : o \in terms.end_offset}

MutMintable(id, entry, h) ==
  \E terms \in entry.terms :
    /\ \A s \in Starts(id, terms) : h >= s
    /\ \A e \in Ends(id, terms) : h <= e
    /\ entry.mints <= terms.cap
Mintable(id, entry, h) ==
  \E terms \in entry.terms :
    /\ \A s \in Starts(id, terms) : h >= s
    /\ \A e \in Ends(id, terms) : h < e
    /\ entry.mints < terms.cap

MintAmount(entry) == CHOOSE n \in {terms.amount : terms \in entry.terms} : TRUE

OnceMoreMinted(entry) == [entry EXCEPT !.mints = entry.mints + 1]

(* The runes found on the inputs.                                          *)
Held(spent) == FoldFunctionOnSet(Added, << >>, maps.balances, spent)

(* A mint remembers the count the block began with, not the latest one.    *)
MutFirstCounts(counts, entry, minted) ==
  PutAll(counts, [id \in minted |-> entry[id].mints])
FirstCounts(counts, entry, minted) ==
  PutAll([id \in minted |-> entry[id].mints], counts)

(* The balances of the inputs are taken, then the mint is counted; both go *)
(* to the change record and to unallocated.                                *)
TxBegins(t) ==
  LET spent == Content[t].inputs \cap DOMAIN maps.balances
      minted == {id \in Content[t].mint \cap DOMAIN maps.entry :
                   Mintable(id, maps.entry[id], updater.height)}
      cr == updater.change_record
  IN /\ pc = "tx"
     /\ Len(mined[updater.height]) < BlockSize
     /\ Confirmable(t)
     /\ maps' = [maps EXCEPT
          !.balances = Without(maps.balances, spent),
          !.born = Without(maps.born, spent),
          !.entry = PutAll(maps.entry, [id \in minted |->
                                          OnceMoreMinted(maps.entry[id])])]
     /\ updater' = [updater EXCEPT !.change_record =
          [cr EXCEPT
             !.removed = PutAll(cr.removed, [o \in spent |->
                [balances |-> maps.balances[o], height |-> maps.born[o]]]),
             !.mints = FirstCounts(cr.mints, maps.entry, minted)]]
     /\ frame' = [tx |-> {t}, index |-> Len(mined[updater.height]),
                  unallocated |-> Added(Held(spent),
                    [id \in minted |-> MintAmount(maps.entry[id])])]
     /\ mined' = [mined EXCEPT ![updater.height] = Append(@, t)]
     /\ pc' = "etching"
     /\ UNCHANGED <<runes, reserved, record, base, orderly>>

-----------------------------------------------------------------------------
(* etched: the tests before the commitment is looked up.                   *)
MutEtchable(rune) == rune \in Rune /\ updater.height >= UnlockHeight[rune]
Etchable(rune) ==
  /\ rune \in Rune
  /\ updater.height >= UnlockHeight[rune]
  /\ rune \notin DOMAIN maps.id_of

NewEntry(t, name) ==
  LET tx == Content[t]
  IN [rune |-> name, etching |-> t, number |-> updater.runes,
      premine |-> IF tx.cenotaph THEN 0 ELSE tx.premine,
      terms |-> IF tx.cenotaph THEN {} ELSE tx.terms,
      mints |-> 0, burned |-> 0]

MutHolding(t, id, names) == frame.unallocated
(* What the transaction distributes: the premine joins the inputs.         *)
Holding(t, id, names) ==
  Added(frame.unallocated,
        [i \in IF Content[t].cenotaph THEN {} ELSE {id : n \in names} |->
           Content[t].premine])

(* index_runes after the etching is settled; names is {} or the name that  *)
(* the transaction etches.                                                 *)
Distribute(t, names) ==
  LET h == updater.height
      id == <<h, frame.index>>
      cr == updater.change_record
      d == Distribution(Content[t], IF names = {} THEN DefaultId ELSE id,
                        Holding(t, id, names))
      outs == {<<t, o>> : o \in DOMAIN d.kept}
  IN /\ maps' =
          [balances |-> PutAll(maps.balances, [o \in outs |-> d.kept[o[2]]]),
           born |-> PutAll(maps.born, [o \in outs |-> h]),
           entry |-> PutAll(maps.entry, [i \in {id : n \in names} |->
                       NewEntry(t, CHOOSE n \in names : TRUE)]),
           id_of |-> PutAll(maps.id_of, [n \in names |-> id]),
           rune_of |-> PutAll(maps.rune_of, [u \in {t : n \in names} |->
                         CHOOSE n \in names : TRUE])]
     /\ runes' = PutAll(runes, [g \in {h : n \in names} |-> updater.runes + 1])
     /\ updater' = [updater EXCEPT
          !.burned = Added(updater.burned, d.burned),
          !.runes = updater.runes + Cardinality(names),
          !.change_record = [cr EXCEPT
             !.added = cr.added \cup outs,
             !.runes = cr.runes \cup {<<n, id, t>> : n \in names}]]
     /\ frame' = NoFrame
     /\ pc' = "tx"
     /\ UNCHANGED <<record, mined, base, orderly>>

(* No etching; one with a reserved name; a name that cannot be etched or   *)
(* is not committed to; a name that is.                                    *)
TxEnds(t) ==
  LET tx == Content[t]
  IN /\ pc = "etching"
     /\ frame.tx = {t}
     /\ \/ /\ ~tx.etches
           /\ Distribute(t, {})
           /\ UNCHANGED reserved
        \/ /\ tx.etches
           /\ tx.rune = {}
           /\ Distribute(t, {<<updater.height, frame.index>>})
           /\ reserved' = Put(reserved, updater.height, Latest(reserved, 0) + 1)
        \/ /\ tx.rune # {}
           /\ Distribute(t, {})
           /\ UNCHANGED reserved
        \/ /\ tx.rune # {}
           /\ \A r \in tx.rune : Etchable(r)
           /\ Distribute(t, tx.rune)
           /\ UNCHANGED reserved

(* tx_commits_to_rune fails: what the block has written stays, what it     *)
(* would have recorded is dropped with the updater.                        *)
CommitFails(t) ==
  /\ pc = "etching"
  /\ frame.tx = {t}
  /\ \E r \in Content[t].rune : Etchable(r)
  /\ pc' = "halted"
  /\ frame' = NoFrame
  /\ updater' = NewUpdater(0, 0)
  /\ UNCHANGED <<maps, runes, reserved, record, mined, base, orderly>>

(* start() after the loop has ended inside a block.                        *)
Restart ==
  /\ pc = "halted"
  /\ pc' = "idle"
  /\ orderly' = FALSE
  /\ UNCHANGED <<maps, runes, reserved, record, updater, frame, mined, base>>

-----------------------------------------------------------------------------
OnceBurned(entry, n) == [entry EXCEPT !.burned = entry.burned + n]

Retained(f, h) == Without(f, {g \in DOMAIN f : g <= h - MaxReorgDepth})

(* RuneUpdater::update, the header, prune_change_record; the entry of what *)
(* is burned is unwrapped.                                                 *)
FinishBlock ==
  LET h == updater.height
      ids == DOMAIN updater.burned
      cr == [updater.change_record EXCEPT
               !.burned = [id \in ids |-> maps.entry[id].burned]]
  IN /\ pc = "tx"
     /\ ids \subseteq DOMAIN maps.entry
     /\ maps' = [maps EXCEPT !.entry = PutAll(maps.entry,
          [id \in ids |-> OnceBurned(maps.entry[id], updater.burned[id])])]
     /\ record' = Retained(Put(record, h, cr), h)
     /\ runes' = Retained(runes, h)
     /\ reserved' = Retained(reserved, h)
     /\ updater' = NewUpdater(0, 0)
     /\ pc' = "idle"
     /\ UNCHANGED <<frame, mined, base, orderly>>

(* handle_reorg at one height.  Removed outpoints come back before added   *)
(* ones go, so that one created and spent in the block is gone; counts are *)
(* reset before entries go, so that every reset finds its entry.           *)
Reset(entry, id, cr) ==
  [entry EXCEPT
     !.burned = IF id \in DOMAIN cr.burned THEN cr.burned[id] ELSE entry.burned,
     !.mints = IF id \in DOMAIN cr.mints THEN cr.mints[id] ELSE entry.mints]

MutUnspent(f, cr, back) == PutAll(Without(f, cr.added), back)
Unspent(f, cr, back) == Without(PutAll(f, back), cr.added)

Unetched(f, added) == Without(f, added)

Undone(m, cr) ==
  [balances |-> Unspent(m.balances, cr, [o \in DOMAIN cr.removed |->
                                           cr.removed[o].balances]),
   born |-> Unspent(m.born, cr, [o \in DOMAIN cr.removed |->
                                   cr.removed[o].height]),
   entry |-> Unetched([id \in DOMAIN m.entry |-> Reset(m.entry[id], id, cr)],
                      {r[2] : r \in cr.runes}),
   id_of |-> Unetched(m.id_of, {r[1] : r \in cr.runes}),
   rune_of |-> Unetched(m.rune_of, {r[3] : r \in cr.runes})]

(* handle_reorg undoes one height after the other, from the latest down,   *)
(* and never the lowest retained one; this step is one turn of its loop,   *)
(* which ends in a state that a shallower reorganisation leaves as well.   *)
Revocable(h) ==
  /\ h = Max(DOMAIN record)
  /\ h # Min(DOMAIN record)

(* The entries whose counts are reset are unwrapped.                       *)
CountsResolve(cr) ==
  DOMAIN cr.burned \cup DOMAIN cr.mints \subseteq DOMAIN maps.entry

RollBack ==
  /\ pc = "idle"
  /\ \E h \in DOMAIN record :
       /\ Revocable(h)
       /\ CountsResolve(record[h])
       /\ maps' = Undone(maps, record[h])
       /\ record' = Without(record, {h})
       /\ runes' = Without(runes, {h})
       /\ reserved' = Without(reserved, {h})
       /\ mined' = Without(mined, {h})
       /\ base' = Without(base, {h})
  /\ UNCHANGED <<updater, frame, pc, orderly>>

Next ==
  \/ StartBlock
  \/ \E t \in Tx : TxBegins(t) \/ TxEnds(t) \/ CommitFails(t)
  \/ FinishBlock
  \/ RollBack
  \/ Restart

Spec == Init /\ [][Next]_vars

-----------------------------------------------------------------------------
(* Properties.                                                             *)

Entry == [rune : Name, etching : Tx, number : Nat, premine : Nat,
          terms : UNION {SUBSET Content[t].terms : t \in Tx},
          mints : Nat, burned : Nat]

IsMap(f, S, T) == DOMAIN f \subseteq S /\ \A x \in DOMAIN f : f[x] \in T
IsAmounts(f) == IsMap(f, Id, Nat)

(* The rune maps and the change record hold values of their types; no      *)
(* unspent output is stored without a positive amount of some rune.        *)
TypeOK ==
  /\ \A o \in DOMAIN maps.balances :
       /\ o \in OutPoint
       /\ IsMap(maps.balances[o], Id, Nat \ {0})
       /\ maps.balances[o] # << >>
  /\ IsMap(maps.born, OutPoint, FirstHeight..LastHeight)
  /\ IsMap(maps.entry, Id, Entry)
  /\ IsMap(maps.id_of, Name, Id)
  /\ IsMap(maps.rune_of, Tx, Name)
  /\ IsMap(runes, FirstHeight..LastHeight, Nat)
  /\ IsMap(reserved, FirstHeight..LastHeight, Nat)
  /\ DOMAIN record \subseteq FirstHeight..LastHeight
  /\ pc \in {"idle", "tx", "etching", "halted"}
  /\ IsAmounts(updater.burned)
  /\ IsAmounts(frame.unallocated)
  /\ orderly \in BOOLEAN

(* No rune is created or lost: what was premined and minted (supply()) is  *)
(* on unspent outputs, burned, or in the hands of the transaction that is  *)
(* being indexed, after any edicts, cenotaphs and reorganisations          *)
(* (entry.rs:107-114, rune_updater.rs:26-223).                             *)
Supply(entry) ==
  entry.premine + entry.mints * (IF entry.terms = {} THEN 0 ELSE MintAmount(entry))

OnOutputs(id) ==
  SumFunction([o \in DOMAIN maps.balances |-> Amount(maps.balances[o], id)])

SupplyConserved ==
  orderly /\ pc # "halted" =>
    \A id \in DOMAIN maps.entry :
      Supply(maps.entry[id]) =
        OnOutputs(id) + maps.entry[id].burned + Amount(updater.burned, id)
                      + Amount(frame.unallocated, id)

(* Balances never dangle: every balance, burn and recorded count is of a   *)
(* rune with an entry, and every output with balances has the height of    *)
(* the block that holds its transaction.  The unwraps of update and        *)
(* handle_reorg and the error of unallocated rely on it                    *)
(* (rune_updater.rs:230, 455-461; reorg.rs:121, 132).                      *)
BalancesResolve ==
  orderly =>
    /\ DOMAIN maps.born = DOMAIN maps.balances
    /\ \A o \in DOMAIN maps.balances :
         /\ DOMAIN maps.balances[o] \subseteq DOMAIN maps.entry
         /\ maps.born[o] \in DOMAIN mined
         /\ o[1] \in ToSet(mined[maps.born[o]])
    /\ DOMAIN updater.burned \subseteq DOMAIN maps.entry
    /\ DOMAIN frame.unallocated \subseteq DOMAIN maps.entry
    /\ \A h \in DOMAIN record :
         DOMAIN record[h].burned \cup DOMAIN record[h].mints
           \subseteq DOMAIN maps.entry

(* The three name maps agree: a name belongs to one rune, a transaction    *)
(* etched at most one, and get_etching, get_rune and get_rune_by_id find   *)
(* the same entry (index.rs:356-365, main.rs:23-90).                       *)
NamesResolve ==
  orderly =>
    /\ \A id \in DOMAIN maps.entry :
         LET e == maps.entry[id]
         IN /\ e.rune \in DOMAIN maps.id_of
            /\ maps.id_of[e.rune] = id
            /\ e.etching \in DOMAIN maps.rune_of
            /\ maps.rune_of[e.etching] = e.rune
    /\ Cardinality(DOMAIN maps.id_of) = Cardinality(DOMAIN maps.entry)
    /\ Cardinality(DOMAIN maps.rune_of) = Cardinality(DOMAIN maps.entry)

(* Rune numbers are consecutive from 0 and never reused while their rune   *)
(* exists; the statistics of the latest height count the runes, and those  *)
(* with a reserved name, also after a rollback                             *)
(* (rune_updater.rs:255-258, 348-350; reorg.rs:153-154).                   *)
NumbersConsecutive ==
  orderly /\ pc \in {"idle", "tx"} =>
    LET n == Cardinality(DOMAIN maps.entry)
    IN /\ {maps.entry[id].number : id \in DOMAIN maps.entry} = 0..(n - 1)
       /\ Latest(runes, 0) = n
       /\ Latest(reserved, 0) =
            Cardinality({id \in DOMAIN maps.entry : maps.entry[id].rune \notin Rune})

(* Rolling a block back restores exactly the maps and statistics from      *)
(* before it, whatever its transactions did to each other's outputs,       *)
(* mints and burns (reorg.rs:97-157).                                      *)
RollBackRestores ==
  [][ RollBack /\ orderly =>
        /\ maps' = base[Max(DOMAIN record)].maps
        /\ Latest(runes', 0) = base[Max(DOMAIN record)].runes
        /\ Latest(reserved', 0) = base[Max(DOMAIN record)].reserved ]_vars

(* The mints of a rune are exactly the first cap mint transactions of the  *)
(* indexed chain after its etching and inside its terms, whichever blocks  *)
(* were rolled back and mined again in another order                       *)
(* (rune_updater.rs:364-382, entry.rs:81-105, reorg.rs:131-141).           *)
MintsOf(id, terms) ==
  {at \in UNION {{h} \X DOMAIN mined[h] : h \in DOMAIN mined} :
     /\ id \in Content[mined[at[1]][at[2]]].mint
     /\ at[1] > id[1] \/ (at[1] = id[1] /\ at[2] - 1 > id[2])
     /\ \A s \in Starts(id, terms) : s <= at[1]
     /\ \A e \in Ends(id, terms) : at[1] <= e - 1}
MintsAreOfChain ==
  orderly =>
    \A id \in DOMAIN maps.entry :
      maps.entry[id].mints =
        IF maps.entry[id].terms = {} THEN 0
        ELSE LET terms == CHOOSE x \in maps.entry[id].terms : TRUE
             IN Min({terms.cap, Cardinality(MintsOf(id, terms))})

=============================================================================
