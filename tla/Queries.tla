------------------------------- MODULE Queries -------------------------------
(***************************************************************************)
(* The candid queries over the rune maps: get_latest_block, get_etching,   *)
(* get_rune, get_rune_by_id and get_rune_balances_for_outputs.  A query    *)
(* reads what the last message committed, which may be a half indexed      *)
(* block: the indexing of a block is suspended while a commitment is       *)
(* looked up.                                                              *)
(***************************************************************************)
EXTENDS RuneLedger

CONSTANT U32  \* 2^32, the width of heights and confirmations

VARIABLE settled  \* history: what an answer called a rune of a transaction
                  \* with MaxReorgDepth or more confirmations

queryVars == <<vars, settled>>

ASSUME WidthAssumption == U32 \in Nat /\ U32 > LastHeight + 1

(* Between two messages: not inside a block, unless index_runes waits for  *)
(* an outcall of tx_commits_to_rune.                                       *)
Committed ==
  /\ pc # "tx"
  /\ pc = "etching" =>
       \E t \in frame.tx : \E r \in Content[t].rune : Etchable(r)

(* mem_latest_block_height; every query panics (expect) without a block.   *)
Answering == Committed /\ DOMAIN record # {}
LatestHeight == Max(DOMAIN record)

(* The release build does not check u32 arithmetic for overflow.           *)
MutConfirmations(h) == (LatestHeight - h) % U32
MutConfirmationsOver(h) == (LatestHeight - h + 2) % U32
Confirmations(h) == (LatestHeight - h + 1) % U32

(* What the three rune queries say of one entry.                           *)
Described(id) ==
  [rune_id |-> id, confirmations |-> Confirmations(id[1]), entry |-> maps.entry[id]]

ByName(name) ==
  {Described(id) : id \in {i \in DOMAIN maps.entry :
     name \in DOMAIN maps.id_of /\ i = maps.id_of[name]}}

GetEtching(t) ==
  UNION {ByName(name) : name \in {maps.rune_of[u] : u \in {t} \cap DOMAIN maps.rune_of}}

GetRuneById(id) == {Described(i) : i \in {id} \cap DOMAIN maps.entry}

(* get_rune_balances_for_outputs for one outpoint: nothing without a       *)
(* height, and balances of runes without an entry are left out.            *)
GetBalances(o) ==
  {[confirmations |-> Confirmations(maps.born[p]),
    balances |-> [id \in DOMAIN maps.balances[p] \cap DOMAIN maps.entry |->
                    maps.balances[p][id]]] :
     p \in {o} \cap DOMAIN maps.balances \cap DOMAIN maps.born}

Settled ==
  {<<id, maps.entry[id].etching>> :
     id \in {i \in DOMAIN maps.entry : /\ Answering
                                      /\ Confirmations(i[1]) >= MaxReorgDepth}}

(* Queries change nothing: they are asked after every step.                *)
QueryInit == Init /\ settled = {}
QueryNext == Next /\ settled' = settled \cup Settled'
QuerySpec == QueryInit /\ [][QueryNext]_queryVars

-----------------------------------------------------------------------------
(* Properties.                                                             *)

(* An answer counts one confirmation for every whole block from the one   *)
(* that holds the transaction to the latest, so that what a half indexed   *)
(* block has written counts none, and nothing wraps around below zero; the *)
(* answer for an unspent output has all of its balances                    *)
(* (main.rs:28, 42, 71, 104-154).                                          *)
HeightOfTx(t) == CHOOSE h \in DOMAIN mined : t \in ToSet(mined[h])
WholeBlocks(t) ==
  {g \in DOMAIN mined : HeightOfTx(t) <= g /\ g <= LatestHeight}
ConfirmationsCount ==
  orderly /\ Answering =>
    /\ \A id \in DOMAIN maps.entry : \A a \in GetRuneById(id) :
         a.confirmations = Cardinality(WholeBlocks(a.entry.etching))
    /\ \A o \in DOMAIN maps.balances :
         GetBalances(o) = {[confirmations |-> Cardinality(WholeBlocks(o[1])),
                            balances |-> maps.balances[o]]}

(* The three ways to a rune give one answer, to every rune and also in     *)
(* the middle of a block; no other transaction and no other name has one   *)
(* (main.rs:23-90).                                                        *)
LookupsAgree ==
  orderly /\ Answering =>
    /\ \A id \in DOMAIN maps.entry :
         /\ ByName(maps.entry[id].rune) = GetRuneById(id)
         /\ GetEtching(maps.entry[id].etching) = GetRuneById(id)
    /\ \A t \in Tx : \A a \in GetEtching(t) : a.entry.etching = t
    /\ \A name \in Name : \A a \in ByName(name) : a.entry.rune = name

(* A rune that had as many confirmations as the reorganisation window is   *)
(* deep is never taken back, and its etching never changes, whatever is    *)
(* rolled back afterwards (main.rs:23-90, reorg.rs:10-27).                 *)
SettledRunesStay ==
  orderly => \A s \in settled : s[1] \in DOMAIN maps.entry
                                /\ maps.entry[s[1]].etching = s[2]

=============================================================================
