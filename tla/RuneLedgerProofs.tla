--------------------------- MODULE RuneLedgerProofs ---------------------------
(***************************************************************************)
(* Machine-checked proofs about RuneLedger, for any transactions, blocks   *)
(* and rollbacks: rolling a block back restores exactly what was there     *)
(* before it; names, numbers and mints stay in step; every balance is of a *)
(* rune that there is, and of each rune there is exactly what was issued   *)
(* and not burned.  Then the answers of the queries, which read the ledger *)
(* while the loop writes to it.                                            *)
(***************************************************************************)
EXTENDS EdictsProofs, Queries

-----------------------------------------------------------------------------
(* Maps, as the updater builds them.                                       *)
IsMapping(f) == f = [x \in DOMAIN f |-> f[x]]

IsEntry(e) ==
  e = [rune |-> e.rune, etching |-> e.etching, number |-> e.number,
       premine |-> e.premine, terms |-> e.terms, mints |-> e.mints,
       burned |-> e.burned]

IsMaps(m) ==
  /\ m = [balances |-> m.balances, born |-> m.born, entry |-> m.entry,
          id_of |-> m.id_of, rune_of |-> m.rune_of]
  /\ IsMapping(m.balances)
  /\ IsMapping(m.born)
  /\ IsMapping(m.entry)
  /\ IsMapping(m.id_of)
  /\ IsMapping(m.rune_of)
  /\ DOMAIN m.born = DOMAIN m.balances
  /\ \A id \in DOMAIN m.entry : IsEntry(m.entry[id])

IsRecord(cr) ==
  cr = [removed |-> cr.removed, added |-> cr.added, burned |-> cr.burned,
        mints |-> cr.mints, runes |-> cr.runes]

(* Undoing cr in m gives b, key by key.                                    *)
Restores(m, cr, b) ==
  /\ (DOMAIN m.balances \cup DOMAIN cr.removed) \ cr.added = DOMAIN b.balances
  /\ \A o \in DOMAIN b.balances :
       /\ b.balances[o] = IF o \in DOMAIN cr.removed THEN cr.removed[o].balances
                                                     ELSE m.balances[o]
       /\ b.born[o] = IF o \in DOMAIN cr.removed THEN cr.removed[o].height
                                                 ELSE m.born[o]
  /\ DOMAIN m.entry \ {r[2] : r \in cr.runes} = DOMAIN b.entry
  /\ \A id \in DOMAIN b.entry : b.entry[id] = Reset(m.entry[id], id, cr)
  /\ DOMAIN m.id_of \ {r[1] : r \in cr.runes} = DOMAIN b.id_of
  /\ \A n \in DOMAIN b.id_of : b.id_of[n] = m.id_of[n]
  /\ DOMAIN m.rune_of \ {r[3] : r \in cr.runes} = DOMAIN b.rune_of
  /\ \A t \in DOMAIN b.rune_of : b.rune_of[t] = m.rune_of[t]

(* What taking the removed outpoints back and the added ones out leaves.   *)
LeavesUnspent(f, cr, back, g) ==
  /\ IsMapping(g)
  /\ (DOMAIN f \cup DOMAIN back) \ cr.added = DOMAIN g
  /\ \A x \in DOMAIN g : g[x] = IF x \in DOMAIN back THEN back[x] ELSE f[x]

LEMMA UnspentIs ==
  ASSUME NEW f, NEW cr, NEW back, NEW g, LeavesUnspent(f, cr, back, g)
  PROVE  Unspent(f, cr, back) = g
<1> USE DEF LeavesUnspent
<1>1. Unspent(f, cr, back) =
        [x \in DOMAIN g |-> IF x \in DOMAIN back THEN back[x] ELSE f[x]]
  BY DEF Unspent, Without, PutAll
<1> QED BY <1>1 DEF IsMapping

LEMMA UnetchedIs ==
  ASSUME NEW f, NEW added, NEW g, IsMapping(g),
         DOMAIN f \ added = DOMAIN g, \A x \in DOMAIN g : g[x] = f[x]
  PROVE  Unetched(f, added) = g
<1>1. Unetched(f, added) = [x \in DOMAIN g |-> f[x]]
  BY DEF Unetched, Without
<1> QED BY <1>1 DEF IsMapping

LEMMA RestoresIsUndone ==
  ASSUME NEW m, NEW cr, NEW b, IsMaps(m), IsMaps(b), Restores(m, cr, b)
  PROVE  Undone(m, cr) = b
<1> DEFINE backs == [o \in DOMAIN cr.removed |-> cr.removed[o].balances]
           heights == [o \in DOMAIN cr.removed |-> cr.removed[o].height]
           reset == [id \in DOMAIN m.entry |-> Reset(m.entry[id], id, cr)]
<1>1. Unspent(m.balances, cr, backs) = b.balances
  <2>1. LeavesUnspent(m.balances, cr, backs, b.balances)
    BY DEF IsMaps, Restores, LeavesUnspent
  <2> HIDE DEF backs
  <2> QED BY <2>1, UnspentIs
<1>2. Unspent(m.born, cr, heights) = b.born
  <2>1. LeavesUnspent(m.born, cr, heights, b.born)
    BY DEF IsMaps, Restores, LeavesUnspent
  <2> HIDE DEF heights
  <2> QED BY <2>1, UnspentIs
<1>3. Unetched(reset, {r[2] : r \in cr.runes}) = b.entry
  <2>1. /\ IsMapping(b.entry)
        /\ DOMAIN reset \ {r[2] : r \in cr.runes} = DOMAIN b.entry
        /\ \A x \in DOMAIN b.entry : b.entry[x] = reset[x]
    BY DEF IsMaps, Restores
  <2> HIDE DEF reset
  <2> QED BY <2>1, UnetchedIs
<1>4. Unetched(m.id_of, {r[1] : r \in cr.runes}) = b.id_of
  <2> DEFINE added == {r[1] : r \in cr.runes}
  <2>1. /\ IsMapping(b.id_of)
        /\ DOMAIN m.id_of \ added = DOMAIN b.id_of
        /\ \A x \in DOMAIN b.id_of : b.id_of[x] = m.id_of[x]
    BY DEF IsMaps, Restores
  <2> HIDE DEF added
  <2>2. Unetched(m.id_of, added) = b.id_of
    BY <2>1, UnetchedIs
  <2> QED BY <2>2 DEF added
<1>5. Unetched(m.rune_of, {r[3] : r \in cr.runes}) = b.rune_of
  <2> DEFINE added == {r[3] : r \in cr.runes}
  <2>1. /\ IsMapping(b.rune_of)
        /\ DOMAIN m.rune_of \ added = DOMAIN b.rune_of
        /\ \A x \in DOMAIN b.rune_of : b.rune_of[x] = m.rune_of[x]
    BY DEF IsMaps, Restores
  <2> HIDE DEF added
  <2>2. Unetched(m.rune_of, added) = b.rune_of
    BY <2>1, UnetchedIs
  <2> QED BY <2>2 DEF added
<1> QED BY <1>1, <1>2, <1>3, <1>4, <1>5 DEF Undone, IsMaps

LEMMA RestoresNothing ==
  ASSUME NEW m, IsMaps(m)
  PROVE  Restores(m, EmptyRecord, m)
<1>1. DOMAIN EmptyRecord.removed = {} /\ EmptyRecord.added = {} /\ EmptyRecord.runes = {}
      /\ DOMAIN EmptyRecord.burned = {} /\ DOMAIN EmptyRecord.mints = {}
  BY DEF EmptyRecord
<1>2. \A id \in DOMAIN m.entry : m.entry[id] = Reset(m.entry[id], id, EmptyRecord)
  BY <1>1 DEF Reset, IsMaps, IsEntry
<1> QED BY <1>1, <1>2 DEF Restores

-----------------------------------------------------------------------------
(* The change record of a block that is being indexed: undoing it in m     *)
(* gives b, the maps from before the block.  What update adds to burned    *)
(* comes last.                                                             *)
Recording(m, cr, b) ==
  /\ IsMaps(m)
  /\ IsRecord(cr)
  /\ Restores(m, cr, b)
  /\ DOMAIN cr.burned = {}
  /\ DOMAIN cr.removed \cap DOMAIN m.balances = {}

(* An entry with other counts.                                             *)
Counted(e, mints, burned) ==
  [rune |-> e.rune, etching |-> e.etching, number |-> e.number,
   premine |-> e.premine, terms |-> e.terms, mints |-> mints, burned |-> burned]

WithMints(e, x) == [e EXCEPT !.mints = x]
WithBurned(e, y) == [e EXCEPT !.burned = y]

LEMMA EntryFacts ==
  ASSUME NEW e, IsEntry(e), NEW x, NEW y
  PROVE  /\ WithMints(e, x) = Counted(e, x, e.burned)
         /\ WithBurned(e, y) = Counted(e, e.mints, y)
         /\ WithMints(WithBurned(e, y), x) = Counted(e, x, y)
<1>1. e = Counted(e, e.mints, e.burned)
  BY DEF IsEntry, Counted
<1>2. /\ [Counted(e, e.mints, e.burned) EXCEPT !.mints = x] = Counted(e, x, e.burned)
      /\ [Counted(e, e.mints, e.burned) EXCEPT !.burned = y] = Counted(e, e.mints, y)
      /\ [Counted(e, e.mints, y) EXCEPT !.mints = x] = Counted(e, x, y)
  BY DEF Counted
<1> QED BY <1>1, <1>2 DEF WithMints, WithBurned

LEMMA CountedFacts ==
  ASSUME NEW e, NEW x, NEW y
  PROVE  /\ IsEntry(Counted(e, x, y))
         /\ Counted(e, x, y).mints = x
         /\ Counted(e, x, y).burned = y
         /\ \A v, w : Counted(Counted(e, x, y), v, w) = Counted(e, v, w)
BY DEF IsEntry, Counted

LEMMA ResetFacts ==
  ASSUME NEW e, IsEntry(e), NEW id, NEW cr
  PROVE  Reset(e, id, cr) =
           Counted(e, IF id \in DOMAIN cr.mints THEN cr.mints[id] ELSE e.mints,
                      IF id \in DOMAIN cr.burned THEN cr.burned[id] ELSE e.burned)
<1> DEFINE y == IF id \in DOMAIN cr.burned THEN cr.burned[id] ELSE e.burned
           x == IF id \in DOMAIN cr.mints THEN cr.mints[id] ELSE e.mints
<1>1. Reset(e, id, cr) = WithMints(WithBurned(e, y), x)
  BY DEF Reset, WithMints, WithBurned
<1> HIDE DEF x, y
<1>2. WithMints(WithBurned(e, y), x) = Counted(e, x, y)
  BY EntryFacts
<1> QED BY <1>1, <1>2 DEF x, y

(* Inputs spent and runes minted.                                          *)
MapsBegun(m, spent, minted) ==
  [m EXCEPT
     !.balances = Without(m.balances, spent),
     !.born = Without(m.born, spent),
     !.entry = PutAll(m.entry, [id \in minted |-> OnceMoreMinted(m.entry[id])])]

RecordBegun(cr, m, spent, minted) ==
  [cr EXCEPT
     !.removed = PutAll(cr.removed, [o \in spent |->
                   [balances |-> m.balances[o], height |-> m.born[o]]]),
     !.mints = FirstCounts(cr.mints, m.entry, minted)]

LEMMA BeginKeepsRecording ==
  ASSUME NEW m, NEW cr, NEW b, Recording(m, cr, b),
         NEW spent, spent \subseteq DOMAIN m.balances,
         NEW minted, minted \subseteq DOMAIN m.entry,
         NEW m2, m2 = MapsBegun(m, spent, minted),
         NEW cr2, cr2 = RecordBegun(cr, m, spent, minted)
  PROVE  Recording(m2, cr2, b)
<1> USE DEF Recording
<1>1. /\ m2.balances = Without(m.balances, spent)
      /\ m2.born = Without(m.born, spent)
      /\ m2.entry = PutAll(m.entry, [id \in minted |-> OnceMoreMinted(m.entry[id])])
      /\ m2.id_of = m.id_of
      /\ m2.rune_of = m.rune_of
      /\ m2 = [balances |-> m2.balances, born |-> m2.born, entry |-> m2.entry,
               id_of |-> m2.id_of, rune_of |-> m2.rune_of]
  BY DEF IsMaps, MapsBegun
<1>2. /\ cr2.removed = PutAll(cr.removed, [o \in spent |->
                     [balances |-> m.balances[o], height |-> m.born[o]]])
      /\ cr2.mints = FirstCounts(cr.mints, m.entry, minted)
      /\ cr2.added = cr.added
      /\ cr2.burned = cr.burned
      /\ cr2.runes = cr.runes
      /\ IsRecord(cr2)
  BY DEF IsRecord, RecordBegun
<1>3. /\ DOMAIN m2.balances = DOMAIN m.balances \ spent
      /\ DOMAIN m2.born = DOMAIN m2.balances
      /\ \A o \in DOMAIN m2.balances :
           m2.balances[o] = m.balances[o] /\ m2.born[o] = m.born[o]
      /\ IsMapping(m2.balances) /\ IsMapping(m2.born)
  BY <1>1 DEF Without, IsMapping, IsMaps
<1>4. /\ DOMAIN m2.entry = DOMAIN m.entry
      /\ \A id \in DOMAIN m.entry :
           m2.entry[id] = IF id \in minted THEN OnceMoreMinted(m.entry[id])
                                           ELSE m.entry[id]
      /\ IsMapping(m2.entry)
  BY <1>1 DEF PutAll, IsMapping
<1>5. \A id \in DOMAIN m.entry : IsEntry(m2.entry[id])
  <2> SUFFICES ASSUME NEW id \in DOMAIN m.entry PROVE IsEntry(m2.entry[id])
    OBVIOUS
  <2>1. IsEntry(m.entry[id])
    BY DEF IsMaps
  <2>2. OnceMoreMinted(m.entry[id]) =
          Counted(m.entry[id], m.entry[id].mints + 1, m.entry[id].burned)
    BY <2>1, EntryFacts DEF OnceMoreMinted, WithMints
  <2>3. IsEntry(OnceMoreMinted(m.entry[id]))
    BY <2>2, CountedFacts
  <2> QED BY <1>4, <2>1, <2>3
<1>6. IsMaps(m2)
  BY <1>1, <1>3, <1>4, <1>5 DEF IsMaps
<1>7. /\ DOMAIN cr2.removed = DOMAIN cr.removed \cup spent
      /\ \A o \in spent : /\ cr2.removed[o].balances = m.balances[o]
                          /\ cr2.removed[o].height = m.born[o]
      /\ \A o \in DOMAIN cr.removed \ spent : cr2.removed[o] = cr.removed[o]
  BY <1>2 DEF PutAll
<1>8. /\ DOMAIN cr2.mints = minted \cup DOMAIN cr.mints
      /\ \A id \in DOMAIN cr.mints : cr2.mints[id] = cr.mints[id]
      /\ \A id \in minted \ DOMAIN cr.mints : cr2.mints[id] = m.entry[id].mints
  BY <1>2 DEF FirstCounts, PutAll
<1>9. ASSUME NEW id \in DOMAIN m.entry
      PROVE  Reset(m2.entry[id], id, cr2) = Reset(m.entry[id], id, cr)
  <2>1. IsEntry(m.entry[id])
    BY DEF IsMaps
  <2>2. Reset(m.entry[id], id, cr) =
          Counted(m.entry[id],
                  IF id \in DOMAIN cr.mints THEN cr.mints[id] ELSE m.entry[id].mints,
                  m.entry[id].burned)
    BY <2>1, ResetFacts
  <2>3. Reset(m2.entry[id], id, cr2) =
          Counted(m2.entry[id],
                  IF id \in DOMAIN cr2.mints THEN cr2.mints[id] ELSE m2.entry[id].mints,
                  m2.entry[id].burned)
    <3>1. IsEntry(m2.entry[id])
      BY <1>5
    <3>2. id \notin DOMAIN cr2.burned
      BY <1>2
    <3> QED BY <3>1, <3>2, ResetFacts
  <2>4. CASE id \in minted
    <3>1. m2.entry[id] = Counted(m.entry[id], m.entry[id].mints + 1, m.entry[id].burned)
      BY <1>4, <2>1, <2>4, EntryFacts DEF OnceMoreMinted, WithMints
    <3>2. /\ m2.entry[id].burned = m.entry[id].burned
          /\ \A v, w : Counted(m2.entry[id], v, w) = Counted(m.entry[id], v, w)
      BY <3>1, CountedFacts
    <3>3. (IF id \in DOMAIN cr2.mints THEN cr2.mints[id] ELSE m2.entry[id].mints)
            = (IF id \in DOMAIN cr.mints THEN cr.mints[id] ELSE m.entry[id].mints)
      BY <1>8, <2>4
    <3> QED BY <2>2, <2>3, <3>2, <3>3
  <2>5. CASE id \notin minted
    <3>1. m2.entry[id] = m.entry[id]
      BY <1>4, <2>5
    <3>2. (IF id \in DOMAIN cr2.mints THEN cr2.mints[id] ELSE m2.entry[id].mints)
            = (IF id \in DOMAIN cr.mints THEN cr.mints[id] ELSE m.entry[id].mints)
      BY <1>8, <2>5, <3>1
    <3> QED BY <2>2, <2>3, <3>1, <3>2
  <2> QED BY <2>4, <2>5
<1>10. Restores(m2, cr2, b)
  <2>1. (DOMAIN m2.balances \cup DOMAIN cr2.removed) \ cr2.added = DOMAIN b.balances
    BY <1>2, <1>3, <1>7 DEF Restores
  <2>2. ASSUME NEW o \in DOMAIN b.balances
        PROVE  /\ b.balances[o] = IF o \in DOMAIN cr2.removed THEN cr2.removed[o].balances
                                                              ELSE m2.balances[o]
               /\ b.born[o] = IF o \in DOMAIN cr2.removed THEN cr2.removed[o].height
                                                          ELSE m2.born[o]
    <3>1. /\ o \in DOMAIN m.balances \/ o \in DOMAIN cr.removed
          /\ o \in DOMAIN cr.removed => /\ b.balances[o] = cr.removed[o].balances
                                        /\ b.born[o] = cr.removed[o].height
          /\ o \notin DOMAIN cr.removed => /\ b.balances[o] = m.balances[o]
                                           /\ b.born[o] = m.born[o]
      BY DEF Restores
    <3>2. CASE o \in spent
      <4>1. o \notin DOMAIN cr.removed
        BY <3>2
      <4> QED BY <1>7, <3>1, <3>2, <4>1
    <3>3. CASE o \notin spent
      <4>1. o \in DOMAIN cr.removed <=> o \in DOMAIN cr2.removed
        BY <1>7, <3>3
      <4>2. CASE o \in DOMAIN cr.removed
        <5>1. cr2.removed[o] = cr.removed[o]
          BY <1>7, <3>3, <4>2
        <5> QED BY <3>1, <4>1, <4>2, <5>1
      <4>3. CASE o \notin DOMAIN cr.removed
        <5>1. o \in DOMAIN m2.balances
          BY <1>3, <3>1, <3>3, <4>3
        <5> QED BY <1>3, <3>1, <4>1, <4>3, <5>1
      <4> QED BY <4>2, <4>3
    <3> QED BY <3>2, <3>3
  <2>3. /\ DOMAIN m2.entry \ {r[2] : r \in cr2.runes} = DOMAIN b.entry
        /\ \A id \in DOMAIN b.entry : b.entry[id] = Reset(m2.entry[id], id, cr2)
    BY <1>2, <1>4, <1>9 DEF Restores
  <2>4. /\ DOMAIN m2.id_of \ {r[1] : r \in cr2.runes} = DOMAIN b.id_of
        /\ \A n \in DOMAIN b.id_of : b.id_of[n] = m2.id_of[n]
        /\ DOMAIN m2.rune_of \ {r[3] : r \in cr2.runes} = DOMAIN b.rune_of
        /\ \A t \in DOMAIN b.rune_of : b.rune_of[t] = m2.rune_of[t]
    BY <1>1, <1>2 DEF Restores
  <2> QED BY <2>1, <2>2, <2>3, <2>4 DEF Restores
<1>11. DOMAIN cr2.removed \cap DOMAIN m2.balances = {}
  BY <1>3, <1>7
<1> QED BY <1>2, <1>6, <1>10, <1>11

(* Outputs created and runes etched: keys that the maps from before the    *)
(* block do not have.                                                      *)
MapsGrown(m, kept, heights, entries, ids, names) ==
  [balances |-> PutAll(m.balances, kept), born |-> PutAll(m.born, heights),
   entry |-> PutAll(m.entry, entries), id_of |-> PutAll(m.id_of, ids),
   rune_of |-> PutAll(m.rune_of, names)]

RecordGrown(cr, outs, etched) ==
  [cr EXCEPT !.added = cr.added \cup outs, !.runes = cr.runes \cup etched]

IsUnion(h, f, g) ==
  /\ IsMapping(h)
  /\ DOMAIN h = DOMAIN f \cup DOMAIN g
  /\ \A x \in DOMAIN g : h[x] = g[x]
  /\ \A x \in DOMAIN f \ DOMAIN g : h[x] = f[x]

LEMMA PutAllFacts == \A f, g : IsUnion(PutAll(f, g), f, g)
BY DEF PutAll, IsMapping, IsUnion

(* The new parts belong together, and have no key of b.                    *)
Together(kept, heights, entries, ids, names, etched) ==
  /\ DOMAIN heights = DOMAIN kept
  /\ DOMAIN ids = {r[1] : r \in etched}
  /\ DOMAIN entries = {r[2] : r \in etched}
  /\ DOMAIN names = {r[3] : r \in etched}
  /\ \A id \in DOMAIN entries : IsEntry(entries[id])

Fresh(kept, entries, ids, names, cr, b) ==
  /\ DOMAIN kept \cap (DOMAIN b.balances \cup DOMAIN cr.removed) = {}
  /\ DOMAIN entries \cap DOMAIN b.entry = {}
  /\ DOMAIN ids \cap DOMAIN b.id_of = {}
  /\ DOMAIN names \cap DOMAIN b.rune_of = {}

LEMMA DistributeKeepsRecording ==
  ASSUME NEW m, NEW cr, NEW b, Recording(m, cr, b),
         NEW kept, NEW heights, NEW entries, NEW ids, NEW names,
         NEW etched,
         NEW m2, m2 = MapsGrown(m, kept, heights, entries, ids, names),
         NEW cr2, cr2 = RecordGrown(cr, DOMAIN kept, etched),
         Together(kept, heights, entries, ids, names, etched),
         Fresh(kept, entries, ids, names, cr, b)
  PROVE  Recording(m2, cr2, b)
<1> USE DEF Recording, Together, Fresh
<1>1. /\ m2.balances = PutAll(m.balances, kept)
      /\ m2.born = PutAll(m.born, heights)
      /\ m2.entry = PutAll(m.entry, entries)
      /\ m2.id_of = PutAll(m.id_of, ids)
      /\ m2.rune_of = PutAll(m.rune_of, names)
      /\ m2 = [balances |-> m2.balances, born |-> m2.born, entry |-> m2.entry,
               id_of |-> m2.id_of, rune_of |-> m2.rune_of]
  BY DEF MapsGrown
<1>2. /\ cr2.removed = cr.removed
      /\ cr2.mints = cr.mints
      /\ cr2.added = cr.added \cup DOMAIN kept
      /\ cr2.burned = cr.burned
      /\ cr2.runes = cr.runes \cup etched
      /\ IsRecord(cr2)
  BY DEF IsRecord, RecordGrown
<1>3. /\ IsMapping(m2.balances) /\ IsMapping(m2.born)
      /\ DOMAIN m2.balances = DOMAIN m.balances \cup DOMAIN kept
      /\ DOMAIN m2.born = DOMAIN m2.balances
      /\ \A o \in DOMAIN m.balances \ DOMAIN kept :
           m2.balances[o] = m.balances[o] /\ m2.born[o] = m.born[o]
  <2>1. IsUnion(m2.balances, m.balances, kept) /\ IsUnion(m2.born, m.born, heights)
    BY <1>1, PutAllFacts
  <2> QED BY <2>1 DEF IsMaps, IsUnion
<1>4. /\ IsMapping(m2.entry)
      /\ DOMAIN m2.entry = DOMAIN m.entry \cup DOMAIN entries
      /\ \A id \in DOMAIN entries : m2.entry[id] = entries[id]
      /\ \A id \in DOMAIN m.entry \ DOMAIN entries : m2.entry[id] = m.entry[id]
  <2>1. IsUnion(m2.entry, m.entry, entries)
    BY <1>1, PutAllFacts
  <2> QED BY <2>1 DEF IsUnion
<1>5. /\ IsMapping(m2.id_of)
      /\ DOMAIN m2.id_of = DOMAIN m.id_of \cup DOMAIN ids
      /\ \A n \in DOMAIN m.id_of \ DOMAIN ids : m2.id_of[n] = m.id_of[n]
  <2>1. IsUnion(m2.id_of, m.id_of, ids)
    BY <1>1, PutAllFacts
  <2> QED BY <2>1 DEF IsUnion
<1>6. /\ IsMapping(m2.rune_of)
      /\ DOMAIN m2.rune_of = DOMAIN m.rune_of \cup DOMAIN names
      /\ \A t \in DOMAIN m.rune_of \ DOMAIN names : m2.rune_of[t] = m.rune_of[t]
  <2>1. IsUnion(m2.rune_of, m.rune_of, names)
    BY <1>1, PutAllFacts
  <2> QED BY <2>1 DEF IsUnion
<1>7. IsMaps(m2)
  <2>1. \A id \in DOMAIN m2.entry : IsEntry(m2.entry[id])
    BY <1>4 DEF IsMaps
  <2> QED BY <1>1, <1>3, <1>4, <1>5, <1>6, <2>1 DEF IsMaps
<1>8. /\ {r[1] : r \in cr2.runes} = {r[1] : r \in cr.runes} \cup DOMAIN ids
      /\ {r[2] : r \in cr2.runes} = {r[2] : r \in cr.runes} \cup DOMAIN entries
      /\ {r[3] : r \in cr2.runes} = {r[3] : r \in cr.runes} \cup DOMAIN names
  BY <1>2
<1>9. (DOMAIN m2.balances \cup DOMAIN cr2.removed) \ cr2.added = DOMAIN b.balances
  BY <1>2, <1>3 DEF Restores
<1>10. ASSUME NEW o \in DOMAIN b.balances
       PROVE  /\ b.balances[o] = IF o \in DOMAIN cr2.removed THEN cr2.removed[o].balances
                                                             ELSE m2.balances[o]
              /\ b.born[o] = IF o \in DOMAIN cr2.removed THEN cr2.removed[o].height
                                                         ELSE m2.born[o]
  <2>1. /\ o \in DOMAIN m.balances \/ o \in DOMAIN cr.removed
        /\ o \in DOMAIN cr.removed => /\ b.balances[o] = cr.removed[o].balances
                                      /\ b.born[o] = cr.removed[o].height
        /\ o \notin DOMAIN cr.removed => /\ b.balances[o] = m.balances[o]
                                         /\ b.born[o] = m.born[o]
    BY DEF Restores
  <2>2. o \notin DOMAIN kept
    OBVIOUS
  <2>3. o \in DOMAIN m.balances => m2.balances[o] = m.balances[o] /\ m2.born[o] = m.born[o]
    BY <1>3, <2>2
  <2> QED BY <1>2, <2>1, <2>3
<1>11. /\ DOMAIN m2.entry \ {r[2] : r \in cr2.runes} = DOMAIN b.entry
       /\ DOMAIN m2.id_of \ {r[1] : r \in cr2.runes} = DOMAIN b.id_of
       /\ DOMAIN m2.rune_of \ {r[3] : r \in cr2.runes} = DOMAIN b.rune_of
  BY <1>4, <1>5, <1>6, <1>8 DEF Restores
<1>12. ASSUME NEW id \in DOMAIN b.entry
       PROVE  b.entry[id] = Reset(m2.entry[id], id, cr2)
  <2>1. /\ id \in DOMAIN m.entry \ DOMAIN entries
        /\ b.entry[id] = Reset(m.entry[id], id, cr)
    BY DEF Restores
  <2>2. m2.entry[id] = m.entry[id]
    BY <1>4, <2>1
  <2>3. Reset(m.entry[id], id, cr2) = Reset(m.entry[id], id, cr)
    BY <1>2 DEF Reset
  <2> QED BY <2>1, <2>2, <2>3
<1>13. \A n \in DOMAIN b.id_of : b.id_of[n] = m2.id_of[n]
  BY <1>5 DEF Restores
<1>14. \A t \in DOMAIN b.rune_of : b.rune_of[t] = m2.rune_of[t]
  BY <1>6 DEF Restores
<1>15. Restores(m2, cr2, b)
  BY <1>9, <1>10, <1>11, <1>12, <1>13, <1>14 DEF Restores
<1>16. DOMAIN cr2.removed \cap DOMAIN m2.balances = {}
  BY <1>2, <1>3
<1> QED BY <1>2, <1>7, <1>15, <1>16

(* The burns of the block, added to entries that there are.                *)
MapsBurned(m, burned) ==
  [m EXCEPT !.entry = PutAll(m.entry,
     [id \in DOMAIN burned |-> OnceBurned(m.entry[id], burned[id])])]

RecordBurned(cr, m, ids) ==
  [cr EXCEPT !.burned = [id \in ids |-> m.entry[id].burned]]

LEMMA FinishRestores ==
  ASSUME NEW m, NEW cr, NEW b, Recording(m, cr, b),
         NEW burned, DOMAIN burned \subseteq DOMAIN m.entry,
         NEW m2, m2 = MapsBurned(m, burned),
         NEW cr2, cr2 = RecordBurned(cr, m, DOMAIN burned)
  PROVE  IsMaps(m2) /\ IsRecord(cr2) /\ Restores(m2, cr2, b)
<1> USE DEF Recording
<1> DEFINE more == [id \in DOMAIN burned |-> OnceBurned(m.entry[id], burned[id])]
<1>1. /\ m2.balances = m.balances
      /\ m2.born = m.born
      /\ m2.entry = PutAll(m.entry, more)
      /\ m2.id_of = m.id_of
      /\ m2.rune_of = m.rune_of
      /\ m2 = [balances |-> m2.balances, born |-> m2.born, entry |-> m2.entry,
               id_of |-> m2.id_of, rune_of |-> m2.rune_of]
  BY DEF IsMaps, MapsBurned
<1>2. /\ cr2.removed = cr.removed
      /\ cr2.mints = cr.mints
      /\ cr2.added = cr.added
      /\ cr2.burned = [id \in DOMAIN burned |-> m.entry[id].burned]
      /\ cr2.runes = cr.runes
      /\ IsRecord(cr2)
  BY DEF IsRecord, RecordBurned
<1>3. /\ IsMapping(m2.entry)
      /\ DOMAIN m2.entry = DOMAIN m.entry
      /\ \A id \in DOMAIN burned : m2.entry[id] = OnceBurned(m.entry[id], burned[id])
      /\ \A id \in DOMAIN m.entry \ DOMAIN burned : m2.entry[id] = m.entry[id]
  <2>1. IsUnion(m2.entry, m.entry, more)
    BY <1>1, PutAllFacts
  <2> QED BY <2>1 DEF IsUnion
<1>4. ASSUME NEW id \in DOMAIN burned
      PROVE  /\ IsEntry(m.entry[id])
             /\ m2.entry[id] = Counted(m.entry[id], m.entry[id].mints,
                                       m.entry[id].burned + burned[id])
  <2>1. IsEntry(m.entry[id])
    BY DEF IsMaps
  <2>2. WithBurned(m.entry[id], m.entry[id].burned + burned[id]) =
          Counted(m.entry[id], m.entry[id].mints, m.entry[id].burned + burned[id])
    BY <2>1, EntryFacts
  <2>3. m2.entry[id] = WithBurned(m.entry[id], m.entry[id].burned + burned[id])
    BY <1>3 DEF OnceBurned, WithBurned
  <2> QED BY <2>1, <2>2, <2>3
<1>5. \A id \in DOMAIN m.entry : IsEntry(m2.entry[id])
  BY <1>3, <1>4, CountedFacts DEF IsMaps
<1>6. IsMaps(m2)
  BY <1>1, <1>3, <1>5 DEF IsMaps
<1>7. ASSUME NEW id \in DOMAIN m.entry
      PROVE  Reset(m2.entry[id], id, cr2) = Reset(m.entry[id], id, cr)
  <2>1. IsEntry(m.entry[id]) /\ IsEntry(m2.entry[id])
    BY <1>5 DEF IsMaps
  <2>2. Reset(m.entry[id], id, cr) =
          Counted(m.entry[id],
                  IF id \in DOMAIN cr.mints THEN cr.mints[id] ELSE m.entry[id].mints,
                  m.entry[id].burned)
    BY <2>1, ResetFacts
  <2>3. Reset(m2.entry[id], id, cr2) =
          Counted(m2.entry[id],
                  IF id \in DOMAIN cr.mints THEN cr.mints[id] ELSE m2.entry[id].mints,
                  IF id \in DOMAIN burned THEN m.entry[id].burned ELSE m2.entry[id].burned)
    BY <1>2, <2>1, ResetFacts
  <2>4. CASE id \in DOMAIN burned
    <3>1. /\ m2.entry[id].mints = m.entry[id].mints
          /\ \A v, w : Counted(m2.entry[id], v, w) = Counted(m.entry[id], v, w)
      BY <1>4, <2>4, CountedFacts
    <3> QED BY <2>2, <2>3, <2>4, <3>1
  <2>5. CASE id \notin DOMAIN burned
    BY <1>3, <2>2, <2>3, <2>5
  <2> QED BY <2>4, <2>5
<1>8. Restores(m2, cr2, b)
  BY <1>1, <1>2, <1>3, <1>7 DEF Restores
<1> QED BY <1>2, <1>6, <1>8

-----------------------------------------------------------------------------
(* The inductive invariant: what can be undone, and that it leads back.    *)
InBlock == pc \in {"tx", "etching"}

Window ==
  \/ DOMAIN record = {}
  \/ \E lo, hi \in FirstHeight..LastHeight : lo <= hi /\ DOMAIN record = lo..hi

(* Heights with statistics: the retained ones, and the one being indexed.  *)
Counting == IF InBlock THEN DOMAIN record \cup {NextHeight} ELSE DOMAIN record

Shape ==
  /\ pc \in {"idle", "tx", "etching", "halted"}
  /\ Window
  /\ InBlock => /\ updater.height = NextHeight
                /\ NextHeight <= LastHeight
                /\ updater = [height |-> updater.height, burned |-> updater.burned,
                              runes |-> updater.runes,
                              change_record |-> updater.change_record]
  /\ DOMAIN runes = Counting
  /\ DOMAIN reserved = Counting
  /\ DOMAIN base = DOMAIN mined
  /\ Counting \subseteq DOMAIN mined
  /\ \A g \in DOMAIN mined : /\ g \in Nat
                             /\ g < NextHeight \/ (InBlock /\ g = NextHeight)
                             /\ mined[g] \in Seq(Tx)

Place ==
  IF pc = "etching"
  THEN frame.index \in 0..(BlockSize - 1) /\ \E t \in MinedTx \cap Tx : frame.tx = {t}
  ELSE frame.tx = {}

(* What the maps m hold is of the transactions txs, below height h.        *)
Fits(m, txs, h) ==
  /\ \A o \in DOMAIN m.balances : o[1] \in txs
  /\ \A t \in DOMAIN m.rune_of : t \in txs
  /\ \A id \in DOMAIN m.entry : id[1] \in 0..(h - 1)
  /\ \A n \in DOMAIN m.id_of : n \in Rune \/ n[1] \in 0..(h - 1)

Before(g) == UNION {ToSet(mined[f]) : f \in {f \in DOMAIN mined : f < g}}

BasesFit ==
  \A g \in DOMAIN base :
    IsMaps(base[g].maps) /\ Fits(base[g].maps, Before(g), g)

(* Transactions that are done with their inputs and outputs.               *)
DoneTx == MinedTx \ frame.tx

MapsFit ==
  /\ IsMaps(maps)
  /\ Fits(maps, DoneTx, IF InBlock THEN NextHeight + 1 ELSE NextHeight)
  /\ InBlock => \A o \in DOMAIN updater.change_record.removed : o[1] \in DoneTx

Counts ==
  \A g \in DOMAIN base :
    g - 1 \in Counting => /\ base[g].runes = runes[g - 1]
                          /\ base[g].reserved = reserved[g - 1]

Recorded ==
  InBlock => Recording(maps, updater.change_record, base[updater.height].maps)

After(g) == IF g + 1 \in DOMAIN base THEN base[g + 1].maps ELSE maps

Revertible ==
  \A g \in DOMAIN record : Restores(After(g), record[g], base[g].maps)

Sound ==
  /\ Shape
  /\ Place
  /\ BasesFit
  /\ MapsFit
  /\ Counts
  /\ Recorded
  /\ Revertible

(* What a failed attempt leaves is only left by a start that is not        *)
(* orderly any more.                                                       *)
LedgerInductive == orderly /\ pc # "halted" => Sound

-----------------------------------------------------------------------------
LEMMA IntervalFacts ==
  ASSUME NEW lo \in Int, NEW hi \in Int, lo <= hi
  PROVE  Max(lo..hi) = hi /\ Min(lo..hi) = lo
<1>1. Max(lo..hi) = hi
  <2>1. hi \in lo..hi /\ \A y \in lo..hi : hi >= y
    OBVIOUS
  <2>2. \A x \in lo..hi : (\A y \in lo..hi : x >= y) => x = hi
    BY <2>1
  <2> QED BY <2>1, <2>2 DEF Max
<1>2. Min(lo..hi) = lo
  <2>1. lo \in lo..hi /\ \A y \in lo..hi : lo <= y
    OBVIOUS
  <2>2. \A x \in lo..hi : (\A y \in lo..hi : x <= y) => x = lo
    BY <2>1
  <2> QED BY <2>1, <2>2 DEF Min
<1> QED BY <1>1, <1>2

LEMMA WindowFacts ==
  ASSUME Window
  PROVE  /\ NextHeight \in Nat /\ NextHeight >= FirstHeight
         /\ \A g \in DOMAIN record : g \in Nat /\ g < NextHeight
         /\ DOMAIN record = {} => NextHeight = FirstHeight
         /\ DOMAIN record # {} =>
              \E lo \in FirstHeight..LastHeight :
                /\ lo <= NextHeight - 1
                /\ NextHeight - 1 <= LastHeight
                /\ DOMAIN record = lo..(NextHeight - 1)
                /\ Max(DOMAIN record) = NextHeight - 1
                /\ Min(DOMAIN record) = lo
<1>1. CASE DOMAIN record = {}
  BY <1>1, LedgerAssumption DEF NextHeight
<1>2. CASE DOMAIN record # {}
  <2>1. PICK lo, hi \in FirstHeight..LastHeight : lo <= hi /\ DOMAIN record = lo..hi
    BY <1>2 DEF Window
  <2>2. Max(DOMAIN record) = hi /\ Min(DOMAIN record) = lo
    BY <2>1, IntervalFacts, LedgerAssumption
  <2>3. NextHeight = hi + 1
    BY <1>2, <2>2 DEF NextHeight
  <2> QED BY <1>2, <2>1, <2>2, <2>3, LedgerAssumption
<1> QED BY <1>1, <1>2

LEMMA AppendFacts ==
  ASSUME NEW s \in Seq(Tx), NEW t \in Tx
  PROVE  /\ ToSet(Append(s, t)) = ToSet(s) \cup {t}
         /\ Append(s, t) \in Seq(Tx)
         /\ Len(s) \in Nat
<1>1. DOMAIN s = 1..Len(s) /\ Len(s) \in Nat /\ Len(Append(s, t)) = Len(s) + 1
  OBVIOUS
<1>2. DOMAIN Append(s, t) = 1..(Len(s) + 1)
  OBVIOUS
<1>3. \A i \in 1..Len(s) : Append(s, t)[i] = s[i]
  OBVIOUS
<1>4. Append(s, t)[Len(s) + 1] = t
  OBVIOUS
<1>5. 1..(Len(s) + 1) = 1..Len(s) \cup {Len(s) + 1}
  BY <1>1
<1>6. ToSet(Append(s, t)) = ToSet(s) \cup {t}
  BY <1>1, <1>2, <1>3, <1>4, <1>5 DEF ToSet
<1> QED BY <1>1, <1>6

LEMMA InitSound == Init => Sound
<1> SUFFICES ASSUME Init PROVE Sound
  OBVIOUS
<1>1. /\ DOMAIN record = {} /\ DOMAIN runes = {} /\ DOMAIN reserved = {}
      /\ DOMAIN mined = {} /\ DOMAIN base = {} /\ pc = "idle" /\ frame.tx = {}
  BY DEF Init, NoFrame
<1>2. /\ DOMAIN maps.balances = {} /\ DOMAIN maps.born = {} /\ DOMAIN maps.entry = {}
      /\ DOMAIN maps.id_of = {} /\ DOMAIN maps.rune_of = {}
  BY DEF Init, EmptyMaps
<1>3. IsMaps(maps)
  <2>1. \A x : x \in DOMAIN << >> => FALSE
    OBVIOUS
  <2>2. IsMapping(<< >>)
    BY <2>1 DEF IsMapping
  <2> QED BY <1>2, <2>2 DEF Init, EmptyMaps, IsMaps
<1>4. Shape
  BY <1>1 DEF Shape, InBlock, Window, Counting
<1>5. Place /\ BasesFit /\ Counts /\ Recorded /\ Revertible
  BY <1>1 DEF Place, BasesFit, Counts, Recorded, Revertible, InBlock
<1>6. MapsFit
  BY <1>1, <1>2, <1>3 DEF MapsFit, Fits, InBlock
<1> QED BY <1>4, <1>5, <1>6 DEF Sound

LEMMA FitsMore ==
  ASSUME NEW m, NEW txs, NEW h \in Int, NEW k \in Int, h <= k, Fits(m, txs, h)
  PROVE  Fits(m, txs, k)
<1>1. \A x \in 0..(h - 1) : x \in 0..(k - 1)
  OBVIOUS
<1>2. \A id \in DOMAIN m.entry : id[1] \in 0..(k - 1)
  BY <1>1 DEF Fits
<1>3. \A n \in DOMAIN m.id_of : n \in Rune \/ n[1] \in 0..(k - 1)
  BY <1>1 DEF Fits
<1> QED BY <1>2, <1>3 DEF Fits

-----------------------------------------------------------------------------
LEMMA StartSound ==
  ASSUME Sound, StartBlock
  PROVE  Sound'
<1> USE DEF Sound
<1>0. PICK h : h = NextHeight
  OBVIOUS
<1>1. /\ pc = "idle" /\ pc' = "tx" /\ h <= LastHeight
      /\ runes' = Put(runes, h, Latest(runes, 0))
      /\ reserved' = Put(reserved, h, Latest(reserved, 0))
      /\ updater' = NewUpdater(h, Latest(runes, 0))
      /\ mined' = Put(mined, h, << >>)
      /\ base' = Put(base, h, Snapshot)
      /\ UNCHANGED <<maps, record, frame, orderly>>
  BY <1>0 DEF StartBlock
<1>2. /\ ~InBlock /\ InBlock' /\ NextHeight' = h /\ h \in Nat /\ Window'
      /\ Counting = DOMAIN record /\ Counting' = DOMAIN record \cup {h}
      /\ frame.tx = {} /\ frame'.tx = {}
      /\ \A g \in DOMAIN mined : g \in Nat /\ g < h
      /\ \A g \in DOMAIN record : g \in Nat /\ g < h
  BY <1>0, <1>1, WindowFacts DEF InBlock, NextHeight, Shape, Window, Counting, Place
<1>3. /\ DOMAIN mined' = DOMAIN mined \cup {h}
      /\ mined'[h] = << >>
      /\ \A g \in DOMAIN mined : mined'[g] = mined[g]
  BY <1>1, <1>2 DEF Put
<1>4. /\ DOMAIN base' = DOMAIN base \cup {h}
      /\ base'[h] = Snapshot
      /\ DOMAIN base = DOMAIN mined
      /\ \A g \in DOMAIN base : base'[g] = base[g]
  BY <1>1, <1>2 DEF Put, Shape
<1>5. /\ DOMAIN runes' = DOMAIN runes \cup {h}
      /\ \A g \in DOMAIN record : runes'[g] = runes[g]
      /\ DOMAIN reserved' = DOMAIN reserved \cup {h}
      /\ \A g \in DOMAIN record : reserved'[g] = reserved[g]
      /\ DOMAIN runes = DOMAIN record /\ DOMAIN reserved = DOMAIN record
  BY <1>1, <1>2 DEF Put, Shape
<1>6. updater' = [height |-> h, burned |-> << >>, runes |-> Latest(runes, 0),
                  change_record |-> EmptyRecord]
  BY <1>1 DEF NewUpdater
<1>7. Shape'
  <2>1. InBlock' => /\ updater'.height = h
                    /\ h <= LastHeight
                    /\ updater' = [height |-> updater'.height, burned |-> updater'.burned,
                              runes |-> updater'.runes,
                              change_record |-> updater'.change_record]
    BY <1>1, <1>2, <1>6
  <2>2. \A g \in DOMAIN mined' : /\ g \in Nat
                                 /\ g < h \/ (InBlock' /\ g = h)
                                 /\ mined'[g] \in Seq(Tx)
    <3> SUFFICES ASSUME NEW g \in DOMAIN mined'
                 PROVE  g \in Nat /\ g <= h /\ mined'[g] \in Seq(Tx)
      BY <1>1, <1>2 DEF InBlock
    <3>1. CASE g \in DOMAIN mined
      BY <1>2, <1>3, <3>1 DEF Shape
    <3>2. CASE g = h
      <4>1. << >> \in Seq(Tx)
        OBVIOUS
      <4> QED BY <1>2, <1>3, <3>2, <4>1
    <3> QED BY <1>3, <3>1, <3>2
  <2>3. Counting' \subseteq DOMAIN mined'
    BY <1>2, <1>3 DEF Shape
  <2> QED BY <1>1, <1>2, <1>3, <1>4, <1>5, <2>1, <2>2, <2>3 DEF Shape
<1>8. Place'
  BY <1>1, <1>2 DEF Place
<1>9. MinedTx' = MinedTx /\ DoneTx' = DoneTx /\ DoneTx = MinedTx
  <2>1. ToSet(<< >>) = {}
    BY DEF ToSet
  <2> QED BY <1>2, <1>3, <2>1 DEF MinedTx, DoneTx
<1>10. \A g \in DOMAIN base : Before(g)' = Before(g)
  BY <1>2, <1>3, <1>4 DEF Before
<1>11. Before(h)' = MinedTx
  BY <1>2, <1>3 DEF Before, MinedTx
<1>12. IsMaps(maps) /\ Fits(maps, MinedTx, h)
  BY <1>0, <1>2, <1>9 DEF MapsFit
<1>13. BasesFit'
  <2> SUFFICES ASSUME NEW g \in DOMAIN base'
               PROVE  IsMaps(base'[g].maps) /\ Fits(base'[g].maps, Before(g)', g)
    BY DEF BasesFit
  <2>1. CASE g \in DOMAIN base
    BY <1>4, <1>10, <2>1 DEF BasesFit
  <2>2. CASE g = h
    <3>1. base'[h].maps = maps
      BY <1>4 DEF Snapshot
    <3> QED BY <1>11, <1>12, <2>2, <3>1
  <2> QED BY <1>4, <2>1, <2>2
<1>14. MapsFit'
  <2>1. Fits(maps, MinedTx, h + 1)
    BY <1>2, <1>12, FitsMore
  <2>2. DOMAIN updater'.change_record.removed = {}
    BY <1>6 DEF EmptyRecord
  <2>3. maps' = maps /\ NextHeight' = h /\ DoneTx' = MinedTx
    BY <1>1, <1>2, <1>9
  <2> QED BY <1>2, <1>12, <2>1, <2>2, <2>3 DEF MapsFit
<1>15. Counts'
  <2> SUFFICES ASSUME NEW g \in DOMAIN base', g - 1 \in Counting'
               PROVE  /\ base'[g].runes = runes'[g - 1]
                      /\ base'[g].reserved = reserved'[g - 1]
    BY DEF Counts
  <2>1. g \in Nat /\ g <= h
    BY <1>2, <1>4
  <2>2. g - 1 \in DOMAIN record
    BY <1>2, <2>1
  <2>3. CASE g \in DOMAIN base
    BY <1>2, <1>4, <1>5, <2>2, <2>3 DEF Counts
  <2>4. CASE g = h
    <3>1. Max(DOMAIN record) = h - 1
      BY <1>0, <2>2, WindowFacts DEF Shape
    <3>2. Latest(runes, 0) = runes[h - 1] /\ Latest(reserved, 0) = reserved[h - 1]
      BY <1>5, <2>2, <3>1 DEF Latest
    <3> QED BY <1>4, <1>5, <2>2, <2>4, <3>2 DEF Snapshot
  <2> QED BY <1>4, <2>3, <2>4
<1>16. Recorded'
  <2>1. base'[h].maps = maps
    BY <1>4 DEF Snapshot
  <2>2. IsRecord(EmptyRecord) /\ DOMAIN EmptyRecord.burned = {}
        /\ DOMAIN EmptyRecord.removed = {}
    BY DEF EmptyRecord, IsRecord
  <2>3. Recording(maps, EmptyRecord, maps)
    BY <1>12, <2>2, RestoresNothing DEF Recording
  <2>4. updater'.height = h /\ updater'.change_record = EmptyRecord /\ maps' = maps
    BY <1>1, <1>6
  <2> QED BY <2>1, <2>3, <2>4 DEF Recorded
<1>17. Revertible'
  <2> SUFFICES ASSUME NEW g \in DOMAIN record
               PROVE  Restores(After(g)', record[g], base'[g].maps)
    BY <1>1 DEF Revertible
  <2>1. g \in DOMAIN base /\ base'[g] = base[g]
    BY <1>2, <1>4 DEF Shape
  <2>2. After(g)' = After(g)
    <3>1. CASE g + 1 \in DOMAIN base
      BY <1>4, <3>1 DEF After
    <3>2. CASE g + 1 \notin DOMAIN base
      BY <1>1, <1>4, <3>2 DEF After, Snapshot
    <3> QED BY <3>1, <3>2
  <2> QED BY <2>1, <2>2 DEF Revertible
<1> QED BY <1>7, <1>8, <1>13, <1>14, <1>15, <1>16, <1>17

LEMMA InBlockFacts ==
  ASSUME Sound, InBlock
  PROVE  /\ NextHeight \in Nat /\ NextHeight \in FirstHeight..LastHeight
         /\ NextHeight \in DOMAIN mined /\ NextHeight \in DOMAIN base
         /\ updater.height = NextHeight
         /\ \A g \in DOMAIN mined :
              g \in Nat /\ g <= NextHeight /\ mined[g] \in Seq(Tx)
         /\ \A g \in DOMAIN record : g \in Nat /\ g < NextHeight /\ g + 1 \in DOMAIN base
         /\ Recording(maps, updater.change_record, base[NextHeight].maps)
<1>1. Window /\ NextHeight <= LastHeight /\ updater.height = NextHeight
  BY DEF Sound, Shape
<1>2. NextHeight \in Nat /\ NextHeight >= FirstHeight
      /\ \A g \in DOMAIN record : g \in Nat /\ g < NextHeight
  BY <1>1, WindowFacts
<1>3. /\ Counting = DOMAIN record \cup {NextHeight}
      /\ Counting \subseteq DOMAIN mined
      /\ DOMAIN base = DOMAIN mined
  BY DEF Sound, Shape, Counting
<1>4. \A g \in DOMAIN mined :
        g \in Nat /\ (g < NextHeight \/ g = NextHeight) /\ mined[g] \in Seq(Tx)
  BY DEF Sound, Shape
<1>5. \A g \in DOMAIN record : g + 1 \in DOMAIN base
  BY <1>1, <1>2, <1>3, WindowFacts
<1>6. Recording(maps, updater.change_record, base[NextHeight].maps)
  BY <1>1 DEF Sound, Recorded
<1> QED BY <1>1, <1>2, <1>3, <1>4, <1>5, <1>6, LedgerAssumption

LEMMA SameWindow ==
  ASSUME Window, record' = record, InBlock, InBlock'
  PROVE  NextHeight' = NextHeight /\ Window' /\ Counting' = Counting
<1>1. NextHeight' = NextHeight
  BY DEF NextHeight
<1>2. Window'
  BY DEF Window
<1> QED BY <1>1, <1>2 DEF Counting

LEMMA BeginSound ==
  ASSUME Sound, NEW t \in Tx, TxBegins(t)
  PROVE  Sound'
<1> USE DEF Sound
<1>0. PICK h : h = NextHeight
  OBVIOUS
<1> DEFINE spent == Content[t].inputs \cap DOMAIN maps.balances
           minted == {id \in Content[t].mint \cap DOMAIN maps.entry :
                        Mintable(id, maps.entry[id], updater.height)}
           cr == updater.change_record
<1>1. /\ pc = "tx" /\ pc' = "etching" /\ updater.height = h
      /\ Len(mined[h]) < BlockSize
      /\ t \notin MinedTx
      /\ mined' = [mined EXCEPT ![h] = Append(mined[h], t)]
      /\ frame'.tx = {t} /\ frame'.index = Len(mined[h])
      /\ UNCHANGED <<runes, reserved, record, base, orderly>>
  BY <1>0 DEF TxBegins, Confirmable, Shape, InBlock
<1>2. /\ maps' = MapsBegun(maps, spent, minted)
      /\ updater' = [updater EXCEPT !.change_record = RecordBegun(cr, maps, spent, minted)]
  BY DEF TxBegins, MapsBegun, RecordBegun
<1>3. /\ updater' = [height |-> h, burned |-> updater.burned, runes |-> updater.runes,
                     change_record |-> RecordBegun(cr, maps, spent, minted)]
  BY <1>1, <1>2 DEF Shape, InBlock
<1>4. spent \subseteq DOMAIN maps.balances /\ minted \subseteq DOMAIN maps.entry
  OBVIOUS
<1> HIDE DEF spent, minted, cr
<1>5. /\ InBlock /\ InBlock' /\ NextHeight' = h /\ h \in Nat /\ Window'
      /\ Counting' = Counting /\ frame.tx = {} /\ h \in DOMAIN mined
      /\ h \in DOMAIN base /\ h <= LastHeight
      /\ \A g \in DOMAIN mined : g \in Nat /\ g <= h /\ mined[g] \in Seq(Tx)
  <2>1. InBlock /\ InBlock' /\ Window /\ record' = record /\ frame.tx = {}
    BY <1>1 DEF InBlock, Shape, Place
  <2>2. NextHeight' = NextHeight /\ Window' /\ Counting' = Counting
    BY <2>1, SameWindow
  <2> HIDE DEF Sound
  <2> QED BY <1>0, <2>1, <2>2, InBlockFacts
<1>6. /\ DOMAIN mined' = DOMAIN mined
      /\ mined'[h] = Append(mined[h], t)
      /\ \A g \in DOMAIN mined : g # h => mined'[g] = mined[g]
  BY <1>1, <1>5
<1>7. /\ ToSet(mined'[h]) = ToSet(mined[h]) \cup {t}
      /\ mined'[h] \in Seq(Tx)
      /\ Len(mined[h]) \in Nat
  BY <1>5, <1>6, AppendFacts
<1>8. Recording(maps, cr, base[h].maps)
  BY <1>1, <1>5 DEF Recorded, cr
<1>9. Recording(maps', updater'.change_record, base[h].maps)
  <2>1. updater'.change_record = RecordBegun(cr, maps, spent, minted)
    BY <1>3
  <2> QED BY <1>2, <1>4, <1>8, <2>1, BeginKeepsRecording
<1>10. Shape'
  <2>1. \A g \in DOMAIN mined' : /\ g \in Nat
                                 /\ g < NextHeight' \/ (InBlock' /\ g = NextHeight')
                                 /\ mined'[g] \in Seq(Tx)
    BY <1>5, <1>6, <1>7
  <2>2. updater' = [height |-> updater'.height, burned |-> updater'.burned,
                    runes |-> updater'.runes, change_record |-> updater'.change_record]
    BY <1>3
  <2>3. updater'.height = h
    BY <1>3
  <2> QED BY <1>1, <1>5, <1>6, <2>1, <2>2, <2>3 DEF Shape
<1>11. MinedTx' = MinedTx \cup {t} /\ DoneTx' = MinedTx /\ DoneTx = MinedTx
  <2>1. MinedTx' = MinedTx \cup {t}
    BY <1>5, <1>6, <1>7 DEF MinedTx
  <2> QED BY <1>1, <1>5, <2>1 DEF DoneTx
<1>12. Place'
  <2>1. Len(mined[h]) \in 0..(BlockSize - 1)
    BY <1>1, <1>7, LedgerAssumption
  <2> QED BY <1>1, <1>11, <2>1 DEF Place
<1>13. \A g \in DOMAIN base : Before(g)' = Before(g)
  <2> SUFFICES ASSUME NEW g \in DOMAIN base PROVE Before(g)' = Before(g)
    OBVIOUS
  <2>1. g \in Nat /\ g <= h
    BY <1>5 DEF Shape
  <2>2. \A f \in DOMAIN mined : f < g => mined'[f] = mined[f]
    BY <1>5, <1>6, <2>1
  <2> QED BY <1>6, <2>2 DEF Before
<1>14. BasesFit'
  BY <1>1, <1>13 DEF BasesFit
<1>15. /\ DOMAIN maps'.balances = DOMAIN maps.balances \ spent
       /\ DOMAIN maps'.entry = DOMAIN maps.entry
       /\ DOMAIN maps'.id_of = DOMAIN maps.id_of
       /\ DOMAIN maps'.rune_of = DOMAIN maps.rune_of
       /\ DOMAIN updater'.change_record.removed = DOMAIN cr.removed \cup spent
  <2>1. IsMaps(maps) /\ IsRecord(cr)
    BY <1>8 DEF Recording
  <2>2. /\ maps'.balances = Without(maps.balances, spent)
        /\ maps'.entry = PutAll(maps.entry, [id \in minted |-> OnceMoreMinted(maps.entry[id])])
        /\ maps'.id_of = maps.id_of
        /\ maps'.rune_of = maps.rune_of
    BY <1>2, <2>1 DEF MapsBegun, IsMaps
  <2>3. updater'.change_record.removed = PutAll(cr.removed, [o \in spent |->
                   [balances |-> maps.balances[o], height |-> maps.born[o]]])
    BY <1>3, <2>1 DEF RecordBegun, IsRecord
  <2>4. DOMAIN maps'.entry = DOMAIN maps.entry
    BY <1>4, <2>2 DEF PutAll
  <2> QED BY <2>2, <2>3, <2>4 DEF Without, PutAll
<1>16. MapsFit'
  <2>1. Fits(maps, MinedTx, h + 1)
    BY <1>0, <1>5, <1>11 DEF MapsFit
  <2>2. Fits(maps', MinedTx, h + 1)
    BY <1>15, <2>1 DEF Fits
  <2>3. \A o \in DOMAIN updater'.change_record.removed : o[1] \in MinedTx
    BY <1>4, <1>5, <1>11, <1>15, <2>1 DEF MapsFit, Fits, cr
  <2>4. IsMaps(maps')
    BY <1>9 DEF Recording
  <2> QED BY <1>5, <1>11, <2>2, <2>3, <2>4 DEF MapsFit
<1>17. Counts'
  BY <1>1, <1>5 DEF Counts
<1>18. Recorded'
  <2>1. updater'.height = h /\ base' = base
    BY <1>1, <1>3
  <2> QED BY <1>9, <2>1 DEF Recorded
<1>19. Revertible'
  <2> SUFFICES ASSUME NEW g \in DOMAIN record
               PROVE  Restores(After(g)', record[g], base[g].maps)
    BY <1>1 DEF Revertible
  <2>1. g + 1 \in DOMAIN base
    BY <1>0, <1>5, WindowFacts DEF Shape, Counting
  <2>2. After(g)' = After(g)
    BY <1>1, <2>1 DEF After
  <2> QED BY <2>2 DEF Revertible
<1> QED BY <1>10, <1>12, <1>14, <1>16, <1>17, <1>18, <1>19

LEMMA NewEntryFacts ==
  ASSUME NEW t, NEW name
  PROVE  IsEntry(NewEntry(t, name))
BY DEF NewEntry, IsEntry

LEMMA DistributeSound ==
  ASSUME Sound, NEW t \in Tx, pc = "etching", frame.tx = {t},
         NEW names, Distribute(t, names),
         \A n \in names : /\ n \notin DOMAIN base[NextHeight].maps.id_of
                          /\ n \in Rune \/ n[1] \in 0..NextHeight,
         DOMAIN reserved' = DOMAIN reserved,
         \A g \in DOMAIN reserved : g # NextHeight => reserved'[g] = reserved[g]
  PROVE  Sound'
<1>0. PICK h : h = NextHeight
  OBVIOUS
<1> DEFINE id == <<h, frame.index>>
           cr == updater.change_record
           d == Distribution(Content[t], IF names = {} THEN DefaultId ELSE id,
                             Holding(t, id, names))
           outs == {<<t, o>> : o \in DOMAIN d.kept}
           kept == [o \in outs |-> d.kept[o[2]]]
           heights == [o \in outs |-> h]
           entries == [i \in {id : n \in names} |-> NewEntry(t, CHOOSE n \in names : TRUE)]
           ids == [n \in names |-> id]
           called == [u \in {t : n \in names} |-> CHOOSE n \in names : TRUE]
           etched == {<<n, id, t>> : n \in names}
           b == base[h].maps
<1>1. /\ InBlock /\ Window /\ updater.height = h
      /\ h \in Nat /\ h \in FirstHeight..LastHeight
      /\ h \in DOMAIN mined /\ h \in DOMAIN base
      /\ \A g \in DOMAIN mined : g \in Nat /\ g <= h /\ mined[g] \in Seq(Tx)
      /\ \A g \in DOMAIN record : g \in Nat /\ g < h /\ g + 1 \in DOMAIN base
      /\ Recording(maps, cr, b)
  <2>1. InBlock /\ Window
    BY DEF InBlock, Sound, Shape
  <2> QED BY <1>0, <2>1, InBlockFacts
<1>2. /\ maps' = MapsGrown(maps, kept, heights, entries, ids, called)
      /\ runes' = PutAll(runes, [g \in {h : n \in names} |-> updater.runes + 1])
      /\ updater' = [updater EXCEPT
           !.burned = Added(updater.burned, d.burned),
           !.runes = updater.runes + Cardinality(names),
           !.change_record = RecordGrown(cr, outs, etched)]
      /\ frame' = NoFrame
      /\ pc' = "tx"
      /\ UNCHANGED <<record, mined, base, orderly>>
  BY <1>1 DEF Distribute, MapsGrown, RecordGrown
<1>3. updater' = [height |-> h, burned |-> Added(updater.burned, d.burned),
                  runes |-> updater.runes + Cardinality(names),
                  change_record |-> RecordGrown(cr, outs, etched)]
  BY <1>1, <1>2 DEF Sound, Shape
<1>4. /\ DOMAIN kept = outs /\ DOMAIN heights = outs
      /\ DOMAIN ids = names
      /\ DOMAIN entries \subseteq {id}
      /\ DOMAIN called \subseteq {t}
      /\ DOMAIN ids = {r[1] : r \in etched}
      /\ DOMAIN entries = {r[2] : r \in etched}
      /\ DOMAIN called = {r[3] : r \in etched}
      /\ \A i \in DOMAIN entries : IsEntry(entries[i])
      /\ \A o \in outs : o[1] = t
  <2>1. IsEntry(NewEntry(t, CHOOSE n \in names : TRUE))
    BY NewEntryFacts
  <2>2. \A i \in DOMAIN entries : IsEntry(entries[i])
    BY <2>1
  <2>3. \A o \in outs : o[1] = t
    OBVIOUS
  <2>4. /\ DOMAIN kept = outs /\ DOMAIN heights = outs
        /\ DOMAIN ids = names
        /\ DOMAIN entries \subseteq {id}
        /\ DOMAIN called \subseteq {t}
    OBVIOUS
  <2>5. /\ DOMAIN ids = {r[1] : r \in etched}
        /\ DOMAIN entries = {r[2] : r \in etched}
        /\ DOMAIN called = {r[3] : r \in etched}
    <3>1. \A r \in etched : r[1] \in names /\ r[2] = id /\ r[3] = t
      OBVIOUS
    <3>2. \A n \in names : <<n, id, t>> \in etched
      OBVIOUS
    <3>3. \A n \in names : \E r \in etched : r[1] = n /\ r[2] = id /\ r[3] = t
      BY <3>2
    <3> HIDE DEF etched, id
    <3> QED BY <3>1, <3>3
  <2> HIDE DEF d, outs, kept, heights, entries, ids, called, etched, id
  <2> QED BY <2>2, <2>3, <2>4, <2>5
<1>5. id[1] = h
  OBVIOUS
<1> HIDE DEF d, outs, kept, heights, entries, ids, called, etched, id, b, cr
<1>6. InBlock' /\ NextHeight' = h /\ Window' /\ Counting' = Counting /\ frame'.tx = {}
  <2>1. InBlock' /\ record' = record /\ frame'.tx = {}
    BY <1>2 DEF InBlock, NoFrame
  <2> QED BY <1>0, <1>1, <2>1, SameWindow
<1>7. MinedTx' = MinedTx /\ DoneTx' = MinedTx /\ DoneTx = MinedTx \ {t}
  BY <1>2, <1>6 DEF MinedTx, DoneTx
<1>9. /\ Fits(maps, DoneTx, h + 1)
      /\ \A o \in DOMAIN cr.removed : o[1] \in DoneTx
      /\ Fits(b, Before(h), h)
  BY <1>0, <1>1 DEF Sound, MapsFit, BasesFit, cr, b
<1>10. /\ outs \cap (DOMAIN b.balances \cup DOMAIN cr.removed) = {}
       /\ DOMAIN called \cap DOMAIN b.rune_of = {}
  <2>1. DOMAIN b.balances \subseteq DOMAIN maps.balances \cup DOMAIN cr.removed
    BY <1>1 DEF Recording, Restores
  <2>2. DOMAIN b.rune_of \subseteq DOMAIN maps.rune_of
    BY <1>1 DEF Recording, Restores
  <2>3. \A o \in DOMAIN b.balances \cup DOMAIN cr.removed : o[1] # t
    BY <1>7, <1>9, <2>1 DEF Fits
  <2>4. t \notin DOMAIN b.rune_of
    BY <1>7, <1>9, <2>2 DEF Fits
  <2>5. outs \cap (DOMAIN b.balances \cup DOMAIN cr.removed) = {}
    BY <1>4, <2>3
  <2>6. DOMAIN called \cap DOMAIN b.rune_of = {}
    BY <1>4, <2>4
  <2> QED BY <2>5, <2>6
<1>11. DOMAIN entries \cap DOMAIN b.entry = {}
  <2>1. id \notin DOMAIN b.entry
    BY <1>1, <1>5, <1>9 DEF Fits
  <2> QED BY <1>4, <2>1
<1>12. DOMAIN ids \cap DOMAIN b.id_of = {}
  BY <1>0, <1>4 DEF b
<1>13. Recording(maps', updater'.change_record, b)
  <2>1. updater'.change_record = RecordGrown(cr, DOMAIN kept, etched)
    BY <1>3, <1>4
  <2>2. DOMAIN kept \cap (DOMAIN b.balances \cup DOMAIN cr.removed) = {}
    BY <1>4, <1>10
  <2>3. Together(kept, heights, entries, ids, called, etched)
    BY <1>4 DEF Together
  <2>4. Fresh(kept, entries, ids, called, cr, b)
    BY <1>10, <1>11, <1>12, <2>2 DEF Fresh
  <2> QED BY <1>1, <1>2, <2>1, <2>3, <2>4, DistributeKeepsRecording
<1>14. Shape'
  <2>1. /\ DOMAIN runes = Counting /\ DOMAIN reserved = Counting
        /\ DOMAIN base = DOMAIN mined /\ Counting \subseteq DOMAIN mined
        /\ h \in Counting
    BY <1>0, <1>1 DEF Sound, Shape, Counting
  <2>2. DOMAIN runes' = Counting
    BY <1>2, <2>1 DEF PutAll
  <2>3. updater' = [height |-> updater'.height, burned |-> updater'.burned,
                    runes |-> updater'.runes, change_record |-> updater'.change_record]
        /\ updater'.height = h
    BY <1>3
  <2>4. \A g \in DOMAIN mined' : /\ g \in Nat
                                 /\ g < NextHeight' \/ (InBlock' /\ g = NextHeight')
                                 /\ mined'[g] \in Seq(Tx)
    BY <1>1, <1>2, <1>6
  <2> QED BY <1>1, <1>2, <1>6, <2>1, <2>2, <2>3, <2>4 DEF Shape
<1>15. Place'
  BY <1>2, <1>6 DEF Place
<1>16. BasesFit'
  BY <1>2 DEF Sound, BasesFit, Before
<1>17. MapsFit'
  <2>1. /\ DOMAIN maps'.balances = DOMAIN maps.balances \cup outs
        /\ DOMAIN maps'.entry = DOMAIN maps.entry \cup DOMAIN entries
        /\ DOMAIN maps'.id_of = DOMAIN maps.id_of \cup DOMAIN ids
        /\ DOMAIN maps'.rune_of = DOMAIN maps.rune_of \cup DOMAIN called
    <3>1. /\ maps'.balances = PutAll(maps.balances, kept)
          /\ maps'.entry = PutAll(maps.entry, entries)
          /\ maps'.id_of = PutAll(maps.id_of, ids)
          /\ maps'.rune_of = PutAll(maps.rune_of, called)
      BY <1>2 DEF MapsGrown
    <3> QED BY <1>4, <3>1 DEF PutAll
  <2>2. Fits(maps', MinedTx, h + 1)
    <3>1. t \in MinedTx
      BY DEF Sound, Place
    <3>2. \A o \in DOMAIN maps'.balances : o[1] \in MinedTx
      BY <1>4, <1>7, <1>9, <2>1, <3>1 DEF Fits
    <3>3. \A u \in DOMAIN maps'.rune_of : u \in MinedTx
      BY <1>4, <1>7, <1>9, <2>1, <3>1 DEF Fits
    <3>4. \A i \in DOMAIN maps'.entry : i[1] \in 0..(h + 1 - 1)
      <4>1. \A i \in DOMAIN maps.entry : i[1] \in 0..(h + 1 - 1)
        BY <1>1, <1>9 DEF Fits
      <4>2. \A i \in DOMAIN entries : i[1] = h
        BY <1>4, <1>5
      <4>3. h \in 0..(h + 1 - 1)
        BY <1>1
      <4> QED BY <2>1, <4>1, <4>2, <4>3
    <3>5. \A n \in DOMAIN maps'.id_of : n \in Rune \/ n[1] \in 0..(h + 1 - 1)
      <4>1. \A n \in DOMAIN maps.id_of : n \in Rune \/ n[1] \in 0..(h + 1 - 1)
        BY <1>1, <1>9 DEF Fits
      <4>2. \A n \in DOMAIN ids : n \in Rune \/ n[1] \in 0..h
        BY <1>0, <1>4
      <4>3. 0..h = 0..(h + 1 - 1)
        BY <1>1
      <4> QED BY <2>1, <4>1, <4>2, <4>3
    <3> QED BY <1>1, <3>2, <3>3, <3>4, <3>5 DEF Fits
  <2>3. \A o \in DOMAIN updater'.change_record.removed : o[1] \in MinedTx
    <3>1. updater'.change_record.removed = cr.removed
      BY <1>1, <1>3 DEF RecordGrown, Recording, IsRecord
    <3> QED BY <1>7, <1>9, <3>1
  <2>4. IsMaps(maps')
    BY <1>13 DEF Recording
  <2> QED BY <1>6, <1>7, <2>2, <2>3, <2>4 DEF MapsFit
<1>18. Counts'
  <2> SUFFICES ASSUME NEW g \in DOMAIN base, g - 1 \in Counting
               PROVE  /\ base[g].runes = runes'[g - 1]
                      /\ base[g].reserved = reserved'[g - 1]
    BY <1>2, <1>6 DEF Counts
  <2>1. g \in Nat /\ g <= h /\ g - 1 # h
    BY <1>1 DEF Sound, Shape
  <2>2. runes'[g - 1] = runes[g - 1]
    BY <1>2, <2>1 DEF PutAll, Sound, Shape
  <2>3. reserved'[g - 1] = reserved[g - 1]
    BY <1>0, <2>1 DEF Sound, Shape
  <2> QED BY <2>2, <2>3 DEF Sound, Counts
<1>19. Recorded'
  <2>1. updater'.height = h
    BY <1>3
  <2>2. base'[h].maps = b
    BY <1>2 DEF b
  <2> QED BY <1>13, <2>1, <2>2 DEF Recorded
<1>20. Revertible'
  <2> SUFFICES ASSUME NEW g \in DOMAIN record
               PROVE  Restores(After(g)', record[g], base[g].maps)
    BY <1>2 DEF Revertible
  <2>1. After(g)' = After(g)
    BY <1>1, <1>2 DEF After
  <2> QED BY <2>1 DEF Sound, Revertible
<1> QED BY <1>14, <1>15, <1>16, <1>17, <1>18, <1>19, <1>20 DEF Sound

LEMMA EtchSound ==
  ASSUME Sound, NEW t \in Tx, TxEnds(t)
  PROVE  Sound'
<1>0. PICK h : h = NextHeight
  OBVIOUS
<1> DEFINE b == base[h].maps
           name == <<h, frame.index>>
<1>1. pc = "etching" /\ frame.tx = {t} /\ InBlock
  BY DEF TxEnds, InBlock
<1>2. /\ h \in Nat /\ h \in FirstHeight..LastHeight /\ h \in DOMAIN base
      /\ updater.height = h
      /\ Recording(maps, updater.change_record, b)
  BY <1>0, <1>1, InBlockFacts
<1>3. h \in DOMAIN reserved
  BY <1>0, <1>1 DEF Sound, Shape, Counting
<1>4. CASE Distribute(t, {}) /\ UNCHANGED reserved
  BY <1>1, <1>4, DistributeSound
<1>5. CASE /\ Distribute(t, {<<updater.height, frame.index>>})
           /\ reserved' = Put(reserved, updater.height, Latest(reserved, 0) + 1)
  <2>1. frame.index \in 0..(BlockSize - 1)
    BY <1>1 DEF Sound, Place
  <2>2. name \in Id /\ name \notin Rune /\ name[1] = h
    BY <1>2, <2>1, NameAssumption DEF Id
  <2>3. Fits(b, Before(h), h)
    BY <1>2 DEF Sound, BasesFit
  <2> HIDE DEF name, b
  <2>4. name \notin DOMAIN b.id_of
    BY <1>2, <2>2, <2>3 DEF Fits
  <2>5. name[1] \in 0..h
    BY <1>2, <2>2
  <2>6. DOMAIN reserved' = DOMAIN reserved
        /\ \A g \in DOMAIN reserved : g # h => reserved'[g] = reserved[g]
    BY <1>2, <1>3, <1>5 DEF Put
  <2>7. Distribute(t, {name})
    BY <1>2, <1>5 DEF name
  <2>8. \A n \in {name} : /\ n \notin DOMAIN base[h].maps.id_of
                          /\ n \in Rune \/ n[1] \in 0..h
    BY <2>4, <2>5 DEF b
  <2> QED BY <1>0, <1>1, <2>6, <2>7, <2>8, DistributeSound
<1>6. CASE /\ \A r \in Content[t].rune : Etchable(r)
           /\ Distribute(t, Content[t].rune)
           /\ UNCHANGED reserved
  <2>1. DOMAIN b.id_of \subseteq DOMAIN maps.id_of
    BY <1>2 DEF Recording, Restores
  <2>2. \A n \in Content[t].rune : n \notin DOMAIN base[h].maps.id_of /\ n \in Rune
    BY <1>6, <2>1 DEF Etchable
  <2> QED BY <1>0, <1>1, <1>6, <2>2, DistributeSound
<1> QED BY <1>4, <1>5, <1>6 DEF TxEnds


LEMMA RetainedFacts ==
  ASSUME NEW f, NEW h
  PROVE  /\ DOMAIN Retained(f, h) = {g \in DOMAIN f : ~(g <= h - MaxReorgDepth)}
         /\ \A g \in DOMAIN Retained(f, h) : Retained(f, h)[g] = f[g]
BY DEF Retained, Without

(* What a block leaves is a window that ends with it.                      *)
LEMMA RetainedWindow ==
  ASSUME Window, NEW h, h = NextHeight, h \in FirstHeight..LastHeight,
         NEW W, W = {g \in DOMAIN record \cup {h} : ~(g <= h - MaxReorgDepth)}
  PROVE  \E lo \in FirstHeight..LastHeight : lo <= h /\ W = lo..h
<1>1. h \in Nat /\ FirstHeight \in Nat /\ LastHeight \in Nat
      /\ MaxReorgDepth \in Nat /\ MaxReorgDepth >= 1
  BY LedgerAssumption
<1>2. CASE DOMAIN record = {}
  <2>1. W = h..h
    BY <1>1, <1>2
  <2> QED BY <1>1, <2>1
<1>3. CASE DOMAIN record # {}
  <2>1. PICK lo \in FirstHeight..LastHeight : lo <= h - 1 /\ DOMAIN record = lo..(h - 1)
    BY <1>3, WindowFacts
  <2> DEFINE least == IF lo <= h - MaxReorgDepth THEN h - MaxReorgDepth + 1 ELSE lo
  <2>2. W = least..h
    BY <1>1, <2>1
  <2>3. least \in FirstHeight..LastHeight /\ least <= h
    BY <1>1, <2>1
  <2> HIDE DEF least
  <2> QED BY <2>2, <2>3
<1> QED BY <1>2, <1>3

LEMMA FinishSound ==
  ASSUME Sound, FinishBlock
  PROVE  Sound'
<1>0. PICK h : h = NextHeight
  OBVIOUS
<1> DEFINE cr == updater.change_record
           ids == DOMAIN updater.burned
           done == RecordBurned(cr, maps, ids)
           b == base[h].maps
<1>1. /\ InBlock /\ pc = "tx" /\ Window /\ updater.height = h
      /\ h \in Nat /\ h \in FirstHeight..LastHeight
      /\ h \in DOMAIN mined /\ h \in DOMAIN base
      /\ \A g \in DOMAIN mined : g \in Nat /\ g <= h /\ mined[g] \in Seq(Tx)
      /\ \A g \in DOMAIN record : g \in Nat /\ g < h /\ g + 1 \in DOMAIN base
      /\ Recording(maps, cr, b)
  <2>1. InBlock /\ pc = "tx" /\ Window
    BY DEF InBlock, Sound, Shape, FinishBlock
  <2> QED BY <1>0, <2>1, InBlockFacts
<1>2. /\ ids \subseteq DOMAIN maps.entry
      /\ maps' = MapsBurned(maps, updater.burned)
      /\ record' = Retained(Put(record, h, done), h)
      /\ runes' = Retained(runes, h)
      /\ reserved' = Retained(reserved, h)
      /\ pc' = "idle"
      /\ UNCHANGED <<frame, mined, base, orderly>>
  BY <1>1 DEF FinishBlock, MapsBurned, RecordBurned
<1> HIDE DEF cr, done, b
<1>3. IsMaps(maps') /\ Restores(maps', done, b)
  BY <1>1, <1>2, FinishRestores DEF done
<1>4. /\ DOMAIN maps'.balances = DOMAIN maps.balances
      /\ DOMAIN maps'.entry = DOMAIN maps.entry
      /\ DOMAIN maps'.id_of = DOMAIN maps.id_of
      /\ DOMAIN maps'.rune_of = DOMAIN maps.rune_of
  <2>1. IsMaps(maps)
    BY <1>1 DEF Recording
  <2> DEFINE more == [id \in ids |-> OnceBurned(maps.entry[id], updater.burned[id])]
  <2>2. /\ maps'.balances = maps.balances
        /\ maps'.entry = PutAll(maps.entry, more)
        /\ maps'.id_of = maps.id_of
        /\ maps'.rune_of = maps.rune_of
    BY <1>2, <2>1 DEF MapsBurned, IsMaps
  <2>3. DOMAIN maps'.entry = DOMAIN maps.entry
    BY <1>2, <2>2 DEF PutAll
  <2> QED BY <2>2, <2>3
<1>5. /\ DOMAIN runes = Counting /\ DOMAIN reserved = Counting
      /\ Counting = DOMAIN record \cup {h}
      /\ Counting \subseteq DOMAIN mined /\ DOMAIN base = DOMAIN mined
      /\ frame.tx = {}
  BY <1>0, <1>1 DEF Sound, Shape, Counting, Place
<1>6. DOMAIN record' = {g \in Counting : ~(g <= h - MaxReorgDepth)}
  <2> DEFINE all == Put(record, h, done)
  <2>1. DOMAIN all = Counting
    BY <1>5 DEF Put
  <2> HIDE DEF all
  <2>2. DOMAIN Retained(all, h) = {g \in DOMAIN all : ~(g <= h - MaxReorgDepth)}
    BY RetainedFacts
  <2>3. record' = Retained(all, h)
    BY <1>2 DEF all
  <2> QED BY <2>1, <2>2, <2>3
<1>7. PICK lo \in FirstHeight..LastHeight : lo <= h /\ DOMAIN record' = lo..h
  BY <1>0, <1>1, <1>5, <1>6, RetainedWindow
<1>8. Window' /\ NextHeight' = h + 1 /\ ~InBlock' /\ Counting' = DOMAIN record'
  <2>1. Window'
    BY <1>1, <1>7 DEF Window
  <2>2. Max(lo..h) = h /\ lo..h # {}
    BY <1>1, <1>7, IntervalFacts, LedgerAssumption
  <2>3. NextHeight' = h + 1
    BY <1>7, <2>2 DEF NextHeight
  <2> QED BY <1>2, <2>1, <2>3 DEF InBlock, Counting
<1>9. /\ \A g \in DOMAIN record' : g = h => record'[g] = done
      /\ \A g \in DOMAIN record' : g # h => g \in DOMAIN record /\ record'[g] = record[g]
  <2>1. \A g \in DOMAIN record' : record'[g] = Put(record, h, done)[g]
    BY <1>2, RetainedFacts
  <2>2. \A g \in DOMAIN record' : g \in DOMAIN record \cup {h}
    BY <1>5, <1>6
  <2> QED BY <2>1, <2>2 DEF Put
<1>10. /\ DOMAIN runes' = DOMAIN record' /\ DOMAIN reserved' = DOMAIN record'
       /\ \A g \in DOMAIN record' : runes'[g] = runes[g] /\ reserved'[g] = reserved[g]
  <2>1. ASSUME NEW f, DOMAIN f = Counting, NEW k, k = Retained(f, h)
        PROVE  /\ DOMAIN k = DOMAIN record'
               /\ \A g \in DOMAIN record' : k[g] = f[g]
    <3>1. /\ DOMAIN k = {g \in DOMAIN f : ~(g <= h - MaxReorgDepth)}
          /\ \A g \in DOMAIN k : k[g] = f[g]
      BY <2>1, RetainedFacts
    <3> QED BY <1>6, <2>1, <3>1
  <2> QED BY <1>2, <1>5, <2>1
<1>11. Shape'
  <2>1. \A g \in DOMAIN mined' : /\ g \in Nat
                                 /\ g < NextHeight' \/ (InBlock' /\ g = NextHeight')
                                 /\ mined'[g] \in Seq(Tx)
    BY <1>1, <1>2, <1>8
  <2>2. Counting' \subseteq DOMAIN mined'
    BY <1>2, <1>5, <1>6, <1>8
  <2> QED BY <1>2, <1>5, <1>8, <1>10, <2>1, <2>2 DEF Shape
<1>12. Place'
  BY <1>2, <1>5 DEF Place
<1>13. BasesFit'
  BY <1>2 DEF Sound, BasesFit, Before
<1>14. MapsFit'
  <2>1. Fits(maps, DoneTx, h + 1)
    BY <1>0, <1>1 DEF Sound, MapsFit
  <2>2. DoneTx' = DoneTx
    BY <1>2 DEF DoneTx, MinedTx
  <2>3. Fits(maps', DoneTx, h + 1)
    BY <1>4, <2>1 DEF Fits
  <2> QED BY <1>3, <1>8, <2>2, <2>3 DEF MapsFit
<1>15. Counts'
  <2> SUFFICES ASSUME NEW g \in DOMAIN base, g - 1 \in DOMAIN record'
               PROVE  /\ base[g].runes = runes'[g - 1]
                      /\ base[g].reserved = reserved'[g - 1]
    BY <1>2, <1>8 DEF Counts
  <2>1. g - 1 \in Counting
    BY <1>6
  <2> QED BY <1>10, <2>1 DEF Sound, Counts
<1>16. Recorded'
  BY <1>8 DEF Recorded
<1>17. Revertible'
  <2> SUFFICES ASSUME NEW g \in DOMAIN record'
               PROVE  Restores(After(g)', record'[g], base[g].maps)
    BY <1>2 DEF Revertible
  <2>1. CASE g = h
    <3>1. h + 1 \notin DOMAIN base
      BY <1>1, <1>5
    <3>2. After(g)' = maps'
      BY <1>2, <2>1, <3>1 DEF After
    <3> QED BY <1>3, <1>9, <2>1, <3>2 DEF b
  <2>2. CASE g # h
    <3>1. g \in DOMAIN record /\ record'[g] = record[g] /\ g + 1 \in DOMAIN base
      BY <1>1, <1>9, <2>2
    <3>2. After(g)' = After(g)
      BY <1>2, <3>1 DEF After
    <3> QED BY <3>1, <3>2 DEF Sound, Revertible
  <2> QED BY <2>1, <2>2
<1> QED BY <1>11, <1>12, <1>13, <1>14, <1>15, <1>16, <1>17 DEF Sound


-----------------------------------------------------------------------------
(* What a roll back leaves: the maps of the block's start, and a window    *)
(* that ends one height earlier.                                           *)
LEMMA RollBackFacts ==
  ASSUME Sound, RollBack, NEW h, h = Max(DOMAIN record)
  PROVE  /\ h \in Nat /\ h \in DOMAIN base /\ NextHeight = h + 1
         /\ maps' = base[h].maps
         /\ IsMaps(base[h].maps) /\ Fits(base[h].maps, Before(h), h)
         /\ \E lo \in FirstHeight..LastHeight :
              /\ h \in FirstHeight..LastHeight /\ lo <= h - 1
              /\ DOMAIN record = lo..h
              /\ DOMAIN record' = lo..(h - 1)
         /\ record' = Without(record, {h})
         /\ runes' = Without(runes, {h})
         /\ reserved' = Without(reserved, {h})
         /\ mined' = Without(mined, {h})
         /\ base' = Without(base, {h})
         /\ pc = "idle" /\ UNCHANGED <<updater, frame, pc, orderly>>
<1>1. /\ h \in DOMAIN record /\ h # Min(DOMAIN record)
      /\ maps' = Undone(maps, record[h])
      /\ record' = Without(record, {h})
      /\ runes' = Without(runes, {h})
      /\ reserved' = Without(reserved, {h})
      /\ mined' = Without(mined, {h})
      /\ base' = Without(base, {h})
      /\ pc = "idle" /\ UNCHANGED <<updater, frame, pc, orderly>>
  BY DEF RollBack, Revocable
<1>2. /\ ~InBlock /\ Counting = DOMAIN record /\ Window
      /\ DOMAIN base = DOMAIN mined /\ DOMAIN record \subseteq DOMAIN base
      /\ \A g \in DOMAIN base : g \in Nat /\ g < NextHeight
  BY <1>1 DEF Sound, Shape, InBlock, Counting
<1>3. PICK lo \in FirstHeight..LastHeight :
        /\ lo <= NextHeight - 1
        /\ NextHeight - 1 <= LastHeight
        /\ DOMAIN record = lo..(NextHeight - 1)
        /\ Max(DOMAIN record) = NextHeight - 1
        /\ Min(DOMAIN record) = lo
  BY <1>1, <1>2, WindowFacts
<1>4. NextHeight \in Nat
  BY <1>2, WindowFacts
<1>5. h = NextHeight - 1 /\ h \in Nat /\ NextHeight = h + 1
  BY <1>1, <1>2, <1>3, <1>4
<1>6. lo <= h - 1 /\ DOMAIN record = lo..h /\ h \in FirstHeight..LastHeight
  BY <1>1, <1>3, <1>5, LedgerAssumption
<1>7. DOMAIN record' = lo..(h - 1)
  <2>1. DOMAIN record' = DOMAIN record \ {h}
    BY <1>1 DEF Without
  <2> QED BY <1>5, <1>6, <2>1, LedgerAssumption
<1>8. h \in DOMAIN base /\ h + 1 \notin DOMAIN base
  BY <1>1, <1>2, <1>5
<1>9. IsMaps(maps) /\ IsMaps(base[h].maps) /\ Fits(base[h].maps, Before(h), h)
  BY <1>8 DEF Sound, MapsFit, BasesFit
<1>10. Restores(maps, record[h], base[h].maps)
  BY <1>1, <1>8 DEF Sound, Revertible, After
<1>11. maps' = base[h].maps
  BY <1>1, <1>9, <1>10, RestoresIsUndone
<1> QED BY <1>1, <1>5, <1>6, <1>7, <1>8, <1>9, <1>11

LEMMA RollBackSound ==
  ASSUME Sound, RollBack
  PROVE  Sound'
<1>0. PICK h : h = Max(DOMAIN record)
  OBVIOUS
<1>1. /\ h \in Nat /\ h \in DOMAIN base /\ NextHeight = h + 1
      /\ maps' = base[h].maps
      /\ IsMaps(base[h].maps) /\ Fits(base[h].maps, Before(h), h)
      /\ record' = Without(record, {h})
      /\ runes' = Without(runes, {h})
      /\ reserved' = Without(reserved, {h})
      /\ mined' = Without(mined, {h})
      /\ base' = Without(base, {h})
      /\ pc = "idle" /\ UNCHANGED <<updater, frame, pc, orderly>>
  BY <1>0, RollBackFacts
<1>2. PICK lo \in FirstHeight..LastHeight :
        /\ h \in FirstHeight..LastHeight /\ lo <= h - 1
        /\ DOMAIN record = lo..h
        /\ DOMAIN record' = lo..(h - 1)
  BY <1>0, RollBackFacts
<1>3. lo \in Int /\ FirstHeight \in Nat /\ LastHeight \in Nat
  BY LedgerAssumption
<1>4. Max(lo..(h - 1)) = h - 1
  BY <1>1, <1>2, <1>3, IntervalFacts
<1>5. /\ ~InBlock /\ ~InBlock'
      /\ Counting = DOMAIN record /\ Counting' = DOMAIN record'
      /\ NextHeight' = h
      /\ frame'.tx = {} /\ frame.tx = {}
  <2>1. lo..(h - 1) # {}
    <3>1. h \in Int /\ lo <= h - 1
      BY <1>1, <1>2
    <3>2. lo \in lo..(h - 1)
      BY <1>3, <3>1
    <3> QED BY <3>2
  <2>2. NextHeight' = h - 1 + 1
    BY <1>2, <1>4, <2>1 DEF NextHeight
  <2>3. ~InBlock /\ ~InBlock' /\ frame.tx = {}
    BY <1>1 DEF InBlock, Sound, Place
  <2> QED BY <1>1, <2>2, <2>3 DEF Counting
<1>6. /\ DOMAIN runes = DOMAIN record /\ DOMAIN reserved = DOMAIN record
      /\ DOMAIN base = DOMAIN mined /\ DOMAIN record \subseteq DOMAIN mined
      /\ \A g \in DOMAIN mined : g \in Nat /\ g <= h /\ mined[g] \in Seq(Tx)
  <2>1. \A g \in DOMAIN mined : g \in Nat /\ g < h + 1 /\ mined[g] \in Seq(Tx)
    BY <1>1, <1>5 DEF Sound, Shape
  <2> QED BY <1>1, <1>5, <2>1 DEF Sound, Shape
<1>7. /\ DOMAIN record' = DOMAIN record \ {h}
      /\ \A g \in DOMAIN record' : record'[g] = record[g]
      /\ DOMAIN runes' = DOMAIN record' /\ DOMAIN reserved' = DOMAIN record'
      /\ \A g \in DOMAIN record' : runes'[g] = runes[g] /\ reserved'[g] = reserved[g]
      /\ DOMAIN mined' = DOMAIN mined \ {h} /\ DOMAIN base' = DOMAIN base \ {h}
      /\ \A g \in DOMAIN mined' : mined'[g] = mined[g] /\ base'[g] = base[g]
  BY <1>1, <1>6 DEF Without
<1>below. ASSUME NEW g \in DOMAIN mined'
      PROVE  g \in DOMAIN mined /\ g \in Nat /\ g < h /\ mined'[g] = mined[g]
                                /\ base'[g] = base[g] /\ mined'[g] \in Seq(Tx)
  <2>1. g \in DOMAIN mined /\ g # h /\ mined'[g] = mined[g] /\ base'[g] = base[g]
    BY <1>7
  <2>2. g \in Nat /\ g <= h /\ mined[g] \in Seq(Tx)
    BY <1>6, <2>1
  <2> QED BY <1>1, <2>1, <2>2
<1>8. Shape'
  <2>1. Window'
    <3>1. h - 1 \in FirstHeight..LastHeight
      BY <1>1, <1>2, <1>3
    <3> QED BY <1>2, <3>1 DEF Window
  <2>2. \A g \in DOMAIN mined' : /\ g \in Nat
                                 /\ g < NextHeight' \/ (InBlock' /\ g = NextHeight')
                                 /\ mined'[g] \in Seq(Tx)
    BY <1>5, <1>below
  <2>3. Counting' \subseteq DOMAIN mined' /\ DOMAIN base' = DOMAIN mined'
    BY <1>5, <1>6, <1>7
  <2>4. pc' = "idle"
    BY <1>1
  <2> QED BY <1>5, <1>7, <2>1, <2>2, <2>3, <2>4 DEF Shape
<1>9. Place'
  BY <1>1, <1>5 DEF Place
<1>10. BasesFit'
  <2> SUFFICES ASSUME NEW g \in DOMAIN base'
               PROVE  IsMaps(base'[g].maps) /\ Fits(base'[g].maps, Before(g)', g)
    BY DEF BasesFit
  <2>1. g \in DOMAIN base /\ g < h /\ g \in Nat /\ base'[g] = base[g]
    BY <1>6, <1>7, <1>below
  <2>2. Before(g)' = Before(g)
    <3>1. \A f : f \in DOMAIN mined' /\ f < g <=> f \in DOMAIN mined /\ f < g
      <4>1. h \in Int /\ ~(h < g)
        BY <1>1, <2>1
      <4> QED BY <1>7, <4>1
    <3>2. {f \in DOMAIN mined' : f < g} = {f \in DOMAIN mined : f < g}
      BY <3>1
    <3> DEFINE S == {f \in DOMAIN mined : f < g}
    <3>3. \A f \in S : mined'[f] = mined[f]
      BY <1>below, <3>2
    <3>4. {ToSet(mined'[f]) : f \in S} = {ToSet(mined[f]) : f \in S}
      BY <3>3
    <3> QED BY <3>2, <3>4 DEF Before
  <2> QED BY <2>1, <2>2 DEF Sound, BasesFit
<1>11. MapsFit'
  <2>1. MinedTx' = Before(h)
    <3>1. \A f : f \in DOMAIN mined' <=> f \in DOMAIN mined /\ f < h
      <4>1. ~(h < h)
        BY <1>1
      <4> QED BY <1>7, <1>below, <4>1
    <3>2. DOMAIN mined' = {f \in DOMAIN mined : f < h}
      BY <3>1
    <3>3. {ToSet(mined'[f]) : f \in DOMAIN mined'} = {ToSet(mined[f]) : f \in DOMAIN mined'}
      BY <1>below
    <3> QED BY <3>2, <3>3 DEF MinedTx, Before
  <2>2. DoneTx' = Before(h)
    BY <1>5, <2>1 DEF DoneTx
  <2> QED BY <1>1, <1>5, <2>2 DEF MapsFit
<1>12. Counts'
  <2> SUFFICES ASSUME NEW g \in DOMAIN base', g - 1 \in DOMAIN record'
               PROVE  /\ base'[g].runes = runes'[g - 1]
                      /\ base'[g].reserved = reserved'[g - 1]
    BY <1>5 DEF Counts
  <2>1. g \in DOMAIN base /\ base'[g] = base[g] /\ g - 1 \in Counting
    BY <1>5, <1>6, <1>7
  <2> QED BY <1>7, <2>1 DEF Sound, Counts
<1>13. Recorded'
  BY <1>5 DEF Recorded
<1>14. Revertible'
  <2> SUFFICES ASSUME NEW g \in DOMAIN record'
               PROVE  Restores(After(g)', record'[g], base'[g].maps)
    BY DEF Revertible
  <2>1. /\ g \in DOMAIN record /\ record'[g] = record[g] /\ base'[g] = base[g]
        /\ g \in lo..(h - 1)
    BY <1>2, <1>6, <1>7
  <2>2. g + 1 \in DOMAIN base
    BY <1>1, <1>2, <1>3, <1>6, <2>1
  <2>3. After(g)' = After(g)
    <3>1. CASE g + 1 = h
      BY <1>1, <1>7, <2>2, <3>1 DEF After
    <3>2. CASE g + 1 # h
      BY <1>6, <1>7, <2>2, <3>2 DEF After
    <3> QED BY <3>1, <3>2
  <2> QED BY <2>1, <2>3 DEF Sound, Revertible
<1> QED BY <1>8, <1>9, <1>10, <1>11, <1>12, <1>13, <1>14 DEF Sound

(* The maps and the statistics of before the block.                        *)
RestoresBase ==
  /\ maps' = base[Max(DOMAIN record)].maps
  /\ Latest(runes', 0) = base[Max(DOMAIN record)].runes
  /\ Latest(reserved', 0) = base[Max(DOMAIN record)].reserved

LEMMA RollBackExact ==
  ASSUME Sound, RollBack
  PROVE  RestoresBase
<1>0. PICK h : h = Max(DOMAIN record)
  OBVIOUS
<1>1. /\ h \in Nat /\ h \in DOMAIN base
      /\ maps' = base[h].maps
      /\ runes' = Without(runes, {h})
      /\ reserved' = Without(reserved, {h})
      /\ pc = "idle"
  BY <1>0, RollBackFacts
<1>2. PICK lo \in FirstHeight..LastHeight :
        /\ h \in FirstHeight..LastHeight /\ lo <= h - 1
        /\ DOMAIN record = lo..h
        /\ DOMAIN record' = lo..(h - 1)
  BY <1>0, RollBackFacts
<1>3. lo \in Int /\ h - 1 \in lo..(h - 1) /\ h - 1 \in lo..h
  BY <1>1, <1>2, LedgerAssumption
<1>4. Max(lo..(h - 1)) = h - 1
  BY <1>1, <1>2, <1>3, IntervalFacts
<1>5. DOMAIN runes = lo..h /\ DOMAIN reserved = lo..h /\ Counting = lo..h
  BY <1>1, <1>2 DEF Sound, Shape, Counting, InBlock
<1>6. lo..h \ {h} = lo..(h - 1)
  BY <1>1, <1>3
<1>7. DOMAIN runes' = lo..(h - 1) /\ DOMAIN reserved' = lo..(h - 1)
      /\ runes'[h - 1] = runes[h - 1] /\ reserved'[h - 1] = reserved[h - 1]
  BY <1>1, <1>3, <1>5, <1>6 DEF Without
<1>8. Latest(runes', 0) = runes[h - 1] /\ Latest(reserved', 0) = reserved[h - 1]
  BY <1>3, <1>4, <1>7 DEF Latest
<1>9. base[h].runes = runes[h - 1] /\ base[h].reserved = reserved[h - 1]
  BY <1>1, <1>3, <1>5 DEF Sound, Counts
<1> QED BY <1>0, <1>1, <1>8, <1>9 DEF RestoresBase

-----------------------------------------------------------------------------
LEMMA StutterSound ==
  ASSUME Sound, UNCHANGED vars
  PROVE  Sound'
<1>1. /\ maps' = maps /\ runes' = runes /\ reserved' = reserved /\ record' = record
      /\ updater' = updater /\ frame' = frame /\ pc' = pc /\ mined' = mined
      /\ base' = base
  BY DEF vars
<1>2. InBlock' = InBlock /\ NextHeight' = NextHeight /\ MinedTx' = MinedTx
  BY <1>1 DEF InBlock, NextHeight, MinedTx
<1>3. Shape'
  BY <1>1, <1>2 DEF Sound, Shape, Counting, Window
<1>4. Place' /\ BasesFit' /\ MapsFit'
  BY <1>1, <1>2 DEF Sound, Place, BasesFit, Before, MapsFit, DoneTx
<1>5. Counts' /\ Recorded' /\ Revertible'
  BY <1>1, <1>2 DEF Sound, Counts, Counting, Recorded, Revertible, After
<1> QED BY <1>3, <1>4, <1>5 DEF Sound

(* The change records of the retained blocks can always be undone, as long *)
(* as no block was started on a half indexed one.                          *)
THEOREM LedgerInvariant == Spec => []LedgerInductive
<1>1. Init => LedgerInductive
  BY InitSound DEF LedgerInductive
<1>2. LedgerInductive /\ [Next]_vars => LedgerInductive'
  <2> SUFFICES ASSUME LedgerInductive, [Next]_vars, orderly', pc' # "halted"
               PROVE  Sound'
    BY DEF LedgerInductive
  <2>1. CASE StartBlock
    <3>1. orderly /\ pc # "halted"
      BY <2>1 DEF StartBlock
    <3> QED BY <2>1, <3>1, StartSound DEF LedgerInductive
  <2>2. ASSUME NEW t \in Tx, TxBegins(t)
        PROVE  Sound'
    <3>1. orderly /\ pc # "halted"
      BY <2>2 DEF TxBegins
    <3> QED BY <2>2, <3>1, BeginSound DEF LedgerInductive
  <2>3. ASSUME NEW t \in Tx, TxEnds(t)
        PROVE  Sound'
    <3>1. orderly /\ pc # "halted"
      BY <2>3 DEF TxEnds, Distribute
    <3> QED BY <2>3, <3>1, EtchSound DEF LedgerInductive
  <2>4. ASSUME NEW t \in Tx, CommitFails(t)
        PROVE  Sound'
    BY <2>4 DEF CommitFails
  <2>5. CASE FinishBlock
    <3>1. orderly /\ pc # "halted"
      BY <2>5 DEF FinishBlock
    <3> QED BY <2>5, <3>1, FinishSound DEF LedgerInductive
  <2>6. CASE RollBack
    <3>1. orderly /\ pc # "halted"
      BY <2>6 DEF RollBack
    <3> QED BY <2>6, <3>1, RollBackSound DEF LedgerInductive
  <2>7. CASE Restart
    BY <2>7 DEF Restart
  <2>8. CASE UNCHANGED vars
    <3>1. orderly /\ pc # "halted"
      BY <2>8 DEF vars
    <3> QED BY <2>8, <3>1, StutterSound DEF LedgerInductive
  <2> QED BY <2>1, <2>2, <2>3, <2>4, <2>5, <2>6, <2>7, <2>8 DEF Next
<1> QED BY <1>1, <1>2, PTL DEF Spec

(* Rolling a block back restores exactly the maps and statistics from      *)
(* before it, for any transactions, any number of blocks and any depth     *)
(* (reorg.rs:97-157).                                                      *)
THEOREM RollBackIsExact == Spec => RollBackRestores
<1> DEFINE Step == RollBack /\ orderly => RestoresBase
<1>1. LedgerInductive /\ [Next]_vars => [Step]_vars
  <2> SUFFICES ASSUME LedgerInductive, RollBack, orderly
               PROVE  RestoresBase
    OBVIOUS
  <2>1. Sound
    BY DEF LedgerInductive, RollBack
  <2> QED BY <2>1, RollBackExact
<1>2. [Step]_vars => [ RollBack /\ orderly =>
        /\ maps' = base[Max(DOMAIN record)].maps
        /\ Latest(runes', 0) = base[Max(DOMAIN record)].runes
        /\ Latest(reserved', 0) = base[Max(DOMAIN record)].reserved ]_vars
  BY DEF RestoresBase
<1> QED BY <1>1, <1>2, LedgerInvariant, PTL DEF Spec, RollBackRestores

-----------------------------------------------------------------------------
(***************************************************************************)
(* The names, numbers and mints of runes, for any transactions, blocks and *)
(* rollbacks.                                                              *)
(***************************************************************************)
-----------------------------------------------------------------------------
(* The three name maps are inverse to each other.                          *)
Named(m) ==
  /\ \A id \in DOMAIN m.entry :
       /\ m.entry[id].rune \in DOMAIN m.id_of
       /\ m.id_of[m.entry[id].rune] = id
       /\ m.entry[id].etching \in DOMAIN m.rune_of
       /\ m.rune_of[m.entry[id].etching] = m.entry[id].rune
  /\ \A n \in DOMAIN m.id_of :
       /\ m.id_of[n] \in DOMAIN m.entry
       /\ m.entry[m.id_of[n]].rune = n
       /\ n \notin Rune => m.id_of[n] = n
  /\ \A t \in DOMAIN m.rune_of :
       /\ m.rune_of[t] \in DOMAIN m.id_of
       /\ m.entry[m.id_of[m.rune_of[t]]].etching = t

(* There are n runes, numbered from 0, r of them with a reserved name.     *)
Unchosen(m) == {id \in DOMAIN m.entry : m.entry[id].rune \notin Rune}

Numbers(m) == {m.entry[id].number : id \in DOMAIN m.entry}

Has(S, n) == IsFiniteSet(S) /\ Cardinality(S) = n

Numbered(m, n, r) ==
  /\ n \in Nat
  /\ r \in Nat
  /\ Has(DOMAIN m.entry, n)
  /\ Has(DOMAIN m.id_of, n)
  /\ Has(DOMAIN m.rune_of, n)
  /\ Has(Unchosen(m), r)
  /\ Numbers(m) = 0..(n - 1)

Tallied(m, n, r) == Named(m) /\ Numbered(m, n, r)

(* The same runes, perhaps with other counts.                              *)
SameRunes(m, k) ==
  /\ DOMAIN k.entry = DOMAIN m.entry
  /\ \A id \in DOMAIN m.entry : /\ k.entry[id].rune = m.entry[id].rune
                                /\ k.entry[id].etching = m.entry[id].etching
                                /\ k.entry[id].number = m.entry[id].number
  /\ k.id_of = m.id_of
  /\ k.rune_of = m.rune_of

LEMMA SameRunesTallied ==
  ASSUME NEW m, NEW k, NEW n, NEW r, SameRunes(m, k), Tallied(m, n, r)
  PROVE  Tallied(k, n, r)
<1>1. Named(k)
  <2>1. /\ \A id \in DOMAIN m.entry :
             /\ m.entry[id].rune \in DOMAIN m.id_of
             /\ m.id_of[m.entry[id].rune] = id
             /\ m.entry[id].etching \in DOMAIN m.rune_of
             /\ m.rune_of[m.entry[id].etching] = m.entry[id].rune
        /\ \A x \in DOMAIN m.id_of :
             /\ m.id_of[x] \in DOMAIN m.entry
             /\ m.entry[m.id_of[x]].rune = x
             /\ x \notin Rune => m.id_of[x] = x
        /\ \A t \in DOMAIN m.rune_of :
             /\ m.rune_of[t] \in DOMAIN m.id_of
             /\ m.entry[m.id_of[m.rune_of[t]]].etching = t
    BY DEF Tallied, Named
  <2>2. /\ DOMAIN k.entry = DOMAIN m.entry
        /\ \A id \in DOMAIN m.entry : /\ k.entry[id].rune = m.entry[id].rune
                                      /\ k.entry[id].etching = m.entry[id].etching
        /\ k.id_of = m.id_of
        /\ k.rune_of = m.rune_of
    BY DEF SameRunes
  <2>3. \A id \in DOMAIN k.entry :
          /\ k.entry[id].rune \in DOMAIN k.id_of
          /\ k.id_of[k.entry[id].rune] = id
          /\ k.entry[id].etching \in DOMAIN k.rune_of
          /\ k.rune_of[k.entry[id].etching] = k.entry[id].rune
    BY <2>1, <2>2
  <2>4. \A x \in DOMAIN k.id_of :
          /\ k.id_of[x] \in DOMAIN k.entry
          /\ k.entry[k.id_of[x]].rune = x
          /\ x \notin Rune => k.id_of[x] = x
    BY <2>1, <2>2
  <2>5. \A t \in DOMAIN k.rune_of :
          /\ k.rune_of[t] \in DOMAIN k.id_of
          /\ k.entry[k.id_of[k.rune_of[t]]].etching = t
    BY <2>1, <2>2
  <2> QED BY <2>3, <2>4, <2>5 DEF Named
<1>2. Unchosen(k) = Unchosen(m) /\ Numbers(k) = Numbers(m)
  BY DEF SameRunes, Unchosen, Numbers
<1>3. Numbered(k, n, r)
  BY <1>2 DEF SameRunes, Tallied, Numbered
<1> QED BY <1>1, <1>3 DEF Tallied

(* One rune more.                                                          *)
NewRune(m, k, id, name, t, n) ==
  /\ id \notin DOMAIN m.entry
  /\ name \notin DOMAIN m.id_of
  /\ t \notin DOMAIN m.rune_of
  /\ name \notin Rune => name = id
  /\ DOMAIN k.entry = DOMAIN m.entry \cup {id}
  /\ DOMAIN k.id_of = DOMAIN m.id_of \cup {name}
  /\ DOMAIN k.rune_of = DOMAIN m.rune_of \cup {t}
  /\ k.entry[id].rune = name /\ k.entry[id].etching = t /\ k.entry[id].number = n
  /\ k.id_of[name] = id
  /\ k.rune_of[t] = name
  /\ \A i \in DOMAIN m.entry : k.entry[i] = m.entry[i]
  /\ \A x \in DOMAIN m.id_of : k.id_of[x] = m.id_of[x]
  /\ \A u \in DOMAIN m.rune_of : k.rune_of[u] = m.rune_of[u]

LEMMA HasOneMore ==
  ASSUME NEW S, NEW n \in Nat, NEW x, Has(S, n), x \notin S
  PROVE  Has(S \cup {x}, n + 1)
BY FS_AddElement DEF Has

LEMMA NewRuneTallied ==
  ASSUME NEW m, NEW k, NEW n, NEW r, NEW id, NEW name, NEW t,
         NewRune(m, k, id, name, t, n), Tallied(m, n, r)
  PROVE  Tallied(k, n + 1, IF name \in Rune THEN r ELSE r + 1)
<1>1. Named(k)
  <2>1. ASSUME NEW i \in DOMAIN k.entry
        PROVE  /\ k.entry[i].rune \in DOMAIN k.id_of
               /\ k.id_of[k.entry[i].rune] = i
               /\ k.entry[i].etching \in DOMAIN k.rune_of
               /\ k.rune_of[k.entry[i].etching] = k.entry[i].rune
    <3>1. CASE i = id
      BY <3>1 DEF NewRune
    <3>2. CASE i \in DOMAIN m.entry
      <4>1. /\ m.entry[i].rune \in DOMAIN m.id_of
            /\ m.id_of[m.entry[i].rune] = i
            /\ m.entry[i].etching \in DOMAIN m.rune_of
            /\ m.rune_of[m.entry[i].etching] = m.entry[i].rune
        BY <3>2 DEF Tallied, Named
      <4>2. /\ k.entry[i] = m.entry[i]
            /\ \A x \in DOMAIN m.id_of : x \in DOMAIN k.id_of /\ k.id_of[x] = m.id_of[x]
            /\ \A u \in DOMAIN m.rune_of :
                 u \in DOMAIN k.rune_of /\ k.rune_of[u] = m.rune_of[u]
        BY <3>2 DEF NewRune
      <4> QED BY <4>1, <4>2
    <3> QED BY <2>1, <3>1, <3>2 DEF NewRune
  <2>2. ASSUME NEW x \in DOMAIN k.id_of
        PROVE  /\ k.id_of[x] \in DOMAIN k.entry
               /\ k.entry[k.id_of[x]].rune = x
               /\ x \notin Rune => k.id_of[x] = x
    <3>1. CASE x = name
      BY <3>1 DEF NewRune
    <3>2. CASE x \in DOMAIN m.id_of
      <4>1. /\ m.id_of[x] \in DOMAIN m.entry
            /\ m.entry[m.id_of[x]].rune = x
            /\ x \notin Rune => m.id_of[x] = x
        BY <3>2 DEF Tallied, Named
      <4>2. /\ k.id_of[x] = m.id_of[x]
            /\ \A i \in DOMAIN m.entry : i \in DOMAIN k.entry /\ k.entry[i] = m.entry[i]
        BY <3>2 DEF NewRune
      <4> QED BY <4>1, <4>2
    <3> QED BY <2>2, <3>1, <3>2 DEF NewRune
  <2>3. ASSUME NEW u \in DOMAIN k.rune_of
        PROVE  /\ k.rune_of[u] \in DOMAIN k.id_of
               /\ k.entry[k.id_of[k.rune_of[u]]].etching = u
    <3>1. CASE u = t
      BY <3>1 DEF NewRune
    <3>2. CASE u \in DOMAIN m.rune_of
      <4>1. /\ m.rune_of[u] \in DOMAIN m.id_of
            /\ m.id_of[m.rune_of[u]] \in DOMAIN m.entry
            /\ m.entry[m.id_of[m.rune_of[u]]].etching = u
        BY <3>2 DEF Tallied, Named
      <4>2. /\ k.rune_of[u] = m.rune_of[u]
            /\ \A x \in DOMAIN m.id_of : x \in DOMAIN k.id_of /\ k.id_of[x] = m.id_of[x]
            /\ \A i \in DOMAIN m.entry : k.entry[i] = m.entry[i]
        BY <3>2 DEF NewRune
      <4> QED BY <4>1, <4>2
    <3> QED BY <2>3, <3>1, <3>2 DEF NewRune
  <2> QED BY <2>1, <2>2, <2>3 DEF Named
<1>2. /\ n \in Nat /\ r \in Nat
      /\ Has(DOMAIN m.entry, n) /\ Has(DOMAIN m.id_of, n) /\ Has(DOMAIN m.rune_of, n)
      /\ Has(Unchosen(m), r)
      /\ Numbers(m) = 0..(n - 1)
  BY DEF Tallied, Numbered
<1>3. /\ Has(DOMAIN k.entry, n + 1) /\ Has(DOMAIN k.id_of, n + 1)
      /\ Has(DOMAIN k.rune_of, n + 1)
  BY <1>2, HasOneMore DEF NewRune
<1>4. Numbers(k) = 0..(n + 1 - 1)
  <2>1. Numbers(k) = Numbers(m) \cup {n}
    BY DEF Numbers, NewRune
  <2> QED BY <1>2, <2>1
<1>5. Has(Unchosen(k), IF name \in Rune THEN r ELSE r + 1)
  <2>1. \A i \in DOMAIN m.entry : i \in Unchosen(k) <=> i \in Unchosen(m)
    BY DEF Unchosen, NewRune
  <2>2. id \notin Unchosen(m)
    BY DEF Unchosen, NewRune
  <2>3. id \in Unchosen(k) <=> name \notin Rune
    BY DEF Unchosen, NewRune
  <2>4. Unchosen(m) \subseteq DOMAIN m.entry /\ Unchosen(k) \subseteq DOMAIN m.entry \cup {id}
    BY DEF Unchosen, NewRune
  <2>5. CASE name \in Rune
    <3>1. Unchosen(k) = Unchosen(m)
      BY <2>1, <2>2, <2>3, <2>4, <2>5
    <3> QED BY <1>2, <2>5, <3>1
  <2>6. CASE name \notin Rune
    <3>1. Unchosen(k) = Unchosen(m) \cup {id}
      BY <2>1, <2>2, <2>3, <2>4, <2>6
    <3> QED BY <1>2, <2>2, <2>6, <3>1, HasOneMore
  <2> QED BY <2>5, <2>6
<1>6. n + 1 \in Nat /\ (IF name \in Rune THEN r ELSE r + 1) \in Nat
  BY <1>2
<1> QED BY <1>1, <1>3, <1>4, <1>5, <1>6 DEF Tallied, Numbered

-----------------------------------------------------------------------------
(* The statistics under the latest height count the runes, the updater     *)
(* carries the same count, and the next id is a new one.                   *)
Position ==
  InBlock =>
    /\ updater.runes = Latest(runes, 0)
    /\ pc = "etching" => frame.index = Len(mined[NextHeight]) - 1
    /\ \A id \in DOMAIN maps.entry :
         id[1] = NextHeight =>
           id[2] \in 0..((IF pc = "etching" THEN frame.index
                                            ELSE Len(mined[NextHeight])) - 1)

BasesTallied ==
  \A g \in DOMAIN base : Tallied(base[g].maps, base[g].runes, base[g].reserved)

Tally ==
  /\ Tallied(maps, Latest(runes, 0), Latest(reserved, 0))
  /\ Position
  /\ BasesTallied

LEMMA LatestFacts ==
  ASSUME NEW f, NEW lo \in Int, NEW hi \in Int, lo <= hi, DOMAIN f = lo..hi
  PROVE  Latest(f, 0) = f[hi]
<1>1. Max(lo..hi) = hi
  BY IntervalFacts
<1>2. hi \in lo..hi
  OBVIOUS
<1> QED BY <1>1, <1>2 DEF Latest

(* The heights with statistics while a block is indexed.                   *)
LEMMA CountingFacts ==
  ASSUME Sound, NextHeight <= LastHeight
  PROVE  \E lo \in FirstHeight..LastHeight :
           lo <= NextHeight /\ DOMAIN record \cup {NextHeight} = lo..NextHeight
<1>1. NextHeight \in Nat /\ NextHeight >= FirstHeight /\ Window
  BY WindowFacts DEF Sound, Shape
<1>2. CASE DOMAIN record = {}
  <2>1. DOMAIN record \cup {NextHeight} = NextHeight..NextHeight
    BY <1>1, <1>2
  <2>2. NextHeight \in FirstHeight..LastHeight
    BY <1>1, LedgerAssumption
  <2> QED BY <1>1, <2>1, <2>2
<1>3. CASE DOMAIN record # {}
  <2>1. PICK lo \in FirstHeight..LastHeight :
          lo <= NextHeight - 1 /\ DOMAIN record = lo..(NextHeight - 1)
    BY <1>1, <1>3, WindowFacts
  <2>2. DOMAIN record \cup {NextHeight} = lo..NextHeight /\ lo <= NextHeight
    BY <1>1, <2>1, LedgerAssumption
  <2> QED BY <2>2
<1> QED BY <1>2, <1>3

LEMMA LatestInBlock ==
  ASSUME Sound, InBlock, NEW f, DOMAIN f = Counting
  PROVE  Latest(f, 0) = f[NextHeight]
<1>1. NextHeight \in Nat /\ NextHeight <= LastHeight
  BY InBlockFacts, LedgerAssumption
<1>2. PICK lo \in FirstHeight..LastHeight :
        lo <= NextHeight /\ DOMAIN f = lo..NextHeight
  BY <1>1, CountingFacts DEF Counting
<1>3. lo \in Int
  BY LedgerAssumption
<1> QED BY <1>1, <1>2, <1>3, LatestFacts

LEMMA InitTally == Init => Tally
<1> SUFFICES ASSUME Init PROVE Tally
  OBVIOUS
<1>1. /\ DOMAIN maps.entry = {} /\ DOMAIN maps.id_of = {} /\ DOMAIN maps.rune_of = {}
      /\ DOMAIN runes = {} /\ DOMAIN reserved = {} /\ DOMAIN base = {} /\ ~InBlock
  BY DEF Init, EmptyMaps, InBlock
<1>2. Latest(runes, 0) = 0 /\ Latest(reserved, 0) = 0
  BY <1>1 DEF Latest
<1>3. Has({}, 0)
  BY FS_EmptySet DEF Has
<1>4. Unchosen(maps) = {} /\ Numbers(maps) = {} /\ 0..(0 - 1) = {}
  BY <1>1 DEF Unchosen, Numbers
<1>5. Named(maps)
  BY <1>1 DEF Named
<1>6. Numbered(maps, 0, 0)
  BY <1>1, <1>3, <1>4 DEF Numbered
<1>7. Position /\ BasesTallied
  BY <1>1 DEF Position, BasesTallied
<1> QED BY <1>2, <1>5, <1>6, <1>7 DEF Tally, Tallied

LEMMA StartTally ==
  ASSUME Sound, Tally, StartBlock
  PROVE  Tally'
<1>0. PICK h : h = NextHeight
  OBVIOUS
<1>1. /\ pc = "idle" /\ pc' = "tx" /\ h <= LastHeight
      /\ runes' = Put(runes, h, Latest(runes, 0))
      /\ reserved' = Put(reserved, h, Latest(reserved, 0))
      /\ updater'.runes = Latest(runes, 0)
      /\ base' = Put(base, h, Snapshot)
      /\ maps' = maps /\ record' = record
  BY <1>0 DEF StartBlock, NewUpdater
<1>2. /\ h \in Nat /\ h >= FirstHeight /\ NextHeight' = h
      /\ DOMAIN runes = DOMAIN record /\ DOMAIN reserved = DOMAIN record
  BY <1>0, <1>1, WindowFacts DEF Sound, Shape, Counting, InBlock, NextHeight
<1>3. PICK lo \in FirstHeight..LastHeight : lo <= h /\ DOMAIN record \cup {h} = lo..h
  BY <1>0, <1>1, CountingFacts
<1>4. /\ DOMAIN runes' = lo..h /\ runes'[h] = Latest(runes, 0)
      /\ DOMAIN reserved' = lo..h /\ reserved'[h] = Latest(reserved, 0)
  BY <1>1, <1>2, <1>3 DEF Put
<1>5. lo \in Int /\ h \in Int
  BY <1>2, LedgerAssumption
<1>6. Latest(runes', 0) = Latest(runes, 0) /\ Latest(reserved', 0) = Latest(reserved, 0)
  BY <1>3, <1>4, <1>5, LatestFacts
<1>7. Position'
  <2>1. Fits(maps, DoneTx, h)
    BY <1>0, <1>1 DEF Sound, MapsFit, InBlock
  <2>2. \A id \in DOMAIN maps.entry : id[1] # h
    BY <1>2, <2>1 DEF Fits
  <2> QED BY <1>1, <1>2, <1>6, <2>2 DEF Position
<1>8. BasesTallied'
  <2> SUFFICES ASSUME NEW g \in DOMAIN base'
               PROVE  Tallied(base'[g].maps, base'[g].runes, base'[g].reserved)
    BY DEF BasesTallied
  <2>1. CASE g = h
    <3>1. base'[g] = Snapshot
      BY <1>1, <2>1 DEF Put
    <3> QED BY <3>1 DEF Snapshot, Tally
  <2>2. CASE g # h
    <3>1. g \in DOMAIN base /\ base'[g] = base[g]
      BY <1>1, <2>2 DEF Put
    <3> QED BY <3>1 DEF Tally, BasesTallied
  <2> QED BY <2>1, <2>2
<1>9. Tallied(maps, Latest(runes, 0), Latest(reserved, 0))'
  BY <1>1, <1>6 DEF Tally, Tallied, Named, Numbered, Unchosen, Numbers
<1> QED BY <1>7, <1>8, <1>9 DEF Tally

LEMMA CountsChange ==
  ASSUME NEW m, IsMaps(m), NEW ids, ids \subseteq DOMAIN m.entry, NEW k,
         NEW new, DOMAIN new = ids,
         \A id \in ids : \E x, y : new[id] = Counted(m.entry[id], x, y),
         k.entry = PutAll(m.entry, new), k.id_of = m.id_of, k.rune_of = m.rune_of
  PROVE  SameRunes(m, k)
<1>1. IsUnion(k.entry, m.entry, new)
  BY PutAllFacts
<1>2. DOMAIN k.entry = DOMAIN m.entry
  BY <1>1 DEF IsUnion
<1>3. ASSUME NEW id \in DOMAIN m.entry
      PROVE  /\ k.entry[id].rune = m.entry[id].rune
             /\ k.entry[id].etching = m.entry[id].etching
             /\ k.entry[id].number = m.entry[id].number
  <2>1. CASE id \in ids
    <3>1. k.entry[id] = new[id]
      BY <1>1, <2>1 DEF IsUnion
    <3>2. PICK x, y : new[id] = Counted(m.entry[id], x, y)
      BY <2>1
    <3> QED BY <3>1, <3>2 DEF Counted
  <2>2. CASE id \notin ids
    BY <1>1, <2>2 DEF IsUnion
  <2> QED BY <2>1, <2>2
<1> QED BY <1>2, <1>3 DEF SameRunes

(* A transaction that begins changes counts of entries only.               *)
LEMMA BeginKeepsRunes ==
  ASSUME Sound, NEW t \in Tx, TxBegins(t)
  PROVE  SameRunes(maps, maps')
<1> DEFINE spent == Content[t].inputs \cap DOMAIN maps.balances
           minted == {id \in Content[t].mint \cap DOMAIN maps.entry :
                        Mintable(id, maps.entry[id], updater.height)}
           new == [id \in minted |-> OnceMoreMinted(maps.entry[id])]
<1>1. maps' = MapsBegun(maps, spent, minted)
  BY DEF TxBegins, MapsBegun
<1>2. minted \subseteq DOMAIN maps.entry
  OBVIOUS
<1>3. IsMaps(maps)
  BY DEF Sound, MapsFit
<1> HIDE DEF spent, minted
<1>4. /\ maps'.entry = PutAll(maps.entry, new)
      /\ maps'.id_of = maps.id_of
      /\ maps'.rune_of = maps.rune_of
  BY <1>1, <1>3 DEF MapsBegun, IsMaps
<1>5. ASSUME NEW id \in minted
      PROVE  \E x, y : new[id] = Counted(maps.entry[id], x, y)
  <2>1. IsEntry(maps.entry[id])
    BY <1>2, <1>3 DEF IsMaps
  <2>2. OnceMoreMinted(maps.entry[id]) =
          Counted(maps.entry[id], maps.entry[id].mints + 1, maps.entry[id].burned)
    BY <2>1, EntryFacts DEF OnceMoreMinted, WithMints
  <2> QED BY <2>2
<1>6. DOMAIN new = minted
  OBVIOUS
<1> HIDE DEF new
<1> QED BY <1>2, <1>3, <1>4, <1>5, <1>6, CountsChange

LEMMA FinishKeepsRunes ==
  ASSUME Sound, FinishBlock
  PROVE  SameRunes(maps, maps')
<1> DEFINE ids == DOMAIN updater.burned
           new == [id \in ids |-> OnceBurned(maps.entry[id], updater.burned[id])]
<1>1. /\ ids \subseteq DOMAIN maps.entry
      /\ maps' = [maps EXCEPT !.entry = PutAll(maps.entry, new)]
  BY DEF FinishBlock
<1>2. IsMaps(maps)
  BY DEF Sound, MapsFit
<1> HIDE DEF ids
<1>3. ASSUME NEW id \in ids
      PROVE  \E x, y : new[id] = Counted(maps.entry[id], x, y)
  <2>1. IsEntry(maps.entry[id])
    BY <1>1, <1>2 DEF IsMaps
  <2>2. OnceBurned(maps.entry[id], updater.burned[id]) =
          Counted(maps.entry[id], maps.entry[id].mints,
                  maps.entry[id].burned + updater.burned[id])
    BY <2>1, EntryFacts DEF OnceBurned, WithBurned
  <2> QED BY <2>2
<1>4. DOMAIN new = ids
  OBVIOUS
<1> HIDE DEF new
<1>5. /\ maps'.entry = PutAll(maps.entry, new)
      /\ maps'.id_of = maps.id_of
      /\ maps'.rune_of = maps.rune_of
  BY <1>1, <1>2 DEF IsMaps
<1>6. ids \subseteq DOMAIN maps.entry
  BY <1>1
<1> QED BY <1>2, <1>3, <1>4, <1>5, <1>6, CountsChange

(* Tallied of the maps and counts after a step is Tallied primed.          *)
LEMMA TalliedPrimed ==
  ASSUME NEW n, NEW r, Tallied(maps', n, r),
         n = Latest(runes', 0), r = Latest(reserved', 0)
  PROVE  Tallied(maps, Latest(runes, 0), Latest(reserved, 0))'
BY DEF Tallied, Named, Numbered, Unchosen, Numbers

LEMMA BeginTally ==
  ASSUME Sound, Tally, NEW t \in Tx, TxBegins(t)
  PROVE  Tally'
<1>0. PICK h : h = NextHeight
  OBVIOUS
<1>1. /\ pc = "tx" /\ pc' = "etching" /\ InBlock
      /\ UNCHANGED <<runes, reserved, record, base>>
      /\ updater'.runes = updater.runes
      /\ frame'.index = Len(mined[h])
      /\ mined' = [mined EXCEPT ![h] = Append(mined[h], t)]
  <2>1. pc = "tx" /\ InBlock
    BY DEF TxBegins, InBlock
  <2>2. updater.height = h /\ updater = [height |-> updater.height,
            burned |-> updater.burned, runes |-> updater.runes,
            change_record |-> updater.change_record]
    BY <1>0, <2>1 DEF Sound, Shape
  <2>3. updater'.runes = updater.runes
    BY <2>2 DEF TxBegins
  <2> QED BY <2>1, <2>2, <2>3 DEF TxBegins
<1>2. h \in DOMAIN mined /\ mined[h] \in Seq(Tx) /\ NextHeight' = h
  <2>1. NextHeight' = h
    BY <1>0, <1>1 DEF NextHeight
  <2> QED BY <1>0, <1>1, <2>1, InBlockFacts
<1>3. mined'[h] = Append(mined[h], t) /\ Len(mined'[h]) = Len(mined[h]) + 1
      /\ Len(mined[h]) \in Nat
  BY <1>1, <1>2
<1>4. SameRunes(maps, maps')
  BY BeginKeepsRunes
<1>5. Position'
  <2>1. frame'.index = Len(mined'[h]) - 1
    BY <1>1, <1>3
  <2>2. ASSUME NEW id \in DOMAIN maps'.entry, id[1] = h
        PROVE  id[2] \in 0..(frame'.index - 1)
    <3>1. id \in DOMAIN maps.entry
      BY <1>4, <2>2 DEF SameRunes
    <3> QED BY <1>0, <1>1, <2>2, <3>1 DEF Tally, Position
  <2>3. updater'.runes = Latest(runes', 0)
    BY <1>1 DEF Tally, Position
  <2> QED BY <1>1, <1>2, <2>1, <2>2, <2>3 DEF Position
<1>6. BasesTallied'
  BY <1>1 DEF Tally, BasesTallied
<1>7. Tallied(maps', Latest(runes, 0), Latest(reserved, 0))
  BY <1>4, SameRunesTallied DEF Tally
<1>8. Tallied(maps, Latest(runes, 0), Latest(reserved, 0))'
  BY <1>1, <1>7, TalliedPrimed
<1> QED BY <1>5, <1>6, <1>8 DEF Tally

LEMMA FinishTally ==
  ASSUME Sound, Tally, FinishBlock
  PROVE  Tally'
<1>0. PICK h : h = NextHeight
  OBVIOUS
<1>1. /\ InBlock /\ ~InBlock' /\ updater.height = h
      /\ runes' = Retained(runes, h)
      /\ reserved' = Retained(reserved, h)
      /\ base' = base
  <2>1. InBlock /\ ~InBlock'
    BY DEF FinishBlock, InBlock
  <2>2. updater.height = h
    BY <1>0, <2>1 DEF Sound, Shape
  <2> QED BY <2>1, <2>2 DEF FinishBlock
<1>2. /\ Window /\ h \in FirstHeight..LastHeight
      /\ DOMAIN runes = DOMAIN record \cup {h}
      /\ DOMAIN reserved = DOMAIN record \cup {h}
      /\ Latest(runes, 0) = runes[h] /\ Latest(reserved, 0) = reserved[h]
  <2>1. /\ Window /\ DOMAIN runes = Counting /\ DOMAIN reserved = Counting
        /\ Counting = DOMAIN record \cup {h}
    BY <1>0, <1>1 DEF Sound, Shape, Counting
  <2> QED BY <1>0, <1>1, <2>1, InBlockFacts, LatestInBlock
<1>3. PICK lo \in FirstHeight..LastHeight :
        /\ lo <= h
        /\ {g \in DOMAIN record \cup {h} : ~(g <= h - MaxReorgDepth)} = lo..h
  BY <1>0, <1>2, RetainedWindow
<1>4. lo \in Int /\ h \in Int /\ h \in lo..h
  BY <1>2, <1>3, LedgerAssumption
<1>5. /\ DOMAIN runes' = lo..h /\ runes'[h] = runes[h]
      /\ DOMAIN reserved' = lo..h /\ reserved'[h] = reserved[h]
  <2>1. ASSUME NEW f, DOMAIN f = DOMAIN record \cup {h}, NEW k, k = Retained(f, h)
        PROVE  DOMAIN k = lo..h /\ k[h] = f[h]
    <3>1. /\ DOMAIN k = {g \in DOMAIN f : ~(g <= h - MaxReorgDepth)}
          /\ \A g \in DOMAIN k : k[g] = f[g]
      BY <2>1, RetainedFacts
    <3>2. DOMAIN k = lo..h
      BY <1>3, <2>1, <3>1
    <3> QED BY <1>4, <3>1, <3>2
  <2> QED BY <1>1, <1>2, <2>1
<1>6. Latest(runes', 0) = Latest(runes, 0) /\ Latest(reserved', 0) = Latest(reserved, 0)
  BY <1>2, <1>3, <1>4, <1>5, LatestFacts
<1>7. SameRunes(maps, maps')
  BY FinishKeepsRunes
<1>8. Tallied(maps', Latest(runes, 0), Latest(reserved, 0))
  BY <1>7, SameRunesTallied DEF Tally
<1>9. Tallied(maps, Latest(runes, 0), Latest(reserved, 0))'
  BY <1>6, <1>8, TalliedPrimed
<1>10. Position' /\ BasesTallied'
  BY <1>1 DEF Tally, Position, BasesTallied
<1> QED BY <1>9, <1>10 DEF Tally

LEMMA RollBackTally ==
  ASSUME Sound, Tally, RollBack
  PROVE  Tally'
<1>0. PICK h : h = Max(DOMAIN record)
  OBVIOUS
<1>1. /\ h \in DOMAIN base /\ maps' = base[h].maps /\ base' = Without(base, {h})
      /\ pc' = "idle"
  BY <1>0, RollBackFacts
<1>2. Latest(runes', 0) = base[h].runes /\ Latest(reserved', 0) = base[h].reserved
  BY <1>0, RollBackExact DEF RestoresBase
<1>3. Tallied(maps', base[h].runes, base[h].reserved)
  BY <1>1 DEF Tally, BasesTallied
<1>4. Tallied(maps, Latest(runes, 0), Latest(reserved, 0))'
  BY <1>2, <1>3, TalliedPrimed
<1>5. \A g \in DOMAIN base' : g \in DOMAIN base /\ base'[g] = base[g]
  BY <1>1 DEF Without
<1>6. Position' /\ BasesTallied'
  BY <1>1, <1>5 DEF Tally, Position, InBlock, BasesTallied
<1> QED BY <1>4, <1>6 DEF Tally

(* g is f with the value v under every key of S.                           *)
Adds(g, f, S, v) ==
  /\ IsMapping(g)
  /\ DOMAIN g = DOMAIN f \cup S
  /\ \A x \in S : g[x] = v
  /\ \A x \in DOMAIN f \ S : g[x] = f[x]

LEMMA PutAllAdds ==
  ASSUME NEW f, NEW S, NEW v
  PROVE  Adds(PutAll(f, [x \in S |-> v]), f, S, v)
<1> DEFINE new == [x \in S |-> v]
<1>1. DOMAIN new = S /\ \A x \in S : new[x] = v
  OBVIOUS
<1> HIDE DEF new
<1>2. IsUnion(PutAll(f, new), f, new)
  BY PutAllFacts
<1>3. Adds(PutAll(f, new), f, S, v)
  BY <1>1, <1>2 DEF IsUnion, Adds
<1> QED BY <1>3 DEF new

LEMMA AddsNothing ==
  ASSUME NEW f, IsMapping(f), NEW g, NEW v, Adds(g, f, {}, v)
  PROVE  g = f
BY DEF Adds, IsMapping

(* What the end of a transaction does to the runes: nothing, or it adds    *)
(* the one that it etches.                                                 *)
RuneAdded(t, ids, names, txs, counts, entry, name) ==
  /\ Adds(maps'.entry, maps.entry, ids, entry)
  /\ Adds(maps'.id_of, maps.id_of, names, <<NextHeight, frame.index>>)
  /\ Adds(maps'.rune_of, maps.rune_of, txs, name)
  /\ Adds(runes', runes, counts, updater.runes + 1)
  /\ updater'.runes = updater.runes + Cardinality(names)
  /\ pc' = "tx"
  /\ UNCHANGED <<record, mined, base, orderly>>

LEMMA EtchesAre ==
  ASSUME Sound, InBlock, NEW t, NEW names, Distribute(t, names)
  PROVE  RuneAdded(t, {<<NextHeight, frame.index>> : n \in names}, names,
                   {t : n \in names}, {NextHeight : n \in names},
                   NewEntry(t, CHOOSE n \in names : TRUE), CHOOSE n \in names : TRUE)
<1> DEFINE id == <<NextHeight, frame.index>>
           name == CHOOSE n \in names : TRUE
           ids == {id : n \in names}
           txs == {t : n \in names}
           counts == {NextHeight : n \in names}
           entry == NewEntry(t, name)
           count == updater.runes + 1
<1>1. /\ updater.height = NextHeight
      /\ updater = [height |-> updater.height, burned |-> updater.burned,
                    runes |-> updater.runes, change_record |-> updater.change_record]
  BY DEF Sound, Shape
<1>2. /\ maps'.entry = PutAll(maps.entry, [i \in ids |-> entry])
      /\ maps'.id_of = PutAll(maps.id_of, [n \in names |-> id])
      /\ maps'.rune_of = PutAll(maps.rune_of, [u \in txs |-> name])
      /\ runes' = PutAll(runes, [g \in counts |-> count])
      /\ pc' = "tx"
      /\ UNCHANGED <<record, mined, base, orderly>>
  BY <1>1 DEF Distribute
<1>3. updater'.runes = updater.runes + Cardinality(names)
  BY <1>1 DEF Distribute
<1> HIDE DEF id, name, ids, txs, counts, entry, count
<1>4. /\ Adds(maps'.entry, maps.entry, ids, entry)
      /\ Adds(maps'.id_of, maps.id_of, names, id)
      /\ Adds(maps'.rune_of, maps.rune_of, txs, name)
      /\ Adds(runes', runes, counts, count)
  BY <1>2, PutAllAdds
<1>5. RuneAdded(t, ids, names, txs, counts, entry, name)
  BY <1>2, <1>3, <1>4 DEF RuneAdded, id, count
<1> QED BY <1>5 DEF id, name, ids, txs, counts, entry

LEMMA EtchesNone ==
  ASSUME Sound, Tally, NEW t, pc = "etching", Distribute(t, {}), UNCHANGED reserved
  PROVE  Tally'
<1>0. PICK h : h = NextHeight
  OBVIOUS
<1>1. InBlock /\ InBlock'
  BY DEF InBlock, Distribute
<1>2. \E entry, name : RuneAdded(t, {}, {}, {}, {}, entry, name)
  <2> DEFINE name == CHOOSE n \in {} : TRUE
  <2>1. RuneAdded(t, {<<NextHeight, frame.index>> : n \in {}}, {}, {t : n \in {}},
                  {NextHeight : n \in {}}, NewEntry(t, name), name)
    BY <1>1, EtchesAre
  <2> HIDE DEF name
  <2>2. {<<NextHeight, frame.index>> : n \in {}} = {} /\ {t : n \in {}} = {}
        /\ {NextHeight : n \in {}} = {}
    OBVIOUS
  <2>3. RuneAdded(t, {}, {}, {}, {}, NewEntry(t, name), name)
    BY <2>1, <2>2, Zenon
  <2> QED BY <2>3
<1>3. /\ maps'.entry = maps.entry /\ maps'.id_of = maps.id_of
      /\ maps'.rune_of = maps.rune_of
  <2>1. IsMapping(maps.entry) /\ IsMapping(maps.id_of) /\ IsMapping(maps.rune_of)
    BY DEF Sound, MapsFit, IsMaps
  <2> QED BY <1>2, <2>1, AddsNothing DEF RuneAdded
<1>4. /\ updater'.runes = updater.runes + Cardinality({})
      /\ pc' = "tx"
      /\ UNCHANGED <<record, mined, base, orderly>>
      /\ DOMAIN runes' = DOMAIN runes
      /\ \A g \in DOMAIN runes : runes'[g] = runes[g]
  BY <1>2 DEF RuneAdded, Adds
<1>5. SameRunes(maps, maps')
  BY <1>3 DEF SameRunes
<1>6. DOMAIN runes = Counting /\ NextHeight' = h /\ h \in Counting
      /\ Counting' = Counting
  BY <1>0, <1>1, <1>4 DEF Sound, Shape, NextHeight, Counting
<1>7. Latest(runes', 0) = Latest(runes, 0)
  BY <1>0, <1>1, <1>4, <1>6, LatestInBlock
<1>8. updater'.runes = updater.runes
  <2>1. Cardinality({}) = 0
    BY FS_EmptySet
  <2>2. updater.runes \in Nat
    BY <1>1 DEF Tally, Position, Tallied, Numbered
  <2> QED BY <1>4, <2>1, <2>2
<1>9. Tallied(maps, Latest(runes, 0), Latest(reserved, 0))'
  <2>1. Tallied(maps', Latest(runes, 0), Latest(reserved, 0))
    BY <1>5, SameRunesTallied DEF Tally
  <2> QED BY <1>7, <2>1, TalliedPrimed
<1>10. Position'
  <2>1. /\ frame.index = Len(mined[h]) - 1
        /\ mined[h] \in Seq(Tx)
    BY <1>0, <1>1, InBlockFacts DEF Tally, Position
  <2>2. ASSUME NEW id \in DOMAIN maps.entry, id[1] = h
        PROVE  id[2] \in 0..(Len(mined[h]) - 1)
    <3>1. id[2] \in 0..(frame.index - 1)
      BY <1>0, <1>1, <2>2 DEF Tally, Position
    <3>2. Len(mined[h]) \in Nat
      BY <2>1
    <3> QED BY <2>1, <3>1, <3>2
  <2>3. updater.runes = Latest(runes, 0)
    BY <1>1 DEF Tally, Position
  <2> QED BY <1>3, <1>4, <1>6, <1>7, <1>8, <2>2, <2>3 DEF Position
<1>11. BasesTallied'
  BY <1>4 DEF Tally, BasesTallied
<1> QED BY <1>9, <1>10, <1>11 DEF Tally

(* The id of the next rune.                                                *)
LEMMA NextIdIsNew ==
  ASSUME Sound, Tally, pc = "etching"
  PROVE  <<NextHeight, frame.index>> \notin DOMAIN maps.entry
<1> DEFINE id == <<NextHeight, frame.index>>
<1>1. id[1] = NextHeight /\ id[2] = frame.index
  OBVIOUS
<1>2. id[2] \notin 0..(frame.index - 1)
  BY <1>1 DEF Sound, Place
<1> HIDE DEF id
<1>3. id \notin DOMAIN maps.entry
  BY <1>1, <1>2 DEF Tally, Position, InBlock
<1> QED BY <1>3 DEF id

LEMMA EtchesOne ==
  ASSUME Sound, Tally, NEW t \in Tx, pc = "etching", frame.tx = {t},
         NEW name, Distribute(t, {name}),
         name \notin DOMAIN maps.id_of,
         name \notin Rune => name = <<NextHeight, frame.index>>,
         IF name \in Rune THEN reserved' = reserved
         ELSE reserved' = Put(reserved, NextHeight, Latest(reserved, 0) + 1)
  PROVE  Tally'
<1>0. PICK h : h = NextHeight
  OBVIOUS
<1> DEFINE id == <<h, frame.index>>
           n == Latest(runes, 0)
           r == Latest(reserved, 0)
<1>1. InBlock /\ InBlock'
  BY DEF InBlock, Distribute
<1>2. RuneAdded(t, {id}, {name}, {t}, {h}, NewEntry(t, name), name)
  <2> DEFINE it == CHOOSE x \in {name} : TRUE
  <2>1. RuneAdded(t, {<<NextHeight, frame.index>> : x \in {name}}, {name},
                  {t : x \in {name}}, {NextHeight : x \in {name}}, NewEntry(t, it), it)
    BY <1>1, EtchesAre
  <2>2. it = name
    OBVIOUS
  <2> HIDE DEF it
  <2>3. /\ {<<NextHeight, frame.index>> : x \in {name}} = {id}
        /\ {t : x \in {name}} = {t} /\ {NextHeight : x \in {name}} = {h}
    BY <1>0
  <2> HIDE DEF id
  <2> QED BY <2>1, <2>2, <2>3, Zenon
<1>3. /\ h \in Nat /\ h \in DOMAIN mined /\ mined[h] \in Seq(Tx)
      /\ NextHeight' = h /\ Counting' = Counting /\ h \in Counting
      /\ DOMAIN runes = Counting /\ DOMAIN reserved = Counting
      /\ pc' = "tx" /\ UNCHANGED <<record, mined, base, orderly>>
  <2>1. record' = record /\ mined' = mined /\ base' = base /\ orderly' = orderly /\ pc' = "tx"
    BY <1>2 DEF RuneAdded
  <2>2. NextHeight' = h
    BY <1>0, <2>1 DEF NextHeight
  <2> QED BY <1>0, <1>1, <2>1, <2>2, InBlockFacts DEF Sound, Shape, Counting
<1>4. updater.runes = n /\ n \in Nat /\ r \in Nat
      /\ Tallied(maps, n, r)
      /\ frame.index = Len(mined[h]) - 1
      /\ frame.index \in Nat
      /\ \A i \in DOMAIN maps.entry : i[1] = h => i[2] \in 0..(frame.index - 1)
  BY <1>0, <1>1 DEF Tally, Tallied, Numbered, Position, Sound, Place
<1>5. id \notin DOMAIN maps.entry
  BY <1>0, NextIdIsNew
<1>6. t \notin DOMAIN maps.rune_of
  BY DEF Sound, MapsFit, Fits, DoneTx
<1>7. NewRune(maps, maps', id, name, t, n)
  <2>1. /\ NewEntry(t, name).rune = name /\ NewEntry(t, name).etching = t
        /\ NewEntry(t, name).number = n
    BY <1>4 DEF NewEntry
  <2>2. /\ Adds(maps'.entry, maps.entry, {id}, NewEntry(t, name))
        /\ Adds(maps'.id_of, maps.id_of, {name}, id)
        /\ Adds(maps'.rune_of, maps.rune_of, {t}, name)
    BY <1>0, <1>2 DEF RuneAdded
  <2>3. name \notin Rune => name = id
    BY <1>0
  <2> HIDE DEF id, n
  <2>4. /\ DOMAIN maps'.entry = DOMAIN maps.entry \cup {id}
        /\ maps'.entry[id] = NewEntry(t, name)
        /\ \A i \in DOMAIN maps.entry : maps'.entry[i] = maps.entry[i]
    BY <1>5, <2>2 DEF Adds
  <2>5. /\ DOMAIN maps'.id_of = DOMAIN maps.id_of \cup {name}
        /\ maps'.id_of[name] = id
        /\ \A x \in DOMAIN maps.id_of : maps'.id_of[x] = maps.id_of[x]
    BY <2>2 DEF Adds
  <2>6. /\ DOMAIN maps'.rune_of = DOMAIN maps.rune_of \cup {t}
        /\ maps'.rune_of[t] = name
        /\ \A u \in DOMAIN maps.rune_of : maps'.rune_of[u] = maps.rune_of[u]
    BY <1>6, <2>2 DEF Adds
  <2> QED BY <1>5, <1>6, <2>1, <2>3, <2>4, <2>5, <2>6 DEF NewRune
<1>8. Tallied(maps', n + 1, IF name \in Rune THEN r ELSE r + 1)
  <2> HIDE DEF id, n, r
  <2> QED BY <1>4, <1>7, NewRuneTallied
<1>9. DOMAIN runes' = Counting /\ Latest(runes', 0) = n + 1
  <2>1. Adds(runes', runes, {h}, n + 1)
    BY <1>2, <1>4 DEF RuneAdded
  <2> HIDE DEF n
  <2>2. DOMAIN runes' = Counting /\ runes'[h] = n + 1
    BY <1>3, <2>1 DEF Adds
  <2> QED BY <1>0, <1>1, <2>2, LatestInBlock
<1>10. Latest(reserved', 0) = IF name \in Rune THEN r ELSE r + 1
  <2>1. CASE name \in Rune
    BY <2>1
  <2>2. CASE name \notin Rune
    <3>1. DOMAIN reserved' = Counting /\ reserved'[h] = r + 1
      BY <1>0, <1>3, <2>2 DEF Put
    <3>2. Latest(reserved', 0) = reserved'[h]
      BY <1>0, <1>1, <3>1, LatestInBlock
    <3> QED BY <2>2, <3>1, <3>2
  <2> QED BY <2>1, <2>2
<1>11. Tallied(maps, Latest(runes, 0), Latest(reserved, 0))'
  <2> HIDE DEF n, r
  <2> QED BY <1>8, <1>9, <1>10, TalliedPrimed
<1>12. Position'
  <2>1. updater'.runes = n + 1
    <3>1. Cardinality({name}) = 1
      BY FS_Singleton
    <3> QED BY <1>2, <1>4, <3>1 DEF RuneAdded
  <2>2. ASSUME NEW i \in DOMAIN maps'.entry, i[1] = h
        PROVE  i[2] \in 0..(Len(mined[h]) - 1)
    <3>1. i = id \/ i \in DOMAIN maps.entry
      BY <1>7 DEF NewRune
    <3>2. CASE i = id
      <4>1. i[2] = frame.index
        BY <3>2
      <4>2. Len(mined[h]) \in Nat
        BY <1>3
      <4> QED BY <1>4, <4>1, <4>2
    <3>3. CASE i \in DOMAIN maps.entry
      <4>1. i[2] \in 0..(frame.index - 1)
        BY <1>4, <2>2, <3>3
      <4>2. Len(mined[h]) \in Nat
        BY <1>3
      <4> QED BY <1>4, <4>1, <4>2
    <3> QED BY <3>1, <3>2, <3>3
  <2> HIDE DEF n
  <2> QED BY <1>3, <1>9, <2>1, <2>2 DEF Position
<1>13. BasesTallied'
  BY <1>3 DEF Tally, BasesTallied
<1> QED BY <1>11, <1>12, <1>13 DEF Tally

LEMMA EndTally ==
  ASSUME Sound, Tally, NEW t \in Tx, TxEnds(t)
  PROVE  Tally'
<1>1. pc = "etching" /\ frame.tx = {t} /\ InBlock
  BY DEF TxEnds, InBlock
<1>2. updater.height = NextHeight /\ NextHeight \in FirstHeight..LastHeight
  BY <1>1, InBlockFacts
<1>3. CASE Distribute(t, {}) /\ UNCHANGED reserved
  BY <1>1, <1>3, EtchesNone
<1>4. CASE /\ Distribute(t, {<<updater.height, frame.index>>})
           /\ reserved' = Put(reserved, updater.height, Latest(reserved, 0) + 1)
  <2> DEFINE name == <<NextHeight, frame.index>>
  <2>1. frame.index \in 0..(BlockSize - 1)
    BY <1>1 DEF Sound, Place
  <2>2. name \in Id /\ name \notin Rune
    BY <1>2, <2>1, NameAssumption DEF Id
  <2>3. name \notin DOMAIN maps.entry
    BY <1>1, NextIdIsNew
  <2>4. name \notin DOMAIN maps.id_of
    <3> HIDE DEF name
    <3> QED BY <2>2, <2>3 DEF Tally, Tallied, Named
  <2>5. /\ Distribute(t, {name})
        /\ reserved' = Put(reserved, NextHeight, Latest(reserved, 0) + 1)
    BY <1>2, <1>4
  <2>6. name = <<NextHeight, frame.index>>
    OBVIOUS
  <2> HIDE DEF name
  <2> QED BY <1>1, <2>2, <2>4, <2>5, <2>6, EtchesOne
<1>5. CASE /\ Content[t].rune # {}
           /\ \A r \in Content[t].rune : Etchable(r)
           /\ Distribute(t, Content[t].rune)
           /\ UNCHANGED reserved
  <2>1. PICK name : name \in Content[t].rune
    BY <1>5
  <2>2. Content[t].rune = {name}
    BY <2>1, ContentAssumption
  <2>3. name \in Rune /\ name \notin DOMAIN maps.id_of
    BY <1>5, <2>1 DEF Etchable
  <2>4. Distribute(t, {name})
    BY <1>5, <2>2
  <2> QED BY <1>1, <1>5, <2>3, <2>4, EtchesOne
<1> QED BY <1>3, <1>4, <1>5 DEF TxEnds

LEMMA SameTally ==
  ASSUME Tally, UNCHANGED <<maps, runes, reserved, base>>,
         UNCHANGED vars \/ ~InBlock'
  PROVE  Tally'
<1>1. Tallied(maps, Latest(runes, 0), Latest(reserved, 0))'
  BY TalliedPrimed DEF Tally
<1>2. BasesTallied'
  BY DEF Tally, BasesTallied
<1>3. CASE ~InBlock'
  BY <1>1, <1>2, <1>3 DEF Tally, Position
<1>4. CASE UNCHANGED vars
  BY <1>1, <1>2, <1>4 DEF vars, Tally, Position, InBlock, NextHeight
<1> QED BY <1>3, <1>4

TallyInductive == orderly => Tally

(* The name maps and the statistics belong together after every step of an *)
(* orderly indexing, and in every state that a rollback can lead back to.  *)
THEOREM TallyInvariant == Spec => []TallyInductive
<1>1. Init => TallyInductive
  BY InitTally DEF TallyInductive
<1>2. LedgerInductive /\ TallyInductive /\ [Next]_vars => TallyInductive'
  <2> SUFFICES ASSUME LedgerInductive, TallyInductive, [Next]_vars, orderly'
               PROVE  Tally'
    BY DEF TallyInductive
  <2>1. CASE StartBlock
    <3>1. Sound /\ Tally
      BY <2>1 DEF StartBlock, LedgerInductive, TallyInductive
    <3> QED BY <2>1, <3>1, StartTally
  <2>2. ASSUME NEW t \in Tx, TxBegins(t)
        PROVE  Tally'
    <3>1. Sound /\ Tally
      BY <2>2 DEF TxBegins, LedgerInductive, TallyInductive
    <3> QED BY <2>2, <3>1, BeginTally
  <2>3. ASSUME NEW t \in Tx, TxEnds(t)
        PROVE  Tally'
    <3>1. Sound /\ Tally
      BY <2>3 DEF TxEnds, Distribute, LedgerInductive, TallyInductive
    <3> QED BY <2>3, <3>1, EndTally
  <2>4. ASSUME NEW t \in Tx, CommitFails(t)
        PROVE  Tally'
    <3>1. Tally /\ UNCHANGED <<maps, runes, reserved, base>> /\ ~InBlock'
      BY <2>4 DEF CommitFails, TallyInductive, InBlock
    <3> QED BY <3>1, SameTally
  <2>5. CASE FinishBlock
    <3>1. Sound /\ Tally
      BY <2>5 DEF FinishBlock, LedgerInductive, TallyInductive
    <3> QED BY <2>5, <3>1, FinishTally
  <2>6. CASE RollBack
    <3>1. Sound /\ Tally
      BY <2>6 DEF RollBack, LedgerInductive, TallyInductive
    <3> QED BY <2>6, <3>1, RollBackTally
  <2>7. CASE Restart
    BY <2>7 DEF Restart
  <2>8. CASE UNCHANGED vars
    <3>1. Tally /\ UNCHANGED <<maps, runes, reserved, base>>
      BY <2>8 DEF vars, TallyInductive
    <3> QED BY <2>8, <3>1, SameTally
  <2> QED BY <2>1, <2>2, <2>3, <2>4, <2>5, <2>6, <2>7, <2>8 DEF Next
<1> QED BY <1>1, <1>2, LedgerInvariant, PTL DEF Spec

(* A name always leads to one rune and back, whatever is etched and rolled *)
(* back (index.rs:356-365, main.rs:23-90).                                 *)
THEOREM NamesAlwaysResolve == Spec => []NamesResolve
<1>1. TallyInductive => NamesResolve
  <2> SUFFICES ASSUME TallyInductive, orderly
               PROVE  /\ \A id \in DOMAIN maps.entry :
                           LET e == maps.entry[id]
                           IN /\ e.rune \in DOMAIN maps.id_of
                              /\ maps.id_of[e.rune] = id
                              /\ e.etching \in DOMAIN maps.rune_of
                              /\ maps.rune_of[e.etching] = e.rune
                      /\ Cardinality(DOMAIN maps.id_of) = Cardinality(DOMAIN maps.entry)
                      /\ Cardinality(DOMAIN maps.rune_of) = Cardinality(DOMAIN maps.entry)
    BY DEF NamesResolve
  <2>1. Named(maps) /\ Numbered(maps, Latest(runes, 0), Latest(reserved, 0))
    BY DEF TallyInductive, Tally, Tallied
  <2> QED BY <2>1 DEF Named, Numbered, Has
<1> QED BY <1>1, TallyInvariant, PTL

(* Numbers are never skipped, doubled or left behind by a rollback, and    *)
(* the statistics agree with them (rune_updater.rs:255-258, 348-350;       *)
(* reorg.rs:153-154).                                                      *)
THEOREM NumbersStayConsecutive == Spec => []NumbersConsecutive
<1>1. TallyInductive => NumbersConsecutive
  <2> SUFFICES ASSUME TallyInductive, orderly
               PROVE  LET n == Cardinality(DOMAIN maps.entry)
                      IN /\ {maps.entry[id].number : id \in DOMAIN maps.entry} = 0..(n - 1)
                         /\ Latest(runes, 0) = n
                         /\ Latest(reserved, 0) =
                              Cardinality({id \in DOMAIN maps.entry :
                                             maps.entry[id].rune \notin Rune})
    BY DEF NumbersConsecutive
  <2>1. Numbered(maps, Latest(runes, 0), Latest(reserved, 0))
    BY DEF TallyInductive, Tally, Tallied
  <2> QED BY <2>1 DEF Numbered, Has, Numbers, Unchosen
<1> QED BY <1>1, TallyInvariant, PTL

-----------------------------------------------------------------------------
(* The mints of a rune among the transactions of the blocks H.             *)
Minting(f, H, id, terms) ==
  {at \in UNION {{h} \X DOMAIN f[h] : h \in H} :
     /\ id \in Content[f[at[1]][at[2]]].mint
     /\ at[1] > id[1] \/ (at[1] = id[1] /\ at[2] - 1 > id[2])
     /\ \A s \in Starts(id, terms) : s <= at[1]
     /\ \A e \in Ends(id, terms) : at[1] <= e - 1}

GoodTerms(x) ==
  /\ x.cap \in Nat
  /\ x.start_offset \cup x.start_height \subseteq Nat
  /\ x.end_offset \cup x.end_height \subseteq Nat

(* The count of an entry, if f holds the transactions of the blocks H.     *)
Capped(n, cap) == IF n < cap THEN n ELSE cap

CountIs(entry, f, H, id) ==
  /\ \A x, y \in entry.terms : x = y
  /\ \A x \in entry.terms : GoodTerms(x)
  /\ entry.terms = {} => entry.mints = 0
  /\ \A x \in entry.terms : \E n \in Nat :
       Has(Minting(f, H, id, x), n) /\ entry.mints = Capped(n, x.cap)

MintsCounted(m, f, H) == \A id \in DOMAIN m.entry : CountIs(m.entry[id], f, H, id)

Lower(g) == {f \in DOMAIN mined : f < g}

Minted ==
  /\ MintsCounted(maps, mined, DOMAIN mined)
  /\ \A g \in DOMAIN base : MintsCounted(base[g].maps, mined, Lower(g))

LEMMA SameCounts ==
  ASSUME NEW m, NEW f, NEW k, NEW H, NEW K, MintsCounted(m, f, H),
         \A id, x : Minting(k, K, id, x) = Minting(f, H, id, x)
  PROVE  MintsCounted(m, k, K)
BY DEF MintsCounted, CountIs

(* Only the blocks H matter.                                               *)
LEMMA SameMinting ==
  ASSUME NEW f, NEW k, NEW H, \A h \in H : k[h] = f[h], NEW id, NEW terms
  PROVE  Minting(k, H, id, terms) = Minting(f, H, id, terms)
<1>1. UNION {{h} \X DOMAIN k[h] : h \in H} = UNION {{h} \X DOMAIN f[h] : h \in H}
  OBVIOUS
<1>2. \A at \in UNION {{h} \X DOMAIN f[h] : h \in H} : k[at[1]] = f[at[1]]
  OBVIOUS
<1> QED BY <1>1, <1>2 DEF Minting

LEMMA SameMintsCounted ==
  ASSUME NEW m, NEW f, NEW k, NEW H, \A h \in H : k[h] = f[h],
         MintsCounted(m, f, H)
  PROVE  MintsCounted(m, k, H)
<1>1. \A id, terms : Minting(k, H, id, terms) = Minting(f, H, id, terms)
  BY SameMinting
<1> QED BY <1>1, SameCounts

(* A block without transactions has no mints.                              *)
LEMMA EmptyBlockMints ==
  ASSUME NEW m, NEW f, NEW H, NEW h, f[h] = << >>, MintsCounted(m, f, H),
         NEW K, K = H \cup {h}
  PROVE  MintsCounted(m, f, K)
<1>1. DOMAIN f[h] = {}
  OBVIOUS
<1>2. UNION {{g} \X DOMAIN f[g] : g \in K} = UNION {{g} \X DOMAIN f[g] : g \in H}
  BY <1>1
<1>3. \A id, terms : Minting(f, K, id, terms) = Minting(f, H, id, terms)
  BY <1>2 DEF Minting
<1> QED BY <1>3, SameCounts

(* One transaction more, at the end of the block h.                        *)
MintsAt(t, h, i, id, terms) ==
  /\ id \in Content[t].mint
  /\ h > id[1] \/ (h = id[1] /\ i - 1 > id[2])
  /\ \A s \in Starts(id, terms) : s <= h
  /\ \A e \in Ends(id, terms) : h <= e - 1

OneMore(f, k, H, h, i, t) ==
  /\ h \in H
  /\ f[h] \in Seq(Tx)
  /\ t \in Tx
  /\ i = Len(f[h]) + 1
  /\ \A g \in H : k[g] = IF g = h THEN Append(f[h], t) ELSE f[g]

LEMMA AppendMints ==
  ASSUME NEW f, NEW k, NEW H, NEW h, NEW i, NEW t, OneMore(f, k, H, h, i, t),
         NEW id, NEW terms
  PROVE  /\ <<h, i>> \notin Minting(f, H, id, terms)
         /\ MintsAt(t, h, i, id, terms) =>
              Minting(k, H, id, terms) = Minting(f, H, id, terms) \cup {<<h, i>>}
         /\ ~MintsAt(t, h, i, id, terms) =>
              Minting(k, H, id, terms) = Minting(f, H, id, terms)
<1> DEFINE last == <<h, i>>
           old == UNION {{g} \X DOMAIN f[g] : g \in H}
           all == UNION {{g} \X DOMAIN k[g] : g \in H}
<1>1. /\ DOMAIN f[h] = 1..Len(f[h]) /\ Len(f[h]) \in Nat
      /\ k[h] = Append(f[h], t)
  <2>1. k[h] = Append(f[h], t)
    BY DEF OneMore
  <2>2. \A s \in Seq(Tx) : DOMAIN s = 1..Len(s) /\ Len(s) \in Nat
    OBVIOUS
  <2> QED BY <2>1, <2>2 DEF OneMore
<1>2. /\ DOMAIN k[h] = 1..(Len(f[h]) + 1)
      /\ k[h][Len(f[h]) + 1] = t
      /\ \A n \in DOMAIN f[h] : k[h][n] = f[h][n]
  BY <1>1 DEF OneMore
<1>3. DOMAIN k[h] = DOMAIN f[h] \cup {i} /\ i \notin DOMAIN f[h] /\ k[h][i] = t
  BY <1>1, <1>2 DEF OneMore
<1>4. h \in H /\ \A g \in H : g # h => k[g] = f[g]
  BY DEF OneMore
<1>5. last \notin old
  BY <1>3
<1>6. all = old \cup {last}
  <2>1. \A g \in H : {g} \X DOMAIN k[g] =
          IF g = h THEN ({g} \X DOMAIN f[g]) \cup {last} ELSE {g} \X DOMAIN f[g]
    BY <1>3, <1>4
  <2> QED BY <1>4, <2>1
<1>7. \A at \in old : k[at[1]][at[2]] = f[at[1]][at[2]]
  BY <1>2, <1>4
<1>8. last[1] = h /\ last[2] = i /\ k[last[1]][last[2]] = t
  BY <1>3
<1> HIDE DEF last, old, all
<1>9. ASSUME NEW at
      PROVE  at \in Minting(k, H, id, terms) <=>
               \/ at \in Minting(f, H, id, terms)
               \/ at = last /\ MintsAt(t, h, i, id, terms)
  <2>1. CASE at \in old
    BY <1>5, <1>6, <1>7, <2>1 DEF Minting, old, all
  <2>2. CASE at = last
    BY <1>5, <1>6, <1>8, <2>2 DEF Minting, MintsAt, old, all
  <2>3. CASE at \notin all
    BY <1>6, <2>3 DEF Minting, old, all
  <2> QED BY <1>6, <2>1, <2>2, <2>3
<1>10. last \notin Minting(f, H, id, terms)
  BY <1>5 DEF Minting, old
<1>11. MintsAt(t, h, i, id, terms) =>
         Minting(k, H, id, terms) = Minting(f, H, id, terms) \cup {last}
  BY <1>9
<1>12. ~MintsAt(t, h, i, id, terms) => Minting(k, H, id, terms) = Minting(f, H, id, terms)
  BY <1>9
<1> QED BY <1>10, <1>11, <1>12 DEF last

LEMMA CappedFacts ==
  ASSUME NEW n \in Nat, NEW cap \in Nat
  PROVE  /\ Capped(n, cap) \in Nat
         /\ Capped(n, cap) < cap => Capped(n + 1, cap) = Capped(n, cap) + 1
         /\ ~(Capped(n, cap) < cap) => Capped(n + 1, cap) = Capped(n, cap)
BY DEF Capped

LEMMA InitMinted == Init => Minted
<1> SUFFICES ASSUME Init PROVE Minted
  OBVIOUS
<1>1. DOMAIN maps.entry = {} /\ DOMAIN base = {}
  BY DEF Init, EmptyMaps
<1> QED BY <1>1 DEF Minted, MintsCounted

LEMMA StartMinted ==
  ASSUME Sound, Minted, StartBlock
  PROVE  Minted'
<1>0. PICK h : h = NextHeight
  OBVIOUS
<1>1. /\ base' = Put(base, h, Snapshot) /\ mined' = Put(mined, h, << >>) /\ maps' = maps
  BY <1>0 DEF StartBlock
<1>2. /\ DOMAIN base = DOMAIN mined
      /\ \A g \in DOMAIN mined : g \in Nat /\ g < h
      /\ h \in Nat
  <2>1. ~InBlock /\ Window /\ DOMAIN base = DOMAIN mined
    BY DEF StartBlock, InBlock, Sound, Shape
  <2> QED BY <1>0, <2>1, WindowFacts DEF Sound, Shape
<1>3. /\ DOMAIN mined' = DOMAIN mined \cup {h} /\ mined'[h] = << >>
      /\ \A g \in DOMAIN mined : mined'[g] = mined[g]
      /\ DOMAIN base' = DOMAIN base \cup {h} /\ base'[h].maps = maps
      /\ \A g \in DOMAIN base : base'[g] = base[g]
  BY <1>1, <1>2 DEF Put, Snapshot
<1>4. MintsCounted(maps, mined', DOMAIN mined)
  BY <1>3, SameMintsCounted DEF Minted
<1>5. MintsCounted(maps', mined', DOMAIN mined')
  BY <1>1, <1>3, <1>4, EmptyBlockMints
<1>6. ASSUME NEW g \in DOMAIN base'
      PROVE  MintsCounted(base'[g].maps, mined', Lower(g)')
  <2>1. CASE g = h
    <3>1. Lower(h)' = DOMAIN mined
      <4>1. \A f : f \in DOMAIN mined' /\ f < h <=> f \in DOMAIN mined
        BY <1>2, <1>3
      <4> QED BY <4>1 DEF Lower
    <3> QED BY <1>3, <1>4, <2>1, <3>1
  <2>2. CASE g \in DOMAIN base
    <3>1. Lower(g)' = Lower(g)
      BY <1>2, <1>3, <2>2 DEF Lower
    <3>2. \A f \in Lower(g) : mined'[f] = mined[f]
      BY <1>3 DEF Lower
    <3> QED BY <1>3, <2>2, <3>1, <3>2, SameMintsCounted DEF Minted
  <2> QED BY <1>3, <2>1, <2>2
<1> QED BY <1>5, <1>6 DEF Minted, MintsCounted

(* A transaction that mints a rune inside its terms is counted, until the  *)
(* cap is reached.                                                         *)
LEMMA WindowIsMintable ==
  ASSUME NEW h \in Nat, NEW id, id[1] \in Nat, NEW entry, NEW x \in entry.terms,
         \A y \in entry.terms : x = y, GoodTerms(x)
  PROVE  Mintable(id, entry, h) <=>
           /\ \A s \in Starts(id, x) : s <= h
           /\ \A e \in Ends(id, x) : h <= e - 1
           /\ entry.mints < x.cap
<1>1. Starts(id, x) \subseteq Nat /\ Ends(id, x) \subseteq Nat
  BY DEF Starts, Ends, GoodTerms
<1>2. \A s \in Nat : h >= s <=> s <= h
  OBVIOUS
<1>3. \A e \in Nat : h < e <=> h <= e - 1
  OBVIOUS
<1>4. Mintable(id, entry, h) <=>
        /\ \A s \in Starts(id, x) : h >= s
        /\ \A e \in Ends(id, x) : h < e
        /\ entry.mints < x.cap
  BY DEF Mintable
<1> QED BY <1>1, <1>2, <1>3, <1>4

LEMMA BeginMinted ==
  ASSUME Sound, Tally, Minted, NEW t \in Tx, TxBegins(t)
  PROVE  Minted'
<1>0. PICK h : h = NextHeight
  OBVIOUS
<1>i. PICK i : i = Len(mined[h]) + 1
  OBVIOUS
<1> DEFINE minted == {id \in Content[t].mint \cap DOMAIN maps.entry :
                        Mintable(id, maps.entry[id], h)}
<1>1. /\ pc = "tx" /\ InBlock /\ base' = base
      /\ mined' = [mined EXCEPT ![h] = Append(mined[h], t)]
      /\ updater.height = h
  BY <1>0 DEF TxBegins, InBlock, Sound, Shape
<1>2. /\ h \in Nat /\ h \in DOMAIN mined
      /\ \A g \in DOMAIN mined : g \in Nat /\ g <= h /\ mined[g] \in Seq(Tx)
      /\ DOMAIN base = DOMAIN mined
      /\ Fits(maps, DoneTx, h + 1)
  BY <1>0, <1>1, InBlockFacts DEF Sound, Shape, MapsFit
<1>3. /\ DOMAIN mined' = DOMAIN mined
      /\ \A g \in DOMAIN mined : mined'[g] = IF g = h THEN Append(mined[h], t) ELSE mined[g]
  BY <1>1, <1>2
<1>4. /\ DOMAIN maps'.entry = DOMAIN maps.entry
      /\ \A id \in DOMAIN maps.entry :
           maps'.entry[id] = IF id \in minted THEN OnceMoreMinted(maps.entry[id])
                                              ELSE maps.entry[id]
  <2>1. maps'.entry = PutAll(maps.entry, [id \in minted |-> OnceMoreMinted(maps.entry[id])])
    <3>1. IsMaps(maps)
      BY DEF Sound, MapsFit
    <3> QED BY <1>1, <3>1 DEF TxBegins, IsMaps
  <2>2. minted \subseteq DOMAIN maps.entry
    OBVIOUS
  <2> HIDE DEF minted
  <2> QED BY <2>1, <2>2 DEF PutAll
<1>5. ASSUME NEW id \in DOMAIN maps.entry
      PROVE  CountIs(maps'.entry[id], mined', DOMAIN mined, id)
  <2> DEFINE entry == maps.entry[id]
  <2>1. CountIs(entry, mined, DOMAIN mined, id) /\ IsEntry(entry)
    BY DEF Minted, MintsCounted, Sound, MapsFit, IsMaps
  <2>2. id[1] \in Nat /\ id[1] <= h
        /\ (id[1] = h => id[2] \in 0..(Len(mined[h]) - 1))
    BY <1>0, <1>1, <1>2 DEF Fits, Tally, Position
  <2>3. OnceMoreMinted(entry) = Counted(entry, entry.mints + 1, entry.burned)
    BY <2>1, EntryFacts DEF OnceMoreMinted, WithMints
  <2>4. /\ maps'.entry[id].terms = entry.terms
        /\ maps'.entry[id].mints = IF id \in minted THEN entry.mints + 1 ELSE entry.mints
    <3> HIDE DEF minted
    <3>1. CASE id \in minted
      <4>1. maps'.entry[id] = Counted(entry, entry.mints + 1, entry.burned)
        BY <1>4, <2>3, <3>1
      <4> HIDE DEF entry
      <4> QED BY <3>1, <4>1 DEF Counted
    <3>2. CASE id \notin minted
      BY <1>4, <3>2
    <3> QED BY <3>1, <3>2
  <2>5. id \in minted <=> id \in Content[t].mint /\ Mintable(id, entry, h)
    OBVIOUS
  <2> HIDE DEF entry, minted
  <2>6. entry.terms = {} => maps'.entry[id].mints = 0
    <3>1. entry.terms = {} => ~Mintable(id, entry, h)
      BY DEF Mintable
    <3> QED BY <2>1, <2>4, <2>5, <3>1 DEF CountIs
  <2>7. ASSUME NEW x \in entry.terms
        PROVE  \E n \in Nat : Has(Minting(mined', DOMAIN mined, id, x), n)
                              /\ maps'.entry[id].mints = Capped(n, x.cap)
    <3>1. PICK n \in Nat : /\ Has(Minting(mined, DOMAIN mined, id, x), n)
                           /\ entry.mints = Capped(n, x.cap)
      BY <2>1 DEF CountIs
    <3>2. GoodTerms(x) /\ x.cap \in Nat /\ \A y \in entry.terms : x = y
      BY <2>1 DEF CountIs, GoodTerms
    <3>3. /\ <<h, i>> \notin Minting(mined, DOMAIN mined, id, x)
          /\ MintsAt(t, h, i, id, x) =>
               Minting(mined', DOMAIN mined, id, x) =
                 Minting(mined, DOMAIN mined, id, x) \cup {<<h, i>>}
          /\ ~MintsAt(t, h, i, id, x) =>
               Minting(mined', DOMAIN mined, id, x) = Minting(mined, DOMAIN mined, id, x)
      <4>1. OneMore(mined, mined', DOMAIN mined, h, i, t)
        BY <1>i, <1>2, <1>3 DEF OneMore
      <4> QED BY <4>1, AppendMints
    <3>4. MintsAt(t, h, i, id, x) <=>
            /\ id \in Content[t].mint
            /\ \A s \in Starts(id, x) : s <= h
            /\ \A e \in Ends(id, x) : h <= e - 1
      <4>1. h > id[1] \/ (h = id[1] /\ i - 1 > id[2])
        <5>1. Len(mined[h]) \in Nat
          BY <1>2
        <5> QED BY <1>i, <1>2, <2>2, <5>1
      <4> QED BY <4>1 DEF MintsAt
    <3>5. Mintable(id, entry, h) <=>
            /\ \A s \in Starts(id, x) : s <= h
            /\ \A e \in Ends(id, x) : h <= e - 1
            /\ entry.mints < x.cap
      BY <1>2, <2>2, <3>2, WindowIsMintable
    <3>6. id \in minted <=> /\ MintsAt(t, h, i, id, x)
                            /\ Capped(n, x.cap) < x.cap
      BY <2>5, <3>1, <3>4, <3>5
    <3>7. CASE MintsAt(t, h, i, id, x)
      <4>1. Has(Minting(mined', DOMAIN mined, id, x), n + 1)
        BY <3>1, <3>3, <3>7, HasOneMore
      <4>2. maps'.entry[id].mints = Capped(n + 1, x.cap)
        <5>1. /\ Capped(n, x.cap) < x.cap => Capped(n + 1, x.cap) = Capped(n, x.cap) + 1
              /\ ~(Capped(n, x.cap) < x.cap) => Capped(n + 1, x.cap) = Capped(n, x.cap)
          BY <3>2, CappedFacts
        <5>2. id \in minted <=> Capped(n, x.cap) < x.cap
          BY <3>6, <3>7
        <5> QED BY <2>4, <3>1, <5>1, <5>2
      <4>3. n + 1 \in Nat
        OBVIOUS
      <4> QED BY <4>1, <4>2, <4>3
    <3>8. CASE ~MintsAt(t, h, i, id, x)
      BY <2>4, <3>1, <3>3, <3>6, <3>8
    <3> QED BY <3>7, <3>8
  <2> QED BY <2>1, <2>4, <2>6, <2>7 DEF CountIs
<1>6. MintsCounted(maps', mined', DOMAIN mined')
  BY <1>3, <1>4, <1>5 DEF MintsCounted
<1>7. ASSUME NEW g \in DOMAIN base
      PROVE  MintsCounted(base[g].maps, mined', Lower(g)')
  <2>1. Lower(g)' = Lower(g)
    BY <1>3 DEF Lower
  <2>2. \A f \in Lower(g) : mined'[f] = mined[f]
    <3>1. g \in Nat /\ g <= h
      BY <1>2
    <3>2. ~(h < g)
      BY <1>2, <3>1
    <3> QED BY <1>3, <3>2 DEF Lower
  <2> QED BY <2>1, <2>2, SameMintsCounted DEF Minted
<1> QED BY <1>1, <1>6, <1>7 DEF Minted, MintsCounted

(* A rune that has just been etched has no mints.                          *)
LEMMA NewRuneUnminted ==
  ASSUME Sound, NEW t \in Tx, NEW name, NEW h \in Nat,
         h \in DOMAIN mined, mined[h] \in Seq(Tx),
         \A g \in DOMAIN mined : g \in Nat /\ g <= h,
         NEW id, id[1] = h, id[2] = Len(mined[h]) - 1
  PROVE  CountIs(NewEntry(t, name), mined, DOMAIN mined, id)
<1> DEFINE entry == NewEntry(t, name)
<1>1. entry.mints = 0 /\ (entry.terms = {} \/ entry.terms = Content[t].terms)
  BY DEF NewEntry
<1> HIDE DEF entry
<1>2. \A x, y \in entry.terms : x = y
  BY <1>1, ContentAssumption
<1>3. \A x \in entry.terms : GoodTerms(x)
  BY <1>1, ContentAssumption DEF GoodTerms
<1>4. ASSUME NEW x \in entry.terms
      PROVE  \E n \in Nat : Has(Minting(mined, DOMAIN mined, id, x), n)
                            /\ entry.mints = Capped(n, x.cap)
  <2>1. Minting(mined, DOMAIN mined, id, x) = {}
    <3> SUFFICES ASSUME NEW g \in DOMAIN mined, NEW i \in DOMAIN mined[g],
                        g > id[1] \/ (g = id[1] /\ i - 1 > id[2])
                 PROVE  FALSE
      BY DEF Minting
    <3>1. g <= h /\ g \in Nat
      OBVIOUS
    <3>2. g = h /\ i - 1 > Len(mined[h]) - 1
      BY <3>1
    <3>3. DOMAIN mined[h] = 1..Len(mined[h]) /\ Len(mined[h]) \in Nat
      OBVIOUS
    <3> QED BY <3>2, <3>3
  <2>2. Has({}, 0)
    BY FS_EmptySet DEF Has
  <2>3. Capped(0, x.cap) = 0
    BY <1>3 DEF Capped, GoodTerms
  <2>4. Has(Minting(mined, DOMAIN mined, id, x), 0)
    BY <2>1, <2>2
  <2>5. entry.mints = Capped(0, x.cap) /\ 0 \in Nat
    BY <1>1, <2>3
  <2> QED BY <2>4, <2>5
<1>5. CountIs(entry, mined, DOMAIN mined, id)
  BY <1>1, <1>2, <1>3, <1>4 DEF CountIs
<1> QED BY <1>5 DEF entry

LEMMA EndMinted ==
  ASSUME Sound, Tally, Minted, NEW t \in Tx, TxEnds(t)
  PROVE  Minted'
<1>0. PICK h : h = NextHeight
  OBVIOUS
<1> DEFINE id == <<h, frame.index>>
<1>1. InBlock /\ pc = "etching"
  BY DEF TxEnds, InBlock
<1>2. PICK names : Distribute(t, names)
  BY DEF TxEnds
<1>3. UNCHANGED <<mined, base>>
  BY <1>2 DEF Distribute
<1>4. \E n : Adds(maps'.entry, maps.entry, {id : x \in names}, NewEntry(t, n))
  <2> DEFINE it == CHOOSE x \in names : TRUE
  <2>1. RuneAdded(t, {<<NextHeight, frame.index>> : x \in names}, names,
                  {t : x \in names}, {NextHeight : x \in names}, NewEntry(t, it), it)
    BY <1>1, <1>2, EtchesAre
  <2> HIDE DEF it
  <2>2. Adds(maps'.entry, maps.entry, {<<NextHeight, frame.index>> : x \in names},
             NewEntry(t, it))
    BY <2>1 DEF RuneAdded
  <2>3. Adds(maps'.entry, maps.entry, {id : x \in names}, NewEntry(t, it))
    BY <1>0, <2>2
  <2> QED BY <2>3
<1>5. /\ h \in Nat /\ h \in DOMAIN mined /\ mined[h] \in Seq(Tx)
      /\ \A g \in DOMAIN mined : g \in Nat /\ g <= h
  BY <1>0, <1>1, InBlockFacts
<1>6. id[1] = h /\ id[2] = Len(mined[h]) - 1
  BY <1>0, <1>1 DEF Tally, Position
<1>7. \A i \in {id : x \in names} : i = id
  OBVIOUS
<1> HIDE DEF id
<1>8. \A n : CountIs(NewEntry(t, n), mined, DOMAIN mined, id)
  BY <1>5, <1>6, NewRuneUnminted
<1>9. \A i \in DOMAIN maps'.entry :
        \/ i = id /\ \E n : maps'.entry[i] = NewEntry(t, n)
        \/ i \in DOMAIN maps.entry /\ maps'.entry[i] = maps.entry[i]
  BY <1>4, <1>7 DEF Adds
<1>10. \A i \in DOMAIN maps'.entry : CountIs(maps'.entry[i], mined, DOMAIN mined, i)
  BY <1>8, <1>9 DEF Minted, MintsCounted
<1>11. MintsCounted(maps', mined, DOMAIN mined)
  BY <1>10 DEF MintsCounted
<1>12. \A g \in DOMAIN base : MintsCounted(base[g].maps, mined, Lower(g))
  BY DEF Minted
<1>13. \A g \in DOMAIN base : Lower(g)' = Lower(g)
  BY <1>3 DEF Lower
<1> QED BY <1>3, <1>11, <1>12, <1>13 DEF Minted, MintsCounted

LEMMA FinishMinted ==
  ASSUME Sound, Minted, FinishBlock
  PROVE  Minted'
<1> DEFINE ids == DOMAIN updater.burned
           new == [id \in ids |-> OnceBurned(maps.entry[id], updater.burned[id])]
<1>1. /\ ids \subseteq DOMAIN maps.entry
      /\ maps' = [maps EXCEPT !.entry = PutAll(maps.entry, new)]
      /\ UNCHANGED <<mined, base>>
  BY DEF FinishBlock
<1>2. IsMaps(maps)
  BY DEF Sound, MapsFit
<1>3. maps'.entry = PutAll(maps.entry, new)
  BY <1>1, <1>2 DEF IsMaps
<1>4. IsUnion(maps'.entry, maps.entry, new)
  BY <1>3, PutAllFacts
<1>5. DOMAIN new = ids /\ \A id \in ids : \E y : new[id] = WithBurned(maps.entry[id], y)
  BY DEF OnceBurned, WithBurned
<1> HIDE DEF ids, new
<1>6. ASSUME NEW id \in DOMAIN maps'.entry
      PROVE  CountIs(maps'.entry[id], mined, DOMAIN mined, id)
  <2>1. id \in DOMAIN maps.entry
    BY <1>1, <1>4, <1>5 DEF IsUnion
  <2>2. CountIs(maps.entry[id], mined, DOMAIN mined, id)
    BY <2>1 DEF Minted, MintsCounted
  <2>3. maps'.entry[id].terms = maps.entry[id].terms
        /\ maps'.entry[id].mints = maps.entry[id].mints
    <3>1. CASE id \in ids
      <4>1. PICK y : maps'.entry[id] = WithBurned(maps.entry[id], y)
        BY <1>4, <1>5, <3>1 DEF IsUnion
      <4>2. WithBurned(maps.entry[id], y) = Counted(maps.entry[id], maps.entry[id].mints, y)
        BY <1>2, <2>1, EntryFacts DEF IsMaps
      <4> QED BY <4>1, <4>2 DEF Counted
    <3>2. CASE id \notin ids
      BY <1>4, <1>5, <2>1, <3>2 DEF IsUnion
    <3> QED BY <3>1, <3>2
  <2> QED BY <2>2, <2>3 DEF CountIs
<1>7. MintsCounted(maps', mined, DOMAIN mined)
  BY <1>6 DEF MintsCounted
<1>8. \A g \in DOMAIN base : Lower(g)' = Lower(g)
  BY <1>1 DEF Lower
<1> QED BY <1>1, <1>7, <1>8 DEF Minted, MintsCounted

LEMMA RollBackMinted ==
  ASSUME Sound, Minted, RollBack
  PROVE  Minted'
<1>0. PICK h : h = Max(DOMAIN record)
  OBVIOUS
<1>1. /\ h \in Nat /\ h \in DOMAIN base /\ NextHeight = h + 1
      /\ maps' = base[h].maps
      /\ mined' = Without(mined, {h})
      /\ base' = Without(base, {h})
      /\ pc = "idle"
  BY <1>0, RollBackFacts
<1>2. /\ DOMAIN base = DOMAIN mined
      /\ \A g \in DOMAIN mined : g \in Nat /\ g < h + 1
  BY <1>1 DEF Sound, Shape, InBlock
<1>3. /\ DOMAIN mined' = DOMAIN mined \ {h}
      /\ \A g \in DOMAIN mined' : mined'[g] = mined[g]
      /\ DOMAIN base' = DOMAIN base \ {h}
      /\ \A g \in DOMAIN base' : base'[g] = base[g]
  BY <1>1 DEF Without
<1>4. DOMAIN mined' = Lower(h)
  <2>1. \A g : g \in DOMAIN mined' <=> g \in DOMAIN mined /\ g < h
    BY <1>1, <1>2, <1>3
  <2> QED BY <2>1 DEF Lower
<1>5. MintsCounted(maps', mined', DOMAIN mined')
  <2>1. MintsCounted(base[h].maps, mined, Lower(h))
    BY <1>1 DEF Minted
  <2>2. \A g \in Lower(h) : mined'[g] = mined[g]
    BY <1>3, <1>4
  <2>3. MintsCounted(base[h].maps, mined', Lower(h))
    BY <2>1, <2>2, SameMintsCounted
  <2> QED BY <1>1, <1>4, <2>3
<1>6. ASSUME NEW g \in DOMAIN base'
      PROVE  MintsCounted(base'[g].maps, mined', Lower(g)')
  <2>1. g \in DOMAIN base /\ g \in Nat /\ g < h /\ base'[g] = base[g]
    <3>1. g \in DOMAIN base /\ g # h /\ base'[g] = base[g]
      BY <1>3
    <3>2. g \in Nat /\ g < h + 1
      BY <1>2, <3>1
    <3>3. g < h
      BY <1>1, <3>1, <3>2
    <3> QED BY <3>1, <3>2, <3>3
  <2>2. Lower(g)' = Lower(g)
    <3>1. \A f : f \in DOMAIN mined' /\ f < g <=> f \in DOMAIN mined /\ f < g
      BY <1>1, <1>3, <2>1
    <3> QED BY <3>1 DEF Lower
  <2>3. \A f \in Lower(g) : mined'[f] = mined[f]
    <3>1. Lower(g) \subseteq DOMAIN mined'
      BY <2>2 DEF Lower
    <3> QED BY <1>3, <3>1
  <2> QED BY <2>1, <2>2, <2>3, SameMintsCounted DEF Minted
<1> QED BY <1>5, <1>6 DEF Minted, MintsCounted

MintedInductive == orderly => Minted

(* The counts of the entries, and those of the maps that a rollback leads  *)
(* back to, are those of the indexed chain.                                *)
THEOREM MintedInvariant == Spec => []MintedInductive
<1>1. Init => MintedInductive
  BY InitMinted DEF MintedInductive
<1>2. LedgerInductive /\ TallyInductive /\ MintedInductive /\ [Next]_vars => MintedInductive'
  <2> SUFFICES ASSUME LedgerInductive, TallyInductive, MintedInductive, [Next]_vars, orderly'
               PROVE  Minted'
    BY DEF MintedInductive
  <2> USE DEF LedgerInductive, TallyInductive, MintedInductive
  <2>1. CASE StartBlock
    <3>1. Sound /\ Minted
      BY <2>1 DEF StartBlock
    <3> QED BY <2>1, <3>1, StartMinted
  <2>2. ASSUME NEW t \in Tx, TxBegins(t)
        PROVE  Minted'
    <3>1. Sound /\ Tally /\ Minted
      BY <2>2 DEF TxBegins
    <3> QED BY <2>2, <3>1, BeginMinted
  <2>3. ASSUME NEW t \in Tx, TxEnds(t)
        PROVE  Minted'
    <3>1. Sound /\ Tally /\ Minted
      BY <2>3 DEF TxEnds, Distribute
    <3> QED BY <2>3, <3>1, EndMinted
  <2>4. ASSUME NEW t \in Tx, CommitFails(t)
        PROVE  Minted'
    <3>1. Minted /\ UNCHANGED <<maps, mined, base>>
      BY <2>4 DEF CommitFails
    <3> QED BY <3>1 DEF Minted, MintsCounted, Lower
  <2>5. CASE FinishBlock
    <3>1. Sound /\ Minted
      BY <2>5 DEF FinishBlock
    <3> QED BY <2>5, <3>1, FinishMinted
  <2>6. CASE RollBack
    <3>1. Sound /\ Minted
      BY <2>6 DEF RollBack
    <3> QED BY <2>6, <3>1, RollBackMinted
  <2>7. CASE Restart
    BY <2>7 DEF Restart
  <2>8. CASE UNCHANGED vars
    <3>1. Minted /\ UNCHANGED <<maps, mined, base>>
      BY <2>8 DEF vars
    <3> QED BY <3>1 DEF Minted, MintsCounted, Lower
  <2> QED BY <2>1, <2>2, <2>3, <2>4, <2>5, <2>6, <2>7, <2>8 DEF Next
<1> QED BY <1>1, <1>2, LedgerInvariant, TallyInvariant, PTL DEF Spec

(* No mint is lost, counted twice or accepted outside the terms or beyond  *)
(* the cap, whatever was rolled back and mined again in another order      *)
(* (rune_updater.rs:364-382, entry.rs:81-105, reorg.rs:131-141).           *)
THEOREM MintsStayOfChain == Spec => []MintsAreOfChain
<1>1. MintedInductive => MintsAreOfChain
  <2> SUFFICES ASSUME MintedInductive, orderly, NEW id \in DOMAIN maps.entry
               PROVE  maps.entry[id].mints =
                        IF maps.entry[id].terms = {} THEN 0
                        ELSE LET terms == CHOOSE x \in maps.entry[id].terms : TRUE
                             IN Min({terms.cap, Cardinality(MintsOf(id, terms))})
    BY DEF MintsAreOfChain
  <2> DEFINE entry == maps.entry[id]
             x == CHOOSE y \in entry.terms : TRUE
  <2>1. CountIs(entry, mined, DOMAIN mined, id)
    BY DEF MintedInductive, Minted, MintsCounted
  <2>2. CASE entry.terms = {}
    BY <2>1, <2>2 DEF CountIs
  <2>3. CASE entry.terms # {}
    <3>1. x \in entry.terms
      BY <2>3
    <3> HIDE DEF x, entry
    <3>2. PICK n \in Nat : /\ Has(Minting(mined, DOMAIN mined, id, x), n)
                           /\ entry.mints = Capped(n, x.cap)
      BY <2>1, <3>1 DEF CountIs
    <3>3. MintsOf(id, x) = Minting(mined, DOMAIN mined, id, x)
      BY DEF MintsOf, Minting
    <3>4. Cardinality(MintsOf(id, x)) = n
      BY <3>2, <3>3 DEF Has
    <3>5. x.cap \in Nat
      BY <2>1, <3>1 DEF CountIs, GoodTerms
    <3>6. Min({x.cap, n}) = Capped(n, x.cap)
      <4> DEFINE least == Capped(n, x.cap)
      <4>1. least \in {x.cap, n} /\ \A y \in {x.cap, n} : least <= y
        BY <3>5 DEF Capped
      <4>2. \A z \in {x.cap, n} : (\A y \in {x.cap, n} : z <= y) => z = least
        BY <3>5, <4>1
      <4> HIDE DEF least
      <4>3. Min({x.cap, n}) = least
        BY <4>1, <4>2 DEF Min
      <4> QED BY <4>3 DEF least
    <3> QED BY <2>3, <3>2, <3>4, <3>6 DEF x, entry
  <2> QED BY <2>2, <2>3
<1> QED BY <1>1, MintedInvariant, PTL

-----------------------------------------------------------------------------
(***************************************************************************)
(* The supply: what is in RuneLedger has its type, every balance is of a   *)
(* rune that there is, and of each rune there is exactly what was issued   *)
(* and not burned.  The proofs rest on what the edicts do to a transaction *)
(* (EdictsProofs) and on the names and numbers of runes.                   *)
(***************************************************************************)
(* Values of their types, in the maps and in what is kept to restore them. *)
Heights == FirstHeight..LastHeight

IsBalance(b) == b \in PositivesOf(Id) /\ DOMAIN b # {}

MapsTyped(m) ==
  /\ m = [balances |-> m.balances, born |-> m.born, entry |-> m.entry,
          id_of |-> m.id_of, rune_of |-> m.rune_of]
  /\ IsFiniteSet(DOMAIN m.balances)
  /\ DOMAIN m.born = DOMAIN m.balances
  /\ \A o \in DOMAIN m.balances :
       o \in OutPoint /\ IsBalance(m.balances[o]) /\ m.born[o] \in Heights
  /\ IsMap(m.entry, Id, Entry)
  /\ IsMap(m.id_of, Name, Id)
  /\ IsMap(m.rune_of, Tx, Name)

RecordTyped(cr) ==
  /\ IsRecord(cr)
  /\ IsFiniteSet(DOMAIN cr.removed)
  /\ \A o \in DOMAIN cr.removed :
       /\ o \in OutPoint
       /\ IsBalance(cr.removed[o].balances)
       /\ cr.removed[o].height \in Heights
  /\ IsAmounts(cr.burned)
  /\ IsAmounts(cr.mints)

WorkTyped ==
  /\ updater = [height |-> updater.height, burned |-> updater.burned,
                runes |-> updater.runes, change_record |-> updater.change_record]
  /\ updater.runes \in Nat
  /\ IsAmounts(updater.burned)
  /\ RecordTyped(updater.change_record)
  /\ IsAmounts(frame.unallocated)
  /\ InBlock => /\ updater.height \in Heights
                /\ updater.height \in DOMAIN mined
                /\ mined[updater.height] \in Seq(Tx)
  /\ pc = "etching" => frame.index \in 0..(BlockSize - 1)

Typed ==
  /\ MapsTyped(maps)
  /\ WorkTyped
  /\ IsMap(runes, Heights, Nat)
  /\ IsMap(reserved, Heights, Nat)
  /\ DOMAIN record \subseteq Heights
  /\ \A h \in DOMAIN record : RecordTyped(record[h])
  /\ pc \in {"idle", "tx", "etching", "halted"}
  /\ orderly \in BOOLEAN

LEMMA MaxOfHeights ==
  ASSUME NEW S \in SUBSET Heights, S # {}
  PROVE  Max(S) \in S
<1>1. S \in SUBSET Int /\ \A x \in S : x <= LastHeight
  BY LedgerAssumption DEF Heights
<1> DEFINE T == {n \in Nat : LastHeight - n \in S}
<1>2. T \in SUBSET Nat
  OBVIOUS
<1>3. T # {}
  <2>1. PICK x \in S : TRUE
    OBVIOUS
  <2>2. LastHeight - x \in Nat /\ LastHeight - (LastHeight - x) = x
    BY <1>1, <2>1, LedgerAssumption
  <2>3. LastHeight - x \in T
    BY <2>1, <2>2
  <2> QED BY <2>3
<1>4. PICK n \in T : \A m \in T : n <= m
  <2> HIDE DEF T
  <2> QED BY <1>2, <1>3, LeastOfNat
<1>5. \A y \in S : LastHeight - n >= y
  <2> SUFFICES ASSUME NEW y \in S PROVE LastHeight - n >= y
    OBVIOUS
  <2>1. LastHeight - y \in Nat /\ LastHeight - (LastHeight - y) = y /\ y \in Int
    BY <1>1, LedgerAssumption
  <2>2. LastHeight - y \in T
    BY <2>1
  <2>3. n <= LastHeight - y /\ n \in Nat
    BY <1>4, <2>2
  <2> QED BY <2>1, <2>3, LedgerAssumption
<1>6. \E x \in S : \A y \in S : x >= y
  BY <1>4, <1>5
<1> QED BY <1>6, Zenon DEF Max

LEMMA LatestTyped ==
  ASSUME NEW f, IsMap(f, Heights, Nat)
  PROVE  Latest(f, 0) \in Nat
<1>1. DOMAIN f # {} => Max(DOMAIN f) \in DOMAIN f
  BY MaxOfHeights DEF IsMap
<1> QED BY <1>1 DEF Latest, IsMap

LEMMA NextHeightTyped ==
  ASSUME Typed, NextHeight <= LastHeight
  PROVE  NextHeight \in Heights
<1>1. CASE DOMAIN record = {}
  BY <1>1, LedgerAssumption DEF NextHeight, Heights
<1>2. CASE DOMAIN record # {}
  <2>1. Max(DOMAIN record) \in Heights
    BY <1>2, MaxOfHeights DEF Typed
  <2>2. NextHeight = Max(DOMAIN record) + 1
    BY <1>2 DEF NextHeight
  <2> QED BY <2>1, <2>2, LedgerAssumption DEF Heights
<1> QED BY <1>1, <1>2

LEMMA NewUpdaterFacts ==
  ASSUME NEW h, NEW n
  PROVE  /\ NewUpdater(h, n).height = h
         /\ NewUpdater(h, n).burned = << >>
         /\ NewUpdater(h, n).runes = n
         /\ NewUpdater(h, n).change_record = EmptyRecord
         /\ NewUpdater(h, n) = [height |-> NewUpdater(h, n).height,
              burned |-> NewUpdater(h, n).burned, runes |-> NewUpdater(h, n).runes,
              change_record |-> NewUpdater(h, n).change_record]
         /\ NoFrame.unallocated = << >> /\ NoFrame.tx = {}
BY DEF NewUpdater, NoFrame

LEMMA EmptyTyped ==
  /\ RecordTyped(EmptyRecord)
  /\ IsAmounts(<< >>)
  /\ DOMAIN << >> = {}
  /\ IsMap(<< >>, Heights, Nat)
  /\ MapsTyped(EmptyMaps)
<1>1. DOMAIN << >> = {}
  OBVIOUS
<1>2. \A S, T : IsMap(<< >>, S, T)
  BY <1>1 DEF IsMap
<1>3. IsFiniteSet({})
  BY FS_EmptySet
<1>4. RecordTyped(EmptyRecord)
  <2>1. /\ EmptyRecord.removed = << >> /\ EmptyRecord.burned = << >>
        /\ EmptyRecord.mints = << >> /\ IsRecord(EmptyRecord)
    BY DEF EmptyRecord, IsRecord
  <2> QED BY <1>1, <1>2, <1>3, <2>1 DEF RecordTyped, IsAmounts
<1>5. MapsTyped(EmptyMaps)
  BY <1>1, <1>2, <1>3 DEF EmptyMaps, MapsTyped
<1> QED BY <1>1, <1>2, <1>4, <1>5 DEF IsAmounts

LEMMA InitTyped == Init => Typed
<1> SUFFICES ASSUME Init PROVE Typed
  OBVIOUS
<1>1. /\ maps = EmptyMaps /\ runes = << >> /\ reserved = << >> /\ record = << >>
      /\ updater = NewUpdater(0, 0) /\ frame = NoFrame /\ pc = "idle" /\ orderly = TRUE
  BY DEF Init
<1>2. ~InBlock
  BY <1>1 DEF InBlock
<1>3. WorkTyped
  BY <1>1, <1>2, EmptyTyped, NewUpdaterFacts DEF WorkTyped
<1> QED BY <1>1, <1>3, EmptyTyped DEF Typed

LEMMA StartTyped ==
  ASSUME Typed, StartBlock
  PROVE  Typed'
<1>0. PICK h : h = NextHeight
  OBVIOUS
<1>1. /\ h \in Heights
      /\ runes' = Put(runes, h, Latest(runes, 0))
      /\ reserved' = Put(reserved, h, Latest(reserved, 0))
      /\ updater' = NewUpdater(h, Latest(runes, 0))
      /\ pc' = "tx"
      /\ mined' = Put(mined, h, << >>)
      /\ UNCHANGED <<maps, record, frame, orderly>>
  BY <1>0, NextHeightTyped DEF StartBlock
<1>2. Latest(runes, 0) \in Nat /\ Latest(reserved, 0) \in Nat
  BY LatestTyped DEF Typed
<1>3. IsMap(runes', Heights, Nat) /\ IsMap(reserved', Heights, Nat)
  BY <1>1, <1>2 DEF Typed, IsMap, Put
<1>4. /\ updater'.height = h /\ updater'.burned = << >>
      /\ updater'.runes = Latest(runes, 0)
      /\ updater'.change_record = EmptyRecord
      /\ updater' = [height |-> updater'.height, burned |-> updater'.burned,
             runes |-> updater'.runes, change_record |-> updater'.change_record]
  BY <1>1, NewUpdaterFacts
<1>5. h \in DOMAIN mined' /\ mined'[h] \in Seq(Tx)
  BY <1>1 DEF Put
<1>6. WorkTyped'
  BY <1>1, <1>2, <1>4, <1>5, EmptyTyped DEF Typed, WorkTyped
<1> QED BY <1>1, <1>3, <1>6 DEF Typed

(* What a transaction takes and what it mints when it begins.              *)
Spent(t) == Content[t].inputs \cap DOMAIN maps.balances
Minters(t) ==
  {id \in Content[t].mint \cap DOMAIN maps.entry :
     Mintable(id, maps.entry[id], updater.height)}

MintedBy(t) == [id \in Minters(t) |-> MintAmount(maps.entry[id])]

Begun(t) ==
  /\ pc = "tx" /\ pc' = "etching"
  /\ t \notin MinedTx
  /\ DOMAIN maps'.balances = DOMAIN maps.balances \ Spent(t)
  /\ DOMAIN maps'.born = DOMAIN maps'.balances
  /\ \A o \in DOMAIN maps'.balances :
       maps'.balances[o] = maps.balances[o] /\ maps'.born[o] = maps.born[o]
  /\ DOMAIN maps'.entry = DOMAIN maps.entry
  /\ \A id \in Minters(t) : maps'.entry[id] = OnceMoreMinted(maps.entry[id])
  /\ \A id \in DOMAIN maps.entry \ Minters(t) : maps'.entry[id] = maps.entry[id]
  /\ maps'.id_of = maps.id_of /\ maps'.rune_of = maps.rune_of
  /\ maps' = [balances |-> maps'.balances, born |-> maps'.born, entry |-> maps'.entry,
              id_of |-> maps'.id_of, rune_of |-> maps'.rune_of]
  /\ updater' = [height |-> updater.height, burned |-> updater.burned,
                 runes |-> updater.runes,
                 change_record |-> RecordBegun(updater.change_record, maps,
                                               Spent(t), Minters(t))]
  /\ frame' = [tx |-> {t}, index |-> Len(mined[updater.height]),
               unallocated |-> Added(Held(Spent(t)), MintedBy(t))]
  /\ Len(mined[updater.height]) < BlockSize
  /\ mined' = [mined EXCEPT ![updater.height] = Append(@, t)]
  /\ UNCHANGED <<runes, reserved, record, base, orderly>>

LEMMA BeginSteps ==
  ASSUME Typed, NEW t \in Tx, TxBegins(t)
  PROVE  Begun(t)
<1>1. /\ maps = [balances |-> maps.balances, born |-> maps.born, entry |-> maps.entry,
                 id_of |-> maps.id_of, rune_of |-> maps.rune_of]
      /\ updater = [height |-> updater.height, burned |-> updater.burned,
                    runes |-> updater.runes, change_record |-> updater.change_record]
      /\ DOMAIN maps.born = DOMAIN maps.balances
  BY DEF Typed, MapsTyped, WorkTyped
<1> DEFINE more == [id \in Minters(t) |-> OnceMoreMinted(maps.entry[id])]
<1>2. /\ pc = "tx" /\ pc' = "etching" /\ t \notin MinedTx
      /\ maps' = MapsBegun(maps, Spent(t), Minters(t))
      /\ updater' = [updater EXCEPT !.change_record =
           RecordBegun(updater.change_record, maps, Spent(t), Minters(t))]
      /\ frame' = [tx |-> {t}, index |-> Len(mined[updater.height]),
                   unallocated |-> Added(Held(Spent(t)), MintedBy(t))]
      /\ Len(mined[updater.height]) < BlockSize
      /\ mined' = [mined EXCEPT ![updater.height] = Append(@, t)]
      /\ UNCHANGED <<runes, reserved, record, base, orderly>>
  BY DEF TxBegins, Confirmable, Spent, Minters, MintedBy, MapsBegun, RecordBegun
<1>3. Minters(t) \subseteq DOMAIN maps.entry
  BY DEF Minters
<1>4. /\ maps'.balances = Without(maps.balances, Spent(t))
      /\ maps'.born = Without(maps.born, Spent(t))
      /\ maps'.entry = PutAll(maps.entry, more)
      /\ maps'.id_of = maps.id_of /\ maps'.rune_of = maps.rune_of
      /\ maps' = [balances |-> maps'.balances, born |-> maps'.born, entry |-> maps'.entry,
                  id_of |-> maps'.id_of, rune_of |-> maps'.rune_of]
  BY <1>1, <1>2 DEF MapsBegun
<1>5. /\ DOMAIN maps'.balances = DOMAIN maps.balances \ Spent(t)
      /\ DOMAIN maps'.born = DOMAIN maps'.balances
      /\ \A o \in DOMAIN maps'.balances :
           maps'.balances[o] = maps.balances[o] /\ maps'.born[o] = maps.born[o]
  BY <1>1, <1>4 DEF Without
<1>6. /\ DOMAIN maps'.entry = DOMAIN maps.entry
      /\ \A id \in Minters(t) : maps'.entry[id] = OnceMoreMinted(maps.entry[id])
      /\ \A id \in DOMAIN maps.entry \ Minters(t) : maps'.entry[id] = maps.entry[id]
  <2>1. DOMAIN more = Minters(t)
        /\ \A id \in Minters(t) : more[id] = OnceMoreMinted(maps.entry[id])
    OBVIOUS
  <2> HIDE DEF more
  <2>2. IsUnion(maps'.entry, maps.entry, more)
    BY <1>4, PutAllFacts
  <2> QED BY <1>3, <2>1, <2>2 DEF IsUnion
<1>7. updater' = [height |-> updater.height, burned |-> updater.burned,
                 runes |-> updater.runes,
                 change_record |-> RecordBegun(updater.change_record, maps,
                                               Spent(t), Minters(t))]
  BY <1>1, <1>2
<1> QED BY <1>2, <1>4, <1>5, <1>6, <1>7 DEF Begun

(* An entry keeps its type when its counts change.                         *)
LEMMA CountedTyped ==
  ASSUME NEW e \in Entry, NEW x \in Nat, NEW y \in Nat
  PROVE  Counted(e, x, y) \in Entry
BY DEF Entry, Counted

LEMMA EntryTyped ==
  ASSUME NEW e \in Entry
  PROVE  /\ IsEntry(e)
         /\ e.premine \in Nat /\ e.mints \in Nat /\ e.burned \in Nat
         /\ \A u, v \in e.terms : u = v
         /\ \A u \in e.terms : u.amount \in Nat /\ MintAmount(e) = u.amount
<1>1. IsEntry(e)
  BY DEF Entry, IsEntry
<1>2. e.premine \in Nat /\ e.mints \in Nat /\ e.burned \in Nat
  BY DEF Entry
<1>3. PICK t \in Tx : e.terms \in SUBSET Content[t].terms
  BY DEF Entry
<1>4. \A u, v \in e.terms : u = v /\ u.amount \in Nat
  BY <1>3, ContentAssumption
<1>5. ASSUME NEW u \in e.terms
      PROVE  u.amount \in Nat /\ MintAmount(e) = u.amount
  <2>1. {terms.amount : terms \in e.terms} = {u.amount}
    BY <1>4
  <2> QED BY <1>4, <2>1 DEF MintAmount
<1> QED BY <1>1, <1>2, <1>4, <1>5

LEMMA HeldTyped ==
  ASSUME Typed, NEW t
  PROVE  /\ IsFiniteSet(Spent(t))
         /\ Held(Spent(t)) = AllAdded(maps.balances, Spent(t))
         /\ \A o \in Spent(t) : /\ DOMAIN maps.balances[o] \subseteq Id
                                /\ \A i \in DOMAIN maps.balances[o] :
                                     maps.balances[o][i] \in Nat
         /\ Held(Spent(t)) \in AmountsOf(Id)
         /\ DOMAIN Held(Spent(t)) = UNION {DOMAIN maps.balances[o] : o \in Spent(t)}
         /\ \A id \in Minters(t) : /\ id \in DOMAIN maps.entry /\ id \in Id
                                   /\ maps.entry[id] \in Entry
                                   /\ maps.entry[id].terms # {}
                                   /\ MintAmount(maps.entry[id]) \in Nat
<1>1. IsFiniteSet(Spent(t))
  BY FS_Subset DEF Spent, Typed, MapsTyped
<1>2. Held(Spent(t)) = AllAdded(maps.balances, Spent(t))
  BY DEF Held, AllAdded
<1>3. ASSUME NEW o \in Spent(t)
      PROVE  /\ DOMAIN maps.balances[o] \subseteq Id
             /\ \A i \in DOMAIN maps.balances[o] : maps.balances[o][i] \in Nat
  <2>1. maps.balances[o] \in PositivesOf(Id)
    BY DEF Spent, Typed, MapsTyped, IsBalance
  <2> QED BY <2>1, PositivesType
<1>4. /\ AllAdded(maps.balances, Spent(t)) \in AmountsOf(Id)
      /\ DOMAIN AllAdded(maps.balances, Spent(t)) =
           UNION {DOMAIN maps.balances[o] : o \in Spent(t)}
  BY <1>1, <1>3, AddedUpType
<1>5. ASSUME NEW id \in Minters(t)
      PROVE  /\ id \in DOMAIN maps.entry /\ id \in Id
             /\ maps.entry[id] \in Entry
             /\ maps.entry[id].terms # {}
             /\ MintAmount(maps.entry[id]) \in Nat
  <2>1. id \in DOMAIN maps.entry /\ maps.entry[id].terms # {}
    BY DEF Minters, Mintable
  <2>2. id \in Id /\ maps.entry[id] \in Entry
    BY <2>1 DEF Typed, MapsTyped, IsMap
  <2> QED BY <2>1, <2>2, EntryTyped
<1> QED BY <1>1, <1>2, <1>3, <1>4, <1>5

LEMMA BeginTyped ==
  ASSUME Typed, NEW t \in Tx, TxBegins(t)
  PROVE  Typed'
<1>1. Begun(t)
  BY BeginSteps
<1>2. MapsTyped(maps')
  <2>1. IsFiniteSet(DOMAIN maps'.balances)
    BY <1>1, FS_Subset DEF Begun, Typed, MapsTyped
  <2>2. ASSUME NEW o \in DOMAIN maps'.balances
        PROVE  o \in OutPoint /\ IsBalance(maps'.balances[o]) /\ maps'.born[o] \in Heights
    <3>1. o \in DOMAIN maps.balances /\ maps'.balances[o] = maps.balances[o]
          /\ maps'.born[o] = maps.born[o]
      BY <1>1 DEF Begun
    <3> QED BY <3>1 DEF Typed, MapsTyped
  <2>3. ASSUME NEW id \in DOMAIN maps'.entry
        PROVE  id \in Id /\ maps'.entry[id] \in Entry
    <3>1. id \in DOMAIN maps.entry
      BY <1>1 DEF Begun
    <3>2. id \in Id /\ maps.entry[id] \in Entry
      BY <3>1 DEF Typed, MapsTyped, IsMap
    <3>3. CASE id \in Minters(t)
      <4>1. maps'.entry[id] = WithMints(maps.entry[id], maps.entry[id].mints + 1)
        BY <1>1, <3>3 DEF Begun, OnceMoreMinted, WithMints
      <4>2. maps.entry[id].mints + 1 \in Nat /\ maps.entry[id].burned \in Nat
            /\ IsEntry(maps.entry[id])
        BY <3>2, EntryTyped
      <4>3. maps'.entry[id] =
              Counted(maps.entry[id], maps.entry[id].mints + 1, maps.entry[id].burned)
        BY <4>1, <4>2, EntryFacts
      <4> QED BY <3>2, <4>2, <4>3, CountedTyped
    <3>4. CASE id \notin Minters(t)
      BY <1>1, <3>1, <3>2, <3>4 DEF Begun
    <3> QED BY <3>2, <3>3, <3>4
  <2>4. IsMap(maps'.entry, Id, Entry)
    BY <2>3 DEF IsMap
  <2>5. IsMap(maps'.id_of, Name, Id) /\ IsMap(maps'.rune_of, Tx, Name)
    BY <1>1 DEF Begun, Typed, MapsTyped
  <2> QED BY <1>1, <2>1, <2>2, <2>4, <2>5 DEF Begun, MapsTyped
<1>3. RecordTyped(updater'.change_record)
  <2> DEFINE cr == updater.change_record
             cr2 == updater'.change_record
             taken == [o \in Spent(t) |->
                         [balances |-> maps.balances[o], height |-> maps.born[o]]]
  <2>1. cr2 = RecordBegun(cr, maps, Spent(t), Minters(t))
    BY <1>1 DEF Begun
  <2>2. RecordTyped(cr)
    BY DEF Typed, WorkTyped
  <2>3. /\ cr2.removed = PutAll(cr.removed, taken)
        /\ cr2.mints = FirstCounts(cr.mints, maps.entry, Minters(t))
        /\ cr2.burned = cr.burned
        /\ IsRecord(cr2)
    BY <2>1, <2>2 DEF RecordTyped, IsRecord, RecordBegun
  <2>4. DOMAIN taken = Spent(t) /\ \A o \in Spent(t) :
          taken[o].balances = maps.balances[o] /\ taken[o].height = maps.born[o]
    OBVIOUS
  <2> HIDE DEF taken, cr, cr2
  <2>5. IsUnion(cr2.removed, cr.removed, taken)
    BY <2>3, PutAllFacts
  <2>6. DOMAIN cr2.removed = DOMAIN cr.removed \cup Spent(t)
    BY <2>4, <2>5 DEF IsUnion
  <2>7. IsFiniteSet(DOMAIN cr2.removed)
    <3>1. IsFiniteSet(Spent(t))
      BY HeldTyped
    <3>2. IsFiniteSet(DOMAIN cr.removed)
      BY <2>2 DEF RecordTyped
    <3> QED BY <2>6, <3>1, <3>2, FS_Union
  <2>8. ASSUME NEW o \in DOMAIN cr2.removed
        PROVE  /\ o \in OutPoint
               /\ IsBalance(cr2.removed[o].balances)
               /\ cr2.removed[o].height \in Heights
    <3>1. CASE o \in Spent(t)
      <4>1. cr2.removed[o].balances = maps.balances[o] /\ cr2.removed[o].height = maps.born[o]
        BY <2>4, <2>5, <3>1 DEF IsUnion
      <4>2. o \in DOMAIN maps.balances
        BY <3>1 DEF Spent
      <4> QED BY <4>1, <4>2 DEF Typed, MapsTyped
    <3>2. CASE o \notin Spent(t)
      <4>1. o \in DOMAIN cr.removed /\ cr2.removed[o] = cr.removed[o]
        BY <2>4, <2>5, <2>6, <3>2 DEF IsUnion
      <4> QED BY <2>2, <4>1 DEF RecordTyped
    <3> QED BY <3>1, <3>2
  <2>9. IsAmounts(cr2.mints)
    <3>1. /\ DOMAIN cr2.mints = Minters(t) \cup DOMAIN cr.mints
          /\ \A id \in DOMAIN cr.mints : cr2.mints[id] = cr.mints[id]
          /\ \A id \in Minters(t) \ DOMAIN cr.mints : cr2.mints[id] = maps.entry[id].mints
      BY <2>3 DEF FirstCounts, PutAll
    <3>2. IsAmounts(cr.mints)
      BY <2>2 DEF RecordTyped
    <3>3. \A id \in Minters(t) : id \in Id /\ maps.entry[id].mints \in Nat
      BY HeldTyped DEF Entry
    <3> QED BY <3>1, <3>2, <3>3 DEF IsAmounts, IsMap
  <2>10. RecordTyped(cr2)
    BY <2>2, <2>3, <2>7, <2>8, <2>9 DEF RecordTyped
  <2> QED BY <2>10 DEF cr2
<1>4. IsAmounts(frame'.unallocated)
  <2>1. frame'.unallocated = Added(Held(Spent(t)), MintedBy(t))
    BY <1>1 DEF Begun
  <2>2. /\ DOMAIN Held(Spent(t)) \subseteq Id
        /\ \A id \in DOMAIN Held(Spent(t)) : Held(Spent(t))[id] \in Nat
    BY HeldTyped, AmountType
  <2>3. /\ DOMAIN MintedBy(t) = Minters(t)
        /\ \A id \in Minters(t) : MintedBy(t)[id] = MintAmount(maps.entry[id])
    BY DEF MintedBy
  <2>4. DOMAIN MintedBy(t) \subseteq Id /\ \A id \in DOMAIN MintedBy(t) : MintedBy(t)[id] \in Nat
    BY <2>3, HeldTyped
  <2>5. /\ DOMAIN frame'.unallocated = DOMAIN Held(Spent(t)) \cup DOMAIN MintedBy(t)
        /\ \A id \in DOMAIN frame'.unallocated : frame'.unallocated[id] \in Nat
    <3> DEFINE f == Held(Spent(t))
               g == MintedBy(t)
               both == Added(f, g)
    <3> HIDE DEF f, g
    <3>1. /\ \A id \in DOMAIN f : f[id] \in Nat
          /\ \A id \in DOMAIN g : g[id] \in Nat
      BY <2>2, <2>4 DEF f, g
    <3>2. DOMAIN both = DOMAIN f \cup DOMAIN g /\ \A id \in DOMAIN both : both[id] \in Nat
      BY <3>1, AddedType
    <3>3. frame'.unallocated = both
      BY <2>1 DEF f, g
    <3> HIDE DEF both
    <3> QED BY <3>2, <3>3 DEF f, g
  <2> QED BY <2>2, <2>4, <2>5 DEF IsAmounts, IsMap
<1>5. /\ updater'.height \in Heights /\ updater'.height \in DOMAIN mined'
      /\ mined'[updater'.height] \in Seq(Tx)
      /\ frame'.index \in 0..(BlockSize - 1)
  <2>1. updater.height \in Heights /\ updater.height \in DOMAIN mined
        /\ mined[updater.height] \in Seq(Tx) /\ updater'.height = updater.height
    BY <1>1 DEF Begun, Typed, WorkTyped, InBlock
  <2>2. Append(mined[updater.height], t) \in Seq(Tx) /\ Len(mined[updater.height]) \in Nat
    BY <2>1
  <2>3. mined' = [mined EXCEPT ![updater.height] = Append(mined[updater.height], t)]
        /\ frame'.index = Len(mined[updater.height])
    BY <1>1 DEF Begun
  <2>4. Len(mined[updater.height]) < BlockSize
    BY <1>1 DEF Begun
  <2>5. DOMAIN mined' = DOMAIN mined
        /\ mined'[updater.height] = Append(mined[updater.height], t)
    BY <2>1, <2>3
  <2> QED BY <2>1, <2>2, <2>3, <2>4, <2>5, LedgerAssumption
<1>6. /\ updater' = [height |-> updater'.height, burned |-> updater'.burned,
             runes |-> updater'.runes, change_record |-> updater'.change_record]
      /\ updater'.runes = updater.runes /\ updater'.burned = updater.burned
  BY <1>1 DEF Begun
<1>7. WorkTyped'
  BY <1>3, <1>4, <1>5, <1>6 DEF WorkTyped, Typed
<1> QED BY <1>1, <1>2, <1>7 DEF Typed, Begun

(* What a transaction that etches names, or nothing, keeps and burns when  *)
(* it ends.                                                                *)
NewId == <<updater.height, frame.index>>
InHand(t, names) == Holding(t, NewId, names)
Given(t, names) ==
  Distribution(Content[t], IF names = {} THEN DefaultId ELSE NewId, InHand(t, names))
Outs(t, names) == {<<t, o>> : o \in DOMAIN Given(t, names).kept}
Etched(names) == {NewId : n \in names}

Ended(t, names) ==
  /\ pc = "etching" /\ pc' = "tx"
  /\ DOMAIN maps'.balances = DOMAIN maps.balances \cup Outs(t, names)
  /\ DOMAIN maps'.born = DOMAIN maps'.balances
  /\ \A o \in Outs(t, names) : /\ maps'.balances[o] = Given(t, names).kept[o[2]]
                               /\ maps'.born[o] = updater.height
  /\ \A o \in DOMAIN maps.balances \ Outs(t, names) :
       maps'.balances[o] = maps.balances[o] /\ maps'.born[o] = maps.born[o]
  /\ DOMAIN maps'.entry = DOMAIN maps.entry \cup Etched(names)
  /\ \A id \in Etched(names) : \E n \in names : maps'.entry[id] = NewEntry(t, n)
  /\ \A id \in DOMAIN maps.entry \ Etched(names) : maps'.entry[id] = maps.entry[id]
  /\ DOMAIN maps'.id_of = DOMAIN maps.id_of \cup names
  /\ \A n \in names : maps'.id_of[n] = NewId
  /\ \A n \in DOMAIN maps.id_of \ names : maps'.id_of[n] = maps.id_of[n]
  /\ DOMAIN maps'.rune_of \subseteq DOMAIN maps.rune_of \cup {t}
  /\ \A u \in DOMAIN maps'.rune_of :
       \/ maps'.rune_of[u] \in names
       \/ u \in DOMAIN maps.rune_of /\ maps'.rune_of[u] = maps.rune_of[u]
  /\ maps' = [balances |-> maps'.balances, born |-> maps'.born, entry |-> maps'.entry,
              id_of |-> maps'.id_of, rune_of |-> maps'.rune_of]
  /\ DOMAIN runes' = DOMAIN runes \cup {updater.height : n \in names}
  /\ \A g \in DOMAIN runes' : \/ runes'[g] = updater.runes + 1
                              \/ g \in DOMAIN runes /\ runes'[g] = runes[g]
  /\ updater' = [height |-> updater.height,
                 burned |-> Added(updater.burned, Given(t, names).burned),
                 runes |-> updater.runes + Cardinality(names),
                 change_record |->
                   RecordGrown(updater.change_record, Outs(t, names),
                               {<<n, NewId, t>> : n \in names})]
  /\ frame' = NoFrame
  /\ UNCHANGED <<record, mined, base, orderly>>

LEMMA EndSteps ==
  ASSUME Typed, NEW t \in Tx, pc = "etching", NEW names, Distribute(t, names)
  PROVE  Ended(t, names)
<1> DEFINE h == updater.height
           name == CHOOSE n \in names : TRUE
           kept == [o \in Outs(t, names) |-> Given(t, names).kept[o[2]]]
           heights == [o \in Outs(t, names) |-> h]
           entries == [i \in Etched(names) |-> NewEntry(t, name)]
           ids == [n \in names |-> NewId]
           called == [u \in {t : n \in names} |-> name]
           counts == [g \in {h : n \in names} |-> updater.runes + 1]
<1>1. /\ maps' = MapsGrown(maps, kept, heights, entries, ids, called)
      /\ runes' = PutAll(runes, counts)
      /\ updater' = [updater EXCEPT
           !.burned = Added(updater.burned, Given(t, names).burned),
           !.runes = updater.runes + Cardinality(names),
           !.change_record = RecordGrown(updater.change_record, Outs(t, names),
                                         {<<n, NewId, t>> : n \in names})]
      /\ frame' = NoFrame
      /\ pc' = "tx"
      /\ UNCHANGED <<record, mined, base, orderly>>
  BY DEF Distribute, MapsGrown, RecordGrown, Outs, Given, InHand, NewId, Etched
<1>2. /\ updater = [height |-> updater.height, burned |-> updater.burned,
                    runes |-> updater.runes, change_record |-> updater.change_record]
      /\ DOMAIN maps.born = DOMAIN maps.balances
  BY DEF Typed, MapsTyped, WorkTyped
<1>3. updater' = [height |-> updater.height,
                 burned |-> Added(updater.burned, Given(t, names).burned),
                 runes |-> updater.runes + Cardinality(names),
                 change_record |->
                   RecordGrown(updater.change_record, Outs(t, names),
                               {<<n, NewId, t>> : n \in names})]
  BY <1>1, <1>2
<1>4. names # {} => name \in names
  OBVIOUS
<1>5. /\ DOMAIN kept = Outs(t, names) /\ DOMAIN heights = Outs(t, names)
      /\ \A o \in Outs(t, names) : kept[o] = Given(t, names).kept[o[2]] /\ heights[o] = h
      /\ DOMAIN entries = Etched(names)
      /\ \A i \in Etched(names) : entries[i] = NewEntry(t, name)
      /\ DOMAIN ids = names /\ \A n \in names : ids[n] = NewId
      /\ DOMAIN called = {t : n \in names} /\ \A u \in DOMAIN called : called[u] = name
      /\ DOMAIN counts = {h : n \in names}
      /\ \A g \in DOMAIN counts : counts[g] = updater.runes + 1
  OBVIOUS
<1>6. \A i \in Etched(names) : name \in names
  BY <1>4 DEF Etched
<1>7. \A u \in DOMAIN called : name \in names /\ u = t
  BY <1>4, <1>5
<1> HIDE DEF kept, heights, entries, ids, called, counts, name, h
<1>8. /\ IsUnion(maps'.balances, maps.balances, kept)
      /\ IsUnion(maps'.born, maps.born, heights)
      /\ IsUnion(maps'.entry, maps.entry, entries)
      /\ IsUnion(maps'.id_of, maps.id_of, ids)
      /\ IsUnion(maps'.rune_of, maps.rune_of, called)
      /\ IsUnion(runes', runes, counts)
      /\ maps' = [balances |-> maps'.balances, born |-> maps'.born, entry |-> maps'.entry,
                  id_of |-> maps'.id_of, rune_of |-> maps'.rune_of]
  <2>1. /\ maps'.balances = PutAll(maps.balances, kept)
        /\ maps'.born = PutAll(maps.born, heights)
        /\ maps'.entry = PutAll(maps.entry, entries)
        /\ maps'.id_of = PutAll(maps.id_of, ids)
        /\ maps'.rune_of = PutAll(maps.rune_of, called)
        /\ maps' = [balances |-> maps'.balances, born |-> maps'.born,
                    entry |-> maps'.entry, id_of |-> maps'.id_of,
                    rune_of |-> maps'.rune_of]
    BY <1>1 DEF MapsGrown
  <2> QED BY <1>1, <2>1, PutAllFacts
<1>9. /\ DOMAIN maps'.balances = DOMAIN maps.balances \cup Outs(t, names)
      /\ DOMAIN maps'.born = DOMAIN maps'.balances
      /\ \A o \in Outs(t, names) : /\ maps'.balances[o] = Given(t, names).kept[o[2]]
                                   /\ maps'.born[o] = updater.height
      /\ \A o \in DOMAIN maps.balances \ Outs(t, names) :
           maps'.balances[o] = maps.balances[o] /\ maps'.born[o] = maps.born[o]
  BY <1>2, <1>5, <1>8 DEF IsUnion, h
<1>10. /\ DOMAIN maps'.entry = DOMAIN maps.entry \cup Etched(names)
       /\ \A id \in Etched(names) : \E n \in names : maps'.entry[id] = NewEntry(t, n)
       /\ \A id \in DOMAIN maps.entry \ Etched(names) : maps'.entry[id] = maps.entry[id]
  BY <1>5, <1>6, <1>8 DEF IsUnion
<1>11. /\ DOMAIN maps'.id_of = DOMAIN maps.id_of \cup names
       /\ \A n \in names : maps'.id_of[n] = NewId
       /\ \A n \in DOMAIN maps.id_of \ names : maps'.id_of[n] = maps.id_of[n]
  BY <1>5, <1>8 DEF IsUnion
<1>12. /\ DOMAIN maps'.rune_of \subseteq DOMAIN maps.rune_of \cup {t}
       /\ \A u \in DOMAIN maps'.rune_of :
            \/ maps'.rune_of[u] \in names
            \/ u \in DOMAIN maps.rune_of /\ maps'.rune_of[u] = maps.rune_of[u]
  <2>1. /\ DOMAIN maps'.rune_of = DOMAIN maps.rune_of \cup DOMAIN called
        /\ \A u \in DOMAIN called : maps'.rune_of[u] = called[u]
        /\ \A u \in DOMAIN maps.rune_of \ DOMAIN called : maps'.rune_of[u] = maps.rune_of[u]
    BY <1>8, Zenon DEF IsUnion
  <2>2. \A u \in DOMAIN called : u = t /\ called[u] \in names
    BY <1>5, <1>7
  <2> QED BY <2>1, <2>2
<1>13. /\ DOMAIN runes' = DOMAIN runes \cup {updater.height : n \in names}
       /\ \A g \in DOMAIN runes' : \/ runes'[g] = updater.runes + 1
                                   \/ g \in DOMAIN runes /\ runes'[g] = runes[g]
  BY <1>5, <1>8 DEF IsUnion, h
<1> QED BY <1>1, <1>3, <1>8, <1>9, <1>10, <1>11, <1>12, <1>13 DEF Ended

(* The names that a transaction etches, if it etches any.                  *)
Etching(t, names) ==
  /\ Distribute(t, names)
  /\ names = {} \/ \E n \in Name : names = {n}
  /\ reserved' = reserved
     \/ reserved' = Put(reserved, updater.height, Latest(reserved, 0) + 1)

LEMMA EndsEtching ==
  ASSUME Typed, NEW t \in Tx, TxEnds(t)
  PROVE  pc = "etching" /\ frame.tx = {t} /\ \E names : Etching(t, names)
<1>1. pc = "etching" /\ frame.tx = {t}
  BY DEF TxEnds
<1>2. CASE Distribute(t, {}) /\ UNCHANGED reserved
  BY <1>1, <1>2 DEF Etching
<1>3. CASE /\ Distribute(t, {NewId})
           /\ reserved' = Put(reserved, updater.height, Latest(reserved, 0) + 1)
  <2>1. NewId \in Name
    BY <1>1 DEF NewId, Name, Id, Typed, WorkTyped, InBlock, Heights
  <2> QED BY <1>1, <1>3, <2>1 DEF Etching
<1>4. CASE /\ Content[t].rune # {}
           /\ \A r \in Content[t].rune : Etchable(r)
           /\ Distribute(t, Content[t].rune)
           /\ UNCHANGED reserved
  <2>1. PICK r \in Content[t].rune : TRUE
    BY <1>4
  <2>2. Content[t].rune = {r} /\ r \in Name
    BY <1>4, <2>1, ContentAssumption DEF Etchable, Name
  <2> QED BY <1>1, <1>4, <2>2 DEF Etching
<1> QED BY <1>2, <1>3, <1>4 DEF TxEnds, NewId

(* What it holds is of runes with an entry, and the one it etches.         *)
Premined(t, names) == IF Content[t].cenotaph THEN {} ELSE Etched(names)

LEMMA InHandFacts ==
  ASSUME Typed, NEW t \in Tx, pc = "etching", NEW names,
         names = {} \/ \E n \in Name : names = {n}
  PROVE  /\ NewId \in Id
         /\ DOMAIN InHand(t, names) = DOMAIN frame.unallocated \cup Premined(t, names)
         /\ DOMAIN InHand(t, names) \subseteq Id
         /\ InHand(t, names) \in AmountsOf(DOMAIN InHand(t, names))
         /\ \A id : Amount(InHand(t, names), id) =
              Amount(frame.unallocated, id) +
              (IF id \in Premined(t, names) THEN Content[t].premine ELSE 0)
         /\ Distributes(Content[t], InHand(t, names), Given(t, names))
<1> DEFINE premine == [i \in Premined(t, names) |-> Content[t].premine]
<1>1. NewId \in Id
  BY DEF NewId, Id, Typed, WorkTyped, InBlock, Heights
<1>2. InHand(t, names) = Added(frame.unallocated, premine)
  BY DEF InHand, Holding, Premined, Etched
<1>3. /\ DOMAIN premine = Premined(t, names)
      /\ \A i \in DOMAIN premine : premine[i] = Content[t].premine /\ premine[i] \in Nat
  BY ContentAssumption
<1> HIDE DEF premine
<1>4. /\ DOMAIN frame.unallocated \subseteq Id
      /\ \A i \in DOMAIN frame.unallocated : frame.unallocated[i] \in Nat
  BY DEF Typed, WorkTyped, IsAmounts, IsMap
<1>5. /\ DOMAIN InHand(t, names) = DOMAIN frame.unallocated \cup Premined(t, names)
      /\ InHand(t, names) = [id \in DOMAIN InHand(t, names) |-> InHand(t, names)[id]]
      /\ \A id \in DOMAIN InHand(t, names) : InHand(t, names)[id] \in Nat
  <2>1. \A id \in DOMAIN premine : premine[id] \in Nat
    BY <1>3
  <2>2. LET f == frame.unallocated
        IN /\ DOMAIN Added(f, premine) = DOMAIN f \cup DOMAIN premine
           /\ Added(f, premine) = [id \in DOMAIN Added(f, premine) |-> Added(f, premine)[id]]
           /\ \A id \in DOMAIN Added(f, premine) : Added(f, premine)[id] \in Nat
    BY <1>4, <2>1, AddedType
  <2> QED BY <1>2, <1>3, <2>2, Zenon
<1>6. DOMAIN InHand(t, names) \subseteq Id
  BY <1>1, <1>4, <1>5 DEF Premined, Etched
<1>7. InHand(t, names) \in AmountsOf(DOMAIN InHand(t, names))
  <2>1. \A f : f = [x \in DOMAIN f |-> f[x]] /\ (\A x \in DOMAIN f : f[x] \in Nat)
                 => f \in [DOMAIN f -> Nat]
    OBVIOUS
  <2>2. InHand(t, names) \in [DOMAIN InHand(t, names) -> Nat]
    BY <1>5, <2>1
  <2>3. DOMAIN InHand(t, names) \in SUBSET DOMAIN InHand(t, names)
    OBVIOUS
  <2> QED BY <2>2, <2>3 DEF AmountsOf
<1>8. \A id : Amount(InHand(t, names), id) =
              Amount(frame.unallocated, id) +
              (IF id \in Premined(t, names) THEN Content[t].premine ELSE 0)
  <2>1. \A id : Amount(premine, id) = IF id \in Premined(t, names) THEN Content[t].premine ELSE 0
    BY <1>3 DEF Amount
  <2> QED BY <1>2, <2>1, AmountAdded
<1>9. Distributes(Content[t], InHand(t, names), Given(t, names))
  <2>1. Deciphered(Content[t])
    BY ContentAssumption
  <2> QED BY <1>7, <2>1, DistributionFacts DEF Given
<1> QED BY <1>1, <1>5, <1>6, <1>7, <1>8, <1>9

LEMMA PositivesMore ==
  ASSUME NEW K, NEW L, K \subseteq L
  PROVE  PositivesOf(K) \subseteq PositivesOf(L) /\ AmountsOf(K) \subseteq AmountsOf(L)
BY DEF PositivesOf, AmountsOf

LEMMA OutsFacts ==
  ASSUME Typed, NEW t \in Tx, pc = "etching", NEW names,
         names = {} \/ \E n \in Name : names = {n}
  PROVE  /\ IsFiniteSet(DOMAIN Given(t, names).kept)
         /\ DOMAIN Given(t, names).kept \subseteq Nat
         /\ IsFiniteSet(Outs(t, names))
         /\ \A o \in Outs(t, names) : /\ o \in OutPoint /\ o[1] = t
                                      /\ o[2] \in DOMAIN Given(t, names).kept
                                      /\ IsBalance(Given(t, names).kept[o[2]])
                                      /\ Given(t, names).kept[o[2]] \in
                                           PositivesOf(DOMAIN InHand(t, names))
         /\ IsAmounts(Given(t, names).burned)
<1> DEFINE d == Given(t, names)
<1>1. Distributes(Content[t], InHand(t, names), d) /\ DOMAIN InHand(t, names) \subseteq Id
  BY InHandFacts
<1>2. Deciphered(Content[t])
  BY ContentAssumption
<1>3. OutputsOf(Content[t]) \in SUBSET Nat /\ IsFiniteSet(Destinations(Content[t]))
      /\ Destinations(Content[t]) \in SUBSET OutputsOf(Content[t])
  BY <1>2, OutputsFinite
<1>4. IsFiniteSet(DOMAIN d.kept) /\ DOMAIN d.kept \subseteq Nat
  BY <1>1, <1>3, FS_Subset DEF Distributes
<1>5. IsFiniteSet(Outs(t, names))
  <2>1. Outs(t, names) = {<<t, o>> : o \in DOMAIN d.kept}
    BY DEF Outs
  <2> HIDE DEF d
  <2> DEFINE K == DOMAIN d.kept
             f == [o \in K |-> <<t, o>>]
  <2>2. f \in Surjection(K, Outs(t, names))
    BY <2>1 DEF Surjection
  <2>3. IsFiniteSet(K)
    BY <1>4
  <2> HIDE DEF K, f
  <2> QED BY <2>2, <2>3, FS_Surjection
<1>6. ASSUME NEW o \in Outs(t, names)
      PROVE  /\ o \in OutPoint /\ o[1] = t /\ o[2] \in DOMAIN d.kept
             /\ IsBalance(d.kept[o[2]])
             /\ d.kept[o[2]] \in PositivesOf(DOMAIN InHand(t, names))
  <2>1. PICK x \in DOMAIN d.kept : o = <<t, x>>
    BY DEF Outs
  <2>2. o[1] = t /\ o[2] = x
    BY <2>1
  <2>3. d.kept[x] \in PositivesOf(DOMAIN InHand(t, names)) /\ DOMAIN d.kept[x] # {}
    BY <1>1 DEF Distributes
  <2>4. x \in Nat
    BY <1>4
  <2> HIDE DEF d
  <2>5. d.kept[x] \in PositivesOf(Id)
    BY <1>1, <2>3, PositivesMore
  <2> QED BY <2>1, <2>2, <2>3, <2>4, <2>5 DEF OutPoint, IsBalance
<1>7. IsAmounts(d.burned)
  <2>1. d.burned \in AmountsOf(DOMAIN InHand(t, names))
    BY <1>1 DEF Distributes
  <2> HIDE DEF d
  <2> QED BY <1>1, <2>1, AmountType DEF IsAmounts, IsMap
<1> QED BY <1>4, <1>5, <1>6, <1>7

LEMMA NewEntryTyped ==
  ASSUME NEW t \in Tx, NEW n \in Name, updater.runes \in Nat
  PROVE  NewEntry(t, n) \in Entry
<1> DEFINE all == UNION {SUBSET Content[u].terms : u \in Tx}
           terms == IF Content[t].cenotaph THEN {} ELSE Content[t].terms
           premine == IF Content[t].cenotaph THEN 0 ELSE Content[t].premine
<1>1. terms \in all
  OBVIOUS
<1>2. premine \in Nat
  BY ContentAssumption
<1>3. NewEntry(t, n) = [rune |-> n, etching |-> t, number |-> updater.runes,
                        premine |-> premine, terms |-> terms, mints |-> 0, burned |-> 0]
  BY DEF NewEntry
<1> HIDE DEF terms, premine, all
<1>4. NewEntry(t, n) \in [rune : Name, etching : Tx, number : Nat, premine : Nat,
                          terms : all, mints : Nat, burned : Nat]
  BY <1>1, <1>2, <1>3
<1> QED BY <1>4 DEF Entry, all

LEMMA EndTyped ==
  ASSUME Typed, NEW t \in Tx, TxEnds(t)
  PROVE  Typed'
<1>1. PICK names : Etching(t, names)
  BY EndsEtching
<1>2. pc = "etching"
  BY EndsEtching
<1>3. /\ Ended(t, names)
      /\ names = {} \/ \E n \in Name : names = {n}
      /\ reserved' = reserved
         \/ reserved' = Put(reserved, updater.height, Latest(reserved, 0) + 1)
  BY <1>1, <1>2, EndSteps DEF Etching
<1>4. /\ updater.height \in Heights /\ updater.height \in DOMAIN mined
      /\ mined[updater.height] \in Seq(Tx) /\ updater.runes \in Nat
  BY <1>2 DEF Typed, WorkTyped, InBlock
<1>5. NewId \in Id /\ names \subseteq Name /\ Etched(names) \subseteq {NewId}
  BY <1>2, <1>3, InHandFacts DEF Etched
<1>6. MapsTyped(maps')
  <2>1. IsFiniteSet(DOMAIN maps'.balances)
    <3>1. IsFiniteSet(Outs(t, names)) /\ IsFiniteSet(DOMAIN maps.balances)
      BY <1>2, <1>3, OutsFacts DEF Typed, MapsTyped
    <3>2. DOMAIN maps'.balances = DOMAIN maps.balances \cup Outs(t, names)
      BY <1>3 DEF Ended
    <3> QED BY <3>1, <3>2, FS_Union
  <2>2. ASSUME NEW o \in DOMAIN maps'.balances
        PROVE  o \in OutPoint /\ IsBalance(maps'.balances[o]) /\ maps'.born[o] \in Heights
    <3>1. CASE o \in Outs(t, names)
      <4>1. maps'.balances[o] = Given(t, names).kept[o[2]] /\ maps'.born[o] = updater.height
        BY <1>3, <3>1 DEF Ended
      <4>2. o \in OutPoint /\ IsBalance(Given(t, names).kept[o[2]])
        BY <1>2, <1>3, <3>1, OutsFacts
      <4> QED BY <1>4, <4>1, <4>2
    <3>2. CASE o \notin Outs(t, names)
      <4>1. o \in DOMAIN maps.balances /\ maps'.balances[o] = maps.balances[o]
            /\ maps'.born[o] = maps.born[o]
        BY <1>3, <3>2 DEF Ended
      <4> QED BY <4>1 DEF Typed, MapsTyped
    <3> QED BY <3>1, <3>2
  <2>3. ASSUME NEW id \in DOMAIN maps'.entry
        PROVE  id \in Id /\ maps'.entry[id] \in Entry
    <3>1. CASE id \in Etched(names)
      <4>1. PICK n \in names : maps'.entry[id] = NewEntry(t, n)
        BY <1>3, <3>1 DEF Ended
      <4>2. n \in Name /\ id \in Id
        BY <1>5, <3>1
      <4> QED BY <1>4, <4>1, <4>2, NewEntryTyped
    <3>2. CASE id \notin Etched(names)
      <4>1. id \in DOMAIN maps.entry /\ maps'.entry[id] = maps.entry[id]
        BY <1>3, <3>2 DEF Ended
      <4> QED BY <4>1 DEF Typed, MapsTyped, IsMap
    <3> QED BY <3>1, <3>2
  <2>4. IsMap(maps'.entry, Id, Entry)
    BY <2>3 DEF IsMap
  <2>5. IsMap(maps'.id_of, Name, Id)
    <3>1. IsMap(maps.id_of, Name, Id)
      BY DEF Typed, MapsTyped
    <3>2. /\ DOMAIN maps'.id_of = DOMAIN maps.id_of \cup names
          /\ \A n \in names : maps'.id_of[n] = NewId
          /\ \A n \in DOMAIN maps.id_of \ names : maps'.id_of[n] = maps.id_of[n]
      BY <1>3 DEF Ended
    <3> QED BY <1>5, <3>1, <3>2 DEF IsMap
  <2>6. IsMap(maps'.rune_of, Tx, Name)
    <3>1. IsMap(maps.rune_of, Tx, Name)
      BY DEF Typed, MapsTyped
    <3>2. /\ DOMAIN maps'.rune_of \subseteq DOMAIN maps.rune_of \cup {t}
          /\ \A u \in DOMAIN maps'.rune_of :
               \/ maps'.rune_of[u] \in names
               \/ u \in DOMAIN maps.rune_of /\ maps'.rune_of[u] = maps.rune_of[u]
      BY <1>3 DEF Ended
    <3> QED BY <1>5, <3>1, <3>2 DEF IsMap
  <2> QED BY <1>3, <2>1, <2>2, <2>4, <2>5, <2>6 DEF Ended, MapsTyped
<1>7. /\ updater' = [height |-> updater'.height, burned |-> updater'.burned,
                     runes |-> updater'.runes, change_record |-> updater'.change_record]
      /\ updater'.height = updater.height
      /\ updater'.burned = Added(updater.burned, Given(t, names).burned)
      /\ updater'.runes = updater.runes + Cardinality(names)
      /\ updater'.change_record =
           RecordGrown(updater.change_record, Outs(t, names), {<<n, NewId, t>> : n \in names})
  BY <1>3 DEF Ended
<1>8. updater'.runes \in Nat
  <2>1. Cardinality(names) \in Nat
    <3>1. Cardinality({}) = 0
      BY FS_EmptySet
    <3>2. \A n \in Name : Cardinality({n}) = 1
      BY FS_Singleton
    <3>3. names = {} \/ \E n \in Name : names = {n}
      BY <1>3
    <3> QED BY <3>1, <3>2, <3>3
  <2> QED BY <1>4, <1>7, <2>1
<1>9. IsAmounts(updater'.burned)
  <2>1. IsAmounts(updater.burned) /\ IsAmounts(Given(t, names).burned)
    BY <1>2, <1>3, OutsFacts DEF Typed, WorkTyped
  <2> DEFINE f == updater.burned
             g == Given(t, names).burned
  <2>2. (\A id \in DOMAIN f : f[id] \in Nat) /\ (\A id \in DOMAIN g : g[id] \in Nat)
    BY <2>1 DEF IsAmounts, IsMap
  <2>3. /\ DOMAIN Added(f, g) = DOMAIN f \cup DOMAIN g
        /\ \A id \in DOMAIN Added(f, g) : Added(f, g)[id] \in Nat
    <3> HIDE DEF f, g
    <3> QED BY <2>2, AddedType
  <2> QED BY <1>7, <2>1, <2>3 DEF IsAmounts, IsMap
<1>10. RecordTyped(updater'.change_record)
  <2> DEFINE cr == updater.change_record
             cr2 == updater'.change_record
  <2>1. RecordTyped(cr)
    BY DEF Typed, WorkTyped
  <2>2. /\ cr2.removed = cr.removed /\ cr2.mints = cr.mints /\ cr2.burned = cr.burned
        /\ IsRecord(cr2)
    BY <1>7, <2>1 DEF RecordTyped, IsRecord, RecordGrown
  <2> HIDE DEF cr, cr2
  <2>3. RecordTyped(cr2)
    BY <2>1, <2>2 DEF RecordTyped
  <2> QED BY <2>3 DEF cr2
<1>11. frame' = NoFrame /\ IsAmounts(frame'.unallocated) /\ pc' = "tx" /\ mined' = mined
  BY <1>3, EmptyTyped, NewUpdaterFacts DEF Ended
<1>12. WorkTyped'
  BY <1>4, <1>7, <1>8, <1>9, <1>10, <1>11 DEF WorkTyped
<1>13. IsMap(runes', Heights, Nat)
  <2>1. /\ DOMAIN runes' = DOMAIN runes \cup {updater.height : n \in names}
        /\ \A g \in DOMAIN runes' : \/ runes'[g] = updater.runes + 1
                                    \/ g \in DOMAIN runes /\ runes'[g] = runes[g]
    BY <1>3 DEF Ended
  <2> QED BY <1>4, <2>1 DEF Typed, IsMap
<1>14. IsMap(reserved', Heights, Nat)
  <2>1. Latest(reserved, 0) \in Nat
    BY LatestTyped DEF Typed
  <2> QED BY <1>3, <1>4, <2>1 DEF Typed, IsMap, Put
<1> QED BY <1>3, <1>6, <1>11, <1>12, <1>13, <1>14 DEF Typed, Ended

(* The end of a block.                                                     *)
Finished ==
  /\ pc = "tx" /\ pc' = "idle"
  /\ DOMAIN updater.burned \subseteq DOMAIN maps.entry
  /\ maps'.balances = maps.balances /\ maps'.born = maps.born
  /\ maps'.id_of = maps.id_of /\ maps'.rune_of = maps.rune_of
  /\ DOMAIN maps'.entry = DOMAIN maps.entry
  /\ \A id \in DOMAIN updater.burned :
       maps'.entry[id] = OnceBurned(maps.entry[id], updater.burned[id])
  /\ \A id \in DOMAIN maps.entry \ DOMAIN updater.burned :
       maps'.entry[id] = maps.entry[id]
  /\ maps' = [balances |-> maps'.balances, born |-> maps'.born, entry |-> maps'.entry,
              id_of |-> maps'.id_of, rune_of |-> maps'.rune_of]
  /\ DOMAIN record' \subseteq DOMAIN record \cup {updater.height}
  /\ \A g \in DOMAIN record' :
       record'[g] = IF g = updater.height
                    THEN RecordBurned(updater.change_record, maps, DOMAIN updater.burned)
                    ELSE record[g]
  /\ runes' = Retained(runes, updater.height)
  /\ reserved' = Retained(reserved, updater.height)
  /\ updater' = NewUpdater(0, 0)
  /\ UNCHANGED <<frame, mined, base, orderly>>

LEMMA FinishSteps ==
  ASSUME Typed, FinishBlock
  PROVE  Finished
<1> DEFINE h == updater.height
           ids == DOMAIN updater.burned
           new == [id \in ids |-> OnceBurned(maps.entry[id], updater.burned[id])]
           done == RecordBurned(updater.change_record, maps, ids)
<1>1. /\ pc = "tx" /\ pc' = "idle"
      /\ ids \subseteq DOMAIN maps.entry
      /\ maps' = [maps EXCEPT !.entry = PutAll(maps.entry, new)]
      /\ record' = Retained(Put(record, h, done), h)
      /\ runes' = Retained(runes, h)
      /\ reserved' = Retained(reserved, h)
      /\ updater' = NewUpdater(0, 0)
      /\ UNCHANGED <<frame, mined, base, orderly>>
  BY DEF FinishBlock, RecordBurned
<1>2. maps = [balances |-> maps.balances, born |-> maps.born, entry |-> maps.entry,
              id_of |-> maps.id_of, rune_of |-> maps.rune_of]
  BY DEF Typed, MapsTyped
<1>3. DOMAIN new = ids /\ \A id \in ids : new[id] = OnceBurned(maps.entry[id], updater.burned[id])
  OBVIOUS
<1> HIDE DEF new, ids, done, h
<1>4. /\ maps'.balances = maps.balances /\ maps'.born = maps.born
      /\ maps'.id_of = maps.id_of /\ maps'.rune_of = maps.rune_of
      /\ maps'.entry = PutAll(maps.entry, new)
      /\ maps' = [balances |-> maps'.balances, born |-> maps'.born, entry |-> maps'.entry,
                  id_of |-> maps'.id_of, rune_of |-> maps'.rune_of]
  BY <1>1, <1>2
<1>5. IsUnion(maps'.entry, maps.entry, new)
  BY <1>4, PutAllFacts
<1>6. /\ DOMAIN maps'.entry = DOMAIN maps.entry
      /\ \A id \in ids : maps'.entry[id] = OnceBurned(maps.entry[id], updater.burned[id])
      /\ \A id \in DOMAIN maps.entry \ ids : maps'.entry[id] = maps.entry[id]
  BY <1>1, <1>3, <1>5 DEF IsUnion
<1>7. /\ DOMAIN record' \subseteq DOMAIN record \cup {h}
      /\ \A g \in DOMAIN record' : record'[g] = IF g = h THEN done ELSE record[g]
  <2>1. /\ DOMAIN Put(record, h, done) = DOMAIN record \cup {h}
        /\ \A g \in DOMAIN record \cup {h} :
             Put(record, h, done)[g] = IF g = h THEN done ELSE record[g]
    BY DEF Put
  <2> DEFINE all == Put(record, h, done)
  <2> HIDE DEF all
  <2>2. /\ DOMAIN Retained(all, h) = {g \in DOMAIN all : ~(g <= h - MaxReorgDepth)}
        /\ \A g \in DOMAIN Retained(all, h) : Retained(all, h)[g] = all[g]
    BY RetainedFacts
  <2>3. record' = Retained(all, h)
    BY <1>1 DEF all
  <2>4. DOMAIN record' \subseteq DOMAIN all /\ \A g \in DOMAIN record' : record'[g] = all[g]
    BY <2>2, <2>3
  <2> QED BY <2>1, <2>4 DEF all
<1> QED BY <1>1, <1>4, <1>6, <1>7 DEF Finished, ids, done, h

LEMMA RetainedTyped ==
  ASSUME NEW f, IsMap(f, Heights, Nat), NEW h
  PROVE  IsMap(Retained(f, h), Heights, Nat)
BY RetainedFacts DEF IsMap

LEMMA FinishTyped ==
  ASSUME Typed, FinishBlock
  PROVE  Typed'
<1>1. Finished
  BY FinishSteps
<1>2. ASSUME NEW id \in DOMAIN maps'.entry
      PROVE  id \in Id /\ maps'.entry[id] \in Entry
  <2>1. id \in DOMAIN maps.entry
    BY <1>1 DEF Finished
  <2>2. id \in Id /\ maps.entry[id] \in Entry
    BY <2>1 DEF Typed, MapsTyped, IsMap
  <2>3. CASE id \in DOMAIN updater.burned
    <3>1. updater.burned[id] \in Nat
      BY <2>3 DEF Typed, WorkTyped, IsAmounts, IsMap
    <3>2. maps'.entry[id] =
            WithBurned(maps.entry[id], maps.entry[id].burned + updater.burned[id])
      BY <1>1, <2>3 DEF Finished, OnceBurned, WithBurned
    <3>3. /\ maps.entry[id].mints \in Nat /\ IsEntry(maps.entry[id])
          /\ maps.entry[id].burned \in Nat
      BY <2>2, EntryTyped
    <3>4. maps'.entry[id] = Counted(maps.entry[id], maps.entry[id].mints,
                                    maps.entry[id].burned + updater.burned[id])
      BY <3>2, <3>3, EntryFacts
    <3>5. maps.entry[id].burned + updater.burned[id] \in Nat
      BY <3>1, <3>3
    <3> QED BY <2>2, <3>3, <3>4, <3>5, CountedTyped
  <2>4. CASE id \notin DOMAIN updater.burned
    BY <1>1, <2>1, <2>2, <2>4 DEF Finished
  <2> QED BY <2>2, <2>3, <2>4
<1>3. MapsTyped(maps')
  <2>1. IsMap(maps'.entry, Id, Entry)
    BY <1>2 DEF IsMap
  <2> QED BY <1>1, <2>1 DEF Finished, Typed, MapsTyped
<1>4. /\ updater'.burned = << >> /\ updater'.runes = 0
      /\ updater'.change_record = EmptyRecord
      /\ updater' = [height |-> updater'.height, burned |-> updater'.burned,
             runes |-> updater'.runes, change_record |-> updater'.change_record]
  BY <1>1, NewUpdaterFacts DEF Finished
<1>5. WorkTyped'
  <2>1. ~InBlock' /\ pc' = "idle" /\ frame' = frame
    BY <1>1 DEF Finished, InBlock
  <2> QED BY <1>4, <2>1, EmptyTyped DEF WorkTyped, Typed
<1>6. ASSUME NEW g \in DOMAIN record'
      PROVE  g \in Heights /\ RecordTyped(record'[g])
  <2>1. CASE g = updater.height
    <3> DEFINE cr == updater.change_record
               done == record'[g]
    <3>1. done = RecordBurned(cr, maps, DOMAIN updater.burned)
      BY <1>1, <2>1 DEF Finished
    <3>2. RecordTyped(cr) /\ g \in Heights
      BY <1>1, <2>1 DEF Finished, Typed, WorkTyped, InBlock
    <3>3. /\ done.removed = cr.removed /\ done.mints = cr.mints
          /\ done.burned = [id \in DOMAIN updater.burned |-> maps.entry[id].burned]
          /\ IsRecord(done)
      BY <3>1, <3>2 DEF RecordTyped, IsRecord, RecordBurned
    <3>4. IsAmounts(done.burned)
      <4>1. \A id \in DOMAIN updater.burned : id \in Id /\ maps.entry[id] \in Entry
        BY <1>1 DEF Finished, Typed, MapsTyped, IsMap
      <4>2. \A id \in DOMAIN updater.burned : maps.entry[id].burned \in Nat
        BY <4>1, EntryTyped
      <4> QED BY <3>3, <4>1, <4>2 DEF IsAmounts, IsMap
    <3> HIDE DEF cr, done
    <3>5. RecordTyped(done)
      BY <3>2, <3>3, <3>4 DEF RecordTyped
    <3> QED BY <3>2, <3>5 DEF done
  <2>2. CASE g # updater.height
    BY <1>1, <2>2 DEF Finished, Typed
  <2> QED BY <2>1, <2>2
<1>7. IsMap(runes', Heights, Nat) /\ IsMap(reserved', Heights, Nat)
  BY <1>1, RetainedTyped DEF Finished, Typed
<1> QED BY <1>1, <1>3, <1>5, <1>6, <1>7 DEF Finished, Typed

LEMMA UndoneTyped ==
  ASSUME NEW m, MapsTyped(m), NEW cr, RecordTyped(cr), NEW b, b = Undone(m, cr)
  PROVE  MapsTyped(b)
<1> DEFINE backs == [o \in DOMAIN cr.removed |-> cr.removed[o].balances]
           heights == [o \in DOMAIN cr.removed |-> cr.removed[o].height]
           reset == [id \in DOMAIN m.entry |-> Reset(m.entry[id], id, cr)]
           etched == {r[2] : r \in cr.runes}
           names == {r[1] : r \in cr.runes}
           txs == {r[3] : r \in cr.runes}
<1>1. /\ b.balances = Unspent(m.balances, cr, backs)
      /\ b.born = Unspent(m.born, cr, heights)
      /\ b.entry = Unetched(reset, etched)
      /\ b.id_of = Unetched(m.id_of, names)
      /\ b.rune_of = Unetched(m.rune_of, txs)
      /\ b = [balances |-> b.balances, born |-> b.born, entry |-> b.entry,
              id_of |-> b.id_of, rune_of |-> b.rune_of]
  BY DEF Undone
<1>2. /\ DOMAIN backs = DOMAIN cr.removed /\ DOMAIN heights = DOMAIN cr.removed
      /\ \A o \in DOMAIN cr.removed : /\ backs[o] = cr.removed[o].balances
                                      /\ heights[o] = cr.removed[o].height
      /\ DOMAIN reset = DOMAIN m.entry
      /\ \A id \in DOMAIN m.entry : reset[id] = Reset(m.entry[id], id, cr)
  OBVIOUS
<1> HIDE DEF backs, heights, reset, etched, names, txs
<1>3. /\ DOMAIN b.balances = (DOMAIN m.balances \cup DOMAIN cr.removed) \ cr.added
      /\ \A o \in DOMAIN b.balances :
           b.balances[o] = IF o \in DOMAIN cr.removed THEN backs[o] ELSE m.balances[o]
  <2> DEFINE g == Unspent(m.balances, cr, backs)
  <2>1. /\ DOMAIN g = (DOMAIN m.balances \cup DOMAIN backs) \ cr.added
        /\ \A x \in DOMAIN g : g[x] = IF x \in DOMAIN backs THEN backs[x] ELSE m.balances[x]
    BY DEF Unspent, Without, PutAll
  <2>2. b.balances = g
    BY <1>1
  <2> HIDE DEF g
  <2> QED BY <1>2, <2>1, <2>2
<1>4. /\ DOMAIN b.born = (DOMAIN m.born \cup DOMAIN cr.removed) \ cr.added
      /\ \A o \in DOMAIN b.born :
           b.born[o] = IF o \in DOMAIN cr.removed THEN heights[o] ELSE m.born[o]
  <2> DEFINE g == Unspent(m.born, cr, heights)
  <2>1. /\ DOMAIN g = (DOMAIN m.born \cup DOMAIN heights) \ cr.added
        /\ \A x \in DOMAIN g : g[x] = IF x \in DOMAIN heights THEN heights[x] ELSE m.born[x]
    BY DEF Unspent, Without, PutAll
  <2>2. b.born = g
    BY <1>1
  <2> HIDE DEF g
  <2> QED BY <1>2, <2>1, <2>2
<1>5. IsFiniteSet(DOMAIN b.balances) /\ DOMAIN b.born = DOMAIN b.balances
  <2>1. IsFiniteSet(DOMAIN m.balances \cup DOMAIN cr.removed)
    BY FS_Union DEF MapsTyped, RecordTyped
  <2> QED BY <1>3, <1>4, <2>1, FS_Subset DEF MapsTyped
<1>6. ASSUME NEW o \in DOMAIN b.balances
      PROVE  o \in OutPoint /\ IsBalance(b.balances[o]) /\ b.born[o] \in Heights
  <2>1. CASE o \in DOMAIN cr.removed
    <3>1. b.balances[o] = cr.removed[o].balances /\ b.born[o] = cr.removed[o].height
      BY <1>2, <1>3, <1>4, <1>5, <2>1
    <3> QED BY <2>1, <3>1 DEF RecordTyped
  <2>2. CASE o \notin DOMAIN cr.removed
    <3>1. /\ o \in DOMAIN m.balances
          /\ b.balances[o] = m.balances[o] /\ b.born[o] = m.born[o]
      BY <1>3, <1>4, <1>5, <2>2
    <3> QED BY <3>1 DEF MapsTyped
  <2> QED BY <2>1, <2>2
<1>7. ASSUME NEW id \in DOMAIN b.entry
      PROVE  id \in Id /\ b.entry[id] \in Entry
  <2>1. id \in DOMAIN m.entry /\ b.entry[id] = Reset(m.entry[id], id, cr)
    <3>1. DOMAIN b.entry = DOMAIN reset \ etched
          /\ \A x \in DOMAIN b.entry : b.entry[x] = reset[x]
      BY <1>1 DEF Unetched, Without
    <3> QED BY <1>2, <3>1
  <2>2. id \in Id /\ m.entry[id] \in Entry
    BY <2>1 DEF MapsTyped, IsMap
  <2> DEFINE x == IF id \in DOMAIN cr.mints THEN cr.mints[id] ELSE m.entry[id].mints
             y == IF id \in DOMAIN cr.burned THEN cr.burned[id] ELSE m.entry[id].burned
  <2>3. Reset(m.entry[id], id, cr) = Counted(m.entry[id], x, y)
    BY <2>2, EntryTyped, ResetFacts
  <2>4. x \in Nat /\ y \in Nat
    BY <2>2, EntryTyped DEF RecordTyped, IsAmounts, IsMap
  <2> HIDE DEF x, y
  <2> QED BY <2>1, <2>2, <2>3, <2>4, CountedTyped
<1>8. IsMap(b.entry, Id, Entry)
  BY <1>7 DEF IsMap
<1>9. IsMap(b.id_of, Name, Id)
  <2>1. DOMAIN b.id_of \subseteq DOMAIN m.id_of
        /\ \A n \in DOMAIN b.id_of : b.id_of[n] = m.id_of[n]
    BY <1>1 DEF Unetched, Without
  <2> QED BY <2>1 DEF MapsTyped, IsMap
<1>10. IsMap(b.rune_of, Tx, Name)
  <2>1. DOMAIN b.rune_of \subseteq DOMAIN m.rune_of
        /\ \A n \in DOMAIN b.rune_of : b.rune_of[n] = m.rune_of[n]
    BY <1>1 DEF Unetched, Without
  <2> QED BY <2>1 DEF MapsTyped, IsMap
<1> QED BY <1>1, <1>5, <1>6, <1>8, <1>9, <1>10 DEF MapsTyped

LEMMA RollBackTyped ==
  ASSUME Typed, RollBack
  PROVE  Typed'
<1>1. PICK h \in DOMAIN record :
        /\ maps' = Undone(maps, record[h])
        /\ record' = Without(record, {h})
        /\ runes' = Without(runes, {h})
        /\ reserved' = Without(reserved, {h})
  BY DEF RollBack
<1>2. pc = "idle" /\ UNCHANGED <<updater, frame, pc, orderly>>
  BY DEF RollBack
<1>3. MapsTyped(maps')
  BY <1>1, UndoneTyped DEF Typed
<1>4. /\ IsMap(runes', Heights, Nat) /\ IsMap(reserved', Heights, Nat)
      /\ DOMAIN record' \subseteq Heights
      /\ \A g \in DOMAIN record' : RecordTyped(record'[g])
  BY <1>1 DEF Typed, IsMap, Without
<1>5. WorkTyped'
  BY <1>2 DEF Typed, WorkTyped, InBlock
<1> QED BY <1>2, <1>3, <1>4, <1>5 DEF Typed

LEMMA OtherTyped ==
  ASSUME Typed, Restart \/ UNCHANGED vars \/ \E t \in Tx : CommitFails(t)
  PROVE  Typed'
<1>1. CASE Restart \/ UNCHANGED vars
  <2>1. /\ UNCHANGED <<maps, runes, reserved, record, updater, frame, mined>>
        /\ InBlock' => InBlock /\ pc' = pc
        /\ pc' \in {"idle", "tx", "etching", "halted"}
        /\ orderly' \in BOOLEAN
    BY <1>1 DEF Restart, vars, InBlock, Typed
  <2>2. WorkTyped'
    BY <2>1 DEF Typed, WorkTyped, InBlock
  <2> QED BY <2>1, <2>2 DEF Typed
<1>2. ASSUME NEW t \in Tx, CommitFails(t)
      PROVE  Typed'
  <2>1. /\ pc' = "halted" /\ frame' = NoFrame /\ updater' = NewUpdater(0, 0)
        /\ UNCHANGED <<maps, runes, reserved, record, mined, base, orderly>>
    BY <1>2 DEF CommitFails
  <2>2. WorkTyped'
    BY <2>1, EmptyTyped, NewUpdaterFacts DEF WorkTyped, InBlock
  <2> QED BY <2>1, <2>2 DEF Typed
<1> QED BY <1>1, <1>2

(* The maps hold values of their types, also after a start on a half       *)
(* indexed block.                                                          *)
THEOREM TypedInvariant == Spec => []Typed
<1>1. Init => Typed
  BY InitTyped
<1>2. Typed /\ [Next]_vars => Typed'
  BY StartTyped, BeginTyped, EndTyped, FinishTyped, RollBackTyped, OtherTyped DEF Next
<1> QED BY <1>1, <1>2, PTL DEF Spec

(* No unspent output is ever stored without a positive amount of some      *)
(* rune, and everything stored is of its type, for any transactions, any   *)
(* number of blocks, rollbacks and failures.                               *)
THEOREM TypeCorrect == Spec => []TypeOK
<1>1. Typed => TypeOK
  <2> SUFFICES ASSUME Typed PROVE TypeOK
    OBVIOUS
  <2>1. ASSUME NEW o \in DOMAIN maps.balances
        PROVE  /\ o \in OutPoint
               /\ IsMap(maps.balances[o], Id, Nat \ {0})
               /\ maps.balances[o] # << >>
    <3>1. o \in OutPoint /\ maps.balances[o] \in PositivesOf(Id)
          /\ DOMAIN maps.balances[o] # {}
      BY DEF Typed, MapsTyped, IsBalance
    <3>2. /\ DOMAIN maps.balances[o] \subseteq Id
          /\ \A x \in DOMAIN maps.balances[o] :
               maps.balances[o][x] \in Nat /\ maps.balances[o][x] > 0
      BY <3>1, PositivesType
    <3>3. DOMAIN << >> = {}
      OBVIOUS
    <3> QED BY <3>1, <3>2, <3>3 DEF IsMap
  <2>2. IsMap(maps.born, OutPoint, Heights)
    BY DEF Typed, MapsTyped, IsMap
  <2> QED BY <2>1, <2>2 DEF Typed, MapsTyped, WorkTyped, TypeOK, Heights
<1> QED BY <1>1, TypedInvariant, PTL

-----------------------------------------------------------------------------
(* Where balances lie, of which runes, and what they sum up to: in the     *)
(* maps and in every snapshot that a rollback brings back.                 *)
Located(m, f, H) ==
  /\ \A o \in DOMAIN m.balances :
       /\ DOMAIN m.balances[o] \subseteq DOMAIN m.entry
       /\ m.born[o] \in H
       /\ o[1] \in ToSet(f[m.born[o]])
  /\ \A id \in DOMAIN m.entry :
       id[1] \in H /\ m.entry[id].etching \in ToSet(f[id[1]])

Resets(cr) == DOMAIN cr.burned \cup DOMAIN cr.mints

AtWork ==
  /\ DOMAIN updater.burned \subseteq DOMAIN maps.entry
  /\ DOMAIN frame.unallocated \subseteq DOMAIN maps.entry
  /\ DOMAIN updater.change_record.mints \subseteq DOMAIN maps.entry
  /\ pc # "etching" => frame.unallocated = << >>
  /\ ~InBlock => updater.burned = << >> /\ DOMAIN updater.change_record.mints = {}
  /\ pc = "etching" => \A t \in frame.tx : t \in ToSet(mined[updater.height])

ResetsResolve ==
  \A h \in DOMAIN record :
    /\ Resets(record[h]) \subseteq DOMAIN maps.entry
    /\ \A g \in DOMAIN base :
         h < g => Resets(record[h]) \subseteq DOMAIN base[g].maps.entry

(* The indexed chain has no gap and no transaction twice.                  *)
Chained ==
  /\ \E hi \in Int : DOMAIN mined = FirstHeight..hi
  /\ DOMAIN record \subseteq DOMAIN mined
  /\ \A g, h \in DOMAIN mined :
       \A t \in ToSet(mined[g]) : t \in ToSet(mined[h]) => g = h

Resolved ==
  /\ Chained
  /\ Located(maps, mined, DOMAIN mined)
  /\ \A g \in DOMAIN base : Located(base[g].maps, mined, Lower(g))
  /\ AtWork
  /\ ResetsResolve

On(m, id) ==
  SumFunctionOnSet([o \in DOMAIN m.balances |-> Amount(m.balances[o], id)],
                   DOMAIN m.balances)

Balanced(m, g, u) ==
  \A id \in DOMAIN m.entry :
    Supply(m.entry[id]) =
      On(m, id) + m.entry[id].burned + Amount(g, id) + Amount(u, id)

Conserved ==
  /\ pc # "halted" => Balanced(maps, updater.burned, frame.unallocated)
  /\ \A g \in DOMAIN base : Balanced(base[g].maps, << >>, << >>)

ResolvedInductive == orderly => Resolved
ConservedInductive == orderly => Conserved

LEMMA LocatedMore ==
  ASSUME NEW m, NEW f, NEW H, Located(m, f, H), NEW k, NEW K,
         \A h \in H : h \in K /\ ToSet(f[h]) \subseteq ToSet(k[h])
  PROVE  Located(m, k, K)
BY DEF Located

LEMMA InitResolved == Init => Resolved
<1> SUFFICES ASSUME Init PROVE Resolved
  OBVIOUS
<1>1. /\ DOMAIN mined = {} /\ DOMAIN record = {} /\ DOMAIN base = {}
      /\ DOMAIN maps.balances = {} /\ DOMAIN maps.entry = {}
      /\ pc = "idle" /\ frame.unallocated = << >> /\ updater.burned = << >>
      /\ DOMAIN updater.change_record.mints = {}
  BY DEF Init, EmptyMaps, NoFrame, NewUpdater, EmptyRecord
<1>2. DOMAIN mined = FirstHeight..(FirstHeight - 1) /\ FirstHeight - 1 \in Int
  BY <1>1, LedgerAssumption
<1>3. Chained
  BY <1>1, <1>2 DEF Chained
<1>4. AtWork
  BY <1>1 DEF AtWork, InBlock
<1> QED BY <1>1, <1>3, <1>4 DEF Resolved, Located, ResetsResolve

(* What a step does to the history.                                        *)
BlockAdded(h) ==
  /\ h \in Nat
  /\ \A g \in DOMAIN mined : g \in Nat /\ g < h
  /\ DOMAIN base = DOMAIN mined
  /\ DOMAIN mined' = DOMAIN mined \cup {h} /\ DOMAIN base' = DOMAIN mined'
  /\ ToSet(mined'[h]) = {}
  /\ base'[h].maps = maps
  /\ \A g \in DOMAIN mined : mined'[g] = mined[g] /\ base'[g] = base[g]
  /\ Lower(h)' = DOMAIN mined
  /\ \A g \in DOMAIN base : Lower(g)' = Lower(g)

LEMMA StartHistory ==
  ASSUME Sound, StartBlock, NEW h, h = NextHeight
  PROVE  BlockAdded(h)
<1>1. /\ base' = Put(base, h, Snapshot) /\ mined' = Put(mined, h, << >>)
  BY DEF StartBlock
<1>2. /\ DOMAIN base = DOMAIN mined
      /\ \A g \in DOMAIN mined : g \in Nat /\ g < h
      /\ h \in Nat
  <2>1. ~InBlock /\ Window /\ DOMAIN base = DOMAIN mined
    BY DEF StartBlock, InBlock, Sound, Shape
  <2> QED BY <2>1, WindowFacts DEF Sound, Shape
<1>3. /\ DOMAIN mined' = DOMAIN mined \cup {h} /\ mined'[h] = << >>
      /\ \A g \in DOMAIN mined : mined'[g] = mined[g] /\ base'[g] = base[g]
      /\ DOMAIN base' = DOMAIN mined' /\ base'[h].maps = maps
  BY <1>1, <1>2 DEF Put, Snapshot
<1>4. ToSet(<< >>) = {}
  BY DEF ToSet
<1>5. Lower(h)' = DOMAIN mined
  <2>1. \A f : f \in DOMAIN mined' /\ f < h <=> f \in DOMAIN mined
    BY <1>2, <1>3
  <2> QED BY <2>1 DEF Lower
<1>6. \A g \in DOMAIN base : Lower(g)' = Lower(g)
  BY <1>2, <1>3 DEF Lower
<1> QED BY <1>2, <1>3, <1>4, <1>5, <1>6 DEF BlockAdded

LEMMA StartResolved ==
  ASSUME Sound, Resolved, StartBlock
  PROVE  Resolved'
<1>0. PICK h : h = NextHeight
  OBVIOUS
<1>1. BlockAdded(h)
  BY <1>0, StartHistory
<1>2. /\ maps' = maps /\ record' = record /\ frame' = frame
      /\ pc = "idle" /\ pc' = "tx"
      /\ updater'.burned = << >> /\ updater'.change_record = EmptyRecord
      /\ frame.unallocated = << >>
  <2>1. updater' = NewUpdater(NextHeight, Latest(runes, 0))
    BY DEF StartBlock
  <2> QED BY <2>1, NewUpdaterFacts DEF StartBlock, Resolved, AtWork
<1>3. \A m, H : Located(m, mined, H) /\ H \subseteq DOMAIN mined
                  => Located(m, mined', H)
  BY <1>1, LocatedMore DEF BlockAdded
<1>4. Located(maps', mined', DOMAIN mined')
  <2>1. Located(maps, mined, DOMAIN mined)
    BY DEF Resolved
  <2> QED BY <1>1, <1>2, <2>1, LocatedMore DEF BlockAdded
<1>5. ASSUME NEW g \in DOMAIN base'
      PROVE  Located(base'[g].maps, mined', Lower(g)')
  <2>1. CASE g = h
    BY <1>1, <1>3, <2>1 DEF BlockAdded, Resolved
  <2>2. CASE g \in DOMAIN base
    <3>1. Lower(g) \subseteq DOMAIN mined
      BY DEF Lower
    <3> QED BY <1>1, <1>3, <2>2, <3>1 DEF BlockAdded, Resolved
  <2> QED BY <1>1, <2>1, <2>2 DEF BlockAdded
<1>6. Chained'
  <2>1. \E hi \in Int : DOMAIN mined' = FirstHeight..hi
    <3>1. PICK hi \in Int : DOMAIN mined = FirstHeight..hi
      BY DEF Resolved, Chained
    <3>2. /\ h >= FirstHeight
          /\ DOMAIN record = {} => h = FirstHeight
          /\ DOMAIN record # {} => h - 1 \in DOMAIN record
      <4>1. Window
        BY DEF Sound, Shape
      <4>2. CASE DOMAIN record # {}
        <5>1. PICK lo \in FirstHeight..LastHeight :
                /\ lo <= NextHeight - 1
                /\ DOMAIN record = lo..(NextHeight - 1)
          BY <4>1, <4>2, WindowFacts
        <5>2. NextHeight \in Nat /\ NextHeight >= FirstHeight
          BY <4>1, WindowFacts
        <5> QED BY <1>0, <4>2, <5>1, <5>2, LedgerAssumption
      <4> QED BY <1>0, <4>1, <4>2, WindowFacts
    <3>3. \A g \in DOMAIN mined : g \in Nat /\ g < h
      BY <1>1 DEF BlockAdded
    <3>4. DOMAIN record \subseteq DOMAIN mined
      BY DEF Resolved, Chained
    <3>5. DOMAIN mined = FirstHeight..(h - 1)
      <4>1. h \in Nat /\ FirstHeight \in Nat
        BY <1>1, LedgerAssumption DEF BlockAdded
      <4>2. \A g \in Int : g \in DOMAIN mined <=> FirstHeight <= g /\ g <= hi
        BY <3>1, <4>1
      <4>3. CASE DOMAIN record = {}
        <5>1. \A g \in Int : ~(g \in DOMAIN mined)
          BY <3>2, <3>3, <4>1, <4>2, <4>3
        <5>2. FirstHeight..hi = {} /\ FirstHeight..(h - 1) = {}
          BY <3>1, <3>2, <4>1, <4>3, <5>1
        <5> QED BY <3>1, <5>2
      <4>4. CASE DOMAIN record # {}
        <5>1. h - 1 <= hi /\ FirstHeight <= h - 1
          BY <3>2, <3>4, <4>1, <4>2, <4>4
        <5>2. hi \in DOMAIN mined
          BY <4>1, <4>2, <5>1
        <5>3. hi = h - 1
          BY <3>3, <4>1, <5>1, <5>2
        <5> QED BY <3>1, <5>3
      <4> QED BY <4>3, <4>4
    <3>6. FirstHeight..(h - 1) \cup {h} = FirstHeight..h
      BY <1>1, <3>2, LedgerAssumption DEF BlockAdded
    <3> QED BY <1>1, <3>5, <3>6 DEF BlockAdded
  <2>2. ASSUME NEW i \in DOMAIN mined', NEW j \in DOMAIN mined',
               NEW t \in ToSet(mined'[i]), t \in ToSet(mined'[j])
        PROVE  i = j
    <3>1. i \in DOMAIN mined /\ j \in DOMAIN mined
      BY <1>1, <2>2 DEF BlockAdded
    <3> QED BY <1>1, <2>2, <3>1 DEF BlockAdded, Resolved, Chained
  <2> QED BY <1>1, <1>2, <2>1, <2>2 DEF Resolved, Chained, BlockAdded
<1>7. AtWork'
  <2>1. DOMAIN << >> = {} /\ DOMAIN EmptyRecord.mints = {}
    BY DEF EmptyRecord
  <2> QED BY <1>2, <2>1 DEF AtWork, InBlock
<1>8. ResetsResolve'
  <2>1. ASSUME NEW f \in DOMAIN record', NEW g \in DOMAIN base', f < g
        PROVE  Resets(record'[f]) \subseteq DOMAIN base'[g].maps.entry
    BY <1>1, <1>2, <2>1 DEF BlockAdded, Resolved, ResetsResolve
  <2> QED BY <1>2, <2>1 DEF Resolved, ResetsResolve
<1> QED BY <1>4, <1>5, <1>6, <1>7, <1>8 DEF Resolved

TxAdded(t, h) ==
  /\ h = updater.height /\ updater'.height = h
  /\ h \in Nat /\ h \in DOMAIN mined
  /\ t \notin MinedTx
  /\ DOMAIN mined' = DOMAIN mined
  /\ ToSet(mined'[h]) = ToSet(mined[h]) \cup {t}
  /\ \A g \in DOMAIN mined : g # h => mined'[g] = mined[g]
  /\ \A g \in DOMAIN mined : ToSet(mined[g]) \subseteq MinedTx
  /\ base' = base /\ record' = record
  /\ \A g \in DOMAIN base : Lower(g)' = Lower(g)

LEMMA BeginHistory ==
  ASSUME Typed, NEW t \in Tx, Begun(t), NEW h, h = updater.height
  PROVE  TxAdded(t, h)
<1>1. /\ t \notin MinedTx /\ updater'.height = h
      /\ mined' = [mined EXCEPT ![h] = Append(mined[h], t)]
      /\ base' = base /\ record' = record
  BY DEF Begun
<1>2. h \in Nat /\ h \in DOMAIN mined /\ mined[h] \in Seq(Tx)
  BY LedgerAssumption DEF Begun, Typed, WorkTyped, InBlock, Heights
<1>3. /\ DOMAIN mined' = DOMAIN mined /\ mined'[h] = Append(mined[h], t)
      /\ \A g \in DOMAIN mined : g # h => mined'[g] = mined[g]
  BY <1>1, <1>2
<1>4. ToSet(mined'[h]) = ToSet(mined[h]) \cup {t}
  BY <1>2, <1>3, AppendFacts
<1>5. \A g \in DOMAIN mined : ToSet(mined[g]) \subseteq MinedTx
  BY DEF MinedTx
<1>6. \A g \in DOMAIN base : Lower(g)' = Lower(g)
  BY <1>3 DEF Lower
<1> QED BY <1>1, <1>2, <1>3, <1>4, <1>5, <1>6 DEF TxAdded

LEMMA BeginResolved ==
  ASSUME Sound, Typed, Resolved, NEW t \in Tx, TxBegins(t)
  PROVE  Resolved'
<1>0. PICK h : h = updater.height
  OBVIOUS
<1>1. Begun(t) /\ TxAdded(t, h)
  BY <1>0, BeginSteps, BeginHistory
<1>2. \A m, H : Located(m, mined, H) /\ H \subseteq DOMAIN mined
                  => Located(m, mined', H)
  <2>1. \A g \in DOMAIN mined : ToSet(mined[g]) \subseteq ToSet(mined'[g])
    BY <1>1 DEF TxAdded
  <2> QED BY <2>1, LocatedMore
<1>3. Located(maps', mined', DOMAIN mined')
  <2>1. Located(maps, mined', DOMAIN mined')
    BY <1>1, <1>2 DEF TxAdded, Resolved
  <2>2. ASSUME NEW o \in DOMAIN maps'.balances
        PROVE  /\ o \in DOMAIN maps.balances
               /\ maps'.balances[o] = maps.balances[o] /\ maps'.born[o] = maps.born[o]
               /\ DOMAIN maps'.entry = DOMAIN maps.entry
    BY <1>1 DEF Begun
  <2>3. ASSUME NEW id \in DOMAIN maps'.entry
        PROVE  /\ id \in DOMAIN maps.entry
               /\ maps'.entry[id].etching = maps.entry[id].etching
    BY BeginKeepsRunes DEF SameRunes
  <2> QED BY <2>1, <2>2, <2>3 DEF Located
<1>4. ASSUME NEW g \in DOMAIN base'
      PROVE  Located(base'[g].maps, mined', Lower(g)')
  <2>1. Lower(g) \subseteq DOMAIN mined
    BY DEF Lower
  <2> QED BY <1>1, <1>2, <2>1 DEF TxAdded, Resolved
<1>5. Chained'
  <2>1. ASSUME NEW i \in DOMAIN mined', NEW j \in DOMAIN mined',
               NEW u \in ToSet(mined'[i]), u \in ToSet(mined'[j])
        PROVE  i = j
    <3>1. CASE u = t
      BY <1>1, <2>1, <3>1 DEF TxAdded
    <3>2. CASE u # t
      <4>1. u \in ToSet(mined[i]) /\ u \in ToSet(mined[j])
        BY <1>1, <2>1, <3>2 DEF TxAdded
      <4> QED BY <1>1, <4>1 DEF TxAdded, Resolved, Chained
    <3> QED BY <3>1, <3>2
  <2> QED BY <1>1, <2>1 DEF TxAdded, Resolved, Chained
<1>6. AtWork'
  <2>1. /\ updater'.burned = updater.burned
        /\ updater'.change_record =
             RecordBegun(updater.change_record, maps, Spent(t), Minters(t))
        /\ frame'.unallocated = Added(Held(Spent(t)), MintedBy(t))
        /\ frame'.tx = {t} /\ pc' = "etching"
        /\ DOMAIN maps'.entry = DOMAIN maps.entry
    BY <1>1 DEF Begun
  <2>2. DOMAIN updater'.change_record.mints =
          DOMAIN updater.change_record.mints \cup Minters(t)
    <3>1. IsRecord(updater.change_record)
      BY DEF Typed, WorkTyped, RecordTyped
    <3>2. updater'.change_record.mints =
            FirstCounts(updater.change_record.mints, maps.entry, Minters(t))
      BY <2>1, <3>1 DEF RecordBegun, IsRecord
    <3> HIDE DEF Minters
    <3> QED BY <3>2 DEF FirstCounts, PutAll
  <2>3. DOMAIN frame'.unallocated = DOMAIN Held(Spent(t)) \cup DOMAIN MintedBy(t)
    BY <2>1 DEF Added
  <2>4. DOMAIN MintedBy(t) = Minters(t) /\ Minters(t) \subseteq DOMAIN maps.entry
    BY DEF MintedBy, Minters
  <2>5. DOMAIN Held(Spent(t)) \subseteq DOMAIN maps.entry
    <3>1. DOMAIN Held(Spent(t)) = UNION {DOMAIN maps.balances[o] : o \in Spent(t)}
      BY HeldTyped
    <3>2. \A o \in Spent(t) : DOMAIN maps.balances[o] \subseteq DOMAIN maps.entry
      BY DEF Spent, Resolved, Located
    <3> QED BY <3>1, <3>2
  <2>6. t \in ToSet(mined'[updater'.height])
    BY <1>1 DEF TxAdded
  <2>7. /\ DOMAIN updater.burned \subseteq DOMAIN maps.entry
        /\ DOMAIN updater.change_record.mints \subseteq DOMAIN maps.entry
    BY DEF Resolved, AtWork
  <2> QED BY <2>1, <2>2, <2>3, <2>4, <2>5, <2>6, <2>7 DEF AtWork, InBlock
<1>7. ResetsResolve'
  <2>1. DOMAIN maps'.entry = DOMAIN maps.entry /\ base' = base /\ record' = record
    BY <1>1 DEF Begun
  <2> QED BY <2>1 DEF Resolved, ResetsResolve
<1> QED BY <1>3, <1>4, <1>5, <1>6, <1>7 DEF Resolved

LEMMA EndResolved ==
  ASSUME Sound, Tally, Typed, Resolved, NEW t \in Tx, TxEnds(t)
  PROVE  Resolved'
<1>1. /\ pc = "etching" /\ frame.tx = {t}
      /\ \E names : Etching(t, names)
  BY EndsEtching
<1>2. PICK names : Etching(t, names)
  BY <1>1
<1>3. names = {} \/ \E n \in Name : names = {n}
  BY <1>2 DEF Etching
<1>4. Ended(t, names)
  BY <1>1, <1>2, EndSteps DEF Etching
<1>5. /\ record' = record /\ mined' = mined /\ base' = base
      /\ DOMAIN maps'.entry = DOMAIN maps.entry \cup Etched(names)
  BY <1>4 DEF Ended
<1>6. /\ t \in ToSet(mined[updater.height]) /\ updater.height \in DOMAIN mined
      /\ updater.height = NextHeight
  BY <1>1 DEF Resolved, AtWork, Sound, Shape, InBlock, Typed, WorkTyped
<1>7. DOMAIN InHand(t, names) \subseteq DOMAIN maps'.entry
  <2>1. DOMAIN InHand(t, names) = DOMAIN frame.unallocated \cup Premined(t, names)
    BY <1>1, <1>3, InHandFacts
  <2>2. DOMAIN frame.unallocated \subseteq DOMAIN maps.entry
    BY DEF Resolved, AtWork
  <2>3. Premined(t, names) \subseteq Etched(names)
    BY DEF Premined
  <2> QED BY <1>5, <2>1, <2>2, <2>3
<1>8. Located(maps', mined', DOMAIN mined')
  <2>1. ASSUME NEW o \in DOMAIN maps'.balances
        PROVE  /\ DOMAIN maps'.balances[o] \subseteq DOMAIN maps'.entry
               /\ maps'.born[o] \in DOMAIN mined
               /\ o[1] \in ToSet(mined[maps'.born[o]])
    <3>1. CASE o \in Outs(t, names)
      <4>1. /\ maps'.balances[o] = Given(t, names).kept[o[2]]
            /\ maps'.born[o] = updater.height
        BY <1>4, <3>1 DEF Ended
      <4>2. /\ o[1] = t
            /\ Given(t, names).kept[o[2]] \in PositivesOf(DOMAIN InHand(t, names))
        BY <1>1, <1>3, <3>1, OutsFacts
      <4>3. DOMAIN Given(t, names).kept[o[2]] \subseteq DOMAIN InHand(t, names)
        BY <4>2, PositivesType
      <4> QED BY <1>6, <1>7, <4>1, <4>2, <4>3
    <3>2. CASE o \notin Outs(t, names)
      <4>1. /\ o \in DOMAIN maps.balances
            /\ maps'.balances[o] = maps.balances[o] /\ maps'.born[o] = maps.born[o]
        BY <1>4, <3>2 DEF Ended
      <4> QED BY <1>5, <4>1 DEF Resolved, Located
    <3> QED BY <3>1, <3>2
  <2>2. ASSUME NEW id \in DOMAIN maps'.entry
        PROVE  id[1] \in DOMAIN mined /\ maps'.entry[id].etching \in ToSet(mined[id[1]])
    <3>1. CASE id \in Etched(names)
      <4>1. id[1] = updater.height
        BY <3>1 DEF Etched, NewId
      <4>2. maps'.entry[id].etching = t
        <5>1. PICK n \in names : maps'.entry[id] = NewEntry(t, n)
          BY <1>4, <3>1 DEF Ended
        <5> QED BY <5>1 DEF NewEntry
      <4> QED BY <1>6, <4>1, <4>2
    <3>2. CASE id \notin Etched(names)
      <4>1. id \in DOMAIN maps.entry /\ maps'.entry[id] = maps.entry[id]
        BY <1>4, <3>2 DEF Ended
      <4> QED BY <4>1 DEF Resolved, Located
    <3> QED BY <3>1, <3>2
  <2> QED BY <1>5, <2>1, <2>2 DEF Located
<1>9. \A g \in DOMAIN base' : Located(base'[g].maps, mined', Lower(g)')
  <2>1. \A g : Lower(g)' = Lower(g)
    BY <1>5 DEF Lower
  <2> QED BY <1>5, <2>1 DEF Resolved
<1>10. Chained'
  BY <1>5 DEF Resolved, Chained
<1>11. AtWork'
  <2>1. /\ updater'.burned = Added(updater.burned, Given(t, names).burned)
        /\ updater'.change_record =
             RecordGrown(updater.change_record, Outs(t, names), {<<n, NewId, t>> : n \in names})
        /\ frame' = NoFrame /\ pc' = "tx"
    BY <1>4 DEF Ended
  <2>2. updater'.change_record.mints = updater.change_record.mints
    <3>1. IsRecord(updater.change_record)
      BY DEF Typed, WorkTyped, RecordTyped
    <3> QED BY <2>1, <3>1 DEF RecordGrown, IsRecord
  <2>3. DOMAIN updater'.burned \subseteq DOMAIN maps'.entry
    <3>1. DOMAIN updater'.burned = DOMAIN updater.burned \cup DOMAIN Given(t, names).burned
      BY <2>1 DEF Added
    <3>2. Given(t, names).burned \in AmountsOf(DOMAIN InHand(t, names))
      BY <1>1, <1>3, InHandFacts DEF Distributes
    <3>3. DOMAIN Given(t, names).burned \subseteq DOMAIN InHand(t, names)
      BY <3>2, AmountType
    <3> QED BY <1>5, <1>7, <3>1, <3>3 DEF Resolved, AtWork
  <2>4. frame'.unallocated = << >> /\ DOMAIN << >> = {}
    BY <2>1, NewUpdaterFacts
  <2> QED BY <1>5, <2>1, <2>2, <2>3, <2>4 DEF Resolved, AtWork, InBlock
<1>12. ResetsResolve'
  BY <1>5 DEF Resolved, ResetsResolve
<1> QED BY <1>8, <1>9, <1>10, <1>11, <1>12 DEF Resolved

LEMMA FinishResolved ==
  ASSUME Sound, Typed, Resolved, FinishBlock
  PROVE  Resolved'
<1>0. PICK h : h = updater.height
  OBVIOUS
<1>1. Finished
  BY FinishSteps
<1>2. /\ DOMAIN maps'.entry = DOMAIN maps.entry
      /\ mined' = mined /\ base' = base /\ frame' = frame
      /\ DOMAIN record' \subseteq DOMAIN record \cup {h}
  BY <1>0, <1>1 DEF Finished
<1>3. /\ h \in DOMAIN mined /\ h \in Nat
      /\ \A g \in DOMAIN base : g \in Nat /\ g <= h
  <2>1. InBlock
    BY <1>1 DEF Finished, InBlock
  <2> QED BY <1>0, <2>1, InBlockFacts DEF Sound, Shape
<1>4. Located(maps', mined', DOMAIN mined')
  <2>1. \A id \in DOMAIN maps'.entry : /\ id \in DOMAIN maps.entry
                                       /\ maps'.entry[id].etching = maps.entry[id].etching
    BY FinishKeepsRunes DEF SameRunes
  <2>2. maps'.balances = maps.balances /\ maps'.born = maps.born
    BY <1>1 DEF Finished
  <2> QED BY <1>2, <2>1, <2>2 DEF Resolved, Located
<1>5. \A g \in DOMAIN base' : Located(base'[g].maps, mined', Lower(g)')
  <2>1. \A g : Lower(g)' = Lower(g)
    BY <1>2 DEF Lower
  <2> QED BY <1>2, <2>1 DEF Resolved
<1>6. Chained'
  BY <1>2, <1>3 DEF Resolved, Chained
<1>7. AtWork'
  <2>1. /\ pc = "tx" /\ pc' = "idle"
        /\ updater'.burned = << >> /\ updater'.change_record = EmptyRecord
    BY <1>1, NewUpdaterFacts DEF Finished
  <2>2. DOMAIN << >> = {} /\ DOMAIN EmptyRecord.mints = {}
    BY DEF EmptyRecord
  <2> QED BY <1>2, <2>1, <2>2 DEF Resolved, AtWork, InBlock
<1>8. ASSUME NEW f \in DOMAIN record'
      PROVE  /\ Resets(record'[f]) \subseteq DOMAIN maps'.entry
             /\ \A g \in DOMAIN base' :
                  f < g => Resets(record'[f]) \subseteq DOMAIN base'[g].maps.entry
  <2>1. CASE f = h
    <3>1. record'[f] = RecordBurned(updater.change_record, maps, DOMAIN updater.burned)
      BY <1>0, <1>1, <2>1 DEF Finished
    <3>2. IsRecord(updater.change_record)
      BY DEF Typed, WorkTyped, RecordTyped
    <3>3. /\ DOMAIN record'[f].burned = DOMAIN updater.burned
          /\ record'[f].mints = updater.change_record.mints
      BY <3>1, <3>2 DEF RecordBurned, IsRecord
    <3>4. Resets(record'[f]) \subseteq DOMAIN maps.entry
      BY <3>3 DEF Resets, Resolved, AtWork
    <3>5. \A g \in DOMAIN base : ~(f < g)
      BY <1>3, <2>1
    <3> QED BY <1>2, <3>4, <3>5
  <2>2. CASE f # h
    <3>1. f \in DOMAIN record /\ record'[f] = record[f]
      BY <1>0, <1>1, <2>2 DEF Finished
    <3> QED BY <1>2, <3>1 DEF Resolved, ResetsResolve
  <2> QED BY <2>1, <2>2
<1> QED BY <1>4, <1>5, <1>6, <1>7, <1>8 DEF Resolved, ResetsResolve

BlockRemoved(h) ==
  /\ h \in Nat /\ h \in DOMAIN base /\ DOMAIN base = DOMAIN mined
  /\ \A g \in DOMAIN mined : g \in Nat /\ g <= h
  /\ maps' = base[h].maps
  /\ DOMAIN mined' = Lower(h) /\ DOMAIN base' = Lower(h)
  /\ \A g \in Lower(h) : /\ g \in DOMAIN mined /\ g \in Nat /\ g < h
                         /\ mined'[g] = mined[g] /\ base'[g] = base[g]
                         /\ Lower(g)' = Lower(g) /\ Lower(g) \subseteq Lower(h)
  /\ h \in DOMAIN record
  /\ DOMAIN record' = DOMAIN record \ {h}
  /\ \A g \in DOMAIN record' : g \in Nat /\ g < h /\ record'[g] = record[g]
  /\ pc = "idle" /\ UNCHANGED <<updater, frame, pc>>

LEMMA RollBackHistory ==
  ASSUME Sound, RollBack, NEW h, h = Max(DOMAIN record)
  PROVE  BlockRemoved(h)
<1>1. /\ h \in Nat /\ h \in DOMAIN base /\ NextHeight = h + 1
      /\ maps' = base[h].maps
      /\ mined' = Without(mined, {h})
      /\ base' = Without(base, {h})
      /\ record' = Without(record, {h})
      /\ pc = "idle" /\ UNCHANGED <<updater, frame, pc>>
  BY RollBackFacts
<1>2. /\ DOMAIN base = DOMAIN mined
      /\ \A g \in DOMAIN mined : g \in Nat /\ g <= h
  <2>1. \A g \in DOMAIN mined : g \in Nat /\ g < h + 1
    BY <1>1 DEF Sound, Shape, InBlock
  <2> QED BY <1>1, <2>1 DEF Sound, Shape
<1>3. /\ DOMAIN mined' = DOMAIN mined \ {h}
      /\ \A g \in DOMAIN mined' : mined'[g] = mined[g] /\ base'[g] = base[g]
      /\ DOMAIN base' = DOMAIN base \ {h}
      /\ DOMAIN record' = DOMAIN record \ {h}
      /\ \A g \in DOMAIN record' : record'[g] = record[g]
  BY <1>1, <1>2 DEF Without
<1>4. DOMAIN mined' = Lower(h) /\ DOMAIN base' = Lower(h)
  <2>1. \A g : g \in DOMAIN mined' <=> g \in DOMAIN mined /\ g < h
    BY <1>1, <1>2, <1>3
  <2> QED BY <1>2, <1>3, <2>1 DEF Lower
<1>5. \A g \in Lower(h) : g \in DOMAIN mined /\ g \in Nat /\ g < h
  BY <1>2 DEF Lower
<1>6. ASSUME NEW g \in Lower(h)
      PROVE  Lower(g)' = Lower(g) /\ Lower(g) \subseteq Lower(h)
  <2>1. \A f : f \in DOMAIN mined' /\ f < g <=> f \in DOMAIN mined /\ f < g
    BY <1>1, <1>2, <1>3, <1>5
  <2>2. \A f \in DOMAIN mined : f < g => f < h
    BY <1>1, <1>2, <1>5
  <2> QED BY <2>1, <2>2 DEF Lower
<1>7. /\ h \in DOMAIN record
      /\ \A g \in DOMAIN record' : g \in Nat /\ g < h
  <2>1. PICK lo \in FirstHeight..LastHeight :
          /\ h \in FirstHeight..LastHeight /\ lo <= h - 1
          /\ DOMAIN record = lo..h
          /\ DOMAIN record' = lo..(h - 1)
    BY RollBackFacts
  <2>2. lo \in Nat /\ lo <= h - 1
    BY <2>1, LedgerAssumption
  <2>3. h \in lo..h
    BY <1>1, <2>2
  <2>4. \A g \in lo..(h - 1) : g \in Nat /\ g < h
    BY <1>1, <2>2
  <2> QED BY <2>1, <2>3, <2>4
<1> QED BY <1>1, <1>2, <1>3, <1>4, <1>5, <1>6, <1>7 DEF BlockRemoved

LEMMA RollBackResolved ==
  ASSUME Sound, Resolved, RollBack
  PROVE  Resolved'
<1>0. PICK h : h = Max(DOMAIN record)
  OBVIOUS
<1>1. BlockRemoved(h)
  BY <1>0, RollBackHistory
<1>2. \A m, H : Located(m, mined, H) /\ H \subseteq Lower(h) => Located(m, mined', H)
  <2>1. \A g \in Lower(h) : ToSet(mined[g]) \subseteq ToSet(mined'[g])
    BY <1>1 DEF BlockRemoved
  <2> QED BY <2>1, LocatedMore
<1>3. Located(maps', mined', DOMAIN mined')
  <2>1. Located(base[h].maps, mined, Lower(h))
    BY <1>1 DEF BlockRemoved, Resolved
  <2> QED BY <1>1, <1>2, <2>1 DEF BlockRemoved
<1>4. ASSUME NEW g \in DOMAIN base'
      PROVE  Located(base'[g].maps, mined', Lower(g)')
  <2>1. g \in DOMAIN base /\ base'[g] = base[g] /\ Lower(g)' = Lower(g)
        /\ Lower(g) \subseteq Lower(h)
    BY <1>1 DEF BlockRemoved
  <2>2. Located(base[g].maps, mined, Lower(g))
    BY <2>1 DEF Resolved
  <2> QED BY <1>2, <2>1, <2>2
<1>5. Chained'
  <2>1. \E hi \in Int : DOMAIN mined' = FirstHeight..hi
    <3>1. PICK hi \in Int : DOMAIN mined = FirstHeight..hi
      BY DEF Resolved, Chained
    <3>2. h \in Nat /\ FirstHeight \in Nat /\ h - 1 \in Int
      BY <1>1, LedgerAssumption DEF BlockRemoved
    <3>3. h \in DOMAIN mined
      BY <1>1 DEF BlockRemoved
    <3>4. FirstHeight <= h /\ h <= hi
      BY <3>1, <3>2, <3>3
    <3>5. \A g : g \in DOMAIN mined' <=> g \in FirstHeight..hi /\ g < h
      BY <1>1, <3>1 DEF BlockRemoved, Lower
    <3>6. \A g : g \in FirstHeight..hi /\ g < h <=> g \in FirstHeight..(h - 1)
      BY <3>2, <3>4
    <3>7. DOMAIN mined' = FirstHeight..(h - 1)
      BY <3>5, <3>6
    <3> QED BY <3>2, <3>7
  <2>2. DOMAIN record' \subseteq DOMAIN mined'
    BY <1>1 DEF BlockRemoved, Lower, Resolved, Chained
  <2>3. \A i, j \in DOMAIN mined' :
          \A t \in ToSet(mined'[i]) : t \in ToSet(mined'[j]) => i = j
    BY <1>1 DEF BlockRemoved, Resolved, Chained
  <2> QED BY <2>1, <2>2, <2>3 DEF Chained
<1>6. ResetsResolve'
  <2>1. ASSUME NEW f \in DOMAIN record'
        PROVE  /\ Resets(record'[f]) \subseteq DOMAIN maps'.entry
               /\ \A g \in DOMAIN base' :
                    f < g => Resets(record'[f]) \subseteq DOMAIN base'[g].maps.entry
    <3>1. f \in DOMAIN record /\ record'[f] = record[f] /\ f < h /\ h \in DOMAIN base
          /\ maps' = base[h].maps
      BY <1>1 DEF BlockRemoved
    <3>2. \A g \in DOMAIN base' : g \in DOMAIN base /\ base'[g] = base[g]
      BY <1>1 DEF BlockRemoved
    <3>3. \A g \in DOMAIN base :
            f < g => Resets(record[f]) \subseteq DOMAIN base[g].maps.entry
      BY <3>1 DEF Resolved, ResetsResolve
    <3> QED BY <3>1, <3>2, <3>3
  <2> QED BY <2>1 DEF ResetsResolve
<1>7. AtWork'
  <2>1. /\ updater.burned = << >> /\ frame.unallocated = << >> /\ pc = "idle"
    BY <1>1 DEF BlockRemoved, Resolved, AtWork, InBlock
  <2>2. UNCHANGED <<updater, frame, pc>> /\ DOMAIN << >> = {}
    BY <1>1 DEF BlockRemoved
  <2>3. DOMAIN updater.change_record.mints = {}
    BY <2>1 DEF Resolved, AtWork, InBlock
  <2> QED BY <2>1, <2>2, <2>3 DEF AtWork, InBlock
<1> QED BY <1>3, <1>4, <1>5, <1>6, <1>7 DEF Resolved

LEMMA OtherResolved ==
  ASSUME Resolved, UNCHANGED vars \/ \E t \in Tx : CommitFails(t)
  PROVE  Resolved'
<1>1. CASE UNCHANGED vars
  BY <1>1 DEF vars, Resolved, Chained, Located, Lower, AtWork, InBlock, ResetsResolve
<1>2. ASSUME NEW t \in Tx, CommitFails(t)
      PROVE  Resolved'
  <2>1. /\ pc' = "halted" /\ frame' = NoFrame /\ updater' = NewUpdater(0, 0)
        /\ UNCHANGED <<maps, record, mined, base>>
    BY <1>2 DEF CommitFails
  <2>2. AtWork'
    <3>1. /\ updater'.burned = << >> /\ updater'.change_record = EmptyRecord
          /\ frame'.unallocated = << >>
      BY <2>1, NewUpdaterFacts
    <3>2. DOMAIN << >> = {} /\ DOMAIN EmptyRecord.mints = {}
      BY DEF EmptyRecord
    <3> QED BY <2>1, <3>1, <3>2 DEF AtWork, InBlock
  <2> QED BY <2>1, <2>2 DEF Resolved, Chained, Located, Lower, ResetsResolve
<1> QED BY <1>1, <1>2

(* Balances, runes and recorded counts are those of the indexed chain, in  *)
(* the maps and in all that a rollback leads back to.                      *)
THEOREM ResolvedInvariant == Spec => []ResolvedInductive
<1>1. Init => ResolvedInductive
  BY InitResolved DEF ResolvedInductive
<1>2. LedgerInductive /\ TallyInductive /\ Typed /\ ResolvedInductive /\ [Next]_vars
        => ResolvedInductive'
  <2> SUFFICES ASSUME LedgerInductive, TallyInductive, Typed, ResolvedInductive,
                      [Next]_vars, orderly'
               PROVE  Resolved'
    BY DEF ResolvedInductive
  <2> USE DEF LedgerInductive, TallyInductive, ResolvedInductive
  <2>1. CASE StartBlock
    <3>1. Sound /\ Resolved
      BY <2>1 DEF StartBlock
    <3> QED BY <2>1, <3>1, StartResolved
  <2>2. ASSUME NEW t \in Tx, TxBegins(t)
        PROVE  Resolved'
    <3>1. Sound /\ Resolved
      BY <2>2 DEF TxBegins
    <3> QED BY <2>2, <3>1, BeginResolved
  <2>3. ASSUME NEW t \in Tx, TxEnds(t)
        PROVE  Resolved'
    <3>1. Sound /\ Tally /\ Resolved
      BY <2>3 DEF TxEnds, Distribute
    <3> QED BY <2>3, <3>1, EndResolved
  <2>4. ASSUME NEW t \in Tx, CommitFails(t)
        PROVE  Resolved'
    <3>1. Resolved
      BY <2>4 DEF CommitFails
    <3> QED BY <2>4, <3>1, OtherResolved
  <2>5. CASE FinishBlock
    <3>1. Sound /\ Resolved
      BY <2>5 DEF FinishBlock
    <3> QED BY <2>5, <3>1, FinishResolved
  <2>6. CASE RollBack
    <3>1. Sound /\ Resolved
      BY <2>6 DEF RollBack
    <3> QED BY <2>6, <3>1, RollBackResolved
  <2>7. CASE Restart
    BY <2>7 DEF Restart
  <2>8. CASE UNCHANGED vars
    <3>1. Resolved
      BY <2>8 DEF vars
    <3> QED BY <2>8, <3>1, OtherResolved
  <2> QED BY <2>1, <2>2, <2>3, <2>4, <2>5, <2>6, <2>7, <2>8 DEF Next
<1> QED BY <1>1, <1>2, LedgerInvariant, TallyInvariant, TypedInvariant, PTL DEF Spec

(* Balances never dangle, also after rollbacks and when indexing has       *)
(* halted inside a block: the unwraps of update and handle_reorg find      *)
(* their entries (rune_updater.rs:230, 455-461; reorg.rs:121, 132).        *)
THEOREM BalancesAlwaysResolve == Spec => []BalancesResolve
<1>1. Typed /\ ResolvedInductive => BalancesResolve
  <2> SUFFICES ASSUME Typed, Resolved PROVE BalancesResolve
    BY DEF ResolvedInductive, BalancesResolve
  <2>1. DOMAIN maps.born = DOMAIN maps.balances
    BY DEF Typed, MapsTyped
  <2> QED BY <2>1 DEF Resolved, Located, AtWork, ResetsResolve, Resets, BalancesResolve
<1> QED BY <1>1, TypedInvariant, ResolvedInvariant, PTL

-----------------------------------------------------------------------------
(* The supply.                                                             *)
Paired(h, Q, t, f, S) ==
  /\ Q = {<<t, o>> : o \in S}
  /\ \A o \in S : f[o] \in Nat /\ h[<<t, o>>] = f[o]

LEMMA SumPaired ==
  ASSUME NEW S, IsFiniteSet(S), NEW t, NEW f, NEW h, NEW Q, Paired(h, Q, t, f, S)
  PROVE  SumFunctionOnSet(h, Q) = SumFunctionOnSet(f, S)
<1> USE DEF Paired
<1> DEFINE P(T) == {<<t, o>> : o \in T}
           G == {T \in SUBSET S : /\ IsFiniteSet(P(T))
                                  /\ SumFunctionOnSet(h, P(T)) = SumFunctionOnSet(f, T)}
<1>1. {} \in G
  <2>1. P({}) = {}
    OBVIOUS
  <2> QED BY <2>1, SumOfNone, FS_EmptySet
<1>2. ASSUME NEW T \in SUBSET S, NEW x \in T, T \ {x} \in G
      PROVE  T \in G
  <2> DEFINE R == T \ {x}
  <2>1. IsFiniteSet(P(R)) /\ SumFunctionOnSet(h, P(R)) = SumFunctionOnSet(f, R)
    BY <1>2
  <2>2. P(T) = P(R) \cup {<<t, x>>} /\ <<t, x>> \notin P(R)
    OBVIOUS
  <2>3. IsFiniteSet(R) /\ x \notin R /\ T = R \cup {x}
    BY FS_Subset
  <2>4. (\A y \in P(R) \cup {<<t, x>>} : h[y] \in Nat) /\ (\A y \in R \cup {x} : f[y] \in Nat)
    OBVIOUS
  <2>5. h[<<t, x>>] = f[x]
    OBVIOUS
  <2> HIDE DEF P, R
  <2>6. SumFunctionOnSet(h, P(R) \cup {<<t, x>>}) = h[<<t, x>>] + SumFunctionOnSet(h, P(R))
    BY <2>1, <2>2, <2>4, SumAdd
  <2>7. SumFunctionOnSet(f, R \cup {x}) = f[x] + SumFunctionOnSet(f, R)
    BY <2>3, <2>4, SumAdd
  <2>8. SumFunctionOnSet(h, P(T)) = SumFunctionOnSet(f, T)
    BY <2>1, <2>2, <2>3, <2>5, <2>6, <2>7
  <2>9. IsFiniteSet(P(T))
    BY <2>1, <2>2, FS_AddElement
  <2> QED BY <2>8, <2>9
<1> HIDE DEF G
<1>3. S \in G
  BY <1>1, <1>2, ElementInduction
<1>4. Q = P(S)
  OBVIOUS
<1> QED BY <1>3, <1>4 DEF G

LEMMA OnOutputsIs == \A id : OnOutputs(id) = On(maps, id)
BY DEF OnOutputs, On, SumFunction

LEMMA OnType ==
  ASSUME NEW m, MapsTyped(m), NEW id
  PROVE  /\ On(m, id) \in Nat
         /\ \A o \in DOMAIN m.balances : Amount(m.balances[o], id) \in Nat
<1>1. \A o \in DOMAIN m.balances : Amount(m.balances[o], id) \in Nat
  BY PositivesType DEF MapsTyped, IsBalance
<1> DEFINE f == [o \in DOMAIN m.balances |-> Amount(m.balances[o], id)]
<1>2. \A o \in DOMAIN m.balances : f[o] \in Nat
  BY <1>1
<1>3. IsFiniteSet(DOMAIN m.balances)
  BY DEF MapsTyped
<1> HIDE DEF f
<1>4. SumFunctionOnSet(f, DOMAIN m.balances) \in Nat
  BY <1>2, <1>3, SumType
<1> QED BY <1>1, <1>4 DEF f, On

LEMMA SupplyType ==
  ASSUME NEW e \in Entry
  PROVE  /\ Supply(e) \in Nat /\ e.burned \in Nat
         /\ e.terms = {} => Supply(e) = e.premine
         /\ e.terms # {} => MintAmount(e) \in Nat
                            /\ Supply(e) = e.premine + e.mints * MintAmount(e)
<1>1. /\ e.premine \in Nat /\ e.mints \in Nat /\ e.burned \in Nat
      /\ e.terms # {} => MintAmount(e) \in Nat
  BY EntryTyped
<1> QED BY <1>1 DEF Supply

LEMMA SpentBalances ==
  ASSUME Typed, NEW t \in Tx, Begun(t), NEW id
  PROVE  On(maps, id) = On(maps', id) + Amount(Held(Spent(t)), id)
<1> DEFINE f == [o \in DOMAIN maps.balances |-> Amount(maps.balances[o], id)]
           k == [o \in DOMAIN maps'.balances |-> Amount(maps'.balances[o], id)]
           S == Spent(t)
           K == DOMAIN maps'.balances
<1>1. /\ K = DOMAIN maps.balances \ S /\ S \subseteq DOMAIN maps.balances
      /\ \A o \in K : maps'.balances[o] = maps.balances[o]
  BY DEF Begun, Spent
<1>2. IsFiniteSet(DOMAIN maps.balances) /\ IsFiniteSet(K) /\ IsFiniteSet(S)
  BY <1>1, HeldTyped, FS_Subset DEF Typed, MapsTyped
<1>3. \A o \in DOMAIN maps.balances : Amount(maps.balances[o], id) \in Nat
  BY OnType DEF Typed
<1>4. /\ \A o \in DOMAIN maps.balances : f[o] \in Nat /\ f[o] = Amount(maps.balances[o], id)
      /\ \A o \in K : k[o] = f[o]
  BY <1>1, <1>3
<1>5. Amount(AllAdded(maps.balances, S), id) = SumFunctionOnSet(f, S)
  <2>1. \A o \in S : \A i \in DOMAIN maps.balances[o] : maps.balances[o][i] \in Nat
    BY HeldTyped
  <2>2. \A o \in S : f[o] = Amount(maps.balances[o], id)
    BY <1>1, <1>4
  <2> HIDE DEF f, S
  <2> QED BY <1>2, <2>1, <2>2, AddedUp
<1>6. Held(S) = AllAdded(maps.balances, S)
  BY HeldTyped
<1>7. On(maps, id) = SumFunctionOnSet(f, DOMAIN maps.balances)
      /\ On(maps', id) = SumFunctionOnSet(k, K)
  BY DEF On
<1> HIDE DEF f, k, S, K
<1>8. SumFunctionOnSet(f, K \cup S) = SumFunctionOnSet(f, K) + SumFunctionOnSet(f, S)
  <2>1. K \cap S = {} /\ \A o \in K \cup S : f[o] \in Nat
    BY <1>1, <1>4
  <2> QED BY <1>2, <2>1, SumUnion
<1>9. SumFunctionOnSet(f, K) = SumFunctionOnSet(k, K)
  <2>1. \A o \in K : f[o] \in Nat /\ f[o] = k[o]
    BY <1>1, <1>4
  <2> QED BY <1>2, <2>1, SumSame
<1>10. K \cup S = DOMAIN maps.balances
  BY <1>1
<1> QED BY <1>5, <1>6, <1>7, <1>8, <1>9, <1>10 DEF S

LEMMA BeginConserved ==
  ASSUME Sound, Typed, Resolved, Balanced(maps, updater.burned, frame.unallocated),
         NEW t \in Tx, TxBegins(t)
  PROVE  Balanced(maps', updater'.burned, frame'.unallocated)
<1>1. Begun(t)
  BY BeginSteps
<1>2. Typed'
  BY BeginTyped
<1> SUFFICES ASSUME NEW id \in DOMAIN maps'.entry
             PROVE  Supply(maps'.entry[id]) =
                      On(maps', id) + maps'.entry[id].burned
                        + Amount(updater'.burned, id) + Amount(frame'.unallocated, id)
  BY DEF Balanced
<1> DEFINE e == maps.entry[id]
           e2 == maps'.entry[id]
           won == Amount(MintedBy(t), id)
<1>3. /\ id \in DOMAIN maps.entry /\ e \in Entry /\ e2 \in Entry
      /\ updater'.burned = updater.burned
      /\ frame'.unallocated = Added(Held(Spent(t)), MintedBy(t))
      /\ frame.unallocated = << >>
  BY <1>1, <1>2 DEF Begun, Typed, MapsTyped, IsMap, Resolved, AtWork
<1>4. /\ Supply(e) = On(maps, id) + e.burned + Amount(updater.burned, id)
                       + Amount(frame.unallocated, id)
      /\ Amount(frame.unallocated, id) = 0
  BY <1>3, NothingIsPositive DEF Balanced
<1>5. /\ Supply(e2) = Supply(e) + won /\ e2.burned = e.burned /\ won \in Nat
  <2>1. /\ e.premine \in Nat /\ e.mints \in Nat /\ e.burned \in Nat /\ IsEntry(e)
    BY <1>3, EntryTyped
  <2>2. CASE id \in Minters(t)
    <3>1. e.terms # {} /\ MintAmount(e) \in Nat
      BY <2>2, HeldTyped
    <3>2. won = MintAmount(e)
      BY <2>2 DEF MintedBy, Amount
    <3>3. e2 = Counted(e, e.mints + 1, e.burned)
      BY <1>1, <2>1, <2>2, EntryFacts DEF Begun, OnceMoreMinted, WithMints
    <3> HIDE DEF e, e2
    <3>4. /\ e2.terms = e.terms /\ e2.premine = e.premine
          /\ e2.mints = e.mints + 1 /\ e2.burned = e.burned
      BY <3>3 DEF Counted
    <3>5. MintAmount(e2) = MintAmount(e)
      BY <3>4 DEF MintAmount
    <3>6. Supply(e) = e.premine + e.mints * MintAmount(e)
          /\ Supply(e2) = e.premine + (e.mints + 1) * MintAmount(e)
      BY <3>1, <3>4, <3>5 DEF Supply
    <3>7. (e.mints + 1) * MintAmount(e) = e.mints * MintAmount(e) + MintAmount(e)
          /\ e.mints * MintAmount(e) \in Nat
      BY <2>1, <3>1
    <3> QED BY <2>1, <3>1, <3>2, <3>4, <3>6, <3>7
  <2>3. CASE id \notin Minters(t)
    <3>1. won = 0
      BY <2>3 DEF MintedBy, Amount
    <3>2. e2 = e
      BY <1>1, <1>3, <2>3 DEF Begun
    <3>3. Supply(e) \in Nat
      BY <1>3, SupplyType
    <3> QED BY <3>1, <3>2, <3>3
  <2> QED BY <2>2, <2>3
<1>6. On(maps, id) = On(maps', id) + Amount(Held(Spent(t)), id)
  BY <1>1, SpentBalances
<1>7. Amount(frame'.unallocated, id) = Amount(Held(Spent(t)), id) + won
  BY <1>3, AmountAdded
<1>8. /\ On(maps', id) \in Nat /\ Amount(Held(Spent(t)), id) \in Nat
      /\ Amount(updater.burned, id) \in Nat /\ e.burned \in Nat
  <2>1. On(maps', id) \in Nat
    BY <1>2, OnType DEF Typed
  <2>2. Held(Spent(t)) \in AmountsOf(Id)
    BY HeldTyped
  <2>3. Amount(Held(Spent(t)), id) \in Nat
    BY <2>2, AmountType
  <2>4. Amount(updater.burned, id) \in Nat
    BY DEF Typed, WorkTyped, IsAmounts, IsMap, Amount
  <2> QED BY <1>3, <2>1, <2>3, <2>4, EntryTyped
<1> HIDE DEF e, e2, won
<1>9. Supply(e2) = On(maps', id) + e2.burned + Amount(updater.burned, id)
                     + Amount(frame'.unallocated, id)
  BY <1>4, <1>5, <1>6, <1>7, <1>8
<1> QED BY <1>3, <1>9 DEF e2

LEMMA AllDistributed ==
  ASSUME NEW tx, NEW held, held \in AmountsOf(DOMAIN held), NEW d, Distributes(tx, held, d),
         IsFiniteSet(DOMAIN d.kept), NEW id
  PROVE  LET kept == [o \in DOMAIN d.kept |-> Amount(d.kept[o], id)]
         IN /\ \A o \in DOMAIN d.kept : kept[o] \in Nat
            /\ SumFunctionOnSet(kept, DOMAIN d.kept) \in Nat
            /\ Amount(d.burned, id) \in Nat
            /\ Amount(held, id) =
                 Amount(d.burned, id) + SumFunctionOnSet(kept, DOMAIN d.kept)
<1> DEFINE kept == [o \in DOMAIN d.kept |-> Amount(d.kept[o], id)]
<1>1. \A o \in DOMAIN d.kept :
        /\ Amount(d.kept[o], id) \in Nat
        /\ id \notin DOMAIN held => Amount(d.kept[o], id) = 0
  <2> SUFFICES ASSUME NEW o \in DOMAIN d.kept
               PROVE  /\ Amount(d.kept[o], id) \in Nat
                      /\ id \notin DOMAIN held => Amount(d.kept[o], id) = 0
    OBVIOUS
  <2>1. d.kept[o] \in PositivesOf(DOMAIN held)
    BY DEF Distributes
  <2>2. DOMAIN d.kept[o] \subseteq DOMAIN held /\ Amount(d.kept[o], id) \in Nat
    BY <2>1, PositivesType
  <2> QED BY <2>2 DEF Amount
<1>2. /\ \A o \in DOMAIN d.kept : kept[o] \in Nat
      /\ id \notin DOMAIN held => \A o \in DOMAIN d.kept : kept[o] = 0
  BY <1>1
<1>3. Amount(d.burned, id) \in Nat /\ (id \notin DOMAIN held => Amount(d.burned, id) = 0)
  <2>1. d.burned \in AmountsOf(DOMAIN held)
    BY DEF Distributes
  <2>2. DOMAIN d.burned \subseteq DOMAIN held /\ Amount(d.burned, id) \in Nat
    BY <2>1, AmountType
  <2> QED BY <2>2 DEF Amount
<1>4. id \in DOMAIN held =>
        held[id] = Amount(d.burned, id) + SumFunctionOnSet(kept, DOMAIN d.kept)
  BY DEF Distributes
<1> HIDE DEF kept
<1>5. SumFunctionOnSet(kept, DOMAIN d.kept) \in Nat
  BY <1>2, SumType
<1>6. id \notin DOMAIN held => SumFunctionOnSet(kept, DOMAIN d.kept) = 0
  BY <1>2, SumZero
<1>7. Amount(held, id) = Amount(d.burned, id) + SumFunctionOnSet(kept, DOMAIN d.kept)
  <2>1. CASE id \in DOMAIN held
    BY <1>4, <2>1 DEF Amount
  <2>2. CASE id \notin DOMAIN held
    <3>1. Amount(held, id) = 0
      BY <2>2 DEF Amount
    <3> QED BY <1>3, <1>6, <2>2, <3>1
  <2> QED BY <2>1, <2>2
<1> QED BY <1>2, <1>3, <1>5, <1>7 DEF kept

LEMMA KeptBalances ==
  ASSUME Sound, Typed, NEW t \in Tx, pc = "etching", frame.tx = {t}, NEW names,
         names = {} \/ \E n \in Name : names = {n}, Ended(t, names), Typed', NEW id
  PROVE  /\ Amount(Given(t, names).burned, id) \in Nat
         /\ On(maps', id) + Amount(Given(t, names).burned, id) =
              On(maps, id) + Amount(InHand(t, names), id)
<1> DEFINE d == Given(t, names)
           held == InHand(t, names)
           f == [o \in DOMAIN maps.balances |-> Amount(maps.balances[o], id)]
           k == [o \in DOMAIN maps'.balances |-> Amount(maps'.balances[o], id)]
           kept == [o \in DOMAIN d.kept |-> Amount(d.kept[o], id)]
           S == Outs(t, names)
           K == DOMAIN maps.balances
<1>1. /\ S = {<<t, o>> : o \in DOMAIN d.kept}
      /\ IsFiniteSet(DOMAIN d.kept) /\ IsFiniteSet(S)
      /\ \A o \in S : o[1] = t
  BY OutsFacts DEF Outs
<1>2. K \cap S = {}
  <2>1. \A o \in K : o[1] \in DoneTx
    BY DEF Sound, MapsFit, Fits
  <2>2. t \notin DoneTx
    BY DEF DoneTx
  <2> QED BY <1>1, <2>1, <2>2
<1>3. IsFiniteSet(K) /\ \A o \in K : Amount(maps.balances[o], id) \in Nat
  BY OnType DEF Typed, MapsTyped
<1>4. /\ DOMAIN maps'.balances = K \cup S
      /\ \A o \in S : maps'.balances[o] = d.kept[o[2]]
      /\ \A o \in K : maps'.balances[o] = maps.balances[o]
  BY <1>2 DEF Ended
<1>5. /\ \A o \in DOMAIN d.kept : kept[o] \in Nat
      /\ SumFunctionOnSet(kept, DOMAIN d.kept) \in Nat
      /\ Amount(d.burned, id) \in Nat
      /\ Amount(held, id) = Amount(d.burned, id) + SumFunctionOnSet(kept, DOMAIN d.kept)
  <2>1. held \in AmountsOf(DOMAIN held) /\ Distributes(Content[t], held, d)
    BY InHandFacts
  <2> HIDE DEF held, d
  <2> QED BY <1>1, <2>1, AllDistributed
<1>6. /\ \A o \in K : f[o] \in Nat /\ f[o] = k[o]
      /\ \A o \in K \cup S : k[o] = Amount(maps'.balances[o], id)
  BY <1>3, <1>4
<1>7. \A o \in DOMAIN d.kept : k[<<t, o>>] = kept[o] /\ <<t, o>> \in S
  <2> SUFFICES ASSUME NEW o \in DOMAIN d.kept
               PROVE  k[<<t, o>>] = kept[o] /\ <<t, o>> \in S
    OBVIOUS
  <2>1. <<t, o>> \in S
    BY <1>1
  <2>2. maps'.balances[<<t, o>>] = d.kept[o]
    BY <1>4, <2>1
  <2>3. kept[o] = Amount(d.kept[o], id)
    OBVIOUS
  <2> HIDE DEF k, kept, d, S
  <2> QED BY <1>6, <2>1, <2>2, <2>3
<1>8. On(maps, id) = SumFunctionOnSet(f, K) /\ On(maps', id) = SumFunctionOnSet(k, DOMAIN maps'.balances)
  BY DEF On
<1> HIDE DEF f, k, kept, d, held, S, K
<1>9. SumFunctionOnSet(k, S) = SumFunctionOnSet(kept, DOMAIN d.kept)
  <2>1. \A o \in DOMAIN d.kept : kept[o] \in Nat /\ k[<<t, o>>] = kept[o]
    BY <1>5, <1>7
  <2>2. Paired(k, S, t, kept, DOMAIN d.kept)
    BY <1>1, <2>1 DEF Paired
  <2> QED BY <1>1, <2>2, SumPaired
<1>10. SumFunctionOnSet(k, K \cup S) = SumFunctionOnSet(k, K) + SumFunctionOnSet(k, S)
  <2>1. \A o \in S : k[o] \in Nat
    BY <1>1, <1>5, <1>7
  <2>2. \A o \in K \cup S : k[o] \in Nat
    BY <1>6, <2>1
  <2> QED BY <1>1, <1>2, <1>3, <2>2, SumUnion
<1>11. SumFunctionOnSet(f, K) = SumFunctionOnSet(k, K) /\ SumFunctionOnSet(f, K) \in Nat
  BY <1>3, <1>6, SumSame, SumType
<1> QED BY <1>4, <1>5, <1>8, <1>9, <1>10, <1>11 DEF d, held

LEMMA EndConserved ==
  ASSUME Sound, Tally, Typed, Resolved,
         Balanced(maps, updater.burned, frame.unallocated), NEW t \in Tx, TxEnds(t)
  PROVE  Balanced(maps', updater'.burned, frame'.unallocated)
<1>1. /\ pc = "etching" /\ frame.tx = {t}
      /\ \E names : Etching(t, names)
  BY EndsEtching
<1>2. PICK names : Etching(t, names)
  BY <1>1
<1>3. names = {} \/ \E n \in Name : names = {n}
  BY <1>2 DEF Etching
<1>4. Ended(t, names)
  BY <1>1, <1>2, EndSteps DEF Etching
<1>5. Typed'
  BY EndTyped
<1> SUFFICES ASSUME NEW id \in DOMAIN maps'.entry
             PROVE  Supply(maps'.entry[id]) =
                      On(maps', id) + maps'.entry[id].burned
                        + Amount(updater'.burned, id) + Amount(frame'.unallocated, id)
  BY DEF Balanced
<1> DEFINE e2 == maps'.entry[id]
           given == Amount(Given(t, names).burned, id)
           premine == IF id \in Premined(t, names) THEN Content[t].premine ELSE 0
<1>6. /\ given \in Nat
      /\ On(maps', id) + given = On(maps, id) + Amount(InHand(t, names), id)
  BY <1>1, <1>3, <1>4, <1>5, KeptBalances
<1>7. Amount(InHand(t, names), id) = Amount(frame.unallocated, id) + premine
  BY <1>1, <1>3, InHandFacts
<1>8. /\ Amount(updater'.burned, id) = Amount(updater.burned, id) + given
      /\ Amount(frame'.unallocated, id) = 0
  <2>1. /\ updater'.burned = Added(updater.burned, Given(t, names).burned)
        /\ frame'.unallocated = << >>
    BY <1>4, NewUpdaterFacts DEF Ended
  <2> QED BY <2>1, AmountAdded, NothingIsPositive
<1>9. /\ On(maps, id) \in Nat /\ On(maps', id) \in Nat
      /\ Amount(updater.burned, id) \in Nat /\ Amount(frame.unallocated, id) \in Nat
      /\ e2 \in Entry /\ e2.burned \in Nat
  <2>1. On(maps, id) \in Nat /\ On(maps', id) \in Nat
    BY <1>5, OnType DEF Typed
  <2>2. e2 \in Entry
    BY <1>5 DEF Typed, MapsTyped, IsMap
  <2>3. Amount(updater.burned, id) \in Nat /\ Amount(frame.unallocated, id) \in Nat
    BY DEF Typed, WorkTyped, IsAmounts, IsMap, Amount
  <2> QED BY <2>1, <2>2, <2>3, EntryTyped
<1>10. Supply(e2) = On(maps, id) + e2.burned + Amount(updater.burned, id)
                      + Amount(frame.unallocated, id) + premine
  <2>1. CASE id \in Etched(names)
    <3>1. id = NewId /\ id \notin DOMAIN maps.entry
      <4>1. updater.height = NextHeight
        BY <1>1 DEF Sound, Shape, InBlock
      <4> QED BY <1>1, <2>1, <4>1, NextIdIsNew DEF Etched, NewId
    <3>2. PICK n \in names : e2 = NewEntry(t, n)
      BY <1>4, <2>1 DEF Ended
    <3>3. Supply(e2) = premine /\ e2.burned = 0
      <4>1. Content[t].premine \in Nat
        BY ContentAssumption
      <4>2. premine = IF Content[t].cenotaph THEN 0 ELSE Content[t].premine
        BY <2>1 DEF Premined
      <4>3. /\ e2.premine = premine /\ e2.mints = 0 /\ e2.burned = 0
        BY <3>2, <4>2 DEF NewEntry
      <4> HIDE DEF e2, premine
      <4>4. e2.terms # {} => MintAmount(e2) \in Nat
        BY <1>9, SupplyType
      <4>5. Supply(e2) = premine
        BY <4>1, <4>2, <4>3, <4>4 DEF Supply
      <4> QED BY <4>3, <4>5
    <3>4. /\ Amount(updater.burned, id) = 0
          /\ Amount(frame.unallocated, id) = 0
      BY <3>1 DEF Resolved, AtWork, Amount
    <3>5. On(maps, id) = 0
      <4> DEFINE f == [o \in DOMAIN maps.balances |-> Amount(maps.balances[o], id)]
      <4>1. \A o \in DOMAIN maps.balances : f[o] = 0
        BY <3>1 DEF Resolved, Located, Amount
      <4>2. IsFiniteSet(DOMAIN maps.balances)
        BY DEF Typed, MapsTyped
      <4>3. On(maps, id) = SumFunctionOnSet(f, DOMAIN maps.balances)
        BY DEF On
      <4> HIDE DEF f
      <4> QED BY <4>1, <4>2, <4>3, SumZero
    <3> HIDE DEF e2, premine
    <3>6. premine \in Nat
      BY <1>9, <3>3, SupplyType
    <3> QED BY <3>3, <3>4, <3>5, <3>6
  <2>2. CASE id \notin Etched(names)
    <3>1. id \in DOMAIN maps.entry /\ e2 = maps.entry[id]
      BY <1>4, <2>2 DEF Ended
    <3>2. premine = 0
      BY <2>2 DEF Premined
    <3>3. Supply(maps.entry[id]) =
            On(maps, id) + maps.entry[id].burned + Amount(updater.burned, id)
              + Amount(frame.unallocated, id)
      BY <3>1 DEF Balanced
    <3> HIDE DEF e2, premine
    <3> QED BY <1>9, <3>1, <3>2, <3>3
  <2> QED BY <2>1, <2>2
<1>11. premine \in Nat
  <2>1. Content[t].premine \in Nat
    BY ContentAssumption
  <2> QED BY <2>1
<1> HIDE DEF e2, premine, given
<1>12. Supply(e2) = On(maps', id) + e2.burned + Amount(updater'.burned, id)
                     + Amount(frame'.unallocated, id)
  BY <1>6, <1>7, <1>8, <1>9, <1>10, <1>11
<1> QED BY <1>12 DEF e2

LEMMA FinishConserved ==
  ASSUME Typed, Resolved, Balanced(maps, updater.burned, frame.unallocated), FinishBlock
  PROVE  Balanced(maps', updater'.burned, frame'.unallocated)
<1>1. Finished
  BY FinishSteps
<1> SUFFICES ASSUME NEW id \in DOMAIN maps'.entry
             PROVE  Supply(maps'.entry[id]) =
                      On(maps', id) + maps'.entry[id].burned
                        + Amount(updater'.burned, id) + Amount(frame'.unallocated, id)
  BY DEF Balanced
<1> DEFINE e == maps.entry[id]
           e2 == maps'.entry[id]
<1>2. /\ id \in DOMAIN maps.entry /\ e \in Entry
      /\ maps'.balances = maps.balances
      /\ updater'.burned = << >> /\ frame' = frame
      /\ frame.unallocated = << >>
  BY <1>1, NewUpdaterFacts DEF Finished, Typed, MapsTyped, IsMap, Resolved, AtWork
<1>3. /\ Amount(updater'.burned, id) = 0 /\ Amount(frame.unallocated, id) = 0
      /\ Amount(frame'.unallocated, id) = 0
      /\ On(maps', id) = On(maps, id)
  BY <1>2, NothingIsPositive DEF On
<1>4. Supply(e) = On(maps, id) + e.burned + Amount(updater.burned, id)
                    + Amount(frame.unallocated, id)
  BY <1>2 DEF Balanced
<1>5. /\ On(maps, id) \in Nat /\ e.burned \in Nat /\ IsEntry(e)
      /\ Amount(updater.burned, id) \in Nat
  <2>1. Amount(updater.burned, id) \in Nat
    BY DEF Typed, WorkTyped, IsAmounts, IsMap, Amount
  <2> QED BY <1>2, <2>1, OnType, EntryTyped DEF Typed
<1>6. Supply(e2) = Supply(e) /\ e2.burned = e.burned + Amount(updater.burned, id)
  <2>1. CASE id \in DOMAIN updater.burned
    <3>1. e2 = WithBurned(e, e.burned + updater.burned[id])
      BY <1>1, <2>1 DEF Finished, OnceBurned, WithBurned
    <3> HIDE DEF e, e2
    <3>4. e2 = Counted(e, e.mints, e.burned + updater.burned[id])
      BY <1>5, <3>1, EntryFacts
    <3>2. /\ e2.terms = e.terms /\ e2.premine = e.premine /\ e2.mints = e.mints
          /\ e2.burned = e.burned + updater.burned[id]
      BY <3>4 DEF Counted
    <3>3. Supply(e2) = Supply(e)
      BY <3>2 DEF Supply, MintAmount
    <3> QED BY <2>1, <3>2, <3>3 DEF Amount
  <2>2. CASE id \notin DOMAIN updater.burned
    <3>1. e2 = e /\ Amount(updater.burned, id) = 0
      BY <1>1, <1>2, <2>2 DEF Finished, Amount
    <3> QED BY <1>5, <3>1
  <2> QED BY <2>1, <2>2
<1> HIDE DEF e, e2
<1>7. Supply(e2) = On(maps', id) + e2.burned + Amount(updater'.burned, id)
                     + Amount(frame'.unallocated, id)
  BY <1>3, <1>4, <1>5, <1>6
<1> QED BY <1>7 DEF e2

LEMMA StartConserved ==
  ASSUME Sound, Resolved, Conserved, StartBlock
  PROVE  Conserved'
<1>0. PICK h : h = NextHeight
  OBVIOUS
<1>1. BlockAdded(h)
  BY <1>0, StartHistory
<1>2. /\ maps' = maps /\ frame' = frame /\ pc = "idle"
      /\ updater'.burned = << >> /\ updater.burned = << >>
      /\ frame.unallocated = << >>
  <2>1. updater' = NewUpdater(NextHeight, Latest(runes, 0))
    BY DEF StartBlock
  <2> QED BY <2>1, NewUpdaterFacts DEF StartBlock, Resolved, AtWork, InBlock
<1>3. Balanced(maps, << >>, << >>)
  BY <1>2 DEF Conserved
<1>4. ASSUME NEW g \in DOMAIN base'
      PROVE  Balanced(base'[g].maps, << >>, << >>)
  <2>1. CASE g = h
    BY <1>1, <1>3, <2>1 DEF BlockAdded
  <2>2. CASE g \in DOMAIN base
    BY <1>1, <2>2 DEF BlockAdded, Conserved
  <2> QED BY <1>1, <2>1, <2>2 DEF BlockAdded
<1>5. Balanced(maps', updater'.burned, frame'.unallocated)
  BY <1>2, <1>3
<1> QED BY <1>4, <1>5 DEF Conserved, Balanced, On

LEMMA RollBackConserved ==
  ASSUME Sound, Resolved, Conserved, RollBack
  PROVE  Conserved'
<1>0. PICK h : h = Max(DOMAIN record)
  OBVIOUS
<1>1. BlockRemoved(h)
  BY <1>0, RollBackHistory
<1>2. /\ maps' = base[h].maps /\ h \in DOMAIN base
      /\ updater'.burned = << >> /\ frame'.unallocated = << >>
  BY <1>1 DEF BlockRemoved, Resolved, AtWork, InBlock
<1>3. Balanced(maps', updater'.burned, frame'.unallocated)
  BY <1>2 DEF Conserved
<1>4. \A g \in DOMAIN base' : Balanced(base'[g].maps, << >>, << >>)
  BY <1>1 DEF BlockRemoved, Conserved
<1> QED BY <1>3, <1>4 DEF Conserved, Balanced, On

(* The supply of every rune is accounted for, in the maps and in all that  *)
(* a rollback leads back to.                                               *)
THEOREM ConservedInvariant == Spec => []ConservedInductive
<1>1. Init => ConservedInductive
  <2> SUFFICES ASSUME Init PROVE Conserved
    BY DEF ConservedInductive
  <2>1. DOMAIN base = {} /\ DOMAIN maps.entry = {}
    BY DEF Init, EmptyMaps
  <2> QED BY <2>1 DEF Conserved, Balanced
<1>2. LedgerInductive /\ TallyInductive /\ Typed /\ ResolvedInductive /\ ConservedInductive
        /\ [Next]_vars => ConservedInductive'
  <2> SUFFICES ASSUME LedgerInductive, TallyInductive, Typed, ResolvedInductive,
                      ConservedInductive, [Next]_vars, orderly'
               PROVE  Conserved'
    BY DEF ConservedInductive
  <2> USE DEF LedgerInductive, TallyInductive, ResolvedInductive, ConservedInductive
  <2>w. ASSUME Balanced(maps', updater'.burned, frame'.unallocated),
               base' = base, Conserved
        PROVE  Conserved'
    BY <2>w DEF Conserved, Balanced, On
  <2>1. CASE StartBlock
    <3>1. Sound /\ Resolved /\ Conserved
      BY <2>1 DEF StartBlock
    <3> QED BY <2>1, <3>1, StartConserved
  <2>2. ASSUME NEW t \in Tx, TxBegins(t)
        PROVE  Conserved'
    <3>1. Sound /\ Resolved /\ Conserved /\ pc # "halted" /\ base' = base
      BY <2>2 DEF TxBegins
    <3>2. Balanced(maps', updater'.burned, frame'.unallocated)
      BY <2>2, <3>1, BeginConserved DEF Conserved
    <3> QED BY <2>w, <3>1, <3>2
  <2>3. ASSUME NEW t \in Tx, TxEnds(t)
        PROVE  Conserved'
    <3>1. Sound /\ Tally /\ Resolved /\ Conserved /\ pc # "halted" /\ base' = base
      BY <2>3 DEF TxEnds, Distribute
    <3>2. Balanced(maps', updater'.burned, frame'.unallocated)
      BY <2>3, <3>1, EndConserved DEF Conserved
    <3> QED BY <2>w, <3>1, <3>2
  <2>4. ASSUME NEW t \in Tx, CommitFails(t)
        PROVE  Conserved'
    <3>1. Conserved /\ pc' = "halted" /\ base' = base
      BY <2>4 DEF CommitFails
    <3> QED BY <3>1 DEF Conserved, Balanced, On
  <2>5. CASE FinishBlock
    <3>1. Sound /\ Resolved /\ Conserved /\ pc # "halted" /\ base' = base
      BY <2>5 DEF FinishBlock
    <3>2. Balanced(maps', updater'.burned, frame'.unallocated)
      BY <2>5, <3>1, FinishConserved DEF Conserved
    <3> QED BY <2>w, <3>1, <3>2
  <2>6. CASE RollBack
    <3>1. Sound /\ Resolved /\ Conserved
      BY <2>6 DEF RollBack
    <3> QED BY <2>6, <3>1, RollBackConserved
  <2>7. CASE Restart
    BY <2>7 DEF Restart
  <2>8. CASE UNCHANGED vars
    <3>1. Conserved /\ UNCHANGED <<maps, updater, frame, pc, base>>
      BY <2>8 DEF vars
    <3> QED BY <3>1 DEF Conserved, Balanced, On
  <2> QED BY <2>1, <2>2, <2>3, <2>4, <2>5, <2>6, <2>7, <2>8 DEF Next
<1> QED BY <1>1, <1>2, LedgerInvariant, TallyInvariant, TypedInvariant, ResolvedInvariant, PTL
        DEF Spec

(* No rune is created or lost by edicts, burns, cenotaphs, mints and       *)
(* rollbacks: what was premined and minted is on unspent outputs, burned,  *)
(* or in the hands of the transaction that is being indexed                *)
(* (entry.rs:107-114, rune_updater.rs:26-223).                             *)
THEOREM SupplyStaysConserved == Spec => []SupplyConserved
<1>1. ConservedInductive => SupplyConserved
  BY OnOutputsIs DEF ConservedInductive, Conserved, Balanced, SupplyConserved
<1> QED BY <1>1, ConservedInvariant, PTL

-----------------------------------------------------------------------------
(* The queries.                                                            *)
LEMMA QueriesAreOfSpec == QuerySpec => Spec
<1>1. QueryInit => Init
  BY DEF QueryInit
<1>2. [QueryNext]_queryVars => [Next]_vars
  BY DEF QueryNext, queryVars
<1> QED BY <1>1, <1>2, PTL DEF QuerySpec, Spec

(* Every way to a rune gives the same answer (main.rs:23-90).              *)
THEOREM AnswersAgree == QuerySpec => []LookupsAgree
<1>1. TallyInductive => LookupsAgree
  <2> SUFFICES ASSUME Named(maps)
               PROVE  /\ \A id \in DOMAIN maps.entry :
                           /\ ByName(maps.entry[id].rune) = GetRuneById(id)
                           /\ GetEtching(maps.entry[id].etching) = GetRuneById(id)
                      /\ \A t \in Tx : \A a \in GetEtching(t) : a.entry.etching = t
                      /\ \A name \in Name : \A a \in ByName(name) : a.entry.rune = name
    BY DEF LookupsAgree, TallyInductive, Tally, Tallied
  <2>1. ASSUME NEW name \in DOMAIN maps.id_of
        PROVE  /\ ByName(name) = {Described(maps.id_of[name])}
               /\ Described(maps.id_of[name]).entry.rune = name
    <3>1. maps.id_of[name] \in DOMAIN maps.entry
          /\ maps.entry[maps.id_of[name]].rune = name
      BY DEF Named
    <3>2. ByName(name) = {Described(maps.id_of[name])}
      BY <3>1 DEF ByName
    <3> QED BY <3>1, <3>2 DEF Described
  <2>2. ASSUME NEW t \in DOMAIN maps.rune_of
        PROVE  GetEtching(t) = ByName(maps.rune_of[t])
    <3>1. {maps.rune_of[u] : u \in {t} \cap DOMAIN maps.rune_of} = {maps.rune_of[t]}
      OBVIOUS
    <3> QED BY <3>1 DEF GetEtching
  <2>3. ASSUME NEW id \in DOMAIN maps.entry
        PROVE  /\ ByName(maps.entry[id].rune) = GetRuneById(id)
               /\ GetEtching(maps.entry[id].etching) = GetRuneById(id)
    <3>1. GetRuneById(id) = {Described(id)}
      <4>1. {id} \cap DOMAIN maps.entry = {id}
        OBVIOUS
      <4> QED BY <4>1 DEF GetRuneById
    <3>2. /\ maps.entry[id].rune \in DOMAIN maps.id_of
          /\ maps.id_of[maps.entry[id].rune] = id
          /\ maps.entry[id].etching \in DOMAIN maps.rune_of
          /\ maps.rune_of[maps.entry[id].etching] = maps.entry[id].rune
      BY DEF Named
    <3> QED BY <2>1, <2>2, <3>1, <3>2
  <2>4. ASSUME NEW t \in Tx, NEW a \in GetEtching(t)
        PROVE  a.entry.etching = t
    <3>1. t \in DOMAIN maps.rune_of
      BY <2>4 DEF GetEtching
    <3>2. /\ maps.rune_of[t] \in DOMAIN maps.id_of
          /\ maps.entry[maps.id_of[maps.rune_of[t]]].etching = t
      BY <3>1 DEF Named
    <3>3. a = Described(maps.id_of[maps.rune_of[t]])
      BY <2>1, <2>2, <2>4, <3>1, <3>2
    <3> QED BY <3>2, <3>3 DEF Described
  <2>5. ASSUME NEW name, NEW a \in ByName(name)
        PROVE  a.entry.rune = name
    <3>1. name \in DOMAIN maps.id_of
      BY <2>5 DEF ByName
    <3> QED BY <2>1, <2>5, <3>1
  <2> QED BY <2>3, <2>4, <2>5
<1> QED BY <1>1, QueriesAreOfSpec, TallyInvariant, PTL

-----------------------------------------------------------------------------
(* What has MaxReorgDepth confirmations lies at or below the lowest        *)
(* retained block, where no rollback reaches: the blocks that can be       *)
(* rolled back began with all runes of lower heights.                      *)
Recent ==
  /\ Window
  /\ DOMAIN record # {} => NextHeight - Min(DOMAIN record) <= MaxReorgDepth
  /\ \A id \in DOMAIN maps.entry : id[1] \in 0..NextHeight

Rooted ==
  \A g \in DOMAIN base : \A id \in DOMAIN maps.entry :
    id[1] < g => /\ id \in DOMAIN base[g].maps.entry
                 /\ base[g].maps.entry[id].etching = maps.entry[id].etching

Deep(s) ==
  /\ DOMAIN record # {}
  /\ s[1] \in DOMAIN maps.entry
  /\ s[1][1] <= Min(DOMAIN record)
  /\ maps.entry[s[1]].etching = s[2]

Lasting == Rooted' /\ Recent' /\ \A s : Deep(s) => Deep(s)'

LEMMA SettledIsDeep ==
  ASSUME Recent, NEW s \in Settled
  PROVE  Deep(s)
<1>1. PICK id \in DOMAIN maps.entry :
        /\ s = <<id, maps.entry[id].etching>>
        /\ DOMAIN record # {}
        /\ (Max(DOMAIN record) - id[1] + 1) % U32 >= MaxReorgDepth
  BY DEF Settled, Answering, Confirmations, LatestHeight
<1>2. PICK lo \in FirstHeight..LastHeight :
        /\ NextHeight - 1 <= LastHeight
        /\ Max(DOMAIN record) = NextHeight - 1
        /\ Min(DOMAIN record) = lo
  BY <1>1, WindowFacts DEF Recent
<1>3. NextHeight \in Nat /\ id[1] \in 0..NextHeight /\ lo \in Nat
      /\ NextHeight - lo <= MaxReorgDepth
      /\ MaxReorgDepth \in Nat /\ U32 \in Nat /\ U32 > LastHeight + 1 /\ LastHeight \in Nat
  BY <1>1, <1>2, WindowFacts, LedgerAssumption, WidthAssumption DEF Recent
<1>4. Max(DOMAIN record) - id[1] + 1 = NextHeight - id[1]
  BY <1>2, <1>3
<1>5. NextHeight - id[1] \in 0..(U32 - 1)
  BY <1>2, <1>3
<1>6. \A x \in 0..(U32 - 1) : x % U32 = x
  BY <1>3
<1>7. NextHeight - id[1] >= MaxReorgDepth
  BY <1>1, <1>4, <1>5, <1>6
<1>8. id[1] <= lo
  BY <1>3, <1>7
<1> QED BY <1>1, <1>2, <1>8 DEF Deep

LEMMA SoundIsRecent ==
  ASSUME Sound, DOMAIN record # {} => NextHeight - Min(DOMAIN record) <= MaxReorgDepth
  PROVE  Recent
<1>1. Window /\ NextHeight \in Nat
  BY WindowFacts DEF Sound, Shape
<1>2. Fits(maps, DoneTx, IF InBlock THEN NextHeight + 1 ELSE NextHeight)
  BY DEF Sound, MapsFit
<1>3. \A id \in DOMAIN maps.entry : id[1] \in 0..NextHeight
  BY <1>1, <1>2 DEF Fits
<1> QED BY <1>1, <1>3 DEF Recent

LEMMA StayingLasts ==
  ASSUME Recent, Rooted, UNCHANGED <<maps, record, base>>
  PROVE  Lasting
BY DEF Recent, Rooted, Deep, Lasting, Window, NextHeight

(* Entries stay, and new ones are of the block that is being indexed.      *)
LEMMA GrowingLasts ==
  ASSUME Sound, InBlock, Recent, Rooted, UNCHANGED <<record, base>>,
         \A id \in DOMAIN maps.entry :
           id \in DOMAIN maps'.entry /\ maps'.entry[id].etching = maps.entry[id].etching,
         \A id \in DOMAIN maps'.entry \ DOMAIN maps.entry : id[1] = NextHeight
  PROVE  Lasting
<1>0. PICK h : h = NextHeight
  OBVIOUS
<1>1. /\ h \in Nat /\ NextHeight' = h
      /\ \A g \in DOMAIN base : g \in Nat /\ g <= h
  <2>1. DOMAIN base = DOMAIN mined
    BY DEF Sound, Shape
  <2>2. NextHeight' = h
    BY <1>0 DEF NextHeight
  <2> QED BY <1>0, <2>1, <2>2, InBlockFacts
<1>2. Recent'
  <2>1. \A id \in DOMAIN maps'.entry : id[1] \in 0..h
    <3>1. h \in 0..h
      BY <1>1
    <3> QED BY <1>0, <3>1 DEF Recent
  <2> QED BY <1>0, <1>1, <2>1 DEF Recent, Window
<1>3. Rooted'
  <2> SUFFICES ASSUME NEW g \in DOMAIN base, NEW id \in DOMAIN maps'.entry, id[1] < g
               PROVE  /\ id \in DOMAIN base[g].maps.entry
                      /\ base[g].maps.entry[id].etching = maps'.entry[id].etching
    BY DEF Rooted
  <2>1. id \in DOMAIN maps.entry
    <3>1. ~(h < g)
      BY <1>1
    <3> QED BY <1>0, <3>1
  <2> QED BY <2>1 DEF Rooted
<1>4. \A s : Deep(s) => Deep(s)'
  BY DEF Deep
<1> QED BY <1>2, <1>3, <1>4 DEF Lasting

LEMMA StartLasts ==
  ASSUME Sound, Recent, Rooted, StartBlock
  PROVE  Lasting
<1>1. /\ base' = Put(base, NextHeight, Snapshot)
      /\ maps' = maps /\ record' = record
  BY DEF StartBlock
<1>2. Recent'
  BY <1>1 DEF Recent, Window, NextHeight
<1>3. Rooted'
  <2> SUFFICES ASSUME NEW g \in DOMAIN base', NEW id \in DOMAIN maps.entry, id[1] < g
               PROVE  /\ id \in DOMAIN base'[g].maps.entry
                      /\ base'[g].maps.entry[id].etching = maps.entry[id].etching
    BY <1>1 DEF Rooted
  <2>1. CASE g = NextHeight
    <3>1. base'[g] = Snapshot
      BY <1>1, <2>1 DEF Put
    <3> QED BY <3>1 DEF Snapshot
  <2>2. CASE g # NextHeight
    <3>1. g \in DOMAIN base /\ base'[g] = base[g]
      BY <1>1, <2>2 DEF Put
    <3> QED BY <3>1 DEF Rooted
  <2> QED BY <2>1, <2>2
<1>4. \A s : Deep(s) => Deep(s)'
  BY <1>1 DEF Deep
<1> QED BY <1>2, <1>3, <1>4 DEF Lasting

LEMMA BeginLasts ==
  ASSUME Sound, Recent, Rooted, NEW t \in Tx, TxBegins(t)
  PROVE  Lasting
<1>1. SameRunes(maps, maps')
  BY BeginKeepsRunes
<1>2. InBlock /\ UNCHANGED <<record, base>>
  BY DEF TxBegins, InBlock
<1> QED BY <1>1, <1>2, GrowingLasts DEF SameRunes

LEMMA EndLasts ==
  ASSUME Sound, Tally, Recent, Rooted, NEW t \in Tx, TxEnds(t)
  PROVE  Lasting
<1> DEFINE id == <<NextHeight, frame.index>>
<1>1. InBlock /\ pc = "etching"
  BY DEF TxEnds, InBlock
<1>2. PICK names : Distribute(t, names)
  BY DEF TxEnds
<1>3. UNCHANGED <<record, base>>
  BY <1>2 DEF Distribute
<1>4. \E e : Adds(maps'.entry, maps.entry, {id : n \in names}, e)
  BY <1>1, <1>2, EtchesAre DEF RuneAdded
<1>5. id \notin DOMAIN maps.entry /\ id[1] = NextHeight
  BY <1>1, NextIdIsNew
<1>6. \A i \in {id : n \in names} : i = id
  OBVIOUS
<1> HIDE DEF id
<1>7. \A i \in DOMAIN maps.entry :
        i \in DOMAIN maps'.entry /\ maps'.entry[i] = maps.entry[i]
  BY <1>4, <1>5, <1>6 DEF Adds
<1>8. \A i \in DOMAIN maps'.entry \ DOMAIN maps.entry : i[1] = NextHeight
  BY <1>4, <1>5, <1>6 DEF Adds
<1> QED BY <1>1, <1>3, <1>7, <1>8, GrowingLasts

LEMMA FinishLasts ==
  ASSUME Sound, Recent, Rooted, FinishBlock
  PROVE  Lasting
<1>0. PICK h : h = NextHeight
  OBVIOUS
<1>1. InBlock /\ base' = base /\ SameRunes(maps, maps')
  BY FinishKeepsRunes DEF FinishBlock, InBlock
<1>2. Window /\ h \in FirstHeight..LastHeight /\ updater.height = h /\ h \in Nat
      /\ MaxReorgDepth \in Nat /\ FirstHeight \in Nat /\ LastHeight \in Nat
  BY <1>0, <1>1, InBlockFacts, LedgerAssumption DEF Sound, Shape
<1>3. \E f : DOMAIN f = DOMAIN record \cup {h} /\ record' = Retained(f, h)
  <2>1. \E cr : record' = Retained(Put(record, h, cr), h)
    BY <1>2 DEF FinishBlock
  <2>2. \A cr : DOMAIN Put(record, h, cr) = DOMAIN record \cup {h}
    BY DEF Put
  <2> QED BY <2>1, <2>2
<1>4. PICK lo \in FirstHeight..LastHeight :
        /\ lo <= h
        /\ {g \in DOMAIN record \cup {h} : ~(g <= h - MaxReorgDepth)} = lo..h
  BY <1>0, <1>2, RetainedWindow
<1>5. DOMAIN record' = lo..h
  <2>1. PICK f : DOMAIN f = DOMAIN record \cup {h} /\ record' = Retained(f, h)
    BY <1>3
  <2>2. DOMAIN record' = {g \in DOMAIN f : ~(g <= h - MaxReorgDepth)}
    BY <2>1, RetainedFacts
  <2> QED BY <1>4, <2>1, <2>2
<1>6. /\ lo \in Nat /\ lo \in lo..h
      /\ Max(lo..h) = h /\ Min(lo..h) = lo
  BY <1>2, <1>4, IntervalFacts
<1>7. NextHeight' = h + 1 /\ DOMAIN record' # {}
  BY <1>5, <1>6 DEF NextHeight
<1>8. lo \in DOMAIN record \cup {h} /\ ~(lo <= h - MaxReorgDepth)
  BY <1>4, <1>6
<1>9. h + 1 - lo <= MaxReorgDepth
  BY <1>2, <1>6, <1>8
<1>10. Window'
  BY <1>2, <1>4, <1>5 DEF Window
<1>11. DOMAIN maps'.entry = DOMAIN maps.entry
       /\ \A id \in DOMAIN maps.entry : maps'.entry[id].etching = maps.entry[id].etching
  BY <1>1 DEF SameRunes
<1>12. Recent'
  <2>1. \A x \in 0..h : x \in 0..(h + 1)
    BY <1>2
  <2>2. \A id \in DOMAIN maps'.entry : id[1] \in 0..(h + 1)
    BY <1>0, <1>11, <2>1 DEF Recent
  <2>3. NextHeight' - Min(DOMAIN record') <= MaxReorgDepth
    <3>1. Min(DOMAIN record') = lo
      BY <1>5, <1>6
    <3> QED BY <1>2, <1>6, <1>7, <1>9, <3>1
  <2>4. \A id \in DOMAIN maps'.entry : id[1] \in 0..NextHeight'
    BY <1>7, <2>2
  <2> QED BY <1>10, <2>3, <2>4 DEF Recent
<1>13. Rooted'
  BY <1>1, <1>11 DEF Rooted
<1>14. ASSUME NEW s, Deep(s)
       PROVE  Deep(s)'
  <2>1. PICK low \in FirstHeight..LastHeight :
          low <= h - 1 /\ DOMAIN record = low..(h - 1) /\ Min(DOMAIN record) = low
    BY <1>0, <1>2, <1>14, WindowFacts DEF Deep
  <2>2. low <= lo
    BY <1>2, <1>4, <1>8, <2>1
  <2>3. s[1][1] \in Int /\ s[1][1] <= low /\ s[1] \in DOMAIN maps.entry
        /\ maps.entry[s[1]].etching = s[2]
    BY <1>14, <2>1 DEF Deep, Recent
  <2>4. s[1][1] <= lo
    BY <1>2, <1>6, <2>1, <2>2, <2>3
  <2> QED BY <1>5, <1>6, <1>7, <1>11, <2>3, <2>4 DEF Deep
<1> QED BY <1>12, <1>13, <1>14 DEF Lasting

LEMMA RollBackLasts ==
  ASSUME Sound, Recent, Rooted, RollBack
  PROVE  Lasting
<1>0. PICK h : h = Max(DOMAIN record)
  OBVIOUS
<1>1. /\ h \in Nat /\ h \in DOMAIN base /\ NextHeight = h + 1
      /\ maps' = base[h].maps
      /\ base' = Without(base, {h})
      /\ Fits(base[h].maps, Before(h), h)
      /\ pc = "idle"
  BY <1>0, RollBackFacts
<1>2. PICK lo \in FirstHeight..LastHeight :
        /\ h \in FirstHeight..LastHeight /\ lo <= h - 1
        /\ DOMAIN record = lo..h
        /\ DOMAIN record' = lo..(h - 1)
  BY <1>0, RollBackFacts
<1>3. /\ lo \in Nat /\ FirstHeight \in Nat /\ LastHeight \in Nat /\ MaxReorgDepth \in Nat
      /\ Max(lo..(h - 1)) = h - 1 /\ Min(lo..(h - 1)) = lo /\ Min(lo..h) = lo
      /\ lo \in lo..(h - 1)
  BY <1>1, <1>2, LedgerAssumption, IntervalFacts
<1>4. NextHeight' = h /\ DOMAIN record' # {}
  <2>1. DOMAIN record' # {}
    BY <1>2, <1>3
  <2>2. NextHeight' = Max(DOMAIN record') + 1
    BY <2>1 DEF NextHeight
  <2>3. NextHeight' = h - 1 + 1
    BY <1>2, <1>3, <2>2
  <2> QED BY <1>1, <2>1, <2>3
<1>5. Recent'
  <2>1. h - lo <= MaxReorgDepth
    <3>1. NextHeight - lo <= MaxReorgDepth
      BY <1>2, <1>3 DEF Recent
    <3> QED BY <1>1, <1>3, <3>1
  <2>2. Window'
    <3>1. h - 1 \in FirstHeight..LastHeight
      BY <1>1, <1>2, <1>3
    <3> QED BY <1>2, <3>1 DEF Window
  <2>3. \A id \in DOMAIN maps'.entry : id[1] \in 0..h
    <3>1. \A id \in DOMAIN maps'.entry : id[1] \in 0..(h - 1)
      BY <1>1 DEF Fits
    <3> QED BY <1>1, <3>1
  <2> QED BY <1>2, <1>3, <1>4, <2>1, <2>2, <2>3 DEF Recent
(* Rolling back takes entries away and resets counts.                      *)
<1>6. \A id \in DOMAIN maps'.entry :
        id \in DOMAIN maps.entry /\ maps.entry[id].etching = maps'.entry[id].etching
  <2>1. h + 1 \notin DOMAIN base
    <3>1. \A g \in DOMAIN base : g < h + 1
      BY <1>1 DEF Sound, Shape, InBlock
    <3> QED BY <1>1, <3>1
  <2>2. Restores(maps, record[h], base[h].maps)
    <3>1. h \in DOMAIN record
      BY <1>1, <1>2, <1>3
    <3> QED BY <2>1, <3>1 DEF Sound, Revertible, After
  <2>3. ASSUME NEW id \in DOMAIN base[h].maps.entry
        PROVE  id \in DOMAIN maps.entry
               /\ maps.entry[id].etching = base[h].maps.entry[id].etching
    <3>1. id \in DOMAIN maps.entry
          /\ base[h].maps.entry[id] = Reset(maps.entry[id], id, record[h])
      BY <2>2 DEF Restores
    <3>2. IsEntry(maps.entry[id])
      BY <3>1 DEF Sound, MapsFit, IsMaps
    <3>3. \E x, y : base[h].maps.entry[id] = Counted(maps.entry[id], x, y)
      BY <3>1, <3>2, ResetFacts
    <3> QED BY <3>1, <3>3 DEF Counted
  <2> QED BY <1>1, <2>3
<1>7. Rooted'
  <2> SUFFICES ASSUME NEW g \in DOMAIN base', NEW id \in DOMAIN maps'.entry, id[1] < g
               PROVE  /\ id \in DOMAIN base'[g].maps.entry
                      /\ base'[g].maps.entry[id].etching = maps'.entry[id].etching
    BY DEF Rooted
  <2>1. g \in DOMAIN base /\ base'[g] = base[g]
    BY <1>1 DEF Without
  <2> QED BY <1>6, <2>1 DEF Rooted
<1>8. ASSUME NEW s, Deep(s)
      PROVE  Deep(s)'
  <2>1. s[1] \in DOMAIN maps.entry /\ s[1][1] <= lo /\ maps.entry[s[1]].etching = s[2]
        /\ s[1][1] \in Int
    BY <1>2, <1>3, <1>8 DEF Deep, Recent
  <2>2. s[1][1] < h
    BY <1>1, <1>2, <1>3, <2>1
  <2>3. s[1] \in DOMAIN maps'.entry /\ maps'.entry[s[1]].etching = s[2]
    BY <1>1, <2>1, <2>2 DEF Rooted
  <2> QED BY <1>2, <1>3, <1>4, <2>1, <2>3 DEF Deep
<1> QED BY <1>5, <1>7, <1>8 DEF Lasting

LEMMA NextLasts ==
  ASSUME LedgerInductive, TallyInductive, orderly => Recent /\ Rooted,
         [Next]_vars, orderly'
  PROVE  orderly /\ Lasting
<1>1. CASE StartBlock
  <2>1. orderly /\ Sound /\ Recent /\ Rooted
    BY <1>1 DEF StartBlock, LedgerInductive
  <2> QED BY <1>1, <2>1, StartLasts
<1>2. ASSUME NEW t \in Tx, TxBegins(t)
      PROVE  orderly /\ Lasting
  <2>1. orderly /\ Sound /\ Recent /\ Rooted
    BY <1>2 DEF TxBegins, LedgerInductive
  <2> QED BY <1>2, <2>1, BeginLasts
<1>3. ASSUME NEW t \in Tx, TxEnds(t)
      PROVE  orderly /\ Lasting
  <2>1. orderly /\ Sound /\ Tally /\ Recent /\ Rooted
    BY <1>3 DEF TxEnds, Distribute, LedgerInductive, TallyInductive
  <2> QED BY <1>3, <2>1, EndLasts
<1>4. ASSUME NEW t \in Tx, CommitFails(t)
      PROVE  orderly /\ Lasting
  <2>1. orderly /\ UNCHANGED <<maps, record, base>>
    BY <1>4 DEF CommitFails
  <2> QED BY <2>1, StayingLasts
<1>5. CASE FinishBlock
  <2>1. orderly /\ Sound /\ Recent /\ Rooted
    BY <1>5 DEF FinishBlock, LedgerInductive
  <2> QED BY <1>5, <2>1, FinishLasts
<1>6. CASE RollBack
  <2>1. orderly /\ Sound /\ Recent /\ Rooted
    BY <1>6 DEF RollBack, LedgerInductive
  <2> QED BY <1>6, <2>1, RollBackLasts
<1>7. CASE Restart
  BY <1>7 DEF Restart
<1>8. CASE UNCHANGED vars
  <2>1. orderly /\ UNCHANGED <<maps, record, base>>
    BY <1>8 DEF vars
  <2> QED BY <2>1, StayingLasts
<1> QED BY <1>1, <1>2, <1>3, <1>4, <1>5, <1>6, <1>7, <1>8 DEF Next

SettledInductive == orderly => Recent /\ Rooted /\ \A s \in settled : Deep(s)

SettledRecent == Recent => \A s \in Settled : Deep(s)

(* A rune that had MaxReorgDepth confirmations is never taken back, and    *)
(* its etching never changes, whatever is rolled back and mined again      *)
(* (main.rs:23-90, reorg.rs:10-27).                                        *)
THEOREM SettledStay == QuerySpec => []SettledRunesStay
<1>1. QueryInit => SettledInductive
  <2> SUFFICES ASSUME QueryInit PROVE Recent /\ Rooted /\ settled = {}
    BY DEF SettledInductive
  <2>1. DOMAIN record = {} /\ DOMAIN base = {} /\ DOMAIN maps.entry = {} /\ settled = {}
    BY DEF QueryInit, Init, EmptyMaps
  <2> QED BY <2>1 DEF Recent, Rooted, Window
<1>2. SettledRecent
  BY SettledIsDeep DEF SettledRecent
<1>3. /\ LedgerInductive /\ TallyInductive /\ SettledInductive
      /\ SettledRecent'
      /\ [QueryNext]_queryVars
      => SettledInductive'
  <2> SUFFICES ASSUME LedgerInductive, TallyInductive, SettledInductive, SettledRecent',
                      [QueryNext]_queryVars, orderly'
               PROVE  Recent' /\ Rooted' /\ \A s \in settled' : Deep(s)'
    BY DEF SettledInductive
  <2>1. [Next]_vars /\ (settled' = settled \/ settled' = settled \cup Settled')
    BY DEF QueryNext, queryVars
  <2>2. orderly /\ Lasting
    BY <2>1, NextLasts DEF SettledInductive
  <2>3. \A s \in settled : Deep(s)'
    BY <2>2 DEF SettledInductive, Lasting
  <2>4. \A s \in Settled' : Deep(s)'
    BY <2>2 DEF SettledRecent, Lasting
  <2> QED BY <2>1, <2>2, <2>3, <2>4 DEF Lasting
<1>4. SettledInductive => SettledRunesStay
  BY DEF SettledInductive, SettledRunesStay, Deep
<1> QED BY <1>1, <1>2, <1>3, <1>4, QueriesAreOfSpec, LedgerInvariant, TallyInvariant, PTL
     DEF QuerySpec

-----------------------------------------------------------------------------
(* Confirmations.                                                          *)
Reached == \A g \in DOMAIN mined : g \in Nat /\ g <= NextHeight
ReachedInductive == orderly => Reached
SoundReached == Sound => Reached

LEMMA SoundIsReached ==
  ASSUME Sound
  PROVE  Reached
<1>1. NextHeight \in Nat
  BY WindowFacts DEF Sound, Shape
<1> QED BY <1>1 DEF Sound, Shape, Reached

(* A transaction of block h has a confirmation from every block from h on. *)
LEMMA BlocksFrom ==
  ASSUME Typed, Resolved, Reached, DOMAIN record # {},
         NEW h \in DOMAIN mined, NEW t \in ToSet(mined[h])
  PROVE  Cardinality(WholeBlocks(t)) = Confirmations(h)
<1>0. PICK top : top = Max(DOMAIN record)
  OBVIOUS
<1>1. /\ top \in DOMAIN record /\ top \in Nat /\ top <= LastHeight
      /\ NextHeight = top + 1
  <2>1. top \in DOMAIN record /\ DOMAIN record \subseteq Heights
    BY <1>0, MaxOfHeights DEF Typed
  <2>2. NextHeight = top + 1
    BY <1>0 DEF NextHeight
  <2> QED BY <2>1, <2>2, LedgerAssumption DEF Heights
<1>2. HeightOfTx(t) = h
  <2>1. h \in DOMAIN mined /\ t \in ToSet(mined[h])
    OBVIOUS
  <2>2. \A g \in DOMAIN mined : t \in ToSet(mined[g]) => g = h
    BY <2>1 DEF Resolved, Chained
  <2> DEFINE g == CHOOSE x \in DOMAIN mined : t \in ToSet(mined[x])
  <2>3. g \in DOMAIN mined /\ t \in ToSet(mined[g])
    BY <2>1
  <2>4. g = h
    BY <2>2, <2>3
  <2> QED BY <2>4 DEF HeightOfTx
<1>3. PICK hi \in Int : DOMAIN mined = FirstHeight..hi
  BY DEF Resolved, Chained
<1>4. /\ FirstHeight \in Nat \ {0} /\ h \in Nat /\ FirstHeight <= h /\ h <= top + 1
      /\ top <= hi
  <2>1. h \in Nat /\ h <= top + 1
    BY <1>1 DEF Reached
  <2>2. top \in DOMAIN mined
    BY <1>1 DEF Resolved, Chained
  <2> QED BY <1>1, <1>3, <2>1, <2>2, LedgerAssumption
<1>5. WholeBlocks(t) = h..top
  <2>1. WholeBlocks(t) = {g \in FirstHeight..hi : h <= g /\ g <= top}
    BY <1>0, <1>2, <1>3 DEF WholeBlocks, LatestHeight
  <2>2. \A g : g \in FirstHeight..hi /\ h <= g /\ g <= top <=> g \in h..top
    BY <1>1, <1>3, <1>4
  <2> QED BY <2>1, <2>2
<1>6. Cardinality(h..top) = top - h + 1
  <2>1. h \in Int /\ top \in Int
    BY <1>1, <1>4
  <2>2. Cardinality(h..top) = IF h > top THEN 0 ELSE top - h + 1
    BY <2>1, FS_Interval
  <2> QED BY <1>1, <1>4, <2>2
<1>7. top - h + 1 \in 0..(U32 - 1)
  BY <1>1, <1>4, WidthAssumption, LedgerAssumption
<1>8. (top - h + 1) % U32 = top - h + 1
  <2>1. \A x \in 0..(U32 - 1) : x % U32 = x
    BY WidthAssumption
  <2> QED BY <1>7, <2>1
<1> QED BY <1>0, <1>5, <1>6, <1>8 DEF Confirmations, LatestHeight

(* An answer counts one confirmation for every whole block from the one    *)
(* that holds the transaction to the latest, none for what a half indexed  *)
(* block has written, and never wraps around; the answer for an unspent    *)
(* output has all of its balances (main.rs:28, 42, 71, 104-154).           *)
THEOREM ConfirmationsAlwaysCount == QuerySpec => []ConfirmationsCount
<1>1. Init => ReachedInductive
  <2>1. Init => DOMAIN mined = {}
    BY DEF Init
  <2> QED BY <2>1 DEF ReachedInductive, Reached
<1>r. SoundReached
  BY SoundIsReached DEF SoundReached
<1>2. /\ LedgerInductive /\ ReachedInductive /\ [Next]_vars
      /\ LedgerInductive' /\ SoundReached'
      => ReachedInductive'
  <2> SUFFICES ASSUME LedgerInductive, ReachedInductive, [Next]_vars, LedgerInductive',
                      SoundReached', orderly'
               PROVE  Reached'
    BY DEF ReachedInductive
  <2>1. CASE pc' = "halted"
    <3>1. orderly /\ UNCHANGED <<mined, record>>
      BY <2>1 DEF Next, vars, StartBlock, TxBegins, TxEnds, Distribute, CommitFails,
                  FinishBlock, RollBack, Restart
    <3> QED BY <3>1 DEF ReachedInductive, Reached, NextHeight
  <2>2. CASE pc' # "halted"
    BY <2>2 DEF LedgerInductive, SoundReached
  <2> QED BY <2>1, <2>2
<1>3. Typed /\ ResolvedInductive /\ ReachedInductive => ConfirmationsCount
  <2> SUFFICES ASSUME Typed, Resolved, Reached, DOMAIN record # {}
               PROVE  /\ \A id \in DOMAIN maps.entry : \A a \in GetRuneById(id) :
                           a.confirmations = Cardinality(WholeBlocks(a.entry.etching))
                      /\ \A o \in DOMAIN maps.balances :
                           GetBalances(o) =
                             {[confirmations |-> Cardinality(WholeBlocks(o[1])),
                               balances |-> maps.balances[o]]}
    BY DEF ResolvedInductive, ReachedInductive, ConfirmationsCount, Answering
  <2>1. ASSUME NEW id \in DOMAIN maps.entry, NEW a \in GetRuneById(id)
        PROVE  a.confirmations = Cardinality(WholeBlocks(a.entry.etching))
    <3>1. a = Described(id)
      BY <2>1 DEF GetRuneById
    <3>2. a.confirmations = Confirmations(id[1]) /\ a.entry = maps.entry[id]
      BY <3>1 DEF Described
    <3>3. id[1] \in DOMAIN mined /\ maps.entry[id].etching \in ToSet(mined[id[1]])
      BY DEF Resolved, Located
    <3> QED BY <3>2, <3>3, BlocksFrom
  <2>2. ASSUME NEW o \in DOMAIN maps.balances
        PROVE  GetBalances(o) = {[confirmations |-> Cardinality(WholeBlocks(o[1])),
                                  balances |-> maps.balances[o]]}
    <3>1. /\ DOMAIN maps.balances[o] \subseteq DOMAIN maps.entry
          /\ maps.born[o] \in DOMAIN mined /\ o[1] \in ToSet(mined[maps.born[o]])
      BY DEF Resolved, Located
    <3>2. Cardinality(WholeBlocks(o[1])) = Confirmations(maps.born[o])
      BY <3>1, BlocksFrom
    <3>3. maps.balances[o] \in PositivesOf(Id) /\ DOMAIN maps.born = DOMAIN maps.balances
      BY DEF Typed, MapsTyped, IsBalance
    <3>4. maps.balances[o] = [id \in DOMAIN maps.balances[o] |-> maps.balances[o][id]]
      BY <3>3, PositivesType
    <3>5. DOMAIN maps.balances[o] \cap DOMAIN maps.entry = DOMAIN maps.balances[o]
      BY <3>1
    <3>6. {o} \cap DOMAIN maps.balances \cap DOMAIN maps.born = {o}
      BY <3>3
    <3>7. [id \in DOMAIN maps.balances[o] \cap DOMAIN maps.entry |-> maps.balances[o][id]]
            = maps.balances[o]
      BY <3>4, <3>5
    <3>8. GetBalances(o) =
            {[confirmations |-> Confirmations(maps.born[p]),
              balances |-> [id \in DOMAIN maps.balances[p] \cap DOMAIN maps.entry |->
                              maps.balances[p][id]]] : p \in {o}}
      BY <3>6 DEF GetBalances
    <3> QED BY <3>2, <3>7, <3>8
  <2> QED BY <2>1, <2>2
<1> QED BY <1>1, <1>r, <1>2, <1>3, QueriesAreOfSpec, LedgerInvariant, TypedInvariant,
           ResolvedInvariant, PTL DEF Spec

=============================================================================
