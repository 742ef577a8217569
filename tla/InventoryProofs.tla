--------------------------- MODULE InventoryProofs ---------------------------
(***************************************************************************)
(* Proofs about InventoryLedger and InventoryTransactions, for any number   *)
(* of items, assets, locations, batches and clients, any menus of requests  *)
(* and any bounds on the quantities and numbers.                            *)
(*                                                                         *)
(* The first part is about the ledger, whose requests are atomic: IndInv is *)
(* its inductive invariant.  The second part is about the transactions:     *)
(* TxnInv says what each of them knows at the step it is at, and that the   *)
(* locks it holds keep that true until it commits.  From it follows that    *)
(* the transactions implement the ledger, and so that what the ledger is    *)
(* proved to guarantee holds of the committed tables; and, with the record  *)
(* that InventoryNumbers keeps, what may take a number that was drawn.       *)
(***************************************************************************)
EXTENDS InventoryNumbers, FiniteSetTheorems, NaturalsInduction, WellFoundedInduction, TLAPS

\* What every stored row satisfies, whatever request wrote it last, when the
\* assets have the modes A and the locations the states L.
SoundRow(r, A, L) ==
    /\ r \in Row
    /\ r.allocated <= r.onHand
    /\ r.location = NoLocation \/ L[r.location] = "present"
    /\ A[r.asset] = r.mode
    /\ r.mode = "quantity" => r.serial = NoSerial /\ r.onHand <= MaxQuantity
    /\ r.mode = "serialized" => /\ r.onHand = 1 /\ r.allocated = 0
                                /\ r.serial \in HandSerial \cup 0..MaxSerial

\* The inductive invariant: the types, the two unique indexes, and every row
\* sound.  The indexes are what makes the accepting branch of a merge
\* impossible, and the rows' soundness what a split needs to stay in Nat.
IndInv ==
    /\ TypeOK
    /\ UniqueIndexes(items)
    /\ \A i \in Live : SoundRow(items[i], assets, locations)

-----------------------------------------------------------------------------
\* Live rows are rows, fresh and deleted ids are not.
LEMMA LiveRows ==
    ASSUME TypeOK
    PROVE  /\ \A i \in Live : i \in ItemId /\ items[i] \in Row
           /\ \A i \in ItemId : i \notin Live => items[i] \in {Unused, Deleted}
           /\ \A r \in Row : IsRow(r)
  BY TombstoneAssumption DEF TypeOK, Live, IsRow

\* A hand-made or generated serial number is one, and is not NULL.
LEMMA NumbersAreSerials ==
    ASSUME NEW n \in HandSerial \cup 0..MaxSerial
    PROVE  n \in Serial /\ n # NoSerial
  BY BoundAssumption, NullAssumption DEF Serial

\* What the parsers let through is a row of the asset, in its tracking mode.
LEMMA WellFormedRow ==
    ASSUME NEW a \in Asset, NEW m \in Mode, NEW r \in WellFormed(a, m)
    PROVE  /\ r \in Row
           /\ r.asset = a /\ r.mode = m
           /\ r.allocated <= r.onHand
           /\ m = "quantity" => r.serial = NoSerial /\ r.onHand <= MaxQuantity
           /\ m = "serialized" => /\ r.onHand = 1 /\ r.allocated = 0
                                  /\ r.serial \in HandSerial \cup 0..MaxSerial
<1>1. CASE m = "quantity"
  <2>1. /\ r \in [asset : {a}, mode : {m}, serial : {NoSerial},
                  batch : BatchField, location : LocationField, status : Status,
                  onHand : 0..MaxQuantity, allocated : 0..MaxQuantity]
        /\ r.allocated <= r.onHand
    BY <1>1 DEF WellFormed
  <2> QED BY <1>1, <2>1, BoundAssumption DEF Row
<1>2. CASE m = "serialized"
  <2>1. /\ r \in [asset : {a}, mode : {m}, serial : HandSerial \cup 0..MaxSerial,
                  batch : BatchField, location : LocationField, status : Status,
                  onHand : {1}, allocated : {0}]
        /\ r.allocated <= r.onHand
    BY <1>2 DEF WellFormed
  <2>2. r.serial \in Serial /\ r.serial # NoSerial BY <2>1, NumbersAreSerials
  <2> QED BY <1>2, <2>1, <2>2 DEF Row
<1> QED BY <1>1, <1>2 DEF Mode

\* And a row of that kind is one the parsers let through.
LEMMA RowIsWellFormed ==
    ASSUME NEW r \in Row, r.allocated <= r.onHand,
           r.mode = "quantity" => r.serial = NoSerial /\ r.onHand <= MaxQuantity,
           r.mode = "serialized" => /\ r.onHand = 1 /\ r.allocated = 0
                                   /\ r.serial \in HandSerial \cup 0..MaxSerial
    PROVE  r \in WellFormed(r.asset, r.mode)
<1>0. r.mode \in Mode BY DEF Row
<1>1. CASE r.mode = "quantity"
  <2>1. r.onHand \in 0..MaxQuantity /\ r.allocated \in 0..MaxQuantity
    BY <1>1, BoundAssumption DEF Row
  <2>2. r \in [asset : {r.asset}, mode : {r.mode}, serial : {NoSerial},
               batch : BatchField, location : LocationField, status : Status,
               onHand : 0..MaxQuantity, allocated : 0..MaxQuantity]
    BY <1>1, <2>1 DEF Row
  <2> QED BY <1>1, <2>2 DEF WellFormed
<1>2. CASE r.mode = "serialized"
  <2>1. r \in [asset : {r.asset}, mode : {r.mode}, serial : HandSerial \cup 0..MaxSerial,
               batch : BatchField, location : LocationField, status : Status,
               onHand : {1}, allocated : {0}]
    BY <1>2 DEF Row
  <2> QED BY <1>2, <2>1 DEF WellFormed
<1> QED BY <1>0, <1>1, <1>2 DEF Mode

\* A storable row of an asset in a tracking mode is sound once the asset has
\* that mode.
LEMMA StorableIsRow ==
    ASSUME NEW a \in Asset, NEW m \in Mode, NEW r \in StorableRows(a, m)
    PROVE  /\ r \in Row
           /\ r.asset = a /\ r.mode = m
           /\ r.allocated <= r.onHand
           /\ ValidLocation(r.location)
           /\ m = "quantity" => r.serial = NoSerial /\ r.onHand <= MaxQuantity
           /\ m = "serialized" => /\ r.onHand = 1 /\ r.allocated = 0
                                  /\ r.serial \in HandSerial \cup 0..MaxSerial
  BY WellFormedRow DEF StorableRows

\* Writing sound rows that the unique indexes accept keeps the invariant, as
\* long as the assets of the other rows keep their mode and the locations stay.
LEMMA WriteKeepsIndInv ==
    ASSUME IndInv,
           NEW I \in SUBSET ItemId, NEW rowOf \in [I -> Row],
           items' = Written(rowOf), UniqueIndexes(items)',
           locations' = locations,
           assets' \in [Asset -> Mode \cup {"unborn", "gone"}],
           \A i \in I : SoundRow(rowOf[i], assets', locations),
           \A i \in Live \ I : assets'[items[i].asset] = assets[items[i].asset]
    PROVE  IndInv'
<1>1. TypeOK'
  <2>1. items' \in [ItemId -> Row \cup {Unused, Deleted}]
    BY DEF Written, IndInv, TypeOK
  <2> QED BY <2>1 DEF TypeOK, IndInv
<1>2. ASSUME NEW i \in Live'
      PROVE  SoundRow(items'[i], assets', locations')
  <2>1. i \in ItemId /\ IsRow(items'[i]) BY DEF Live
  <2>2. CASE i \in I
    BY <2>1, <2>2 DEF Written
  <2>3. CASE i \notin I
    <3>1. items'[i] = items[i] BY <2>1, <2>3 DEF Written
    <3>2. i \in Live BY <2>1, <3>1 DEF Live
    <3>3. SoundRow(items[i], assets, locations) BY <3>2 DEF IndInv
    <3>4. assets'[items[i].asset] = assets[items[i].asset] BY <2>3, <3>2
    <3> QED BY <3>1, <3>3, <3>4 DEF SoundRow
  <2> QED BY <2>2, <2>3
<1> QED BY <1>1, <1>2 DEF IndInv
-----------------------------------------------------------------------------
\* The asset of a sound live row has a tracking mode: it is neither unborn nor
\* gone.
LEMMA LiveRowsHaveAssets ==
    ASSUME IndInv, NEW i \in Live
    PROVE  /\ i \in ItemId /\ items[i] \in Row
           /\ assets[items[i].asset] = items[i].mode
           /\ assets[items[i].asset] \in Mode
  BY LiveRows DEF IndInv, SoundRow, Row

\* create_asset: the rows of its payload are of the mode of the new asset.
LEMMA CreateAssetKeepsIndInv ==
    ASSUME IndInv, NEW a \in Asset, NEW m \in Mode, NEW I \in SUBSET Fresh,
           NEW rowOf \in [I -> StorableRows(a, m)], CreateAsset(a, m, rowOf)
    PROVE  IndInv'
<1>1. I \in SUBSET ItemId /\ DOMAIN rowOf = I BY DEF Fresh
<1>2. \A i \in I : rowOf[i] \in Row BY StorableIsRow
<1>3. rowOf \in [I -> Row] BY <1>2
<1>4. assets' \in [Asset -> Mode \cup {"unborn", "gone"}] /\ assets'[a] = m
  BY DEF CreateAsset, IndInv, TypeOK
<1>5. \A i \in I : SoundRow(rowOf[i], assets', locations)
  BY <1>4, StorableIsRow DEF SoundRow, ValidLocation
<1>6. \A i \in Live \ I : assets'[items[i].asset] = assets[items[i].asset]
  BY LiveRowsHaveAssets DEF CreateAsset, Mode, IndInv, TypeOK
<1>7. items' = Written(rowOf) /\ UniqueIndexes(items)' /\ locations' = locations
  BY DEF CreateAsset, UniqueIndexes
<1> QED BY <1>1, <1>3, <1>4, <1>5, <1>6, <1>7, WriteKeepsIndInv

\* update_asset: only an asset without rows changes its tracking mode.
LEMMA ChangeTrackingModeKeepsIndInv ==
    ASSUME IndInv, NEW a \in Asset, NEW m \in Mode, ChangeTrackingMode(a, m)
    PROVE  IndInv'
<1>1. TypeOK' BY DEF ChangeTrackingMode, IndInv, TypeOK
<1>2. UniqueIndexes(items)' BY DEF ChangeTrackingMode, IndInv, UniqueIndexes
<1>3. ASSUME NEW i \in Live'
      PROVE  SoundRow(items'[i], assets', locations')
  <2>1. i \in Live /\ items' = items /\ locations' = locations
    BY DEF ChangeTrackingMode, Live
  <2>2. items[i].asset # a BY <2>1 DEF ChangeTrackingMode, LiveOf
  <2>3. assets'[items[i].asset] = assets[items[i].asset]
    BY <2>1, <2>2, LiveRowsHaveAssets DEF ChangeTrackingMode, IndInv, TypeOK, Row
  <2> QED BY <2>1, <2>3 DEF IndInv, SoundRow
<1> QED BY <1>1, <1>2, <1>3 DEF IndInv

\* Deleting rows and nothing else: asset deletion, item deletion.
LEMMA RemovalKeepsIndInv ==
    ASSUME IndInv, NEW S \in SUBSET ItemId,
           items' = Without(S),
           locations' = locations,
           assets' \in [Asset -> Mode \cup {"unborn", "gone"}],
           \A i \in Live \ S : assets'[items[i].asset] = assets[items[i].asset]
    PROVE  IndInv'
<1>1. TypeOK' BY DEF IndInv, TypeOK, Without
<1>2. \A i \in Live' : i \in Live \ S /\ items'[i] = items[i]
  BY DEF Live, IsRow, Without
<1>3. UniqueIndexes(items)'
  <2>1. DOMAIN items = ItemId /\ DOMAIN items' = ItemId BY DEF IndInv, TypeOK, Without
  <2>2. \A i \in ItemId : IsRow(items'[i]) => IsRow(items[i]) /\ items'[i] = items[i]
    BY <1>2 DEF Live
  <2> QED BY <2>1, <2>2 DEF UniqueIndexes, IndInv
<1>4. \A i \in Live' : SoundRow(items'[i], assets', locations')
  BY <1>2 DEF IndInv, SoundRow
<1> QED BY <1>1, <1>3, <1>4 DEF IndInv

\* delete_asset: its rows go with it, so none is left without an asset.
LEMMA DeleteAssetKeepsIndInv ==
    ASSUME IndInv, NEW a \in Asset, DeleteAsset(a)
    PROVE  IndInv'
<1>1. LiveOf(a) \in SUBSET ItemId BY DEF LiveOf, Live
<1>2. assets' \in [Asset -> Mode \cup {"unborn", "gone"}]
  BY DEF DeleteAsset, IndInv, TypeOK
<1>3. \A i \in Live \ LiveOf(a) : assets'[items[i].asset] = assets[items[i].asset]
  BY LiveRowsHaveAssets DEF DeleteAsset, LiveOf, IndInv, TypeOK, Row
<1> QED BY <1>1, <1>2, <1>3, RemovalKeepsIndInv DEF DeleteAsset

\* delete_inventory_item and batch_delete_inventory_items.
LEMMA DeleteItemsKeepsIndInv ==
    ASSUME IndInv, NEW S \in SUBSET Live, DeleteItems(S)
    PROVE  IndInv'
<1>1. S \in SUBSET ItemId BY DEF Live
<1>2. /\ assets' \in [Asset -> Mode \cup {"unborn", "gone"}]
      /\ \A i \in Live \ S : assets'[items[i].asset] = assets[items[i].asset]
  BY DEF DeleteItems, IndInv, TypeOK
<1> QED BY <1>1, <1>2, RemovalKeepsIndInv DEF DeleteItems

\* create_inventory_items of a quantity asset.
LEMMA CreateQuantityItemKeepsIndInv ==
    ASSUME IndInv, NEW a \in Asset, NEW i \in Fresh, NEW row \in StorableRows(a, "quantity"),
           CreateQuantityItem(a, i, row)
    PROVE  IndInv'
<1> DEFINE rowOf == [k \in {i} |-> row]
<1>1. {i} \in SUBSET ItemId BY DEF Fresh
<1>2. "quantity" \in Mode BY DEF Mode
<1>3. rowOf \in [{i} -> Row] BY <1>2, StorableIsRow
<1>4. /\ assets' \in [Asset -> Mode \cup {"unborn", "gone"}]
      /\ \A k \in Live \ {i} : assets'[items[k].asset] = assets[items[k].asset]
  BY DEF CreateQuantityItem, IndInv, TypeOK
<1>5. \A k \in {i} : SoundRow(rowOf[k], assets', locations)
  BY <1>2, StorableIsRow DEF SoundRow, ValidLocation, CreateQuantityItem
<1>6. items' = Written(rowOf) /\ UniqueIndexes(items)' /\ locations' = locations
  BY DEF CreateQuantityItem, UniqueIndexes
<1> QED BY <1>1, <1>3, <1>4, <1>5, <1>6, WriteKeepsIndInv

\* create_inventory_items of a serialized asset: rows of one whole thing each.
LEMMA CreateSerializedItemsKeepsIndInv ==
    ASSUME IndInv, NEW a \in Asset, NEW I \in SUBSET Fresh, NEW numberOf \in NumbersFor(I),
           NEW b \in BatchField, NEW l \in LocationField, NEW s \in Status,
           CreateSerializedItems(a, numberOf, b, l, s)
    PROVE  IndInv'
<1> DEFINE rowOf == [i \in I |-> SerializedRow(a, numberOf[i], b, l, s)]
<1>1. I \in SUBSET ItemId BY DEF Fresh
<1>2. /\ numberOf \in [I -> HandSerial \cup 0..MaxSerial] /\ DOMAIN numberOf = I
      /\ \A i \in I : numberOf[i] \in Serial /\ numberOf[i] # NoSerial
  BY BoundAssumption, NullAssumption DEF NumbersFor, Serial
<1>3. rowOf \in [I -> Row]
  BY <1>2 DEF SerializedRow, Row, Mode
<1>4. /\ assets' \in [Asset -> Mode \cup {"unborn", "gone"}]
      /\ \A k \in Live \ I : assets'[items[k].asset] = assets[items[k].asset]
  BY DEF CreateSerializedItems, IndInv, TypeOK
<1>5. \A i \in I : SoundRow(rowOf[i], assets', locations)
  BY <1>2, <1>3 DEF SoundRow, ValidLocation, CreateSerializedItems, SerializedRow
<1>6. items' = Written(rowOf) /\ UniqueIndexes(items)' /\ locations' = locations
  BY <1>2 DEF CreateSerializedItems, UniqueIndexes
<1> QED BY <1>1, <1>3, <1>4, <1>5, <1>6, WriteKeepsIndInv

\* Replacing one row or several is writing them.
LEMMA ExceptIsWritten ==
    ASSUME TypeOK, NEW i \in ItemId, NEW row
    PROVE  [items EXCEPT ![i] = row] = Written([k \in {i} |-> row])
  BY DEF TypeOK, Written

\* update_inventory_item: the new row is storable for the mode of the asset.
LEMMA UpdateItemKeepsIndInv ==
    ASSUME IndInv, NEW i \in Live,
           NEW row \in StorableRows(items[i].asset, items[i].mode), UpdateItem(i, row)
    PROVE  IndInv'
<1> DEFINE rowOf == [k \in {i} |-> row]
<1>1. /\ i \in ItemId /\ items[i].asset \in Asset /\ items[i].mode \in Mode
      /\ assets[items[i].asset] = items[i].mode
  BY LiveRowsHaveAssets DEF Row
<1>2. rowOf \in [{i} -> Row] BY <1>1, StorableIsRow
<1>3. /\ assets' \in [Asset -> Mode \cup {"unborn", "gone"}]
      /\ \A k \in Live \ {i} : assets'[items[k].asset] = assets[items[k].asset]
  BY DEF UpdateItem, IndInv, TypeOK
<1>4. \A k \in {i} : SoundRow(rowOf[k], assets', locations)
  BY <1>1, StorableIsRow DEF SoundRow, ValidLocation, UpdateItem
<1>5. items' = Written(rowOf) /\ UniqueIndexes(items)' /\ locations' = locations
  BY <1>1, ExceptIsWritten DEF UpdateItem, UniqueIndexes, IndInv
<1> QED BY <1>1, <1>2, <1>3, <1>4, <1>5, WriteKeepsIndInv

\* A batch patch changes no more than batch, location and status.
LEMMA PatchedRow ==
    ASSUME NEW r \in Row, NEW p \in BatchPatch
    PROVE  /\ Patched(r, p) \in Row
           /\ Patched(r, p).asset = r.asset /\ Patched(r, p).mode = r.mode
           /\ Patched(r, p).serial = r.serial
           /\ Patched(r, p).onHand = r.onHand /\ Patched(r, p).allocated = r.allocated
<1>1. /\ Resolve(p.batch, r.batch) \in BatchField
      /\ Resolve(p.location, r.location) \in LocationField
      /\ Resolve(p.status, r.status) \in Status
  BY DEF BatchPatch, Resolve, Row
<1> QED BY <1>1 DEF Patched, Row

\* batch_update_inventory_items: every patched row stays sound.
LEMMA BatchUpdateKeepsIndInv ==
    ASSUME IndInv, NEW S \in SUBSET Live, NEW p \in BatchPatch, BatchUpdate(S, p)
    PROVE  IndInv'
<1> DEFINE rowOf == [i \in S |-> Patched(items[i], p)]
<1>1. S \in SUBSET ItemId BY DEF Live
<1>2. rowOf \in [S -> Row] BY LiveRows, PatchedRow DEF IndInv
<1>3. /\ assets' = assets
      /\ assets' \in [Asset -> Mode \cup {"unborn", "gone"}]
      /\ \A k \in Live \ S : assets'[items[k].asset] = assets[items[k].asset]
  BY DEF BatchUpdate, IndInv, TypeOK
<1>4. ASSUME NEW i \in S PROVE SoundRow(rowOf[i], assets', locations)
  <2>1. items[i] \in Row /\ SoundRow(items[i], assets, locations) BY LiveRows DEF IndInv
  <2>2. rowOf[i] = Patched(items[i], p) /\ ValidLocation(rowOf[i].location)
    BY DEF BatchUpdate
  <2> QED BY <1>3, <2>1, <2>2, PatchedRow DEF SoundRow, ValidLocation
<1>5. items' = Written(rowOf) /\ UniqueIndexes(items)' /\ locations' = locations
  BY DEF BatchUpdate, UniqueIndexes
<1> QED BY <1>1, <1>2, <1>3, <1>4, <1>5, WriteKeepsIndInv

-----------------------------------------------------------------------------
\* Rows whose index keys stay as they are do not start to clash.
LEMMA SameKeysStayUnique ==
    ASSUME NEW old, NEW new, UniqueIndexes(old), DOMAIN new = DOMAIN old,
           \A i \in DOMAIN new : IsRow(new[i]) => IsRow(old[i]) /\ SameKey(new[i], old[i])
    PROVE  UniqueIndexes(new)
<1> SUFFICES ASSUME NEW i \in DOMAIN new, NEW j \in DOMAIN new,
                    i # j, IsRow(new[i]), IsRow(new[j])
             PROVE  ~Clash(new[i], new[j])
  BY DEF UniqueIndexes
<1>1. ~Clash(old[i], old[j]) BY DEF UniqueIndexes
<1>2. SameKey(new[i], old[i]) /\ SameKey(new[j], old[j]) OBVIOUS
<1> QED BY <1>1, <1>2 DEF Clash, SameAggregate, SameSerial, SameKey

\* A split into the row that already holds the target combination.
LEMMA SplitIntoExistingKeepsIndInv ==
    ASSUME IndInv, NEW i \in Live, NEW t \in Live \ {i}, NEW q \in Nat,
           q <= items[i].onHand - items[i].allocated, items[t].onHand + q <= MaxQuantity,
           items[i].mode = "quantity", items[t].mode = "quantity",
           items' = [items EXCEPT ![i].onHand = @ - q, ![t].onHand = @ + q],
           UNCHANGED <<assets, locations>>
    PROVE  IndInv'
<1> DEFINE I == {i, t}
           rowOf == [k \in I |-> IF k = i THEN [items[i] EXCEPT !.onHand = @ - q]
                                          ELSE [items[t] EXCEPT !.onHand = @ + q]]
<1>1. /\ i \in ItemId /\ t \in ItemId /\ i # t
      /\ items[i] \in Row /\ items[t] \in Row
      /\ SoundRow(items[i], assets, locations) /\ SoundRow(items[t], assets, locations)
  BY LiveRows DEF IndInv
<1>2. /\ items[i].onHand \in Nat /\ items[i].allocated \in Nat /\ items[t].onHand \in Nat
      /\ items[t].allocated \in Nat
  BY <1>1 DEF Row
<1>3. /\ rowOf[i] \in Row /\ rowOf[t] \in Row
      /\ SameKey(rowOf[i], items[i]) /\ SameKey(rowOf[t], items[t])
  BY <1>1, <1>2 DEF Row, SameKey
<1>4. rowOf \in [I -> Row] BY <1>3
<1>5. items' = Written(rowOf)
  <2>1. items = [k \in ItemId |-> items[k]] BY DEF IndInv, TypeOK
  <2>2. items' = [k \in ItemId |->
                    IF k = t THEN [items[t] EXCEPT !.onHand = @ + q]
                    ELSE IF k = i THEN [items[i] EXCEPT !.onHand = @ - q] ELSE items[k]]
    BY <1>1, <2>1
  <2> QED BY <1>1, <2>2 DEF Written
<1>6. UniqueIndexes(items')
  <2>1. DOMAIN items = ItemId /\ DOMAIN items' = ItemId BY <1>5 DEF IndInv, TypeOK, Written
  <2>2. \A k \in ItemId : IsRow(items'[k]) => IsRow(items[k]) /\ SameKey(items'[k], items[k])
    BY <1>1, <1>3, <1>5, LiveRows DEF Written, IndInv, SameKey
  <2> QED BY <2>1, <2>2, SameKeysStayUnique DEF IndInv
<1>7. \A k \in I : SoundRow(rowOf[k], assets', locations)
  <2>1. /\ rowOf[i].onHand = items[i].onHand - q /\ rowOf[i].allocated = items[i].allocated
        /\ rowOf[t].onHand = items[t].onHand + q /\ rowOf[t].allocated = items[t].allocated
    BY <1>1 DEF Row
  <2>2. SoundRow(rowOf[i], assets', locations')
    BY <1>1, <1>2, <1>3, <2>1, BoundAssumption DEF SoundRow, SameKey
  <2>3. SoundRow(rowOf[t], assets', locations')
    BY <1>1, <1>2, <1>3, <2>1, BoundAssumption DEF SoundRow, SameKey
  <2> QED BY <2>2, <2>3
<1>8. /\ assets' \in [Asset -> Mode \cup {"unborn", "gone"}]
      /\ \A k \in Live \ I : assets'[items[k].asset] = assets[items[k].asset]
  BY DEF IndInv, TypeOK
<1>9. I \in SUBSET ItemId BY <1>1
<1>10. UniqueIndexes(items)' BY <1>6 DEF UniqueIndexes
<1> QED BY <1>4, <1>5, <1>7, <1>8, <1>9, <1>10, WriteKeepsIndInv

\* A split into a new row: nothing else holds the target combination, and the
\* source keeps a different one.
LEMMA SplitIntoNewKeepsIndInv ==
    ASSUME IndInv, NEW i \in Live, NEW n \in Fresh, NEW q \in Nat,
           NEW b \in BatchField, NEW l \in LocationField, NEW s \in Status, NEW part,
           part = [items[i] EXCEPT !.batch = b, !.location = l, !.status = s,
                                   !.onHand = q, !.allocated = 0],
           q <= items[i].onHand - items[i].allocated,
           items[i].mode = "quantity", ValidLocation(l),
           ~SameAggregate(items[i], part),
           \A t \in Live \ {i} : ~SameAggregate(items[t], part),
           items' = [items EXCEPT ![i].onHand = @ - q, ![n] = part],
           UNCHANGED <<assets, locations>>
    PROVE  IndInv'
<1> DEFINE I == {i, n}
           rest == [items[i] EXCEPT !.onHand = @ - q]
           rowOf == [k \in I |-> IF k = i THEN rest ELSE part]
<1>1. /\ i \in ItemId /\ n \in ItemId /\ i # n /\ ~IsRow(items[n])
      /\ items[i] \in Row /\ SoundRow(items[i], assets, locations)
  BY LiveRows DEF IndInv, Fresh, IsRow, Live
<1>2. items[i].onHand \in Nat /\ items[i].allocated \in Nat
  BY <1>1 DEF Row
<1>3. /\ rest \in Row /\ SameKey(rest, items[i]) /\ part \in Row
      /\ rest.onHand = items[i].onHand - q /\ rest.allocated = items[i].allocated
  <2>1. rest \in Row /\ SameKey(rest, items[i]) BY <1>1, <1>2 DEF Row, SameKey
  <2>2. part \in Row BY <1>1 DEF Row
  <2> QED BY <1>1, <2>1, <2>2 DEF Row
<1>4. /\ part.asset = items[i].asset /\ part.mode = "quantity" /\ part.serial = items[i].serial
      /\ part.batch = b /\ part.location = l /\ part.status = s
      /\ part.onHand = q /\ part.allocated = 0
  BY <1>1 DEF Row
<1>5. rowOf \in [I -> Row] BY <1>3
<1>6. items' = Written(rowOf) BY <1>1 DEF Written, IndInv, TypeOK
<1>7. UniqueIndexes(items')
  <2>1. DOMAIN items = ItemId /\ DOMAIN items' = ItemId BY <1>6 DEF IndInv, TypeOK, Written
  <2>2. \A k \in ItemId \ {n} :
           IsRow(items'[k]) => IsRow(items[k]) /\ SameKey(items'[k], items[k]) /\ k \in Live
    BY <1>1, <1>3, <1>6, LiveRows DEF Written, IndInv, SameKey, Live
  <2>3. items'[n] = part BY <1>1, <1>6 DEF Written
  <2>4. part.serial = NoSerial BY <1>1, <1>4 DEF SoundRow
  <2>5. ASSUME NEW k \in ItemId \ {n}, IsRow(items'[k])
        PROVE  ~Clash(items'[k], part) /\ ~Clash(part, items'[k])
    <3>1. ~SameAggregate(items[k], part) BY <2>2, <2>5
    <3> QED BY <2>2, <2>4, <2>5, <3>1 DEF Clash, SameAggregate, SameSerial, SameKey
  <2>6. ASSUME NEW j \in ItemId \ {n}, NEW k \in ItemId \ {n}, j # k,
               IsRow(items'[j]), IsRow(items'[k])
        PROVE  ~Clash(items'[j], items'[k])
    <3>1. ~Clash(items[j], items[k]) BY <2>1, <2>2, <2>6 DEF IndInv, UniqueIndexes
    <3>2. SameKey(items'[j], items[j]) /\ SameKey(items'[k], items[k]) BY <2>2, <2>6
    <3> QED BY <3>1, <3>2 DEF Clash, SameAggregate, SameSerial, SameKey
  <2> QED BY <2>1, <2>3, <2>5, <2>6 DEF UniqueIndexes
<1>8. \A k \in I : SoundRow(rowOf[k], assets', locations)
  <2>1. SoundRow(rest, assets', locations)
    BY <1>1, <1>2, <1>3, BoundAssumption DEF SoundRow, SameKey
  <2>2. SoundRow(part, assets', locations)
    <3>1. part.onHand <= MaxQuantity
      BY <1>1, <1>2, <1>4, BoundAssumption DEF SoundRow
    <3> QED BY <1>1, <1>3, <1>4, <3>1 DEF SoundRow, ValidLocation
  <2> QED BY <1>1, <2>1, <2>2
<1>9. /\ assets' \in [Asset -> Mode \cup {"unborn", "gone"}]
      /\ \A k \in Live \ I : assets'[items[k].asset] = assets[items[k].asset]
  BY DEF IndInv, TypeOK
<1>10. I \in SUBSET ItemId BY <1>1
<1>11. UniqueIndexes(items)' BY <1>7 DEF UniqueIndexes
<1> QED BY <1>5, <1>6, <1>8, <1>9, <1>10, <1>11, WriteKeepsIndInv

\* split_inventory_item, into an existing row or a new one.
LEMMA SplitKeepsIndInv ==
    ASSUME IndInv, NEW i \in Live, NEW q \in 1..MaxQuantity, NEW b \in BatchField,
           NEW l \in LocationField, NEW s \in Status, Split(i, q, b, l, s)
    PROVE  IndInv'
<1> DEFINE part == [items[i] EXCEPT !.batch = b, !.location = l, !.status = s,
                                    !.onHand = q, !.allocated = 0]
           found == {t \in Live \ {i} : SameAggregate(items[t], part)}
<1> HIDE DEF part
<1>1. q \in Nat BY BoundAssumption
<1>2. /\ items[i].mode = "quantity" /\ ValidLocation(l)
      /\ q <= items[i].onHand - items[i].allocated
      /\ ~SameAggregate(items[i], part)
      /\ UNCHANGED <<assets, locations>>
      /\ \/ \E t \in found :
              /\ items[t].onHand + q <= MaxQuantity
              /\ items' = [items EXCEPT ![i].onHand = @ - q, ![t].onHand = @ + q]
         \/ /\ found = {}
            /\ \E n \in Fresh : items' = [items EXCEPT ![i].onHand = @ - q, ![n] = part]
  BY DEF Split, Splittable, Moved, part
<1>3. CASE \E t \in found :
              /\ items[t].onHand + q <= MaxQuantity
              /\ items' = [items EXCEPT ![i].onHand = @ - q, ![t].onHand = @ + q]
  <2>1. PICK t \in found :
              /\ items[t].onHand + q <= MaxQuantity
              /\ items' = [items EXCEPT ![i].onHand = @ - q, ![t].onHand = @ + q]
    BY <1>3
  <2>2. t \in Live \ {i} /\ items[t].mode = "quantity" BY DEF SameAggregate
  <2> QED BY <1>1, <1>2, <2>1, <2>2, SplitIntoExistingKeepsIndInv
<1>4. CASE /\ found = {}
           /\ \E n \in Fresh : items' = [items EXCEPT ![i].onHand = @ - q, ![n] = part]
  <2>1. PICK n \in Fresh : items' = [items EXCEPT ![i].onHand = @ - q, ![n] = part]
    BY <1>4
  <2>2. \A t \in Live \ {i} : ~SameAggregate(items[t], part) BY <1>4
  <2> QED BY <1>1, <1>2, <2>1, <2>2, SplitIntoNewKeepsIndInv DEF part
<1> QED BY <1>2, <1>3, <1>4

\* No two live rows are in one aggregate, so a merge changes nothing.
LEMMA MergeKeepsIndInv ==
    ASSUME IndInv, NEW t \in Live, NEW S \in SUBSET (Live \ {t}), S # {}, Merge(t, S)
    PROVE  IndInv'
<1>1. PICK s \in S : TRUE OBVIOUS
<1>2. ~SameAggregate(items[t], items[s])
  BY DEF IndInv, UniqueIndexes, Clash, Live, TypeOK
<1>3. items' = items /\ assets' = assets /\ locations' = locations
  BY <1>2 DEF Merge, Mergeable
<1> QED BY <1>3 DEF IndInv, TypeOK, UniqueIndexes, Live

\* create_location: the rows that stand somewhere stand there still.
LEMMA CreateLocationKeepsIndInv ==
    ASSUME IndInv, NEW l \in Location, CreateLocation(l)
    PROVE  IndInv'
<1>1. TypeOK' BY DEF CreateLocation, IndInv, TypeOK
<1>2. UniqueIndexes(items)' BY DEF CreateLocation, IndInv, UniqueIndexes
<1>3. ASSUME NEW i \in Live'
      PROVE  SoundRow(items'[i], assets', locations')
  <2>1. i \in Live /\ items' = items /\ assets' = assets BY DEF CreateLocation, Live
  <2>2. items[i] \in Row /\ SoundRow(items[i], assets, locations)
    BY <2>1, LiveRows DEF IndInv
  <2>3. items[i].location \in LocationField BY <2>2 DEF Row
  <2> QED BY <2>1, <2>2, <2>3 DEF SoundRow, CreateLocation, IndInv, TypeOK, LocationField
<1> QED BY <1>1, <1>2, <1>3 DEF IndInv

\* delete_location: no row is left at a location that goes.
LEMMA DeleteLocationsKeepsIndInv ==
    ASSUME IndInv, NEW S \in SUBSET Location, DeleteLocations(S)
    PROVE  IndInv'
<1>1. ASSUME NEW i \in ItemId, IsRow(items'[i])
      PROVE  /\ i \in Live /\ items[i] \in Row /\ items'[i] \in Row
             /\ items'[i] = IF items[i].location \in S
                            THEN [items[i] EXCEPT !.location = NoLocation] ELSE items[i]
  <2>1. i \in Live BY <1>1 DEF DeleteLocations, Cleared, Live
  <2>2. items[i] \in Row BY <2>1, LiveRows DEF IndInv
  <2> QED BY <2>1, <2>2 DEF DeleteLocations, Cleared, Row, LocationField
<1>2. TypeOK'
  <2>1. items' \in [ItemId -> Row \cup {Unused, Deleted}]
    <3>1. \A i \in ItemId : items'[i] \in Row \cup {Unused, Deleted} BY <1>1 DEF IsRow
    <3> QED BY <3>1 DEF DeleteLocations, Cleared
  <2> QED BY <2>1 DEF DeleteLocations, IndInv, TypeOK
<1>3. UniqueIndexes(items)' BY DEF DeleteLocations, UniqueIndexes
<1>4. ASSUME NEW i \in Live'
      PROVE  SoundRow(items'[i], assets', locations')
  <2>1. i \in ItemId /\ IsRow(items'[i]) BY DEF Live
  <2>2. /\ i \in Live /\ items[i] \in Row /\ items'[i] \in Row
        /\ SoundRow(items[i], assets, locations)
    BY <1>1, <2>1 DEF IndInv
  <2>3. CASE items[i].location \in S
    <3>1. items'[i] = [items[i] EXCEPT !.location = NoLocation] BY <1>1, <2>1, <2>3
    <3>2. assets' = assets BY DEF DeleteLocations
    <3> QED BY <2>2, <3>1, <3>2 DEF SoundRow, Row
  <2>4. CASE items[i].location \notin S
    <3>1. items'[i] = items[i] BY <1>1, <2>1, <2>4
    <3>2. items[i].location \in LocationField BY <2>2 DEF Row
    <3> QED BY <2>2, <2>4, <3>1, <3>2 DEF SoundRow, DeleteLocations, LocationField
  <2> QED BY <2>3, <2>4
<1> QED BY <1>2, <1>3, <1>4 DEF IndInv

-----------------------------------------------------------------------------
\* The empty tables satisfy the invariant.
LEMMA InitIndInv == Init => IndInv
  BY TombstoneAssumption DEF Init, IndInv, TypeOK, UniqueIndexes, Live, IsRow

\* Every request of the inventory, asset and location endpoints preserves it.
LEMMA NextKeepsIndInv == IndInv /\ [Next]_vars => IndInv'
<1> SUFFICES ASSUME IndInv, [Next]_vars PROVE IndInv'
  OBVIOUS
<1>1. CASE CreateAssets
  <2>1. PICK a \in Asset, m \in Mode, I \in SUBSET Fresh :
          \E rowOf \in [I -> StorableRows(a, m)] : CreateAsset(a, m, rowOf)
    BY <1>1 DEF CreateAssets
  <2> QED BY <2>1, CreateAssetKeepsIndInv
<1>2. CASE \E a \in Asset : DeleteAsset(a) \/ \E m \in Mode : ChangeTrackingMode(a, m)
  BY <1>2, DeleteAssetKeepsIndInv, ChangeTrackingModeKeepsIndInv
<1>3. CASE CreateItems
  BY <1>3, CreateQuantityItemKeepsIndInv, CreateSerializedItemsKeepsIndInv DEF CreateItems
<1>4. CASE ChangeItems
  <2>1. CASE \E i \in Live :
               \E row \in StorableRows(items[i].asset, items[i].mode) : UpdateItem(i, row)
    BY <2>1, UpdateItemKeepsIndInv
  <2>2. CASE \E S \in SUBSET Live, p \in BatchPatch : S # {} /\ BatchUpdate(S, p)
    BY <2>2, BatchUpdateKeepsIndInv
  <2>3. CASE \E i \in Live, q \in 1..MaxQuantity, b \in BatchField, l \in LocationField,
                s \in Status : Split(i, q, b, l, s)
    BY <2>3, SplitKeepsIndInv
  <2>4. CASE \E t \in Live : \E S \in SUBSET (Live \ {t}) : S # {} /\ Merge(t, S)
    BY <2>4, MergeKeepsIndInv
  <2>5. CASE \E S \in SUBSET Live : S # {} /\ DeleteItems(S)
    BY <2>5, DeleteItemsKeepsIndInv
  <2> QED BY <1>4, <2>1, <2>2, <2>3, <2>4, <2>5 DEF ChangeItems
<1>5. CASE \E l \in Location : CreateLocation(l)
  BY <1>5, CreateLocationKeepsIndInv
<1>6. CASE \E S \in SUBSET Location : S # {} /\ DeleteLocations(S)
  BY <1>6, DeleteLocationsKeepsIndInv
<1>7. CASE UNCHANGED vars
  BY <1>7 DEF vars, IndInv, TypeOK, UniqueIndexes, Live
<1> QED BY <1>1, <1>2, <1>3, <1>4, <1>5, <1>6, <1>7 DEF Next

\* The inductive invariant holds of every reachable state: the types, the two
\* unique indexes and the soundness of every row, whatever mix of creates,
\* patches, splits, merges, deletes and location deletes came before.
THEOREM LedgerInvariant == Spec => []IndInv
<1>1. Init => IndInv BY InitIndInv
<1>2. IndInv /\ [Next]_vars => IndInv' BY NextKeepsIndInv
<1> QED BY <1>1, <1>2, PTL DEF Spec

\* Type correctness: no split or merge takes a quantity below zero.
THEOREM TypeCorrect == Spec => []TypeOK
<1>1. IndInv => TypeOK BY DEF IndInv
<1> QED BY <1>1, LedgerInvariant, PTL

\* validate_merge_compatible never accepts: no two live rows share an aggregate.
THEOREM MergeNeverApplies == Spec => []NoMergeCandidates
<1>1. IndInv => NoMergeCandidates
  BY DEF IndInv, NoMergeCandidates, UniqueIndexes, Clash, Live, TypeOK
<1> QED BY <1>1, LedgerInvariant, PTL

\* A serialized row is never allocated, so it can always be deleted.
THEOREM SerializedRowsAreWhole == Spec => []SerializedNeverAllocated
<1>1. IndInv => SerializedNeverAllocated
  BY NumbersAreSerials DEF IndInv, SoundRow, SerializedNeverAllocated
<1> QED BY <1>1, LedgerInvariant, PTL

\* No row outlives the tracking mode of its asset, nor the asset.
THEOREM RowsKeepTheirAsset == Spec => []RowsFollowTheirAsset
<1>1. IndInv => RowsFollowTheirAsset
  BY DEF IndInv, SoundRow, RowsFollowTheirAsset
<1> QED BY <1>1, LedgerInvariant, PTL

\* No row stands at a deleted location.
THEOREM LocationsAreReferentiallySound == Spec => []RowsStandAtPresentLocations
<1>1. IndInv => RowsStandAtPresentLocations
  BY DEF IndInv, SoundRow, RowsStandAtPresentLocations
<1> QED BY <1>1, LedgerInvariant, PTL

\* No reachable row has more allocated than on hand.
THEOREM AllocationsAreCovered == Spec => []AllocatedIsOnHand
<1>1. IndInv => AllocatedIsOnHand
  BY DEF IndInv, SoundRow, AllocatedIsOnHand
<1> QED BY <1>1, LedgerInvariant, PTL

\* Of all requests only the deletion of the asset removes an allocated row; a
\* merge would, but never applies.
THEOREM AllocationsOutliveDeletes == Spec => AllocationsGoOnlyWithTheirAsset
<1> DEFINE Step == \A i \in Live :
         (items[i].allocated > 0 /\ items'[i] = Deleted) => assets'[items[i].asset] = "gone"
<1>1. IndInv /\ Next => Step
  <2> SUFFICES ASSUME IndInv, Next, NEW i \in Live,
                      items[i].allocated > 0, items'[i] = Deleted
               PROVE  assets'[items[i].asset] = "gone"
    OBVIOUS
  <2>1. /\ i \in ItemId /\ items[i] \in Row /\ items[i] # Deleted
        /\ items[i].allocated \in Nat /\ Deleted \notin Row
    BY LiveRows, TombstoneAssumption DEF IndInv, Row
  <2>2. i \notin Fresh /\ DOMAIN items = ItemId
    BY <2>1, TombstoneAssumption DEF Fresh, IndInv, TypeOK
  <2>3. CASE CreateAssets
    <3>1. PICK a \in Asset, m \in Mode, I \in SUBSET Fresh :
            \E rowOf \in [I -> StorableRows(a, m)] : CreateAsset(a, m, rowOf)
      BY <2>3 DEF CreateAssets
    <3> QED BY <2>1, <2>2, <3>1 DEF CreateAsset, Written
  <2>4. CASE \E a \in Asset : DeleteAsset(a) \/ \E m \in Mode : ChangeTrackingMode(a, m)
    BY <2>1, <2>4 DEF DeleteAsset, Without, ChangeTrackingMode, LiveOf, IndInv, TypeOK, Row
  <2>5. CASE CreateItems
    <3>1. CASE \E a \in Asset : \E k \in Fresh, row \in StorableRows(a, "quantity") :
                 CreateQuantityItem(a, k, row)
      BY <2>1, <2>2, <3>1 DEF CreateQuantityItem, Written
    <3>2. CASE \E a \in Asset, I \in SUBSET Fresh, b \in BatchField, l \in LocationField,
                  st \in Status : \E numberOf \in NumbersFor(I) :
                    CreateSerializedItems(a, numberOf, b, l, st)
      BY <2>1, <2>2, <3>2 DEF CreateSerializedItems, Written, NumbersFor
    <3> QED BY <2>5, <3>1, <3>2 DEF CreateItems
  <2>6. CASE ChangeItems
    <3>1. CASE \E k \in Live :
                 \E row \in StorableRows(items[k].asset, items[k].mode) : UpdateItem(k, row)
      <4>1. PICK k \in Live :
              \E row \in StorableRows(items[k].asset, items[k].mode) : UpdateItem(k, row)
        BY <3>1
      <4>2. items[k].asset \in Asset /\ items[k].mode \in Mode
        BY LiveRows DEF IndInv, Row
      <4>3. \A row \in StorableRows(items[k].asset, items[k].mode) : row \in Row
        BY <4>2, StorableIsRow
      <4> QED BY <2>1, <2>2, <4>1, <4>3 DEF UpdateItem
    <3>2. CASE \E S \in SUBSET Live, p \in BatchPatch : S # {} /\ BatchUpdate(S, p)
      <4>1. PICK S \in SUBSET Live, p \in BatchPatch : BatchUpdate(S, p) BY <3>2
      <4>2. Patched(items[i], p) \in Row BY <2>1, PatchedRow
      <4> QED BY <2>1, <4>1, <4>2 DEF BatchUpdate, Written
    <3>3. CASE \E k \in Live, q \in 1..MaxQuantity, b \in BatchField, l \in LocationField,
                  st \in Status : Split(k, q, b, l, st)
      <4>1. PICK k \in Live, q \in 1..MaxQuantity, b \in BatchField, l \in LocationField,
                 st \in Status : Split(k, q, b, l, st)
        BY <3>3
      <4>2. \E n \in ItemId : \E r :
              /\ n \in Fresh \/ n \in Live
              /\ n \in Live => r \in Row
              /\ items' = [items EXCEPT ![k].onHand = @ - q, ![n] = r]
        <5>1. CASE \E t \in Live \ {k} :
                 items' = [items EXCEPT ![k].onHand = @ - q, ![t].onHand = @ + q]
          <6>1. PICK t \in Live \ {k} :
                 items' = [items EXCEPT ![k].onHand = @ - q, ![t].onHand = @ + q]
            BY <5>1
          <6> DEFINE r == [items[t] EXCEPT !.onHand = @ + q]
          <6>2. t \in ItemId /\ items[t] \in Row /\ q \in Nat
            BY LiveRows, BoundAssumption DEF IndInv
          <6>3. r \in Row BY <6>2 DEF Row
          <6>4. items' = [items EXCEPT ![k].onHand = @ - q, ![t] = r] BY <6>1, <6>2
          <6> QED BY <6>2, <6>3, <6>4
        <5>2. CASE \E n \in Fresh : \E r :
                 items' = [items EXCEPT ![k].onHand = @ - q, ![n] = r]
          BY <5>2, LiveRows DEF Fresh, Live, IsRow
        <5> QED BY <4>1, <5>1, <5>2 DEF Split, Splittable, Moved
      <4>3. k \in ItemId /\ items[k] \in Row BY LiveRows DEF IndInv
      <4>4. [items[k] EXCEPT !.onHand = @ - q] # Deleted
        <5>1. q \in Nat /\ q <= items[k].onHand - items[k].allocated
          BY <4>1, BoundAssumption DEF Split, Splittable, Moved
        <5>2. items[k].onHand - q \in Nat BY <4>3, <5>1 DEF Row
        <5>3. [items[k] EXCEPT !.onHand = @ - q] \in Row BY <4>3, <5>2 DEF Row
        <5> QED BY <5>3, TombstoneAssumption
      <4> QED BY <2>1, <2>2, <4>2, <4>3, <4>4
    <3>4. CASE \E t \in Live : \E S \in SUBSET (Live \ {t}) : S # {} /\ Merge(t, S)
      <4>1. PICK t \in Live : \E S \in SUBSET (Live \ {t}) : S # {} /\ Merge(t, S) BY <3>4
      <4>2. PICK S \in SUBSET (Live \ {t}) : S # {} /\ Merge(t, S) BY <4>1
      <4>3. PICK s \in S : TRUE BY <4>2
      <4>4. ~SameAggregate(items[t], items[s])
        BY <4>3 DEF IndInv, UniqueIndexes, Clash, Live, TypeOK
      <4> QED BY <2>1, <4>2, <4>4 DEF Merge, Mergeable
    <3>5. CASE \E S \in SUBSET Live : S # {} /\ DeleteItems(S)
      BY <2>1, <3>5 DEF DeleteItems, Without
    <3> QED BY <2>6, <3>1, <3>2, <3>3, <3>4, <3>5 DEF ChangeItems
  <2>7. CASE \E l \in Location : CreateLocation(l)
    BY <2>1, <2>7 DEF CreateLocation
  <2>8. CASE \E S \in SUBSET Location : S # {} /\ DeleteLocations(S)
    <3>1. items'[i] \in Row
      BY <2>1, <2>8 DEF DeleteLocations, Cleared, Row, LocationField
    <3> QED BY <2>1, <3>1
  <2> QED BY <2>3, <2>4, <2>5, <2>6, <2>7, <2>8 DEF Next
<1>2. [Next]_vars /\ IndInv => [Step]_vars
  BY <1>1
<1> QED BY <1>2, LedgerInvariant, PTL DEF Spec, AllocationsGoOnlyWithTheirAsset

-----------------------------------------------------------------------------
\* A piece belongs to one row and is numbered within what the row holds.
LEMMA PieceOfRow ==
    ASSUME NEW h, NEW i, NEW n
    PROVE  <<i, n>> \in Pieces(h) <=> i \in ItemId /\ n \in 1..h[i]
  BY DEF Pieces

\* Bounded amounts make finitely many pieces.
LEMMA PiecesAreFinite ==
    ASSUME NEW b \in Nat, NEW h \in [ItemId -> 0..b]
    PROVE  IsFiniteSet(Pieces(h))
<1>1. IsFiniteSet(ItemId \X (1..b))
  <2>1. IsFiniteSet(1..b) BY FS_Interval
  <2> QED BY <2>1, FS_Product, UuidAssumption
<1>2. Pieces(h) \in SUBSET (ItemId \X (1..b))
  <2>1. ASSUME NEW i \in ItemId PROVE {i} \X (1..h[i]) \subseteq ItemId \X (1..b)
    <3>1. h[i] \in Nat /\ h[i] <= b OBVIOUS
    <3>2. 1..h[i] \subseteq 1..b BY <3>1
    <3> QED BY <3>2
  <2> QED BY <2>1 DEF Pieces
<1> QED BY <1>1, <1>2, FS_Subset

\* The pieces m+1..m+q of one row; they are q pieces.
PiecesFrom(i, m, q) == {i} \X ((m+1)..(m+q))

\* Their number.
LEMMA PiecesOfOneRow ==
    ASSUME NEW i, NEW m \in Nat, NEW q \in Nat
    PROVE  IsFiniteSet(PiecesFrom(i, m, q)) /\ Cardinality(PiecesFrom(i, m, q)) = q
<1>1. IsFiniteSet({i}) /\ Cardinality({i}) = 1 BY FS_Singleton
<1>2. /\ IsFiniteSet((m+1)..(m+q))
      /\ Cardinality((m+1)..(m+q)) = IF m+1 > m+q THEN 0 ELSE (m+q) - (m+1) + 1
  BY FS_Interval
<1>3. Cardinality((m+1)..(m+q)) = q BY <1>2
<1> DEFINE N == (m+1)..(m+q)
<1> HIDE DEF N
<1>4. IsFiniteSet({i} \X N) /\ Cardinality({i} \X N) = Cardinality({i}) * Cardinality(N)
  BY <1>1, <1>2, FS_Product DEF N
<1>5. Cardinality({i}) * Cardinality(N) = q BY <1>1, <1>3 DEF N
<1> QED BY <1>4, <1>5 DEF N, PiecesFrom

\* Moving q pieces from one row to another changes no total.
LEMMA MovingKeepsTheTotal ==
    ASSUME NEW b \in Nat, NEW h \in [ItemId -> 0..b], NEW i \in ItemId, NEW t \in ItemId,
           i # t, NEW q \in Nat, q <= h[i],
           NEW g, g[i] = h[i] - q, g[t] = h[t] + q, \A k \in ItemId \ {i, t} : g[k] = h[k]
    PROVE  Cardinality(Pieces(g)) = Cardinality(Pieces(h))
<1> DEFINE out == PiecesFrom(i, h[i] - q, q)
           in == PiecesFrom(t, h[t], q)
           P == Pieces(h)
<1>1. h[i] \in Nat /\ h[t] \in Nat /\ h[i] - q \in Nat OBVIOUS
<1>2. /\ IsFiniteSet(out) /\ Cardinality(out) = q
      /\ IsFiniteSet(in) /\ Cardinality(in) = q
  BY <1>1, PiecesOfOneRow
<1>3. IsFiniteSet(P) BY PiecesAreFinite
<1>4. out \cap P = out /\ P \cap out = out
  BY <1>1, PieceOfRow DEF PiecesFrom
<1>5. (P \ out) \cap in = {}
  BY <1>1, PieceOfRow DEF PiecesFrom
<1>6. Pieces(g) = (P \ out) \cup in
  <2>1. g[i] = h[i] - q /\ g[t] = h[t] + q /\ \A k \in ItemId \ {i, t} : g[k] = h[k]
    OBVIOUS
  <2>2. ASSUME NEW k, NEW n
        PROVE  <<k, n>> \in Pieces(g) <=> <<k, n>> \in (P \ out) \cup in
    <3>1. <<k, n>> \in Pieces(g) <=> k \in ItemId /\ n \in 1..g[k] BY PieceOfRow
    <3>2. <<k, n>> \in P <=> k \in ItemId /\ n \in 1..h[k] BY PieceOfRow
    <3>3. <<k, n>> \in out <=> k = i /\ n \in (h[i]-q+1)..h[i] BY <1>1 DEF PiecesFrom
    <3>4. <<k, n>> \in in <=> k = t /\ n \in (h[t]+1)..(h[t]+q) BY DEF PiecesFrom
    <3>5. CASE k = i BY <1>1, <2>1, <3>1, <3>2, <3>3, <3>4, <3>5
    <3>6. CASE k = t BY <1>1, <2>1, <3>1, <3>2, <3>3, <3>4, <3>6
    <3>7. CASE k \notin {i, t} BY <2>1, <3>1, <3>2, <3>3, <3>4, <3>7
    <3> QED BY <3>5, <3>6, <3>7
  <2>3. \A p \in Pieces(g) : p = <<p[1], p[2]>> BY DEF Pieces
  <2>4. \A p \in (P \ out) \cup in : p = <<p[1], p[2]>> BY DEF Pieces, PiecesFrom
  <2>5. ASSUME NEW p \in Pieces(g) PROVE p \in (P \ out) \cup in
    <3>1. p = <<p[1], p[2]>> BY <2>3
    <3>2. <<p[1], p[2]>> \in Pieces(g) BY <3>1
    <3> HIDE DEF out, in, P
    <3> QED BY <2>2, <3>1, <3>2
  <2>6. ASSUME NEW p \in (P \ out) \cup in PROVE p \in Pieces(g)
    <3>1. p = <<p[1], p[2]>> BY <2>4
    <3>2. <<p[1], p[2]>> \in (P \ out) \cup in BY <3>1
    <3> HIDE DEF out, in, P
    <3> QED BY <2>2, <3>1, <3>2
  <2> QED BY <2>5, <2>6
<1> HIDE DEF out, in, P
<1>7. /\ IsFiniteSet(P \ out)
      /\ Cardinality(P \ out) = Cardinality(P) - q
  <2>1. /\ IsFiniteSet(P \ out)
        /\ Cardinality(P \ out) = Cardinality(P) - Cardinality(P \cap out)
    BY <1>3, FS_Difference
  <2> QED BY <1>2, <1>4, <2>1
<1>8. Cardinality((P \ out) \cup in) = Cardinality(P \ out) + q - Cardinality({})
  BY <1>2, <1>5, <1>7, FS_Union
<1>9. Cardinality({}) = 0 BY FS_EmptySet
<1>10. Cardinality(P) \in Nat BY <1>3, FS_CardinalityType
<1>11. Cardinality((P \ out) \cup in) = Cardinality(P) BY <1>7, <1>8, <1>9, <1>10
<1> QED BY <1>6, <1>11 DEF P

-----------------------------------------------------------------------------
\* What a row holds of an asset is bounded, and zero when the row is not there.
LEMMA HeldIsBounded ==
    ASSUME IndInv, NEW a
    PROVE  [k \in ItemId |-> Held(k, a)] \in [ItemId -> 0..(MaxQuantity + 1)]
<1> SUFFICES ASSUME NEW k \in ItemId PROVE Held(k, a) \in 0..(MaxQuantity + 1)
  OBVIOUS
<1>1. CASE k \notin LiveOf(a) BY <1>1, BoundAssumption DEF Held
<1>2. CASE k \in LiveOf(a)
  <2>1. k \in Live /\ items[k] \in Row BY <1>2, LiveRows DEF LiveOf, IndInv
  <2>2. SoundRow(items[k], assets, locations) BY <2>1 DEF IndInv
  <2>3. items[k].onHand \in Nat /\ items[k].mode \in Mode BY <2>1 DEF Row
  <2> QED BY <1>2, <2>2, <2>3, BoundAssumption DEF Held, SoundRow, Mode
<1> QED BY <1>1, <1>2

\* A split moves what one row of the asset holds to one other row, and leaves the
\* allocations and the other assets alone.
LEMMA SplitMovesStock ==
    ASSUME IndInv, NEW i \in Live, NEW q \in 1..MaxQuantity, NEW b \in BatchField,
           NEW l \in LocationField, NEW s \in Status, Split(i, q, b, l, s), NEW a
    PROVE  /\ \A k \in ItemId : Reserved(k, a)' = Reserved(k, a)
           /\ a # items[i].asset => \A k \in ItemId : Held(k, a)' = Held(k, a)
           /\ a = items[i].asset =>
                \E t \in ItemId : /\ i # t /\ q <= Held(i, a)
                                  /\ Held(i, a)' = Held(i, a) - q
                                  /\ Held(t, a)' = Held(t, a) + q
                                  /\ \A k \in ItemId \ {i, t} : Held(k, a)' = Held(k, a)
<1> DEFINE part == [items[i] EXCEPT !.batch = b, !.location = l, !.status = s,
                                    !.onHand = q, !.allocated = 0]
           found == {t \in Live \ {i} : SameAggregate(items[t], part)}
<1> HIDE DEF part
<1>1. q \in Nat BY BoundAssumption
<1>2. /\ items[i].mode = "quantity" /\ q <= items[i].onHand - items[i].allocated
      /\ \/ \E t \in found : items' = [items EXCEPT ![i].onHand = @ - q, ![t].onHand = @ + q]
         \/ \E n \in Fresh : items' = [items EXCEPT ![i].onHand = @ - q, ![n] = part]
  BY DEF Split, Splittable, Moved, part
<1>3. i \in ItemId /\ items[i] \in Row /\ IsRow(items[i]) /\ DOMAIN items = ItemId
  BY LiveRows DEF IndInv, TypeOK
<1>4. part \in Row /\ part.asset = items[i].asset /\ part.onHand = q /\ part.allocated = 0
  BY <1>1, <1>3 DEF part, Row
<1>5. \A k \in ItemId :
        /\ Held(k, a) = IF IsRow(items[k]) /\ items[k].asset = a THEN items[k].onHand ELSE 0
        /\ Held(k, a)' = IF IsRow(items'[k]) /\ items'[k].asset = a THEN items'[k].onHand ELSE 0
        /\ Reserved(k, a) = IF IsRow(items[k]) /\ items[k].asset = a
                            THEN items[k].allocated ELSE 0
        /\ Reserved(k, a)' = IF IsRow(items'[k]) /\ items'[k].asset = a
                             THEN items'[k].allocated ELSE 0
  BY DEF Held, Reserved, LiveOf, Live
<1>6. items[i].onHand \in Nat /\ items[i].allocated \in Nat BY <1>3 DEF Row
<1> DEFINE less == [items[i] EXCEPT !.onHand = @ - q]
<1>7. /\ less \in Row /\ less.asset = items[i].asset /\ less.onHand = items[i].onHand - q
      /\ less.allocated = items[i].allocated
  BY <1>1, <1>2, <1>3, <1>6 DEF Row
<1>8. CASE \E t \in found : items' = [items EXCEPT ![i].onHand = @ - q, ![t].onHand = @ + q]
  <2>1. PICK t \in found : items' = [items EXCEPT ![i].onHand = @ - q, ![t].onHand = @ + q]
    BY <1>8
  <2>2. t \in ItemId /\ t # i /\ items[t] \in Row /\ IsRow(items[t])
    BY LiveRows DEF IndInv
  <2>3. items[t].asset = items[i].asset BY <1>4 DEF SameAggregate
  <2> DEFINE more == [items[t] EXCEPT !.onHand = @ + q]
  <2>4. items[t].onHand \in Nat BY <2>2 DEF Row
  <2>5. /\ more \in Row /\ more.asset = items[t].asset /\ more.onHand = items[t].onHand + q
        /\ more.allocated = items[t].allocated
    BY <1>1, <2>2, <2>4 DEF Row
  <2>6. items'[i] = less /\ items'[t] = more /\ \A k \in ItemId \ {i, t} : items'[k] = items[k]
    BY <1>3, <2>1, <2>2
  <2>7. IsRow(less) /\ IsRow(more) BY <1>7, <2>5, LiveRows DEF IndInv
  <2> HIDE DEF less, more, found
  <2> QED BY <1>1, <1>2, <1>3, <1>5, <1>6, <1>7, <2>2, <2>3, <2>4, <2>5, <2>6, <2>7
<1>9. CASE \E n \in Fresh : items' = [items EXCEPT ![i].onHand = @ - q, ![n] = part]
  <2>1. PICK n \in Fresh : items' = [items EXCEPT ![i].onHand = @ - q, ![n] = part] BY <1>9
  <2>2. n \in ItemId /\ n # i /\ ~IsRow(items[n]) BY <1>3 DEF Fresh, IsRow
  <2>3. items'[i] = less /\ items'[n] = part /\ \A k \in ItemId \ {i, n} : items'[k] = items[k]
    BY <1>3, <2>1, <2>2
  <2>4. IsRow(less) /\ IsRow(part) BY <1>4, <1>7, LiveRows DEF IndInv
  <2> HIDE DEF less, found
  <2> QED BY <1>1, <1>2, <1>3, <1>4, <1>5, <1>6, <1>7, <2>2, <2>3, <2>4
<1> QED BY <1>2, <1>8, <1>9

\* The amounts taken from one row of an asset and put into another, and the totals.
TakenAndPut(a) == \E i, j \in ItemId : Held(i, a)' < Held(i, a) /\ Held(j, a)' > Held(j, a)
TotalsStay(a) == OnHand(a)' = OnHand(a) /\ Allocated(a)' = Allocated(a)

\* A split keeps the totals of every asset.
LEMMA SplitKeepsTotals ==
    ASSUME IndInv, NEW i \in Live, NEW q \in 1..MaxQuantity, NEW b \in BatchField,
           NEW l \in LocationField, NEW s \in Status, Split(i, q, b, l, s), NEW a
    PROVE  TotalsStay(a)
<1> DEFINE h == [k \in ItemId |-> Held(k, a)]
           g == [k \in ItemId |-> Held(k, a)']
<1>1. OnHand(a) = Cardinality(Pieces(h)) /\ OnHand(a)' = Cardinality(Pieces(g))
  BY DEF OnHand
<1>2. Allocated(a)' = Allocated(a)
  <2>1. [k \in ItemId |-> Reserved(k, a)'] = [k \in ItemId |-> Reserved(k, a)]
    BY SplitMovesStock
  <2> QED BY <2>1 DEF Allocated
<1>3. CASE a # items[i].asset
  <2>1. g = h BY <1>3, SplitMovesStock
  <2> QED BY <1>1, <1>2, <2>1 DEF TotalsStay
<1>4. CASE a = items[i].asset
  <2>1. PICK t \in ItemId : /\ i # t /\ q <= Held(i, a)
                            /\ Held(i, a)' = Held(i, a) - q
                            /\ Held(t, a)' = Held(t, a) + q
                            /\ \A k \in ItemId \ {i, t} : Held(k, a)' = Held(k, a)
    BY <1>4, SplitMovesStock
  <2>2. h \in [ItemId -> 0..(MaxQuantity + 1)] BY HeldIsBounded
  <2>3. i \in ItemId /\ q \in Nat /\ MaxQuantity + 1 \in Nat BY BoundAssumption DEF Live
  <2>4. g[i] = h[i] - q /\ g[t] = h[t] + q /\ \A k \in ItemId \ {i, t} : g[k] = h[k]
    BY <2>1, <2>3
  <2>5. q <= h[i] BY <2>1, <2>3
  <2> HIDE DEF h, g
  <2>6. Cardinality(Pieces(g)) = Cardinality(Pieces(h))
    <3>1. PICK most : most = MaxQuantity + 1 OBVIOUS
    <3>2. most \in Nat /\ h \in [ItemId -> 0..most] BY <2>2, <2>3, <3>1
    <3> QED BY <2>1, <2>3, <2>4, <2>5, <3>2, MovingKeepsTheTotal
  <2> QED BY <1>1, <1>2, <2>6 DEF TotalsStay
<1> QED BY <1>3, <1>4

\* A step after which every row is what it was, or was no row before, takes
\* nothing.
LEMMA AddingTakesNothing ==
    ASSUME IndInv, NEW a,
           \A k \in ItemId : items'[k] = items[k] \/ ~IsRow(items[k]),
           IndInv'
    PROVE  ~TakenAndPut(a)
<1> SUFFICES ASSUME NEW k \in ItemId PROVE ~(Held(k, a)' < Held(k, a))
  BY DEF TakenAndPut
<1>1. /\ Held(k, a) = IF IsRow(items[k]) /\ items[k].asset = a THEN items[k].onHand ELSE 0
      /\ Held(k, a)' = IF IsRow(items'[k]) /\ items'[k].asset = a THEN items'[k].onHand ELSE 0
  BY DEF Held, LiveOf, Live
<1>2. /\ IsRow(items[k]) => items[k].onHand \in Nat
      /\ IsRow(items'[k]) => items'[k].onHand \in Nat
  BY DEF IndInv, TypeOK, Row, IsRow
<1> QED BY <1>1, <1>2

\* A step after which every row is what it was, or is deleted, puts nothing.
LEMMA DeletingPutsNothing ==
    ASSUME IndInv, NEW a, \A k \in ItemId : items'[k] = items[k] \/ items'[k] = Deleted
    PROVE  ~TakenAndPut(a)
<1> SUFFICES ASSUME NEW k \in ItemId PROVE ~(Held(k, a)' > Held(k, a))
  BY DEF TakenAndPut
<1>1. /\ Held(k, a) = IF IsRow(items[k]) /\ items[k].asset = a THEN items[k].onHand ELSE 0
      /\ Held(k, a)' = IF IsRow(items'[k]) /\ items'[k].asset = a THEN items'[k].onHand ELSE 0
  BY DEF Held, LiveOf, Live
<1>2. IsRow(items[k]) => items[k].onHand \in Nat
  BY DEF IndInv, TypeOK, Row, IsRow
<1> QED BY <1>1, <1>2 DEF IsRow

\* A step that changes the amount of one row at most takes from it or puts there.
LEMMA OneRowIsNotTwo ==
    ASSUME IndInv, IndInv', NEW a, NEW i \in ItemId,
           \A k \in ItemId \ {i} : /\ IsRow(items'[k]) <=> IsRow(items[k])
                                   /\ items'[k].asset = items[k].asset
                                   /\ items'[k].onHand = items[k].onHand
    PROVE  ~TakenAndPut(a)
<1>1. \A k \in ItemId :
        /\ Held(k, a) = IF IsRow(items[k]) /\ items[k].asset = a THEN items[k].onHand ELSE 0
        /\ Held(k, a)' = IF IsRow(items'[k]) /\ items'[k].asset = a THEN items'[k].onHand ELSE 0
  BY DEF Held, LiveOf, Live
<1>2. \A k \in ItemId \ {i} : Held(k, a)' = Held(k, a)
  BY <1>1
<1>3. \A k \in ItemId : Held(k, a) \in Int /\ Held(k, a)' \in Int
  <2>1. \A k \in ItemId : /\ IsRow(items[k]) => items[k].onHand \in Nat
                          /\ IsRow(items'[k]) => items'[k].onHand \in Nat
    BY DEF IndInv, TypeOK, Row, IsRow
  <2> QED BY <1>1, <2>1
<1>4. \A k \in ItemId \ {i} : ~(Held(k, a)' < Held(k, a)) /\ ~(Held(k, a)' > Held(k, a))
  BY <1>2, <1>3
<1>5. ~(Held(i, a)' < Held(i, a) /\ Held(i, a)' > Held(i, a)) BY <1>3
<1> QED BY <1>4, <1>5 DEF TakenAndPut

\* One step of the ledger: of all requests only a split takes from one row of an
\* asset and puts into another.
LEMMA StepConserves ==
    ASSUME IndInv, Next, NEW a
    PROVE  TakenAndPut(a) => TotalsStay(a)
<1>0. IndInv' BY NextKeepsIndInv
<1>00. DOMAIN items = ItemId /\ \A k \in Fresh : k \in ItemId /\ ~IsRow(items[k])
  BY DEF IndInv, TypeOK, Fresh, IsRow
<1>1. CASE CreateAssets
  <2>1. PICK b \in Asset, m \in Mode, I \in SUBSET Fresh :
          \E rowOf \in [I -> StorableRows(b, m)] : CreateAsset(b, m, rowOf)
    BY <1>1 DEF CreateAssets
  <2>2. \A k \in ItemId : items'[k] = items[k] \/ ~IsRow(items[k])
    BY <1>00, <2>1 DEF CreateAsset, Written
  <2> QED BY <1>0, <2>2, AddingTakesNothing
<1>2. CASE \E b \in Asset : DeleteAsset(b)
  <2>1. \A k \in ItemId : items'[k] = items[k] \/ items'[k] = Deleted
    BY <1>2 DEF DeleteAsset, Without
  <2> QED BY <2>1, DeletingPutsNothing
<1>3. CASE \E b \in Asset, m \in Mode : ChangeTrackingMode(b, m)
  BY <1>3, DeletingPutsNothing DEF ChangeTrackingMode
<1>4. CASE CreateItems
  <2>1. CASE \E b \in Asset : \E k \in Fresh, row \in StorableRows(b, "quantity") :
               CreateQuantityItem(b, k, row)
    <3>1. \A k \in ItemId : items'[k] = items[k] \/ ~IsRow(items[k])
      BY <1>00, <2>1 DEF CreateQuantityItem, Written
    <3> QED BY <1>0, <3>1, AddingTakesNothing
  <2>2. CASE \E b \in Asset, I \in SUBSET Fresh, bt \in BatchField, l \in LocationField,
                st \in Status : \E numberOf \in NumbersFor(I) :
                  CreateSerializedItems(b, numberOf, bt, l, st)
    <3>1. \A k \in ItemId : items'[k] = items[k] \/ ~IsRow(items[k])
      BY <1>00, <2>2 DEF CreateSerializedItems, Written, NumbersFor
    <3> QED BY <1>0, <3>1, AddingTakesNothing
  <2> QED BY <1>4, <2>1, <2>2 DEF CreateItems
<1>5. CASE ChangeItems
  <2>1. CASE \E i \in Live :
               \E row \in StorableRows(items[i].asset, items[i].mode) : UpdateItem(i, row)
    <3>1. PICK i \in Live : \A k \in ItemId \ {i} : items'[k] = items[k]
      BY <1>00, <2>1 DEF UpdateItem
    <3>2. i \in ItemId BY DEF Live
    <3> QED BY <1>0, <3>1, <3>2, OneRowIsNotTwo
  <2>2. CASE \E S \in SUBSET Live, p \in BatchPatch : S # {} /\ BatchUpdate(S, p)
    <3>1. PICK S \in SUBSET Live, p \in BatchPatch : BatchUpdate(S, p) BY <2>2
    <3>2. \A k \in ItemId : items'[k] = IF k \in S THEN Patched(items[k], p) ELSE items[k]
      BY <3>1 DEF BatchUpdate, Written
    <3>3. \A k \in S : /\ IsRow(items[k]) /\ IsRow(Patched(items[k], p))
                       /\ Patched(items[k], p).asset = items[k].asset
                       /\ Patched(items[k], p).onHand = items[k].onHand
      BY LiveRows, PatchedRow DEF IndInv
    <3>4. \A k \in ItemId : /\ IsRow(items'[k]) <=> IsRow(items[k])
                            /\ items'[k].asset = items[k].asset
                            /\ items'[k].onHand = items[k].onHand
      BY <3>2, <3>3
    <3>5. CASE ItemId = {} BY <3>5 DEF TakenAndPut
    <3>6. CASE ItemId # {}
      <4>1. PICK i \in ItemId : TRUE BY <3>6
      <4> QED BY <1>0, <3>4, <4>1, OneRowIsNotTwo
    <3> QED BY <3>5, <3>6
  <2>3. CASE \E i \in Live, q \in 1..MaxQuantity, b \in BatchField, l \in LocationField,
                st \in Status : Split(i, q, b, l, st)
    BY <2>3, SplitKeepsTotals
  <2>4. CASE \E t \in Live : \E S \in SUBSET (Live \ {t}) : S # {} /\ Merge(t, S)
    <3>1. PICK t \in Live : \E S \in SUBSET (Live \ {t}) : S # {} /\ Merge(t, S) BY <2>4
    <3>2. PICK S \in SUBSET (Live \ {t}) : S # {} /\ Merge(t, S) BY <3>1
    <3>3. PICK s \in S : TRUE BY <3>2
    <3>4. ~SameAggregate(items[t], items[s])
      BY <3>3 DEF IndInv, UniqueIndexes, Clash, Live, TypeOK
    <3>5. items' = items BY <3>2, <3>4 DEF Merge, Mergeable
    <3> QED BY <3>5, DeletingPutsNothing
  <2>5. CASE \E S \in SUBSET Live : S # {} /\ DeleteItems(S)
    <3>1. \A k \in ItemId : items'[k] = items[k] \/ items'[k] = Deleted
      BY <2>5 DEF DeleteItems, Without
    <3> QED BY <3>1, DeletingPutsNothing
  <2> QED BY <1>5, <2>1, <2>2, <2>3, <2>4, <2>5 DEF ChangeItems
<1>6. CASE \E l \in Location : CreateLocation(l)
  BY <1>6, DeletingPutsNothing DEF CreateLocation
<1>7. CASE \E S \in SUBSET Location : S # {} /\ DeleteLocations(S)
  <2>1. \A k \in ItemId : \/ items'[k] = items[k]
                          \/ k \in Live /\ items'[k] = [items[k] EXCEPT !.location = NoLocation]
    BY <1>7 DEF DeleteLocations, Cleared
  <2>2. ASSUME NEW k \in Live
        PROVE  LET r == [items[k] EXCEPT !.location = NoLocation]
               IN  /\ IsRow(r) /\ IsRow(items[k])
                   /\ r.asset = items[k].asset /\ r.onHand = items[k].onHand
    <3>1. items[k] \in Row BY LiveRows DEF IndInv
    <3>2. [items[k] EXCEPT !.location = NoLocation] \in Row
      BY <3>1 DEF Row, LocationField
    <3> QED BY <3>1, <3>2, LiveRows DEF IndInv, Row
  <2>3. \A k \in ItemId : /\ IsRow(items'[k]) <=> IsRow(items[k])
                          /\ items'[k].asset = items[k].asset
                          /\ items'[k].onHand = items[k].onHand
    BY <2>1, <2>2
  <2>4. CASE ItemId = {} BY <2>4 DEF TakenAndPut
  <2>5. CASE ItemId # {}
    <3>1. PICK i \in ItemId : TRUE BY <2>5
    <3> QED BY <1>0, <2>3, <3>1, OneRowIsNotTwo
  <2> QED BY <2>4, <2>5
<1> QED BY <1>1, <1>2, <1>3, <1>4, <1>5, <1>6, <1>7 DEF Next

\* No split creates or loses stock, nor allocations, of any asset, and no other
\* request takes stock out of one row and puts it into another.
THEOREM SplitsConserveStock == Spec => StockIsConserved
<1> DEFINE Step == \A a \in Asset : TakenAndPut(a) => TotalsStay(a)
<1>1. IndInv /\ [Next]_vars => [Step]_vars
  BY StepConserves
<1>2. Step => \A a \in Asset :
         (\E i, j \in ItemId : Held(i, a)' < Held(i, a) /\ Held(j, a)' > Held(j, a))
         => OnHand(a)' = OnHand(a) /\ Allocated(a)' = Allocated(a)
  BY DEF TakenAndPut, TotalsStay
<1> QED BY <1>1, <1>2, LedgerInvariant, PTL DEF Spec, StockIsConserved
-----------------------------------------------------------------------------
\* The requests that clients can make.
Requests == UNION {Menu[m].requests : m \in DOMAIN Menu}

Steps == {"idle", "lock", "check", "patch", "split", "merge", "delete", "validate", "write",
          "find", "take", "insert", "reference", "lockAsset", "draw", "retag", "scanAsset",
          "pick", "relock", "erase", "lockLocation", "scanLocation", "clear", "drop",
          "addLocation", "commit"}

TxnRecord == [request : Requests \cup {Nobody}, step : Steps, left : SUBSET ItemId,
              target : ItemId \cup {Nobody}, rest : Seq(Row), stocked : BOOLEAN]

\* The kinds of the variables; clients write rows to ids.
TxnTypeOK ==
    /\ txn \in [Client -> TxnRecord]
    /\ writes \in [Client -> UNION {[S -> Row] : S \in SUBSET ItemId}]
    /\ itemLock \in [ItemId -> Client \cup {Nobody}]
    /\ assetLock \in [Asset -> Client \cup {Nobody}]
    /\ locationLock \in [Location -> Client \cup {Nobody}]
    /\ sharers \in [Asset -> SUBSET Client]
    /\ DOMAIN reply = Client
    /\ menu \in DOMAIN Menu

\* The steps of the handler of each request.
StepsOf(op) ==
    CASE op = "patch" -> {"lock", "check", "patch", "validate", "write", "commit"}
      [] op = "split" -> {"lock", "check", "split", "validate", "find", "take", "insert",
                          "reference", "commit"}
      [] op = "merge" -> {"lock", "check", "merge"}
      [] op = "delete" -> {"lock", "check", "delete"}
      [] op \in {"createQuantity", "createSerialized"} ->
           {"lockAsset", "validate", "insert", "commit"}
      [] op = "generateSerialized" -> {"lockAsset", "validate", "draw", "insert", "commit"}
      [] op = "createAsset" -> {"validate", "insert", "commit"}
      [] op = "setMode" -> {"lockAsset", "retag", "scanAsset", "pick", "relock", "commit"}
      [] op = "deleteAsset" -> {"lockAsset", "scanAsset", "pick", "relock", "erase"}
      [] op = "createLocation" -> {"addLocation"}
      [] OTHER -> {"lockLocation", "scanLocation", "pick", "clear", "write", "drop"}

\* Client c has locked a row that is there, and a location that may be absent.
Holds(c, i) == itemLock[i] = c /\ IsRow(items[i])
Placed(c, l) == ValidLocation(l) /\ (l # NoLocation => locationLock[l] = c)

\* While it locks the rows it names, a request has locked those below the rows
\* that are left, or found them deleted.
LockingFits(c) ==
    LET t == txn[c]
        named == NamedIds(t.request)
    IN  /\ writes[c] = NoWrites
        /\ t.left \subseteq named
        /\ \A i \in named : i \in ItemId /\ items[i] # Unused
        /\ \A i \in named \ t.left : itemLock[i] = c \/ items[i] = Deleted
        /\ \A i \in ItemId : itemLock[i] = c => i \in named /\ \A j \in t.left : i < j
        /\ t.step = "lock" => t.target \in t.left /\ \A j \in t.left : t.target <= j
        /\ t.step = "check" => t.left = {}

\* The rows of a patch are locked; those it has visited are written as patched.
PatchFits(c) ==
    LET t == txn[c]
        p == t.request.patch
    IN  /\ \A i \in t.request.ids : Holds(c, i)
        /\ t.left \subseteq t.request.ids
        /\ DOMAIN writes[c] = t.request.ids \ t.left
        /\ \A i \in t.request.ids \ t.left :
              /\ Patchable(items[i], p)
              /\ writes[c][i] = PatchRow(items[i], p)
              /\ writes[c][i].allocated <= writes[c][i].onHand
              /\ Placed(c, writes[c][i].location)
        /\ t.step \in {"validate", "write"} =>
              /\ t.target \in t.left
              /\ Patchable(items[t.target], p)
              /\ t.rest = <<PatchRow(items[t.target], p)>>
        /\ t.step = "write" =>
              /\ Head(t.rest).allocated <= Head(t.rest).onHand
              /\ Placed(c, Head(t.rest).location)
        /\ t.step = "commit" => t.left = {}

Reduced(row, q) == [row EXCEPT !.onHand = @ - q]

\* A split has locked its source; once it has inserted the part, both rows are
\* written.
SplitFits(c) ==
    LET t == txn[c]
        r == t.request
        part == PartOf(items[r.id], r)
    IN  /\ Holds(c, r.id)
        /\ t.step # "split" => Splittable(r.id, r.quantity)
        /\ t.step \in {"split", "validate", "find", "take", "insert"} => writes[c] = NoWrites
        /\ t.step \in {"validate", "find", "take", "insert"} => t.rest = <<part>>
        /\ t.step \in {"find", "take", "insert", "reference", "commit"} =>
              Placed(c, part.location) /\ ~SameAggregate(items[r.id], part)
        /\ t.step = "take" => t.target \in ItemId \ {r.id}
        /\ t.step \in {"reference", "commit"} =>
              /\ t.target \in ItemId \ {r.id}
              /\ items[t.target] = Unused /\ itemLock[t.target] = c
              /\ writes[c] = [i \in {r.id, t.target} |->
                                IF i = r.id THEN Reduced(items[r.id], r.quantity) ELSE part]

\* The rows that a request to create rows may write.
Wanted(r, row) ==
    CASE r.op = "createQuantity" -> row = r.row
      [] r.op = "createAsset" -> row \in WellFormed(r.asset, r.mode)
      [] OTHER -> /\ row.serial \in HandSerial \cup 0..MaxSerial
                  /\ row = [r.row EXCEPT !.serial = row.serial]

\* A request to create rows has locked the asset, and each row it wrote.
CreateFits(c) ==
    LET t == txn[c]
        r == t.request
    IN  /\ assetLock[r.asset] = c
        /\ assets[r.asset] = IF r.op = "createAsset" THEN "unborn" ELSE r.row.mode
        /\ \A i \in DOMAIN writes[c] :
              /\ items[i] = Unused /\ itemLock[i] = c
              /\ Wanted(r, writes[c][i]) /\ Placed(c, writes[c][i].location)
        /\ t.step \in {"validate", "draw", "insert"} => t.rest # <<>>
        /\ t.step = "insert" \/ r.op = "createAsset" =>
              \A k \in DOMAIN t.rest : Wanted(r, t.rest[k])
        /\ t.step = "insert" => Placed(c, Head(t.rest).location)
        /\ r.op # "createAsset" =>
              /\ t.step \in {"validate", "draw"} => writes[c] = NoWrites
              /\ t.step = "validate" => t.rest = RowsToCreate(r)
              /\ t.step \in {"draw", "insert"} => Placed(c, r.row.location)
              /\ t.step = "commit" => writes[c] # NoWrites
        /\ r.op = "createQuantity" =>
              /\ t.step = "insert" => writes[c] = NoWrites /\ Len(t.rest) = 1
              /\ t.step = "commit" => \E i \in ItemId : DOMAIN writes[c] = {i}

\* A request to change the mode of an asset or to delete it has locked the
\* asset; where the mode is to change there is no row, and none can come.
OwnerFits(c) ==
    LET r == txn[c].request
    IN  /\ writes[c] = NoWrites
        /\ assetLock[r.asset] = c /\ assets[r.asset] \in Mode
        /\ r.op = "setMode" /\ txn[c].step # "retag" =>
              assets[r.asset] = r.mode \/ LiveOf(r.asset) = {}
        /\ txn[c].step = "relock" => txn[c].target \in ItemId

Emptied(row) == [row EXCEPT !.location = NoLocation]

\* The delete of a location has locked it, and has cleared rows that stand there.
LocationFits(c) ==
    LET t == txn[c]
        l == t.request.location
    IN  /\ locationLock[l] = c /\ locations[l] = "present"
        /\ \A i \in DOMAIN writes[c] :
              Holds(c, i) /\ items[i].location = l /\ writes[c][i] = Emptied(items[i])
        /\ t.step \in {"clear", "write"} => t.target \in ItemId
        /\ t.step = "write" =>
              /\ Holds(c, t.target) /\ items[t.target].location = l
              /\ t.rest = <<Emptied(items[t.target])>>

Opened(c) == txn[c].step \notin {"idle", "lock", "check", "lockAsset", "lockLocation", "addLocation"}

\* What the transaction of client c knows at the step it is at.
Fits(c) ==
    LET t == txn[c]
        op == t.request.op
    IN  /\ t.step # "idle" => t.request \in Requests /\ t.step \in StepsOf(op)
        /\ t.step = "idle" => writes[c] = NoWrites /\ \A i \in ItemId : itemLock[i] # c
        /\ t.step \in {"lock", "check"} => LockingFits(c)
        /\ t.step \in {"lockAsset", "lockLocation", "addLocation"} => writes[c] = NoWrites
        /\ Opened(c) =>
             /\ op = "patch" => PatchFits(c)
             /\ op = "split" => SplitFits(c)
             /\ op \in {"merge", "delete"} =>
                  writes[c] = NoWrites /\ \A i \in NamedIds(t.request) : Holds(c, i)
             /\ op \in {"createQuantity", "createSerialized", "generateSerialized", "createAsset"} =>
                  CreateFits(c)
             /\ op \in {"setMode", "deleteAsset"} => OwnerFits(c)
             /\ op = "deleteLocation" => LocationFits(c)

\* Every write is to a row that its client has locked.
WritesAreLocked == \A c \in Client : \A i \in DOMAIN writes[c] : itemLock[i] = c

\* The unique indexes hold of what each client sees, and between the rows that
\* different clients have written and not committed.
ViewsAreUnique == \A c \in Client : UniqueIndexes(Written(writes[c]))
NoRivalWrites ==
    \A c, d \in Client : c # d =>
        \A i \in DOMAIN writes[c], k \in DOMAIN writes[d] : ~Clash(writes[c][i], writes[d][k])

\* The inductive invariant of the transactions.
TxnInv ==
    /\ TxnTypeOK
    /\ IndInv
    /\ WritesAreLocked /\ ViewsAreUnique /\ NoRivalWrites
    /\ \A c \in Client : Fits(c)

-----------------------------------------------------------------------------
\* A client's request is one of the menu's.
LEMMA RequestsAreRequests ==
    ASSUME NEW r \in Requests
    PROVE  IsRequest(r)
  BY RequestAssumption DEF Requests

\* What requests of each kind are about.
LEMMA PatchesAre ==
    ASSUME NEW r \in Requests, r.op = "patch"
    PROVE  /\ r.ids \subseteq ItemId /\ r.ids # {}
           /\ r.patch \in Patch
           /\ \/ \E i \in ItemId : r.ids = {i}
              \/ r.patch.serial = Keep /\ r.patch.onHand = Keep /\ r.patch.allocated = Keep
<1>1. r \in PatchRequest
  BY RequestsAreRequests DEF IsRequest, SplitRequest, MergeRequest, DeleteRequest,
     CreateRequest, AssetRequest, LocationRequest
<1> QED BY <1>1 DEF PatchRequest

\* A split names one row, and what it changes of it is a patch of that row.
LEMMA SplitsAre ==
    ASSUME NEW r \in Requests, r.op = "split"
    PROVE  /\ r.id \in ItemId /\ r.quantity \in 1..MaxQuantity
           /\ r.batch \in BatchField \cup {Keep} /\ r.location \in LocationField \cup {Keep}
           /\ r.status \in Status \cup {Keep}
<1>1. r \in SplitRequest
  BY RequestsAreRequests DEF IsRequest, PatchRequest, MergeRequest, DeleteRequest,
     CreateRequest, AssetRequest, LocationRequest
<1> QED BY <1>1 DEF SplitRequest

\* A merge names a target and other rows.
LEMMA MergesAre ==
    ASSUME NEW r \in Requests, r.op = "merge"
    PROVE  r.target \in ItemId /\ r.ids \subseteq ItemId /\ r.ids # {} /\ r.target \notin r.ids
<1>1. r \in MergeRequest
  BY RequestsAreRequests DEF IsRequest, PatchRequest, SplitRequest, DeleteRequest,
     CreateRequest, AssetRequest, LocationRequest
<1> QED BY <1>1 DEF MergeRequest

\* A delete names at least one row.
LEMMA DeletesAre ==
    ASSUME NEW r \in Requests, r.op = "delete"
    PROVE  r.ids \subseteq ItemId /\ r.ids # {}
<1>1. r \in DeleteRequest
  BY RequestsAreRequests DEF IsRequest, PatchRequest, SplitRequest, MergeRequest,
     CreateRequest, AssetRequest, LocationRequest
<1> QED BY <1>1 DEF DeleteRequest

\* A request to create rows names an asset, and what the rows are to be.
LEMMA CreatesAre ==
    ASSUME NEW r \in Requests
    PROVE  /\ r.op = "createQuantity" => r.asset \in Asset /\ r.row \in WellFormed(r.asset, "quantity")
           /\ r.op \in {"createSerialized", "generateSerialized"} =>
                r.asset \in Asset /\ r.row \in Template(r.asset)
           /\ r.op = "createSerialized" =>
                r.serials \in Seq(HandSerial \cup 0..MaxSerial) /\ r.serials # <<>>
           /\ r.op = "generateSerialized" => r.count \in Nat \ {0}
<1>1. ASSUME r.op \in {"createQuantity", "createSerialized", "generateSerialized"}
      PROVE  \E a \in Asset : r \in CreateRequest(a)
  BY <1>1, RequestsAreRequests DEF IsRequest, PatchRequest, SplitRequest, MergeRequest,
     DeleteRequest, AssetRequest, LocationRequest
<1> QED BY <1>1 DEF CreateRequest

\* A request about an asset, and the rows that a new one comes with.
LEMMA AssetRequestsAre ==
    ASSUME NEW r \in Requests
    PROVE  /\ r.op \in {"createAsset", "setMode", "deleteAsset"} => r.asset \in Asset
           /\ r.op \in {"createAsset", "setMode"} => r.mode \in Mode
           /\ r.op = "createAsset" => r.rows \in Seq(WellFormed(r.asset, r.mode))
           /\ r.op = "deleteLocation" => r.location \in Location
<1>1. ASSUME r.op \in {"createAsset", "setMode", "deleteAsset"}
      PROVE  \E a \in Asset, m \in Mode : r \in AssetRequest(a, m)
  BY <1>1, RequestsAreRequests DEF IsRequest, PatchRequest, SplitRequest, MergeRequest,
     DeleteRequest, CreateRequest, LocationRequest
<1>2. ASSUME r.op = "deleteLocation"
      PROVE  r \in LocationRequest
  BY <1>2, RequestsAreRequests DEF IsRequest, PatchRequest, SplitRequest, MergeRequest,
     DeleteRequest, CreateRequest, AssetRequest
<1> QED BY <1>1, <1>2 DEF AssetRequest, LocationRequest

\* There are no other kinds of requests.
LEMMA OpsAre ==
    ASSUME NEW r \in Requests
    PROVE  r.op \in {"patch", "split", "merge", "delete", "createQuantity", "createSerialized",
                     "generateSerialized", "createAsset", "setMode", "deleteAsset",
                     "createLocation", "deleteLocation"}
  BY RequestsAreRequests DEF IsRequest, PatchRequest, SplitRequest, MergeRequest,
     DeleteRequest, CreateRequest, AssetRequest, LocationRequest

\* The rows a request names have ids.
LEMMA NamedAreIds ==
    ASSUME NEW r \in Requests
    PROVE  NamedIds(r) \subseteq ItemId
  BY PatchesAre, SplitsAre, MergesAre, DeletesAre, OpsAre DEF NamedIds

-----------------------------------------------------------------------------
\* What the transaction of a client is made of.
LEMMA TxnsAre ==
    ASSUME TxnTypeOK, NEW c \in Client
    PROVE  /\ txn[c] \in TxnRecord /\ c \in DOMAIN txn /\ c \in DOMAIN writes
           /\ txn[c].left \subseteq ItemId /\ txn[c].rest \in Seq(Row)
           /\ DOMAIN writes[c] \subseteq ItemId
           /\ \A i \in DOMAIN writes[c] : writes[c][i] \in Row
           /\ writes[c] = [i \in DOMAIN writes[c] |-> writes[c][i]]
<1>1. txn[c] \in TxnRecord BY DEF TxnTypeOK
<1>2. PICK S \in SUBSET ItemId : writes[c] \in [S -> Row] BY DEF TxnTypeOK
<1> QED BY <1>1, <1>2 DEF TxnTypeOK, TxnRecord

\* A statement that runs is not kept waiting by another client.
LEMMA Unblocked ==
    ASSUME TxnTypeOK, NEW c \in Client, Blockers(c) = {}
    PROVE  /\ txn[c].step \in {"lock", "take", "relock", "clear"} =>
                itemLock[txn[c].target] \in {c, Nobody}
           /\ txn[c].step = "lockAsset" => assetLock[txn[c].request.asset] \in {c, Nobody}
           /\ txn[c].step = "lockLocation" => locationLock[txn[c].request.location] \in {c, Nobody}
           /\ txn[c].step = "validate" =>
                \/ Head(txn[c].rest).location = NoLocation
                \/ locationLock[Head(txn[c].rest).location] \in {c, Nobody}
           /\ txn[c].step = "write" /\ KeyIsNew(c, txn[c].target, Head(txn[c].rest)) =>
                Rivals(c, Head(txn[c].rest)) = {}
           /\ txn[c].step = "insert" => Rivals(c, Head(txn[c].rest)) = {}
           /\ txn[c].step = "erase" =>
                \A i \in LiveOf(txn[c].request.asset) : itemLock[i] \in {c, Nobody}
<1>1. ASSUME txn[c].step \in {"lock", "take", "relock", "clear"}
      PROVE  itemLock[txn[c].target] \in {c, Nobody}
  BY <1>1 DEF Blockers
<1>2. ASSUME txn[c].step = "lockAsset"
      PROVE  assetLock[txn[c].request.asset] \in {c, Nobody}
  BY <1>2 DEF Blockers
<1>3. ASSUME txn[c].step = "lockLocation"
      PROVE  locationLock[txn[c].request.location] \in {c, Nobody}
  BY <1>3 DEF Blockers
<1>4. ASSUME txn[c].step = "validate", Head(txn[c].rest).location # NoLocation
      PROVE  locationLock[Head(txn[c].rest).location] \in {c, Nobody}
  BY <1>4 DEF Blockers
<1>5. \A row : Rivals(c, row) \cap {c, Nobody} = {} BY ClientAssumption DEF Rivals
<1>6. ASSUME txn[c].step = "write", KeyIsNew(c, txn[c].target, Head(txn[c].rest))
      PROVE  Rivals(c, Head(txn[c].rest)) = {}
  BY <1>5, <1>6 DEF Blockers
<1>7. ASSUME txn[c].step = "insert"
      PROVE  Rivals(c, Head(txn[c].rest)) = {}
  BY <1>5, <1>7 DEF Blockers
<1>8. ASSUME txn[c].step = "erase", NEW i \in LiveOf(txn[c].request.asset)
      PROVE  itemLock[i] \in {c, Nobody}
  BY <1>8 DEF Blockers, Holders
<1> QED BY <1>1, <1>2, <1>3, <1>4, <1>6, <1>7, <1>8

-----------------------------------------------------------------------------
\* A step that client c can disregard: its transaction, what it has locked and
\* what it has read under a lock stay, and no named row comes into being.
Apart(c) ==
    /\ txn'[c] = txn[c] /\ writes'[c] = writes[c]
    /\ \A i \in ItemId :
         /\ itemLock'[i] = c <=> itemLock[i] = c
         /\ itemLock[i] = c => items'[i] = items[i]
         /\ items[i] # Unused => items'[i] # Unused
         /\ items[i] = Deleted => items'[i] = Deleted
    /\ \A a \in Asset : assetLock[a] = c =>
         /\ assetLock'[a] = c /\ assets'[a] = assets[a]
         /\ LiveOf(a) = {} => LiveOf(a)' = {}
    /\ \A l \in Location : locationLock[l] = c /\ locations[l] = "present" =>
         locationLock'[l] = c /\ locations'[l] = "present"

\* A location that c has locked stays where it is.
LEMMA ApartPlaced ==
    ASSUME NEW c, Apart(c), NEW l, Placed(c, l)
    PROVE  Placed(c, l)'
  BY DEF Apart, Placed, ValidLocation

\* The rows that c has locked so far stay locked; those it found deleted stay so.
LEMMA ApartLocking ==
    ASSUME NEW c \in Client, Apart(c), LockingFits(c)
    PROVE  LockingFits(c)'
  BY DEF Apart, LockingFits

\* The rows of a patch stay as they were read.
LEMMA ApartPatch ==
    ASSUME TxnTypeOK, NEW c \in Client, Apart(c), PatchFits(c),
           txn[c].request \in Requests, txn[c].request.op = "patch"
    PROVE  PatchFits(c)'
<1>1. txn[c].request.ids \subseteq ItemId BY PatchesAre
<1>2. \A i \in txn[c].request.ids : items'[i] = items[i] /\ Holds(c, i)'
  BY <1>1 DEF Apart, PatchFits, Holds
<1>3. txn[c].left \subseteq txn[c].request.ids BY DEF PatchFits
<1>4. txn'[c] = txn[c] /\ writes'[c] = writes[c] BY DEF Apart
<1> QED BY <1>2, <1>3, <1>4, ApartPlaced DEF PatchFits

\* So do the source of a split and the part it has inserted.
LEMMA ApartSplit ==
    ASSUME TxnTypeOK, NEW c \in Client, Apart(c), SplitFits(c),
           txn[c].request \in Requests, txn[c].request.op = "split"
    PROVE  SplitFits(c)'
<1> DEFINE r == txn[c].request
           part == PartOf(items[r.id], r)
<1>1. r.id \in ItemId BY SplitsAre
<1>2. items'[r.id] = items[r.id] /\ Holds(c, r.id)'
  BY <1>1 DEF Apart, SplitFits, Holds
<1>3. txn'[c] = txn[c] /\ writes'[c] = writes[c] BY DEF Apart
<1>4. Splittable(r.id, r.quantity) => Splittable(r.id, r.quantity)'
  BY <1>2, <1>3 DEF Splittable
<1>5. Placed(c, part.location) => Placed(c, part.location)'
  BY <1>2, <1>3, ApartPlaced
<1>6. txn[c].target \in ItemId /\ items[txn[c].target] = Unused /\ itemLock[txn[c].target] = c =>
        items'[txn[c].target] = Unused /\ itemLock'[txn[c].target] = c
  BY DEF Apart
<1> QED BY <1>1, <1>2, <1>3, <1>4, <1>5, <1>6 DEF SplitFits

\* So do the asset that is to have the new rows, and the rows.
LEMMA ApartCreate ==
    ASSUME TxnTypeOK, NEW c \in Client, Apart(c), CreateFits(c),
           txn[c].request \in Requests, txn[c].request.asset \in Asset
    PROVE  CreateFits(c)'
<1> DEFINE r == txn[c].request
<1>1. txn'[c] = txn[c] /\ writes'[c] = writes[c] BY DEF Apart
<1>2. assetLock'[r.asset] = c /\ assets'[r.asset] = assets[r.asset] BY DEF Apart, CreateFits
<1>3. ASSUME NEW i \in DOMAIN writes[c]
      PROVE  /\ items'[i] = Unused /\ itemLock'[i] = c
             /\ Wanted(r, writes[c][i]) /\ Placed(c, writes[c][i].location)'
  <2>1. i \in ItemId /\ items[i] = Unused /\ itemLock[i] = c
    BY TxnsAre DEF CreateFits
  <2>2. Wanted(r, writes[c][i]) /\ Placed(c, writes[c][i].location) BY DEF CreateFits
  <2> QED BY <1>1, <2>1, <2>2, ApartPlaced DEF Apart
<1>4. Placed(c, Head(txn[c].rest).location) => Placed(c, Head(txn[c].rest).location)'
  BY <1>1, ApartPlaced
<1>5. Placed(c, r.row.location) => Placed(c, r.row.location)'
  BY <1>1, ApartPlaced
<1> QED BY <1>1, <1>2, <1>3, <1>4, <1>5 DEF CreateFits

\* So does the asset that is to change or go, and no row of it comes.
LEMMA ApartAsset ==
    ASSUME NEW c \in Client, Apart(c), OwnerFits(c), txn[c].request.asset \in Asset
    PROVE  OwnerFits(c)'
  BY DEF Apart, OwnerFits

\* So do the location that is to go and the rows that were cleared.
LEMMA ApartLocation ==
    ASSUME TxnTypeOK, NEW c \in Client, Apart(c), LocationFits(c), WritesAreLocked,
           txn[c].request.location \in Location
    PROVE  LocationFits(c)'
<1>1. txn'[c] = txn[c] /\ writes'[c] = writes[c] BY DEF Apart
<1>2. ASSUME NEW i \in ItemId, Holds(c, i)
      PROVE  items'[i] = items[i] /\ Holds(c, i)'
  BY <1>2 DEF Apart, Holds
<1>3. \A i \in DOMAIN writes[c] : i \in ItemId BY TxnsAre
<1>4. locationLock'[txn[c].request.location] = c /\ locations'[txn[c].request.location] = "present"
  BY DEF Apart, LocationFits
<1> QED BY <1>1, <1>2, <1>3, <1>4 DEF LocationFits

\* What a client knows survives the steps it can disregard.
LEMMA ApartFits ==
    ASSUME TxnInv, NEW c \in Client, Apart(c)
    PROVE  Fits(c)'
<1> DEFINE t == txn[c]
           op == txn[c].request.op
<1>0. TxnTypeOK /\ WritesAreLocked /\ Fits(c) BY DEF TxnInv
<1>1. txn'[c] = txn[c] /\ writes'[c] = writes[c] BY DEF Apart
<1>2. t.step # "idle" => t.request \in Requests /\ t.step \in StepsOf(op) BY <1>0 DEF Fits
<1>3. t.step = "idle" => writes[c] = NoWrites /\ \A i \in ItemId : itemLock'[i] # c
  BY <1>0 DEF Fits, Apart
<1>4. t.step \in {"lock", "check"} => LockingFits(c)' BY <1>0, ApartLocking DEF Fits
<1>5. t.step \in {"lockAsset", "lockLocation", "addLocation"} => writes[c] = NoWrites
  BY <1>0 DEF Fits
<1>6. ASSUME Opened(c)
      PROVE  /\ op = "patch" => PatchFits(c)'
             /\ op = "split" => SplitFits(c)'
             /\ op \in {"merge", "delete"} =>
                  writes[c] = NoWrites /\ \A i \in NamedIds(t.request) : Holds(c, i)'
             /\ op \in {"createQuantity", "createSerialized", "generateSerialized", "createAsset"} =>
                  CreateFits(c)'
             /\ op \in {"setMode", "deleteAsset"} => OwnerFits(c)'
             /\ op = "deleteLocation" => LocationFits(c)'
  <2>1. t.request \in Requests BY <1>2, <1>6 DEF Opened
  <2>2. op = "patch" => PatchFits(c)' BY <1>0, <1>6, <2>1, ApartPatch DEF Fits
  <2>3. op = "split" => SplitFits(c)' BY <1>0, <1>6, <2>1, ApartSplit DEF Fits
  <2>4. op \in {"merge", "delete"} =>
          writes[c] = NoWrites /\ \A i \in NamedIds(t.request) : Holds(c, i)'
    BY <1>0, <1>6, <2>1, NamedAreIds DEF Fits, Holds, Apart
  <2>5. op \in {"createQuantity", "createSerialized", "generateSerialized", "createAsset"} =>
          CreateFits(c)'
    BY <1>0, <1>6, <2>1, CreatesAre, AssetRequestsAre, ApartCreate DEF Fits
  <2>6. op \in {"setMode", "deleteAsset"} => OwnerFits(c)'
    BY <1>0, <1>6, <2>1, AssetRequestsAre, ApartAsset DEF Fits
  <2>7. op = "deleteLocation" => LocationFits(c)'
    BY <1>0, <1>6, <2>1, AssetRequestsAre, ApartLocation DEF Fits
  <2> QED BY <2>2, <2>3, <2>4, <2>5, <2>6, <2>7
<1>7. Opened(c)' <=> Opened(c) BY <1>1 DEF Opened
<1> QED BY <1>1, <1>2, <1>3, <1>4, <1>5, <1>6, <1>7 DEF Fits

-----------------------------------------------------------------------------
\* A statement of client c takes locks that are free, and gives none up.
LocksGrow(c) ==
    /\ itemLock' \in [ItemId -> Client \cup {Nobody}]
    /\ assetLock' \in [Asset -> Client \cup {Nobody}]
    /\ locationLock' \in [Location -> Client \cup {Nobody}]
    /\ sharers' \in [Asset -> SUBSET Client]
    /\ \A i \in ItemId : itemLock'[i] # itemLock[i] => itemLock[i] = Nobody /\ itemLock'[i] = c
    /\ \A a \in Asset : assetLock'[a] # assetLock[a] => assetLock[a] = Nobody /\ assetLock'[a] = c
    /\ \A l \in Location :
         locationLock'[l] # locationLock[l] => locationLock[l] = Nobody /\ locationLock'[l] = c

\* A client that takes no lock keeps those it has.
LEMMA LocksStay ==
    ASSUME TxnTypeOK, NEW c \in Client, UNCHANGED locks
    PROVE  LocksGrow(c)
  BY DEF LocksGrow, TxnTypeOK, locks

\* A client that locks a free row, ..
LEMMA TakingItem ==
    ASSUME TxnTypeOK, NEW c \in Client, NEW i \in ItemId, itemLock[i] \in {c, Nobody},
           TakeItem(c, i)
    PROVE  LocksGrow(c) /\ itemLock'[i] = c /\ \A k \in ItemId : k # i => itemLock'[k] = itemLock[k]
  BY DEF LocksGrow, TxnTypeOK, TakeItem

\* .. a free asset, ..
LEMMA TakingAsset ==
    ASSUME TxnTypeOK, NEW c \in Client, NEW a \in Asset, assetLock[a] \in {c, Nobody},
           TakeAsset(c, a)
    PROVE  LocksGrow(c) /\ assetLock'[a] = c /\ itemLock' = itemLock
  BY DEF LocksGrow, TxnTypeOK, TakeAsset

\* .. or a free location takes it from no other.
LEMMA TakingLocation ==
    ASSUME TxnTypeOK, NEW c \in Client, NEW l \in LocationField,
           l = NoLocation \/ locationLock[l] \in {c, Nobody}, TakeLocation(c, l)
    PROVE  LocksGrow(c) /\ (l # NoLocation => locationLock'[l] = c) /\ itemLock' = itemLock
  BY NullAssumption DEF LocksGrow, TxnTypeOK, TakeLocation, LocationField

\* A step of c that changes no table can be disregarded by the others.
LEMMA QuietIsApart ==
    ASSUME TxnTypeOK, NEW c \in Client, NEW d \in Client, c # d, UNCHANGED vars, LocksGrow(c),
           txn'[d] = txn[d], writes'[d] = writes[d]
    PROVE  Apart(d)
<1>1. Nobody # d /\ Nobody # c BY ClientAssumption
<1>2. \A a : LiveOf(a)' = LiveOf(a) BY DEF vars, LiveOf, Live
<1> QED BY <1>1, <1>2 DEF Apart, LocksGrow, vars

\* A statement that writes nothing.
LEMMA QuietStep ==
    ASSUME TxnInv, NEW c \in Client, NEW t \in TxnRecord, txn' = [txn EXCEPT ![c] = t],
           UNCHANGED <<vars, writes, menu>>, DOMAIN reply' = Client, LocksGrow(c), Fits(c)'
    PROVE  TxnInv' /\ UNCHANGED vars
<1>0. TxnTypeOK BY DEF TxnInv
<1>1. UNCHANGED vars OBVIOUS
<1>2. TxnTypeOK' BY <1>0 DEF TxnTypeOK, LocksGrow
<1>3. IndInv' BY <1>1, NextKeepsIndInv DEF TxnInv
<1>4. WritesAreLocked'
  <2> SUFFICES ASSUME NEW d \in Client, NEW i \in DOMAIN writes[d] PROVE itemLock'[i] = d
    BY DEF WritesAreLocked
  <2>1. i \in ItemId /\ itemLock[i] = d BY <1>0, TxnsAre DEF TxnInv, WritesAreLocked
  <2> QED BY <2>1, ClientAssumption DEF LocksGrow
<1>5. ViewsAreUnique' BY <1>1 DEF TxnInv, ViewsAreUnique, Written, UniqueIndexes, vars
<1>6. NoRivalWrites' BY DEF TxnInv, NoRivalWrites
<1>7. ASSUME NEW d \in Client PROVE Fits(d)'
  <2>1. CASE d = c BY <2>1
  <2>2. CASE d # c
    <3>1. txn'[d] = txn[d] BY <1>0, <2>2 DEF TxnTypeOK
    <3>2. Apart(d) BY <1>0, <1>1, <2>2, <3>1, QuietIsApart
    <3> QED BY <3>2, ApartFits
  <2> QED BY <2>1, <2>2
<1> QED BY <1>1, <1>2, <1>3, <1>4, <1>5, <1>6, <1>7 DEF TxnInv

\* A statement that writes nothing keeps the invariant if its client is where it
\* should be afterwards.
LEMMA GoingOn ==
    ASSUME TxnInv, NEW c \in Client, NEW t \in TxnRecord, Go(c, t), writes' = writes,
           LocksGrow(c), Fits(c)'
    PROVE  TxnInv' /\ UNCHANGED vars
  BY QuietStep DEF Go, TxnInv, TxnTypeOK

\* A statement that writes rows of the ids S: they are locked, and meet neither
\* what the client sees nor what the others have written.
LEMMA WritingStep ==
    ASSUME TxnInv, NEW c \in Client, NEW t \in TxnRecord, Go(c, t), LocksGrow(c),
           NEW S \in SUBSET ItemId, NEW w \in [S -> Row],
           writes' = [writes EXCEPT ![c] = w],
           \A i \in S : itemLock'[i] = c,
           UniqueIndexes(Written(w)),
           \A d \in Client \ {c} : \A i \in S, k \in DOMAIN writes[d] : ~Clash(w[i], writes[d][k]),
           Fits(c)'
    PROVE  TxnInv' /\ UNCHANGED vars
<1>0. TxnTypeOK BY DEF TxnInv
<1>1. UNCHANGED vars BY DEF Go
<1>a. /\ writes'[c] = w /\ DOMAIN w = S
      /\ \A d \in Client : d # c => writes'[d] = writes[d] /\ txn'[d] = txn[d]
  BY <1>0 DEF TxnTypeOK, Go
<1>2. TxnTypeOK'
  <2>1. w \in UNION {[T -> Row] : T \in SUBSET ItemId} OBVIOUS
  <2>2. writes' \in [Client -> UNION {[T -> Row] : T \in SUBSET ItemId}]
    BY <1>0, <2>1 DEF TxnTypeOK
  <2> QED BY <1>0, <2>2 DEF TxnTypeOK, Go, LocksGrow
<1>3. IndInv' BY <1>1, NextKeepsIndInv DEF TxnInv
<1>4. WritesAreLocked'
  <2> SUFFICES ASSUME NEW d \in Client, NEW i \in DOMAIN writes'[d] PROVE itemLock'[i] = d
    BY DEF WritesAreLocked
  <2>1. CASE d = c BY <1>a, <2>1
  <2>2. CASE d # c
    <3>1. i \in ItemId /\ itemLock[i] = d
      BY <1>0, <1>a, <2>2, TxnsAre DEF TxnInv, WritesAreLocked
    <3> QED BY <3>1, ClientAssumption DEF LocksGrow
  <2> QED BY <2>1, <2>2
<1>5. ViewsAreUnique'
  <2> SUFFICES ASSUME NEW d \in Client PROVE UniqueIndexes(Written(writes[d]))'
    BY DEF ViewsAreUnique
  <2>0. items' = items BY <1>1 DEF vars
  <2>1. CASE d = c BY <1>a, <2>0, <2>1 DEF Written, UniqueIndexes
  <2>2. CASE d # c
    <3>1. UniqueIndexes(Written(writes[d])) BY DEF TxnInv, ViewsAreUnique
    <3> QED BY <1>a, <2>0, <2>2, <3>1 DEF Written, UniqueIndexes
  <2> QED BY <2>1, <2>2
<1>6. NoRivalWrites'
  <2> SUFFICES ASSUME NEW d \in Client, NEW e \in Client, d # e,
                      NEW i \in DOMAIN writes'[d], NEW k \in DOMAIN writes'[e]
               PROVE  ~Clash(writes'[d][i], writes'[e][k])
    BY DEF NoRivalWrites
  <2>1. CASE d # c /\ e # c BY <1>a, <2>1 DEF TxnInv, NoRivalWrites
  <2>2. CASE d = c BY <1>a, <2>2
  <2>3. CASE e = c
    <3>1. ~Clash(w[k], writes[d][i]) BY <1>a, <2>3
    <3> QED BY <1>a, <2>3, <3>1 DEF Clash, SameAggregate, SameSerial
  <2> QED BY <2>1, <2>2, <2>3
<1>7. ASSUME NEW d \in Client PROVE Fits(d)'
  <2>1. CASE d = c BY <2>1
  <2>2. CASE d # c
    <3>1. Apart(d) BY <1>0, <1>1, <1>a, <2>2, QuietIsApart
    <3> QED BY <3>1, ApartFits
  <2> QED BY <2>1, <2>2
<1> QED BY <1>1, <1>2, <1>3, <1>4, <1>5, <1>6, <1>7 DEF TxnInv

-----------------------------------------------------------------------------
\* What the locks of the others are after client c has released its own.
LEMMA Releasing ==
    ASSUME TxnTypeOK, NEW c \in Client, Release(c)
    PROVE  /\ itemLock' \in [ItemId -> Client \cup {Nobody}]
           /\ assetLock' \in [Asset -> Client \cup {Nobody}]
           /\ locationLock' \in [Location -> Client \cup {Nobody}]
           /\ sharers' \in [Asset -> SUBSET Client]
           /\ \A i \in ItemId : itemLock'[i] # c
           /\ \A d \in Client : d # c =>
                /\ \A i \in ItemId : itemLock'[i] = d <=> itemLock[i] = d
                /\ \A a \in Asset : assetLock[a] = d => assetLock'[a] = d
                /\ \A l \in Location : locationLock[l] = d => locationLock'[l] = d
  BY ClientAssumption DEF TxnTypeOK, Release

\* A connection that serves no request.
LEMMA IdleIs == Idle \in TxnRecord /\ Idle.step = "idle" /\ Idle.left = {} /\ Idle.rest = <<>>
  BY DEF Idle, TxnRecord, Steps

\* What an answer leaves of the transaction.
LEMMA Answering ==
    ASSUME TxnTypeOK, NEW c \in Client, NEW code, Answer(c, code)
    PROVE  /\ txn'[c] = Idle /\ writes'[c] = NoWrites
           /\ \A d \in Client : d # c => txn'[d] = txn[d] /\ writes'[d] = writes[d]
           /\ txn' \in [Client -> TxnRecord]
           /\ writes' \in [Client -> UNION {[S -> Row] : S \in SUBSET ItemId}]
           /\ DOMAIN reply' = Client /\ menu' \in DOMAIN Menu
<1>1. Idle \in TxnRecord BY IdleIs
<1>2. NoWrites \in [{} -> Row] BY DEF NoWrites
<1>3. NoWrites \in UNION {[S -> Row] : S \in SUBSET ItemId} BY <1>2
<1>4. txn' \in [Client -> TxnRecord] /\ txn'[c] = Idle
  BY <1>1 DEF Answer, TxnTypeOK
<1>5. /\ writes' \in [Client -> UNION {[S -> Row] : S \in SUBSET ItemId}]
      /\ writes'[c] = NoWrites
  BY <1>3 DEF Answer, TxnTypeOK
<1> QED BY <1>4, <1>5 DEF Answer, TxnTypeOK

\* The tables after a commit of client c, as the other clients need them.
Considerate(c) ==
    /\ \A i \in ItemId : items'[i] # items[i] =>
         /\ itemLock[i] \in {c, Nobody}
         /\ items'[i] # Unused /\ items[i] # Deleted
         /\ IsRow(items'[i]) =>
              \/ IsRow(items[i]) /\ items[i].asset = items'[i].asset
              \/ assetLock[items'[i].asset] = c \/ LiveOf(items'[i].asset) # {}
    /\ \A a \in Asset : assets'[a] # assets[a] => assetLock[a] = c
    /\ \A l \in Location : locations'[l] # locations[l] =>
         locationLock[l] = c \/ locations[l] = "unborn"

\* What becomes of the index keys: the rows of the client's writes are stored,
\* or no key is new.
KeysAreKnown(c) ==
    \/ items' = Written(writes[c])
    \/ \A i \in ItemId : IsRow(items'[i]) => IsRow(items[i]) /\ SameKey(items'[i], items[i])

\* A change of the tables that gives no row a new key.
LEMMA NoKeyIsNew ==
    ASSUME NEW c, UNCHANGED vars
    PROVE  KeysAreKnown(c)
  BY DEF KeysAreKnown, SameKey, vars

\* What other clients know stands when the transaction of c ends.
LEMMA CommitIsApart ==
    ASSUME TxnTypeOK, TypeOK, TypeOK', NEW c \in Client, NEW d \in Client, c # d,
           Considerate(c), Release(c), txn'[d] = txn[d], writes'[d] = writes[d]
    PROVE  Apart(d)
<1>0. Nobody # d BY ClientAssumption
<1>1. \A i \in ItemId :
         /\ itemLock'[i] = d <=> itemLock[i] = d
         /\ itemLock[i] = d => items'[i] = items[i]
         /\ items[i] # Unused => items'[i] # Unused
         /\ items[i] = Deleted => items'[i] = Deleted
  BY <1>0, Releasing DEF Considerate
<1>2. ASSUME NEW a \in Asset, assetLock[a] = d
      PROVE  /\ assetLock'[a] = d /\ assets'[a] = assets[a]
             /\ LiveOf(a) = {} => LiveOf(a)' = {}
  <2>1. assetLock'[a] = d /\ assets'[a] = assets[a] BY <1>2, Releasing DEF Considerate
  <2>2. ASSUME LiveOf(a) = {}, NEW i \in LiveOf(a)' PROVE FALSE
    <3>1. i \in ItemId /\ IsRow(items'[i]) /\ items'[i].asset = a
      BY <2>2 DEF LiveOf, Live
    <3>2. i \notin LiveOf(a) BY <2>2
    <3>3. ~(IsRow(items[i]) /\ items[i].asset = a) BY <3>1, <3>2 DEF LiveOf, Live
    <3>4. items'[i] # items[i] BY <3>1, <3>3
    <3>5. assetLock[a] = c \/ LiveOf(a) # {} BY <3>1, <3>3, <3>4 DEF Considerate
    <3> QED BY <1>2, <2>2, <3>5
  <2> QED BY <2>1, <2>2
<1>3. \A l \in Location : locationLock[l] = d /\ locations[l] = "present" =>
         locationLock'[l] = d /\ locations'[l] = "present"
  BY Releasing DEF Considerate
<1> QED BY <1>1, <1>2, <1>3 DEF Apart

\* What they see still has unique keys, whatever c has committed.
LEMMA ViewsStayUnique ==
    ASSUME TxnInv, NEW c \in Client, NEW d \in Client, c # d, TypeOK', KeysAreKnown(c),
           writes'[d] = writes[d]
    PROVE  UniqueIndexes(Written(writes[d]))'
<1> DEFINE old == Written(writes[d])
           new == Written(writes[d])'
<1>0. TxnTypeOK /\ UniqueIndexes(old) /\ UniqueIndexes(Written(writes[c]))
  BY DEF TxnInv, ViewsAreUnique
<1>1. DOMAIN old = ItemId /\ DOMAIN new = ItemId /\ DOMAIN Written(writes[c]) = ItemId
  BY DEF Written
<1>2. DOMAIN writes[d] \subseteq ItemId BY <1>0, TxnsAre
<1>3. CASE items' = Written(writes[c])
  <2>1. ASSUME NEW i \in ItemId
        PROVE  \/ i \in DOMAIN writes[d] /\ new[i] = writes[d][i] /\ old[i] = writes[d][i]
               \/ /\ i \in DOMAIN writes[c] /\ new[i] = writes[c][i]
                  /\ Written(writes[c])[i] = writes[c][i]
               \/ new[i] = items[i] /\ old[i] = items[i] /\ Written(writes[c])[i] = items[i]
    BY <1>3 DEF Written
  <2> SUFFICES ASSUME NEW i \in ItemId, NEW j \in ItemId, i # j, IsRow(new[i]), IsRow(new[j])
               PROVE  ~Clash(new[i], new[j])
    BY <1>1 DEF UniqueIndexes
  <2>2. CASE old[i] = new[i] /\ old[j] = new[j] BY <1>0, <1>1, <2>2 DEF UniqueIndexes
  <2>3. CASE Written(writes[c])[i] = new[i] /\ Written(writes[c])[j] = new[j]
    BY <1>0, <1>1, <2>3 DEF UniqueIndexes
  <2>4. CASE i \in DOMAIN writes[d] /\ new[i] = writes[d][i] /\ j \in DOMAIN writes[c] /\ new[j] = writes[c][j]
    BY <2>4 DEF TxnInv, NoRivalWrites
  <2>5. CASE j \in DOMAIN writes[d] /\ new[j] = writes[d][j] /\ i \in DOMAIN writes[c] /\ new[i] = writes[c][i]
    BY <2>5 DEF TxnInv, NoRivalWrites
  <2> QED BY <2>1, <2>2, <2>3, <2>4, <2>5
<1>4. CASE \A i \in ItemId : IsRow(items'[i]) => IsRow(items[i]) /\ SameKey(items'[i], items[i])
  <2>1. \A i \in ItemId : IsRow(new[i]) => IsRow(old[i]) /\ SameKey(new[i], old[i])
    BY <1>4 DEF Written, SameKey
  <2>2. UniqueIndexes(new)
    BY <1>0, <1>1, <2>1, SameKeysStayUnique
  <2> QED BY <2>2 DEF UniqueIndexes
<1> QED BY <1>3, <1>4 DEF KeysAreKnown

\* The end of a transaction, with the tables it leaves.
LEMMA EndingStep ==
    ASSUME TxnInv, NEW c \in Client, NEW code, Answer(c, code), Release(c), [Next]_vars,
           Considerate(c), KeysAreKnown(c)
    PROVE  TxnInv'
<1>0. TxnTypeOK /\ IndInv BY DEF TxnInv
<1>1. IndInv' BY <1>0, NextKeepsIndInv
<1>2. TypeOK /\ TypeOK' BY <1>0, <1>1 DEF IndInv
<1>3. TxnTypeOK' BY <1>0, Answering, Releasing DEF TxnTypeOK
<1>4. /\ txn'[c] = Idle /\ writes'[c] = NoWrites /\ DOMAIN NoWrites = {}
      /\ \A d \in Client : d # c => txn'[d] = txn[d] /\ writes'[d] = writes[d]
  BY <1>0, Answering DEF NoWrites
<1>5. WritesAreLocked'
  <2> SUFFICES ASSUME NEW d \in Client, NEW i \in DOMAIN writes'[d] PROVE itemLock'[i] = d
    BY DEF WritesAreLocked
  <2>1. d # c BY <1>4
  <2>2. i \in ItemId /\ itemLock[i] = d
    BY <1>0, <1>4, <2>1, TxnsAre DEF TxnInv, WritesAreLocked
  <2> QED BY <1>0, <2>1, <2>2, Releasing
<1>6. ViewsAreUnique'
  <2> SUFFICES ASSUME NEW d \in Client PROVE UniqueIndexes(Written(writes[d]))'
    BY DEF ViewsAreUnique
  <2>1. CASE d = c
    <3>1. items' \in [ItemId -> Row \cup {Unused, Deleted}] BY <1>2 DEF TypeOK
    <3>2. Written(writes[d])' = items' BY <1>4, <2>1, <3>1 DEF Written
    <3> QED BY <1>1, <3>2 DEF IndInv, UniqueIndexes
  <2>2. CASE d # c BY <1>2, <1>4, <2>2, ViewsStayUnique
  <2> QED BY <2>1, <2>2
<1>7. NoRivalWrites' BY <1>4 DEF TxnInv, NoRivalWrites
<1>8. ASSUME NEW d \in Client PROVE Fits(d)'
  <2>1. CASE d = c
    <3>1. \A i \in ItemId : itemLock'[i] # c BY <1>0, Releasing
    <3> QED BY <1>4, <2>1, <3>1 DEF Fits, Idle, Opened
  <2>2. CASE d # c
    <3>1. Apart(d) BY <1>0, <1>2, <1>4, <2>2, CommitIsApart
    <3> QED BY <3>1, ApartFits
  <2> QED BY <2>1, <2>2
<1> QED BY <1>1, <1>3, <1>5, <1>6, <1>7, <1>8 DEF TxnInv

\* An error: everything is rolled back.
LEMMA RefusingStep ==
    ASSUME TxnInv, NEW c \in Client, NEW code, Refuse(c, code)
    PROVE  TxnInv' /\ UNCHANGED vars /\ KeysAreKnown(c)
<1>1. UNCHANGED vars BY DEF Refuse
<1>2. Considerate(c) BY <1>1 DEF Considerate, vars
<1>3. KeysAreKnown(c) BY <1>1, NoKeyIsNew
<1> QED BY <1>1, <1>2, <1>3, EndingStep DEF Refuse

-----------------------------------------------------------------------------
\* A nonempty set of numbers has a least one.
LEMMA LeastIs ==
    ASSUME NEW S \in SUBSET Nat, S # {}
    PROVE  Least(S) \in S /\ \A j \in S : Least(S) <= j
<1>1. PICK x \in S : \A y \in S : <<y, x>> \notin OpToRel(<, Nat)
  BY NatLessThanWellFounded, WFMin
<1>2. \A y \in S : ~(y < x) BY <1>1 DEF OpToRel
<1>3. \A y \in S : x <= y BY <1>2
<1> QED BY <1>3 DEF Least

\* The least id of the rows that are left is locked next.
LEMMA ToLockIs ==
    ASSUME NEW t \in TxnRecord, NEW S \in SUBSET ItemId
    PROVE  /\ ToLock(t, S) \in TxnRecord
           /\ ToLock(t, S).request = t.request /\ ToLock(t, S).left = S
           /\ S = {} => ToLock(t, S).step = "check"
           /\ S # {} => /\ ToLock(t, S).step = "lock"
                        /\ ToLock(t, S).target \in S
                        /\ \A j \in S : ToLock(t, S).target <= j
<1>1. CASE S = {} BY <1>1 DEF ToLock, TxnRecord, Steps
<1>2. CASE S # {}
  <2>1. Least(S) \in S /\ \A j \in S : Least(S) <= j BY <1>2, OrderAssumption, LeastIs
  <2>2. ToLock(t, S) = [t EXCEPT !.step = "lock", !.left = S, !.target = Least(S)]
    BY <1>2 DEF ToLock, NextNamed
  <2> QED BY <1>2, <2>1, <2>2 DEF TxnRecord, Steps
<1> QED BY <1>1, <1>2

\* The requests that name rows lock them and check that they were found.
LEMMA NamingOps ==
    ASSUME NEW r \in Requests
    PROVE  /\ NamedIds(r) # {} <=> r.op \in {"patch", "split", "merge", "delete"}
           /\ r.op \in {"patch", "split", "merge", "delete"} =>
                "lock" \in StepsOf(r.op) /\ "check" \in StepsOf(r.op)
  BY PatchesAre, SplitsAre, MergesAre, DeletesAre, OpsAre DEF NamedIds, StepsOf

\* A client sends a request.
LEMMA BeginKeeps ==
    ASSUME TxnInv, NEW c \in Client, Begin(c)
    PROVE  TxnInv' /\ UNCHANGED vars
<1>0. TxnTypeOK /\ Fits(c) /\ menu \in DOMAIN Menu BY DEF TxnInv, TxnTypeOK
<1>1. PICK r \in Menu[menu].requests :
         /\ Sendable(r)
         /\ txn' = [txn EXCEPT ![c] = Opening(r)]
         /\ IF r.op = "createAsset" THEN TakeAsset(c, r.asset) ELSE UNCHANGED locks
  BY DEF Begin
<1>2. r \in Requests BY <1>0, <1>1 DEF Requests
<1>3. /\ UNCHANGED <<vars, writes, menu>> /\ DOMAIN reply' = Client
      /\ writes[c] = NoWrites /\ \A i \in ItemId : itemLock[i] # c
  BY <1>0 DEF Begin, TxnTypeOK, Fits
<1> DEFINE t0 == [Idle EXCEPT !.request = r]
<1>4. t0 \in TxnRecord /\ t0.request = r /\ t0.left = {} /\ t0.rest = <<>>
  <2>1. Idle \in TxnRecord /\ Idle.left = {} /\ Idle.rest = <<>> BY IdleIs
  <2> QED BY <1>2, <2>1 DEF TxnRecord
<1>5. txn'[c] = Opening(r) BY <1>0, <1>1 DEF TxnTypeOK
<1>6. CASE r.op \in {"patch", "split", "merge", "delete"}
  <2> DEFINE t == ToLock(t0, NamedIds(r))
  <2>1. Opening(r) = t BY <1>2, <1>6, NamingOps DEF Opening
  <2>2. NamedIds(r) \in SUBSET ItemId /\ NamedIds(r) # {} BY <1>2, <1>6, NamedAreIds, NamingOps
  <2>3. /\ t \in TxnRecord /\ t.request = r /\ t.left = NamedIds(r) /\ t.step = "lock"
        /\ t.target \in NamedIds(r) /\ \A j \in NamedIds(r) : t.target <= j
    BY <1>4, <2>2, ToLockIs
  <2>4. LocksGrow(c) /\ itemLock' = itemLock BY <1>0, <1>1, <1>6, LocksStay DEF locks
  <2>5. \A i \in NamedIds(r) : items[i] # Unused BY <1>1 DEF Sendable, IsRow
  <2>6. items' = items BY <1>3 DEF vars
  <2>7. LockingFits(c)'
    BY <1>3, <1>5, <2>1, <2>2, <2>3, <2>4, <2>5, <2>6 DEF LockingFits
  <2>8. Fits(c)' BY <1>2, <1>5, <1>6, <2>1, <2>3, <2>7, NamingOps DEF Fits, Opened
  <2> QED BY <1>1, <1>3, <2>1, <2>3, <2>4, <2>8, QuietStep
<1>7. CASE r.op = "createAsset"
  <2> DEFINE t == [t0 EXCEPT !.step = IF r.rows = <<>> THEN "commit" ELSE "validate",
                             !.rest = r.rows]
  <2>1. Opening(r) = t BY <1>2, <1>7, NamingOps DEF Opening
  <2>2. r.asset \in Asset /\ r.mode \in Mode /\ r.rows \in Seq(WellFormed(r.asset, r.mode))
    BY <1>2, <1>7, AssetRequestsAre
  <2>3. r.rows \in Seq(Row) BY <2>2, WellFormedRow
  <2>4. t \in TxnRecord BY <1>4, <2>3 DEF TxnRecord, Steps
  <2>5. assets[r.asset] = "unborn" /\ assetLock[r.asset] = Nobody BY <1>1, <1>7 DEF Sendable
  <2>6. LocksGrow(c) /\ assetLock'[r.asset] = c /\ itemLock' = itemLock
    BY <1>0, <1>1, <1>7, <2>2, <2>5, TakingAsset
  <2>7. /\ t.request = r /\ t.rest = r.rows
        /\ t.step = IF r.rows = <<>> THEN "commit" ELSE "validate"
    BY <1>4 DEF TxnRecord
  <2>8. \A k \in DOMAIN r.rows : Wanted(r, r.rows[k]) BY <1>7, <2>2 DEF Wanted
  <2>9. assets' = assets /\ DOMAIN NoWrites = {} BY <1>3 DEF vars, NoWrites
  <2>10. CreateFits(c)'
    BY <1>3, <1>5, <1>7, <2>1, <2>5, <2>6, <2>7, <2>8, <2>9 DEF CreateFits
  <2>11. t.step \in StepsOf(r.op) /\ t.step \in {"commit", "validate"}
    BY <1>7, <2>7 DEF StepsOf
  <2>12. Fits(c)' BY <1>2, <1>5, <1>7, <2>1, <2>7, <2>10, <2>11 DEF Fits, Opened
  <2> QED BY <1>1, <1>3, <2>1, <2>4, <2>6, <2>12, QuietStep
<1>8. CASE r.op \notin {"patch", "split", "merge", "delete", "createAsset"}
  <2>1. PICK t : t = Opening(r) OBVIOUS
  <2>2. /\ t \in TxnRecord /\ t.request = r
        /\ t.step \in {"lockAsset", "lockLocation", "addLocation"}
        /\ t.step \in StepsOf(r.op)
    BY <1>2, <1>4, <1>8, <2>1, OpsAre, NamingOps DEF Opening, TxnRecord, Steps, StepsOf
  <2>3. LocksGrow(c) BY <1>0, <1>1, <1>8, LocksStay
  <2>4. Fits(c)' BY <1>2, <1>3, <1>5, <2>1, <2>2 DEF Fits, Opened
  <2> QED BY <1>1, <1>3, <2>1, <2>2, <2>3, <2>4, QuietStep
<1> QED BY <1>6, <1>7, <1>8

\* SELECT .. FOR UPDATE of the rows that a request names.
LEMMA LockNamedKeeps ==
    ASSUME TxnInv, NEW c \in Client, LockNamed(c)
    PROVE  TxnInv' /\ UNCHANGED vars
<1> DEFINE t == txn[c]
           S == txn[c].left \ {txn[c].target}
           u == ToLock(txn[c], S)
<1>0. TxnTypeOK /\ TypeOK /\ t \in TxnRecord /\ Fits(c) BY TxnsAre DEF TxnInv, IndInv
<1>1. t.step = "lock" /\ Blockers(c) = {} /\ Go(c, u) BY DEF LockNamed, At
<1>2. LockingFits(c) /\ t.request \in Requests /\ t.step \in StepsOf(t.request.op)
  BY <1>0, <1>1 DEF Fits
<1>3. NamedIds(t.request) \subseteq ItemId BY <1>2, NamedAreIds
<1>4. S \in SUBSET ItemId /\ t.target \in t.left /\ t.target \in NamedIds(t.request)
  BY <1>1, <1>2, <1>3 DEF LockingFits
<1>5. /\ u \in TxnRecord /\ u.request = t.request /\ u.left = S
      /\ S = {} => u.step = "check"
      /\ S # {} => u.step = "lock" /\ u.target \in S /\ \A j \in S : u.target <= j
  BY <1>0, <1>4, ToLockIs
<1>6. itemLock[t.target] \in {c, Nobody} BY <1>0, <1>1, Unblocked
<1>7. /\ LocksGrow(c)
      /\ \A i \in ItemId : itemLock'[i] = c => itemLock[i] = c \/ i = t.target
      /\ \A i \in ItemId : itemLock[i] = c => itemLock'[i] = c
      /\ itemLock'[t.target] = c \/ items[t.target] = Deleted
  <2>1. CASE IsRow(items[t.target])
    BY <1>0, <1>3, <1>4, <1>6, <2>1, TakingItem, ClientAssumption DEF LockNamed, LocksGrow
  <2>2. CASE ~IsRow(items[t.target])
    <3>1. UNCHANGED locks BY <2>2 DEF LockNamed
    <3>2. items[t.target] = Deleted
      BY <1>0, <1>2, <1>3, <1>4, <2>2 DEF IsRow, LockingFits
    <3> QED BY <1>0, <3>1, <3>2, LocksStay DEF locks
  <2> QED BY <2>1, <2>2
<1>8. txn'[c] = u /\ items' = items /\ writes' = writes
  BY <1>0, <1>1 DEF Go, TxnTypeOK, vars, LockNamed
<1>9. \A j \in S : t.target < j
  <2>1. \A j \in ItemId : j \in Nat BY OrderAssumption
  <2>2. \A j \in t.left : t.target <= j BY <1>1, <1>2 DEF LockingFits
  <2> QED BY <1>3, <1>4, <2>1, <2>2
<1>10. LockingFits(c)'
  <2>1. \A i \in NamedIds(t.request) \ S : itemLock'[i] = c \/ items[i] = Deleted
    BY <1>2, <1>3, <1>7 DEF LockingFits
  <2>2. \A i \in ItemId : itemLock'[i] = c => i \in NamedIds(t.request) /\ \A j \in S : i < j
    BY <1>2, <1>4, <1>7, <1>9 DEF LockingFits
  <2> QED BY <1>2, <1>4, <1>5, <1>8, <2>1, <2>2 DEF LockingFits
<1>11. Fits(c)'
  <2>1. t.request.op \in {"patch", "split", "merge", "delete"}
    BY <1>2, <1>4, NamingOps
  <2> QED BY <1>2, <1>5, <1>8, <1>10, <2>1, NamingOps DEF Fits, Opened
<1> QED BY <1>1, <1>5, <1>7, <1>8, <1>11, GoingOn

\* validate_requested_ids: from here on, the named rows are there and locked.
LEMMA CheckFoundKeeps ==
    ASSUME TxnInv, NEW c \in Client, CheckFound(c)
    PROVE  TxnInv' /\ UNCHANGED vars
<1> DEFINE t == txn[c]
           r == txn[c].request
           u == [txn[c] EXCEPT !.step = txn[c].request.op, !.left = NamedIds(txn[c].request)]
<1>0. TxnTypeOK /\ t \in TxnRecord /\ Fits(c) BY TxnsAre DEF TxnInv
<1>1. t.step = "check" BY DEF CheckFound, At
<1>2. LockingFits(c) /\ r \in Requests /\ t.step \in StepsOf(r.op)
  BY <1>0, <1>1 DEF Fits
<1>3. NamedIds(r) \subseteq ItemId BY <1>2, NamedAreIds
<1>4. r.op \in {"patch", "split", "merge", "delete"} BY <1>1, <1>2, OpsAre DEF StepsOf
<1>5. CASE \A i \in NamedIds(r) : IsRow(items[i])
  <2>1. Go(c, u) /\ UNCHANGED <<writes, locks>> BY <1>5 DEF CheckFound
  <2>2. /\ u \in TxnRecord /\ u.request = r /\ u.left = NamedIds(r) /\ u.step = r.op
        /\ u.rest = t.rest
    BY <1>0, <1>3, <1>4 DEF TxnRecord, Steps
  <2>3. txn'[c] = u /\ UNCHANGED <<items, writes, itemLock>>
    BY <1>0, <2>1 DEF Go, TxnTypeOK, vars, locks
  <2>4. writes[c] = NoWrites /\ DOMAIN NoWrites = {} BY <1>2 DEF LockingFits, NoWrites
  <2>5. \A i \in NamedIds(r) : Holds(c, i)'
    <3>1. \A i \in NamedIds(r) : itemLock[i] = c \/ items[i] = Deleted
      BY <1>1, <1>2 DEF LockingFits
    <3> QED BY <1>5, <2>3, <3>1 DEF Holds, IsRow
  <2>6. r.op = "patch" => PatchFits(c)'
    BY <2>2, <2>3, <2>4, <2>5 DEF PatchFits, NamedIds
  <2>7. r.op = "split" => SplitFits(c)'
    BY <2>2, <2>3, <2>4, <2>5 DEF SplitFits, NamedIds
  <2>8. r.op \in StepsOf(r.op) BY <1>4 DEF StepsOf
  <2>9. Fits(c)'
    BY <1>2, <1>4, <2>2, <2>3, <2>4, <2>5, <2>6, <2>7, <2>8 DEF Fits, Opened
  <2> QED BY <1>0, <2>1, <2>2, <2>3, <2>9, LocksStay, GoingOn
<1>6. CASE ~(\A i \in NamedIds(r) : IsRow(items[i]))
  <2>1. Refuse(c, "not_found") BY <1>6 DEF CheckFound
  <2> QED BY <2>1, RefusingStep
<1> QED BY <1>5, <1>6

-----------------------------------------------------------------------------
\* What client c has locked stays locked, and validated, while c goes on.
LEMMA Keeping ==
    ASSUME TxnTypeOK, NEW c \in Client, UNCHANGED vars, LocksGrow(c)
    PROVE  /\ \A i \in ItemId : itemLock[i] = c => itemLock'[i] = c
           /\ \A i \in ItemId : Holds(c, i) => Holds(c, i)'
           /\ \A l : Placed(c, l) => Placed(c, l)'
           /\ \A a \in Asset : assetLock[a] = c => assetLock'[a] = c
           /\ \A l \in Location : locationLock[l] = c => locationLock'[l] = c
           /\ items' = items /\ assets' = assets /\ locations' = locations
           /\ \A a : LiveOf(a)' = LiveOf(a)
<1>1. items' = items /\ assets' = assets /\ locations' = locations BY DEF vars
<1>2. /\ \A i \in ItemId : itemLock[i] = c => itemLock'[i] = c
      /\ \A a \in Asset : assetLock[a] = c => assetLock'[a] = c
      /\ \A l \in Location : locationLock[l] = c => locationLock'[l] = c
  BY ClientAssumption DEF LocksGrow
<1>3. \A i \in ItemId : Holds(c, i) => Holds(c, i)' BY <1>1, <1>2 DEF Holds
<1>4. \A l : Placed(c, l) => Placed(c, l)' BY <1>1, <1>2 DEF Placed, ValidLocation
<1>5. \A a : LiveOf(a)' = LiveOf(a) BY <1>1 DEF LiveOf, Live
<1> QED BY <1>1, <1>2, <1>3, <1>4, <1>5

\* A row that a client holds is a sound row.
LEMMA HeldRows ==
    ASSUME IndInv, NEW c, NEW i \in ItemId, Holds(c, i)
    PROVE  /\ i \in Live /\ items[i] \in Row
           /\ SoundRow(items[i], assets, locations)
           /\ items[i] \in WellFormed(items[i].asset, items[i].mode)
<1>1. i \in Live BY DEF Holds, Live
<1>2. items[i] \in Row /\ SoundRow(items[i], assets, locations) BY <1>1, LiveRows DEF IndInv
<1>3. items[i] \in WellFormed(items[i].asset, items[i].mode)
  BY <1>2, RowIsWellFormed DEF SoundRow
<1> QED BY <1>1, <1>2, <1>3

\* A patched row has the asset and the mode of the row, and is well formed if
\* no more is allocated than there is.
LEMMA PatchRowIs ==
    ASSUME NEW a \in Asset, NEW m \in Mode, NEW row \in WellFormed(a, m), NEW p \in Patch,
           Patchable(row, p)
    PROVE  /\ PatchRow(row, p) \in Row
           /\ PatchRow(row, p).asset = a /\ PatchRow(row, p).mode = m
           /\ PatchRow(row, p).allocated <= PatchRow(row, p).onHand =>
                PatchRow(row, p) \in WellFormed(a, m)
           /\ PatchRow(row, p).location \in LocationField
<1> DEFINE new == PatchRow(row, p)
<1>1. /\ row \in Row /\ row.asset = a /\ row.mode = m
      /\ m = "quantity" => row.serial = NoSerial /\ row.onHand <= MaxQuantity
                           /\ row.allocated <= row.onHand
      /\ m = "serialized" => /\ row.onHand = 1 /\ row.allocated = 0
                             /\ row.serial \in HandSerial \cup 0..MaxSerial
  BY WellFormedRow
<1>2. /\ Resolve(p.serial, row.serial) \in HandSerial \cup 0..MaxSerial \cup {row.serial}
      /\ Resolve(p.batch, row.batch) \in BatchField
      /\ Resolve(p.location, row.location) \in LocationField
      /\ Resolve(p.status, row.status) \in Status
      /\ Resolve(p.onHand, row.onHand) \in 0..MaxQuantity \cup {row.onHand}
      /\ Resolve(p.allocated, row.allocated) \in 0..MaxQuantity \cup {row.allocated}
  BY <1>1 DEF Resolve, Patch, Row
<1>3. /\ new.asset = a /\ new.mode = m
      /\ new.serial = Resolve(p.serial, row.serial)
      /\ new.location = Resolve(p.location, row.location)
      /\ new.onHand = Resolve(p.onHand, row.onHand)
      /\ new.allocated = Resolve(p.allocated, row.allocated)
      /\ new.serial \in Serial \cup {NoSerial} /\ new.onHand \in Nat /\ new.allocated \in Nat =>
           new \in Row
  <2>1. new = [row EXCEPT !.serial = Resolve(p.serial, row.serial),
                          !.batch = Resolve(p.batch, row.batch),
                          !.location = Resolve(p.location, row.location),
                          !.status = Resolve(p.status, row.status),
                          !.onHand = Resolve(p.onHand, row.onHand),
                          !.allocated = Resolve(p.allocated, row.allocated)]
    BY DEF PatchRow
  <2> HIDE DEF new
  <2> QED BY <1>1, <1>2, <2>1 DEF Row
<1>4. CASE m = "quantity"
  <2>1. new.serial = NoSerial BY <1>1, <1>3, <1>4 DEF Patchable, Resolve
  <2>2. new.onHand \in 0..MaxQuantity /\ new.allocated \in 0..MaxQuantity
    <3>1. row.onHand \in Nat /\ row.allocated \in Nat BY <1>1 DEF Row
    <3>2. row.onHand \in 0..MaxQuantity /\ row.allocated \in 0..MaxQuantity
      BY <1>1, <1>4, <3>1, BoundAssumption
    <3> QED BY <1>2, <1>3, <3>2
  <2>3. new \in Row BY <1>3, <2>1, <2>2, BoundAssumption
  <2>4. new.onHand <= MaxQuantity BY <2>2, BoundAssumption
  <2> QED BY <1>2, <1>3, <1>4, <2>1, <2>3, <2>4, RowIsWellFormed
<1>5. CASE m = "serialized"
  <2>1. new.onHand = 1 /\ new.allocated = 0 BY <1>1, <1>3, <1>5 DEF Patchable, Resolve
  <2>2. new.serial \in HandSerial \cup 0..MaxSerial BY <1>1, <1>2, <1>3, <1>5
  <2>3. new.serial \in Serial BY <2>2, NumbersAreSerials
  <2>4. new \in Row BY <1>3, <2>1, <2>3
  <2> QED BY <1>2, <1>3, <1>5, <2>1, <2>2, <2>4, RowIsWellFormed
<1> QED BY <1>4, <1>5 DEF Mode

\* The part that is split off a row.
LEMMA PartIs ==
    ASSUME NEW r \in Requests, r.op = "split", NEW row \in Row
    PROVE  /\ PartOf(row, r) \in Row
           /\ PartOf(row, r).location \in LocationField
           /\ PartOf(row, r) =
                [row EXCEPT !.batch = Resolve(r.batch, row.batch),
                            !.location = Resolve(r.location, row.location),
                            !.status = Resolve(r.status, row.status),
                            !.onHand = r.quantity, !.allocated = 0]
           /\ Resolve(r.batch, row.batch) \in BatchField
           /\ Resolve(r.location, row.location) \in LocationField
           /\ Resolve(r.status, row.status) \in Status
<1>1. /\ Resolve(r.batch, row.batch) \in BatchField
      /\ Resolve(r.location, row.location) \in LocationField
      /\ Resolve(r.status, row.status) \in Status
      /\ r.quantity \in Nat
  BY SplitsAre, BoundAssumption DEF Resolve, Row
<1>2. PartOf(row, r) =
        [row EXCEPT !.batch = Resolve(r.batch, row.batch),
                    !.location = Resolve(r.location, row.location),
                    !.status = Resolve(r.status, row.status),
                    !.onHand = r.quantity, !.allocated = 0]
  BY DEF PartOf
<1>3. PartOf(row, r) \in Row /\ PartOf(row, r).location = Resolve(r.location, row.location)
  <2>1. PICK part : part = PartOf(row, r) OBVIOUS
  <2>2. part \in Row
    <3>1. PICK b, l, s, q : /\ b = Resolve(r.batch, row.batch) /\ l = Resolve(r.location, row.location)
                            /\ s = Resolve(r.status, row.status) /\ q = r.quantity
      OBVIOUS
    <3>2. part = [row EXCEPT !.batch = b, !.location = l, !.status = s, !.onHand = q, !.allocated = 0]
      BY <1>2, <2>1, <3>1
    <3>3. b \in BatchField /\ l \in LocationField /\ s \in Status /\ q \in Nat BY <1>1, <3>1
    <3> QED BY <3>2, <3>3 DEF Row
  <2>3. part.location = Resolve(r.location, row.location) BY <1>2, <2>1 DEF Row
  <2> QED BY <2>1, <2>2, <2>3
<1> QED BY <1>1, <1>2, <1>3

\* The row that all rows of a request for serialized rows are like.
LEMMA TemplatesAre ==
    ASSUME NEW r \in Requests, r.op \in {"createSerialized", "generateSerialized"}
    PROVE  /\ r.asset \in Asset
           /\ r.row \in Row /\ r.row.asset = r.asset /\ r.row.mode = "serialized"
           /\ \E b \in BatchField, l \in LocationField, s \in Status :
                r.row = SerializedRow(r.asset, NoSerial, b, l, s)
<1>1. r.asset \in Asset /\ r.row \in Template(r.asset) BY CreatesAre
<1>2. PICK b \in BatchField, l \in LocationField, s \in Status :
          r.row = SerializedRow(r.asset, NoSerial, b, l, s)
  BY <1>1 DEF Template
<1>3. r.row \in Row /\ r.row.asset = r.asset /\ r.row.mode = "serialized"
  BY <1>1, <1>2 DEF SerializedRow, Row, Mode
<1> QED BY <1>1, <1>2, <1>3

\* Such rows with serial numbers of their own are what the request wants.
LEMMA NumberedRowsAre ==
    ASSUME NEW r \in Requests, r.op \in {"createSerialized", "generateSerialized"},
           NEW serials \in Seq(HandSerial \cup 0..MaxSerial), serials # <<>>,
           NEW rows, rows = NumberedRows(r.row, serials)
    PROVE  /\ rows \in Seq(Row) /\ rows # <<>> /\ DOMAIN rows = 1..Len(serials)
           /\ \A k \in DOMAIN rows : Wanted(r, rows[k]) /\ rows[k].serial = serials[k]
           /\ Head(rows).location = r.row.location
<1>1. /\ DOMAIN rows = 1..Len(serials) /\ Len(serials) \in Nat /\ Len(serials) > 0
      /\ \A k \in 1..Len(serials) : /\ rows[k] = [r.row EXCEPT !.serial = serials[k]]
                                    /\ serials[k] \in HandSerial \cup 0..MaxSerial
  <2>1. /\ Len(serials) \in Nat /\ Len(serials) > 0 /\ DOMAIN serials = 1..Len(serials)
        /\ \A k \in 1..Len(serials) : serials[k] \in HandSerial \cup 0..MaxSerial
    OBVIOUS
  <2>2. rows = [k \in DOMAIN serials |-> [r.row EXCEPT !.serial = serials[k]]]
    BY DEF NumberedRows
  <2> QED BY <2>1, <2>2
<1>2. r.row \in Row BY TemplatesAre
<1>3. ASSUME NEW k \in 1..Len(serials)
      PROVE  /\ rows[k] \in Row /\ rows[k].location = r.row.location /\ Wanted(r, rows[k])
             /\ rows[k].serial = serials[k]
  <2>1. serials[k] \in Serial BY <1>1, NumbersAreSerials
  <2>2. rows[k] \in Row /\ rows[k].location = r.row.location /\ rows[k].serial = serials[k]
    BY <1>1, <1>2, <2>1 DEF Row
  <2>3. rows[k] = [r.row EXCEPT !.serial = rows[k].serial] BY <1>1, <2>2
  <2> QED BY <1>1, <2>2, <2>3 DEF Wanted
<1>4. rows \in [1..Len(serials) -> Row] BY <1>1, <1>3 DEF NumberedRows
<1>5. rows \in Seq(Row) /\ Len(rows) = Len(serials) BY <1>1, <1>4
<1>6. rows # <<>> /\ Head(rows) = rows[1] /\ 1 \in 1..Len(serials) BY <1>1, <1>5
<1> QED BY <1>1, <1>3, <1>5, <1>6

\* The rows that a request to create rows sets out to write.
LEMMA RowsToCreateAre ==
    ASSUME NEW r \in Requests, r.op \in {"createQuantity", "createSerialized", "generateSerialized"}
    PROVE  /\ RowsToCreate(r) \in Seq(Row) /\ RowsToCreate(r) # <<>>
           /\ r.row \in Row /\ r.row.asset = r.asset /\ r.row.mode \in Mode
           /\ r.op \in {"createQuantity", "generateSerialized"} => RowsToCreate(r) = <<r.row>>
           /\ r.op # "generateSerialized" =>
                \A k \in DOMAIN RowsToCreate(r) : Wanted(r, RowsToCreate(r)[k])
           /\ Head(RowsToCreate(r)).location = r.row.location
<1>1. CASE r.op = "createQuantity"
  <2>1. r.asset \in Asset /\ "quantity" \in Mode /\ r.row \in WellFormed(r.asset, "quantity")
    BY <1>1, CreatesAre DEF Mode
  <2>2. r.row \in Row /\ r.row.asset = r.asset /\ r.row.mode \in Mode
    BY <2>1, WellFormedRow
  <2>3. RowsToCreate(r) = <<r.row>> BY <1>1 DEF RowsToCreate
  <2> QED BY <1>1, <2>2, <2>3 DEF Wanted
<1>2. ASSUME r.op \in {"createSerialized", "generateSerialized"}
      PROVE  r.row \in Row /\ r.row.asset = r.asset /\ r.row.mode \in Mode
  BY <1>2, TemplatesAre DEF Mode
<1>3. CASE r.op = "generateSerialized"
  <2>1. RowsToCreate(r) = <<r.row>> BY <1>3 DEF RowsToCreate
  <2> QED BY <1>2, <1>3, <2>1
<1>4. CASE r.op = "createSerialized"
  <2>1. r.serials \in Seq(HandSerial \cup 0..MaxSerial) /\ r.serials # <<>>
    BY <1>4, CreatesAre
  <2>2. RowsToCreate(r) = NumberedRows(r.row, r.serials) BY <1>4 DEF RowsToCreate
  <2>3. PICK rows : rows = NumberedRows(r.row, r.serials) OBVIOUS
  <2>4. /\ rows \in Seq(Row) /\ rows # <<>> /\ \A k \in DOMAIN rows : Wanted(r, rows[k])
        /\ Head(rows).location = r.row.location
    BY <1>4, <2>1, <2>3, NumberedRowsAre
  <2> QED BY <1>2, <1>4, <2>2, <2>3, <2>4
<1> QED BY <1>1, <1>3, <1>4

-----------------------------------------------------------------------------
\* Writing one more row that meets none of those seen keeps the indexes.
LEMMA AddingRow ==
    ASSUME NEW w, UniqueIndexes(Written(w)), NEW k \in ItemId, NEW row,
           \A n \in ItemId \ {k} : IsRow(Written(w)[n]) => ~Clash(row, Written(w)[n])
    PROVE  /\ UniqueIndexes(Written(Put(w, k, row)))
           /\ \A n \in ItemId : Written(Put(w, k, row))[n] = IF n = k THEN row ELSE Written(w)[n]
<1> DEFINE old == Written(w)
           new == Written(Put(w, k, row))
<1>1. DOMAIN old = ItemId /\ DOMAIN new = ItemId BY DEF Written
<1>2. \A n \in ItemId : new[n] = IF n = k THEN row ELSE old[n]
  BY DEF Written, Put
<1>3. ASSUME NEW i \in ItemId, NEW j \in ItemId, i # j, IsRow(new[i]), IsRow(new[j])
      PROVE  ~Clash(new[i], new[j])
  <2>1. CASE i # k /\ j # k BY <1>1, <1>2, <1>3, <2>1 DEF UniqueIndexes
  <2>2. CASE i = k BY <1>2, <1>3, <2>2
  <2>3. CASE j = k
    <3>1. ~Clash(row, old[i]) BY <1>2, <1>3, <2>3
    <3> QED BY <1>2, <1>3, <2>3, <3>1 DEF Clash, SameAggregate, SameSerial
  <2> QED BY <2>1, <2>2, <2>3
<1> QED BY <1>1, <1>2, <1>3 DEF UniqueIndexes

\* What client c sees is its own writes over the committed rows.
LEMMA Views ==
    ASSUME TxnTypeOK, NEW c \in Client, NEW i \in ItemId
    PROVE  Written(writes[c])[i] = View(c, i)
  BY DEF Written, View

\* A row that is written over the row k that client c sees and has locked
\* meets neither index if its key is not new, or if the statement found no
\* row with the key and no rival.
LEMMA OverwritingRow ==
    ASSUME TxnInv, NEW c \in Client, NEW k \in ItemId, NEW row, itemLock[k] = c,
           IsRow(View(c, k)),
           KeyIsNew(c, k, row) => ~KeyTaken(c, {k}, row) /\ Rivals(c, row) = {}
    PROVE  /\ UniqueIndexes(Written(Put(writes[c], k, row)))
           /\ \A d \in Client \ {c} : \A n \in DOMAIN writes[d] : ~Clash(row, writes[d][n])
<1>0. TxnTypeOK BY DEF TxnInv
<1>1. UniqueIndexes(Written(writes[c])) /\ DOMAIN Written(writes[c]) = ItemId
  BY DEF TxnInv, ViewsAreUnique, Written
<1>2. \A n \in ItemId : Written(writes[c])[n] = View(c, n) BY <1>0, Views
<1>3. ASSUME NEW n \in ItemId \ {k}, IsRow(View(c, n))
      PROVE  ~Clash(row, View(c, n))
  <2>1. CASE KeyIsNew(c, k, row) BY <1>3, <2>1 DEF KeyTaken
  <2>2. CASE SameKey(row, View(c, k))
    <3>1. ~Clash(View(c, k), View(c, n)) BY <1>1, <1>2, <1>3 DEF UniqueIndexes
    <3> QED BY <2>2, <3>1 DEF Clash, SameAggregate, SameSerial, SameKey
  <2> QED BY <2>1, <2>2 DEF KeyIsNew
<1>4. UniqueIndexes(Written(Put(writes[c], k, row))) BY <1>1, <1>2, <1>3, AddingRow
<1>5. ASSUME NEW d \in Client \ {c}, NEW n \in DOMAIN writes[d]
      PROVE  ~Clash(row, writes[d][n])
  <2>0. n \in ItemId /\ writes[d][n] \in Row /\ IsRow(writes[d][n]) /\ itemLock[n] = d
    <3>1. n \in ItemId /\ writes[d][n] \in Row BY <1>0, TxnsAre
    <3> QED BY <3>1, TombstoneAssumption DEF IsRow, TxnInv, WritesAreLocked
  <2>1. CASE KeyIsNew(c, k, row)
    <3>1. d \notin Rivals(c, row) BY <2>1
    <3> QED BY <2>0, <3>1 DEF Rivals
  <2>2. CASE SameKey(row, View(c, k))
    <3>1. ~Clash(View(c, k), writes[d][n])
      <4>1. CASE k \in DOMAIN writes[c]
        BY <4>1 DEF View, TxnInv, NoRivalWrites
      <4>2. CASE k \notin DOMAIN writes[c]
        <5>1. k # n /\ k \notin DOMAIN writes[d] BY <2>0 DEF TxnInv, WritesAreLocked
        <5>2. UniqueIndexes(Written(writes[d])) /\ DOMAIN Written(writes[d]) = ItemId
          BY DEF TxnInv, ViewsAreUnique, Written
        <5>3. Written(writes[d])[k] = items[k] /\ Written(writes[d])[n] = writes[d][n]
          BY <2>0, <5>1 DEF Written
        <5>4. View(c, k) = items[k] BY <4>2 DEF View
        <5> QED BY <2>0, <5>1, <5>2, <5>3, <5>4 DEF UniqueIndexes
      <4> QED BY <4>1, <4>2
    <3> QED BY <2>2, <3>1 DEF Clash, SameAggregate, SameSerial, SameKey
  <2> QED BY <2>1, <2>2 DEF KeyIsNew
<1> QED BY <1>4, <1>5

-----------------------------------------------------------------------------
\* At these steps a request is of one of these kinds.
LEMMA OpsOfSteps ==
    ASSUME NEW r \in Requests, NEW step \in StepsOf(r.op)
    PROVE  /\ step = "patch" => r.op = "patch"
           /\ step = "split" => r.op = "split"
           /\ step = "merge" => r.op = "merge"
           /\ step = "delete" => r.op = "delete"
           /\ step = "validate" =>
                r.op \in {"patch", "split", "createQuantity", "createSerialized",
                          "generateSerialized", "createAsset"}
           /\ step = "write" => r.op \in {"patch", "deleteLocation"}
           /\ step \in {"find", "take", "reference"} => r.op = "split"
           /\ step = "insert" =>
                r.op \in {"split", "createQuantity", "createSerialized", "generateSerialized",
                          "createAsset"}
           /\ step = "lockAsset" =>
                r.op \in {"createQuantity", "createSerialized", "generateSerialized", "setMode",
                          "deleteAsset"}
           /\ step = "draw" => r.op = "generateSerialized"
           /\ step = "retag" => r.op = "setMode"
           /\ step \in {"scanAsset", "relock"} => r.op \in {"setMode", "deleteAsset"}
           /\ step = "pick" => r.op \in {"setMode", "deleteAsset", "deleteLocation"}
           /\ step = "erase" => r.op = "deleteAsset"
           /\ step \in {"lockLocation", "scanLocation", "clear", "drop"} => r.op = "deleteLocation"
           /\ step = "addLocation" => r.op = "createLocation"
           /\ step = "commit" =>
                r.op \in {"patch", "split", "createQuantity", "createSerialized",
                          "generateSerialized", "createAsset", "setMode"}
  BY OpsAre DEF StepsOf

\* What is known of a client that runs a statement.
LEMMA Running ==
    ASSUME TxnInv, NEW c \in Client, NEW step, At(c, step), step # "idle"
    PROVE  /\ TxnTypeOK /\ TypeOK /\ IndInv /\ txn[c] \in TxnRecord /\ Fits(c)
           /\ txn[c].step = step /\ Blockers(c) = {}
           /\ txn[c].request \in Requests /\ step \in StepsOf(txn[c].request.op)
           /\ txn[c].rest \in Seq(Row) /\ txn[c].left \subseteq ItemId
           /\ c \in DOMAIN txn
<1>1. TxnTypeOK /\ IndInv /\ Fits(c) BY DEF TxnInv
<1>2. txn[c].step = step /\ Blockers(c) = {} BY DEF At
<1> QED BY <1>1, <1>2, TxnsAre DEF Fits, IndInv

\* apply_inventory_item_patch.
LEMMA PreparePatchKeeps ==
    ASSUME TxnInv, NEW c \in Client, PreparePatch(c)
    PROVE  TxnInv' /\ UNCHANGED vars
<1> DEFINE t == txn[c]
           r == txn[c].request
           p == txn[c].request.patch
           i == Least(txn[c].left)
<1>0. At(c, "patch") BY DEF PreparePatch
<1>1. /\ TxnTypeOK /\ IndInv /\ t \in TxnRecord /\ Fits(c) /\ t.step = "patch" /\ r \in Requests
      /\ r.op = "patch"
  BY <1>0, Running, OpsOfSteps
<1>2. PatchFits(c) BY <1>1 DEF Fits, Opened
<1>3. r.ids \subseteq ItemId /\ p \in Patch BY <1>1, PatchesAre
<1>4. {"patch", "validate", "commit"} \subseteq StepsOf(r.op) BY <1>1 DEF StepsOf
<1>5. CASE t.left = {} /\ Go(c, [t EXCEPT !.step = "commit"]) /\ UNCHANGED <<writes, locks>>
  <2> DEFINE u == [t EXCEPT !.step = "commit"]
  <2>1. /\ u \in TxnRecord /\ u.request = r /\ u.left = {} /\ u.step = "commit"
    BY <1>1, <1>5 DEF TxnRecord, Steps
  <2>2. txn'[c] = u /\ UNCHANGED <<vars, writes>> /\ LocksGrow(c)
    BY <1>1, <1>5, LocksStay DEF Go, TxnTypeOK
  <2>3. UNCHANGED <<items, locations, itemLock, locationLock>> BY <1>5, <2>2 DEF vars, locks
  <2>4. PatchFits(c)'
    BY <1>2, <1>5, <2>1, <2>2, <2>3 DEF PatchFits, Holds, Placed, ValidLocation
  <2>5. Fits(c)' BY <1>1, <1>4, <2>1, <2>2, <2>4 DEF Fits, Opened
  <2> QED BY <1>5, <2>1, <2>2, <2>5, GoingOn
<1>6. CASE /\ t.left # {} /\ Patchable(items[i], p)
           /\ Go(c, [t EXCEPT !.step = "validate", !.target = i, !.rest = <<PatchRow(items[i], p)>>])
           /\ UNCHANGED <<writes, locks>>
  <2> DEFINE new == PatchRow(items[i], p)
             u == [t EXCEPT !.step = "validate", !.target = i, !.rest = <<new>>]
  <2>1. i \in t.left /\ i \in r.ids /\ i \in ItemId
    BY <1>2, <1>3, <1>6, OrderAssumption, LeastIs DEF PatchFits
  <2>2. new \in Row
    <3>1. items[i] \in WellFormed(items[i].asset, items[i].mode) /\ items[i] \in Row
      BY <1>1, <1>2, <2>1, HeldRows DEF PatchFits
    <3>2. items[i].asset \in Asset /\ items[i].mode \in Mode BY <3>1 DEF Row
    <3> QED BY <1>3, <1>6, <3>1, <3>2, PatchRowIs
  <2> HIDE DEF new, i
  <2>3. <<new>> \in Seq(Row) BY <2>2
  <2>4. /\ u \in TxnRecord /\ u.request = r /\ u.left = t.left /\ u.step = "validate"
        /\ u.target = i /\ u.rest = <<new>>
    BY <1>1, <2>1, <2>3 DEF TxnRecord, Steps
  <2>5. txn'[c] = u /\ UNCHANGED <<vars, writes>> /\ LocksGrow(c)
    BY <1>1, <1>6, LocksStay DEF Go, TxnTypeOK, new
  <2>6. UNCHANGED <<items, locations, itemLock, locationLock>> BY <1>6, <2>5 DEF vars, locks
  <2>7. PatchFits(c)'
    BY <1>2, <1>6, <2>1, <2>4, <2>5, <2>6 DEF PatchFits, Holds, Placed, ValidLocation, new
  <2>8. Fits(c)' BY <1>1, <1>4, <2>4, <2>5, <2>7 DEF Fits, Opened
  <2> QED BY <1>6, <2>4, <2>5, <2>8, GoingOn DEF new
<1>7. CASE Refuse(c, "bad_request") BY <1>7, RefusingStep
<1> QED BY <1>5, <1>6, <1>7 DEF PreparePatch

\* split_inventory_item, up to the location.
LEMMA PrepareSplitKeeps ==
    ASSUME TxnInv, NEW c \in Client, PrepareSplit(c)
    PROVE  TxnInv' /\ UNCHANGED vars
<1> DEFINE t == txn[c]
           r == txn[c].request
           part == PartOf(items[r.id], r)
           u == [t EXCEPT !.step = "validate", !.rest = <<part>>]
<1>0. At(c, "split") BY DEF PrepareSplit
<1>1. /\ TxnTypeOK /\ IndInv /\ t \in TxnRecord /\ Fits(c) /\ t.step = "split" /\ r \in Requests
      /\ r.op = "split"
  BY <1>0, Running, OpsOfSteps
<1>2. SplitFits(c) BY <1>1 DEF Fits, Opened
<1>3. r.id \in ItemId BY <1>1, SplitsAre
<1>4. CASE Splittable(r.id, r.quantity)
  <2>1. Go(c, u) /\ UNCHANGED <<writes, locks>> BY <1>4 DEF PrepareSplit
  <2>2. items[r.id] \in Row BY <1>1, <1>2, <1>3, HeldRows DEF SplitFits
  <2>3. part \in Row BY <1>1, <2>2, PartIs
  <2> HIDE DEF part
  <2>4. <<part>> \in Seq(Row) BY <2>3
  <2>5. u \in TxnRecord /\ u.request = r /\ u.step = "validate" /\ u.rest = <<part>>
    BY <1>1, <2>4 DEF TxnRecord, Steps
  <2>6. txn'[c] = u /\ UNCHANGED <<vars, writes>> /\ LocksGrow(c)
    BY <1>1, <2>1, LocksStay DEF Go, TxnTypeOK
  <2>7. UNCHANGED <<items, itemLock>> BY <2>1, <2>6 DEF vars, locks
  <2>8. SplitFits(c)'
    BY <1>1, <1>2, <1>4, <2>5, <2>6, <2>7 DEF SplitFits, Holds, Splittable, part
  <2>9. Fits(c)' BY <1>1, <2>5, <2>6, <2>8 DEF Fits, Opened, StepsOf
  <2> QED BY <2>1, <2>5, <2>6, <2>9, GoingOn
<1>5. CASE ~Splittable(r.id, r.quantity)
  <2>1. Refuse(c, "bad_request") BY <1>5 DEF PrepareSplit
  <2> QED BY <2>1, RefusingStep
<1> QED BY <1>4, <1>5

\* validate_location: the location of the row is there and is locked.
LEMMA ValidateRowKeeps ==
    ASSUME TxnInv, NEW c \in Client, ValidateRow(c)
    PROVE  TxnInv' /\ UNCHANGED vars
<1> DEFINE t == txn[c]
           r == txn[c].request
           row == Head(txn[c].rest)
           u == [t EXCEPT !.step = AfterLocation(r)]
<1>0. At(c, "validate") BY DEF ValidateRow
<1>1. /\ TxnTypeOK /\ IndInv /\ t \in TxnRecord /\ Fits(c) /\ t.step = "validate" /\ r \in Requests
      /\ r.op \in {"patch", "split", "createQuantity", "createSerialized", "generateSerialized",
                   "createAsset"}
      /\ t.rest \in Seq(Row) /\ Blockers(c) = {}
  BY <1>0, Running, OpsOfSteps
<1>2. CASE ~(ValidLocation(row.location) /\ Acceptable(r, row))
  <2>1. Refuse(c, "bad_request") BY <1>2 DEF ValidateRow
  <2> QED BY <2>1, RefusingStep
<1>3. CASE ValidLocation(row.location) /\ Acceptable(r, row)
  <2>1. Go(c, u) /\ TakeLocation(c, row.location) /\ UNCHANGED writes
    BY <1>3 DEF ValidateRow
  <2>2. t.rest # <<>>
    <3>1. CASE r.op = "patch"
      <4>1. t.rest = <<PatchRow(items[t.target], r.patch)>>
        BY <1>1, <3>1 DEF Fits, Opened, PatchFits
      <4> QED BY <4>1
    <3>2. CASE r.op = "split"
      <4>1. t.rest = <<PartOf(items[r.id], r)>> BY <1>1, <3>2 DEF Fits, Opened, SplitFits
      <4> QED BY <4>1
    <3>3. CASE r.op \notin {"patch", "split"} BY <1>1, <3>3 DEF Fits, Opened, CreateFits
    <3> QED BY <3>1, <3>2, <3>3
  <2>3. row \in Row /\ row.location \in LocationField
    <3>1. row \in Row BY <1>1, <2>2
    <3> QED BY <3>1 DEF Row
  <2>4. /\ LocksGrow(c) /\ itemLock' = itemLock
        /\ row.location # NoLocation => locationLock'[row.location] = c
    BY <1>1, <2>1, <2>3, Unblocked, TakingLocation
  <2>5. UNCHANGED vars BY <2>1 DEF Go
  <2>6. /\ \A i \in ItemId : Holds(c, i) => Holds(c, i)'
        /\ \A l : Placed(c, l) => Placed(c, l)'
        /\ \A a \in Asset : assetLock[a] = c => assetLock'[a] = c
        /\ items' = items /\ assets' = assets /\ locations' = locations
    BY <1>1, <2>4, <2>5, Keeping
  <2>a. PICK l : l = row.location OBVIOUS
  <2>7. Placed(c, l)' BY <1>3, <2>4, <2>6, <2>a DEF Placed, ValidLocation
  <2>8. /\ u \in TxnRecord /\ u.request = r /\ u.rest = t.rest /\ u.left = t.left
        /\ u.target = t.target /\ u.step = AfterLocation(r)
    BY <1>1 DEF TxnRecord, Steps, AfterLocation
  <2>9. txn'[c] = u /\ writes' = writes BY <1>1, <2>1 DEF Go, TxnTypeOK
  <2>10. CASE r.op = "patch"
    <3>1. PatchFits(c) BY <1>1, <2>10 DEF Fits, Opened
    <3>2. r.ids \subseteq ItemId BY <1>1, <2>10, PatchesAre
    <3>3. u.step = "write" BY <2>8, <2>10 DEF AfterLocation
    <3>4. row.allocated <= row.onHand BY <1>3 DEF Acceptable
    <3>5. PatchFits(c)'
      BY <1>1, <2>6, <2>7, <2>8, <2>9, <2>a, <3>1, <3>2, <3>3, <3>4 DEF PatchFits
    <3>6. Fits(c)' BY <1>1, <2>8, <2>9, <2>10, <3>3, <3>5 DEF Fits, Opened, StepsOf
    <3> QED BY <2>1, <2>4, <2>8, <2>9, <3>6, GoingOn
  <2>11. CASE r.op = "split"
    <3>1. SplitFits(c) BY <1>1, <2>11 DEF Fits, Opened
    <3>2. r.id \in ItemId BY <1>1, <2>11, SplitsAre
    <3>3. u.step = "find" BY <2>8, <2>11 DEF AfterLocation
    <3>4. ~SameAggregate(items[r.id], row) BY <1>3, <2>11 DEF Acceptable
    <3>5. t.rest = <<PartOf(items[r.id], r)>> /\ row = PartOf(items[r.id], r)
      BY <1>1, <3>1 DEF SplitFits
    <3>6. Splittable(r.id, r.quantity)' BY <1>1, <2>6, <2>8, <2>9, <3>1 DEF SplitFits, Splittable
    <3>7. SplitFits(c)'
      BY <1>1, <2>6, <2>7, <2>8, <2>9, <2>a, <3>1, <3>2, <3>3, <3>4, <3>5, <3>6 DEF SplitFits
    <3>8. Fits(c)' BY <1>1, <2>8, <2>9, <2>11, <3>3, <3>7 DEF Fits, Opened, StepsOf
    <3> QED BY <2>1, <2>4, <2>8, <2>9, <3>8, GoingOn
  <2>12. CASE r.op \in {"createQuantity", "createSerialized", "generateSerialized", "createAsset"}
    <3>1. CreateFits(c) BY <1>1, <2>12 DEF Fits, Opened
    <3>2. r.asset \in Asset BY <1>1, <2>12, CreatesAre, AssetRequestsAre
    <3>3. u.step = IF r.op = "generateSerialized" THEN "draw" ELSE "insert"
      BY <2>8, <2>12 DEF AfterLocation
    <3>4. \A i \in DOMAIN writes[c] :
             /\ items'[i] = Unused /\ itemLock'[i] = c
             /\ Wanted(r, writes[c][i]) /\ Placed(c, writes[c][i].location)'
      BY <1>1, <2>4, <2>6, <2>9, <3>1, TxnsAre DEF CreateFits
    <3>5. r.op # "createAsset" =>
             /\ t.rest = RowsToCreate(r) /\ writes[c] = NoWrites
             /\ row.location = r.row.location
      BY <1>1, <2>12, <3>1, RowsToCreateAre DEF CreateFits
    <3>6. r.op # "generateSerialized" => \A k \in DOMAIN t.rest : Wanted(r, t.rest[k])
      BY <1>1, <2>12, <3>1, <3>5, RowsToCreateAre DEF CreateFits
    <3>7. r.op = "createQuantity" => Len(t.rest) = 1
      BY <1>1, <2>12, <3>5, RowsToCreateAre
    <3>8. assetLock'[r.asset] = c /\ assets'[r.asset] = assets[r.asset]
      BY <2>6, <3>1, <3>2 DEF CreateFits
    <3>9. CreateFits(c)'
      BY <1>1, <2>2, <2>7, <2>8, <2>9, <2>a, <2>12, <3>1, <3>3, <3>4, <3>5, <3>6, <3>7, <3>8
      DEF CreateFits
    <3>10. u.step \in StepsOf(r.op) /\ u.step \in {"draw", "insert"}
      BY <2>12, <3>3 DEF StepsOf
    <3>11. Fits(c)' BY <1>1, <2>8, <2>9, <2>12, <3>9, <3>10 DEF Fits, Opened
    <3> QED BY <2>1, <2>4, <2>8, <2>9, <3>11, GoingOn
  <2> QED BY <1>1, <2>10, <2>11, <2>12
<1> QED BY <1>2, <1>3

\* update_inventory_item_in_database: the row is written unless the unique
\* indexes know a rival.
LEMMA WriteRowKeeps ==
    ASSUME TxnInv, NEW c \in Client, WriteRow(c)
    PROVE  TxnInv' /\ UNCHANGED vars
<1> DEFINE t == txn[c]
           r == txn[c].request
           k == txn[c].target
           row == Head(txn[c].rest)
           next == IF r.op = "patch" THEN "patch" ELSE "pick"
           w == Put(writes[c], k, row)
           u == [t EXCEPT !.step = next, !.left = @ \ {k}, !.rest = <<>>]
<1>0. At(c, "write") BY DEF WriteRow
<1>1. /\ TxnTypeOK /\ IndInv /\ t \in TxnRecord /\ Fits(c) /\ t.step = "write" /\ r \in Requests
      /\ r.op \in {"patch", "deleteLocation"}
      /\ t.rest \in Seq(Row) /\ Blockers(c) = {} /\ t.left \subseteq ItemId
  BY <1>0, Running, OpsOfSteps
<1>2. CASE KeyIsNew(c, k, row) /\ KeyTaken(c, {k}, row)
  <2>1. Refuse(c, "conflict") BY <1>2 DEF WriteRow
  <2> QED BY <2>1, RefusingStep
<1>3. CASE ~(KeyIsNew(c, k, row) /\ KeyTaken(c, {k}, row))
  <2>1. /\ writes' = [writes EXCEPT ![c] = w] /\ Go(c, u) /\ UNCHANGED locks
    BY <1>3 DEF WriteRow
  <2>2. k \in ItemId /\ Holds(c, k) /\ t.rest # <<>>
    <3>1. CASE r.op = "patch"
      <4>1. PatchFits(c) /\ r.ids \subseteq ItemId BY <1>1, <3>1, PatchesAre DEF Fits, Opened
      <4> QED BY <1>1, <4>1 DEF PatchFits
    <3>2. CASE r.op = "deleteLocation"
      <4>1. LocationFits(c) BY <1>1, <3>2 DEF Fits, Opened
      <4>2. /\ k \in ItemId /\ Holds(c, k) /\ t.rest = <<Emptied(items[k])>>
        BY <1>1, <4>1 DEF LocationFits
      <4> QED BY <4>2
    <3> QED BY <1>1, <3>1, <3>2
  <2>3. row \in Row BY <1>1, <2>2
  <2>4. IsRow(View(c, k))
    <3>1. k \in DOMAIN writes[c] => writes[c][k] \in Row BY <1>1, TxnsAre
    <3> QED BY <2>2, <3>1, TombstoneAssumption DEF View, Holds, IsRow
  <2>5. KeyIsNew(c, k, row) => ~KeyTaken(c, {k}, row) /\ Rivals(c, row) = {}
    BY <1>1, <1>3, Unblocked
  <2>6. /\ UniqueIndexes(Written(w))
        /\ \A d \in Client \ {c} : \A n \in DOMAIN writes[d] : ~Clash(row, writes[d][n])
    BY <2>2, <2>4, <2>5, OverwritingRow DEF Holds
  <2> DEFINE S == DOMAIN writes[c] \cup {k}
  <2>7. DOMAIN writes[c] \in SUBSET ItemId /\ writes[c] \in [DOMAIN writes[c] -> Row]
    BY <1>1, TxnsAre
  <2>9. /\ w \in [S -> Row] /\ S \in SUBSET ItemId /\ DOMAIN w = S
        /\ w[k] = row /\ \A i \in DOMAIN writes[c] : i # k => w[i] = writes[c][i]
    <3>1. PICK v : v = writes[c] OBVIOUS
    <3>2. PICK x : x = row OBVIOUS
    <3>3. v \in [DOMAIN v -> Row] BY <2>7, <3>1
    <3>4. x \in Row BY <2>3, <3>2
    <3>5. /\ Put(v, k, x) \in [DOMAIN v \cup {k} -> Row]
          /\ DOMAIN Put(v, k, x) = DOMAIN v \cup {k}
          /\ Put(v, k, x)[k] = x /\ \A i \in DOMAIN v : i # k => Put(v, k, x)[i] = v[i]
      BY <3>3, <3>4 DEF Put
    <3> QED BY <2>2, <2>7, <3>1, <3>2, <3>5
  <2> HIDE DEF w, S
  <2>10. \A i \in S : itemLock[i] = c
    BY <2>2 DEF S, Holds, TxnInv, WritesAreLocked
  <2>11. \A d \in Client \ {c} : \A i \in S, n \in DOMAIN writes[d] : ~Clash(w[i], writes[d][n])
    <3> SUFFICES ASSUME NEW d \in Client \ {c}, NEW i \in S, NEW n \in DOMAIN writes[d]
                 PROVE  ~Clash(w[i], writes[d][n])
      OBVIOUS
    <3>1. CASE i = k BY <2>6, <2>9, <3>1
    <3>2. CASE i # k BY <2>9, <3>2 DEF S, TxnInv, NoRivalWrites
    <3> QED BY <3>1, <3>2
  <2>12. <<>> \in Seq(Row) OBVIOUS
  <2>13. /\ u \in TxnRecord /\ u.request = r /\ u.left = t.left \ {k} /\ u.step = next
    BY <1>1, <2>12 DEF TxnRecord, Steps
  <2>14. /\ txn'[c] = u /\ writes'[c] = w /\ UNCHANGED vars /\ LocksGrow(c)
    BY <1>1, <2>1, LocksStay DEF Go, TxnTypeOK
  <2>15. UNCHANGED <<items, locations, itemLock, locationLock>> BY <2>1, <2>14 DEF vars, locks
  <2>16. Fits(c)'
    <3>1. CASE r.op = "patch"
      <4>1. PatchFits(c) /\ row = PatchRow(items[k], r.patch) /\ k \in t.left
        BY <1>1, <3>1 DEF Fits, Opened, PatchFits
      <4>2. DOMAIN w = r.ids \ (t.left \ {k})
        BY <2>9, <4>1 DEF PatchFits, S
      <4>3. ASSUME NEW i \in r.ids \ (t.left \ {k})
            PROVE  /\ Patchable(items[i], r.patch)
                   /\ w[i] = PatchRow(items[i], r.patch)
                   /\ w[i].allocated <= w[i].onHand
                   /\ Placed(c, w[i].location)
        <5>1. CASE i = k BY <1>1, <2>9, <4>1, <5>1 DEF PatchFits
        <5>2. CASE i # k BY <2>9, <4>1, <5>2 DEF PatchFits
        <5> QED BY <5>1, <5>2
      <4>4. PatchFits(c)'
        BY <2>13, <2>14, <2>15, <3>1, <4>1, <4>2, <4>3
        DEF PatchFits, Holds, Placed, ValidLocation
      <4> QED BY <1>1, <2>13, <2>14, <3>1, <4>4 DEF Fits, Opened, StepsOf
    <3>2. CASE r.op = "deleteLocation"
      <4>1. LocationFits(c) /\ row = Emptied(items[k]) /\ items[k].location = r.location
        BY <1>1, <3>2 DEF Fits, Opened, LocationFits
      <4>2. ASSUME NEW i \in DOMAIN w
            PROVE  Holds(c, i) /\ items[i].location = r.location /\ w[i] = Emptied(items[i])
        <5>1. CASE i = k BY <2>2, <2>9, <4>1, <5>1
        <5>2. CASE i # k BY <2>9, <4>1, <5>2 DEF LocationFits, S
        <5> QED BY <5>1, <5>2
      <4>3. LocationFits(c)'
        BY <2>13, <2>14, <2>15, <3>2, <4>1, <4>2 DEF LocationFits, Holds
      <4> QED BY <1>1, <2>13, <2>14, <3>2, <4>3 DEF Fits, Opened, StepsOf
    <3> QED BY <1>1, <3>1, <3>2
  <2>17. \A i \in S : itemLock'[i] = c BY <2>10, <2>15
  <2> QED BY <2>1, <2>6, <2>9, <2>11, <2>13, <2>14, <2>16, <2>17, WritingStep
<1> QED BY <1>2, <1>3

\* find_quantity_aggregate_for_update: the snapshot decides what is locked.
LEMMA FindSplitTargetKeeps ==
    ASSUME TxnInv, NEW c \in Client, FindSplitTarget(c)
    PROVE  TxnInv' /\ UNCHANGED vars
<1> DEFINE t == txn[c]
           r == txn[c].request
<1>0. At(c, "find") BY DEF FindSplitTarget
<1>1. /\ TxnTypeOK /\ t \in TxnRecord /\ Fits(c) /\ t.step = "find" /\ r \in Requests
      /\ r.op = "split"
  BY <1>0, Running, OpsOfSteps
<1>2. SplitFits(c) BY <1>1 DEF Fits, Opened
<1>3. r.id \in ItemId BY <1>1, SplitsAre
<1>4. PICK u : /\ Go(c, u) /\ UNCHANGED <<writes, locks>>
               /\ \/ \E k \in Live \ {r.id} : u = [t EXCEPT !.step = "take", !.target = k]
                  \/ u = [t EXCEPT !.step = "insert"]
  BY DEF FindSplitTarget
<1>5. /\ u \in TxnRecord /\ u.request = r /\ u.rest = t.rest /\ u.step \in {"take", "insert"}
      /\ u.step = "take" => u.target \in ItemId \ {r.id}
  BY <1>1, <1>4 DEF TxnRecord, Steps, Live
<1>6. txn'[c] = u /\ UNCHANGED <<vars, writes>> /\ LocksGrow(c)
  BY <1>1, <1>4, LocksStay DEF Go, TxnTypeOK
<1>7. UNCHANGED <<items, locations, itemLock, locationLock>> BY <1>4, <1>6 DEF vars, locks
<1>8. SplitFits(c)'
  BY <1>1, <1>2, <1>5, <1>6, <1>7 DEF SplitFits, Holds, Splittable, Placed, ValidLocation
<1>9. Fits(c)' BY <1>1, <1>5, <1>6, <1>8 DEF Fits, Opened, StepsOf
<1> QED BY <1>4, <1>5, <1>6, <1>9, GoingOn

\* The split of the ledger that the transaction of a split performs.
LEMMA SplitIs ==
    ASSUME IndInv, NEW i \in Live, NEW r \in Requests, r.op = "split", r.id = i
    PROVE  \E b \in BatchField, l \in LocationField, s \in Status :
             /\ PartOf(items[i], r) = [items[i] EXCEPT !.batch = b, !.location = l, !.status = s,
                                                       !.onHand = r.quantity, !.allocated = 0]
             /\ PartOf(items[i], r).location = l
<1>1. items[i] \in Row BY LiveRows DEF IndInv
<1>2. PICK b, l, s : /\ b = Resolve(r.batch, items[i].batch)
                     /\ l = Resolve(r.location, items[i].location)
                     /\ s = Resolve(r.status, items[i].status)
  OBVIOUS
<1>3. /\ b \in BatchField /\ l \in LocationField /\ s \in Status
      /\ PartOf(items[i], r) = [items[i] EXCEPT !.batch = b, !.location = l, !.status = s,
                                                !.onHand = r.quantity, !.allocated = 0]
  BY <1>1, <1>2, PartIs
<1>4. PartOf(items[i], r).location = l
  <2>1. PICK part : part = PartOf(items[i], r) OBVIOUS
  <2> QED BY <1>1, <1>3, <2>1 DEF Row
<1> QED BY <1>3, <1>4

\* .. and the rows that are found once they are locked are the split's.
LEMMA TakeSplitTargetKeeps ==
    ASSUME TxnInv, NEW c \in Client, TakeSplitTarget(c)
    PROVE  TxnInv' /\ [Next]_vars /\ KeysAreKnown(c)
<1> DEFINE t == txn[c]
           r == txn[c].request
           k == txn[c].target
           part == PartOf(items[r.id], r)
<1>0. At(c, "take") BY DEF TakeSplitTarget
<1>1. /\ TxnTypeOK /\ IndInv /\ TypeOK /\ t \in TxnRecord /\ Fits(c) /\ t.step = "take"
      /\ r \in Requests /\ r.op = "split" /\ Blockers(c) = {}
  BY <1>0, Running, OpsOfSteps
<1>2. SplitFits(c) BY <1>1 DEF Fits, Opened
<1>3. r.id \in ItemId /\ r.quantity \in 1..MaxQuantity BY <1>1, SplitsAre
<1>4. /\ Holds(c, r.id) /\ Splittable(r.id, r.quantity) /\ t.rest = <<part>>
      /\ Placed(c, part.location) /\ ~SameAggregate(items[r.id], part)
      /\ k \in ItemId \ {r.id}
  BY <1>1, <1>2 DEF SplitFits
<1>5. r.id \in Live /\ items[r.id] \in Row BY <1>1, <1>3, <1>4, HeldRows
<1>6. Head(t.rest) = part BY <1>4
<1>7. CASE IsRow(items[k]) /\ SameAggregate(items[k], Head(t.rest))
  <2>1. /\ items[k].onHand + r.quantity <= MaxQuantity
        /\ items' = Moved(r.id, k, r.quantity)
        /\ UNCHANGED <<assets, locations>> /\ Done(c)
    BY <1>7 DEF TakeSplitTarget
  <2>2. PICK b \in BatchField, l \in LocationField, s \in Status :
           /\ part = [items[r.id] EXCEPT !.batch = b, !.location = l, !.status = s,
                                         !.onHand = r.quantity, !.allocated = 0]
           /\ part.location = l
    BY <1>1, <1>5, SplitIs
  <2>3. k \in Live \ {r.id} /\ SameAggregate(items[k], part) BY <1>4, <1>6, <1>7 DEF Live
  <2> HIDE DEF part, k
  <2>4. ValidLocation(l) BY <1>4, <2>2 DEF Placed
  <2>5. Split(r.id, r.quantity, b, l, s) BY <1>4, <2>1, <2>2, <2>3, <2>4 DEF Split
  <2>6. ChangeItems BY <1>3, <1>5, <2>5 DEF ChangeItems
  <2>7. Next BY <2>6 DEF Next
  <2>8. itemLock[r.id] = c /\ itemLock[k] \in {c, Nobody}
    BY <1>1, <1>4, Unblocked DEF Holds, k
  <2>9. /\ \A i \in ItemId : i # r.id /\ i # k => items'[i] = items[i]
        /\ IsRow(items[k]) /\ IsRow(items[r.id])
        /\ items[k] \in Row /\ items[r.id] \in Row
        /\ items'[r.id] = [items[r.id] EXCEPT !.onHand = @ - r.quantity]
        /\ items'[k] = [items[k] EXCEPT !.onHand = @ + r.quantity]
    BY <1>1, <1>3, <1>5, <2>1, <2>3, LiveRows DEF Moved, TypeOK, Live
  <2>10. /\ SameKey(items'[r.id], items[r.id]) /\ SameKey(items'[k], items[k])
         /\ IsRow(items'[r.id]) /\ IsRow(items'[k])
    <3>1. /\ SameKey(items'[r.id], items[r.id]) /\ SameKey(items'[k], items[k])
      BY <2>9 DEF SameKey, Row
    <3>2. Splittable(r.id, r.quantity) BY <1>4
    <3>3. items'[r.id] \in Row
      <4>1. items[r.id].allocated \in Nat /\ items[r.id].onHand \in Nat BY <2>9 DEF Row
      <4>2. items[r.id].onHand - r.quantity \in Nat
        BY <1>3, <3>2, <4>1, BoundAssumption DEF Splittable
      <4> QED BY <2>9, <4>2 DEF Row
    <3>4. items'[k] \in Row
      <4>1. items[k].onHand + r.quantity \in Nat
        BY <1>3, <2>9, BoundAssumption DEF Row
      <4> QED BY <2>9, <4>1 DEF Row
    <3> QED BY <3>1, <3>3, <3>4, TombstoneAssumption DEF IsRow
  <2>11. KeysAreKnown(c)
    BY <2>9, <2>10 DEF KeysAreKnown, SameKey
  <2>12. Considerate(c)
    BY <2>1, <2>8, <2>9, <2>10 DEF Considerate, SameKey, IsRow
  <2> QED BY <2>1, <2>7, <2>11, <2>12, EndingStep DEF Done
<1>8. CASE ~(IsRow(items[k]) /\ SameAggregate(items[k], Head(t.rest)))
  <2> DEFINE u == [t EXCEPT !.step = "insert"]
  <2>1. Go(c, u) /\ UNCHANGED <<writes, locks>> BY <1>8 DEF TakeSplitTarget
  <2>2. u \in TxnRecord /\ u.request = r /\ u.rest = t.rest /\ u.step = "insert"
    BY <1>1 DEF TxnRecord, Steps
  <2>3. txn'[c] = u /\ UNCHANGED <<vars, writes>> /\ LocksGrow(c)
    BY <1>1, <2>1, LocksStay DEF Go, TxnTypeOK
  <2>4. UNCHANGED <<items, locations, itemLock, locationLock>> BY <2>1, <2>3 DEF vars, locks
  <2>5. SplitFits(c)'
    BY <1>1, <1>2, <2>2, <2>3, <2>4 DEF SplitFits, Holds, Splittable, Placed, ValidLocation
  <2>6. Fits(c)' BY <1>1, <2>2, <2>3, <2>5 DEF Fits, Opened, StepsOf
  <2> QED BY <2>1, <2>2, <2>3, <2>6, GoingOn, NoKeyIsNew
<1> QED BY <1>7, <1>8

\* merge_inventory_items: there are no rows that it could fold.
LEMMA FoldRowsKeeps ==
    ASSUME TxnInv, NEW c \in Client, FoldRows(c)
    PROVE  TxnInv' /\ UNCHANGED vars
<1> DEFINE r == txn[c].request
<1>0. At(c, "merge") BY DEF FoldRows
<1>1. /\ IndInv /\ TypeOK /\ Fits(c) /\ txn[c].step = "merge" /\ r \in Requests /\ r.op = "merge"
  BY <1>0, Running, OpsOfSteps
<1>2. r.target \in ItemId /\ r.ids \subseteq ItemId /\ r.ids # {} /\ r.target \notin r.ids
  BY <1>1, MergesAre
<1>3. \A i \in r.ids \cup {r.target} : IsRow(items[i])
  BY <1>1 DEF Fits, Opened, NamedIds, Holds
<1>4. ~Mergeable(r.target, r.ids)
  <2>1. PICK i \in r.ids : TRUE BY <1>2
  <2>2. DOMAIN items = ItemId /\ UniqueIndexes(items) BY <1>1 DEF TypeOK, IndInv
  <2>3. ~SameAggregate(items[r.target], items[i])
    BY <1>2, <1>3, <2>1, <2>2 DEF UniqueIndexes, Clash
  <2> QED BY <2>1, <2>3 DEF Mergeable
<1>5. Refuse(c, "bad_request") BY <1>4 DEF FoldRows
<1> QED BY <1>5, RefusingStep

\* delete_inventory_item and batch_delete_inventory_items.
LEMMA EraseRowsKeeps ==
    ASSUME TxnInv, NEW c \in Client, EraseRows(c)
    PROVE  TxnInv' /\ [Next]_vars /\ KeysAreKnown(c)
<1> DEFINE r == txn[c].request
<1>0. At(c, "delete") BY DEF EraseRows
<1>1. /\ IndInv /\ TypeOK /\ Fits(c) /\ txn[c].step = "delete" /\ r \in Requests /\ r.op = "delete"
  BY <1>0, Running, OpsOfSteps
<1>2. r.ids \subseteq ItemId /\ r.ids # {} BY <1>1, DeletesAre
<1>3. \A i \in r.ids : Holds(c, i) BY <1>1 DEF Fits, Opened, NamedIds
<1>4. r.ids \in SUBSET Live BY <1>2, <1>3 DEF Live, Holds
<1>5. CASE \A i \in r.ids : items[i].allocated = 0
  <2>1. items' = Without(r.ids) /\ UNCHANGED <<assets, locations>> /\ Done(c)
    BY <1>5 DEF EraseRows
  <2>2. DeleteItems(r.ids) BY <1>5, <2>1 DEF DeleteItems
  <2>3. Next BY <1>2, <1>4, <2>2 DEF ChangeItems, Next
  <2>4. \A i \in ItemId : items'[i] = IF i \in r.ids THEN Deleted ELSE items[i]
    BY <2>1 DEF Without
  <2>5. KeysAreKnown(c) BY <2>4 DEF KeysAreKnown, SameKey, IsRow
  <2>6. Considerate(c)
    BY <1>3, <2>1, <2>4, TombstoneAssumption DEF Considerate, IsRow, Holds
  <2> QED BY <2>1, <2>3, <2>5, <2>6, EndingStep DEF Done
<1>6. CASE ~(\A i \in r.ids : items[i].allocated = 0)
  <2>1. Refuse(c, "conflict") BY <1>6 DEF EraseRows
  <2> QED BY <2>1, RefusingStep
<1> QED BY <1>5, <1>6

-----------------------------------------------------------------------------
\* fetch_asset_for_update: the asset is locked, with the mode the rows need.
LEMMA LockAssetRowKeeps ==
    ASSUME TxnInv, NEW c \in Client, LockAssetRow(c)
    PROVE  TxnInv' /\ UNCHANGED vars
<1> DEFINE t == txn[c]
           r == txn[c].request
           a == txn[c].request.asset
           u == [t EXCEPT !.step = AfterAsset(r), !.rest = RowsToCreate(r)]
<1>0. At(c, "lockAsset") BY DEF LockAssetRow
<1>1. /\ TxnTypeOK /\ t \in TxnRecord /\ Fits(c) /\ t.step = "lockAsset" /\ r \in Requests
      /\ r.op \in {"createQuantity", "createSerialized", "generateSerialized", "setMode",
                   "deleteAsset"}
      /\ Blockers(c) = {}
  BY <1>0, Running, OpsOfSteps
<1>2. a \in Asset BY <1>1, CreatesAre, AssetRequestsAre
<1>3. writes[c] = NoWrites /\ DOMAIN NoWrites = {} BY <1>1 DEF Fits, NoWrites
<1>4. CASE assets[a] \notin Mode \/ ~AssetFits(t, assets[a])
  BY <1>4, RefusingStep DEF LockAssetRow
<1>5. CASE /\ assets[a] \in Mode /\ AssetFits(t, assets[a])
           /\ Go(c, u) /\ TakeAsset(c, a) /\ UNCHANGED writes
  <2>1. LocksGrow(c) /\ assetLock'[a] = c BY <1>1, <1>2, <1>5, Unblocked, TakingAsset
  <2>2. RowsToCreate(r) \in Seq(Row)
    <3>1. CASE r.op \in {"setMode", "deleteAsset"}
      <4>1. RowsToCreate(r) = <<>> BY <3>1 DEF RowsToCreate
      <4> QED BY <4>1
    <3> QED BY <1>1, <3>1, RowsToCreateAre
  <2>3. /\ u \in TxnRecord /\ u.request = r /\ u.rest = RowsToCreate(r) /\ u.step = AfterAsset(r)
    BY <1>1, <2>2 DEF TxnRecord, Steps, AfterAsset
  <2>4. txn'[c] = u /\ UNCHANGED <<vars, writes>> BY <1>1, <1>5 DEF Go, TxnTypeOK
  <2>5. UNCHANGED <<items, assets, locations>> BY <2>4 DEF vars
  <2>6. CASE r.op \in {"createQuantity", "createSerialized", "generateSerialized"}
    <3>1. assets[a] = r.row.mode BY <1>5, <2>6 DEF AssetFits
    <3>2. u.step = "validate" /\ RowsToCreate(r) # <<>>
      BY <1>1, <2>3, <2>6, RowsToCreateAre DEF AfterAsset
    <3>3. CreateFits(c)'
      BY <1>3, <2>1, <2>3, <2>4, <2>5, <2>6, <3>1, <3>2 DEF CreateFits
    <3>4. Fits(c)' BY <1>1, <2>3, <2>4, <2>6, <3>2, <3>3 DEF Fits, Opened, StepsOf
    <3> QED BY <1>5, <2>1, <2>3, <2>4, <3>4, GoingOn
  <2>7. CASE r.op \in {"setMode", "deleteAsset"}
    <3>1. u.step = IF r.op = "setMode" THEN "retag" ELSE "scanAsset"
      BY <2>3, <2>7 DEF AfterAsset
    <3>2. OwnerFits(c)' BY <1>3, <1>5, <2>1, <2>3, <2>4, <2>5, <2>7, <3>1 DEF OwnerFits
    <3>3. Fits(c)' BY <1>1, <2>3, <2>4, <2>7, <3>1, <3>2 DEF Fits, Opened, StepsOf
    <3> QED BY <1>5, <2>1, <2>3, <2>4, <3>3, GoingOn
  <2> QED BY <1>1, <2>6, <2>7
<1> QED BY <1>4, <1>5 DEF LockAssetRow

\* max_generated_serial_number: no row of the asset has a higher number.
LEMMA HighestIs ==
    ASSUME IndInv, NEW a \in Asset
    PROVE  /\ HighestNumber(a) \in Nat
           /\ \A i \in LiveOf(a) : items[i].serial \in Nat => items[i].serial <= HighestNumber(a)
<1> DEFINE S == {n \in 0..MaxSerial :
                   \A i \in LiveOf(a) : items[i].serial \in Nat => items[i].serial <= n}
<1>1. ASSUME NEW i \in LiveOf(a), items[i].serial \in Nat
      PROVE  items[i].serial <= MaxSerial
  <2>1. i \in Live /\ items[i] \in Row BY LiveRows DEF LiveOf, IndInv
  <2>2. SoundRow(items[i], assets, locations) BY <2>1 DEF IndInv
  <2>3. items[i].serial # NoSerial BY <1>1, NullAssumption
  <2>4. items[i].mode = "serialized" BY <2>1, <2>2, <2>3 DEF SoundRow, Row, Mode
  <2>5. items[i].serial \in HandSerial \cup 0..MaxSerial BY <2>2, <2>4 DEF SoundRow
  <2>6. items[i].serial \in 0..MaxSerial BY <1>1, <2>5, SerialAssumption
  <2> QED BY <2>6, BoundAssumption
<1>2. MaxSerial \in S BY <1>1, BoundAssumption
<1>3. S \in SUBSET Nat BY BoundAssumption
<1>4. Least(S) \in S BY <1>2, <1>3, LeastIs
<1>5. HighestNumber(a) = Least(S) BY DEF HighestNumber
<1> HIDE DEF S
<1>6. HighestNumber(a) \in S BY <1>4, <1>5
<1> QED BY <1>3, <1>6 DEF S

\* The numbers that a request has drawn.
LEMMA DrawnNumbers ==
    ASSUME IndInv, NEW r \in Requests, r.op = "generateSerialized",
           HighestNumber(r.asset) <= Int32Max,
           NEW serials, serials = [n \in 1..r.count |-> HighestNumber(r.asset) + n]
    PROVE  /\ serials \in Seq(HandSerial \cup 0..MaxSerial) /\ serials # <<>>
           /\ Len(serials) = r.count
           /\ \A k \in 1..r.count : serials[k] = HighestNumber(r.asset) + k
<1>1. r.asset \in Asset /\ r.count \in Nat \ {0} BY CreatesAre
<1>2. HighestNumber(r.asset) \in Nat BY <1>1, HighestIs
<1>3. Int32Max \in Nat /\ Int32Max + r.count <= MaxSerial /\ MaxSerial \in Nat
  BY GenerateAssumption, BoundAssumption DEF Requests
<1>4. PICK top : top = HighestNumber(r.asset) OBVIOUS
<1>5. \A k \in 1..r.count : serials[k] = top + k /\ top + k \in 0..MaxSerial
  BY <1>1, <1>2, <1>3, <1>4
<1>6. serials \in [1..r.count -> HandSerial \cup 0..MaxSerial] BY <1>4, <1>5
<1>7. serials \in Seq(HandSerial \cup 0..MaxSerial) /\ Len(serials) = r.count
  BY <1>1, <1>6
<1> QED BY <1>1, <1>4, <1>5, <1>7

\* next_serial_numbers.
LEMMA DrawNumbersKeeps ==
    ASSUME TxnInv, NEW c \in Client, DrawNumbers(c)
    PROVE  TxnInv' /\ UNCHANGED vars
<1> DEFINE t == txn[c]
           r == txn[c].request
           top == HighestNumber(txn[c].request.asset)
<1>0. At(c, "draw") BY DEF DrawNumbers
<1>1. /\ TxnTypeOK /\ IndInv /\ t \in TxnRecord /\ Fits(c) /\ t.step = "draw" /\ r \in Requests
      /\ r.op = "generateSerialized"
  BY <1>0, Running, OpsOfSteps
<1>2. CreateFits(c) BY <1>1 DEF Fits, Opened
<1>3. CASE top <= Int32Max
  <2>1. PICK serials : serials = [n \in 1..r.count |-> top + n] OBVIOUS
  <2>2. PICK rows : rows = NumberedRows(r.row, serials) OBVIOUS
  <2> DEFINE u == [t EXCEPT !.step = "insert", !.rest = rows]
  <2>3. Go(c, u) /\ UNCHANGED <<writes, locks>> BY <1>3, <2>1, <2>2 DEF DrawNumbers
  <2>4. serials \in Seq(HandSerial \cup 0..MaxSerial) /\ serials # <<>>
    BY <1>1, <1>3, <2>1, DrawnNumbers
  <2>5. /\ rows \in Seq(Row) /\ rows # <<>>
        /\ \A k \in DOMAIN rows : Wanted(r, rows[k])
        /\ Head(rows).location = r.row.location
    BY <1>1, <2>2, <2>4, NumberedRowsAre
  <2>6. u \in TxnRecord /\ u.request = r /\ u.rest = rows /\ u.step = "insert"
    BY <1>1, <2>5 DEF TxnRecord, Steps
  <2>7. txn'[c] = u /\ UNCHANGED <<vars, writes>> /\ LocksGrow(c)
    BY <1>1, <2>3, LocksStay DEF Go, TxnTypeOK
  <2>8. UNCHANGED <<items, assets, locations, itemLock, assetLock, locationLock>>
    BY <2>3, <2>7 DEF vars, locks
  <2>9. Placed(c, r.row.location) /\ writes[c] = NoWrites /\ DOMAIN NoWrites = {}
    BY <1>1, <1>2 DEF CreateFits, NoWrites
  <2>10. PICK l : l = r.row.location OBVIOUS
  <2>11. Placed(c, l)' BY <2>8, <2>9, <2>10 DEF Placed, ValidLocation
  <2>12. CreateFits(c)'
    BY <1>1, <1>2, <2>5, <2>6, <2>7, <2>8, <2>9, <2>10, <2>11 DEF CreateFits
  <2>13. Fits(c)' BY <1>1, <2>6, <2>7, <2>12 DEF Fits, Opened, StepsOf
  <2> QED BY <2>3, <2>6, <2>7, <2>13, GoingOn
<1>4. CASE ~(top <= Int32Max)
  <2>1. Refuse(c, "error") BY <1>4 DEF DrawNumbers
  <2> QED BY <2>1, RefusingStep
<1> QED BY <1>3, <1>4

-----------------------------------------------------------------------------
\* A new row that meets no row that client c sees and no rival: w are the rows
\* that c has written when it inserts, with the keys it saw before.
LEMMA InsertingRow ==
    ASSUME TxnInv, NEW c \in Client, NEW n \in ItemId, items[n] = Unused, itemLock[n] = Nobody,
           NEW row, ~KeyTaken(c, {}, row), Rivals(c, row) = {},
           NEW w, UniqueIndexes(Written(w)),
           \A m \in ItemId : \/ Written(w)[m] = View(c, m)
                             \/ IsRow(View(c, m)) /\ SameKey(Written(w)[m], View(c, m))
    PROVE  /\ UniqueIndexes(Written(Put(w, n, row)))
           /\ \A d \in Client \ {c} : \A m \in DOMAIN writes[d] : ~Clash(row, writes[d][m])
           /\ n \notin DOMAIN writes[c]
<1>0. TxnTypeOK BY DEF TxnInv
<1>1. \A m \in ItemId : IsRow(View(c, m)) => ~Clash(row, View(c, m)) BY DEF KeyTaken
<1>2. \A m \in ItemId \ {n} : IsRow(Written(w)[m]) => ~Clash(row, Written(w)[m])
  BY <1>1 DEF SameKey, Clash, SameAggregate, SameSerial
<1>3. UniqueIndexes(Written(Put(w, n, row))) BY <1>2, AddingRow
<1>4. ASSUME NEW d \in Client \ {c}, NEW m \in DOMAIN writes[d]
      PROVE  ~Clash(row, writes[d][m])
  <2>1. IsRow(writes[d][m]) BY <1>0, TxnsAre, TombstoneAssumption DEF IsRow
  <2>2. d \notin Rivals(c, row) OBVIOUS
  <2> QED BY <2>1, <2>2 DEF Rivals
<1>5. n \notin DOMAIN writes[c] BY ClientAssumption DEF TxnInv, WritesAreLocked
<1> QED BY <1>3, <1>4, <1>5

\* The part that a split inserts, next to the source it takes it from.
LEMMA InsertPartKeeps ==
    ASSUME TxnInv, NEW c \in Client, InsertRow(c), txn[c].request.op = "split"
    PROVE  TxnInv' /\ UNCHANGED vars
<1> DEFINE t == txn[c]
           r == txn[c].request
           part == PartOf(items[r.id], r)
<1>0. At(c, "insert") BY DEF InsertRow
<1>1. /\ TxnTypeOK /\ IndInv /\ TypeOK /\ t \in TxnRecord /\ Fits(c) /\ t.step = "insert"
      /\ r \in Requests /\ t.rest \in Seq(Row) /\ Blockers(c) = {}
  BY <1>0, Running
<1>2. SplitFits(c) BY <1>1 DEF Fits, Opened
<1>3. r.id \in ItemId /\ r.quantity \in 1..MaxQuantity BY <1>1, SplitsAre
<1>4. /\ Holds(c, r.id) /\ Splittable(r.id, r.quantity) /\ t.rest = <<part>>
      /\ writes[c] = NoWrites /\ DOMAIN NoWrites = {}
  BY <1>1, <1>2 DEF SplitFits, NoWrites
<1>5. r.id \in Live /\ items[r.id] \in Row BY <1>1, <1>3, <1>4, HeldRows
<1>6. Head(t.rest) = part /\ part \in Row
  <2>1. part \in Row BY <1>1, <1>5, PartIs
  <2> HIDE DEF part
  <2> QED BY <1>4, <2>1
<1>7. PICK red : red = Reduced(items[r.id], r.quantity) OBVIOUS
<1>8. red \in Row /\ SameKey(red, items[r.id])
  <2>1. items[r.id].onHand \in Nat /\ items[r.id].allocated \in Nat BY <1>5 DEF Row
  <2>2. items[r.id].onHand - r.quantity \in Nat
    BY <1>3, <1>4, <2>1, BoundAssumption DEF Splittable
  <2> QED BY <1>5, <1>7, <2>2 DEF Reduced, Row, SameKey
<1>9. CASE KeyTaken(c, {}, part)
  <2>1. Refuse(c, "conflict") BY <1>6, <1>9 DEF InsertRow
  <2> QED BY <2>1, RefusingStep
<1>10. CASE ~KeyTaken(c, {}, part)
  <2>1. PICK n \in Undrawn :
           /\ writes' = [writes EXCEPT ![c] = Put(WritesBefore(c), n, part)]
           /\ Go(c, [t EXCEPT !.step = AfterInsert(r, Tail(t.rest)), !.target = n,
                              !.rest = Tail(t.rest)])
           /\ TakeItem(c, n)
    BY <1>6, <1>10 DEF InsertRow
  <2>2. n \in ItemId /\ items[n] = Unused /\ itemLock[n] = Nobody /\ n # r.id
    BY <1>4, <2>1 DEF Undrawn, Fresh, Holds, IsRow
  <2>3. PICK w : w = Put(writes[c], r.id, red) OBVIOUS
  <2>4. WritesBefore(c) = w BY <1>7, <2>3 DEF WritesBefore, Reduced
  <2>5. View(c, r.id) = items[r.id] /\ IsRow(View(c, r.id))
    BY <1>4 DEF View, Holds
  <2>6. /\ UniqueIndexes(Written(w))
        /\ \A d \in Client \ {c} : \A m \in DOMAIN writes[d] : ~Clash(red, writes[d][m])
    <3>1. ~KeyIsNew(c, r.id, red) BY <1>8, <2>5 DEF KeyIsNew
    <3> QED BY <1>3, <1>4, <2>3, <2>5, <3>1, OverwritingRow DEF Holds
  <2>7. \A m \in ItemId : \/ Written(w)[m] = View(c, m)
                          \/ IsRow(View(c, m)) /\ SameKey(Written(w)[m], View(c, m))
    <3>1. \A m \in ItemId : Written(w)[m] = IF m = r.id THEN red ELSE View(c, m)
      BY <1>4, <2>3 DEF Written, Put, View
    <3> QED BY <1>8, <2>5, <3>1
  <2>8. Rivals(c, part) = {} BY <1>1, <1>6, Unblocked
  <2>9. /\ UniqueIndexes(Written(Put(w, n, part)))
        /\ \A d \in Client \ {c} : \A m \in DOMAIN writes[d] : ~Clash(part, writes[d][m])
    BY <1>10, <2>2, <2>6, <2>7, <2>8, InsertingRow
  <2> DEFINE S == {r.id, n}
             v == [i \in S |-> IF i = r.id THEN red ELSE part]
             u == [t EXCEPT !.step = "reference", !.target = n, !.rest = Tail(t.rest)]
  <2> HIDE DEF part
  <2>10. Put(w, n, part) = v
    <3>1. DOMAIN w = {r.id} /\ w[r.id] = red BY <1>4, <2>3 DEF Put
    <3> QED BY <2>2, <3>1 DEF Put
  <2>11. writes' = [writes EXCEPT ![c] = v] BY <2>1, <2>4, <2>10
  <2>12. /\ v \in [S -> Row] /\ S \in SUBSET ItemId /\ DOMAIN v = S
         /\ v[r.id] = red /\ v[n] = part
    BY <1>3, <1>6, <1>8, <2>2
  <2>13. Tail(t.rest) \in Seq(Row) BY <1>1, <1>4
  <2>14. Go(c, u) BY <2>1 DEF AfterInsert
  <2>15. u \in TxnRecord /\ u.request = r /\ u.step = "reference" /\ u.target = n
    BY <1>1, <2>2, <2>13 DEF TxnRecord, Steps
  <2>16. /\ LocksGrow(c) /\ itemLock'[n] = c /\ UNCHANGED vars
         /\ itemLock'[r.id] = c
    BY <1>1, <1>3, <1>4, <2>1, <2>2, <2>14, TakingItem DEF Go, Holds
  <2>17. \A l : Placed(c, l) => Placed(c, l)' BY <1>1, <2>16, Keeping
  <2>18. txn'[c] = u /\ writes'[c] = v /\ items' = items
    BY <1>1, <2>11, <2>14, <2>16 DEF Go, TxnTypeOK, vars
  <2>19. SplitFits(c)'
    <3>1. Holds(c, r.id)' BY <1>4, <2>16, <2>18 DEF Holds
    <3>2. PICK l : l = part.location OBVIOUS
    <3>3. Placed(c, l)' /\ ~SameAggregate(items[r.id], part)
      BY <1>1, <1>2, <2>17, <3>2 DEF SplitFits, part
    <3> QED BY <1>1, <1>4, <1>7, <2>2, <2>15, <2>16, <2>18, <3>1, <3>2, <3>3
        DEF SplitFits, Splittable, part
  <2>20. Fits(c)' BY <1>1, <2>15, <2>18, <2>19 DEF Fits, Opened, StepsOf
  <2>21. \A i \in S : itemLock'[i] = c BY <2>16
  <2>22. UniqueIndexes(Written(v)) BY <2>9, <2>10
  <2>23. \A d \in Client \ {c} : \A i \in S, m \in DOMAIN writes[d] : ~Clash(v[i], writes[d][m])
    BY <2>6, <2>9, <2>12
  <2> HIDE DEF v, S
  <2> QED BY <2>11, <2>12, <2>14, <2>15, <2>16, <2>20, <2>21, <2>22, <2>23, WritingStep
<1> QED BY <1>9, <1>10

\* The rows of a request to create rows, one by one.
LEMMA InsertNewKeeps ==
    ASSUME TxnInv, NEW c \in Client, InsertRow(c), txn[c].request.op # "split"
    PROVE  TxnInv' /\ UNCHANGED vars
<1> DEFINE t == txn[c]
           r == txn[c].request
           row == Head(txn[c].rest)
           tail == Tail(txn[c].rest)
<1>0. At(c, "insert") BY DEF InsertRow
<1>1. /\ TxnTypeOK /\ IndInv /\ TypeOK /\ t \in TxnRecord /\ Fits(c) /\ t.step = "insert"
      /\ r \in Requests /\ t.rest \in Seq(Row) /\ Blockers(c) = {}
      /\ r.op \in {"createQuantity", "createSerialized", "generateSerialized", "createAsset"}
  BY <1>0, Running, OpsOfSteps
<1>2. CreateFits(c) BY <1>1 DEF Fits, Opened
<1>3. r.asset \in Asset BY <1>1, CreatesAre, AssetRequestsAre
<1>4. /\ t.rest # <<>> /\ \A k \in DOMAIN t.rest : Wanted(r, t.rest[k])
      /\ Placed(c, row.location)
  BY <1>1, <1>2 DEF CreateFits
<1>5. /\ row \in Row /\ Wanted(r, row)
      /\ tail \in Seq(Row) /\ Len(tail) = Len(t.rest) - 1
      /\ \A k \in DOMAIN tail : k + 1 \in DOMAIN t.rest /\ tail[k] = t.rest[k + 1]
      /\ tail # <<>> => Head(tail) = tail[1] /\ 1 \in DOMAIN tail
  BY <1>1, <1>4
<1>6. \A k \in DOMAIN tail : Wanted(r, tail[k]) BY <1>4, <1>5
<1>7. CASE KeyTaken(c, {}, row)
  <2>1. Refuse(c, "conflict") BY <1>7 DEF InsertRow
  <2> QED BY <2>1, RefusingStep
<1>8. CASE ~KeyTaken(c, {}, row)
  <2>1. PICK n \in Undrawn :
           /\ writes' = [writes EXCEPT ![c] = Put(WritesBefore(c), n, row)]
           /\ Go(c, [t EXCEPT !.step = AfterInsert(r, tail), !.target = n, !.rest = tail])
           /\ TakeItem(c, n)
    BY <1>8 DEF InsertRow
  <2>2. n \in ItemId /\ items[n] = Unused /\ itemLock[n] = Nobody
    BY <2>1 DEF Undrawn, Fresh
  <2>3. PICK w : w = writes[c] OBVIOUS
  <2>4. WritesBefore(c) = w BY <2>3 DEF WritesBefore
  <2>5. \A m \in ItemId : Written(w)[m] = View(c, m) BY <1>1, <2>3, Views
  <2>6. UniqueIndexes(Written(w)) BY <2>3 DEF TxnInv, ViewsAreUnique
  <2>7. Rivals(c, row) = {} BY <1>1, Unblocked
  <2>8. /\ UniqueIndexes(Written(Put(w, n, row)))
        /\ \A d \in Client \ {c} : \A m \in DOMAIN writes[d] : ~Clash(row, writes[d][m])
        /\ n \notin DOMAIN writes[c]
    BY <1>8, <2>2, <2>5, <2>6, <2>7, InsertingRow
  <2>9. PICK S : S = DOMAIN w \cup {n} OBVIOUS
  <2>10. PICK v : v = Put(w, n, row) OBVIOUS
  <2>11. /\ v \in [S -> Row] /\ S \in SUBSET ItemId /\ DOMAIN v = S
         /\ v[n] = row /\ \A i \in DOMAIN writes[c] : v[i] = writes[c][i]
    <3>1. DOMAIN w \subseteq ItemId /\ \A i \in DOMAIN w : w[i] \in Row
      BY <1>1, <2>3, TxnsAre
    <3>2. PICK x : x = row OBVIOUS
    <3>3. x \in Row BY <1>5, <3>2
    <3>4. v = [i \in S |-> IF i = n THEN x ELSE w[i]] BY <2>9, <2>10, <3>2 DEF Put
    <3> QED BY <2>2, <2>3, <2>8, <2>9, <3>1, <3>2, <3>3, <3>4
  <2> DEFINE u == [t EXCEPT !.step = AfterInsert(r, tail), !.target = n, !.rest = tail]
  <2>12. Go(c, u) BY <2>1
  <2>13. AfterInsert(r, tail) = IF tail = <<>> THEN "commit"
                                ELSE IF r.op = "createAsset" THEN "validate" ELSE "insert"
    BY <1>1 DEF AfterInsert
  <2>14. /\ u \in TxnRecord /\ u.request = r /\ u.step = AfterInsert(r, tail) /\ u.rest = tail
    BY <1>1, <1>5, <2>2, <2>13 DEF TxnRecord, Steps
  <2>15. LocksGrow(c) /\ itemLock'[n] = c /\ UNCHANGED vars
    BY <1>1, <2>1, <2>2, <2>12, TakingItem DEF Go
  <2>16. /\ \A l : Placed(c, l) => Placed(c, l)'
         /\ \A i \in ItemId : itemLock[i] = c => itemLock'[i] = c
         /\ assetLock[r.asset] = c => assetLock'[r.asset] = c
         /\ items' = items /\ assets' = assets
    BY <1>1, <1>3, <2>15, Keeping
  <2>17. txn'[c] = u /\ writes'[c] = v
    BY <1>1, <2>1, <2>4, <2>10, <2>12 DEF Go, TxnTypeOK
  <2>18. \A i \in DOMAIN v :
            /\ items'[i] = Unused /\ itemLock'[i] = c /\ Wanted(r, v[i])
    <3> SUFFICES ASSUME NEW i \in DOMAIN v
                 PROVE  items'[i] = Unused /\ itemLock'[i] = c /\ Wanted(r, v[i])
      OBVIOUS
    <3>1. CASE i = n BY <1>5, <2>2, <2>11, <2>15, <2>16, <3>1
    <3>2. CASE i # n
      <4>1. i \in DOMAIN writes[c] /\ i \in ItemId /\ v[i] = writes[c][i]
        BY <2>3, <2>9, <2>11, <3>2
      <4> QED BY <1>2, <2>16, <4>1 DEF CreateFits
    <3> QED BY <3>1, <3>2
  <2>19. \A i \in DOMAIN v : Placed(c, v[i].location)
    BY <1>2, <1>4, <2>3, <2>9, <2>11 DEF CreateFits
  <2>20. r.op # "createAsset" => Placed(c, r.row.location) BY <1>1, <1>2 DEF CreateFits
  <2>21. r.op # "createAsset" /\ tail # <<>> => Head(tail).location = r.row.location
    <3> SUFFICES ASSUME r.op # "createAsset", tail # <<>>
                 PROVE  Head(tail).location = r.row.location
      OBVIOUS
    <3>1. Wanted(r, Head(tail)) BY <1>5, <1>6
    <3>2. CASE r.op = "createQuantity" BY <3>1, <3>2 DEF Wanted
    <3>3. CASE r.op \in {"createSerialized", "generateSerialized"}
      <4>1. r.row \in Row BY <1>1, <3>3, TemplatesAre
      <4>2. PICK x : x = Head(tail) OBVIOUS
      <4>3. x = [r.row EXCEPT !.serial = x.serial] BY <3>1, <3>3, <4>2 DEF Wanted
      <4>4. x.location = r.row.location BY <4>1, <4>3 DEF Row
      <4> QED BY <4>2, <4>4
    <3> QED BY <1>1, <3>2, <3>3
  <2>22. r.op = "createQuantity" => tail = <<>> /\ DOMAIN writes[c] = {}
    BY <1>1, <1>2, <1>5 DEF CreateFits, NoWrites
  <2>23. v # NoWrites BY <2>9, <2>11 DEF NoWrites
  <2>24. CreateFits(c)'
    <3>1. assetLock'[r.asset] = c /\ assets'[r.asset] = assets[r.asset]
      BY <1>2, <2>16 DEF CreateFits
    <3>2. \A i \in DOMAIN v : Placed(c, v[i].location)' BY <2>16, <2>17, <2>19
    <3>3. r.op = "createQuantity" => DOMAIN v = {n} BY <2>3, <2>9, <2>11, <2>22
    <3>4. PICK l : l = r.row.location OBVIOUS
    <3>5. r.op # "createAsset" => Placed(c, l)' BY <2>16, <2>20, <3>4
    <3> HIDE DEF tail
    <3> QED BY <1>1, <1>2, <1>6, <2>2, <2>13, <2>14, <2>17, <2>18, <2>21, <2>22, <2>23, <3>1, <3>2,
               <3>3, <3>4, <3>5
        DEF CreateFits
  <2>25. u.step \in StepsOf(r.op) /\ u.step \in {"commit", "validate", "insert"}
    BY <1>1, <2>13, <2>14 DEF StepsOf
  <2>26. Fits(c)' BY <1>1, <2>14, <2>17, <2>24, <2>25 DEF Fits, Opened
  <2>27. \A i \in S : itemLock'[i] = c BY <2>11, <2>18
  <2>28. \A d \in Client \ {c} : \A i \in S, m \in DOMAIN writes[d] : ~Clash(v[i], writes[d][m])
    BY <2>3, <2>8, <2>9, <2>11 DEF TxnInv, NoRivalWrites
  <2>29. writes' = [writes EXCEPT ![c] = v] /\ UniqueIndexes(Written(v))
    BY <2>1, <2>4, <2>8, <2>10
  <2> QED BY <2>11, <2>12, <2>14, <2>15, <2>26, <2>27, <2>28, <2>29, WritingStep
<1> QED BY <1>7, <1>8
-----------------------------------------------------------------------------
\* The foreign key of the part that was split off to its asset.
LEMMA CheckReferenceKeeps ==
    ASSUME TxnInv, NEW c \in Client, CheckReference(c)
    PROVE  TxnInv' /\ UNCHANGED vars
<1> DEFINE t == txn[c]
           r == txn[c].request
           a == items[txn[c].request.id].asset
           u == [t EXCEPT !.step = "commit"]
<1>0. At(c, "reference") BY DEF CheckReference
<1>1. /\ TxnTypeOK /\ IndInv /\ t \in TxnRecord /\ Fits(c) /\ t.step = "reference"
      /\ r \in Requests /\ r.op = "split"
  <2>1. /\ TxnTypeOK /\ IndInv /\ t \in TxnRecord /\ Fits(c) /\ t.step = "reference"
        /\ r \in Requests /\ "reference" \in StepsOf(r.op)
    BY <1>0, Running
  <2> QED BY <2>1, OpsOfSteps
<1>2. SplitFits(c) BY <1>1 DEF Fits, Opened
<1>3. CASE assets[a] = "quantity"
  <2>1. /\ Go(c, u) /\ sharers' = [sharers EXCEPT ![a] = @ \cup {c}]
        /\ UNCHANGED <<writes, itemLock, assetLock, locationLock>>
    BY <1>3 DEF CheckReference
  <2>2. u \in TxnRecord /\ u.request = r /\ u.target = t.target /\ u.step = "commit"
    BY <1>1 DEF TxnRecord, Steps
  <2>3. txn'[c] = u /\ UNCHANGED <<vars, writes>> BY <1>1, <2>1 DEF Go, TxnTypeOK
  <2>4. UNCHANGED <<items, locations>> BY <2>3 DEF vars
  <2>5. LocksGrow(c)
    <3>1. sharers' \in [Asset -> SUBSET Client] BY <1>1, <2>1 DEF TxnTypeOK
    <3> QED BY <1>1, <2>1, <3>1 DEF LocksGrow, TxnTypeOK
  <2>6. SplitFits(c)'
    <3>1. PICK l : l = PartOf(items[r.id], r).location OBVIOUS
    <3>2. Placed(c, l)'
      BY <1>1, <1>2, <2>1, <2>4, <3>1 DEF SplitFits, Placed, ValidLocation
    <3>3. Holds(c, r.id)' BY <1>2, <2>1, <2>2, <2>3, <2>4 DEF SplitFits, Holds
    <3> HIDE DEF u
    <3>4. /\ Splittable(r.id, r.quantity) /\ ~SameAggregate(items[r.id], PartOf(items[r.id], r))
          /\ t.target \in ItemId \ {r.id}
          /\ items[t.target] = Unused /\ itemLock[t.target] = c
          /\ writes[c] = [i \in {r.id, t.target} |->
                            IF i = r.id THEN Reduced(items[r.id], r.quantity)
                            ELSE PartOf(items[r.id], r)]
      BY <1>1, <1>2 DEF SplitFits
    <3>5. Splittable(r.id, r.quantity)' BY <2>2, <2>3, <2>4, <3>4 DEF Splittable
    <3> QED BY <2>1, <2>2, <2>3, <2>4, <3>1, <3>2, <3>3, <3>4, <3>5 DEF SplitFits
  <2>7. Fits(c)' BY <1>1, <2>2, <2>3, <2>6 DEF Fits, Opened, StepsOf
  <2> QED BY <2>1, <2>2, <2>5, <2>7, GoingOn
<1>4. CASE assets[a] # "quantity"
  <2>1. Refuse(c, "bad_request") BY <1>4 DEF CheckReference
  <2> QED BY <2>1, RefusingStep
<1> QED BY <1>3, <1>4

\* A step of the handlers of an asset that reads and locks, and goes on to a
\* step of the handler with what it knows of the asset.
LEMMA AssetGoesOn ==
    ASSUME TxnInv, NEW c \in Client, NEW u \in TxnRecord, Go(c, u), UNCHANGED writes,
           LocksGrow(c), Opened(c),
           txn[c].request.op \in {"setMode", "deleteAsset"}, u.request = txn[c].request,
           u.step \in StepsOf(u.request.op) \cap {"scanAsset", "pick", "relock", "erase", "commit"},
           u.step = "relock" => u.target \in ItemId,
           txn[c].step = "retag" => LiveOf(u.request.asset) = {} \/ assets[u.request.asset] = u.request.mode
    PROVE  TxnInv' /\ UNCHANGED vars
<1> DEFINE r == txn[c].request
<1>1. /\ TxnTypeOK /\ Fits(c) /\ txn[c].step # "idle" BY DEF TxnInv, Opened
<1>2. r \in Requests /\ OwnerFits(c) BY <1>1 DEF Fits
<1>3. r.asset \in Asset BY <1>2, AssetRequestsAre
<1>4. txn'[c] = u /\ UNCHANGED <<vars, writes>> BY <1>1 DEF Go, TxnTypeOK
<1>5. /\ assetLock'[r.asset] = c /\ assets' = assets /\ LiveOf(r.asset)' = LiveOf(r.asset)
  BY <1>1, <1>2, <1>3, <1>4, Keeping DEF OwnerFits
<1>6. OwnerFits(c)' BY <1>2, <1>4, <1>5 DEF OwnerFits
<1>7. Fits(c)' BY <1>2, <1>4, <1>6 DEF Fits, Opened
<1> QED BY <1>7, GoingOn

\* update_asset: an asset whose mode is to change has no rows, or the foreign
\* key of its rows refuses it.
LEMMA RetagAssetKeeps ==
    ASSUME TxnInv, NEW c \in Client, RetagAsset(c)
    PROVE  TxnInv' /\ UNCHANGED vars
<1> DEFINE t == txn[c]
           r == txn[c].request
           u == [t EXCEPT !.step = "scanAsset"]
<1>0. At(c, "retag") BY DEF RetagAsset
<1>1. /\ TxnTypeOK /\ IndInv /\ t \in TxnRecord /\ Fits(c) /\ t.step = "retag"
      /\ r \in Requests /\ r.op = "setMode"
  BY <1>0, Running, OpsOfSteps
<1>2. CASE RowsAgainst(r.asset, r.mode) = {}
  <2>1. Go(c, u) /\ UNCHANGED <<writes, locks>> BY <1>2 DEF RetagAsset
  <2>2. u \in TxnRecord /\ u.request = r /\ u.step = "scanAsset"
    BY <1>1 DEF TxnRecord, Steps
  <2>3. LiveOf(r.asset) = {} \/ assets[r.asset] = r.mode
    <3> SUFFICES ASSUME NEW i \in LiveOf(r.asset) PROVE assets[r.asset] = r.mode
      OBVIOUS
    <3>1. items[i].mode = r.mode BY <1>2 DEF RowsAgainst
    <3>2. i \in Live /\ items[i].asset = r.asset BY DEF LiveOf
    <3> QED BY <1>1, <3>1, <3>2 DEF IndInv, SoundRow
  <2>4. Opened(c) /\ LocksGrow(c) BY <1>1, <2>1, LocksStay DEF Opened
  <2>5. u.step \in StepsOf(r.op) BY <1>1, <2>2 DEF StepsOf
  <2> QED BY <1>1, <2>1, <2>2, <2>3, <2>4, <2>5, AssetGoesOn
<1>3. CASE RowsAgainst(r.asset, r.mode) # {}
  <2>1. Refuse(c, "bad_request") BY <1>3 DEF RetagAsset
  <2> QED BY <2>1, RefusingStep
<1> QED BY <1>2, <1>3

\* fetch_inventory_items_for_asset_for_update.
LEMMA ScanAssetKeeps ==
    ASSUME TxnInv, NEW c \in Client, ScanAsset(c)
    PROVE  TxnInv' /\ UNCHANGED vars
<1> DEFINE t == txn[c]
           r == txn[c].request
           S == LiveOf(txn[c].request.asset)
           u == [t EXCEPT !.step = "pick", !.left = S]
<1>0. At(c, "scanAsset") BY DEF ScanAsset
<1>1. /\ TxnTypeOK /\ t \in TxnRecord /\ Fits(c) /\ t.step = "scanAsset"
      /\ r \in Requests /\ r.op \in {"setMode", "deleteAsset"}
  BY <1>0, Running, OpsOfSteps
<1>2. Go(c, u) /\ UNCHANGED <<writes, locks>> BY DEF ScanAsset
<1>3. u \in TxnRecord /\ u.request = r /\ u.step = "pick"
  BY <1>1 DEF TxnRecord, Steps, LiveOf, Live
<1>4. Opened(c) /\ LocksGrow(c) BY <1>1, <1>2, LocksStay DEF Opened
<1>5. u.step \in StepsOf(r.op) BY <1>1, <1>3 DEF StepsOf
<1> QED BY <1>1, <1>2, <1>3, <1>4, <1>5, AssetGoesOn

\* The same for the handler of a location.
LEMMA LocationGoesOn ==
    ASSUME TxnInv, NEW c \in Client, NEW u \in TxnRecord, Go(c, u), UNCHANGED writes,
           LocksGrow(c), txn[c].step # "idle", u.request = txn[c].request,
           txn[c].request.op = "deleteLocation",
           u.step \in {"scanLocation", "pick", "clear", "write", "drop"},
           u.step \in {"clear", "write"} => u.target \in ItemId,
           u.step = "write" =>
              /\ itemLock'[u.target] = c /\ IsRow(items[u.target])
              /\ items[u.target].location = u.request.location
              /\ u.rest = <<Emptied(items[u.target])>>,
           \/ Opened(c)
           \/ /\ writes[c] = NoWrites /\ locationLock'[u.request.location] = c
              /\ locations[u.request.location] = "present"
    PROVE  TxnInv' /\ UNCHANGED vars
<1> DEFINE r == txn[c].request
<1>1. TxnTypeOK /\ Fits(c) BY DEF TxnInv
<1>2. r \in Requests BY <1>1 DEF Fits
<1>3. r.location \in Location BY <1>2, AssetRequestsAre
<1>4. txn'[c] = u /\ UNCHANGED <<vars, writes>> BY <1>1 DEF Go, TxnTypeOK
<1>5. /\ \A i \in ItemId : Holds(c, i) => Holds(c, i)'
      /\ locationLock[r.location] = c => locationLock'[r.location] = c
      /\ items' = items /\ locations' = locations
  BY <1>1, <1>3, <1>4, Keeping
<1>6. /\ locationLock'[r.location] = c /\ locations'[r.location] = "present"
      /\ \A i \in DOMAIN writes[c] :
           Holds(c, i)' /\ items[i].location = r.location /\ writes[c][i] = Emptied(items[i])
  <2>1. CASE Opened(c)
    <3>1. LocationFits(c) BY <1>1, <2>1 DEF Fits
    <3> QED BY <1>1, <1>5, <3>1, TxnsAre DEF LocationFits
  <2>2. CASE ~Opened(c) BY <1>5, <2>2 DEF NoWrites
  <2> QED BY <2>1, <2>2
<1>7. u.step = "write" => Holds(c, u.target)' BY <1>4, <1>5 DEF Holds
<1>8. LocationFits(c)' BY <1>4, <1>5, <1>6, <1>7 DEF LocationFits
<1>9. Fits(c)' BY <1>2, <1>4, <1>8 DEF Fits, Opened, StepsOf
<1> QED BY <1>9, GoingOn

\* clear_inventory_item_locations_in_tree, as far as the rows that it sees.
LEMMA ScanLocationKeeps ==
    ASSUME TxnInv, NEW c \in Client, ScanLocation(c)
    PROVE  TxnInv' /\ UNCHANGED vars
<1> DEFINE t == txn[c]
           r == txn[c].request
           S == {i \in Live : items[i].location = txn[c].request.location}
           u == [t EXCEPT !.step = "pick", !.left = S]
<1>0. At(c, "scanLocation") BY DEF ScanLocation
<1>1. /\ TxnTypeOK /\ t \in TxnRecord /\ t.step = "scanLocation"
      /\ r \in Requests /\ r.op = "deleteLocation"
  BY <1>0, Running, OpsOfSteps
<1>2. Go(c, u) /\ UNCHANGED <<writes, locks>> BY DEF ScanLocation
<1>3. u \in TxnRecord /\ u.request = r /\ u.step = "pick"
  BY <1>1 DEF TxnRecord, Steps, Live
<1>4. Opened(c) /\ LocksGrow(c) BY <1>1, <1>2, LocksStay DEF Opened
<1> QED BY <1>1, <1>2, <1>3, <1>4, LocationGoesOn

\* The rows that were scanned are visited in any order.
LEMMA PickNextKeeps ==
    ASSUME TxnInv, NEW c \in Client, PickNext(c)
    PROVE  TxnInv' /\ UNCHANGED vars
<1> DEFINE t == txn[c]
           r == txn[c].request
           visit == IF r.op = "deleteLocation" THEN "clear" ELSE "relock"
           end == CASE r.op = "setMode" -> "commit" [] r.op = "deleteAsset" -> "erase"
                    [] OTHER -> "drop"
<1>0. At(c, "pick") BY DEF PickNext
<1>1. /\ TxnTypeOK /\ t \in TxnRecord /\ t.step = "pick" /\ t.left \subseteq ItemId
      /\ r \in Requests /\ r.op \in {"setMode", "deleteAsset", "deleteLocation"}
  <2>1. /\ TxnTypeOK /\ t \in TxnRecord /\ t.step = "pick" /\ t.left \subseteq ItemId
        /\ r \in Requests /\ "pick" \in StepsOf(r.op)
    BY <1>0, Running
  <2> QED BY <2>1, OpsOfSteps
<1>2. PICK u : /\ Go(c, u) /\ UNCHANGED <<writes, locks>>
               /\ \/ u = [t EXCEPT !.step = end]
                  \/ \E i \in t.left : u = [t EXCEPT !.step = visit, !.target = i]
  BY DEF PickNext
<1>3. /\ u \in TxnRecord /\ u.request = r
      /\ \/ u.step = end
         \/ u.step = visit /\ u.target \in ItemId
  <2>1. visit \in Steps /\ end \in Steps BY <1>1 DEF Steps
  <2> HIDE DEF visit, end
  <2>2. CASE u = [t EXCEPT !.step = end] BY <1>1, <2>1, <2>2 DEF TxnRecord
  <2>3. CASE \E i \in t.left : u = [t EXCEPT !.step = visit, !.target = i]
    BY <1>1, <2>1, <2>3 DEF TxnRecord
  <2> QED BY <1>2, <2>2, <2>3
<1>4. Opened(c) /\ LocksGrow(c) BY <1>1, <1>2, LocksStay DEF Opened
<1>5. CASE r.op \in {"setMode", "deleteAsset"}
  <2>1. /\ u.step \in StepsOf(r.op) \cap {"relock", "erase", "commit"}
        /\ u.step = "relock" => u.target \in ItemId
    BY <1>3, <1>5 DEF StepsOf
  <2> QED BY <1>1, <1>2, <1>3, <1>4, <1>5, <2>1, AssetGoesOn
<1>6. CASE r.op = "deleteLocation"
  <2>1. u.step \in {"clear", "drop"} /\ (u.step = "clear" => u.target \in ItemId)
    BY <1>3, <1>6
  <2> QED BY <1>1, <1>2, <1>3, <1>4, <1>6, <2>1, LocationGoesOn
<1> QED BY <1>1, <1>5, <1>6

\* The rows of an asset are locked one by one, before it changes or goes.
LEMMA LockScannedKeeps ==
    ASSUME TxnInv, NEW c \in Client, LockScanned(c)
    PROVE  TxnInv' /\ UNCHANGED vars
<1> DEFINE t == txn[c]
           r == txn[c].request
           u == [t EXCEPT !.step = "pick", !.left = @ \ {t.target}]
<1>0. At(c, "relock") BY DEF LockScanned
<1>1. /\ TxnTypeOK /\ TypeOK /\ t \in TxnRecord /\ t.step = "relock" /\ t.left \subseteq ItemId
      /\ r \in Requests /\ r.op \in {"setMode", "deleteAsset"} /\ Blockers(c) = {}
      /\ OwnerFits(c)
  <2>1. /\ TxnTypeOK /\ TypeOK /\ t \in TxnRecord /\ t.step = "relock" /\ t.left \subseteq ItemId
        /\ r \in Requests /\ Blockers(c) = {} /\ "relock" \in StepsOf(r.op) /\ Fits(c)
    BY <1>0, Running
  <2>2. r.op \in {"setMode", "deleteAsset"} BY <2>1, OpsOfSteps
  <2> QED BY <2>1, <2>2 DEF Fits, Opened
<1>2. Go(c, u) /\ UNCHANGED writes BY DEF LockScanned
<1>3. u \in TxnRecord /\ u.request = r /\ u.step = "pick"
  BY <1>1 DEF TxnRecord, Steps
<1>4. LocksGrow(c)
  <2>1. CASE IsRow(items[t.target])
    <3>1. t.target \in ItemId BY <1>1 DEF OwnerFits
    <3> QED BY <1>1, <2>1, <3>1, Unblocked, TakingItem DEF LockScanned
  <2>2. CASE ~IsRow(items[t.target]) BY <1>1, <2>2, LocksStay DEF LockScanned
  <2> QED BY <2>1, <2>2
<1>5. Opened(c) BY <1>1 DEF Opened
<1>6. u.step \in StepsOf(r.op) BY <1>1, <1>3 DEF StepsOf
<1> QED BY <1>1, <1>2, <1>3, <1>4, <1>5, <1>6, AssetGoesOn

\* A row that still stands at the location once it is locked is to be cleared.
LEMMA ClearRowKeeps ==
    ASSUME TxnInv, NEW c \in Client, ClearRow(c)
    PROVE  TxnInv' /\ UNCHANGED vars
<1> DEFINE t == txn[c]
           r == txn[c].request
           row == items[txn[c].target]
<1>0. At(c, "clear") BY DEF ClearRow
<1>1. /\ TxnTypeOK /\ IndInv /\ t \in TxnRecord /\ t.step = "clear" /\ t.left \subseteq ItemId
      /\ r \in Requests /\ r.op = "deleteLocation" /\ Blockers(c) = {} /\ LocationFits(c)
  <2>1. /\ TxnTypeOK /\ IndInv /\ t \in TxnRecord /\ t.step = "clear" /\ t.left \subseteq ItemId
        /\ r \in Requests /\ Blockers(c) = {} /\ "clear" \in StepsOf(r.op) /\ Fits(c)
    BY <1>0, Running
  <2>2. r.op = "deleteLocation" BY <2>1, OpsOfSteps
  <2> QED BY <2>1, <2>2 DEF Fits, Opened
<1>2. t.target \in ItemId BY <1>1 DEF LocationFits
<1>3. Opened(c) BY <1>1 DEF Opened
<1>4. CASE IsRow(row) /\ row.location = r.location
  <2>1. PICK e : e = Emptied(row) OBVIOUS
  <2> DEFINE u == [t EXCEPT !.step = "write", !.rest = <<e>>]
  <2>2. Go(c, u) /\ TakeItem(c, t.target) /\ UNCHANGED writes
    BY <1>4, <2>1 DEF ClearRow, Emptied
  <2>3. <<e>> \in Seq(Row)
    <3>1. row \in Row BY <1>1, <1>2, <1>4, LiveRows DEF IndInv, Live
    <3>2. e \in Row BY <2>1, <3>1 DEF Emptied, Row, LocationField
    <3> QED BY <3>2
  <2>4. /\ u \in TxnRecord /\ u.request = r /\ u.step = "write" /\ u.target = t.target
        /\ u.rest = <<e>>
    BY <1>1, <2>3 DEF TxnRecord, Steps
  <2>5. LocksGrow(c) /\ itemLock'[t.target] = c BY <1>1, <1>2, <2>2, Unblocked, TakingItem
  <2> HIDE DEF u
  <2> QED BY <1>1, <1>2, <1>3, <1>4, <2>1, <2>2, <2>4, <2>5, LocationGoesOn
<1>5. CASE ~(IsRow(row) /\ row.location = r.location)
  <2> DEFINE u == [t EXCEPT !.step = "pick", !.left = @ \ {t.target}]
  <2>1. Go(c, u) /\ UNCHANGED <<writes, locks>> BY <1>5 DEF ClearRow
  <2>2. u \in TxnRecord /\ u.request = r /\ u.step = "pick" BY <1>1 DEF TxnRecord, Steps
  <2>3. LocksGrow(c) BY <1>1, <2>1, LocksStay
  <2> HIDE DEF u
  <2> QED BY <1>1, <1>3, <2>1, <2>2, <2>3, LocationGoesOn
<1> QED BY <1>4, <1>5

\* fetch_location_for_update.
LEMMA LockLocationRowKeeps ==
    ASSUME TxnInv, NEW c \in Client, LockLocationRow(c)
    PROVE  TxnInv' /\ UNCHANGED vars
<1> DEFINE t == txn[c]
           r == txn[c].request
           u == [t EXCEPT !.step = "scanLocation"]
<1>0. At(c, "lockLocation") BY DEF LockLocationRow
<1>1. /\ TxnTypeOK /\ t \in TxnRecord /\ t.step = "lockLocation" /\ Fits(c)
      /\ r \in Requests /\ r.op = "deleteLocation" /\ Blockers(c) = {}
  BY <1>0, Running, OpsOfSteps
<1>2. CASE locations[r.location] = "present"
  <2>1. Go(c, u) /\ TakeLocation(c, r.location) /\ UNCHANGED writes
    BY <1>2 DEF LockLocationRow
  <2>2. u \in TxnRecord /\ u.request = r /\ u.step = "scanLocation"
    BY <1>1 DEF TxnRecord, Steps
  <2>3. r.location \in Location /\ r.location # NoLocation /\ r.location \in LocationField
    BY <1>1, AssetRequestsAre, NullAssumption DEF LocationField
  <2>4. LocksGrow(c) /\ locationLock'[r.location] = c
    BY <1>1, <2>1, <2>3, Unblocked, TakingLocation
  <2>5. writes[c] = NoWrites BY <1>1 DEF Fits
  <2> HIDE DEF u
  <2> QED BY <1>1, <1>2, <2>1, <2>2, <2>4, <2>5, LocationGoesOn
<1>3. CASE locations[r.location] # "present"
  <2>1. Refuse(c, "not_found") BY <1>3 DEF LockLocationRow
  <2> QED BY <2>1, RefusingStep
<1> QED BY <1>2, <1>3

-----------------------------------------------------------------------------
\* delete_asset: the rows that are there go with the asset, and the others
\* have locked none of them.
LEMMA EraseAssetKeeps ==
    ASSUME TxnInv, NEW c \in Client, EraseAsset(c)
    PROVE  TxnInv' /\ [Next]_vars /\ KeysAreKnown(c)
<1> DEFINE r == txn[c].request
           a == txn[c].request.asset
<1>0. At(c, "erase") BY DEF EraseAsset
<1>1. /\ TxnTypeOK /\ r \in Requests /\ r.op = "deleteAsset" /\ Blockers(c) = {}
      /\ txn[c].step = "erase" /\ OwnerFits(c)
  <2>1. /\ TxnTypeOK /\ r \in Requests /\ Blockers(c) = {} /\ "erase" \in StepsOf(r.op) /\ Fits(c)
        /\ txn[c].step = "erase"
    BY <1>0, Running
  <2>2. r.op = "deleteAsset" BY <2>1, OpsOfSteps
  <2> QED BY <2>1, <2>2 DEF Fits, Opened
<1>2. a \in Asset BY <1>1, AssetRequestsAre
<1>3. assetLock[a] = c /\ assets[a] \in Mode BY <1>1 DEF OwnerFits
<1>4. /\ items' = Without(LiveOf(a)) /\ assets' = [assets EXCEPT ![a] = "gone"]
      /\ locations' = locations /\ Done(c)
  BY DEF EraseAsset
<1>5. DeleteAsset(a) BY <1>3, <1>4 DEF DeleteAsset
<1>6. Next BY <1>2, <1>5 DEF Next
<1>7. \A i \in ItemId : items'[i] = IF i \in LiveOf(a) THEN Deleted ELSE items[i]
  BY <1>4 DEF Without
<1>8. KeysAreKnown(c) BY <1>7 DEF KeysAreKnown, SameKey, IsRow
<1>9. \A i \in LiveOf(a) : itemLock[i] \in {c, Nobody} /\ IsRow(items[i])
  BY <1>1, Unblocked DEF LiveOf, Live
<1>10. Considerate(c)
  BY <1>3, <1>4, <1>7, <1>9, TombstoneAssumption DEF Considerate, IsRow
<1> QED BY <1>4, <1>6, <1>8, <1>10, EndingStep DEF Done

\* delete_location_tree: every row that stood at the location was cleared, or
\* the foreign key refuses the delete.
LEMMA DropLocationKeeps ==
    ASSUME TxnInv, NEW c \in Client, DropLocation(c)
    PROVE  TxnInv' /\ [Next]_vars /\ KeysAreKnown(c)
<1> DEFINE r == txn[c].request
           l == txn[c].request.location
           w == writes[c]
<1>0. At(c, "drop") BY DEF DropLocation
<1>1. /\ TxnTypeOK /\ TypeOK /\ r \in Requests /\ r.op = "deleteLocation" /\ txn[c].step = "drop"
      /\ LocationFits(c)
  <2>1. /\ TxnTypeOK /\ TypeOK /\ r \in Requests /\ "drop" \in StepsOf(r.op) /\ Fits(c)
        /\ txn[c].step = "drop"
    BY <1>0, Running
  <2>2. r.op = "deleteLocation" BY <2>1, OpsOfSteps
  <2> QED BY <2>1, <2>2 DEF Fits, Opened
<1>2. l \in Location BY <1>1, AssetRequestsAre
<1>3. /\ locationLock[l] = c /\ locations[l] = "present"
      /\ \A i \in DOMAIN w : /\ i \in ItemId /\ itemLock[i] = c /\ IsRow(items[i])
                             /\ items[i].location = l /\ w[i] = Emptied(items[i])
  BY <1>1, TxnsAre DEF LocationFits, Holds
<1>4. CASE \A i \in ItemId : IsRow(View(c, i)) => View(c, i).location # l
  <2>1. /\ items' = Written(w) /\ locations' = [locations EXCEPT ![l] = "gone"]
        /\ assets' = assets /\ Done(c)
    BY <1>4 DEF DropLocation
  <2>2. ASSUME NEW i \in ItemId
        PROVE  Written(w)[i] = Cleared({l})[i]
    <3>1. CASE i \in DOMAIN w BY <1>3, <3>1 DEF Written, Cleared, Emptied, Live
    <3>2. CASE i \notin DOMAIN w
      <4>1. IsRow(items[i]) => items[i].location # l BY <1>4, <3>2 DEF View
      <4> QED BY <3>2, <4>1 DEF Written, Cleared, Live
    <3> QED BY <3>1, <3>2
  <2>3. Written(w) = Cleared({l}) BY <2>2 DEF Written, Cleared
  <2>4. UniqueIndexes(Cleared({l})) BY <2>3 DEF TxnInv, ViewsAreUnique
  <2>5. locations' = [k \in Location |-> IF k \in {l} THEN "gone" ELSE locations[k]]
    BY <1>1, <2>1 DEF TypeOK
  <2>6. DeleteLocations({l}) BY <1>3, <2>1, <2>3, <2>4, <2>5 DEF DeleteLocations
  <2>7. Next BY <1>2, <2>6 DEF Next
  <2>8. KeysAreKnown(c) BY <2>1 DEF KeysAreKnown
  <2>9. Considerate(c)
    <3>1. ASSUME NEW i \in ItemId, items'[i] # items[i]
          PROVE  /\ itemLock[i] \in {c, Nobody}
                 /\ items'[i] # Unused /\ items[i] # Deleted
                 /\ IsRow(items[i]) /\ items[i].asset = items'[i].asset
      <4>1. i \in DOMAIN w /\ items'[i] = Emptied(items[i]) BY <1>3, <2>1, <3>1 DEF Written
      <4>2. items[i] \in Row BY <1>1, <1>3, <4>1, LiveRows DEF Live
      <4>3. items'[i] \in Row /\ items'[i].asset = items[i].asset
        <5>1. PICK x : x = items'[i] OBVIOUS
        <5>2. x \in Row /\ x.asset = items[i].asset
          BY <4>1, <4>2, <5>1 DEF Emptied, Row, LocationField
        <5> QED BY <5>1, <5>2
      <4> QED BY <1>3, <4>1, <4>3, TombstoneAssumption DEF IsRow
    <3>2. \A k \in Location : locations'[k] # locations[k] => locationLock[k] = c
      BY <1>3, <2>5
    <3> QED BY <2>1, <3>1, <3>2 DEF Considerate
  <2> QED BY <2>1, <2>7, <2>8, <2>9, EndingStep DEF Done
<1>5. CASE ~(\A i \in ItemId : IsRow(View(c, i)) => View(c, i).location # l)
  <2>1. Refuse(c, "conflict") BY <1>5 DEF DropLocation
  <2> QED BY <2>1, RefusingStep
<1> QED BY <1>4, <1>5

\* create_location.
LEMMA AddLocationKeeps ==
    ASSUME TxnInv, NEW c \in Client, AddLocation(c)
    PROVE  TxnInv' /\ [Next]_vars /\ KeysAreKnown(c)
<1>1. PICK l \in Location : /\ locations[l] = "unborn"
                            /\ locations' = [locations EXCEPT ![l] = "present"]
  BY DEF AddLocation
<1>2. items' = items /\ assets' = assets /\ Done(c) BY DEF AddLocation
<1>3. CreateLocation(l) BY <1>1, <1>2 DEF CreateLocation
<1>4. Next BY <1>3 DEF Next
<1>5. TypeOK BY DEF TxnInv, IndInv
<1>6. Considerate(c) BY <1>1, <1>2, <1>5 DEF Considerate, TypeOK
<1>7. KeysAreKnown(c) BY <1>2 DEF KeysAreKnown, SameKey
<1> QED BY <1>2, <1>4, <1>6, <1>7, EndingStep DEF Done

\* The database breaks a deadlock.
LEMMA AbortDeadlockedKeeps ==
    ASSUME TxnInv, NEW c \in Client, AbortDeadlocked(c)
    PROVE  TxnInv' /\ UNCHANGED vars
  BY RefusingStep DEF AbortDeadlocked

-----------------------------------------------------------------------------
\* The commit of rows that the client has written: they were there, of the same
\* asset, or the asset is locked or has other rows.
LEMMA CommittingStep ==
    ASSUME TxnInv, NEW c \in Client, CommitWork(c), [Next]_vars,
           \A i \in DOMAIN writes[c] :
              \/ IsRow(items[i]) /\ items[i].asset = writes[c][i].asset
              \/ /\ items[i] = Unused
                 /\ \/ assetLock[writes[c][i].asset] = c
                    \/ LiveOf(writes[c][i].asset) # {},
           txn[c].request.op \in {"createAsset", "setMode"} => assetLock[txn[c].request.asset] = c
    PROVE  TxnInv' /\ KeysAreKnown(c)
<1>1. /\ items' = Written(writes[c]) /\ locations' = locations /\ Done(c)
      /\ assets' = IF txn[c].request.op \in {"createAsset", "setMode"}
                   THEN [assets EXCEPT ![txn[c].request.asset] = txn[c].request.mode]
                   ELSE assets
  BY DEF CommitWork
<1>2. TxnTypeOK /\ TypeOK BY DEF TxnInv, IndInv
<1>3. KeysAreKnown(c) BY <1>1 DEF KeysAreKnown
<1>4. ASSUME NEW i \in ItemId, items'[i] # items[i]
      PROVE  /\ itemLock[i] \in {c, Nobody}
             /\ items'[i] # Unused /\ items[i] # Deleted
             /\ IsRow(items'[i]) =>
                  \/ IsRow(items[i]) /\ items[i].asset = items'[i].asset
                  \/ assetLock[items'[i].asset] = c \/ LiveOf(items'[i].asset) # {}
  <2>1. i \in DOMAIN writes[c] /\ items'[i] = writes[c][i] BY <1>1, <1>4 DEF Written
  <2>2. itemLock[i] = c BY <2>1 DEF TxnInv, WritesAreLocked
  <2>3. items'[i] \in Row BY <1>2, <2>1, TxnsAre
  <2> QED BY <2>1, <2>2, <2>3, TombstoneAssumption DEF IsRow
<1>5. \A a \in Asset : assets'[a] # assets[a] => assetLock[a] = c
  BY <1>1, <1>2 DEF TypeOK
<1>6. Considerate(c) BY <1>1, <1>4, <1>5 DEF Considerate
<1> QED BY <1>1, <1>3, <1>6, EndingStep DEF Done

\* The rows that client c has written, as the commit finds them.
LEMMA WrittenRows ==
    ASSUME TxnInv, NEW c \in Client
    PROVE  /\ DOMAIN writes[c] \subseteq ItemId
           /\ \A i \in DOMAIN writes[c] :
                writes[c][i] \in Row /\ Written(writes[c])[i] = writes[c][i]
           /\ writes[c] \in [DOMAIN writes[c] -> Row]
           /\ UniqueIndexes(Written(writes[c])) /\ DOMAIN Written(writes[c]) = ItemId
           /\ \A i \in ItemId : i \notin DOMAIN writes[c] => Written(writes[c])[i] = items[i]
<1>1. TxnTypeOK BY DEF TxnInv
<1>2. /\ DOMAIN writes[c] \subseteq ItemId
      /\ \A i \in DOMAIN writes[c] : writes[c][i] \in Row
      /\ writes[c] = [i \in DOMAIN writes[c] |-> writes[c][i]]
  BY <1>1, TxnsAre
<1>3. UniqueIndexes(Written(writes[c])) BY DEF TxnInv, ViewsAreUnique
<1> QED BY <1>2, <1>3 DEF Written

\* update_inventory_item and batch_update_inventory_items commit.
LEMMA CommitPatchKeeps ==
    ASSUME TxnInv, NEW c \in Client, CommitWork(c), txn[c].request.op = "patch"
    PROVE  TxnInv' /\ [Next]_vars /\ KeysAreKnown(c)
<1> DEFINE r == txn[c].request
           p == txn[c].request.patch
           w == writes[c]
<1>0. At(c, "commit") BY DEF CommitWork
<1>1. /\ TxnTypeOK /\ TypeOK /\ IndInv /\ r \in Requests /\ txn[c].step = "commit" /\ PatchFits(c)
  <2>1. /\ TxnTypeOK /\ TypeOK /\ IndInv /\ r \in Requests /\ Fits(c) /\ txn[c].step = "commit"
    BY <1>0, Running
  <2> QED BY <2>1 DEF Fits, Opened
<1>2. /\ r.ids \subseteq ItemId /\ r.ids # {} /\ p \in Patch
      /\ \/ \E i \in ItemId : r.ids = {i}
         \/ p.serial = Keep /\ p.onHand = Keep /\ p.allocated = Keep
  BY <1>1, PatchesAre
<1>3. /\ DOMAIN w = r.ids /\ \A i \in r.ids : Holds(c, i)
      /\ \A i \in r.ids : /\ Patchable(items[i], p) /\ w[i] = PatchRow(items[i], p)
                          /\ w[i].allocated <= w[i].onHand /\ Placed(c, w[i].location)
  BY <1>1 DEF PatchFits
<1>4. items' = Written(w) /\ UNCHANGED <<assets, locations>> BY DEF CommitWork
<1>5. UniqueIndexes(Written(w)) BY WrittenRows
<1>6. ASSUME NEW i \in r.ids
      PROVE  /\ i \in Live /\ items[i] \in Row /\ IsRow(items[i])
             /\ w[i] \in StorableRows(items[i].asset, items[i].mode)
             /\ w[i].asset = items[i].asset /\ ValidLocation(w[i].location)
  <2>1. /\ i \in Live /\ items[i] \in Row
        /\ items[i] \in WellFormed(items[i].asset, items[i].mode)
    BY <1>1, <1>2, <1>3, HeldRows
  <2>2. items[i].asset \in Asset /\ items[i].mode \in Mode BY <2>1 DEF Row
  <2>3. w[i] \in WellFormed(items[i].asset, items[i].mode) /\ w[i].asset = items[i].asset
    BY <1>2, <1>3, <2>1, <2>2, PatchRowIs
  <2>4. ValidLocation(w[i].location) BY <1>3 DEF Placed
  <2> QED BY <1>3, <2>1, <2>3, <2>4 DEF StorableRows, Holds
<1>7. r.ids \in SUBSET Live BY <1>6
<1>8. Next
  <2>1. CASE \E i \in ItemId : r.ids = {i}
    <3>1. PICK i \in ItemId : r.ids = {i} BY <2>1
    <3>2. Written(w) = [items EXCEPT ![i] = w[i]] BY <1>1, <1>3, <3>1 DEF Written, TypeOK
    <3>3. UpdateItem(i, w[i]) BY <1>4, <1>5, <3>2 DEF UpdateItem
    <3>4. i \in Live /\ w[i] \in StorableRows(items[i].asset, items[i].mode) BY <1>6, <3>1
    <3>5. ChangeItems BY <3>3, <3>4 DEF ChangeItems
    <3> QED BY <3>5 DEF Next
  <2>2. CASE p.serial = Keep /\ p.onHand = Keep /\ p.allocated = Keep
    <3>1. PICK q : q = [batch |-> p.batch, location |-> p.location, status |-> p.status]
      OBVIOUS
    <3>2. q \in BatchPatch BY <1>2, <3>1 DEF Patch, BatchPatch
    <3>3. ASSUME NEW i \in r.ids
          PROVE  w[i] = Patched(items[i], q)
      <4>1. items[i] \in Row /\ w[i] = PatchRow(items[i], p) BY <1>3, <1>6
      <4>2. PICK b, l, s : b = Resolve(p.batch, items[i].batch)
                           /\ l = Resolve(p.location, items[i].location)
                           /\ s = Resolve(p.status, items[i].status)
        OBVIOUS
      <4>3. w[i] = [items[i] EXCEPT !.serial = items[i].serial, !.batch = b, !.location = l,
                                    !.status = s, !.onHand = items[i].onHand,
                                    !.allocated = items[i].allocated]
        BY <2>2, <4>1, <4>2 DEF PatchRow, Resolve
      <4>4. Patched(items[i], q) = [items[i] EXCEPT !.batch = b, !.location = l, !.status = s]
        BY <3>1, <4>2 DEF Patched, Resolve
      <4> QED BY <4>1, <4>3, <4>4 DEF Row
    <3> DEFINE rowOf == [i \in r.ids |-> Patched(items[i], q)]
    <3>4. Written(w) = Written(rowOf) BY <1>3, <3>3 DEF Written
    <3>5. \A i \in r.ids : ValidLocation(rowOf[i].location) BY <1>6, <3>3
    <3>6. BatchUpdate(r.ids, q) BY <1>4, <1>5, <3>4, <3>5 DEF BatchUpdate
    <3>7. ChangeItems BY <1>2, <1>7, <3>2, <3>6 DEF ChangeItems
    <3> QED BY <3>7 DEF Next
  <2> QED BY <1>2, <2>1, <2>2
<1>9. \A i \in DOMAIN writes[c] : IsRow(items[i]) /\ items[i].asset = writes[c][i].asset
  BY <1>3, <1>6
<1> QED BY <1>8, <1>9, CommittingStep

\* split_inventory_item commits, with a new row.
LEMMA CommitSplitKeeps ==
    ASSUME TxnInv, NEW c \in Client, CommitWork(c), txn[c].request.op = "split"
    PROVE  TxnInv' /\ [Next]_vars /\ KeysAreKnown(c)
<1> DEFINE r == txn[c].request
           n == txn[c].target
           part == PartOf(items[r.id], r)
           w == writes[c]
<1>0. At(c, "commit") BY DEF CommitWork
<1>1. /\ TxnTypeOK /\ TypeOK /\ IndInv /\ r \in Requests /\ txn[c].step = "commit" /\ SplitFits(c)
  <2>1. /\ TxnTypeOK /\ TypeOK /\ IndInv /\ r \in Requests /\ Fits(c) /\ txn[c].step = "commit"
    BY <1>0, Running
  <2> QED BY <2>1 DEF Fits, Opened
<1>2. r.id \in ItemId /\ r.quantity \in 1..MaxQuantity BY <1>1, SplitsAre
<1>3. /\ Holds(c, r.id) /\ Splittable(r.id, r.quantity)
      /\ Placed(c, part.location) /\ ~SameAggregate(items[r.id], part)
      /\ n \in ItemId \ {r.id} /\ items[n] = Unused
      /\ w = [i \in {r.id, n} |-> IF i = r.id THEN Reduced(items[r.id], r.quantity) ELSE part]
  BY <1>1 DEF SplitFits
<1>4. r.id \in Live /\ items[r.id] \in Row BY <1>1, <1>2, <1>3, HeldRows
<1>5. PICK b \in BatchField, l \in LocationField, s \in Status :
         /\ part = [items[r.id] EXCEPT !.batch = b, !.location = l, !.status = s,
                                       !.onHand = r.quantity, !.allocated = 0]
         /\ part.location = l
  BY <1>1, <1>4, SplitIs
<1>6. items' = Written(w) /\ UNCHANGED <<assets, locations>> BY DEF CommitWork
<1>7. part \in Row BY <1>1, <1>4, PartIs
<1> HIDE DEF part, n
<1>8. /\ DOMAIN w = {r.id, n} /\ w[r.id] = [items[r.id] EXCEPT !.onHand = @ - r.quantity]
      /\ w[n] = part
  BY <1>3 DEF Reduced
<1>9. Written(w) = [items EXCEPT ![r.id].onHand = @ - r.quantity, ![n] = part]
  BY <1>1, <1>2, <1>3, <1>8 DEF Written, TypeOK
<1>10. {t \in Live \ {r.id} : SameAggregate(items[t], part)} = {}
  <2> SUFFICES ASSUME NEW t \in Live \ {r.id} PROVE ~SameAggregate(items[t], part)
    OBVIOUS
  <2>1. /\ t \in ItemId /\ t # n /\ t \notin DOMAIN w /\ IsRow(items[t])
    BY <1>3, <1>8 DEF Live, IsRow
  <2>2. Written(w)[t] = items[t] /\ Written(w)[n] = part /\ IsRow(part)
    BY <1>3, <1>7, <1>8, <2>1, TombstoneAssumption DEF Written, IsRow
  <2>3. ~Clash(items[t], part) BY <1>3, <2>1, <2>2, WrittenRows DEF UniqueIndexes
  <2> QED BY <2>3 DEF Clash
<1>11. ValidLocation(l) /\ n \in Fresh BY <1>3, <1>5 DEF Placed, Fresh
<1>12. Split(r.id, r.quantity, b, l, s)
  BY <1>3, <1>5, <1>6, <1>9, <1>10, <1>11 DEF Split
<1>13. ChangeItems BY <1>2, <1>4, <1>12 DEF ChangeItems
<1>14. Next BY <1>13 DEF Next
<1>15. ASSUME NEW i \in DOMAIN writes[c]
       PROVE  \/ IsRow(items[i]) /\ items[i].asset = writes[c][i].asset
              \/ items[i] = Unused /\ LiveOf(writes[c][i].asset) # {}
  <2>1. CASE i = r.id BY <1>3, <1>4, <1>8, <2>1 DEF Row, Holds
  <2>2. CASE i = n
    <3>1. part.asset = items[r.id].asset BY <1>4, <1>5 DEF Row
    <3>2. r.id \in LiveOf(part.asset) BY <1>4, <3>1 DEF LiveOf
    <3> QED BY <1>3, <1>8, <2>2, <3>2
  <2> QED BY <1>8, <2>1, <2>2
<1> QED BY <1>14, <1>15, CommittingStep

\* The rows that a request wants are of its asset.
LEMMA WantedAsset ==
    ASSUME NEW r \in Requests, NEW row \in Row, Wanted(r, row),
           r.op \in {"createQuantity", "createSerialized", "generateSerialized", "createAsset"}
    PROVE  row.asset = r.asset
<1>0. r.asset \in Asset BY CreatesAre, AssetRequestsAre
<1>1. CASE r.op = "createQuantity"
  <2>1. r.row \in WellFormed(r.asset, "quantity") /\ "quantity" \in Mode
    BY <1>1, CreatesAre DEF Mode
  <2>2. r.row.asset = r.asset BY <1>0, <2>1, WellFormedRow
  <2> QED BY <1>1, <2>2 DEF Wanted
<1>2. CASE r.op = "createAsset"
  <2>1. row \in WellFormed(r.asset, r.mode) /\ r.mode \in Mode
    BY <1>2, AssetRequestsAre DEF Wanted
  <2> QED BY <1>0, <2>1, WellFormedRow
<1>3. CASE r.op \in {"createSerialized", "generateSerialized"}
  <2>1. r.row \in Row /\ r.row.asset = r.asset BY <1>3, TemplatesAre
  <2>2. row = [r.row EXCEPT !.serial = row.serial] BY <1>3 DEF Wanted
  <2>3. PICK n : n = row.serial OBVIOUS
  <2>4. row = [r.row EXCEPT !.serial = n] BY <2>2, <2>3
  <2> QED BY <2>1, <2>4 DEF Row
<1> QED BY <1>1, <1>2, <1>3

\* What a request to create rows has written when it commits.
LEMMA CreatedRows ==
    ASSUME TxnInv, NEW c \in Client, At(c, "commit"),
           txn[c].request.op \in {"createQuantity", "createSerialized", "generateSerialized",
                                  "createAsset"}
    PROVE  /\ TypeOK /\ txn[c].request \in Requests /\ CreateFits(c)
           /\ txn[c].request.asset \in Asset
           /\ assetLock[txn[c].request.asset] = c
           /\ txn[c].step = "commit"
           /\ DOMAIN writes[c] \in SUBSET Fresh
           /\ \A i \in DOMAIN writes[c] :
                /\ i \in ItemId /\ items[i] = Unused
                /\ writes[c][i] \in Row /\ Wanted(txn[c].request, writes[c][i])
                /\ ValidLocation(writes[c][i].location)
                /\ writes[c][i].asset = txn[c].request.asset
<1> DEFINE r == txn[c].request
<1>1. /\ TxnTypeOK /\ TypeOK /\ r \in Requests /\ txn[c].step = "commit" /\ CreateFits(c)
  <2>1. TxnTypeOK /\ TypeOK /\ r \in Requests /\ Fits(c) /\ txn[c].step = "commit" BY Running
  <2> QED BY <2>1 DEF Fits, Opened
<1>2. r.asset \in Asset BY <1>1, CreatesAre, AssetRequestsAre
<1>3. /\ assetLock[r.asset] = c
      /\ \A i \in DOMAIN writes[c] :
            items[i] = Unused /\ Wanted(r, writes[c][i]) /\ Placed(c, writes[c][i].location)
  BY <1>1 DEF CreateFits
<1>4. \A row \in Row : Wanted(r, row) => row.asset = r.asset BY <1>1, WantedAsset
<1>5. \A i \in DOMAIN writes[c] : i \in ItemId /\ writes[c][i] \in Row BY WrittenRows
<1>6. DOMAIN writes[c] \in SUBSET Fresh BY <1>3, <1>5 DEF Fresh
<1> QED BY <1>1, <1>2, <1>3, <1>4, <1>5, <1>6 DEF Placed

\* create_inventory_items commits, with a row of a quantity asset.
LEMMA CommitQuantityKeeps ==
    ASSUME TxnInv, NEW c \in Client, CommitWork(c), txn[c].request.op = "createQuantity"
    PROVE  TxnInv' /\ [Next]_vars /\ KeysAreKnown(c)
<1> DEFINE r == txn[c].request
           w == writes[c]
<1>0. At(c, "commit") BY DEF CommitWork
<1>1. /\ r \in Requests /\ CreateFits(c) /\ r.asset \in Asset
      /\ assetLock[r.asset] = c /\ txn[c].step = "commit"
      /\ DOMAIN w \in SUBSET Fresh
      /\ \A i \in DOMAIN w : /\ i \in ItemId /\ items[i] = Unused /\ Wanted(r, w[i])
                             /\ ValidLocation(w[i].location) /\ w[i].asset = r.asset
  BY <1>0, CreatedRows
<1>2. r.row \in WellFormed(r.asset, "quantity") /\ "quantity" \in Mode
  BY <1>1, CreatesAre DEF Mode
<1>3. r.row.mode = "quantity" BY <1>1, <1>2, WellFormedRow
<1>4. PICK i \in ItemId : DOMAIN w = {i} BY <1>1 DEF CreateFits
<1>5. assets[r.asset] = "quantity" /\ w[i] = r.row BY <1>1, <1>3, <1>4 DEF CreateFits, Wanted
<1>6. w[i] \in StorableRows(r.asset, "quantity") /\ i \in Fresh
  BY <1>1, <1>2, <1>4, <1>5 DEF StorableRows
<1>7. Written(w) = Written([k \in {i} |-> w[i]]) BY <1>4 DEF Written
<1>8. items' = Written(w) /\ UNCHANGED <<assets, locations>> BY DEF CommitWork
<1>9. UniqueIndexes(Written(w)) BY WrittenRows
<1>10. CreateQuantityItem(r.asset, i, w[i]) BY <1>5, <1>7, <1>8, <1>9 DEF CreateQuantityItem
<1>11. CreateItems BY <1>1, <1>6, <1>10 DEF CreateItems
<1>12. Next BY <1>11 DEF Next
<1> QED BY <1>1, <1>12, CommittingStep

\* create_inventory_items commits, with rows of a serialized asset.
LEMMA CommitSerializedKeeps ==
    ASSUME TxnInv, NEW c \in Client, CommitWork(c),
           txn[c].request.op \in {"createSerialized", "generateSerialized"}
    PROVE  TxnInv' /\ [Next]_vars /\ KeysAreKnown(c)
<1> DEFINE r == txn[c].request
           w == writes[c]
           I == DOMAIN writes[c]
           numberOf == [i \in DOMAIN writes[c] |-> writes[c][i].serial]
<1>0. At(c, "commit") BY DEF CommitWork
<1>1. /\ r \in Requests /\ CreateFits(c) /\ r.asset \in Asset
      /\ assetLock[r.asset] = c /\ txn[c].step = "commit"
      /\ I \in SUBSET Fresh
      /\ \A i \in I : /\ i \in ItemId /\ items[i] = Unused /\ Wanted(r, w[i]) /\ w[i] \in Row
                      /\ ValidLocation(w[i].location) /\ w[i].asset = r.asset
  BY <1>0, CreatedRows
<1>2. /\ r.row \in Row /\ r.row.mode = "serialized" BY <1>1, TemplatesAre
<1>3. PICK b \in BatchField, l \in LocationField, s \in Status :
         r.row = SerializedRow(r.asset, NoSerial, b, l, s)
  BY <1>1, TemplatesAre
<1>4. assets[r.asset] = "serialized" BY <1>1, <1>2 DEF CreateFits
<1>5. I # {}
  <2>1. w # NoWrites BY <1>1 DEF CreateFits
  <2>2. w = [i \in I |-> w[i]] BY TxnsAre DEF TxnInv
  <2>3. I = {} => w = NoWrites BY <2>2 DEF NoWrites
  <2> QED BY <2>1, <2>3
<1>6. ASSUME NEW i \in I
      PROVE  /\ w[i].serial \in HandSerial \cup 0..MaxSerial
             /\ w[i] = SerializedRow(r.asset, w[i].serial, b, l, s)
             /\ w[i].location = l
  <2>1. PICK n : n = w[i].serial OBVIOUS
  <2>2. n \in HandSerial \cup 0..MaxSerial /\ w[i] = [r.row EXCEPT !.serial = n]
    BY <1>1, <2>1 DEF Wanted
  <2>3. w[i] = SerializedRow(r.asset, n, b, l, s) BY <1>3, <2>2 DEF SerializedRow
  <2>4. w[i].location = l BY <2>3 DEF SerializedRow
  <2> QED BY <2>1, <2>2, <2>3, <2>4
<1>7. ValidLocation(l) BY <1>1, <1>5, <1>6
<1>8. numberOf \in NumbersFor(I)
  <2>1. ASSUME NEW i \in I, NEW j \in I, i # j
        PROVE  w[i].serial # w[j].serial
    <3>1. /\ Written(w)[i] = w[i] /\ Written(w)[j] = w[j] /\ i \in ItemId /\ j \in ItemId
          /\ IsRow(w[i]) /\ IsRow(w[j])
      BY <1>1, WrittenRows, TombstoneAssumption DEF IsRow
    <3>2. ~SameSerial(w[i], w[j])
      BY <2>1, <3>1, WrittenRows DEF UniqueIndexes, Clash
    <3>3. w[i].serial # NoSerial BY <1>6, NumbersAreSerials
    <3> QED BY <1>1, <3>2, <3>3 DEF SameSerial
  <2>2. numberOf \in [I -> HandSerial \cup 0..MaxSerial] BY <1>6
  <2> QED BY <2>1, <2>2 DEF NumbersFor
<1> DEFINE rowOf == [i \in DOMAIN numberOf |-> SerializedRow(r.asset, numberOf[i], b, l, s)]
<1>9. Written(rowOf) = Written(w) BY <1>6 DEF Written
<1>10. items' = Written(w) /\ UNCHANGED <<assets, locations>> BY DEF CommitWork
<1>11. UniqueIndexes(Written(w)) BY WrittenRows
<1>12. CreateSerializedItems(r.asset, numberOf, b, l, s)
  BY <1>4, <1>7, <1>9, <1>10, <1>11 DEF CreateSerializedItems
<1> HIDE DEF numberOf
<1>13. CreateItems BY <1>1, <1>3, <1>5, <1>8, <1>12 DEF CreateItems
<1>14. Next BY <1>13 DEF Next
<1> QED BY <1>1, <1>14, CommittingStep

\* create_asset commits, with the rows of its payload.
LEMMA CommitAssetKeeps ==
    ASSUME TxnInv, NEW c \in Client, CommitWork(c), txn[c].request.op = "createAsset"
    PROVE  TxnInv' /\ [Next]_vars /\ KeysAreKnown(c)
<1> DEFINE r == txn[c].request
           w == writes[c]
           I == DOMAIN writes[c]
<1>0. At(c, "commit") BY DEF CommitWork
<1>1. /\ r \in Requests /\ CreateFits(c) /\ r.asset \in Asset
      /\ assetLock[r.asset] = c /\ txn[c].step = "commit"
      /\ I \in SUBSET Fresh
      /\ \A i \in I : /\ i \in ItemId /\ items[i] = Unused /\ Wanted(r, w[i]) /\ w[i] \in Row
                      /\ ValidLocation(w[i].location) /\ w[i].asset = r.asset
  BY <1>0, CreatedRows
<1>2. r.mode \in Mode BY <1>1, AssetRequestsAre
<1>3. assets[r.asset] = "unborn" BY <1>1 DEF CreateFits
<1>4. \A i \in I : w[i] \in StorableRows(r.asset, r.mode) BY <1>1 DEF Wanted, StorableRows
<1>5. w \in [I -> StorableRows(r.asset, r.mode)] BY <1>4, WrittenRows
<1>6. /\ items' = Written(w) /\ locations' = locations
      /\ assets' = [assets EXCEPT ![r.asset] = r.mode]
  BY DEF CommitWork
<1>7. UniqueIndexes(Written(w)) BY WrittenRows
<1>8. CreateAsset(r.asset, r.mode, w) BY <1>3, <1>6, <1>7 DEF CreateAsset
<1>9. CreateAssets BY <1>1, <1>2, <1>3, <1>5, <1>8 DEF CreateAssets
<1>10. Next BY <1>9 DEF Next
<1> QED BY <1>1, <1>10, CommittingStep

\* update_asset commits: the mode stays, or the asset has no rows.
LEMMA CommitModeKeeps ==
    ASSUME TxnInv, NEW c \in Client, CommitWork(c), txn[c].request.op = "setMode"
    PROVE  TxnInv' /\ [Next]_vars /\ KeysAreKnown(c)
<1> DEFINE r == txn[c].request
<1>0. At(c, "commit") BY DEF CommitWork
<1>1. /\ TypeOK /\ r \in Requests /\ txn[c].step = "commit" /\ OwnerFits(c)
  <2>1. TypeOK /\ r \in Requests /\ Fits(c) /\ txn[c].step = "commit" BY <1>0, Running
  <2> QED BY <2>1 DEF Fits, Opened
<1>2. r.asset \in Asset /\ r.mode \in Mode BY <1>1, AssetRequestsAre
<1>3. /\ writes[c] = NoWrites /\ assetLock[r.asset] = c /\ assets[r.asset] \in Mode
      /\ assets[r.asset] = r.mode \/ LiveOf(r.asset) = {}
  BY <1>1 DEF OwnerFits
<1>4. /\ items' = Written(writes[c]) /\ locations' = locations
      /\ assets' = [assets EXCEPT ![r.asset] = r.mode]
  BY DEF CommitWork
<1>5. items' = items BY <1>1, <1>3, <1>4 DEF Written, NoWrites, TypeOK
<1>6. [Next]_vars
  <2>1. CASE assets[r.asset] = r.mode
    <3>1. assets' = assets BY <1>1, <1>4, <2>1 DEF TypeOK
    <3> QED BY <1>4, <1>5, <3>1 DEF vars
  <2>2. CASE LiveOf(r.asset) = {}
    <3>1. ChangeTrackingMode(r.asset, r.mode)
      BY <1>3, <1>4, <1>5, <2>2 DEF ChangeTrackingMode
    <3> QED BY <1>2, <3>1 DEF Next
  <2> QED BY <1>3, <2>1, <2>2
<1>7. DOMAIN writes[c] = {} BY <1>3 DEF NoWrites
<1> QED BY <1>3, <1>6, <1>7, CommittingStep

\* The commit of any request that commits in a step of its own.
LEMMA CommitWorkKeeps ==
    ASSUME TxnInv, NEW c \in Client, CommitWork(c)
    PROVE  TxnInv' /\ [Next]_vars /\ KeysAreKnown(c)
<1>1. txn[c].request.op \in {"patch", "split", "createQuantity", "createSerialized",
                             "generateSerialized", "createAsset", "setMode"}
  <2>1. At(c, "commit") BY DEF CommitWork
  <2>2. txn[c].request \in Requests /\ "commit" \in StepsOf(txn[c].request.op) BY <2>1, Running
  <2> QED BY <2>2, OpsOfSteps
<1> QED BY <1>1, CommitPatchKeeps, CommitSplitKeeps, CommitQuantityKeeps, CommitSerializedKeeps,
           CommitAssetKeeps, CommitModeKeeps

-----------------------------------------------------------------------------
\* Nobody is served before the first request.
LEMMA InitTxnInv == TxnInit => TxnInv
<1> SUFFICES ASSUME TxnInit PROVE TxnInv OBVIOUS
<1> USE DEF TxnInit
<1>1. IndInv BY InitIndInv
<1>2. TxnTypeOK
  <2>1. NoWrites \in [{} -> Row] BY DEF NoWrites
  <2>2. NoWrites \in UNION {[S -> Row] : S \in SUBSET ItemId} BY <2>1
  <2> QED BY <2>2, IdleIs DEF TxnTypeOK
<1>3. DOMAIN NoWrites = {} BY DEF NoWrites
<1>4. WritesAreLocked /\ NoRivalWrites BY <1>3 DEF WritesAreLocked, NoRivalWrites
<1>5. ViewsAreUnique BY <1>3 DEF ViewsAreUnique, UniqueIndexes, Written, Init, IsRow
<1>6. ASSUME NEW c \in Client PROVE Fits(c)
  <2>1. txn[c] = Idle /\ writes[c] = NoWrites /\ \A i \in ItemId : itemLock[i] # c
    BY ClientAssumption
  <2> QED BY <2>1, IdleIs DEF Fits, Opened
<1> QED BY <1>1, <1>2, <1>4, <1>5, <1>6 DEF TxnInv

\* A step of one client.
LEMMA ClientKeepsTxnInv ==
    ASSUME TxnInv, NEW c \in Client, Begin(c) \/ Statements(c)
    PROVE  TxnInv' /\ [Next]_vars /\ KeysAreKnown(c)
<1>1. CASE Begin(c) BY <1>1, BeginKeeps, NoKeyIsNew
<1>2. CASE LockNamed(c) BY <1>2, LockNamedKeeps, NoKeyIsNew
<1>3. CASE CheckFound(c) BY <1>3, CheckFoundKeeps, NoKeyIsNew
<1>4. CASE PreparePatch(c) BY <1>4, PreparePatchKeeps, NoKeyIsNew
<1>5. CASE PrepareSplit(c) BY <1>5, PrepareSplitKeeps, NoKeyIsNew
<1>6. CASE ValidateRow(c) BY <1>6, ValidateRowKeeps, NoKeyIsNew
<1>7. CASE WriteRow(c) BY <1>7, WriteRowKeeps, NoKeyIsNew
<1>8. CASE FindSplitTarget(c) BY <1>8, FindSplitTargetKeeps, NoKeyIsNew
<1>9. CASE TakeSplitTarget(c) BY <1>9, TakeSplitTargetKeeps
<1>10. CASE FoldRows(c) BY <1>10, FoldRowsKeeps, NoKeyIsNew
<1>11. CASE EraseRows(c) BY <1>11, EraseRowsKeeps
<1>12. CASE LockAssetRow(c) BY <1>12, LockAssetRowKeeps, NoKeyIsNew
<1>13. CASE DrawNumbers(c) BY <1>13, DrawNumbersKeeps, NoKeyIsNew
<1>14. CASE InsertRow(c) BY <1>14, InsertPartKeeps, InsertNewKeeps, NoKeyIsNew
<1>15. CASE CheckReference(c) BY <1>15, CheckReferenceKeeps, NoKeyIsNew
<1>16. CASE RetagAsset(c) BY <1>16, RetagAssetKeeps, NoKeyIsNew
<1>17. CASE ScanAsset(c) BY <1>17, ScanAssetKeeps, NoKeyIsNew
<1>18. CASE ScanLocation(c) BY <1>18, ScanLocationKeeps, NoKeyIsNew
<1>19. CASE PickNext(c) BY <1>19, PickNextKeeps, NoKeyIsNew
<1>20. CASE LockScanned(c) BY <1>20, LockScannedKeeps, NoKeyIsNew
<1>21. CASE ClearRow(c) BY <1>21, ClearRowKeeps, NoKeyIsNew
<1>22. CASE EraseAsset(c) BY <1>22, EraseAssetKeeps
<1>23. CASE LockLocationRow(c) BY <1>23, LockLocationRowKeeps, NoKeyIsNew
<1>24. CASE DropLocation(c) BY <1>24, DropLocationKeeps
<1>25. CASE AddLocation(c) BY <1>25, AddLocationKeeps
<1>26. CASE CommitWork(c) BY <1>26, CommitWorkKeeps
<1>27. CASE AbortDeadlocked(c) BY <1>27, AbortDeadlockedKeeps, NoKeyIsNew
<1> QED BY <1>1, <1>2, <1>3, <1>4, <1>5, <1>6, <1>7, <1>8, <1>9, <1>10, <1>11, <1>12, <1>13,
           <1>14, <1>15, <1>16, <1>17, <1>18, <1>19, <1>20, <1>21, <1>22, <1>23, <1>24, <1>25,
           <1>26, <1>27 DEF Statements

\* Every step keeps the invariant and is a step of the ledger or changes no table.
LEMMA NextKeepsTxnInv ==
    ASSUME TxnInv, [TxnNext]_txnVars
    PROVE  TxnInv' /\ [Next]_vars
<1>1. CASE TxnNext BY <1>1, ClientKeepsTxnInv DEF TxnNext
<1>2. CASE UNCHANGED txnVars
  <2>1. UNCHANGED <<vars, items, assets, locations, txn, writes, itemLock, assetLock, locationLock,
                    sharers, reply, menu>>
    BY <1>2 DEF txnVars, vars, locks
  <2>2. IndInv' BY <2>1, NextKeepsIndInv DEF TxnInv
  <2>3. TxnTypeOK' BY <2>1 DEF TxnInv, TxnTypeOK
  <2>4. WritesAreLocked' /\ ViewsAreUnique' /\ NoRivalWrites'
    BY <2>1 DEF TxnInv, WritesAreLocked, ViewsAreUnique, NoRivalWrites, Written, UniqueIndexes
  <2>5. ASSUME NEW c \in Client PROVE Fits(c)'
    <3>1. Apart(c) BY <2>1 DEF Apart, LiveOf, Live
    <3> QED BY <3>1, ApartFits
  <2> QED BY <2>1, <2>2, <2>3, <2>4, <2>5 DEF TxnInv
<1> QED BY <1>1, <1>2

\* What a client has locked, read and written fits the step its handler is at,
\* and the index keys that different clients have written never meet.
THEOREM TransactionInvariant == TxnSpec => []TxnInv
<1>1. TxnInv /\ [TxnNext]_txnVars => TxnInv' BY NextKeepsTxnInv
<1> QED BY InitTxnInv, <1>1, PTL DEF TxnSpec

\* The handlers implement the ledger: whatever runs between the statements of a
\* request, its commit changes the tables as one atomic request would, and every
\* other statement changes none of them.
THEOREM TransactionsImplementTheLedger == TxnSpec => ImplementsLedger
<1>1. TxnInit => Init BY DEF TxnInit
<1>2. TxnInv /\ [TxnNext]_txnVars => [UNCHANGED vars \/ Next]_vars BY NextKeepsTxnInv
<1> QED BY <1>1, <1>2, TransactionInvariant, PTL DEF TxnSpec, ImplementsLedger

\* So everything that is proved of the ledger holds of the committed tables.
THEOREM CommittedTablesAreSound ==
    TxnSpec => [](TypeOK /\ NoMergeCandidates /\ SerializedNeverAllocated /\ RowsFollowTheirAsset
                  /\ RowsStandAtPresentLocations /\ AllocatedIsOnHand)
<1>1. ImplementsLedger => Spec
  <2>1. [UNCHANGED vars \/ Next]_vars => [Next]_vars OBVIOUS
  <2> QED BY <2>1, PTL DEF ImplementsLedger, Spec
<1> QED BY <1>1, TransactionsImplementTheLedger, TypeCorrect, MergeNeverApplies, SerializedRowsAreWhole,
           RowsKeepTheirAsset, LocationsAreReferentiallySound, AllocationsAreCovered, PTL

\* .. and of the steps between them.
THEOREM CommitsConserveStock ==
    TxnSpec => StockIsConserved /\ AllocationsGoOnlyWithTheirAsset
<1>1. ImplementsLedger => Spec
  <2>1. [UNCHANGED vars \/ Next]_vars => [Next]_vars OBVIOUS
  <2> QED BY <2>1, PTL DEF ImplementsLedger, Spec
<1> QED BY <1>1, TransactionsImplementTheLedger, SplitsConserveStock, AllocationsOutliveDeletes, PTL

-----------------------------------------------------------------------------
\* Who waits for a row that it names waits for a client that has gone further
\* in the order of the ids.
LEMMA WaitingClimbs ==
    ASSUME TxnInv, NEW c \in Client, NEW d \in Client, txn[c].step = "lock", txn[d].step = "lock",
           d \in WaitsFor(c)
    PROVE  txn[c].target \in Nat /\ txn[d].target \in Nat /\ txn[c].target < txn[d].target
<1>1. LockingFits(c) /\ LockingFits(d) /\ txn[c].request \in Requests /\ txn[d].request \in Requests
  BY DEF TxnInv, Fits
<1>2. /\ NamedIds(txn[c].request) \subseteq ItemId /\ NamedIds(txn[d].request) \subseteq ItemId
  BY <1>1, NamedAreIds
<1>3. /\ txn[c].target \in ItemId /\ txn[d].target \in txn[d].left /\ txn[d].target \in ItemId
  BY <1>1, <1>2 DEF LockingFits
<1>4. itemLock[txn[c].target] = d BY DEF WaitsFor, Busy, Blockers
<1>5. txn[c].target < txn[d].target BY <1>1, <1>3, <1>4 DEF LockingFits
<1> QED BY <1>3, <1>5, OrderAssumption

\* "Locks a whole batch in id order, so two concurrent batch operations touching
\* overlapping sets cannot deadlock": in a circle of waiting requests one would
\* wait for a row below those that it holds.
THEOREM IdOrderPreventsDeadlock == TxnSpec => []OverlappingBatchesNeverDeadlock
<1>1. ASSUME TxnInv PROVE OverlappingBatchesNeverDeadlock
  <2> SUFFICES ASSUME NEW S \in SUBSET Client, Deadlocked(S), \A c \in S : txn[c].step = "lock"
               PROVE  FALSE
    BY DEF OverlappingBatchesNeverDeadlock
  <2>1. \A c \in S : \E d \in S : c \in WaitsFor(d) BY DEF Deadlocked
  <2> DEFINE T == {txn[c].target : c \in S}
  <2>2. \A c \in S : \E d \in S : txn[d].target \in Nat /\ txn[c].target \in Nat
                                  /\ txn[d].target < txn[c].target
    BY <1>1, <2>1, WaitingClimbs
  <2>3. T \in SUBSET Nat /\ T # {} BY <2>2 DEF Deadlocked
  <2>4. PICK c \in S : \A n \in T : txn[c].target <= n
    <3> HIDE DEF T
    <3>1. PICK m : m = Least(T) OBVIOUS
    <3>2. m \in T /\ \A n \in T : m <= n BY <2>3, <3>1, LeastIs
    <3> QED BY <3>2 DEF T
  <2>5. PICK d \in S : /\ txn[d].target \in Nat /\ txn[c].target \in Nat
                       /\ txn[d].target < txn[c].target
    BY <2>2
  <2>6. txn[c].target <= txn[d].target BY <2>4
  <2> QED BY <2>5, <2>6
<1> QED BY <1>1, TransactionInvariant, PTL

-----------------------------------------------------------------------------
\* The numbers that client c has drawn and not inserted yet are above those of
\* the asset's rows, but for those that a PATCH gave since, and above those of the
\* rows it has inserted, and of those it inserts first.
Ahead(c) ==
    LET t == txn[c]
    IN  HasDrawn(c) =>
          \A k \in DOMAIN t.rest :
            /\ t.rest[k].serial \in Nat
            /\ \A i \in LiveOf(t.request.asset) :
                 items[i].serial \in Nat =>
                     items[i].serial < t.rest[k].serial \/ items[i].serial \in taken[c]
            /\ \A i \in DOMAIN writes[c] :
                 writes[c][i].serial \in Nat /\ writes[c][i].serial < t.rest[k].serial
            /\ \A j \in DOMAIN t.rest : j < k => t.rest[j].serial < t.rest[k].serial

NumbersInv == \A c \in Client : Ahead(c)

\* A statement that has nothing to do with the numbers: the transaction goes on
\* to another step, or is answered.
Numberless(c) ==
    \/ \E t : /\ Go(c, t) /\ (t.step = "insert" => t.request.op # "generateSerialized")
              /\ UNCHANGED writes \/ \E w : writes' = [writes EXCEPT ![c] = w]
    \/ \E code : Answer(c, code)

\* A request that is refused.
LEMMA RefusedNumberless ==
    ASSUME NEW c, NEW code, Refuse(c, code)
    PROVE  Numberless(c)
  BY DEF Refuse, Numberless

\* Every statement but the two that draw the numbers and insert the rows.
LEMMA StatementsAreNumberless ==
    ASSUME TxnInv, NEW c \in Client, Statements(c), ~DrawNumbers(c), ~InsertRow(c)
    PROVE  Numberless(c)
<1> DEFINE t == txn[c]
           r == txn[c].request
<1>0. TxnTypeOK /\ t \in TxnRecord /\ Fits(c) BY TxnsAre DEF TxnInv
<1>a. ASSUME NEW u, Go(c, u), u.step # "insert", UNCHANGED writes
      PROVE  Numberless(c)
  BY <1>a DEF Numberless
<1>b. ASSUME Done(c) PROVE Numberless(c) BY <1>b DEF Done, Numberless
<1>1. CASE LockNamed(c)
  <2>1. txn[c].step = "lock" BY <1>1 DEF LockNamed, At
  <2> DEFINE u == ToLock(txn[c], txn[c].left \ {txn[c].target})
  <2>2. Go(c, u) /\ UNCHANGED writes BY <1>1 DEF LockNamed
  <2>3. t.left \ {t.target} \in SUBSET ItemId BY <1>0, TxnsAre
  <2>4. u.step # "insert" BY <1>0, <2>3, ToLockIs
  <2> HIDE DEF u
  <2> QED BY <1>a, <2>2, <2>4
<1>2. CASE CheckFound(c)
  <2>1. t.step = "check" BY <1>2 DEF CheckFound, At
  <2>2. r \in Requests BY <1>0, <2>1 DEF Fits
  <2> DEFINE u == [t EXCEPT !.step = r.op, !.left = NamedIds(r)]
  <2>3. u.step # "insert" BY <1>0, <2>2, OpsAre DEF TxnRecord
  <2> QED BY <1>2, <1>a, <2>3, RefusedNumberless DEF CheckFound
<1>3. CASE PreparePatch(c)
  <2> DEFINE i == Least(t.left)
             u == [t EXCEPT !.step = "validate", !.target = i,
                            !.rest = <<PatchRow(items[i], r.patch)>>]
             v == [t EXCEPT !.step = "commit"]
  <2>1. u.step = "validate" /\ v.step = "commit" BY <1>0 DEF TxnRecord
  <2> QED BY <1>3, <1>a, <2>1, RefusedNumberless DEF PreparePatch
<1>4. CASE PrepareSplit(c)
  <2> DEFINE u == [t EXCEPT !.step = "validate", !.rest = <<PartOf(items[r.id], r)>>]
  <2>1. u.step = "validate" BY <1>0 DEF TxnRecord
  <2> QED BY <1>4, <1>a, <2>1, RefusedNumberless DEF PrepareSplit
<1>5. CASE ValidateRow(c)
  <2> DEFINE u == [t EXCEPT !.step = AfterLocation(r)]
  <2>1. u.step = AfterLocation(r) /\ u.request = r BY <1>0 DEF TxnRecord
  <2>2. u.step = "insert" => u.request.op # "generateSerialized" BY <2>1 DEF AfterLocation
  <2> HIDE DEF u
  <2>3. CASE Go(c, u) /\ UNCHANGED writes BY <2>2, <2>3 DEF Numberless
  <2> QED BY <1>5, <2>3, RefusedNumberless DEF ValidateRow, u
<1>6. CASE WriteRow(c)
  <2> DEFINE next == IF r.op = "patch" THEN "patch" ELSE "pick"
             u == [t EXCEPT !.step = next, !.left = @ \ {t.target}, !.rest = <<>>]
             w == Put(writes[c], t.target, Head(t.rest))
  <2>1. u.step # "insert" BY <1>0 DEF TxnRecord
  <2>2. CASE Go(c, u) /\ writes' = [writes EXCEPT ![c] = w]
    <3> HIDE DEF u, w
    <3> QED BY <2>1, <2>2 DEF Numberless
  <2> QED BY <1>6, <2>2, RefusedNumberless DEF WriteRow
<1>7. CASE FindSplitTarget(c)
  <2>1. r.op # "generateSerialized"
    <3>1. At(c, "find") BY <1>7 DEF FindSplitTarget
    <3>2. r \in Requests /\ "find" \in StepsOf(r.op) BY <3>1, Running
    <3>3. r.op = "split" BY <3>2, OpsOfSteps
    <3> QED BY <3>3
  <2>2. PICK u : /\ Go(c, u) /\ UNCHANGED writes
                 /\ \/ \E k : u = [t EXCEPT !.step = "take", !.target = k]
                    \/ u = [t EXCEPT !.step = "insert"]
    BY <1>7 DEF FindSplitTarget
  <2>3. u.request = r BY <1>0, <2>2 DEF TxnRecord
  <2> QED BY <2>1, <2>2, <2>3 DEF Numberless
<1>8. CASE TakeSplitTarget(c)
  <2>1. r.op # "generateSerialized"
    <3>1. At(c, "take") BY <1>8 DEF TakeSplitTarget
    <3>2. r \in Requests /\ "take" \in StepsOf(r.op) BY <3>1, Running
    <3>3. r.op = "split" BY <3>2, OpsOfSteps
    <3> QED BY <3>3
  <2> DEFINE u == [t EXCEPT !.step = "insert"]
  <2>2. CASE Go(c, u) /\ UNCHANGED writes
    <3>1. u.request = r BY <1>0 DEF TxnRecord
    <3> HIDE DEF u
    <3> QED BY <2>1, <2>2, <3>1 DEF Numberless
  <2> QED BY <1>8, <1>b, <2>2 DEF TakeSplitTarget
<1>9. CASE FoldRows(c) BY <1>9, <1>b, RefusedNumberless DEF FoldRows
<1>10. CASE EraseRows(c) BY <1>10, <1>b, RefusedNumberless DEF EraseRows
<1>11. CASE LockAssetRow(c)
  <2> DEFINE u == [t EXCEPT !.step = AfterAsset(r), !.rest = RowsToCreate(r)]
  <2>1. u.step # "insert" BY <1>0 DEF TxnRecord, AfterAsset
  <2> QED BY <1>11, <1>a, <2>1, RefusedNumberless DEF LockAssetRow
<1>12. CASE CheckReference(c)
  <2> DEFINE u == [t EXCEPT !.step = "commit"]
  <2>1. u.step # "insert" BY <1>0 DEF TxnRecord
  <2> QED BY <1>12, <1>a, <2>1, RefusedNumberless DEF CheckReference
<1>13. CASE RetagAsset(c)
  <2> DEFINE u == [t EXCEPT !.step = "scanAsset"]
  <2>1. u.step # "insert" BY <1>0 DEF TxnRecord
  <2> QED BY <1>13, <1>a, <2>1, RefusedNumberless DEF RetagAsset
<1>14. CASE ScanAsset(c) \/ ScanLocation(c)
  <2>1. PICK S : Go(c, [t EXCEPT !.step = "pick", !.left = S]) /\ UNCHANGED writes
    BY <1>14 DEF ScanAsset, ScanLocation
  <2> DEFINE u == [t EXCEPT !.step = "pick", !.left = S]
  <2>2. u.step # "insert" BY <1>0 DEF TxnRecord
  <2> QED BY <1>a, <2>1, <2>2
<1>15. CASE PickNext(c)
  <2>1. PICK u, step : /\ Go(c, u) /\ UNCHANGED writes
                       /\ step \in {"commit", "erase", "drop", "clear", "relock"}
                       /\ \/ u = [t EXCEPT !.step = step]
                          \/ \E i \in t.left : u = [t EXCEPT !.step = step, !.target = i]
    BY <1>15 DEF PickNext
  <2>2. u.step = step BY <1>0, <2>1 DEF TxnRecord
  <2> QED BY <1>a, <2>1, <2>2
<1>16. CASE LockScanned(c)
  <2> DEFINE u == [t EXCEPT !.step = "pick", !.left = @ \ {t.target}]
  <2>1. u.step # "insert" BY <1>0 DEF TxnRecord
  <2> QED BY <1>16, <1>a, <2>1 DEF LockScanned
<1>17. CASE ClearRow(c)
  <2> DEFINE u == [t EXCEPT !.step = "pick", !.left = @ \ {t.target}]
             v == [t EXCEPT !.step = "write",
                            !.rest = <<[items[t.target] EXCEPT !.location = NoLocation]>>]
  <2>1. u.step # "insert" /\ v.step # "insert" BY <1>0 DEF TxnRecord
  <2>2. (Go(c, u) \/ Go(c, v)) /\ UNCHANGED writes BY <1>17 DEF ClearRow
  <2> HIDE DEF u, v
  <2> QED BY <1>a, <2>1, <2>2
<1>18. CASE EraseAsset(c) \/ AddLocation(c) \/ CommitWork(c)
  BY <1>18, <1>b DEF EraseAsset, AddLocation, CommitWork
<1>19. CASE LockLocationRow(c)
  <2> DEFINE u == [t EXCEPT !.step = "scanLocation"]
  <2>1. u.step # "insert" BY <1>0 DEF TxnRecord
  <2> QED BY <1>19, <1>a, <2>1, RefusedNumberless DEF LockLocationRow
<1>20. CASE DropLocation(c) BY <1>20, <1>b, RefusedNumberless DEF DropLocation
<1>21. CASE AbortDeadlocked(c) BY <1>21, RefusedNumberless DEF AbortDeadlocked
<1> QED BY <1>1, <1>2, <1>3, <1>4, <1>5, <1>6, <1>7, <1>8, <1>9, <1>10, <1>11, <1>12, <1>13,
           <1>14, <1>15, <1>16, <1>17, <1>18, <1>19, <1>20, <1>21 DEF Statements

\* What a step of one client leaves to the others.
LEMMA OthersStay ==
    ASSUME TxnInv, NEW c \in Client, Begin(c) \/ Statements(c), NEW d \in Client \ {c}
    PROVE  txn'[d] = txn[d] /\ writes'[d] = writes[d]
<1>0. TxnTypeOK BY DEF TxnInv
<1>1. ASSUME NEW t, Go(c, t), UNCHANGED writes \/ \E w : writes' = [writes EXCEPT ![c] = w]
      PROVE  txn'[d] = txn[d] /\ writes'[d] = writes[d]
  BY <1>0, <1>1 DEF Go, TxnTypeOK
<1>2. ASSUME NEW code, Answer(c, code)
      PROVE  txn'[d] = txn[d] /\ writes'[d] = writes[d]
  BY <1>0, <1>2 DEF Answer, TxnTypeOK
<1>3. CASE Begin(c) BY <1>0, <1>3 DEF Begin, TxnTypeOK
<1>4. CASE DrawNumbers(c)
  <2>1. (\E t : Go(c, t) /\ UNCHANGED writes) \/ Refuse(c, "error")
    BY <1>4 DEF DrawNumbers
  <2> QED BY <1>1, <1>2, <2>1 DEF Refuse
<1>5. CASE InsertRow(c)
  <2>1. \/ \E t, w : Go(c, t) /\ writes' = [writes EXCEPT ![c] = w]
        \/ Refuse(c, "conflict")
    BY <1>5 DEF InsertRow
  <2> QED BY <1>1, <1>2, <2>1 DEF Refuse
<1>6. CASE Numberless(c) BY <1>1, <1>2, <1>6 DEF Numberless
<1> QED BY <1>3, <1>4, <1>5, <1>6, StatementsAreNumberless

\* A client that has not locked an asset writes no new row of it, and no new
\* number but by a PATCH.
LEMMA WrittenNumbers ==
    ASSUME TxnInv, NEW c \in Client, NEW i \in DOMAIN writes[c],
           assetLock[writes[c][i].asset] # c, writes[c][i].serial \in Nat
    PROVE  /\ i \in ItemId /\ IsRow(items[i]) /\ items[i].asset = writes[c][i].asset
           /\ items[i].serial = writes[c][i].serial \/ txn[c].request.op = "patch"
<1> DEFINE t == txn[c]
           r == txn[c].request
           w == writes[c]
<1>1. TxnTypeOK /\ IndInv /\ Fits(c) BY DEF TxnInv
<1>2. i \in ItemId /\ w[i] \in Row BY WrittenRows
<1>3. w # NoWrites BY DEF NoWrites
<1>4. t.step # "idle" /\ Opened(c) BY <1>1, <1>3 DEF Fits, LockingFits, Opened
<1>5. r \in Requests BY <1>1, <1>4 DEF Fits
<1>6. CASE r.op = "patch"
  <2>1. PatchFits(c) BY <1>1, <1>4, <1>6 DEF Fits
  <2>2. i \in r.ids /\ Holds(c, i) /\ w[i] = PatchRow(items[i], r.patch) /\ r.patch \in Patch
        /\ Patchable(items[i], r.patch)
    BY <1>5, <1>6, <2>1, PatchesAre DEF PatchFits
  <2>3. /\ items[i] \in Row /\ items[i] \in WellFormed(items[i].asset, items[i].mode)
    BY <1>1, <1>2, <2>2, HeldRows
  <2>4. items[i].asset \in Asset /\ items[i].mode \in Mode BY <2>3 DEF Row
  <2>5. w[i].asset = items[i].asset BY <2>2, <2>3, <2>4, PatchRowIs
  <2> QED BY <1>2, <1>6, <2>2, <2>5 DEF Holds
<1>7. CASE r.op = "split"
  <2>1. SplitFits(c) BY <1>1, <1>4, <1>7 DEF Fits
  <2>2. r.id \in ItemId /\ Holds(c, r.id) BY <1>5, <1>7, <2>1, SplitsAre DEF SplitFits
  <2>3. items[r.id] \in Row /\ SoundRow(items[r.id], assets, locations)
    BY <1>1, <2>2, HeldRows
  <2>4. t.step \in {"reference", "commit"}
    BY <1>1, <1>3, <1>4, <1>7, <2>1 DEF SplitFits, Fits, StepsOf, Opened
  <2>5. /\ Splittable(r.id, r.quantity)
        /\ w = [k \in {r.id, t.target} |-> IF k = r.id THEN Reduced(items[r.id], r.quantity)
                                           ELSE PartOf(items[r.id], r)]
    BY <2>1, <2>4 DEF SplitFits
  <2>6. items[r.id].serial = NoSerial BY <2>3, <2>5 DEF Splittable, SoundRow
  <2>7. w[i] = Reduced(items[r.id], r.quantity) \/ w[i] = PartOf(items[r.id], r)
    BY <2>5
  <2>8. w[i].serial = NoSerial
    <3>1. PICK x : x = w[i] OBVIOUS
    <3>2. x.serial = items[r.id].serial BY <2>3, <2>7, <3>1 DEF Reduced, PartOf, Row
    <3> QED BY <2>6, <3>1, <3>2
  <2> QED BY <2>8, NullAssumption
<1>8. CASE r.op \in {"createQuantity", "createSerialized", "generateSerialized", "createAsset"}
  <2>1. CreateFits(c) BY <1>1, <1>4, <1>8 DEF Fits
  <2>2. Wanted(r, w[i]) /\ assetLock[r.asset] = c BY <2>1 DEF CreateFits
  <2>3. w[i].asset = r.asset BY <1>2, <1>5, <1>8, <2>2, WantedAsset
  <2> QED BY <2>2, <2>3
<1>9. CASE r.op \in {"merge", "delete", "setMode", "deleteAsset"}
  BY <1>1, <1>3, <1>4, <1>9 DEF Fits, OwnerFits
<1>10. CASE r.op = "deleteLocation"
  <2>1. LocationFits(c) BY <1>1, <1>4, <1>10 DEF Fits
  <2>2. Holds(c, i) /\ w[i] = Emptied(items[i]) BY <2>1 DEF LocationFits
  <2>3. items[i] \in Row BY <1>1, <1>2, <2>2, HeldRows
  <2>4. PICK x : x = w[i] OBVIOUS
  <2>5. x.asset = items[i].asset /\ x.serial = items[i].serial
    BY <2>2, <2>3, <2>4 DEF Emptied, Row
  <2> QED BY <1>2, <2>2, <2>4, <2>5 DEF Holds
<1>11. CASE r.op = "createLocation"
  BY <1>1, <1>4, <1>11 DEF Fits, StepsOf, Opened
<1> QED BY <1>5, <1>6, <1>7, <1>8, <1>9, <1>10, <1>11, OpsAre

\* A PATCH changes the tables when it commits.
LEMMA PatchesCommit ==
    ASSUME TxnInv, NEW c \in Client, Begin(c) \/ Statements(c), txn[c].request.op = "patch",
           ~CommitWork(c)
    PROVE  UNCHANGED items
<1>1. CASE Begin(c) BY <1>1 DEF Begin, vars
<1>2. CASE Statements(c)
  <2>1. \A step : At(c, step) /\ step # "idle" =>
           step \in {"lock", "check", "patch", "validate", "write", "commit"}
    BY Running DEF StepsOf
  <2>2. /\ ~TakeSplitTarget(c) /\ ~FoldRows(c) /\ ~EraseRows(c) /\ ~EraseAsset(c)
        /\ ~DropLocation(c)
    BY <2>1 DEF TakeSplitTarget, FoldRows, EraseRows, EraseAsset, DropLocation
  <2>3. CASE \/ LockNamed(c) \/ CheckFound(c) \/ PreparePatch(c) \/ PrepareSplit(c)
             \/ ValidateRow(c) \/ WriteRow(c) \/ FindSplitTarget(c) \/ LockAssetRow(c)
    BY <2>3 DEF LockNamed, CheckFound, PreparePatch, PrepareSplit, ValidateRow, WriteRow,
                FindSplitTarget, LockAssetRow, Go, Refuse, vars
  <2>4. CASE \/ DrawNumbers(c) \/ InsertRow(c) \/ CheckReference(c) \/ RetagAsset(c)
             \/ ScanAsset(c) \/ ScanLocation(c) \/ PickNext(c) \/ LockScanned(c) \/ ClearRow(c)
             \/ LockLocationRow(c) \/ AddLocation(c) \/ AbortDeadlocked(c)
    BY <2>4 DEF DrawNumbers, InsertRow, CheckReference, RetagAsset, ScanAsset, ScanLocation,
                PickNext, LockScanned, ClearRow, LockLocationRow, AddLocation, AbortDeadlocked,
                Go, Refuse, vars
  <2> QED BY <1>2, <2>2, <2>3, <2>4 DEF Statements
<1> QED BY <1>1, <1>2

\* So a step of another client brings no number to an asset that is locked, but
\* for the commit of a PATCH.
LEMMA NoNewNumbers ==
    ASSUME TxnInv, NEW c \in Client, Begin(c) \/ Statements(c),
           NEW a \in Asset, assetLock[a] # c, NEW i \in LiveOf(a)', items'[i].serial \in Nat
    PROVE  /\ i \in LiveOf(a)
           /\ \/ items[i].serial = items'[i].serial
              \/ CommitWork(c) /\ txn[c].request.op = "patch"
<1>1. KeysAreKnown(c) BY ClientKeepsTxnInv
<1>2. i \in ItemId /\ IsRow(items'[i]) /\ items'[i].asset = a BY DEF LiveOf, Live
<1>3. CASE items' = Written(writes[c])
  <2>1. CASE i \in DOMAIN writes[c]
    <3>1. items'[i] = writes[c][i] BY <1>2, <1>3, <2>1 DEF Written
    <3>2. /\ IsRow(items[i]) /\ items[i].asset = a
          /\ items[i].serial = items'[i].serial \/ txn[c].request.op = "patch"
      BY <1>2, <2>1, <3>1, WrittenNumbers
    <3>3. txn[c].request.op = "patch" => CommitWork(c) \/ items'[i] = items[i] BY PatchesCommit
    <3> QED BY <1>2, <3>2, <3>3 DEF LiveOf, Live
  <2>2. CASE i \notin DOMAIN writes[c]
    <3>1. items'[i] = items[i] BY <1>2, <1>3, <2>2 DEF Written
    <3> QED BY <1>2, <3>1 DEF LiveOf, Live
  <2> QED BY <2>1, <2>2
<1>4. CASE \A k \in ItemId : IsRow(items'[k]) => IsRow(items[k]) /\ SameKey(items'[k], items[k])
  <2>1. IsRow(items[i]) /\ SameKey(items'[i], items[i]) BY <1>2, <1>4
  <2> QED BY <1>2, <2>1 DEF SameKey, LiveOf, Live
<1> QED BY <1>1, <1>3, <1>4 DEF KeysAreKnown

\* A request whose numbers are drawn has the asset locked.
LEMMA DrawnFits ==
    ASSUME TxnInv, NEW d \in Client, HasDrawn(d)
    PROVE  /\ CreateFits(d) /\ txn[d].request \in Requests /\ txn[d].request.asset \in Asset
           /\ assetLock[txn[d].request.asset] = d
<1>1. Fits(d) BY DEF TxnInv
<1>2. txn[d].request \in Requests /\ CreateFits(d) BY <1>1 DEF Fits, Opened, HasDrawn
<1> QED BY <1>2, CreatesAre DEF CreateFits, HasDrawn

\* Once its numbers are drawn, a request inserts its rows, unless the database
\* aborts it.
LEMMA DrawnInsert ==
    ASSUME NEW c \in Client, HasDrawn(c), Begin(c) \/ Statements(c)
    PROVE  InsertRow(c) \/ Refuse(c, "error")
<1>1. \A step : At(c, step) => step = "insert" BY DEF HasDrawn, At
<1>2. ~Begin(c) BY DEF HasDrawn, Begin
<1>3. ~(\/ LockNamed(c) \/ CheckFound(c) \/ PreparePatch(c) \/ PrepareSplit(c) \/ ValidateRow(c)
        \/ WriteRow(c) \/ FindSplitTarget(c) \/ TakeSplitTarget(c) \/ FoldRows(c) \/ EraseRows(c)
        \/ LockAssetRow(c))
  BY <1>1 DEF LockNamed, CheckFound, PreparePatch, PrepareSplit, ValidateRow, WriteRow,
              FindSplitTarget, TakeSplitTarget, FoldRows, EraseRows, LockAssetRow
<1>4. ~(\/ DrawNumbers(c) \/ CheckReference(c) \/ RetagAsset(c) \/ ScanAsset(c) \/ ScanLocation(c)
        \/ PickNext(c) \/ LockScanned(c) \/ ClearRow(c) \/ EraseAsset(c) \/ LockLocationRow(c)
        \/ DropLocation(c) \/ AddLocation(c) \/ CommitWork(c))
  BY <1>1 DEF DrawNumbers, CheckReference, RetagAsset, ScanAsset, ScanLocation, PickNext,
              LockScanned, ClearRow, EraseAsset, LockLocationRow, DropLocation, AddLocation, CommitWork
<1> QED BY <1>2, <1>3, <1>4 DEF Statements, AbortDeadlocked

\* What becomes of the record of the numbers that were taken.
LEMMA Recorded ==
    ASSUME Record, NEW c \in Client, HasDrawn(c)'
    PROVE  /\ taken[c] \subseteq taken'[c]
           /\ PatchCommits => NewNumbers(c) \subseteq taken'[c]
  BY DEF Record

\* The numbers of a client stay ahead while another client makes a step ..
LEMMA OthersStayAhead ==
    ASSUME TxnInv, NEW c \in Client, Begin(c) \/ Statements(c), Record,
           NEW d \in Client \ {c}, Ahead(d)
    PROVE  Ahead(d)'
<1> SUFFICES ASSUME HasDrawn(d)' PROVE Ahead(d)'
  BY DEF Ahead
<1>1. txn'[d] = txn[d] /\ writes'[d] = writes[d] BY OthersStay
<1>2. PICK a : a = txn[d].request.asset OBVIOUS
<1>3. HasDrawn(d) BY <1>1 DEF HasDrawn
<1>4. a \in Asset /\ assetLock[a] # c BY <1>2, <1>3, DrawnFits
<1>5. \A i \in LiveOf(a)' : items'[i].serial \in Nat =>
        /\ i \in LiveOf(a)
        /\ items[i].serial = items'[i].serial \/ items'[i].serial \in taken'[d]
  <2> SUFFICES ASSUME NEW i \in LiveOf(a)', items'[i].serial \in Nat,
                      items[i].serial # items'[i].serial
               PROVE  i \in LiveOf(a) /\ items'[i].serial \in taken'[d]
    BY <1>4, NoNewNumbers
  <2>1. i \in LiveOf(a) /\ CommitWork(c) /\ txn[c].request.op = "patch" BY <1>4, NoNewNumbers
  <2>2. items'[i].serial \in NewNumbers(d) BY <1>2 DEF NewNumbers, LiveOf, Live
  <2> QED BY <2>1, <2>2, Recorded DEF PatchCommits
<1>6. PICK S : S = LiveOf(a)' OBVIOUS
<1>7. PICK T : T = taken'[d] OBVIOUS
<1>8. taken[d] \subseteq T BY <1>7, Recorded
<1>9. \A k \in DOMAIN txn[d].rest : \A i \in S :
         items'[i].serial \in Nat => items'[i].serial < txn[d].rest[k].serial \/ items'[i].serial \in T
  BY <1>2, <1>3, <1>5, <1>6, <1>7, <1>8 DEF Ahead
<1> QED BY <1>1, <1>2, <1>3, <1>6, <1>7, <1>9 DEF Ahead

\* .. and a step that has nothing to do with the numbers leaves none to be kept
\* ahead.
LEMMA NumberlessStaysAhead ==
    ASSUME TxnInv, NEW c \in Client, Numberless(c)
    PROVE  ~HasDrawn(c)'
<1>0. TxnTypeOK BY DEF TxnInv
<1>1. CASE \E t : Go(c, t) /\ (t.step = "insert" => t.request.op # "generateSerialized")
  <2>1. PICK t : Go(c, t) /\ (t.step = "insert" => t.request.op # "generateSerialized")
    BY <1>1
  <2>2. txn'[c] = t BY <1>0, <2>1 DEF Go, TxnTypeOK
  <2> QED BY <2>1, <2>2 DEF HasDrawn
<1>2. CASE \E code : Answer(c, code)
  <2>1. txn'[c] = Idle BY <1>0, <1>2 DEF Answer, TxnTypeOK
  <2> QED BY <2>1, IdleIs DEF HasDrawn
<1> QED BY <1>1, <1>2 DEF Numberless

\* A request starts at another step than the insert.
LEMMA BeginStaysAhead ==
    ASSUME TxnInv, NEW c \in Client, Begin(c)
    PROVE  ~HasDrawn(c)'
<1>0. TxnTypeOK BY DEF TxnInv
<1>2. PICK r \in Menu[menu].requests : txn' = [txn EXCEPT ![c] = Opening(r)] BY DEF Begin
<1>3. txn'[c] = Opening(r) BY <1>0, <1>2 DEF TxnTypeOK
<1>4. r \in Requests BY <1>0, <1>2 DEF Requests, TxnTypeOK
<1>5. Opening(r).step # "insert"
  <2> DEFINE t0 == [Idle EXCEPT !.request = r]
  <2>1. CASE r.op \in {"patch", "split", "merge", "delete"}
    <3>1. t0 \in TxnRecord /\ Opening(r) = ToLock(t0, NamedIds(r))
      BY <1>4, <2>1, IdleIs, NamingOps DEF Opening, TxnRecord
    <3> QED BY <1>4, <3>1, NamedAreIds, ToLockIs
  <2>2. CASE r.op \notin {"patch", "split", "merge", "delete"}
    <3>1. NamedIds(r) = {} BY <1>4, <2>2, NamingOps
    <3> QED BY <3>1 DEF Opening, Idle
  <2> QED BY <2>1, <2>2
<1> QED BY <1>3, <1>5 DEF HasDrawn

\* The numbers that next_serial_numbers draws are above those of the asset.
LEMMA DrawNumbersGetsAhead ==
    ASSUME TxnInv, NEW c \in Client, DrawNumbers(c)
    PROVE  Ahead(c)'
<1> DEFINE t == txn[c]
           r == txn[c].request
           top == HighestNumber(txn[c].request.asset)
<1>0. At(c, "draw") BY DEF DrawNumbers
<1>1. /\ TxnTypeOK /\ IndInv /\ t \in TxnRecord /\ Fits(c) /\ t.step = "draw" /\ r \in Requests
      /\ r.op = "generateSerialized"
  BY <1>0, Running, OpsOfSteps
<1>2. CreateFits(c) BY <1>1 DEF Fits, Opened
<1>3. CASE top <= Int32Max
  <2>1. PICK serials : serials = [n \in 1..r.count |-> top + n] OBVIOUS
  <2>2. PICK rows : rows = NumberedRows(r.row, serials) OBVIOUS
  <2> DEFINE u == [t EXCEPT !.step = "insert", !.rest = rows]
  <2>3. Go(c, u) /\ UNCHANGED <<writes, locks>> BY <1>3, <2>1, <2>2 DEF DrawNumbers
  <2>4. /\ serials \in Seq(HandSerial \cup 0..MaxSerial) /\ serials # <<>>
        /\ Len(serials) = r.count /\ \A k \in 1..r.count : serials[k] = top + k
    BY <1>1, <1>3, <2>1, DrawnNumbers
  <2>5. DOMAIN rows = 1..r.count /\ \A k \in DOMAIN rows : rows[k].serial = top + k
    BY <1>1, <2>2, <2>4, NumberedRowsAre
  <2>6. u.request = r /\ u.rest = rows BY <1>1 DEF TxnRecord
  <2>7. txn'[c] = u /\ items' = items /\ writes'[c] = NoWrites /\ DOMAIN NoWrites = {}
    BY <1>1, <1>2, <2>3 DEF Go, TxnTypeOK, CreateFits, NoWrites, vars
  <2>8. r.asset \in Asset /\ r.count \in Nat BY <1>1, CreatesAre
  <2>9. PICK h : h = top OBVIOUS
  <2>10. h \in Nat /\ \A i \in LiveOf(r.asset) : items[i].serial \in Nat => items[i].serial <= h
    BY <1>1, <2>8, <2>9, HighestIs
  <2>11. \A k \in DOMAIN rows :
           /\ rows[k].serial \in Nat
           /\ \A i \in LiveOf(r.asset) :
                items[i].serial \in Nat => items[i].serial < rows[k].serial
           /\ \A j \in DOMAIN rows : j < k => rows[j].serial < rows[k].serial
    BY <2>5, <2>8, <2>9, <2>10
  <2>12. PICK a : a = r.asset OBVIOUS
  <2>13. LiveOf(a)' = LiveOf(a) BY <2>7 DEF LiveOf, Live
  <2> HIDE DEF u, top
  <2> QED BY <2>6, <2>7, <2>11, <2>12, <2>13 DEF Ahead
<1>4. CASE ~(top <= Int32Max)
  <2>1. Refuse(c, "error") BY <1>4 DEF DrawNumbers
  <2>2. Numberless(c) BY <2>1, RefusedNumberless
  <2> QED BY <2>2, NumberlessStaysAhead DEF Ahead
<1> QED BY <1>3, <1>4

\* So the rows of a request find no number of theirs taken but by a PATCH, and the
\* numbers that are left stay ahead; other requests to insert are not asked for
\* numbers.
LEMMA InsertRowStaysAhead ==
    ASSUME TxnInv, NEW c \in Client, InsertRow(c), Ahead(c), Record
    PROVE  /\ Ahead(c)'
           /\ HasDrawn(c) /\ ~Busy(c)' => Head(txn[c].rest).serial \in taken[c]
<1> DEFINE t == txn[c]
           r == txn[c].request
           row == Head(txn[c].rest)
           tail == Tail(txn[c].rest)
<1>0. At(c, "insert") BY DEF InsertRow
<1>1. /\ TxnTypeOK /\ IndInv /\ t \in TxnRecord /\ t.step = "insert" /\ r \in Requests
      /\ t.rest \in Seq(Row)
  BY <1>0, Running
<1>2. CASE r.op # "generateSerialized"
  <2>1. Refuse(c, "conflict") => Numberless(c) BY RefusedNumberless
  <2>2. ASSUME ~Refuse(c, "conflict") PROVE Numberless(c)
    <3>1. PICK n, w : /\ writes' = [writes EXCEPT ![c] = w]
                      /\ Go(c, [t EXCEPT !.step = AfterInsert(r, tail), !.target = n,
                                         !.rest = tail])
      BY <2>2 DEF InsertRow
    <3> DEFINE u == [t EXCEPT !.step = AfterInsert(r, tail), !.target = n, !.rest = tail]
    <3>2. u.request = r BY <1>1 DEF TxnRecord
    <3> HIDE DEF u
    <3>3. Go(c, u) BY <3>1 DEF u
    <3> QED BY <1>2, <3>1, <3>2, <3>3 DEF Numberless
  <2>3. Numberless(c) BY <2>1, <2>2
  <2> QED BY <1>2, <2>3, NumberlessStaysAhead DEF Ahead, HasDrawn
<1>3. CASE r.op = "generateSerialized"
  <2>1. HasDrawn(c) BY <1>1, <1>3 DEF HasDrawn
  <2>2. t.rest # <<>> /\ \A k \in DOMAIN t.rest : Wanted(r, t.rest[k])
    BY <1>1, <2>1, DrawnFits DEF CreateFits
  <2>3. /\ 1 \in DOMAIN t.rest /\ row = t.rest[1] /\ row \in Row /\ tail \in Seq(Row)
        /\ \A k \in DOMAIN tail : k \in Nat /\ k >= 1
                                  /\ k + 1 \in DOMAIN t.rest /\ tail[k] = t.rest[k + 1]
    BY <1>1, <2>2
  <2>4. row.asset = r.asset /\ row.mode = "serialized"
    <3>1. PICK x : x = row OBVIOUS
    <3>2. r.row \in Row /\ r.row.asset = r.asset /\ r.row.mode = "serialized"
      BY <1>1, <1>3, TemplatesAre
    <3>3. x = [r.row EXCEPT !.serial = x.serial] BY <1>3, <2>2, <2>3, <3>1 DEF Wanted
    <3>4. x.asset = r.asset /\ x.mode = "serialized" BY <3>2, <3>3 DEF Row
    <3> QED BY <3>1, <3>4
  <2>5. /\ row.serial \in Nat
        /\ \A i \in LiveOf(r.asset) :
             items[i].serial \in Nat => items[i].serial < row.serial \/ items[i].serial \in taken[c]
        /\ \A i \in DOMAIN writes[c] :
             writes[c][i].serial \in Nat /\ writes[c][i].serial < row.serial
    BY <2>1, <2>3 DEF Ahead
  <2>6. CASE KeyTaken(c, {}, row)
    <3>1. PICK k \in ItemId : IsRow(View(c, k)) /\ Clash(row, View(c, k)) BY <2>6 DEF KeyTaken
    <3>2. SameSerial(row, View(c, k)) BY <2>4, <3>1 DEF Clash, SameAggregate
    <3>3. row.serial = View(c, k).serial /\ row.asset = View(c, k).asset
      BY <3>2 DEF SameSerial
    <3>4. k \notin DOMAIN writes[c]
      <4>1. k \in DOMAIN writes[c] => View(c, k).serial < row.serial BY <2>5 DEF View
      <4> QED BY <2>5, <3>3, <4>1
    <3>5. View(c, k) = items[k] BY <3>4 DEF View
    <3>6. k \in LiveOf(r.asset) BY <2>4, <3>1, <3>3, <3>5 DEF LiveOf, Live
    <3>7. row.serial \in taken[c] BY <2>5, <3>3, <3>5, <3>6
    <3>8. Refuse(c, "conflict") BY <2>6 DEF InsertRow
    <3>9. ~HasDrawn(c)' BY <3>8, RefusedNumberless, NumberlessStaysAhead
    <3> QED BY <3>7, <3>9 DEF Ahead
  <2>18. SUFFICES ASSUME ~KeyTaken(c, {}, row)
                  PROVE  Ahead(c)' /\ Busy(c)'
    BY <2>6
  <2>7. PICK n \in Undrawn :
           /\ writes' = [writes EXCEPT ![c] = Put(WritesBefore(c), n, row)]
           /\ Go(c, [t EXCEPT !.step = AfterInsert(r, tail), !.target = n, !.rest = tail])
    BY <2>18 DEF InsertRow
  <2> DEFINE u == [t EXCEPT !.step = AfterInsert(r, tail), !.target = n, !.rest = tail]
  <2>8. PICK v : v = Put(writes[c], n, row) OBVIOUS
  <2>9. WritesBefore(c) = writes[c] BY <1>3 DEF WritesBefore
  <2>10. u.request = r /\ u.rest = tail /\ u.step # "idle" BY <1>1 DEF TxnRecord, AfterInsert
  <2>11. txn'[c] = u /\ items' = items /\ writes'[c] = v
    BY <1>1, <2>7, <2>8, <2>9 DEF Go, TxnTypeOK, vars
  <2>12. \A k \in DOMAIN tail :
           /\ tail[k].serial \in Nat
           /\ \A i \in LiveOf(r.asset) : items[i].serial \in Nat =>
                items[i].serial < tail[k].serial \/ items[i].serial \in taken[c]
           /\ \A i \in DOMAIN writes[c] :
                writes[c][i].serial \in Nat /\ writes[c][i].serial < tail[k].serial
           /\ row.serial < tail[k].serial
           /\ \A j \in DOMAIN tail : j < k => tail[j].serial < tail[k].serial
    <3> SUFFICES ASSUME NEW k \in DOMAIN tail
                 PROVE  /\ tail[k].serial \in Nat
                        /\ \A i \in LiveOf(r.asset) : items[i].serial \in Nat =>
                             items[i].serial < tail[k].serial \/ items[i].serial \in taken[c]
                        /\ \A i \in DOMAIN writes[c] :
                             writes[c][i].serial \in Nat /\ writes[c][i].serial < tail[k].serial
                        /\ row.serial < tail[k].serial
                        /\ \A j \in DOMAIN tail : j < k => tail[j].serial < tail[k].serial
      OBVIOUS
    <3>1. k \in Nat /\ k >= 1 /\ k + 1 \in DOMAIN t.rest /\ tail[k] = t.rest[k + 1] /\ 1 < k + 1
      BY <2>3
    <3>2. \A j \in DOMAIN tail : j < k => /\ j + 1 \in DOMAIN t.rest /\ tail[j] = t.rest[j + 1]
                                          /\ j + 1 < k + 1
      BY <2>3, <3>1
    <3> HIDE DEF tail, row
    <3> QED BY <2>1, <2>3, <3>1, <3>2 DEF Ahead
  <2>13. \A i \in DOMAIN v : v[i] = row \/ (i \in DOMAIN writes[c] /\ v[i] = writes[c][i])
    BY <2>8 DEF Put
  <2>14. PICK a : a = r.asset OBVIOUS
  <2>15. LiveOf(a)' = LiveOf(a) BY <2>11 DEF LiveOf, Live
  <2>16. PICK l : l = tail OBVIOUS
  <2>17. \A k \in DOMAIN l : \A i \in DOMAIN v :
            v[i].serial \in Nat /\ v[i].serial < l[k].serial
    BY <2>5, <2>12, <2>13, <2>16
  <2>19. HasDrawn(c)' => taken[c] \subseteq taken'[c] BY Recorded
  <2> HIDE DEF u, tail, row
  <2>20. Busy(c)' BY <2>10, <2>11 DEF Busy
  <2>21. Ahead(c)'
    BY <2>10, <2>11, <2>12, <2>14, <2>15, <2>16, <2>17, <2>19 DEF Ahead
  <2> QED BY <2>20, <2>21
<1> QED BY <1>2, <1>3

\* Every step keeps the numbers ahead, and none but a PATCH takes one.
LEMMA NextKeepsNumbers ==
    ASSUME TxnInv, NumbersInv, [NumbersNext]_numberVars
    PROVE  /\ NumbersInv'
           /\ \A c \in Client :
                HasDrawn(c) /\ reply'[c] = <<"generateSerialized", "conflict">> /\ ~Busy(c)'
                  => Head(txn[c].rest).serial \in taken[c]
<1>1. CASE UNCHANGED numberVars
  <2>1. UNCHANGED <<items, txn, writes, taken>> BY <1>1 DEF numberVars, txnVars, vars
  <2> QED BY <2>1 DEF NumbersInv, Ahead, HasDrawn, LiveOf, Live, Busy
<1>2. CASE NumbersNext
  <2>1. PICK c \in Client : Begin(c) \/ Statements(c) BY <1>2 DEF NumbersNext, TxnNext
  <2>2. Record BY <1>2 DEF NumbersNext
  <2>3. ASSUME NEW d \in Client \ {c}
        PROVE  Ahead(d)' /\ (HasDrawn(d) => Busy(d)')
    <3>1. txn'[d] = txn[d] BY <2>1, OthersStay
    <3> QED BY <2>1, <2>2, <3>1, OthersStayAhead DEF NumbersInv, HasDrawn, Busy
  <2>4. Ahead(c)'
    <3>1. CASE Begin(c) BY <3>1, BeginStaysAhead DEF Ahead
    <3>2. CASE DrawNumbers(c) BY <3>2, DrawNumbersGetsAhead
    <3>3. CASE InsertRow(c) BY <2>2, <3>3, InsertRowStaysAhead DEF NumbersInv
    <3>4. CASE Numberless(c) BY <3>4, NumberlessStaysAhead DEF Ahead
    <3> QED BY <2>1, <3>1, <3>2, <3>3, <3>4, StatementsAreNumberless
  <2>5. HasDrawn(c) /\ reply'[c] = <<"generateSerialized", "conflict">> /\ ~Busy(c)'
          => Head(txn[c].rest).serial \in taken[c]
    <3> SUFFICES ASSUME HasDrawn(c), reply'[c] = <<"generateSerialized", "conflict">>, ~Busy(c)'
                 PROVE  Head(txn[c].rest).serial \in taken[c]
      OBVIOUS
    <3>1. InsertRow(c) \/ Refuse(c, "error") BY <2>1, DrawnInsert
    <3>2. ~Refuse(c, "error")
      <4>1. TxnTypeOK BY DEF TxnInv
      <4> QED BY <4>1 DEF Refuse, Answer, TxnTypeOK
    <3> QED BY <2>2, <3>1, <3>2, InsertRowStaysAhead DEF NumbersInv
  <2> QED BY <2>3, <2>4, <2>5 DEF NumbersInv
<1> QED BY <1>1, <1>2

\* Serial numbers that are generated under the lock of the asset stay free until
\* their rows are inserted, whatever other clients create, generate, split, merge,
\* move and delete: an insert that finds its number taken finds the one that a
\* PATCH gave to a row of the asset after it was drawn.
THEOREM GeneratedNumbersYieldToPatchesOnly == NumbersSpec => OnlyPatchesTakeDrawnNumbers
<1>1. NumbersInit => TxnInit /\ NumbersInv
  <2> SUFFICES ASSUME NumbersInit PROVE TxnInit /\ NumbersInv OBVIOUS
  <2>1. TxnInit BY DEF NumbersInit
  <2>2. \A c \in Client : txn[c].step # "insert" BY <2>1, IdleIs DEF TxnInit
  <2> QED BY <2>1, <2>2 DEF NumbersInv, Ahead, HasDrawn
<1>2. [NumbersNext]_numberVars => [TxnNext]_txnVars BY DEF NumbersNext, numberVars
<1>3. TxnInv /\ NumbersInv /\ [NumbersNext]_numberVars => NumbersInv' BY NextKeepsNumbers
<1>4. TxnInv /\ NumbersInv /\ [NumbersNext]_numberVars =>
        [\A c \in Client :
           HasDrawn(c) /\ reply'[c] = <<"generateSerialized", "conflict">> /\ ~Busy(c)'
             => Head(txn[c].rest).serial \in taken[c]]_numberVars
  BY NextKeepsNumbers
<1> QED BY <1>1, <1>2, <1>3, <1>4, TransactionInvariant, PTL
        DEF NumbersSpec, TxnSpec, OnlyPatchesTakeDrawnNumbers
=============================================================================
