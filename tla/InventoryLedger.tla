-------------------------- MODULE InventoryLedger --------------------------
(***************************************************************************)
(* What the inventory endpoints promise, one atomic step per committed      *)
(* transaction: asset_inventory_items, the tracking mode of the assets that *)
(* own the rows, and the locations the rows stand at.  All rows belong to   *)
(* one laboratory; a foreign laboratory's location is, to these handlers,   *)
(* a location that is not present.                                          *)
(*                                                                         *)
(* Quantities are amounts in the base unit of the asset's dimension, so a   *)
(* change of the asset's inventory unit, which multiplies every stored      *)
(* quantity of the asset by one factor, is a stuttering step here.  Notes,  *)
(* attachments and audit records are not part of the state.                 *)
(***************************************************************************)
EXTENDS Integers, FiniteSets, FiniteSetsExt

CONSTANTS
    ItemId,         \* uuids of inventory items; a uuid is used for one row only
    Asset,          \* uuids of assets
    Location,       \* uuids of locations
    Batch,          \* batch numbers
    HandSerial,     \* serial numbers that are not of the form "#N"
    Status,         \* the item statuses in play
    NoBatch, NoLocation, NoSerial,   \* SQL NULL, per column
    Unused, Deleted,                 \* a uuid not drawn yet; a deleted row
    Keep,           \* a field a batch patch leaves out
    MaxQuantity,    \* bound: largest quantity a request or a sum may reach
    MaxSerial       \* bound: largest N of a "#N" serial

AllStatuses == {"available", "reserved", "borrowed", "retired", "lost", "consumed"}

ASSUME StatusAssumption == Status \subseteq AllStatuses
ASSUME BoundAssumption == MaxQuantity \in Nat /\ MaxSerial \in Nat
ASSUME UuidAssumption == IsFiniteSet(ItemId)
ASSUME NullAssumption ==
    /\ NoBatch \notin Batch
    /\ NoLocation \notin Location
    /\ NoSerial \notin HandSerial \cup Nat
ASSUME SerialAssumption == HandSerial \cap Nat = {}

Mode == {"quantity", "serialized"}
BatchField == Batch \cup {NoBatch}
LocationField == Location \cup {NoLocation}
Serial == HandSerial \cup Nat            \* the number N stands for "#N"

Row == [asset : Asset, mode : Mode, serial : Serial \cup {NoSerial},
        batch : BatchField, location : LocationField, status : Status,
        onHand : Nat, allocated : Nat]

ASSUME TombstoneAssumption == {Unused, Deleted} \cap Row = {} /\ Unused # Deleted

VARIABLES
    items,      \* the rows of asset_inventory_items, by uuid
    assets,     \* the tracking mode of each asset, "unborn" before and "gone" after
    locations   \* "unborn", "present" or "gone"

vars == <<items, assets, locations>>

-----------------------------------------------------------------------------
IsRow(r) == r \notin {Unused, Deleted}
Live == {i \in ItemId : IsRow(items[i])}
Fresh == {i \in ItemId : items[i] = Unused}
LiveOf(a) == {i \in Live : items[i].asset = a}

\* Two rows that differ only in uuid and amounts, to the aggregate index.
SameAggregate(r, s) ==
    /\ r.mode = "quantity" /\ s.mode = "quantity"
    /\ r.asset = s.asset
    /\ r.batch = s.batch
    /\ r.location = s.location
    /\ r.status = s.status

\* Two rows of one asset with one serial number, to the serial index.
SameSerial(r, s) ==
    r.serial # NoSerial /\ r.serial = s.serial /\ r.asset = s.asset

\* Mutant: the migration forgets the aggregate index.
SerialIndexOnly(r, s) == SameSerial(r, s)

Clash(r, s) == SameAggregate(r, s) \/ SameSerial(r, s)

\* What the two unique indexes of the table allow.
UniqueIndexes(rows) ==
    \A i, j \in DOMAIN rows :
        (i # j /\ IsRow(rows[i]) /\ IsRow(rows[j])) => ~Clash(rows[i], rows[j])

\* validate_location: absent, or a location of this laboratory.
ValidLocation(l) == l = NoLocation \/ (l \in Location /\ locations[l] = "present")

\* The rows that the parsers of a create and of a patch let through for an asset
\* of a given mode, wherever they stand.
WellFormed(a, m) ==
    {r \in [asset : {a}, mode : {m},
            serial : IF m = "quantity" THEN {NoSerial} ELSE HandSerial \cup 0..MaxSerial,
            batch : BatchField, location : LocationField, status : Status,
            onHand : IF m = "quantity" THEN 0..MaxQuantity ELSE {1},
            allocated : IF m = "quantity" THEN 0..MaxQuantity ELSE {0}] :
        r.allocated <= r.onHand}

\* The rows that a create or a patch may store: validate_location comes last.
StorableRows(a, m) == {r \in WellFormed(a, m) : ValidLocation(r.location)}

Written(rowOf) ==
    [i \in ItemId |-> IF i \in DOMAIN rowOf THEN rowOf[i] ELSE items[i]]

\* The rows after the rows S were deleted.
Without(S) == [i \in ItemId |-> IF i \in S THEN Deleted ELSE items[i]]

Resolve(new, old) == IF new = Keep THEN old ELSE new

\* The fields of a batch patch; serial and quantities are not among them.
BatchPatch == [batch : BatchField \cup {Keep}, location : LocationField \cup {Keep},
               status : Status \cup {Keep}]

Patched(r, p) == [r EXCEPT !.batch = Resolve(p.batch, @),
                           !.location = Resolve(p.location, @),
                           !.status = Resolve(p.status, @)]

-----------------------------------------------------------------------------
Init ==
    /\ items = [i \in ItemId |-> Unused]
    /\ assets = [a \in Asset |-> "unborn"]
    /\ locations = [l \in Location |-> "unborn"]

\* create_asset: the asset and the inventory items its payload lists.
CreateAsset(a, m, rowOf) ==
    /\ assets[a] = "unborn"
    /\ UniqueIndexes(Written(rowOf))
    /\ assets' = [assets EXCEPT ![a] = m]
    /\ items' = Written(rowOf)
    /\ UNCHANGED locations

\* update_asset, as far as the tracking mode goes.
ChangeTrackingMode(a, m) ==
    /\ assets[a] \in Mode
    /\ LiveOf(a) = {}
    /\ assets' = [assets EXCEPT ![a] = m]
    /\ UNCHANGED <<items, locations>>

\* delete_asset: the rows go with the asset, ON DELETE CASCADE.
DeleteAsset(a) ==
    /\ assets[a] \in Mode
    /\ assets' = [assets EXCEPT ![a] = "gone"]
    /\ items' = Without(LiveOf(a))
    /\ UNCHANGED locations

\* create_inventory_items of a quantity asset: one row.
CreateQuantityItem(a, i, row) ==
    /\ assets[a] = "quantity"
    /\ UniqueIndexes(Written([k \in {i} |-> row]))
    /\ items' = Written([k \in {i} |-> row])
    /\ UNCHANGED <<assets, locations>>

SerializedRow(a, n, b, l, s) ==
    [asset |-> a, mode |-> "serialized", serial |-> n, batch |-> b, location |-> l,
     status |-> s, onHand |-> 1, allocated |-> 0]

\* create_inventory_items of a serialized asset: a row per serial number, all
\* with the batch, location and status of the request; numberOf gives the
\* serial number of each new row.
CreateSerializedItems(a, numberOf, b, l, s) ==
    LET rowOf == [i \in DOMAIN numberOf |-> SerializedRow(a, numberOf[i], b, l, s)]
    IN  /\ assets[a] = "serialized"
        /\ ValidLocation(l)
        /\ UniqueIndexes(Written(rowOf))
        /\ items' = Written(rowOf)
        /\ UNCHANGED <<assets, locations>>

\* update_inventory_item: a field the patch leaves out is one whose new value
\* is the old one.
UpdateItem(i, row) ==
    /\ UniqueIndexes([items EXCEPT ![i] = row])
    /\ items' = [items EXCEPT ![i] = row]
    /\ UNCHANGED <<assets, locations>>

\* batch_update_inventory_items: one patch for every named item.
BatchUpdate(S, p) ==
    LET rowOf == [i \in S |-> Patched(items[i], p)]
    IN  /\ \A i \in S : ValidLocation(rowOf[i].location)
        /\ UniqueIndexes(Written(rowOf))
        /\ items' = Written(rowOf)
        /\ UNCHANGED <<assets, locations>>

\* Mutants: the split may take what is allocated, or more than there is.
SplittableAllocated(i, q) == items[i].mode = "quantity" /\ q <= items[i].onHand
SplittableAnyway(i, q) == items[i].mode = "quantity"

\* Only what is not allocated can be split off.
Splittable(i, q) ==
    /\ items[i].mode = "quantity"
    /\ q <= items[i].onHand - items[i].allocated

\* The rows after q went from row i to row t.
Moved(i, t, q) == [items EXCEPT ![i].onHand = @ - q, ![t].onHand = @ + q]

\* split_inventory_item: move q out of row i, into the row that already holds
\* the target combination or into a new one.
Split(i, q, b, l, s) ==
    LET part == [items[i] EXCEPT !.batch = b, !.location = l, !.status = s,
                                 !.onHand = q, !.allocated = 0]
        found == {t \in Live \ {i} : SameAggregate(items[t], part)}
    IN  /\ Splittable(i, q)
        /\ ValidLocation(l)
        /\ ~SameAggregate(items[i], part)
        /\ \/ \E t \in found :
                /\ items[t].onHand + q <= MaxQuantity        \* bound
                /\ items' = Moved(i, t, q)
           \/ /\ found = {}
              /\ \E n \in Fresh :
                    items' = [items EXCEPT ![i].onHand = @ - q, ![n] = part]
        /\ UNCHANGED <<assets, locations>>

\* validate_merge_compatible, for every source.
Mergeable(t, S) == \A s \in S : SameAggregate(items[t], items[s])

\* The rows after the rows S were added to row t.
Folded(t, S) ==
    [Without(S) EXCEPT
        ![t] = [items[t] EXCEPT
            !.onHand = @ + MapThenSumSet(LAMBDA s : items[s].onHand, S),
            !.allocated = @ + MapThenSumSet(LAMBDA s : items[s].allocated, S)]]

\* merge_inventory_items: fold the rows S into row t if every one of them is
\* compatible with it, and refuse otherwise.
Merge(t, S) ==
    /\ \A i \in S \cup {t} : items[i].mode = "quantity"
    /\ items' = IF Mergeable(t, S) THEN Folded(t, S) ELSE items
    /\ UNCHANGED <<assets, locations>>

\* delete_inventory_item and batch_delete_inventory_items.
DeleteItems(S) ==
    /\ \A i \in S : items[i].allocated = 0
    /\ items' = Without(S)
    /\ UNCHANGED <<assets, locations>>

CreateLocation(l) ==
    /\ locations[l] = "unborn"
    /\ locations' = [locations EXCEPT ![l] = "present"]
    /\ UNCHANGED <<items, assets>>

\* The rows after delete_location cleared the location of what stood in S.
Cleared(S) ==
    [i \in ItemId |-> IF i \in Live /\ items[i].location \in S
                      THEN [items[i] EXCEPT !.location = NoLocation]
                      ELSE items[i]]

\* delete_location: a location and what is below it; the shape of the tree is
\* the business of LocationTree, so S is any set of present locations.
DeleteLocations(S) ==
    /\ \A l \in S : locations[l] = "present"
    /\ UniqueIndexes(Cleared(S))
    /\ items' = Cleared(S)
    /\ locations' = [l \in Location |-> IF l \in S THEN "gone" ELSE locations[l]]
    /\ UNCHANGED assets

-----------------------------------------------------------------------------
\* The distinct serial numbers a request gives the new rows I.  Generated ones
\* are among them: which numbers next_serial_numbers draws is in
\* InventoryTransactions.
NumbersFor(I) ==
    {f \in [I -> HandSerial \cup 0..MaxSerial] : \A i, j \in I : i # j => f[i] # f[j]}

CreateAssets ==
    \E a \in Asset, m \in Mode :
        /\ assets[a] = "unborn"
        /\ \E I \in SUBSET Fresh : \E rowOf \in [I -> StorableRows(a, m)] :
              CreateAsset(a, m, rowOf)

CreateItems ==
    \E a \in Asset :
        \/ \E i \in Fresh, row \in StorableRows(a, "quantity") : CreateQuantityItem(a, i, row)
        \/ \E I \in SUBSET Fresh, b \in BatchField, l \in LocationField, s \in Status :
             /\ I # {}
             /\ \E numberOf \in NumbersFor(I) : CreateSerializedItems(a, numberOf, b, l, s)

ChangeItems ==
    \/ \E i \in Live :
         \E row \in StorableRows(items[i].asset, items[i].mode) : UpdateItem(i, row)
    \/ \E S \in SUBSET Live, p \in BatchPatch : S # {} /\ BatchUpdate(S, p)
    \/ \E i \in Live, q \in 1..MaxQuantity, b \in BatchField, l \in LocationField, s \in Status :
         Split(i, q, b, l, s)
    \/ \E t \in Live : \E S \in SUBSET (Live \ {t}) : S # {} /\ Merge(t, S)
    \/ \E S \in SUBSET Live : S # {} /\ DeleteItems(S)

Next ==
    \/ CreateAssets
    \/ \E a \in Asset : DeleteAsset(a) \/ \E m \in Mode : ChangeTrackingMode(a, m)
    \/ CreateItems
    \/ ChangeItems
    \/ \E l \in Location : CreateLocation(l)
    \/ \E S \in SUBSET Location : S # {} /\ DeleteLocations(S)

Spec == Init /\ [][Next]_vars

-----------------------------------------------------------------------------
TypeOK ==
    /\ items \in [ItemId -> Row \cup {Unused, Deleted}]
    /\ assets \in [Asset -> Mode \cup {"unborn", "gone"}]
    /\ locations \in [Location -> {"unborn", "present", "gone"}]

\* No two rows are ever compatible for a merge: a split folds into the existing
\* row and every other write of an aggregate key meets the unique index, so
\* validate_merge_compatible rejects every request the handler can receive.
NoMergeCandidates ==
    \A t, s \in Live : t # s => ~SameAggregate(items[t], items[s])

\* A serialized row is one whole thing and no request can mark it allocated, so
\* the refusal to delete allocated rows never protects a serialized item.
SerializedNeverAllocated ==
    \A i \in Live : items[i].mode = "serialized" =>
        items[i].onHand = 1 /\ items[i].allocated = 0 /\ items[i].serial # NoSerial

\* Every row has the tracking mode its asset has now: changing the mode of an
\* asset, deleting it and creating rows for it never leave a row behind.
RowsFollowTheirAsset ==
    \A i \in Live : assets[items[i].asset] = items[i].mode

\* A row stands at a location that still exists: deleting a subtree clears the
\* rows in it, and no create, patch, batch patch or split stores another one.
RowsStandAtPresentLocations ==
    \A i \in Live : items[i].location = NoLocation \/ locations[items[i].location] = "present"

\* What is allocated is on hand, through every split and patch.
AllocatedIsOnHand ==
    \A i \in Live : items[i].allocated <= items[i].onHand

\* What row i holds of an asset, and what of it is allocated.
Held(i, a) == IF i \in LiveOf(a) THEN items[i].onHand ELSE 0
Reserved(i, a) == IF i \in LiveOf(a) THEN items[i].allocated ELSE 0

\* The totals of an asset, counted piece by piece.
Pieces(amount) == UNION {{i} \X (1..amount[i]) : i \in ItemId}
OnHand(a) == Cardinality(Pieces([i \in ItemId |-> Held(i, a)]))
Allocated(a) == Cardinality(Pieces([i \in ItemId |-> Reserved(i, a)]))

\* A step that takes stock out of one row of an asset and puts stock into
\* another neither creates nor loses any of it, nor of what is allocated.
StockIsConserved ==
    [][\A a \in Asset :
         (\E i, j \in ItemId : Held(i, a)' < Held(i, a) /\ Held(j, a)' > Held(j, a))
         => OnHand(a)' = OnHand(a) /\ Allocated(a)' = Allocated(a)]_vars

\* Allocated stock disappears only with its asset: neither a delete, a batch
\* delete nor a deleted location removes a row that has an allocation.
AllocationsGoOnlyWithTheirAsset ==
    [][\A i \in Live :
         (items[i].allocated > 0 /\ items'[i] = Deleted) => assets'[items[i].asset] = "gone"]_vars

\* What the comment on delete_location_subtree promises: clearing the items
\* first keeps the delete of a location from failing.
EveryLocationCanBeDeleted ==
    \A l \in Location : locations[l] = "present" => UniqueIndexes(Cleared({l}))

=============================================================================
