----------------------- MODULE MCInventoryTransactions -----------------------
(***************************************************************************)
(* Small sets of requests for InventoryTransactions and InventoryNumbers.  A *)
(* request leaves a field out with Keep.                                    *)
(***************************************************************************)
EXTENDS InventoryNumbers, SequencesExt

StockRow(a, l, st, n, m) ==
    [asset |-> a, mode |-> "quantity", serial |-> NoSerial, batch |-> NoBatch,
     location |-> l, status |-> st, onHand |-> n, allocated |-> m]
UnitRow(a) == SerializedRow(a, NoSerial, NoBatch, NoLocation, "available")

NewAsset(a, m, rows) == [op |-> "createAsset", asset |-> a, mode |-> m, rows |-> rows]
NewLocation == [op |-> "createLocation"]
NewStock(row) == [op |-> "createQuantity", asset |-> row.asset, row |-> row]
NewUnits(a, serials) ==
    [op |-> "createSerialized", asset |-> a, row |-> UnitRow(a), serials |-> serials]
NextUnits(a, n) ==
    [op |-> "generateSerialized", asset |-> a, row |-> UnitRow(a), count |-> n]
DropAsset(a) == [op |-> "deleteAsset", asset |-> a]
CloseLocation(l) == [op |-> "deleteLocation", location |-> l]
Drop(S) == [op |-> "delete", ids |-> S]
Fold(t, S) == [op |-> "merge", target |-> t, ids |-> S]
ToMode(a, m) == [op |-> "setMode", asset |-> a, mode |-> m]
SplitOff(i, q, l, st) ==
    [op |-> "split", id |-> i, quantity |-> q, batch |-> Keep, location |-> l, status |-> st]
NoChange == [serial |-> Keep, batch |-> Keep, location |-> Keep, status |-> Keep,
             onHand |-> Keep, allocated |-> Keep]
Update(S, patch) == [op |-> "patch", ids |-> S, patch |-> patch]
Move(S, l) == Update(S, [NoChange EXCEPT !.location = l])
Mark(S, st) == Update(S, [NoChange EXCEPT !.status = st])
Allocate(i, n) == Update({i}, [NoChange EXCEPT !.allocated = n])
Recount(i, n) == Update({i}, [NoChange EXCEPT !.onHand = n])
Relabel(i, n) == Update({i}, [NoChange EXCEPT !.serial = n])

Groups == {S \in SUBSET ItemId : Cardinality(S) = 2}

Thing == CHOOSE a \in Asset : TRUE

\* Splits, patches, merges and deletes of the rows of one quantity asset.
StockRequests ==
    {NewAsset(Thing, "quantity", <<>>), DropAsset(Thing),
     NewAsset(Thing, "quantity", <<StockRow(Thing, NoLocation, "available", 2, 1)>>),
     NewStock(StockRow(Thing, NoLocation, "available", 2, 0))}
    \cup {SplitOff(i, 1, Keep, "reserved") : i \in ItemId}
    \cup {Mark(S, "available") : S \in Groups}
    \cup {Allocate(i, 1) : i \in ItemId}
    \cup {Recount(i, 1) : i \in ItemId}
    \cup {Fold(t, {i}) : <<t, i>> \in {p \in ItemId \X ItemId : p[1] # p[2]}}
    \cup {Drop({i}) : i \in ItemId}

\* Stock that moves to and from a location, and the delete of the location.
ShelfRequests ==
    {NewAsset(Thing, "quantity", <<>>), DropAsset(Thing), NewLocation}
    \cup {NewStock(StockRow(Thing, l, "available", 1, 0)) : l \in Location \cup {NoLocation}}
    \cup {CloseLocation(l) : l \in Location}
    \cup {Move({i}, l) : i \in ItemId, l \in Location \cup {NoLocation}}
    \cup {SplitOff(i, 1, l, Keep) : i \in ItemId, l \in Location}

HandLabels == SetToSeq(HandSerial)

\* Serialized rows, numbered by hand and by the program, and the tracking mode.
SerialRequests ==
    {NewAsset(Thing, "serialized", <<>>), NewUnits(Thing, <<1>>), NewUnits(Thing, HandLabels),
     NextUnits(Thing, 1), NextUnits(Thing, 2),
     NewStock(StockRow(Thing, NoLocation, "available", 1, 0))}
    \cup {ToMode(Thing, m) : m \in {"quantity", "serialized"}}
    \cup {Drop({i}) : i \in ItemId}

\* Batches over pairs of rows; a row is renumbered by hand without the lock of
\* the asset, also to a number that a request may generate.
BatchRequests ==
    {Relabel(1, n) : n \in HandSerial \cup 1..2}
    \cup {Mark(S, "reserved") : S \in Groups}
    \cup {Fold(t, ItemId \ {t}) : t \in ItemId}
    \cup {Drop(S) : S \in Groups}

UnitRequests == SerialRequests \cup BatchRequests

Menus ==
    [stock |-> [requests |-> StockRequests, most |-> 5],
     units |-> [requests |-> UnitRequests, most |-> 4],
     shelf |-> [requests |-> ShelfRequests, most |-> 5]]
=============================================================================
