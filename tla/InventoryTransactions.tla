----------------------- MODULE InventoryTransactions -----------------------
(***************************************************************************)
(* The inventory handlers as the database runs them: one transaction per    *)
(* request, several statements per transaction, READ COMMITTED.  A handler  *)
(* locks the rows it names FOR UPDATE, decides, and writes; nothing is      *)
(* visible to others before the commit, and an error rolls everything back. *)
(*                                                                         *)
(* The committed tables are those of InventoryLedger, whose atomic requests *)
(* the transactions implement.                                              *)
(*                                                                         *)
(* Of PostgreSQL the module keeps what the handlers can observe: row locks  *)
(* (FOR UPDATE, and FOR KEY SHARE on the asset a split-off row refers to),  *)
(* the re-check of a row that changed while the statement waited for it,    *)
(* the unique indexes, which make a statement wait for an uncommitted rival *)
(* and then fail or go on, and the abort of one transaction of a deadlock.  *)
(* Statements that nothing can block, between one that can and the commit,  *)
(* are one step with the commit.  Permission checks precede the transaction *)
(* and are not modelled here.                                               *)
(***************************************************************************)
EXTENDS InventoryLedger, Sequences

CONSTANTS
    Client,     \* connections that serve requests
    Menu,       \* bound: menu -> [requests, most], the requests that clients make in
                \* one behaviour and how many of them
    Int32Max,   \* the largest N the ::integer cast accepts
    Nobody      \* holds a row lock that is free

-----------------------------------------------------------------------------
\* What a patch may say of a row; Keep stands for a field it leaves out.
Patch == [serial : HandSerial \cup 0..MaxSerial \cup {Keep},
          batch : BatchField \cup {Keep}, location : LocationField \cup {Keep},
          status : Status \cup {Keep},
          onHand : 0..MaxQuantity \cup {Keep}, allocated : 0..MaxQuantity \cup {Keep}]

\* A patch of several rows leaves serial number and quantities out.
PatchRequest ==
    {r \in [op : {"patch"}, ids : (SUBSET ItemId) \ {{}}, patch : Patch] :
        \/ \E i \in ItemId : r.ids = {i}
        \/ r.patch.serial = Keep /\ r.patch.onHand = Keep /\ r.patch.allocated = Keep}

SplitRequest ==
    [op : {"split"}, id : ItemId, quantity : 1..MaxQuantity, batch : BatchField \cup {Keep},
     location : LocationField \cup {Keep}, status : Status \cup {Keep}]

MergeRequest ==
    {r \in [op : {"merge"}, target : ItemId, ids : (SUBSET ItemId) \ {{}}] : r.target \notin r.ids}

DeleteRequest == [op : {"delete"}, ids : (SUBSET ItemId) \ {{}}]

\* A request that creates rows says what they have in common, then one quantity,
\* the serial numbers, or how many of them to generate.
Template(a) ==
    {SerializedRow(a, NoSerial, b, l, s) : b \in BatchField, l \in LocationField, s \in Status}

CreateRequest(a) ==
         [op : {"createQuantity"}, asset : {a}, row : WellFormed(a, "quantity")]
    \cup [op : {"createSerialized"}, asset : {a}, row : Template(a),
          serials : Seq(HandSerial \cup 0..MaxSerial) \ {<<>>}]
    \cup [op : {"generateSerialized"}, asset : {a}, row : Template(a), count : Nat \ {0}]

AssetRequest(a, m) ==
         [op : {"createAsset"}, asset : {a}, mode : {m}, rows : Seq(WellFormed(a, m))]
    \cup [op : {"setMode"}, asset : {a}, mode : {m}]
    \cup [op : {"deleteAsset"}, asset : {a}]

LocationRequest ==
    [op : {"createLocation"}] \cup [op : {"deleteLocation"}, location : Location]

IsRequest(r) ==
    \/ r \in PatchRequest \/ r \in SplitRequest \/ r \in MergeRequest \/ r \in DeleteRequest
    \/ \E a \in Asset : r \in CreateRequest(a) \/ \E m \in Mode : r \in AssetRequest(a, m)
    \/ r \in LocationRequest

\* Item uuids are numbers here: batches lock in uuid order.
ASSUME OrderAssumption == ItemId \subseteq Nat
ASSUME ClientAssumption == Nobody \notin Client
ASSUME RequestAssumption == \A m \in DOMAIN Menu : \A r \in Menu[m].requests : IsRequest(r)
ASSUME GenerateAssumption ==
    /\ Int32Max \in Nat
    /\ \A m \in DOMAIN Menu : \A r \in Menu[m].requests :
         r.op = "generateSerialized" => Int32Max + r.count <= MaxSerial

VARIABLES
    txn,        \* per client, its transaction: the request, the step it is at, the rows
                \* left to visit, the row it is about, the rows left to write, and
                \* whether the asset had rows when the request arrived
    writes,     \* per client, the rows it wrote and has not committed
    itemLock, assetLock, locationLock,  \* per row, the client with the FOR UPDATE lock
    sharers,    \* per asset, the clients with a FOR KEY SHARE lock
    reply,      \* per client, how its last request was answered, if it was
    menu,       \* the menu of this behaviour, which never changes
    served      \* number of requests made so far

locks == <<itemLock, assetLock, locationLock, sharers>>
txnVars == <<vars, txn, writes, locks, reply, menu, served>>

Idle == [request |-> Nobody, step |-> "idle", left |-> {}, target |-> Nobody, rest |-> <<>>,
         stocked |-> FALSE]
NoWrites == [i \in {} |-> Unused]
Put(w, i, row) == [k \in DOMAIN w \cup {i} |-> IF k = i THEN row ELSE w[k]]

-----------------------------------------------------------------------------
\* What client c sees of a row: its own write, or else the committed row.
View(c, i) == IF i \in DOMAIN writes[c] THEN writes[c][i] ELSE items[i]

\* The ids no transaction has drawn.
Undrawn == {i \in Fresh : itemLock[i] = Nobody}

Least(S) == CHOOSE i \in S : \A j \in S : i <= j

\* The rows a request names, which its transaction locks first, in id order.
NamedIds(r) ==
    CASE r.op \in {"patch", "delete"} -> r.ids
      [] r.op = "merge" -> r.ids \cup {r.target}
      [] r.op = "split" -> {r.id}
      [] OTHER -> {}

\* Mutant: a merge locks its target first.
TargetFirst(r, S) == IF r.op = "merge" /\ r.target \in S THEN r.target ELSE Least(S)

NextNamed(r, S) == Least(S)

\* The transaction t with the rows S of its request still to lock.
ToLock(t, S) ==
    IF S = {} THEN [t EXCEPT !.step = "check", !.left = {}]
    ELSE [t EXCEPT !.step = "lock", !.left = S, !.target = NextNamed(t.request, S)]

\* validate_patch_against_tracking_mode.
Patchable(row, p) ==
    IF row.mode = "serialized" THEN p.onHand = Keep /\ p.allocated = Keep ELSE p.serial = Keep

\* apply_inventory_item_patch: what a patch makes of the row it found.
PatchRow(row, p) ==
    [row EXCEPT !.serial = Resolve(p.serial, @), !.batch = Resolve(p.batch, @),
                !.location = Resolve(p.location, @), !.status = Resolve(p.status, @),
                !.onHand = Resolve(p.onHand, @), !.allocated = Resolve(p.allocated, @)]

\* Mutant: the new row keeps what was allocated of the source.
PartWithAllocation(row, r) ==
    [row EXCEPT !.batch = Resolve(r.batch, @), !.location = Resolve(r.location, @),
                !.status = Resolve(r.status, @), !.onHand = r.quantity]

\* The row that a split puts its quantity into when there is none with the key.
PartOf(row, r) ==
    [row EXCEPT !.batch = Resolve(r.batch, @), !.location = Resolve(r.location, @),
                !.status = Resolve(r.status, @), !.onHand = r.quantity, !.allocated = 0]

\* What the handler asks of a row once its location is validated.
Acceptable(r, row) ==
    row.allocated <= row.onHand /\ (r.op = "split" => ~SameAggregate(items[r.id], row))

NumberedRows(row, serials) == [k \in DOMAIN serials |-> [row EXCEPT !.serial = serials[k]]]

\* The rows that a request to create rows sets out to write.
RowsToCreate(r) ==
    CASE r.op = "createSerialized" -> NumberedRows(r.row, r.serials)
      [] r.op \in {"createQuantity", "generateSerialized"} -> <<r.row>>
      [] OTHER -> <<>>

\* max_generated_serial_number: the highest N of the asset's "#N", or 0.
HighestNumber(a) ==
    Least({n \in 0..MaxSerial : \A i \in LiveOf(a) : items[i].serial \in Nat => items[i].serial <= n})

\* The columns of the unique indexes; the rows may differ in their amounts.
SameKey(r, s) ==
    /\ r.asset = s.asset /\ r.mode = s.mode /\ r.serial = s.serial
    /\ r.batch = s.batch /\ r.location = s.location /\ r.status = s.status

\* Writing row to id i meets the unique indexes only if its key changes.
KeyIsNew(c, i, row) == ~SameKey(row, View(c, i))

\* A row that c sees, other than those in S, has the key.
KeyTaken(c, S, row) == \E k \in ItemId \ S : IsRow(View(c, k)) /\ Clash(row, View(c, k))

\* Uncommitted rivals: their transactions write or give up the key.
Rivals(c, row) ==
    {d \in Client \ {c} : \E k \in DOMAIN writes[d] : \E other \in {items[k], writes[d][k]} :
        IsRow(other) /\ Clash(row, other)}

\* The committed rows that refer to an asset with another mode than m.
RowsAgainst(a, m) == {i \in LiveOf(a) : items[i].mode # m}

Holders(S) == {itemLock[i] : i \in S}

\* Whom the next statement of client c waits for.
Blockers(c) ==
    LET t == txn[c]
        r == t.request
        row == Head(t.rest)
        waits ==
          CASE t.step \in {"lock", "take", "relock", "clear"} -> {itemLock[t.target]}
            [] t.step = "lockAsset" -> {assetLock[r.asset]} \cup sharers[r.asset]
            [] t.step = "reference" -> {assetLock[items[r.id].asset]}
            [] t.step = "lockLocation" -> {locationLock[r.location]}
            [] t.step = "validate" ->
                 IF row.location = NoLocation THEN {} ELSE {locationLock[row.location]}
            [] t.step = "write" -> IF KeyIsNew(c, t.target, row) THEN Rivals(c, row) ELSE {}
            [] t.step = "insert" -> Rivals(c, row)
            [] t.step = "retag" -> Holders(RowsAgainst(r.asset, r.mode))
            [] t.step = "erase" -> Holders(LiveOf(r.asset))
            [] OTHER -> {}
    IN  waits \ {c, Nobody}

\* Client c is at a step, and nothing blocks it.
At(c, step) == txn[c].step = step /\ Blockers(c) = {}

-----------------------------------------------------------------------------
\* How a statement ends that ends no transaction.
Go(c, t) ==
    /\ txn' = [txn EXCEPT ![c] = t]
    /\ UNCHANGED <<vars, reply, menu, served>>

TakeItem(c, i) ==
    /\ itemLock' = [itemLock EXCEPT ![i] = c]
    /\ UNCHANGED <<assetLock, locationLock, sharers>>

\* Mutant: the asset is read and not locked.
ReadAsset(c, a) == UNCHANGED locks

TakeAsset(c, a) ==
    /\ assetLock' = [assetLock EXCEPT ![a] = c]
    /\ UNCHANGED <<itemLock, locationLock, sharers>>

\* The location of a row may be NULL: then there is nothing to lock.
TakeLocation(c, l) ==
    /\ locationLock' = IF l = NoLocation THEN locationLock ELSE [locationLock EXCEPT ![l] = c]
    /\ UNCHANGED <<itemLock, assetLock, sharers>>

\* The end of a transaction: locks and writes go, the answer stays.
Answer(c, code) ==
    /\ reply' = [reply EXCEPT ![c] = <<txn[c].request.op, code>>]
    /\ txn' = [txn EXCEPT ![c] = Idle]
    /\ writes' = [writes EXCEPT ![c] = NoWrites]
    /\ UNCHANGED <<menu, served>>

Release(c) ==
    /\ itemLock' = [i \in ItemId |-> IF itemLock[i] = c THEN Nobody ELSE itemLock[i]]
    /\ assetLock' = [a \in Asset |-> IF assetLock[a] = c THEN Nobody ELSE assetLock[a]]
    /\ locationLock' = [l \in Location |-> IF locationLock[l] = c THEN Nobody ELSE locationLock[l]]
    /\ sharers' = [a \in Asset |-> sharers[a] \ {c}]

\* Mutant: an error is answered and the transaction stays open.
RefuseAndHold(c, code) == Answer(c, code) /\ UNCHANGED <<vars, locks>>

Refuse(c, code) == Answer(c, code) /\ Release(c) /\ UNCHANGED vars
Done(c) == Answer(c, "ok") /\ Release(c)

-----------------------------------------------------------------------------
TxnInit ==
    /\ Init
    /\ txn = [c \in Client |-> Idle]
    /\ writes = [c \in Client |-> NoWrites]
    /\ itemLock = [i \in ItemId |-> Nobody]
    /\ assetLock = [a \in Asset |-> Nobody]
    /\ locationLock = [l \in Location |-> Nobody]
    /\ sharers = [a \in Asset |-> {}]
    /\ reply = [c \in Client |-> <<>>]
    /\ menu \in DOMAIN Menu
    /\ served = 0

\* A client sends a request about rows that exist; what they are by the time
\* the transaction has locked them is another matter.  The uuid of a new asset
\* is one that nobody has drawn.
Sendable(r) ==
    /\ \A i \in NamedIds(r) : IsRow(items[i])
    /\ r.op \in {"createQuantity", "createSerialized", "generateSerialized", "setMode", "deleteAsset"} =>
         assets[r.asset] \in Mode
    /\ r.op = "createAsset" => assets[r.asset] = "unborn" /\ assetLock[r.asset] = Nobody
    /\ r.op = "deleteLocation" => locations[r.location] = "present"

\* The step that a request opens with, and what the transaction knows then.
Opening(r) ==
    LET t == [Idle EXCEPT !.request = r]
    IN  CASE NamedIds(r) # {} -> ToLock(t, NamedIds(r))
          [] r.op = "createAsset" ->
               [t EXCEPT !.step = IF r.rows = <<>> THEN "commit" ELSE "validate", !.rest = r.rows]
          [] r.op = "createLocation" -> [t EXCEPT !.step = "addLocation"]
          [] r.op = "deleteLocation" -> [t EXCEPT !.step = "lockLocation"]
          [] OTHER -> [t EXCEPT !.step = "lockAsset", !.stocked = LiveOf(r.asset) # {}]

Begin(c) ==
    /\ txn[c].step = "idle"
    /\ served < Menu[menu].most                                 \* bound
    /\ \E r \in Menu[menu].requests :
         /\ Sendable(r)
         /\ txn' = [txn EXCEPT ![c] = Opening(r)]
         /\ IF r.op = "createAsset" THEN TakeAsset(c, r.asset) ELSE UNCHANGED locks
    /\ reply' = [reply EXCEPT ![c] = <<>>]
    /\ served' = served + 1
    /\ UNCHANGED <<vars, writes, menu>>

-----------------------------------------------------------------------------
\* SELECT .. FOR UPDATE of the named rows: each is locked if it is still there.
LockNamed(c) ==
    LET t == txn[c]
    IN  /\ At(c, "lock")
        /\ Go(c, ToLock(t, t.left \ {t.target}))
        /\ IF IsRow(items[t.target]) THEN TakeItem(c, t.target) ELSE UNCHANGED locks
        /\ UNCHANGED writes

\* validate_requested_ids.
CheckFound(c) ==
    LET t == txn[c]
    IN  /\ At(c, "check")
        /\ IF \A i \in NamedIds(t.request) : IsRow(items[i])
           THEN Go(c, [t EXCEPT !.step = t.request.op, !.left = NamedIds(t.request)])
                /\ UNCHANGED <<writes, locks>>
           ELSE Refuse(c, "not_found")

\* apply_inventory_item_patch, of the next row, up to the location.
PreparePatch(c) ==
    LET t == txn[c]
        p == t.request.patch
        i == Least(t.left)
    IN  /\ At(c, "patch")
        /\ \/ /\ t.left = {}
              /\ Go(c, [t EXCEPT !.step = "commit"]) /\ UNCHANGED <<writes, locks>>
           \/ /\ t.left # {} /\ Patchable(items[i], p)
              /\ Go(c, [t EXCEPT !.step = "validate", !.target = i,
                                 !.rest = <<PatchRow(items[i], p)>>])
              /\ UNCHANGED <<writes, locks>>
           \/ t.left # {} /\ ~Patchable(items[i], p) /\ Refuse(c, "bad_request")

\* split_inventory_item, up to the location.
PrepareSplit(c) ==
    LET t == txn[c]
        r == t.request
    IN  /\ At(c, "split")
        /\ IF Splittable(r.id, r.quantity)
           THEN Go(c, [t EXCEPT !.step = "validate", !.rest = <<PartOf(items[r.id], r)>>])
                /\ UNCHANGED <<writes, locks>>
           ELSE Refuse(c, "bad_request")

AfterLocation(r) ==
    CASE r.op = "patch" -> "write"
      [] r.op = "split" -> "find"
      [] r.op = "generateSerialized" -> "draw"
      [] OTHER -> "insert"

\* validate_location of the next row, FOR UPDATE, and the checks that follow it.
ValidateRow(c) ==
    LET t == txn[c]
        row == Head(t.rest)
    IN  /\ At(c, "validate")
        /\ IF ValidLocation(row.location) /\ Acceptable(t.request, row)
           THEN /\ Go(c, [t EXCEPT !.step = AfterLocation(t.request)])
                /\ TakeLocation(c, row.location)
                /\ UNCHANGED writes
           ELSE Refuse(c, "bad_request")

\* update_inventory_item_in_database, and the UPDATE that clears a location.
WriteRow(c) ==
    LET t == txn[c]
        row == Head(t.rest)
        next == IF t.request.op = "patch" THEN "patch" ELSE "pick"
    IN  /\ At(c, "write")
        /\ IF KeyIsNew(c, t.target, row) /\ KeyTaken(c, {t.target}, row)
           THEN Refuse(c, "conflict")
           ELSE /\ writes' = [writes EXCEPT ![c] = Put(@, t.target, row)]
                /\ Go(c, [t EXCEPT !.step = next, !.left = @ \ {t.target}, !.rest = <<>>])
                /\ UNCHANGED locks

\* find_quantity_aggregate_for_update: the row with the target combination that
\* the statement's snapshot holds ..
FindSplitTarget(c) ==
    LET t == txn[c]
        found == {k \in Live \ {t.request.id} : SameAggregate(items[k], Head(t.rest))}
    IN  /\ At(c, "find")
        /\ \/ \E k \in found : Go(c, [t EXCEPT !.step = "take", !.target = k])
           \/ found = {} /\ Go(c, [t EXCEPT !.step = "insert"])
        /\ UNCHANGED <<writes, locks>>

\* .. which, once locked, counts only if it still has that combination: then
\* both rows are updated and the transaction commits.
TakeSplitTarget(c) ==
    LET t == txn[c]
        r == t.request
        k == t.target
    IN  /\ At(c, "take")
        /\ IF IsRow(items[k]) /\ SameAggregate(items[k], Head(t.rest))
           THEN /\ items[k].onHand + r.quantity <= MaxQuantity      \* bound
                /\ items' = Moved(r.id, k, r.quantity)
                /\ UNCHANGED <<assets, locations>>
                /\ Done(c)
           ELSE Go(c, [t EXCEPT !.step = "insert"]) /\ UNCHANGED <<writes, locks>>

\* merge_inventory_items.
FoldRows(c) ==
    LET r == txn[c].request
    IN  /\ At(c, "merge")
        /\ IF (\A i \in NamedIds(r) : items[i].mode = "quantity") /\ Mergeable(r.target, r.ids)
           THEN items' = Folded(r.target, r.ids) /\ UNCHANGED <<assets, locations>> /\ Done(c)
           ELSE Refuse(c, "bad_request")

\* Mutant: allocated rows are deleted like any other.
EraseAllocatedToo(c) ==
    /\ At(c, "delete")
    /\ items' = Without(txn[c].request.ids) /\ UNCHANGED <<assets, locations>> /\ Done(c)

\* delete_inventory_item and batch_delete_inventory_items.
EraseRows(c) ==
    LET r == txn[c].request
    IN  /\ At(c, "delete")
        /\ IF \A i \in r.ids : items[i].allocated = 0
           THEN items' = Without(r.ids) /\ UNCHANGED <<assets, locations>> /\ Done(c)
           ELSE Refuse(c, "conflict")

-----------------------------------------------------------------------------
\* What a handler asks of the asset it locked: the mode its rows need, and no
\* rows, as counted when the statement began, if the mode is to change.
AssetFits(t, mode) ==
    CASE t.request.op = "deleteAsset" -> TRUE
      [] t.request.op = "setMode" -> mode = t.request.mode \/ ~t.stocked
      [] OTHER -> mode = t.request.row.mode

AfterAsset(r) ==
    CASE r.op = "setMode" -> "retag" [] r.op = "deleteAsset" -> "scanAsset" [] OTHER -> "validate"

\* fetch_asset_for_update, fetch_asset_for_inventory_for_update.
LockAssetRow(c) ==
    LET t == txn[c]
        a == t.request.asset
    IN  /\ At(c, "lockAsset")
        /\ \/ assets[a] \notin Mode /\ Refuse(c, "not_found")
           \/ assets[a] \in Mode /\ ~AssetFits(t, assets[a]) /\ Refuse(c, "bad_request")
           \/ /\ assets[a] \in Mode /\ AssetFits(t, assets[a])
              /\ Go(c, [t EXCEPT !.step = AfterAsset(t.request), !.rest = RowsToCreate(t.request)])
              /\ TakeAsset(c, a)
              /\ UNCHANGED writes

\* next_serial_numbers: the highest "#N" of the asset, cast to integer.
DrawNumbers(c) ==
    LET t == txn[c]
        r == t.request
        top == HighestNumber(r.asset)
    IN  /\ At(c, "draw")
        /\ IF top <= Int32Max
           THEN /\ Go(c, [t EXCEPT !.step = "insert",
                            !.rest = NumberedRows(r.row, [n \in 1..r.count |-> top + n])])
                /\ UNCHANGED <<writes, locks>>
           ELSE Refuse(c, "error")

\* What a transaction has written before it inserts: a split has taken its
\* quantity from the source.
WritesBefore(c) ==
    LET r == txn[c].request
    IN  IF r.op = "split" THEN Put(writes[c], r.id, [items[r.id] EXCEPT !.onHand = @ - r.quantity])
        ELSE writes[c]

AfterInsert(r, rest) ==
    CASE r.op = "split" -> "reference"
      [] r.op # "split" /\ rest = <<>> -> "commit"
      [] OTHER -> IF r.op = "createAsset" THEN "validate" ELSE "insert"

\* insert_inventory_item of the next row, under a new uuid, read back FOR UPDATE.
InsertRow(c) ==
    LET t == txn[c]
        row == Head(t.rest)
    IN  /\ At(c, "insert")
        /\ IF KeyTaken(c, {}, row)
           THEN Refuse(c, "conflict")
           ELSE \E n \in Undrawn :
                  /\ writes' = [writes EXCEPT ![c] = Put(WritesBefore(c), n, row)]
                  /\ Go(c, [t EXCEPT !.step = AfterInsert(t.request, Tail(t.rest)),
                                     !.target = n, !.rest = Tail(t.rest)])
                  /\ TakeItem(c, n)

\* The foreign key of a split-off row to the asset and its mode, FOR KEY SHARE;
\* every other transaction that inserts has locked the asset itself.
CheckReference(c) ==
    LET t == txn[c]
        a == items[t.request.id].asset
    IN  /\ At(c, "reference")
        /\ IF assets[a] = "quantity"
           THEN /\ Go(c, [t EXCEPT !.step = "commit"])
                /\ sharers' = [sharers EXCEPT ![a] = @ \cup {c}]
                /\ UNCHANGED <<writes, itemLock, assetLock, locationLock>>
           ELSE Refuse(c, "bad_request")

\* Mutant: no foreign key on the mode, so that the count of the rows decides.
RetagAnyway(c) ==
    At(c, "retag") /\ Go(c, [txn[c] EXCEPT !.step = "scanAsset"]) /\ UNCHANGED <<writes, locks>>

\* update_asset: the foreign key of the rows holds the mode they were made with.
RetagAsset(c) ==
    LET t == txn[c]
    IN  /\ At(c, "retag")
        /\ IF RowsAgainst(t.request.asset, t.request.mode) = {}
           THEN Go(c, [t EXCEPT !.step = "scanAsset"]) /\ UNCHANGED <<writes, locks>>
           ELSE Refuse(c, "bad_request")

-----------------------------------------------------------------------------
\* fetch_inventory_items_for_asset_for_update: the rows the statement sees ..
ScanAsset(c) ==
    LET t == txn[c]
    IN  /\ At(c, "scanAsset")
        /\ Go(c, [t EXCEPT !.step = "pick", !.left = LiveOf(t.request.asset)])
        /\ UNCHANGED <<writes, locks>>

\* .. and clear_inventory_item_locations_in_tree, ..
ScanLocation(c) ==
    LET t == txn[c]
    IN  /\ At(c, "scanLocation")
        /\ Go(c, [t EXCEPT !.step = "pick",
                           !.left = {i \in Live : items[i].location = t.request.location}])
        /\ UNCHANGED <<writes, locks>>

\* .. taken in any order.
PickNext(c) ==
    LET t == txn[c]
        op == t.request.op
        visit == IF op = "deleteLocation" THEN "clear" ELSE "relock"
        end == CASE op = "setMode" -> "commit" [] op = "deleteAsset" -> "erase" [] OTHER -> "drop"
    IN  /\ At(c, "pick")
        /\ \/ t.left = {} /\ Go(c, [t EXCEPT !.step = end])
           \/ \E i \in t.left : Go(c, [t EXCEPT !.step = visit, !.target = i])
        /\ UNCHANGED <<writes, locks>>

LockScanned(c) ==
    LET t == txn[c]
    IN  /\ At(c, "relock")
        /\ Go(c, [t EXCEPT !.step = "pick", !.left = @ \ {t.target}])
        /\ IF IsRow(items[t.target]) THEN TakeItem(c, t.target) ELSE UNCHANGED locks
        /\ UNCHANGED writes

\* A row the UPDATE had to wait for is cleared only if it still stands there.
ClearRow(c) ==
    LET t == txn[c]
        row == items[t.target]
    IN  /\ At(c, "clear")
        /\ IF IsRow(row) /\ row.location = t.request.location
           THEN /\ Go(c, [t EXCEPT !.step = "write",
                                   !.rest = <<[row EXCEPT !.location = NoLocation]>>])
                /\ TakeItem(c, t.target)
           ELSE Go(c, [t EXCEPT !.step = "pick", !.left = @ \ {t.target}]) /\ UNCHANGED locks
        /\ UNCHANGED writes

\* delete_asset: the rows that are there now go with it, locked or not.
EraseAsset(c) ==
    LET a == txn[c].request.asset
    IN  /\ At(c, "erase")
        /\ items' = Without(LiveOf(a))
        /\ assets' = [assets EXCEPT ![a] = "gone"]
        /\ UNCHANGED locations
        /\ Done(c)

\* fetch_location_for_update, by delete_location.
LockLocationRow(c) ==
    LET t == txn[c]
        l == t.request.location
    IN  /\ At(c, "lockLocation")
        /\ IF locations[l] = "present"
           THEN Go(c, [t EXCEPT !.step = "scanLocation"]) /\ TakeLocation(c, l) /\ UNCHANGED writes
           ELSE Refuse(c, "not_found")

\* delete_location_tree: a row that still refers to the location forbids it.
DropLocation(c) ==
    LET l == txn[c].request.location
    IN  /\ At(c, "drop")
        /\ IF \A i \in ItemId : IsRow(View(c, i)) => View(c, i).location # l
           THEN /\ items' = Written(writes[c])
                /\ locations' = [locations EXCEPT ![l] = "gone"]
                /\ UNCHANGED assets
                /\ Done(c)
           ELSE Refuse(c, "conflict")

\* create_location, under a new uuid.
AddLocation(c) ==
    /\ At(c, "addLocation")
    /\ \E l \in Location :
         /\ locations[l] = "unborn"
         /\ locations' = [locations EXCEPT ![l] = "present"]
    /\ UNCHANGED <<items, assets>>
    /\ Done(c)

CommitWork(c) ==
    LET r == txn[c].request
    IN  /\ At(c, "commit")
        /\ items' = Written(writes[c])
        /\ assets' = IF r.op \in {"createAsset", "setMode"} THEN [assets EXCEPT ![r.asset] = r.mode]
                     ELSE assets
        /\ UNCHANGED locations
        /\ Done(c)

-----------------------------------------------------------------------------
Busy(c) == txn[c].step # "idle"
WaitsFor(c) == IF Busy(c) THEN Blockers(c) ELSE {}

\* The clients of S wait for one another in a circle.
Deadlocked(S) ==
    S # {} /\ \A c \in S : WaitsFor(c) \cap S # {} /\ \E d \in S : c \in WaitsFor(d)

\* The database aborts one transaction of a deadlock, answered with a 500.
AbortDeadlocked(c) ==
    /\ \E S \in SUBSET Client : c \in S /\ Deadlocked(S)
    /\ Refuse(c, "error")

Statements(c) ==
    \/ LockNamed(c) \/ CheckFound(c)
    \/ PreparePatch(c) \/ PrepareSplit(c) \/ ValidateRow(c) \/ WriteRow(c)
    \/ FindSplitTarget(c) \/ TakeSplitTarget(c) \/ FoldRows(c) \/ EraseRows(c)
    \/ LockAssetRow(c) \/ DrawNumbers(c) \/ InsertRow(c) \/ CheckReference(c) \/ RetagAsset(c)
    \/ ScanAsset(c) \/ ScanLocation(c) \/ PickNext(c) \/ LockScanned(c) \/ ClearRow(c)
    \/ EraseAsset(c) \/ LockLocationRow(c) \/ DropLocation(c) \/ AddLocation(c)
    \/ CommitWork(c) \/ AbortDeadlocked(c)

TxnNext == \E c \in Client : Begin(c) \/ Statements(c)

TxnSpec == TxnInit /\ [][TxnNext]_txnVars

\* The database runs every statement that is not blocked; clients need not ask.
FairSpec == TxnSpec /\ \A c \in Client : WF_txnVars(Statements(c))

-----------------------------------------------------------------------------
\* Every request changes the committed tables the way one action of the ledger
\* does, whatever other requests run between its statements, or not at all.
\* (This is the Spec of InventoryLedger, with the steps that change no table
\* looked at first.)
ImplementsLedger == Init /\ [][UNCHANGED vars \/ Next]_vars

\* "Locks a whole batch in id order, so two concurrent batch operations touching
\* overlapping sets cannot deadlock": requests that wait for the rows they name
\* never wait for one another.
OverlappingBatchesNeverDeadlock ==
    \A S \in SUBSET Client :
        Deadlocked(S) => \E c \in S : txn[c].step # "lock"

\* Every request is answered: deadlocks are broken, and no handler waits for a
\* lock that is never released (unless the bounded uuids run out).
OutOfUuids ==
    \E c \in Client : \/ txn[c].step = "insert" /\ Undrawn = {}
                      \/ txn[c].step = "addLocation" /\ \A l \in Location : locations[l] # "unborn"
EveryRequestAnswered == \A c \in Client : Busy(c) ~> (~Busy(c) \/ OutOfUuids)

=============================================================================
