# lab-inventory: a TLA+ verification development

lab-inventory is a web service (Rust, actix-web, PostgreSQL, Redis) in which
laboratories keep assets, the stock of each asset, and the places the stock
stands at; members of other laboratories borrow it, some of them through a
federation of nodes. Its state is in PostgreSQL, and the files of its
attachments on disk. A handler is a sequence of SQL statements in one
transaction, and the questions worth a model are the ones between two
statements: what a handler read and still relies on when it writes.

Paths below are relative to `src/backend/src/routes/` unless they start with
`src/` or `docs/`; the schema is
`src/backend/migrations/20260430000000_initial_schema.sql`.

## 1. The system

| component | state | operations | talks to | what makes it correct |
|---|---|---|---|---|
| inventory items (`inventory_items/`) | `asset_inventory_items`: tracking mode, serial number, batch, location, status, quantity on hand and allocated; two unique indexes (one row per combination, one row per serial number) | create, generate serial numbers, patch, batch patch, split, merge, delete, batch delete | assets (mode, row lock), locations (row lock), borrow requests (cascade) | no stock created or lost by a move; what is allocated is on hand; rows have the mode of their asset; every write under the row's lock |
| assets (`assets/`) | `assets`: unit, mode, category; parameter values, attachments | create with opening stock, update (mode, unit, category, values), delete | items, categories, parameters, attachments | mode changes only without rows; required values are there |
| locations (`locations/`) | tree: `parent_id`, `path` (codes from the root) | create, move/rename with everything below, delete with everything below | items (their location is cleared) | paths follow parents; no cycles; no orphans |
| asset categories (`asset_categories/`) | a tree like that of locations; which parameters a category requires | the same, plus replacing assignments | assets, parameters | the same; assets are filed under categories that exist |
| asset parameters and filters (`asset_parameters/`, `shared/`) | definitions, options, values | create, replace options, change type with migration of the values, delete; search | assets, categories, units | values fit their definition; a filter finds what it means |
| units (`units/`) | dimension and scale | create, update, delete | parameters, values | a new amount is stored in the unit's scale |
| borrow requests (`borrow_requests/`) | `federation_borrow_requests`: item, requester, guest link, status | create, approve, reject, cancel | items (status), users, guest links | at most one pending request per item; one decision per request; an approval takes an available item |
| guest links (`federation/service.rs`) | `federation_guest_links` and shadow accounts in `users` | first visit, later visit, merge, account delete | every signed request | one identity per visitor and laboratory; real accounts survive merges |
| pairing (`federation/`) | codes, secrets and trusts on two nodes | offer, accept, store, revoke | the remote node | a code is accepted once; nobody trusts a laboratory that has not agreed; the two secrets are one |
| request signing (`federation/security.rs`, `inbound.rs`) | nonces, clock | sign, verify, sweep | every signed request | no request is served twice within its time to live |
| uploads and attachments (`file_uploads/`, `attachments/`) | `file_uploads`, attachment rows, blobs on disk | upload, attach, patch, delete, move | assets, items | no row without its blob; no blob kept without a fault |
| users, sessions, guest registration (`users/`, `auth/`, `guests/`) | roles, laboratories, passwords, sessions, one registration code per laboratory | create, update, delete, login, change of password, issue a code, register | everything | nobody holds a role nobody may give; an invitation stands when it is used, and is used once |
| access control (`src/backend/src/access_control.rs`) | none | who may do what | every handler | nobody acts outside the laboratory of the request |
| startup (`src/backend/src/startup.rs`, `bootstrap.rs`) | root's password | initial password, admin command | users | a restart does not undo a password |
| labels, audit log, idempotency, configuration, web and desktop front ends | little or none | rendering, inserts, wiring | - | - |

**How they interact.** Components share one database and call each other's
query functions inside one transaction; there are no messages inside a node.
What couples them is row locks (`SELECT .. FOR UPDATE`), unique indexes, foreign
keys with their cascades, and the READ COMMITTED isolation level. Nodes send each
other signed HTTP requests. The disk is written before, and cleared after, the
transaction that names a file.

**What is hard.** (1) A value read before a wait and used after it: an `UPDATE`
acts on the rows of its own snapshot, and re-checks only rows it waited for.
(2) Lock order: cascades lock in an order the handler did not write.
(3) Derived data: paths, base amounts and migrated values are stored with each
row and rewritten by a statement that may miss a row. (4) Errors in the middle
of a transaction, every one of which must roll back and release. (5) The unique
indexes, which make a legal looking write fail, sometimes for ever. (6) Between
nodes: lost replies, repeated pairings, late and repeated deliveries. (7)
Between disk and database: a crash between the two. (8) Rights: they are judged
by what the middleware read, and used by a later transaction.
`PROJECT.json` lists the hazards, each with its line.

## 2. Modules

| module | models | extends / instantiates |
|---|---|---|
| `InventoryLedger` | what the inventory endpoints promise: one atomic step per committed request | - |
| `InventoryTransactions` | the same endpoints, statement by statement under row locks | extends and implements `InventoryLedger` |
| `InventoryNumbers` | the same, with a history of the numbers that are drawn and that a PATCH gives away | extends `InventoryTransactions` |
| `BorrowContract` | what borrowing promises: whole operations on items and requests, no locks | - |
| `BorrowRequests` | borrow requests, and the patches and deletes that race with them | implements `BorrowContract` |
| `GuestLinks` | first visits, merges of links, deletes of accounts | - |
| `LocationTree` | the tree of locations with its stored paths | - |
| `TrustAgreement` | what federation promises two laboratories | - |
| `Federation` | pairing, revocation and signed requests between nodes | implements `TrustAgreement` |
| `Files` | uploads, attachments and the blobs on disk | - |
| `Catalogue` | parameters, options, values, units, categories and filters | - |
| `AccessControl` | the permission table and the laboratory a request acts for: operators only | - |
| `Accounts` | users, sessions, registration codes, laboratories, the start of the server | `AccessControl` |
| `InventoryProofs` (`InventoryLedger`, `InventoryTransactions` and `InventoryNumbers`), `BorrowRequestsProofs`, `FederationProofs`, `AccountsProofs` (with those of `AccessControl`), `FilesProofs`, `GuestLinksProofs`, `LocationTreeProofs`, `CatalogueProofs` | theorems | the module they are named after, `TLAPS` |
| `MC*` | constants, request sets and symmetry for TLC | the module they are named after |

### Conventions

*PostgreSQL.* Every module that goes down to statements uses the same rules,
which are those of READ COMMITTED. Writes are private until the commit. A
statement sees what is committed when it starts. `FOR UPDATE`, `UPDATE` and
`DELETE` of a row wait for the holder of its lock; afterwards the statement sees
the row as it is now and skips it if it no longer satisfies the `WHERE`, but it
never sees rows that were not in its snapshot. A row that is inserted takes a
shared lock on the row its foreign key names. A write of a unique key waits for
an uncommitted rival with that key and then fails or goes on. When transactions
wait for one another in a circle, one of them is aborted (`AbortDeadlocked`). An
error rolls back the transaction and releases its locks (`Refuse`). Steps that
no other transaction can see apart (the last writes to locked rows, and the
commit) are one step.

*Shape.* In the newer modules a connection is a record `txn[w]`: the request,
the step it is at, what it read, and the locks it holds. `Wanted(w)` is the rows
whose locks the next statement takes or waits for, `Blockers(w)` who holds one
of them; `At(w, op, step)` is the guard of every statement. A menu, chosen with
the first state, says which kinds of request a behaviour is made of, so that one
run covers several mixtures without their product.

*Data.* UUIDs, batch numbers, codes and statuses are members of small sets; NULL
is a value outside the set (`NoBatch`, `Root`, `Nobody`, `Null`). A UUID is used
for one row, so a table is a function from UUIDs to rows, with `Unused`/`Null`
before and `Gone`/`Deleted` after. Quantities are whole numbers; the schema has
NUMERIC. A generated serial number `#N` is the number N. Who may call an
endpoint is `AccessControl`; the modules about one table assume a caller who may,
except where it is decided inside (who may cancel a borrow request).

*Mutants.* A definition marked "Mutant" is a plausible mistake in the code next
to the correct definition. It is never part of a specification: it replaces the
correct definition to show that the property named in `PROJECT.json` notices.

### InventoryLedger

State: `items` (rows by UUID), `assets` (tracking mode of each), `locations`.
`CreateAsset`, `ChangeTrackingMode`, `DeleteAsset` are `assets/create.rs`,
`update.rs`, `delete.rs`; `CreateQuantityItem`, `CreateSerializedItems`,
`UpdateItem`, `BatchUpdate`, `Split`, `Merge`, `DeleteItems` are the endpoints
of `inventory_items/`; `CreateLocation`, `DeleteLocations` are those of
`locations/` as far as items notice. `UniqueIndexes` is the two partial unique
indexes. `InventoryTransactions`, which refines it, shows that no interleaving of
statements leads to anything else. It has no run of its own: the `transactions`
run checks its properties of the interleaved statements, and their proofs are of
its own specification, for any number of assets, batches and locations.

### InventoryTransactions

State: the committed tables, and per client a record `txn[c]` (the request, the
step it is at, the rows it has left to visit, the row it is at, the rows it has
left to write), its uncommitted `writes`, and the last `reply`; and the row locks
`itemLock`, `assetLock`, `locationLock` and `sharers`. Every statement is an
action, and `Blockers(c)` says whom it waits for:

| handler | statements |
|---|---|
| patch, batch patch | `LockNamed` of each row in id order, `CheckFound`, then per row `PreparePatch`, `ValidateRow`, `WriteRow`; `CommitWork` |
| split | `LockNamed`, `CheckFound`, `PrepareSplit`, `ValidateRow`, then `FindSplitTarget` and `TakeSplitTarget` (the two halves of `find_quantity_aggregate_for_update`), or else `InsertRow` and `CheckReference` (foreign key); `CommitWork` |
| merge; delete, batch delete | `LockNamed`, `CheckFound`, and `FoldRows` or `EraseRows`, which commit |
| create items | `LockAssetRow`, `ValidateRow`, `DrawNumbers` if they are generated, `InsertRow` per row; `CommitWork` |
| create asset | per row `ValidateRow` and `InsertRow`; `CommitWork` |
| change of mode, delete of an asset | `LockAssetRow`, `RetagAsset`, `ScanAsset`, `PickNext` and `LockScanned` per row; `CommitWork` or `EraseAsset` |
| delete of a location | `LockLocationRow`, `ScanLocation`, per row `PickNext`, `ClearRow`, `WriteRow`; `DropLocation` |

`Refuse` is every early return: the transaction rolls back. Of what the handlers
read besides, `txn[c]` keeps only what a later decision needs: `stocked`, whether
the asset had rows when the request came (the count in `fetch_asset_for_update`).
The refinement mapping is the identity on the committed tables.

### InventoryNumbers

A request that generates serial numbers draws them under the lock of the asset,
which every request that creates rows takes; a PATCH of a serial number locks its
row and no asset. `InventoryNumbers` adds one history variable to the
transactions, `taken`: for each request that has drawn numbers, the ones that
PATCHes have given to rows of its asset since. No step depends on it.

### BorrowContract and BorrowRequests

State: item statuses, requests, accounts, one transaction per connection, and
the row locks of items and requests. `LockItem`, `CheckPending`, `FileRequest`
are `borrow_requests/service.rs:84` and on; `LockRequest`, `Resolve` are
`resolve.rs`; `Cancel` is `cancel_borrow_request_in_transaction`; `Patch`,
`LockCascade`, `Delete`, `DeleteGuest` are the requests of other components that
race with them. The query of a decision locks two rows of a join and the planner
chooses which first: the model has both orders. `Twin` names rows that differ in
status only, so that marking one of them borrowed can meet the aggregate index.
The delete of a guest takes the guest link by cascade, and its requests keep
neither requester nor link.

`BorrowContract` is what remains for the people at the shelf: an item is
`available`, `away` or `gone`, a request has a phase and an item. `File` needs an
available item that nobody is asking for, although the code reads the status, the
pending requests and the account in three statements and inserts in a fourth;
`Approve` takes the item off the shelf in the same step; `Remove` takes the
requests along. The mapping reads both tables and forgets locks, transactions,
requesters and what kind of `away` an item is.

### GuestLinks

State: accounts, links, one transaction per connection, row locks of links,
shared locks on accounts (foreign key of a link that is being pointed at one)
and exclusive ones (an account that is being deleted). `Touch`, `MakeShadow`,
`InsertLink` are `resolve_guest_link`; `LockLink`, `PointAtTarget`,
`CheckOldAccount`, `EraseOldAccount`, `LockCascade`, `CommitMerge` are the merge;
`DeleteUser` is the delete of an account with its cascade. Accounts keep their
role and laboratory here; how those change is in `Accounts`.

### LocationTree

State: the nodes with their parent and stored path, one transaction per
connection with its uncommitted writes, the row locks, and `raced`, a history
variable: has a move ever overlapped another request. `LockSelf`, `ResolveParent`,
`WriteNode`, `Drag`, `Commit` are create and update, `Drag` being one row of
`update_descendant_paths`; `ScanTree`, `LockTree`, `ScanDelete`, `EraseNode`,
`FinishDelete` are the delete, whose two statements have a snapshot each.
`fetch_location_tree_for_update` locks in path order; the model locks in any
order, which has the code's order among its behaviours. The items that stand at
a location are in the two inventory modules.

### TrustAgreement and Federation

`TrustAgreement` is the contract of two laboratories, seen from nowhere: a code
is offered and given up once (`Offer`, `Accept`); the other half follows one that
exists (`Confirm`); a half is revoked and restored but never forgotten; requests
are served between laboratories that both agreed at some time.

`Federation` has the databases of all nodes: `code`, `peer` (the secret of
`federation_remote_nodes`), `trust` (one half of a trust per ordered pair),
`nonce`; the calls under way: `pairing` (`create_trust`), `request`
(`proxy_get`, `proxy_post`), `delivery` (what the network makes of a request at
the other node); and `now`. `PostPairing` is `create_trust` up to its POST,
`AcceptPairing` the transaction of `accept_pairing` at the other node,
`StoreTrust` the rest of `create_trust`. `RefusePairing`, `LoseReply` and
`FailStore` are its failures; the POST of a requester who stopped waiting can
still be executed. `AuthorizeProxy` and `SignRequest` read the trust and the node
in two statements. A request is delivered up to `MaxDeliveries` times, at any
time, overlapping; `ReadNode`, `ReadTrust`, `SweepNonces`, `InsertNonce`,
`Respond` are `verify_inbound_request` and `handle_inbound` statement by
statement. Timestamps are whole seconds of a clock that may be ahead (`Skew`),
the database's time is finer (`TicksPerSecond`). `unsettled` is a history variable:
the pairs of nodes whose last pairing did not run alone to its end. The
refinement mapping reads the codes that are open, the halves, and the requests
served.

### Files

State: `blobs` (the disk), `upload`, `attachment`, `owners` (one asset and its
items), `txn`, and what faults have met (`spoiled`). `StoreUpload`,
`InsertUpload` are `upload_file`; `LockUpload`, `DeleteUpload` its delete;
`ConsumeUpload`, `InsertAttachment`, `CommitAssign` are
`assign_uploaded_attachments`, alone or at the end of the creation of an owner;
`LockAttachment`, `PatchAttachment`, `DeleteAttachment` the attachment's own
endpoints; `LockOwner`, `LockItems`, `DeleteOwner`, `Merge` the deletes and the
merge of its owners. The merge is here as the code has it, with the move of
attachments; `NoMergeCandidates` of the ledger shows that the branch is never
taken, so no property is about it. A commit that drops files leaves a list to remove, one file
per `RemoveBlob`, without any lock. Faults: `Crash` anywhere, `FailInsert` (whose
answer can be lost after the commit), `FailRemove`.

### Catalogue

State: one `parameter`, its `options`, the `values` assets have for it, `units`,
`assets` by category, `categories` by path, and which categories `required` it.
`BeginAsset` to `CommitAsset` are the parameter half of `assets/create.rs` and
`update.rs` (`LockOwnValue`, `ValidateCategory`, `FetchDefinition`,
`FetchUnitOfValue`, `ValidateOption`, `ValidateRequired` are its statements in
order); `LockParameter` to `UpdateParameter` are `asset_parameters/`, with the
migration of stored values (`Migrated`) and the replacement of options
(`Replaced`, `Matched`, `Kept`) as operators; `LockCategory` to
`DeleteCategories` are `asset_categories/`. `Acceptable`, `Compared` and
`Selects` are what `push_parameter_filters` asks of a row. Number stands for
range, text for boolean and date: they are stored and compared alike.

### AccessControl and Accounts

`AccessControl` is `access_control.rs`: an operator per helper, `Permitted` for
`validate_permission` (an actor, a kind of resource, an action, a row),
`HasContext` and `AuthorizationActor` for the laboratory a request acts for. An
upload that the check does not find is permitted and left to the transaction to
refuse: a missing one for `can_manage_file_upload`, also a used or expired one
for `can_assign_file_upload` (`CanManageUpload`, `CanAssignUpload`).

`Accounts` uses them. State: `users`, `labs`, `sessions`, `codes`, how far the
start of the `server` is, `txn`, and the history of who was given which role
(`granted`) and how many guests a code let in (`admitted`). A request starts with
the actor as the middleware read it (`Begin*`); `FetchTarget` reads and judges
the account to change, `UpdateUser`, `RemoveUser`, `InsertUser` write later.
`LockLaboratory`, `RevokeCode`, `InsertCode` are `create_guest_registration_code`,
the attempts at a free secret as one choice; `ConsumeCode` and `AdmitGuest` are
`register_guest`; `BeginLogin`/`OpenSession`, `Logout`, `EndOrphanedSession`,
`BeginChangePassword`/`SwapPassword` the sessions. `CheckSeeded`, `SetInitial`,
`EnsureRotated` are `prepare_database`, statement by statement, beside
`SetPasswordCommand`; the initial password and the check of its rotation are
settings that a deployment may have or not (they are in the menu). `Restart` ends
the requests and keeps rows and sessions. What `now()` says is the beginning of a
transaction: `txn[w].late` is the codes that had expired by then.

## 3. What is checked

Every run is exhaustive within its bounds.

| run | shows | bounds |
|---|---|---|
| `transactions` | `ImplementsLedger`: every commit is a step of the ledger, so no update is lost and a deleted location leaves no stock behind. With the requests interleaved, the committed tables keep what the ledger promises: `NoMergeCandidates` (no two rows that a merge accepts, so merging always answers 400), `RowsFollowTheirAsset`, `AllocatedIsOnHand`, `AllocationsGoOnlyWithTheirAsset`, `StockIsConserved` (stock that leaves one row for another keeps its sum), `TypeOK`. `OnlyPatchesTakeDrawnNumbers`: a request that generates numbers is answered that one is taken only when a PATCH has taken it since it was drawn. `OverlappingBatchesNeverDeadlock`, `EveryRequestAnswered` | 2 connections, 3 rows; 5 requests on the stock of a quantity asset, or 4 on serial numbers (PATCHes to drawn ones among them), modes and batches, or 5 on stock at a location that may go; the integer cast ends at 2 |
| `borrowing` | `BackstopNeverReached`: the lock of the item makes the unique index a mere backstop; `RequestsHaveTheirItem`, `ApprovalTakesAnAvailableItem`; `ImplementsContract`: statements that overlap have the effect of whole operations, each request filed for an item available at that moment and decided once; `EveryTransactionEnds`, although deletes and decisions lock in opposite orders | 2 connections, 2 items, 2 requests, a local and a remote guest |
| `guest_links` | `OneLinkPerVisitor`, `MergesSpareRealAccounts`, `EveryTransactionEnds` | 2 connections, 2 visitors, 3 accounts, 2 links |
| `guest_links_merge_race` | *refuted*: a merge never deletes an account another just linked (finding 1) | the same |
| `location_tree` | `ParentsExist`, whatever overlaps; `UnracedMovesKeepPaths` as long as no move overlaps another request | 2 connections, 3 locations, 2 codes, depth 4 |
| `location_tree_detached` | *refuted*: a move never makes a location its own ancestor (finding 2) | the same |
| `federation` | `ImplementsAgreement`: the two nodes together keep the contract; `SettledSecretsAgree`: a pairing that ran alone leaves one secret, whatever came before; `ServedOncePerTtl`: deliveries that overlap, and clocks that differ, do not run a request twice within its time to live | 2 nodes, 3 laboratories, 2 codes and 2 pairings (crossing, repeated, failing), 1 revocation; or 1 pairing beside a request delivered twice, at any of 6 half seconds, a ttl of 1 s, a clock up to 1 s ahead |
| `files` | `RowsHaveTheirFile`, `OrphansComeFromFaults`, `PatchesKeepOtherFields`, `EveryRequestAnswered` | 2 connections, 5 requests, 1 fault, 2 uploads, an asset with an item and one that is created |
| `catalogue` | `ValuesAreReadable`, `NewValuesFit` while types, options and units change; `FiltersFindWhatIsMeant` also among migrated values; `RequiredValuesAreThere`, `AssetsAreFiledSomewhere` while categories change; `PlainListsAreFollowed`: how options are matched | 2 connections, 4 requests, five laboratories to begin with, 1 asset, 2 units of one dimension or two, 2 categories, lists of up to 2 options, 6 option rows |
| `catalogue_options` | *refuted*: a list that mixes ids and codes is followed (finding 3) | the same |
| `accounts` | `RolesWereGranted`: stale checks and whole-row writes give nobody a role that nobody entitled gave; `InvitationsStand`, `CodesAdmitOneGuest`, `CodesAreGenerated` while codes are replaced and issuers lose their role | 2 requests at a time, 4 in all; 5 accounts, 2 laboratories, 2 codes with 1 secret, 3 passwords; ten situations to begin with, the starts of the server with and without its two settings among them |
| `accounts_password_race` | *refuted*: the start of the server replaces none but the seeded password (finding 4) | the same |

**Why the bounds are enough to be interesting.** Three rows are a source, a
target and a rival for the same key; three locations are a chain with a middle,
and a chain is what stale paths need. Two connections give every race of a pair
of requests, and a connection serves several requests in turn, so "two requests
raced earlier, a third acts on the result" is covered. Five requests create an
asset and its rows and leave three that race; a bound on the number of
requests is needed because their number is part of the state. `MaxQuantity` is
at least two, so that stock splits and sums differ from their parts.
`Int32Max = 2` with serial numbers up to 5 puts the end of the integer range
within reach. Two pairings are what it takes to cross, to repeat after a loss,
and to spend a code twice; the third laboratory makes two pairings of one pair of
nodes that are not of one pair of laboratories. A time to live of two half
seconds with six of them lets a nonce expire, be swept, and its request come
again; whole seconds and half seconds make rounding matter. One secret for two
codes makes every draw a collision. Six option rows leave a row for every option
that four requests can make, so none is refused for want of one. What two
connections cannot show is a circle of three waiters.

All runs but `federation` set `CHECK_DEADLOCK FALSE`: the sets of UUIDs and the
number of requests are finite, so the system stops when they are used up; that
the handlers do not stop is what the liveness properties say. `Federation` has a
step `Done` for the end, so TLC would report a pairing that is stuck.

Symmetry is used for connections, UUIDs, visitors and codes, where no definition
orders or names one, and never with a liveness property.

**Fairness.** `InventoryTransactions` (with `InventoryNumbers`) has weak fairness of the statements of
each client: the database runs a statement that nothing blocks, and breaks
deadlocks. Clients are not obliged to send requests. `BorrowRequests`,
`GuestLinks` and `Files` take strong fairness of the statements of each
connection: PostgreSQL queues the waiters of a row, so a statement that is
unblocked again and again is not passed over for ever. Nothing is assumed about
the order of waiters, about faults, or about the passing of time. `Catalogue`,
`Accounts` and `Federation` state safety only.

**Refinements.** `InventoryTransactions` implements `InventoryLedger` (the
identity on the committed tables), `Federation` implements `TrustAgreement`
(`Agreement`), `BorrowRequests` implements `BorrowContract` (`Contract`). All
three are checked and proved.

## 4. What is proved

TLAPS checks the theorems for any number of rows, assets, locations,
connections, items, requests, guests, nodes, laboratories, accounts, codes,
categories, units and options.

*Assumptions* are those in the modules: NULL and the tombstones differ from
proper values, bounds are natural numbers, generated serial numbers differ from
hand-made ones, and there are finitely many UUIDs, 122 random bits
(`InventoryLedger`); UUIDs are numbers, which have an order (`OrderAssumption`),
`Nobody` is no client, requests are what the parsers let through
(`RequestAssumption`), and the serial numbers that a request generates from a
number that fits the integer cast are within the bound of the model
(`GenerateAssumption`; all `InventoryTransactions`); remote guests are guests and have a link, a
transaction is not `Nobody` (`BorrowRequests`); laboratories that pair are on
different nodes, a second has ticks (`Federation`); root exists as a name, there
is a password besides the migration's, the accounts to begin with are accounts
and the server is up or down (`Accounts`); there are finitely many uploads, an
asset is no item, and the uploads a request names differ, which the handler
checks (`Files`); real accounts have a laboratory, and `Nobody` and the
tombstones are no rows, requests or workers (`GuestLinks`, `LocationTree`);
paths have a positive bound on their length (`LocationTree`). `Catalogue` has
four: a list of options names no code and no id twice (`ListAssumption`, what
`validate_updated_options` refuses); amounts and bounds of filters are natural
numbers, with a unit or none (`InputsAssumption`); NULL and the tombstone are no
values (`NullsAssumption`); a laboratory to begin with is one that requests could
have made: paths follow the tree, assets are filed under categories that are
there, and a value has its parameter's type and column (`StartAssumption`).

**InventoryProofs**, the ledger. Its invariants are not
inductive one by one. A split keeps on-hand quantities natural numbers only
because allocated amounts are natural and covered; a row keeps its mode only
because the mode of an asset changes without rows. `IndInv` joins the types,
`UniqueIndexes` and, of every live row, `SoundRow` (mode of its asset, present
location, allocated within on hand, serialized rows whole). One lemma per action
shows that it keeps `IndInv`; those that write rows rest on `WriteKeepsIndInv`.
The merge is the interesting case: under `UniqueIndexes` its accepting branch
cannot be taken, which is `NoMergeCandidates`. The totals of `StockIsConserved`
are numbers of pieces, so that they are sums without a recursion: a split moves
pieces from one row to another, one to one. Theorems: `LedgerInvariant`,
`TypeCorrect`, `MergeNeverApplies`, `SerializedRowsAreWhole`,
`RowsKeepTheirAsset`, `LocationsAreReferentiallySound`, `AllocationsAreCovered`,
and the action properties `AllocationsOutliveDeletes` and `SplitsConserveStock`.

**InventoryProofs**, the transactions. A handler decides by rows that it read
statements ago. `TxnInv` says, request by request and step by step, what it knows
of them now (`Fits`): a patch, that the rows it has written are those it would
make of the rows as they are, and that it has locked them and their new
locations; a split, that its source still covers the quantity; a request that
creates rows, that it has the asset locked and the asset has the mode of the
rows; a change of mode, that the asset has no row or its mode is right already;
a delete of a location, that what it has cleared stands there. With it go
`IndInv` of the committed tables, that every write is to a row that its client
has locked (`WritesAreLocked`), that each client sees unique keys
(`ViewsAreUnique`), and that no two clients have written rows with one key
(`NoRivalWrites`): the unique indexes are enforced against what a transaction
sees and has to wait for, and this is what makes them hold of the tables when
both have committed.

The argument is again one of rely and guarantee. `Apart(c)` is what a step of
another client may do to what c knows; `ApartFits` shows that `Fits(c)` survives
it. `LocksGrow` and `Releasing` cover the locks, `Considerate` and `CommitIsApart`
the commit: rows that others have locked, their locations and their assets stay,
and no row of an asset comes that another has locked. There is one lemma per
statement (`...Keeps`), and it ends in one of four: `GoingOn` (nothing is written),
`WritingStep`, `CommittingStep` and `RefusingStep`. The lemma of a statement that
commits also shows that the commit is an action of the ledger. From `TxnInv`:

- `TransactionsImplementTheLedger`, and with it `CommittedTablesAreSound` and
  `CommitsConserveStock`: whatever the ledger promises stands under concurrency.
- `IdOrderPreventsDeadlock`. A request has locked none but rows below those it
  has left (`LockingFits`), so whoever waits for a row that it names waits for a
  client that waits for a greater one (`WaitingClimbs`); a circle of such waits
  has a least row, and nobody in it waits for the client that waits for that row.
- `GeneratedNumbersYieldToPatchesOnly`, of `InventoryNumbers`. The numbers drawn
  and not yet inserted are above those of the asset's rows, the ones in `taken`
  aside, and of those inserted first; it lasts because nobody but a PATCH adds a
  number to an asset that is locked. So an insert that is refused meets a number
  in `taken`: creates and other generations never collide with a drawn number,
  and a PATCH to the form `#N` can, since it takes no lock on the asset.

**BorrowRequestsProofs.** `IndInv` says of each transaction what it knows at its
step and that it knows it because of its locks (`Fits`): a transaction that is
about to file holds the lock of the item, which is still available, and no
request for it is pending. No two transactions draw one UUID (`DistinctDraws`), locks are on rows that exist
(`LocksFit`). The argument is a rely-guarantee one: `Considerate(w)` states what
a transaction may do to the others (it changes only items it has locked and files
requests only for those, it removes only rows nobody else has locked), and `EndKeepsIndInv` shows
once that such writes disturb nobody. Theorems: `Inductive`, `TypeCorrect`,
`PendingCheckSuffices`, `NoOrphanRequests`, `OneDecision` (a decided request never
changes again), `ApprovalsAreSound`,
and `TransactionsKeepTheContract`: every step maps to a step of `BorrowContract`
(`FileRequest` to `File`, `Resolve` to `Approve` or `TurnDown`, `Cancel` to
`TurnDown`, `Patch` to `Move`, `Delete` to `Remove`) or to a stutter. `FileRequest`
is the step that needs the invariant: its guard does not look at the item again.

**FederationProofs.** `NodesKeepTheAgreement` is the refinement. No node sees
both halves of a trust, so what it relies on was done at the other node earlier,
and the invariant says that it was not undone: an accepted pairing has its half
at the issuer (`AcceptedFirst`), a request that was signed has the half of its
sender (`SignersTrust`), a delivery past the check of the trust has that of the
receiver (`VerifiersTrust`). They hold for ever because halves are revoked and
never forgotten (`HalvesArePreserved`). Each step then maps to a step of
`TrustAgreement` (`AcceptPairing` to `Accept`, `StoreTrust` to `Confirm`,
`Respond` to `Serve`) or to a stutter. Two more invariants stand on the first.
`ReplayInv`: while the window of a delivery that ran is open its nonce is stored,
and it is stored for as long as the window, so a sweep cannot take it
(`NoncesGuard`); a second delivery therefore runs after the window or not at all
(`RanApart`), which gives `RequestsRunOncePerTtl` in spite of the rounding of
seconds. `SecretInv`: two nodes are unsettled from the acceptance of a pairing to
its storing (`AcceptedIsUnsettled`); a pairing that met no other is the only one
of its two nodes (`AloneIsAlone`), so the secret it brought is still the
issuer's when the requester stores it (`AloneKeepsSecret`), which gives
`PairedNodesShareTheSecret`.

**AccountsProofs**, access control. The permission table is spread over the arms of
`validate_permission`; the theorems are about the table as a whole:
`GrantsAreWithinRank`, `AccountsOfALaboratoryStayThere` and, for everybody who
acts through a laboratory's context, `RequestsOfALaboratoryStayThere`;
`GuestsOnlyLook`; `AdminsMayWhatMembersMay`. The first two have two exceptions.
One is reading an upload, which any account may. The other is `assign`: whoever asks
for an upload that is missing, used or expired is permitted here, and refused by
the transaction that looks at it under its lock (`Consumable` of `Files`). That
requests stay in their laboratory is a fact about the table that no step can
change, so it is a theorem and no property of a run.

**AccountsProofs**, accounts. A request judges before its transaction what it writes in
it. `Judged` says what is left of the judgement at the write: the role was given
before, or the actor outranked it when it was read. `Invited` says what a
registration knows when it inserts the guest, the code and the right of its
issuer, and that it knows it because it has both rows locked; `Exclusive` that no
two requests hold one lock. `WritesKeep` shows once that a write which leaves the
locked rows of others alone keeps all of this, and there is a lemma per action:
`UpdateKeeps`, `RemovalKeeps`, `LaboratoryKeeps` and `InsertCodeKeeps` are the
ones where the locks a statement waits for (`Wanted`, `Contested`) are needed.
For `CodesComeOut` a second invariant (`AllFound`) says what the lock on the
laboratory is for: a request that is about to write has locked every code its
laboratory has out. All four properties of the `accounts` run are proved:
`RolesAreGranted`, `OneGuestPerCode`, `InvitationsAreGood`, `CodesComeOut`.

The next three have one shape, which is that of `BorrowRequestsProofs`: what a
request knows at each of its statements and which locks it knows it by; that no
two requests hold a lock or draw an identifier together; a lemma that a step of
one request leaves what the others know alone; one lemma per statement. Only what
is particular to each is said here.

**FilesProofs.** `Holding` says for every request what it knows of its uploads,
its owner and its files at each statement. The promises need one another:
a consumed upload is consumed by the attachment that has its file
(`AttachedAreConsumed`), so the rows that a cascade or an expiry takes are exactly
the ones whose files the request then removes, and a file is removed by the one
request that took its row (`OneHand`). A file without a row is either in the hands
of a request that is about to insert the row or remove the file, or the history
has a fault. Theorems: `Inductive`, `TypeCorrect`, `FilesAreThere`,
`NoFileIsForgotten`, and the action property `PatchesSpareTheRest`.

**GuestLinksProofs.** `VisitsDraw` and `MergesHold` are what the two kinds of
requests rely on: a visit that inserts has drawn a UUID nobody else has; a merge
that is past the lock has the link it read, and the account it is about to erase
is a shadow that no other committed link points at. The run
`guest_links_merge_race` shows that this last check does not stand until the
commit. What stands is weaker and enough: an account goes with all the links at
it, so no link is left without one (`LinksHaveTheirAccount`), and an account
registered here never gets as far as the erasing (`RealAccountsAreSpared`).
`UniqueKey` gives `OneIdentity`; the two links of a visitor are compared by the
unique index and by the waiting of an insert for an uncommitted rival.

**LocationTreeProofs.** Moves are read-modify-write over a subtree that is found
by stored paths, so the invariant says of a request what rows its snapshot had
(`Shaped`, `Settled`), where the location it moves or creates is to stand
(`Placed`, `Fresh`), which new paths it has worked out so far (`Writing`) and,
for a move no other request has overlapped, that none below it was missed
(`Thorough`). `Separate` is what two requests at once cannot both be.
`PathsFollowUnracedMoves` then says that stale paths (finding 2) need an overlap
and are never the work of one move alone; it rests on lemmas about sequences:
a path below a moved one keeps its tail (`RebasedPaths`), the parent of a moved
path is the moved path of its parent (`RebasedParents`). `NoChildIsLeftBehind`
and `PathsAreUnique` hold with stale paths too, since the foreign key and the
index do not read paths as a tree.

**CatalogueProofs.** A request on the catalogue reads a row, decides by it, and
writes many statements later; every property of the `catalogue` run asks whether
what was read is still so. `Fits` says, request by request and step by step, what
has been found out and by which lock it stays so: the category an asset or a
category is put into is there and locked (`PlaceLocked`), the definition that was
read is the parameter's and the unit that was measured with is locked
(`InputFits`, `UnitLocked`), a change of type has every stored value locked. With
`Exclusive` (no row is locked twice) a step of one request cannot disturb what
another knows. Two places need more than that. A change of type locks the values
it found, and the set of values must not grow: a new value needs the lock of the
parameter (`AssetWritten`, `ParameterWritten`). A delete or a move locks the tree
below its category, and the tree must not grow: what is put below a category
needs the lock of that category, and is not put there when it would be below
itself (`TreeLocked`, `MovedTree`). Paths are data that has to follow the tree
(`Rooted`); that a move rewrites them so is `Grafted` and `MovedPath`, facts about
sequences and prefixes. There is a lemma per statement (`...Keeps`).
`NewAmountsFit` and `NothingIsSavedIncomplete` then speak of single steps:
`Committed` is what is known at the commit of an asset, `UpdateParameterOutcome`
what a change of a parameter leaves, `OthersWriteNoValue` that nothing else writes
a value, `SavingCommits` that a request which has come to its commit is not
aborted instead. `SearchesFindWhatIsMeant` needs of the invariant that no value
has a base amount without a unit; together with the types it makes the filter's
look at columns alone sufficient. Theorems: `Inductive`, `RowsAreLockedOnce`,
`StoredValuesAreReadable`, `NewAmountsFit`, `SearchesFindWhatIsMeant`,
`NothingIsSavedIncomplete`, `NoAssetInAGoneCategory`. What lists of options
become is left open: no theorem needs more than what `UpdateParameter` checks of
the result.

*Model-checked only*: liveness (`EveryRequestAnswered`, `EveryTransactionEnds`)
and fairness, which the prover does not reach. `PlainListsAreFollowed` of
`Catalogue` is about a fold over the list of options that a request was sent, and
what a fold computes for every list is induction over data; the types of `options`
stay with TLC for the same reason.

## 5. Findings and observations

Findings are runs that TLC refutes; each contradicts a sentence of the
repository.

1. **A merge can delete an account that another merge has just linked**
   (`guest_links_merge_race`), and the cascade takes the link with it.
   `federation/service.rs:152-153` says a lock prevents this; the lock is on the
   link, and the check looks at committed links.
2. **A rename can leave a stale path, and a stale path lets a location be moved
   below its own child** (`location_tree_detached`). The rename waits for a
   child that a create holds as its parent; the row the create inserts is not in
   the snapshot of the UPDATE.
3. **A list of options can lose an entry** (`catalogue_options`). Of the options
   {a}, the list [{id of a, code b}, {code a}] renames a to b and then, matching
   the second entry by the code the option had, back to a.
   `asset_parameters/service.rs:191-195` says that whatever is matched survives.
4. **The start of the server can overwrite a password that the operator has set**
   (`accounts_password_race`). Whether root's password is the seeded one is read
   in one statement and the configured one written in another
   (`src/backend/src/bootstrap.rs:56-63`); the admin command between them is
   undone. `bootstrap.rs:40-46` says the password is replaced "only while the
   seeded one is still in place".

The modules state more properties that do not hold; configurations that refute
four of them are kept beside the runs.

- A location can be impossible to delete (`InventoryLocationDelete.cfg`,
  `EveryLocationCanBeDeleted`): clearing the location of its stock in one UPDATE
  meets the aggregate index when an unlocated row of the same batch and status
  exists. `locations/service.rs:133-135` says the location is cleared first "so
  the delete cannot fail on the foreign key".
- A visitor known in one laboratory of a node is refused in all others
  (`GuestLinksTwoLaboratories.cfg`, `NewVisitorsAreServed`): the username of a
  shadow account does not name the local laboratory (`federation/service.rs:80`).
- Laboratories that trust each other can be left with two secrets
  (`FederationRotation.cfg`, `TrustedLaboratoriesAreServed`): a pairing replaces
  the secret of the two nodes at the accepting one first, and an answer that is
  lost leaves it there, also for the trusts that existed. The next pairing that
  runs to its end repairs it.
- Expired uploads are not cleared (`ExpiredUploadsAreCleared` of `Files`;
  `docs/api.md:198`, `docs/architecture.md:97`): nothing in the code looks for
  them.
- When the scale of a unit changes, stored base amounts do not
  (`StoredAmountsAreCurrent` of `Catalogue`; `docs/architecture.md:86`).
- An account that edits itself while an administrator changes its role writes
  the old role back (`AccountsOwnRole.cfg`, `OwnRolesStay`; `users/update.rs:130`
  reads it before the transaction, and line 142 says that "Users cannot change
  their own role or laboratory"). It is a role the account once had, which is why
  `RolesWereGranted` holds. In the same way an e-mail address that was changed
  between the read and the write is written back.

What modelling showed and no property states: two first visits of one visitor
race, and one is refused on the username (`federation/service.rs:130`); two
merges off one shadow account can both leave it behind
(`federation/queries.rs:635`). `validate_tls_pin_value` passes a pin in capital
letters, which the table's check refuses after the remote node has committed.
`docs/federation.md` calls a pairing one-way, the code stores a half at each
node. A nonce protects for one time to live; later it is the timestamp alone. A
value keeps its `unit_id` when it is migrated to text. A migration that finds
nothing to keep deletes a value its category requires. Two options cannot
exchange their codes in one request. A super_admin can act on an account that
was promoted to root after it was read, and two roots can delete each other; so
can `docs/architecture.md`, by which root alone manages system administrators, be
read against `can_manage_user`, which lets a super_admin manage others of its
kind. A change of password verifies the old one before its transaction and ends
no session. Issuing a code and registering with the one before lock the code and
the issuer in opposite orders; the database aborts one. A member who became a
guest can still delete an upload of its own.

## 6. Not modelled

- Assets: the rescaling of stock when the inventory unit changes (a quotient of
  scales in NUMERIC); names, descriptions, visibility.
- Inventory: fractions. A split computes the source's new amount in `f64` and the
  target's in NUMERIC (`inventory_items/split.rs:187`).
- Parameters: several at once, ranges, booleans and dates as types of their own;
  pagination. Categories: overlapping moves, whose code is that of
  `LocationTree`, and deletes under three concurrent requests.
- Federation: the projection of public data, which only reads; the address checks
  of `validate_remote_url`; cryptography.
- Accounts: the rate limiter of guest registration (a Redis counter), profile
  fields, the expiry of sessions; hashing. What becomes of a guest link when the
  role of its account changes needs `GuestLinks` and `Accounts` together.
- Storage keys, label rendering and device I/O, configuration and telemetry, the
  front ends, the audit log (never read), `idempotency` (no caller), CI. Field
  parsers appear as the sets the actions quantify over.

## 7. Plan

1. `GuestLinks` with accounts that change role and laboratory, as a composition
   with `Accounts` (`federation/merge_guest_link.rs:98`).
2. The change of an asset's inventory unit, with the quotient of the scales and
   the borrow requests and splits that overlap it.

## 8. Running

    tlc -config MCInventoryTransactions.cfg MCInventoryTransactions
    tlapm AccountsProofs.tla

`PROJECT.json` names the module, the configuration and the properties of every
run, and maps each definition to the lines it models.
