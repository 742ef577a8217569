------------------------------- MODULE Files -------------------------------
(***************************************************************************)
(* Uploaded files and the attachments made from them (routes/file_uploads, *)
(* routes/attachments, file_storage, and the deletes and merges of assets  *)
(* and inventory items).  A file is two things kept in two places: a blob  *)
(* on disk, written before any row names it and removed after the last row *)
(* that names it is gone, and rows of a database with transactions.  No    *)
(* step changes both.                                                      *)
(*                                                                         *)
(* Connections run one request each, statement by statement.  An upload    *)
(* has a storage key of its own, so blobs are named by their upload.       *)
(* Owners are one asset and its inventory items.                           *)
(***************************************************************************)
EXTENDS Naturals, Sequences, FiniteSets

CONSTANTS Worker, Upload, Item, Asset,
          NewItem,    \* the items that do not exist at first
          Created,    \* what one create or assign request attaches, in its order
          MaxRequests, \* bound: the requests of a behaviour
          MaxFaults    \* bound: crashes and failing writes and removals

ASSUME UploadAssumption == IsFiniteSet(Upload)
ASSUME OwnersAssumption == Asset \notin Item /\ NewItem \subseteq Item
ASSUME CreatedAssumption == \* validate_unique_uploads refuses the others
    \A us \in Created : us \in Seq(Upload) /\ us # <<>> /\
        \A i, j \in DOMAIN us : us[i] = us[j] => i = j
ASSUME BoundsAssumption == MaxRequests \in Nat /\ MaxFaults \in Nat

VARIABLES
    blobs,       \* the files on disk
    upload,      \* file_uploads
    attachment,  \* files and asset_attachment_assignments, made from an upload
    owners,      \* the assets and inventory_items that exist
    txn,         \* what each connection is doing
    requests,    \* how many requests there were
    faults,      \* how many faults there were
    spoiled      \* the uploads a fault has met

vars == <<blobs, upload, attachment, owners, txn, requests, faults, spoiled>>

Owner == Item \union {Asset}
Unmade == [gone |-> FALSE]
Gone == [gone |-> TRUE]
Attached == [owner : Owner, name : {"file", "patched"}, public : BOOLEAN]

Lock == ({"upload", "attachment"} \X Upload) \union ({"owner"} \X Owner)
Idle == [op |-> "idle"]
Ops == {"upload", "delete_upload", "assign", "create", "patch", "delete_attachment",
        "delete_owner", "merge", "remove"}
Steps == {"insert", "takeback", "consume", "attach", "lock", "lock_items", "write",
          "remove"}
Txn == [op : Ops, step : Steps, todo : Seq(Upload), made : SUBSET Upload,
        on : SUBSET Owner, into : Owner, patch : {"name", "public"},
        read : Attached \union {Unmade}, locks : SUBSET Lock, shares : SUBSET Lock]

TypeOK ==
    /\ blobs \subseteq Upload
    /\ upload \in [Upload -> {"none", "open", "expired", "consumed", "deleted"}]
    /\ attachment \in [Upload -> Attached \union {Unmade, Gone}]
    /\ owners \subseteq Owner
    /\ \A w \in Worker : txn[w] = Idle \/ txn[w] \in Txn
    /\ requests \in 0 .. MaxRequests
    /\ faults \in 0 .. MaxFaults
    /\ spoiled \subseteq Upload

Init ==
    /\ blobs = {}
    /\ upload = [u \in Upload |-> "none"]
    /\ attachment = [u \in Upload |-> Unmade]
    /\ owners = Owner \ NewItem
    /\ txn = [w \in Worker |-> Idle]
    /\ requests = 0
    /\ faults = 0
    /\ spoiled = {}

-----------------------------------------------------------------------------
(* Transactions and row locks *)

Base(op, step) ==
    [op |-> op, step |-> step, todo |-> <<>>, made |-> {}, on |-> {}, into |-> Asset, patch |-> "name",
     read |-> Unmade, locks |-> {}, shares |-> {}]
Begin(w, t) == /\ txn[w] = Idle
               /\ requests < MaxRequests
               /\ requests' = requests + 1
               /\ txn' = [txn EXCEPT ![w] = t]
GoOn(w, t) == txn' = [txn EXCEPT ![w] = t] /\ UNCHANGED requests
End(w) == GoOn(w, Idle)
Rows == <<upload, attachment, owners>>

Locks(v) == IF txn[v] = Idle THEN {} ELSE txn[v].locks
Shares(v) == IF txn[v] = Idle THEN {} ELSE txn[v].shares
Holders(w, r) == {v \in Worker \ {w} : r \in Locks(v) \union Shares(v)}
Writers(w, r) == {v \in Worker \ {w} : r \in Locks(v)}

UploadLock(u) == <<"upload", u>>
AttachmentLock(u) == <<"attachment", u>>
OwnerLock(o) == <<"owner", o>>
AttachedTo(on) == {u \in Upload : attachment[u] \in Attached /\ attachment[u].owner \in on}

(* The rows whose locks the next statement of w takes. *)
Wanted(w) ==
    LET t == txn[w]
    IN CASE t.step = "consume" -> {UploadLock(Head(t.todo))}
         [] t.step = "lock" /\ t.op = "delete_upload" -> {UploadLock(Head(t.todo))}
         [] t.step = "lock" /\ t.op \in {"patch", "delete_attachment"} ->
                {AttachmentLock(Head(t.todo))}
         [] t.step = "lock" /\ t.op \in {"create", "delete_owner"} -> {OwnerLock(o) : o \in t.on}
         [] t.step = "lock" /\ t.op = "merge" -> {OwnerLock(o) : o \in t.on \union {t.into}}
         [] t.step = "lock_items" -> {OwnerLock(o) : o \in owners}
         [] t.step = "write" /\ t.op \in {"delete_owner", "merge"} ->
                {AttachmentLock(u) : u \in AttachedTo(t.on)}
         [] OTHER -> {}
Blockers(w) ==
    IF txn[w] = Idle THEN {}
    ELSE IF txn[w].step = "attach" /\ txn[w].op = "assign"
         THEN Writers(w, OwnerLock(txn[w].into)) \* FOR KEY SHARE
         ELSE UNION {Holders(w, r) : r \in Wanted(w)}

At(w, step) == txn[w] # Idle /\ txn[w].step = step /\ Blockers(w) = {}
InOp(w, ops, step) == At(w, step) /\ txn[w].op \in ops
Locked(w) == [txn[w] EXCEPT !.locks = @ \union Wanted(w)]
Unharmed == UNCHANGED <<faults, spoiled>>

(* An error answer: the transaction is rolled back and its locks go. *)
Refuse(w) == End(w) /\ UNCHANGED <<blobs, upload, attachment, owners, faults, spoiled>>

(* After the commit: the files to remove, in a list, without any lock. *)
Removing(us) == [Base("remove", "remove") EXCEPT !.todo = us]
CommitRemoving(w, us) ==
    IF us = {} THEN End(w)
    ELSE \E order \in [1 .. Cardinality(us) -> us] :
            /\ \A u \in us : \E i \in DOMAIN order : order[i] = u
            /\ GoOn(w, Removing(order))

-----------------------------------------------------------------------------
(* upload_file: the blob, then the row *)

StoreUpload(w, u) ==
    /\ upload[u] = "none" /\ u \notin blobs \union spoiled
    /\ \A v \in Worker : txn[v] # Idle => u \notin {txn[v].todo[i] : i \in DOMAIN txn[v].todo}
    /\ blobs' = blobs \union {u}
    /\ Begin(w, [Base("upload", "insert") EXCEPT !.todo = <<u>>])
    /\ UNCHANGED Rows /\ Unharmed

InsertUpload(w) ==
    /\ InOp(w, {"upload"}, "insert")
    /\ upload' = [upload EXCEPT ![Head(txn[w].todo)] = "open"]
    /\ End(w)
    /\ UNCHANGED <<blobs, attachment, owners>> /\ Unharmed

(* The insert fails, or commits and its answer is lost.                      *)
FailInsert(w) ==
    LET u == Head(txn[w].todo)
    IN /\ InOp(w, {"upload"}, "insert")
       /\ faults < MaxFaults
       /\ faults' = faults + 1
       /\ \/ UNCHANGED <<upload, spoiled>>
          \/ /\ upload' = [upload EXCEPT ![u] = "open"]
             /\ spoiled' = spoiled \union {u}
       /\ GoOn(w, Removing(<<u>>))
       /\ UNCHANGED <<blobs, attachment, owners>>

(* The hour of an upload passes.  Nothing in the code looks for such rows.   *)
Expire(u) ==
    /\ upload[u] = "open"
    /\ \A w \in Worker : UploadLock(u) \notin Locks(w)
    /\ upload' = [upload EXCEPT ![u] = "expired"]
    /\ UNCHANGED <<blobs, attachment, owners, txn, requests>> /\ Unharmed

-----------------------------------------------------------------------------
(* FileStorage::delete for the files of a committed delete, one by one *)

\* Mutant: the list is taken from its head again and again.
RemoveFirstAgain(w) ==
    /\ At(w, "remove")
    /\ blobs' = blobs \ {Head(txn[w].todo)}
    /\ GoOn(w, txn[w])
    /\ UNCHANGED Rows /\ Unharmed

RemoveBlob(w) ==
    LET rest == Tail(txn[w].todo)
    IN /\ At(w, "remove")
       /\ blobs' = blobs \ {Head(txn[w].todo)}
       /\ IF rest = <<>> THEN End(w) ELSE GoOn(w, Removing(rest))
       /\ UNCHANGED Rows /\ Unharmed

Left(w) == {txn[w].todo[i] : i \in DOMAIN txn[w].todo}

(* An error ends delete_storage_objects, in assets as in inventory items, and *)
(* the files after it stay too; deletes of one file have the one removal.     *)
FailRemove(w) ==
    /\ At(w, "remove")
    /\ faults < MaxFaults
    /\ faults' = faults + 1
    /\ spoiled' = spoiled \union Left(w)
    /\ End(w)
    /\ UNCHANGED <<blobs, upload, attachment, owners>>

(* The process stops: the database rolls back what is open, the rest is lost. *)
Crash ==
    /\ faults < MaxFaults
    /\ \E w \in Worker : txn[w] # Idle
    /\ faults' = faults + 1
    /\ spoiled' = spoiled \union
           UNION {Left(w) : w \in {v \in Worker : txn[v] # Idle /\ txn[v].step \in {"insert", "remove"}}}
    /\ txn' = [w \in Worker |-> Idle]
    /\ UNCHANGED <<blobs, upload, attachment, owners, requests>>

-----------------------------------------------------------------------------
(* delete_file_upload *)

BeginDeleteUpload(w, u) ==
    /\ Begin(w, [Base("delete_upload", "lock") EXCEPT !.todo = <<u>>])
    /\ UNCHANGED <<blobs, upload, attachment, owners>> /\ Unharmed

\* Mutant: a consumed upload can be deleted too.
DeletableWhateverItsState(u) == upload[u] \in {"open", "expired", "consumed"}
Deletable(u) == upload[u] \in {"open", "expired"}
LockUpload(w) ==
    /\ InOp(w, {"delete_upload"}, "lock")
    /\ IF Deletable(Head(txn[w].todo))
       THEN /\ GoOn(w, [Locked(w) EXCEPT !.step = "write"])
            /\ UNCHANGED <<blobs, upload, attachment, owners>> /\ Unharmed
       ELSE Refuse(w)

DeleteUpload(w) ==
    LET u == Head(txn[w].todo)
    IN /\ InOp(w, {"delete_upload"}, "write")
       /\ upload' = [upload EXCEPT ![u] = "deleted"]
       /\ CommitRemoving(w, {u})
       /\ UNCHANGED <<blobs, attachment, owners>> /\ Unharmed

-----------------------------------------------------------------------------
(* assign_uploaded_attachments, alone or as the end of creating its owner *)

BeginAssign(w, o, us) ==
    /\ Begin(w, IF o \in owners
                THEN [Base("assign", "consume") EXCEPT !.todo = us, !.into = o]
                ELSE [Base("create", "lock") EXCEPT !.todo = us, !.into = o, !.on = {Asset}])
    /\ \A v \in Worker : txn[v] # Idle /\ txn[v].op = "create" => txn[v].into # o
    /\ o \in owners \/ o \in NewItem
    /\ UNCHANGED <<blobs, upload, attachment, owners>> /\ Unharmed

(* consume_file_upload: lock, check, mark. *)
Consumable(u) == upload[u] = "open"
ConsumeUpload(w) ==
    /\ InOp(w, {"assign", "create"}, "consume")
    /\ IF Consumable(Head(txn[w].todo))
       THEN /\ GoOn(w, [Locked(w) EXCEPT !.step = "attach"])
            /\ UNCHANGED <<blobs, upload, attachment, owners>> /\ Unharmed
       ELSE Refuse(w)

(* insert_attachment: files.storage_key is unique, and the foreign key takes  *)
(* a share of the owner's row, or finds it gone.                              *)
InsertAttachment(w) ==
    LET t == txn[w]
        u == Head(t.todo)
        rest == Tail(t.todo)
    IN /\ InOp(w, {"assign", "create"}, "attach")
       /\ IF attachment[u] \notin Attached /\ (t.op = "create" \/ t.into \in owners)
          THEN /\ GoOn(w, [t EXCEPT !.made = @ \union {u}, !.todo = rest,
                                    !.step = IF rest = <<>> THEN "write" ELSE "consume",
                                    !.shares = @ \union {OwnerLock(t.into)}])
               /\ UNCHANGED <<blobs, upload, attachment, owners>> /\ Unharmed
          ELSE Refuse(w)

CommitAssign(w) ==
    LET t == txn[w]
    IN /\ InOp(w, {"assign", "create"}, "write")
       /\ upload' = [u \in Upload |-> IF u \in t.made THEN "consumed" ELSE upload[u]]
       /\ attachment' = [u \in Upload |->
              IF u \in t.made THEN [owner |-> t.into, name |-> "file", public |-> FALSE]
              ELSE attachment[u]]
       /\ owners' = owners \union {t.into}
       /\ End(w)
       /\ UNCHANGED blobs /\ Unharmed

-----------------------------------------------------------------------------
(* update_attachment and delete_attachment *)

BeginPatch(w, u, field) ==
    /\ Begin(w, [Base("patch", "lock") EXCEPT !.todo = <<u>>, !.patch = field])
    /\ attachment[u] \in Attached
    /\ UNCHANGED <<blobs, upload, attachment, owners>> /\ Unharmed

BeginDeleteAttachment(w, u) ==
    /\ Begin(w, [Base("delete_attachment", "lock") EXCEPT !.todo = <<u>>])
    /\ attachment[u] \in Attached
    /\ UNCHANGED <<blobs, upload, attachment, owners>> /\ Unharmed

(* fetch_attachment_for_update. *)
\* Mutant: the row is read without FOR UPDATE.
ReadAttachment(w) ==
    LET u == Head(txn[w].todo)
    IN /\ InOp(w, {"patch", "delete_attachment"}, "lock")
       /\ attachment[u] \in Attached
       /\ GoOn(w, [txn[w] EXCEPT !.step = "write", !.read = attachment[u]])
       /\ UNCHANGED <<blobs, upload, attachment, owners>> /\ Unharmed

LockAttachment(w) ==
    LET u == Head(txn[w].todo)
    IN /\ InOp(w, {"patch", "delete_attachment"}, "lock")
       /\ IF attachment[u] \in Attached
          THEN /\ GoOn(w, [Locked(w) EXCEPT !.step = "write", !.read = attachment[u]])
               /\ UNCHANGED <<blobs, upload, attachment, owners>> /\ Unharmed
          ELSE Refuse(w)

(* update_attachment_in_database writes all three fields, with what was read *)
(* for those the request leaves out.                                          *)
PatchAttachment(w) ==
    LET t == txn[w]
        u == Head(t.todo)
    IN /\ InOp(w, {"patch"}, "write")
       /\ attachment' = [attachment EXCEPT
              ![u].name = IF t.patch = "name" THEN "patched" ELSE t.read.name,
              ![u].public = IF t.patch = "public" THEN ~t.read.public ELSE t.read.public]
       /\ End(w)
       /\ UNCHANGED <<blobs, upload, owners>> /\ Unharmed

DeleteAttachment(w) ==
    LET u == Head(txn[w].todo)
    IN /\ InOp(w, {"delete_attachment"}, "write")
       /\ attachment' = [attachment EXCEPT ![u] = Gone]
       /\ CommitRemoving(w, {u})
       /\ UNCHANGED <<blobs, upload, owners>> /\ Unharmed

-----------------------------------------------------------------------------
(* delete_asset, delete_inventory_item, merge_inventory_items *)

BeginDeleteOwner(w, o) ==
    /\ o \in owners
    /\ Begin(w, [Base("delete_owner", "lock") EXCEPT !.on = {o}])
    /\ UNCHANGED <<blobs, upload, attachment, owners>> /\ Unharmed

BeginMerge(w, source, target) ==
    /\ {source, target} \subseteq owners \intersect Item
    /\ source # target
    /\ Begin(w, [Base("merge", "lock") EXCEPT !.on = {source}, !.into = target])
    /\ UNCHANGED <<blobs, upload, attachment, owners>> /\ Unharmed

(* fetch_asset_for_update, fetch_inventory_item(s)_for_update; creating an    *)
(* item locks its asset too (fetch_asset_for_inventory_for_update).           *)
LockOwner(w) ==
    LET t == txn[w]
        wanted == IF t.op = "merge" THEN t.on \union {t.into} ELSE t.on
        next == IF t.op = "create" THEN "consume"
                ELSE IF Asset \in t.on THEN "lock_items" ELSE "write"
    IN /\ InOp(w, {"create", "delete_owner", "merge"}, "lock")
       /\ IF wanted \subseteq owners
          THEN /\ GoOn(w, [Locked(w) EXCEPT !.step = next])
               /\ UNCHANGED <<blobs, upload, attachment, owners>> /\ Unharmed
          ELSE Refuse(w)

(* fetch_inventory_items_for_asset_for_update. *)
LockItems(w) ==
    /\ InOp(w, {"delete_owner"}, "lock_items")
    /\ GoOn(w, [Locked(w) EXCEPT !.step = "write", !.on = owners])
    /\ UNCHANGED <<blobs, upload, attachment, owners>> /\ Unharmed

(* delete_asset_attachments or delete_inventory_item_attachments, then the   *)
(* owners, then the commit.                                                   *)
\* Mutant: the attachments go by the foreign keys' cascade.
DeleteOwnerByCascade(w) ==
    LET t == txn[w]
        dropped == AttachedTo(t.on)
    IN /\ InOp(w, {"delete_owner"}, "write")
       /\ attachment' = [u \in Upload |-> IF u \in dropped THEN Gone ELSE attachment[u]]
       /\ owners' = owners \ t.on
       /\ End(w)
       /\ UNCHANGED <<blobs, upload>> /\ Unharmed

DeleteOwner(w) ==
    LET t == txn[w]
        dropped == AttachedTo(t.on)
    IN /\ InOp(w, {"delete_owner"}, "write")
       /\ attachment' = [u \in Upload |-> IF u \in dropped THEN Gone ELSE attachment[u]]
       /\ owners' = owners \ t.on
       /\ CommitRemoving(w, dropped)
       /\ UNCHANGED <<blobs, upload>> /\ Unharmed

(* move_inventory_item_attachments, then the sources are deleted; what still *)
(* hangs on a source would go by cascade, and its file would stay.            *)
Merge(w) ==
    LET t == txn[w]
    IN /\ InOp(w, {"merge"}, "write")
       /\ attachment' = [u \in Upload |->
              IF u \in AttachedTo(t.on) THEN [attachment[u] EXCEPT !.owner = t.into]
              ELSE attachment[u]]
       /\ owners' = owners \ t.on
       /\ End(w)
       /\ UNCHANGED <<blobs, upload>> /\ Unharmed

(* Two requests that attach the same uploads in different orders wait for    *)
(* each other; the database aborts one.                                       *)
AbortDeadlocked(w) ==
    /\ \E v \in Blockers(w) : w \in Blockers(v)
    /\ Refuse(w)

-----------------------------------------------------------------------------
Begins(w) ==
    \/ \E u \in Upload : \/ StoreUpload(w, u) \/ BeginDeleteUpload(w, u)
                         \/ BeginPatch(w, u, "name") \/ BeginPatch(w, u, "public")
                         \/ BeginDeleteAttachment(w, u)
    \/ \E o \in Owner, us \in Created : BeginAssign(w, o, us)
    \/ \E o \in Owner : BeginDeleteOwner(w, o)
    \/ \E source, target \in Item : BeginMerge(w, source, target)

Continues(w) ==
    \/ InsertUpload(w) \/ RemoveBlob(w)
    \/ LockUpload(w) \/ DeleteUpload(w)
    \/ ConsumeUpload(w) \/ InsertAttachment(w) \/ CommitAssign(w)
    \/ LockAttachment(w) \/ PatchAttachment(w) \/ DeleteAttachment(w)
    \/ LockOwner(w) \/ LockItems(w) \/ DeleteOwner(w) \/ Merge(w)
    \/ AbortDeadlocked(w)

Faults == \/ Crash
          \/ \E w \in Worker : FailInsert(w) \/ FailRemove(w)

Next == \/ \E w \in Worker : Begins(w) \/ Continues(w)
        \/ \E u \in Upload : Expire(u)
        \/ Faults

Spec == Init /\ [][Next]_vars

(* Statements of one connection run one after the other; the database hands   *)
(* out a row lock in the order it was asked for, so that nobody is overtaken  *)
(* for ever, and its deadlock check breaks circles.                           *)
FairSpec == Spec /\ \A w \in Worker : SF_vars(Continues(w))

-----------------------------------------------------------------------------
(* Properties *)

(* What the rows promise is on disk: uploads that can still be attached, and  *)
(* attachments, have their file, whatever requests overlap and whenever the   *)
(* process stops.  The one exception is an upload whose insert committed      *)
(* while its answer was lost: upload_file removes the file of a row that is   *)
(* there.                                                                     *)
RowsHaveTheirFile ==
    \A u \in Upload \ spoiled :
        upload[u] \in {"open", "expired"} \/ attachment[u] \in Attached => u \in blobs

(* No file is left behind: a blob that no row names is in the hands of a      *)
(* request, or a fault is to blame.                                           *)
Underway(u) == \E w \in Worker : /\ txn[w] # Idle
                                 /\ txn[w].step \in {"insert", "remove"}
                                 /\ u \in Left(w)
OrphansComeFromFaults ==
    \A u \in blobs \ spoiled :
        upload[u] \in {"open", "expired"} \/ attachment[u] \in Attached \/ Underway(u)

(* update_attachment writes whole rows: changing the name of an attachment    *)
(* does not undo a change of its visibility that came between, nor the other  *)
(* way round.                                                                 *)
PatchesKeepOtherFields ==
    [][\A u \in Upload :
          attachment[u] \in Attached /\ attachment'[u] \in Attached =>
              \/ attachment'[u].name = attachment[u].name
              \/ attachment'[u].public = attachment[u].public]_vars

(* Every request is answered, lists of uploads in opposite orders included.   *)
EveryRequestAnswered == \A w \in Worker : txn[w] # Idle ~> txn[w] = Idle

(* docs/api.md: files that are not attached when their upload expires are     *)
(* cleared away.                                                              *)
ExpiredUploadsAreCleared ==
    \A u \in Upload : upload[u] = "expired" ~> u \notin blobs
=============================================================================
