--------------------------- MODULE BorrowRequests ---------------------------
(***************************************************************************)
(* Borrow requests of one laboratory: guests file and cancel them, staff    *)
(* approve or reject them, and meanwhile staff patch and delete the items   *)
(* they are about.  Each transaction is a few steps: it takes its row locks *)
(* one by one, checks what it read under them, and writes and commits.      *)
(*                                                                         *)
(* The writes of a transaction and its commit are one step: every row it    *)
(* writes is locked, so no other transaction can tell them apart.  Who may  *)
(* decide is settled before the transaction and is not modelled; who may    *)
(* cancel is settled inside it and is.                                      *)
(***************************************************************************)
EXTENDS FiniteSets

CONSTANTS
    Worker,             \* connections that run transactions
    Item, Request,      \* uuids
    Guest,              \* guest accounts of the laboratory
    Link,               \* guest links, which tie an account to a remote user
    Linked,             \* the guests that arrive through federation ..
    LinkOf,             \* .. and the link of each
    Wanted,             \* bound: <<item, guest>>, who may ask for what
    Twin,               \* pairs of quantity rows that differ only in status
    Nobody, Unused, Gone

ASSUME LinkAssumption ==
    /\ Linked \subseteq Guest /\ LinkOf \in [Linked -> Link]
    /\ \A u, v \in Linked : LinkOf[u] = LinkOf[v] => u = v
ASSUME NobodyAssumption == Nobody \notin Worker \cup Guest \cup Link \cup Item \cup Request

ItemStatus == {"available", "reserved", "borrowed", "retired", "lost", "consumed"}
RequestStatus == {"pending", "approved", "rejected", "cancelled"}

Filed == [item : Item, status : RequestStatus,
          requester : Guest \cup {Nobody}, link : Link \cup {Nobody}]

ASSUME TombstoneAssumption ==
    {Unused, Gone} \cap Filed = {} /\ Unused # Gone /\ Gone \notin ItemStatus

\* A transaction: the operation, how far it is, and its arguments.
Op == {"create", "resolve", "cancel", "patch", "delete"}
Step == {"lock", "checkPending", "file"}
Txn == [op : Op, step : Step, item : Item, request : Request \cup {Nobody},
        guest : Guest \cup {Nobody}, to : ItemStatus \cup RequestStatus]

ASSUME IdleAssumption == Nobody \notin Txn

VARIABLES
    status,         \* per item, its status, or Gone
    requests,       \* federation_borrow_requests, by uuid
    accounts,       \* the guests whose account exists
    txn,            \* per worker, its transaction, or Nobody
    itemLock,       \* per item, the worker with its row lock
    requestLock     \* per request, the same

vars == <<status, requests, accounts, txn, itemLock, requestLock>>
tables == <<status, requests, accounts>>

-----------------------------------------------------------------------------
Exists(b) == requests[b] \notin {Unused, Gone}
PendingOn(i) == {b \in Request : Exists(b) /\ requests[b].item = i /\ requests[b].status = "pending"}
RequestsOn(i) == {b \in Request : Exists(b) /\ requests[b].item = i}

Running(w, op) == txn[w] # Nobody /\ txn[w].op = op
HasItem(w) == itemLock[txn[w].item] = w
HasRequest(w) == requestLock[txn[w].request] = w

\* The link of the account, as fetch_guest_link_id and a signed request give it.
LinkOfGuest(u) == IF u \in Linked THEN LinkOf[u] ELSE Nobody

\* An UPDATE of a status meets the aggregate index when a twin has it already.
StatusTaken(i, s) == \E j \in Item : {i, j} \in Twin /\ i # j /\ status[j] = s

\* The transaction of w ends and its locks go; without a write it is refused.
End(w) ==
    /\ txn' = [txn EXCEPT ![w] = Nobody]
    /\ itemLock' = [i \in Item |-> IF itemLock[i] = w THEN Nobody ELSE itemLock[i]]
    /\ requestLock' = [b \in Request |-> IF requestLock[b] = w THEN Nobody ELSE requestLock[b]]
Refuse(w) == End(w) /\ UNCHANGED tables

GoTo(w, step) ==
    /\ txn' = [txn EXCEPT ![w].step = step]
    /\ UNCHANGED tables

-----------------------------------------------------------------------------
Init ==
    /\ status \in [Item -> {"available", "borrowed"}]
    /\ \A i, j \in Item : {i, j} \in Twin /\ i # j => status[i] # status[j]
    /\ requests = [b \in Request |-> Unused]
    /\ accounts = Guest
    /\ txn = [w \in Worker |-> Nobody]
    /\ itemLock = [i \in Item |-> Nobody]
    /\ requestLock = [b \in Request |-> Nobody]

Start(w, t) ==
    /\ txn[w] = Nobody
    /\ txn' = [txn EXCEPT ![w] = t]
    /\ UNCHANGED <<tables, itemLock, requestLock>>

Transaction(op, i, b, u, s) ==
    [op |-> op, step |-> "lock", item |-> i, request |-> b, guest |-> u, to |-> s]

\* A uuid that no row has and no other transaction has drawn.
Fresh(b) == requests[b] = Unused /\ \A w \in Worker : ~(Running(w, "create") /\ txn[w].request = b)

\* Which of the fresh uuids is drawn makes no difference.
Drawn(b) == Fresh(b) /\ b = CHOOSE x \in Request : Fresh(x)

BeginCreate(w) == \E i \in Item, b \in Request, u \in accounts :
    <<i, u>> \in Wanted /\ Drawn(b) /\ Start(w, Transaction("create", i, b, u, "pending"))
BeginResolve(w) == \E b \in Request, s \in {"approved", "rejected"} :
    Exists(b) /\ Start(w, Transaction("resolve", requests[b].item, b, Nobody, s))
BeginCancel(w) == \E b \in Request, u \in accounts :
    Exists(b) /\ Start(w, Transaction("cancel", requests[b].item, b, u, "cancelled"))
BeginPatch(w) == \E i \in Item, s \in {"available", "borrowed"} :
    status[i] # Gone /\ Start(w, Transaction("patch", i, Nobody, Nobody, s))
BeginDelete(w) == \E i \in Item :
    status[i] # Gone /\ Start(w, Transaction("delete", i, Nobody, Nobody, "pending"))

\* Mutant: the row of the item is read and not locked.
ReadItem(w) ==
    /\ txn[w] # Nobody /\ txn[w].step = "lock"
    /\ status[txn[w].item] # Gone
    /\ txn[w].op = "create" /\ GoTo(w, "checkPending")
    /\ UNCHANGED <<itemLock, requestLock>>

\* Only an available item can be asked for.
Requestable(i) == status[i] = "available"

\* SELECT .. FOR UPDATE, the row of the item.  create goes on from here, the
\* joined query of resolve and cancel needs the request's lock as well.
LockItem(w) ==
    LET i == txn[w].item
    IN  /\ txn[w] # Nobody /\ txn[w].step = "lock"
        /\ itemLock[i] = Nobody
        /\ \/ status[i] = Gone /\ Refuse(w)
           \/ /\ txn[w].op = "create" /\ status[i] # Gone /\ ~Requestable(i)
              /\ Refuse(w)
           \/ /\ status[i] # Gone
              /\ txn[w].op = "create" => Requestable(i)
              /\ itemLock' = [itemLock EXCEPT ![i] = w]
              /\ GoTo(w, IF txn[w].op = "create" THEN "checkPending" ELSE "lock")
              /\ UNCHANGED requestLock

\* The same for the row of the request; which of the two rows of its join a
\* query locks first is the planner's choice.
LockRequest(w) ==
    LET b == txn[w].request
    IN  /\ txn[w] # Nobody /\ txn[w].step = "lock"
        /\ txn[w].op \in {"resolve", "cancel"}
        /\ requestLock[b] = Nobody
        /\ \/ ~Exists(b) /\ Refuse(w)
           \/ /\ Exists(b)
              /\ requestLock' = [requestLock EXCEPT ![b] = w]
              /\ UNCHANGED <<tables, txn, itemLock>>

-----------------------------------------------------------------------------
\* Mutant: the refusal forgets the lock.
CheckPendingHolding(w) ==
    /\ Running(w, "create") /\ txn[w].step = "checkPending"
    /\ UNCHANGED <<tables, itemLock, requestLock>>
    /\ IF PendingOn(txn[w].item) # {}
       THEN txn' = [txn EXCEPT ![w] = Nobody]
       ELSE txn' = [txn EXCEPT ![w].step = "file"]

\* pending_borrow_request_exists, a statement of its own under the item's lock.
CheckPending(w) ==
    /\ Running(w, "create") /\ txn[w].step = "checkPending"
    /\ IF PendingOn(txn[w].item) # {}
       THEN Refuse(w)
       ELSE GoTo(w, "file") /\ UNCHANGED <<itemLock, requestLock>>

\* fetch_user_snapshot and insert_borrow_request.  uq_.._pending_item is the
\* backstop: the insert fails when another pending request is there.
FileRequest(w) ==
    LET t == txn[w]
    IN  /\ Running(w, "create") /\ t.step = "file"
        /\ \/ t.guest \notin accounts /\ Refuse(w)
           \/ t.guest \in accounts /\ PendingOn(t.item) # {} /\ Refuse(w)
           \/ /\ t.guest \in accounts /\ PendingOn(t.item) = {}
              /\ requests' = [requests EXCEPT ![t.request] =
                   [item |-> t.item, status |-> "pending",
                    requester |-> t.guest, link |-> LinkOfGuest(t.guest)]]
              /\ End(w)
              /\ UNCHANGED <<status, accounts>>

\* A request is decided or cancelled only while it is pending.
Decidable(b) == requests[b].status = "pending"

\* Mutant: an approval takes the item whatever its status.
ApprovableAnyway(i) == TRUE

Approvable(i) == status[i] = "available"

\* mark_inventory_item_borrowed.
Lent(i) == [status EXCEPT ![i] = "borrowed"]

\* resolve_borrow_request, under both locks.
Resolve(w) ==
    LET t == txn[w]
    IN  /\ Running(w, "resolve") /\ HasItem(w) /\ HasRequest(w)
        /\ \/ ~Decidable(t.request) /\ Refuse(w)
           \/ /\ Decidable(t.request)
              /\ t.to = "approved" /\ ~Approvable(t.item)
              /\ Refuse(w)
           \/ /\ Decidable(t.request)
              /\ t.to = "approved" /\ Approvable(t.item) /\ StatusTaken(t.item, "borrowed")
              /\ Refuse(w)
           \/ /\ Decidable(t.request)
              /\ t.to = "approved" => Approvable(t.item) /\ ~StatusTaken(t.item, "borrowed")
              /\ requests' = [requests EXCEPT ![t.request].status = t.to]
              /\ status' = IF t.to = "approved" THEN Lent(t.item) ELSE status
              /\ End(w)
              /\ UNCHANGED accounts

\* cancellable_by: by the link when the caller has one, or by the account.
CancellableBy(b, u) ==
    \/ LinkOfGuest(u) # Nobody /\ requests[b].link = LinkOfGuest(u)
    \/ requests[b].requester = u

\* cancel_borrow_request_in_transaction, under both locks.
Cancel(w) ==
    LET t == txn[w]
    IN  /\ Running(w, "cancel") /\ HasItem(w) /\ HasRequest(w)
        /\ \/ ~CancellableBy(t.request, t.guest) /\ Refuse(w)
           \/ /\ CancellableBy(t.request, t.guest) /\ ~Decidable(t.request)
              /\ Refuse(w)
           \/ /\ CancellableBy(t.request, t.guest) /\ Decidable(t.request)
              /\ requests' = [requests EXCEPT ![t.request].status = "cancelled"]
              /\ End(w)
              /\ UNCHANGED <<status, accounts>>

\* Mutant: the status is written without the lock of the row.
PatchUnlocked(w) ==
    LET t == txn[w]
    IN  /\ Running(w, "patch") /\ status[t.item] # Gone
        /\ status' = [status EXCEPT ![t.item] = t.to]
        /\ End(w)
        /\ UNCHANGED <<requests, accounts>>

\* update_inventory_item, as far as the status goes.
Patch(w) ==
    LET t == txn[w]
    IN  /\ Running(w, "patch") /\ HasItem(w)
        /\ \/ StatusTaken(t.item, t.to) /\ Refuse(w)
           \/ /\ ~StatusTaken(t.item, t.to)
              /\ status' = [status EXCEPT ![t.item] = t.to]
              /\ End(w)
              /\ UNCHANGED <<requests, accounts>>

\* delete_inventory_item: ON DELETE CASCADE locks the requests one by one ..
LockCascade(w) ==
    /\ Running(w, "delete") /\ HasItem(w)
    /\ \E b \in RequestsOn(txn[w].item) :
         /\ requestLock[b] = Nobody
         /\ requestLock' = [requestLock EXCEPT ![b] = w]
    /\ UNCHANGED <<tables, txn, itemLock>>

\* Mutant: the requests of a deleted item stay.
DeleteItemOnly(w) ==
    /\ Running(w, "delete") /\ HasItem(w)
    /\ status' = [status EXCEPT ![txn[w].item] = Gone]
    /\ End(w)
    /\ UNCHANGED <<requests, accounts>>

\* .. and removes them with the item.
Delete(w) ==
    LET i == txn[w].item
    IN  /\ Running(w, "delete") /\ HasItem(w)
        /\ \A b \in RequestsOn(i) : requestLock[b] = w
        /\ status' = [status EXCEPT ![i] = Gone]
        /\ requests' = [b \in Request |-> IF b \in RequestsOn(i) THEN Gone ELSE requests[b]]
        /\ End(w)
        /\ UNCHANGED accounts

-----------------------------------------------------------------------------
\* delete_user: the guest link of the account goes by cascade, and what a request
\* says of either is ON DELETE SET NULL: an update, which waits for its lock.
DeleteGuest(u) ==
    LET theirs == {b \in Request : Exists(b) /\
                     \/ requests[b].requester = u
                     \/ LinkOfGuest(u) # Nobody /\ requests[b].link = LinkOfGuest(u)}
    IN  /\ u \in accounts
        /\ \A b \in theirs : requestLock[b] = Nobody
        /\ accounts' = accounts \ {u}
        /\ requests' = [b \in Request |->
             IF b \in theirs
             THEN [requests[b] EXCEPT !.requester = IF @ = u THEN Nobody ELSE @,
                                      !.link = IF @ = LinkOfGuest(u) THEN Nobody ELSE @]
             ELSE requests[b]]
        /\ UNCHANGED <<status, txn, itemLock, requestLock>>

\* Whom worker w may be waiting for.
WaitsFor(w) ==
    (IF txn[w] = Nobody \/ txn[w].step # "lock" THEN {}
     ELSE (IF HasItem(w) THEN {} ELSE {itemLock[txn[w].item]})
          \cup CASE txn[w].op \in {"resolve", "cancel"} /\ ~HasRequest(w) ->
                      {requestLock[txn[w].request]}
                 [] txn[w].op = "delete" /\ HasItem(w) ->
                      {requestLock[b] : b \in RequestsOn(txn[w].item)}
                 [] OTHER -> {})
    \ {w, Nobody}

\* The database aborts a transaction of a circle of waiting ones.
AbortDeadlocked(w) ==
    /\ \E W \in SUBSET Worker :
         w \in W /\ \A v \in W : WaitsFor(v) \cap W # {} /\ \E x \in W : v \in WaitsFor(x)
    /\ Refuse(w)

Begin(w) ==
    \/ BeginCreate(w) \/ BeginResolve(w) \/ BeginCancel(w)
    \/ BeginPatch(w) \/ BeginDelete(w)

Continue(w) ==
    \/ LockItem(w) \/ LockRequest(w)
    \/ CheckPending(w) \/ FileRequest(w)
    \/ Resolve(w) \/ Cancel(w) \/ Patch(w)
    \/ LockCascade(w) \/ Delete(w)
    \/ AbortDeadlocked(w)

Next ==
    \/ \E w \in Worker : Begin(w) \/ Continue(w)
    \/ \E u \in Guest : DeleteGuest(u)

Spec == Init /\ [][Next]_vars

\* A transaction goes on when it is not blocked, and the waiters of a row are
\* queued, so none is passed over for ever.
FairSpec == Spec /\ \A w \in Worker : SF_vars(Continue(w))

-----------------------------------------------------------------------------
TypeOK ==
    /\ status \in [Item -> ItemStatus \cup {Gone}]
    /\ requests \in [Request -> Filed \cup {Unused, Gone}]
    /\ accounts \subseteq Guest
    /\ txn \in [Worker -> Txn \cup {Nobody}]
    /\ itemLock \in [Item -> Worker \cup {Nobody}]
    /\ requestLock \in [Request -> Worker \cup {Nobody}]

\* "every path that creates or resolves a request takes that same lock, so this
\* check cannot be overtaken": it is not the unique index that keeps an item at
\* one pending request, "reaching it now would mean the lock discipline broke".
BackstopNeverReached == \A w \in Worker :
    (Running(w, "create") /\ txn[w].step = "file") => PendingOn(txn[w].item) = {}

\* A request belongs to an item that exists, even when the item is deleted
\* while a request for it is being filed or decided.
RequestsHaveTheirItem == \A b \in Request : Exists(b) => status[requests[b].item] # Gone

\* An approval finds its item available and leaves it borrowed, in one step,
\* whatever was done to the item while the request was being read.
ApprovalTakesAnAvailableItem ==
    [][\A b \in Request :
         (Exists(b) /\ requests[b].status = "pending" /\ requests'[b] # Gone
          /\ requests'[b].status = "approved")
         => status[requests[b].item] = "available" /\ status'[requests[b].item] = "borrowed"]_vars

\* Borrowing keeps the promise of BorrowContract: whoever files, decides, cancels,
\* patches and deletes at once, the effect is that of whole operations in some
\* order, with each request filed for an item that is available at that moment and
\* decided once.
Contract == INSTANCE BorrowContract WITH
    shelf <- [i \in Item |-> IF status[i] = "available" THEN "available"
                            ELSE IF status[i] = Gone THEN "gone" ELSE "away"],
    phase <- [b \in Request |-> IF Exists(b) THEN requests[b].status
                               ELSE IF requests[b] = Unused THEN "unfiled" ELSE "gone"],
    about <- [b \in Request |-> IF Exists(b) THEN requests[b].item ELSE Nobody]

ImplementsContract == Contract!Spec

\* Every transaction is answered, the ones that delete items included.
EveryTransactionEnds == \A w \in Worker : txn[w] # Nobody ~> txn[w] = Nobody
=============================================================================
