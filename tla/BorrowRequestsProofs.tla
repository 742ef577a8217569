------------------------ MODULE BorrowRequestsProofs ------------------------
(***************************************************************************)
(* The safety properties of BorrowRequests for any number of connections,   *)
(* items, requests and guests.  The inductive invariant says what a         *)
(* transaction knows at each of its steps, and that it knows it because of  *)
(* the locks it holds.  On it rests the refinement of BorrowContract.       *)
(***************************************************************************)
EXTENDS BorrowRequests, TLAPS

\* What the arguments of a transaction are, and what it has made sure of.
Fits(w) ==
    txn[w] # Nobody =>
        /\ txn[w].op = "resolve" => txn[w].to \in {"approved", "rejected"}
        /\ txn[w].op = "patch" => txn[w].to \in ItemStatus
        /\ txn[w].op = "create" => txn[w].request \in Request /\ requests[txn[w].request] = Unused
        /\ txn[w].op \in {"resolve", "cancel"} =>
             /\ txn[w].request \in Request
             /\ requests[txn[w].request] # Unused
             /\ Exists(txn[w].request) => requests[txn[w].request].item = txn[w].item
        /\ txn[w].step # "lock" =>
             txn[w].op = "create" /\ HasItem(w) /\ Requestable(txn[w].item)
        /\ txn[w].step = "file" => PendingOn(txn[w].item) = {}

\* No two transactions that create have drawn the same uuid.
DistinctDraws ==
    \A v, w \in Worker :
        (Running(v, "create") /\ Running(w, "create") /\ txn[v].request = txn[w].request) => v = w

\* A lock is on a row that is there, and an item's holder is about that item.
LocksFit ==
    /\ \A i \in Item : itemLock[i] # Nobody =>
         /\ status[i] # Gone
         /\ txn[itemLock[i]] # Nobody
         /\ txn[itemLock[i]].item = i
    /\ \A b \in Request : requestLock[b] # Nobody => Exists(b)

IndInv ==
    /\ TypeOK
    /\ \A w \in Worker : Fits(w)
    /\ DistinctDraws
    /\ LocksFit
    /\ RequestsHaveTheirItem

-----------------------------------------------------------------------------
(***************************************************************************)
(* Each action keeps the invariant.                                         *)
(***************************************************************************)

\* The fields of a transaction that is under way have their types.
LEMMA TxnFields ==
    ASSUME TypeOK, NEW w \in Worker, txn[w] # Nobody
    PROVE  /\ txn[w] \in Txn
           /\ txn[w].op \in Op /\ txn[w].step \in Step /\ txn[w].item \in Item
           /\ txn[w].request \in Request \cup {Nobody}
           /\ txn[w].guest \in Guest \cup {Nobody}
  BY DEF TypeOK, Txn

\* What the transaction of w may write, for the others not to notice: only it
\* may use the uuid it drew, every other request keeps its item and never comes
\* back, and it locked the items it changes or files for and the requests it
\* removes.
Considerate(w) ==
    /\ \A b \in Request : requests[b] = Unused =>
         requests'[b] = Unused \/ (Running(w, "create") /\ b = txn[w].request)
    /\ \A b \in Request : requests[b] # Unused =>
         /\ requests'[b] # Unused
         /\ Exists(b)' => Exists(b) /\ requests'[b].item = requests[b].item
    /\ \A b \in Request :
         (Exists(b)' /\ requests'[b].status = "pending"
          /\ ~(Exists(b) /\ requests[b].status = "pending"))
         => itemLock[requests'[b].item] = w
    /\ \A i \in Item : status'[i] = status[i] \/ itemLock[i] = w
    /\ \A b \in Request : (Exists(b) /\ ~Exists(b)') => requestLock[b] \in {w, Nobody}

\* A transaction that ends, after writes of that kind.
LEMMA EndKeepsIndInv ==
    ASSUME IndInv, NEW w \in Worker, txn[w] # Nobody, End(w), Considerate(w),
           status' \in [Item -> ItemStatus \cup {Gone}],
           requests' \in [Request -> Filed \cup {Unused, Gone}],
           accounts' \subseteq Guest, RequestsHaveTheirItem'
    PROVE  IndInv'
<1> USE DEF IndInv
<1>1. \A v \in Worker : txn'[v] = IF v = w THEN Nobody ELSE txn[v]
  BY DEF TypeOK, End
<1>2. TypeOK'
  BY <1>1 DEF TypeOK, End
<1>3. ASSUME NEW v \in Worker PROVE Fits(v)'
  <2>1. CASE txn'[v] = Nobody
    BY <2>1 DEF Fits
  <2>2. CASE txn'[v] # Nobody
    <3>1. v # w /\ txn'[v] = txn[v] /\ txn[v] # Nobody
      BY <1>1, <2>2
    <3>2. txn[v].item \in Item
      BY <3>1, TxnFields
    <3>3. HasItem(v) => HasItem(v)'
      BY <3>1, <3>2, NobodyAssumption DEF HasItem, End
    <3>4. txn[v].op = "create" => requests'[txn[v].request] = Unused
      BY <3>1 DEF Considerate, Fits, DistinctDraws, Running
    <3>5. txn[v].op \in {"resolve", "cancel"} =>
            /\ requests'[txn[v].request] # Unused
            /\ Exists(txn[v].request)' => requests'[txn[v].request].item = txn[v].item
      BY <3>1 DEF Considerate, Fits
    <3>6. txn[v].step # "lock" => Requestable(txn[v].item)'
      BY <3>1, <3>2 DEF Considerate, Fits, HasItem, Requestable
    <3>7. txn[v].step = "file" => PendingOn(txn[v].item)' = {}
      <4> SUFFICES ASSUME txn[v].step = "file",
                          NEW b \in Request, Exists(b)', requests'[b].item = txn[v].item,
                          requests'[b].status = "pending"
                   PROVE  FALSE
        BY <3>1 DEF PendingOn
      <4>1. HasItem(v) /\ PendingOn(txn[v].item) = {}
        BY <3>1 DEF Fits
      <4>2. itemLock[txn[v].item] # w
        BY <3>1, <4>1 DEF HasItem
      <4>3. Exists(b) /\ requests[b].status = "pending"
        BY <4>2 DEF Considerate
      <4>4. requests[b].item = txn[v].item
        BY <4>3 DEF Considerate, Exists
      <4> QED BY <4>1, <4>3, <4>4 DEF PendingOn
    <3> QED BY <3>1, <3>3, <3>4, <3>5, <3>6, <3>7 DEF Fits
  <2> QED BY <2>1, <2>2
<1>4. DistinctDraws'
  BY <1>1 DEF DistinctDraws, Running
<1>5. LocksFit'
  <2>1. ASSUME NEW i \in Item, itemLock'[i] # Nobody
        PROVE  status'[i] # Gone /\ txn'[itemLock'[i]] # Nobody /\ txn'[itemLock'[i]].item = i
    <3>1. itemLock[i] # w /\ itemLock'[i] = itemLock[i] /\ itemLock[i] \in Worker
      BY <2>1, <1>2 DEF End, TypeOK
    <3> QED BY <1>1, <2>1, <3>1 DEF LocksFit, Considerate
  <2>2. ASSUME NEW b \in Request, requestLock'[b] # Nobody PROVE Exists(b)'
    <3>1. requestLock[b] # w /\ requestLock[b] # Nobody
      BY <2>2 DEF End
    <3>2. Exists(b)
      BY <3>1 DEF LocksFit
    <3> QED BY <3>1, <3>2 DEF Considerate
  <2> QED BY <2>1, <2>2 DEF LocksFit
<1> QED BY <1>2, <1>3, <1>4, <1>5

\* A transaction that ends without a write leaves the others as they were.
LEMMA RefuseKeepsIndInv ==
    ASSUME IndInv, NEW w \in Worker, txn[w] # Nobody, Refuse(w)
    PROVE  IndInv'
<1>1. Considerate(w)
  BY DEF Considerate, Refuse, tables, Exists
<1>2. RequestsHaveTheirItem'
  BY DEF IndInv, RequestsHaveTheirItem, Refuse, tables, Exists
<1> QED BY <1>1, <1>2, EndKeepsIndInv DEF IndInv, TypeOK, Refuse, tables

\* A transaction that starts, takes a lock or moves to its next step.
LEMMA StartKeepsIndInv ==
    ASSUME IndInv, NEW w \in Worker, Begin(w)
    PROVE  IndInv'
<1> USE DEF IndInv
<1>1. PICK t \in Txn :
        /\ Start(w, t) /\ t.step = "lock"
        /\ t.op = "resolve" => t.to \in {"approved", "rejected"}
        /\ t.op = "patch" => t.to \in ItemStatus
        /\ t.op = "create" => t.request \in Request /\ Fresh(t.request)
        /\ t.op \in {"resolve", "cancel"} =>
             t.request \in Request /\ Exists(t.request) /\ requests[t.request].item = t.item
  <2>1. \A b \in Request : Exists(b) => requests[b].item \in Item
    BY DEF TypeOK, Exists, Filed
  <2>2. CASE BeginCreate(w)
    <3>1. \A b \in Request : Drawn(b) => Fresh(b)
      BY DEF Drawn
    <3> QED BY <2>2, <3>1 DEF BeginCreate, Transaction, Txn, Op, Step, TypeOK, RequestStatus
  <2>3. CASE BeginResolve(w)
    BY <2>1, <2>3 DEF BeginResolve, Transaction, Txn, Op, Step, RequestStatus
  <2>4. CASE BeginCancel(w)
    BY <2>1, <2>4 DEF BeginCancel, Transaction, Txn, Op, Step, TypeOK, RequestStatus
  <2>5. CASE BeginPatch(w)
    BY <2>5 DEF BeginPatch, Transaction, Txn, Op, Step, ItemStatus
  <2>6. CASE BeginDelete(w)
    BY <2>6 DEF BeginDelete, Transaction, Txn, Op, Step, RequestStatus
  <2> QED BY <2>2, <2>3, <2>4, <2>5, <2>6 DEF Begin
<1> USE DEF Start, tables
<1>2. TypeOK'
  BY <1>1 DEF TypeOK
<1>3. ASSUME NEW v \in Worker PROVE Fits(v)'
  <2>1. CASE v = w
    BY <1>1, <2>1 DEF Fits, TypeOK, Fresh, Exists
  <2>2. CASE v # w
    BY <1>1, <2>2 DEF Fits, TypeOK, HasItem, PendingOn, Requestable, Exists
  <2> QED BY <2>1, <2>2
<1>4. DistinctDraws'
  BY <1>1 DEF DistinctDraws, Running, Fresh, TypeOK
<1>5. LocksFit'
  BY <1>1 DEF LocksFit, TypeOK, Exists
<1>6. RequestsHaveTheirItem'
  BY <1>1 DEF RequestsHaveTheirItem, Exists
<1> QED BY <1>2, <1>3, <1>4, <1>5, <1>6

\* The item's lock, which makes the transaction's reads of the item stable.
LEMMA LockItemKeepsIndInv ==
    ASSUME IndInv, NEW w \in Worker, LockItem(w)
    PROVE  IndInv'
<1> USE DEF IndInv, LockItem
<1> DEFINE i == txn[w].item
           next == IF txn[w].op = "create" THEN "checkPending" ELSE "lock"
<1>1. CASE Refuse(w)
  BY <1>1, RefuseKeepsIndInv
<1>2. CASE /\ status[i] # Gone
           /\ txn[w].op = "create" => Requestable(i)
           /\ itemLock' = [itemLock EXCEPT ![i] = w]
           /\ GoTo(w, next)
           /\ UNCHANGED requestLock
  <2> USE <1>2 DEF GoTo, tables
  <2>1. txn[w] \in Txn /\ i \in Item /\ itemLock[i] = Nobody /\ txn[w].step = "lock"
    BY TxnFields
  <2>2. \A v \in Worker : txn'[v] = IF v = w THEN [txn[w] EXCEPT !.step = next] ELSE txn[v]
    BY DEF TypeOK
  <2>3. [txn[w] EXCEPT !.step = next] \in Txn
    BY <2>1 DEF Txn, Step
  <2>4. TypeOK'
    BY <2>1, <2>2, <2>3 DEF TypeOK
  <2>5. ASSUME NEW v \in Worker PROVE Fits(v)'
    <3>1. CASE v = w
      <4>1. HasItem(w)'
        BY <2>1, <2>2 DEF HasItem, Txn, TypeOK
      <4> QED BY <2>1, <2>2, <2>3, <3>1, <4>1 DEF Fits, Txn, Exists, Requestable
    <3>2. CASE v # w
      <4>1. txn[v] # Nobody /\ HasItem(v) => HasItem(v)'
        BY <2>1, <2>2, <3>2, NobodyAssumption DEF HasItem, TypeOK
      <4> QED BY <2>2, <3>2, <4>1 DEF Fits, PendingOn, Requestable, Exists
    <3> QED BY <3>1, <3>2
  <2>6. DistinctDraws'
    BY <2>1, <2>2, <2>3, NobodyAssumption, IdleAssumption DEF DistinctDraws, Running, Txn
  <2>7. LocksFit'
    <3>1. ASSUME NEW k \in Item, itemLock'[k] # Nobody
          PROVE  status[k] # Gone /\ txn'[itemLock'[k]] # Nobody /\ txn'[itemLock'[k]].item = k
      <4>1. CASE k = i
        <5>1. itemLock'[k] = w
          BY <2>1, <4>1 DEF TypeOK
        <5> QED BY <2>1, <2>2, <2>3, <4>1, <5>1, IdleAssumption DEF Txn
      <4>2. CASE k # i
        <5>1. itemLock'[k] = itemLock[k] /\ itemLock[k] \in Worker
          BY <3>1, <4>2 DEF TypeOK
        <5>2. txn[itemLock[k]].item = k
          BY <3>1, <5>1 DEF LocksFit
        <5> QED BY <2>2, <3>1, <4>2, <5>1, <5>2 DEF LocksFit
      <4> QED BY <4>1, <4>2
    <3> QED BY <3>1 DEF LocksFit, Exists
  <2>8. RequestsHaveTheirItem'
    BY DEF RequestsHaveTheirItem, Exists
  <2> QED BY <2>4, <2>5, <2>6, <2>7, <2>8
<1> QED BY <1>1, <1>2

\* Taking the lock of a request that exists.
LEMMA RequestLockKeepsIndInv ==
    ASSUME IndInv, NEW w \in Worker, NEW b \in Request, Exists(b), requestLock[b] = Nobody,
           requestLock' = [requestLock EXCEPT ![b] = w], UNCHANGED <<tables, txn, itemLock>>
    PROVE  IndInv'
<1> USE DEF IndInv, tables
<1>1. TypeOK'
  BY DEF TypeOK
<1>2. ASSUME NEW v \in Worker PROVE Fits(v)'
  BY DEF Fits, HasItem, PendingOn, Requestable, Exists
<1>3. DistinctDraws'
  BY DEF DistinctDraws, Running
<1>4. LocksFit'
  BY DEF LocksFit, Exists, TypeOK
<1>5. RequestsHaveTheirItem'
  BY DEF RequestsHaveTheirItem, Exists
<1> QED BY <1>1, <1>2, <1>3, <1>4, <1>5

\* The request's lock, for a decision, a cancellation or a cascade.
LEMMA LockRequestKeepsIndInv ==
    ASSUME IndInv, NEW w \in Worker, LockRequest(w) \/ LockCascade(w)
    PROVE  IndInv'
<1>1. CASE LockRequest(w) /\ Refuse(w)
  BY <1>1, RefuseKeepsIndInv DEF LockRequest
<1>2. CASE LockRequest(w) /\ ~Refuse(w)
  <2>1. txn[w].request \in Request
    BY <1>2 DEF LockRequest, IndInv, Fits
  <2> QED BY <1>2, <2>1, RequestLockKeepsIndInv DEF LockRequest
<1>3. CASE LockCascade(w)
  BY <1>3, RequestLockKeepsIndInv DEF LockCascade, RequestsOn
<1> QED BY <1>1, <1>2, <1>3

\* What the pending check saw stays so, because the item is locked.
LEMMA CheckPendingKeepsIndInv ==
    ASSUME IndInv, NEW w \in Worker, CheckPending(w)
    PROVE  IndInv'
<1> USE DEF IndInv, CheckPending
<1>1. CASE PendingOn(txn[w].item) # {}
  BY <1>1, RefuseKeepsIndInv DEF Running
<1>2. CASE PendingOn(txn[w].item) = {}
  <2> USE <1>2 DEF GoTo, tables
  <2>1. txn[w] # Nobody /\ txn[w] \in Txn
    BY TxnFields DEF Running
  <2>2. \A v \in Worker : txn'[v] = IF v = w THEN [txn[w] EXCEPT !.step = "file"] ELSE txn[v]
    BY DEF TypeOK
  <2>3. [txn[w] EXCEPT !.step = "file"] \in Txn
    BY <2>1 DEF Txn, Step
  <2>4. TypeOK'
    BY <2>2, <2>3 DEF TypeOK
  <2>5. ASSUME NEW v \in Worker PROVE Fits(v)'
    BY <2>1, <2>2, <2>3 DEF Fits, HasItem, PendingOn, Requestable, Exists, Txn
  <2>6. DistinctDraws'
    BY <2>1, <2>2, <2>3 DEF DistinctDraws, Running, Txn
  <2>7. LocksFit'
    BY <2>1, <2>2, <2>3, IdleAssumption DEF LocksFit, Exists, Txn, TypeOK
  <2>8. RequestsHaveTheirItem'
    BY DEF RequestsHaveTheirItem, Exists
  <2> QED BY <2>4, <2>5, <2>6, <2>7, <2>8
<1> QED BY <1>1, <1>2

\* The transactions that write keep it because they are considerate.
LEMMA FileKeepsIndInv ==
    ASSUME IndInv, NEW w \in Worker, FileRequest(w)
    PROVE  IndInv'
<1> USE DEF IndInv, FileRequest
<1> DEFINE t == txn[w]
           row == [item |-> t.item, status |-> "pending",
                   requester |-> t.guest, link |-> LinkOfGuest(t.guest)]
<1>1. CASE Refuse(w)
  BY <1>1, RefuseKeepsIndInv DEF Running
<1>2. CASE /\ t.guest \in accounts /\ PendingOn(t.item) = {}
           /\ requests' = [requests EXCEPT ![t.request] = row]
           /\ End(w) /\ UNCHANGED <<status, accounts>>
  <2> USE <1>2
  <2>1. /\ t # Nobody /\ t \in Txn /\ t.item \in Item /\ HasItem(w)
        /\ t.request \in Request /\ requests[t.request] = Unused
    BY TxnFields DEF Running, Fits
  <2>2. row \in Filed
    BY <2>1, LinkAssumption DEF Filed, RequestStatus, LinkOfGuest, TypeOK
  <2>3. requests' \in [Request -> Filed \cup {Unused, Gone}]
    BY <2>1, <2>2 DEF TypeOK
  <2>4. \A b \in Request : requests'[b] = IF b = t.request THEN row ELSE requests[b]
    BY <2>1 DEF TypeOK
  <2>5. Considerate(w)
    BY <2>1, <2>2, <2>4, TombstoneAssumption DEF Considerate, Exists, HasItem, Running
  <2>6. status[t.item] # Gone
    BY <2>1, NobodyAssumption DEF HasItem, LocksFit
  <2>7. RequestsHaveTheirItem'
    BY <2>2, <2>4, <2>6, TombstoneAssumption DEF RequestsHaveTheirItem, Exists
  <2> QED BY <2>1, <2>3, <2>5, <2>7, EndKeepsIndInv DEF TypeOK
<1> QED BY <1>1, <1>2

\* A transaction with both locks that gives its request another status.
LEMMA StatusWriteKeepsIndInv ==
    ASSUME IndInv, NEW w \in Worker, NEW b \in Request, Exists(b), NEW s \in RequestStatus,
           s # "pending", txn[w] # Nobody, End(w),
           requests' = [requests EXCEPT ![b].status = s],
           status' \in [Item -> ItemStatus \cup {Gone}],
           \A i \in Item : status'[i] = Gone => status[i] = Gone,
           \A i \in Item : status'[i] = status[i] \/ itemLock[i] = w,
           UNCHANGED accounts
    PROVE  IndInv'
<1> USE DEF IndInv
<1>1. requests[b] \in Filed
  BY DEF TypeOK, Exists
<1>2. [requests[b] EXCEPT !.status = s] \in Filed
  BY <1>1 DEF Filed
<1>3. \A c \in Request :
         requests'[c] = IF c = b THEN [requests[b] EXCEPT !.status = s] ELSE requests[c]
  BY DEF TypeOK
<1>4. requests' \in [Request -> Filed \cup {Unused, Gone}]
  BY <1>2 DEF TypeOK
<1>5. \A c \in Request : Exists(c)' <=> Exists(c)
  BY <1>2, <1>3, TombstoneAssumption DEF Exists
<1>6. \A c \in Request : Exists(c) => requests'[c].item = requests[c].item
  BY <1>1, <1>3 DEF Filed
<1>7. \A c \in Request : Exists(c) => c = b \/ requests'[c].status = requests[c].status
  BY <1>3
<1>8. requests'[b].status = s
  BY <1>1, <1>3 DEF Filed
<1>9. Considerate(w)
  BY <1>3, <1>5, <1>6, <1>7, <1>8 DEF Considerate, Exists
<1>10. \A c \in Request : Exists(c) => requests[c].item \in Item
  BY DEF TypeOK, Exists, Filed
<1>11. RequestsHaveTheirItem'
  BY <1>5, <1>6, <1>10 DEF RequestsHaveTheirItem
<1> QED BY <1>4, <1>9, <1>11, EndKeepsIndInv DEF TypeOK

\* A decision or a cancellation, under both locks.
LEMMA ResolveKeepsIndInv ==
    ASSUME IndInv, NEW w \in Worker, Resolve(w) \/ Cancel(w)
    PROVE  IndInv'
<1> USE DEF IndInv
<1>1. txn[w] # Nobody
  BY DEF Resolve, Cancel, Running
<1>2. CASE Refuse(w)
  BY <1>1, <1>2, RefuseKeepsIndInv
<1>3. CASE ~Refuse(w)
  <2>1. txn[w].request \in Request /\ Exists(txn[w].request) /\ txn[w].item \in Item
    BY <1>1, NobodyAssumption, TxnFields DEF Resolve, Cancel, Running, Fits, HasRequest, LocksFit
  <2>2. CASE Cancel(w)
    BY <1>1, <1>3, <2>1, <2>2, StatusWriteKeepsIndInv DEF Cancel, RequestStatus, TypeOK
  <2>3. CASE Resolve(w)
    <3>1. txn[w].to \in {"approved", "rejected"}
      BY <1>1, <2>3 DEF Resolve, Running, Fits
    <3>2. /\ status' \in [Item -> ItemStatus \cup {Gone}]
          /\ \A i \in Item : status'[i] = Gone => status[i] = Gone
          /\ \A i \in Item : status'[i] = status[i] \/ itemLock[i] = w
      <4>1. status' = status \/ status' = [status EXCEPT ![txn[w].item] = "borrowed"]
        BY <1>3, <2>3 DEF Resolve, Lent
      <4>2. "borrowed" \in ItemStatus /\ "borrowed" # Gone
        BY TombstoneAssumption DEF ItemStatus
      <4> QED BY <2>1, <2>3, <4>1, <4>2 DEF TypeOK, Resolve, HasItem
    <3> QED BY <1>1, <1>3, <2>1, <2>3, <3>1, <3>2, StatusWriteKeepsIndInv DEF Resolve, RequestStatus
  <2> QED BY <2>2, <2>3
<1> QED BY <1>2, <1>3

\* A patch of the item's status.
LEMMA PatchKeepsIndInv ==
    ASSUME IndInv, NEW w \in Worker, Patch(w)
    PROVE  IndInv'
<1> USE DEF IndInv, Patch
<1>1. CASE Refuse(w)
  BY <1>1, RefuseKeepsIndInv DEF Running
<1>2. CASE /\ status' = [status EXCEPT ![txn[w].item] = txn[w].to]
           /\ End(w) /\ UNCHANGED <<requests, accounts>>
  <2> USE <1>2
  <2>1. /\ txn[w] # Nobody /\ txn[w].item \in Item
        /\ txn[w].to \in ItemStatus /\ txn[w].to # Gone
    BY TxnFields, TombstoneAssumption DEF Running, Fits
  <2>2. /\ status' \in [Item -> ItemStatus \cup {Gone}]
        /\ \A i \in Item : status'[i] = Gone => status[i] = Gone
    BY <2>1 DEF TypeOK
  <2>3. \A b \in Request : Exists(b) => requests[b].item \in Item
    BY DEF TypeOK, Exists, Filed
  <2>4. RequestsHaveTheirItem'
    BY <2>2, <2>3 DEF RequestsHaveTheirItem, Exists
  <2>5. Considerate(w)
    BY <2>1 DEF Considerate, Exists, TypeOK, HasItem
  <2> QED BY <2>1, <2>2, <2>4, <2>5, EndKeepsIndInv DEF TypeOK
<1> QED BY <1>1, <1>2

\* A delete takes the item and its requests together.
LEMMA DeleteKeepsIndInv ==
    ASSUME IndInv, NEW w \in Worker, Delete(w)
    PROVE  IndInv'
<1> USE DEF IndInv, Delete
<1> DEFINE i == txn[w].item
<1>1. txn[w] # Nobody /\ i \in Item
  BY TxnFields DEF Running
<1>2. \A b \in Request : requests'[b] = IF b \in RequestsOn(i) THEN Gone ELSE requests[b]
  OBVIOUS
<1>3. \A b \in Request : Exists(b)' <=> Exists(b) /\ requests[b].item # i
  BY <1>2 DEF Exists, RequestsOn
<1>4. /\ requests' \in [Request -> Filed \cup {Unused, Gone}]
      /\ status' \in [Item -> ItemStatus \cup {Gone}]
  BY <1>1, <1>2 DEF TypeOK
<1>5. \A k \in Item : status'[k] = status[k] \/ itemLock[k] = w
  BY <1>1 DEF TypeOK, HasItem
<1>6. Considerate(w)
  BY <1>2, <1>3, <1>5, TombstoneAssumption DEF Considerate, Exists, RequestsOn
<1>7. \A b \in Request : Exists(b) => requests[b].item \in Item
  BY DEF TypeOK, Exists, Filed
<1>8. RequestsHaveTheirItem'
  BY <1>1, <1>2, <1>3, <1>7 DEF RequestsHaveTheirItem, Exists, TypeOK
<1> QED BY <1>1, <1>4, <1>6, <1>8, EndKeepsIndInv DEF TypeOK

\* The account of a guest goes; its requests stay.
LEMMA DeleteGuestKeepsIndInv ==
    ASSUME IndInv, NEW u \in Guest, DeleteGuest(u)
    PROVE  IndInv'
<1> USE DEF IndInv
<1> DEFINE left(b) == [requests[b] EXCEPT !.requester = IF @ = u THEN Nobody ELSE @,
                                          !.link = IF @ = LinkOfGuest(u) THEN Nobody ELSE @]
<1>1. \A b \in Request : Exists(b) => /\ requests[b] \in Filed /\ left(b) \in Filed
                                      /\ left(b).item = requests[b].item
                                      /\ left(b).status = requests[b].status
  BY DEF TypeOK, Exists, Filed
<1>2. \A b \in Request : requests'[b] = requests[b] \/ (Exists(b) /\ requests'[b] = left(b))
  BY DEF DeleteGuest
<1>3. UNCHANGED <<status, txn, itemLock, requestLock>> /\ accounts' \subseteq accounts
  BY DEF DeleteGuest
<1> HIDE DEF left
<1>4. \A b \in Request : Exists(b)' <=> Exists(b)
  BY <1>1, <1>2, TombstoneAssumption DEF Exists
<1>5. \A b \in Request : Exists(b) =>
        requests'[b].item = requests[b].item /\ requests'[b].status = requests[b].status
  BY <1>1, <1>2
<1>6. \A b \in Request : (requests'[b] = Unused) <=> (requests[b] = Unused)
  BY <1>1, <1>2, <1>4, TombstoneAssumption DEF Exists
<1>7. TypeOK'
  <2>1. requests' \in [Request -> Filed \cup {Unused, Gone}]
    <3>1. requests' = [b \in Request |-> requests'[b]]
      BY DEF DeleteGuest
    <3> QED BY <1>1, <1>2, <3>1 DEF TypeOK
  <2> QED BY <1>3, <2>1 DEF TypeOK
<1>8. \A i \in Item : PendingOn(i)' = PendingOn(i)
  BY <1>4, <1>5 DEF PendingOn
<1>9. ASSUME NEW v \in Worker PROVE Fits(v)'
  BY <1>4, <1>5, <1>6, <1>8, <1>3, TxnFields DEF Fits, HasItem, Requestable
<1>10. DistinctDraws' /\ LocksFit'
  BY <1>4, <1>3 DEF DistinctDraws, Running, LocksFit
<1>11. RequestsHaveTheirItem'
  BY <1>4, <1>5, <1>3 DEF RequestsHaveTheirItem
<1> QED BY <1>7, <1>9, <1>10, <1>11

\* The invariant holds at the start ..
LEMMA InitIndInv == Init => IndInv
<1> SUFFICES ASSUME Init PROVE IndInv
  OBVIOUS
<1>1. TypeOK
  BY DEF Init, TypeOK, ItemStatus
<1>2. \A b \in Request : ~Exists(b)
  BY DEF Init, Exists
<1> QED BY <1>1, <1>2 DEF IndInv, Init, Fits, DistinctDraws, Running, LocksFit, RequestsHaveTheirItem

\* .. and every step keeps it.
LEMMA NextKeepsIndInv == IndInv /\ [Next]_vars => IndInv'
<1> SUFFICES ASSUME IndInv, [Next]_vars PROVE IndInv'
  OBVIOUS
<1>1. CASE UNCHANGED vars
  BY <1>1 DEF IndInv, vars, TypeOK, Fits, HasItem, PendingOn, Requestable, DistinctDraws, Running, LocksFit,
              Exists, RequestsHaveTheirItem
<1>2. CASE \E u \in Guest : DeleteGuest(u)
  BY <1>2, DeleteGuestKeepsIndInv
<1>3. ASSUME NEW w \in Worker, Begin(w) \/ Continue(w) PROVE IndInv'
  <2>1. CASE AbortDeadlocked(w)
    <3>1. txn[w] # Nobody
      BY <2>1 DEF AbortDeadlocked, WaitsFor
    <3> QED BY <2>1, <3>1, RefuseKeepsIndInv DEF AbortDeadlocked
  <2> QED BY <1>3, <2>1, StartKeepsIndInv, LockItemKeepsIndInv, LockRequestKeepsIndInv,
             CheckPendingKeepsIndInv, FileKeepsIndInv, ResolveKeepsIndInv, PatchKeepsIndInv,
             DeleteKeepsIndInv DEF Continue
<1> QED BY <1>1, <1>2, <1>3 DEF Next

-----------------------------------------------------------------------------
(***************************************************************************)
(* The theorems.                                                            *)
(***************************************************************************)

\* What a step can make of a request that was filed: only a cancellation or a
\* decision changes its status, the latter with its item when it approves.
LEMMA StatusChanges ==
    ASSUME IndInv, [Next]_vars, NEW b \in Request, Exists(b), requests'[b] # Gone
    PROVE  \/ requests'[b].status = requests[b].status
           \/ /\ Decidable(b)
              /\ requests'[b].status = "cancelled"
           \/ /\ Decidable(b)
              /\ requests'[b].status = "rejected"
           \/ /\ Decidable(b)
              /\ Approvable(requests[b].item) /\ status'[requests[b].item] = "borrowed"
<1> USE DEF IndInv
<1>1. requests[b] \in Filed
  BY DEF TypeOK, Exists
<1>2. CASE requests'[b] = requests[b]
  BY <1>2
<1>3. ASSUME NEW u \in Guest, DeleteGuest(u)
      PROVE  requests'[b].status = requests[b].status
  BY <1>1, <1>3 DEF DeleteGuest, Filed
<1>4. ASSUME NEW w \in Worker, FileRequest(w)
      PROVE  requests'[b] = requests[b]
  <2>1. txn[w].request \in Request /\ requests[txn[w].request] = Unused
    BY <1>4 DEF FileRequest, Running, Fits
  <2> QED BY <1>4, <2>1 DEF FileRequest, Refuse, tables, Exists, TypeOK
<1>5. ASSUME NEW w \in Worker, Delete(w)
      PROVE  requests'[b] = requests[b]
  BY <1>5 DEF Delete
<1>6. ASSUME NEW w \in Worker, Cancel(w)
      PROVE  requests'[b] = requests[b] \/ (Decidable(b) /\ requests'[b].status = "cancelled")
  BY <1>1, <1>6 DEF Cancel, Refuse, tables, TypeOK, Filed
<1>7. ASSUME NEW w \in Worker, Resolve(w), requests'[b] # requests[b]
      PROVE  /\ Decidable(b)
             /\ \/ requests'[b].status = "rejected"
                \/ Approvable(requests[b].item) /\ status'[requests[b].item] = "borrowed"
  <2> DEFINE t == txn[w]
  <2>1. /\ Decidable(t.request)
        /\ t.to = "approved" => Approvable(t.item)
        /\ requests' = [requests EXCEPT ![t.request].status = t.to]
        /\ status' = IF t.to = "approved" THEN [status EXCEPT ![t.item] = "borrowed"] ELSE status
    BY <1>7 DEF Resolve, Refuse, tables, Lent
  <2>2. b = t.request
    BY <1>7, <2>1 DEF TypeOK
  <2>3. /\ t.to \in {"approved", "rejected"}
        /\ requests[b].item = t.item
        /\ t.item \in Item
    BY <1>7, <2>2, TxnFields DEF Resolve, Running, Fits
  <2>4. requests'[b].status = t.to
    BY <1>1, <2>1, <2>2 DEF TypeOK, Filed
  <2> QED BY <2>1, <2>2, <2>3, <2>4 DEF TypeOK
<1>8. CASE ~\E u \in Guest : DeleteGuest(u)
  <2>1. CASE UNCHANGED requests
    BY <2>1
  <2>2. CASE \E w \in Worker : FileRequest(w) \/ Delete(w) \/ Cancel(w) \/ Resolve(w)
    BY <1>4, <1>5, <1>6, <1>7, <2>2
  <2>3. UNCHANGED requests \/ \E w \in Worker : FileRequest(w) \/ Delete(w) \/ Cancel(w) \/ Resolve(w)
    BY <1>8 DEF Next, vars, Begin, Continue, BeginCreate, BeginResolve, BeginCancel, BeginPatch,
         BeginDelete, Start, LockItem, LockRequest, CheckPending, Patch, LockCascade,
         AbortDeadlocked, Refuse, GoTo, tables
  <2> QED BY <2>1, <2>2, <2>3
<1> QED BY <1>3, <1>8

\* The inductive invariant holds in every state of every behaviour.
THEOREM Inductive == Spec => []IndInv
<1> QED BY InitIndInv, NextKeepsIndInv, PTL DEF Spec

\* Every variable keeps its type, whatever the transactions write.
THEOREM TypeCorrect == Spec => []TypeOK
<1>1. IndInv => TypeOK
  BY DEF IndInv
<1> QED BY <1>1, Inductive, PTL

\* Under the item's lock the pending check cannot be overtaken, so the insert of
\* create_borrow_request_in_transaction never meets the unique index.
THEOREM PendingCheckSuffices == Spec => []BackstopNeverReached
<1>1. IndInv => BackstopNeverReached
  BY DEF IndInv, BackstopNeverReached, Fits, Running
<1> QED BY <1>1, Inductive, PTL

\* A request that is there belongs to an item that is there: an item that is
\* deleted takes the requests filed meanwhile with it.
THEOREM NoOrphanRequests == Spec => []RequestsHaveTheirItem
<1>1. IndInv => RequestsHaveTheirItem
  BY DEF IndInv
<1> QED BY <1>1, Inductive, PTL

\* What was approved, rejected or cancelled never becomes anything else, so an
\* approval and a cancellation that race have one winner.
DecisionsAreFinal ==
    [][\A b \in Request : (Exists(b) /\ requests[b].status # "pending" /\ requests'[b] # Gone)
         => requests'[b].status = requests[b].status]_vars

\* Of an approval, a rejection and a cancellation that race, one is final.
THEOREM OneDecision == Spec => DecisionsAreFinal
<1>1. IndInv /\ [Next]_vars =>
        [\A b \in Request : (Exists(b) /\ requests[b].status # "pending" /\ requests'[b] # Gone)
           => requests'[b].status = requests[b].status]_vars
  BY StatusChanges DEF Decidable
<1> QED BY <1>1, Inductive, PTL DEF Spec, DecisionsAreFinal

\* An approval finds its item available and borrows it in the same step.
THEOREM ApprovalsAreSound == Spec => ApprovalTakesAnAvailableItem
<1>1. IndInv /\ [Next]_vars =>
        [\A b \in Request :
           (Exists(b) /\ requests[b].status = "pending" /\ requests'[b] # Gone
            /\ requests'[b].status = "approved")
           => status[requests[b].item] = "available" /\ status'[requests[b].item] = "borrowed"]_vars
  BY StatusChanges DEF Approvable
<1> QED BY <1>1, Inductive, PTL DEF Spec, ApprovalTakesAnAvailableItem
-----------------------------------------------------------------------------
(***************************************************************************)
(* Borrowing keeps the promise of BorrowContract.                           *)
(***************************************************************************)

\* The variables of BorrowContract, as Contract has them.
Shelf == [i \in Item |-> IF status[i] = "available" THEN "available"
                         ELSE IF status[i] = Gone THEN "gone" ELSE "away"]
Phase == [b \in Request |-> IF Exists(b) THEN requests[b].status
                            ELSE IF requests[b] = Unused THEN "unfiled" ELSE "gone"]
About == [b \in Request |-> IF Exists(b) THEN requests[b].item ELSE Nobody]

\* What they are of an item and of a request.
LEMMA ContractView ==
    ASSUME TypeOK
    PROVE  /\ \A i \in Item : /\ Shelf[i] = "available" <=> status[i] = "available"
                              /\ Shelf[i] = "gone" <=> status[i] = Gone
                              /\ Shelf[i] = "away" <=> status[i] \notin {"available", Gone}
           /\ \A b \in Request : /\ requests[b] = Unused => Phase[b] = "unfiled"
                                 /\ requests[b] = Gone => Phase[b] = "gone"
                                 /\ Exists(b) => /\ Phase[b] = requests[b].status
                                                 /\ About[b] = requests[b].item
                                                 /\ About[b] \in Item
                                 /\ ~Exists(b) => About[b] = Nobody
<1>1. "available" # Gone
  BY TombstoneAssumption DEF ItemStatus
<1>2. \A b \in Request : Exists(b) => requests[b].item \in Item
  BY DEF TypeOK, Exists, Filed
<1> QED BY <1>1, <1>2, TombstoneAssumption DEF Shelf, Phase, About, Exists

\* The contract calls pending what the table does.
LEMMA PendingOfContract ==
    ASSUME TypeOK, NEW i \in Item
    PROVE  {b \in Request : Phase[b] = "pending" /\ About[b] = i} = PendingOn(i)
<1>1. ASSUME NEW b \in Request
      PROVE  Phase[b] = "pending" /\ About[b] = i
               <=> Exists(b) /\ requests[b].item = i /\ requests[b].status = "pending"
  BY ContractView, NobodyAssumption
<1> QED BY <1>1 DEF PendingOn

\* Locks, reads and refusals are no business of the contract.
LEMMA UnseenStutters == UNCHANGED <<status, requests>> => UNCHANGED Contract!vars
  BY DEF Contract!vars, Exists

LEMMA InitRefines == Init => Contract!Init
<1> SUFFICES ASSUME Init PROVE Contract!Init
  OBVIOUS
<1>1. Shelf \in [Item -> {"available", "away"}]
  <2>1. "available" # Gone /\ "borrowed" # Gone
    BY TombstoneAssumption DEF ItemStatus
  <2> QED BY <2>1 DEF Init, Shelf
<1>2. Phase = [b \in Request |-> "unfiled"] /\ About = [b \in Request |-> Nobody]
  BY DEF Init, Phase, About, Exists
<1> QED BY <1>1, <1>2 DEF Contract!Init, Shelf, Phase, About

\* The item was found available under its lock, and no request for it pending.
LEMMA FileRefines ==
    ASSUME IndInv, NEW w \in Worker, FileRequest(w), ~Refuse(w)
    PROVE  \E b \in Request, i \in Item : Contract!File(b, i)
<1> USE DEF IndInv
<1> DEFINE i == txn[w].item
           b == txn[w].request
           row == [item |-> i, status |-> "pending",
                   requester |-> txn[w].guest, link |-> LinkOfGuest(txn[w].guest)]
<1>1. /\ txn[w] # Nobody /\ txn[w].op = "create" /\ txn[w].step = "file"
      /\ PendingOn(i) = {} /\ requests' = [requests EXCEPT ![b] = row] /\ UNCHANGED status
  BY DEF FileRequest, Running
<1>2. /\ i \in Item /\ b \in Request /\ requests[b] = Unused
      /\ status[i] = "available" /\ txn[w].guest \in Guest \cup {Nobody}
  BY <1>1, TxnFields DEF Fits, Requestable
<1>3. row \in Filed
  BY <1>2, LinkAssumption DEF Filed, RequestStatus, LinkOfGuest
<1>4. \A c \in Request : requests'[c] = IF c = b THEN row ELSE requests[c]
  BY <1>1, <1>2 DEF TypeOK
<1>5. row \notin {Unused, Gone}
  BY <1>3, TombstoneAssumption
<1> HIDE DEF row
<1>6. row.status = "pending" /\ row.item = i
  BY DEF row
<1>7. Phase' = [Phase EXCEPT ![b] = "pending"]
  BY <1>2, <1>4, <1>5, <1>6 DEF Phase, Exists
<1>8. About' = [About EXCEPT ![b] = i]
  BY <1>2, <1>4, <1>5, <1>6 DEF About, Exists
<1>9. Shelf' = Shelf /\ Shelf[i] = "available"
  BY <1>1, <1>2, ContractView DEF Shelf
<1>10. Phase[b] = "unfiled"
  BY <1>2, ContractView
<1>11. {c \in Request : Phase[c] = "pending" /\ About[c] = i} = {}
  BY <1>1, <1>2, PendingOfContract
<1> HIDE DEF i, b
<1> QED BY <1>2, <1>7, <1>8, <1>9, <1>10, <1>11
        DEF Contract!File, Contract!PendingAbout, Shelf, Phase, About

\* The status of one request changes, and it was pending.
LEMMA StatusWriteRefines ==
    ASSUME TypeOK, NEW b \in Request, Exists(b), NEW s \in RequestStatus,
           requests' = [requests EXCEPT ![b].status = s]
    PROVE  Phase' = [Phase EXCEPT ![b] = s] /\ UNCHANGED About
<1>1. requests[b] \in Filed /\ [requests[b] EXCEPT !.status = s] \in Filed
  BY DEF TypeOK, Exists, Filed
<1> DEFINE row == [requests[b] EXCEPT !.status = s]
<1>2. row.status = s /\ row.item = requests[b].item /\ row \notin {Unused, Gone}
  BY <1>1, TombstoneAssumption DEF Filed
<1>3. \A c \in Request : requests'[c] = IF c = b THEN row ELSE requests[c]
  BY DEF TypeOK
<1> HIDE DEF row
<1>4. Phase' = [Phase EXCEPT ![b] = s]
  <2>1. ASSUME NEW c \in Request, c # b PROVE Phase'[c] = Phase[c]
    BY <1>3, <2>1 DEF Phase, Exists
  <2>2. Phase'[b] = s
    BY <1>2, <1>3 DEF Phase, Exists
  <2> QED BY <2>1, <2>2 DEF Phase
<1>5. About' = About
  BY <1>2, <1>3 DEF About, Exists
<1> QED BY <1>4, <1>5

\* The lock of the request, and the item it is about.
LEMMA DecisionIsLocked ==
    ASSUME IndInv, NEW w \in Worker, txn[w] # Nobody, txn[w].op \in {"resolve", "cancel"},
           HasRequest(w)
    PROVE  LET b == txn[w].request
           IN  b \in Request /\ Exists(b) /\ requests[b].item = txn[w].item /\ txn[w].item \in Item
  BY NobodyAssumption, TxnFields DEF IndInv, Fits, HasRequest, LocksFit

\* A decision finds its request pending, an approval its item available.
LEMMA ResolveRefines ==
    ASSUME IndInv, NEW w \in Worker, Resolve(w), ~Refuse(w)
    PROVE  (\E b \in Request : Contract!Approve(b)) \/ (\E b \in Request : Contract!TurnDown(b))
<1> USE DEF IndInv
<1> DEFINE i == txn[w].item
           b == txn[w].request
           s == txn[w].to
<1>1. /\ txn[w] # Nobody /\ txn[w].op = "resolve" /\ HasRequest(w)
      /\ requests[b].status = "pending"
      /\ requests' = [requests EXCEPT ![b].status = s]
      /\ s = "approved" => status[i] = "available"
      /\ status' = IF s = "approved" THEN [status EXCEPT ![i] = "borrowed"] ELSE status
  BY DEF Resolve, Running, Decidable, Approvable, Lent
<1>2. b \in Request /\ Exists(b) /\ requests[b].item = i /\ i \in Item
  BY <1>1, DecisionIsLocked
<1>3. s \in {"approved", "rejected"}
  BY <1>1 DEF Fits
<1>4. Phase[b] = "pending" /\ About[b] = i
  BY <1>1, <1>2, ContractView
<1>5. Phase' = [Phase EXCEPT ![b] = s] /\ About' = About
  BY <1>1, <1>2, <1>3, StatusWriteRefines DEF RequestStatus
<1>6. CASE s = "approved"
  <2>1. Shelf[i] = "available"
    BY <1>1, <1>2, <1>6, ContractView
  <2>2. Shelf' = [Shelf EXCEPT ![i] = "away"]
    <3>1. "borrowed" # Gone
      BY TombstoneAssumption DEF ItemStatus
    <3>2. \A k \in Item : status'[k] = IF k = i THEN "borrowed" ELSE status[k]
      BY <1>1, <1>2, <1>6 DEF TypeOK
    <3> HIDE DEF i
    <3> QED BY <1>2, <3>1, <3>2 DEF Shelf
  <2> HIDE DEF i, b, s
  <2> QED BY <1>2, <1>4, <1>5, <1>6, <2>1, <2>2 DEF Contract!Approve, Shelf, Phase, About
<1>7. CASE s = "rejected"
  <2>1. Shelf' = Shelf
    BY <1>1, <1>7 DEF Shelf
  <2> HIDE DEF i, b, s
  <2> QED BY <1>2, <1>4, <1>5, <1>7, <2>1 DEF Contract!TurnDown, Shelf, Phase, About
<1> QED BY <1>3, <1>6, <1>7

LEMMA CancelRefines ==
    ASSUME IndInv, NEW w \in Worker, Cancel(w), ~Refuse(w)
    PROVE  \E b \in Request : Contract!TurnDown(b)
<1> USE DEF IndInv
<1> DEFINE b == txn[w].request
<1>1. /\ txn[w] # Nobody /\ txn[w].op = "cancel" /\ HasRequest(w)
      /\ requests[b].status = "pending"
      /\ requests' = [requests EXCEPT ![b].status = "cancelled"]
      /\ UNCHANGED status
  BY DEF Cancel, Running, Decidable
<1>2. b \in Request /\ Exists(b)
  BY <1>1, DecisionIsLocked
<1>3. Phase[b] = "pending"
  BY <1>1, <1>2, ContractView
<1>4. Phase' = [Phase EXCEPT ![b] = "cancelled"] /\ About' = About
  BY <1>1, <1>2, StatusWriteRefines DEF RequestStatus
<1>5. Shelf' = Shelf
  BY <1>1 DEF Shelf
<1> HIDE DEF b
<1> QED BY <1>2, <1>3, <1>4, <1>5 DEF Contract!TurnDown, Shelf, Phase, About

LEMMA PatchRefines ==
    ASSUME IndInv, NEW w \in Worker, Patch(w), ~Refuse(w)
    PROVE  \E i \in Item : Contract!Move(i)
<1> USE DEF IndInv
<1> DEFINE i == txn[w].item
           s == txn[w].to
           place == IF s = "available" THEN "available" ELSE "away"
<1>1. /\ txn[w] # Nobody /\ txn[w].op = "patch" /\ HasItem(w)
      /\ status' = [status EXCEPT ![i] = s] /\ UNCHANGED requests
  BY DEF Patch, Running
<1>2. i \in Item /\ status[i] # Gone
  BY <1>1, NobodyAssumption, TxnFields DEF HasItem, LocksFit
<1>3. s # Gone
  BY <1>1, TombstoneAssumption DEF Fits
<1>4. \A k \in Item : status'[k] = IF k = i THEN s ELSE status[k]
  BY <1>1, <1>2 DEF TypeOK
<1>5. Shelf[i] # "gone"
  BY <1>2, ContractView
<1>6. Phase' = Phase /\ About' = About
  BY <1>1 DEF Phase, About, Exists
<1> HIDE DEF i, s
<1>7. Shelf' = [Shelf EXCEPT ![i] = place]
  BY <1>2, <1>3, <1>4 DEF Shelf
<1>8. place \in {"available", "away"}
  OBVIOUS
<1> HIDE DEF place
<1> QED BY <1>2, <1>5, <1>6, <1>7, <1>8 DEF Contract!Move, Shelf, Phase, About

LEMMA DeleteRefines ==
    ASSUME IndInv, NEW w \in Worker, Delete(w)
    PROVE  \E i \in Item : Contract!Remove(i)
<1> USE DEF IndInv
<1> DEFINE i == txn[w].item
<1>1. /\ txn[w] # Nobody /\ HasItem(w)
      /\ status' = [status EXCEPT ![i] = Gone]
      /\ requests' = [b \in Request |-> IF b \in RequestsOn(i) THEN Gone ELSE requests[b]]
  BY DEF Delete, Running
<1>2. i \in Item /\ status[i] # Gone
  BY <1>1, NobodyAssumption, TxnFields DEF HasItem, LocksFit
<1>3. \A k \in Item : status'[k] = IF k = i THEN Gone ELSE status[k]
  BY <1>1, <1>2 DEF TypeOK
<1>4. \A b \in Request : b \in RequestsOn(i) <=> About[b] = i
  BY <1>2, ContractView, NobodyAssumption DEF RequestsOn
<1>5. \A b \in Request : requests'[b] = IF About[b] = i THEN Gone ELSE requests[b]
  BY <1>1, <1>4
<1>6. Shelf[i] # "gone"
  BY <1>2, ContractView
<1> HIDE DEF i
<1>7. Shelf' = [Shelf EXCEPT ![i] = "gone"]
  BY <1>2, <1>3, TombstoneAssumption DEF Shelf, ItemStatus
<1>8. Phase' = [b \in Request |-> IF About[b] = i THEN "gone" ELSE Phase[b]]
  BY <1>5, TombstoneAssumption DEF Phase, Exists
<1>9. About' = [b \in Request |-> IF About[b] = i THEN Nobody ELSE About[b]]
  BY <1>5 DEF About, Exists
<1> QED BY <1>2, <1>6, <1>7, <1>8, <1>9 DEF Contract!Remove, Shelf, Phase, About

\* Whose account a request is from is not in the contract either.
LEMMA DeleteGuestRefines ==
    ASSUME IndInv, NEW u \in Guest, DeleteGuest(u)
    PROVE  UNCHANGED Contract!vars
<1> DEFINE left(b) == [requests[b] EXCEPT !.requester = IF @ = u THEN Nobody ELSE @,
                                          !.link = IF @ = LinkOfGuest(u) THEN Nobody ELSE @]
<1>1. \A b \in Request : Exists(b) => /\ left(b) \notin {Unused, Gone}
                                      /\ left(b).item = requests[b].item
                                      /\ left(b).status = requests[b].status
  <2>1. \A b \in Request : Exists(b) => requests[b] \in Filed /\ left(b) \in Filed
    BY DEF IndInv, TypeOK, Exists, Filed
  <2> QED BY <2>1, TombstoneAssumption DEF Filed
<1>2. \A b \in Request : requests'[b] = requests[b] \/ (Exists(b) /\ requests'[b] = left(b))
  BY DEF DeleteGuest
<1> HIDE DEF left
<1>3. Phase' = Phase
  BY <1>1, <1>2 DEF Phase, Exists
<1>4. About' = About
  BY <1>1, <1>2 DEF About, Exists
<1>5. Shelf' = Shelf
  BY DEF DeleteGuest, Shelf
<1> QED BY <1>3, <1>4, <1>5 DEF Contract!vars, Shelf, Phase, About

LEMMA StepRefines == IndInv /\ [Next]_vars => [Contract!Next]_(Contract!vars)
<1> SUFFICES ASSUME IndInv, [Next]_vars PROVE Contract!Next \/ UNCHANGED Contract!vars
  OBVIOUS
<1>1. CASE UNCHANGED <<status, requests>>
  BY <1>1, UnseenStutters
<1>2. CASE \E u \in Guest : DeleteGuest(u)
  BY <1>2, DeleteGuestRefines
<1>3. ASSUME NEW w \in Worker, ~Refuse(w),
             FileRequest(w) \/ Resolve(w) \/ Cancel(w) \/ Patch(w) \/ Delete(w)
      PROVE  Contract!Next
  BY <1>3, FileRefines, ResolveRefines, CancelRefines, PatchRefines, DeleteRefines
     DEF Contract!Next
<1>4. \/ UNCHANGED <<status, requests>>
      \/ \E u \in Guest : DeleteGuest(u)
      \/ \E w \in Worker : /\ ~Refuse(w)
                           /\ FileRequest(w) \/ Resolve(w) \/ Cancel(w) \/ Patch(w) \/ Delete(w)
  <2>1. ASSUME NEW w \in Worker, Begin(w) PROVE UNCHANGED <<status, requests>>
    BY <2>1 DEF Begin, BeginCreate, BeginResolve, BeginCancel, BeginPatch, BeginDelete, Start, tables
  <2>2. ASSUME NEW w \in Worker, Refuse(w) PROVE UNCHANGED <<status, requests>>
    BY <2>2 DEF Refuse, tables
  <2>3. ASSUME NEW w \in Worker, LockItem(w) \/ LockRequest(w) \/ CheckPending(w) \/ LockCascade(w)
        PROVE  UNCHANGED <<status, requests>>
    BY <2>2, <2>3 DEF LockItem, LockRequest, CheckPending, LockCascade, GoTo, tables
  <2>4. ASSUME NEW w \in Worker, AbortDeadlocked(w) PROVE UNCHANGED <<status, requests>>
    BY <2>2, <2>4 DEF AbortDeadlocked
  <2> QED BY <2>1, <2>2, <2>3, <2>4 DEF Next, vars, Continue
<1> QED BY <1>1, <1>2, <1>3, <1>4

\* create, resolve and cancel_borrow_request keep the promise of BorrowContract,
\* beside patches and deletes of the items and deletes of the accounts.
THEOREM TransactionsKeepTheContract == Spec => ImplementsContract
<1> QED BY InitIndInv, NextKeepsIndInv, InitRefines, StepRefines, PTL
        DEF Spec, ImplementsContract, Contract!Spec
=============================================================================
