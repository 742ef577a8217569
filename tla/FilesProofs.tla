---------------------------- MODULE FilesProofs ----------------------------
(***************************************************************************)
(* Theorems about Files, for any number of connections, uploads, items and *)
(* faults.                                                                 *)
(*                                                                         *)
(* A file is removed by a request that no longer holds a lock, long after  *)
(* the row that named it is gone, and a row is written by a request whose  *)
(* blob another one may be removing.  The invariant says for every step of *)
(* a request what it may rely on (Holding): what it locked is as it was    *)
(* when it was read, because locks exclude each other (Exclusive), and a   *)
(* file that is being stored or removed is in no other hand (OneHand).     *)
(***************************************************************************)
EXTENDS Files, FiniteSetTheorems, SequenceTheorems, TLAPS

Typed ==
    /\ TypeOK
    /\ txn \in [Worker -> Txn \union {Idle}]

Attaching == {"assign", "create"}
Moving == {"insert", "remove"} \* steps that store or remove a blob

(* Which lists are not empty, and which steps an operation has. *)
Shaped(t) ==
    /\ t.op \in {"upload", "delete_upload", "patch", "delete_attachment", "remove"} => t.todo # <<>>
    /\ t.step \in {"consume", "attach"} => t.todo # <<>> /\ t.op \in Attaching
    /\ t.step = "insert" => t.op = "upload" /\ Len(t.todo) = 1
    /\ t.step = "remove" <=> t.op = "remove"
    /\ t.op = "create" => t.on = {Asset} /\ (t.step = "lock" => t.todo # <<>>)
    /\ t.op = "merge" => t.into \notin t.on

(* What an assignment relies on: uploads it has locked are open still, and    *)
(* from the first row on its owner is there to stay.                          *)
Assigning(t) ==
    t.op \in Attaching =>
        /\ \A u \in t.made : UploadLock(u) \in t.locks /\ upload[u] = "open"
        /\ t.step = "attach" => UploadLock(Head(t.todo)) \in t.locks /\ upload[Head(t.todo)] = "open"
        /\ t.step = "write" => t.made # {}
        /\ t.made # {} => OwnerLock(t.into) \in t.shares
        /\ t.op = "assign" /\ t.made # {} => t.into \in owners
        /\ t.op = "create" => t.into \notin owners

(* What the last statement of the other requests relies on. *)
Writing(t) ==
    t.step = "write" =>
        /\ t.op = "delete_upload" =>
              UploadLock(Head(t.todo)) \in t.locks /\ Deletable(Head(t.todo))
        /\ t.op \in {"patch", "delete_attachment"} =>
              /\ AttachmentLock(Head(t.todo)) \in t.locks
              /\ t.read = attachment[Head(t.todo)] /\ t.read \in Attached
        /\ t.op \in {"delete_owner", "merge"} => \A o \in t.on : OwnerLock(o) \in t.locks
        /\ t.op = "merge" => OwnerLock(t.into) \in t.locks

(* Locks are on uploads and owners that are there; shares, on the owner to be. *)
Locking(t) ==
    /\ \A u \in Upload : UploadLock(u) \in t.locks => upload[u] # "none"
    /\ \A o \in Owner : OwnerLock(o) \in t.locks => o \in owners
    /\ \A r \in t.shares : t.op \in Attaching /\ r = OwnerLock(t.into) /\ t.made # {}

(* What is being stored has no row yet, what is being removed none any more. *)
Handling(t) ==
    /\ t.step = "insert" => upload[Head(t.todo)] = "none" /\ Head(t.todo) \in blobs
    /\ t.step = "remove" => \A i \in DOMAIN t.todo :
          \/ t.todo[i] \in spoiled
          \/ upload[t.todo[i]] \notin {"open", "expired"} /\ attachment[t.todo[i]] \notin Attached

Holding(t) == Shaped(t) /\ Assigning(t) /\ Writing(t) /\ Locking(t) /\ Handling(t)

Exclusive ==
    \A v, w \in Worker : v # w => Locks(v) \intersect (Locks(w) \union Shares(w)) = {}
OneHand ==
    \A v, w \in Worker :
        v # w /\ txn[v] # Idle /\ txn[w] # Idle /\ txn[v].step = "insert" /\ txn[w].step \in Moving
            => Head(txn[v].todo) \notin Left(w)
OneCreate ==
    \A v, w \in Worker :
        v # w /\ txn[v] # Idle /\ txn[w] # Idle /\ txn[v].op = "create" /\ txn[w].op = "create"
            => txn[v].into # txn[w].into

(* An upload is consumed once and for all. *)
AttachedAreConsumed == \A u \in Upload : attachment[u] # Unmade => upload[u] = "consumed"

RequestsHold == \A w \in Worker, t \in Txn : txn[w] = t => Holding(t)
Apart == Exclusive /\ OneHand /\ OneCreate
FilesInv == RowsHaveTheirFile /\ OrphansComeFromFaults /\ AttachedAreConsumed

IndInv == Typed /\ RequestsHold /\ Apart /\ FilesInv
-----------------------------------------------------------------------------
(* Records, lists and locks *)

LEMMA IdleIsNoTxn == Idle \notin Txn /\ \A t \in Txn : t # Idle
<1>1. \A t \in Txn : t.op # "idle"
  BY DEF Txn, Ops
<1> QED BY <1>1 DEF Idle

LEMMA NotAttached == Unmade \notin Attached /\ Gone \notin Attached /\ Unmade # Gone
  BY DEF Unmade, Gone, Attached

LEMMA AttachedRows ==
    ASSUME NEW a \in Attached
    PROVE  a.owner \in Owner /\ a.name \in {"file", "patched"} /\ a.public \in BOOLEAN
  BY DEF Attached

LEMMA LockKinds ==
    /\ \A u, v : UploadLock(u) = UploadLock(v) => u = v
    /\ \A u, v : AttachmentLock(u) = AttachmentLock(v) => u = v
    /\ \A o, p : OwnerLock(o) = OwnerLock(p) => o = p
    /\ \A u, o : UploadLock(u) # OwnerLock(o) /\ AttachmentLock(u) # OwnerLock(o)
    /\ \A u, v : UploadLock(u) # AttachmentLock(v)
    /\ \A u \in Upload : UploadLock(u) \in Lock /\ AttachmentLock(u) \in Lock
    /\ \A o \in Owner : OwnerLock(o) \in Lock
  BY DEF UploadLock, AttachmentLock, OwnerLock, Lock

LEMMA FirstOfMany ==
    ASSUME NEW s \in Seq(Upload), s # <<>>
    PROVE  /\ Head(s) \in Upload /\ Tail(s) \in Seq(Upload)
           /\ 1 \in DOMAIN s /\ Head(s) = s[1]
           /\ {s[i] : i \in DOMAIN s} = {Head(s)} \union {Tail(s)[i] : i \in DOMAIN Tail(s)}
<1>1. Len(s) \in Nat \ {0} /\ DOMAIN s = 1 .. Len(s)
  BY EmptySeq, LenProperties
<1>2. /\ Head(s) \in Upload /\ Tail(s) \in Seq(Upload) /\ Len(Tail(s)) = Len(s) - 1
      /\ \A i \in 1 .. Len(Tail(s)) : Tail(s)[i] = s[i + 1]
  BY HeadTailProperties
<1>3. DOMAIN Tail(s) = 1 .. (Len(s) - 1)
  BY <1>2, LenProperties
<1>4. Head(s) = s[1]
  OBVIOUS
<1>5. ASSUME NEW i \in DOMAIN s PROVE s[i] \in {Head(s)} \union {Tail(s)[j] : j \in DOMAIN Tail(s)}
  <2>1. CASE i = 1
    BY <2>1, <1>4
  <2>2. CASE i # 1
    <3>1. i - 1 \in DOMAIN Tail(s) /\ Tail(s)[i - 1] = s[i]
      BY <2>2, <1>1, <1>2, <1>3
    <3> QED BY <3>1
  <2> QED BY <2>1, <2>2
<1>6. ASSUME NEW j \in DOMAIN Tail(s) PROVE Tail(s)[j] \in {s[i] : i \in DOMAIN s}
  <2>1. j + 1 \in DOMAIN s /\ Tail(s)[j] = s[j + 1]
    BY <1>1, <1>2, <1>3
  <2> QED BY <2>1
<1>7. Head(s) \in {s[i] : i \in DOMAIN s}
  BY <1>1, <1>4
<1> QED BY <1>1, <1>2, <1>4, <1>5, <1>6, <1>7

LEMMA OneElement ==
    ASSUME NEW u \in Upload
    PROVE  /\ <<u>> \in Seq(Upload) /\ <<u>> # <<>> /\ Head(<<u>>) = u /\ Len(<<u>>) = 1
           /\ {<<u>>[i] : i \in DOMAIN <<u>>} = {u}
  OBVIOUS

LEMMA BaseIsTxn ==
    ASSUME NEW op \in Ops, NEW step \in Steps
    PROVE  /\ Base(op, step) \in Txn /\ Base(op, step) # Idle
           /\ Base(op, step).op = op /\ Base(op, step).step = step /\ Base(op, step).todo = <<>>
           /\ Base(op, step).made = {} /\ Base(op, step).on = {} /\ Base(op, step).into = Asset
           /\ Base(op, step).locks = {} /\ Base(op, step).shares = {}
<1>1. <<>> \in Seq(Upload) /\ Asset \in Owner
  BY DEF Owner
<1>2. Base(op, step) \in Txn
  BY <1>1 DEF Base, Txn
<1> QED BY <1>2, IdleIsNoTxn DEF Base

(* What is known of a request that is being served. *)
LEMMA Serving ==
    ASSUME IndInv, NEW w \in Worker, txn[w] # Idle
    PROVE  /\ txn[w] \in Txn /\ Holding(txn[w])
           /\ Locks(w) = txn[w].locks /\ Shares(w) = txn[w].shares
           /\ txn[w].todo \in Seq(Upload) /\ txn[w].made \subseteq Upload
           /\ txn[w].on \subseteq Owner /\ txn[w].into \in Owner
           /\ txn[w].locks \subseteq Lock /\ txn[w].shares \subseteq Lock
  BY DEF IndInv, Typed, RequestsHold, Locks, Shares, Txn

LEMMA HeadInHand ==
    ASSUME IndInv, NEW w \in Worker, txn[w] # Idle, txn[w].todo # <<>>
    PROVE  /\ Head(txn[w].todo) \in Upload /\ Tail(txn[w].todo) \in Seq(Upload)
           /\ 1 \in DOMAIN txn[w].todo /\ Head(txn[w].todo) = txn[w].todo[1]
           /\ Head(txn[w].todo) \in Left(w)
  BY Serving, FirstOfMany DEF Left

(* The rows that a statement locks, as it finds them. *)
LEMMA WantedIsTyped ==
    ASSUME IndInv, NEW w \in Worker, txn[w] # Idle
    PROVE  Wanted(w) \subseteq Lock
<1> DEFINE t == txn[w]
<1>1. t.todo # <<>> => Head(t.todo) \in Upload
  BY HeadInHand
<1>2. /\ t.step = "consume" \/ t.op \in {"delete_upload", "patch", "delete_attachment"} => t.todo # <<>>
      /\ t.on \subseteq Owner /\ t.into \in Owner /\ owners \subseteq Owner
  BY Serving DEF Holding, Shaped, IndInv, Typed, TypeOK
<1>3. AttachedTo(t.on) \subseteq Upload
  BY DEF AttachedTo
<1> HIDE DEF t
<1> QED BY <1>1, <1>2, <1>3, LockKinds DEF Wanted, t

(* A statement that nothing blocks gets its locks, and nobody else has them.  *)
LEMMA Granted ==
    ASSUME IndInv, NEW w \in Worker, txn[w] # Idle, Blockers(w) = {},
           ~(txn[w].step = "attach" /\ txn[w].op = "assign"),
           NEW v \in Worker \ {w}, NEW r \in Wanted(w)
    PROVE  r \notin Locks(v) \union Shares(v)
  BY DEF Blockers, Holders

-----------------------------------------------------------------------------
(* Steps that leave the rows, the blobs and the faults as they are *)

Still == UNCHANGED <<blobs, upload, attachment, owners, faults, spoiled>>

(* What a request relies on does not change with the rows it has locked. *)
LEMMA HoldingStays ==
    ASSUME NEW t \in Txn, Holding(t),
           \A u \in Upload : UploadLock(u) \in t.locks => upload'[u] = upload[u],
           t.step = "write" /\ t.op \in {"patch", "delete_attachment"} =>
               attachment'[Head(t.todo)] = attachment[Head(t.todo)],
           \A o \in Owner : OwnerLock(o) \in t.locks \union t.shares /\ o \in owners => o \in owners',
           t.op = "create" => t.into \notin owners',
           t.step = "insert" => upload'[Head(t.todo)] = "none" /\ Head(t.todo) \in blobs',
           t.step = "remove" => \A i \in DOMAIN t.todo :
               \/ t.todo[i] \in spoiled'
               \/ upload'[t.todo[i]] \notin {"open", "expired"} /\ attachment'[t.todo[i]] \notin Attached
    PROVE  Holding(t)'
<1>1. t.todo # <<>> => Head(t.todo) \in Upload
  BY FirstOfMany DEF Txn
<1>2. t.made \subseteq Upload /\ t.into \in Owner /\ t.on \subseteq Owner
  BY DEF Txn
<1>3. Shaped(t) /\ Assigning(t) /\ Writing(t) /\ Locking(t)
  BY DEF Holding
<1>4. Shaped(t)'
  BY <1>3 DEF Shaped
<1>5. Assigning(t)'
  BY <1>1, <1>2, <1>3 DEF Assigning, Attaching, Shaped
<1>6. Writing(t)'
  BY <1>1, <1>3 DEF Writing, Deletable, Shaped
<1>7. Locking(t)'
  BY <1>3 DEF Locking
<1>8. Handling(t)'
  BY DEF Handling
<1> QED BY <1>4, <1>5, <1>6, <1>7, <1>8 DEF Holding

LEMMA HoldingIsStill ==
    ASSUME NEW t, Still
    PROVE  Holding(t)' <=> Holding(t)
  BY DEF Still, Holding, Shaped, Assigning, Writing, Locking, Handling, Deletable

LEMMA FilesAreStill ==
    ASSUME IndInv, Still, \A u \in Upload : Underway(u) => Underway(u)'
    PROVE  FilesInv'
<1>1. RowsHaveTheirFile'
  BY DEF IndInv, Still, FilesInv, RowsHaveTheirFile
<1>2. OrphansComeFromFaults'
  <2>1. ASSUME NEW u \in Upload, u \in blobs' \ spoiled'
        PROVE  upload'[u] \in {"open", "expired"} \/ attachment'[u] \in Attached \/ Underway(u)'
    <3>1. upload[u] \in {"open", "expired"} \/ attachment[u] \in Attached \/ Underway(u)
      BY <2>1 DEF IndInv, Still, FilesInv, OrphansComeFromFaults
    <3> QED BY <3>1 DEF Still
  <2>2. blobs' \subseteq Upload
    BY DEF IndInv, Typed, TypeOK, Still
  <2> QED BY <2>1, <2>2 DEF OrphansComeFromFaults
<1>3. AttachedAreConsumed'
  BY DEF IndInv, Still, FilesInv, AttachedAreConsumed
<1> QED BY <1>1, <1>2, <1>3 DEF FilesInv

(* A request begins, goes on or ends, without a blob in its hands. *)
LEMMA Replaced ==
    ASSUME IndInv, Still, requests' \in 0 .. MaxRequests,
           NEW w \in Worker, NEW t \in Txn \union {Idle},
           txn' = [txn EXCEPT ![w] = t],
           txn[w] # Idle => txn[w].step \notin Moving,
           t # Idle =>
               /\ Holding(t) /\ t.step \notin Moving
               /\ t.op = "create" => \/ txn[w] # Idle /\ txn[w].op = "create" /\ txn[w].into = t.into
                                     \/ \A v \in Worker : txn[v] # Idle /\ txn[v].op = "create" => txn[v].into # t.into
               /\ \A v \in Worker \ {w} : /\ t.locks \intersect (Locks(v) \union Shares(v)) = {}
                                          /\ t.shares \intersect Locks(v) = {}
    PROVE  IndInv'
<1>1. txn \in [Worker -> Txn \union {Idle}]
  BY DEF IndInv, Typed
<1>2. txn'[w] = t /\ \A v \in Worker \ {w} : txn'[v] = txn[v]
  BY <1>1
<1>3. Typed'
  BY <1>1, <1>2 DEF IndInv, Typed, TypeOK, Still
<1>4. RequestsHold'
  <2>1. ASSUME NEW v \in Worker, NEW r \in Txn, txn'[v] = r PROVE Holding(r)'
    <3>1. Holding(r)
      BY <2>1, <1>2, IdleIsNoTxn DEF IndInv, RequestsHold
    <3> QED BY <3>1, HoldingIsStill
  <2> QED BY <2>1 DEF RequestsHold
<1>5. /\ \A v \in Worker \ {w} : Locks(v)' = Locks(v) /\ Shares(v)' = Shares(v)
      /\ t # Idle => Locks(w)' = t.locks /\ Shares(w)' = t.shares
      /\ t = Idle => Locks(w)' = {} /\ Shares(w)' = {}
  BY <1>2 DEF Locks, Shares
<1>6. Exclusive'
  <2>1. ASSUME NEW v \in Worker, NEW x \in Worker, v # x
        PROVE  Locks(v)' \intersect (Locks(x)' \union Shares(x)') = {}
    <3>1. CASE v # w /\ x # w
      BY <3>1, <2>1, <1>5 DEF IndInv, Apart, Exclusive
    <3>2. CASE t = Idle
      BY <3>2, <2>1, <1>5 DEF IndInv, Apart, Exclusive
    <3>3. CASE t # Idle /\ v = w
      BY <3>3, <2>1, <1>5
    <3>4. CASE t # Idle /\ x = w
      BY <3>4, <2>1, <1>5
    <3> QED BY <3>1, <3>2, <3>3, <3>4
  <2> QED BY <2>1 DEF Exclusive
<1>7. OneHand'
  BY <1>2 DEF IndInv, Apart, OneHand, Left, Moving
<1>8. OneCreate'
  BY <1>2 DEF IndInv, Apart, OneCreate
<1>9. ASSUME NEW u \in Upload, Underway(u) PROVE Underway(u)'
  <2>1. PICK v \in Worker : txn[v] # Idle /\ txn[v].step \in Moving /\ u \in Left(v)
    BY <1>9 DEF Underway, Moving
  <2>2. txn'[v] = txn[v]
    BY <2>1, <1>2
  <2> QED BY <2>1, <2>2 DEF Underway, Left, Moving
<1> QED BY <1>3, <1>4, <1>6, <1>7, <1>8, <1>9, FilesAreStill DEF IndInv, Apart

(* An error answer. *)
LEMMA RefuseKeeps ==
    ASSUME IndInv, NEW w \in Worker, txn[w] # Idle, txn[w].step \notin Moving, Refuse(w)
    PROVE  IndInv'
<1>1. Still /\ txn' = [txn EXCEPT ![w] = Idle] /\ requests' = requests
  BY DEF Refuse, End, GoOn, Still
<1> QED BY <1>1, Replaced DEF IndInv, Typed, TypeOK

(* A request as it begins: without locks, and mostly without anything else.   *)
LEMMA BeginKeeps ==
    ASSUME IndInv, Still, NEW w \in Worker, NEW t \in Txn, Begin(w, t), Shaped(t),
           t.step \in {"lock", "consume"}, t.made = {}, t.locks = {}, t.shares = {},
           t.op = "create" =>
               t.into \notin owners /\ \A v \in Worker : txn[v] # Idle /\ txn[v].op = "create" => txn[v].into # t.into
    PROVE  IndInv'
<1>1. Holding(t)
  BY DEF Holding, Assigning, Writing, Locking, Handling
<1>2. txn[w] = Idle /\ txn' = [txn EXCEPT ![w] = t] /\ requests' = requests + 1 /\ requests < MaxRequests
  BY DEF Begin
<1>3. requests' \in 0 .. MaxRequests
  BY <1>2, BoundsAssumption DEF IndInv, Typed, TypeOK
<1> QED BY <1>1, <1>2, <1>3, Replaced DEF Moving

-----------------------------------------------------------------------------
(* Steps that write rows, blobs or faults *)

(* What such a step must leave to the other requests. *)
Kept(v) ==
    LET t == txn[v]
    IN /\ \A u \in Upload : UploadLock(u) \in t.locks => upload'[u] = upload[u]
       /\ t.step = "write" /\ t.op \in {"patch", "delete_attachment"} =>
              attachment'[Head(t.todo)] = attachment[Head(t.todo)]
       /\ \A o \in Owner : OwnerLock(o) \in t.locks \union t.shares /\ o \in owners => o \in owners'
       /\ t.op = "create" => t.into \notin owners'
       /\ t.step = "insert" => upload'[Head(t.todo)] = "none" /\ Head(t.todo) \in blobs'
       /\ t.step = "remove" => \A i \in DOMAIN t.todo :
              \/ t.todo[i] \in spoiled'
              \/ upload'[t.todo[i]] \notin {"open", "expired"} /\ attachment'[t.todo[i]] \notin Attached

LEMMA KeptHolds ==
    ASSUME IndInv, NEW v \in Worker, txn[v] # Idle, Kept(v), NEW t \in Txn, t = txn[v]
    PROVE  Holding(t)'
<1>1. Holding(t)
  BY DEF IndInv, RequestsHold
<1> QED BY <1>1, HoldingStays DEF Kept

(* w has written; all it holds now, if anything, are files to store or remove. *)
LEMMA WriteKeeps ==
    ASSUME IndInv, Typed', NEW w \in Worker, NEW t \in Txn \union {Idle},
           txn' = [txn EXCEPT ![w] = t],
           \A v \in Worker \ {w} : txn[v] # Idle => Kept(v),
           t # Idle =>
               /\ Holding(t)' /\ t.op # "create" /\ t.locks = {} /\ t.shares = {}
               /\ \A v \in Worker \ {w} : txn[v] # Idle =>
                     /\ t.step \in Moving /\ txn[v].step = "insert" =>
                           Head(txn[v].todo) \notin {t.todo[i] : i \in DOMAIN t.todo}
                     /\ t.step = "insert" /\ txn[v].step \in Moving => Head(t.todo) \notin Left(v)
    PROVE  RequestsHold' /\ Apart'
<1>1. txn \in [Worker -> Txn \union {Idle}]
  BY DEF IndInv, Typed
<1>2. txn'[w] = t /\ \A v \in Worker \ {w} : txn'[v] = txn[v]
  BY <1>1
<1>3. RequestsHold'
  <2>1. ASSUME NEW v \in Worker, NEW r \in Txn, txn'[v] = r PROVE Holding(r)'
    <3>1. CASE v = w
      BY <3>1, <2>1, <1>2, IdleIsNoTxn
    <3>2. CASE v # w
      <4>1. r = txn[v] /\ txn[v] # Idle
        BY <3>2, <2>1, <1>2, IdleIsNoTxn
      <4> QED BY <4>1, <3>2, KeptHolds
    <3> QED BY <3>1, <3>2
  <2> QED BY <2>1 DEF RequestsHold
<1>4. /\ \A v \in Worker \ {w} : Locks(v)' = Locks(v) /\ Shares(v)' = Shares(v)
      /\ Locks(w)' = {} /\ Shares(w)' = {}
  BY <1>2 DEF Locks, Shares
<1>5. Exclusive'
  BY <1>4 DEF IndInv, Apart, Exclusive
<1>6. OneHand'
  <2>1. ASSUME NEW v \in Worker, NEW x \in Worker, v # x, txn'[v] # Idle, txn'[x] # Idle,
               txn'[v].step = "insert", txn'[x].step \in Moving
        PROVE  Head(txn'[v].todo) \notin {txn'[x].todo[i] : i \in DOMAIN txn'[x].todo}
    <3>1. CASE v # w /\ x # w
      BY <3>1, <2>1, <1>2 DEF IndInv, Apart, OneHand, Left
    <3>2. CASE v = w
      BY <3>2, <2>1, <1>2 DEF Left
    <3>3. CASE x = w
      BY <3>3, <2>1, <1>2
    <3> QED BY <3>1, <3>2, <3>3
  <2> QED BY <2>1 DEF OneHand, Left, Moving
<1>7. OneCreate'
  BY <1>2 DEF IndInv, Apart, OneCreate
<1> QED BY <1>3, <1>5, <1>6, <1>7 DEF Apart

(* The list of the files to remove. *)
LEMMA RemovingIsTxn ==
    ASSUME NEW us \in Seq(Upload), us # <<>>
    PROVE  /\ Removing(us) \in Txn /\ Removing(us) # Idle
           /\ Removing(us).op = "remove" /\ Removing(us).step = "remove" /\ Removing(us).todo = us
           /\ Removing(us).locks = {} /\ Removing(us).shares = {} /\ Removing(us).made = {}
           /\ Shaped(Removing(us))
<1>1. Base("remove", "remove") \in Txn /\ Removing(us) = [Base("remove", "remove") EXCEPT !.todo = us]
  BY BaseIsTxn DEF Removing, Ops, Steps
<1>2. Removing(us) \in Txn
  BY <1>1 DEF Txn
<1>3. /\ Removing(us).op = "remove" /\ Removing(us).step = "remove" /\ Removing(us).todo = us
      /\ Removing(us).locks = {} /\ Removing(us).shares = {} /\ Removing(us).made = {}
  BY DEF Removing, Base
<1> QED BY <1>2, <1>3, IdleIsNoTxn DEF Shaped, Attaching

LEMMA Removal ==
    ASSUME IndInv, NEW w \in Worker, NEW us, us \subseteq Upload, CommitRemoving(w, us)
    PROVE  \E t \in Txn \union {Idle} :
              /\ txn' = [txn EXCEPT ![w] = t] /\ requests' = requests
              /\ us # {} => t # Idle
              /\ t # Idle => /\ Shaped(t) /\ t.op = "remove" /\ t.step = "remove"
                             /\ t.locks = {} /\ t.shares = {} /\ t.made = {}
                             /\ {t.todo[i] : i \in DOMAIN t.todo} = us
<1>1. CASE us = {}
  BY <1>1 DEF CommitRemoving, End, GoOn
<1>2. CASE us # {}
  <2>1. PICK order \in [1 .. Cardinality(us) -> us] :
            /\ \A u \in us : \E i \in DOMAIN order : order[i] = u
            /\ GoOn(w, Removing(order))
    BY <1>2 DEF CommitRemoving
  <2>2. Cardinality(us) \in Nat
    BY UploadAssumption, FS_Subset, FS_CardinalityType
  <2>3. order \in Seq(Upload)
    BY <2>1, <2>2
  <2>4. {order[i] : i \in DOMAIN order} = us
    BY <2>1
  <2>5. order # <<>>
    <3>1. DOMAIN order # {}
      BY <2>1, <1>2
    <3>2. DOMAIN <<>> = {}
      OBVIOUS
    <3> QED BY <3>1, <3>2
  <2>6. txn' = [txn EXCEPT ![w] = Removing(order)] /\ requests' = requests
    BY <2>1 DEF GoOn
  <2>7. Removing(order).todo = order /\ Removing(order) \in Txn /\ Removing(order) # Idle
    BY <2>3, <2>5, RemovingIsTxn
  <2>8. {Removing(order).todo[i] : i \in DOMAIN Removing(order).todo} = us
    BY <2>4, <2>7
  <2> DEFINE t == Removing(order)
  <2>9. Shaped(t) /\ t.op = "remove" /\ t.step = "remove" /\ t.locks = {} /\ t.shares = {} /\ t.made = {}
    BY <2>3, <2>5, RemovingIsTxn
  <2>10. t \in Txn /\ t # Idle /\ {t.todo[i] : i \in DOMAIN t.todo} = us /\ txn' = [txn EXCEPT ![w] = t]
    BY <2>6, <2>7, <2>8
  <2> HIDE DEF t
  <2>11. t \in Txn \union {Idle}
    BY <2>10
  <2> WITNESS t \in Txn \union {Idle}
  <2> QED BY <2>6, <2>9, <2>10
<1> QED BY <1>1, <1>2

-----------------------------------------------------------------------------
(* Locks and checks, one lemma per statement *)

LEMMA LocksTaken ==
    ASSUME IndInv, NEW w \in Worker, txn[w] # Idle, Blockers(w) = {},
           ~(txn[w].step = "attach" /\ txn[w].op = "assign")
    PROVE  /\ Locked(w) \in Txn
           /\ Locked(w) = [txn[w] EXCEPT !.locks = txn[w].locks \union Wanted(w)]
           /\ \A v \in Worker \ {w} :
                 /\ (txn[w].locks \union Wanted(w)) \intersect (Locks(v) \union Shares(v)) = {}
                 /\ txn[w].shares \intersect Locks(v) = {}
<1>1. Wanted(w) \subseteq Lock /\ txn[w] \in Txn
  BY Serving, WantedIsTyped
<1>2. Locked(w) = [txn[w] EXCEPT !.locks = txn[w].locks \union Wanted(w)]
  BY DEF Locked
<1>3. Locked(w) \in Txn
  BY <1>1, <1>2 DEF Txn
<1>4. ASSUME NEW v \in Worker \ {w}
      PROVE  /\ (txn[w].locks \union Wanted(w)) \intersect (Locks(v) \union Shares(v)) = {}
             /\ txn[w].shares \intersect Locks(v) = {}
  <2>1. Locks(w) \intersect (Locks(v) \union Shares(v)) = {} /\ Locks(v) \intersect (Locks(w) \union Shares(w)) = {}
    BY DEF IndInv, Apart, Exclusive
  <2>2. Wanted(w) \intersect (Locks(v) \union Shares(v)) = {}
    BY Granted
  <2> QED BY <2>1, <2>2, Serving
<1> QED BY <1>2, <1>3, <1>4

LEMMA LockUploadKeeps ==
    ASSUME IndInv, NEW w \in Worker, LockUpload(w)
    PROVE  IndInv'
<1> DEFINE t == txn[w]
           u == Head(t.todo)
           next == [Locked(w) EXCEPT !.step = "write"]
<1>1. t # Idle /\ t.op = "delete_upload" /\ t.step = "lock" /\ Blockers(w) = {}
  BY DEF LockUpload, InOp, At
<1>2. t \in Txn /\ Shaped(t) /\ Locking(t) /\ t.todo # <<>> /\ Wanted(w) = {UploadLock(u)}
  BY <1>1, Serving DEF Holding, Shaped, Wanted
<1>3. u \in Upload
  BY <1>1, <1>2, HeadInHand
<1>4. CASE ~Deletable(u)
  <2>1. Refuse(w)
    BY <1>4 DEF LockUpload
  <2> QED BY <2>1, <1>1, RefuseKeeps DEF Moving
<1>5. CASE Deletable(u)
  <2>1. Still /\ txn' = [txn EXCEPT ![w] = next] /\ requests' = requests
    BY <1>5 DEF LockUpload, GoOn, Unharmed, Still
  <2>2. /\ next \in Txn /\ next.op = "delete_upload" /\ next.step = "write" /\ next.todo = t.todo
        /\ next.locks = t.locks \union {UploadLock(u)} /\ next.shares = t.shares /\ next.on = t.on
        /\ next.into = t.into /\ next.made = t.made
    BY <1>1, <1>2, LocksTaken DEF Txn, Steps
  <2> HIDE DEF next
  <2>3. Shaped(next) /\ Assigning(next) /\ Writing(next) /\ Handling(next)
    BY <1>2, <2>2, <1>5 DEF Shaped, Assigning, Writing, Handling, Attaching
  <2>4. Locking(next)
    BY <1>1, <1>2, <1>3, <2>2, <1>5, LockKinds DEF Locking, Deletable
  <2>5. \A v \in Worker \ {w} : /\ next.locks \intersect (Locks(v) \union Shares(v)) = {}
                                /\ next.shares \intersect Locks(v) = {}
    BY <1>1, <1>2, <2>2, LocksTaken
  <2> QED BY <2>1, <2>2, <2>3, <2>4, <2>5, <1>1, Replaced, IdleIsNoTxn DEF Holding, Moving, IndInv, Typed, TypeOK
<1> QED BY <1>4, <1>5

LEMMA ConsumeUploadKeeps ==
    ASSUME IndInv, NEW w \in Worker, ConsumeUpload(w)
    PROVE  IndInv'
<1> DEFINE t == txn[w]
           u == Head(t.todo)
           next == [Locked(w) EXCEPT !.step = "attach"]
<1>1. t # Idle /\ t.op \in Attaching /\ t.step = "consume" /\ Blockers(w) = {}
  BY DEF ConsumeUpload, InOp, At, Attaching
<1>2. t \in Txn /\ Holding(t) /\ t.todo # <<>> /\ Wanted(w) = {UploadLock(u)}
  BY <1>1, Serving DEF Holding, Shaped, Wanted
<1>3. u \in Upload
  BY <1>1, <1>2, HeadInHand
<1>4. CASE ~Consumable(u)
  <2>1. Refuse(w)
    BY <1>4 DEF ConsumeUpload
  <2> QED BY <2>1, <1>1, RefuseKeeps DEF Moving
<1>5. CASE Consumable(u)
  <2>1. Still /\ txn' = [txn EXCEPT ![w] = next] /\ requests' = requests
    BY <1>5 DEF ConsumeUpload, GoOn, Unharmed, Still
  <2>2. /\ next \in Txn /\ next.op = t.op /\ next.step = "attach" /\ next.todo = t.todo
        /\ next.locks = t.locks \union {UploadLock(u)} /\ next.shares = t.shares /\ next.on = t.on
        /\ next.into = t.into /\ next.made = t.made
    BY <1>1, <1>2, LocksTaken DEF Txn, Steps
  <2> HIDE DEF next
  <2>3. Shaped(next) /\ Writing(next) /\ Handling(next)
    BY <1>1, <1>2, <2>2, <1>5 DEF Holding, Shaped, Writing, Handling, Attaching
  <2>4. Assigning(next)
    BY <1>1, <1>2, <2>2, <1>5 DEF Holding, Assigning, Consumable
  <2>5. Locking(next)
    BY <1>1, <1>2, <1>3, <2>2, <1>5, LockKinds DEF Holding, Locking, Consumable
  <2>6. \A v \in Worker \ {w} : /\ next.locks \intersect (Locks(v) \union Shares(v)) = {}
                                /\ next.shares \intersect Locks(v) = {}
    BY <1>1, <1>2, <2>2, LocksTaken
  <2> QED BY <2>1, <2>2, <2>3, <2>4, <2>5, <2>6, <1>1, Replaced, IdleIsNoTxn
          DEF Holding, Moving, IndInv, Typed, TypeOK
<1> QED BY <1>4, <1>5

LEMMA LockAttachmentKeeps ==
    ASSUME IndInv, NEW w \in Worker, LockAttachment(w)
    PROVE  IndInv'
<1> DEFINE t == txn[w]
           u == Head(t.todo)
           next == [Locked(w) EXCEPT !.step = "write", !.read = attachment[u]]
<1>1. t # Idle /\ t.op \in {"patch", "delete_attachment"} /\ t.step = "lock" /\ Blockers(w) = {}
  BY DEF LockAttachment, InOp, At
<1>2. t \in Txn /\ Holding(t) /\ t.todo # <<>> /\ Wanted(w) = {AttachmentLock(u)}
  BY <1>1, Serving DEF Holding, Shaped, Wanted
<1>3. u \in Upload
  BY <1>1, <1>2, HeadInHand
<1>4. CASE attachment[u] \notin Attached
  <2>1. Refuse(w)
    BY <1>4 DEF LockAttachment
  <2> QED BY <2>1, <1>1, RefuseKeeps DEF Moving
<1>5. CASE attachment[u] \in Attached
  <2>1. Still /\ txn' = [txn EXCEPT ![w] = next] /\ requests' = requests
    BY <1>5 DEF LockAttachment, GoOn, Unharmed, Still
  <2>2. /\ next \in Txn /\ next.op = t.op /\ next.step = "write" /\ next.todo = t.todo
        /\ next.locks = t.locks \union {AttachmentLock(u)} /\ next.shares = t.shares /\ next.on = t.on
        /\ next.into = t.into /\ next.made = t.made /\ next.read = attachment[u]
    <3>1. Locked(w) \in Txn /\ Locked(w) = [t EXCEPT !.locks = t.locks \union Wanted(w)]
      BY <1>1, LocksTaken
    <3>2. next \in Txn
      BY <3>1, <1>5 DEF Txn, Steps
    <3> QED BY <3>1, <3>2, <1>2 DEF Txn
  <2> HIDE DEF next
  <2>3. Shaped(next) /\ Writing(next) /\ Handling(next) /\ Assigning(next)
    BY <1>1, <1>2, <2>2, <1>5 DEF Holding, Shaped, Writing, Handling, Assigning, Attaching
  <2>4. Locking(next)
    BY <1>1, <1>2, <1>3, <2>2, <1>5, LockKinds DEF Holding, Locking
  <2>5. \A v \in Worker \ {w} : /\ next.locks \intersect (Locks(v) \union Shares(v)) = {}
                                /\ next.shares \intersect Locks(v) = {}
    BY <1>1, <1>2, <2>2, LocksTaken
  <2> QED BY <2>1, <2>2, <2>3, <2>4, <2>5, <1>1, Replaced, IdleIsNoTxn
          DEF Holding, Moving, IndInv, Typed, TypeOK
<1> QED BY <1>4, <1>5

LEMMA LockItemsKeeps ==
    ASSUME IndInv, NEW w \in Worker, LockItems(w)
    PROVE  IndInv'
<1> DEFINE t == txn[w]
           next == [Locked(w) EXCEPT !.step = "write", !.on = owners]
<1>1. t # Idle /\ t.op = "delete_owner" /\ t.step = "lock_items" /\ Blockers(w) = {}
  BY DEF LockItems, InOp, At
<1>2. t \in Txn /\ Holding(t) /\ Wanted(w) = {OwnerLock(o) : o \in owners}
  BY <1>1, Serving DEF Wanted
<1>3. owners \subseteq Owner
  BY DEF IndInv, Typed, TypeOK
<1>4. Still /\ txn' = [txn EXCEPT ![w] = next] /\ requests' = requests
  BY DEF LockItems, GoOn, Unharmed, Still
<1>5. /\ next \in Txn /\ next.op = t.op /\ next.step = "write" /\ next.todo = t.todo
      /\ next.locks = t.locks \union {OwnerLock(o) : o \in owners} /\ next.shares = t.shares /\ next.on = owners
      /\ next.into = t.into /\ next.made = t.made
  <2>1. Locked(w) \in Txn /\ Locked(w) = [t EXCEPT !.locks = t.locks \union Wanted(w)]
    BY <1>1, LocksTaken
  <2>2. next \in Txn
    BY <2>1, <1>3 DEF Txn, Steps
  <2> QED BY <2>1, <2>2, <1>2 DEF Txn
<1> HIDE DEF next
<1>6. Shaped(next) /\ Writing(next) /\ Handling(next) /\ Assigning(next)
  BY <1>1, <1>2, <1>5 DEF Holding, Shaped, Writing, Handling, Assigning, Attaching
<1>7. Locking(next)
  BY <1>1, <1>2, <1>3, <1>5, LockKinds DEF Holding, Locking
<1>8. \A v \in Worker \ {w} : /\ next.locks \intersect (Locks(v) \union Shares(v)) = {}
                              /\ next.shares \intersect Locks(v) = {}
  BY <1>1, <1>2, <1>5, LocksTaken
<1> QED BY <1>4, <1>5, <1>6, <1>7, <1>8, <1>1, Replaced, IdleIsNoTxn DEF Holding, Moving, IndInv, Typed, TypeOK

LEMMA LockOwnerKeeps ==
    ASSUME IndInv, NEW w \in Worker, LockOwner(w)
    PROVE  IndInv'
<1> DEFINE t == txn[w]
           wanted == IF t.op = "merge" THEN t.on \union {t.into} ELSE t.on
           step == IF t.op = "create" THEN "consume" ELSE IF Asset \in t.on THEN "lock_items" ELSE "write"
           next == [Locked(w) EXCEPT !.step = step]
<1>1. t # Idle /\ t.op \in {"create", "delete_owner", "merge"} /\ t.step = "lock" /\ Blockers(w) = {}
  BY DEF LockOwner, InOp, At
<1>2. t \in Txn /\ Holding(t) /\ t.on \subseteq Owner /\ t.into \in Owner
  BY <1>1, Serving
<1>3. Wanted(w) = {OwnerLock(o) : o \in wanted} /\ wanted \subseteq Owner
  <2>1. CASE t.op = "merge"
    BY <2>1, <1>1, <1>2 DEF Wanted
  <2>2. CASE t.op \in {"create", "delete_owner"}
    BY <2>2, <1>1, <1>2 DEF Wanted
  <2> QED BY <2>1, <2>2, <1>1
<1> HIDE DEF wanted, step
<1>4. CASE ~(wanted \subseteq owners)
  <2>1. Refuse(w)
    BY <1>4 DEF LockOwner, wanted
  <2> QED BY <2>1, <1>1, RefuseKeeps DEF Moving
<1>5. CASE wanted \subseteq owners
  <2>1. GoOn(w, next) /\ UNCHANGED <<blobs, upload, attachment, owners>> /\ Unharmed
    BY <1>5 DEF LockOwner, wanted, step
  <2>2. Still /\ txn' = [txn EXCEPT ![w] = next] /\ requests' = requests
    BY <2>1 DEF GoOn, Unharmed, Still
  <2>3. step \in {"consume", "lock_items", "write"} /\ (step = "consume" <=> t.op = "create")
    BY DEF step
  <2>4. /\ next \in Txn /\ next.op = t.op /\ next.step = step /\ next.todo = t.todo
        /\ next.locks = t.locks \union Wanted(w) /\ next.shares = t.shares /\ next.on = t.on
        /\ next.into = t.into /\ next.made = t.made
    <3>1. Locked(w) \in Txn /\ Locked(w) = [t EXCEPT !.locks = t.locks \union Wanted(w)]
      BY <1>1, LocksTaken
    <3>2. next \in Txn
      BY <3>1, <2>3 DEF Txn, Steps
    <3> QED BY <3>1, <3>2, <1>2 DEF Txn
  <2> HIDE DEF next
  <2>5. Shaped(next) /\ Handling(next) /\ Assigning(next)
    BY <1>1, <1>2, <2>3, <2>4 DEF Holding, Shaped, Handling, Assigning, Attaching
  <2>6. Writing(next)
    BY <1>1, <1>3, <2>3, <2>4 DEF Writing, wanted
  <2>7. Locking(next)
    BY <1>1, <1>2, <1>3, <1>5, <2>4, LockKinds DEF Holding, Locking
  <2>8. \A v \in Worker \ {w} : /\ next.locks \intersect (Locks(v) \union Shares(v)) = {}
                                /\ next.shares \intersect Locks(v) = {}
    BY <1>1, <2>4, LocksTaken
  <2>9. next.step \notin Moving /\ t.step \notin Moving
    BY <1>1, <2>3, <2>4 DEF Moving
  <2>10. requests' \in 0 .. MaxRequests
    BY <2>2 DEF IndInv, Typed, TypeOK
  <2> QED BY <2>2, <2>4, <2>5, <2>6, <2>7, <2>8, <2>9, <2>10, <1>1, Replaced DEF Holding
<1> QED BY <1>4, <1>5

(* The share of an owner is had when nobody holds its row: it is there, or it *)
(* is the asset or item this request is creating.                             *)
LEMMA InsertAttachmentKeeps ==
    ASSUME IndInv, NEW w \in Worker, InsertAttachment(w)
    PROVE  IndInv'
<1> DEFINE t == txn[w]
           u == Head(t.todo)
           rest == Tail(t.todo)
           step == IF rest = <<>> THEN "write" ELSE "consume"
           made == t.made \union {u}
           shares == t.shares \union {OwnerLock(t.into)}
           next == [t EXCEPT !.made = made, !.todo = rest, !.step = step, !.shares = shares]
           free == attachment[u] \notin Attached /\ (t.op = "create" \/ t.into \in owners)
<1>1. t # Idle /\ t.op \in Attaching /\ t.step = "attach" /\ Blockers(w) = {}
  BY DEF InsertAttachment, InOp, At, Attaching
<1>2. /\ t \in Txn /\ Holding(t) /\ t.todo # <<>> /\ t.into \in Owner /\ t.made \subseteq Upload
      /\ t.shares \subseteq Lock /\ Locks(w) = t.locks /\ Shares(w) = t.shares
  BY <1>1, Serving DEF Holding, Shaped
<1>3. u \in Upload /\ rest \in Seq(Upload)
  BY <1>1, <1>2, HeadInHand
<1> HIDE DEF u, rest
<1>4. CASE ~free
  <2>1. Refuse(w)
    BY <1>4 DEF InsertAttachment, u
  <2> QED BY <2>1, <1>1, RefuseKeeps DEF Moving
<1>5. CASE free
  <2>1. GoOn(w, next) /\ UNCHANGED <<blobs, upload, attachment, owners>> /\ Unharmed
    BY <1>5 DEF InsertAttachment, u, rest
  <2>2. Still /\ txn' = [txn EXCEPT ![w] = next] /\ requests' = requests
    BY <2>1 DEF GoOn, Unharmed, Still
  <2>3. step \in {"write", "consume"} /\ (step = "consume" => rest # <<>>)
    OBVIOUS
  <2> HIDE DEF step
  <2>4. made \subseteq Upload /\ shares \subseteq Lock
    BY <1>2, <1>3, LockKinds
  <2>5. next \in Txn
    BY <1>2, <1>3, <2>3, <2>4 DEF Txn, Steps
  <2>6. /\ next.op = t.op /\ next.step = step /\ next.todo = rest /\ next.locks = t.locks
        /\ next.shares = shares /\ next.on = t.on /\ next.into = t.into /\ next.made = made
    BY <1>2 DEF Txn
  <2> HIDE DEF next
  <2>7. Shaped(next) /\ Writing(next) /\ Handling(next)
    BY <1>1, <1>2, <2>3, <2>6 DEF Holding, Shaped, Writing, Handling, Attaching
  <2>8. Assigning(next)
    BY <1>1, <1>2, <1>3, <1>5, <2>3, <2>6 DEF Holding, Assigning, Attaching, u
  <2>9. Locking(next)
    BY <1>1, <1>2, <2>6 DEF Holding, Locking
  <2>10. ASSUME NEW v \in Worker \ {w} PROVE OwnerLock(t.into) \notin Locks(v)
    <3>1. CASE t.op = "assign"
      BY <3>1, <1>1 DEF Blockers, Writers
    <3>2. CASE t.op = "create"
      <4>1. t.into \notin owners
        BY <3>2, <1>2 DEF Holding, Assigning, Attaching
      <4>2. CASE txn[v] = Idle
        BY <4>2 DEF Locks
      <4>3. CASE txn[v] # Idle
        BY <4>1, <4>3, <1>2, Serving DEF Holding, Locking
      <4> QED BY <4>2, <4>3
    <3> QED BY <3>1, <3>2, <1>1 DEF Attaching
  <2>11. \A v \in Worker \ {w} : /\ next.locks \intersect (Locks(v) \union Shares(v)) = {}
                                 /\ next.shares \intersect Locks(v) = {}
    BY <2>10, <2>6, <1>2 DEF IndInv, Apart, Exclusive
  <2>12. next.step \notin Moving /\ t.step \notin Moving
    BY <1>1, <2>3, <2>6 DEF Moving
  <2>13. requests' \in 0 .. MaxRequests
    BY <2>2 DEF IndInv, Typed, TypeOK
  <2> QED BY <2>2, <2>5, <2>6, <2>7, <2>8, <2>9, <2>11, <2>12, <2>13, <1>1, Replaced DEF Holding
<1> QED BY <1>4, <1>5

(* A request that stores or removes a file waits for nobody. *)
LEMMA AbortDeadlockedKeeps ==
    ASSUME IndInv, NEW w \in Worker, AbortDeadlocked(w)
    PROVE  IndInv'
<1>1. txn[w] # Idle /\ Blockers(w) # {} /\ Refuse(w)
  BY DEF AbortDeadlocked, Blockers
<1>2. txn[w].step \notin Moving
  <2>1. ASSUME txn[w].step \in Moving PROVE Wanted(w) = {}
    BY <2>1 DEF Wanted, Moving
  <2> QED BY <2>1, <1>1 DEF Blockers, Moving
<1> QED BY <1>1, <1>2, RefuseKeeps

-----------------------------------------------------------------------------
(* Requests that begin *)

LEMMA BeginsKeep ==
    ASSUME IndInv, NEW w \in Worker, Begins(w), \A u \in Upload : ~StoreUpload(w, u)
    PROVE  IndInv'
<1>1. ASSUME NEW u \in Upload, BeginDeleteUpload(w, u) PROVE IndInv'
  <2> DEFINE t == [Base("delete_upload", "lock") EXCEPT !.todo = <<u>>]
  <2>1. Begin(w, t) /\ Still
    BY <1>1 DEF BeginDeleteUpload, Unharmed, Still
  <2>2. /\ t \in Txn /\ t.op = "delete_upload" /\ t.step = "lock" /\ t.todo = <<u>> /\ t.made = {}
        /\ t.locks = {} /\ t.shares = {}
    <3>1. /\ Base("delete_upload", "lock") \in Txn /\ Base("delete_upload", "lock").op = "delete_upload" /\ Base("delete_upload", "lock").step = "lock" /\ Base("delete_upload", "lock").made = {}
          /\ Base("delete_upload", "lock").locks = {} /\ Base("delete_upload", "lock").shares = {}
      BY BaseIsTxn DEF Ops, Steps
    <3> QED BY <3>1, OneElement DEF Txn
  <2>3. Shaped(t)
    BY <2>2, OneElement DEF Shaped, Attaching
  <2> HIDE DEF t
  <2> QED BY <2>1, <2>2, <2>3, BeginKeeps
<1>2. ASSUME NEW u \in Upload, NEW field \in {"name", "public"}, BeginPatch(w, u, field) PROVE IndInv'
  <2> DEFINE t == [Base("patch", "lock") EXCEPT !.todo = <<u>>, !.patch = field]
  <2>1. Begin(w, t) /\ Still
    BY <1>2 DEF BeginPatch, Unharmed, Still
  <2>2. /\ t \in Txn /\ t.op = "patch" /\ t.step = "lock" /\ t.todo = <<u>> /\ t.made = {}
        /\ t.locks = {} /\ t.shares = {}
    <3>1. /\ Base("patch", "lock") \in Txn /\ Base("patch", "lock").op = "patch" /\ Base("patch", "lock").step = "lock" /\ Base("patch", "lock").made = {}
          /\ Base("patch", "lock").locks = {} /\ Base("patch", "lock").shares = {}
      BY BaseIsTxn DEF Ops, Steps
    <3> QED BY <3>1, OneElement DEF Txn
  <2>3. Shaped(t)
    BY <2>2, OneElement DEF Shaped, Attaching
  <2> HIDE DEF t
  <2> QED BY <2>1, <2>2, <2>3, BeginKeeps
<1>3. ASSUME NEW u \in Upload, BeginDeleteAttachment(w, u) PROVE IndInv'
  <2> DEFINE t == [Base("delete_attachment", "lock") EXCEPT !.todo = <<u>>]
  <2>1. Begin(w, t) /\ Still
    BY <1>3 DEF BeginDeleteAttachment, Unharmed, Still
  <2>2. /\ t \in Txn /\ t.op = "delete_attachment" /\ t.step = "lock" /\ t.todo = <<u>> /\ t.made = {}
        /\ t.locks = {} /\ t.shares = {}
    <3>1. /\ Base("delete_attachment", "lock") \in Txn /\ Base("delete_attachment", "lock").op = "delete_attachment" /\ Base("delete_attachment", "lock").step = "lock" /\ Base("delete_attachment", "lock").made = {}
          /\ Base("delete_attachment", "lock").locks = {} /\ Base("delete_attachment", "lock").shares = {}
      BY BaseIsTxn DEF Ops, Steps
    <3> QED BY <3>1, OneElement DEF Txn
  <2>3. Shaped(t)
    BY <2>2, OneElement DEF Shaped, Attaching
  <2> HIDE DEF t
  <2> QED BY <2>1, <2>2, <2>3, BeginKeeps
<1>4. ASSUME NEW o \in Owner, NEW us \in Created, BeginAssign(w, o, us) PROVE IndInv'
  <2> DEFINE a == [Base("assign", "consume") EXCEPT !.todo = us, !.into = o]
             c == [Base("create", "lock") EXCEPT !.todo = us, !.into = o, !.on = {Asset}]
  <2>1. us \in Seq(Upload) /\ us # <<>> /\ Asset \in Owner
    BY CreatedAssumption DEF Owner
  <2>2. Still
    BY <1>4 DEF BeginAssign, Unharmed, Still
  <2>3. CASE o \in owners
    <3>1. Begin(w, a)
      BY <1>4, <2>3 DEF BeginAssign
    <3>2. /\ a \in Txn /\ a.op = "assign" /\ a.step = "consume" /\ a.todo = us /\ a.made = {}
          /\ a.locks = {} /\ a.shares = {}
      <4>1. /\ Base("assign", "consume") \in Txn /\ Base("assign", "consume").op = "assign" /\ Base("assign", "consume").step = "consume" /\ Base("assign", "consume").made = {}
            /\ Base("assign", "consume").locks = {} /\ Base("assign", "consume").shares = {}
        BY BaseIsTxn DEF Ops, Steps
      <4> QED BY <4>1, <2>1 DEF Txn
    <3>3. Shaped(a)
      BY <3>2, <2>1 DEF Shaped, Attaching
    <3> HIDE DEF a
    <3> QED BY <2>2, <3>1, <3>2, <3>3, BeginKeeps
  <2>4. CASE o \notin owners
    <3>1. Begin(w, c)
      BY <1>4, <2>4 DEF BeginAssign
    <3>2. /\ c \in Txn /\ c.op = "create" /\ c.step = "lock" /\ c.todo = us /\ c.made = {} /\ c.on = {Asset}
          /\ c.locks = {} /\ c.shares = {} /\ c.into = o
      <4>1. /\ Base("create", "lock") \in Txn /\ Base("create", "lock").op = "create" /\ Base("create", "lock").step = "lock" /\ Base("create", "lock").made = {}
            /\ Base("create", "lock").locks = {} /\ Base("create", "lock").shares = {}
        BY BaseIsTxn DEF Ops, Steps
      <4> QED BY <4>1, <2>1 DEF Txn
    <3>3. Shaped(c)
      BY <3>2, <2>1 DEF Shaped, Attaching
    <3>4. \A v \in Worker : txn[v] # Idle /\ txn[v].op = "create" => txn[v].into # o
      BY <1>4 DEF BeginAssign
    <3> HIDE DEF c
    <3> QED BY <2>2, <2>4, <3>1, <3>2, <3>3, <3>4, BeginKeeps
  <2> QED BY <2>3, <2>4
<1>5. ASSUME NEW o \in Owner, BeginDeleteOwner(w, o) PROVE IndInv'
  <2> DEFINE t == [Base("delete_owner", "lock") EXCEPT !.on = {o}]
  <2>1. Begin(w, t) /\ Still
    BY <1>5 DEF BeginDeleteOwner, Unharmed, Still
  <2>2. /\ t \in Txn /\ t.op = "delete_owner" /\ t.step = "lock" /\ t.made = {}
        /\ t.locks = {} /\ t.shares = {}
    <3>1. /\ Base("delete_owner", "lock") \in Txn /\ Base("delete_owner", "lock").op = "delete_owner" /\ Base("delete_owner", "lock").step = "lock" /\ Base("delete_owner", "lock").made = {}
          /\ Base("delete_owner", "lock").locks = {} /\ Base("delete_owner", "lock").shares = {}
      BY BaseIsTxn DEF Ops, Steps
    <3> QED BY <3>1 DEF Txn
  <2>3. Shaped(t)
    BY <2>2 DEF Shaped, Attaching
  <2> HIDE DEF t
  <2> QED BY <2>1, <2>2, <2>3, BeginKeeps
<1>6. ASSUME NEW source \in Item, NEW target \in Item, BeginMerge(w, source, target) PROVE IndInv'
  <2> DEFINE t == [Base("merge", "lock") EXCEPT !.on = {source}, !.into = target]
  <2>1. Begin(w, t) /\ Still /\ source # target
    BY <1>6 DEF BeginMerge, Unharmed, Still
  <2>2. /\ t \in Txn /\ t.op = "merge" /\ t.step = "lock" /\ t.made = {} /\ t.on = {source}
        /\ t.into = target /\ t.locks = {} /\ t.shares = {}
    <3>1. /\ Base("merge", "lock") \in Txn /\ Base("merge", "lock").op = "merge" /\ Base("merge", "lock").step = "lock" /\ Base("merge", "lock").made = {}
          /\ Base("merge", "lock").locks = {} /\ Base("merge", "lock").shares = {}
      BY BaseIsTxn DEF Ops, Steps
    <3> QED BY <3>1 DEF Txn, Owner
  <2>3. Shaped(t)
    BY <2>1, <2>2 DEF Shaped, Attaching
  <2> HIDE DEF t
  <2> QED BY <2>1, <2>2, <2>3, BeginKeeps
<1> QED BY <1>1, <1>2, <1>3, <1>4, <1>5, <1>6 DEF Begins

(* What a file in the hands of a request must not be mistaken for. *)
LEMMA InHand ==
    ASSUME IndInv, NEW v \in Worker, txn[v] # Idle
    PROVE  /\ Shaped(txn[v]) /\ Assigning(txn[v]) /\ Writing(txn[v]) /\ Locking(txn[v]) /\ Handling(txn[v])
           /\ \A u \in Upload : UploadLock(u) \in txn[v].locks => upload[u] # "none"
           /\ txn[v].step \in Moving => txn[v].todo # <<>> /\ Head(txn[v].todo) \in Upload
           /\ txn[v].step = "insert" =>
                 upload[Head(txn[v].todo)] = "none" /\ Head(txn[v].todo) \in blobs /\ Left(v) = {Head(txn[v].todo)}
           /\ \A i \in DOMAIN txn[v].todo : txn[v].todo[i] \in Left(v) /\ txn[v].todo[i] \in Upload
<1>1. Holding(txn[v]) /\ txn[v].todo \in Seq(Upload)
  BY Serving
<1>2. txn[v].step \in Moving => txn[v].todo # <<>>
  BY <1>1 DEF Holding, Shaped, Moving
<1>3. ASSUME txn[v].step = "insert" PROVE Left(v) = {Head(txn[v].todo)}
  <2>1. Len(txn[v].todo) = 1
    BY <1>1, <1>3 DEF Holding, Shaped
  <2>2. DOMAIN txn[v].todo = {1} /\ Head(txn[v].todo) = txn[v].todo[1]
    BY <1>1, <2>1, LenProperties, HeadInHand, <1>2, <1>3 DEF Moving
  <2> QED BY <2>2 DEF Left
<1>4. \A i \in DOMAIN txn[v].todo : txn[v].todo[i] \in Left(v) /\ txn[v].todo[i] \in Upload
  BY <1>1 DEF Left
<1> QED BY <1>1, <1>2, <1>3, <1>4, HeadInHand DEF Holding, Locking, Handling

-----------------------------------------------------------------------------
(* Files that are stored and removed, faults, and the passing of time *)

LEMMA TypedStep ==
    ASSUME Typed, NEW w \in Worker, NEW t \in Txn \union {Idle}, txn' = [txn EXCEPT ![w] = t],
           requests' \in 0 .. MaxRequests, faults' \in 0 .. MaxFaults,
           blobs' \subseteq Upload, spoiled' \subseteq Upload, owners' \subseteq Owner,
           upload' \in [Upload -> {"none", "open", "expired", "consumed", "deleted"}],
           attachment' \in [Upload -> Attached \union {Unmade, Gone}]
    PROVE  Typed'
<1>1. txn' \in [Worker -> Txn \union {Idle}]
  BY DEF Typed
<1> QED BY <1>1 DEF Typed, TypeOK

LEMMA UnderwayStays ==
    ASSUME Typed, NEW w \in Worker, NEW t \in Txn \union {Idle}, txn' = [txn EXCEPT ![w] = t],
           NEW u \in Upload, Underway(u), txn[w] # Idle /\ txn[w].step \in Moving => u \notin Left(w)
    PROVE  Underway(u)'
<1>1. PICK v \in Worker : txn[v] # Idle /\ txn[v].step \in Moving /\ u \in Left(v)
  BY DEF Underway, Moving
<1>2. txn'[v] = txn[v]
  BY <1>1 DEF Typed
<1> QED BY <1>1, <1>2 DEF Underway, Left, Moving

LEMMA NowUnderway ==
    ASSUME Typed, NEW w \in Worker, NEW t \in Txn, txn' = [txn EXCEPT ![w] = t], t.step \in Moving,
           NEW u \in Upload, u \in {t.todo[i] : i \in DOMAIN t.todo}
    PROVE  Underway(u)'
<1>1. txn'[w] = t /\ t # Idle
  BY IdleIsNoTxn DEF Typed
<1> QED BY <1>1 DEF Underway, Left, Moving

(* A blob that no row names is underway, or faults are to blame. *)
LEMMA OrphansStay ==
    ASSUME IndInv, Typed',
           \A u \in Upload \ spoiled' : u \in blobs' =>
               \/ u \in blobs \ spoiled /\
                  (upload[u] \in {"open", "expired"} \/ attachment[u] \in Attached \/ Underway(u) =>
                      upload'[u] \in {"open", "expired"} \/ attachment'[u] \in Attached \/ Underway(u)')
               \/ upload'[u] \in {"open", "expired"} \/ attachment'[u] \in Attached \/ Underway(u)'
    PROVE  OrphansComeFromFaults'
<1>1. ASSUME NEW u \in Upload, u \in blobs' \ spoiled'
      PROVE  upload'[u] \in {"open", "expired"} \/ attachment'[u] \in Attached \/ Underway(u)'
  <2>1. u \in blobs \ spoiled => upload[u] \in {"open", "expired"} \/ attachment[u] \in Attached \/ Underway(u)
    BY DEF IndInv, FilesInv, OrphansComeFromFaults
  <2> QED BY <1>1, <2>1
<1>2. blobs' \subseteq Upload
  BY DEF Typed, TypeOK
<1> QED BY <1>1, <1>2 DEF OrphansComeFromFaults

LEMMA StoreUploadKeeps ==
    ASSUME IndInv, NEW w \in Worker, NEW u \in Upload, StoreUpload(w, u)
    PROVE  IndInv'
<1> DEFINE t == [Base("upload", "insert") EXCEPT !.todo = <<u>>]
<1>1. /\ upload[u] = "none" /\ u \notin blobs \union spoiled /\ blobs' = blobs \union {u} /\ txn[w] = Idle
      /\ txn' = [txn EXCEPT ![w] = t] /\ requests' = requests + 1 /\ requests < MaxRequests
      /\ UNCHANGED <<upload, attachment, owners, faults, spoiled>>
  BY DEF StoreUpload, Begin, Rows, Unharmed
<1>2. \A v \in Worker : txn[v] # Idle => u \notin Left(v)
  BY DEF StoreUpload, Left
<1>3. /\ t \in Txn /\ t.op = "upload" /\ t.step = "insert" /\ t.todo = <<u>> /\ t.made = {}
      /\ t.locks = {} /\ t.shares = {}
  <2>1. /\ Base("upload", "insert") \in Txn /\ Base("upload", "insert").op = "upload"
        /\ Base("upload", "insert").step = "insert" /\ Base("upload", "insert").made = {}
        /\ Base("upload", "insert").locks = {} /\ Base("upload", "insert").shares = {}
    BY BaseIsTxn DEF Ops, Steps
  <2> QED BY <2>1, OneElement DEF Txn
<1> HIDE DEF t
<1>4. Head(t.todo) = u /\ {t.todo[i] : i \in DOMAIN t.todo} = {u} /\ t # Idle
  BY <1>3, OneElement, IdleIsNoTxn
<1>5. Typed /\ TypeOK
  BY DEF IndInv, Typed
<1>6. Typed'
  <2>1. requests' \in 0 .. MaxRequests
    BY <1>1, <1>5, BoundsAssumption DEF TypeOK
  <2> QED BY <1>1, <1>3, <1>5, <2>1, TypedStep DEF TypeOK
<1>7. Holding(t)'
  <2>1. Shaped(t)'
    BY <1>3, OneElement DEF Shaped, Attaching
  <2>2. Handling(t)'
    BY <1>1, <1>3, <1>4 DEF Handling
  <2> QED BY <1>3, <2>1, <2>2 DEF Holding, Assigning, Writing, Locking, Attaching
<1>8. ASSUME NEW v \in Worker \ {w}, txn[v] # Idle PROVE Kept(v)
  BY <1>1, <1>8, InHand DEF Kept, Handling, Assigning, Attaching
<1>9. ASSUME NEW v \in Worker \ {w}, txn[v] # Idle
      PROVE  /\ t.step \in Moving /\ txn[v].step = "insert" => Head(txn[v].todo) \notin {t.todo[i] : i \in DOMAIN t.todo}
             /\ t.step = "insert" /\ txn[v].step \in Moving => Head(t.todo) \notin Left(v)
  <2>1. u \notin Left(v) /\ (txn[v].step = "insert" => Head(txn[v].todo) \in Left(v))
    BY <1>2, <1>9, InHand
  <2> QED BY <2>1, <1>4
<1>10. RequestsHold' /\ Apart'
  BY <1>1, <1>3, <1>4, <1>6, <1>7, <1>8, <1>9, WriteKeeps
<1>11. ASSUME NEW x \in Upload, Underway(x) \/ x = u PROVE Underway(x)'
  BY <1>1, <1>3, <1>4, <1>5, <1>11, UnderwayStays, NowUnderway DEF Moving
<1>12. RowsHaveTheirFile' /\ AttachedAreConsumed'
  BY <1>1 DEF IndInv, FilesInv, RowsHaveTheirFile, AttachedAreConsumed
<1>13. OrphansComeFromFaults'
  BY <1>1, <1>6, <1>11, OrphansStay
<1> QED BY <1>6, <1>10, <1>12, <1>13 DEF IndInv, FilesInv

LEMMA InsertUploadKeeps ==
    ASSUME IndInv, NEW w \in Worker, InsertUpload(w)
    PROVE  IndInv'
<1> DEFINE u == Head(txn[w].todo)
<1>1. /\ txn[w] # Idle /\ txn[w].step = "insert" /\ upload' = [upload EXCEPT ![u] = "open"]
      /\ txn' = [txn EXCEPT ![w] = Idle] /\ requests' = requests
      /\ UNCHANGED <<blobs, attachment, owners, faults, spoiled>>
  BY DEF InsertUpload, InOp, At, End, GoOn, Unharmed
<1>2. u \in Upload /\ upload[u] = "none" /\ u \in blobs /\ Left(w) = {u}
  BY <1>1, InHand DEF Moving
<1> HIDE DEF u
<1>3. Typed /\ TypeOK
  BY DEF IndInv, Typed
<1>4. /\ upload' \in [Upload -> {"none", "open", "expired", "consumed", "deleted"}]
      /\ upload'[u] = "open" /\ \A x \in Upload \ {u} : upload'[x] = upload[x]
  BY <1>1, <1>2, <1>3 DEF TypeOK
<1>5. Typed'
  BY <1>1, <1>3, <1>4, TypedStep DEF TypeOK
<1>6. ASSUME NEW v \in Worker \ {w}, txn[v] # Idle, txn[v].step \in Moving PROVE u \notin Left(v)
  BY <1>1, <1>2, <1>6 DEF IndInv, Apart, OneHand, u
<1>7. ASSUME NEW v \in Worker \ {w}, txn[v] # Idle PROVE Kept(v)
  <2>1. \A x \in Upload : UploadLock(x) \in txn[v].locks => upload'[x] = upload[x]
    BY <1>2, <1>4, <1>7, InHand
  <2>2. txn[v].step = "insert" => upload'[Head(txn[v].todo)] = "none" /\ Head(txn[v].todo) \in blobs'
    BY <1>1, <1>4, <1>6, <1>7, InHand DEF Moving
  <2>3. ASSUME txn[v].step = "remove", NEW i \in DOMAIN txn[v].todo
        PROVE  \/ txn[v].todo[i] \in spoiled'
               \/ upload'[txn[v].todo[i]] \notin {"open", "expired"} /\ attachment'[txn[v].todo[i]] \notin Attached
    <3>1. txn[v].todo[i] # u /\ txn[v].todo[i] \in Upload
      BY <1>6, <1>7, <2>3, InHand DEF Moving
    <3> QED BY <1>1, <1>4, <1>7, <2>3, <3>1, InHand DEF Handling
  <2>4. txn[v].op = "create" => txn[v].into \notin owners'
    BY <1>1, <1>7, InHand DEF Assigning, Attaching
  <2> QED BY <1>1, <2>1, <2>2, <2>3, <2>4 DEF Kept
<1>8. RequestsHold' /\ Apart'
  BY <1>1, <1>5, <1>7, WriteKeeps
<1>9. RowsHaveTheirFile' /\ AttachedAreConsumed'
  BY <1>1, <1>2, <1>4 DEF IndInv, FilesInv, RowsHaveTheirFile, AttachedAreConsumed
<1>10. OrphansComeFromFaults'
  <2>1. ASSUME NEW x \in Upload, x # u, Underway(x) PROVE Underway(x)'
    BY <1>1, <1>2, <1>3, <2>1, UnderwayStays
  <2> QED BY <1>1, <1>4, <1>5, <2>1, OrphansStay
<1> QED BY <1>5, <1>8, <1>9, <1>10 DEF IndInv, FilesInv

(* What the insert left behind, if anything, is spoiled. *)
LEMMA FailInsertKeeps ==
    ASSUME IndInv, NEW w \in Worker, FailInsert(w)
    PROVE  IndInv'
<1>0. PICK u \in Upload : u = Head(txn[w].todo)
  BY InHand DEF FailInsert, InOp, At, Moving
<1> DEFINE t == Removing(<<u>>)
<1>1. /\ txn[w] # Idle /\ txn[w].step = "insert"
      /\ txn' = [txn EXCEPT ![w] = t] /\ requests' = requests
      /\ faults < MaxFaults /\ faults' = faults + 1 /\ UNCHANGED <<blobs, attachment, owners>>
      /\ \/ UNCHANGED <<upload, spoiled>>
         \/ upload' = [upload EXCEPT ![u] = "open"] /\ spoiled' = spoiled \union {u}
  BY <1>0 DEF FailInsert, InOp, At, GoOn
<1>2. u \in Upload /\ upload[u] = "none" /\ u \in blobs /\ Left(w) = {u}
  BY <1>0, <1>1, InHand DEF Moving
<1>3. /\ t \in Txn /\ t.op = "remove" /\ t.step = "remove" /\ t.todo = <<u>> /\ t.made = {} /\ t # Idle
      /\ t.locks = {} /\ t.shares = {} /\ Shaped(t) /\ {t.todo[i] : i \in DOMAIN t.todo} = {u}
  <2>1. t.todo = <<u>>
    BY OneElement, RemovingIsTxn
  <2>2. /\ t \in Txn /\ t.op = "remove" /\ t.step = "remove" /\ t.made = {} /\ t # Idle
        /\ t.locks = {} /\ t.shares = {} /\ Shaped(t)
    BY OneElement, RemovingIsTxn
  <2> HIDE DEF t
  <2> QED BY <2>1, <2>2, OneElement
<1> HIDE DEF t
<1>4. Typed /\ TypeOK
  BY DEF IndInv, Typed
<1>5. /\ upload' \in [Upload -> {"none", "open", "expired", "consumed", "deleted"}]
      /\ \A x \in Upload \ {u} : upload'[x] = upload[x]
      /\ spoiled \subseteq spoiled' /\ spoiled' \subseteq spoiled \union {u}
      /\ u \in spoiled' \/ upload'[u] = "none"
  BY <1>1, <1>2, <1>4 DEF TypeOK
<1>6. Typed'
  <2>1. faults' \in 0 .. MaxFaults
    BY <1>1, <1>4, BoundsAssumption DEF TypeOK
  <2> QED BY <1>1, <1>2, <1>3, <1>4, <1>5, <2>1, TypedStep DEF TypeOK
<1>7. ASSUME NEW v \in Worker \ {w}, txn[v] # Idle, txn[v].step \in Moving PROVE u \notin Left(v)
  BY <1>0, <1>1, <1>2, <1>7 DEF IndInv, Apart, OneHand
<1>8. ASSUME NEW v \in Worker \ {w}, txn[v] # Idle PROVE Kept(v)
  <2>1. \A x \in Upload : UploadLock(x) \in txn[v].locks => upload'[x] = upload[x]
    BY <1>2, <1>5, <1>8, InHand
  <2>2. txn[v].step = "insert" => upload'[Head(txn[v].todo)] = "none" /\ Head(txn[v].todo) \in blobs'
    BY <1>1, <1>5, <1>7, <1>8, InHand DEF Moving
  <2>3. ASSUME txn[v].step = "remove", NEW i \in DOMAIN txn[v].todo
        PROVE  \/ txn[v].todo[i] \in spoiled'
               \/ upload'[txn[v].todo[i]] \notin {"open", "expired"} /\ attachment'[txn[v].todo[i]] \notin Attached
    <3>1. txn[v].todo[i] # u /\ txn[v].todo[i] \in Upload
      BY <1>7, <1>8, <2>3, InHand DEF Moving
    <3> QED BY <1>1, <1>5, <1>8, <2>3, <3>1, InHand DEF Handling
  <2>4. txn[v].op = "create" => txn[v].into \notin owners'
    BY <1>1, <1>8, InHand DEF Assigning, Attaching
  <2> QED BY <1>1, <2>1, <2>2, <2>3, <2>4 DEF Kept
<1>9. attachment[u] \notin Attached
  BY <1>2, NotAttached DEF IndInv, FilesInv, AttachedAreConsumed
<1>10. Holding(t)'
  <2>1. Handling(t)'
    <3>1. \A i \in DOMAIN t.todo : t.todo[i] = u
      BY <1>3
    <3> QED BY <1>1, <1>3, <1>5, <1>9, <3>1 DEF Handling
  <2>2. Shaped(t)'
    BY <1>3 DEF Shaped
  <2> QED BY <1>3, <2>1, <2>2 DEF Holding, Assigning, Writing, Locking, Attaching
<1>11. ASSUME NEW v \in Worker \ {w}, txn[v] # Idle
       PROVE  /\ t.step \in Moving /\ txn[v].step = "insert" => Head(txn[v].todo) \notin {t.todo[i] : i \in DOMAIN t.todo}
              /\ t.step = "insert" /\ txn[v].step \in Moving => Head(t.todo) \notin Left(v)
  <2>1. txn[v].step = "insert" => Head(txn[v].todo) # u
    BY <1>7, <1>11, InHand DEF Moving
  <2> QED BY <1>3, <2>1
<1>12. RequestsHold' /\ Apart'
  BY <1>1, <1>3, <1>6, <1>8, <1>10, <1>11, WriteKeeps
<1>13. RowsHaveTheirFile' /\ AttachedAreConsumed'
  BY <1>1, <1>2, <1>4, <1>5 DEF IndInv, FilesInv, RowsHaveTheirFile, AttachedAreConsumed, TypeOK
<1>14. OrphansComeFromFaults'
  <2>1. ASSUME NEW x \in Upload, Underway(x) PROVE Underway(x)'
    <3>1. CASE x = u
      BY <1>1, <1>3, <1>4, <3>1, NowUnderway DEF Moving
    <3>2. CASE x # u
      BY <1>1, <1>2, <1>3, <1>4, <2>1, <3>2, UnderwayStays
    <3> QED BY <3>1, <3>2
  <2>2. Underway(u)'
    BY <1>1, <1>2, <1>3, <1>4, NowUnderway DEF Moving
  <2> QED BY <1>1, <1>5, <1>6, <2>1, <2>2, OrphansStay
<1> QED BY <1>6, <1>12, <1>13, <1>14 DEF IndInv, FilesInv

LEMMA ExpireKeeps ==
    ASSUME IndInv, NEW u \in Upload, Expire(u)
    PROVE  IndInv'
<1>1. /\ upload[u] = "open" /\ upload' = [upload EXCEPT ![u] = "expired"]
      /\ \A v \in Worker : UploadLock(u) \notin Locks(v)
      /\ UNCHANGED <<blobs, attachment, owners, txn, requests, faults, spoiled>>
  BY DEF Expire, Unharmed
<1>2. Typed /\ TypeOK
  BY DEF IndInv, Typed
<1>3. /\ upload' \in [Upload -> {"none", "open", "expired", "consumed", "deleted"}]
      /\ upload'[u] = "expired" /\ \A x \in Upload \ {u} : upload'[x] = upload[x]
  BY <1>1, <1>2 DEF TypeOK
<1>4. Typed'
  BY <1>1, <1>2, <1>3 DEF Typed, TypeOK
<1>5. ASSUME NEW v \in Worker, txn[v] # Idle PROVE Kept(v)
  <2>1. \A x \in Upload : UploadLock(x) \in txn[v].locks => upload'[x] = upload[x]
    BY <1>1, <1>3, <1>5 DEF Locks
  <2>2. txn[v].step = "insert" => upload'[Head(txn[v].todo)] = "none" /\ Head(txn[v].todo) \in blobs'
    BY <1>1, <1>3, <1>5, InHand DEF Moving
  <2>3. ASSUME txn[v].step = "remove", NEW i \in DOMAIN txn[v].todo
        PROVE  \/ txn[v].todo[i] \in spoiled'
               \/ upload'[txn[v].todo[i]] \notin {"open", "expired"} /\ attachment'[txn[v].todo[i]] \notin Attached
    BY <1>1, <1>3, <1>5, <2>3, InHand DEF Handling
  <2>4. txn[v].op = "create" => txn[v].into \notin owners'
    BY <1>1, <1>5, InHand DEF Assigning, Attaching
  <2> QED BY <1>1, <2>1, <2>2, <2>3, <2>4 DEF Kept
<1>6. RequestsHold'
  <2>1. ASSUME NEW v \in Worker, NEW r \in Txn, txn'[v] = r PROVE Holding(r)'
    <3>1. r = txn[v] /\ txn[v] # Idle
      BY <1>1, <2>1, IdleIsNoTxn
    <3> QED BY <1>5, <3>1, KeptHolds
  <2> QED BY <2>1 DEF RequestsHold
<1>7. Apart'
  BY <1>1 DEF IndInv, Apart, Exclusive, OneHand, OneCreate, Locks, Shares, Left
<1>8. RowsHaveTheirFile' /\ AttachedAreConsumed'
  BY <1>1, <1>3 DEF IndInv, FilesInv, RowsHaveTheirFile, AttachedAreConsumed
<1>9. OrphansComeFromFaults'
  <2>1. ASSUME NEW x \in Upload, Underway(x) PROVE Underway(x)'
    BY <1>1, <2>1 DEF Underway, Left
  <2> QED BY <1>1, <1>3, <1>4, <2>1, OrphansStay
<1> QED BY <1>4, <1>6, <1>7, <1>8, <1>9 DEF IndInv, FilesInv

LEMMA RemoveBlobKeeps ==
    ASSUME IndInv, NEW w \in Worker, RemoveBlob(w)
    PROVE  IndInv'
<1>0. txn[w] # Idle /\ txn[w].step = "remove" /\ txn[w].todo # <<>>
  BY InHand DEF RemoveBlob, At, Moving
<1>1. PICK s \in Seq(Upload) : s = txn[w].todo /\ s # <<>>
  BY <1>0, Serving
<1> DEFINE u == Head(s)
           rest == Tail(s)
<1>2. /\ u \in Upload /\ rest \in Seq(Upload)
      /\ Left(w) = {u} \union {rest[i] : i \in DOMAIN rest} /\ u \in Left(w)
  <2>1. {s[i] : i \in DOMAIN s} = {u} \union {rest[i] : i \in DOMAIN rest} /\ u \in Upload /\ rest \in Seq(Upload)
    BY <1>1, FirstOfMany
  <2>2. Left(w) = {s[i] : i \in DOMAIN s}
    BY <1>1, Zenon DEF Left
  <2> QED BY <2>1, <2>2
<1>3. /\ blobs' = blobs \ {u} /\ requests' = requests
      /\ UNCHANGED <<upload, attachment, owners, faults, spoiled>>
      /\ txn' = [txn EXCEPT ![w] = IF rest = <<>> THEN Idle ELSE Removing(rest)]
  BY <1>1 DEF RemoveBlob, GoOn, End, Rows, Unharmed
<1> HIDE DEF u, rest
<1>4. PICK t \in Txn \union {Idle} : t = IF rest = <<>> THEN Idle ELSE Removing(rest)
  BY <1>2, RemovingIsTxn
<1>5. t # Idle => /\ t \in Txn /\ t.op = "remove" /\ t.step = "remove" /\ t.todo = rest /\ t.made = {}
                  /\ t.locks = {} /\ t.shares = {} /\ Shaped(t)
  BY <1>2, <1>4, RemovingIsTxn
<1>6. t = Idle => rest = <<>>
  BY <1>2, <1>4, RemovingIsTxn
<1>7. txn' = [txn EXCEPT ![w] = t]
  BY <1>3, <1>4
<1>8. Typed /\ TypeOK
  BY DEF IndInv, Typed
<1>9. Typed'
  BY <1>3, <1>7, <1>8, TypedStep DEF TypeOK
<1>10. ASSUME NEW v \in Worker \ {w}, txn[v] # Idle, txn[v].step = "insert" PROVE Head(txn[v].todo) \notin Left(w)
  BY <1>0, <1>10 DEF IndInv, Apart, OneHand, Moving
<1>11. ASSUME NEW v \in Worker \ {w}, txn[v] # Idle PROVE Kept(v)
  <2>1. txn[v].step = "insert" => upload'[Head(txn[v].todo)] = "none" /\ Head(txn[v].todo) \in blobs'
    BY <1>2, <1>3, <1>10, <1>11, InHand
  <2>2. txn[v].op = "create" => txn[v].into \notin owners'
    BY <1>3, <1>11, InHand DEF Assigning, Attaching
  <2>3. ASSUME txn[v].step = "remove", NEW i \in DOMAIN txn[v].todo
        PROVE  \/ txn[v].todo[i] \in spoiled'
               \/ upload'[txn[v].todo[i]] \notin {"open", "expired"} /\ attachment'[txn[v].todo[i]] \notin Attached
    BY <1>3, <1>11, <2>3, InHand DEF Handling
  <2> QED BY <1>3, <2>1, <2>2, <2>3 DEF Kept
<1>12. ASSUME NEW x \in Left(w) PROVE x \in spoiled \/ (upload[x] \notin {"open", "expired"} /\ attachment[x] \notin Attached)
  <2>1. PICK i \in DOMAIN txn[w].todo : x = txn[w].todo[i]
    BY DEF Left
  <2>2. Handling(txn[w])
    BY <1>0, InHand
  <2> QED BY <1>0, <2>1, <2>2 DEF Handling
<1>13. t # Idle => Holding(t)'
  <2>1. ASSUME t # Idle PROVE Handling(t)'
    <3>1. \A i \in DOMAIN t.todo : t.todo[i] \in Left(w)
      BY <1>2, <1>5, <2>1
    <3> QED BY <1>3, <1>5, <1>12, <2>1, <3>1 DEF Handling
  <2>2. t # Idle => Shaped(t)'
    BY <1>5 DEF Shaped
  <2> QED BY <1>5, <2>1, <2>2 DEF Holding, Assigning, Writing, Locking, Attaching
<1>14. ASSUME t # Idle, NEW v \in Worker \ {w}, txn[v] # Idle
       PROVE  /\ t.step \in Moving /\ txn[v].step = "insert" => Head(txn[v].todo) \notin {t.todo[i] : i \in DOMAIN t.todo}
              /\ t.step = "insert" /\ txn[v].step \in Moving => Head(t.todo) \notin Left(v)
  <2>1. {t.todo[i] : i \in DOMAIN t.todo} \subseteq Left(w)
    BY <1>2, <1>5, <1>14
  <2> QED BY <1>5, <1>10, <1>14, <2>1
<1>15. RequestsHold' /\ Apart'
  BY <1>5, <1>7, <1>9, <1>11, <1>13, <1>14, WriteKeeps
<1>16. RowsHaveTheirFile' /\ AttachedAreConsumed'
  BY <1>2, <1>3, <1>12 DEF IndInv, FilesInv, RowsHaveTheirFile, AttachedAreConsumed
<1>17. OrphansComeFromFaults'
  <2>1. ASSUME NEW x \in Upload, x # u, Underway(x) PROVE Underway(x)'
    <3>1. CASE x \in Left(w)
      <4>1. x \in {rest[i] : i \in DOMAIN rest} /\ rest # <<>>
        <5>1. DOMAIN <<>> = {}
          OBVIOUS
        <5> QED BY <1>2, <2>1, <3>1, <5>1
      <4>2. t # Idle
        BY <1>2, <1>4, <4>1, RemovingIsTxn
      <4> QED BY <1>5, <1>7, <1>8, <4>1, <4>2, NowUnderway DEF Moving
    <3>2. CASE x \notin Left(w)
      BY <1>7, <1>8, <2>1, <3>2, UnderwayStays
    <3> QED BY <3>1, <3>2
  <2> QED BY <1>3, <1>9, <2>1, OrphansStay
<1> QED BY <1>9, <1>15, <1>16, <1>17 DEF IndInv, FilesInv

LEMMA FailRemoveKeeps ==
    ASSUME IndInv, NEW w \in Worker, FailRemove(w)
    PROVE  IndInv'
<1>1. /\ txn[w] # Idle /\ txn[w].step = "remove" /\ txn' = [txn EXCEPT ![w] = Idle] /\ requests' = requests
      /\ faults < MaxFaults /\ faults' = faults + 1 /\ spoiled' = spoiled \union Left(w)
      /\ UNCHANGED <<blobs, upload, attachment, owners>>
  BY DEF FailRemove, At, End, GoOn
<1>2. Typed /\ TypeOK
  BY DEF IndInv, Typed
<1>3. Left(w) \subseteq Upload
  BY <1>1, Serving DEF Left
<1>4. Typed'
  <2>1. faults' \in 0 .. MaxFaults
    BY <1>1, <1>2, BoundsAssumption DEF TypeOK
  <2> QED BY <1>1, <1>2, <1>3, <2>1, TypedStep DEF TypeOK
<1>5. ASSUME NEW v \in Worker \ {w}, txn[v] # Idle PROVE Kept(v)
  <2>1. ASSUME txn[v].step = "remove", NEW i \in DOMAIN txn[v].todo
        PROVE  \/ txn[v].todo[i] \in spoiled'
               \/ upload'[txn[v].todo[i]] \notin {"open", "expired"} /\ attachment'[txn[v].todo[i]] \notin Attached
    BY <1>1, <1>5, <2>1, InHand DEF Handling
  <2>2. /\ txn[v].step = "insert" => upload'[Head(txn[v].todo)] = "none" /\ Head(txn[v].todo) \in blobs'
        /\ txn[v].op = "create" => txn[v].into \notin owners'
    BY <1>1, <1>5, InHand DEF Assigning, Attaching
  <2> QED BY <1>1, <2>1, <2>2 DEF Kept
<1>6. RequestsHold' /\ Apart'
  BY <1>1, <1>4, <1>5, WriteKeeps
<1>7. RowsHaveTheirFile' /\ AttachedAreConsumed'
  BY <1>1 DEF IndInv, FilesInv, RowsHaveTheirFile, AttachedAreConsumed
<1>8. OrphansComeFromFaults'
  <2>1. ASSUME NEW x \in Upload, x \notin Left(w), Underway(x) PROVE Underway(x)'
    BY <1>1, <1>2, <2>1, UnderwayStays
  <2> QED BY <1>1, <1>4, <2>1, OrphansStay
<1> QED BY <1>4, <1>6, <1>7, <1>8 DEF IndInv, FilesInv

LEMMA CrashKeeps ==
    ASSUME IndInv, Crash
    PROVE  IndInv'
<1> DEFINE lost == UNION {Left(w) : w \in {v \in Worker : txn[v] # Idle /\ txn[v].step \in {"insert", "remove"}}}
<1>1. /\ txn' = [w \in Worker |-> Idle] /\ faults < MaxFaults /\ faults' = faults + 1
      /\ spoiled' = spoiled \union lost /\ UNCHANGED <<blobs, upload, attachment, owners, requests>>
  BY DEF Crash
<1>2. Typed /\ TypeOK
  BY DEF IndInv, Typed
<1>3. lost \subseteq Upload
  <2>1. ASSUME NEW v \in Worker, txn[v] # Idle PROVE Left(v) \subseteq Upload
    BY <2>1, Serving DEF Left
  <2> QED BY <2>1
<1>4. \A u \in Upload : Underway(u) => u \in lost
  BY DEF Underway
<1> HIDE DEF lost
<1>5. Typed'
  <2>1. faults' \in 0 .. MaxFaults
    BY <1>1, <1>2, BoundsAssumption DEF TypeOK
  <2> QED BY <1>1, <1>2, <1>3, <2>1 DEF Typed, TypeOK
<1>6. \A w \in Worker : txn'[w] = Idle
  BY <1>1
<1>7. RequestsHold' /\ Apart'
  <2>1. RequestsHold'
    BY <1>6, IdleIsNoTxn DEF RequestsHold
  <2>2. Exclusive'
    BY <1>6 DEF Exclusive, Locks, Shares
  <2> QED BY <1>6, <2>1, <2>2 DEF Apart, OneHand, OneCreate
<1>8. RowsHaveTheirFile' /\ AttachedAreConsumed'
  BY <1>1 DEF IndInv, FilesInv, RowsHaveTheirFile, AttachedAreConsumed
<1>9. OrphansComeFromFaults'
  BY <1>1, <1>4, <1>5, OrphansStay
<1> QED BY <1>5, <1>7, <1>8, <1>9 DEF IndInv, FilesInv

-----------------------------------------------------------------------------
(* Writes and commits *)

(* us are the files whose rows are gone with this commit, if any. *)
LEMMA CommitKeeps ==
    ASSUME IndInv, NEW w \in Worker, txn[w] # Idle, txn[w].step = "write",
           NEW us \in SUBSET Upload, CommitRemoving(w, us),
           UNCHANGED <<blobs, faults, spoiled>>, owners' \subseteq Owner,
           upload' \in [Upload -> {"none", "open", "expired", "consumed", "deleted"}],
           attachment' \in [Upload -> Attached \union {Unmade, Gone}],
           \A u \in us : upload'[u] \notin {"open", "expired"} /\ attachment'[u] \notin Attached,
           \A u \in Upload \ us :
               upload[u] \in {"open", "expired"} \/ attachment[u] \in Attached =>
                   upload'[u] \in {"open", "expired"} \/ attachment'[u] \in Attached,
           \A v \in Worker \ {w} : txn[v] # Idle =>
               Kept(v) /\ (txn[v].step = "insert" => Head(txn[v].todo) \notin us)
    PROVE  Typed' /\ RequestsHold' /\ Apart' /\ OrphansComeFromFaults'
<1>1. PICK t \in Txn \union {Idle} :
          /\ txn' = [txn EXCEPT ![w] = t] /\ requests' = requests
          /\ us # {} => t # Idle
          /\ t # Idle => /\ Shaped(t) /\ t.op = "remove" /\ t.step = "remove"
                         /\ t.locks = {} /\ t.shares = {} /\ t.made = {}
                         /\ {t.todo[i] : i \in DOMAIN t.todo} = us
  BY Removal
<1>2. Typed /\ TypeOK
  BY DEF IndInv, Typed
<1>3. Typed'
  BY <1>1, <1>2, TypedStep DEF TypeOK
<1>4. t # Idle => Holding(t)'
  <2>1. ASSUME t # Idle PROVE Handling(t)'
    <3>1. \A i \in DOMAIN t.todo : t.todo[i] \in us
      BY <1>1, <2>1
    <3> QED BY <1>1, <2>1, <3>1 DEF Handling
  <2>2. t # Idle => Shaped(t)'
    BY <1>1 DEF Shaped
  <2> QED BY <1>1, <2>1, <2>2 DEF Holding, Assigning, Writing, Locking, Attaching
<1>5. ASSUME t # Idle, NEW v \in Worker \ {w}, txn[v] # Idle
      PROVE  /\ t.step \in Moving /\ txn[v].step = "insert" => Head(txn[v].todo) \notin {t.todo[i] : i \in DOMAIN t.todo}
             /\ t.step = "insert" /\ txn[v].step \in Moving => Head(t.todo) \notin Left(v)
  <2>1. {t.todo[i] : i \in DOMAIN t.todo} = us /\ t.step = "remove"
    BY <1>1, <1>5
  <2> QED BY <1>5, <2>1
<1>6. RequestsHold' /\ Apart'
  BY <1>1, <1>3, <1>4, <1>5, WriteKeeps
<1>7. OrphansComeFromFaults'
  <2>1. ASSUME NEW x \in Upload, Underway(x) PROVE Underway(x)'
    BY <1>1, <1>2, <2>1, UnderwayStays DEF Moving
  <2>2. ASSUME NEW x \in us PROVE Underway(x)'
    <3>1. t \in Txn /\ t.step \in Moving /\ x \in {t.todo[i] : i \in DOMAIN t.todo}
      BY <1>1, <2>2 DEF Moving
    <3> QED BY <1>1, <1>2, <3>1, NowUnderway
  <2> QED BY <1>3, <2>1, <2>2, OrphansStay
<1> QED BY <1>3, <1>6, <1>7

(* The facts a last statement starts from. *)
LEMMA AtWrite ==
    ASSUME IndInv, NEW w \in Worker, NEW ops, InOp(w, ops, "write")
    PROVE  /\ txn[w] # Idle /\ txn[w].step = "write" /\ txn[w].op \in ops /\ txn[w] \in Txn
           /\ Holding(txn[w]) /\ Locks(w) = txn[w].locks /\ Shares(w) = txn[w].shares
           /\ txn[w].on \subseteq Owner /\ txn[w].into \in Owner /\ txn[w].made \subseteq Upload
           /\ Blockers(w) = {}
           /\ txn[w].op \in {"upload", "delete_upload", "patch", "delete_attachment"} =>
                 txn[w].todo # <<>> /\ Head(txn[w].todo) \in Upload
<1>1. txn[w] # Idle /\ txn[w].step = "write" /\ txn[w].op \in ops /\ Blockers(w) = {}
  BY DEF InOp, At
<1> QED BY <1>1, Serving, HeadInHand DEF Holding, Shaped

(* The locks of w exclude those of v. *)
LEMMA LocksExclude ==
    ASSUME IndInv, NEW w \in Worker, NEW v \in Worker \ {w}, txn[w] # Idle, txn[v] # Idle
    PROVE  /\ txn[w].locks \intersect (txn[v].locks \union txn[v].shares) = {}
           /\ txn[w].shares \intersect txn[v].locks = {}
<1>1. /\ Locks(w) \intersect (Locks(v) \union Shares(v)) = {}
      /\ Locks(v) \intersect (Locks(w) \union Shares(w)) = {}
  BY DEF IndInv, Apart, Exclusive
<1> QED BY <1>1, Serving

LEMMA DeleteUploadKeeps ==
    ASSUME IndInv, NEW w \in Worker, DeleteUpload(w)
    PROVE  IndInv'
<1>1. /\ txn[w] # Idle /\ txn[w].step = "write" /\ txn[w].op = "delete_upload" /\ Head(txn[w].todo) \in Upload
      /\ Writing(txn[w])
  BY AtWrite DEF DeleteUpload, Holding
<1>2. PICK u \in Upload : u = Head(txn[w].todo)
  BY <1>1
<1>3. /\ upload' = [upload EXCEPT ![u] = "deleted"] /\ CommitRemoving(w, {u})
      /\ UNCHANGED <<blobs, attachment, owners, faults, spoiled>>
  BY <1>2 DEF DeleteUpload, Unharmed
<1>4. UploadLock(u) \in txn[w].locks /\ upload[u] \in {"open", "expired"}
  BY <1>1, <1>2 DEF Writing, Deletable
<1>5. attachment[u] = Unmade
  BY <1>4 DEF IndInv, FilesInv, AttachedAreConsumed
<1>6. TypeOK
  BY DEF IndInv, Typed
<1>7. /\ upload' \in [Upload -> {"none", "open", "expired", "consumed", "deleted"}]
      /\ upload'[u] = "deleted" /\ \A x \in Upload \ {u} : upload'[x] = upload[x]
  BY <1>3, <1>6 DEF TypeOK
<1>8. ASSUME NEW v \in Worker \ {w}, txn[v] # Idle
      PROVE  Kept(v) /\ (txn[v].step = "insert" => Head(txn[v].todo) \notin {u})
  <2>1. \A x \in Upload : UploadLock(x) \in txn[v].locks => upload'[x] = upload[x]
    BY <1>1, <1>4, <1>7, <1>8, LocksExclude
  <2>2. txn[v].step = "insert" =>
            Head(txn[v].todo) # u /\ upload'[Head(txn[v].todo)] = "none" /\ Head(txn[v].todo) \in blobs'
    BY <1>3, <1>4, <1>7, <1>8, InHand DEF Moving
  <2>3. ASSUME txn[v].step = "remove", NEW i \in DOMAIN txn[v].todo
        PROVE  \/ txn[v].todo[i] \in spoiled'
               \/ upload'[txn[v].todo[i]] \notin {"open", "expired"} /\ attachment'[txn[v].todo[i]] \notin Attached
    BY <1>3, <1>7, <1>8, <2>3, InHand DEF Handling
  <2>4. txn[v].op = "create" => txn[v].into \notin owners'
    BY <1>3, <1>8, InHand DEF Assigning, Attaching
  <2> QED BY <1>3, <2>1, <2>2, <2>3, <2>4 DEF Kept
<1>9. Typed' /\ RequestsHold' /\ Apart' /\ OrphansComeFromFaults'
  BY <1>1, <1>3, <1>5, <1>6, <1>7, <1>8, CommitKeeps, NotAttached DEF TypeOK
<1>10. RowsHaveTheirFile' /\ AttachedAreConsumed'
  BY <1>3, <1>5, <1>7, NotAttached
     DEF IndInv, FilesInv, RowsHaveTheirFile, AttachedAreConsumed
<1> QED BY <1>9, <1>10 DEF IndInv, FilesInv

LEMMA CommitAssignKeeps ==
    ASSUME IndInv, NEW w \in Worker, CommitAssign(w)
    PROVE  IndInv'
<1>1. /\ txn[w] # Idle /\ txn[w].step = "write" /\ txn[w].op \in Attaching /\ txn[w] \in Txn
      /\ txn[w].made \subseteq Upload /\ txn[w].into \in Owner /\ Assigning(txn[w])
  BY AtWrite DEF CommitAssign, Holding, Attaching
<1>2. PICK t \in Txn : t = txn[w]
  BY <1>1
<1> DEFINE row == [owner |-> t.into, name |-> "file", public |-> FALSE]
<1>3. /\ upload' = [u \in Upload |-> IF u \in t.made THEN "consumed" ELSE upload[u]]
      /\ attachment' = [u \in Upload |-> IF u \in t.made THEN row ELSE attachment[u]]
      /\ owners' = owners \union {t.into} /\ CommitRemoving(w, {})
      /\ UNCHANGED <<blobs, faults, spoiled>>
  BY <1>2 DEF CommitAssign, CommitRemoving, Unharmed
<1>4. \A u \in t.made : UploadLock(u) \in t.locks /\ upload[u] = "open" /\ attachment[u] = Unmade
  BY <1>1, <1>2 DEF Assigning, Attaching, IndInv, FilesInv, AttachedAreConsumed
<1>5. TypeOK
  BY DEF IndInv, Typed
<1>6. row \in Attached /\ row.owner = t.into
  BY <1>1, <1>2 DEF Attached
<1> HIDE DEF row
<1>7. /\ upload' \in [Upload -> {"none", "open", "expired", "consumed", "deleted"}]
      /\ attachment' \in [Upload -> Attached \union {Unmade, Gone}]
      /\ owners' \subseteq Owner
      /\ \A u \in t.made : upload'[u] = "consumed" /\ attachment'[u] = row
      /\ \A u \in Upload \ t.made : upload'[u] = upload[u] /\ attachment'[u] = attachment[u]
  BY <1>1, <1>2, <1>3, <1>5, <1>6 DEF TypeOK
<1>8. ASSUME NEW v \in Worker \ {w}, txn[v] # Idle PROVE Kept(v)
  <2>1. \A u \in Upload : UploadLock(u) \in txn[v].locks => upload'[u] = upload[u]
    BY <1>1, <1>2, <1>4, <1>7, <1>8, LocksExclude
  <2>2. txn[v].step = "insert" => upload'[Head(txn[v].todo)] = "none" /\ Head(txn[v].todo) \in blobs'
    BY <1>3, <1>4, <1>7, <1>8, InHand DEF Moving
  <2>3. ASSUME txn[v].step = "remove", NEW i \in DOMAIN txn[v].todo
        PROVE  \/ txn[v].todo[i] \in spoiled'
               \/ upload'[txn[v].todo[i]] \notin {"open", "expired"} /\ attachment'[txn[v].todo[i]] \notin Attached
    BY <1>3, <1>4, <1>7, <1>8, <2>3, InHand DEF Handling
  <2>4. ASSUME txn[v].op = "create" PROVE txn[v].into \notin owners'
    <3>1. txn[v].into \notin owners
      BY <1>8, <2>4, InHand DEF Assigning, Attaching
    <3>2. txn[v].into # t.into
      <4>1. CASE t.op = "create"
        BY <1>1, <1>2, <1>8, <2>4, <4>1 DEF IndInv, Apart, OneCreate
      <4>2. CASE t.op = "assign"
        BY <1>1, <1>2, <3>1, <4>2 DEF Assigning, Attaching
      <4> QED BY <1>1, <1>2, <4>1, <4>2 DEF Attaching
    <3> QED BY <1>3, <3>1, <3>2
  <2>5. ASSUME txn[v].step = "write", txn[v].op \in {"patch", "delete_attachment"}
        PROVE  attachment'[Head(txn[v].todo)] = attachment[Head(txn[v].todo)]
    <3>1. attachment[Head(txn[v].todo)] \in Attached
      BY <1>8, <2>5, InHand DEF Writing
    <3>2. Head(txn[v].todo) \in Upload
      BY <1>8, <2>5, Serving, HeadInHand DEF Holding, Shaped
    <3> QED BY <1>4, <1>7, <3>1, <3>2, NotAttached
  <2> QED BY <1>3, <2>1, <2>2, <2>3, <2>4, <2>5 DEF Kept
<1>9. Typed' /\ RequestsHold' /\ Apart' /\ OrphansComeFromFaults'
  BY <1>1, <1>3, <1>6, <1>7, <1>8, CommitKeeps
<1>10. RowsHaveTheirFile'
  BY <1>3, <1>4, <1>7 DEF IndInv, FilesInv, RowsHaveTheirFile
<1>11. AttachedAreConsumed'
  BY <1>7 DEF IndInv, FilesInv, AttachedAreConsumed
<1> QED BY <1>9, <1>10, <1>11 DEF IndInv, FilesInv

(* Statements on one attachment: its lock keeps the other one out. *)
LEMMA OneAttachment ==
    ASSUME IndInv, NEW w \in Worker, txn[w] # Idle, txn[w].step = "write",
           txn[w].op \in {"patch", "delete_attachment"}, NEW u \in Upload, u = Head(txn[w].todo),
           \A x \in Upload \ {u} : attachment'[x] = attachment[x], attachment'[u] # Unmade,
           UNCHANGED <<blobs, upload, owners, faults, spoiled>>
    PROVE  /\ attachment[u] \in Attached /\ upload[u] = "consumed" /\ txn[w].read = attachment[u]
           /\ \A v \in Worker \ {w} : txn[v] # Idle =>
                 Kept(v) /\ (txn[v].step = "insert" => Head(txn[v].todo) # u)
<1>1. attachment[u] \in Attached /\ AttachmentLock(u) \in txn[w].locks /\ txn[w].read = attachment[u]
  BY InHand DEF Writing
<1>2. upload[u] = "consumed"
  BY <1>1, NotAttached DEF IndInv, FilesInv, AttachedAreConsumed
<1>3. ASSUME NEW v \in Worker \ {w}, txn[v] # Idle
      PROVE  Kept(v) /\ (txn[v].step = "insert" => Head(txn[v].todo) # u)
  <2>1. txn[v].step = "insert" =>
            Head(txn[v].todo) # u /\ upload'[Head(txn[v].todo)] = "none" /\ Head(txn[v].todo) \in blobs'
    BY <1>2, <1>3, InHand DEF Moving
  <2>2. ASSUME txn[v].step = "remove", NEW i \in DOMAIN txn[v].todo
        PROVE  \/ txn[v].todo[i] \in spoiled'
               \/ upload'[txn[v].todo[i]] \notin {"open", "expired"} /\ attachment'[txn[v].todo[i]] \notin Attached
    BY <1>1, <1>3, <2>2, InHand DEF Handling
  <2>3. txn[v].op = "create" => txn[v].into \notin owners'
    BY <1>3, InHand DEF Assigning, Attaching
  <2>4. ASSUME txn[v].step = "write", txn[v].op \in {"patch", "delete_attachment"}
        PROVE  attachment'[Head(txn[v].todo)] = attachment[Head(txn[v].todo)]
    <3>1. AttachmentLock(Head(txn[v].todo)) \in txn[v].locks
      BY <1>3, <2>4, InHand DEF Writing
    <3>2. Head(txn[v].todo) # u
      BY <1>1, <1>3, <3>1, LocksExclude
    <3>3. Head(txn[v].todo) \in Upload
      BY <1>3, <2>4, Serving, HeadInHand DEF Holding, Shaped
    <3> QED BY <3>2, <3>3
  <2> QED BY <2>1, <2>2, <2>3, <2>4 DEF Kept
<1> QED BY <1>1, <1>2, <1>3

LEMMA PatchAttachmentKeeps ==
    ASSUME IndInv, NEW w \in Worker, PatchAttachment(w)
    PROVE  IndInv'
<1>1. /\ txn[w] # Idle /\ txn[w].step = "write" /\ txn[w].op = "patch" /\ Head(txn[w].todo) \in Upload
      /\ Writing(txn[w])
  BY AtWrite DEF PatchAttachment, Holding
<1>2. PICK u \in Upload : u = Head(txn[w].todo)
  BY <1>1
<1>3. PICK name \in {"patched", txn[w].read.name}, public \in {~txn[w].read.public, txn[w].read.public} :
          attachment' = [attachment EXCEPT ![u].name = name, ![u].public = public]
  BY <1>2 DEF PatchAttachment
<1>4. CommitRemoving(w, {}) /\ UNCHANGED <<blobs, upload, owners, faults, spoiled>>
  BY DEF PatchAttachment, CommitRemoving, Unharmed
<1>5. TypeOK
  BY DEF IndInv, Typed
<1>6. txn[w].read = attachment[u] /\ attachment[u] \in Attached
  BY <1>1, <1>2 DEF Writing
<1>7. /\ attachment'[u] \in Attached /\ attachment'[u].owner = attachment[u].owner
      /\ \A x \in Upload \ {u} : attachment'[x] = attachment[x]
      /\ attachment' \in [Upload -> Attached \union {Unmade, Gone}]
  <2> DEFINE row == [[attachment[u] EXCEPT !.name = name] EXCEPT !.public = public]
  <2>1. name \in {"file", "patched"} /\ public \in BOOLEAN
    BY <1>3, <1>6, AttachedRows
  <2>2. row \in Attached /\ row.owner = attachment[u].owner
    BY <1>6, <2>1 DEF Attached
  <2>3. attachment' = [attachment EXCEPT ![u] = row]
    BY <1>3, <1>5 DEF TypeOK
  <2> HIDE DEF row
  <2> QED BY <1>5, <2>2, <2>3 DEF TypeOK
<1>8. attachment'[u] # Unmade
  BY <1>7, NotAttached
<1>9. /\ upload[u] = "consumed"
      /\ \A v \in Worker \ {w} : txn[v] # Idle => Kept(v) /\ (txn[v].step = "insert" => Head(txn[v].todo) # u)
  BY <1>1, <1>2, <1>4, <1>7, <1>8, OneAttachment
<1>10. Typed' /\ RequestsHold' /\ Apart' /\ OrphansComeFromFaults'
  <2>1. \A x \in Upload : attachment[x] \in Attached => attachment'[x] \in Attached
    BY <1>7
  <2> QED BY <1>1, <1>4, <1>5, <1>7, <1>9, <2>1, CommitKeeps DEF TypeOK
<1>11. RowsHaveTheirFile' /\ AttachedAreConsumed'
  BY <1>4, <1>6, <1>7, <1>9 DEF IndInv, FilesInv, RowsHaveTheirFile, AttachedAreConsumed
<1> QED BY <1>10, <1>11 DEF IndInv, FilesInv

LEMMA DeleteAttachmentKeeps ==
    ASSUME IndInv, NEW w \in Worker, DeleteAttachment(w)
    PROVE  IndInv'
<1>1. /\ txn[w] # Idle /\ txn[w].step = "write" /\ txn[w].op = "delete_attachment" /\ Head(txn[w].todo) \in Upload
  BY AtWrite DEF DeleteAttachment, Holding
<1>2. PICK u \in Upload : u = Head(txn[w].todo)
  BY <1>1
<1>3. /\ attachment' = [attachment EXCEPT ![u] = Gone] /\ CommitRemoving(w, {u})
      /\ UNCHANGED <<blobs, upload, owners, faults, spoiled>>
  BY <1>2 DEF DeleteAttachment, Unharmed
<1>4. TypeOK
  BY DEF IndInv, Typed
<1>5. /\ attachment'[u] = Gone /\ \A x \in Upload \ {u} : attachment'[x] = attachment[x]
      /\ attachment' \in [Upload -> Attached \union {Unmade, Gone}]
  BY <1>3, <1>4 DEF TypeOK
<1>6. /\ upload[u] = "consumed"
      /\ \A v \in Worker \ {w} : txn[v] # Idle => Kept(v) /\ (txn[v].step = "insert" => Head(txn[v].todo) # u)
  <2>1. attachment'[u] # Unmade
    BY <1>5, NotAttached
  <2> QED BY <1>1, <1>2, <1>3, <1>5, <2>1, OneAttachment
<1>7. Typed' /\ RequestsHold' /\ Apart' /\ OrphansComeFromFaults'
  <2>1. /\ attachment'[u] \notin Attached /\ upload'[u] \notin {"open", "expired"}
        /\ \A x \in Upload \ {u} : attachment'[x] = attachment[x] /\ upload'[x] = upload[x]
        /\ owners' \subseteq Owner
        /\ upload' \in [Upload -> {"none", "open", "expired", "consumed", "deleted"}]
    BY <1>3, <1>4, <1>5, <1>6, NotAttached DEF TypeOK
  <2> QED BY <1>1, <1>3, <1>5, <1>6, <2>1, CommitKeeps
<1>8. RowsHaveTheirFile' /\ AttachedAreConsumed'
  BY <1>3, <1>5, <1>6, NotAttached
     DEF IndInv, FilesInv, RowsHaveTheirFile, AttachedAreConsumed
<1> QED BY <1>7, <1>8 DEF IndInv, FilesInv

(* Statements on the owners: what hangs on them is locked, or would be waited *)
(* for, and no share of an owner is out.                                      *)
LEMMA OwnersAndTheirs ==
    ASSUME IndInv, NEW w \in Worker, txn[w] # Idle, txn[w].step = "write", Blockers(w) = {},
           txn[w].op \in {"delete_owner", "merge"},
           \A x \in Upload \ AttachedTo(txn[w].on) : attachment'[x] = attachment[x],
           \A x \in AttachedTo(txn[w].on) : attachment'[x] # Unmade,
           owners' = owners \ txn[w].on, UNCHANGED <<blobs, upload, faults, spoiled>>
    PROVE  /\ \A x \in AttachedTo(txn[w].on) : upload[x] = "consumed"
           /\ \A v \in Worker \ {w} : txn[v] # Idle =>
                 Kept(v) /\ (txn[v].step = "insert" => Head(txn[v].todo) \notin AttachedTo(txn[w].on))
<1>1. \A o \in txn[w].on : OwnerLock(o) \in txn[w].locks
  BY InHand DEF Writing
<1>2. \A x \in AttachedTo(txn[w].on) : x \in Upload /\ attachment[x] \in Attached /\ upload[x] = "consumed"
  BY NotAttached DEF AttachedTo, IndInv, FilesInv, AttachedAreConsumed
<1>3. Wanted(w) = {AttachmentLock(x) : x \in AttachedTo(txn[w].on)}
  BY DEF Wanted
<1>4. ASSUME NEW v \in Worker \ {w}, txn[v] # Idle
      PROVE  Kept(v) /\ (txn[v].step = "insert" => Head(txn[v].todo) \notin AttachedTo(txn[w].on))
  <2>1. txn[v].step = "insert" =>
            /\ Head(txn[v].todo) \notin AttachedTo(txn[w].on)
            /\ upload'[Head(txn[v].todo)] = "none" /\ Head(txn[v].todo) \in blobs'
    BY <1>2, <1>4, InHand DEF Moving
  <2>2. ASSUME txn[v].step = "remove", NEW i \in DOMAIN txn[v].todo
        PROVE  \/ txn[v].todo[i] \in spoiled'
               \/ upload'[txn[v].todo[i]] \notin {"open", "expired"} /\ attachment'[txn[v].todo[i]] \notin Attached
    BY <1>2, <1>4, <2>2, InHand DEF Handling
  <2>3. txn[v].op = "create" => txn[v].into \notin owners'
    BY <1>4, InHand DEF Assigning, Attaching
  <2>4. ASSUME txn[v].step = "write", txn[v].op \in {"patch", "delete_attachment"}
        PROVE  attachment'[Head(txn[v].todo)] = attachment[Head(txn[v].todo)]
    <3>1. AttachmentLock(Head(txn[v].todo)) \in Locks(v)
      BY <1>4, <2>4, InHand, Serving DEF Writing
    <3>2. Head(txn[v].todo) \notin AttachedTo(txn[w].on)
      <4>1. ASSUME Head(txn[v].todo) \in AttachedTo(txn[w].on) PROVE FALSE
        <5>1. AttachmentLock(Head(txn[v].todo)) \in Wanted(w)
          BY <1>3, <4>1
        <5> QED BY <3>1, <5>1, Granted
      <4> QED BY <4>1
    <3>3. Head(txn[v].todo) \in Upload
      BY <1>4, <2>4, Serving, HeadInHand DEF Holding, Shaped
    <3> QED BY <3>2, <3>3
  <2>5. ASSUME NEW o \in Owner, OwnerLock(o) \in txn[v].locks \union txn[v].shares, o \in owners
        PROVE  o \in owners'
    BY <1>1, <1>4, <2>5, LocksExclude
  <2> QED BY <2>1, <2>2, <2>3, <2>4, <2>5 DEF Kept
<1> QED BY <1>2, <1>4

LEMMA DeleteOwnerKeeps ==
    ASSUME IndInv, NEW w \in Worker, DeleteOwner(w)
    PROVE  IndInv'
<1>1. /\ txn[w] # Idle /\ txn[w].step = "write" /\ txn[w].op = "delete_owner" /\ Blockers(w) = {}
      /\ txn[w].on \subseteq Owner
  BY AtWrite DEF DeleteOwner
<1>2. PICK on \in SUBSET Owner, dropped \in SUBSET Upload : on = txn[w].on /\ dropped = AttachedTo(txn[w].on)
  BY <1>1 DEF AttachedTo
<1>3. /\ attachment' = [u \in Upload |-> IF u \in dropped THEN Gone ELSE attachment[u]]
      /\ owners' = owners \ on /\ CommitRemoving(w, dropped)
      /\ UNCHANGED <<blobs, upload, faults, spoiled>>
  BY <1>2 DEF DeleteOwner, Unharmed
<1>4. TypeOK
  BY DEF IndInv, Typed
<1>5. /\ \A x \in dropped : attachment'[x] = Gone
      /\ \A x \in Upload \ dropped : attachment'[x] = attachment[x]
      /\ attachment' \in [Upload -> Attached \union {Unmade, Gone}]
  BY <1>3, <1>4 DEF TypeOK
<1>6. /\ \A x \in dropped : upload[x] = "consumed"
      /\ \A v \in Worker \ {w} : txn[v] # Idle => Kept(v) /\ (txn[v].step = "insert" => Head(txn[v].todo) \notin dropped)
  BY <1>1, <1>2, <1>3, <1>5, OwnersAndTheirs, NotAttached
<1>7. Typed' /\ RequestsHold' /\ Apart' /\ OrphansComeFromFaults'
  <2>1. /\ \A x \in dropped : attachment'[x] \notin Attached /\ upload'[x] \notin {"open", "expired"}
        /\ \A x \in Upload \ dropped : attachment'[x] = attachment[x] /\ upload'[x] = upload[x]
        /\ owners' \subseteq Owner
        /\ upload' \in [Upload -> {"none", "open", "expired", "consumed", "deleted"}]
    BY <1>3, <1>4, <1>5, <1>6, NotAttached DEF TypeOK
  <2> QED BY <1>1, <1>3, <1>5, <1>6, <2>1, CommitKeeps
<1>8. RowsHaveTheirFile' /\ AttachedAreConsumed'
  BY <1>3, <1>5, <1>6, NotAttached DEF IndInv, FilesInv, RowsHaveTheirFile, AttachedAreConsumed
<1> QED BY <1>7, <1>8 DEF IndInv, FilesInv

LEMMA MergeMoves ==
    ASSUME IndInv, NEW w \in Worker, Merge(w)
    PROVE  /\ txn[w].into \in owners /\ txn[w].into \notin txn[w].on
           /\ \A x \in Upload \ AttachedTo(txn[w].on) : attachment'[x] = attachment[x]
           /\ \A x \in AttachedTo(txn[w].on) :
                 /\ attachment[x] \in Attached /\ attachment'[x] \in Attached
                 /\ attachment'[x].owner = txn[w].into
                 /\ attachment'[x].name = attachment[x].name /\ attachment'[x].public = attachment[x].public
           /\ attachment' \in [Upload -> Attached \union {Unmade, Gone}]
<1>1. /\ txn[w] # Idle /\ txn[w].step = "write" /\ txn[w].op = "merge" /\ txn[w].into \in Owner
      /\ Holding(txn[w])
  BY AtWrite DEF Merge
<1>2. txn[w].into \in owners /\ txn[w].into \notin txn[w].on
  BY <1>1 DEF Holding, Shaped, Writing, Locking
<1>3. TypeOK
  BY DEF IndInv, Typed
<1>4. ASSUME NEW x \in AttachedTo(txn[w].on)
      PROVE  /\ x \in Upload /\ attachment[x] \in Attached /\ [attachment[x] EXCEPT !.owner = txn[w].into] \in Attached
             /\ [attachment[x] EXCEPT !.owner = txn[w].into].owner = txn[w].into
             /\ [attachment[x] EXCEPT !.owner = txn[w].into].name = attachment[x].name
             /\ [attachment[x] EXCEPT !.owner = txn[w].into].public = attachment[x].public
  BY <1>1 DEF AttachedTo, Attached
<1>5. attachment' = [x \in Upload |->
          IF x \in AttachedTo(txn[w].on) THEN [attachment[x] EXCEPT !.owner = txn[w].into] ELSE attachment[x]]
  BY DEF Merge
<1> QED BY <1>2, <1>3, <1>4, <1>5 DEF TypeOK

LEMMA MergeKeeps ==
    ASSUME IndInv, NEW w \in Worker, Merge(w)
    PROVE  IndInv'
<1>1. /\ txn[w] # Idle /\ txn[w].step = "write" /\ txn[w].op = "merge" /\ Blockers(w) = {}
      /\ txn[w].on \subseteq Owner /\ txn[w].into \in Owner
  BY AtWrite DEF Merge
<1>2. PICK on \in SUBSET Owner, moved \in SUBSET Upload, into \in Owner :
          on = txn[w].on /\ moved = AttachedTo(txn[w].on) /\ into = txn[w].into
  BY <1>1 DEF AttachedTo
<1>3. owners' = owners \ on /\ CommitRemoving(w, {}) /\ UNCHANGED <<blobs, upload, faults, spoiled>>
  BY <1>2 DEF Merge, CommitRemoving, Unharmed
<1>4. /\ into \in owners /\ into \notin on
      /\ \A x \in Upload \ moved : attachment'[x] = attachment[x]
      /\ \A x \in moved : attachment[x] \in Attached /\ attachment'[x] \in Attached /\ attachment'[x].owner = into
      /\ attachment' \in [Upload -> Attached \union {Unmade, Gone}]
  BY <1>2, MergeMoves
<1>5. TypeOK
  BY DEF IndInv, Typed
<1>6. /\ \A x \in moved : upload[x] = "consumed"
      /\ \A v \in Worker \ {w} : txn[v] # Idle => Kept(v) /\ (txn[v].step = "insert" => Head(txn[v].todo) \notin moved)
  BY <1>1, <1>2, <1>3, <1>4, OwnersAndTheirs, NotAttached
<1>7. Typed' /\ RequestsHold' /\ Apart' /\ OrphansComeFromFaults'
  <2>1. /\ \A x \in Upload : attachment[x] \in Attached => attachment'[x] \in Attached
        /\ owners' \subseteq Owner
        /\ upload' \in [Upload -> {"none", "open", "expired", "consumed", "deleted"}]
    BY <1>3, <1>4, <1>5 DEF TypeOK
  <2> QED BY <1>1, <1>3, <1>4, <1>6, <2>1, CommitKeeps
<1>8. RowsHaveTheirFile' /\ AttachedAreConsumed'
  BY <1>3, <1>4, <1>6 DEF IndInv, FilesInv, RowsHaveTheirFile, AttachedAreConsumed
<1> QED BY <1>7, <1>8 DEF IndInv, FilesInv

-----------------------------------------------------------------------------
(* The invariant *)

LEMMA StutterKeeps ==
    ASSUME IndInv, UNCHANGED vars
    PROVE  IndInv'
<1>1. Still /\ UNCHANGED <<txn, requests>>
  BY DEF vars, Still
<1>2. Typed'
  BY <1>1 DEF IndInv, Typed, TypeOK, Still
<1>3. RequestsHold'
  BY <1>1, HoldingIsStill DEF IndInv, RequestsHold
<1>4. Apart'
  BY <1>1 DEF IndInv, Apart, Exclusive, OneHand, OneCreate, Locks, Shares, Left
<1>5. FilesInv'
  BY <1>1, FilesAreStill DEF Underway, Left
<1> QED BY <1>2, <1>3, <1>4, <1>5 DEF IndInv

LEMMA InitIsGood == Init => IndInv
<1> SUFFICES ASSUME Init PROVE IndInv
  OBVIOUS
<1>1. Typed
  BY BoundsAssumption DEF Init, Typed, TypeOK
<1>2. \A w \in Worker : txn[w] = Idle
  BY DEF Init
<1>3. RequestsHold /\ OneHand /\ OneCreate
  BY <1>2, IdleIsNoTxn DEF RequestsHold, OneHand, OneCreate
<1>4. Exclusive
  BY <1>2 DEF Exclusive, Locks
<1>5. FilesInv
  BY NotAttached DEF Init, FilesInv, RowsHaveTheirFile, OrphansComeFromFaults, AttachedAreConsumed
<1> QED BY <1>1, <1>3, <1>4, <1>5 DEF IndInv, Apart

LEMMA NextKeeps ==
    ASSUME IndInv, [Next]_vars
    PROVE  IndInv'
<1>1. ASSUME NEW w \in Worker, Begins(w) PROVE IndInv'
  <2>1. CASE \E u \in Upload : StoreUpload(w, u)
    BY <2>1, StoreUploadKeeps
  <2>2. CASE \A u \in Upload : ~StoreUpload(w, u)
    BY <1>1, <2>2, BeginsKeep
  <2> QED BY <2>1, <2>2
<1>2. ASSUME NEW w \in Worker, Continues(w) PROVE IndInv'
  BY <1>2, InsertUploadKeeps, RemoveBlobKeeps, LockUploadKeeps, DeleteUploadKeeps, ConsumeUploadKeeps,
     InsertAttachmentKeeps, CommitAssignKeeps, LockAttachmentKeeps, PatchAttachmentKeeps, DeleteAttachmentKeeps,
     LockOwnerKeeps, LockItemsKeeps, DeleteOwnerKeeps, MergeKeeps, AbortDeadlockedKeeps DEF Continues
<1>3. ASSUME NEW u \in Upload, Expire(u) PROVE IndInv'
  BY <1>3, ExpireKeeps
<1>4. ASSUME Faults PROVE IndInv'
  BY <1>4, CrashKeeps, FailInsertKeeps, FailRemoveKeeps DEF Faults
<1> QED BY <1>1, <1>2, <1>3, <1>4, StutterKeeps DEF Next

(* Every reachable state: what each request relies on holds at each of its    *)
(* statements, and the four promises about files, rows and owners.            *)
THEOREM Inductive == Spec => []IndInv
  BY InitIsGood, NextKeeps, PTL DEF Spec

(* Every variable stays in its set, and every connection has one transaction  *)
(* at most.                                                                   *)
THEOREM TypeCorrect == Spec => []TypeOK
<1>1. IndInv => TypeOK
  BY DEF IndInv, Typed
<1> QED BY <1>1, Inductive, PTL

(* Uploads that can be attached and attachments have their file on disk: the  *)
(* blob is written before the row and removed after it, by one request.       *)
THEOREM FilesAreThere == Spec => []RowsHaveTheirFile
<1>1. IndInv => RowsHaveTheirFile
  BY DEF IndInv, FilesInv
<1> QED BY <1>1, Inductive, PTL

(* No request leaves a file without a row behind, unless a crash or a failing *)
(* write or removal is to blame: delete_storage_objects gets every key whose  *)
(* row went.                                                                  *)
THEOREM NoFileIsForgotten == Spec => []OrphansComeFromFaults
<1>1. IndInv => OrphansComeFromFaults
  BY DEF IndInv, FilesInv
<1> QED BY <1>1, Inductive, PTL

(* The step of an attachment that was there and is there. *)
SaidToo(u) ==
    attachment[u] \in Attached /\ attachment'[u] \in Attached =>
        \/ attachment'[u].name = attachment[u].name
        \/ attachment'[u].public = attachment[u].public

LEMMA UnchangedSaysSo ==
    ASSUME attachment' = attachment, NEW u \in Upload
    PROVE  SaidToo(u)
  BY DEF SaidToo

LEMMA WritesSaySo ==
    ASSUME IndInv, NEW w \in Worker, NEW u \in Upload,
           CommitAssign(w) \/ PatchAttachment(w) \/ DeleteAttachment(w) \/ DeleteOwner(w) \/ Merge(w)
    PROVE  SaidToo(u)
<1>0. TypeOK
  BY DEF IndInv, Typed
<1>1. CASE CommitAssign(w)
  <2>1. Assigning(txn[w]) /\ txn[w].op \in Attaching
    BY <1>1, AtWrite DEF CommitAssign, Holding, Attaching
  <2>2. u \in txn[w].made => attachment[u] \notin Attached
    BY <2>1, NotAttached DEF Assigning, IndInv, FilesInv, AttachedAreConsumed
  <2>3. u \notin txn[w].made => attachment'[u] = attachment[u]
    BY <1>1 DEF CommitAssign
  <2> QED BY <2>2, <2>3 DEF SaidToo
<1>2. CASE PatchAttachment(w)
  <2>1. /\ txn[w].op = "patch" /\ txn[w].step = "write" /\ Writing(txn[w]) /\ Head(txn[w].todo) \in Upload
        /\ txn[w] \in Txn
    BY <1>2, AtWrite DEF PatchAttachment, Holding
  <2>2. txn[w].read = attachment[Head(txn[w].todo)] /\ attachment[Head(txn[w].todo)] \in Attached
    BY <2>1 DEF Writing
  <2>3. attachment' = [attachment EXCEPT
            ![Head(txn[w].todo)].name = IF txn[w].patch = "name" THEN "patched" ELSE txn[w].read.name,
            ![Head(txn[w].todo)].public = IF txn[w].patch = "public" THEN ~txn[w].read.public ELSE txn[w].read.public]
    BY <1>2 DEF PatchAttachment
  <2>4. CASE u # Head(txn[w].todo)
    <3>1. attachment'[u] = attachment[u]
      BY <1>0, <2>3, <2>4 DEF TypeOK
    <3> QED BY <3>1 DEF SaidToo
  <2>5. CASE u = Head(txn[w].todo) /\ txn[w].patch = "name"
    <3> DEFINE a == attachment[u]
               named == [a EXCEPT !.name = "patched"]
    <3>1. attachment'[u] = [named EXCEPT !.public = a.public]
      BY <1>0, <2>2, <2>3, <2>5 DEF TypeOK
    <3>2. [named EXCEPT !.public = a.public].public = a.public
      BY <2>2, <2>5 DEF Attached
    <3> QED BY <3>1, <3>2 DEF SaidToo
  <2>6. CASE u = Head(txn[w].todo) /\ txn[w].patch = "public"
    <3> DEFINE a == attachment[u]
               named == [a EXCEPT !.name = a.name]
    <3>1. attachment'[u] = [named EXCEPT !.public = ~a.public]
      BY <1>0, <2>2, <2>3, <2>6 DEF TypeOK
    <3>2. [named EXCEPT !.public = ~a.public].name = a.name
      BY <2>2, <2>6 DEF Attached
    <3> QED BY <3>1, <3>2 DEF SaidToo
  <2> QED BY <2>1, <2>4, <2>5, <2>6 DEF Txn
<1>3. CASE DeleteAttachment(w)
  <2>1. attachment' = [attachment EXCEPT ![Head(txn[w].todo)] = Gone]
    BY <1>3 DEF DeleteAttachment
  <2>2. attachment'[u] = attachment[u] \/ attachment'[u] = Gone
    BY <1>0, <2>1 DEF TypeOK
  <2> QED BY <2>2, NotAttached DEF SaidToo
<1>4. CASE DeleteOwner(w)
  <2>1. attachment'[u] = attachment[u] \/ attachment'[u] = Gone
    BY <1>4 DEF DeleteOwner
  <2> QED BY <2>1, NotAttached DEF SaidToo
<1>5. CASE Merge(w)
  BY <1>5, MergeMoves DEF SaidToo
<1> QED BY <1>1, <1>2, <1>3, <1>4, <1>5

LEMMA StepsSaySo ==
    ASSUME IndInv, [Next]_vars, NEW u \in Upload
    PROVE  SaidToo(u)
<1>1. ASSUME NEW w \in Worker, Begins(w) PROVE attachment' = attachment
  BY <1>1 DEF Begins, StoreUpload, BeginDeleteUpload, BeginPatch, BeginDeleteAttachment, BeginAssign,
     BeginDeleteOwner, BeginMerge, Rows
<1>2. ASSUME NEW w \in Worker, Continues(w),
             ~(CommitAssign(w) \/ PatchAttachment(w) \/ DeleteAttachment(w) \/ DeleteOwner(w) \/ Merge(w))
      PROVE  attachment' = attachment
  BY <1>2 DEF Continues, InsertUpload, RemoveBlob, LockUpload, DeleteUpload, ConsumeUpload, InsertAttachment,
     LockAttachment, LockOwner, LockItems, AbortDeadlocked, Refuse, Rows
<1>3. ASSUME Faults \/ (\E x \in Upload : Expire(x)) PROVE attachment' = attachment
  BY <1>3 DEF Faults, Crash, FailInsert, FailRemove, Expire
<1>4. UNCHANGED vars => attachment' = attachment
  BY DEF vars
<1> QED BY <1>1, <1>2, <1>3, <1>4, UnchangedSaysSo, WritesSaySo DEF Next

(* update_attachment writes whole rows, with what it read under the lock for  *)
(* the fields the request leaves out: no overlapping request's change of      *)
(* another field is undone.                                                   *)
THEOREM PatchesSpareTheRest == Spec => PatchesKeepOtherFields
<1>1. IndInv /\ [Next]_vars =>
          [\A u \in Upload :
              attachment[u] \in Attached /\ attachment'[u] \in Attached =>
                  \/ attachment'[u].name = attachment[u].name
                  \/ attachment'[u].public = attachment[u].public]_vars
  BY StepsSaySo DEF SaidToo
<1> QED BY <1>1, Inductive, PTL DEF Spec, PatchesKeepOtherFields
=============================================================================
