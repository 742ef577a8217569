--------------------------- MODULE AccountsProofs ---------------------------
(***************************************************************************)
(* Theorems about Accounts, for any number of accounts, laboratories,      *)
(* sessions, codes and requests at a time.                                 *)
(*                                                                         *)
(* A request judges roles it read before its transaction; the invariant    *)
(* says what is left of that judgement when it writes (Judged).  A         *)
(* registration relies on rows it locked; the invariant says that they are *)
(* as they were (Invited), because no two requests hold one lock           *)
(* (Exclusive) and every write takes the locks it needs.                   *)
(*                                                                         *)
(* The first theorems are about AccessControl alone: what one account may  *)
(* do is spread over the arms of validate_permission and two dozen helpers *)
(* of access_control.rs, and these are statements about the table as a     *)
(* whole.                                                                  *)
(***************************************************************************)
EXTENDS Accounts, TLAPS

\* can_manage_user: nobody gives a role that is above their own, and the admin
\* of a laboratory gives none outside it.
THEOREM GrantsAreWithinRank ==
    ASSUME NEW a \in Actor, NEW r \in Role, CanManageUser(a, r)
    PROVE  Outranks(a, r)
  BY DEF Actor, Role, UserType, CanManageUser, Outranks, IsSystemAdmin

\* An actor acting for l is an account of l, at most its admin.
LEMMA ActsInside ==
    ASSUME NEW a \in Actor, NEW l \in Laboratory, HasContext(a, l)
    PROVE  LET b == AuthorizationActor(a, l)
           IN b \in Actor /\ b.lab = l /\ ~IsSystemAdmin(b) /\ b.id = a.id
  BY DEF Actor, UserType, Place, HasContext, AuthorizationActor, IsSystemAdmin

\* No row of another laboratory is read, changed or assigned by an account of
\* one: the arms of validate_permission all come down to the laboratory of the
\* row.  Two things are not judged there: the reading of an upload, and what
\* can_assign_file_upload does not find, a consumed or expired upload, which
\* the assigning transaction refuses.
THEOREM AccountsOfALaboratoryStayThere ==
    ASSUME NEW b \in Actor, ~IsSystemAdmin(b), NEW kind \in Kind \ {"laboratory"},
           NEW action \in OnRow, NEW x \in Resource, x.there, x.lab # b.lab,
           Permitted(b, kind, action, x)
    PROVE  kind = "file_upload" /\ (action = "read" \/ (action = "assign" /\ ~x.open))
<1>1. CASE kind \in Owned
  <2>1. OwnedRule(b, kind, action, x)
    BY <1>1 DEF Permitted, Owned, Equipment
  <2> QED BY <2>1 DEF OwnedRule, OnRow, CanWrite, CanBrowse
<1>2. CASE kind \in Equipment
  <2>1. EquipmentRule(b, kind, action, x)
    BY <1>2 DEF Permitted, Owned, Equipment
  <2> QED BY <2>1 DEF EquipmentRule, OnRow, CanAdminister, IsLabAdmin, CanBrowse, CanBrowseInternal
<1>3. CASE kind \in {"guest_registration_code", "federation"}
  BY <1>3 DEF Permitted, FederationRule, IsLabAdmin, OnRow, Owned, Equipment
<1>4. CASE kind = "file_upload"
  BY <1>4 DEF Permitted, FileUploadRule, CanManageUpload, CanAssignUpload, Uploaded, OnRow,
              Owned, Equipment
<1>5. CASE kind = "attachment_assignment"
  BY <1>5 DEF Permitted, AttachmentRule, CanWrite, CanViewAttachment, OnRow, Owned, Equipment
<1> QED BY <1>1, <1>2, <1>3, <1>4, <1>5 DEF Kind

\* authorization_actor "scopes even a system admin to a single laboratory":
\* through a laboratory's context nobody reaches a row of another, but for
\* what is said of uploads above.
THEOREM RequestsOfALaboratoryStayThere ==
    ASSUME NEW a \in Actor, NEW l \in Laboratory, HasContext(a, l),
           NEW kind \in Kind \ {"laboratory"}, NEW action \in OnRow,
           NEW x \in Resource, x.there, x.lab # l,
           Permitted(AuthorizationActor(a, l), kind, action, x)
    PROVE  kind = "file_upload" /\ (action = "read" \/ (action = "assign" /\ ~x.open))
  BY ActsInside, AccountsOfALaboratoryStayThere

\* A guest changes nothing: what it may do is look, clear away the uploads it
\* made itself before it became one, and assign an open one of those; a closed
\* upload, its own or not, is left to the transaction to refuse.
THEOREM GuestsOnlyLook ==
    ASSUME NEW a \in Actor, a.type = "guest", NEW kind \in Kind, NEW action \in Action,
           NEW x \in Resource, Permitted(a, kind, action, x)
    PROVE  \/ action \in {"read", "browse", "browse_internal"}
           \/ kind = "file_upload" /\ action = "delete" /\ (x.there => x.owner = a.id)
           \/ kind = "file_upload" /\ action = "assign" /\ (x.there /\ x.open => x.owner = a.id)
<1>1. ~IsSystemAdmin(a) /\ ~CanAdminister(a, x.lab) /\ ~CanWrite(a, x.lab) /\ ~Works(a, x.lab)
  BY DEF IsSystemAdmin, CanAdminister, IsLabAdmin, CanWrite, Works
<1>2. CASE kind \in Owned
  BY <1>1, <1>2 DEF Permitted, OwnedRule, Owned, Equipment
<1>3. CASE kind \in Equipment
  BY <1>1, <1>3 DEF Permitted, EquipmentRule, Owned, Equipment
<1>4. CASE kind \in {"laboratory", "guest_registration_code"}
  BY <1>1, <1>4 DEF Permitted, LaboratoryRule, Owned, Equipment
<1>5. CASE kind = "file_upload"
  BY <1>1, <1>5 DEF Permitted, FileUploadRule, CanManageUpload, CanAssignUpload, Uploaded, Owned, Equipment
<1>6. CASE kind \in {"attachment_assignment", "federation"}
  BY <1>1, <1>6 DEF Permitted, AttachmentRule, FederationRule, IsLabAdmin, Owned, Equipment
<1> QED BY <1>2, <1>3, <1>4, <1>5, <1>6 DEF Kind

\* The role of a member never lets more through than that of the admin of the
\* same laboratory would: roles are a hierarchy, in every arm of the table.
THEOREM AdminsMayWhatMembersMay ==
    ASSUME NEW a \in Actor, ~IsSystemAdmin(a), NEW kind \in Kind, NEW action \in Action,
           NEW x \in Resource, a.lab = x.lab, Permitted(a, kind, action, x)
    PROVE  Permitted([a EXCEPT !.type = "lab_admin"], kind, action, x)
<1> DEFINE b == [a EXCEPT !.type = "lab_admin"]
<1>1. b.type = "lab_admin" /\ b.lab = x.lab /\ b.id = a.id /\ b.lab # NoLaboratory
  BY NoLaboratoryAssumption DEF Actor, Resource
<1>2. CanAdminister(b, x.lab) /\ CanWrite(b, x.lab) /\ CanBrowse(b, x.lab) /\ CanBrowseInternal(b, x.lab)
      /\ Works(b, x.lab) /\ IsLabAdmin(b, x.lab) /\ CanBrowseLaboratories(b) /\ CanViewAttachment(b, x)
  BY <1>1 DEF CanAdminister, IsLabAdmin, CanWrite, CanBrowse, CanBrowseInternal, Works,
              CanBrowseLaboratories, CanViewAttachment, IsSystemAdmin
<1>3. CASE kind \in Owned
  BY <1>2, <1>3 DEF Permitted, OwnedRule, Owned, Equipment
<1>4. CASE kind \in Equipment
  BY <1>2, <1>4 DEF Permitted, EquipmentRule, Owned, Equipment
<1>5. CASE kind \in {"laboratory", "guest_registration_code"}
  BY <1>2, <1>5 DEF Permitted, LaboratoryRule, Owned, Equipment
<1>6. CASE kind = "file_upload"
  BY <1>1, <1>2, <1>6 DEF Permitted, FileUploadRule, CanManageUpload, CanAssignUpload, Uploaded,
                          IsSystemAdmin, Owned, Equipment
<1>7. CASE kind \in {"attachment_assignment", "federation"}
  BY <1>2, <1>7 DEF Permitted, AttachmentRule, FederationRule, Owned, Equipment
<1> QED BY <1>3, <1>4, <1>5, <1>6, <1>7 DEF Kind

-----------------------------------------------------------------------------
(* Accounts *)

Typed ==
    /\ users \in [User -> Account \union {Null, Gone}]
    /\ codes \in [Code -> CodeRow \union {Null}]
    /\ admitted \in [Code -> Nat]
    /\ txn \in [Worker -> Txn \union {Idle}]

Judged(t) ==
    /\ t.op = "create_user" =>
          /\ t.actor \in Actor /\ users[t.actor.id] # Null
          /\ t.role \in Role /\ Outranks(t.actor, t.role)
    /\ t.op \in {"change_password", "create_code"} => t.actor \in Actor
    /\ t.op = "change_password" => t.password \in Password
    /\ t.op = "create_code" => t.actor.lab \in Laboratory
    /\ t.op = "delete_user" => t.on \in User
    /\ t.op = "update_user" =>
          /\ t.actor \in Actor /\ t.on \in User
          /\ t.step = "write" =>
                /\ t.role \in Role
                /\ \/ <<t.on, t.role>> \in granted
                   \/ t.actor.id # t.on /\ Outranks(t.actor, t.role)

Invited(t) ==
    t.op = "register" /\ t.step = "write" =>
        /\ t.code \in Code /\ Outstanding(t.code) /\ Entitled(t.code)
        /\ CodeLock(t.code) \in t.locks /\ UserRow(codes[t.code].issuer) \in t.locks

Exclusive == \A v, w \in Worker : v # w => Holds(v) \intersect Holds(w) = {}

LockedRowsAreThere ==
    \A v \in Worker, c \in Code : CodeLock(c) \in Holds(v) => codes[c] # Null

Counted ==
    \A c \in Code : codes[c] = Null \/ codes[c].state = "out" => admitted[c] = 0

IndInv ==
    /\ Typed
    /\ \A w \in Worker : Judged(txn[w]) /\ Invited(txn[w])
    /\ Exclusive /\ LockedRowsAreThere
    /\ RolesWereGranted
    /\ CodesAdmitOneGuest /\ Counted

LEMMA IdleIsNoRequest == Idle \notin Txn /\ Judged(Idle) /\ Invited(Idle)
  BY DEF Idle, Txn, Ops, Judged, Invited

(* What a request does with its transaction, when it writes nothing yet. *)
LEMMA MovesKeep ==
    ASSUME IndInv, NEW w \in Worker, NEW t \in Txn \union {Idle},
           txn' = [txn EXCEPT ![w] = t],
           UNCHANGED <<rows, server>>,
           Judged(t), Invited(t),
           t # Idle => /\ \A v \in Worker \ {w} : t.locks \intersect Holds(v) = {}
                       /\ \A c \in Code : CodeLock(c) \in t.locks => codes[c] # Null
    PROVE  IndInv'
<1>1. Typed' /\ UNCHANGED <<users, codes, granted, admitted>>
  BY DEF IndInv, Typed, rows
<1>2. txn'[w] = t /\ \A v \in Worker \ {w} : txn'[v] = txn[v]
  BY DEF IndInv, Typed
<1>3. \A v \in Worker : Judged(txn'[v]) /\ Invited(txn'[v])
  BY <1>2 DEF IndInv
<1>4. \A v \in Worker : Judged(txn[v])' /\ Invited(txn[v])'
  BY <1>1, <1>3 DEF Judged, Invited, Outstanding, Entitled, There
<1>5. Exclusive'
  <2>1. \A v \in Worker \ {w} : Holds(v)' = Holds(v)
    BY <1>2 DEF Holds
  <2>2. \A v \in Worker \ {w} : Holds(w)' \intersect Holds(v) = {}
    BY <1>2 DEF Holds
  <2>3. \A v, x \in Worker \ {w} : v # x => Holds(v) \intersect Holds(x) = {}
    BY DEF IndInv, Exclusive
  <2> HIDE DEF Holds
  <2>4. ASSUME NEW v \in Worker, NEW x \in Worker, v # x PROVE Holds(v)' \intersect Holds(x)' = {}
    BY <2>1, <2>2, <2>3, <2>4
  <2> QED BY <2>4 DEF Exclusive
<1>6. RolesWereGranted' /\ CodesAdmitOneGuest' /\ Counted'
  BY <1>1 DEF IndInv, RolesWereGranted, RoleOf, There, CodesAdmitOneGuest, Counted
<1>7. LockedRowsAreThere'
  BY <1>1, <1>2 DEF IndInv, LockedRowsAreThere, Holds
<1> QED BY <1>1, <1>4, <1>5, <1>6, <1>7 DEF IndInv

(* A write that takes from the other requests nothing they have locked. *)
LEMMA WritesKeep ==
    ASSUME IndInv,
           users' \in [User -> Account \union {Null, Gone}],
           codes' \in [Code -> CodeRow \union {Null}],
           admitted' \in [Code -> Nat],
           txn' \in [Worker -> Txn \union {Idle}],
           \A v \in Worker : txn'[v] \in {txn[v], Idle},
           granted \subseteq granted',
           RolesWereGranted', CodesAdmitOneGuest', Counted',
           \A u \in User : users[u] # Null => users'[u] # Null,
           \A c \in Code : codes[c] # Null => codes'[c] # Null,
           \A v \in Worker, c \in Code :
              txn'[v] # Idle /\ CodeLock(c) \in txn[v].locks /\ Outstanding(c) =>
                 Outstanding(c)' /\ codes'[c].issuer = codes[c].issuer /\ codes'[c].lab = codes[c].lab,
           \A v \in Worker, u \in User :
              txn'[v] # Idle /\ UserRow(u) \in txn[v].locks /\ There(u) =>
                 There(u)' /\ users'[u].type = users[u].type /\ users'[u].lab = users[u].lab
    PROVE  IndInv'
<1>1. Typed'
  BY DEF Typed
<1>2. \A v \in Worker : Judged(txn[v])'
  <2>1. ASSUME NEW v \in Worker PROVE Judged(txn[v])'
    <3>1. CASE txn'[v] = Idle
      BY <3>1 DEF Judged, Idle
    <3>2. CASE txn'[v] = txn[v]
      <4>1. Judged(txn[v])
        BY DEF IndInv
      <4> QED BY <3>2, <4>1 DEF Judged, Actor
    <3> QED BY <3>1, <3>2
  <2> QED BY <2>1
<1>3. \A v \in Worker : Invited(txn[v])'
  <2>1. ASSUME NEW v \in Worker, txn'[v] # Idle, NEW c, c = txn[v].code,
               txn[v].op = "register", txn[v].step = "write"
        PROVE  /\ c \in Code /\ Outstanding(c)' /\ Entitled(c)'
               /\ CodeLock(c) \in txn[v].locks /\ UserRow(codes'[c].issuer) \in txn[v].locks
    <3>1. c \in Code /\ Outstanding(c) /\ Entitled(c)
          /\ CodeLock(c) \in txn[v].locks /\ UserRow(codes[c].issuer) \in txn[v].locks
      BY <2>1 DEF IndInv, Invited
    <3>2. codes[c].issuer \in User /\ There(codes[c].issuer)
      BY <3>1 DEF IndInv, Typed, Outstanding, Entitled, CodeRow
    <3>3. Outstanding(c)' /\ codes'[c].issuer = codes[c].issuer /\ codes'[c].lab = codes[c].lab
      BY <2>1, <3>1
    <3>4. There(codes[c].issuer)' /\ users'[codes[c].issuer].type = users[codes[c].issuer].type
          /\ users'[codes[c].issuer].lab = users[codes[c].issuer].lab
      BY <2>1, <3>1, <3>2, <3>3 DEF There
    <3>5. Entitled(c)'
      BY <3>1, <3>3, <3>4 DEF Entitled, Works, There
    <3> QED BY <3>1, <3>3, <3>5
  <2>2. ASSUME NEW v \in Worker PROVE Invited(txn[v])'
    <3>1. CASE txn'[v] = Idle
      BY <3>1 DEF Invited, Idle
    <3>2. CASE txn'[v] # Idle
      <4>1. txn'[v] = txn[v]
        BY <3>2
      <4> QED BY <2>1, <3>2, <4>1 DEF Invited
    <3> QED BY <3>1, <3>2
  <2> QED BY <2>2
<1>4. Exclusive'
  <2>1. \A v \in Worker : Holds(v)' \subseteq Holds(v)
    BY DEF Holds
  <2> HIDE DEF Holds
  <2> QED BY <2>1 DEF IndInv, Exclusive
<1>5. LockedRowsAreThere'
  BY DEF IndInv, LockedRowsAreThere, Holds
<1> QED BY <1>1, <1>2, <1>3, <1>4, <1>5 DEF IndInv

-----------------------------------------------------------------------------
(* Locks: what a statement wants, when nobody is in its way, nobody holds. *)

LEMMA Unblocked ==
    ASSUME NEW w \in Worker, txn[w] # Idle, Blockers(w) = {}, NEW v \in Worker \ {w}
    PROVE  Wanted(w) \intersect Holds(v) = {}
  BY DEF Blockers

LEMMA WantedByUpdate ==
    ASSUME NEW w \in Worker, txn[w].op = "update_user", txn[w].step = "write",
           txn[w].on # Null
    PROVE  UserRow(txn[w].on) \in Wanted(w)
  BY DEF Wanted

LEMMA WantedByDelete ==
    ASSUME NEW w \in Worker, txn[w].op = "delete_user", txn[w].step = "write"
    PROVE  /\ UserRow(txn[w].on) \in Wanted(w)
           /\ \A c \in IssuedBy(txn[w].on) : CodeLock(c) \in Wanted(w)
  BY DEF Wanted

LEMMA WantedByDeleteLaboratory ==
    ASSUME NEW w \in Worker, txn[w].op = "delete_laboratory"
    PROVE  \A c \in CodesOut(txn[w].on) : CodeLock(c) \in Wanted(w)
  BY DEF Wanted

LEMMA WantedByRegister ==
    ASSUME NEW w \in Worker, txn[w].op = "register", txn[w].step = "consume",
           NEW c \in Candidates(txn[w])
    PROVE  {CodeLock(c), UserRow(codes[c].issuer)} \subseteq Wanted(w)
  BY DEF Wanted

LEMMA WantedByCreateCode ==
    ASSUME NEW w \in Worker, txn[w].op = "create_code"
    PROVE  /\ txn[w].step = "laboratory" => Wanted(w) = {LabRow(txn[w].actor.lab)}
           /\ txn[w].step = "revoke" => Wanted(w) = {CodeLock(c) : c \in CodesOut(txn[w].actor.lab)}
  BY DEF Wanted
-----------------------------------------------------------------------------
(* Beginning a request *)

LEMMA AccountsAct ==
    ASSUME Typed, NEW u \in User, There(u)
    PROVE  ActorOf(u) \in Actor /\ RoleOf(u) \in Role
  BY DEF Typed, There, Account, ActorOf, RoleOf, Actor, Role

LEMMA BeginKeeps ==
    ASSUME IndInv, NEW w \in Worker, NEW t \in Txn, Begin(w, t), Judged(t), Invited(t), t.locks = {}
    PROVE  IndInv'
  BY MovesKeep DEF Begin

LEMMA CreateUserBegins ==
    ASSUME IndInv, NEW w \in Worker, NEW u \in User, BeginCreateUser(w, u)
    PROVE  IndInv'
<1>1. PICK r \in Assigned, e \in Contact \union {Null} :
          /\ SignedIn(u) /\ CanManageUser(ActorOf(u), r)
          /\ Begin(w, [Request("create_user", "write") EXCEPT
                         !.actor = ActorOf(u), !.role = r, !.email = e])
  BY DEF BeginCreateUser
<1> DEFINE t == [Request("create_user", "write") EXCEPT !.actor = ActorOf(u), !.role = r, !.email = e]
<1>2. There(u) /\ users[u] # Null
  BY <1>1, NoRowAssumption DEF SignedIn, There
<1>3. ActorOf(u) \in Actor /\ r \in Role
  BY <1>2, AccountsAct, AssignedAssumption DEF IndInv
<1>4. Outranks(ActorOf(u), r)
  BY <1>1, <1>3, GrantsAreWithinRank
<1>5. t \in Txn /\ t.locks = {}
  BY <1>3, ContactAssumption DEF Request, Txn, Ops, Steps
<1>6. Judged(t) /\ Invited(t)
  BY <1>2, <1>3, <1>4 DEF Judged, Invited, Request, ActorOf
<1> QED BY <1>1, <1>5, <1>6, BeginKeeps

LEMMA ChangesBegin ==
    ASSUME IndInv, NEW w \in Worker, NEW u \in User, BeginChangeOf(w, u)
    PROVE  IndInv'
<1>1. PICK op \in {"update_user", "delete_user"}, v \in User :
          SignedIn(u) /\ Begin(w, [Request(op, "fetch") EXCEPT !.actor = ActorOf(u), !.on = v])
  BY DEF BeginChangeOf
<1> DEFINE t == [Request(op, "fetch") EXCEPT !.actor = ActorOf(u), !.on = v]
<1>2. ActorOf(u) \in Actor
  BY <1>1, AccountsAct DEF IndInv, SignedIn
<1>3. t \in Txn /\ t.locks = {}
  BY <1>2 DEF Request, Txn, Ops, Steps
<1>4. Judged(t) /\ Invited(t)
  BY <1>2 DEF Judged, Invited, Request
<1> QED BY <1>1, <1>3, <1>4, BeginKeeps

LEMMA PasswordChangesBegin ==
    ASSUME IndInv, NEW w \in Worker, NEW u \in User, BeginChangePassword(w, u)
    PROVE  IndInv'
<1>1. PICK q \in Password :
          /\ SignedIn(u)
          /\ Begin(w, [Request("change_password", "write") EXCEPT !.actor = ActorOf(u), !.password = q])
  BY DEF BeginChangePassword
<1> DEFINE t == [Request("change_password", "write") EXCEPT !.actor = ActorOf(u), !.password = q]
<1>2. ActorOf(u) \in Actor
  BY <1>1, AccountsAct DEF IndInv, SignedIn
<1>3. t \in Txn /\ t.locks = {}
  BY <1>2 DEF Request, Txn, Ops, Steps
<1>4. Judged(t) /\ Invited(t)
  BY <1>2 DEF Judged, Invited, Request
<1> QED BY <1>1, <1>3, <1>4, BeginKeeps

LEMMA LaboratoriesBegin ==
    ASSUME IndInv, NEW w \in Worker, NEW u \in User, BeginLaboratory(w, u)
    PROVE  IndInv'
<1>1. PICK op \in {"create_laboratory", "delete_laboratory"}, l \in Laboratory :
          SignedIn(u) /\ Begin(w, [Request(op, "write") EXCEPT !.actor = ActorOf(u), !.on = l])
  BY DEF BeginLaboratory
<1> DEFINE t == [Request(op, "write") EXCEPT !.actor = ActorOf(u), !.on = l]
<1>2. ActorOf(u) \in Actor
  BY <1>1, AccountsAct DEF IndInv, SignedIn
<1>3. t \in Txn /\ t.locks = {}
  BY <1>2 DEF Request, Txn, Ops, Steps
<1>4. Judged(t) /\ Invited(t)
  BY DEF Judged, Invited, Request
<1> QED BY <1>1, <1>3, <1>4, BeginKeeps

LEMMA CodesBegin ==
    ASSUME IndInv, NEW w \in Worker, NEW u \in User, BeginCreateCode(w, u)
    PROVE  IndInv'
<1>1. PICK l \in Laboratory :
          /\ SignedIn(u) /\ CanCreateGuestRegistrationCode(ActorOf(u), l)
          /\ Begin(w, [Request("create_code", "laboratory") EXCEPT !.actor = ActorOf(u)])
  BY DEF BeginCreateCode
<1> DEFINE t == [Request("create_code", "laboratory") EXCEPT !.actor = ActorOf(u)]
<1>2. ActorOf(u) \in Actor /\ ActorOf(u).lab \in Laboratory
  BY <1>1, AccountsAct DEF IndInv, SignedIn, CanCreateGuestRegistrationCode, Works
<1>3. t \in Txn /\ t.locks = {}
  BY <1>2 DEF Request, Txn, Ops, Steps
<1>4. Judged(t) /\ Invited(t)
  BY <1>2 DEF Judged, Invited, Request
<1> QED BY <1>1, <1>3, <1>4, BeginKeeps

LEMMA LoginsBegin ==
    ASSUME IndInv, NEW w \in Worker, NEW s \in Session, BeginLogin(w, s)
    PROVE  IndInv'
<1>1. PICK u \in User : Begin(w, [Request("login", "verify") EXCEPT !.on = u, !.session = s])
  BY DEF BeginLogin
<1> DEFINE t == [Request("login", "verify") EXCEPT !.on = u, !.session = s]
<1>2. t \in Txn /\ t.locks = {}
  BY DEF Request, Txn, Ops, Steps
<1>3. Judged(t) /\ Invited(t)
  BY DEF Judged, Invited, Request
<1> QED BY <1>1, <1>2, <1>3, BeginKeeps

LEMMA RegistrationsBegin ==
    ASSUME IndInv, NEW w \in Worker, BeginRegister(w)
    PROVE  IndInv'
<1>1. PICK n \in Secret, e \in Email :
          Begin(w, [Request("register", "consume") EXCEPT !.secret = n, !.email = e])
  BY DEF BeginRegister
<1> DEFINE t == [Request("register", "consume") EXCEPT !.secret = n, !.email = e]
<1>2. t \in Txn /\ t.locks = {}
  BY DEF Request, Txn, Ops, Steps
<1>3. Judged(t) /\ Invited(t)
  BY DEF Judged, Invited, Request
<1> QED BY <1>1, <1>2, <1>3, BeginKeeps
-----------------------------------------------------------------------------
(* Going on with it *)

LEMMA UnderWay ==
    ASSUME IndInv, NEW w \in Worker, txn[w] # Idle
    PROVE  /\ txn[w] \in Txn /\ Judged(txn[w]) /\ Invited(txn[w])
           /\ Holds(w) = txn[w].locks
           /\ \A v \in Worker \ {w} : txn[w].locks \intersect Holds(v) = {}
           /\ \A c \in Code : CodeLock(c) \in txn[w].locks => codes[c] # Null
<1>1. txn[w] \in Txn /\ Holds(w) = txn[w].locks
  BY DEF IndInv, Typed, Holds
<1> QED BY <1>1 DEF IndInv, Exclusive, LockedRowsAreThere

LEMMA RefusalKeeps ==
    ASSUME IndInv, NEW w \in Worker, Refuse(w)
    PROVE  IndInv'
  BY MovesKeep, IdleIsNoRequest DEF Refuse, End

LEMMA FetchKeeps ==
    ASSUME IndInv, NEW w \in Worker, FetchTarget(w)
    PROVE  IndInv'
<1> DEFINE t == txn[w]
<1>1. CASE Refuse(w)
  BY <1>1, RefusalKeeps
<1>2. CASE At(w, "delete_user", "fetch") /\ GoOn(w, [t EXCEPT !.step = "write"])
  <2>1. t \in Txn /\ Judged(t) /\ t.op = "delete_user"
    BY <1>2, UnderWay DEF At
  <2>2. [t EXCEPT !.step = "write"] \in Txn
    BY <2>1 DEF Txn, Steps
  <2>3. Judged([t EXCEPT !.step = "write"]) /\ Invited([t EXCEPT !.step = "write"])
    BY <2>1, <2>2 DEF Judged, Invited, Txn
  <2> DEFINE q == [t EXCEPT !.step = "write"]
  <2>4. q.locks = t.locks
    BY <2>1 DEF Txn
  <2>5. /\ \A v \in Worker \ {w} : q.locks \intersect Holds(v) = {}
        /\ \A c \in Code : CodeLock(c) \in q.locks => codes[c] # Null
    BY <1>2, <2>4, UnderWay DEF At
  <2> HIDE DEF q
  <2> QED BY <1>2, <2>2, <2>3, <2>5, MovesKeep DEF GoOn, q
<1>3. ASSUME At(w, "update_user", "fetch"), There(t.on),
             NEW r \in Requested(t), NEW e \in Contact \union {Null, users[t.on].email},
             GoOn(w, [t EXCEPT !.step = "write", !.role = r, !.email = e])
      PROVE  IndInv'
  <2> DEFINE q == [t EXCEPT !.step = "write", !.role = r, !.email = e]
  <2>1. t \in Txn /\ Judged(t) /\ t.op = "update_user"
    BY <1>3, UnderWay DEF At
  <2>2. t.on \in User /\ t.actor \in Actor /\ users[t.on] \in Account
    BY <1>3, <2>1 DEF Judged, There
  <2>3. RoleOf(t.on) \in Role /\ <<t.on, RoleOf(t.on)>> \in granted
    BY <1>3, <2>2, AccountsAct DEF IndInv, RolesWereGranted
  <2>4. /\ r \in Role
        /\ <<t.on, r>> \in granted \/ (t.actor.id # t.on /\ Outranks(t.actor, r))
    <3>1. CASE t.actor.id = t.on
      BY <3>1, <2>3 DEF Requested
    <3>2. CASE t.actor.id # t.on
      <4>1. r \in RolesFrom(RoleOf(t.on)) /\ CanManageUser(t.actor, r)
        BY <3>2 DEF Requested
      <4>2. r \in Role
        BY <4>1, <2>3, AssignedAssumption DEF RolesFrom, Role
      <4> QED BY <3>2, <4>1, <4>2, <2>2, GrantsAreWithinRank
    <3> QED BY <3>1, <3>2
  <2>5. e \in Email \union {Null}
    BY <2>2, ContactAssumption DEF Account
  <2>6. q \in Txn /\ q.op = "update_user" /\ q.actor = t.actor /\ q.on = t.on /\ q.role = r
        /\ q.locks = t.locks
    BY <2>1, <2>4, <2>5 DEF Txn, Steps
  <2>7. /\ \A v \in Worker \ {w} : q.locks \intersect Holds(v) = {}
        /\ \A c \in Code : CodeLock(c) \in q.locks => codes[c] # Null
    BY <1>3, <2>6, UnderWay DEF At
  <2> HIDE DEF q
  <2>8. Judged(q) /\ Invited(q)
    BY <2>2, <2>4, <2>6 DEF Judged, Invited
  <2> QED BY <1>3, <2>6, <2>7, <2>8, MovesKeep DEF GoOn, q
<1> QED BY <1>1, <1>2, <1>3 DEF FetchTarget

LEMMA LocksGrow ==
    ASSUME IndInv, NEW w \in Worker, NEW step \in Steps, txn[w] # Idle,
           txn[w].op = "create_code", Blockers(w) = {}, Wanted(w) \subseteq Lock,
           \A c \in Code : CodeLock(c) \in Wanted(w) => codes[c] # Null,
           GoOn(w, [txn[w] EXCEPT !.step = step, !.locks = @ \union Wanted(w)])
    PROVE  IndInv'
<1> DEFINE q == [txn[w] EXCEPT !.step = step, !.locks = @ \union Wanted(w)]
<1>1. txn[w] \in Txn /\ Judged(txn[w])
  BY UnderWay
<1>2. q \in Txn /\ q.op = "create_code" /\ q.actor = txn[w].actor
      /\ q.locks = txn[w].locks \union Wanted(w)
  BY <1>1 DEF Txn
<1> HIDE DEF q
<1>3. Judged(q) /\ Invited(q)
  BY <1>1, <1>2 DEF Judged, Invited
<1>4. \A v \in Worker \ {w} : q.locks \intersect Holds(v) = {}
  BY <1>2, UnderWay, Unblocked
<1>5. \A c \in Code : CodeLock(c) \in q.locks => codes[c] # Null
  BY <1>2, UnderWay
<1> QED BY <1>2, <1>3, <1>4, <1>5, MovesKeep DEF GoOn, q

LEMMA LockLaboratoryKeeps ==
    ASSUME IndInv, NEW w \in Worker, LockLaboratory(w)
    PROVE  IndInv'
<1>1. CASE Refuse(w)
  BY <1>1, RefusalKeeps
<1>2. CASE GoOn(w, [txn[w] EXCEPT !.step = "revoke", !.locks = @ \union Wanted(w)])
  <2>1. /\ txn[w] # Idle /\ txn[w].op = "create_code" /\ Blockers(w) = {}
        /\ Wanted(w) = {LabRow(txn[w].actor.lab)}
    BY WantedByCreateCode DEF LockLaboratory, At
  <2>2. txn[w].actor.lab \in Laboratory
    BY <2>1, UnderWay DEF Judged
  <2>3. Wanted(w) \subseteq Lock /\ \A c \in Code : CodeLock(c) \notin Wanted(w)
    BY <2>1, <2>2 DEF Lock, LabRow, CodeLock
  <2>4. "revoke" \in Steps
    BY DEF Steps
  <2> QED BY <1>2, <2>1, <2>3, <2>4, LocksGrow
<1> QED BY <1>1, <1>2 DEF LockLaboratory

LEMMA RevokeKeeps ==
    ASSUME IndInv, NEW w \in Worker, RevokeCode(w)
    PROVE  IndInv'
<1>1. /\ txn[w] # Idle /\ txn[w].op = "create_code" /\ Blockers(w) = {}
      /\ Wanted(w) = {CodeLock(c) : c \in CodesOut(txn[w].actor.lab)}
      /\ GoOn(w, [txn[w] EXCEPT !.step = "write", !.locks = @ \union Wanted(w)])
  BY WantedByCreateCode DEF RevokeCode, At
<1>2. Wanted(w) \subseteq Lock
  BY <1>1 DEF Lock, CodeLock, CodesOut
<1>3. \A c \in Code : CodeLock(c) \in Wanted(w) => codes[c] # Null
  BY <1>1 DEF CodeLock, CodesOut, Outstanding
<1>4. "write" \in Steps
  BY DEF Steps
<1> QED BY <1>1, <1>2, <1>3, <1>4, LocksGrow

LEMMA ConsumeKeeps ==
    ASSUME IndInv, NEW w \in Worker, ConsumeCode(w)
    PROVE  IndInv'
<1>1. CASE Refuse(w)
  BY <1>1, RefusalKeeps
<1>2. ASSUME NEW c \in Usable(txn[w]),
             GoOn(w, [txn[w] EXCEPT !.step = "write", !.code = c,
                                    !.locks = {CodeLock(c), UserRow(codes[c].issuer)}])
      PROVE  IndInv'
  <2> DEFINE L == {CodeLock(c), UserRow(codes[c].issuer)}
             q == [txn[w] EXCEPT !.step = "write", !.code = c, !.locks = L]
  <2>1. /\ txn[w] # Idle /\ txn[w].op = "register" /\ Blockers(w) = {}
        /\ txn[w].step = "consume"
    BY DEF ConsumeCode, At
  <2>2. c \in Candidates(txn[w]) /\ c \in Code /\ Outstanding(c) /\ Entitled(c) /\ codes[c] # Null
    BY <1>2 DEF Usable, Candidates, Outstanding
  <2>3. codes[c].issuer \in User
    BY <2>2 DEF IndInv, Typed, CodeRow
  <2>4. L \subseteq Lock
    BY <2>2, <2>3 DEF Lock, CodeLock, UserRow
  <2>5. L \subseteq Wanted(w)
    BY <2>1, <2>2, WantedByRegister
  <2>6. \A v \in Worker \ {w} : L \intersect Holds(v) = {}
    BY <2>1, <2>5, Unblocked
  <2>7. \A d \in Code : CodeLock(d) \in L => codes[d] # Null
    BY <2>2 DEF CodeLock, UserRow
  <2>8. CodeLock(c) \in L /\ UserRow(codes[c].issuer) \in L
    OBVIOUS
  <2>9. GoOn(w, q)
    BY <1>2
  <2> HIDE DEF L
  <2>10. q \in Txn /\ q.op = "register" /\ q.code = c /\ q.locks = L
    BY <2>1, <2>2, <2>4, UnderWay DEF Txn, Steps
  <2> HIDE DEF q
  <2>11. Judged(q) /\ Invited(q)
    BY <2>2, <2>8, <2>10 DEF Judged, Invited
  <2> QED BY <2>6, <2>7, <2>9, <2>10, <2>11, MovesKeep DEF GoOn
<1> QED BY <1>1, <1>2 DEF ConsumeCode
-----------------------------------------------------------------------------
(* Writing *)

LEMMA EndsKeepTyped ==
    ASSUME IndInv, NEW w \in Worker, txn' = [txn EXCEPT ![w] = Idle]
    PROVE  /\ txn' \in [Worker -> Txn \union {Idle}]
           /\ \A v \in Worker : /\ txn'[v] \in {txn[v], Idle}
                                /\ txn'[v] # Idle => v \in Worker \ {w} /\ Holds(v) = txn[v].locks
  BY DEF IndInv, Typed, Holds

LEMMA OthersLockNot ==
    ASSUME IndInv, NEW w \in Worker, txn' = [txn EXCEPT ![w] = Idle],
           NEW x, \A v \in Worker \ {w} : x \notin Holds(v)
    PROVE  \A v \in Worker : txn'[v] # Idle => x \notin txn[v].locks
<1>1. ASSUME NEW v \in Worker, txn'[v] # Idle PROVE x \notin txn[v].locks
  <2>1. v \in Worker \ {w} /\ Holds(v) = txn[v].locks
    BY <1>1, EndsKeepTyped
  <2> QED BY <2>1
<1> QED BY <1>1

(* A write that leaves the codes alone and every account but n. *)
LEMMA AccountWritesKeep ==
    ASSUME IndInv, NEW w \in Worker, NEW n \in User, NEW row \in Account,
           users' = [users EXCEPT ![n] = row], UNCHANGED <<codes, admitted>>,
           End(w), granted \subseteq granted', <<n, RoleOf(n)'>> \in granted',
           There(n) => \A v \in Worker \ {w} : UserRow(n) \notin Holds(v)
    PROVE  IndInv'
<1>1. users' \in [User -> Account \union {Null, Gone}] /\ users'[n] = row
      /\ \A u \in User \ {n} : users'[u] = users[u]
  BY DEF IndInv, Typed
<1>2. txn' = [txn EXCEPT ![w] = Idle] /\ UNCHANGED <<server>>
  BY DEF End
<1>3. RolesWereGranted'
  BY <1>1 DEF IndInv, RolesWereGranted, There, RoleOf
<1>4. CodesAdmitOneGuest' /\ Counted'
  BY <1>2 DEF IndInv, CodesAdmitOneGuest, Counted
<1>5. \A u \in User : users[u] # Null => users'[u] # Null
  BY <1>1, NoRowAssumption
<1>6. \A v \in Worker, c \in Code :
         txn'[v] # Idle /\ CodeLock(c) \in txn[v].locks /\ Outstanding(c) =>
            Outstanding(c)' /\ codes'[c].issuer = codes[c].issuer /\ codes'[c].lab = codes[c].lab
  BY DEF Outstanding
<1>7. \A v \in Worker, u \in User :
         txn'[v] # Idle /\ UserRow(u) \in txn[v].locks /\ There(u) =>
            There(u)' /\ users'[u].type = users[u].type /\ users'[u].lab = users[u].lab
  <2>1. ASSUME NEW v \in Worker, NEW u \in User,
               txn'[v] # Idle, UserRow(u) \in txn[v].locks, There(u)
        PROVE  u # n
    <3>1. There(n) => UserRow(n) \notin txn[v].locks
      BY <1>2, <2>1, OthersLockNot
    <3> QED BY <2>1, <3>1
  <2>2. ASSUME NEW u \in User \ {n}, There(u)
        PROVE  There(u)' /\ users'[u].type = users[u].type /\ users'[u].lab = users[u].lab
    BY <1>1, <2>2 DEF There
  <2> QED BY <2>1, <2>2
<1>8. codes' \in [Code -> CodeRow \union {Null}] /\ admitted' \in [Code -> Nat]
      /\ \A c \in Code : codes[c] # Null => codes'[c] # Null
  BY DEF IndInv, Typed
<1>9. txn' \in [Worker -> Txn \union {Idle}] /\ \A v \in Worker : txn'[v] \in {txn[v], Idle}
  BY <1>2, EndsKeepTyped
<1> QED BY <1>1, <1>3, <1>4, <1>5, <1>6, <1>7, <1>8, <1>9, WritesKeep

LEMMA InsertKeeps ==
    ASSUME IndInv, NEW w \in Worker, InsertUser(w)
    PROVE  IndInv'
<1> DEFINE t == txn[w]
           row == [type |-> t.role.type, lab |-> t.role.lab, password |-> SomePassword, email |-> t.email]
<1>1. CASE Refuse(w)
  BY <1>1, RefusalKeeps
<1>2. ASSUME NEW n \in User, users[n] = Null, users' = [users EXCEPT ![n] = row],
             GrantBy(t.actor, n, t.role), End(w), UNCHANGED <<labs, codes, admitted>>
      PROVE  IndInv'
  <2>1. t \in Txn /\ Judged(t) /\ t.op = "create_user"
    BY UnderWay DEF InsertUser, At
  <2>2. t.role \in Role /\ t.actor.id # n /\ Outranks(t.actor, t.role)
    BY <1>2, <2>1 DEF Judged
  <2>3. granted' = granted \union {<<n, t.role>>}
    BY <1>2, <2>2 DEF GrantBy, Grant
  <2>4. SomePassword \in Password
    BY PasswordAssumption DEF SomePassword
  <2>5. row \in Account
    BY <2>1, <2>2, <2>4 DEF Account, Role, Txn
  <2>6. users'[n] = row
    BY <1>2 DEF IndInv, Typed
  <2>7. RoleOf(n)' = t.role
    BY <2>2, <2>6 DEF RoleOf, Role
  <2>8. ~There(n)
    BY <1>2, NoRowAssumption DEF There
  <2> HIDE DEF row
  <2> QED BY <1>2, <2>3, <2>5, <2>7, <2>8, AccountWritesKeep
<1> QED BY <1>1, <1>2 DEF InsertUser

LEMMA UpdateKeeps ==
    ASSUME IndInv, NEW w \in Worker, UpdateUser(w)
    PROVE  IndInv'
<1> DEFINE t == txn[w]
           n == t.on
           row == [type |-> t.role.type, lab |-> t.role.lab, password |-> users[n].password,
                   email |-> t.email]
<1>1. CASE Refuse(w)
  BY <1>1, RefusalKeeps
<1>2. CASE /\ There(n)
           /\ users' = [users EXCEPT ![n] = [type |-> t.role.type, lab |-> t.role.lab,
                                             password |-> @.password, email |-> t.email]]
           /\ GrantBy(t.actor, n, t.role) /\ End(w) /\ UNCHANGED <<labs, codes, admitted>>
  <2>1. t # Idle /\ t \in Txn /\ Judged(t) /\ t.op = "update_user" /\ t.step = "write" /\ Blockers(w) = {}
    BY UnderWay DEF UpdateUser, At
  <2>2. /\ t.role \in Role /\ n \in User
        /\ <<n, t.role>> \in granted \/ (t.actor.id # n /\ Outranks(t.actor, t.role))
    BY <2>1 DEF Judged
  <2>3. granted \subseteq granted' /\ <<n, t.role>> \in granted'
    BY <1>2, <2>2 DEF GrantBy, Grant
  <2>4. row \in Account
    BY <1>2, <2>1, <2>2 DEF Account, Role, Txn, There
  <2>5. users' = [users EXCEPT ![n] = row] /\ users'[n] = row
    BY <1>2, <2>2 DEF IndInv, Typed
  <2>6. n # Null
    BY <2>2, NullAssumption
  <2>7. \A v \in Worker \ {w} : UserRow(n) \notin Holds(v)
    BY <2>1, <2>6, WantedByUpdate, Unblocked
  <2> QED
    <3> SUFFICES ASSUME NEW m \in User, m = n, NEW r, r = row, NEW role, role = t.role PROVE IndInv'
      BY <2>2
    <3>1. RoleOf(m)' = role
      BY <2>2, <2>5 DEF RoleOf, Role
    <3> QED BY <1>2, <2>3, <2>4, <2>5, <2>7, <3>1, AccountWritesKeep
<1> QED BY <1>1, <1>2 DEF UpdateUser

LEMMA PasswordWritesKeep ==
    ASSUME IndInv, NEW n \in User, There(n), NEW p \in Password,
           users' = [users EXCEPT ![n].password = p], UNCHANGED <<codes, granted, admitted>>,
           txn' \in [Worker -> Txn \union {Idle}], \A v \in Worker : txn'[v] \in {txn[v], Idle}
    PROVE  IndInv'
<1>1. users' = [users EXCEPT ![n] = [users[n] EXCEPT !.password = p]]
  OBVIOUS
<1>2. users' \in [User -> Account \union {Null, Gone}]
      /\ \A u \in User : /\ (users[u] # Null <=> users'[u] # Null) /\ (There(u) <=> There(u)')
                         /\ users'[u].type = users[u].type /\ users'[u].lab = users[u].lab
  BY <1>1, NoRowAssumption DEF IndInv, Typed, There, Account
<1>3. RolesWereGranted'
  BY <1>2 DEF IndInv, RolesWereGranted, RoleOf
<1>4. CodesAdmitOneGuest' /\ Counted'
  BY DEF IndInv, CodesAdmitOneGuest, Counted
<1>5. /\ codes' \in [Code -> CodeRow \union {Null}] /\ admitted' \in [Code -> Nat]
      /\ \A c \in Code : /\ codes[c] # Null => codes'[c] # Null
                         /\ Outstanding(c) => Outstanding(c)' /\ codes'[c].issuer = codes[c].issuer
                                              /\ codes'[c].lab = codes[c].lab
  BY DEF IndInv, Typed, Outstanding
<1> QED BY <1>2, <1>3, <1>4, <1>5, WritesKeep

LEMMA SwapKeeps ==
    ASSUME IndInv, NEW w \in Worker, SwapPassword(w)
    PROVE  IndInv'
<1>1. CASE Refuse(w)
  BY <1>1, RefusalKeeps
<1>2. txn[w] \in Txn /\ Judged(txn[w]) /\ txn[w].op = "change_password"
  BY UnderWay DEF SwapPassword, At
<1>3. txn[w].actor.id \in User /\ txn[w].password \in Password
  BY <1>2 DEF Judged, Actor
<1>4. CASE /\ There(txn[w].actor.id)
           /\ users' = [users EXCEPT ![txn[w].actor.id].password = txn[w].password]
           /\ End(w) /\ UNCHANGED <<labs, codes, granted, admitted>>
  BY <1>3, <1>4, EndsKeepTyped, PasswordWritesKeep DEF End, IndInv
<1> QED BY <1>1, <1>4 DEF SwapPassword
LEMMA CascadesAreTyped ==
    ASSUME IndInv, NEW S \in SUBSET Code, \A c \in S : codes[c] # Null, codes' = Cascade(S),
           UNCHANGED admitted
    PROVE  /\ codes' \in [Code -> CodeRow \union {Null}] /\ admitted' \in [Code -> Nat]
           /\ \A c \in Code \ S : codes'[c] = codes[c]
           /\ \A c \in Code : codes[c] # Null => codes'[c] # Null
           /\ CodesAdmitOneGuest' /\ Counted'
<1>1. \A c \in S : codes[c] \in CodeRow
  BY DEF IndInv, Typed
<1>2. \A c \in S : codes'[c] \in CodeRow /\ codes'[c].state = "deleted" /\ codes'[c] # Null
  BY <1>1, NoRowAssumption DEF Cascade, CodeRow
<1>3. codes' \in [Code -> CodeRow \union {Null}] /\ \A c \in Code \ S : codes'[c] = codes[c]
  BY <1>2 DEF Cascade, IndInv, Typed
<1>4. admitted' \in [Code -> Nat]
  BY DEF IndInv, Typed
<1>5. CodesAdmitOneGuest' /\ Counted'
  BY <1>2, <1>3 DEF IndInv, CodesAdmitOneGuest, Counted
<1> QED BY <1>2, <1>3, <1>4, <1>5

LEMMA RemovalKeeps ==
    ASSUME IndInv, NEW w \in Worker, RemoveUser(w)
    PROVE  IndInv'
<1>1. CASE Refuse(w)
  BY <1>1, RefusalKeeps
<1>2. ASSUME NEW n, n = txn[w].on, There(n), users' = [users EXCEPT ![n] = Gone],
             codes' = Cascade(IssuedBy(n)), End(w), UNCHANGED <<labs, granted, admitted>>
      PROVE  IndInv'
  <2>1. /\ txn[w] # Idle /\ Blockers(w) = {} /\ txn[w].op = "delete_user" /\ txn[w].step = "write"
    BY DEF RemoveUser, At
  <2>2. n \in User
    BY <1>2, <2>1, UnderWay DEF Judged
  <2>3. /\ users' \in [User -> Account \union {Null, Gone}] /\ users'[n] = Gone
        /\ \A u \in User \ {n} : users'[u] = users[u]
    BY <1>2, <2>2 DEF IndInv, Typed
  <2>4. IssuedBy(n) \subseteq Code /\ \A c \in IssuedBy(n) : codes[c] # Null
    BY DEF IssuedBy
  <2>5. /\ codes' \in [Code -> CodeRow \union {Null}] /\ admitted' \in [Code -> Nat]
        /\ \A c \in Code \ IssuedBy(n) : codes'[c] = codes[c]
        /\ \A c \in Code : codes[c] # Null => codes'[c] # Null
        /\ CodesAdmitOneGuest' /\ Counted'
    BY <1>2, <2>4, CascadesAreTyped
  <2>6. RolesWereGranted'
    BY <1>2, <2>3, NoRowAssumption DEF IndInv, RolesWereGranted, There, RoleOf
  <2>8. \A u \in User : users[u] # Null => users'[u] # Null
    BY <2>3, NoRowAssumption
  <2>9. txn' = [txn EXCEPT ![w] = Idle]
    BY <1>2 DEF End
  <2>10. \A v \in Worker \ {w} : UserRow(n) \notin Holds(v) /\ \A c \in IssuedBy(n) : CodeLock(c) \notin Holds(v)
    BY <1>2, <2>1, WantedByDelete, Unblocked
  <2>11. \A v \in Worker, c \in Code :
            txn'[v] # Idle /\ CodeLock(c) \in txn[v].locks => c \notin IssuedBy(n)
    BY <2>9, <2>10, OthersLockNot
  <2>12. \A v \in Worker, u \in User : txn'[v] # Idle /\ UserRow(u) \in txn[v].locks => u # n
    <3>1. \A v \in Worker : txn'[v] # Idle => UserRow(n) \notin txn[v].locks
      BY <2>9, <2>10, OthersLockNot
    <3> QED BY <3>1
  <2>13. \A v \in Worker, c \in Code :
            txn'[v] # Idle /\ CodeLock(c) \in txn[v].locks /\ Outstanding(c) =>
               Outstanding(c)' /\ codes'[c].issuer = codes[c].issuer /\ codes'[c].lab = codes[c].lab
    BY <2>5, <2>11 DEF Outstanding
  <2>14. \A v \in Worker, u \in User :
            txn'[v] # Idle /\ UserRow(u) \in txn[v].locks /\ There(u) =>
               There(u)' /\ users'[u].type = users[u].type /\ users'[u].lab = users[u].lab
    BY <2>3, <2>12 DEF There
  <2>15. txn' \in [Worker -> Txn \union {Idle}] /\ \A v \in Worker : txn'[v] \in {txn[v], Idle}
    BY <2>9, EndsKeepTyped
  <2> QED BY <1>2, <2>3, <2>5, <2>6, <2>8, <2>13, <2>14, <2>15, WritesKeep
<1> QED BY <1>1, <1>2 DEF RemoveUser

(* A write that leaves the accounts alone. *)
LEMMA CodeWritesKeep ==
    ASSUME IndInv, UNCHANGED <<users, granted, server>>,
           codes' \in [Code -> CodeRow \union {Null}], admitted' \in [Code -> Nat],
           txn' \in [Worker -> Txn \union {Idle}], \A v \in Worker : txn'[v] \in {txn[v], Idle},
           CodesAdmitOneGuest', Counted',
           \A c \in Code : codes[c] # Null => codes'[c] # Null,
           \A v \in Worker, c \in Code :
              txn'[v] # Idle /\ CodeLock(c) \in txn[v].locks /\ Outstanding(c) =>
                 Outstanding(c)' /\ codes'[c].issuer = codes[c].issuer /\ codes'[c].lab = codes[c].lab
    PROVE  IndInv'
<1>1. users' \in [User -> Account \union {Null, Gone}] /\ RolesWereGranted'
  BY DEF IndInv, Typed, RolesWereGranted, RoleOf, There
<1>2. \A u \in User : (There(u) => There(u)') /\ users'[u] = users[u]
  BY DEF There
<1> QED BY <1>1, <1>2, WritesKeep

LEMMA LaboratoryKeeps ==
    ASSUME IndInv, NEW w \in Worker, CommitLaboratory(w)
    PROVE  IndInv'
<1>1. CASE Refuse(w)
  BY <1>1, RefusalKeeps
<1>2. CASE End(w) /\ UNCHANGED <<users, codes, granted, admitted>>
  <2>1. /\ codes' \in [Code -> CodeRow \union {Null}] /\ admitted' \in [Code -> Nat]
        /\ CodesAdmitOneGuest' /\ Counted'
    BY <1>2 DEF IndInv, Typed, CodesAdmitOneGuest, Counted
  <2>2. txn' \in [Worker -> Txn \union {Idle}] /\ \A v \in Worker : txn'[v] \in {txn[v], Idle}
    BY <1>2, EndsKeepTyped DEF End
  <2>3. UNCHANGED <<users, granted, server>> /\ codes' = codes
    BY <1>2 DEF End
  <2>4. \A c \in Code : Outstanding(c) => Outstanding(c)'
    BY <2>3 DEF Outstanding
  <2> QED BY <2>1, <2>2, <2>3, <2>4, CodeWritesKeep
<1>3. ASSUME NEW l, l = txn[w].on, At(w, "delete_laboratory", "write"),
             codes' = Cascade({c \in Code : codes[c] # Null /\ codes[c].lab = l}), End(w),
             UNCHANGED <<users, granted, admitted>>
      PROVE  IndInv'
  <2> DEFINE S == {c \in Code : codes[c] # Null /\ codes[c].lab = l}
  <2>1. /\ codes' \in [Code -> CodeRow \union {Null}] /\ admitted' \in [Code -> Nat]
        /\ \A c \in Code \ S : codes'[c] = codes[c]
        /\ \A c \in Code : codes[c] # Null => codes'[c] # Null
        /\ CodesAdmitOneGuest' /\ Counted'
    BY <1>3, CascadesAreTyped
  <2>2. \A c \in S : Outstanding(c) => CodeLock(c) \in Wanted(w)
    BY <1>3, WantedByDeleteLaboratory DEF CodesOut, At
  <2>3. \A v \in Worker \ {w}, c \in S : Outstanding(c) => CodeLock(c) \notin Holds(v)
    BY <1>3, <2>2, Unblocked DEF At
  <2>4. txn' = [txn EXCEPT ![w] = Idle] /\ UNCHANGED <<users, granted, server>>
    BY <1>3 DEF End
  <2>5. txn' \in [Worker -> Txn \union {Idle}] /\ \A v \in Worker : txn'[v] \in {txn[v], Idle}
    BY <2>4, EndsKeepTyped
  <2> HIDE DEF S
  <2>6. \A v \in Worker, c \in Code :
            txn'[v] # Idle /\ CodeLock(c) \in txn[v].locks /\ Outstanding(c) => c \notin S
    BY <2>3, <2>4, OthersLockNot
  <2>7. \A c \in Code \ S : Outstanding(c) =>
            Outstanding(c)' /\ codes'[c].issuer = codes[c].issuer /\ codes'[c].lab = codes[c].lab
    BY <2>1 DEF Outstanding
  <2> QED BY <2>1, <2>4, <2>5, <2>6, <2>7, CodeWritesKeep
<1> QED BY <1>1, <1>2, <1>3 DEF CommitLaboratory
LEMMA InsertCodeKeeps ==
    ASSUME IndInv, NEW w \in Worker, InsertCode(w)
    PROVE  IndInv'
<1>1. CASE Refuse(w)
  BY <1>1, RefusalKeeps
<1>2. ASSUME NEW n \in Secret, NEW c \in Code, NEW a, a = txn[w].actor,
             There(a.id), ~Contested(w, n), codes[c] = Null,
             codes' = [d \in Code |->
                IF d = c THEN [lab |-> a.lab, secret |-> n, issuer |-> a.id,
                               state |-> "out", expired |-> FALSE]
                ELSE IF d \in RevokedBy(w) \union Rivals(w, n) THEN [codes[d] EXCEPT !.state = "revoked"]
                ELSE codes[d]],
             End(w), UNCHANGED <<users, labs, granted, admitted>>
      PROVE  IndInv'
  <2> DEFINE new == [lab |-> a.lab, secret |-> n, issuer |-> a.id, state |-> "out", expired |-> FALSE]
             R == RevokedBy(w) \union Rivals(w, n)
  <2>1. txn[w] # Idle /\ txn[w].op = "create_code"
    BY DEF InsertCode, At
  <2>2. a.id \in User /\ a.lab \in Laboratory
    BY <1>2, <2>1, UnderWay DEF Judged, Actor
  <2>3. new \in CodeRow /\ new # Null /\ new.state = "out"
    <3>1. new \in CodeRow /\ new.state = "out"
      BY <2>2 DEF CodeRow
    <3> HIDE DEF new
    <3> QED BY <3>1, NoRowAssumption
  <2>4. \A d \in R : d \in Code /\ codes[d] # Null
    BY <2>1, UnderWay DEF RevokedBy, Rivals, Outstanding
  <2>5. \A d \in R : codes[d] \in CodeRow
    BY <2>4 DEF IndInv, Typed
  <2> HIDE DEF new, R
  <2>6. codes'[c] = new
    BY <1>2 DEF new
  <2>7. \A d \in R \ {c} : codes'[d] = [codes[d] EXCEPT !.state = "revoked"]
    BY <1>2, <2>4 DEF R
  <2>8. \A d \in R \ {c} : codes'[d] \in CodeRow /\ codes'[d] # Null /\ codes'[d].state = "revoked"
    <3>1. \A d \in R \ {c} : codes'[d] \in CodeRow /\ codes'[d].state = "revoked"
      BY <2>5, <2>7 DEF CodeRow
    <3> QED BY <3>1, NoRowAssumption
  <2>9. \A d \in Code \ (R \union {c}) : codes'[d] = codes[d]
    BY <1>2 DEF R
  <2>10. codes' \in [Code -> CodeRow \union {Null}]
    <3>1. \A d \in Code : codes'[d] \in CodeRow \union {Null}
      BY <2>3, <2>6, <2>8, <2>9 DEF IndInv, Typed
    <3>2. codes' = [d \in Code |-> codes'[d]]
      BY <1>2
    <3> QED BY <3>1, <3>2
  <2>11. \A d \in Code : codes[d] # Null => codes'[d] # Null
    BY <2>3, <2>6, <2>8, <2>9
  <2>12. admitted' \in [Code -> Nat] /\ CodesAdmitOneGuest' /\ Counted'
    <3>1. admitted[c] = 0 /\ admitted' = admitted /\ admitted \in [Code -> Nat]
      BY <1>2 DEF IndInv, Typed, Counted
    <3> QED BY <2>3, <2>6, <2>8, <2>9, <3>1 DEF IndInv, CodesAdmitOneGuest, Counted
  <2>13. txn' = [txn EXCEPT ![w] = Idle] /\ UNCHANGED <<users, granted, server>>
    BY <1>2 DEF End
  <2>14. \A d \in R, v \in Worker \ {w} : CodeLock(d) \notin Holds(v)
    <3>1. \A d \in RevokedBy(w), v \in Worker \ {w} : CodeLock(d) \notin Holds(v)
      BY <2>1, UnderWay DEF RevokedBy
    <3>2. \A d \in Rivals(w, n), v \in Worker \ {w} : CodeLock(d) \notin Holds(v)
      BY <1>2 DEF Contested
    <3> QED BY <3>1, <3>2 DEF R
  <2>15. \A v \in Worker, d \in Code : txn'[v] # Idle /\ CodeLock(d) \in txn[v].locks => d \notin R
    BY <2>13, <2>14, OthersLockNot
  <2>16. \A d \in Code \ R : Outstanding(d) =>
            Outstanding(d)' /\ codes'[d].issuer = codes[d].issuer /\ codes'[d].lab = codes[d].lab
    BY <1>2, <2>9 DEF Outstanding
  <2>17. txn' \in [Worker -> Txn \union {Idle}] /\ \A v \in Worker : txn'[v] \in {txn[v], Idle}
    BY <2>13, EndsKeepTyped
  <2> QED BY <2>10, <2>11, <2>12, <2>13, <2>15, <2>16, <2>17, CodeWritesKeep
<1>3. PICK a : a = txn[w].actor
  OBVIOUS
<1> QED BY <1>1, <1>2, <1>3 DEF InsertCode

LEMMA AdmissionKeeps ==
    ASSUME IndInv, NEW w \in Worker, AdmitGuest(w)
    PROVE  IndInv'
<1>1. CASE Refuse(w)
  BY <1>1, RefusalKeeps
<1>2. ASSUME NEW n \in User, users[n] = Null, NEW c, c = txn[w].code,
             users' = [users EXCEPT ![n] = [type |-> "guest", lab |-> codes[c].lab,
                                            password |-> SomePassword, email |-> txn[w].email]],
             codes' = [codes EXCEPT ![c].state = "used"],
             admitted' = [admitted EXCEPT ![c] = @ + 1],
             Grant(n, [type |-> "guest", lab |-> codes[c].lab]), End(w), UNCHANGED labs
      PROVE  IndInv'
  <2> DEFINE row == [type |-> "guest", lab |-> codes[c].lab,
                     password |-> SomePassword, email |-> txn[w].email]
  <2>1. txn[w] # Idle /\ txn[w].op = "register" /\ txn[w].step = "write"
    BY DEF AdmitGuest, At
  <2>2. c \in Code /\ Outstanding(c) /\ CodeLock(c) \in txn[w].locks
    BY <1>2, <2>1, UnderWay DEF Invited
  <2>3. codes[c] \in CodeRow /\ codes[c] # Null /\ admitted[c] = 0
    BY <2>2 DEF IndInv, Typed, Outstanding, Counted
  <2>4. row \in Account /\ row # Null
    <3>1. txn[w].email \in Email \union {Null} /\ SomePassword \in Password
      BY <2>1, UnderWay, PasswordAssumption DEF Txn, SomePassword
    <3> QED BY <2>3, <3>1, NoRowAssumption DEF Account, UserType, Place, CodeRow
  <2>5. /\ users' \in [User -> Account \union {Null, Gone}] /\ users'[n] = row
        /\ \A u \in User \ {n} : users'[u] = users[u]
    BY <1>2, <2>4 DEF IndInv, Typed
  <2>6. /\ codes'[c] \in CodeRow /\ codes'[c] # Null /\ codes'[c].state = "used"
        /\ codes' \in [Code -> CodeRow \union {Null}]
        /\ \A d \in Code \ {c} : codes'[d] = codes[d]
    <3>1. codes' = [codes EXCEPT ![c] = [codes[c] EXCEPT !.state = "used"]]
      BY <1>2
    <3>2. [codes[c] EXCEPT !.state = "used"] \in CodeRow /\ [codes[c] EXCEPT !.state = "used"].state = "used"
      BY <2>3 DEF CodeRow
    <3> QED BY <2>2, <3>1, <3>2, NoRowAssumption DEF IndInv, Typed
  <2>7. admitted' \in [Code -> Nat] /\ admitted'[c] = 1 /\ \A d \in Code \ {c} : admitted'[d] = admitted[d]
    BY <1>2, <2>2, <2>3 DEF IndInv, Typed
  <2>8. CodesAdmitOneGuest' /\ Counted'
    BY <2>6, <2>7 DEF IndInv, CodesAdmitOneGuest, Counted
  <2>9. granted \subseteq granted' /\ RolesWereGranted'
    <3>1. granted' = granted \union {<<n, [type |-> "guest", lab |-> codes[c].lab]>>}
      BY <1>2 DEF Grant
    <3>2. RoleOf(n)' = [type |-> "guest", lab |-> codes[c].lab]
      BY <2>5 DEF RoleOf
    <3>3. \A u \in User \ {n} : There(u)' => There(u) /\ RoleOf(u)' = RoleOf(u)
      BY <2>5 DEF There, RoleOf
    <3> HIDE DEF RoleOf, There
    <3> QED BY <3>1, <3>2, <3>3 DEF IndInv, RolesWereGranted
  <2>10. txn' = [txn EXCEPT ![w] = Idle]
    BY <1>2 DEF End, IndInv
  <2>11. txn' \in [Worker -> Txn \union {Idle}] /\ \A v \in Worker : txn'[v] \in {txn[v], Idle}
    BY <2>10, EndsKeepTyped
  <2>12. \A v \in Worker : txn'[v] # Idle => CodeLock(c) \notin txn[v].locks
    BY <2>1, <2>2, <2>10, UnderWay, OthersLockNot
  <2>13. \A v \in Worker, d \in Code :
            txn'[v] # Idle /\ CodeLock(d) \in txn[v].locks /\ Outstanding(d) =>
               Outstanding(d)' /\ codes'[d].issuer = codes[d].issuer /\ codes'[d].lab = codes[d].lab
    BY <2>6, <2>12 DEF Outstanding
  <2>14. \A u \in User : /\ users[u] # Null => users'[u] # Null
                         /\ There(u) => There(u)' /\ users'[u].type = users[u].type
                                        /\ users'[u].lab = users[u].lab
    BY <1>2, <2>5, NoRowAssumption DEF There
  <2>15. \A d \in Code : codes[d] # Null => codes'[d] # Null
    BY <2>6
  <2> QED BY <2>5, <2>6, <2>7, <2>8, <2>9, <2>10, <2>11, <2>13, <2>14, <2>15, WritesKeep
<1>3. PICK c : c = txn[w].code
  OBVIOUS
<1> QED BY <1>1, <1>2, <1>3 DEF AdmitGuest

LEMMA ExpiryKeeps ==
    ASSUME IndInv, NEW c \in Code, Expire(c)
    PROVE  IndInv'
<1>1. codes[c] # Null /\ codes[c] \in CodeRow
  BY DEF Expire, Outstanding, IndInv, Typed
<1>2. codes' = [codes EXCEPT ![c] = [codes[c] EXCEPT !.expired = TRUE]]
  BY DEF Expire
<1>3. /\ codes' \in [Code -> CodeRow \union {Null}]
      /\ \A d \in Code : /\ (codes[d] # Null <=> codes'[d] # Null)
                         /\ codes'[d].state = codes[d].state \/ codes[d] = Null
                         /\ Outstanding(d) => Outstanding(d)' /\ codes'[d].issuer = codes[d].issuer
                                              /\ codes'[d].lab = codes[d].lab
  BY <1>1, <1>2, NoRowAssumption DEF IndInv, Typed, CodeRow, Outstanding
<1>4. admitted' \in [Code -> Nat] /\ CodesAdmitOneGuest' /\ Counted'
  BY <1>3 DEF Expire, IndInv, Typed, CodesAdmitOneGuest, Counted
<1>5. /\ UNCHANGED <<users, granted, server, txn>>
      /\ txn' \in [Worker -> Txn \union {Idle}]
  BY DEF Expire, IndInv, Typed
<1> QED BY <1>3, <1>4, <1>5, CodeWritesKeep
(* Rows that stay as they are. *)
LEMMA RowsStay ==
    ASSUME IndInv, UNCHANGED rows,
           txn' \in [Worker -> Txn \union {Idle}], \A v \in Worker : txn'[v] \in {txn[v], Idle}
    PROVE  IndInv'
<1>1. UNCHANGED <<users, codes, granted, admitted>>
  BY DEF rows
<1>2. /\ users' \in [User -> Account \union {Null, Gone}]
      /\ codes' \in [Code -> CodeRow \union {Null}] /\ admitted' \in [Code -> Nat]
      /\ RolesWereGranted' /\ CodesAdmitOneGuest' /\ Counted'
  BY <1>1 DEF IndInv, Typed, RolesWereGranted, RoleOf, There, CodesAdmitOneGuest, Counted
<1>3. /\ \A u \in User : (There(u) => There(u)') /\ users'[u] = users[u]
      /\ \A c \in Code : (Outstanding(c) => Outstanding(c)') /\ codes'[c] = codes[c]
  BY <1>1 DEF There, Outstanding
<1> QED BY <1>1, <1>2, <1>3, WritesKeep

LEMMA SessionsKeep ==
    ASSUME IndInv, NEW s \in Session, EndOrphanedSession(s) \/ Logout(s)
    PROVE  IndInv'
<1>1. UNCHANGED <<rows, txn, server>>
  BY DEF EndOrphanedSession, Logout
<1>2. txn' \in [Worker -> Txn \union {Idle}]
  BY <1>1 DEF IndInv, Typed
<1> QED BY <1>1, <1>2, RowsStay

LEMMA StartsKeep ==
    ASSUME IndInv, Starts
    PROVE  IndInv'
<1>1. txn' = txn /\ txn' \in [Worker -> Txn \union {Idle}]
  BY DEF Starts, CheckSeeded, SetInitial, EnsureRotated, Up, IndInv, Typed
<1>2. CASE CheckSeeded \/ EnsureRotated
  <2>1. UNCHANGED rows
    BY <1>2 DEF CheckSeeded, EnsureRotated, Up, rows, SeededNow
  <2> QED BY <1>1, <2>1, RowsStay
<1>3. CASE SetInitial
  <2>1. UNCHANGED <<labs, codes, granted, admitted>> /\ Root \in User /\ Initial \in Password
    BY <1>3, RootAssumption, PasswordAssumption DEF SetInitial, Up
  <2>2. CASE There(Root)
    BY <1>1, <1>3, <2>1, <2>2, PasswordWritesKeep DEF SetInitial
  <2>3. CASE ~There(Root)
    BY <1>1, <1>3, <2>1, <2>3, RowsStay DEF SetInitial, rows
  <2> QED BY <2>2, <2>3
<1> QED BY <1>2, <1>3 DEF Starts

LEMMA RestartKeeps ==
    ASSUME IndInv, Restart
    PROVE  IndInv'
  BY RowsStay DEF Restart

LEMMA CommandKeeps ==
    ASSUME IndInv, NEW p \in Password, SetPasswordCommand(p)
    PROVE  IndInv'
<1>1. txn' = txn /\ txn' \in [Worker -> Txn \union {Idle}] /\ Root \in User
  BY RootAssumption DEF SetPasswordCommand, IndInv, Typed
<1> QED BY <1>1, PasswordWritesKeep DEF SetPasswordCommand

-----------------------------------------------------------------------------

LEMMA BeginsKeep ==
    ASSUME IndInv, NEW w \in Worker, Begins(w)
    PROVE  IndInv'
  BY CreateUserBegins, ChangesBegin, PasswordChangesBegin, LaboratoriesBegin, CodesBegin,
     LoginsBegin, RegistrationsBegin DEF Begins

LEMMA ContinuesKeep ==
    ASSUME IndInv, NEW w \in Worker, Continues(w)
    PROVE  IndInv'
<1>1. CASE OpenSession(w)
  BY <1>1, MovesKeep, IdleIsNoRequest DEF OpenSession
<1>2. CASE AbortDeadlocked(w)
  BY <1>2, RefusalKeeps DEF AbortDeadlocked
<1> QED BY <1>1, <1>2, InsertKeeps, FetchKeeps, UpdateKeeps, RemovalKeeps, SwapKeeps, LaboratoryKeeps,
           LockLaboratoryKeeps, RevokeKeeps, InsertCodeKeeps, ConsumeKeeps, AdmissionKeeps DEF Continues

LEMMA StepsKeep ==
    ASSUME IndInv, [Next]_vars
    PROVE  IndInv'
<1>1. CASE UNCHANGED vars
  <2>1. UNCHANGED <<rows, txn, server>>
    BY <1>1 DEF vars
  <2>2. txn' \in [Worker -> Txn \union {Idle}]
    BY <2>1 DEF IndInv, Typed
  <2> QED BY <2>1, <2>2, RowsStay
<1> QED BY <1>1, BeginsKeep, ContinuesKeep, SessionsKeep, ExpiryKeeps, StartsKeep, RestartKeeps,
           CommandKeeps DEF Next

LEMMA StartIsInductive ==
    ASSUME Init
    PROVE  IndInv
<1>1. PICK s \in Start : users = s.users /\ server = s.server
  BY DEF Init
<1>2. /\ users \in [User -> Account \union {Null, Gone}] /\ server # "setting"
      /\ codes = [c \in Code |-> Null] /\ txn = [w \in Worker |-> Idle]
      /\ admitted = [c \in Code |-> 0]
      /\ granted = {<<u, RoleOf(u)>> : u \in {v \in User : There(v)}}
  BY <1>1, StartAssumption DEF Init
<1>3. Typed
  BY <1>2 DEF Typed
<1>4. \A w \in Worker : txn[w] = Idle /\ Holds(w) = {}
  BY <1>2 DEF Holds
<1>5. \A w \in Worker : Judged(txn[w]) /\ Invited(txn[w])
  BY <1>4, IdleIsNoRequest
<1>6. RolesWereGranted
  BY <1>2 DEF RolesWereGranted
<1>7. CodesAdmitOneGuest /\ Counted
  BY <1>2 DEF CodesAdmitOneGuest, Counted
<1> QED BY <1>2, <1>3, <1>4, <1>5, <1>6, <1>7 DEF IndInv, Exclusive, LockedRowsAreThere

\* The types of the rows, what is left of each request's judgement, the locks
\* a registration relies on: from the first statement to the last.
THEOREM Inductive == Spec => []IndInv
<1>1. Init => IndInv
  BY StartIsInductive
<1>2. IndInv /\ [Next]_vars => IndInv'
  BY StepsKeep
<1> QED BY <1>1, <1>2, PTL DEF Spec

\* update_user and delete_user: whatever another request does between the
\* check of a role and the write, an account has the roles it was given.
THEOREM RolesAreGranted == Spec => []RolesWereGranted
<1>1. IndInv => RolesWereGranted
  BY DEF IndInv
<1> QED BY <1>1, Inductive, PTL

\* consume_registration_code and store_new_user: a code lets in one guest.
THEOREM OneGuestPerCode == Spec => []CodesAdmitOneGuest
<1>1. IndInv => CodesAdmitOneGuest
  BY DEF IndInv
<1> QED BY <1>1, Inductive, PTL

-----------------------------------------------------------------------------
(* Steps *)

LEMMA BeginsWriteNothing ==
    ASSUME NEW w \in Worker, Begins(w)
    PROVE  UNCHANGED <<rows, server>>
  BY DEF Begins, BeginCreateUser, BeginChangeOf, BeginChangePassword, BeginLaboratory, BeginCreateCode,
         BeginLogin, BeginRegister, Begin

LEMMA RegistrationsAdmit ==
    ASSUME NEW w \in Worker, Continues(w), ~AdmitGuest(w)
    PROVE  admitted' = admitted
  BY DEF Continues, InsertUser, FetchTarget, UpdateUser, RemoveUser, OpenSession, SwapPassword,
         CommitLaboratory, LockLaboratory, RevokeCode, InsertCode, ConsumeCode, AbortDeadlocked,
         Refuse, GoOn, rows

\* consume_registration_code: "Rechecking the issuer's current role and
\* laboratory prevents a stale invitation from surviving", and the locks it
\* takes make that hold at the insert too.
THEOREM InvitationsAreGood == Spec => InvitationsStand
<1> DEFINE Stand == \A c \in Code : admitted'[c] # admitted[c] => Entitled(c)
<1>1. IndInv /\ [Next]_vars => [Stand]_vars
  <2> SUFFICES ASSUME IndInv, Next, NEW c \in Code, admitted'[c] # admitted[c]
               PROVE  Entitled(c)
    OBVIOUS
  <2>1. ASSUME NEW w \in Worker, AdmitGuest(w) PROVE Entitled(c)
    <3>1. /\ Invited(txn[w]) /\ txn[w].op = "register" /\ txn[w].step = "write"
      BY <2>1, UnderWay DEF AdmitGuest, At
    <3>2. Entitled(txn[w].code)
      BY <3>1 DEF Invited
    <3>3. admitted' = admitted \/ admitted' = [admitted EXCEPT ![txn[w].code] = @ + 1]
      BY <2>1 DEF AdmitGuest, Refuse, rows
    <3>4. c = txn[w].code
      BY <3>3 DEF IndInv, Typed
    <3> QED BY <3>2, <3>4
  <2>2. ASSUME NEW w \in Worker, Begins(w) PROVE FALSE
    BY <2>2, BeginsWriteNothing DEF rows
  <2>3. ASSUME NEW w \in Worker, Continues(w), ~AdmitGuest(w) PROVE FALSE
    BY <2>3, RegistrationsAdmit
  <2>4. ASSUME \/ \E s \in Session : EndOrphanedSession(s) \/ Logout(s)
               \/ \E d \in Code : Expire(d)
               \/ Starts \/ Restart
               \/ \E p \in Password : SetPasswordCommand(p)
        PROVE  FALSE
    BY <2>4 DEF EndOrphanedSession, Logout, Expire, Starts, CheckSeeded, SetInitial, EnsureRotated, Up,
                Restart, SetPasswordCommand, rows
  <2> QED BY <2>1, <2>2, <2>3, <2>4 DEF Next
<1> QED BY <1>1, Inductive, PTL DEF Spec, InvitationsStand

-----------------------------------------------------------------------------
(* What the lock on the laboratory is for: with it, a request that is to     *)
(* write has seen, and will revoke, every code its laboratory has out.       *)

Found(w) ==
    txn[w] # Idle /\ txn[w].op = "create_code" =>
        /\ txn[w].step \in {"revoke", "write"} => LabRow(txn[w].actor.lab) \in txn[w].locks
        /\ txn[w].step = "write" => CodesOut(txn[w].actor.lab) \subseteq RevokedBy(w)

AllFound == \A w \in Worker : Found(w)

LEMMA OnlyInsertsComeOut ==
    ASSUME IndInv, Next, NEW c \in Code, Outstanding(c)',
           ~(Outstanding(c) /\ codes'[c].lab = codes[c].lab)
    PROVE  \E w \in Worker : /\ At(w, "create_code", "write") /\ txn'[w] = Idle
                             /\ codes'[c].lab = txn[w].actor.lab
<1>1. codes' # codes
  BY DEF Outstanding
<1>2. \A d \in Code : codes[d] # Null => codes[d] \in CodeRow
  BY DEF IndInv, Typed
<1>3. ASSUME NEW S \in SUBSET Code, \A d \in S : codes[d] # Null, codes' = Cascade(S)
      PROVE  FALSE
  <2>1. CASE c \in S
    <3>1. codes'[c] = [codes[c] EXCEPT !.state = "deleted"] /\ codes[c] \in CodeRow
      BY <1>2, <1>3, <2>1 DEF Cascade
    <3>2. codes'[c].state = "deleted"
      BY <3>1 DEF CodeRow
    <3> QED BY <3>2 DEF Outstanding
  <2>2. CASE c \notin S
    BY <1>3, <2>2 DEF Cascade, Outstanding
  <2> QED BY <2>1, <2>2
<1>4. ASSUME NEW w \in Worker, AdmitGuest(w) PROVE FALSE
  <2>1. codes' = [codes EXCEPT ![txn[w].code].state = "used"]
    BY <1>1, <1>4 DEF AdmitGuest, Refuse, rows
  <2>2. codes[txn[w].code] \in CodeRow /\ txn[w].code \in Code
    BY <1>2, <1>4, UnderWay DEF AdmitGuest, At, Invited, Outstanding
  <2>3. codes'[txn[w].code].state = "used" /\ \A d \in Code \ {txn[w].code} : codes'[d] = codes[d]
    BY <2>1, <2>2 DEF IndInv, Typed, CodeRow
  <2> QED BY <2>3 DEF Outstanding
<1>5. ASSUME NEW d \in Code, Expire(d) PROVE FALSE
  <2>1. codes' = [codes EXCEPT ![d] = [codes[d] EXCEPT !.expired = TRUE]]
    BY <1>5 DEF Expire
  <2>2. codes[d] \in CodeRow
    BY <1>2, <1>5 DEF Expire, Outstanding
  <2>3. /\ Outstanding(d) /\ codes'[d].lab = codes[d].lab
        /\ \A e \in Code \ {d} : codes'[e] = codes[e]
    BY <1>5, <2>1, <2>2 DEF Expire, IndInv, Typed, CodeRow
  <2> QED BY <2>3 DEF Outstanding
<1>6. ASSUME NEW w \in Worker, InsertCode(w)
      PROVE  /\ At(w, "create_code", "write") /\ txn'[w] = Idle
             /\ codes'[c].lab = txn[w].actor.lab
  <2>1. At(w, "create_code", "write") /\ txn'[w] = Idle
    BY <1>1, <1>6 DEF InsertCode, Refuse, End, rows, IndInv, Typed
  <2>2. PICK n \in Secret, e \in Code :
           codes' = [d \in Code |->
                IF d = e THEN [lab |-> txn[w].actor.lab, secret |-> n, issuer |-> txn[w].actor.id,
                               state |-> "out", expired |-> FALSE]
                ELSE IF d \in RevokedBy(w) \union Rivals(w, n) THEN [codes[d] EXCEPT !.state = "revoked"]
                ELSE codes[d]]
    BY <1>1, <1>6 DEF InsertCode, Refuse, rows
  <2>3. \A d \in RevokedBy(w) \union Rivals(w, n) : codes[d] \in CodeRow
    BY <1>2, <2>1, UnderWay DEF At, RevokedBy, Rivals, Outstanding
  <2>4. CASE c = e
    BY <2>1, <2>2, <2>4
  <2>5. CASE c # e /\ c \in RevokedBy(w) \union Rivals(w, n)
    <3>1. codes'[c] = [codes[c] EXCEPT !.state = "revoked"] /\ codes[c] \in CodeRow
      BY <2>2, <2>3, <2>5
    <3>2. codes'[c].state = "revoked"
      BY <3>1 DEF CodeRow
    <3> QED BY <3>2 DEF Outstanding
  <2>6. CASE c # e /\ c \notin RevokedBy(w) \union Rivals(w, n)
    BY <2>2, <2>6 DEF Outstanding
  <2> QED BY <2>4, <2>5, <2>6
<1>7. ASSUME NEW w \in Worker, Begins(w) PROVE FALSE
  BY <1>1, <1>7, BeginsWriteNothing DEF rows
<1>8. ASSUME NEW w \in Worker, Continues(w), ~AdmitGuest(w), ~InsertCode(w) PROVE FALSE
  <2>1. CASE RemoveUser(w)
    BY <1>1, <1>3, <2>1 DEF RemoveUser, Refuse, rows, IssuedBy
  <2>2. CASE CommitLaboratory(w)
    BY <1>1, <1>3, <2>2 DEF CommitLaboratory, Refuse, rows
  <2>3. CASE ~RemoveUser(w) /\ ~CommitLaboratory(w)
    BY <1>1, <1>8, <2>3 DEF Continues, InsertUser, FetchTarget, UpdateUser, OpenSession,
           SwapPassword, LockLaboratory, RevokeCode, ConsumeCode, AbortDeadlocked, Refuse, GoOn, rows
  <2> QED BY <2>1, <2>2, <2>3
<1>9. ASSUME \/ \E s \in Session : EndOrphanedSession(s) \/ Logout(s)
             \/ Starts \/ Restart
             \/ \E p \in Password : SetPasswordCommand(p)
      PROVE  FALSE
  BY <1>1, <1>9 DEF EndOrphanedSession, Logout, Starts, CheckSeeded, SetInitial, EnsureRotated, Up,
              Restart, SetPasswordCommand, rows
<1> QED BY <1>4, <1>5, <1>6, <1>7, <1>8, <1>9 DEF Next

LEMMA BeginsBegin ==
    ASSUME NEW w \in Worker, Begins(w)
    PROVE  \E t : /\ txn[w] = Idle /\ txn' = [txn EXCEPT ![w] = t]
                  /\ t.op = "create_code" => t.step = "laboratory"
<1> DEFINE Started == \E t : /\ txn[w] = Idle /\ txn' = [txn EXCEPT ![w] = t]
                             /\ t.op = "create_code" => t.step = "laboratory"
<1>1. ASSUME NEW t, Begin(w, t), t.op = "create_code" => t.step = "laboratory"
      PROVE  Started
  BY <1>1 DEF Begin
<1> SUFFICES Started
  OBVIOUS
<1> HIDE DEF Started
<1>2. CASE \E u \in User : BeginCreateUser(w, u)
  BY <1>1, <1>2 DEF BeginCreateUser, Request
<1>3. CASE \E u \in User : BeginChangeOf(w, u)
  BY <1>1, <1>3 DEF BeginChangeOf, Request
<1>4. CASE \E u \in User : BeginChangePassword(w, u)
  BY <1>1, <1>4 DEF BeginChangePassword, Request
<1>5. CASE \E u \in User : BeginLaboratory(w, u)
  BY <1>1, <1>5 DEF BeginLaboratory, Request
<1>6. CASE \E u \in User : BeginCreateCode(w, u)
  BY <1>1, <1>6 DEF BeginCreateCode, Request
<1>7. CASE \E s \in Session : BeginLogin(w, s)
  BY <1>1, <1>7 DEF BeginLogin, Request
<1>8. CASE BeginRegister(w)
  BY <1>1, <1>8 DEF BeginRegister, Request
<1> QED BY <1>2, <1>3, <1>4, <1>5, <1>6, <1>7, <1>8 DEF Begins

LEMMA CodeRequestsGoOn ==
    ASSUME IndInv, Next, NEW v \in Worker, txn'[v] # txn[v], txn'[v] # Idle,
           txn'[v].op = "create_code", txn'[v].step \in {"revoke", "write"}
    PROVE  LockLaboratory(v) \/ RevokeCode(v)
<1>1. txn \in [Worker -> Txn \union {Idle}]
  BY DEF IndInv, Typed
<1>2. ASSUME NEW w \in Worker, Begins(w) PROVE FALSE
  BY <1>1, <1>2, BeginsBegin
<1>3. ASSUME NEW w \in Worker, FetchTarget(w) \/ ConsumeCode(w) PROVE FALSE
  <2>1. txn[w] \in Txn /\ txn[w].op # "create_code"
    BY <1>3, UnderWay DEF FetchTarget, ConsumeCode, At
  <2>2. ASSUME NEW t, txn' = [txn EXCEPT ![w] = t], t = Idle \/ t.op = txn[w].op PROVE FALSE
    BY <1>1, <2>1, <2>2
  <2>3. ~Refuse(w)
    BY <2>2 DEF Refuse, End
  <2>4. ASSUME NEW t, GoOn(w, t), t.op = txn[w].op PROVE FALSE
    BY <2>2, <2>4 DEF GoOn
  <2>5. CASE FetchTarget(w)
    BY <2>1, <2>3, <2>4, <2>5 DEF FetchTarget, Txn
  <2>6. CASE ConsumeCode(w)
    BY <2>1, <2>3, <2>4, <2>6 DEF ConsumeCode, Txn
  <2> QED BY <1>3, <2>5, <2>6
<1>4. ASSUME NEW w \in Worker, LockLaboratory(w) \/ RevokeCode(w) PROVE w = v
  BY <1>1, <1>4 DEF LockLaboratory, RevokeCode, GoOn, Refuse, End
<1>5. ASSUME NEW w \in Worker, Continues(w), ~(FetchTarget(w) \/ ConsumeCode(w)),
             ~(LockLaboratory(w) \/ RevokeCode(w))
      PROVE  FALSE
  BY <1>1, <1>5 DEF Continues, InsertUser, UpdateUser, RemoveUser, OpenSession, SwapPassword,
         CommitLaboratory, InsertCode, AdmitGuest, AbortDeadlocked, Refuse, End
<1>6. ASSUME \/ \E s \in Session : EndOrphanedSession(s) \/ Logout(s)
             \/ \E d \in Code : Expire(d)
             \/ Starts \/ Restart
             \/ \E p \in Password : SetPasswordCommand(p)
      PROVE  FALSE
  BY <1>6 DEF EndOrphanedSession, Logout, Expire, Starts, CheckSeeded, SetInitial, EnsureRotated, Up,
              Restart, SetPasswordCommand
<1> QED BY <1>2, <1>3, <1>4, <1>5, <1>6 DEF Next
LEMMA LocksFindTheCodes ==
    ASSUME IndInv, AllFound, Next
    PROVE  AllFound'
<1>1. SUFFICES ASSUME NEW v \in Worker, txn'[v] # Idle, txn'[v].op = "create_code",
                      txn'[v].step \in {"revoke", "write"}
               PROVE  /\ LabRow(txn'[v].actor.lab) \in txn'[v].locks
                      /\ txn'[v].step = "write" =>
                            \A c \in Code : Outstanding(c)' /\ codes'[c].lab = txn'[v].actor.lab =>
                                CodeLock(c) \in txn'[v].locks
  BY DEF AllFound, Found, CodesOut, RevokedBy
<1>2. CASE txn'[v] = txn[v]
  <2>1. /\ LabRow(txn[v].actor.lab) \in txn[v].locks
        /\ txn[v].step = "write" =>
              \A c \in Code : Outstanding(c) /\ codes[c].lab = txn[v].actor.lab =>
                  CodeLock(c) \in txn[v].locks
    BY <1>1, <1>2 DEF AllFound, Found, CodesOut, RevokedBy
  <2>2. ASSUME NEW c \in Code, Outstanding(c)', codes'[c].lab = txn[v].actor.lab
        PROVE  Outstanding(c) /\ codes[c].lab = txn[v].actor.lab
    <3>1. CASE Outstanding(c) /\ codes'[c].lab = codes[c].lab
      BY <2>2, <3>1
    <3>2. CASE ~(Outstanding(c) /\ codes'[c].lab = codes[c].lab)
      <4>1. PICK w \in Worker : /\ At(w, "create_code", "write") /\ txn'[w] = Idle
                                /\ codes'[c].lab = txn[w].actor.lab
        BY <2>2, <3>2, OnlyInsertsComeOut
      <4>2. w # v /\ LabRow(txn[w].actor.lab) \in Holds(w)
        BY <1>1, <4>1, UnderWay DEF At, AllFound, Found
      <4>3. LabRow(txn[v].actor.lab) \in Holds(v)
        BY <1>1, <1>2, <2>1, UnderWay
      <4>4. LabRow(txn[w].actor.lab) = LabRow(txn[v].actor.lab)
        BY <2>2, <4>1
      <4> QED BY <4>2, <4>3, <4>4 DEF IndInv, Exclusive
    <3> QED BY <3>1, <3>2
  <2> QED BY <1>2, <2>1, <2>2
<1>3. CASE txn'[v] # txn[v]
  <2>1. LockLaboratory(v) \/ RevokeCode(v)
    BY <1>1, <1>3, CodeRequestsGoOn
  <2>2. txn[v] # Idle /\ txn[v].op = "create_code" /\ txn[v] \in Txn
    BY <2>1, UnderWay DEF LockLaboratory, RevokeCode, At
  <2>3. CASE LockLaboratory(v)
    <3>1. Wanted(v) = {LabRow(txn[v].actor.lab)}
      BY <2>2, <2>3, WantedByCreateCode DEF LockLaboratory, At
    <3>2. txn'[v] = [txn[v] EXCEPT !.step = "revoke", !.locks = @ \union Wanted(v)]
      BY <1>1, <2>3 DEF LockLaboratory, Refuse, GoOn, End, IndInv, Typed
    <3>3. /\ txn'[v].step = "revoke" /\ txn'[v].actor = txn[v].actor
          /\ txn'[v].locks = txn[v].locks \union Wanted(v)
      BY <2>2, <3>2 DEF Txn
    <3> QED BY <3>1, <3>3
  <2>4. CASE RevokeCode(v)
    <3>1. Wanted(v) = {CodeLock(c) : c \in CodesOut(txn[v].actor.lab)}
      BY <2>2, <2>4, WantedByCreateCode DEF RevokeCode, At
    <3>2. LabRow(txn[v].actor.lab) \in txn[v].locks
      BY <2>2, <2>4 DEF RevokeCode, At, AllFound, Found
    <3>3. txn'[v] = [txn[v] EXCEPT !.step = "write", !.locks = @ \union Wanted(v)]
      BY <2>4 DEF RevokeCode, GoOn, IndInv, Typed
    <3>4. txn'[v].actor = txn[v].actor /\ txn'[v].locks = txn[v].locks \union Wanted(v)
      BY <2>2, <3>3 DEF Txn
    <3>5. codes' = codes
      BY <2>4 DEF RevokeCode, GoOn, rows
    <3>6. \A c \in Code : Outstanding(c)' /\ codes'[c].lab = txn[v].actor.lab =>
             CodeLock(c) \in Wanted(v)
      BY <3>1, <3>5 DEF Outstanding, CodesOut
    <3> QED BY <3>2, <3>4, <3>6
  <2> QED BY <2>1, <2>3, <2>4
<1> QED BY <1>2, <1>3

LEMMA LocksStay == Spec => []AllFound
<1>1. Init => AllFound
  BY DEF Init, AllFound, Found
<1>2. IndInv /\ AllFound /\ [Next]_vars => AllFound'
  <2>1. UNCHANGED vars /\ AllFound => AllFound'
    BY DEF vars, rows, AllFound, Found, CodesOut, RevokedBy, Outstanding
  <2> QED BY <2>1, LocksFindTheCodes
<1> QED BY <1>1, <1>2, Inductive, PTL DEF Spec

LEMMA OnlyInsertsGiveUp ==
    ASSUME IndInv, Next, NEW w \in Worker, GivesUp(w)
    PROVE  InsertCode(w)
<1>1. /\ txn[w] # Idle /\ txn[w].op = "create_code" /\ txn[w].step = "write"
      /\ Blockers(w) = {} /\ txn'[w] = Idle /\ server' = server
      /\ txn \in [Worker -> Txn \union {Idle}]
  BY DEF GivesUp, IndInv, Typed
<1>2. ASSUME NEW v \in Worker, Begins(v) PROVE FALSE
  BY <1>1, <1>2, BeginsBegin
<1>3. ASSUME NEW v \in Worker, Continues(v), ~InsertCode(v) PROVE FALSE
  <2>1. v = w
    BY <1>1, <1>3 DEF Continues, InsertUser, FetchTarget, UpdateUser, RemoveUser, OpenSession, SwapPassword,
           CommitLaboratory, LockLaboratory, RevokeCode, ConsumeCode, AdmitGuest, AbortDeadlocked,
           Refuse, GoOn, End
  <2> QED BY <1>1, <1>3, <2>1 DEF Continues, At, InsertUser, FetchTarget, UpdateUser, RemoveUser,
           OpenSession, SwapPassword, CommitLaboratory, LockLaboratory, RevokeCode, ConsumeCode,
           AdmitGuest, AbortDeadlocked
<1>4. ASSUME NEW v \in Worker, InsertCode(v) PROVE v = w
  BY <1>1, <1>4 DEF InsertCode, Refuse, End
<1>5. ASSUME \/ \E s \in Session : EndOrphanedSession(s) \/ Logout(s)
             \/ \E d \in Code : Expire(d)
             \/ Starts \/ \E p \in Password : SetPasswordCommand(p)
      PROVE  FALSE
  BY <1>1, <1>5 DEF EndOrphanedSession, Logout, Expire, Starts, CheckSeeded, SetInitial, EnsureRotated, Up,
              SetPasswordCommand
<1>6. ~Restart
  BY <1>1 DEF Restart
<1> QED BY <1>2, <1>3, <1>4, <1>5, <1>6 DEF Next

\* create_guest_registration_code: of the requests of one laboratory each
\* replaces the code of the one before; it fails only where the secret it drew
\* is taken by another laboratory's.
THEOREM CodesComeOut == Spec => CodesAreGenerated
<1> DEFINE Generated ==
      \A w \in Worker : GivesUp(w) =>
          \E c \in Code : /\ Outstanding(c) /\ c \notin txn[w].late
                          /\ codes[c].lab # txn[w].actor.lab
<1>1. IndInv /\ AllFound /\ [Next]_vars => [Generated]_vars
  <2> SUFFICES ASSUME IndInv, AllFound, Next, NEW w \in Worker, GivesUp(w)
               PROVE  \E c \in Code : Outstanding(c) /\ c \notin txn[w].late /\ codes[c].lab # txn[w].actor.lab
    OBVIOUS
  <2>1. InsertCode(w) /\ There(txn[w].actor.id) /\ codes' = codes
    BY OnlyInsertsGiveUp DEF GivesUp
  <2>2. CodesOut(txn[w].actor.lab) \subseteq RevokedBy(w)
    BY <2>1 DEF InsertCode, At, AllFound, Found
  <2>3. ASSUME NEW n \in Secret, NEW d \in Code, codes[d] = Null, NEW row, row.state = "out",
               codes' = [e \in Code |->
                    IF e = d THEN row
                    ELSE IF e \in RevokedBy(w) \union Rivals(w, n) THEN [codes[e] EXCEPT !.state = "revoked"]
                    ELSE codes[e]],
               row \in CodeRow
        PROVE  FALSE
    BY <2>1, <2>3, NoRowAssumption
  <2>4. PICK n \in Secret : Taken(w, n)
    <3>1. ASSUME NEW n \in Secret, NEW d \in Code, codes[d] = Null,
                 codes' = [e \in Code |->
                    IF e = d THEN [lab |-> txn[w].actor.lab, secret |-> n, issuer |-> txn[w].actor.id,
                                   state |-> "out", expired |-> FALSE]
                    ELSE IF e \in RevokedBy(w) \union Rivals(w, n) THEN [codes[e] EXCEPT !.state = "revoked"]
                    ELSE codes[e]]
          PROVE  FALSE
      <4>1. txn[w].actor.id \in User /\ txn[w].actor.lab \in Laboratory
        BY <2>1, UnderWay DEF InsertCode, At, Judged, Actor
      <4>2. [lab |-> txn[w].actor.lab, secret |-> n, issuer |-> txn[w].actor.id,
             state |-> "out", expired |-> FALSE] \in CodeRow
        BY <4>1 DEF CodeRow
      <4> QED BY <2>3, <3>1, <4>2
    <3> QED BY <2>1, <3>1 DEF InsertCode
  <2>5. PICK c \in Rivals(w, n) : c \notin txn[w].late
    BY <2>2, <2>4 DEF Taken
  <2>6. c \in Code /\ Outstanding(c) /\ c \notin RevokedBy(w)
    BY DEF Rivals
  <2>7. codes[c].lab # txn[w].actor.lab
    BY <2>2, <2>6 DEF CodesOut
  <2> QED BY <2>5, <2>6, <2>7
<1> QED BY <1>1, Inductive, LocksStay, PTL DEF Spec, CodesAreGenerated
=============================================================================
