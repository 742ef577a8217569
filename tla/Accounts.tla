------------------------------ MODULE Accounts ------------------------------
(***************************************************************************)
(* The accounts of one server (routes/users, routes/laboratories,          *)
(* routes/guests, routes/auth, authentication, session_state, bootstrap):  *)
(* who there is and with which role, the sessions opened for them, the     *)
(* registration codes laboratories hand to their guests, and the password  *)
(* of root at startup.                                                     *)
(*                                                                         *)
(* A worker handles one request.  The middleware reads the account of the  *)
(* session at its beginning; what the handler reads before its transaction *)
(* may have changed when the transaction writes.  A restart ends the       *)
(* requests under way and keeps the database and the sessions.             *)
(***************************************************************************)
EXTENDS AccessControl, Naturals, FiniteSets

CONSTANTS Worker, Session, Code, Secret, Password, Email,
          Contact,      \* the addresses accounts are given; guests bring any
          Root,         \* the account that is named root
          Seeded,       \* the password the migration writes for it
          Initial,      \* application.initial_root_password, when it is set
          Null, Gone,   \* no such row yet, SQL NULL; a row deleted
          Assigned,     \* the roles requests give
          Start,        \* accounts to begin with, the requests behaviours are made of,
                        \* and the settings of the deployment
          MaxRequests   \* bound: the requests, restarts and commands of a behaviour

ASSUME RootAssumption == Root \in User
ASSUME PasswordAssumption == {Seeded, Initial} \subseteq Password /\ Password # {Seeded}
ASSUME ContactAssumption == Contact \subseteq Email
ASSUME NullAssumption == Null \notin Email \union User \union Code
ASSUME AssignedAssumption == Assigned \subseteq Role
ASSUME RequestsAssumption == MaxRequests \in Nat

VARIABLES
    users, labs, sessions,
    codes,     \* guest_registration_codes
    server,    \* how far prepare_database is; "up" when requests are served
    txn, requests, menu,
    granted,   \* history: the roles given to each account by someone entitled to
    admitted   \* history: the guests each code has let in

rows == <<users, labs, codes, granted, admitted>>
vars == <<rows, sessions, server, txn, requests, menu>>

Account == [type : UserType, lab : Place, password : Password, email : Email \union {Null}]
CodeRow == [lab : Laboratory, secret : Secret, issuer : User,
            state : {"out", "used", "revoked", "deleted"}, expired : BOOLEAN]
ASSUME NoRowAssumption == /\ Null \notin Account \union CodeRow
                          /\ Gone \notin Account \union {Null}
ASSUME StartAssumption ==
    \A s \in Start : s.users \in [User -> Account \union {Null}] /\ s.server \in {"down", "up"}

Ops == {"create_user", "update_user", "delete_user", "change_password", "login",
        "create_laboratory", "delete_laboratory", "create_code", "register"}
Steps == {"fetch", "write", "verify", "laboratory", "revoke", "consume"}
Idle == [op |-> "idle"]
Lock == ({"user"} \X User) \union ({"code"} \X Code) \union ({"laboratory"} \X Laboratory)
Txn == [op : Ops, step : Steps, actor : Actor \union {Null}, on : User \union Laboratory \union {Null},
        role : Role \union {Null}, email : Email \union {Null}, password : Password \union {Null},
        secret : Secret \union {Null}, code : Code \union {Null}, session : Session \union {Null},
        late : SUBSET Code, locks : SUBSET Lock]

There(u) == users[u] \in Account
RoleOf(u) == [type |-> users[u].type, lab |-> users[u].lab]
ActorOf(u) == [id |-> u, type |-> users[u].type, lab |-> users[u].lab]
Outstanding(c) == codes[c] # Null /\ codes[c].state = "out"
CodesOut(l) == {c \in Code : Outstanding(c) /\ codes[c].lab = l}

TypeOK ==
    /\ users \in [User -> Account \union {Null, Gone}]
    /\ \A u \in User : There(u) => users[u].lab \in labs \/ (IsSystemAdmin(users[u]) /\ users[u].lab = NoLaboratory)
    /\ labs \subseteq Laboratory
    /\ sessions \in [Session -> User \union {Null}]
    /\ codes \in [Code -> CodeRow \union {Null}]
    /\ server \in {"down", "setting", "ensuring", "up"}
    /\ \A w \in Worker : txn[w] = Idle \/ txn[w] \in Txn
    /\ requests \in 0 .. MaxRequests

-----------------------------------------------------------------------------
(* Requests and row locks *)

(* now() is the time a transaction began: late are the codes expired by then. *)
Request(op, step) ==
    [op |-> op, step |-> step, actor |-> Null, on |-> Null, role |-> Null, email |-> Null,
     password |-> Null, secret |-> Null, code |-> Null, session |-> Null,
     late |-> {c \in Code : Outstanding(c) /\ codes[c].expired}, locks |-> {}]

Holds(v) == IF txn[v] = Idle THEN {} ELSE txn[v].locks

(* The rows the next statement of w locks, or waits for: also those that what *)
(* it writes refers to.                                                       *)
UserRow(u) == <<"user", u>>
CodeLock(c) == <<"code", c>>
LabRow(l) == <<"laboratory", l>>
Candidates(t) == {c \in Code : Outstanding(c) /\ codes[c].secret = t.secret /\ c \notin t.late}
IssuedBy(u) == {c \in Code : codes[c] # Null /\ codes[c].issuer = u}
Wanted(w) ==
    LET t == txn[w]
    IN CASE t.op = "create_code" /\ t.step = "laboratory" -> {LabRow(t.actor.lab)}
         [] t.op = "create_code" /\ t.step = "revoke" -> {CodeLock(c) : c \in CodesOut(t.actor.lab)}
         [] t.op = "create_code" /\ t.step = "write" -> {UserRow(t.actor.id)}
         [] t.op = "register" /\ t.step = "consume" ->
                UNION {{CodeLock(c), UserRow(codes[c].issuer)} : c \in Candidates(t)}
         [] t.op = "register" /\ t.step = "write" -> {LabRow(codes[t.code].lab)}
         [] t.op \in {"create_user", "update_user"} /\ t.step = "write" ->
                {LabRow(l) : l \in {t.role.lab} \ {NoLaboratory}} \union {UserRow(u) : u \in {t.on} \ {Null}}
         [] t.op = "delete_user" /\ t.step = "write" ->
                {UserRow(t.on)} \union {CodeLock(c) : c \in IssuedBy(t.on)}
         [] t.op = "change_password" /\ t.step = "write" -> {UserRow(t.actor.id)}
         [] t.op = "delete_laboratory" -> {LabRow(t.on)} \union {CodeLock(c) : c \in CodesOut(t.on)}
         [] OTHER -> {}
Blockers(w) == IF txn[w] = Idle THEN {}
               ELSE {v \in Worker \ {w} : Wanted(w) \intersect Holds(v) # {}}
At(w, op, step) == txn[w] # Idle /\ txn[w].op = op /\ txn[w].step = step /\ Blockers(w) = {}

Room == requests < MaxRequests /\ requests' = requests + 1 /\ UNCHANGED menu
Begin(w, t) == /\ txn[w] = Idle /\ server = "up" /\ t.op \in menu /\ Room
               /\ txn' = [txn EXCEPT ![w] = t]
               /\ UNCHANGED <<rows, sessions, server>>
GoOn(w, t) == txn' = [txn EXCEPT ![w] = t]
              /\ UNCHANGED <<rows, sessions, server, requests, menu>>
End(w) == txn' = [txn EXCEPT ![w] = Idle] /\ UNCHANGED <<sessions, server, requests, menu>>
Refuse(w) == End(w) /\ UNCHANGED rows \* an error answer, and ROLLBACK

(* reject_anonymous_users: a session without its account ends. *)
SignedIn(u) == (\E s \in Session : sessions[s] = u) /\ There(u)
EndOrphanedSession(s) ==
    /\ sessions[s] # Null /\ ~There(sessions[s])
    /\ sessions' = [sessions EXCEPT ![s] = Null]
    /\ UNCHANGED <<rows, server, txn, requests, menu>>

-----------------------------------------------------------------------------
(* create_user, update_user, delete_user *)

EmailFree(e, u) == e = Null \/ \A v \in User \ {u} : There(v) => users[v].email # e
(* history only *)
Grant(u, r) == granted' = granted \union {<<u, r>>}
GrantBy(a, u, r) == IF a.id # u /\ Outranks(a, r) THEN Grant(u, r) ELSE UNCHANGED granted

(* Bound: requests do not draw more new ids than there are. *)
Drawing(op) == {v \in Worker : txn[v] # Idle /\ txn[v].op \in op}
SpareUser == Cardinality({n \in User : users[n] = Null}) > Cardinality(Drawing({"create_user", "register"}))
SpareCode == Cardinality({c \in Code : codes[c] = Null}) > Cardinality(Drawing({"create_code"}))

SomePassword == CHOOSE p \in Password : p # Seeded \* which one does not matter

BeginCreateUser(w, u) ==
    \E r \in Assigned, e \in Contact \union {Null} :
        /\ SignedIn(u) /\ SpareUser /\ ValidRole(r) /\ CanManageUser(ActorOf(u), r)
        /\ Begin(w, [Request("create_user", "write") EXCEPT
                       !.actor = ActorOf(u), !.role = r, !.email = e])

(* insert_user, under the unique e-mail and the laboratory's foreign key. *)
InsertUser(w) ==
    LET t == txn[w]
    IN /\ At(w, "create_user", "write")
       /\ IF t.role.lab \notin labs \union {NoLaboratory} \/ ~EmailFree(t.email, Null) THEN Refuse(w)
          ELSE \E n \in User :
                  /\ users[n] = Null
                  /\ users' = [users EXCEPT ![n] = [type |-> t.role.type, lab |-> t.role.lab,
                                                    password |-> SomePassword, email |-> t.email]]
                  /\ GrantBy(t.actor, n, t.role)
                  /\ End(w)
                  /\ UNCHANGED <<labs, codes, admitted>>

BeginChangeOf(w, u) ==
    \E op \in {"update_user", "delete_user"}, v \in User :
        /\ SignedIn(u) /\ users[v] # Null
        /\ Begin(w, [Request(op, "fetch") EXCEPT !.actor = ActorOf(u), !.on = v])

(* UpdateUserJsonData::into_update_user: what is not sent stays as it was    *)
(* read, and is written back.  An account leaves its own role alone.          *)
RolesFrom(now) == {[type |-> r.type, lab |-> l] :
                     r \in Assigned \union {now}, l \in {now.lab} \union {q.lab : q \in Assigned}}
\* Mutant: only the present role is checked against those the actor may give.
RequestedOfAnyone(t) ==
    LET now == RoleOf(t.on)
    IN {r \in RolesFrom(now) : r = now \/ CanManageUser(t.actor, now)}

Requested(t) ==
    LET now == RoleOf(t.on)
    IN IF t.actor.id = t.on THEN {now}
       ELSE {r \in RolesFrom(now) : CanManageUser(t.actor, now) /\ CanManageUser(t.actor, r)}

(* What it asks for may be refused, as invalid or as forbidden. *)
FetchTarget(w) ==
    LET t == txn[w]
    IN \/ /\ At(w, "update_user", "fetch") /\ There(t.on)
          /\ \E r \in Requested(t), e \in Contact \union {Null, users[t.on].email} :
                ValidRole(r) /\ GoOn(w, [t EXCEPT !.step = "write", !.role = r, !.email = e])
       \/ /\ At(w, "delete_user", "fetch") /\ There(t.on) /\ t.actor.id # t.on
          /\ CanManageUser(t.actor, RoleOf(t.on))
          /\ GoOn(w, [t EXCEPT !.step = "write"])
       \/ (At(w, "update_user", "fetch") \/ At(w, "delete_user", "fetch")) /\ Refuse(w)

(* update_user_in_database writes every column but the password. *)
UpdateUser(w) ==
    LET t == txn[w]
    IN /\ At(w, "update_user", "write")
       /\ IF ~There(t.on) \/ t.role.lab \notin labs \union {NoLaboratory} \/ ~EmailFree(t.email, t.on)
          THEN Refuse(w)
          ELSE /\ users' = [users EXCEPT ![t.on] = [type |-> t.role.type, lab |-> t.role.lab,
                                                    password |-> @.password, email |-> t.email]]
               /\ GrantBy(t.actor, t.on, t.role)
               /\ End(w)
               /\ UNCHANGED <<labs, codes, admitted>>

(* delete_user_from_database; the codes of the account go by cascade, its    *)
(* uploads refuse it.                                                         *)
Cascade(S) == [c \in Code |-> IF c \in S THEN [codes[c] EXCEPT !.state = "deleted"] ELSE codes[c]]
RemoveUser(w) ==
    LET t == txn[w]
    IN /\ At(w, "delete_user", "write")
       /\ \/ Refuse(w)
          \/ /\ There(t.on)
             /\ users' = [users EXCEPT ![t.on] = Gone]
             /\ codes' = Cascade(IssuedBy(t.on))
             /\ End(w)
             /\ UNCHANGED <<labs, granted, admitted>>

-----------------------------------------------------------------------------
(* login, logout, change_password *)

BeginLogin(w, s) ==
    \E u \in User, p \in Password :
        /\ There(u) /\ sessions[s] = Null /\ users[u].password = p
        /\ Begin(w, [Request("login", "verify") EXCEPT !.on = u, !.session = s])
OpenSession(w) ==
    /\ At(w, "login", "verify")
    /\ sessions' = [sessions EXCEPT ![txn[w].session] = txn[w].on]
    /\ txn' = [txn EXCEPT ![w] = Idle]
    /\ UNCHANGED <<rows, server, requests, menu>>
Logout(s) ==
    /\ server = "up" /\ "login" \in menu /\ sessions[s] # Null
    /\ sessions' = [sessions EXCEPT ![s] = Null]
    /\ UNCHANGED <<rows, server, txn, requests, menu>>

BeginChangePassword(w, u) ==
    \E p \in Password, q \in Password :
        /\ SignedIn(u) /\ users[u].password = p
        /\ Begin(w, [Request("change_password", "write") EXCEPT
                       !.actor = ActorOf(u), !.password = q])
(* update_password_in_database: what was verified is not looked at again. *)
SwapPassword(w) ==
    LET u == txn[w].actor.id
    IN /\ At(w, "change_password", "write")
       /\ IF ~There(u) THEN Refuse(w)
          ELSE /\ users' = [users EXCEPT ![u].password = txn[w].password]
               /\ End(w)
               /\ UNCHANGED <<labs, codes, granted, admitted>>

-----------------------------------------------------------------------------
(* create_laboratory, delete_laboratory *)

BeginLaboratory(w, u) ==
    \E op \in {"create_laboratory", "delete_laboratory"}, l \in Laboratory :
        /\ SignedIn(u) /\ IsSystemAdmin(users[u])
        /\ op = "create_laboratory" => l \notin labs
        /\ Begin(w, [Request(op, "write") EXCEPT !.actor = ActorOf(u), !.on = l])
CommitLaboratory(w) ==
    LET l == txn[w].on
    IN \/ /\ At(w, "create_laboratory", "write")
          /\ labs' = labs \union {l}
          /\ End(w)
          /\ UNCHANGED <<users, codes, granted, admitted>>
       \/ /\ At(w, "delete_laboratory", "write")
          /\ IF \E u \in User : There(u) /\ users[u].lab = l THEN Refuse(w)
             ELSE /\ labs' = labs \ {l}
                  /\ codes' = Cascade({c \in Code : codes[c] # Null /\ codes[c].lab = l})
                  /\ End(w)
                  /\ UNCHANGED <<users, granted, admitted>>

-----------------------------------------------------------------------------
(* create_guest_registration_code *)

BeginCreateCode(w, u) ==
    \E l \in Laboratory :
        /\ SignedIn(u) /\ SpareCode /\ HasContext(ActorOf(u), l) /\ CanCreateGuestRegistrationCode(ActorOf(u), l)
        /\ Begin(w, [Request("create_code", "laboratory") EXCEPT !.actor = ActorOf(u)])

(* lock_laboratory *)
\* Mutant: the laboratory is looked up and not locked.
FindLaboratory(w) ==
    /\ At(w, "create_code", "laboratory")
    /\ IF txn[w].actor.lab \notin labs THEN Refuse(w)
       ELSE GoOn(w, [txn[w] EXCEPT !.step = "revoke"])

LockLaboratory(w) ==
    /\ At(w, "create_code", "laboratory")
    /\ IF txn[w].actor.lab \notin labs THEN Refuse(w)
       ELSE GoOn(w, [txn[w] EXCEPT !.step = "revoke", !.locks = @ \union Wanted(w)])

(* revoke_laboratory_registration_code, to be seen at the commit. *)
RevokeCode(w) ==
    /\ At(w, "create_code", "revoke")
    /\ GoOn(w, [txn[w] EXCEPT !.step = "write", !.locks = @ \union Wanted(w)])

(* revoke_expired_registration_code and insert_registration_code ON CONFLICT  *)
(* DO NOTHING, for one secret after the other until one is free or the        *)
(* attempts are used up; a rival row that is locked is waited for.            *)
RevokedBy(w) == {c \in Code : CodeLock(c) \in txn[w].locks}
Rivals(w, n) == {c \in Code \ RevokedBy(w) : Outstanding(c) /\ codes[c].secret = n}
Contested(w, n) == \E v \in Worker \ {w}, c \in Rivals(w, n) : CodeLock(c) \in Holds(v)
Taken(w, n) == \/ \E c \in Rivals(w, n) : c \notin txn[w].late
               \/ CodesOut(txn[w].actor.lab) \ RevokedBy(w) # {}
InsertCode(w) ==
    LET t == txn[w]
    IN /\ At(w, "create_code", "write")
       /\ \/ ~There(t.actor.id) /\ Refuse(w)
          \/ \E n \in Secret : ~Contested(w, n) /\ Taken(w, n) /\ Refuse(w)
          \/ \E n \in Secret, c \in Code :
                  /\ There(t.actor.id) /\ ~Contested(w, n) /\ ~Taken(w, n) /\ codes[c] = Null
                  /\ codes' = [d \in Code |->
                        IF d = c THEN [lab |-> t.actor.lab, secret |-> n, issuer |-> t.actor.id,
                                       state |-> "out", expired |-> FALSE]
                        ELSE IF d \in RevokedBy(w) \union Rivals(w, n) THEN [codes[d] EXCEPT !.state = "revoked"]
                        ELSE codes[d]]
                  /\ End(w)
                  /\ UNCHANGED <<users, labs, granted, admitted>>

(* expires_at passes. *)
Expire(c) == /\ Outstanding(c) /\ ~codes[c].expired
             /\ codes' = [codes EXCEPT ![c].expired = TRUE]
             /\ UNCHANGED <<users, labs, granted, admitted, sessions, server, txn, requests, menu>>

-----------------------------------------------------------------------------
(* register_guest *)

BeginRegister(w) ==
    \E n \in Secret, e \in Email :
        SpareUser /\ Begin(w, [Request("register", "consume") EXCEPT !.secret = n, !.email = e])

Entitled(c) == /\ There(codes[c].issuer)
               /\ Works(users[codes[c].issuer], codes[c].lab)
(* consume_registration_code *)
\* Mutant: a code that was consumed is found again.
Reusable(t) == {c \in Code : codes[c] # Null /\ codes[c].state \in {"out", "used"}
                             /\ codes[c].secret = t.secret /\ c \notin t.late /\ Entitled(c)}

Usable(t) == {c \in Candidates(t) : Entitled(c)}

\* Mutant: only the code is locked, not its issuer.
ConsumeUnderCode(w) ==
    LET t == txn[w]
    IN /\ At(w, "register", "consume")
       /\ IF Usable(t) = {} THEN Refuse(w)
          ELSE \E c \in Usable(t) :
                  GoOn(w, [t EXCEPT !.step = "write", !.code = c, !.locks = {CodeLock(c)}])

ConsumeCode(w) ==
    LET t == txn[w]
    IN /\ At(w, "register", "consume")
       /\ IF Usable(t) = {} THEN Refuse(w)
          ELSE \E c \in Usable(t) :
                  GoOn(w, [t EXCEPT !.step = "write", !.code = c,
                                    !.locks = {CodeLock(c), UserRow(codes[c].issuer)}])

(* store_new_user and the commit: without the account the code stays. *)
AdmitGuest(w) ==
    LET t == txn[w]
        c == t.code
    IN /\ At(w, "register", "write")
       /\ IF ~EmailFree(t.email, Null) THEN Refuse(w)
          ELSE \E n \in User :
                  /\ users[n] = Null
                  /\ users' = [users EXCEPT ![n] = [type |-> "guest", lab |-> codes[c].lab,
                                                    password |-> SomePassword, email |-> t.email]]
                  /\ codes' = [codes EXCEPT ![c].state = "used"]
                  /\ admitted' = [admitted EXCEPT ![c] = @ + 1]
                  /\ Grant(n, [type |-> "guest", lab |-> codes[c].lab])
                  /\ End(w)
                  /\ UNCHANGED labs

(* PostgreSQL ends one of two transactions that wait for each other. *)
AbortDeadlocked(w) ==
    /\ \E v \in Blockers(w) : w \in Blockers(v)
    /\ Refuse(w)

-----------------------------------------------------------------------------
(* prepare_database, and lab-inventory-admin set-password *)

Up(s) == server' = s /\ UNCHANGED <<labs, codes, granted, admitted, sessions, txn, requests, menu>>
SeededNow == There(Root) /\ users[Root].password = Seeded

(* With a password configured, apply_initial_root_password looks, *)
CheckSeeded == /\ server = "down"
               /\ Up(IF "initial_root_password" \in menu /\ SeededNow THEN "setting" ELSE "ensuring")
               /\ UNCHANGED users
(* and writes; *)
SetInitial == /\ server = "setting"
              /\ users' = IF There(Root) THEN [users EXCEPT ![Root].password = Initial] ELSE users
              /\ Up("ensuring")
(* where it is required, ensure_root_password_rotated looks again. *)
EnsureRotated == /\ server = "ensuring"
                 /\ Up(IF "require_root_password_rotation" \in menu /\ SeededNow THEN "down" ELSE "up")
                 /\ UNCHANGED users

Restart == /\ "restart" \in menu /\ server = "up" /\ Room
           /\ server' = "down"
           /\ txn' = [w \in Worker |-> Idle]
           /\ UNCHANGED <<rows, sessions>>
SetPasswordCommand(p) ==
    /\ "restart" \in menu /\ There(Root) /\ Room
    /\ users' = [users EXCEPT ![Root].password = p]
    /\ UNCHANGED <<labs, codes, granted, admitted, sessions, server, txn>>

-----------------------------------------------------------------------------
Init ==
    /\ \E s \in Start : /\ menu = s.menu
                       /\ users = s.users
                       /\ sessions = s.sessions
                       /\ server = s.server
    /\ labs = {users[u].lab : u \in {v \in User : There(v)}} \ {NoLaboratory}
    /\ codes = [c \in Code |-> Null]
    /\ txn = [w \in Worker |-> Idle]
    /\ requests = 0
    /\ granted = {<<u, RoleOf(u)>> : u \in {v \in User : There(v)}}
    /\ admitted = [c \in Code |-> 0]

Begins(w) ==
    \/ \E u \in User : \/ BeginCreateUser(w, u) \/ BeginChangeOf(w, u) \/ BeginChangePassword(w, u)
                       \/ BeginLaboratory(w, u) \/ BeginCreateCode(w, u)
    \/ \E s \in Session : BeginLogin(w, s)
    \/ BeginRegister(w)

Continues(w) ==
    \/ InsertUser(w) \/ FetchTarget(w) \/ UpdateUser(w) \/ RemoveUser(w)
    \/ OpenSession(w) \/ SwapPassword(w) \/ CommitLaboratory(w)
    \/ LockLaboratory(w) \/ RevokeCode(w) \/ InsertCode(w)
    \/ ConsumeCode(w) \/ AdmitGuest(w) \/ AbortDeadlocked(w)

Starts == CheckSeeded \/ SetInitial \/ EnsureRotated

Next ==
    \/ \E w \in Worker : Begins(w) \/ Continues(w)
    \/ \E s \in Session : EndOrphanedSession(s) \/ Logout(s)
    \/ \E c \in Code : Expire(c)
    \/ Starts \/ Restart
    \/ \E p \in Password : SetPasswordCommand(p)

Spec == Init /\ [][Next]_vars

-----------------------------------------------------------------------------
(* Properties *)

(* update_user and delete_user judge roles they read before the transaction, *)
(* and write back what they read: whatever comes between, no account holds a  *)
(* role that nobody entitled to has ever given it.                            *)
RolesWereGranted == \A u \in User : There(u) => <<u, RoleOf(u)>> \in granted

(* consume_registration_code: "Rechecking the issuer's current role and      *)
(* laboratory prevents a stale invitation from surviving a role or laboratory *)
(* change", up to the moment the guest is let in.                             *)
InvitationsStand ==
    [][\A c \in Code : admitted'[c] # admitted[c] => Entitled(c)]_vars

(* Consumption and the new account share a transaction "so a failed user     *)
(* insert cannot burn a valid code", and a code lets in one guest.            *)
CodesAdmitOneGuest ==
    \A c \in Code : /\ admitted[c] <= 1
                    /\ codes[c] # Null /\ codes[c].state = "used" => admitted[c] = 1

(* create_guest_registration_code locks the laboratory, so that of several    *)
(* requests each finds the code of the one before and replaces it: it is only  *)
(* ever refused a code because of those that other laboratories have out.     *)
GivesUp(w) == /\ txn[w] # Idle /\ txn[w].op = "create_code" /\ txn[w].step = "write"
              /\ There(txn[w].actor.id) /\ Blockers(w) = {}
              /\ txn'[w] = Idle /\ codes' = codes /\ server' = server
CodesAreGenerated ==
    [][\A w \in Worker : GivesUp(w) =>
          \E c \in Code : /\ Outstanding(c) /\ c \notin txn[w].late
                          /\ codes[c].lab # txn[w].actor.lab]_vars

(* apply_initial_root_password replaces the seeded password "only while the  *)
(* seeded one is still in place": what the start of the server writes over is  *)
(* the seeded password, and not one that was set since.                        *)
OnlyTheSeededIsReplaced ==
    [][server = "setting" /\ server' # server /\ users' # users => SeededNow]_vars

(* update_user: "Users cannot change their own role or laboratory", so their  *)
(* own edits leave both as the administrators have set them.                   *)
EditsItself(w, u) == /\ txn[w] # Idle /\ txn[w].op = "update_user" /\ txn[w].step = "write"
                     /\ txn[w].actor.id = u /\ txn[w].on = u
                     /\ txn'[w] = Idle
OwnRolesStay ==
    [][\A w \in Worker, u \in User :
          EditsItself(w, u) /\ There(u) /\ There(u)' => RoleOf(u)' = RoleOf(u)]_vars
=============================================================================
