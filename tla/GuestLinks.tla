----------------------------- MODULE GuestLinks -----------------------------
(***************************************************************************)
(* Guest links of one node: the local accounts that remote users act under. *)
(* Every signed request looks up the caller's link and makes one, with a    *)
(* shadow account, on a first visit; an administrator merges a link onto    *)
(* another guest account, which drops a shadow nothing points at.           *)
(*                                                                         *)
(* Each statement is a step.  Rows are read as committed; a merge writes at *)
(* its commit what it locked before.  links and users are related by        *)
(* foreign keys: a link that is pointed at an account holds a shared lock   *)
(* on it until its transaction ends, and an account that is deleted is      *)
(* locked exclusively and takes its links with it (ON DELETE CASCADE).      *)
(* Accounts keep their role and laboratory here, which update_user can      *)
(* change.                                                                  *)
(***************************************************************************)
EXTENDS Naturals, FiniteSets

CONSTANTS
    Worker,                 \* connections that run transactions
    Laboratory, Visitor,    \* local laboratories and remote users
    Account, Link,          \* uuids
    Local,                  \* the accounts registered here ..
    HomeOf,                 \* .. and the laboratory of each
    Nobody, Unused, Gone

ASSUME LocalAssumption == Local \subseteq Account /\ HomeOf \in [Local -> Laboratory]

\* An account: its laboratory and, of a shadow, the visitor its username is
\* made from.  A link: its unique key and the account the visitor acts under.
Person == [laboratory : Laboratory, shadowOf : Visitor \cup {Nobody}]
Tie == [laboratory : Laboratory, visitor : Visitor, guest : Account]

Visit == [op : {"visit"}, step : {"touch", "account", "link"},
          laboratory : Laboratory, visitor : Visitor, account : Account, link : Link]
Merge == [op : {"merge"}, step : {"lock", "update", "check", "erase", "cascade", "commit"},
          link : Link, old : Account \cup {Nobody}, target : Account]

\* What stands for no row and no transaction is none.
ASSUME NullsAssumption ==
    /\ Nobody \notin Worker \cup Visitor \cup Visit \cup Merge
    /\ {Unused, Gone} \cap (Person \cup Tie) = {} /\ Unused # Gone

VARIABLES
    users, links,   \* the tables, by uuid
    txn,            \* per worker, its transaction, or Nobody
    linkLock,       \* per link, the worker with its row lock
    shared,         \* per account, the workers whose links refer to it
    erasing,        \* per account, the worker that deletes it
    answers         \* per worker, the answer to its latest request

tables == <<users, links>>
locks == <<linkLock, shared, erasing>>
vars == <<tables, txn, locks, answers>>

-----------------------------------------------------------------------------
HasAccount(a) == users[a] \notin {Unused, Gone}
HasLink(l) == links[l] \notin {Unused, Gone}
LinksTo(a) == {l \in Link : HasLink(l) /\ links[l].guest = a}
LinksOf(lab, v) == {l \in Link : HasLink(l) /\ links[l].laboratory = lab /\ links[l].visitor = v}

\* shadow_guest_username: the same in every laboratory of the node.
ShadowsOf(v) == {a \in Account : HasAccount(a) /\ users[a].shadowOf = v}

Running(w, op) == txn[w] # Nobody /\ txn[w].op = op
At(w, op, step) == Running(w, op) /\ txn[w].step = step

\* Mutant: a refused request keeps the locks of its rows.
AnswerHolding(w, answer) ==
    /\ txn' = [txn EXCEPT ![w] = Nobody]
    /\ answers' = [answers EXCEPT ![w] = answer]
    /\ IF answer = "refused" THEN UNCHANGED locks
       ELSE /\ linkLock' = [l \in Link |-> IF linkLock[l] = w THEN Nobody ELSE linkLock[l]]
            /\ shared' = [a \in Account |-> shared[a] \ {w}]
            /\ erasing' = [a \in Account |-> IF erasing[a] = w THEN Nobody ELSE erasing[a]]

\* The transaction of w ends, its locks go, and it is answered.
Answer(w, answer) ==
    /\ txn' = [txn EXCEPT ![w] = Nobody]
    /\ answers' = [answers EXCEPT ![w] = answer]
    /\ linkLock' = [l \in Link |-> IF linkLock[l] = w THEN Nobody ELSE linkLock[l]]
    /\ shared' = [a \in Account |-> shared[a] \ {w}]
    /\ erasing' = [a \in Account |-> IF erasing[a] = w THEN Nobody ELSE erasing[a]]

Refuse(w) == Answer(w, "refused") /\ UNCHANGED tables

GoTo(w, step) ==
    /\ txn' = [txn EXCEPT ![w].step = step]
    /\ UNCHANGED <<tables, answers>>

-----------------------------------------------------------------------------
Init ==
    /\ users = [a \in Account |->
                  IF a \in Local THEN [laboratory |-> HomeOf[a], shadowOf |-> Nobody] ELSE Unused]
    /\ links = [l \in Link |-> Unused]
    /\ txn = [w \in Worker |-> Nobody]
    /\ linkLock = [l \in Link |-> Nobody]
    /\ shared = [a \in Account |-> {}]
    /\ erasing = [a \in Account |-> Nobody]
    /\ answers = [w \in Worker |-> "none"]

Start(w, t) ==
    /\ txn[w] = Nobody
    /\ txn' = [txn EXCEPT ![w] = t]
    /\ answers' = [answers EXCEPT ![w] = "none"]
    /\ UNCHANGED <<tables, locks>>

\* A signed request of a visitor; the uuids it may need are drawn at once.
BeginVisit(w) ==
    \E lab \in Laboratory, v \in Visitor, a \in Account, l \in Link :
        /\ users[a] = Unused /\ links[l] = Unused
        /\ \A x \in Worker : Running(x, "visit") => txn[x].account # a /\ txn[x].link # l
        /\ Start(w, [op |-> "visit", step |-> "touch", laboratory |-> lab, visitor |-> v,
                     account |-> a, link |-> l])

\* validate_target_guest, which reads the target before the transaction begins.
BeginMerge(w) ==
    \E l \in Link, a \in Account :
        /\ HasLink(l) /\ HasAccount(a) /\ users[a].laboratory = links[l].laboratory
        /\ Start(w, [op |-> "merge", step |-> "lock", link |-> l, old |-> Nobody, target |-> a])

-----------------------------------------------------------------------------
\* touch_guest_link, a transaction of its own that waits for a merge of the link.
Touch(w) ==
    LET t == txn[w]
        known == LinksOf(t.laboratory, t.visitor)
    IN  /\ At(w, "visit", "touch")
        /\ \/ /\ known # {} /\ \A l \in known : linkLock[l] = Nobody
              /\ Answer(w, "served") /\ UNCHANGED tables
           \/ /\ known = {}
              /\ GoTo(w, "account") /\ UNCHANGED locks

\* insert_shadow_guest: the username is unique, so an insert waits for the one
\* that has written it and not committed, and for the one that is deleting it.
MakeShadow(w) ==
    LET v == txn[w].visitor
    IN  /\ At(w, "visit", "account")
        /\ \A x \in Worker : At(x, "visit", "link") => txn[x].visitor # v
        /\ \A a \in ShadowsOf(v) : erasing[a] = Nobody
        /\ \/ ShadowsOf(v) # {} /\ Refuse(w)
           \/ ShadowsOf(v) = {} /\ GoTo(w, "link") /\ UNCHANGED locks

\* Mutant: the insert has no ON CONFLICT and the table no unique key.
InsertAnyway(w) ==
    LET t == txn[w]
    IN  /\ At(w, "visit", "link")
        /\ users' = [users EXCEPT ![t.account] =
                       [laboratory |-> t.laboratory, shadowOf |-> t.visitor]]
        /\ links' = [links EXCEPT ![t.link] =
                       [laboratory |-> t.laboratory, visitor |-> t.visitor, guest |-> t.account]]
        /\ Answer(w, "served")

\* insert_guest_link and the commit.  When the link is there already its guest
\* counts, and the shadow this transaction inserted is deleted again.
InsertLink(w) ==
    LET t == txn[w]
        known == LinksOf(t.laboratory, t.visitor)
    IN  /\ At(w, "visit", "link")
        /\ \A l \in known : linkLock[l] = Nobody
        /\ Answer(w, "served")
        /\ IF known # {} THEN UNCHANGED tables
           ELSE /\ users' = [users EXCEPT ![t.account] =
                               [laboratory |-> t.laboratory, shadowOf |-> t.visitor]]
                /\ links' = [links EXCEPT ![t.link] =
                               [laboratory |-> t.laboratory, visitor |-> t.visitor, guest |-> t.account]]

-----------------------------------------------------------------------------
\* fetch_guest_link_user_for_update.
LockLink(w) ==
    LET l == txn[w].link
    IN  /\ At(w, "merge", "lock")
        /\ linkLock[l] = Nobody
        /\ \/ ~HasLink(l) /\ Refuse(w)
           \/ /\ HasLink(l)
              /\ linkLock' = [linkLock EXCEPT ![l] = w]
              /\ txn' = [txn EXCEPT ![w].step = "update", ![w].old = links[l].guest]
              /\ UNCHANGED <<tables, shared, erasing, answers>>

\* update_guest_link_user; the foreign key looks the target up and locks it.
PointAtTarget(w) ==
    LET a == txn[w].target
    IN  /\ At(w, "merge", "update")
        /\ erasing[a] = Nobody
        /\ \/ ~HasAccount(a) /\ Refuse(w)
           \/ /\ HasAccount(a)
              /\ shared' = [shared EXCEPT ![a] = @ \cup {w}]
              /\ GoTo(w, "check")
              /\ UNCHANGED <<linkLock, erasing>>

\* guest_link_exists_for_user: the committed links and the own update.
CheckOldAccount(w) ==
    LET t == txn[w]
    IN  /\ At(w, "merge", "check")
        /\ IF LinksTo(t.old) \ {t.link} # {} \/ t.target = t.old
           THEN GoTo(w, "commit")
           ELSE GoTo(w, "erase")
        /\ UNCHANGED locks

\* Mutant: the guard on is_federation_shadow is missing.
ErasableAnyway(a) == HasAccount(a)

Erasable(a) == HasAccount(a) /\ users[a].shadowOf # Nobody

\* delete_shadow_guest waits for whoever refers to the account ..
EraseOldAccount(w) ==
    LET a == txn[w].old
    IN  /\ At(w, "merge", "erase")
        /\ \/ /\ ~Erasable(a)
              /\ GoTo(w, "commit") /\ UNCHANGED locks
           \/ /\ Erasable(a)
              /\ shared[a] \subseteq {w} /\ erasing[a] = Nobody
              /\ erasing' = [erasing EXCEPT ![a] = w]
              /\ GoTo(w, "cascade")
              /\ UNCHANGED <<linkLock, shared>>

\* .. and its cascade locks the links that refer to it by now, one by one.
LockCascade(w) ==
    /\ At(w, "merge", "cascade")
    /\ \E l \in LinksTo(txn[w].old) \ {txn[w].link} :
         /\ linkLock[l] = Nobody
         /\ linkLock' = [linkLock EXCEPT ![l] = w]
    /\ UNCHANGED <<tables, txn, shared, erasing, answers>>

\* The links a merge leaves: its own repointed, those of an erased account gone.
Merged(w) ==
    LET t == txn[w]
    IN  [l \in Link |->
           CASE l = t.link -> [links[l] EXCEPT !.guest = t.target]
             [] t.step = "cascade" /\ l \in LinksTo(t.old) \ {t.link} -> Gone
             [] OTHER -> links[l]]

CommitMerge(w) ==
    LET t == txn[w]
    IN  /\ At(w, "merge", "commit") \/ At(w, "merge", "cascade")
        /\ t.step = "cascade" => \A l \in LinksTo(t.old) : linkLock[l] = w
        /\ links' = Merged(w)
        /\ users' = IF t.step = "cascade" THEN [users EXCEPT ![t.old] = Gone] ELSE users
        /\ Answer(w, "served")

-----------------------------------------------------------------------------
\* delete_user of a guest: its links go with it.
DeleteUser(a) ==
    /\ HasAccount(a)
    /\ shared[a] = {} /\ erasing[a] = Nobody
    /\ \A l \in LinksTo(a) : linkLock[l] = Nobody
    /\ users' = [users EXCEPT ![a] = Gone]
    /\ links' = [l \in Link |-> IF l \in LinksTo(a) THEN Gone ELSE links[l]]
    /\ UNCHANGED <<txn, locks, answers>>

\* Whom worker w may be waiting for.
WaitsFor(w) ==
    LET t == txn[w]
    IN  (CASE At(w, "visit", "touch") \/ At(w, "visit", "link") ->
                {linkLock[l] : l \in LinksOf(t.laboratory, t.visitor)}
           [] At(w, "visit", "account") ->
                {x \in Worker : At(x, "visit", "link") /\ txn[x].visitor = t.visitor}
                \cup {erasing[a] : a \in ShadowsOf(t.visitor)}
           [] At(w, "merge", "lock") -> {linkLock[t.link]}
           [] At(w, "merge", "update") -> {erasing[t.target]}
           [] At(w, "merge", "erase") -> IF Erasable(t.old) THEN shared[t.old] \cup {erasing[t.old]} ELSE {}
           [] At(w, "merge", "cascade") -> {linkLock[l] : l \in LinksTo(t.old)}
           [] OTHER -> {}) \ {w, Nobody}

\* The database aborts a transaction of a circle of waiting ones.
AbortDeadlocked(w) ==
    /\ \E W \in SUBSET Worker :
         w \in W /\ \A v \in W : WaitsFor(v) \cap W # {} /\ \E x \in W : v \in WaitsFor(x)
    /\ Refuse(w)

Begin(w) == BeginVisit(w) \/ BeginMerge(w)

Continue(w) ==
    \/ Touch(w) \/ MakeShadow(w) \/ InsertLink(w)
    \/ LockLink(w) \/ PointAtTarget(w) \/ CheckOldAccount(w)
    \/ EraseOldAccount(w) \/ LockCascade(w) \/ CommitMerge(w)
    \/ AbortDeadlocked(w)

Next ==
    \/ \E w \in Worker : Begin(w) \/ Continue(w)
    \/ \E a \in Account : DeleteUser(a)

Spec == Init /\ [][Next]_vars

\* A statement that is not blocked is executed, and waiters are queued.
FairSpec == Spec /\ \A w \in Worker : SF_vars(Continue(w))

-----------------------------------------------------------------------------
TypeOK ==
    /\ users \in [Account -> Person \cup {Unused, Gone}]
    /\ links \in [Link -> Tie \cup {Unused, Gone}]
    /\ txn \in [Worker -> Visit \cup Merge \cup {Nobody}]
    /\ linkLock \in [Link -> Worker \cup {Nobody}]
    /\ shared \in [Account -> SUBSET Worker]
    /\ erasing \in [Account -> Worker \cup {Nobody}]
    /\ answers \in [Worker -> {"none", "served", "refused"}]

\* A visitor has one identity in a laboratory, however many of their requests
\* race with each other and with merges of the link.
OneLinkPerVisitor ==
    \A lab \in Laboratory, v \in Visitor : Cardinality(LinksOf(lab, v)) <= 1

\* "The is_federation_shadow guard keeps a real account from ever being deleted
\* here": no transaction on links removes an account registered here.
MergesSpareRealAccounts ==
    [][\A a \in Local : (HasAccount(a) /\ users'[a] = Gone) => txn' = txn]_vars

\* Every visit and every merge is answered.
EveryTransactionEnds == \A w \in Worker : txn[w] # Nobody ~> txn[w] = Nobody

-----------------------------------------------------------------------------
\* What comments of the code say and the code does not do.

\* "keeps a concurrent merge from deleting an account this one just linked": the
\* account a merge deletes is one that no other link refers to.
MergesKeepLinkedAccounts ==
    \A w \in Worker : At(w, "merge", "cascade") => LinksTo(txn[w].old) \subseteq {txn[w].link}

\* "A new one gets a shadow account created for them": a visitor without a link
\* in the laboratory is not refused.
NewVisitorsAreServed ==
    [][\A w \in Worker :
         (Running(w, "visit") /\ LinksOf(txn[w].laboratory, txn[w].visitor) = {})
         => answers'[w] # "refused"]_vars
=============================================================================
