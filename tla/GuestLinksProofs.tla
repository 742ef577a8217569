-------------------------- MODULE GuestLinksProofs --------------------------
(***************************************************************************)
(* Theorems about GuestLinks, for any number of connections, laboratories, *)
(* visitors, accounts and links.                                           *)
(*                                                                         *)
(* A merge reads its link and its target, and deletes an account some      *)
(* statements later; a visit writes rows whose uuids it drew at its        *)
(* beginning.  The invariant says what each of them may still rely on: the *)
(* uuids of a visit are nobody else's, what a merge has locked is there,   *)
(* and an account that is being deleted is a shadow that nobody else's     *)
(* link is about to refer to.                                              *)
(***************************************************************************)
EXTENDS GuestLinks, FiniteSetTheorems, TLAPS

VisitsDraw ==
    \A w \in Worker : Running(w, "visit") =>
        /\ users[txn[w].account] = Unused /\ links[txn[w].link] = Unused
        /\ \A x \in Worker : Running(x, "visit") /\ x # w =>
              txn[x].account # txn[w].account /\ txn[x].link # txn[w].link

MergesHold ==
    \A w \in Worker : Running(w, "merge") /\ txn[w].step # "lock" =>
        /\ linkLock[txn[w].link] = w /\ txn[w].old \in Account
        /\ txn[w].step # "update" => w \in shared[txn[w].target]
        /\ txn[w].step \in {"erase", "cascade"} => txn[w].old # txn[w].target
        /\ txn[w].step = "cascade" => erasing[txn[w].old] = w

LockedAreThere ==
    /\ \A l \in Link : linkLock[l] # Nobody => HasLink(l)
    /\ \A a \in Account : shared[a] # {} => HasAccount(a)
    /\ \A a \in Account : erasing[a] # Nobody => Erasable(a) /\ shared[a] \subseteq {erasing[a]}

(* An account registered here is never a shadow. *)
RealOnes == \A a \in Local : users[a] # Unused /\ (users[a] # Gone => users[a].shadowOf = Nobody)

(* The two keys of the table of links: unique, and foreign. *)
UniqueKey ==
    \A k, l \in Link :
        HasLink(k) /\ HasLink(l) /\ links[k].laboratory = links[l].laboratory /\ links[k].visitor = links[l].visitor
            => k = l
LinksHaveTheirAccount == \A l \in Link : HasLink(l) => HasAccount(links[l].guest)

IndInv ==
    /\ TypeOK /\ VisitsDraw /\ MergesHold /\ LockedAreThere
    /\ RealOnes /\ UniqueKey /\ LinksHaveTheirAccount
-----------------------------------------------------------------------------
(* Rows, transactions and locks *)

LEMMA Kinds ==
    /\ \A t \in Visit : t.op = "visit" /\ t # Nobody
    /\ \A t \in Merge : t.op = "merge" /\ t # Nobody
    /\ \A w \in Worker : w # Nobody
    /\ \A v \in Visitor : v # Nobody
    /\ \A p \in Person \cup Tie : p # Unused /\ p # Gone
    /\ Unused # Gone
  BY NullsAssumption DEF Visit, Merge

LEMMA Rows ==
    ASSUME IndInv
    PROVE  /\ \A a \in Account : HasAccount(a) <=> users[a] \in Person
           /\ \A l \in Link : HasLink(l) <=> links[l] \in Tie
           /\ \A l \in Link : HasLink(l) => links[l].laboratory \in Laboratory /\ links[l].visitor \in Visitor
                                           /\ links[l].guest \in Account
  BY Kinds DEF IndInv, TypeOK, HasAccount, HasLink, Tie

LEMMA VisitFields ==
    ASSUME IndInv, NEW w \in Worker, Running(w, "visit")
    PROVE  /\ txn[w] \in Visit /\ txn[w].laboratory \in Laboratory /\ txn[w].visitor \in Visitor
           /\ txn[w].account \in Account /\ txn[w].link \in Link
           /\ txn[w].step \in {"touch", "account", "link"}
           /\ users[txn[w].account] = Unused /\ links[txn[w].link] = Unused
<1>1. txn[w] \in Visit
  BY Kinds DEF IndInv, TypeOK, Running
<1> QED BY <1>1 DEF Visit, IndInv, VisitsDraw

LEMMA MergeFields ==
    ASSUME IndInv, NEW w \in Worker, Running(w, "merge")
    PROVE  /\ txn[w] \in Merge /\ txn[w].link \in Link /\ txn[w].old \in Account \cup {Nobody}
           /\ txn[w].target \in Account
           /\ txn[w].step \in {"lock", "update", "check", "erase", "cascade", "commit"}
           /\ txn[w].step # "lock" => txn[w].old \in Account
<1>1. txn[w] \in Merge
  BY Kinds DEF IndInv, TypeOK, Running
<1> QED BY <1>1 DEF Merge, IndInv, MergesHold

(* A step of w alone. *)
LEMMA OneTransaction ==
    ASSUME TypeOK, NEW w \in Worker, NEW t, txn' = [txn EXCEPT ![w] = t]
    PROVE  txn'[w] = t /\ \A x \in Worker \ {w} : txn'[x] = txn[x]
  BY DEF TypeOK

LEMMA AnswerFrees ==
    ASSUME IndInv, NEW w \in Worker, NEW answer \in {"served", "refused"}, Answer(w, answer)
    PROVE  /\ txn'[w] = Nobody /\ \A x \in Worker \ {w} : txn'[x] = txn[x]
           /\ \A l \in Link : linkLock'[l] = IF linkLock[l] = w THEN Nobody ELSE linkLock[l]
           /\ \A a \in Account : shared'[a] = shared[a] \ {w}
           /\ \A a \in Account : erasing'[a] = IF erasing[a] = w THEN Nobody ELSE erasing[a]
           /\ users' \in [Account -> Person \cup {Unused, Gone}] /\ links' \in [Link -> Tie \cup {Unused, Gone}] => TypeOK'
           /\ MergesHold'
<1>1. TypeOK
  BY DEF IndInv
<1>2. /\ txn' = [txn EXCEPT ![w] = Nobody] /\ answers' = [answers EXCEPT ![w] = answer]
      /\ linkLock' = [l \in Link |-> IF linkLock[l] = w THEN Nobody ELSE linkLock[l]]
      /\ shared' = [a \in Account |-> shared[a] \ {w}]
      /\ erasing' = [a \in Account |-> IF erasing[a] = w THEN Nobody ELSE erasing[a]]
  BY DEF Answer
<1>3. txn'[w] = Nobody /\ \A x \in Worker \ {w} : txn'[x] = txn[x]
  BY <1>1, <1>2, OneTransaction
<1>4. ASSUME NEW x \in Worker, Running(x, "merge")', txn'[x].step # "lock"
      PROVE  /\ linkLock'[txn'[x].link] = x /\ txn'[x].old \in Account
             /\ txn'[x].step # "update" => x \in shared'[txn'[x].target]
             /\ txn'[x].step \in {"erase", "cascade"} => txn'[x].old # txn'[x].target
             /\ txn'[x].step = "cascade" => erasing'[txn'[x].old] = x
  <2>1. x # w /\ txn'[x] = txn[x] /\ Running(x, "merge")
    BY <1>3, <1>4 DEF Running
  <2>2. txn[x].link \in Link /\ txn[x].target \in Account /\ txn[x].old \in Account
    BY <1>4, <2>1, MergeFields
  <2>3. /\ linkLock[txn[x].link] = x
        /\ txn[x].step # "update" => x \in shared[txn[x].target]
        /\ txn[x].step \in {"erase", "cascade"} => txn[x].old # txn[x].target
        /\ txn[x].step = "cascade" => erasing[txn[x].old] = x
    BY <1>4, <2>1 DEF IndInv, MergesHold
  <2> QED BY <1>2, <2>1, <2>2, <2>3
<1>5. users' \in [Account -> Person \cup {Unused, Gone}] /\ links' \in [Link -> Tie \cup {Unused, Gone}] => TypeOK'
  BY <1>1, <1>2 DEF TypeOK
<1> QED BY <1>2, <1>3, <1>4, <1>5 DEF MergesHold

(* Invariants that only speak of the tables. *)
LEMMA TablesStay ==
    ASSUME IndInv, UNCHANGED tables
    PROVE  /\ RealOnes' /\ UniqueKey' /\ LinksHaveTheirAccount'
           /\ \A a \in Account : HasAccount(a)' = HasAccount(a) /\ Erasable(a)' = Erasable(a)
           /\ \A l \in Link : HasLink(l)' = HasLink(l)
  BY DEF IndInv, tables, RealOnes, UniqueKey, LinksHaveTheirAccount, HasAccount, HasLink, Erasable

(* The visits go on with the uuids they drew, or end. *)
LEMMA VisitsStay ==
    ASSUME IndInv,
           \A x \in Worker : Running(x, "visit")' =>
               /\ Running(x, "visit") /\ txn'[x].account = txn[x].account /\ txn'[x].link = txn[x].link
               /\ users'[txn[x].account] = users[txn[x].account] /\ links'[txn[x].link] = links[txn[x].link]
    PROVE  VisitsDraw'
<1>1. ASSUME NEW w \in Worker, Running(w, "visit")'
      PROVE  /\ users'[txn'[w].account] = Unused /\ links'[txn'[w].link] = Unused
             /\ \A x \in Worker : Running(x, "visit")' /\ x # w =>
                   txn'[x].account # txn'[w].account /\ txn'[x].link # txn'[w].link
  BY <1>1 DEF IndInv, VisitsDraw
<1> QED BY <1>1 DEF VisitsDraw

LEMMA RefuseKeeps ==
    ASSUME IndInv, NEW w \in Worker, NEW answer \in {"served", "refused"}, Answer(w, answer), UNCHANGED tables
    PROVE  IndInv'
<1>1. TypeOK'
  BY AnswerFrees DEF tables, IndInv, TypeOK
<1>2. VisitsDraw'
  <2>1. ASSUME NEW x \in Worker, Running(x, "visit")' PROVE x # w /\ txn'[x] = txn[x] /\ Running(x, "visit")
    BY <2>1, AnswerFrees DEF Running
  <2> QED BY <2>1, VisitsStay DEF tables
<1>3. LockedAreThere'
  <2>1. ASSUME NEW l \in Link, linkLock'[l] # Nobody PROVE HasLink(l)'
    BY <2>1, AnswerFrees, TablesStay DEF IndInv, LockedAreThere
  <2>2. ASSUME NEW a \in Account, shared'[a] # {} PROVE HasAccount(a)'
    BY <2>2, AnswerFrees, TablesStay DEF IndInv, LockedAreThere
  <2>3. ASSUME NEW a \in Account, erasing'[a] # Nobody PROVE Erasable(a)' /\ shared'[a] \subseteq {erasing'[a]}
    BY <2>3, AnswerFrees, TablesStay DEF IndInv, LockedAreThere
  <2> QED BY <2>1, <2>2, <2>3 DEF LockedAreThere
<1> QED BY <1>1, <1>2, <1>3, AnswerFrees, TablesStay DEF IndInv

-----------------------------------------------------------------------------
(* Statements that write no row *)

LEMMA StepKeeps ==
    ASSUME IndInv, NEW w \in Worker, NEW t \in Visit \cup Merge, txn' = [txn EXCEPT ![w] = t],
           UNCHANGED tables, answers' \in [Worker -> {"none", "served", "refused"}],
           t \in Visit =>
               /\ users[t.account] = Unused /\ links[t.link] = Unused
               /\ \A x \in Worker : Running(x, "visit") /\ x # w => txn[x].account # t.account /\ txn[x].link # t.link,
           t \in Merge /\ t.step # "lock" =>
               /\ linkLock'[t.link] = w /\ t.old \in Account
               /\ t.step # "update" => w \in shared'[t.target]
               /\ t.step \in {"erase", "cascade"} => t.old # t.target
               /\ t.step = "cascade" => erasing'[t.old] = w,
           linkLock' \in [Link -> Worker \cup {Nobody}],
           shared' \in [Account -> SUBSET Worker],
           erasing' \in [Account -> Worker \cup {Nobody}],
           \A l \in Link : linkLock'[l] = linkLock[l] \/ (linkLock[l] = Nobody /\ linkLock'[l] = w /\ HasLink(l)),
           \A a \in Account : shared'[a] = shared[a] \/
               (shared'[a] = shared[a] \cup {w} /\ erasing[a] = Nobody /\ erasing'[a] = Nobody /\ HasAccount(a)),
           \A a \in Account : erasing'[a] = erasing[a] \/
               (erasing[a] = Nobody /\ erasing'[a] = w /\ Erasable(a) /\ shared'[a] \subseteq {w})
    PROVE  IndInv'
<1>1. TypeOK
  BY DEF IndInv
<1>2. txn'[w] = t /\ \A x \in Worker \ {w} : txn'[x] = txn[x]
  BY <1>1, OneTransaction
<1>3. TypeOK'
  BY <1>1 DEF TypeOK, tables
<1>4. VisitsDraw'
  <2>1. ASSUME NEW x \in Worker, NEW y \in Worker, Running(x, "visit")', Running(y, "visit")', x # y
        PROVE  txn'[x].account # txn'[y].account /\ txn'[x].link # txn'[y].link
    <3>1. CASE x # w /\ y # w
      BY <1>2, <2>1, <3>1 DEF IndInv, VisitsDraw, Running
    <3>2. CASE x = w
      <4>1. t \in Visit /\ Running(y, "visit") /\ txn'[y] = txn[y]
        BY <1>2, <2>1, <3>2, Kinds DEF Running
      <4> QED BY <1>2, <2>1, <3>2, <4>1
    <3>3. CASE y = w
      <4>1. t \in Visit /\ Running(x, "visit") /\ txn'[x] = txn[x]
        BY <1>2, <2>1, <3>3, Kinds DEF Running
      <4> QED BY <1>2, <2>1, <3>3, <4>1
    <3> QED BY <3>1, <3>2, <3>3
  <2>2. ASSUME NEW x \in Worker, Running(x, "visit")'
        PROVE  users'[txn'[x].account] = Unused /\ links'[txn'[x].link] = Unused
    <3>1. CASE x # w
      BY <1>2, <2>2, <3>1 DEF IndInv, VisitsDraw, Running, tables
    <3>2. CASE x = w
      BY <1>2, <2>2, <3>2, Kinds DEF Running, tables
    <3> QED BY <3>1, <3>2
  <2> QED BY <2>1, <2>2 DEF VisitsDraw
<1>5. MergesHold'
  <2>1. ASSUME NEW x \in Worker, Running(x, "merge")', txn'[x].step # "lock"
        PROVE  /\ linkLock'[txn'[x].link] = x /\ txn'[x].old \in Account
               /\ txn'[x].step # "update" => x \in shared'[txn'[x].target]
               /\ txn'[x].step \in {"erase", "cascade"} => txn'[x].old # txn'[x].target
               /\ txn'[x].step = "cascade" => erasing'[txn'[x].old] = x
    <3>1. CASE x = w
      BY <1>2, <2>1, <3>1, Kinds DEF Running
    <3>2. CASE x # w
      <4>1. txn'[x] = txn[x] /\ Running(x, "merge")
        BY <1>2, <2>1, <3>2 DEF Running
      <4>2. /\ linkLock[txn[x].link] = x /\ txn[x].old \in Account
            /\ txn[x].step # "update" => x \in shared[txn[x].target]
            /\ txn[x].step \in {"erase", "cascade"} => txn[x].old # txn[x].target
            /\ txn[x].step = "cascade" => erasing[txn[x].old] = x
        BY <2>1, <4>1 DEF IndInv, MergesHold
      <4>3. txn[x].link \in Link /\ txn[x].target \in Account /\ x # Nobody
        BY <4>1, MergeFields, Kinds
      <4> QED BY <4>1, <4>2, <4>3
    <3> QED BY <3>1, <3>2
  <2> QED BY <2>1 DEF MergesHold
<1>6. LockedAreThere'
  <2>1. ASSUME NEW l \in Link, linkLock'[l] # Nobody PROVE HasLink(l)'
    BY <2>1, TablesStay DEF IndInv, LockedAreThere
  <2>2. ASSUME NEW a \in Account, shared'[a] # {} PROVE HasAccount(a)'
    BY <2>2, TablesStay DEF IndInv, LockedAreThere
  <2>3. ASSUME NEW a \in Account, erasing'[a] # Nobody PROVE Erasable(a)' /\ shared'[a] \subseteq {erasing'[a]}
    BY <2>3, TablesStay DEF IndInv, LockedAreThere
  <2> QED BY <2>1, <2>2, <2>3 DEF LockedAreThere
<1> QED BY <1>3, <1>4, <1>5, <1>6, TablesStay DEF IndInv

LEMMA QuietStepKeeps ==
    ASSUME IndInv, NEW w \in Worker, NEW t \in Visit \cup Merge, txn' = [txn EXCEPT ![w] = t],
           UNCHANGED <<tables, locks>>, answers' \in [Worker -> {"none", "served", "refused"}],
           t \in Visit =>
               /\ users[t.account] = Unused /\ links[t.link] = Unused
               /\ \A x \in Worker : Running(x, "visit") /\ x # w => txn[x].account # t.account /\ txn[x].link # t.link,
           t \in Merge /\ t.step # "lock" =>
               /\ linkLock[t.link] = w /\ t.old \in Account
               /\ t.step # "update" => w \in shared[t.target]
               /\ t.step \in {"erase", "cascade"} => t.old # t.target
               /\ t.step = "cascade" => erasing[t.old] = w
    PROVE  IndInv'
<1>1. UNCHANGED tables /\ linkLock' = linkLock /\ shared' = shared /\ erasing' = erasing
  BY DEF locks
<1>2. /\ linkLock' \in [Link -> Worker \cup {Nobody}]
      /\ shared' \in [Account -> SUBSET Worker]
      /\ erasing' \in [Account -> Worker \cup {Nobody}]
  BY <1>1 DEF IndInv, TypeOK
<1>3. /\ \A l \in Link : linkLock'[l] = linkLock[l] \/ (linkLock[l] = Nobody /\ linkLock'[l] = w /\ HasLink(l))
      /\ \A a \in Account : shared'[a] = shared[a] \/
             (shared'[a] = shared[a] \cup {w} /\ erasing[a] = Nobody /\ erasing'[a] = Nobody /\ HasAccount(a))
      /\ \A a \in Account : erasing'[a] = erasing[a] \/
             (erasing[a] = Nobody /\ erasing'[a] = w /\ Erasable(a) /\ shared'[a] \subseteq {w})
  BY <1>1
<1>4. t \in Merge /\ t.step # "lock" =>
          /\ linkLock'[t.link] = w /\ t.old \in Account
          /\ t.step # "update" => w \in shared'[t.target]
          /\ t.step \in {"erase", "cascade"} => t.old # t.target
          /\ t.step = "cascade" => erasing'[t.old] = w
  BY <1>1
<1> QED BY <1>1, <1>2, <1>3, <1>4, StepKeeps

LEMMA BeginKeeps ==
    ASSUME IndInv, NEW w \in Worker, Begin(w)
    PROVE  IndInv'
<1>1. TypeOK
  BY DEF IndInv
<1>2. CASE BeginVisit(w)
  <2>1. PICK lab \in Laboratory, v \in Visitor, a \in Account, l \in Link :
            /\ users[a] = Unused /\ links[l] = Unused
            /\ \A x \in Worker : Running(x, "visit") => txn[x].account # a /\ txn[x].link # l
            /\ Start(w, [op |-> "visit", step |-> "touch", laboratory |-> lab, visitor |-> v,
                         account |-> a, link |-> l])
    BY <1>2 DEF BeginVisit
  <2> DEFINE t == [op |-> "visit", step |-> "touch", laboratory |-> lab, visitor |-> v, account |-> a, link |-> l]
  <2>2. t \in Visit /\ t.account = a /\ t.link = l
    BY DEF Visit
  <2>3. t \notin Merge
    BY <2>2 DEF Visit, Merge
  <2> HIDE DEF t
  <2>4. txn' = [txn EXCEPT ![w] = t] /\ answers' = [answers EXCEPT ![w] = "none"] /\ UNCHANGED <<tables, locks>>
    BY <2>1 DEF Start, t
  <2>5. answers' \in [Worker -> {"none", "served", "refused"}] /\ UNCHANGED <<tables, locks>>
    BY <1>1, <2>4 DEF TypeOK
  <2> QED BY <2>1, <2>2, <2>3, <2>4, <2>5, QuietStepKeeps
<1>3. CASE BeginMerge(w)
  <2>1. PICK l \in Link, a \in Account :
            Start(w, [op |-> "merge", step |-> "lock", link |-> l, old |-> Nobody, target |-> a])
    BY <1>3 DEF BeginMerge
  <2> DEFINE t == [op |-> "merge", step |-> "lock", link |-> l, old |-> Nobody, target |-> a]
  <2>2. t \in Merge /\ t.step = "lock"
    BY DEF Merge
  <2>3. t \notin Visit
    BY <2>2 DEF Visit, Merge
  <2> HIDE DEF t
  <2>4. txn' = [txn EXCEPT ![w] = t] /\ answers' = [answers EXCEPT ![w] = "none"] /\ UNCHANGED <<tables, locks>>
    BY <2>1 DEF Start, t
  <2>5. answers' \in [Worker -> {"none", "served", "refused"}] /\ UNCHANGED <<tables, locks>>
    BY <1>1, <2>4 DEF TypeOK
  <2> QED BY <2>2, <2>3, <2>4, <2>5, QuietStepKeeps
<1> QED BY <1>2, <1>3 DEF Begin

LEMMA VisitGoesOn ==
    ASSUME IndInv, NEW w \in Worker, Running(w, "visit"), NEW step \in {"account", "link"}, GoTo(w, step), UNCHANGED locks
    PROVE  IndInv'
<1> DEFINE t == [txn[w] EXCEPT !.step = step]
<1>1. TypeOK
  BY DEF IndInv
<1>2. /\ txn[w] \in Visit /\ users[txn[w].account] = Unused /\ links[txn[w].link] = Unused
      /\ \A x \in Worker : Running(x, "visit") /\ x # w =>
            txn[x].account # txn[w].account /\ txn[x].link # txn[w].link
  BY VisitFields DEF IndInv, VisitsDraw
<1>3. t \in Visit /\ t.account = txn[w].account /\ t.link = txn[w].link
  BY <1>2 DEF Visit
<1>4. /\ txn' = [txn EXCEPT ![w] = t] /\ UNCHANGED <<tables, locks>>
      /\ answers' \in [Worker -> {"none", "served", "refused"}]
  BY <1>1 DEF GoTo, TypeOK
<1>5. t \notin Merge
  BY <1>3 DEF Visit, Merge
<1> HIDE DEF t
<1> QED BY <1>2, <1>3, <1>4, <1>5, QuietStepKeeps

LEMMA TouchKeeps ==
    ASSUME IndInv, NEW w \in Worker, Touch(w)
    PROVE  IndInv'
<1>1. CASE Answer(w, "served") /\ UNCHANGED tables
  BY <1>1, RefuseKeeps
<1>2. CASE GoTo(w, "account") /\ UNCHANGED locks
  BY <1>2, VisitGoesOn DEF Touch, At
<1> QED BY <1>1, <1>2 DEF Touch

LEMMA MakeShadowKeeps ==
    ASSUME IndInv, NEW w \in Worker, MakeShadow(w)
    PROVE  IndInv'
<1>1. CASE Refuse(w)
  BY <1>1, RefuseKeeps DEF Refuse
<1>2. CASE GoTo(w, "link") /\ UNCHANGED locks
  BY <1>2, VisitGoesOn DEF MakeShadow, At
<1> QED BY <1>1, <1>2 DEF MakeShadow

(* A merge goes on to a statement with what it has locked. *)
LEMMA MergeStep ==
    ASSUME IndInv, NEW w \in Worker, Running(w, "merge"),
           NEW step \in {"update", "check", "erase", "cascade", "commit"}, GoTo(w, step)
    PROVE  \E t \in Merge :
              /\ txn' = [txn EXCEPT ![w] = t] /\ UNCHANGED tables
              /\ answers' \in [Worker -> {"none", "served", "refused"}]
              /\ t.step = step /\ t.link = txn[w].link /\ t.old = txn[w].old /\ t.target = txn[w].target
              /\ t \notin Visit
<1> DEFINE t == [txn[w] EXCEPT !.step = step]
<1>1. txn[w] \in Merge
  BY MergeFields
<1>2. t \in Merge /\ t.step = step /\ t.link = txn[w].link /\ t.old = txn[w].old /\ t.target = txn[w].target
  BY <1>1 DEF Merge
<1>3. t \notin Visit
  BY <1>2 DEF Merge, Visit
<1>4. txn' = [txn EXCEPT ![w] = t] /\ UNCHANGED tables /\ answers' \in [Worker -> {"none", "served", "refused"}]
  BY DEF GoTo, IndInv, TypeOK
<1> HIDE DEF t
<1> QED BY <1>2, <1>3, <1>4

LEMMA LockLinkKeeps ==
    ASSUME IndInv, NEW w \in Worker, LockLink(w)
    PROVE  IndInv'
<1>1. CASE Refuse(w)
  BY <1>1, RefuseKeeps DEF Refuse
<1>2. CASE ~Refuse(w)
  <2> DEFINE l == txn[w].link
             t == [txn[w] EXCEPT !.step = "update", !.old = links[l].guest]
  <2>1. /\ Running(w, "merge") /\ linkLock[l] = Nobody /\ HasLink(l) /\ linkLock' = [linkLock EXCEPT ![l] = w]
        /\ txn' = [txn EXCEPT ![w].step = "update", ![w].old = links[l].guest]
        /\ UNCHANGED <<tables, shared, erasing, answers>>
    BY <1>2 DEF LockLink, At
  <2>2. TypeOK
    BY DEF IndInv
  <2>3. txn[w] \in Merge /\ l \in Link
    BY <2>1, MergeFields
  <2>4. links[l].guest \in Account
    BY <2>1, <2>3, Rows
  <2>5. txn' = [txn EXCEPT ![w] = t]
    BY <2>1, <2>2 DEF TypeOK
  <2>6. t \in Merge /\ t.step = "update" /\ t.link = l /\ t.old \in Account
    BY <2>3, <2>4 DEF Merge
  <2>7. t \notin Visit
    BY <2>6 DEF Merge, Visit
  <2> HIDE DEF t, l
  <2>8. linkLock'[l] = w /\ \A k \in Link : linkLock'[k] = linkLock[k] \/ (linkLock[k] = Nobody /\ linkLock'[k] = w /\ HasLink(k))
    BY <2>1, <2>2, <2>3 DEF TypeOK
  <2>9. /\ linkLock' \in [Link -> Worker \cup {Nobody}] /\ shared' \in [Account -> SUBSET Worker]
        /\ erasing' \in [Account -> Worker \cup {Nobody}] /\ answers' \in [Worker -> {"none", "served", "refused"}]
    BY <2>1, <2>2, <2>3 DEF TypeOK
  <2>10. UNCHANGED tables /\ \A a \in Account : shared'[a] = shared[a] /\ erasing'[a] = erasing[a]
    BY <2>1
  <2> QED BY <2>5, <2>6, <2>7, <2>8, <2>9, <2>10, StepKeeps
<1> QED BY <1>1, <1>2

LEMMA PointAtTargetKeeps ==
    ASSUME IndInv, NEW w \in Worker, PointAtTarget(w)
    PROVE  IndInv'
<1>1. CASE Refuse(w)
  BY <1>1, RefuseKeeps DEF Refuse
<1>2. CASE ~Refuse(w)
  <2>1. PICK a \in Account : a = txn[w].target
    BY MergeFields DEF PointAtTarget, At
  <2>2. /\ Running(w, "merge") /\ txn[w].step = "update" /\ erasing[a] = Nobody /\ HasAccount(a)
        /\ shared' = [shared EXCEPT ![a] = shared[a] \cup {w}] /\ GoTo(w, "check")
        /\ UNCHANGED <<linkLock, erasing>>
    BY <1>2, <2>1 DEF PointAtTarget, At
  <2>3. TypeOK
    BY DEF IndInv
  <2>4. PICK t \in Merge :
              /\ txn' = [txn EXCEPT ![w] = t] /\ UNCHANGED tables
              /\ answers' \in [Worker -> {"none", "served", "refused"}]
              /\ t.step = "check" /\ t.link = txn[w].link /\ t.old = txn[w].old /\ t.target = txn[w].target
              /\ t \notin Visit
    BY <2>2, MergeStep
  <2>5. linkLock[t.link] = w /\ t.old \in Account
    BY <2>2, <2>4 DEF IndInv, MergesHold
  <2>6. w \in shared'[a] /\ \A x \in Account : shared'[x] = shared[x] \/
            (shared'[x] = shared[x] \cup {w} /\ erasing[x] = Nobody /\ erasing'[x] = Nobody /\ HasAccount(x))
    BY <2>2, <2>3 DEF TypeOK
  <2>7. /\ linkLock' \in [Link -> Worker \cup {Nobody}] /\ shared' \in [Account -> SUBSET Worker]
        /\ erasing' \in [Account -> Worker \cup {Nobody}]
    BY <2>2, <2>3 DEF TypeOK
  <2>8. /\ \A l \in Link : linkLock'[l] = linkLock[l]
        /\ \A x \in Account : erasing'[x] = erasing[x]
    BY <2>2
  <2> QED BY <2>1, <2>2, <2>4, <2>5, <2>6, <2>7, <2>8, StepKeeps
<1> QED BY <1>1, <1>2

LEMMA CheckOldAccountKeeps ==
    ASSUME IndInv, NEW w \in Worker, CheckOldAccount(w)
    PROVE  IndInv'
<1>1. Running(w, "merge") /\ txn[w].step = "check" /\ UNCHANGED locks
  BY DEF CheckOldAccount, At
<1>2. PICK step \in {"commit", "erase"} : GoTo(w, step) /\ (step = "erase" => txn[w].old # txn[w].target)
  BY DEF CheckOldAccount
<1>3. PICK t \in Merge :
            /\ txn' = [txn EXCEPT ![w] = t] /\ UNCHANGED tables
            /\ answers' \in [Worker -> {"none", "served", "refused"}]
            /\ t.step = step /\ t.link = txn[w].link /\ t.old = txn[w].old /\ t.target = txn[w].target
            /\ t \notin Visit
  BY <1>1, <1>2, MergeStep
<1>4. linkLock[t.link] = w /\ t.old \in Account /\ w \in shared[t.target] /\ (t.step = "erase" => t.old # t.target)
  BY <1>1, <1>2, <1>3 DEF IndInv, MergesHold
<1>5. UNCHANGED <<tables, locks>>
  BY <1>1, <1>3
<1> QED BY <1>2, <1>3, <1>4, <1>5, QuietStepKeeps

LEMMA EraseOldAccountKeeps ==
    ASSUME IndInv, NEW w \in Worker, EraseOldAccount(w)
    PROVE  IndInv'
<1>1. Running(w, "merge") /\ txn[w].step = "erase"
  BY DEF EraseOldAccount, At
<1>2. PICK a \in Account : a = txn[w].old
  BY <1>1, MergeFields
<1>3. linkLock[txn[w].link] = w /\ w \in shared[txn[w].target] /\ a # txn[w].target
  BY <1>1, <1>2 DEF IndInv, MergesHold
<1>4. CASE GoTo(w, "commit") /\ UNCHANGED locks
  <2>1. PICK t \in Merge :
              /\ txn' = [txn EXCEPT ![w] = t] /\ UNCHANGED tables
              /\ answers' \in [Worker -> {"none", "served", "refused"}]
              /\ t.step = "commit" /\ t.link = txn[w].link /\ t.old = txn[w].old /\ t.target = txn[w].target
              /\ t \notin Visit
    BY <1>1, <1>4, MergeStep
  <2>2. UNCHANGED <<tables, locks>>
    BY <1>4, <2>1
  <2> QED BY <1>2, <1>3, <2>1, <2>2, QuietStepKeeps
<1>5. CASE /\ Erasable(a) /\ shared[a] \subseteq {w} /\ erasing[a] = Nobody
           /\ erasing' = [erasing EXCEPT ![a] = w] /\ GoTo(w, "cascade") /\ UNCHANGED <<linkLock, shared>>
  <2>1. PICK t \in Merge :
              /\ txn' = [txn EXCEPT ![w] = t] /\ UNCHANGED tables
              /\ answers' \in [Worker -> {"none", "served", "refused"}]
              /\ t.step = "cascade" /\ t.link = txn[w].link /\ t.old = txn[w].old /\ t.target = txn[w].target
              /\ t \notin Visit
    BY <1>1, <1>5, MergeStep
  <2>2. TypeOK
    BY DEF IndInv
  <2>3. erasing'[a] = w /\ \A x \in Account : erasing'[x] = erasing[x] \/
            (erasing[x] = Nobody /\ erasing'[x] = w /\ Erasable(x) /\ shared'[x] \subseteq {w})
    BY <1>5, <2>2 DEF TypeOK
  <2>4. /\ linkLock' \in [Link -> Worker \cup {Nobody}] /\ shared' \in [Account -> SUBSET Worker]
        /\ erasing' \in [Account -> Worker \cup {Nobody}]
    BY <1>5, <2>2 DEF TypeOK
  <2>5. /\ \A l \in Link : linkLock'[l] = linkLock[l]
        /\ \A x \in Account : shared'[x] = shared[x]
    BY <1>5
  <2>6. linkLock'[t.link] = w /\ w \in shared'[t.target] /\ t.old = a /\ t.old # t.target
    BY <1>2, <1>3, <1>5, <2>1
  <2> QED BY <2>1, <2>3, <2>4, <2>5, <2>6, StepKeeps
<1> QED BY <1>2, <1>4, <1>5 DEF EraseOldAccount

LEMMA LockCascadeKeeps ==
    ASSUME IndInv, NEW w \in Worker, LockCascade(w)
    PROVE  IndInv'
<1>1. /\ Running(w, "merge") /\ txn[w].step = "cascade"
      /\ UNCHANGED <<tables, txn, shared, erasing, answers>>
  BY DEF LockCascade, At
<1>2. PICK l \in Link : HasLink(l) /\ linkLock[l] = Nobody /\ linkLock' = [linkLock EXCEPT ![l] = w]
  BY DEF LockCascade, LinksTo
<1>3. PICK t \in Merge : t = txn[w]
  BY <1>1, MergeFields
<1>4. TypeOK
  BY DEF IndInv
<1>5. /\ linkLock[t.link] = w /\ t.old \in Account /\ w \in shared[t.target] /\ t.old # t.target
      /\ erasing[t.old] = w /\ t.step = "cascade" /\ t.link \in Link
  BY <1>1, <1>3, MergeFields DEF IndInv, MergesHold
<1>6. txn' = [txn EXCEPT ![w] = t]
  BY <1>1, <1>3, <1>4 DEF TypeOK
<1>7. t \notin Visit
  BY <1>3 DEF Merge, Visit
<1>8. \A k \in Link : linkLock'[k] = linkLock[k] \/ (linkLock[k] = Nobody /\ linkLock'[k] = w /\ HasLink(k))
  BY <1>2, <1>4 DEF TypeOK
<1>9. linkLock'[t.link] = w
  BY <1>2, <1>4, <1>5, Kinds DEF TypeOK
<1>10. /\ linkLock' \in [Link -> Worker \cup {Nobody}] /\ shared' \in [Account -> SUBSET Worker]
       /\ erasing' \in [Account -> Worker \cup {Nobody}] /\ answers' \in [Worker -> {"none", "served", "refused"}]
  BY <1>1, <1>2, <1>4 DEF TypeOK
<1>11. UNCHANGED tables /\ \A a \in Account : shared'[a] = shared[a] /\ erasing'[a] = erasing[a]
  BY <1>1
<1>12. w \in shared'[t.target] /\ erasing'[t.old] = w
  BY <1>1, <1>5
<1> QED BY <1>3, <1>5, <1>6, <1>7, <1>8, <1>9, <1>10, <1>11, <1>12, StepKeeps

-----------------------------------------------------------------------------
(* Statements that write rows *)

LEMMA InsertLinkKeeps ==
    ASSUME IndInv, NEW w \in Worker, InsertLink(w)
    PROVE  IndInv'
<1>1. Running(w, "visit") /\ Answer(w, "served")
  BY DEF InsertLink, At
<1>2. PICK t \in Visit : t = txn[w]
  BY <1>1, VisitFields
<1>3. CASE LinksOf(t.laboratory, t.visitor) # {}
  <2>1. UNCHANGED tables
    BY <1>2, <1>3 DEF InsertLink
  <2> QED BY <1>1, <2>1, RefuseKeeps
<1>4. CASE LinksOf(t.laboratory, t.visitor) = {}
  <2> DEFINE person == [laboratory |-> t.laboratory, shadowOf |-> t.visitor]
             tie == [laboratory |-> t.laboratory, visitor |-> t.visitor, guest |-> t.account]
  <2>1. users' = [users EXCEPT ![t.account] = person] /\ links' = [links EXCEPT ![t.link] = tie]
    BY <1>2, <1>4 DEF InsertLink
  <2>2. /\ t.laboratory \in Laboratory /\ t.visitor \in Visitor /\ t.account \in Account /\ t.link \in Link
        /\ users[t.account] = Unused /\ links[t.link] = Unused
    BY <1>1, <1>2, VisitFields
  <2>3. /\ person \in Person /\ person.shadowOf = t.visitor
        /\ tie \in Tie /\ tie.laboratory = t.laboratory /\ tie.visitor = t.visitor /\ tie.guest = t.account
    BY <2>2 DEF Person, Tie
  <2> HIDE DEF person, tie
  <2>4. TypeOK
    BY DEF IndInv
  <2>5. /\ users'[t.account] = person /\ \A a \in Account \ {t.account} : users'[a] = users[a]
        /\ links'[t.link] = tie /\ \A l \in Link \ {t.link} : links'[l] = links[l]
    BY <2>1, <2>2, <2>4 DEF TypeOK
  <2>6. TypeOK'
    <3>1. users' \in [Account -> Person \cup {Unused, Gone}] /\ links' \in [Link -> Tie \cup {Unused, Gone}]
      BY <2>1, <2>2, <2>3, <2>4 DEF TypeOK
    <3> QED BY <1>1, <3>1, AnswerFrees
  <2>7. ~HasAccount(t.account) /\ HasAccount(t.account)' /\ ~HasLink(t.link) /\ HasLink(t.link)'
    BY <2>2, <2>3, <2>5, Kinds DEF HasAccount, HasLink
  <2>8. /\ \A a \in Account \ {t.account} : HasAccount(a)' = HasAccount(a) /\ Erasable(a)' = Erasable(a)
        /\ \A l \in Link \ {t.link} : HasLink(l)' = HasLink(l)
    BY <2>5 DEF HasAccount, HasLink, Erasable
  <2>9. VisitsDraw'
    <3>1. ASSUME NEW x \in Worker, Running(x, "visit")'
          PROVE  /\ Running(x, "visit") /\ txn'[x] = txn[x]
                 /\ users'[txn[x].account] = users[txn[x].account] /\ links'[txn[x].link] = links[txn[x].link]
      <4>1. x # w /\ txn'[x] = txn[x] /\ Running(x, "visit")
        BY <1>1, <3>1, AnswerFrees DEF Running
      <4>2. txn[x].account # t.account /\ txn[x].link # t.link
        BY <1>1, <1>2, <4>1 DEF IndInv, VisitsDraw
      <4>3. txn[x].account \in Account /\ txn[x].link \in Link
        BY <4>1, VisitFields
      <4> QED BY <2>5, <4>1, <4>2, <4>3
    <3> QED BY <3>1, VisitsStay
  <2>10. MergesHold'
    BY <1>1, AnswerFrees
  <2>11. LockedAreThere'
    <3>1. ASSUME NEW l \in Link, linkLock'[l] # Nobody PROVE HasLink(l)'
      BY <1>1, <2>7, <2>8, <3>1, AnswerFrees DEF IndInv, LockedAreThere
    <3>2. ASSUME NEW a \in Account, shared'[a] # {} PROVE HasAccount(a)'
      BY <1>1, <2>7, <2>8, <3>2, AnswerFrees DEF IndInv, LockedAreThere
    <3>3. ASSUME NEW a \in Account, erasing'[a] # Nobody PROVE Erasable(a)' /\ shared'[a] \subseteq {erasing'[a]}
      <4>1. erasing'[a] = erasing[a] /\ Erasable(a) /\ shared[a] \subseteq {erasing[a]}
        BY <1>1, <3>3, AnswerFrees DEF IndInv, LockedAreThere
      <4>2. a # t.account
        BY <2>7, <4>1 DEF Erasable
      <4> QED BY <1>1, <2>8, <4>1, <4>2, AnswerFrees
    <3> QED BY <3>1, <3>2, <3>3 DEF LockedAreThere
  <2>12. RealOnes'
    <3>1. ASSUME NEW a \in Local PROVE a \in Account /\ a # t.account
      BY <2>2, LocalAssumption DEF IndInv, RealOnes
    <3> QED BY <2>5, <3>1 DEF IndInv, RealOnes
  <2>13. UniqueKey'
    <3>1. ASSUME NEW l \in Link, HasLink(l), links[l].laboratory = t.laboratory, links[l].visitor = t.visitor PROVE FALSE
      BY <1>4, <3>1 DEF LinksOf
    <3>2. ASSUME NEW k \in Link, NEW l \in Link, HasLink(k)', HasLink(l)', links'[k].laboratory = links'[l].laboratory,
                 links'[k].visitor = links'[l].visitor
          PROVE  k = l
      BY <2>3, <2>5, <2>8, <3>1, <3>2 DEF IndInv, UniqueKey
    <3> QED BY <3>2 DEF UniqueKey
  <2>14. LinksHaveTheirAccount'
    <3>1. ASSUME NEW l \in Link, HasLink(l)' PROVE \E a \in Account : a = links'[l].guest /\ HasAccount(a)'
      <4>1. CASE l = t.link
        BY <2>2, <2>3, <2>5, <2>7, <4>1
      <4>2. CASE l # t.link
        <5>1. PICK a \in Account : a = links[l].guest /\ HasAccount(a) /\ links'[l].guest = a
          BY <2>5, <2>8, <3>1, <4>2, Rows DEF IndInv, LinksHaveTheirAccount
        <5> QED BY <2>7, <2>8, <5>1
      <4> QED BY <4>1, <4>2
    <3> QED BY <3>1 DEF LinksHaveTheirAccount, HasAccount
  <2> QED BY <2>6, <2>9, <2>10, <2>11, <2>12, <2>13, <2>14 DEF IndInv
<1> QED BY <1>3, <1>4

(* What a merge writes at its commit: its link k goes to the target, and with *)
(* the account a go the links that referred to it.                            *)
MergeWrites(w, k, a, target, gone) ==
    /\ Running(w, "merge") /\ Answer(w, "served")
    /\ linkLock[k] = w /\ HasLink(k) /\ w \in shared[target]
    /\ \A l \in gone : l # k /\ linkLock[l] = w /\ links'[l] = Gone
    /\ \A l \in Link : l # k /\ l \notin gone => links'[l] = links[l]
    /\ links'[k] \in Tie /\ links'[k].laboratory = links[k].laboratory
    /\ links'[k].visitor = links[k].visitor /\ links'[k].guest = target
    /\ links' \in [Link -> Tie \cup {Unused, Gone}]
    /\ \/ users' = users
       \/ /\ users' = [users EXCEPT ![a] = Gone] /\ erasing[a] = w /\ a # target
          /\ \A l \in Link : HasLink(l) /\ links[l].guest = a => l = k \/ l \in gone

LEMMA MergeWritesThis ==
    ASSUME IndInv, NEW w \in Worker, CommitMerge(w)
    PROVE  \E k \in Link, a \in Account, target \in Account, gone \in SUBSET Link :
              MergeWrites(w, k, a, target, gone)
<1>1. /\ Running(w, "merge") /\ Answer(w, "served") /\ txn[w].step \in {"commit", "cascade"}
      /\ links' = Merged(w) /\ users' = IF txn[w].step = "cascade" THEN [users EXCEPT ![txn[w].old] = Gone] ELSE users
      /\ txn[w].step = "cascade" => \A l \in LinksTo(txn[w].old) : linkLock[l] = w
  BY DEF CommitMerge, At
<1>2. PICK t \in Merge : t = txn[w]
  BY <1>1, MergeFields
<1>3. /\ t.link \in Link /\ t.old \in Account /\ t.target \in Account /\ t.step \in {"commit", "cascade"}
      /\ linkLock[t.link] = w /\ w \in shared[t.target]
      /\ t.step = "cascade" => t.old # t.target /\ erasing[t.old] = w
  BY <1>1, <1>2, MergeFields DEF IndInv, MergesHold
<1>4. HasLink(t.link)
  BY <1>3, Kinds DEF IndInv, LockedAreThere
<1> DEFINE gone == IF t.step = "cascade" THEN LinksTo(t.old) \ {t.link} ELSE {}
           new == [links[t.link] EXCEPT !.guest = t.target]
<1>5. links' = [l \in Link |-> CASE l = t.link -> new
                                 [] t.step = "cascade" /\ l \in LinksTo(t.old) \ {t.link} -> Gone
                                 [] OTHER -> links[l]]
  BY <1>1, <1>2 DEF Merged
<1>6. links'[t.link] = new /\ (\A l \in gone : links'[l] = Gone)
      /\ (\A l \in Link : l # t.link /\ l \notin gone => links'[l] = links[l])
  BY <1>3, <1>5 DEF LinksTo
<1>7. gone \in SUBSET Link /\ \A l \in gone : l # t.link /\ linkLock[l] = w
  BY <1>1, <1>2 DEF LinksTo
<1>8. /\ new \in Tie /\ new.laboratory = links[t.link].laboratory /\ new.visitor = links[t.link].visitor
      /\ new.guest = t.target
  BY <1>3, <1>4, Rows DEF Tie
<1>9. links' \in [Link -> Tie \cup {Unused, Gone}]
  BY <1>5, <1>8 DEF IndInv, TypeOK
<1>10. t.step = "cascade" => \A l \in Link : HasLink(l) /\ links[l].guest = t.old => l = t.link \/ l \in gone
  BY DEF LinksTo
<1> HIDE DEF gone, new
<1>11. \/ users' = users
       \/ /\ users' = [users EXCEPT ![t.old] = Gone] /\ erasing[t.old] = w /\ t.old # t.target
          /\ \A l \in Link : HasLink(l) /\ links[l].guest = t.old => l = t.link \/ l \in gone
  BY <1>1, <1>2, <1>3, <1>10
<1>12. /\ links'[t.link] \in Tie /\ links'[t.link].laboratory = links[t.link].laboratory
       /\ links'[t.link].visitor = links[t.link].visitor /\ links'[t.link].guest = t.target
  BY <1>6, <1>8
<1>13. \A l \in gone : l # t.link /\ linkLock[l] = w /\ links'[l] = Gone
  BY <1>6, <1>7
<1>14. gone \in SUBSET Link
  BY <1>7
<1>15. MergeWrites(w, t.link, t.old, t.target, gone)
  BY <1>1, <1>3, <1>4, <1>6, <1>9, <1>11, <1>12, <1>13 DEF MergeWrites
<1> QED BY <1>3, <1>14, <1>15

LEMMA CommitMergeKeeps ==
    ASSUME IndInv, NEW w \in Worker, CommitMerge(w)
    PROVE  IndInv'
<1>0. PICK k \in Link, a \in Account, target \in Account, gone \in SUBSET Link :
          MergeWrites(w, k, a, target, gone)
  BY MergeWritesThis
<1>1. /\ Running(w, "merge") /\ Answer(w, "served")
      /\ linkLock[k] = w /\ HasLink(k) /\ w \in shared[target]
      /\ \A l \in gone : l # k /\ linkLock[l] = w /\ links'[l] = Gone
      /\ \A l \in Link : l # k /\ l \notin gone => links'[l] = links[l]
      /\ links'[k] \in Tie /\ links'[k].laboratory = links[k].laboratory
      /\ links'[k].visitor = links[k].visitor /\ links'[k].guest = target
      /\ links' \in [Link -> Tie \cup {Unused, Gone}]
      /\ \/ users' = users
         \/ /\ users' = [users EXCEPT ![a] = Gone] /\ erasing[a] = w /\ a # target
            /\ \A l \in Link : HasLink(l) /\ links[l].guest = a => l = k \/ l \in gone
  BY <1>0 DEF MergeWrites
<1>2. TypeOK
  BY DEF IndInv
<1>3. /\ \A x \in Account \ {a} : users'[x] = users[x]
      /\ users'[a] = users[a] \/ (users'[a] = Gone /\ erasing[a] = w)
      /\ users' \in [Account -> Person \cup {Unused, Gone}]
  BY <1>1, <1>2 DEF TypeOK
<1>4. TypeOK'
  BY <1>1, <1>3, AnswerFrees
<1>5. /\ \A l \in Link : l # k /\ l \notin gone => HasLink(l)' = HasLink(l)
      /\ HasLink(k)' /\ \A l \in gone : ~HasLink(l)' /\ HasLink(l)
  BY <1>1, Kinds DEF HasLink, IndInv, LockedAreThere
<1>6. \A x \in Account \ {a} : HasAccount(x)' = HasAccount(x) /\ Erasable(x)' = Erasable(x)
  BY <1>3 DEF HasAccount, Erasable
<1>7. users'[a] = users[a] => HasAccount(a)' = HasAccount(a) /\ Erasable(a)' = Erasable(a)
  BY DEF HasAccount, Erasable
<1>8. HasAccount(target) /\ HasAccount(target)'
  <2>1. HasAccount(target)
    BY <1>1 DEF IndInv, LockedAreThere
  <2> QED BY <1>1, <1>6, <2>1 DEF HasAccount
<1>9. VisitsDraw'
  <2>1. ASSUME NEW x \in Worker, Running(x, "visit")'
        PROVE  /\ Running(x, "visit") /\ txn'[x] = txn[x]
               /\ users'[txn[x].account] = users[txn[x].account] /\ links'[txn[x].link] = links[txn[x].link]
    <3>1. txn'[x] = txn[x] /\ Running(x, "visit")
      BY <1>1, <2>1, AnswerFrees DEF Running
    <3>2. /\ txn[x].account \in Account /\ txn[x].link \in Link
          /\ users[txn[x].account] = Unused /\ links[txn[x].link] = Unused
      BY <3>1, VisitFields
    <3>3. txn[x].link # k /\ txn[x].link \notin gone
      BY <1>1, <1>5, <3>2, Kinds DEF HasLink
    <3>4. users'[txn[x].account] = users[txn[x].account]
      <4>1. CASE txn[x].account # a
        BY <1>3, <3>2, <4>1
      <4>2. CASE txn[x].account = a /\ users'[a] # users[a]
        <5>1. HasAccount(a)
          BY <1>3, <4>2, Kinds DEF IndInv, LockedAreThere, Erasable
        <5> QED BY <3>2, <4>2, <5>1 DEF HasAccount
      <4> QED BY <4>1, <4>2
    <3> QED BY <1>1, <3>1, <3>2, <3>3, <3>4
  <2> QED BY <2>1, VisitsStay
<1>10. MergesHold'
  BY <1>1, AnswerFrees
<1>11. LockedAreThere'
  <2>1. ASSUME NEW l \in Link, linkLock'[l] # Nobody PROVE HasLink(l)'
    BY <1>1, <1>5, <2>1, AnswerFrees DEF IndInv, LockedAreThere
  <2>2. ASSUME NEW x \in Account, shared'[x] # {} PROVE HasAccount(x)'
    <3>1. HasAccount(x) /\ shared'[x] = shared[x] \ {w}
      BY <1>1, <2>2, AnswerFrees DEF IndInv, LockedAreThere
    <3>2. ~(erasing[x] = w)
      BY <2>2, <3>1, Kinds DEF IndInv, LockedAreThere
    <3> QED BY <1>3, <1>6, <1>7, <3>1, <3>2
  <2>3. ASSUME NEW x \in Account, erasing'[x] # Nobody PROVE Erasable(x)' /\ shared'[x] \subseteq {erasing'[x]}
    <3>1. /\ erasing'[x] = erasing[x] /\ erasing[x] # w /\ Erasable(x)
          /\ shared[x] \subseteq {erasing[x]} /\ shared'[x] = shared[x] \ {w}
      BY <1>1, <2>3, AnswerFrees DEF IndInv, LockedAreThere
    <3> QED BY <1>3, <1>6, <1>7, <3>1
  <2> QED BY <2>1, <2>2, <2>3 DEF LockedAreThere
<1>12. RealOnes'
  <2>1. ASSUME NEW x \in Local PROVE x \in Account /\ users'[x] = users[x]
    <3>1. x \in Account
      BY LocalAssumption
    <3>2. ASSUME erasing[x] = w PROVE FALSE
      <4>1. HasAccount(x) /\ users[x].shadowOf # Nobody
        BY <3>1, <3>2, Kinds DEF IndInv, LockedAreThere, Erasable
      <4> QED BY <4>1 DEF IndInv, RealOnes, HasAccount
    <3> QED BY <1>3, <3>1, <3>2
  <2> QED BY <2>1 DEF IndInv, RealOnes
<1>13. UniqueKey'
  <2>1. ASSUME NEW l \in Link, HasLink(l)'
        PROVE  HasLink(l) /\ links'[l].laboratory = links[l].laboratory /\ links'[l].visitor = links[l].visitor
    BY <1>1, <1>5, <2>1
  <2> QED BY <2>1 DEF IndInv, UniqueKey
<1>14. LinksHaveTheirAccount'
  <2>1. ASSUME NEW l \in Link, HasLink(l)' PROVE \E x \in Account : x = links'[l].guest /\ HasAccount(x)'
    <3>1. CASE l = k
      BY <1>1, <1>8, <3>1
    <3>2. CASE l # k
      <4>1. l \notin gone /\ links'[l] = links[l] /\ HasLink(l)
        BY <1>1, <1>5, <2>1, <3>2
      <4>2. PICK x \in Account : x = links[l].guest /\ HasAccount(x)
        BY <4>1, Rows DEF IndInv, LinksHaveTheirAccount
      <4>3. x = a => users' = users
        BY <1>1, <3>2, <4>1, <4>2
      <4> QED BY <1>6, <1>7, <4>1, <4>2, <4>3
    <3> QED BY <3>1, <3>2
  <2> QED BY <2>1 DEF LinksHaveTheirAccount, HasAccount
<1> QED BY <1>4, <1>9, <1>10, <1>11, <1>12, <1>13, <1>14 DEF IndInv

LEMMA DeleteUserKeeps ==
    ASSUME IndInv, NEW a \in Account, DeleteUser(a)
    PROVE  IndInv'
<1>1. /\ HasAccount(a) /\ shared[a] = {} /\ erasing[a] = Nobody
      /\ \A l \in LinksTo(a) : linkLock[l] = Nobody
      /\ users' = [users EXCEPT ![a] = Gone]
      /\ links' = [l \in Link |-> IF l \in LinksTo(a) THEN Gone ELSE links[l]]
      /\ txn' = txn /\ linkLock' = linkLock /\ shared' = shared /\ erasing' = erasing /\ answers' = answers
  BY DEF DeleteUser, locks
<1>2. TypeOK
  BY DEF IndInv
<1>3. /\ users'[a] = Gone /\ \A x \in Account \ {a} : users'[x] = users[x]
      /\ \A l \in LinksTo(a) : links'[l] = Gone /\ HasLink(l) /\ l \in Link
      /\ \A l \in Link \ LinksTo(a) : links'[l] = links[l]
  BY <1>1, <1>2 DEF TypeOK, LinksTo
<1>4. TypeOK'
  BY <1>1, <1>2 DEF TypeOK
<1>5. /\ \A x \in Account \ {a} : HasAccount(x)' = HasAccount(x) /\ Erasable(x)' = Erasable(x)
      /\ \A l \in Link \ LinksTo(a) : HasLink(l)' = HasLink(l)
      /\ \A l \in LinksTo(a) : ~HasLink(l)'
  BY <1>3 DEF HasAccount, HasLink, Erasable
<1>6. VisitsDraw'
  <2>1. ASSUME NEW x \in Worker, Running(x, "visit")'
        PROVE  /\ Running(x, "visit") /\ txn'[x] = txn[x]
               /\ users'[txn[x].account] = users[txn[x].account] /\ links'[txn[x].link] = links[txn[x].link]
    <3>1. Running(x, "visit") /\ txn'[x] = txn[x]
      BY <1>1, <2>1 DEF Running
    <3>2. /\ txn[x].account \in Account /\ txn[x].link \in Link
          /\ users[txn[x].account] = Unused /\ links[txn[x].link] = Unused
      BY <3>1, VisitFields
    <3>3. txn[x].account # a /\ txn[x].link \notin LinksTo(a)
      BY <1>1, <3>2 DEF HasAccount, LinksTo, HasLink
    <3> QED BY <1>3, <3>1, <3>2, <3>3
  <2> QED BY <2>1, VisitsStay
<1>7. MergesHold'
  BY <1>1 DEF IndInv, MergesHold, Running
<1>8. LockedAreThere'
  <2>1. ASSUME NEW l \in Link, linkLock'[l] # Nobody PROVE HasLink(l)'
    BY <1>1, <1>5, <2>1 DEF IndInv, LockedAreThere
  <2>2. ASSUME NEW x \in Account, shared'[x] # {} PROVE HasAccount(x)'
    BY <1>1, <1>5, <2>2 DEF IndInv, LockedAreThere
  <2>3. ASSUME NEW x \in Account, erasing'[x] # Nobody PROVE Erasable(x)' /\ shared'[x] \subseteq {erasing'[x]}
    BY <1>1, <1>5, <2>3 DEF IndInv, LockedAreThere
  <2> QED BY <2>1, <2>2, <2>3 DEF LockedAreThere
<1>9. RealOnes'
  <2>1. ASSUME NEW x \in Local PROVE x \in Account
    BY LocalAssumption
  <2> QED BY <1>3, <2>1, Kinds DEF IndInv, RealOnes
<1>10. UniqueKey'
  <2>1. ASSUME NEW l \in Link, HasLink(l)' PROVE HasLink(l) /\ links'[l] = links[l]
    BY <1>3, <1>5, <2>1
  <2> QED BY <2>1 DEF IndInv, UniqueKey
<1>11. LinksHaveTheirAccount'
  <2>1. ASSUME NEW l \in Link, HasLink(l)' PROVE \E x \in Account : x = links'[l].guest /\ HasAccount(x)'
    <3>1. HasLink(l) /\ links'[l] = links[l] /\ l \notin LinksTo(a)
      BY <1>3, <1>5, <2>1
    <3>2. PICK x \in Account : x = links[l].guest /\ HasAccount(x)
      BY <3>1, Rows DEF IndInv, LinksHaveTheirAccount
    <3>3. x # a
      BY <3>1, <3>2 DEF LinksTo
    <3> QED BY <1>5, <3>1, <3>2, <3>3
  <2> QED BY <2>1 DEF LinksHaveTheirAccount, HasAccount
<1> QED BY <1>4, <1>6, <1>7, <1>8, <1>9, <1>10, <1>11 DEF IndInv

-----------------------------------------------------------------------------
(* The invariant *)

LEMMA InitIsGood == Init => IndInv
<1> SUFFICES ASSUME Init PROVE IndInv
  OBVIOUS
<1>1. \A a \in Local : [laboratory |-> HomeOf[a], shadowOf |-> Nobody] \in Person
  BY LocalAssumption DEF Person
<1>2. TypeOK
  BY <1>1 DEF Init, TypeOK
<1>3. \A w \in Worker : txn[w] = Nobody
  BY DEF Init
<1>4. VisitsDraw /\ MergesHold
  BY <1>3 DEF VisitsDraw, MergesHold, Running
<1>5. LockedAreThere
  BY DEF Init, LockedAreThere
<1>6. RealOnes
  BY <1>1, LocalAssumption, Kinds DEF Init, RealOnes
<1>7. \A l \in Link : ~HasLink(l)
  BY DEF Init, HasLink
<1>8. UniqueKey /\ LinksHaveTheirAccount
  BY <1>7 DEF UniqueKey, LinksHaveTheirAccount
<1> QED BY <1>2, <1>4, <1>5, <1>6, <1>8 DEF IndInv

LEMMA StutterKeeps ==
    ASSUME IndInv, UNCHANGED vars
    PROVE  IndInv'
<1>1. UNCHANGED <<users, links, txn, linkLock, shared, erasing, answers>>
  BY DEF vars, tables, locks
<1> QED BY <1>1 DEF IndInv, TypeOK, VisitsDraw, MergesHold, LockedAreThere, RealOnes, UniqueKey,
       LinksHaveTheirAccount, Running, HasLink, HasAccount, Erasable

LEMMA NextKeeps ==
    ASSUME IndInv, [Next]_vars
    PROVE  IndInv'
<1>1. ASSUME NEW w \in Worker, AbortDeadlocked(w) PROVE IndInv'
  BY <1>1, RefuseKeeps DEF AbortDeadlocked, Refuse
<1>2. ASSUME NEW w \in Worker, Continue(w) PROVE IndInv'
  BY <1>1, <1>2, TouchKeeps, MakeShadowKeeps, InsertLinkKeeps, LockLinkKeeps, PointAtTargetKeeps,
     CheckOldAccountKeeps, EraseOldAccountKeeps, LockCascadeKeeps, CommitMergeKeeps DEF Continue
<1> QED BY <1>2, BeginKeeps, DeleteUserKeeps, StutterKeeps DEF Next

(* Every reachable state: what visits and merges rely on between their        *)
(* statements, and the two keys of the table of links.                        *)
THEOREM Inductive == Spec => []IndInv
  BY InitIsGood, NextKeeps, PTL DEF Spec

(* Every row, lock and transaction stays in its set. *)
THEOREM TypeCorrect == Spec => []TypeOK
<1>1. IndInv => TypeOK
  BY DEF IndInv
<1> QED BY <1>1, Inductive, PTL

(* A visitor has one identity in a laboratory, however many requests, merges  *)
(* and deletes race.                                                          *)
THEOREM OneIdentity == Spec => []OneLinkPerVisitor
<1>1. ASSUME IndInv PROVE OneLinkPerVisitor
  <2>1. ASSUME NEW lab \in Laboratory, NEW v \in Visitor PROVE Cardinality(LinksOf(lab, v)) <= 1
    <3>1. CASE LinksOf(lab, v) = {}
      BY <3>1, FS_EmptySet
    <3>2. CASE LinksOf(lab, v) # {}
      <4>1. PICK l \in LinksOf(lab, v) : TRUE
        BY <3>2
      <4>2. LinksOf(lab, v) = {l}
        BY <1>1, <4>1 DEF LinksOf, IndInv, UniqueKey
      <4> QED BY <4>2, FS_Singleton
    <3> QED BY <3>1, <3>2
  <2> QED BY <2>1 DEF OneLinkPerVisitor
<1> QED BY <1>1, Inductive, PTL

(* What a link stands for is there: no merge and no delete_user removes an    *)
(* account that a link is pointed at meanwhile.                               *)
THEOREM LinksStandForSomebody == Spec => []LinksHaveTheirAccount
<1>1. IndInv => LinksHaveTheirAccount
  BY DEF IndInv
<1> QED BY <1>1, Inductive, PTL

(* delete_shadow_guest keeps its promise: accounts registered here only go    *)
(* with delete_user.                                                          *)
THEOREM RealAccountsAreSpared == Spec => MergesSpareRealAccounts
<1>1. ASSUME IndInv, [Next]_vars, NEW a \in Local, HasAccount(a), users'[a] = Gone PROVE txn' = txn
  <2>1. a \in Account /\ users[a] # Gone /\ users[a].shadowOf = Nobody /\ TypeOK
    BY <1>1, LocalAssumption DEF HasAccount, IndInv, RealOnes
  <2>2. ASSUME UNCHANGED users PROVE FALSE
    BY <1>1, <2>1, <2>2
  <2>3. ASSUME NEW w \in Worker, Begin(w) PROVE UNCHANGED users
    BY <2>3 DEF Begin, BeginVisit, BeginMerge, Start, tables
  <2>4. ASSUME NEW w \in Worker, InsertLink(w) PROVE FALSE
    <3>1. \/ users' = users
          \/ users' = [users EXCEPT ![txn[w].account] = [laboratory |-> txn[w].laboratory, shadowOf |-> txn[w].visitor]]
      BY <2>4 DEF InsertLink, tables
    <3>2. Running(w, "visit")
      BY <2>4 DEF InsertLink, At
    <3>3. [laboratory |-> txn[w].laboratory, shadowOf |-> txn[w].visitor] \in Person
      BY <1>1, <3>2, VisitFields DEF Person
    <3>4. users'[a] = users[a] \/ users'[a] \in Person
      BY <2>1, <3>1, <3>3 DEF TypeOK
    <3> QED BY <1>1, <2>1, <3>4, Kinds
  <2>5. ASSUME NEW w \in Worker, CommitMerge(w) PROVE FALSE
    <3>1. PICK k \in Link, x \in Account, target \in Account, gone \in SUBSET Link : MergeWrites(w, k, x, target, gone)
      BY <1>1, <2>5, MergeWritesThis
    <3>2. users' = users \/ (users' = [users EXCEPT ![x] = Gone] /\ erasing[x] = w)
      BY <3>1 DEF MergeWrites
    <3>3. erasing[x] = w => HasAccount(x) /\ users[x].shadowOf # Nobody
      BY <1>1, Kinds DEF IndInv, LockedAreThere, Erasable
    <3> QED BY <1>1, <2>1, <3>2, <3>3 DEF TypeOK
  <2>6. ASSUME NEW w \in Worker, Continue(w), ~InsertLink(w), ~CommitMerge(w) PROVE UNCHANGED users
    BY <2>6 DEF Continue, Touch, MakeShadow, LockLink, PointAtTarget, CheckOldAccount, EraseOldAccount,
       LockCascade, AbortDeadlocked, Refuse, GoTo, tables
  <2>7. ASSUME NEW x \in Account, DeleteUser(x) PROVE txn' = txn
    BY <2>7 DEF DeleteUser
  <2>8. UNCHANGED vars => txn' = txn
    BY DEF vars
  <2> QED BY <1>1, <2>2, <2>3, <2>4, <2>5, <2>6, <2>7, <2>8 DEF Next
<1>2. IndInv /\ [Next]_vars => [\A a \in Local : (HasAccount(a) /\ users'[a] = Gone) => txn' = txn]_vars
  BY <1>1
<1> QED BY <1>2, Inductive, PTL DEF Spec, MergesSpareRealAccounts
=============================================================================
