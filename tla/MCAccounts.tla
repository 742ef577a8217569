----------------------------- MODULE MCAccounts -----------------------------
(* Two requests at a time, two laboratories, and the accounts to begin with. *)
EXTENDS Accounts, TLC

CONSTANTS root, ann, bob, l1, l2, s1, s2, seeded, initial, other

Account1(type, l) == [type |-> type, lab |-> l, password |-> other, email |-> Null]
Accounts1(A, B) == (root :> [Account1("root", NoLaboratory) EXCEPT !.password = seeded])
                   @@ (ann :> A) @@ (bob :> B) @@ [u \in User |-> Null]
SignIn(u, v) == (s1 :> u) @@ (s2 :> v)
Opening(ops, A, B, S) == [menu |-> ops, users |-> Accounts1(A, B), sessions |-> S, server |-> "up"]

Super == Account1("super_admin", NoLaboratory)
Chief(l) == Account1("lab_admin", l)
Member(l) == Account1("user", l)

MCAssigned == {[type |-> "super_admin", lab |-> NoLaboratory],
               [type |-> "lab_admin", lab |-> l2]}

Settings == {"initial_root_password", "require_root_password_rotation"}

(* Roles that change while they are used; registrations, alone and beside the *)
(* requests that undo the invitation; laboratories; sessions; restarts under  *)
(* each configuration.                                                        *)
MCStart ==
    {Opening({"create_user", "update_user", "delete_user"}, Super, Chief(l1), SignIn(ann, bob)),
     Opening({"create_code", "register"}, Chief(l1), Member(l2), SignIn(ann, bob)),
     Opening({"create_code", "register", "update_user"}, Super, Member(l1), SignIn(ann, bob)),
     Opening({"create_code", "register", "delete_user"}, Chief(l1), Member(l1), SignIn(ann, bob)),
     Opening({"create_laboratory", "delete_laboratory", "create_user", "delete_user"}, Super, Member(l1), SignIn(ann, Null)),
     Opening({"login", "change_password", "delete_user"}, Super, Null, SignIn(ann, Null))}
    \union {[Opening({"restart", "change_password"} \union settings, Null, Null, SignIn(root, Null))
               EXCEPT !.server = "down"] : settings \in SUBSET Settings}
=============================================================================
