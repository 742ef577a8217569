--------------------------- MODULE TrustAgreement ---------------------------
(***************************************************************************)
(* What federation promises two laboratories, whatever happens to the      *)
(* messages between their nodes.  A trust has two halves, one kept by each *)
(* laboratory; <<l, r>> is the half that l keeps about r.  A half comes    *)
(* into being in one of two ways: l is offered a one-time code and gives   *)
(* it up to r (Accept), or l presented a code to r and r accepted it       *)
(* before (Confirm).  Requests run from l to r only between laboratories   *)
(* that both have or had their half.                                       *)
(***************************************************************************)
CONSTANTS Laboratory, Code

VARIABLES issued,  \* the codes that were ever handed out: no code is issued twice
          offered, \* the codes that can still be presented, with their laboratory
          half,    \* "never", "active" or "revoked" for every ordered pair
          served   \* the ordered pairs <<l, r>> with a request of l run at r

vars == <<issued, offered, half, served>>

Pair == {p \in Laboratory \X Laboratory : p[1] # p[2]}
Mirror(p) == <<p[2], p[1]>>

TypeOK == /\ issued \subseteq Code
          /\ offered \subseteq issued \X Laboratory
          /\ half \in [Pair -> {"never", "active", "revoked"}]
          /\ served \subseteq Pair

Symmetric(h) == \A p \in Pair : h[p] = h[Mirror(p)]

Init == /\ issued = {}
        /\ offered = {}
        /\ half \in [Pair -> {"never", "active"}]
        /\ Symmetric(half)
        /\ served = {}

Offer == /\ \E c \in Code \ issued, l \in Laboratory :
               /\ issued' = issued \union {c}
               /\ offered' = offered \union {<<c, l>>}
         /\ UNCHANGED <<half, served>>

Withdraw == /\ \E o \in offered : offered' = offered \ {o}
            /\ UNCHANGED <<issued, half, served>>

(* The half of the laboratory that issued the code; the code is spent with it. *)
Accept == /\ \E o \in offered : \E r \in Laboratory \ {o[2]} :
                /\ offered' = offered \ {o}
                /\ half' = [half EXCEPT ![<<o[2], r>>] = "active"]
          /\ UNCHANGED <<issued, served>>

(* The other half, which comes into being second. *)
Confirm == /\ \E p \in Pair : /\ half[Mirror(p)] # "never"
                              /\ half' = [half EXCEPT ![p] = "active"]
           /\ UNCHANGED <<issued, offered, served>>

Revoke == /\ \E p \in Pair : /\ half[p] # "never"
                             /\ half' = [half EXCEPT ![p] = "revoked"]
          /\ UNCHANGED <<issued, offered, served>>

Serve == /\ \E p \in Pair : /\ half[p] # "never"
                            /\ half[Mirror(p)] # "never"
                            /\ served' = served \union {p}
         /\ UNCHANGED <<issued, offered, half>>

Next == Offer \/ Withdraw \/ Accept \/ Confirm \/ Revoke \/ Serve

Spec == Init /\ [][Next]_vars
=============================================================================
