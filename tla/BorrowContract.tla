--------------------------- MODULE BorrowContract ---------------------------
(***************************************************************************)
(* What borrowing promises the people at the shelf, whatever transactions   *)
(* overlap.  Only an item on the shelf is asked for, by one request at a    *)
(* time; a request is decided once, and the one that is approved takes its  *)
(* item off the shelf in the same moment; an item that is removed takes its *)
(* requests with it.  Who asks, who decides and every lock are left out.    *)
(***************************************************************************)
CONSTANTS Item, Request, Nobody

VARIABLES
    shelf,      \* per item, whether it can be asked for
    phase,      \* per request, how far it is
    about       \* per request, its item, or Nobody

vars == <<shelf, phase, about>>

PendingAbout(i) == {b \in Request : phase[b] = "pending" /\ about[b] = i}

Init ==
    /\ shelf \in [Item -> {"available", "away"}]
    /\ phase = [b \in Request |-> "unfiled"]
    /\ about = [b \in Request |-> Nobody]

File(b, i) ==
    /\ phase[b] = "unfiled"
    /\ shelf[i] = "available"
    /\ PendingAbout(i) = {}
    /\ phase' = [phase EXCEPT ![b] = "pending"]
    /\ about' = [about EXCEPT ![b] = i]
    /\ UNCHANGED shelf

Approve(b) ==
    /\ phase[b] = "pending"
    /\ shelf[about[b]] = "available"
    /\ phase' = [phase EXCEPT ![b] = "approved"]
    /\ shelf' = [shelf EXCEPT ![about[b]] = "away"]
    /\ UNCHANGED about

\* A rejection by staff, or a cancellation.
TurnDown(b) ==
    /\ phase[b] = "pending"
    /\ \E p \in {"rejected", "cancelled"} : phase' = [phase EXCEPT ![b] = p]
    /\ UNCHANGED <<shelf, about>>

\* Staff hand an item out or take it back, with no regard to requests.
Move(i) ==
    /\ shelf[i] # "gone"
    /\ \E s \in {"available", "away"} : shelf' = [shelf EXCEPT ![i] = s]
    /\ UNCHANGED <<phase, about>>

Remove(i) ==
    /\ shelf[i] # "gone"
    /\ shelf' = [shelf EXCEPT ![i] = "gone"]
    /\ phase' = [b \in Request |-> IF about[b] = i THEN "gone" ELSE phase[b]]
    /\ about' = [b \in Request |-> IF about[b] = i THEN Nobody ELSE about[b]]

Next ==
    \/ \E b \in Request, i \in Item : File(b, i)
    \/ \E b \in Request : Approve(b) \/ TurnDown(b)
    \/ \E i \in Item : Move(i) \/ Remove(i)

Spec == Init /\ [][Next]_vars
=============================================================================
