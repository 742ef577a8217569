---------------------------- MODULE MCGuestLinks ----------------------------
(***************************************************************************)
(* GuestLinks with one account that was registered here, in the laboratory  *)
(* that both visitors visit.                                                *)
(***************************************************************************)
EXTENDS GuestLinks, TLC

CONSTANTS registered, ours

RegisteredHome == registered :> ours
Symmetry == Permutations(Worker) \cup Permutations(Visitor)
                \cup Permutations(Account \ Local) \cup Permutations(Link)
=============================================================================
