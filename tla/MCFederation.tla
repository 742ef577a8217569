---------------------------- MODULE MCFederation ----------------------------
(* Two nodes, one with two laboratories.                                     *)
EXTENDS Federation, TLC

CONSTANTS a, b, la, lb1, lb2

MCHome == la :> a @@ lb1 :> b @@ lb2 :> b
MCPartners == {<<la, lb1>>, <<la, lb2>>, <<lb1, la>>}

(* Two pairings of strangers or of nodes that know each other; and a request *)
(* between nodes that know each other, with a pairing beside it.             *)
MCStarts ==
    {[codes |-> 2, pairings |-> 2, revokes |-> 1, requests |-> 0, trusted |-> {}],
     [codes |-> 2, pairings |-> 2, revokes |-> 1, requests |-> 0, trusted |-> {<<la, lb1>>}],
     [codes |-> 1, pairings |-> 1, revokes |-> 1, requests |-> 1, trusted |-> {<<la, lb1>>}]}

Symmetry == Permutations(Code) \union Permutations(Pairing)
=============================================================================
