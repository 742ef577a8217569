------------------------------ MODULE MCFiles ------------------------------
(* Two connections, two uploads, an asset with two items.                    *)
EXTENDS Files

CONSTANTS u1, u2

(* One upload by itself, and both in either order.                           *)
MCCreated == {<<u1>>, <<u1, u2>>, <<u2, u1>>}
=============================================================================
