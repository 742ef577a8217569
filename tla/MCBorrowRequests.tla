-------------------------- MODULE MCBorrowRequests --------------------------
(***************************************************************************)
(* BorrowRequests with one guest who came through federation and one who    *)
(* registered here.                                                         *)
(***************************************************************************)
EXTENDS BorrowRequests, TLC

CONSTANTS remote, local, itsLink, i1, i2

RemoteLink == remote :> itsLink
TwinItems == {{i1, i2}}

\* The remote guest asks for one of the items, again and again; the local one
\* only tries to cancel.
RemoteWantsOne == {<<i1, remote>>}
=============================================================================
