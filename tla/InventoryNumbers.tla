-------------------------- MODULE InventoryNumbers --------------------------
(***************************************************************************)
(* Generated serial numbers, when rows are also renumbered by hand.  A      *)
(* request that generates numbers draws them under the lock of the asset,   *)
(* which every request that creates rows of it takes too; a PATCH of a      *)
(* serial number locks its rows and locations and not their asset.          *)
(*                                                                         *)
(* taken is a history variable: no step of the transactions depends on it.  *)
(***************************************************************************)
EXTENDS InventoryTransactions

VARIABLE taken  \* per client that has drawn numbers, those that PATCHes have given
                \* to rows of its asset since

numberVars == <<txnVars, taken>>

\* The numbers of client c are drawn and some of their rows not inserted yet.
HasDrawn(c) == txn[c].step = "insert" /\ txn[c].request.op = "generateSerialized"

\* The numbers that this step gives to rows of the asset of client c.
NewNumbers(c) ==
    {items'[i].serial : i \in
        {k \in ItemId : /\ IsRow(items'[k]) /\ items'[k].asset = txn[c].request.asset
                        /\ items'[k].serial \in Nat /\ items'[k].serial # items[k].serial}}

PatchCommits == \E d \in Client : CommitWork(d) /\ txn[d].request.op = "patch"

Record ==
    taken' = [c \in Client |->
        IF ~HasDrawn(c)' THEN {}
        ELSE taken[c] \cup (IF PatchCommits THEN NewNumbers(c) ELSE {})]

NumbersInit == TxnInit /\ taken = [c \in Client |-> {}]
NumbersNext == TxnNext /\ Record
NumbersSpec == NumbersInit /\ [][NumbersNext]_numberVars
FairNumbersSpec == NumbersSpec /\ \A c \in Client : WF_txnVars(Statements(c))

-----------------------------------------------------------------------------
\* A generated number can only be lost to a PATCH: when the insert of its row is
\* refused because the number is there, a PATCH gave it to a row of the asset
\* after it was drawn.  Requests that create or generate rows never collide, and
\* neither do the rows of one request.
OnlyPatchesTakeDrawnNumbers ==
    [][\A c \in Client :
         HasDrawn(c) /\ reply'[c] = <<"generateSerialized", "conflict">> /\ ~Busy(c)'
           => Head(txn[c].rest).serial \in taken[c]]_numberVars
=============================================================================
