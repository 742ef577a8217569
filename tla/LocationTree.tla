---------------------------- MODULE LocationTree ----------------------------
(***************************************************************************)
(* The tree of locations of one laboratory, which stores with every row its *)
(* parent and its path, the codes from the root down.  Requests create a    *)
(* location, move or rename it with what is below, and delete it with what  *)
(* is below; "below" is read off the stored paths.  The tree of asset       *)
(* categories is kept by the same code under other names.                   *)
(*                                                                         *)
(* Each statement is a step; a statement that changes several rows takes    *)
(* them one by one, the rows its snapshot held and as they are by then.     *)
(* Writes become visible at the commit.  Sibling names, which are unique as *)
(* sibling codes are, and the items that stand at a location are left out.  *)
(***************************************************************************)
EXTENDS Naturals, FiniteSets, SequencesExt

CONSTANTS
    Worker,             \* connections that run transactions
    Id,                 \* uuids of locations; a uuid is used for one row only
    Code,
    MaxDepth,           \* bound: codes of one path
    Root,               \* SQL NULL as a parent
    Nobody, Unused, Gone

ASSUME DepthAssumption == MaxDepth \in Nat \ {0}

Path == SeqOf(Code, MaxDepth) \ {<<>>}
Node == [parent : Id \cup {Root}, path : Path]

Txn == [op : {"create", "move", "delete"},
        step : {"self", "parent", "write", "drag", "scan", "lock", "erase", "commit"},
        id : Id, parent : Id \cup {Root}, code : Code \cup {Nobody},
        from : Path \cup {<<>>}, to : Path \cup {<<>>},
        rest : SUBSET Id,                               \* rows the statement has yet to take
        writes : [Id -> Node \cup {Gone, Nobody}]]     \* not committed yet, or none

\* What stands for no parent, no transaction and no row is none.
ASSUME NullsAssumption ==
    /\ Root \notin Id /\ Nobody \notin Worker /\ Nobody \notin Txn
    /\ Nobody \notin Node /\ Unused \notin Node /\ Gone \notin Node
    /\ Unused # Gone /\ Nobody # Gone

VARIABLES
    nodes,      \* the committed table, by uuid
    txn,        \* per worker, its transaction, or Nobody
    holder,     \* per row, the worker with its lock
    raced       \* history: has a move overlapped another request?

vars == <<nodes, txn, holder, raced>>

-----------------------------------------------------------------------------
IsNode(n) == n \notin {Unused, Gone}
Nodes == {i \in Id : IsNode(nodes[i])}

\* path <@ root, and path_is_self_or_descendant.
Under(path, root) == IsPrefix(root, path)
Below(root) == {i \in Nodes : Under(nodes[i].path, root)}

BuildPath(parentPath, code) == Append(parentPath, code)

\* new_path || subpath(path, nlevel(old_path))
Rebased(path, from, to) == to \o SubSeq(path, Len(from) + 1, Len(path))

\* The unique indexes on the path and on the siblings' codes.
SameKey(n, m) == n.path = m.path \/ (n.parent = m.parent /\ Last(n.path) = Last(m.path))

Running(w) == txn[w] # Nobody
At(w, step) == Running(w) /\ txn[w].step = step
Written(t) == {i \in Id : t.writes[i] # Nobody}
Seen(w, i) == IF i \in Written(txn[w]) THEN txn[w].writes[i] ELSE nodes[i]
Free(w, i) == holder[i] \in {w, Nobody}

KeyTaken(w, i, n) == \E k \in Id \ {i} : IsNode(Seen(w, k)) /\ SameKey(n, Seen(w, k))

\* Uncommitted writes of others that put or remove a row with the key.
Rivals(w, i, n) ==
    {x \in Worker \ {w} : Running(x) /\ \E k \in Written(txn[x]) \ {i} :
                             \E m \in {nodes[k], txn[x].writes[k]} : IsNode(m) /\ SameKey(n, m)}

-----------------------------------------------------------------------------
Init ==
    /\ nodes = [i \in Id |-> Unused]
    /\ txn = [w \in Worker |-> Nobody]
    /\ holder = [i \in Id |-> Nobody]
    /\ raced = FALSE

Begin(w, op, i, parent, code) ==
    /\ ~Running(w)
    /\ txn' = [txn EXCEPT ![w] =
                 [op |-> op, step |-> IF op = "create" THEN "parent" ELSE "self",
                  id |-> i, parent |-> parent, code |-> code,
                  from |-> <<>>, to |-> <<>>, rest |-> {}, writes |-> [k \in Id |-> Nobody]]]
    /\ raced' = (raced \/ \E x \in Worker : Running(x) /\ "move" \in {op, txn[x].op})
    /\ UNCHANGED <<nodes, holder>>

\* The uuid of a new location is drawn when it is inserted; no other has it.
BeginCreate(w) ==
    \E i \in Id, parent \in Nodes \cup {Root}, code \in Code :
        /\ nodes[i] = Unused /\ \A x \in Worker : Running(x) => txn[x].id # i
        /\ Begin(w, "create", i, parent, code)

\* A field an update leaves out has its old value, and the old parent is
\* resolved like a new one.
BeginMove(w) ==
    \E i \in Nodes, parent \in Nodes \cup {Root}, code \in Code : Begin(w, "move", i, parent, code)

BeginDelete(w) == \E i \in Nodes : Begin(w, "delete", i, Root, Nobody)

-----------------------------------------------------------------------------
\* The transaction ends and its locks go; unless it commits it is refused.
End(w) ==
    /\ txn' = [txn EXCEPT ![w] = Nobody]
    /\ holder' = [i \in Id |-> IF holder[i] = w THEN Nobody ELSE holder[i]]
    /\ UNCHANGED raced
Refuse(w) == End(w) /\ UNCHANGED nodes
CommitWrites(w) == End(w) /\ nodes' = [i \in Id |-> Seen(w, i)]

\* The transaction goes on as t, with the lock of row i or with no new lock.
GoOn(w, t) == txn' = [txn EXCEPT ![w] = t] /\ UNCHANGED <<nodes, raced>>
Locking(w, i) == holder' = [holder EXCEPT ![i] = w]

\* fetch_location_for_update of the location a request is about.
LockSelf(w) ==
    LET t == txn[w]
    IN  /\ At(w, "self")
        /\ holder[t.id] = Nobody
        /\ \/ t.id \notin Nodes /\ Refuse(w)
           \/ /\ t.id \in Nodes
              /\ Locking(w, t.id)
              /\ GoOn(w, [t EXCEPT !.from = nodes[t.id].path,
                                   !.step = IF t.op = "move" THEN "parent" ELSE "scan"])

\* resolve_moved_parent: not under itself and not under what is below it.
Movable(t) == t.parent # t.id /\ ~Under(nodes[t.parent].path, t.from)

\* resolve_new_parent, resolve_moved_parent and build_path_and_depth.
ResolveParent(w) ==
    LET t == txn[w]
        built(parentPath) ==
            LET path == BuildPath(parentPath, t.code)
            IN  Len(path) <= MaxDepth                                \* bound
                /\ GoOn(w, [t EXCEPT !.to = path, !.step = "write"])
    IN  /\ At(w, "parent")
        /\ \/ t.parent = Root /\ built(<<>>) /\ UNCHANGED holder
           \/ t.parent = t.id /\ Refuse(w)
           \/ /\ t.parent \notin {Root, t.id}
              /\ holder[t.parent] = Nobody
              /\ IF t.parent \in Nodes /\ (t.op = "move" => Movable(t))
                 THEN built(nodes[t.parent].path) /\ Locking(w, t.parent)
                 ELSE Refuse(w)

\* Mutant: only a change of depth drags the descendants along.
MovedDeeper(t) == Len(t.to) # Len(t.from)

Moved(t) == t.to # t.from

\* insert_location, and update_location_in_database with the scan of the
\* statement that follows it when the path changed.
WriteNode(w) ==
    LET t == txn[w]
        n == [parent |-> t.parent, path |-> t.to]
        drags == t.op = "move" /\ Moved(t)
    IN  /\ At(w, "write")
        /\ Rivals(w, t.id, n) = {}
        /\ \/ KeyTaken(w, t.id, n) /\ Refuse(w)
           \/ /\ ~KeyTaken(w, t.id, n)
              /\ GoOn(w, [t EXCEPT !.writes[t.id] = n,
                                   !.rest = IF drags THEN Below(t.from) \ {t.id} ELSE {},
                                   !.step = IF drags THEN "drag" ELSE "commit"])
              /\ UNCHANGED holder

\* update_descendant_paths, one row: it waits for the row, and then takes it as
\* it is now or, when it is no longer below the old path, leaves it.
Drag(w) ==
    LET t == txn[w]
    IN  /\ At(w, "drag")
        /\ \E d \in t.rest :
             /\ Free(w, d)
             /\ \/ /\ d \notin Below(t.from)
                   /\ GoOn(w, [t EXCEPT !.rest = @ \ {d}]) /\ UNCHANGED holder
                \/ /\ d \in Below(t.from)
                   /\ LET n == [nodes[d] EXCEPT !.path = Rebased(@, t.from, t.to)]
                      IN  /\ Len(n.path) <= MaxDepth                 \* bound
                          /\ Rivals(w, d, n) = {}
                          /\ \/ KeyTaken(w, d, n) /\ Refuse(w)
                             \/ /\ ~KeyTaken(w, d, n)
                                /\ Locking(w, d)
                                /\ GoOn(w, [t EXCEPT !.rest = @ \ {d}, !.writes[d] = n])

Commit(w) ==
    /\ At(w, "commit") \/ (At(w, "drag") /\ txn[w].rest = {})
    /\ CommitWrites(w)

-----------------------------------------------------------------------------
\* fetch_location_tree_for_update: the rows are locked in the order of their
\* paths; here, in any.
ScanTree(w) ==
    /\ At(w, "scan")
    /\ GoOn(w, [txn[w] EXCEPT !.rest = Below(txn[w].from), !.step = "lock"])
    /\ UNCHANGED holder

LockTree(w) ==
    LET t == txn[w]
    IN  /\ At(w, "lock")
        /\ \E d \in t.rest :
             /\ Free(w, d)
             /\ GoOn(w, [t EXCEPT !.rest = @ \ {d}])
             /\ IF d \in Below(t.from) THEN Locking(w, d) ELSE UNCHANGED holder

\* delete_location_tree has a snapshot of its own ..
ScanDelete(w) ==
    /\ At(w, "lock") /\ txn[w].rest = {}
    /\ GoOn(w, [txn[w] EXCEPT !.rest = Below(txn[w].from), !.step = "erase"])
    /\ UNCHANGED holder

EraseNode(w) ==
    LET t == txn[w]
    IN  /\ At(w, "erase")
        /\ \E d \in t.rest :
             /\ Free(w, d)
             /\ \/ /\ d \notin Below(t.from)
                   /\ GoOn(w, [t EXCEPT !.rest = @ \ {d}]) /\ UNCHANGED holder
                \/ /\ d \in Below(t.from)
                   /\ Locking(w, d)
                   /\ GoOn(w, [t EXCEPT !.rest = @ \ {d}, !.writes[d] = Gone])

\* The rows that keep a parent which transaction t removes.
Orphans(t) == {k \in Nodes \ Written(t) : nodes[k].parent \in Written(t)}

\* Mutant: the column is no foreign key.
DeleteUnchecked(w) ==
    At(w, "erase") /\ txn[w].rest = {} /\ CommitWrites(w)

\* .. and at its end the foreign key of the parent looks for children left.
FinishDelete(w) ==
    LET left == Orphans(txn[w])
    IN  /\ At(w, "erase") /\ txn[w].rest = {}
        /\ \A k \in left : Free(w, k)
        /\ IF left = {} THEN CommitWrites(w) ELSE Refuse(w)

-----------------------------------------------------------------------------
\* Whom worker w may be waiting for.
WaitsFor(w) ==
    LET t == txn[w]
        holders(S) == {holder[i] : i \in S}
    IN  (CASE At(w, "self") -> holders({t.id})
           [] At(w, "parent") -> holders({t.parent} \cap Id)
           [] At(w, "write") -> Rivals(w, t.id, [parent |-> t.parent, path |-> t.to])
           [] At(w, "drag") ->
                holders(t.rest)
                \cup UNION {Rivals(w, d, [nodes[d] EXCEPT !.path = Rebased(@, t.from, t.to)]) :
                              d \in t.rest \cap Below(t.from)}
           [] At(w, "lock") -> holders(t.rest)
           [] At(w, "erase") -> holders(IF t.rest = {} THEN Orphans(t) ELSE t.rest)
           [] OTHER -> {}) \ {w, Nobody}

\* The database aborts a transaction of a circle of waiting ones.
AbortDeadlocked(w) ==
    /\ \E W \in SUBSET Worker :
         w \in W /\ \A x \in W : WaitsFor(x) \cap W # {} /\ \E y \in W : x \in WaitsFor(y)
    /\ Refuse(w)

Continue(w) ==
    \/ LockSelf(w) \/ ResolveParent(w) \/ WriteNode(w) \/ Drag(w) \/ Commit(w)
    \/ ScanTree(w) \/ LockTree(w) \/ ScanDelete(w) \/ EraseNode(w) \/ FinishDelete(w)
    \/ AbortDeadlocked(w)

Next ==
    \E w \in Worker : BeginCreate(w) \/ BeginMove(w) \/ BeginDelete(w) \/ Continue(w)

Spec == Init /\ [][Next]_vars

-----------------------------------------------------------------------------
TypeOK ==
    /\ nodes \in [Id -> Node \cup {Unused, Gone}]
    /\ \A w \in Worker : Running(w) => txn[w] \in Txn
    /\ holder \in [Id -> Worker \cup {Nobody}]
    /\ raced \in BOOLEAN

\* No location is left below one that is gone, whatever was created, moved or
\* deleted at the same time: a delete goes by stored paths, which may be stale,
\* and is refused when that leaves a child behind.
ParentsExist == \A i \in Nodes : nodes[i].parent \in Nodes \cup {Root}

\* "drags every descendant along so the stored paths stay consistent": a path is
\* the path of the parent and the own code.
PathsFollowParents ==
    \A i \in Nodes :
        Front(nodes[i].path) = IF nodes[i].parent \in Nodes THEN nodes[nodes[i].parent].path ELSE <<>>

\* "rejecting the moves that would detach the subtree from the tree by making it
\* its own ancestor": no set of locations hangs below itself only.
NothingIsDetached ==
    \A S \in SUBSET Nodes : S # {} => \E i \in S : nodes[i].parent \notin S

\* As long as no move overlapped another request, however many creates and
\* deletes did, paths follow parents ..
UnracedMovesKeepPaths == ~raced => PathsFollowParents
=============================================================================
