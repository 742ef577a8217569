------------------------- MODULE LocationTreeProofs -------------------------
(***************************************************************************)
(* Theorems about LocationTree, for any number of connections, locations,  *)
(* codes and any depth.                                                    *)
(*                                                                         *)
(* A request reads its own row and the row of its parent, and then writes  *)
(* rows one by one that become visible together.  The invariant says what  *)
(* it may still rely on (Fit): the rows it locked are as it read them, the *)
(* rows it wrote are locked or new, and no other row, committed or about   *)
(* to be, has one of the paths it wrote.  A delete does not lock children  *)
(* that come later; its last check finds them (Orphans).                   *)
(***************************************************************************)
EXTENDS LocationTree, SequenceTheorems, TLAPS

Typed == TypeOK /\ txn \in [Worker -> Txn \cup {Nobody}]

Shaped(t) ==
    /\ t.op = "delete" => t.step \in {"self", "scan", "lock", "erase"}
    /\ t.op = "create" => t.step \in {"parent", "write", "commit"}
    /\ t.op = "move" => t.step \in {"self", "parent", "write", "drag", "commit"}
    /\ t.op # "delete" => t.code \in Code
    /\ t.step \notin {"drag", "commit", "erase"} => Written(t) = {}
    /\ t.step = "drag" => t.id \notin t.rest /\ t.id \in Written(t)
    /\ t.step = "commit" => Written(t) = {t.id} /\ (t.op = "move" => t.to = t.from)

(* The row a request is about. *)
Settled(w, t) ==
    /\ t.op = "create" => nodes[t.id] = Unused
    /\ t.op # "create" /\ t.step # "self" =>
          t.id \in Nodes /\ holder[t.id] = w /\ t.from = nodes[t.id].path

(* The row it is put below. *)
Placed(w, t) ==
    t.step \in {"write", "drag", "commit"} =>
        \/ t.parent = Root /\ t.to = <<t.code>>
        \/ /\ t.parent \in Nodes /\ holder[t.parent] = w /\ t.parent # t.id
           /\ t.to = Append(nodes[t.parent].path, t.code)
           /\ t.op = "move" => ~Under(nodes[t.parent].path, t.from)

Own(t) == [parent |-> t.parent, path |-> t.to]
Dragged(t, i) == [nodes[i] EXCEPT !.path = Rebased(nodes[i].path, t.from, t.to)]

(* The rows it has written. *)
Writing(w, t) ==
    \A i \in Written(t) :
        /\ (t.op = "create" /\ i = t.id) \/ (i \in Nodes /\ holder[i] = w)
        /\ t.op = "delete" <=> t.writes[i] = Gone
        /\ t.op # "delete" /\ i = t.id => t.writes[i] = Own(t)
        /\ t.op # "delete" /\ i # t.id =>
              t.op = "move" /\ i \in Below(t.from) /\ t.writes[i] = Dragged(t, i)

(* No row that stays has a path it wrote. *)
Fresh(t) ==
    \A i \in Written(t), k \in Id :
        i # k /\ IsNode(t.writes[i]) =>
            /\ k \notin Written(t) /\ k \in Nodes => nodes[k].path # t.writes[i].path
            /\ k \in Written(t) /\ IsNode(t.writes[k]) => t.writes[k].path # t.writes[i].path

(* A move that nobody interferes with misses nothing that is below it. *)
Thorough(t) ==
    ~raced /\ t.op = "move" /\ t.step = "drag" => Below(t.from) \subseteq t.rest \cup Written(t)

Fit(w, t) == Shaped(t) /\ Settled(w, t) /\ Placed(w, t) /\ Writing(w, t) /\ Fresh(t) /\ Thorough(t)
RequestsFit == \A w \in Worker, t \in Txn : txn[w] = t => Fit(w, t)

(* Two requests. *)
Separate(t, u) ==
    /\ t.op = "create" /\ u.op = "create" => t.id # u.id
    /\ ~raced => t.op # "move" /\ u.op # "move"
    /\ \A i \in Written(t), k \in Written(u) :
          IsNode(t.writes[i]) /\ IsNode(u.writes[k]) => t.writes[i].path # u.writes[k].path
Apart ==
    \A w, x \in Worker, t, u \in Txn : w # x /\ txn[w] = t /\ txn[x] = u => Separate(t, u)

UniquePaths == \A i, k \in Nodes : i # k => nodes[i].path # nodes[k].path

IndInv ==
    /\ Typed /\ RequestsFit /\ Apart
    /\ UniquePaths /\ ParentsExist /\ UnracedMovesKeepPaths

-----------------------------------------------------------------------------
(* Paths. *)

(* A path is a sequence of codes that is not too long. *)
LEMMA PathsAreSequences ==
    /\ \A p \in Path \cup {<<>>} : p \in Seq(Code) /\ Len(p) \in Nat /\ Len(p) <= MaxDepth
    /\ \A p \in Seq(Code) : Len(p) <= MaxDepth => p \in Path \cup {<<>>}
    /\ \A p \in Path : Len(p) > 0
<1>1. ASSUME NEW p \in Path \cup {<<>>} PROVE p \in Seq(Code) /\ Len(p) \in Nat /\ Len(p) <= MaxDepth
    <2>1. CASE p = <<>>
        BY <2>1, DepthAssumption
    <2>2. CASE p # <<>>
        <3>1. PICK m \in 0..MaxDepth : p \in [1..m -> Code]
            BY <1>1, <2>2 DEF Path, SeqOf
        <3>2. m \in Nat /\ m <= MaxDepth
            BY DepthAssumption
        <3>3. p \in Seq(Code)
            BY <3>1, <3>2
        <3>4. Len(p) = m
            BY <3>1, <3>2, <3>3
        <3> QED BY <3>2, <3>3, <3>4
    <2> QED BY <2>1, <2>2
<1>2. ASSUME NEW p \in Seq(Code), Len(p) <= MaxDepth PROVE p \in Path \cup {<<>>}
    <2>1. Len(p) \in 0..MaxDepth /\ p \in [1..Len(p) -> Code]
        BY <1>2, LenProperties, DepthAssumption
    <2> QED BY <2>1 DEF Path, SeqOf
<1>3. ASSUME NEW p \in Path PROVE Len(p) > 0
    <2>1. p \in Seq(Code) /\ p # <<>>
        BY <1>1 DEF Path
    <2> QED BY <2>1, EmptySeq
<1> QED BY <1>1, <1>2, <1>3

(* A built path is longer by its own code, and begins with the parent's. *)
LEMMA BuiltPaths ==
    ASSUME NEW p \in Path \cup {<<>>}, NEW c \in Code
    PROVE  /\ Append(p, c) \in Seq(Code)
           /\ Append(p, c) # <<>>
           /\ Front(Append(p, c)) = p
<1>1. p \in Seq(Code) /\ Len(p) \in Nat
    BY PathsAreSequences
<1>2. /\ Append(p, c) \in Seq(Code) /\ Append(p, c) # <<>>
      /\ Len(Append(p, c)) = Len(p) + 1
      /\ \A i \in 1..Len(p) : Append(p, c)[i] = p[i]
    BY <1>1, AppendProperties
<1>3. Front(Append(p, c)) = SubSeq(Append(p, c), 1, Len(p))
    BY <1>1, <1>2 DEF Front
<1>4. SubSeq(Append(p, c), 1, Len(p)) = p
    BY <1>1, <1>2
<1> QED BY <1>2, <1>3, <1>4

(* The front of a path is the path without its last code. *)
LEMMA Fronts ==
    ASSUME NEW p \in Seq(Code), p # <<>>
    PROVE  /\ Front(p) \in Seq(Code) /\ Len(p) > 0 /\ Len(Front(p)) = Len(p) - 1
           /\ \A i \in 1..(Len(p) - 1) : Front(p)[i] = p[i]
<1> DEFINE n == Len(p) - 1
<1>1. Len(p) \in Nat /\ Len(p) > 0
    BY EmptySeq
<1>2. n \in Nat /\ 1 \in Int /\ n \in Int /\ n <= Len(p)
    BY <1>1
<1>3. \A i \in 1..n : p[i] \in Code
    BY <1>1
<1>4. Front(p) = SubSeq(p, 1, n)
    BY DEF Front
<1> HIDE DEF n
<1>5. /\ SubSeq(p, 1, n) \in Seq(Code)
      /\ Len(SubSeq(p, 1, n)) = IF 1 <= n THEN n - 1 + 1 ELSE 0
    BY <1>2, <1>3, SubSeqProperties
<1>6. Len(SubSeq(p, 1, n)) = n
    BY <1>2, <1>5
<1>7. \A i \in 1..n : SubSeq(p, 1, n)[i] = p[i]
    BY <1>2
<1> QED BY <1>1, <1>4, <1>5, <1>6, <1>7 DEF n

(* What moves along is put below the new path .. *)
LEMMA RebasedPaths ==
    ASSUME NEW p \in Seq(Code), NEW from \in Seq(Code), NEW to \in Seq(Code)
    PROVE  /\ Rebased(p, from, to) \in Seq(Code)
           /\ to # <<>> => Rebased(p, from, to) # <<>>
           /\ Len(from) <= Len(p) => Len(Rebased(p, from, to)) = Len(to) + (Len(p) - Len(from))
           /\ Len(from) <= Len(p) =>
                \A i \in 1..(Len(to) + (Len(p) - Len(from))) :
                    Rebased(p, from, to)[i] = IF i <= Len(to) THEN to[i]
                                              ELSE p[(i - Len(to)) + Len(from)]
<1> DEFINE tail == SubSeq(p, Len(from) + 1, Len(p))
<1>1. Len(p) \in Nat /\ Len(from) \in Nat /\ Len(to) \in Nat
    OBVIOUS
<1>2. tail \in Seq(Code) /\ Len(tail) = IF Len(from) + 1 <= Len(p) THEN Len(p) - Len(from) ELSE 0
    <2>1. \A i \in (Len(from) + 1)..Len(p) : p[i] \in Code
        BY <1>1
    <2> QED BY <1>1, <2>1, SubSeqProperties
<1>3. Rebased(p, from, to) = to \o tail
    BY DEF Rebased
<1>4. \A i \in 1..Len(tail) : tail[i] = p[i + Len(from)]
    BY <1>1, <1>2
<1> HIDE DEF tail
<1>5. /\ to \o tail \in Seq(Code) /\ Len(to \o tail) = Len(to) + Len(tail)
      /\ \A i \in 1..(Len(to) + Len(tail)) :
            (to \o tail)[i] = IF i <= Len(to) THEN to[i] ELSE tail[i - Len(to)]
    BY <1>2, ConcatProperties
<1>6. to # <<>> => to \o tail # <<>>
    BY <1>2, ConcatEqualIffEmpty
<1>7. ASSUME Len(from) <= Len(p),
             NEW i \in 1..(Len(to) + (Len(p) - Len(from)))
      PROVE  (to \o tail)[i] = IF i <= Len(to) THEN to[i] ELSE p[(i - Len(to)) + Len(from)]
    <2>1. Len(tail) = Len(p) - Len(from)
        BY <1>1, <1>2, <1>7
    <2>2. i \in 1..(Len(to) + Len(tail))
        BY <2>1
    <2>3. CASE i <= Len(to)
        BY <1>5, <2>2, <2>3
    <2>4. CASE ~(i <= Len(to))
        <3>1. i - Len(to) \in 1..Len(tail)
            BY <1>1, <2>1, <2>2, <2>4
        <3> QED BY <1>4, <1>5, <2>2, <2>4, <3>1
    <2> QED BY <2>3, <2>4
<1>8. Len(from) <= Len(p) => Len(to \o tail) = Len(to) + (Len(p) - Len(from))
    BY <1>1, <1>2, <1>5
<1> QED BY <1>3, <1>5, <1>6, <1>7, <1>8

(* .. and its place there is the place it had. *)
LEMMA RebasedParents ==
    ASSUME NEW p \in Seq(Code), NEW from \in Seq(Code), NEW to \in Seq(Code),
           Under(p, from), p # from
    PROVE  Under(Front(p), from) /\ Front(Rebased(p, from, to)) = Rebased(Front(p), from, to)
<1>1. Len(p) \in Nat /\ Len(from) \in Nat /\ Len(to) \in Nat
    OBVIOUS
<1>2. Len(from) <= Len(p) /\ SubSeq(from, 1, Len(from)) = SubSeq(p, 1, Len(from))
    BY DEF Under, IsPrefix
<1>3. Len(from) < Len(p)
    <2>1. SUFFICES ASSUME Len(from) = Len(p) PROVE FALSE
        BY <1>1, <1>2
    <2>2. from = p
        BY <1>2, <2>1, SubSeqFull
    <2> QED BY <2>2
<1>4. /\ Front(p) \in Seq(Code) /\ Len(Front(p)) = Len(p) - 1
      /\ \A i \in 1..(Len(p) - 1) : Front(p)[i] = p[i]
    BY <1>1, <1>3, EmptySeq, Fronts
<1>5. Under(Front(p), from)
    <2>1. SubSeq(Front(p), 1, Len(from)) = SubSeq(p, 1, Len(from))
        <3>1. Len(from) <= Len(p) - 1
            BY <1>1, <1>3
        <3>2. \A i \in 1..Len(from) : Front(p)[i] = p[i]
            BY <1>1, <1>4, <3>1
        <3> QED BY <1>1, <1>4, <3>1, <3>2
    <2> QED BY <1>1, <1>2, <1>3, <1>4, <2>1 DEF Under, IsPrefix
<1> DEFINE r == Rebased(p, from, to)
           q == Rebased(Front(p), from, to)
<1>6. /\ r \in Seq(Code) /\ Len(r) = Len(to) + (Len(p) - Len(from))
      /\ \A i \in 1..(Len(to) + (Len(p) - Len(from))) :
            r[i] = IF i <= Len(to) THEN to[i] ELSE p[(i - Len(to)) + Len(from)]
    BY <1>2, RebasedPaths
<1>7. /\ q \in Seq(Code) /\ Len(q) = Len(to) + ((Len(p) - 1) - Len(from))
      /\ \A i \in 1..(Len(to) + ((Len(p) - 1) - Len(from))) :
            q[i] = IF i <= Len(to) THEN to[i] ELSE Front(p)[(i - Len(to)) + Len(from)]
    <2>1. Len(from) <= Len(Front(p))
        BY <1>1, <1>3, <1>4
    <2>2. /\ q \in Seq(Code) /\ Len(q) = Len(to) + (Len(Front(p)) - Len(from))
          /\ \A i \in 1..(Len(to) + (Len(Front(p)) - Len(from))) :
                q[i] = IF i <= Len(to) THEN to[i] ELSE Front(p)[(i - Len(to)) + Len(from)]
        <3>1. Front(p) \in Seq(Code)
            BY <1>4
        <3> QED BY <2>1, <3>1, RebasedPaths
    <2> QED BY <1>4, <2>2
<1> HIDE DEF r, q
<1>8. Len(q) = Len(r) - 1 /\ Len(r) \in Nat /\ Len(q) \in Nat
    BY <1>1, <1>3, <1>6, <1>7
<1>9. \A i \in 1..Len(q) : q[i] = r[i]
    <2> TAKE i \in 1..Len(q)
    <2>1. i \in 1..(Len(to) + ((Len(p) - 1) - Len(from))) /\ i \in 1..(Len(to) + (Len(p) - Len(from)))
        BY <1>1, <1>7
    <2>2. CASE i <= Len(to)
        BY <1>6, <1>7, <2>1, <2>2
    <2>3. CASE ~(i <= Len(to))
        <3>1. (i - Len(to)) + Len(from) \in 1..(Len(p) - 1)
            BY <1>1, <1>3, <2>1, <2>3
        <3> QED BY <1>4, <1>6, <1>7, <2>1, <2>3, <3>1
    <2> QED BY <2>2, <2>3
<1>10. Front(r) = q
    <2>1. Front(r) = SubSeq(r, 1, Len(q))
        BY <1>8 DEF Front
    <2>2. SubSeq(r, 1, Len(q)) \in Seq(Code) /\ Len(SubSeq(r, 1, Len(q))) = Len(q)
          /\ \A i \in 1..Len(q) : SubSeq(r, 1, Len(q))[i] = r[i]
        BY <1>6, <1>8
    <2>3. \A i \in 1..Len(SubSeq(r, 1, Len(q))) : SubSeq(r, 1, Len(q))[i] = q[i]
        BY <1>9, <2>2
    <2>4. SubSeq(r, 1, Len(q)) = q
        BY <1>7, <2>2, <2>3, SeqEqual
    <2> QED BY <2>1, <2>4
<1> QED BY <1>5, <1>10 DEF r, q

(* What is below a path's front is below the path, and a path is below itself. *)
LEMMA UnderFronts ==
    ASSUME NEW p \in Seq(Code), NEW from \in Seq(Code)
    PROVE  Under(from, from) /\ (p # <<>> /\ Under(Front(p), from) => Under(p, from))
<1>1. Len(p) \in Nat /\ Len(from) \in Nat
    OBVIOUS
<1>2. Under(from, from)
    BY <1>1 DEF Under, IsPrefix
<1>3. ASSUME p # <<>>, Under(Front(p), from) PROVE Under(p, from)
    <2>1. Len(p) > 0
        BY <1>1, <1>3, EmptySeq
    <2>2. /\ Front(p) \in Seq(Code) /\ Len(Front(p)) = Len(p) - 1
          /\ \A i \in 1..(Len(p) - 1) : Front(p)[i] = p[i]
        BY <1>3, Fronts
    <2>3. Len(from) <= Len(p) - 1 /\ SubSeq(from, 1, Len(from)) = SubSeq(Front(p), 1, Len(from))
        BY <1>3, <2>2 DEF Under, IsPrefix
    <2>4. SubSeq(Front(p), 1, Len(from)) = SubSeq(p, 1, Len(from))
        <3>1. \A i \in 1..Len(from) : Front(p)[i] = p[i]
            BY <1>1, <2>2, <2>3
        <3> QED BY <1>1, <2>2, <2>3, <3>1
    <2> QED BY <1>1, <2>3, <2>4 DEF Under, IsPrefix
<1> QED BY <1>2, <1>3

-----------------------------------------------------------------------------
(* What the types say. *)

(* The fields of a request. *)
LEMMA RequestFields ==
    ASSUME NEW t \in Txn
    PROVE  /\ t.op \in {"create", "move", "delete"} /\ t.id \in Id /\ t.parent \in Id \cup {Root}
           /\ t.from \in Path \cup {<<>>} /\ t.to \in Path \cup {<<>>} /\ t.rest \in SUBSET Id
           /\ t.writes \in [Id -> Node \cup {Gone, Nobody}]
           /\ t # Nobody
           /\ Written(t) \subseteq Id
           /\ \A i \in Written(t) : t.writes[i] \in Node \/ t.writes[i] = Gone
<1>1. /\ t.op \in {"create", "move", "delete"} /\ t.id \in Id /\ t.parent \in Id \cup {Root}
      /\ t.from \in Path \cup {<<>>} /\ t.to \in Path \cup {<<>>} /\ t.rest \in SUBSET Id
      /\ t.writes \in [Id -> Node \cup {Gone, Nobody}]
    BY DEF Txn
<1>2. t # Nobody
    BY NullsAssumption
<1>3. \A i \in Written(t) : t.writes[i] \in Node \/ t.writes[i] = Gone
    BY <1>1 DEF Written
<1> QED BY <1>1, <1>2, <1>3 DEF Written

(* A row of the table, and a row that is written. *)
LEMMA RowFields ==
    /\ \A n \in Node : IsNode(n) /\ n # Nobody /\ n.path \in Path /\ n.parent \in Id \cup {Root}
    /\ ~IsNode(Gone) /\ ~IsNode(Unused) /\ Gone # Nobody
    /\ Typed => \A i \in Nodes : i \in Id /\ nodes[i] \in Node
<1>1. \A n \in Node : IsNode(n) /\ n # Nobody /\ n.path \in Path /\ n.parent \in Id \cup {Root}
    BY NullsAssumption DEF IsNode, Node
<1>2. ~IsNode(Gone) /\ ~IsNode(Unused) /\ Gone # Nobody
    BY NullsAssumption DEF IsNode
<1>3. Typed => \A i \in Nodes : i \in Id /\ nodes[i] \in Node
    BY DEF Typed, TypeOK, Nodes, IsNode
<1> QED BY <1>1, <1>2, <1>3

(* A request that runs is one. *)
LEMMA Requests ==
    ASSUME Typed, NEW w \in Worker
    PROVE  /\ Running(w) => txn[w] \in Txn
           /\ \A t \in Txn : txn[w] = t => Running(w)
<1>1. \A t \in Txn : txn[w] = t => Running(w)
    BY RequestFields DEF Running
<1> QED BY <1>1 DEF Typed, TypeOK, Running

-----------------------------------------------------------------------------
(* What keeps a request fit, and two of them apart. *)

(* Nothing that a request relies on changes while the table stays and its own *)
(* locks stay with it.                                                      *)
LEMMA FitStays ==
    ASSUME Typed, NEW x \in Worker, NEW s \in Txn, Fit(x, s),
           nodes' = nodes, raced => raced',
           \A i \in Id : holder[i] = x => holder'[i] = x
    PROVE  Fit(x, s)'
<1>1. Nodes' = Nodes /\ Nodes \subseteq Id
    BY DEF Nodes
<1>2. Below(s.from)' = Below(s.from)
    BY <1>1 DEF Below
<1>3. s.id \in Id /\ Written(s) \subseteq Id
    BY RequestFields
<1>4. Shaped(s)' /\ Fresh(s)'
    BY <1>1 DEF Fit, Shaped, Fresh, Written
<1>5. Settled(x, s)'
    BY <1>1, <1>3 DEF Fit, Settled
<1>6. Placed(x, s)'
    BY <1>1 DEF Fit, Placed
<1>7. Writing(x, s)'
    BY <1>1, <1>2, <1>3 DEF Fit, Writing, Written, Own, Dragged
<1>8. Thorough(s)'
    BY <1>2 DEF Fit, Thorough, Written
<1> QED BY <1>4, <1>5, <1>6, <1>7, <1>8 DEF Fit

(* Apart is the same both ways. *)
LEMMA SeparateBothWays ==
    ASSUME NEW t \in Txn, NEW u \in Txn, Separate(t, u)
    PROVE  Separate(u, t)
BY DEF Separate

(* A request goes on: what the others rely on stays. *)
LEMMA GoesOn ==
    ASSUME IndInv, NEW w \in Worker, NEW t \in Txn, txn[w] = t, NEW u \in Txn,
           GoOn(w, u),
           holder' \in [Id -> Worker \cup {Nobody}],
           \A i \in Id : holder'[i] = holder[i] \/ (holder[i] = Nobody /\ holder'[i] = w),
           Fit(w, u)',
           \A x \in Worker, s \in Txn : x # w /\ txn[x] = s => Separate(u, s)
    PROVE  IndInv'
<1>1. Typed /\ nodes' = nodes /\ raced' = raced /\ txn \in [Worker -> Txn \cup {Nobody}]
    BY DEF IndInv, Typed, GoOn
<1>2. \A x \in Worker : txn'[x] = IF x = w THEN u ELSE txn[x]
    BY <1>1 DEF GoOn
<1>3. txn' \in [Worker -> Txn \cup {Nobody}]
    BY <1>1 DEF GoOn
<1>4. Typed'
    <2>1. nodes' \in [Id -> Node \cup {Unused, Gone}] /\ raced' \in BOOLEAN
        BY <1>1 DEF Typed, TypeOK
    <2> QED BY <1>3, <2>1 DEF Typed, TypeOK, Running
<1>5. RequestsFit'
    <2> SUFFICES ASSUME NEW x \in Worker, NEW s \in Txn, txn'[x] = s
                 PROVE  Fit(x, s)'
        BY DEF RequestsFit
    <2>1. CASE x = w
        BY <1>2, <2>1
    <2>2. CASE x # w
        <3>1. txn[x] = s /\ Fit(x, s)
            BY <1>2, <2>2 DEF IndInv, RequestsFit
        <3>2. \A i \in Id : holder[i] = x => holder'[i] = x
            BY <2>2, NullsAssumption
        <3> QED BY <1>1, <3>1, <3>2, FitStays
    <2> QED BY <2>1, <2>2
<1>6. Apart'
    <2> SUFFICES ASSUME NEW x \in Worker, NEW y \in Worker, NEW s \in Txn, NEW v \in Txn,
                        x # y, txn'[x] = s, txn'[y] = v
                 PROVE  Separate(s, v)'
        BY DEF Apart
    <2>1. Separate(s, v)
        <3>1. CASE x = w
            BY <1>2, <3>1
        <3>2. CASE y = w
            <4>1. Separate(u, s)
                BY <1>2, <3>2
            <4> QED BY <1>2, <3>2, <4>1, SeparateBothWays
        <3>3. CASE x # w /\ y # w
            BY <1>2, <3>3 DEF IndInv, Apart
        <3> QED BY <3>1, <3>2, <3>3
    <2> QED BY <1>1, <2>1 DEF Separate, Written
<1>7. UniquePaths' /\ ParentsExist' /\ UnracedMovesKeepPaths'
    <2>1. Nodes' = Nodes
        BY <1>1 DEF Nodes
    <2>2. UniquePaths' /\ ParentsExist'
        BY <1>1, <2>1 DEF IndInv, UniquePaths, ParentsExist
    <2>3. PathsFollowParents' = PathsFollowParents
        BY <1>1, <2>1 DEF PathsFollowParents
    <2> QED BY <1>1, <2>2, <2>3 DEF IndInv, UnracedMovesKeepPaths
<1> QED BY <1>4, <1>5, <1>6, <1>7 DEF IndInv

(* What a request that writes nothing new is apart from. *)
LEMMA SeparateStays ==
    ASSUME IndInv, NEW w \in Worker, NEW t \in Txn, txn[w] = t, NEW u \in Txn,
           u.op = t.op, u.id = t.id, u.writes = t.writes
    PROVE  \A x \in Worker, s \in Txn : x # w /\ txn[x] = s => Separate(u, s)
<1> SUFFICES ASSUME NEW x \in Worker, NEW s \in Txn, x # w, txn[x] = s
             PROVE  Separate(u, s)
    OBVIOUS
<1>1. Separate(t, s)
    BY DEF IndInv, Apart
<1> QED BY <1>1 DEF Separate, Written

(* A write of row i as n by w, once no row w sees and no row another is      *)
(* about to write or remove has the key: the paths stay different.          *)
LEMMA WritesNewPath ==
    ASSUME IndInv, NEW w \in Worker, NEW t \in Txn, txn[w] = t,
           NEW i \in Id, NEW n \in Node, NEW u \in Txn,
           u.op = t.op, u.id = t.id,
           \A k \in Id : u.writes[k] = IF k = i THEN n ELSE t.writes[k],
           Rivals(w, i, n) = {}, ~KeyTaken(w, i, n),
           \A x \in Worker \ {w}, s \in Txn : txn[x] = s => i \notin Written(s)
    PROVE  /\ Fresh(u)
           /\ \A x \in Worker, s \in Txn : x # w /\ txn[x] = s => Separate(u, s)
           /\ Written(u) = Written(t) \cup {i}
<1>1. IsNode(n) /\ n # Nobody
    BY RowFields
<1>2. \A k \in Id : u.writes[k] = IF k = i THEN n ELSE t.writes[k]
    OBVIOUS
<1>3. Written(u) = Written(t) \cup {i}
    BY <1>1, <1>2 DEF Written
<1>4. ASSUME NEW k \in Id, k # i
      PROVE  /\ k \notin Written(t) /\ k \in Nodes => nodes[k].path # n.path
             /\ k \in Written(t) /\ IsNode(t.writes[k]) => t.writes[k].path # n.path
    <2>1. ~(IsNode(Seen(w, k)) /\ SameKey(n, Seen(w, k)))
        BY <1>4 DEF KeyTaken
    <2>2. CASE k \in Written(t)
        BY <2>1, <2>2 DEF Seen, SameKey
    <2>3. CASE k \notin Written(t)
        BY <2>1, <2>3 DEF Seen, SameKey, Nodes
    <2> QED BY <2>2, <2>3
<1>5. Fresh(u)
    <2> SUFFICES ASSUME NEW j \in Written(u), NEW k \in Id, j # k, IsNode(u.writes[j])
                 PROVE  /\ k \notin Written(u) /\ k \in Nodes => nodes[k].path # u.writes[j].path
                        /\ k \in Written(u) /\ IsNode(u.writes[k]) =>
                               u.writes[k].path # u.writes[j].path
        BY DEF Fresh
    <2>1. j \in Id
        BY RequestFields
    <2>2. CASE j = i
        BY <1>2, <1>3, <1>4, <2>2
    <2>3. CASE j # i /\ k = i
        BY <1>2, <1>3, <1>4, <2>1, <2>3
    <2>4. CASE j # i /\ k # i
        <3>1. Fresh(t)
            BY DEF IndInv, RequestsFit, Fit
        <3>2. j \in Written(t) /\ (k \in Written(u) <=> k \in Written(t))
            BY <1>3, <2>4
        <3>3. u.writes[j] = t.writes[j] /\ u.writes[k] = t.writes[k]
            BY <1>2, <2>1, <2>4
        <3> QED BY <2>4, <3>1, <3>2, <3>3 DEF Fresh
    <2> QED BY <2>2, <2>3, <2>4
<1>6. ASSUME NEW x \in Worker, NEW s \in Txn, x # w, txn[x] = s
      PROVE  Separate(u, s)
    <2>1. Separate(t, s)
        BY <1>6 DEF IndInv, Apart
    <2>2. i \notin Written(s)
        BY <1>6
    <2>3. ASSUME NEW j \in Written(u), NEW k \in Written(s), IsNode(u.writes[j]), IsNode(s.writes[k])
          PROVE  u.writes[j].path # s.writes[k].path
        <3>1. j \in Id /\ k \in Id
            BY RequestFields
        <3>2. CASE j = i
            <4>1. Running(x) /\ x \in Worker \ {w} /\ k \in Written(txn[x]) \ {i}
                BY <1>6, <2>2, Requests DEF IndInv
            <4>2. ~(IsNode(s.writes[k]) /\ SameKey(n, s.writes[k]))
                BY <1>6, <4>1 DEF Rivals
            <4> QED BY <1>2, <2>3, <3>1, <3>2, <4>2 DEF SameKey
        <3>3. CASE j # i
            BY <1>2, <1>3, <2>1, <2>3, <3>1, <3>3 DEF Separate
        <3> QED BY <3>2, <3>3
    <2> QED BY <2>1, <2>3 DEF Separate
<1> QED BY <1>2, <1>3, <1>5, <1>6

(* A row that w has locked, or whose lock is free, nobody else has written. *)
LEMMA OnlyHoldersWrite ==
    ASSUME IndInv, NEW w \in Worker, NEW i \in Nodes, Free(w, i)
    PROVE  \A x \in Worker \ {w}, s \in Txn : txn[x] = s => i \notin Written(s)
<1> SUFFICES ASSUME NEW x \in Worker \ {w}, NEW s \in Txn, txn[x] = s, i \in Written(s)
             PROVE  FALSE
    OBVIOUS
<1>1. Writing(x, s) /\ Settled(x, s)
    BY DEF IndInv, RequestsFit, Fit
<1>2. nodes[i] # Unused /\ i \in Id
    BY DEF Nodes, IsNode
<1>3. holder[i] = x
    BY <1>1, <1>2 DEF Writing, Settled
<1> QED BY <1>3, NullsAssumption DEF Free

-----------------------------------------------------------------------------
(* Beginnings and ends. *)

(* The table is empty, and no request runs. *)
LEMMA InvHolds == Init => IndInv
<1> SUFFICES ASSUME Init PROVE IndInv
    OBVIOUS
<1>1. Nodes = {}
    BY NullsAssumption DEF Init, Nodes, IsNode
<1>2. \A w \in Worker : ~Running(w) /\ txn[w] \notin Txn
    BY NullsAssumption DEF Init, Running
<1>3. Typed
    BY <1>2 DEF Init, Typed, TypeOK
<1>4. RequestsFit /\ Apart
    BY <1>2 DEF RequestsFit, Apart
<1>5. UniquePaths /\ ParentsExist /\ UnracedMovesKeepPaths
    BY <1>1 DEF UniquePaths, ParentsExist, UnracedMovesKeepPaths, PathsFollowParents
<1> QED BY <1>3, <1>4, <1>5 DEF IndInv

(* A request that begins has read nothing; a move among others makes the      *)
(* history a raced one.                                                     *)
LEMMA BeginKeeps ==
    ASSUME IndInv, NEW w \in Worker, NEW op \in {"create", "move", "delete"}, NEW i \in Id,
           NEW parent \in Id \cup {Root}, NEW code \in Code \cup {Nobody},
           op # "delete" => code \in Code,
           op = "create" => nodes[i] = Unused /\ \A x \in Worker : Running(x) => txn[x].id # i,
           Begin(w, op, i, parent, code)
    PROVE  IndInv'
<1>1. PICK u : u = [op |-> op, step |-> IF op = "create" THEN "parent" ELSE "self",
                    id |-> i, parent |-> parent, code |-> code,
                    from |-> <<>>, to |-> <<>>, rest |-> {}, writes |-> [k \in Id |-> Nobody]]
    OBVIOUS
<1>2. /\ u.op = op /\ u.step = (IF op = "create" THEN "parent" ELSE "self")
      /\ u.id = i /\ u.parent = parent /\ u.code = code /\ u.rest = {}
      /\ u.writes = [k \in Id |-> Nobody]
    BY <1>1
<1>3. u \in Txn
    BY <1>1 DEF Txn
<1>4. /\ txn' = [txn EXCEPT ![w] = u] /\ nodes' = nodes /\ holder' = holder /\ ~Running(w)
      /\ raced' = (raced \/ \E x \in Worker : Running(x) /\ "move" \in {op, txn[x].op})
    BY <1>1 DEF Begin
<1>5. Typed /\ txn \in [Worker -> Txn \cup {Nobody}]
    BY DEF IndInv, Typed
<1>6. \A x \in Worker : txn'[x] = IF x = w THEN u ELSE txn[x]
    BY <1>4, <1>5
<1>7. Typed'
    <2>1. txn' \in [Worker -> Txn \cup {Nobody}]
        BY <1>3, <1>4, <1>5
    <2>2. raced' \in BOOLEAN
        BY <1>4, <1>5 DEF Typed, TypeOK
    <2> QED BY <1>4, <1>5, <2>1, <2>2 DEF Typed, TypeOK, Running
<1>8. Written(u) = {}
    BY <1>2 DEF Written
<1>9. Fit(w, u)'
    <2>1. Shaped(u)'
        BY <1>2, <1>8 DEF Shaped, Written
    <2>2. Settled(w, u)' /\ Placed(w, u)'
        BY <1>2, <1>4 DEF Settled, Placed
    <2>3. Writing(w, u)' /\ Fresh(u)' /\ Thorough(u)'
        BY <1>2, <1>8 DEF Writing, Fresh, Thorough, Written
    <2> QED BY <2>1, <2>2, <2>3 DEF Fit
<1>10. RequestsFit'
    <2> SUFFICES ASSUME NEW x \in Worker, NEW s \in Txn, txn'[x] = s
                 PROVE  Fit(x, s)'
        BY DEF RequestsFit
    <2>1. CASE x = w
        BY <1>6, <1>9, <2>1
    <2>2. CASE x # w
        <3>1. txn[x] = s /\ Fit(x, s)
            BY <1>6, <2>2 DEF IndInv, RequestsFit
        <3>2. \A k \in Id : holder[k] = x => holder'[k] = x
            BY <1>4
        <3>3. raced => raced'
            BY <1>4
        <3> QED BY <1>4, <1>5, <3>1, <3>2, <3>3, FitStays
    <2> QED BY <2>1, <2>2
<1>11. ASSUME NEW x \in Worker, NEW s \in Txn, x # w, txn[x] = s
       PROVE  Separate(u, s)' /\ Separate(s, u)'
    <2>1. Running(x)
        BY <1>5, <1>11, Requests
    <2>2. ~raced' => u.op # "move" /\ s.op # "move"
        BY <1>2, <1>4, <1>11, <2>1
    <2>3. u.op = "create" => u.id # s.id
        BY <1>2, <1>11, <2>1
    <2> QED BY <1>8, <2>2, <2>3 DEF Separate, Written
<1>12. Apart'
    <2> SUFFICES ASSUME NEW x \in Worker, NEW y \in Worker, NEW s \in Txn, NEW v \in Txn,
                        x # y, txn'[x] = s, txn'[y] = v
                 PROVE  Separate(s, v)'
        BY DEF Apart
    <2>1. CASE x = w
        BY <1>6, <1>11, <2>1
    <2>2. CASE y = w
        BY <1>6, <1>11, <2>2
    <2>3. CASE x # w /\ y # w
        <3>1. Separate(s, v)
            BY <1>6, <2>3 DEF IndInv, Apart
        <3> QED BY <1>4, <3>1 DEF Separate, Written
    <2> QED BY <2>1, <2>2, <2>3
<1>13. UniquePaths' /\ ParentsExist' /\ UnracedMovesKeepPaths'
    <2>1. Nodes' = Nodes
        BY <1>4 DEF Nodes
    <2>2. UniquePaths' /\ ParentsExist'
        BY <1>4, <2>1 DEF IndInv, UniquePaths, ParentsExist
    <2>3. PathsFollowParents' = PathsFollowParents
        BY <1>4, <2>1 DEF PathsFollowParents
    <2> QED BY <1>4, <2>2, <2>3 DEF IndInv, UnracedMovesKeepPaths
<1> QED BY <1>7, <1>10, <1>12, <1>13 DEF IndInv

(* The request of w is over, and its locks: what the others rely on stays if *)
(* the rows they rely on do.                                                *)
LEMMA EndKeeps ==
    ASSUME IndInv, NEW w \in Worker, End(w),
           nodes' \in [Id -> Node \cup {Unused, Gone}],
           \A x \in Worker \ {w}, s \in Txn : txn[x] = s => Fit(x, s)',
           UniquePaths', ParentsExist', UnracedMovesKeepPaths'
    PROVE  IndInv'
<1>1. /\ Typed /\ txn \in [Worker -> Txn \cup {Nobody}] /\ raced' = raced
      /\ holder \in [Id -> Worker \cup {Nobody}]
    BY DEF IndInv, Typed, TypeOK, End
<1>2. \A x \in Worker : txn'[x] = IF x = w THEN Nobody ELSE txn[x]
    BY <1>1 DEF End
<1>3. Typed'
    <2>1. txn' \in [Worker -> Txn \cup {Nobody}]
        BY <1>1 DEF End
    <2>2. holder' \in [Id -> Worker \cup {Nobody}]
        BY <1>1 DEF End
    <2>3. raced' \in BOOLEAN
        BY <1>1 DEF Typed, TypeOK
    <2> QED BY <2>1, <2>2, <2>3 DEF Typed, TypeOK, Running
<1>4. RequestsFit'
    <2> SUFFICES ASSUME NEW x \in Worker, NEW s \in Txn, txn'[x] = s
                 PROVE  Fit(x, s)'
        BY DEF RequestsFit
    <2>1. x # w /\ txn[x] = s
        BY <1>2, RequestFields
    <2> QED BY <2>1
<1>5. Apart'
    <2> SUFFICES ASSUME NEW x \in Worker, NEW y \in Worker, NEW s \in Txn, NEW v \in Txn,
                        x # y, txn'[x] = s, txn'[y] = v
                 PROVE  Separate(s, v)'
        BY DEF Apart
    <2>1. x # w /\ y # w /\ txn[x] = s /\ txn[y] = v
        BY <1>2, RequestFields
    <2>2. Separate(s, v)
        BY <2>1 DEF IndInv, Apart
    <2> QED BY <1>1, <2>2 DEF Separate, Written
<1> QED BY <1>3, <1>4, <1>5 DEF IndInv

(* A refused request leaves the table as it is. *)
LEMMA RefuseKeeps ==
    ASSUME IndInv, NEW w \in Worker, Refuse(w)
    PROVE  IndInv'
<1>1. End(w) /\ nodes' = nodes /\ raced' = raced
    BY DEF Refuse, End
<1>2. nodes' \in [Id -> Node \cup {Unused, Gone}] /\ Typed
    BY <1>1 DEF IndInv, Typed, TypeOK
<1>3. ASSUME NEW x \in Worker \ {w}, NEW s \in Txn, txn[x] = s PROVE Fit(x, s)'
    <2>1. Fit(x, s)
        BY <1>3 DEF IndInv, RequestsFit
    <2>2. \A i \in Id : holder[i] = x => holder'[i] = x
        BY <1>1 DEF End
    <2> QED BY <1>1, <1>2, <2>1, <2>2, FitStays
<1>4. Nodes' = Nodes
    BY <1>1 DEF Nodes
<1>5. UniquePaths' /\ ParentsExist'
    BY <1>1, <1>4 DEF IndInv, UniquePaths, ParentsExist
<1>6. UnracedMovesKeepPaths'
    <2>1. PathsFollowParents' = PathsFollowParents
        BY <1>1, <1>4 DEF PathsFollowParents
    <2> QED BY <1>1, <2>1 DEF IndInv, UnracedMovesKeepPaths
<1> QED BY <1>1, <1>2, <1>3, <1>5, <1>6, EndKeeps

-----------------------------------------------------------------------------
(* The steps in between. *)

(* What a request that runs knows. *)
LEMMA AtAStep ==
    ASSUME IndInv, NEW w \in Worker, NEW step, At(w, step)
    PROVE  txn[w] \in Txn /\ txn[w].step = step /\ Fit(w, txn[w]) /\ Typed
<1>1. Running(w) /\ txn[w].step = step /\ Typed
    BY DEF At, IndInv
<1>2. txn[w] \in Txn
    BY <1>1, Requests
<1> QED BY <1>1, <1>2 DEF IndInv, RequestsFit

(* The lock of a row that was free or one's own. *)
LEMMA LocksGrow ==
    ASSUME Typed, NEW w \in Worker, NEW i \in Id, Free(w, i), Locking(w, i)
    PROVE  /\ holder' \in [Id -> Worker \cup {Nobody}]
           /\ \A k \in Id : holder'[k] = holder[k] \/ (holder[k] = Nobody /\ holder'[k] = w)
           /\ \A k \in Id : holder[k] = w => holder'[k] = w
           /\ holder'[i] = w
<1>1. holder \in [Id -> Worker \cup {Nobody}]
    BY DEF Typed, TypeOK
<1>2. \A k \in Id : holder'[k] = IF k = i THEN w ELSE holder[k]
    BY <1>1 DEF Locking
<1>3. holder' \in [Id -> Worker \cup {Nobody}]
    BY <1>1 DEF Locking
<1> QED BY <1>2, <1>3 DEF Free

(* The path of the row is read under its lock. *)
LEMMA LockSelfKeeps ==
    ASSUME IndInv, NEW w \in Worker, LockSelf(w)
    PROVE  IndInv'
<1>1. PICK t \in Txn : t = txn[w] /\ t.step = "self" /\ Fit(w, t) /\ Typed
    BY AtAStep DEF LockSelf
<1>2. CASE Refuse(w)
    BY <1>2, RefuseKeeps
<1>3. CASE ~Refuse(w)
    <2>1. PICK u : u = [t EXCEPT !.from = nodes[t.id].path,
                                 !.step = IF t.op = "move" THEN "parent" ELSE "scan"]
        OBVIOUS
    <2>2. /\ t.id \in Nodes /\ Locking(w, t.id) /\ GoOn(w, u) /\ holder[t.id] = Nobody
        BY <1>1, <1>3, <2>1 DEF LockSelf
    <2>3. nodes[t.id] \in Node /\ nodes[t.id].path \in Path /\ t.id \in Id
        BY <1>1, <2>2, RowFields
    <2>4. /\ u.op = t.op /\ u.id = t.id /\ u.writes = t.writes /\ u.code = t.code
          /\ u.step = (IF t.op = "move" THEN "parent" ELSE "scan")
          /\ u.from = nodes[t.id].path
        BY <2>1 DEF Txn
    <2>5. u \in Txn
        BY <2>1, <2>3 DEF Txn
    <2>6. nodes' = nodes /\ Nodes' = Nodes
        BY <2>2 DEF GoOn, Nodes
    <2>7. /\ holder' \in [Id -> Worker \cup {Nobody}]
          /\ \A k \in Id : holder'[k] = holder[k] \/ (holder[k] = Nobody /\ holder'[k] = w)
          /\ holder'[t.id] = w
        BY <1>1, <2>2, <2>3, LocksGrow DEF Free
    <2>8. Written(u) = {} /\ Written(t) = {}
        BY <1>1, <2>4 DEF Fit, Shaped, Written
    <2>9. Fit(w, u)'
        <3>1. Shaped(u)'
            BY <1>1, <2>4, <2>8 DEF Fit, Shaped, Written, Txn
        <3>2. Settled(w, u)'
            BY <1>1, <2>2, <2>4, <2>6, <2>7 DEF Fit, Settled
        <3>3. Placed(w, u)'
            BY <2>4 DEF Placed
        <3>4. Writing(w, u)' /\ Fresh(u)' /\ Thorough(u)'
            BY <2>4, <2>8 DEF Writing, Fresh, Thorough, Written
        <3> QED BY <3>1, <3>2, <3>3, <3>4 DEF Fit
    <2>10. \A x \in Worker, s \in Txn : x # w /\ txn[x] = s => Separate(u, s)
        BY <1>1, <2>4, <2>5, SeparateStays
    <2> QED BY <1>1, <2>2, <2>5, <2>7, <2>4, <2>9, <2>10, GoesOn
<1> QED BY <1>2, <1>3

(* The new path is built on the path of the parent, which is locked, or it is *)
(* the code of a location without a parent.                                 *)
LEMMA ResolveParentKeeps ==
    ASSUME IndInv, NEW w \in Worker, ResolveParent(w)
    PROVE  IndInv'
<1>1. PICK t \in Txn : t = txn[w] /\ t.step = "parent" /\ Fit(w, t) /\ Typed
    BY AtAStep DEF ResolveParent
<1>2. CASE Refuse(w)
    BY <1>2, RefuseKeeps
<1>3. CASE ~Refuse(w)
    <2>1. PICK p, u :
             /\ u = [t EXCEPT !.to = Append(p, t.code), !.step = "write"]
             /\ Len(Append(p, t.code)) <= MaxDepth /\ GoOn(w, u)
             /\ \/ t.parent = Root /\ p = <<>> /\ holder' = holder
                \/ /\ t.parent \in Nodes /\ t.parent # t.id /\ holder[t.parent] = Nobody
                   /\ p = nodes[t.parent].path /\ Locking(w, t.parent)
                   /\ t.op = "move" => Movable(t)
        BY <1>1, <1>3 DEF ResolveParent, BuildPath
    <2>2. p \in Path \cup {<<>>}
        BY <1>1, <2>1, RowFields
    <2>3. t.code \in Code /\ t.op # "delete" /\ Written(t) = {}
        BY <1>1 DEF Fit, Shaped
    <2>4. Append(p, t.code) \in Path \cup {<<>>}
        BY <2>1, <2>2, <2>3, BuiltPaths, PathsAreSequences
    <2>5. /\ u.op = t.op /\ u.id = t.id /\ u.writes = t.writes /\ u.code = t.code
          /\ u.parent = t.parent /\ u.from = t.from
          /\ u.step = "write" /\ u.to = Append(p, t.code)
        BY <2>1 DEF Txn
    <2>6. u \in Txn
        BY <2>1, <2>4 DEF Txn
    <2>7. nodes' = nodes /\ Nodes' = Nodes
        BY <2>1 DEF GoOn, Nodes
    <2>8. /\ holder' \in [Id -> Worker \cup {Nobody}]
          /\ \A k \in Id : holder'[k] = holder[k] \/ (holder[k] = Nobody /\ holder'[k] = w)
          /\ \A k \in Id : holder[k] = w => holder'[k] = w
          /\ t.parent # Root => holder'[t.parent] = w
        <3>1. CASE t.parent = Root
            <4>1. holder' = holder
                BY <2>1, <3>1, NullsAssumption DEF Nodes
            <4> QED BY <1>1, <3>1, <4>1 DEF Typed, TypeOK
        <3>2. CASE t.parent # Root
            <4>1. t.parent \in Id /\ Free(w, t.parent) /\ Locking(w, t.parent)
                BY <2>1, <3>2 DEF Free, Nodes
            <4> QED BY <1>1, <4>1, LocksGrow
        <3> QED BY <3>1, <3>2
    <2>9. Written(u) = {}
        BY <2>3, <2>5 DEF Written
    <2>10. Fit(w, u)'
        <3>1. Shaped(u)'
            BY <1>1, <2>3, <2>5, <2>9 DEF Fit, Shaped, Written
        <3>2. Settled(w, u)'
            BY <1>1, <2>5, <2>7, <2>8, RequestFields DEF Fit, Settled
        <3>3. Placed(w, u)'
            <4>1. CASE t.parent = Root
                <5>1. p = <<>>
                    BY <2>1, <4>1, NullsAssumption DEF Nodes
                <5>2. Append(<<>>, t.code) = <<t.code>>
                    OBVIOUS
                <5> QED BY <2>5, <4>1, <5>1, <5>2 DEF Placed
            <4>2. CASE t.parent # Root
                BY <2>1, <2>5, <2>7, <2>8, <4>2 DEF Placed, Movable
            <4> QED BY <4>1, <4>2
        <3>4. Writing(w, u)' /\ Fresh(u)' /\ Thorough(u)'
            BY <2>5, <2>9 DEF Writing, Fresh, Thorough, Written
        <3> QED BY <3>1, <3>2, <3>3, <3>4 DEF Fit
    <2>11. \A x \in Worker, s \in Txn : x # w /\ txn[x] = s => Separate(u, s)
        BY <1>1, <2>5, <2>6, SeparateStays
    <2> QED BY <1>1, <2>1, <2>5, <2>6, <2>8, <2>10, <2>11, GoesOn
<1> QED BY <1>2, <1>3

(* A path that is to be written has been built. *)
LEMMA NewPathsAreBuilt ==
    ASSUME Typed, NEW w \in Worker, NEW t \in Txn, Fit(w, t), t.step \in {"write", "drag", "commit"}
    PROVE  t.to # <<>> /\ t.code \in Code /\ t.op \in {"create", "move"}
<1>1. t.op \in {"create", "move"} /\ t.code \in Code
    BY RequestFields DEF Fit, Shaped
<1>2. CASE t.parent = Root /\ t.to = <<t.code>>
    BY <1>1, <1>2
<1>3. CASE t.parent \in Nodes /\ t.to = Append(nodes[t.parent].path, t.code)
    BY <1>1, <1>3, RowFields, BuiltPaths
<1> QED BY <1>1, <1>2, <1>3 DEF Fit, Placed

(* The row itself is written, and what is below the old path is to follow. *)
LEMMA WriteNodeKeeps ==
    ASSUME IndInv, NEW w \in Worker, WriteNode(w)
    PROVE  IndInv'
<1>1. PICK t \in Txn : t = txn[w] /\ t.step = "write" /\ Fit(w, t) /\ Typed
    BY AtAStep DEF WriteNode
<1>2. CASE Refuse(w)
    BY <1>2, RefuseKeeps
<1>3. CASE ~Refuse(w)
    <2>1. PICK n, rest, step, u :
             /\ n = Own(t)
             /\ rest = IF t.op = "move" /\ Moved(t) THEN Below(t.from) \ {t.id} ELSE {}
             /\ step = IF t.op = "move" /\ Moved(t) THEN "drag" ELSE "commit"
             /\ u = [t EXCEPT !.writes[t.id] = n, !.rest = rest, !.step = step]
             /\ Rivals(w, t.id, n) = {} /\ ~KeyTaken(w, t.id, n)
             /\ GoOn(w, u) /\ holder' = holder
        BY <1>1, <1>3 DEF WriteNode, Own
    <2>2. t.code \in Code /\ t.op \in {"create", "move"} /\ Written(t) = {}
        BY <1>1, RequestFields DEF Fit, Shaped
    <2>3. n \in Node /\ t.id \in Id
        <3>1. t.to # <<>>
            BY <1>1, NewPathsAreBuilt
        <3> QED BY <2>1, <3>1, RequestFields DEF Own, Node
    <2>4. /\ u.op = t.op /\ u.id = t.id /\ u.code = t.code
          /\ u.parent = t.parent /\ u.from = t.from /\ u.to = t.to
          /\ u.step = step /\ u.rest = rest
          /\ u.writes = [t.writes EXCEPT ![t.id] = n]
        BY <2>1 DEF Txn
    <2>5. u \in Txn
        <3>1. [t.writes EXCEPT ![t.id] = n] \in [Id -> Node \cup {Gone, Nobody}]
            BY <2>3, RequestFields
        <3>2. rest \in SUBSET Id /\ step \in {"drag", "commit"}
            BY <2>1 DEF Below, Nodes
        <3>3. u = [t EXCEPT !.writes[t.id] = n, !.rest = rest, !.step = step]
            BY <2>1
        <3> QED BY <3>1, <3>2, <3>3 DEF Txn
    <2>6. nodes' = nodes /\ Nodes' = Nodes
        BY <2>1 DEF GoOn, Nodes
    <2>7. \A x \in Worker \ {w}, s \in Txn : txn[x] = s => t.id \notin Written(s)
        <3>1. CASE t.op = "create"
            <4> SUFFICES ASSUME NEW x \in Worker \ {w}, NEW s \in Txn, txn[x] = s,
                                t.id \in Written(s)
                         PROVE  FALSE
                OBVIOUS
            <4>1. Writing(x, s) /\ Separate(s, t)
                BY <1>1 DEF IndInv, RequestsFit, Fit, Apart
            <4>2. t.id \notin Nodes
                BY <1>1, <3>1 DEF Fit, Settled, Nodes, IsNode
            <4>3. s.op = "create" /\ s.id = t.id
                BY <4>1, <4>2 DEF Writing
            <4> QED BY <3>1, <4>1, <4>3 DEF Separate
        <3>2. CASE t.op = "move"
            <4>1. t.id \in Nodes /\ Free(w, t.id)
                BY <1>1, <3>2 DEF Fit, Settled, Free
            <4> QED BY <4>1, OnlyHoldersWrite
        <3> QED BY <2>2, <3>1, <3>2
    <2>8. /\ Fresh(u)
          /\ \A x \in Worker, s \in Txn : x # w /\ txn[x] = s => Separate(u, s)
          /\ Written(u) = {t.id}
          /\ u.writes[t.id] = n
        <3>1. /\ txn[w] = t /\ u.op = t.op /\ u.id = t.id
              /\ \A k \in Id : u.writes[k] = IF k = t.id THEN n ELSE t.writes[k]
              /\ Rivals(w, t.id, n) = {} /\ ~KeyTaken(w, t.id, n)
            BY <1>1, <2>1, <2>4, RequestFields
        <3>2. /\ Fresh(u)
              /\ \A x \in Worker, s \in Txn : x # w /\ txn[x] = s => Separate(u, s)
              /\ Written(u) = Written(t) \cup {t.id}
            BY <2>3, <2>5, <2>7, <3>1, WritesNewPath
        <3> QED BY <2>2, <2>3, <3>1, <3>2
    <2>9. Fit(w, u)'
        <3>1. Shaped(u)'
            <4>1. CASE t.op = "move" /\ Moved(t)
                <5>1. u.step = "drag" /\ t.id \notin u.rest
                    BY <2>1, <2>4, <4>1
                <5> QED BY <2>2, <2>4, <2>8, <4>1, <5>1 DEF Shaped, Written
            <4>2. CASE ~(t.op = "move" /\ Moved(t))
                <5>1. u.step = "commit"
                    BY <2>1, <2>4, <4>2
                <5> QED BY <2>2, <2>4, <2>8, <4>2, <5>1 DEF Shaped, Written, Moved
            <4> QED BY <4>1, <4>2
        <3>2. Settled(w, u)'
            BY <1>1, <2>1, <2>4, <2>6 DEF Fit, Settled
        <3>3. Placed(w, u)'
            BY <1>1, <2>1, <2>4, <2>6 DEF Fit, Placed
        <3>4. Writing(w, u)'
            <4>1. Own(u) = n
                BY <2>1, <2>4 DEF Own
            <4>2. t.op = "move" => t.id \in Nodes' /\ holder'[t.id] = w
                BY <1>1, <2>1, <2>6 DEF Fit, Settled
            <4>3. Written(u)' = {t.id}
                BY <2>8 DEF Written
            <4>4. n # Gone
                BY <2>3, RowFields
            <4> QED BY <2>2, <2>4, <2>8, <4>1, <4>2, <4>3, <4>4 DEF Writing, Own
        <3>5. Fresh(u)'
            BY <2>6, <2>8 DEF Fresh, Written
        <3>6. Thorough(u)'
            <4>1. Below(t.from)' = Below(t.from)
                BY <2>6 DEF Below
            <4>2. u.op = "move" /\ u.step = "drag" => u.rest = Below(t.from) \ {t.id}
                BY <2>1, <2>4
            <4> QED BY <2>4, <2>8, <4>1, <4>2 DEF Thorough, Written
        <3> QED BY <3>1, <3>2, <3>3, <3>4, <3>5, <3>6 DEF Fit
    <2>10. holder' \in [Id -> Worker \cup {Nobody}] /\ \A k \in Id : holder'[k] = holder[k]
        BY <1>1, <2>1 DEF Typed, TypeOK
    <2> QED BY <1>1, <2>1, <2>5, <2>8, <2>9, <2>10, GoesOn
<1> QED BY <1>2, <1>3

(* A row follows, unless it is no longer below. *)
LEMMA DragKeeps ==
    ASSUME IndInv, NEW w \in Worker, Drag(w)
    PROVE  IndInv'
<1>1. PICK t \in Txn : t = txn[w] /\ t.step = "drag" /\ Fit(w, t) /\ Typed
    BY AtAStep DEF Drag
<1>2. CASE Refuse(w)
    BY <1>2, RefuseKeeps
<1>3. CASE ~Refuse(w)
    <2>1. PICK d \in t.rest :
             /\ Free(w, d)
             /\ \/ /\ d \notin Below(t.from) /\ holder' = holder
                   /\ GoOn(w, [t EXCEPT !.rest = @ \ {d}])
                \/ /\ d \in Below(t.from)
                   /\ Len(Dragged(t, d).path) <= MaxDepth
                   /\ Rivals(w, d, Dragged(t, d)) = {} /\ ~KeyTaken(w, d, Dragged(t, d))
                   /\ Locking(w, d)
                   /\ GoOn(w, [t EXCEPT !.rest = @ \ {d}, !.writes[d] = Dragged(t, d)])
        <3>1. \E d \in t.rest :
                 /\ Free(w, d)
                 /\ \/ /\ d \notin Below(t.from)
                       /\ GoOn(w, [t EXCEPT !.rest = t.rest \ {d}]) /\ holder' = holder
                    \/ /\ d \in Below(t.from)
                       /\ Len(Dragged(t, d).path) <= MaxDepth
                       /\ Rivals(w, d, Dragged(t, d)) = {}
                       /\ \/ KeyTaken(w, d, Dragged(t, d)) /\ Refuse(w)
                          \/ /\ ~KeyTaken(w, d, Dragged(t, d))
                             /\ Locking(w, d)
                             /\ GoOn(w, [t EXCEPT !.rest = t.rest \ {d}, !.writes[d] = Dragged(t, d)])
            BY <1>1 DEF Drag, Dragged
        <3> QED BY <1>3, <3>1
    <2>2. t.op = "move" /\ d \in Id /\ d # t.id /\ t.id \in Written(t)
        BY <1>1, RequestFields DEF Fit, Shaped
    <2>3. PICK u : u = IF d \in Below(t.from)
                       THEN [t EXCEPT !.rest = @ \ {d}, !.writes[d] = Dragged(t, d)]
                       ELSE [t EXCEPT !.rest = @ \ {d}]
        OBVIOUS
    <2>4. /\ u.op = t.op /\ u.id = t.id /\ u.code = t.code
          /\ u.parent = t.parent /\ u.from = t.from /\ u.to = t.to
          /\ u.step = "drag" /\ u.rest = t.rest \ {d}
          /\ d \in Below(t.from) => u.writes = [t.writes EXCEPT ![d] = Dragged(t, d)]
          /\ d \notin Below(t.from) => u.writes = t.writes
        BY <1>1, <2>3 DEF Txn
    <2>5. GoOn(w, u)
        BY <2>1, <2>3
    <2>6. nodes' = nodes /\ Nodes' = Nodes /\ raced' = raced
        BY <2>5 DEF GoOn, Nodes
    <2>7. Below(t.from)' = Below(t.from)
        BY <2>6 DEF Below
    <2>8. /\ holder' \in [Id -> Worker \cup {Nobody}]
          /\ \A k \in Id : holder'[k] = holder[k] \/ (holder[k] = Nobody /\ holder'[k] = w)
          /\ \A k \in Id : holder[k] = w => holder'[k] = w
          /\ d \in Below(t.from) => holder'[d] = w
        <3>1. CASE d \in Below(t.from)
            BY <1>1, <2>1, <2>2, <3>1, LocksGrow
        <3>2. CASE d \notin Below(t.from)
            BY <1>1, <2>1, <3>2 DEF Typed, TypeOK
        <3> QED BY <3>1, <3>2
    <2>9. Settled(w, u)'
        BY <1>1, <2>4, <2>6, <2>8, RequestFields DEF Fit, Settled
    <2>10. Placed(w, u)'
        <3>1. Placed(w, t) /\ t.parent \in Id \cup {Root} /\ Nodes \subseteq Id
            BY <1>1, RequestFields DEF Fit, Nodes
        <3> QED BY <1>1, <2>4, <2>6, <2>8, <3>1 DEF Placed
    <2>11. CASE d \notin Below(t.from)
        <3>1. u \in Txn
            BY <2>3, <2>11 DEF Txn
        <3>2. Written(u) = Written(t) /\ u.writes = t.writes
            BY <2>4, <2>11 DEF Written
        <3>3. Fit(w, u)'
            <4>1. Shaped(u)'
                BY <1>1, <2>4, <3>2 DEF Fit, Shaped, Written
            <4>2. Writing(w, u)'
                BY <1>1, <2>4, <2>6, <2>7, <2>8, <3>2, RequestFields DEF Fit, Writing, Written, Own, Dragged
            <4>3. Fresh(u)'
                BY <1>1, <2>6, <3>2 DEF Fit, Fresh, Written
            <4>4. Thorough(u)'
                BY <1>1, <2>4, <2>6, <2>7, <2>11, <3>2 DEF Fit, Thorough, Written
            <4> QED BY <2>9, <2>10, <4>1, <4>2, <4>3, <4>4 DEF Fit
        <3>4. \A x \in Worker, s \in Txn : x # w /\ txn[x] = s => Separate(u, s)
            BY <1>1, <2>4, <3>1, <3>2, SeparateStays
        <3> QED BY <1>1, <2>5, <2>8, <3>1, <3>3, <3>4, GoesOn
    <2>12. CASE d \in Below(t.from)
        <3>1. PICK n : n = Dragged(t, d)
            OBVIOUS
        <3>2. d \in Nodes /\ nodes[d] \in Node
            BY <1>1, <2>12, RowFields DEF Below
        <3>3. n \in Node
            <4>1. n.parent = nodes[d].parent /\ n.path = Rebased(nodes[d].path, t.from, t.to)
                  /\ n = [nodes[d] EXCEPT !.path = Rebased(nodes[d].path, t.from, t.to)]
                BY <3>1, <3>2 DEF Dragged, Node
            <4>2. t.from \in Seq(Code) /\ t.to \in Seq(Code) /\ nodes[d].path \in Seq(Code)
                BY <3>2, PathsAreSequences, RequestFields, RowFields
            <4>3. t.to # <<>>
                BY <1>1, NewPathsAreBuilt
            <4>4. n.path \in Seq(Code) /\ n.path # <<>>
                BY <4>1, <4>2, <4>3, RebasedPaths
            <4>5. n.path \in Path
                BY <2>1, <2>12, <3>1, <4>4, PathsAreSequences
            <4> QED BY <3>2, <4>1, <4>5 DEF Node
        <3>4. u \in Txn
            <4>1. [t.writes EXCEPT ![d] = Dragged(t, d)] \in [Id -> Node \cup {Gone, Nobody}]
                BY <3>1, <3>3, <2>2, RequestFields
            <4> QED BY <2>3, <2>12, <4>1 DEF Txn
        <3>5. \A x \in Worker \ {w}, s \in Txn : txn[x] = s => d \notin Written(s)
            BY <2>1, <3>2, OnlyHoldersWrite
        <3>6. u.writes = [t.writes EXCEPT ![d] = n] /\ Rivals(w, d, n) = {} /\ ~KeyTaken(w, d, n)
            BY <2>1, <2>4, <2>12, <3>1
        <3>7. /\ Fresh(u)
              /\ \A x \in Worker, s \in Txn : x # w /\ txn[x] = s => Separate(u, s)
              /\ Written(u) = Written(t) \cup {d}
              /\ \A k \in Id : u.writes[k] = IF k = d THEN n ELSE t.writes[k]
            <4>1. txn[w] = t /\ u.op = t.op /\ u.id = t.id /\ d \in Id
                BY <1>1, <2>2, <2>4
            <4>2. \A k \in Id : u.writes[k] = IF k = d THEN n ELSE t.writes[k]
                BY <3>6, RequestFields
            <4>3. Rivals(w, d, n) = {} /\ ~KeyTaken(w, d, n)
                BY <3>6
            <4>4. /\ Fresh(u)
                  /\ \A x \in Worker, s \in Txn : x # w /\ txn[x] = s => Separate(u, s)
                  /\ Written(u) = Written(t) \cup {d}
                BY <3>3, <3>4, <3>5, <4>1, <4>2, <4>3, WritesNewPath
            <4> QED BY <4>2, <4>4
        <3>8. Fit(w, u)'
            <4>1. Shaped(u)'
                BY <1>1, <2>2, <2>4, <3>7 DEF Fit, Shaped, Written
            <4>2. Writing(w, u)'
                <5> SUFFICES ASSUME NEW i \in Written(u)
                             PROVE  /\ i \in Nodes /\ holder'[i] = w /\ u.writes[i] # Gone
                                    /\ i = t.id => u.writes[i] = Own(u)
                                    /\ i # t.id => i \in Below(t.from) /\ u.writes[i] = Dragged(u, i)
                    BY <2>2, <2>4, <2>6, <2>7 DEF Writing, Written, Own, Dragged
                <5>1. Own(u) = Own(t) /\ Dragged(u, i) = Dragged(t, i) /\ i \in Id
                    BY <2>4, RequestFields, <3>4 DEF Own, Dragged
                <5>2. CASE i = d
                    BY <2>2, <2>8, <2>12, <3>1, <3>2, <3>3, <3>7, <5>1, <5>2, RowFields
                <5>3. CASE i # d
                    <6>1. i \in Written(t) /\ u.writes[i] = t.writes[i]
                        BY <3>7, <5>1, <5>3
                    <6>2. /\ i \in Nodes /\ holder[i] = w /\ t.writes[i] # Gone
                          /\ i = t.id => t.writes[i] = Own(t)
                          /\ i # t.id => i \in Below(t.from) /\ t.writes[i] = Dragged(t, i)
                        BY <1>1, <2>2, <6>1 DEF Fit, Writing
                    <6> QED BY <2>8, <5>1, <6>1, <6>2
                <5> QED BY <5>2, <5>3
            <4>3. Fresh(u)'
                BY <2>6, <3>7 DEF Fresh, Written
            <4>4. Thorough(u)'
                BY <1>1, <2>4, <2>6, <2>7, <3>7 DEF Fit, Thorough, Written
            <4> QED BY <2>9, <2>10, <4>1, <4>2, <4>3, <4>4 DEF Fit
        <3> QED BY <1>1, <2>4, <2>5, <2>8, <3>4, <3>7, <3>8, GoesOn
    <2> QED BY <2>11, <2>12
<1> QED BY <1>2, <1>3

(* A delete reads on, locking a row or none. *)
LEMMA DeleteReadsOn ==
    ASSUME IndInv, NEW w \in Worker, NEW t \in Txn, txn[w] = t, t.op = "delete", t.step # "self",
           NEW u \in Txn, GoOn(w, u), u.op = t.op, u.id = t.id, u.from = t.from,
           u.writes = t.writes, u.step \in {"lock", "erase"}, u.step = "lock" => t.step # "erase",
           \/ holder' = holder
           \/ \E d \in Id : Free(w, d) /\ Locking(w, d)
    PROVE  IndInv'
<1>1. Typed /\ Fit(w, t) /\ nodes' = nodes /\ Nodes' = Nodes
    BY DEF IndInv, RequestsFit, GoOn, Nodes
<1>2. /\ holder' \in [Id -> Worker \cup {Nobody}]
      /\ \A k \in Id : holder'[k] = holder[k] \/ (holder[k] = Nobody /\ holder'[k] = w)
      /\ \A k \in Id : holder[k] = w => holder'[k] = w
    <2>1. CASE holder' = holder
        BY <1>1, <2>1 DEF Typed, TypeOK
    <2>2. CASE \E d \in Id : Free(w, d) /\ Locking(w, d)
        BY <1>1, <2>2, LocksGrow
    <2> QED BY <2>1, <2>2
<1>3. Written(u) = Written(t)
    BY DEF Written
<1>4. Fit(w, u)'
    <2>1. Shaped(u)'
        BY <1>1, <1>3 DEF Fit, Shaped, Written
    <2>2. Settled(w, u)' /\ Placed(w, u)'
        BY <1>1, <1>2, RequestFields DEF Fit, Settled, Placed
    <2>3. Writing(w, u)'
        BY <1>1, <1>2, <1>3, RequestFields DEF Fit, Writing, Written
    <2>4. Fresh(u)' /\ Thorough(u)'
        BY <1>1, <1>3 DEF Fit, Fresh, Thorough, Written
    <2> QED BY <2>1, <2>2, <2>3, <2>4 DEF Fit
<1>5. \A x \in Worker, s \in Txn : x # w /\ txn[x] = s => Separate(u, s)
    BY SeparateStays
<1> QED BY <1>2, <1>4, <1>5, GoesOn

(* The rows below are read .. *)
LEMMA ScanTreeKeeps ==
    ASSUME IndInv, NEW w \in Worker, ScanTree(w)
    PROVE  IndInv'
<1>1. PICK t \in Txn : t = txn[w] /\ t.step = "scan" /\ Fit(w, t) /\ Typed
    BY AtAStep DEF ScanTree
<1>2. PICK u : u = [t EXCEPT !.rest = Below(t.from), !.step = "lock"]
    OBVIOUS
<1>3. t.op = "delete"
    BY <1>1, RequestFields DEF Fit, Shaped
<1>4. /\ u.op = t.op /\ u.id = t.id /\ u.from = t.from /\ u.writes = t.writes
      /\ u.step = "lock"
    BY <1>2 DEF Txn
<1>5. u \in Txn
    <2>1. Below(t.from) \in SUBSET Id
        BY DEF Below, Nodes
    <2> QED BY <1>2, <2>1 DEF Txn
<1>6. GoOn(w, u) /\ holder' = holder
    BY <1>1, <1>2 DEF ScanTree
<1> QED BY <1>1, <1>3, <1>4, <1>5, <1>6, DeleteReadsOn

(* .. and locked one by one .. *)
LEMMA LockTreeKeeps ==
    ASSUME IndInv, NEW w \in Worker, LockTree(w)
    PROVE  IndInv'
<1>1. PICK t \in Txn : t = txn[w] /\ t.step = "lock" /\ Fit(w, t) /\ Typed
    BY AtAStep DEF LockTree
<1>2. PICK d \in t.rest : /\ Free(w, d)
                          /\ GoOn(w, [t EXCEPT !.rest = @ \ {d}])
                          /\ IF d \in Below(t.from) THEN Locking(w, d) ELSE holder' = holder
    BY <1>1 DEF LockTree
<1>3. PICK u : u = [t EXCEPT !.rest = @ \ {d}]
    OBVIOUS
<1>4. t.op = "delete" /\ d \in Id
    BY <1>1, RequestFields DEF Fit, Shaped
<1>5. /\ u.op = t.op /\ u.id = t.id /\ u.from = t.from /\ u.writes = t.writes
      /\ u.step = "lock"
    BY <1>1, <1>3 DEF Txn
<1>6. u \in Txn
    BY <1>3 DEF Txn
<1>7. GoOn(w, u)
    BY <1>2, <1>3
<1>8. \/ holder' = holder
      \/ \E k \in Id : Free(w, k) /\ Locking(w, k)
    BY <1>2, <1>4
<1> QED BY <1>1, <1>4, <1>5, <1>6, <1>7, <1>8, DeleteReadsOn

(* .. before they are read once more .. *)
LEMMA ScanDeleteKeeps ==
    ASSUME IndInv, NEW w \in Worker, ScanDelete(w)
    PROVE  IndInv'
<1>1. PICK t \in Txn : t = txn[w] /\ t.step = "lock" /\ Fit(w, t) /\ Typed
    BY AtAStep DEF ScanDelete
<1>2. PICK u : u = [t EXCEPT !.rest = Below(t.from), !.step = "erase"]
    OBVIOUS
<1>3. t.op = "delete"
    BY <1>1, RequestFields DEF Fit, Shaped
<1>4. /\ u.op = t.op /\ u.id = t.id /\ u.from = t.from /\ u.writes = t.writes
      /\ u.step = "erase"
    BY <1>2 DEF Txn
<1>5. u \in Txn
    <2>1. Below(t.from) \in SUBSET Id
        BY DEF Below, Nodes
    <2> QED BY <1>2, <2>1 DEF Txn
<1>6. GoOn(w, u) /\ holder' = holder
    BY <1>1, <1>2 DEF ScanDelete
<1> QED BY <1>1, <1>3, <1>4, <1>5, <1>6, DeleteReadsOn

(* .. and removed, each as it is by then. *)
LEMMA EraseNodeKeeps ==
    ASSUME IndInv, NEW w \in Worker, EraseNode(w)
    PROVE  IndInv'
<1>1. PICK t \in Txn : t = txn[w] /\ t.step = "erase" /\ Fit(w, t) /\ Typed
    BY AtAStep DEF EraseNode
<1>2. PICK d \in t.rest :
         /\ Free(w, d)
         /\ \/ /\ d \notin Below(t.from) /\ holder' = holder
               /\ GoOn(w, [t EXCEPT !.rest = @ \ {d}])
            \/ /\ d \in Below(t.from) /\ Locking(w, d)
               /\ GoOn(w, [t EXCEPT !.rest = @ \ {d}, !.writes[d] = Gone])
    BY <1>1 DEF EraseNode
<1>3. t.op = "delete" /\ d \in Id
    BY <1>1, RequestFields DEF Fit, Shaped
<1>4. CASE /\ d \notin Below(t.from) /\ holder' = holder
           /\ GoOn(w, [t EXCEPT !.rest = @ \ {d}])
    <2>1. PICK u : u = [t EXCEPT !.rest = @ \ {d}]
        OBVIOUS
    <2>2. /\ u.op = t.op /\ u.id = t.id /\ u.from = t.from /\ u.writes = t.writes
          /\ u.step = "erase"
        BY <1>1, <2>1 DEF Txn
    <2>3. u \in Txn
        BY <2>1 DEF Txn
    <2>4. GoOn(w, u) /\ holder' = holder
        BY <1>4, <2>1
    <2> QED BY <1>1, <1>3, <2>2, <2>3, <2>4, DeleteReadsOn
<1>5. CASE /\ d \in Below(t.from) /\ Locking(w, d)
           /\ GoOn(w, [t EXCEPT !.rest = @ \ {d}, !.writes[d] = Gone])
    <2>1. PICK u : u = [t EXCEPT !.rest = @ \ {d}, !.writes[d] = Gone]
        OBVIOUS
    <2>2. /\ u.op = t.op /\ u.id = t.id /\ u.from = t.from /\ u.step = "erase"
          /\ u.writes = [t.writes EXCEPT ![d] = Gone]
        BY <1>1, <2>1 DEF Txn
    <2>3. u \in Txn
        <3>1. [t.writes EXCEPT ![d] = Gone] \in [Id -> Node \cup {Gone, Nobody}]
            BY RequestFields
        <3> QED BY <2>1, <3>1 DEF Txn
    <2>4. GoOn(w, u) /\ nodes' = nodes /\ Nodes' = Nodes
        BY <1>5, <2>1 DEF GoOn, Nodes
    <2>5. \A k \in Id : u.writes[k] = IF k = d THEN Gone ELSE t.writes[k]
        BY <2>2, RequestFields
    <2>6. Written(u) = Written(t) \cup {d}
        BY <1>3, <2>5, RowFields DEF Written
    <2>7. \A i \in Written(u) : u.writes[i] = Gone
        BY <1>1, <1>3, <2>5, <2>6, RequestFields DEF Fit, Writing
    <2>8. /\ holder' \in [Id -> Worker \cup {Nobody}]
          /\ \A k \in Id : holder'[k] = holder[k] \/ (holder[k] = Nobody /\ holder'[k] = w)
          /\ \A k \in Id : holder[k] = w => holder'[k] = w
          /\ holder'[d] = w
        BY <1>1, <1>2, <1>3, <1>5, LocksGrow
    <2>9. Fit(w, u)'
        <3>1. Shaped(u)'
            BY <1>3, <2>2 DEF Shaped
        <3>2. Settled(w, u)' /\ Placed(w, u)'
            BY <1>1, <2>2, <2>4, <2>8, RequestFields DEF Fit, Settled, Placed
        <3>3. Writing(w, u)'
            <4> SUFFICES ASSUME NEW i \in Written(u)
                         PROVE  i \in Nodes /\ holder'[i] = w
                BY <1>3, <2>2, <2>4, <2>7 DEF Writing, Written
            <4>1. CASE i = d
                BY <1>5, <2>8, <4>1 DEF Below
            <4>2. CASE i # d
                BY <1>1, <1>3, <2>6, <2>8, <4>2, RequestFields DEF Fit, Writing
            <4> QED BY <4>1, <4>2
        <3>4. Fresh(u)' /\ Thorough(u)'
            BY <1>3, <2>2, <2>7, RowFields DEF Fresh, Thorough, Written
        <3> QED BY <3>1, <3>2, <3>3, <3>4 DEF Fit
    <2>10. ASSUME NEW x \in Worker, NEW s \in Txn, x # w, txn[x] = s
           PROVE  Separate(u, s)
        <3>1. Separate(t, s)
            BY <1>1, <2>10 DEF IndInv, Apart
        <3> QED BY <1>3, <2>2, <2>7, <3>1, RowFields DEF Separate
    <2> QED BY <1>1, <2>2, <2>3, <2>4, <2>8, <2>9, <2>10, GoesOn
<1> QED BY <1>2, <1>4, <1>5

-----------------------------------------------------------------------------
(* Commits. *)

(* The table after a commit. *)
LEMMA Committed ==
    ASSUME IndInv, NEW w \in Worker, NEW t \in Txn, txn[w] = t, CommitWrites(w)
    PROVE  /\ nodes' \in [Id -> Node \cup {Unused, Gone}]
           /\ \A i \in Id : nodes'[i] = IF i \in Written(t) THEN t.writes[i] ELSE nodes[i]
           /\ Nodes' = {i \in Id : IF i \in Written(t) THEN IsNode(t.writes[i]) ELSE i \in Nodes}
<1>1. nodes' = [i \in Id |-> Seen(w, i)]
    BY DEF CommitWrites
<1>2. \A i \in Id : nodes'[i] = IF i \in Written(t) THEN t.writes[i] ELSE nodes[i]
    BY <1>1 DEF Seen
<1>3. ASSUME NEW i \in Id PROVE Seen(w, i) \in Node \cup {Unused, Gone}
    <2>1. nodes[i] \in Node \cup {Unused, Gone}
        BY DEF IndInv, Typed, TypeOK
    <2> QED BY <2>1, RequestFields DEF Seen
<1>4. nodes' \in [Id -> Node \cup {Unused, Gone}]
    BY <1>1, <1>3
<1>5. Nodes' = {i \in Id : IF i \in Written(t) THEN IsNode(t.writes[i]) ELSE i \in Nodes}
    BY <1>2 DEF Nodes
<1> QED BY <1>2, <1>4, <1>5

(* A row another request has locked, and a new row of its own, is not written. *)
LEMMA OthersRowsStay ==
    ASSUME IndInv, NEW w \in Worker, NEW t \in Txn, txn[w] = t, CommitWrites(w),
           NEW x \in Worker \ {w}, NEW s \in Txn, txn[x] = s,
           NEW i \in Id,
           (i \in Nodes /\ holder[i] = x) \/ (s.op = "create" /\ s.id = i)
    PROVE  i \notin Written(t) /\ nodes'[i] = nodes[i] /\ (i \in Nodes' <=> i \in Nodes)
<1>1. Writing(w, t) /\ Settled(w, t) /\ Separate(t, s) /\ Settled(x, s)
    BY DEF IndInv, RequestsFit, Fit, Apart
<1>2. i \notin Written(t)
    <2>1. CASE i \in Nodes /\ holder[i] = x
        <3>1. nodes[i] # Unused
            BY <2>1 DEF Nodes, IsNode
        <3> QED BY <1>1, <2>1, <3>1 DEF Writing, Settled
    <2>2. CASE s.op = "create" /\ s.id = i
        <3>1. nodes[i] = Unused /\ i \notin Nodes
            BY <1>1, <2>2 DEF Settled, Nodes, IsNode
        <3> QED BY <1>1, <2>2, <3>1 DEF Writing, Separate
    <2> QED BY <2>1, <2>2
<1> QED BY <1>2, Committed

(* So what the other requests rely on stays. *)
LEMMA CommitLeavesOthers ==
    ASSUME IndInv, NEW w \in Worker, NEW t \in Txn, txn[w] = t, CommitWrites(w),
           NEW x \in Worker \ {w}, NEW s \in Txn, txn[x] = s
    PROVE  Fit(x, s)'
<1>1. /\ Fit(x, s) /\ Separate(t, s) /\ Typed /\ raced' = raced
      /\ \A i \in Id : holder[i] = x => holder'[i] = x
    BY DEF IndInv, RequestsFit, Apart, CommitWrites, End
<1>2. s.id \in Id /\ s.parent \in Id \cup {Root} /\ Written(s) \subseteq Id /\ Nodes \subseteq Id
    BY RequestFields DEF Nodes
<1>3. ASSUME NEW i \in Id, (i \in Nodes /\ holder[i] = x) \/ (s.op = "create" /\ s.id = i)
      PROVE  nodes'[i] = nodes[i] /\ (i \in Nodes' <=> i \in Nodes)
    BY <1>3, OthersRowsStay
<1>4. Shaped(s)'
    BY <1>1 DEF Fit, Shaped, Written
<1>5. Settled(x, s)'
    BY <1>1, <1>2, <1>3 DEF Fit, Settled
<1>6. Placed(x, s)'
    BY <1>1, <1>2, <1>3 DEF Fit, Placed
<1>7. Writing(x, s)'
    <2> SUFFICES ASSUME NEW i \in Written(s)
                 PROVE  /\ (s.op = "create" /\ i = s.id) \/ (i \in Nodes' /\ holder'[i] = x)
                        /\ s.op = "delete" <=> s.writes[i] = Gone
                        /\ s.op # "delete" /\ i = s.id => s.writes[i] = Own(s)
                        /\ s.op # "delete" /\ i # s.id =>
                              s.op = "move" /\ i \in Below(s.from)' /\ s.writes[i] = Dragged(s, i)'
        BY DEF Writing, Written, Own
    <2>1. /\ (s.op = "create" /\ i = s.id) \/ (i \in Nodes /\ holder[i] = x)
          /\ s.op = "delete" <=> s.writes[i] = Gone
          /\ s.op # "delete" /\ i = s.id => s.writes[i] = Own(s)
          /\ s.op # "delete" /\ i # s.id =>
                s.op = "move" /\ i \in Below(s.from) /\ s.writes[i] = Dragged(s, i)
        BY <1>1 DEF Fit, Writing
    <2>2. i \in Id /\ nodes'[i] = nodes[i] /\ (i \in Nodes' <=> i \in Nodes)
        BY <1>2, <1>3, <2>1
    <2>3. i \in Below(s.from) => i \in Below(s.from)'
        BY <2>2 DEF Below
    <2>4. Dragged(s, i)' = Dragged(s, i)
        BY <2>2 DEF Dragged
    <2> QED BY <1>1, <2>1, <2>2, <2>3, <2>4
<1>8. Fresh(s)'
    <2> SUFFICES ASSUME NEW i \in Written(s), NEW k \in Id, i # k, IsNode(s.writes[i])
                 PROVE  /\ k \notin Written(s) /\ k \in Nodes' => nodes'[k].path # s.writes[i].path
                        /\ k \in Written(s) /\ IsNode(s.writes[k]) => s.writes[k].path # s.writes[i].path
        BY DEF Fresh, Written
    <2>1. /\ k \notin Written(s) /\ k \in Nodes => nodes[k].path # s.writes[i].path
          /\ k \in Written(s) /\ IsNode(s.writes[k]) => s.writes[k].path # s.writes[i].path
        BY <1>1 DEF Fit, Fresh
    <2>2. k \in Written(t) /\ IsNode(t.writes[k]) => t.writes[k].path # s.writes[i].path
        BY <1>1 DEF Separate
    <2>3. /\ nodes'[k] = IF k \in Written(t) THEN t.writes[k] ELSE nodes[k]
          /\ k \in Nodes' <=> IF k \in Written(t) THEN IsNode(t.writes[k]) ELSE k \in Nodes
        BY Committed
    <2> QED BY <2>1, <2>2, <2>3
<1>9. Thorough(s)'
    BY <1>1 DEF Separate, Thorough
<1> QED BY <1>4, <1>5, <1>6, <1>7, <1>8, <1>9 DEF Fit

(* And no two rows get one path. *)
LEMMA CommitKeepsUnique ==
    ASSUME IndInv, NEW w \in Worker, NEW t \in Txn, txn[w] = t, CommitWrites(w)
    PROVE  UniquePaths'
<1> SUFFICES ASSUME NEW i \in Nodes', NEW k \in Nodes', i # k
             PROVE  nodes'[i].path # nodes'[k].path
    BY DEF UniquePaths
<1>1. /\ i \in Id /\ k \in Id
      /\ nodes'[i] = IF i \in Written(t) THEN t.writes[i] ELSE nodes[i]
      /\ nodes'[k] = IF k \in Written(t) THEN t.writes[k] ELSE nodes[k]
      /\ IF i \in Written(t) THEN IsNode(t.writes[i]) ELSE i \in Nodes
      /\ IF k \in Written(t) THEN IsNode(t.writes[k]) ELSE k \in Nodes
    BY Committed
<1>2. Fresh(t) /\ UniquePaths
    BY DEF IndInv, RequestsFit, Fit
<1> QED BY <1>1, <1>2 DEF Fresh, UniquePaths

(* What a create or a move has written when it commits. *)
LEMMA WrittenRows ==
    ASSUME IndInv, NEW w \in Worker, NEW t \in Txn, txn[w] = t, CommitWrites(w),
           t.step \in {"drag", "commit"}
    PROVE  /\ t.op \in {"create", "move"} /\ t.id \in Written(t) /\ t.id \in Id
           /\ t.writes[t.id] = Own(t) /\ t.code \in Code
           /\ Nodes' = Nodes \cup {t.id}
           /\ nodes'[t.id].parent = t.parent /\ nodes'[t.id].path = t.to
           /\ t.op = "create" => Written(t) = {t.id} /\ t.id \notin Nodes
           /\ t.op = "move" => t.id \in Nodes /\ t.from = nodes[t.id].path
           /\ \A i \in Written(t) \ {t.id} :
                 i \in Below(t.from) /\ t.op = "move" /\ nodes'[i] = Dragged(t, i)
           /\ \A i \in Id \ Written(t) : nodes'[i] = nodes[i]
<1>1. Fit(w, t) /\ Typed
    BY DEF IndInv, RequestsFit
<1>2. t.op \in {"create", "move"} /\ t.code \in Code /\ t.to # <<>>
    BY <1>1, NewPathsAreBuilt
<1>3. t.id \in Written(t) /\ t.id \in Id
    BY <1>1, RequestFields DEF Fit, Shaped
<1>4. t.writes[t.id] = Own(t)
    BY <1>1, <1>2, <1>3 DEF Fit, Writing
<1>5. t.op = "create" => Written(t) = {t.id} /\ t.id \notin Nodes
    BY <1>1, <1>2 DEF Fit, Shaped, Settled, Nodes, IsNode
<1>6. t.op = "move" => t.id \in Nodes /\ t.from = nodes[t.id].path
    BY <1>1 DEF Fit, Settled
<1>7. ASSUME NEW i \in Written(t) \ {t.id}
      PROVE  i \in Id /\ i \in Below(t.from) /\ t.op = "move" /\ t.writes[i] = Dragged(t, i) /\ i \in Nodes
    BY <1>1, <1>2, RequestFields DEF Fit, Writing, Below
<1>8. \A i \in Written(t) : IsNode(t.writes[i])
    BY <1>1, <1>2, RequestFields, RowFields DEF Fit, Writing
<1>9. Nodes' = Nodes \cup {t.id}
    <2>1. Nodes' = {i \in Id : IF i \in Written(t) THEN IsNode(t.writes[i]) ELSE i \in Nodes}
        BY Committed
    <2>2. Nodes \subseteq Id
        BY DEF Nodes
    <2> QED BY <1>3, <1>7, <1>8, <2>1, <2>2
<1>10. \A i \in Id : nodes'[i] = IF i \in Written(t) THEN t.writes[i] ELSE nodes[i]
    BY Committed
<1>11. nodes'[t.id].parent = t.parent /\ nodes'[t.id].path = t.to
    <2>1. nodes'[t.id] = Own(t)
        BY <1>3, <1>4, <1>10
    <2> QED BY <2>1 DEF Own
<1>12. \A i \in Written(t) \ {t.id} :
          i \in Below(t.from) /\ t.op = "move" /\ nodes'[i] = Dragged(t, i)
    BY <1>7, <1>10
<1>13. \A i \in Id \ Written(t) : nodes'[i] = nodes[i]
    BY <1>10
<1> QED BY <1>2, <1>3, <1>4, <1>5, <1>6, <1>9, <1>11, <1>12, <1>13

(* A create or a move finds the parent where it left it. *)
LEMMA CommitFindsParent ==
    ASSUME IndInv, NEW w \in Worker, NEW t \in Txn, txn[w] = t, CommitWrites(w),
           t.step \in {"drag", "commit"}
    PROVE  \/ t.parent = Root /\ Front(t.to) = <<>>
           \/ /\ t.parent \in Nodes /\ t.parent # t.id /\ nodes'[t.parent] = nodes[t.parent]
              /\ Front(t.to) = nodes[t.parent].path
<1>1. Placed(w, t) /\ Typed
    BY DEF IndInv, RequestsFit, Fit
<1>2. t.code \in Code
    BY WrittenRows
<1>3. CASE t.parent = Root /\ t.to = <<t.code>>
    <2>1. <<>> \in Path \cup {<<>>} /\ <<t.code>> = Append(<<>>, t.code)
        OBVIOUS
    <2>2. Front(Append(<<>>, t.code)) = <<>>
        BY <1>2, <2>1, BuiltPaths
    <2> QED BY <1>3, <2>1, <2>2
<1>4. CASE /\ t.parent \in Nodes /\ t.parent # t.id /\ t.to = Append(nodes[t.parent].path, t.code)
           /\ t.op = "move" => ~Under(nodes[t.parent].path, t.from)
    <2>1. Front(t.to) = nodes[t.parent].path
        <3>1. nodes[t.parent].path \in Path \cup {<<>>}
            BY <1>1, <1>4, RowFields
        <3> QED BY <1>2, <1>4, <3>1, BuiltPaths
    <2>2. t.parent \notin Written(t)
        <3> SUFFICES ASSUME t.parent \in Written(t) \ {t.id} PROVE FALSE
            BY <1>4
        <3> QED BY <1>4, WrittenRows DEF Below
    <2>3. t.parent \in Id \ Written(t)
        BY <1>4, <2>2 DEF Nodes
    <2> QED BY <1>4, <2>1, <2>3, WrittenRows
<1> QED BY <1>1, <1>3, <1>4 DEF Placed

(* No row is left without its parent .. *)
LEMMA CommitKeepsParents ==
    ASSUME IndInv, NEW w \in Worker, NEW t \in Txn, txn[w] = t, CommitWrites(w),
           t.step \in {"drag", "commit"}
    PROVE  ParentsExist'
<1> SUFFICES ASSUME NEW i \in Nodes' PROVE nodes'[i].parent \in Nodes' \cup {Root}
    BY DEF ParentsExist
<1>1. Nodes' = Nodes \cup {t.id} /\ ParentsExist /\ Typed
    BY WrittenRows DEF IndInv
<1>2. CASE i = t.id
    <2>1. nodes'[i].parent = t.parent
        BY <1>2, WrittenRows
    <2> QED BY <1>1, <2>1, CommitFindsParent
<1>3. CASE i # t.id
    <2>1. i \in Nodes /\ nodes[i] \in Node /\ i \in Id
        BY <1>1, <1>3, RowFields
    <2>2. nodes'[i].parent = nodes[i].parent
        <3>1. CASE i \in Written(t)
            <4>1. nodes'[i] = Dragged(t, i)
                BY <1>3, <3>1, WrittenRows
            <4> QED BY <2>1, <4>1 DEF Dragged, Node
        <3>2. CASE i \notin Written(t)
            <4>1. i \in Id \ Written(t)
                BY <2>1, <3>2
            <4> QED BY <4>1, WrittenRows
        <3> QED BY <3>1, <3>2
    <2> QED BY <1>1, <2>1, <2>2 DEF ParentsExist
<1> QED BY <1>2, <1>3

(* .. a create puts its row below the parent's path .. *)
LEMMA CreateKeepsPaths ==
    ASSUME IndInv, NEW w \in Worker, NEW t \in Txn, txn[w] = t, CommitWrites(w),
           t.step \in {"drag", "commit"}, t.op = "create", PathsFollowParents
    PROVE  PathsFollowParents'
<1> SUFFICES ASSUME NEW i \in Nodes'
             PROVE  Front(nodes'[i].path) = IF nodes'[i].parent \in Nodes'
                                            THEN nodes'[nodes'[i].parent].path ELSE <<>>
    BY DEF PathsFollowParents
<1>1. /\ Nodes' = Nodes \cup {t.id} /\ ParentsExist /\ Typed /\ t.id \notin Nodes /\ t.id \in Id
      /\ \A k \in Id \ {t.id} : nodes'[k] = nodes[k]
      /\ Nodes \subseteq Id /\ Root \notin Id
    BY WrittenRows, NullsAssumption DEF IndInv, Nodes
<1>2. CASE i = t.id
    <2>1. nodes'[i].parent = t.parent /\ nodes'[i].path = t.to
        BY <1>2, WrittenRows
    <2>2. CASE t.parent = Root /\ Front(t.to) = <<>>
        BY <1>1, <2>1, <2>2
    <2>3. CASE /\ t.parent \in Nodes /\ nodes'[t.parent] = nodes[t.parent]
               /\ Front(t.to) = nodes[t.parent].path
        BY <1>1, <2>1, <2>3
    <2> QED BY <2>2, <2>3, CommitFindsParent
<1>3. CASE i # t.id
    <2>1. i \in Nodes /\ nodes'[i] = nodes[i]
        BY <1>1, <1>3
    <2>2. Front(nodes[i].path) = IF nodes[i].parent \in Nodes
                                 THEN nodes[nodes[i].parent].path ELSE <<>>
        BY <2>1 DEF PathsFollowParents
    <2>3. nodes[i].parent \in Nodes \cup {Root}
        BY <1>1, <2>1 DEF ParentsExist
    <2>4. nodes[i].parent \in Nodes => nodes'[nodes[i].parent] = nodes[nodes[i].parent]
        BY <1>1
    <2> QED BY <1>1, <2>1, <2>2, <2>3, <2>4
<1> QED BY <1>2, <1>3

(* .. and a move, when nobody else runs, takes along all that is below. *)
LEMMA MoveKeepsPaths ==
    ASSUME IndInv, NEW w \in Worker, NEW t \in Txn, txn[w] = t, CommitWrites(w),
           t.step = "commit" \/ (t.step = "drag" /\ t.rest = {}), t.op = "move", ~raced,
           PathsFollowParents
    PROVE  PathsFollowParents'
<1> SUFFICES ASSUME NEW i \in Nodes'
             PROVE  Front(nodes'[i].path) = IF nodes'[i].parent \in Nodes'
                                            THEN nodes'[nodes'[i].parent].path ELSE <<>>
    BY DEF PathsFollowParents
<1>1. /\ Typed /\ UniquePaths /\ Fit(w, t) /\ t.step \in {"drag", "commit"}
    BY DEF IndInv, RequestsFit
<1>2. /\ t.id \in Written(t) /\ t.id \in Nodes /\ t.from = nodes[t.id].path /\ Nodes' = Nodes
      /\ nodes'[t.id].parent = t.parent /\ nodes'[t.id].path = t.to
      /\ Nodes \subseteq Id /\ Root \notin Nodes
    <2>1. Nodes \subseteq Id /\ Root \notin Nodes
        BY NullsAssumption DEF Nodes
    <2>2. /\ t.id \in Written(t) /\ t.id \in Nodes /\ t.from = nodes[t.id].path
          /\ Nodes' = Nodes \cup {t.id}
          /\ nodes'[t.id].parent = t.parent /\ nodes'[t.id].path = t.to
        BY <1>1, WrittenRows
    <2> QED BY <2>1, <2>2
<1>3. \A k \in Nodes : nodes[k] \in Node /\ nodes[k].path \in Seq(Code) /\ nodes[k].path # <<>>
    <2>1. \A p \in Path : p \in Seq(Code) /\ p # <<>>
        BY PathsAreSequences DEF Path
    <2> QED BY <1>1, <2>1, RowFields
<1>4. t.from \in Seq(Code) /\ t.from # <<>> /\ t.to \in Seq(Code)
    BY <1>2, <1>3, PathsAreSequences, RequestFields
<1>5. \A k \in Nodes \ {t.id} : nodes[k].path # t.from
    BY <1>1, <1>2 DEF UniquePaths
<1>6. \A k \in Nodes \ {t.id} : nodes'[k].parent = nodes[k].parent
    <2> TAKE k \in Nodes \ {t.id}
    <2>1. CASE k \in Written(t)
        <3>1. nodes'[k] = Dragged(t, k)
            BY <1>1, <2>1, WrittenRows
        <3> QED BY <1>3, <3>1 DEF Dragged, Node
    <2>2. CASE k \notin Written(t)
        <3>1. k \in Id \ Written(t)
            BY <1>2, <2>2
        <3> QED BY <1>1, <3>1, WrittenRows
    <2> QED BY <2>1, <2>2
<1>7. CASE i = t.id
    <2>1. CASE t.parent = Root /\ Front(t.to) = <<>>
        BY <1>2, <1>7, <2>1
    <2>2. CASE /\ t.parent \in Nodes /\ nodes'[t.parent] = nodes[t.parent]
               /\ Front(t.to) = nodes[t.parent].path
        BY <1>2, <1>7, <2>2
    <2> QED BY <1>1, <2>1, <2>2, CommitFindsParent
<1>8. CASE i # t.id
    <2>1. i \in Nodes \ {t.id} /\ nodes'[i].parent = nodes[i].parent
        BY <1>2, <1>6, <1>8
    <2>2. PICK q : q = nodes[i].parent
        OBVIOUS
    <2>3. Front(nodes[i].path) = IF q \in Nodes THEN nodes[q].path ELSE <<>>
        BY <2>1, <2>2 DEF PathsFollowParents
    <2>4. CASE t.step = "commit"
        <3>1. \A k \in Nodes : nodes'[k].path = nodes[k].path
            <4>1. Written(t) = {t.id} /\ t.to = t.from
                BY <1>1, <2>4 DEF Fit, Shaped
            <4>2. \A k \in Nodes \ {t.id} : nodes'[k] = nodes[k]
                BY <1>1, <1>2, <4>1, WrittenRows
            <4> QED BY <1>2, <4>1, <4>2
        <3> QED BY <1>2, <2>1, <2>2, <2>3, <3>1
    <2>5. CASE t.step = "drag" /\ t.rest = {}
        <3>1. \A k \in Nodes : k \in Written(t) <=> Under(nodes[k].path, t.from)
            <4>1. Below(t.from) \subseteq Written(t)
                BY <1>1, <2>5 DEF Fit, Thorough
            <4>2. Written(t) \subseteq Below(t.from)
                <5>1. t.id \in Below(t.from)
                    BY <1>2, <1>4, UnderFronts DEF Below
                <5> QED BY <1>1, <5>1, WrittenRows
            <4> QED BY <4>1, <4>2 DEF Below
        <3>2. \A k \in Nodes : k \in Written(t) =>
                                  nodes'[k].path = Rebased(nodes[k].path, t.from, t.to)
            <4> TAKE k \in Nodes
            <4> HAVE k \in Written(t)
            <4>1. CASE k = t.id
                <5>1. Rebased(t.from, t.from, t.to) = t.to
                    <6>1. SubSeq(t.from, Len(t.from) + 1, Len(t.from)) = <<>>
                        <7>1. Len(t.from) \in Nat
                            BY <1>4
                        <7> QED BY <7>1, SubSeqEmpty
                    <6> QED BY <1>4, <6>1, ConcatEmptySeq DEF Rebased
                <5> QED BY <1>2, <4>1, <5>1
            <4>2. CASE k # t.id
                <5>1. nodes'[k] = Dragged(t, k)
                    BY <1>1, <4>2, WrittenRows
                <5> QED BY <1>3, <5>1 DEF Dragged, Node
            <4> QED BY <4>1, <4>2
        <3>3. \A k \in Nodes : k \notin Written(t) => nodes'[k] = nodes[k]
            BY <1>1, <1>2, WrittenRows
        <3>4. CASE i \in Written(t)
            <4>1. /\ Under(Front(nodes[i].path), t.from)
                  /\ Front(Rebased(nodes[i].path, t.from, t.to)) =
                         Rebased(Front(nodes[i].path), t.from, t.to)
                <5>1. /\ nodes[i].path \in Seq(Code) /\ nodes[i].path # t.from
                      /\ Under(nodes[i].path, t.from)
                    BY <1>3, <1>5, <2>1, <3>1, <3>4
                <5> QED BY <1>4, <5>1, RebasedParents
            <4>2. q \in Nodes
                <5> SUFFICES ASSUME Under(<<>>, t.from) PROVE FALSE
                    BY <2>3, <4>1
                <5>1. Len(t.from) <= Len(<<>>)
                    BY DEF Under, IsPrefix
                <5> QED BY <1>4, <5>1, EmptySeq
            <4>3. q \in Written(t) /\ Front(nodes[i].path) = nodes[q].path
                BY <2>3, <3>1, <4>1, <4>2
            <4>4. nodes'[q].path = Rebased(nodes[q].path, t.from, t.to)
                BY <3>2, <4>2, <4>3
            <4> QED BY <1>2, <2>1, <2>2, <3>2, <3>4, <4>1, <4>2, <4>3, <4>4
        <3>5. CASE i \notin Written(t)
            <4>1. nodes'[i] = nodes[i]
                BY <2>1, <3>3, <3>5
            <4>2. q \in Nodes => q \notin Written(t)
                <5> SUFFICES ASSUME q \in Nodes, Under(Front(nodes[i].path), t.from) PROVE FALSE
                    BY <2>3, <3>1
                <5>1. Under(nodes[i].path, t.from)
                    BY <1>3, <1>4, <2>1, UnderFronts
                <5> QED BY <2>1, <3>1, <3>5, <5>1
            <4> QED BY <1>2, <2>1, <2>2, <2>3, <3>3, <4>1, <4>2
        <3> QED BY <3>4, <3>5
    <2> QED BY <2>4, <2>5
<1> QED BY <1>7, <1>8

(* The commit of a create or a move. *)
LEMMA CommitKeeps ==
    ASSUME IndInv, NEW w \in Worker, Commit(w)
    PROVE  IndInv'
<1>1. PICK t \in Txn : /\ t = txn[w] /\ CommitWrites(w)
                       /\ t.step = "commit" \/ (t.step = "drag" /\ t.rest = {})
    BY AtAStep DEF Commit
<1>2. t.step \in {"drag", "commit"} /\ End(w) /\ raced' = raced
    BY <1>1 DEF CommitWrites, End
<1>3. nodes' \in [Id -> Node \cup {Unused, Gone}]
    BY <1>1, Committed
<1>4. \A x \in Worker \ {w}, s \in Txn : txn[x] = s => Fit(x, s)'
    BY <1>1, CommitLeavesOthers
<1>5. UniquePaths' /\ ParentsExist'
    BY <1>1, <1>2, CommitKeepsUnique, CommitKeepsParents
<1>6. UnracedMovesKeepPaths'
    <2> SUFFICES ASSUME ~raced PROVE PathsFollowParents'
        BY <1>2 DEF UnracedMovesKeepPaths
    <2>1. PathsFollowParents
        BY DEF IndInv, UnracedMovesKeepPaths
    <2>2. CASE t.op = "create"
        BY <1>1, <1>2, <2>1, <2>2, CreateKeepsPaths
    <2>3. CASE t.op = "move"
        BY <1>1, <1>2, <2>1, <2>3, MoveKeepsPaths
    <2>4. t.op \in {"create", "move"}
        BY <1>1, <1>2, WrittenRows
    <2> QED BY <2>2, <2>3, <2>4
<1> QED BY <1>2, <1>3, <1>4, <1>5, <1>6, EndKeeps

(* The commit of a delete: it removes rows only, and with a row all of its *)
(* children; or it is refused.                                              *)
LEMMA FinishDeleteKeeps ==
    ASSUME IndInv, NEW w \in Worker, FinishDelete(w)
    PROVE  IndInv'
<1>1. PICK t \in Txn : t = txn[w] /\ t.step = "erase" /\ Fit(w, t) /\ Typed
    BY AtAStep DEF FinishDelete
<1>2. CASE Refuse(w)
    BY <1>2, RefuseKeeps
<1>3. CASE ~Refuse(w)
    <2>1. CommitWrites(w) /\ Orphans(t) = {}
        BY <1>1, <1>3 DEF FinishDelete
    <2>2. t.op = "delete"
        BY <1>1, RequestFields DEF Fit, Shaped
    <2>3. \A i \in Written(t) : t.writes[i] = Gone
        BY <1>1, <2>2 DEF Fit, Writing
    <2>4. /\ nodes' \in [Id -> Node \cup {Unused, Gone}]
          /\ Nodes' = Nodes \ Written(t)
          /\ \A i \in Nodes' : nodes'[i] = nodes[i]
        <3>1. Nodes' = Nodes \ Written(t)
            BY <1>1, <2>1, <2>3, Committed, RowFields DEF Nodes
        <3> QED BY <1>1, <2>1, <3>1, Committed DEF Nodes
    <2>5. \A i \in Nodes' : nodes[i].parent \in Nodes' \cup {Root}
        <3> SUFFICES ASSUME NEW i \in Nodes' PROVE nodes[i].parent \in Nodes' \cup {Root}
            OBVIOUS
        <3>1. nodes[i].parent \in Nodes \cup {Root}
            BY <2>4 DEF IndInv, ParentsExist
        <3>2. nodes[i].parent \notin Written(t)
            BY <2>1, <2>4 DEF Orphans
        <3> QED BY <2>4, <3>1, <3>2
    <2>6. ParentsExist' /\ UniquePaths'
        <3>1. ParentsExist'
            BY <2>4, <2>5 DEF ParentsExist
        <3>2. UniquePaths'
            BY <1>1, <2>1, CommitKeepsUnique
        <3> QED BY <3>1, <3>2
    <2>7. UnracedMovesKeepPaths'
        <3>1. PathsFollowParents => PathsFollowParents'
            <4> SUFFICES ASSUME PathsFollowParents, NEW i \in Nodes'
                         PROVE  Front(nodes'[i].path) = IF nodes'[i].parent \in Nodes'
                                                        THEN nodes'[nodes'[i].parent].path ELSE <<>>
                BY DEF PathsFollowParents
            <4>1. nodes'[i] = nodes[i] /\ i \in Nodes
                BY <2>4
            <4>2. Front(nodes[i].path) = IF nodes[i].parent \in Nodes
                                         THEN nodes[nodes[i].parent].path ELSE <<>>
                BY <4>1 DEF PathsFollowParents
            <4>3. nodes[i].parent \in Nodes <=> nodes[i].parent \in Nodes'
                <5>1. Root \notin Nodes
                    BY NullsAssumption DEF Nodes
                <5> QED BY <2>4, <2>5, <5>1
            <4> QED BY <2>4, <4>1, <4>2, <4>3
        <3>2. raced' = raced
            BY <2>1 DEF CommitWrites, End
        <3> QED BY <3>1, <3>2 DEF IndInv, UnracedMovesKeepPaths
    <2>8. \A x \in Worker \ {w}, s \in Txn : txn[x] = s => Fit(x, s)'
        BY <1>1, <2>1, CommitLeavesOthers
    <2>9. End(w)
        BY <2>1 DEF CommitWrites
    <2> QED BY <2>4, <2>6, <2>7, <2>8, <2>9, EndKeeps
<1> QED BY <1>2, <1>3

-----------------------------------------------------------------------------
(* The theorems. *)

(* Every step keeps what requests rely on. *)
LEMMA NextKeeps == IndInv /\ [Next]_vars => IndInv'
<1> SUFFICES ASSUME IndInv, [Next]_vars PROVE IndInv'
    OBVIOUS
<1>1. CASE UNCHANGED vars
    <2>1. nodes' = nodes /\ txn' = txn /\ holder' = holder /\ raced' = raced
        BY <1>1 DEF vars
    <2>2. Nodes' = Nodes
        BY <2>1 DEF Nodes
    <2>3. Typed'
        BY <2>1 DEF IndInv, Typed, TypeOK, Running
    <2>4. RequestsFit'
        <3> SUFFICES ASSUME NEW x \in Worker, NEW s \in Txn, txn[x] = s
                     PROVE  Fit(x, s)'
            BY <2>1 DEF RequestsFit
        <3>1. Fit(x, s) /\ Typed
            BY DEF IndInv, RequestsFit
        <3> QED BY <2>1, <3>1, FitStays
    <2>5. Apart'
        BY <2>1 DEF IndInv, Apart, Separate, Written
    <2>6. UniquePaths' /\ ParentsExist' /\ UnracedMovesKeepPaths'
        BY <2>1, <2>2
        DEF IndInv, UniquePaths, ParentsExist, UnracedMovesKeepPaths, PathsFollowParents
    <2> QED BY <2>3, <2>4, <2>5, <2>6 DEF IndInv
<1>2. CASE Next
    <2>1. PICK w \in Worker : BeginCreate(w) \/ BeginMove(w) \/ BeginDelete(w) \/ Continue(w)
        BY <1>2 DEF Next
    <2>2. Nodes \subseteq Id
        BY DEF Nodes
    <2>3. CASE BeginCreate(w)
        <3>1. PICK i \in Id, parent \in Nodes \cup {Root}, code \in Code :
                 /\ nodes[i] = Unused /\ \A x \in Worker : Running(x) => txn[x].id # i
                 /\ Begin(w, "create", i, parent, code)
            BY <2>3 DEF BeginCreate
        <3> QED BY <2>2, <3>1, BeginKeeps
    <2>4. CASE BeginMove(w)
        <3>1. PICK i \in Nodes, parent \in Nodes \cup {Root}, code \in Code :
                 Begin(w, "move", i, parent, code)
            BY <2>4 DEF BeginMove
        <3> QED BY <2>2, <3>1, BeginKeeps
    <2>5. CASE BeginDelete(w)
        <3>1. PICK i \in Nodes : Begin(w, "delete", i, Root, Nobody)
            BY <2>5 DEF BeginDelete
        <3> QED BY <2>2, <3>1, BeginKeeps
    <2>6. CASE LockSelf(w)
        BY <2>6, LockSelfKeeps
    <2>7. CASE ResolveParent(w)
        BY <2>7, ResolveParentKeeps
    <2>8. CASE WriteNode(w)
        BY <2>8, WriteNodeKeeps
    <2>9. CASE Drag(w)
        BY <2>9, DragKeeps
    <2>10. CASE Commit(w)
        BY <2>10, CommitKeeps
    <2>11. CASE ScanTree(w)
        BY <2>11, ScanTreeKeeps
    <2>12. CASE LockTree(w)
        BY <2>12, LockTreeKeeps
    <2>13. CASE ScanDelete(w)
        BY <2>13, ScanDeleteKeeps
    <2>14. CASE EraseNode(w)
        BY <2>14, EraseNodeKeeps
    <2>15. CASE FinishDelete(w)
        BY <2>15, FinishDeleteKeeps
    <2>16. CASE AbortDeadlocked(w)
        BY <2>16, RefuseKeeps DEF AbortDeadlocked
    <2> QED BY <2>1, <2>3, <2>4, <2>5, <2>6, <2>7, <2>8, <2>9, <2>10, <2>11, <2>12, <2>13,
               <2>14, <2>15, <2>16 DEF Continue
<1> QED BY <1>1, <1>2

(* What requests rely on holds in every reachable state. *)
THEOREM Inductive == Spec => []IndInv
<1>1. Init => IndInv
    BY InvHolds
<1>2. IndInv /\ [Next]_vars => IndInv'
    BY NextKeeps
<1> QED BY <1>1, <1>2, PTL DEF Spec

(* Rows, requests and locks have the types the code gives them. *)
THEOREM TypeCorrect == Spec => []TypeOK
<1>1. IndInv => TypeOK
    BY DEF IndInv, Typed
<1> QED BY <1>1, Inductive, PTL

(* However creates, moves and deletes interleave, no location is left below  *)
(* one that is gone: delete_location_tree reads what to remove off stored    *)
(* paths, which may be stale, and the foreign key of the parent column       *)
(* refuses the transaction when that leaves a child behind.                  *)
THEOREM NoChildIsLeftBehind == Spec => []ParentsExist
<1>1. IndInv => ParentsExist
    BY DEF IndInv
<1> QED BY <1>1, Inductive, PTL

(* The unique index on paths, with the waiting for uncommitted writes that   *)
(* goes with it, keeps two locations from one path.                          *)
THEOREM PathsAreUnique == Spec => []UniquePaths
<1>1. IndInv => UniquePaths
    BY DEF IndInv
<1> QED BY <1>1, Inductive, PTL

(* As long as no move overlaps another request, update_descendant_paths      *)
(* misses nothing: every path is the path of the parent and the own code,    *)
(* however many creates and deletes run at the same time.                    *)
THEOREM PathsFollowUnracedMoves == Spec => []UnracedMovesKeepPaths
<1>1. IndInv => UnracedMovesKeepPaths
    BY DEF IndInv
<1> QED BY <1>1, Inductive, PTL
=============================================================================
