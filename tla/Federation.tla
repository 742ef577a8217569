----------------------------- MODULE Federation -----------------------------
(***************************************************************************)
(* Pairing of nodes and the signed requests between their laboratories     *)
(* (backend/src/routes/federation).                                        *)
(*                                                                         *)
(* A pairing is one POST from the node of the requesting laboratory to the *)
(* node that issued a code.  Each side stores its half in one transaction; *)
(* the transactions take all their row locks by writing, in one order, so  *)
(* each is one step.  The two transactions are far from being one step:    *)
(* the accepting node commits first, and its answer can be lost.           *)
(*                                                                         *)
(* A request is authorised and signed at one node, may be delivered late   *)
(* or more than once, and is verified statement by statement at the other. *)
(* Cryptography is abstract: a signature is the secret it was made with,   *)
(* and covers the whole request.                                           *)
(***************************************************************************)
EXTENDS Integers, FiniteSets

CONSTANTS
    Laboratory, Node,
    Home,           \* the node of each laboratory
    Code, Pairing, Request,
    Partners,       \* the pairs <<l, r>> whose administrators pair l with r
    Starts,         \* where a behaviour starts and what may happen in it
    NoSecret,       \* no row about the other node
    Earlier,        \* the secret of a pairing before the behaviour starts
    Ttl,            \* federation.request_ttl_seconds
    TicksPerSecond, \* timestamps are whole seconds, the database's clock is finer
    Skew,           \* by how many seconds a sender's clock may be ahead
    MaxTime,        \* bound: the last tick
    MaxDeliveries   \* bound: how often the network delivers one request

ASSUME HomeAssumption == Home \in [Laboratory -> Node]
ASSUME PartnersAssumption == \* a node paired with itself is left out
    Partners \subseteq {p \in Laboratory \X Laboratory : Home[p[1]] # Home[p[2]]}
ASSUME TimeAssumption == /\ Ttl \in Nat /\ TicksPerSecond \in Nat \ {0}
                         /\ MaxTime \in Nat /\ MaxDeliveries \in Nat
                         /\ Skew \subseteq Int
ASSUME StartAssumption ==
    \A s \in Starts : /\ {s.codes, s.pairings, s.revokes, s.requests} \subseteq Nat
                      /\ s.trusted \subseteq Partners

VARIABLES
    code,      \* federation_pairing_codes
    peer,      \* federation_remote_nodes: the secret one node shares with another
    trust,     \* federation_laboratory_trusts: the half l keeps about r
    pairing,   \* the calls of create_trust
    request,   \* the calls of proxy_get and proxy_post
    delivery,  \* the calls of inbound_get and inbound_post they cause
    nonce,     \* federation_request_nonces: when the nonce of a request expires
    now,       \* the time, in ticks
    budget,    \* what may still happen, from Starts
    unsettled  \* node pairs whose last pairing did not run alone to its end

vars == <<code, peer, trust, pairing, request, delivery, nonce, now, budget, unsettled>>

Pair == {p \in Laboratory \X Laboratory : p[1] # p[2]}
Mirror(p) == <<p[2], p[1]>>
Nodes(p) == {Home[p[1]], Home[p[2]]}
Secret == Pairing \union {Earlier}
Unborn == [step |-> "unborn"]
NoNonce == -1
Attempt == Request \X (1 .. MaxDeliveries)

CodeRow == [step : {"open", "expired", "spent"}, lab : Laboratory]
PairingCall == [step : {"posted", "accepted", "stored", "failed"}, pair : Partners,
                code : Code, accepted : Laboratory, waiting : BOOLEAN, alone : BOOLEAN]
RequestCall == [step : {"authorized", "signed"}, pair : Pair, secret : Secret,
                at : Int]
DeliveryCall == [step : {"unborn", "node_read", "trusted", "swept", "recorded", "served",
                         "refused"},
                 secret : Secret \union {NoSecret}, at : Nat]

TypeOK ==
    /\ code \in [Code -> CodeRow \union {Unborn}]
    /\ peer \in [Node -> [Node -> Secret \union {NoSecret}]]
    /\ trust \in [Pair -> {"never", "active", "revoked"}]
    /\ pairing \in [Pairing -> PairingCall \union {Unborn}]
    /\ request \in [Request -> RequestCall \union {Unborn}]
    /\ delivery \in [Attempt -> DeliveryCall]
    /\ nonce \in [Request -> Nat \union {NoNonce}]
    /\ now \in 0 .. MaxTime
    /\ unsettled \subseteq {Nodes(p) : p \in Partners}

Init ==
    /\ budget \in Starts
    /\ code = [c \in Code |-> Unborn]
    /\ peer = [n \in Node |-> [m \in Node |->
                  IF \E p \in budget.trusted : Nodes(p) = {n, m}
                  THEN Earlier ELSE NoSecret]]
    /\ trust = [p \in Pair |->
                  IF {p, Mirror(p)} \intersect budget.trusted # {}
                  THEN "active" ELSE "never"]
    /\ pairing = [g \in Pairing |-> Unborn]
    /\ request = [r \in Request |-> Unborn]
    /\ delivery = [d \in Attempt |->
                     [step |-> "unborn", secret |-> NoSecret, at |-> 0]]
    /\ nonce = [r \in Request |-> NoNonce]
    /\ now = 0
    /\ unsettled = {}

-----------------------------------------------------------------------------
(* Pairing *)

Pairings == UNCHANGED <<request, delivery, nonce, now>>
Requests == UNCHANGED <<code, pairing, peer, trust, unsettled>>

(* create_pairing_code: a fresh code of fifteen minutes. *)
CreatePairingCode(c, l) ==
    /\ code[c] = Unborn
    /\ budget.codes > 0
    /\ budget' = [budget EXCEPT !.codes = @ - 1]
    /\ code' = [code EXCEPT ![c] = [step |-> "open", lab |-> l]]
    /\ UNCHANGED <<pairing, peer, trust, unsettled>>
    /\ Pairings

Expire(c) ==
    /\ code[c].step = "open"
    /\ code' = [code EXCEPT ![c].step = "expired"]
    /\ UNCHANGED <<pairing, peer, trust, unsettled, budget>>
    /\ Pairings

(* A pairing that can still change a node. *)
InFlight(g) == pairing[g].step = "posted" \/ (pairing[g].step = "accepted" /\ pairing[g].waiting)
Crossing(p) == {g \in Pairing : InFlight(g) /\ Nodes(pairing[g].pair) = Nodes(p)}

(* create_trust up to the POST: the checks read only, the secret is new. *)
PostPairing(g, p, c) ==
    /\ pairing[g] = Unborn
    /\ code[c] # Unborn
    /\ budget.pairings > 0
    /\ budget' = [budget EXCEPT !.pairings = @ - 1]
    /\ pairing' = [h \in Pairing |->
          CASE h = g -> [step |-> "posted", pair |-> p, code |-> c, accepted |-> p[2],
                         waiting |-> TRUE, alone |-> Crossing(p) = {}]
            [] h \in Crossing(p) -> [pairing[h] EXCEPT !.alone = FALSE]
            [] OTHER -> pairing[h]]
    /\ UNCHANGED <<code, peer, trust, unsettled>>
    /\ Pairings

(* consume_pairing_code finds the code only at the node that issued it. *)
Usable(g) == LET c == code[pairing[g].code]
             IN c.step = "open" /\ Home[c.lab] = Home[pairing[g].pair[2]]

\* Mutant: a node that is known already keeps its secret.
KeepFirst(n, m, secret) ==
    peer' = [peer EXCEPT ![n][m] = IF @ = NoSecret THEN secret ELSE @]

(* upsert_remote_node and upsert_trust: what is known already is refreshed,  *)
(* with one secret for all the trusts of two nodes.                          *)
Refresh(n, m, secret) == peer' = [peer EXCEPT ![n][m] = secret]
TrustAgain(p) == trust' = [trust EXCEPT ![p] = "active"]

(* accept_pairing. *)
AcceptPairing(g) ==
    LET issuer == code[pairing[g].code].lab
        requester == pairing[g].pair[1]
    IN /\ pairing[g].step = "posted"
       /\ Usable(g)
       /\ code' = [code EXCEPT ![pairing[g].code].step = "spent"]
       /\ Refresh(Home[issuer], Home[requester], g)
       /\ TrustAgain(<<issuer, requester>>)
       /\ pairing' = [pairing EXCEPT ![g].step = "accepted", ![g].accepted = issuer]
       /\ unsettled' = unsettled \union {{Home[issuer], Home[requester]}}
       /\ UNCHANGED budget
       /\ Pairings

(* A refused code, a failing transaction or a node that was not reached:     *)
(* accept_pairing commits nothing, the code included.                        *)
RefusePairing(g) ==
    /\ pairing[g].step = "posted"
    /\ pairing' = [pairing EXCEPT ![g].step = "failed"]
    /\ UNCHANGED <<code, peer, trust, unsettled, budget>>
    /\ Pairings

(* The connection breaks under the requester, who answers with a bad gateway;  *)
(* the POST may be on its way still, or executed already.                      *)
LoseReply(g) ==
    /\ InFlight(g) /\ pairing[g].waiting
    /\ pairing' = [pairing EXCEPT ![g].waiting = FALSE,
                                  ![g].step = IF @ = "posted" THEN @ ELSE "failed"]
    /\ UNCHANGED <<code, peer, trust, unsettled, budget>>
    /\ Pairings

(* The answer names another laboratory than the one asked for, or the local  *)
(* transaction fails: a pin in capital letters passes validate_tls_pin_value *)
(* and not the table's check, and base_url is unique.                        *)
FailStore(g) ==
    /\ pairing[g].step = "accepted" /\ pairing[g].waiting
    /\ pairing' = [pairing EXCEPT ![g].step = "failed"]
    /\ UNCHANGED <<code, peer, trust, unsettled, budget>>
    /\ Pairings

\* Mutant: the laboratory in the answer is not compared.
StorableAnyway(g) == pairing[g].step = "accepted" /\ pairing[g].waiting

(* create_trust from the answer on. *)
Storable(g) == /\ pairing[g].step = "accepted" /\ pairing[g].waiting
               /\ pairing[g].accepted = pairing[g].pair[2]
StoreTrust(g) ==
    LET p == pairing[g].pair
    IN /\ Storable(g)
       /\ Refresh(Home[p[1]], Home[p[2]], g)
       /\ TrustAgain(p)
       /\ pairing' = [pairing EXCEPT ![g].step = "stored"]
       /\ unsettled' = IF pairing[g].alone THEN unsettled \ {Nodes(p)} ELSE unsettled
       /\ UNCHANGED <<code, budget>>
       /\ Pairings

(* revoke_trust: this laboratory's half only; the other node is not told. *)
RevokeTrust(p) ==
    /\ trust[p] = "active"
    /\ budget.revokes > 0
    /\ budget' = [budget EXCEPT !.revokes = @ - 1]
    /\ trust' = [trust EXCEPT ![p] = "revoked"]
    /\ UNCHANGED <<code, pairing, peer, unsettled>>
    /\ Pairings

-----------------------------------------------------------------------------
(* Signed requests *)

Second(t) == t \div TicksPerSecond

(* authorize_proxy: the trust is read first, the remote node after it. *)
AuthorizeProxy(r, p) ==
    /\ request[r] = Unborn
    /\ budget.requests > 0
    /\ trust[p] = "active"
    /\ budget' = [budget EXCEPT !.requests = @ - 1]
    /\ request' = [request EXCEPT ![r] = [step |-> "authorized", pair |-> p,
                                          secret |-> Earlier, at |-> now]]
    /\ UNCHANGED <<delivery, nonce, now>> /\ Requests

(* signed_headers, with what fetch_remote_node read. *)
SignRequest(r) ==
    LET p == request[r].pair
        secret == peer[Home[p[1]]][Home[p[2]]]
    IN /\ request[r].step = "authorized"
       /\ secret # NoSecret
       /\ \E skew \in Skew :
             request' = [request EXCEPT ![r].step = "signed", ![r].secret = secret,
                                        ![r].at = Second(now) + skew]
       /\ UNCHANGED <<delivery, nonce, now, budget>> /\ Requests

Step(d, from, new) == /\ delivery[d].step = from
                      /\ delivery' = [delivery EXCEPT ![d] = new]
                      /\ UNCHANGED <<request, now, budget>> /\ Requests

(* verify_inbound_request: the clock, then the row of the sender's node. *)
InTime(r) == LET late == Second(now) - request[r].at IN late <= Ttl /\ -late <= Ttl
ReadNode(d) ==
    LET r == d[1]
        p == request[r].pair
        secret == peer[Home[p[2]]][Home[p[1]]]
    IN /\ request[r].step = "signed"
       /\ InTime(r)
       /\ secret # NoSecret
       /\ Step(d, "unborn", [step |-> "node_read", secret |-> secret, at |-> 0])
       /\ UNCHANGED nonce

ReadTrust(d) ==
    /\ delivery[d].step = "node_read"
    /\ trust[Mirror(request[d[1]].pair)] = "active"
    /\ delivery[d].secret = request[d[1]].secret
    /\ Step(d, "node_read", [delivery[d] EXCEPT !.step = "trusted"])
    /\ UNCHANGED nonce

(* A timestamp out of the window, an unknown node, no active trust, or a     *)
(* signature made with another secret.                                       *)
Rejected(d) ==
    LET r == d[1]
        p == request[r].pair
    IN CASE delivery[d].step = "unborn" ->
              ~InTime(r) \/ peer[Home[p[2]]][Home[p[1]]] = NoSecret
         [] delivery[d].step = "node_read" ->
              trust[Mirror(p)] # "active" \/ delivery[d].secret # request[r].secret
         [] OTHER -> FALSE
RefuseRequest(d) ==
    /\ request[d[1]].step = "signed"
    /\ Rejected(d)
    /\ Step(d, delivery[d].step, [delivery[d] EXCEPT !.step = "refused"])
    /\ UNCHANGED nonce

(* delete_expired_nonces, a transaction of its own. *)
SweepNonces(d) ==
    /\ Step(d, "trusted", [delivery[d] EXCEPT !.step = "swept"])
    /\ nonce' = [r \in Request |-> IF nonce[r] <= now THEN NoNonce ELSE nonce[r]]

\* Mutant: the insert of a nonce does nothing on conflict.
InsertAnyway(d) ==
    /\ delivery[d].step = "swept"
    /\ nonce' = [nonce EXCEPT ![d[1]] = now + Ttl * TicksPerSecond]
    /\ Step(d, "swept", [delivery[d] EXCEPT !.step = "recorded", !.at = now])

(* insert_nonce: the primary key refuses the second insert of a nonce. *)
InsertNonce(d) ==
    /\ delivery[d].step = "swept"
    /\ nonce[d[1]] = NoNonce
    /\ nonce' = [nonce EXCEPT ![d[1]] = now + Ttl * TicksPerSecond]
    /\ Step(d, "swept", [delivery[d] EXCEPT !.step = "recorded", !.at = now])

RefuseNonce(d) ==
    /\ nonce[d[1]] # NoNonce
    /\ Step(d, "swept", [delivery[d] EXCEPT !.step = "refused"])
    /\ UNCHANGED nonce

(* handle_inbound after the verification. *)
Respond(d) ==
    /\ Step(d, "recorded", [delivery[d] EXCEPT !.step = "served"])
    /\ UNCHANGED nonce

Tick ==
    /\ now < MaxTime
    /\ \E r \in Request : request[r].step = "signed"
    /\ now' = now + 1
    /\ UNCHANGED <<code, pairing, peer, trust, unsettled, request, delivery, nonce, budget>>

Done == \* nothing is left to happen within the bounds
    /\ \A g \in Pairing : ~InFlight(g)
    /\ UNCHANGED vars

Next ==
    \/ \E c \in Code, l \in Laboratory : CreatePairingCode(c, l)
    \/ \E c \in Code : Expire(c)
    \/ \E g \in Pairing, p \in Partners, c \in Code : PostPairing(g, p, c)
    \/ \E g \in Pairing : \/ AcceptPairing(g) \/ RefusePairing(g) \/ LoseReply(g)
                          \/ FailStore(g) \/ StoreTrust(g)
    \/ \E p \in Pair : RevokeTrust(p)
    \/ \E r \in Request, p \in Pair : AuthorizeProxy(r, p)
    \/ \E r \in Request : SignRequest(r)
    \/ \E d \in Attempt : \/ ReadNode(d) \/ ReadTrust(d) \/ RefuseRequest(d)
                          \/ SweepNonces(d) \/ InsertNonce(d) \/ RefuseNonce(d)
                          \/ Respond(d)
    \/ Tick
    \/ Done

Spec == Init /\ [][Next]_vars

-----------------------------------------------------------------------------
(* Properties *)

(* A pairing that met no other and ran to its end leaves both nodes with the *)
(* secret of that pairing, whatever earlier pairings left behind: a pairing  *)
(* repeated by upsert_remote_node repairs what a lost answer broke.          *)
SettledSecretsAgree ==
    \A p \in Partners : Nodes(p) \notin unsettled =>
        peer[Home[p[1]]][Home[p[2]]] = peer[Home[p[2]]][Home[p[1]]]

(* The nonce of remember_nonce keeps a request from running again for a full *)
(* ttl after it ran, in whatever way its deliveries overlap and however the  *)
(* clocks differ.  What is delivered later than that is up to its timestamp. *)
ServedOncePerTtl ==
    \A d, e \in Attempt :
        /\ d # e /\ d[1] = e[1]
        /\ {delivery[d].step, delivery[e].step} \subseteq {"recorded", "served"}
        => delivery[d].at - delivery[e].at \notin (1 - Ttl * TicksPerSecond) .. (Ttl * TicksPerSecond - 1)

(* The two nodes keep the promise of TrustAgreement: a code is accepted once *)
(* at most, the requester trusts no laboratory that has not accepted it, and *)
(* nothing runs between laboratories of which one never agreed.              *)
Agreement == INSTANCE TrustAgreement WITH
    issued <- {c \in Code : code[c] # Unborn},
    offered <- {<<c, code[c].lab>> : c \in {x \in Code : code[x].step = "open"}},
    half <- trust,
    served <- {request[d[1]].pair : d \in {a \in Attempt : delivery[a].step = "served"}}

ImplementsAgreement == Agreement!Spec

(* docs/federation.md: nodes shake hands once and a pairing carries any number *)
(* of trusts.  Laboratories that trust each other share their nodes' secret    *)
(* whenever no pairing is under way.                                           *)
TrustedLaboratoriesAreServed ==
    \A p \in Partners :
        /\ trust[p] = "active" /\ trust[Mirror(p)] = "active"
        /\ Crossing(p) = {}
        => peer[Home[p[1]]][Home[p[2]]] = peer[Home[p[2]]][Home[p[1]]]
=============================================================================
