-------------------------- MODULE FederationProofs --------------------------
(***************************************************************************)
(* Theorems about Federation, for any number of nodes, laboratories,       *)
(* codes, pairings and requests: the two nodes together implement          *)
(* TrustAgreement.                                                         *)
(*                                                                         *)
(* Nobody sees both halves of a trust.  What a node relies on when it      *)
(* stores or serves was done at the other node in an earlier step, and the *)
(* invariant says that it cannot have been undone: an accepted pairing has *)
(* its half at the issuer, and halves are revoked but never forgotten.     *)
(***************************************************************************)
EXTENDS Federation, TLAPS

Known(p) == trust[p] # "never"

(* The half of the issuer is there when the requester stores its own. *)
AcceptedFirst ==
    \A g \in Pairing : pairing[g].step = "accepted" =>
        LET half == <<pairing[g].accepted, pairing[g].pair[1]>>
        IN half \in Pair /\ Known(half)

(* Who signs a request has the trust, and who verified it has the other half. *)
SignersTrust == \A r \in Request : request[r] # Unborn => Known(request[r].pair)
VerifiersTrust ==
    \A d \in Attempt :
        /\ delivery[d].step # "unborn" => request[d[1]].step = "signed"
        /\ delivery[d].step \in {"trusted", "swept", "recorded", "served"}
              => Known(Mirror(request[d[1]].pair))

IndInv == TypeOK /\ AcceptedFirst /\ SignersTrust /\ VerifiersTrust

(* The variables of TrustAgreement, as Agreement has them. *)
Issued == {c \in Code : code[c] # Unborn}
Offered == {<<c, code[c].lab>> : c \in {x \in Code : code[x].step = "open"}}
Served == {request[d[1]].pair : d \in {a \in Attempt : delivery[a].step = "served"}}

USE DEF Pair, Mirror, Unborn

LEMMA PartnersArePairs == Partners \subseteq Pair
  BY PartnersAssumption

LEMMA MirrorIsPair == \A p \in Pair : Mirror(p) \in Pair
  OBVIOUS

-----------------------------------------------------------------------------
(* The invariant *)

LEMMA InitIndInv == Init => IndInv
<1> SUFFICES ASSUME Init PROVE IndInv
  OBVIOUS
<1>1. TypeOK
  BY TimeAssumption DEF Init, TypeOK, Secret, DeliveryCall, NoNonce
<1>2. AcceptedFirst /\ SignersTrust /\ VerifiersTrust
  BY DEF Init, AcceptedFirst, SignersTrust, VerifiersTrust, Attempt
<1> QED BY <1>1, <1>2 DEF IndInv

(* Halves are never forgotten, so the pairings leave the requests alone. *)
LEMMA HalvesArePreserved ==
    ASSUME IndInv, TypeOK', UNCHANGED <<request, delivery>>,
           \A p \in Pair : Known(p) => Known(p)'
    PROVE  SignersTrust' /\ VerifiersTrust'
<1>1. \A r \in Request : request[r] # Unborn => request[r].pair \in Pair
  BY DEF IndInv, TypeOK, RequestCall
<1>2. SignersTrust'
  BY <1>1 DEF IndInv, SignersTrust
<1>3. ASSUME NEW d \in Attempt
      PROVE  /\ delivery'[d].step # "unborn" => request'[d[1]].step = "signed"
             /\ delivery'[d].step \in {"trusted", "swept", "recorded", "served"}
                   => Known(Mirror(request[d[1]].pair))'
  <2>1. d[1] \in Request
    BY DEF Attempt
  <2>2. request[d[1]].step = "signed" => request[d[1]] # Unborn
    OBVIOUS
  <2>3. delivery[d].step # "unborn" => Mirror(request[d[1]].pair) \in Pair
    BY <1>1, <2>1, <2>2, MirrorIsPair DEF IndInv, VerifiersTrust
  <2> QED BY <2>3 DEF IndInv, VerifiersTrust
<1>4. VerifiersTrust'
  BY <1>3 DEF VerifiersTrust, Known
<1> QED BY <1>2, <1>4

LEMMA CreatePairingCodeKeeps ==
    ASSUME IndInv, NEW c \in Code, NEW l \in Laboratory, CreatePairingCode(c, l)
    PROVE  IndInv'
<1>1. TypeOK'
  BY DEF IndInv, TypeOK, CreatePairingCode, Pairings, CodeRow
<1>2. AcceptedFirst'
  BY DEF IndInv, AcceptedFirst, Known, CreatePairingCode, Pairings
<1> QED BY <1>1, <1>2, HalvesArePreserved DEF IndInv, CreatePairingCode, Pairings, Known

LEMMA ExpireKeeps ==
    ASSUME IndInv, NEW c \in Code, Expire(c)
    PROVE  IndInv'
<1>1. code[c] \in CodeRow
  BY DEF IndInv, TypeOK, Expire
<1>2. TypeOK'
  BY <1>1 DEF IndInv, TypeOK, Expire, Pairings, CodeRow
<1>3. AcceptedFirst'
  BY DEF IndInv, AcceptedFirst, Known, Expire, Pairings
<1> QED BY <1>2, <1>3, HalvesArePreserved DEF IndInv, Expire, Pairings, Known

LEMMA PostPairingKeeps ==
    ASSUME IndInv, NEW g \in Pairing, NEW p \in Partners, NEW c \in Code, PostPairing(g, p, c)
    PROVE  IndInv'
<1>1. p[2] \in Laboratory
  BY PartnersArePairs
<1>2. \A h \in Crossing(p) : pairing[h] \in PairingCall
  BY DEF IndInv, TypeOK, Crossing, InFlight
<1>3. pairing' \in [Pairing -> PairingCall \union {Unborn}]
  <2>1. ASSUME NEW h \in Pairing PROVE pairing'[h] \in PairingCall \union {Unborn}
    <3>1. CASE h = g
      BY <1>1, <3>1 DEF PostPairing, PairingCall
    <3>2. CASE h # g /\ h \in Crossing(p)
      <4>1. pairing'[h] = [pairing[h] EXCEPT !.alone = FALSE]
        BY <3>2 DEF PostPairing
      <4> QED BY <4>1, <3>2, <1>2 DEF PairingCall
    <3>3. CASE h # g /\ h \notin Crossing(p)
      BY <3>3 DEF PostPairing, IndInv, TypeOK
    <3> QED BY <3>1, <3>2, <3>3
  <2> QED BY <2>1 DEF PostPairing
<1>4. TypeOK'
  BY <1>3 DEF IndInv, TypeOK, PostPairing, Pairings
<1>5. AcceptedFirst'
  <2>1. ASSUME NEW h \in Pairing, pairing'[h].step = "accepted"
        PROVE  /\ pairing[h].step = "accepted"
               /\ pairing'[h].accepted = pairing[h].accepted /\ pairing'[h].pair = pairing[h].pair
    <3>1. CASE h = g
      BY <3>1, <2>1 DEF PostPairing
    <3>2. CASE h # g /\ h \in Crossing(p)
      <4>1. pairing'[h] = [pairing[h] EXCEPT !.alone = FALSE]
        BY <3>2 DEF PostPairing
      <4> QED BY <4>1, <3>2, <1>2, <2>1 DEF PairingCall
    <3>3. CASE h # g /\ h \notin Crossing(p)
      BY <3>3, <2>1 DEF PostPairing
    <3> QED BY <3>1, <3>2, <3>3
  <2> QED BY <2>1 DEF IndInv, AcceptedFirst, Known, PostPairing
<1> QED BY <1>4, <1>5, HalvesArePreserved DEF IndInv, PostPairing, Pairings, Known

(* The half of the issuer comes into being with the acceptance. *)
LEMMA AcceptPairingKeeps ==
    ASSUME IndInv, NEW g \in Pairing, AcceptPairing(g)
    PROVE  IndInv'
<1> DEFINE issuer == code[pairing[g].code].lab
           requester == pairing[g].pair[1]
<1>1. pairing[g] \in PairingCall /\ pairing[g].pair \in Partners /\ pairing[g].code \in Code
  BY DEF IndInv, TypeOK, AcceptPairing, PairingCall
<1>2. code[pairing[g].code] \in CodeRow /\ issuer \in Laboratory
  BY <1>1 DEF IndInv, TypeOK, AcceptPairing, Usable, CodeRow
<1>3. requester \in Laboratory /\ Home[issuer] = Home[pairing[g].pair[2]] /\ Home[issuer] # Home[requester]
  BY <1>1, PartnersAssumption DEF AcceptPairing, Usable
<1>4. <<issuer, requester>> \in Pair
  BY <1>2, <1>3
<1>5. trust' = [trust EXCEPT ![<<issuer, requester>>] = "active"]
  BY DEF AcceptPairing, TrustAgain
<1>6. \A p \in Pair : Known(p) => Known(p)'
  BY <1>4, <1>5 DEF Known, IndInv, TypeOK
<1>7. TypeOK'
  <2>1. code' \in [Code -> CodeRow \union {Unborn}]
    BY <1>1, <1>2 DEF IndInv, TypeOK, AcceptPairing, CodeRow
  <2>2. pairing' \in [Pairing -> PairingCall \union {Unborn}]
    BY <1>1, <1>2 DEF IndInv, TypeOK, AcceptPairing, PairingCall
  <2>3. peer' \in [Node -> [Node -> Secret \union {NoSecret}]]
    BY <1>1 DEF IndInv, TypeOK, AcceptPairing, Refresh, Secret
  <2>4. trust' \in [Pair -> {"never", "active", "revoked"}]
    BY <1>4, <1>5 DEF IndInv, TypeOK
  <2>5. unsettled' \subseteq {Nodes(p) : p \in Partners}
    <3>1. Nodes(pairing[g].pair) = {Home[issuer], Home[requester]}
      BY <1>3 DEF Nodes
    <3> QED BY <1>1, <3>1 DEF IndInv, TypeOK, AcceptPairing
  <2> QED BY <2>1, <2>2, <2>3, <2>4, <2>5 DEF IndInv, TypeOK, AcceptPairing, Pairings
<1>8. AcceptedFirst'
  <2>1. ASSUME NEW h \in Pairing, pairing'[h].step = "accepted"
        PROVE  /\ <<pairing'[h].accepted, pairing'[h].pair[1]>> \in Pair
               /\ trust'[<<pairing'[h].accepted, pairing'[h].pair[1]>>] # "never"
    <3>1. CASE h = g
      <4>1. pairing'[g].accepted = issuer /\ pairing'[g].pair[1] = requester
        BY <1>1 DEF IndInv, TypeOK, AcceptPairing, PairingCall
      <4> QED BY <3>1, <4>1, <1>4, <1>5 DEF IndInv, TypeOK
    <3>2. CASE h # g
      <4>1. pairing'[h] = pairing[h]
        BY <3>2 DEF IndInv, TypeOK, AcceptPairing
      <4> QED BY <4>1, <2>1, <1>6 DEF IndInv, AcceptedFirst, Known
    <3> QED BY <3>1, <3>2
  <2> QED BY <2>1 DEF AcceptedFirst, Known
<1> QED BY <1>6, <1>7, <1>8, HalvesArePreserved DEF IndInv, AcceptPairing, Pairings

(* A pairing that fails changes neither node. *)
LEMMA FailuresKeep ==
    ASSUME IndInv, NEW g \in Pairing, RefusePairing(g) \/ LoseReply(g) \/ FailStore(g)
    PROVE  IndInv'
<1>1. pairing[g] \in PairingCall
  BY DEF IndInv, TypeOK, RefusePairing, LoseReply, FailStore, InFlight
<1>2. /\ pairing' \in [Pairing -> PairingCall \union {Unborn}]
      /\ \A h \in Pairing : pairing'[h].step = "accepted" =>
            /\ pairing[h].step = "accepted"
            /\ pairing'[h].accepted = pairing[h].accepted /\ pairing'[h].pair = pairing[h].pair
  <2>1. CASE RefusePairing(g)
    BY <2>1, <1>1 DEF IndInv, TypeOK, RefusePairing, PairingCall
  <2>2. CASE LoseReply(g)
    BY <2>2, <1>1 DEF IndInv, TypeOK, LoseReply, InFlight, PairingCall
  <2>3. CASE FailStore(g)
    BY <2>3, <1>1 DEF IndInv, TypeOK, FailStore, PairingCall
  <2> QED BY <2>1, <2>2, <2>3
<1>3. UNCHANGED <<code, peer, trust, unsettled, request, delivery, nonce, now>>
  BY DEF RefusePairing, LoseReply, FailStore, Pairings
<1>4. TypeOK'
  BY <1>2, <1>3 DEF IndInv, TypeOK
<1>5. AcceptedFirst'
  BY <1>2, <1>3 DEF IndInv, AcceptedFirst, Known
<1> QED BY <1>3, <1>4, <1>5, HalvesArePreserved DEF IndInv, Known

LEMMA StoreTrustKeeps ==
    ASSUME IndInv, NEW g \in Pairing, StoreTrust(g)
    PROVE  IndInv'
<1> DEFINE p == pairing[g].pair
<1>1. pairing[g] \in PairingCall /\ p \in Pair
  BY PartnersArePairs DEF IndInv, TypeOK, StoreTrust, Storable, PairingCall
<1>2. trust' = [trust EXCEPT ![p] = "active"]
  BY DEF StoreTrust, TrustAgain
<1>3. \A q \in Pair : Known(q) => Known(q)'
  BY <1>1, <1>2 DEF Known, IndInv, TypeOK
<1>4. pairing' = [pairing EXCEPT ![g].step = "stored"]
  BY DEF StoreTrust
<1>5. TypeOK'
  <2>1. pairing' \in [Pairing -> PairingCall \union {Unborn}]
    BY <1>1, <1>4 DEF IndInv, TypeOK, PairingCall
  <2>2. peer' \in [Node -> [Node -> Secret \union {NoSecret}]]
    BY <1>1 DEF IndInv, TypeOK, StoreTrust, Refresh, Secret
  <2>3. trust' \in [Pair -> {"never", "active", "revoked"}]
    BY <1>1, <1>2 DEF IndInv, TypeOK
  <2> QED BY <2>1, <2>2, <2>3 DEF IndInv, TypeOK, StoreTrust, Pairings
<1>6. AcceptedFirst'
  <2>1. \A h \in Pairing : pairing'[h].step = "accepted" => h # g /\ pairing'[h] = pairing[h]
    BY <1>1, <1>4 DEF IndInv, TypeOK, PairingCall
  <2> QED BY <2>1, <1>3 DEF IndInv, AcceptedFirst, Known
<1> QED BY <1>3, <1>5, <1>6, HalvesArePreserved DEF IndInv, StoreTrust, Pairings

LEMMA RevokeTrustKeeps ==
    ASSUME IndInv, NEW p \in Pair, RevokeTrust(p)
    PROVE  IndInv'
<1>1. \A q \in Pair : Known(q) => Known(q)'
  BY DEF Known, IndInv, TypeOK, RevokeTrust
<1>2. TypeOK'
  BY DEF IndInv, TypeOK, RevokeTrust, Pairings
<1>3. AcceptedFirst'
  BY <1>1 DEF IndInv, AcceptedFirst, Known, RevokeTrust
<1> QED BY <1>1, <1>2, <1>3, HalvesArePreserved DEF IndInv, RevokeTrust, Pairings

-----------------------------------------------------------------------------
(* Requests leave the halves and the pairings alone. *)

LEMMA AuthorizeProxyKeeps ==
    ASSUME IndInv, NEW r \in Request, NEW p \in Pair, AuthorizeProxy(r, p)
    PROVE  IndInv'
<1>1. request' = [request EXCEPT ![r] = [step |-> "authorized", pair |-> p, secret |-> Earlier, at |-> now]]
  BY DEF AuthorizeProxy
<1>2. TypeOK'
  <2>1. now \in Int
    BY TimeAssumption DEF IndInv, TypeOK
  <2> QED BY <1>1, <2>1 DEF IndInv, TypeOK, AuthorizeProxy, Requests, RequestCall, Secret
<1>3. AcceptedFirst'
  BY DEF IndInv, AcceptedFirst, Known, AuthorizeProxy, Requests
<1>4. SignersTrust'
  BY <1>1 DEF IndInv, TypeOK, SignersTrust, Known, AuthorizeProxy, Requests
<1>5. VerifiersTrust'
  <2>1. ASSUME NEW d \in Attempt, d[1] = r PROVE delivery[d].step = "unborn"
    <3>1. request[d[1]].step = "unborn"
      BY <2>1 DEF AuthorizeProxy
    <3>2. delivery[d].step # "unborn" => request[d[1]].step = "signed"
      BY DEF IndInv, VerifiersTrust
    <3> QED BY <3>1, <3>2
  <2>2. ASSUME NEW d \in Attempt, d[1] # r PROVE request'[d[1]] = request[d[1]]
    BY <1>1, <2>2 DEF Attempt, IndInv, TypeOK
  <2> QED BY <2>1, <2>2 DEF IndInv, VerifiersTrust, Known, AuthorizeProxy, Requests
<1> QED BY <1>2, <1>3, <1>4, <1>5 DEF IndInv

LEMMA SignRequestKeeps ==
    ASSUME IndInv, NEW r \in Request, SignRequest(r)
    PROVE  IndInv'
<1>1. request[r] \in RequestCall
  BY DEF IndInv, TypeOK, SignRequest
<1> DEFINE secret == peer[Home[request[r].pair[1]]][Home[request[r].pair[2]]]
<1>2. PICK skew \in Skew :
        request' = [request EXCEPT ![r].step = "signed", ![r].secret = secret,
                                   ![r].at = Second(now) + skew]
  BY DEF SignRequest
<1>3. secret \in Secret
  BY <1>1, HomeAssumption DEF IndInv, TypeOK, SignRequest, RequestCall
<1>4. Second(now) + skew \in Int
  <2>1. now \in Int /\ skew \in Int
    BY TimeAssumption DEF IndInv, TypeOK
  <2>2. Second(now) \in Int
    BY <2>1, TimeAssumption DEF Second
  <2> QED BY <2>1, <2>2
<1>5. request'[r] \in RequestCall /\ request'[r].pair = request[r].pair /\ request'[r].step = "signed"
  BY <1>1, <1>2, <1>3, <1>4 DEF IndInv, TypeOK, RequestCall
<1>6. \A q \in Request \ {r} : request'[q] = request[q]
  BY <1>2 DEF IndInv, TypeOK
<1>7. TypeOK'
  <2>1. request' \in [Request -> RequestCall \union {Unborn}]
    BY <1>2, <1>5, <1>6 DEF IndInv, TypeOK
  <2> QED BY <2>1 DEF IndInv, TypeOK, SignRequest, Requests
<1>8. AcceptedFirst'
  BY DEF IndInv, AcceptedFirst, Known, SignRequest, Requests
<1>9. SignersTrust'
  <2>1. request[r] # Unborn
    BY DEF SignRequest
  <2>2. Known(request[r].pair)
    BY <2>1 DEF IndInv, SignersTrust
  <2>3. ASSUME NEW q \in Request, request'[q] # Unborn PROVE trust[request'[q].pair] # "never"
    <3>1. CASE q = r
      BY <3>1, <1>5, <2>2 DEF Known
    <3>2. CASE q # r
      BY <3>2, <2>3, <1>6 DEF IndInv, SignersTrust, Known
    <3> QED BY <3>1, <3>2
  <2> QED BY <2>3 DEF SignersTrust, Known, SignRequest, Requests
<1>10. VerifiersTrust'
  <2>1. \A d \in Attempt : d[1] \in Request
    BY DEF Attempt
  <2> QED BY <1>5, <1>6, <2>1 DEF IndInv, VerifiersTrust, Known, SignRequest, Requests
<1> QED BY <1>7, <1>8, <1>9, <1>10 DEF IndInv

(* A delivery goes one step on. *)
LEMMA DeliveriesKeep ==
    ASSUME IndInv, NEW d \in Attempt, NEW from, NEW new \in DeliveryCall, Step(d, from, new),
           request[d[1]].step = "signed",
           new.step \in {"trusted", "swept", "recorded", "served"}
              => Known(Mirror(request[d[1]].pair)),
           nonce' \in [Request -> Nat \union {NoNonce}]
    PROVE  IndInv'
<1>1. delivery' = [delivery EXCEPT ![d] = new] /\ UNCHANGED <<request, now, budget>>
      /\ UNCHANGED <<code, pairing, peer, trust, unsettled>>
  BY DEF Step, Requests
<1>2. TypeOK'
  BY <1>1 DEF IndInv, TypeOK
<1>3. AcceptedFirst' /\ SignersTrust'
  BY <1>1 DEF IndInv, AcceptedFirst, SignersTrust, Known
<1>4. VerifiersTrust'
  <2>1. ASSUME NEW e \in Attempt
        PROVE  /\ delivery'[e].step # "unborn" => request[e[1]].step = "signed"
               /\ delivery'[e].step \in {"trusted", "swept", "recorded", "served"}
                     => Known(Mirror(request[e[1]].pair))
    <3>1. CASE e = d
      BY <3>1, <1>1 DEF IndInv, TypeOK
    <3>2. CASE e # d
      BY <3>2, <1>1 DEF IndInv, TypeOK, VerifiersTrust
    <3> QED BY <3>1, <3>2
  <2> QED BY <1>1, <2>1 DEF VerifiersTrust, Known
<1> QED BY <1>2, <1>3, <1>4 DEF IndInv

LEMMA DeliveryIsTyped ==
    ASSUME IndInv, NEW d \in Attempt
    PROVE  /\ delivery[d] \in DeliveryCall /\ d[1] \in Request
           /\ now \in Nat
           /\ nonce \in [Request -> Nat \union {NoNonce}]
           /\ now + Ttl * TicksPerSecond \in Nat
<1>1. now \in Nat /\ Ttl \in Nat /\ TicksPerSecond \in Nat
  BY TimeAssumption DEF IndInv, TypeOK
<1> DEFINE ttl == Ttl * TicksPerSecond
<1>2. ttl \in Nat
  BY <1>1
<1>3. now + ttl \in Nat
  <2> HIDE DEF ttl
  <2> QED BY <1>1, <1>2
<1> QED BY <1>1, <1>3 DEF IndInv, TypeOK, Attempt

LEMMA ReadNodeKeeps ==
    ASSUME IndInv, NEW d \in Attempt, ReadNode(d)
    PROVE  IndInv'
<1> DEFINE p == request[d[1]].pair
           secret == peer[Home[p[2]]][Home[p[1]]]
           new == [step |-> "node_read", secret |-> secret, at |-> 0]
<1>1. request[d[1]].step = "signed" /\ Step(d, "unborn", new) /\ UNCHANGED nonce
  BY DEF ReadNode
<1>2. p \in Pair
  BY <1>1, DeliveryIsTyped DEF IndInv, TypeOK, RequestCall
<1>3. new \in DeliveryCall
  BY <1>2, HomeAssumption DEF IndInv, TypeOK, DeliveryCall
<1>4. new.step \notin {"trusted", "swept", "recorded", "served"}
  OBVIOUS
<1> HIDE DEF new
<1> QED BY <1>1, <1>3, <1>4, DeliveryIsTyped, DeliveriesKeep

(* The half of the serving laboratory is read here. *)
LEMMA ReadTrustKeeps ==
    ASSUME IndInv, NEW d \in Attempt, ReadTrust(d)
    PROVE  IndInv'
<1> DEFINE new == [delivery[d] EXCEPT !.step = "trusted"]
<1>1. Step(d, "node_read", new) /\ UNCHANGED nonce /\ delivery[d].step = "node_read"
      /\ trust[Mirror(request[d[1]].pair)] = "active"
  BY DEF ReadTrust
<1>2. new \in DeliveryCall
  BY DeliveryIsTyped DEF DeliveryCall
<1>3. request[d[1]].step = "signed"
  BY <1>1 DEF IndInv, VerifiersTrust
<1>4. Known(Mirror(request[d[1]].pair))
  BY <1>1 DEF Known
<1> HIDE DEF new
<1> QED BY <1>1, <1>2, <1>3, <1>4, DeliveryIsTyped, DeliveriesKeep

LEMMA RefuseRequestKeeps ==
    ASSUME IndInv, NEW d \in Attempt, RefuseRequest(d)
    PROVE  IndInv'
<1> DEFINE new == [delivery[d] EXCEPT !.step = "refused"]
<1>1. Step(d, delivery[d].step, new) /\ UNCHANGED nonce /\ request[d[1]].step = "signed"
  BY DEF RefuseRequest
<1>2. new \in DeliveryCall /\ new.step = "refused"
  BY DeliveryIsTyped DEF DeliveryCall
<1> HIDE DEF new
<1> QED BY <1>1, <1>2, DeliveryIsTyped, DeliveriesKeep

(* From the verification on nothing is read again. *)
LEMMA VerifiedStepsKeep ==
    ASSUME IndInv, NEW d \in Attempt,
           SweepNonces(d) \/ InsertNonce(d) \/ RefuseNonce(d) \/ Respond(d)
    PROVE  IndInv'
<1>1. PICK from \in {"trusted", "swept", "recorded"}, step \in {"swept", "recorded", "served", "refused"},
           at \in {delivery[d].at, now} :
        Step(d, from, [delivery[d] EXCEPT !.step = step, !.at = at])
  <2>1. delivery[d].at = delivery[d].at /\ [delivery[d] EXCEPT !.at = delivery[d].at] = delivery[d]
    BY DeliveryIsTyped DEF DeliveryCall
  <2>2. \A s : [delivery[d] EXCEPT !.step = s] = [delivery[d] EXCEPT !.step = s, !.at = delivery[d].at]
    BY DeliveryIsTyped DEF DeliveryCall
  <2>3. CASE SweepNonces(d)
    BY <2>2, <2>3 DEF SweepNonces
  <2>4. CASE InsertNonce(d)
    BY <2>4 DEF InsertNonce
  <2>5. CASE RefuseNonce(d)
    BY <2>2, <2>5 DEF RefuseNonce
  <2>6. CASE Respond(d)
    BY <2>2, <2>6 DEF Respond
  <2> QED BY <2>3, <2>4, <2>5, <2>6
<1> DEFINE new == [delivery[d] EXCEPT !.step = step, !.at = at]
<1>2. new \in DeliveryCall
  BY DeliveryIsTyped DEF DeliveryCall
<1>3. delivery[d].step \in {"trusted", "swept", "recorded"}
  BY <1>1 DEF Step
<1>4. request[d[1]].step = "signed" /\ Known(Mirror(request[d[1]].pair))
  BY <1>3 DEF IndInv, VerifiersTrust
<1>5. nonce' \in [Request -> Nat \union {NoNonce}]
  <2>1. CASE SweepNonces(d)
    BY <2>1, DeliveryIsTyped DEF SweepNonces
  <2>2. CASE InsertNonce(d)
    BY <2>2, DeliveryIsTyped DEF InsertNonce
  <2>3. CASE RefuseNonce(d) \/ Respond(d)
    BY <2>3, DeliveryIsTyped DEF RefuseNonce, Respond
  <2> QED BY <2>1, <2>2, <2>3
<1> HIDE DEF new
<1> QED BY <1>1, <1>2, <1>4, <1>5, DeliveriesKeep DEF new

LEMMA TickKeeps ==
    ASSUME IndInv, Tick
    PROVE  IndInv'
<1>1. TypeOK'
  BY TimeAssumption DEF IndInv, TypeOK, Tick
<1> QED BY <1>1 DEF IndInv, AcceptedFirst, SignersTrust, VerifiersTrust, Known, Tick

LEMMA NextKeepsIndInv == IndInv /\ [Next]_vars => IndInv'
<1> SUFFICES ASSUME IndInv, [Next]_vars PROVE IndInv'
  OBVIOUS
<1>1. CASE UNCHANGED vars
  BY <1>1 DEF vars, IndInv, TypeOK, AcceptedFirst, SignersTrust, VerifiersTrust, Known
<1>2. CASE \E c \in Code, l \in Laboratory : CreatePairingCode(c, l)
  BY <1>2, CreatePairingCodeKeeps
<1>3. CASE \E c \in Code : Expire(c)
  BY <1>3, ExpireKeeps
<1>4. CASE \E g \in Pairing, p \in Partners, c \in Code : PostPairing(g, p, c)
  BY <1>4, PostPairingKeeps
<1>5. CASE \E g \in Pairing : AcceptPairing(g)
  BY <1>5, AcceptPairingKeeps
<1>6. CASE \E g \in Pairing : RefusePairing(g) \/ LoseReply(g) \/ FailStore(g)
  BY <1>6, FailuresKeep
<1>7. CASE \E g \in Pairing : StoreTrust(g)
  BY <1>7, StoreTrustKeeps
<1>8. CASE \E p \in Pair : RevokeTrust(p)
  <2> PICK p \in Pair : RevokeTrust(p)
    BY <1>8
  <2> QED BY RevokeTrustKeeps
<1>9. CASE \E r \in Request, p \in Pair : AuthorizeProxy(r, p)
  <2> PICK r \in Request, p \in Pair : AuthorizeProxy(r, p)
    BY <1>9
  <2> QED BY AuthorizeProxyKeeps
<1>10. CASE \E r \in Request : SignRequest(r)
  BY <1>10, SignRequestKeeps
<1>11. CASE \E d \in Attempt : \/ ReadNode(d) \/ ReadTrust(d) \/ RefuseRequest(d)
                               \/ SweepNonces(d) \/ InsertNonce(d) \/ RefuseNonce(d)
                               \/ Respond(d)
  BY <1>11, ReadNodeKeeps, ReadTrustKeeps, RefuseRequestKeeps, VerifiedStepsKeep
<1>12. CASE Tick
  BY <1>12, TickKeeps
<1>13. CASE Done
  BY <1>1, <1>13 DEF Done
<1> QED BY <1>1, <1>2, <1>3, <1>4, <1>5, <1>6, <1>7, <1>8, <1>9, <1>10, <1>11, <1>12, <1>13 DEF Next

\* The rows, calls, clocks and nonces of both nodes keep their shape, and what
\* one node relies on of the other still stands: pairings in create_trust and
\* accept_pairing, requests in authorize_proxy and verify_inbound_request.
THEOREM Inductive == Spec => []IndInv
  BY InitIndInv, NextKeepsIndInv, PTL DEF Spec

\* The same, without what the proof adds.
THEOREM TypeCorrect == Spec => []TypeOK
<1>1. IndInv => TypeOK
  BY DEF IndInv
<1> QED BY <1>1, Inductive, PTL

-----------------------------------------------------------------------------
(* The refinement *)

(* Steps that neither hand out codes nor serve requests. *)
LEMMA SameOffers ==
    ASSUME UNCHANGED code
    PROVE  UNCHANGED <<Issued, Offered>>
  BY DEF Issued, Offered

LEMMA SameServed ==
    ASSUME \A d \in Attempt : /\ delivery'[d].step = "served" <=> delivery[d].step = "served"
                              /\ delivery[d].step = "served" => request'[d[1]].pair = request[d[1]].pair
    PROVE  UNCHANGED Served
<1>1. {d \in Attempt : delivery'[d].step = "served"} = {d \in Attempt : delivery[d].step = "served"}
  OBVIOUS
<1>2. \A d \in {d \in Attempt : delivery[d].step = "served"} : request'[d[1]].pair = request[d[1]].pair
  OBVIOUS
<1> QED BY <1>1, <1>2 DEF Served

LEMMA InitRefines == Init => Agreement!Init
<1> SUFFICES ASSUME Init PROVE Agreement!Init
  OBVIOUS
<1>1. Issued = {} /\ Offered = {}
  BY DEF Init, Issued, Offered
<1>2. Served = {}
  BY DEF Init, Served
<1>3. trust \in [Pair -> {"never", "active"}]
  BY DEF Init
<1>4. \A p \in Pair : trust[p] = trust[Mirror(p)]
  <2>1. ASSUME NEW p \in Pair PROVE trust[p] = trust[Mirror(p)]
    <3>1. Mirror(p) \in Pair /\ Mirror(Mirror(p)) = p
      BY MirrorIsPair
    <3>2. {p, Mirror(p)} = {Mirror(p), Mirror(Mirror(p))}
      BY <3>1
    <3> HIDE DEF Mirror
    <3> QED BY <3>1, <3>2 DEF Init
  <2> QED BY <2>1
<1> QED BY <1>1, <1>2, <1>3, <1>4 DEF Agreement!Init, Agreement!Symmetric, Agreement!Pair, Agreement!Mirror,
                                     Issued, Offered, Served

LEMMA PairsOfInstance == Agreement!Pair = Pair /\ \A p : Agreement!Mirror(p) = Mirror(p)
  BY DEF Agreement!Pair, Agreement!Mirror

(* The variables of Agreement, all four. *)
Stutters == UNCHANGED <<Issued, Offered, trust, Served>>

LEMMA StuttersRefine == Stutters => UNCHANGED Agreement!vars
  BY DEF Stutters, Agreement!vars, Issued, Offered, Served

LEMMA CreateRefines ==
    ASSUME IndInv, NEW c \in Code, NEW l \in Laboratory, CreatePairingCode(c, l)
    PROVE  Agreement!Offer
<1>1. code' = [code EXCEPT ![c] = [step |-> "open", lab |-> l]] /\ code[c] = Unborn
      /\ UNCHANGED <<trust, request, delivery>>
  BY DEF CreatePairingCode, Pairings
<1>2. c \in Code \ Issued
  BY <1>1 DEF Issued
<1>3. \A x \in Code \ {c} : code'[x] = code[x]
  BY <1>1 DEF IndInv, TypeOK
<1>4. code'[c] = [step |-> "open", lab |-> l]
  BY <1>1 DEF IndInv, TypeOK
<1>5. Issued' = Issued \union {c}
  BY <1>3, <1>4 DEF Issued
<1>6. Offered' = Offered \union {<<c, l>>}
  BY <1>1, <1>3, <1>4 DEF Offered
<1>7. Served' = Served
  BY <1>1, SameServed
<1> QED BY <1>1, <1>2, <1>5, <1>6, <1>7 DEF Agreement!Offer, Issued, Offered, Served

LEMMA ExpireRefines ==
    ASSUME IndInv, NEW c \in Code, Expire(c)
    PROVE  Agreement!Withdraw
<1>1. code' = [code EXCEPT ![c].step = "expired"] /\ code[c].step = "open" /\ code[c] \in CodeRow
      /\ UNCHANGED <<trust, request, delivery>>
  BY DEF IndInv, TypeOK, Expire, Pairings
<1>2. \A x \in Code \ {c} : code'[x] = code[x]
  BY <1>1 DEF IndInv, TypeOK
<1>3. code'[c].step = "expired"
  BY <1>1 DEF IndInv, TypeOK, CodeRow
<1>4. Issued' = Issued
  BY <1>1, <1>2, <1>3 DEF Issued
<1>5. Offered' = Offered \ {<<c, code[c].lab>>} /\ <<c, code[c].lab>> \in Offered
  BY <1>1, <1>2, <1>3 DEF Offered
<1>6. Served' = Served
  BY <1>1, SameServed
<1> QED BY <1>1, <1>4, <1>5, <1>6 DEF Agreement!Withdraw, Issued, Offered, Served

LEMMA AcceptRefines ==
    ASSUME IndInv, NEW g \in Pairing, AcceptPairing(g)
    PROVE  Agreement!Accept
<1> DEFINE c == pairing[g].code
           issuer == code[c].lab
           requester == pairing[g].pair[1]
<1>1. pairing[g] \in PairingCall /\ pairing[g].pair \in Partners /\ c \in Code
  BY DEF IndInv, TypeOK, AcceptPairing, PairingCall
<1>2. code[c].step = "open" /\ code[c] \in CodeRow /\ issuer \in Laboratory
  BY <1>1 DEF IndInv, TypeOK, AcceptPairing, Usable, CodeRow
<1>3. requester \in Laboratory \ {issuer}
  BY <1>1, PartnersAssumption DEF AcceptPairing, Usable
<1>4. trust' = [trust EXCEPT ![<<issuer, requester>>] = "active"]
      /\ code' = [code EXCEPT ![c].step = "spent"] /\ UNCHANGED <<request, delivery>>
  BY DEF AcceptPairing, TrustAgain, Pairings
<1>5. \A x \in Code \ {c} : code'[x] = code[x]
  BY <1>4 DEF IndInv, TypeOK
<1>6. code'[c].step = "spent"
  BY <1>1, <1>2, <1>4 DEF IndInv, TypeOK, CodeRow
<1>7. Issued' = Issued
  BY <1>1, <1>2, <1>5, <1>6 DEF Issued
<1>8. Offered' = Offered \ {<<c, issuer>>} /\ <<c, issuer>> \in Offered
  BY <1>1, <1>2, <1>5, <1>6 DEF Offered
<1>9. Served' = Served
  BY <1>4, SameServed
<1> HIDE DEF c, requester
<1> QED BY <1>3, <1>4, <1>7, <1>8, <1>9 DEF Agreement!Accept, Issued, Offered, Served

LEMMA StoreRefines ==
    ASSUME IndInv, NEW g \in Pairing, StoreTrust(g)
    PROVE  Agreement!Confirm
<1> DEFINE p == pairing[g].pair
<1>1. pairing[g].step = "accepted" /\ pairing[g].accepted = p[2] /\ p \in Pair
  BY PartnersArePairs DEF IndInv, TypeOK, StoreTrust, Storable, PairingCall
<1>2. Known(Mirror(p))
  BY <1>1 DEF IndInv, AcceptedFirst
<1>3. trust' = [trust EXCEPT ![p] = "active"] /\ UNCHANGED <<code, request, delivery>>
  BY DEF StoreTrust, TrustAgain, Pairings
<1>4. UNCHANGED <<Issued, Offered>>
  BY <1>3, SameOffers
<1>5. UNCHANGED Served
  BY <1>3, SameServed
<1> HIDE DEF p
<1> QED BY <1>1, <1>2, <1>3, <1>4, <1>5, PairsOfInstance DEF Agreement!Confirm, Issued, Offered, Served, Known

LEMMA RevokeRefines ==
    ASSUME IndInv, NEW p \in Pair, RevokeTrust(p)
    PROVE  Agreement!Revoke
<1>1. trust[p] = "active" /\ trust' = [trust EXCEPT ![p] = "revoked"] /\ UNCHANGED <<code, request, delivery>>
  BY DEF RevokeTrust, Pairings
<1>2. UNCHANGED <<Issued, Offered>>
  BY <1>1, SameOffers
<1>3. UNCHANGED Served
  BY <1>1, SameServed
<1> QED BY <1>1, <1>2, <1>3, PairsOfInstance DEF Agreement!Revoke, Issued, Offered, Served

LEMMA RespondRefines ==
    ASSUME IndInv, NEW d \in Attempt, Respond(d)
    PROVE  Agreement!Serve
<1> DEFINE p == request[d[1]].pair
<1>1. delivery[d].step = "recorded" /\ delivery' = [delivery EXCEPT ![d] = [delivery[d] EXCEPT !.step = "served"]]
      /\ UNCHANGED <<code, trust, request>>
  BY DEF Respond, Step, Requests
<1>2. request[d[1]] \in RequestCall /\ request[d[1]] # Unborn
  <2>1. request[d[1]].step = "signed"
    BY <1>1 DEF IndInv, VerifiersTrust
  <2> QED BY <2>1, DeliveryIsTyped DEF IndInv, TypeOK
<1>3. p \in Pair /\ Known(p) /\ Known(Mirror(p))
  BY <1>1, <1>2, DeliveryIsTyped DEF IndInv, SignersTrust, VerifiersTrust, RequestCall
<1>4. delivery'[d].step = "served" /\ \A e \in Attempt \ {d} : delivery'[e] = delivery[e]
  BY <1>1, DeliveryIsTyped DEF IndInv, TypeOK, DeliveryCall
<1>5. Served' = Served \union {p}
  <2>1. {e \in Attempt : delivery'[e].step = "served"} = {e \in Attempt : delivery[e].step = "served"} \union {d}
    BY <1>4
  <2> QED BY <2>1, <1>1 DEF Served
<1>6. UNCHANGED <<Issued, Offered>>
  BY <1>1, SameOffers
<1> HIDE DEF p
<1> QED BY <1>1, <1>3, <1>5, <1>6, PairsOfInstance DEF Agreement!Serve, Issued, Offered, Served, Known

(* What neither laboratory sees. *)
LEMMA PairingsStutter ==
    ASSUME IndInv, \/ \E g \in Pairing : RefusePairing(g) \/ LoseReply(g) \/ FailStore(g)
                   \/ \E g \in Pairing, p \in Partners, c \in Code : PostPairing(g, p, c)
                   \/ Tick \/ UNCHANGED vars
    PROVE  Stutters
<1>1. UNCHANGED <<code, trust, delivery>> /\ \A r \in Request : request'[r] = request[r]
  BY DEF RefusePairing, LoseReply, FailStore, PostPairing, Pairings, Tick, vars
<1>2. \A d \in Attempt : d[1] \in Request
  BY DEF Attempt
<1>3. UNCHANGED Served
  BY <1>1, <1>2, SameServed
<1> QED BY <1>1, <1>3, SameOffers DEF Stutters

LEMMA RequestsStutter ==
    ASSUME IndInv, \/ \E r \in Request, p \in Pair : AuthorizeProxy(r, p)
                   \/ \E r \in Request : SignRequest(r)
    PROVE  Stutters
<1>1. PICK r \in Request : /\ request[r].step # "signed"
                           /\ \A q \in Request \ {r} : request'[q] = request[q]
  <2>1. CASE \E r \in Request, p \in Pair : AuthorizeProxy(r, p)
    <3> PICK r \in Request, p \in Pair : AuthorizeProxy(r, p)
      BY <2>1
    <3>1. request[r].step = "unborn"
      BY DEF AuthorizeProxy
    <3> QED BY <3>1 DEF AuthorizeProxy, IndInv, TypeOK
  <2>2. CASE \E r \in Request : SignRequest(r)
    <3> PICK r \in Request : SignRequest(r)
      BY <2>2
    <3> QED BY DEF SignRequest, IndInv, TypeOK
  <2> QED BY <2>1, <2>2
<1>2. UNCHANGED <<code, trust, delivery>>
  BY DEF AuthorizeProxy, SignRequest, Requests
<1>3. \A d \in Attempt : delivery[d].step = "served" => request'[d[1]].pair = request[d[1]].pair
  BY <1>1 DEF IndInv, VerifiersTrust, Attempt
<1>4. UNCHANGED Served
  BY <1>2, <1>3, SameServed
<1> QED BY <1>2, <1>4, SameOffers DEF Stutters

LEMMA DeliveriesStutter ==
    ASSUME IndInv, NEW d \in Attempt,
           \/ ReadNode(d) \/ ReadTrust(d) \/ RefuseRequest(d)
           \/ SweepNonces(d) \/ InsertNonce(d) \/ RefuseNonce(d)
    PROVE  Stutters
<1>1. UNCHANGED <<code, trust, request>>
  BY DEF ReadNode, ReadTrust, RefuseRequest, SweepNonces, InsertNonce, RefuseNonce, Step, Requests
<1>2. delivery[d].step # "served" /\ delivery'[d].step # "served"
  <2>1. CASE ReadNode(d)
    BY <2>1, DeliveryIsTyped DEF IndInv, TypeOK, ReadNode, Step
  <2>2. CASE ReadTrust(d) \/ SweepNonces(d) \/ InsertNonce(d) \/ RefuseNonce(d)
    <3>1. delivery[d].step \in {"node_read", "trusted", "swept"}
      BY <2>2 DEF ReadTrust, SweepNonces, InsertNonce, RefuseNonce, Step
    <3>2. PICK s \in {"trusted", "swept", "recorded", "refused"} : delivery'[d].step = s
      <4>1. CASE ReadTrust(d)
        BY <4>1, DeliveryIsTyped DEF IndInv, TypeOK, ReadTrust, Step, DeliveryCall
      <4>2. CASE SweepNonces(d)
        BY <4>2, DeliveryIsTyped DEF IndInv, TypeOK, SweepNonces, Step, DeliveryCall
      <4>3. CASE InsertNonce(d)
        BY <4>3, DeliveryIsTyped DEF IndInv, TypeOK, InsertNonce, Step, DeliveryCall
      <4>4. CASE RefuseNonce(d)
        BY <4>4, DeliveryIsTyped DEF IndInv, TypeOK, RefuseNonce, Step, DeliveryCall
      <4> QED BY <2>2, <4>1, <4>2, <4>3, <4>4
    <3> QED BY <3>1, <3>2
  <2>3. CASE RefuseRequest(d)
    BY <2>3, DeliveryIsTyped DEF IndInv, TypeOK, RefuseRequest, Rejected, Step, DeliveryCall
  <2> QED BY <2>1, <2>2, <2>3
<1>3. \A e \in Attempt \ {d} : delivery'[e] = delivery[e]
  BY DEF IndInv, TypeOK, ReadNode, ReadTrust, RefuseRequest, SweepNonces, InsertNonce, RefuseNonce, Step
<1>4. \A e \in Attempt : delivery'[e].step = "served" <=> delivery[e].step = "served"
  BY <1>2, <1>3
<1>5. UNCHANGED Served
  BY <1>1, <1>4, SameServed
<1> QED BY <1>1, <1>5, SameOffers DEF Stutters

LEMMA StepRefines == IndInv /\ [Next]_vars => [Agreement!Next]_(Agreement!vars)
<1> SUFFICES ASSUME IndInv, [Next]_vars PROVE Agreement!Next \/ UNCHANGED Agreement!vars
  OBVIOUS
<1>1. CASE UNCHANGED vars \/ Tick
  BY <1>1, PairingsStutter, StuttersRefine
<1>2. CASE \E c \in Code, l \in Laboratory : CreatePairingCode(c, l)
  BY <1>2, CreateRefines DEF Agreement!Next
<1>3. CASE \E c \in Code : Expire(c)
  BY <1>3, ExpireRefines DEF Agreement!Next
<1>4. CASE \E g \in Pairing, p \in Partners, c \in Code : PostPairing(g, p, c)
  BY <1>4, PairingsStutter, StuttersRefine
<1>5. CASE \E g \in Pairing : AcceptPairing(g)
  BY <1>5, AcceptRefines DEF Agreement!Next
<1>6. CASE \E g \in Pairing : RefusePairing(g) \/ LoseReply(g) \/ FailStore(g)
  BY <1>6, PairingsStutter, StuttersRefine
<1>7. CASE \E g \in Pairing : StoreTrust(g)
  BY <1>7, StoreRefines DEF Agreement!Next
<1>8. CASE \E p \in Pair : RevokeTrust(p)
  <2> PICK p \in Pair : RevokeTrust(p)
    BY <1>8
  <2> QED BY RevokeRefines DEF Agreement!Next
<1>9. CASE (\E r \in Request, p \in Pair : AuthorizeProxy(r, p)) \/ (\E r \in Request : SignRequest(r))
  BY <1>9, RequestsStutter, StuttersRefine
<1>10. CASE \E d \in Attempt : \/ ReadNode(d) \/ ReadTrust(d) \/ RefuseRequest(d)
                               \/ SweepNonces(d) \/ InsertNonce(d) \/ RefuseNonce(d)
  BY <1>10, DeliveriesStutter, StuttersRefine
<1>11. CASE \E d \in Attempt : Respond(d)
  BY <1>11, RespondRefines DEF Agreement!Next
<1>12. CASE Done
  BY <1>1, <1>12 DEF Done
<1> QED BY <1>1, <1>2, <1>3, <1>4, <1>5, <1>6, <1>7, <1>8, <1>9, <1>10, <1>11, <1>12 DEF Next

\* create_trust, accept_pairing, revoke_trust and the signed requests keep the
\* promise of TrustAgreement, with lost answers, late deliveries and repetitions.
THEOREM NodesKeepTheAgreement == Spec => ImplementsAgreement
  BY InitIndInv, NextKeepsIndInv, InitRefines, StepRefines, PTL DEF Spec, ImplementsAgreement, Agreement!Spec

-----------------------------------------------------------------------------
(* Requests that run again *)

Window == Ttl * TicksPerSecond
Ran(d) == delivery[d].step \in {"recorded", "served"}

(* While a window is open its nonce is stored: only time closes it. *)
NoncesGuard ==
    \A d \in Attempt : Ran(d) =>
        /\ delivery[d].at <= now
        /\ \/ nonce[d[1]] # NoNonce /\ delivery[d].at + Window <= nonce[d[1]]
           \/ delivery[d].at + Window <= now

RanApart ==
    \A d, e \in Attempt : d # e /\ d[1] = e[1] /\ Ran(d) /\ Ran(e) =>
        delivery[d].at + Window <= delivery[e].at \/ delivery[e].at + Window <= delivery[d].at

ReplayInv == NoncesGuard /\ RanApart

LEMMA TimeIsTyped ==
    ASSUME IndInv
    PROVE  /\ Window \in Nat /\ now \in Nat
           /\ \A d \in Attempt : delivery[d].at \in Nat
           /\ \A r \in Request : nonce[r] \in Nat \union {NoNonce}
<1>1. Window \in Nat
  BY TimeAssumption DEF Window
<1> QED BY <1>1, TimeAssumption DEF IndInv, TypeOK, DeliveryCall

(* What runs now may: it has not run, or its last window is over. *)
LEMMA InsertNonceKeepsApart ==
    ASSUME IndInv, ReplayInv, NEW d \in Attempt, InsertNonce(d)
    PROVE  ReplayInv'
<1>1. /\ nonce[d[1]] = NoNonce /\ nonce' = [nonce EXCEPT ![d[1]] = now + Window]
      /\ delivery' = [delivery EXCEPT ![d] = [delivery[d] EXCEPT !.step = "recorded", !.at = now]]
      /\ now' = now /\ ~Ran(d)
  BY DEF InsertNonce, Step, Window, Ran
<1>2. d[1] \in Request /\ \A e \in Attempt : e[1] \in Request
  BY DEF Attempt
<1>3. delivery'[d].at = now /\ \A e \in Attempt \ {d} : delivery'[e] = delivery[e]
  BY <1>1, DeliveryIsTyped DEF IndInv, TypeOK, DeliveryCall
<1>4. nonce'[d[1]] = now + Window /\ \A r \in Request \ {d[1]} : nonce'[r] = nonce[r]
  BY <1>1, <1>2 DEF IndInv, TypeOK
<1>5. ASSUME NEW e \in Attempt, e # d, e[1] = d[1], Ran(e)
      PROVE  delivery[e].at <= now /\ delivery[e].at + Window <= now
  BY <1>1, <1>5 DEF ReplayInv, NoncesGuard
<1>6. NoncesGuard'
  <2>1. ASSUME NEW e \in Attempt, Ran(e)'
        PROVE  /\ delivery'[e].at <= now
               /\ \/ nonce'[e[1]] # NoNonce /\ delivery'[e].at + Window <= nonce'[e[1]]
                  \/ delivery'[e].at + Window <= now
    <3>1. CASE e = d
      BY <3>1, <1>3, <1>4, TimeIsTyped DEF NoNonce
    <3>2. CASE e # d /\ e[1] = d[1]
      BY <3>2, <2>1, <1>3, <1>5 DEF Ran
    <3>3. CASE e[1] # d[1]
      BY <3>3, <2>1, <1>2, <1>3, <1>4 DEF Ran, ReplayInv, NoncesGuard
    <3> QED BY <3>1, <3>2, <3>3
  <2> QED BY <2>1, <1>1 DEF NoncesGuard, Window
<1>7. RanApart'
  <2>1. ASSUME NEW e \in Attempt, NEW f \in Attempt, e # f, e[1] = f[1], Ran(e)', Ran(f)'
        PROVE  delivery'[e].at + Window <= delivery'[f].at \/ delivery'[f].at + Window <= delivery'[e].at
    <3>1. CASE e = d
      BY <3>1, <2>1, <1>3, <1>5 DEF Ran
    <3>2. CASE f = d
      BY <3>2, <2>1, <1>3, <1>5 DEF Ran
    <3>3. CASE e # d /\ f # d
      BY <3>3, <2>1, <1>3 DEF Ran, ReplayInv, RanApart
    <3> QED BY <3>1, <3>2, <3>3
  <2> QED BY <2>1 DEF RanApart, Window
<1> QED BY <1>6, <1>7 DEF ReplayInv

(* Steps after which nobody has run who had not, and every window that is     *)
(* open is still guarded.                                                     *)
LEMMA NobodyRuns ==
    ASSUME IndInv, ReplayInv, now <= now', now' \in Nat,
           \A d \in Attempt : Ran(d)' => Ran(d) /\ delivery'[d].at = delivery[d].at,
           \A r \in Request : nonce'[r] = nonce[r] \/ nonce[r] = NoNonce \/ nonce[r] <= now
    PROVE  ReplayInv'
<1>1. \A d \in Attempt : d[1] \in Request
  BY DEF Attempt
<1>2. NoncesGuard'
  <2>1. ASSUME NEW d \in Attempt, Ran(d)'
        PROVE  /\ delivery'[d].at <= now'
               /\ \/ nonce'[d[1]] # NoNonce /\ delivery'[d].at + Window <= nonce'[d[1]]
                  \/ delivery'[d].at + Window <= now'
    <3>1. /\ delivery'[d].at = delivery[d].at /\ delivery[d].at <= now
          /\ \/ nonce[d[1]] # NoNonce /\ delivery[d].at + Window <= nonce[d[1]]
             \/ delivery[d].at + Window <= now
      BY <2>1 DEF ReplayInv, NoncesGuard
    <3>2. nonce'[d[1]] = nonce[d[1]] \/ nonce[d[1]] = NoNonce \/ nonce[d[1]] <= now
      BY <1>1
    <3> QED BY <1>1, <3>1, <3>2, TimeIsTyped DEF NoNonce
  <2> QED BY <2>1 DEF NoncesGuard, Window
<1>3. RanApart'
  BY DEF RanApart, ReplayInv, Window
<1> QED BY <1>2, <1>3 DEF ReplayInv

LEMMA OtherDeliveriesKeepApart ==
    ASSUME IndInv, ReplayInv, NEW d \in Attempt,
           \/ ReadNode(d) \/ ReadTrust(d) \/ RefuseRequest(d)
           \/ SweepNonces(d) \/ RefuseNonce(d) \/ Respond(d)
    PROVE  ReplayInv'
<1>1. now' = now /\ \A e \in Attempt \ {d} : delivery'[e] = delivery[e]
  BY DEF IndInv, TypeOK, ReadNode, ReadTrust, RefuseRequest, SweepNonces, RefuseNonce, Respond, Step
<1>2. Ran(d)' => Ran(d) /\ delivery'[d].at = delivery[d].at
  <2>1. CASE ReadNode(d)
    BY <2>1, DeliveryIsTyped DEF IndInv, TypeOK, ReadNode, Step, Ran
  <2>2. CASE ReadTrust(d)
    BY <2>2, DeliveryIsTyped DEF IndInv, TypeOK, ReadTrust, Step, DeliveryCall, Ran
  <2>3. CASE RefuseRequest(d)
    BY <2>3, DeliveryIsTyped DEF IndInv, TypeOK, RefuseRequest, Step, DeliveryCall, Ran
  <2>4. CASE SweepNonces(d)
    BY <2>4, DeliveryIsTyped DEF IndInv, TypeOK, SweepNonces, Step, DeliveryCall, Ran
  <2>5. CASE RefuseNonce(d)
    BY <2>5, DeliveryIsTyped DEF IndInv, TypeOK, RefuseNonce, Step, DeliveryCall, Ran
  <2>6. CASE Respond(d)
    BY <2>6, DeliveryIsTyped DEF IndInv, TypeOK, Respond, Step, DeliveryCall, Ran
  <2> QED BY <2>1, <2>2, <2>3, <2>4, <2>5, <2>6
<1>3. \A r \in Request : nonce'[r] = nonce[r] \/ nonce[r] = NoNonce \/ nonce[r] <= now
  BY DEF ReadNode, ReadTrust, RefuseRequest, SweepNonces, RefuseNonce, Respond
<1>4. \A e \in Attempt : Ran(e)' => Ran(e) /\ delivery'[e].at = delivery[e].at
  BY <1>1, <1>2 DEF Ran
<1> QED BY <1>1, <1>3, <1>4, NobodyRuns, TimeIsTyped

LEMMA NextKeepsApart == IndInv /\ ReplayInv /\ [Next]_vars => ReplayInv'
<1> SUFFICES ASSUME IndInv, ReplayInv, [Next]_vars PROVE ReplayInv'
  OBVIOUS
<1>1. CASE UNCHANGED <<delivery, nonce, now>>
  BY <1>1, NobodyRuns, TimeIsTyped DEF Ran
<1>2. CASE \E d \in Attempt : InsertNonce(d)
  BY <1>2, InsertNonceKeepsApart
<1>3. CASE \E d \in Attempt : \/ ReadNode(d) \/ ReadTrust(d) \/ RefuseRequest(d)
                              \/ SweepNonces(d) \/ RefuseNonce(d) \/ Respond(d)
  BY <1>3, OtherDeliveriesKeepApart
<1>4. CASE Tick
  BY <1>4, NobodyRuns, TimeIsTyped DEF Tick, Ran
<1>5. CASE UNCHANGED vars \/ Done
  BY <1>5, <1>1 DEF vars, Done
<1>6. CASE \/ \E c \in Code, l \in Laboratory : CreatePairingCode(c, l)
           \/ \E c \in Code : Expire(c)
           \/ \E g \in Pairing, p \in Partners, c \in Code : PostPairing(g, p, c)
  BY <1>6, <1>1 DEF CreatePairingCode, Expire, PostPairing, Pairings
<1>7. CASE \E g \in Pairing : \/ AcceptPairing(g) \/ RefusePairing(g) \/ LoseReply(g)
                              \/ FailStore(g) \/ StoreTrust(g)
  <2>1. UNCHANGED <<delivery, nonce, now>>
    BY <1>7 DEF AcceptPairing, RefusePairing, LoseReply, FailStore, StoreTrust, Pairings
  <2> QED BY <2>1, <1>1
<1>8. CASE \E p \in Pair : RevokeTrust(p)
  <2>1. UNCHANGED <<delivery, nonce, now>>
    BY <1>8 DEF RevokeTrust, Pairings
  <2> QED BY <2>1, <1>1
<1>9. CASE \/ \E r \in Request, p \in Pair : AuthorizeProxy(r, p)
           \/ \E r \in Request : SignRequest(r)
  <2>1. UNCHANGED <<delivery, nonce, now>>
    BY <1>9 DEF AuthorizeProxy, SignRequest
  <2> QED BY <2>1, <1>1
<1> QED BY <1>2, <1>3, <1>4, <1>5, <1>6, <1>7, <1>8, <1>9 DEF Next

LEMMA ApartIsOncePerTtl == IndInv /\ ReplayInv => ServedOncePerTtl
<1> SUFFICES ASSUME IndInv, ReplayInv,
                    NEW d \in Attempt, NEW e \in Attempt, d # e, d[1] = e[1],
                    {delivery[d].step, delivery[e].step} \subseteq {"recorded", "served"}
             PROVE  delivery[d].at - delivery[e].at \notin (1 - Window) .. (Window - 1)
  BY DEF ServedOncePerTtl, Window
<1>1. delivery[d].at + Window <= delivery[e].at \/ delivery[e].at + Window <= delivery[d].at
  BY DEF ReplayInv, RanApart, Ran
<1> QED BY <1>1, TimeIsTyped

\* remember_nonce: a signed request runs once in a window, whatever the number
\* of its deliveries, the order of their statements and the skew of the clocks.
THEOREM RequestsRunOncePerTtl == Spec => []ServedOncePerTtl
<1>1. Init => ReplayInv
  BY DEF Init, ReplayInv, NoncesGuard, RanApart, Ran
<1> QED BY <1>1, InitIndInv, NextKeepsIndInv, NextKeepsApart, ApartIsOncePerTtl, PTL DEF Spec

-----------------------------------------------------------------------------
(* The secret of two nodes *)

Waiting(g) == pairing[g].step = "accepted" /\ pairing[g].waiting

(* Who accepted is unsettled until the requester has stored. *)
AcceptedIsUnsettled ==
    \A g \in Pairing : Waiting(g) => Nodes(pairing[g].pair) \in unsettled

(* A pairing that believes itself alone is, and its secret is still the one   *)
(* its issuer holds.                                                          *)
AloneIsAlone ==
    \A g, h \in Pairing :
        g # h /\ InFlight(g) /\ InFlight(h) /\ Nodes(pairing[g].pair) = Nodes(pairing[h].pair)
            => ~pairing[g].alone
AloneKeepsSecret ==
    \A g \in Pairing :
        Waiting(g) /\ pairing[g].alone /\ Home[pairing[g].accepted] = Home[pairing[g].pair[2]]
            => peer[Home[pairing[g].pair[2]]][Home[pairing[g].pair[1]]] = g

SecretInv == AcceptedIsUnsettled /\ AloneIsAlone /\ AloneKeepsSecret /\ SettledSecretsAgree

LEMMA PairingIsTyped ==
    ASSUME IndInv, NEW g \in Pairing, pairing[g].step # "unborn"
    PROVE  /\ pairing[g] \in PairingCall /\ pairing[g].pair \in Partners
           /\ pairing[g].pair[1] \in Laboratory /\ pairing[g].pair[2] \in Laboratory
           /\ Home[pairing[g].pair[1]] \in Node /\ Home[pairing[g].pair[2]] \in Node
           /\ Home[pairing[g].pair[1]] # Home[pairing[g].pair[2]]
  BY PartnersAssumption, HomeAssumption DEF IndInv, TypeOK, PairingCall

(* Steps that leave the secrets, and put no pairing in flight. *)
LEMMA SecretsStay ==
    ASSUME SecretInv, UNCHANGED <<peer, unsettled>>,
           \A g \in Pairing : InFlight(g)' =>
               /\ InFlight(g) /\ (Waiting(g)' => Waiting(g))
               /\ pairing'[g].pair = pairing[g].pair /\ pairing'[g].accepted = pairing[g].accepted
               /\ pairing'[g].alone = pairing[g].alone
    PROVE  SecretInv'
<1>1. \A g \in Pairing : Waiting(g)' => InFlight(g)'
  BY DEF Waiting, InFlight
<1>2. AcceptedIsUnsettled'
  BY <1>1 DEF SecretInv, AcceptedIsUnsettled, Nodes
<1>3. AloneIsAlone'
  BY DEF SecretInv, AloneIsAlone, Nodes
<1>4. AloneKeepsSecret'
  BY <1>1 DEF SecretInv, AloneKeepsSecret
<1>5. SettledSecretsAgree'
  BY DEF SecretInv, SettledSecretsAgree, Nodes
<1> QED BY <1>2, <1>3, <1>4, <1>5 DEF SecretInv

(* Whoever is in flight between the same nodes is told that they are two. *)
LEMMA PostPairingKeepsSecrets ==
    ASSUME IndInv, SecretInv, NEW g \in Pairing, NEW p \in Partners, NEW c \in Code, PostPairing(g, p, c)
    PROVE  SecretInv'
<1>1. UNCHANGED <<peer, unsettled>> /\ pairing[g].step = "unborn"
  BY DEF PostPairing
<1>2. /\ pairing'[g].step = "posted" /\ pairing'[g].pair = p
      /\ pairing'[g].alone = (Crossing(p) = {})
  <2> DEFINE new == [step |-> "posted", pair |-> p, code |-> c, accepted |-> p[2],
                     waiting |-> TRUE, alone |-> Crossing(p) = {}]
  <2>1. new.step = "posted" /\ new.pair = p /\ new.alone = (Crossing(p) = {})
    BY Zenon
  <2>2. pairing' = [h \in Pairing |->
           CASE h = g -> new
             [] h \in Crossing(p) -> [pairing[h] EXCEPT !.alone = FALSE]
             [] OTHER -> pairing[h]]
    BY DEF PostPairing
  <2>3. g \notin Crossing(p)
    BY DEF PostPairing, Crossing, InFlight
  <2>4. pairing'[g] = new
    <3> HIDE DEF new
    <3> QED BY <2>2, <2>3
  <2> HIDE DEF new
  <2> QED BY <2>1, <2>4
<1>3. ASSUME NEW h \in Pairing \ {g}
      PROVE  /\ pairing'[h].step = pairing[h].step
             /\ pairing[h].step # "unborn" =>
                  /\ pairing'[h].pair = pairing[h].pair /\ pairing'[h].accepted = pairing[h].accepted
                  /\ pairing'[h].waiting = pairing[h].waiting
                  /\ pairing'[h].alone <=> pairing[h].alone /\ h \notin Crossing(p)
  <2>1. CASE h \in Crossing(p)
    <3>1. pairing'[h] = [pairing[h] EXCEPT !.alone = FALSE]
      BY <2>1 DEF PostPairing
    <3>2. pairing[h] \in PairingCall
      BY <2>1 DEF IndInv, TypeOK, Crossing, InFlight
    <3> QED BY <3>1, <3>2, <2>1 DEF PairingCall
  <2>2. CASE h \notin Crossing(p)
    <3>1. pairing'[h] = pairing[h]
      BY <2>2 DEF PostPairing
    <3> QED BY <3>1, <2>2
  <2> QED BY <2>1, <2>2
<1>4. \A h \in Pairing \ {g} : InFlight(h)' <=> InFlight(h)
  BY <1>3 DEF InFlight
<1>5. \A h \in Pairing : Waiting(h)' => h # g /\ Waiting(h)
  BY <1>2, <1>3 DEF Waiting
<1>6. \A h \in Pairing : InFlight(h) /\ Nodes(pairing[h].pair) = Nodes(p) => h \in Crossing(p)
  BY DEF Crossing
<1>7. AcceptedIsUnsettled'
  BY <1>1, <1>3, <1>5 DEF SecretInv, AcceptedIsUnsettled, Waiting, Nodes
<1>8. AloneIsAlone'
  <2>1. ASSUME NEW h \in Pairing, NEW k \in Pairing, h # k, InFlight(h)', InFlight(k)',
               Nodes(pairing'[h].pair) = Nodes(pairing'[k].pair)
        PROVE  ~pairing'[h].alone
    <3>1. CASE h = g
      <4>1. k # g /\ InFlight(k) /\ pairing'[k].pair = pairing[k].pair
        BY <2>1, <3>1, <1>3, <1>4 DEF InFlight
      <4> QED BY <4>1, <3>1, <2>1, <1>2, <1>6
    <3>2. CASE k = g
      <4>1. h # g /\ InFlight(h) /\ pairing'[h].pair = pairing[h].pair
        BY <2>1, <3>2, <1>3, <1>4 DEF InFlight
      <4>2. h \in Crossing(p)
        BY <4>1, <3>2, <2>1, <1>2, <1>6
      <4>3. pairing[h].step # "unborn"
        BY <4>1 DEF InFlight
      <4> QED BY <4>1, <4>2, <4>3, <1>3
    <3>3. CASE h # g /\ k # g
      <4>1. InFlight(h) /\ InFlight(k)
        BY <3>3, <2>1, <1>4
      <4>2. pairing[h].step # "unborn" /\ pairing[k].step # "unborn"
        BY <4>1 DEF InFlight
      <4>3. ~pairing[h].alone
        BY <4>1, <4>2, <3>3, <2>1, <1>3 DEF SecretInv, AloneIsAlone
      <4> QED BY <4>2, <4>3, <3>3, <1>3
    <3> QED BY <3>1, <3>2, <3>3
  <2> QED BY <2>1 DEF AloneIsAlone, Nodes
<1>9. AloneKeepsSecret'
  <2>1. ASSUME NEW h \in Pairing, Waiting(h)', pairing'[h].alone,
               Home[pairing'[h].accepted] = Home[pairing'[h].pair[2]]
        PROVE  peer[Home[pairing'[h].pair[2]]][Home[pairing'[h].pair[1]]] = h
    <3>1. h # g /\ Waiting(h) /\ pairing[h].step # "unborn"
      BY <2>1, <1>5 DEF Waiting
    <3> QED BY <3>1, <2>1, <1>3 DEF SecretInv, AloneKeepsSecret
  <2> QED BY <2>1, <1>1 DEF AloneKeepsSecret
<1>10. SettledSecretsAgree'
  BY <1>1 DEF SecretInv, SettledSecretsAgree, Nodes
<1> QED BY <1>7, <1>8, <1>9, <1>10 DEF SecretInv

(* Two sides of two pairs of nodes that are the same, or the other way round. *)
LEMMA SameNodes ==
    ASSUME NEW a, NEW b, NEW c, NEW d
    PROVE  {a, b} = {c, d} <=> (a = c /\ b = d) \/ (a = d /\ b = c)
  OBVIOUS

(* The acceptance gives the issuer the new secret, and unsettles the nodes.   *)
LEMMA AcceptPairingKeepsSecrets ==
    ASSUME IndInv, SecretInv, NEW g \in Pairing, AcceptPairing(g)
    PROVE  SecretInv'
<1> DEFINE issuer == code[pairing[g].code].lab
           p == pairing[g].pair
<1>1. pairing[g].step = "posted" /\ pairing[g].step # "unborn"
  BY DEF AcceptPairing
<1>2. /\ pairing[g] \in PairingCall /\ p \in Partners
      /\ Home[p[1]] \in Node /\ Home[p[2]] \in Node /\ Home[p[1]] # Home[p[2]]
  BY <1>1, PairingIsTyped
<1>3. Home[issuer] = Home[p[2]] /\ {Home[issuer], Home[p[1]]} = Nodes(p)
  BY DEF AcceptPairing, Usable, Nodes
<1>4. unsettled' = unsettled \union {Nodes(p)}
  BY <1>3 DEF AcceptPairing
<1>5. /\ peer'[Home[p[2]]][Home[p[1]]] = g
      /\ \A m, n \in Node : m # Home[p[2]] \/ n # Home[p[1]] => peer'[m][n] = peer[m][n]
  BY <1>2, <1>3 DEF AcceptPairing, Refresh, IndInv, TypeOK
<1>6. /\ \A h \in Pairing \ {g} : pairing'[h] = pairing[h]
      /\ pairing'[g].step = "accepted" /\ pairing'[g].accepted = issuer
      /\ pairing'[g].pair = p /\ pairing'[g].alone = pairing[g].alone
      /\ pairing'[g].waiting = pairing[g].waiting
  BY <1>2 DEF AcceptPairing, IndInv, TypeOK, PairingCall
<1>7. InFlight(g) /\ \A h \in Pairing : InFlight(h)' => InFlight(h)
  BY <1>1, <1>6 DEF InFlight
<1>8. \A h \in Pairing : pairing'[h].pair = pairing[h].pair /\ pairing'[h].alone = pairing[h].alone
  BY <1>6
<1>9. AcceptedIsUnsettled'
  <2>1. ASSUME NEW h \in Pairing, Waiting(h)' PROVE Nodes(pairing'[h].pair) \in unsettled'
    <3>1. CASE h = g
      BY <3>1, <1>4, <1>6
    <3>2. CASE h # g
      BY <3>2, <2>1, <1>4, <1>6 DEF SecretInv, AcceptedIsUnsettled, Waiting
    <3> QED BY <3>1, <3>2
  <2> QED BY <2>1 DEF AcceptedIsUnsettled, Nodes
<1>10. AloneIsAlone'
  BY <1>7, <1>8 DEF SecretInv, AloneIsAlone, Nodes
<1>11. AloneKeepsSecret'
  <2>1. ASSUME NEW h \in Pairing, Waiting(h)', pairing'[h].alone,
               Home[pairing'[h].accepted] = Home[pairing'[h].pair[2]]
        PROVE  peer'[Home[pairing'[h].pair[2]]][Home[pairing'[h].pair[1]]] = h
    <3>1. CASE h = g
      BY <3>1, <1>5, <1>6
    <3>2. CASE h # g
      <4> DEFINE q == pairing[h].pair
      <4>1. Waiting(h) /\ pairing'[h] = pairing[h] /\ pairing[h].alone
        BY <3>2, <2>1, <1>6 DEF Waiting
      <4>2. InFlight(h) /\ pairing[h].step # "unborn"
        BY <4>1 DEF InFlight, Waiting
      <4>3. Home[q[1]] \in Node /\ Home[q[2]] \in Node
        BY <4>2, PairingIsTyped
      <4>4. Nodes(q) # Nodes(p)
        BY <4>1, <4>2, <3>2, <1>7 DEF SecretInv, AloneIsAlone
      <4>5. Home[q[2]] # Home[p[2]] \/ Home[q[1]] # Home[p[1]]
        BY <4>4 DEF Nodes
      <4>6. peer[Home[q[2]]][Home[q[1]]] = h
        BY <4>1, <2>1 DEF SecretInv, AloneKeepsSecret
      <4> QED BY <4>1, <4>3, <4>5, <4>6, <1>5
    <3> QED BY <3>1, <3>2
  <2> QED BY <2>1 DEF AloneKeepsSecret
<1>12. SettledSecretsAgree'
  <2>1. ASSUME NEW q \in Partners, Nodes(q) \notin unsettled'
        PROVE  peer'[Home[q[1]]][Home[q[2]]] = peer'[Home[q[2]]][Home[q[1]]]
    <3>1. Nodes(q) # Nodes(p) /\ Nodes(q) \notin unsettled
      BY <2>1, <1>4
    <3>2. ~(Home[q[1]] = Home[p[1]] /\ Home[q[2]] = Home[p[2]])
          /\ ~(Home[q[1]] = Home[p[2]] /\ Home[q[2]] = Home[p[1]])
      BY <3>1, SameNodes DEF Nodes
    <3>3. Home[q[1]] \in Node /\ Home[q[2]] \in Node
      BY PartnersAssumption, HomeAssumption
    <3>4. peer'[Home[q[1]]][Home[q[2]]] = peer[Home[q[1]]][Home[q[2]]]
          /\ peer'[Home[q[2]]][Home[q[1]]] = peer[Home[q[2]]][Home[q[1]]]
      BY <3>2, <3>3, <1>5
    <3> QED BY <3>1, <3>4 DEF SecretInv, SettledSecretsAgree
  <2> QED BY <2>1 DEF SettledSecretsAgree, Nodes
<1> QED BY <1>9, <1>10, <1>11, <1>12 DEF SecretInv

(* The requester stores the secret; when it was alone, both sides have it.    *)
LEMMA StoreTrustKeepsSecrets ==
    ASSUME IndInv, SecretInv, NEW g \in Pairing, StoreTrust(g)
    PROVE  SecretInv'
<1> DEFINE p == pairing[g].pair
<1>1. Waiting(g) /\ pairing[g].accepted = p[2] /\ pairing[g].step # "unborn" /\ InFlight(g)
  BY DEF StoreTrust, Storable, Waiting, InFlight
<1>2. /\ pairing[g] \in PairingCall /\ p \in Partners
      /\ Home[p[1]] \in Node /\ Home[p[2]] \in Node /\ Home[p[1]] # Home[p[2]]
  BY <1>1, PairingIsTyped
<1>3. Nodes(p) \in unsettled
  BY <1>1 DEF SecretInv, AcceptedIsUnsettled
<1>4. unsettled' = IF pairing[g].alone THEN unsettled \ {Nodes(p)} ELSE unsettled
  BY DEF StoreTrust
<1>5. /\ peer'[Home[p[1]]][Home[p[2]]] = g
      /\ \A m, n \in Node : m # Home[p[1]] \/ n # Home[p[2]] => peer'[m][n] = peer[m][n]
  BY <1>2 DEF StoreTrust, Refresh, IndInv, TypeOK
<1>6. /\ \A h \in Pairing \ {g} : pairing'[h] = pairing[h]
      /\ pairing'[g].step = "stored"
  BY <1>2 DEF StoreTrust, IndInv, TypeOK, PairingCall
<1>7. \A h \in Pairing : (InFlight(h)' => h # g /\ InFlight(h)) /\ (Waiting(h)' => h # g /\ Waiting(h))
  BY <1>6 DEF InFlight, Waiting
<1>8. AcceptedIsUnsettled'
  <2>1. ASSUME NEW h \in Pairing, Waiting(h)' PROVE Nodes(pairing'[h].pair) \in unsettled'
    <3>1. h # g /\ Waiting(h) /\ pairing'[h] = pairing[h] /\ InFlight(h)
      BY <2>1, <1>6, <1>7 DEF Waiting, InFlight
    <3>2. Nodes(pairing[h].pair) \in unsettled
      BY <3>1 DEF SecretInv, AcceptedIsUnsettled
    <3>3. pairing[g].alone => Nodes(pairing[h].pair) # Nodes(p)
      BY <3>1, <1>1 DEF SecretInv, AloneIsAlone
    <3> QED BY <3>1, <3>2, <3>3, <1>4
  <2> QED BY <2>1 DEF AcceptedIsUnsettled, Nodes
<1>9. AloneIsAlone'
  BY <1>6, <1>7 DEF SecretInv, AloneIsAlone, Nodes
<1>10. AloneKeepsSecret'
  <2>1. ASSUME NEW h \in Pairing, Waiting(h)', pairing'[h].alone,
               Home[pairing'[h].accepted] = Home[pairing'[h].pair[2]]
        PROVE  peer'[Home[pairing'[h].pair[2]]][Home[pairing'[h].pair[1]]] = h
    <3> DEFINE q == pairing[h].pair
    <3>1. h # g /\ Waiting(h) /\ pairing'[h] = pairing[h] /\ InFlight(h) /\ pairing[h].step # "unborn"
      BY <2>1, <1>6, <1>7 DEF Waiting, InFlight
    <3>2. Nodes(q) # Nodes(p)
      BY <3>1, <2>1, <1>1 DEF SecretInv, AloneIsAlone
    <3>3. Home[q[2]] # Home[p[1]] \/ Home[q[1]] # Home[p[2]]
      BY <3>2, SameNodes DEF Nodes
    <3>4. Home[q[1]] \in Node /\ Home[q[2]] \in Node
      BY <3>1, PairingIsTyped
    <3>5. peer[Home[q[2]]][Home[q[1]]] = h
      BY <3>1, <2>1 DEF SecretInv, AloneKeepsSecret
    <3> QED BY <3>1, <3>3, <3>4, <3>5, <1>5
  <2> QED BY <2>1 DEF AloneKeepsSecret
<1>11. SettledSecretsAgree'
  <2>1. ASSUME NEW q \in Partners, Nodes(q) \notin unsettled'
        PROVE  peer'[Home[q[1]]][Home[q[2]]] = peer'[Home[q[2]]][Home[q[1]]]
    <3>1. Home[q[1]] \in Node /\ Home[q[2]] \in Node
      BY PartnersAssumption, HomeAssumption
    <3>2. CASE Nodes(q) = Nodes(p)
      <4>1. pairing[g].alone
        BY <3>2, <2>1, <1>3, <1>4
      <4>2. peer[Home[p[2]]][Home[p[1]]] = g
        BY <4>1, <1>1 DEF SecretInv, AloneKeepsSecret
      <4>3. peer'[Home[p[2]]][Home[p[1]]] = g
        BY <4>2, <1>2, <1>5
      <4> QED BY <3>2, <4>3, <1>5, SameNodes DEF Nodes
    <3>3. CASE Nodes(q) # Nodes(p)
      <4>1. ~(Home[q[1]] = Home[p[1]] /\ Home[q[2]] = Home[p[2]])
            /\ ~(Home[q[1]] = Home[p[2]] /\ Home[q[2]] = Home[p[1]])
        BY <3>3, SameNodes DEF Nodes
      <4>2. peer'[Home[q[1]]][Home[q[2]]] = peer[Home[q[1]]][Home[q[2]]]
            /\ peer'[Home[q[2]]][Home[q[1]]] = peer[Home[q[2]]][Home[q[1]]]
        BY <4>1, <3>1, <1>5
      <4>3. Nodes(q) \notin unsettled
        BY <3>3, <2>1, <1>4
      <4> QED BY <4>2, <4>3 DEF SecretInv, SettledSecretsAgree
    <3> QED BY <3>2, <3>3
  <2> QED BY <2>1 DEF SettledSecretsAgree, Nodes
<1> QED BY <1>8, <1>9, <1>10, <1>11 DEF SecretInv

(* A pairing that fails is in flight no more, or still is and nobody waits.   *)
LEMMA FailuresKeepSecrets ==
    ASSUME IndInv, SecretInv, NEW g \in Pairing, RefusePairing(g) \/ LoseReply(g) \/ FailStore(g)
    PROVE  SecretInv'
<1>1. pairing[g] \in PairingCall
  BY DEF IndInv, TypeOK, RefusePairing, LoseReply, FailStore, InFlight
<1>2. /\ \A h \in Pairing \ {g} : pairing'[h] = pairing[h]
      /\ pairing'[g].pair = pairing[g].pair /\ pairing'[g].accepted = pairing[g].accepted
      /\ pairing'[g].alone = pairing[g].alone
      /\ pairing'[g].step \in {pairing[g].step, "failed"}
      /\ pairing'[g].waiting => pairing[g].waiting
  <2>1. CASE RefusePairing(g)
    BY <2>1, <1>1 DEF IndInv, TypeOK, RefusePairing, PairingCall
  <2>2. CASE LoseReply(g)
    BY <2>2, <1>1 DEF IndInv, TypeOK, LoseReply, InFlight, PairingCall
  <2>3. CASE FailStore(g)
    BY <2>3, <1>1 DEF IndInv, TypeOK, FailStore, PairingCall
  <2> QED BY <2>1, <2>2, <2>3
<1>3. UNCHANGED <<peer, unsettled>>
  BY DEF RefusePairing, LoseReply, FailStore
<1>4. ASSUME NEW h \in Pairing, InFlight(h)'
      PROVE  /\ InFlight(h) /\ (Waiting(h)' => Waiting(h))
             /\ pairing'[h].pair = pairing[h].pair /\ pairing'[h].accepted = pairing[h].accepted
             /\ pairing'[h].alone = pairing[h].alone
  BY <1>2, <1>4 DEF InFlight, Waiting
<1> QED BY <1>3, <1>4, SecretsStay

LEMMA NextKeepsSecrets == IndInv /\ SecretInv /\ [Next]_vars => SecretInv'
<1> SUFFICES ASSUME IndInv, SecretInv, [Next]_vars PROVE SecretInv'
  OBVIOUS
<1>1. CASE UNCHANGED <<pairing, peer, unsettled>>
  BY <1>1, SecretsStay DEF InFlight, Waiting
<1>2. CASE UNCHANGED vars \/ Done \/ Tick
  BY <1>1, <1>2 DEF vars, Done, Tick
<1>3. CASE \/ \E c \in Code, l \in Laboratory : CreatePairingCode(c, l)
           \/ \E c \in Code : Expire(c)
  BY <1>1, <1>3 DEF CreatePairingCode, Expire
<1>4. CASE \E g \in Pairing, p \in Partners, c \in Code : PostPairing(g, p, c)
  BY <1>4, PostPairingKeepsSecrets
<1>5. CASE \E g \in Pairing : AcceptPairing(g)
  BY <1>5, AcceptPairingKeepsSecrets
<1>6. CASE \E g \in Pairing : RefusePairing(g) \/ LoseReply(g) \/ FailStore(g)
  BY <1>6, FailuresKeepSecrets
<1>7. CASE \E g \in Pairing : StoreTrust(g)
  BY <1>7, StoreTrustKeepsSecrets
<1>8. CASE \E p \in Pair : RevokeTrust(p)
  <2>1. UNCHANGED <<pairing, peer, unsettled>>
    BY <1>8 DEF RevokeTrust
  <2> QED BY <2>1, <1>1
<1>9. CASE \/ \E r \in Request, p \in Pair : AuthorizeProxy(r, p)
           \/ \E r \in Request : SignRequest(r)
  <2>1. UNCHANGED <<pairing, peer, unsettled>>
    BY <1>9 DEF AuthorizeProxy, SignRequest, Requests
  <2> QED BY <2>1, <1>1
<1>10. CASE \E d \in Attempt : \/ ReadNode(d) \/ ReadTrust(d) \/ RefuseRequest(d)
                               \/ SweepNonces(d) \/ InsertNonce(d) \/ RefuseNonce(d)
                               \/ Respond(d)
  <2>1. UNCHANGED <<pairing, peer, unsettled>>
    BY <1>10 DEF ReadNode, ReadTrust, RefuseRequest, SweepNonces, InsertNonce, RefuseNonce, Respond,
                 Step, Requests
  <2> QED BY <2>1, <1>1
<1> QED BY <1>2, <1>3, <1>4, <1>5, <1>6, <1>7, <1>8, <1>9, <1>10 DEF Next

LEMMA InitSecrets == Init => SecretInv
<1> SUFFICES ASSUME Init PROVE SecretInv
  OBVIOUS
<1>1. \A g \in Pairing : pairing[g].step = "unborn"
  BY DEF Init
<1>2. ASSUME NEW p \in Partners
      PROVE  peer[Home[p[1]]][Home[p[2]]] = peer[Home[p[2]]][Home[p[1]]]
  <2>1. Home[p[1]] \in Node /\ Home[p[2]] \in Node
    BY PartnersAssumption, HomeAssumption
  <2>2. {Home[p[1]], Home[p[2]]} = {Home[p[2]], Home[p[1]]}
    OBVIOUS
  <2> QED BY <2>1, <2>2 DEF Init
<1> QED BY <1>1, <1>2 DEF SecretInv, AcceptedIsUnsettled, AloneIsAlone, AloneKeepsSecret,
                          SettledSecretsAgree, InFlight, Waiting

\* create_trust and accept_pairing: a pairing that met no other leaves both nodes
\* with its secret, whatever the pairings before it left behind.
THEOREM PairedNodesShareTheSecret == Spec => []SettledSecretsAgree
<1>1. SecretInv => SettledSecretsAgree
  BY DEF SecretInv
<1> QED BY <1>1, InitIndInv, NextKeepsIndInv, InitSecrets, NextKeepsSecrets, PTL DEF Spec
=============================================================================
