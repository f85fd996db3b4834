---------------------------- MODULE RemotePairing ----------------------------
(***************************************************************************)
(* How a machine becomes an enrolled node: the pairing half of the broker  *)
(* (infrastructure/remote/pairing.go and the invite, pair and revoke       *)
(* handlers of broker.go) and the pairing commands of the worker           *)
(* (remotecmd/pairing.go and pairWithDelivery in remotecmd/run.go).        *)
(*                                                                         *)
(* A credential and its hash are one opaque token, a verification code and *)
(* an invitation secret are opaque values that are never drawn twice while *)
(* one of them is in use.  Time is a clock that the code only compares.    *)
(***************************************************************************)
EXTENDS Integers, FiniteSets

CONSTANTS
    Nodes,        \* node names
    Workers,      \* worker state directories
    WorkerNode,   \* the node name a directory is paired under
    Tokens,       \* worker credentials (32 random bytes each)
    Codes,        \* verification codes
    Secrets,      \* invitation secrets
    Window,       \* lifetime of a pairing window and of an invitation (15 minutes)
    RateWindow,   \* period of the request limit (1 minute)
    RateLimit,    \* new requests per period (12)
    MaxPairings,  \* retained requests (32)
    MaxNodes,     \* retained enrollments (64)
    MaxTime,      \* bound on the clock
    MaxFaults,    \* bound on crashes, failed writes and abandoned calls
    None

ASSUME PairingAssumption ==
    /\ WorkerNode \in [Workers -> Nodes]
    /\ Window \in Nat \ {0} /\ RateWindow \in Nat \ {0} /\ RateLimit \in Nat
    /\ MaxPairings \in Nat /\ MaxNodes \in Nat
    /\ MaxTime \in Nat /\ MaxFaults \in Nat
    /\ None \notin Nodes \cup Tokens \cup Secrets

VARIABLES
    up, poisoned,        \* the broker runs; Broker.poisoned
    nodes,               \* BrokerState.Nodes
    pairings,            \* BrokerState.Pairings
    until,               \* BrokerState.PairingUntil
    rate,                \* pairingRateStart and pairingRateCount
    diskNodes, diskPairings, diskUntil,   \* broker.json
    clock,
    saved,               \* the token in <worker>/worker.json
    pc,                  \* the pairing command of a worker
    net,                 \* requests the broker has not answered
    issued,              \* invitation files handed out
    bound,               \* history: tokens that were enrolled, per node
    faults

memory == <<nodes, pairings, until, rate>>
disk == <<diskNodes, diskPairings, diskUntil>>
workers == <<saved, pc>>
vars == <<up, poisoned, memory, disk, clock, workers, net, issued, bound, faults>>

-----------------------------------------------------------------------------
Enrollment == [secret : Secrets \cup {None}, expires : Nat,
               token : Tokens \cup {None}, revoked : BOOLEAN]
NoEnrollment == [secret |-> None, expires |-> 0, token |-> "absent", revoked |-> FALSE]

Session == [node : Nodes, token : Tokens, expires : Nat,
            status : {"pending", "approved", "denied"}]
NoSession == [node |-> None, token |-> None, expires |-> 0, status |-> "absent"]

(* POST /v1/pairing-request and POST /v1/pair; the second has a secret.    *)
Request == [worker : Workers, token : Tokens, secret : Secrets \cup {None}]

(* A pairing command is not running, waits before it asks again, waits for *)
(* an answer, or does either after it has replaced a revoked token.        *)
PC == {"off", "ready", "asked", "readyRotated", "askedRotated"}

NodesType == [Nodes -> Enrollment \cup {NoEnrollment}]
PairingsType == [Codes -> Session \cup {NoSession}]

MemoryTypeOK ==
    /\ nodes \in NodesType /\ pairings \in PairingsType /\ until \in Nat
    /\ rate \in [start : Nat, count : 0..RateLimit]

DiskTypeOK ==
    /\ diskNodes \in NodesType /\ diskPairings \in PairingsType /\ diskUntil \in Nat
    /\ bound \in [Nodes -> SUBSET Tokens]

WorkersTypeOK ==
    /\ saved \in [Workers -> Tokens \cup {None}]
    /\ pc \in [Workers -> PC]
    /\ \A w \in Workers : pc[w] # "off" => saved[w] \in Tokens

TypeOK ==
    /\ up \in BOOLEAN /\ poisoned \in BOOLEAN
    /\ MemoryTypeOK /\ DiskTypeOK /\ WorkersTypeOK
    /\ clock \in 0..MaxTime
    /\ net \in SUBSET Request
    /\ issued \in SUBSET (Nodes \X Secrets)
    /\ faults \in 0..MaxFaults

Init ==
    /\ up = TRUE /\ poisoned = FALSE
    /\ nodes = [n \in Nodes |-> NoEnrollment] /\ diskNodes = nodes
    /\ pairings = [c \in Codes |-> NoSession] /\ diskPairings = pairings
    /\ until = 0 /\ diskUntil = 0
    /\ rate = [start |-> 0, count |-> 0]
    /\ clock = 0
    /\ saved = [w \in Workers |-> None]
    /\ pc = [w \in Workers |-> "off"]
    /\ net = {} /\ issued = {} /\ faults = 0
    /\ bound = [n \in Nodes |-> {}]

-----------------------------------------------------------------------------
Fault == faults < MaxFaults /\ faults' = faults + 1

Serving == up /\ ~poisoned

Enrolled(e) == e # NoEnrollment /\ ~e.revoked /\ e.token # None

(* Mutation of SaveFails: the broker goes on serving.                      *)
SaveFailsUnnoticed ==
    /\ Fault
    /\ \/ diskNodes' = nodes' /\ diskPairings' = pairings' /\ diskUntil' = until'
       \/ UNCHANGED disk
    /\ UNCHANGED poisoned

(* Broker.save, as in RemoteNode: it publishes what memory holds now, or   *)
(* fails with the file in either state and poisons the broker.             *)
SaveSucceeds ==
    /\ diskNodes' = nodes' /\ diskPairings' = pairings' /\ diskUntil' = until'
    /\ UNCHANGED <<poisoned, faults>>

SaveFails ==
    /\ Fault
    /\ \/ diskNodes' = nodes' /\ diskPairings' = pairings' /\ diskUntil' = until'
       \/ UNCHANGED disk
    /\ poisoned' = TRUE

Save ==
    /\ SaveSucceeds \/ SaveFails
    /\ bound' = [n \in Nodes |-> IF diskNodes'[n].token \in Tokens
                                 THEN bound[n] \cup {diskNodes'[n].token} ELSE bound[n]]

-----------------------------------------------------------------------------
(* Operator requests.                                                      *)

PairingOpen ==
    /\ Serving
    /\ until' = clock + Window
    /\ UNCHANGED <<nodes, pairings, rate>>
    /\ Save
    /\ UNCHANGED <<up, clock, workers, net, issued>>

PairingClose ==
    /\ Serving
    /\ until' = 0
    /\ pairings' = [c \in Codes |-> IF pairings[c].status = "pending"
                                    THEN [pairings[c] EXCEPT !.status = "denied"]
                                    ELSE pairings[c]]
    /\ UNCHANGED <<nodes, rate>>
    /\ Save
    /\ UNCHANGED <<up, clock, workers, net, issued>>

Pending(code) == pairings[code].status = "pending" /\ clock < pairings[code].expires

Deny(code) ==
    /\ Serving
    /\ Pending(code)
    /\ pairings' = [pairings EXCEPT ![code].status = "denied"]
    /\ UNCHANGED <<nodes, until, rate>>
    /\ Save
    /\ UNCHANGED <<up, clock, workers, net, issued>>

Names == {n \in Nodes : nodes[n] # NoEnrollment}

(* A free name, an unused invitation and a revoked node are replaced; an   *)
(* enrolled node is not.                                                   *)
MayEnroll(node) ==
    /\ ~Enrolled(nodes[node])
    /\ nodes[node] = NoEnrollment => Cardinality(Names) < MaxNodes

(* Mutation of Approve: the name is not looked at again.                   *)
ApproveBlindly(code) ==
    LET session == pairings[code]
    IN  /\ Serving
        /\ Pending(code)
        /\ nodes' = [nodes EXCEPT ![session.node] =
                        [secret |-> None, expires |-> 0, token |-> session.token,
                         revoked |-> FALSE]]
        /\ pairings' = [pairings EXCEPT ![code].status = "approved"]
        /\ UNCHANGED <<until, rate>>
        /\ Save
        /\ UNCHANGED <<up, clock, workers, net, issued>>

Approve(code) ==
    LET session == pairings[code]
    IN  /\ Serving
        /\ Pending(code)
        /\ MayEnroll(session.node)
        /\ nodes' = [nodes EXCEPT ![session.node] =
                        [secret |-> None, expires |-> 0, token |-> session.token,
                         revoked |-> FALSE]]
        /\ pairings' = [pairings EXCEPT ![code].status = "approved"]
        /\ UNCHANGED <<until, rate>>
        /\ Save
        /\ UNCHANGED <<up, clock, workers, net, issued>>

(* The invitation file exists if the broker could save the enrollment.     *)
Invite(node, secret) ==
    /\ Serving
    /\ nodes[node] = NoEnrollment /\ Cardinality(Names) < MaxNodes
    /\ \A other \in Nodes : <<other, secret>> \notin issued /\ nodes[other].secret # secret
    /\ nodes' = [nodes EXCEPT ![node] =
                    [secret |-> secret, expires |-> clock + Window, token |-> None,
                     revoked |-> FALSE]]
    /\ UNCHANGED <<pairings, until, rate>>
    /\ Save
    /\ issued' = IF poisoned' THEN issued ELSE issued \cup {<<node, secret>>}
    /\ UNCHANGED <<up, clock, workers, net>>

Revoke(node) ==
    /\ Serving
    /\ nodes[node] # NoEnrollment
    /\ nodes' = [nodes EXCEPT ![node].revoked = TRUE]
    /\ UNCHANGED <<pairings, until, rate>>
    /\ Save
    /\ UNCHANGED <<up, clock, workers, net, issued>>

-----------------------------------------------------------------------------
(* Worker commands and the answers they get.                               *)

(* Secret: a token that no file, request or enrollment mentions.           *)
FreshToken(t) ==
    /\ \A w \in Workers : saved[w] # t
    /\ \A n \in Nodes : t \notin bound[n] /\ nodes[n].token # t
    /\ \A c \in Codes : pairings[c].token # t /\ diskPairings[c].token # t
    /\ \A m \in net : m.token # t

(* Both commands read worker.json or create it before anything is sent.    *)
Prepare(w, t) ==
    /\ IF saved[w] = None THEN FreshToken(t) ELSE t = saved[w]
    /\ saved' = [saved EXCEPT ![w] = t]

Send(w, t, secret) == net' = net \cup {[worker |-> w, token |-> t, secret |-> secret]}

(* remote pair --endpoint: create or read the token, then ask.             *)
PairOnline(w, t) ==
    /\ pc[w] = "off"
    /\ Prepare(w, t)
    /\ pc' = [pc EXCEPT ![w] = "ready"]
    /\ UNCHANGED <<up, poisoned, memory, disk, clock, net, issued, bound, faults>>

Ask(w) ==
    /\ pc[w] \in {"ready", "readyRotated"}
    /\ Send(w, saved[w], None)
    /\ pc' = [pc EXCEPT ![w] = IF @ = "ready" THEN "asked" ELSE "askedRotated"]
    /\ UNCHANGED <<up, poisoned, memory, disk, clock, saved, issued, bound, faults>>

(* remote pair --invite: one call, whose answer changes nothing here.      *)
PairWithInvitation(w, t, secret) ==
    /\ pc[w] = "off"
    /\ <<WorkerNode[w], secret>> \in issued
    /\ Prepare(w, t)
    /\ Send(w, t, secret)
    /\ UNCHANGED <<up, poisoned, memory, disk, clock, pc, issued, bound, faults>>

(* The command is stopped, its call fails or its deadline passes.          *)
PairStops(w) ==
    /\ pc[w] # "off"
    /\ Fault
    /\ pc' = [pc EXCEPT ![w] = "off"]
    /\ UNCHANGED <<up, poisoned, memory, disk, clock, saved, net, issued, bound>>

(* The loop of pairOnline for each status; a worker that no longer waits   *)
(* for this request does not see the answer.                               *)
Sees(m) == m.secret = None /\ pc[m.worker] \in {"asked", "askedRotated"}
               /\ saved[m.worker] = m.token

Reply(m, status) ==
    LET w == m.worker
        again == IF pc[w] = "asked" THEN "ready" ELSE "readyRotated"
    IN  IF ~Sees(m) THEN UNCHANGED workers
        ELSE CASE status = "pending" ->
                    pc' = [pc EXCEPT ![w] = again] /\ UNCHANGED saved
               [] status = "revoked" /\ pc[w] = "asked" ->
                    /\ \E t \in Tokens : FreshToken(t) /\ saved' = [saved EXCEPT ![w] = t]
                    /\ pc' = [pc EXCEPT ![w] = "readyRotated"]
               [] OTHER ->
                    pc' = [pc EXCEPT ![w] = "off"] /\ UNCHANGED saved

Handle(m) == Serving /\ m \in net /\ net' = net \ {m}

-----------------------------------------------------------------------------
(* requestPairing.                                                         *)

Asker(m) == WorkerNode[m.worker]

TokenOfAnother(m) == \E n \in Nodes \ {Asker(m)} : nodes[n].token = m.token
TokenIsNodes(m) == nodes[Asker(m)].token = m.token
RequestOfAnother(m) ==
    \E c \in Codes : pairings[c].token = m.token /\ pairings[c].node # Asker(m)

Mine(m) == {c \in Codes : pairings[c].token = m.token /\ pairings[c].node = Asker(m)}

Expired(c) == pairings[c] # NoSession /\ clock >= pairings[c].expires

(* Expired requests are dropped from memory as they are met; only a        *)
(* request that is accepted also saves.                                    *)
Without(codes) == [c \in Codes |-> IF c \in codes THEN NoSession ELSE pairings[c]]

(* The token is the node's: approved, or revoked with the node.            *)
Identified(m) ==
    /\ Handle(m) /\ m.secret = None
    /\ ~TokenOfAnother(m) /\ TokenIsNodes(m)
    /\ Reply(m, IF nodes[Asker(m)].revoked THEN "revoked" ELSE "approved")
    /\ UNCHANGED <<up, poisoned, memory, disk, clock, issued, bound, faults>>

(* The retained requests are only searched for a token of no node.         *)
Searched(m) == ~TokenOfAnother(m) /\ ~TokenIsNodes(m)

(* A request that is still known is answered again.                        *)
Repeated(m) ==
    /\ Handle(m) /\ m.secret = None
    /\ Searched(m) /\ ~RequestOfAnother(m)
    /\ \E c \in Mine(m) :
          /\ pairings[c].status # "approved" /\ ~Expired(c)
          /\ Reply(m, pairings[c].status)
    /\ UNCHANGED <<up, poisoned, memory, disk, clock, issued, bound, faults>>

(* The request is unknown here: what may be registered.                    *)
Unknown(m) ==
    /\ Searched(m) /\ ~RequestOfAnother(m)
    /\ \A c \in Mine(m) : pairings[c].status # "approved" /\ Expired(c)

NewRate == IF clock - rate.start >= RateWindow THEN [start |-> clock, count |-> 0] ELSE rate

(* Mutation of WithinRate: one request more than the limit.                *)
WithinRateOffByOne == NewRate.count <= RateLimit

WithinRate == NewRate.count < RateLimit
Counted == [NewRate EXCEPT !.count = @ + 1]
Live == {c \in Codes : pairings[c] # NoSession /\ ~Expired(c)}

Full(m) == Cardinality(Live) >= MaxPairings \/ Enrolled(nodes[Asker(m)])

(* Errors: another node has the token, an approval that no longer holds,   *)
(* a closed window, the request limit, the capacity or an enrolled name.   *)
Refused(m) ==
    /\ Handle(m) /\ m.secret = None
    /\ \/ /\ \/ TokenOfAnother(m)
             \/ /\ Searched(m)
                /\ \/ RequestOfAnother(m)
                   \/ \E c \in Mine(m) : pairings[c].status = "approved"
          /\ UNCHANGED <<pairings, rate>>
       \/ /\ Unknown(m) /\ clock >= until
          /\ pairings' = Without(Mine(m)) /\ UNCHANGED rate
       \/ /\ Unknown(m) /\ clock < until /\ ~WithinRate
          /\ pairings' = Without(Mine(m)) /\ rate' = NewRate
       \/ /\ Unknown(m) /\ clock < until /\ WithinRate
          /\ Full(m)
          /\ pairings' = Without({c \in Codes : Expired(c)}) /\ rate' = Counted
    /\ Reply(m, "error")
    /\ UNCHANGED <<up, poisoned, nodes, until, disk, clock, issued, bound, faults>>

(* Mutation of Registers: a request that is already known is not looked    *)
(* up, so every poll registers another.                                    *)
RegistersAgain(m) == Searched(m) /\ ~RequestOfAnother(m)

Registers(m) == Unknown(m)

Registered(m, code) ==
    /\ Handle(m) /\ m.secret = None
    /\ Registers(m)
    /\ clock < until /\ WithinRate /\ ~Full(m)
    /\ code \notin Live
    /\ pairings' = [Without({c \in Codes : Expired(c)}) EXCEPT ![code] =
                       [node |-> Asker(m), token |-> m.token, expires |-> until,
                        status |-> "pending"]]
    /\ rate' = Counted
    /\ UNCHANGED <<nodes, until>>
    /\ Save
    /\ Reply(m, IF poisoned' THEN "error" ELSE "pending")
    /\ UNCHANGED <<up, clock, issued>>

-----------------------------------------------------------------------------
(* pair: an invitation is consumed once; the same token may retry.         *)
Redeemable(m) ==
    LET e == nodes[Asker(m)]
    IN  e # NoEnrollment /\ ~e.revoked /\ m.secret = e.secret

Unused(m) == nodes[Asker(m)].token = None /\ clock <= nodes[Asker(m)].expires

Consumed(m) ==
    /\ Handle(m) /\ m.secret # None
    /\ Redeemable(m)
    /\ Unused(m)
    /\ nodes' = [nodes EXCEPT ![Asker(m)].token = m.token]
    /\ UNCHANGED <<pairings, until, rate>>
    /\ Save
    /\ UNCHANGED <<up, clock, workers, issued>>

(* Everything else, the exact retry included, changes nothing.             *)
NotConsumed(m) ==
    /\ Handle(m) /\ m.secret # None
    /\ ~(Redeemable(m) /\ Unused(m))
    /\ UNCHANGED <<up, poisoned, memory, disk, clock, workers, issued, bound, faults>>

-----------------------------------------------------------------------------
(* The environment.                                                        *)

Tick ==
    /\ clock < MaxTime
    /\ clock' = clock + 1
    /\ UNCHANGED <<up, poisoned, memory, disk, workers, net, issued, bound, faults>>

(* A request is lost, or the broker does not serve it.                     *)
Drop(m) ==
    /\ m \in net
    /\ net' = net \ {m}
    /\ IF Serving THEN Fault ELSE UNCHANGED faults
    /\ Reply(m, "error")
    /\ UNCHANGED <<up, poisoned, memory, disk, clock, issued, bound>>

BrokerCrash ==
    /\ up
    /\ Fault
    /\ up' = FALSE
    /\ UNCHANGED <<poisoned, memory, disk, clock, workers, net, issued, bound>>

NewBroker ==
    /\ ~up
    /\ up' = TRUE /\ poisoned' = FALSE
    /\ nodes' = diskNodes /\ pairings' = diskPairings /\ until' = diskUntil
    /\ rate' = [start |-> 0, count |-> 0]
    /\ UNCHANGED <<disk, clock, workers, net, issued, bound, faults>>

-----------------------------------------------------------------------------
Operator ==
    \/ PairingOpen \/ PairingClose
    \/ \E code \in Codes : Approve(code) \/ Deny(code)
    \/ \E node \in Nodes, secret \in Secrets : Invite(node, secret)
    \/ \E node \in Nodes : Revoke(node)

Command(w) ==
    \/ \E t \in Tokens : PairOnline(w, t)
    \/ Ask(w)
    \/ \E t \in Tokens, secret \in Secrets : PairWithInvitation(w, t, secret)
    \/ PairStops(w)

Answer(m) ==
    \/ Identified(m) \/ Repeated(m) \/ Refused(m)
    \/ \E code \in Codes : Registered(m, code)
    \/ Consumed(m) \/ NotConsumed(m)
    \/ Drop(m)

Next ==
    \/ Operator
    \/ \E w \in Workers : Command(w)
    \/ \E m \in net : Answer(m)
    \/ Tick \/ BrokerCrash \/ NewBroker

Spec == Init /\ [][Next]_vars

-----------------------------------------------------------------------------
(* Properties.                                                             *)

(* A broker that answers has every enrollment, the window and every        *)
(* request that has not expired in broker.json, although requests are      *)
(* dropped from memory without a save.                                     *)
PairingIsDurable ==
    Serving =>
        /\ nodes = diskNodes /\ until = diskUntil
        /\ \A c \in Codes :
              clock < pairings[c].expires \/ clock < diskPairings[c].expires
                  => pairings[c] = diskPairings[c]

(* A credential has at most one retained request, however often it is      *)
(* polled, the broker restarts or old requests expire, so that an operator *)
(* who approves one code has answered every request of that worker.        *)
OneRequestPerCredential ==
    \A c, d \in Codes :
        diskPairings[c].token = diskPairings[d].token =>
            c = d \/ diskPairings[c] = NoSession

(* An enrolled credential stays the node's until the node is revoked: no   *)
(* second approval, invitation or recovery replaces it.                    *)
EnrolledUntilRevoked ==
    [][\A n \in Nodes : Enrolled(diskNodes[n]) =>
          diskNodes'[n].token = diskNodes[n].token]_vars

(* What the documentation says of pairing a revoked name again: it takes a *)
(* credential that was not enrolled before.                                *)
RepairingIsFresh ==
    [][\A n \in Nodes : diskNodes[n].revoked /\ Enrolled(diskNodes'[n]) =>
          diskNodes'[n].token \notin bound[n]]_vars

=============================================================================
