------------------------- MODULE RemotePairingProofs -------------------------
(***************************************************************************)
(* Proofs about RemotePairing, for every number of nodes, workers, codes,  *)
(* tokens, invitations and faults.  The broker's state is durable whenever *)
(* it serves, so a handler that looks at memory decides about the file.    *)
(***************************************************************************)
EXTENDS RemotePairing, TLAPS

(* Saving publishes well-typed memory.                                     *)
LEMMA SaveTyping ==
    ASSUME TypeOK, MemoryTypeOK', Save
    PROVE  DiskTypeOK' /\ poisoned' \in BOOLEAN /\ faults' \in 0..MaxFaults
<1>1. /\ diskNodes' \in NodesType /\ diskPairings' \in PairingsType /\ diskUntil' \in Nat
      /\ poisoned' \in BOOLEAN
  BY DEF Save, SaveSucceeds, SaveFails, disk, TypeOK, DiskTypeOK, MemoryTypeOK
<1>2. faults' \in 0..MaxFaults
  BY PairingAssumption DEF Save, SaveSucceeds, SaveFails, Fault, TypeOK
<1>3. bound' \in [Nodes -> SUBSET Tokens]
  BY DEF Save, TypeOK, DiskTypeOK
<1> QED BY <1>1, <1>2, <1>3 DEF DiskTypeOK

LEMMA MemorySame == ASSUME MemoryTypeOK, UNCHANGED memory PROVE MemoryTypeOK'
BY DEF MemoryTypeOK, memory

LEMMA DiskSame == ASSUME DiskTypeOK, UNCHANGED <<disk, bound>> PROVE DiskTypeOK'
BY DEF DiskTypeOK, disk

LEMMA WorkersSame == ASSUME WorkersTypeOK, UNCHANGED workers PROVE WorkersTypeOK'
BY DEF WorkersTypeOK, workers

LEMMA FaultTyping == ASSUME faults \in 0..MaxFaults, Fault PROVE faults' \in 0..MaxFaults
BY PairingAssumption DEF Fault

LEMMA ReplyTyping ==
    ASSUME WorkersTypeOK, NEW m \in Request, NEW status, Reply(m, status)
    PROVE  WorkersTypeOK'
<1>1. m.worker \in Workers BY DEF Request
<1>2. CASE ~Sees(m) BY <1>2, WorkersSame DEF Reply
<1>3. CASE Sees(m)
  <2>1. saved[m.worker] \in Tokens BY <1>1, <1>3 DEF Sees, WorkersTypeOK
  <2>2. \/ \E v \in PC : pc' = [pc EXCEPT ![m.worker] = v] /\ UNCHANGED saved
        \/ \E t \in Tokens : /\ saved' = [saved EXCEPT ![m.worker] = t]
                             /\ pc' = [pc EXCEPT ![m.worker] = "readyRotated"]
    <3>1. CASE status = "pending" BY <1>3, <3>1 DEF Reply, PC
    <3>2. CASE status # "pending" /\ status = "revoked" /\ pc[m.worker] = "asked"
      BY <1>3, <3>2 DEF Reply, PC
    <3>3. CASE status # "pending" /\ ~(status = "revoked" /\ pc[m.worker] = "asked")
      BY <1>3, <3>3 DEF Reply, PC
    <3> QED BY <3>1, <3>2, <3>3
  <2> QED BY <1>1, <2>1, <2>2 DEF WorkersTypeOK, PC
<1> QED BY <1>2, <1>3

LEMMA SessionUpdate ==
    ASSUME pairings \in PairingsType, NEW code \in Codes, NEW v \in {"approved", "denied"},
           pairings[code].status = "pending"
    PROVE  [pairings EXCEPT ![code].status = v] \in PairingsType
BY DEF PairingsType, Session, NoSession

LEMMA WithoutTyping ==
    ASSUME pairings \in PairingsType, NEW codes
    PROVE  Without(codes) \in PairingsType
BY DEF PairingsType, Without

LEMMA RateTyping ==
    ASSUME MemoryTypeOK, clock \in Nat
    PROVE  /\ NewRate \in [start : Nat, count : 0..RateLimit]
           /\ WithinRate => Counted \in [start : Nat, count : 0..RateLimit]
<1>1. NewRate \in [start : Nat, count : 0..RateLimit]
  BY PairingAssumption DEF MemoryTypeOK, NewRate
<1>2. WithinRate => Counted \in [start : Nat, count : 0..RateLimit]
  BY <1>1, PairingAssumption DEF Counted, WithinRate
<1> QED BY <1>1, <1>2

-----------------------------------------------------------------------------
(* What an action leaves to show: memory after an operator's request.      *)
LEMMA OperatorTyping ==
    ASSUME TypeOK, Operator
    PROVE  /\ MemoryTypeOK' /\ Save
           /\ UNCHANGED <<up, clock, workers, net>>
           /\ issued' \in SUBSET (Nodes \X Secrets)
<1> USE DEF TypeOK
<1>0. clock \in Nat /\ clock + Window \in Nat BY PairingAssumption
<1>1. CASE PairingOpen
  BY <1>0, <1>1 DEF PairingOpen, MemoryTypeOK
<1>2. CASE PairingClose
  <2>1. pairings' \in PairingsType
    BY <1>2 DEF PairingClose, MemoryTypeOK, PairingsType, Session, NoSession
  <2> QED BY <1>2, <2>1 DEF PairingClose, MemoryTypeOK
<1>3. ASSUME NEW code \in Codes, Approve(code)
      PROVE  /\ MemoryTypeOK' /\ Save
             /\ UNCHANGED <<up, clock, workers, net, issued>>
  <2>1. pairings' \in PairingsType
    BY <1>3, SessionUpdate DEF Approve, Pending, MemoryTypeOK
  <2>2. pairings[code] \in Session
    BY <1>3 DEF Approve, Pending, MemoryTypeOK, PairingsType, NoSession
  <2>3. nodes' \in NodesType
    BY <1>3, <2>2 DEF Approve, MemoryTypeOK, NodesType, Enrollment, Session
  <2> QED BY <1>3, <2>1, <2>3 DEF Approve, MemoryTypeOK
<1>4. ASSUME NEW code \in Codes, Deny(code)
      PROVE  /\ MemoryTypeOK' /\ Save
             /\ UNCHANGED <<up, clock, workers, net, issued>>
  BY <1>4, SessionUpdate DEF Deny, Pending, MemoryTypeOK
<1>5. ASSUME NEW node \in Nodes, NEW secret \in Secrets, Invite(node, secret)
      PROVE  /\ MemoryTypeOK' /\ Save
             /\ UNCHANGED <<up, clock, workers, net>>
             /\ issued' \in SUBSET (Nodes \X Secrets)
  <2>1. nodes' \in NodesType
    BY <1>0, <1>5 DEF Invite, MemoryTypeOK, NodesType, Enrollment
  <2> QED BY <1>5, <2>1 DEF Invite, MemoryTypeOK
<1>6. ASSUME NEW node \in Nodes, Revoke(node)
      PROVE  /\ MemoryTypeOK' /\ Save
             /\ UNCHANGED <<up, clock, workers, net, issued>>
  <2>1. nodes' \in NodesType
    BY <1>6 DEF Revoke, MemoryTypeOK, NodesType, Enrollment
  <2> QED BY <1>6, <2>1 DEF Revoke, MemoryTypeOK
<1>7. issued \in SUBSET (Nodes \X Secrets) OBVIOUS
<1> QED BY <1>1, <1>2, <1>3, <1>4, <1>5, <1>6, <1>7 DEF Operator, PairingOpen, PairingClose

LEMMA PrepareTyping ==
    ASSUME WorkersTypeOK, NEW w \in Workers, NEW t \in Tokens, Prepare(w, t),
           pc' = pc \/ (pc' = [pc EXCEPT ![w] = "ready"])
    PROVE  WorkersTypeOK'
BY DEF Prepare, WorkersTypeOK, PC

LEMMA CommandTyping ==
    ASSUME TypeOK, NEW w \in Workers, Command(w) PROVE TypeOK'
<1> USE DEF TypeOK
<1>1. ASSUME NEW t \in Tokens, PairOnline(w, t) PROVE TypeOK'
  BY <1>1, PrepareTyping, MemorySame, DiskSame DEF PairOnline
<1>2. CASE Ask(w)
  <2>1. saved[w] \in Tokens BY <1>2 DEF Ask, WorkersTypeOK
  <2>2. net' \in SUBSET Request BY <1>2, <2>1 DEF Ask, Send, Request
  <2>3. WorkersTypeOK' BY <1>2, <2>1 DEF Ask, WorkersTypeOK, PC
  <2> QED BY <1>2, <2>2, <2>3, MemorySame, DiskSame DEF Ask
<1>3. ASSUME NEW t \in Tokens, NEW secret \in Secrets, PairWithInvitation(w, t, secret)
      PROVE  TypeOK'
  <2>1. net' \in SUBSET Request BY <1>3 DEF PairWithInvitation, Send, Request
  <2> QED BY <1>3, <2>1, PrepareTyping, MemorySame, DiskSame DEF PairWithInvitation
<1>4. CASE PairStops(w)
  <2>1. WorkersTypeOK' BY <1>4 DEF PairStops, WorkersTypeOK, PC
  <2> QED BY <1>4, <2>1, FaultTyping, MemorySame, DiskSame DEF PairStops
<1> QED BY <1>1, <1>2, <1>3, <1>4 DEF Command

LEMMA AnswerTyping ==
    ASSUME TypeOK, NEW m \in net, Answer(m) PROVE TypeOK'
<1> USE DEF TypeOK
<1>0. /\ m \in Request /\ Asker(m) \in Nodes /\ m.token \in Tokens
      /\ clock \in Nat
  BY PairingAssumption DEF Request, Asker
<1>1. CASE Identified(m)
  BY <1>0, <1>1, ReplyTyping, MemorySame, DiskSame DEF Identified, Handle
<1>2. CASE Repeated(m)
  BY <1>0, <1>2, ReplyTyping, MemorySame, DiskSame DEF Repeated, Handle
<1>3. CASE Refused(m)
  <2>1. pairings' \in PairingsType /\ rate' \in [start : Nat, count : 0..RateLimit]
    BY <1>0, <1>3, WithoutTyping, RateTyping DEF Refused, MemoryTypeOK
  <2>2. MemoryTypeOK' BY <1>3, <2>1 DEF Refused, MemoryTypeOK
  <2> QED BY <1>0, <1>3, <2>2, ReplyTyping, DiskSame DEF Refused, Handle
<1>4. ASSUME NEW code \in Codes, Registered(m, code) PROVE TypeOK'
  <2>1. Without({c \in Codes : Expired(c)}) \in PairingsType
    BY WithoutTyping DEF MemoryTypeOK
  <2>2. pairings' \in PairingsType
    BY <1>0, <1>4, <2>1 DEF Registered, PairingsType, Session, MemoryTypeOK
  <2>3. rate' \in [start : Nat, count : 0..RateLimit]
    BY <1>0, <1>4, RateTyping DEF Registered
  <2>4. MemoryTypeOK' BY <1>4, <2>2, <2>3 DEF Registered, MemoryTypeOK
  <2> QED BY <1>0, <1>4, <2>4, ReplyTyping, SaveTyping DEF Registered, Handle
<1>5. CASE Consumed(m)
  <2>1. nodes[Asker(m)] \in Enrollment
    BY <1>0, <1>5 DEF Consumed, Redeemable, MemoryTypeOK, NodesType
  <2>2. nodes' \in NodesType
    BY <1>0, <1>5, <2>1 DEF Consumed, MemoryTypeOK, NodesType, Enrollment
  <2>3. MemoryTypeOK' BY <1>5, <2>2 DEF Consumed, MemoryTypeOK
  <2> QED BY <1>5, <2>3, SaveTyping, WorkersSame DEF Consumed, Handle
<1>6. CASE NotConsumed(m)
  BY <1>6, MemorySame, DiskSame, WorkersSame DEF NotConsumed, Handle
<1>7. CASE Drop(m)
  BY <1>0, <1>7, ReplyTyping, FaultTyping, MemorySame, DiskSame DEF Drop
<1> QED BY <1>1, <1>2, <1>3, <1>4, <1>5, <1>6, <1>7 DEF Answer

LEMMA TypingNext == ASSUME TypeOK, [Next]_vars PROVE TypeOK'
<1> USE DEF TypeOK
<1>1. CASE Operator
  BY <1>1, OperatorTyping, SaveTyping, WorkersSame
<1>2. CASE \E w \in Workers : Command(w) BY <1>2, CommandTyping
<1>3. CASE \E m \in net : Answer(m) BY <1>3, AnswerTyping
<1>4. CASE Tick
  BY <1>4, PairingAssumption, MemorySame, DiskSame, WorkersSame DEF Tick
<1>5. CASE BrokerCrash
  BY <1>5, FaultTyping, MemorySame, DiskSame, WorkersSame DEF BrokerCrash
<1>6. CASE NewBroker
  <2>1. MemoryTypeOK'
    BY <1>6, PairingAssumption DEF NewBroker, MemoryTypeOK, DiskTypeOK
  <2> QED BY <1>6, <2>1, DiskSame, WorkersSame DEF NewBroker
<1>7. CASE UNCHANGED vars
  BY <1>7, MemorySame, DiskSame, WorkersSame DEF vars
<1> QED BY <1>1, <1>2, <1>3, <1>4, <1>5, <1>6, <1>7 DEF Next

(* Every reachable state of the broker's pairing data and of the workers'  *)
(* pairing commands is well typed; a running command has a saved token.    *)
THEOREM PairingTypeCorrect == Spec => []TypeOK
<1>1. ASSUME Init PROVE TypeOK
  <2>1. nodes \in NodesType BY <1>1 DEF Init, NodesType
  <2>2. pairings \in PairingsType BY <1>1 DEF Init, PairingsType
  <2>3. 0 \in Nat /\ 0 \in 0..RateLimit /\ 0 \in 0..MaxTime /\ 0 \in 0..MaxFaults
    BY PairingAssumption
  <2>4. MemoryTypeOK BY <1>1, <2>1, <2>2, <2>3 DEF Init, MemoryTypeOK
  <2>5. bound \in [Nodes -> SUBSET Tokens] BY <1>1 DEF Init
  <2>6. DiskTypeOK BY <1>1, <2>1, <2>2, <2>3, <2>5 DEF Init, DiskTypeOK
  <2>7. WorkersTypeOK BY <1>1 DEF Init, WorkersTypeOK, PC
  <2>8. /\ up \in BOOLEAN /\ poisoned \in BOOLEAN
        /\ net \in SUBSET Request /\ issued \in SUBSET (Nodes \X Secrets)
    BY <1>1 DEF Init
  <2> QED BY <1>1, <2>3, <2>4, <2>6, <2>7, <2>8 DEF Init, TypeOK
<1>2. TypeOK /\ [Next]_vars => TypeOK' BY TypingNext
<1> QED BY <1>1, <1>2, PTL DEF Spec

-----------------------------------------------------------------------------
(* What the broker answers from is on disk.  Only two kinds of step matter: *)
(* those that save, after which memory and disk agree or the broker no      *)
(* longer serves, and those that drop expired requests from memory.         *)

LEMMA SavedIsDurable == ASSUME Save PROVE PairingIsDurable'
<1>1. CASE SaveSucceeds BY <1>1 DEF SaveSucceeds, PairingIsDurable
<1>2. CASE SaveFails BY <1>2 DEF SaveFails, PairingIsDurable, Serving
<1> QED BY <1>1, <1>2 DEF Save

LEMMA DurableSame ==
    ASSUME PairingIsDurable, UNCHANGED <<up, poisoned, nodes, pairings, until, disk, clock>>
    PROVE  PairingIsDurable'
BY DEF PairingIsDurable, Serving, disk

LEMMA DroppedIsExpired ==
    ASSUME TypeOK, PairingIsDurable,
           NEW codes \in SUBSET Codes, \A c \in codes : Expired(c),
           pairings' = Without(codes),
           UNCHANGED <<up, poisoned, nodes, until, disk, clock>>
    PROVE  PairingIsDurable'
<1> SUFFICES ASSUME Serving', NEW c \in Codes,
                    clock' < pairings'[c].expires \/ clock' < diskPairings'[c].expires
             PROVE  pairings'[c] = diskPairings'[c]
  BY DEF PairingIsDurable, Serving, disk
<1>1. CASE c \in codes
  <2>1. /\ clock \in Nat /\ pairings[c] \in Session
        /\ ~(clock < pairings[c].expires)
    BY <1>1, PairingAssumption DEF Expired, TypeOK, MemoryTypeOK, PairingsType, Session
  <2>2. pairings'[c].expires = 0 BY <1>1 DEF Without, NoSession
  <2>3. clock < diskPairings[c].expires BY <2>1, <2>2 DEF disk
  <2> QED BY <2>1, <2>3 DEF PairingIsDurable, Serving
<1>2. CASE c \notin codes
  BY <1>2 DEF Without, PairingIsDurable, Serving, disk
<1> QED BY <1>1, <1>2

LEMMA TickDurable == ASSUME TypeOK, PairingIsDurable, Tick PROVE PairingIsDurable'
<1> SUFFICES ASSUME Serving', NEW c \in Codes,
                    clock' < pairings'[c].expires \/ clock' < diskPairings'[c].expires
             PROVE  pairings'[c] = diskPairings'[c]
  BY DEF PairingIsDurable, Serving, disk, memory, Tick
<1>1. /\ pairings[c].expires \in Nat /\ diskPairings[c].expires \in Nat
      /\ clock \in Nat
  BY PairingAssumption
     DEF TypeOK, MemoryTypeOK, DiskTypeOK, PairingsType, Session, NoSession
<1>2. clock < pairings[c].expires \/ clock < diskPairings[c].expires
  BY <1>1 DEF Tick, memory, disk
<1> QED BY <1>2 DEF Tick, PairingIsDurable, Serving, memory, disk

LEMMA AnswerDurable ==
    ASSUME TypeOK, PairingIsDurable, NEW m \in net, Answer(m) PROVE PairingIsDurable'
<1>1. CASE Identified(m) BY <1>1, DurableSame DEF Identified, memory
<1>2. CASE Repeated(m) BY <1>2, DurableSame DEF Repeated, memory
<1>3. CASE Refused(m)
  <2>1. UNCHANGED <<up, poisoned, nodes, until, disk, clock>> BY <1>3 DEF Refused
  <2>2. CASE UNCHANGED pairings BY <2>1, <2>2, DurableSame
  <2>3. CASE Unknown(m) /\ pairings' = Without(Mine(m))
    <3>1. Mine(m) \in SUBSET Codes /\ \A c \in Mine(m) : Expired(c)
      BY <2>3 DEF Mine, Unknown
    <3> QED BY <2>1, <2>3, <3>1, DroppedIsExpired
  <2>4. CASE pairings' = Without({c \in Codes : Expired(c)})
    BY <2>1, <2>4, DroppedIsExpired
  <2> QED BY <1>3, <2>2, <2>3, <2>4 DEF Refused
<1>4. CASE \E code \in Codes : Registered(m, code)
  BY <1>4, SavedIsDurable DEF Registered
<1>5. CASE Consumed(m) BY <1>5, SavedIsDurable DEF Consumed
<1>6. CASE NotConsumed(m) BY <1>6, DurableSame DEF NotConsumed, memory
<1>7. CASE Drop(m) BY <1>7, DurableSame DEF Drop, memory
<1> QED BY <1>1, <1>2, <1>3, <1>4, <1>5, <1>6, <1>7 DEF Answer

LEMMA CommandDurable ==
    ASSUME PairingIsDurable, NEW w \in Workers, Command(w) PROVE PairingIsDurable'
BY DurableSame DEF Command, PairOnline, Ask, PairWithInvitation, PairStops, memory

LEMMA OperatorSaves == ASSUME Operator PROVE Serving /\ Save
BY DEF Operator, PairingOpen, PairingClose, Approve, Deny, Invite, Revoke

LEMMA DurableNext ==
    ASSUME TypeOK, PairingIsDurable, [Next]_vars PROVE PairingIsDurable'
<1>1. CASE Operator BY <1>1, OperatorSaves, SavedIsDurable
<1>2. CASE \E w \in Workers : Command(w) BY <1>2, CommandDurable
<1>3. CASE \E m \in net : Answer(m) BY <1>3, AnswerDurable
<1>4. CASE Tick BY <1>4, TickDurable
<1>5. CASE BrokerCrash BY <1>5 DEF BrokerCrash, PairingIsDurable, Serving
<1>6. CASE NewBroker BY <1>6 DEF NewBroker, PairingIsDurable, disk
<1>7. CASE UNCHANGED vars BY <1>7, DurableSame DEF vars, memory
<1> QED BY <1>1, <1>2, <1>3, <1>4, <1>5, <1>6, <1>7 DEF Next

(* A broker that answers has every enrollment, the window and every         *)
(* request that has not expired on disk, although requestPairing drops      *)
(* expired requests from memory without a save.                             *)
THEOREM PairingDurable == Spec => []PairingIsDurable
<1>1. Init => PairingIsDurable BY DEF Init, PairingIsDurable
<1>2. TypeOK /\ PairingIsDurable /\ [Next]_vars => PairingIsDurable' BY DurableNext
<1> QED BY <1>1, <1>2, PairingTypeCorrect, PTL DEF Spec

-----------------------------------------------------------------------------
(* An enrollment changes hands only through a revocation.  A step writes    *)
(* broker.json only by a save of a broker that serves, whose memory is what *)
(* the file holds, so the guards on memory speak of the file too.           *)

KeepsEnrolled ==
    \A n \in Nodes : Enrolled(nodes[n]) => nodes'[n].token = nodes[n].token

LEMMA SaveKeepsEnrolled ==
    ASSUME PairingIsDurable, Serving, Save, KeepsEnrolled,
           NEW n \in Nodes, Enrolled(diskNodes[n])
    PROVE  diskNodes'[n].token = diskNodes[n].token
<1>1. nodes = diskNodes BY DEF PairingIsDurable
<1>2. diskNodes' = nodes' \/ diskNodes' = diskNodes
  BY DEF Save, SaveSucceeds, SaveFails, disk
<1> QED BY <1>1, <1>2 DEF KeepsEnrolled

LEMMA OperatorKeepsEnrolled == ASSUME TypeOK, Operator PROVE KeepsEnrolled
<1>0. nodes \in [Nodes -> Enrollment \cup {NoEnrollment}]
  BY DEF TypeOK, MemoryTypeOK, NodesType
<1>1. CASE UNCHANGED nodes BY <1>1 DEF KeepsEnrolled
<1>2. ASSUME NEW code \in Codes, Approve(code) PROVE KeepsEnrolled
  BY <1>0, <1>2 DEF Approve, MayEnroll, KeepsEnrolled
<1>3. ASSUME NEW node \in Nodes, NEW secret \in Secrets, Invite(node, secret)
      PROVE  KeepsEnrolled
  BY <1>0, <1>3 DEF Invite, Enrolled, KeepsEnrolled
<1>4. ASSUME NEW node \in Nodes, Revoke(node) PROVE KeepsEnrolled
  <2>1. nodes[node] \in Enrollment BY <1>0, <1>4 DEF Revoke
  <2>2. nodes'[node].token = nodes[node].token
    BY <1>0, <1>4, <2>1 DEF Revoke, Enrollment
  <2>3. \A n \in Nodes : n # node => nodes'[n] = nodes[n] BY <1>0, <1>4 DEF Revoke
  <2> QED BY <2>2, <2>3 DEF KeepsEnrolled
<1> QED BY <1>1, <1>2, <1>3, <1>4 DEF Operator, PairingOpen, PairingClose, Deny

LEMMA ConsumedKeepsEnrolled ==
    ASSUME TypeOK, NEW m \in net, Consumed(m) PROVE KeepsEnrolled
<1>1. Asker(m) \in Nodes /\ nodes \in [Nodes -> Enrollment \cup {NoEnrollment}]
  BY PairingAssumption DEF TypeOK, Request, Asker, MemoryTypeOK, NodesType
<1>2. ~Enrolled(nodes[Asker(m)]) BY DEF Consumed, Unused, Enrolled
<1>3. \A n \in Nodes : n # Asker(m) => nodes'[n] = nodes[n] BY <1>1 DEF Consumed
<1> QED BY <1>2, <1>3 DEF KeepsEnrolled

(* An enrolled credential stays the node's until the node is revoked: no    *)
(* second approval, invitation, failed save or recovery replaces it.        *)
THEOREM EnrollmentIsKept == Spec => EnrolledUntilRevoked
<1>1. ASSUME TypeOK, PairingIsDurable, [Next]_vars,
             NEW n \in Nodes, Enrolled(diskNodes[n])
      PROVE  diskNodes'[n].token = diskNodes[n].token
  <2>1. CASE Operator
    BY <1>1, <2>1, OperatorSaves, OperatorKeepsEnrolled, SaveKeepsEnrolled
  <2>2. ASSUME NEW m \in net, Answer(m) PROVE diskNodes'[n].token = diskNodes[n].token
    <3>1. CASE Consumed(m)
      BY <1>1, <3>1, ConsumedKeepsEnrolled, SaveKeepsEnrolled DEF Consumed, Handle
    <3>2. ASSUME NEW code \in Codes, Registered(m, code)
          PROVE  diskNodes'[n].token = diskNodes[n].token
      BY <1>1, <3>2, SaveKeepsEnrolled DEF Registered, Handle, KeepsEnrolled
    <3>3. CASE UNCHANGED disk BY <3>3 DEF disk
    <3> QED BY <2>2, <3>1, <3>2, <3>3
          DEF Answer, Identified, Repeated, Refused, NotConsumed, Drop
  <2>3. CASE UNCHANGED disk BY <2>3 DEF disk
  <2> QED BY <1>1, <2>1, <2>2, <2>3
        DEF Next, Command, PairOnline, Ask, PairWithInvitation, PairStops, Tick,
            BrokerCrash, NewBroker, vars
<1>2. TypeOK /\ PairingIsDurable /\ [Next]_vars =>
        [\A n \in Nodes : Enrolled(diskNodes[n]) =>
            diskNodes'[n].token = diskNodes[n].token]_vars
  BY <1>1
<1> QED BY <1>2, PairingTypeCorrect, PairingDurable, PTL DEF Spec, EnrolledUntilRevoked
-----------------------------------------------------------------------------
(* Requests are told apart by their credential, in memory and on disk: a    *)
(* handler drops requests or changes their status, and the only one that    *)
(* adds a request has found none of its credential, or only expired ones,   *)
(* which it removes.                                                        *)

Unique(q) ==
    \A c, d \in Codes : q[c].token = q[d].token => c = d \/ q[c] = NoSession

OneRequest == Unique(pairings) /\ Unique(diskPairings)

(* Requests of the same credentials, or dropped.                            *)
Fewer(q) ==
    \A c \in Codes :
        q[c] = NoSession \/ (pairings[c] # NoSession /\ q[c].token = pairings[c].token)

LEMMA FewerIsUnique ==
    ASSUME pairings \in PairingsType, Unique(pairings), NEW q, Fewer(q)
    PROVE  Unique(q)
<1> SUFFICES ASSUME NEW c \in Codes, NEW d \in Codes, q[c].token = q[d].token,
                    c # d, q[c] # NoSession
             PROVE  FALSE
  BY DEF Unique
<1>1. pairings[c] \in Session /\ q[c].token = pairings[c].token
  BY DEF Fewer, PairingsType
<1>2. q[c].token # None BY <1>1, PairingAssumption DEF Session
<1>3. q[d] # NoSession BY <1>2 DEF NoSession
<1> QED BY <1>1, <1>3 DEF Fewer, Unique

LEMMA OperatorUnique ==
    ASSUME TypeOK, Unique(pairings), Operator PROVE Unique(pairings')
<1>0. pairings \in PairingsType BY DEF TypeOK, MemoryTypeOK
<1>1. CASE UNCHANGED pairings BY <1>1
<1>2. CASE PairingClose
  <2>1. Fewer(pairings')
    BY <1>0, <1>2 DEF PairingClose, Fewer, PairingsType, Session, NoSession
  <2> QED BY <1>0, <2>1, FewerIsUnique
<1>3. ASSUME NEW code \in Codes, Approve(code) \/ Deny(code) PROVE Unique(pairings')
  <2>1. pairings[code] \in Session
    BY <1>0, <1>3 DEF Approve, Deny, Pending, PairingsType, NoSession
  <2>2. pairings'[code].token = pairings[code].token
    BY <1>0, <1>3, <2>1 DEF Approve, Deny, PairingsType, Session
  <2>3. \A c \in Codes \ {code} : pairings'[c] = pairings[c]
    BY <1>0, <1>3 DEF Approve, Deny, PairingsType
  <2>4. pairings[code] # NoSession BY <1>3 DEF Approve, Deny, Pending, NoSession
  <2>5. Fewer(pairings') BY <2>2, <2>3, <2>4 DEF Fewer
  <2> QED BY <1>0, <2>5, FewerIsUnique
<1> QED BY <1>1, <1>2, <1>3 DEF Operator, PairingOpen, Invite, Revoke

(* A new request: every retained one of its credential is the asker's own  *)
(* and has expired, and expired requests are dropped by the same step.      *)
LEMMA RegisteredUnique ==
    ASSUME TypeOK, Unique(pairings), NEW m \in net, NEW code \in Codes, Registered(m, code)
    PROVE  Unique(pairings')
<1> DEFINE rest == Without({c \in Codes : Expired(c)})
<1>1. /\ pairings \in PairingsType /\ m.token \in Tokens
      /\ rest \in PairingsType
  BY WithoutTyping DEF TypeOK, MemoryTypeOK, Request
<1>2. Unique(rest)
  <2>1. Fewer(rest) BY DEF Without, Fewer
  <2> QED BY <1>1, <2>1, FewerIsUnique
<1>3. \A c \in Codes : rest[c].token # m.token
  <2> SUFFICES ASSUME NEW c \in Codes, rest[c].token = m.token PROVE FALSE OBVIOUS
  <2>1. rest[c] = pairings[c] /\ ~Expired(c)
    BY <1>1, PairingAssumption DEF Without, NoSession
  <2>2. c \in Mine(m) BY <2>1 DEF Registered, Registers, Unknown, RequestOfAnother, Mine
  <2> QED BY <2>1, <2>2 DEF Registered, Registers, Unknown
<1>4. /\ pairings'[code].token = m.token
      /\ \A c \in Codes \ {code} : pairings'[c] = rest[c]
  BY <1>1 DEF Registered, PairingsType
<1> HIDE DEF rest
<1> QED BY <1>2, <1>3, <1>4 DEF Unique

LEMMA AnswerUnique ==
    ASSUME TypeOK, Unique(pairings), NEW m \in net, Answer(m) PROVE Unique(pairings')
<1>1. CASE UNCHANGED pairings BY <1>1
<1>2. CASE Refused(m)
  <2>1. UNCHANGED pairings \/ \E codes : pairings' = Without(codes)
    BY <1>2 DEF Refused
  <2>2. ASSUME NEW codes, pairings' = Without(codes) PROVE Unique(pairings')
    <3>1. Fewer(pairings') BY <2>2 DEF Without, Fewer
    <3> QED BY <3>1, FewerIsUnique DEF TypeOK, MemoryTypeOK
  <2> QED BY <2>1, <2>2
<1>3. CASE \E code \in Codes : Registered(m, code) BY <1>3, RegisteredUnique
<1> QED BY <1>1, <1>2, <1>3
      DEF Answer, Identified, Repeated, Consumed, NotConsumed, Drop, memory

LEMMA OneRequestNext == ASSUME TypeOK, OneRequest, [Next]_vars PROVE OneRequest'
<1>1. CASE Operator
  BY <1>1, OperatorUnique, OperatorSaves
  DEF OneRequest, Save, SaveSucceeds, SaveFails, disk, Unique
<1>2. ASSUME NEW m \in net, Answer(m) PROVE OneRequest'
  <2>1. Unique(pairings') BY <1>2, AnswerUnique DEF OneRequest
  <2>2. diskPairings' = pairings' \/ diskPairings' = diskPairings
    BY <1>2 DEF Answer, Identified, Repeated, Refused, Registered, Consumed, NotConsumed,
                Drop, Save, SaveSucceeds, SaveFails, disk
  <2> QED BY <2>1, <2>2 DEF OneRequest, Unique
<1>3. CASE UNCHANGED <<memory, disk>> BY <1>3 DEF memory, disk, OneRequest, Unique
<1>4. CASE NewBroker BY <1>4 DEF NewBroker, disk, OneRequest, Unique
<1> QED BY <1>1, <1>2, <1>3, <1>4
      DEF Next, Command, PairOnline, Ask, PairWithInvitation, PairStops, Tick, BrokerCrash,
          vars

(* A credential has at most one retained request, however often it is       *)
(* polled, the broker fails or restarts, or old requests expire.            *)
THEOREM CredentialsAskOnce == Spec => []OneRequestPerCredential
<1>1. Init => OneRequest BY DEF Init, OneRequest, Unique
<1>2. TypeOK /\ OneRequest /\ [Next]_vars => OneRequest' BY OneRequestNext
<1>3. OneRequest => OneRequestPerCredential
  BY DEF OneRequest, Unique, OneRequestPerCredential
<1> QED BY <1>1, <1>2, <1>3, PairingTypeCorrect, PTL DEF Spec

=============================================================================
