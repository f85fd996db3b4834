--------------------------- MODULE AppServerTurn ---------------------------
(***************************************************************************)
(* Turns, approvals, input requests and cancellations of an App Server     *)
(* session (lifecycle.go, events.go, approval.go, cancellation.go of       *)
(* packages/dorkpipe/lib/appserversupervisor), from the thread's start to  *)
(* its disconnect.                                                         *)
(*                                                                         *)
(* Goroutines: one lifecycle operation at a time (lifecycleMu), the reader *)
(* of the child's lines, a decision of the user, the deadlines of requests *)
(* and of cancellations, and the disconnect.  A step is a section under    *)
(* s.mu, or a step that may block: a publication, a request, an answer.    *)
(* The child is external and may send any line at any time; Orderly keeps  *)
(* it from resolving a request it has no answer to.  How events            *)
(* are numbered, and how the child is stopped, is in AppServerProcess:     *)
(* here a publication succeeds, or ends the session by auditFailure.       *)
(***************************************************************************)
EXTENDS Integers, Sequences

CONSTANTS
    MaxTurns,  \* bound on turn/start requests
    MaxAsks,   \* bound on the child's approval and input requests
    MaxSent,   \* bound on the child's lines that are not responses
    PipeCap,   \* lines that wait for the reader
    Orderly    \* the child resolves no request before it heard the answer

ASSUME TurnAssumption ==
    /\ MaxTurns \in Nat /\ MaxAsks \in Nat /\ MaxSent \in Nat
    /\ PipeCap \in Nat \ {0} /\ Orderly \in BOOLEAN

VARIABLES
    state,        \* s.state
    life,         \* s.lifecycle
    pc,           \* where each goroutine stands
    failing,      \* some goroutine is in fail
    open,         \* the pipes are open
    rpc,          \* the request that waits, and its response
    timers,       \* the deadline of each request of the child
    cancelTimers, \* the deadline of the cancellation of each turn
    decision,     \* what Decide or RespondUserInput delivers
    expiring,     \* the request expirePending has dropped
    pipe,         \* the child's lines
    turns,        \* turn/start requests the child received
    asked,        \* the kinds of the child's requests, in their order
    sent,         \* lines sent
    decided,      \* history: the decisions of the user that were taken
    answers,      \* history: what the child was told of each request
    interrupts,   \* history: turns whose interrupt was acknowledged
    ended         \* history: each turn's terminal statuses, as sent

timerVars == <<timers, cancelTimers>>
userVars == <<decision, expiring, decided, answers>>
childVars == <<pipe, turns, asked, sent, ended>>
vars == <<state, life, pc, failing, open, rpc, timerVars, userVars, childVars, interrupts>>

Turns == 1..MaxTurns
Asks == 1..MaxAsks
Kinds == {"approval", "input"}
Decisions == {"approve", "deny", "input"}
Statuses == {"completed", "interrupted"}

NoRequest == [id |-> 0, kind |-> "none", inFlight |-> FALSE]
NoLife == [startPending |-> FALSE, turn |-> 0, active |-> FALSE, turnNotified |-> FALSE,
           item |-> FALSE, pending |-> NoRequest, cancellation |-> "none"]
NoRPC == [method |-> "none", response |-> "none"]
NoDecision == [id |-> 0, kind |-> "none", decision |-> "none"]

PendingRequests == [id : Asks, kind : Kinds, inFlight : BOOLEAN] \cup {NoRequest}

TypeOK ==
    /\ state \in {"Ready", "Running", "WaitingForApproval", "WaitingForUserInput",
                  "Cancelled", "Disconnected"}
    /\ life \in [startPending : BOOLEAN, turn : 0..MaxTurns, active : BOOLEAN,
                 turnNotified : BOOLEAN, item : BOOLEAN, pending : PendingRequests,
                 cancellation : {"none", "requested", "acknowledged"}]
    /\ pc \in [op : {"idle", "wait", "emit", "publish", "publishCancel", "interrupt", "audit"},
               reader : {"read", "publish", "failed", "ended"},
               decide : {"idle", "respond", "audit"},
               expire : {"idle", "audit", "respond"}]
    /\ failing \in BOOLEAN /\ open \in BOOLEAN
    /\ rpc \in [method : {"none", "turn", "interrupt"}, response : {"none", "sent", "got"}]
    /\ timers \in [Asks -> {"off", "armed", "fired", "expired"}]
    /\ cancelTimers \in [Turns -> {"off", "armed", "fired"}]
    /\ decision \in [id : Asks, kind : Kinds, decision : Decisions] \cup {NoDecision}
    /\ expiring \in PendingRequests
    /\ pipe \in Seq([type : {"response", "turnStarted", "itemStarted", "itemCompleted", "turnCompleted",
                             "request", "resolved", "refused"},
                     turn : 0..MaxTurns, id : 0..MaxAsks, status : Statuses \cup {"none"}])
    /\ Len(pipe) <= PipeCap
    /\ turns \in 0..MaxTurns
    /\ asked \in Seq(Kinds) /\ Len(asked) <= MaxAsks
    /\ sent \in 0..MaxSent
    /\ decided \subseteq Asks \X Decisions
    /\ answers \in [Asks -> Seq(Decisions \cup {"expired"})]
    /\ interrupts \subseteq Turns
    /\ ended \in [Turns -> SUBSET Statuses]

Init ==
    /\ state = "Ready" /\ life = NoLife
    /\ pc = [op |-> "idle", reader |-> "read", decide |-> "idle", expire |-> "idle"]
    /\ failing = FALSE /\ open = TRUE /\ rpc = NoRPC
    /\ timers = [r \in Asks |-> "off"] /\ cancelTimers = [t \in Turns |-> "off"]
    /\ decision = NoDecision /\ expiring = NoRequest
    /\ pipe = <<>> /\ turns = 0 /\ asked = <<>> /\ sent = 0
    /\ decided = {} /\ answers = [r \in Asks |-> <<>>]
    /\ interrupts = {} /\ ended = [t \in Turns |-> {}]

-----------------------------------------------------------------------------
(* Publication, failure and disconnect.                                    *)

Goes(a, where) == pc' = [pc EXCEPT ![a] = where]

AfterPublish == [publish |-> "audit", publishCancel |-> "interrupt"]

(* The event is in the journal and on the channel.                         *)
Published ==
    /\ \/ pc.op \in DOMAIN AfterPublish /\ Goes("op", AfterPublish[pc.op])
       \/ pc.reader = "publish" /\ Goes("reader", "read")
    /\ UNCHANGED <<state, life, failing, open, rpc, timerVars, userVars, childVars, interrupts>>

(* The audit journal refused a record: the session is Disconnected, and    *)
(* nothing of the turn is cleared.  The reader fails too, others return.   *)
AuditFailure ==
    /\ \/ pc.op \in DOMAIN AfterPublish \cup {"audit"} /\ Goes("op", "idle") /\ UNCHANGED userVars
       \/ pc.reader = "publish" /\ Goes("reader", "failed") /\ UNCHANGED userVars
       \/ /\ pc.decide = "audit" /\ Goes("decide", "idle")
          /\ decision' = NoDecision
          /\ UNCHANGED <<expiring, decided, answers>>
       \/ /\ pc.expire = "audit" /\ Goes("expire", "idle")
          /\ expiring' = NoRequest
          /\ UNCHANGED <<decision, decided, answers>>
    /\ state' = "Disconnected"
    /\ UNCHANGED <<life, failing, open, rpc, timerVars, childVars, interrupts>>

(* A deadline of the client, the end of the child, or Shutdown.            *)
Fail ==
    /\ ~failing /\ failing' = TRUE
    /\ UNCHANGED <<state, life, pc, open, rpc, timerVars, userVars, childVars, interrupts>>

Stopped(timer) == IF timer = "armed" THEN "off" ELSE timer

(* disconnectOnce: clearPrivateStateLocked, and the pipes are closed.      *)
Disconnect ==
    /\ failing /\ open
    /\ state' = "Disconnected"
    /\ life' = NoLife
    /\ timers' = [r \in Asks |-> IF r = life.pending.id THEN Stopped(timers[r]) ELSE timers[r]]
    /\ cancelTimers' = [t \in Turns |-> IF t = life.turn THEN Stopped(cancelTimers[t])
                                        ELSE cancelTimers[t]]
    /\ open' = FALSE /\ pipe' = <<>>
    /\ UNCHANGED <<pc, failing, rpc, userVars, turns, asked, sent, ended, interrupts>>

(* The reader's handler gave a reason, or its line is the last.            *)
ReaderFails ==
    /\ pc.reader = "failed" \/ (pc.reader = "read" /\ ~open)
    /\ Goes("reader", "ended")
    /\ failing' = TRUE
    /\ UNCHANGED <<state, life, open, rpc, timerVars, userVars, childVars, interrupts>>

-----------------------------------------------------------------------------
(* The child.                                                              *)

Say(type, turn, id, status) ==
    /\ open /\ Len(pipe) < PipeCap
    /\ pipe' = Append(pipe, [type |-> type, turn |-> turn, id |-> id, status |-> status])

ChildResponds ==
    /\ rpc.method # "none" /\ rpc.response = "none"
    /\ rpc' = [rpc EXCEPT !.response = "sent"]
    /\ Say("response", 0, 0, "none")
    /\ UNCHANGED <<state, life, pc, failing, open, timerVars, userVars, turns, asked, sent, ended,
                   interrupts>>

ChildReports ==
    /\ sent < MaxSent /\ sent' = sent + 1
    /\ \/ /\ \E t \in 1..turns, type \in {"turnStarted", "itemStarted", "itemCompleted"} :
                Say(type, t, 0, "none")
          /\ UNCHANGED <<asked, ended>>
       \/ \E t \in 1..turns, status \in Statuses :
             /\ Say("turnCompleted", t, 0, status)
             /\ ended' = [ended EXCEPT ![t] = @ \cup {status}]
             /\ UNCHANGED asked
       \/ \E kind \in Kinds, t \in 1..turns :
             /\ Len(asked) < MaxAsks
             /\ asked' = Append(asked, kind)
             /\ Say("request", t, Len(asked) + 1, "none")
             /\ UNCHANGED ended
       \/ /\ \E r \in 1..Len(asked) : /\ Orderly => answers[r] # <<>>
                                      /\ Say("resolved", 0, r, "none")
          /\ UNCHANGED <<asked, ended>>
       \/ Say("refused", 0, 0, "none") /\ UNCHANGED <<asked, ended>>
    /\ UNCHANGED <<state, life, pc, failing, open, rpc, timerVars, userVars, turns, interrupts>>

-----------------------------------------------------------------------------
(* The reader handles one line.                                            *)

Line == Head(pipe)

Handles(types) ==
    /\ pc.reader = "read" /\ open
    /\ pipe # <<>> /\ Line.type \in types
    /\ pipe' = Tail(pipe)
    /\ UNCHANGED <<failing, open, userVars, turns, asked, sent, ended, interrupts>>

Refuses == Goes("reader", "failed") /\ UNCHANGED <<state, life, rpc, timerVars>>

(* An accepted line publishes one event.                                   *)
Projects(st, newLife) == state' = st /\ life' = newLife /\ Goes("reader", "publish")

HandleResponse ==
    /\ Handles({"response"})
    /\ \/ /\ rpc.response = "sent"
          /\ rpc' = [rpc EXCEPT !.response = "got"]
          /\ UNCHANGED <<state, life, pc, timerVars>>
       \/ rpc.response # "sent" /\ Refuses

HandleRefused == Handles({"refused"}) /\ Refuses

ActiveTurn == life.active /\ Line.turn = life.turn
Notifiable == state # "Disconnected" /\ life.pending = NoRequest

(* discardEarlyProgress: nothing of a turn whose start is under way.       *)
EarlyProgress == life.startPending /\ life.turn = 0

HandleTurnStarted ==
    /\ Handles({"turnStarted"})
    /\ LET fits == Notifiable /\ ActiveTurn /\ ~life.turnNotified /\ ~life.item
       IN  \/ /\ EarlyProgress
              /\ UNCHANGED <<state, life, pc, rpc, timerVars>>
           \/ /\ ~EarlyProgress /\ fits
              /\ Projects(state, [life EXCEPT !.turnNotified = TRUE])
              /\ UNCHANGED <<rpc, timerVars>>
           \/ ~EarlyProgress /\ ~fits /\ Refuses

HandleItem ==
    /\ Handles({"itemStarted", "itemCompleted"})
    /\ LET starts == Line.type = "itemStarted"
           fits == Notifiable /\ ActiveTurn /\ life.item # starts
       IN  \/ /\ EarlyProgress
              /\ UNCHANGED <<state, life, pc, rpc, timerVars>>
           \/ /\ ~EarlyProgress /\ fits
              /\ Projects(state, [life EXCEPT !.item = starts,
                                              !.turnNotified = @ \/ starts])
              /\ UNCHANGED <<rpc, timerVars>>
           \/ ~EarlyProgress /\ ~fits /\ Refuses

(* Mutation of Terminable: a cancelled turn ends with any terminal line.   *)
TerminableAnyhow ==
    /\ Notifiable /\ ActiveTurn /\ life.turnNotified
    /\ life.item => life.cancellation # "none"

(* terminalEventLocked.                                                    *)
Terminable ==
    /\ Notifiable /\ ActiveTurn /\ life.turnNotified
    /\ life.item => life.cancellation # "none"
    /\ life.cancellation # "none" =>
           life.cancellation = "acknowledged" /\ Line.status = "interrupted"

HandleTurnCompleted ==
    /\ Handles({"turnCompleted"})
    /\ \/ /\ Terminable /\ life.cancellation = "none"
          /\ Projects(state, [life EXCEPT !.turn = 0, !.active = FALSE, !.turnNotified = FALSE])
          /\ UNCHANGED <<rpc, timerVars>>
       \/ /\ Terminable /\ life.cancellation # "none"
          /\ Projects("Cancelled", [NoLife EXCEPT !.startPending = life.startPending])
          /\ cancelTimers' = [cancelTimers EXCEPT ![life.turn] = Stopped(@)]
          /\ UNCHANGED <<rpc, timers>>
       \/ ~Terminable /\ Refuses

Waiting(kind) == IF kind = "input" THEN "WaitingForUserInput" ELSE "WaitingForApproval"

HandleServerRequest ==
    /\ Handles({"request"})
    /\ LET askable == /\ ActiveTurn /\ life.item
                      /\ state = "Running" /\ life.pending = NoRequest
           kind == asked[Line.id]
       IN  \/ /\ askable
              /\ Projects(Waiting(kind),
                          [life EXCEPT !.pending = [id |-> Line.id, kind |-> kind, inFlight |-> FALSE]])
              /\ timers' = [timers EXCEPT ![Line.id] = "armed"]
              /\ UNCHANGED <<rpc, cancelTimers>>
           \/ ~askable /\ Refuses

HandleServerRequestResolved ==
    /\ Handles({"resolved"})
    /\ LET resolvable == /\ life.active
                         /\ life.pending # NoRequest /\ life.pending.id = Line.id
                         /\ life.pending.inFlight /\ state = Waiting(life.pending.kind)
       IN  \/ /\ resolvable
              /\ Projects("Running", [life EXCEPT !.pending = NoRequest])
              /\ timers' = [timers EXCEPT ![Line.id] = Stopped(@)]
              /\ UNCHANGED <<rpc, cancelTimers>>
           \/ ~resolvable /\ Refuses

-----------------------------------------------------------------------------
(* Lifecycle operations.                                                   *)

OpUnchanged == UNCHANGED <<open, timers, userVars, pipe, asked, sent, ended>>

(* rejectLifecycle, rejectCancellation, and the errors of a request.       *)
OpRejected == Goes("op", "idle") /\ failing' = TRUE

(* A request is written, or the pipe or the client is gone.                *)
Writes(method) ==
    \/ open /\ Goes("op", "wait") /\ rpc' = [NoRPC EXCEPT !.method = method] /\ UNCHANGED failing
    \/ failing /\ OpRejected /\ UNCHANGED rpc

StartTurn ==
    /\ pc.op = "idle"
    /\ \/ /\ state # "Disconnected" /\ ~life.active /\ turns < MaxTurns
          /\ Writes("turn")
          /\ life' = [life EXCEPT !.startPending = rpc'.method = "turn"]
          /\ turns' = IF rpc'.method = "turn" THEN turns + 1 ELSE turns
       \/ /\ state = "Disconnected" \/ life.active
          /\ OpRejected
          /\ UNCHANGED <<life, rpc, turns>>
    /\ OpUnchanged /\ UNCHANGED <<state, cancelTimers, interrupts>>

(* client.request returns an error, or a response that is refused.         *)
OpFails ==
    /\ pc.op = "wait"
    /\ failing \/ rpc.response = "got"
    /\ OpRejected
    /\ rpc' = NoRPC
    /\ life' = IF rpc.response = "got" THEN life ELSE [life EXCEPT !.startPending = FALSE]
    /\ OpUnchanged /\ UNCHANGED <<state, turns, cancelTimers, interrupts>>

Answered(method) ==
    /\ pc.op = "wait" /\ rpc = [method |-> method, response |-> "got"]
    /\ rpc' = NoRPC

(* startTurn installs the turn, whatever has become of the session.        *)
TurnStarted ==
    /\ Answered("turn")
    /\ life' = [life EXCEPT !.turn = turns, !.item = FALSE, !.active = TRUE,
                            !.startPending = FALSE, !.turnNotified = FALSE]
    /\ Goes("op", "emit")
    /\ OpUnchanged /\ UNCHANGED <<state, turns, failing, cancelTimers, interrupts>>

(* Mutation of TurnEmits: the state is set without looking at it again.    *)
TurnEmitsBlindly ==
    /\ pc.op = "emit"
    /\ state' = "Running"
    /\ Goes("op", "publish")
    /\ OpUnchanged /\ UNCHANGED <<life, rpc, turns, failing, cancelTimers, interrupts>>

(* The first turn makes the session Running, a later one is only reported. *)
TurnEmits ==
    /\ pc.op = "emit"
    /\ \/ /\ state # "Disconnected"
          /\ state' = IF state = "Ready" THEN "Running" ELSE state
          /\ Goes("op", "publish")
       \/ /\ state = "Disconnected"
          /\ Goes("op", "idle") \/ Goes("op", "audit")
          /\ UNCHANGED state
    /\ OpUnchanged /\ UNCHANGED <<life, rpc, turns, failing, cancelTimers, interrupts>>

OpAudits ==
    /\ pc.op = "audit"
    /\ Goes("op", "idle")
    /\ OpUnchanged
    /\ UNCHANGED <<state, life, rpc, turns, failing, cancelTimers, interrupts>>

Cancellable(t) ==
    /\ state = "Running" /\ life.active /\ life.turn = t
    /\ life.pending = NoRequest /\ life.cancellation = "none"

Cancel(t) ==
    /\ pc.op = "idle"
    /\ \/ /\ Cancellable(t)
          /\ life' = [life EXCEPT !.cancellation = "requested"]
          /\ Goes("op", "publishCancel")
          /\ UNCHANGED failing
       \/ ~Cancellable(t) /\ OpRejected /\ UNCHANGED life
    /\ OpUnchanged /\ UNCHANGED <<state, rpc, turns, cancelTimers, interrupts>>

Interrupt ==
    /\ pc.op = "interrupt"
    /\ Writes("interrupt")
    /\ OpUnchanged /\ UNCHANGED <<state, life, turns, cancelTimers, interrupts>>

(* Cancel takes the response; a background process is worth an event.      *)
Interrupted ==
    /\ Answered("interrupt")
    /\ \/ /\ state # "Disconnected" /\ life.active /\ life.cancellation # "none"
          /\ life' = [life EXCEPT !.cancellation = "acknowledged"]
          /\ cancelTimers' = [cancelTimers EXCEPT ![life.turn] = "armed"]
          /\ interrupts' = interrupts \cup {life.turn}
          /\ Goes("op", "publish") \/ Goes("op", "audit")
          /\ UNCHANGED failing
       \/ /\ state = "Disconnected" \/ ~life.active \/ life.cancellation = "none"
          /\ OpRejected
          /\ UNCHANGED <<life, cancelTimers, interrupts>>
    /\ OpUnchanged /\ UNCHANGED <<state, turns>>

-----------------------------------------------------------------------------
(* Decisions of the user, and deadlines.                                   *)

Matches(kind, d) == IF kind = "input" THEN d = "input" ELSE d \in {"approve", "deny"}

(* Mutation of Decidable: a decision is taken while another is delivered.  *)
DecidableAgain(r, d) ==
    /\ state # "Disconnected"
    /\ life.pending # NoRequest /\ life.pending.id = r
    /\ Matches(life.pending.kind, d)

Decidable(r, d) ==
    /\ state # "Disconnected"
    /\ life.pending # NoRequest /\ life.pending.id = r
    /\ ~life.pending.inFlight /\ Matches(life.pending.kind, d)

(* Decide, and RespondUserInput.                                           *)
Decide(r, d) ==
    /\ pc.decide = "idle"
    /\ \/ /\ Decidable(r, d)
          /\ life' = [life EXCEPT !.pending.inFlight = TRUE]
          /\ decision' = [id |-> life.pending.id, kind |-> life.pending.kind, decision |-> d]
          /\ decided' = decided \cup {<<r, d>>}
          /\ Goes("decide", "respond")
          /\ UNCHANGED failing
       \/ ~Decidable(r, d) /\ failing' = TRUE /\ UNCHANGED <<life, decision, decided, pc>>
    /\ UNCHANGED <<state, open, rpc, timerVars, expiring, answers, childVars, interrupts>>

Tells(r, what) == answers' = [answers EXCEPT ![r] = Append(@, what)]

(* The answer is written; once the client fails, that may be reported as   *)
(* an error even so, and may not happen at all.                            *)
DecisionResponds ==
    /\ pc.decide = "respond"
    /\ \/ open /\ Tells(decision.id, decision.decision)
       \/ failing /\ UNCHANGED answers
    /\ \/ /\ answers' # answers
          /\ Goes("decide", "audit")
          /\ UNCHANGED <<decision, failing>>
       \/ /\ failing
          /\ Goes("decide", "idle")
          /\ decision' = NoDecision
          /\ UNCHANGED failing
    /\ UNCHANGED <<state, life, open, rpc, timerVars, expiring, decided, childVars, interrupts>>

(* A denial is terminal for the session.                                   *)
DecisionAudits ==
    /\ pc.decide = "audit"
    /\ Goes("decide", "idle")
    /\ failing' = (failing \/ decision.decision = "deny")
    /\ decision' = NoDecision
    /\ UNCHANGED <<state, life, open, rpc, timerVars, expiring, decided, answers, childVars, interrupts>>

(* A timer's function runs; stopping the timer is too late from here on.   *)
Deadline ==
    /\ \/ \E r \in Asks : /\ timers[r] = "armed"
                          /\ timers' = [timers EXCEPT ![r] = "fired"]
                          /\ UNCHANGED cancelTimers
       \/ \E t \in Turns : /\ cancelTimers[t] = "armed"
                           /\ cancelTimers' = [cancelTimers EXCEPT ![t] = "fired"]
                           /\ UNCHANGED timers
    /\ UNCHANGED <<state, life, pc, failing, open, rpc, userVars, childVars, interrupts>>

(* expirePending drops the request, audits, answers deny, and fails.       *)
ExpirePending(r) ==
    /\ timers[r] = "fired"
    /\ timers' = [timers EXCEPT ![r] = "expired"]
    /\ LET current == state # "Disconnected" /\ life.pending.id = r
       IN  \/ /\ current
              /\ expiring' = life.pending
              /\ life' = [life EXCEPT !.pending = NoRequest]
              /\ Goes("expire", "audit")
           \/ ~current /\ UNCHANGED <<expiring, life, pc>>
    /\ UNCHANGED <<state, failing, open, rpc, cancelTimers, decision, decided, answers, childVars,
                   interrupts>>

ExpiryAudits ==
    /\ pc.expire = "audit"
    /\ Goes("expire", "respond")
    /\ UNCHANGED <<state, life, failing, open, rpc, timerVars, userVars, childVars, interrupts>>

ExpiryResponds ==
    /\ pc.expire = "respond"
    /\ \/ expiring.kind = "approval" /\ open /\ Tells(expiring.id, "expired")
       \/ (expiring.kind = "input" \/ failing) /\ UNCHANGED answers
    /\ Goes("expire", "idle")
    /\ expiring' = NoRequest
    /\ failing' = TRUE
    /\ UNCHANGED <<state, life, open, rpc, timerVars, decision, decided, childVars, interrupts>>

ExpireCancellation(t) ==
    /\ cancelTimers[t] = "fired"
    /\ cancelTimers' = [cancelTimers EXCEPT ![t] = "off"]
    /\ failing' = (failing \/ (/\ state # "Disconnected" /\ life.turn = t
                               /\ life.cancellation = "acknowledged"))
    /\ UNCHANGED <<state, life, pc, open, rpc, timers, userVars, childVars, interrupts>>

-----------------------------------------------------------------------------
Next ==
    \/ StartTurn \/ TurnStarted \/ TurnEmits \/ OpFails \/ OpAudits
    \/ \E t \in Turns : Cancel(t)
    \/ Interrupt \/ Interrupted
    \/ Published \/ AuditFailure \/ Fail \/ Disconnect \/ ReaderFails
    \/ ChildResponds \/ ChildReports
    \/ HandleResponse \/ HandleRefused \/ HandleTurnStarted \/ HandleItem
    \/ HandleTurnCompleted
    \/ HandleServerRequest \/ HandleServerRequestResolved
    \/ \E r \in 1..Len(asked), d \in Decisions : Decide(r, d)
    \/ DecisionResponds \/ DecisionAudits
    \/ Deadline
    \/ \E r \in Asks : ExpirePending(r)
    \/ ExpiryAudits \/ ExpiryResponds
    \/ \E t \in Turns : ExpireCancellation(t)

Spec == Init /\ [][Next]_vars

-----------------------------------------------------------------------------
(* Disconnected is final: no operation, handler or deadline that was under *)
(* way when the session disconnected makes it usable again.                *)
DisconnectedIsFinal == [][state = "Disconnected" => state' = "Disconnected"]_state

(* A session becomes Cancelled only when the child acknowledged the        *)
(* interrupt of its turn and reported that very turn interrupted (Cancel,  *)
(* terminalEventLocked).                                                   *)
CancelledIsConfirmed ==
    [][state' = "Cancelled" /\ state # "Cancelled" =>
          life.turn \in interrupts /\ "interrupted" \in ended[life.turn]]_state

(* The child hears a decision only if the user took it for that request,   *)
(* and hears one; and a deny for want of one only of the request whose     *)
(* deadline passed, and only once (Decide, RespondUserInput,               *)
(* expirePending).                                                         *)
AnswersAreDecided ==
    \A r \in Asks : \A i \in DOMAIN answers[r] :
        /\ IF answers[r][i] = "expired" THEN timers[r] = "expired"
                                       ELSE <<r, answers[r][i]>> \in decided
        /\ \A j \in DOMAIN answers[r] :
              (answers[r][i] = "expired") = (answers[r][j] = "expired") => i = j

(* After the user denied a request of a turn, the session does not return  *)
(* that turn to Running.                                                   *)
DenyIsFinal ==
    [][\A r \in Asks : <<r, "deny">> \in decided /\ state # "Running" => state' # "Running"]_state
=============================================================================
