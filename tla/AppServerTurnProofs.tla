------------------------ MODULE AppServerTurnProofs ------------------------
(***************************************************************************)
(* Disconnected is final, a session is Cancelled only on the child's word, *)
(* and the child hears only what the user decided, for any number of       *)
(* turns, requests and lines and any behaviour of the child.               *)
(***************************************************************************)
EXTENDS AppServerTurn, TLAPS

LineTypes == {"response", "turnStarted", "itemStarted", "itemCompleted", "turnCompleted",
              "request", "resolved", "refused"}
Lines == [type : LineTypes,
          turn : 0..MaxTurns, id : 0..MaxAsks, status : Statuses \cup {"none"}]

(* What waits for the reader was said by the child.                        *)
LinesAreTrue ==
    /\ pipe \in Seq(Lines)
    /\ turns \in 0..MaxTurns /\ asked \in Seq(Kinds) /\ Len(asked) <= MaxAsks
    /\ ended \in [Turns -> SUBSET Statuses]
    /\ \A i \in 1..Len(pipe) : pipe[i].type = "turnCompleted" =>
          pipe[i].turn \in Turns /\ pipe[i].status \in ended[pipe[i].turn]

Shapes ==
    /\ DOMAIN life = DOMAIN NoLife /\ DOMAIN rpc = DOMAIN NoRPC
    /\ DOMAIN pc = {"op", "reader", "decide", "expire"}

(* A cancellation belongs to the active turn: a turn is not replaced while *)
(* it is under way, and it is acknowledged when the interrupt was.         *)
Cancelling ==
    /\ life.cancellation \in {"none", "requested", "acknowledged"}
    /\ life.cancellation # "none" => life.active
    /\ pc.op = "wait" /\ rpc.method = "turn" => life.cancellation = "none"
    /\ life.cancellation = "acknowledged" => life.turn \in interrupts

Confirmed == LinesAreTrue /\ Shapes /\ Cancelling

-----------------------------------------------------------------------------
(* The child's lines.                                                      *)

LEMMA SayIsTrue ==
    ASSUME LinesAreTrue, NEW type \in LineTypes, NEW turn \in 0..MaxTurns,
           NEW id \in 0..MaxAsks, NEW status \in Statuses \cup {"none"},
           Say(type, turn, id, status), turns' = turns,
           asked' \in Seq(Kinds), Len(asked') <= MaxAsks,
           ended' \in [Turns -> SUBSET Statuses],
           \A t \in Turns : ended[t] \subseteq ended'[t],
           type = "turnCompleted" => turn \in Turns /\ status \in ended'[turn]
    PROVE  LinesAreTrue'
  <1> DEFINE line == [type |-> type, turn |-> turn, id |-> id, status |-> status]
  <1>0. line \in Lines
    BY DEF Lines
  <1>1. /\ pipe' = Append(pipe, line) /\ pipe' \in Seq(Lines) /\ Len(pipe') = Len(pipe) + 1
        /\ Len(pipe) \in Nat /\ pipe'[Len(pipe) + 1] = line
        /\ \A i \in 1..Len(pipe) : pipe'[i] = pipe[i]
    BY <1>0 DEF Say, LinesAreTrue
  <1>2. ASSUME NEW i \in 1..Len(pipe'), pipe'[i].type = "turnCompleted"
        PROVE  pipe'[i].turn \in Turns /\ pipe'[i].status \in ended'[pipe'[i].turn]
    <2>1. CASE i \in 1..Len(pipe)
      BY <1>1, <1>2, <2>1 DEF LinesAreTrue
    <2>2. CASE i = Len(pipe) + 1
      BY <1>1, <1>2, <2>2
    <2> QED
      BY <1>1, <2>1, <2>2
  <1> QED
    BY <1>1, <1>2 DEF LinesAreTrue

LEMMA ChildIsTrue ==
    ASSUME LinesAreTrue, ChildResponds \/ ChildReports
    PROVE  LinesAreTrue'
  <1> USE TurnAssumption DEF LineTypes, Turns
  <1>1. turns \in Nat /\ MaxTurns \in Nat /\ 1..turns \subseteq 1..MaxTurns
    BY DEF LinesAreTrue
  <1>2. CASE ChildResponds
    BY <1>2, SayIsTrue DEF ChildResponds, LinesAreTrue
  <1>3. CASE ChildReports
    <2>1. turns' = turns
      BY <1>3 DEF ChildReports
    <2>2. ASSUME NEW t \in 1..turns, NEW type \in {"turnStarted", "itemStarted", "itemCompleted"},
                 Say(type, t, 0, "none"), UNCHANGED <<asked, ended>>
          PROVE  LinesAreTrue'
      BY <1>1, <2>1, <2>2, SayIsTrue DEF LinesAreTrue
    <2>3. ASSUME NEW t \in 1..turns, NEW status \in Statuses,
                 Say("turnCompleted", t, 0, status), UNCHANGED asked,
                 ended' = [ended EXCEPT ![t] = @ \cup {status}]
          PROVE  LinesAreTrue'
      <3>1. /\ ended' \in [Turns -> SUBSET Statuses] /\ t \in Turns /\ status \in ended'[t]
            /\ \A u \in Turns : ended[u] \subseteq ended'[u]
        BY <1>1, <2>3 DEF LinesAreTrue
      <3>2. /\ t \in 0..MaxTurns /\ 0 \in 0..MaxAsks
            /\ asked' \in Seq(Kinds) /\ Len(asked') <= MaxAsks
        BY <1>1, <2>3 DEF LinesAreTrue
      <3> HIDE DEF Turns
      <3> QED
        BY <2>1, <2>3, <3>1, <3>2, SayIsTrue
    <2>4. ASSUME NEW kind \in Kinds, NEW t \in 1..turns, Len(asked) < MaxAsks,
                 asked' = Append(asked, kind), Say("request", t, Len(asked) + 1, "none"),
                 UNCHANGED ended
          PROVE  LinesAreTrue'
      <3>1. /\ asked' \in Seq(Kinds) /\ Len(asked') <= MaxAsks
            /\ Len(asked) + 1 \in 0..MaxAsks
        BY <2>4 DEF LinesAreTrue
      <3> QED
        BY <1>1, <2>1, <2>4, <3>1, SayIsTrue DEF LinesAreTrue
    <2>5. ASSUME NEW r \in 1..Len(asked), Say("resolved", 0, r, "none"), UNCHANGED <<asked, ended>>
          PROVE  LinesAreTrue'
      BY <2>1, <2>5, SayIsTrue DEF LinesAreTrue
    <2>6. ASSUME Say("refused", 0, 0, "none"), UNCHANGED <<asked, ended>>
          PROVE  LinesAreTrue'
      BY <2>1, <2>6, SayIsTrue DEF LinesAreTrue
    <2> QED
      BY <1>3, <2>2, <2>3, <2>4, <2>5, <2>6 DEF ChildReports
  <1> QED
    BY <1>2, <1>3

LEMMA ReaderIsTrue ==
    ASSUME LinesAreTrue, NEW types, Handles(types)
    PROVE  LinesAreTrue'
  <1>1. /\ pipe' = Tail(pipe) /\ pipe' \in Seq(Lines) /\ Len(pipe') = Len(pipe) - 1
        /\ Len(pipe) \in Nat /\ Len(pipe') \in Nat
        /\ \A i \in 1..Len(pipe') : pipe'[i] = pipe[i + 1]
        /\ UNCHANGED <<turns, asked, ended>>
    BY DEF Handles, LinesAreTrue
  <1> QED
    BY <1>1 DEF LinesAreTrue

(* The lines and the child's counts are touched by nobody else.            *)
LEMMA OthersAreTrue ==
    ASSUME LinesAreTrue, pipe' \in {pipe, <<>>}, UNCHANGED <<asked, ended>>,
           turns' = turns \/ (turns < MaxTurns /\ turns' = turns + 1)
    PROVE  LinesAreTrue'
  <1>1. turns' \in 0..MaxTurns
    BY TurnAssumption DEF LinesAreTrue
  <1>2. CASE pipe' = pipe
    BY <1>1, <1>2 DEF LinesAreTrue
  <1>3. CASE pipe' = <<>>
    BY <1>1, <1>3 DEF LinesAreTrue
  <1> QED
    BY <1>2, <1>3

-----------------------------------------------------------------------------
(* One lemma per goroutine.                                                *)

(* Steps that touch neither the turn nor the operation.                    *)
LEMMA AsideKeeps ==
    ASSUME Shapes, Cancelling, UNCHANGED interrupts,
           DOMAIN life' = DOMAIN life, life'.cancellation = life.cancellation,
           life'.active = life.active, life'.turn = life.turn,
           DOMAIN rpc' = DOMAIN rpc, rpc'.method = rpc.method,
           DOMAIN pc' = DOMAIN pc, pc'.op = pc.op \/ pc'.op # "wait"
    PROVE  Shapes' /\ Cancelling'
  BY DEF Shapes, Cancelling

LEMMA ChildStep ==
    ASSUME Confirmed, ChildResponds \/ ChildReports
    PROVE  Confirmed'
  <1>1. Shapes' /\ Cancelling'
    BY AsideKeeps DEF Confirmed, ChildResponds, ChildReports, Shapes, NoRPC
  <1> QED
    BY <1>1, ChildIsTrue DEF Confirmed

LEMMA ReaderStep ==
    ASSUME Confirmed,
           \/ HandleResponse \/ HandleRefused \/ HandleTurnStarted \/ HandleItem
           \/ HandleTurnCompleted \/ HandleServerRequest \/ HandleServerRequestResolved
    PROVE  Confirmed'
  <1> USE DEF Goes, Refuses, Projects
  <1>1. LinesAreTrue' /\ interrupts' = interrupts
    BY ReaderIsTrue DEF Confirmed, Handles, HandleResponse, HandleRefused, HandleTurnStarted,
       HandleItem, HandleTurnCompleted, HandleServerRequest, HandleServerRequestResolved
  <1>2. CASE HandleResponse
    BY <1>1, <1>2, AsideKeeps DEF Confirmed, HandleResponse, Shapes, NoRPC
  <1>3. CASE HandleRefused
    BY <1>1, <1>3, AsideKeeps DEF Confirmed, HandleRefused, Shapes, NoRPC
  <1>4. CASE HandleTurnStarted
    BY <1>1, <1>4, AsideKeeps DEF Confirmed, HandleTurnStarted, Shapes, NoLife
  <1>5. CASE HandleItem
    BY <1>1, <1>5, AsideKeeps DEF Confirmed, HandleItem, Shapes, NoLife
  <1>6. CASE HandleServerRequest
    BY <1>1, <1>6, AsideKeeps DEF Confirmed, HandleServerRequest, Shapes, NoLife
  <1>7. CASE HandleServerRequestResolved
    BY <1>1, <1>7, AsideKeeps DEF Confirmed, HandleServerRequestResolved, Shapes, NoLife
  <1>8. CASE HandleTurnCompleted
    <2>1. CASE life.cancellation = "none"
      BY <1>1, <1>8, <2>1 DEF Confirmed, HandleTurnCompleted, Shapes, Cancelling, NoLife, NoRPC
    <2>2. CASE life.cancellation # "none"
      BY <1>1, <1>8, <2>2 DEF Confirmed, HandleTurnCompleted, Shapes, Cancelling, NoLife, NoRPC
    <2> QED
      BY <2>1, <2>2
  <1> QED
    BY <1>2, <1>3, <1>4, <1>5, <1>6, <1>7, <1>8

LEMMA OperationStep ==
    ASSUME Confirmed,
           \/ StartTurn \/ TurnStarted \/ TurnEmits \/ OpFails \/ OpAudits
           \/ (\E t \in Turns : Cancel(t)) \/ Interrupt \/ Interrupted
    PROVE  Confirmed'
  <1> USE DEF Goes, OpRejected, OpUnchanged, userVars
  <1>1. LinesAreTrue'
    BY OthersAreTrue DEF Confirmed, StartTurn, TurnStarted, TurnEmits, OpFails, OpAudits, Cancel,
       Interrupt, Interrupted
  <1>2. CASE StartTurn
    BY <1>1, <1>2 DEF Confirmed, StartTurn, Writes, Shapes, Cancelling, NoLife, NoRPC
  <1>3. CASE TurnStarted
    BY <1>1, <1>3 DEF Confirmed, TurnStarted, Answered, Shapes, Cancelling, NoLife, NoRPC
  <1>4. CASE TurnEmits \/ OpAudits
    BY <1>1, <1>4, AsideKeeps DEF Confirmed, TurnEmits, OpAudits, Shapes
  <1>5. CASE OpFails
    BY <1>1, <1>5 DEF Confirmed, OpFails, Shapes, Cancelling, NoLife, NoRPC
  <1>6. ASSUME NEW t \in Turns, Cancel(t) PROVE Confirmed'
    BY <1>1, <1>6 DEF Confirmed, Cancel, Cancellable, Shapes, Cancelling, NoLife, NoRPC
  <1>7. CASE Interrupt
    BY <1>1, <1>7 DEF Confirmed, Interrupt, Writes, Shapes, Cancelling, NoRPC
  <1>8. CASE Interrupted
    BY <1>1, <1>8 DEF Confirmed, Interrupted, Answered, Shapes, Cancelling, NoLife, NoRPC
  <1> QED
    BY <1>2, <1>3, <1>4, <1>5, <1>6, <1>7, <1>8

LEMMA EndingStep ==
    ASSUME Confirmed, Published \/ AuditFailure \/ Fail \/ Disconnect \/ ReaderFails
    PROVE  Confirmed'
  <1> USE DEF Goes, childVars
  <1>1. LinesAreTrue'
    BY OthersAreTrue DEF Confirmed, Published, AuditFailure, Fail, Disconnect, ReaderFails
  <1>2. CASE Disconnect
    BY <1>1, <1>2 DEF Confirmed, Disconnect, Shapes, Cancelling, NoLife
  <1>3. CASE Published \/ AuditFailure \/ Fail \/ ReaderFails
    BY <1>1, <1>3, AsideKeeps
    DEF Confirmed, Published, AfterPublish, AuditFailure, Fail, ReaderFails, Shapes
  <1> QED
    BY <1>2, <1>3

LEMMA UserStep ==
    ASSUME Confirmed,
           \/ \E r \in 1..Len(asked), d \in Decisions : Decide(r, d)
           \/ DecisionResponds \/ DecisionAudits \/ Deadline
           \/ \E r \in Asks : ExpirePending(r)
           \/ ExpiryAudits \/ ExpiryResponds
           \/ \E t \in Turns : ExpireCancellation(t)
    PROVE  Confirmed'
  <1> USE DEF Goes, childVars
  <1>1. LinesAreTrue' /\ UNCHANGED <<rpc, interrupts>>
    BY OthersAreTrue DEF Confirmed, Decide, DecisionResponds, DecisionAudits, Deadline,
       ExpirePending, ExpiryAudits, ExpiryResponds, ExpireCancellation
  <1>2. ASSUME NEW r, NEW d, Decide(r, d) PROVE Confirmed'
    BY <1>1, <1>2, AsideKeeps DEF Confirmed, Decide, Shapes, NoLife
  <1>3. ASSUME NEW r, ExpirePending(r) PROVE Confirmed'
    BY <1>1, <1>3, AsideKeeps DEF Confirmed, ExpirePending, Shapes, NoLife
  <1>4. CASE \/ DecisionResponds \/ DecisionAudits \/ Deadline \/ ExpiryAudits \/ ExpiryResponds
             \/ \E t \in Turns : ExpireCancellation(t)
    BY <1>1, <1>4, AsideKeeps
    DEF Confirmed, DecisionResponds, DecisionAudits, Deadline, ExpiryAudits, ExpiryResponds,
        ExpireCancellation, Shapes
  <1> QED
    BY <1>2, <1>3, <1>4

LEMMA InitConfirmed == Init => Confirmed
  BY TurnAssumption
  DEF Init, Confirmed, LinesAreTrue, Shapes, Cancelling, NoLife, NoRPC, Statuses, Kinds

LEMMA NextConfirmed == Confirmed /\ [Next]_vars => Confirmed'
  <1> SUFFICES ASSUME Confirmed, [Next]_vars PROVE Confirmed'
    OBVIOUS
  <1>1. CASE UNCHANGED vars
    <2>1. LinesAreTrue'
      BY <1>1, OthersAreTrue DEF Confirmed, vars, childVars
    <2> QED
      BY <1>1, <2>1, AsideKeeps DEF Confirmed, vars
  <1> QED
    BY <1>1, ChildStep, ReaderStep, OperationStep, EndingStep, UserStep DEF Next

-----------------------------------------------------------------------------
(* Few steps change the state: the first event of a turn, the handlers of  *)
(* a terminal line, of a request and of its resolution, and those that     *)
(* disconnect.                                                             *)
LEMMA StateChanges ==
    ASSUME Confirmed, Next, state' # state
    PROVE  /\ state # "Disconnected"
           /\ state' = "Cancelled" =>
                 life.turn \in interrupts /\ "interrupted" \in ended[life.turn]
  <1>1. CASE TurnEmits
    BY <1>1 DEF TurnEmits
  <1>2. CASE AuditFailure \/ Disconnect
    <2>1. state' = "Disconnected"
      BY <1>2 DEF AuditFailure, Disconnect
    <2> QED
      BY <2>1
  <1>3. CASE HandleTurnCompleted
    <2>1. Terminable /\ life.cancellation # "none"
      BY <1>3 DEF HandleTurnCompleted, Projects, Refuses
    <2>2. /\ state # "Disconnected" /\ life.cancellation = "acknowledged"
          /\ Line.status = "interrupted" /\ Line.turn = life.turn
      BY <2>1 DEF Terminable, Notifiable, ActiveTurn
    <2>3. Len(pipe) >= 1 /\ Line = pipe[1] /\ Line.type = "turnCompleted"
      BY <1>3 DEF HandleTurnCompleted, Handles, Line, Confirmed, LinesAreTrue
    <2>4. "interrupted" \in ended[life.turn]
      BY <2>2, <2>3 DEF Confirmed, LinesAreTrue
    <2> QED
      BY <2>2, <2>4 DEF Confirmed, Cancelling
  <1>4. CASE HandleServerRequest
    <2>1. state = "Running" /\ state' \in {"WaitingForApproval", "WaitingForUserInput"}
      BY <1>4 DEF HandleServerRequest, Projects, Refuses, Waiting
    <2> QED
      BY <2>1
  <1>5. CASE HandleServerRequestResolved
    <2>1. state \in {"WaitingForApproval", "WaitingForUserInput"} /\ state' = "Running"
      BY <1>5 DEF HandleServerRequestResolved, Projects, Refuses, Waiting
    <2> QED
      BY <2>1
  <1>6. CASE \/ HandleResponse \/ HandleRefused \/ HandleTurnStarted \/ HandleItem
             \/ ChildResponds \/ ChildReports \/ Published \/ Fail \/ ReaderFails
    BY <1>6 DEF HandleResponse, HandleRefused, HandleTurnStarted, HandleItem, Projects, Refuses,
                ChildResponds, ChildReports, Published, Fail, ReaderFails
  <1>7. CASE \/ StartTurn \/ TurnStarted \/ OpFails \/ OpAudits
             \/ (\E t \in Turns : Cancel(t)) \/ Interrupt \/ Interrupted
    BY <1>7 DEF StartTurn, TurnStarted, OpFails, OpAudits, Cancel, Interrupt, Interrupted
  <1>8. CASE \/ \E r \in 1..Len(asked), d \in Decisions : Decide(r, d)
             \/ DecisionResponds \/ DecisionAudits \/ Deadline
             \/ \E r \in Asks : ExpirePending(r)
             \/ ExpiryAudits \/ ExpiryResponds
             \/ \E t \in Turns : ExpireCancellation(t)
    BY <1>8 DEF Decide, DecisionResponds, DecisionAudits, Deadline, ExpirePending, ExpiryAudits,
                ExpiryResponds, ExpireCancellation
  <1> QED
    BY <1>1, <1>2, <1>3, <1>4, <1>5, <1>6, <1>7, <1>8 DEF Next

(* No goroutine that was under way when the session disconnected makes it  *)
(* usable again.                                                           *)
THEOREM DisconnectedFinal == Spec => DisconnectedIsFinal
  <1>1. Confirmed /\ [Next]_vars => [state = "Disconnected" => state' = "Disconnected"]_state
    BY StateChanges DEF vars
  <1> QED
    BY <1>1, InitConfirmed, NextConfirmed, PTL DEF Spec, DisconnectedIsFinal

(* Cancelled follows an acknowledged interrupt of the turn and the child's *)
(* report that this turn was interrupted.                                  *)
THEOREM CancelledConfirmed == Spec => CancelledIsConfirmed
  <1>1. Confirmed /\ [Next]_vars =>
           [state' = "Cancelled" /\ state # "Cancelled" =>
               life.turn \in interrupts /\ "interrupted" \in ended[life.turn]]_state
    BY StateChanges DEF vars
  <1> QED
    BY <1>1, InitConfirmed, NextConfirmed, PTL DEF Spec, CancelledIsConfirmed

-----------------------------------------------------------------------------
(* Answers.  A request is handled once, it is pending until a decision is  *)
(* taken or its deadline drops it, and only what was taken or dropped is   *)
(* answered, by the goroutine that took or dropped it.                     *)

AskTypes ==
    /\ timers \in [Asks -> {"off", "armed", "fired", "expired"}]
    /\ answers \in [Asks -> Seq(Decisions \cup {"expired"})]
    /\ life.pending \in PendingRequests /\ expiring \in PendingRequests
    /\ decision \in [id : Asks, kind : Kinds, decision : Decisions] \cup {NoDecision}

(* Nothing has been done about request r.                                  *)
Untouched(r) ==
    /\ timers[r] = "off" /\ answers[r] = <<>>
    /\ life.pending.id # r /\ expiring.id # r /\ decision.id # r

Said(r) == \E i \in DOMAIN answers[r] : answers[r][i] # "expired"
Lapsed(r) == \E i \in DOMAIN answers[r] : answers[r][i] = "expired"

Unhandled(i) == pipe[i].type = "request"

HandledOnce ==
    /\ \A r \in Asks : r > Len(asked) => Untouched(r)
    /\ \A i \in 1..Len(pipe) :
          Unhandled(i) => pipe[i].id \in 1..Len(asked) /\ Untouched(pipe[i].id)
    /\ \A i, j \in 1..Len(pipe) :
          Unhandled(i) /\ Unhandled(j) /\ pipe[i].id = pipe[j].id => i = j

Undelivered ==
    /\ life.pending # NoRequest =>
          /\ expiring.id # life.pending.id /\ ~Lapsed(life.pending.id)
          /\ ~life.pending.inFlight => decision.id # life.pending.id /\ ~Said(life.pending.id)
    /\ decision # NoDecision => <<decision.id, decision.decision>> \in decided
    /\ pc.decide = "respond" => decision # NoDecision /\ ~Said(decision.id)
    /\ expiring # NoRequest => timers[expiring.id] = "expired" /\ ~Lapsed(expiring.id)
    /\ pc.expire \in {"audit", "respond"} => expiring # NoRequest

Asking == AskTypes /\ HandledOnce /\ Undelivered /\ AnswersAreDecided

(* What is left of the lines.                                              *)
LEMMA HandledStay ==
    ASSUME LinesAreTrue, HandledOnce, UNCHANGED asked,
           pipe' \in {pipe, <<>>} \/ (pipe # <<>> /\ pipe' = Tail(pipe)),
           \A r \in Asks :
               Untouched(r)
                   /\ ~(pipe' # pipe /\ pipe # <<>> /\ Head(pipe).type = "request" /\ Head(pipe).id = r)
                   => Untouched(r)'
    PROVE  HandledOnce'
  <1>0. pipe \in Seq(Lines) /\ Len(asked) <= MaxAsks /\ Len(asked) \in Nat /\ MaxAsks \in Nat
    BY TurnAssumption DEF LinesAreTrue
  <1>1. CASE pipe' = pipe
    <2>1. \A r \in Asks : Untouched(r) => Untouched(r)'
      BY <1>1
    <2>2. 1..Len(asked) \subseteq Asks
      BY <1>0 DEF Asks
    <2> QED
      BY <1>1, <2>1, <2>2 DEF HandledOnce, Unhandled
  <1>2. ASSUME pipe # <<>>, pipe' = Tail(pipe) PROVE HandledOnce'
    <2>1. /\ Len(pipe) \in Nat \ {0} /\ Len(pipe') = Len(pipe) - 1 /\ Head(pipe) = pipe[1]
          /\ \A i \in 1..Len(pipe') : i + 1 \in 1..Len(pipe) /\ pipe'[i] = pipe[i + 1]
          /\ 1 \in 1..Len(pipe)
      BY <1>0, <1>2
    <2>2. ASSUME NEW i \in 1..Len(pipe'), Unhandled(i)'
          PROVE  (pipe[i].id \in 1..Len(asked) /\ Untouched(pipe[i].id))'
      <3>1. Unhandled(i + 1) /\ i + 1 \in 1..Len(pipe) /\ i + 1 # 1
        BY <2>1, <2>2 DEF Unhandled
      <3>2. pipe'[i].id \in 1..Len(asked) /\ Untouched(pipe'[i].id)
        BY <2>1, <3>1 DEF HandledOnce
      <3>3. ~(Head(pipe).type = "request" /\ Head(pipe).id = pipe'[i].id)
        BY <2>1, <3>1 DEF HandledOnce, Unhandled
      <3>4. pipe'[i].id \in Asks
        BY <1>0, <3>2 DEF Asks
      <3> QED
        BY <1>2, <3>2, <3>3, <3>4 DEF Untouched
    <2>3. ASSUME NEW r \in Asks, r > Len(asked) PROVE Untouched(r)'
      <3>1. Untouched(r)
        BY <2>3 DEF HandledOnce
      <3>2. ~(Head(pipe).type = "request" /\ Head(pipe).id = r)
        BY <1>0, <2>1, <2>3 DEF HandledOnce, Unhandled, Asks
      <3> QED
        BY <3>1, <3>2
    <2>4. ASSUME NEW i \in 1..Len(pipe'), NEW j \in 1..Len(pipe'), Unhandled(i)', Unhandled(j)',
                 pipe'[i].id = pipe'[j].id
          PROVE  i = j
      <3>1. /\ Unhandled(i + 1) /\ Unhandled(j + 1) /\ pipe[i + 1].id = pipe[j + 1].id
            /\ i + 1 \in 1..Len(pipe) /\ j + 1 \in 1..Len(pipe)
        BY <2>1, <2>4 DEF Unhandled
      <3>2. i + 1 = j + 1
        BY <3>1 DEF HandledOnce
      <3> QED
        BY <2>1, <3>2
    <2> QED
      BY <2>2, <2>3, <2>4 DEF HandledOnce, Unhandled
  <1>3. ASSUME pipe' = <<>>, pipe' # pipe PROVE HandledOnce'
    <2>1. Len(pipe') = 0
      BY <1>3
    <2>2. ASSUME NEW r \in Asks, r > Len(asked) PROVE Untouched(r)'
      <3>1. Untouched(r)
        BY <2>2 DEF HandledOnce
      <3>2. pipe # <<>> => Head(pipe) = pipe[1] /\ 1 \in 1..Len(pipe)
        BY <1>0
      <3>3. ~(pipe # <<>> /\ Head(pipe).type = "request" /\ Head(pipe).id = r)
        BY <1>0, <2>2, <3>2 DEF HandledOnce, Unhandled, Asks
      <3> QED
        BY <3>1, <3>3
    <2> QED
      BY <2>1, <2>2 DEF HandledOnce
  <1> QED
    BY <1>1, <1>2, <1>3

(* Steps that answer, take and drop nothing: they may end the request that *)
(* is pending, move timers that have not run out, and give up a decision   *)
(* or an expiry that is under way.                                         *)
LEMMA CalmAsking ==
    ASSUME Confirmed, Asking, UNCHANGED <<asked, decided, answers>>,
           pipe' \in {pipe, <<>>} \/ (pipe # <<>> /\ pipe' = Tail(pipe)),
           timers' \in [Asks -> {"off", "armed", "fired", "expired"}],
           \A r \in Asks : timers'[r] = timers[r] \/ timers[r] \in {"armed", "fired"},
           life'.pending \in {life.pending, NoRequest},
           decision' \in {decision, NoDecision}, expiring' \in {expiring, NoRequest},
           pc'.decide = "respond" => pc.decide = "respond" /\ decision' = decision,
           pc'.expire \in {"audit", "respond"} =>
               pc.expire \in {"audit", "respond"} /\ expiring' = expiring
    PROVE  Asking'
  <1>1. AskTypes'
    BY DEF Asking, AskTypes, PendingRequests
  <1>2. \A r \in Asks : Untouched(r) => Untouched(r)'
    BY DEF Asking, AskTypes, Untouched, NoRequest, NoDecision, Asks
  <1>3. HandledOnce'
    BY <1>2, HandledStay DEF Confirmed, Asking
  <1>4. \A r \in Asks : (timers[r] = "expired" => timers'[r] = "expired")
    OBVIOUS
  <1>5. Undelivered'
    <2>1. \A r : (Said(r)' <=> Said(r)) /\ (Lapsed(r)' <=> Lapsed(r))
      BY DEF Said, Lapsed
    <2>2. CASE life'.pending = NoRequest
      BY <1>4, <2>1, <2>2 DEF Asking, AskTypes, Undelivered, PendingRequests
    <2>3. CASE life'.pending = life.pending /\ life.pending # NoRequest
      <3>1. expiring'.id # life.pending.id /\ (~life.pending.inFlight => decision'.id # life.pending.id)
        <4>1. life.pending.id \in Asks /\ life.pending.id # 0
          BY <2>3, TurnAssumption DEF Asking, AskTypes, PendingRequests, Asks
        <4>2. NoRequest.id = 0 /\ NoDecision.id = 0
          BY DEF NoRequest, NoDecision
        <4>3. expiring'.id # life.pending.id
          BY <2>3, <4>1, <4>2 DEF Asking, Undelivered
        <4>4. ~life.pending.inFlight => decision'.id # life.pending.id
          BY <2>3, <4>1, <4>2 DEF Asking, Undelivered
        <4> QED
          BY <4>3, <4>4
      <3> QED
        BY <1>4, <2>1, <2>3, <3>1 DEF Asking, AskTypes, Undelivered, PendingRequests
    <2> QED
      BY <2>2, <2>3
  <1>6. AnswersAreDecided'
    BY <1>4 DEF Asking, AnswersAreDecided
  <1> QED
    BY <1>1, <1>3, <1>5, <1>6 DEF Asking

(* The child numbers its requests in their order.                          *)
LEMMA ChildAsks ==
    ASSUME Confirmed, Asking, ChildResponds \/ ChildReports
    PROVE  Asking'
  <1>0. /\ pipe \in Seq(Lines) /\ Len(pipe) \in Nat /\ asked \in Seq(Kinds) /\ Len(asked) \in Nat
        /\ MaxAsks \in Nat /\ Len(asked) <= MaxAsks
    BY TurnAssumption DEF Confirmed, LinesAreTrue
  <1>1. UNCHANGED <<life, pc, timers, decision, expiring, decided, answers>>
    BY DEF ChildResponds, ChildReports, timerVars, userVars
  <1>2. AskTypes' /\ AnswersAreDecided'
    BY <1>1 DEF Asking, AskTypes, AnswersAreDecided
  <1>3. Undelivered'
    BY <1>1 DEF Asking, Undelivered, Said, Lapsed
  <1>4. \A r \in Asks : Untouched(r)' <=> Untouched(r)
    BY <1>1 DEF Untouched
  <1>5. ASSUME NEW line, line.type # "request", pipe' = Append(pipe, line), UNCHANGED asked
        PROVE  HandledOnce'
    <2>1. /\ Len(pipe') = Len(pipe) + 1 /\ pipe'[Len(pipe) + 1] = line
          /\ \A i \in 1..Len(pipe) : pipe'[i] = pipe[i]
      BY <1>0, <1>5
    <2>2. \A i \in 1..Len(pipe') : Unhandled(i)' => i \in 1..Len(pipe) /\ Unhandled(i)
      BY <1>0, <1>5, <2>1 DEF Unhandled
    <2>3. ASSUME NEW i \in 1..Len(pipe'), Unhandled(i)'
          PROVE  (pipe[i].id \in 1..Len(asked) /\ Untouched(pipe[i].id))'
      <3>1. pipe[i].id \in 1..Len(asked) /\ Untouched(pipe[i].id) /\ pipe'[i] = pipe[i]
        BY <2>1, <2>2, <2>3 DEF Asking, HandledOnce
      <3>2. pipe[i].id \in Asks
        BY <1>0, <3>1 DEF Asks
      <3> QED
        BY <1>1, <1>5, <3>1, <3>2 DEF Untouched
    <2>4. \A i, j \in 1..Len(pipe') :
             Unhandled(i)' /\ Unhandled(j)' /\ pipe'[i].id = pipe'[j].id => i = j
      BY <2>1, <2>2 DEF Asking, HandledOnce
    <2> QED
      BY <1>4, <1>5, <2>3, <2>4 DEF Asking, HandledOnce
  <1>6. ASSUME NEW kind \in Kinds, NEW line, line.id = Len(asked) + 1, Len(asked) < MaxAsks,
               asked' = Append(asked, kind), pipe' = Append(pipe, line)
        PROVE  HandledOnce'
    <2>1. /\ Len(pipe') = Len(pipe) + 1 /\ pipe'[Len(pipe) + 1] = line
          /\ \A i \in 1..Len(pipe) : pipe'[i] = pipe[i]
          /\ Len(asked') = Len(asked) + 1 /\ line.id \in Asks
      BY <1>0, <1>6 DEF Asks
    <2>2. \A i \in 1..Len(pipe) :
             Unhandled(i)' => Unhandled(i) /\ pipe[i].id \in 1..Len(asked) /\ Untouched(pipe[i].id)
      BY <2>1 DEF Asking, HandledOnce, Unhandled
    <2>3. ASSUME NEW i \in 1..Len(pipe'), Unhandled(i)'
          PROVE  (pipe[i].id \in 1..Len(asked) /\ Untouched(pipe[i].id))'
      <3>1. CASE i \in 1..Len(pipe)
        <4>1. pipe[i].id \in 1..Len(asked) /\ Untouched(pipe[i].id) /\ pipe'[i] = pipe[i]
          BY <2>1, <2>2, <2>3, <3>1
        <4> QED
          BY <1>0, <1>1, <2>1, <4>1 DEF Untouched
      <3>2. CASE i = Len(pipe) + 1
        <4>1. Untouched(line.id)
          BY <1>0, <1>6, <2>1 DEF Asking, HandledOnce
        <4> QED
          BY <1>0, <1>1, <1>6, <2>1, <3>2, <4>1 DEF Untouched
      <3> QED
        BY <1>0, <2>1, <3>1, <3>2
    <2>4. ASSUME NEW i \in 1..Len(pipe'), NEW j \in 1..Len(pipe'), Unhandled(i)', Unhandled(j)',
                 pipe'[i].id = pipe'[j].id
          PROVE  i = j
      <3>1. CASE i \in 1..Len(pipe) /\ j \in 1..Len(pipe)
        BY <2>1, <2>2, <2>4, <3>1 DEF Asking, HandledOnce
      <3>2. CASE i \notin 1..Len(pipe) \/ j \notin 1..Len(pipe)
        BY <1>0, <1>6, <2>1, <2>2, <2>4, <3>2
      <3> QED
        BY <3>1, <3>2
    <2>5. \A r \in Asks : r > Len(asked') => Untouched(r)'
      <3>1. \A r \in Asks : r > Len(asked') => r > Len(asked)
        BY <1>0, <2>1 DEF Asks
      <3> QED
        BY <1>4, <3>1 DEF Asking, HandledOnce
    <2> QED
      BY <2>3, <2>4, <2>5 DEF HandledOnce
  <1>7. HandledOnce'
    <2>1. CASE ChildResponds
      BY <1>5, <2>1 DEF ChildResponds, Say
    <2>2. CASE ChildReports
      BY <1>5, <1>6, <2>2 DEF ChildReports, Say
    <2> QED
      BY <2>1, <2>2
  <1> QED
    BY <1>2, <1>3, <1>7 DEF Asking
(* The handlers, of all lines but a request.                               *)
LEMMA ReaderAsks ==
    ASSUME Confirmed, Asking,
           \/ HandleResponse \/ HandleRefused \/ HandleTurnStarted \/ HandleItem
           \/ HandleTurnCompleted \/ HandleServerRequestResolved
    PROVE  Asking'
  <1> USE DEF Goes, Refuses, Projects, Handles, timerVars, userVars
  <1>1. /\ UNCHANGED <<asked, decided, answers, decision, expiring>>
        /\ pipe # <<>> /\ pipe' = Tail(pipe)
        /\ pc'.decide = pc.decide /\ pc'.expire = pc.expire
    BY DEF HandleResponse, HandleRefused, HandleTurnStarted, HandleItem, HandleTurnCompleted,
       HandleServerRequestResolved, Confirmed, Shapes
  <1>2. life'.pending \in {life.pending, NoRequest}
    BY DEF HandleResponse, HandleRefused, HandleTurnStarted, HandleItem, HandleTurnCompleted,
       HandleServerRequestResolved, Confirmed, Shapes, NoLife
  <1>3. /\ timers' \in [Asks -> {"off", "armed", "fired", "expired"}]
        /\ \A r \in Asks : timers'[r] = timers[r] \/ timers[r] \in {"armed", "fired"}
    BY ZenonT(40) DEF HandleResponse, HandleRefused, HandleTurnStarted, HandleItem, HandleTurnCompleted,
       HandleServerRequestResolved, Asking, AskTypes, Stopped
  <1> QED
    BY <1>1, <1>2, <1>3, CalmAsking

(* A request that is accepted was never handled before.                    *)
LEMMA RequestAsks ==
    ASSUME Confirmed, Asking, HandleServerRequest
    PROVE  Asking'
  <1> PICK r : r = Line.id
    OBVIOUS
  <1>1. /\ pipe \in Seq(Lines) /\ pipe # <<>> /\ pipe' = Tail(pipe) /\ Line = pipe[1]
        /\ Len(pipe) \in Nat \ {0} /\ Line.type = "request"
    BY DEF HandleServerRequest, Handles, Line, Confirmed, LinesAreTrue
  <1>2. /\ UNCHANGED <<asked, decided, answers, decision, expiring>>
        /\ pc'.decide = pc.decide /\ pc'.expire = pc.expire
    BY DEF HandleServerRequest, Handles, userVars, Goes, Refuses, Projects, Confirmed, Shapes
  <1>3. Untouched(r) /\ r \in 1..Len(asked) /\ r \in Asks /\ r # 0 /\ asked[r] \in Kinds
    <2>1. Untouched(r) /\ r \in 1..Len(asked)
      BY <1>1 DEF Asking, HandledOnce, Unhandled
    <2> QED
      BY <2>1, TurnAssumption DEF Confirmed, LinesAreTrue, Asks
  <1>4. CASE Refuses
    BY <1>1, <1>2, <1>4, CalmAsking DEF Refuses, timerVars, Asking, AskTypes
  <1>5. ASSUME ~Refuses PROVE Asking'
    <2> DEFINE request == [id |-> r, kind |-> asked[r], inFlight |-> FALSE]
    <2>1. /\ life'.pending = request
          /\ timers' = [timers EXCEPT ![r] = "armed"]
      BY <1>5 DEF HandleServerRequest, Projects, Confirmed, Shapes, NoLife
    <2>2. AskTypes'
      <3>1. request \in PendingRequests
        BY <1>3 DEF PendingRequests
      <3> QED
        BY <1>2, <2>1, <3>1 DEF Asking, AskTypes
    <2>3. HandledOnce'
      <3>1. ASSUME NEW q \in Asks, Untouched(q), q # r PROVE Untouched(q)'
        BY <1>2, <2>1, <3>1 DEF Asking, AskTypes, Untouched
      <3>2. pipe' # pipe /\ Head(pipe).type = "request" /\ Head(pipe).id = r
        <4>1. Len(Tail(pipe)) # Len(pipe)
          BY <1>1
        <4> QED
          BY <1>1, <4>1 DEF Line
      <3> QED
        BY <1>1, <1>2, <3>1, <3>2, HandledStay DEF Confirmed, Asking
    <2>4. Undelivered'
      <3>1. /\ life'.pending.id = r /\ ~Said(r)' /\ ~Lapsed(r)'
            /\ expiring'.id # r /\ decision'.id # r
        BY <1>2, <1>3, <2>1 DEF Untouched, Said, Lapsed
      <3>2. \A q : (Said(q)' <=> Said(q)) /\ (Lapsed(q)' <=> Lapsed(q))
        BY <1>2 DEF Said, Lapsed
      <3>3. expiring # NoRequest => timers'[expiring.id] = "expired"
        BY <1>3, <2>1 DEF Asking, AskTypes, Undelivered, PendingRequests, Untouched
      <3> QED
        BY <1>2, <3>1, <3>2, <3>3 DEF Asking, Undelivered
    <2>5. AnswersAreDecided'
      <3>1. \A q \in Asks : q # r => timers'[q] = timers[q]
        BY <2>1 DEF Asking, AskTypes
      <3>2. DOMAIN answers[r] = {}
        BY <1>3 DEF Untouched
      <3> QED
        BY <1>2, <3>1, <3>2 DEF Asking, AnswersAreDecided
    <2> QED
      BY <2>2, <2>3, <2>4, <2>5 DEF Asking
  <1> QED
    BY <1>4, <1>5

(* Lifecycle operations answer nothing.                                    *)
LEMMA OperationAsks ==
    ASSUME Confirmed, Asking,
           \/ StartTurn \/ TurnStarted \/ TurnEmits \/ OpFails \/ OpAudits
           \/ (\E t \in Turns : Cancel(t)) \/ Interrupt \/ Interrupted
    PROVE  Asking'
  <1> USE DEF Goes, OpRejected, OpUnchanged, userVars
  <1>1. /\ UNCHANGED <<asked, decided, answers, decision, expiring, pipe, timers>>
        /\ pc'.decide = pc.decide /\ pc'.expire = pc.expire
    BY DEF StartTurn, Writes, TurnStarted, Answered, TurnEmits, OpFails, OpAudits, Cancel, Interrupt,
       Interrupted, Confirmed, Shapes
  <1>2. life'.pending = life.pending
    BY DEF StartTurn, TurnStarted, TurnEmits, OpFails, OpAudits, Cancel, Interrupt,
       Interrupted, Confirmed, Shapes, NoLife
  <1> QED
    BY <1>1, <1>2, CalmAsking DEF Asking, AskTypes

(* Nor does a publication, a failure, a deadline or the disconnect.        *)
LEMMA EndingAsks ==
    ASSUME Confirmed, Asking,
           \/ Published \/ AuditFailure \/ Fail \/ Disconnect \/ ReaderFails
           \/ DecisionAudits \/ Deadline \/ ExpiryAudits
           \/ \E t \in Turns : ExpireCancellation(t)
           \/ UNCHANGED vars
    PROVE  Asking'
  <1> USE DEF Goes, timerVars, userVars, childVars, Confirmed, Shapes
  <1>1. /\ UNCHANGED <<asked, decided, answers>> /\ pipe' \in {pipe, <<>>}
        /\ life'.pending \in {life.pending, NoRequest}
        /\ decision' \in {decision, NoDecision} /\ expiring' \in {expiring, NoRequest}
    BY DEF Published, AuditFailure, Fail, Disconnect, ReaderFails, DecisionAudits, Deadline,
       ExpiryAudits, ExpireCancellation, vars, NoLife
  <1>2. /\ pc'.decide = "respond" => pc.decide = "respond" /\ decision' = decision
        /\ pc'.expire \in {"audit", "respond"} =>
              pc.expire \in {"audit", "respond"} /\ expiring' = expiring
    BY DEF Published, AuditFailure, Fail, Disconnect, ReaderFails, DecisionAudits, Deadline,
       ExpiryAudits, ExpireCancellation, vars
  <1>3. /\ timers' \in [Asks -> {"off", "armed", "fired", "expired"}]
        /\ \A r \in Asks : timers'[r] = timers[r] \/ timers[r] \in {"armed", "fired"}
    BY DEF Published, AuditFailure, Fail, Disconnect, ReaderFails, DecisionAudits, Deadline,
       ExpiryAudits, ExpireCancellation, vars, Asking, AskTypes, Stopped
  <1> QED
    BY <1>1, <1>2, <1>3, CalmAsking

(* The child is told of request r what was decided, or that it expired.    *)
LEMMA TellsDecided ==
    ASSUME Asking, NEW r \in Asks, NEW what \in Decisions \cup {"expired"}, Tells(r, what),
           UNCHANGED <<timers, decided>>,
           what = "expired" => timers[r] = "expired" /\ ~Lapsed(r),
           what # "expired" => <<r, what>> \in decided /\ ~Said(r)
    PROVE  /\ answers' \in [Asks -> Seq(Decisions \cup {"expired"})]
           /\ AnswersAreDecided'
           /\ \A q \in Asks : (q # r \/ what = "expired") => (Said(q)' <=> Said(q))
           /\ \A q \in Asks : (q # r \/ what # "expired") => (Lapsed(q)' <=> Lapsed(q))
           /\ \A q \in Asks : q # r => answers'[q] = answers[q]
  <1>1. /\ answers' \in [Asks -> Seq(Decisions \cup {"expired"})]
        /\ answers'[r] = Append(answers[r], what)
        /\ \A q \in Asks : q # r => answers'[q] = answers[q]
    BY DEF Asking, AskTypes, Tells
  <1>2. answers[r] \in Seq(Decisions \cup {"expired"}) /\ Len(answers[r]) \in Nat
    BY DEF Asking, AskTypes
  <1>3. /\ DOMAIN answers[r] = 1..Len(answers[r])
        /\ DOMAIN answers'[r] = 1..(Len(answers[r]) + 1)
        /\ answers'[r][Len(answers[r]) + 1] = what
        /\ \A i \in 1..Len(answers[r]) : answers'[r][i] = answers[r][i]
    BY <1>1, <1>2
  <1>4. DOMAIN answers'[r] = DOMAIN answers[r] \cup {Len(answers[r]) + 1}
    BY <1>2, <1>3
  <1>5. ASSUME what = "expired" PROVE Said(r)' <=> Said(r)
    BY <1>3, <1>4, <1>5 DEF Said
  <1>6. ASSUME what # "expired" PROVE Lapsed(r)' <=> Lapsed(r)
    BY <1>3, <1>4, <1>6 DEF Lapsed
  <1>7. ASSUME NEW q \in Asks, q # r PROVE (Said(q)' <=> Said(q)) /\ (Lapsed(q)' <=> Lapsed(q))
    BY <1>1, <1>7 DEF Said, Lapsed
  <1>8. AnswersAreDecided'
    <2>1. ASSUME NEW q \in Asks, NEW i \in DOMAIN answers'[q]
          PROVE  /\ IF answers'[q][i] = "expired" THEN timers'[q] = "expired"
                                                  ELSE <<q, answers'[q][i]>> \in decided'
                 /\ \A j \in DOMAIN answers'[q] :
                       (answers'[q][i] = "expired") = (answers'[q][j] = "expired") => i = j
      <3>1. CASE q # r
        <4>1. answers'[q] = answers[q] /\ timers' = timers /\ decided' = decided
          BY <1>1, <3>1
        <4> QED
          BY <2>1, <4>1 DEF Asking, AnswersAreDecided
      <3>2. CASE q = r
        <4>1. \A j \in 1..Len(answers[r]) :
                 (answers[r][j] = "expired") # (what = "expired")
          BY <1>3 DEF Said, Lapsed
        <4>2. CASE i \in 1..Len(answers[r])
          BY <1>3, <1>4, <3>2, <4>1, <4>2, ZenonT(40) DEF Asking, AnswersAreDecided
        <4>3. CASE i = Len(answers[r]) + 1
          BY <1>3, <1>4, <3>2, <4>1, <4>3
        <4> QED
          BY <1>3, <1>4, <2>1, <3>2, <4>2, <4>3
      <3> QED
        BY <3>1, <3>2
    <2> QED
      BY <2>1 DEF AnswersAreDecided
  <1> QED
    BY <1>1, <1>5, <1>6, <1>7, <1>8

(* A decision is taken of the pending request, once.                       *)
LEMMA DecideAsks ==
    ASSUME Confirmed, Asking, NEW r \in 1..Len(asked), NEW d \in Decisions, Decide(r, d)
    PROVE  Asking'
  <1> USE DEF timerVars, childVars
  <1>1. CASE ~Decidable(r, d)
    BY <1>1, CalmAsking DEF Decide, Asking, AskTypes
  <1>2. ASSUME Decidable(r, d) PROVE Asking'
    <2>1. /\ life.pending # NoRequest /\ life.pending.id = r /\ ~life.pending.inFlight
          /\ r \in Asks /\ r # 0 /\ life.pending \in [id : Asks, kind : Kinds, inFlight : BOOLEAN]
      BY <1>2, TurnAssumption DEF Decidable, Asking, AskTypes, PendingRequests, Asks
    <2>2. /\ life'.pending = [life.pending EXCEPT !.inFlight = TRUE]
          /\ decision' = [id |-> life.pending.id, kind |-> life.pending.kind, decision |-> d]
          /\ decided' = decided \cup {<<r, d>>}
          /\ pc'.decide = "respond" /\ pc'.expire = pc.expire
          /\ UNCHANGED <<timers, answers, expiring, pipe, asked>>
      BY <1>2 DEF Decide, Goes, Confirmed, Shapes, NoLife
    <2>3. /\ life'.pending \in [id : Asks, kind : Kinds, inFlight : BOOLEAN]
          /\ life'.pending.id = r /\ life'.pending.inFlight
          /\ decision' \in [id : Asks, kind : Kinds, decision : Decisions]
          /\ decision'.id = r /\ decision'.decision = d /\ decision' # NoDecision
      BY <2>1, <2>2 DEF NoDecision
    <2>4. AskTypes'
      BY <2>2, <2>3 DEF Asking, AskTypes, PendingRequests
    <2>5. HandledOnce'
      <3>1. \A q \in Asks : Untouched(q) => Untouched(q)'
        BY <2>1, <2>2, <2>3 DEF Untouched
      <3> QED
        BY <2>2, <3>1, HandledStay DEF Confirmed, Asking
    <2>6. Undelivered'
      <3>1. \A q : (Said(q)' <=> Said(q)) /\ (Lapsed(q)' <=> Lapsed(q))
        BY <2>2 DEF Said, Lapsed
      <3>2. expiring.id # r /\ ~Lapsed(r) /\ ~Said(r)
        BY <2>1 DEF Asking, Undelivered
      <3> QED
        BY <2>2, <2>3, <3>1, <3>2 DEF Asking, Undelivered
    <2>7. AnswersAreDecided'
      BY <2>2 DEF Asking, AnswersAreDecided
    <2> QED
      BY <2>4, <2>5, <2>6, <2>7 DEF Asking
  <1> QED
    BY <1>1, <1>2

(* Only the goroutine that took a decision delivers it.                    *)
LEMMA DecisionAsks ==
    ASSUME Confirmed, Asking, DecisionResponds
    PROVE  Asking'
  <1> USE DEF timerVars, childVars
  <1>1. /\ UNCHANGED <<life, timers, expiring, decided, pipe, asked>>
        /\ decision' \in {decision, NoDecision} /\ pc'.decide \in {"audit", "idle"}
        /\ pc'.expire = pc.expire
    BY DEF DecisionResponds, Goes, Confirmed, Shapes
  <1>2. CASE UNCHANGED answers
    BY <1>1, <1>2, CalmAsking DEF Asking, AskTypes
  <1>3. ASSUME Tells(decision.id, decision.decision) PROVE Asking'
    <2>1. PICK r : r = decision.id
      OBVIOUS
    <2>2. PICK d : d = decision.decision
      OBVIOUS
    <2>3. decision # NoDecision /\ ~Said(r) /\ <<r, d>> \in decided
      BY <2>1, <2>2 DEF DecisionResponds, Asking, Undelivered
    <2>4. r \in Asks /\ d \in Decisions /\ d # "expired" /\ r # 0
      BY <2>1, <2>2, <2>3, TurnAssumption DEF Asking, AskTypes, Asks, Decisions
    <2>5. /\ answers' \in [Asks -> Seq(Decisions \cup {"expired"})]
          /\ AnswersAreDecided'
          /\ \A q \in Asks : q # r => (Said(q)' <=> Said(q)) /\ answers'[q] = answers[q]
          /\ \A q \in Asks : Lapsed(q)' <=> Lapsed(q)
      BY <1>1, <1>3, <2>1, <2>2, <2>3, <2>4, TellsDecided
    <2>6. AskTypes'
      BY <1>1, <2>5 DEF Asking, AskTypes
    <2>7. HandledOnce'
      <3>1. \A q \in Asks : Untouched(q) => Untouched(q)'
        BY <1>1, <2>1, <2>5 DEF Untouched, NoDecision, Asks
      <3> QED
        BY <1>1, <3>1, HandledStay DEF Confirmed, Asking
    <2>8. Undelivered'
      <3>1. ASSUME life.pending # NoRequest
            PROVE  /\ life.pending.id \in Asks /\ life.pending.id # 0
                   /\ expiring.id # life.pending.id /\ ~Lapsed(life.pending.id)'
                   /\ ~life.pending.inFlight =>
                         decision'.id # life.pending.id /\ ~Said(life.pending.id)'
        <4>1. life.pending.id \in Asks /\ life.pending.id # 0
          BY <3>1, TurnAssumption DEF Asking, AskTypes, PendingRequests, Asks
        <4>2. ~life.pending.inFlight => r # life.pending.id
          BY <2>1, <3>1 DEF Asking, Undelivered
        <4>3. NoDecision.id = 0
          BY DEF NoDecision
        <4>4. (life.pending)' = life.pending
          BY <1>1
        <4>5. Lapsed(life.pending.id)' <=> Lapsed(life.pending.id)
          BY <2>5, <4>1, <4>4 DEF Lapsed
        <4>6. ~life.pending.inFlight => (Said(life.pending.id)' <=> Said(life.pending.id))
          BY <2>5, <4>1, <4>2, <4>4 DEF Said
        <4> QED
          BY <1>1, <2>1, <3>1, <4>1, <4>2, <4>3, <4>5, <4>6 DEF Asking, Undelivered
      <3>2. ASSUME expiring # NoRequest
            PROVE  timers'[expiring.id] = "expired" /\ ~Lapsed(expiring.id)'
        <4>1. expiring.id \in Asks
          BY <3>2 DEF Asking, AskTypes, PendingRequests
        <4>2. (expiring.id)' = expiring.id
          BY <1>1
        <4> QED
          BY <1>1, <2>5, <3>2, <4>1, <4>2 DEF Asking, Undelivered, Lapsed
      <3> QED
        BY <1>1, <3>1, <3>2 DEF Asking, Undelivered
    <2> QED
      BY <2>5, <2>6, <2>7, <2>8 DEF Asking
  <1> QED
    BY <1>2, <1>3 DEF DecisionResponds

(* The deadline of the pending request drops it: nobody decides it any     *)
(* more, and no deny was sent of it.                                       *)
LEMMA ExpiryAsks ==
    ASSUME Confirmed, Asking, NEW r \in Asks, ExpirePending(r)
    PROVE  Asking'
  <1> USE DEF childVars
  <1>1. /\ UNCHANGED <<decision, decided, answers, pipe, asked>> /\ pc'.decide = pc.decide
        /\ timers[r] = "fired" /\ timers' = [timers EXCEPT ![r] = "expired"]
        /\ timers' \in [Asks -> {"off", "armed", "fired", "expired"}]
        /\ \A q \in Asks : q # r => timers'[q] = timers[q]
    BY DEF ExpirePending, Goes, Confirmed, Shapes, Asking, AskTypes
  <1>2. CASE UNCHANGED <<expiring, life, pc>>
    BY <1>1, <1>2, CalmAsking
  <1>3. ASSUME ~UNCHANGED <<expiring, life, pc>> PROVE Asking'
    <2>1. /\ life.pending.id = r /\ r # 0 /\ life.pending # NoRequest
          /\ expiring' = life.pending /\ life'.pending = NoRequest
      <3>1. /\ life.pending.id = r /\ expiring' = life.pending
            /\ life' = [life EXCEPT !.pending = NoRequest]
        BY <1>3 DEF ExpirePending
      <3>2. life'.pending = NoRequest
        BY <3>1 DEF Confirmed, Shapes, NoLife
      <3>3. r # 0 /\ life.pending # NoRequest
        BY <3>1, TurnAssumption DEF NoRequest, Asks
      <3> QED
        BY <3>1, <3>2, <3>3
    <2>2. AskTypes'
      BY <1>1, <2>1 DEF Asking, AskTypes, PendingRequests
    <2>3. HandledOnce'
      <3>1. \A q \in Asks : Untouched(q) => Untouched(q)'
        BY <1>1, <2>1, TurnAssumption DEF Untouched, NoRequest, Asks
      <3> QED
        BY <1>1, <3>1, HandledStay DEF Confirmed, Asking
    <2>4. Undelivered'
      <3>1. ~Lapsed(r)'
        BY <1>1, <2>1 DEF Asking, Undelivered, Lapsed
      <3>2. pc'.decide = "respond" => decision' # NoDecision /\ ~Said(decision.id)'
        BY <1>1 DEF Asking, Undelivered, Said
      <3>3. (~Lapsed(expiring.id))'
        BY <2>1, <3>1 DEF Lapsed
      <3>4. expiring'.id = r /\ timers'[r] = "expired"
        BY <1>1, <2>1 DEF Asking, AskTypes
      <3>5. expiring' # NoRequest
        BY <2>1
      <3> QED
        BY <1>1, <2>1, <3>2, <3>3, <3>4, <3>5 DEF Asking, Undelivered
    <2>5. AnswersAreDecided'
      BY <1>1 DEF Asking, AskTypes, AnswersAreDecided
    <2> QED
      BY <2>2, <2>3, <2>4, <2>5 DEF Asking
  <1> QED
    BY <1>2, <1>3

(* Only the goroutine that dropped a request answers that it expired.      *)
LEMMA ExpiredAsks ==
    ASSUME Confirmed, Asking, ExpiryResponds
    PROVE  Asking'
  <1> USE DEF timerVars, childVars
  <1>1. /\ UNCHANGED <<life, timers, decision, decided, pipe, asked>>
        /\ expiring' = NoRequest /\ pc'.decide = pc.decide /\ pc'.expire = "idle"
        /\ pc.expire = "respond"
    BY DEF ExpiryResponds, Goes, Confirmed, Shapes
  <1>2. CASE UNCHANGED answers
    BY <1>1, <1>2, CalmAsking DEF Asking, AskTypes
  <1>3. ASSUME Tells(expiring.id, "expired") PROVE Asking'
    <2>1. PICK r : r = expiring.id
      OBVIOUS
    <2>2. /\ r \in Asks /\ timers[r] = "expired" /\ ~Lapsed(r)
      BY <1>1, <2>1 DEF Asking, AskTypes, Undelivered, PendingRequests
    <2>3. /\ answers' \in [Asks -> Seq(Decisions \cup {"expired"})]
          /\ AnswersAreDecided'
          /\ \A q \in Asks : Said(q)' <=> Said(q)
          /\ \A q \in Asks : q # r => (Lapsed(q)' <=> Lapsed(q)) /\ answers'[q] = answers[q]
      BY <1>1, <1>3, <2>1, <2>2, TellsDecided
    <2>4. AskTypes'
      BY <1>1, <2>3 DEF Asking, AskTypes, PendingRequests
    <2>5. HandledOnce'
      <3>1. \A q \in Asks : Untouched(q) => Untouched(q)'
        BY <1>1, <2>1, <2>3, TurnAssumption DEF Untouched, NoRequest, Asks
      <3> QED
        BY <1>1, <3>1, HandledStay DEF Confirmed, Asking
    <2>6. Undelivered'
      <3>1. ASSUME life.pending # NoRequest
            PROVE  /\ NoRequest.id # life.pending.id /\ ~Lapsed(life.pending.id)'
                   /\ ~life.pending.inFlight =>
                         decision.id # life.pending.id /\ ~Said(life.pending.id)'
        <4>1. PICK q : q = life.pending.id
          OBVIOUS
        <4>2. q \in Asks /\ q # 0 /\ q # r
          BY <2>1, <3>1, <4>1, TurnAssumption DEF Asking, AskTypes, Undelivered, PendingRequests, Asks
        <4>3. (life.pending)' = life.pending /\ NoRequest.id = 0
          BY <1>1 DEF NoRequest
        <4>4. /\ (Lapsed(q)' <=> Lapsed(q)) /\ (Said(q)' <=> Said(q))
              /\ ~Lapsed(q)
              /\ ~life.pending.inFlight => decision.id # q /\ ~Said(q)
          BY <2>3, <3>1, <4>1, <4>2 DEF Asking, Undelivered
        <4>5. /\ Lapsed(life.pending.id)' <=> Lapsed(q)'
              /\ Said(life.pending.id)' <=> Said(q)'
          BY <4>1, <4>3 DEF Lapsed, Said
        <4> QED
          BY <4>1, <4>2, <4>3, <4>4, <4>5
      <3>2. ASSUME pc.decide = "respond" PROVE decision # NoDecision /\ ~Said(decision.id)'
        <4>1. decision # NoDecision /\ decision.id \in Asks /\ ~Said(decision.id)
          BY <3>2 DEF Asking, AskTypes, Undelivered
        <4>2. Said(decision.id)' <=> Said(decision.id)
          BY <1>1, <2>3, <4>1 DEF Said
        <4> QED
          BY <4>1, <4>2
      <3> QED
        BY <1>1, <3>1, <3>2 DEF Asking, Undelivered
    <2> QED
      BY <2>3, <2>4, <2>5, <2>6 DEF Asking
  <1> QED
    BY <1>2, <1>3 DEF ExpiryResponds

LEMMA InitAsking == Init => Asking
  BY TurnAssumption
  DEF Init, Asking, AskTypes, HandledOnce, Untouched, Undelivered, AnswersAreDecided,
      PendingRequests, NoLife, NoRequest, NoDecision, Asks

LEMMA NextAsking == Confirmed /\ Asking /\ [Next]_vars => Asking'
  BY ChildAsks, ReaderAsks, RequestAsks, OperationAsks, EndingAsks, DecideAsks, DecisionAsks,
     ExpiryAsks, ExpiredAsks DEF Next

(* The child hears one decision of a request at most, one that the user    *)
(* took, and one deny for want of it at most, after its deadline.          *)
THEOREM AnswersDecided == Spec => []AnswersAreDecided
  <1>1. Confirmed /\ Asking /\ [Next]_vars => Confirmed' /\ Asking'
    BY NextConfirmed, NextAsking
  <1>2. Asking => AnswersAreDecided
    BY DEF Asking
  <1> QED
    BY <1>1, <1>2, InitConfirmed, InitAsking, PTL DEF Spec

=============================================================================
