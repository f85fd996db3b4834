----------------------- MODULE AppServerProcessProofs -----------------------
(***************************************************************************)
(* The consumer of a supervisor's events is told of the disconnect at most *)
(* once, for any number of goroutines, any capacity of the channel and any *)
(* number of failed saves.                                                 *)
(*                                                                         *)
(* Two places report it: auditFailure, past the journal, and the section   *)
(* of disconnectOnce, through it.  What keeps the second out after the     *)
(* first is the numbering: the event of auditFailure took a number that    *)
(* the journal never sees, and the journal takes no number after a gap.    *)
(***************************************************************************)
EXTENDS AppServerProcess, TLAPS

(* No goroutine will append number k any more.                             *)
Missing(k) ==
    /\ k \in Nat /\ lastEvent < k /\ k <= sequence
    /\ \A a \in Goroutines : pc[a] = "append" => held[a].seq # k

(* a has an event of disconnect that needs only room in the channel.       *)
Reports(a) == pc[a] \in {"send", "forced"} /\ held[a].disconnected

(* Numbers are given once, and those still to be appended come after the   *)
(* last one appended.                                                      *)
Numbers ==
    /\ lastEvent <= sequence
    /\ \A a \in Goroutines : pc[a] = "append" =>
          lastEvent < held[a].seq /\ held[a].seq <= sequence
    /\ \A a, b \in Goroutines :
          a # b /\ pc[a] = "append" /\ pc[b] = "append" => held[a].seq # held[b].seq

(* Only disconnectOnce appends an event of disconnect, after its section   *)
(* was entered, and nobody has one while the session is connected.         *)
Reporters ==
    /\ \A a \in Goroutines : pc[a] = "append" /\ held[a].disconnected => a = "disconnect"
    /\ once = "unused" => pc["disconnect"] = "idle"
    /\ pc["disconnect"] # "idle" => state = "Disconnected"
    /\ state # "Disconnected" => reported = 0 /\ \A a \in Goroutines : ~Reports(a)

(* At most one event of disconnect is sent or about to be.                 *)
OneReport ==
    /\ reported \in {0, 1}
    /\ reported = 1 => \A a \in Goroutines : ~Reports(a)
    /\ \A a, b \in Goroutines : Reports(a) /\ Reports(b) => a = b

(* Where another report may still come through the journal, none was made, *)
(* or a missing number comes first.                                        *)
Barred ==
    /\ state = "Disconnected" /\ once = "unused" => \E k \in Nat : Missing(k)
    /\ pc["disconnect"] = "append" =>
          \/ reported = 0 /\ \A a \in Goroutines : ~Reports(a)
          \/ \E k \in Nat : Missing(k) /\ k < held["disconnect"].seq

Inv == TypeOK /\ Numbers /\ Reporters /\ OneReport /\ Barred

-----------------------------------------------------------------------------
(* Types.                                                                  *)

LEMMA InitTyped == Init => TypeOK
  <1> SUFFICES ASSUME Init PROVE TypeOK
    OBVIOUS
  <1>1. proc \in Procs
    BY Zenon DEF Init, Procs
  <1>2. held \in [Goroutines -> [seq : Nat, disconnected : BOOLEAN]]
    BY DEF Init, NoEvent
  <1>3. /\ pc \in [Goroutines -> {"idle", "append", "send", "forced"}]
        /\ queued \in 0..EventCap /\ faults \in 0..MaxFaults
    BY ProcessAssumption DEF Init
  <1> QED
    BY <1>1, <1>2, <1>3 DEF Init, TypeOK

(* The goroutines that are always there.                                   *)
LEMMA Fixed == "start" \in Goroutines /\ "disconnect" \in Goroutines /\ Workers \subseteq Goroutines
  BY DEF Goroutines

LEMMA AuditTyped ==
    ASSUME TypeOK, NEW a \in Goroutines, AuditFailure(a)
    PROVE  /\ state' \in {"Connected", "Disconnected"} /\ sequence' \in Nat
           /\ pc' \in [Goroutines -> {"idle", "append", "send", "forced"}]
           /\ held' \in [Goroutines -> [seq : Nat, disconnected : BOOLEAN]]
           /\ failing' \in BOOLEAN /\ once' \in {"unused", "running", "done"}
  <1> USE DEF TypeOK, NoEvent
  <1>1. CASE Done(a) /\ Refused(a) /\ UNCHANGED <<state, sequence>>
    <2>1. failing' \in BOOLEAN
      BY <1>1, Zenon DEF Refused
    <2> QED
      BY <1>1, <2>1 DEF Done, Refused
  <1>2. CASE /\ state' = "Disconnected" /\ Sequenced(a, TRUE, "forced")
             /\ UNCHANGED <<failing, once>>
    BY <1>2 DEF Sequenced
  <1> QED
    BY <1>1, <1>2 DEF AuditFailure

LEMMA AppendTyped ==
    ASSUME TypeOK, NEW a \in Goroutines, AppendEvent(a)
    PROVE  TypeOK'
  <1> USE ProcessAssumption DEF TypeOK, AppendEvent, Contiguous
  <1>1. held[a].seq \in Nat
    OBVIOUS
  <1>2. UNCHANGED <<start, queued, reported, consumer, proc>>
    OBVIOUS
  <1>3. CASE Contiguous(held[a]) /\ lastEvent' = held[a].seq
             /\ pc' = [pc EXCEPT ![a] = "send"]
             /\ UNCHANGED <<state, sequence, held, failing, once, faults>>
    BY <1>1, <1>2, <1>3
  <1>4. CASE AuditFailure(a) /\ lastEvent' \in Nat /\ faults' \in 0..MaxFaults
    BY <1>2, <1>4, AuditTyped
  <1> QED
    BY <1>1, <1>3, <1>4

LEMMA StartsShutdownTyped == ASSUME NEW p \in Procs PROVE StartsShutdown(p) \in Procs
  BY DEF StartsShutdown, Procs

LEMMA SendTyped ==
    ASSUME TypeOK, NEW a \in Goroutines, SendEvent(a)
    PROVE  TypeOK'
  <1> USE ProcessAssumption DEF TypeOK, SendEvent, Done, Refused, NoEvent
  <1>1. queued' \in 0..EventCap /\ reported' \in Nat
    OBVIOUS
  <1>2. proc' \in Procs
    BY StartsShutdownTyped
  <1>3. pc' \in [Goroutines -> {"idle", "append", "send", "forced"}]
        /\ held' \in [Goroutines -> [seq : Nat, disconnected : BOOLEAN]]
    OBVIOUS
  <1>4. once' \in {"unused", "running", "done"}
    OBVIOUS
  <1>5. failing' \in BOOLEAN
    BY Zenon
  <1> QED
    BY <1>1, <1>2, <1>3, <1>4, <1>5

LEMMA WorkersTyped ==
    ASSUME TypeOK, NEW w \in Workers, WorkerPublishes(w) \/ OperationAuditFails(w)
    PROVE  TypeOK'
  <1> USE Fixed, ProcessAssumption DEF TypeOK, NoEvent
  <1>1. CASE WorkerPublishes(w)
    BY <1>1 DEF WorkerPublishes, Publish, Sequenced
  <1>2. CASE OperationAuditFails(w)
    <2>1. faults' \in 0..MaxFaults /\ UNCHANGED <<start, lastEvent, queued, reported, consumer, proc>>
      BY <1>2 DEF OperationAuditFails
    <2>2. /\ state' \in {"Connected", "Disconnected"} /\ sequence' \in Nat
          /\ pc' \in [Goroutines -> {"idle", "append", "send", "forced"}]
          /\ held' \in [Goroutines -> [seq : Nat, disconnected : BOOLEAN]]
          /\ failing' \in BOOLEAN /\ once' \in {"unused", "running", "done"}
      BY <1>2, AuditTyped DEF OperationAuditFails
    <2> QED
      BY <2>1, <2>2
  <1> QED
    BY <1>1, <1>2

LEMMA EmitTyped ==
    ASSUME TypeOK, StartEmits \/ Disconnect
    PROVE  TypeOK'
  <1> USE Fixed, ProcessAssumption DEF TypeOK, Publish, Sequenced
  <1>1. CASE StartEmits
    <2>1. UNCHANGED <<state, lastEvent, queued, reported, consumer, failing, once, proc, faults>>
          /\ start' = "returned"
      BY <1>1 DEF StartEmits
    <2>2. /\ sequence' \in Nat
          /\ pc' \in [Goroutines -> {"idle", "append", "send", "forced"}]
          /\ held' \in [Goroutines -> [seq : Nat, disconnected : BOOLEAN]]
      <3>1. CASE Publish("start", FALSE)
        BY <3>1
      <3>2. CASE UNCHANGED <<pc, held, sequence>>
        BY <3>2
      <3> QED
        BY <1>1, <3>1, <3>2 DEF StartEmits
    <2> QED
      BY <2>1, <2>2
  <1>2. CASE Disconnect
    <2>1. proc' \in Procs
      BY <1>2 DEF Disconnect, Procs
    <2> QED
      BY <1>2, <2>1 DEF Disconnect
  <1> QED
    BY <1>1, <1>2

(* The steps of the child and its owner.                                   *)
ProcessSteps ==
    \/ Start \/ Launched \/ StartAbandons \/ ReapLateLaunch \/ StartInstalls
    \/ StartShutdown \/ ShutdownBegins \/ GraceExpires \/ FinishShutdown
    \/ ChildExits \/ WaitForChild

(* They and the others that publish nothing.                               *)
Quiet ==
    \/ ProcessSteps
    \/ StartAbandoned \/ StartInitialized \/ Consume \/ ConsumerReturns \/ Fail \/ Shutdown

LEMMA ProcessTyped ==
    ASSUME proc \in Procs, ProcessSteps
    PROVE  proc' \in Procs
  <1>1. CASE Start
    BY <1>1 DEF Start, Procs
  <1>2. CASE Launched
    BY <1>2 DEF Launched, Procs
  <1>3. CASE StartAbandons
    BY <1>3 DEF StartAbandons, Procs
  <1>4. CASE ReapLateLaunch
    BY <1>4 DEF ReapLateLaunch, Procs
  <1>5. CASE StartInstalls
    BY <1>5 DEF StartInstalls, Procs
  <1>6. CASE StartShutdown
    BY <1>6, StartsShutdownTyped DEF StartShutdown
  <1>7. CASE ShutdownBegins
    BY <1>7 DEF ShutdownBegins, Procs
  <1>8. CASE GraceExpires
    BY <1>8 DEF GraceExpires, Procs
  <1>9. CASE FinishShutdown
    BY <1>9 DEF FinishShutdown, Procs
  <1>10. CASE ChildExits
    BY <1>10 DEF ChildExits, Procs
  <1>11. CASE WaitForChild
    BY <1>11 DEF WaitForChild, Procs
  <1> QED
    BY <1>1, <1>2, <1>3, <1>4, <1>5, <1>6, <1>7, <1>8, <1>9, <1>10, <1>11 DEF ProcessSteps

LEMMA QuietTyped ==
    ASSUME TypeOK, Quiet
    PROVE  TypeOK' /\ UNCHANGED <<state, pc, held, sequence, lastEvent, reported, once>>
  <1>1. CASE ProcessSteps
    <2>1. proc' \in Procs
      BY <1>1, ProcessTyped DEF TypeOK
    <2>2. /\ UNCHANGED <<state, eventVars, consumer, once, faults>>
          /\ start' \in {start, "launching", "initialize", "abandon"}
          /\ failing' \in {failing, TRUE}
      BY <1>1 DEF ProcessSteps, Start, Launched, StartAbandons, ReapLateLaunch, StartInstalls,
             StartShutdown, ShutdownBegins, GraceExpires, FinishShutdown, ChildExits, WaitForChild
    <2>3. failing' \in BOOLEAN
      BY <2>2, Zenon DEF TypeOK
    <2> QED
      BY <2>1, <2>2, <2>3 DEF TypeOK, eventVars
  <1>2. CASE Consume
    <2>1. queued' \in 0..EventCap
      BY <1>2, ProcessAssumption DEF TypeOK, Consume
    <2> QED
      BY <1>2, <2>1 DEF TypeOK, Consume
  <1>3. CASE StartAbandoned \/ StartInitialized \/ ConsumerReturns \/ Fail \/ Shutdown
    <2>1. /\ UNCHANGED <<state, eventVars, once, proc, faults>>
          /\ start' \in {start, "emit", "returned"}
      BY <1>3 DEF StartAbandoned, StartInitialized, ConsumerReturns, Fail, Shutdown
    <2>2. consumer' \in BOOLEAN /\ failing' \in BOOLEAN
      BY <1>3, Zenon DEF TypeOK, StartAbandoned, StartInitialized, ConsumerReturns, Fail, Shutdown
    <2> QED
      BY <2>1, <2>2 DEF TypeOK, eventVars
  <1> QED
    BY <1>1, <1>2, <1>3 DEF Quiet

-----------------------------------------------------------------------------
(* The invariant.                                                          *)

LEMMA InitInv == Init => Inv
  BY InitTyped, Fixed
  DEF Init, Inv, Numbers, Reporters, OneReport, Barred, Reports

LEMMA QuietStep ==
    ASSUME Inv, Quiet \/ UNCHANGED vars
    PROVE  Inv'
  <1>1. TypeOK' /\ UNCHANGED <<state, pc, held, sequence, lastEvent, reported, once>>
    BY QuietTyped DEF Inv, TypeOK, vars, eventVars
  <1> QED
    BY <1>1 DEF Inv, Numbers, Reporters, OneReport, Barred, Missing, Reports

(* Appending moves the journal to the next number.                         *)
Appends(a) ==
    /\ pc[a] = "append" /\ held[a].seq = lastEvent + 1
    /\ lastEvent' = lastEvent + 1

(* A number that is missing stays so: new numbers are larger, and the      *)
(* journal stops in front of it.                                           *)
LEMMA MissingKept ==
    ASSUME Inv, TypeOK', NEW k \in Nat, Missing(k), sequence <= sequence',
           lastEvent' = lastEvent \/ \E a \in Goroutines : Appends(a),
           \A a \in Goroutines : pc'[a] = "append" =>
               \/ pc[a] = "append" /\ held'[a] = held[a]
               \/ held'[a].seq > sequence
    PROVE  Missing(k)'
  <1>1. lastEvent \in Nat /\ sequence \in Nat /\ sequence' \in Nat /\ lastEvent' \in Nat
    BY DEF Inv, TypeOK
  <1>2. lastEvent' < k
    BY <1>1 DEF Missing, Appends
  <1>3. ASSUME NEW a \in Goroutines, pc'[a] = "append"
        PROVE  held'[a].seq # k
    <2>1. CASE pc[a] = "append" /\ held'[a] = held[a]
      BY <2>1 DEF Missing
    <2>2. CASE held'[a].seq > sequence
      BY <2>2, <1>1 DEF Missing
    <2> QED
      BY <1>3, <2>1, <2>2
  <1> QED
    BY <1>1, <1>2, <1>3 DEF Missing

LEMMA PublishStep ==
    ASSUME Inv, TypeOK', NEW a \in Goroutines, a # "disconnect", state # "Disconnected",
           Publish(a, FALSE), UNCHANGED <<state, lastEvent, reported, once>>
    PROVE  Inv'
  <1> USE Fixed DEF Publish, Sequenced
  <1>1. /\ sequence \in Nat /\ lastEvent \in Nat /\ sequence' = sequence + 1
        /\ pc'[a] = "append" /\ held'[a].seq = sequence + 1 /\ held'[a].disconnected = FALSE
        /\ \A b \in Goroutines : b # a => pc'[b] = pc[b] /\ held'[b] = held[b]
        /\ \A b \in Goroutines : held[b].seq \in Nat
    BY DEF Inv, TypeOK
  <1>2. Numbers'
    BY <1>1 DEF Inv, Numbers
  <1>3. \A b \in Goroutines : ~Reports(b)'
    BY <1>1 DEF Inv, Reporters, Reports
  <1>4. Reporters' /\ pc'["disconnect"] = "idle"
    BY <1>1, <1>3 DEF Inv, Reporters
  <1> QED
    BY <1>2, <1>3, <1>4 DEF Inv, OneReport, Barred

LEMMA DisconnectStep ==
    ASSUME Inv, Disconnect
    PROVE  Inv'
  <1> USE Fixed DEF Disconnect, Publish, Sequenced
  <1> DEFINE d == "disconnect"
  <1>0. TypeOK'
    BY EmitTyped DEF Inv
  <1>1. /\ sequence \in Nat /\ lastEvent \in Nat /\ sequence' = sequence + 1
        /\ pc'[d] = "append" /\ held'[d].seq = sequence + 1
        /\ \A b \in Goroutines : b # d => pc'[b] = pc[b] /\ held'[b] = held[b]
        /\ \A b \in Goroutines : held[b].seq \in Nat
        /\ lastEvent' = lastEvent /\ reported' = reported
    BY DEF Inv, TypeOK
  <1>2. Numbers'
    BY <1>1 DEF Inv, Numbers
  <1>3. \A b \in Goroutines : Reports(b)' => Reports(b)
    BY <1>1 DEF Reports
  <1>4. Reporters'
    BY <1>1 DEF Inv, Reporters
  <1>5. OneReport'
    BY <1>1, <1>3 DEF Inv, OneReport
  <1>6. Barred'
    <2>1. CASE state = "Disconnected"
      <3>1. PICK k \in Nat : Missing(k)
        BY <2>1 DEF Inv, Barred
      <3>2. Missing(k)'
        BY <1>0, <1>1, <3>1, MissingKept
      <3>3. k < held'[d].seq
        BY <1>1, <3>1 DEF Missing
      <3> QED
        BY <3>2, <3>3 DEF Barred
    <2>2. CASE state # "Disconnected"
      BY <2>2, <1>1, <1>3 DEF Inv, Reporters, Barred
    <2> QED
      BY <2>1, <2>2
  <1> QED
    BY <1>0, <1>2, <1>4, <1>5, <1>6 DEF Inv

(* auditFailure, after the journal may have taken the event.               *)
LEMMA AuditStep ==
    ASSUME Inv, TypeOK', NEW a \in Goroutines, AuditFailure(a), reported' = reported,
           a # "disconnect" \/ pc[a] = "append",
           lastEvent' = lastEvent \/ Appends(a)
    PROVE  Inv'
  <1> USE Fixed
  <1>1. /\ sequence \in Nat /\ lastEvent \in Nat /\ lastEvent' \in Nat
        /\ \A b \in Goroutines : held[b].seq \in Nat
    BY DEF Inv, TypeOK
  <1>2. \A b \in Goroutines : b # a => pc'[b] = pc[b] /\ held'[b] = held[b]
    BY DEF Inv, TypeOK, AuditFailure, Done, Sequenced
  <1>3. pc'[a] \in {"idle", "forced"} /\ sequence <= sequence' /\ sequence' \in Nat
    BY <1>1 DEF Inv, TypeOK, AuditFailure, Done, Sequenced
  <1>4. Numbers'
    <2>1. lastEvent' <= sequence'
      BY <1>1, <1>3 DEF Inv, Numbers, Appends
    <2>2. ASSUME NEW b \in Goroutines, pc'[b] = "append"
          PROVE  lastEvent' < held'[b].seq /\ held'[b].seq <= sequence'
      BY <2>2, <1>1, <1>2, <1>3 DEF Inv, Numbers, Appends
    <2>3. ASSUME NEW b \in Goroutines, NEW c \in Goroutines, b # c,
                 pc'[b] = "append", pc'[c] = "append"
          PROVE  held'[b].seq # held'[c].seq
      BY <2>3, <1>2, <1>3 DEF Inv, Numbers
    <2> QED
      BY <2>1, <2>2, <2>3 DEF Numbers
  <1>5. ASSUME NEW k \in Nat, Missing(k) PROVE Missing(k)'
    BY <1>2, <1>3, <1>5, MissingKept
  <1>6. CASE state = "Disconnected"
    <2>1. /\ pc'[a] = "idle" /\ state' = "Disconnected"
          /\ once' = IF a = "disconnect" THEN "done" ELSE once
      BY <1>6 DEF Inv, TypeOK, AuditFailure, Done, Refused
    <2>2. \A b \in Goroutines : Reports(b)' => Reports(b)
      BY <1>2, <2>1 DEF Reports
    <2>3. Reporters'
      BY <1>2, <2>1 DEF Inv, Reporters
    <2>4. OneReport'
      BY <2>2 DEF Inv, OneReport
    <2>5. Barred'
      BY <1>2, <1>5, <1>6, <2>1, <2>2 DEF Inv, Barred
    <2> QED
      BY <1>4, <2>3, <2>4, <2>5 DEF Inv
  <1>7. CASE state # "Disconnected"
    <2>1. /\ pc'[a] = "forced" /\ state' = "Disconnected" /\ once' = once
          /\ sequence' = sequence + 1 /\ pc["disconnect"] = "idle" /\ a # "disconnect"
          /\ reported = 0 /\ \A b \in Goroutines : ~Reports(b)
      BY <1>7 DEF Inv, TypeOK, Reporters, AuditFailure, Sequenced
    <2>2. \A b \in Goroutines : Reports(b)' => b = a
      BY <1>2, <2>1 DEF Reports
    <2>3. Reporters'
      BY <1>2, <2>1 DEF Inv, Reporters
    <2>4. OneReport'
      BY <2>1, <2>2 DEF Inv, OneReport
    <2>5. PICK k \in Nat : k = sequence'
      BY <1>3
    <2>6. Missing(k)'
      BY <1>1, <1>2, <1>3, <2>1, <2>5 DEF Inv, Numbers, Missing, Appends
    <2>7. Barred'
      BY <1>2, <2>1, <2>6 DEF Barred
    <2> QED
      BY <1>4, <2>3, <2>4, <2>7 DEF Inv
  <1> QED
    BY <1>6, <1>7

LEMMA AppendStep ==
    ASSUME Inv, NEW a \in Goroutines, AppendEvent(a)
    PROVE  Inv'
  <1> USE Fixed
  <1>0. TypeOK'
    BY AppendTyped DEF Inv
  <1>1. pc[a] = "append" /\ reported' = reported
    BY DEF AppendEvent
  <1>2. CASE AuditFailure(a) /\ (lastEvent' = lastEvent \/ Appends(a))
    BY <1>0, <1>1, <1>2, AuditStep
  <1>3. CASE /\ Appends(a) /\ pc' = [pc EXCEPT ![a] = "send"]
             /\ UNCHANGED <<state, sequence, held, once>>
    <2>1. /\ sequence \in Nat /\ lastEvent \in Nat
          /\ \A b \in Goroutines : held[b].seq \in Nat
          /\ \A b \in Goroutines : b # a => pc'[b] = pc[b]
          /\ pc'[a] = "send" /\ held' = held
      BY <1>3 DEF Inv, TypeOK
    <2>2. Numbers'
      BY <1>1, <1>3, <2>1 DEF Inv, Numbers, Appends
    <2>3. \A k \in Nat : Missing(k) => Missing(k)'
      BY <1>0, <1>3, <2>1, MissingKept
    <2>4. CASE held[a].disconnected
      <3>1. a = "disconnect" /\ state = "Disconnected" /\ once # "unused"
        BY <1>1, <2>4 DEF Inv, Reporters
      <3>2. reported = 0 /\ \A b \in Goroutines : ~Reports(b)
        <4>1. ~\E k \in Nat : Missing(k) /\ k < held["disconnect"].seq
          BY <1>3, <2>1, <3>1 DEF Missing, Appends
        <4> QED
          BY <1>1, <3>1, <4>1 DEF Inv, Barred
      <3>3. \A b \in Goroutines : Reports(b)' => b = a
        BY <2>1, <3>2 DEF Reports
      <3> QED
        <4>1. Reporters'
          BY <1>1, <1>3, <2>1, <3>1 DEF Inv, Reporters
        <4>2. OneReport'
          BY <1>1, <3>2, <3>3 DEF OneReport
        <4>3. Barred'
          BY <1>3, <2>1, <3>1 DEF Barred
        <4> QED
          BY <1>0, <2>2, <4>1, <4>2, <4>3 DEF Inv
    <2>5. CASE ~held[a].disconnected
      <3>1. \A b \in Goroutines : Reports(b)' <=> Reports(b)
        BY <1>1, <2>1, <2>5 DEF Reports
      <3>2. Reporters'
        BY <1>1, <1>3, <2>1, <3>1 DEF Inv, Reporters
      <3>3. OneReport'
        BY <1>1, <3>1 DEF Inv, OneReport
      <3>4. Barred'
        BY <1>1, <1>3, <2>1, <2>3, <3>1 DEF Inv, Barred
      <3> QED
        BY <1>0, <2>2, <3>2, <3>3, <3>4 DEF Inv
    <2> QED
      BY <2>4, <2>5
  <1> QED
    <2>1. held[a].seq \in Nat /\ lastEvent \in Nat
      BY DEF Inv, TypeOK
    <2> QED
      BY <1>2, <1>3, <2>1 DEF AppendEvent, Contiguous, Appends

LEMMA SendStep ==
    ASSUME Inv, NEW a \in Goroutines, SendEvent(a)
    PROVE  Inv'
  <1> USE Fixed
  <1>0. TypeOK'
    BY SendTyped DEF Inv
  <1>1. /\ UNCHANGED <<state, sequence, lastEvent>> /\ sequence \in Nat
        /\ \A b \in Goroutines : b # a => pc'[b] = pc[b] /\ held'[b] = held[b]
        /\ pc'[a] = "idle" /\ pc[a] \in {"send", "forced"}
        /\ once' = IF a = "disconnect" THEN "done" ELSE once
    BY DEF Inv, TypeOK, SendEvent, Done, Refused
  <1>2. reported' = IF held[a].disconnected THEN reported + 1 ELSE reported
    BY DEF Inv, TypeOK, SendEvent
  <1>3. Numbers'
    BY <1>1 DEF Inv, Numbers
  <1>4. \A b \in Goroutines : Reports(b)' => b # a /\ Reports(b)
    BY <1>1 DEF Reports
  <1>5. \A k \in Nat : Missing(k) => Missing(k)'
    BY <1>0, <1>1, MissingKept
  <1>6. CASE held[a].disconnected
    <2>1. Reports(a) /\ reported = 0 /\ reported' = 1
      BY <1>1, <1>2, <1>6 DEF Inv, OneReport, Reports
    <2>2. \A b \in Goroutines : ~Reports(b)'
      BY <1>4, <2>1 DEF Inv, OneReport
    <2>3. Reporters'
      BY <1>1, <2>1, <2>2 DEF Inv, Reporters
    <2>4. OneReport'
      BY <2>1, <2>2 DEF OneReport
    <2>5. Barred'
      BY <1>1, <1>5, <2>1 DEF Inv, Barred
    <2> QED
      BY <1>0, <1>3, <2>3, <2>4, <2>5 DEF Inv
  <1>7. CASE ~held[a].disconnected
    <2>1. reported' = reported
      BY <1>2, <1>7
    <2>2. Reporters'
      BY <1>1, <1>4, <2>1 DEF Inv, Reporters
    <2>3. OneReport'
      BY <1>4, <2>1 DEF Inv, OneReport
    <2>4. Barred'
      BY <1>1, <1>4, <1>5, <2>1 DEF Inv, Barred
    <2> QED
      BY <1>0, <1>3, <2>2, <2>3, <2>4 DEF Inv
  <1> QED
    BY <1>6, <1>7

LEMMA WorkerStep ==
    ASSUME Inv, NEW w \in Workers, WorkerPublishes(w) \/ OperationAuditFails(w)
    PROVE  Inv'
  <1>1. TypeOK'
    BY WorkersTyped DEF Inv
  <1>2. w \in Goroutines /\ w # "disconnect"
    BY ProcessAssumption, Fixed
  <1>3. CASE WorkerPublishes(w)
    BY <1>1, <1>2, <1>3, PublishStep DEF WorkerPublishes
  <1>4. CASE OperationAuditFails(w)
    BY <1>1, <1>2, <1>4, AuditStep DEF OperationAuditFails
  <1> QED
    BY <1>3, <1>4

LEMMA StartEmitsStep ==
    ASSUME Inv, StartEmits
    PROVE  Inv'
  <1>1. TypeOK'
    BY EmitTyped DEF Inv
  <1>2. CASE state # "Disconnected" /\ Publish("start", FALSE)
    BY <1>1, <1>2, Fixed, PublishStep DEF StartEmits
  <1>3. CASE UNCHANGED <<pc, held, sequence>>
    BY <1>1, <1>3 DEF StartEmits, Inv, Numbers, Reporters, OneReport, Barred, Missing, Reports
  <1> QED
    BY <1>2, <1>3 DEF StartEmits

LEMMA NextInv == Inv /\ [Next]_vars => Inv'
  <1> SUFFICES ASSUME Inv, [Next]_vars PROVE Inv'
    OBVIOUS
  <1>1. CASE Quiet \/ UNCHANGED vars
    BY <1>1, QuietStep
  <1>2. ASSUME NEW a \in Goroutines, AppendEvent(a) \/ SendEvent(a) PROVE Inv'
    BY <1>2, AppendStep, SendStep
  <1>3. ASSUME NEW w \in Workers, WorkerPublishes(w) \/ OperationAuditFails(w) PROVE Inv'
    BY <1>3, WorkerStep
  <1>4. CASE StartEmits
    BY <1>4, StartEmitsStep
  <1>5. CASE Disconnect
    BY <1>5, DisconnectStep
  <1> QED
    BY <1>1, <1>2, <1>3, <1>4, <1>5 DEF Next, Quiet, ProcessSteps

(* The type invariant of the supervisor's process and events.              *)
THEOREM ProcessTypeCorrect == Spec => []TypeOK
  <1>1. Inv => TypeOK
    BY DEF Inv
  <1> QED
    BY <1>1, InitInv, NextInv, PTL DEF Spec

(* auditFailure and disconnectOnce between them send the consumer at most  *)
(* one Disconnected event.                                                 *)
THEOREM DisconnectedOnce == Spec => []OneDisconnect
  <1>1. Inv => OneDisconnect
    BY DEF Inv, OneReport, OneDisconnect
  <1> QED
    BY <1>1, InitInv, NextInv, PTL DEF Spec
=============================================================================
