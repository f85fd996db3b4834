------------------------- MODULE AppServerProcess -------------------------
(***************************************************************************)
(* How the supervisor of an App Server child owns its process and its      *)
(* events (packages/dorkpipe/lib/appserversupervisor: supervisor.go, the   *)
(* client of protocol.go, the journal of audit.go).  Start launches the    *)
(* child under a deadline; a child that comes late is reaped.  Events are  *)
(* numbered under s.mu, appended to the audit journal, and sent on a       *)
(* bounded channel, by several goroutines.  Whatever goes wrong            *)
(* disconnects once and shuts the child down: grace, then kill.            *)
(*                                                                         *)
(* What the turns are about is in AppServerTurn; here the goroutines that  *)
(* serve them, the workers, publish events or fail.  A step is a section   *)
(* under s.mu, or a step that may block.  The process is external.         *)
(***************************************************************************)
EXTENDS Integers

CONSTANTS
    Workers,        \* goroutines that publish: the reader, a lifecycle operation
    MaxSequence,    \* bound on the events the workers publish
    MaxFaults,      \* bound on failed saves of the audit journal
    EventCap,       \* capacity of the events channel
    HastyShutdown,  \* Shutdown may be called before Start has returned
    ConsumerLeaves  \* the reader of the channel may return, then shut down

ASSUME ProcessAssumption ==
    /\ MaxSequence \in Nat /\ MaxFaults \in Nat /\ EventCap \in Nat \ {0}
    /\ HastyShutdown \in BOOLEAN /\ ConsumerLeaves \in BOOLEAN
    /\ Workers \cap {"start", "disconnect"} = {}

Goroutines == Workers \cup {"start", "disconnect"}

VARIABLES
    state,     \* s.state, as far as it is Disconnected
    start,     \* the call of Start
    pc,        \* where each goroutine stands with the event it publishes
    held,      \* that event
    sequence,  \* s.sequence
    lastEvent, \* the journal's LastEvent
    queued,    \* events in the channel
    consumer,  \* the channel has a reader
    failing,   \* some goroutine is in fail or in Shutdown
    once,      \* disconnectOnce
    proc,      \* the child and the supervisor's hold on it
    faults,
    reported   \* history: Disconnected events sent

eventVars == <<pc, held, sequence, lastEvent, queued, reported>>
vars == <<state, start, eventVars, consumer, failing, once, proc, faults>>

(* launch: the launcher; child: the process; installed: s.child is set;    *)
(* waited: waitDone is closed; reaper: reapLateLaunch; stdin: our end is   *)
(* open; shutdown: the goroutine of startShutdown.                         *)
Procs == [launch : {"none", "running", "launched", "failed"},
          child : {"none", "alive", "killed", "exited"},
          installed : BOOLEAN, waited : BOOLEAN,
          reaper : {"off", "armed", "done"}, stdin : BOOLEAN,
          shutdown : {"none", "asked", "grace", "kill", "done"}]
NoEvent == [seq |-> 0, disconnected |-> FALSE]

TypeOK ==
    /\ state \in {"Connected", "Disconnected"}
    /\ start \in {"idle", "launching", "initialize", "emit", "abandon", "returned"}
    /\ pc \in [Goroutines -> {"idle", "append", "send", "forced"}]
    /\ held \in [Goroutines -> [seq : Nat, disconnected : BOOLEAN]]
    /\ sequence \in Nat /\ lastEvent \in Nat
    /\ queued \in 0..EventCap /\ consumer \in BOOLEAN
    /\ failing \in BOOLEAN /\ once \in {"unused", "running", "done"}
    /\ proc \in Procs
    /\ faults \in 0..MaxFaults /\ reported \in Nat

Init ==
    /\ state = "Connected" /\ start = "idle"
    /\ pc = [a \in Goroutines |-> "idle"] /\ held = [a \in Goroutines |-> NoEvent]
    /\ sequence = 0 /\ lastEvent = 0 /\ queued = 0 /\ consumer = TRUE
    /\ failing = FALSE /\ once = "unused"
    /\ proc = [launch |-> "none", child |-> "none", installed |-> FALSE, waited |-> FALSE,
               reaper |-> "off", stdin |-> FALSE, shutdown |-> "none"]
    /\ faults = 0 /\ reported = 0

-----------------------------------------------------------------------------
(* Events.                                                                 *)

Sequenced(a, disconnected, where) ==
    /\ sequence' = sequence + 1
    /\ held' = [held EXCEPT ![a] = [seq |-> sequence + 1, disconnected |-> disconnected]]
    /\ pc' = [pc EXCEPT ![a] = where]

Publish(a, disconnected) == Sequenced(a, disconnected, "append")

Done(a) ==
    /\ pc' = [pc EXCEPT ![a] = "idle"]
    /\ held' = [held EXCEPT ![a] = NoEvent]

(* What the callers do when their event was refused: the reader's client   *)
(* fails the session; Start and the operations only return.                *)
Refused(a) ==
    /\ failing' = (failing \/ a = "reader")
    /\ once' = IF a = "disconnect" THEN "done" ELSE once

(* auditFailure: report the disconnect past the journal.                   *)
AuditFailure(a) ==
    \/ /\ state = "Disconnected"
       /\ Done(a) /\ Refused(a)
       /\ UNCHANGED <<state, sequence>>
    \/ /\ state # "Disconnected"
       /\ state' = "Disconnected"
       /\ Sequenced(a, TRUE, "forced")
       /\ UNCHANGED <<failing, once>>

(* Mutation of Contiguous: the journal takes events with gaps.             *)
Newer(e) == e.seq > lastEvent

Contiguous(e) == e.seq = lastEvent + 1

(* auditJournal.append: a save may fail after LastEvent moved.             *)
AppendEvent(a) ==
    /\ pc[a] = "append"
    /\ \/ /\ Contiguous(held[a])
          /\ lastEvent' = held[a].seq
          /\ pc' = [pc EXCEPT ![a] = "send"]
          /\ UNCHANGED <<state, sequence, held, failing, once, faults>>
       \/ /\ Contiguous(held[a]) /\ faults < MaxFaults
          /\ faults' = faults + 1
          /\ lastEvent' = held[a].seq
          /\ AuditFailure(a)
       \/ /\ ~Contiguous(held[a])
          /\ AuditFailure(a)
          /\ UNCHANGED <<lastEvent, faults>>
    /\ UNCHANGED <<start, queued, reported, consumer, proc>>

StartsShutdown(p) == [p EXCEPT !.shutdown = IF @ = "none" THEN "asked" ELSE @]

SendEvent(a) ==
    /\ pc[a] \in {"send", "forced"}
    /\ queued < EventCap
    /\ queued' = queued + 1
    /\ reported' = reported + (IF held[a].disconnected THEN 1 ELSE 0)
    /\ Done(a)
    /\ \/ /\ pc[a] = "send"
          /\ once' = IF a = "disconnect" THEN "done" ELSE once
          /\ UNCHANGED <<failing, proc>>
       \/ /\ pc[a] = "forced"
          /\ proc' = StartsShutdown(proc)
          /\ Refused(a)
    /\ UNCHANGED <<state, start, sequence, lastEvent, consumer, faults>>

Consume ==
    /\ consumer /\ queued > 0
    /\ queued' = queued - 1
    /\ UNCHANGED <<state, start, pc, held, sequence, lastEvent, reported, consumer, failing,
                   once, proc, faults>>

StartReturned == start = "returned" /\ pc["start"] = "idle"

(* Nothing is published before StartThread, which follows Start.           *)
Works(w) == pc[w] = "idle" /\ proc.installed /\ StartReturned

(* emit and emitProgress, by an operation or by a handler of the reader.   *)
WorkerPublishes(w) ==
    /\ Works(w) /\ sequence < MaxSequence
    /\ state # "Disconnected"
    /\ Publish(w, FALSE)
    /\ UNCHANGED <<state, start, lastEvent, queued, reported, consumer, failing, once, proc, faults>>

(* A record of the journal that is not an event is refused by its store.   *)
OperationAuditFails(w) ==
    /\ Works(w) /\ faults < MaxFaults
    /\ faults' = faults + 1
    /\ AuditFailure(w)
    /\ UNCHANGED <<start, lastEvent, queued, reported, consumer, proc>>

(* fail, by any goroutine that serves the child: a deadline of the client, *)
(* a line, a response, a decision or a call that is refused.               *)
Fail ==
    /\ proc.installed
    /\ ~failing /\ failing' = TRUE
    /\ UNCHANGED <<state, start, eventVars, consumer, once, proc, faults>>

-----------------------------------------------------------------------------
(* Start.                                                                  *)

Start ==
    /\ start = "idle"
    /\ start' = "launching"
    /\ proc' = [proc EXCEPT !.launch = "running"]
    /\ UNCHANGED <<state, eventVars, consumer, failing, once, faults>>

Launched ==
    /\ proc.launch = "running"
    /\ \/ proc' = [proc EXCEPT !.launch = "launched", !.child = "alive"]
       \/ proc' = [proc EXCEPT !.launch = "failed"]
    /\ UNCHANGED <<state, start, eventVars, consumer, failing, once, faults>>

(* Mutation of StartAbandons: nobody waits for the late child.             *)
StartAbandonsLaunch ==
    /\ start = "launching"
    /\ start' = "abandon"
    /\ UNCHANGED <<state, eventVars, consumer, failing, once, proc, faults>>

(* The launcher failed, or its child has no pipes and is killed at once,   *)
(* or the startup deadline passed first: Start disconnects, and leaves a   *)
(* late child to the reaper.                                               *)
StartAbandons ==
    /\ start = "launching"
    /\ \/ proc.launch = "failed" /\ UNCHANGED proc
       \/ /\ proc.launch = "launched"
          /\ proc' = [proc EXCEPT !.child = IF @ = "alive" THEN "killed" ELSE @]
       \/ proc' = [proc EXCEPT !.reaper = "armed"]
    /\ start' = "abandon"
    /\ UNCHANGED <<state, eventVars, consumer, failing, once, faults>>

StartAbandoned ==
    /\ start = "abandon" /\ once = "done"
    /\ start' = "returned"
    /\ UNCHANGED <<state, eventVars, consumer, failing, once, proc, faults>>

ReapLateLaunch ==
    /\ proc.reaper = "armed" /\ proc.launch \in {"launched", "failed"}
    /\ proc' = [proc EXCEPT !.reaper = "done", !.child = IF @ = "alive" THEN "killed" ELSE @]
    /\ UNCHANGED <<state, start, eventVars, consumer, failing, once, faults>>

StartInstalls ==
    /\ start = "launching" /\ proc.launch = "launched"
    /\ start' = "initialize"
    /\ proc' = [proc EXCEPT !.installed = TRUE, !.stdin = TRUE]
    /\ UNCHANGED <<state, eventVars, consumer, failing, once, faults>>

(* client.initialize returns.                                              *)
StartInitialized ==
    /\ start = "initialize"
    /\ \/ state # "Disconnected" /\ start' = "emit" /\ UNCHANGED failing
       \/ state = "Disconnected" /\ start' = "returned" /\ UNCHANGED failing
       \/ start' = "returned" /\ failing' = TRUE
    /\ UNCHANGED <<state, eventVars, consumer, once, proc, faults>>

StartEmits ==
    /\ start = "emit"
    /\ start' = "returned"
    /\ \/ state # "Disconnected" /\ Publish("start", FALSE)
       \/ state = "Disconnected" /\ UNCHANGED <<pc, held, sequence>>
    /\ UNCHANGED <<state, lastEvent, queued, reported, consumer, failing, once, proc, faults>>

-----------------------------------------------------------------------------
(* Disconnect and shutdown.                                                *)

(* The section of disconnectOnce; the pipes are closed right after it.     *)
Disconnect ==
    /\ failing \/ start = "abandon"
    /\ once = "unused"
    /\ once' = "running"
    /\ state' = "Disconnected"
    /\ Publish("disconnect", TRUE)
    /\ proc' = [proc EXCEPT !.stdin = FALSE]
    /\ UNCHANGED <<start, lastEvent, queued, reported, consumer, failing, faults>>

(* fail and Shutdown go on to startShutdown once disconnectOnce is over.   *)
StartShutdown ==
    /\ failing /\ once = "done" /\ proc.shutdown = "none"
    /\ proc' = StartsShutdown(proc)
    /\ UNCHANGED <<state, start, eventVars, consumer, failing, once, faults>>

(* Mutation of ShutdownBegins: without a child shutdownDone stays open.    *)
ShutdownBeginsWithChild ==
    /\ proc.shutdown = "asked" /\ proc.installed
    /\ proc' = [proc EXCEPT !.shutdown = "grace", !.stdin = FALSE]
    /\ UNCHANGED <<state, start, eventVars, consumer, failing, once, faults>>

(* startShutdown and its goroutine, up to the wait for the grace period.   *)
ShutdownBegins ==
    /\ proc.shutdown = "asked"
    /\ proc' = IF proc.installed THEN [proc EXCEPT !.shutdown = "grace", !.stdin = FALSE]
               ELSE [proc EXCEPT !.shutdown = "done"]
    /\ UNCHANGED <<state, start, eventVars, consumer, failing, once, faults>>

GraceExpires ==
    /\ proc.shutdown = "grace" /\ ~proc.waited
    /\ proc' = [proc EXCEPT !.shutdown = "kill", !.child = IF @ = "alive" THEN "killed" ELSE @]
    /\ UNCHANGED <<state, start, eventVars, consumer, failing, once, faults>>

(* The child was waited for, or the kill deadline passed.                  *)
FinishShutdown ==
    /\ \/ proc.shutdown = "grace" /\ proc.waited
       \/ proc.shutdown = "kill"
    /\ proc' = [proc EXCEPT !.shutdown = "done"]
    /\ UNCHANGED <<state, start, eventVars, consumer, failing, once, faults>>

Shutdown ==
    /\ start # "idle"
    /\ HastyShutdown \/ StartReturned
    /\ ~failing /\ failing' = TRUE
    /\ UNCHANGED <<state, start, eventVars, consumer, once, proc, faults>>

ConsumerReturns ==
    /\ ConsumerLeaves /\ consumer /\ start = "returned"
    /\ consumer' = FALSE /\ failing' = TRUE
    /\ UNCHANGED <<state, start, eventVars, once, proc, faults>>

(* The process ends of itself, or of a kill.                               *)
ChildExits ==
    /\ proc.child \in {"alive", "killed"}
    /\ proc' = [proc EXCEPT !.child = "exited"]
    /\ UNCHANGED <<state, start, eventVars, consumer, failing, once, faults>>

WaitForChild ==
    /\ proc.installed /\ proc.child = "exited" /\ ~proc.waited
    /\ proc' = [proc EXCEPT !.waited = TRUE]
    /\ failing' = TRUE
    /\ UNCHANGED <<state, start, eventVars, consumer, once, faults>>

-----------------------------------------------------------------------------
Next ==
    \/ Start \/ Launched \/ StartAbandons \/ StartAbandoned \/ ReapLateLaunch
    \/ StartInstalls \/ StartInitialized \/ StartEmits
    \/ \E a \in Goroutines : AppendEvent(a) \/ SendEvent(a)
    \/ \E w \in Workers : WorkerPublishes(w) \/ OperationAuditFails(w)
    \/ Consume \/ ConsumerReturns
    \/ Fail \/ Shutdown
    \/ Disconnect \/ StartShutdown \/ ShutdownBegins \/ GraceExpires \/ FinishShutdown
    \/ ChildExits \/ WaitForChild

KilledChildExits == proc.child = "killed" /\ ChildExits

(* Goroutines are scheduled, deadlines pass, a launch ends, a killed       *)
(* process dies; the consumer, while there, takes what it is sent.         *)
Fairness ==
    /\ \A a \in Goroutines : WF_vars(AppendEvent(a)) /\ WF_vars(SendEvent(a))
    /\ WF_vars(Disconnect) /\ WF_vars(StartShutdown) /\ WF_vars(ShutdownBegins)
    /\ WF_vars(GraceExpires) /\ WF_vars(FinishShutdown) /\ WF_vars(WaitForChild)
    /\ WF_vars(StartInitialized) /\ WF_vars(StartEmits) /\ WF_vars(StartAbandoned)
    /\ WF_vars(ReapLateLaunch) /\ WF_vars(Launched) /\ WF_vars(KilledChildExits)
    /\ WF_vars(Consume)

Spec == Init /\ [][Next]_vars /\ Fairness

-----------------------------------------------------------------------------
(* The consumer is told of the disconnect at most once, although           *)
(* auditFailure and disconnectOnce report it independently: a number that  *)
(* never reached the journal keeps every later event out of it.            *)
OneDisconnect == reported <= 1

(* Nobody reads the channel any more, and it is full.                      *)
ChannelIsStuck == queued = EventCap /\ ~consumer

(* Once the session is Disconnected its child is stopped, one that was     *)
(* still being launched included (reapLateLaunch, startShutdown), unless   *)
(* the disconnect itself waits for room in a channel that nobody reads.    *)
ChildIsStopped ==
    (state = "Disconnected" /\ proc.child = "alive")
        ~> (proc.child = "exited" \/ ChannelIsStuck)

(* Whoever shuts down gets its answer (Shutdown waits for shutdownDone),   *)
(* with the same exception.                                                *)
ShutdownReturns == failing ~> (proc.shutdown = "done" \/ ChannelIsStuck)

(* Startup failure, child exit, transport loss and deadlines each produce  *)
(* a Disconnected event.                                                   *)
DisconnectIsReported == (state = "Disconnected") ~> (reported = 1)

(* Shutdown uses the grace and the kill deadline, whatever the consumer    *)
(* does.                                                                   *)
ChildIsAlwaysStopped ==
    (state = "Disconnected" /\ proc.child = "alive") ~> (proc.child = "exited")
=============================================================================
