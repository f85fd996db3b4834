----------------------------- MODULE RemoteNode -----------------------------
(***************************************************************************)
(* Delivery of one job to one node: a broker that keeps its queue in one   *)
(* private JSON file (infrastructure/remote/broker.go), worker processes   *)
(* that poll it, journal, execute and report (worker.go), and the network  *)
(* between them.  Broker and workers crash and restart, requests and       *)
(* replies are lost or delayed, file writes fail with unknown outcome.     *)
(*                                                                         *)
(* Enrollment is fixed here except for revocation; module RemotePairing    *)
(* models how a node becomes enrolled.                                     *)
(***************************************************************************)
EXTENDS RemoteContract

CONSTANTS
    Roots,       \* worker state directories
    Procs,       \* worker processes (one at a time runs per slot)
    RootNode,    \* the node a worker directory's configuration names
    RootOf,      \* the state directory a process is started on
    Approved,    \* profiles the worker configurations approve
    MaxTries,    \* attempts of one call (retryCall: 5)
    MaxFaults    \* bound on crashes, failed writes, timeouts and shutdowns

ASSUME NodeAssumption ==
    /\ RootNode \in [Roots -> Nodes]
    /\ RootOf \in [Procs -> Roots]
    /\ Approved \subseteq Profiles
    /\ MaxTries \in Nat \ {0}
    /\ MaxFaults \in Nat
    /\ None \notin Roots \cup Procs

VARIABLES
    \* the broker process
    up,          \* the broker is running
    poisoned,    \* Broker.poisoned
    jobs,        \* BrokerState.Jobs in memory
    revoked,     \* nodes whose Enrollment.Revoked is set, in memory
    \* the broker's files
    diskJobs,    \* Jobs in broker.json
    diskRevoked, \* revoked nodes in broker.json
    results,     \* results/<id>.json
    bundles,     \* bundles/<id>.json
    \* the worker processes
    pc,          \* where RunWorker stands
    sess,        \* the session of the running process
    cur,         \* the job it was handed
    snap,        \* that job as /v1/next returned it
    out,         \* journal.Result in memory
    tries,       \* attempts of the current call
    lock,        \* holder of <root>/worker.lock
    \* the workers' files
    journal,     \* <root>/jobs/<id>.json
    staged,      \* <root>/deliveries/<id>
    \* the network
    net,         \* requests sent and not yet handled or lost
    \* environment
    faults,      \* faults so far
    \* history
    sroot,       \* the directory a session's process was started on
    runs         \* how often the workflow of a job was started

brokerVars == <<up, poisoned, jobs, revoked>>
brokerFiles == <<diskJobs, diskRevoked, results, bundles>>
workerVars == <<pc, sess, cur, snap, out, tries, lock>>
workerFiles == <<journal, staged>>
history == <<sroot, runs>>
vars == <<brokerVars, brokerFiles, workerVars, workerFiles, net, faults, history>>

-----------------------------------------------------------------------------
(* A journal entry: the submission and session it was written for, and     *)
(* the result once there is one.  NoEntry stands for a missing file.       *)
Entry == [job : Submission, session : Sessions, result : Result \cup {None}]
NoEntry == [job |-> None, session |-> None, result |-> None]

(* Requests a worker sends: POST /v1/next and POST /v1/result.             *)
Request == [kind : {"next", "result"}, proc : Procs, sess : Sessions,
            try : 1..MaxTries, id : JobIds \cup {None},
            result : Result \cup {None}]

PC == {"off", "idle", "ask", "got", "run", "exec", "ran", "send"}

(* The outcomes of Execute and of the pre-execution checks in RunWorker.   *)
WorkflowResults == {[status |-> s, cause |-> "workflow"] :
                        s \in {"success", "failure"}}
CancelResult == [status |-> "cancelled", cause |-> "cancel"]
HeartbeatResult == [status |-> "failure", cause |-> "heartbeat"]
ShutdownResults == {[status |-> s, cause |-> "shutdown"] :
                        s \in {"cancelled", "failure"}}
SkippedCancel == [status |-> "cancelled", cause |-> "skipped"]
SkippedFailure == [status |-> "failure", cause |-> "skipped"]
InterruptedResult == [status |-> "unknown", cause |-> "interrupted"]

BrokerTypeOK ==
    /\ up \in BOOLEAN /\ poisoned \in BOOLEAN
    /\ jobs \in Queue /\ revoked \in SUBSET Nodes

BrokerFilesTypeOK ==
    /\ diskJobs \in Queue /\ diskRevoked \in SUBSET Nodes
    /\ results \in [JobIds -> Result \cup {None}]
    /\ bundles \in [JobIds -> Bundles \cup {None}]

WorkerTypeOK ==
    /\ pc \in [Procs -> PC]
    /\ sess \in [Procs -> Sessions \cup {None}]
    /\ cur \in [Procs -> JobIds \cup {None}]
    /\ snap \in [Procs -> Job \cup {NoJob}]
    /\ out \in [Procs -> Result \cup {None}]
    /\ tries \in [Procs -> 0..MaxTries]
    /\ lock \in [Roots -> Procs \cup {None}]

WorkerFilesTypeOK ==
    /\ journal \in [Roots -> [JobIds -> Entry \cup {NoEntry}]]
    /\ staged \in [Roots -> SUBSET JobIds]

HistoryTypeOK ==
    /\ sroot \in [Sessions -> Roots \cup {None}]
    /\ runs \in [JobIds -> Nat]

TypeOK ==
    /\ BrokerTypeOK
    /\ BrokerFilesTypeOK
    /\ WorkerTypeOK
    /\ WorkerFilesTypeOK
    /\ net \in SUBSET Request
    /\ faults \in 0..MaxFaults
    /\ HistoryTypeOK

(* A broker whose nodes are enrolled and whose queue is empty, and workers *)
(* that have not been started.                                             *)
Init ==
    /\ up = TRUE /\ poisoned = FALSE
    /\ jobs = [id \in JobIds |-> NoJob] /\ diskJobs = jobs
    /\ revoked = {} /\ diskRevoked = {}
    /\ results = [id \in JobIds |-> None]
    /\ bundles = [id \in JobIds |-> None]
    /\ pc = [p \in Procs |-> "off"]
    /\ sess = [p \in Procs |-> None]
    /\ cur = [p \in Procs |-> None]
    /\ snap = [p \in Procs |-> NoJob]
    /\ out = [p \in Procs |-> None]
    /\ tries = [p \in Procs |-> 0]
    /\ lock = [r \in Roots |-> None]
    /\ journal = [r \in Roots |-> [id \in JobIds |-> NoEntry]]
    /\ staged = [r \in Roots |-> {}]
    /\ net = {}
    /\ faults = 0
    /\ sroot = [s \in Sessions |-> None]
    /\ runs = [id \in JobIds |-> 0]

-----------------------------------------------------------------------------
(* Faults the environment may still inject.                                *)
Fault == faults < MaxFaults /\ faults' = faults + 1

(* ServeHTTP holds the mutex for the whole handler and answers 503 once    *)
(* the broker is poisoned.                                                 *)
Serving == up /\ ~poisoned

(* Broker.save: the whole in-memory state replaces broker.json.            *)
Save(newJobs, newRevoked) ==
    /\ diskJobs' = newJobs
    /\ diskRevoked' = newRevoked
    /\ UNCHANGED <<poisoned, faults>>

(* Mutation of SaveFails: the broker goes on serving.                      *)
SaveFailsUnnoticed(newJobs, newRevoked) ==
    /\ Fault
    /\ \/ diskJobs' = newJobs /\ diskRevoked' = newRevoked
       \/ UNCHANGED <<diskJobs, diskRevoked>>
    /\ UNCHANGED poisoned

(* A failed save: the file may hold either state, memory keeps the new     *)
(* one, and the broker serves nothing more until it is restarted.          *)
SaveFails(newJobs, newRevoked) ==
    /\ Fault
    /\ \/ diskJobs' = newJobs /\ diskRevoked' = newRevoked
       \/ UNCHANGED <<diskJobs, diskRevoked>>
    /\ poisoned' = TRUE

-----------------------------------------------------------------------------
(* Operator requests.  One that is refused, or only read, changes nothing  *)
(* and is not an action: a repeated submission of a retained job, and the  *)
(* nodes, jobs and job queries.                                            *)

(* storeBundle: the payload file is written before the queue accepts the   *)
(* job; an existing file must hold the same bytes.                         *)
BundleFits(id, work) == work \in Bundles => bundles[id] \in {None, work}

StoreBundle(id, work) ==
    bundles' = IF work \in Bundles THEN [bundles EXCEPT ![id] = work] ELSE bundles

Submit(id, sub, now) ==
    LET next == [jobs EXCEPT ![id] = Submitted(sub, now)]
    IN  /\ Serving
        /\ Admits(jobs, id, sub.node \notin revoked)
        /\ BundleFits(id, sub.work)
        /\ StoreBundle(id, sub.work)
        /\ jobs' = next
        /\ Save(next, revoked) \/ SaveFails(next, revoked)
        /\ UNCHANGED <<up, revoked, results, workerVars, workerFiles, net,
                       history>>

(* The payload write of a new delivery fails: the operator gets an error,  *)
(* the broker goes on, and the file may exist without a job.               *)
SubmitBundleFails(id, sub) ==
    /\ Serving
    /\ Admits(jobs, id, sub.node \notin revoked)
    /\ sub.work \in Bundles /\ bundles[id] = None
    /\ Fault
    /\ StoreBundle(id, sub.work)
    /\ UNCHANGED <<brokerVars, diskJobs, diskRevoked, results, workerVars,
                   workerFiles, net, history>>

Cancel(id) ==
    LET next == [jobs EXCEPT ![id] = Cancelled(jobs[id])]
    IN  /\ Serving
        /\ Exists(jobs, id) /\ Cancellable(jobs[id])
        /\ jobs' = next
        /\ Save(next, revoked) \/ SaveFails(next, revoked)
        /\ UNCHANGED <<up, revoked, results, bundles, workerVars, workerFiles,
                       net, history>>

Revoke(node) ==
    LET next == revoked \cup {node}
    IN  /\ Serving
        /\ revoked' = next
        /\ Save(jobs, next) \/ SaveFails(jobs, next)
        /\ UNCHANGED <<up, jobs, results, bundles, workerVars, workerFiles, net,
                       history>>

-----------------------------------------------------------------------------
(* The broker process.                                                     *)

BrokerCrash ==
    /\ up
    /\ Fault
    /\ up' = FALSE
    /\ UNCHANGED <<poisoned, jobs, revoked, brokerFiles, workerVars,
                   workerFiles, net, history>>

(* NewBroker: read broker.json, recover every job, save.  A failed save    *)
(* ends the process before it serves anything.                             *)
NewBroker ==
    LET recovered == [id \in JobIds |-> Recover(diskJobs[id])]
    IN  /\ ~up
        /\ jobs' = recovered
        /\ revoked' = diskRevoked
        /\ \/ /\ up' = TRUE /\ poisoned' = FALSE
              /\ diskJobs' = recovered
              /\ UNCHANGED faults
           \/ /\ Fault
              /\ diskJobs' \in {diskJobs, recovered}
              /\ UNCHANGED <<up, poisoned>>
        /\ UNCHANGED <<diskRevoked, results, bundles, workerVars, workerFiles,
                       net, history>>

-----------------------------------------------------------------------------
(* Worker calls.  A request stays in the network until the broker takes    *)
(* it.  Its reply reaches the caller if the caller still waits for this    *)
(* attempt; otherwise the caller has timed out or died, and the reply is   *)
(* lost.  A caller that gives up may do so before or after the broker acts *)
(* on the request: the two orders lead to the same states.                 *)

Node(p) == RootNode[RootOf[p]]

NextRequest(p, try) ==
    [kind |-> "next", proc |-> p, sess |-> sess[p], try |-> try,
     id |-> None, result |-> None]

ResultRequest(p, try) ==
    [kind |-> "result", proc |-> p, sess |-> snap[p].session, try |-> try,
     id |-> cur[p], result |-> out[p]]

CurrentRequest(p, try) ==
    IF pc[p] = "ask" THEN NextRequest(p, try) ELSE ResultRequest(p, try)

Waiting(m) ==
    /\ pc[m.proc] \in {"ask", "send"}
    /\ m = CurrentRequest(m.proc, tries[m.proc])

(* The process ends and its flock on worker.lock goes with it.             *)
Exit(p) ==
    /\ pc' = [pc EXCEPT ![p] = "off"]
    /\ sess' = [sess EXCEPT ![p] = None]
    /\ cur' = [cur EXCEPT ![p] = None]
    /\ snap' = [snap EXCEPT ![p] = NoJob]
    /\ out' = [out EXCEPT ![p] = None]
    /\ tries' = [tries EXCEPT ![p] = 0]
    /\ lock' = [lock EXCEPT ![RootOf[p]] = None]

(* A conflict (409) or an authentication failure (401) is not retried.     *)
ReplyRejected(m) ==
    IF Waiting(m) THEN Exit(m.proc) ELSE UNCHANGED workerVars

(* The loop of RunWorker goes on with job id, or starts over.              *)
ReplyWith(m, next, id, job) ==
    IF Waiting(m)
    THEN /\ pc' = [pc EXCEPT ![m.proc] = next]
         /\ cur' = [cur EXCEPT ![m.proc] = id]
         /\ snap' = [snap EXCEPT ![m.proc] = job]
         /\ out' = [out EXCEPT ![m.proc] = None]
         /\ tries' = [tries EXCEPT ![m.proc] = 0]
         /\ UNCHANGED <<sess, lock>>
    ELSE UNCHANGED workerVars

ReplyJob(m, id, job) == ReplyWith(m, "got", id, job)
ReplyDone(m) == ReplyWith(m, "idle", None, NoJob)

(* ServeHTTP takes a request.  The token of a revoked node matches no      *)
(* enrollment.                                                             *)
Handle(m) == Serving /\ m \in net /\ net' = net \ {m}

Authorized(m) == Handle(m) /\ Node(m.proc) \notin revoked

Unauthorized(m) ==
    /\ Handle(m)
    /\ Node(m.proc) \in revoked
    /\ ReplyRejected(m)
    /\ UNCHANGED <<brokerVars, brokerFiles, workerFiles, faults, history>>

(* withResult: the payload file must match the digest in the metadata.     *)
Readable(id) == jobs[id].resultHash \in {None, results[id]}

(* /v1/next with unresolved work: the job as it stands, with its result.   *)
NextUnresolved(m, id) ==
    /\ Authorized(m) /\ m.kind = "next"
    /\ id \in Unresolved(jobs, Node(m.proc))
    /\ IF Readable(id) THEN ReplyJob(m, id, jobs[id]) ELSE ReplyRejected(m)
    /\ UNCHANGED <<brokerVars, brokerFiles, workerFiles, faults, history>>

NextEmpty(m) ==
    /\ Authorized(m) /\ m.kind = "next"
    /\ Unresolved(jobs, Node(m.proc)) = {}
    /\ Queued(jobs, Node(m.proc)) = {}
    /\ ReplyDone(m)
    /\ UNCHANGED <<brokerVars, brokerFiles, workerFiles, faults, history>>

(* Mutation of NextClaim: the claim is answered although it was not saved. *)
NextClaimUnsaved(m, id) ==
    LET next == [jobs EXCEPT ![id] = Claimed(jobs[id], m.sess)]
    IN  /\ Authorized(m) /\ m.kind = "next"
        /\ Unresolved(jobs, Node(m.proc)) = {}
        /\ id \in Oldest(jobs, Node(m.proc))
        /\ jobs' = next
        /\ Save(next, revoked) \/ SaveFails(next, revoked)
        /\ ReplyJob(m, id, next[id])
        /\ UNCHANGED <<up, revoked, results, bundles, workerFiles, history>>

(* /v1/next with queued work: the claim is saved before it is answered.    *)
NextClaim(m, id) ==
    LET next == [jobs EXCEPT ![id] = Claimed(jobs[id], m.sess)]
    IN  /\ Authorized(m) /\ m.kind = "next"
        /\ Unresolved(jobs, Node(m.proc)) = {}
        /\ id \in Oldest(jobs, Node(m.proc))
        /\ jobs' = next
        /\ \/ Save(next, revoked) /\ ReplyJob(m, id, next[id])
           \/ SaveFails(next, revoked) /\ ReplyRejected(m)
        /\ UNCHANGED <<up, revoked, results, bundles, workerFiles, history>>

(* /v1/result that changes nothing: an exact retry is acknowledged, a      *)
(* result for another assignment or a conflicting one is rejected.         *)
Deliverable(m) ==
    /\ Assigned(jobs, m.id, Node(m.proc), m.sess)
    /\ Accepts(jobs[m.id], m.result)

ResultAnswered(m) ==
    /\ Authorized(m) /\ m.kind = "result"
    /\ ~Deliverable(m)
    /\ IF /\ Assigned(jobs, m.id, Node(m.proc), m.sess)
          /\ Repeats(jobs[m.id], m.result)
       THEN ReplyDone(m) ELSE ReplyRejected(m)
    /\ UNCHANGED <<brokerVars, brokerFiles, workerFiles, faults, history>>

(* Mutation of StoreResult: the payload is left for later.                 *)
StoreResultLater(id, result) ==
    results[id] \in {None, result} /\ UNCHANGED results

(* storeResult: the payload file is immutable.                             *)
StoreResult(id, result) ==
    /\ results[id] \in {None, result}
    /\ results' = [results EXCEPT ![id] = result]

(* /v1/result, first delivery: payload file, then metadata, then reply.    *)
ResultStored(m) ==
    LET next == [jobs EXCEPT ![m.id] = Completed(jobs[m.id], m.result)]
    IN  /\ Authorized(m) /\ m.kind = "result"
        /\ Deliverable(m)
        /\ StoreResult(m.id, m.result)
        /\ jobs' = next
        /\ \/ Save(next, revoked) /\ ReplyDone(m)
           \/ SaveFails(next, revoked) /\ ReplyRejected(m)
        /\ UNCHANGED <<up, revoked, bundles, workerFiles, history>>

(* storeResult fails, or finds another payload: the broker is poisoned.    *)
StoreResultFails(m) ==
    /\ Authorized(m) /\ m.kind = "result"
    /\ Deliverable(m)
    /\ IF results[m.id] \in {None, m.result}
       THEN Fault /\ results' \in {results, [results EXCEPT ![m.id] = m.result]}
       ELSE UNCHANGED <<results, faults>>
    /\ poisoned' = TRUE
    /\ ReplyRejected(m)
    /\ UNCHANGED <<up, jobs, revoked, diskJobs, diskRevoked, bundles,
                   workerFiles, history>>

(* A stopped broker refuses the connection, a poisoned one answers 503;    *)
(* a request whose caller is gone may also simply be lost.                 *)
Drop(m) ==
    /\ m \in net
    /\ ~Serving \/ ~Waiting(m)
    /\ net' = net \ {m}
    /\ UNCHANGED <<brokerVars, brokerFiles, workerVars, workerFiles, faults,
                   history>>

-----------------------------------------------------------------------------
(* The worker process, RunWorker.                                          *)

(* Secret: 256 random bits, equal to no session anything still mentions.   *)
Fresh(s) ==
    /\ \A p \in Procs : sess[p] # s /\ snap[p].session # s
    /\ \A id \in JobIds : /\ jobs[id].session # s /\ diskJobs[id].session # s
                          /\ \A r \in Roots : journal[r][id].session # s
    /\ \A m \in net : m.sess # s

(* Mutation of StartWorker: the directory's lock is not tried.             *)
StartWorkerUnlocked(p, s) ==
    /\ pc[p] = "off"
    /\ Fresh(s)
    /\ pc' = [pc EXCEPT ![p] = "idle"]
    /\ sess' = [sess EXCEPT ![p] = s]
    /\ lock' = [lock EXCEPT ![RootOf[p]] = p]
    /\ sroot' = [sroot EXCEPT ![s] = RootOf[p]]
    /\ UNCHANGED <<brokerVars, brokerFiles, cur, snap, out, tries, workerFiles,
                   net, faults, runs>>

(* A new process takes the directory's lock and a fresh session.           *)
StartWorker(p, s) ==
    /\ pc[p] = "off"
    /\ lock[RootOf[p]] = None
    /\ Fresh(s)
    /\ pc' = [pc EXCEPT ![p] = "idle"]
    /\ sess' = [sess EXCEPT ![p] = s]
    /\ lock' = [lock EXCEPT ![RootOf[p]] = p]
    /\ sroot' = [sroot EXCEPT ![s] = RootOf[p]]
    /\ UNCHANGED <<brokerVars, brokerFiles, cur, snap, out, tries, workerFiles,
                   net, faults, runs>>

Poll(p) ==
    /\ pc[p] = "idle"
    /\ pc' = [pc EXCEPT ![p] = "ask"]
    /\ tries' = [tries EXCEPT ![p] = 1]
    /\ net' = net \cup {NextRequest(p, 1)}
    /\ UNCHANGED <<brokerVars, brokerFiles, sess, cur, snap, out, lock,
                   workerFiles, faults, history>>

(* No answer: the request was dropped, or (a fault) the call timed out and *)
(* the request is still on its way.                                        *)
NoAnswer(p) ==
    /\ pc[p] \in {"ask", "send"}
    /\ IF CurrentRequest(p, tries[p]) \in net THEN Fault ELSE UNCHANGED faults

(* Mutation of Retry: one attempt more than the budget.                    *)
RetryOnceMore(p) ==
    /\ NoAnswer(p)
    /\ tries[p] <= MaxTries
    /\ tries' = [tries EXCEPT ![p] = tries[p] + 1]
    /\ net' = net \cup {CurrentRequest(p, tries[p] + 1)}
    /\ UNCHANGED <<brokerVars, brokerFiles, pc, sess, cur, snap, out, lock,
                   workerFiles, history>>

(* retryCall: one more attempt while the budget lasts, then RunWorker      *)
(* returns the error.                                                      *)
Retry(p) ==
    /\ NoAnswer(p)
    /\ tries[p] < MaxTries
    /\ tries' = [tries EXCEPT ![p] = tries[p] + 1]
    /\ net' = net \cup {CurrentRequest(p, tries[p] + 1)}
    /\ UNCHANGED <<brokerVars, brokerFiles, pc, sess, cur, snap, out, lock,
                   workerFiles, history>>

GiveUp(p) ==
    /\ NoAnswer(p)
    /\ tries[p] = MaxTries
    /\ Exit(p)
    /\ UNCHANGED <<brokerVars, brokerFiles, workerFiles, net, history>>

(* The journal of the assignment the worker was handed.                    *)
Journal(p) == journal[RootOf[p]][cur[p]]
Journaled(p) == Journal(p).job # None

(* Mutation of MustStop: any session may take over an assignment that has  *)
(* no journal here.                                                        *)
MustStopOnMismatchOnly(p) ==
    \/ snap[p].status = "unknown" /\ snap[p].resultHash # None
    \/ /\ Journaled(p)
       /\ Journal(p).job # snap[p].sub \/ Journal(p).session # snap[p].session

(* The worker refuses an assignment it cannot reconcile: settled as        *)
(* unknown, or owned by a session this directory has no journal of.        *)
MustStop(p) ==
    \/ snap[p].status = "unknown" /\ snap[p].resultHash # None
    \/ /\ Journaled(p)
       /\ Journal(p).job # snap[p].sub \/ Journal(p).session # snap[p].session
    \/ ~Journaled(p) /\ snap[p].session # sess[p]

Refuse(p) ==
    /\ pc[p] = "got"
    /\ MustStop(p)
    /\ Exit(p)
    /\ UNCHANGED <<brokerVars, brokerFiles, workerFiles, net, faults, history>>

(* Mutation of Reconcile: a journaled result is reported as interrupted.   *)
ReconcileForgetsResult(p) ==
    /\ pc[p] = "got"
    /\ ~MustStop(p)
    /\ Journaled(p) \/ snap[p].status = "unknown"
    /\ out' = [out EXCEPT ![p] = InterruptedResult]
    /\ pc' = [pc EXCEPT ![p] = "ran"]
    /\ UNCHANGED <<brokerVars, brokerFiles, sess, cur, snap, tries, lock,
                   workerFiles, net, faults, history>>

(* A journaled result is reported again; work that may have run without    *)
(* leaving a result is reported unknown.  Neither is executed.             *)
Reconcile(p) ==
    /\ pc[p] = "got"
    /\ ~MustStop(p)
    /\ Journaled(p) \/ snap[p].status = "unknown"
    /\ out' = [out EXCEPT ![p] = IF Journal(p).result # None
                                 THEN Journal(p).result ELSE InterruptedResult]
    /\ pc' = [pc EXCEPT ![p] = "ran"]
    /\ UNCHANGED <<brokerVars, brokerFiles, sess, cur, snap, tries, lock,
                   workerFiles, net, faults, history>>

JournalEntry(p, result) ==
    [job |-> snap[p].sub, session |-> snap[p].session, result |-> result]

(* The intent is on disk before anything of the job is looked at.          *)
Intend(p) ==
    /\ pc[p] = "got"
    /\ ~MustStop(p)
    /\ ~Journaled(p) /\ snap[p].status # "unknown"
    /\ journal' = [journal EXCEPT ![RootOf[p]][cur[p]] = JournalEntry(p, None)]
    /\ pc' = [pc EXCEPT ![p] = "run"]
    /\ UNCHANGED <<brokerVars, brokerFiles, sess, cur, snap, out, tries, lock,
                   staged, net, faults, history>>

(* /v1/bundle: the delivered source, if the broker still assigns the job   *)
(* to this session.                                                        *)
CanFetch(p) ==
    /\ Serving /\ Node(p) \notin revoked
    /\ Assigned(jobs, cur[p], Node(p), snap[p].session)
    /\ bundles[cur[p]] = snap[p].sub.work

(* A result without execution: cancelled in time, profile not approved, or *)
(* a delivery that could not be fetched, verified or staged.               *)
Skip(p) ==
    /\ pc[p] = "run"
    /\ IF snap[p].cancelRequested
       THEN out' = [out EXCEPT ![p] = SkippedCancel] /\ UNCHANGED staged
       ELSE /\ snap[p].sub.work \notin Approved
            /\ out' = [out EXCEPT ![p] = SkippedFailure]
            /\ IF snap[p].sub.work \in Bundles /\ CanFetch(p)
               THEN staged' \in {staged, [staged EXCEPT ![RootOf[p]] = @ \cup {cur[p]}]}
               ELSE UNCHANGED staged
    /\ pc' = [pc EXCEPT ![p] = "ran"]
    /\ UNCHANGED <<brokerVars, brokerFiles, sess, cur, snap, tries, lock,
                   journal, net, faults, history>>

(* StageBundle creates a new directory for a delivery; then Execute starts *)
(* the workflow.                                                           *)
Execute(p) ==
    /\ pc[p] = "run"
    /\ ~snap[p].cancelRequested
    /\ \/ snap[p].sub.work \in Approved /\ UNCHANGED staged
       \/ /\ snap[p].sub.work \in Bundles
          /\ CanFetch(p)
          /\ cur[p] \notin staged[RootOf[p]]
          /\ staged' = [staged EXCEPT ![RootOf[p]] = @ \cup {cur[p]}]
    /\ pc' = [pc EXCEPT ![p] = "exec"]
    /\ runs' = [runs EXCEPT ![cur[p]] = @ + 1]
    /\ UNCHANGED <<brokerVars, brokerFiles, sess, cur, snap, out, tries, lock,
                   journal, net, faults, sroot>>

(* The workflow is over with result r.                                     *)
Ends(p, r) ==
    /\ pc[p] = "exec"
    /\ out' = [out EXCEPT ![p] = r]
    /\ pc' = [pc EXCEPT ![p] = "ran"]
    /\ UNCHANGED <<brokerVars, brokerFiles, sess, cur, snap, tries, lock,
                   workerFiles, net, history>>

Finish(p) == \E r \in WorkflowResults : Ends(p, r) /\ UNCHANGED faults

(* executeWithHeartbeat: a pulse that reports a cancel request, and one    *)
(* that fails; a pulse is not retried.                                     *)
PulseAnswered(p) ==
    /\ Serving /\ Node(p) \notin revoked
    /\ Assigned(jobs, cur[p], Node(p), snap[p].session)

PulseCancels(p) ==
    /\ Ends(p, CancelResult)
    /\ PulseAnswered(p) /\ jobs[cur[p]].cancelRequested
    /\ UNCHANGED faults

PulseFails(p) ==
    /\ Ends(p, HeartbeatResult)
    /\ IF PulseAnswered(p) THEN Fault ELSE UNCHANGED faults

(* The result is on disk before it is sent.                                *)
Record(p) ==
    /\ pc[p] = "ran"
    /\ journal' = [journal EXCEPT ![RootOf[p]][cur[p]] = JournalEntry(p, out[p])]
    /\ pc' = [pc EXCEPT ![p] = "send"]
    /\ tries' = [tries EXCEPT ![p] = 1]
    /\ net' = net \cup {ResultRequest(p, 1)}
    /\ UNCHANGED <<brokerVars, brokerFiles, sess, cur, snap, out, lock, staged,
                   faults, history>>

(* The worker's context is cancelled (SIGTERM) while a workflow runs: the  *)
(* workflow is killed, its result is journaled, and the delivery that      *)
(* follows returns at once.                                                *)
Shutdown(p) ==
    /\ pc[p] = "exec"
    /\ Fault
    /\ \E r \in ShutdownResults :
          journal' = [journal EXCEPT ![RootOf[p]][cur[p]] = JournalEntry(p, r)]
    /\ Exit(p)
    /\ UNCHANGED <<brokerVars, brokerFiles, staged, net, history>>

(* The worker process dies.  A failed journal write is this crash before   *)
(* or after the step that writes.                                          *)
WorkerCrash(p) ==
    /\ pc[p] # "off"
    /\ Fault
    /\ Exit(p)
    /\ UNCHANGED <<brokerVars, brokerFiles, workerFiles, net, history>>

-----------------------------------------------------------------------------
Operator ==
    \/ \E id \in JobIds, sub \in Submission, now \in Times : Submit(id, sub, now)
    \/ \E id \in JobIds, sub \in Submission : SubmitBundleFails(id, sub)
    \/ \E id \in JobIds : Cancel(id)
    \/ \E node \in Nodes : Revoke(node)

Answer(m) ==
    \/ Unauthorized(m)
    \/ \E id \in JobIds : NextUnresolved(m, id)
    \/ NextEmpty(m)
    \/ \E id \in JobIds : NextClaim(m, id)
    \/ ResultAnswered(m)
    \/ ResultStored(m)
    \/ StoreResultFails(m)
    \/ Drop(m)

Step(p) ==
    \/ Poll(p) \/ Retry(p) \/ GiveUp(p)
    \/ Refuse(p) \/ Reconcile(p) \/ Intend(p)
    \/ Skip(p) \/ Execute(p)
    \/ Finish(p) \/ PulseCancels(p) \/ PulseFails(p)
    \/ Record(p)
    \/ Shutdown(p) \/ WorkerCrash(p)

Next ==
    \/ Operator
    \/ BrokerCrash \/ NewBroker
    \/ \E m \in net : Answer(m)
    \/ \E p \in Procs, s \in Sessions : StartWorker(p, s)
    \/ \E p \in Procs : Step(p)

Spec == Init /\ [][Next]_vars

-----------------------------------------------------------------------------
(* Fairness.  RunWorker and the broker are threads that go on while they   *)
(* can, service managers restart a process that ended, and the broker      *)
(* takes a request whose caller is still waiting.  Faults, operator        *)
(* requests and the fate of abandoned requests are not fair.               *)
Fairness ==
    /\ WF_vars(NewBroker)
    /\ WF_vars(\E m \in net : Waiting(m) /\ Answer(m))
    /\ \A p \in Procs :
          /\ WF_vars(\E s \in Sessions : StartWorker(p, s))
          /\ WF_vars(Poll(p) \/ Retry(p) \/ GiveUp(p) \/ Refuse(p)
                     \/ Reconcile(p) \/ Intend(p) \/ Skip(p) \/ Execute(p)
                     \/ Finish(p) \/ Record(p))

FairSpec == Spec /\ Fairness

-----------------------------------------------------------------------------
(* Properties.                                                             *)

(* No sequence of crashes, restarts, timeouts, retries and late requests   *)
(* starts the workflow of a job twice: the session bound by Queue.Next and *)
(* the journaled intent of RunWorker together exclude it.                  *)
AtMostOnce == \A id \in JobIds : runs[id] <= 1

(* Whatever a broker that still answers holds in memory is in broker.json: *)
(* save failures poison it, so nothing it tells anyone is lost by a crash. *)
ServingIsDurable ==
    Serving => jobs = diskJobs /\ revoked = diskRevoked

(* Metadata never points at a payload that is missing or different: a      *)
(* result file precedes its digest (storeResult) and a bundle file the     *)
(* acceptance of its job (storeBundle), also across crashes in between.    *)
PayloadBeforeMetadata ==
    \A id \in JobIds :
        /\ diskJobs[id].resultHash # None => results[id] = diskJobs[id].resultHash
        /\ Exists(diskJobs, id) /\ diskJobs[id].sub.work \in Bundles
              => bundles[id] = diskJobs[id].sub.work

(* A result on its way, however late and however often repeated, is never  *)
(* refused by a broker that has not revoked the node: it is the first or   *)
(* an exact retry for the session the job is assigned to, and the payload  *)
(* file an interrupted delivery left behind does not conflict with it.     *)
DeliveryNeverConflicts ==
    \A m \in net :
        m.kind = "result" =>
            /\ Assigned(diskJobs, m.id, Node(m.proc), m.sess)
            /\ Repeats(diskJobs[m.id], m.result) \/ Accepts(diskJobs[m.id], m.result)
            /\ results[m.id] \in {None, m.result}

(* No worker reports a job cancelled at an operator's request unless that  *)
(* request is in broker.json: a cancellation the broker could not save, or *)
(* lost in a restart, never reaches a worker.                              *)
CancelWasRequested ==
    \A r \in Roots, id \in JobIds :
        journal[r][id].result \in {CancelResult, SkippedCancel} =>
            diskJobs[id].cancelRequested

(* An assignment is final: no crash, recovery, failed save, cancellation,  *)
(* revocation or result gives a claimed job to another session, returns it *)
(* to the queue or changes what it runs.                                   *)
OwnersKept ==
    \A id \in JobIds :
        diskJobs[id].session # None =>
            /\ diskJobs'[id].session = diskJobs[id].session
            /\ diskJobs'[id].sub = diskJobs[id].sub

OwnersAreFinal == [][OwnersKept]_vars

(* A result in a worker's journal is final: no later process of the same   *)
(* directory replaces it.                                                  *)
JournalIsFinal ==
    [][\A r \in Roots, id \in JobIds :
          journal[r][id].result # None => journal'[r][id] = journal[r][id]]_vars

(* The durable queue and the executions implement the operator's ledger.   *)
LedgerEntry(job) ==
    [phase |-> IF job.resultHash # None THEN "settled"
               ELSE CASE job.status \in {"absent", "queued"} -> job.status
                      [] job.status = "cancelled" -> "withdrawn"
                      [] OTHER -> "assigned",
     sub |-> job.sub, owner |-> job.session, outcome |-> job.resultHash]

Ledger == INSTANCE RemoteLedger
              WITH ledger <- [id \in JobIds |-> LedgerEntry(diskJobs[id])]

ImplementsLedger == Ledger!LedgerSpec

(* What the documentation says of an interrupted execution: it becomes     *)
(* unknown.  A worker that is shut down while a workflow runs stores       *)
(* another status.                                                         *)
InterruptedBecomesUnknown ==
    \A id \in JobIds :
        /\ diskJobs[id].resultHash # None
        /\ diskJobs[id].resultHash.cause \in {"interrupted", "shutdown"}
        => diskJobs[id].status = "unknown"

(* A node that gets no more work: its last job is settled as unknown, or   *)
(* is assigned to a session that has ended without a journal.              *)
Stuck(node) ==
    \E id \in Unresolved(diskJobs, node) :
        \/ diskJobs[id].resultHash # None
        \/ \A r \in Roots, p \in Procs :
              /\ journal[r][id].session # diskJobs[id].session
              /\ sess[p] # diskJobs[id].session

(* Once faults cease, every accepted job is settled or withdrawn, unless   *)
(* its node is revoked or stuck or the broker is poisoned: no combination  *)
(* of crashes and retries leaves a job waiting for any other reason.       *)
JobsSettle ==
    \A id \in JobIds :
        Exists(diskJobs, id) ~>
            \/ diskJobs[id].status \notin {"queued", "running", "unknown"}
            \/ diskJobs[id].resultHash # None
            \/ diskJobs[id].sub.node \in revoked
            \/ Stuck(diskJobs[id].sub.node)
            \/ poisoned

-----------------------------------------------------------------------------
(* The inductive invariant behind AtMostOnce.  Typing collects what the    *)
(* types of single variables do not say; Ownership is the argument.        *)

Holding == {"got", "run", "exec", "ran", "send"}

(* Queued jobs have no owner and no result, unresolved ones have an owner. *)
JobShape(q) ==
    \A id \in JobIds :
        /\ q[id].status = "queued" => q[id].session = None
        /\ q[id].status \in {"running", "unknown"} => q[id].session \in Sessions

ProcShape ==
    \A p \in Procs :
        /\ pc[p] # "off" => sess[p] \in Sessions
        /\ pc[p] \in Holding =>
              cur[p] \in JobIds /\ snap[p] \in Job /\ snap[p].session \in Sessions
        /\ pc[p] \in {"ran", "send"} => out[p] \in Result

NetShape ==
    \A m \in net : m.kind = "result" => m.id \in JobIds /\ m.result \in Result

BrokerTyping == BrokerTypeOK /\ JobShape(jobs)
BrokerFilesTyping == BrokerFilesTypeOK /\ JobShape(diskJobs)
WorkerTyping == WorkerTypeOK /\ ProcShape
NetTyping == net \in SUBSET Request /\ NetShape
FaultsTyping == faults \in 0..MaxFaults

Typing ==
    /\ BrokerTyping /\ BrokerFilesTyping
    /\ WorkerTyping /\ WorkerFilesTypeOK
    /\ NetTyping /\ FaultsTyping /\ HistoryTypeOK

(* A running process holds its directory's lock, its session was made for  *)
(* that directory, and no other process has it.                            *)
SessionsAreExclusive ==
    \A p \in Procs :
        pc[p] # "off" =>
            /\ lock[RootOf[p]] = p
            /\ sroot[sess[p]] = RootOf[p]
            /\ \A q \in Procs : sess[q] = sess[p] => q = p

(* An assignment a worker was told of is durable: broker.json names the    *)
(* same owner and submission, so no broker restart can give it away.       *)
AssignmentIsDurable ==
    \A p \in Procs :
        pc[p] \in Holding =>
            /\ diskJobs[cur[p]].session = snap[p].session
            /\ diskJobs[cur[p]].sub = snap[p].sub

(* Work that was started is journaled in the directory of the session that *)
(* owns the job; a process about to start is the owner, has journaled its  *)
(* intent, and nobody has started the job.                                 *)
StartsAreJournaled ==
    /\ \A id \in JobIds :
          runs[id] # 0 =>
              /\ runs[id] = 1
              /\ diskJobs[id].session \in Sessions
              /\ sroot[diskJobs[id].session] \in Roots
              /\ journal[sroot[diskJobs[id].session]][id].job # None
    /\ \A p \in Procs :
          /\ pc[p] \in {"run", "exec"} =>
                snap[p].session = sess[p] /\ Journal(p).job # None
          /\ pc[p] = "run" => runs[cur[p]] = 0

Ownership ==
    /\ ServingIsDurable
    /\ SessionsAreExclusive
    /\ AssignmentIsDurable
    /\ StartsAreJournaled

-----------------------------------------------------------------------------
(* The inductive invariant behind the ledger: what broker.json, the        *)
(* payload files, the journals, the processes and the messages say of one  *)
(* job agrees.                                                             *)

(* The stages of a job: before a claim, claimed, settled.                  *)
InOrder(job) ==
    /\ job.resultHash # None => job.status = job.resultHash.status
    /\ job.resultHash = None /\ job.session # None =>
          job.status \in {"running", "unknown"}
    /\ job.resultHash = None /\ job.session = None =>
          job.status \in {"absent", "queued", "cancelled"}

StagesAreOrdered == \A id \in JobIds : InOrder(diskJobs[id])

(* An outcome that may be reported of a job.                               *)
Honest(id, outcome) ==
    /\ outcome.cause \in Executed => runs[id] = 1
    /\ outcome.cause = "skipped" => runs[id] = 0
    /\ outcome \in {CancelResult, SkippedCancel} => diskJobs[id].cancelRequested

(* Only the directory of the owning session has an entry of a job.         *)
EntriesAreOwned ==
    \A r \in Roots, id \in JobIds :
        journal[r][id].job # None =>
            /\ journal[r][id].job = diskJobs[id].sub
            /\ journal[r][id].session = diskJobs[id].session
            /\ sroot[diskJobs[id].session] = r
            /\ diskJobs[id].sub.node = RootNode[r]
            /\ journal[r][id].result # None => Honest(id, journal[r][id].result)

(* A process works on a job of its node, and past "got" for a session of   *)
(* its directory; its result does not contradict the journal.              *)
Consistent(p) ==
    /\ snap[p].sub.node = Node(p)
    /\ snap[p].cancelRequested => diskJobs[cur[p]].cancelRequested
    /\ pc[p] # "got" => sroot[snap[p].session] = RootOf[p]
    /\ pc[p] \in {"run", "exec"} => Journal(p).result = None
    /\ pc[p] = "exec" => runs[cur[p]] = 1
    /\ pc[p] \in {"ran", "send"} =>
          Honest(cur[p], out[p]) /\ Journal(p).result \in {None, out[p]}
    /\ pc[p] = "send" => Journal(p).result = out[p]

ReportsAreOwn == \A p \in Procs : pc[p] \in Holding => Consistent(p)

(* What is sent or stored as the result of a job is what some worker has   *)
(* journaled.                                                              *)
ResultsAreJournaled ==
    /\ \A m \in net :
          m.kind = "result" =>
              /\ journal[RootOf[m.proc]][m.id].result = m.result
              /\ journal[RootOf[m.proc]][m.id].session = m.sess
    /\ \A id \in JobIds :
          results[id] # None =>
              \E r \in Roots : journal[r][id].result = results[id]

Outcomes ==
    /\ StagesAreOrdered
    /\ PayloadBeforeMetadata
    /\ EntriesAreOwned
    /\ ReportsAreOwn
    /\ ResultsAreJournaled

=============================================================================
