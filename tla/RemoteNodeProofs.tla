-------------------------- MODULE RemoteNodeProofs --------------------------
(***************************************************************************)
(* Proofs about RemoteNode for every set of jobs, nodes, sessions, worker  *)
(* directories and processes, every retry budget and every number of       *)
(* faults.                                                                 *)
(***************************************************************************)
EXTENDS RemoteNode, TLAPS

(* The queue transitions of the remote contract produce jobs, keep the     *)
(* submission, and touch status and session as their callers expect.       *)
LEMMA SubmittedJob ==
    ASSUME NEW sub \in Submission, NEW now \in Times
    PROVE  /\ Submitted(sub, now) \in Job
           /\ Submitted(sub, now).status = "queued"
           /\ Submitted(sub, now).session = None
           /\ Submitted(sub, now).sub = sub
BY DEF Submitted, Job, JobStatus, ResultStatus

LEMMA ClaimedJob ==
    ASSUME NEW job \in Job, NEW s \in Sessions
    PROVE  /\ Claimed(job, s) \in Job
           /\ Claimed(job, s).status = "running"
           /\ Claimed(job, s).session = s
           /\ Claimed(job, s).sub = job.sub
           /\ Claimed(job, s).resultHash = job.resultHash
BY DEF Claimed, Job, JobStatus, ResultStatus

LEMMA CancelledJob ==
    ASSUME NEW job \in Job
    PROVE  /\ Cancelled(job) \in Job
           /\ Cancelled(job).status # "queued"
           /\ Cancelled(job).status \in {"running", "unknown"} =>
                  job.status = Cancelled(job).status
           /\ Cancelled(job).session = job.session
           /\ Cancelled(job).sub = job.sub
BY DEF Cancelled, Job, JobStatus, ResultStatus

LEMMA CompletedJob ==
    ASSUME NEW job \in Job, NEW r \in Result
    PROVE  /\ Completed(job, r) \in Job
           /\ Completed(job, r).status # "queued"
           /\ Completed(job, r).session = job.session
           /\ Completed(job, r).sub = job.sub
           /\ Completed(job, r).resultHash = r
BY DEF Completed, Job, JobStatus, ResultStatus, Result

LEMMA RecoveredJob ==
    ASSUME NEW job \in Job \cup {NoJob}
    PROVE  /\ Recover(job) \in Job \cup {NoJob}
           /\ Recover(job).status = "queued" <=> job.status = "queued"
           /\ Recover(job).status \in {"running", "unknown"} =>
                  job.status \in {"running", "unknown"}
           /\ Recover(job).session = job.session
           /\ Recover(job).sub = job.sub
BY DEF Recover, Job, JobStatus, ResultStatus, NoJob

LEMMA QueueEntry ==
    ASSUME NEW q \in Queue, NEW id \in JobIds, q[id].status # "absent"
    PROVE  q[id] \in Job
BY DEF Queue, NoJob

LEMMA BrokerSame ==
    ASSUME BrokerTyping, UNCHANGED brokerVars PROVE BrokerTyping'
BY DEF brokerVars, BrokerTyping, BrokerTypeOK, JobShape
LEMMA BrokerFilesSame ==
    ASSUME BrokerFilesTyping, UNCHANGED brokerFiles PROVE BrokerFilesTyping'
BY DEF brokerFiles, BrokerFilesTyping, BrokerFilesTypeOK, JobShape
LEMMA WorkerSame ==
    ASSUME WorkerTyping, UNCHANGED workerVars PROVE WorkerTyping'
BY DEF workerVars, WorkerTyping, WorkerTypeOK, ProcShape
LEMMA WorkerFilesSame ==
    ASSUME WorkerFilesTypeOK, UNCHANGED workerFiles PROVE WorkerFilesTypeOK'
BY DEF workerFiles, WorkerFilesTypeOK
LEMMA NetSame ==
    ASSUME NetTyping, UNCHANGED net PROVE NetTyping'
BY DEF NetTyping, NetShape
LEMMA HistorySame ==
    ASSUME HistoryTypeOK, UNCHANGED history PROVE HistoryTypeOK'
BY DEF HistoryTypeOK, history
LEMMA FaultTyping ==
    ASSUME FaultsTyping, Fault PROVE FaultsTyping'
BY NodeAssumption DEF Fault, FaultsTyping

LEMMA FaultsSame ==
    ASSUME FaultsTyping, UNCHANGED faults PROVE FaultsTyping'
BY DEF FaultsTyping

LEMMA ExitTyping ==
    ASSUME WorkerTyping, NEW p \in Procs, Exit(p) PROVE WorkerTyping'
<1> USE DEF WorkerTyping
<1>1. WorkerTypeOK'
  <2>1. pc' \in [Procs -> PC] /\ sess' \in [Procs -> Sessions \cup {None}]
    BY DEF WorkerTypeOK, Exit, PC
  <2>2. cur' \in [Procs -> JobIds \cup {None}] /\ snap' \in [Procs -> Job \cup {NoJob}]
    BY DEF WorkerTypeOK, Exit
  <2>3. out' \in [Procs -> Result \cup {None}] /\ tries' \in [Procs -> 0..MaxTries]
    BY NodeAssumption DEF WorkerTypeOK, Exit
  <2>4. lock' \in [Roots -> Procs \cup {None}]
    BY DEF WorkerTypeOK, Exit
  <2> QED BY <2>1, <2>2, <2>3, <2>4 DEF WorkerTypeOK
<1>2. ProcShape'
  BY DEF ProcShape, WorkerTypeOK, Exit, Holding
<1> QED
  BY <1>1, <1>2

LEMMA TypingBrokerCrash ==
    ASSUME Typing, BrokerCrash PROVE Typing'
<1>1. BrokerTyping'
  BY DEF Typing, BrokerTyping, BrokerTypeOK, JobShape, BrokerCrash
<1> QED
  BY <1>1, BrokerFilesSame, WorkerSame, WorkerFilesSame, NetSame, HistorySame, FaultTyping DEF Typing, BrokerCrash

LEMMA TypingNewBroker ==
    ASSUME Typing, NewBroker PROVE Typing'
<1> DEFINE rec == [id \in JobIds |-> Recover(diskJobs[id])]
<1>0. BrokerTyping /\ BrokerFilesTyping BY DEF Typing
<1>1. rec \in Queue /\ JobShape(rec)
  BY <1>0, RecoveredJob DEF BrokerFilesTyping, BrokerFilesTypeOK, Queue, JobShape
<1> HIDE DEF rec
<1>2. BrokerTyping'
  BY <1>0, <1>1 DEF BrokerTyping, BrokerTypeOK, BrokerFilesTyping, BrokerFilesTypeOK, JobShape, NewBroker, rec
<1>3. BrokerFilesTyping'
  BY <1>0, <1>1 DEF BrokerFilesTyping, BrokerFilesTypeOK, JobShape, NewBroker, rec
<1> QED
  BY <1>2, <1>3, WorkerSame, WorkerFilesSame, NetSame, HistorySame, FaultTyping, FaultsSame DEF Typing, NewBroker

LEMMA ReplyWithTyping ==
    ASSUME WorkerTyping, NEW m \in Request,
           NEW next, NEW id, NEW job, ReplyWith(m, next, id, job),
           \/ next = "idle" /\ id = None /\ job = NoJob
           \/ next = "got" /\ id \in JobIds /\ job \in Job /\ job.session \in Sessions
    PROVE  WorkerTyping'
<1> USE DEF WorkerTyping
<1>1. CASE ~Waiting(m)
  BY <1>1, WorkerSame DEF ReplyWith
<1>2. CASE Waiting(m)
  <2>0. m.proc \in Procs BY DEF Request
  <2>1. pc' \in [Procs -> PC] /\ sess' \in [Procs -> Sessions \cup {None}]
    BY <1>2 DEF WorkerTypeOK, ReplyWith, PC
  <2>2. cur' \in [Procs -> JobIds \cup {None}] /\ snap' \in [Procs -> Job \cup {NoJob}]
    BY <1>2 DEF WorkerTypeOK, ReplyWith
  <2>3. out' \in [Procs -> Result \cup {None}] /\ tries' \in [Procs -> 0..MaxTries]
    BY <1>2, NodeAssumption DEF WorkerTypeOK, ReplyWith
  <2>4. lock' \in [Roots -> Procs \cup {None}]
    BY <1>2 DEF WorkerTypeOK, ReplyWith
  <2>5. sess[m.proc] \in Sessions
    BY <1>2, <2>0 DEF Waiting, ProcShape
  <2>6. ProcShape'
    BY <1>2, <2>0, <2>5 DEF ProcShape, WorkerTypeOK, ReplyWith, Holding
  <2> QED BY <2>1, <2>2, <2>3, <2>4, <2>6 DEF WorkerTypeOK
<1> QED BY <1>1, <1>2

LEMMA ReplyRejectedTyping ==
    ASSUME WorkerTyping, NEW m \in Request, ReplyRejected(m)
    PROVE  WorkerTyping'
<1>1. m.proc \in Procs BY DEF Request
<1> QED BY <1>1, ExitTyping, WorkerSame DEF ReplyRejected

LEMMA HandleTyping ==
    ASSUME NetTyping, NEW m, Handle(m)
    PROVE  NetTyping' /\ m \in Request
BY DEF NetTyping, NetShape, Handle

(* One job of a well-shaped queue is replaced by a well-shaped job.        *)
LEMMA UpdateShape ==
    ASSUME NEW q \in Queue, JobShape(q), NEW id \in JobIds, NEW job \in Job,
           job.status = "queued" => job.session = None,
           job.status \in {"running", "unknown"} => job.session \in Sessions
    PROVE  LET next == [q EXCEPT ![id] = job]
           IN  next \in Queue /\ JobShape(next)
BY DEF Queue, JobShape

(* Memory and disk after a save, whatever its outcome.                     *)
LEMMA SaveTyping ==
    ASSUME BrokerTyping, BrokerFilesTyping, FaultsTyping,
           NEW q \in Queue, JobShape(q), NEW rev \in SUBSET Nodes,
           Save(q, rev) \/ SaveFails(q, rev),
           jobs' = q, revoked' = rev, up' = up,
           results' \in [JobIds -> Result \cup {None}],
           bundles' \in [JobIds -> Bundles \cup {None}]
    PROVE  BrokerTyping' /\ BrokerFilesTyping' /\ FaultsTyping'
<1>1. BrokerTyping'
  BY DEF BrokerTyping, BrokerTypeOK, JobShape, Save, SaveFails
<1>2. BrokerFilesTyping'
  BY DEF BrokerFilesTyping, BrokerFilesTypeOK, JobShape, Save, SaveFails
<1>3. FaultsTyping'
  BY FaultTyping DEF FaultsTyping, Save, SaveFails
<1> QED BY <1>1, <1>2, <1>3

LEMMA StoreBundleTyping ==
    ASSUME BrokerFilesTyping, NEW id \in JobIds, NEW work, StoreBundle(id, work)
    PROVE  bundles' \in [JobIds -> Bundles \cup {None}]
BY DEF BrokerFilesTyping, BrokerFilesTypeOK, StoreBundle

LEMMA TypingOperator ==
    ASSUME Typing, Operator PROVE Typing'
<1> USE DEF Typing
<1>1. ASSUME NEW id \in JobIds, NEW sub \in Submission, NEW now \in Times,
             Submit(id, sub, now)
      PROVE  Typing'
  <2> DEFINE next == [jobs EXCEPT ![id] = Submitted(sub, now)]
  <2>1. next \in Queue /\ JobShape(next)
    BY SubmittedJob, UpdateShape DEF BrokerTyping, BrokerTypeOK
  <2>2. bundles' \in [JobIds -> Bundles \cup {None}]
    BY <1>1, StoreBundleTyping DEF Submit
  <2>3. results' \in [JobIds -> Result \cup {None}]
    BY <1>1 DEF Submit, BrokerFilesTyping, BrokerFilesTypeOK
  <2>4. revoked' \in SUBSET Nodes /\ revoked' = revoked
    BY <1>1 DEF Submit, BrokerTyping, BrokerTypeOK
  <2>5. jobs' = next /\ up' = up /\ (Save(next, revoked) \/ SaveFails(next, revoked))
    BY <1>1 DEF Submit
  <2> HIDE DEF next
  <2>6. BrokerTyping' /\ BrokerFilesTyping' /\ FaultsTyping'
    BY <2>1, <2>2, <2>3, <2>4, <2>5, SaveTyping
  <2> QED BY <1>1, <2>6, WorkerSame, WorkerFilesSame, NetSame, HistorySame DEF Submit
<1>2. ASSUME NEW id \in JobIds, NEW sub \in Submission, SubmitBundleFails(id, sub)
      PROVE  Typing'
  <2>1. BrokerFilesTyping'
    BY <1>2, StoreBundleTyping DEF SubmitBundleFails, BrokerFilesTyping, BrokerFilesTypeOK, JobShape
  <2> QED BY <1>2, <2>1, BrokerSame, WorkerSame, WorkerFilesSame, NetSame, HistorySame, FaultTyping DEF SubmitBundleFails
<1>3. ASSUME NEW id \in JobIds, Cancel(id) PROVE Typing'
  <2> DEFINE next == [jobs EXCEPT ![id] = Cancelled(jobs[id])]
  <2>0. jobs \in Queue /\ jobs[id] \in Job
    BY <1>3, QueueEntry DEF BrokerTyping, BrokerTypeOK, Cancel, Exists
  <2>1. next \in Queue /\ JobShape(next)
    BY <2>0, CancelledJob, UpdateShape DEF BrokerTyping, JobShape
  <2>2. /\ results' \in [JobIds -> Result \cup {None}]
        /\ bundles' \in [JobIds -> Bundles \cup {None}]
        /\ revoked' \in SUBSET Nodes /\ revoked' = revoked
    BY <1>3 DEF Cancel, BrokerFilesTyping, BrokerFilesTypeOK, BrokerTyping, BrokerTypeOK
  <2>3. jobs' = next /\ up' = up /\ (Save(next, revoked) \/ SaveFails(next, revoked))
    BY <1>3 DEF Cancel
  <2> HIDE DEF next
  <2>4. BrokerTyping' /\ BrokerFilesTyping' /\ FaultsTyping'
    BY <2>1, <2>2, <2>3, SaveTyping
  <2> QED BY <1>3, <2>4, WorkerSame, WorkerFilesSame, NetSame, HistorySame DEF Cancel
<1>4. ASSUME NEW node \in Nodes, Revoke(node) PROVE Typing'
  <2>1. /\ results' \in [JobIds -> Result \cup {None}]
        /\ bundles' \in [JobIds -> Bundles \cup {None}]
        /\ revoked' \in SUBSET Nodes
        /\ jobs \in Queue /\ JobShape(jobs)
    BY <1>4 DEF Revoke, BrokerFilesTyping, BrokerFilesTypeOK, BrokerTyping, BrokerTypeOK
  <2>2. jobs' = jobs /\ up' = up /\ (Save(jobs, revoked') \/ SaveFails(jobs, revoked'))
    BY <1>4 DEF Revoke, Save, SaveFails
  <2>3. BrokerTyping' /\ BrokerFilesTyping' /\ FaultsTyping'
    BY <2>1, <2>2, SaveTyping
  <2> QED BY <1>4, <2>3, WorkerSame, WorkerFilesSame, NetSame, HistorySame DEF Revoke
<1> QED BY <1>1, <1>2, <1>3, <1>4 DEF Operator

LEMMA TypingAnswer ==
    ASSUME Typing, NEW m \in net, Answer(m) PROVE Typing'
<1> USE DEF Typing
<1>0. m \in Request BY DEF NetTyping
<1>1. CASE Unauthorized(m)
  BY <1>0, <1>1, BrokerSame, BrokerFilesSame, ReplyRejectedTyping, WorkerFilesSame,
     HandleTyping, FaultsSame, HistorySame DEF Unauthorized
<1>2. ASSUME NEW id \in JobIds, NextUnresolved(m, id) PROVE Typing'
  <2>1. jobs[id] \in Job /\ jobs[id].session \in Sessions
    BY <1>2, QueueEntry DEF NextUnresolved, Unresolved, BrokerTyping, BrokerTypeOK, JobShape
  <2>2. WorkerTyping'
    BY <1>0, <1>2, <2>1, ReplyWithTyping, ReplyRejectedTyping DEF NextUnresolved, ReplyJob
  <2> QED BY <1>2, <2>2, BrokerSame, BrokerFilesSame, WorkerFilesSame, HandleTyping,
             FaultsSame, HistorySame DEF NextUnresolved, Authorized
<1>3. CASE NextEmpty(m)
  <2>1. WorkerTyping'
    BY <1>0, <1>3, ReplyWithTyping DEF NextEmpty, ReplyDone
  <2> QED BY <1>3, <2>1, BrokerSame, BrokerFilesSame, WorkerFilesSame, HandleTyping,
             FaultsSame, HistorySame DEF NextEmpty, Authorized
<1>4. ASSUME NEW id \in JobIds, NextClaim(m, id) PROVE Typing'
  <2> DEFINE next == [jobs EXCEPT ![id] = Claimed(jobs[id], m.sess)]
  <2>0. jobs \in Queue /\ jobs[id] \in Job /\ m.sess \in Sessions
    BY <1>0, <1>4, QueueEntry DEF BrokerTyping, BrokerTypeOK, NextClaim, Oldest, Queued, Request
  <2>1. next \in Queue /\ JobShape(next) /\ next[id] \in Job /\ next[id].session \in Sessions
    BY <2>0, ClaimedJob, UpdateShape DEF BrokerTyping, Queue
  <2>2. /\ results' \in [JobIds -> Result \cup {None}]
        /\ bundles' \in [JobIds -> Bundles \cup {None}]
        /\ revoked' \in SUBSET Nodes /\ revoked' = revoked
    BY <1>4 DEF NextClaim, BrokerFilesTyping, BrokerFilesTypeOK, BrokerTyping, BrokerTypeOK
  <2>3. /\ jobs' = next /\ up' = up
        /\ \/ Save(next, revoked) /\ ReplyJob(m, id, next[id])
           \/ SaveFails(next, revoked) /\ ReplyRejected(m)
    BY <1>4 DEF NextClaim
  <2> HIDE DEF next
  <2>4. BrokerTyping' /\ BrokerFilesTyping' /\ FaultsTyping'
    BY <2>1, <2>2, <2>3, SaveTyping
  <2>5. WorkerTyping'
    BY <1>0, <2>1, <2>3, ReplyWithTyping, ReplyRejectedTyping DEF ReplyJob
  <2> QED BY <1>4, <2>4, <2>5, WorkerFilesSame, HandleTyping, HistorySame DEF NextClaim, Authorized
<1>5. CASE ResultAnswered(m)
  <2>1. WorkerTyping'
    BY <1>0, <1>5, ReplyWithTyping, ReplyRejectedTyping DEF ResultAnswered, ReplyDone
  <2> QED BY <1>5, <2>1, BrokerSame, BrokerFilesSame, WorkerFilesSame, HandleTyping,
             FaultsSame, HistorySame DEF ResultAnswered, Authorized
<1>6. CASE ResultStored(m)
  <2> DEFINE next == [jobs EXCEPT ![m.id] = Completed(jobs[m.id], m.result)]
  <2>0. m.id \in JobIds /\ m.result \in Result
    BY <1>6 DEF ResultStored, NetTyping, NetShape
  <2>1. jobs \in Queue /\ jobs[m.id] \in Job /\ jobs[m.id].session \in Sessions
    BY <1>6, <2>0, QueueEntry DEF BrokerTyping, BrokerTypeOK, JobShape, ResultStored, Deliverable, Accepts
  <2>2. next \in Queue /\ JobShape(next)
    BY <2>0, <2>1, CompletedJob, UpdateShape DEF BrokerTyping
  <2>3. /\ results' \in [JobIds -> Result \cup {None}]
        /\ bundles' \in [JobIds -> Bundles \cup {None}]
        /\ revoked' \in SUBSET Nodes /\ revoked' = revoked
    BY <1>6, <2>0 DEF ResultStored, StoreResult, BrokerFilesTyping, BrokerFilesTypeOK, BrokerTyping, BrokerTypeOK
  <2>4. /\ jobs' = next /\ up' = up
        /\ \/ Save(next, revoked) /\ ReplyDone(m)
           \/ SaveFails(next, revoked) /\ ReplyRejected(m)
    BY <1>6 DEF ResultStored
  <2> HIDE DEF next
  <2>5. BrokerTyping' /\ BrokerFilesTyping' /\ FaultsTyping'
    BY <2>2, <2>3, <2>4, SaveTyping
  <2>6. WorkerTyping'
    BY <1>0, <2>4, ReplyWithTyping, ReplyRejectedTyping DEF ReplyDone
  <2> QED BY <1>6, <2>5, <2>6, WorkerFilesSame, HandleTyping, HistorySame DEF ResultStored, Authorized
<1>7. CASE StoreResultFails(m)
  <2>0. m.id \in JobIds /\ m.result \in Result
    BY <1>7 DEF StoreResultFails, NetTyping, NetShape
  <2>1. BrokerTyping'
    BY <1>7 DEF StoreResultFails, BrokerTyping, BrokerTypeOK, JobShape
  <2>2. BrokerFilesTyping'
    BY <1>7, <2>0 DEF StoreResultFails, BrokerFilesTyping, BrokerFilesTypeOK, JobShape
  <2>3. FaultsTyping'
    BY <1>7, FaultTyping, FaultsSame DEF StoreResultFails
  <2>4. WorkerTyping'
    BY <1>0, <1>7, ReplyRejectedTyping DEF StoreResultFails
  <2> QED BY <1>7, <2>1, <2>2, <2>3, <2>4, WorkerFilesSame, HandleTyping, HistorySame DEF StoreResultFails, Authorized
<1>8. CASE Drop(m)
  <2>1. NetTyping' BY <1>8 DEF Drop, NetTyping, NetShape
  <2> QED BY <1>8, <2>1, BrokerSame, BrokerFilesSame, WorkerSame, WorkerFilesSame, FaultsSame, HistorySame DEF Drop
<1> QED BY <1>1, <1>2, <1>3, <1>4, <1>5, <1>6, <1>7, <1>8 DEF Answer

LEMMA TypingStartWorker ==
    ASSUME Typing, NEW p \in Procs, NEW s \in Sessions, StartWorker(p, s)
    PROVE  Typing'
<1> USE DEF Typing
<1>1. WorkerTypeOK'
  BY NodeAssumption DEF StartWorker, WorkerTyping, WorkerTypeOK, PC
<1>2. ProcShape'
  BY DEF StartWorker, WorkerTyping, WorkerTypeOK, ProcShape, Holding
<1>3. HistoryTypeOK'
  BY NodeAssumption DEF StartWorker, HistoryTypeOK
<1> QED
  BY <1>1, <1>2, <1>3, BrokerSame, BrokerFilesSame, WorkerFilesSame, NetSame,
     FaultsSame DEF StartWorker, WorkerTyping

(* A request of a process that holds a session, or an assignment and a     *)
(* result, is well formed.                                                 *)
LEMMA RequestTyping ==
    ASSUME WorkerTyping, NEW p \in Procs, NEW try \in 1..MaxTries
    PROVE  /\ pc[p] # "off" => NextRequest(p, try) \in Request
           /\ pc[p] \in {"ran", "send"} => ResultRequest(p, try) \in Request
BY DEF WorkerTyping, WorkerTypeOK, ProcShape, NextRequest, ResultRequest, Request, Holding

LEMMA SendTyping ==
    ASSUME NetTyping, NEW m \in Request,
           m.kind = "result" => m.id \in JobIds /\ m.result \in Result,
           net' = net \cup {m}
    PROVE  NetTyping'
BY DEF NetTyping, NetShape

LEMMA JournalTyping ==
    ASSUME WorkerTyping, WorkerFilesTypeOK, NEW p \in Procs, pc[p] \in Holding,
           NEW r \in Result \cup {None},
           journal' = [journal EXCEPT ![RootOf[p]][cur[p]] = JournalEntry(p, r)]
    PROVE  journal' \in [Roots -> [JobIds -> Entry \cup {NoEntry}]]
<1>1. JournalEntry(p, r) \in Entry
  BY DEF WorkerTyping, ProcShape, JournalEntry, Entry, Job
<1>2. RootOf[p] \in Roots /\ cur[p] \in JobIds
  BY NodeAssumption DEF WorkerTyping, ProcShape
<1> QED BY <1>1, <1>2 DEF WorkerFilesTypeOK

(* A process that keeps its session, assignment and lock moves to another  *)
(* program point, with a result where that point needs one.                *)
LEMMA MoveTyping ==
    ASSUME WorkerTyping, NEW p \in Procs, pc[p] # "off",
           NEW next \in PC \ {"off"}, NEW r \in Result \cup {None}, NEW try \in 0..MaxTries,
           pc' = [pc EXCEPT ![p] = next],
           out' = [out EXCEPT ![p] = r],
           tries' = [tries EXCEPT ![p] = try],
           UNCHANGED <<sess, cur, snap, lock>>,
           next \in Holding => pc[p] \in Holding,
           next \in {"ran", "send"} => r \in Result
    PROVE  WorkerTyping'
<1> USE DEF WorkerTyping
<1>1. WorkerTypeOK'
  BY DEF WorkerTypeOK
<1>2. ProcShape'
  BY DEF ProcShape, WorkerTypeOK, Holding
<1> QED BY <1>1, <1>2

LEMMA TypingStep ==
    ASSUME Typing, NEW p \in Procs, Step(p) PROVE Typing'
<1> USE DEF Typing
<1>0. /\ pc[p] \in PC /\ tries[p] \in 0..MaxTries /\ out[p] \in Result \cup {None}
      /\ out = [out EXCEPT ![p] = out[p]] /\ tries = [tries EXCEPT ![p] = tries[p]]
      /\ 1 \in 0..MaxTries /\ 1 \in 1..MaxTries
  BY NodeAssumption DEF WorkerTyping, WorkerTypeOK
<1>1. CASE Poll(p)
  <2>1. WorkerTyping'
    BY <1>0, <1>1, MoveTyping DEF Poll, PC, Holding
  <2>2. NetTyping'
    BY <1>0, <1>1, RequestTyping, SendTyping DEF Poll, NextRequest
  <2> QED BY <1>1, <2>1, <2>2, BrokerSame, BrokerFilesSame, WorkerFilesSame, FaultsSame, HistorySame DEF Poll
<1>2. CASE Retry(p)
  <2>0. pc[p] \in {"ask", "send"} /\ tries[p] + 1 \in 1..MaxTries /\ tries[p] + 1 \in 0..MaxTries
    BY <1>0, <1>2, NodeAssumption DEF Retry, NoAnswer
  <2>1. WorkerTyping'
    <3>1. WorkerTypeOK'
      BY <1>2, <2>0 DEF Retry, WorkerTyping, WorkerTypeOK
    <3>2. ProcShape'
      BY <1>2 DEF Retry, WorkerTyping, ProcShape
    <3> QED BY <3>1, <3>2 DEF WorkerTyping
  <2>2. cur[p] \in JobIds \cup {None} /\ (pc[p] = "send" => cur[p] \in JobIds /\ out[p] \in Result)
    BY DEF WorkerTyping, WorkerTypeOK, ProcShape, Holding
  <2>3. NetTyping'
    BY <1>2, <2>0, <2>2, RequestTyping, SendTyping DEF Retry, CurrentRequest, NextRequest, ResultRequest
  <2>4. FaultsTyping'
    BY <1>2, FaultTyping, FaultsSame DEF Retry, NoAnswer
  <2> QED BY <1>2, <2>1, <2>3, <2>4, BrokerSame, BrokerFilesSame, WorkerFilesSame, HistorySame DEF Retry
<1>3. CASE GiveUp(p)
  BY <1>3, ExitTyping, FaultTyping, FaultsSame, BrokerSame, BrokerFilesSame, WorkerFilesSame,
     NetSame, HistorySame DEF GiveUp, NoAnswer
<1>4. CASE Refuse(p)
  BY <1>4, ExitTyping, FaultsSame, BrokerSame, BrokerFilesSame, WorkerFilesSame,
     NetSame, HistorySame DEF Refuse
<1>5. CASE Reconcile(p)
  <2>1. Journal(p).result \in Result \cup {None} /\ InterruptedResult \in Result
    <3>1. RootOf[p] \in Roots /\ cur[p] \in JobIds
      BY <1>5, NodeAssumption DEF Reconcile, WorkerTyping, ProcShape, Holding
    <3>2. Journal(p) \in Entry \cup {NoEntry}
      BY <3>1 DEF Journal, WorkerFilesTypeOK
    <3> QED BY <3>2 DEF Entry, NoEntry, InterruptedResult, Result, ResultStatus, Causes
  <2>2. WorkerTyping'
    BY <1>0, <1>5, <2>1, MoveTyping DEF Reconcile, PC, Holding
  <2> QED BY <1>5, <2>2, BrokerSame, BrokerFilesSame, WorkerFilesSame, NetSame, FaultsSame, HistorySame DEF Reconcile
<1>6. CASE Intend(p)
  <2>1. WorkerTyping'
    BY <1>0, <1>6, MoveTyping DEF Intend, PC, Holding
  <2>2. WorkerFilesTypeOK'
    BY <1>6, JournalTyping DEF Intend, WorkerFilesTypeOK, Holding
  <2> QED BY <1>6, <2>1, <2>2, BrokerSame, BrokerFilesSame, NetSame, FaultsSame, HistorySame DEF Intend
<1>7. CASE Skip(p)
  <2>1. SkippedCancel \in Result /\ SkippedFailure \in Result
    BY DEF SkippedCancel, SkippedFailure, Result, ResultStatus, Causes
  <2>2. WorkerTyping'
    BY <1>0, <1>7, <2>1, MoveTyping DEF Skip, PC, Holding
  <2>3. RootOf[p] \in Roots /\ cur[p] \in JobIds
    BY <1>7, NodeAssumption DEF Skip, WorkerTyping, ProcShape, Holding
  <2>4. WorkerFilesTypeOK'
    BY <1>7, <2>3 DEF Skip, WorkerFilesTypeOK
  <2> QED BY <1>7, <2>2, <2>4, BrokerSame, BrokerFilesSame, NetSame, FaultsSame, HistorySame DEF Skip
<1>8. CASE Execute(p)
  <2>1. WorkerTyping'
    BY <1>0, <1>8, MoveTyping DEF Execute, PC, Holding
  <2>2. RootOf[p] \in Roots /\ cur[p] \in JobIds
    BY <1>8, NodeAssumption DEF Execute, WorkerTyping, ProcShape, Holding
  <2>3. WorkerFilesTypeOK'
    BY <1>8, <2>2 DEF Execute, WorkerFilesTypeOK
  <2>4. HistoryTypeOK'
    BY <1>8, <2>2 DEF Execute, HistoryTypeOK
  <2> QED BY <1>8, <2>1, <2>3, <2>4, BrokerSame, BrokerFilesSame, NetSame, FaultsSame DEF Execute
<1>9. ASSUME NEW r \in Result, Ends(p, r), Fault \/ UNCHANGED faults PROVE Typing'
  <2>1. WorkerTyping'
    BY <1>0, <1>9, MoveTyping DEF Ends, PC, Holding
  <2> QED BY <1>9, <2>1, BrokerSame, BrokerFilesSame, WorkerFilesSame, NetSame, FaultTyping, FaultsSame, HistorySame DEF Ends
<1>10. CASE Finish(p) \/ PulseCancels(p) \/ PulseFails(p)
  <2>1. WorkflowResults \subseteq Result /\ CancelResult \in Result /\ HeartbeatResult \in Result
    BY DEF WorkflowResults, CancelResult, HeartbeatResult, Result, ResultStatus, Causes, Executed
  <2> QED BY <1>9, <1>10, <2>1 DEF Finish, PulseCancels, PulseFails
<1>11. CASE Record(p)
  <2>1. out[p] \in Result /\ cur[p] \in JobIds
    BY <1>11 DEF Record, WorkerTyping, ProcShape, Holding
  <2>2. WorkerTyping'
    BY <1>0, <1>11, <2>1, MoveTyping DEF Record, PC, Holding
  <2>3. WorkerFilesTypeOK'
    BY <1>11, <2>1, JournalTyping DEF Record, WorkerFilesTypeOK, Holding
  <2>4. NetTyping'
    BY <1>0, <1>11, <2>1, RequestTyping, SendTyping DEF Record, ResultRequest
  <2> QED BY <1>11, <2>2, <2>3, <2>4, BrokerSame, BrokerFilesSame, FaultsSame, HistorySame DEF Record
<1>12. CASE Shutdown(p)
  <2>1. ShutdownResults \subseteq Result
    BY DEF ShutdownResults, Result, ResultStatus, Causes, Executed
  <2>2. WorkerFilesTypeOK'
    BY <1>12, <2>1, JournalTyping DEF Shutdown, WorkerFilesTypeOK, Holding
  <2> QED BY <1>12, <2>2, ExitTyping, FaultTyping, BrokerSame, BrokerFilesSame, NetSame, HistorySame DEF Shutdown
<1>13. CASE WorkerCrash(p)
  BY <1>13, ExitTyping, FaultTyping, BrokerSame, BrokerFilesSame, WorkerFilesSame,
     NetSame, HistorySame DEF WorkerCrash
<1> QED BY <1>1, <1>2, <1>3, <1>4, <1>5, <1>6, <1>7, <1>8, <1>10, <1>11, <1>12, <1>13 DEF Step

LEMMA TypingInit == ASSUME Init PROVE Typing
<1>1. BrokerTyping /\ BrokerFilesTyping
  BY DEF Init, BrokerTyping, BrokerTypeOK, BrokerFilesTyping, BrokerFilesTypeOK, Queue, JobShape, NoJob
<1>2. WorkerTyping /\ WorkerFilesTypeOK
  BY NodeAssumption DEF Init, WorkerTyping, WorkerTypeOK, ProcShape, PC, Holding, WorkerFilesTypeOK
<1>3. NetTyping /\ FaultsTyping /\ HistoryTypeOK
  BY NodeAssumption DEF Init, NetTyping, NetShape, FaultsTyping, HistoryTypeOK
<1> QED BY <1>1, <1>2, <1>3 DEF Typing

LEMMA TypingNext == ASSUME Typing, [Next]_vars PROVE Typing'
<1>1. CASE Operator BY <1>1, TypingOperator
<1>2. CASE BrokerCrash BY <1>2, TypingBrokerCrash
<1>3. CASE NewBroker BY <1>3, TypingNewBroker
<1>4. CASE \E m \in net : Answer(m) BY <1>4, TypingAnswer
<1>5. CASE \E p \in Procs, s \in Sessions : StartWorker(p, s) BY <1>5, TypingStartWorker
<1>6. CASE \E p \in Procs : Step(p) BY <1>6, TypingStep
<1>7. CASE UNCHANGED vars
  BY <1>7, BrokerSame, BrokerFilesSame, WorkerSame, WorkerFilesSame, NetSame, FaultsSame,
     HistorySame DEF vars, Typing
<1> QED BY <1>1, <1>2, <1>3, <1>4, <1>5, <1>6, <1>7 DEF Next

(* Every reachable state is well typed: no handler writes a job, journal   *)
(* entry or request of another shape than the code's structs, and every    *)
(* unresolved job has an owner.                                            *)
THEOREM TypeCorrect == Spec => []TypeOK
<1>1. Init => Typing BY TypingInit
<1>2. Typing /\ [Next]_vars => Typing' BY TypingNext
<1>3. Typing => TypeOK
  BY DEF Typing, TypeOK, BrokerTyping, BrokerFilesTyping, WorkerTyping, NetTyping, FaultsTyping
<1> QED BY <1>1, <1>2, <1>3, PTL DEF Spec

-----------------------------------------------------------------------------
(* No step takes back that a journal entry exists.                         *)
EntriesKept ==
    \A r \in Roots, id \in JobIds :
        journal[r][id].job # None => journal'[r][id].job # None

(* A broker that serves has just read or saved its file, and any change it *)
(* publishes keeps the owners it had.                                      *)
LEMMA SaveKeeps ==
    ASSUME ServingIsDurable, Serving, NEW q, NEW rev,
           Save(q, rev) \/ SaveFails(q, rev), jobs' = q, revoked' = rev, up' = up,
           \A id \in JobIds : jobs[id].session # None =>
               q[id].session = jobs[id].session /\ q[id].sub = jobs[id].sub
    PROVE  OwnersKept /\ ServingIsDurable'
BY DEF ServingIsDurable, Serving, Save, SaveFails, OwnersKept

LEMMA DiskSame ==
    ASSUME ServingIsDurable,
           UNCHANGED <<up, poisoned, jobs, revoked, diskJobs, diskRevoked>>
    PROVE  OwnersKept /\ ServingIsDurable'
BY DEF ServingIsDurable, Serving, OwnersKept

LEMMA DurabilityOperator ==
    ASSUME Typing, ServingIsDurable, Operator
    PROVE  OwnersKept /\ ServingIsDurable'
<1>0. jobs \in Queue BY DEF Typing, BrokerTyping, BrokerTypeOK
<1>1. ASSUME NEW id \in JobIds, NEW sub \in Submission, NEW now \in Times,
             Submit(id, sub, now)
      PROVE  OwnersKept /\ ServingIsDurable'
  <2> DEFINE next == [jobs EXCEPT ![id] = Submitted(sub, now)]
  <2>1. jobs[id] = NoJob
    BY <1>0, <1>1 DEF Submit, Admits, Exists, Queue, Job, JobStatus, ResultStatus
  <2>2. \A i \in JobIds : jobs[i].session # None =>
            next[i].session = jobs[i].session /\ next[i].sub = jobs[i].sub
    BY <1>0, <2>1 DEF Queue, NoJob
  <2>3. /\ jobs' = next /\ up' = up /\ revoked' = revoked /\ Serving
        /\ Save(next, revoked) \/ SaveFails(next, revoked)
    BY <1>1 DEF Submit
  <2> HIDE DEF next
  <2> QED BY <2>2, <2>3, SaveKeeps
<1>2. ASSUME NEW id \in JobIds, NEW sub \in Submission, SubmitBundleFails(id, sub)
      PROVE  OwnersKept /\ ServingIsDurable'
  BY <1>2, DiskSame DEF SubmitBundleFails, brokerVars
<1>3. ASSUME NEW id \in JobIds, Cancel(id) PROVE OwnersKept /\ ServingIsDurable'
  <2> DEFINE next == [jobs EXCEPT ![id] = Cancelled(jobs[id])]
  <2>1. jobs[id] \in Job
    BY <1>0, <1>3, QueueEntry DEF Cancel, Exists
  <2>2. \A i \in JobIds : next[i].session = jobs[i].session /\ next[i].sub = jobs[i].sub
    BY <1>0, <2>1, CancelledJob DEF Queue
  <2>3. /\ jobs' = next /\ up' = up /\ revoked' = revoked /\ Serving
        /\ Save(next, revoked) \/ SaveFails(next, revoked)
    BY <1>3 DEF Cancel
  <2> HIDE DEF next
  <2> QED BY <2>2, <2>3, SaveKeeps
<1>4. ASSUME NEW node \in Nodes, Revoke(node) PROVE OwnersKept /\ ServingIsDurable'
  <2>1. /\ jobs' = jobs /\ up' = up /\ Serving
        /\ Save(jobs, revoked') \/ SaveFails(jobs, revoked')
    BY <1>4 DEF Revoke, Save, SaveFails
  <2> QED BY <2>1, SaveKeeps
<1> QED BY <1>1, <1>2, <1>3, <1>4 DEF Operator

LEMMA DurabilityAnswer ==
    ASSUME Typing, ServingIsDurable, NEW m \in net, Answer(m)
    PROVE  OwnersKept /\ ServingIsDurable'
<1>0. jobs \in Queue /\ JobShape(jobs) /\ m \in Request
  BY DEF Typing, BrokerTyping, BrokerTypeOK, NetTyping
<1>1. CASE Unauthorized(m)
  BY <1>1, DiskSame DEF Unauthorized, brokerVars, brokerFiles
<1>2. ASSUME NEW id \in JobIds, NextUnresolved(m, id) PROVE OwnersKept /\ ServingIsDurable'
  BY <1>2, DiskSame DEF NextUnresolved, brokerVars, brokerFiles
<1>3. CASE NextEmpty(m)
  BY <1>3, DiskSame DEF NextEmpty, brokerVars, brokerFiles
<1>4. ASSUME NEW id \in JobIds, NextClaim(m, id) PROVE OwnersKept /\ ServingIsDurable'
  <2> DEFINE next == [jobs EXCEPT ![id] = Claimed(jobs[id], m.sess)]
  <2>1. jobs[id].session = None
    BY <1>0, <1>4 DEF NextClaim, Oldest, Queued, JobShape
  <2>2. \A i \in JobIds : jobs[i].session # None =>
            next[i].session = jobs[i].session /\ next[i].sub = jobs[i].sub
    BY <1>0, <2>1 DEF Queue
  <2>3. /\ jobs' = next /\ up' = up /\ revoked' = revoked /\ Serving
        /\ Save(next, revoked) \/ SaveFails(next, revoked)
    BY <1>4 DEF NextClaim, Authorized, Handle
  <2> HIDE DEF next
  <2> QED BY <2>2, <2>3, SaveKeeps
<1>5. CASE ResultAnswered(m)
  BY <1>5, DiskSame DEF ResultAnswered, brokerVars, brokerFiles
<1>6. CASE ResultStored(m)
  <2> DEFINE next == [jobs EXCEPT ![m.id] = Completed(jobs[m.id], m.result)]
  <2>0. m.id \in JobIds /\ m.result \in Result
    BY <1>6 DEF ResultStored, Typing, NetTyping, NetShape
  <2>1. jobs[m.id] \in Job
    BY <1>0, <1>6, <2>0, QueueEntry DEF ResultStored, Deliverable, Accepts
  <2>2. \A i \in JobIds : next[i].session = jobs[i].session /\ next[i].sub = jobs[i].sub
    BY <1>0, <2>0, <2>1, CompletedJob DEF Queue
  <2>3. /\ jobs' = next /\ up' = up /\ revoked' = revoked /\ Serving
        /\ Save(next, revoked) \/ SaveFails(next, revoked)
    BY <1>6 DEF ResultStored, Authorized, Handle
  <2> HIDE DEF next
  <2> QED BY <2>2, <2>3, SaveKeeps
<1>7. CASE StoreResultFails(m)
  BY <1>7 DEF StoreResultFails, OwnersKept, ServingIsDurable, Serving
<1>8. CASE Drop(m)
  BY <1>8, DiskSame DEF Drop, brokerVars, brokerFiles
<1> QED BY <1>1, <1>2, <1>3, <1>4, <1>5, <1>6, <1>7, <1>8 DEF Answer

LEMMA BrokerIdle ==
    ASSUME NEW p \in Procs, Step(p) \/ (\E s \in Sessions : StartWorker(p, s))
    PROVE  UNCHANGED <<brokerVars, brokerFiles>>
BY DEF Step, StartWorker, Poll, Retry, GiveUp, Refuse, Reconcile, Intend, Skip, Execute,
       Finish, PulseCancels, PulseFails, Ends, Record, Shutdown, WorkerCrash

LEMMA Durability ==
    ASSUME Typing, ServingIsDurable, [Next]_vars
    PROVE  OwnersKept /\ ServingIsDurable'
<1>1. CASE Operator BY <1>1, DurabilityOperator
<1>2. CASE BrokerCrash
  BY <1>2 DEF BrokerCrash, brokerFiles, OwnersKept, ServingIsDurable, Serving
<1>3. CASE NewBroker
  <2> DEFINE rec == [id \in JobIds |-> Recover(diskJobs[id])]
  <2>1. \A id \in JobIds : rec[id].session = diskJobs[id].session /\ rec[id].sub = diskJobs[id].sub
    BY RecoveredJob DEF Typing, BrokerFilesTyping, BrokerFilesTypeOK, Queue
  <2>2. /\ diskJobs' = rec \/ diskJobs' = diskJobs
        /\ up' => jobs' = diskJobs' /\ revoked' = diskRevoked'
    BY <1>3 DEF NewBroker
  <2> HIDE DEF rec
  <2> QED BY <2>1, <2>2 DEF OwnersKept, ServingIsDurable, Serving
<1>4. CASE \E m \in net : Answer(m) BY <1>4, DurabilityAnswer
<1>5. CASE \E p \in Procs, s \in Sessions : StartWorker(p, s)
  BY <1>5, BrokerIdle, DiskSame DEF brokerVars, brokerFiles
<1>6. CASE \E p \in Procs : Step(p)
  BY <1>6, BrokerIdle, DiskSame DEF brokerVars, brokerFiles
<1>7. CASE UNCHANGED vars
  BY <1>7, DiskSame DEF vars, brokerVars, brokerFiles
<1> QED BY <1>1, <1>2, <1>3, <1>4, <1>5, <1>6, <1>7 DEF Next

(* Steps outside the worker's files; inside them, entries are only written. *)
LEMMA JournalIdle ==
    ASSUME \/ Operator \/ BrokerCrash \/ NewBroker
           \/ \E m \in net : Answer(m)
           \/ \E p \in Procs, s \in Sessions : StartWorker(p, s)
    PROVE  UNCHANGED workerFiles
BY DEF Operator, Submit, SubmitBundleFails, Cancel, Revoke, BrokerCrash, NewBroker, Answer,
       Unauthorized, NextUnresolved, NextEmpty, NextClaim, ResultAnswered, ResultStored,
       StoreResultFails, Drop, StartWorker

LEMMA WriteKeeps ==
    ASSUME Typing, NEW p \in Procs, pc[p] \in Holding, NEW r,
           journal' = [journal EXCEPT ![RootOf[p]][cur[p]] = JournalEntry(p, r)]
    PROVE  EntriesKept /\ journal'[RootOf[p]][cur[p]].job # None
<1>1. JournalEntry(p, r).job # None
  BY ContractAssumption DEF JournalEntry, Typing, WorkerTyping, ProcShape, Job
<1>2. RootOf[p] \in Roots /\ cur[p] \in JobIds
  BY NodeAssumption DEF Typing, WorkerTyping, ProcShape
<1>3. journal \in [Roots -> [JobIds -> Entry \cup {NoEntry}]]
  BY DEF Typing, WorkerFilesTypeOK
<1> QED BY <1>1, <1>2, <1>3 DEF EntriesKept

LEMMA EntriesSame == ASSUME UNCHANGED journal PROVE EntriesKept
BY DEF EntriesKept

LEMMA EntriesStep ==
    ASSUME Typing, NEW p \in Procs, Step(p) PROVE EntriesKept
<1>1. CASE Intend(p) BY <1>1, WriteKeeps DEF Intend, Holding
<1>2. CASE Record(p) BY <1>2, WriteKeeps DEF Record, Holding
<1>3. CASE Shutdown(p) BY <1>3, WriteKeeps DEF Shutdown, Holding
<1>4. CASE ~(Intend(p) \/ Record(p) \/ Shutdown(p))
  <2>1. UNCHANGED journal
    BY <1>4 DEF Step, Poll, Retry, GiveUp, Refuse, Reconcile, Skip, Execute, Finish,
       PulseCancels, PulseFails, Ends, WorkerCrash, workerFiles
  <2> QED BY <2>1, EntriesSame
<1> QED BY <1>1, <1>2, <1>3, <1>4

LEMMA Entries ==
    ASSUME Typing, [Next]_vars PROVE EntriesKept
BY JournalIdle, EntriesStep, EntriesSame DEF Next, vars, workerFiles

-----------------------------------------------------------------------------
(* What a step may do to the worker processes: leave one alone, end it,    *)
(* hand it an assignment, or move it on.                                   *)
Alone(p) == pc'[p] = pc[p] /\ sess'[p] = sess[p] /\ cur'[p] = cur[p] /\ snap'[p] = snap[p]

Ended(p) == pc[p] # "off" /\ pc'[p] = "off" /\ sess'[p] = None

Moved(p) ==
    /\ pc[p] # "off" /\ pc'[p] # "off" /\ sess'[p] = sess[p]
    /\ pc'[p] \in Holding => /\ pc[p] \in Holding
                             /\ cur'[p] = cur[p] /\ snap'[p] = snap[p]
                             /\ pc'[p] \notin {"got", "run", "exec"}

Handed(p) ==
    /\ pc[p] # "off" /\ pc'[p] = "got" /\ sess'[p] = sess[p]
    /\ cur'[p] \in JobIds
    /\ snap'[p].session = diskJobs'[cur'[p]].session
    /\ snap'[p].sub = diskJobs'[cur'[p]].sub

LEMMA ExitEnds ==
    ASSUME WorkerTyping, SessionsAreExclusive, NEW p \in Procs, pc[p] # "off", Exit(p),
           UNCHANGED sroot
    PROVE  /\ Ended(p) /\ \A q \in Procs \ {p} : Alone(q)
           /\ SessionsAreExclusive'
<1>1. Ended(p) /\ \A q \in Procs \ {p} : Alone(q)
  BY DEF WorkerTyping, WorkerTypeOK, Exit, Ended, Alone
<1>2. SUFFICES ASSUME NEW q \in Procs, pc'[q] # "off"
               PROVE  /\ lock'[RootOf[q]] = q
                      /\ sroot'[sess'[q]] = RootOf[q]
                      /\ \A x \in Procs : sess'[x] = sess'[q] => x = q
  BY <1>1 DEF SessionsAreExclusive
<1>3. q # p /\ pc[q] # "off" /\ sess'[q] = sess[q]
  BY <1>1, <1>2 DEF Ended, Alone
<1>4. lock[RootOf[q]] = q /\ lock[RootOf[p]] = p /\ RootOf[q] # RootOf[p]
  BY <1>3 DEF SessionsAreExclusive
<1>5. lock'[RootOf[q]] = q
  BY <1>4, NodeAssumption DEF WorkerTyping, WorkerTypeOK, Exit
<1>6. sess[q] # None
  BY <1>3, ContractAssumption DEF WorkerTyping, ProcShape
<1>7. \A x \in Procs : sess'[x] = sess'[q] => x = q
  BY <1>1, <1>3, <1>6 DEF SessionsAreExclusive, Alone, Ended
<1> QED BY <1>3, <1>5, <1>7 DEF SessionsAreExclusive

LEMMA SessionsKept ==
    ASSUME SessionsAreExclusive, UNCHANGED <<sess, lock, sroot>>,
           \A p \in Procs : pc'[p] # "off" => pc[p] # "off"
    PROVE  SessionsAreExclusive'
BY DEF SessionsAreExclusive

LEMMA ReplyRejectedMoves ==
    ASSUME WorkerTyping, SessionsAreExclusive, NEW m \in Request, ReplyRejected(m), UNCHANGED sroot
    PROVE  /\ \A p \in Procs : Alone(p) \/ Ended(p)
           /\ SessionsAreExclusive'
<1>1. m.proc \in Procs BY DEF Request
<1>2. CASE Waiting(m)
  BY <1>1, <1>2, ExitEnds DEF ReplyRejected, Waiting
<1>3. CASE ~Waiting(m)
  BY <1>3, SessionsKept DEF ReplyRejected, workerVars, Alone
<1> QED BY <1>2, <1>3

LEMMA ReplyDoneMoves ==
    ASSUME WorkerTyping, SessionsAreExclusive, NEW m \in Request, ReplyDone(m), UNCHANGED sroot
    PROVE  /\ \A p \in Procs : Alone(p) \/ Moved(p)
           /\ SessionsAreExclusive'
<1>1. m.proc \in Procs BY DEF Request
<1>2. CASE Waiting(m)
  <2>1. Moved(m.proc) /\ \A p \in Procs \ {m.proc} : Alone(p)
    BY <1>1, <1>2 DEF ReplyDone, ReplyWith, Moved, Alone, Holding, Waiting, WorkerTyping, WorkerTypeOK
  <2>2. SessionsAreExclusive'
    BY <1>1, <1>2, <2>1, SessionsKept DEF ReplyDone, ReplyWith, Moved, Alone
  <2> QED BY <2>1, <2>2
<1>3. CASE ~Waiting(m)
  BY <1>3, SessionsKept DEF ReplyDone, ReplyWith, workerVars, Alone
<1> QED BY <1>2, <1>3

LEMMA ReplyJobMoves ==
    ASSUME WorkerTyping, SessionsAreExclusive, NEW m \in Request,
           NEW id \in JobIds, NEW job, ReplyJob(m, id, job), UNCHANGED sroot,
           job.session = diskJobs'[id].session, job.sub = diskJobs'[id].sub
    PROVE  /\ \A p \in Procs : Alone(p) \/ Handed(p)
           /\ SessionsAreExclusive'
<1>1. m.proc \in Procs BY DEF Request
<1>2. CASE Waiting(m)
  <2>1. Handed(m.proc) /\ \A p \in Procs \ {m.proc} : Alone(p)
    BY <1>1, <1>2 DEF ReplyJob, ReplyWith, Handed, Alone, Waiting, WorkerTyping, WorkerTypeOK
  <2>2. SessionsAreExclusive'
    BY <1>1, <1>2, <2>1, SessionsKept DEF ReplyJob, ReplyWith, Handed, Alone
  <2> QED BY <2>1, <2>2
<1>3. CASE ~Waiting(m)
  BY <1>3, SessionsKept DEF ReplyJob, ReplyWith, workerVars, Alone
<1> QED BY <1>2, <1>3

Calm == \A p \in Procs : Alone(p) \/ Ended(p) \/ Moved(p) \/ Handed(p)

LEMMA AssignmentKept ==
    ASSUME Typing, AssignmentIsDurable, OwnersKept, Calm
    PROVE  AssignmentIsDurable'
<1> SUFFICES ASSUME NEW p \in Procs, pc'[p] \in Holding
             PROVE  /\ diskJobs'[cur'[p]].session = snap'[p].session
                    /\ diskJobs'[cur'[p]].sub = snap'[p].sub
  BY DEF AssignmentIsDurable
<1>1. CASE Handed(p) BY <1>1 DEF Handed
<1>2. CASE Alone(p) \/ Moved(p)
  <2>1. pc[p] \in Holding /\ cur'[p] = cur[p] /\ snap'[p] = snap[p]
    BY <1>2 DEF Alone, Moved
  <2>2. cur[p] \in JobIds /\ snap[p].session # None
    BY <2>1, ContractAssumption DEF Typing, WorkerTyping, ProcShape
  <2> QED BY <2>1, <2>2 DEF AssignmentIsDurable, OwnersKept
<1> QED BY <1>1, <1>2 DEF Calm, Ended, Holding

LEMMA StartsKept ==
    ASSUME Typing, StartsAreJournaled, OwnersKept, EntriesKept, Calm, UNCHANGED <<sroot, runs>>
    PROVE  StartsAreJournaled'
<1>1. ASSUME NEW id \in JobIds, runs'[id] # 0
      PROVE  /\ runs'[id] = 1
             /\ diskJobs'[id].session \in Sessions
             /\ sroot'[diskJobs'[id].session] \in Roots
             /\ journal'[sroot'[diskJobs'[id].session]][id].job # None
  <2>1. diskJobs'[id].session = diskJobs[id].session
    BY <1>1, ContractAssumption DEF StartsAreJournaled, OwnersKept
  <2> QED BY <1>1, <2>1 DEF StartsAreJournaled, EntriesKept
<1>2. ASSUME NEW p \in Procs, pc'[p] \in {"run", "exec"}
      PROVE  /\ snap'[p].session = sess'[p]
             /\ journal'[RootOf[p]][cur'[p]].job # None
             /\ pc'[p] = "run" => runs'[cur'[p]] = 0
  <2>1. Alone(p)
    BY <1>2 DEF Calm, Ended, Moved, Handed, Holding
  <2>2. cur[p] \in JobIds /\ RootOf[p] \in Roots
    BY <1>2, <2>1, NodeAssumption DEF Alone, Typing, WorkerTyping, ProcShape, Holding
  <2> QED BY <1>2, <2>1, <2>2 DEF Alone, StartsAreJournaled, EntriesKept, Journal
<1> QED BY <1>1, <1>2 DEF StartsAreJournaled, Journal

LEMMA CalmAnswer ==
    ASSUME Typing, ServingIsDurable, SessionsAreExclusive, NEW m \in net, Answer(m)
    PROVE  Calm /\ SessionsAreExclusive' /\ UNCHANGED history
<1>0. m \in Request /\ WorkerTyping BY DEF Typing, NetTyping
<1> USE DEF Calm, history
<1>1. CASE Unauthorized(m)
  BY <1>0, <1>1, ReplyRejectedMoves DEF Unauthorized
<1>2. ASSUME NEW id \in JobIds, NextUnresolved(m, id)
      PROVE  Calm /\ SessionsAreExclusive' /\ UNCHANGED history
  <2>1. jobs[id] = diskJobs'[id]
    BY <1>2 DEF NextUnresolved, Authorized, Handle, ServingIsDurable, brokerFiles
  <2> QED BY <1>0, <1>2, <2>1, ReplyJobMoves, ReplyRejectedMoves DEF NextUnresolved
<1>3. CASE NextEmpty(m)
  BY <1>0, <1>3, ReplyDoneMoves DEF NextEmpty
<1>4. ASSUME NEW id \in JobIds, NextClaim(m, id)
      PROVE  Calm /\ SessionsAreExclusive' /\ UNCHANGED history
  <2> DEFINE next == [jobs EXCEPT ![id] = Claimed(jobs[id], m.sess)]
  <2>1. /\ \/ Save(next, revoked) /\ ReplyJob(m, id, next[id])
           \/ SaveFails(next, revoked) /\ ReplyRejected(m)
        /\ UNCHANGED history
    BY <1>4 DEF NextClaim
  <2> HIDE DEF next
  <2>2. CASE Save(next, revoked) /\ ReplyJob(m, id, next[id])
    BY <1>0, <2>1, <2>2, ReplyJobMoves DEF Save
  <2>3. CASE ReplyRejected(m)
    BY <1>0, <2>1, <2>3, ReplyRejectedMoves
  <2> QED BY <2>1, <2>2, <2>3
<1>5. CASE ResultAnswered(m)
  BY <1>0, <1>5, ReplyDoneMoves, ReplyRejectedMoves DEF ResultAnswered
<1>6. CASE ResultStored(m)
  BY <1>0, <1>6, ReplyDoneMoves, ReplyRejectedMoves DEF ResultStored
<1>7. CASE StoreResultFails(m)
  BY <1>0, <1>7, ReplyRejectedMoves DEF StoreResultFails
<1>8. CASE Drop(m)
  BY <1>8, SessionsKept DEF Drop, workerVars, Alone
<1> QED BY <1>1, <1>2, <1>3, <1>4, <1>5, <1>6, <1>7, <1>8 DEF Answer

LEMMA CalmBroker ==
    ASSUME SessionsAreExclusive, Operator \/ BrokerCrash \/ NewBroker \/ UNCHANGED vars
    PROVE  Calm /\ SessionsAreExclusive' /\ UNCHANGED history
<1>1. UNCHANGED <<workerVars, history>>
  BY DEF Operator, Submit, SubmitBundleFails, Cancel, Revoke, BrokerCrash, NewBroker, vars
<1> QED BY <1>1, SessionsKept DEF workerVars, history, Calm, Alone

(* A worker step that neither declares an intent nor starts a workflow.    *)
LEMMA CalmStep ==
    ASSUME Typing, SessionsAreExclusive, NEW p \in Procs, Step(p), ~Intend(p), ~Execute(p)
    PROVE  Calm /\ SessionsAreExclusive' /\ UNCHANGED history
<1>0. WorkerTyping /\ pc \in [Procs -> PC]
  BY DEF Typing, WorkerTyping, WorkerTypeOK
<1>1. CASE GiveUp(p) \/ Refuse(p) \/ Shutdown(p) \/ WorkerCrash(p)
  <2>1. Exit(p) /\ pc[p] # "off" /\ UNCHANGED history
    BY <1>1 DEF GiveUp, NoAnswer, Refuse, Shutdown, WorkerCrash
  <2> QED BY <1>0, <2>1, ExitEnds DEF Calm, history
<1>2. CASE Poll(p) \/ Reconcile(p) \/ Skip(p) \/ Record(p)
           \/ (\E r : Ends(p, r))
  <2>1. /\ pc' = [pc EXCEPT ![p] = pc'[p]] /\ pc[p] # "off"
        /\ pc'[p] \in {"ask", "ran", "send"}
        /\ pc'[p] # "ask" => pc[p] \in Holding
        /\ UNCHANGED <<sess, cur, snap, lock, history>>
    BY <1>0, <1>2 DEF Poll, Reconcile, Skip, Record, Ends, Holding
  <2>2. Moved(p) /\ \A q \in Procs \ {p} : Alone(q)
    BY <1>0, <2>1 DEF Moved, Alone, Holding
  <2> QED BY <2>1, <2>2, SessionsKept DEF Calm, history, Moved, Alone
<1>3. CASE Retry(p)
  BY <1>3, SessionsKept DEF Retry, Calm, Alone, history
<1> QED BY <1>1, <1>2, <1>3 DEF Step, Finish, PulseCancels, PulseFails

(* A declared intent: the process owns the job, and its directory has no   *)
(* entry, so nobody can have started it.                                   *)
LEMMA OwnershipIntend ==
    ASSUME Typing, Ownership, NEW p \in Procs, Intend(p), OwnersKept, EntriesKept
    PROVE  SessionsAreExclusive' /\ AssignmentIsDurable' /\ StartsAreJournaled'
<1> USE DEF Ownership
<1>1. /\ pc[p] = "got" /\ pc' = [pc EXCEPT ![p] = "run"]
      /\ ~Journaled(p) /\ snap[p].session = sess[p]
      /\ UNCHANGED <<sess, cur, snap, lock, sroot, runs, diskJobs>>
  BY DEF Intend, MustStop, brokerFiles, history
<1>2. /\ pc \in [Procs -> PC] /\ cur[p] \in JobIds /\ sess[p] \in Sessions
  BY <1>1 DEF Typing, WorkerTyping, WorkerTypeOK, ProcShape, Holding
<1>3. journal'[RootOf[p]][cur[p]].job # None
  BY <1>1, WriteKeeps DEF Intend, Holding
<1>4. SessionsAreExclusive'
  BY <1>1, <1>2, SessionsKept
<1>5. AssignmentIsDurable'
  BY <1>1, <1>2 DEF AssignmentIsDurable, Holding
<1>6. runs[cur[p]] = 0
  <2>1. diskJobs[cur[p]].session = sess[p]
    BY <1>1 DEF AssignmentIsDurable, Holding
  <2>2. sroot[sess[p]] = RootOf[p]
    BY <1>1 DEF SessionsAreExclusive
  <2> QED BY <1>1, <1>2, <2>1, <2>2 DEF StartsAreJournaled, Journaled, Journal
<1>7. ASSUME NEW id \in JobIds, runs'[id] # 0
      PROVE  /\ runs'[id] = 1
             /\ diskJobs'[id].session \in Sessions
             /\ sroot'[diskJobs'[id].session] \in Roots
             /\ journal'[sroot'[diskJobs'[id].session]][id].job # None
  BY <1>1, <1>7 DEF StartsAreJournaled, EntriesKept
<1>8. ASSUME NEW q \in Procs, pc'[q] \in {"run", "exec"}
      PROVE  /\ snap'[q].session = sess'[q]
             /\ journal'[RootOf[q]][cur'[q]].job # None
             /\ pc'[q] = "run" => runs'[cur'[q]] = 0
  <2>1. CASE q = p BY <1>1, <1>3, <1>6, <2>1
  <2>2. CASE q # p
    <3>1. pc'[q] = pc[q] BY <1>1, <1>2, <2>2
    <3>2. cur[q] \in JobIds /\ RootOf[q] \in Roots
      BY <1>8, <3>1, NodeAssumption DEF Typing, WorkerTyping, ProcShape, Holding
    <3> QED BY <1>1, <1>8, <3>1, <3>2 DEF StartsAreJournaled, EntriesKept, Journal
  <2> QED BY <2>1, <2>2
<1> QED BY <1>4, <1>5, <1>7, <1>8 DEF StartsAreJournaled, Journal

(* A start: the process owns the job and its intent is journaled; another  *)
(* process about to start the same job would have the same session.        *)
LEMMA OwnershipExecute ==
    ASSUME Typing, Ownership, NEW p \in Procs, Execute(p)
    PROVE  SessionsAreExclusive' /\ AssignmentIsDurable' /\ StartsAreJournaled'
<1> USE DEF Ownership
<1>1. /\ pc[p] = "run" /\ pc' = [pc EXCEPT ![p] = "exec"]
      /\ runs' = [runs EXCEPT ![cur[p]] = @ + 1]
      /\ UNCHANGED <<sess, cur, snap, lock, sroot, diskJobs, journal>>
  BY DEF Execute, brokerFiles
<1>2. /\ pc \in [Procs -> PC] /\ cur[p] \in JobIds /\ sess[p] \in Sessions
      /\ runs \in [JobIds -> Nat] /\ RootOf[p] \in Roots
  BY <1>1, NodeAssumption
  DEF Typing, WorkerTyping, WorkerTypeOK, ProcShape, HistoryTypeOK, Holding
<1>3. SessionsAreExclusive'
  BY <1>1, <1>2, SessionsKept
<1>4. AssignmentIsDurable'
  BY <1>1, <1>2 DEF AssignmentIsDurable, Holding
<1>5. /\ runs[cur[p]] = 0 /\ diskJobs[cur[p]].session = sess[p]
      /\ journal[RootOf[p]][cur[p]].job # None /\ snap[p].session = sess[p]
      /\ sroot[sess[p]] = RootOf[p]
  BY <1>1 DEF AssignmentIsDurable, StartsAreJournaled, SessionsAreExclusive, Journal, Holding
<1>6. ASSUME NEW id \in JobIds, runs'[id] # 0
      PROVE  /\ runs'[id] = 1
             /\ diskJobs'[id].session \in Sessions
             /\ sroot'[diskJobs'[id].session] \in Roots
             /\ journal'[sroot'[diskJobs'[id].session]][id].job # None
  <2>1. CASE id = cur[p] BY <1>1, <1>2, <1>5, <2>1
  <2>2. CASE id # cur[p] BY <1>1, <1>2, <1>6, <2>2 DEF StartsAreJournaled
  <2> QED BY <2>1, <2>2
<1>7. ASSUME NEW q \in Procs, pc'[q] \in {"run", "exec"}
      PROVE  /\ snap'[q].session = sess'[q]
             /\ journal'[RootOf[q]][cur'[q]].job # None
             /\ pc'[q] = "run" => runs'[cur'[q]] = 0
  <2>1. CASE q = p BY <1>1, <1>2, <1>5, <2>1
  <2>2. CASE q # p
    <3>1. pc'[q] = pc[q] BY <1>1, <1>2, <2>2
    <3>2. cur[q] \in JobIds /\ diskJobs[cur[q]].session = sess[q]
      BY <1>7, <3>1
      DEF Typing, WorkerTyping, ProcShape, Holding, AssignmentIsDurable, StartsAreJournaled
    <3>3. cur[q] # cur[p]
      BY <1>1, <1>5, <2>2, <3>2 DEF SessionsAreExclusive
    <3> QED BY <1>1, <1>2, <1>7, <3>1, <3>2, <3>3 DEF StartsAreJournaled, Journal
  <2> QED BY <2>1, <2>2
<1> QED BY <1>3, <1>4, <1>6, <1>7 DEF StartsAreJournaled, Journal

(* A new process: its session is new to every file and every process.      *)
LEMMA OwnershipStartWorker ==
    ASSUME Typing, Ownership, NEW p \in Procs, NEW s \in Sessions, StartWorker(p, s)
    PROVE  SessionsAreExclusive' /\ AssignmentIsDurable' /\ StartsAreJournaled'
<1> USE DEF Ownership
<1>1. /\ pc[p] = "off" /\ lock[RootOf[p]] = None
      /\ pc' = [pc EXCEPT ![p] = "idle"] /\ sess' = [sess EXCEPT ![p] = s]
      /\ lock' = [lock EXCEPT ![RootOf[p]] = p] /\ sroot' = [sroot EXCEPT ![s] = RootOf[p]]
      /\ UNCHANGED <<cur, snap, runs, diskJobs, journal>>
  BY DEF StartWorker, brokerFiles, workerFiles
<1>2. /\ \A q \in Procs : sess[q] # s
      /\ \A id \in JobIds : diskJobs[id].session # s
  BY DEF StartWorker, Fresh
<1>3. /\ pc \in [Procs -> PC] /\ sess \in [Procs -> Sessions \cup {None}]
      /\ lock \in [Roots -> Procs \cup {None}] /\ sroot \in [Sessions -> Roots \cup {None}]
      /\ RootOf \in [Procs -> Roots] /\ None \notin Procs
      /\ \A q \in Procs : pc[q] # "off" => sess[q] \in Sessions
  BY NodeAssumption DEF Typing, WorkerTyping, WorkerTypeOK, HistoryTypeOK, ProcShape
<1>4. SessionsAreExclusive'
  <2> SUFFICES ASSUME NEW q \in Procs, pc'[q] # "off"
               PROVE  /\ lock'[RootOf[q]] = q
                      /\ sroot'[sess'[q]] = RootOf[q]
                      /\ \A x \in Procs : sess'[x] = sess'[q] => x = q
    BY DEF SessionsAreExclusive
  <2>1. CASE q = p BY <1>1, <1>2, <1>3, <2>1
  <2>2. CASE q # p
    <3>1. pc[q] # "off" /\ sess'[q] = sess[q] /\ sess[q] \in Sessions /\ sess[q] # s
      BY <1>1, <1>2, <1>3, <2>2
    <3>2. lock[RootOf[q]] = q /\ sroot[sess[q]] = RootOf[q]
          /\ \A x \in Procs : sess[x] = sess[q] => x = q
      BY <3>1 DEF SessionsAreExclusive
    <3>3. RootOf[q] # RootOf[p] BY <1>1, <1>3, <3>2
    <3>4. lock'[RootOf[q]] = q /\ sroot'[sess'[q]] = RootOf[q]
      BY <1>1, <1>3, <3>1, <3>2, <3>3
    <3>5. \A x \in Procs : sess'[x] = sess'[q] => x = q
      BY <1>1, <1>3, <3>1, <3>2
    <3> QED BY <3>4, <3>5
  <2> QED BY <2>1, <2>2
<1>5. AssignmentIsDurable'
  BY <1>1, <1>3 DEF AssignmentIsDurable, Holding
<1>6. \A id \in JobIds : diskJobs[id].session \in Sessions =>
          sroot'[diskJobs[id].session] = sroot[diskJobs[id].session]
  BY <1>1, <1>2, <1>3
<1>7. \A q \in Procs : pc'[q] \in {"run", "exec"} => q # p /\ pc[q] = pc'[q] /\ sess[q] = sess'[q]
  BY <1>1, <1>3
<1> QED BY <1>1, <1>4, <1>5, <1>6, <1>7 DEF StartsAreJournaled, Journal

LEMMA OwnershipNext ==
    ASSUME Typing, Ownership, [Next]_vars
    PROVE  Ownership'
<1>1. OwnersKept /\ ServingIsDurable' BY Durability DEF Ownership
<1>2. EntriesKept BY Entries
<1>3. CASE Calm /\ SessionsAreExclusive' /\ UNCHANGED history
  <2>1. AssignmentIsDurable' BY <1>1, <1>3, AssignmentKept DEF Ownership
  <2>2. StartsAreJournaled' BY <1>1, <1>2, <1>3, StartsKept DEF Ownership, history
  <2> QED BY <1>1, <1>3, <2>1, <2>2 DEF Ownership
<1>4. CASE Operator \/ BrokerCrash \/ NewBroker \/ UNCHANGED vars
  BY <1>3, <1>4, CalmBroker DEF Ownership
<1>5. CASE \E m \in net : Answer(m)
  BY <1>3, <1>5, CalmAnswer DEF Ownership
<1>6. CASE \E p \in Procs, s \in Sessions : StartWorker(p, s)
  BY <1>1, <1>6, OwnershipStartWorker DEF Ownership
<1>7. ASSUME NEW p \in Procs, Step(p) PROVE Ownership'
  <2>1. CASE Intend(p) BY <1>1, <1>2, <2>1, OwnershipIntend DEF Ownership
  <2>2. CASE Execute(p) BY <1>1, <2>2, OwnershipExecute DEF Ownership
  <2>3. CASE ~Intend(p) /\ ~Execute(p)
    BY <1>3, <1>7, <2>3, CalmStep DEF Ownership
  <2> QED BY <2>1, <2>2, <2>3
<1> QED BY <1>4, <1>5, <1>6, <1>7 DEF Next

LEMMA OwnershipInit == ASSUME Init PROVE Ownership
BY DEF Init, Ownership, ServingIsDurable, SessionsAreExclusive, AssignmentIsDurable,
       StartsAreJournaled, Holding

(* The inductive invariant, for any number of jobs, nodes, processes,      *)
(* directories, sessions, retries and faults.                              *)
THEOREM OwnershipHolds == Spec => [](Typing /\ Ownership)
<1>1. Init => Typing /\ Ownership BY TypingInit, OwnershipInit
<1>2. Typing /\ Ownership /\ [Next]_vars => (Typing /\ Ownership)'
  BY TypingNext, OwnershipNext
<1> QED BY <1>1, <1>2, PTL DEF Spec

(* The workflow of a job is never started twice, whatever broker and       *)
(* workers go through between the claim in Queue.Next and Execute.         *)
THEOREM StartedAtMostOnce == Spec => []AtMostOnce
<1>1. Typing /\ Ownership => AtMostOnce
  BY DEF Ownership, StartsAreJournaled, AtMostOnce
<1> QED BY <1>1, OwnershipHolds, PTL

(* A broker that answers has everything it knows in broker.json: save and  *)
(* its poisoning leave no other state reachable.                           *)
THEOREM AnswersAreDurable == Spec => []ServingIsDurable
<1>1. Typing /\ Ownership => ServingIsDurable BY DEF Ownership
<1> QED BY <1>1, OwnershipHolds, PTL

(* No step of broker, worker or operator reassigns a job.                  *)
THEOREM AssignmentsAreFinal == Spec => OwnersAreFinal
<1>1. Typing /\ Ownership /\ [Next]_vars => [OwnersKept]_vars
  BY Durability DEF Ownership
<1> QED BY <1>1, OwnershipHolds, PTL DEF Spec, OwnersAreFinal

-----------------------------------------------------------------------------
(* What a step may do to the queue in broker.json: nothing, one transition *)
(* of one job, or the recovery of all jobs.                                *)
DiskAccepts(id) ==
    \E sub \in Submission, now \in Times :
        /\ ~Exists(diskJobs, id)
        /\ diskJobs' = [diskJobs EXCEPT ![id] = Submitted(sub, now)]
        /\ sub.work \in Bundles => bundles'[id] = sub.work

DiskCancels(id) ==
    /\ Exists(diskJobs, id) /\ Cancellable(diskJobs[id])
    /\ diskJobs' = [diskJobs EXCEPT ![id] = Cancelled(diskJobs[id])]

DiskClaims(id) ==
    \E s \in Sessions :
        /\ id \in Queued(diskJobs, diskJobs[id].sub.node)
        /\ Unresolved(diskJobs, diskJobs[id].sub.node) = {}
        /\ diskJobs' = [diskJobs EXCEPT ![id] = Claimed(diskJobs[id], s)]

DiskSettles(id) ==
    \E m \in net :
        /\ m.kind = "result" /\ m.id = id
        /\ Accepts(diskJobs[id], m.result)
        /\ diskJobs' = [diskJobs EXCEPT ![id] = Completed(diskJobs[id], m.result)]
        /\ results'[id] = m.result

DiskRecovers == diskJobs' = [id \in JobIds |-> Recover(diskJobs[id])]

DiskStep ==
    \/ UNCHANGED diskJobs
    \/ \E id \in JobIds :
          DiskAccepts(id) \/ DiskCancels(id) \/ DiskClaims(id) \/ DiskSettles(id)
    \/ DiskRecovers

(* Payload files are written only while no metadata points at them, and a  *)
(* result file only for a result that was sent.                            *)
PayloadsKept ==
    \A id \in JobIds :
        /\ Exists(diskJobs, id) => bundles'[id] = bundles[id]
        /\ diskJobs[id].resultHash # None => results'[id] = results[id]
        /\ \/ results'[id] = results[id]
           \/ \E m \in net : m.kind = "result" /\ m.id = id /\ results'[id] = m.result

LEMMA SaveWrites ==
    ASSUME ServingIsDurable, Serving, NEW q, NEW rev, Save(q, rev) \/ SaveFails(q, rev)
    PROVE  jobs = diskJobs /\ (diskJobs' = q \/ diskJobs' = diskJobs)
BY DEF ServingIsDurable, Save, SaveFails

LEMMA DiskOperator ==
    ASSUME Typing, ServingIsDurable, Operator
    PROVE  DiskStep /\ PayloadsKept
<1>0. /\ jobs \in Queue
      /\ results \in [JobIds -> Result \cup {None}] /\ bundles \in [JobIds -> Bundles \cup {None}]
  BY DEF Typing, BrokerTyping, BrokerTypeOK, BrokerFilesTyping, BrokerFilesTypeOK
<1>1. ASSUME NEW id \in JobIds, NEW sub \in Submission, NEW now \in Times,
             Submit(id, sub, now)
      PROVE  DiskStep /\ PayloadsKept
  <2> DEFINE next == [jobs EXCEPT ![id] = Submitted(sub, now)]
  <2>1. /\ jobs = diskJobs /\ (diskJobs' = next \/ diskJobs' = diskJobs)
        /\ ~Exists(diskJobs, id) /\ StoreBundle(id, sub.work) /\ UNCHANGED results
    BY <1>1, SaveWrites DEF Submit, Admits
  <2>2. sub.work \in Bundles => bundles'[id] = sub.work
    BY <1>0, <2>1 DEF StoreBundle
  <2>3. PayloadsKept
    BY <1>0, <2>1 DEF StoreBundle, PayloadsKept
  <2> QED BY <2>1, <2>2, <2>3 DEF DiskStep, DiskAccepts
<1>2. ASSUME NEW id \in JobIds, NEW sub \in Submission, SubmitBundleFails(id, sub)
      PROVE  DiskStep /\ PayloadsKept
  <2>1. /\ UNCHANGED <<diskJobs, results>> /\ ~Exists(diskJobs, id) /\ StoreBundle(id, sub.work)
    BY <1>2 DEF SubmitBundleFails, Admits, ServingIsDurable
  <2> QED BY <1>0, <2>1 DEF StoreBundle, PayloadsKept, DiskStep
<1>3. ASSUME NEW id \in JobIds, Cancel(id) PROVE DiskStep /\ PayloadsKept
  <2> DEFINE next == [jobs EXCEPT ![id] = Cancelled(jobs[id])]
  <2>1. /\ jobs = diskJobs /\ (diskJobs' = next \/ diskJobs' = diskJobs)
        /\ Exists(diskJobs, id) /\ Cancellable(diskJobs[id]) /\ UNCHANGED <<results, bundles>>
    BY <1>3, SaveWrites DEF Cancel
  <2> QED BY <2>1 DEF DiskStep, DiskCancels, PayloadsKept
<1>4. ASSUME NEW node \in Nodes, Revoke(node) PROVE DiskStep /\ PayloadsKept
  <2>1. diskJobs' = diskJobs /\ UNCHANGED <<results, bundles>>
    BY <1>4, SaveWrites DEF Revoke
  <2> QED BY <2>1 DEF DiskStep, PayloadsKept
<1> QED BY <1>1, <1>2, <1>3, <1>4 DEF Operator

LEMMA DiskAnswer ==
    ASSUME Typing, ServingIsDurable, NEW m \in net, Answer(m)
    PROVE  DiskStep /\ PayloadsKept
<1>0. /\ jobs \in Queue /\ m \in Request
      /\ results \in [JobIds -> Result \cup {None}]
      /\ m.kind = "result" => m.id \in JobIds /\ m.result \in Result
  BY DEF Typing, BrokerTyping, BrokerTypeOK, BrokerFilesTyping, BrokerFilesTypeOK, NetTyping, NetShape
<1>1. CASE UNCHANGED brokerFiles
  BY <1>1 DEF brokerFiles, DiskStep, PayloadsKept
<1>2. ASSUME NEW id \in JobIds, NextClaim(m, id) PROVE DiskStep /\ PayloadsKept
  <2> DEFINE next == [jobs EXCEPT ![id] = Claimed(jobs[id], m.sess)]
  <2>1. /\ jobs = diskJobs /\ (diskJobs' = next \/ diskJobs' = diskJobs)
        /\ UNCHANGED <<results, bundles>>
    BY <1>2, SaveWrites DEF NextClaim, Authorized, Handle
  <2>2. /\ Unresolved(diskJobs, Node(m.proc)) = {} /\ id \in Queued(diskJobs, Node(m.proc))
        /\ m.sess \in Sessions
    BY <1>0, <1>2, <2>1 DEF NextClaim, Oldest, Request
  <2>3. diskJobs[id].sub.node = Node(m.proc)
    BY <2>2 DEF Queued
  <2> QED BY <2>1, <2>2, <2>3 DEF DiskStep, DiskClaims, PayloadsKept
<1>3. CASE ResultStored(m)
  <2> DEFINE next == [jobs EXCEPT ![m.id] = Completed(jobs[m.id], m.result)]
  <2>1. /\ jobs = diskJobs /\ (diskJobs' = next \/ diskJobs' = diskJobs)
        /\ UNCHANGED bundles /\ m.kind = "result"
        /\ Accepts(diskJobs[m.id], m.result) /\ StoreResult(m.id, m.result)
    BY <1>3, SaveWrites DEF ResultStored, Authorized, Handle, Deliverable
  <2>2. results'[m.id] = m.result
    BY <1>0, <2>1 DEF StoreResult
  <2>3. PayloadsKept
    BY <1>0, <2>1 DEF StoreResult, PayloadsKept, Accepts
  <2> QED BY <1>0, <2>1, <2>2, <2>3 DEF DiskStep, DiskSettles
<1>4. CASE StoreResultFails(m)
  <2>1. /\ jobs = diskJobs /\ diskJobs' = diskJobs /\ UNCHANGED bundles /\ m.kind = "result"
        /\ diskJobs[m.id].resultHash = None
        /\ results' \in {results, [results EXCEPT ![m.id] = m.result]}
    BY <1>4 DEF StoreResultFails, Authorized, Handle, Deliverable, Accepts, ServingIsDurable
  <2> QED BY <1>0, <2>1 DEF DiskStep, PayloadsKept
<1>5. ~(ResultStored(m) \/ StoreResultFails(m) \/ \E id \in JobIds : NextClaim(m, id))
          => UNCHANGED brokerFiles
  BY DEF Answer, Unauthorized, NextUnresolved, NextEmpty, ResultAnswered, Drop
<1> QED BY <1>1, <1>2, <1>3, <1>4, <1>5

LEMMA DiskNext ==
    ASSUME Typing, ServingIsDurable, [Next]_vars
    PROVE  DiskStep /\ PayloadsKept
<1>1. CASE Operator BY <1>1, DiskOperator
<1>2. CASE NewBroker
  BY <1>2 DEF NewBroker, DiskStep, DiskRecovers, PayloadsKept
<1>3. CASE \E m \in net : Answer(m) BY <1>3, DiskAnswer
<1>4. CASE UNCHANGED brokerFiles
  BY <1>4 DEF brokerFiles, DiskStep, PayloadsKept
<1>5. Next /\ ~(Operator \/ NewBroker \/ \E m \in net : Answer(m)) => UNCHANGED brokerFiles
  BY BrokerIdle DEF Next, BrokerCrash
<1> QED BY <1>1, <1>2, <1>3, <1>4, <1>5 DEF vars

LEMMA DiskTypes ==
    ASSUME Typing
    PROVE  /\ diskJobs \in Queue /\ JobShape(diskJobs)
           /\ results \in [JobIds -> Result \cup {None}]
           /\ \A m \in net : m.kind = "result" => m.id \in JobIds /\ m.result \in Result
BY DEF Typing, BrokerFilesTyping, BrokerFilesTypeOK, NetTyping, NetShape

(* A job that accepts a result, is claimed or cancelled exists.            *)
LEMMA Present ==
    ASSUME Typing, NEW id \in JobIds, diskJobs[id].status # "absent"
    PROVE  diskJobs[id] \in Job
BY DiskTypes, QueueEntry

LEMMA SettlesJob ==
    ASSUME Typing, NEW id \in JobIds, NEW m \in net, m.kind = "result", m.id = id,
           Accepts(diskJobs[id], m.result)
    PROVE  /\ m.result \in Result /\ diskJobs[id] \in Job
           /\ diskJobs[id].resultHash = None
           /\ diskJobs[id].status \in {"running", "unknown"}
           /\ Completed(diskJobs[id], m.result).resultHash = m.result
           /\ Completed(diskJobs[id], m.result).status = m.result.status
           /\ Completed(diskJobs[id], m.result).session = diskJobs[id].session
           /\ Completed(diskJobs[id], m.result).sub = diskJobs[id].sub
           /\ Completed(diskJobs[id], m.result).cancelRequested = diskJobs[id].cancelRequested
<1>1. m.result \in Result /\ diskJobs[id].status \in {"running", "unknown"}
  BY DiskTypes DEF Accepts
<1>2. diskJobs[id] \in Job BY <1>1, Present
<1> QED BY <1>1, <1>2 DEF Completed, Accepts, Job

LEMMA StagesNext ==
    ASSUME Typing, StagesAreOrdered, DiskStep
    PROVE  StagesAreOrdered'
<1> SUFFICES ASSUME NEW i \in JobIds PROVE InOrder(diskJobs'[i])
  BY DEF StagesAreOrdered
<1>0. diskJobs \in Queue /\ JobShape(diskJobs) /\ InOrder(diskJobs[i])
  BY DiskTypes DEF StagesAreOrdered
<1>1. CASE diskJobs'[i] = diskJobs[i] BY <1>0, <1>1
<1>2. CASE DiskAccepts(i)
  <2>1. PICK sub \in Submission, now \in Times : diskJobs'[i] = Submitted(sub, now)
    BY <1>0, <1>2 DEF DiskAccepts, Queue
  <2> QED BY <2>1 DEF Submitted, InOrder
<1>3. CASE DiskCancels(i)
  <2>1. diskJobs'[i] = Cancelled(diskJobs[i]) /\ diskJobs[i] \in Job /\ diskJobs[i].resultHash = None
    BY <1>0, <1>3, Present DEF DiskCancels, Queue, Exists, Cancellable
  <2>2. diskJobs[i].status = "queued" => diskJobs[i].session = None
    BY <1>0 DEF JobShape
  <2> QED BY <1>0, <2>1, <2>2 DEF Cancelled, InOrder, Job
<1>4. CASE DiskClaims(i)
  <2>1. PICK s \in Sessions : diskJobs'[i] = Claimed(diskJobs[i], s)
    BY <1>0, <1>4 DEF DiskClaims, Queue
  <2>2. diskJobs[i].status = "queued" /\ diskJobs[i] \in Job
    BY <1>4, Present DEF DiskClaims, Queued
  <2>3. diskJobs[i].resultHash = None
    BY <1>0, <2>2 DEF InOrder, Job, Result, ResultStatus
  <2>4. s # None BY ContractAssumption
  <2> QED BY <2>1, <2>2, <2>3, <2>4 DEF Claimed, InOrder, Job
<1>5. CASE DiskSettles(i)
  <2>1. PICK m \in net : /\ m.kind = "result" /\ m.id = i /\ Accepts(diskJobs[i], m.result)
                         /\ diskJobs'[i] = Completed(diskJobs[i], m.result)
    BY <1>0, <1>5 DEF DiskSettles, Queue
  <2>2. m.result # None BY <2>1, SettlesJob, ContractAssumption
  <2> QED BY <2>1, <2>2, SettlesJob DEF InOrder
<1>6. CASE DiskRecovers
  <2>1. diskJobs'[i] = Recover(diskJobs[i]) /\ diskJobs[i] \in Job \cup {NoJob}
    BY <1>0, <1>6 DEF DiskRecovers, Queue
  <2>2. diskJobs[i].status = "running" => diskJobs[i].resultHash = None
    BY <1>0, <2>1 DEF InOrder, Job, Result, ResultStatus, NoJob
  <2> QED BY <1>0, <2>1, <2>2 DEF Recover, InOrder, Job, NoJob
<1>7. \A id \in JobIds \ {i} :
          DiskAccepts(id) \/ DiskCancels(id) \/ DiskClaims(id) \/ DiskSettles(id)
              => diskJobs'[i] = diskJobs[i]
  BY <1>0 DEF DiskAccepts, DiskCancels, DiskClaims, DiskSettles, Queue
<1> QED BY <1>1, <1>2, <1>3, <1>4, <1>5, <1>6, <1>7 DEF DiskStep

(* A request to cancel and a stored digest stay.                           *)
MarksKept ==
    \A id \in JobIds :
        /\ diskJobs[id].cancelRequested => diskJobs'[id].cancelRequested
        /\ diskJobs[id].resultHash # None => diskJobs'[id].resultHash = diskJobs[id].resultHash
        /\ diskJobs'[id].resultHash # None =>
              \/ diskJobs'[id].resultHash = diskJobs[id].resultHash
              \/ DiskSettles(id)

LEMMA MarksNext ==
    ASSUME Typing, DiskStep
    PROVE  MarksKept
<1> SUFFICES ASSUME NEW i \in JobIds
             PROVE  /\ diskJobs[i].cancelRequested => diskJobs'[i].cancelRequested
                    /\ diskJobs[i].resultHash # None => diskJobs'[i].resultHash = diskJobs[i].resultHash
                    /\ diskJobs'[i].resultHash # None =>
                          \/ diskJobs'[i].resultHash = diskJobs[i].resultHash
                          \/ DiskSettles(i)
  BY DEF MarksKept
<1>0. diskJobs \in Queue BY DiskTypes
<1>1. CASE diskJobs'[i] = diskJobs[i] BY <1>1
<1>2. CASE DiskAccepts(i)
  <2>1. PICK sub \in Submission, now \in Times : diskJobs'[i] = Submitted(sub, now)
    BY <1>0, <1>2 DEF DiskAccepts, Queue
  <2>2. diskJobs[i] = NoJob
    BY <1>0, <1>2, Present DEF DiskAccepts, Exists, Queue, Job, JobStatus, ResultStatus
  <2> QED BY <2>1, <2>2 DEF Submitted, NoJob
<1>3. CASE DiskCancels(i)
  <2>1. diskJobs'[i] = Cancelled(diskJobs[i]) /\ diskJobs[i] \in Job
    BY <1>0, <1>3, Present DEF DiskCancels, Queue, Exists
  <2> QED BY <2>1 DEF Cancelled, Job
<1>4. CASE DiskClaims(i)
  <2>1. PICK s \in Sessions : diskJobs'[i] = Claimed(diskJobs[i], s)
    BY <1>0, <1>4 DEF DiskClaims, Queue
  <2>2. diskJobs[i] \in Job
    BY <1>4, Present DEF DiskClaims, Queued
  <2> QED BY <2>1, <2>2 DEF Claimed, Job
<1>5. CASE DiskSettles(i)
  <2>1. PICK m \in net : /\ m.kind = "result" /\ m.id = i /\ Accepts(diskJobs[i], m.result)
                         /\ diskJobs'[i] = Completed(diskJobs[i], m.result)
    BY <1>0, <1>5 DEF DiskSettles, Queue
  <2> QED BY <1>5, <2>1, SettlesJob
<1>6. CASE DiskRecovers
  <2>1. diskJobs'[i] = Recover(diskJobs[i]) /\ diskJobs[i] \in Job \cup {NoJob}
    BY <1>0, <1>6 DEF DiskRecovers, Queue
  <2> QED BY <2>1 DEF Recover, Job, NoJob
<1>7. \A id \in JobIds \ {i} :
          DiskAccepts(id) \/ DiskCancels(id) \/ DiskClaims(id) \/ DiskSettles(id)
              => diskJobs'[i] = diskJobs[i]
  BY <1>0 DEF DiskAccepts, DiskCancels, DiskClaims, DiskSettles, Queue
<1> QED BY <1>1, <1>2, <1>3, <1>4, <1>5, <1>6, <1>7 DEF DiskStep

LEMMA PayloadNext ==
    ASSUME Typing, PayloadBeforeMetadata, DiskStep, PayloadsKept, MarksKept
    PROVE  PayloadBeforeMetadata'
<1> SUFFICES ASSUME NEW i \in JobIds
             PROVE  /\ diskJobs'[i].resultHash # None => results'[i] = diskJobs'[i].resultHash
                    /\ Exists(diskJobs', i) /\ diskJobs'[i].sub.work \in Bundles
                          => bundles'[i] = diskJobs'[i].sub.work
  BY DEF PayloadBeforeMetadata
<1>0. diskJobs \in Queue BY DiskTypes
<1>1. diskJobs'[i].resultHash # None => results'[i] = diskJobs'[i].resultHash
  <2>1. CASE DiskSettles(i)
    <3>1. PICK m \in net : /\ m.kind = "result" /\ m.id = i /\ Accepts(diskJobs[i], m.result)
                           /\ diskJobs'[i] = Completed(diskJobs[i], m.result)
                           /\ results'[i] = m.result
      BY <1>0, <2>1 DEF DiskSettles, Queue
    <3> QED BY <3>1, SettlesJob
  <2> QED BY <2>1 DEF MarksKept, PayloadsKept, PayloadBeforeMetadata
<1>2. Exists(diskJobs', i) /\ diskJobs'[i].sub.work \in Bundles
          => bundles'[i] = diskJobs'[i].sub.work
  <2>1. CASE DiskAccepts(i)
    <3>1. PICK sub \in Submission, now \in Times :
              diskJobs'[i] = Submitted(sub, now) /\ (sub.work \in Bundles => bundles'[i] = sub.work)
      BY <1>0, <2>1 DEF DiskAccepts, Queue
    <3> QED BY <3>1 DEF Submitted
  <2>2. CASE ~DiskAccepts(i)
    <3>1. Exists(diskJobs', i) => Exists(diskJobs, i) /\ diskJobs'[i].sub = diskJobs[i].sub
      <4>1. CASE diskJobs'[i] = diskJobs[i] BY <4>1 DEF Exists
      <4>2. CASE DiskCancels(i)
        BY <1>0, <4>2, Present, CancelledJob DEF DiskCancels, Queue, Exists
      <4>3. CASE DiskClaims(i)
        <5>1. diskJobs[i] \in Job BY <4>3, Present DEF DiskClaims, Queued
        <5> QED BY <1>0, <4>3, <5>1, ClaimedJob DEF DiskClaims, Queue, Exists, Queued
      <4>4. CASE DiskSettles(i)
        <5>1. PICK m \in net : /\ m.kind = "result" /\ m.id = i /\ Accepts(diskJobs[i], m.result)
                               /\ diskJobs'[i] = Completed(diskJobs[i], m.result)
          BY <1>0, <4>4 DEF DiskSettles, Queue
        <5> QED BY <5>1, SettlesJob DEF Exists
      <4>5. CASE DiskRecovers
        BY <1>0, <4>5 DEF DiskRecovers, Queue, Recover, Job, NoJob, Exists
      <4>6. \A id \in JobIds \ {i} :
                DiskAccepts(id) \/ DiskCancels(id) \/ DiskClaims(id) \/ DiskSettles(id)
                    => diskJobs'[i] = diskJobs[i]
        BY <1>0 DEF DiskAccepts, DiskCancels, DiskClaims, DiskSettles, Queue
      <4> QED BY <2>2, <4>1, <4>2, <4>3, <4>4, <4>5, <4>6 DEF DiskStep
    <3> QED BY <3>1 DEF PayloadsKept, PayloadBeforeMetadata
  <2> QED BY <2>1, <2>2
<1> QED BY <1>1, <1>2

-----------------------------------------------------------------------------
(* What the broker and the operator may do to a process: nothing, take its *)
(* assignment away, or hand it one of its node.                            *)
Rests(p) == pc'[p] = pc[p] /\ cur'[p] = cur[p] /\ snap'[p] = snap[p] /\ out'[p] = out[p]

Released(p) == pc'[p] \notin Holding

Given(p) ==
    /\ pc'[p] = "got"
    /\ snap'[p].sub.node = Node(p)
    /\ snap'[p].cancelRequested => diskJobs'[cur'[p]].cancelRequested

Attended == \A p \in Procs : Rests(p) \/ Released(p) \/ Given(p)

LEMMA ExitReleases ==
    ASSUME Typing, NEW p \in Procs, Exit(p)
    PROVE  Released(p) /\ \A q \in Procs \ {p} : Rests(q)
BY DEF Typing, WorkerTyping, WorkerTypeOK, Exit, Released, Rests, Holding

LEMMA RejectedAttends ==
    ASSUME Typing, NEW m \in net, ReplyRejected(m) PROVE Attended
<1>1. m.proc \in Procs BY DEF Typing, NetTyping, Request
<1> QED BY <1>1, ExitReleases DEF ReplyRejected, workerVars, Attended, Rests

LEMMA DoneAttends ==
    ASSUME Typing, NEW m \in net, ReplyDone(m) PROVE Attended
<1>1. m.proc \in Procs BY DEF Typing, NetTyping, Request
<1> QED BY <1>1 DEF ReplyDone, ReplyWith, workerVars, Attended, Rests, Released, Holding,
           Typing, WorkerTyping, WorkerTypeOK

LEMMA JobAttends ==
    ASSUME Typing, NEW m \in net, NEW id, NEW job, ReplyJob(m, id, job),
           job.sub.node = Node(m.proc),
           job.cancelRequested => diskJobs'[id].cancelRequested
    PROVE  Attended
<1>1. m.proc \in Procs BY DEF Typing, NetTyping, Request
<1> QED BY <1>1 DEF ReplyJob, ReplyWith, workerVars, Attended, Rests, Given,
           Typing, WorkerTyping, WorkerTypeOK

LEMMA AnswerAttends ==
    ASSUME Typing, ServingIsDurable, NEW m \in net, Answer(m)
    PROVE  Attended /\ net' \subseteq net /\ UNCHANGED <<workerFiles, history>>
<1>0. jobs \in Queue BY DEF Typing, BrokerTyping, BrokerTypeOK
<1>1. net' \subseteq net /\ UNCHANGED <<workerFiles, history>>
  BY DEF Answer, Unauthorized, NextUnresolved, NextEmpty, NextClaim, ResultAnswered,
     ResultStored, StoreResultFails, Drop, Authorized, Handle
<1> SUFFICES Attended BY <1>1
<1>2. ASSUME NEW id \in JobIds, NextUnresolved(m, id) PROVE Attended
  <2>1. jobs[id] = diskJobs'[id] /\ jobs[id].sub.node = Node(m.proc)
    BY <1>2 DEF NextUnresolved, Unresolved, Authorized, Handle, ServingIsDurable, brokerFiles
  <2> QED BY <1>2, <2>1, JobAttends, RejectedAttends DEF NextUnresolved
<1>3. ASSUME NEW id \in JobIds, NextClaim(m, id) PROVE Attended
  <2> DEFINE next == [jobs EXCEPT ![id] = Claimed(jobs[id], m.sess)]
  <2>1. /\ \/ Save(next, revoked) /\ ReplyJob(m, id, next[id])
           \/ SaveFails(next, revoked) /\ ReplyRejected(m)
        /\ jobs[id].sub.node = Node(m.proc) /\ jobs[id].status = "queued"
    BY <1>3 DEF NextClaim, Oldest, Queued
  <2>2. jobs[id] \in Job /\ next[id] = Claimed(jobs[id], m.sess)
    BY <1>0, <2>1, QueueEntry DEF Queue
  <2>3. next[id].sub.node = Node(m.proc)
    BY <2>1, <2>2 DEF Claimed, Job
  <2> HIDE DEF next
  <2> QED BY <2>1, <2>3, JobAttends, RejectedAttends DEF Save
<1>4. CASE Unauthorized(m) BY <1>4, RejectedAttends DEF Unauthorized
<1>5. CASE NextEmpty(m) BY <1>5, DoneAttends DEF NextEmpty
<1>6. CASE ResultAnswered(m) BY <1>6, DoneAttends, RejectedAttends DEF ResultAnswered
<1>7. CASE ResultStored(m) BY <1>7, DoneAttends, RejectedAttends DEF ResultStored
<1>8. CASE StoreResultFails(m) BY <1>8, RejectedAttends DEF StoreResultFails
<1>9. CASE Drop(m) BY <1>9 DEF Drop, workerVars, Attended, Rests
<1> QED BY <1>1, <1>2, <1>3, <1>4, <1>5, <1>6, <1>7, <1>8, <1>9 DEF Answer

LEMMA BrokerAttends ==
    ASSUME Operator \/ BrokerCrash \/ NewBroker \/ UNCHANGED vars
    PROVE  Attended /\ net' \subseteq net /\ UNCHANGED <<workerFiles, history>>
<1>1. UNCHANGED <<workerVars, workerFiles, net, history>>
  BY DEF Operator, Submit, SubmitBundleFails, Cancel, Revoke, BrokerCrash, NewBroker, vars
<1> QED BY <1>1 DEF workerVars, Attended, Rests

(* No journaled result is replaced.                                        *)
ResultsStay ==
    \A r \in Roots, id \in JobIds :
        journal[r][id].result # None => journal'[r][id] = journal[r][id]

LEMMA EntryTypes ==
    ASSUME Typing, NEW r \in Roots, NEW id \in JobIds
    PROVE  /\ journal[r][id] \in Entry \cup {NoEntry}
           /\ journal[r][id].result # None => journal[r][id].job # None
           /\ journal[r][id].job # None => journal[r][id] \in Entry
<1>1. journal[r][id] \in Entry \cup {NoEntry}
  BY DEF Typing, WorkerFilesTypeOK
<1> QED BY <1>1, ContractAssumption DEF Entry, NoEntry

LEMMA OwnedStays ==
    ASSUME Typing, EntriesAreOwned, OwnersKept, MarksKept, UNCHANGED <<journal, sroot, runs>>
    PROVE  EntriesAreOwned'
<1> SUFFICES ASSUME NEW r \in Roots, NEW id \in JobIds, journal[r][id].job # None
             PROVE  /\ journal[r][id].job = diskJobs'[id].sub
                    /\ journal[r][id].session = diskJobs'[id].session
                    /\ sroot[diskJobs'[id].session] = r
                    /\ diskJobs'[id].sub.node = RootNode[r]
                    /\ journal[r][id].result # None => Honest(id, journal[r][id].result)'
  BY DEF EntriesAreOwned
<1>1. diskJobs[id].session # None
  BY EntryTypes, ContractAssumption DEF EntriesAreOwned, Entry
<1>2. diskJobs'[id].session = diskJobs[id].session /\ diskJobs'[id].sub = diskJobs[id].sub
  BY <1>1 DEF OwnersKept
<1> QED BY <1>2 DEF EntriesAreOwned, MarksKept, Honest

LEMMA ReportsStay ==
    ASSUME Typing, ReportsAreOwn, MarksKept, UNCHANGED <<journal, sroot, runs>>, Attended
    PROVE  ReportsAreOwn'
<1> SUFFICES ASSUME NEW p \in Procs, pc'[p] \in Holding PROVE Consistent(p)'
  BY DEF ReportsAreOwn
<1>1. CASE Given(p) BY <1>1 DEF Given, Consistent, Node
<1>2. CASE Rests(p)
  <2>1. pc[p] \in Holding /\ cur[p] \in JobIds
    BY <1>2 DEF Rests, Typing, WorkerTyping, ProcShape
  <2>2. cur'[p] = cur[p] /\ snap'[p] = snap[p] /\ out'[p] = out[p] /\ pc'[p] = pc[p]
    BY <1>2 DEF Rests
  <2>3. Journal(p)' = Journal(p) BY <2>2 DEF Journal
  <2>4. Honest(cur[p], out[p]) => Honest(cur[p], out[p])'
    BY <2>1, <2>2 DEF Honest, MarksKept
  <2> QED BY <2>1, <2>2, <2>3, <2>4 DEF ReportsAreOwn, Consistent, MarksKept, Node
<1> QED BY <1>1, <1>2 DEF Attended, Released

LEMMA JournaledStays ==
    ASSUME Typing, ResultsAreJournaled, ResultsStay, PayloadsKept,
           \A m \in net' \ net : m.kind = "result" =>
               /\ journal'[RootOf[m.proc]][m.id].result = m.result
               /\ journal'[RootOf[m.proc]][m.id].session = m.sess
    PROVE  ResultsAreJournaled'
<1>1. ASSUME NEW m \in net, m.kind = "result"
      PROVE  /\ journal'[RootOf[m.proc]][m.id].result = m.result
             /\ journal'[RootOf[m.proc]][m.id].session = m.sess
             /\ RootOf[m.proc] \in Roots
  <2>1. m.id \in JobIds /\ m.result # None /\ RootOf[m.proc] \in Roots
    BY <1>1, DiskTypes, ContractAssumption, NodeAssumption DEF Typing, NetTyping, Request
  <2> QED BY <1>1, <2>1 DEF ResultsAreJournaled, ResultsStay
<1>2. ASSUME NEW id \in JobIds, results'[id] # None
      PROVE  \E r \in Roots : journal'[r][id].result = results'[id]
  <2>1. CASE results'[id] = results[id]
    BY <1>2, <2>1 DEF ResultsAreJournaled, ResultsStay
  <2>2. CASE \E m \in net : m.kind = "result" /\ m.id = id /\ results'[id] = m.result
    BY <1>1, <2>2
  <2> QED BY <2>1, <2>2 DEF PayloadsKept
<1> QED BY <1>1, <1>2 DEF ResultsAreJournaled

-----------------------------------------------------------------------------
(* The processes of other directories do not notice what a worker writes.  *)
LEMMA Strangers ==
    ASSUME SessionsAreExclusive, NEW p \in Procs, NEW q \in Procs \ {p},
           pc[p] # "off", pc[q] # "off"
    PROVE  RootOf[q] # RootOf[p]
BY DEF SessionsAreExclusive

(* Writing an entry for the own assignment, with the result that is there  *)
(* already or where there is none.                                         *)
Writes(p, r) ==
    /\ journal' = [journal EXCEPT ![RootOf[p]][cur[p]] = JournalEntry(p, r)]
    /\ Journal(p).result \in {None, r}
    /\ sroot[snap[p].session] = RootOf[p]
    /\ r # None => Honest(cur[p], r)

LEMMA WriteFacts ==
    ASSUME Typing, AssignmentIsDurable, NEW p \in Procs, pc[p] \in Holding,
           NEW r \in Result \cup {None}, Writes(p, r)
    PROVE  /\ RootOf[p] \in Roots /\ cur[p] \in JobIds
           /\ \A d \in Roots, id \in JobIds :
                 ~(d = RootOf[p] /\ id = cur[p]) => journal'[d][id] = journal[d][id]
           /\ journal'[RootOf[p]][cur[p]] = JournalEntry(p, r)
           /\ journal'[RootOf[p]][cur[p]].job = diskJobs[cur[p]].sub
           /\ journal'[RootOf[p]][cur[p]].session = diskJobs[cur[p]].session
           /\ journal'[RootOf[p]][cur[p]].result = r
<1>1. RootOf[p] \in Roots /\ cur[p] \in JobIds
  BY NodeAssumption DEF Typing, WorkerTyping, ProcShape
<1>2. journal \in [Roots -> [JobIds -> Entry \cup {NoEntry}]]
  BY DEF Typing, WorkerFilesTypeOK
<1>3. journal' = [journal EXCEPT ![RootOf[p]][cur[p]] = JournalEntry(p, r)]
  BY DEF Writes
<1>4. journal'[RootOf[p]][cur[p]] = JournalEntry(p, r)
  BY <1>1, <1>2, <1>3
<1>5. \A d \in Roots, id \in JobIds :
          ~(d = RootOf[p] /\ id = cur[p]) => journal'[d][id] = journal[d][id]
  BY <1>1, <1>2, <1>3
<1> QED BY <1>1, <1>4, <1>5 DEF JournalEntry, AssignmentIsDurable

LEMMA WriteOwned ==
    ASSUME Typing, AssignmentIsDurable, EntriesAreOwned, ReportsAreOwn,
           NEW p \in Procs, pc[p] \in Holding, NEW r \in Result \cup {None}, Writes(p, r),
           UNCHANGED <<diskJobs, sroot, runs>>
    PROVE  EntriesAreOwned' /\ ResultsStay
<1>0. /\ RootOf[p] \in Roots /\ cur[p] \in JobIds
      /\ \A d \in Roots, id \in JobIds :
            ~(d = RootOf[p] /\ id = cur[p]) => journal'[d][id] = journal[d][id]
      /\ journal'[RootOf[p]][cur[p]] = JournalEntry(p, r)
      /\ journal'[RootOf[p]][cur[p]].job = diskJobs[cur[p]].sub
      /\ journal'[RootOf[p]][cur[p]].session = diskJobs[cur[p]].session
      /\ journal'[RootOf[p]][cur[p]].result = r
  BY WriteFacts
<1>1. EntriesAreOwned'
  <2> SUFFICES ASSUME NEW d \in Roots, NEW id \in JobIds, journal'[d][id].job # None
               PROVE  /\ journal'[d][id].job = diskJobs[id].sub
                      /\ journal'[d][id].session = diskJobs[id].session
                      /\ sroot[diskJobs[id].session] = d
                      /\ diskJobs[id].sub.node = RootNode[d]
                      /\ journal'[d][id].result # None => Honest(id, journal'[d][id].result)
    BY DEF EntriesAreOwned, Honest
  <2>1. CASE d = RootOf[p] /\ id = cur[p]
    <3>1. diskJobs[cur[p]].session = snap[p].session /\ diskJobs[cur[p]].sub = snap[p].sub
      BY DEF AssignmentIsDurable
    <3>2. snap[p].sub.node = RootNode[RootOf[p]]
      BY DEF ReportsAreOwn, Consistent, Node
    <3> QED BY <1>0, <2>1, <3>1, <3>2 DEF Writes
  <2>2. CASE ~(d = RootOf[p] /\ id = cur[p])
    BY <1>0, <2>2 DEF EntriesAreOwned
  <2> QED BY <2>1, <2>2
<1>2. ResultsStay
  <2> SUFFICES ASSUME journal[RootOf[p]][cur[p]].result # None
               PROVE  JournalEntry(p, r) = journal[RootOf[p]][cur[p]]
    BY <1>0 DEF ResultsStay
  <2>1. journal[RootOf[p]][cur[p]] \in Entry /\ journal[RootOf[p]][cur[p]].result = r
    BY <1>0, EntryTypes DEF Writes, Journal
  <2>2. /\ journal[RootOf[p]][cur[p]].job = snap[p].sub
        /\ journal[RootOf[p]][cur[p]].session = snap[p].session
    BY <1>0, EntryTypes DEF EntriesAreOwned, AssignmentIsDurable
  <2> QED BY <2>1, <2>2 DEF Entry, JournalEntry
<1> QED BY <1>1, <1>2

(* A step of another process leaves a report as it is.                     *)
LEMMA BystanderReport ==
    ASSUME Typing, SessionsAreExclusive, AssignmentIsDurable, ReportsAreOwn,
           NEW p \in Procs, pc[p] # "off", NEW q \in Procs \ {p}, pc[q] \in Holding, Rests(q),
           UNCHANGED <<diskJobs, sroot, runs>>,
           \A d \in Roots, id \in JobIds : d # RootOf[p] => journal'[d][id] = journal[d][id]
    PROVE  Consistent(q)'
<1>1. RootOf[q] # RootOf[p] BY Strangers DEF Holding
<1>2. cur[q] \in JobIds /\ RootOf[q] \in Roots
  BY NodeAssumption DEF Typing, WorkerTyping, ProcShape
<1>3. pc'[q] = pc[q] /\ cur'[q] = cur[q] /\ snap'[q] = snap[q] /\ out'[q] = out[q]
  BY DEF Rests
<1>4. Journal(q)' = Journal(q) BY <1>1, <1>2, <1>3 DEF Journal
<1>5. Honest(cur[q], out[q])' <=> Honest(cur[q], out[q]) BY <1>3 DEF Honest
<1>6. Consistent(q) BY DEF ReportsAreOwn
<1> QED BY <1>3, <1>4, <1>5, <1>6 DEF Consistent, Node

LEMMA StepFrame ==
    ASSUME Typing, NEW p \in Procs, Step(p)
    PROVE  /\ OwnersKept /\ MarksKept /\ PayloadsKept
           /\ UNCHANGED <<diskJobs, sroot>>
           /\ pc[p] # "off"
           /\ \A q \in Procs \ {p} : Rests(q)
<1>1. UNCHANGED <<diskJobs, results, bundles>>
  BY BrokerIdle DEF brokerFiles
<1>2. UNCHANGED sroot /\ pc[p] # "off"
  BY DEF Step, Poll, Retry, GiveUp, NoAnswer, Refuse, Reconcile, Intend, Skip, Execute, Finish,
     PulseCancels, PulseFails, Ends, Record, Shutdown, WorkerCrash, history
<1>3. ASSUME NEW q \in Procs \ {p} PROVE Rests(q)
  <2>1. CASE \E r : Ends(p, r)
    BY <2>1 DEF Ends, Rests, Typing, WorkerTyping, WorkerTypeOK
  <2>2. CASE Exit(p) BY <2>2, ExitReleases
  <2> QED BY <2>1, <2>2 DEF Step, Poll, Retry, GiveUp, Refuse, Reconcile, Intend, Skip, Execute,
       Finish, PulseCancels, PulseFails, Record, Shutdown, WorkerCrash, Rests,
       Typing, WorkerTyping, WorkerTypeOK
<1> QED BY <1>1, <1>2, <1>3 DEF OwnersKept, MarksKept, PayloadsKept

Reported ==
    EntriesAreOwned' /\ ReportsAreOwn' /\ ResultsAreJournaled' /\ ResultsStay

(* A step that writes no entry, starts nothing and sends what it may send. *)
LEMMA QuietStep ==
    ASSUME Typing, Ownership, Outcomes, NEW p \in Procs, Step(p),
           UNCHANGED <<journal, runs>>,
           pc'[p] \in Holding => Consistent(p)',
           \A m \in net' \ net : m.kind = "result" =>
               /\ journal'[RootOf[m.proc]][m.id].result = m.result
               /\ journal'[RootOf[m.proc]][m.id].session = m.sess
    PROVE  Reported
<1>1. /\ OwnersKept /\ MarksKept /\ PayloadsKept /\ UNCHANGED <<diskJobs, sroot>>
      /\ pc[p] # "off" /\ \A q \in Procs \ {p} : Rests(q)
  BY StepFrame
<1>2. EntriesAreOwned' BY <1>1, OwnedStays DEF Outcomes
<1>3. ResultsStay BY DEF ResultsStay
<1>4. ResultsAreJournaled' BY <1>1, <1>3, JournaledStays DEF Outcomes
<1>5. ASSUME NEW q \in Procs, pc'[q] \in Holding PROVE Consistent(q)'
  <2>1. CASE q = p BY <1>5, <2>1
  <2>2. CASE q # p
    <3>1. pc[q] \in Holding BY <1>1, <1>5, <2>2 DEF Rests
    <3> QED BY <1>1, <2>2, <3>1, BystanderReport DEF Ownership, Outcomes
  <2> QED BY <2>1, <2>2
<1> QED BY <1>2, <1>3, <1>4, <1>5 DEF Reported, ReportsAreOwn

(* A step that journals the outcome r, or none yet.                        *)
LEMMA WritingStep ==
    ASSUME Typing, Ownership, Outcomes, NEW p \in Procs, Step(p), pc[p] \in Holding,
           NEW r \in Result \cup {None}, Writes(p, r), UNCHANGED runs,
           pc'[p] \in Holding => Consistent(p)',
           \A m \in net' \ net : m.kind = "result" =>
               /\ journal'[RootOf[m.proc]][m.id].result = m.result
               /\ journal'[RootOf[m.proc]][m.id].session = m.sess
    PROVE  Reported
<1>1. /\ PayloadsKept /\ UNCHANGED <<diskJobs, sroot>>
      /\ pc[p] # "off" /\ \A q \in Procs \ {p} : Rests(q)
  BY StepFrame
<1>2. EntriesAreOwned' /\ ResultsStay BY <1>1, WriteOwned DEF Outcomes, Ownership
<1>3. ResultsAreJournaled' BY <1>1, <1>2, JournaledStays DEF Outcomes
<1>4. \A d \in Roots, id \in JobIds : d # RootOf[p] => journal'[d][id] = journal[d][id]
  BY WriteFacts DEF Ownership
<1>5. ASSUME NEW q \in Procs, pc'[q] \in Holding PROVE Consistent(q)'
  <2>1. CASE q = p BY <1>5, <2>1
  <2>2. CASE q # p
    <3>1. pc[q] \in Holding BY <1>1, <1>5, <2>2 DEF Rests
    <3> QED BY <1>1, <1>4, <2>2, <3>1, BystanderReport DEF Ownership, Outcomes
  <2> QED BY <2>1, <2>2
<1> QED BY <1>2, <1>3, <1>5 DEF Reported, ReportsAreOwn

LEMMA ReportLeave ==
    ASSUME Typing, Ownership, Outcomes, NEW p \in Procs,
           GiveUp(p) \/ Refuse(p) \/ WorkerCrash(p)
    PROVE  Reported
<1>1. Step(p) /\ Exit(p) /\ UNCHANGED <<journal, runs, net>>
  BY DEF Step, GiveUp, Refuse, WorkerCrash, workerFiles, history
<1>2. pc'[p] \notin Holding BY <1>1, ExitReleases DEF Released, Holding, Typing, WorkerTyping, WorkerTypeOK
<1> QED BY <1>1, <1>2, QuietStep

LEMMA ReportPoll ==
    ASSUME Typing, Ownership, Outcomes, NEW p \in Procs, Poll(p)
    PROVE  Reported
<1>1. /\ Step(p) /\ UNCHANGED <<journal, runs>> /\ net' = net \cup {NextRequest(p, 1)}
      /\ pc'[p] = "ask"
  BY DEF Step, Poll, workerFiles, history, Typing, WorkerTyping, WorkerTypeOK
<1> QED BY <1>1, QuietStep DEF NextRequest, Holding

(* What a process in "send" repeats is its journaled result, for the       *)
(* session the journal names.                                              *)
LEMMA ReportRetry ==
    ASSUME Typing, Ownership, Outcomes, NEW p \in Procs, Retry(p)
    PROVE  Reported
<1>1. /\ Step(p) /\ UNCHANGED <<journal, runs, pc, cur, snap, out, diskJobs, sroot>>
      /\ net' = net \cup {CurrentRequest(p, tries[p] + 1)}
      /\ pc[p] \in {"ask", "send"}
  BY DEF Step, Retry, NoAnswer, workerFiles, history, brokerFiles
<1>2. pc'[p] \in Holding => Consistent(p)'
  BY <1>1 DEF Outcomes, ReportsAreOwn, Consistent, Node, Journal, Honest
<1>3. CASE pc[p] = "ask"
  BY <1>1, <1>2, <1>3, QuietStep DEF CurrentRequest, NextRequest
<1>4. CASE pc[p] = "send"
  <2>1. RootOf[p] \in Roots /\ cur[p] \in JobIds /\ out[p] # None
    BY <1>4, NodeAssumption, ContractAssumption DEF Typing, WorkerTyping, ProcShape, Holding
  <2>2. Journal(p).result = out[p]
    BY <1>4 DEF Outcomes, ReportsAreOwn, Consistent, Holding
  <2>3. Journal(p).session = diskJobs[cur[p]].session
    BY <2>1, <2>2, EntryTypes DEF Journal, Outcomes, EntriesAreOwned
  <2>4. Journal(p).session = snap[p].session
    BY <1>4, <2>3 DEF Ownership, AssignmentIsDurable, Holding
  <2> QED BY <1>1, <1>2, <1>4, <2>2, <2>4, QuietStep DEF CurrentRequest, ResultRequest, Journal
<1> QED BY <1>1, <1>3, <1>4

LEMMA ReportReconcile ==
    ASSUME Typing, Ownership, Outcomes, NEW p \in Procs, Reconcile(p)
    PROVE  Reported
<1>1. /\ Step(p) /\ UNCHANGED <<journal, runs, net, cur, snap, diskJobs, sroot>>
      /\ pc[p] = "got" /\ pc'[p] = "ran" /\ ~MustStop(p)
      /\ out'[p] = IF Journal(p).result # None THEN Journal(p).result ELSE InterruptedResult
  BY DEF Step, Reconcile, workerFiles, history, brokerFiles, Typing, WorkerTyping, WorkerTypeOK
<1>2. RootOf[p] \in Roots /\ cur[p] \in JobIds
  BY <1>1, NodeAssumption DEF Typing, WorkerTyping, ProcShape, Holding
<1>3. Consistent(p) BY <1>1 DEF Outcomes, ReportsAreOwn, Holding
<1>4. sroot[snap[p].session] = RootOf[p]
  <2>1. CASE Journaled(p)
    <3>1. /\ Journal(p).session = snap[p].session
          /\ Journal(p).session = diskJobs[cur[p]].session
          /\ sroot[diskJobs[cur[p]].session] = RootOf[p]
      BY <1>1, <1>2, <2>1 DEF MustStop, Journaled, Journal, Outcomes, EntriesAreOwned
    <3> QED BY <3>1
  <2>2. CASE ~Journaled(p)
    BY <1>1, <2>2 DEF MustStop, Ownership, SessionsAreExclusive
  <2> QED BY <2>1, <2>2
<1>5. Honest(cur[p], out'[p])
  <2>1. Journal(p).result # None => Honest(cur[p], Journal(p).result)
    BY <1>2, EntryTypes DEF Journal, Outcomes, EntriesAreOwned
  <2>2. Honest(cur[p], InterruptedResult)
    BY DEF Honest, InterruptedResult, CancelResult, SkippedCancel, Executed
  <2> QED BY <1>1, <2>1, <2>2
<1>6. Consistent(p)'
  BY <1>1, <1>3, <1>4, <1>5 DEF Consistent, Node, Journal, Honest
<1> QED BY <1>1, <1>6, QuietStep

LEMMA ReportIntend ==
    ASSUME Typing, Ownership, Outcomes, NEW p \in Procs, Intend(p)
    PROVE  Reported
<1>1. /\ Step(p) /\ UNCHANGED <<runs, net, cur, snap, out, diskJobs, sroot>>
      /\ pc[p] = "got" /\ pc'[p] = "run" /\ ~MustStop(p) /\ ~Journaled(p)
      /\ journal' = [journal EXCEPT ![RootOf[p]][cur[p]] = JournalEntry(p, None)]
  BY DEF Step, Intend, history, brokerFiles, Typing, WorkerTyping, WorkerTypeOK
<1>2. RootOf[p] \in Roots /\ cur[p] \in JobIds
  BY <1>1, NodeAssumption DEF Typing, WorkerTyping, ProcShape, Holding
<1>3. Consistent(p) BY <1>1 DEF Outcomes, ReportsAreOwn, Holding
<1>4. sroot[snap[p].session] = RootOf[p]
  BY <1>1 DEF MustStop, Ownership, SessionsAreExclusive
<1>5. Journal(p).result = None
  BY <1>1, <1>2, EntryTypes DEF Journal, Journaled
<1>6. Writes(p, None)
  BY <1>1, <1>4, <1>5 DEF Writes
<1>7. Journal(p)'.result = None
  BY <1>1, <1>6, WriteFacts DEF Journal, Ownership, Holding
<1>8. Consistent(p)'
  BY <1>1, <1>3, <1>4, <1>7 DEF Consistent, Node
<1> QED BY <1>1, <1>6, <1>8, WritingStep DEF Holding

LEMMA ReportSkip ==
    ASSUME Typing, Ownership, Outcomes, NEW p \in Procs, Skip(p)
    PROVE  Reported
<1>1. /\ Step(p) /\ UNCHANGED <<journal, runs, net, cur, snap, diskJobs, sroot>>
      /\ pc[p] = "run" /\ pc'[p] = "ran"
      /\ \/ snap[p].cancelRequested /\ out'[p] = SkippedCancel
         \/ out'[p] = SkippedFailure
  BY DEF Step, Skip, history, brokerFiles, Typing, WorkerTyping, WorkerTypeOK
<1>2. Consistent(p) BY <1>1 DEF Outcomes, ReportsAreOwn, Holding
<1>3. runs[cur[p]] = 0 BY <1>1 DEF Ownership, StartsAreJournaled
<1>4. Honest(cur[p], out'[p])
  BY <1>1, <1>2, <1>3
  DEF Consistent, Honest, SkippedCancel, SkippedFailure, CancelResult, Executed
<1>5. Consistent(p)'
  BY <1>1, <1>2, <1>4 DEF Consistent, Node, Journal, Honest
<1> QED BY <1>1, <1>5, QuietStep

(* Nobody else works for the session a started job is assigned to.         *)
LEMMA ReportExecute ==
    ASSUME Typing, Ownership, Outcomes, NEW p \in Procs, Execute(p)
    PROVE  Reported
<1>1. /\ Step(p) /\ UNCHANGED <<journal, net, cur, snap, diskJobs, sroot>>
      /\ pc[p] = "run" /\ pc'[p] = "exec"
      /\ runs' = [runs EXCEPT ![cur[p]] = @ + 1]
  BY DEF Step, Execute, brokerFiles, Typing, WorkerTyping, WorkerTypeOK
<1>2. /\ RootOf[p] \in Roots /\ cur[p] \in JobIds /\ runs \in [JobIds -> Nat]
      /\ runs[cur[p]] = 0
  BY <1>1, NodeAssumption
  DEF Typing, WorkerTyping, ProcShape, HistoryTypeOK, Holding, Ownership, StartsAreJournaled
<1>3. runs'[cur[p]] = 1 /\ \A id \in JobIds \ {cur[p]} : runs'[id] = runs[id]
  BY <1>1, <1>2
<1>4. Consistent(p) BY <1>1 DEF Outcomes, ReportsAreOwn, Holding
<1>5. diskJobs[cur[p]].session = snap[p].session
  BY <1>1 DEF Ownership, AssignmentIsDurable, Holding
<1>6. /\ PayloadsKept /\ pc[p] # "off" /\ \A q \in Procs \ {p} : Rests(q)
  BY <1>1, StepFrame
<1>7. \A r \in Roots : journal[r][cur[p]].result = None
  <2> SUFFICES ASSUME NEW r \in Roots, journal[r][cur[p]].result # None PROVE FALSE
    OBVIOUS
  <2>1. sroot[diskJobs[cur[p]].session] = r
    BY <1>2, EntryTypes DEF Outcomes, EntriesAreOwned
  <2> QED BY <1>1, <1>4, <1>5, <2>1 DEF Consistent, Journal
<1>8. EntriesAreOwned'
  <2> SUFFICES ASSUME NEW r \in Roots, NEW id \in JobIds, journal[r][id].result # None,
                      Honest(id, journal[r][id].result)
               PROVE  Honest(id, journal[r][id].result)'
    BY <1>1 DEF Outcomes, EntriesAreOwned
  <2>1. id # cur[p] BY <1>7
  <2> QED BY <1>1, <1>3, <2>1 DEF Honest
<1>9. ResultsStay /\ ResultsAreJournaled'
  <2>1. ResultsStay BY <1>1 DEF ResultsStay
  <2> QED BY <1>1, <1>6, <2>1, JournaledStays DEF Outcomes
<1>10. ASSUME NEW q \in Procs, pc'[q] \in Holding PROVE Consistent(q)'
  <2>1. CASE q = p
    BY <1>1, <1>3, <1>4, <2>1 DEF Consistent, Node, Journal
  <2>2. CASE q # p
    <3>1. /\ pc[q] \in Holding /\ pc'[q] = pc[q] /\ out'[q] = out[q]
      BY <1>6, <1>10, <2>2 DEF Rests
    <3>2. Consistent(q) /\ cur[q] \in JobIds
      BY <3>1 DEF Outcomes, ReportsAreOwn, Typing, WorkerTyping, ProcShape
    <3>3. pc[q] # "got" => cur[q] # cur[p]
      <4> SUFFICES ASSUME pc[q] # "got", cur[q] = cur[p] PROVE FALSE OBVIOUS
      <4>1. snap[q].session = snap[p].session
        BY <1>5, <3>1 DEF Ownership, AssignmentIsDurable
      <4>2. RootOf[q] = RootOf[p]
        BY <1>1, <1>4, <3>2, <4>1 DEF Consistent
      <4> QED BY <1>6, <2>2, <3>1, <4>2, Strangers DEF Ownership, Holding
    <3>4. pc[q] # "got" => runs'[cur[q]] = runs[cur[q]] BY <1>3, <3>2, <3>3
    <3> QED BY <1>1, <3>1, <3>2, <3>4 DEF Consistent, Node, Journal, Honest
  <2> QED BY <2>1, <2>2
<1> QED BY <1>8, <1>9, <1>10 DEF Reported, ReportsAreOwn

(* A workflow that ran is reported as such, and as cancelled at the        *)
(* operator's request only if the broker has saved that request.           *)
LEMMA ReportEnds ==
    ASSUME Typing, Ownership, Outcomes, NEW p \in Procs,
           Finish(p) \/ PulseCancels(p) \/ PulseFails(p)
    PROVE  Reported
<1>0. Step(p) BY DEF Step
<1>1. PICK r : Ends(p, r) /\ (r = CancelResult => PulseCancels(p)) /\ r # SkippedCancel
                          /\ r.cause # "skipped"
  BY DEF Finish, PulseCancels, PulseFails, WorkflowResults, CancelResult, HeartbeatResult, SkippedCancel
<1>2. /\ UNCHANGED <<journal, runs, net, cur, snap, diskJobs, sroot>>
      /\ pc[p] = "exec" /\ pc'[p] = "ran" /\ out'[p] = r
  BY <1>1 DEF Ends, history, brokerFiles, workerFiles, Typing, WorkerTyping, WorkerTypeOK
<1>3. Consistent(p) BY <1>2 DEF Outcomes, ReportsAreOwn, Holding
<1>4. r = CancelResult => diskJobs[cur[p]].cancelRequested
  BY <1>1 DEF PulseCancels, PulseAnswered, Ownership, ServingIsDurable
<1>5. Honest(cur[p], r)
  BY <1>1, <1>2, <1>3, <1>4 DEF Consistent, Honest
<1>6. Consistent(p)'
  BY <1>2, <1>3, <1>5 DEF Consistent, Node, Journal, Honest
<1> QED BY <1>0, <1>2, <1>6, QuietStep

LEMMA ReportRecord ==
    ASSUME Typing, Ownership, Outcomes, NEW p \in Procs, Record(p)
    PROVE  Reported
<1>1. /\ Step(p) /\ UNCHANGED <<runs, cur, snap, out, diskJobs, sroot>>
      /\ pc[p] = "ran" /\ pc'[p] = "send"
      /\ journal' = [journal EXCEPT ![RootOf[p]][cur[p]] = JournalEntry(p, out[p])]
      /\ net' = net \cup {ResultRequest(p, 1)}
  BY DEF Step, Record, history, brokerFiles, Typing, WorkerTyping, WorkerTypeOK
<1>2. out[p] \in Result BY <1>1 DEF Typing, WorkerTyping, ProcShape
<1>3. Consistent(p) BY <1>1 DEF Outcomes, ReportsAreOwn, Holding
<1>4. Writes(p, out[p]) BY <1>1, <1>3 DEF Writes, Consistent
<1>5. /\ journal'[RootOf[p]][cur[p]] = JournalEntry(p, out[p])
      /\ Journal(p)'.result = out[p]
  BY <1>1, <1>2, <1>4, WriteFacts DEF Journal, Ownership, Holding
<1>6. Consistent(p)'
  BY <1>1, <1>3, <1>5 DEF Consistent, Node, Honest
<1>7. \A m \in net' \ net :
          /\ journal'[RootOf[m.proc]][m.id].result = m.result
          /\ journal'[RootOf[m.proc]][m.id].session = m.sess
  BY <1>1, <1>5 DEF ResultRequest, JournalEntry
<1> QED BY <1>1, <1>2, <1>4, <1>6, <1>7, WritingStep DEF Holding

LEMMA ReportShutdown ==
    ASSUME Typing, Ownership, Outcomes, NEW p \in Procs, Shutdown(p)
    PROVE  Reported
<1>1. PICK r \in ShutdownResults :
          journal' = [journal EXCEPT ![RootOf[p]][cur[p]] = JournalEntry(p, r)]
  BY DEF Shutdown
<1>2. /\ Step(p) /\ Exit(p) /\ UNCHANGED <<runs, net, diskJobs, sroot>> /\ pc[p] = "exec"
  BY DEF Step, Shutdown, history, brokerFiles
<1>3. r \in Result /\ r.cause = "shutdown"
  BY DEF ShutdownResults, Result, ResultStatus, Causes, Executed
<1>4. Consistent(p) BY <1>2 DEF Outcomes, ReportsAreOwn, Holding
<1>5. Writes(p, r)
  BY <1>1, <1>2, <1>3, <1>4
  DEF Writes, Consistent, Honest, CancelResult, SkippedCancel, Executed
<1>6. pc'[p] \notin Holding
  BY <1>2, ExitReleases DEF Released
<1> QED BY <1>2, <1>3, <1>5, <1>6, WritingStep DEF Holding

LEMMA ReportStep ==
    ASSUME Typing, Ownership, Outcomes, NEW p \in Procs, Step(p)
    PROVE  Reported
BY ReportLeave, ReportPoll, ReportRetry, ReportReconcile, ReportIntend, ReportSkip,
   ReportExecute, ReportEnds, ReportRecord, ReportShutdown DEF Step

LEMMA ReportBroker ==
    ASSUME Typing, Ownership, Outcomes, OwnersKept, MarksKept, PayloadsKept,
           Operator \/ BrokerCrash \/ NewBroker \/ (\E m \in net : Answer(m)) \/ UNCHANGED vars
    PROVE  Reported
<1>1. Attended /\ net' \subseteq net /\ UNCHANGED <<journal, sroot, runs>>
  BY AnswerAttends, BrokerAttends DEF Ownership, workerFiles, history
<1>2. EntriesAreOwned' BY <1>1, OwnedStays DEF Outcomes
<1>3. ReportsAreOwn' BY <1>1, ReportsStay DEF Outcomes
<1>4. ResultsStay BY <1>1 DEF ResultsStay
<1>5. ResultsAreJournaled' BY <1>1, <1>4, JournaledStays DEF Outcomes
<1> QED BY <1>2, <1>3, <1>4, <1>5 DEF Reported

(* A fresh session owns nothing yet.                                       *)
LEMMA ReportStartWorker ==
    ASSUME Typing, Ownership, Outcomes, OwnersKept, MarksKept, PayloadsKept,
           NEW p \in Procs, NEW s \in Sessions, StartWorker(p, s)
    PROVE  Reported
<1>1. /\ pc[p] = "off" /\ pc' = [pc EXCEPT ![p] = "idle"] /\ sroot' = [sroot EXCEPT ![s] = RootOf[p]]
      /\ UNCHANGED <<cur, snap, out, runs, diskJobs, journal, net>>
  BY DEF StartWorker, brokerFiles, workerFiles
<1>2. /\ \A q \in Procs : snap[q].session # s
      /\ \A id \in JobIds : diskJobs[id].session # s
  BY DEF StartWorker, Fresh
<1>3. /\ pc \in [Procs -> PC] /\ sroot \in [Sessions -> Roots \cup {None}]
      /\ \A q \in Procs : pc[q] \in Holding => snap[q].session \in Sessions
  BY DEF Typing, WorkerTyping, WorkerTypeOK, HistoryTypeOK, ProcShape
<1>4. EntriesAreOwned'
  <2>1. \A r \in Roots, id \in JobIds : journal[r][id].job # None => journal[r][id].session \in Sessions
    BY EntryTypes DEF Entry
  <2> QED BY <1>1, <1>2, <1>3, <2>1 DEF Outcomes, EntriesAreOwned, Honest
<1>5. ASSUME NEW q \in Procs, pc'[q] \in Holding PROVE Consistent(q)'
  <2>1. q # p /\ pc'[q] = pc[q] BY <1>1, <1>3, <1>5 DEF Holding
  <2>2. Consistent(q) BY <1>5, <2>1 DEF Outcomes, ReportsAreOwn
  <2>3. sroot'[snap[q].session] = sroot[snap[q].session]
    BY <1>1, <1>2, <1>3, <1>5, <2>1
  <2> QED BY <1>1, <2>1, <2>2, <2>3 DEF Consistent, Node, Journal, Honest
<1>6. ResultsStay BY <1>1 DEF ResultsStay
<1>7. ResultsAreJournaled' BY <1>1, <1>6, JournaledStays DEF Outcomes
<1> QED BY <1>4, <1>5, <1>6, <1>7 DEF Reported, ReportsAreOwn

LEMMA OutcomesNext ==
    ASSUME Typing, Ownership, Outcomes, [Next]_vars
    PROVE  Outcomes' /\ ResultsStay
<1>1. OwnersKept BY Durability DEF Ownership
<1>2. DiskStep /\ PayloadsKept BY DiskNext DEF Ownership
<1>3. MarksKept BY <1>2, MarksNext
<1>4. StagesAreOrdered' BY <1>2, StagesNext DEF Outcomes
<1>5. PayloadBeforeMetadata' BY <1>2, <1>3, PayloadNext DEF Outcomes
<1>6. Reported
  BY <1>1, <1>2, <1>3, ReportStep, ReportBroker, ReportStartWorker DEF Next
<1> QED BY <1>4, <1>5, <1>6 DEF Reported, Outcomes

LEMMA OutcomesInit == ASSUME Init PROVE Outcomes
<1>1. StagesAreOrdered /\ PayloadBeforeMetadata
  BY DEF Init, StagesAreOrdered, InOrder, PayloadBeforeMetadata, NoJob, Exists
<1>2. EntriesAreOwned /\ ReportsAreOwn /\ ResultsAreJournaled
  BY DEF Init, EntriesAreOwned, ReportsAreOwn, ResultsAreJournaled, NoEntry, Holding
<1> QED BY <1>1, <1>2 DEF Outcomes

(* The inductive invariant that extends Ownership.                         *)
THEOREM OutcomesHold == Spec => [](Typing /\ Ownership /\ Outcomes)
<1>1. Init => Typing /\ Ownership /\ Outcomes
  BY TypingInit, OwnershipInit, OutcomesInit
<1>2. Typing /\ Ownership /\ Outcomes /\ [Next]_vars => (Typing /\ Ownership /\ Outcomes)'
  BY TypingNext, OwnershipNext, OutcomesNext
<1> QED BY <1>1, <1>2, PTL DEF Spec

(* A result that is sent is the one the owner's directory has journaled,   *)
(* and so is one that is stored: they are the same.                        *)
LEMMA ResultsAgree ==
    ASSUME Typing, Ownership, Outcomes, NEW m \in net, m.kind = "result"
    PROVE  /\ Assigned(diskJobs, m.id, Node(m.proc), m.sess)
           /\ Repeats(diskJobs[m.id], m.result) \/ Accepts(diskJobs[m.id], m.result)
           /\ results[m.id] \in {None, m.result}
           /\ Honest(m.id, m.result)
<1> DEFINE d == RootOf[m.proc]
<1>1. /\ m.id \in JobIds /\ m.result \in Result /\ d \in Roots /\ m.sess \in Sessions
  BY DiskTypes, NodeAssumption DEF Typing, NetTyping, Request
<1>2. m.result # None /\ m.sess # None BY <1>1, ContractAssumption
<1>3. journal[d][m.id].result = m.result /\ journal[d][m.id].session = m.sess
  BY DEF Outcomes, ResultsAreJournaled
<1>4. /\ diskJobs[m.id].session = m.sess /\ sroot[m.sess] = d
      /\ diskJobs[m.id].sub.node = RootNode[d]
      /\ Honest(m.id, m.result)
  BY <1>1, <1>2, <1>3, EntryTypes DEF Outcomes, EntriesAreOwned
<1>5. InOrder(diskJobs[m.id]) BY <1>1 DEF Outcomes, StagesAreOrdered
<1>6. results[m.id] \in {None, m.result}
  <2> SUFFICES ASSUME results[m.id] # None PROVE results[m.id] = m.result OBVIOUS
  <2>1. PICK r \in Roots : journal[r][m.id].result = results[m.id]
    BY <1>1 DEF Outcomes, ResultsAreJournaled
  <2>2. r = d
    BY <1>1, <1>4, <2>1, EntryTypes DEF Outcomes, EntriesAreOwned
  <2> QED BY <1>3, <2>1, <2>2
<1>7. diskJobs[m.id].resultHash # None => diskJobs[m.id].resultHash = m.result
  BY <1>1, <1>6 DEF Outcomes, PayloadBeforeMetadata
<1>8. diskJobs[m.id].resultHash = None => diskJobs[m.id].status \in {"running", "unknown"}
  BY <1>2, <1>4, <1>5 DEF InOrder
<1>9. diskJobs[m.id].status # "absent"
  BY <1>1, <1>2, <1>4, DiskTypes, NodeAssumption, ContractAssumption
  DEF Queue, NoJob, Job, JobStatus, ResultStatus
<1> QED BY <1>2, <1>4, <1>6, <1>7, <1>8, <1>9 DEF Assigned, Exists, Repeats, Accepts, Node

(* A delivery that was interrupted anywhere, repeated or late, is never    *)
(* refused for another reason than a revocation.                           *)
THEOREM DeliveriesAreAccepted == Spec => []DeliveryNeverConflicts
<1>1. Typing /\ Ownership /\ Outcomes => DeliveryNeverConflicts
  BY ResultsAgree DEF DeliveryNeverConflicts
<1> QED BY <1>1, OutcomesHold, PTL

(* Result and bundle files are in place before broker.json points at them. *)
THEOREM PayloadsComeFirst == Spec => []PayloadBeforeMetadata
<1>1. Typing /\ Ownership /\ Outcomes => PayloadBeforeMetadata
  BY DEF Outcomes
<1> QED BY <1>1, OutcomesHold, PTL

(* A worker reports a cancellation only after the broker saved the request *)
(* for it.                                                                 *)
THEOREM CancelsWereRequested == Spec => []CancelWasRequested
<1>1. Typing /\ Ownership /\ Outcomes => CancelWasRequested
  <2> SUFFICES ASSUME Typing, Outcomes, NEW r \in Roots, NEW id \in JobIds,
                      journal[r][id].result \in {CancelResult, SkippedCancel}
               PROVE  diskJobs[id].cancelRequested
    BY DEF CancelWasRequested
  <2>1. journal[r][id].result # None
    BY ContractAssumption
    DEF CancelResult, SkippedCancel, Result, ResultStatus, Causes, Executed
  <2> QED BY <2>1, EntryTypes DEF Outcomes, EntriesAreOwned, Honest
<1> QED BY <1>1, OutcomesHold, PTL

(* No process, however it comes to work on a job again, replaces the       *)
(* result its directory has journaled.                                     *)
THEOREM JournalsAreFinal == Spec => JournalIsFinal
<1>1. Typing /\ Ownership /\ Outcomes /\ [Next]_vars
          => [\A r \in Roots, id \in JobIds :
                 journal[r][id].result # None => journal'[r][id] = journal[r][id]]_vars
  BY OutcomesNext DEF ResultsStay
<1> QED BY <1>1, OutcomesHold, PTL DEF Spec, JournalIsFinal

-----------------------------------------------------------------------------
(* The refinement: each transition of broker.json is a step of the ledger. *)
Mapped == [id \in JobIds |-> LedgerEntry(diskJobs[id])]

LEMMA MappedOne ==
    ASSUME Typing, NEW id \in JobIds, \A i \in JobIds \ {id} : diskJobs'[i] = diskJobs[i]
    PROVE  Mapped' = [Mapped EXCEPT ![id] = LedgerEntry(diskJobs'[id])]
BY DEF Mapped

LEMMA LedgerAccepts ==
    ASSUME Typing, NEW id \in JobIds, DiskAccepts(id), UNCHANGED runs
    PROVE  Ledger!Accept(id)
<1>1. PICK sub \in Submission, now \in Times :
          ~Exists(diskJobs, id) /\ diskJobs' = [diskJobs EXCEPT ![id] = Submitted(sub, now)]
  BY DEF DiskAccepts
<1>2. diskJobs \in Queue BY DiskTypes
<1>3. diskJobs[id] = NoJob
  BY <1>1, <1>2, Present DEF Exists, Queue, Job, JobStatus, ResultStatus
<1> DEFINE Rec == [phase : {"absent", "queued"}, sub : {None, sub}, owner : {None}, outcome : {None}]
           old == Mapped[id]
           new == LedgerEntry(diskJobs'[id])
<1>4. old \in Rec /\ old.phase = "absent"
  BY <1>3 DEF LedgerEntry, NoJob, Mapped
<1>5. new \in Rec /\ new.phase = "queued" /\ new.sub = sub
  BY <1>1, <1>2 DEF LedgerEntry, Submitted, Queue
<1>6. Mapped' = [Mapped EXCEPT ![id] = new]
  BY <1>1, <1>2, MappedOne DEF Queue
<1> HIDE DEF old, new
<1>7. [old EXCEPT !.phase = "queued", !.sub = sub] = new BY <1>4, <1>5
<1>8. Mapped' = [Mapped EXCEPT ![id].phase = "queued", ![id].sub = sub]
  BY <1>6, <1>7 DEF old
<1> QED BY <1>4, <1>8
  DEF Ledger!Accept, Ledger!Submission, Ledger!Works, Submission, Works, Mapped, old

LEMMA LedgerWithdraws ==
    ASSUME Typing, StagesAreOrdered, NEW id \in JobIds, DiskCancels(id), UNCHANGED runs
    PROVE  Ledger!Withdraw(id) \/ Mapped' = Mapped
<1> DEFINE job == diskJobs[id]
           Rec == [phase : {"queued", "withdrawn"}, sub : {job.sub}, owner : {job.session},
                   outcome : {None}]
           old == Mapped[id]
           new == LedgerEntry(Cancelled(job))
<1>1. diskJobs \in Queue /\ JobShape(diskJobs) BY DiskTypes
<1>2. /\ job \in Job /\ job.resultHash = None
      /\ diskJobs' = [diskJobs EXCEPT ![id] = Cancelled(job)]
  BY Present DEF DiskCancels, Exists, Cancellable
<1>3. Mapped' = [Mapped EXCEPT ![id] = new]
  BY <1>1, <1>2, MappedOne DEF Queue
<1>4. CASE job.status = "queued"
  <2>1. old \in Rec /\ old.phase = "queued"
    BY <1>2, <1>4 DEF LedgerEntry, Mapped
  <2>2. new \in Rec /\ new.phase = "withdrawn"
    BY <1>2, <1>4 DEF LedgerEntry, Cancelled, Job
  <2> HIDE DEF old, new
  <2>3. [old EXCEPT !.phase = "withdrawn"] = new BY <2>1, <2>2
  <2>4. Mapped' = [Mapped EXCEPT ![id].phase = "withdrawn"]
    BY <1>3, <2>3 DEF old
  <2> QED BY <2>1, <2>4 DEF Ledger!Withdraw, Mapped, old
<1>5. CASE job.status # "queued"
  <2>1. new = LedgerEntry(job)
    BY <1>2, <1>5 DEF LedgerEntry, Cancelled, Job
  <2> QED BY <1>3, <2>1 DEF Mapped
<1> QED BY <1>4, <1>5

(* A claim: no other job of the node is assigned, or settled as unknown.   *)
LEMMA LedgerAssigns ==
    ASSUME Typing, StagesAreOrdered, NEW id \in JobIds, DiskClaims(id), UNCHANGED runs
    PROVE  Ledger!Assign(id)
<1> DEFINE job == diskJobs[id]
<1>1. PICK s \in Sessions :
          /\ id \in Queued(diskJobs, job.sub.node)
          /\ Unresolved(diskJobs, job.sub.node) = {}
          /\ diskJobs' = [diskJobs EXCEPT ![id] = Claimed(job, s)]
  BY DEF DiskClaims
<1>2. diskJobs \in Queue BY DiskTypes
<1>3. job \in Job /\ job.status = "queued" /\ InOrder(job)
  BY <1>1, Present DEF Queued, StagesAreOrdered
<1>4. job.resultHash = None BY <1>3 DEF InOrder, Job, Result, ResultStatus
<1> DEFINE Rec == [phase : {"queued", "assigned"}, sub : {job.sub}, owner : {job.session, s},
                   outcome : {None}]
           old == Mapped[id]
           new == LedgerEntry(Claimed(job, s))
<1>5. old \in Rec /\ old.phase = "queued"
  BY <1>3, <1>4 DEF LedgerEntry, Mapped
<1>6. new \in Rec /\ new.phase = "assigned" /\ new.owner = s
  BY <1>3, <1>4 DEF LedgerEntry, Claimed, Job
<1>7. Mapped' = [Mapped EXCEPT ![id] = new]
  BY <1>1, <1>2, MappedOne DEF Queue
<1> HIDE DEF old, new
<1>8. [old EXCEPT !.phase = "assigned", !.owner = s] = new BY <1>5, <1>6
<1>9. Mapped' = [Mapped EXCEPT ![id].phase = "assigned", ![id].owner = s]
  BY <1>7, <1>8 DEF old
<1>10. ASSUME NEW other \in JobIds PROVE ~Ledger!Blocks(Mapped[other], old.sub.node)
  <2> DEFINE it == diskJobs[other]
  <2>1. Mapped[other] = LedgerEntry(it) /\ old.sub.node = job.sub.node
    BY <1>5 DEF Mapped
  <2>2. it.sub.node = job.sub.node => it.status \notin {"running", "unknown"}
    BY <1>1 DEF Unresolved
  <2>3. InOrder(it) /\ (it.status # "absent" => it \in Job)
    BY Present DEF StagesAreOrdered
  <2>4. CASE it.resultHash # None
    <3>1. it.status = it.resultHash.status BY <2>3, <2>4 DEF InOrder
    <3>2. Mapped[other].phase = "settled" /\ Mapped[other].outcome = it.resultHash
          /\ Mapped[other].sub = it.sub
      BY <2>1, <2>4 DEF LedgerEntry
    <3> QED BY <2>1, <2>2, <3>1, <3>2 DEF Ledger!Blocks
  <2>5. CASE it.resultHash = None
    <3>1. /\ Mapped[other].phase = IF it.status \in {"absent", "queued"} THEN it.status
                                   ELSE IF it.status = "cancelled" THEN "withdrawn" ELSE "assigned"
          /\ Mapped[other].sub = it.sub
      BY <2>1, <2>5 DEF LedgerEntry
    <3>2. it.status \in {"absent", "queued", "cancelled", "running", "unknown"}
      BY <2>3, <2>5 DEF InOrder
    <3> QED BY <2>1, <2>2, <3>1, <3>2 DEF Ledger!Blocks
  <2> QED BY <2>4, <2>5
<1> QED BY <1>5, <1>9, <1>10 DEF Ledger!Assign, Mapped, old
(* The first delivery of a result: it tells the truth about the execution. *)
LEMMA LedgerSettles ==
    ASSUME Typing, Ownership, Outcomes, NEW id \in JobIds, DiskSettles(id), UNCHANGED runs
    PROVE  Ledger!Settle(id)
<1> DEFINE job == diskJobs[id]
<1>1. PICK m \in net :
          /\ m.kind = "result" /\ m.id = id /\ Accepts(job, m.result)
          /\ diskJobs' = [diskJobs EXCEPT ![id] = Completed(job, m.result)]
  BY DEF DiskSettles
<1>2. diskJobs \in Queue BY DiskTypes
<1>3. /\ job \in Job /\ m.result \in Result /\ m.result # None
      /\ job.resultHash = None /\ job.status \in {"running", "unknown"}
  BY <1>1, SettlesJob, ContractAssumption
<1> DEFINE Rec == [phase : {"assigned", "settled"}, sub : {job.sub}, owner : {job.session},
                   outcome : {None, m.result}]
           old == Mapped[id]
           new == LedgerEntry(Completed(job, m.result))
<1>4. old \in Rec /\ old.phase = "assigned"
  BY <1>3 DEF LedgerEntry, Mapped
<1>5. new \in Rec /\ new.phase = "settled" /\ new.outcome = m.result
  BY <1>1, <1>3, SettlesJob DEF LedgerEntry
<1>6. Mapped' = [Mapped EXCEPT ![id] = new]
  BY <1>1, <1>2, MappedOne DEF Queue
<1>7. Ledger!Truthful(id, m.result)
  <2>1. Honest(id, m.result) BY <1>1, ResultsAgree
  <2> QED BY <2>1 DEF Honest, Ledger!Truthful, Ledger!Executed, Executed
<1> HIDE DEF old, new
<1>8. [old EXCEPT !.phase = "settled", !.outcome = m.result] = new BY <1>4, <1>5
<1>9. Mapped' = [Mapped EXCEPT ![id].phase = "settled", ![id].outcome = m.result]
  BY <1>6, <1>8 DEF old
<1> QED BY <1>3, <1>4, <1>7, <1>9
  DEF Ledger!Settle, Ledger!Result, Ledger!ResultStatus, Ledger!Causes, Ledger!Executed,
      Result, ResultStatus, Causes, Executed, Mapped, old

(* The ledger does not tell running from unknown.                          *)
LEMMA LedgerRecovers ==
    ASSUME Typing, StagesAreOrdered, DiskRecovers PROVE Mapped' = Mapped
<1>1. ASSUME NEW id \in JobIds PROVE LedgerEntry(Recover(diskJobs[id])) = LedgerEntry(diskJobs[id])
  <2>1. CASE diskJobs[id].status = "running"
    <3>1. diskJobs[id] \in Job /\ diskJobs[id].resultHash = None
      BY <2>1, Present DEF StagesAreOrdered, InOrder, Job, Result, ResultStatus
    <3> QED BY <2>1, <3>1 DEF LedgerEntry, Recover, Job
  <2>2. CASE diskJobs[id].status # "running" BY <2>2 DEF Recover
  <2> QED BY <2>1, <2>2
<1> QED BY <1>1 DEF DiskRecovers, Mapped

(* The start of a workflow: its job is assigned and has no outcome, or the *)
(* journal of the process that starts it would have a result.              *)
LEMMA LedgerStarts ==
    ASSUME Typing, Ownership, Outcomes, NEW p \in Procs, Execute(p)
    PROVE  Ledger!Start(cur[p])
<1> DEFINE job == diskJobs[cur[p]]
<1>1. /\ pc[p] = "run" /\ diskJobs' = diskJobs /\ runs' = [runs EXCEPT ![cur[p]] = @ + 1]
  BY DEF Execute, brokerFiles
<1>2. /\ RootOf[p] \in Roots /\ cur[p] \in JobIds /\ runs \in [JobIds -> Nat]
      /\ snap[p].session \in Sessions /\ runs[cur[p]] = 0
  BY <1>1, NodeAssumption
  DEF Typing, WorkerTyping, ProcShape, HistoryTypeOK, Holding, Ownership, StartsAreJournaled
<1>3. /\ job.session = snap[p].session
      /\ sroot[snap[p].session] = RootOf[p] /\ Journal(p).result = None
  BY <1>1 DEF Ownership, AssignmentIsDurable, Outcomes, ReportsAreOwn, Consistent, Holding
<1>4. results[cur[p]] = None
  <2> SUFFICES ASSUME results[cur[p]] # None PROVE FALSE OBVIOUS
  <2>1. PICK r \in Roots : journal[r][cur[p]].result = results[cur[p]]
    BY <1>2 DEF Outcomes, ResultsAreJournaled
  <2>2. r = RootOf[p]
    BY <1>2, <1>3, <2>1, EntryTypes DEF Outcomes, EntriesAreOwned
  <2> QED BY <1>3, <2>1, <2>2 DEF Journal
<1>5. job.resultHash = None BY <1>2, <1>4 DEF Outcomes, PayloadBeforeMetadata
<1>6. job.status \in {"running", "unknown"}
  BY <1>2, <1>3, <1>5, ContractAssumption DEF Outcomes, StagesAreOrdered, InOrder
<1>7. Mapped[cur[p]].phase = "assigned"
  BY <1>2, <1>5, <1>6 DEF LedgerEntry, Mapped
<1>8. runs' = [runs EXCEPT ![cur[p]] = 1] BY <1>1, <1>2
<1> QED BY <1>1, <1>2, <1>7, <1>8 DEF Ledger!Start, Mapped

LEMMA RunsKept ==
    ASSUME Typing, Ownership, [Next]_vars, \A p \in Procs : ~Execute(p)
    PROVE  UNCHANGED runs
<1>1. CASE UNCHANGED vars BY <1>1 DEF vars, history
<1>2. CASE Operator \/ BrokerCrash \/ NewBroker
  BY <1>2, CalmBroker DEF Ownership, history
<1>3. CASE \E m \in net : Answer(m)
  BY <1>3, CalmAnswer DEF Ownership, history
<1>4. CASE \E p \in Procs, s \in Sessions : StartWorker(p, s)
  BY <1>4 DEF StartWorker
<1>5. CASE \E p \in Procs : Step(p)
  BY <1>5, CalmStep DEF Ownership, history, Intend
<1> QED BY <1>1, <1>2, <1>3, <1>4, <1>5 DEF Next

LEMMA LedgerNexts ==
    ASSUME Typing, Ownership, Outcomes, [Next]_vars
    PROVE  [Ledger!LedgerNext]_(Ledger!ledgerVars)
<1>1. CASE \E p \in Procs : Execute(p)
  <2>1. PICK p \in Procs : Execute(p) BY <1>1
  <2>2. cur[p] \in JobIds
    BY <2>1 DEF Execute, Typing, WorkerTyping, ProcShape, Holding
  <2> QED BY <2>1, <2>2, LedgerStarts DEF Ledger!LedgerNext
<1>2. CASE \A p \in Procs : ~Execute(p)
  <2>1. UNCHANGED runs BY <1>2, RunsKept
  <2>2. DiskStep BY DiskNext DEF Ownership
  <2>3. CASE UNCHANGED diskJobs \/ DiskRecovers
    <3>1. Mapped' = Mapped BY <2>3, LedgerRecovers DEF Mapped, Outcomes
    <3> QED BY <2>1, <3>1 DEF Ledger!ledgerVars, Mapped
  <2>4. ASSUME NEW id \in JobIds,
               DiskAccepts(id) \/ DiskCancels(id) \/ DiskClaims(id) \/ DiskSettles(id)
        PROVE  [Ledger!LedgerNext]_(Ledger!ledgerVars)
    <3>1. \/ Ledger!Accept(id) \/ Ledger!Withdraw(id) \/ Ledger!Assign(id) \/ Ledger!Settle(id)
          \/ Mapped' = Mapped
      BY <2>1, <2>4, LedgerAccepts, LedgerWithdraws, LedgerAssigns, LedgerSettles DEF Outcomes
    <3>2. CASE Mapped' = Mapped BY <2>1, <3>2 DEF Ledger!ledgerVars, Mapped
    <3> QED BY <3>1, <3>2 DEF Ledger!LedgerNext
  <2> QED BY <2>2, <2>3, <2>4 DEF DiskStep
<1> QED BY <1>1, <1>2

(* The broker's file and the workflows that are started implement the      *)
(* operator's ledger: accepted once, withdrawn or assigned once, started   *)
(* at most once, settled once and truthfully, through crashes, failed      *)
(* saves, retries and late deliveries.                                     *)
THEOREM LedgerImplemented == Spec => ImplementsLedger
<1>1. Init => Ledger!LedgerInit
  BY DEF Init, Ledger!LedgerInit, Ledger!Blank, LedgerEntry, NoJob
<1>2. Typing /\ Ownership /\ Outcomes /\ [Next]_vars => [Ledger!LedgerNext]_(Ledger!ledgerVars)
  BY LedgerNexts
<1> QED BY <1>1, <1>2, OutcomesHold, PTL DEF Spec, ImplementsLedger, Ledger!LedgerSpec

=============================================================================
