--------------------------- MODULE RemoteContract ---------------------------
(***************************************************************************)
(* The provider-neutral remote contract (src/lib/domain/remote): what a    *)
(* submission, a job and a result are, and the pure queue transitions that *)
(* the broker applies and then publishes.  Nothing here changes state.     *)
(*                                                                         *)
(* A job identifier is the index of the job in a queue, and a queue is a   *)
(* function from identifiers to jobs, NoJob where the Go map has no entry. *)
(* Identifiers, node names, worker sessions, profiles and bundle digests   *)
(* are opaque: the code only compares them.                                *)
(***************************************************************************)
EXTENDS Integers, FiniteSets

CONSTANTS
    JobIds,      \* job identifiers an operator may submit
    Nodes,       \* node names
    Sessions,    \* worker session identities (32 random bytes each)
    Profiles,    \* worker profile names a submission may select
    Bundles,     \* digests of source bundles a submission may select
    Times,       \* wall-clock readings stored in CreatedAt
    MaxJobs,     \* retained jobs per broker (128 in the code)
    None         \* the empty string, nil or missing file

-----------------------------------------------------------------------------
(* The part of a submission bound to its identifier: the node and what the *)
(* node is asked to run.                                                   *)
Works == Profiles \cup Bundles
Submission == [node : Nodes, work : Works]

(* A result, abstracted to its status and to why the worker produced it.   *)
(* The digest of a result is the result itself: SHA-256 collisions aside,  *)
(* comparing digests is comparing results.                                 *)
ResultStatus == {"success", "failure", "cancelled", "unknown"}

(* Why a result came about: the workflow ended (or timed out), a cancel    *)
(* request stopped it, the heartbeat was lost, the worker was shut down,   *)
(* nothing was executed, or an earlier process was interrupted.            *)
Executed == {"workflow", "cancel", "heartbeat", "shutdown"}
Causes == Executed \cup {"skipped", "interrupted"}
Result == [status : ResultStatus, cause : Causes]

JobStatus == {"queued", "running"} \cup ResultStatus
Job == [sub : Submission, status : JobStatus, session : Sessions \cup {None},
        cancelRequested : BOOLEAN, createdAt : Times,
        resultHash : Result \cup {None}]

(* A missing map entry.  It has the shape of a job so that fields may be   *)
(* read without a case split; its status is one that no job has.           *)
NoJob == [sub |-> None, status |-> "absent", session |-> None,
          cancelRequested |-> FALSE, createdAt |-> 0, resultHash |-> None]
Queue == [JobIds -> Job \cup {NoJob}]

(* Every work selector is a profile name or a bundle digest, never both;   *)
(* None is not a value of any kind.                                        *)
ASSUME ContractAssumption ==
    /\ Profiles \cap Bundles = {}
    /\ Times \subseteq Nat
    /\ MaxJobs \in Nat
    /\ None \notin JobIds \cup Nodes \cup Sessions \cup Bundles
    /\ None \notin Submission
    /\ None \notin Result

Exists(q, id) == q[id].status # "absent"

-----------------------------------------------------------------------------
(* Queue.Submit: a new identifier is queued when the node is enrolled and  *)
(* the queue has room.  An existing identifier is answered unchanged when  *)
(* it binds the same submission, and rejected otherwise.                   *)
Admits(q, id, enrolled) ==
    /\ ~Exists(q, id)
    /\ enrolled
    /\ Cardinality({i \in JobIds : Exists(q, i)}) < MaxJobs

Submitted(sub, now) ==
    [sub |-> sub, status |-> "queued", session |-> None,
     cancelRequested |-> FALSE, createdAt |-> now, resultHash |-> None]

(* Mutation of Unresolved: recovered work does not block its node.         *)
UnresolvedForgetsUnknown(q, node) ==
    {id \in JobIds : q[id].status = "running" /\ q[id].sub.node = node}

(* Queue.Next, first half: claimed work of the node that has no settled    *)
(* outcome.  Any member is returned as it stands, and blocks the node.     *)
Unresolved(q, node) ==
    {id \in JobIds : /\ q[id].status \in {"running", "unknown"}
                     /\ q[id].sub.node = node}

Queued(q, node) ==
    {id \in JobIds : q[id].status = "queued" /\ q[id].sub.node = node}

(* Queue.Next, second half: a queued job no other queued job of the node   *)
(* is older than.  Equal CreatedAt values are broken by map order.         *)
Oldest(q, node) ==
    {id \in Queued(q, node) :
        \A other \in Queued(q, node) : q[id].createdAt <= q[other].createdAt}

Claimed(job, session) == [job EXCEPT !.status = "running", !.session = session]

(* Queue.Assigned: the node and the session a worker message names are the *)
(* ones the job is assigned to.                                            *)
Assigned(q, id, node, session) ==
    /\ Exists(q, id)
    /\ q[id].sub.node = node
    /\ session # None
    /\ session = q[id].session

-----------------------------------------------------------------------------
(* Mutations of Recover: work interrupted by a restart returns to the      *)
(* queue; the recovered job loses its cancel request.                      *)
RecoverRequeues(job) ==
    IF job.status = "running"
    THEN [job EXCEPT !.status = "queued", !.session = None] ELSE job
RecoverForgetsCancel(job) ==
    IF job.status = "running"
    THEN [job EXCEPT !.status = "unknown", !.cancelRequested = FALSE] ELSE job

(* Job.Recover: after a broker restart claimed work may have executed.     *)
Recover(job) ==
    IF job.status = "running" THEN [job EXCEPT !.status = "unknown"] ELSE job

(* Job.Cancel: a settled job is left alone; queued work is cancelled here, *)
(* assigned work only carries the request to its worker.                   *)
Cancellable(job) == job.resultHash = None

Cancelled(job) ==
    [job EXCEPT !.cancelRequested = TRUE,
                !.status = IF @ = "queued" THEN "cancelled" ELSE @]

(* Mutation of Accepts: recovered work takes no result.                    *)
AcceptsRunningOnly(job, result) ==
    job.resultHash = None /\ job.status = "running"

(* Job.Complete: an exact retry of the stored result changes nothing, any  *)
(* other result conflicts; a first result needs an assigned job.           *)
Repeats(job, result) == job.resultHash # None /\ job.resultHash = result
Accepts(job, result) ==
    job.resultHash = None /\ job.status \in {"running", "unknown"}

Completed(job, result) ==
    [job EXCEPT !.status = result.status, !.resultHash = result]

=============================================================================
