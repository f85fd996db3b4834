# A TLA+ model of dockpipe

Dockpipe runs workflows of isolated steps, on the host and in containers, on
one machine or delivered to remote nodes, and keeps the state of packages
between runs. This directory holds TLA+ modules for the parts of it in which
processes, crashes and messages interact, the TLC configurations that check
them on small instances, and proofs that TLAPS checks for instances of every
size.

Paths below are relative to the repository; `lib/` stands for `src/lib/`.

1. [The system](#1-the-system)
2. [Plan](#2-plan)
3. [Modules and the code](#3-modules-and-the-code)
4. [Runs](#4-runs)
5. [Proofs](#5-proofs)
6. [Findings and observations](#6-findings-and-observations)
7. [What is not modelled](#7-what-is-not-modelled)
8. [Running the checks](#8-running-the-checks)

## 1. The system

| Component | State | Operations | What is hard | What makes it correct |
|---|---|---|---|---|
| Remote contract `lib/domain/remote` | jobs with status, session, result hash | submit, claim, cancel, complete, recover | rules are shared by several callers | a job moves forward only |
| Remote broker `lib/infrastructure/remote/broker.go` | `broker.json`, result and bundle files, a copy in memory | submit, next, result, cancel, revoke, start | saves that fail with unknown outcome, crashes between payload and metadata | nothing is answered that is not on disk |
| Remote worker `worker.go` | a journal entry per job, staged bundles, a lock file | poll, reconcile, journal, execute, heartbeat, report | it dies anywhere, its calls time out, another process of the node polls | a workflow is started at most once and its outcome is reported |
| Pairing `pairing.go`, `remotecmd` | enrollments, requests with codes, a window, a rate counter, a credential per worker | open, close, ask, approve, deny, invite, redeem, revoke | lost answers, two machines of one name, expiry that is not saved | a node stays bound to the machine that was approved until it is revoked |
| Step runner `lib/application/run_steps*.go` | the environment, a container environment per call, outputs files | blocking step, async batch, packaged workflow, finally steps | goroutines over shared options, failures in several places, signals | isolation, order of merges, teardown always, the first exit code |
| Durable state import `lib/infrastructure/durable_import*.go`, `public_package_state.go` | a temporary directory with two manifests, the destination, a lock file | inventory, recover, copy, verify, publish, adopt | other programs write the source, interruption at every write, power loss | what is published is one state of the source |
| Durable state roots `durable_state*.go` | project identity, private directories | resolve, create, validate | races of creation | one root per project identity |
| Git runtime sessions `git_runtime_session*.go`, `git_checkpoint_request.go`, `git_publication_request.go` | session records, worker leases and volumes, requests, metadata and receipts, refs | open, lease, release, clean, checkpoint, publish, close | two processes between list and write, crash between commit and receipt, lost answer of a push | one serialized writer, receipts that are exact and final, one commit per request |
| Host runs `host_run_registry.go`, `host_cleanup.go` | run records and sidecar files | register, wait, clean | process numbers that are reused, records of killed runners | cleanup stops only what the run started |
| Operation records `operationrecord/`, `operation_*.go` | append-only event logs | append, read, settle | concurrent writers, partial lines | an operation has one outcome |
| Packages `packagecatalog/`, `fetchinstall/`, `packagebuild/`, `filepublication/` | installed trees, a lock | fetch, verify, publish, replace, remove | crash between removal and rename | an installed package is old or new, never a mixture |
| App-server supervisor `packages/dorkpipe/lib/appserversupervisor` | a child process, an audit journal, a bounded channel of events, a turn with its pending request and cancellation | start, turn, approve, answer, cancel, disconnect, shut down, recover | five kinds of goroutine, deadlines that race answers, late children, a consumer that is gone | the child is stopped, the disconnect reported once, answers are decisions, Disconnected is final |
| DorkPipe scheduler and engine | a graph of nodes, levels | order, run a level | parallel nodes that fail | each node after its needs, once |
| VM tools `packages/vm/tools` | guest requests and receipts | launch, execute, recover | restart of either side | one execution per request |

`PROJECT.json` lists these and the other components (compilers, user
interfaces, model clients), each with its source files and with the reason
where none of it is modelled, and the hazards at their lines.

How the parts interact. The CLI's `run` calls the step runner, which starts
processes and containers, writes host-run and operation records, and prepares
package state through the import. `remote submit` sends a job to a broker; a
worker polls it over HTTP and executes the job by starting the CLI, so the
outcome of a run of the step runner is what RemoteNode calls a workflow
result. Pairing decides which credentials the broker accepts from a worker;
RemoteNode takes enrollment as given and models only its revocation. The
import is reached by every package that asks for its state directory. A Git
session's worktree is what a step works on when its workflow asks for one:
leases decide who may, and the controlled checkpoint and publication take
approved requests from files that another command wrote. The supervisor drives
one model provider as a child process for DorkPipe's sessions; its audit
journal is where the process half (`AppServerProcess`) and the conversation
half (`AppServerTurn`) meet: a publication succeeds, or ends the session.

## 2. Plan

In the order of importance, with what this project has of each.

1. **Remote delivery** (`RemoteContract`, `RemoteNode`, abstract
   specification `RemoteLedger`): done. Every safety property is proved, and
   that the delivery implements the ledger.
2. **Remote pairing** (`RemotePairing`): done. Every safety property is
   proved.
3. **Durable state import** (`DurableImport`): done. Its inductive invariant
   and both action properties about publication are proved, and up to the first
   power loss the uniqueness of the directory and that a cohort wins.
4. **Step runner** (`WorkflowSteps`): done. Every safety property is proved.
5. **Git sessions**: checkpoint and publication requests with a crash between
   any two steps (`GitCheckpoint`), leases of overlapping commands
   (`GitLeases`): done. Exactness and finality of receipts, that only
   receipted commits are pushed, and for one committer and one publisher one
   commit per request and agreeing publications, are proved.
6. **App-server supervisor**: its process and events (`AppServerProcess`), its
   turns, approvals and cancellations (`AppServerTurn`): done. One disconnect,
   finality of Disconnected, confirmation of Cancelled and that answers are
   decisions are proved. Left:
   recovery from a snapshot, thread operations, steering.
7. **Package installation** (`PackageInstall`): publication by rename and
   replacement, in the style of `DurableImport`.
8. **Host runs** (`HostRuns`): records, sidecars and cleanup.
9. **Pure algorithms**: scheduler levels, and the bounded log of the executor,
   against reference definitions.

Every safety property of a passing run is the subject of a theorem. Proofs
still worth writing: what remains of `OneDirectory` after a power loss, and
`TeardownAfterSteps` for finally steps that call packaged workflows (which
needs names per call and not per step).

## 3. Modules and the code

`map` in `PROJECT.json` gives the lines of every definition.

### RemoteContract

Jobs, the queue and results as pure operators: what `Submit`, `Next`,
`Cancel`, `Complete` and `Recover` of `lib/domain/remote` do to a queue, and
when a result is accepted or is an exact repetition. A job keeps its
submission, the session it is assigned to, whether cancellation was requested
and the digest of its result; digest and result are one value. Both
`RemoteNode` and `RemoteLedger` extend it.

### RemoteNode

Variables are the broker's memory and files, the workers' program counters,
journals and lock files, and a set of requests on the network.

- `Save` and `SaveFails` are `Broker.save`: the file may hold the old or the
  new state when the write fails, and the broker is then *poisoned* and
  answers nothing until it is started again (`NewBroker`, which runs
  `Recover`).
- One action per branch of a handler: `Submit`, `SubmitBundleFails`, `Cancel`,
  `Revoke`, `NextUnresolved`, `NextClaim`, `NextEmpty`, `ResultAnswered`,
  `ResultStored`, `StoreResultFails`, `Unauthorized`. A handler runs under the
  broker's mutex and is one step; the payload file that precedes the metadata
  is visible through the failing variants.
- `RunWorker` is split where another process can act or a crash can fall:
  `StartWorker` (takes `worker.lock`), `Poll`, `Refuse`, `Reconcile`,
  `Intend` (the first journal entry), `Skip`, `Execute`, `Finish` or a
  heartbeat that cancels or fails, `Record` (the journaled result), and the
  result call with `Retry` and `GiveUp`. A late request stays in `net` after
  its caller gave up or died.
- The environment: `BrokerCrash`, `WorkerCrash`, `Shutdown` (the process gets
  SIGTERM and its context is cancelled), `Drop`, bounded by `MaxFaults`.

History variables: `runs` counts starts of a workflow, `sroot` remembers the
directory a session was made for.

### RemoteLedger

What an operator is promised: a job is accepted, then withdrawn or assigned,
started at most once while it is assigned, and settled once with an outcome
that tells the truth about whether the workflow ran. `ImplementsLedger` in
`RemoteNode` instantiates it with `LedgerEntry` of the job in `broker.json`.

### RemotePairing

The broker's enrollments, requests, window and rate counter, in memory and on
disk; one pairing command per worker; a clock that the code only compares.
Online requests are `Identified`, `Repeated`, `Refused` or `Registered`;
invitations are `Consumed` or not; the operator opens and closes the window,
approves, denies, invites and revokes. Expired requests are dropped from
memory on paths that do not save (`Without`), as in `pairing.go`. A credential
and its hash are one token.

### WorkflowSteps

`runSteps` calls itself for a packaged workflow and for the finally steps, so
the state is a stack of calls over one `envMap`; each call has a container
environment of its own. A step is begun (`BeginStep`), its pre-scripts run
(`Setup`), its process writes the outputs file and exits (`Write`, `Exit`,
`Fail`), and `EndStep` merges the file. A batch is begun after its validation
(`BeginBatch`, `BatchFails`), its members copy the environment and run in any
interleaving, and `Join` merges in file order. `CallPackage`, `Teardown` and
`Return` push and pop calls; `Interrupt` is a signal.

`--detach` (`flags.go:75`) reaches the container of every step
(`run_steps_container.go:139`), nested and finally steps included, and the
runner then returns 0 as soon as `docker run -d` has
(`docker.go:604-637`). `detach` is the flag and `Leave` this return: the step
is over, and what its process has yet to do stays in `background`, where
`Background` lets it write its outputs file (`LateWrite`) and end (`LateExit`)
at any time, also after the run. Such a container has no exit code for the
runner, and a signal while it is being started ends the runner, because
nothing passes it on. What is said of processes therefore has two halves: the
ones that are waited for are in `live`, and `TeardownWaits` lets others be left
under the finally steps only with `--detach`. `LastWriterWins` and
`OutputsAreUsedOnce` stop at the first container in the background, as they do
at the first failure.

A workflow is a value of the shape validation lets through (`Declared`,
`WellFormed`); variables have two values and the blank one, because the code
treats a blank value of a secret-like key specially.

`live`, `began` and `failed` know steps by name. `NamesApart`,
`TeardownsAgree` and `Unscoped` say what two properties about finally steps
and two about outputs suppose of the workflows; `MCWorkflowSteps` assumes
them of the workflows of the run, so TLC evaluates them.

### DurableImport

One destination and its temporaries. Of a directory the model keeps the two
manifests (pending and authoritative), each with the inventory it records, and
the version of every file; a file or a manifest that is being written is
`Torn`. Legacy files have versions that grow with every change. Two more
things decide what is refused: `linked` are the legacy files that are links or
not regular, which no inspection and no copy follows, and `unsafe` the
directories in which some entry is not private and regular, which
`collectPublishedDurableImportTree` refuses. `LinkLegacy`, `WriteLegacy` and
`Loosen` make and unmake them.

A preparation takes the lock, reads the legacy files one by one (`Scan`), and
then accepts the destination (`Accept`), gives a manifest to an empty one
(`Adopt`), rejects it, or recovers: nothing, a ready temporary that it
promotes, an incomplete one that it removes entry by entry, or an error.
A legacy file that is linked ends the preparation wherever it is met
(`ScanFails`, `CopyFails`, `Rescan`), also when the destination exists, since
a published cohort is compared with the legacy files to report divergence
(`durable_import.go:127-132`).
Publication makes a temporary, writes the pending manifest, copies, reads all
legacy files a second time (`Rescan`), compares, writes the authoritative
manifest, removes the pending one, syncs, renames and syncs the parent.
`Whole` selects the whole-package variant, which differs in adoption and in
what `Valid` compares.

`content` and `listed` are what processes see, `synced` and `listedSync` what
has reached the disk; after a `PowerLoss` each entry that was not synced is in
its old or new state, and `WriteBack` lets the kernel write earlier.

Abstractions. Legacy writes leave a new version and remove no file; two
inventories do not exclude a file that is removed and restored with equal
bytes in between, in the code as in the model. An empty legacy root and an
absent one are the same. A cohort is looked up at the destination before the
inventory and public state after it; under the lock the order makes no
difference. Every error return of a system call is a `Stop` where it happens;
errors that cannot occur while the lock is held have no action.

### GitCheckpoint

One session branch, whose HEAD only moves forward, so a commit is its place in
the log. Of a commit the model keeps the tree and the request named by its
trailers; `Staged` and `Unstaged` are the two columns of `git status
--porcelain`. `CheckpointSessionFromRequest` is split wherever another process
can act or a death can fall: read HEAD, preflight, `git add`, check of the
index, `git commit`, `rev-parse`, verification, and for each of the two files
the `Lstat` and the rename. The deferred `git reset` is `Unstage`. A call that
finds a receipt is `Repeat`. Publication is split in the same way around
`git ls-remote`, `git push` and its two files. The world: workers edit files,
approvals write request files, the uncontrolled `CheckpointSession` stages and
commits everything, somebody else pushes.

### GitLeases

A lease file per worker, the docker volumes that exist, and for each command
where it stands and the lease it holds in memory. `CreateWorkerLease` looks at
all lease files, clones a volume for a split lease and writes its own file;
release writes the lease back as released and removes the clone; cleanup looks
for active leases, removes the session's volume and writes `session.json`.
Every command may end at any step. Lease identifiers have the resolution of
the code's, one second.

### AppServerProcess

How the supervisor owns the child and its events. `Start` launches under a
deadline and leaves a late child to `reapLateLaunch`; goroutines number their
events under `s.mu` (`Sequenced`), append them to the audit journal, which
takes only the next number (`Contiguous`), and send them on a channel of
capacity `EventCap`. A refused append is `auditFailure`, which reports a
disconnect of its own past the journal. `disconnectOnce`, `fail`, `Shutdown`
and the goroutine of `startShutdown` with its grace and kill deadlines are the
rest. Goroutines that serve turns are `Workers`: they publish or fail.
`HastyShutdown` lets `Shutdown` be called before `Start` returned,
`ConsumerLeaves` lets the reader of the channel go away.

### AppServerTurn

What the session is about, from the thread's start to the disconnect. One
lifecycle operation at a time (`lifecycleMu`), the reader, a decision of the
user, deadlines of requests and cancellations, and the disconnect interleave
at sections under `s.mu` and at steps that may block. The child is external
and may send any line at any time; `Orderly` only keeps it from resolving a
request it has had no answer to. A timer that has fired cannot be stopped any
more, as with `time.AfterFunc`.

## 4. Runs

Passing runs between them take every action. Bounds are in the `.cfg` files;
`MaxFaults`, `MaxStops`, `MaxLosses`, `MaxEdits`, `MaxInterrupts`, `MaxSent`
and `MaxTime` bound the environment, `MaxTries` the attempts of a call (five
in the code; two reach every branch of `retryCall`). Other limits of the code
(`MaxPairings`, `RateLimit`, `MaxNodes`, `MaxJobs`, `EventCap`) are given small
values so that they are hit.

| Run | Instance | Shows |
|---|---|---|
| `delivery` | one job, three processes, two of them on one directory, three sessions, two faults; 467 thousand states | `AtMostOnce`, its invariant `Ownership`, agreement of journals, assignments and results (`DeliveryNeverConflicts`, `JournalIsFinal`, `OwnersAreFinal`) |
| `queue` | two jobs with profile or delivered work, cancellation, revocation, fairness, one fault; 341 thousand states | `ServingIsDurable`, `PayloadBeforeMetadata`, `CancelWasRequested`, `ImplementsLedger`, `JobsSettle` |
| `pairing` | two machines of one name, three credentials, two codes, one invitation, one fault; 857 thousand states | durable answers, one request per credential, enrollments that last |
| `import_cohort` | two files, two processes, two changes of legacy files or of the cohort, one interruption, fairness; 439 thousand states | `OneDirectory`, `DurableWins`, `PublishedIsWhole`, `ImportsSettle` |
| `import_power` | public state, one process, a change, an interruption and a power loss; 304 thousand states | `PublishedIsCurrent` and the invariant of publication, `Provenance`, after a power loss |
| `steps_run` | four workflows with every kind of step, with and without `--detach`, a signal, fairness; 150 thousand states | `MembersAreIsolated`, `LastWriterWins`, `OutputsAreUsedOnce`, `TeardownWaits`, `TeardownBegins`, `FirstExitCodeSurvives`, `RunEnds` |
| `checkpoint` | two requests, two committers, edits and uncontrolled checkpoints, one fault; 1.6 million states | `ReceiptIsExact`, `ReceiptsAreFinal` |
| `publication` | one request, a committer, a publisher and a stranger who pushes, two faults, fairness; 290 thousand states | `OneCommitPerRequest`, `PushedIsApproved`, `PublicationsAgree`, `RecoveryCompletes` |
| `supervisor` | two publishing goroutines, a channel of two, a failing save, a consumer that may leave, fairness; 61 thousand states | `OneDisconnect`, `ChildIsStopped`, `ShutdownReturns` |
| `turn` | two turns, two requests and a child that says anything; 2.7 million states | `AnswersAreDecided`, `DisconnectedIsFinal`, `CancelledIsConfirmed` |
| `deny`, `leases` | | violated, see [section 6](#6-findings-and-observations) |

Why these bounds. Two processes of one directory and one of another are the
smallest set in which a lock is contended and unresolved work is offered to a
stranger; three sessions allow a restart of either. Two faults allow a crash
during the recovery from a crash. A snapshot that never existed takes
two files and two writes; `import_cohort` has both (`edits` starts at 1, the
version of the files that exist at the start, so `MaxEdits = 3` leaves two),
and there the mutant that does not compare the second inventory publishes
one. Two codes and two machines let two requests for one name
compete, and the third credential lets one of them rotate. The four workflows
have a batch at the start, in the middle and in the finally steps, a packaged
workflow with finally steps of its own, and two members with one outputs file.
Two committers and two requests let one commit move HEAD under the other's
request; a third commit and a third edit leave room for an uncontrolled
checkpoint between them. `OneCommitPerRequest` and `PublicationsAgree` are
stated for one committer and one publisher: with two they fail, see the
observations. A supervisor reaches a gap in its numbers with two goroutines,
and five events fill a channel of two. A second turn and a second request let
a line or a deadline of the first meet the second.

In `queue` both jobs carry the same time, so that either may be claimed first.

Symmetry is used in runs without liveness, over values that are only compared.

Deadlock is not checked for `WorkflowSteps`, where a run ends, for sessions
and leases, where commands may all be over and the bounds used up, and for the
supervisor, whose session ends; it is checked in the other runs.

**Fairness.** `RemoteNode`: the loops of `RunWorker`, the broker's handlers
for callers that still wait, and restarts, which the installed service units
ask for (`Restart=on-failure`); a poisoned broker is not restarted by anyone, so
`JobsSettle` excepts it. Faults, operator requests and late requests are not
fair. `WorkflowSteps`: the runner goes on, and the processes of steps are
assumed to end; the code has no timeout for them. A container in the
background need not end. `DurableImport`: a
preparation goes on and is repeated, because every use of the package asks for
its state directory; writes, interruptions and power losses are not fair.
`GitCheckpoint`: a command that runs takes its steps, and whoever asked for a
checkpoint calls again. `AppServerProcess`: goroutines are scheduled,
deadlines pass, a launch ends, a killed process dies, and the consumer takes
events while it is there; that it stays, and that the child ends by itself, is
not assumed.

Every property of a passing run has a mutant, a small change of one mapped
definition under which TLC finds the property violated. Their operators are
marked `Mutation of` and used nowhere else.

## 5. Proofs

For all values of the constants under the modules' `ASSUME`s, which only type
them and keep the null values apart from the rest; a theorem that supposes
more says so in its statement. Of the properties that passing runs check,
every safety property has a theorem; `theorems` in `PROJECT.json` pairs them.

**RemoteNodeProofs.** `TypeCorrect` needs more than the types of the
variables: `Typing` adds the shape of jobs (queued ones have no owner,
unresolved ones have), of processes and of requests. `OwnershipHolds` proves
`Typing /\ Ownership`. The argument for at-most-once execution has four parts:

- `ServingIsDurable`: a broker that answers has its queue on disk, so a claim
  that was answered survives every crash;
- `SessionsAreExclusive`: a running process holds the lock of its directory
  and nobody else has its session;
- `AssignmentIsDurable`: the assignment a worker acts on is the one on disk;
- `StartsAreJournaled`: started work is journaled in the directory of the
  owning session, and a process about to start it is the owner, has journaled
  its intent and nobody has started it.

None is inductive without the others: a second start needs a process with the
session of the job and without a journal entry, and to exclude it one needs
the lock, the durable owner and the journal together. Most steps are *calm*,
they start nothing and give nothing to anyone; `CalmStep`, `CalmAnswer` and
`CalmBroker` dispose of them at once, and `Intend`, `Execute` and
`StartWorker` are treated one by one. `StartedAtMostOnce`,
`AnswersAreDurable` and `AssignmentsAreFinal` follow.

`OutcomesHold` adds a second layer, `Outcomes`, about what is reported. It
follows a result from the worker that makes it up to `broker.json`: a job's
metadata moves through its stages in order (`StagesAreOrdered`), only the
directory of the owning session has a journal entry (`EntriesAreOwned`), a
worker's result does not contradict its journal and tells the truth about
whether the workflow ran and was cancelled (`ReportsAreOwn`), and whatever is
on the network or in a result file is some journal's result
(`ResultsAreJournaled`). As a journaled result is never replaced, a late
delivery and a repeated one are the same. `DeliveriesAreAccepted`,
`PayloadsComeFirst`, `CancelsWereRequested` and `JournalsAreFinal` follow.

`LedgerImplemented` is the refinement. `DiskNext` reduces every step to one of
a transition of `broker.json`: nothing, a recovery, an acceptance, a
cancellation, a claim or a settlement of one job. A recovery maps to a
stutter, because `Recover` only marks running jobs as unknown and the ledger
calls both assigned; `Execute` is the ledger's `Start`; a settlement is
truthful by `ReportsAreOwn`.

**RemotePairingProofs.** `PairingTypeCorrect` includes the bound of the rate
counter. `PairingDurable` rests on the fact that what is dropped without a
save has expired, and stays expired as the clock goes on. `EnrollmentIsKept`
is a case analysis on who may write an enrollment. `CredentialsAskOnce` needs
the property of memory as well as of disk, since a restart brings the one back
from the other.

**DurableImportProofs.** `ProvenanceHolds` proves the invariant `Provenance`.
The heart is `Bracketed`: at the end of the first inventory the state of the
legacy files, call it *m*, is at least the inventory in every file; a file
that the second inventory finds unchanged had that version at *m* too, since
versions only grow; so when the second inventory has seen every file the
inventory *is* *m*. `ReadyWasSeen` carries this to later processes through the
authoritative manifest, also through a power loss, `Owned` and `Exclusive` see
to it that nobody else writes the temporary, and `Kept` that a power loss does
not turn a temporary into the destination. `PublishedWhole` and
`PublishedCurrent` follow, because only `Rename` publishes.

`DirectoryIsOne` and `CohortsWin` hold until the power fails: their invariant
`Alone` adds that who is about to make a temporary has found or left none, and
that a destination has no pending manifest. `CohortsWin` then says that a
published cohort is refused for two reasons only, an entry of it that is not
private and regular or a legacy file that is not regular; both are refusals of
the code that its tests want (`durable_import_test.go:127-145`). What is
excluded are all others: changed bytes on either side, a retry, a second
process, whatever an interruption left. The condition `losses = 0` is
needed: TLC finds both properties violated after a power loss that brings a
removed directory entry or a removed manifest back. `CohortsWin` is about
cohorts (`~Whole`) because public state is refused by design of its
comparison, see the observations.

**GitCheckpointProofs.** `ReceiptsExact` and `ReceiptsFinal` rest on one
invariant, `Verified`: a process past its verification holds an exact commit,
and so do the files. No lock is needed for that: the log and the requests are
never rewritten, so what was verified stays so (`ExactIsStable`), and a
parent has one successor in the log, so two exact commits of a request are
equal (`ExactIsUnique`); racing renames replace a file by itself.
`ExactIsApproved` adds that a request asks for no change outside its paths.
`PushesApproved` adds that a publication request names the receipt's commit.

Two results need one process at a time, which may die and be called again
anywhere. `OneCommitOnly`: a commit for a request comes after the request's
parent, HEAD never returns there, and a committer about to commit has seen HEAD
there, so the request has no commit yet, wherever others have moved HEAD
since (`Once`). `PublicationsSettled`: who drafts a receipt has seen the commit
on the remote, where only a push brings it, and the receipt repeats the
metadata (`Settled`). With two committers or publishers both fail; the
observations say how.

**GitLeasesProofs.** `SerialCommandsKeepOneWriter` assumes that commands do
not overlap and proves `OneWriter`: the check is right, and the violation in
run `leases` is due to the overlap alone.

**AppServerProcessProofs.** `DisconnectedOnce`: after `auditFailure` has
reported, its number is missing from the journal for ever (`MissingKept`), so
the event of `disconnectOnce`, numbered later, is refused (`Barred`).
`ProcessTypeCorrect` is the type invariant.

**AppServerTurnProofs.** `DisconnectedFinal` and `CancelledConfirmed` for any
child: the invariant `Confirmed` says that a line in the pipe was sent, that a
cancellation belongs to the active turn, and that no turn is being started
while one is cancelled. `AnswersDecided` rests on `Asking`: a request is
handled once, it is pending until its decision is taken or its deadline drops
it, and only what was taken or dropped is answered, by the goroutine that took
or dropped it.

**WorkflowStepsProofs.** For workflows of any size, nested to any depth.
`Shape` (with `TypeCorrect`) describes the stack: what has begun in a call is
one blocking step or a batch, and a call waits for the one above it either
with its packaged step `calling` or with nothing left but its finally steps.
On it rest

- `Isolated`: only the barrier changes what a batch shares;
- `FirstExitSurvives`, with `Errors`: the first failure, if it is an exit
  error, is the whole error of some call, and the calls below have none yet,
  so that `Combined` and `FirstError` hand it on unchanged;
- `ProcessesAwaited`: every process that is waited for belongs to the
  innermost call, and others there are only with `--detach` (`Behind`). With
  `Origin`, which says of every call which workflow's steps or finally
  steps it runs, `TeardownAfterSteps` follows;
- `TeardownsBegin`, with `Owed`: for a workflow that began a step the first
  finally step has begun or failed, or some call on the stack still owes it;
- `LastWriterHolds` and `OutputsUsedOnce`, with `Written`: a member writes
  where the merge will look, what it wrote is there, members of a batch have
  files of their own, and until a step fails or leaves a container in the
  background there is no other file.

Four of these suppose something of the workflows, because the property is
false otherwise. `NamesApart` and `TeardownsAgree`: processes and begun steps
are known by name, so a finally step with the name of a step would stand for
it, and two workflows that share the name of a step must share the teardown
that the name owes. `Unscoped`: the outputs of an async step with an artifact
scope of its own are dropped by the merge, see the observations.

The merge of a batch is a recursive function, and what it leaves is proved by
induction on the members merged so far. The library's induction theorems take
an operator as a parameter, which the installed provers cannot instantiate, but
well-foundedness of `<` on the naturals is a statement about sets: `Least` and
`Climb` derive from it what an induction over an interval needs, `MergeIs`
that the function satisfies its defining equation, and `MergeClears`,
`MergeLast` and `MergeNothing` are the inductions.

**Only model-checked.** Liveness (`JobsSettle`, `RunEnds`, `ImportsSettle`,
`RecoveryCompletes`, `ChildIsStopped`, `ShutdownReturns`) is out of the
prover's reach, as is ENABLED. The modules declare no RECURSIVE operator.
`OneDirectory` and `DurableWins` are proved and checked without power losses,
`OneCommitPerRequest` and `PublicationsAgree` for one committer and one
publisher.

## 6. Findings and observations

Disagreements between the code and what the repository says of it, each with a
run whose counterexample shows it (`findings` in `PROJECT.json` quotes the
lines):

- `leases`: two overlapping commands both get a serialized lease on one
  session's volume; a test and the documentation want the second to fail. With
  `Procs = {p1}` the property holds, and `GitLeasesProofs` proves it.
- `deny`: after a denial the session may return to Running, because the
  child's resolution is handled before the goroutine that delivered the denial
  disconnects; the session contract says that a deny must not do that.

Statements of the documentation that the model refutes under other constants
than those of the runs; the definitions are in the modules.

- `InterruptedBecomesUnknown` (`docs/runtime/remote-nodes.md:256`): a worker
  service that is stopped while a workflow runs reports it as cancelled or
  failed (`executor.go:115-120`, `worker.go:101-112`). `RemoteQueue.cfg` with
  one job, `MaxTries = 2`.
- `RepairingIsFresh` (`remote-nodes.md:360`): a credential that was enrolled
  and revoked can be enrolled again once its request has expired
  (`pairing.go:73-77`). `Pairing.cfg` with two tokens, no secrets, `Window =
  2`, `MaxTime = 3`, `MaxFaults = 0`.
- `DurableWins` for public state (`package-model.md:284`): a package that has
  written its state directory is rejected by every later preparation
  (`public_package_state.go:454-456`). `ImportPower.cfg` without interruptions
  and power losses.
- `TornDownWhenInterrupted` (`workflow-yaml.md:77`): a signal outside the
  waits for a process ends the runner without its finally steps
  (`prescript_wait_unix.go:20-40`). `StepsRun.cfg`.
- `LastWriterWins` for `scopes.artifacts: source` (`workflow-yaml.md:767`):
  the outputs of such an async member are dropped
  (`run_steps_parallel.go:62`). `StepsRun.cfg` with `Workflows <-
  ScopedBatch`.
- `DisconnectIsReported` (`backlog-cas01-13.md:36-38`): events are numbered in
  one order and appended in another, so a goroutine may be refused while
  nothing is wrong, and the event of the disconnect itself may be refused and
  lost. `Supervisor.cfg` with `ConsumerLeaves = FALSE`, `MaxFaults = 0`.
- `ChildIsAlwaysStopped` (comment at `supervisor.go:529`): the send inside
  `disconnectOnce` blocks when the channel is full and nobody reads it; the
  child then goes on. `Supervisor.cfg`. `ChildIsStopped` itself fails with
  `HastyShutdown = TRUE`: a `Shutdown` during `Start` finds no child to stop,
  and `Start` installs one afterwards.

Observations made while modelling, without a property:

- The executor cuts a log at a number of bytes (`executor.go:26-50`). A cut
  inside a UTF-8 character, or binary output, makes JSON replace bytes by a
  character of three; the broker then refuses the result as too long
  (`result.go:28`), the worker exits, and every restart sends the journaled
  result again. Logs are opaque in `RemoteNode`.
- A recovery promotes a temporary whose directories its maker had not synced,
  and syncs only the parent (`durable_import.go:543-557`). After a power loss
  the destination may lack its manifest or have the pending one back and is
  then rejected. `PublishedIsWhole` and the proofs are about the moment of
  publication, and `ImportsSettle` is checked without power losses.
- A temporary without a manifest, left by a crash right after `MkdirTemp` or
  in the middle of its removal, blocks all later preparations until somebody
  removes it (`Blocked`).
- A key given by both `--var` and `--env` reaches containers with the value of
  `--env` (`run_steps.go:62`; the comment at `workflow_env.go:82` says that
  `--var` wins).
- `--detach` is described as "Run the container in the background"
  (`docs/cli-reference.md:221`) and is not rejected for workflows of several
  steps. Each step then starts while the containers of earlier ones still
  run, the finally steps too, outputs files are merged when they may not be
  written yet, and an exit code other than 0 is never seen. Nothing in the
  repository promises otherwise, so the properties except such runs by name.
- The path scopes of a blocking step stay in the shared environment, so a
  later step with default scopes resolves its paths under them.
- A `host_builtin` in an async group is skipped without an error.
- An outputs file is removed when it is merged and at no other time
  (`workflow_env.go:169-200`), so the file of a failed step is merged after a
  finally step that has the same path. `LastWriterWins` and
  `OutputsAreUsedOnce` therefore speak of the time before the first failure.
- Exports of pre-scripts and compose files ignore the locks of `--var`.
- A worker that is paired by an invitation while an online request of its is
  pending may rotate away the credential that is then approved.
- A death after `git add` leaves the index staged, and every retry of the
  checkpoint then fails its preflight until somebody resets it.
- Two committers may both commit for one request; the second commit has the
  same trailers and no receipt. Two publishers may leave metadata and receipt
  that disagree, because both look before either renames; every later call
  then fails, although "A valid receipt is idempotent"
  (`docs/runtime/git-runtime-sessions.md:89`).
- A death between the publication receipt and the event loses the event.
- A worker that leases again orphans its old split volume, a command killed
  during the clone leaves a volume without a lease, a release takes a lease
  of whatever status and age, and a cleanup may remove the session's volume
  under a lease that is being written. `session.json` is written whole from
  memory, so overlapping commands lose each other's updates.
- The deadline of an approval does not look whether a decision is in flight:
  the child may be told accept and then decline for one request.
  `AnswersAreDecided` allows this and nothing worse.
- Progress of a turn that arrives before the answer to `turn/start` is
  dropped; the next line of that turn then does not fit and disconnects. So do
  a terminal line before `Cancel` has taken the acknowledgement, and an
  approval request before the first turn's event has made the session Running.

## 7. What is not modelled

Of the modelled components: results that older brokers kept inline in
`broker.json`, the bytes of logs and bundles, HTTP and TLS, the read-only
listings; image selection, mounts, runtime policy records, commits on the host
and strategy hooks of the step runner; of the import, the runtime directory of
a run, the discovery of package-owned policies, the metadata file of a package
(its loss is one more way for a recovery to fail closed), the divergence
report, devices, and what a check of permissions or links looks at; of Git sessions,
creation, sync, uncontrolled publication, archive, the event log and
credentials; of the supervisor, model policy, thread operations, steering,
recovery from a snapshot, the shape of lines, and progress lines that only
publish.

Of the rest: host runs turn on which process a number belongs to
(`host_cleanup.go:126` kills what a sidecar names), which is the operating
system's to say; operation records are logs that no command decides by;
packages, the scheduler and VM tools are in the plan or have little state of
their own.

Most of the repository's lines are of another kind, and no larger number of
modules would change the share that a model covers much: PipeLang, its type
checker, intermediate representation and back ends are pure functions on
syntax trees that TLC cannot enumerate to a useful size; the orchestration
helpers, provider pool, request and edit commands of DorkPipe assemble prompts
and parse the text that models return; model clients handle text and
floating-point scores; user interfaces, tunnels, service units and packaging
are single writes and calls of other programs. Their control is sequential,
their data is text, and tests with fixtures reach them well. The modules here
cover the parts in which processes, goroutines, files and messages interact.

## 8. Running the checks

    tlc -workers 2 -config RemoteDelivery.cfg MCRemoteNode
    tlapm WorkflowStepsProofs.tla

`runs` in `PROJECT.json` gives the module and configuration of each run. The
eight modules `*Proofs.tla` are checked by `tlapm` with its Z3, Zenon and LS4
backends.
