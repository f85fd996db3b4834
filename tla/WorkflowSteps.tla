---------------------------- MODULE WorkflowSteps ----------------------------
(***************************************************************************)
(* The step runner: runSteps, runBlockingStep, runParallelBatch,           *)
(* runStepPackageWorkflow and runWorkflowFinally of                        *)
(* application/run_steps.go and run_steps_parallel.go.                     *)
(*                                                                         *)
(* runSteps calls itself, for the workflow of a packaged step and for the  *)
(* finally steps, so the state is a stack of calls.  All calls share one   *)
(* envMap; each has a dockerEnv of its own, which is all a container sees. *)
(* A variable is unset when it is None; the path roots of a step are three *)
(* more variables, kept apart because they are places and not values.      *)
(* With --detach the container of a step is started and not waited for; it *)
(* goes on in the background, beside the steps after it and the run's end. *)
(***************************************************************************)
EXTENDS Integers, Sequences, FiniteSets

CONSTANTS
    Workflows,      \* the workflows a run may be asked for
    Keys,           \* environment variables
    Values,         \* their values
    Empty,          \* the blank value
    SecretKeys,     \* keys that isLikelySecretEnvKey recognises
    Paths,          \* names of outputs files
    Ids,            \* step names
    VarOverrides,   \* --var
    ExtraEnv,       \* --env
    MaxInterrupts,  \* bound on signals to the runner
    None

Map == [Keys -> Values \cup {None}]
NoVars == [k \in Keys |-> None]
Places == {"checkout", "artifacts"}
Scopes == {"source", "artifacts"}
Kinds == {"host", "container", "package"}

(* The workflows a run may call.                                           *)
Called == Workflows \cup
    UNION {{w.steps[n].child : n \in {m \in DOMAIN w.steps : w.steps[m].kind = "package"}} :
              w \in Workflows}

(* A step of a workflow, and a list of steps.                              *)
Declared == [id : Ids, kind : Kinds, blocking : BOOLEAN, vars : Map, inputs : Map,
             exports : Map, writes : Map, source : Scopes, artifacts : Scopes,
             outputs : Paths, child : Called \cup {None}]
WellFormed(steps) ==
    /\ steps \in Seq(Declared)
    /\ \A n \in DOMAIN steps : steps[n].kind = "package" => steps[n].child \in Called

ASSUME StepsAssumption ==
    /\ None \notin Values /\ Empty \in Values /\ SecretKeys \subseteq Keys
    /\ VarOverrides \in Map /\ ExtraEnv \in Map
    /\ MaxInterrupts \in Nat

(* A workflow is validated before its steps run.  A packaged step whose    *)
(* workflow is not found, or not valid, fails while it is "calling".       *)
ASSUME WorkflowsAssumption ==
    \A w \in Called : WellFormed(w.steps) /\ WellFormed(w.finally) /\ w.vars \in Map

VARIABLES
    env,         \* envMap
    roots,       \* DOCKPIPE_SOURCE_ROOT, _ARTIFACT_ROOT and _OUTPUT_ROOT in envMap
    files,       \* outputs files, by the root they are under
    stack,       \* the calls of runSteps, the innermost last
    outcome,     \* how the process ended
    reported,    \* the error it ended with
    interrupts,  \* signals so far
    detach,      \* --detach, which nested and finally calls inherit
    live,        \* steps whose process runs and is waited for
    background,  \* containers that were started and left
    began,       \* history: steps that were begun
    failed       \* history: failures, in the order in which they happened

detached == <<detach, background>>
vars == <<env, roots, files, stack, outcome, reported, interrupts, live, began, failed, detached>>

-----------------------------------------------------------------------------
(* Environments.                                                           *)

Locked == {k \in Keys : VarOverrides[k] # None}

(* Step variables and inputs go to every key that --var does not lock.     *)
Over(e, m) == [k \in Keys |-> IF m[k] # None /\ k \notin Locked THEN m[k] ELSE e[k]]

(* What a sourced script exports goes to every key.                        *)
Exported(e, m) == [k \in Keys |-> IF m[k] # None THEN m[k] ELSE e[k]]

(* The variables of a nested workflow fill gaps, then --var is applied.    *)
Nested(e, m) ==
    [k \in Keys |-> IF k \in Locked THEN VarOverrides[k]
                    ELSE IF e[k] \in {None, Empty} /\ m[k] # None THEN m[k] ELSE e[k]]

(* applyStepCWDEnv: the roots of a step in terms of the roots before it.   *)
Scoped(r, step) ==
    LET place(scope) == IF scope = "artifacts" THEN r.artifacts ELSE r.source
    IN  [source |-> place(step.source), artifacts |-> place(step.artifacts),
         output |-> place(step.artifacts)]

OutputsFile(r, step) == <<IF r.output # None THEN r.output ELSE r.artifacts, step.outputs>>

(* An outputs file may set a key that is not locked; an empty value does   *)
(* not clear a secret.                                                     *)
Takes(e, k, v) ==
    /\ v # None /\ k \notin Locked
    /\ v = Empty /\ k \in SecretKeys => e[k] \in {None, Empty}

(* Mutation of Applied: the file is kept.                                  *)
AppliedAndKept(s, path) ==
    LET merged(e) == [k \in Keys |-> IF Takes(s.env, k, s.files[path][k])
                                     THEN s.files[path][k] ELSE e[k]]
    IN  [s EXCEPT !.env = merged(s.env), !.docker = merged(s.docker)]

(* applyOutputsFile: merge a file into both environments and remove it.    *)
Applied(s, path) ==
    LET merged(e) == [k \in Keys |-> IF Takes(s.env, k, s.files[path][k])
                                     THEN s.files[path][k] ELSE e[k]]
    IN  [env |-> merged(s.env), docker |-> merged(s.docker),
         files |-> [s.files EXCEPT ![path] = NoVars]]

-----------------------------------------------------------------------------
(* Calls.  A member is a step that has begun: what it sees, and how far it *)
(* is.  wrote is what its process put into its outputs file.               *)

Member == [at : {"new", "setup", "running", "calling", "ok", "failed"},
           env : Map, docker : Map, roots : [source : Places, artifacts : Places,
                                             output : Places \cup {None}],
           wrote : Map]

(* A container in the background, and what it has yet to write.            *)
Container == [id : Ids, at : {"up", "down"}, path : Places \X Paths, writes : Map]

Call(steps, finally, teardown) ==
    [steps |-> steps, finally |-> finally, teardown |-> teardown, i |-> 1,
     docker |-> ExtraEnv, err |-> <<>>, members |-> <<>>]

Idle == <<>>
Top == stack[Len(stack)]
SetTop(call) == stack' = [stack EXCEPT ![Len(stack)] = call]
Failure(step, exit) == [id |-> step.id, exit |-> exit]

(* --env overrides the variables of the workflow, and --var both.          *)
Init ==
    /\ \E w \in Workflows :
          /\ stack = <<Call(w.steps, w.finally, FALSE)>>
          /\ env = Over(Nested(NoVars, w.vars), ExtraEnv)
    /\ roots = [source |-> "checkout", artifacts |-> "artifacts", output |-> None]
    /\ files = [f \in Places \X Paths |-> NoVars]
    /\ outcome = "running" /\ reported = <<>>
    /\ detach \in BOOLEAN /\ background = <<>>
    /\ interrupts = 0 /\ live = {} /\ began = {} /\ failed = <<>>

Running == outcome = "running"
AtRest == Running /\ Top.members = Idle
MoreSteps == Top.err = <<>> /\ Top.i <= Len(Top.steps)
Step == Top.steps[Top.i]

(* The container mounts are invalid: no step runs, no finally step either. *)
(* The finally steps have the mounts of their workflow.                    *)
RejectMounts ==
    /\ AtRest /\ MoreSteps /\ Top.i = 1 /\ ~Top.teardown
    /\ SetTop([Top EXCEPT !.err = <<Failure(Step, FALSE)>>, !.finally = <<>>])
    /\ failed' = Append(failed, Failure(Step, FALSE))
    /\ UNCHANGED <<env, roots, files, outcome, reported, interrupts, began, live, detached>>

-----------------------------------------------------------------------------
(* A blocking step.                                                        *)

(* Its overrides stay in the shared environments.                          *)
BeginStep ==
    LET e == Over(env, Step.vars)
        d == Over(Top.docker, Step.vars)
        r == Scoped(roots, Step)
    IN  /\ AtRest /\ MoreSteps /\ Step.blocking
        /\ env' = e /\ roots' = r
        /\ SetTop([Top EXCEPT !.docker = d,
                      !.members = [n \in {Top.i} |->
                          [at |-> "setup", env |-> e, docker |-> d, roots |-> r,
                           wrote |-> NoVars]]])
        /\ began' = began \cup {Step.id}
        /\ UNCHANGED <<files, outcome, reported, interrupts, failed, live, detached>>

(* Pre-scripts are sourced, the image is built, or a host builtin runs.    *)
Setup ==
    LET e == Exported(env, Step.exports)
    IN  /\ Running /\ Top.i \in DOMAIN Top.members
        /\ Step.blocking /\ Top.members[Top.i].at = "setup"
        /\ env' = e
        /\ SetTop([Top EXCEPT !.members[Top.i].env = e,
                      !.members[Top.i].at = IF Step.kind = "package" THEN "calling" ELSE "running"])
        /\ live' = IF Step.kind = "package" THEN live ELSE live \cup {Step.id}
        /\ UNCHANGED <<roots, files, outcome, reported, interrupts, began, failed, detached>>

(* runStepPackageWorkflow calls runSteps for the nested workflow; so does  *)
(* runStepResolverWorkflow, which has no inputs.                           *)
CallPackage ==
    /\ Running /\ Top.i \in DOMAIN Top.members
    /\ Top.members[Top.i].at = "calling"
    /\ env' = Over(Nested(env, Step.child.vars), Step.inputs)
    /\ stack' = Append([stack EXCEPT ![Len(stack)].docker = Over(@, Step.inputs)],
                       Call(Step.child.steps, Step.child.finally, FALSE))
    /\ UNCHANGED <<roots, files, outcome, reported, interrupts, began, failed, live, detached>>

(* A finished step's outputs are merged under the roots it left.           *)
EndStep ==
    LET s == Applied([env |-> env, docker |-> Top.docker, files |-> files],
                     OutputsFile(roots, Step))
    IN  /\ Running /\ Top.i \in DOMAIN Top.members
        /\ Step.blocking /\ Top.members[Top.i].at = "ok"
        /\ env' = s.env /\ files' = s.files
        /\ SetTop([Top EXCEPT !.docker = s.docker, !.i = @ + 1, !.members = Idle])
        /\ UNCHANGED <<roots, outcome, reported, interrupts, began, failed, live, detached>>

StopStep ==
    /\ Running /\ Top.i \in DOMAIN Top.members
    /\ Step.blocking /\ Top.members[Top.i].at = "failed"
    /\ SetTop([Top EXCEPT !.members = Idle])
    /\ UNCHANGED <<env, roots, files, outcome, reported, interrupts, began, failed, live, detached>>

-----------------------------------------------------------------------------
(* An async batch: the steps from i up to the next blocking one.           *)

BatchEnd ==
    CHOOSE j \in Top.i..Len(Top.steps) + 1 :
        /\ j = Len(Top.steps) + 1 \/ Top.steps[j].blocking
        /\ \A n \in Top.i..j - 1 : ~Top.steps[n].blocking
Batch == Top.i..BatchEnd - 1

Batchable ==
    /\ \A n \in Batch : Top.steps[n].kind # "package"
    /\ \A n, m \in Batch : Top.steps[n].outputs = Top.steps[m].outputs => n = m

(* Members get copies of the shared environments.                          *)
BeginBatch ==
    /\ AtRest /\ MoreSteps /\ ~Step.blocking
    /\ Batchable
    /\ SetTop([Top EXCEPT !.members =
                  [n \in Batch |-> [at |-> "new", env |-> env, docker |-> Top.docker,
                                    roots |-> roots, wrote |-> NoVars]]])
    /\ UNCHANGED <<env, roots, files, outcome, reported, interrupts, began, failed, live, detached>>

(* The batch is rejected, or an image it needs cannot be built.            *)
BatchFails ==
    /\ AtRest /\ MoreSteps /\ ~Step.blocking
    /\ SetTop([Top EXCEPT !.err = <<Failure(Step, FALSE)>>])
    /\ failed' = Append(failed, Failure(Step, FALSE))
    /\ UNCHANGED <<env, roots, files, outcome, reported, interrupts, began, live, detached>>

(* Mutation of MemberStart: the overrides go to the shared environment.    *)
MemberStartShared(n) ==
    LET m == Top.members[n]
        e == Over(env, Top.steps[n].vars)
    IN  /\ m.at = "new"
        /\ SetTop([Top EXCEPT !.members[n] =
                      [m EXCEPT !.at = "setup", !.env = e,
                          !.docker = Over(m.docker, Top.steps[n].vars),
                          !.roots = Scoped(m.roots, Top.steps[n])]])
        /\ env' = e
        /\ began' = began \cup {Top.steps[n].id}
        /\ UNCHANGED <<roots, files, outcome, reported, interrupts, failed, live, detached>>

MemberStart(n) ==
    LET m == Top.members[n]
    IN  /\ m.at = "new"
        /\ SetTop([Top EXCEPT !.members[n] =
                      [m EXCEPT !.at = "setup",
                          !.env = Over(m.env, Top.steps[n].vars),
                          !.docker = Over(m.docker, Top.steps[n].vars),
                          !.roots = Scoped(m.roots, Top.steps[n])]])
        /\ began' = began \cup {Top.steps[n].id}
        /\ UNCHANGED <<env, roots, files, outcome, reported, interrupts, failed, live, detached>>

(* A container member sources its pre-scripts; a host builtin is not run.  *)
MemberSetup(n) ==
    LET m == Top.members[n]
        step == Top.steps[n]
    IN  /\ ~step.blocking /\ m.at = "setup"
        /\ SetTop([Top EXCEPT !.members[n] =
                      [m EXCEPT !.at = "running",
                          !.env = IF step.kind = "host" THEN @ ELSE Exported(@, step.exports)]])
        /\ live' = live \cup {step.id}
        /\ UNCHANGED <<env, roots, files, outcome, reported, interrupts, began, failed, detached>>

-----------------------------------------------------------------------------
(* The process of a step, blocking or not.                                 *)

Write(n) ==
    LET m == Top.members[n]
        step == Top.steps[n]
    IN  /\ m.at = "running" /\ m.wrote = NoVars /\ step.writes # NoVars
        /\ files' = [files EXCEPT ![OutputsFile(m.roots, step)] = step.writes]
        /\ SetTop([Top EXCEPT !.members[n].wrote = step.writes])
        /\ UNCHANGED <<env, roots, outcome, reported, interrupts, began, failed, live, detached>>

(* The runner is done with a process, and the step has succeeded.          *)
Succeed(n) ==
    /\ Top.members[n].at = "running"
    /\ SetTop([Top EXCEPT !.members[n].at = "ok"])
    /\ live' = live \ {Top.steps[n].id}
    /\ UNCHANGED <<env, roots, files, outcome, reported, interrupts, began, failed>>

InBackground(step) == detach /\ step.kind = "container"

(* A process that is waited for ends well.                                 *)
Exit(n) == ~InBackground(Top.steps[n]) /\ Succeed(n) /\ UNCHANGED detached

(* docker run -d has returned.  The container goes on, and has yet to      *)
(* write its outputs file if it has not.                                   *)
Leave(n) ==
    LET m == Top.members[n]
        step == Top.steps[n]
    IN  /\ InBackground(step) /\ Succeed(n)
        /\ background' = Append(background,
               [id |-> step.id, at |-> "up", path |-> OutputsFile(m.roots, step),
                writes |-> IF m.wrote = NoVars THEN step.writes ELSE NoVars])
        /\ UNCHANGED detach

(* Mutation of FirstError: a later failure replaces an earlier one.        *)
LastError(err, failure) == <<failure>>

(* A batch keeps the first error.                                          *)
FirstError(err, failure) == IF err = <<>> THEN <<failure>> ELSE err

(* A container that ends with a code is an exit error, the rest are not:   *)
(* nor is a container that docker run -d does not start.                   *)
Fail(n) ==
    LET m == Top.members[n]
    IN  /\ m.at \in {"setup", "calling", "running"}
        /\ \E exit \in BOOLEAN :
              /\ exit => /\ Top.steps[n].kind = "container" /\ m.at = "running"
                         /\ ~detach
              /\ SetTop([Top EXCEPT !.members[n].at = "failed",
                                   !.err = FirstError(@, Failure(Top.steps[n], exit))])
              /\ failed' = Append(failed, Failure(Top.steps[n], exit))
        /\ live' = live \ {Top.steps[n].id}
        /\ UNCHANGED <<env, roots, files, outcome, reported, interrupts, began, detached>>

(* Mutation of Finished: the batch does not wait for the others after a    *)
(* failure.                                                                *)
FinishedOnError(members) ==
    \/ \A n \in DOMAIN members : members[n].at \in {"ok", "failed"}
    \/ \E n \in DOMAIN members : members[n].at = "failed"

(* Mutation of Finished: the batch waits for every member to succeed.      *)
FinishedWell(members) == \A n \in DOMAIN members : members[n].at = "ok"

Finished(members) == \A n \in DOMAIN members : members[n].at \in {"ok", "failed"}

(* Mutation of InOrder: the first step wins.                               *)
InReverseOrder(n) == BatchEnd - 1 - (n - Top.i)

(* The order in which the outputs of a batch are merged.                   *)
InOrder(n) == n

(* The files at path[i], ..., path[j] are merged one after the other.      *)
MergedFrom(start, path, i, j) ==
    LET merged[n \in i - 1..j] ==
            IF n < i THEN start ELSE Applied(merged[n - 1], path[n])
    IN  merged[j]

(* Every member has finished: merge the outputs in declaration order, each *)
(* from under the roots of the shared environment, or stop.                *)
Join ==
    LET start == [env |-> env, docker |-> Top.docker, files |-> files]
        path == [n \in Batch |-> OutputsFile(roots, Top.steps[InOrder(n)])]
        s == MergedFrom(start, path, Top.i, BatchEnd - 1)
    IN  /\ Running /\ Top.members # Idle /\ ~Step.blocking
        /\ Finished(Top.members)
        /\ IF Top.err = <<>>
           THEN /\ env' = s.env /\ files' = s.files
                /\ SetTop([Top EXCEPT !.docker = s.docker, !.i = BatchEnd, !.members = Idle])
           ELSE /\ UNCHANGED <<env, files>>
                /\ SetTop([Top EXCEPT !.members = Idle])
        /\ UNCHANGED <<roots, outcome, reported, interrupts, began, failed, live, detached>>

-----------------------------------------------------------------------------
(* The end of a call.                                                      *)

(* Mutation of Combined: the error of the finally steps is returned.       *)
CombinedLater(err, finallyErr) == IF finallyErr = <<>> THEN err ELSE finallyErr

(* exitCodeFromError: the first exit error among the joined ones.          *)
HasExit(err) == \E n \in DOMAIN err : err[n].exit
ExitOf(err) == <<err[CHOOSE n \in DOMAIN err : err[n].exit /\ \A m \in 1..n - 1 : ~err[m].exit]>>

(* What runWorkflowFinally returns for the two errors.                     *)
Combined(err, finallyErr) ==
    IF err # <<>> /\ finallyErr # <<>> /\ HasExit(err) THEN ExitOf(err)
    ELSE err \o finallyErr

(* Mutation of TearsDown: only a workflow that succeeded is torn down.     *)
TearsDownOnSuccess == Top.finally # <<>> /\ Top.err = <<>>

TearsDown == Top.finally # <<>>

(* The finally steps are a call of their own, made once.                   *)
Teardown ==
    /\ AtRest /\ ~MoreSteps
    /\ TearsDown
    /\ stack' = Append([stack EXCEPT ![Len(stack)].finally = <<>>],
                       Call(Top.finally, <<>>, TRUE))
    /\ UNCHANGED <<env, roots, files, outcome, reported, interrupts, began, failed, live, detached>>

Caller == stack[Len(stack) - 1]

(* A call returns to runWorkflowFinally or to the packaged step.           *)
Return ==
    /\ AtRest /\ ~MoreSteps /\ ~TearsDown
    /\ Len(stack) > 1
    /\ stack' = SubSeq(stack, 1, Len(stack) - 2) \o
                <<IF Top.teardown
                  THEN [Caller EXCEPT !.err = Combined(@, Top.err)]
                  ELSE [Caller EXCEPT !.err = Top.err,
                            !.members[Caller.i].at = IF Top.err = <<>> THEN "ok" ELSE "failed"]>>
    /\ UNCHANGED <<env, roots, files, outcome, reported, interrupts, began, failed, live, detached>>

(* The process ends with the exit code of a step, or prints its errors.    *)
End ==
    /\ AtRest /\ ~MoreSteps /\ ~TearsDown
    /\ Len(stack) = 1
    /\ outcome' = IF Top.err = <<>> THEN "ok" ELSE "failed"
    /\ reported' = IF HasExit(Top.err) THEN ExitOf(Top.err) ELSE Top.err
    /\ UNCHANGED <<env, roots, files, stack, interrupts, began, failed, live, detached>>

(* A signal is passed on to the processes that are waited for; without one *)
(* it ends the runner, also while it starts a container in the background. *)
Interrupt ==
    /\ Running /\ interrupts < MaxInterrupts
    /\ interrupts' = interrupts + 1
    /\ outcome' = IF \E n \in DOMAIN Top.members :
                        Top.members[n].at = "running" /\ ~InBackground(Top.steps[n])
                  THEN outcome ELSE "killed"
    /\ UNCHANGED <<env, roots, files, stack, reported, began, failed, live, detached>>

-----------------------------------------------------------------------------
(* A container in the background, which may outlive the run.               *)

LateWrite(b) ==
    /\ background[b].at = "up" /\ background[b].writes # NoVars
    /\ files' = [files EXCEPT ![background[b].path] = background[b].writes]
    /\ background' = [background EXCEPT ![b].writes = NoVars]

LateExit(b) ==
    /\ background[b].at = "up"
    /\ background' = [background EXCEPT ![b].at = "down", ![b].writes = NoVars]
    /\ UNCHANGED files

Background ==
    /\ \E b \in DOMAIN background : LateWrite(b) \/ LateExit(b)
    /\ UNCHANGED <<env, roots, stack, outcome, reported, interrupts, began, failed, live, detach>>

-----------------------------------------------------------------------------
Runner ==
    \/ RejectMounts \/ BeginStep \/ Setup \/ CallPackage \/ EndStep \/ StopStep
    \/ BeginBatch \/ BatchFails \/ Join
    \/ Teardown \/ Return \/ End
    \/ /\ Running
       /\ \E n \in DOMAIN Top.members : MemberStart(n) \/ MemberSetup(n)

Process ==
    /\ Running
    /\ \E n \in DOMAIN Top.members : Write(n) \/ Exit(n) \/ Leave(n) \/ Fail(n)

Next == Runner \/ Process \/ Interrupt \/ Background

Spec == Init /\ [][Next]_vars

(* The runner waits for nothing but its processes, and these are assumed   *)
(* to end; a container in the background need not.                         *)
FairSpec == Spec /\ WF_vars(Runner) /\ WF_vars(Process)

-----------------------------------------------------------------------------
(* Properties.                                                             *)

TypeOK ==
    /\ env \in Map
    /\ roots \in [source : Places, artifacts : Places, output : Places \cup {None}]
    /\ files \in [Places \X Paths -> Map]
    /\ outcome \in {"running", "ok", "failed", "killed"}
    /\ interrupts \in 0..MaxInterrupts
    /\ live \subseteq Ids /\ began \subseteq Ids
    /\ detach \in BOOLEAN /\ background \in Seq(Container)
    /\ \A c \in DOMAIN stack :
          /\ stack[c].docker \in Map
          /\ stack[c].i \in 1..Len(stack[c].steps) + 1
          /\ DOMAIN stack[c].members \subseteq DOMAIN stack[c].steps
          /\ \A n \in DOMAIN stack[c].members : stack[c].members[n] \in Member

(* Each async member sees the environment of the last barrier and its own  *)
(* variables and pre-scripts, whatever its siblings have done so far.      *)
MembersAreIsolated ==
    \A n \in DOMAIN Top.members :
        LET m == Top.members[n]
            step == Top.steps[n]
        IN  ~step.blocking =>
                \A k \in Keys :
                    /\ m.env[k] \in {env[k], step.vars[k], step.exports[k]}
                    /\ m.docker[k] \in {Top.docker[k], step.vars[k]}

(* Async steps keep their artifacts where the workflow does.  The merge of *)
(* a batch does not look for their outputs anywhere else.                  *)
Unscoped ==
    \A w \in Called : \A steps \in {w.steps, w.finally} : \A n \in DOMAIN steps :
        ~steps[n].blocking => steps[n].artifacts = "artifacts"

(* What the finished steps wrote is in both environments after the merge;  *)
(* of several async members that wrote a key the last in the file wins, in *)
(* whatever order they ran.  Not once a step has failed: what that step    *)
(* wrote is still in its file, and a finally step that has the same        *)
(* outputs file and writes nothing brings it in.  Nor once a container is  *)
(* in the background: it writes when it likes.                             *)
LastWriterStep ==
    \A k \in Keys :
        /\ Running /\ failed = <<>> /\ background = <<>>
        /\ Top.members # Idle /\ stack'[Len(stack)].members = Idle
        =>
            LET wrote == {n \in DOMAIN Top.members : Top.members[n].wrote[k] # None}
                last == CHOOSE n \in wrote : \A m \in wrote : m <= n
                value == Top.members[last].wrote[k]
            IN  wrote # {} /\ k \notin Locked /\ value # Empty =>
                    env'[k] = value /\ stack'[Len(stack)].docker[k] = value
LastWriterWins == [][LastWriterStep]_vars

(* What a step exports or is given after an earlier step's outputs is not  *)
(* undone by those outputs later: a step that writes nothing changes no    *)
(* variable when it ends, unless a step before it failed or left a         *)
(* container in the background.                                            *)
UsedOnceStep ==
    /\ Running /\ failed = <<>> /\ background = <<>> /\ Top.members # Idle
    /\ stack'[Len(stack)].members = Idle
    /\ \A n \in DOMAIN Top.members : Top.members[n].wrote = NoVars
    => env' = env
OutputsAreUsedOnce == [][UsedOnceStep]_vars

(* The names of a workflow's steps tell them from its finally steps, and   *)
(* these call no packaged workflow.                                        *)
NamesApart ==
    \A w \in Called : \A m \in DOMAIN w.finally :
        /\ w.finally[m].kind # "package"
        /\ \A n \in DOMAIN w.steps : w.steps[n].id # w.finally[m].id

(* Containers that still run and that nobody waits for.                    *)
Remaining == {background[b].id : b \in {d \in DOMAIN background : background[d].at = "up"}}

(* No process of a workflow is left while its finally steps run, also when *)
(* one member of a batch has failed long before the others end; but for    *)
(* containers, when the user said --detach.                                *)
TeardownWaits ==
    \A c \in DOMAIN stack :
        stack[c].teardown =>
            \A n \in DOMAIN stack[c - 1].steps :
                LET id == stack[c - 1].steps[n].id
                IN  id \notin live /\ (id \in Remaining => detach)

(* Every workflow that began a step has begun its finally steps, or failed *)
(* in the attempt.                                                         *)
TornDown ==
    \A w \in Called :
        (\E n \in DOMAIN w.steps : w.steps[n].id \in began) /\ w.finally # <<>> =>
            \/ w.finally[1].id \in began
            \/ \E n \in DOMAIN failed : failed[n].id = w.finally[1].id

(* A name tells which finally steps follow: those of every workflow that   *)
(* has a step of the name begin alike, and none of them has the name.      *)
TeardownsAgree ==
    \A v, w \in Called :
        w.finally # <<>> =>
            \A n \in DOMAIN w.steps :
                /\ \A m \in DOMAIN v.steps :
                      v.steps[m].id = w.steps[n].id =>
                          v.finally # <<>> /\ v.finally[1].id = w.finally[1].id
                /\ \A m \in DOMAIN v.finally : v.finally[m].id # w.steps[n].id

(* A run that returns has torn down the workflows it began, its packaged   *)
(* ones included, whichever step failed and wherever.                      *)
TeardownBegins == outcome \in {"ok", "failed"} => TornDown

(* A run ends well only if nothing failed, and with the exit code of the   *)
(* container that failed first, whatever else failed in the batch or in    *)
(* the finally steps of its workflow and of the workflows that called it.  *)
(* These are containers it waits for: one in the background reports none.  *)
FirstExitCodeSurvives ==
    outcome \in {"ok", "failed"} =>
        /\ outcome = "ok" <=> failed = <<>>
        /\ failed # <<>> /\ failed[1].exit => reported = <<failed[1]>>

(* Every run ends, whatever goes on in the background.                     *)
RunEnds == <>(outcome # "running")

-----------------------------------------------------------------------------
(* What the documentation says.                                            *)

(* "Optional finally: steps run after the main steps even when a step      *)
(* fails or the run is interrupted."                                       *)
TornDownWhenInterrupted == outcome # "running" => TornDown

=============================================================================
