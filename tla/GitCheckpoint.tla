--------------------------- MODULE GitCheckpoint ---------------------------
(***************************************************************************)
(* The controlled checkpoint and the controlled publication of a Git       *)
(* session (infrastructure/git_checkpoint_request.go and                   *)
(* git_publication_request.go).  An approved request names a parent        *)
(* commit, paths and the contents they must have; the runtime commits      *)
(* exactly that and leaves checkpoint metadata and a receipt.  A           *)
(* publication request names that commit; the runtime pushes it and leaves *)
(* metadata and a receipt too.  A process may die between any two steps    *)
(* and the caller may call again.  Meanwhile workers edit the worktree     *)
(* and the uncontrolled CheckpointSession commits all of it.               *)
(*                                                                         *)
(* HEAD only moves forward, so a commit is its place in the log and its    *)
(* parent is the place before it.  Commit 0 stands for none.               *)
(***************************************************************************)
EXTENDS Integers, Sequences, FiniteSets

CONSTANTS
    Paths,        \* tracked files
    Contents,     \* what a file may hold
    Requests,     \* approved checkpoint requests
    Committers,   \* processes that run CheckpointSessionFromRequest
    Publishers,   \* processes that run PublishSessionFromRequest
    MaxCommits,   \* bound on the length of the log
    MaxEdits,     \* bound on edits of the worktree
    MaxFaults,    \* bound on deaths and failed commands
    Foreign,      \* a commit of the remote that this repository has not
    None

ASSUME GitAssumption ==
    /\ MaxCommits \in Nat \ {0} /\ MaxEdits \in Nat /\ MaxFaults \in Nat
    /\ Committers \cap Publishers = {}
    /\ None \notin Requests /\ Foreign \notin Nat
    /\ Contents # {}

Procs == Committers \cup Publishers

VARIABLES
    log,         \* the commits of the session branch; HEAD is the last
    index, work, \* the Git index and the worktree
    session,     \* an uncontrolled checkpoint has staged the worktree
    requests,    \* the request files
    metadata,    \* the runtime metadata of a request's checkpoint
    receipt,     \* its receipt
    pc, req,     \* where a process stands and the request it serves
    commit,      \* the commit a committer is about to record
    draft,       \* the publication receipt a publisher is about to record
    remote,      \* the destination ref
    pubRequest,  \* the commit a publication request names
    pubMetadata, pubReceipt,
    edits, faults,
    reported,    \* history: the commits returned to callers
    pushed       \* history: the commits this runtime has pushed

gitVars == <<log, index, work>>
fileVars == <<requests, metadata, receipt>>
procVars == <<pc, req, commit, draft>>
pubVars == <<remote, pubRequest, pubMetadata, pubReceipt, pushed>>
vars == <<gitVars, session, fileVars, procVars, pubVars, edits, faults, reported>>

Trees == [Paths -> Contents]
Commits == 0..MaxCommits
HEAD == Len(log)
HEADTree == log[HEAD].tree

PC == {"off", "head", "preflight", "add", "staged", "commit", "unstage", "made",
       "verify", "metadata", "renameMetadata", "receipt", "renameReceipt",
       "load", "observe", "push", "pushed", "pubMetadata",
       "renamePubMetadata", "pubReceipt", "renamePubReceipt"}

(* A request file: ExpectedParent, Paths and Postimages.                   *)
Request == [parent : Commits, paths : SUBSET Paths, post : Trees]
(* A publication receipt: whether an earlier push was recognised, and the  *)
(* call that made it, in place of its time.                                *)
Publication == [recovered : BOOLEAN, at : Publishers \X (0..MaxFaults)]

TypeOK ==
    /\ log \in Seq([tree : Trees, req : Requests \cup {None}])
    /\ HEAD \in 1..MaxCommits
    /\ index \in Trees /\ work \in Trees /\ session \in BOOLEAN
    /\ requests \in [Requests -> Request \cup {None}]
    /\ metadata \in [Requests -> Commits] /\ receipt \in [Requests -> Commits]
    /\ pc \in [Procs -> PC] /\ req \in [Procs -> Requests \cup {None}]
    /\ commit \in [Procs -> Commits] /\ draft \in [Procs -> Publication \cup {None}]
    /\ remote \in Commits \cup {Foreign}
    /\ pubRequest \in [Requests -> Commits]
    /\ pubMetadata \in [Requests -> Publication \cup {None}]
    /\ pubReceipt \in [Requests -> Publication \cup {None}]
    /\ edits \in 0..MaxEdits /\ faults \in 0..MaxFaults
    /\ reported \in [Requests -> SUBSET Commits] /\ pushed \in SUBSET Commits

(* A fresh session: the base commit, a clean worktree, nothing approved.   *)
Init ==
    /\ \E t \in Trees :
          log = <<[tree |-> t, req |-> None]>> /\ index = t /\ work = t
    /\ session = FALSE
    /\ requests = [r \in Requests |-> None]
    /\ metadata = [r \in Requests |-> 0] /\ receipt = [r \in Requests |-> 0]
    /\ pc = [p \in Procs |-> "off"] /\ req = [p \in Procs |-> None]
    /\ commit = [p \in Procs |-> 0] /\ draft = [p \in Procs |-> None]
    /\ remote \in {0, 1}
    /\ pubRequest = [r \in Requests |-> 0]
    /\ pubMetadata = [r \in Requests |-> None] /\ pubReceipt = [r \in Requests |-> None]
    /\ edits = 0 /\ faults = 0
    /\ reported = [r \in Requests |-> {}] /\ pushed = {}

-----------------------------------------------------------------------------
(* Git.                                                                    *)

(* The paths of git status --porcelain: the first column compares the      *)
(* index with HEAD, the second the worktree with the index.                *)
Staged == {f \in Paths : index[f] # HEADTree[f]}
Unstaged == {f \in Paths : work[f] # index[f]}
Clean == Staged \cup Unstaged = {}

(* git diff-tree of a commit that has a parent.                            *)
CommitPaths(c) == {f \in Paths : log[c].tree[f] # log[c - 1].tree[f]}

Agrees(tree, q) == \A f \in q.paths : tree[f] = q.post[f]

(* Mutation of ExactCommit: the trailers are not compared.                 *)
UnboundCommit(r, c) ==
    /\ c > 1 /\ c <= HEAD /\ requests[r] # None
    /\ c - 1 = requests[r].parent
    /\ CommitPaths(c) = requests[r].paths
    /\ Agrees(log[c].tree, requests[r])

(* A commit is what the request asks for: parent, changed paths, contents  *)
(* and trailers (controlledCheckpointReceiptForCommit, but the worktree).  *)
ExactCommit(r, c) ==
    /\ c > 1 /\ c <= HEAD /\ requests[r] # None
    /\ c - 1 = requests[r].parent
    /\ CommitPaths(c) = requests[r].paths
    /\ Agrees(log[c].tree, requests[r])
    /\ log[c].req = r

(* git commit: the whole index becomes a commit on HEAD, and fails when    *)
(* nothing is staged.                                                      *)
GitCommit(trailer) ==
    /\ Staged # {} /\ HEAD < MaxCommits
    /\ log' = Append(log, [tree |-> index, req |-> trailer])
    /\ UNCHANGED <<index, work>>

-----------------------------------------------------------------------------
(* The rest of the world.                                                  *)

(* A worker writes a file of the worktree.                                 *)
Edit(f, v) ==
    /\ edits < MaxEdits /\ work[f] # v
    /\ work' = [work EXCEPT ![f] = v]
    /\ edits' = edits + 1
    /\ UNCHANGED <<log, index, session, fileVars, procVars, pubVars, faults, reported>>

(* An approval writes the request file for the present worktree: paths and *)
(* postimages of what changed since HEAD.                                  *)
Approve(r) ==
    /\ requests[r] = None
    /\ \E ps \in SUBSET {f \in Paths : work[f] # HEADTree[f]} \ {{}} :
          requests' = [requests EXCEPT
              ![r] = [parent |-> HEAD, paths |-> ps,
                      post |-> [f \in Paths |-> IF f \in ps THEN work[f] ELSE HEADTree[f]]]]
    /\ UNCHANGED <<gitVars, session, metadata, receipt, procVars, pubVars, edits, faults, reported>>

(* CheckpointSession: when the worktree is dirty, git add -A, then git     *)
(* commit with the session's own message.                                  *)
SessionAdd ==
    /\ ~session /\ ~Clean
    /\ index' = work
    /\ session' = TRUE
    /\ UNCHANGED <<log, work, fileVars, procVars, pubVars, edits, faults, reported>>

SessionCommit ==
    /\ session
    /\ session' = FALSE
    /\ GitCommit(None) \/ (Staged = {} /\ UNCHANGED gitVars)
    /\ UNCHANGED <<fileVars, procVars, pubVars, edits, faults, reported>>

-----------------------------------------------------------------------------
(* checkpointSessionControlled.                                            *)

Goto(p, next) == pc' = [pc EXCEPT ![p] = next]

(* A call returns and forgets its locals.                                  *)
Return(p) ==
    /\ Goto(p, "off")
    /\ req' = [req EXCEPT ![p] = None]
    /\ commit' = [commit EXCEPT ![p] = 0]
    /\ draft' = [draft EXCEPT ![p] = None]

Report(r, c) == reported' = [reported EXCEPT ![r] = @ \cup {c}]

(* A receipt that exists is validated against the commit and the worktree  *)
(* again and returned, or the call fails.                                  *)
Repeat(p, r) ==
    /\ pc[p] = "off" /\ requests[r] # None /\ receipt[r] # 0
    /\ ExactCommit(r, receipt[r]) /\ Clean
    /\ Report(r, receipt[r])
    /\ UNCHANGED <<gitVars, session, fileVars, procVars, pubVars, edits, faults>>

Begin(p, r) ==
    /\ pc[p] = "off" /\ requests[r] # None /\ receipt[r] = 0
    /\ Goto(p, "head")
    /\ req' = [req EXCEPT ![p] = r]
    /\ UNCHANGED <<gitVars, session, fileVars, commit, draft, pubVars, edits, faults, reported>>

(* Mutation of ReadHead: an advanced HEAD is committed on all the same.    *)
ReadHeadAnyway(p) ==
    /\ pc[p] = "head"
    /\ Goto(p, "preflight")
    /\ UNCHANGED <<gitVars, session, fileVars, req, commit, draft, pubVars, edits, faults, reported>>

(* The parent is still HEAD, or HEAD may be the commit of an earlier call. *)
ReadHead(p) ==
    /\ pc[p] = "head"
    /\ \/ /\ HEAD = requests[req[p]].parent
          /\ Goto(p, "preflight")
          /\ UNCHANGED commit
       \/ /\ HEAD # requests[req[p]].parent
          /\ Goto(p, "verify")
          /\ commit' = [commit EXCEPT ![p] = HEAD]
    /\ UNCHANGED <<gitVars, session, fileVars, req, draft, pubVars, edits, faults, reported>>

(* preflightControlledCheckpointWorkspace: an empty index, exactly the     *)
(* requested paths modified, and their contents.                           *)
Preflight(p) ==
    /\ pc[p] = "preflight"
    /\ IF /\ Staged = {}
          /\ Unstaged = requests[req[p]].paths
          /\ Agrees(work, requests[req[p]])
       THEN Goto(p, "add") /\ UNCHANGED <<req, commit, draft>>
       ELSE Return(p)
    /\ UNCHANGED <<gitVars, session, fileVars, pubVars, edits, faults, reported>>

(* git add -- paths                                                        *)
Add(p) ==
    /\ pc[p] = "add"
    /\ index' = [f \in Paths |-> IF f \in requests[req[p]].paths THEN work[f] ELSE index[f]]
    /\ Goto(p, "staged")
    /\ UNCHANGED <<log, work, session, fileVars, req, commit, draft, pubVars, edits, faults, reported>>

(* verifyControlledCheckpointStagedState.                                  *)
VerifyStaged(p) ==
    /\ pc[p] = "staged"
    /\ IF /\ Staged = requests[req[p]].paths /\ Unstaged = {}
          /\ Agrees(index, requests[req[p]])
       THEN Goto(p, "commit")
       ELSE Goto(p, "unstage")
    /\ UNCHANGED <<gitVars, session, fileVars, req, commit, draft, pubVars, edits, faults, reported>>

Commit(p) ==
    /\ pc[p] = "commit"
    /\ \/ GitCommit(req[p]) /\ Goto(p, "made")
       \/ Staged = {} /\ Goto(p, "unstage") /\ UNCHANGED gitVars
    /\ UNCHANGED <<session, fileVars, req, commit, draft, pubVars, edits, faults, reported>>

(* The deferred git reset of the paths when a step after git add fails.    *)
Unstage(p) ==
    /\ pc[p] = "unstage"
    /\ index' = [f \in Paths |->
           IF f \in requests[req[p]].paths THEN HEADTree[f] ELSE index[f]]
    /\ Return(p)
    /\ UNCHANGED <<log, work, session, fileVars, pubVars, edits, faults, reported>>

RevParse(p) ==
    /\ pc[p] = "made"
    /\ commit' = [commit EXCEPT ![p] = HEAD]
    /\ Goto(p, "verify")
    /\ UNCHANGED <<gitVars, session, fileVars, req, draft, pubVars, edits, faults, reported>>

(* Mutation of Verify: the commit is taken for the one that was made.      *)
VerifyTrusting(p) ==
    /\ pc[p] = "verify"
    /\ Goto(p, "metadata")
    /\ UNCHANGED <<gitVars, session, fileVars, req, commit, draft, pubVars, edits, faults, reported>>

(* controlledCheckpointReceiptForCommit.                                   *)
Verify(p) ==
    /\ pc[p] = "verify"
    /\ IF ExactCommit(req[p], commit[p]) /\ Clean
       THEN Goto(p, "metadata") /\ UNCHANGED <<req, commit, draft>>
       ELSE Return(p)
    /\ UNCHANGED <<gitVars, session, fileVars, pubVars, edits, faults, reported>>

(* Mutation of CheckMetadata: metadata that exists is an error.            *)
CheckMetadataStrict(p) ==
    /\ pc[p] = "metadata"
    /\ \/ metadata[req[p]] = 0 /\ Goto(p, "renameMetadata") /\ UNCHANGED <<req, commit, draft>>
       \/ metadata[req[p]] # 0 /\ Return(p)
    /\ UNCHANGED <<gitVars, session, fileVars, pubVars, edits, faults, reported>>

(* writeControlledCheckpointMetadata: equal metadata is kept, different    *)
(* metadata is an error, missing metadata is written.                      *)
CheckMetadata(p) ==
    /\ pc[p] = "metadata"
    /\ \/ metadata[req[p]] = 0 /\ Goto(p, "renameMetadata") /\ UNCHANGED <<req, commit, draft>>
       \/ metadata[req[p]] = commit[p] /\ Goto(p, "receipt") /\ UNCHANGED <<req, commit, draft>>
       \/ metadata[req[p]] \notin {0, commit[p]} /\ Return(p)
    /\ UNCHANGED <<gitVars, session, fileVars, pubVars, edits, faults, reported>>

(* The rename replaces whatever another process has written since.         *)
RenameMetadata(p) ==
    /\ pc[p] = "renameMetadata"
    /\ metadata' = [metadata EXCEPT ![req[p]] = commit[p]]
    /\ Goto(p, "receipt")
    /\ UNCHANGED <<gitVars, session, requests, receipt, req, commit, draft, pubVars, edits, faults, reported>>

(* writeControlledCheckpointJSON without replace.                          *)
CheckReceipt(p) ==
    /\ pc[p] = "receipt"
    /\ IF receipt[req[p]] = 0
       THEN Goto(p, "renameReceipt") /\ UNCHANGED <<req, commit, draft>>
       ELSE Return(p)
    /\ UNCHANGED <<gitVars, session, fileVars, pubVars, edits, faults, reported>>

RenameReceipt(p) ==
    /\ pc[p] = "renameReceipt"
    /\ receipt' = [receipt EXCEPT ![req[p]] = commit[p]]
    /\ Report(req[p], commit[p])
    /\ Return(p)
    /\ UNCHANGED <<gitVars, session, requests, metadata, pubVars, edits, faults>>

-----------------------------------------------------------------------------
(* publishSessionControlled.                                               *)

(* A publication request binds the commit of the checkpoint receipt.       *)
ApprovePublication(r) ==
    /\ Publishers # {}
    /\ receipt[r] # 0 /\ pubRequest[r] = 0
    /\ pubRequest' = [pubRequest EXCEPT ![r] = receipt[r]]
    /\ UNCHANGED <<gitVars, session, fileVars, procVars, remote, pubMetadata, pubReceipt, pushed,
                   edits, faults, reported>>

(* The checkpoint's receipt and metadata are validated again and bound to  *)
(* the request, and HEAD must be that commit with a clean worktree         *)
(* (ValidateControlledCheckpointReceiptForSession and                      *)
(* preflightControlledPublicationWorkspace).                               *)
PubBegin(p, r) ==
    /\ pc[p] = "off" /\ pubRequest[r] # 0
    /\ receipt[r] = pubRequest[r] /\ metadata[r] = receipt[r]
    /\ ExactCommit(r, receipt[r]) /\ Clean
    /\ HEAD = pubRequest[r]
    /\ Goto(p, "load")
    /\ req' = [req EXCEPT ![p] = r]
    /\ UNCHANGED <<gitVars, session, fileVars, commit, draft, pubVars, edits, faults, reported>>

(* The receipt ends the call, after missing metadata is restored; metadata *)
(* without a receipt is taken for the receipt to be.                       *)
PubLoad(p) ==
    /\ pc[p] = "load"
    /\ LET r == req[p] IN
       \/ /\ pubReceipt[r] # None
          /\ pubMetadata' = [pubMetadata EXCEPT ![r] = IF @ = None THEN pubReceipt[r] ELSE @]
          /\ Return(p)
       \/ /\ pubReceipt[r] = None
          /\ Goto(p, "observe")
          /\ draft' = [draft EXCEPT ![p] = pubMetadata[r]]
          /\ UNCHANGED <<req, commit, pubMetadata>>
    /\ UNCHANGED <<gitVars, session, fileVars, remote, pubRequest, pubReceipt, pushed,
                   edits, faults, reported>>

(* The receipt of this call, unless metadata has given one.                *)
Drafted(p, recovered) ==
    draft' = [draft EXCEPT ![p] =
                  IF @ = None THEN [recovered |-> recovered, at |-> <<p, faults>>] ELSE @]

(* git ls-remote before the push; a failed observation only means a push.  *)
Observe(p) ==
    /\ pc[p] = "observe"
    /\ \/ /\ remote = pubRequest[req[p]]
          /\ Drafted(p, TRUE)
          /\ Goto(p, "pubMetadata")
          /\ UNCHANGED faults
       \/ /\ remote # pubRequest[req[p]]
          /\ Goto(p, "push")
          /\ UNCHANGED <<draft, faults>>
       \/ /\ faults < MaxFaults /\ faults' = faults + 1
          /\ Goto(p, "push")
          /\ UNCHANGED draft
    /\ UNCHANGED <<gitVars, session, fileVars, req, commit, pubVars, edits, reported>>

(* Mutation of Source: the branch tip is pushed, not the approved commit.  *)
SourceTip(p) == HEAD

(* The refspec's source.                                                   *)
Source(p) == pubRequest[req[p]]

(* git push commit:ref, without force: accepted when the ref is an         *)
(* ancestor of the commit or absent; the answer may be lost.               *)
Push(p) ==
    /\ pc[p] = "push"
    /\ LET accepted == remote \in 0..Source(p) IN
       \/ /\ accepted
          /\ remote' = Source(p) /\ pushed' = pushed \cup {Source(p)}
          /\ \/ Goto(p, "pushed") /\ UNCHANGED <<req, commit, draft, faults>>
             \/ faults < MaxFaults /\ faults' = faults + 1 /\ Return(p)
       \/ /\ ~accepted
          /\ Return(p)
          /\ UNCHANGED <<remote, pushed, faults>>
    /\ UNCHANGED <<gitVars, session, fileVars, pubRequest, pubMetadata, pubReceipt, edits, reported>>

ObserveAgain(p) ==
    /\ pc[p] = "pushed"
    /\ IF remote = pubRequest[req[p]]
       THEN Drafted(p, FALSE) /\ Goto(p, "pubMetadata") /\ UNCHANGED <<req, commit>>
       ELSE Return(p)
    /\ UNCHANGED <<gitVars, session, fileVars, pubVars, edits, faults, reported>>

(* Mutation of CheckPubMetadata: only a call that pushed leaves metadata.  *)
CheckPubMetadataOfPush(p) ==
    /\ pc[p] = "pubMetadata"
    /\ Goto(p, IF draft[p].recovered THEN "pubReceipt" ELSE "renamePubMetadata")
    /\ UNCHANGED <<gitVars, session, fileVars, req, commit, draft, pubVars, edits, faults, reported>>

(* writeControlledPublicationMetadata: as for checkpoints.                 *)
CheckPubMetadata(p) ==
    /\ pc[p] = "pubMetadata"
    /\ LET held == pubMetadata[req[p]] IN
       \/ held = None /\ Goto(p, "renamePubMetadata") /\ UNCHANGED <<req, commit, draft>>
       \/ held = draft[p] /\ Goto(p, "pubReceipt") /\ UNCHANGED <<req, commit, draft>>
       \/ held \notin {None, draft[p]} /\ Return(p)
    /\ UNCHANGED <<gitVars, session, fileVars, pubVars, edits, faults, reported>>

RenamePubMetadata(p) ==
    /\ pc[p] = "renamePubMetadata"
    /\ pubMetadata' = [pubMetadata EXCEPT ![req[p]] = draft[p]]
    /\ Goto(p, "pubReceipt")
    /\ UNCHANGED <<gitVars, session, fileVars, req, commit, draft, remote, pubRequest, pubReceipt,
                   pushed, edits, faults, reported>>

CheckPubReceipt(p) ==
    /\ pc[p] = "pubReceipt"
    /\ IF pubReceipt[req[p]] = None
       THEN Goto(p, "renamePubReceipt") /\ UNCHANGED <<req, commit, draft>>
       ELSE Return(p)
    /\ UNCHANGED <<gitVars, session, fileVars, pubVars, edits, faults, reported>>

RenamePubReceipt(p) ==
    /\ pc[p] = "renamePubReceipt"
    /\ pubReceipt' = [pubReceipt EXCEPT ![req[p]] = draft[p]]
    /\ Return(p)
    /\ UNCHANGED <<gitVars, session, fileVars, remote, pubRequest, pubMetadata, pushed,
                   edits, faults, reported>>

(* Someone else pushes a commit of their own on top of the ref.            *)
ForeignPush ==
    /\ Publishers # {} /\ remote # Foreign
    /\ remote' = Foreign
    /\ UNCHANGED <<gitVars, session, fileVars, procVars, pubRequest, pubMetadata, pubReceipt, pushed,
                   edits, faults, reported>>

-----------------------------------------------------------------------------
(* Faults.                                                                 *)

(* A process dies; the files and the index stay as they are.               *)
Die(p) ==
    /\ faults < MaxFaults /\ pc[p] # "off"
    /\ faults' = faults + 1
    /\ Return(p)
    /\ UNCHANGED <<gitVars, session, fileVars, pubVars, edits, reported>>

(* git add or git commit fails and the paths are reset.                    *)
GitFails(p) ==
    /\ faults < MaxFaults /\ pc[p] \in {"add", "commit"}
    /\ faults' = faults + 1
    /\ Goto(p, "unstage")
    /\ UNCHANGED <<gitVars, session, fileVars, req, commit, draft, pubVars, edits, reported>>

CheckpointStep(p) ==
    \/ ReadHead(p) \/ Preflight(p) \/ Add(p) \/ VerifyStaged(p) \/ Commit(p) \/ Unstage(p)
    \/ RevParse(p) \/ Verify(p) \/ CheckMetadata(p) \/ RenameMetadata(p)
    \/ CheckReceipt(p) \/ RenameReceipt(p)

PublishStep(p) ==
    \/ PubLoad(p) \/ Observe(p) \/ Push(p) \/ ObserveAgain(p)
    \/ CheckPubMetadata(p) \/ RenamePubMetadata(p) \/ CheckPubReceipt(p) \/ RenamePubReceipt(p)

World ==
    \/ \E f \in Paths, v \in Contents : Edit(f, v)
    \/ \E r \in Requests : Approve(r) \/ ApprovePublication(r)
    \/ SessionAdd \/ SessionCommit \/ ForeignPush

Next ==
    \/ World
    \/ \E p \in Committers :
          \/ \E r \in Requests : Begin(p, r) \/ Repeat(p, r)
          \/ CheckpointStep(p)
    \/ \E p \in Publishers :
          \/ \E r \in Requests : PubBegin(p, r)
          \/ PublishStep(p)
    \/ \E p \in Procs : Die(p) \/ GitFails(p)

(* A process that runs takes its steps, and whoever asked for a checkpoint *)
(* calls again.                                                            *)
Fairness ==
    \A p \in Committers :
        /\ WF_vars(CheckpointStep(p))
        /\ \A r \in Requests : SF_vars(Begin(p, r))

Spec == Init /\ [][Next]_vars /\ Fairness

-----------------------------------------------------------------------------
(* Properties.                                                             *)

(* The commit an approval stands for: the approved tree on the approved    *)
(* parent, with the request's trailers.                                    *)
Approved(r, c) ==
    /\ requests[r] # None /\ c \in 2..HEAD
    /\ log[c] = [tree |-> requests[r].post, req |-> r]
    /\ c - 1 = requests[r].parent

(* A receipt, and the metadata, name a commit with the parent, the paths,  *)
(* the contents and the trailers that were approved, whatever workers,     *)
(* other committers and uncontrolled checkpoints did in between            *)
(* (controlledCheckpointReceiptForCommit).                                 *)
ReceiptIsExact ==
    \A r \in Requests : \A c \in {receipt[r], metadata[r]} \ {0} : Approved(r, c)

(* Racing processes replace each other's metadata and receipt without a    *)
(* lock; what a file once said it says for ever, and every caller was told *)
(* the same commit (writeControlledCheckpointJSON).                        *)
ReceiptsAreFinal ==
    [][\A r \in Requests :
          /\ receipt[r] # 0 => receipt'[r] = receipt[r]
          /\ metadata[r] # 0 => metadata'[r] = metadata[r]
          /\ reported'[r] \subseteq {receipt'[r]}]_vars

(* "revalidated instead of creating a second commit": with one committer,  *)
(* no retry after a death or a failure commits for the same request again. *)
OneCommitPerRequest ==
    \A r \in Requests : Cardinality({c \in 1..HEAD : log[c].req = r}) <= 1

(* What the runtime pushes is a commit that a checkpoint receipt names,    *)
(* even if the branch has moved on since the publication was checked.      *)
PushedIsApproved ==
    \A c \in pushed : \E r \in Requests : pubRequest[r] = c /\ receipt[r] = c /\ Approved(r, c)

(* A publication receipt and the runtime's metadata of it never disagree,  *)
(* so a later call can succeed, and a receipt does not change; the remote  *)
(* has held the commit, by this push or by one that was recognised.        *)
PublicationsAgree ==
    \A r \in Requests :
        pubReceipt[r] # None => pubMetadata[r] = pubReceipt[r] /\ pubRequest[r] \in pushed

(* A death between the commit and the receipt: as long as the commit stays *)
(* HEAD and the worktree clean, calling again produces the receipt.        *)
RecoveryCompletes ==
    \A r \in Requests :
        (Approved(r, HEAD) /\ Clean)
            ~> (receipt[r] # 0 \/ ~Approved(r, HEAD) \/ ~Clean)
=============================================================================
