------------------------ MODULE GitCheckpointProofs ------------------------
(***************************************************************************)
(* Receipts and metadata of controlled checkpoints are exact and final,    *)
(* for any number of files, requests, committers, publishers, edits,       *)
(* commits and faults.                                                     *)
(*                                                                         *)
(* No lock keeps two committers apart.  What does is that a commit is      *)
(* verified before it is recorded, that neither the log nor a request is   *)
(* ever rewritten, so that it stays verified, and that the parent of a     *)
(* request has one successor: whoever records a commit for a request       *)
(* records the same one.                                                   *)
(*                                                                         *)
(* That a request has one commit, and that the two files of a publication  *)
(* agree, does need exclusion: these are proved for a single committer and *)
(* a single publisher, which may die and be started again at any point.    *)
(***************************************************************************)
EXTENDS GitCheckpoint, FiniteSetTheorems, TLAPS

Entries == [tree : Trees, req : Requests \cup {None}]

GitTyping ==
    /\ log \in Seq(Entries) /\ Len(log) >= 1
    /\ index \in Trees /\ work \in Trees

FileTyping ==
    /\ DOMAIN requests = Requests
    /\ metadata \in [Requests -> Nat] /\ receipt \in [Requests -> Nat]
    /\ reported \in [Requests -> SUBSET Nat]

ProcTyping ==
    /\ pc \in [Procs -> PC]
    /\ req \in [Procs -> Requests \cup {None}]
    /\ commit \in [Procs -> Nat]

(* An approved request names a commit of the log, and asks for no change   *)
(* outside its paths.                                                      *)
Bound(q) ==
    /\ q.parent \in 1..HEAD /\ q.post \in Trees
    /\ \A f \in Paths \ q.paths : q.post[f] = log[q.parent].tree[f]
RequestsAreBound == \A r \in Requests : requests[r] # None => Bound(requests[r])

(* A process that is past Verify and has not returned.                     *)
Recording == {"metadata", "renameMetadata", "receipt", "renameReceipt"}

(* Whoever records a commit has verified it.                               *)
RecordedIsVerified ==
    \A p \in Procs :
        /\ pc[p] # "off" => req[p] \in Requests
        /\ pc[p] \in Recording => ExactCommit(req[p], commit[p])

(* What is recorded was verified, and what was reported is in the receipt. *)
FilesAreVerified ==
    \A r \in Requests :
        /\ receipt[r] # 0 => ExactCommit(r, receipt[r])
        /\ metadata[r] # 0 => ExactCommit(r, metadata[r])
        /\ \A c \in reported[r] : c # 0 /\ c = receipt[r]

Verified ==
    /\ GitTyping /\ FileTyping /\ ProcTyping
    /\ RequestsAreBound /\ RecordedIsVerified /\ FilesAreVerified

-----------------------------------------------------------------------------
(* A commit of the log that has a request's parent is the only one.        *)
LEMMA ExactIsUnique ==
    ASSUME NEW r, NEW c \in Nat, NEW d \in Nat, ExactCommit(r, c), ExactCommit(r, d)
    PROVE  c = d
  BY DEF ExactCommit

LEMMA ExactIsPositive ==
    ASSUME NEW r, NEW c \in Nat, ExactCommit(r, c) PROVE c # 0
  BY DEF ExactCommit

(* A verified commit is the approved one: the paths it changes are those   *)
(* of the request, and elsewhere both have the parent's contents.          *)
LEMMA ExactIsApproved ==
    ASSUME Verified, NEW r \in Requests, NEW c \in Nat, ExactCommit(r, c)
    PROVE  Approved(r, c)
  <1> DEFINE q == requests[r]
  <1>1. /\ q # None /\ c \in 2..HEAD /\ c - 1 = q.parent /\ log[c].req = r
        /\ CommitPaths(c) = q.paths /\ Agrees(log[c].tree, q)
    BY DEF ExactCommit, HEAD, Verified, GitTyping
  <1>2. Bound(q)
    BY <1>1 DEF Verified, RequestsAreBound
  <1>3. log[c] \in Entries
    BY <1>1 DEF Verified, GitTyping, HEAD
  <1>4. ASSUME NEW f \in Paths PROVE log[c].tree[f] = q.post[f]
    <2>1. CASE f \in q.paths
      BY <1>1, <2>1 DEF Agrees
    <2>2. CASE f \notin q.paths
      <3>1. log[c].tree[f] = log[c - 1].tree[f]
        BY <1>1, <2>2 DEF CommitPaths
      <3> QED
        BY <1>1, <1>2, <2>2, <3>1 DEF Bound
    <2> QED
      BY <2>1, <2>2
  <1>5. log[c].tree = q.post
    BY <1>2, <1>3, <1>4 DEF Bound, Entries, Trees
  <1>6. log[c] = [tree |-> q.post, req |-> r]
    BY <1>1, <1>3, <1>5 DEF Entries
  <1> QED
    BY <1>1, <1>6 DEF Approved

(* What every step does to the log and the requests.                       *)
Grows ==
    /\ Len(log) <= Len(log')
    /\ \A c \in 1..Len(log) : log'[c] = log[c]
    /\ \A r \in Requests : requests[r] # None => requests'[r] = requests[r]

(* So a commit stays verified.                                             *)
LEMMA ExactIsStable ==
    ASSUME GitTyping, GitTyping', Grows, NEW r \in Requests, NEW c \in Nat, ExactCommit(r, c)
    PROVE  ExactCommit(r, c)'
  <1>1. c \in 1..Len(log) /\ c - 1 \in 1..Len(log) /\ Len(log) \in Nat /\ Len(log') \in Nat
    BY DEF ExactCommit, HEAD, GitTyping
  <1>2. log'[c] = log[c] /\ log'[c - 1] = log[c - 1] /\ requests'[r] = requests[r]
    BY <1>1 DEF Grows, ExactCommit
  <1>3. CommitPaths(c)' = CommitPaths(c)
    BY <1>2 DEF CommitPaths
  <1>4. c <= Len(log')
    BY <1>1 DEF Grows
  <1> QED
    BY <1>2, <1>3, <1>4 DEF ExactCommit, Agrees, HEAD

LEMMA BoundIsStable ==
    ASSUME GitTyping, GitTyping', Grows, NEW q, Bound(q)
    PROVE  Bound(q)'
  <1>1. q.parent \in 1..Len(log) /\ Len(log) \in Nat /\ Len(log') \in Nat
    BY DEF Bound, HEAD, GitTyping
  <1>2. log'[q.parent] = log[q.parent] /\ q.parent \in 1..Len(log')
    BY <1>1 DEF Grows
  <1> QED
    BY <1>2 DEF Bound, HEAD

LEMMA HeadTyped == ASSUME GitTyping PROVE HEAD \in 1..HEAD /\ HEADTree \in Trees
  <1>1. Len(log) \in 1..Len(log)
    BY DEF GitTyping
  <1>2. log[Len(log)] \in Entries
    BY <1>1 DEF GitTyping
  <1> QED
    BY <1>1, <1>2 DEF HEAD, HEADTree, Entries

LEMMA NoCommitGrows == ASSUME GitTyping, log' = log, requests' = requests PROVE Grows
  BY DEF Grows, GitTyping

LEMMA CommitGrows ==
    ASSUME GitTyping, NEW t \in Requests \cup {None}, GitCommit(t), requests' = requests
    PROVE  GitTyping' /\ Grows
  <1>1. [tree |-> index, req |-> t] \in Entries
    BY DEF GitTyping, Entries
  <1>2. /\ log' \in Seq(Entries) /\ Len(log') = Len(log) + 1 /\ Len(log) \in Nat
        /\ \A c \in 1..Len(log) : log'[c] = log[c]
    BY <1>1 DEF GitCommit, GitTyping
  <1> QED
    BY <1>2 DEF GitCommit, GitTyping, Grows

-----------------------------------------------------------------------------
(* What the steps of a process do to it.                                   *)

(* p moves, and nobody else; if it records, it has verified.               *)
Moves(p) ==
    /\ ProcTyping'
    /\ \A o \in Procs \ {p} : pc'[o] = pc[o] /\ req'[o] = req[o] /\ commit'[o] = commit[o]
    /\ pc'[p] # "off" => req'[p] \in Requests
    /\ pc'[p] \in Recording =>
          req'[p] = req[p] /\ commit'[p] = commit[p] /\ ExactCommit(req[p], commit[p])

LEMMA ReturnMoves ==
    ASSUME Verified, NEW p \in Procs, Return(p)
    PROVE  Moves(p)
  BY DEF Verified, ProcTyping, Return, Goto, Moves, Recording, PC

LEMMA GotoMoves ==
    ASSUME Verified, NEW p \in Procs, NEW x \in PC, Goto(p, x), pc[p] # "off",
           UNCHANGED <<req, commit>>,
           x \in Recording => pc[p] \in Recording \/ ExactCommit(req[p], commit[p])
    PROVE  Moves(p)
  BY DEF Verified, ProcTyping, RecordedIsVerified, Goto, Moves

LEMMA BeginMoves ==
    ASSUME Verified, NEW p \in Procs, NEW r \in Requests, NEW x \in PC \ Recording, Goto(p, x),
           req' = [req EXCEPT ![p] = r], commit' = commit
    PROVE  Moves(p)
  BY DEF Verified, ProcTyping, Goto, Moves

LEMMA CommitMoves ==
    ASSUME Verified, NEW p \in Procs, Goto(p, "verify"), pc[p] # "off",
           req' = req, commit' = [commit EXCEPT ![p] = HEAD]
    PROVE  Moves(p)
  <1>1. HEAD \in Nat
    BY DEF HEAD, Verified, GitTyping
  <1> QED
    BY <1>1 DEF Verified, ProcTyping, RecordedIsVerified, Goto, Moves, Recording, PC

-----------------------------------------------------------------------------
(* The parts of the invariant that a step leaves alone.                    *)

LEMMA FilesKept ==
    ASSUME Verified, GitTyping', Grows, UNCHANGED <<metadata, receipt, reported>>
    PROVE  FilesAreVerified'
  BY ExactIsStable DEF Verified, FileTyping, FilesAreVerified

LEMMA RequestsKept ==
    ASSUME Verified, GitTyping', Grows, requests' = requests
    PROVE  RequestsAreBound'
  BY BoundIsStable DEF Verified, RequestsAreBound

LEMMA MovesKeep ==
    ASSUME Verified, GitTyping', Grows, NEW p \in Procs, Moves(p)
    PROVE  RecordedIsVerified'
  <1> SUFFICES ASSUME NEW o \in Procs
               PROVE  /\ pc'[o] # "off" => req'[o] \in Requests
                      /\ pc'[o] \in Recording => ExactCommit(req[o], commit[o])'
    BY DEF RecordedIsVerified
  <1>1. pc'[o] # "off" => req'[o] \in Requests
    BY DEF Verified, RecordedIsVerified, Moves
  <1>2. ASSUME pc'[o] \in Recording PROVE ExactCommit(req[o], commit[o])'
    <2>1. /\ req'[o] = req[o] /\ commit'[o] = commit[o] /\ ExactCommit(req[o], commit[o])
          /\ commit[o] \in Nat /\ req[o] \in Requests
      BY <1>1, <1>2 DEF Verified, RecordedIsVerified, Moves, ProcTyping, Recording
    <2>2. PICK r \in Requests : r = req[o]
      BY <2>1
    <2>3. PICK c \in Nat : c = commit[o]
      BY <2>1
    <2>4. ExactCommit(r, c)'
      BY <2>1, <2>2, <2>3, ExactIsStable DEF Verified
    <2> QED
      BY <2>1, <2>2, <2>3, <2>4
  <1> QED
    BY <1>1, <1>2

LEMMA StillKeep ==
    ASSUME Verified, GitTyping', Grows, UNCHANGED <<pc, req, commit>>
    PROVE  ProcTyping' /\ RecordedIsVerified'
  <1>1. ProcTyping'
    BY DEF Verified, ProcTyping
  <1>2. ASSUME NEW o \in Procs, pc[o] \in Recording PROVE ExactCommit(req[o], commit[o])'
    <2>1. PICK r \in Requests : r = req[o]
      BY <1>2 DEF Verified, RecordedIsVerified, Recording
    <2>2. PICK c \in Nat : c = commit[o]
      BY DEF Verified, ProcTyping
    <2>3. ExactCommit(r, c)'
      BY <1>2, <2>1, <2>2, ExactIsStable DEF Verified, RecordedIsVerified
    <2> QED
      BY <2>1, <2>2, <2>3
  <1> QED
    BY <1>1, <1>2 DEF Verified, RecordedIsVerified

(* A step of a process that records nothing.                               *)
LEMMA MoveStep ==
    ASSUME Verified, GitTyping', Grows, NEW p \in Procs, Moves(p),
           UNCHANGED <<fileVars, reported>>
    PROVE  Verified'
  <1>1. FileTyping' /\ ProcTyping'
    BY DEF Verified, FileTyping, fileVars, Moves
  <1> QED
    BY <1>1, FilesKept, RequestsKept, MovesKeep DEF Verified, fileVars

-----------------------------------------------------------------------------
(* The world.                                                              *)

LEMMA WorldStep ==
    ASSUME Verified, World
    PROVE  Verified'
  <1> USE DEF gitVars, fileVars, procVars
  <1>1. ASSUME GitTyping', Grows, UNCHANGED <<fileVars, pc, req, commit, reported>>
        PROVE  Verified'
    <2>1. FileTyping'
      BY <1>1 DEF Verified, FileTyping
    <2> QED
      BY <1>1, <2>1, FilesKept, RequestsKept, StillKeep DEF Verified
  <1>2. ASSUME NEW f \in Paths, NEW v \in Contents, Edit(f, v) PROVE Verified'
    <2>1. GitTyping' /\ Grows
      BY <1>2, NoCommitGrows DEF Verified, GitTyping, Edit, Trees
    <2> QED
      BY <1>1, <1>2, <2>1 DEF Edit
  <1>3. ASSUME NEW r \in Requests, Approve(r) PROVE Verified'
    <2>1. PICK q : /\ \E ps \in SUBSET Paths :
                        q = [parent |-> HEAD, paths |-> ps,
                             post |-> [f \in Paths |-> IF f \in ps THEN work[f] ELSE HEADTree[f]]]
                   /\ requests' = [requests EXCEPT ![r] = q]
      BY <1>3 DEF Approve
    <2>2. /\ UNCHANGED <<log, index, work, metadata, receipt, reported, pc, req, commit>>
          /\ requests[r] = None
      BY <1>3 DEF Approve
    <2>3. GitTyping' /\ FileTyping'
      BY <2>1, <2>2 DEF Verified, GitTyping, FileTyping
    <2>4. Grows
      BY <2>1, <2>2 DEF Verified, GitTyping, FileTyping, Grows
    <2>5. Bound(q)'
      <3>1. HEAD \in 1..HEAD /\ HEADTree \in Trees
        BY HeadTyped DEF Verified
      <3>2. q.post \in Trees
        BY <2>1, <3>1 DEF Verified, GitTyping, Trees
      <3>3. Bound(q)
        BY <2>1, <3>1, <3>2 DEF Bound, HEADTree
      <3> QED
        BY <3>3, <2>3, <2>4, BoundIsStable DEF Verified
    <2>6. RequestsAreBound'
      <3>1. ASSUME NEW s \in Requests, s # r, requests[s] # None PROVE Bound(requests[s])'
        <4>1. PICK b : b = requests[s]
          OBVIOUS
        <4>2. Bound(b)'
          BY <3>1, <4>1, <2>3, <2>4, BoundIsStable DEF Verified, RequestsAreBound
        <4>3. requests'[s] = b
          BY <2>1, <3>1, <4>1 DEF Verified, FileTyping
        <4> QED
          BY <4>2, <4>3
      <3>2. requests'[r] = q /\ \A s \in Requests \ {r} : requests'[s] = requests[s]
        BY <2>1 DEF Verified, FileTyping
      <3> QED
        BY <2>5, <3>1, <3>2 DEF RequestsAreBound
    <2> QED
      BY <2>2, <2>3, <2>4, <2>6, FilesKept, StillKeep DEF Verified
  <1>4. ASSUME NEW r \in Requests, ApprovePublication(r) PROVE Verified'
    BY <1>1, <1>4, NoCommitGrows DEF ApprovePublication, Verified, GitTyping
  <1>5. CASE SessionAdd
    BY <1>1, <1>5, NoCommitGrows DEF SessionAdd, Verified, GitTyping
  <1>6. CASE SessionCommit
    <2>1. GitTyping' /\ Grows
      <3>1. CASE GitCommit(None)
        BY <1>6, <3>1, CommitGrows DEF SessionCommit, Verified
      <3>2. CASE UNCHANGED gitVars
        BY <1>6, <3>2, NoCommitGrows DEF SessionCommit, Verified, GitTyping
      <3> QED
        BY <1>6, <3>1, <3>2 DEF SessionCommit
    <2> QED
      BY <1>1, <1>6, <2>1 DEF SessionCommit
  <1>7. CASE ForeignPush
    BY <1>1, <1>7, NoCommitGrows DEF ForeignPush, Verified, GitTyping
  <1> QED
    BY <1>2, <1>3, <1>4, <1>5, <1>6, <1>7 DEF World

-----------------------------------------------------------------------------
(* Calls of the runtime.                                                   *)

(* A step of p that leaves git and the files alone.                        *)
LEMMA LocalStep ==
    ASSUME Verified, NEW p \in Procs, Moves(p), UNCHANGED <<gitVars, fileVars, reported>>
    PROVE  Verified'
  BY NoCommitGrows, MoveStep DEF Verified, GitTyping, gitVars, fileVars

LEMMA CheckingStep ==
    ASSUME Verified, NEW p \in Procs,
           \/ ReadHead(p) \/ Preflight(p) \/ VerifyStaged(p) \/ RevParse(p) \/ Verify(p)
           \/ CheckMetadata(p) \/ CheckReceipt(p)
    PROVE  Verified'
  <1>1. Moves(p)
    <2>1. CASE ReadHead(p)
      <3>1. CASE Goto(p, "preflight") /\ UNCHANGED commit
        BY <2>1, <3>1, GotoMoves DEF ReadHead, Recording, PC
      <3>2. CASE Goto(p, "verify") /\ commit' = [commit EXCEPT ![p] = HEAD]
        BY <2>1, <3>2, CommitMoves DEF ReadHead
      <3> QED
        BY <2>1, <3>1, <3>2 DEF ReadHead
    <2>2. CASE Preflight(p)
      BY <2>2, GotoMoves, ReturnMoves DEF Preflight, Recording, PC
    <2>3. CASE VerifyStaged(p)
      BY <2>3, GotoMoves DEF VerifyStaged, Recording, PC
    <2>4. CASE RevParse(p)
      BY <2>4, CommitMoves DEF RevParse
    <2>5. CASE Verify(p)
      <3>1. CASE ExactCommit(req[p], commit[p]) /\ Goto(p, "metadata") /\ UNCHANGED <<req, commit>>
        BY <2>5, <3>1, GotoMoves DEF Verify, PC
      <3>2. CASE Return(p)
        BY <3>2, ReturnMoves
      <3> QED
        BY <2>5, <3>1, <3>2 DEF Verify
    <2>6. CASE CheckMetadata(p)
      BY <2>6, GotoMoves, ReturnMoves DEF CheckMetadata, Recording, PC
    <2>7. CASE CheckReceipt(p)
      BY <2>7, GotoMoves, ReturnMoves DEF CheckReceipt, Recording, PC
    <2> QED
      BY <2>1, <2>2, <2>3, <2>4, <2>5, <2>6, <2>7
  <1>2. UNCHANGED <<gitVars, fileVars, reported>>
    BY DEF ReadHead, Preflight, VerifyStaged, RevParse, Verify, CheckMetadata, CheckReceipt
  <1> QED
    BY <1>1, <1>2, LocalStep

LEMMA IndexStep ==
    ASSUME Verified, NEW p \in Procs, Add(p) \/ Unstage(p)
    PROVE  Verified'
  <1>1. HEADTree \in Trees
    BY HeadTyped DEF Verified
  <1>2. GitTyping' /\ Grows
    <2>1. index' \in Trees
      BY <1>1 DEF Verified, GitTyping, Add, Unstage, Trees
    <2> QED
      BY <2>1, NoCommitGrows DEF Verified, GitTyping, Add, Unstage, fileVars
  <1>3. Moves(p)
    BY GotoMoves, ReturnMoves DEF Add, Unstage, Recording, PC
  <1>4. UNCHANGED <<fileVars, reported>>
    BY DEF Add, Unstage
  <1> QED
    BY <1>2, <1>3, <1>4, MoveStep

LEMMA CommitStep ==
    ASSUME Verified, NEW p \in Procs, Commit(p)
    PROVE  Verified'
  <1>1. UNCHANGED <<fileVars, reported>> /\ req[p] \in Requests /\ pc[p] = "commit"
    BY DEF Commit, Verified, RecordedIsVerified
  <1>2. Moves(p)
    BY <1>1, GotoMoves DEF Commit, Recording, PC
  <1>3. CASE GitCommit(req[p])
    BY <1>1, <1>2, <1>3, CommitGrows, MoveStep DEF Verified, fileVars
  <1>4. CASE UNCHANGED gitVars
    BY <1>1, <1>2, <1>4, LocalStep
  <1> QED
    BY <1>3, <1>4 DEF Commit

LEMMA CallStep ==
    ASSUME Verified, NEW p \in Procs, NEW r \in Requests, Begin(p, r) \/ PubBegin(p, r)
    PROVE  Verified'
  <1>1. Moves(p)
    BY BeginMoves DEF Begin, PubBegin, Recording, PC
  <1> QED
    BY <1>1, LocalStep DEF Begin, PubBegin

LEMMA PublishingStep ==
    ASSUME Verified, NEW p \in Procs, PublishStep(p)
    PROVE  Verified'
  <1> USE GotoMoves, ReturnMoves, LocalStep DEF Recording, PC
  <1>1. CASE PubLoad(p)
    BY <1>1 DEF PubLoad
  <1>2. CASE Observe(p)
    BY <1>2 DEF Observe
  <1>3. CASE Push(p)
    BY <1>3 DEF Push
  <1>4. CASE ObserveAgain(p)
    BY <1>4 DEF ObserveAgain
  <1>5. CASE CheckPubMetadata(p)
    BY <1>5 DEF CheckPubMetadata
  <1>6. CASE RenamePubMetadata(p)
    BY <1>6 DEF RenamePubMetadata
  <1>7. CASE CheckPubReceipt(p)
    BY <1>7 DEF CheckPubReceipt
  <1>8. CASE RenamePubReceipt(p)
    BY <1>8 DEF RenamePubReceipt
  <1> QED
    BY <1>1, <1>2, <1>3, <1>4, <1>5, <1>6, <1>7, <1>8 DEF PublishStep

LEMMA FaultStep ==
    ASSUME Verified, NEW p \in Procs, Die(p) \/ GitFails(p)
    PROVE  Verified'
  <1>1. Moves(p)
    BY GotoMoves, ReturnMoves DEF Die, GitFails, Recording, PC
  <1> QED
    BY <1>1, LocalStep DEF Die, GitFails

-----------------------------------------------------------------------------
(* Recording.                                                              *)

(* The commit a process records, if one is recorded already, is that one.  *)
LEMMA RecordsTheSame ==
    ASSUME Verified, NEW p \in Procs, pc[p] \in Recording
    PROVE  /\ req[p] \in Requests /\ commit[p] \in Nat \ {0} /\ ExactCommit(req[p], commit[p])
           /\ receipt[req[p]] \in {0, commit[p]} /\ metadata[req[p]] \in {0, commit[p]}
  <1>1. req[p] \in Requests /\ commit[p] \in Nat /\ ExactCommit(req[p], commit[p])
    BY DEF Verified, RecordedIsVerified, ProcTyping, Recording
  <1> QED
    BY <1>1, ExactIsUnique, ExactIsPositive DEF Verified, FilesAreVerified, FileTyping

LEMMA RecordStep ==
    ASSUME Verified, NEW p \in Procs, RenameMetadata(p) \/ RenameReceipt(p)
    PROVE  Verified'
  <1> USE DEF gitVars, fileVars
  <1>1. /\ req[p] \in Requests /\ commit[p] \in Nat \ {0} /\ ExactCommit(req[p], commit[p])
        /\ receipt[req[p]] \in {0, commit[p]} /\ metadata[req[p]] \in {0, commit[p]}
    BY RecordsTheSame DEF RenameMetadata, RenameReceipt, Recording
  <1>2. GitTyping' /\ Grows /\ requests' = requests
    BY NoCommitGrows DEF RenameMetadata, RenameReceipt, Verified, GitTyping
  <1>3. Moves(p)
    BY GotoMoves, ReturnMoves DEF RenameMetadata, RenameReceipt, Recording, PC
  <1>4. RequestsAreBound' /\ RecordedIsVerified' /\ ProcTyping'
    BY <1>2, <1>3, RequestsKept, MovesKeep DEF Moves
  <1>5. \A r \in Requests, c \in Nat : ExactCommit(r, c) => ExactCommit(r, c)'
    BY <1>2, ExactIsStable DEF Verified
  <1>6. CASE RenameMetadata(p)
    <2>1. metadata' = [metadata EXCEPT ![req[p]] = commit[p]] /\ UNCHANGED <<receipt, reported>>
      BY <1>6 DEF RenameMetadata
    <2>2. FileTyping'
      BY <1>1, <1>2, <2>1 DEF Verified, FileTyping
    <2>3. ASSUME NEW r \in Requests
          PROVE  /\ receipt'[r] # 0 => ExactCommit(r, receipt'[r])
                 /\ metadata'[r] # 0 => ExactCommit(r, metadata'[r])
                 /\ \A c \in reported'[r] : c # 0 /\ c = receipt'[r]
      BY <1>1, <2>1 DEF Verified, FileTyping, FilesAreVerified
    <2>4. FilesAreVerified'
      BY <1>5, <2>2, <2>3 DEF FilesAreVerified, FileTyping
    <2> QED
      BY <1>2, <1>4, <2>2, <2>4 DEF Verified
  <1>7. CASE RenameReceipt(p)
    <2>1. /\ receipt' = [receipt EXCEPT ![req[p]] = commit[p]] /\ UNCHANGED metadata
          /\ reported' = [reported EXCEPT ![req[p]] = @ \cup {commit[p]}]
      BY <1>7 DEF RenameReceipt, Report
    <2>2. FileTyping'
      BY <1>1, <1>2, <2>1 DEF Verified, FileTyping
    <2>3. ASSUME NEW r \in Requests
          PROVE  /\ receipt'[r] # 0 => ExactCommit(r, receipt'[r])
                 /\ metadata'[r] # 0 => ExactCommit(r, metadata'[r])
                 /\ \A c \in reported'[r] : c # 0 /\ c = receipt'[r]
      BY <1>1, <2>1 DEF Verified, FileTyping, FilesAreVerified
    <2>4. FilesAreVerified'
      BY <1>5, <2>2, <2>3 DEF FilesAreVerified, FileTyping
    <2> QED
      BY <1>2, <1>4, <2>2, <2>4 DEF Verified
  <1> QED
    BY <1>6, <1>7

LEMMA RepeatStep ==
    ASSUME Verified, NEW p \in Procs, NEW r \in Requests, Repeat(p, r)
    PROVE  Verified'
  <1> USE DEF gitVars, fileVars, procVars
  <1>1. /\ reported' = [reported EXCEPT ![r] = @ \cup {receipt[r]}] /\ receipt[r] # 0
        /\ UNCHANGED <<log, index, work, requests, metadata, receipt, pc, req, commit>>
    BY DEF Repeat, Report
  <1>2. GitTyping' /\ Grows /\ FileTyping'
    BY <1>1, NoCommitGrows DEF Verified, GitTyping, FileTyping
  <1>3. RequestsAreBound' /\ RecordedIsVerified' /\ ProcTyping'
    BY <1>1, <1>2, RequestsKept, StillKeep
  <1>4. \A s \in Requests, c \in Nat : ExactCommit(s, c) => ExactCommit(s, c)'
    BY <1>2, ExactIsStable DEF Verified
  <1>5. FilesAreVerified'
    BY <1>1, <1>4 DEF Verified, FileTyping, FilesAreVerified
  <1> QED
    BY <1>2, <1>3, <1>5 DEF Verified

-----------------------------------------------------------------------------
LEMMA InitVerified == Init => Verified
  <1> SUFFICES ASSUME Init PROVE Verified
    OBVIOUS
  <1>1. GitTyping
    <2>1. PICK t \in Trees : log = <<[tree |-> t, req |-> None]>> /\ index = t /\ work = t
      BY DEF Init
    <2> QED
      BY <2>1 DEF GitTyping, Entries
  <1>2. FileTyping /\ ProcTyping
    BY DEF Init, FileTyping, ProcTyping, PC
  <1> QED
    BY <1>1, <1>2
    DEF Init, Verified, RequestsAreBound, RecordedIsVerified, FilesAreVerified, Recording

LEMMA NextVerified == Verified /\ [Next]_vars => Verified'
  <1> SUFFICES ASSUME Verified, [Next]_vars PROVE Verified'
    OBVIOUS
  <1>1. CASE World
    BY <1>1, WorldStep
  <1>2. ASSUME NEW p \in Committers,
               (\E r \in Requests : Begin(p, r) \/ Repeat(p, r)) \/ CheckpointStep(p)
        PROVE  Verified'
    <2>1. p \in Procs
      BY DEF Procs
    <2> QED
      BY <1>2, <2>1, CallStep, RepeatStep, CheckingStep, IndexStep, CommitStep, RecordStep
      DEF CheckpointStep
  <1>3. ASSUME NEW p \in Publishers, (\E r \in Requests : PubBegin(p, r)) \/ PublishStep(p)
        PROVE  Verified'
    BY <1>3, CallStep, PublishingStep DEF Procs
  <1>4. ASSUME NEW p \in Procs, Die(p) \/ GitFails(p) PROVE Verified'
    BY <1>4, FaultStep
  <1>5. CASE UNCHANGED vars
    <2>1. /\ UNCHANGED <<log, index, work, requests, metadata, receipt, reported, pc, req, commit>>
      BY <1>5 DEF vars, gitVars, fileVars, procVars
    <2>2. GitTyping' /\ Grows /\ FileTyping'
      BY <2>1, NoCommitGrows DEF Verified, GitTyping, FileTyping
    <2> QED
      BY <2>1, <2>2, FilesKept, RequestsKept, StillKeep DEF Verified
  <1> QED
    BY <1>1, <1>2, <1>3, <1>4, <1>5 DEF Next

(* Metadata and receipts are written by renames of verified commits, and   *)
(* reports follow the receipt.                                             *)
LEMMA NextKeepsReceipts ==
    ASSUME Verified, Verified', [Next]_vars, NEW r \in Requests
    PROVE  /\ receipt[r] # 0 => receipt'[r] = receipt[r]
           /\ metadata[r] # 0 => metadata'[r] = metadata[r]
           /\ reported'[r] \subseteq {receipt'[r]}
  <1>1. reported'[r] \subseteq {receipt'[r]}
    BY DEF Verified, FilesAreVerified
  <1>2. ASSUME NEW p \in Procs, RenameMetadata(p) \/ RenameReceipt(p)
        PROVE  /\ receipt[r] # 0 => receipt'[r] = receipt[r]
               /\ metadata[r] # 0 => metadata'[r] = metadata[r]
    <2>1. /\ req[p] \in Requests
          /\ receipt[req[p]] \in {0, commit[p]} /\ metadata[req[p]] \in {0, commit[p]}
      BY <1>2, RecordsTheSame DEF RenameMetadata, RenameReceipt, Recording
    <2> QED
      BY <1>2, <2>1 DEF RenameMetadata, RenameReceipt, Verified, FileTyping
  <1>3. CASE UNCHANGED <<metadata, receipt>>
    BY <1>1, <1>3
  <1>4. \/ UNCHANGED <<metadata, receipt>>
        \/ \E p \in Procs : RenameMetadata(p) \/ RenameReceipt(p)
    <2>1. CASE World
      BY <2>1 DEF World, Edit, Approve, ApprovePublication, SessionAdd, SessionCommit,
                  ForeignPush, fileVars
    <2>2. ASSUME NEW p \in Committers,
                 (\E q \in Requests : Begin(p, q) \/ Repeat(p, q)) \/ CheckpointStep(p)
          PROVE  \/ UNCHANGED <<metadata, receipt>>
                 \/ RenameMetadata(p) \/ RenameReceipt(p)
      BY <2>2 DEF Begin, Repeat, CheckpointStep, ReadHead, Preflight, Add, VerifyStaged, Commit,
                  Unstage, RevParse, Verify, CheckMetadata, CheckReceipt, fileVars
    <2>3. ASSUME NEW p \in Publishers, (\E q \in Requests : PubBegin(p, q)) \/ PublishStep(p)
          PROVE  UNCHANGED <<metadata, receipt>>
      BY <2>3 DEF PubBegin, PublishStep, PubLoad, Observe, Push, ObserveAgain, CheckPubMetadata,
                  RenamePubMetadata, CheckPubReceipt, RenamePubReceipt, fileVars
    <2>4. ASSUME NEW p \in Procs, Die(p) \/ GitFails(p) PROVE UNCHANGED <<metadata, receipt>>
      BY <2>4 DEF Die, GitFails, fileVars
    <2>5. CASE UNCHANGED vars
      BY <2>5 DEF vars, fileVars
    <2> QED
      BY <2>1, <2>2, <2>3, <2>4, <2>5 DEF Next, Procs
  <1> QED
    BY <1>1, <1>2, <1>3, <1>4

(* A receipt and the metadata name the approved tree on the approved       *)
(* parent with the request's trailers, whatever else ran.                  *)
THEOREM ReceiptsExact == Spec => []ReceiptIsExact
  <1>1. Verified => ReceiptIsExact
    BY ExactIsApproved DEF Verified, FilesAreVerified, FileTyping, ReceiptIsExact
  <1> QED
    BY <1>1, InitVerified, NextVerified, PTL DEF Spec

(* No committer changes what a receipt or the metadata once said, and all  *)
(* callers are told the commit of the receipt.                             *)
THEOREM ReceiptsFinal == Spec => ReceiptsAreFinal
  <1>1. Verified /\ Verified' /\ [Next]_vars =>
           [\A r \in Requests :
               /\ receipt[r] # 0 => receipt'[r] = receipt[r]
               /\ metadata[r] # 0 => metadata'[r] = metadata[r]
               /\ reported'[r] \subseteq {receipt'[r]}]_vars
    BY NextKeepsReceipts
  <1> QED
    BY <1>1, InitVerified, NextVerified, PTL DEF Spec, ReceiptsAreFinal

-----------------------------------------------------------------------------
(* Publications.                                                           *)

(* A process that may come to push.                                        *)
Pushing == {"load", "observe", "push"}

(* A publication request names the receipted commit, only processes that   *)
(* serve one come to push, and nothing else was pushed.                    *)
Bounded ==
    /\ pubRequest \in [Requests -> Nat]
    /\ \A r \in Requests : pubRequest[r] # 0 => receipt[r] = pubRequest[r]
    /\ \A p \in Procs : pc[p] \in Pushing => pubRequest[req[p]] # 0
    /\ \A c \in pushed : \E r \in Requests : pubRequest[r] = c /\ c # 0

(* What most steps do: nobody new comes to push.                           *)
Harmless ==
    /\ UNCHANGED <<pubRequest, pushed>>
    /\ \A p \in Procs : pc'[p] \in Pushing => pc[p] \in Pushing /\ req'[p] = req[p]

LEMMA HarmlessStep ==
    ASSUME Verified, Verified', Bounded, [Next]_vars, Harmless
    PROVE  Bounded'
  BY NextKeepsReceipts DEF Bounded, Harmless

LEMMA CheckpointIsHarmless ==
    ASSUME Verified, NEW p \in Procs,
           (\E r \in Requests : Begin(p, r) \/ Repeat(p, r)) \/ CheckpointStep(p)
           \/ Die(p) \/ GitFails(p)
    PROVE  Harmless
  <1> USE DEF Verified, ProcTyping
  <1>1. UNCHANGED <<pubRequest, pushed>>
    BY DEF Begin, Repeat, CheckpointStep, ReadHead, Preflight, Add, VerifyStaged, Commit,
           Unstage, RevParse, Verify, CheckMetadata, RenameMetadata, CheckReceipt,
           RenameReceipt, Die, GitFails, pubVars
  <1>2. /\ \A o \in Procs \ {p} : pc'[o] = pc[o] /\ req'[o] = req[o]
        /\ pc'[p] \in Pushing => pc'[p] = pc[p] /\ req'[p] = req[p]
    <2>1. CASE \E r \in Requests : Begin(p, r) \/ Repeat(p, r)
      BY <2>1 DEF Begin, Repeat, Goto, Pushing, procVars
    <2>2. CASE Die(p) \/ GitFails(p)
      BY <2>2 DEF Die, GitFails, Return, Goto, Pushing
    <2>3. CASE CheckpointStep(p)
      BY <2>3 DEF CheckpointStep, ReadHead, Preflight, Add, VerifyStaged, Commit, Unstage,
                  RevParse, Verify, CheckMetadata, RenameMetadata, CheckReceipt, RenameReceipt,
                  Return, Goto, Pushing
    <2> QED
      BY <2>1, <2>2, <2>3
  <1> QED
    BY <1>1, <1>2 DEF Harmless

LEMMA PublisherStep ==
    ASSUME Verified, Verified', Bounded, [Next]_vars, NEW p \in Procs,
           (\E r \in Requests : PubBegin(p, r)) \/ PublishStep(p)
    PROVE  Bounded'
  <1> USE DEF Verified, ProcTyping
  <1>1. CASE \E r \in Requests : PubBegin(p, r)
    BY <1>1, NextKeepsReceipts DEF PubBegin, Goto, Bounded, Pushing, pubVars
  <1>2. CASE Push(p)
    <2>1. /\ UNCHANGED <<pubRequest, receipt>> /\ pushed' \subseteq pushed \cup {pubRequest[req[p]]}
          /\ req[p] \in Requests /\ pubRequest[req[p]] # 0
      BY <1>2 DEF Push, Source, Bounded, Pushing, RecordedIsVerified, fileVars
    <2>2. \A o \in Procs : pc'[o] \in Pushing => pc[o] \in Pushing /\ req'[o] = req[o]
      BY <1>2 DEF Push, Return, Goto, Pushing
    <2> QED
      BY <2>1, <2>2 DEF Bounded
  <1>3. CASE \/ PubLoad(p) \/ Observe(p) \/ ObserveAgain(p) \/ CheckPubMetadata(p)
             \/ RenamePubMetadata(p) \/ CheckPubReceipt(p) \/ RenamePubReceipt(p)
    <2>1. UNCHANGED <<pubRequest, pushed>>
      BY <1>3 DEF PubLoad, Observe, ObserveAgain, CheckPubMetadata, RenamePubMetadata,
                  CheckPubReceipt, RenamePubReceipt, pubVars
    <2>2. \A o \in Procs : pc'[o] \in Pushing => pc[o] \in Pushing /\ req'[o] = req[o]
      BY <1>3 DEF PubLoad, Observe, ObserveAgain, CheckPubMetadata, RenamePubMetadata,
                  CheckPubReceipt, RenamePubReceipt, Return, Goto, Pushing
    <2> QED
      BY <2>1, <2>2, HarmlessStep DEF Harmless
  <1> QED
    BY <1>1, <1>2, <1>3 DEF PublishStep

LEMMA NextBounded == Verified /\ Verified' /\ Bounded /\ [Next]_vars => Bounded'
  <1> SUFFICES ASSUME Verified, Verified', Bounded, [Next]_vars PROVE Bounded'
    OBVIOUS
  <1>1. CASE World
    <2>1. ASSUME NEW r \in Requests, ApprovePublication(r) PROVE Bounded'
      BY <2>1 DEF ApprovePublication, Bounded, Verified, FileTyping, RecordedIsVerified, Pushing,
                  fileVars, procVars
    <2>2. CASE UNCHANGED <<pubRequest, pushed, procVars>>
      BY <2>2, HarmlessStep DEF Harmless, procVars
    <2> QED
      BY <1>1, <2>1, <2>2 DEF World, Edit, Approve, SessionAdd, SessionCommit, ForeignPush, pubVars
  <1>2. ASSUME NEW p \in Procs,
               (\E r \in Requests : Begin(p, r) \/ Repeat(p, r)) \/ CheckpointStep(p)
               \/ Die(p) \/ GitFails(p)
        PROVE  Bounded'
    BY <1>2, CheckpointIsHarmless, HarmlessStep
  <1>3. ASSUME NEW p \in Procs, (\E r \in Requests : PubBegin(p, r)) \/ PublishStep(p)
        PROVE  Bounded'
    BY <1>3, PublisherStep
  <1>4. CASE UNCHANGED vars
    BY <1>4, HarmlessStep DEF Harmless, vars, procVars, pubVars
  <1> QED
    BY <1>1, <1>2, <1>3, <1>4 DEF Next, Procs

(* Only commits that a checkpoint receipt names, and that are what was     *)
(* approved, are pushed (publishSessionControlled).                        *)
THEOREM PushesApproved == Spec => []PushedIsApproved
  <1>1. Init => Bounded
    BY DEF Init, Bounded, Pushing
  <1>2. Verified /\ Bounded => PushedIsApproved
    <2> SUFFICES ASSUME Verified, Bounded, NEW c \in pushed
                 PROVE  \E r \in Requests : pubRequest[r] = c /\ receipt[r] = c /\ Approved(r, c)
      BY DEF PushedIsApproved
    <2>1. PICK r \in Requests : pubRequest[r] = c /\ c # 0
      BY DEF Bounded
    <2>2. receipt[r] = c /\ c \in Nat /\ ExactCommit(r, c)
      BY <2>1 DEF Bounded, Verified, FilesAreVerified, FileTyping
    <2> QED
      BY <2>1, <2>2, ExactIsApproved
  <1> QED
    BY <1>1, <1>2, InitVerified, NextVerified, NextBounded, PTL DEF Spec
-----------------------------------------------------------------------------
(* One committer.  A commit for a request comes after the request's parent *)
(* in the log, where HEAD never returns to, and a committer that is about  *)
(* to commit has seen HEAD there: the request has no commit yet, wherever  *)
(* other commits have moved HEAD since.                                    *)

Preparing == {"preflight", "add", "staged", "commit"}

Once ==
    /\ \A c \in 1..HEAD : log[c].req # None =>
          requests[log[c].req] # None /\ requests[log[c].req].parent < c
    /\ \A c, d \in 1..HEAD : log[c].req # None /\ log[c].req = log[d].req => c = d
    /\ \A p \in Committers :
          /\ pc[p] # "off" => requests[req[p]] # None
          /\ pc[p] \in Preparing => \A c \in 1..HEAD : log[c].req # req[p]

(* Nothing is committed, no request is rewritten, and no committer begins. *)
Uneventful ==
    /\ log' = log /\ \A r \in Requests : requests[r] # None => requests'[r] = requests[r]
    /\ \A p \in Committers :
          /\ pc'[p] # "off" => pc[p] # "off" /\ req'[p] = req[p]
          /\ pc'[p] \in Preparing => pc[p] \in Preparing

LEMMA LogTyped ==
    ASSUME Verified
    PROVE  /\ Len(log) \in Nat /\ Len(log) >= 1
           /\ \A c \in 1..Len(log) : log[c].req \in Requests \cup {None}
  <1>1. log \in Seq(Entries) /\ Len(log) \in Nat /\ Len(log) >= 1
    BY DEF Verified, GitTyping
  <1>2. \A c \in 1..Len(log) : log[c] \in Entries
    BY <1>1
  <1> QED
    BY <1>1, <1>2 DEF Entries

LEMMA UneventfulOnce ==
    ASSUME Verified, Once, Uneventful
    PROVE  Once'
  <1>1. \A c \in 1..HEAD : log[c].req \in Requests \cup {None}
    BY LogTyped DEF HEAD
  <1>2. \A p \in Committers : pc[p] # "off" => req[p] \in Requests
    BY DEF Verified, RecordedIsVerified, Procs
  <1>3. HEAD' = HEAD
    BY DEF Uneventful, HEAD
  <1>4. \A p \in Committers : pc'[p] \in Preparing => pc'[p] # "off"
    BY DEF Preparing
  <1> QED
    BY <1>1, <1>2, <1>3, <1>4 DEF Once, Uneventful

(* A commit at the end of the log, for no request or for one without any.  *)
LEMMA CommittedOnce ==
    ASSUME Verified, Once, NEW t \in Requests \cup {None}, GitCommit(t), requests' = requests,
           t # None => /\ requests[t] # None
                       /\ \A c \in 1..HEAD : log[c].req # t,
           \A p \in Committers :
               /\ pc'[p] # "off" => pc[p] # "off" /\ req'[p] = req[p]
               /\ pc'[p] \in Preparing => pc[p] \in Preparing /\ (t # None => req[p] # t)
    PROVE  Once'
  <1>1. /\ Len(log) \in Nat /\ Len(log') = Len(log) + 1
        /\ log'[Len(log) + 1].req = t
        /\ \A c \in 1..Len(log) : log'[c] = log[c]
    BY DEF GitCommit, Verified, GitTyping
  <1>2. \A c \in 1..HEAD' : c = HEAD + 1 \/ c \in 1..HEAD
    BY <1>1 DEF HEAD
  <1>3. ASSUME t # None PROVE requests[t].parent < HEAD + 1
    <2>1. requests[t].parent \in 1..HEAD
      BY <1>3 DEF Verified, RequestsAreBound, Bound
    <2> QED
      BY <1>1, <2>1 DEF HEAD
  <1>4. ASSUME NEW c \in 1..HEAD', log'[c].req # None
        PROVE  requests'[log'[c].req] # None /\ requests'[log'[c].req].parent < c
    BY <1>1, <1>2, <1>3, <1>4 DEF Once, HEAD
  <1>5. ASSUME NEW c \in 1..HEAD', NEW d \in 1..HEAD', log'[c].req # None,
               log'[c].req = log'[d].req
        PROVE  c = d
    BY <1>1, <1>2, <1>5 DEF Once, HEAD
  <1>6. ASSUME NEW p \in Committers
        PROVE  /\ pc'[p] # "off" => requests'[req'[p]] # None
               /\ pc'[p] \in Preparing => \A c \in 1..HEAD' : log'[c].req # req'[p]
    <2>1. pc'[p] \in Preparing => pc'[p] # "off"
      BY DEF Preparing
    <2>2. pc[p] # "off" => req[p] \in Requests
      BY DEF Verified, RecordedIsVerified, Procs
    <2>3. pc'[p] # "off" => requests'[req'[p]] # None
      BY DEF Once
    <2>4. ASSUME pc'[p] \in Preparing, NEW c \in 1..HEAD' PROVE log'[c].req # req'[p]
      <3>1. req'[p] = req[p] /\ req[p] \in Requests /\ req[p] # t /\ pc[p] \in Preparing
        BY <2>1, <2>2, <2>4, GitAssumption
      <3> QED
        BY <1>1, <1>2, <2>4, <3>1 DEF Once, HEAD
    <2> QED
      BY <2>3, <2>4
  <1> QED
    BY <1>4, <1>5, <1>6 DEF Once

LEMMA WorldOnce ==
    ASSUME Verified, Once, World
    PROVE  Once'
  <1> USE DEF gitVars, fileVars, procVars
  <1>1. CASE SessionCommit
    <2>1. CASE GitCommit(None)
      BY <1>1, <2>1, CommittedOnce DEF SessionCommit
    <2>2. CASE UNCHANGED log
      BY <1>1, <2>2, UneventfulOnce DEF SessionCommit, Uneventful
    <2> QED
      BY <1>1, <2>1, <2>2 DEF SessionCommit
  <1>2. ASSUME NEW r \in Requests, Approve(r) PROVE Once'
    BY <1>2, UneventfulOnce DEF Approve, Uneventful, Verified, FileTyping
  <1>3. CASE \/ \E f \in Paths, v \in Contents : Edit(f, v)
             \/ (\E r \in Requests : ApprovePublication(r)) \/ SessionAdd \/ ForeignPush
    BY <1>3, UneventfulOnce DEF Edit, ApprovePublication, SessionAdd, ForeignPush, Uneventful
  <1> QED
    BY <1>1, <1>2, <1>3 DEF World

LEMMA CommitterOnce ==
    ASSUME \A o, q \in Committers : o = q,
           Verified, Once, NEW p \in Committers,
           (\E r \in Requests : Begin(p, r) \/ Repeat(p, r)) \/ CheckpointStep(p)
    PROVE  Once'
  <1> USE DEF Goto, Return, gitVars, fileVars, procVars
  <1>0. /\ p \in Procs
        /\ pc[p] # "off" => req[p] \in Requests /\ requests[req[p]] # None
        /\ pc \in [Procs -> PC] /\ req \in [Procs -> Requests \cup {None}]
    BY DEF Procs, Verified, ProcTyping, RecordedIsVerified, Once
  <1>1. ASSUME NEW r \in Requests, Begin(p, r) PROVE Once'
    <2>1. /\ UNCHANGED <<log, requests>> /\ requests[r] # None /\ pc'[p] = "head" /\ req'[p] = r
      BY <1>0, <1>1 DEF Begin
    <2>2. \A q \in Committers : q = p
      OBVIOUS
    <2> QED
      BY <2>1, <2>2 DEF Once, HEAD, Preparing
  <1>2. ASSUME NEW r \in Requests, Repeat(p, r) PROVE Once'
    BY <1>2, UneventfulOnce DEF Repeat, Uneventful
  <1>3. CASE ReadHead(p)
    <2>1. UNCHANGED <<log, requests, req>> /\ pc'[p] \in {"preflight", "verify"} /\ pc[p] # "off"
      BY <1>0, <1>3 DEF ReadHead
    <2>2. ASSUME pc'[p] = "preflight", NEW c \in 1..HEAD PROVE log[c].req # req[p]
      <3>1. HEAD = requests[req[p]].parent
        BY <1>0, <1>3, <2>2 DEF ReadHead
      <3>2. HEAD \in Nat /\ ~(HEAD < c)
        BY LogTyped DEF HEAD
      <3> QED
        BY <1>0, <2>1, <3>1, <3>2, GitAssumption DEF Once
    <2>3. \A q \in Committers : q = p
      OBVIOUS
    <2> QED
      BY <1>0, <2>1, <2>2, <2>3 DEF Once, HEAD, Preparing
  <1>4. CASE Commit(p)
    <2>1. pc[p] = "commit" /\ pc'[p] \in {"made", "unstage"} /\ UNCHANGED <<requests, req>>
      BY <1>0, <1>4 DEF Commit
    <2>2. \A q \in Committers : q = p
      OBVIOUS
    <2>3. CASE GitCommit(req[p])
      <3>1. \A c \in 1..HEAD : log[c].req # req[p]
        BY <2>1 DEF Once, Preparing
      <3>2. \A q \in Committers : pc'[q] \notin Preparing /\ pc[q] # "off" /\ req'[q] = req[q]
        BY <2>1, <2>2 DEF Preparing
      <3> QED
        BY <1>0, <2>1, <2>3, <3>1, <3>2, CommittedOnce
    <2>4. CASE UNCHANGED log
      BY <2>1, <2>2, <2>4, UneventfulOnce DEF Uneventful, Preparing
    <2> QED
      BY <1>4, <2>3, <2>4 DEF Commit
  <1>5. CASE \/ Preflight(p) \/ Add(p) \/ VerifyStaged(p) \/ Unstage(p) \/ RevParse(p) \/ Verify(p)
             \/ CheckMetadata(p) \/ RenameMetadata(p) \/ CheckReceipt(p) \/ RenameReceipt(p)
    <2>1. /\ UNCHANGED <<log, requests>>
          /\ pc'[p] # "off" => pc[p] # "off" /\ req'[p] = req[p]
          /\ pc'[p] \in Preparing => pc[p] \in Preparing
      BY <1>0, <1>5 DEF Preflight, Add, VerifyStaged, Unstage, RevParse, Verify, CheckMetadata,
         RenameMetadata, CheckReceipt, RenameReceipt, Preparing
    <2> QED
      BY <2>1, UneventfulOnce DEF Uneventful
  <1> QED
    BY <1>1, <1>2, <1>3, <1>4, <1>5 DEF CheckpointStep

LEMMA OtherOnce ==
    ASSUME Verified, Once, NEW p \in Procs,
           \/ p \in Publishers /\ ((\E r \in Requests : PubBegin(p, r)) \/ PublishStep(p))
           \/ Die(p) \/ GitFails(p)
    PROVE  Once'
  <1> USE DEF Goto, Return, gitVars, fileVars, procVars
  <1>0. pc \in [Procs -> PC] /\ req \in [Procs -> Requests \cup {None}] /\ Committers \subseteq Procs
    BY DEF Procs, Verified, ProcTyping
  <1>1. CASE Die(p) \/ GitFails(p)
    BY <1>0, <1>1, UneventfulOnce DEF Die, GitFails, Uneventful, Preparing
  <1>2. CASE p \in Publishers /\ ((\E r \in Requests : PubBegin(p, r)) \/ PublishStep(p))
    <2>1. UNCHANGED <<log, requests>>
      BY <1>2 DEF PubBegin, PublishStep, PubLoad, Observe, Push, ObserveAgain, CheckPubMetadata,
         RenamePubMetadata, CheckPubReceipt, RenamePubReceipt
    <2>2. \A q \in Procs \ {p} : pc'[q] = pc[q] /\ req'[q] = req[q]
      <3>1. CASE \E r \in Requests : PubBegin(p, r)
        BY <1>0, <3>1 DEF PubBegin
      <3>2. CASE PubLoad(p) \/ Observe(p)
        BY <1>0, <3>2 DEF PubLoad, Observe
      <3>3. CASE Push(p)
        BY <1>0, <3>3 DEF Push
      <3>4. CASE ObserveAgain(p) \/ CheckPubMetadata(p)
        BY <1>0, <3>4 DEF ObserveAgain, CheckPubMetadata
      <3>5. CASE RenamePubMetadata(p) \/ CheckPubReceipt(p) \/ RenamePubReceipt(p)
        BY <1>0, <3>5 DEF RenamePubMetadata, CheckPubReceipt, RenamePubReceipt
      <3> QED
        BY <1>2, <3>1, <3>2, <3>3, <3>4, <3>5 DEF PublishStep
    <2>3. \A q \in Committers : q \in Procs \ {p}
      BY <1>2, GitAssumption DEF Procs
    <2> QED
      BY <2>1, <2>2, <2>3, UneventfulOnce DEF Uneventful
  <1> QED
    BY <1>1, <1>2

(* However often it is interrupted and called again, a single committer    *)
(* leaves one commit for a request (checkpointSessionControlled).          *)
THEOREM OneCommitOnly ==
    (\A p, q \in Committers : p = q) => (Spec => []OneCommitPerRequest)
  <1> SUFFICES ASSUME \A p, q \in Committers : p = q PROVE Spec => []OneCommitPerRequest
    OBVIOUS
  <1>1. Init => Once
    <2> SUFFICES ASSUME Init PROVE Once
      OBVIOUS
    <2>1. PICK t \in Trees : log = <<[tree |-> t, req |-> None]>>
      BY DEF Init
    <2> QED
      BY <2>1 DEF Init, Once, HEAD, Procs, Preparing
  <1>2. Verified /\ Once /\ [Next]_vars => Once'
    <2>1. Verified /\ Once /\ UNCHANGED vars => Once'
      BY UneventfulOnce DEF Uneventful, vars, gitVars, fileVars, procVars
    <2> QED
      BY <2>1, WorldOnce, CommitterOnce, OtherOnce DEF Next, Procs
  <1>3. Verified /\ Once => OneCommitPerRequest
    <2> SUFFICES ASSUME Verified, Once, NEW r \in Requests
                 PROVE  Cardinality({c \in 1..HEAD : log[c].req = r}) <= 1
      BY DEF OneCommitPerRequest
    <2> DEFINE S == {c \in 1..HEAD : log[c].req = r}
    <2>1. \A c, d \in S : c = d
      BY GitAssumption DEF Once
    <2>2. ASSUME S = {} PROVE Cardinality(S) <= 1
      <3>1. Cardinality({}) = 0
        BY FS_EmptySet
      <3> HIDE DEF S
      <3> QED
        BY <2>2, <3>1
    <2>3. ASSUME NEW c \in S PROVE Cardinality(S) <= 1
      <3>1. S = {c}
        BY <2>1
      <3> HIDE DEF S
      <3>2. Cardinality({c}) = 1
        BY FS_Singleton
      <3> QED
        BY <3>1, <3>2
    <2> QED
      BY <2>2, <2>3
  <1> QED
    BY <1>1, <1>2, <1>3, InitVerified, NextVerified, PTL DEF Spec

-----------------------------------------------------------------------------
(* One publisher.  The remote holds a commit of a request only by a push   *)
(* of it; who drafts a receipt has seen it there, metadata comes before    *)
(* the receipt, and the receipt repeats it.                                *)

Settled ==
    /\ DOMAIN draft = Procs /\ DOMAIN pubMetadata = Requests /\ DOMAIN pubReceipt = Requests
    /\ remote \in {0, 1, Foreign} \cup pushed
    /\ \A r \in Requests : pubMetadata[r] # None => pubRequest[r] \in pushed
    /\ PublicationsAgree
    /\ \A p \in Publishers :
          /\ pc[p] = "off" => draft[p] = None
          /\ pc[p] = "pushed" \/ draft[p] # None => pubRequest[req[p]] \in pushed
          /\ pc[p] = "renamePubMetadata" => pubReceipt[req[p]] = None
          /\ pc[p] \in {"pubReceipt", "renamePubReceipt"} => pubMetadata[req[p]] = draft[p]

(* The publications are left alone, but for publishers that return.        *)
Quiet ==
    /\ UNCHANGED pubVars /\ DOMAIN draft' = DOMAIN draft
    /\ \A p \in Publishers :
          \/ pc'[p] = pc[p] /\ req'[p] = req[p] /\ draft'[p] = draft[p]
          \/ pc'[p] = "off" /\ draft'[p] = None

LEMMA QuietSettled == Settled /\ Quiet => Settled'
  BY DEF Settled, Quiet, pubVars, PublicationsAgree

LEMMA CommitterSettled ==
    ASSUME Verified, Settled, NEW p \in Procs,
           \/ /\ p \in Committers
              /\ (\E r \in Requests : Begin(p, r) \/ Repeat(p, r)) \/ CheckpointStep(p)
           \/ Die(p) \/ GitFails(p)
    PROVE  Settled'
  <1> USE DEF Goto, Return, procVars, pubVars
  <1>0. /\ pc \in [Procs -> PC] /\ req \in [Procs -> Requests \cup {None}] /\ DOMAIN draft = Procs
        /\ Publishers \subseteq Procs
    BY DEF Procs, Verified, ProcTyping, Settled
  <1>1. CASE Die(p)
    BY <1>0, <1>1, QuietSettled DEF Die, Quiet
  <1>2. CASE GitFails(p)
    <2>1. /\ UNCHANGED <<pubVars, req, draft>> /\ pc' = [pc EXCEPT ![p] = "unstage"]
          /\ pc[p] \in {"add", "commit"}
      BY <1>2 DEF GitFails
    <2>2. \A q \in Procs \ {p} : pc'[q] = pc[q]
      BY <1>0, <2>1
    <2> QED
      BY <1>0, <2>1, <2>2 DEF Settled, PublicationsAgree
  <1>3. CASE /\ p \in Committers
             /\ (\E r \in Requests : Begin(p, r) \/ Repeat(p, r)) \/ CheckpointStep(p)
    <2>1. \A q \in Publishers : q \in Procs \ {p}
      BY <1>0, <1>3, GitAssumption
    <2>2. CASE \E r \in Requests : Begin(p, r) \/ Repeat(p, r)
      BY <1>0, <2>1, <2>2, QuietSettled DEF Begin, Repeat, Quiet
    <2>3. CASE ReadHead(p) \/ Preflight(p) \/ Add(p) \/ VerifyStaged(p)
      BY <1>0, <2>1, <2>3, QuietSettled DEF ReadHead, Preflight, Add, VerifyStaged, Quiet
    <2>4. CASE Commit(p) \/ Unstage(p) \/ RevParse(p) \/ Verify(p)
      BY <1>0, <2>1, <2>4, QuietSettled DEF Commit, Unstage, RevParse, Verify, Quiet
    <2>5. CASE CheckMetadata(p) \/ RenameMetadata(p) \/ CheckReceipt(p) \/ RenameReceipt(p)
      BY <1>0, <2>1, <2>5, QuietSettled
      DEF CheckMetadata, RenameMetadata, CheckReceipt, RenameReceipt, Quiet
    <2> QED
      BY <1>3, <2>2, <2>3, <2>4, <2>5 DEF CheckpointStep
  <1> QED
    BY <1>1, <1>2, <1>3

LEMMA WorldSettled ==
    ASSUME Verified, Bounded, Settled, World
    PROVE  Settled'
  <1> USE DEF procVars, pubVars
  <1>1. ASSUME NEW r \in Requests, ApprovePublication(r) PROVE Settled'
    <2>1. /\ pubRequest' = [pubRequest EXCEPT ![r] = receipt[r]] /\ pubRequest[r] = 0
          /\ UNCHANGED <<pc, req, draft, remote, pubMetadata, pubReceipt, pushed>>
      BY <1>1 DEF ApprovePublication
    <2>2. \A q \in Requests : pubRequest[q] \in pushed => pubRequest'[q] = pubRequest[q]
      BY <2>1 DEF Bounded
    <2>3. \A p \in Publishers : pc[p] = "pushed" \/ draft[p] # None => pubRequest'[req[p]] \in pushed
      BY <2>1 DEF Settled, Bounded
    <2> QED
      BY <2>1, <2>2, <2>3 DEF Settled, PublicationsAgree
  <1>2. CASE ForeignPush
    BY <1>2 DEF ForeignPush, Settled, PublicationsAgree
  <1>3. CASE \/ \E f \in Paths, v \in Contents : Edit(f, v)
             \/ (\E r \in Requests : Approve(r)) \/ SessionAdd \/ SessionCommit
    BY <1>3, QuietSettled DEF Edit, Approve, SessionAdd, SessionCommit, Quiet
  <1> QED
    BY <1>1, <1>2, <1>3 DEF World

LEMMA PublisherSettled ==
    ASSUME \A o, q \in Publishers : o = q,
           Verified, Bounded, Settled, NEW p \in Publishers,
           (\E r \in Requests : PubBegin(p, r)) \/ PublishStep(p)
    PROVE  Settled'
  <1> USE DEF Goto, Return, procVars, pubVars
  <1>0. /\ pc \in [Procs -> PC] /\ req \in [Procs -> Requests \cup {None}] /\ DOMAIN draft = Procs
        /\ p \in Procs /\ DOMAIN pubMetadata = Requests /\ DOMAIN pubReceipt = Requests
    BY DEF Procs, Verified, ProcTyping, Settled
  <1>1. \A q \in Publishers : q = p
    OBVIOUS
  <1>2. pc[p] # "off" => req[p] \in Requests
    BY <1>0 DEF Verified, RecordedIsVerified
  <1>3. \A r \in Requests : remote = pubRequest[r] /\ pubRequest[r] # 0 => pubRequest[r] \in pushed
    <2> SUFFICES ASSUME NEW r \in Requests, remote = pubRequest[r], pubRequest[r] # 0
                 PROVE  pubRequest[r] \in pushed
      OBVIOUS
    <2>1. pubRequest[r] \in Nat /\ ExactCommit(r, pubRequest[r])
      BY DEF Bounded, Verified, FilesAreVerified
    <2>2. pubRequest[r] \notin {0, 1, Foreign}
      BY <2>1, GitAssumption DEF ExactCommit
    <2> QED
      BY <2>2 DEF Settled
  <1>4. CASE \E r \in Requests : PubBegin(p, r)
    <2>1. /\ pc[p] = "off" /\ pc'[p] = "load" /\ UNCHANGED <<draft, pubVars>>
          /\ \E r \in Requests : req'[p] = r /\ receipt[r] = pubRequest[r] /\ pubRequest[r] # 0
      BY <1>0, <1>4 DEF PubBegin
    <2>2. draft[p] = None
      BY <2>1 DEF Settled
    <2> QED
      BY <1>1, <2>1, <2>2 DEF Settled, PublicationsAgree
  <1>5. CASE PubLoad(p)
    <2>1. pc[p] = "load" /\ req[p] \in Requests /\ UNCHANGED <<remote, pubRequest, pubReceipt, pushed>>
      BY <1>2, <1>5 DEF PubLoad
    <2>2. CASE pubReceipt[req[p]] # None
      <3>1. pubMetadata' = [pubMetadata EXCEPT ![req[p]] = IF @ = None THEN pubReceipt[req[p]] ELSE @]
        BY <1>5, <2>2 DEF PubLoad
      <3>2. pubMetadata[req[p]] = pubReceipt[req[p]]
        BY <2>1, <2>2 DEF Settled, PublicationsAgree
      <3>3. DOMAIN pubMetadata' = Requests /\ \A r \in Requests : pubMetadata'[r] = pubMetadata[r]
        BY <1>0, <2>2, <3>1, <3>2
      <3>4. pc'[p] = "off" /\ draft'[p] = None /\ DOMAIN draft' = Procs
        BY <1>0, <1>5, <2>2 DEF PubLoad
      <3> QED
        BY <1>1, <2>1, <3>3, <3>4 DEF Settled, PublicationsAgree
    <2>3. CASE pubReceipt[req[p]] = None
      <3>1. /\ pc'[p] = "observe" /\ draft'[p] = pubMetadata[req[p]] /\ DOMAIN draft' = Procs
            /\ req' = req /\ pubMetadata' = pubMetadata
        BY <1>0, <1>5, <2>3 DEF PubLoad
      <3> QED
        BY <1>1, <2>1, <3>1 DEF Settled, PublicationsAgree
    <2> QED
      BY <2>2, <2>3
  <1>6. CASE Observe(p)
    <2>1. /\ pc[p] = "observe" /\ req[p] \in Requests /\ UNCHANGED <<pubVars, req>>
          /\ pubRequest[req[p]] # 0 /\ DOMAIN draft' = Procs
      BY <1>0, <1>2, <1>6 DEF Observe, Drafted, Bounded, Pushing
    <2>2. \/ pc'[p] = "push" /\ draft'[p] = draft[p]
          \/ remote = pubRequest[req[p]] /\ pc'[p] = "pubMetadata"
      BY <1>0, <1>6 DEF Observe
    <2>3. draft'[p] # None => pubRequest[req[p]] \in pushed
      BY <1>3, <2>1, <2>2 DEF Settled
    <2> QED
      BY <1>1, <2>1, <2>2, <2>3 DEF Settled, PublicationsAgree
  <1>7. CASE Push(p)
    <2>1. /\ pc[p] = "push" /\ req[p] \in Requests /\ UNCHANGED <<pubRequest, pubMetadata, pubReceipt>>
          /\ DOMAIN draft' = Procs
      BY <1>0, <1>2, <1>7 DEF Push
    <2>2. CASE UNCHANGED <<remote, pushed>> /\ pc'[p] = "off" /\ draft'[p] = None
      BY <1>1, <2>1, <2>2 DEF Settled, PublicationsAgree
    <2>3. CASE /\ remote' = pubRequest[req[p]] /\ pushed' = pushed \cup {pubRequest[req[p]]}
               /\ \/ pc'[p] = "pushed" /\ UNCHANGED <<req, draft>>
                  \/ pc'[p] = "off" /\ draft'[p] = None
      BY <1>1, <2>1, <2>3 DEF Settled, PublicationsAgree
    <2> QED
      BY <1>0, <1>7, <2>2, <2>3 DEF Push, Source
  <1>8. CASE ObserveAgain(p)
    <2>1. /\ pc[p] = "pushed" /\ req[p] \in Requests /\ UNCHANGED pubVars /\ DOMAIN draft' = Procs
          /\ \/ pc'[p] = "pubMetadata" /\ req' = req
             \/ pc'[p] = "off" /\ draft'[p] = None
      BY <1>0, <1>2, <1>8 DEF ObserveAgain, Drafted
    <2> QED
      BY <1>1, <2>1 DEF Settled, PublicationsAgree
  <1>9. CASE CheckPubMetadata(p)
    <2>1. /\ pc[p] = "pubMetadata" /\ req[p] \in Requests /\ UNCHANGED pubVars
          /\ DOMAIN draft' = Procs
          /\ \/ /\ pc'[p] = "renamePubMetadata" /\ UNCHANGED <<req, draft>>
                /\ pubMetadata[req[p]] = None
             \/ /\ pc'[p] = "pubReceipt" /\ UNCHANGED <<req, draft>>
                /\ pubMetadata[req[p]] = draft[p]
             \/ pc'[p] = "off" /\ draft'[p] = None
      BY <1>0, <1>2, <1>9 DEF CheckPubMetadata
    <2> QED
      BY <1>1, <2>1 DEF Settled, PublicationsAgree
  <1>10. CASE RenamePubMetadata(p)
    <2>1. /\ pc[p] = "renamePubMetadata" /\ req[p] \in Requests
          /\ UNCHANGED <<req, draft, remote, pubRequest, pubReceipt, pushed>>
          /\ pc'[p] = "pubReceipt" /\ pubMetadata' = [pubMetadata EXCEPT ![req[p]] = draft[p]]
      BY <1>0, <1>2, <1>10 DEF RenamePubMetadata
    <2> QED
      BY <1>1, <2>1 DEF Settled, PublicationsAgree
  <1>11. CASE CheckPubReceipt(p)
    <2>1. /\ pc[p] = "pubReceipt" /\ req[p] \in Requests /\ UNCHANGED pubVars
          /\ DOMAIN draft' = Procs
          /\ \/ pc'[p] = "renamePubReceipt" /\ UNCHANGED <<req, draft>>
             \/ pc'[p] = "off" /\ draft'[p] = None
      BY <1>0, <1>2, <1>11 DEF CheckPubReceipt
    <2> QED
      BY <1>1, <2>1 DEF Settled, PublicationsAgree
  <1>12. CASE RenamePubReceipt(p)
    <2>1. /\ pc[p] = "renamePubReceipt" /\ req[p] \in Requests
          /\ UNCHANGED <<remote, pubRequest, pubMetadata, pushed>> /\ DOMAIN draft' = Procs
          /\ pc'[p] = "off" /\ draft'[p] = None
          /\ pubReceipt' = [pubReceipt EXCEPT ![req[p]] = draft[p]]
      BY <1>0, <1>2, <1>12 DEF RenamePubReceipt
    <2> QED
      BY <1>1, <2>1 DEF Settled, PublicationsAgree
  <1> QED
    BY <1>4, <1>5, <1>6, <1>7, <1>8, <1>9, <1>10, <1>11, <1>12 DEF PublishStep

(* With one publisher at a time, metadata and receipt never disagree,      *)
(* whatever push, observation or call was lost, so that a later call can   *)
(* complete them, and both stand for a push (publishSessionControlled).    *)
THEOREM PublicationsSettled ==
    (\A p, q \in Publishers : p = q) => (Spec => []PublicationsAgree)
  <1> SUFFICES ASSUME \A p, q \in Publishers : p = q PROVE Spec => []PublicationsAgree
    OBVIOUS
  <1>1. Init => Bounded /\ Settled
    BY DEF Init, Bounded, Pushing, Settled, PublicationsAgree, Procs
  <1>2. Verified /\ Bounded /\ Settled /\ [Next]_vars => Settled'
    <2>1. Settled /\ UNCHANGED vars => Settled'
      BY QuietSettled DEF Quiet, vars, procVars, pubVars
    <2> QED
      BY <2>1, WorldSettled, CommitterSettled, PublisherSettled DEF Next, Procs
  <1>3. Settled => PublicationsAgree
    BY DEF Settled
  <1> QED
    BY <1>1, <1>2, <1>3, InitVerified, NextVerified, NextBounded, PTL DEF Spec

=============================================================================
