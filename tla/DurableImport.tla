--------------------------- MODULE DurableImport ---------------------------
(***************************************************************************)
(* The import of legacy state into durable state: one cohort of a package  *)
(* (PrepareDurableCohortImport, infrastructure/durable_import.go) or the   *)
(* whole public state of one (prepareWholePublicPackageState,              *)
(* public_package_state.go).  Both take an inventory of the legacy files,  *)
(* copy them into a temporary directory, prove the copy and rename it to   *)
(* the destination, under a file lock; both recover the temporary that an  *)
(* interrupted process left.                                               *)
(*                                                                         *)
(* Legacy files are written by others meanwhile.  Every change leaves a    *)
(* new version, and no file is removed.  Version 0 stands for no file.  An *)
(* entry that is a link or not a regular file is refused wherever it is    *)
(* met, and so is durable state that is not private.                       *)
(***************************************************************************)
EXTENDS Integers, FiniteSets

CONSTANTS
    Paths,      \* the mapped files
    Procs,      \* processes that prepare the state
    Temps,      \* directories the processes can make
    Whole,      \* whole public state, or one cohort
    MaxEdits,   \* bound on changes of legacy and of durable files
    MaxStops,   \* bound on interrupted processes
    MaxLosses,  \* bound on power losses
    Torn,       \* a file whose bytes are incomplete
    None

ASSUME ImportAssumption ==
    /\ Whole \in BOOLEAN
    /\ MaxEdits \in Nat \ {0} /\ MaxStops \in Nat /\ MaxLosses \in Nat
    /\ Torn \notin Nat \cup [Paths -> Nat] /\ None \notin Nat \cup [Paths -> Nat]
    /\ Torn # None /\ None \notin Procs \cup Temps

VARIABLES
    legacy,     \* the version of each legacy file
    linked,     \* legacy files that are links, or not regular
    unsafe,     \* directories with an entry that is not private and regular
    content,    \* what each directory holds
    listed,     \* whether a directory is a temporary or the destination
    synced,     \* of content, what has reached the disk
    listedSync, \* of listed, what has reached the disk
    lock,       \* the holder of the lock file
    pc,         \* where a preparation stands
    inv,        \* its inventory of the legacy files
    done,       \* the files its current pass has dealt with
    work,       \* its temporary directory
    edits, stops, losses,
    since,      \* history: the legacy files when the preparation began
    seen,       \* history: the states the legacy files have been in
    told        \* history: a preparation has returned the destination

outside == <<legacy, linked, unsafe>>
dirVars == <<content, listed, synced, listedSync>>
procVars == <<lock, pc, inv, done, work>>
bounds == <<edits, stops, losses>>
vars == <<outside, dirVars, procVars, bounds, since, seen, told>>

-----------------------------------------------------------------------------
(* A directory: two manifests, each with the inventory it records, and the *)
(* copied files.                                                           *)

Versions == [Paths -> Nat]
Manifest == Versions \cup {None, Torn}
Dir == [pending : Manifest, ready : Manifest, files : [Paths -> Nat \cup {Torn}]]
NoFiles == [f \in Paths |-> 0]
EmptyDir == [pending |-> None, ready |-> None, files |-> NoFiles]

PC == {"off", "scan", "adopting", "rejected", "promote", "remove", "removed", "make",
       "made", "pending", "copy", "rescan", "readying", "ready", "clean", "synced", "renamed"}

Listing == {"absent", "temp", "dest"}

DirTypeOK ==
    /\ content \in [Temps -> Dir] /\ synced \in [Temps -> Dir]
    /\ listed \in [Temps -> Listing] /\ listedSync \in [Temps -> Listing]

ProcTypeOK ==
    /\ lock \in Procs \cup {None}
    /\ pc \in [Procs -> PC]
    /\ inv \in [Procs -> Versions]
    /\ done \in [Procs -> SUBSET Paths]
    /\ work \in [Procs -> Temps \cup {None}]

BoundsTypeOK == edits \in 0..MaxEdits /\ stops \in 0..MaxStops /\ losses \in 0..MaxLosses

HistoryTypeOK ==
    /\ since \in [Procs -> Versions]
    /\ seen \in SUBSET Versions
    /\ told \in BOOLEAN

TypeOK ==
    /\ legacy \in Versions /\ linked \in SUBSET Paths /\ unsafe \in SUBSET Temps
    /\ DirTypeOK /\ ProcTypeOK /\ BoundsTypeOK /\ HistoryTypeOK

(* No state, or, for the public state of a package, a directory that was   *)
(* made for something else (ensureDurablePackageLocation).                 *)
Init ==
    /\ legacy \in [Paths -> {0, 1}]
    /\ linked = {} /\ unsafe = {}
    /\ content = [t \in Temps |-> EmptyDir] /\ synced = content
    /\ \/ listed = [t \in Temps |-> "absent"]
       \/ Whole /\ \E t \in Temps :
             listed = [u \in Temps |-> IF u = t THEN "dest" ELSE "absent"]
    /\ listedSync = listed
    /\ lock = None
    /\ pc = [p \in Procs |-> "off"]
    /\ inv = [p \in Procs |-> NoFiles]
    /\ done = [p \in Procs |-> {}]
    /\ work = [p \in Procs |-> None]
    /\ edits = 1 /\ stops = 0 /\ losses = 0
    /\ since = [p \in Procs |-> NoFiles]
    /\ seen = {legacy}
    /\ told = FALSE

Temporaries == {t \in Temps : listed[t] = "temp"}
Destinations == {t \in Temps : listed[t] = "dest"}

-----------------------------------------------------------------------------
(* Steps of a preparation.                                                 *)

Goto(p, next) == pc' = [pc EXCEPT ![p] = next]

(* The call returns and releases the lock.                                 *)
Return(p) ==
    /\ Goto(p, "off")
    /\ lock' = None
    /\ done' = [done EXCEPT ![p] = {}]
    /\ work' = [work EXCEPT ![p] = None]
    /\ inv' = [inv EXCEPT ![p] = NoFiles]

(* The next pass over the files.                                           *)
Pass(p, next, start) ==
    /\ Goto(p, next)
    /\ done' = [done EXCEPT ![p] = start]
    /\ UNCHANGED <<lock, inv, work>>

(* Mutation of Lock: the lock is not tried.                                *)
LockUntried(p) ==
    /\ pc[p] = "off"
    /\ lock' = p
    /\ Goto(p, "scan")
    /\ inv' = [inv EXCEPT ![p] = NoFiles]
    /\ done' = [done EXCEPT ![p] = {}]
    /\ since' = [since EXCEPT ![p] = legacy]
    /\ UNCHANGED <<outside, dirVars, work, bounds, seen, told>>

Lock(p) ==
    /\ pc[p] = "off"
    /\ lock = None
    /\ lock' = p
    /\ Goto(p, "scan")
    /\ inv' = [inv EXCEPT ![p] = NoFiles]
    /\ done' = [done EXCEPT ![p] = {}]
    /\ since' = [since EXCEPT ![p] = legacy]
    /\ UNCHANGED <<outside, dirVars, work, bounds, seen, told>>

(* inspectDurableImportLegacy reads one file after the other.  A cohort is *)
(* looked up at the destination first; nothing changes there meanwhile.    *)
Scan(p, f) ==
    /\ pc[p] = "scan" /\ f \notin done[p] /\ f \notin linked
    /\ inv' = [inv EXCEPT ![p][f] = legacy[f]]
    /\ done' = [done EXCEPT ![p] = @ \cup {f}]
    /\ UNCHANGED <<outside, dirVars, lock, pc, work, bounds, since, seen, told>>

(* The inspection meets an entry that it must not follow.  That is an      *)
(* error too when there is a destination, which is compared with the       *)
(* legacy files (durableImportLegacyDiverged).                             *)
ScanFails(p) ==
    /\ pc[p] = "scan"
    /\ \E f \in Paths : f \notin done[p] /\ f \in linked
    /\ Goto(p, "rejected")
    /\ UNCHANGED <<outside, dirVars, lock, inv, done, work, bounds, since, seen, told>>

Scanned(p) == pc[p] = "scan" /\ done[p] = Paths

(* Mutation of Valid: the files of a cohort must still be the imported     *)
(* ones.                                                                   *)
ValidUnchanged(t) ==
    LET dir == content[t]
    IN  /\ t \notin unsafe
        /\ dir.ready \notin {None, Torn}
        /\ dir.files = dir.ready
        /\ ~Whole => dir.pending = None

(* validatePublishedDurableImport, validateWholePublicPackageState: the    *)
(* tree is private (collectPublishedDurableImportTree) and the manifest    *)
(* can be read.  A cohort has no pending manifest; a public state still    *)
(* has the imported files.                                                 *)
Valid(t) ==
    LET dir == content[t]
    IN  /\ t \notin unsafe
        /\ dir.ready \notin {None, Torn}
        /\ IF Whole THEN dir.files = dir.ready ELSE dir.pending = None

(* The destination exists and is returned.                                 *)
Accept(p) ==
    /\ Scanned(p)
    /\ \E t \in Destinations : Valid(t)
    /\ told' = TRUE
    /\ Return(p)
    /\ UNCHANGED <<outside, dirVars, bounds, since, seen>>

(* An empty directory without a manifest gets one if there is no legacy.   *)
Adoptable(p, t) ==
    /\ Whole /\ inv[p] = NoFiles
    /\ t \notin unsafe /\ content[t].ready = None /\ content[t].files = NoFiles

Adopt(p) ==
    \E t \in Destinations :
        /\ Scanned(p) /\ Adoptable(p, t)
        /\ content' = [content EXCEPT ![t].ready = Torn]
        /\ Goto(p, "adopting")
        /\ work' = [work EXCEPT ![p] = t]
        /\ UNCHANGED <<outside, listed, synced, listedSync, lock, inv, done, bounds, since, seen, told>>

Adopted(p) ==
    /\ pc[p] = "adopting"
    /\ content' = [content EXCEPT ![work[p]].ready = inv[p]]
    /\ told' = TRUE
    /\ Return(p)
    /\ UNCHANGED <<outside, listed, synced, listedSync, bounds, since, seen>>

Reject(p) ==
    \E t \in Destinations :
        /\ Scanned(p)
        /\ ~Valid(t) /\ ~Adoptable(p, t)
        /\ Goto(p, "rejected")
        /\ UNCHANGED <<outside, dirVars, lock, inv, done, work, bounds, since, seen, told>>

(* The call returns an error.                                              *)
Fail(p) == Return(p) /\ UNCHANGED <<outside, dirVars, bounds, since, seen, told>>

Rejected(p) == pc[p] = "rejected" /\ Fail(p)

-----------------------------------------------------------------------------
(* recoverDurableImportTemporary, recoverWholePublicPackageTemporary.      *)

Recovers(p) == Scanned(p) /\ Destinations = {}

RecoverNothing(p) ==
    /\ Recovers(p) /\ Temporaries = {}
    /\ Pass(p, "make", {})
    /\ UNCHANGED <<outside, dirVars, bounds, since, seen, told>>

(* Mutation of OfSource: an older inventory is good enough.                *)
OfAnySource(p, dir) ==
    /\ {dir.pending, dir.ready} \cap {Torn} = {}
    /\ {dir.pending, dir.ready} # {None}

(* A manifest proves the temporary, and it is of the legacy files as they  *)
(* are.                                                                    *)
OfSource(p, dir) ==
    /\ {dir.pending, dir.ready} \subseteq {None, inv[p]}
    /\ {dir.pending, dir.ready} # {None}

(* Mutation of Ready: the copies are not looked at.                        *)
ReadyUnchecked(dir) == dir.ready # None

Ready(dir) == dir.ready # None /\ dir.files = dir.ready

(* Mutation of Incomplete: only a full copy is proven.                     *)
IncompleteOnlyFull(dir) == dir.ready = None /\ dir.files = dir.pending

(* durableImportInventorySubset.                                           *)
Incomplete(dir) ==
    dir.ready = None /\ \A f \in Paths : dir.files[f] \in {0, dir.pending[f]}

RecoverTemporary(p) ==
    \E t \in Temporaries :
        /\ Recovers(p) /\ Temporaries = {t}
        /\ OfSource(p, content[t]) /\ t \notin unsafe
        /\ \/ Ready(content[t]) /\ Goto(p, "promote")
           \/ Incomplete(content[t]) /\ Goto(p, "remove")
        /\ work' = [work EXCEPT ![p] = t]
        /\ UNCHANGED <<outside, dirVars, lock, inv, done, bounds, since, seen, told>>

Recoverable(p) ==
    \E t \in Temporaries :
        /\ Temporaries = {t} /\ OfSource(p, content[t]) /\ t \notin unsafe
        /\ Ready(content[t]) \/ Incomplete(content[t])

RecoverFails(p) ==
    /\ Recovers(p) /\ Temporaries # {} /\ ~Recoverable(p)
    /\ Fail(p)

(* os.RemoveAll removes one entry after the other.                         *)
RemoveEntry(p) ==
    LET dir == content[work[p]]
    IN  /\ pc[p] = "remove"
        /\ \/ /\ dir.pending # None
              /\ content' = [content EXCEPT ![work[p]].pending = None]
           \/ \E f \in Paths :
                 /\ dir.files[f] # 0
                 /\ content' = [content EXCEPT ![work[p]].files[f] = 0]
        /\ UNCHANGED <<outside, listed, synced, listedSync, procVars, bounds, since, seen, told>>

RemoveDirectory(p) ==
    /\ pc[p] = "remove" /\ content[work[p]] = EmptyDir
    /\ listed' = [listed EXCEPT ![work[p]] = "absent"]
    /\ Goto(p, "removed")
    /\ UNCHANGED <<outside, content, synced, listedSync, lock, inv, done, work, bounds, since, seen, told>>

SyncRemoval(p) ==
    /\ pc[p] = "removed"
    /\ listedSync' = listed
    /\ Pass(p, "make", {})
    /\ UNCHANGED <<outside, content, listed, synced, bounds, since, seen, told>>

-----------------------------------------------------------------------------
(* publishDurableImport, publishWholePublicPackageState.                   *)

MkdirTemp(p) ==
    \E t \in Temps :
        /\ pc[p] = "make"
        /\ listed[t] = "absent" /\ listedSync[t] = "absent"
        /\ listed' = [listed EXCEPT ![t] = "temp"]
        /\ content' = [content EXCEPT ![t] = EmptyDir]
        /\ synced' = [synced EXCEPT ![t] = EmptyDir]
        /\ unsafe' = unsafe \ {t}
        /\ Goto(p, "made")
        /\ work' = [work EXCEPT ![p] = t]
        /\ UNCHANGED <<legacy, linked, listedSync, lock, inv, done, bounds, since, seen, told>>

CreatePending(p) ==
    /\ pc[p] = "made"
    /\ content' = [content EXCEPT ![work[p]].pending = Torn]
    /\ Goto(p, "pending")
    /\ UNCHANGED <<outside, listed, synced, listedSync, lock, inv, done, work, bounds, since, seen, told>>

WritePending(p) ==
    /\ pc[p] = "pending"
    /\ content' = [content EXCEPT ![work[p]].pending = inv[p]]
    /\ Pass(p, "copy", {f \in Paths : inv[p][f] = 0})
    /\ UNCHANGED <<outside, listed, synced, listedSync, bounds, since, seen, told>>

(* copyDurableImportEntry: the file is created, then its bytes are written *)
(* and compared with the inventory.                                        *)
CreateCopy(p, f) ==
    /\ pc[p] = "copy" /\ f \notin done[p] /\ f \notin linked
    /\ \A g \in Paths : content[work[p]].files[g] # Torn
    /\ content' = [content EXCEPT ![work[p]].files[f] = Torn]
    /\ UNCHANGED <<outside, listed, synced, listedSync, procVars, bounds, since, seen, told>>

WriteCopy(p, f) ==
    /\ pc[p] = "copy" /\ content[work[p]].files[f] = Torn /\ f \notin linked
    /\ content' = [content EXCEPT ![work[p]].files[f] = legacy[f]]
    /\ IF legacy[f] = inv[p][f]
       THEN Pass(p, "copy", done[p] \cup {f})
       ELSE Return(p)
    /\ UNCHANGED <<outside, listed, synced, listedSync, bounds, since, seen, told>>

(* A file that was replaced before or while it is copied is an error.  The *)
(* leftover is of an older state of the legacy files, whatever it holds.   *)
CopyFails(p) ==
    /\ pc[p] = "copy"
    /\ \E f \in Paths : f \notin done[p] /\ f \in linked
    /\ Fail(p)

Copied(p) ==
    /\ pc[p] = "copy" /\ done[p] = Paths
    /\ Pass(p, "rescan", {})
    /\ UNCHANGED <<outside, dirVars, bounds, since, seen, told>>

(* Mutation of Rescan: the second inventory is not compared.               *)
RescanUncompared(p, f) ==
    /\ pc[p] = "rescan" /\ f \notin done[p]
    /\ Pass(p, "rescan", done[p] \cup {f})
    /\ UNCHANGED <<outside, dirVars, bounds, since, seen, told>>

(* The second inventory must be the first.                                 *)
Rescan(p, f) ==
    /\ pc[p] = "rescan" /\ f \notin done[p]
    /\ IF f \notin linked /\ legacy[f] = inv[p][f]
       THEN Pass(p, "rescan", done[p] \cup {f})
       ELSE Return(p)
    /\ UNCHANGED <<outside, dirVars, bounds, since, seen, told>>

(* The copies are compared with the inventory too.  Nobody else writes to  *)
(* the temporary, or makes the destination, while the lock is held.        *)
CreateReady(p) ==
    /\ pc[p] = "rescan" /\ done[p] = Paths
    /\ content[work[p]].files = inv[p]
    /\ content' = [content EXCEPT ![work[p]].ready = Torn]
    /\ Goto(p, "readying")
    /\ UNCHANGED <<outside, listed, synced, listedSync, lock, inv, done, work, bounds, since, seen, told>>

WriteReady(p) ==
    /\ pc[p] = "readying"
    /\ content' = [content EXCEPT ![work[p]].ready = inv[p]]
    /\ Goto(p, "ready")
    /\ UNCHANGED <<outside, listed, synced, listedSync, lock, inv, done, work, bounds, since, seen, told>>

(* A publication removes the pending manifest and syncs the directories; a *)
(* recovery removes it if it is there.                                     *)
RemovePending(p) ==
    /\ \/ pc[p] = "ready" /\ Goto(p, "clean")
       \/ pc[p] = "promote" /\ content[work[p]].pending # None /\ UNCHANGED pc
    /\ content' = [content EXCEPT ![work[p]].pending = None]
    /\ UNCHANGED <<outside, listed, synced, listedSync, lock, inv, done, work, bounds, since, seen, told>>

SyncDirectories(p) ==
    /\ pc[p] = "clean"
    /\ synced' = [synced EXCEPT ![work[p]] = content[work[p]]]
    /\ Goto(p, "synced")
    /\ UNCHANGED <<outside, content, listed, listedSync, lock, inv, done, work, bounds, since, seen, told>>

Rename(p) ==
    /\ \/ pc[p] = "synced"
       \/ pc[p] = "promote" /\ content[work[p]].pending = None
    /\ Destinations = {}
    /\ listed' = [listed EXCEPT ![work[p]] = "dest"]
    /\ Goto(p, "renamed")
    /\ UNCHANGED <<outside, content, synced, listedSync, lock, inv, done, work, bounds, since, seen, told>>

SyncRoot(p) ==
    /\ pc[p] = "renamed"
    /\ listedSync' = listed
    /\ told' = TRUE
    /\ Return(p)
    /\ UNCHANGED <<outside, content, listed, synced, bounds, since, seen>>

-----------------------------------------------------------------------------
(* The environment.                                                        *)

ChangeLegacy(f) ==
    /\ edits < MaxEdits /\ edits' = edits + 1
    /\ legacy' = [legacy EXCEPT ![f] = edits + 1]
    /\ seen' = seen \cup {legacy'}
    /\ UNCHANGED <<unsafe, dirVars, procVars, stops, losses, since, told>>

(* A regular file is written, or a link becomes one again.                 *)
WriteLegacy(f) == ChangeLegacy(f) /\ linked' = linked \ {f}

(* A file is replaced by a link or by something that is not regular.       *)
LinkLegacy(f) == ChangeLegacy(f) /\ linked' = linked \cup {f}

(* A package that was given the directory writes a file there.             *)
WriteDurable(f) ==
    \E t \in Destinations :
        /\ told /\ edits < MaxEdits /\ edits' = edits + 1
        /\ content' = [content EXCEPT ![t].files[f] = edits + 1]
        /\ UNCHANGED <<outside, listed, synced, listedSync, procVars, stops, losses, since, seen, told>>

(* It leaves an entry there that is not private, or not regular.           *)
Loosen(t) ==
    /\ t \in Destinations
    /\ told /\ edits < MaxEdits /\ edits' = edits + 1
    /\ unsafe' = unsafe \cup {t}
    /\ UNCHANGED <<legacy, linked, dirVars, procVars, stops, losses, since, seen, told>>

(* The process is killed, or a call of the operating system fails.         *)
Stop(p) ==
    /\ pc[p] # "off"
    /\ stops < MaxStops /\ stops' = stops + 1
    /\ Return(p)
    /\ UNCHANGED <<outside, dirVars, edits, losses, since, seen, told>>

(* The kernel writes back what was not synced when it likes.               *)
WriteBack ==
    /\ losses < MaxLosses
    /\ \/ listedSync' = listed /\ UNCHANGED synced
       \/ \E t \in Temps : synced' = [synced EXCEPT ![t] = content[t]] /\ UNCHANGED listedSync
    /\ UNCHANGED <<outside, content, listed, procVars, bounds, since, seen, told>>

(* What a power loss may leave of a directory: of each entry that was not  *)
(* synced, the old or the new state.  The bytes of complete files were.    *)
Survivors(t) ==
    {dir \in [pending : {content[t].pending, synced[t].pending},
              ready : {content[t].ready, synced[t].ready},
              files : [Paths -> UNION {{content[t].files[f], synced[t].files[f]} : f \in Paths}]] :
        \A f \in Paths : dir.files[f] \in {content[t].files[f], synced[t].files[f]}}

PowerLoss ==
    /\ losses < MaxLosses /\ losses' = losses + 1
    /\ content' \in [Temps -> UNION {Survivors(t) : t \in Temps}]
    /\ \A t \in Temps : content'[t] \in Survivors(t)
    /\ listed' \in [Temps -> Listing]
    /\ \A t \in Temps : listed'[t] \in {listed[t], listedSync[t]}
    /\ synced' = content' /\ listedSync' = listed'
    /\ unsafe' \in SUBSET unsafe
    /\ lock' = None
    /\ pc' = [p \in Procs |-> "off"]
    /\ inv' = [p \in Procs |-> NoFiles]
    /\ done' = [p \in Procs |-> {}]
    /\ work' = [p \in Procs |-> None]
    /\ UNCHANGED <<legacy, linked, edits, stops, since, seen, told>>

-----------------------------------------------------------------------------
Step(p) ==
    \/ Lock(p)
    \/ \E f \in Paths : Scan(p, f) \/ CreateCopy(p, f) \/ WriteCopy(p, f) \/ Rescan(p, f)
    \/ ScanFails(p) \/ CopyFails(p)
    \/ Accept(p) \/ Adopt(p) \/ Adopted(p) \/ Reject(p) \/ Rejected(p)
    \/ RecoverNothing(p) \/ RecoverTemporary(p) \/ RecoverFails(p)
    \/ RemoveEntry(p) \/ RemoveDirectory(p) \/ SyncRemoval(p)
    \/ MkdirTemp(p) \/ CreatePending(p) \/ WritePending(p) \/ Copied(p)
    \/ CreateReady(p) \/ WriteReady(p) \/ RemovePending(p)
    \/ SyncDirectories(p) \/ Rename(p) \/ SyncRoot(p)

Next ==
    \/ \E p \in Procs : Step(p) \/ Stop(p)
    \/ \E f \in Paths : WriteLegacy(f) \/ LinkLegacy(f) \/ WriteDurable(f)
    \/ \E t \in Temps : Loosen(t)
    \/ WriteBack \/ PowerLoss

Spec == Init /\ [][Next]_vars

(* A preparation goes on while it can, and the package is used again.      *)
FairSpec == Spec /\ \A p \in Procs : WF_vars(Step(p))

-----------------------------------------------------------------------------
(* Properties.                                                             *)

Publishes(t) == listed[t] = "temp" /\ listed'[t] = "dest"

(* What is published is complete, is marked as such, and is a state that   *)
(* all legacy files were in at one moment, although they are read one by   *)
(* one while others write them, and whoever had made the temporary.        *)
Snapshot(dir) == dir.pending = None /\ dir.files = dir.ready /\ dir.ready \in seen
PublishedIsWhole == [][\A t \in Temps : Publishes(t) => Snapshot(content[t])]_vars

(* A preparation publishes nothing that was replaced before it began: a    *)
(* temporary of an interrupted process is promoted only if it is still of  *)
(* the legacy files.                                                       *)
PublishedIsCurrent ==
    [][\A t \in Temps : Publishes(t) =>
          \A f \in Paths : content[t].files[f] >= since[lock][f]]_vars

(* Interrupted processes never leave a second temporary, or one next to    *)
(* the destination: "multiple durable cohort temporaries require manual    *)
(* review" is not an outcome of crashes of processes.                      *)
OneDirectory == \A t, u \in Temps : "absent" \in {listed[t], listed[u]} \/ t = u

(* "If both exist, durable state wins": a cohort that was published is     *)
(* refused only if an entry of it is no longer private and regular, or the *)
(* legacy files cannot be inspected.  Their bytes, and those of its own    *)
(* files, may have changed in any way, and interruptions leave nothing     *)
(* that makes it invalid.                                                  *)
Refuses(p) == pc[p] # "rejected" /\ pc'[p] = "rejected"
DurableWins ==
    [][\A p \in Procs :
          losses = 0 /\ Refuses(p) => linked # {} \/ Destinations \cap unsafe # {}]_vars

(* A temporary that an interruption left without proof, or whose source    *)
(* has changed since, and legacy files that cannot be inspected: cases for *)
(* manual review.                                                          *)
Blocked ==
    \/ linked # {}
    \/ \E t \in Temporaries :
          LET dir == content[t]
          IN  \/ t \in unsafe
              \/ {dir.pending, dir.ready} = {None}
              \/ ~({dir.pending, dir.ready} \subseteq {None, legacy})
              \/ \E f \in Paths : dir.files[f] \notin {0, legacy[f]}

(* Repeated preparations reach an authority or a case for manual review;   *)
(* every other leftover is removed or resumed.                             *)
ImportsSettle == <>[](Destinations # {} \/ Blocked)

-----------------------------------------------------------------------------
(* The inductive invariant behind PublishedIsWhole and PublishedIsCurrent. *)

(* The lock is held by the one preparation that is under way.              *)
Exclusive == \A p \in Procs : pc[p] # "off" <=> lock = p

(* A preparation that builds, promotes or removes a temporary has one that *)
(* nothing else writes to.                                                 *)
Building == {"promote", "remove", "made", "pending", "copy", "rescan", "readying", "ready", "clean", "synced"}
Owned(p) == pc[p] \in Building => work[p] \in Temps /\ listed[work[p]] = "temp"

(* What the disk has as the destination is the destination, and versions   *)
(* are numbered in the order of the writes.                                *)
Kept ==
    /\ \A t \in Temps : listedSync[t] = "dest" => listed[t] = "dest"
    /\ \A f \in Paths : legacy[f] <= edits

(* What an inventory records was there after the preparation began and has *)
(* not become older since.                                                 *)
Inventoried(p) ==
    IF pc[p] = "scan" THEN done[p] ELSE IF pc[p] \in {"off", "rejected"} THEN {} ELSE Paths
Ordered(p) ==
    /\ pc[p] # "off" => since[p] \in seen /\ \A f \in Paths : since[p][f] <= legacy[f]
    /\ \A f \in Inventoried(p) : since[p][f] <= inv[p][f] /\ inv[p][f] <= legacy[f]

(* Between the first and the second look at the legacy files there was a   *)
(* state m that bounds the inventory from above; a file that has not       *)
(* changed since it was first read is in m as it is in the inventory.      *)
Bracketed(p) ==
    /\ pc[p] \in {"make", "made", "pending", "copy", "rescan", "remove", "removed"} =>
          \E m \in seen : \A f \in Paths :
              /\ inv[p][f] <= m[f] /\ m[f] <= legacy[f]
              /\ pc[p] = "rescan" /\ f \in done[p] => m[f] = inv[p][f]
    /\ pc[p] \in {"adopting", "readying", "ready", "clean", "synced", "promote"} => inv[p] \in seen

(* An authoritative manifest records a state of the legacy files.          *)
ReadyWasSeen ==
    \A t \in Temps :
        /\ content[t].ready \in {None, Torn} \cup seen
        /\ synced[t].ready \in {None, Torn} \cup seen

(* A temporary that is about to become the destination has been compared   *)
(* with the inventory.                                                     *)
Proven(p) ==
    /\ pc[p] \in {"readying", "ready", "clean", "synced", "promote"} =>
          content[work[p]].files = inv[p]
    /\ pc[p] \in {"ready", "clean", "synced", "promote"} => content[work[p]].ready = inv[p]
    /\ pc[p] \in {"clean", "synced"} => content[work[p]].pending = None

Provenance ==
    /\ TypeOK /\ Exclusive /\ Kept
    /\ legacy \in seen /\ ReadyWasSeen
    /\ \A p \in Procs : Owned(p) /\ Ordered(p) /\ Bracketed(p) /\ Proven(p)

=============================================================================
