------------------------ MODULE DurableImportProofs ------------------------
(***************************************************************************)
(* Proofs about DurableImport: what an import publishes is one state of    *)
(* the legacy files, not older than the import, for any number of files,   *)
(* processes, directories, writes, interruptions and power losses.  Until  *)
(* there is a power loss there is also one directory at most, and it wins. *)
(***************************************************************************)
EXTENDS DurableImport, TLAPS

USE DEF PC, Listing, outside

(* The invariant holds before the first preparation.                       *)
LEMMA InitProvenance == Init => Provenance
  <1> SUFFICES ASSUME Init PROVE Provenance
    OBVIOUS
  <1>1. NoFiles \in Versions /\ EmptyDir \in Dir
    BY DEF NoFiles, Versions, EmptyDir, Dir, Manifest
  <1>2. legacy \in Versions
    BY DEF Init, Versions
  <1>3. listed \in [Temps -> Listing]
    BY DEF Init
  <1>4. TypeOK
    <2>1. edits \in 0..MaxEdits /\ stops \in 0..MaxStops /\ losses \in 0..MaxLosses
      BY ImportAssumption DEF Init
    <2>2. /\ seen \in SUBSET Versions /\ told \in BOOLEAN
          /\ linked \in SUBSET Paths /\ unsafe \in SUBSET Temps
      BY <1>2 DEF Init
    <2> QED
      BY <1>1, <1>2, <1>3, <2>1, <2>2 DEF Init, TypeOK, DirTypeOK, ProcTypeOK, BoundsTypeOK,
         HistoryTypeOK
  <1>5. Exclusive /\ Kept /\ legacy \in seen
    BY ImportAssumption DEF Init, Exclusive, Kept
  <1>6. \A p \in Procs : Owned(p) /\ Ordered(p) /\ Bracketed(p) /\ Proven(p)
    BY DEF Init, Owned, Building, Ordered, Inventoried, Bracketed, Proven
  <1>7. ReadyWasSeen
    BY DEF Init, ReadyWasSeen, EmptyDir
  <1> QED
    BY <1>4, <1>5, <1>6, <1>7 DEF Provenance

(* Writing one entry of a directory.                                       *)
LEMMA SetReady ==
    ASSUME content \in [Temps -> Dir], NEW t, NEW m \in Manifest
    PROVE  [content EXCEPT ![t].ready = m] \in [Temps -> Dir]
  BY DEF Dir

(* The same for the pending manifest.                                      *)
LEMMA SetPending ==
    ASSUME content \in [Temps -> Dir], NEW t, NEW m \in Manifest
    PROVE  [content EXCEPT ![t].pending = m] \in [Temps -> Dir]
  BY DEF Dir

(* The same for a copied file.                                             *)
LEMMA SetFile ==
    ASSUME content \in [Temps -> Dir], NEW t, NEW f, NEW v \in Nat \cup {Torn}
    PROVE  [content EXCEPT ![t].files[f] = v] \in [Temps -> Dir]
  BY DEF Dir

(* Every step of Next keeps the types.                                     *)
LEMMA TypeStep == TypeOK /\ [Next]_vars => TypeOK'
  <1> SUFFICES ASSUME TypeOK, [Next]_vars PROVE TypeOK'
    OBVIOUS
  <1> USE DEF TypeOK
  <1>a. None \in Manifest /\ Torn \in Manifest /\ Versions \subseteq Manifest
    BY DEF Manifest
  <1>b. NoFiles \in Versions /\ EmptyDir \in Dir
    BY <1>a DEF NoFiles, Versions, EmptyDir, Dir
  <1> USE <1>b
  <1>c. content \in [Temps -> Dir] /\ \A q \in Procs : inv[q] \in Manifest
    BY <1>a DEF DirTypeOK, ProcTypeOK
  <1>d. \A f \in Paths : legacy[f] \in Nat
    BY DEF Versions
  <1>1. ASSUME NEW p \in Procs, Step(p) PROVE TypeOK'
    <2>1. CASE Lock(p)
      BY <2>1, <1>b DEF Lock, Goto, dirVars, bounds, DirTypeOK, ProcTypeOK, BoundsTypeOK,
         HistoryTypeOK
    <2>2. ASSUME NEW f \in Paths, Scan(p, f) PROVE TypeOK'
      <3>1. inv' \in [Procs -> Versions]
        BY <2>2, <1>d DEF Scan, ProcTypeOK, Versions
      <3> QED
        BY <2>2, <3>1 DEF Scan, dirVars, bounds, DirTypeOK, ProcTypeOK, BoundsTypeOK, HistoryTypeOK
    <2>3. ASSUME NEW f \in Paths, CreateCopy(p, f) PROVE TypeOK'
      <3>1. content' \in [Temps -> Dir]
        BY <2>3, <1>a, <1>c, <1>d, SetFile DEF CreateCopy
      <3> QED
        BY <2>3, <3>1 DEF CreateCopy, procVars, bounds, DirTypeOK, ProcTypeOK, BoundsTypeOK,
           HistoryTypeOK
    <2>4. ASSUME NEW f \in Paths, WriteCopy(p, f) PROVE TypeOK'
      <3>1. content' \in [Temps -> Dir]
        BY <2>4, <1>a, <1>c, <1>d, SetFile DEF WriteCopy
      <3> QED
        BY <2>4, <3>1 DEF WriteCopy, Return, Pass, bounds, Goto, DirTypeOK, ProcTypeOK,
           BoundsTypeOK, HistoryTypeOK
    <2>5. ASSUME NEW f \in Paths, Rescan(p, f) PROVE TypeOK'
      BY <2>5 DEF Rescan, Return, Pass, dirVars, bounds, Goto, DirTypeOK, ProcTypeOK,
         BoundsTypeOK, HistoryTypeOK
    <2>6. CASE Accept(p)
      BY <2>6 DEF Accept, Return, Scanned, Destinations, dirVars, bounds, Goto, DirTypeOK,
         ProcTypeOK, BoundsTypeOK, HistoryTypeOK
    <2>7. CASE Adopt(p)
      <3>1. content' \in [Temps -> Dir]
        BY <2>7, <1>a, <1>c, <1>d, SetReady DEF Adopt, Destinations
      <3> QED
        BY <2>7, <3>1 DEF Adopt, Goto, Scanned, Destinations, bounds, DirTypeOK, ProcTypeOK,
           BoundsTypeOK, HistoryTypeOK
    <2>8. CASE Adopted(p)
      <3>1. content' \in [Temps -> Dir]
        BY <2>8, <1>a, <1>c, <1>d, SetReady DEF Adopted
      <3> QED
        BY <2>8, <3>1 DEF Adopted, Return, bounds, Goto, DirTypeOK, ProcTypeOK, BoundsTypeOK,
           HistoryTypeOK
    <2>9. CASE Reject(p)
      BY <2>9 DEF Reject, Goto, Scanned, Destinations, dirVars, bounds, DirTypeOK, ProcTypeOK,
         BoundsTypeOK, HistoryTypeOK
    <2>10. CASE Rejected(p)
      BY <2>10 DEF Rejected, Fail, Return, Goto, dirVars, bounds, DirTypeOK, ProcTypeOK,
         BoundsTypeOK, HistoryTypeOK
    <2>11. CASE RecoverNothing(p)
      BY <2>11 DEF RecoverNothing, Pass, Temporaries, dirVars, bounds, Goto, DirTypeOK,
         ProcTypeOK, BoundsTypeOK, HistoryTypeOK
    <2>12. CASE RecoverTemporary(p)
      BY <2>12 DEF RecoverTemporary, Goto, Temporaries, dirVars, bounds, DirTypeOK, ProcTypeOK,
         BoundsTypeOK, HistoryTypeOK
    <2>13. CASE RecoverFails(p)
      BY <2>13 DEF RecoverFails, Fail, Temporaries, Return, Goto, dirVars, bounds, DirTypeOK,
         ProcTypeOK, BoundsTypeOK, HistoryTypeOK
    <2>14. CASE RemoveEntry(p)
      <3>1. content' \in [Temps -> Dir]
        <4>1. CASE content' = [content EXCEPT ![work[p]].pending = None]
          BY <4>1, <1>a, <1>c, SetPending
        <4>2. ASSUME NEW f \in Paths, content' = [content EXCEPT ![work[p]].files[f] = 0]
               PROVE  content' \in [Temps -> Dir]
          BY <4>2, <1>c, SetFile
        <4> QED
          BY <2>14, <4>1, <4>2 DEF RemoveEntry
      <3> QED
        BY <2>14, <3>1 DEF RemoveEntry, procVars, bounds, DirTypeOK, ProcTypeOK, BoundsTypeOK,
           HistoryTypeOK
    <2>15. CASE RemoveDirectory(p)
      BY <2>15 DEF RemoveDirectory, Goto, bounds, DirTypeOK, ProcTypeOK, BoundsTypeOK, HistoryTypeOK
    <2>16. CASE SyncRemoval(p)
      BY <2>16 DEF SyncRemoval, Pass, bounds, Goto, DirTypeOK, ProcTypeOK, BoundsTypeOK,
         HistoryTypeOK
    <2>17. CASE MkdirTemp(p)
      BY <2>17, <1>b DEF MkdirTemp, Goto, bounds, DirTypeOK, ProcTypeOK, BoundsTypeOK, HistoryTypeOK
    <2>18. CASE CreatePending(p)
      <3>1. content' \in [Temps -> Dir]
        BY <2>18, <1>a, <1>c, <1>d, SetPending DEF CreatePending
      <3> QED
        BY <2>18, <3>1 DEF CreatePending, Goto, bounds, DirTypeOK, ProcTypeOK, BoundsTypeOK,
           HistoryTypeOK
    <2>19. CASE WritePending(p)
      <3>1. content' \in [Temps -> Dir]
        BY <2>19, <1>a, <1>c, <1>d, SetPending DEF WritePending
      <3> QED
        BY <2>19, <3>1 DEF WritePending, Pass, bounds, Goto, DirTypeOK, ProcTypeOK, BoundsTypeOK,
           HistoryTypeOK
    <2>20. CASE Copied(p)
      BY <2>20 DEF Copied, Pass, dirVars, bounds, Goto, DirTypeOK, ProcTypeOK, BoundsTypeOK,
         HistoryTypeOK
    <2>21. CASE CreateReady(p)
      <3>1. content' \in [Temps -> Dir]
        BY <2>21, <1>a, <1>c, <1>d, SetReady DEF CreateReady
      <3> QED
        BY <2>21, <3>1 DEF CreateReady, Goto, bounds, DirTypeOK, ProcTypeOK, BoundsTypeOK,
           HistoryTypeOK
    <2>22. CASE WriteReady(p)
      <3>1. content' \in [Temps -> Dir]
        BY <2>22, <1>a, <1>c, <1>d, SetReady DEF WriteReady
      <3> QED
        BY <2>22, <3>1 DEF WriteReady, Goto, bounds, DirTypeOK, ProcTypeOK, BoundsTypeOK,
           HistoryTypeOK
    <2>23. CASE RemovePending(p)
      <3>1. content' \in [Temps -> Dir]
        BY <2>23, <1>a, <1>c, <1>d, SetPending DEF RemovePending
      <3> QED
        BY <2>23, <3>1 DEF RemovePending, Goto, bounds, DirTypeOK, ProcTypeOK, BoundsTypeOK,
           HistoryTypeOK
    <2>24. CASE SyncDirectories(p)
      BY <2>24 DEF SyncDirectories, Goto, bounds, DirTypeOK, ProcTypeOK, BoundsTypeOK, HistoryTypeOK
    <2>25. CASE Rename(p)
      BY <2>25 DEF Rename, Goto, Destinations, bounds, DirTypeOK, ProcTypeOK, BoundsTypeOK,
         HistoryTypeOK
    <2>26. CASE SyncRoot(p)
      BY <2>26 DEF SyncRoot, Return, bounds, Goto, DirTypeOK, ProcTypeOK, BoundsTypeOK,
         HistoryTypeOK
    <2>27. CASE ScanFails(p)
      BY <2>27 DEF ScanFails, Goto, dirVars, bounds, DirTypeOK, ProcTypeOK, BoundsTypeOK,
         HistoryTypeOK
    <2>28. CASE CopyFails(p)
      BY <2>28 DEF CopyFails, Fail, Return, Goto, dirVars, bounds, DirTypeOK, ProcTypeOK,
         BoundsTypeOK, HistoryTypeOK
    <2> QED
      BY <1>1, <2>1, <2>2, <2>3, <2>4, <2>5, <2>6, <2>7, <2>8, <2>9, <2>10, <2>11, <2>12, <2>13,
         <2>14, <2>15, <2>16, <2>17, <2>18, <2>19, <2>20, <2>21, <2>22, <2>23, <2>24, <2>25,
         <2>26, <2>27, <2>28 DEF Step
  <1>2. ASSUME NEW p \in Procs, Stop(p) PROVE TypeOK'
    <2>1. BoundsTypeOK'
      BY <1>2, ImportAssumption DEF Stop, BoundsTypeOK
    <2> QED
      BY <1>2, <2>1 DEF Stop, Return, dirVars, Goto, DirTypeOK, ProcTypeOK, HistoryTypeOK
  <1>3. ASSUME NEW f \in Paths, WriteLegacy(f) \/ LinkLegacy(f) PROVE TypeOK'
    <2> USE DEF WriteLegacy, LinkLegacy, ChangeLegacy
    <2>a. linked' \in SUBSET Paths
      BY <1>3
    <2>1. BoundsTypeOK' /\ edits + 1 \in Nat
      BY <1>3, ImportAssumption DEF BoundsTypeOK
    <2>2. legacy' \in Versions
      BY <1>3, <2>1 DEF Versions
    <2>3. seen' \in SUBSET Versions
      BY <1>3, <2>2 DEF HistoryTypeOK
    <2> QED
      BY <1>3, <2>a, <2>1, <2>2, <2>3 DEF dirVars, procVars, DirTypeOK, ProcTypeOK, HistoryTypeOK
  <1>4. ASSUME NEW f \in Paths, WriteDurable(f) PROVE TypeOK'
    <2>1. BoundsTypeOK' /\ edits + 1 \in Nat
      BY <1>4, ImportAssumption DEF WriteDurable, BoundsTypeOK
    <2> PICK t \in Temps : content' = [content EXCEPT ![t].files[f] = edits + 1]
      BY <1>4 DEF WriteDurable, Destinations
    <2>2. content' \in [Temps -> Dir]
      BY <2>1, <1>c, SetFile
    <2> QED
      BY <1>4, <2>1, <2>2 DEF WriteDurable, Destinations, procVars, DirTypeOK, ProcTypeOK,
         HistoryTypeOK
  <1>5. CASE WriteBack
    BY <1>5 DEF WriteBack, procVars, bounds, DirTypeOK, ProcTypeOK, BoundsTypeOK, HistoryTypeOK
  <1>6. CASE PowerLoss
    <2>1. BoundsTypeOK'
      BY <1>6, ImportAssumption DEF PowerLoss, BoundsTypeOK
    <2>2. \A t \in Temps : Survivors(t) \subseteq Dir
      BY DEF Survivors, DirTypeOK, Dir
    <2>3. content' \in [Temps -> Dir]
      BY <1>6, <2>2 DEF PowerLoss
    <2> QED
      BY <1>6, <2>1, <2>3 DEF PowerLoss, DirTypeOK, ProcTypeOK, HistoryTypeOK
  <1>7. CASE UNCHANGED vars
    BY <1>7 DEF vars, dirVars, procVars, bounds, DirTypeOK, ProcTypeOK, BoundsTypeOK, HistoryTypeOK
  <1>8. ASSUME NEW t \in Temps, Loosen(t) PROVE TypeOK'
    <2>1. BoundsTypeOK'
      BY <1>8, ImportAssumption DEF Loosen, BoundsTypeOK
    <2> QED
      BY <1>8, <2>1 DEF Loosen, dirVars, procVars, DirTypeOK, ProcTypeOK, HistoryTypeOK
  <1> QED
    BY <1>1, <1>2, <1>3, <1>4, <1>5, <1>6, <1>7, <1>8 DEF Next

(* A step of p moves only p, and p keeps the lock until it returns.        *)
LEMMA Moves ==
    ASSUME TypeOK, NEW p \in Procs, Step(p)
    PROVE  /\ pc' = [pc EXCEPT ![p] = pc'[p]]
           /\ \/ pc[p] = "off" /\ lock = None /\ lock' = p /\ pc'[p] # "off"
              \/ pc[p] # "off" /\ lock' = lock /\ pc'[p] # "off"
              \/ pc[p] # "off" /\ lock' = None /\ pc'[p] = "off"
  <1> DEFINE Goal ==
           /\ pc' = [pc EXCEPT ![p] = pc'[p]]
           /\ \/ pc[p] = "off" /\ lock = None /\ lock' = p /\ pc'[p] # "off"
              \/ pc[p] # "off" /\ lock' = lock /\ pc'[p] # "off"
              \/ pc[p] # "off" /\ lock' = None /\ pc'[p] = "off"
  <1> USE DEF TypeOK, ProcTypeOK
  <1>1. CASE Lock(p)
    BY <1>1 DEF Lock, Goto
  <1>2. ASSUME NEW f \in Paths, Scan(p, f) PROVE Goal
    BY <1>2 DEF Scan
  <1>3. ASSUME NEW f \in Paths, CreateCopy(p, f) PROVE Goal
    BY <1>3 DEF CreateCopy, procVars
  <1>4. ASSUME NEW f \in Paths, WriteCopy(p, f) PROVE Goal
    BY <1>4 DEF WriteCopy, Return, Pass, Goto
  <1>5. ASSUME NEW f \in Paths, Rescan(p, f) PROVE Goal
    BY <1>5 DEF Rescan, Return, Pass, Goto
  <1>6. CASE Accept(p)
    BY <1>6 DEF Accept, Return, Scanned, Goto
  <1>7. CASE Adopt(p)
    BY <1>7 DEF Adopt, Goto, Scanned
  <1>8. CASE Adopted(p)
    BY <1>8 DEF Adopted, Return, Goto
  <1>9. CASE Reject(p)
    BY <1>9 DEF Reject, Goto, Scanned
  <1>10. CASE Rejected(p)
    BY <1>10 DEF Rejected, Fail, Return, Goto
  <1>11. CASE RecoverNothing(p)
    BY <1>11 DEF RecoverNothing, Pass, Recovers, Scanned, Goto
  <1>12. CASE RecoverTemporary(p)
    BY <1>12 DEF RecoverTemporary, Goto, Recovers, Scanned
  <1>13. CASE RecoverFails(p)
    BY <1>13 DEF RecoverFails, Fail, Recovers, Scanned, Return, Goto
  <1>14. CASE RemoveEntry(p)
    BY <1>14 DEF RemoveEntry, procVars
  <1>15. CASE RemoveDirectory(p)
    BY <1>15 DEF RemoveDirectory, Goto
  <1>16. CASE SyncRemoval(p)
    BY <1>16 DEF SyncRemoval, Pass, Goto
  <1>17. CASE MkdirTemp(p)
    BY <1>17 DEF MkdirTemp, Goto
  <1>18. CASE CreatePending(p)
    BY <1>18 DEF CreatePending, Goto
  <1>19. CASE WritePending(p)
    BY <1>19 DEF WritePending, Pass, Goto
  <1>20. CASE Copied(p)
    BY <1>20 DEF Copied, Pass, Goto
  <1>21. CASE CreateReady(p)
    BY <1>21 DEF CreateReady, Goto
  <1>22. CASE WriteReady(p)
    BY <1>22 DEF WriteReady, Goto
  <1>23. CASE RemovePending(p)
    BY <1>23 DEF RemovePending, Goto
  <1>24. CASE SyncDirectories(p)
    BY <1>24 DEF SyncDirectories, Goto
  <1>25. CASE Rename(p)
    BY <1>25 DEF Rename, Goto
  <1>26. CASE SyncRoot(p)
    BY <1>26 DEF SyncRoot, Return, Goto
  <1>27. CASE ScanFails(p)
    BY <1>27 DEF ScanFails, Goto
  <1>28. CASE CopyFails(p)
    BY <1>28 DEF CopyFails, Fail, Return, Goto
  <1> QED
    BY <1>1, <1>2, <1>3, <1>4, <1>5, <1>6, <1>7, <1>8, <1>9, <1>10, <1>11, <1>12, <1>13, <1>14,
       <1>15, <1>16, <1>17, <1>18, <1>19, <1>20, <1>21, <1>22, <1>23, <1>24, <1>25, <1>26,
       <1>27, <1>28 DEF Step

(* The lock file excludes a second preparation (acquireDurableImportLock). *)
LEMMA ExclusiveStep == TypeOK /\ Exclusive /\ [Next]_vars => Exclusive'
  <1> SUFFICES ASSUME TypeOK, Exclusive, [Next]_vars PROVE Exclusive'
    OBVIOUS
  <1> USE ImportAssumption DEF TypeOK, ProcTypeOK, Exclusive
  <1>1. ASSUME NEW p \in Procs, Step(p) PROVE Exclusive'
    BY <1>1, Moves
  <1>2. ASSUME NEW p \in Procs, Stop(p) PROVE Exclusive'
    BY <1>2 DEF Stop, Return, Goto
  <1>3. ASSUME NEW f \in Paths, WriteLegacy(f) \/ LinkLegacy(f) \/ WriteDurable(f)
        PROVE  Exclusive'
    BY <1>3 DEF WriteLegacy, LinkLegacy, ChangeLegacy, WriteDurable, procVars
  <1>7. ASSUME NEW t \in Temps, Loosen(t) PROVE Exclusive'
    BY <1>7 DEF Loosen, procVars
  <1>4. CASE WriteBack
    BY <1>4 DEF WriteBack, procVars
  <1>5. CASE PowerLoss
    BY <1>5 DEF PowerLoss
  <1>6. CASE UNCHANGED vars
    BY <1>6 DEF vars, procVars
  <1> QED
    BY <1>1, <1>2, <1>3, <1>4, <1>5, <1>6, <1>7 DEF Next

(* Used to find the state m at a file that is read a second time.          *)
LEMMA Antisymmetry == \A a, b \in Nat : a <= b /\ b <= a => a = b
  OBVIOUS

(* What a step of p leaves of the invariant of p and of the manifests.     *)
LEMMA StepSound ==
    ASSUME Provenance, TypeOK', Exclusive', NEW p \in Procs, Step(p)
    PROVE  (legacy \in seen /\ ReadyWasSeen /\ Owned(p) /\ Ordered(p) /\ Bracketed(p) /\ Proven(p))'
  <1> DEFINE Goal ==
        (legacy \in seen /\ ReadyWasSeen /\ Owned(p) /\ Ordered(p) /\ Bracketed(p) /\ Proven(p))'
  <1> USE DEF Provenance, TypeOK, DirTypeOK, ProcTypeOK, HistoryTypeOK, Dir
  <1>a. \A f \in Paths : legacy[f] \in Nat /\ inv[p][f] \in Nat /\ since[p][f] \in Nat
    BY DEF Versions
  <1>b. \A m \in seen : m \in Versions /\ \A f \in Paths : m[f] \in Nat
    BY DEF Versions
  <1>c. inv[p] \in Versions /\ inv[p] \notin {None, Torn}
    BY ImportAssumption DEF Versions
  <1>d. ASSUME pc[p] \notin {"off", "scan", "rejected"}, pc'[p] # "scan",
               UNCHANGED <<legacy, inv, since, seen>>
        PROVE  (legacy \in seen /\ Ordered(p))'
    BY <1>d DEF Ordered, Inventoried
  <1>1. CASE Lock(p)
    <2>1. since'[p] = legacy /\ legacy' = legacy /\ seen' = seen /\ pc'[p] = "scan" /\ done'[p] = {}
      BY <1>1 DEF Lock, Goto
    <2>2. Ordered(p)'
      BY <2>1, <1>a DEF Ordered, Inventoried
    <2> QED
      BY <1>1, <2>1, <2>2 DEF Lock, dirVars, Owned, Building, Bracketed, Proven, ReadyWasSeen
  <1>2. ASSUME NEW f \in Paths, Scan(p, f) PROVE Goal
    <2>1. Ordered(p)'
      <3>1. pc'[p] = "scan" /\ done'[p] = done[p] \cup {f} /\ inv'[p][f] = legacy[f]
        BY <1>2 DEF Scan, Versions
      <3>2. \A g \in Paths \ {f} : inv'[p][g] = inv[p][g]
        BY <1>2 DEF Scan
      <3>3. since' = since /\ legacy' = legacy /\ seen' = seen /\ pc[p] = "scan" /\ legacy[f] \in Nat
        BY <1>2 DEF Scan, Versions
      <3> QED
        BY <3>1, <3>2, <3>3 DEF Ordered, Inventoried
    <2> QED
      BY <1>2, <2>1 DEF Scan, dirVars, Owned, Building, Bracketed, Proven, ReadyWasSeen
  <1>3. ASSUME NEW f \in Paths, CreateCopy(p, f) PROVE Goal
    BY <1>3 DEF CreateCopy, procVars, bounds, Owned, Building, Ordered, Inventoried, Bracketed,
       Proven, ReadyWasSeen
  <1>4. ASSUME NEW f \in Paths, WriteCopy(p, f) PROVE Goal
    <2>1. ReadyWasSeen'
      BY <1>4 DEF WriteCopy, ReadyWasSeen
    <2>2. CASE Pass(p, "copy", done[p] \cup {f})
      BY <1>4, <2>1, <2>2 DEF WriteCopy, Pass, Goto, Owned, Building, Ordered, Inventoried,
         Bracketed, Proven
    <2>3. CASE Return(p)
      BY <1>4, <2>1, <2>3 DEF WriteCopy, Return, Goto, Owned, Building, Ordered, Inventoried,
         Bracketed, Proven
    <2> QED
      BY <1>4, <2>2, <2>3 DEF WriteCopy
  <1>5. ASSUME NEW f \in Paths, Rescan(p, f) PROVE Goal
    <2>1. CASE Return(p)
      BY <1>5, <2>1 DEF Rescan, Return, Goto, dirVars, Owned, Building, Ordered, Inventoried,
         Bracketed, Proven, ReadyWasSeen
    <2>2. CASE legacy[f] = inv[p][f] /\ Pass(p, "rescan", done[p] \cup {f})
      <3>1. PICK m \in seen : \A g \in Paths :
                /\ inv[p][g] <= m[g] /\ m[g] <= legacy[g]
                /\ g \in done[p] => m[g] = inv[p][g]
        BY <1>5 DEF Rescan, Bracketed
      <3>a. m[f] \in Nat /\ inv[p][f] \in Nat /\ legacy[f] = inv[p][f]
        BY <2>2, <1>a, <1>b
      <3>b. inv[p][f] <= m[f] /\ m[f] <= inv[p][f]
        BY <3>1, <3>a
      <3>2. m[f] = inv[p][f]
        BY <3>a, <3>b, Antisymmetry
      <3>3. Bracketed(p)'
        BY <1>5, <2>2, <3>1, <3>2 DEF Rescan, Pass, Goto, Bracketed
      <3> QED
        BY <1>5, <2>2, <3>3 DEF Rescan, Pass, Goto, dirVars, Owned, Building, Ordered,
           Inventoried, Proven, ReadyWasSeen
    <2> QED
      BY <1>5, <2>1, <2>2 DEF Rescan
  <1>6. CASE Accept(p)
    BY <1>6 DEF Accept, Return, Scanned, Destinations, dirVars, bounds, Goto, Owned, Building,
       Ordered, Inventoried, Bracketed, Proven, ReadyWasSeen
  <1>7. CASE Adopt(p)
    <2>1. inv[p] = NoFiles /\ Scanned(p)
      BY <1>7 DEF Adopt, Adoptable
    <2>2. since[p] \in seen /\ \A f \in Paths : since[p][f] <= 0
      BY <2>1 DEF Scanned, Ordered, Inventoried, NoFiles
    <2>3. since[p] = NoFiles
      BY <2>2 DEF Versions, NoFiles
    <2>4. inv[p] \in seen
      BY <2>1, <2>2, <2>3
    <2> QED
      BY <1>7, <2>4 DEF Adopt, Goto, Scanned, Owned, Building, Ordered, Inventoried, Bracketed,
         Proven, ReadyWasSeen
  <1>8. CASE Adopted(p)
    BY <1>8 DEF Adopted, Return, bounds, Goto, Owned, Building, Ordered, Inventoried, Bracketed,
       Proven, ReadyWasSeen
  <1>9. CASE Reject(p)
    BY <1>9 DEF Reject, Goto, Scanned, Destinations, dirVars, bounds, Adoptable, Owned, Building,
       Ordered, Inventoried, Bracketed, Proven, ReadyWasSeen
  <1>10. CASE Rejected(p)
    BY <1>10 DEF Rejected, Fail, Return, Goto, dirVars, bounds, Owned, Building, Ordered,
       Inventoried, Bracketed, Proven, ReadyWasSeen
  <1>11. CASE RecoverNothing(p)
    <2>1. \A f \in Paths : inv[p][f] <= legacy[f] /\ legacy[f] <= legacy[f]
      BY <1>11 DEF RecoverNothing, Recovers, Scanned, Ordered, Inventoried, Versions
    <2>2. Bracketed(p)'
      BY <1>11, <2>1 DEF RecoverNothing, Pass, Goto, Bracketed
    <2> QED
      BY <1>11, <2>2 DEF RecoverNothing, Recovers, Scanned, Pass, Goto, dirVars, Owned, Building,
         Ordered, Inventoried, Proven, ReadyWasSeen
  <1>12. CASE RecoverTemporary(p)
    <2> PICK t \in Temporaries :
           /\ Recovers(p) /\ OfSource(p, content[t])
           /\ \/ Ready(content[t]) /\ Goto(p, "promote")
              \/ Incomplete(content[t]) /\ Goto(p, "remove")
           /\ work' = [work EXCEPT ![p] = t]
           /\ UNCHANGED <<legacy, dirVars, lock, inv, done, bounds, since, seen, told>>
      BY <1>12 DEF RecoverTemporary
    <2>1. t \in Temps /\ listed[t] = "temp" /\ pc[p] = "scan" /\ Inventoried(p) = Paths
      BY DEF Temporaries, Recovers, Scanned, Inventoried
    <2>2. (legacy \in seen /\ ReadyWasSeen /\ Ordered(p))'
      BY <2>1 DEF Goto, dirVars, Ordered, Inventoried, ReadyWasSeen
    <2>3. CASE Ready(content[t]) /\ Goto(p, "promote")
      <3>1. content[t].ready = inv[p] /\ content[t].files = inv[p]
        BY <2>3 DEF OfSource, Ready
      <3>2. inv[p] \in seen
        BY <2>1, <3>1, <1>c DEF ReadyWasSeen
      <3> QED
        BY <2>1, <2>2, <2>3, <3>1, <3>2 DEF Goto, dirVars, Owned, Building, Bracketed, Proven
    <2>4. CASE Goto(p, "remove")
      <3>1. \A f \in Paths : inv[p][f] <= legacy[f] /\ legacy[f] <= legacy[f]
        BY <2>1 DEF Ordered, Versions
      <3>2. Bracketed(p)'
        BY <2>4, <3>1 DEF Goto, Bracketed
      <3> QED
        BY <2>1, <2>2, <2>4, <3>2 DEF Goto, dirVars, Owned, Building, Proven
    <2> QED
      BY <2>3, <2>4
  <1>13. CASE RecoverFails(p)
    BY <1>13 DEF RecoverFails, Fail, Recovers, Temporaries, Scanned, Return, Goto, dirVars,
       bounds, Owned, Building, Ordered, Inventoried, Bracketed, Proven, ReadyWasSeen
  <1>14. CASE RemoveEntry(p)
    <2>1. ReadyWasSeen'
      <3>1. CASE content' = [content EXCEPT ![work[p]].pending = None]
        BY <1>14, <3>1 DEF RemoveEntry, ReadyWasSeen
      <3>2. ASSUME NEW f \in Paths, content' = [content EXCEPT ![work[p]].files[f] = 0]
            PROVE  ReadyWasSeen'
        BY <1>14, <3>2 DEF RemoveEntry, ReadyWasSeen
      <3> QED
        BY <1>14, <3>1, <3>2 DEF RemoveEntry
    <2> QED
      BY <1>14, <2>1 DEF RemoveEntry, procVars, Owned, Building, Ordered, Inventoried, Bracketed,
         Proven
  <1>15. CASE RemoveDirectory(p)
    <2>1. (legacy \in seen /\ Ordered(p))'
      BY <1>15, <1>d DEF RemoveDirectory, Goto
    <2> QED
      BY <1>15, <2>1 DEF RemoveDirectory, Goto, EmptyDir, Owned, Building, Bracketed, Proven,
         ReadyWasSeen
  <1>16. CASE SyncRemoval(p)
    <2>1. (legacy \in seen /\ Ordered(p))'
      BY <1>16, <1>d DEF SyncRemoval, Pass, Goto
    <2> QED
      BY <1>16, <2>1 DEF SyncRemoval, Pass, Goto, Owned, Building, Bracketed, Proven,
         ReadyWasSeen
  <1>17. CASE MkdirTemp(p)
    <2>1. (legacy \in seen /\ Ordered(p))'
      BY <1>17, <1>d DEF MkdirTemp, Goto
    <2> QED
      BY <1>17, <2>1 DEF MkdirTemp, Goto, EmptyDir, Owned, Building, Bracketed, Proven,
         ReadyWasSeen
  <1>18. CASE CreatePending(p)
    <2>1. (legacy \in seen /\ Ordered(p))'
      BY <1>18, <1>d DEF CreatePending, Goto
    <2> QED
      BY <1>18, <2>1 DEF CreatePending, Goto, Owned, Building, Bracketed, Proven,
         ReadyWasSeen
  <1>19. CASE WritePending(p)
    <2>1. (legacy \in seen /\ Ordered(p))'
      BY <1>19, <1>d DEF WritePending, Pass, Goto
    <2> QED
      BY <1>19, <2>1 DEF WritePending, Pass, Goto, Owned, Building, Bracketed, Proven,
         ReadyWasSeen
  <1>20. CASE Copied(p)
    <2>1. (legacy \in seen /\ Ordered(p))'
      BY <1>20, <1>d DEF Copied, Pass, Goto, dirVars
    <2> QED
      BY <1>20, <2>1 DEF Copied, Pass, Goto, dirVars, Owned, Building, Bracketed, Proven,
         ReadyWasSeen
  <1>21. CASE CreateReady(p)
    <2>1. PICK m \in seen : \A f \in Paths : m[f] = inv[p][f]
      BY <1>21 DEF CreateReady, Bracketed
    <2>2. m = inv[p]
      BY <2>1, <1>b, <1>c DEF Versions
    <2>3. inv[p] \in seen
      BY <2>2
    <2> QED
      BY <1>21, <2>3 DEF CreateReady, Goto, Owned, Building, Ordered, Inventoried, Bracketed,
         Proven, ReadyWasSeen
  <1>22. CASE WriteReady(p)
    <2>1. (legacy \in seen /\ Ordered(p))'
      BY <1>22, <1>d DEF WriteReady, Goto
    <2> QED
      BY <1>22, <2>1 DEF WriteReady, Goto, Owned, Building, Bracketed, Proven,
         ReadyWasSeen
  <1>23. CASE RemovePending(p)
    <2>1. (legacy \in seen /\ Ordered(p))'
      BY <1>23, <1>d DEF RemovePending, Goto
    <2> QED
      BY <1>23, <2>1 DEF RemovePending, Goto, Owned, Building, Bracketed, Proven,
         ReadyWasSeen
  <1>24. CASE SyncDirectories(p)
    <2>1. (legacy \in seen /\ Ordered(p))'
      BY <1>24, <1>d DEF SyncDirectories, Goto
    <2> QED
      BY <1>24, <2>1 DEF SyncDirectories, Goto, Owned, Building, Bracketed, Proven,
         ReadyWasSeen
  <1>25. CASE Rename(p)
    <2>1. (legacy \in seen /\ Ordered(p))'
      BY <1>25, <1>d DEF Rename, Goto
    <2> QED
      BY <1>25, <2>1 DEF Rename, Goto, Owned, Building, Bracketed, Proven,
         ReadyWasSeen
  <1>26. CASE SyncRoot(p)
    BY <1>26 DEF SyncRoot, Return, bounds, Goto, Owned, Building, Ordered, Inventoried, Bracketed,
       Proven, ReadyWasSeen
  <1>27. CASE ScanFails(p)
    BY <1>27 DEF ScanFails, Goto, dirVars, bounds, Owned, Building, Ordered, Inventoried, Bracketed,
       Proven, ReadyWasSeen
  <1>28. CASE CopyFails(p)
    BY <1>28 DEF CopyFails, Fail, Return, Goto, dirVars, bounds, Owned, Building, Ordered,
       Inventoried, Bracketed, Proven, ReadyWasSeen
  <1> QED
    BY <1>1, <1>2, <1>3, <1>4, <1>5, <1>6, <1>7, <1>8, <1>9, <1>10, <1>11, <1>12, <1>13, <1>14,
       <1>15, <1>16, <1>17, <1>18, <1>19, <1>20, <1>21, <1>22, <1>23, <1>24, <1>25, <1>26,
       <1>27, <1>28 DEF Step

(* A step of p leaves the legacy files and the order of versions alone, and *)
(* only Rename makes a temporary the destination.                          *)
LEMMA Lists ==
    ASSUME Provenance, NEW p \in Procs, Step(p)
    PROVE  /\ Kept'
           /\ \A t \in Temps : Publishes(t) => Rename(p) /\ t = work[p]
  <1> DEFINE Goal ==
           /\ Kept'
           /\ \A t \in Temps : Publishes(t) => Rename(p) /\ t = work[p]
  <1> USE DEF Provenance, TypeOK, DirTypeOK, Kept, Publishes
  <1>a. ASSUME UNCHANGED <<legacy, edits, listed, listedSync>> PROVE Goal
    BY <1>a
  <1>1. CASE Lock(p)
    BY <1>1, <1>a DEF Lock, dirVars, bounds
  <1>2. ASSUME NEW f \in Paths, Scan(p, f) PROVE Goal
    BY <1>2, <1>a DEF Scan, dirVars, bounds
  <1>3. ASSUME NEW f \in Paths, CreateCopy(p, f) PROVE Goal
    BY <1>3, <1>a DEF CreateCopy, procVars, bounds
  <1>4. ASSUME NEW f \in Paths, WriteCopy(p, f) PROVE Goal
    BY <1>4, <1>a DEF WriteCopy, bounds
  <1>5. ASSUME NEW f \in Paths, Rescan(p, f) PROVE Goal
    BY <1>5, <1>a DEF Rescan, dirVars, bounds
  <1>6. CASE Accept(p)
    BY <1>6, <1>a DEF Accept, dirVars, bounds
  <1>7. CASE Adopt(p)
    BY <1>7, <1>a DEF Adopt, bounds
  <1>8. CASE Adopted(p)
    BY <1>8, <1>a DEF Adopted, bounds
  <1>9. CASE Reject(p)
    BY <1>9, <1>a DEF Reject, dirVars, bounds
  <1>10. CASE Rejected(p)
    BY <1>10, <1>a DEF Rejected, Fail, dirVars, bounds
  <1>11. CASE RecoverNothing(p)
    BY <1>11, <1>a DEF RecoverNothing, dirVars, bounds
  <1>12. CASE RecoverTemporary(p)
    BY <1>12, <1>a DEF RecoverTemporary, dirVars, bounds
  <1>13. CASE RecoverFails(p)
    BY <1>13, <1>a DEF RecoverFails, Fail, dirVars, bounds
  <1>14. CASE RemoveEntry(p)
    BY <1>14, <1>a DEF RemoveEntry, procVars, bounds
  <1>15. CASE RemoveDirectory(p)
    BY <1>15 DEF RemoveDirectory, bounds, Owned, Building
  <1>16. CASE SyncRemoval(p)
    BY <1>16 DEF SyncRemoval, Pass, bounds, Goto
  <1>17. CASE MkdirTemp(p)
    BY <1>17 DEF MkdirTemp, Goto, bounds
  <1>18. CASE CreatePending(p)
    BY <1>18, <1>a DEF CreatePending, bounds
  <1>19. CASE WritePending(p)
    BY <1>19, <1>a DEF WritePending, bounds
  <1>20. CASE Copied(p)
    BY <1>20, <1>a DEF Copied, dirVars, bounds
  <1>21. CASE CreateReady(p)
    BY <1>21, <1>a DEF CreateReady, bounds
  <1>22. CASE WriteReady(p)
    BY <1>22, <1>a DEF WriteReady, bounds
  <1>23. CASE RemovePending(p)
    BY <1>23, <1>a DEF RemovePending, bounds
  <1>24. CASE SyncDirectories(p)
    BY <1>24, <1>a DEF SyncDirectories, bounds
  <1>25. CASE Rename(p)
    BY <1>25 DEF Rename, Goto, bounds, Owned, Building
  <1>26. CASE SyncRoot(p)
    BY <1>26 DEF SyncRoot, Return, bounds, Goto
  <1>27. CASE ScanFails(p)
    BY <1>27, <1>a DEF ScanFails, dirVars, bounds
  <1>28. CASE CopyFails(p)
    BY <1>28, <1>a DEF CopyFails, Fail, dirVars, bounds
  <1> QED
    BY <1>1, <1>2, <1>3, <1>4, <1>5, <1>6, <1>7, <1>8, <1>9, <1>10, <1>11, <1>12, <1>13, <1>14,
       <1>15, <1>16, <1>17, <1>18, <1>19, <1>20, <1>21, <1>22, <1>23, <1>24, <1>25, <1>26,
       <1>27, <1>28 DEF Step

(* Every step keeps the invariant, those of writers, interruptions and     *)
(* power losses too.                                                       *)
LEMMA ProvenanceStep == Provenance /\ [Next]_vars => Provenance'
  <1> SUFFICES ASSUME Provenance, [Next]_vars PROVE Provenance'
    OBVIOUS
  <1>1. TypeOK' /\ Exclusive'
    BY TypeStep, ExclusiveStep DEF Provenance
  <1>2. ASSUME NEW q \in Procs, pc'[q] = "off"
        PROVE  (Owned(q) /\ Ordered(q) /\ Bracketed(q) /\ Proven(q))'
    BY <1>2 DEF Owned, Building, Ordered, Inventoried, Bracketed, Proven
  <1>3. ASSUME NEW p \in Procs, Step(p) PROVE Provenance'
    <2>1. TypeOK /\ Exclusive
      BY DEF Provenance
    <2>2. (legacy \in seen /\ ReadyWasSeen /\ Owned(p) /\ Ordered(p) /\ Bracketed(p) /\ Proven(p))'
      BY <1>1, <1>3, StepSound
    <2>3. \A q \in Procs \ {p} : pc'[q] = "off"
      <3>1. lock \in {p, None}
        BY <1>3, <2>1, Moves DEF Exclusive
      <3>2. \A q \in Procs \ {p} : pc[q] = "off"
        BY <2>1, <3>1, ImportAssumption DEF Exclusive
      <3> QED
        BY <1>3, <2>1, <3>2, Moves DEF TypeOK, ProcTypeOK
    <2>4. Kept'
      BY <1>3, Lists
    <2> QED
      BY <1>1, <1>2, <2>2, <2>3, <2>4 DEF Provenance
  <1>4. ASSUME NEW p \in Procs, Stop(p) PROVE Provenance'
    <2>1. \A q \in Procs : pc'[q] = "off"
      BY <1>1, <1>4, ImportAssumption DEF Stop, Return, Exclusive
    <2>2. (Kept /\ legacy \in seen /\ ReadyWasSeen)'
      BY <1>4 DEF Provenance, Stop, dirVars, Kept, ReadyWasSeen
    <2> QED
      BY <1>1, <1>2, <2>1, <2>2 DEF Provenance
  <1>5. ASSUME NEW f \in Paths, ChangeLegacy(f) PROVE Provenance'
    <2>1. \A g \in Paths : legacy[g] \in Nat /\ legacy'[g] \in Nat
      BY <1>1 DEF Provenance, TypeOK, Versions
    <2>2. edits \in Nat /\ edits' = edits + 1 /\ \A g \in Paths : legacy[g] <= edits
      BY <1>5, ImportAssumption DEF Provenance, TypeOK, BoundsTypeOK, ChangeLegacy, Kept
    <2>3. \A g \in Paths : legacy'[g] = IF g = f THEN edits + 1 ELSE legacy[g]
      BY <1>5 DEF Provenance, TypeOK, Versions, ChangeLegacy
    <2>4. \A g \in Paths : legacy[g] <= legacy'[g] /\ legacy'[g] <= edits'
      BY <2>1, <2>2, <2>3
    <2>5. (Kept /\ legacy \in seen /\ ReadyWasSeen)'
      BY <1>5, <2>4 DEF Provenance, ChangeLegacy, dirVars, Kept, ReadyWasSeen
    <2>6. ASSUME NEW p \in Procs PROVE (Owned(p) /\ Ordered(p) /\ Bracketed(p) /\ Proven(p))'
      <3>1. \A g \in Paths : inv[p][g] \in Nat /\ since[p][g] \in Nat
        BY DEF Provenance, TypeOK, ProcTypeOK, HistoryTypeOK, Versions
      <3>2. \A m \in seen : \A g \in Paths : m[g] \in Nat
        BY DEF Provenance, TypeOK, HistoryTypeOK, Versions
      <3>3. seen \subseteq seen' /\ UNCHANGED <<pc, inv, done, work, content, listed, since>>
        BY <1>5 DEF ChangeLegacy, dirVars, procVars
      <3>4. Ordered(p)'
        BY <2>1, <2>4, <3>1, <3>3 DEF Provenance, Ordered, Inventoried, TypeOK, ProcTypeOK
      <3>5. Bracketed(p)'
        <4>1. CASE pc[p] \in {"make", "made", "pending", "copy", "rescan", "remove", "removed"}
          <5>1. PICK m \in seen : \A g \in Paths :
                    /\ inv[p][g] <= m[g] /\ m[g] <= legacy[g]
                    /\ pc[p] = "rescan" /\ g \in done[p] => m[g] = inv[p][g]
            BY <4>1 DEF Provenance, Bracketed
          <5>2. \A g \in Paths : m[g] <= legacy'[g]
            BY <2>1, <2>4, <3>2, <5>1
          <5> QED
            BY <3>3, <4>1, <5>1, <5>2 DEF Bracketed
        <4>2. CASE pc[p] \notin {"make", "made", "pending", "copy", "rescan", "remove", "removed"}
          BY <3>3, <4>2 DEF Provenance, Bracketed
        <4> QED
          BY <4>1, <4>2
      <3>6. (Owned(p) /\ Proven(p))'
        BY <3>3 DEF Provenance, Owned, Building, Proven
      <3> QED
        BY <3>4, <3>5, <3>6
    <2> QED
      BY <1>1, <2>5, <2>6 DEF Provenance
  <1>6. ASSUME NEW f \in Paths, WriteDurable(f) PROVE Provenance'
    <2> PICK t \in Destinations :
           /\ edits < MaxEdits /\ edits' = edits + 1
           /\ content' = [content EXCEPT ![t].files[f] = edits + 1]
           /\ UNCHANGED <<legacy, listed, synced, listedSync, procVars, since, seen>>
      BY <1>6 DEF WriteDurable
    <2>1. t \in Temps /\ listed[t] = "dest"
      BY DEF Destinations
    <2>2. \A u \in Temps : /\ content'[u].ready = content[u].ready
                           /\ content'[u].pending = content[u].pending
                           /\ u # t => content'[u] = content[u]
      BY DEF Provenance, TypeOK, DirTypeOK, Dir
    <2>3. Kept'
      <3>1. edits \in Nat /\ edits' = edits + 1
        BY ImportAssumption DEF Provenance, TypeOK, BoundsTypeOK
      <3>2. \A g \in Paths : legacy[g] \in Nat /\ legacy[g] <= edits /\ legacy' = legacy
        BY DEF Provenance, TypeOK, Versions, Kept
      <3>3. \A g \in Paths : legacy'[g] <= edits'
        BY <3>1, <3>2
      <3> QED
        BY <3>3 DEF Provenance, Kept
    <2>4. (legacy \in seen /\ ReadyWasSeen)'
      BY <2>2 DEF Provenance, ReadyWasSeen
    <2>5. ASSUME NEW p \in Procs PROVE (Owned(p) /\ Ordered(p) /\ Bracketed(p) /\ Proven(p))'
      <3>1. (Owned(p) /\ Ordered(p) /\ Bracketed(p))'
        BY DEF Provenance, procVars, Owned, Building, Ordered, Inventoried, Bracketed
      <3>2. pc[p] \in Building => content'[work[p]] = content[work[p]]
        BY <2>1, <2>2 DEF Provenance, Owned
      <3> QED
        BY <3>1, <3>2 DEF Provenance, procVars, Proven, Building
    <2> QED
      BY <1>1, <2>3, <2>4, <2>5 DEF Provenance
  <1>7. CASE WriteBack
    <2>1. (Kept /\ legacy \in seen)'
      BY <1>7 DEF Provenance, TypeOK, DirTypeOK, WriteBack, bounds, Kept
    <2>2. ReadyWasSeen'
      BY <1>7 DEF Provenance, TypeOK, DirTypeOK, WriteBack, ReadyWasSeen
    <2>3. \A p \in Procs : (Owned(p) /\ Ordered(p) /\ Bracketed(p) /\ Proven(p))'
      BY <1>7 DEF Provenance, WriteBack, procVars, Owned, Building, Ordered, Inventoried,
         Bracketed, Proven
    <2> QED
      BY <1>1, <2>1, <2>2, <2>3 DEF Provenance
  <1>8. CASE PowerLoss
    <2>1. \A p \in Procs : pc'[p] = "off"
      BY <1>8 DEF PowerLoss
    <2>2. (Kept /\ legacy \in seen)'
      BY <1>8 DEF Provenance, PowerLoss, Kept
    <2>3. ASSUME NEW t \in Temps PROVE content'[t].ready \in {content[t].ready, synced[t].ready}
      BY <1>8 DEF PowerLoss, Survivors
    <2>4. ReadyWasSeen'
      BY <1>8, <2>3 DEF Provenance, PowerLoss, ReadyWasSeen
    <2> QED
      BY <1>1, <1>2, <2>1, <2>2, <2>4 DEF Provenance
  <1>10. ASSUME NEW t \in Temps, Loosen(t) PROVE Provenance'
    <2>1. edits \in Nat /\ edits' = edits + 1
      BY <1>10, ImportAssumption DEF Loosen, Provenance, TypeOK, BoundsTypeOK
    <2>2. \A g \in Paths : legacy[g] \in Nat /\ legacy[g] <= edits /\ legacy' = legacy
      BY <1>10 DEF Loosen, Provenance, TypeOK, Versions, Kept
    <2>3. \A g \in Paths : legacy'[g] <= edits'
      BY <2>1, <2>2
    <2>4. (Kept /\ legacy \in seen /\ ReadyWasSeen)'
      BY <1>10, <2>3 DEF Loosen, dirVars, Provenance, Kept, ReadyWasSeen
    <2>5. \A p \in Procs : (Owned(p) /\ Ordered(p) /\ Bracketed(p) /\ Proven(p))'
      BY <1>10 DEF Loosen, dirVars, procVars, Provenance, Owned, Building, Ordered, Inventoried,
         Bracketed, Proven
    <2> QED
      BY <1>1, <2>4, <2>5 DEF Provenance
  <1>9. CASE UNCHANGED vars
    BY <1>1, <1>9 DEF Provenance, vars, dirVars, procVars, bounds, Kept, ReadyWasSeen, Owned,
       Building,
                      Ordered, Inventoried, Bracketed, Proven
  <1> QED
    BY <1>3, <1>4, <1>5, <1>6, <1>7, <1>8, <1>9, <1>10 DEF Next, WriteLegacy, LinkLegacy

(* The invariant of the import: the lock has one holder, an authoritative  *)
(* manifest records a state that the legacy files were in, and what a      *)
(* preparation is about to publish was compared with it.                   *)
THEOREM ProvenanceHolds == Spec => []Provenance
  <1> QED
    BY InitProvenance, ProvenanceStep, PTL DEF Spec

(* A step that publishes is Rename, of a directory that has been proven.   *)
LEMMA PublishedIsProven ==
    ASSUME Provenance, Next, NEW t \in Temps, Publishes(t)
    PROVE  \E p \in Procs :
              /\ lock = p /\ pc[p] \in {"synced", "promote"} /\ t = work[p]
              /\ content[t].pending = None
              /\ content[t].files = inv[p] /\ content[t].ready = inv[p] /\ inv[p] \in seen
  <1>1. ASSUME listed' = listed PROVE FALSE
    BY <1>1 DEF Publishes
  <1>2. ASSUME NEW p \in Procs, Stop(p) PROVE FALSE
    BY <1>1, <1>2 DEF Stop, dirVars
  <1>3. ASSUME NEW f \in Paths, WriteLegacy(f) \/ LinkLegacy(f) \/ WriteDurable(f) PROVE FALSE
    BY <1>1, <1>3 DEF WriteLegacy, LinkLegacy, ChangeLegacy, WriteDurable, dirVars
  <1>7. ASSUME NEW u \in Temps, Loosen(u) PROVE FALSE
    BY <1>1, <1>7 DEF Loosen, dirVars
  <1>4. CASE WriteBack
    BY <1>1, <1>4 DEF WriteBack
  <1>5. CASE PowerLoss
    BY <1>5 DEF PowerLoss, Publishes, Provenance, Kept
  <1>6. ASSUME NEW p \in Procs, Step(p)
        PROVE  /\ lock = p /\ pc[p] \in {"synced", "promote"} /\ t = work[p]
               /\ content[t].pending = None
               /\ content[t].files = inv[p] /\ content[t].ready = inv[p] /\ inv[p] \in seen
    <2>1. Rename(p) /\ t = work[p]
      BY <1>6, Lists
    <2> QED
      BY <2>1 DEF Rename, Provenance, Exclusive, Bracketed, Proven
  <1> QED
    BY <1>2, <1>3, <1>4, <1>5, <1>6, <1>7 DEF Next

(* What is published is a complete copy of one state of the legacy files.  *)
THEOREM PublishedWhole == Spec => PublishedIsWhole
  <1>1. Provenance /\ [Next]_vars => [\A t \in Temps : Publishes(t) => Snapshot(content[t])]_vars
    BY PublishedIsProven DEF Snapshot
  <1> QED
    BY <1>1, ProvenanceHolds, PTL DEF Spec, PublishedIsWhole

(* What is published is not older than the preparation that publishes it.  *)
THEOREM PublishedCurrent == Spec => PublishedIsCurrent
  <1>1. ASSUME Provenance, Next, NEW t \in Temps, Publishes(t), NEW f \in Paths
        PROVE  content[t].files[f] >= since[lock][f]
    <2> PICK p \in Procs : lock = p /\ pc[p] \in {"synced", "promote"} /\ content[t].files = inv[p]
      BY <1>1, PublishedIsProven
    <2>1. since[p][f] <= inv[p][f]
      BY <1>1 DEF Provenance, Ordered, Inventoried
    <2> QED
      BY <2>1
  <1>2. Provenance /\ [Next]_vars =>
            [\A t \in Temps : Publishes(t) => \A f \in Paths : content[t].files[f] >= since[lock][f]]_vars
    BY <1>1
  <1> QED
    BY <1>2, ProvenanceHolds, PTL DEF Spec, PublishedIsCurrent
-----------------------------------------------------------------------------
(* While the power does not fail there is one directory: a preparation     *)
(* that is about to make one has found or left none, and a destination has *)
(* lost the pending manifest of its import; that of a cohort has the other *)
(* manifest.                                                               *)
Alone ==
    /\ OneDirectory
    /\ \A p \in Procs : pc[p] \in {"removed", "make"} => \A t \in Temps : listed[t] = "absent"
    /\ \A t \in Destinations :
          /\ content[t].pending = None
          /\ ~Whole => content[t].ready \notin {None, Torn}
    /\ \A p \in Procs : pc[p] = "adopting" => Whole

(* A step of p, when no other preparation is under way.                    *)
LEMMA AloneStep ==
    ASSUME Provenance, Alone, NEW p \in Procs, Step(p)
    PROVE  Alone'
  <1> USE DEF Provenance, TypeOK, DirTypeOK, ProcTypeOK, Dir
  <1>a. \A q \in Procs \ {p} : pc[q] = "off" /\ pc'[q] = "off"
    <2>1. lock \in {p, None}
      BY Moves DEF Exclusive
    <2>2. \A q \in Procs \ {p} : pc[q] = "off"
      BY <2>1, ImportAssumption DEF Exclusive
    <2> QED
      BY <2>2, Moves
  <1>b. ASSUME UNCHANGED listed, pc'[p] \notin {"removed", "make"}, pc'[p] = "adopting" => Whole,
               \A t \in Temps : listed[t] = "dest" =>
                   /\ content'[t].pending = content[t].pending
                   /\ ~Whole => content'[t].ready = content[t].ready
        PROVE  Alone'
    BY <1>a, <1>b DEF Alone, OneDirectory, Destinations
  <1>c. ASSUME UNCHANGED <<content, listed>>, pc'[p] \notin {"removed", "make", "adopting"}
        PROVE  Alone'
    BY <1>b, <1>c
  <1>1. CASE Lock(p)
    BY <1>1, <1>c DEF Lock, dirVars, Goto
  <1>2. ASSUME NEW f \in Paths, Scan(p, f) PROVE Alone'
    BY <1>2, <1>c DEF Scan, dirVars
  <1>3. ASSUME NEW f \in Paths, CreateCopy(p, f) PROVE Alone'
    BY <1>3, <1>b DEF CreateCopy, procVars
  <1>4. ASSUME NEW f \in Paths, WriteCopy(p, f) PROVE Alone'
    BY <1>4, <1>b DEF WriteCopy, Pass, Return, Goto
  <1>5. ASSUME NEW f \in Paths, Rescan(p, f) PROVE Alone'
    BY <1>5, <1>c DEF Rescan, Pass, Return, Goto, dirVars
  <1>6. CASE Accept(p)
    BY <1>6, <1>c DEF Accept, Return, Goto, dirVars
  <1>7. CASE Adopt(p)
    BY <1>7, <1>b DEF Adopt, Adoptable, Goto
  <1>8. CASE Adopted(p)
    BY <1>8, <1>b DEF Adopted, Return, Goto, Alone
  <1>9. CASE Reject(p)
    BY <1>9, <1>c DEF Reject, dirVars, Goto
  <1>10. CASE Rejected(p)
    BY <1>10, <1>c DEF Rejected, Fail, Return, Goto, dirVars
  <1>11. CASE RecoverNothing(p)
    <2>1. \A t \in Temps : listed[t] = "absent"
      BY <1>11 DEF RecoverNothing, Recovers, Temporaries, Destinations
    <2> QED
      BY <1>a, <1>11, <2>1 DEF RecoverNothing, Pass, Goto, dirVars, Alone, OneDirectory, Destinations
  <1>12. CASE RecoverTemporary(p)
    BY <1>12, <1>c DEF RecoverTemporary, Goto, dirVars
  <1>13. CASE RecoverFails(p)
    BY <1>13, <1>c DEF RecoverFails, Fail, Return, Goto, dirVars
  <1>14. CASE RemoveEntry(p)
    BY <1>14, <1>b DEF RemoveEntry, procVars, Owned, Building
  <1>15. CASE RemoveDirectory(p)
    <2>1. \A t \in Temps : listed'[t] = "absent"
      BY <1>15 DEF RemoveDirectory, Alone, OneDirectory, Owned, Building
    <2> QED
      BY <1>a, <1>15, <2>1 DEF RemoveDirectory, Goto, Alone, OneDirectory, Destinations
  <1>16. CASE SyncRemoval(p)
    BY <1>a, <1>16 DEF SyncRemoval, Pass, Goto, Alone, OneDirectory, Destinations
  <1>17. CASE MkdirTemp(p)
    <2>1. PICK t \in Temps : listed' = [listed EXCEPT ![t] = "temp"]
      BY <1>17 DEF MkdirTemp
    <2>2. \A u \in Temps : u # t => listed'[u] = "absent"
      BY <1>17, <2>1 DEF MkdirTemp, Alone
    <2>3. listed'[t] = "temp" /\ pc'[p] = "made"
      BY <1>17, <2>1 DEF MkdirTemp, Goto
    <2> QED
      BY <1>a, <2>2, <2>3, ZenonT(40) DEF Alone, OneDirectory, Destinations
  <1>18. CASE CreatePending(p)
    BY <1>18, <1>b DEF CreatePending, Goto, Owned, Building
  <1>19. CASE WritePending(p)
    BY <1>19, <1>b DEF WritePending, Pass, Goto, Owned, Building
  <1>20. CASE Copied(p)
    BY <1>20, <1>c DEF Copied, Pass, Goto, dirVars
  <1>21. CASE CreateReady(p)
    BY <1>21, <1>b DEF CreateReady, Goto, Owned, Building
  <1>22. CASE WriteReady(p)
    BY <1>22, <1>b DEF WriteReady, Goto, Owned, Building
  <1>23. CASE RemovePending(p)
    BY <1>23, <1>b DEF RemovePending, Goto, Owned, Building
  <1>24. CASE SyncDirectories(p)
    BY <1>24, <1>c DEF SyncDirectories, Goto
  <1>25. CASE Rename(p)
    <2>1. /\ work[p] \in Temps /\ listed[work[p]] = "temp" /\ content[work[p]].pending = None
          /\ listed' = [listed EXCEPT ![work[p]] = "dest"]
          /\ content' = content /\ pc'[p] = "renamed"
      BY <1>25 DEF Rename, Goto, Owned, Building, Proven
    <2>3. content[work[p]].ready \notin {None, Torn}
      <3>1. content[work[p]].ready = inv[p] /\ inv[p] \in Versions
        BY <1>25 DEF Rename, Proven
      <3> QED
        BY <3>1, ImportAssumption DEF Versions
    <2>2. \A u \in Temps : u # work[p] => listed'[u] = "absent"
      BY <2>1 DEF Alone, OneDirectory
    <2> QED
      BY <1>a, <2>1, <2>2, <2>3, ZenonT(40) DEF Alone, OneDirectory, Destinations
  <1>26. CASE SyncRoot(p)
    BY <1>26, <1>c DEF SyncRoot, Return, Goto
  <1>27. CASE ScanFails(p)
    BY <1>27, <1>c DEF ScanFails, dirVars, Goto
  <1>28. CASE CopyFails(p)
    BY <1>28, <1>c DEF CopyFails, Fail, Return, Goto, dirVars
  <1> QED
    BY <1>1, <1>2, <1>3, <1>4, <1>5, <1>6, <1>7, <1>8, <1>9, <1>10, <1>11, <1>12, <1>13, <1>14,
       <1>15, <1>16, <1>17, <1>18, <1>19, <1>20, <1>21, <1>22, <1>23, <1>24, <1>25, <1>26,
       <1>27, <1>28 DEF Step

(* Only a power loss is counted as one.                                    *)
LEMMA StepLosesNothing ==
    ASSUME NEW p \in Procs, Step(p)
    PROVE  losses' = losses
  BY DEF Step, bounds, Lock, Scan, CreateCopy, WriteCopy, Rescan, Accept, Adopt, Adopted, Reject,
     Rejected, Fail, RecoverNothing, RecoverTemporary, RecoverFails, RemoveEntry, RemoveDirectory,
     SyncRemoval, MkdirTemp, CreatePending, WritePending, Copied, CreateReady, WriteReady,
     RemovePending, SyncDirectories, Rename, SyncRoot, ScanFails, CopyFails

LEMMA InitAlone == Init => Alone
  BY DEF Init, Alone, OneDirectory, Destinations, EmptyDir

LEMMA NextAlone ==
    Provenance /\ (losses = 0 => Alone) /\ [Next]_vars => (losses' = 0 => Alone')
  <1> SUFFICES ASSUME Provenance, losses = 0 => Alone, [Next]_vars, losses' = 0 PROVE Alone'
    OBVIOUS
  <1>1. ASSUME NEW p \in Procs, Step(p) PROVE Alone'
    BY <1>1, AloneStep, StepLosesNothing
  <1>2. ASSUME NEW p \in Procs, Stop(p) PROVE Alone'
    <2>1. Alone /\ UNCHANGED <<content, listed>> /\ \A q \in Procs : pc'[q] \in {pc[q], "off"}
      BY <1>2 DEF Stop, Return, Goto, dirVars, Provenance, TypeOK, ProcTypeOK
    <2> QED
      BY <2>1 DEF Alone, OneDirectory, Destinations
  <1>3. ASSUME NEW f \in Paths, ChangeLegacy(f) PROVE Alone'
    BY <1>3 DEF ChangeLegacy, dirVars, procVars, Alone, OneDirectory, Destinations
  <1>4. ASSUME NEW f \in Paths, WriteDurable(f) PROVE Alone'
    <2>1. /\ Alone /\ UNCHANGED <<pc, listed>>
          /\ \A t \in Temps : /\ content'[t].pending = content[t].pending
                              /\ content'[t].ready = content[t].ready
      BY <1>4 DEF WriteDurable, procVars, Provenance, TypeOK, DirTypeOK, Dir
    <2> QED
      BY <2>1 DEF Alone, OneDirectory, Destinations
  <1>5. CASE WriteBack
    BY <1>5 DEF WriteBack, procVars, bounds, Alone, OneDirectory, Destinations
  <1>6. CASE PowerLoss
    BY <1>6 DEF PowerLoss, Provenance, TypeOK, BoundsTypeOK
  <1>7. CASE UNCHANGED vars
    BY <1>7 DEF vars, dirVars, procVars, bounds, Alone, OneDirectory, Destinations
  <1>8. ASSUME NEW t \in Temps, Loosen(t) PROVE Alone'
    BY <1>8 DEF Loosen, dirVars, procVars, Alone, OneDirectory, Destinations
  <1> QED
    BY <1>1, <1>2, <1>3, <1>4, <1>5, <1>6, <1>7, <1>8 DEF Next, WriteLegacy, LinkLegacy

LEMMA AloneHolds == Spec => [](losses = 0 => Alone)
  <1>1. Init => (losses = 0 => Alone)
    BY InitAlone
  <1>2. Provenance /\ (losses = 0 => Alone) /\ [Next]_vars => (losses = 0 => Alone)'
    BY NextAlone
  <1> QED
    BY <1>1, <1>2, ProvenanceHolds, PTL DEF Spec

(* Crashes of processes never leave a second temporary, or one next to the *)
(* destination (recoverDurableImportTemporary): it takes a power loss.     *)
THEOREM DirectoryIsOne == Spec => [](losses = 0 => OneDirectory)
  <1>1. (losses = 0 => Alone) => (losses = 0 => OneDirectory)
    BY DEF Alone
  <1> QED
    BY <1>1, AloneHolds, PTL

(* A step that refuses is ScanFails or Reject.                             *)
LEMMA RefusesIs ==
    ASSUME Provenance, Next, NEW p \in Procs, Refuses(p)
    PROVE  ScanFails(p) \/ Reject(p)
  <1> USE DEF Refuses
  <1>1. ASSUME NEW q \in Procs, Step(q) PROVE ScanFails(p) \/ Reject(p)
    <2>1. q = p
      BY <1>1, Moves DEF Provenance, TypeOK, ProcTypeOK
    <2>2. pc'[p] # pc[p]
      OBVIOUS
    <2> QED
      BY <1>1, <2>1, <2>2 DEF Step, Provenance, TypeOK, ProcTypeOK, procVars, Goto, Return, Pass,
         Fail, Lock, Scan, CreateCopy, WriteCopy, Rescan, Accept, Adopt, Adopted, Rejected,
         RecoverNothing, RecoverTemporary, RecoverFails, RemoveEntry, RemoveDirectory, SyncRemoval,
         MkdirTemp, CreatePending, WritePending, Copied, CreateReady, WriteReady, RemovePending,
         SyncDirectories, Rename, SyncRoot, CopyFails
  <1>2. ASSUME UNCHANGED pc PROVE FALSE
    BY <1>2
  <1>3. ASSUME NEW q \in Procs, Stop(q) PROVE FALSE
    BY <1>3 DEF Stop, Return, Goto, Provenance, TypeOK, ProcTypeOK
  <1>4. ASSUME NEW f \in Paths, ChangeLegacy(f) \/ WriteDurable(f) PROVE FALSE
    BY <1>2, <1>4 DEF ChangeLegacy, WriteDurable, procVars
  <1>5. ASSUME NEW t \in Temps, Loosen(t) PROVE FALSE
    BY <1>2, <1>5 DEF Loosen, procVars
  <1>6. CASE WriteBack
    BY <1>2, <1>6 DEF WriteBack, procVars
  <1>7. CASE PowerLoss
    BY <1>7 DEF PowerLoss
  <1> QED
    BY <1>1, <1>3, <1>4, <1>5, <1>6, <1>7 DEF Next, WriteLegacy, LinkLegacy

(* A cohort that was published is refused only if an entry of it is not    *)
(* private and regular (validatePublishedDurableImport), or a legacy file  *)
(* is not regular (durableImportLegacyDiverged): never for the bytes of    *)
(* either, or for what an interruption left.  A power loss is excepted: it *)
(* may bring the pending manifest back.                                    *)
THEOREM CohortsWin == ~Whole => (Spec => DurableWins)
  <1> SUFFICES ASSUME ~Whole PROVE Spec => DurableWins
    OBVIOUS
  <1>1. ASSUME Provenance, losses = 0 => Alone, Next, NEW p \in Procs, losses = 0, Refuses(p)
        PROVE  linked # {} \/ Destinations \cap unsafe # {}
    <2>1. ScanFails(p) \/ Reject(p)
      BY <1>1, RefusesIs
    <2>2. CASE ScanFails(p)
      BY <2>2 DEF ScanFails
    <2>3. CASE Reject(p)
      <3>1. PICK t \in Destinations : ~Valid(t)
        BY <2>3 DEF Reject
      <3>2. content[t].pending = None /\ content[t].ready \notin {None, Torn}
        BY <1>1 DEF Alone
      <3> QED
        BY <3>1, <3>2 DEF Valid
    <2> QED
      BY <2>1, <2>2, <2>3
  <1>2. Provenance /\ (losses = 0 => Alone) /\ [Next]_vars =>
            [\A p \in Procs :
                losses = 0 /\ Refuses(p) => linked # {} \/ Destinations \cap unsafe # {}]_vars
    BY <1>1
  <1> QED
    BY <1>2, ProvenanceHolds, AloneHolds, PTL DEF Spec, DurableWins

=============================================================================
