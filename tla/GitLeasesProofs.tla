-------------------------- MODULE GitLeasesProofs --------------------------
(***************************************************************************)
(* Commands that run one at a time keep the leases of a session apart, for *)
(* any number of workers and lifetimes, and wherever a command ends        *)
(* early.  So the check before a lease is right, and what breaks it is     *)
(* only that nothing is held between the check and the write.              *)
(***************************************************************************)
EXTENDS GitLeases, TLAPS

(* The leases a command may write.                                         *)
Lease == [worker : WorkerIds, mode : Modes, active : BOOLEAN,
          volume : {Base} \cup (WorkerIds \X Nat), expiresAt : Nat]

Typing ==
    /\ now \in Nat
    /\ leases \in [WorkerIds -> Lease \cup {None}]
    /\ DOMAIN cmd = Procs
    /\ \A p \in Procs : cmd[p].op \in {"clone", "write", "apply", "release", "remove"} =>
          cmd[p].lease \in Lease

(* A lease that is about to be written is still compatible with the rest.  *)
Fits(lease) ==
    \A other \in Holders \ {lease.worker} :
        lease.mode # "serialized" /\ leases[other].mode # "serialized"
PendingFits == \A p \in Procs : cmd[p].op \in {"clone", "write"} => Fits(cmd[p].lease)

Inv == Typing /\ OneWriter /\ PendingFits

-----------------------------------------------------------------------------
(* Fewer holders of the same leases.                                       *)
Fewer == \A w \in WorkerIds : w \in Holders' => w \in Holders /\ leases'[w] = leases[w]

LEMMA FewerKeeps ==
    ASSUME OneWriter, Fewer
    PROVE  OneWriter' /\ \A lease : Fits(lease) => Fits(lease)'
  <1>1. Holders' \subseteq Holders /\ \A w \in Holders' : leases'[w] = leases[w]
    BY DEF Fewer, Holders
  <1>2. OneWriter'
    BY <1>1 DEF OneWriter
  <1>3. ASSUME NEW lease, Fits(lease) PROVE Fits(lease)'
    BY <1>1, <1>3 DEF Fits
  <1> QED
    BY <1>2, <1>3

LEMMA SameHolders == ASSUME UNCHANGED <<leases, now>> PROVE Fewer
  BY DEF Fewer, Holders, Expired

LEMMA TickFewer == ASSUME Typing, Tick PROVE Fewer
  <1>1. now \in Nat /\ now' = now + 1 /\ leases' = leases
    BY DEF Typing, Tick
  <1>2. ASSUME NEW w \in WorkerIds, leases[w] # None, Expired(leases[w]) PROVE Expired(leases[w])'
    <2>1. leases[w].expiresAt \in Nat
      BY <1>2 DEF Typing, Lease
    <2> QED
      BY <1>1, <1>2, <2>1 DEF Expired
  <1> QED
    BY <1>1, <1>2 DEF Fewer, Holders

(* Steps that only move a command.                                         *)
LEMMA CommandStep ==
    ASSUME Inv, NEW p \in Procs, UNCHANGED <<leases, now>>,
           DOMAIN cmd' = Procs, \A q \in Procs \ {p} : cmd'[q] = cmd[q],
           \/ cmd'[p].op \in {"idle", "clean", "cleaned"}
           \/ cmd'[p].lease \in Lease /\ (cmd'[p].op \in {"clone", "write"} => Fits(cmd'[p].lease))
    PROVE  Inv'
  <1>1. OneWriter' /\ \A lease : Fits(lease) => Fits(lease)'
    BY SameHolders, FewerKeeps DEF Inv
  <1>2. Typing'
    BY DEF Inv, Typing
  <1>3. ASSUME NEW q \in Procs, cmd'[q].op \in {"clone", "write"} PROVE Fits(cmd'[q].lease)
    BY <1>3 DEF Inv, PendingFits
  <1>4. PendingFits'
    <2> SUFFICES ASSUME NEW q \in Procs, cmd'[q].op \in {"clone", "write"}
                 PROVE  Fits(cmd[q].lease)'
      BY DEF PendingFits
    <2>1. PICK lease : lease = cmd'[q].lease
      OBVIOUS
    <2>2. Fits(lease)'
      BY <1>1, <1>3, <2>1
    <2> QED
      BY <2>1, <2>2
  <1> QED
    BY <1>1, <1>2, <1>4 DEF Inv

LEMMA CreateStep ==
    ASSUME Inv, NEW p \in Procs, NEW w \in WorkerIds, NEW mode \in Modes, NEW ttl \in Nat,
           CreateWorkerLease(p, w, mode, ttl)
    PROVE  Inv'
  <1> DEFINE lease == [worker |-> w, mode |-> mode, active |-> TRUE,
                       volume |-> IF mode = "serialized" THEN Base ELSE <<w, now>>,
                       expiresAt |-> IF ttl = 0 THEN 0 ELSE now + ttl]
  <1>1. lease \in Lease
    BY DEF Inv, Typing, Lease
  <1>2. Fits(lease)
    BY DEF CreateWorkerLease, Conflicts, Fits
  <1>3. /\ DOMAIN cmd' = Procs /\ \A q \in Procs \ {p} : cmd'[q] = cmd[q]
        /\ cmd'[p].lease = lease /\ UNCHANGED <<leases, now>>
    BY DEF CreateWorkerLease, Goes, Inv, Typing
  <1> HIDE DEF lease
  <1> QED
    BY <1>1, <1>2, <1>3, CommandStep

LEMMA MovingStep ==
    ASSUME Inv, NEW p \in Procs,
           \/ CloneVolume(p) \/ (\E w \in WorkerIds, apply \in BOOLEAN : ReleaseWorkerLease(p, w, apply))
           \/ ApplyVolume(p) \/ RemoveVolume(p)
           \/ CleanupSessionVolume(p) \/ CleanVolume(p) \/ WriteCleaned(p) \/ Ends(p)
    PROVE  Inv'
  <1>1. UNCHANGED <<leases, now>> /\ DOMAIN cmd' = Procs /\ \A q \in Procs \ {p} : cmd'[q] = cmd[q]
    BY DEF CloneVolume, ReleaseWorkerLease, ApplyVolume, RemoveVolume, CleanupSessionVolume,
           CleanVolume, WriteCleaned, Ends, Goes, Inv, Typing
  <1>2. CASE CloneVolume(p)
    <2>1. cmd'[p].lease = cmd[p].lease /\ cmd[p].lease \in Lease /\ Fits(cmd[p].lease)
      BY <1>2 DEF CloneVolume, Goes, Inv, Typing, PendingFits
    <2> QED
      BY <1>1, <2>1, CommandStep
  <1>3. ASSUME NEW w \in WorkerIds, NEW apply \in BOOLEAN, ReleaseWorkerLease(p, w, apply)
        PROVE  Inv'
    <2>1. cmd'[p].lease = leases[w] /\ leases[w] \in Lease /\ cmd'[p].op \in {"apply", "release"}
      BY <1>3 DEF ReleaseWorkerLease, Goes, Inv, Typing
    <2> QED
      BY <1>1, <2>1, CommandStep
  <1>4. CASE ApplyVolume(p)
    <2>1. cmd'[p].lease = cmd[p].lease /\ cmd[p].lease \in Lease /\ cmd'[p].op = "release"
      BY <1>4 DEF ApplyVolume, Goes, Inv, Typing
    <2> QED
      BY <1>1, <2>1, CommandStep
  <1>5. CASE \/ RemoveVolume(p) \/ CleanupSessionVolume(p) \/ CleanVolume(p) \/ WriteCleaned(p)
             \/ Ends(p)
    <2>1. cmd'[p].op \in {"idle", "clean", "cleaned"}
      BY <1>5 DEF RemoveVolume, CleanupSessionVolume, CleanVolume, WriteCleaned, Ends, Idle, Goes,
                  Inv, Typing
    <2> QED
      BY <1>1, <2>1, CommandStep
  <1> QED
    BY <1>2, <1>3, <1>4, <1>5

LEMMA ReleasedStep ==
    ASSUME Inv, NEW p \in Procs, WriteReleased(p)
    PROVE  Inv'
  <1>1. cmd[p].lease \in Lease /\ cmd[p].op = "release"
    BY DEF WriteReleased, Inv, Typing
  <1>2. PICK w \in WorkerIds : w = cmd[p].lease.worker
    BY <1>1 DEF Lease
  <1>3. [cmd[p].lease EXCEPT !.active = FALSE] \in Lease
    BY <1>1 DEF Lease
  <1>4. /\ leases' = [leases EXCEPT ![w] = [cmd[p].lease EXCEPT !.active = FALSE]]
        /\ now' = now /\ ~leases'[w].active
    BY <1>1, <1>2 DEF WriteReleased, Inv, Typing, Lease
  <1>5. Fewer
    BY <1>4 DEF Inv, Typing, Fewer, Holders, Expired
  <1>6. /\ DOMAIN cmd' = Procs /\ \A q \in Procs \ {p} : cmd'[q] = cmd[q]
        /\ cmd'[p].op \in {"idle", "remove"}
        /\ cmd'[p].op = "remove" => cmd'[p].lease = cmd[p].lease
    BY DEF WriteReleased, Goes, Idle, Inv, Typing
  <1>7. Typing'
    BY <1>1, <1>3, <1>4, <1>6 DEF Inv, Typing
  <1>8. OneWriter' /\ \A lease : Fits(lease) => Fits(lease)'
    BY <1>5, FewerKeeps DEF Inv
  <1>9. PendingFits'
    <2> SUFFICES ASSUME NEW q \in Procs, cmd'[q].op \in {"clone", "write"}
                 PROVE  Fits(cmd[q].lease)'
      BY DEF PendingFits
    <2>1. PICK lease : lease = cmd[q].lease
      OBVIOUS
    <2>2. cmd'[q].lease = lease /\ Fits(lease)
      BY <1>6, <2>1 DEF Inv, PendingFits
    <2> QED
      BY <1>8, <2>2
  <1> QED
    BY <1>7, <1>8, <1>9 DEF Inv

(* The one step that adds a holder: nobody else is about to.               *)
LEMMA WriteStep ==
    ASSUME Inv, NEW p \in Procs, \A q \in Procs : q = p, WriteLease(p)
    PROVE  Inv'
  <1>1. cmd[p].lease \in Lease /\ Fits(cmd[p].lease)
    BY DEF WriteLease, Inv, Typing, PendingFits
  <1>2. PICK w \in WorkerIds : w = cmd[p].lease.worker
    BY <1>1 DEF Lease
  <1>3. leases' = [leases EXCEPT ![w] = cmd[p].lease] /\ now' = now
        /\ DOMAIN cmd' = Procs /\ cmd'[p].op = "idle"
    BY <1>2 DEF WriteLease, Idle, Inv, Typing
  <1>4. Typing' /\ PendingFits'
    BY <1>1, <1>3 DEF Inv, Typing, PendingFits
  <1>5. \A v \in WorkerIds \ {w} : leases'[v] = leases[v] /\ (v \in Holders' => v \in Holders)
    BY <1>3 DEF Inv, Typing, Holders, Expired
  <1>6. leases'[w].mode = cmd[p].lease.mode
    BY <1>3 DEF Inv, Typing
  <1>7. Holders' \subseteq WorkerIds
    BY DEF Holders
  <1>8. ASSUME NEW v \in Holders', leases'[v].mode = "serialized" PROVE Holders' = {v}
    <2>1. CASE v = w
      BY <1>1, <1>2, <1>5, <1>6, <1>7, <1>8, <2>1 DEF Fits
    <2>2. CASE v # w
      BY <1>1, <1>2, <1>5, <1>7, <1>8, <2>2 DEF Fits
    <2> QED
      BY <2>1, <2>2
  <1> QED
    BY <1>4, <1>8 DEF Inv, OneWriter

LEMMA StillStep == ASSUME Inv, Fewer, UNCHANGED <<leases, cmd>>, now' \in Nat PROVE Inv'
  <1>1. OneWriter' /\ \A lease : Fits(lease) => Fits(lease)'
    BY FewerKeeps DEF Inv
  <1>2. PendingFits'
    <2> SUFFICES ASSUME NEW q \in Procs, cmd[q].op \in {"clone", "write"}
                 PROVE  Fits(cmd[q].lease)'
      BY DEF PendingFits
    <2>1. PICK lease : lease = cmd[q].lease
      OBVIOUS
    <2> QED
      BY <1>1, <2>1 DEF Inv, PendingFits
  <1> QED
    BY <1>1, <1>2 DEF Inv, Typing

(* With one command at a time, a serialized lease excludes all others      *)
(* (ensureNoConflictingWorkerLease).                                       *)
THEOREM SerialCommandsKeepOneWriter ==
    ASSUME \A p, q \in Procs : p = q, Lifetimes \subseteq Nat
    PROVE  Spec => []OneWriter
  <1>1. Init => Inv
    <2> SUFFICES ASSUME Init PROVE Inv
      OBVIOUS
    <2>1. Typing
      BY DEF Init, Typing, Idle
    <2> QED
      BY <2>1 DEF Init, Inv, OneWriter, Holders, PendingFits, Idle
  <1>2. Inv /\ [Next]_vars => Inv'
    <2> SUFFICES ASSUME Inv, [Next]_vars PROVE Inv'
      OBVIOUS
    <2>1. CASE Tick
      BY <2>1, TickFewer, StillStep DEF Inv, Typing, Tick
    <2>2. CASE UNCHANGED vars
      BY <2>2, SameHolders, StillStep DEF Inv, Typing, vars
    <2>3. ASSUME NEW p \in Procs, WriteLease(p) PROVE Inv'
      BY <2>3, WriteStep
    <2> QED
      BY <2>1, <2>2, <2>3, CreateStep, MovingStep, ReleasedStep DEF Next
  <1>3. Inv => OneWriter
    BY DEF Inv
  <1> QED
    BY <1>1, <1>2, <1>3, PTL DEF Spec
=============================================================================
