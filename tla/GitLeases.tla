----------------------------- MODULE GitLeases -----------------------------
(***************************************************************************)
(* Worker leases and the volumes of a Git session                          *)
(* (infrastructure/git_runtime_session.go: CreateWorkerLease,              *)
(* ReleaseWorkerLeaseWithOptions, CleanupSessionVolume; the lease files of *)
(* git_runtime_session_store.go).  A serialized lease is for the session's *)
(* own volume, a split lease for a clone of it.  A lease is a file per     *)
(* worker; a command looks at all of them, works, and writes its own.      *)
(* Several commands may run at once, and each may end at any point, by an  *)
(* error of docker or by a kill.                                           *)
(***************************************************************************)
EXTENDS Integers

CONSTANTS
    WorkerIds,  \* names workers lease under
    Procs,      \* dockpipe commands that may run at once
    Lifetimes,  \* values of TTLSeconds; 0 is no expiry
    MaxTime,    \* bound on the clock
    Base,       \* the session's volume
    None

VARIABLES
    leases,   \* the lease file of each worker, or None
    volumes,  \* docker volumes that exist
    session,  \* VolumeStatus in session.json
    cmd,      \* the command of each process
    now       \* the clock

vars == <<leases, volumes, session, cmd, now>>

Modes == {"serialized", "split-volume"}

(* A lease's identifier, and the name of a split volume, are its worker    *)
(* and the second it was made in.                                          *)
Volumes == {Base} \cup (WorkerIds \X (0..MaxTime))
Leases == [worker : WorkerIds, mode : Modes, active : BOOLEAN, volume : Volumes,
           expiresAt : 0..(2 * MaxTime)]
Idle == [op |-> "idle", lease |-> None]

TypeOK ==
    /\ leases \in [WorkerIds -> Leases \cup {None}]
    /\ volumes \subseteq Volumes
    /\ session \in {"ready", "cleaned"}
    /\ cmd \in [Procs -> [op : {"clone", "write", "apply", "release", "remove"}, lease : Leases]
                         \cup [op : {"idle", "clean", "cleaned"}, lease : {None}]]
    /\ now \in 0..MaxTime

Init ==
    /\ leases = [w \in WorkerIds |-> None]
    /\ volumes = {Base} /\ session = "ready"
    /\ cmd = [p \in Procs |-> Idle]
    /\ now = 0

-----------------------------------------------------------------------------
Goes(p, op, lease) == cmd' = [cmd EXCEPT ![p] = [op |-> op, lease |-> lease]]

Expired(lease) == lease.expiresAt # 0 /\ lease.expiresAt <= now

(* The workers whose leases count.                                         *)
Holders == {w \in WorkerIds : /\ leases[w] # None /\ leases[w].active
                              /\ ~Expired(leases[w])}

(* ensureNoConflictingWorkerLease.                                         *)
Conflicts(w, mode) ==
    \E other \in Holders \ {w} : "serialized" \in {mode, leases[other].mode}

CreateWorkerLease(p, w, mode, ttl) ==
    /\ cmd[p] = Idle
    /\ ~Conflicts(w, mode)
    /\ Goes(p, IF mode = "serialized" THEN "write" ELSE "clone",
            [worker |-> w, mode |-> mode, active |-> TRUE,
             volume |-> IF mode = "serialized" THEN Base ELSE <<w, now>>,
             expiresAt |-> IF ttl = 0 THEN 0 ELSE now + ttl])
    /\ UNCHANGED <<leases, volumes, session, now>>

(* docker makes the volumes it mounts, the source of the clone too.        *)
CloneVolume(p) ==
    /\ cmd[p].op = "clone"
    /\ volumes' = volumes \cup {Base, cmd[p].lease.volume}
    /\ Goes(p, "write", cmd[p].lease)
    /\ UNCHANGED <<leases, session, now>>

WriteLease(p) ==
    /\ cmd[p].op = "write"
    /\ leases' = [leases EXCEPT ![cmd[p].lease.worker] = cmd[p].lease]
    /\ cmd' = [cmd EXCEPT ![p] = Idle]
    /\ UNCHANGED <<volumes, session, now>>

(* A release takes any lease file, of whatever status and age.             *)
ReleaseWorkerLease(p, w, apply) ==
    /\ cmd[p] = Idle /\ leases[w] # None
    /\ Goes(p, IF apply /\ leases[w].mode = "split-volume" THEN "apply" ELSE "release", leases[w])
    /\ UNCHANGED <<leases, volumes, session, now>>

(* The diff of the clone is applied to the session's volume.               *)
ApplyVolume(p) ==
    /\ cmd[p].op = "apply"
    /\ volumes' = volumes \cup {Base, cmd[p].lease.volume}
    /\ Goes(p, "release", cmd[p].lease)
    /\ UNCHANGED <<leases, session, now>>

WriteReleased(p) ==
    /\ cmd[p].op = "release"
    /\ leases' = [leases EXCEPT ![cmd[p].lease.worker] = [cmd[p].lease EXCEPT !.active = FALSE]]
    /\ \/ cmd[p].lease.mode = "split-volume" /\ Goes(p, "remove", cmd[p].lease)
       \/ cmd[p].lease.mode = "serialized" /\ cmd' = [cmd EXCEPT ![p] = Idle]
    /\ UNCHANGED <<volumes, session, now>>

RemoveVolume(p) ==
    /\ cmd[p].op = "remove"
    /\ volumes' = volumes \ {cmd[p].lease.volume}
    /\ cmd' = [cmd EXCEPT ![p] = Idle]
    /\ UNCHANGED <<leases, session, now>>

(* preflightSessionVolumeCleanup, then the volume, then session.json.      *)
CleanupSessionVolume(p) ==
    /\ cmd[p] = Idle
    /\ Holders = {}
    /\ Goes(p, "clean", None)
    /\ UNCHANGED <<leases, volumes, session, now>>

CleanVolume(p) ==
    /\ cmd[p].op = "clean"
    /\ volumes' = volumes \ {Base}
    /\ Goes(p, "cleaned", None)
    /\ UNCHANGED <<leases, session, now>>

WriteCleaned(p) ==
    /\ cmd[p].op = "cleaned"
    /\ session' = "cleaned"
    /\ cmd' = [cmd EXCEPT ![p] = Idle]
    /\ UNCHANGED <<leases, volumes, now>>

(* An error of docker, of git or of the file system, or a kill.            *)
Ends(p) ==
    /\ cmd[p] # Idle
    /\ cmd' = [cmd EXCEPT ![p] = Idle]
    /\ \/ UNCHANGED volumes
       \/ cmd[p].op = "clone" /\ volumes' = volumes \cup {cmd[p].lease.volume}
    /\ UNCHANGED <<leases, session, now>>

Tick ==
    /\ now < MaxTime
    /\ now' = now + 1
    /\ UNCHANGED <<leases, volumes, session, cmd>>

Next ==
    \/ \E p \in Procs :
          \/ \E w \in WorkerIds, mode \in Modes, ttl \in Lifetimes : CreateWorkerLease(p, w, mode, ttl)
          \/ CloneVolume(p) \/ WriteLease(p)
          \/ \E w \in WorkerIds, apply \in BOOLEAN : ReleaseWorkerLease(p, w, apply)
          \/ ApplyVolume(p) \/ WriteReleased(p) \/ RemoveVolume(p)
          \/ CleanupSessionVolume(p) \/ CleanVolume(p) \/ WriteCleaned(p)
          \/ Ends(p)
    \/ Tick

Spec == Init /\ [][Next]_vars

-----------------------------------------------------------------------------
(* A worker with a serialized lease is the only one with a lease: nobody   *)
(* else works on the session's volume or on a clone that will be applied   *)
(* to it (ensureNoConflictingWorkerLease).                                 *)
OneWriter ==
    \A v \in Holders : leases[v].mode = "serialized" => Holders = {v}
=============================================================================
