---------------------------- MODULE RemoteLedger ----------------------------
(***************************************************************************)
(* What remote delivery promises an operator, without brokers, workers,    *)
(* files or messages: a ledger of jobs that only moves forward.  A job is  *)
(* accepted once, withdrawn or assigned to one owner, its workflow is      *)
(* started at most once and only while it is assigned, and its outcome is  *)
(* settled once and tells the truth about whether the workflow ran.        *)
(***************************************************************************)
EXTENDS RemoteContract

VARIABLES
    ledger,   \* the durable fate of each job
    runs      \* how often its workflow was started

ledgerVars == <<ledger, runs>>

Blank == [phase |-> "absent", sub |-> None, owner |-> None, outcome |-> None]

LedgerInit ==
    /\ ledger = [id \in JobIds |-> Blank]
    /\ runs = [id \in JobIds |-> 0]

Accept(id) ==
    /\ ledger[id].phase = "absent"
    /\ \E sub \in Submission :
          ledger' = [ledger EXCEPT ![id].phase = "queued", ![id].sub = sub]
    /\ UNCHANGED runs

Withdraw(id) ==
    /\ ledger[id].phase = "queued"
    /\ ledger' = [ledger EXCEPT ![id].phase = "withdrawn"]
    /\ UNCHANGED runs

(* A node with an assigned job, or with one settled as unknown, gets no    *)
(* other job.                                                              *)
Blocks(entry, node) ==
    /\ entry.phase \in {"assigned", "settled"}
    /\ entry.sub.node = node
    /\ entry.phase = "settled" => entry.outcome.status = "unknown"

Assign(id) ==
    /\ ledger[id].phase = "queued"
    /\ \A other \in JobIds : ~Blocks(ledger[other], ledger[id].sub.node)
    /\ \E s \in Sessions :
          ledger' = [ledger EXCEPT ![id].phase = "assigned", ![id].owner = s]
    /\ UNCHANGED runs

Start(id) ==
    /\ ledger[id].phase = "assigned"
    /\ runs[id] = 0
    /\ runs' = [runs EXCEPT ![id] = 1]
    /\ UNCHANGED ledger

(* An outcome that reports on an execution needs one, an outcome that      *)
(* reports none excludes it; unknown says nothing.                         *)
Truthful(id, outcome) ==
    /\ outcome.cause \in Executed => runs[id] = 1
    /\ outcome.cause = "skipped" => runs[id] = 0

Settle(id) ==
    /\ ledger[id].phase = "assigned"
    /\ \E r \in Result :
          /\ Truthful(id, r)
          /\ ledger' = [ledger EXCEPT ![id].phase = "settled", ![id].outcome = r]
    /\ UNCHANGED runs

LedgerNext ==
    \E id \in JobIds :
        Accept(id) \/ Withdraw(id) \/ Assign(id) \/ Start(id) \/ Settle(id)

LedgerSpec == LedgerInit /\ [][LedgerNext]_ledgerVars

=============================================================================
