--------------------------- MODULE MCWorkflowSteps ---------------------------
(***************************************************************************)
(* Instances of WorkflowSteps for TLC: small workflows that between them   *)
(* have every kind of step, an async batch, a packaged workflow with       *)
(* finally steps of its own, and values that collide.                      *)
(***************************************************************************)
EXTENDS WorkflowSteps, TLC

CONSTANTS k1, k2, k3, v1, v2, p1, p2, p3

Unset == k1 :> None @@ k2 :> None @@ k3 :> None
Blank(id, kind, outputs) ==
    [id |-> id, kind |-> kind, blocking |-> TRUE, vars |-> Unset, inputs |-> Unset,
     exports |-> Unset, writes |-> Unset, source |-> "source", artifacts |-> "artifacts",
     outputs |-> outputs, child |-> None]
Async(step) == [step EXCEPT !.blocking = FALSE]

(* --var and --env both set k3.                                            *)
LockK3 == k3 :> v1 @@ Unset
ExtraK3 == k3 :> v2 @@ Unset

First == [Blank("first", "container", p1) EXCEPT !.vars[k1] = v1, !.writes[k2] = v1]
HostMember == [Async(Blank("a", "host", p1)) EXCEPT !.vars[k1] = v2, !.writes[k1] = v2]
ContainerMember ==
    [Async(Blank("b", "container", p2)) EXCEPT
        !.exports[k2] = v2, !.writes = k1 :> v1 @@ k2 :> Empty @@ Unset]
SilentMember == Async(Blank("c", "container", p3))
Down == [Blank("down", "container", p1) EXCEPT !.writes[k3] = v2]

Child ==
    [steps |-> <<[Blank("inner", "container", p1) EXCEPT !.writes[k1] = v2]>>,
     finally |-> <<Blank("innerDown", "host", p1)>>, vars |-> [Unset EXCEPT ![k1] = v2]]
Package ==
    [Blank("package", "package", p1) EXCEPT !.inputs[k1] = v1, !.child = Child]
Last == [Blank("last", "host", p2) EXCEPT !.exports[k1] = v2]

(* A step, a batch, and a step that writes nothing.                        *)
Parallel ==
    [steps |-> <<First, HostMember, ContainerMember, Last>>, finally |-> <<Down>>, vars |-> Unset]

(* A packaged workflow between two steps.                                  *)
Nesting ==
    [steps |-> <<First, Package, Last>>, finally |-> <<Down>>, vars |-> [Unset EXCEPT ![k2] = v2]]

(* A batch to begin with, and one in the finally steps.                    *)
Batches ==
    [steps |-> <<HostMember, ContainerMember, SilentMember>>,
     finally |-> <<Async(Down), Async(Blank("down2", "host", p2))>>, vars |-> Unset]

(* A batch whose members share an outputs file.                            *)
Clashing ==
    [steps |-> <<HostMember, [ContainerMember EXCEPT !.outputs = p1]>>,
     finally |-> <<Down>>, vars |-> Unset]

AllWorkflows == {Parallel, Nesting, Batches, Clashing}

(* What the theorems about these workflows suppose of them.                *)
ASSUME WorkflowConditions ==
    Workflows = AllWorkflows => NamesApart /\ TeardownsAgree /\ Unscoped

(* One member keeps its artifacts with the sources.                        *)
ScopedBatch ==
    {[Parallel EXCEPT !.steps[2].artifacts = "source"]}
=============================================================================
