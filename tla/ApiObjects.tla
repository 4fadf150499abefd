----------------------------- MODULE ApiObjects -----------------------------
(***************************************************************************)
(* The objects of the operator as the Kubernetes API server stores them,   *)
(* the informer caches through which the two controllers read them, and    *)
(* the work queues and in-flight reconciles of the manager process.        *)
(*                                                                         *)
(* A StoppableContainer (SC) and the StoppableContainerInstance (SCI) made *)
(* for it share one name; so do the SCI and its consumer pod.  The         *)
(* provider pod of n is called ProviderPodName[n] ("<n>-provider").        *)
(***************************************************************************)
EXTENDS Naturals

CONSTANTS Names,            \* names of StoppableContainers
          PodNames,         \* names of pods
          ProviderPodName,  \* "<n>-provider", for every name n
          Nodes,            \* cluster nodes
          None,             \* an absent object, an unassigned node
          Budget            \* how often each operation of EnvOps may happen

\* Operations whose number is bounded so that the state space is finite.
EnvOps == {"create", "toggle", "delete", "deleteInstance", "drain", "fail",
           "unready", "error", "restart"}

ASSUME NamesAssumption == Names \subseteq PodNames
ASSUME ProviderNameAssumption ==
    /\ ProviderPodName \in [Names -> PodNames]
    /\ \A m, n \in Names : ProviderPodName[m] = ProviderPodName[n] => m = n
    /\ \A n \in Names : ProviderPodName[n] # n
ASSUME BudgetAssumption == Budget \in [EnvOps -> Nat]

\* No StoppableContainer is named like the provider pod of another one
\* ("x" and "x-provider" in one namespace).
NoCollision == \A m, n \in Names : ProviderPodName[m] # n

-----------------------------------------------------------------------------
\* The empty string is the phase of an object no controller has seen yet.
Phase == {"", "Pending", "ProviderReady", "Running", "Stopped", "Failed"}

InstancePhase == {"", "Pending", "ProviderStarting", "ProviderReady",
                  "ConsumerStarting", "Running", "Stopping", "Stopped", "Failed"}

Node == Nodes \cup {None}

\* gen and obs are metadata.generation and status.observedGeneration; node
\* stands for the status fields copied from the instance.
StoppableContainer ==
    [uid : Nat, gen : Nat, running : BOOLEAN, deleting : BOOLEAN,
     finalizer : BOOLEAN, phase : Phase, obs : Nat, node : Node]

\* owner is the uid of the SC in the owner reference.
StoppableContainerInstance ==
    [uid : Nat, owner : Nat, gen : Nat, running : BOOLEAN, deleting : BOOLEAN,
     finalizer : BOOLEAN, phase : InstancePhase, obs : Nat, node : Node]

\* inst and owner are the name and the uid of the SCI in the owner reference
\* (inst is also the instance label the pod watch maps back).
Pod == [uid : Nat, inst : Names, owner : Nat, node : Node,
        status : {"NotReady", "Ready", "Failed"}, deleting : BOOLEAN]

Opt(S) == S \cup {None}

ASSUME NoneAssumption ==
    /\ None \notin StoppableContainer \cup StoppableContainerInstance \cup Pod
    /\ None \notin Nat

VARIABLES
    sc, sci, pods,         \* the API server's objects, by name
    csc, csci, cpods,      \* the informer caches, one per type
    scQueue, sciQueue,     \* keys waiting in the two work queues
    scWrite, sciWrite,     \* the status each reconcile in flight has yet to write
    nextUid,               \* the next fresh uid
    budget                 \* what is left of Budget

store  == <<sc, sci, pods>>
caches == <<csc, csci, cpods>>
queues == <<scQueue, sciQueue>>
writes == <<scWrite, sciWrite>>
vars   == <<sc, sci, pods, csc, csci, cpods, scQueue, sciQueue,
            scWrite, sciWrite, nextUid, budget>>

-----------------------------------------------------------------------------
\* DELETE on an SC or SCI: with a finalizer the object is only marked.
Deleted(o) ==
    IF o = None \/ o.deleting THEN o
    ELSE IF o.finalizer THEN [o EXCEPT !.deleting = TRUE, !.gen = @ + 1]
    ELSE None

\* DELETE on a pod: an unscheduled or finished pod goes at once, any other
\* one stays until the kubelet has stopped it.
PodDeleted(p) ==
    IF p = None \/ p.deleting THEN p
    ELSE IF p.node = None \/ p.status = "Failed" THEN None
    ELSE [p EXCEPT !.deleting = TRUE]

isPodReady(p)  == p.status = "Ready"
isPodFailed(p) == p.status = "Failed"
=============================================================================
