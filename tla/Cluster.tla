------------------------------ MODULE Cluster -------------------------------
(***************************************************************************)
(* Everything around the two reconcilers: the user (kubectl, kubectl-sc),  *)
(* the informers and event handlers of the manager process, and the parts  *)
(* of Kubernetes the controllers rely on: scheduler, kubelets, garbage     *)
(* collector, eviction.  Apart from the event handlers and the manager's   *)
(* start this is external code, modelled from how the controllers use it.  *)
(***************************************************************************)
EXTENDS ApiObjects

Spend(op) ==
    /\ budget[op] > 0
    /\ budget' = [budget EXCEPT ![op] = @ - 1]

----------------------------------------------------------------- \* The user
NewContainer(run) ==
    [uid |-> nextUid, gen |-> 1, running |-> run, deleting |-> FALSE,
     finalizer |-> FALSE, phase |-> "", obs |-> 0, node |-> None]

UserCreate(n, run) ==
    /\ sc[n] = None
    /\ Spend("create")
    /\ sc' = [sc EXCEPT ![n] = NewContainer(run)]
    /\ nextUid' = nextUid + 1
    /\ UNCHANGED <<sci, pods, caches, queues, writes>>

\* kubectl sc start / stop: spec.running is changed.
Toggled(o) == [o EXCEPT !.running = ~@, !.gen = @ + 1]

UserToggle(n) ==
    /\ sc[n] # None
    /\ Spend("toggle")
    /\ sc' = [sc EXCEPT ![n] = Toggled(@)]
    /\ UNCHANGED <<sci, pods, caches, queues, writes, nextUid>>

UserDelete(n) ==
    /\ sc[n] # None /\ ~sc[n].deleting
    /\ Spend("delete")
    /\ sc' = [sc EXCEPT ![n] = Deleted(@)]
    /\ UNCHANGED <<sci, pods, caches, queues, writes, nextUid>>

\* The documented way out of a stuck instance.
UserDeleteInstance(n) ==
    /\ sci[n] # None /\ ~sci[n].deleting
    /\ Spend("deleteInstance")
    /\ sci' = [sci EXCEPT ![n] = Deleted(@)]
    /\ UNCHANGED <<sc, pods, caches, queues, writes, nextUid>>

------------------------------------------------ \* Informers of the manager
\* For(SC): a changed SC is queued under its own name.
SyncSC ==
    /\ csc # sc
    /\ csc' = sc
    /\ scQueue' = [n \in Names |-> scQueue[n] \/ csc[n] # sc[n]]
    /\ UNCHANGED <<store, csci, cpods, sciQueue, writes, nextUid, budget>>

\* Mutant: the SC controller does not watch instances.
SyncSCIOwnOnly ==
    /\ csci # sci
    /\ csci' = sci
    /\ sciQueue' = [n \in Names |-> sciQueue[n] \/ csci[n] # sci[n]]
    /\ UNCHANGED <<store, csc, cpods, scQueue, writes, nextUid, budget>>

\* For(SCI), and Owns(SCI) with Watches(SCI) of the SC controller.
SyncSCI ==
    /\ csci # sci
    /\ csci' = sci
    /\ scQueue'  = [n \in Names |-> scQueue[n] \/ csci[n] # sci[n]]
    /\ sciQueue' = [n \in Names |-> sciQueue[n] \/ csci[n] # sci[n]]
    /\ UNCHANGED <<store, csc, cpods, writes, nextUid, budget>>

\* Mutant: the deletion of a pod is not noticed.
NewPodInstances(p) == {o.inst : o \in {pods[p]} \ {None}}

\* Owns(Pod) and Watches(Pod) by label: the old and the new owner are queued.
PodInstances(p) == {o.inst : o \in {pods[p], cpods[p]} \ {None}}

SyncPods ==
    /\ cpods # pods
    /\ cpods' = pods
    /\ sciQueue' = [n \in Names |->
           sciQueue[n] \/ \E p \in PodNames : cpods[p] # pods[p]
                                              /\ n \in PodInstances(p)]
    /\ UNCHANGED <<store, csc, csci, scQueue, writes, nextUid, budget>>

\* The manager dies and a new one takes over: the caches are listed again and
\* every object that exists is queued; what was in flight is lost.
ManagerRestart ==
    /\ Spend("restart")
    /\ csc' = sc /\ csci' = sci /\ cpods' = pods
    /\ scQueue'  = [n \in Names |-> sc[n] # None \/ sci[n] # None]
    /\ sciQueue' = [n \in Names |-> sci[n] # None \/
                      \E p \in PodNames : pods[p] # None /\ pods[p].inst = n]
    /\ scWrite' = None /\ sciWrite' = None
    /\ UNCHANGED <<store, nextUid>>

------------------------------------------- \* Scheduler, kubelet, eviction
SetPod(p, pod) ==
    /\ pods' = [pods EXCEPT ![p] = pod]
    /\ UNCHANGED <<sc, sci, caches, queues, writes, nextUid>>

SchedulePod(p, node) ==
    /\ pods[p] # None /\ pods[p].node = None
    /\ SetPod(p, [pods[p] EXCEPT !.node = node])
    /\ UNCHANGED budget

PodBecomesReady(p) ==
    /\ pods[p] # None /\ pods[p].node # None /\ ~pods[p].deleting
    /\ pods[p].status = "NotReady"
    /\ SetPod(p, [pods[p] EXCEPT !.status = "Ready"])
    /\ UNCHANGED budget

\* A probe fails or a container restarts.
PodBecomesUnready(p) ==
    /\ pods[p] # None /\ pods[p].status = "Ready"
    /\ Spend("unready")
    /\ SetPod(p, [pods[p] EXCEPT !.status = "NotReady"])

\* Node-pressure eviction: the pod object stays, with phase Failed.
PodFails(p) ==
    /\ pods[p] # None /\ pods[p].node # None /\ pods[p].status # "Failed"
    /\ Spend("fail")
    /\ SetPod(p, [pods[p] EXCEPT !.status = "Failed"])

\* kubectl drain, the eviction API, a user's kubectl delete pod.
DrainPod(p) ==
    /\ pods[p] # None /\ ~pods[p].deleting
    /\ Spend("drain")
    /\ SetPod(p, PodDeleted(pods[p]))

\* The kubelet has stopped a pod that was marked for deletion.
PodGone(p) ==
    /\ pods[p] # None /\ pods[p].deleting
    /\ SetPod(p, None)
    /\ UNCHANGED budget

---------------------------------------------------- \* Garbage collector
\* Mutant: the SCI has no owner reference.
InstanceUnowned(n) == sci[n] = None /\ sci[n] # None

\* An SCI whose owner reference names an SC uid that is gone.
InstanceOrphaned(n) ==
    sci[n] # None /\ (sc[n] # None => sc[n].uid # sci[n].owner)

CollectInstance(n) ==
    /\ InstanceOrphaned(n) /\ ~sci[n].deleting
    /\ sci' = [sci EXCEPT ![n] = Deleted(@)]
    /\ UNCHANGED <<sc, pods, caches, queues, writes, nextUid, budget>>

PodOrphaned(p) ==
    /\ pods[p] # None
    /\ LET i == sci[pods[p].inst] IN i # None => i.uid # pods[p].owner

CollectPod(p) ==
    /\ PodOrphaned(p) /\ ~pods[p].deleting
    /\ SetPod(p, PodDeleted(pods[p]))
    /\ UNCHANGED budget
=============================================================================
