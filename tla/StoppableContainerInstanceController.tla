---------------- MODULE StoppableContainerInstanceController ----------------
(***************************************************************************)
(* The reconciler of StoppableContainerInstances                           *)
(* (internal/controller/stoppablecontainerinstance_controller.go): it owns *)
(* the provider pod, which holds the root filesystem, and the consumer     *)
(* pod, which runs in it.  Steps and conflicts are as in                   *)
(* StoppableContainerController.                                           *)
(***************************************************************************)
EXTENDS ApiObjects

\* The status write still to come, with the SCI as it was read.
SciWrite == [name : Names, sci : StoppableContainerInstance,
             phase : InstancePhase, node : Node]

ASSUME SciWriteAssumption == None \notin SciWrite

SciTakes(n) == sciWrite = None /\ sciQueue[n]

SciReturns(n, again) ==
    /\ sciQueue' = [sciQueue EXCEPT ![n] = again]
    /\ sciWrite' = None

\* The two pods of n, as read from the cache.
Provider(n) == cpods[ProviderPodName[n]]
Consumer(n) == cpods[n]

SciIgnore(n) ==
    /\ SciTakes(n)
    /\ csci[n] # None => csci[n].deleting /\ ~csci[n].finalizer
    /\ SciReturns(n, FALSE)
    /\ UNCHANGED <<store, caches, scQueue, scWrite, nextUid, budget>>

\* Mutant: an instance is taken down as soon as its SC is gone.
SciDeletingWithOwner(n) ==
    /\ SciTakes(n) /\ csci[n] # None /\ csci[n].finalizer
    /\ csci[n].deleting \/ csc[n] = None

SciDeleting(n) ==
    SciTakes(n) /\ csci[n] # None /\ csci[n].deleting /\ csci[n].finalizer

\* Deletion: first the consumer, by name, and come back ...
SciDeleteConsumer(n) ==
    /\ SciDeleting(n) /\ Consumer(n) # None
    /\ pods' = [pods EXCEPT ![n] = PodDeleted(@)]
    /\ SciReturns(n, TRUE)
    /\ UNCHANGED <<sc, sci, caches, scQueue, scWrite, nextUid, budget>>

\* ... then the provider, once no consumer is in the cache ...
SciDeleteProvider(n) ==
    /\ SciDeleting(n) /\ Consumer(n) = None /\ Provider(n) # None
    /\ pods' = [pods EXCEPT ![ProviderPodName[n]] = PodDeleted(@)]
    /\ SciReturns(n, TRUE)
    /\ UNCHANGED <<sc, sci, caches, scQueue, scWrite, nextUid, budget>>

\* Mutant: the finalizer goes as soon as the cache has no consumer.
SciRemoveFinalizerEarly(n) ==
    /\ SciDeleting(n) /\ Consumer(n) = None
    /\ sci' = IF sci[n] = csci[n] THEN [sci EXCEPT ![n] = None] ELSE sci
    /\ SciReturns(n, sci[n] # csci[n])
    /\ UNCHANGED <<sc, pods, caches, scQueue, scWrite, nextUid, budget>>

\* ... then the finalizer, and the API server drops the object.
SciRemoveFinalizer(n) ==
    /\ SciDeleting(n) /\ Consumer(n) = None /\ Provider(n) = None
    /\ sci' = IF sci[n] = csci[n] THEN [sci EXCEPT ![n] = None] ELSE sci
    /\ SciReturns(n, sci[n] # csci[n])
    /\ UNCHANGED <<sc, pods, caches, scQueue, scWrite, nextUid, budget>>

SciAddFinalizer(n) ==
    /\ SciTakes(n) /\ csci[n] # None /\ ~csci[n].deleting /\ ~csci[n].finalizer
    /\ sci' = IF sci[n] = csci[n] THEN [sci EXCEPT ![n] = [@ EXCEPT !.finalizer = TRUE]] ELSE sci
    /\ SciReturns(n, TRUE)
    /\ UNCHANGED <<sc, pods, caches, scQueue, scWrite, nextUid, budget>>

SciActive(n) ==
    SciTakes(n) /\ csci[n] # None /\ ~csci[n].deleting /\ csci[n].finalizer

SciStatusPending(n, phase, node) ==
    /\ sciQueue' = [sciQueue EXCEPT ![n] = FALSE]
    /\ sciWrite' = [name |-> n, sci |-> csci[n], phase |-> phase, node |-> node]

\* Both pods name the SCI, as read, as their owner.
NewPod(n, node) ==
    [uid |-> nextUid, inst |-> n, owner |-> csci[n].uid, node |-> node,
     status |-> "NotReady", deleting |-> FALSE]

\* r.Create of the pod p, then updatePhase(phase).
SciCreatePod(n, p, node, phase, statusNode) ==
    /\ \/ /\ pods[p] # None                        \* AlreadyExists
          /\ SciReturns(n, TRUE)
          /\ UNCHANGED <<pods, nextUid>>
       \/ /\ pods[p] = None
          /\ pods' = [pods EXCEPT ![p] = NewPod(n, node)]
          /\ nextUid' = nextUid + 1
          /\ SciStatusPending(n, phase, statusNode)
    /\ UNCHANGED <<sc, sci, caches, scQueue, scWrite, budget>>

\* The scheduler places the provider.
createProviderPod(n) ==
    /\ SciActive(n) /\ Provider(n) = None
    /\ SciCreatePod(n, ProviderPodName[n], None, "ProviderStarting", csci[n].node)

ProviderUp(n) == SciActive(n) /\ Provider(n) # None /\ isPodReady(Provider(n))

\* Mutant: the consumer goes to the node in the status.
createConsumerPodByStatus(n) ==
    /\ ProviderUp(n) /\ csci[n].running /\ Consumer(n) = None
    /\ Provider(n).node # None
    /\ SciCreatePod(n, n, csci[n].node, "ConsumerStarting", Provider(n).node)

\* Mutant: the status decides instead of spec.running.
createConsumerPodUnlessStopped(n) ==
    /\ ProviderUp(n) /\ csci[n].phase # "Stopped" /\ Consumer(n) = None
    /\ Provider(n).node # None
    /\ SciCreatePod(n, n, Provider(n).node, "ConsumerStarting", Provider(n).node)

\* The consumer goes to the node the provider was read on.
createConsumerPod(n) ==
    /\ ProviderUp(n) /\ csci[n].running /\ Consumer(n) = None
    /\ Provider(n).node # None
    /\ SciCreatePod(n, n, Provider(n).node, "ConsumerStarting", Provider(n).node)

\* Mutant: stopping deletes the provider.
SciStopProvider(n) ==
    /\ ProviderUp(n) /\ ~csci[n].running /\ Consumer(n) # None
    /\ pods' = [pods EXCEPT ![ProviderPodName[n]] = PodDeleted(@)]
    /\ SciStatusPending(n, "Stopping", Provider(n).node)
    /\ UNCHANGED <<sc, sci, caches, scQueue, scWrite, nextUid, budget>>

\* Not to be running: DELETE the consumer, then updatePhase(Stopping).
SciStopConsumer(n) ==
    /\ ProviderUp(n) /\ ~csci[n].running /\ Consumer(n) # None
    /\ pods' = [pods EXCEPT ![n] = PodDeleted(@)]
    /\ SciStatusPending(n, "Stopping", Provider(n).node)
    /\ UNCHANGED <<sc, sci, caches, scQueue, scWrite, nextUid, budget>>

\* A phase after which the reconciler waits for events only.
SciSettled(phase) == phase \in {"Running", "Stopped", "Failed"}

\* Mutant: the status is patched into whatever SCI is stored by now.
updatePhaseUnchecked(n, read, phase, node, woken) ==
    /\ sci' = IF sci[n] # None
              THEN [sci EXCEPT ![n] = [@ EXCEPT !.phase = phase, !.node = node,
                                                !.obs = sci[n].gen]]
              ELSE sci
    /\ SciReturns(n, woken \/ ~SciSettled(phase))
    /\ UNCHANGED <<sc, pods, caches, scQueue, scWrite, nextUid, budget>>

\* The status write of updatePhase: the SCI as read, unless it changed.  woken
\* says that n was queued again since the reconcile began.
updatePhase(n, read, phase, node, woken) ==
    /\ sci' = IF sci[n] = read
              THEN [sci EXCEPT ![n] = [read EXCEPT !.phase = phase, !.node = node,
                                                   !.obs = read.gen]]
              ELSE sci
    /\ SciReturns(n, woken \/ sci[n] # read \/ ~SciSettled(phase))
    /\ UNCHANGED <<sc, pods, caches, scQueue, scWrite, nextUid, budget>>

SciWaitForProvider(n) ==
    /\ SciActive(n) /\ Provider(n) # None /\ ~isPodReady(Provider(n))
    /\ updatePhase(n, csci[n], "ProviderStarting", csci[n].node, FALSE)

SciStopped(n) ==
    /\ ProviderUp(n) /\ ~csci[n].running /\ Consumer(n) = None
    /\ updatePhase(n, csci[n], "Stopped", Provider(n).node, FALSE)

\* The phase shown while the instance runs, from its consumer.
RunningPhase(pod) ==
    IF isPodFailed(pod) THEN "Failed"
    ELSE IF isPodReady(pod) THEN "Running"
    ELSE "ConsumerStarting"

SciReportConsumer(n) ==
    /\ ProviderUp(n) /\ csci[n].running /\ Consumer(n) # None
    /\ updatePhase(n, csci[n], RunningPhase(Consumer(n)), Provider(n).node,
                   FALSE)

\* The updatePhase that follows a pod's creation or deletion.
SciWriteStatus(n) ==
    /\ sciWrite # None /\ sciWrite.name = n
    /\ updatePhase(n, sciWrite.sci, sciWrite.phase, sciWrite.node,
                   sciQueue[n])

\* The API call fails: the status is not written and the key is put back.
SciError(n) ==
    /\ sciWrite # None /\ sciWrite.name = n
    /\ budget["error"] > 0
    /\ budget' = [budget EXCEPT !["error"] = @ - 1]
    /\ SciReturns(n, TRUE)
    /\ UNCHANGED <<store, caches, scQueue, scWrite, nextUid>>

\* One worker runs the reconciler.
SciReconcile(n) ==
    \/ SciIgnore(n) \/ SciDeleteConsumer(n) \/ SciDeleteProvider(n)
    \/ SciRemoveFinalizer(n) \/ SciAddFinalizer(n) \/ createProviderPod(n)
    \/ createConsumerPod(n) \/ SciStopConsumer(n) \/ SciWaitForProvider(n)
    \/ SciStopped(n) \/ SciReportConsumer(n) \/ SciWriteStatus(n)
=============================================================================
