-------------------- MODULE StoppableContainerController --------------------
(***************************************************************************)
(* The reconciler of StoppableContainers                                   *)
(* (internal/controller/stoppablecontainer_controller.go).                 *)
(*                                                                         *)
(* A reconcile reads the caches, makes at most one write to the instance   *)
(* or to its own metadata and then at most one status write.  Reads and    *)
(* first write are one step: the caches may lag behind the API server by   *)
(* any amount, so a slow reconcile is one whose caches are refreshed late. *)
(* A status write that follows another write is a step of its own.  UPDATE *)
(* is refused when the stored object is no longer the one that was read    *)
(* (the resourceVersion conflict) and the error puts the key back.         *)
(***************************************************************************)
EXTENDS ApiObjects

\* The status write still to come, with the SC as it was read.
ScWrite == [name : Names, sc : StoppableContainer, phase : Phase, node : Node,
            again : BOOLEAN]

ASSUME ScWriteAssumption == None \notin ScWrite

\* The worker is free and takes the key n from the queue.
ScTakes(n) == scWrite = None /\ scQueue[n]

\* The reconcile of n ends; again is Requeue, RequeueAfter or an error.
ScReturns(n, again) ==
    /\ scQueue' = [scQueue EXCEPT ![n] = again]
    /\ scWrite' = None

\* Mutant: an SC marked for deletion is left alone.
ScIgnoreDeleted(n) ==
    /\ ScTakes(n)
    /\ csc[n] # None => csc[n].deleting
    /\ ScReturns(n, FALSE)
    /\ UNCHANGED <<store, caches, sciQueue, sciWrite, nextUid, budget>>

\* An SC that is gone, or is deleted without our finalizer, needs nothing.
ScIgnore(n) ==
    /\ ScTakes(n)
    /\ csc[n] # None => csc[n].deleting /\ ~csc[n].finalizer
    /\ ScReturns(n, FALSE)
    /\ UNCHANGED <<store, caches, sciQueue, sciWrite, nextUid, budget>>

ScDeleting(n) == ScTakes(n) /\ csc[n] # None /\ csc[n].deleting /\ csc[n].finalizer

\* Deletion with the instance in the cache: DELETE it and come back.
ScDeleteInstance(n) ==
    /\ ScDeleting(n) /\ csci[n] # None
    /\ sci' = [sci EXCEPT ![n] = Deleted(@)]
    /\ ScReturns(n, TRUE)
    /\ UNCHANGED <<sc, pods, caches, sciQueue, sciWrite, nextUid, budget>>

\* Deletion with no instance in the cache: remove the finalizer, the last one
\* of an object marked for deletion, and the API server drops the object.
ScRemoveFinalizer(n) ==
    /\ ScDeleting(n) /\ csci[n] = None
    /\ sc' = IF sc[n] = csc[n] THEN [sc EXCEPT ![n] = None] ELSE sc
    /\ ScReturns(n, sc[n] # csc[n])
    /\ UNCHANGED <<sci, pods, caches, sciQueue, sciWrite, nextUid, budget>>

ScAddFinalizer(n) ==
    /\ ScTakes(n) /\ csc[n] # None /\ ~csc[n].deleting /\ ~csc[n].finalizer
    /\ sc' = IF sc[n] = csc[n] THEN [sc EXCEPT ![n] = [@ EXCEPT !.finalizer = TRUE]] ELSE sc
    /\ ScReturns(n, TRUE)
    /\ UNCHANGED <<sci, pods, caches, sciQueue, sciWrite, nextUid, budget>>

\* Mutant: acting on an SC does not wait for the finalizer.
ScActiveUnprotected(n) == ScTakes(n) /\ csc[n] # None /\ ~csc[n].deleting

\* The SC is to be reconciled towards spec.running.
ScActive(n) == ScTakes(n) /\ csc[n] # None /\ ~csc[n].deleting /\ csc[n].finalizer

ScStatusPending(n, phase, node, again) ==
    /\ scQueue' = [scQueue EXCEPT ![n] = FALSE]
    /\ scWrite' = [name |-> n, sc |-> csc[n], phase |-> phase, node |-> node,
                   again |-> again]

\* Mutant: the instances of one SC are not told apart.
NewInstanceOfSame(owner) ==
    [uid |-> owner, owner |-> owner, gen |-> 1, running |-> TRUE,
     deleting |-> FALSE, finalizer |-> FALSE, phase |-> "", obs |-> 0,
     node |-> None]

NewInstance(owner) ==
    [uid |-> nextUid, owner |-> owner, gen |-> 1, running |-> TRUE,
     deleting |-> FALSE, finalizer |-> FALSE, phase |-> "", obs |-> 0,
     node |-> None]

createInstance(n) ==
    /\ ScActive(n) /\ csc[n].running /\ csci[n] = None
    /\ \/ /\ sci[n] # None                         \* AlreadyExists
          /\ ScReturns(n, TRUE)
          /\ UNCHANGED <<sci, nextUid>>
       \/ /\ sci[n] = None
          /\ sci' = [sci EXCEPT ![n] = NewInstance(csc[n].uid)]
          /\ nextUid' = nextUid + 1
          /\ ScStatusPending(n, "Pending", csc[n].node, TRUE)
    /\ UNCHANGED <<sc, pods, caches, sciQueue, sciWrite, budget>>

\* Mutants: unknown phases are shown as they are; a stopped instance is not told
\* from a pending one.
PhaseUnmapped(p) == IF p \in {"Stopping", "Stopped"} THEN "Stopped" ELSE p
PhaseWithoutStopped(p) ==
    IF p \in {"ProviderReady", "ConsumerStarting"} THEN "ProviderReady"
    ELSE IF p \in {"Running", "Failed"} THEN p ELSE "Pending"

\* The SC phase shown for an instance phase.
PhaseFromInstance(p) ==
    IF p \in {"ProviderReady", "ConsumerStarting"} THEN "ProviderReady"
    ELSE IF p \in {"Stopping", "Stopped"} THEN "Stopped"
    ELSE IF p \in {"Running", "Failed"} THEN p
    ELSE "Pending"

\* A phase after which the reconciler waits for events only.
Settled(phase) == phase \in {"Running", "Stopped", "Failed"}

\* Mutant: the instance's spec.running is flipped, whatever it is by now.
ScFlipInstanceRunning(n) ==
    /\ ScActive(n) /\ csci[n] # None /\ csci[n].running # csc[n].running
    /\ IF sci[n] = None
       THEN ScReturns(n, TRUE) /\ UNCHANGED sci
       ELSE /\ sci' = [sci EXCEPT ![n] =
                          [@ EXCEPT !.running = ~@, !.gen = @ + 1]]
            /\ LET phase == PhaseFromInstance(csci[n].phase)
               IN  ScStatusPending(n, phase, csci[n].node, ~Settled(phase))
    /\ UNCHANGED <<sc, pods, caches, sciQueue, sciWrite, nextUid, budget>>

\* The instance's spec.running differs: UPDATE it, then show its status.
ScSetInstanceRunning(n) ==
    /\ ScActive(n) /\ csci[n] # None /\ csci[n].running # csc[n].running
    /\ \/ /\ sci[n] # csci[n]                      \* Conflict or NotFound
          /\ ScReturns(n, TRUE)
          /\ UNCHANGED sci
       \/ /\ sci[n] = csci[n]
          /\ sci' = [sci EXCEPT ![n] =
                        [csci[n] EXCEPT !.running = csc[n].running, !.gen = @ + 1]]
          /\ LET phase == PhaseFromInstance(csci[n].phase)
             IN  ScStatusPending(n, phase, csci[n].node, ~Settled(phase))
    /\ UNCHANGED <<sc, pods, caches, sciQueue, sciWrite, nextUid, budget>>

\* Status().Update: the SC as read, with a new status, unless it changed.
ScStatusUpdate(n, read, phase, node) ==
    /\ sc' = IF sc[n] = read
             THEN [sc EXCEPT ![n] = [read EXCEPT !.phase = phase, !.node = node,
                                                 !.obs = read.gen]]
             ELSE sc
    /\ UNCHANGED <<sci, pods, caches, sciQueue, sciWrite, nextUid, budget>>

\* The instance is already as wanted: its status is shown at once.
updateStatusFromInstance(n) ==
    /\ ScActive(n) /\ csci[n] # None /\ csci[n].running = csc[n].running
    /\ LET phase == PhaseFromInstance(csci[n].phase)
       IN  /\ ScStatusUpdate(n, csc[n], phase, csci[n].node)
           /\ ScReturns(n, sc[n] # csc[n] \/ ~Settled(phase))

\* Stopped with no instance: the fields copied from an instance stay.
updateStatusStopped(n) ==
    /\ ScActive(n) /\ ~csc[n].running /\ csci[n] = None
    /\ ScStatusUpdate(n, csc[n], "Stopped", csc[n].node)
    /\ ScReturns(n, sc[n] # csc[n])

\* The status write that follows createInstance or ScSetInstanceRunning.
ScWriteStatus(n) ==
    /\ scWrite # None /\ scWrite.name = n
    /\ ScStatusUpdate(n, scWrite.sc, scWrite.phase, scWrite.node)
    /\ ScReturns(n, scQueue[n] \/ scWrite.again \/ sc[n] # scWrite.sc)

\* The API call fails: the status is not written and the key is put back.
ScError(n) ==
    /\ scWrite # None /\ scWrite.name = n
    /\ budget["error"] > 0
    /\ budget' = [budget EXCEPT !["error"] = @ - 1]
    /\ ScReturns(n, TRUE)
    /\ UNCHANGED <<store, caches, sciQueue, sciWrite, nextUid>>

\* One worker runs the reconciler.
ScReconcile(n) ==
    \/ ScIgnore(n) \/ ScDeleteInstance(n) \/ ScRemoveFinalizer(n)
    \/ ScAddFinalizer(n) \/ createInstance(n) \/ ScSetInstanceRunning(n)
    \/ updateStatusFromInstance(n) \/ updateStatusStopped(n)
    \/ ScWriteStatus(n)
=============================================================================
