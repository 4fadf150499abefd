---------------------------- MODULE SettleProofs ----------------------------
(***************************************************************************)
(* No wake-up is lost: the two controllers rest only when the spec is      *)
(* carried out, for all names, pods, nodes and budgets.                    *)
(***************************************************************************)
EXTENDS StatusProofs, PlacementProofs

\* The pods under the two names of n are those of the instance n.
PodsOwned ==
    \A n \in Names : \A q \in {n, ProviderPodName[n]} :
        /\ pods[q] # None => pods[q].inst = n
        /\ cpods[q] # None => cpods[q].inst = n

\* The inductive invariant.
SettleInv == Settling /\ AllKnown /\ PodsOwned

\* What the SCI reconciler does when it handles n: nothing to other names.
SciEffect(n) ==
    /\ csc' = csc /\ csci' = csci /\ cpods' = cpods /\ sc' = sc
    /\ scQueue' = scQueue /\ scWrite' = scWrite
    /\ nextUid' \in {nextUid, nextUid + 1}
    /\ \A m \in Names : m # n => sci'[m] = sci[m] /\ sciQueue'[m] = sciQueue[m]
    /\ sciWrite # None => sciWrite.name = n
    /\ sciWrite' # None => sciWrite'.name = n
    /\ Moves(sci[n], sci'[n])

\* A reconcile of the SCI n that returns queues n or not, and no other name.
LEMMA SciReturnsEffect ==
    ASSUME TypeOK, NEW n \in Names, NEW again, SciReturns(n, again)
    PROVE  /\ sciWrite' = None /\ sciQueue'[n] = again
           /\ \A m \in Names : m # n => sciQueue'[m] = sciQueue[m]
    BY DEF TypeOK, SciReturns

\* A status write begun for the SCI n is in flight and comes back.
LEMMA SciPendingEffect ==
    ASSUME TypeOK, NEW n \in Names, csci[n] # None, NEW phase \in InstancePhase,
           NEW node \in Node, SciStatusPending(n, phase, node), ~SciSettled(phase)
    PROVE  /\ SciWriting(n)' /\ WriteUnsettled'
           /\ \A m \in Names : m # n => sciQueue'[m] = sciQueue[m]
<1>1. /\ sciWrite'.name = n /\ sciWrite'.phase = phase
      /\ \A m \in Names : m # n => sciQueue'[m] = sciQueue[m]
    BY DEF TypeOK, SciStatusPending
<1>2. csci[n] \in StoppableContainerInstance
    BY DEF TypeOK, Opt
<1>3. sciWrite' \in SciWrite
    BY <1>2 DEF SciStatusPending, SciWrite
<1> QED BY <1>1, <1>3, SciWriteAssumption DEF SciWriting, WriteUnsettled

\* The status write of an SCI as read.
LEMMA UpdatePhaseEffect ==
    ASSUME TypeOK, NEW n \in Names, NEW read \in StoppableContainerInstance,
           NEW phase \in InstancePhase, NEW node \in Node, NEW woken,
           sciWrite # None => sciWrite.name = n,
           updatePhase(n, read, phase, node, woken)
    PROVE  /\ SciEffect(n) /\ sciWrite' = None
           /\ sciQueue'[n] = (woken \/ sci[n] # read \/ ~SciSettled(phase))
           /\ sci[n] = read =>
                 \/ sci'[n] # read
                 \/ read.phase = phase /\ read.node = node /\ read.obs = read.gen
<1> USE DEF caches
<1>1. /\ csc' = csc /\ csci' = csci /\ cpods' = cpods /\ sc' = sc
      /\ scQueue' = scQueue /\ scWrite' = scWrite /\ nextUid' = nextUid
      /\ SciReturns(n, woken \/ sci[n] # read \/ ~SciSettled(phase))
    BY DEF updatePhase
<1>2. /\ sciWrite' = None
      /\ sciQueue'[n] = (woken \/ sci[n] # read \/ ~SciSettled(phase))
      /\ \A m \in Names : m # n => sciQueue'[m] = sciQueue[m]
    BY <1>1, SciReturnsEffect
<1>3. CASE sci[n] # read
  <2>1. sci' = sci
      BY <1>3 DEF updatePhase
  <2> QED BY <1>1, <1>2, <1>3, <2>1 DEF SciEffect, Moves
<1>4. CASE sci[n] = read
  <2> DEFINE x == [read EXCEPT !.phase = phase, !.node = node, !.obs = read.gen]
  <2>1. sci' = [sci EXCEPT ![n] = x]
      BY <1>4 DEF updatePhase
  <2>2. /\ x.gen = read.gen /\ x.phase = phase /\ x.node = node /\ x.obs = read.gen
        /\ x.uid = read.uid /\ x.deleting = read.deleting
        /\ x.finalizer = read.finalizer
      BY Zenon DEF StoppableContainerInstance
  <2>3. x # None /\ sci[n] # None
    <3>1. x \in StoppableContainerInstance
        BY Zenon DEF StoppableContainerInstance
    <3> QED BY <1>4, <3>1, NoneAssumption
  <2> HIDE DEF x
  <2>4. sci'[n] = x /\ \A m \in Names : m # n => sci'[m] = sci[m]
      BY <2>1 DEF TypeOK
  <2>5. SciEffect(n)
    <3>1. read.gen <= read.gen
        BY DEF StoppableContainerInstance
    <3>2. Moves(sci[n], sci'[n])
        BY <1>4, <2>2, <2>3, <2>4, <3>1 DEF Moves, Rewritten, Marked
    <3> QED BY <1>1, <1>2, <2>4, <3>2 DEF SciEffect
  <2> QED BY <1>2, <1>4, <2>2, <2>4, <2>5
<1> QED BY <1>3, <1>4

\* A reconcile that ends with updatePhase comes back, or has changed the SCI, or
\* has found everything as it should be.
LEMMA UpdatePhaseSettles ==
    ASSUME TypeOK, NEW n \in Names, NEW phase \in InstancePhase, NEW node \in Node,
           csci[n] # None, sciWrite = None, updatePhase(n, csci[n], phase, node, FALSE),
           (/\ SciSettled(phase) /\ csci[n].phase = phase
            /\ csci[n].node = node /\ csci[n].obs = csci[n].gen)
               => SciShown(csci[n], Provider(n), Consumer(n))
    PROVE  SciEffect(n) /\ WriteUnsettled' /\ SciWaits(n)'
<1>1. csci[n] \in StoppableContainerInstance
    BY DEF TypeOK, Opt
<1>2. /\ SciEffect(n) /\ sciWrite' = None
      /\ sciQueue'[n] = (FALSE \/ sci[n] # csci[n] \/ ~SciSettled(phase))
      /\ sci[n] = csci[n] =>
            \/ sci'[n] # csci[n]
            \/ /\ csci[n].phase = phase /\ csci[n].node = node
               /\ csci[n].obs = csci[n].gen
    BY <1>1, UpdatePhaseEffect, Zenon
<1>3. csci' = csci /\ cpods' = cpods
    BY <1>2 DEF SciEffect
<1>4. SciWaits(n)'
  <2>1. CASE sci[n] # csci[n] \/ ~SciSettled(phase)
      BY <1>2, <2>1, Zenon DEF SciWaits
  <2>2. CASE sci'[n] # csci[n]
      BY <1>3, <2>2 DEF SciWaits
  <2>3. CASE SciShown(csci[n], Provider(n), Consumer(n))
    <3>1. SciShown(csci[n], Provider(n), Consumer(n))'
        BY <1>3, <2>3 DEF SciShown, Provider, Consumer, RunningPhase, SciSettled,
           isPodFailed, isPodReady
    <3> QED BY <3>1 DEF SciWaits
  <2> QED BY <1>2, <2>1, <2>2, <2>3
<1> QED BY <1>2, <1>4 DEF WriteUnsettled

\* A reconcile that writes to a pod first.
LEMMA SciPodSettles ==
    ASSUME TypeOK, NEW n \in Names, csci[n] # None, sciWrite = None,
           sc' = sc, sci' = sci, UNCHANGED caches, scQueue' = scQueue,
           scWrite' = scWrite, nextUid' \in {nextUid, nextUid + 1}, NEW phase \in InstancePhase, NEW node \in Node,
           ~SciSettled(phase), SciStatusPending(n, phase, node)
    PROVE  SciEffect(n) /\ WriteUnsettled' /\ SciWaits(n)'
<1>1. /\ SciWriting(n)' /\ WriteUnsettled'
      /\ \A m \in Names : m # n => sciQueue'[m] = sciQueue[m]
    BY SciPendingEffect
<1>2. SciEffect(n)
    BY <1>1 DEF SciEffect, SciWriting, caches, Moves
<1> QED BY <1>1, <1>2 DEF SciWaits

\* A reconcile that ends with an error or a requeue.
LEMMA SciAgainSettles ==
    ASSUME TypeOK, NEW n \in Names, sciWrite # None => sciWrite.name = n,
           sc' = sc, sci' = sci, UNCHANGED caches, scQueue' = scQueue,
           scWrite' = scWrite, nextUid' = nextUid, SciReturns(n, TRUE)
    PROVE  SciEffect(n) /\ WriteUnsettled' /\ SciWaits(n)'
<1>1. /\ sciWrite' = None /\ sciQueue'[n]
      /\ \A m \in Names : m # n => sciQueue'[m] = sciQueue[m]
    BY SciReturnsEffect, Zenon
<1> QED BY <1>1 DEF SciEffect, WriteUnsettled, SciWaits, caches, Moves

\* Creating a pod ends in a status write, or with n queued again.
LEMMA SciCreatePodSettles ==
    ASSUME TypeOK, NEW n \in Names, csci[n] # None, sciWrite = None, NEW p, NEW at,
           NEW phase \in InstancePhase, NEW node \in Node, ~SciSettled(phase),
           SciCreatePod(n, p, at, phase, node)
    PROVE  SciEffect(n) /\ WriteUnsettled' /\ SciWaits(n)'
<1>1. /\ sc' = sc /\ sci' = sci /\ UNCHANGED caches /\ scQueue' = scQueue
      /\ scWrite' = scWrite
    BY DEF SciCreatePod
<1>2. CASE SciReturns(n, TRUE) /\ nextUid' = nextUid
    BY <1>1, <1>2, SciAgainSettles, Zenon
<1>3. CASE SciStatusPending(n, phase, node) /\ nextUid' = nextUid + 1
    BY <1>1, <1>3, SciPodSettles
<1> QED BY <1>2, <1>3, Zenon DEF SciCreatePod

\* One reconcile of the SCI controller: it leaves n queued, writing, waiting for
\* its own write to show up in the cache, or done.
LEMMA SciSettles ==
    ASSUME TypeOK, WriteUnsettled, NEW n \in Names, Known(n),
           SciReconcile(n) \/ SciError(n)
    PROVE  SciEffect(n) /\ WriteUnsettled' /\ SciWaits(n)'
<1> USE DEF store
<1>1. /\ "ProviderStarting" \in InstancePhase /\ "ConsumerStarting" \in InstancePhase
      /\ "Stopping" \in InstancePhase /\ "Stopped" \in InstancePhase
      /\ ~SciSettled("ProviderStarting") /\ ~SciSettled("ConsumerStarting")
      /\ ~SciSettled("Stopping") /\ SciSettled("Stopped")
    BY DEF InstancePhase, SciSettled
<1>2. /\ csci[n] # None => csci[n] \in StoppableContainerInstance /\ csci[n].node \in Node
      /\ Provider(n) # None => Provider(n) \in Pod /\ Provider(n).node \in Node
    BY ProviderNameAssumption DEF TypeOK, Opt, Provider, StoppableContainerInstance, Pod
<1>3. CASE SciIgnore(n)
  <2>1. /\ csci[n] = None /\ sciWrite = None /\ sc' = sc /\ sci' = sci
        /\ UNCHANGED caches /\ scQueue' = scQueue /\ scWrite' = scWrite
        /\ nextUid' = nextUid /\ SciReturns(n, FALSE)
      BY <1>3, Zenon DEF SciIgnore, SciTakes, Known, Marked
  <2>2. /\ sciWrite' = None
        /\ \A m \in Names : m # n => sciQueue'[m] = sciQueue[m]
      BY <2>1, SciReturnsEffect, Zenon
  <2>3. csci'[n] = None
      BY <2>1 DEF caches
  <2>4. SciEffect(n)
      BY <2>1, <2>2 DEF SciEffect, caches, Moves
  <2> QED BY <2>2, <2>3, <2>4 DEF WriteUnsettled, SciWaits, SciShown
<1>4. CASE SciDeleteConsumer(n) \/ SciDeleteProvider(n)
  <2>1. /\ sciWrite = None /\ sc' = sc /\ sci' = sci /\ UNCHANGED caches
        /\ scQueue' = scQueue /\ scWrite' = scWrite /\ nextUid' = nextUid
        /\ SciReturns(n, TRUE)
      BY <1>4, Zenon DEF SciDeleteConsumer, SciDeleteProvider, SciDeleting, SciTakes
  <2> QED BY <2>1, SciAgainSettles, Zenon
<1>5. CASE SciAddFinalizer(n)
  <2>1. /\ csc' = csc /\ csci' = csci /\ cpods' = cpods /\ sc' = sc
        /\ scQueue' = scQueue /\ scWrite' = scWrite /\ sciWrite = None
        /\ nextUid' = nextUid /\ SciReturns(n, TRUE) /\ csci[n] # None
      BY <1>5, Zenon DEF SciAddFinalizer, SciTakes, caches
  <2>2. /\ sciWrite' = None /\ sciQueue'[n]
        /\ \A m \in Names : m # n => sciQueue'[m] = sciQueue[m]
      BY <2>1, SciReturnsEffect, Zenon
  <2>3. Moves(sci[n], sci'[n]) /\ \A m \in Names : m # n => sci'[m] = sci[m]
    <3>1. CASE sci[n] # csci[n]
        BY <1>5, <3>1 DEF SciAddFinalizer, Moves
    <3>2. CASE sci[n] = csci[n]
      <4> DEFINE x == [sci[n] EXCEPT !.finalizer = TRUE]
      <4>1. sci' = [sci EXCEPT ![n] = x]
          BY <1>5, <3>2 DEF SciAddFinalizer
      <4>2. sci[n] \in StoppableContainerInstance
          BY <2>1, <3>2 DEF TypeOK, Opt
      <4>3. x.uid = sci[n].uid /\ x.gen = sci[n].gen /\ x.finalizer = TRUE
          BY <4>2, Zenon DEF StoppableContainerInstance
      <4>4. x # None
        <5>1. x \in StoppableContainerInstance
            BY <4>2, Zenon DEF StoppableContainerInstance
        <5> QED BY <5>1, NoneAssumption, Zenon
      <4> HIDE DEF x
      <4>5. sci'[n] = x /\ \A m \in Names : m # n => sci'[m] = sci[m]
          BY <4>1 DEF TypeOK
      <4>6. sci[n].gen <= sci[n].gen
          BY <4>2 DEF StoppableContainerInstance
      <4> QED BY <2>1, <3>2, <4>3, <4>4, <4>5, <4>6 DEF Moves, Rewritten, Marked
    <3> QED BY <3>1, <3>2
  <2>4. SciEffect(n)
      BY <2>1, <2>2, <2>3 DEF SciEffect
  <2> QED BY <2>2, <2>4 DEF WriteUnsettled, SciWaits
<1>6. CASE createProviderPod(n)
  <2>1. /\ csci[n] # None /\ sciWrite = None
        /\ SciCreatePod(n, ProviderPodName[n], None, "ProviderStarting", csci[n].node)
      BY <1>6 DEF createProviderPod, SciActive, SciTakes
  <2> QED BY <1>1, <1>2, <2>1, SciCreatePodSettles
<1>7. CASE createConsumerPod(n)
  <2>1. /\ csci[n] # None /\ sciWrite = None /\ Provider(n) # None
        /\ SciCreatePod(n, n, Provider(n).node, "ConsumerStarting", Provider(n).node)
      BY <1>7 DEF createConsumerPod, ProviderUp, SciActive, SciTakes
  <2> QED BY <1>1, <1>2, <2>1, SciCreatePodSettles
<1>8. CASE SciStopConsumer(n)
  <2>1. /\ csci[n] # None /\ sciWrite = None /\ Provider(n) # None
        /\ sc' = sc /\ sci' = sci /\ UNCHANGED caches
        /\ scQueue' = scQueue /\ scWrite' = scWrite /\ nextUid' = nextUid
        /\ SciStatusPending(n, "Stopping", Provider(n).node)
      BY <1>8 DEF SciStopConsumer, ProviderUp, SciActive, SciTakes
  <2> QED BY <1>1, <1>2, <2>1, SciPodSettles
<1>9. CASE SciWaitForProvider(n)
  <2>1. /\ csci[n] # None /\ sciWrite = None
        /\ updatePhase(n, csci[n], "ProviderStarting", csci[n].node, FALSE)
      BY <1>9, Zenon DEF SciWaitForProvider, SciActive, SciTakes
  <2> QED BY <1>1, <1>2, <2>1, UpdatePhaseSettles, Zenon
<1>10. CASE SciStopped(n)
  <2>1. /\ csci[n] # None /\ sciWrite = None /\ ~csci[n].deleting /\ csci[n].finalizer
        /\ Provider(n) # None /\ Provider(n).status = "Ready"
        /\ ~csci[n].running /\ Consumer(n) = None
        /\ updatePhase(n, csci[n], "Stopped", Provider(n).node, FALSE)
      BY <1>10, Zenon DEF SciStopped, ProviderUp, SciActive, SciTakes, isPodReady
  <2>2. ASSUME csci[n].phase = "Stopped", csci[n].node = Provider(n).node,
               csci[n].obs = csci[n].gen
        PROVE  SciShown(csci[n], Provider(n), Consumer(n))
      BY <2>1, <2>2 DEF SciShown
  <2> QED BY <1>1, <1>2, <2>1, <2>2, UpdatePhaseSettles, Zenon
<1>11. CASE SciReportConsumer(n)
  <2> DEFINE phase == RunningPhase(Consumer(n))
  <2>1. /\ csci[n] # None /\ sciWrite = None /\ ~csci[n].deleting /\ csci[n].finalizer
        /\ Provider(n) # None /\ Provider(n).status = "Ready"
        /\ csci[n].running /\ Consumer(n) # None
        /\ updatePhase(n, csci[n], phase, Provider(n).node, FALSE)
      BY <1>11, Zenon DEF SciReportConsumer, ProviderUp, SciActive, SciTakes, isPodReady
  <2>2. phase \in InstancePhase
      BY DEF RunningPhase, InstancePhase
  <2>3. ASSUME SciSettled(phase), csci[n].phase = phase,
               csci[n].node = Provider(n).node, csci[n].obs = csci[n].gen
        PROVE  SciShown(csci[n], Provider(n), Consumer(n))
      BY <2>1, <2>3 DEF SciShown
  <2> HIDE DEF phase
  <2> QED BY <1>2, <2>1, <2>2, <2>3, UpdatePhaseSettles, Zenon
<1>12. CASE SciWriteStatus(n)
  <2>1. /\ sciWrite # None /\ sciWrite.name = n /\ ~SciSettled(sciWrite.phase)
        /\ updatePhase(n, sciWrite.sci, sciWrite.phase, sciWrite.node, sciQueue[n])
      BY <1>12 DEF SciWriteStatus, WriteUnsettled
  <2>2. /\ sciWrite.sci \in StoppableContainerInstance
        /\ sciWrite.phase \in InstancePhase /\ sciWrite.node \in Node
      BY <2>1 DEF TypeOK, Opt, SciWrite
  <2>3. /\ SciEffect(n) /\ sciWrite' = None
        /\ sciQueue'[n] = (\/ sciQueue[n] \/ sci[n] # sciWrite.sci
                           \/ ~SciSettled(sciWrite.phase))
      BY <2>1, <2>2, UpdatePhaseEffect, Zenon
  <2> QED BY <2>1, <2>3, Zenon DEF WriteUnsettled, SciWaits
<1>13. CASE SciError(n)
    BY <1>13, SciAgainSettles, Zenon DEF SciError
<1>14. CASE SciRemoveFinalizer(n)
  <2>1. /\ csc' = csc /\ csci' = csci /\ cpods' = cpods /\ sc' = sc
        /\ scQueue' = scQueue /\ scWrite' = scWrite /\ nextUid' = nextUid
        /\ sciWrite = None /\ csci[n] # None /\ SciReturns(n, sci[n] # csci[n])
      BY <1>14 DEF SciRemoveFinalizer, SciDeleting, SciTakes, caches
  <2>2. /\ sciWrite' = None /\ sciQueue'[n] = (sci[n] # csci[n])
        /\ \A m \in Names : m # n => sciQueue'[m] = sciQueue[m]
      BY <2>1, SciReturnsEffect
  <2>3. CASE sci[n] # csci[n]
    <3>1. sci' = sci
        BY <1>14, <2>3 DEF SciRemoveFinalizer
    <3>2. sciQueue'[n]
        BY <2>2, <2>3, Zenon
    <3> QED BY <2>1, <2>2, <3>1, <3>2 DEF SciEffect, WriteUnsettled, SciWaits, Moves
  <2>4. CASE sci[n] = csci[n]
    <3>1. sci'[n] = None /\ \A m \in Names : m # n => sci'[m] = sci[m]
        BY <1>14, <2>4 DEF SciRemoveFinalizer, TypeOK
    <3> QED BY <2>1, <2>2, <3>1 DEF SciEffect, WriteUnsettled, SciWaits, Moves
  <2> QED BY <2>3, <2>4
<1> QED BY <1>3, <1>4, <1>5, <1>6, <1>7, <1>8, <1>9, <1>10, <1>11, <1>12, <1>13, <1>14
        DEF SciReconcile

\* A step outside of the manager: an SC or an SCI only changes to something the
\* cache does not have.
LEMMA OutsideSettles ==
    ASSUME TypeOK, TypeOK', RootfsInv, Settling, csc' = csc, csci' = csci,
           cpods' = cpods, scQueue' = scQueue, sciQueue' = sciQueue,
           scWrite' = scWrite, sciWrite' = sciWrite, nextUid' \in {nextUid, nextUid + 1},
           \A n \in Names :
              /\ Moves(sc[n], sc'[n]) /\ Moves(sci[n], sci'[n])
              /\ sc'[n] = sc[n] \/ sc'[n] # csc[n] \/ csc[n] = None
              /\ sci'[n] = sci[n] \/ sci'[n] # csci[n] \/ csci[n] = None
    PROVE  Settling' /\ AllMove
<1>1. WriteUnsettled' /\ AllMove
    BY DEF Settling, WriteUnsettled, AllMove
<1>2. ASSUME NEW n \in Names
      PROVE  ScWaits(n)' /\ SciWaits(n)'
  <2>1. ScFrame(n) /\ SciFrame(n)
      BY <1>2 DEF ScFrame, SciFrame, Provider, Consumer
  <2> QED BY <1>2, <2>1, ScFrameKeeps, SciFrameKeeps DEF Settling
<1> QED BY <1>1, <1>2 DEF Settling

\* The user, and the garbage collector's DELETE of an instance: the cache does
\* not know of a new SC, and the generation changes with spec.running and with
\* the mark of a deletion.
LEMMA UserSettles ==
    ASSUME TypeOK, TypeOK', RootfsInv, AllKnown, Settling,
           User \/ \E n \in Names : CollectInstance(n)
    PROVE  Settling' /\ AllMove
<1> USE DEF caches, queues, writes
<1>1. PICK n \in Names : \/ \E run \in BOOLEAN : UserCreate(n, run)
                         \/ UserToggle(n) \/ UserDelete(n) \/ UserDeleteInstance(n)
                         \/ CollectInstance(n)
    BY DEF User
<1>2. /\ csc' = csc /\ csci' = csci /\ cpods' = cpods /\ scQueue' = scQueue
      /\ sciQueue' = sciQueue /\ scWrite' = scWrite /\ sciWrite' = sciWrite
      /\ nextUid' \in {nextUid, nextUid + 1}
    BY <1>1 DEF UserCreate, UserToggle, UserDelete, UserDeleteInstance, CollectInstance
<1>3. Known(n)
    BY DEF AllKnown
<1>4. CASE \E run \in BOOLEAN : UserCreate(n, run)
  <2>1. PICK run \in BOOLEAN : UserCreate(n, run)
      BY <1>4
  <2> DEFINE x == NewContainer(run)
  <2>2. /\ sci' = sci /\ sc[n] = None /\ sc' = [sc EXCEPT ![n] = x]
        /\ nextUid' = nextUid + 1
      BY <2>1 DEF UserCreate
  <2>3. x # None
    <3>1. x \in StoppableContainer
        BY DEF NewContainer, StoppableContainer, Phase, Node, TypeOK
    <3> QED BY <3>1, NoneAssumption
  <2>4. x.uid = nextUid /\ x.deleting = FALSE
      BY DEF NewContainer
  <2> HIDE DEF x
  <2>5. sc'[n] = x /\ \A m \in Names : m # n => sc'[m] = sc[m]
      BY <2>2 DEF TypeOK
  <2>6. csc[n] # None => x # csc[n]
      BY <1>3, <2>4, GenTyped DEF Known
  <2>7. Moves(sc[n], x)
      BY <2>2, <2>3, <2>4 DEF Moves, Marked
  <2> QED BY <1>2, <2>2, <2>5, <2>6, <2>7, OutsideSettles DEF Moves
<1>5. CASE UserToggle(n)
  <2> DEFINE x == [sc[n] EXCEPT !.running = ~@, !.gen = @ + 1]
  <2>1. sci' = sci /\ sc[n] # None /\ sc' = [sc EXCEPT ![n] = x]
      BY <1>5 DEF UserToggle, Toggled
  <2>2. sc[n] \in StoppableContainer
      BY <2>1 DEF TypeOK, Opt
  <2>3. /\ x.gen = sc[n].gen + 1 /\ x.uid = sc[n].uid
        /\ x.deleting = sc[n].deleting /\ x.finalizer = sc[n].finalizer
      BY <2>2, Zenon DEF StoppableContainer
  <2>4. x # None
    <3>1. sc[n].gen + 1 \in Nat /\ (~sc[n].running) \in BOOLEAN
        BY <2>2 DEF StoppableContainer
    <3>2. x \in StoppableContainer
        BY <2>2, <3>1, Zenon DEF StoppableContainer
    <3> QED BY <3>2, NoneAssumption
  <2> HIDE DEF x
  <2>5. sc'[n] = x /\ \A m \in Names : m # n => sc'[m] = sc[m]
      BY <2>1 DEF TypeOK
  <2>6. csc[n] # None => x # csc[n]
      BY <1>3, <2>1, <2>3, GenTyped DEF Known
  <2>7. sc[n].gen <= x.gen
      BY <2>1, <2>3, GenTyped
  <2>8. Moves(sc[n], x)
      BY <2>1, <2>3, <2>4, <2>7 DEF Moves, Rewritten, Marked
  <2> QED BY <1>2, <2>1, <2>5, <2>6, <2>8, OutsideSettles DEF Moves
<1>6. CASE UserDelete(n)
  <2>1. sci' = sci /\ sc' = [sc EXCEPT ![n] = Deleted(sc[n])]
      BY <1>6 DEF UserDelete
  <2>2. sc'[n] = Deleted(sc[n]) /\ \A m \in Names : m # n => sc'[m] = sc[m]
      BY <2>1 DEF TypeOK
  <2>3. Marks(sc[n], sc'[n])
      BY <2>2, DeletedMarks DEF TypeOK
  <2>4. Moves(sc[n], sc'[n])
      BY <2>3, MarksMoves, GenTyped
  <2>5. sc'[n] = sc[n] \/ sc'[n] # csc[n] \/ csc[n] = None
      BY <1>3, <2>3, GenTyped DEF Known, Marks
  <2> QED BY <1>2, <2>1, <2>2, <2>4, <2>5, OutsideSettles DEF Moves
<1>7. CASE UserDeleteInstance(n) \/ CollectInstance(n)
  <2>1. sc' = sc /\ sci' = [sci EXCEPT ![n] = Deleted(sci[n])]
      BY <1>7 DEF UserDeleteInstance, CollectInstance
  <2>2. sci'[n] = Deleted(sci[n]) /\ \A m \in Names : m # n => sci'[m] = sci[m]
      BY <2>1 DEF TypeOK
  <2>3. Marks(sci[n], sci'[n])
      BY <2>2, DeletedMarks DEF TypeOK
  <2>4. Moves(sci[n], sci'[n])
      BY <2>3, MarksMoves, GenTyped
  <2>5. sci'[n] = sci[n] \/ sci'[n] # csci[n] \/ csci[n] = None
      BY <2>3, InstanceMarked
  <2> QED BY <1>2, <2>1, <2>2, <2>4, <2>5, OutsideSettles DEF Moves
<1> QED BY <1>1, <1>4, <1>5, <1>6, <1>7

\* Kubernetes otherwise changes only pods, of which the cache knows nothing yet.
LEMMA KubernetesSettles ==
    ASSUME TypeOK, TypeOK', RootfsInv, AllKnown, Settling, Kubernetes
    PROVE  Settling' /\ AllMove
<1> USE DEF caches, queues, writes
<1>1. CASE \E n \in Names : CollectInstance(n)
    BY <1>1, UserSettles
<1>2. CASE \E p \in PodNames :
              \/ \E node \in Nodes : SchedulePod(p, node)
              \/ PodBecomesReady(p) \/ PodBecomesUnready(p) \/ PodFails(p)
              \/ DrainPod(p) \/ PodGone(p) \/ CollectPod(p)
  <2>1. /\ csc' = csc /\ csci' = csci /\ cpods' = cpods /\ scQueue' = scQueue
        /\ sciQueue' = sciQueue /\ scWrite' = scWrite /\ sciWrite' = sciWrite
        /\ sci' = sci /\ sc' = sc /\ nextUid' = nextUid
      BY <1>2 DEF SetPod, SchedulePod, PodBecomesReady, PodBecomesUnready,
         PodFails, DrainPod, PodGone, CollectPod
  <2> QED BY <2>1, OutsideSettles DEF Moves
<1> QED BY <1>1, <1>2 DEF Kubernetes

\* A reconcile of the SC controller ...
LEMMA ScStepSettles ==
    ASSUME TypeOK, TypeOK', RootfsInv, AllKnown, Settling, NEW n \in Names,
           ScReconcile(n) \/ ScError(n)
    PROVE  Settling' /\ AllMove
<1>1. ScEffect(n) /\ ScWaits(n)'
    BY ScSettles DEF Settling, AllKnown
<1>2. WriteUnsettled'
    BY <1>1 DEF ScEffect, Settling, WriteUnsettled
<1>3. AllMove
  <2>1. \A m \in Names : Moves(sc[m], sc'[m]) /\ Moves(sci[m], sci'[m])
      BY <1>1 DEF ScEffect, Moves
  <2> QED BY <1>1, <2>1 DEF ScEffect, AllMove
<1>4. ASSUME NEW m \in Names, m # n
      PROVE  ScWaits(m)' /\ SciWaits(m)'
  <2>1. ScFrame(m) /\ SciFrame(m)
      BY <1>1, <1>3, <1>4 DEF AllMove, ScFrame, SciFrame, ScEffect, ScWriting,
                              Provider, Consumer
  <2> QED BY <1>4, <2>1, ScFrameKeeps, SciFrameKeeps DEF Settling
<1>5. SciWaits(n)'
  <2>1. SciFrame(n)
      BY <1>1 DEF SciFrame, ScEffect, Provider, Consumer
  <2> QED BY <2>1, SciFrameKeeps DEF Settling
<1> QED BY <1>1, <1>2, <1>3, <1>4, <1>5 DEF Settling

\* ... and of the SCI controller.
LEMMA SciStepSettles ==
    ASSUME TypeOK, TypeOK', RootfsInv, AllKnown, Settling, NEW n \in Names,
           SciReconcile(n) \/ SciError(n)
    PROVE  Settling' /\ AllMove
<1>1. SciEffect(n) /\ WriteUnsettled' /\ SciWaits(n)'
    BY SciSettles DEF Settling, AllKnown
<1>2. AllMove
  <2>1. \A m \in Names : Moves(sc[m], sc'[m]) /\ Moves(sci[m], sci'[m])
      BY <1>1 DEF SciEffect, Moves
  <2> QED BY <1>1, <2>1 DEF SciEffect, AllMove
<1>3. ASSUME NEW m \in Names
      PROVE  ScWaits(m)'
  <2>1. ScFrame(m)
      BY <1>1, <1>2, <1>3 DEF AllMove, ScFrame, SciEffect
  <2> QED BY <1>3, <2>1, ScFrameKeeps DEF Settling
<1>4. ASSUME NEW m \in Names, m # n
      PROVE  SciWaits(m)'
  <2>1. SciFrame(m)
      BY <1>1, <1>4 DEF SciFrame, SciEffect, SciWriting, Provider, Consumer
  <2> QED BY <1>4, <2>1, SciFrameKeeps DEF Settling
<1> QED BY <1>1, <1>2, <1>3, <1>4 DEF Settling

\* The informers queue every name whose objects they show anew.
LEMMA SyncSettles ==
    ASSUME TypeOK, TypeOK', RootfsInv, PodsOwned, Settling, SyncSC \/ SyncSCI \/ SyncPods
    PROVE  Settling' /\ AllMove
<1> USE DEF store, writes
<1>1. sc' = sc /\ sci' = sci /\ scWrite' = scWrite /\ sciWrite' = sciWrite
    BY DEF SyncSC, SyncSCI, SyncPods
<1>2. WriteUnsettled' /\ AllMove
  <2>1. /\ csc' = csc \/ csc' = sc
        /\ csci' = csci \/ csci' = sci
        /\ nextUid' = nextUid
      BY DEF SyncSC, SyncSCI, SyncPods
  <2> QED BY <1>1, <2>1 DEF Settling, WriteUnsettled, AllMove, Moves
<1>3. ASSUME NEW n \in Names
      PROVE  ScWaits(n)'
  <2>1. /\ scQueue[n] => scQueue'[n]
        /\ scQueue'[n] \/ (csc'[n] = csc[n] /\ csci'[n] = csci[n])
    <3>1. CASE SyncSC
        BY <1>3, <3>1, Zenon DEF SyncSC
    <3>2. CASE SyncSCI
        BY <1>3, <3>2, Zenon DEF SyncSCI
    <3>3. CASE SyncPods
        BY <1>3, <3>3 DEF SyncPods
    <3> QED BY <3>1, <3>2, <3>3
  <2>2. CASE scQueue'[n]
      BY <2>2 DEF ScWaits
  <2>3. CASE csc'[n] = csc[n] /\ csci'[n] = csci[n]
    <3>1. ScFrame(n)
        BY <1>1, <1>3, <2>1, <2>3 DEF ScFrame, Moves
    <3> QED BY <1>3, <3>1, ScFrameKeeps DEF Settling
  <2> QED BY <2>1, <2>2, <2>3
<1>4. ASSUME NEW n \in Names
      PROVE  SciWaits(n)'
  <2>1. /\ sciQueue[n] => sciQueue'[n]
        /\ \/ sciQueue'[n]
           \/ csci'[n] = csci[n] /\ Provider(n)' = Provider(n) /\ Consumer(n)' = Consumer(n)
    <3>1. CASE SyncSC
        BY <1>4, <3>1 DEF SyncSC, Provider, Consumer
    <3>2. CASE SyncSCI
        BY <1>4, <3>2, Zenon DEF SyncSCI, Provider, Consumer
    <3>3. CASE SyncPods
      <4>1. /\ csci' = csci /\ cpods' = pods
            /\ sciQueue'[n] = (sciQueue[n] \/ \E p \in PodNames :
                                  cpods[p] # pods[p] /\ n \in PodInstances(p))
          BY <1>4, <3>3 DEF SyncPods
      <4>2. n \in PodNames /\ ProviderPodName[n] \in PodNames
          BY <1>4, NamesAssumption, ProviderNameAssumption
      <4>3. ASSUME NEW p \in {n, ProviderPodName[n]}, cpods[p] # pods[p]
            PROVE  n \in PodInstances(p)
          BY <1>4, <4>3 DEF PodsOwned, PodInstances
      <4>4. CASE cpods[n] # pods[n] \/ cpods[ProviderPodName[n]] # pods[ProviderPodName[n]]
          BY <4>1, <4>2, <4>3, <4>4, Zenon
      <4>5. CASE cpods[n] = pods[n] /\ cpods[ProviderPodName[n]] = pods[ProviderPodName[n]]
          BY <4>1, <4>5, Zenon DEF Provider, Consumer
      <4> QED BY <4>4, <4>5
    <3> QED BY <3>1, <3>2, <3>3
  <2>2. CASE sciQueue'[n]
      BY <2>2 DEF SciWaits
  <2>3. CASE csci'[n] = csci[n] /\ Provider(n)' = Provider(n) /\ Consumer(n)' = Consumer(n)
    <3>1. SciFrame(n)
        BY <1>1, <2>1, <2>3 DEF SciFrame
    <3> QED BY <1>4, <3>1, SciFrameKeeps DEF Settling
  <2> QED BY <2>1, <2>2, <2>3
<1> QED BY <1>2, <1>3, <1>4 DEF Settling

\* A new manager queues every SC and every SCI there is.
LEMMA RestartSettles ==
    ASSUME TypeOK, ManagerRestart
    PROVE  Settling' /\ AllMove
<1> USE DEF store
<1>1. /\ csc' = sc /\ csci' = sci /\ sc' = sc /\ sci' = sci /\ nextUid' = nextUid
      /\ scWrite' = None /\ sciWrite' = None
      /\ \A n \in Names : /\ sc[n] # None => scQueue'[n]
                          /\ sci[n] # None => sciQueue'[n]
    BY Zenon DEF ManagerRestart
<1>2. WriteUnsettled' /\ AllMove
    BY <1>1 DEF WriteUnsettled, AllMove, Moves
<1>3. ASSUME NEW n \in Names
      PROVE  ScWaits(n)' /\ SciWaits(n)'
  <2>1. ScWaits(n)'
      BY <1>1, <1>3 DEF ScWaits, ScWriting, ScShown
  <2>2. SciWaits(n)'
      BY <1>1, <1>3 DEF SciWaits, SciShown
  <2> QED BY <2>1, <2>2
<1> QED BY <1>2, <1>3 DEF Settling

\* Only the SCI n makes pods under the names of n.
LEMMA PodsOwnedKept ==
    ASSUME NoCollision, PodsOwned, PodStep
    PROVE  PodsOwned'
<1> SUFFICES ASSUME NEW n \in Names, NEW q \in {n, ProviderPodName[n]}
             PROVE  /\ pods'[q] # None => pods'[q].inst = n
                    /\ cpods'[q] # None => cpods'[q].inst = n
    BY DEF PodsOwned
<1>1. /\ pods[q] # None => pods[q].inst = n
      /\ cpods[q] # None => cpods[q].inst = n
    BY DEF PodsOwned
<1>2. q \in PodNames
    BY NamesAssumption, ProviderNameAssumption
<1>3. CASE PodsIdle
    BY <1>1, <1>3 DEF PodsIdle
<1>4. CASE \E r \in PodNames : PodChanges(r)
    BY <1>1, <1>2, <1>4 DEF PodChanges
<1>5. CASE \E m \in Names, r \in PodNames : PodMade(m, r)
  <2>1. PICK m \in Names, r \in PodNames : PodMade(m, r)
      BY <1>5
  <2>2. CASE r # q
      BY <1>1, <1>2, <2>1, <2>2 DEF PodMade
  <2>3. CASE r = q
    <3>1. r = ProviderPodName[m] \/ r = m
        BY <2>1 DEF PodMade
    <3>2. m = n
        BY <2>3, <3>1, ProviderNameAssumption DEF NoCollision
    <3> QED BY <1>1, <2>1, <2>3, <3>2 DEF PodMade
  <2> QED BY <2>2, <2>3
<1> QED BY <1>3, <1>4, <1>5 DEF PodStep

\* Every step keeps the inductive invariant.
LEMMA SettleKept ==
    ASSUME NoCollision, TypeOK, TypeOK', RootfsInv, SettleInv, Next
    PROVE  SettleInv'
<1>1. PodsOwned'
    BY EveryPodStep, PodsOwnedKept DEF SettleInv
<1>2. Settling' /\ AllMove
    BY UserSettles, KubernetesSettles, ScStepSettles, SciStepSettles,
       SyncSettles, RestartSettles DEF SettleInv, Next, Manager
<1>3. AllKnown'
    BY <1>2, KnownKept DEF SettleInv
<1> QED BY <1>1, <1>2, <1>3 DEF SettleInv

\* When nothing is queued or in flight and the caches are up to date, the two
\* controllers have nothing left to do.
LEMMA SettledIsDone ==
    ASSUME TypeOK, SettleInv, ConsumerHasInstance
    PROVE  RestsOnlyWhenDone
<1> SUFFICES ASSUME NEW n \in Names, Quiet(n)
             PROVE  LET provider == pods[ProviderPodName[n]]
                        consumer == pods[n]
                    IN
                    /\ sci[n] # None => ~sci[n].deleting
                    /\ sc[n] # None =>
                        /\ ~sc[n].deleting /\ sc[n].finalizer /\ sc[n].obs = sc[n].gen
                        /\ sci[n] # None =>
                              /\ sci[n].obs = sci[n].gen
                              /\ sci[n].running = sc[n].running
                              /\ sc[n].phase = PhaseFromInstance(sci[n].phase)
                              /\ provider # None /\ provider.status = "Ready"
                              /\ sc[n].node = provider.node
                        /\ IF sc[n].running
                           THEN /\ sci[n] # None /\ consumer # None
                                /\ <<sc[n].phase, consumer.status>> \in
                                      {<<"Running", "Ready">>, <<"Failed", "Failed">>}
                           ELSE sc[n].phase = "Stopped" /\ consumer = None
    BY DEF RestsOnlyWhenDone
<1>1. /\ ~scQueue[n] /\ ~sciQueue[n] /\ ~ScWriting(n) /\ ~SciWriting(n)
      /\ csc[n] = sc[n] /\ csci[n] = sci[n]
      /\ Provider(n) = pods[ProviderPodName[n]] /\ Consumer(n) = pods[n]
    BY DEF Quiet, ScWriting, SciWriting, Provider, Consumer
<1>2. ~InstanceAhead(n)
    BY <1>1, GenTyped DEF InstanceAhead
<1>3. ScShown(sc[n], sci[n])
    BY <1>1, <1>2 DEF SettleInv, Settling, ScWaits
<1>4. SciShown(sci[n], pods[ProviderPodName[n]], pods[n])
    BY <1>1 DEF SettleInv, Settling, SciWaits
<1>5. sci[n] = None => pods[n] = None
    BY DEF ConsumerHasInstance
<1>6. sc[n] # None => sc[n].running \in BOOLEAN
    BY DEF TypeOK, Opt, StoppableContainer
<1>7. CASE sc[n] = None \/ sci[n] = None
    BY <1>3, <1>4, <1>5, <1>7 DEF ScShown, SciShown
<1>8. CASE sc[n] # None /\ sci[n] # None /\ sc[n].running
  <2>1. /\ pods[n] # None /\ sci[n].phase = RunningPhase(pods[n])
        /\ sci[n].phase \in {"Running", "Stopped", "Failed"}
        /\ sc[n].phase = PhaseFromInstance(sci[n].phase)
      BY <1>3, <1>4, <1>8, Zenon DEF ScShown, SciShown, SciSettled
  <2>2. <<sc[n].phase, pods[n].status>> \in
            {<<"Running", "Ready">>, <<"Failed", "Failed">>}
      BY <2>1 DEF RunningPhase, PhaseFromInstance, isPodFailed, isPodReady
  <2> QED BY <1>3, <1>4, <1>8, <2>1, <2>2, Zenon DEF ScShown, SciShown
<1>9. CASE sc[n] # None /\ sci[n] # None /\ ~sc[n].running
  <2>1. pods[n] = None /\ sc[n].phase = "Stopped"
      BY <1>3, <1>4, <1>9 DEF ScShown, SciShown, PhaseFromInstance
  <2> QED BY <1>3, <1>4, <1>9, <2>1 DEF ScShown, SciShown
<1> QED BY <1>6, <1>7, <1>8, <1>9

\* The inductive invariant: each controller is queued, at work, waiting for its own
\* write to show in the cache, or done.
LEMMA SettleInvariant ==
    ASSUME NoCollision
    PROVE  Spec => []SettleInv
<1>1. Init => SettleInv
  <2> SUFFICES ASSUME Init
               PROVE  SettleInv
      OBVIOUS
  <2>1. PodsOwned
      BY NamesAssumption, ProviderNameAssumption DEF Init, PodsOwned
  <2>2. AllKnown /\ WriteUnsettled
      BY DEF Init, AllKnown, Known, Marked, WriteUnsettled
  <2>3. \A n \in Names : ScWaits(n) /\ SciWaits(n)
      BY DEF Init, ScWaits, SciWaits, ScShown, SciShown, ScWriting
  <2> QED BY <2>1, <2>2, <2>3 DEF SettleInv, Settling
<1>2. TypeOK /\ TypeOK' /\ RootfsInv /\ SettleInv /\ [Next]_vars => SettleInv'
  <2> SUFFICES ASSUME TypeOK, TypeOK', RootfsInv, SettleInv, [Next]_vars
               PROVE  SettleInv'
      OBVIOUS
  <2>1. CASE Next
      BY <2>1, SettleKept
  <2>2. CASE UNCHANGED vars
    <3>1. PodsOwned' /\ AllKnown'
        BY <2>2 DEF vars, SettleInv, PodsOwned, AllKnown, Known, Marked
    <3>2. Settling'
        BY <2>2, OutsideSettles DEF vars, SettleInv, Moves
    <3> QED BY <3>1, <3>2 DEF SettleInv
  <2> QED BY <2>1, <2>2
<1> QED BY <1>1, <1>2, TypeCorrect, CacheNeverAhead, PTL DEF Spec

\* No wake-up is lost: the controllers rest only when the spec is carried out,
\* both statuses say so and no deletion is half-way, whatever is deleted and made
\* again, whichever pods fail or are evicted, however late the caches are,
\* whichever API calls fail and whenever the manager is restarted.
THEOREM NoWakeUpLost ==
    ASSUME NoCollision
    PROVE  Spec => []RestsOnlyWhenDone
<1>1. TypeOK /\ SettleInv /\ ConsumerHasInstance => RestsOnlyWhenDone
    BY SettledIsDone
<1> QED BY <1>1, SettleInvariant, ConsumerNeverOrphaned, TypeCorrect, PTL

=============================================================================
