---------------------------- MODULE StatusProofs ----------------------------
(***************************************************************************)
(* The status of an instance tells the truth about spec.running, for all   *)
(* names, pods, nodes and budgets; and when the two controllers have       *)
(* nothing left to do, with what the SC controller contributes to that.    *)
(***************************************************************************)
EXTENDS OperatorProofs

\* The status of one SCI is not ahead of its spec, and agrees with it when it
\* claims to be up to date.
Truthful(o) ==
    o # None =>
        /\ o.obs <= o.gen
        /\ o.obs = o.gen =>
              /\ o.phase \in {"Stopping", "Stopped"} => ~o.running
              /\ o.phase \in {"ConsumerStarting", "Running", "Failed"} => o.running

\* A phase fits spec.running; one still to be written fits the SCI as read.
Agrees(phase, running) ==
    /\ phase \in {"Stopping", "Stopped"} => ~running
    /\ phase \in {"ConsumerStarting", "Running", "Failed"} => running

WriteAgrees ==
    sciWrite # None =>
        \/ sciWrite.phase = "ProviderStarting"
        \/ sciWrite.phase = "Stopping" /\ ~sciWrite.sci.running
        \/ sciWrite.phase = "ConsumerStarting" /\ sciWrite.sci.running

\* A step that changes one SCI at most, to a truthful one, keeps all truthful.
LEMMA OneTruthful ==
    ASSUME TypeOK, \A m \in Names : Truthful(sci[m]),
           NEW n \in Names, NEW x, sci' = [sci EXCEPT ![n] = x], Truthful(x)
    PROVE  \A m \in Names : Truthful(sci'[m])
    BY DEF TypeOK

\* DELETE raises the generation of what it marks.
LEMMA DeletedTruthful ==
    ASSUME NEW o \in Opt(StoppableContainerInstance), Truthful(o)
    PROVE  Truthful(Deleted(o))
<1>1. CASE o # None /\ ~o.deleting /\ o.finalizer
  <2> DEFINE x == [o EXCEPT !.deleting = TRUE, !.gen = @ + 1]
  <2>1. o \in StoppableContainerInstance
      BY <1>1 DEF Opt
  <2>2. x.obs = o.obs /\ x.gen = o.gen + 1
      BY <2>1, Zenon DEF StoppableContainerInstance
  <2>3. o.obs \in Nat /\ o.gen \in Nat
      BY <2>1 DEF StoppableContainerInstance
  <2>4. Deleted(o) = x
      BY <1>1 DEF Deleted
  <2> HIDE DEF x
  <2> QED BY <1>1, <2>2, <2>3, <2>4 DEF Truthful
<1>2. CASE ~(o # None /\ ~o.deleting /\ o.finalizer)
    BY <1>2 DEF Deleted, Truthful
<1> QED BY <1>1, <1>2

\* The SC reconciler changes spec.running together with the generation.
LEMMA ScTruthful ==
    ASSUME TypeOK, \A m \in Names : Truthful(sci[m]),
           NEW n \in Names, ScReconcile(n) \/ ScError(n)
    PROVE  (\A m \in Names : Truthful(sci'[m])) /\ sciWrite' = sciWrite
<1> USE DEF store
<1>1. sciWrite' = sciWrite
    BY DEF ScReconcile, ScIgnore, ScDeleteInstance, ScRemoveFinalizer,
       ScAddFinalizer, createInstance, ScSetInstanceRunning, ScStatusUpdate,
       updateStatusFromInstance, updateStatusStopped, ScWriteStatus, ScError
<1>2. CASE \/ ScIgnore(n) \/ ScRemoveFinalizer(n) \/ ScAddFinalizer(n)
           \/ updateStatusFromInstance(n) \/ updateStatusStopped(n)
           \/ ScWriteStatus(n) \/ ScError(n)
  <2>1. sci' = sci
      BY <1>2 DEF ScIgnore, ScRemoveFinalizer, ScAddFinalizer, ScStatusUpdate,
         updateStatusFromInstance, updateStatusStopped, ScWriteStatus, ScError
  <2> QED BY <1>1, <2>1
<1>3. CASE ScDeleteInstance(n)
  <2>1. Truthful(Deleted(sci[n]))
      BY DeletedTruthful DEF TypeOK
  <2> QED BY <1>1, <1>3, <2>1, OneTruthful DEF ScDeleteInstance
<1>4. CASE createInstance(n)
  <2>1. Truthful(NewInstance(csc[n].uid))
    <3> DEFINE x == NewInstance(csc[n].uid)
    <3>1. x.obs = 0 /\ x.gen = 1
        BY Zenon DEF NewInstance
    <3> HIDE DEF x
    <3>2. Truthful(x)
        BY <3>1 DEF Truthful
    <3> QED BY <3>2 DEF x
  <2>2. CASE sci[n] = None
      BY <1>1, <1>4, <2>1, <2>2, OneTruthful DEF createInstance
  <2>3. CASE sci[n] # None
      BY <1>1, <1>4, <2>3 DEF createInstance
  <2> QED BY <2>2, <2>3
<1>5. CASE ScSetInstanceRunning(n)
  <2>1. CASE sci[n] # csci[n]
      BY <1>1, <1>5, <2>1 DEF ScSetInstanceRunning
  <2>2. CASE sci[n] = csci[n]
    <3> DEFINE x == [csci[n] EXCEPT !.running = csc[n].running, !.gen = @ + 1]
    <3>1. sci' = [sci EXCEPT ![n] = x] /\ csci[n] # None
        BY <1>5, <2>2 DEF ScSetInstanceRunning
    <3>2. csci[n] \in StoppableContainerInstance
        BY <3>1 DEF TypeOK, Opt
    <3>3. x.obs = csci[n].obs /\ x.gen = csci[n].gen + 1
        BY <3>2, Zenon DEF StoppableContainerInstance
    <3>4. csci[n].obs \in Nat /\ csci[n].gen \in Nat
        BY <3>2 DEF StoppableContainerInstance
    <3> HIDE DEF x
    <3>5. Truthful(x)
        BY <2>2, <3>1, <3>3, <3>4, SMTT(60) DEF Truthful
    <3> QED BY <1>1, <3>1, <3>5, OneTruthful
  <2> QED BY <2>1, <2>2
<1> QED BY <1>2, <1>3, <1>4, <1>5 DEF ScReconcile

\* updatePhase records the generation of the object it read.
LEMMA UpdatePhaseTruthful ==
    ASSUME TypeOK, \A m \in Names : Truthful(sci[m]), NEW n \in Names,
           NEW read \in StoppableContainerInstance, NEW phase, NEW node, NEW woken,
           Agrees(phase, read.running), updatePhase(n, read, phase, node, woken)
    PROVE  (\A m \in Names : Truthful(sci'[m])) /\ WriteAgrees'
<1>1. sciWrite' = None
    BY DEF updatePhase, SciReturns
<1>2. CASE sci[n] # read
    BY <1>1, <1>2 DEF updatePhase, WriteAgrees
<1>3. CASE sci[n] = read
  <2> DEFINE x == [read EXCEPT !.phase = phase, !.node = node, !.obs = read.gen]
  <2>1. sci' = [sci EXCEPT ![n] = x]
      BY <1>3 DEF updatePhase
  <2>2. /\ x.obs = read.gen /\ x.gen = read.gen
        /\ x.phase = phase /\ x.running = read.running
      BY Zenon DEF StoppableContainerInstance
  <2>3. read.gen \in Nat
      BY DEF StoppableContainerInstance
  <2> HIDE DEF x
  <2>4. Truthful(x)
      BY <2>2, <2>3, SMTT(60) DEF Truthful, Agrees
  <2> QED BY <1>1, <2>1, <2>4, OneTruthful DEF WriteAgrees
<1> QED BY <1>2, <1>3

\* The SCI reconciler computes every status from the SCI it read.
LEMMA SciTruthful ==
    ASSUME TypeOK, \A m \in Names : Truthful(sci[m]), WriteAgrees,
           NEW n \in Names, SciReconcile(n) \/ SciError(n)
    PROVE  (\A m \in Names : Truthful(sci'[m])) /\ WriteAgrees'
<1> USE DEF store
<1>1. ASSUME sciWrite' = None
      PROVE  WriteAgrees'
    BY <1>1 DEF WriteAgrees
<1>2. CASE SciIgnore(n) \/ SciDeleteConsumer(n) \/ SciDeleteProvider(n) \/ SciError(n)
    BY <1>1, <1>2 DEF SciIgnore, SciDeleteConsumer, SciDeleteProvider, SciError,
       SciReturns
<1>3. CASE SciRemoveFinalizer(n)
  <2>1. Truthful(None)
      BY DEF Truthful
  <2>2. sci' \in {sci, [sci EXCEPT ![n] = None]}
      BY <1>3 DEF SciRemoveFinalizer
  <2> QED BY <1>1, <1>3, <2>1, <2>2, OneTruthful DEF SciRemoveFinalizer, SciReturns
<1>4. CASE SciAddFinalizer(n)
  <2>1. WriteAgrees'
      BY <1>1, <1>4 DEF SciAddFinalizer, SciReturns
  <2>2. CASE sci[n] # csci[n]
      BY <1>4, <2>1, <2>2 DEF SciAddFinalizer
  <2>3. CASE sci[n] = csci[n]
    <3> DEFINE x == [sci[n] EXCEPT !.finalizer = TRUE]
    <3>1. sci' = [sci EXCEPT ![n] = x] /\ sci[n] # None
        BY <1>4, <2>3 DEF SciAddFinalizer
    <3>2. sci[n] \in StoppableContainerInstance
        BY <3>1 DEF TypeOK, Opt
    <3>3. /\ x.obs = sci[n].obs /\ x.gen = sci[n].gen
          /\ x.phase = sci[n].phase /\ x.running = sci[n].running
        BY <3>2, Zenon DEF StoppableContainerInstance
    <3> HIDE DEF x
    <3>4. Truthful(x)
        BY <3>1, <3>3 DEF Truthful
    <3> QED BY <2>1, <3>1, <3>4, OneTruthful
  <2> QED BY <2>2, <2>3
<1>5. ASSUME NEW phase, NEW node, SciStatusPending(n, phase, node),
             \/ phase = "ProviderStarting"
             \/ phase = "Stopping" /\ ~csci[n].running
             \/ phase = "ConsumerStarting" /\ csci[n].running
      PROVE  WriteAgrees'
  <2>1. sciWrite'.phase = phase /\ sciWrite'.sci = csci[n]
      BY <1>5 DEF SciStatusPending
  <2> QED BY <1>5, <2>1 DEF WriteAgrees
<1>6. ASSUME NEW p, NEW node, NEW phase, NEW statusNode,
             SciCreatePod(n, p, node, phase, statusNode),
             \/ phase = "ProviderStarting"
             \/ phase = "ConsumerStarting" /\ csci[n].running
      PROVE  sci' = sci /\ WriteAgrees'
  <2>1. CASE pods[p] # None
      BY <1>1, <1>6, <2>1 DEF SciCreatePod, SciReturns
  <2>2. CASE pods[p] = None
      BY <1>5, <1>6, <2>2 DEF SciCreatePod
  <2> QED BY <2>1, <2>2
<1>7. CASE createProviderPod(n) \/ createConsumerPod(n)
    BY <1>6, <1>7 DEF createProviderPod, createConsumerPod
<1>8. CASE SciStopConsumer(n)
    BY <1>5, <1>8 DEF SciStopConsumer
<1>9. CASE SciWaitForProvider(n) \/ SciStopped(n) \/ SciReportConsumer(n)
  <2>1. csci[n] \in StoppableContainerInstance
      BY <1>9 DEF SciWaitForProvider, SciStopped, SciReportConsumer, ProviderUp,
         SciActive, TypeOK, Opt
  <2>2. CASE SciWaitForProvider(n)
      BY <2>1, <2>2, UpdatePhaseTruthful DEF SciWaitForProvider, Agrees
  <2>3. CASE SciStopped(n)
      BY <2>1, <2>3, UpdatePhaseTruthful DEF SciStopped, Agrees
  <2>4. CASE SciReportConsumer(n)
    <3>1. Agrees(RunningPhase(Consumer(n)), csci[n].running)
        BY <2>4 DEF SciReportConsumer, RunningPhase, Agrees
    <3> QED BY <2>1, <2>4, <3>1, UpdatePhaseTruthful DEF SciReportConsumer
  <2> QED BY <1>9, <2>2, <2>3, <2>4
<1>10. CASE SciWriteStatus(n)
  <2>1. sciWrite.sci \in StoppableContainerInstance
      BY <1>10 DEF SciWriteStatus, TypeOK, Opt, SciWrite
  <2>2. Agrees(sciWrite.phase, sciWrite.sci.running)
      BY <1>10 DEF SciWriteStatus, WriteAgrees, Agrees
  <2> QED BY <1>10, <2>1, <2>2, UpdatePhaseTruthful DEF SciWriteStatus
<1> QED BY <1>2, <1>3, <1>4, <1>7, <1>8, <1>9, <1>10 DEF SciReconcile

\* A status that claims to reflect the current generation agrees with
\* spec.running, whichever reads and writes of the two controllers race.
THEOREM StatusTruth == Spec => []InstanceStatusTruthful
<1> DEFINE Inv == (\A n \in Names : Truthful(sci[n])) /\ WriteAgrees
<1>1. Init => Inv
    BY DEF Init, Truthful, WriteAgrees
<1>2. TypeOK /\ Inv /\ [Next]_vars => Inv'
  <2> SUFFICES ASSUME TypeOK, Inv, [Next]_vars
               PROVE  Inv'
      OBVIOUS
  <2> USE DEF store, writes
  <2>1. ASSUME NEW n \in Names, sci' = [sci EXCEPT ![n] = Deleted(@)],
               sciWrite' = sciWrite
        PROVE  Inv'
    <3>1. Truthful(Deleted(sci[n]))
        BY DeletedTruthful DEF TypeOK
    <3> QED BY <2>1, <3>1, OneTruthful DEF WriteAgrees
  <2>2. ASSUME sci' = sci, sciWrite' \in {sciWrite, None}
        PROVE  Inv'
      BY <2>2 DEF WriteAgrees
  <2>3. CASE User
    <3>1. PICK n \in Names : \/ \E run \in BOOLEAN : UserCreate(n, run)
                             \/ UserToggle(n) \/ UserDelete(n)
                             \/ UserDeleteInstance(n)
        BY <2>3 DEF User
    <3>2. CASE UserDeleteInstance(n)
        BY <2>1, <3>2 DEF UserDeleteInstance
    <3>3. CASE ~UserDeleteInstance(n)
        BY <2>2, <3>1, <3>3 DEF UserCreate, UserToggle, UserDelete
    <3> QED BY <3>2, <3>3
  <2>4. CASE \E n \in Names : ScReconcile(n) \/ ScError(n)
      BY <2>4, ScTruthful DEF WriteAgrees
  <2>5. CASE \E n \in Names : SciReconcile(n) \/ SciError(n)
      BY <2>5, SciTruthful
  <2>6. CASE SyncSC \/ SyncSCI \/ SyncPods \/ ManagerRestart \/ UNCHANGED vars
      BY <2>2, <2>6 DEF SyncSC, SyncSCI, SyncPods, ManagerRestart, vars
  <2>7. CASE Kubernetes
    <3>1. CASE \E n \in Names : CollectInstance(n)
        BY <2>1, <3>1 DEF CollectInstance
    <3>2. CASE ~\E n \in Names : CollectInstance(n)
        BY <2>2, <2>7, <3>2 DEF Kubernetes, SetPod, SchedulePod, PodBecomesReady,
           PodBecomesUnready, PodFails, DrainPod, PodGone, CollectPod
    <3> QED BY <3>1, <3>2
  <2> QED BY <2>3, <2>4, <2>5, <2>6, <2>7 DEF Next, Manager
<1>3. Inv => InstanceStatusTruthful
    BY DEF InstanceStatusTruthful, Truthful
<1> QED BY <1>1, <1>2, <1>3, TypeCorrect, PTL DEF Spec

-----------------------------------------------------------------------------
\* A reconcile of the SC c whose instance is i would change nothing and would
\* not come back.
ScShown(c, i) ==
    c # None =>
        /\ ~c.deleting /\ c.finalizer /\ c.obs = c.gen
        /\ i = None => ~c.running /\ c.phase = "Stopped"
        /\ i # None => /\ i.running = c.running /\ c.node = i.node
                       /\ c.phase = PhaseFromInstance(i.phase) /\ Settled(c.phase)

\* The same for the SCI i with the provider p and the consumer c.
SciShown(i, p, c) ==
    i # None =>
        /\ ~i.deleting /\ i.finalizer /\ i.obs = i.gen
        /\ p # None /\ p.status = "Ready" /\ i.node = p.node
        /\ i.running => c # None /\ i.phase = RunningPhase(c) /\ SciSettled(i.phase)
        /\ ~i.running => c = None /\ i.phase = "Stopped"

\* The instance in the cache is gone, replaced or of an older generation, which
\* no later step undoes.
InstanceAhead(n) ==
    /\ csci[n] # None
    /\ sci[n] # None => sci[n].uid # csci[n].uid \/ csci[n].gen < sci[n].gen

\* The status write in flight is for n.
ScWriting(n) == scWrite # None /\ scWrite.name = n
SciWriting(n) == sciWrite # None /\ sciWrite.name = n

\* No wake-up of the SC controller is lost: n is queued, or will be when its
\* write in flight ends or its cache catches up, or nothing is left to do.
ScWaits(n) ==
    \/ scQueue[n]
    \/ InstanceAhead(n)
    \/ ScWriting(n) /\ scWrite.again
    \/ ~ScWriting(n) /\ (sc[n] # csc[n] \/ ScShown(csc[n], csci[n]))

\* Likewise for the SCI controller, whose writes in flight always come back.
SciWaits(n) ==
    \/ sciQueue[n]
    \/ SciWriting(n)
    \/ sci[n] # csci[n]
    \/ SciShown(csci[n], Provider(n), Consumer(n))

WriteUnsettled == sciWrite # None => ~SciSettled(sciWrite.phase)

Settling == WriteUnsettled /\ \A n \in Names : ScWaits(n) /\ SciWaits(n)

\* What is marked for deletion has a finalizer.
Marked(o) == o # None => (o.deleting => o.finalizer)

\* The cache does not show an SC or a generation that is still to come.
Known(n) ==
    /\ sc[n] # None => sc[n].uid < nextUid
    /\ csc[n] # None => csc[n].uid < nextUid
    /\ (csc[n] # None /\ sc[n] # None /\ csc[n].uid = sc[n].uid) =>
          csc[n].gen <= sc[n].gen
    /\ Marked(sc[n]) /\ Marked(csc[n]) /\ Marked(sci[n]) /\ Marked(csci[n])

AllKnown == \A n \in Names : Known(n)

\* What a step may do to an SC or an SCI o: write it, remove it or make it.
Rewritten(o, x) ==
    /\ o # None /\ x # None /\ x.uid = o.uid /\ o.gen <= x.gen
    /\ Marked(o) => Marked(x)

Moves(o, x) ==
    \/ x = o
    \/ x = None
    \/ Rewritten(o, x)
    \/ o = None /\ x # None /\ x.uid = nextUid /\ nextUid' = nextUid + 1 /\ Marked(x)

AllMove ==
    /\ \A n \in Names : Moves(sc[n], sc'[n]) /\ Moves(sci[n], sci'[n])
    /\ nextUid' \in {nextUid, nextUid + 1}
    /\ csc' = csc \/ (csc' = sc /\ sc' = sc)
    /\ csci' = csci \/ (csci' = sci /\ sci' = sci)

\* Generations and uids are numbers.
LEMMA GenTyped ==
    ASSUME TypeOK, NEW n \in Names
    PROVE  /\ sc[n] # None => sc[n].gen \in Nat /\ sc[n].uid \in Nat
           /\ csc[n] # None => csc[n].gen \in Nat /\ csc[n].uid \in Nat
           /\ sci[n] # None => sci[n].gen \in Nat /\ sci[n].uid \in Nat
           /\ csci[n] # None => csci[n].gen \in Nat /\ csci[n].uid \in Nat
           /\ nextUid \in Nat
    BY DEF TypeOK, Opt, StoppableContainer, StoppableContainerInstance

\* ... after a step as well.
LEMMA GenTypedNext ==
    ASSUME TypeOK', NEW n \in Names
    PROVE  /\ sc'[n] # None => sc'[n].gen \in Nat /\ sc'[n].uid \in Nat
           /\ sci'[n] # None => sci'[n].gen \in Nat /\ sci'[n].uid \in Nat
    BY DEF TypeOK, Opt, StoppableContainer, StoppableContainerInstance

\* Every kind of step keeps the caches behind the store.
LEMMA KnownKept ==
    ASSUME TypeOK, TypeOK', AllKnown, AllMove
    PROVE  AllKnown'
<1> SUFFICES ASSUME NEW n \in Names
             PROVE  Known(n)'
    BY DEF AllKnown
<1>1. /\ Known(n) /\ Moves(sc[n], sc'[n]) /\ Moves(sci[n], sci'[n])
      /\ nextUid' \in {nextUid, nextUid + 1}
    BY DEF AllKnown, AllMove
<1>2. nextUid \in Nat /\ nextUid' \in Nat
    BY DEF TypeOK
<1>3. /\ Marked(sc[n])' /\ Marked(csc[n])' /\ Marked(sci[n])' /\ Marked(csci[n])'
  <2>1. ASSUME NEW o, NEW x, Moves(o, x), Marked(o)
        PROVE  Marked(x)
      BY <2>1 DEF Moves, Rewritten, Marked
  <2>2. Marked(sc'[n]) /\ Marked(sci'[n])
      BY <1>1, <2>1 DEF Known
  <2> QED BY <1>1, <2>2 DEF AllMove, Known, Marked
<1>4. sc'[n] # None => sc'[n].uid < nextUid'
    BY <1>1, <1>2, GenTyped DEF Known, Moves, Rewritten
<1>5. CASE csc' = csc
  <2>1. csc[n] # None => csc[n].uid < nextUid /\ csc[n].uid < nextUid'
      BY <1>1, <1>2, GenTyped DEF Known
  <2>2. ASSUME csc[n] # None, sc'[n] # None, csc[n].uid = sc'[n].uid
        PROVE  csc[n].gen <= sc'[n].gen
    <3>1. sc'[n].uid # nextUid
        BY <1>2, <2>1, <2>2, GenTyped
    <3>2. CASE sc'[n] = sc[n]
        BY <1>1, <2>2, <3>2 DEF Known
    <3>3. CASE Rewritten(sc[n], sc'[n])
      <4>1. /\ csc[n].gen <= sc[n].gen /\ sc[n].gen <= sc'[n].gen /\ sc[n] # None
          BY <1>1, <2>2, <3>3 DEF Known, Rewritten
      <4>2. csc[n].gen \in Nat /\ sc[n].gen \in Nat /\ sc'[n].gen \in Nat
          BY <2>2, <4>1, GenTyped, GenTypedNext
      <4> QED BY <4>1, <4>2
    <3> QED BY <1>1, <2>2, <3>1, <3>2, <3>3 DEF Moves
  <2> QED BY <1>3, <1>4, <1>5, <2>1, <2>2 DEF Known
<1>6. CASE csc' = sc /\ sc' = sc
  <2>1. sc[n] # None => sc[n].gen <= sc[n].gen
      BY GenTyped
  <2> QED BY <1>3, <1>4, <1>6, <2>1 DEF Known
<1> QED BY <1>5, <1>6 DEF AllMove

\* A step that does not concern the SC controller's view of n: at most n is
\* queued, or the SC n changes to something the cache does not have.
ScFrame(n) ==
    /\ csc'[n] = csc[n] /\ csci'[n] = csci[n]
    /\ sc'[n] = sc[n] \/ sc'[n] # csc[n] \/ csc[n] = None
    /\ Moves(sci[n], sci'[n])
    /\ scQueue[n] => scQueue'[n]
    /\ scWrite' = scWrite \/ (~ScWriting(n) /\ ~ScWriting(n)')

\* The cached instance stays outdated until the cache takes over the new one.
LEMMA AheadStays ==
    ASSUME TypeOK, TypeOK', RootfsInv, NEW n \in Names, InstanceAhead(n),
           csci'[n] = csci[n], Moves(sci[n], sci'[n])
    PROVE  InstanceAhead(n)'
<1>1. csci[n] # None /\ csci[n].uid < nextUid
    BY DEF InstanceAhead, RootfsInv, UidsFresh
<1>2. CASE sci'[n] = sci[n] \/ sci'[n] = None
    BY <1>1, <1>2 DEF InstanceAhead
<1>3. CASE Rewritten(sci[n], sci'[n])
  <2>1. /\ sci[n] # None /\ sci'[n] # None /\ sci'[n].uid = sci[n].uid
        /\ sci[n].gen <= sci'[n].gen
      BY <1>3 DEF Rewritten
  <2>2. csci[n].gen \in Nat /\ sci[n].gen \in Nat /\ sci'[n].gen \in Nat
      BY <1>1, <2>1, GenTyped, GenTypedNext
  <2>3. CASE csci[n].gen < sci[n].gen
    <3>1. csci[n].gen < sci'[n].gen
        BY <2>1, <2>2, <2>3
    <3> QED BY <1>1, <3>1 DEF InstanceAhead
  <2>4. CASE sci[n].uid # csci[n].uid
      BY <1>1, <2>1, <2>4 DEF InstanceAhead
  <2> QED BY <2>1, <2>3, <2>4 DEF InstanceAhead
<1>4. CASE sci'[n].uid = nextUid
  <2>1. sci'[n].uid # csci[n].uid
      BY <1>1, <1>4, GenTyped
  <2> QED BY <1>1, <2>1 DEF InstanceAhead
<1> QED BY <1>2, <1>3, <1>4 DEF Moves

\* Such a step leaves the SC controller queued, at work, waiting or done.
LEMMA ScFrameKeeps ==
    ASSUME TypeOK, TypeOK', RootfsInv, NEW n \in Names, ScWaits(n), ScFrame(n)
    PROVE  ScWaits(n)'
<1>1. CASE scQueue[n]
    BY <1>1 DEF ScWaits, ScFrame
<1>2. CASE InstanceAhead(n)
    BY <1>2, AheadStays DEF ScWaits, ScFrame
<1>3. CASE ScWriting(n) /\ scWrite.again
    BY <1>3 DEF ScWaits, ScFrame, ScWriting
<1>4. CASE ~ScWriting(n) /\ (sc[n] # csc[n] \/ ScShown(csc[n], csci[n]))
    BY <1>4 DEF ScWaits, ScFrame, ScWriting, ScShown
<1> QED BY <1>1, <1>2, <1>3, <1>4 DEF ScWaits

\* The same for the SCI controller.
SciFrame(n) ==
    /\ csci'[n] = csci[n] /\ Provider(n)' = Provider(n) /\ Consumer(n)' = Consumer(n)
    /\ sci'[n] = sci[n] \/ sci'[n] # csci[n] \/ csci[n] = None
    /\ sciQueue[n] => sciQueue'[n]
    /\ sciWrite' = sciWrite \/ (~SciWriting(n) /\ ~SciWriting(n)')

\* Such a step leaves the SCI controller queued, at work, waiting or done.
LEMMA SciFrameKeeps ==
    ASSUME NEW n \in Names, SciWaits(n), SciFrame(n)
    PROVE  SciWaits(n)'
    BY DEF SciWaits, SciFrame, SciWriting, SciShown, RunningPhase, SciSettled,
           isPodFailed, isPodReady

\* DELETE moves an SC or an SCI, never to one that is in the cache.
Marks(o, x) ==
    \/ x = o
    \/ x = None
    \/ /\ o # None /\ ~o.deleting /\ x # None /\ x.uid = o.uid
       /\ x.gen = o.gen + 1 /\ x.deleting /\ x.finalizer

\* The API server's DELETE marks the object, drops it or does nothing.
LEMMA DeletedMarks ==
    /\ \A o \in Opt(StoppableContainer) : Marks(o, Deleted(o))
    /\ \A o \in Opt(StoppableContainerInstance) : Marks(o, Deleted(o))
<1>1. ASSUME NEW o \in Opt(StoppableContainer) \cup Opt(StoppableContainerInstance)
      PROVE  Marks(o, Deleted(o))
  <2> DEFINE x == [o EXCEPT !.deleting = TRUE, !.gen = @ + 1]
  <2>1. CASE o = None \/ o.deleting \/ ~o.finalizer
      BY <2>1 DEF Marks, Deleted
  <2>2. CASE o # None /\ ~o.deleting /\ o.finalizer
    <3>1. o \in StoppableContainer \/ o \in StoppableContainerInstance
        BY <1>1, <2>2 DEF Opt
    <3>2. /\ x.uid = o.uid /\ x.gen = o.gen + 1 /\ x.deleting = TRUE
          /\ x.finalizer = o.finalizer
        BY <3>1, Zenon DEF StoppableContainer, StoppableContainerInstance
    <3>3. x # None
      <4>1. o.gen + 1 \in Nat
          BY <3>1 DEF StoppableContainer, StoppableContainerInstance
      <4>2. x \in StoppableContainer \/ x \in StoppableContainerInstance
          BY <3>1, <4>1, Zenon DEF StoppableContainer, StoppableContainerInstance
      <4> QED BY <4>2, NoneAssumption
    <3>4. Deleted(o) = x
        BY <2>2 DEF Deleted
    <3> HIDE DEF x
    <3> QED BY <2>2, <3>2, <3>3, <3>4 DEF Marks
  <2> QED BY <2>1, <2>2
<1> QED BY <1>1

\* DELETE is one of the ways in which objects move.
LEMMA MarksMoves ==
    ASSUME NEW o, o # None => o.gen \in Nat, NEW x, Marks(o, x)
    PROVE  Moves(o, x)
<1>1. ASSUME o # None
      PROVE  o.gen <= o.gen + 1
    BY <1>1
<1> QED BY <1>1 DEF Marks, Moves, Rewritten, Marked

\* An instance that DELETE changes is not the one in the cache.
LEMMA InstanceMarked ==
    ASSUME TypeOK, RootfsInv, NEW n \in Names, Marks(sci[n], sci'[n])
    PROVE  sci'[n] = sci[n] \/ sci'[n] # csci[n] \/ csci[n] = None
    BY DEF Marks, RootfsInv, DeletionFinal

\* What the SC reconciler does when it handles n: nothing to other names, and it
\* does not turn the instance into the one that is in the cache.
ScEffect(n) ==
    /\ csc' = csc /\ csci' = csci /\ cpods' = cpods
    /\ sciQueue' = sciQueue /\ sciWrite' = sciWrite
    /\ nextUid' \in {nextUid, nextUid + 1}
    /\ \A m \in Names : m # n =>
          sc'[m] = sc[m] /\ sci'[m] = sci[m] /\ scQueue'[m] = scQueue[m]
    /\ scWrite # None => scWrite.name = n
    /\ scWrite' # None => scWrite'.name = n
    /\ Moves(sc[n], sc'[n]) /\ Moves(sci[n], sci'[n])
    /\ sci'[n] = sci[n] \/ sci'[n] # csci[n] \/ csci[n] = None

\* A status write to the SC n that is in the cache: it changes the SC, or the SC
\* showed this status already.
LEMMA ScStatusShown ==
    ASSUME TypeOK, NEW n \in Names, NEW phase \in Phase, NEW node \in Node,
           csc[n] # None, sc[n] = csc[n], ScStatusUpdate(n, csc[n], phase, node)
    PROVE  \/ sc'[n] # csc'[n]
           \/ /\ csc[n].phase = phase /\ csc[n].node = node
              /\ csc[n].obs = csc[n].gen
<1> DEFINE x == [csc[n] EXCEPT !.phase = phase, !.node = node, !.obs = csc[n].gen]
<1>1. csc[n] \in StoppableContainer
    BY DEF TypeOK, Opt
<1>2. x.phase = phase /\ x.node = node /\ x.obs = csc[n].gen
    BY <1>1, Zenon DEF StoppableContainer
<1>3. sc' = [sc EXCEPT ![n] = x] /\ csc' = csc
    BY DEF ScStatusUpdate, caches
<1>4. sc'[n] = x
    BY <1>3 DEF TypeOK
<1> HIDE DEF x
<1> QED BY <1>2, <1>3, <1>4

\* A status write to the SC as read moves nothing else.
LEMMA ScStatusEffect ==
    ASSUME TypeOK, NEW n \in Names, NEW read \in StoppableContainer,
           NEW phase \in Phase, NEW node \in Node, ScStatusUpdate(n, read, phase, node)
    PROVE  /\ csc' = csc /\ csci' = csci /\ cpods' = cpods /\ sci' = sci
           /\ sciQueue' = sciQueue /\ sciWrite' = sciWrite /\ nextUid' = nextUid
           /\ \A m \in Names : m # n => sc'[m] = sc[m]
           /\ Moves(sc[n], sc'[n])
<1> USE DEF caches
<1>1. /\ csc' = csc /\ csci' = csci /\ cpods' = cpods /\ sci' = sci
      /\ sciQueue' = sciQueue /\ sciWrite' = sciWrite /\ nextUid' = nextUid
    BY DEF ScStatusUpdate
<1>2. CASE sc[n] # read
    BY <1>1, <1>2 DEF ScStatusUpdate, Moves
<1>3. CASE sc[n] = read
  <2> DEFINE x == [read EXCEPT !.phase = phase, !.node = node, !.obs = read.gen]
  <2>1. sc' = [sc EXCEPT ![n] = x]
      BY <1>3 DEF ScStatusUpdate
  <2>2. /\ x.uid = read.uid /\ x.gen = read.gen /\ x.deleting = read.deleting
        /\ x.finalizer = read.finalizer
      BY Zenon DEF StoppableContainer
  <2>3. x # None /\ sc[n] # None
    <3>1. x \in StoppableContainer
        BY Zenon DEF StoppableContainer
    <3> QED BY <1>3, <3>1, NoneAssumption
  <2> HIDE DEF x
  <2>4. sc'[n] = x /\ \A m \in Names : m # n => sc'[m] = sc[m]
      BY <2>1 DEF TypeOK
  <2>5. read.gen <= read.gen
      BY DEF StoppableContainer
  <2> QED BY <1>1, <1>3, <2>2, <2>3, <2>4, <2>5 DEF Moves, Rewritten, Marked
<1> QED BY <1>2, <1>3

\* The end of a reconcile, or of its first part.
LEMMA ScReturnsEffect ==
    ASSUME TypeOK, NEW n \in Names, NEW again, ScReturns(n, again)
    PROVE  /\ scWrite' = None /\ scQueue'[n] = again
           /\ \A m \in Names : m # n => scQueue'[m] = scQueue[m]
    BY DEF TypeOK, ScReturns

\* A status write begun for the SC n is in flight, with its requeue decided.
LEMMA ScPendingEffect ==
    ASSUME TypeOK, NEW n \in Names, csc[n] # None, NEW phase \in Phase,
           NEW node \in Node, NEW again \in BOOLEAN,
           ScStatusPending(n, phase, node, again)
    PROVE  /\ ScWriting(n)' /\ scWrite'.again = again
           /\ \A m \in Names : m # n => scQueue'[m] = scQueue[m]
<1>1. /\ scWrite'.name = n /\ scWrite'.again = again /\ scWrite'.phase = phase
      /\ \A m \in Names : m # n => scQueue'[m] = scQueue[m]
    BY DEF TypeOK, ScStatusPending
<1>2. csc[n] \in StoppableContainer
    BY DEF TypeOK, Opt
<1>3. scWrite' \in ScWrite
    BY <1>2 DEF ScStatusPending, ScWrite
<1> QED BY <1>1, <1>3, ScWriteAssumption DEF ScWriting

\* One reconcile of the SC controller: it leaves n queued, writing, waiting for
\* its own write to show up in the cache, or done.
LEMMA ScSettles ==
    ASSUME TypeOK, RootfsInv, NEW n \in Names, Known(n), ScWaits(n),
           ScReconcile(n) \/ ScError(n)
    PROVE  ScEffect(n) /\ ScWaits(n)'
<1> USE DEF store, caches
<1>1. CASE ScIgnore(n)
  <2>1. csc[n] = None /\ scWrite = None
      BY <1>1 DEF ScIgnore, ScTakes, Known, Marked
  <2>2. /\ scWrite' = None /\ \A m \in Names : m # n => scQueue'[m] = scQueue[m]
      BY <1>1, ScReturnsEffect, Zenon DEF ScIgnore
  <2>3. ScEffect(n)
      BY <1>1, <2>1, <2>2 DEF ScIgnore, ScEffect, Moves
  <2>4. csc'[n] = None
      BY <1>1, <2>1 DEF ScIgnore
  <2> QED BY <2>2, <2>3, <2>4 DEF ScWaits, ScWriting, ScShown
<1>2. CASE ScDeleteInstance(n)
  <2>1. /\ csc' = csc /\ csci' = csci /\ cpods' = cpods /\ sc' = sc
        /\ sciQueue' = sciQueue /\ sciWrite' = sciWrite /\ scWrite = None
        /\ nextUid' = nextUid /\ ScReturns(n, TRUE)
        /\ sci' = [sci EXCEPT ![n] = Deleted(sci[n])]
      BY <1>2, Zenon DEF ScDeleteInstance, ScDeleting, ScTakes
  <2>2. /\ scWrite' = None /\ scQueue'[n]
        /\ \A m \in Names : m # n => scQueue'[m] = scQueue[m]
      BY <2>1, ScReturnsEffect, Zenon
  <2>3. sci'[n] = Deleted(sci[n]) /\ \A m \in Names : m # n => sci'[m] = sci[m]
      BY <2>1 DEF TypeOK
  <2>4. Marks(sci[n], sci'[n])
      BY <2>3, DeletedMarks DEF TypeOK
  <2>5. Moves(sci[n], sci'[n])
      BY <2>4, MarksMoves, GenTyped
  <2>6. sci'[n] = sci[n] \/ sci'[n] # csci[n] \/ csci[n] = None
      BY <2>4, InstanceMarked
  <2> QED BY <2>1, <2>2, <2>3, <2>5, <2>6 DEF ScEffect, ScWaits, Moves
<1>3. CASE ScAddFinalizer(n)
  <2>1. /\ csc' = csc /\ csci' = csci /\ cpods' = cpods /\ sci' = sci
        /\ sciQueue' = sciQueue /\ sciWrite' = sciWrite /\ scWrite = None
        /\ nextUid' = nextUid /\ ScReturns(n, TRUE) /\ csc[n] # None
      BY <1>3, Zenon DEF ScAddFinalizer, ScTakes
  <2>2. /\ scWrite' = None /\ scQueue'[n]
        /\ \A m \in Names : m # n => scQueue'[m] = scQueue[m]
      BY <2>1, ScReturnsEffect, Zenon
  <2>3. Moves(sc[n], sc'[n]) /\ \A m \in Names : m # n => sc'[m] = sc[m]
    <3>1. CASE sc[n] # csc[n]
        BY <1>3, <3>1 DEF ScAddFinalizer, Moves
    <3>2. CASE sc[n] = csc[n]
      <4> DEFINE x == [sc[n] EXCEPT !.finalizer = TRUE]
      <4>1. sc' = [sc EXCEPT ![n] = x]
          BY <1>3, <3>2 DEF ScAddFinalizer
      <4>2. sc[n] \in StoppableContainer
          BY <2>1, <3>2 DEF TypeOK, Opt
      <4>3. x.uid = sc[n].uid /\ x.gen = sc[n].gen /\ x.finalizer = TRUE
          BY <4>2, Zenon DEF StoppableContainer
      <4>4. x # None
        <5>1. x \in StoppableContainer
            BY <4>2, Zenon DEF StoppableContainer
        <5> QED BY <5>1, NoneAssumption, Zenon
      <4> HIDE DEF x
      <4>5. sc'[n] = x /\ \A m \in Names : m # n => sc'[m] = sc[m]
          BY <4>1 DEF TypeOK
      <4>6. sc[n].gen <= sc[n].gen
          BY <4>2 DEF StoppableContainer
      <4> QED BY <2>1, <3>2, <4>3, <4>4, <4>5, <4>6 DEF Moves, Rewritten, Marked
    <3> QED BY <3>1, <3>2
  <2> QED BY <2>1, <2>2, <2>3 DEF ScEffect, ScWaits, Moves
<1>4. CASE createInstance(n)
  <2>1. /\ csc' = csc /\ csci' = csci /\ cpods' = cpods /\ sc' = sc
        /\ sciQueue' = sciQueue /\ sciWrite' = sciWrite /\ scWrite = None
        /\ csc[n] # None /\ csci[n] = None
      BY <1>4 DEF createInstance, ScActive, ScTakes
  <2>2. CASE sci[n] # None
    <3>1. sci' = sci /\ nextUid' = nextUid /\ ScReturns(n, TRUE)
        BY <1>4, <2>2, Zenon DEF createInstance
    <3>2. /\ scWrite' = None /\ scQueue'[n]
          /\ \A m \in Names : m # n => scQueue'[m] = scQueue[m]
        BY <3>1, ScReturnsEffect, Zenon
    <3> QED BY <2>1, <3>1, <3>2 DEF ScEffect, ScWaits, Moves
  <2>3. CASE sci[n] = None
    <3> DEFINE x == NewInstance(csc[n].uid)
    <3>1. /\ sci' = [sci EXCEPT ![n] = x] /\ csc[n] \in StoppableContainer
          /\ nextUid' = nextUid + 1
          /\ ScStatusPending(n, "Pending", csc[n].node, TRUE)
        BY <1>4, <2>1, <2>3, Zenon DEF createInstance, TypeOK, Opt
    <3>2. x # None
      <4>1. x \in StoppableContainerInstance
          BY <3>1 DEF NewInstance, StoppableContainer, StoppableContainerInstance,
                      InstancePhase, Node, TypeOK
      <4> QED BY <4>1, NoneAssumption
    <3>3. x.uid = nextUid /\ x.deleting = FALSE
        BY DEF NewInstance
    <3> HIDE DEF x
    <3>4. sci'[n] = x /\ \A m \in Names : m # n => sci'[m] = sci[m]
        BY <3>1 DEF TypeOK
    <3>5. "Pending" \in Phase /\ csc[n].node \in Node
        BY <3>1 DEF Phase, StoppableContainer
    <3>6. /\ ScWriting(n)' /\ scWrite'.again
          /\ \A m \in Names : m # n => scQueue'[m] = scQueue[m]
        BY <2>1, <3>1, <3>5, ScPendingEffect, Zenon
    <3>7. Moves(sci[n], sci'[n])
        BY <2>3, <3>1, <3>2, <3>4, <3>3 DEF Moves, Marked
    <3> QED BY <2>1, <3>1, <3>4, <3>6, <3>7 DEF ScEffect, ScWaits, ScWriting, Moves
  <2> QED BY <2>2, <2>3
<1>5. CASE ScSetInstanceRunning(n)
  <2>1. /\ csc' = csc /\ csci' = csci /\ cpods' = cpods /\ sc' = sc
        /\ sciQueue' = sciQueue /\ sciWrite' = sciWrite /\ scWrite = None
        /\ nextUid' = nextUid /\ csc[n] # None /\ csci[n] # None
      BY <1>5 DEF ScSetInstanceRunning, ScActive, ScTakes
  <2>2. CASE sci[n] # csci[n]
    <3>1. sci' = sci /\ ScReturns(n, TRUE)
        BY <1>5, <2>2, Zenon DEF ScSetInstanceRunning
    <3>2. /\ scWrite' = None /\ scQueue'[n]
          /\ \A m \in Names : m # n => scQueue'[m] = scQueue[m]
        BY <3>1, ScReturnsEffect, Zenon
    <3> QED BY <2>1, <3>1, <3>2 DEF ScEffect, ScWaits, Moves
  <2>3. CASE sci[n] = csci[n]
    <3> DEFINE x == [csci[n] EXCEPT !.running = csc[n].running, !.gen = @ + 1]
               phase == PhaseFromInstance(csci[n].phase)
    <3>1. /\ sci' = [sci EXCEPT ![n] = x]
          /\ ScStatusPending(n, phase, csci[n].node, ~Settled(phase))
        BY <1>5, <2>1, <2>3 DEF ScSetInstanceRunning
    <3>2. csci[n] \in StoppableContainerInstance /\ csc[n] \in StoppableContainer
        BY <2>1 DEF TypeOK, Opt
    <3>3. /\ x.gen = csci[n].gen + 1 /\ x.uid = csci[n].uid
          /\ x.deleting = csci[n].deleting /\ x.finalizer = csci[n].finalizer
        BY <3>2, Zenon DEF StoppableContainerInstance
    <3>4. csci[n].gen \in Nat /\ csci[n].gen + 1 \in Nat /\ csc[n].running \in BOOLEAN
        BY <3>2 DEF StoppableContainerInstance, StoppableContainer
    <3>5. x # None
      <4>1. x \in StoppableContainerInstance
          BY <3>2, <3>4, Zenon DEF StoppableContainerInstance
      <4> QED BY <4>1, NoneAssumption
    <3>6. phase \in Phase /\ csci[n].node \in Node
        BY <3>2 DEF PhaseFromInstance, Phase, StoppableContainerInstance
    <3> HIDE DEF x, phase
    <3>7. sci'[n] = x /\ \A m \in Names : m # n => sci'[m] = sci[m]
        BY <3>1 DEF TypeOK
    <3>8. ScWriting(n)' /\ \A m \in Names : m # n => scQueue'[m] = scQueue[m]
        BY <2>1, <3>1, <3>6, ScPendingEffect, Zenon
    <3>9. InstanceAhead(n)'
        BY <2>1, <3>3, <3>4, <3>5, <3>7 DEF InstanceAhead
    <3>10. csci[n].gen <= x.gen /\ x # csci[n]
        BY <3>3, <3>4
    <3>11. Moves(sci[n], sci'[n]) /\ sci'[n] # csci[n]
        BY <2>1, <2>3, <3>3, <3>5, <3>7, <3>10 DEF Moves, Rewritten, Marked
    <3> QED BY <2>1, <3>7, <3>8, <3>9, <3>11 DEF ScEffect, ScWaits, ScWriting, Moves
  <2> QED BY <2>2, <2>3
<1>6. CASE updateStatusFromInstance(n)
  <2> DEFINE phase == PhaseFromInstance(csci[n].phase)
  <2>1. /\ scWrite = None /\ csc[n] # None /\ csci[n] # None
        /\ ~csc[n].deleting /\ csc[n].finalizer /\ csci[n].running = csc[n].running
        /\ ScStatusUpdate(n, csc[n], phase, csci[n].node)
        /\ ScReturns(n, sc[n] # csc[n] \/ ~Settled(phase))
      BY <1>6 DEF updateStatusFromInstance, ScActive, ScTakes
  <2>2. csci[n] \in StoppableContainerInstance /\ csc[n] \in StoppableContainer
      BY <2>1 DEF TypeOK, Opt
  <2>3. phase \in Phase /\ csci[n].node \in Node
      BY <2>2 DEF PhaseFromInstance, Phase, StoppableContainerInstance
  <2>4. /\ scWrite' = None /\ scQueue'[n] = (sc[n] # csc[n] \/ ~Settled(phase))
        /\ \A m \in Names : m # n => scQueue'[m] = scQueue[m]
      BY <2>1, ScReturnsEffect
  <2>5. ScEffect(n) /\ csc' = csc /\ csci' = csci
    <3> HIDE DEF phase
    <3> QED BY <2>1, <2>2, <2>3, <2>4, ScStatusEffect DEF ScEffect, Moves
  <2>6. ScWaits(n)'
    <3>1. CASE sc[n] # csc[n] \/ ~Settled(phase)
        BY <2>4, <3>1, Zenon DEF ScWaits
    <3>2. CASE sc[n] = csc[n] /\ Settled(phase)
      <4>1. \/ sc'[n] # csc'[n]
            \/ /\ csc[n].phase = phase /\ csc[n].node = csci[n].node
               /\ csc[n].obs = csc[n].gen
        <5> HIDE DEF phase
        <5> QED BY <2>1, <2>3, <3>2, ScStatusShown
      <4>2. CASE sc'[n] # csc'[n]
          BY <2>4, <4>2 DEF ScWaits, ScWriting
      <4>3. CASE sc'[n] = csc'[n]
        <5>1. ScShown(csc[n], csci[n])
            BY <2>1, <3>2, <4>1, <4>3 DEF ScShown
        <5> QED BY <2>4, <2>5, <5>1 DEF ScWaits, ScWriting, ScShown
      <4> QED BY <4>2, <4>3
    <3> QED BY <3>1, <3>2
  <2> QED BY <2>5, <2>6
<1>7. CASE updateStatusStopped(n)
  <2>1. /\ scWrite = None /\ csc[n] # None /\ csci[n] = None
        /\ ~csc[n].deleting /\ csc[n].finalizer /\ ~csc[n].running
        /\ ScStatusUpdate(n, csc[n], "Stopped", csc[n].node)
        /\ ScReturns(n, sc[n] # csc[n])
      BY <1>7 DEF updateStatusStopped, ScActive, ScTakes
  <2>2. csc[n] \in StoppableContainer
      BY <2>1 DEF TypeOK, Opt
  <2>3. "Stopped" \in Phase /\ csc[n].node \in Node
      BY <2>2 DEF Phase, StoppableContainer
  <2>4. /\ scWrite' = None /\ scQueue'[n] = (sc[n] # csc[n])
        /\ \A m \in Names : m # n => scQueue'[m] = scQueue[m]
      BY <2>1, ScReturnsEffect
  <2>5. ScEffect(n) /\ csc' = csc /\ csci' = csci
      BY <2>1, <2>2, <2>3, <2>4, ScStatusEffect DEF ScEffect, Moves
  <2>6. ScWaits(n)'
    <3>1. CASE sc[n] # csc[n]
        BY <2>4, <3>1, Zenon DEF ScWaits
    <3>2. CASE sc[n] = csc[n]
      <4>1. sc'[n] # csc'[n] \/ (csc[n].phase = "Stopped" /\ csc[n].obs = csc[n].gen)
          BY <2>1, <2>3, <3>2, ScStatusShown
      <4>2. CASE sc'[n] # csc'[n]
          BY <2>4, <4>2 DEF ScWaits, ScWriting
      <4>3. CASE sc'[n] = csc'[n]
        <5>1. ScShown(csc[n], csci[n])
            BY <2>1, <4>1, <4>3 DEF ScShown
        <5> QED BY <2>4, <2>5, <5>1 DEF ScWaits, ScWriting, ScShown
      <4> QED BY <4>2, <4>3
    <3> QED BY <3>1, <3>2
  <2> QED BY <2>5, <2>6
<1>8. CASE ScWriteStatus(n)
  <2>1. /\ ScWriting(n) /\ scWrite # None /\ scWrite.name = n
        /\ ScStatusUpdate(n, scWrite.sc, scWrite.phase, scWrite.node)
        /\ ScReturns(n, scQueue[n] \/ scWrite.again \/ sc[n] # scWrite.sc)
      BY <1>8 DEF ScWriteStatus, ScWriting
  <2>2. /\ scWrite.sc \in StoppableContainer /\ scWrite.phase \in Phase
        /\ scWrite.node \in Node
      BY <2>1 DEF TypeOK, Opt, ScWrite
  <2>3. /\ scWrite' = None
        /\ scQueue'[n] = (scQueue[n] \/ scWrite.again \/ sc[n] # scWrite.sc)
        /\ \A m \in Names : m # n => scQueue'[m] = scQueue[m]
      BY <2>1, ScReturnsEffect
  <2>4. ScEffect(n) /\ csc' = csc /\ csci' = csci /\ sci' = sci
      BY <2>1, <2>2, <2>3, ScStatusEffect DEF ScEffect, Moves
  <2>5. ScWaits(n)'
    <3>1. CASE scQueue[n] \/ scWrite.again
        BY <2>3, <3>1, Zenon DEF ScWaits
    <3>2. CASE InstanceAhead(n)
        BY <2>4, <3>2 DEF ScWaits, InstanceAhead
    <3> QED BY <2>1, <3>1, <3>2 DEF ScWaits
  <2> QED BY <2>4, <2>5
<1>9. CASE ScError(n)
  <2>1. /\ csc' = csc /\ csci' = csci /\ cpods' = cpods /\ sc' = sc /\ sci' = sci
        /\ sciQueue' = sciQueue /\ sciWrite' = sciWrite /\ nextUid' = nextUid
        /\ scWrite.name = n /\ ScReturns(n, TRUE)
      BY <1>9, Zenon DEF ScError
  <2>2. /\ scWrite' = None /\ scQueue'[n]
        /\ \A m \in Names : m # n => scQueue'[m] = scQueue[m]
      BY <2>1, ScReturnsEffect, Zenon
  <2> QED BY <2>1, <2>2 DEF ScEffect, ScWaits, Moves
<1>10. CASE ScRemoveFinalizer(n)
  <2>1. /\ csc' = csc /\ csci' = csci /\ cpods' = cpods /\ sci' = sci
        /\ sciQueue' = sciQueue /\ sciWrite' = sciWrite /\ scWrite = None
        /\ nextUid' = nextUid /\ csc[n] # None /\ ScReturns(n, sc[n] # csc[n])
      BY <1>10 DEF ScRemoveFinalizer, ScDeleting, ScTakes
  <2>2. /\ scWrite' = None /\ scQueue'[n] = (sc[n] # csc[n])
        /\ \A m \in Names : m # n => scQueue'[m] = scQueue[m]
      BY <2>1, ScReturnsEffect
  <2>3. CASE sc[n] # csc[n]
    <3>1. sc' = sc
        BY <1>10, <2>3 DEF ScRemoveFinalizer
    <3>2. scQueue'[n]
        BY <2>2, <2>3, Zenon
    <3> QED BY <2>1, <2>2, <3>1, <3>2 DEF ScEffect, ScWaits, Moves
  <2>4. CASE sc[n] = csc[n]
    <3>1. sc'[n] = None /\ \A m \in Names : m # n => sc'[m] = sc[m]
        BY <1>10, <2>4 DEF ScRemoveFinalizer, TypeOK
    <3> QED BY <2>1, <2>2, <3>1 DEF ScEffect, ScWaits, ScWriting, Moves
  <2> QED BY <2>3, <2>4
<1> QED BY <1>1, <1>2, <1>3, <1>4, <1>5, <1>6, <1>7, <1>8, <1>9, <1>10 DEF ScReconcile
=============================================================================
