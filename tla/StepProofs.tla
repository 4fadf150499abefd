----------------------------- MODULE StepProofs -----------------------------
(***************************************************************************)
(* What one step of the operator or its cluster may do to the pods, to the *)
(* SCIs and to the SCs.                                                    *)
(***************************************************************************)
EXTENDS OperatorProofs

\* What a step may do to the pods.  It leaves them alone, and the cache may
\* catch up ...
PodsIdle ==
    /\ pods' = pods /\ cpods' \in {cpods, pods}
    /\ nextUid' \in {nextUid, nextUid + 1}

\* ... or it removes one or changes it in place, placing it at most once and
\* taking back no deletion ...
PodChanges(q) ==
    /\ cpods' = cpods /\ sci' = sci /\ csci' = csci /\ nextUid' = nextUid
    /\ \A r \in PodNames : r # q => pods'[r] = pods[r]
    /\ pods'[q] # None =>
          /\ pods[q] # None
          /\ pods'[q].uid = pods[q].uid /\ pods'[q].inst = pods[q].inst
          /\ pods'[q].owner = pods[q].owner
          /\ pods[q].node # None => pods'[q].node = pods[q].node
          /\ pods[q].deleting => pods'[q].deleting

\* ... or an active SCI makes a pod the cache does not have, either its provider
\* or, if it is to be running, a consumer on the node of the cached provider.
PodMade(n, q) ==
    /\ cpods' = cpods /\ sci' = sci /\ csci' = csci /\ nextUid' = nextUid + 1
    /\ pods[q] = None /\ cpods[q] = None
    /\ \A r \in PodNames : r # q => pods'[r] = pods[r]
    /\ csci[n] # None /\ csci[n].finalizer /\ ~csci[n].deleting
    /\ pods'[q] # None /\ ~pods'[q].deleting
    /\ pods'[q].uid = nextUid /\ pods'[q].inst = n /\ pods'[q].owner = csci[n].uid
    /\ \/ q = ProviderPodName[n]
       \/ /\ q = n /\ csci[n].running /\ cpods[ProviderPodName[n]] # None
          /\ pods'[q].node = cpods[ProviderPodName[n]].node /\ pods'[q].node # None

PodStep ==
    \/ PodsIdle
    \/ \E q \in PodNames : PodChanges(q)
    \/ \E n \in Names, q \in PodNames : PodMade(n, q)

\* Neither the API server nor the kubelet turns a pod into another one.
LEMMA PodKeepsIdentity ==
    ASSUME NEW p \in Pod
    PROVE  /\ \A v : /\ [p EXCEPT !.node = v].uid = p.uid
                     /\ [p EXCEPT !.node = v].inst = p.inst
                     /\ [p EXCEPT !.node = v].owner = p.owner
                     /\ [p EXCEPT !.node = v].deleting = p.deleting
                     /\ [p EXCEPT !.status = v].uid = p.uid
                     /\ [p EXCEPT !.status = v].inst = p.inst
                     /\ [p EXCEPT !.status = v].owner = p.owner
                     /\ [p EXCEPT !.status = v].node = p.node
                     /\ [p EXCEPT !.status = v].deleting = p.deleting
           /\ PodDeleted(p) # None =>
                 /\ PodDeleted(p).uid = p.uid /\ PodDeleted(p).inst = p.inst
                 /\ PodDeleted(p).owner = p.owner /\ PodDeleted(p).node = p.node
                 /\ PodDeleted(p).deleting
<1>1. [p EXCEPT !.deleting = TRUE].node = p.node /\ [p EXCEPT !.deleting = TRUE].deleting
    BY Zenon DEF Pod
<1>2. p \in Opt(Pod) /\ p # None
    BY NoneAssumption DEF Opt
<1>3. PodDeleted(p) # None => PodDeleted(p).node = p.node /\ PodDeleted(p).deleting
    BY <1>1 DEF PodDeleted
<1>4. \A v : /\ [p EXCEPT !.node = v].uid = p.uid
             /\ [p EXCEPT !.node = v].inst = p.inst
             /\ [p EXCEPT !.node = v].owner = p.owner
             /\ [p EXCEPT !.node = v].deleting = p.deleting
    BY Zenon DEF Pod
<1>5. \A v : /\ [p EXCEPT !.status = v].uid = p.uid
             /\ [p EXCEPT !.status = v].inst = p.inst
             /\ [p EXCEPT !.status = v].owner = p.owner
             /\ [p EXCEPT !.status = v].node = p.node
             /\ [p EXCEPT !.status = v].deleting = p.deleting
    BY Zenon DEF Pod
<1> QED BY <1>2, <1>3, <1>4, <1>5, DeletedKeepsIdentity

\* DELETE on a pod changes it in place.
LEMMA DeletedPodChanges ==
    ASSUME TypeOK, NEW q \in PodNames, pods' = [pods EXCEPT ![q] = PodDeleted(@)],
           cpods' = cpods, sci' = sci, csci' = csci, nextUid' = nextUid
    PROVE  PodChanges(q)
<1>1. /\ pods'[q] = PodDeleted(pods[q])
      /\ \A r \in PodNames : r # q => pods'[r] = pods[r]
    BY DEF TypeOK
<1>2. CASE pods[q] = None
    BY <1>1, <1>2 DEF PodChanges, PodDeleted
<1>3. CASE pods[q] # None
  <2>1. pods[q] \in Pod
      BY <1>3 DEF TypeOK, Opt
  <2> QED BY <1>1, <1>3, <2>1, PodKeepsIdentity DEF PodChanges
<1> QED BY <1>2, <1>3

\* The SC reconciler leaves the pods alone.
LEMMA ScPods ==
    ASSUME TypeOK, NEW n \in Names, ScReconcile(n) \/ ScError(n)
    PROVE  PodsIdle
<1> USE DEF store, caches
<1>1. /\ pods' = pods /\ cpods' = cpods
      /\ nextUid' = nextUid \/ nextUid' = nextUid + 1
    BY DEF ScReconcile, ScIgnore, ScDeleteInstance, ScRemoveFinalizer,
       ScAddFinalizer, createInstance, ScSetInstanceRunning, ScStatusUpdate,
       updateStatusFromInstance, updateStatusStopped, ScWriteStatus, ScError
<1> QED BY <1>1 DEF PodsIdle

\* The SCI reconciler makes a pod only if the cache has none of that name.
LEMMA SciPods ==
    ASSUME TypeOK, NEW n \in Names, SciReconcile(n) \/ SciError(n)
    PROVE  PodStep
<1> USE DEF store, caches
<1> DEFINE p == ProviderPodName[n]
<1>1. n \in PodNames /\ p \in PodNames
    BY NamesAssumption, ProviderNameAssumption
<1>2. CASE \/ SciIgnore(n) \/ SciRemoveFinalizer(n) \/ SciAddFinalizer(n)
           \/ SciWaitForProvider(n) \/ SciStopped(n) \/ SciReportConsumer(n)
           \/ SciWriteStatus(n) \/ SciError(n)
  <2>1. pods' = pods /\ cpods' = cpods /\ nextUid' = nextUid
      BY <1>2 DEF SciIgnore, SciRemoveFinalizer, SciAddFinalizer, updatePhase,
         SciWaitForProvider, SciStopped, SciReportConsumer, SciWriteStatus, SciError
  <2> QED BY <2>1 DEF PodStep, PodsIdle
<1>3. CASE SciDeleteConsumer(n) \/ SciStopConsumer(n)
  <2>1. PodChanges(n)
      BY <1>1, <1>3, DeletedPodChanges DEF SciDeleteConsumer, SciStopConsumer
  <2> QED BY <1>1, <2>1 DEF PodStep
<1>4. CASE SciDeleteProvider(n)
  <2>1. PodChanges(p)
      BY <1>1, <1>4, DeletedPodChanges DEF SciDeleteProvider
  <2> QED BY <1>1, <2>1 DEF PodStep
<1>5. ASSUME NEW q \in PodNames, NEW node \in Node, NEW phase, NEW statusNode,
             SciActive(n), cpods[q] = None, SciCreatePod(n, q, node, phase, statusNode),
             \/ q = p
             \/ /\ q = n /\ csci[n].running
                /\ cpods[p] # None /\ node = cpods[p].node /\ node # None
      PROVE  PodStep
  <2>1. CASE pods[q] # None
      BY <1>5, <2>1 DEF SciCreatePod, PodStep, PodsIdle
  <2>2. CASE pods[q] = None
    <3>1. /\ pods' = [pods EXCEPT ![q] = NewPod(n, node)]
          /\ nextUid' = nextUid + 1 /\ cpods' = cpods /\ sci' = sci /\ csci' = csci
        BY <1>5, <2>2 DEF SciCreatePod
    <3>2. /\ pods'[q] = NewPod(n, node)
          /\ \A r \in PodNames : r # q => pods'[r] = pods[r]
        BY <3>1 DEF TypeOK
    <3>3. csci[n] # None /\ csci[n].finalizer /\ ~csci[n].deleting
        BY <1>5 DEF SciActive
    <3>4. /\ NewPod(n, node).uid = nextUid /\ NewPod(n, node).inst = n
          /\ NewPod(n, node).owner = csci[n].uid /\ NewPod(n, node).node = node
          /\ ~NewPod(n, node).deleting
        BY DEF NewPod
    <3>5. NewPod(n, node) # None
      <4>1. csci[n].uid \in Nat /\ nextUid \in Nat
          BY <3>3, UidTyped
      <4>2. NewPod(n, node) \in Pod
          BY <4>1 DEF NewPod, Pod
      <4> QED BY <4>2, NoneAssumption
    <3>6. PodMade(n, q)
        BY <1>5, <2>2, <3>1, <3>2, <3>3, <3>4, <3>5 DEF PodMade
    <3> QED BY <3>6 DEF PodStep
  <2> QED BY <2>1, <2>2
<1>6. CASE createProviderPod(n)
  <2>1. None \in Node
      BY DEF Node
  <2> QED BY <1>1, <1>5, <1>6, <2>1 DEF createProviderPod, Provider
<1>7. CASE createConsumerPod(n)
  <2>1. cpods[p].node \in Node /\ cpods[p] # None /\ SciActive(n)
      BY <1>1, <1>7 DEF createConsumerPod, ProviderUp, Provider, TypeOK, Opt, Pod
  <2> QED BY <1>1, <1>5, <1>7, <2>1 DEF createConsumerPod, Provider, Consumer
<1> QED BY <1>2, <1>3, <1>4, <1>6, <1>7 DEF SciReconcile

\* Users, informers and cluster never make a pod.
LEMMA ClusterPods ==
    ASSUME TypeOK,
           \/ User \/ Kubernetes
           \/ SyncSC \/ SyncSCI \/ SyncPods \/ ManagerRestart
    PROVE  PodStep
<1> USE DEF store, caches
<1>1. CASE \/ User \/ SyncSC \/ SyncSCI \/ SyncPods \/ ManagerRestart
           \/ \E n \in Names : CollectInstance(n)
  <2>1. /\ pods' = pods /\ cpods' \in {cpods, pods}
        /\ nextUid' \in {nextUid, nextUid + 1}
      BY <1>1 DEF User, UserCreate, UserToggle, UserDelete, UserDeleteInstance,
         SyncSC, SyncSCI, SyncPods, ManagerRestart, CollectInstance
  <2> QED BY <2>1 DEF PodStep, PodsIdle
<1>2. ASSUME NEW q \in PodNames, NEW x, SetPod(q, x), pods[q] # None,
             x # None => /\ x.uid = pods[q].uid /\ x.inst = pods[q].inst
                         /\ x.owner = pods[q].owner
                         /\ pods[q].node # None => x.node = pods[q].node
                         /\ pods[q].deleting => x.deleting
      PROVE  PodStep
  <2>1. pods'[q] = x /\ \A r \in PodNames : r # q => pods'[r] = pods[r]
      BY <1>2 DEF SetPod, TypeOK
  <2>2. PodChanges(q)
      BY <1>2, <2>1 DEF PodChanges, SetPod
  <2> QED BY <2>2 DEF PodStep
<1>3. ASSUME NEW q \in PodNames,
             \/ \E node \in Nodes : SchedulePod(q, node)
             \/ PodBecomesReady(q) \/ PodBecomesUnready(q) \/ PodFails(q)
             \/ DrainPod(q) \/ PodGone(q) \/ CollectPod(q)
      PROVE  PodStep
  <2>1. pods[q] # None /\ pods[q] \in Pod
      BY <1>3 DEF TypeOK, Opt, SchedulePod, PodBecomesReady, PodBecomesUnready,
         PodFails, DrainPod, PodGone, CollectPod, PodOrphaned
  <2>2. CASE \E node \in Nodes : SchedulePod(q, node)
    <3>1. PICK node \in Nodes : SchedulePod(q, node)
        BY <2>2
    <3> DEFINE x == [pods[q] EXCEPT !.node = node]
    <3>2. SetPod(q, x) /\ pods[q].node = None
        BY <3>1 DEF SchedulePod
    <3>3. /\ x.uid = pods[q].uid /\ x.inst = pods[q].inst
          /\ x.owner = pods[q].owner /\ x.deleting = pods[q].deleting
        BY <2>1, PodKeepsIdentity
    <3> HIDE DEF x
    <3> QED BY <1>2, <2>1, <3>2, <3>3
  <2>3. CASE PodBecomesReady(q) \/ PodBecomesUnready(q) \/ PodFails(q)
    <3>1. PICK v : SetPod(q, [pods[q] EXCEPT !.status = v])
        BY <2>3 DEF PodBecomesReady, PodBecomesUnready, PodFails
    <3> DEFINE x == [pods[q] EXCEPT !.status = v]
    <3>2. SetPod(q, x)
        BY <3>1
    <3>3. /\ x.uid = pods[q].uid /\ x.inst = pods[q].inst
          /\ x.owner = pods[q].owner /\ x.node = pods[q].node
          /\ x.deleting = pods[q].deleting
        BY <2>1, PodKeepsIdentity
    <3> HIDE DEF x
    <3> QED BY <1>2, <2>1, <3>2, <3>3
  <2>4. CASE DrainPod(q) \/ CollectPod(q)
      BY <1>2, <2>1, <2>4, PodKeepsIdentity DEF DrainPod, CollectPod
  <2>5. CASE PodGone(q)
      BY <1>2, <2>1, <2>5 DEF PodGone
  <2> QED BY <1>3, <2>2, <2>3, <2>4, <2>5
<1> QED BY <1>1, <1>3 DEF Kubernetes

\* Every step does to the pods one of these.
LEMMA EveryPodStep == TypeOK /\ Next => PodStep
    BY ScPods, SciPods, ClusterPods DEF Next, Manager, PodStep

-----------------------------------------------------------------------------
\* The spec of x is that of o, or x is of a later generation, and a deletion is
\* not taken back.
SpecKept(o, x) ==
    /\ o.deleting => x.deleting
    /\ \/ x.gen = o.gen /\ x.running = o.running /\ x.deleting = o.deleting
       \/ o.gen < x.gen

\* DELETE as a change of the spec: it keeps all but the deletion and the
\* generation, and removes only what has no finalizer.
LEMMA DeletedSpec ==
    /\ \A o \in StoppableContainer :
          LET x == Deleted(o)
          IN  /\ x # None => /\ x.uid = o.uid /\ x.finalizer = o.finalizer
                             /\ x.running = o.running /\ SpecKept(o, x)
              /\ x = None => ~o.finalizer /\ ~o.deleting
    /\ \A o \in StoppableContainerInstance :
          LET x == Deleted(o)
          IN  /\ x # None => /\ x.uid = o.uid /\ x.finalizer = o.finalizer
                             /\ x.running = o.running /\ SpecKept(o, x)
                             /\ x.owner = o.owner
              /\ x = None => ~o.finalizer /\ ~o.deleting
<1>1. ASSUME NEW o \in StoppableContainer
      PROVE  /\ Deleted(o) # None =>
                   /\ Deleted(o).uid = o.uid /\ Deleted(o).finalizer = o.finalizer
                   /\ Deleted(o).running = o.running /\ SpecKept(o, Deleted(o))
             /\ Deleted(o) = None => ~o.finalizer /\ ~o.deleting
  <2> DEFINE x == [o EXCEPT !.deleting = TRUE, !.gen = @ + 1]
  <2>1. o.gen \in Nat /\ o # None /\ x # None
    <3>1. o.gen \in Nat /\ o.gen + 1 \in Nat
        BY DEF StoppableContainer
    <3>2. x \in StoppableContainer
        BY <3>1, Zenon DEF StoppableContainer
    <3> HIDE DEF x
    <3> QED BY <3>1, <3>2, NoneAssumption
  <2>2. /\ x.uid = o.uid /\ x.finalizer = o.finalizer /\ x.running = o.running
        /\ x.gen = o.gen + 1 /\ x.deleting = TRUE
      BY Zenon DEF StoppableContainer
  <2>3. /\ Deleted(o) \in {o, x, None}
        /\ Deleted(o) = None => o = None \/ x = None \/ (~o.finalizer /\ ~o.deleting)
      BY <2>1 DEF Deleted
  <2> HIDE DEF x
  <2>4. SpecKept(o, x) /\ SpecKept(o, o)
      BY <2>1, <2>2 DEF SpecKept
  <2> QED BY <2>1, <2>2, <2>3, <2>4
<1>2. ASSUME NEW o \in StoppableContainerInstance
      PROVE  /\ Deleted(o) # None =>
                   /\ Deleted(o).uid = o.uid /\ Deleted(o).finalizer = o.finalizer
                   /\ Deleted(o).running = o.running /\ SpecKept(o, Deleted(o))
                   /\ Deleted(o).owner = o.owner
             /\ Deleted(o) = None => ~o.finalizer /\ ~o.deleting
  <2> DEFINE x == [o EXCEPT !.deleting = TRUE, !.gen = @ + 1]
  <2>1. o.gen \in Nat /\ o # None /\ x # None
    <3>1. o.gen \in Nat /\ o.gen + 1 \in Nat
        BY DEF StoppableContainerInstance
    <3>2. x \in StoppableContainerInstance
        BY <3>1, Zenon DEF StoppableContainerInstance
    <3> HIDE DEF x
    <3> QED BY <3>1, <3>2, NoneAssumption
  <2>2. /\ x.uid = o.uid /\ x.finalizer = o.finalizer /\ x.running = o.running
        /\ x.gen = o.gen + 1 /\ x.owner = o.owner /\ x.deleting = TRUE
      BY Zenon DEF StoppableContainerInstance
  <2>3. /\ Deleted(o) \in {o, x, None}
        /\ Deleted(o) = None => o = None \/ x = None \/ (~o.finalizer /\ ~o.deleting)
      BY <2>1 DEF Deleted
  <2> HIDE DEF x
  <2>4. SpecKept(o, x) /\ SpecKept(o, o)
      BY <2>1, <2>2 DEF SpecKept
  <2> QED BY <2>1, <2>2, <2>3, <2>4
<1> QED BY <1>1, <1>2

\* The SC reconciler would act on the SC n, as it is in the cache, and not take
\* it down.
ScActing(n) == csc[n] # None /\ csc[n].finalizer /\ ~csc[n].deleting

\* Who asks for the deletion of the SCI n: the SC reconciler, which has read that
\* the SC is deleted, a user, or the garbage collector.
MayDelete(n) ==
    \/ csc[n] # None /\ csc[n].deleting
    \/ budget["deleteInstance"] > 0 /\ budget' # budget
    \/ InstanceOrphaned(n)

\* What a step may do to the SCI n: it keeps its identity and its finalizer, no
\* change to its spec leaves the generation alone, and running is set to what
\* the cached SC says ...
InstanceBecomes(n, x) ==
    /\ x # None /\ x.uid = sci[n].uid /\ x.owner = sci[n].owner
    /\ sci[n].finalizer => x.finalizer
    /\ SpecKept(sci[n], x)
    /\ x.running = sci[n].running \/ (ScActing(n) /\ x.running = csc[n].running)
    /\ x.deleting => sci[n].deleting \/ MayDelete(n)

\* ... it goes only without a finalizer, or when the cache knows that it is
\* deleted and has none of its pods ...
InstanceGoes(n) ==
    \/ ~sci[n].finalizer /\ MayDelete(n)
    \/ /\ csci[n] # None /\ csci[n].deleting /\ sci[n] = csci[n]
       /\ Consumer(n) = None /\ Provider(n) = None

\* ... and a new one has a fresh uid and is made for the cached SC, which is to
\* be running.
InstanceMade(n) ==
    /\ sci'[n].uid = nextUid /\ sci'[n].owner = csc[n].uid /\ ~sci'[n].deleting
    /\ ScActing(n) /\ csc[n].running
    /\ pods' = pods /\ sc' = sc /\ csc' = csc /\ csci' = csci /\ cpods' = cpods

InstanceStep(n) ==
    \/ sci[n] = None /\ sci'[n] = None
    \/ sci[n] # None /\ InstanceBecomes(n, sci'[n])
    \/ sci[n] # None /\ sci'[n] = None /\ InstanceGoes(n)
    \/ sci[n] = None /\ sci'[n] # None /\ InstanceMade(n)

InstancesStep ==
    /\ \A n \in Names : InstanceStep(n)
    /\ \/ csci' = csci
       \/ csci' = sci /\ sci' = sci /\ pods' = pods /\ nextUid' = nextUid

\* Nothing happens to the SCIs.
LEMMA InstancesIdle ==
    ASSUME sci' = sci, csci' = csci
    PROVE  InstancesStep
    BY DEF InstancesStep, InstanceStep, InstanceBecomes, SpecKept

\* One SCI is written or removed.
LEMMA InstanceWritten ==
    ASSUME TypeOK, csci' = csci, NEW n \in Names, NEW x,
           sci' = [sci EXCEPT ![n] = x], sci[n] # None,
           InstanceBecomes(n, x) \/ (x = None /\ InstanceGoes(n))
    PROVE  InstancesStep
<1>1. sci'[n] = x /\ \A m \in Names : m # n => sci'[m] = sci[m]
    BY DEF TypeOK
<1>2. \A m \in Names : m # n => InstanceStep(m)
    BY <1>1 DEF InstanceStep, InstanceBecomes, SpecKept
<1>3. InstanceStep(n)
    BY <1>1 DEF InstanceStep
<1> QED BY <1>2, <1>3 DEF InstancesStep

\* DELETE on an SCI is such a write.
LEMMA InstanceDeleted ==
    ASSUME TypeOK, csci' = csci, NEW n \in Names,
           sci' = [sci EXCEPT ![n] = Deleted(@)], sci[n] # None => MayDelete(n)
    PROVE  InstancesStep
<1>1. CASE sci[n] = None
  <2>1. sci' = sci
      BY <1>1 DEF TypeOK, Deleted
  <2> QED BY <2>1, InstancesIdle
<1>2. CASE sci[n] # None
  <2>1. sci[n] \in StoppableContainerInstance
      BY <1>2 DEF TypeOK, Opt
  <2>2. InstanceBecomes(n, Deleted(sci[n]))
        \/ (Deleted(sci[n]) = None /\ InstanceGoes(n))
      BY <1>2, <2>1, DeletedSpec DEF InstanceBecomes, InstanceGoes
  <2> QED BY <1>2, <2>2, InstanceWritten
<1> QED BY <1>1, <1>2

\* The SC reconciler's writes.
LEMMA ScInstances ==
    ASSUME TypeOK, NEW n \in Names, ScReconcile(n) \/ ScError(n)
    PROVE  InstancesStep
<1> USE DEF store, caches
<1>1. CASE \/ ScIgnore(n) \/ ScRemoveFinalizer(n) \/ ScAddFinalizer(n)
           \/ updateStatusFromInstance(n) \/ updateStatusStopped(n)
           \/ ScWriteStatus(n) \/ ScError(n)
  <2>1. sci' = sci /\ csci' = csci
      BY <1>1 DEF ScIgnore, ScRemoveFinalizer, ScAddFinalizer, ScStatusUpdate,
                  updateStatusFromInstance, updateStatusStopped, ScWriteStatus,
                  ScError
  <2> QED BY <2>1, InstancesIdle
<1>2. CASE ScDeleteInstance(n)
    BY <1>2, InstanceDeleted DEF ScDeleteInstance, ScDeleting, MayDelete
<1>3. CASE createInstance(n)
  <2>1. CASE sci[n] # None
      BY <1>3, <2>1, InstancesIdle DEF createInstance
  <2>2. CASE sci[n] = None
    <3>1. /\ sci' = [sci EXCEPT ![n] = NewInstance(csc[n].uid)]
          /\ pods' = pods /\ cpods' = cpods /\ csci' = csci /\ sc' = sc /\ csc' = csc
          /\ ScActing(n) /\ csc[n].running /\ csc[n] \in StoppableContainer
        BY <1>3, <2>2 DEF createInstance, ScActive, ScActing, TypeOK, Opt
    <3>2. NewInstance(csc[n].uid) # None
      <4>1. NewInstance(csc[n].uid) \in StoppableContainerInstance
          BY <3>1 DEF NewInstance, StoppableContainer, StoppableContainerInstance,
                      InstancePhase, Node, TypeOK
      <4> QED BY <4>1, NoneAssumption
    <3>3. /\ sci'[n] = NewInstance(csc[n].uid)
          /\ \A m \in Names : m # n => sci'[m] = sci[m]
        BY <3>1 DEF TypeOK
    <3>4. /\ sci'[n].uid = nextUid /\ sci'[n].owner = csc[n].uid
          /\ ~sci'[n].deleting
      <4>1. /\ NewInstance(csc[n].uid).uid = nextUid
            /\ NewInstance(csc[n].uid).owner = csc[n].uid
            /\ ~NewInstance(csc[n].uid).deleting
          BY DEF NewInstance
      <4> QED BY <3>3, <4>1
    <3>5. InstanceStep(n)
        BY <2>2, <3>1, <3>2, <3>3, <3>4 DEF InstanceStep, InstanceMade
    <3>6. \A m \in Names : m # n => InstanceStep(m)
        BY <3>3 DEF InstanceStep, InstanceBecomes, SpecKept
    <3> QED BY <3>1, <3>5, <3>6 DEF InstancesStep
  <2> QED BY <2>1, <2>2
<1>4. CASE ScSetInstanceRunning(n)
  <2>1. CASE sci[n] # csci[n]
      BY <1>4, <2>1, InstancesIdle DEF ScSetInstanceRunning
  <2>2. CASE sci[n] = csci[n]
    <3> DEFINE x == [csci[n] EXCEPT !.running = csc[n].running, !.gen = @ + 1]
    <3>1. /\ sci' = [sci EXCEPT ![n] = x] /\ csci[n] # None /\ csci' = csci
          /\ ScActing(n)
        BY <1>4, <2>2 DEF ScSetInstanceRunning, ScActive, ScActing
    <3>2. csci[n] \in StoppableContainerInstance /\ csc[n] \in StoppableContainer
        BY <1>4, <3>1 DEF TypeOK, Opt, ScSetInstanceRunning, ScActive
    <3>3. /\ x.uid = sci[n].uid /\ x.finalizer = sci[n].finalizer
          /\ x.gen = sci[n].gen + 1 /\ x.owner = sci[n].owner
          /\ x.running = csc[n].running /\ x.deleting = sci[n].deleting
        BY <2>2, <3>2, Zenon DEF StoppableContainerInstance
    <3>4. x # None
      <4>1. csci[n].gen + 1 \in Nat /\ csc[n].running \in BOOLEAN
          BY <3>2 DEF StoppableContainerInstance, StoppableContainer
      <4>2. x \in StoppableContainerInstance
          BY <3>2, <4>1, Zenon DEF StoppableContainerInstance
      <4> QED BY <4>2, NoneAssumption
    <3>5. sci[n] # None /\ sci[n].gen \in Nat
        BY <2>2, <3>1, <3>2 DEF StoppableContainerInstance
    <3> HIDE DEF x
    <3>6. SpecKept(sci[n], x)
        BY <3>3, <3>5 DEF SpecKept
    <3>7. InstanceBecomes(n, x)
        BY <3>1, <3>3, <3>4, <3>6 DEF InstanceBecomes
    <3> QED BY <3>1, <3>5, <3>7, InstanceWritten
  <2> QED BY <2>1, <2>2
<1> QED BY <1>1, <1>2, <1>3, <1>4 DEF ScReconcile

\* A status write of the SCI reconciler.
LEMMA UpdatePhaseInstances ==
    ASSUME TypeOK, NEW n \in Names, NEW read \in StoppableContainerInstance,
           NEW phase \in InstancePhase, NEW node \in Node, NEW woken,
           updatePhase(n, read, phase, node, woken)
    PROVE  InstancesStep
<1> USE DEF caches
<1>1. CASE sci[n] # read
    BY <1>1, InstancesIdle DEF updatePhase
<1>2. CASE sci[n] = read
  <2> DEFINE x == [read EXCEPT !.phase = phase, !.node = node, !.obs = read.gen]
  <2>1. sci' = [sci EXCEPT ![n] = x] /\ csci' = csci
      BY <1>2 DEF updatePhase
  <2>2. /\ x.uid = sci[n].uid /\ x.finalizer = sci[n].finalizer
        /\ x.gen = sci[n].gen /\ x.running = sci[n].running
        /\ x.deleting = sci[n].deleting /\ x.owner = sci[n].owner
      BY <1>2, Zenon DEF StoppableContainerInstance
  <2>3. x # None /\ sci[n] # None
    <3>1. x \in StoppableContainerInstance
        BY DEF StoppableContainerInstance
    <3> QED BY <1>2, <3>1, NoneAssumption
  <2> HIDE DEF x
  <2>4. InstanceBecomes(n, x)
      BY <2>2, <2>3 DEF InstanceBecomes, SpecKept
  <2> QED BY <2>1, <2>3, <2>4, InstanceWritten
<1> QED BY <1>1, <1>2

\* The SCI reconciler removes an SCI only when it has read its deletion.
LEMMA SciInstances ==
    ASSUME TypeOK, NEW n \in Names, SciReconcile(n) \/ SciError(n)
    PROVE  InstancesStep
<1> USE DEF store, caches
<1>1. CASE \/ SciIgnore(n) \/ SciError(n) \/ SciDeleteConsumer(n)
           \/ SciDeleteProvider(n) \/ SciStopConsumer(n)
           \/ createProviderPod(n) \/ createConsumerPod(n)
  <2>1. sci' = sci /\ csci' = csci
      BY <1>1 DEF SciIgnore, SciError, SciDeleteConsumer, SciDeleteProvider,
                  SciStopConsumer, createProviderPod, createConsumerPod, SciCreatePod
  <2> QED BY <2>1, InstancesIdle
<1>2. CASE SciRemoveFinalizer(n)
  <2>1. CASE sci[n] = csci[n]
    <3>1. /\ sci' = [sci EXCEPT ![n] = None] /\ csci' = csci /\ sci[n] # None
          /\ csci[n] # None /\ csci[n].deleting
          /\ Consumer(n) = None /\ Provider(n) = None
        BY <1>2, <2>1 DEF SciRemoveFinalizer, SciDeleting
    <3> QED BY <2>1, <3>1, InstanceWritten DEF InstanceGoes
  <2>2. CASE sci[n] # csci[n]
      BY <1>2, <2>2, InstancesIdle DEF SciRemoveFinalizer
  <2> QED BY <2>1, <2>2
<1>3. CASE SciAddFinalizer(n)
  <2>1. CASE sci[n] # csci[n]
      BY <1>3, <2>1, InstancesIdle DEF SciAddFinalizer
  <2>2. CASE sci[n] = csci[n]
    <3> DEFINE x == [sci[n] EXCEPT !.finalizer = TRUE]
    <3>1. sci' = [sci EXCEPT ![n] = x] /\ sci[n] # None /\ csci' = csci
        BY <1>3, <2>2 DEF SciAddFinalizer
    <3>2. sci[n] \in StoppableContainerInstance
        BY <3>1 DEF TypeOK, Opt
    <3>3. /\ x.uid = sci[n].uid /\ x.finalizer
          /\ x.gen = sci[n].gen /\ x.running = sci[n].running
          /\ x.deleting = sci[n].deleting /\ x.owner = sci[n].owner
        BY <3>2, Zenon DEF StoppableContainerInstance
    <3>4. x # None
      <4>1. x \in StoppableContainerInstance
          BY <3>2 DEF StoppableContainerInstance
      <4> QED BY <4>1, NoneAssumption
    <3> HIDE DEF x
    <3>5. InstanceBecomes(n, x)
        BY <3>3, <3>4 DEF InstanceBecomes, SpecKept
    <3> QED BY <3>1, <3>5, InstanceWritten
  <2> QED BY <2>1, <2>2
<1>4. CASE SciWaitForProvider(n) \/ SciStopped(n) \/ SciReportConsumer(n)
  <2>1. SciActive(n) /\ csci[n] \in StoppableContainerInstance
      BY <1>4 DEF SciWaitForProvider, SciStopped, SciReportConsumer, ProviderUp,
                  SciActive, TypeOK, Opt
  <2>2. csci[n].node \in Node
      BY <2>1 DEF StoppableContainerInstance
  <2>3. Provider(n) # None => Provider(n).node \in Node
      BY ProviderNameAssumption DEF Provider, TypeOK, Opt, Pod
  <2>4. RunningPhase(Consumer(n)) \in InstancePhase
      BY DEF RunningPhase, InstancePhase
  <2>5. {"ProviderStarting", "Stopped"} \subseteq InstancePhase
      BY DEF InstancePhase
  <2>6. CASE SciWaitForProvider(n)
      BY <2>1, <2>2, <2>5, <2>6, UpdatePhaseInstances DEF SciWaitForProvider
  <2>7. CASE SciStopped(n)
      BY <2>1, <2>3, <2>5, <2>7, UpdatePhaseInstances DEF SciStopped, ProviderUp
  <2>8. CASE SciReportConsumer(n)
      BY <2>1, <2>3, <2>4, <2>8, UpdatePhaseInstances
         DEF SciReportConsumer, ProviderUp
  <2> QED BY <1>4, <2>6, <2>7, <2>8
<1>5. CASE SciWriteStatus(n)
  <2>1. /\ sciWrite.sci \in StoppableContainerInstance
        /\ sciWrite.phase \in InstancePhase /\ sciWrite.node \in Node
      BY <1>5 DEF SciWriteStatus, TypeOK, Opt, SciWrite
  <2> QED BY <1>5, <2>1, UpdatePhaseInstances DEF SciWriteStatus
<1> QED BY <1>1, <1>2, <1>3, <1>4, <1>5 DEF SciReconcile

\* Users, informers and cluster.
LEMMA ClusterInstances ==
    ASSUME TypeOK,
           \/ User \/ Kubernetes
           \/ SyncSC \/ SyncSCI \/ SyncPods \/ ManagerRestart
    PROVE  InstancesStep
<1> USE DEF store, caches
<1>1. CASE \E n \in Names : UserDeleteInstance(n) \/ CollectInstance(n)
  <2> PICK n \in Names : UserDeleteInstance(n) \/ CollectInstance(n)
      BY <1>1
  <2>1. MayDelete(n)
    <3>1. "deleteInstance" \in EnvOps /\ budget \in [EnvOps -> Nat]
        BY DEF EnvOps, TypeOK
    <3>2. Spend("deleteInstance") =>
              /\ budget["deleteInstance"] \in Nat /\ budget["deleteInstance"] > 0
              /\ budget'["deleteInstance"] = budget["deleteInstance"] - 1
        BY <3>1 DEF Spend
    <3>3. Spend("deleteInstance") => budget' # budget
        BY <3>2
    <3> QED BY <3>2, <3>3 DEF UserDeleteInstance, CollectInstance, MayDelete
  <2> QED BY <2>1, InstanceDeleted DEF UserDeleteInstance, CollectInstance
<1>2. CASE SyncSCI \/ ManagerRestart
  <2>1. csci' = sci /\ sci' = sci /\ pods' = pods /\ nextUid' = nextUid
      BY <1>2 DEF SyncSCI, ManagerRestart
  <2> QED BY <2>1 DEF InstancesStep, InstanceStep, InstanceBecomes, SpecKept
<1>3. CASE \/ SyncSC \/ SyncPods
           \/ \E n \in Names : \/ \E run \in BOOLEAN : UserCreate(n, run)
                               \/ UserToggle(n) \/ UserDelete(n)
    BY <1>3, InstancesIdle DEF SyncSC, SyncPods, UserCreate, UserToggle, UserDelete
<1>4. CASE \E q \in PodNames :
              \/ \E node \in Nodes : SchedulePod(q, node)
              \/ PodBecomesReady(q) \/ PodBecomesUnready(q) \/ PodFails(q)
              \/ DrainPod(q) \/ PodGone(q) \/ CollectPod(q)
    BY <1>4, InstancesIdle DEF SetPod, SchedulePod, PodBecomesReady,
       PodBecomesUnready, PodFails, DrainPod, PodGone, CollectPod
<1> QED BY <1>1, <1>2, <1>3, <1>4 DEF User, Kubernetes

\* Every step does to each SCI one of these, and one kind of thing to the cache.
LEMMA EveryInstanceStep == TypeOK /\ Next => InstancesStep
    BY ScInstances, SciInstances, ClusterInstances DEF Next, Manager

\* The SCI reconciler would act on the SCI n, as it is in the cache, and not
\* take it down.
Acting(n) == csci[n] # None /\ csci[n].finalizer /\ ~csci[n].deleting

\* Such an SCI still exists, and a finalizer in the cache is one in the store.
ActingExists ==
    \A n \in Names :
        /\ Acting(n) => /\ sci[n] # None /\ sci[n].uid = csci[n].uid
                        /\ sci[n].finalizer
        /\ (/\ csci[n] # None /\ sci[n] # None
            /\ csci[n].uid = sci[n].uid /\ csci[n].finalizer) => sci[n].finalizer

\* The SCI in the cache that is acted on stays, and keeps its finalizer.
LEMMA ActingExistsKept ==
    ASSUME TypeOK, RootfsInv, ActingExists, InstancesStep
    PROVE  ActingExists'
<1> SUFFICES ASSUME NEW n \in Names
             PROVE  /\ Acting(n)' => /\ sci'[n] # None /\ sci'[n].uid = csci'[n].uid
                                     /\ sci'[n].finalizer
                    /\ (/\ csci'[n] # None /\ sci'[n] # None
                        /\ csci'[n].uid = sci'[n].uid /\ csci'[n].finalizer) =>
                       sci'[n].finalizer
    BY DEF ActingExists
<1>1. CASE csci' = sci /\ sci' = sci
    BY <1>1 DEF Acting
<1>2. CASE csci' = csci
  <2>1. InstanceStep(n)
      BY DEF InstancesStep
  <2>2. csci[n] # None => csci[n].uid # nextUid
      BY UidTyped DEF RootfsInv, UidsFresh
  <2> QED BY <1>2, <2>1, <2>2 DEF InstanceStep, InstanceBecomes, InstanceGoes,
                                  InstanceMade, ActingExists, Acting
<1> QED BY <1>1, <1>2 DEF InstancesStep

-----------------------------------------------------------------------------
\* What has run out stays so.
LEMMA BudgetStaysEmpty ==
    ASSUME TypeOK, Next, NEW op \in EnvOps, budget[op] = 0
    PROVE  budget'[op] = 0
<1>1. ASSUME NEW o \in EnvOps, budget[o] > 0, budget' = [budget EXCEPT ![o] = @ - 1]
      PROVE  budget'[op] = 0
    BY <1>1 DEF TypeOK
<1>2. {"create", "toggle", "delete", "deleteInstance", "drain", "fail", "unready",
       "error", "restart"} \subseteq EnvOps
    BY DEF EnvOps
<1>3. ASSUME NEW n \in Names, ScReconcile(n) \/ SciReconcile(n)
      PROVE  budget' = budget
  <2>1. CASE ScReconcile(n)
      BY <2>1 DEF ScReconcile, ScIgnore, ScDeleteInstance, ScRemoveFinalizer,
         ScAddFinalizer, createInstance, ScSetInstanceRunning, ScStatusUpdate,
         updateStatusFromInstance, updateStatusStopped, ScWriteStatus
  <2>2. CASE SciReconcile(n)
      BY <2>2 DEF SciReconcile, SciIgnore, SciDeleteConsumer, SciDeleteProvider,
         SciRemoveFinalizer, SciAddFinalizer, createProviderPod, createConsumerPod,
         SciCreatePod, SciStopConsumer, updatePhase, SciWaitForProvider, SciStopped,
         SciReportConsumer, SciWriteStatus
  <2> QED BY <1>3, <2>1, <2>2
<1>4. ASSUME NEW n \in Names, ScError(n) \/ SciError(n)
      PROVE  budget'[op] = 0
    BY <1>1, <1>2, <1>4 DEF ScError, SciError
<1>5. CASE User
    BY <1>1, <1>2, <1>5 DEF User, UserCreate, UserToggle, UserDelete,
       UserDeleteInstance, Spend
<1>6. CASE SyncSC \/ SyncSCI \/ SyncPods \/ ManagerRestart
    BY <1>1, <1>2, <1>6 DEF SyncSC, SyncSCI, SyncPods, ManagerRestart, Spend
<1>7. CASE Kubernetes
    BY <1>1, <1>2, <1>7 DEF Kubernetes, SchedulePod, PodBecomesReady,
       PodBecomesUnready, PodFails, DrainPod, PodGone, CollectPod, CollectInstance,
       Spend
<1> QED BY <1>3, <1>4, <1>5, <1>6, <1>7 DEF Next, Manager

-----------------------------------------------------------------------------
\* What a step may do to the SC n: it keeps its identity and its finalizer, and
\* no change to its spec leaves the generation alone; it goes when a user deletes
\* it before it has a finalizer, or when the cache knows that it is deleted; a
\* new one has a fresh uid.
ContainerBecomes(n, x) ==
    /\ x # None /\ x.uid = sc[n].uid
    /\ sc[n].finalizer => x.finalizer
    /\ SpecKept(sc[n], x)
    /\ x.deleting => sc[n].deleting \/ budget["delete"] > 0

ContainerGoes(n) ==
    \/ ~sc[n].finalizer /\ budget["delete"] > 0
    \/ csc[n] # None /\ csc[n].deleting /\ sc[n] = csc[n]

ContainerMade(n) ==
    /\ sc'[n].uid = nextUid /\ ~sc'[n].deleting /\ nextUid' = nextUid + 1
    /\ sci' = sci /\ csc' = csc

ContainerStep(n) ==
    \/ sc[n] = None /\ sc'[n] = None
    \/ sc[n] # None /\ ContainerBecomes(n, sc'[n])
    \/ sc[n] # None /\ sc'[n] = None /\ ContainerGoes(n)
    \/ sc[n] = None /\ sc'[n] # None /\ ContainerMade(n)

ContainersStep ==
    /\ \A n \in Names : ContainerStep(n)
    /\ \/ csc' = csc
       \/ csc' = sc /\ sc' = sc /\ sci' = sci /\ nextUid' = nextUid

\* Nothing happens to the SCs.
LEMMA ContainersIdle ==
    ASSUME sc' = sc, csc' = csc
    PROVE  ContainersStep
    BY DEF ContainersStep, ContainerStep, ContainerBecomes, SpecKept

\* One SC is written, removed or made.
LEMMA ContainerWritten ==
    ASSUME TypeOK, csc' = csc, NEW n \in Names, NEW x, sc' = [sc EXCEPT ![n] = x],
           \/ sc[n] # None /\ ContainerBecomes(n, x)
           \/ sc[n] # None /\ x = None /\ ContainerGoes(n)
           \/ /\ sc[n] = None /\ x # None /\ x.uid = nextUid /\ ~x.deleting
              /\ nextUid' = nextUid + 1 /\ sci' = sci
    PROVE  ContainersStep
<1>1. sc'[n] = x /\ \A m \in Names : m # n => sc'[m] = sc[m]
    BY DEF TypeOK
<1>2. \A m \in Names : m # n => ContainerStep(m)
    BY <1>1 DEF ContainerStep, ContainerBecomes, SpecKept
<1>3. ContainerStep(n)
    BY <1>1 DEF ContainerStep, ContainerMade
<1> QED BY <1>2, <1>3 DEF ContainersStep

\* A status write to an SC.
LEMMA ScStatusContainers ==
    ASSUME TypeOK, NEW n \in Names, NEW read \in StoppableContainer,
           NEW phase \in Phase, NEW node \in Node, ScStatusUpdate(n, read, phase, node)
    PROVE  ContainersStep
<1> USE DEF caches
<1>1. CASE sc[n] # read
    BY <1>1, ContainersIdle DEF ScStatusUpdate
<1>2. CASE sc[n] = read
  <2> DEFINE x == [read EXCEPT !.phase = phase, !.node = node, !.obs = read.gen]
  <2>1. sc' = [sc EXCEPT ![n] = x] /\ csc' = csc
      BY <1>2 DEF ScStatusUpdate
  <2>2. /\ x.uid = sc[n].uid /\ x.finalizer = sc[n].finalizer
        /\ x.gen = sc[n].gen /\ x.running = sc[n].running
        /\ x.deleting = sc[n].deleting
      BY <1>2, Zenon DEF StoppableContainer
  <2>3. x # None /\ sc[n] # None
    <3>1. x \in StoppableContainer
        BY DEF StoppableContainer
    <3> QED BY <1>2, <3>1, NoneAssumption
  <2> HIDE DEF x
  <2>4. ContainerBecomes(n, x)
      BY <2>2, <2>3 DEF ContainerBecomes, SpecKept
  <2> QED BY <2>1, <2>3, <2>4, ContainerWritten
<1> QED BY <1>1, <1>2

\* The SC reconciler removes an SC only when it has read its deletion.
LEMMA ScContainers ==
    ASSUME TypeOK, NEW n \in Names, ScReconcile(n) \/ ScError(n)
    PROVE  ContainersStep
<1> USE DEF store, caches
<1>1. CASE \/ ScIgnore(n) \/ ScDeleteInstance(n) \/ createInstance(n)
           \/ ScSetInstanceRunning(n) \/ ScError(n)
    BY <1>1, ContainersIdle DEF ScIgnore, ScDeleteInstance, createInstance,
       ScSetInstanceRunning, ScError
<1>2. CASE ScRemoveFinalizer(n)
  <2>1. CASE sc[n] = csc[n]
    <3>1. /\ sc' = [sc EXCEPT ![n] = None] /\ csc' = csc /\ sc[n] # None
          /\ csc[n] # None /\ csc[n].deleting
        BY <1>2, <2>1 DEF ScRemoveFinalizer, ScDeleting
    <3> QED BY <2>1, <3>1, ContainerWritten DEF ContainerGoes
  <2>2. CASE sc[n] # csc[n]
      BY <1>2, <2>2, ContainersIdle DEF ScRemoveFinalizer
  <2> QED BY <2>1, <2>2
<1>3. CASE ScAddFinalizer(n)
  <2>1. CASE sc[n] # csc[n]
      BY <1>3, <2>1, ContainersIdle DEF ScAddFinalizer
  <2>2. CASE sc[n] = csc[n]
    <3> DEFINE x == [sc[n] EXCEPT !.finalizer = TRUE]
    <3>1. sc' = [sc EXCEPT ![n] = x] /\ sc[n] # None /\ csc' = csc
        BY <1>3, <2>2 DEF ScAddFinalizer
    <3>2. sc[n] \in StoppableContainer
        BY <3>1 DEF TypeOK, Opt
    <3>3. /\ x.uid = sc[n].uid /\ x.finalizer
          /\ x.gen = sc[n].gen /\ x.running = sc[n].running
          /\ x.deleting = sc[n].deleting
        BY <3>2, Zenon DEF StoppableContainer
    <3>4. x # None
      <4>1. x \in StoppableContainer
          BY <3>2 DEF StoppableContainer
      <4> QED BY <4>1, NoneAssumption
    <3> HIDE DEF x
    <3>5. ContainerBecomes(n, x)
        BY <3>3, <3>4 DEF ContainerBecomes, SpecKept
    <3> QED BY <3>1, <3>5, ContainerWritten
  <2> QED BY <2>1, <2>2
<1>4. CASE updateStatusFromInstance(n) \/ updateStatusStopped(n)
  <2>1. /\ csc[n] \in StoppableContainer /\ csc[n].node \in Node
        /\ csci[n] # None => csci[n].node \in Node
      BY <1>4 DEF updateStatusFromInstance, updateStatusStopped, ScActive, TypeOK,
                  Opt, StoppableContainer, StoppableContainerInstance
  <2>2. PhaseFromInstance(csci[n].phase) \in Phase /\ "Stopped" \in Phase
      BY DEF PhaseFromInstance, Phase
  <2> QED BY <1>4, <2>1, <2>2, ScStatusContainers
             DEF updateStatusFromInstance, updateStatusStopped
<1>5. CASE ScWriteStatus(n)
  <2>1. /\ scWrite.sc \in StoppableContainer /\ scWrite.phase \in Phase
        /\ scWrite.node \in Node
      BY <1>5 DEF ScWriteStatus, TypeOK, Opt, ScWrite
  <2> QED BY <1>5, <2>1, ScStatusContainers DEF ScWriteStatus
<1> QED BY <1>1, <1>2, <1>3, <1>4, <1>5 DEF ScReconcile

\* Users create, toggle and delete containers.
LEMMA UserContainers ==
    ASSUME TypeOK, User
    PROVE  ContainersStep
<1> USE DEF caches
<1>1. ASSUME NEW n \in Names, NEW run \in BOOLEAN, UserCreate(n, run)
      PROVE  ContainersStep
  <2> DEFINE x == NewContainer(run)
  <2>1. /\ sc' = [sc EXCEPT ![n] = x] /\ sc[n] = None
        /\ sci' = sci /\ csc' = csc /\ nextUid' = nextUid + 1
      BY <1>1 DEF UserCreate
  <2>2. x.uid = nextUid /\ ~x.deleting
      BY DEF NewContainer
  <2>3. x # None
    <3>1. x \in StoppableContainer
        BY DEF NewContainer, StoppableContainer, Phase, Node, TypeOK
    <3> QED BY <3>1, NoneAssumption
  <2> HIDE DEF x
  <2> QED BY <2>1, <2>2, <2>3, ContainerWritten
<1>2. ASSUME NEW n \in Names, UserToggle(n)
      PROVE  ContainersStep
  <2> DEFINE x == Toggled(sc[n])
  <2>1. sc' = [sc EXCEPT ![n] = x] /\ sc[n] # None /\ csc' = csc
      BY <1>2 DEF UserToggle
  <2>2. sc[n] \in StoppableContainer /\ sc[n].gen \in Nat
      BY <2>1 DEF TypeOK, Opt, StoppableContainer
  <2>3. /\ x.uid = sc[n].uid /\ x.deleting = sc[n].deleting
        /\ x.finalizer = sc[n].finalizer /\ x.gen = sc[n].gen + 1
      BY <2>2, Zenon DEF Toggled, StoppableContainer
  <2>4. x # None
    <3>1. sc[n].gen + 1 \in Nat
        BY <2>2
    <3>2. x \in StoppableContainer
        BY <2>2, <3>1, Zenon DEF Toggled, StoppableContainer
    <3> QED BY <3>2, NoneAssumption
  <2> HIDE DEF x
  <2>5. ContainerBecomes(n, x)
      BY <2>2, <2>3, <2>4 DEF ContainerBecomes, SpecKept
  <2> QED BY <2>1, <2>5, ContainerWritten
<1>3. ASSUME NEW n \in Names, UserDelete(n)
      PROVE  ContainersStep
  <2>1. /\ sc' = [sc EXCEPT ![n] = Deleted(@)] /\ sc[n] # None /\ csc' = csc
        /\ budget["delete"] > 0 /\ sc[n] \in StoppableContainer
      BY <1>3 DEF UserDelete, Spend, TypeOK, Opt
  <2>2. ContainerBecomes(n, Deleted(sc[n]))
        \/ (Deleted(sc[n]) = None /\ ContainerGoes(n))
      BY <2>1, DeletedSpec DEF ContainerBecomes, ContainerGoes
  <2> QED BY <2>1, <2>2, ContainerWritten
<1>4. ASSUME NEW n \in Names, UserDeleteInstance(n)
      PROVE  ContainersStep
    BY <1>4, ContainersIdle DEF UserDeleteInstance
<1> QED BY <1>1, <1>2, <1>3, <1>4 DEF User

\* Every step does to each SC one of these, and one kind of thing to the cache.
LEMMA EveryContainerStep ==
    ASSUME TypeOK, Next
    PROVE  ContainersStep
<1> USE DEF store, caches
<1>1. CASE \E n \in Names : SciReconcile(n) \/ SciError(n)
  <2>1. sc' = sc /\ csc' = csc
      BY <1>1 DEF SciReconcile, SciError, SciIgnore, SciDeleteConsumer,
         SciDeleteProvider, SciRemoveFinalizer, SciAddFinalizer, createProviderPod,
         createConsumerPod, SciCreatePod, SciStopConsumer, updatePhase,
         SciWaitForProvider, SciStopped, SciReportConsumer, SciWriteStatus
  <2> QED BY <2>1, ContainersIdle
<1>2. CASE SyncSC \/ ManagerRestart
  <2>1. csc' = sc /\ sc' = sc /\ sci' = sci /\ nextUid' = nextUid
      BY <1>2 DEF SyncSC, ManagerRestart
  <2> QED BY <2>1 DEF ContainersStep, ContainerStep, ContainerBecomes, SpecKept
<1>3. CASE SyncSCI \/ SyncPods \/ Kubernetes
  <2>1. sc' = sc /\ csc' = csc
      BY <1>3 DEF SyncSCI, SyncPods, Kubernetes, SetPod, SchedulePod,
         PodBecomesReady, PodBecomesUnready, PodFails, DrainPod, PodGone, CollectPod,
         CollectInstance
  <2> QED BY <2>1, ContainersIdle
<1> QED BY <1>1, <1>2, <1>3, ScContainers, UserContainers DEF Next, Manager

-----------------------------------------------------------------------------
\* Nobody asks for a deletion, of a container or of its instance.
NoDeletion == Budget["delete"] = 0 /\ Budget["deleteInstance"] = 0

\* Then nothing is ever marked for deletion, and what is in a cache exists.
Undeleted ==
    /\ budget["delete"] = 0 /\ budget["deleteInstance"] = 0
    /\ \A n \in Names :
          /\ sc[n] # None => ~sc[n].deleting
          /\ csc[n] # None =>
                ~csc[n].deleting /\ sc[n] # None /\ sc[n].uid = csc[n].uid
          /\ sci[n] # None =>
                ~sci[n].deleting /\ sc[n] # None /\ sc[n].uid = sci[n].owner
          /\ csci[n] # None =>
                ~csci[n].deleting /\ sci[n] # None /\ sci[n].uid = csci[n].uid

\* Without deletions nothing is marked for deletion.
LEMMA UndeletedKept ==
    ASSUME TypeOK, Undeleted, Next
    PROVE  Undeleted'
<1>1. ContainersStep /\ InstancesStep
    BY EveryContainerStep, EveryInstanceStep
<1>2. "delete" \in EnvOps /\ "deleteInstance" \in EnvOps
    BY DEF EnvOps
<1>3. budget'["delete"] = 0 /\ budget'["deleteInstance"] = 0
    BY <1>2, BudgetStaysEmpty DEF Undeleted
<1>4. ASSUME NEW n \in Names
      PROVE  /\ sc'[n] # None => ~sc'[n].deleting
             /\ csc'[n] # None =>
                   ~csc'[n].deleting /\ sc'[n] # None /\ sc'[n].uid = csc'[n].uid
             /\ sci'[n] # None =>
                   ~sci'[n].deleting /\ sc'[n] # None /\ sc'[n].uid = sci'[n].owner
             /\ csci'[n] # None =>
                   ~csci'[n].deleting /\ sci'[n] # None /\ sci'[n].uid = csci'[n].uid
  <2>1. /\ sc'[n] # None => ~sc'[n].deleting
        /\ sc[n] # None => sc'[n] # None /\ sc'[n].uid = sc[n].uid
    <3>1. ContainerStep(n)
        BY <1>1 DEF ContainersStep
    <3> QED BY <3>1 DEF ContainerStep, ContainerBecomes, ContainerGoes, ContainerMade,
                        Undeleted
  <2>2. /\ sci'[n] # None => ~sci'[n].deleting
        /\ sci[n] # None => /\ sci'[n] # None /\ sci'[n].uid = sci[n].uid
                            /\ sci'[n].owner = sci[n].owner
        /\ (sci[n] = None /\ sci'[n] # None) =>
              csc[n] # None /\ sci'[n].owner = csc[n].uid
    <3>1. InstanceStep(n) /\ ~MayDelete(n)
        BY <1>1 DEF InstancesStep, MayDelete, InstanceOrphaned, Undeleted
    <3> QED BY <3>1 DEF InstanceStep, InstanceBecomes, InstanceGoes, InstanceMade,
                        ScActing, Undeleted
  <2>3. /\ csc' = csc \/ (csc' = sc /\ sc' = sc)
        /\ csci' = csci \/ (csci' = sci /\ sci' = sci)
      BY <1>1 DEF ContainersStep, InstancesStep
  <2> QED BY <2>1, <2>2, <2>3 DEF Undeleted
<1> QED BY <1>3, <1>4 DEF Undeleted
=============================================================================
