--------------------------- MODULE OperatorProofs ---------------------------
(***************************************************************************)
(* Proofs about Operator, for all names, pods, nodes and budgets.          *)
(***************************************************************************)
EXTENDS Operator, TLAPS

\* DELETE leaves an SC, an SCI or a pod well formed, or nothing.
LEMMA DeletedTyped ==
    /\ \A o \in Opt(StoppableContainer) : Deleted(o) \in Opt(StoppableContainer)
    /\ \A o \in Opt(StoppableContainerInstance) :
          Deleted(o) \in Opt(StoppableContainerInstance)
    /\ \A p \in Opt(Pod) : PodDeleted(p) \in Opt(Pod)
<1>1. ASSUME NEW o \in StoppableContainer
      PROVE  [o EXCEPT !.deleting = TRUE, !.gen = @ + 1] \in StoppableContainer
  <2>1. o.gen + 1 \in Nat
      BY DEF StoppableContainer
  <2> QED BY <2>1, Zenon DEF StoppableContainer
<1>2. ASSUME NEW o \in StoppableContainerInstance
      PROVE  [o EXCEPT !.deleting = TRUE, !.gen = @ + 1]
                 \in StoppableContainerInstance
  <2>1. o.gen + 1 \in Nat
      BY DEF StoppableContainerInstance
  <2> QED BY <2>1, Zenon DEF StoppableContainerInstance
<1>3. ASSUME NEW p \in Pod
      PROVE  [p EXCEPT !.deleting = TRUE] \in Pod
    BY DEF Pod
<1> QED BY <1>1, <1>2, <1>3 DEF Opt, Deleted, PodDeleted

\* DELETE keeps the identity of what it leaves.
LEMMA DeletedKeepsIdentity ==
    /\ \A o \in Opt(StoppableContainerInstance) : Deleted(o) # None =>
          /\ o # None /\ Deleted(o).uid = o.uid
          /\ o.deleting => Deleted(o).deleting
    /\ \A p \in Opt(Pod) : PodDeleted(p) # None =>
          /\ p # None /\ PodDeleted(p).inst = p.inst
          /\ PodDeleted(p).owner = p.owner /\ PodDeleted(p).uid = p.uid
<1>1. ASSUME NEW o \in StoppableContainerInstance
      PROVE  /\ [o EXCEPT !.deleting = TRUE, !.gen = @ + 1].uid = o.uid
             /\ [o EXCEPT !.deleting = TRUE, !.gen = @ + 1].deleting = TRUE
    BY Zenon DEF StoppableContainerInstance
<1>2. ASSUME NEW p \in Pod
      PROVE  /\ [p EXCEPT !.deleting = TRUE].inst = p.inst
             /\ [p EXCEPT !.deleting = TRUE].owner = p.owner
             /\ [p EXCEPT !.deleting = TRUE].uid = p.uid
    BY Zenon DEF Pod
<1> QED BY <1>1, <1>2 DEF Opt, Deleted, PodDeleted

\* Uids are natural numbers, which the comparisons below need.
LEMMA UidTyped ==
    ASSUME TypeOK
    PROVE  /\ nextUid \in Nat
           /\ \A n \in Names : /\ sci[n] # None => sci[n].uid \in Nat
                               /\ csci[n] # None => csci[n].uid \in Nat
           /\ \A p \in PodNames : pods[p] # None =>
                 pods[p].owner \in Nat /\ pods[p].inst \in Names
    BY DEF TypeOK, Opt, StoppableContainerInstance, Pod

\* The initial state, before the first StoppableContainer, is well typed.
LEMMA InitTyped == Init => TypeOK
    BY BudgetAssumption DEF Init, TypeOK, Opt

\* An operation of the budget is used up.
LEMMA BudgetTyped ==
    ASSUME budget \in [EnvOps -> Nat], NEW op \in EnvOps, budget[op] > 0,
           budget' = [budget EXCEPT ![op] = @ - 1]
    PROVE  budget' \in [EnvOps -> Nat]
<1>1. budget[op] - 1 \in Nat
    OBVIOUS
<1> QED BY <1>1

\* Every step of the SC reconciler keeps the types.
LEMMA ScTyped ==
    ASSUME TypeOK, NEW n \in Names, ScReconcile(n) \/ ScError(n)
    PROVE  TypeOK'
<1> USE DEF TypeOK, ScReturns, ScTakes, store, caches, queues, writes
<1>1. CASE ScIgnore(n)
    BY <1>1 DEF ScIgnore, Opt
<1>2. CASE ScDeleteInstance(n)
    BY <1>2, DeletedTyped DEF ScDeleteInstance, Opt
<1>3. CASE ScRemoveFinalizer(n)
    BY <1>3 DEF ScRemoveFinalizer, Opt
<1>4. CASE ScAddFinalizer(n)
  <2>1. ASSUME NEW o \in StoppableContainer
        PROVE  [o EXCEPT !.finalizer = TRUE] \in StoppableContainer
      BY DEF StoppableContainer
  <2> QED BY <1>4, <2>1 DEF ScAddFinalizer, Opt
<1>5. CASE createInstance(n)
  <2>1. csc[n] \in StoppableContainer
      BY <1>5 DEF createInstance, ScActive, Opt
  <2>2. NewInstance(csc[n].uid) \in StoppableContainerInstance
      BY <2>1 DEF NewInstance, StoppableContainer, StoppableContainerInstance,
                  InstancePhase, Node
  <2>3. [name |-> n, sc |-> csc[n], phase |-> "Pending", node |-> csc[n].node,
         again |-> TRUE] \in ScWrite
      BY <2>1 DEF ScWrite, StoppableContainer, Phase
  <2>4. CASE sci[n] # None
      BY <1>5, <2>4 DEF createInstance, Opt
  <2>5. CASE sci[n] = None
    <3>1. sci' \in [Names -> Opt(StoppableContainerInstance)] /\ nextUid' \in Nat
        BY <1>5, <2>2, <2>5, SMTT(60) DEF createInstance, Opt
    <3>2. scWrite' \in Opt(ScWrite) /\ scQueue' \in [Names -> BOOLEAN]
        BY <1>5, <2>3, <2>5 DEF createInstance, ScStatusPending, Opt
    <3> QED BY <1>5, <3>1, <3>2 DEF createInstance
  <2> QED BY <2>4, <2>5
<1>6. CASE ScSetInstanceRunning(n)
  <2>1. csc[n] \in StoppableContainer /\ csci[n] \in StoppableContainerInstance
      BY <1>6 DEF ScSetInstanceRunning, ScActive, Opt
  <2>2. PhaseFromInstance(csci[n].phase) \in Phase
      BY DEF PhaseFromInstance, Phase
  <2> DEFINE phase == PhaseFromInstance(csci[n].phase)
  <2>3. [name |-> n, sc |-> csc[n], phase |-> phase, node |-> csci[n].node,
         again |-> ~Settled(phase)] \in ScWrite
      BY <2>1, <2>2 DEF ScWrite, StoppableContainerInstance, Settled
  <2>4. [csci[n] EXCEPT !.running = csc[n].running, !.gen = @ + 1]
            \in StoppableContainerInstance
    <3>1. csci[n].gen + 1 \in Nat /\ csc[n].running \in BOOLEAN
        BY <2>1, SMTT(60) DEF StoppableContainer, StoppableContainerInstance
    <3> QED BY <2>1, <3>1, Zenon DEF StoppableContainerInstance
  <2>5. scWrite' \in Opt(ScWrite) /\ scQueue' \in [Names -> BOOLEAN]
      BY <1>6, <2>3 DEF ScSetInstanceRunning, ScStatusPending, Opt
  <2>6. sci' \in [Names -> Opt(StoppableContainerInstance)]
      BY <1>6, <2>4 DEF ScSetInstanceRunning, Opt
  <2> QED BY <1>6, <2>5, <2>6 DEF ScSetInstanceRunning
<1>7. ASSUME NEW read \in StoppableContainer, NEW phase \in Phase, NEW node \in Node,
             ScStatusUpdate(n, read, phase, node), NEW again, ScReturns(n, again),
             again \in BOOLEAN
      PROVE  TypeOK'
  <2>1. [read EXCEPT !.phase = phase, !.node = node, !.obs = read.gen]
            \in StoppableContainer
      BY <1>7 DEF StoppableContainer
  <2> QED BY <1>7, <2>1 DEF ScStatusUpdate, Opt
<1>8. CASE updateStatusFromInstance(n)
  <2>1. csc[n] \in StoppableContainer /\ csci[n].node \in Node
      BY <1>8 DEF updateStatusFromInstance, ScActive, Opt,
                  StoppableContainerInstance
  <2>2. PhaseFromInstance(csci[n].phase) \in Phase
      BY DEF PhaseFromInstance, Phase
  <2> QED BY <1>7, <1>8, <2>1, <2>2 DEF updateStatusFromInstance, Settled
<1>9. CASE updateStatusStopped(n)
  <2>1. csc[n] \in StoppableContainer /\ csc[n].node \in Node
      BY <1>9 DEF updateStatusStopped, ScActive, Opt, StoppableContainer
  <2> QED BY <1>7, <1>9, <2>1 DEF updateStatusStopped, Phase
<1>10. CASE ScWriteStatus(n)
  <2>1. scWrite \in ScWrite
      BY <1>10 DEF ScWriteStatus, Opt
  <2>2. /\ scWrite.sc \in StoppableContainer /\ scWrite.phase \in Phase
        /\ scWrite.node \in Node /\ scWrite.again \in BOOLEAN
      BY <2>1 DEF ScWrite
  <2> QED BY <1>7, <1>10, <2>2 DEF ScWriteStatus
<1>11. CASE ScError(n)
  <2>1. budget' \in [EnvOps -> Nat]
    <3>1. "error" \in EnvOps
        BY DEF EnvOps
    <3> QED BY <1>11, <3>1, BudgetTyped DEF ScError
  <2> QED BY <1>11, <2>1 DEF ScError, Opt
<1> QED BY <1>1, <1>2, <1>3, <1>4, <1>5, <1>6, <1>8, <1>9, <1>10, <1>11
           DEF ScReconcile

\* Every step of the SCI reconciler keeps the types.
LEMMA SciTyped ==
    ASSUME TypeOK, NEW n \in Names, SciReconcile(n) \/ SciError(n)
    PROVE  TypeOK'
<1> USE DEF TypeOK, SciReturns, SciTakes, store, caches, queues, writes
<1>1. CASE SciIgnore(n)
    BY <1>1 DEF SciIgnore, Opt
<1>2. CASE SciDeleteConsumer(n)
    BY <1>2, DeletedTyped, NamesAssumption DEF SciDeleteConsumer, Opt
<1>3. CASE SciDeleteProvider(n)
    BY <1>3, DeletedTyped, ProviderNameAssumption DEF SciDeleteProvider, Opt
<1>4. CASE SciRemoveFinalizer(n)
    BY <1>4 DEF SciRemoveFinalizer, Opt
<1>5. CASE SciAddFinalizer(n)
  <2>1. ASSUME NEW o \in StoppableContainerInstance
        PROVE  [o EXCEPT !.finalizer = TRUE] \in StoppableContainerInstance
      BY DEF StoppableContainerInstance
  <2> QED BY <1>5, <2>1 DEF SciAddFinalizer, Opt
<1>6. ASSUME NEW phase \in InstancePhase, NEW node \in Node,
             SciActive(n), SciStatusPending(n, phase, node)
      PROVE  sciWrite' \in Opt(SciWrite) /\ sciQueue' \in [Names -> BOOLEAN]
  <2>1. csci[n] \in StoppableContainerInstance
      BY <1>6 DEF SciActive, Opt
  <2>2. [name |-> n, sci |-> csci[n], phase |-> phase, node |-> node] \in SciWrite
      BY <2>1 DEF SciWrite
  <2> QED BY <1>6, <2>2 DEF SciStatusPending, Opt
<1>7. ASSUME NEW p \in PodNames, NEW node \in Node, NEW phase \in InstancePhase,
             NEW statusNode \in Node, SciActive(n),
             SciCreatePod(n, p, node, phase, statusNode)
      PROVE  TypeOK'
  <2>1. csci[n] \in StoppableContainerInstance
      BY <1>7 DEF SciActive, Opt
  <2>2. NewPod(n, node) \in Pod
      BY <2>1 DEF NewPod, Pod, StoppableContainerInstance
  <2>3. CASE pods[p] # None
      BY <1>7, <2>3 DEF SciCreatePod, Opt
  <2>4. CASE pods[p] = None
    <3>1. sciWrite' \in Opt(SciWrite) /\ sciQueue' \in [Names -> BOOLEAN]
        BY <1>6, <1>7, <2>4 DEF SciCreatePod
    <3>2. pods' \in [PodNames -> Opt(Pod)] /\ nextUid' \in Nat
        BY <1>7, <2>2, <2>4, SMTT(60) DEF SciCreatePod, Opt
    <3> QED BY <1>7, <3>1, <3>2 DEF SciCreatePod
  <2> QED BY <2>3, <2>4
<1>8. ASSUME ProviderUp(n)
      PROVE  SciActive(n) /\ Provider(n).node \in Node
    BY <1>8, ProviderNameAssumption DEF ProviderUp, Provider, Opt, Pod
<1>9. ASSUME SciActive(n)
      PROVE  csci[n] \in StoppableContainerInstance /\ csci[n].node \in Node
    BY <1>9 DEF SciActive, Opt, StoppableContainerInstance
<1>10. CASE createProviderPod(n)
  <2>1. ProviderPodName[n] \in PodNames /\ None \in Node
      BY ProviderNameAssumption DEF Node
  <2> QED BY <1>7, <1>9, <1>10, <2>1 DEF createProviderPod, InstancePhase
<1>11. CASE createConsumerPod(n)
    BY <1>7, <1>8, <1>11, NamesAssumption DEF createConsumerPod, InstancePhase
<1>12. CASE SciStopConsumer(n)
  <2>1. sciWrite' \in Opt(SciWrite) /\ sciQueue' \in [Names -> BOOLEAN]
      BY <1>6, <1>8, <1>12 DEF SciStopConsumer, InstancePhase
  <2>2. pods' \in [PodNames -> Opt(Pod)]
      BY <1>12, DeletedTyped, NamesAssumption DEF SciStopConsumer
  <2> QED BY <1>12, <2>1, <2>2 DEF SciStopConsumer
<1>13. ASSUME NEW read \in StoppableContainerInstance, NEW phase \in InstancePhase,
              NEW node \in Node, NEW woken \in BOOLEAN,
              updatePhase(n, read, phase, node, woken)
       PROVE  TypeOK'
  <2>1. [read EXCEPT !.phase = phase, !.node = node, !.obs = read.gen]
            \in StoppableContainerInstance
      BY <1>13 DEF StoppableContainerInstance
  <2>2. sci' \in [Names -> Opt(StoppableContainerInstance)]
      BY <1>13, <2>1 DEF updatePhase, Opt
  <2> QED BY <1>13, <2>2 DEF updatePhase, SciSettled, Opt
<1>14. CASE SciWaitForProvider(n)
    BY <1>9, <1>13, <1>14 DEF SciWaitForProvider, InstancePhase
<1>15. CASE SciStopped(n)
    BY <1>8, <1>9, <1>13, <1>15 DEF SciStopped, InstancePhase
<1>16. CASE SciReportConsumer(n)
  <2>1. RunningPhase(Consumer(n)) \in InstancePhase
      BY DEF RunningPhase, InstancePhase
  <2> QED BY <1>8, <1>9, <1>13, <1>16, <2>1 DEF SciReportConsumer
<1>17. CASE SciWriteStatus(n)
  <2>1. sciWrite \in SciWrite
      BY <1>17 DEF SciWriteStatus, Opt
  <2>2. /\ sciWrite.sci \in StoppableContainerInstance
        /\ sciWrite.phase \in InstancePhase /\ sciWrite.node \in Node
      BY <2>1 DEF SciWrite
  <2>3. sciQueue[n] \in BOOLEAN
      OBVIOUS
  <2>4. updatePhase(n, sciWrite.sci, sciWrite.phase, sciWrite.node, sciQueue[n])
      BY <1>17 DEF SciWriteStatus
  <2> HIDE DEF TypeOK
  <2> QED BY <1>13, <2>2, <2>3, <2>4
<1>18. CASE SciError(n)
  <2>1. budget' \in [EnvOps -> Nat]
    <3>1. "error" \in EnvOps
        BY DEF EnvOps
    <3> QED BY <1>18, <3>1, BudgetTyped DEF SciError
  <2> QED BY <1>18, <2>1 DEF SciError, Opt
<1> QED BY <1>1, <1>2, <1>3, <1>4, <1>5, <1>10, <1>11, <1>12, <1>14, <1>15, <1>16,
           <1>17, <1>18 DEF SciReconcile

\* Every step of a user keeps the types.
LEMMA UserTyped == TypeOK /\ User => TypeOK'
<1> SUFFICES ASSUME TypeOK, NEW n \in Names, NEW run \in BOOLEAN,
                    \/ UserCreate(n, run) \/ UserToggle(n)
                    \/ UserDelete(n) \/ UserDeleteInstance(n)
             PROVE  TypeOK'
    BY DEF User
<1> USE DEF TypeOK, Spend, store, caches, queues, writes
<1>1. ASSUME NEW op \in EnvOps, Spend(op)
      PROVE  budget' \in [EnvOps -> Nat]
    BY <1>1, BudgetTyped
<1>2. CASE UserCreate(n, run)
  <2>1. NewContainer(run) \in StoppableContainer
      BY DEF NewContainer, StoppableContainer, Phase, Node
  <2>2. budget' \in [EnvOps -> Nat]
      BY <1>1, <1>2 DEF UserCreate, EnvOps
  <2>3. sc' \in [Names -> Opt(StoppableContainer)] /\ nextUid' \in Nat
    <3> DEFINE c == NewContainer(run)
    <3>1. c \in Opt(StoppableContainer) /\ sc' = [sc EXCEPT ![n] = c]
        BY <1>2, <2>1 DEF UserCreate, Opt
    <3>2. sc \in [Names -> Opt(StoppableContainer)] /\ nextUid \in Nat
        OBVIOUS
    <3>3. nextUid' = nextUid + 1
        BY <1>2 DEF UserCreate
    <3> HIDE DEF c, TypeOK
    <3>4. sc' \in [Names -> Opt(StoppableContainer)]
        BY <3>1, <3>2
    <3> QED BY <3>2, <3>3, <3>4
  <2> QED BY <1>2, <2>2, <2>3 DEF UserCreate
<1>3. CASE UserToggle(n)
  <2>1. ASSUME NEW o \in StoppableContainer
        PROVE  Toggled(o) \in StoppableContainer
    <3>1. o.gen + 1 \in Nat /\ (~o.running) \in BOOLEAN
        BY SMTT(60) DEF StoppableContainer
    <3> QED BY <3>1, Zenon DEF Toggled, StoppableContainer
  <2>2. budget' \in [EnvOps -> Nat]
      BY <1>1, <1>3 DEF UserToggle, EnvOps
  <2>3. sc' \in [Names -> Opt(StoppableContainer)]
      BY <1>3, <2>1 DEF UserToggle, Opt
  <2> QED BY <1>3, <2>2, <2>3 DEF UserToggle
<1>4. CASE UserDelete(n)
  <2>1. budget' \in [EnvOps -> Nat]
      BY <1>1, <1>4 DEF UserDelete, EnvOps
  <2> QED BY <1>4, <2>1, DeletedTyped DEF UserDelete
<1>5. CASE UserDeleteInstance(n)
  <2>1. budget' \in [EnvOps -> Nat]
      BY <1>1, <1>5 DEF UserDeleteInstance, EnvOps
  <2> QED BY <1>5, <2>1, DeletedTyped DEF UserDeleteInstance
<1> QED BY <1>2, <1>3, <1>4, <1>5

\* Watches and restarts of the manager keep the types.
LEMMA InformersTyped ==
    TypeOK /\ (SyncSC \/ SyncSCI \/ SyncPods \/ ManagerRestart) => TypeOK'
<1> SUFFICES ASSUME TypeOK, SyncSC \/ SyncSCI \/ SyncPods \/ ManagerRestart
             PROVE  TypeOK'
    OBVIOUS
<1> USE DEF TypeOK, Spend, store, caches, queues, writes
<1>1. CASE SyncSC
    BY <1>1 DEF SyncSC
<1>2. CASE SyncSCI
    BY <1>2 DEF SyncSCI
<1>3. CASE SyncPods
    BY <1>3 DEF SyncPods
<1>4. CASE ManagerRestart
  <2>1. budget' \in [EnvOps -> Nat]
    <3>1. "restart" \in EnvOps
        BY DEF EnvOps
    <3> QED BY <1>4, <3>1, BudgetTyped DEF ManagerRestart
  <2> QED BY <1>4, <2>1 DEF ManagerRestart, Opt
<1> QED BY <1>1, <1>2, <1>3, <1>4

\* Scheduler, kubelets, eviction and garbage collector keep the types.
LEMMA KubernetesTyped == TypeOK /\ Kubernetes => TypeOK'
<1> SUFFICES ASSUME TypeOK, Kubernetes
             PROVE  TypeOK'
    OBVIOUS
<1> USE DEF TypeOK, Spend, store, caches, queues, writes
<1>1. ASSUME NEW p \in PodNames, NEW pod \in Opt(Pod), SetPod(p, pod),
             budget' \in [EnvOps -> Nat]
      PROVE  TypeOK'
    BY <1>1 DEF SetPod
<1>2. ASSUME NEW p \in PodNames, NEW node \in Nodes, SchedulePod(p, node)
      PROVE  TypeOK'
  <2>1. [pods[p] EXCEPT !.node = node] \in Opt(Pod)
      BY <1>2 DEF SchedulePod, Opt, Pod, Node
  <2> QED BY <1>1, <1>2, <2>1 DEF SchedulePod
<1>3. ASSUME NEW p \in PodNames, pods[p] # None,
             NEW status \in {"NotReady", "Ready", "Failed"}
      PROVE  [pods[p] EXCEPT !.status = status] \in Opt(Pod)
    BY <1>3 DEF Opt, Pod
<1>4. ASSUME NEW p \in PodNames, PodBecomesReady(p)
      PROVE  TypeOK'
    BY <1>1, <1>3, <1>4 DEF PodBecomesReady
<1>5. ASSUME NEW p \in PodNames, PodBecomesUnready(p)
      PROVE  TypeOK'
  <2>1. budget' \in [EnvOps -> Nat]
    <3>1. "unready" \in EnvOps
        BY DEF EnvOps
    <3> QED BY <1>5, <3>1, BudgetTyped DEF PodBecomesUnready
  <2> QED BY <1>1, <1>3, <1>5, <2>1 DEF PodBecomesUnready
<1>6. ASSUME NEW p \in PodNames, PodFails(p)
      PROVE  TypeOK'
  <2>1. budget' \in [EnvOps -> Nat]
    <3>1. "fail" \in EnvOps
        BY DEF EnvOps
    <3> QED BY <1>6, <3>1, BudgetTyped DEF PodFails
  <2> QED BY <1>1, <1>3, <1>6, <2>1 DEF PodFails
<1>7. ASSUME NEW p \in PodNames, DrainPod(p)
      PROVE  TypeOK'
  <2>1. budget' \in [EnvOps -> Nat]
    <3>1. "drain" \in EnvOps
        BY DEF EnvOps
    <3> QED BY <1>7, <3>1, BudgetTyped DEF DrainPod
  <2> QED BY <1>1, <1>7, <2>1, DeletedTyped DEF DrainPod
<1>8. ASSUME NEW p \in PodNames, PodGone(p)
      PROVE  TypeOK'
    BY <1>1, <1>8 DEF PodGone, Opt
<1>9. ASSUME NEW p \in PodNames, CollectPod(p)
      PROVE  TypeOK'
    BY <1>1, <1>9, DeletedTyped DEF CollectPod
<1>10. ASSUME NEW n \in Names, CollectInstance(n)
       PROVE  TypeOK'
    BY <1>10, DeletedTyped DEF CollectInstance
<1> QED BY <1>2, <1>4, <1>5, <1>6, <1>7, <1>8, <1>9, <1>10 DEF Kubernetes

\* Type correctness: whatever users, controllers and cluster do, every object,
\* cache, queue and pending status write of the operator is well formed.
THEOREM TypeCorrect == Spec => []TypeOK
<1>1. TypeOK /\ [Next]_vars => TypeOK'
  <2> SUFFICES ASSUME TypeOK, [Next]_vars
               PROVE  TypeOK'
      OBVIOUS
  <2>1. CASE User
      BY <2>1, UserTyped
  <2>2. CASE Manager
      BY <2>2, ScTyped, SciTyped, InformersTyped DEF Manager
  <2>3. CASE Kubernetes
      BY <2>3, KubernetesTyped
  <2>4. CASE UNCHANGED vars
      BY <2>4 DEF vars, TypeOK
  <2> QED BY <2>1, <2>2, <2>3, <2>4 DEF Next
<1> QED BY <1>1, InitTyped, PTL DEF Spec

-----------------------------------------------------------------------------
\* A step at most removes SCIs or marks them for deletion, and removes pods: no
\* object is made or changes its identity.
Evolves ==
    /\ csci' = csci
    /\ nextUid' \in Nat /\ nextUid' >= nextUid
    /\ \A n \in Names : sci'[n] # None =>
          /\ sci[n] # None /\ sci'[n].uid = sci[n].uid
          /\ sci[n].deleting => sci'[n].deleting
    /\ \A p \in PodNames : pods'[p] # None =>
          /\ pods[p] # None
          /\ pods'[p].inst = pods[p].inst /\ pods'[p].owner = pods[p].owner

\* Such a step keeps the invariant.
LEMMA EvolvesKeeps ==
    ASSUME TypeOK, RootfsInv, Evolves
    PROVE  RootfsInv'
<1>1. InstanceSeen'
    BY DEF RootfsInv, InstanceSeen, Evolves
<1>2. DeletionFinal'
    BY DEF RootfsInv, DeletionFinal, Evolves
<1>3. UidsFresh'
    BY UidTyped DEF RootfsInv, UidsFresh, Evolves
<1> QED BY <1>1, <1>2, <1>3 DEF RootfsInv

\* A new SCI has a uid no pod and no cache entry knows.
LEMMA NewInstanceKeeps ==
    ASSUME TypeOK, RootfsInv, NEW n \in Names, NEW owner,
           sci' = [sci EXCEPT ![n] = NewInstance(owner)], nextUid' = nextUid + 1,
           csci' = csci, pods' = pods
    PROVE  RootfsInv'
<1>1. /\ sci'[n].uid = nextUid /\ sci'[n] = NewInstance(owner)
      /\ \A m \in Names : m # n => sci'[m] = sci[m]
    BY DEF TypeOK, NewInstance
<1>2. InstanceSeen'
    BY <1>1, UidTyped, SMTT(60) DEF RootfsInv, InstanceSeen, UidsFresh
<1>3. DeletionFinal'
    BY <1>1, UidTyped DEF RootfsInv, DeletionFinal, UidsFresh
<1>4. UidsFresh'
    BY <1>1, UidTyped DEF RootfsInv, UidsFresh
<1> QED BY <1>2, <1>3, <1>4 DEF RootfsInv

\* A new pod belongs to the SCI in the cache.
LEMMA NewPodKeeps ==
    ASSUME TypeOK, RootfsInv, NEW n \in Names, NEW p \in PodNames, NEW node,
           csci[n] # None, pods' = [pods EXCEPT ![p] = NewPod(n, node)],
           nextUid' = nextUid + 1, csci' = csci, sci' = sci
    PROVE  RootfsInv'
<1>1. /\ pods'[p].inst = n /\ pods'[p].owner = csci[n].uid
      /\ \A q \in PodNames : q # p => pods'[q] = pods[q]
    BY DEF TypeOK, NewPod
<1>2. InstanceSeen'
    BY <1>1, SMTT(60) DEF RootfsInv, InstanceSeen
<1>3. DeletionFinal'
    BY DEF RootfsInv, DeletionFinal
<1>4. UidsFresh'
    BY <1>1, UidTyped, SMTT(60) DEF RootfsInv, UidsFresh
<1> QED BY <1>2, <1>3, <1>4 DEF RootfsInv

\* The cache catches up with the API server.
LEMMA SyncKeeps ==
    ASSUME TypeOK, RootfsInv, csci' = sci, sci' = sci, pods' = pods,
           nextUid' = nextUid
    PROVE  RootfsInv'
    BY DEF RootfsInv, InstanceSeen, DeletionFinal, UidsFresh

\* A step that leaves SCIs and pods alone evolves.
LEMMA IdleEvolves ==
    ASSUME TypeOK, sci' = sci, csci' = csci, pods' = pods,
           nextUid' \in {nextUid, nextUid + 1}
    PROVE  Evolves
    BY DEF TypeOK, Evolves

\* So does one that replaces an SCI by one with its identity, or removes it ...
LEMMA InstanceEvolves ==
    ASSUME TypeOK, csci' = csci, pods' = pods, nextUid' = nextUid,
           NEW n \in Names, NEW x, sci' = [sci EXCEPT ![n] = x],
           x # None => /\ sci[n] # None /\ x.uid = sci[n].uid
                       /\ sci[n].deleting => x.deleting
    PROVE  Evolves
    BY DEF TypeOK, Evolves

\* ... and one that does so with a pod.
LEMMA PodEvolves ==
    ASSUME TypeOK, csci' = csci, sci' = sci, nextUid' = nextUid,
           NEW p \in PodNames, NEW x, pods' = [pods EXCEPT ![p] = x],
           x # None => /\ pods[p] # None
                       /\ x.inst = pods[p].inst /\ x.owner = pods[p].owner
    PROVE  Evolves
    BY SMTT(60) DEF TypeOK, Evolves

\* The SC reconciler keeps the invariant.
LEMMA ScKeeps ==
    ASSUME TypeOK, RootfsInv, NEW n \in Names, ScReconcile(n) \/ ScError(n)
    PROVE  RootfsInv'
<1> USE DEF store, caches
<1>1. CASE \/ ScIgnore(n) \/ ScRemoveFinalizer(n) \/ ScAddFinalizer(n)
           \/ updateStatusFromInstance(n) \/ updateStatusStopped(n)
           \/ ScWriteStatus(n) \/ ScError(n)
  <2>1. sci' = sci /\ csci' = csci /\ pods' = pods /\ nextUid' = nextUid
      BY <1>1 DEF ScIgnore, ScRemoveFinalizer, ScAddFinalizer, ScStatusUpdate,
                  updateStatusFromInstance, updateStatusStopped, ScWriteStatus,
                  ScError
  <2> QED BY <2>1, IdleEvolves, EvolvesKeeps
<1>2. CASE ScDeleteInstance(n)
  <2>1. sci[n] \in Opt(StoppableContainerInstance)
      BY DEF TypeOK
  <2> QED BY <1>2, <2>1, DeletedKeepsIdentity, InstanceEvolves, EvolvesKeeps
             DEF ScDeleteInstance
<1>3. CASE createInstance(n)
  <2>1. CASE sci[n] # None
      BY <1>3, <2>1, IdleEvolves, EvolvesKeeps DEF createInstance
  <2>2. CASE sci[n] = None
      BY <1>3, <2>2, NewInstanceKeeps DEF createInstance
  <2> QED BY <2>1, <2>2
<1>4. CASE ScSetInstanceRunning(n)
  <2>1. CASE sci[n] # csci[n]
      BY <1>4, <2>1, IdleEvolves, EvolvesKeeps DEF ScSetInstanceRunning
  <2>2. CASE sci[n] = csci[n]
    <3> DEFINE x == [csci[n] EXCEPT !.running = csc[n].running, !.gen = @ + 1]
    <3>1. sci' = [sci EXCEPT ![n] = x] /\ csci[n] # None
        BY <1>4, <2>2 DEF ScSetInstanceRunning
    <3>2. csci[n] \in StoppableContainerInstance
        BY <3>1 DEF TypeOK, Opt
    <3>3. x.uid = sci[n].uid /\ x.deleting = sci[n].deleting
        BY <2>2, <3>2, Zenon DEF StoppableContainerInstance
    <3>4. Evolves
      <4> HIDE DEF x
      <4> QED BY <1>4, <2>2, <3>1, <3>3, InstanceEvolves
                 DEF ScSetInstanceRunning
    <3> QED BY <3>4, EvolvesKeeps
  <2> QED BY <2>1, <2>2
<1> QED BY <1>1, <1>2, <1>3, <1>4 DEF ScReconcile

\* A conflict-checked status write keeps the invariant.
LEMMA UpdatePhaseKeeps ==
    ASSUME TypeOK, RootfsInv, NEW n \in Names,
           NEW read \in StoppableContainerInstance, NEW phase, NEW node, NEW woken,
           updatePhase(n, read, phase, node, woken)
    PROVE  RootfsInv'
<1> USE DEF caches
<1>1. CASE sci[n] # read
    BY <1>1, IdleEvolves, EvolvesKeeps DEF updatePhase
<1>2. CASE sci[n] = read /\ sci[n] # None
  <2> DEFINE x == [read EXCEPT !.phase = phase, !.node = node, !.obs = read.gen]
  <2>1. sci' = [sci EXCEPT ![n] = x]
      BY <1>2 DEF updatePhase
  <2>2. x.uid = sci[n].uid /\ x.deleting = sci[n].deleting
      BY <1>2, Zenon DEF StoppableContainerInstance
  <2>3. Evolves
    <3> HIDE DEF x
    <3> QED BY <1>2, <2>1, <2>2, InstanceEvolves DEF updatePhase
  <2> QED BY <2>3, EvolvesKeeps
<1> QED BY <1>1, <1>2, NoneAssumption

\* The SCI reconciler keeps the invariant.
LEMMA SciKeeps ==
    ASSUME TypeOK, RootfsInv, NEW n \in Names, SciReconcile(n) \/ SciError(n)
    PROVE  RootfsInv'
<1> USE DEF store, caches
<1>1. CASE SciIgnore(n) \/ SciError(n)
    BY <1>1, IdleEvolves, EvolvesKeeps DEF SciIgnore, SciError
<1>2. ASSUME NEW p \in PodNames, pods' = [pods EXCEPT ![p] = PodDeleted(@)],
             sci' = sci, csci' = csci, nextUid' = nextUid
      PROVE  RootfsInv'
  <2>1. pods[p] \in Opt(Pod)
      BY DEF TypeOK
  <2> QED BY <1>2, <2>1, DeletedKeepsIdentity, PodEvolves, EvolvesKeeps
<1>3. CASE SciDeleteConsumer(n) \/ SciStopConsumer(n)
    BY <1>2, <1>3, NamesAssumption DEF SciDeleteConsumer, SciStopConsumer
<1>4. CASE SciDeleteProvider(n)
    BY <1>2, <1>4, ProviderNameAssumption DEF SciDeleteProvider
<1>5. CASE SciRemoveFinalizer(n)
  <2>1. CASE sci[n] = csci[n]
      BY <1>5, <2>1, InstanceEvolves, EvolvesKeeps DEF SciRemoveFinalizer
  <2>2. CASE sci[n] # csci[n]
      BY <1>5, <2>2, IdleEvolves, EvolvesKeeps DEF SciRemoveFinalizer
  <2> QED BY <2>1, <2>2
<1>6. CASE SciAddFinalizer(n)
  <2>1. CASE sci[n] # csci[n]
      BY <1>6, <2>1, IdleEvolves, EvolvesKeeps DEF SciAddFinalizer
  <2>2. CASE sci[n] = csci[n]
    <3> DEFINE x == [sci[n] EXCEPT !.finalizer = TRUE]
    <3>1. sci' = [sci EXCEPT ![n] = x] /\ sci[n] # None
        BY <1>6, <2>2 DEF SciAddFinalizer
    <3>2. sci[n] \in StoppableContainerInstance
        BY <3>1 DEF TypeOK, Opt
    <3>3. x.uid = sci[n].uid /\ x.deleting = sci[n].deleting
        BY <3>2, Zenon DEF StoppableContainerInstance
    <3>4. Evolves
      <4> HIDE DEF x
      <4> QED BY <1>6, <3>1, <3>3, InstanceEvolves DEF SciAddFinalizer
    <3> QED BY <3>4, EvolvesKeeps
  <2> QED BY <2>1, <2>2
<1>7. ASSUME NEW p \in PodNames, NEW node, NEW phase, NEW statusNode, SciActive(n),
             SciCreatePod(n, p, node, phase, statusNode)
      PROVE  RootfsInv'
  <2>1. CASE pods[p] # None
      BY <1>7, <2>1, IdleEvolves, EvolvesKeeps DEF SciCreatePod
  <2>2. CASE pods[p] = None
      BY <1>7, <2>2, NewPodKeeps DEF SciCreatePod, SciActive
  <2> QED BY <2>1, <2>2
<1>8. CASE createProviderPod(n)
    BY <1>7, <1>8, ProviderNameAssumption DEF createProviderPod
<1>9. CASE createConsumerPod(n)
    BY <1>7, <1>9, NamesAssumption DEF createConsumerPod, ProviderUp
<1>10. CASE SciWaitForProvider(n) \/ SciStopped(n) \/ SciReportConsumer(n)
  <2>1. csci[n] \in StoppableContainerInstance
      BY <1>10 DEF SciWaitForProvider, SciStopped, SciReportConsumer, ProviderUp,
                   SciActive, TypeOK, Opt
  <2> QED BY <1>10, <2>1, UpdatePhaseKeeps
             DEF SciWaitForProvider, SciStopped, SciReportConsumer
<1>11. CASE SciWriteStatus(n)
  <2>1. sciWrite.sci \in StoppableContainerInstance
      BY <1>11 DEF SciWriteStatus, TypeOK, Opt, SciWrite
  <2> QED BY <1>11, <2>1, UpdatePhaseKeeps DEF SciWriteStatus
<1> QED BY <1>1, <1>3, <1>4, <1>5, <1>6, <1>8, <1>9, <1>10, <1>11
           DEF SciReconcile

\* Users, informers and cluster keep the invariant.
LEMMA ClusterKeeps ==
    ASSUME TypeOK, RootfsInv,
           \/ User \/ Kubernetes
           \/ SyncSC \/ SyncSCI \/ SyncPods \/ ManagerRestart
    PROVE  RootfsInv'
<1> USE DEF store, caches
<1>1. ASSUME NEW n \in Names, sci' = [sci EXCEPT ![n] = Deleted(@)],
             csci' = csci, pods' = pods, nextUid' = nextUid
      PROVE  RootfsInv'
  <2>1. sci[n] \in Opt(StoppableContainerInstance)
      BY DEF TypeOK
  <2> QED BY <1>1, <2>1, DeletedKeepsIdentity, InstanceEvolves, EvolvesKeeps
<1>2. CASE User
  <2>1. PICK n \in Names : \/ \E run \in BOOLEAN : UserCreate(n, run)
                           \/ UserToggle(n) \/ UserDelete(n)
                           \/ UserDeleteInstance(n)
      BY <1>2 DEF User
  <2>2. CASE UserDeleteInstance(n)
      BY <1>1, <2>2 DEF UserDeleteInstance
  <2>3. CASE ~UserDeleteInstance(n)
      BY <2>1, <2>3, IdleEvolves, EvolvesKeeps
         DEF UserCreate, UserToggle, UserDelete
  <2> QED BY <2>2, <2>3
<1>3. CASE SyncSC \/ SyncPods
    BY <1>3, IdleEvolves, EvolvesKeeps DEF SyncSC, SyncPods
<1>4. CASE SyncSCI \/ ManagerRestart
    BY <1>4, SyncKeeps DEF SyncSCI, ManagerRestart
<1>5. CASE \E n \in Names : CollectInstance(n)
    BY <1>1, <1>5 DEF CollectInstance
<1>6. ASSUME NEW p \in PodNames, NEW x, SetPod(p, x),
             x # None => /\ pods[p] # None
                         /\ x.inst = pods[p].inst /\ x.owner = pods[p].owner
      PROVE  RootfsInv'
    BY <1>6, PodEvolves, EvolvesKeeps DEF SetPod
<1>7. ASSUME NEW p \in PodNames,
             \/ \E node \in Nodes : SchedulePod(p, node)
             \/ PodBecomesReady(p) \/ PodBecomesUnready(p) \/ PodFails(p)
             \/ DrainPod(p) \/ PodGone(p) \/ CollectPod(p)
      PROVE  RootfsInv'
  <2>1. pods[p] \in Opt(Pod)
      BY DEF TypeOK
  <2>2. ASSUME NEW node, pods[p] # None
        PROVE  /\ [pods[p] EXCEPT !.node = node].inst = pods[p].inst
               /\ [pods[p] EXCEPT !.node = node].owner = pods[p].owner
      BY <2>1, <2>2 DEF Opt, Pod
  <2>3. ASSUME NEW status, pods[p] # None
        PROVE  /\ [pods[p] EXCEPT !.status = status].inst = pods[p].inst
               /\ [pods[p] EXCEPT !.status = status].owner = pods[p].owner
      BY <2>1, <2>3 DEF Opt, Pod
  <2>4. CASE \E node \in Nodes : SchedulePod(p, node)
      BY <1>6, <2>2, <2>4 DEF SchedulePod
  <2>5. CASE PodBecomesReady(p) \/ PodBecomesUnready(p) \/ PodFails(p)
      BY <1>6, <2>3, <2>5 DEF PodBecomesReady, PodBecomesUnready, PodFails
  <2>6. CASE DrainPod(p) \/ CollectPod(p)
      BY <1>6, <2>1, <2>6, DeletedKeepsIdentity DEF DrainPod, CollectPod
  <2>7. CASE PodGone(p)
      BY <1>6, <2>7 DEF PodGone
  <2> QED BY <1>7, <2>4, <2>5, <2>6, <2>7
<1> QED BY <1>2, <1>3, <1>4, <1>5, <1>7 DEF Kubernetes

\* However stale the caches, what they say of an instance whose pods exist is
\* never ahead of the API server.
THEOREM CacheNeverAhead == Spec => []RootfsInv
<1>1. Init => RootfsInv
    BY SMTT(60) DEF Init, RootfsInv, InstanceSeen, DeletionFinal, UidsFresh
<1>2. TypeOK /\ RootfsInv /\ [Next]_vars => RootfsInv'
  <2> SUFFICES ASSUME TypeOK, RootfsInv, [Next]_vars
               PROVE  RootfsInv'
      OBVIOUS
  <2>1. CASE Next
      BY <2>1, ScKeeps, SciKeeps, ClusterKeeps DEF Next, Manager
  <2>2. CASE UNCHANGED vars
      BY <2>2, IdleEvolves, EvolvesKeeps DEF vars
  <2> QED BY <2>1, <2>2
<1> QED BY <1>1, <1>2, TypeCorrect, PTL DEF Spec

\* The pod named p is the same after the step and not being deleted.
Kept(p) == pods'[p] # None /\ pods'[p].uid = pods[p].uid /\ ~pods'[p].deleting

\* The SCI reconciler deletes the pod named p: as a consumer or as a provider.
TakenDown(p) ==
    \E m \in Names : \/ p = m /\ (SciDeleteConsumer(m) \/ SciStopConsumer(m))
                     \/ p = ProviderPodName[m] /\ SciDeleteProvider(m)

\* Nothing else, but for an eviction from outside, deletes a pod whose owner
\* exists.
LEMMA PodUndisturbed ==
    ASSUME TypeOK, Next, NEW p \in PodNames, pods[p] # None, ~pods[p].deleting,
           sci[pods[p].inst] # None, pods[p].owner = sci[pods[p].inst].uid
    PROVE  Kept(p) \/ DrainPod(p) \/ TakenDown(p)
<1>1. pods[p] # None /\ ~pods[p].deleting /\ pods[p] \in Pod
    BY DEF TypeOK, Opt
<1>2. sci[pods[p].inst] # None /\ pods[p].owner = sci[pods[p].inst].uid
    OBVIOUS
<1>3. ASSUME NEW q \in PodNames, q # p, NEW x, pods' = [pods EXCEPT ![q] = x]
      PROVE  Kept(p)
    BY <1>1, <1>3 DEF Kept, TypeOK
<1>4. ASSUME pods' = pods
      PROVE  Kept(p)
    BY <1>1, <1>4 DEF Kept
<1> USE DEF store
<1>5. ASSUME NEW m \in Names, ScReconcile(m) \/ ScError(m)
      PROVE  Kept(p)
    BY <1>4, <1>5 DEF ScReconcile, ScIgnore, ScDeleteInstance, ScRemoveFinalizer,
       ScAddFinalizer, createInstance, ScSetInstanceRunning, ScStatusUpdate,
       updateStatusFromInstance, updateStatusStopped, ScWriteStatus, ScError
<1>6. ASSUME NEW m \in Names, SciReconcile(m) \/ SciError(m)
      PROVE  Kept(p) \/ TakenDown(p)
  <2>1. m \in PodNames /\ ProviderPodName[m] \in PodNames
      BY NamesAssumption, ProviderNameAssumption
  <2>2. CASE SciDeleteConsumer(m) \/ SciStopConsumer(m)
    <3>1. CASE p = m
        BY <1>6, <2>2, <3>1 DEF TakenDown
    <3>2. CASE p # m
        BY <1>3, <2>1, <2>2, <3>2 DEF SciDeleteConsumer, SciStopConsumer
    <3> QED BY <3>1, <3>2
  <2>3. CASE SciDeleteProvider(m)
    <3>1. CASE p = ProviderPodName[m]
        BY <1>6, <2>3, <3>1 DEF TakenDown
    <3>2. CASE p # ProviderPodName[m]
        BY <1>3, <2>1, <2>3, <3>2 DEF SciDeleteProvider
    <3> QED BY <3>1, <3>2
  <2>4. ASSUME NEW q \in PodNames, NEW node, NEW phase, NEW statusNode,
               SciCreatePod(m, q, node, phase, statusNode)
        PROVE  Kept(p)
    <3>1. CASE pods[q] # None
        BY <1>4, <2>4, <3>1 DEF SciCreatePod
    <3>2. CASE pods[q] = None
        BY <1>1, <1>3, <2>4, <3>2 DEF SciCreatePod
    <3> QED BY <3>1, <3>2
  <2>5. CASE createProviderPod(m) \/ createConsumerPod(m)
      BY <2>1, <2>4, <2>5 DEF createProviderPod, createConsumerPod
  <2>6. CASE \/ SciIgnore(m) \/ SciRemoveFinalizer(m) \/ SciAddFinalizer(m)
             \/ SciWaitForProvider(m) \/ SciStopped(m) \/ SciReportConsumer(m)
             \/ SciWriteStatus(m) \/ SciError(m)
      BY <1>4, <2>6 DEF SciIgnore, SciRemoveFinalizer, SciAddFinalizer, updatePhase,
         SciWaitForProvider, SciStopped, SciReportConsumer, SciWriteStatus, SciError
  <2> QED BY <1>6, <2>2, <2>3, <2>5, <2>6 DEF SciReconcile
<1>7. ASSUME \/ User \/ SyncSC \/ SyncSCI \/ SyncPods \/ ManagerRestart
             \/ \E m \in Names : CollectInstance(m)
      PROVE  Kept(p)
    BY <1>4, <1>7 DEF User, UserCreate, UserToggle, UserDelete, UserDeleteInstance,
       SyncSC, SyncSCI, SyncPods, ManagerRestart, CollectInstance
<1>8. ASSUME NEW q \in PodNames,
             \/ \E node \in Nodes : SchedulePod(q, node)
             \/ PodBecomesReady(q) \/ PodBecomesUnready(q) \/ PodFails(q)
             \/ DrainPod(q) \/ PodGone(q) \/ CollectPod(q)
      PROVE  Kept(p) \/ DrainPod(p)
  <2>1. CASE q # p
      BY <1>3, <1>8, <2>1 DEF SetPod, SchedulePod, PodBecomesReady, PodBecomesUnready,
         PodFails, DrainPod, PodGone, CollectPod
  <2>2. CASE q = p
    <3>1. ASSUME NEW x, SetPod(p, x), x # None, x.uid = pods[p].uid, ~x.deleting
          PROVE  Kept(p)
        BY <1>1, <3>1 DEF SetPod, Kept, TypeOK
    <3>2. ASSUME NEW v
          PROVE  /\ [pods[p] EXCEPT !.node = v].uid = pods[p].uid
                 /\ [pods[p] EXCEPT !.node = v].deleting = pods[p].deleting
                 /\ [pods[p] EXCEPT !.status = v].uid = pods[p].uid
                 /\ [pods[p] EXCEPT !.status = v].deleting = pods[p].deleting
        BY <1>1, Zenon DEF Pod
    <3>3. ASSUME NEW v \in Node
          PROVE  [pods[p] EXCEPT !.node = v] # None
        BY <1>1, NoneAssumption DEF Pod
    <3>4. ASSUME NEW v \in {"NotReady", "Ready", "Failed"}
          PROVE  [pods[p] EXCEPT !.status = v] # None
        BY <1>1, NoneAssumption DEF Pod
    <3>5. CASE \E node \in Nodes : SchedulePod(p, node)
      <4>1. PICK node \in Nodes : SchedulePod(p, node)
          BY <3>5
      <4> DEFINE x == [pods[p] EXCEPT !.node = node]
      <4>2. SetPod(p, x)
          BY <4>1 DEF SchedulePod
      <4>3. x # None /\ x.uid = pods[p].uid /\ ~x.deleting
          BY <1>1, <3>2, <3>3 DEF Node
      <4> HIDE DEF x
      <4> QED BY <3>1, <4>2, <4>3
    <3>6. CASE PodBecomesReady(p) \/ PodBecomesUnready(p) \/ PodFails(p)
      <4>1. PICK v \in {"NotReady", "Ready", "Failed"} :
                SetPod(p, [pods[p] EXCEPT !.status = v])
          BY <3>6 DEF PodBecomesReady, PodBecomesUnready, PodFails
      <4> DEFINE x == [pods[p] EXCEPT !.status = v]
      <4>2. SetPod(p, x)
          BY <4>1
      <4>3. x # None /\ x.uid = pods[p].uid /\ ~x.deleting
          BY <1>1, <3>2, <3>4
      <4> HIDE DEF x
      <4> QED BY <3>1, <4>2, <4>3
    <3>7. ~PodGone(p) /\ ~CollectPod(p)
        BY <1>1, <1>2 DEF PodGone, CollectPod, PodOrphaned
    <3> QED BY <1>8, <2>2, <3>5, <3>6, <3>7
  <2> QED BY <2>1, <2>2
<1> QED BY <1>5, <1>6, <1>7, <1>8 DEF Next, Manager, Kubernetes

\* No step but an eviction deletes the provider pod of an instance whose deletion
\* the cache has not seen.
LEMMA ProviderUndisturbed ==
    ASSUME NoCollision, TypeOK, Next, NEW n \in Names,
           sci[n] # None, csci[n] # None, ~csci[n].deleting,
           pods[ProviderPodName[n]] # None, ~pods[ProviderPodName[n]].deleting,
           pods[ProviderPodName[n]].inst = n,
           pods[ProviderPodName[n]].owner = sci[n].uid
    PROVE  Kept(ProviderPodName[n]) \/ DrainPod(ProviderPodName[n])
<1> DEFINE p == ProviderPodName[n]
<1>1. p \in PodNames
    BY ProviderNameAssumption
<1>2. ~TakenDown(p)
  <2>1. \A m \in Names : p # m /\ (p = ProviderPodName[m] => m = n)
      BY ProviderNameAssumption DEF NoCollision
  <2>2. ~SciDeleteProvider(n)
      BY DEF SciDeleteProvider, SciDeleting
  <2> QED BY <2>1, <2>2 DEF TakenDown
<1> QED BY <1>1, <1>2, PodUndisturbed

\* In particular not that of a live instance.
LEMMA ProviderKept ==
    ASSUME NoCollision, TypeOK, RootfsInv, Next, NEW n \in Names, HoldsRootfs(n)
    PROVE  Kept(ProviderPodName[n]) \/ DrainPod(ProviderPodName[n])
<1>1. /\ ProviderPodName[n] \in PodNames /\ sci[n] # None /\ ~sci[n].deleting
      /\ pods[ProviderPodName[n]] # None /\ ~pods[ProviderPodName[n]].deleting
      /\ pods[ProviderPodName[n]].inst = n
      /\ pods[ProviderPodName[n]].owner = sci[n].uid
    BY ProviderNameAssumption DEF HoldsRootfs, Live
<1>2. csci[n] # None /\ ~csci[n].deleting
    BY <1>1 DEF RootfsInv, InstanceSeen, DeletionFinal
<1> QED BY <1>1, <1>2, ProviderUndisturbed

\* The filesystem survives stop and start, however the two controllers, the
\* users and the cluster interleave and however stale the caches are, provided
\* that no container is named like the provider pod of another one.
THEOREM RootfsSurvives ==
    ASSUME NoCollision
    PROVE  Spec => RootfsPreserved
<1> DEFINE Step == \A n \in Names :
          LET p == ProviderPodName[n]
          IN  HoldsRootfs(n) =>
                \/ /\ pods'[p] # None
                   /\ pods'[p].uid = pods[p].uid /\ ~pods'[p].deleting
                \/ sci'[n] # None /\ sci'[n].deleting
                \/ DrainPod(p)
<1>1. TypeOK /\ RootfsInv /\ [Next]_vars => [Step]_vars
    BY ProviderKept DEF Kept
<1> QED BY <1>1, TypeCorrect, CacheNeverAhead, PTL DEF Spec, RootfsPreserved
=============================================================================
