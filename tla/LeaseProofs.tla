---------------------------- MODULE LeaseProofs -----------------------------
(***************************************************************************)
(* The operator implements RootfsLease, for all names, pods, nodes and     *)
(* budgets: every step of it is a step of the lease or leaves it alone.    *)
(***************************************************************************)
EXTENDS OperatorProofs

\* What the refinement mapping gives for one name.
Holder(n) == IF Live(n) THEN sci[n].uid ELSE None
Leased(n) == IF HoldsRootfs(n) THEN pods[ProviderPodName[n]].uid ELSE None

\* Of the budgets only the evictions are seen by the lease.
DrainsKept == budget'["drain"] = budget["drain"]

\* Holders and leased filesystems are told apart from None.
LEMMA LeaseTyped ==
    ASSUME TypeOK
    PROVE  /\ nextUid \in Nat /\ nextUid # None /\ budget["drain"] \in Nat
           /\ \A n \in Names : /\ Live(n) => sci[n].uid \in Nat /\ sci[n].uid # None
                               /\ HoldsRootfs(n) =>
                                     /\ Live(n)
                                     /\ pods[ProviderPodName[n]].uid \in Nat
                                     /\ pods[ProviderPodName[n]].uid # None
<1>1. nextUid \in Nat /\ budget["drain"] \in Nat
    BY DEF TypeOK, EnvOps
<1>2. ASSUME NEW n \in Names, Live(n)
      PROVE  sci[n].uid \in Nat
    BY <1>2 DEF Live, TypeOK, Opt, StoppableContainerInstance
<1>3. ASSUME NEW n \in Names, HoldsRootfs(n)
      PROVE  Live(n) /\ pods[ProviderPodName[n]].uid \in Nat
    BY <1>3, ProviderNameAssumption DEF HoldsRootfs, TypeOK, Opt, Pod
<1> QED BY <1>1, <1>2, <1>3, NoneAssumption

\* A step that changes nobody's lease.
LEMMA NothingChanges ==
    ASSUME TypeOK, TypeOK',
           \A n \in Names : Holder(n)' = Holder(n) /\ Leased(n)' = Leased(n),
           nextUid' \in {nextUid, nextUid + 1},
           budget'["drain"] \in {budget["drain"], budget["drain"] - 1}
    PROVE  Lease!Next
<1>1. budget'["drain"] \in Nat
    BY DEF TypeOK, EnvOps
<1>2. Lease!Elsewhere
    BY <1>1 DEF Lease!Elsewhere, Holder, Leased
<1> QED BY <1>2 DEF Lease!Next

\* An instance begins, with no filesystem yet.
LEMMA InstanceBegins ==
    ASSUME TypeOK, NEW n \in Names, ~Live(n), Holder(n)' = nextUid,
           \A m \in Names \ {n} : Holder(m)' = Holder(m),
           \A m \in Names : Leased(m)' = Leased(m),
           nextUid' = nextUid + 1, DrainsKept
    PROVE  Lease!Next
<1>1. Lease!Begin(n)
    BY DEF Lease!Begin, Holder, Leased, DrainsKept
<1> QED BY <1>1 DEF Lease!Next

\* A live instance is granted a filesystem.
LEMMA RootfsGranted ==
    ASSUME TypeOK, NEW n \in Names, Live(n), ~HoldsRootfs(n), Leased(n)' = nextUid,
           \A m \in Names \ {n} : Leased(m)' = Leased(m),
           \A m \in Names : Holder(m)' = Holder(m),
           nextUid' = nextUid + 1, DrainsKept
    PROVE  Lease!Next
<1>1. Lease!Grant(n)
    BY LeaseTyped DEF Lease!Grant, Holder, Leased, DrainsKept
<1> QED BY <1>1 DEF Lease!Next

\* An instance ends, and its lease with it.
LEMMA InstanceEnds ==
    ASSUME TypeOK, NEW n \in Names, Live(n), Holder(n)' = None, Leased(n)' = None,
           \A m \in Names \ {n} : Holder(m)' = Holder(m) /\ Leased(m)' = Leased(m),
           nextUid' = nextUid, DrainsKept
    PROVE  Lease!Next
<1>1. Lease!End(n)
    BY LeaseTyped DEF Lease!End, Holder, Leased, DrainsKept
<1> QED BY <1>1 DEF Lease!Next

\* A filesystem is evicted.
LEMMA RootfsEvicted ==
    ASSUME TypeOK, NEW n \in Names, HoldsRootfs(n), Leased(n)' = None,
           \A m \in Names \ {n} : Leased(m)' = Leased(m),
           \A m \in Names : Holder(m)' = Holder(m),
           nextUid' = nextUid, budget["drain"] > 0,
           budget'["drain"] = budget["drain"] - 1
    PROVE  Lease!Next
<1>1. Leased(n) # None /\ budget["drain"]' = budget["drain"] - 1
    BY LeaseTyped DEF Leased
<1>2. Lease!Evict(n)
    BY <1>1, Zenon DEF Lease!Evict, Holder, Leased
<1> QED BY <1>2 DEF Lease!Next

\* SCIs and pods as they were.
LEMMA IdleLease ==
    ASSUME TypeOK, TypeOK', sci' = sci, pods' = pods,
           nextUid' \in {nextUid, nextUid + 1},
           budget'["drain"] \in {budget["drain"], budget["drain"] - 1}
    PROVE  Lease!Next
<1>1. \A n \in Names : Holder(n)' = Holder(n) /\ Leased(n)' = Leased(n)
    BY DEF Holder, Leased, Live, HoldsRootfs
<1> QED BY <1>1, NothingChanges

\* An SCI is changed, with the uid it had if it is still alive, or removed.
LEMMA InstanceLease ==
    ASSUME TypeOK, TypeOK', NEW n \in Names, NEW x, sci' = [sci EXCEPT ![n] = x],
           pods' = pods, nextUid' = nextUid, DrainsKept,
           (x # None /\ ~x.deleting) => Live(n) /\ x.uid = sci[n].uid
    PROVE  Lease!Next
<1>1. /\ sci'[n] = x
      /\ \A m \in Names \ {n} : sci'[m] = sci[m]
    BY DEF TypeOK
<1>2. \A m \in Names \ {n} : Holder(m)' = Holder(m) /\ Leased(m)' = Leased(m)
  <2> TAKE m \in Names \ {n}
  <2>1. sci'[m] = sci[m]
      BY <1>1
  <2>2. Live(m)' = Live(m) /\ Holder(m)' = Holder(m)
      BY <2>1 DEF Live, Holder
  <2>3. HoldsRootfs(m)' = HoldsRootfs(m)
      BY <2>1, <2>2 DEF HoldsRootfs
  <2> QED BY <2>2, <2>3 DEF Leased
<1>3. CASE x # None /\ ~x.deleting
  <2>1. Holder(n)' = Holder(n) /\ Leased(n)' = Leased(n)
      BY <1>1, <1>3 DEF Holder, Leased, Live, HoldsRootfs
  <2> QED BY <1>2, <2>1, NothingChanges DEF DrainsKept
<1>4. CASE ~(x # None /\ ~x.deleting)
  <2>1. Holder(n)' = None /\ Leased(n)' = None
      BY <1>1, <1>4 DEF Holder, Leased, Live, HoldsRootfs
  <2>2. CASE Live(n)
      BY <1>2, <2>1, <2>2, InstanceEnds
  <2>3. CASE ~Live(n)
    <3>1. Holder(n) = None /\ Leased(n) = None
        BY <2>3 DEF Holder, Leased, HoldsRootfs
    <3> QED BY <1>2, <2>1, <3>1, NothingChanges DEF DrainsKept
  <2> QED BY <2>2, <2>3
<1> QED BY <1>3, <1>4

\* x, in the place of the provider pod of n, is a filesystem for n.
Serves(x, n) ==
    Live(n) /\ x # None /\ x.inst = n /\ x.owner = sci[n].uid /\ ~x.deleting

\* Who holds which filesystem after the pod p has become x.
LEMMA PodChanged ==
    ASSUME TypeOK, NEW p \in PodNames, NEW x, pods' = [pods EXCEPT ![p] = x],
           sci' = sci
    PROVE  /\ \A n \in Names : Holder(n)' = Holder(n)
           /\ \A n \in Names : ProviderPodName[n] # p => Leased(n)' = Leased(n)
           /\ \A n \in Names : ProviderPodName[n] = p =>
                 Leased(n)' = IF Serves(x, n) THEN x.uid ELSE None
<1>1. pods'[p] = x /\ \A q \in PodNames \ {p} : pods'[q] = pods[q]
    BY DEF TypeOK
<1>2. \A n \in Names : ProviderPodName[n] \in PodNames
    BY ProviderNameAssumption
<1>3. \A n \in Names : Holder(n)' = Holder(n)
    BY DEF Holder, Live
<1>4. \A n \in Names : ProviderPodName[n] # p => Leased(n)' = Leased(n)
    BY <1>1, <1>2 DEF Leased, HoldsRootfs, Live
<1>5. \A n \in Names : ProviderPodName[n] = p =>
          Leased(n)' = IF Serves(x, n) THEN x.uid ELSE None
    BY <1>1, SMTT(60) DEF Leased, HoldsRootfs, Live, Serves
<1> QED BY <1>3, <1>4, <1>5

\* A pod is changed or removed that is nobody's filesystem, or one that is is
\* changed and stays one.
LEMMA PodLease ==
    ASSUME TypeOK, TypeOK', NEW p \in PodNames, NEW x,
           pods' = [pods EXCEPT ![p] = x], sci' = sci,
           nextUid' \in {nextUid, nextUid + 1},
           budget'["drain"] \in {budget["drain"], budget["drain"] - 1},
           \A n \in Names : ProviderPodName[n] = p =>
              /\ Serves(x, n) <=> HoldsRootfs(n)
              /\ HoldsRootfs(n) => x.uid = pods[p].uid
    PROVE  Lease!Next
<1>1. \A n \in Names : ProviderPodName[n] = p => Leased(n)' = Leased(n)
    BY PodChanged DEF Leased
<1> QED BY <1>1, PodChanged, NothingChanges

\* DELETE on an SCI ends its lease or does nothing.
LEMMA DeletedLease ==
    ASSUME TypeOK, TypeOK', NEW n \in Names, sci' = [sci EXCEPT ![n] = Deleted(@)],
           pods' = pods, nextUid' = nextUid, DrainsKept
    PROVE  Lease!Next
<1>1. sci[n] \in Opt(StoppableContainerInstance)
    BY DEF TypeOK
<1>2. (Deleted(sci[n]) # None) => Deleted(sci[n]).deleting
  <2>1. ASSUME NEW o \in StoppableContainerInstance
        PROVE  [o EXCEPT !.deleting = TRUE, !.gen = @ + 1].deleting = TRUE
      BY Zenon DEF StoppableContainerInstance
  <2> QED BY <1>1, <2>1 DEF Opt, Deleted
<1> QED BY <1>2, InstanceLease

\* Every step of the SC reconciler is a step of the lease.
LEMMA ScLease ==
    ASSUME TypeOK, TypeOK', RootfsInv, NEW n \in Names, ScReconcile(n) \/ ScError(n)
    PROVE  Lease!Next
<1> USE DEF store, caches, DrainsKept
<1>1. CASE \/ ScIgnore(n) \/ ScRemoveFinalizer(n) \/ ScAddFinalizer(n)
           \/ updateStatusFromInstance(n) \/ updateStatusStopped(n)
           \/ ScWriteStatus(n) \/ ScError(n)
  <2>1. sci' = sci /\ pods' = pods /\ nextUid' = nextUid
      BY <1>1 DEF ScIgnore, ScRemoveFinalizer, ScAddFinalizer, ScStatusUpdate,
                  updateStatusFromInstance, updateStatusStopped, ScWriteStatus,
                  ScError
  <2>2. budget'["drain"] = budget["drain"]
      BY <1>1 DEF ScIgnore, ScRemoveFinalizer, ScAddFinalizer, ScStatusUpdate,
                  updateStatusFromInstance, updateStatusStopped, ScWriteStatus,
                  ScError, TypeOK, EnvOps
  <2> QED BY <2>1, <2>2, IdleLease
<1>2. CASE ScDeleteInstance(n)
    BY <1>2, DeletedLease DEF ScDeleteInstance
<1>3. CASE createInstance(n)
  <2>1. CASE sci[n] # None
      BY <1>3, <2>1, IdleLease DEF createInstance
  <2>2. CASE sci[n] = None
    <3>1. /\ sci' = [sci EXCEPT ![n] = NewInstance(csc[n].uid)]
          /\ pods' = pods /\ nextUid' = nextUid + 1 /\ budget' = budget
        BY <1>3, <2>2 DEF createInstance
    <3>2. /\ sci'[n] # None /\ sci'[n].uid = nextUid /\ ~sci'[n].deleting
          /\ \A m \in Names \ {n} : sci'[m] = sci[m]
      <4>1. sci'[n] = NewInstance(csc[n].uid)
          BY <3>1 DEF TypeOK
      <4>2. csc[n].uid \in Nat
          BY <1>3 DEF createInstance, ScActive, TypeOK, Opt, StoppableContainer
      <4>3. NewInstance(csc[n].uid) \in StoppableContainerInstance
          BY <4>2 DEF TypeOK, NewInstance, StoppableContainerInstance,
                      InstancePhase, Node
      <4> QED BY <3>1, <4>1, <4>3, NoneAssumption DEF TypeOK, NewInstance
    <3>3. ~Live(n) /\ Holder(n)' = nextUid
        BY <2>2, <3>2 DEF Live, Holder
    <3>4. \A m \in Names \ {n} : Holder(m)' = Holder(m) /\ Leased(m)' = Leased(m)
      <4> TAKE m \in Names \ {n}
      <4>1. sci'[m] = sci[m]
          BY <3>2
      <4>2. Live(m)' = Live(m) /\ Holder(m)' = Holder(m)
          BY <4>1 DEF Live, Holder
      <4>3. HoldsRootfs(m)' = HoldsRootfs(m)
          BY <3>1, <4>1, <4>2 DEF HoldsRootfs
      <4> QED BY <3>1, <4>2, <4>3 DEF Leased
    <3>5. Leased(n)' = Leased(n)
      <4>1. pods[ProviderPodName[n]] # None =>
                pods[ProviderPodName[n]].owner # nextUid
        <5>1. ProviderPodName[n] \in PodNames
            BY ProviderNameAssumption
        <5>2. \A p \in PodNames : pods[p] # None =>
                  pods[p].owner < nextUid /\ pods[p].owner \in Nat
            BY UidTyped DEF RootfsInv, UidsFresh
        <5>3. \A a, b \in Nat : a < b => a # b
            OBVIOUS
        <5>4. nextUid \in Nat
            BY UidTyped
        <5> QED BY <5>1, <5>2, <5>3, <5>4
      <4> QED BY <2>2, <3>1, <3>2, <4>1 DEF Leased, HoldsRootfs, Live
    <3> QED BY <3>1, <3>3, <3>4, <3>5, InstanceBegins
  <2> QED BY <2>1, <2>2
<1>4. CASE ScSetInstanceRunning(n)
  <2>1. CASE sci[n] # csci[n]
      BY <1>4, <2>1, IdleLease DEF ScSetInstanceRunning
  <2>2. CASE sci[n] = csci[n]
    <3> DEFINE x == [csci[n] EXCEPT !.running = csc[n].running, !.gen = @ + 1]
    <3>1. /\ sci' = [sci EXCEPT ![n] = x] /\ csci[n] # None
          /\ pods' = pods /\ nextUid' = nextUid /\ budget' = budget
        BY <1>4, <2>2 DEF ScSetInstanceRunning
    <3>2. csci[n] \in StoppableContainerInstance
        BY <3>1 DEF TypeOK, Opt
    <3>3. x.uid = sci[n].uid /\ x.deleting = sci[n].deleting
        BY <2>2, <3>2, Zenon DEF StoppableContainerInstance
    <3> HIDE DEF x
    <3> QED BY <2>2, <3>1, <3>3, InstanceLease DEF Live
  <2> QED BY <2>1, <2>2
<1> QED BY <1>1, <1>2, <1>3, <1>4 DEF ScReconcile

\* A conflict-checked status write leaves the lease alone.
LEMMA UpdatePhaseLease ==
    ASSUME TypeOK, TypeOK', NEW n \in Names, NEW read \in StoppableContainerInstance,
           NEW phase, NEW node, NEW woken, updatePhase(n, read, phase, node, woken)
    PROVE  Lease!Next
<1> USE DEF caches, DrainsKept
<1>1. CASE sci[n] # read
    BY <1>1, IdleLease DEF updatePhase
<1>2. CASE sci[n] = read
  <2> DEFINE x == [read EXCEPT !.phase = phase, !.node = node, !.obs = read.gen]
  <2>1. /\ sci' = [sci EXCEPT ![n] = x] /\ pods' = pods
        /\ nextUid' = nextUid /\ budget' = budget
      BY <1>2 DEF updatePhase
  <2>2. x.uid = sci[n].uid /\ x.deleting = sci[n].deleting
      BY <1>2, Zenon DEF StoppableContainerInstance
  <2> HIDE DEF x
  <2> QED BY <1>2, <2>1, <2>2, NoneAssumption, InstanceLease DEF Live
<1> QED BY <1>1, <1>2

\* DELETE on a pod leaves one that is being deleted, or none.
LEMMA PodDeletedServesNobody ==
    ASSUME NEW p \in Opt(Pod), NEW n \in Names
    PROVE  ~Serves(PodDeleted(p), n)
<1>1. ASSUME NEW q \in Pod
      PROVE  [q EXCEPT !.deleting = TRUE].deleting = TRUE
    BY Zenon DEF Pod
<1> QED BY <1>1 DEF Opt, PodDeleted, Serves

\* Every step of the SCI reconciler is a step of the lease: it deletes a
\* provider pod only once its instance is no longer alive.
LEMMA SciLease ==
    ASSUME NoCollision, TypeOK, TypeOK', RootfsInv, NEW n \in Names,
           SciReconcile(n) \/ SciError(n)
    PROVE  Lease!Next
<1> USE DEF store, caches, DrainsKept
<1>1. CASE SciIgnore(n) \/ SciError(n)
  <2>1. budget'["drain"] = budget["drain"]
      BY <1>1 DEF SciIgnore, SciError, TypeOK, EnvOps
  <2> QED BY <1>1, <2>1, IdleLease DEF SciIgnore, SciError
<1>2. n \in PodNames /\ ProviderPodName[n] \in PodNames
      /\ \A m \in Names : ProviderPodName[m] # n
    BY NamesAssumption, ProviderNameAssumption DEF NoCollision
<1>3. CASE SciDeleteConsumer(n) \/ SciStopConsumer(n)
  <2>1. /\ pods' = [pods EXCEPT ![n] = PodDeleted(pods[n])] /\ sci' = sci
        /\ nextUid' = nextUid /\ budget' = budget
      BY <1>3 DEF SciDeleteConsumer, SciStopConsumer
  <2> QED BY <1>2, <2>1, PodLease
<1>4. CASE SciDeleteProvider(n)
  <2>1. /\ pods' = [pods EXCEPT ![ProviderPodName[n]] =
                       PodDeleted(pods[ProviderPodName[n]])]
        /\ sci' = sci /\ nextUid' = nextUid /\ budget' = budget
        /\ csci[n] # None /\ csci[n].deleting
      BY <1>4 DEF SciDeleteProvider, SciDeleting
  <2>2. ~HoldsRootfs(n)
      BY <1>2, <2>1 DEF HoldsRootfs, Live, RootfsInv, InstanceSeen, DeletionFinal
  <2>3. pods[ProviderPodName[n]] \in Opt(Pod)
      BY <1>2 DEF TypeOK
  <2>4. ~Serves(PodDeleted(pods[ProviderPodName[n]]), n)
      BY <2>3, PodDeletedServesNobody
  <2> DEFINE p == ProviderPodName[n]
             x == PodDeleted(pods[p])
  <2>5. \A m \in Names : ProviderPodName[m] = p => ~Serves(x, m) /\ ~HoldsRootfs(m)
      BY <2>2, <2>4, ProviderNameAssumption
  <2>6. pods' = [pods EXCEPT ![p] = x] /\ p \in PodNames
      BY <1>2, <2>1
  <2> HIDE DEF p, x
  <2> QED BY <2>1, <2>5, <2>6, PodLease
<1>5. CASE SciRemoveFinalizer(n)
  <2>1. CASE sci[n] = csci[n]
      BY <1>5, <2>1, InstanceLease DEF SciRemoveFinalizer
  <2>2. CASE sci[n] # csci[n]
      BY <1>5, <2>2, IdleLease DEF SciRemoveFinalizer
  <2> QED BY <2>1, <2>2
<1>6. CASE SciAddFinalizer(n)
  <2>1. CASE sci[n] # csci[n]
      BY <1>6, <2>1, IdleLease DEF SciAddFinalizer
  <2>2. CASE sci[n] = csci[n]
    <3> DEFINE x == [sci[n] EXCEPT !.finalizer = TRUE]
    <3>1. /\ sci' = [sci EXCEPT ![n] = x] /\ sci[n] # None
          /\ pods' = pods /\ nextUid' = nextUid /\ budget' = budget
        BY <1>6, <2>2 DEF SciAddFinalizer
    <3>2. sci[n] \in StoppableContainerInstance
        BY <3>1 DEF TypeOK, Opt
    <3>3. x.uid = sci[n].uid /\ x.deleting = sci[n].deleting
        BY <3>2, Zenon DEF StoppableContainerInstance
    <3> HIDE DEF x
    <3> QED BY <3>1, <3>3, InstanceLease DEF Live
  <2> QED BY <2>1, <2>2
<1>7. CASE createConsumerPod(n)
  <2>1. PICK node, phase, statusNode : SciCreatePod(n, n, node, phase, statusNode)
      BY <1>7 DEF createConsumerPod
  <2>2. CASE pods[n] # None
      BY <2>1, <2>2, IdleLease DEF SciCreatePod
  <2>3. CASE pods[n] = None
      BY <1>2, <2>1, <2>3, PodLease DEF SciCreatePod
  <2> QED BY <2>2, <2>3
<1>8. CASE createProviderPod(n)
  <2> DEFINE p == ProviderPodName[n]
             x == NewPod(n, None)
  <2>1. /\ SciCreatePod(n, p, None, "ProviderStarting", csci[n].node)
        /\ csci[n] # None
      BY <1>8 DEF createProviderPod, SciActive
  <2>2. CASE pods[p] # None
      BY <2>1, <2>2, IdleLease DEF SciCreatePod
  <2>3. CASE pods[p] = None
    <3>1. /\ pods' = [pods EXCEPT ![p] = x] /\ sci' = sci
          /\ nextUid' = nextUid + 1 /\ budget' = budget
        BY <2>1, <2>3 DEF SciCreatePod
    <3>2. x.uid = nextUid
        BY DEF NewPod
    <3>3. ~HoldsRootfs(n)
        BY <2>3 DEF HoldsRootfs
    <3>4. \A m \in Names : ProviderPodName[m] = p => m = n
        BY ProviderNameAssumption
    <3>5. p \in PodNames
        BY <1>2
    <3> HIDE DEF p, x
    <3>6. CASE Serves(x, n)
      <4>1. Leased(n)' = nextUid
          BY <3>1, <3>2, <3>5, <3>6, PodChanged DEF p
      <4>2. Live(n)
          BY <3>6 DEF Serves
      <4>3. \A m \in Names \ {n} : Leased(m)' = Leased(m)
          BY <3>1, <3>4, <3>5, PodChanged
      <4>4. \A m \in Names : Holder(m)' = Holder(m)
          BY <3>1, <3>5, PodChanged
      <4> QED BY <3>1, <3>3, <4>1, <4>2, <4>3, <4>4, RootfsGranted
    <3>7. CASE ~Serves(x, n)
      <4>1. \A m \in Names : ProviderPodName[m] = p =>
                ~Serves(x, m) /\ ~HoldsRootfs(m)
          BY <3>3, <3>4, <3>7
      <4> QED BY <3>1, <3>5, <4>1, PodLease
    <3> QED BY <3>6, <3>7
  <2> QED BY <2>2, <2>3
<1>9. CASE SciWaitForProvider(n) \/ SciStopped(n) \/ SciReportConsumer(n)
  <2>1. csci[n] \in StoppableContainerInstance
      BY <1>9 DEF SciWaitForProvider, SciStopped, SciReportConsumer, ProviderUp,
                  SciActive, TypeOK, Opt
  <2> QED BY <1>9, <2>1, UpdatePhaseLease
             DEF SciWaitForProvider, SciStopped, SciReportConsumer
<1>10. CASE SciWriteStatus(n)
  <2>1. sciWrite.sci \in StoppableContainerInstance
      BY <1>10 DEF SciWriteStatus, TypeOK, Opt, SciWrite
  <2> QED BY <1>10, <2>1, UpdatePhaseLease DEF SciWriteStatus
<1> QED BY <1>1, <1>3, <1>4, <1>5, <1>6, <1>7, <1>8, <1>9, <1>10
           DEF SciReconcile

\* Users, informers and cluster: the lease of a live instance ends with an
\* eviction at most.
LEMMA ClusterLease ==
    ASSUME TypeOK, TypeOK',
           \/ User \/ Kubernetes
           \/ SyncSC \/ SyncSCI \/ SyncPods \/ ManagerRestart
    PROVE  Lease!Next
<1> USE DEF store, caches, DrainsKept
<1>1. ASSUME NEW op \in EnvOps \ {"drain"}, Spend(op)
      PROVE  DrainsKept
    BY <1>1 DEF Spend, TypeOK, EnvOps
<1>2. CASE User
  <2>1. PICK n \in Names : \/ \E run \in BOOLEAN : UserCreate(n, run)
                           \/ UserToggle(n) \/ UserDelete(n)
                           \/ UserDeleteInstance(n)
      BY <1>2 DEF User
  <2>2. DrainsKept
      BY <1>1, <2>1 DEF UserCreate, UserToggle, UserDelete, UserDeleteInstance, EnvOps
  <2>3. CASE UserDeleteInstance(n)
      BY <2>2, <2>3, DeletedLease DEF UserDeleteInstance
  <2>4. CASE ~UserDeleteInstance(n)
      BY <2>1, <2>2, <2>4, IdleLease DEF UserCreate, UserToggle, UserDelete
  <2> QED BY <2>3, <2>4
<1>3. CASE SyncSC \/ SyncSCI \/ SyncPods
    BY <1>3, IdleLease DEF SyncSC, SyncSCI, SyncPods
<1>4. CASE ManagerRestart
    BY <1>1, <1>4, IdleLease DEF ManagerRestart, EnvOps
<1>5. CASE \E n \in Names : CollectInstance(n)
    BY <1>5, DeletedLease DEF CollectInstance
<1>6. ASSUME NEW p \in PodNames, NEW x, SetPod(p, x), DrainsKept,
             pods[p] # None, x # None, x.uid = pods[p].uid, x.inst = pods[p].inst,
             x.owner = pods[p].owner, x.deleting = pods[p].deleting
      PROVE  Lease!Next
  <2>1. \A n \in Names : ProviderPodName[n] = p =>
            /\ Serves(x, n) <=> HoldsRootfs(n)
            /\ HoldsRootfs(n) => x.uid = pods[p].uid
      BY <1>6 DEF Serves, HoldsRootfs
  <2> QED BY <1>6, <2>1, PodLease DEF SetPod
<1>7. ASSUME NEW p \in PodNames, NEW x, SetPod(p, x), DrainsKept,
             \A n \in Names : ProviderPodName[n] = p =>
                ~Serves(x, n) /\ ~HoldsRootfs(n)
      PROVE  Lease!Next
    BY <1>7, PodLease DEF SetPod
<1>8. ASSUME NEW p \in PodNames, pods[p] # None
      PROVE  /\ \A v \in Node : LET x == [pods[p] EXCEPT !.node = v]
                IN  /\ x # None /\ x.uid = pods[p].uid /\ x.inst = pods[p].inst
                    /\ x.owner = pods[p].owner /\ x.deleting = pods[p].deleting
             /\ \A v \in {"NotReady", "Ready", "Failed"} :
                LET x == [pods[p] EXCEPT !.status = v]
                IN  /\ x # None /\ x.uid = pods[p].uid /\ x.inst = pods[p].inst
                    /\ x.owner = pods[p].owner /\ x.deleting = pods[p].deleting
  <2>1. pods[p] \in Pod
      BY <1>8 DEF TypeOK, Opt
  <2> QED BY <2>1, NoneAssumption DEF Pod
<1>9. ASSUME NEW p \in PodNames, NEW node \in Nodes, SchedulePod(p, node)
      PROVE  Lease!Next
  <2>1. /\ pods[p] # None /\ UNCHANGED budget
        /\ SetPod(p, [pods[p] EXCEPT !.node = node])
      BY <1>9 DEF SchedulePod
  <2> DEFINE x == [pods[p] EXCEPT !.node = node]
  <2>2. /\ x # None /\ x.uid = pods[p].uid /\ x.inst = pods[p].inst
        /\ x.owner = pods[p].owner /\ x.deleting = pods[p].deleting
      BY <1>8, <2>1 DEF Node
  <2>3. SetPod(p, x) /\ DrainsKept
      BY <2>1
  <2> HIDE DEF x
  <2> QED BY <1>6, <2>1, <2>2, <2>3
<1>10. ASSUME NEW p \in PodNames,
              PodBecomesReady(p) \/ PodBecomesUnready(p) \/ PodFails(p)
       PROVE  Lease!Next
  <2>1. PICK v \in {"NotReady", "Ready", "Failed"} :
            SetPod(p, [pods[p] EXCEPT !.status = v])
      BY <1>10 DEF PodBecomesReady, PodBecomesUnready, PodFails
  <2>2. DrainsKept /\ pods[p] # None
      BY <1>1, <1>10 DEF PodBecomesReady, PodBecomesUnready, PodFails, EnvOps
  <2> DEFINE x == [pods[p] EXCEPT !.status = v]
  <2>3. /\ x # None /\ x.uid = pods[p].uid /\ x.inst = pods[p].inst
        /\ x.owner = pods[p].owner /\ x.deleting = pods[p].deleting
      BY <1>8, <2>2
  <2>4. SetPod(p, x)
      BY <2>1
  <2> HIDE DEF x
  <2> QED BY <1>6, <2>2, <2>3, <2>4
<1>11. ASSUME NEW p \in PodNames, PodGone(p)
       PROVE  Lease!Next
  <2>1. \A n \in Names : ProviderPodName[n] = p =>
            ~Serves(None, n) /\ ~HoldsRootfs(n)
      BY <1>11 DEF PodGone, Serves, HoldsRootfs
  <2> QED BY <1>7, <1>11, <2>1 DEF PodGone
<1>12. ASSUME NEW p \in PodNames, CollectPod(p)
       PROVE  Lease!Next
  <2>1. \A n \in Names : ProviderPodName[n] = p => ~HoldsRootfs(n)
      BY <1>12 DEF CollectPod, PodOrphaned, HoldsRootfs, Live
  <2>2. pods[p] \in Opt(Pod)
      BY DEF TypeOK
  <2>3. \A n \in Names : ~Serves(PodDeleted(pods[p]), n)
      BY <2>2, PodDeletedServesNobody
  <2> QED BY <1>7, <1>12, <2>1, <2>3 DEF CollectPod
<1>13. ASSUME NEW p \in PodNames, DrainPod(p)
       PROVE  Lease!Next
  <2> DEFINE x == PodDeleted(pods[p])
  <2>1. pods[p] \in Opt(Pod)
      BY DEF TypeOK
  <2>2. \A n \in Names : ~Serves(x, n)
      BY <2>1, PodDeletedServesNobody
  <2>3. /\ pods' = [pods EXCEPT ![p] = x] /\ sci' = sci /\ nextUid' = nextUid
        /\ budget["drain"] > 0 /\ budget'["drain"] = budget["drain"] - 1
      BY <1>13 DEF DrainPod, SetPod, Spend, TypeOK, EnvOps
  <2> HIDE DEF x
  <2>4. CASE \E n \in Names : ProviderPodName[n] = p /\ HoldsRootfs(n)
    <3>1. PICK n \in Names : ProviderPodName[n] = p /\ HoldsRootfs(n)
        BY <2>4
    <3>2. Leased(n)' = None
        BY <2>2, <2>3, <3>1, PodChanged
    <3>3. \A m \in Names \ {n} : Leased(m)' = Leased(m)
        BY <2>3, <3>1, PodChanged, ProviderNameAssumption
    <3>4. \A m \in Names : Holder(m)' = Holder(m)
        BY <2>3, PodChanged
    <3> QED BY <2>3, <3>1, <3>2, <3>3, <3>4, RootfsEvicted
  <2>5. CASE ~\E n \in Names : ProviderPodName[n] = p /\ HoldsRootfs(n)
      BY <2>2, <2>3, <2>5, PodLease
  <2> QED BY <2>4, <2>5
<1> QED BY <1>2, <1>3, <1>4, <1>5, <1>9, <1>10, <1>11, <1>12, <1>13
           DEF Kubernetes

\* The operator implements RootfsLease, however its processes interleave and
\* however stale the caches are, provided that no container is named like the
\* provider pod of another one: a live instance keeps the provider pod it was
\* given until it ends or the pod is evicted, and no later instance gets it.
THEOREM LeaseImplemented ==
    ASSUME NoCollision
    PROVE  Spec => LeaseKept
<1>1. Init => Lease!Init
  <2>1. ASSUME Init
        PROVE  \A n \in Names : ~Live(n) /\ ~HoldsRootfs(n)
      BY <2>1 DEF Init, Live, HoldsRootfs
  <2> QED BY <2>1, BudgetAssumption DEF Init, Lease!Init, EnvOps
<1>2. TypeOK /\ TypeOK' /\ RootfsInv /\ [Next]_vars => [Lease!Next]_(Lease!lvars)
  <2> SUFFICES ASSUME TypeOK, TypeOK', RootfsInv, [Next]_vars
               PROVE  [Lease!Next]_(Lease!lvars)
      OBVIOUS
  <2>1. CASE Next
      BY <2>1, ScLease, SciLease, ClusterLease DEF Next, Manager
  <2>2. CASE UNCHANGED vars
      BY <2>2, IdleLease DEF vars
  <2> QED BY <2>1, <2>2
<1> QED BY <1>1, <1>2, TypeCorrect, CacheNeverAhead, PTL DEF Spec, LeaseKept, Lease!Spec
=============================================================================
