------------------------------ MODULE Operator ------------------------------
(***************************************************************************)
(* The operator: both reconcilers over the shared API server, with the     *)
(* cluster around them, and what is required of the whole.                 *)
(***************************************************************************)
EXTENDS StoppableContainerController, StoppableContainerInstanceController,
        Cluster

Init ==
    /\ sc  = [n \in Names |-> None] /\ csc  = sc
    /\ sci = [n \in Names |-> None] /\ csci = sci
    /\ pods = [p \in PodNames |-> None] /\ cpods = pods
    /\ scQueue = [n \in Names |-> FALSE] /\ sciQueue = scQueue
    /\ scWrite = None /\ sciWrite = None
    /\ nextUid = 1
    /\ budget = Budget

User == \E n \in Names :
    \/ \E run \in BOOLEAN : UserCreate(n, run)
    \/ UserToggle(n) \/ UserDelete(n) \/ UserDeleteInstance(n)

Manager ==
    \/ \E n \in Names : \/ ScReconcile(n) \/ ScError(n)
                        \/ SciReconcile(n) \/ SciError(n)
    \/ SyncSC \/ SyncSCI \/ SyncPods \/ ManagerRestart

Kubernetes ==
    \/ \E p \in PodNames :
          \/ \E node \in Nodes : SchedulePod(p, node)
          \/ PodBecomesReady(p) \/ PodBecomesUnready(p) \/ PodFails(p)
          \/ DrainPod(p) \/ PodGone(p) \/ CollectPod(p)
    \/ \E n \in Names : CollectInstance(n)

Next == User \/ Manager \/ Kubernetes

Spec == Init /\ [][Next]_vars

\* Worker goroutines, watches, scheduler, kubelets and garbage collector never
\* stop for good; users, failures, evictions and restarts owe us nothing.
Fairness ==
    /\ \A n \in Names : /\ WF_vars(ScReconcile(n)) /\ WF_vars(SciReconcile(n))
                        /\ WF_vars(CollectInstance(n))
    /\ WF_vars(SyncSC) /\ WF_vars(SyncSCI) /\ WF_vars(SyncPods)
    /\ \A p \in PodNames :
          /\ WF_vars(\E node \in Nodes : SchedulePod(p, node))
          /\ WF_vars(PodBecomesReady(p)) /\ WF_vars(PodGone(p))
          /\ WF_vars(CollectPod(p))

FairSpec == Spec /\ Fairness

TypeOK ==
    /\ sc  \in [Names -> Opt(StoppableContainer)]
    /\ csc \in [Names -> Opt(StoppableContainer)]
    /\ sci  \in [Names -> Opt(StoppableContainerInstance)]
    /\ csci \in [Names -> Opt(StoppableContainerInstance)]
    /\ pods  \in [PodNames -> Opt(Pod)]
    /\ cpods \in [PodNames -> Opt(Pod)]
    /\ scQueue \in [Names -> BOOLEAN] /\ sciQueue \in [Names -> BOOLEAN]
    /\ scWrite \in Opt(ScWrite) /\ sciWrite \in Opt(SciWrite)
    /\ nextUid \in Nat
    /\ budget \in [EnvOps -> Nat]

-----------------------------------------------------------------------------
Live(n) == sci[n] # None /\ ~sci[n].deleting

\* The provider pod of the SCI n, made for this very SCI and not being deleted.
HoldsRootfs(n) ==
    LET p == pods[ProviderPodName[n]]
    IN  /\ Live(n)
        /\ p # None
        /\ p.inst = n /\ p.owner = sci[n].uid /\ ~p.deleting

\* The filesystem survives stop and start: while an instance exists and is not
\* being deleted, no step other than an eviction from outside deletes its
\* provider pod or puts another one in its place, however stale the cache the
\* reconciler acts on.
RootfsPreserved ==
    [][\A n \in Names :
          LET p == ProviderPodName[n]
          IN  HoldsRootfs(n) =>
                \/ /\ pods'[p] # None
                   /\ pods'[p].uid = pods[p].uid /\ ~pods'[p].deleting
                \/ sci'[n] # None /\ sci'[n].deleting
                \/ DrainPod(p)]_vars

\* The lease the operator gives is the provider pod.  The operator implements
\* RootfsLease: a filesystem is granted to a live instance, is never exchanged
\* for another one, given up or handed to a later instance of the same name, and
\* is lost only by an eviction or with the instance (provider pod names that are
\* no container names).
Lease == INSTANCE RootfsLease WITH
    inst <- [n \in Names |-> IF Live(n) THEN sci[n].uid ELSE None],
    rootfs <- [n \in Names |->
                  IF HoldsRootfs(n) THEN pods[ProviderPodName[n]].uid ELSE None],
    fresh <- nextUid,
    evictions <- budget["drain"]

LeaseKept == Lease!Spec

\* Why the filesystem survives, as an inductive invariant.  A pod of the current
\* instance exists only once the cache holds this instance (createProviderPod
\* and createConsumerPod take the owner from the object they read); a deletion
\* seen in the cache is never undone; uids are not reused.
InstanceSeen ==
    \A n \in Names, p \in PodNames :
        (/\ sci[n] # None /\ pods[p] # None
         /\ pods[p].inst = n /\ pods[p].owner = sci[n].uid)
            => csci[n] # None /\ csci[n].uid = sci[n].uid

DeletionFinal ==
    \A n \in Names :
        (/\ sci[n] # None /\ csci[n] # None
         /\ csci[n].uid = sci[n].uid /\ csci[n].deleting)
            => sci[n].deleting

UidsFresh ==
    /\ \A n \in Names : /\ sci[n] # None => sci[n].uid < nextUid
                        /\ csci[n] # None => csci[n].uid < nextUid
    /\ \A p \in PodNames : pods[p] # None => pods[p].owner < nextUid

\* No reconciler can mistake a live instance for one that is being deleted: what
\* the cache says of the owner of existing pods is never ahead of the truth.
RootfsInv == InstanceSeen /\ DeletionFinal /\ UidsFresh

\* A consumer is created next to its filesystem: createConsumerPod takes the
\* node from a cached provider pod, and when that pod is the instance's own it
\* still exists, unchanged, on that node (runs without eviction).
ConsumerJoinsProvider ==
    [][\A n \in Names :
          LET p == ProviderPodName[n]
          IN  (pods[n] = None /\ pods'[n] # None
                 /\ cpods[p].owner = pods'[n].owner) =>
              /\ pods[p] # None /\ pods[p].uid = cpods[p].uid
              /\ pods[p].node = pods'[n].node]_vars

\* A consumer runs on the node of every provider pod that was there before it:
\* the node it was given is the one the provider still has, also when the
\* provider was evicted or adopted from an earlier instance in between.
ConsumerBesideProvider ==
    \A n \in Names :
        LET p == pods[ProviderPodName[n]]
        IN  (pods[n] # None /\ p # None /\ p.uid < pods[n].uid) =>
                p.node = pods[n].node

\* how-it-works.md promises that the pods of an instance run on the same node.
\* They do as long as no provider is evicted and no instance is deleted: a new
\* provider is placed freely while the consumer of the old one runs on, and a
\* new instance may put its consumer next to the provider its predecessor has
\* left behind (runs without eviction and deletion).
SameNode ==
    \A n \in Names :
        LET p == pods[ProviderPodName[n]]
        IN  (pods[n] # None /\ p # None /\ pods[n].owner = p.owner) =>
                p.node \in {None, pods[n].node}

\* A status that claims to reflect the current generation agrees with
\* spec.running, whichever reads and writes raced.
InstanceStatusTruthful ==
    \A n \in Names : (sci[n] # None /\ sci[n].obs = sci[n].gen) =>
        /\ sci[n].phase \in {"Stopping", "Stopped"} => ~sci[n].running
        /\ sci[n].phase \in {"ConsumerStarting", "Running", "Failed"} =>
              sci[n].running

\* Nothing is queued or in flight and the caches are up to date: no reconcile
\* will run until something changes.
Quiet(n) ==
    /\ ~scQueue[n] /\ ~sciQueue[n] /\ scWrite = None /\ sciWrite = None
    /\ csc[n] = sc[n] /\ csci[n] = sci[n]
    /\ \A p \in {n, ProviderPodName[n]} : cpods[p] = pods[p]

\* A consumer is its instance's own and never outlives it: the finalizer goes
\* only when the cache has neither pod, and by then no consumer is left that the
\* cache has yet to show. (A provider may be left, for the garbage collector.)
ConsumerHasInstance ==
    \A n \in Names : pods[n] # None =>
        sci[n] # None /\ sci[n].finalizer /\ pods[n].owner = sci[n].uid

\* Instances come, change and go as their container asks.  The SC controller acts
\* by name on what its caches say, yet it makes an instance and sets spec.running
\* only for the container that is stored, as this asks or asked a generation ago,
\* and it never takes down the instance of one that is not being deleted.
InstanceFollowsContainer ==
    [][\A n \in Names :
          LET behind == csc[n] # None /\ csc[n].gen < sc[n].gen
              before == sci[n] # None /\ ~sci[n].deleting
              after  == sci'[n] # None /\ ~sci'[n].deleting
          IN  /\ (sci[n] = None /\ sci'[n] # None) =>
                    /\ sc[n] # None /\ sci'[n].owner = sc[n].uid
                    /\ (sc[n].running /\ ~sc[n].deleting) \/ behind
              /\ (sci[n] # None /\ sci'[n] # None /\ sci'[n].running # sci[n].running) =>
                    sc[n] # None /\ (sci'[n].running = sc[n].running \/ behind)
              /\ (/\ before /\ ~after /\ budget' = budget
                  /\ sc[n] # None /\ sci[n].owner = sc[n].uid) => sc[n].deleting]_vars

\* Consumers come and go as the instance asks: whenever one is made or taken down
\* and nobody evicts it, that is what the stored spec wants, unless the object the
\* reconciler has read is a generation behind.
ConsumerFollowsSpec ==
    [][\A n \in Names :
          LET wanted == sci[n] # None /\ sci[n].running /\ ~sci[n].deleting
              behind == sci[n] # None /\ csci[n] # None /\ csci[n].gen < sci[n].gen
              before == pods[n] # None /\ ~pods[n].deleting
              after  == pods'[n] # None /\ ~pods'[n].deleting
          IN  (before # after /\ ~behind /\ budget' = budget) => after = wanted]_vars

\* No wake-up is lost: when the controllers rest, the spec is carried out and
\* both statuses say so, and no deletion has stopped half-way.
RestsOnlyWhenDone ==
    \A n \in Names : Quiet(n) =>
        LET provider == pods[ProviderPodName[n]]
            consumer == pods[n]
        IN
        /\ sci[n] # None => ~sci[n].deleting
        /\ sc[n] # None =>
            /\ ~sc[n].deleting /\ sc[n].finalizer /\ sc[n].obs = sc[n].gen
            /\ sci[n] # None =>
                  /\ sci[n].obs = sci[n].gen
                  /\ sci[n].running = sc[n].running
                  /\ sc[n].phase = PhaseFromInstance(sci[n].phase)
                  /\ provider # None /\ provider.status = "Ready"
                  /\ sc[n].node = provider.node
            /\ IF sc[n].running
               THEN /\ sci[n] # None /\ consumer # None
                    /\ <<sc[n].phase, consumer.status>> \in
                          {<<"Running", "Ready">>, <<"Failed", "Failed">>}
               ELSE sc[n].phase = "Stopped" /\ consumer = None

-----------------------------------------------------------------------------
\* A container that stays wanted ends up running on a ready provider, with
\* both statuses showing it (runs without pod failures).
Up(n) ==
    /\ sc[n] # None /\ sc[n].phase = "Running" /\ sc[n].obs = sc[n].gen
    /\ \A p \in {n, ProviderPodName[n]} : pods[p] # None /\ pods[p].status = "Ready"

StartConverges ==
    \A n \in Names :
        <>[](sc[n] # None /\ sc[n].running /\ ~sc[n].deleting) => <>[]Up(n)

\* A container that stays stopped ends up without a consumer pod, shown as
\* Stopped (runs without pod failures).
Down(n) ==
    /\ sc[n] # None /\ sc[n].phase = "Stopped" /\ sc[n].obs = sc[n].gen
    /\ pods[n] = None

StopConverges ==
    \A n \in Names :
        <>[](sc[n] # None /\ ~sc[n].running /\ ~sc[n].deleting) => <>[]Down(n)

\* Deletion always completes, whatever was in flight when it began.
DeletionCompletes ==
    \A n \in Names : (sc[n] # None /\ sc[n].deleting) ~> (sc[n] = None)

\* Once a container is gone for good, so are its instance and its pods.
NothingLeaks ==
    \A n \in Names :
        <>[](sc[n] = None) =>
            <>[](sci[n] = None /\ pods[n] = None /\ pods[ProviderPodName[n]] = None)
=============================================================================
