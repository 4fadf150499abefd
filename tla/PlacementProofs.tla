-------------------------- MODULE PlacementProofs ---------------------------
(***************************************************************************)
(* Consumers are placed next to their providers, do not outlive their      *)
(* instances and follow their spec, and instances follow their containers, *)
(* for all names, pods, nodes and budgets.                                 *)
(***************************************************************************)
EXTENDS StepProofs

\* A pod in the cache is the one that exists, if one does, on the node it has;
\* an older provider and the consumer are on one node.
PodUidsFresh == \A q \in PodNames : pods[q] # None => pods[q].uid < nextUid

CachedPodCurrent ==
    \A q \in PodNames : (pods[q] # None /\ cpods[q] # None) =>
        /\ cpods[q].uid = pods[q].uid /\ cpods[q].owner = pods[q].owner
        /\ cpods[q].node # None => pods[q].node = cpods[q].node

BesideOlderProvider ==
    \A n \in Names :
        LET p == pods[ProviderPodName[n]]
        IN  (pods[n] # None /\ p # None /\ p.uid < pods[n].uid) =>
                p.node = pods[n].node /\ pods[n].node # None

PlacementInv == PodUidsFresh /\ CachedPodCurrent /\ BesideOlderProvider

\* Pods carry natural numbers as uids.
LEMMA PodUidTyped ==
    ASSUME TypeOK
    PROVE  nextUid \in Nat /\ \A q \in PodNames : pods[q] # None => pods[q].uid \in Nat
    BY DEF TypeOK, Opt, Pod

\* A step keeps the cache current: a pod is made only under a name the cache
\* does not have.
LEMMA PodCacheKept ==
    ASSUME TypeOK, PodUidsFresh, CachedPodCurrent, PodStep
    PROVE  PodUidsFresh' /\ CachedPodCurrent'
<1>1. CASE PodsIdle
  <2>1. PodUidsFresh'
      BY <1>1, PodUidTyped DEF PodUidsFresh, PodsIdle
  <2>2. CachedPodCurrent'
      BY <1>1 DEF CachedPodCurrent, PodsIdle
  <2> QED BY <2>1, <2>2
<1>2. ASSUME NEW q \in PodNames, PodChanges(q)
      PROVE  PodUidsFresh' /\ CachedPodCurrent'
  <2>1. PodUidsFresh'
      BY <1>2 DEF PodUidsFresh, PodChanges
  <2>2. CachedPodCurrent'
      BY <1>2 DEF CachedPodCurrent, PodChanges
  <2> QED BY <2>1, <2>2
<1>3. ASSUME NEW n \in Names, NEW q \in PodNames, PodMade(n, q)
      PROVE  PodUidsFresh' /\ CachedPodCurrent'
  <2>1. PodUidsFresh'
      BY <1>3, PodUidTyped DEF PodUidsFresh, PodMade
  <2>2. CachedPodCurrent'
      BY <1>3 DEF CachedPodCurrent, PodMade
  <2> QED BY <2>1, <2>2
<1> QED BY <1>1, <1>2, <1>3 DEF PodStep

\* A consumer is made on the node of the provider, and a provider that is made
\* later is younger.
LEMMA BesideKept ==
    ASSUME NoCollision, TypeOK, PlacementInv, PodStep
    PROVE  BesideOlderProvider'
<1> SUFFICES ASSUME NEW n \in Names,
                    pods'[n] # None, pods'[ProviderPodName[n]] # None,
                    pods'[ProviderPodName[n]].uid < pods'[n].uid
             PROVE  /\ pods'[ProviderPodName[n]].node = pods'[n].node
                    /\ pods'[n].node # None
    BY DEF BesideOlderProvider
<1> DEFINE p == ProviderPodName[n]
<1>1. n \in PodNames /\ p \in PodNames /\ n # p
    BY NamesAssumption, ProviderNameAssumption
<1>2. (pods[n] # None /\ pods[p] # None /\ pods[p].uid < pods[n].uid) =>
          pods[p].node = pods[n].node /\ pods[n].node # None
    BY DEF PlacementInv, BesideOlderProvider
<1> HIDE DEF p
<1>3. CASE PodsIdle
    BY <1>2, <1>3 DEF PodsIdle, p
<1>4. ASSUME NEW q \in PodNames, PodChanges(q)
      PROVE  pods'[p].node = pods'[n].node /\ pods'[n].node # None
    BY <1>1, <1>2, <1>4 DEF PodChanges, p
<1>5. ASSUME NEW m \in Names, NEW q \in PodNames, PodMade(m, q)
      PROVE  pods'[p].node = pods'[n].node /\ pods'[n].node # None
  <2>1. CASE q = n
    <3>1. m = n
        BY <1>5, <2>1 DEF PodMade, NoCollision
    <3>2. pods'[p] = pods[p] /\ cpods[p] # None /\ pods'[n].node # None
          /\ pods'[n].node = cpods[p].node
        BY <1>1, <1>5, <2>1, <3>1 DEF PodMade, NoCollision, p
    <3>3. pods[p].node = cpods[p].node
        BY <1>1, <3>2 DEF PlacementInv, CachedPodCurrent, p
    <3> QED BY <3>2, <3>3
  <2>2. CASE q = p
    <3>1. pods'[p].uid = nextUid /\ pods'[n] = pods[n]
        BY <1>1, <1>5, <2>2 DEF PodMade
    <3>2. pods[n].uid \in Nat /\ pods[n].uid < nextUid /\ nextUid \in Nat
        BY <1>1, <3>1, PodUidTyped DEF PlacementInv, PodUidsFresh
    <3> QED BY <3>1, <3>2 DEF p
  <2>3. CASE q # n /\ q # p
      BY <1>1, <1>2, <1>5, <2>3 DEF PodMade, p
  <2> QED BY <2>1, <2>2, <2>3
<1> QED BY <1>3, <1>4, <1>5 DEF PodStep, p

\* The invariant holds at any time.
LEMMA PlacementCorrect ==
    ASSUME NoCollision
    PROVE  Spec => []PlacementInv
<1>1. Init => PlacementInv
  <2>1. Init => \A q \in PodNames : pods[q] = None
      BY DEF Init
  <2> QED BY <2>1, NamesAssumption DEF PlacementInv, PodUidsFresh,
             CachedPodCurrent, BesideOlderProvider
<1>2. TypeOK /\ PlacementInv /\ [Next]_vars => PlacementInv'
  <2> SUFFICES ASSUME TypeOK, PlacementInv, [Next]_vars
               PROVE  PlacementInv'
      OBVIOUS
  <2>1. CASE Next
      BY <2>1, EveryPodStep, PodCacheKept, BesideKept DEF PlacementInv
  <2>2. CASE UNCHANGED vars
      BY <2>2 DEF vars, PlacementInv, PodUidsFresh, CachedPodCurrent,
                  BesideOlderProvider
  <2> QED BY <2>1, <2>2
<1> QED BY <1>1, <1>2, TypeCorrect, PTL DEF Spec

\* However stale the cache and whatever is evicted, deleted and created again, a
\* consumer runs on the node of every provider pod that was there before it,
\* provided that no container is named like the provider pod of another one.
THEOREM Placed ==
    ASSUME NoCollision
    PROVE  Spec => []ConsumerBesideProvider
<1>1. PlacementInv => ConsumerBesideProvider
    BY DEF PlacementInv, BesideOlderProvider, ConsumerBesideProvider
<1> QED BY <1>1, PlacementCorrect, PTL

-----------------------------------------------------------------------------
\* A pod called ProviderPodName[n] is the provider of n, and of a known owner.
ProvidersNamed ==
    \A n \in Names :
        LET p == ProviderPodName[n]
        IN  /\ pods[p] # None => pods[p].inst = n
            /\ cpods[p] # None => cpods[p].inst = n /\ cpods[p].owner < nextUid

\* A provider of the current SCI, also a cached one, was made when the cache had
\* this SCI with its finalizer.
ProviderSeen ==
    \A n \in Names :
        LET p == ProviderPodName[n]
        IN  (/\ sci[n] # None
             /\ \/ pods[p] # None /\ pods[p].owner = sci[n].uid
                \/ cpods[p] # None /\ cpods[p].owner = sci[n].uid) =>
            csci[n] # None /\ csci[n].uid = sci[n].uid /\ csci[n].finalizer

\* As long as the SCI is acted on, its provider is not deleted, and the one in
\* the cache exists.
ProviderStays ==
    \A n \in Names :
        LET p == ProviderPodName[n]
        IN  Acting(n) =>
                /\ (pods[p] # None /\ pods[p].owner = csci[n].uid) =>
                      ~pods[p].deleting
                /\ (cpods[p] # None /\ cpods[p].owner = csci[n].uid) =>
                      pods[p] # None

NoEviction == Budget["drain"] = 0

JoinInv ==
    /\ ActingExists /\ ProvidersNamed /\ ProviderSeen /\ ProviderStays
    /\ budget["drain"] = 0

\* Owners of pods are natural numbers, in the cache too.
LEMMA CachedOwnerTyped ==
    ASSUME TypeOK
    PROVE  \A q \in PodNames : cpods[q] # None => cpods[q].owner \in Nat
    BY DEF TypeOK, Opt, Pod

\* Provider pods keep their names and owners.
LEMMA ProvidersNamedKept ==
    ASSUME NoCollision, TypeOK, RootfsInv, ProvidersNamed, PodStep
    PROVE  ProvidersNamed'
<1> SUFFICES ASSUME NEW n \in Names
             PROVE  LET p == ProviderPodName[n]
                    IN  /\ pods'[p] # None => pods'[p].inst = n
                        /\ cpods'[p] # None =>
                              cpods'[p].inst = n /\ cpods'[p].owner < nextUid'
    BY DEF ProvidersNamed
<1> DEFINE p == ProviderPodName[n]
<1>1. p \in PodNames
    BY ProviderNameAssumption
<1>2. /\ pods[p] # None => pods[p].inst = n /\ pods[p].owner < nextUid
      /\ cpods[p] # None => cpods[p].inst = n /\ cpods[p].owner < nextUid
      /\ pods[p] # None => pods[p].owner \in Nat
      /\ cpods[p] # None => cpods[p].owner \in Nat
      /\ nextUid \in Nat
    BY <1>1, UidTyped, CachedOwnerTyped DEF ProvidersNamed, RootfsInv, UidsFresh
<1> HIDE DEF p
<1>3. CASE PodsIdle
    BY <1>2, <1>3 DEF PodsIdle, p
<1>4. ASSUME NEW q \in PodNames, PodChanges(q)
      PROVE  /\ pods'[p] # None => pods'[p].inst = n
             /\ cpods'[p] # None => cpods'[p].inst = n /\ cpods'[p].owner < nextUid'
    BY <1>1, <1>2, <1>4 DEF PodChanges
<1>5. ASSUME NEW m \in Names, NEW q \in PodNames, PodMade(m, q)
      PROVE  /\ pods'[p] # None => pods'[p].inst = n
             /\ cpods'[p] # None => cpods'[p].inst = n /\ cpods'[p].owner < nextUid'
  <2>1. cpods'[p] # None => cpods'[p].inst = n /\ cpods'[p].owner < nextUid'
      BY <1>2, <1>5 DEF PodMade
  <2>2. q = p => m = n
      BY <1>5, ProviderNameAssumption DEF PodMade, NoCollision, p
  <2>3. pods'[p] # None => pods'[p].inst = n
      BY <1>1, <1>2, <1>5, <2>2 DEF PodMade
  <2> QED BY <2>1, <2>3
<1> QED BY <1>3, <1>4, <1>5 DEF PodStep, p

\* A provider is made only for the SCI in the cache, with its finalizer.
LEMMA ProviderSeenKept ==
    ASSUME NoCollision, TypeOK, RootfsInv, ActingExists, ProvidersNamed,
           ProviderSeen, PodStep, InstancesStep
    PROVE  ProviderSeen'
<1> SUFFICES ASSUME NEW n \in Names, sci'[n] # None,
                    \/ /\ pods'[ProviderPodName[n]] # None
                       /\ pods'[ProviderPodName[n]].owner = sci'[n].uid
                    \/ /\ cpods'[ProviderPodName[n]] # None
                       /\ cpods'[ProviderPodName[n]].owner = sci'[n].uid
             PROVE  /\ csci'[n] # None /\ csci'[n].uid = sci'[n].uid
                    /\ csci'[n].finalizer
    BY DEF ProviderSeen
<1> DEFINE p == ProviderPodName[n]
<1>1. p \in PodNames
    BY ProviderNameAssumption
<1>2. /\ pods[p] # None => pods[p].owner \in Nat /\ pods[p].owner < nextUid
      /\ cpods[p] # None => cpods[p].owner \in Nat /\ cpods[p].owner < nextUid
      /\ nextUid \in Nat
    BY <1>1, UidTyped, CachedOwnerTyped DEF RootfsInv, UidsFresh, ProvidersNamed
<1>3. (/\ sci[n] # None
       /\ \/ pods[p] # None /\ pods[p].owner = sci[n].uid
          \/ cpods[p] # None /\ cpods[p].owner = sci[n].uid) =>
      csci[n] # None /\ csci[n].uid = sci[n].uid /\ csci[n].finalizer
    BY DEF ProviderSeen
<1>4. \/ pods'[p] # None /\ pods'[p].owner = sci'[n].uid
      \/ cpods'[p] # None /\ cpods'[p].owner = sci'[n].uid
    OBVIOUS
<1> HIDE DEF p
\* A pod that was there or in the cache before has the owner it had.
<1>5. \/ pods[p] # None /\ pods[p].owner = sci'[n].uid
      \/ cpods[p] # None /\ cpods[p].owner = sci'[n].uid
      \/ /\ csci' = csci /\ sci' = sci /\ csci[n] # None /\ csci[n].finalizer
         /\ csci[n].uid = sci'[n].uid
  <2>1. CASE PodsIdle
      BY <1>4, <2>1 DEF PodsIdle
  <2>2. ASSUME NEW q \in PodNames, PodChanges(q)
        PROVE  \/ pods[p] # None /\ pods[p].owner = sci'[n].uid
               \/ cpods[p] # None /\ cpods[p].owner = sci'[n].uid
      BY <1>1, <1>4, <2>2 DEF PodChanges
  <2>3. ASSUME NEW m \in Names, NEW q \in PodNames, PodMade(m, q)
        PROVE  <1>5
    <3>1. q = p => m = n
        BY <2>3, ProviderNameAssumption DEF PodMade, NoCollision, p
    <3>2. CASE q = p
        BY <1>4, <2>3, <3>1, <3>2 DEF PodMade
    <3>3. CASE q # p
      <4>1. pods'[p] = pods[p]
          BY <1>1, <2>3, <3>3 DEF PodMade
      <4> QED BY <1>4, <2>3, <4>1 DEF PodMade
    <3> QED BY <3>2, <3>3
  <2> QED BY <2>1, <2>2, <2>3 DEF PodStep
<1>6. CASE csci' = csci
  <2>1. sci[n] # None /\ sci'[n].uid = sci[n].uid
      BY <1>2, <1>5 DEF InstancesStep, InstanceStep, InstanceBecomes, InstanceGoes,
                           InstanceMade
  <2> QED BY <1>3, <1>5, <1>6, <2>1
<1>7. CASE csci' = sci /\ sci' = sci
    BY <1>3, <1>5, <1>7 DEF ActingExists
<1> QED BY <1>6, <1>7 DEF InstancesStep

\* The provider of an SCI that is acted on stays.
LEMMA ProviderStaysKept ==
    ASSUME NoCollision, TypeOK, RootfsInv, PlacementInv, JoinInv, Next
    PROVE  ProviderStays'
<1> USE DEF JoinInv
<1> SUFFICES ASSUME NEW n \in Names, Acting(n)'
             PROVE  LET p == ProviderPodName[n]
                    IN  /\ (pods'[p] # None /\ pods'[p].owner = csci'[n].uid) =>
                              ~pods'[p].deleting
                        /\ (cpods'[p] # None /\ cpods'[p].owner = csci'[n].uid) =>
                              pods'[p] # None
    BY DEF ProviderStays
<1> DEFINE p == ProviderPodName[n]
<1>1. p \in PodNames
    BY ProviderNameAssumption
<1>2. PodStep /\ InstancesStep
    BY EveryPodStep, EveryInstanceStep
<1>3. Acting(n) => /\ (pods[p] # None /\ pods[p].owner = csci[n].uid) =>
                         ~pods[p].deleting
                   /\ (cpods[p] # None /\ cpods[p].owner = csci[n].uid) =>
                         pods[p] # None
    BY DEF ProviderStays
<1>4. Acting(n) => sci[n] # None /\ sci[n].uid = csci[n].uid
    BY DEF ActingExists
<1>5. ~DrainPod(p)
    BY DEF DrainPod, Spend, TypeOK
<1>6. ASSUME Acting(n), pods[p] # None, pods[p].owner = csci[n].uid
      PROVE  pods'[p] # None /\ ~pods'[p].deleting
  <2>1. pods[p].inst = n /\ pods[p].owner = sci[n].uid
        /\ sci[n] # None /\ ~pods[p].deleting
      BY <1>3, <1>4, <1>6 DEF ProvidersNamed
  <2>2. csci[n] # None /\ ~csci[n].deleting
      BY <1>6 DEF Acting
  <2>3. Kept(p)
      BY <1>5, <1>6, <2>1, <2>2, ProviderUndisturbed
  <2> QED BY <2>3 DEF Kept
<1>7. /\ pods[p] # None /\ cpods[p] # None => cpods[p].owner = pods[p].owner
    BY <1>1 DEF PlacementInv, CachedPodCurrent
<1> HIDE DEF p
<1>8. CASE csci' = csci
  <2>1. Acting(n)
      BY <1>8 DEF Acting
  <2>2. CASE pods[p] # None /\ pods[p].owner = csci[n].uid
      BY <1>6, <2>1, <2>2 DEF p
  <2>3. CASE ~(pods[p] # None /\ pods[p].owner = csci[n].uid)
    <3>1. ~(cpods[p] # None /\ cpods[p].owner = csci[n].uid)
        BY <1>3, <1>7, <2>1, <2>3
    <3>2. CASE PodsIdle
        BY <1>8, <2>3, <3>1, <3>2 DEF PodsIdle, p
    <3>3. ASSUME NEW q \in PodNames, PodChanges(q)
          PROVE  /\ ~(pods'[p] # None /\ pods'[p].owner = csci'[n].uid)
                 /\ ~(cpods'[p] # None /\ cpods'[p].owner = csci'[n].uid)
        BY <1>1, <1>8, <2>3, <3>1, <3>3 DEF PodChanges
    <3>4. ASSUME NEW m \in Names, NEW q \in PodNames, PodMade(m, q)
          PROVE  /\ (pods'[p] # None /\ pods'[p].owner = csci'[n].uid) =>
                       ~pods'[p].deleting
                 /\ ~(cpods'[p] # None /\ cpods'[p].owner = csci'[n].uid)
        BY <1>1, <1>8, <2>3, <3>1, <3>4 DEF PodMade
    <3> QED BY <1>2, <3>2, <3>3, <3>4 DEF PodStep, p
  <2> QED BY <2>2, <2>3
<1>9. CASE csci' = sci /\ sci' = sci /\ pods' = pods
  <2>1. sci[n] # None /\ ~sci[n].deleting
      BY <1>9 DEF Acting
  <2>2. ASSUME \/ pods[p] # None /\ pods[p].owner = sci[n].uid
               \/ cpods[p] # None /\ cpods[p].owner = sci[n].uid
        PROVE  Acting(n) /\ csci[n].uid = sci[n].uid
    <3>1. csci[n] # None /\ csci[n].uid = sci[n].uid /\ csci[n].finalizer
        BY <2>1, <2>2 DEF ProviderSeen, p
    <3>2. ~csci[n].deleting
        BY <2>1, <3>1 DEF RootfsInv, DeletionFinal
    <3> QED BY <3>1, <3>2 DEF Acting
  <2>3. cpods' \in {cpods, pods}
      BY <1>2, <1>9 DEF PodStep, PodsIdle, PodChanges, PodMade
  <2> QED BY <1>3, <1>9, <2>2, <2>3 DEF p
<1> QED BY <1>2, <1>8, <1>9 DEF InstancesStep

\* Without evictions, what the SCI reconciler reads of its own provider is true.
LEMMA JoinCorrect ==
    ASSUME NoCollision, NoEviction
    PROVE  Spec => []JoinInv
<1>1. Init => JoinInv
  <2> SUFFICES ASSUME Init PROVE JoinInv
      OBVIOUS
  <2>1. /\ \A q \in PodNames : pods[q] = None /\ cpods[q] = None
        /\ \A n \in Names : sci[n] = None /\ csci[n] = None
        /\ budget = Budget
      BY DEF Init
  <2> QED BY <2>1, ProviderNameAssumption DEF NoEviction, JoinInv, ActingExists,
             Acting, ProvidersNamed, ProviderSeen, ProviderStays
<1>2. TypeOK /\ RootfsInv /\ PlacementInv /\ JoinInv /\ [Next]_vars => JoinInv'
  <2> SUFFICES ASSUME TypeOK, RootfsInv, PlacementInv, JoinInv, [Next]_vars
               PROVE  JoinInv'
      OBVIOUS
  <2>1. CASE Next
    <3>1. PodStep /\ InstancesStep
        BY <2>1, EveryPodStep, EveryInstanceStep
    <3>2. "drain" \in EnvOps
        BY DEF EnvOps
    <3>3. budget'["drain"] = 0
        BY <2>1, <3>2, BudgetStaysEmpty DEF JoinInv
    <3> QED BY <2>1, <3>1, <3>3, ActingExistsKept, ProvidersNamedKept,
               ProviderSeenKept, ProviderStaysKept DEF JoinInv
  <2>2. CASE UNCHANGED vars
      BY <2>2 DEF vars, JoinInv, ActingExists, Acting, ProvidersNamed, ProviderSeen,
                  ProviderStays
  <2> QED BY <2>1, <2>2
<1> QED BY <1>1, <1>2, TypeCorrect, CacheNeverAhead, PlacementCorrect, PTL DEF Spec

\* Unless pods are evicted, the cached provider a consumer is created next to,
\* when it is the instance's own, exists at that moment, on the node that was
\* read (containers not named like provider pods).
THEOREM ConsumerJoins ==
    ASSUME NoCollision, NoEviction
    PROVE  Spec => ConsumerJoinsProvider
<1> DEFINE Step == \A n \in Names :
          LET p == ProviderPodName[n]
          IN  (pods[n] = None /\ pods'[n] # None
                 /\ cpods[p].owner = pods'[n].owner) =>
              /\ pods[p] # None /\ pods[p].uid = cpods[p].uid
              /\ pods[p].node = pods'[n].node
<1>1. TypeOK /\ PlacementInv /\ JoinInv /\ [Next]_vars => [Step]_vars
  <2> SUFFICES ASSUME TypeOK, PlacementInv, JoinInv, Next, NEW n \in Names,
                      pods[n] = None, pods'[n] # None,
                      cpods[ProviderPodName[n]].owner = pods'[n].owner
               PROVE  LET p == ProviderPodName[n]
                      IN  /\ pods[p] # None /\ pods[p].uid = cpods[p].uid
                          /\ pods[p].node = pods'[n].node
      OBVIOUS
  <2> DEFINE p == ProviderPodName[n]
  <2>1. n \in PodNames /\ p \in PodNames
      BY NamesAssumption, ProviderNameAssumption
  <2>2. PICK m \in Names, q \in PodNames : PodMade(m, q)
      BY <2>1, EveryPodStep DEF PodStep, PodsIdle, PodChanges
  <2>3. q = n
      BY <2>1, <2>2 DEF PodMade
  <2>4. m = n
      BY <2>2, <2>3 DEF PodMade, NoCollision
  <2>5. /\ Acting(n) /\ pods'[n].owner = csci[n].uid /\ cpods[p] # None
        /\ pods'[n].node = cpods[p].node /\ cpods[p].node # None
      BY <2>2, <2>3, <2>4 DEF PodMade, Acting, NoCollision
  <2>6. pods[p] # None
      BY <2>5 DEF JoinInv, ProviderStays
  <2> QED BY <2>1, <2>5, <2>6 DEF PlacementInv, CachedPodCurrent
<1> QED BY <1>1, TypeCorrect, PlacementCorrect, JoinCorrect, PTL
        DEF Spec, ConsumerJoinsProvider

-----------------------------------------------------------------------------
\* The provider of n is there for good, and was there before the consumer.
ProviderFirst ==
    \A n \in Names :
        LET p == ProviderPodName[n]
        IN  /\ pods[p] # None =>
                  /\ ~pods[p].deleting
                  /\ csci[n] # None /\ pods[p].owner = csci[n].uid
            /\ cpods[p] # None => pods[p] # None
            /\ pods[n] # None => pods[p] # None /\ pods[p].uid < pods[n].uid

\* Every step keeps it: a consumer is created beside a cached provider only.
LEMMA ProviderFirstKept ==
    ASSUME NoCollision, TypeOK, PlacementInv, JoinInv, Undeleted, ProviderFirst, Next
    PROVE  ProviderFirst'
<1> SUFFICES ASSUME NEW n \in Names
             PROVE  LET p == ProviderPodName[n]
                    IN  /\ pods'[p] # None =>
                              /\ ~pods'[p].deleting
                              /\ csci'[n] # None /\ pods'[p].owner = csci'[n].uid
                        /\ cpods'[p] # None => pods'[p] # None
                        /\ pods'[n] # None =>
                              pods'[p] # None /\ pods'[p].uid < pods'[n].uid
    BY DEF ProviderFirst
<1> DEFINE p == ProviderPodName[n]
<1>1. n \in PodNames /\ p \in PodNames /\ n # p
    BY NamesAssumption, ProviderNameAssumption
<1>2. PodStep /\ InstancesStep
    BY EveryPodStep, EveryInstanceStep
<1>3. /\ pods[p] # None => /\ ~pods[p].deleting
                           /\ csci[n] # None /\ pods[p].owner = csci[n].uid
      /\ cpods[p] # None => pods[p] # None
      /\ pods[n] # None => pods[p] # None /\ pods[p].uid < pods[n].uid
    BY DEF ProviderFirst
<1>4. csci[n] # None => csci'[n] # None /\ csci'[n].uid = csci[n].uid
    BY <1>2 DEF InstancesStep, Undeleted
<1>5. pods[p] # None => pods'[p] # None /\ ~pods'[p].deleting
  <2> SUFFICES ASSUME pods[p] # None PROVE pods'[p] # None /\ ~pods'[p].deleting
      OBVIOUS
  <2>1. /\ csci[n] # None /\ ~csci[n].deleting /\ sci[n] # None
        /\ pods[p].owner = sci[n].uid /\ ~pods[p].deleting
      BY <1>3 DEF Undeleted
  <2>2. pods[p].inst = n
      BY DEF JoinInv, ProvidersNamed
  <2>3. ~DrainPod(p)
      BY DEF DrainPod, Spend, TypeOK, JoinInv
  <2>4. Kept(p)
      BY <2>1, <2>2, <2>3, ProviderUndisturbed
  <2> QED BY <2>4 DEF Kept
<1> HIDE DEF p
<1>6. CASE PodsIdle
    BY <1>3, <1>4, <1>5, <1>6 DEF PodsIdle, p
<1>7. ASSUME NEW q \in PodNames, PodChanges(q)
      PROVE  /\ pods'[p] # None => /\ ~pods'[p].deleting
                                   /\ csci'[n] # None /\ pods'[p].owner = csci'[n].uid
             /\ cpods'[p] # None => pods'[p] # None
             /\ pods'[n] # None => pods'[p] # None /\ pods'[p].uid < pods'[n].uid
  <2>1. /\ pods'[p] # None => pods[p] # None /\ pods'[p].uid = pods[p].uid
                              /\ pods'[p].owner = pods[p].owner
        /\ pods'[n] # None => pods[n] # None /\ pods'[n].uid = pods[n].uid
        /\ cpods' = cpods
      BY <1>1, <1>7 DEF PodChanges
  <2> QED BY <1>3, <1>4, <1>5, <2>1
<1>8. ASSUME NEW m \in Names, NEW q \in PodNames, PodMade(m, q)
      PROVE  /\ pods'[p] # None => /\ ~pods'[p].deleting
                                   /\ csci'[n] # None /\ pods'[p].owner = csci'[n].uid
             /\ cpods'[p] # None => pods'[p] # None
             /\ pods'[n] # None => pods'[p] # None /\ pods'[p].uid < pods'[n].uid
  <2>1. CASE q = p
    <3>1. m = n
        BY <1>8, <2>1, ProviderNameAssumption DEF PodMade, NoCollision, p
    <3>2. pods[p] = None /\ pods'[n] = pods[n]
        BY <1>1, <1>8, <2>1 DEF PodMade
    <3> QED BY <1>3, <1>8, <2>1, <3>1, <3>2 DEF PodMade
  <2>2. CASE q = n
    <3>1. m = n
        BY <1>8, <2>2 DEF PodMade, NoCollision
    <3>2. pods'[n].uid = nextUid /\ cpods[p] # None /\ pods'[p] = pods[p]
        BY <1>1, <1>8, <2>2, <3>1 DEF PodMade, NoCollision, p
    <3>3. pods[p] # None /\ pods[p].uid < nextUid
        BY <1>1, <1>3, <3>2 DEF PlacementInv, PodUidsFresh
    <3> QED BY <1>3, <1>4, <1>5, <3>2, <3>3
  <2>3. CASE q # p /\ q # n
    <3>1. pods'[p] = pods[p] /\ pods'[n] = pods[n] /\ cpods' = cpods
        BY <1>1, <1>8, <2>3 DEF PodMade
    <3> QED BY <1>3, <1>4, <1>5, <3>1
  <2> QED BY <2>1, <2>2, <2>3
<1> QED BY <1>2, <1>6, <1>7, <1>8 DEF PodStep, p

\* The pods of an instance run on the same node as long as nobody evicts pods or
\* deletes containers and instances, through any number of stops and starts,
\* failures of pods and of writes and restarts of the manager (containers not
\* named like provider pods).
THEOREM SameNodeKept ==
    ASSUME NoCollision, NoEviction, NoDeletion
    PROVE  Spec => []SameNode
<1>1. Init => Undeleted /\ ProviderFirst
  <2> SUFFICES ASSUME Init PROVE Undeleted /\ ProviderFirst
      OBVIOUS
  <2>1. /\ \A q \in PodNames : pods[q] = None /\ cpods[q] = None
        /\ \A n \in Names : sc[n] = None /\ csc[n] = None
        /\ \A n \in Names : sci[n] = None /\ csci[n] = None
        /\ budget = Budget
      BY DEF Init
  <2>2. Undeleted
      BY <2>1 DEF Undeleted, NoDeletion
  <2>3. ProviderFirst
      BY <2>1, NamesAssumption, ProviderNameAssumption DEF ProviderFirst
  <2> QED BY <2>2, <2>3
<1>2. /\ TypeOK /\ PlacementInv /\ JoinInv /\ Undeleted /\ ProviderFirst
      /\ [Next]_vars
      => Undeleted' /\ ProviderFirst'
  <2> SUFFICES ASSUME TypeOK, PlacementInv, JoinInv, Undeleted, ProviderFirst,
                      [Next]_vars
               PROVE  Undeleted' /\ ProviderFirst'
      OBVIOUS
  <2>1. CASE Next
      BY <2>1, UndeletedKept, ProviderFirstKept
  <2>2. CASE UNCHANGED vars
      BY <2>2 DEF vars, Undeleted, ProviderFirst
  <2> QED BY <2>1, <2>2
<1>3. PlacementInv /\ ProviderFirst => SameNode
    BY DEF PlacementInv, BesideOlderProvider, ProviderFirst, SameNode
<1> QED BY <1>1, <1>2, <1>3, TypeCorrect, PlacementCorrect, JoinCorrect, PTL DEF Spec

-----------------------------------------------------------------------------
\* A consumer has its SCI, and the cache has it or the provider it was made
\* beside, so that the finalizer is not removed before it is gone.
ConsumerBacked ==
    /\ ConsumerHasInstance
    /\ \A n \in Names : pods[n] # None =>
          pods[n].inst = n /\ (Consumer(n) # None \/ Provider(n) # None)

\* A consumer is made beside a provider for an SCI that has its finalizer, which
\* goes only when the cache has neither pod.
LEMMA ConsumerBackedKept ==
    ASSUME NoCollision, ActingExists, ConsumerBacked, PodStep, InstancesStep
    PROVE  ConsumerBacked'
<1> SUFFICES ASSUME NEW n \in Names, pods'[n] # None
             PROVE  /\ Consumer(n)' # None \/ Provider(n)' # None
                    /\ sci'[n] # None /\ sci'[n].finalizer
                    /\ pods'[n].inst = n /\ pods'[n].owner = sci'[n].uid
    BY DEF ConsumerBacked, ConsumerHasInstance
<1> USE DEF Consumer, Provider
<1>1. n \in PodNames
    BY NamesAssumption
<1>2. ASSUME pods[n] # None
      PROVE  /\ Consumer(n) # None \/ Provider(n) # None
             /\ sci[n] # None /\ sci[n].finalizer
             /\ pods[n].inst = n /\ pods[n].owner = sci[n].uid
    BY <1>2 DEF ConsumerBacked, ConsumerHasInstance
<1>3. CASE PodsIdle
  <2>1. pods[n] # None /\ (cpods' = cpods \/ cpods'[n] = pods[n])
      BY <1>3 DEF PodsIdle
  <2>2. sci'[n] # None /\ sci'[n].finalizer /\ sci'[n].uid = sci[n].uid
      BY <1>2, <2>1 DEF InstancesStep, InstanceStep, InstanceBecomes, InstanceGoes,
                           InstanceMade
  <2> QED BY <1>2, <1>3, <2>1, <2>2 DEF PodsIdle
<1>4. CASE \E q \in PodNames : PodChanges(q)
    BY <1>1, <1>2, <1>4 DEF PodChanges
<1>5. CASE \E m \in Names, q \in PodNames : PodMade(m, q)
  <2>1. PICK m \in Names, q \in PodNames : PodMade(m, q)
      BY <1>5
  <2>2. CASE q # n
      BY <1>1, <1>2, <2>1, <2>2 DEF PodMade
  <2>3. CASE q = n
    <3>1. m = n /\ cpods[ProviderPodName[n]] # None
        BY <2>1, <2>3 DEF PodMade, NoCollision
    <3> QED BY <2>1, <3>1 DEF PodMade, ActingExists, Acting
  <2> QED BY <2>2, <2>3
<1> QED BY <1>3, <1>4, <1>5 DEF PodStep

\* Both hold throughout.
LEMMA ConsumersBacked ==
    ASSUME NoCollision
    PROVE  Spec => [](ActingExists /\ ConsumerBacked)
<1>1. Init => ActingExists /\ ConsumerBacked
  <2>1. Init => ActingExists
      BY DEF Init, ActingExists, Acting
  <2>2. Init => ConsumerBacked
      BY NamesAssumption DEF Init, ConsumerBacked, ConsumerHasInstance
  <2> QED BY <2>1, <2>2
<1>2. TypeOK /\ RootfsInv /\ ActingExists /\ ConsumerBacked /\ [Next]_vars
      => ActingExists' /\ ConsumerBacked'
  <2> SUFFICES ASSUME TypeOK, RootfsInv, ActingExists, ConsumerBacked, [Next]_vars
               PROVE  ActingExists' /\ ConsumerBacked'
      OBVIOUS
  <2>1. CASE Next
      BY <2>1, EveryPodStep, EveryInstanceStep, ActingExistsKept, ConsumerBackedKept
  <2>2. CASE UNCHANGED vars
      BY <2>2 DEF vars, ActingExists, Acting, ConsumerBacked, ConsumerHasInstance,
                  Provider, Consumer
  <2> QED BY <2>1, <2>2
<1> QED BY <1>1, <1>2, TypeCorrect, CacheNeverAhead, PTL DEF Spec

\* A consumer never outlives its instance, whatever is deleted and made again and
\* however late the caches are: the finalizer stays as long as there is one.
THEOREM ConsumerNeverOrphaned ==
    ASSUME NoCollision
    PROVE  Spec => []ConsumerHasInstance
<1>1. ConsumerBacked => ConsumerHasInstance
    BY DEF ConsumerBacked
<1> QED BY <1>1, ConsumersBacked, PTL

-----------------------------------------------------------------------------
\* The cached SCI has the spec of the stored one or is of an earlier generation.
SpecSeen ==
    \A n \in Names :
        (sci[n] # None /\ csci[n] # None /\ csci[n].uid = sci[n].uid) =>
            SpecKept(csci[n], sci[n])

\* Generations only grow.
LEMMA SpecKeptOn ==
    ASSUME NEW a, NEW b, NEW c, a.gen \in Nat, b.gen \in Nat, c.gen \in Nat,
           SpecKept(a, b), SpecKept(b, c)
    PROVE  SpecKept(a, c)
    BY DEF SpecKept

\* The spec never changes without the generation.
LEMMA SpecSeenKept ==
    ASSUME TypeOK, TypeOK', RootfsInv, SpecSeen, InstancesStep
    PROVE  SpecSeen'
<1> SUFFICES ASSUME NEW n \in Names, sci'[n] # None, csci'[n] # None,
                    csci'[n].uid = sci'[n].uid
             PROVE  SpecKept(csci'[n], sci'[n])
    BY DEF SpecSeen
<1>1. CASE csci' = sci /\ sci' = sci
    BY <1>1 DEF SpecKept
<1>2. CASE csci' = csci
  <2>1. csci[n] # None /\ csci[n].uid \in Nat /\ csci[n].uid < nextUid
      BY <1>2, UidTyped DEF RootfsInv, UidsFresh
  <2>2. /\ sci[n] # None /\ sci'[n].uid = sci[n].uid
        /\ SpecKept(sci[n], sci'[n])
    <3>1. InstanceStep(n) /\ sci'[n].uid # nextUid
        BY <1>2, <2>1 DEF InstancesStep
    <3> QED BY <3>1 DEF InstanceStep, InstanceBecomes, InstanceMade
  <2>3. SpecKept(csci[n], sci[n])
      BY <1>2, <2>1, <2>2 DEF SpecSeen
  <2>4. csci[n].gen \in Nat /\ sci[n].gen \in Nat /\ sci'[n].gen \in Nat
      BY <2>1, <2>2 DEF TypeOK, Opt, StoppableContainerInstance
  <2> QED BY <1>2, <2>2, <2>3, <2>4, SpecKeptOn
<1> QED BY <1>1, <1>2 DEF InstancesStep

\* It holds throughout.
LEMMA SpecIsSeen == Spec => []SpecSeen
<1>1. Init => SpecSeen
    BY DEF Init, SpecSeen
<1>2. TypeOK /\ TypeOK' /\ RootfsInv /\ SpecSeen /\ [Next]_vars => SpecSeen'
  <2>1. TypeOK /\ TypeOK' /\ RootfsInv /\ SpecSeen /\ Next => SpecSeen'
      BY EveryInstanceStep, SpecSeenKept
  <2>2. SpecSeen /\ UNCHANGED vars => SpecSeen'
      BY DEF vars, SpecSeen
  <2> QED BY <2>1, <2>2
<1> QED BY <1>1, <1>2, TypeCorrect, CacheNeverAhead, PTL DEF Spec

\* The consumer n is there, not being deleted, before and after the step; the SCI
\* n is to be running.
Here(n) == pods[n] # None /\ ~pods[n].deleting
HereNext(n) == pods'[n] # None /\ ~pods'[n].deleting
Wanted(n) == sci[n] # None /\ sci[n].running /\ ~sci[n].deleting
Behind(n) == sci[n] # None /\ csci[n] # None /\ csci[n].gen < sci[n].gen

\* A consumer is made for an SCI that is to be running, as far as the cache knows.
LEMMA ConsumerMadeWanted ==
    ASSUME NoCollision, TypeOK, ActingExists, SpecSeen, Next, NEW n \in Names,
           ~Here(n), HereNext(n), ~Behind(n)
    PROVE  Wanted(n)
<1>1. n \in PodNames
    BY NamesAssumption
<1>2. PICK m \in Names, q \in PodNames : PodMade(m, q)
  <2>1. ~PodsIdle
      BY DEF PodsIdle, Here, HereNext
  <2>2. ASSUME NEW q \in PodNames
        PROVE  ~PodChanges(q)
      BY <1>1, <2>2 DEF PodChanges, Here, HereNext
  <2> QED BY <2>1, <2>2, EveryPodStep DEF PodStep
<1>3. q = n
    BY <1>1, <1>2 DEF PodMade, Here, HereNext
<1>4. m = n /\ Acting(n) /\ csci[n].running
    BY <1>2, <1>3 DEF PodMade, NoCollision, Acting
<1>5. sci[n] # None /\ SpecKept(csci[n], sci[n])
    BY <1>4 DEF ActingExists, SpecSeen, Acting
<1> QED BY <1>4, <1>5 DEF SpecKept, Behind, Wanted, Acting

\* The SCI reconciler takes one down for an SCI that is not.
LEMMA ConsumerTakenDownUnwanted ==
    ASSUME NoCollision, TypeOK, RootfsInv, ConsumerBacked, SpecSeen, Next,
           NEW n \in Names, Here(n), ~HereNext(n), ~Behind(n), budget' = budget
    PROVE  ~Wanted(n)
<1>1. n \in PodNames
    BY NamesAssumption
<1>2. /\ pods[n] # None /\ ~pods[n].deleting /\ pods[n].inst = n
      /\ sci[n] # None /\ pods[n].owner = sci[n].uid
    BY DEF Here, ConsumerBacked, ConsumerHasInstance
<1>3. ~Kept(n)
    BY DEF Kept, HereNext
<1>4. ~DrainPod(n)
  <2>1. "drain" \in EnvOps /\ budget \in [EnvOps -> Nat]
      BY DEF EnvOps, TypeOK
  <2>2. DrainPod(n) => budget'["drain"] = budget["drain"] - 1 /\ budget["drain"] \in Nat
      BY <2>1 DEF DrainPod, Spend
  <2> QED BY <2>2
<1>5. SciDeleteConsumer(n) \/ SciStopConsumer(n)
  <2>1. TakenDown(n)
      BY <1>1, <1>2, <1>3, <1>4, PodUndisturbed
  <2> QED BY <2>1 DEF TakenDown, NoCollision
<1>6. csci[n] # None /\ (csci[n].deleting \/ ~csci[n].running)
    BY <1>5 DEF SciDeleteConsumer, SciStopConsumer, SciDeleting, ProviderUp, SciActive
<1>7. csci[n].uid = sci[n].uid
    BY <1>1, <1>2 DEF RootfsInv, InstanceSeen
<1>8. SpecKept(csci[n], sci[n])
    BY <1>2, <1>6, <1>7 DEF SpecSeen
<1> QED BY <1>2, <1>6, <1>8 DEF SpecKept, Behind, Wanted

\* Consumers come and go as the stored spec of their instance asks, or on an
\* earlier generation of it, for any interleaving of the controllers, the users
\* and the cluster, deletions, recreations and restarts included.
THEOREM ConsumerFollows ==
    ASSUME NoCollision
    PROVE  Spec => ConsumerFollowsSpec
<1> DEFINE Step == \A n \in Names :
          LET wanted == sci[n] # None /\ sci[n].running /\ ~sci[n].deleting
              behind == sci[n] # None /\ csci[n] # None /\ csci[n].gen < sci[n].gen
              before == pods[n] # None /\ ~pods[n].deleting
              after  == pods'[n] # None /\ ~pods'[n].deleting
          IN  (before # after /\ ~behind /\ budget' = budget) => after = wanted
<1>1. TypeOK /\ RootfsInv /\ ActingExists /\ ConsumerBacked /\ SpecSeen /\ [Next]_vars
      => [Step]_vars
  <2> SUFFICES ASSUME TypeOK, RootfsInv, ActingExists, ConsumerBacked, SpecSeen, Next,
                      NEW n \in Names, Here(n) # HereNext(n), ~Behind(n),
                      budget' = budget
               PROVE  HereNext(n) = Wanted(n)
      BY DEF Here, HereNext, Behind, Wanted
  <2>1. CASE ~Here(n) /\ HereNext(n)
      BY <2>1, ConsumerMadeWanted DEF HereNext, Wanted
  <2>2. CASE Here(n) /\ ~HereNext(n)
      BY <2>2, ConsumerTakenDownUnwanted DEF HereNext, Wanted
  <2>3. Here(n) \in BOOLEAN /\ HereNext(n) \in BOOLEAN
      BY DEF Here, HereNext
  <2> QED BY <2>1, <2>2, <2>3
<1> QED BY <1>1, TypeCorrect, CacheNeverAhead, ConsumersBacked, SpecIsSeen, PTL
        DEF Spec, ConsumerFollowsSpec
-----------------------------------------------------------------------------
\* The SC in the cache that is acted on still exists; what the cache has of an
\* existing SC has its finalizer and its spec or is of an earlier generation; the
\* SC of an instance is in the cache; uids are fresh.
ContainerSeen ==
    \A n \in Names :
        /\ ScActing(n) => /\ sc[n] # None /\ sc[n].uid = csc[n].uid
                          /\ sc[n].finalizer
        /\ (sc[n] # None /\ csc[n] # None /\ csc[n].uid = sc[n].uid) =>
              (csc[n].finalizer => sc[n].finalizer) /\ SpecKept(csc[n], sc[n])
        /\ (sci[n] # None /\ sc[n] # None /\ sci[n].owner = sc[n].uid) =>
              csc[n] # None /\ csc[n].uid = sc[n].uid
        /\ sc[n] # None => sc[n].uid < nextUid
        /\ csc[n] # None => csc[n].uid < nextUid
        /\ sci[n] # None => sci[n].owner < nextUid

\* The generations and uids it compares are numbers.
LEMMA ContainerTyped ==
    ASSUME TypeOK, NEW n \in Names
    PROVE  /\ nextUid \in Nat
           /\ sc[n] # None => sc[n].uid \in Nat /\ sc[n].gen \in Nat
           /\ csc[n] # None => csc[n].uid \in Nat /\ csc[n].gen \in Nat
           /\ sci[n] # None => sci[n].owner \in Nat
    BY DEF TypeOK, Opt, StoppableContainer, StoppableContainerInstance

\* Every step keeps it.
LEMMA ContainerSeenKept ==
    ASSUME TypeOK, TypeOK', ContainerSeen, PodStep, ContainersStep, InstancesStep
    PROVE  ContainerSeen'
<1> SUFFICES ASSUME NEW n \in Names
             PROVE  /\ ScActing(n)' => /\ sc'[n] # None /\ sc'[n].uid = csc'[n].uid
                                       /\ sc'[n].finalizer
                    /\ (/\ sc'[n] # None /\ csc'[n] # None
                        /\ csc'[n].uid = sc'[n].uid) =>
                          /\ csc'[n].finalizer => sc'[n].finalizer
                          /\ SpecKept(csc'[n], sc'[n])
                    /\ (/\ sci'[n] # None /\ sc'[n] # None
                        /\ sci'[n].owner = sc'[n].uid) =>
                          csc'[n] # None /\ csc'[n].uid = sc'[n].uid
                    /\ sc'[n] # None => sc'[n].uid < nextUid'
                    /\ csc'[n] # None => csc'[n].uid < nextUid'
                    /\ sci'[n] # None => sci'[n].owner < nextUid'
    BY DEF ContainerSeen
<1>1. nextUid' \in {nextUid, nextUid + 1}
    BY DEF PodStep, PodsIdle, PodChanges, PodMade
<1>2. ContainerStep(n) /\ InstanceStep(n)
    BY DEF ContainersStep, InstancesStep
<1>3. /\ ScActing(n) => /\ sc[n] # None /\ sc[n].uid = csc[n].uid /\ sc[n].finalizer
      /\ (sc[n] # None /\ csc[n] # None /\ csc[n].uid = sc[n].uid) =>
            (csc[n].finalizer => sc[n].finalizer) /\ SpecKept(csc[n], sc[n])
      /\ (sci[n] # None /\ sc[n] # None /\ sci[n].owner = sc[n].uid) =>
            csc[n] # None /\ csc[n].uid = sc[n].uid
      /\ sc[n] # None => sc[n].uid < nextUid
      /\ csc[n] # None => csc[n].uid < nextUid
      /\ sci[n] # None => sci[n].owner < nextUid
    BY DEF ContainerSeen
<1>4. CASE csc' = sc /\ sc' = sc /\ sci' = sci /\ nextUid' = nextUid
    BY <1>3, <1>4 DEF ScActing, SpecKept
<1>5. /\ nextUid \in Nat
      /\ sc[n] # None => sc[n].uid \in Nat /\ sc[n].uid < nextUid
      /\ csc[n] # None => csc[n].uid \in Nat /\ csc[n].uid < nextUid
      /\ sci[n] # None => sci[n].owner \in Nat /\ sci[n].owner < nextUid
    BY <1>1, <1>3, ContainerTyped
<1>6. CASE csc' = csc
  <2>1. sci'[n] # None =>
            \/ sci[n] # None /\ sci'[n].owner = sci[n].owner
            \/ ScActing(n) /\ sci'[n].owner = csc[n].uid /\ sc' = sc
      BY <1>2 DEF InstanceStep, InstanceBecomes, InstanceMade
  <2>2. ScActing(n)' <=> ScActing(n)
      BY <1>6 DEF ScActing
  <2>3. /\ csc'[n] # None => csc'[n].uid < nextUid'
        /\ sci'[n] # None => sci'[n].owner < nextUid'
    <3>1. csc[n] # None => csc[n].uid < nextUid'
        BY <1>1, <1>5
    <3>2. sci[n] # None => sci[n].owner < nextUid'
        BY <1>1, <1>5
    <3> QED BY <1>6, <2>1, <3>1, <3>2 DEF ScActing
  <2>4. CASE sc[n] = None /\ sc'[n] = None
      BY <1>3, <2>2, <2>3, <2>4
  <2>5. CASE sc[n] # None /\ ContainerBecomes(n, sc'[n])
    <3>1. /\ sc'[n] # None /\ sc'[n].uid = sc[n].uid
          /\ sc[n].finalizer => sc'[n].finalizer
          /\ SpecKept(sc[n], sc'[n])
        BY <2>5 DEF ContainerBecomes
    <3>2. /\ sc[n].gen \in Nat /\ sc'[n].gen \in Nat
          /\ csc[n] # None => csc[n].gen \in Nat
        BY <2>5, <3>1, ContainerTyped DEF TypeOK, Opt, StoppableContainer
    <3>3. (csc[n] # None /\ csc[n].uid = sc[n].uid) => SpecKept(csc[n], sc'[n])
        BY <1>3, <2>5, <3>1, <3>2, SpecKeptOn
    <3>4. sc'[n].uid < nextUid'
        BY <1>1, <1>5, <2>5, <3>1
    <3>5. (sci'[n] # None /\ sci'[n].owner = sc'[n].uid) =>
              csc'[n] # None /\ csc'[n].uid = sc'[n].uid
        BY <1>3, <1>6, <2>1, <2>5, <3>1 DEF ScActing
    <3> QED BY <1>3, <1>6, <2>2, <2>3, <2>5, <3>1, <3>3, <3>4, <3>5
  <2>6. CASE sc[n] # None /\ sc'[n] = None /\ ContainerGoes(n)
    <3>1. ~ScActing(n)
        BY <1>3, <2>6 DEF ContainerGoes, ScActing
    <3> QED BY <2>2, <2>3, <2>6, <3>1
  <2>7. CASE sc[n] = None /\ sc'[n] # None /\ ContainerMade(n)
    <3>1. sc'[n].uid = nextUid /\ nextUid' = nextUid + 1 /\ sci' = sci
        BY <2>7 DEF ContainerMade
    <3>2. ~ScActing(n)
        BY <1>3, <2>7
    <3>3. /\ csc[n] # None => csc[n].uid # nextUid
          /\ sci[n] # None => sci[n].owner # nextUid
          /\ nextUid < nextUid + 1
        BY <1>5
    <3> QED BY <1>6, <2>2, <2>3, <3>1, <3>2, <3>3
  <2> QED BY <1>2, <2>4, <2>5, <2>6, <2>7 DEF ContainerStep
<1> QED BY <1>4, <1>6 DEF ContainersStep

\* It holds throughout.
LEMMA ContainersSeen == Spec => []ContainerSeen
<1>1. Init => ContainerSeen
  <2> SUFFICES ASSUME Init PROVE ContainerSeen
      OBVIOUS
  <2>1. /\ \A n \in Names : sc[n] = None /\ csc[n] = None
        /\ \A n \in Names : sci[n] = None
      BY DEF Init
  <2> QED BY <2>1 DEF ContainerSeen, ScActing
<1>2. TypeOK /\ TypeOK' /\ ContainerSeen /\ [Next]_vars => ContainerSeen'
  <2>1. TypeOK /\ TypeOK' /\ ContainerSeen /\ Next => ContainerSeen'
      BY EveryPodStep, EveryContainerStep, EveryInstanceStep, ContainerSeenKept
  <2>2. ContainerSeen /\ UNCHANGED vars => ContainerSeen'
      BY DEF vars, ContainerSeen, ScActing
  <2> QED BY <2>1, <2>2
<1> QED BY <1>1, <1>2, TypeCorrect, PTL DEF Spec

\* An instance is made, started, stopped and deleted as its container asks, or on
\* an earlier generation of it, and never for a container that was deleted and
\* created again under the same name, for any interleaving of the controllers,
\* the users and the cluster.
THEOREM InstanceFollows == Spec => InstanceFollowsContainer
<1> DEFINE Step == \A n \in Names :
          LET behind == csc[n] # None /\ csc[n].gen < sc[n].gen
              before == sci[n] # None /\ ~sci[n].deleting
              after  == sci'[n] # None /\ ~sci'[n].deleting
          IN  /\ (sci[n] = None /\ sci'[n] # None) =>
                    /\ sc[n] # None /\ sci'[n].owner = sc[n].uid
                    /\ (sc[n].running /\ ~sc[n].deleting) \/ behind
              /\ (sci[n] # None /\ sci'[n] # None /\ sci'[n].running # sci[n].running) =>
                    sc[n] # None /\ (sci'[n].running = sc[n].running \/ behind)
              /\ (/\ before /\ ~after /\ budget' = budget
                  /\ sc[n] # None /\ sci[n].owner = sc[n].uid) => sc[n].deleting
<1>1. TypeOK /\ ContainerSeen /\ [Next]_vars => [Step]_vars
  <2> SUFFICES ASSUME TypeOK, ContainerSeen, Next, NEW n \in Names
               PROVE  LET behind == csc[n] # None /\ csc[n].gen < sc[n].gen
                          before == sci[n] # None /\ ~sci[n].deleting
                          after  == sci'[n] # None /\ ~sci'[n].deleting
                      IN  /\ (sci[n] = None /\ sci'[n] # None) =>
                                /\ sc[n] # None /\ sci'[n].owner = sc[n].uid
                                /\ (sc[n].running /\ ~sc[n].deleting) \/ behind
                          /\ (/\ sci[n] # None /\ sci'[n] # None
                              /\ sci'[n].running # sci[n].running) =>
                                /\ sc[n] # None
                                /\ sci'[n].running = sc[n].running \/ behind
                          /\ (/\ before /\ ~after /\ budget' = budget
                              /\ sc[n] # None /\ sci[n].owner = sc[n].uid) =>
                                sc[n].deleting
      OBVIOUS
  <2>1. InstanceStep(n)
      BY EveryInstanceStep DEF InstancesStep
  <2>2. ScActing(n) =>
            /\ sc[n] # None /\ csc[n] # None /\ sc[n].uid = csc[n].uid
            /\ \/ sc[n].running = csc[n].running /\ ~sc[n].deleting
               \/ csc[n].gen < sc[n].gen
      BY DEF ContainerSeen, ScActing, SpecKept
  <2>3. (/\ sci[n] # None /\ ~sci[n].deleting /\ budget' = budget
         /\ sci'[n] # None => sci'[n].deleting
         /\ sc[n] # None /\ sci[n].owner = sc[n].uid) => sc[n].deleting
    <3> SUFFICES ASSUME sci[n] # None, ~sci[n].deleting, budget' = budget,
                        sci'[n] # None => sci'[n].deleting,
                        sc[n] # None, sci[n].owner = sc[n].uid
                 PROVE  sc[n].deleting
        OBVIOUS
    <3>1. MayDelete(n)
        BY <2>1 DEF InstanceStep, InstanceBecomes, InstanceGoes
    <3>2. csc[n] # None /\ csc[n].deleting
        BY <3>1 DEF MayDelete, InstanceOrphaned
    <3>3. csc[n].uid = sc[n].uid /\ SpecKept(csc[n], sc[n])
        BY <3>2 DEF ContainerSeen
    <3> QED BY <3>2, <3>3 DEF SpecKept
  <2>4. (sci[n] = None /\ sci'[n] # None) =>
            ScActing(n) /\ csc[n].running /\ sci'[n].owner = csc[n].uid
      BY <2>1 DEF InstanceStep, InstanceMade
  <2>5. (sci[n] # None /\ sci'[n] # None /\ sci'[n].running # sci[n].running) =>
            ScActing(n) /\ sci'[n].running = csc[n].running
      BY <2>1 DEF InstanceStep, InstanceBecomes
  <2> QED BY <2>2, <2>3, <2>4, <2>5
<1> QED BY <1>1, TypeCorrect, ContainersSeen, PTL DEF Spec, InstanceFollowsContainer
=============================================================================
