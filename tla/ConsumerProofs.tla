--------------------------- MODULE ConsumerProofs ---------------------------
(***************************************************************************)
(* Proofs about ConsumerPod and the pod that ConsumerPodBuilder makes, for *)
(* any templates, number of attempts and budgets.                          *)
(***************************************************************************)
EXTENDS ConsumerPod, SequenceTheorems, TLAPS

\* The layers there are: the user's volumes are in a layer all or not at all.
Layers ==
    [overlay : BOOLEAN, proc : BOOLEAN, secrets : BOOLEAN,
     volumes : {{}, ChrootVolumes}]

InPod == {"wait", "secrets", "chroot", "run"}

EntryOK ==
    /\ entry \in [pc : {"absent", "created", "exited"} \cup InPod,
                  attempt : 0 .. MaxAttempts - 1, layer : 0 .. Len(tree)]
    /\ entry.pc \in InPod <=> tree # <<>>
    /\ entry.pc = "run" => entry.layer > 0

SessionOK ==
    /\ session \in [pc : {"none", "mounts", "find", "run"}, layer : 0 .. Len(tree)]
    /\ session.pc # "none" => tree # <<>>
    /\ session.pc = "run" => session.layer > 0

AccountOK == token \in Nat /\ account \in [dir : BOOLEAN, token : 0 .. token]

NodeOK ==
    /\ host \in Seq(BOOLEAN) /\ helper \in {"idle", "asked", "special"}
    /\ left \in [ConsumerOps -> Nat] /\ ready \in BOOLEAN

ConsumerTypeInv ==
    /\ template \in Templates /\ pod = Build("x", template)
    /\ tree \in Seq(Layers)
    /\ EntryOK /\ SessionOK /\ AccountOK /\ NodeOK

\* A process that goes on to the chroot has found proc in some layer, and a
\* layer with proc is one of the helper's overlays unless the container may
\* mount itself; the helper mounts proc into an overlay only.
ProcInv ==
    /\ helper = "special" => host # <<>> /\ (InContainer => Top.overlay)
    /\ \A i \in 1 .. Len(tree) : tree[i].proc => CanMount \/ tree[i].overlay
    /\ entry.pc \in {"secrets", "chroot"} => \E i \in 1 .. Len(tree) : tree[i].proc
    /\ entry.pc = "run" => /\ tree[entry.layer].overlay
                           /\ \E i \in 1 .. entry.layer : tree[i].proc

\* Somebody is in the first layer, or will be if nothing is mounted on it.
Enters ==
    \/ Len(tree) = 1 /\ (entry.pc = "chroot" \/ session.pc = "find")
    \/ 1 \in UserLayers

\* The first layer has the user's volumes, and the service account directory in
\* time for those who enter it.
FirstLayerInv ==
    InContainer =>
        /\ tree[1].volumes = ChrootVolumes
        /\ (CanMount /\ Enters) => tree[1].secrets

-----------------------------------------------------------------------------
\* Layers are only ever put on top, and gain mounts, while there is a container.
TreeGrows ==
    /\ tree' \in Seq(Layers)
    /\ tree' = <<>> <=> tree = <<>>
    /\ Len(tree) <= Len(tree')
    /\ \A i \in 1 .. Len(tree) :
           /\ tree'[i].overlay = tree[i].overlay /\ tree'[i].volumes = tree[i].volumes
           /\ tree[i].proc => tree'[i].proc
           /\ tree[i].secrets => tree'[i].secrets

\* What the layers are does not depend on the step.
LEMMA SamePod ==
    ASSUME UNCHANGED pod
    PROVE  Layers' = Layers /\ ChrootVolumes' = ChrootVolumes /\ CanMount' = CanMount
    BY DEF Layers, ChrootVolumes, CanMount

\* The top of the layers.
LEMMA TopLayer ==
    ASSUME tree \in Seq(Layers), tree # <<>>
    PROVE  /\ Len(tree) \in Nat \ {0} /\ DOMAIN tree = 1 .. Len(tree)
           /\ Len(tree) \in DOMAIN tree /\ 1 \in DOMAIN tree
           /\ Top \in Layers /\ Top = tree[Len(tree)]
    BY DEF Top

\* A layer that gains mounts on top.
LEMMA TopGains ==
    ASSUME tree \in Seq(Layers), tree # <<>>, NEW p \in BOOLEAN, NEW s \in BOOLEAN,
           Top.proc => p, Top.secrets => s,
           tree' = [tree EXCEPT ![Len(tree)] = [Top EXCEPT !.proc = p, !.secrets = s]]
    PROVE  /\ TreeGrows /\ Len(tree') = Len(tree)
           /\ tree'[Len(tree)].proc = p /\ tree'[Len(tree)].secrets = s
           /\ \A i \in 1 .. Len(tree) : i # Len(tree) => tree'[i] = tree[i]
<1> DEFINE l == [Top EXCEPT !.proc = p, !.secrets = s]
<1>1. /\ l \in Layers /\ l.overlay = Top.overlay /\ l.volumes = Top.volumes
      /\ l.proc = p /\ l.secrets = s
    BY TopLayer, Zenon DEF Layers
<1>2. tree' = [tree EXCEPT ![Len(tree)] = l]
    OBVIOUS
<1> HIDE DEF l
<1>3. Len(tree) \in 1 .. Len(tree)
    BY TopLayer
<1>4. /\ tree' \in Seq(Layers) /\ Len(tree') = Len(tree)
      /\ \A j \in 1 .. Len(tree) : tree'[j] = IF j = Len(tree) THEN l ELSE tree[j]
    BY <1>1, <1>2, <1>3, ExceptSeq
<1>5. tree' # <<>>
    BY <1>4, TopLayer
<1>6. ASSUME NEW i \in 1 .. Len(tree)
      PROVE  /\ tree'[i].overlay = tree[i].overlay /\ tree'[i].volumes = tree[i].volumes
             /\ tree[i].proc => tree'[i].proc
             /\ tree[i].secrets => tree'[i].secrets
  <2>1. CASE i = Len(tree)
    <3>1. tree[i] = Top /\ tree'[i] = l
        BY <1>4, <2>1 DEF Top
    <3> QED BY <1>1, <3>1
  <2>2. CASE i # Len(tree)
      BY <1>4, <2>2
  <2> QED BY <2>1, <2>2
<1>7. TreeGrows
    BY <1>3, <1>4, <1>5, <1>6 DEF TreeGrows
<1> QED BY <1>1, <1>3, <1>4, <1>7

\* A layer that is put on top.
LEMMA LayerAdded ==
    ASSUME tree \in Seq(Layers), tree # <<>>, NEW l \in Layers, tree' = Append(tree, l)
    PROVE  /\ TreeGrows /\ Len(tree') = Len(tree) + 1 /\ tree'[Len(tree')] = l
           /\ \A i \in 1 .. Len(tree) : tree'[i] = tree[i]
<1>1. /\ tree' \in Seq(Layers) /\ Len(tree') = Len(tree) + 1 /\ tree' # <<>>
      /\ tree'[Len(tree) + 1] = l /\ \A i \in 1 .. Len(tree) : tree'[i] = tree[i]
    BY AppendProperties
<1>2. Len(tree) \in Nat
    BY TopLayer
<1> QED BY <1>1, <1>2 DEF TreeGrows

\* Nothing is mounted.
LEMMA TreeSame == ASSUME tree \in Seq(Layers), tree' = tree PROVE TreeGrows
    BY DEF TreeGrows

\* The entrypoint goes on, or does nothing, in a container that stays.
LEMMA EntryKept ==
    ASSUME ConsumerTypeInv, TreeGrows,
           \/ entry' = entry
           \/ \E pc \in {"wait", "secrets", "chroot"} :
                 entry.pc \in InPod /\ entry' = [entry EXCEPT !.pc = pc]
    PROVE  EntryOK'
<1>1. Len(tree) \in Nat /\ Len(tree') \in Nat /\ Len(tree) <= Len(tree')
    BY DEF ConsumerTypeInv, TreeGrows
<1>2. 0 .. Len(tree) \subseteq 0 .. Len(tree')
    BY <1>1
<1>3. entry.pc \in InPod <=> tree' # <<>>
    BY DEF ConsumerTypeInv, EntryOK, TreeGrows
<1>4. CASE entry' = entry
    BY <1>2, <1>3, <1>4 DEF ConsumerTypeInv, EntryOK
<1>5. ASSUME NEW pc \in {"wait", "secrets", "chroot"}, entry.pc \in InPod,
             entry' = [entry EXCEPT !.pc = pc]
      PROVE  EntryOK'
  <2>1. entry'.pc = pc /\ pc \in InPod
      BY <1>5 DEF ConsumerTypeInv, EntryOK, InPod
  <2>2. entry' \in [pc : {"absent", "created", "exited"} \cup InPod,
                    attempt : 0 .. MaxAttempts - 1, layer : 0 .. Len(tree')]
      BY <1>2, <1>5, <2>1 DEF ConsumerTypeInv, EntryOK
  <2> QED BY <1>3, <1>5, <2>1, <2>2 DEF EntryOK
<1> QED BY <1>4, <1>5

\* So does the session.
LEMMA SessionKept ==
    ASSUME ConsumerTypeInv, TreeGrows, session' = session
    PROVE  SessionOK'
<1>1. Len(tree) \in Nat /\ Len(tree') \in Nat /\ Len(tree) <= Len(tree')
    BY DEF ConsumerTypeInv, TreeGrows
<1>2. 0 .. Len(tree) \subseteq 0 .. Len(tree')
    BY <1>1
<1> QED BY <1>2 DEF ConsumerTypeInv, SessionOK, TreeGrows

\* Without a container there is no layer, no command and no session.
LEMMA NoContainerTyped ==
    ASSUME tree' = <<>>, session' = NoSession,
           \/ entry' = Absent \/ entry' = [Absent EXCEPT !.pc = "exited"]
           \/ entry' = [Absent EXCEPT !.pc = "created"]
    PROVE  tree' \in Seq(Layers) /\ EntryOK' /\ SessionOK'
<1>1. 0 \in 0 .. Len(tree') /\ 0 \in 0 .. MaxAttempts - 1
    BY MaxAttemptsAssumption
<1>2. /\ entry'.pc \in {"absent", "exited", "created"}
      /\ entry' = [pc |-> entry'.pc, attempt |-> 0, layer |-> 0]
    BY DEF Absent
<1> QED BY <1>1, <1>2 DEF EntryOK, SessionOK, NoSession, InPod

\* What is spent was left.
LEMMA SpendLeft ==
    ASSUME NodeOK, NEW op \in ConsumerOps, Spend(op)
    PROVE  left' \in [ConsumerOps -> Nat]
    BY DEF NodeOK, Spend

\* A sequence whose last element is changed, if it has one.
LEMMA LastChanged ==
    ASSUME NEW S, NEW s \in Seq(S), NEW e \in S
    PROVE  [s EXCEPT ![Len(s)] = e] \in Seq(S)
<1>1. CASE s = <<>>
  <2>1. DOMAIN s = {}
      BY <1>1
  <2>2. [s EXCEPT ![Len(s)] = e] = s
      BY <2>1
  <2> QED BY <2>2, Zenon
<1>2. CASE s # <<>>
  <2>1. Len(s) \in 1 .. Len(s)
      BY <1>2
  <2> QED BY <2>1, ExceptSeq
<1> QED BY <1>1, <1>2

\* The steps of the helper keep the types.
LEMMA HelperTyped ==
    ASSUME ConsumerTypeInv, Helper \/ ProviderAsksAgain \/ HelperCannotMountProc
    PROVE  ConsumerTypeInv' /\ TreeGrows /\ UNCHANGED <<template, pod, entry, session>>
<1>1. /\ tree \in Seq(Layers) /\ UNCHANGED <<template, pod, entry, session, ready, token, account>>
      /\ Layers' = Layers
    BY SamePod, Zenon DEF ConsumerTypeInv, Helper, HelperMountsOverlay, HelperMountsProc,
                   ProviderAsksAgain, HelperCannotMountProc
<1>2. left' \in [ConsumerOps -> Nat]
    BY SpendLeft, Zenon DEF ConsumerTypeInv, NodeOK, Helper, HelperMountsOverlay, HelperMountsProc,
                     ProviderAsksAgain, HelperCannotMountProc, ConsumerOps
<1>3. host \in Seq(BOOLEAN) /\ helper \in {"idle", "asked", "special"} /\ ready \in BOOLEAN
    BY DEF ConsumerTypeInv, NodeOK
<1>4. ASSUME TreeGrows, host' \in Seq(BOOLEAN), helper' \in {"idle", "asked", "special"}
      PROVE  ConsumerTypeInv' /\ TreeGrows /\ UNCHANGED <<template, pod, entry, session>>
  <2>1. EntryOK' /\ SessionOK'
      BY <1>1, <1>4, EntryKept, SessionKept
  <2>2. NodeOK' /\ AccountOK'
      BY <1>1, <1>2, <1>3, <1>4 DEF ConsumerTypeInv, NodeOK, AccountOK
  <2>3. tree' \in Seq(Layers')
      BY <1>1, <1>4 DEF TreeGrows
  <2> QED BY <1>1, <1>4, <2>1, <2>2, <2>3 DEF ConsumerTypeInv
<1>5. CASE ProviderAsksAgain \/ HelperCannotMountProc
  <2>1. /\ UNCHANGED <<host, tree>>
        /\ helper' \in {"idle", "asked", "special"}
      BY <1>5 DEF ProviderAsksAgain, HelperCannotMountProc
  <2> QED BY <1>1, <1>3, <1>4, <2>1, TreeSame
<1>6. CASE HelperMountsOverlay
  <2>1. host' = Append(host, FALSE) /\ helper' = "special"
      BY <1>6 DEF HelperMountsOverlay
  <2>2. host' \in Seq(BOOLEAN)
      BY <1>3, <2>1, AppendProperties
  <2>3. CASE tree = <<>>
      BY <1>1, <1>4, <1>6, <2>1, <2>2, <2>3, TreeSame DEF HelperMountsOverlay
  <2>4. CASE tree # <<>>
    <3>1. Layer(TRUE, FALSE, {}) \in Layers
        BY DEF Layer, Layers
    <3>2. tree' = Append(tree, Layer(TRUE, FALSE, {}))
        BY <1>6, <2>4, Zenon DEF HelperMountsOverlay
    <3>3. TreeGrows
        BY <1>1, <2>4, <3>1, <3>2, LayerAdded, Zenon
    <3> QED BY <1>4, <2>1, <2>2, <3>3
  <2> QED BY <2>3, <2>4
<1>7. CASE HelperMountsProc
  <2>1. host' = [host EXCEPT ![Len(host)] = TRUE] /\ helper' = "idle"
      BY <1>7 DEF HelperMountsProc
  <2>2. host' \in Seq(BOOLEAN)
      BY <1>3, <2>1, LastChanged
  <2>3. CASE tree = <<>>
      BY <1>1, <1>4, <1>7, <2>1, <2>2, <2>3, TreeSame DEF HelperMountsProc
  <2>4. CASE tree # <<>>
    <3>1. tree' = [tree EXCEPT ![Len(tree)] = [Top EXCEPT !.proc = TRUE]]
        BY <1>7, <2>4 DEF HelperMountsProc, Top
    <3>2. Top.secrets \in BOOLEAN
          /\ [Top EXCEPT !.proc = TRUE] = [Top EXCEPT !.proc = TRUE, !.secrets = Top.secrets]
        BY <1>1, <2>4, TopLayer, Zenon DEF Layers
    <3>3. TreeGrows
        BY <1>1, <2>4, <3>1, <3>2, TopGains, Zenon
    <3> QED BY <1>4, <2>1, <2>2, <3>3
  <2> QED BY <2>3, <2>4
<1> QED BY <1>5, <1>6, <1>7 DEF Helper

\* A step that leaves the node's part alone keeps the types if it keeps those of
\* container, entrypoint and session.
LEMMA OthersTyped ==
    ASSUME ConsumerTypeInv, UNCHANGED <<template, pod, host, helper>>,
           left' \in [ConsumerOps -> Nat], ready' \in BOOLEAN,
           tree' \in Seq(Layers), EntryOK', SessionOK', AccountOK'
    PROVE  ConsumerTypeInv'
<1>1. NodeOK'
    BY DEF ConsumerTypeInv, NodeOK
<1>2. Layers' = Layers
    BY SamePod
<1> QED BY <1>1, <1>2 DEF ConsumerTypeInv

\* The first layer of a new container.
FirstLayer ==
    IF host = <<>> THEN Layer(FALSE, FALSE, ChrootVolumes)
    ELSE Layer(TRUE, host[Len(host)], ChrootVolumes)

\* The steps that start, end and restart the container keep the types.
LEMMA KubeletTyped ==
    ASSUME ConsumerTypeInv,
           \/ Kubelet \/ CommandExits \/ EntrypointGivesUp \/ EntrypointFails
           \/ NodeReboots
    PROVE  ConsumerTypeInv' /\ UNCHANGED <<template, pod>>
<1>1. /\ tree \in Seq(Layers) /\ EntryOK /\ SessionOK /\ AccountOK /\ NodeOK
      /\ left \in [ConsumerOps -> Nat] /\ ready \in BOOLEAN
    BY DEF ConsumerTypeInv, NodeOK
<1>2. CASE InitContainersRun \/ KubeletRestartsContainer
  <2>1. /\ UNCHANGED <<template, pod, host, helper, tree, ready, session, token, account, left>>
        /\ entry.pc \in {"absent", "exited"} /\ entry' = [entry EXCEPT !.pc = "created"]
      BY <1>2 DEF InitContainersRun, KubeletRestartsContainer
  <2>2. EntryOK'
      BY <1>1, <2>1 DEF EntryOK, InPod
  <2>3. SessionOK' /\ AccountOK'
      BY <1>1, <2>1 DEF SessionOK, AccountOK
  <2> QED BY <1>1, <2>1, <2>2, <2>3, OthersTyped
<1>3. CASE ContainerStarts
  <2>1. /\ UNCHANGED <<template, pod, host, helper, ready, session, token, account, left>>
        /\ entry.pc = "created" /\ tree' = <<FirstLayer>>
        /\ entry' = [pc |-> "wait", attempt |-> 0, layer |-> 0]
      BY <1>3 DEF ContainerStarts, FirstLayer
  <2>2. FirstLayer \in Layers
    <3>1. host # <<>> => host[Len(host)] \in BOOLEAN
        BY <1>1 DEF NodeOK
    <3> QED BY <3>1 DEF FirstLayer, Layer, Layers
  <2>3. tree' \in Seq(Layers) /\ Len(tree') = 1 /\ tree' # <<>>
      BY <2>1, <2>2
  <2>4. session.pc = "none" /\ session.layer = 0 /\ Len(tree) = 0
      BY <1>1, <2>1 DEF EntryOK, SessionOK, InPod
  <2>5. EntryOK'
      BY <2>1, <2>3, MaxAttemptsAssumption DEF EntryOK, InPod
  <2>6. SessionOK'
      BY <1>1, <2>1, <2>3, <2>4 DEF SessionOK
  <2>7. AccountOK'
      BY <1>1, <2>1 DEF AccountOK
  <2> QED BY <1>1, <2>1, <2>3, <2>5, <2>6, <2>7, OthersTyped
<1>4. CASE CommandExits \/ EntrypointGivesUp \/ EntrypointFails
  <2>1. ContainerEnds /\ UNCHANGED <<template, pod, host, helper, token, account>>
      BY <1>4 DEF CommandExits, EntrypointGivesUp, EntrypointFails
  <2>2. left' \in [ConsumerOps -> Nat]
      BY <1>1, <1>4, SpendLeft
         DEF CommandExits, EntrypointGivesUp, EntrypointFails, ConsumerOps
  <2>3. tree' \in Seq(Layers) /\ EntryOK' /\ SessionOK' /\ ready' \in BOOLEAN
      BY <2>1, NoContainerTyped, Zenon DEF ContainerEnds
  <2>4. AccountOK'
      BY <1>1, <2>1 DEF AccountOK
  <2> QED BY <2>1, <2>2, <2>3, <2>4, OthersTyped
<1>5. CASE NodeReboots
  <2>1. tree' \in Seq(Layers) /\ EntryOK' /\ SessionOK' /\ UNCHANGED <<template, pod, token>>
      BY <1>5, NoContainerTyped DEF NodeReboots
  <2>2. left' \in [ConsumerOps -> Nat]
      BY <1>1, <1>5, SpendLeft DEF NodeReboots, ConsumerOps
  <2>3. AccountOK'
      BY <1>1, <1>5 DEF NodeReboots, AccountOK, NoAccount
  <2>4. host' \in Seq(BOOLEAN) /\ helper' = "asked" /\ ready' = FALSE
      BY <1>5, EmptySeq DEF NodeReboots
  <2>5. NodeOK'
      BY <2>2, <2>4, Zenon DEF NodeOK
  <2>6. Layers' = Layers
      BY <2>1, SamePod
  <2> QED BY <2>1, <2>3, <2>5, <2>6 DEF ConsumerTypeInv
<1> QED BY <1>2, <1>3, <1>4, <1>5 DEF Kubelet

\* What the entrypoint and a session mount goes on top of the container they are in.
LEMMA MountsGrow ==
    ASSUME ConsumerTypeInv, mountServiceAccountSecrets \/ setupMounts
    PROVE  /\ TreeGrows /\ Len(tree') = Len(tree) /\ InContainer
           /\ CanMount => tree'[Len(tree)].secrets \/ isMounted("secrets")
           /\ \A i \in 1 .. Len(tree) : tree'[i].proc => CanMount \/ tree[i].proc
<1>1. tree \in Seq(Layers) /\ tree # <<>>
    BY DEF ConsumerTypeInv, EntryOK, SessionOK, InPod, mountServiceAccountSecrets, setupMounts
<1>2. Top.proc \in BOOLEAN /\ Top.secrets \in BOOLEAN
    BY <1>1, TopLayer DEF Layers
<1>3. CASE ~CanMount
  <2>1. tree' = tree
      BY <1>3 DEF mountServiceAccountSecrets, setupMounts
  <2> QED BY <1>1, <1>3, <2>1, TreeSame DEF InContainer
<1>4. ASSUME CanMount, NEW p \in BOOLEAN, NEW s \in BOOLEAN, Top.proc => p,
             Top.secrets => s, s \/ isMounted("secrets"),
             SetTop([Top EXCEPT !.proc = p, !.secrets = s])
      PROVE  /\ TreeGrows /\ Len(tree') = Len(tree) /\ InContainer
             /\ CanMount => tree'[Len(tree)].secrets \/ isMounted("secrets")
             /\ \A i \in 1 .. Len(tree) : tree'[i].proc => CanMount \/ tree[i].proc
    BY <1>1, <1>4, TopGains, Zenon DEF SetTop, InContainer
<1>5. CASE CanMount /\ mountServiceAccountSecrets
  <2>1. SetTop([Top EXCEPT !.secrets = TRUE])
      BY <1>5 DEF mountServiceAccountSecrets
  <2>2. [Top EXCEPT !.secrets = TRUE] = [Top EXCEPT !.proc = Top.proc, !.secrets = TRUE]
      BY <1>1, TopLayer, Zenon DEF Layers
  <2> QED BY <1>2, <1>4, <1>5, <2>1, <2>2, Zenon
<1>6. CASE CanMount /\ setupMounts
  <2> DEFINE p == Top.proc \/ ~isMounted("proc")
             s == Top.secrets \/ ~isMounted("secrets")
  <2>1. SetTop([Top EXCEPT !.proc = p, !.secrets = s])
      BY <1>6 DEF setupMounts
  <2>2. p \in BOOLEAN /\ s \in BOOLEAN /\ (Top.proc => p) /\ (Top.secrets => s)
        /\ (s \/ isMounted("secrets"))
      BY <1>2
  <2> HIDE DEF p, s
  <2> QED BY <1>4, <1>6, <2>1, <2>2, Zenon
<1> QED BY <1>3, <1>5, <1>6

\* What goes on in a container, and the rotation of the token.
Inside ==
    \/ EntrypointFindsReady \/ EntrypointWaits \/ mountServiceAccountSecrets
    \/ EntrypointRunsCommand \/ Session \/ handleReadinessProbe \/ UserExecs
    \/ TokenRotates

\* These steps keep the types.
LEMMA InsideTyped ==
    ASSUME ConsumerTypeInv, Inside
    PROVE  ConsumerTypeInv' /\ TreeGrows /\ UNCHANGED <<template, pod, host, helper>>
<1>1. /\ tree \in Seq(Layers) /\ EntryOK /\ SessionOK /\ AccountOK /\ NodeOK
      /\ left \in [ConsumerOps -> Nat] /\ ready \in BOOLEAN
    BY DEF ConsumerTypeInv, NodeOK
<1>2. ASSUME TreeGrows, UNCHANGED <<template, pod, host, helper>>, left' \in [ConsumerOps -> Nat],
             ready' \in BOOLEAN, EntryOK', SessionOK', AccountOK'
      PROVE  ConsumerTypeInv' /\ TreeGrows /\ UNCHANGED <<template, pod, host, helper>>
    BY <1>2, OthersTyped DEF TreeGrows
<1>3. UNCHANGED tree => TreeGrows
    BY <1>1, TreeSame
<1>4. UNCHANGED <<token, account>> => AccountOK'
    BY <1>1 DEF AccountOK
<1>5. Len(tree) \in Nat
    BY <1>1
<1>6. CASE EntrypointFindsReady
  <2>1. /\ UNCHANGED <<template, pod, host, helper, tree, ready, session, token, account, left>>
        /\ entry.pc \in InPod /\ entry' = [entry EXCEPT !.pc = "secrets"]
      BY <1>6 DEF EntrypointFindsReady, InPod
  <2>2. EntryOK' /\ SessionOK'
      BY <1>3, <2>1, EntryKept, SessionKept
  <2> QED BY <1>1, <1>2, <1>3, <1>4, <2>1, <2>2
<1>7. CASE EntrypointWaits
  <2>1. /\ UNCHANGED <<template, pod, host, helper, tree, ready, session, token, account, left>>
        /\ entry.pc = "wait" /\ entry.attempt < MaxAttempts - 1
        /\ entry' = [entry EXCEPT !.attempt = entry.attempt + 1]
      BY <1>7 DEF EntrypointWaits
  <2>2. entry.attempt + 1 \in 0 .. MaxAttempts - 1
      BY <1>1, <2>1, MaxAttemptsAssumption DEF EntryOK
  <2>3. entry'.pc = entry.pc /\ entry'.layer = entry.layer
      BY <1>1, <2>1 DEF EntryOK
  <2>4. EntryOK'
      BY <1>1, <2>1, <2>2, <2>3 DEF EntryOK
  <2>5. SessionOK'
      BY <1>3, <2>1, SessionKept
  <2> QED BY <1>1, <1>2, <1>3, <1>4, <2>1, <2>4, <2>5
<1>8. CASE mountServiceAccountSecrets
  <2>1. /\ UNCHANGED <<template, pod, host, helper, ready, session, token, left>>
        /\ entry.pc \in InPod /\ entry' = [entry EXCEPT !.pc = "chroot"]
        /\ account' = [account EXCEPT !.dir = AccountDir]
           \/ account' = [dir |-> AccountDir, token |-> token]
      BY <1>8 DEF mountServiceAccountSecrets, InPod
  <2>2. TreeGrows /\ InContainer
      BY <1>8, MountsGrow
  <2>3. AccountDir \in BOOLEAN /\ token \in Nat
      BY <1>1, <2>2, TopLayer DEF AccountDir, AccountOK, Layers, InContainer
  <2>4. AccountOK'
      BY <1>1, <2>1, <2>3 DEF AccountOK
  <2>5. EntryOK' /\ SessionOK'
      BY <2>1, <2>2, EntryKept, SessionKept
  <2> QED BY <1>1, <1>2, <2>1, <2>2, <2>4, <2>5
<1>9. CASE EntrypointRunsCommand
  <2>1. /\ UNCHANGED <<template, pod, host, helper, tree, ready, session, token, account, left>>
        /\ entry.pc = "chroot" /\ entry' = [entry EXCEPT !.pc = "run", !.layer = Len(tree)]
      BY <1>9 DEF EntrypointRunsCommand
  <2>2. tree # <<>> /\ Len(tree) \in 0 .. Len(tree) /\ Len(tree) > 0
      BY <1>1, <2>1 DEF EntryOK, InPod
  <2>3. EntryOK'
      BY <1>1, <2>1, <2>2, Zenon DEF EntryOK, InPod
  <2>4. SessionOK'
      BY <1>3, <2>1, SessionKept
  <2> QED BY <1>1, <1>2, <1>3, <1>4, <2>1, <2>3, <2>4
<1>10. CASE setupMounts
  <2>1. /\ UNCHANGED <<template, pod, host, helper, entry, ready, token, left>>
        /\ session.pc = "mounts" /\ session' = [session EXCEPT !.pc = "find"]
        /\ account' = [account EXCEPT !.dir = AccountDir]
      BY <1>10 DEF setupMounts
  <2>2. TreeGrows /\ InContainer /\ Len(tree') = Len(tree)
      BY <1>10, MountsGrow
  <2>3. AccountDir \in BOOLEAN
      BY <1>1, <2>2, TopLayer DEF AccountDir, AccountOK, Layers, InContainer
  <2>4. AccountOK'
      BY <1>1, <2>1, <2>3 DEF AccountOK
  <2>5. EntryOK'
      BY <2>1, <2>2, EntryKept
  <2>6. SessionOK'
      BY <1>1, <2>1, <2>2, Zenon DEF SessionOK, TreeGrows, InContainer
  <2> QED BY <1>1, <1>2, <2>1, <2>2, <2>4, <2>5, <2>6
<1>11. CASE chrootExec \/ SessionEnds \/ UserExecs
  <2>1. /\ UNCHANGED <<template, pod, host, helper, tree, entry, ready, token, account>>
        /\ left' \in [ConsumerOps -> Nat]
      BY <1>1, <1>11, SpendLeft DEF chrootExec, SessionEnds, UserExecs, ConsumerOps
  <2>2. EntryOK'
      BY <1>3, <2>1, EntryKept
  <2>3. CASE chrootExec
    <3>1. session.pc = "find" /\ session' = [pc |-> "run", layer |-> Len(tree)]
        BY <2>3 DEF chrootExec
    <3>2. tree # <<>> /\ Len(tree) \in 0 .. Len(tree) /\ Len(tree) > 0
        BY <1>1, <3>1 DEF SessionOK
    <3>3. SessionOK'
        BY <2>1, <3>1, <3>2 DEF SessionOK
    <3> QED BY <1>1, <1>2, <1>3, <1>4, <2>1, <2>2, <3>3
  <2>4. CASE SessionEnds
    <3>1. SessionOK'
        BY <1>5, <2>1, <2>4 DEF SessionEnds, SessionOK, NoSession
    <3> QED BY <1>1, <1>2, <1>3, <1>4, <2>1, <2>2, <3>1
  <2>5. CASE UserExecs
    <3>1. InContainer /\ session.pc = "none" /\ session' = [session EXCEPT !.pc = "mounts"]
        BY <2>5 DEF UserExecs
    <3>2. SessionOK'
        BY <1>1, <2>1, <3>1 DEF SessionOK, InContainer
    <3> QED BY <1>1, <1>2, <1>3, <1>4, <2>1, <2>2, <3>2
  <2> QED BY <1>11, <2>3, <2>4, <2>5
<1>12. CASE handleReadinessProbe
  <2>1. /\ UNCHANGED <<template, pod, host, helper, tree, entry, session, token, account, left>>
        /\ InContainer /\ ready' = RootfsReady
      BY <1>12 DEF handleReadinessProbe
  <2>2. RootfsReady \in BOOLEAN
      BY <1>1, <2>1, TopLayer DEF RootfsReady, BinExists, isMounted, InContainer, Layers
  <2>3. EntryOK' /\ SessionOK'
      BY <1>3, <2>1, EntryKept, SessionKept
  <2> QED BY <1>1, <1>2, <1>3, <1>4, <2>1, <2>2, <2>3
<1>13. CASE TokenRotates
  <2>1. /\ UNCHANGED <<template, pod, host, helper, tree, entry, session, ready, account>>
        /\ token' = token + 1
      BY <1>13 DEF TokenRotates
  <2>2. left' \in [ConsumerOps -> Nat]
      BY <1>1, <1>13, SpendLeft DEF TokenRotates, ConsumerOps
  <2>3. AccountOK'
      BY <1>1, <2>1 DEF AccountOK
  <2>4. EntryOK' /\ SessionOK'
      BY <1>3, <2>1, EntryKept, SessionKept
  <2> QED BY <1>1, <1>2, <1>3, <2>1, <2>2, <2>3, <2>4
<1> QED BY <1>6, <1>7, <1>8, <1>9, <1>10, <1>11, <1>12, <1>13 DEF Inside, Session

\* The first state is well formed.
LEMMA ConsumerTypeInit == Init => ConsumerTypeInv
<1> SUFFICES ASSUME Init PROVE ConsumerTypeInv
    OBVIOUS
<1>1. EntryOK /\ SessionOK /\ tree \in Seq(Layers)
    BY MaxAttemptsAssumption DEF Init, Absent, NoSession, EntryOK, SessionOK, InPod
<1>2. AccountOK
    BY DEF Init, AccountOK, NoAccount
<1>3. NodeOK
  <2>1. <<TRUE>> \in Seq(BOOLEAN)
      OBVIOUS
  <2>2. host = <<TRUE>> /\ helper = "idle" /\ left = ConsumerBudget /\ ready = FALSE
      BY DEF Init
  <2> QED BY <2>1, <2>2, ConsumerBudgetAssumption, Zenon DEF NodeOK
<1> QED BY <1>1, <1>2, <1>3 DEF Init, ConsumerTypeInv

\* Every step keeps the types.
LEMMA ConsumerTypeStep == ConsumerTypeInv /\ [Next]_cvars => ConsumerTypeInv'
<1> SUFFICES ASSUME ConsumerTypeInv, [Next]_cvars PROVE ConsumerTypeInv'
    OBVIOUS
<1>1. CASE Next
    BY <1>1, HelperTyped, KubeletTyped, InsideTyped DEF Next, Inside, Entrypoint
<1>2. CASE UNCHANGED cvars
  <2>1. Layers' = Layers
      BY <1>2, SamePod DEF cvars
  <2> QED BY <1>2, <2>1
             DEF cvars, ConsumerTypeInv, EntryOK, SessionOK, AccountOK, NodeOK
<1> QED BY <1>1, <1>2

\* The container, its processes, its layers and the token are well formed at any
\* time; in particular the entrypoint checks MaxAttempts times at most, and
\* somebody is in a layer only as long as there is a container.
THEOREM ConsumerTypeCorrect == Spec => []ConsumerTypeOK
<1>1. ASSUME ConsumerTypeInv PROVE ConsumerTypeOK
  <2>1. \A i \in DOMAIN tree : /\ tree[i].overlay \in BOOLEAN /\ tree[i].proc \in BOOLEAN
                               /\ tree[i].secrets \in BOOLEAN
    <3>1. \A i \in DOMAIN tree : tree[i] \in Layers
        BY <1>1 DEF ConsumerTypeInv
    <3>2. \A l \in Layers : /\ l.overlay \in BOOLEAN /\ l.proc \in BOOLEAN
                            /\ l.secrets \in BOOLEAN
        BY DEF Layers
    <3> QED BY <3>1, <3>2, Zenon
  <2>2. {"absent", "created", "exited"} \cup InPod =
            {"absent", "created", "wait", "secrets", "chroot", "run", "exited"}
      BY DEF InPod
  <2>3. (entry.pc \in {"wait", "secrets", "chroot", "run"}) <=> InContainer
      BY <1>1 DEF ConsumerTypeInv, EntryOK, InPod, InContainer
  <2> QED BY <1>1, <2>1, <2>2, <2>3
             DEF ConsumerTypeInv, EntryOK, SessionOK, AccountOK, NodeOK, ConsumerTypeOK
<1> QED BY <1>1, ConsumerTypeInit, ConsumerTypeStep, PTL DEF Spec

-----------------------------------------------------------------------------
\* In a container that stays, what is known of proc and of the command stays
\* known: layers lose nothing.
LEMMA ProcKept ==
    ASSUME ConsumerTypeInv, ProcInv, TreeGrows, UNCHANGED pod,
           helper' = "special" => host' # <<>> /\ (InContainer' => Top'.overlay),
           \A i \in 1 .. Len(tree') : tree'[i].proc => CanMount \/ tree'[i].overlay,
           \/ entry' = entry
           \/ entry'.pc \in {"absent", "created", "wait"}
           \/ /\ entry'.pc \in {"secrets", "chroot"}
              /\ \E i \in 1 .. Len(tree) : tree[i].proc
    PROVE  ProcInv'
<1>1. CanMount' = CanMount /\ Len(tree) \in Nat /\ Len(tree') \in Nat /\ Len(tree) <= Len(tree')
    BY SamePod DEF ConsumerTypeInv, TreeGrows
<1>2. (\E i \in 1 .. Len(tree) : tree[i].proc) => \E i \in 1 .. Len(tree') : tree'[i].proc
    BY <1>1 DEF TreeGrows
<1>3. entry'.pc \in {"secrets", "chroot"} => \E i \in 1 .. Len(tree') : tree'[i].proc
    BY <1>2 DEF ProcInv
<1>4. ASSUME entry'.pc = "run"
      PROVE  tree'[entry'.layer].overlay /\ \E i \in 1 .. entry'.layer : tree'[i].proc
  <2>1. entry' = entry /\ entry.layer \in 1 .. Len(tree)
      BY <1>4 DEF ConsumerTypeInv, EntryOK
  <2>2. tree[entry.layer].overlay /\ \E i \in 1 .. entry.layer : tree[i].proc
      BY <1>4, <2>1 DEF ProcInv
  <2>3. PICK i \in 1 .. entry.layer : tree[i].proc
      BY <2>2
  <2>4. i \in 1 .. Len(tree)
      BY <1>1, <2>1
  <2>5. tree'[i].proc /\ tree'[entry.layer].overlay
      BY <2>1, <2>2, <2>3, <2>4 DEF TreeGrows
  <2> QED BY <2>1, <2>5
<1> QED BY <1>1, <1>3, <1>4 DEF ProcInv

\* In a container that stays, the first layer keeps what it has.
LEMMA FirstKept ==
    ASSUME ConsumerTypeInv, FirstLayerInv, TreeGrows, UNCHANGED pod,
           CanMount /\ Enters' => Enters \/ tree'[1].secrets
    PROVE  FirstLayerInv'
<1>1. CanMount' = CanMount /\ ChrootVolumes' = ChrootVolumes
    BY SamePod
<1>2. ASSUME InContainer'
      PROVE  tree'[1].volumes = ChrootVolumes /\ (CanMount /\ Enters' => tree'[1].secrets)
  <2>1. InContainer /\ 1 \in 1 .. Len(tree)
      BY <1>2 DEF InContainer, TreeGrows, ConsumerTypeInv
  <2> QED BY <2>1 DEF FirstLayerInv, TreeGrows
<1> QED BY <1>1, <1>2 DEF FirstLayerInv

\* The helper's steps: an overlay on top, and proc in the overlay on top.
LEMMA HelperComplete ==
    ASSUME ConsumerTypeInv, ProcInv, FirstLayerInv,
           Helper \/ ProviderAsksAgain \/ HelperCannotMountProc
    PROVE  ProcInv' /\ FirstLayerInv'
<1>1. tree \in Seq(Layers) /\ TreeGrows /\ UNCHANGED <<template, pod, entry, session>>
    BY HelperTyped DEF ConsumerTypeInv
<1>2. Len(tree) \in Nat /\ Len(tree') \in Nat
    BY <1>1 DEF TreeGrows
<1>3. Enters' => Enters
  <2>1. UserLayers' = UserLayers
      BY <1>1 DEF UserLayers
  <2>2. Len(tree') = 1 => Len(tree) = 1
      BY <1>1, <1>2 DEF TreeGrows
  <2> QED BY <1>1, <2>1, <2>2 DEF Enters
<1>4. FirstLayerInv'
    BY <1>1, <1>3, FirstKept
<1>5. ASSUME helper' = "special" => host' # <<>> /\ (InContainer' => Top'.overlay),
             \A i \in 1 .. Len(tree') : tree'[i].proc => CanMount \/ tree'[i].overlay
      PROVE  ProcInv'
    BY <1>1, <1>5, ProcKept
<1>6. CASE ProviderAsksAgain \/ HelperCannotMountProc
  <2>1. tree' = tree /\ helper' # "special"
      BY <1>6 DEF ProviderAsksAgain, HelperCannotMountProc
  <2> QED BY <1>4, <1>5, <2>1 DEF ProcInv
<1>7. CASE HelperMountsOverlay
  <2>1. host' # <<>>
      BY <1>7, AppendProperties, Zenon DEF HelperMountsOverlay, ConsumerTypeInv, NodeOK
  <2>2. CASE tree = <<>>
    <3>1. tree' = tree
        BY <1>7, <2>2 DEF HelperMountsOverlay
    <3> QED BY <1>4, <1>5, <2>1, <2>2, <3>1 DEF ProcInv, InContainer
  <2>3. CASE tree # <<>>
    <3> DEFINE l == Layer(TRUE, FALSE, {})
    <3>1. l \in Layers /\ l.overlay /\ ~l.proc
        BY DEF Layer, Layers
    <3>2. tree' = Append(tree, l)
        BY <1>7, <2>3, Zenon DEF HelperMountsOverlay
    <3> HIDE DEF l
    <3>3. /\ Len(tree') = Len(tree) + 1 /\ tree'[Len(tree')] = l
          /\ \A i \in 1 .. Len(tree) : tree'[i] = tree[i]
        BY <1>1, <2>3, <3>1, <3>2, LayerAdded
    <3>4. \A i \in 1 .. Len(tree') : i \in 1 .. Len(tree) \/ i = Len(tree')
        BY <1>2, <3>3
    <3>5. \A i \in 1 .. Len(tree') : tree'[i].proc => CanMount \/ tree'[i].overlay
        BY <3>1, <3>3, <3>4 DEF ProcInv
    <3> QED BY <1>4, <1>5, <2>1, <3>1, <3>3, <3>5 DEF Top
  <2> QED BY <2>2, <2>3
<1>8. CASE HelperMountsProc
  <2>1. helper' # "special" /\ helper = "special"
      BY <1>8 DEF HelperMountsProc
  <2>2. CASE tree = <<>>
    <3>1. tree' = tree
        BY <1>8, <2>2 DEF HelperMountsProc
    <3> QED BY <1>4, <1>5, <2>1, <3>1 DEF ProcInv
  <2>3. CASE tree # <<>>
    <3>1. tree' = [tree EXCEPT ![Len(tree)] = [Top EXCEPT !.proc = TRUE]]
        BY <1>8, <2>3 DEF HelperMountsProc, Top
    <3>2. Top.secrets \in BOOLEAN
          /\ [Top EXCEPT !.proc = TRUE] = [Top EXCEPT !.proc = TRUE, !.secrets = Top.secrets]
        BY <1>1, <2>3, TopLayer, Zenon DEF Layers
    <3>3. /\ Len(tree') = Len(tree)
          /\ \A i \in 1 .. Len(tree) : i # Len(tree) => tree'[i] = tree[i]
        BY <1>1, <2>3, <3>1, <3>2, TopGains, Zenon
    <3>4. tree[Len(tree)].overlay
        BY <2>1, <2>3 DEF ProcInv, InContainer, Top
    <3>5. \A i \in 1 .. Len(tree') : tree'[i].proc => CanMount \/ tree'[i].overlay
        BY <1>1, <3>3, <3>4 DEF ProcInv, TreeGrows
    <3> QED BY <1>4, <1>5, <2>1, <3>5
  <2> QED BY <2>2, <2>3
<1> QED BY <1>6, <1>7, <1>8 DEF Helper

\* The steps that start, end and restart the container.
LEMMA KubeletComplete ==
    ASSUME ConsumerTypeInv, ProcInv, FirstLayerInv,
           \/ Kubelet \/ CommandExits \/ EntrypointGivesUp \/ EntrypointFails
           \/ NodeReboots
    PROVE  ProcInv' /\ FirstLayerInv'
<1>1. ASSUME tree' = <<>>, entry'.pc \in {"absent", "created", "exited"},
             helper' = "special" => host' # <<>>
      PROVE  ProcInv' /\ FirstLayerInv'
    BY <1>1 DEF ProcInv, FirstLayerInv, InContainer
<1>2. helper = "special" => host # <<>>
    BY DEF ProcInv
<1>3. CASE InitContainersRun \/ KubeletRestartsContainer
  <2>1. /\ UNCHANGED <<host, helper, tree>>
        /\ entry.pc \in {"absent", "exited"} /\ entry' = [entry EXCEPT !.pc = "created"]
      BY <1>3 DEF InitContainersRun, KubeletRestartsContainer
  <2>2. tree = <<>> /\ entry'.pc = "created"
      BY <2>1 DEF ConsumerTypeInv, EntryOK, InPod
  <2> QED BY <1>1, <1>2, <2>1, <2>2
<1>4. CASE CommandExits \/ EntrypointGivesUp \/ EntrypointFails
  <2>1. ContainerEnds /\ UNCHANGED <<host, helper>>
      BY <1>4 DEF CommandExits, EntrypointGivesUp, EntrypointFails
  <2>2. tree' = <<>> /\ entry'.pc = "exited"
      BY <2>1 DEF ContainerEnds, Absent
  <2> QED BY <1>1, <1>2, <2>1, <2>2
<1>5. CASE NodeReboots
    BY <1>1, <1>5 DEF NodeReboots, Absent
<1>6. CASE ContainerStarts
  <2>1. /\ UNCHANGED <<pod, host, helper, session>> /\ entry.pc = "created"
        /\ tree' = <<FirstLayer>> /\ entry' = [pc |-> "wait", attempt |-> 0, layer |-> 0]
      BY <1>6 DEF ContainerStarts, FirstLayer
  <2>2. Len(tree') = 1 /\ tree'[1] = FirstLayer /\ Top' = FirstLayer
      BY <2>1 DEF Top
  <2>3. /\ FirstLayer.volumes = ChrootVolumes /\ (host # <<>> => FirstLayer.overlay)
        /\ FirstLayer.proc => FirstLayer.overlay
      BY DEF FirstLayer, Layer
  <2>4. session'.pc = "none" /\ entry'.pc = "wait"
      BY <2>1 DEF ConsumerTypeInv, SessionOK, EntryOK, InPod
  <2>5. ProcInv'
      BY <1>2, <2>1, <2>2, <2>3, <2>4 DEF ProcInv
  <2>6. ~Enters'
      BY <2>4 DEF Enters, UserLayers
  <2>7. ChrootVolumes' = ChrootVolumes
      BY <2>1, SamePod
  <2> QED BY <2>2, <2>3, <2>5, <2>6, <2>7 DEF FirstLayerInv
<1> QED BY <1>3, <1>4, <1>5, <1>6 DEF Kubelet

\* The steps in a container put no layer on top, and only one that may mount
\* gets proc.
LEMMA InsideTree ==
    ASSUME ConsumerTypeInv, Inside
    PROVE  /\ Len(tree') = Len(tree)
           /\ \A i \in 1 .. Len(tree) : tree'[i].proc => CanMount \/ tree[i].proc
<1>1. CASE mountServiceAccountSecrets \/ setupMounts
    BY <1>1, MountsGrow
<1>2. CASE tree' = tree
    BY <1>2
<1> QED BY <1>1, <1>2
           DEF Inside, EntrypointFindsReady, EntrypointWaits, EntrypointRunsCommand, Session,
               chrootExec, SessionEnds, handleReadinessProbe, UserExecs, TokenRotates

\* The command is started in an overlay on top, with proc in some layer.
LEMMA InsideProc ==
    ASSUME ConsumerTypeInv, ProcInv, Inside
    PROVE  ProcInv'
<1>1. TreeGrows /\ UNCHANGED <<pod, host, helper>> /\ Len(tree') = Len(tree)
    BY InsideTyped, InsideTree
<1>2. Len(tree) \in Nat
    BY DEF ConsumerTypeInv
<1>3. helper' = "special" => host' # <<>> /\ (InContainer' => Top'.overlay)
  <2>1. ASSUME helper = "special", InContainer' PROVE Top'.overlay
    <3>1. InContainer /\ Len(tree) \in 1 .. Len(tree)
        BY <1>1, <1>2, <2>1 DEF InContainer, TreeGrows, ConsumerTypeInv
    <3>2. tree[Len(tree)].overlay
        BY <2>1, <3>1 DEF ProcInv, Top
    <3> QED BY <1>1, <3>1, <3>2 DEF TreeGrows, Top
  <2> QED BY <1>1, <2>1 DEF ProcInv
<1>4. \A i \in 1 .. Len(tree') : tree'[i].proc => CanMount \/ tree'[i].overlay
    BY <1>1, InsideTree DEF ProcInv, TreeGrows
<1>5. ASSUME \/ entry' = entry
             \/ entry'.pc \in {"absent", "created", "wait"}
             \/ /\ entry'.pc \in {"secrets", "chroot"}
                /\ \E i \in 1 .. Len(tree) : tree[i].proc
      PROVE  ProcInv'
    BY <1>1, <1>3, <1>4, <1>5, ProcKept
<1>6. CASE EntrypointFindsReady
  <2>1. \E i \in DOMAIN tree : tree[i].proc
      BY <1>6 DEF EntrypointFindsReady, RootfsReady, isMounted
  <2>2. DOMAIN tree = 1 .. Len(tree)
      BY DEF ConsumerTypeInv
  <2>3. entry'.pc = "secrets"
      BY <1>6 DEF EntrypointFindsReady, ConsumerTypeInv, EntryOK
  <2> QED BY <1>5, <2>1, <2>2, <2>3
<1>7. CASE EntrypointWaits
  <2>1. entry'.pc = "wait"
      BY <1>7 DEF EntrypointWaits, ConsumerTypeInv, EntryOK
  <2> QED BY <1>5, <2>1
<1>8. CASE mountServiceAccountSecrets
  <2>1. entry'.pc = "chroot" /\ entry.pc = "secrets"
      BY <1>8 DEF mountServiceAccountSecrets, ConsumerTypeInv, EntryOK
  <2> QED BY <1>5, <2>1 DEF ProcInv
<1>9. CASE EntrypointRunsCommand
  <2>1. /\ entry.pc = "chroot" /\ tree' = tree /\ Top.overlay
        /\ entry' = [entry EXCEPT !.pc = "run", !.layer = Len(tree)]
      BY <1>9 DEF EntrypointRunsCommand, CanChroot
  <2>2. entry'.pc = "run" /\ entry'.layer = Len(tree)
      BY <2>1 DEF ConsumerTypeInv, EntryOK
  <2>3. tree'[entry'.layer].overlay /\ \E i \in 1 .. entry'.layer : tree'[i].proc
      BY <2>1, <2>2 DEF ProcInv, Top
  <2>4. CanMount' = CanMount
      BY <1>1, SamePod
  <2> QED BY <1>3, <1>4, <2>2, <2>3, <2>4 DEF ProcInv
<1>10. CASE Session \/ handleReadinessProbe \/ UserExecs \/ TokenRotates
  <2>1. entry' = entry
      BY <1>10 DEF Session, setupMounts, chrootExec, SessionEnds, handleReadinessProbe,
                   UserExecs, TokenRotates
  <2> QED BY <1>5, <2>1
<1> QED BY <1>6, <1>7, <1>8, <1>9, <1>10 DEF Inside

\* Who comes to the first layer finds the service account directory there.
LEMMA InsideFirst ==
    ASSUME ConsumerTypeInv, FirstLayerInv, Inside
    PROVE  FirstLayerInv'
<1>1. TreeGrows /\ UNCHANGED pod /\ Len(tree') = Len(tree)
    BY InsideTyped, InsideTree
<1>2. ASSUME CanMount /\ Enters' => Enters \/ tree'[1].secrets
      PROVE  FirstLayerInv'
    BY <1>1, <1>2, FirstKept
<1>3. CASE mountServiceAccountSecrets \/ setupMounts
  <2>1. CASE Len(tree) = 1
    <3>1. CanMount => tree'[1].secrets \/ isMounted("secrets")
        BY <1>3, <2>1, MountsGrow
    <3>2. isMounted("secrets") => tree[1].secrets
      <4>1. DOMAIN tree = 1 .. 1
          BY <2>1 DEF ConsumerTypeInv
      <4> QED BY <4>1 DEF isMounted
    <3>3. tree[1].secrets => tree'[1].secrets
        BY <1>1, <2>1 DEF TreeGrows
    <3> QED BY <1>2, <3>1, <3>2, <3>3
  <2>2. CASE Len(tree) # 1
    <3>1. /\ entry' = entry \/ entry'.pc = "chroot"
          /\ session' = session \/ session'.pc = "find"
        BY <1>3 DEF mountServiceAccountSecrets, setupMounts, ConsumerTypeInv, EntryOK, SessionOK
    <3>2. Enters' => Enters
        BY <1>1, <2>2, <3>1 DEF Enters, UserLayers
    <3> QED BY <1>2, <3>2
  <2> QED BY <2>1, <2>2
<1>4. CASE EntrypointFindsReady \/ EntrypointWaits
  <2>1. session' = session /\ entry'.pc \in {"wait", "secrets"}
      BY <1>4 DEF EntrypointFindsReady, EntrypointWaits, ConsumerTypeInv, EntryOK
  <2>2. Enters' => Enters
      BY <1>1, <2>1 DEF Enters, UserLayers
  <2> QED BY <1>2, <2>2
<1>5. CASE EntrypointRunsCommand
  <2>1. /\ entry.pc = "chroot" /\ session' = session
        /\ entry' = [entry EXCEPT !.pc = "run", !.layer = Len(tree)]
      BY <1>5 DEF EntrypointRunsCommand
  <2>2. entry'.pc = "run" /\ entry'.layer = Len(tree)
      BY <2>1 DEF ConsumerTypeInv, EntryOK
  <2>3. Enters' => Enters
      BY <1>1, <2>1, <2>2 DEF Enters, UserLayers
  <2> QED BY <1>2, <2>3
<1>6. CASE chrootExec
  <2>1. /\ session.pc = "find" /\ entry' = entry
        /\ session' = [pc |-> "run", layer |-> Len(tree)]
      BY <1>6 DEF chrootExec
  <2>2. session'.pc = "run" /\ session'.layer = Len(tree)
      BY <2>1
  <2>3. Enters' => Enters
      BY <1>1, <2>1, <2>2 DEF Enters, UserLayers
  <2> QED BY <1>2, <2>3
<1>7. CASE SessionEnds \/ UserExecs \/ handleReadinessProbe \/ TokenRotates
  <2>1. entry' = entry /\ (session' = session \/ session'.pc \in {"none", "mounts"})
      BY <1>7 DEF SessionEnds, UserExecs, handleReadinessProbe, TokenRotates, NoSession,
                  ConsumerTypeInv, SessionOK
  <2>2. Enters' => Enters
      BY <1>1, <2>1 DEF Enters, UserLayers
  <2> QED BY <1>2, <2>2
<1> QED BY <1>3, <1>4, <1>5, <1>6, <1>7 DEF Inside, Session

ConsumerInv == ConsumerTypeInv /\ ProcInv /\ FirstLayerInv

\* The invariant holds in the first state.
LEMMA ConsumerInit == Init => ConsumerInv
<1> SUFFICES ASSUME Init PROVE ConsumerInv
    OBVIOUS
<1>1. tree = <<>> /\ helper = "idle" /\ entry.pc = "absent"
    BY DEF Init, Absent
<1> QED BY <1>1, ConsumerTypeInit DEF ConsumerInv, ProcInv, FirstLayerInv, InContainer

\* Every step keeps it.
LEMMA ConsumerStep == ConsumerInv /\ [Next]_cvars => ConsumerInv'
<1> SUFFICES ASSUME ConsumerInv, [Next]_cvars PROVE ConsumerInv'
    OBVIOUS
<1>1. ConsumerTypeInv /\ ProcInv /\ FirstLayerInv /\ ConsumerTypeInv'
    BY ConsumerTypeStep DEF ConsumerInv
<1>2. CASE Next
    BY <1>1, <1>2, HelperComplete, KubeletComplete, InsideProc, InsideFirst
       DEF Next, Inside, Entrypoint, ConsumerInv
<1>3. CASE UNCHANGED cvars
    BY <1>1, <1>3
       DEF cvars, ConsumerInv, ProcInv, FirstLayerInv, Enters, UserLayers, InContainer, Top,
           CanMount, ChrootVolumes
<1> QED BY <1>2, <1>3

\* The invariant holds at any time.
LEMMA ConsumerCorrect == Spec => []ConsumerInv
    BY ConsumerInit, ConsumerStep, PTL DEF Spec

\* The user's command runs only in the image's root filesystem and with proc:
\* no remount, reboot or session makes the entrypoint go on too early.
THEOREM CommandComplete == Spec => []CommandRunsComplete
<1>1. ASSUME ConsumerInv PROVE CommandRunsComplete
  <2>1. entry.pc = "run" => entry.layer \in 1 .. Len(tree) /\ Len(tree) \in Nat
      BY <1>1 DEF ConsumerInv, ConsumerTypeInv, EntryOK
  <2> QED BY <1>1, <2>1 DEF ConsumerInv, ProcInv, CommandRunsComplete
<1> QED BY <1>1, ConsumerCorrect, PTL

\* Whoever runs in the first layer of a container that may mount sees the token
\* rotated: the directory was bound there before the chroot.
THEOREM TokenIsFollowed == Spec => []TokenFollowed
<1>1. ASSUME ConsumerInv PROVE TokenFollowed
  <2>1. ASSUME 1 \in UserLayers PROVE tree[1].secrets \/ ~CanMount
    <3>1. InContainer /\ Enters
        BY <1>1, <2>1 DEF ConsumerInv, ConsumerTypeInv, EntryOK, SessionOK, InPod,
                          UserLayers, InContainer, Enters
    <3> QED BY <1>1, <3>1 DEF ConsumerInv, FirstLayerInv
  <2> QED BY <2>1 DEF TokenFollowed
<1> QED BY <1>1, ConsumerCorrect, PTL

-----------------------------------------------------------------------------
\* What the builder makes of a template, and what it needs for that.

\* The elements of two sequences one after the other.
LEMMA Concatenated ==
    ASSUME NEW S, NEW s \in Seq(S), NEW t \in Seq(S)
    PROVE  /\ s \o t \in Seq(S) /\ Len(s \o t) = Len(s) + Len(t)
           /\ \A k \in 1 .. Len(s) : (s \o t)[k] = s[k]
           /\ \A i \in 1 .. Len(t) : (s \o t)[Len(s) + i] = t[i]
<1>1. Len(s) \in Nat /\ Len(t) \in Nat
    OBVIOUS
<1>2. ASSUME NEW i \in 1 .. Len(t) PROVE (s \o t)[Len(s) + i] = t[i]
  <2>1. Len(s) + i \in 1 .. Len(s) + Len(t) /\ ~(Len(s) + i <= Len(s)) /\ Len(s) + i - Len(s) = i
      BY <1>1
  <2> QED BY <2>1, ConcatProperties
<1> QED BY <1>1, <1>2, ConcatProperties

\* Two names or paths with something in front of them.
LEMMA Prefixed ==
    ASSUME NEW S, NEW a \in S, NEW b \in S, NEW p \in Seq(S), NEW q \in Seq(S)
    PROVE  /\ <<a>> \in Seq(S) /\ <<a>> \o p \in Seq(S) /\ Tail(<<a>> \o p) = p
           /\ <<a>> \o p = <<b>> \o q => a = b /\ p = q
           /\ <<a>> \o p = <<b>> => a = b /\ p = <<>>
           /\ Within(<<a>>, <<a>> \o p)
<1> DEFINE A == <<a>>
           B == <<b>>
<1>1. /\ A \in Seq(S) /\ B \in Seq(S) /\ Len(A) = 1 /\ Len(B) = 1
      /\ A[1] = a /\ B[1] = b
    OBVIOUS
<1>2. Tail(A \o p) = p /\ Tail(B \o q) = q
    OBVIOUS
<1> HIDE DEF A, B
<1>3. /\ A \o p \in Seq(S) /\ Len(A \o p) = 1 + Len(p) /\ (A \o p)[1] = a
      /\ (B \o q)[1] = b
    BY <1>1, ConcatProperties
<1>4. A \o p = B => a = b /\ Len(p) = 0
    BY <1>1, <1>3
<1>5. A \o p = B => a = b /\ p = <<>>
    BY <1>4
<1>6. A \o p = B \o q => a = b /\ p = q
    BY <1>2, <1>3, Zenon
<1>7. Within(A, A \o p)
  <2>1. SubSeq(A \o p, 1, Len(A)) = A
      BY <1>1, <1>3
  <2> QED BY <1>1, <1>3, <2>1 DEF Within
<1>8. A = <<a>> /\ B = <<b>>
    BY DEF A, B
<1> QED BY <1>1, <1>2, <1>3, <1>5, <1>6, <1>7, <1>8, Zenon

\* The builder's own words make names and paths.
LEMMA OwnWordsTyped == \A w \in OwnWords : w \in Words /\ <<w>> \in Seq(Words)
<1>1. \A w \in OwnWords : w \in Words
    BY DEF Words
<1> QED BY <1>1, Prefixed, EmptySeq, Zenon

\* A user's name, and a path below /rootfs.
LEMMA UserPrefixed ==
    ASSUME NEW p \in Seq(Words)
    PROVE  /\ UserName(p) \in Seq(Words) /\ RootfsMountPath \o p \in Seq(Words)
           /\ Tail(RootfsMountPath \o p) = p /\ Within(RootfsMountPath, RootfsMountPath \o p)
           /\ RootfsMountPath \o p = RootfsMountPath => p = <<>>
<1>1. "user" \in Words /\ "rootfs" \in Words
    BY OwnWordsTyped DEF OwnWords
<1>2. ASSUME NEW w \in Words
      PROVE  /\ <<w>> \o p \in Seq(Words) /\ Tail(<<w>> \o p) = p /\ Within(<<w>>, <<w>> \o p)
             /\ <<w>> \o p = <<w>> => p = <<>>
  <2>1. <<w>> \o p \in Seq(Words) /\ Tail(<<w>> \o p) = p
      BY Prefixed
  <2>2. Within(<<w>>, <<w>> \o p)
      BY Prefixed
  <2>3. <<w>> \o p = <<w>> => p = <<>>
      BY Prefixed
  <2> QED BY <2>1, <2>2, <2>3
<1> QED BY <1>1, <1>2, Zenon DEF UserName, RootfsMountPath

\* The builder's own volumes and their mounts.
LEMMA SystemTyped ==
    /\ SystemVolumes \in Seq(Seq(Words)) /\ Len(SystemVolumes) = 3
    /\ SystemMounts \in Seq(MountSpec) /\ Len(SystemMounts) = 3
    /\ \A k \in 1 .. 3 : SystemMounts[k].name = SystemVolumes[k]
    /\ SystemMounts[1].path = RootfsMountPath /\ SystemMounts[2].path = ExecWrapperBinPath
    /\ SystemMounts[3].path = <<"bin">>
    /\ SystemVolumes[1] = PropagatedVolumeName /\ SystemVolumes[2] = ExecWrapperVolumeName
    /\ SystemVolumes[3] = BinOverlayVolumeName
<1>1. /\ RootfsMountPath \in Seq(Words) /\ ExecWrapperBinPath \in Seq(Words)
      /\ <<"bin">> \in Seq(Words) /\ PropagatedVolumeName \in Seq(Words)
      /\ ExecWrapperVolumeName \in Seq(Words) /\ BinOverlayVolumeName \in Seq(Words)
    BY OwnWordsTyped
       DEF OwnWords, RootfsMountPath, ExecWrapperBinPath, PropagatedVolumeName,
           ExecWrapperVolumeName, BinOverlayVolumeName
<1>2. ASSUME NEW n \in Seq(Words), NEW p \in Seq(Words)
      PROVE  Mount(n, p) \in MountSpec /\ Mount(n, p).name = n /\ Mount(n, p).path = p
    BY DEF Mount, MountSpec
<1>3. ASSUME NEW S, NEW a \in S, NEW b \in S, NEW c \in S
      PROVE  /\ <<a, b, c>> \in Seq(S) /\ Len(<<a, b, c>>) = 3
             /\ <<a, b, c>>[1] = a /\ <<a, b, c>>[2] = b /\ <<a, b, c>>[3] = c
    OBVIOUS
<1>4. /\ SystemVolumes \in Seq(Seq(Words)) /\ Len(SystemVolumes) = 3
      /\ SystemVolumes[1] = PropagatedVolumeName /\ SystemVolumes[2] = ExecWrapperVolumeName
      /\ SystemVolumes[3] = BinOverlayVolumeName
    BY <1>1, <1>3 DEF SystemVolumes
<1> DEFINE a == Mount(PropagatedVolumeName, RootfsMountPath)
           b == Mount(ExecWrapperVolumeName, ExecWrapperBinPath)
           c == Mount(BinOverlayVolumeName, <<"bin">>)
<1>5. /\ a \in MountSpec /\ a.name = PropagatedVolumeName /\ a.path = RootfsMountPath
      /\ b \in MountSpec /\ b.name = ExecWrapperVolumeName /\ b.path = ExecWrapperBinPath
      /\ c \in MountSpec /\ c.name = BinOverlayVolumeName /\ c.path = <<"bin">>
    BY <1>1, <1>2, Zenon
<1>6. SystemMounts = <<a, b, c>>
    BY DEF SystemMounts
<1> HIDE DEF a, b, c
<1>7. /\ SystemMounts \in Seq(MountSpec) /\ Len(SystemMounts) = 3
      /\ SystemMounts[1] = a /\ SystemMounts[2] = b /\ SystemMounts[3] = c
    BY <1>3, <1>5, <1>6
<1>8. 1 .. 3 = {1, 2, 3}
    OBVIOUS
<1> QED BY <1>4, <1>5, <1>7, <1>8

\* The user's mounts of the main container.
LEMMA MainTyped ==
    ASSUME NEW t, TemplateOK(t)
    PROVE  MainOf(t).mounts \in Seq(MountSpec)
<1>1. FallbackContainer.mounts \in Seq(MountSpec)
    BY DEF FallbackContainer
<1>2. \A c \in ContainerSpec : c.mounts \in Seq(MountSpec)
    BY DEF ContainerSpec
<1>3. t.containers # <<>> => Head(t.containers) \in ContainerSpec
    BY DEF TemplateOK
<1> QED BY <1>1, <1>2, <1>3 DEF MainOf

\* The mounts of the main container: the builder's three, then each of the
\* user's at its path and below /rootfs.
LEMMA MountsBuilt ==
    ASSUME NEW u \in Seq(MountSpec)
    PROVE  LET ms == buildVolumeMounts(u)
           IN  /\ ms \in Seq(MountSpec) /\ Len(ms) = 3 + 2 * Len(u)
               /\ \A k \in 1 .. 3 : ms[k] = SystemMounts[k]
               /\ \A j \in 1 .. Len(u) :
                     /\ ms[2 + 2 * j] = Mount(UserName(u[j].name), u[j].path)
                     /\ ms[3 + 2 * j] = Mount(UserName(u[j].name), RootfsMountPath \o u[j].path)
<1> DEFINE f(i) == LET m == u[(i + 1) \div 2]
                   IN  Mount(UserName(m.name),
                             IF i % 2 = 1 THEN m.path ELSE RootfsMountPath \o m.path)
           us == [i \in 1 .. 2 * Len(u) |-> f(i)]
<1>1. Len(u) \in Nat /\ 2 * Len(u) \in Nat
    OBVIOUS
<1>2. \A j \in 1 .. Len(u) : u[j] \in MountSpec
    OBVIOUS
<1>3. \A n \in Seq(Words) : UserName(n) \in Seq(Words) /\ RootfsMountPath \o n \in Seq(Words)
    BY UserPrefixed
<1>4. ASSUME NEW i \in 1 .. 2 * Len(u) PROVE f(i) \in MountSpec
  <2>1. (i + 1) \div 2 \in 1 .. Len(u)
      BY <1>1
  <2>2. u[(i + 1) \div 2] \in MountSpec
      BY <1>2, <2>1
  <2> QED BY <1>3, <2>2, Zenon DEF Mount, MountSpec
<1>5. us \in Seq(MountSpec) /\ Len(us) = 2 * Len(u) /\ \A i \in 1 .. 2 * Len(u) : us[i] = f(i)
    BY <1>1, <1>4
<1>6. SystemMounts \in Seq(MountSpec) /\ Len(SystemMounts) = 3
    BY SystemTyped
<1>7. buildVolumeMounts(u) = SystemMounts \o us
    BY DEF buildVolumeMounts
<1>8. ASSUME NEW j \in 1 .. Len(u)
      PROVE  /\ f(2 * j - 1) = Mount(UserName(u[j].name), u[j].path)
             /\ f(2 * j) = Mount(UserName(u[j].name), RootfsMountPath \o u[j].path)
  <2>1. /\ (2 * j - 1 + 1) \div 2 = j /\ (2 * j + 1) \div 2 = j
        /\ (2 * j - 1) % 2 = 1 /\ (2 * j) % 2 = 0
      BY <1>1
  <2> QED BY <2>1
<1>9. ASSUME NEW j \in 1 .. Len(u)
      PROVE  2 * j - 1 \in 1 .. 2 * Len(u) /\ 2 * j \in 1 .. 2 * Len(u)
    BY <1>1
<1> HIDE DEF us, f
<1>10. /\ SystemMounts \o us \in Seq(MountSpec) /\ Len(SystemMounts \o us) = 3 + 2 * Len(u)
       /\ \A k \in 1 .. 3 : (SystemMounts \o us)[k] = SystemMounts[k]
       /\ \A i \in 1 .. 2 * Len(u) : (SystemMounts \o us)[3 + i] = us[i]
  <2> DEFINE ss == SystemMounts
  <2>1. /\ ss \o us \in Seq(MountSpec) /\ Len(ss \o us) = Len(ss) + Len(us)
        /\ \A k \in 1 .. Len(ss) : (ss \o us)[k] = ss[k]
        /\ \A i \in 1 .. Len(us) : (ss \o us)[Len(ss) + i] = us[i]
    <3>1. ss \in Seq(MountSpec) /\ us \in Seq(MountSpec)
        BY <1>5, <1>6
    <3> HIDE DEF ss
    <3> QED BY <3>1, Concatenated
  <2>2. Len(ss) = 3 /\ Len(us) = 2 * Len(u)
      BY <1>5, <1>6
  <2> HIDE DEF ss
  <2>3. /\ ss \o us \in Seq(MountSpec) /\ Len(ss \o us) = 3 + 2 * Len(u)
        /\ \A k \in 1 .. 3 : (ss \o us)[k] = ss[k]
        /\ \A i \in 1 .. 2 * Len(u) : (ss \o us)[3 + i] = us[i]
      BY <2>1, <2>2, Zenon
  <2> QED BY <2>3 DEF ss
<1>11. ASSUME NEW j \in 1 .. Len(u)
       PROVE  /\ (SystemMounts \o us)[2 + 2 * j] = f(2 * j - 1)
              /\ (SystemMounts \o us)[3 + 2 * j] = f(2 * j)
  <2>1. 3 + (2 * j - 1) = 2 + 2 * j
      BY <1>1
  <2> QED BY <1>5, <1>9, <1>10, <2>1, Zenon
<1> QED BY <1>7, <1>8, <1>10, <1>11, Zenon

\* No mount of the main container is at the root directory.
NoMountAtRoot ==
    \A t \in Templates : \A m \in Range(MainOf(t).mounts) : m.path # <<>>

\* Every mount of the template is among those below /rootfs.
LEMMA VolumesInChroot ==
    ASSUME ConsumerTypeInv, NoMountAtRoot, NEW m \in Range(MainOf(template).mounts)
    PROVE  Mount(UserName(m.name), m.path) \in ChrootVolumes
<1> DEFINE u == MainOf(template).mounts
           x == Mount(UserName(m.name), RootfsMountPath \o m.path)
<1>1. u \in Seq(MountSpec)
    BY MainTyped, TemplatesAssumption DEF ConsumerTypeInv
<1>2. PICK j \in 1 .. Len(u) : m = u[j]
    BY <1>1 DEF Range
<1>3. m.path \in Seq(Words) /\ m.path # <<>>
  <2>1. m \in MountSpec
      BY <1>1, <1>2
  <2> QED BY <2>1 DEF MountSpec, NoMountAtRoot, ConsumerTypeInv
<1>4. pod.main.mounts = buildVolumeMounts(u)
    BY DEF ConsumerTypeInv, Build, BuildWithPolicyOf
<1> HIDE DEF u
<1>5. x \in Range(pod.main.mounts)
  <2>1. buildVolumeMounts(u) \in Seq(MountSpec) /\ 3 + 2 * j \in 1 .. Len(buildVolumeMounts(u))
      BY <1>1, MountsBuilt
  <2>2. buildVolumeMounts(u)[3 + 2 * j] = x
      BY <1>1, <1>2, MountsBuilt
  <2>3. 3 + 2 * j \in DOMAIN buildVolumeMounts(u)
      BY <2>1
  <2> QED BY <1>4, <2>2, <2>3 DEF Range
<1>6. x.path = RootfsMountPath \o m.path /\ x.name = UserName(m.name)
    BY DEF Mount
<1> HIDE DEF x
<1>7. /\ Within(RootfsMountPath, RootfsMountPath \o m.path)
      /\ RootfsMountPath \o m.path # RootfsMountPath
      /\ Tail(RootfsMountPath \o m.path) = m.path
    BY <1>3, UserPrefixed, Zenon
<1> QED BY <1>5, <1>6, <1>7, Zenon DEF ChrootVolumes

\* Whoever runs in the first layer finds every volume of the template at the
\* path the template gives: each is mounted below /rootfs too, and nothing is
\* mounted over it in that layer.
THEOREM VolumesInFirstLayer ==
    ASSUME NoMountAtRoot PROVE Spec => []VolumesVisibleInFirstLayer
<1>1. ASSUME ConsumerInv PROVE VolumesVisibleInFirstLayer
  <2>1. ASSUME 1 \in UserLayers PROVE SeesVolumes(1)
    <3>1. InContainer
        BY <1>1, <2>1 DEF ConsumerInv, ConsumerTypeInv, EntryOK, SessionOK, InPod,
                          UserLayers, InContainer
    <3>2. tree[1].volumes = ChrootVolumes
        BY <1>1, <3>1 DEF ConsumerInv, FirstLayerInv
    <3> QED BY <1>1, <3>2, VolumesInChroot DEF ConsumerInv, SeesVolumes
  <2> QED BY <2>1 DEF VolumesVisibleInFirstLayer
<1> QED BY <1>1, ConsumerCorrect, PTL

-----------------------------------------------------------------------------
\* Two sequences without repetitions and without a common element.
LEMMA DistinctConcat ==
    ASSUME NEW S, NEW s \in Seq(S), NEW t \in Seq(S), Distinct(s), Distinct(t),
           \A i \in 1 .. Len(s), j \in 1 .. Len(t) : s[i] # t[j]
    PROVE  Distinct(s \o t)
<1> DEFINE r == s \o t
<1>1. /\ r \in Seq(S) /\ Len(r) = Len(s) + Len(t) /\ \A k \in 1 .. Len(s) : r[k] = s[k]
      /\ \A i \in 1 .. Len(t) : r[Len(s) + i] = t[i]
    BY Concatenated
<1>2. Len(s) \in Nat /\ Len(t) \in Nat /\ DOMAIN s = 1 .. Len(s) /\ DOMAIN t = 1 .. Len(t)
    OBVIOUS
<1> HIDE DEF r
<1>3. DOMAIN r = 1 .. Len(s) + Len(t)
    BY <1>1
<1>4. ASSUME NEW k \in DOMAIN r
      PROVE  k \in 1 .. Len(s) \/ \E i \in 1 .. Len(t) : k = Len(s) + i
  <2>1. k \in 1 .. Len(s) \/ (k - Len(s) \in 1 .. Len(t) /\ k = Len(s) + (k - Len(s)))
      BY <1>2, <1>3
  <2> QED BY <2>1
<1>5. ASSUME NEW k \in DOMAIN r, NEW l \in DOMAIN r, r[k] = r[l]
      PROVE  k = l
  <2>1. CASE k \in 1 .. Len(s) /\ l \in 1 .. Len(s)
      BY <1>1, <1>2, <1>5, <2>1 DEF Distinct
  <2>2. ASSUME NEW i \in 1 .. Len(t), NEW j \in 1 .. Len(t), k = Len(s) + i, l = Len(s) + j
        PROVE  k = l
    <3>1. r[k] = t[i] /\ r[l] = t[j]
        BY <1>1, <2>2
    <3>2. t[i] = t[j] /\ i \in DOMAIN t /\ j \in DOMAIN t
        BY <1>2, <1>5, <3>1, Zenon
    <3>3. i = j
        BY <3>2 DEF Distinct
    <3> QED BY <2>2, <3>3
  <2>3. ASSUME NEW a \in 1 .. Len(s), NEW j \in 1 .. Len(t),
               r[a] = r[Len(s) + j]
        PROVE  FALSE
      BY <1>1, <2>3
  <2> QED BY <1>4, <1>5, <2>1, <2>2, <2>3
<1> QED BY <1>5 DEF Distinct, r

\* The names of the elements of a sequence.
LEMMA NamesTyped ==
    ASSUME NEW S, NEW u \in Seq(S), NEW N, \A x \in S : x.name \in N
    PROVE  /\ NamesOf(u) \in Seq(N) /\ Len(NamesOf(u)) = Len(u)
           /\ \A i \in 1 .. Len(u) : NamesOf(u)[i] = u[i].name
<1>1. DOMAIN u = 1 .. Len(u) /\ Len(u) \in Nat /\ \A i \in 1 .. Len(u) : u[i].name \in N
    OBVIOUS
<1>2. NamesOf(u) = [i \in 1 .. Len(u) |-> u[i].name]
    BY <1>1 DEF NamesOf
<1> HIDE DEF NamesOf
<1> QED BY <1>1, <1>2

\* Those of two sequences one after the other.
LEMMA NamesConcat ==
    ASSUME NEW S, NEW s \in Seq(S), NEW t \in Seq(S)
    PROVE  NamesOf(s \o t) = NamesOf(s) \o NamesOf(t)
<1> DEFINE N == {x.name : x \in S}
<1>1. \A x \in S : x.name \in N
    OBVIOUS
<1> HIDE DEF N
<1> DEFINE r == s \o t
           a == NamesOf(s)
           b == NamesOf(t)
           c == NamesOf(r)
<1>2. /\ r \in Seq(S) /\ Len(r) = Len(s) + Len(t) /\ \A k \in 1 .. Len(s) : r[k] = s[k]
      /\ \A i \in 1 .. Len(t) : r[Len(s) + i] = t[i]
    BY Concatenated
<1>3. /\ a \in Seq(N) /\ Len(a) = Len(s) /\ \A i \in 1 .. Len(s) : a[i] = s[i].name
      /\ b \in Seq(N) /\ Len(b) = Len(t) /\ \A i \in 1 .. Len(t) : b[i] = t[i].name
    BY <1>1, NamesTyped, Zenon
<1>4. c \in Seq(N) /\ Len(c) = Len(r) /\ \A i \in 1 .. Len(r) : c[i] = r[i].name
  <2>1. r \in Seq(S)
      BY <1>2
  <2> HIDE DEF r
  <2> QED BY <1>1, <2>1, NamesTyped, Zenon
<1> HIDE DEF a, b, c, r
<1> DEFINE d == a \o b
<1>5. /\ d \in Seq(N) /\ Len(d) = Len(a) + Len(b)
      /\ \A k \in 1 .. Len(a) : d[k] = a[k]
      /\ \A i \in 1 .. Len(b) : d[Len(a) + i] = b[i]
  <2>1. a \in Seq(N) /\ b \in Seq(N)
      BY <1>3
  <2> QED BY <2>1, Concatenated
<1> HIDE DEF d
<1>6. Len(s) \in Nat /\ Len(t) \in Nat
    OBVIOUS
<1>7. ASSUME NEW k \in 1 .. Len(c) PROVE c[k] = d[k]
  <2>1. k \in 1 .. Len(r) /\ c[k] = r[k].name
      BY <1>4
  <2>2. CASE k \in 1 .. Len(s)
    <3>1. r[k] = s[k] /\ a[k] = s[k].name /\ d[k] = a[k]
        BY <1>2, <1>3, <1>5, <2>2
    <3> QED BY <2>1, <3>1
  <2>3. ASSUME NEW i \in 1 .. Len(t), k = Len(s) + i
        PROVE  c[k] = d[k]
    <3>1. r[k] = t[i] /\ b[i] = t[i].name /\ d[k] = b[i]
        BY <1>2, <1>3, <1>5, <2>3
    <3> QED BY <2>1, <3>1
  <2>4. k \in 1 .. Len(s) \/ (k - Len(s) \in 1 .. Len(t) /\ k = Len(s) + (k - Len(s)))
      BY <1>2, <1>6, <2>1
  <2> QED BY <2>2, <2>3, <2>4, Zenon
<1>8. Len(c) = Len(d)
    BY <1>2, <1>3, <1>4, <1>5
<1>9. c = d
    BY <1>4, <1>5, <1>7, <1>8, SeqEqual
<1> QED BY <1>9 DEF a, b, c, d, r

\* A name the builder gives to what is the user's is none of its own.
LEMMA UserNameFresh ==
    ASSUME NEW p \in Seq(Words)
    PROVE  /\ \A q \in Seq(Words) : UserName(p) = UserName(q) => p = q
           /\ \A w \in OwnWords \ {"user"} : UserName(p) # <<w>>
<1>1. "user" \in Words
    BY OwnWordsTyped DEF OwnWords
<1>2. ASSUME NEW q \in Seq(Words) PROVE UserName(p) = UserName(q) => p = q
  <2>1. ASSUME NEW w \in Words PROVE <<w>> \o p = <<w>> \o q => p = q
    <3>1. Tail(<<w>> \o p) = p /\ Tail(<<w>> \o q) = q
        BY Prefixed
    <3> QED BY <3>1
  <2> QED BY <1>1, <2>1, Zenon DEF UserName
<1>3. ASSUME NEW w \in OwnWords \ {"user"} PROVE UserName(p) # <<w>>
  <2>1. w \in Words /\ w # "user"
      BY OwnWordsTyped
  <2>2. ASSUME NEW v \in Words PROVE <<v>> \o p = <<w>> => v = w
      BY <2>1, Prefixed
  <2> QED BY <1>1, <2>1, <2>2, Zenon DEF UserName
<1> QED BY <1>2, <1>3

\* No repeated name or path, and names of a set, said of the elements.
LEMMA OfElements ==
    ASSUME NEW S, NEW s \in Seq(S)
    PROVE  /\ Distinct(NamesOf(s)) <=> (\A k, l \in 1 .. Len(s) : s[k].name = s[l].name => k = l)
           /\ Distinct(PathsOf(s)) <=> (\A k, l \in 1 .. Len(s) : s[k].path = s[l].path => k = l)
           /\ Range(NamesOf(s)) = {s[k].name : k \in 1 .. Len(s)}
<1>1. DOMAIN s = 1 .. Len(s)
    OBVIOUS
<1>2. /\ DOMAIN NamesOf(s) = DOMAIN s /\ \A k \in DOMAIN s : NamesOf(s)[k] = s[k].name
      /\ DOMAIN PathsOf(s) = DOMAIN s /\ \A k \in DOMAIN s : PathsOf(s)[k] = s[k].path
    BY DEF NamesOf, PathsOf
<1>3. Distinct(NamesOf(s)) <=> (\A k, l \in 1 .. Len(s) : s[k].name = s[l].name => k = l)
    BY <1>1, <1>2, ZenonT(30) DEF Distinct
<1>4. Distinct(PathsOf(s)) <=> (\A k, l \in 1 .. Len(s) : s[k].path = s[l].path => k = l)
    BY <1>1, <1>2, ZenonT(30) DEF Distinct
<1>5. Range(NamesOf(s)) = {s[k].name : k \in 1 .. Len(s)}
    BY <1>1, <1>2 DEF Range
<1> QED BY <1>3, <1>4, <1>5, Zenon

\* The volumes of the pod: the builder's, then the user's with a name in front.
LEMMA VolumesBuilt ==
    ASSUME NEW u \in Seq(Seq(Words)), Distinct(u)
    PROVE  LET vs == buildVolumes(u)
           IN  /\ Distinct(vs)
               /\ \A k \in 1 .. 3 : SystemVolumes[k] \in Range(vs)
               /\ \A n \in Range(u) : UserName(n) \in Range(vs)
<1> DEFINE N  == Seq(Words)
           us == [i \in DOMAIN u |-> UserName(u[i])]
           ss == SystemVolumes
           vs == ss \o us
<1>1. DOMAIN u = 1 .. Len(u) /\ Len(u) \in Nat /\ \A i \in 1 .. Len(u) : u[i] \in N
    OBVIOUS
<1>2. \A n \in N : UserName(n) \in N
    BY UserPrefixed
<1>3. us \in Seq(N) /\ Len(us) = Len(u) /\ \A i \in 1 .. Len(u) : us[i] = UserName(u[i])
  <2> HIDE DEF N
  <2> QED BY <1>1, <1>2
<1>4. /\ ss \in Seq(N) /\ Len(ss) = 3 /\ ss[1] = <<"sc-propagated">>
      /\ ss[2] = <<"sc-exec-wrapper">> /\ ss[3] = <<"sc-bin-overlay">>
    BY SystemTyped DEF PropagatedVolumeName, ExecWrapperVolumeName, BinOverlayVolumeName
<1>5. buildVolumes(u) = vs
    BY DEF buildVolumes
<1> HIDE DEF us, ss
<1>6. 1 .. 3 = {1, 2, 3}
    OBVIOUS
<1>7. Distinct(ss)
    BY <1>4, <1>6 DEF Distinct
<1>8. Distinct(us)
  <2>1. ASSUME NEW i \in DOMAIN us, NEW j \in DOMAIN us, us[i] = us[j] PROVE i = j
    <3>1. i \in DOMAIN u /\ j \in DOMAIN u /\ UserName(u[i]) = UserName(u[j])
        BY <1>1, <1>3, <2>1
    <3>2. u[i] = u[j]
        BY <1>1, <3>1, UserNameFresh
    <3> QED BY <3>1, <3>2 DEF Distinct
  <2> QED BY <2>1 DEF Distinct
<1>9. ASSUME NEW k \in 1 .. Len(ss), NEW i \in 1 .. Len(us) PROVE ss[k] # us[i]
  <2>1. us[i] = UserName(u[i]) /\ u[i] \in N
      BY <1>1, <1>3
  <2>2. \A w \in OwnWords \ {"user"} : UserName(u[i]) # <<w>>
      BY <2>1, UserNameFresh
  <2>3. /\ us[i] # <<"sc-propagated">> /\ us[i] # <<"sc-exec-wrapper">>
        /\ us[i] # <<"sc-bin-overlay">>
      BY <2>1, <2>2 DEF OwnWords
  <2> QED BY <1>4, <1>6, <2>3
<1> HIDE DEF N
<1>10. Distinct(vs)
  <2>1. ss \in Seq(N) /\ us \in Seq(N)
      BY <1>3, <1>4
  <2>2. \A i \in 1 .. Len(ss), j \in 1 .. Len(us) : ss[i] # us[j]
      BY <1>9
  <2> QED BY <1>7, <1>8, <2>1, <2>2, DistinctConcat
<1>11. /\ vs \in Seq(N) /\ Len(vs) = Len(ss) + Len(us)
       /\ \A k \in 1 .. Len(ss) : vs[k] = ss[k]
       /\ \A i \in 1 .. Len(us) : vs[Len(ss) + i] = us[i]
  <2>1. ss \in Seq(N) /\ us \in Seq(N)
      BY <1>3, <1>4
  <2> QED BY <2>1, Concatenated
<1> HIDE DEF vs
<1>12. DOMAIN vs = 1 .. 3 + Len(u)
    BY <1>3, <1>4, <1>11
<1>13. ASSUME NEW k \in 1 .. 3 PROVE ss[k] \in Range(vs)
  <2>1. k \in DOMAIN vs /\ vs[k] = ss[k]
      BY <1>1, <1>4, <1>11, <1>12
  <2> QED BY <2>1 DEF Range
<1>14. ASSUME NEW n \in Range(u) PROVE UserName(n) \in Range(vs)
  <2>1. PICK i \in 1 .. Len(u) : n = u[i]
      BY <1>1 DEF Range
  <2>2. 3 + i \in DOMAIN vs
      BY <1>1, <1>12
  <2>3. vs[3 + i] = us[i]
      BY <1>3, <1>4, <1>11
  <2>4. us[i] = UserName(n)
      BY <1>3, <2>1
  <2> QED BY <2>2, <2>3, <2>4 DEF Range
<1> QED BY <1>5, <1>10, <1>13, <1>14 DEF ss

\* The user's containers but the first; Build leaves them as they are.
Sidecars(t) == IF t.containers = <<>> THEN <<>> ELSE Tail(t.containers)

\* Mounts at paths of their own, of volumes that are there.
MountsFit(mounts, volumes) ==
    Distinct(PathsOf(mounts)) /\ Range(NamesOf(mounts)) \subseteq Range(volumes)

\* A template that is a pod by itself, up to the places the builder takes: the
\* main container mounts nothing at the root, at a path of the builder's or
\* below /rootfs where another of its volumes goes; a further container mounts
\* nothing and has none of the names the builder gives.
MainMountsOK(mounts) ==
    \A i \in 1 .. Len(mounts) :
        /\ mounts[i].path \notin {<<>>, RootfsMountPath, ExecWrapperBinPath, <<"bin">>}
        /\ \A j \in 1 .. Len(mounts) : mounts[i].path # RootfsMountPath \o mounts[j].path

SidecarOK(c, inits) ==
    /\ c.mounts = <<>>
    /\ c.name \notin {<<"consumer">>, <<"exec-wrapper-init">>}
    /\ \A i \in 1 .. Len(inits) : c.name # UserName(inits[i].name)

Rewritable(t) ==
    /\ Distinct(t.volumes) /\ Distinct(NamesOf(t.initContainers))
    /\ Distinct(NamesOf(Sidecars(t)))
    /\ MountsFit(MainOf(t).mounts, t.volumes) /\ MainMountsOK(MainOf(t).mounts)
    /\ \A i \in 1 .. Len(t.initContainers) : MountsFit(t.initContainers[i].mounts, t.volumes)
    /\ \A i \in 1 .. Len(Sidecars(t)) : SidecarOK(Sidecars(t)[i], t.initContainers)

\* The paths of the main container's mounts are the builder's, the user's and
\* those below /rootfs, and no two of them are the same.
LEMMA MainPathsDistinct ==
    ASSUME NEW u \in Seq(MountSpec), Distinct(PathsOf(u)), MainMountsOK(u)
    PROVE  Distinct(PathsOf(buildVolumeMounts(u)))
<1> DEFINE ms == buildVolumeMounts(u)
           R(p) == RootfsMountPath \o p
           n == Len(u)
<1>1. n \in Nat /\ \A j \in 1 .. n : u[j].path \in Seq(Words)
  <2>1. \A m \in MountSpec : m.path \in Seq(Words)
      BY DEF MountSpec
  <2> QED BY <2>1
<1>2. /\ ms \in Seq(MountSpec) /\ Len(ms) = 3 + 2 * n
      /\ ms[1].path = RootfsMountPath /\ ms[2].path = ExecWrapperBinPath
      /\ ms[3].path = <<"bin">>
  <2>1. /\ ms \in Seq(MountSpec) /\ Len(ms) = 3 + 2 * n
        /\ \A k \in 1 .. 3 : ms[k] = SystemMounts[k]
      BY MountsBuilt
  <2>2. ms[1] = SystemMounts[1] /\ ms[2] = SystemMounts[2] /\ ms[3] = SystemMounts[3]
      BY <2>1
  <2> HIDE DEF ms
  <2> QED BY <2>1, <2>2, SystemTyped
<1>3. ASSUME NEW j \in 1 .. n
      PROVE  ms[2 + 2 * j].path = u[j].path /\ ms[3 + 2 * j].path = R(u[j].path)
  <2>1. /\ ms[2 + 2 * j] = Mount(UserName(u[j].name), u[j].path)
        /\ ms[3 + 2 * j] = Mount(UserName(u[j].name), R(u[j].path))
      BY MountsBuilt
  <2>2. ASSUME NEW a, NEW b PROVE Mount(a, b).path = b
      BY DEF Mount
  <2> HIDE DEF ms, R
  <2> QED BY <2>1, <2>2
<1>4. \A j, l \in 1 .. n : u[j].path = u[l].path => j = l
    BY OfElements
<1>5. ASSUME NEW j \in 1 .. n
      PROVE  /\ u[j].path \notin {RootfsMountPath, ExecWrapperBinPath, <<"bin">>}
             /\ R(u[j].path) \notin {RootfsMountPath, ExecWrapperBinPath, <<"bin">>}
             /\ \A l \in 1 .. n : /\ u[j].path # R(u[l].path)
                                  /\ R(u[j].path) = R(u[l].path) => j = l
  <2>1. /\ u[j].path \notin {<<>>, RootfsMountPath, ExecWrapperBinPath, <<"bin">>}
        /\ \A l \in 1 .. n : u[j].path # R(u[l].path)
      BY DEF MainMountsOK
  <2>2. R(u[j].path) # RootfsMountPath
      BY <1>1, <2>1, UserPrefixed
  <2>3. R(u[j].path) # ExecWrapperBinPath /\ R(u[j].path) # <<"bin">>
    <3>1. ASSUME NEW a \in Words, NEW b \in Words, NEW p \in Seq(Words), <<a>> \o p = <<b>>
          PROVE  a = b
        BY <3>1, Prefixed
    <3>2. {"rootfs", ".sc-bin", "bin"} \subseteq Words
        BY OwnWordsTyped DEF OwnWords
    <3> QED BY <1>1, <3>1, <3>2 DEF RootfsMountPath, ExecWrapperBinPath
  <2>4. ASSUME NEW l \in 1 .. n, R(u[j].path) = R(u[l].path) PROVE j = l
    <3>1. Tail(R(u[j].path)) = u[j].path /\ Tail(R(u[l].path)) = u[l].path
        BY <1>1, UserPrefixed, Zenon
    <3> QED BY <1>4, <2>4, <3>1, Zenon
  <2> QED BY <2>1, <2>2, <2>3, <2>4, Zenon
<1> HIDE DEF ms, R
<1>6. ASSUME NEW k \in 1 .. Len(ms)
      PROVE  k \in {1, 2, 3} \/ \E j \in 1 .. n : k = 2 + 2 * j \/ k = 3 + 2 * j
  <2>1. k = 2 + 2 * ((k - 2) \div 2) \/ k = 3 + 2 * ((k - 2) \div 2)
      BY <1>1, <1>2
  <2>2. k \in {1, 2, 3} \/ (k - 2) \div 2 \in 1 .. n
      BY <1>1, <1>2
  <2> QED BY <2>1, <2>2
<1>7. /\ RootfsMountPath # ExecWrapperBinPath /\ RootfsMountPath # <<"bin">>
      /\ ExecWrapperBinPath # <<"bin">>
    BY DEF RootfsMountPath, ExecWrapperBinPath
<1>8. ASSUME NEW k \in 1 .. Len(ms), NEW l \in 1 .. Len(ms), ms[k].path = ms[l].path
      PROVE  k = l
  <2> DEFINE own == {RootfsMountPath, ExecWrapperBinPath, <<"bin">>}
  <2>1. CASE k \in {1, 2, 3} /\ l \in {1, 2, 3}
    <3>1. ms[1].path # ms[2].path /\ ms[1].path # ms[3].path /\ ms[2].path # ms[3].path
        BY <1>2, <1>7
    <3> QED BY <1>8, <2>1, <3>1
  <2>2. ASSUME NEW x \in {1, 2, 3}, NEW j \in 1 .. n
        PROVE  ms[x].path # ms[2 + 2 * j].path /\ ms[x].path # ms[3 + 2 * j].path
    <3>1. ms[x].path \in own
        BY <1>2, Zenon
    <3>2. ms[2 + 2 * j].path \notin own /\ ms[3 + 2 * j].path \notin own
        BY <1>3, <1>5, Zenon
    <3> HIDE DEF own
    <3> QED BY <3>1, <3>2
  <2>3. ASSUME NEW j \in 1 .. n, NEW i \in 1 .. n,
               k = 2 + 2 * j \/ k = 3 + 2 * j, l = 2 + 2 * i \/ l = 3 + 2 * i
        PROVE  k = l
    <3>1. /\ u[j].path # R(u[i].path) /\ u[i].path # R(u[j].path)
          /\ u[j].path = u[i].path => j = i
          /\ R(u[j].path) = R(u[i].path) => j = i
        BY <1>4, <1>5
    <3>2. /\ ms[2 + 2 * j].path = u[j].path /\ ms[3 + 2 * j].path = R(u[j].path)
          /\ ms[2 + 2 * i].path = u[i].path /\ ms[3 + 2 * i].path = R(u[i].path)
        BY <1>3
    <3> QED BY <1>8, <2>3, <3>1, <3>2, Zenon
  <2> QED BY <1>6, <1>8, <2>1, <2>2, <2>3, Zenon
<1>9. ms \in Seq(MountSpec)
    BY <1>2
<1> QED BY <1>8, <1>9, OfElements DEF ms

\* A volume of the template is in the pod under the name its mounts get.
LEMMA UserVolumeThere ==
    ASSUME NEW u \in Seq(MountSpec), NEW v \in Seq(Seq(Words)), Distinct(v),
           Range(NamesOf(u)) \subseteq Range(v)
    PROVE  \A j \in 1 .. Len(u) : UserName(u[j].name) \in Range(buildVolumes(v))
<1>1. \A j \in 1 .. Len(u) : u[j].name \in Range(v)
    BY OfElements
<1>2. \A n \in Range(v) : UserName(n) \in Range(buildVolumes(v))
    BY VolumesBuilt
<1> QED BY <1>1, <1>2

\* The main container fits the pod.
LEMMA MainFits ==
    ASSUME NEW u \in Seq(MountSpec), NEW v \in Seq(Seq(Words)), Distinct(v),
           MountsFit(u, v), MainMountsOK(u)
    PROVE  MountsFit(buildVolumeMounts(u), buildVolumes(v))
<1> DEFINE ms == buildVolumeMounts(u)
           V == Range(buildVolumes(v))
           n == Len(u)
<1>1. Distinct(PathsOf(ms))
    BY MainPathsDistinct DEF MountsFit
<1>2. \A j \in 1 .. n : UserName(u[j].name) \in V
    BY UserVolumeThere DEF MountsFit
<1>3. \A k \in 1 .. 3 : SystemVolumes[k] \in V
    BY VolumesBuilt
<1>4. /\ ms \in Seq(MountSpec) /\ Len(ms) = 3 + 2 * n /\ n \in Nat
      /\ \A k \in 1 .. 3 : ms[k] = SystemMounts[k]
  <2>1. n \in Nat
      OBVIOUS
  <2> QED BY <2>1, MountsBuilt, Zenon
<1>5. ASSUME NEW j \in 1 .. n
      PROVE  /\ ms[2 + 2 * j].name = UserName(u[j].name)
             /\ ms[3 + 2 * j].name = UserName(u[j].name)
  <2>1. /\ ms[2 + 2 * j] = Mount(UserName(u[j].name), u[j].path)
        /\ ms[3 + 2 * j] = Mount(UserName(u[j].name), RootfsMountPath \o u[j].path)
      BY MountsBuilt
  <2>2. ASSUME NEW a, NEW b PROVE Mount(a, b).name = a
      BY DEF Mount
  <2> HIDE DEF ms
  <2> QED BY <2>1, <2>2, Zenon
<1> HIDE DEF ms, V
<1>6. \A k \in 1 .. 3 : ms[k].name \in V
    BY <1>3, <1>4, SystemTyped
<1>7. ASSUME NEW k \in 1 .. Len(ms) PROVE ms[k].name \in V
  <2>1. k = 2 + 2 * ((k - 2) \div 2) \/ k = 3 + 2 * ((k - 2) \div 2)
      BY <1>4
  <2>2. k \in 1 .. 3 \/ (k - 2) \div 2 \in 1 .. n
      BY <1>4
  <2>3. ASSUME NEW j \in 1 .. n, k = 2 + 2 * j \/ k = 3 + 2 * j PROVE ms[k].name \in V
      BY <1>2, <1>5, <2>3, Zenon
  <2> QED BY <1>6, <2>1, <2>2, <2>3
<1>8. Range(NamesOf(ms)) \subseteq V
  <2>1. Range(NamesOf(ms)) = {ms[k].name : k \in 1 .. Len(ms)}
      BY <1>4, OfElements, Zenon
  <2> QED BY <1>7, <2>1
<1> QED BY <1>1, <1>8 DEF MountsFit, ms, V

\* An init container of the pod.
InitSpec == [name : Seq(Words), mounts : Seq(MountSpec)]

\* What the builder makes of the mounts of a user's init container.
Renamed(mounts) == [j \in DOMAIN mounts |-> Mount(UserName(mounts[j].name), mounts[j].path)]

\* A user's init container fits the pod.
LEMMA RenamedFits ==
    ASSUME NEW u \in Seq(MountSpec), NEW v \in Seq(Seq(Words)), Distinct(v)
    PROVE  /\ Renamed(u) \in Seq(MountSpec)
           /\ MountsFit(u, v) => MountsFit(Renamed(u), buildVolumes(v))
<1> DEFINE r == Renamed(u)
           f(j) == Mount(UserName(u[j].name), u[j].path)
<1>1. DOMAIN u = 1 .. Len(u) /\ Len(u) \in Nat /\ \A j \in 1 .. Len(u) : u[j] \in MountSpec
    OBVIOUS
<1>2. \A n \in Seq(Words) : UserName(n) \in Seq(Words)
    BY UserPrefixed
<1>3. ASSUME NEW j \in 1 .. Len(u)
      PROVE  f(j) \in MountSpec /\ f(j).name = UserName(u[j].name) /\ f(j).path = u[j].path
  <2>1. u[j].name \in Seq(Words) /\ u[j].path \in Seq(Words)
      BY <1>1 DEF MountSpec
  <2> QED BY <1>2, <2>1 DEF Mount, MountSpec
<1>4. r = [j \in 1 .. Len(u) |-> f(j)]
    BY <1>1 DEF Renamed
<1> HIDE DEF f, r
<1>5. r \in Seq(MountSpec) /\ Len(r) = Len(u) /\ \A j \in 1 .. Len(u) : r[j] = f(j)
    BY <1>1, <1>3, <1>4
<1>6. \A j \in 1 .. Len(u) : r[j].name = UserName(u[j].name) /\ r[j].path = u[j].path
    BY <1>3, <1>5
<1>7. ASSUME MountsFit(u, v) PROVE MountsFit(r, buildVolumes(v))
  <2>1. Distinct(PathsOf(u)) /\ Range(NamesOf(u)) \subseteq Range(v)
      BY <1>7 DEF MountsFit
  <2>2. \A k, l \in 1 .. Len(u) : u[k].path = u[l].path => k = l
      BY <2>1, OfElements
  <2>3. \A k, l \in 1 .. Len(r) : r[k].path = r[l].path => k = l
      BY <1>5, <1>6, <2>2
  <2>4. Distinct(PathsOf(r))
      BY <1>5, <2>3, OfElements
  <2>5. \A j \in 1 .. Len(u) : UserName(u[j].name) \in Range(buildVolumes(v))
      BY <2>1, UserVolumeThere
  <2>6. \A j \in 1 .. Len(r) : r[j].name \in Range(buildVolumes(v))
      BY <1>5, <1>6, <2>5
  <2>7. Range(NamesOf(r)) = {r[j].name : j \in 1 .. Len(r)}
      BY <1>5, OfElements
  <2> QED BY <2>4, <2>6, <2>7 DEF MountsFit
<1> QED BY <1>5, <1>7 DEF r

\* So does the builder's init container.
LEMMA ExecWrapperInitFits ==
    ASSUME NEW v \in Seq(Seq(Words)), Distinct(v)
    PROVE  /\ ExecWrapperInit \in InitSpec
           /\ MountsFit(ExecWrapperInit.mounts, buildVolumes(v))
<1> DEFINE a == Mount(ExecWrapperVolumeName, ExecWrapperBinPath)
           b == Mount(BinOverlayVolumeName, <<"sc-bin-overlay">>)
           ms == ExecWrapperInit.mounts
           V == Range(buildVolumes(v))
<1>1. /\ <<"exec-wrapper-init">> \in Seq(Words) /\ <<"sc-bin-overlay">> \in Seq(Words)
      /\ <<".sc-bin">> \in Seq(Words) /\ <<"sc-exec-wrapper">> \in Seq(Words)
    BY OwnWordsTyped DEF OwnWords
<1>2. ASSUME NEW n \in Seq(Words), NEW p \in Seq(Words)
      PROVE  Mount(n, p) \in MountSpec /\ Mount(n, p).name = n /\ Mount(n, p).path = p
    BY DEF Mount, MountSpec
<1>3. /\ a \in MountSpec /\ a.name = ExecWrapperVolumeName /\ a.path = <<".sc-bin">>
      /\ b \in MountSpec /\ b.name = BinOverlayVolumeName /\ b.path = <<"sc-bin-overlay">>
    BY <1>1, <1>2, Zenon
       DEF ExecWrapperVolumeName, BinOverlayVolumeName, ExecWrapperBinPath
<1>4. ExecWrapperInit = [name |-> <<"exec-wrapper-init">>, mounts |-> <<a, b>>]
    BY DEF ExecWrapperInit
<1>5. ExecWrapperVolumeName \in V /\ BinOverlayVolumeName \in V
  <2>1. SystemVolumes[2] \in V /\ SystemVolumes[3] \in V
      BY VolumesBuilt
  <2> HIDE DEF V
  <2> QED BY <2>1, SystemTyped
<1> HIDE DEF a, b, V
<1>6. <<a, b>> \in Seq(MountSpec) /\ Len(<<a, b>>) = 2 /\ <<a, b>>[1] = a /\ <<a, b>>[2] = b
    BY <1>3
<1>7. ExecWrapperInit \in InitSpec /\ ms = <<a, b>>
    BY <1>1, <1>4, <1>6 DEF InitSpec
<1> HIDE DEF ms
<1>8. ms \in Seq(MountSpec) /\ Len(ms) = 2 /\ ms[1] = a /\ ms[2] = b
    BY <1>6, <1>7
<1>9. 1 .. 2 = {1, 2} /\ <<".sc-bin">> # <<"sc-bin-overlay">>
    OBVIOUS
<1>10. \A k, l \in 1 .. Len(ms) : ms[k].path = ms[l].path => k = l
    BY <1>3, <1>8, <1>9
<1>11. \A k \in 1 .. Len(ms) : ms[k].name \in V
    BY <1>3, <1>5, <1>8, <1>9
<1>12. /\ Range(NamesOf(ms)) = {ms[k].name : k \in 1 .. Len(ms)}
       /\ Distinct(PathsOf(ms))
  <2>1. ms \in Seq(MountSpec)
      BY <1>8
  <2> QED BY <1>10, <2>1, OfElements
<1> QED BY <1>7, <1>11, <1>12, Zenon DEF MountsFit, ms, V

\* The init containers of the pod: the builder's, then the user's.
LEMMA InitsBuilt ==
    ASSUME NEW u \in Seq(ContainerSpec)
    PROVE  LET is == buildInitContainers(u)
           IN  /\ is \in Seq(InitSpec) /\ Len(is) = 1 + Len(u) /\ is[1] = ExecWrapperInit
               /\ \A i \in 1 .. Len(u) : /\ is[1 + i].name = UserName(u[i].name)
                                         /\ is[1 + i].mounts = Renamed(u[i].mounts)
<1> DEFINE f(i) == [name |-> UserName(u[i].name), mounts |-> Renamed(u[i].mounts)]
           us == [i \in 1 .. Len(u) |-> f(i)]
           one == <<ExecWrapperInit>>
           is == one \o us
<1>1. DOMAIN u = 1 .. Len(u) /\ Len(u) \in Nat
    OBVIOUS
<1>2. ASSUME NEW i \in 1 .. Len(u) PROVE f(i) \in InitSpec
  <2>1. u[i].name \in Seq(Words) /\ u[i].mounts \in Seq(MountSpec)
    <3>1. \A c \in ContainerSpec : c.name \in Seq(Words) /\ c.mounts \in Seq(MountSpec)
        BY DEF ContainerSpec
    <3> QED BY <3>1
  <2>2. <<>> \in Seq(Seq(Words)) /\ Distinct(<<>>)
      BY DEF Distinct
  <2>3. Renamed(u[i].mounts) \in Seq(MountSpec)
      BY <2>1, <2>2, RenamedFits, Zenon
  <2> QED BY <2>1, <2>3, UserPrefixed DEF InitSpec
<1>3. \A i \in 1 .. Len(u) : f(i).name = UserName(u[i].name) /\ f(i).mounts = Renamed(u[i].mounts)
    OBVIOUS
<1>4. buildInitContainers(u) = is
  <2>1. buildInitContainers(u) = one \o [i \in DOMAIN u |-> f(i)]
      BY Zenon DEF buildInitContainers, Renamed
  <2> QED BY <1>1, <2>1, Zenon
<1> HIDE DEF f
<1>5. us \in Seq(InitSpec) /\ Len(us) = Len(u) /\ \A i \in 1 .. Len(u) : us[i] = f(i)
    BY <1>1, <1>2
<1>6. one \in Seq(InitSpec) /\ Len(one) = 1 /\ one[1] = ExecWrapperInit
  <2>1. <<>> \in Seq(Seq(Words)) /\ Distinct(<<>>)
      BY DEF Distinct
  <2>2. ExecWrapperInit \in InitSpec
      BY <2>1, ExecWrapperInitFits, Zenon
  <2> QED BY <2>2
<1> HIDE DEF us, one
<1>7. /\ is \in Seq(InitSpec) /\ Len(is) = Len(one) + Len(us)
      /\ \A k \in 1 .. Len(one) : is[k] = one[k]
      /\ \A i \in 1 .. Len(us) : is[Len(one) + i] = us[i]
  <2>1. one \in Seq(InitSpec) /\ us \in Seq(InitSpec)
      BY <1>5, <1>6
  <2> QED BY <2>1, Concatenated
<1> HIDE DEF is
<1>8. is \in Seq(InitSpec) /\ Len(is) = 1 + Len(u) /\ is[1] = ExecWrapperInit
    BY <1>5, <1>6, <1>7
<1>9. \A i \in 1 .. Len(u) : is[1 + i] = f(i)
    BY <1>5, <1>6, <1>7
<1> QED BY <1>3, <1>4, <1>8, <1>9

\* Two sequences without a repeated name and without a common one.
LEMMA DistinctNames ==
    ASSUME NEW S, \A x \in S : x.name \in Seq(Words), NEW s \in Seq(S), NEW t \in Seq(S),
           Distinct(NamesOf(s)), Distinct(NamesOf(t)),
           \A i \in 1 .. Len(s), j \in 1 .. Len(t) : s[i].name # t[j].name
    PROVE  Distinct(NamesOf(s \o t))
<1> DEFINE N == Seq(Words)
           a == NamesOf(s)
           b == NamesOf(t)
<1> HIDE DEF N
<1>1. \A x \in S : x.name \in N
    BY DEF N
<1>2. a \in Seq(N) /\ Len(a) = Len(s) /\ \A i \in 1 .. Len(s) : a[i] = s[i].name
    BY <1>1, NamesTyped, Zenon
<1>3. b \in Seq(N) /\ Len(b) = Len(t) /\ \A i \in 1 .. Len(t) : b[i] = t[i].name
    BY <1>1, NamesTyped, Zenon
<1>4. Distinct(a) /\ Distinct(b) /\ a \in Seq(N) /\ b \in Seq(N)
    BY <1>2, <1>3
<1>5. NamesOf(s \o t) = a \o b
    BY NamesConcat, Zenon
<1> HIDE DEF a, b
<1>6. \A i \in 1 .. Len(a), j \in 1 .. Len(b) : a[i] # b[j]
    BY <1>2, <1>3
<1>7. Distinct(a \o b)
    BY <1>4, <1>6, DistinctConcat
<1> QED BY <1>5, <1>7

\* The init containers' names: the builder's is no user's.
LEMMA InitNamesDistinct ==
    ASSUME NEW u \in Seq(ContainerSpec), Distinct(NamesOf(u))
    PROVE  /\ Distinct(NamesOf(buildInitContainers(u)))
           /\ \A k \in 1 .. Len(buildInitContainers(u)) :
                 /\ buildInitContainers(u)[k].name # <<"consumer">>
                 /\ \/ buildInitContainers(u)[k].name = <<"exec-wrapper-init">>
                    \/ \E i \in 1 .. Len(u) :
                           buildInitContainers(u)[k].name = UserName(u[i].name)
<1> DEFINE is == buildInitContainers(u)
<1>1. /\ is \in Seq(InitSpec) /\ Len(is) = 1 + Len(u) /\ is[1] = ExecWrapperInit
      /\ \A i \in 1 .. Len(u) : is[1 + i].name = UserName(u[i].name)
    BY InitsBuilt
<1> HIDE DEF is
<1>2. is[1].name = <<"exec-wrapper-init">>
    BY <1>1 DEF ExecWrapperInit
<1>3. \A i \in 1 .. Len(u) : u[i].name \in Seq(Words)
  <2>1. \A c \in ContainerSpec : c.name \in Seq(Words)
      BY DEF ContainerSpec
  <2> QED BY <2>1
<1>4. ASSUME NEW i \in 1 .. Len(u)
      PROVE  /\ is[1 + i].name # <<"exec-wrapper-init">> /\ is[1 + i].name # <<"consumer">>
             /\ \A j \in 1 .. Len(u) : is[1 + i].name = is[1 + j].name => i = j
  <2>1. \A w \in OwnWords \ {"user"} : UserName(u[i].name) # <<w>>
      BY <1>3, UserNameFresh
  <2>2. \A j \in 1 .. Len(u) : UserName(u[i].name) = UserName(u[j].name) => u[i].name = u[j].name
      BY <1>3, UserNameFresh
  <2>3. \A j \in 1 .. Len(u) : u[i].name = u[j].name => i = j
      BY OfElements
  <2>4. UserName(u[i].name) # <<"exec-wrapper-init">> /\ UserName(u[i].name) # <<"consumer">>
      BY <2>1 DEF OwnWords
  <2>5. \A j \in 1 .. Len(u) : is[1 + j].name = UserName(u[j].name)
      BY <1>1
  <2> QED BY <2>2, <2>3, <2>4, <2>5, Zenon
<1>5. ASSUME NEW k \in 1 .. Len(is)
      PROVE  k = 1 \/ \E i \in 1 .. Len(u) : k = 1 + i
  <2>1. Len(u) \in Nat
      OBVIOUS
  <2>2. k = 1 \/ (k - 1 \in 1 .. Len(u) /\ k = 1 + (k - 1))
      BY <1>1, <2>1
  <2> QED BY <2>2
<1>6. ASSUME NEW k \in 1 .. Len(is), NEW l \in 1 .. Len(is), is[k].name = is[l].name
      PROVE  k = l
  <2>1. \A i \in 1 .. Len(u) : is[1].name # is[1 + i].name
      BY <1>2, <1>4, Zenon
  <2>2. \A i, j \in 1 .. Len(u) : is[1 + i].name = is[1 + j].name => i = j
      BY <1>4, Zenon
  <2> QED BY <1>5, <1>6, <2>1, <2>2, Zenon
<1>7. Distinct(NamesOf(is))
  <2>1. is \in Seq(InitSpec)
      BY <1>1
  <2> QED BY <1>6, <2>1, OfElements
<1>8. <<"exec-wrapper-init">> # <<"consumer">>
    OBVIOUS
<1>9. \A k \in 1 .. Len(is) :
          /\ is[k].name # <<"consumer">>
          /\ \/ is[k].name = <<"exec-wrapper-init">>
             \/ \E i \in 1 .. Len(u) : is[k].name = UserName(u[i].name)
  <2>1. \A i \in 1 .. Len(u) : is[1 + i].name = UserName(u[i].name)
      BY <1>1
  <2> QED BY <1>2, <1>4, <1>5, <1>8, <2>1, ZenonT(30)
<1> QED BY <1>7, <1>9 DEF is

\* What Build makes of a template, container by container.
LEMMA PodBuilt ==
    ASSUME NEW t, TemplateOK(t), Rewritable(t), NEW p, p = Build("x", t)
    PROVE  LET cs == <<p.main>> \o p.initContainers \o p.sidecars
           IN  /\ Distinct(p.volumes) /\ Distinct(NamesOf(cs))
               /\ \A i \in DOMAIN cs : MountsFit(cs[i].mounts, p.volumes)
<1> DEFINE u == MainOf(t).mounts
           ui == t.initContainers
           v == t.volumes
           m == p.main
           is == p.initContainers
           sc == p.sidecars
           vs == p.volumes
           S == {m} \cup InitSpec \cup ContainerSpec
           one == <<m>>
           mi == one \o is
           cs == mi \o sc
<1>1. u \in Seq(MountSpec) /\ ui \in Seq(ContainerSpec) /\ v \in Seq(Seq(Words))
    BY MainTyped DEF TemplateOK
<1>2. /\ m.name = <<"consumer">> /\ m.mounts = buildVolumeMounts(u)
      /\ is = buildInitContainers(ui) /\ vs = buildVolumes(v) /\ sc = Sidecars(t)
    BY DEF Build, BuildWithPolicyOf, Sidecars
<1>3. /\ Distinct(v) /\ Distinct(NamesOf(ui)) /\ Distinct(NamesOf(sc))
      /\ MountsFit(u, v) /\ MainMountsOK(u)
      /\ \A i \in 1 .. Len(ui) : MountsFit(ui[i].mounts, v)
      /\ \A i \in 1 .. Len(sc) : SidecarOK(sc[i], ui)
    BY <1>2 DEF Rewritable
<1>4. sc \in Seq(ContainerSpec)
  <2>1. t.containers \in Seq(ContainerSpec)
      BY DEF TemplateOK
  <2>2. t.containers # <<>> => Tail(t.containers) \in Seq(ContainerSpec)
      BY <2>1
  <2>3. Sidecars(t) \in Seq(ContainerSpec)
      BY <2>2, EmptySeq, Zenon DEF Sidecars
  <2> HIDE DEF sc
  <2> QED BY <1>2, <2>3
<1> HIDE DEF u, ui, v, m, is, sc, vs
<1>5. Distinct(vs)
    BY <1>1, <1>2, <1>3, VolumesBuilt
<1>6. /\ is \in Seq(InitSpec) /\ Len(is) = 1 + Len(ui) /\ is[1] = ExecWrapperInit
      /\ \A i \in 1 .. Len(ui) : is[1 + i].mounts = Renamed(ui[i].mounts)
    BY <1>1, <1>2, InitsBuilt
<1>7. \A x \in S : x.name \in Seq(Words)
  <2>1. m.name \in Seq(Words)
      BY <1>2, OwnWordsTyped DEF OwnWords
  <2> QED BY <2>1 DEF InitSpec, ContainerSpec
<1>8. one \in Seq(S) /\ is \in Seq(S) /\ sc \in Seq(S) /\ Len(one) = 1 /\ one[1] = m
  <2>1. m \in S /\ InitSpec \subseteq S /\ ContainerSpec \subseteq S
      OBVIOUS
  <2> HIDE DEF S
  <2> QED BY <1>4, <1>6, <2>1
<1> HIDE DEF S, one
<1>9. /\ mi \in Seq(S) /\ Len(mi) = Len(one) + Len(is)
      /\ \A k \in 1 .. Len(one) : mi[k] = one[k]
      /\ \A i \in 1 .. Len(is) : mi[Len(one) + i] = is[i]
  <2>1. one \in Seq(S) /\ is \in Seq(S)
      BY <1>8
  <2> QED BY <2>1, Concatenated
<1>10. ASSUME NEW k \in 1 .. Len(mi) PROVE mi[k] = m \/ \E i \in 1 .. Len(is) : mi[k] = is[i]
  <2>1. Len(is) \in Nat
      BY <1>8
  <2>2. k = 1 \/ (k - 1 \in 1 .. Len(is) /\ k = 1 + (k - 1))
      BY <1>8, <1>9, <2>1
  <2>3. CASE k = 1
      BY <1>8, <1>9, <2>3
  <2>4. ASSUME NEW i \in 1 .. Len(is), k = 1 + i PROVE mi[k] = is[i]
      BY <1>8, <1>9, <2>4
  <2> QED BY <2>2, <2>3, <2>4
<1>11. /\ Distinct(NamesOf(is))
       /\ \A k \in 1 .. Len(is) :
             /\ is[k].name # <<"consumer">>
             /\ \/ is[k].name = <<"exec-wrapper-init">>
                \/ \E i \in 1 .. Len(ui) : is[k].name = UserName(ui[i].name)
    BY <1>1, <1>2, <1>3, InitNamesDistinct, Zenon
<1>12. Distinct(NamesOf(mi))
  <2>1. \A k, l \in 1 .. Len(one) : one[k].name = one[l].name => k = l
      BY <1>8
  <2>2. Distinct(NamesOf(one))
      BY <1>8, <2>1, OfElements
  <2>3. \A i \in 1 .. Len(one), j \in 1 .. Len(is) : one[i].name # is[j].name
      BY <1>2, <1>8, <1>11
  <2>4. one \in Seq(S) /\ is \in Seq(S) /\ Distinct(NamesOf(is))
      BY <1>8, <1>11
  <2> QED BY <1>7, <2>2, <2>3, <2>4, DistinctNames
<1> HIDE DEF mi
<1>13. Distinct(NamesOf(cs))
  <2>1. ASSUME NEW k \in 1 .. Len(mi), NEW j \in 1 .. Len(sc) PROVE mi[k].name # sc[j].name
    <3>1. /\ sc[j].name # <<"consumer">> /\ sc[j].name # <<"exec-wrapper-init">>
          /\ \A i \in 1 .. Len(ui) : sc[j].name # UserName(ui[i].name)
        BY <1>3, Zenon DEF SidecarOK
    <3> QED BY <1>2, <1>10, <1>11, <3>1, ZenonT(30)
  <2>2. mi \in Seq(S) /\ sc \in Seq(S)
      BY <1>8, <1>9
  <2> QED BY <1>3, <1>7, <1>12, <2>1, <2>2, DistinctNames
<1>14. MountsFit(m.mounts, vs)
    BY <1>1, <1>2, <1>3, MainFits
<1>15. ASSUME NEW k \in 1 .. Len(is) PROVE MountsFit(is[k].mounts, vs)
  <2>1. MountsFit(ExecWrapperInit.mounts, vs)
      BY <1>1, <1>2, <1>3, ExecWrapperInitFits
  <2>2. ASSUME NEW i \in 1 .. Len(ui) PROVE MountsFit(Renamed(ui[i].mounts), vs)
    <3>1. ui[i].mounts \in Seq(MountSpec)
      <4>1. \A c \in ContainerSpec : c.mounts \in Seq(MountSpec)
          BY DEF ContainerSpec
      <4> QED BY <1>1, <4>1
    <3> QED BY <1>1, <1>2, <1>3, <3>1, RenamedFits
  <2>3. Len(ui) \in Nat
      BY <1>1
  <2>4. k = 1 \/ (k - 1 \in 1 .. Len(ui) /\ k = 1 + (k - 1))
      BY <1>6, <2>3
  <2> QED BY <1>6, <2>1, <2>2, <2>4, Zenon
<1>16. ASSUME NEW j \in 1 .. Len(sc) PROVE MountsFit(sc[j].mounts, vs)
  <2>1. sc[j].mounts = <<>>
      BY <1>3 DEF SidecarOK
  <2>2. DOMAIN PathsOf(<<>>) = {} /\ DOMAIN NamesOf(<<>>) = {}
      BY DEF NamesOf, PathsOf
  <2>3. Distinct(PathsOf(<<>>)) /\ Range(NamesOf(<<>>)) = {}
      BY <2>2, Zenon DEF Distinct, Range
  <2> QED BY <2>1, <2>3, Zenon DEF MountsFit
<1>17. ASSUME NEW k \in DOMAIN cs PROVE MountsFit(cs[k].mounts, vs)
  <2>1. mi \in Seq(S) /\ sc \in Seq(S)
      BY <1>8, <1>9
  <2>2. /\ cs \in Seq(S) /\ Len(cs) = Len(mi) + Len(sc)
        /\ \A l \in 1 .. Len(mi) : cs[l] = mi[l]
        /\ \A i \in 1 .. Len(sc) : cs[Len(mi) + i] = sc[i]
      BY <2>1, Concatenated
  <2>3. Len(mi) \in Nat /\ Len(sc) \in Nat
      BY <2>1
  <2> HIDE DEF cs
  <2>4. k \in 1 .. Len(mi) \/ (k - Len(mi) \in 1 .. Len(sc) /\ k = Len(mi) + (k - Len(mi)))
      BY <2>2, <2>3
  <2>5. CASE k \in 1 .. Len(mi)
      BY <1>10, <1>14, <1>15, <2>2, <2>5
  <2>6. ASSUME NEW j \in 1 .. Len(sc), k = Len(mi) + j PROVE MountsFit(cs[k].mounts, vs)
      BY <1>16, <2>2, <2>6
  <2> QED BY <2>4, <2>5, <2>6
<1> QED BY <1>5, <1>13, <1>17, Zenon DEF vs, sc, is, m, one, mi

\* The pod is one the API server accepts and the controllers find, for every
\* template that is a pod by itself up to the places the builder takes.
THEOREM PodAccepted ==
    ASSUME \A t \in Templates : Rewritable(t) PROVE Spec => []PodWellFormed
<1>1. ASSUME ConsumerTypeInv PROVE PodWellFormed
  <2>1. pod = Build("x", template) /\ TemplateOK(template) /\ Rewritable(template)
      BY <1>1, TemplatesAssumption DEF ConsumerTypeInv
  <2>2. pod.labels["instance"] = pod.name /\ pod.labels["role"] = "consumer"
      BY <2>1 DEF Build, BuildWithPolicyOf, buildLabels
  <2> QED BY <2>1, <2>2, PodBuilt, Zenon DEF PodWellFormed, MountsFit
<1>2. Spec => []ConsumerTypeInv
    BY ConsumerCorrect, PTL DEF ConsumerInv
<1> QED BY <1>1, <1>2, PTL
=============================================================================
