---------------------------- MODULE MountProofs -----------------------------
(***************************************************************************)
(* Proofs about RootfsMount, for any number of directories and any         *)
(* budgets.                                                                *)
(***************************************************************************)
EXTENDS RootfsMount, TLAPS

\* Pods are numbered as they replace each other.
PodsBounded == \A d \in Dirs : prov[d].pod + left["replace"] <= MountBudget["replace"] + 1

MountTypeInv == MountTypeOK /\ PodsBounded

\* The numbers below are natural numbers.
LEMMA MountNat ==
    /\ DirCount \in Nat /\ 1 \in Dirs /\ MountBudget["replace"] \in Nat
    /\ 1 \in Pods /\ Pods \subseteq Nat /\ Dirs \subseteq Nat
    BY DirCountAssumption, MountBudgetAssumption DEF Dirs, Pods, MountOps

\* The directory the helper goes to next is one of them.
LEMMA NextDirTyped == \A d \in Dirs : NextDir(d) \in Dirs
    BY MountNat DEF NextDir, Dirs

\* An idle helper and a new provider are well formed.
LEMMA FreshTyped ==
    /\ \A d \in Dirs : IdleAt(d) \in MountHelper
    /\ \A p \in Pods : FreshProvider(p) \in ProviderPod /\ FreshProvider(p).pod = p
    BY DEF IdleAt, FreshProvider, MountHelper, ProviderPod, Attempts

\* An attempt that fails leaves a well-formed provider: there are three.
LEMMA AttemptTyped ==
    ASSUME NEW p \in ProviderPod, NEW error \in BOOLEAN
    PROVE  AttemptFails(p, error) \in ProviderPod /\ AttemptFails(p, error).pod = p.pod
<1> DEFINE failed == p.lastError \/ error
<1>1. failed \in BOOLEAN
    OBVIOUS
<1>2. CASE p.attempt < Attempts
  <2>1. p.attempt + 1 \in 1 .. Attempts
      BY <1>2 DEF ProviderPod, Attempts
  <2>2. AttemptFails(p, error) =
            [p EXCEPT !.lastError = failed, !.attempt = p.attempt + 1, !.pc = "retry"]
      BY <1>2 DEF AttemptFails, AttemptEnds
  <2> QED BY <1>1, <2>1, <2>2, Zenon DEF ProviderPod
<1>3. CASE ~(p.attempt < Attempts)
  <2> DEFINE next == IF failed THEN "exited" ELSE "mark"
  <2>1. next \in {"exited", "mark"}
      OBVIOUS
  <2>2. AttemptFails(p, error) = [p EXCEPT !.lastError = failed, !.pc = next]
      BY <1>3 DEF AttemptFails, AttemptEnds
  <2> HIDE DEF failed, next
  <2> QED BY <1>1, <2>1, <2>2 DEF ProviderPod
<1> QED BY <1>2, <1>3

\* What is spent is a budget that was left.
LEMMA SpendTyped ==
    ASSUME MountTypeOK, NEW op \in MountOps, Spend(op)
    PROVE  /\ left' \in [MountOps -> Nat] /\ left'[op] = left[op] - 1 /\ left[op] > 0
           /\ \A o \in MountOps \ {op} : left'[o] = left[o]
    BY DEF MountTypeOK, Spend

\* A provider is changed without a change of pod.
LEMMA ProviderChange ==
    ASSUME MountTypeInv, NEW d \in Dirs, NEW r \in ProviderPod, r.pod = prov[d].pod,
           SetProv(d, r), left' \in [MountOps -> Nat],
           left'["replace"] = left["replace"]
    PROVE  prov' \in [Dirs -> ProviderPod] /\ PodsBounded'
    BY DEF MountTypeInv, MountTypeOK, PodsBounded, SetProv

\* A directory is changed.
LEMMA DirChange ==
    ASSUME MountTypeOK, NEW d \in Dirs, NEW r \in Directory, SetDir(d, r)
    PROVE  dir' \in [Dirs -> Directory]
    BY DEF MountTypeOK, SetDir

\* The steps of providers, their containers and their pods keep the types.
LEMMA ProviderTyped ==
    ASSUME MountTypeInv, NEW d \in Dirs,
           \/ Provider(d) \/ ProviderCannotWrite(d) \/ ProviderTimesOut(d)
           \/ ProviderRestarts(d) \/ RootfsContainerStarts(d) \/ PodReplaced(d)
    PROVE  MountTypeInv'
<1>1. /\ MountTypeOK /\ dir[d] \in Directory /\ prov[d] \in ProviderPod
      /\ prov[d].pod \in Pods /\ left \in [MountOps -> Nat]
    BY DEF MountTypeInv, MountTypeOK, ProviderPod
<1>2. ASSUME NEW p \in ProviderPod, NEW pc \in {"begin", "write", "poll", "mark", "up"}
      PROVE  [p EXCEPT !.pc = pc] \in ProviderPod /\ [p EXCEPT !.pc = pc].pod = p.pod
    BY DEF ProviderPod
<1>3. ASSUME NEW r \in Directory, SetDir(d, r), NEW pc \in {"begin", "write", "poll"},
             SetProv(d, [prov[d] EXCEPT !.pc = pc]), helper' = helper, left' = left,
             served' \in [Dirs -> BOOLEAN]
      PROVE  MountTypeInv'
    BY <1>1, <1>2, <1>3, ProviderChange, DirChange DEF MountTypeInv, MountTypeOK
<1>4. ASSUME NEW r \in ProviderPod, r.pod = prov[d].pod, SetProv(d, r),
             dir' \in [Dirs -> Directory], helper' = helper, served' = served,
             left' \in [MountOps -> Nat], left'["replace"] = left["replace"]
      PROVE  MountTypeInv'
    BY <1>4, ProviderChange DEF MountTypeInv, MountTypeOK
<1>5. served \in [Dirs -> BOOLEAN] /\ dir \in [Dirs -> Directory]
    BY <1>1 DEF MountTypeOK
<1>6. CASE ProviderClearsReady(d)
  <2>1. [dir[d] EXCEPT !.ready = None] \in Directory
      BY <1>1 DEF Directory
  <2> QED BY <1>3, <1>5, <1>6, <2>1 DEF ProviderClearsReady
<1>7. CASE ProviderOpensRequest(d)
  <2>1. [dir[d] EXCEPT !.request = Torn, !.newer = FALSE] \in Directory
      BY <1>1 DEF Directory
  <2> QED BY <1>3, <1>5, <1>7, <2>1 DEF ProviderOpensRequest
<1>8. CASE ProviderWritesRequest(d)
  <2>1. RequestWritten(d) \in Directory
      BY <1>1 DEF Directory, RequestWritten
  <2> QED BY <1>3, <1>5, <1>8, <2>1 DEF ProviderWritesRequest
<1>9. CASE ProviderReadsError(d)
    BY <1>1, <1>4, <1>5, <1>9, AttemptTyped DEF ProviderReadsError
<1>10. CASE ProviderReadsReady(d)
  <2>1. [prov[d] EXCEPT !.pc = "mark", !.lastError = FALSE] \in ProviderPod
      BY <1>1 DEF ProviderPod
  <2>2. [prov[d] EXCEPT !.pc = "mark", !.lastError = FALSE].pod = prov[d].pod
      BY <1>1 DEF ProviderPod
  <2> QED BY <1>1, <1>4, <1>5, <1>10, <2>1, <2>2, AttemptTyped
             DEF ProviderReadsReady
<1>11. CASE ProviderWritesMarker(d)
  <2>1. [dir[d] EXCEPT !.marker = TRUE] \in Directory
      BY <1>1 DEF Directory
  <2>2. dir' \in [Dirs -> Directory]
      BY <1>1, <1>5, <1>11, <2>1, DirChange DEF ProviderWritesMarker
  <2>3. left' \in [MountOps -> Nat] /\ left'["replace"] = left["replace"]
      BY <1>1, <1>11, SpendTyped DEF ProviderWritesMarker, MountOps
  <2> QED BY <1>1, <1>2, <1>4, <1>11, <2>2, <2>3 DEF ProviderWritesMarker
<1>12. CASE ProviderCannotWrite(d)
  <2>1. left' \in [MountOps -> Nat] /\ left'["replace"] = left["replace"]
      BY <1>1, <1>12, SpendTyped DEF ProviderCannotWrite, MountOps
  <2> QED BY <1>1, <1>4, <1>5, <1>12, <2>1, AttemptTyped DEF ProviderCannotWrite
<1>13. CASE ProviderTimesOut(d)
  <2>1. left' \in [MountOps -> Nat] /\ left'["replace"] = left["replace"]
      BY <1>1, <1>13, SpendTyped DEF ProviderTimesOut, MountOps
  <2> QED BY <1>1, <1>4, <1>5, <1>13, <2>1, AttemptTyped DEF ProviderTimesOut
<1>14. CASE ProviderRestarts(d)
  <2>1. left' \in [MountOps -> Nat] /\ left'["replace"] = left["replace"]
      BY <1>1, <1>14, SpendTyped DEF ProviderRestarts, MountOps
  <2> DEFINE r == [FreshProvider(prov[d].pod) EXCEPT !.up = prov[d].up]
  <2>2. r \in ProviderPod /\ r.pod = prov[d].pod
      BY <1>1, FreshTyped DEF ProviderPod
  <2>3. SetProv(d, r) /\ UNCHANGED <<dir, helper, served>>
      BY <1>14 DEF ProviderRestarts
  <2> HIDE DEF r
  <2> QED BY <1>4, <1>5, <2>1, <2>2, <2>3
<1>15. CASE RootfsContainerStarts(d)
  <2>1. /\ [prov[d] EXCEPT !.up = TRUE] \in ProviderPod
        /\ [prov[d] EXCEPT !.up = TRUE].pod = prov[d].pod
      BY <1>1 DEF ProviderPod
  <2> QED BY <1>1, <1>4, <1>5, <1>15, <2>1 DEF RootfsContainerStarts
<1>16. CASE PodReplaced(d)
  <2>1. /\ left' \in [MountOps -> Nat] /\ left["replace"] > 0
        /\ left'["replace"] = left["replace"] - 1
      BY <1>1, <1>16, SpendTyped DEF PodReplaced, MountOps
  <2>2. left["replace"] \in Nat /\ left'["replace"] \in Nat
      BY <1>1, <2>1 DEF MountOps
  <2>3. prov[d].pod + 1 \in Pods
      BY <1>1, <2>1, <2>2, MountNat DEF MountTypeInv, PodsBounded, Pods
  <2>4. /\ prov' = [prov EXCEPT ![d] = FreshProvider(prov[d].pod + 1)]
        /\ UNCHANGED <<dir, helper, served>>
      BY <1>16 DEF PodReplaced, SetProv
  <2> DEFINE r == FreshProvider(prov[d].pod + 1)
  <2>5. r \in ProviderPod /\ r.pod = prov[d].pod + 1 /\ prov' = [prov EXCEPT ![d] = r]
      BY <2>3, <2>4, FreshTyped
  <2> HIDE DEF r
  <2>6. prov' \in [Dirs -> ProviderPod] /\ prov'[d] = r
        /\ \A e \in Dirs \ {d} : prov'[e] = prov[e] /\ prov[e].pod \in Nat
      BY <1>1, <2>5, MountNat DEF MountTypeOK, ProviderPod
  <2>7. PodsBounded'
    <3>1. ASSUME NEW e \in Dirs
          PROVE  prov'[e].pod + left'["replace"] <= MountBudget["replace"] + 1
      <4>1. prov[e].pod + left["replace"] <= MountBudget["replace"] + 1
          BY DEF MountTypeInv, PodsBounded
      <4>2. prov[d].pod \in Nat
          BY <1>1, MountNat
      <4>3. CASE e = d
          BY <2>1, <2>2, <2>5, <2>6, <4>1, <4>2, <4>3, MountNat
      <4>4. CASE e # d
        <5>1. prov'[e].pod = prov[e].pod /\ prov[e].pod \in Nat
            BY <2>6, <4>4
        <5> QED BY <2>1, <2>2, <4>1, <5>1, MountNat, SMTT(60)
      <4> QED BY <4>3, <4>4
    <3> QED BY <3>1 DEF PodsBounded
  <2> QED BY <1>1, <2>1, <2>4, <2>6, <2>7 DEF MountTypeInv, MountTypeOK
<1> QED BY <1>6, <1>7, <1>8, <1>9, <1>10, <1>11, <1>12, <1>13, <1>14, <1>15, <1>16
           DEF Provider

\* The steps of the helper and a reboot keep the types.
LEMMA HelperTyped ==
    ASSUME MountTypeInv,
           Helper \/ HelperCannotRespond \/ HelperCrashes \/ NodeReboots
    PROVE  MountTypeInv'
<1>1. /\ MountTypeOK /\ helper \in MountHelper /\ helper.at \in Dirs
      /\ dir[helper.at] \in Directory /\ left \in [MountOps -> Nat]
      /\ served \in [Dirs -> BOOLEAN] /\ dir \in [Dirs -> Directory]
    BY DEF MountTypeInv, MountTypeOK, MountHelper
<1>2. ASSUME dir' \in [Dirs -> Directory], prov' = prov, helper' \in MountHelper,
             served' \in [Dirs -> BOOLEAN], left' \in [MountOps -> Nat],
             left'["replace"] = left["replace"]
      PROVE  MountTypeInv'
    BY <1>2 DEF MountTypeInv, MountTypeOK, PodsBounded
<1>3. IdleAt(NextDir(helper.at)) \in MountHelper /\ IdleAt(1) \in MountHelper
    BY <1>1, NextDirTyped, FreshTyped, MountNat
<1>4. CASE HelperSkips
    BY <1>1, <1>2, <1>3, <1>4 DEF HelperSkips
<1>5. ASSUME NEW d \in Dirs, HelperTakesRequest(d)
      PROVE  MountTypeInv'
  <2>1. dir[d] \in Directory
      BY <1>1
  <2>2. [dir[d] EXCEPT !.ready = None] \in Directory
      BY <2>1 DEF Directory
  <2>3. dir' \in [Dirs -> Directory] /\ UNCHANGED <<prov, served>>
      BY <1>1, <1>5, <2>2, DirChange DEF HelperTakesRequest
  <2>4. CASE dir[d].request = Torn
    <3>1. Spend("torn") /\ helper' = [helper EXCEPT !.pc = "respond", !.res = "error"]
        BY <1>5, <2>4 DEF HelperTakesRequest
    <3>2. helper' \in MountHelper
        BY <1>1, <3>1 DEF MountHelper
    <3>3. left' \in [MountOps -> Nat] /\ left'["replace"] = left["replace"]
        BY <1>1, <3>1, SpendTyped DEF MountOps
    <3> QED BY <1>1, <1>2, <2>3, <3>2, <3>3
  <2>5. CASE dir[d].request # Torn
    <3>1. /\ helper' = [helper EXCEPT !.pc = "find", !.req = dir[d].request]
          /\ left' = left /\ dir[d].request \in Pods
        BY <1>5, <2>1, <2>5 DEF HelperTakesRequest, Pending, Directory
    <3>2. helper' \in MountHelper
        BY <1>1, <3>1 DEF MountHelper
    <3> QED BY <1>1, <1>2, <2>3, <3>1, <3>2
  <2> QED BY <2>4, <2>5
<1>6. CASE HelperFindsRootfs
  <2>1. [dir[helper.at] EXCEPT !.exists = TRUE] \in Directory
      BY <1>1 DEF Directory
  <2>2. [helper EXCEPT !.pc = "mount"] \in MountHelper
      BY <1>1 DEF MountHelper
  <2> QED BY <1>1, <1>2, <1>6, <2>1, <2>2, DirChange DEF HelperFindsRootfs
<1>7. CASE HelperFails
  <2>1. [helper EXCEPT !.pc = "respond", !.res = "error"] \in MountHelper
      BY <1>1 DEF MountHelper
  <2>2. left' \in [MountOps -> Nat] /\ left'["replace"] = left["replace"]
      BY <1>1, <1>7, SpendTyped DEF HelperFails, MountOps
  <2> QED BY <1>1, <1>2, <1>7, <2>1, <2>2 DEF HelperFails
<1>8. CASE HelperMounts
  <2>1. [dir[helper.at] EXCEPT !.mounted = helper.req] \in Directory
      BY <1>1 DEF Directory, MountHelper
  <2>2. [helper EXCEPT !.pc = "remove"] \in MountHelper
      BY <1>1 DEF MountHelper
  <2>3. [served EXCEPT ![helper.at] = TRUE] \in [Dirs -> BOOLEAN]
      BY <1>1
  <2> QED BY <1>1, <1>2, <1>8, <2>1, <2>2, <2>3, DirChange DEF HelperMounts
<1>9. CASE HelperRemovesRequest
  <2>1. [dir[helper.at] EXCEPT !.request = None] \in Directory
      BY <1>1 DEF Directory
  <2>2. [helper EXCEPT !.pc = "respond", !.res = "ready"] \in MountHelper
      BY <1>1 DEF MountHelper
  <2>3. /\ left' \in [MountOps -> Nat] /\ left'["replace"] = left["replace"]
        /\ dir' \in [Dirs -> Directory]
      BY <1>1, <1>9, <2>1, SpendTyped, DirChange DEF HelperRemovesRequest, MountOps
  <2> QED BY <1>1, <1>2, <1>9, <2>2, <2>3 DEF HelperRemovesRequest
<1>10. CASE HelperOpensReady
  <2>1. [dir[helper.at] EXCEPT !.ready = Torn, !.newer = TRUE] \in Directory
      BY <1>1 DEF Directory
  <2>2. [helper EXCEPT !.pc = "write"] \in MountHelper
      BY <1>1 DEF MountHelper
  <2> QED BY <1>1, <1>2, <1>10, <2>1, <2>2, DirChange DEF HelperOpensReady
<1>11. CASE HelperWritesReady
  <2> DEFINE v == IF dir[helper.at].ready = None THEN None ELSE helper.res
  <2>1. v \in {None, Torn, "ready", "error"}
      BY <1>1 DEF MountHelper
  <2>2. SetDir(helper.at, [dir[helper.at] EXCEPT !.ready = v, !.newer = TRUE])
      BY <1>11 DEF HelperWritesReady
  <2> HIDE DEF v
  <2>3. [dir[helper.at] EXCEPT !.ready = v, !.newer = TRUE] \in Directory
      BY <1>1, <2>1 DEF Directory
  <2> QED BY <1>1, <1>2, <1>3, <1>11, <2>2, <2>3, DirChange DEF HelperWritesReady
<1>12. CASE HelperCannotRespond \/ HelperCrashes
  <2>1. left' \in [MountOps -> Nat] /\ left'["replace"] = left["replace"]
      BY <1>1, <1>12, SpendTyped DEF HelperCannotRespond, HelperCrashes, MountOps
  <2> QED BY <1>1, <1>2, <1>3, <1>12, <2>1 DEF HelperCannotRespond, HelperCrashes
<1>13. CASE NodeReboots
  <2>1. left' \in [MountOps -> Nat] /\ left'["replace"] = left["replace"]
      BY <1>1, <1>13, SpendTyped DEF NodeReboots, MountOps
  <2>2. \A d \in Dirs : [dir[d] EXCEPT !.mounted = None] \in Directory
      BY <1>1 DEF Directory
  <2>3. \A d \in Dirs : prov[d].pod \in Pods
      BY <1>1 DEF MountTypeOK, ProviderPod
  <2>4. /\ dir' \in [Dirs -> Directory] /\ prov' \in [Dirs -> ProviderPod]
        /\ \A d \in Dirs : prov'[d].pod = prov[d].pod
      BY <1>13, <2>2, <2>3, FreshTyped DEF NodeReboots
  <2>5. PodsBounded'
      BY <2>1, <2>4 DEF MountTypeInv, PodsBounded
  <2> QED BY <1>1, <1>3, <1>13, <2>1, <2>4, <2>5
             DEF NodeReboots, MountTypeInv, MountTypeOK
<1> QED BY <1>4, <1>5, <1>6, <1>7, <1>8, <1>9, <1>10, <1>11, <1>12, <1>13 DEF Helper

\* The first state is well formed.
LEMMA MountTypeInit == Init => MountTypeInv
<1> SUFFICES ASSUME Init PROVE MountTypeInv
    OBVIOUS
<1>1. dir \in [Dirs -> Directory]
    BY DEF Init, Directory
<1>2. helper \in MountHelper /\ served \in [Dirs -> BOOLEAN]
    BY FreshTyped, MountNat DEF Init
<1>3. prov \in [Dirs -> ProviderPod] /\ \A d \in Dirs : prov[d].pod = 1
    BY FreshTyped, MountNat DEF Init
<1>4. left \in [MountOps -> Nat] /\ left["replace"] = MountBudget["replace"]
    BY MountBudgetAssumption DEF Init
<1>5. PodsBounded
    BY <1>3, <1>4, MountNat DEF PodsBounded
<1> QED BY <1>1, <1>2, <1>3, <1>4, <1>5 DEF MountTypeInv, MountTypeOK

\* A step keeps the types.
LEMMA MountTypeStep == MountTypeInv /\ [Next]_mvars => MountTypeInv'
<1> SUFFICES ASSUME MountTypeInv, [Next]_mvars PROVE MountTypeInv'
    OBVIOUS
<1>1. CASE Next
    BY <1>1, ProviderTyped, HelperTyped DEF Next
<1>2. CASE UNCHANGED mvars
    BY <1>2 DEF mvars, MountTypeInv, MountTypeOK, PodsBounded
<1> QED BY <1>1, <1>2

\* Files, providers and helper are well formed at any time; in particular no
\* provider process makes a fourth attempt.
THEOREM MountTypeCorrect == Spec => []MountTypeOK
<1>1. MountTypeInv => MountTypeOK
    BY DEF MountTypeInv
<1> QED BY <1>1, MountTypeInit, MountTypeStep, PTL DEF Spec

-----------------------------------------------------------------------------
\* What the answer, the marker and the step to the marker stand for: there is a
\* mount.  An attempt without a recorded error has spent a timeout for each
\* attempt before it, so that the third one cannot end without an answer.
ProviderSound(r, p, timeouts) ==
    /\ (r.ready = "ready" \/ r.marker \/ p.pc = "mark") => r.mounted # None
    /\ (p.pc \in {"retry", "begin", "write", "poll"} /\ ~p.lastError) =>
           p.attempt + timeouts <= MountBudget["timeout"] + 1

\* The helper announces a mount it has made.
HelperSound(h, r) ==
    /\ h.pc \in {"find", "mount"} => h.req # None
    /\ (h.pc = "remove" \/ h.res = "ready") => r.mounted # None

\* Too few timeouts to end every attempt, one pod for each directory, no reboot.
OneNodeLife ==
    /\ MountBudget["timeout"] < Attempts
    /\ MountBudget["replace"] = 0 /\ MountBudget["reboot"] = 0

ReadyInv ==
    /\ left["reboot"] = 0 /\ left["timeout"] <= MountBudget["timeout"]
    /\ \A d \in Dirs : ProviderSound(dir[d], prov[d], left["timeout"])
    /\ HelperSound(helper, dir[helper.at])

\* Fewer timeouts left make no provider unsound.
LEMMA FewerTimeouts ==
    ASSUME NEW r, NEW p \in ProviderPod, NEW m \in Nat, NEW n \in Nat, n <= m,
           ProviderSound(r, p, m)
    PROVE  ProviderSound(r, p, n)
<1>1. p.attempt \in Nat /\ MountBudget["timeout"] \in Nat
    BY MountBudgetAssumption DEF ProviderPod, Attempts, MountOps
<1> QED BY <1>1 DEF ProviderSound

\* No step adds to what is left.
LEMMA LeftShrinks ==
    ASSUME MountTypeOK, ReadyInv, left' = left \/ \E op \in MountOps : Spend(op)
    PROVE  /\ left["timeout"] \in Nat /\ left'["timeout"] \in Nat
           /\ left'["timeout"] <= left["timeout"]
           /\ left'["timeout"] <= MountBudget["timeout"] /\ left'["reboot"] = 0
<1>1. /\ left \in [MountOps -> Nat] /\ left["timeout"] \in Nat
      /\ left["reboot"] = 0 /\ left["timeout"] <= MountBudget["timeout"]
      /\ MountBudget["timeout"] \in Nat
    BY MountBudgetAssumption DEF MountTypeOK, ReadyInv, MountOps
<1>2. CASE left' = left
    BY <1>1, <1>2
<1>3. ASSUME NEW op \in MountOps, Spend(op)
      PROVE  /\ left'["timeout"] \in Nat /\ left'["timeout"] <= left["timeout"]
             /\ left'["reboot"] = 0
  <2>1. /\ left' \in [MountOps -> Nat] /\ left[op] > 0
        /\ \A o \in MountOps : left'[o] = IF o = op THEN left[o] - 1 ELSE left[o]
      BY <1>3, SpendTyped
  <2>2. op # "reboot" /\ left'["reboot"] = 0
      BY <1>1, <2>1 DEF MountOps
  <2> QED BY <1>1, <2>1, <2>2 DEF MountOps
<1> QED BY <1>1, <1>2, <1>3

\* A step that changes one directory, or its provider, and takes no mount away.
LEMMA OneDirectory ==
    ASSUME MountTypeOK, ReadyInv, NEW d \in Dirs, NEW r, NEW p,
           left' = left \/ \E op \in MountOps : Spend(op),
           SetDir(d, r), SetProv(d, p), ProviderSound(r, p, left'["timeout"]),
           dir[d].mounted # None => r.mounted # None,
           helper' = helper \/ (helper'.at \in Dirs /\ HelperSound(helper', dir'[helper'.at]))
    PROVE  ReadyInv'
<1>1. /\ left["timeout"] \in Nat /\ left'["timeout"] \in Nat
      /\ left'["timeout"] <= left["timeout"]
      /\ left'["timeout"] <= MountBudget["timeout"] /\ left'["reboot"] = 0
    BY LeftShrinks
<1>2. /\ dir'[d] = r /\ prov'[d] = p
      /\ \A e \in Dirs \ {d} : dir'[e] = dir[e] /\ prov'[e] = prov[e]
      /\ \A e \in Dirs : prov[e] \in ProviderPod
      /\ helper.at \in Dirs
    BY DEF MountTypeOK, SetDir, SetProv, MountHelper
<1>3. ASSUME NEW e \in Dirs
      PROVE  ProviderSound(dir'[e], prov'[e], left'["timeout"])
  <2>1. CASE e = d
      BY <1>2, <2>1
  <2>2. CASE e # d
      BY <1>1, <1>2, <2>2, FewerTimeouts DEF ReadyInv
  <2> QED BY <2>1, <2>2
<1>4. HelperSound(helper', dir'[helper'.at])
    BY <1>2 DEF ReadyInv, HelperSound
<1> QED BY <1>1, <1>3, <1>4 DEF ReadyInv

\* A failed attempt with an error on record does not go on to the marker.
LEMMA FailedAttempt ==
    ASSUME NEW p \in ProviderPod, NEW r, NEW t, p.pc # "mark",
           ProviderSound(r, p, t), NEW u
    PROVE  ProviderSound(r, AttemptFails(p, TRUE), u)
<1>1. AttemptFails(p, TRUE) =
          IF p.attempt < Attempts
          THEN [p EXCEPT !.lastError = TRUE, !.attempt = p.attempt + 1, !.pc = "retry"]
          ELSE [p EXCEPT !.lastError = TRUE, !.pc = "exited"]
    BY DEF AttemptFails, AttemptEnds
<1>2. AttemptFails(p, TRUE).lastError = TRUE
    BY <1>1 DEF ProviderPod
<1>3. AttemptFails(p, TRUE).pc \in {"retry", "exited"}
    BY <1>1 DEF ProviderPod
<1> QED BY <1>2, <1>3 DEF ProviderSound

\* A timeout without a recorded error is not the last attempt's.
LEMMA TimedOutAttempt ==
    ASSUME NEW p \in ProviderPod, NEW r, NEW t \in Nat, t > 0, p.pc = "poll",
           MountBudget["timeout"] < Attempts, ProviderSound(r, p, t)
    PROVE  ProviderSound(r, AttemptFails(p, FALSE), t - 1)
<1>1. p.attempt \in 1 .. Attempts /\ MountBudget["timeout"] \in Nat /\ p.lastError \in BOOLEAN
    BY MountBudgetAssumption DEF ProviderPod, MountOps
<1>2. CASE p.lastError
  <2>1. AttemptFails(p, FALSE) = AttemptFails(p, TRUE)
      BY <1>2 DEF AttemptFails
  <2> QED BY <2>1, FailedAttempt
<1>3. CASE ~p.lastError
  <2>1. p.attempt + t <= MountBudget["timeout"] + 1
      BY <1>3 DEF ProviderSound
  <2>2. p.attempt < Attempts
      BY <1>1, <2>1 DEF Attempts
  <2> DEFINE n == p.attempt + 1
  <2>3. AttemptFails(p, FALSE) = [p EXCEPT !.lastError = FALSE, !.attempt = n, !.pc = "retry"]
      BY <1>3, <2>2 DEF AttemptFails, AttemptEnds
  <2>4. n + (t - 1) <= MountBudget["timeout"] + 1
      BY <1>1, <2>1 DEF Attempts
  <2> HIDE DEF n
  <2>5. AttemptFails(p, FALSE).attempt = n /\ AttemptFails(p, FALSE).pc = "retry"
      BY <2>3, Zenon DEF ProviderPod
  <2>6. (r.ready = "ready" \/ r.marker) => r.mounted # None
      BY DEF ProviderSound
  <2> QED BY <2>4, <2>5, <2>6 DEF ProviderSound
<1> QED BY <1>1, <1>2, <1>3

\* The steps of a provider, its containers and its pod keep the invariant.
LEMMA ProviderReady ==
    ASSUME OneNodeLife, MountTypeInv, ReadyInv, NEW d \in Dirs,
           \/ Provider(d) \/ ProviderCannotWrite(d) \/ ProviderTimesOut(d)
           \/ ProviderRestarts(d) \/ RootfsContainerStarts(d) \/ PodReplaced(d)
    PROVE  ReadyInv'
<1> DEFINE D == dir[d]
           P == prov[d]
           T == left["timeout"]
<1>1. /\ MountTypeOK /\ D \in Directory /\ P \in ProviderPod /\ T \in Nat
      /\ ProviderSound(D, P, T) /\ T <= MountBudget["timeout"]
      /\ MountBudget["timeout"] \in Nat
    BY MountBudgetAssumption DEF MountTypeInv, MountTypeOK, ReadyInv, MountOps
<1>2. dir = [dir EXCEPT ![d] = D] /\ prov = [prov EXCEPT ![d] = P]
    BY <1>1 DEF MountTypeOK
<1>3. ASSUME NEW p, SetProv(d, p), dir' = dir, helper' = helper,
             left' = left \/ \E op \in MountOps : Spend(op),
             ProviderSound(D, p, left'["timeout"])
      PROVE  ReadyInv'
    BY <1>1, <1>2, <1>3, OneDirectory DEF SetDir
<1>4. ASSUME NEW r, SetDir(d, r), NEW pc \in {"begin", "write", "poll"},
             P.pc \in {"retry", "begin", "write"},
             SetProv(d, [P EXCEPT !.pc = pc]), helper' = helper, left' = left,
             r.mounted = D.mounted, r.marker = D.marker, r.ready \in {None, D.ready}
      PROVE  ReadyInv'
  <2>1. None # "ready"
      BY NoneTornAssumption
  <2>2. /\ [P EXCEPT !.pc = pc].pc = pc /\ [P EXCEPT !.pc = pc].attempt = P.attempt
        /\ [P EXCEPT !.pc = pc].lastError = P.lastError
      BY <1>1 DEF ProviderPod
  <2>3. ProviderSound(r, [P EXCEPT !.pc = pc], T)
      BY <1>1, <1>4, <2>1, <2>2 DEF ProviderSound
  <2> QED BY <1>1, <1>4, <2>3, OneDirectory
<1>5. CASE ProviderClearsReady(d)
  <2>1. /\ [D EXCEPT !.ready = None].mounted = D.mounted
        /\ [D EXCEPT !.ready = None].marker = D.marker
        /\ [D EXCEPT !.ready = None].ready = None
      BY <1>1 DEF Directory
  <2> QED BY <1>4, <1>5, <2>1 DEF ProviderClearsReady
<1>6. CASE ProviderOpensRequest(d)
  <2> DEFINE r == [D EXCEPT !.request = Torn, !.newer = FALSE]
  <2>1. r.mounted = D.mounted /\ r.marker = D.marker /\ r.ready = D.ready
      BY <1>1 DEF Directory
  <2>2. /\ SetDir(d, r) /\ SetProv(d, [P EXCEPT !.pc = "write"]) /\ P.pc = "begin"
        /\ UNCHANGED <<helper, left>>
      BY <1>6 DEF ProviderOpensRequest
  <2> HIDE DEF r, P, D
  <2> QED BY <1>4, <2>1, <2>2
<1>7. CASE ProviderWritesRequest(d)
  <2> DEFINE r == RequestWritten(d)
  <2>1. r.mounted = D.mounted /\ r.marker = D.marker /\ r.ready = D.ready
      BY <1>1 DEF Directory, RequestWritten
  <2>2. /\ SetDir(d, r) /\ SetProv(d, [P EXCEPT !.pc = "poll"]) /\ P.pc = "write"
        /\ UNCHANGED <<helper, left>>
      BY <1>7 DEF ProviderWritesRequest
  <2> HIDE DEF r, P, D
  <2> QED BY <1>4, <2>1, <2>2
<1>8. CASE ProviderReadsError(d)
  <2>1. ProviderSound(D, AttemptFails(P, TRUE), left'["timeout"])
      BY <1>1, <1>8, FailedAttempt DEF ProviderReadsError
  <2> QED BY <1>3, <1>8, <2>1 DEF ProviderReadsError
<1>9. CASE ProviderReadsReady(d)
  <2>1. CASE D.exists /\ D.mounted # None
    <3> DEFINE p == [P EXCEPT !.pc = "mark", !.lastError = FALSE]
    <3>1. p.pc = "mark" /\ SetProv(d, p) /\ UNCHANGED <<dir, helper, left>>
        BY <1>1, <1>9, <2>1 DEF ProviderReadsReady, ProviderPod
    <3>2. ProviderSound(D, p, left'["timeout"])
        BY <2>1, <3>1 DEF ProviderSound
    <3> HIDE DEF p
    <3> QED BY <1>3, <3>1, <3>2
  <2>2. CASE ~(D.exists /\ D.mounted # None)
    <3>1. ProviderSound(D, AttemptFails(P, TRUE), left'["timeout"])
        BY <1>1, <1>9, FailedAttempt DEF ProviderReadsReady
    <3> QED BY <1>3, <1>9, <2>2, <3>1 DEF ProviderReadsReady
  <2> QED BY <2>1, <2>2
<1>10. CASE ProviderWritesMarker(d)
  <2>1. D.mounted # None /\ [P EXCEPT !.pc = "up"].pc = "up"
      BY <1>1, <1>10 DEF ProviderWritesMarker, ProviderSound, ProviderPod
  <2>2. /\ SetProv(d, [P EXCEPT !.pc = "up"]) /\ helper' = helper
        /\ (left' = left \/ \E op \in MountOps : Spend(op))
      BY <1>10 DEF ProviderWritesMarker, MountOps
  <2>3. CASE dir' = dir
    <3>1. ProviderSound(D, [P EXCEPT !.pc = "up"], left'["timeout"])
        BY <2>1 DEF ProviderSound
    <3> QED BY <1>3, <2>2, <2>3, <3>1
  <2>4. CASE SetDir(d, [D EXCEPT !.marker = TRUE])
    <3>1. [D EXCEPT !.marker = TRUE].mounted = D.mounted
        BY <1>1 DEF Directory
    <3>2. ProviderSound([D EXCEPT !.marker = TRUE], [P EXCEPT !.pc = "up"], left'["timeout"])
        BY <2>1, <3>1 DEF ProviderSound
    <3> QED BY <1>1, <2>1, <2>2, <2>4, <3>1, <3>2, OneDirectory
  <2> QED BY <1>10, <2>3, <2>4 DEF ProviderWritesMarker
<1>11. CASE ProviderCannotWrite(d)
  <2>1. ProviderSound(D, AttemptFails(P, TRUE), left'["timeout"])
      BY <1>1, <1>11, FailedAttempt DEF ProviderCannotWrite
  <2> QED BY <1>3, <1>11, <2>1 DEF ProviderCannotWrite, MountOps
<1>12. CASE ProviderTimesOut(d)
  <2>1. /\ Spend("timeout") /\ SetProv(d, AttemptFails(P, FALSE)) /\ P.pc = "poll"
        /\ UNCHANGED <<dir, helper>>
      BY <1>12 DEF ProviderTimesOut
  <2>2. T > 0 /\ left'["timeout"] = T - 1
      BY <1>1, <2>1, SpendTyped DEF MountOps
  <2>3. ProviderSound(D, AttemptFails(P, FALSE), left'["timeout"])
      BY <1>1, <2>1, <2>2, TimedOutAttempt DEF OneNodeLife
  <2> QED BY <1>3, <2>1, <2>3 DEF MountOps
<1>13. CASE ProviderRestarts(d)
  <2> DEFINE p == [FreshProvider(P.pod) EXCEPT !.up = P.up]
  <2>1. p.pc = "begin" /\ p.attempt = 1
      BY DEF FreshProvider
  <2>2. /\ SetProv(d, p) /\ UNCHANGED <<dir, helper>>
        /\ (left' = left \/ \E op \in MountOps : Spend(op))
      BY <1>13 DEF ProviderRestarts, MountOps
  <2>3. left'["timeout"] \in Nat /\ left'["timeout"] <= MountBudget["timeout"]
      BY <1>1, <2>2, LeftShrinks
  <2> HIDE DEF p
  <2>4. ProviderSound(D, p, left'["timeout"])
    <3>1. (D.ready = "ready" \/ D.marker) => D.mounted # None
        BY <1>1 DEF ProviderSound
    <3>2. p.attempt + left'["timeout"] <= MountBudget["timeout"] + 1
      <4>1. \A a, b \in Nat : a <= b => 1 + a <= b + 1
          OBVIOUS
      <4>2. MountBudget["timeout"] \in Nat
          BY <1>1
      <4> HIDE DEF D, P, T
      <4> QED BY <2>1, <2>3, <4>1, <4>2
    <3> HIDE DEF D
    <3> QED BY <2>1, <3>1, <3>2 DEF ProviderSound
  <2> QED BY <1>3, <2>2, <2>4
<1>14. CASE RootfsContainerStarts(d)
  <2> DEFINE p == [P EXCEPT !.up = TRUE]
  <2>1. p.pc = P.pc /\ p.attempt = P.attempt /\ p.lastError = P.lastError
      BY <1>1 DEF ProviderPod
  <2>2. SetProv(d, p) /\ UNCHANGED <<dir, helper, left>>
      BY <1>14 DEF RootfsContainerStarts
  <2> HIDE DEF p
  <2>3. ProviderSound(D, p, left'["timeout"])
      BY <1>1, <2>1, <2>2 DEF ProviderSound
  <2> QED BY <1>3, <2>2, <2>3
<1>15. ~PodReplaced(d)
  <2>1. P.pod + left["replace"] <= 1 /\ P.pod \in Nat /\ P.pod >= 1
      BY <1>1, MountNat, SMTT(60)
         DEF MountTypeInv, PodsBounded, OneNodeLife, ProviderPod, Pods
  <2>2. left["replace"] \in Nat
      BY <1>1 DEF MountTypeOK, MountOps
  <2>3. ~(left["replace"] > 0)
    <3>1. \A a, b \in Nat : a >= 1 /\ a + b <= 1 => ~(b > 0)
        OBVIOUS
    <3> QED BY <2>1, <2>2, <3>1
  <2> QED BY <2>3 DEF PodReplaced, Spend
<1> QED BY <1>5, <1>6, <1>7, <1>8, <1>9, <1>10, <1>11, <1>12, <1>13, <1>14, <1>15
           DEF Provider

\* The steps of the helper keep the invariant.
LEMMA HelperReady ==
    ASSUME OneNodeLife, MountTypeInv, ReadyInv,
           Helper \/ HelperCannotRespond \/ HelperCrashes \/ NodeReboots
    PROVE  ReadyInv'
<1> DEFINE a == helper.at
           D == dir[a]
           P == prov[a]
<1>1. /\ MountTypeOK /\ helper \in MountHelper /\ a \in Dirs /\ D \in Directory
      /\ P \in ProviderPod /\ left["timeout"] \in Nat
      /\ ProviderSound(D, P, left["timeout"]) /\ HelperSound(helper, D)
    BY DEF MountTypeInv, MountTypeOK, MountHelper, ReadyInv, MountOps
<1>2. dir = [dir EXCEPT ![a] = D] /\ prov = [prov EXCEPT ![a] = P]
    BY <1>1 DEF MountTypeOK
<1>3. None # "ready" /\ Torn # "ready"
    BY NoneTornAssumption
<1>4. ASSUME helper' \in {IdleAt(NextDir(a)), IdleAt(1)}
      PROVE  /\ helper'.at \in Dirs /\ HelperSound(helper', dir[helper'.at])
             /\ HelperSound(helper', dir'[helper'.at])
  <2>1. NextDir(a) \in Dirs /\ 1 \in Dirs
      BY <1>1, NextDirTyped, MountNat
  <2>2. helper'.at \in Dirs /\ helper'.pc = "idle" /\ helper'.res = None
      BY <1>4, <2>1 DEF IdleAt
  <2> QED BY <1>3, <2>2 DEF HelperSound
<1>5. ASSUME NEW r, SetDir(a, r), prov' = prov,
             left' = left \/ \E op \in MountOps : Spend(op),
             D.mounted # None => r.mounted # None, r.marker = D.marker,
             r.ready = "ready" => r.mounted # None,
             helper'.at \in Dirs, HelperSound(helper', dir'[helper'.at])
      PROVE  ReadyInv'
  <2>1. /\ left'["timeout"] \in Nat /\ left'["timeout"] <= left["timeout"]
      BY <1>1, <1>5, LeftShrinks
  <2>2. ProviderSound(D, P, left'["timeout"])
      BY <1>1, <2>1, FewerTimeouts
  <2>3. ProviderSound(r, P, left'["timeout"])
      BY <1>5, <2>2 DEF ProviderSound
  <2>4. SetProv(a, P)
      BY <1>2, <1>5 DEF SetProv
  <2> HIDE DEF a, D, P
  <2> QED BY <1>1, <1>5, <2>3, <2>4, OneDirectory DEF D
<1>6. ASSUME dir' = dir, prov' = prov,
             left' = left \/ \E op \in MountOps : Spend(op),
             helper'.at \in Dirs, HelperSound(helper', dir[helper'.at])
      PROVE  ReadyInv'
  <2>1. SetDir(a, D)
      BY <1>2, <1>6 DEF SetDir
  <2>2. D.ready = "ready" => D.mounted # None
      BY <1>1 DEF ProviderSound
  <2> QED BY <1>5, <1>6, <2>1, <2>2
<1>7. ASSUME NEW r, SetDir(a, r)
      PROVE  dir'[a] = r
    BY <1>1, <1>7 DEF SetDir, MountTypeOK
<1>8. CASE HelperSkips
  <2>1. /\ helper' = IdleAt(NextDir(a)) /\ UNCHANGED <<dir, prov, left>>
      BY <1>8 DEF HelperSkips
  <2>2. helper'.at \in Dirs /\ HelperSound(helper', dir[helper'.at])
      BY <1>4, <2>1
  <2> QED BY <1>6, <2>1, <2>2
<1>9. CASE HelperCannotRespond \/ HelperCrashes
  <2>1. /\ helper' \in {IdleAt(NextDir(a)), IdleAt(1)} /\ UNCHANGED <<dir, prov>>
        /\ \E op \in MountOps : Spend(op)
      BY <1>9 DEF HelperCannotRespond, HelperCrashes, MountOps
  <2>2. helper'.at \in Dirs /\ HelperSound(helper', dir[helper'.at])
      BY <1>4, <2>1
  <2> QED BY <1>6, <2>1, <2>2
<1>10. CASE HelperFails
  <2>1. /\ helper' = [helper EXCEPT !.pc = "respond", !.res = "error"]
        /\ UNCHANGED <<dir, prov>> /\ (left' = left \/ \E op \in MountOps : Spend(op))
      BY <1>10 DEF HelperFails, MountOps
  <2>2. helper'.at = a /\ helper'.pc = "respond" /\ helper'.res = "error"
      BY <1>1, <2>1 DEF MountHelper
  <2>3. helper'.at \in Dirs /\ HelperSound(helper', dir[helper'.at])
      BY <1>1, <2>2 DEF HelperSound
  <2> QED BY <1>6, <2>1, <2>3
<1>11. ASSUME NEW d \in Dirs, HelperTakesRequest(d)
       PROVE  ReadyInv'
  <2> DEFINE r == [D EXCEPT !.ready = None]
  <2>1. d = a /\ SetDir(a, r) /\ prov' = prov /\ helper.pc = "idle" /\ D.request # None
      BY <1>11 DEF HelperTakesRequest, Pending
  <2>2. r.mounted = D.mounted /\ r.marker = D.marker /\ r.ready = None
      BY <1>1 DEF Directory
  <2>3. left' = left \/ \E op \in MountOps : Spend(op)
      BY <1>11 DEF HelperTakesRequest, MountOps
  <2>4. /\ helper'.at = a /\ helper'.res \in {"error", helper.res}
        /\ helper'.pc = "respond" \/ (helper'.pc = "find" /\ helper'.req = D.request)
      BY <1>1, <1>11, <2>1 DEF HelperTakesRequest, MountHelper
  <2> HIDE DEF r
  <2>5. dir'[a] = r
      BY <1>7, <2>1
  <2>6. HelperSound(helper', dir'[helper'.at])
      BY <1>1, <2>1, <2>2, <2>4, <2>5 DEF HelperSound
  <2> QED BY <1>1, <1>3, <1>5, <2>1, <2>2, <2>3, <2>4, <2>6
<1>12. CASE HelperFindsRootfs
  <2> DEFINE r == [D EXCEPT !.exists = TRUE]
  <2>1. /\ SetDir(a, r) /\ UNCHANGED <<prov, left>> /\ helper.pc = "find"
        /\ helper' = [helper EXCEPT !.pc = "mount"]
      BY <1>12 DEF HelperFindsRootfs
  <2>2. r.mounted = D.mounted /\ r.marker = D.marker /\ r.ready = D.ready
      BY <1>1 DEF Directory
  <2>3. /\ helper'.at = a /\ helper'.res = helper.res /\ helper'.pc = "mount"
        /\ helper'.req = helper.req
      BY <1>1, <2>1 DEF MountHelper
  <2> HIDE DEF r
  <2>4. HelperSound(helper', dir'[helper'.at])
      BY <1>1, <1>7, <2>1, <2>2, <2>3 DEF HelperSound
  <2> QED BY <1>1, <1>5, <2>1, <2>2, <2>3, <2>4 DEF ProviderSound
<1>13. CASE HelperMounts
  <2> DEFINE r == [D EXCEPT !.mounted = helper.req]
  <2>1. /\ SetDir(a, r) /\ UNCHANGED <<prov, left>> /\ helper.pc = "mount"
        /\ helper' = [helper EXCEPT !.pc = "remove"]
      BY <1>13 DEF HelperMounts
  <2>2. r.mounted # None /\ r.marker = D.marker /\ r.ready = D.ready
      BY <1>1, <2>1 DEF Directory, HelperSound
  <2>3. helper'.at = a /\ helper'.pc = "remove"
      BY <1>1, <2>1 DEF MountHelper
  <2> HIDE DEF r
  <2>4. HelperSound(helper', dir'[helper'.at])
      BY <1>7, <2>1, <2>2, <2>3 DEF HelperSound
  <2> QED BY <1>1, <1>5, <2>1, <2>2, <2>3, <2>4
<1>14. CASE HelperRemovesRequest
  <2>1. /\ prov' = prov /\ (left' = left \/ \E op \in MountOps : Spend(op))
        /\ helper.pc = "remove" /\ helper' = [helper EXCEPT !.pc = "respond", !.res = "ready"]
      BY <1>14 DEF HelperRemovesRequest, MountOps
  <2>2. helper'.at = a /\ helper'.pc = "respond" /\ D.mounted # None
      BY <1>1, <2>1 DEF MountHelper, HelperSound
  <2>3. CASE dir' = dir
    <3>1. helper'.at \in Dirs /\ HelperSound(helper', dir[helper'.at])
        BY <1>1, <2>2 DEF HelperSound
    <3> QED BY <1>6, <2>1, <2>3, <3>1
  <2>4. CASE SetDir(a, [D EXCEPT !.request = None])
    <3> DEFINE r == [D EXCEPT !.request = None]
    <3>1. r.mounted = D.mounted /\ r.marker = D.marker /\ SetDir(a, r)
        BY <1>1, <2>4 DEF Directory
    <3> HIDE DEF r
    <3>2. HelperSound(helper', dir'[helper'.at])
        BY <1>7, <2>2, <3>1 DEF HelperSound
    <3> QED BY <1>1, <1>5, <2>1, <2>2, <3>1, <3>2
  <2> QED BY <1>14, <2>3, <2>4 DEF HelperRemovesRequest
<1>15. CASE HelperOpensReady
  <2> DEFINE r == [D EXCEPT !.ready = Torn, !.newer = TRUE]
  <2>1. /\ SetDir(a, r) /\ UNCHANGED <<prov, left>> /\ helper.pc = "respond"
        /\ helper' = [helper EXCEPT !.pc = "write"]
      BY <1>15 DEF HelperOpensReady
  <2>2. r.mounted = D.mounted /\ r.marker = D.marker /\ r.ready = Torn
      BY <1>1 DEF Directory
  <2>3. helper'.at = a /\ helper'.res = helper.res /\ helper'.pc = "write"
      BY <1>1, <2>1 DEF MountHelper
  <2> HIDE DEF r
  <2>4. HelperSound(helper', dir'[helper'.at])
      BY <1>1, <1>7, <2>1, <2>2, <2>3 DEF HelperSound
  <2> QED BY <1>1, <1>3, <1>5, <2>1, <2>2, <2>3, <2>4
<1>16. CASE HelperWritesReady
  <2> DEFINE v == IF D.ready = None THEN None ELSE helper.res
             r == [D EXCEPT !.ready = v, !.newer = TRUE]
  <2>1. /\ SetDir(a, r) /\ UNCHANGED <<prov, left>>
        /\ helper' = IdleAt(NextDir(a))
      BY <1>16 DEF HelperWritesReady
  <2>2. v = "ready" => D.mounted # None
      BY <1>1, <1>3 DEF HelperSound
  <2> HIDE DEF v
  <2>3. r.mounted = D.mounted /\ r.marker = D.marker /\ r.ready = v
      BY <1>1 DEF Directory
  <2> HIDE DEF r
  <2> QED BY <1>4, <1>5, <2>1, <2>2, <2>3
<1>17. ~NodeReboots
    BY DEF NodeReboots, Spend, ReadyInv
<1> QED BY <1>8, <1>9, <1>10, <1>11, <1>12, <1>13, <1>14, <1>15, <1>16, <1>17 DEF Helper

\* On a node that is not rebooted, whose directories keep their pods and whose
\* providers run into fewer timeouts than they make attempts, a ready provider
\* pod has its own root filesystem mounted: for any number of directories and
\* any number of kills, crashes, torn reads, lost writes and failed mounts.
THEOREM ReadyCorrect == ASSUME OneNodeLife PROVE Spec => []ReadyMeansMounted
<1>1. Init => MountTypeInv /\ ReadyInv
  <2> SUFFICES ASSUME Init PROVE MountTypeInv /\ ReadyInv
      OBVIOUS
  <2>1. MountTypeInv
      BY MountTypeInit
  <2>2. /\ left["reboot"] = 0 /\ left["timeout"] = MountBudget["timeout"]
        /\ MountBudget["timeout"] \in Nat
      BY MountBudgetAssumption DEF Init, OneNodeLife, MountOps
  <2>3. ASSUME NEW d \in Dirs
        PROVE  ProviderSound(dir[d], prov[d], left["timeout"])
    <3>1. dir[d].ready # "ready" /\ ~dir[d].marker
        BY NoneTornAssumption DEF Init
    <3>2. prov[d].pc = "begin" /\ prov[d].attempt = 1
        BY DEF Init, FreshProvider
    <3> QED BY <2>2, <3>1, <3>2 DEF ProviderSound
  <2>4. helper.pc = "idle" /\ helper.res # "ready"
      BY NoneTornAssumption DEF Init, IdleAt
  <2> QED BY <2>1, <2>2, <2>3, <2>4, SMTT(60) DEF ReadyInv, HelperSound
<1>2. MountTypeInv /\ ReadyInv /\ [Next]_mvars => MountTypeInv' /\ ReadyInv'
  <2> SUFFICES ASSUME MountTypeInv, ReadyInv, [Next]_mvars
               PROVE  MountTypeInv' /\ ReadyInv'
      OBVIOUS
  <2>1. MountTypeInv'
      BY MountTypeStep
  <2>2. CASE Next
      BY <2>1, <2>2, ProviderReady, HelperReady DEF Next
  <2>3. CASE UNCHANGED mvars
      BY <2>1, <2>3 DEF mvars, ReadyInv
  <2> QED BY <2>2, <2>3
<1>3. MountTypeInv /\ ReadyInv => ReadyMeansMounted
  <2> SUFFICES ASSUME MountTypeInv, ReadyInv, NEW d \in Dirs, PodReady(d)
               PROVE  dir[d].mounted = prov[d].pod
      BY DEF ReadyMeansMounted
  <2>1. Pods = {1}
      BY DEF Pods, OneNodeLife
  <2>2. dir[d].mounted # None
      BY DEF PodReady, ReadyInv, ProviderSound
  <2>3. dir[d].mounted \in {None, 1} /\ prov[d].pod = 1
      BY <2>1 DEF MountTypeInv, MountTypeOK, Directory, ProviderPod
  <2> QED BY <2>2, <2>3
<1> QED BY <1>1, <1>2, <1>3, PTL DEF Spec

-----------------------------------------------------------------------------
\* No request for a mount is lost or carried out twice.
Answers == {"ready", "error"}

\* How far the helper is with directory d.
Stage(d) == IF helper.at = d THEN helper.pc ELSE "idle"

\* The answer to a provider that writes its request or polls is there or will
\* come.  Nothing is claimed while the helper is at work on the directory, until
\* it comes to write its answer.  While the request is only truncated the helper
\* can still take it once it is written; one that it has removed has an answer.
AnswerComes(r, p, stage) ==
    /\ p.pc = "write" =>
          /\ stage = "idle" => r.request = Torn \/ r.ready \in Answers
          /\ stage = "write" => r.request = Torn \/ r.ready # None
    /\ p.pc = "poll" =>
          /\ stage = "idle" =>
                \/ r.ready \in Answers
                \/ r.request = p.pod /\ ~(r.ready # None /\ r.newer)
          /\ stage = "write" => r.request = p.pod \/ r.ready # None

\* A directory mounted for is not being mounted for again, and a request still
\* in it is about to be removed or has a newer answer.
NotAgain(r, stage) ==
    /\ stage \notin {"find", "mount"}
    /\ r.request \in Pods =>
           stage \in {"remove", "respond"} \/ (r.ready # None /\ r.newer)

DirSound(r, p, stage, mountedFor) ==
    AnswerComes(r, p, stage) /\ (mountedFor => NotAgain(r, stage))

RequestInv ==
    /\ \A op \in {"crash", "lostWrite"} : left[op] <= MountBudget[op]
    /\ helper.pc \in {"respond", "write"} => helper.res \in Answers
    /\ HelperReliable => \A d \in Dirs : DirSound(dir[d], prov[d], Stage(d), served[d])

-----------------------------------------------------------------------------
\* A helper that is reliable after a step was so before it.
LEMMA ReliableBefore ==
    ASSUME MountTypeInv, RequestInv, left' = left \/ \E op \in MountOps : Spend(op)
    PROVE  /\ \A op \in {"crash", "lostWrite"} : left'[op] <= MountBudget[op]
           /\ HelperReliable' => HelperReliable
<1>1. \A op \in {"crash", "lostWrite"} :
          op \in MountOps /\ left[op] \in Nat /\ MountBudget[op] \in Nat
    BY MountBudgetAssumption DEF MountTypeInv, MountTypeOK, MountOps
<1>2. CASE left' = left
    BY <1>2 DEF RequestInv, HelperReliable
<1>3. ASSUME NEW op \in MountOps, Spend(op)
      PROVE  /\ \A o \in {"crash", "lostWrite"} : left'[o] <= MountBudget[o]
             /\ HelperReliable' => HelperReliable
  <2>1. \A o \in MountOps : left'[o] = left[o] \/ (o = op /\ left'[o] = left[o] - 1)
      BY <1>3, SpendTyped DEF MountTypeInv
  <2> QED BY <1>1, <2>1 DEF RequestInv, HelperReliable
<1> QED BY <1>2, <1>3

\* A helper that has spent a crash or a lost answer is not reliable.
LEMMA NotReliable ==
    ASSUME MountTypeInv, RequestInv, NEW op \in {"crash", "lostWrite"}, Spend(op)
    PROVE  ~HelperReliable'
<1>1. op \in MountOps /\ left[op] \in Nat /\ MountBudget[op] \in Nat
    BY MountBudgetAssumption DEF MountTypeInv, MountTypeOK, MountOps
<1>2. left'[op] = left[op] - 1 /\ left[op] <= MountBudget[op]
    BY <1>1, SpendTyped DEF MountTypeInv, RequestInv
<1> QED BY <1>1, <1>2 DEF HelperReliable

\* A step that concerns one directory, and what the helper does there, keeps the
\* invariant if it keeps what the invariant says of that directory.
LEMMA OneDirSound ==
    ASSUME MountTypeInv, RequestInv, NEW d \in Dirs, NEW r, NEW p, NEW sv,
           SetDir(d, r), SetProv(d, p), served' = [served EXCEPT ![d] = sv],
           left' = left \/ \E op \in MountOps : Spend(op),
           \A e \in Dirs \ {d} : Stage(e)' = Stage(e),
           helper'.pc \in {"respond", "write"} => helper'.res \in Answers,
           HelperReliable => DirSound(r, p, Stage(d)', sv)
    PROVE  RequestInv'
<1>1. \A e \in Dirs :
          IF e = d THEN dir'[e] = r /\ prov'[e] = p /\ served'[e] = sv
          ELSE dir'[e] = dir[e] /\ prov'[e] = prov[e] /\ served'[e] = served[e]
    BY DEF MountTypeInv, MountTypeOK, SetDir, SetProv
<1>2. ASSUME HelperReliable', NEW e \in Dirs
      PROVE  DirSound(dir'[e], prov'[e], Stage(e)', served'[e])
  <2>1. HelperReliable /\ DirSound(dir[e], prov[e], Stage(e), served[e])
      BY <1>2, ReliableBefore DEF RequestInv
  <2>2. CASE e = d
      BY <1>1, <2>1, <2>2
  <2>3. CASE e # d
      BY <1>1, <2>1, <2>3
  <2> QED BY <2>2, <2>3
<1>3. \A op \in {"crash", "lostWrite"} : left'[op] <= MountBudget[op]
    BY ReliableBefore
<1> QED BY <1>2, <1>3 DEF RequestInv

\* The steps of a provider, its containers and its pod keep the invariant.
LEMMA ProviderAnswered ==
    ASSUME MountTypeInv, RequestInv, NEW d \in Dirs,
           \/ Provider(d) \/ ProviderCannotWrite(d) \/ ProviderTimesOut(d)
           \/ ProviderRestarts(d) \/ RootfsContainerStarts(d) \/ PodReplaced(d)
    PROVE  RequestInv'
<1> DEFINE D == dir[d]
           P == prov[d]
<1>1. /\ D \in Directory /\ P \in ProviderPod /\ served[d] \in BOOLEAN
      /\ HelperReliable => DirSound(D, P, Stage(d), served[d])
    BY DEF MountTypeInv, MountTypeOK, RequestInv
<1>2. /\ dir = [dir EXCEPT ![d] = D] /\ prov = [prov EXCEPT ![d] = P]
      /\ served = [served EXCEPT ![d] = served[d]]
    BY DEF MountTypeInv, MountTypeOK
<1>3. helper.pc \in {"respond", "write"} => helper.res \in Answers
    BY DEF RequestInv
<1> HIDE DEF D, P
<1>4. ASSUME NEW r, NEW p, NEW sv, SetDir(d, r), SetProv(d, p),
             served' = [served EXCEPT ![d] = sv], helper' = helper,
             left' = left \/ \E op \in MountOps : Spend(op),
             HelperReliable => DirSound(r, p, Stage(d), sv)
      PROVE  RequestInv'
  <2>1. \A e \in Dirs : Stage(e)' = Stage(e)
      BY <1>4 DEF Stage
  <2> QED BY <1>3, <1>4, <2>1, OneDirSound
<1>5. ASSUME NEW p, SetProv(d, p), dir' = dir, served' = served, helper' = helper,
             left' = left \/ \E op \in MountOps : Spend(op),
             p.pc \notin {"write", "poll"} \/ (p.pc = P.pc /\ p.pod = P.pod)
      PROVE  RequestInv'
  <2>1. HelperReliable => DirSound(D, p, Stage(d), served[d])
      BY <1>1, <1>5 DEF DirSound, AnswerComes
  <2> QED BY <1>2, <1>4, <1>5, <2>1 DEF SetDir
<1>6. \A error \in BOOLEAN : AttemptFails(P, error).pc \notin {"write", "poll"}
    BY <1>1 DEF AttemptFails, AttemptEnds, ProviderPod
<1>7. CASE ProviderClearsReady(d)
  <2> DEFINE r == [D EXCEPT !.ready = None]
             p == [P EXCEPT !.pc = "begin"]
  <2>1. /\ SetDir(d, r) /\ SetProv(d, p) /\ served' = [served EXCEPT ![d] = FALSE]
        /\ UNCHANGED <<helper, left>>
      BY <1>7 DEF ProviderClearsReady, D, P
  <2>2. DirSound(r, p, Stage(d), FALSE)
      BY <1>1 DEF DirSound, AnswerComes, ProviderPod
  <2> HIDE DEF r, p
  <2> QED BY <1>4, <2>1, <2>2
<1>8. CASE ProviderOpensRequest(d)
  <2> DEFINE r == [D EXCEPT !.request = Torn, !.newer = FALSE]
             p == [P EXCEPT !.pc = "write"]
  <2>1. /\ SetDir(d, r) /\ SetProv(d, p) /\ UNCHANGED <<helper, served, left>>
      BY <1>8 DEF ProviderOpensRequest, D, P
  <2>2. r.request = Torn /\ p.pc = "write" /\ Torn \notin Pods
      BY <1>1, NoneTornAssumption, MountNat DEF Directory, ProviderPod
  <2> HIDE DEF r, p
  <2>3. HelperReliable => DirSound(r, p, Stage(d), served[d])
      BY <1>1, <2>2 DEF DirSound, AnswerComes, NotAgain
  <2> QED BY <1>2, <1>4, <2>1, <2>3
<1>9. CASE ProviderWritesRequest(d)
  <2> DEFINE r == RequestWritten(d)
             p == [P EXCEPT !.pc = "poll"]
  <2>1. /\ SetDir(d, r) /\ SetProv(d, p) /\ served' = [served EXCEPT ![d] = FALSE]
        /\ UNCHANGED <<helper, left>> /\ P.pc = "write"
      BY <1>9 DEF ProviderWritesRequest, P
  <2>2. /\ r.request = (IF D.request = None THEN None ELSE P.pod)
        /\ r.ready = D.ready /\ r.newer = FALSE /\ p.pc = "poll" /\ p.pod = P.pod
      BY <1>1 DEF RequestWritten, Directory, ProviderPod, D, P
  <2> HIDE DEF r, p
  <2>3. HelperReliable => DirSound(r, p, Stage(d), FALSE)
      BY <1>1, <2>1, <2>2, NoneTornAssumption DEF DirSound, AnswerComes
  <2> QED BY <1>4, <2>1, <2>3
<1>10. CASE ProviderReadsError(d)
    BY <1>5, <1>6, <1>10 DEF ProviderReadsError, P
<1>11. CASE ProviderReadsReady(d)
  <2>1. [P EXCEPT !.pc = "mark", !.lastError = FALSE].pc \notin {"write", "poll"}
      BY <1>1 DEF ProviderPod
  <2> QED BY <1>5, <1>6, <1>11, <2>1 DEF ProviderReadsReady, P
<1>12. CASE ProviderWritesMarker(d)
  <2> DEFINE r == [D EXCEPT !.marker = TRUE]
             p == [P EXCEPT !.pc = "up"]
  <2>1. /\ SetDir(d, r) \/ dir' = dir
        /\ SetProv(d, p) /\ UNCHANGED <<helper, served>>
        /\ left' = left \/ \E op \in MountOps : Spend(op)
      BY <1>12 DEF ProviderWritesMarker, MountOps, D, P
  <2>2. p.pc = "up" /\ r.request = D.request /\ r.ready = D.ready /\ r.newer = D.newer
      BY <1>1 DEF Directory, ProviderPod
  <2> HIDE DEF r, p
  <2>3. HelperReliable => DirSound(r, p, Stage(d), served[d])
      BY <1>1, <2>2 DEF DirSound, AnswerComes, NotAgain
  <2> QED BY <1>2, <1>4, <1>5, <2>1, <2>2, <2>3
<1>13. CASE ProviderCannotWrite(d)
    BY <1>5, <1>6, <1>13 DEF ProviderCannotWrite, MountOps, P
<1>14. CASE ProviderTimesOut(d)
    BY <1>5, <1>6, <1>14 DEF ProviderTimesOut, MountOps, P
<1>15. CASE ProviderRestarts(d)
  <2> DEFINE p == [FreshProvider(P.pod) EXCEPT !.up = P.up]
  <2>1. /\ SetProv(d, p) /\ UNCHANGED <<dir, helper, served>>
        /\ left' = left \/ \E op \in MountOps : Spend(op)
      BY <1>15 DEF ProviderRestarts, MountOps, P
  <2>2. p.pc \notin {"write", "poll"}
      BY DEF FreshProvider
  <2> HIDE DEF p
  <2> QED BY <1>5, <2>1, <2>2
<1>16. CASE RootfsContainerStarts(d)
  <2> DEFINE p == [P EXCEPT !.up = TRUE]
  <2>1. SetProv(d, p) /\ UNCHANGED <<dir, helper, served, left>>
      BY <1>16 DEF RootfsContainerStarts, P
  <2>2. p.pc = P.pc /\ p.pod = P.pod
      BY <1>1 DEF ProviderPod
  <2> HIDE DEF p
  <2> QED BY <1>5, <2>1, <2>2
<1>17. CASE PodReplaced(d)
  <2>1. FreshProvider(P.pod + 1).pc \notin {"write", "poll"}
      BY DEF FreshProvider
  <2> QED BY <1>5, <1>17, <2>1 DEF PodReplaced, MountOps, P
<1> QED BY <1>7, <1>8, <1>9, <1>10, <1>11, <1>12, <1>13, <1>14, <1>15, <1>16, <1>17
           DEF Provider

\* The steps of the helper keep the invariant.
LEMMA HelperAnswered ==
    ASSUME MountTypeInv, RequestInv, Helper
    PROVE  RequestInv'
<1>0. PICK h \in Dirs : h = helper.at
    BY DEF MountTypeInv, MountTypeOK, MountHelper
<1> DEFINE D == dir[h]
           P == prov[h]
<1>1. /\ helper \in MountHelper /\ D \in Directory /\ P \in ProviderPod
      /\ served[h] \in BOOLEAN
      /\ helper.pc \in {"respond", "write"} => helper.res \in Answers
      /\ HelperReliable => DirSound(D, P, helper.pc, served[h])
    BY <1>0 DEF MountTypeInv, MountTypeOK, MountHelper, RequestInv, Stage
<1>2. /\ dir = [dir EXCEPT ![h] = D] /\ prov = [prov EXCEPT ![h] = P]
      /\ served = [served EXCEPT ![h] = served[h]]
    BY DEF MountTypeInv, MountTypeOK
<1> HIDE DEF D, P
<1>3. ASSUME NEW r, NEW sv, SetDir(h, r), prov' = prov,
             served' = [served EXCEPT ![h] = sv],
             left' = left \/ \E op \in MountOps : Spend(op),
             helper'.at = h \/ helper'.pc = "idle",
             helper'.pc \in {"respond", "write"} => helper'.res \in Answers,
             HelperReliable => DirSound(r, P, helper'.pc, sv)
      PROVE  RequestInv'
  <2>1. \A e \in Dirs \ {h} : Stage(e)' = Stage(e)
      BY <1>0, <1>3 DEF Stage
  <2>2. Stage(h)' = helper'.pc
      BY <1>3 DEF Stage
  <2>3. SetProv(h, P)
      BY <1>2, <1>3 DEF SetProv
  <2> QED BY <1>1, <1>3, <2>1, <2>2, <2>3, OneDirSound
<1>4. \A d \in Dirs : IdleAt(d).pc = "idle"
    BY DEF IdleAt
<1>5. CASE HelperSkips
  <2>1. helper.pc = "idle" /\ helper' = IdleAt(NextDir(h)) /\ UNCHANGED <<dir, prov, served, left>>
      BY <1>0, <1>5 DEF HelperSkips
  <2>2. helper'.pc = "idle"
      BY <1>1, <1>4, <2>1, NextDirTyped
  <2> QED BY <1>1, <1>2, <1>3, <2>1, <2>2 DEF SetDir
<1>6. ASSUME NEW d \in Dirs, HelperTakesRequest(d)
      PROVE  RequestInv'
  <2> DEFINE r == [D EXCEPT !.ready = None]
  <2>1. /\ d = h /\ helper.pc = "idle" /\ Pending(h) /\ SetDir(h, r)
        /\ UNCHANGED <<prov, served>>
        /\ left' = left \/ \E op \in MountOps : Spend(op)
      BY <1>0, <1>6 DEF HelperTakesRequest, MountOps, D
  <2>2. D.request # None /\ ~(D.ready # None /\ D.newer) /\ r.request = D.request
      BY <1>1, <2>1 DEF Pending, Directory, D
  <2> HIDE DEF r
  <2>3. CASE D.request = Torn
    <3>1. helper' = [helper EXCEPT !.pc = "respond", !.res = "error"]
        BY <1>0, <1>6, <2>1, <2>3 DEF HelperTakesRequest, D
    <3>2. helper'.pc = "respond" /\ helper'.res = "error" /\ helper'.at = h
        BY <1>0, <1>1, <3>1 DEF MountHelper
    <3>3. Torn \notin Pods
        BY NoneTornAssumption, MountNat
    <3>4. DirSound(r, P, "respond", served[h])
        BY <2>2, <2>3, <3>3 DEF DirSound, AnswerComes, NotAgain
    <3> QED BY <1>2, <1>3, <2>1, <3>2, <3>4 DEF Answers
  <2>4. CASE D.request # Torn
    <3>1. helper' = [helper EXCEPT !.pc = "find", !.req = D.request]
        BY <1>0, <1>6, <2>1, <2>4 DEF HelperTakesRequest, D
    <3>2. helper'.pc = "find" /\ helper'.at = h
        BY <1>0, <1>1, <3>1 DEF MountHelper
    <3>3. D.request \in Pods
        BY <1>1, <2>2, <2>4 DEF Directory
    <3>4. HelperReliable => ~served[h]
        BY <1>1, <2>1, <2>2, <3>3 DEF DirSound, NotAgain
    <3>5. HelperReliable => DirSound(r, P, "find", served[h])
        BY <3>4 DEF DirSound, AnswerComes
    <3> QED BY <1>2, <1>3, <2>1, <3>2, <3>5
  <2> QED BY <2>3, <2>4
<1>7. CASE HelperFindsRootfs
  <2> DEFINE r == [D EXCEPT !.exists = TRUE]
  <2>1. /\ helper.pc = "find" /\ SetDir(h, r) /\ helper' = [helper EXCEPT !.pc = "mount"]
        /\ UNCHANGED <<prov, served, left>>
      BY <1>0, <1>7 DEF HelperFindsRootfs, D
  <2>2. helper'.pc = "mount" /\ helper'.at = h
      BY <1>0, <1>1, <2>1 DEF MountHelper
  <2> HIDE DEF r
  <2>3. HelperReliable => DirSound(r, P, "mount", served[h])
      BY <1>1, <2>1 DEF DirSound, AnswerComes, NotAgain
  <2> QED BY <1>2, <1>3, <2>1, <2>2, <2>3
<1>8. CASE HelperFails
  <2>1. /\ helper.pc \in {"find", "mount"} /\ UNCHANGED <<dir, prov, served>>
        /\ helper' = [helper EXCEPT !.pc = "respond", !.res = "error"]
        /\ left' = left \/ \E op \in MountOps : Spend(op)
      BY <1>8 DEF HelperFails, MountOps
  <2>2. helper'.pc = "respond" /\ helper'.res = "error" /\ helper'.at = h
      BY <1>0, <1>1, <2>1 DEF MountHelper
  <2>3. HelperReliable => DirSound(D, P, "respond", served[h])
      BY <1>1, <2>1 DEF DirSound, AnswerComes, NotAgain
  <2> QED BY <1>2, <1>3, <2>1, <2>2, <2>3 DEF SetDir, Answers
<1>9. CASE HelperMounts
  <2> DEFINE r == [D EXCEPT !.mounted = helper.req]
  <2>1. /\ SetDir(h, r) /\ helper' = [helper EXCEPT !.pc = "remove"]
        /\ served' = [served EXCEPT ![h] = TRUE] /\ UNCHANGED <<prov, left>>
      BY <1>0, <1>9 DEF HelperMounts, D
  <2>2. helper'.pc = "remove" /\ helper'.at = h
      BY <1>0, <1>1, <2>1 DEF MountHelper
  <2> HIDE DEF r
  <2>3. DirSound(r, P, "remove", TRUE)
      BY DEF DirSound, AnswerComes, NotAgain
  <2> QED BY <1>3, <2>1, <2>2, <2>3
<1>10. CASE HelperRemovesRequest
  <2> DEFINE r == [D EXCEPT !.request = None]
  <2>1. /\ SetDir(h, r) \/ dir' = dir
        /\ helper' = [helper EXCEPT !.pc = "respond", !.res = "ready"]
        /\ UNCHANGED <<prov, served>>
        /\ left' = left \/ \E op \in MountOps : Spend(op)
      BY <1>0, <1>10 DEF HelperRemovesRequest, MountOps, D
  <2>2. helper'.pc = "respond" /\ helper'.res = "ready" /\ helper'.at = h
      BY <1>0, <1>1, <2>1 DEF MountHelper
  <2>3. \A x : DirSound(x, P, "respond", served[h])
      BY DEF DirSound, AnswerComes, NotAgain
  <2>4. SetDir(h, r) \/ SetDir(h, D)
      BY <1>2, <2>1 DEF SetDir
  <2> HIDE DEF r
  <2> QED BY <1>2, <1>3, <2>1, <2>2, <2>3, <2>4 DEF Answers
<1>11. CASE HelperOpensReady
  <2> DEFINE r == [D EXCEPT !.ready = Torn, !.newer = TRUE]
  <2>1. /\ helper.pc = "respond" /\ SetDir(h, r) /\ UNCHANGED <<prov, served, left>>
        /\ helper' = [helper EXCEPT !.pc = "write"]
      BY <1>0, <1>11 DEF HelperOpensReady, D
  <2>2. helper'.pc = "write" /\ helper'.res = helper.res /\ helper'.at = h
      BY <1>0, <1>1, <2>1 DEF MountHelper
  <2>3. r.ready = Torn /\ r.newer = TRUE
      BY <1>1 DEF Directory
  <2> HIDE DEF r
  <2>4. DirSound(r, P, "write", served[h])
      BY <2>3, NoneTornAssumption DEF DirSound, AnswerComes, NotAgain
  <2> QED BY <1>1, <1>2, <1>3, <2>1, <2>2, <2>4
<1>12. CASE HelperWritesReady
  <2> DEFINE v == IF D.ready = None THEN None ELSE helper.res
             r == [D EXCEPT !.ready = v, !.newer = TRUE]
  <2>1. /\ helper.pc = "write" /\ SetDir(h, r) /\ UNCHANGED <<prov, served, left>>
        /\ helper' = IdleAt(NextDir(h))
      BY <1>0, <1>12 DEF HelperWritesReady, D
  <2>2. helper'.pc = "idle"
      BY <1>1, <1>4, <2>1, NextDirTyped
  <2>3. r.ready = v /\ r.newer = TRUE /\ r.request = D.request
      BY <1>1 DEF Directory
  <2>4. (D.ready = None => v = None) /\ (D.ready # None => v \in Answers)
      BY <1>1, <2>1
  <2> HIDE DEF r, v
  <2>5. None \notin Answers
      BY NoneTornAssumption DEF Answers
  <2>6. HelperReliable => DirSound(r, P, "idle", served[h])
      BY <1>1, <2>1, <2>3, <2>4, <2>5 DEF DirSound, AnswerComes, NotAgain
  <2> QED BY <1>2, <1>3, <2>1, <2>2, <2>6
<1> QED BY <1>5, <1>6, <1>7, <1>8, <1>9, <1>10, <1>11, <1>12 DEF Helper

\* The failures of the helper and a reboot keep the invariant.
LEMMA FailureAnswered ==
    ASSUME MountTypeInv, RequestInv, HelperCannotRespond \/ HelperCrashes \/ NodeReboots
    PROVE  RequestInv'
<1>1. \E op \in MountOps : Spend(op)
    BY DEF HelperCannotRespond, HelperCrashes, NodeReboots, MountOps
<1>2. \A d \in Dirs : IdleAt(d).pc = "idle"
    BY DEF IdleAt
<1>3. helper'.pc = "idle"
  <2>1. helper.at \in Dirs
      BY DEF MountTypeInv, MountTypeOK, MountHelper
  <2> QED BY <1>2, <2>1, NextDirTyped, MountNat
             DEF HelperCannotRespond, HelperCrashes, NodeReboots
<1>4. CASE HelperCannotRespond \/ HelperCrashes
  <2>1. ~HelperReliable'
      BY <1>4, NotReliable DEF HelperCannotRespond, HelperCrashes
  <2> QED BY <1>1, <1>3, <2>1, ReliableBefore DEF RequestInv
<1>5. CASE NodeReboots
  <2>1. \A d \in Dirs : prov'[d].pc = "begin" /\ ~served'[d]
      BY <1>5 DEF NodeReboots, FreshProvider
  <2>2. \A d \in Dirs : DirSound(dir'[d], prov'[d], Stage(d)', served'[d])
      BY <2>1 DEF DirSound, AnswerComes
  <2> QED BY <1>1, <1>3, <2>2, ReliableBefore DEF RequestInv
<1> QED BY <1>4, <1>5

\* The invariant holds in the first state.
LEMMA RequestInit == Init => RequestInv
<1> SUFFICES ASSUME Init PROVE RequestInv
    OBVIOUS
<1>1. \A op \in {"crash", "lostWrite"} : left[op] <= MountBudget[op]
    BY MountBudgetAssumption DEF Init, MountOps
<1>2. helper.pc = "idle" /\ \A d \in Dirs : prov[d].pc = "begin" /\ ~served[d]
    BY DEF Init, IdleAt, FreshProvider
<1>3. \A d \in Dirs : DirSound(dir[d], prov[d], Stage(d), served[d])
    BY <1>2 DEF DirSound, AnswerComes
<1> QED BY <1>1, <1>2, <1>3 DEF RequestInv

\* Every step keeps the invariant.
LEMMA RequestStep == MountTypeInv /\ RequestInv /\ [Next]_mvars => RequestInv'
<1> SUFFICES ASSUME MountTypeInv, RequestInv, [Next]_mvars PROVE RequestInv'
    OBVIOUS
<1>1. CASE Next
    BY <1>1, ProviderAnswered, HelperAnswered, FailureAnswered DEF Next
<1>2. CASE UNCHANGED mvars
    BY <1>2 DEF mvars, RequestInv, HelperReliable, Stage
<1> QED BY <1>1, <1>2

\* No request is lost, neither by the file being removed while another is being
\* written to it, nor by an answer to the attempt before: a provider that polls
\* has its answer, or its request is one that the next scan takes.
THEOREM RequestsAnswered == Spec => []RequestAnswered
<1>1. RequestInv => RequestAnswered
    BY DEF RequestInv, RequestAnswered, DirSound, AnswerComes, Stage, Answers
<1> QED BY <1>1, MountTypeInit, MountTypeStep, RequestInit, RequestStep, PTL DEF Spec

\* No request is carried out twice: the helper puts no second overlay on the
\* first, even if it cannot remove the request.
THEOREM MountsOnce == Spec => MountedOnce
<1>1. ASSUME RequestInv, MountTypeInv
      PROVE  (HelperReliable /\ HelperMounts) => ~served[helper.at]
  <2>1. helper.at \in Dirs /\ Stage(helper.at) = helper.pc
      BY <1>1 DEF MountTypeInv, MountTypeOK, MountHelper, Stage
  <2> QED BY <1>1, <2>1 DEF RequestInv, DirSound, NotAgain, HelperMounts
<1> QED BY <1>1, MountTypeInit, MountTypeStep, RequestInit, RequestStep, PTL
           DEF Spec, MountedOnce
=============================================================================
