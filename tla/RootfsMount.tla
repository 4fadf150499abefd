---------------------------- MODULE RootfsMount -----------------------------
(***************************************************************************)
(* How provider pods obtain their root filesystems: each provider process  *)
(* (cmd/provider) talks to the node's mount-helper (cmd/mount-helper)      *)
(* through files in the directory of its instance.  One helper serves all  *)
(* directories, one after the other.  A directory outlives the pods that   *)
(* use it: no code removes it or undoes its mounts.                        *)
(***************************************************************************)
EXTENDS Naturals

CONSTANTS DirCount,     \* number of instance directories on the node
          MountBudget,  \* how often each operation of MountOps may happen
          None,         \* no file, no mount
          Torn          \* a file truncated and not yet written

\* timeout: a provider's polling loop runs out; torn: the helper reads a
\* request file that is only truncated so far; kill, crash: a provider's or
\* the helper's container dies; ioError: request.json cannot be written or
\* removed; lostWrite: the marker or the answer cannot be written, which the
\* code passes over; mountError: the overlay cannot be set up; replace: another
\* provider pod comes to the same directory; reboot: the node is restarted.
MountOps == {"timeout", "torn", "kill", "crash", "ioError", "lostWrite",
             "mountError", "replace", "reboot"}

ASSUME DirCountAssumption == DirCount \in Nat \ {0}
ASSUME MountBudgetAssumption == MountBudget \in [MountOps -> Nat]
ASSUME NoneTornAssumption ==
    None # Torn /\ \A v \in {None, Torn} : v \notin {"ready", "error"} /\ v \notin Nat

Attempts == 3   \* attempts of the provider process
Dirs == 1 .. DirCount
Pods == 1 .. MountBudget["replace"] + 1

\* request: request.json, that is None, Torn or the requesting pod; ready:
\* ready.json; newer: ready.json was written after request.json; exists: the
\* rootfs directory does; mounted: the pod whose overlay is on top of it;
\* marker: the file the readiness probe looks for exists.
Directory ==
    [request : {None, Torn} \cup Pods, ready : {None, Torn, "ready", "error"},
     newer : BOOLEAN, exists : BOOLEAN, mounted : {None} \cup Pods,
     marker : BOOLEAN]

\* The provider pod now using a directory: up when its rootfs container can be
\* found in /proc; pc, attempt and lastError are those of the provider process.
ProviderPod ==
    [pod : Pods, up : BOOLEAN, attempt : 1 .. Attempts, lastError : BOOLEAN,
     pc : {"retry", "begin", "write", "poll", "mark", "up", "exited"}]

\* The helper: the directory its scan has come to, the request it has read and
\* the answer it is to write.
MountHelper ==
    [pc : {"idle", "find", "mount", "remove", "respond", "write"}, at : Dirs,
     req : {None} \cup Pods, res : {None, "ready", "error"}]

VARIABLES dir, prov,  \* by directory
          helper,
          served,     \* history: mounted for since the provider asked or the node booted
          left        \* what is left of MountBudget

mvars == <<dir, prov, helper, served, left>>

Spend(op) == left[op] > 0 /\ left' = [left EXCEPT ![op] = @ - 1]

SetDir(d, r)  == dir' = [dir EXCEPT ![d] = r]
SetProv(d, r) == prov' = [prov EXCEPT ![d] = r]

FreshProvider(pod) ==
    [pod |-> pod, up |-> FALSE, attempt |-> 1, lastError |-> FALSE, pc |-> "begin"]

IdleAt(d) == [pc |-> "idle", at |-> d, req |-> None, res |-> None]

Init ==
    /\ dir = [d \in Dirs |->
                 [request |-> None, ready |-> None, newer |-> FALSE,
                  exists |-> FALSE, mounted |-> None, marker |-> FALSE]]
    /\ prov = [d \in Dirs |-> FreshProvider(1)]
    /\ helper = IdleAt(1)
    /\ served = [d \in Dirs |-> FALSE]
    /\ left = MountBudget

--------------------------------------------------- \* The provider process
\* A retry first removes ready.json and sleeps; the first attempt keeps what
\* it finds.
ProviderClearsReady(d) ==
    /\ prov[d].pc = "retry"
    /\ SetDir(d, [dir[d] EXCEPT !.ready = None])
    /\ SetProv(d, [prov[d] EXCEPT !.pc = "begin"])
    /\ served' = [served EXCEPT ![d] = FALSE]
    /\ UNCHANGED <<helper, left>>

\* request.json is truncated and then written: two steps for a reader.
ProviderOpensRequest(d) ==
    /\ prov[d].pc = "begin"
    /\ SetDir(d, [dir[d] EXCEPT !.request = Torn, !.newer = FALSE])
    /\ SetProv(d, [prov[d] EXCEPT !.pc = "write"])
    /\ UNCHANGED <<helper, served, left>>

\* What is written after the helper has removed the file reaches nobody.
RequestWritten(d) ==
    [dir[d] EXCEPT !.request = IF @ = None THEN None ELSE prov[d].pod,
                   !.newer = FALSE]

\* Mutant: ready.json is removed only after the request is written.
ProviderWritesRequestThenClears(d) ==
    /\ prov[d].pc = "write"
    /\ SetDir(d, [RequestWritten(d) EXCEPT
                     !.ready = IF prov[d].attempt > 1 THEN None ELSE @])
    /\ SetProv(d, [prov[d] EXCEPT !.pc = "poll"])
    /\ served' = [served EXCEPT ![d] = FALSE]
    /\ UNCHANGED <<helper, left>>

ProviderWritesRequest(d) ==
    /\ prov[d].pc = "write"
    /\ SetDir(d, RequestWritten(d))
    /\ SetProv(d, [prov[d] EXCEPT !.pc = "poll"])
    /\ served' = [served EXCEPT ![d] = FALSE]
    /\ UNCHANGED <<helper, left>>

\* The end of an attempt that did not succeed, of which there are at most last.
\* After the last one the process exits if an error was recorded, and otherwise
\* goes on to the marker.
AttemptEnds(p, last, failed) ==
    IF p.attempt < last
    THEN [p EXCEPT !.lastError = failed, !.attempt = @ + 1, !.pc = "retry"]
    ELSE [p EXCEPT !.lastError = failed, !.pc = IF failed THEN "exited" ELSE "mark"]

\* Mutants: one attempt too many; an earlier attempt's error is forgotten.
AttemptFailsOnceMore(p, error) == AttemptEnds(p, Attempts + 1, p.lastError \/ error)
AttemptFailsAfresh(p, error) == AttemptEnds(p, Attempts, error)

AttemptFails(p, error) == AttemptEnds(p, Attempts, p.lastError \/ error)

ProviderCannotWrite(d) ==
    /\ prov[d].pc = "begin"
    /\ Spend("ioError")
    /\ SetProv(d, AttemptFails(prov[d], TRUE))
    /\ UNCHANGED <<dir, helper, served>>

\* The answer is an error; an answer that is missing or cannot be parsed keeps
\* the loop going.
ProviderReadsError(d) ==
    /\ prov[d].pc = "poll" /\ dir[d].ready = "error"
    /\ SetProv(d, AttemptFails(prov[d], TRUE))
    /\ UNCHANGED <<dir, helper, served, left>>

\* 300 polls without an answer record no error.  The loop takes longer than the
\* liveness probe allows while there is no rootfs directory.
ProviderTimesOut(d) ==
    /\ prov[d].pc = "poll" /\ dir[d].ready \notin {"ready", "error"}
    /\ dir[d].exists
    /\ Spend("timeout")
    /\ SetProv(d, AttemptFails(prov[d], FALSE))
    /\ UNCHANGED <<dir, helper, served>>

\* The answer is "ready": the rootfs directory must exist and not be empty.
ProviderReadsReady(d) ==
    /\ prov[d].pc = "poll" /\ dir[d].ready = "ready"
    /\ SetProv(d, IF dir[d].exists /\ dir[d].mounted # None
                  THEN [prov[d] EXCEPT !.pc = "mark", !.lastError = FALSE]
                  ELSE AttemptFails(prov[d], TRUE))
    /\ UNCHANGED <<dir, helper, served, left>>

\* A marker that cannot be written is only logged.
ProviderWritesMarker(d) ==
    /\ prov[d].pc = "mark"
    /\ SetProv(d, [prov[d] EXCEPT !.pc = "up"])
    /\ \/ SetDir(d, [dir[d] EXCEPT !.marker = TRUE]) /\ UNCHANGED left
       \/ UNCHANGED dir /\ Spend("lostWrite")
    /\ UNCHANGED <<helper, served>>

\* The container is restarted: after its exit, by the liveness probe as long
\* as there is no rootfs directory, or because it was killed.
ProviderRestarts(d) ==
    /\ \/ prov[d].pc = "exited" /\ UNCHANGED left
       \/ prov[d].pc = "poll" /\ ~dir[d].exists /\ UNCHANGED left
       \/ Spend("kill")
    /\ SetProv(d, [FreshProvider(prov[d].pod) EXCEPT !.up = prov[d].up])
    /\ UNCHANGED <<dir, helper, served>>

RootfsContainerStarts(d) ==
    /\ ~prov[d].up
    /\ SetProv(d, [prov[d] EXCEPT !.up = TRUE])
    /\ UNCHANGED <<dir, helper, served, left>>

\* The pod is replaced by another one with the same name on the same node.
PodReplaced(d) ==
    /\ Spend("replace")
    /\ SetProv(d, FreshProvider(prov[d].pod + 1))
    /\ UNCHANGED <<dir, helper, served>>

------------------------------------------------------- \* The mount-helper
\* Mutant: the directories are gone through only once.
NextDirOnce(d) == IF d = DirCount THEN d ELSE d + 1

\* A scan goes through the directories in the order of their names; the next
\* scan begins at the first one again.
NextDir(d) == IF d = DirCount THEN 1 ELSE d + 1

\* Mutants: any ready.json counts as an answer, whatever its age; none does.
PendingUnanswered(d) == dir[d].request # None /\ dir[d].ready = None
PendingRegardless(d) == dir[d].request # None

\* There is a request, and no answer that is newer.
Pending(d) == dir[d].request # None /\ ~(dir[d].ready # None /\ dir[d].newer)

HelperSkips ==
    /\ helper.pc = "idle" /\ ~Pending(helper.at)
    /\ helper' = IdleAt(NextDir(helper.at))
    /\ UNCHANGED <<dir, prov, served, left>>

\* A request is taken unless ready.json is newer; an older one is removed.  A
\* request that cannot be parsed is answered with an error.
HelperTakesRequest(d) ==
    /\ helper.pc = "idle" /\ helper.at = d /\ Pending(d)
    /\ SetDir(d, [dir[d] EXCEPT !.ready = None])
    /\ IF dir[d].request = Torn
       THEN /\ Spend("torn")
            /\ helper' = [helper EXCEPT !.pc = "respond", !.res = "error"]
       ELSE /\ helper' = [helper EXCEPT !.pc = "find", !.req = dir[d].request]
            /\ UNCHANGED left
    /\ UNCHANGED <<prov, served>>

RootfsFound == helper.req = prov[helper.at].pod /\ prov[helper.at].up

\* The rootfs container is found and the rootfs directory is made.
HelperFindsRootfs ==
    /\ helper.pc = "find" /\ RootfsFound
    /\ SetDir(helper.at, [dir[helper.at] EXCEPT !.exists = TRUE])
    /\ helper' = [helper EXCEPT !.pc = "mount"]
    /\ UNCHANGED <<prov, served, left>>

\* It is not found in 30 retries, its overlay options cannot be read, or the
\* directory cannot be made or mounted on.
HelperFails ==
    /\ \/ helper.pc = "find" /\ ~RootfsFound /\ UNCHANGED left
       \/ helper.pc = "find" /\ RootfsFound /\ Spend("mountError")
       \/ helper.pc = "mount" /\ Spend("mountError")
    /\ helper' = [helper EXCEPT !.pc = "respond", !.res = "error"]
    /\ UNCHANGED <<dir, prov, served>>

\* The overlay, then proc, dev and sys, whose failures are ignored.
HelperMounts ==
    /\ helper.pc = "mount"
    /\ SetDir(helper.at, [dir[helper.at] EXCEPT !.mounted = helper.req])
    /\ helper' = [helper EXCEPT !.pc = "remove"]
    /\ served' = [served EXCEPT ![helper.at] = TRUE]
    /\ UNCHANGED <<prov, left>>

\* request.json is removed, whoever wrote it by now; a failure is only logged.
HelperRemovesRequest ==
    /\ helper.pc = "remove"
    /\ \/ /\ SetDir(helper.at, [dir[helper.at] EXCEPT !.request = None])
          /\ UNCHANGED left
       \/ UNCHANGED dir /\ Spend("ioError")
    /\ helper' = [helper EXCEPT !.pc = "respond", !.res = "ready"]
    /\ UNCHANGED <<prov, served>>

\* writeResponse: ready.json is truncated and then written.
HelperOpensReady ==
    /\ helper.pc = "respond"
    /\ SetDir(helper.at, [dir[helper.at] EXCEPT !.ready = Torn, !.newer = TRUE])
    /\ helper' = [helper EXCEPT !.pc = "write"]
    /\ UNCHANGED <<prov, served, left>>

HelperWritesReady ==
    /\ helper.pc = "write"
    /\ SetDir(helper.at,
              [dir[helper.at] EXCEPT !.ready = IF @ = None THEN None ELSE helper.res,
                                     !.newer = TRUE])
    /\ helper' = IdleAt(NextDir(helper.at))
    /\ UNCHANGED <<prov, served, left>>

\* An answer that cannot be written is dropped.
HelperCannotRespond ==
    /\ helper.pc = "respond"
    /\ Spend("lostWrite")
    /\ helper' = IdleAt(NextDir(helper.at))
    /\ UNCHANGED <<dir, prov, served>>

\* The helper's container dies anywhere and is restarted with an empty memory.
HelperCrashes ==
    /\ helper.pc # "idle"
    /\ Spend("crash")
    /\ helper' = IdleAt(1)
    /\ UNCHANGED <<dir, prov, served>>

\* The node restarts: the files stay, the mounts are gone, and the same pods
\* come back with new containers.
NodeReboots ==
    /\ Spend("reboot")
    /\ dir' = [d \in Dirs |-> [dir[d] EXCEPT !.mounted = None]]
    /\ prov' = [d \in Dirs |-> FreshProvider(prov[d].pod)]
    /\ helper' = IdleAt(1)
    /\ served' = [d \in Dirs |-> FALSE]

-----------------------------------------------------------------------------
Provider(d) ==
    \/ ProviderClearsReady(d) \/ ProviderOpensRequest(d) \/ ProviderWritesRequest(d)
    \/ ProviderReadsError(d) \/ ProviderReadsReady(d) \/ ProviderWritesMarker(d)

Helper ==
    \/ HelperSkips \/ \E d \in Dirs : HelperTakesRequest(d)
    \/ HelperFindsRootfs \/ HelperFails \/ HelperMounts
    \/ HelperRemovesRequest \/ HelperOpensReady \/ HelperWritesReady

Next ==
    \/ \E d \in Dirs :
          \/ Provider(d) \/ ProviderCannotWrite(d) \/ ProviderTimesOut(d)
          \/ ProviderRestarts(d) \/ RootfsContainerStarts(d) \/ PodReplaced(d)
    \/ Helper \/ HelperCannotRespond \/ HelperCrashes \/ NodeReboots

Spec == Init /\ [][Next]_mvars

\* The processes and the kubelet keep going, and polling that gets no answer
\* runs out; kills, crashes, reboots and errors need not happen.  A request that
\* is there again and again is taken: the helper scans twice a second, a provider
\* is restarted after a minute or so.
KubeletRestarts(d) == ProviderRestarts(d) /\ UNCHANGED left

FairSpec ==
    /\ Spec
    /\ WF_mvars(Helper)
    /\ \A d \in Dirs :
          /\ WF_mvars(Provider(d)) /\ WF_mvars(ProviderTimesOut(d))
          /\ SF_mvars(HelperTakesRequest(d))
          /\ WF_mvars(RootfsContainerStarts(d)) /\ WF_mvars(KubeletRestarts(d))

MountTypeOK ==
    /\ dir \in [Dirs -> Directory]
    /\ prov \in [Dirs -> ProviderPod]
    /\ helper \in MountHelper
    /\ served \in [Dirs -> BOOLEAN]
    /\ left \in [MountOps -> Nat]

\* The readiness probe of the provider pod passes.
PodReady(d) == dir[d].marker /\ prov[d].pc # "exited"

\* A ready provider pod has its own root filesystem mounted: the marker the
\* readiness probe looks at is only there once the overlay is, whatever the
\* crashes, retries and late answers on the way.
ReadyMeansMounted == \A d \in Dirs : PodReady(d) => dir[d].mounted = prov[d].pod

\* The helper has neither died nor failed to write an answer so far.
HelperReliable == \A op \in {"crash", "lostWrite"} : left[op] = MountBudget[op]

\* No request is lost: a provider that polls has its answer, or its request is
\* one the helper will take when its scan comes by.
RequestAnswered ==
    HelperReliable =>
        \A d \in Dirs :
            (prov[d].pc = "poll" /\ (helper.pc = "idle" \/ helper.at # d)) =>
                \/ dir[d].ready \in {"ready", "error"}
                \/ /\ dir[d].request = prov[d].pod
                   /\ ~(dir[d].ready # None /\ dir[d].newer)

\* A request is carried out once: until the provider asks again, by writing a
\* request or by removing the answer, scanning the directory again does not put
\* a second overlay on the first, even if request.json could not be removed.
MountedOnce ==
    [][(HelperReliable /\ HelperMounts) => ~served[helper.at]]_mvars

\* Every provider pod ends up ready, for good, on a mounted filesystem (its own
\* unless the pod was replaced), after any bounded number of failures, and
\* whatever happens to the pods of other directories that the helper serves.
\* What a helper that died has left undone is asked for again when polling runs
\* out, hence only as long as that may still happen.
Settled(d) ==
    /\ PodReady(d) /\ dir[d].mounted # None
    /\ prov[d].pod = 1 => dir[d].mounted = 1

NoTimeoutLeft == ~HelperReliable /\ left["timeout"] = 0

MountConverges == \A d \in Dirs : <>[](Settled(d) \/ NoTimeoutLeft)
=============================================================================
