---------------------------- MODULE ConsumerPod -----------------------------
(***************************************************************************)
(* The life of one consumer pod on its node: the container kubelet makes   *)
(* from what ConsumerPodBuilder built, the exec-wrapper (cmd/exec-wrapper) *)
(* as its entrypoint, readiness probe and `kubectl exec' sessions, and the *)
(* mount-helper mounting the root filesystem meanwhile.                    *)
(*                                                                         *)
(* The container's /rootfs is a stack of layers.  The first is what the    *)
(* host directory showed when the container was created, with the user's   *)
(* volumes mounted into it; the helper's later mounts propagate on top of  *)
(* it.  A chroot stays in the layer that was on top when it was made.      *)
(***************************************************************************)
EXTENDS Naturals, ConsumerPodBuilder

CONSTANTS Templates,       \* pod templates to build the consumer from
          MaxAttempts,     \* checks of the entrypoint before it gives up
          ConsumerBudget   \* how often each operation of ConsumerOps may happen

\* exit: the user's command ends; exec: a session is opened; remount: the
\* provider's container restarts and asks for its mount again; procFails: proc
\* cannot be mounted; rotate: kubelet replaces the service account token;
\* reboot: the node is restarted.
ConsumerOps == {"exit", "exec", "remount", "procFails", "rotate", "reboot"}

ASSUME TemplatesAssumption == \A t \in Templates : TemplateOK(t)
ASSUME MaxAttemptsAssumption == MaxAttempts \in Nat \ {0}
ASSUME ConsumerBudgetAssumption == ConsumerBudget \in [ConsumerOps -> Nat]

VARIABLES
    template, \* the instance's pod template
    pod,      \* the pod as built
    host,     \* overlays on the host directory, with whether proc is in them
    helper,   \* the mount-helper: "idle", "asked", "special"
    tree,     \* the layers of the container's /rootfs, empty without container
    entry,    \* the container's process
    ready,    \* kubelet's last word on readiness
    session,  \* a `kubectl exec' session
    token,    \* version of the service account token
    account,  \* the service account directory in the files of the root
              \* filesystem: whether it is there, version of a copied token or 0
    left      \* what is left of ConsumerBudget

cvars == <<template, pod, host, helper, tree, entry, ready, session, token,
           account, left>>

Spend(op) == left[op] > 0 /\ left' = [left EXCEPT ![op] = @ - 1]

\* overlay: the image's root filesystem and not just the empty directory; proc,
\* secrets: /proc and the service account directory are mounted in it; volumes:
\* the user's mounts in it.
Layer(overlay, proc, volumes) ==
    [overlay |-> overlay, proc |-> proc, secrets |-> FALSE, volumes |-> volumes]

Top == tree[Len(tree)]
SetTop(l) == tree' = [tree EXCEPT ![Len(tree)] = l]

Absent == [pc |-> "absent", attempt |-> 0, layer |-> 0]
NoSession == [pc |-> "none", layer |-> 0]
NoAccount == [dir |-> FALSE, token |-> 0]

\* The controller creates the pod once the provider is ready, hence mounted.
Init ==
    /\ template \in Templates
    /\ pod = Build("x", template)
    /\ host = <<TRUE>>
    /\ helper = "idle"
    /\ tree = <<>>
    /\ entry = Absent
    /\ ready = FALSE
    /\ session = NoSession
    /\ token = 1 /\ account = NoAccount
    /\ left = ConsumerBudget

------------------------------------------------------- \* The mount-helper
ProviderAsksAgain ==
    /\ helper = "idle"
    /\ Spend("remount")
    /\ helper' = "asked"
    /\ UNCHANGED <<template, pod, host, tree, entry, ready, session, token,
                   account>>

\* The overlay goes on top, there and in the container.
HelperMountsOverlay ==
    /\ helper = "asked"
    /\ helper' = "special"
    /\ host' = Append(host, FALSE)
    /\ tree' = IF tree = <<>> THEN <<>>
               ELSE Append(tree, Layer(TRUE, FALSE, {}))
    /\ UNCHANGED <<template, pod, entry, ready, session, token, account, left>>

HelperMountsProc ==
    /\ helper = "special"
    /\ helper' = "idle"
    /\ host' = [host EXCEPT ![Len(host)] = TRUE]
    /\ tree' = IF tree = <<>> THEN <<>>
               ELSE [tree EXCEPT ![Len(tree)] = [@ EXCEPT !.proc = TRUE]]
    /\ UNCHANGED <<template, pod, entry, ready, session, token, account, left>>

\* A warning is logged and the answer is "ready" all the same.
HelperCannotMountProc ==
    /\ helper = "special"
    /\ Spend("procFails")
    /\ helper' = "idle"
    /\ UNCHANGED <<template, pod, host, tree, entry, ready, session, token,
                   account>>

--------------------------------------------------------------- \* Kubelet
\* A path is that of a directory or of something in it.
Within(directory, path) ==
    Len(directory) <= Len(path) /\ SubSeq(path, 1, Len(directory)) = directory

\* The mounts of the main container below /rootfs, seen from the chroot.
ChrootVolumes ==
    {Mount(m.name, Tail(m.path)) :
        m \in {x \in Range(pod.main.mounts) :
                  Within(RootfsMountPath, x.path) /\ x.path # RootfsMountPath}}

\* sc-exec --init, which nothing later depends on but the paths of sc-exec.
InitContainersRun ==
    /\ entry.pc = "absent"
    /\ entry' = [entry EXCEPT !.pc = "created"]
    /\ UNCHANGED <<template, pod, host, helper, tree, ready, session, token,
                   account, left>>

\* /rootfs is what the host directory shows at this moment.
ContainerStarts ==
    /\ entry.pc = "created"
    /\ tree' = <<IF host = <<>> THEN Layer(FALSE, FALSE, ChrootVolumes)
                 ELSE Layer(TRUE, host[Len(host)], ChrootVolumes)>>
    /\ entry' = [pc |-> "wait", attempt |-> 0, layer |-> 0]
    /\ UNCHANGED <<template, pod, host, helper, ready, session, token, account,
                   left>>

\* The container is over, and everything in it.
ContainerEnds ==
    /\ entry' = [Absent EXCEPT !.pc = "exited"]
    /\ tree' = <<>>
    /\ ready' = FALSE
    /\ session' = NoSession

CommandExits ==
    /\ entry.pc = "run"
    /\ Spend("exit")
    /\ ContainerEnds
    /\ UNCHANGED <<template, pod, host, helper, token, account>>

KubeletRestartsContainer ==
    /\ entry.pc = "exited" /\ pod.restartPolicy = "Always"
    /\ entry' = [entry EXCEPT !.pc = "created"]
    /\ UNCHANGED <<template, pod, host, helper, tree, ready, session, token,
                   account, left>>

TokenRotates ==
    /\ Spend("rotate")
    /\ token' = token + 1
    /\ UNCHANGED <<template, pod, host, helper, tree, entry, ready, session,
                   account>>

\* The mounts are gone and every container is made anew, the one whose root
\* filesystem is shared too; the provider asks for its mount again.
NodeReboots ==
    /\ Spend("reboot")
    /\ host' = <<>>
    /\ helper' = "asked"
    /\ tree' = <<>>
    /\ entry' = Absent
    /\ ready' = FALSE
    /\ session' = NoSession
    /\ account' = NoAccount
    /\ UNCHANGED <<template, pod, token>>

---------------------------------------------- \* sc-exec as the entrypoint
\* The path must exist on top, as /proc does in any image; /proc/mounts lists
\* what other mounts cover too.
isMounted(what) ==
    \E i \in DOMAIN tree :
        tree[i][what] /\ (what = "proc" \/ i = Len(tree) \/ account.dir)

\* /rootfs/bin or /rootfs/usr/bin exists: the image's, or the place of a
\* user's mount.
BinExists ==
    \/ Top.overlay
    \/ \E m \in Top.volumes : \E bin \in {<<"bin">>, <<"usr", "bin">>} :
           Within(bin, m.path)

RootfsReady == BinExists /\ isMounted("proc")

\* Mutant: the loop ends one check too early and without giving up.
EntrypointFindsReadyOrStops ==
    /\ entry.pc = "wait" /\ (RootfsReady \/ entry.attempt = MaxAttempts - 1)
    /\ entry' = [entry EXCEPT !.pc = "secrets"]
    /\ UNCHANGED <<template, pod, host, helper, tree, ready, session, token,
                   account, left>>

EntrypointFindsReady ==
    /\ entry.pc = "wait" /\ RootfsReady
    /\ entry' = [entry EXCEPT !.pc = "secrets"]
    /\ UNCHANGED <<template, pod, host, helper, tree, ready, session, token,
                   account, left>>

\* Mutant: one check too many.
EntrypointWaitsOnceMore ==
    /\ entry.pc = "wait" /\ ~RootfsReady /\ entry.attempt < MaxAttempts
    /\ entry' = [entry EXCEPT !.attempt = @ + 1]
    /\ UNCHANGED <<template, pod, host, helper, tree, ready, session, token,
                   account, left>>

EntrypointWaits ==
    /\ entry.pc = "wait" /\ ~RootfsReady /\ entry.attempt < MaxAttempts - 1
    /\ entry' = [entry EXCEPT !.attempt = @ + 1]
    /\ UNCHANGED <<template, pod, host, helper, tree, ready, session, token,
                   account, left>>

EntrypointGivesUp ==
    /\ entry.pc = "wait" /\ ~RootfsReady /\ entry.attempt = MaxAttempts - 1
    /\ ContainerEnds
    /\ UNCHANGED <<template, pod, host, helper, token, account, left>>

CanMount == "SYS_ADMIN" \in pod.main.caps

\* Mutant: the secrets are always copied.
mountServiceAccountSecretsByCopy ==
    /\ entry.pc = "secrets"
    /\ account' = [dir |-> TRUE, token |-> token]
    /\ entry' = [entry EXCEPT !.pc = "chroot"]
    /\ UNCHANGED <<template, pod, host, helper, tree, ready, session, token,
                   left>>

\* The directory is made on what is on top.
AccountDir == account.dir \/ Top.overlay

\* A bind mount where the container may, which a copy stands in for elsewhere.
mountServiceAccountSecrets ==
    /\ entry.pc = "secrets"
    /\ IF CanMount
       THEN /\ SetTop([Top EXCEPT !.secrets = TRUE])
            /\ account' = [account EXCEPT !.dir = AccountDir]
       ELSE account' = [dir |-> AccountDir, token |-> token] /\ UNCHANGED tree
    /\ entry' = [entry EXCEPT !.pc = "chroot"]
    /\ UNCHANGED <<template, pod, host, helper, ready, session, token, left>>

\* The chroot is in the top layer; the command is one of the image.
CanChroot == "SYS_CHROOT" \in pod.main.caps /\ Top.overlay

EntrypointRunsCommand ==
    /\ entry.pc = "chroot" /\ CanChroot /\ Len(pod.main.command) > 3
    /\ entry' = [entry EXCEPT !.pc = "run", !.layer = Len(tree)]
    /\ UNCHANGED <<template, pod, host, helper, tree, ready, session, token,
                   account, left>>

EntrypointFails ==
    /\ entry.pc = "chroot" /\ ~(CanChroot /\ Len(pod.main.command) > 3)
    /\ ContainerEnds
    /\ UNCHANGED <<template, pod, host, helper, token, account, left>>

--------------------------------- \* sc-exec as readiness probe and in sessions
InContainer == tree # <<>>

handleReadinessProbe ==
    /\ InContainer /\ ready # RootfsReady
    /\ ready' = RootfsReady
    /\ UNCHANGED <<template, pod, host, helper, tree, entry, session, token,
                   account, left>>

UserExecs ==
    /\ InContainer /\ session.pc = "none"
    /\ Spend("exec")
    /\ session' = [session EXCEPT !.pc = "mounts"]
    /\ UNCHANGED <<template, pod, host, helper, tree, entry, ready, token,
                   account>>

\* What /proc/mounts does not list is mounted, if the container may; failures
\* are passed over.
setupMounts ==
    /\ session.pc = "mounts"
    /\ IF CanMount
       THEN SetTop([Top EXCEPT !.proc = @ \/ ~isMounted("proc"),
                               !.secrets = @ \/ ~isMounted("secrets")])
       ELSE UNCHANGED tree
    /\ account' = [account EXCEPT !.dir = AccountDir]
    /\ session' = [session EXCEPT !.pc = "find"]
    /\ UNCHANGED <<template, pod, host, helper, entry, ready, token, left>>

chrootExec ==
    /\ session.pc = "find" /\ CanChroot
    /\ session' = [pc |-> "run", layer |-> Len(tree)]
    /\ UNCHANGED <<template, pod, host, helper, tree, entry, ready, token,
                   account, left>>

\* findBinary finds nothing in the empty directory, and the user's process ends.
SessionEnds ==
    /\ session.pc = "run" \/ (session.pc = "find" /\ ~CanChroot)
    /\ session' = NoSession
    /\ UNCHANGED <<template, pod, host, helper, tree, entry, ready, token,
                   account, left>>

Kubelet ==
    \/ InitContainersRun \/ ContainerStarts \/ KubeletRestartsContainer

Helper == HelperMountsOverlay \/ HelperMountsProc

Entrypoint ==
    \/ EntrypointFindsReady \/ EntrypointWaits \/ EntrypointGivesUp
    \/ mountServiceAccountSecrets \/ EntrypointRunsCommand \/ EntrypointFails

Session == setupMounts \/ chrootExec \/ SessionEnds

Next ==
    \/ Kubelet \/ Helper \/ Entrypoint \/ Session
    \/ handleReadinessProbe \/ UserExecs
    \/ ProviderAsksAgain \/ HelperCannotMountProc
    \/ CommandExits \/ TokenRotates \/ NodeReboots

Spec == Init /\ [][Next]_cvars

\* Kubelet, the helper and the processes it started go on; the probe is
\* repeated as long as the container is there.
FairSpec ==
    /\ Spec
    /\ WF_cvars(Kubelet) /\ WF_cvars(Helper) /\ WF_cvars(Entrypoint)
    /\ WF_cvars(handleReadinessProbe)

-----------------------------------------------------------------------------
ConsumerTypeOK ==
    /\ template \in Templates
    /\ host \in Seq(BOOLEAN)
    /\ helper \in {"idle", "asked", "special"}
    /\ \A i \in DOMAIN tree : /\ tree[i].overlay \in BOOLEAN
                             /\ tree[i].proc \in BOOLEAN
                             /\ tree[i].secrets \in BOOLEAN
    /\ entry \in [pc : {"absent", "created", "wait", "secrets", "chroot", "run",
                        "exited"},
                  attempt : 0 .. MaxAttempts - 1, layer : 0 .. Len(tree)]
    /\ session \in [pc : {"none", "mounts", "find", "run"},
                    layer : 0 .. Len(tree)]
    /\ (entry.pc \in {"wait", "secrets", "chroot", "run"}) <=> InContainer
    /\ ready \in BOOLEAN
    /\ token \in Nat /\ account \in [dir : BOOLEAN, token : 0 .. token]

Distinct(s) == \A i, j \in DOMAIN s : s[i] = s[j] => i = j
NamesOf(s) == [i \in DOMAIN s |-> s[i].name]
PathsOf(s) == [i \in DOMAIN s |-> s[i].path]

\* The pod is one the API server accepts, whatever the template names its
\* volumes and containers: no name and no mount path is used twice and every
\* mount is of a volume of the pod; and the controllers find it by its labels,
\* whatever labels the template has.  Only the main and the init containers are
\* rewritten: a further container with a mount breaks this.
PodWellFormed ==
    LET containers == <<pod.main>> \o pod.initContainers \o pod.sidecars
    IN  /\ pod.labels["instance"] = pod.name /\ pod.labels["role"] = "consumer"
        /\ Distinct(pod.volumes)
        /\ Distinct(NamesOf(containers))
        /\ \A i \in DOMAIN containers :
               /\ Distinct(PathsOf(containers[i].mounts))
               /\ Range(NamesOf(containers[i].mounts)) \subseteq Range(pod.volumes)

\* The processes of the user that run now, by the layer they are in.
UserLayers ==
    (IF entry.pc = "run" THEN {entry.layer} ELSE {})
        \cup (IF session.pc = "run" THEN {session.layer} ELSE {})

\* The user's command runs only in the image's root filesystem and with the
\* helper's proc mount in it or in what it covers: the entrypoint waits for
\* both, gives up rather than go on, and a container that may mount can have
\* proc from a session of its own.
CommandRunsComplete ==
    entry.pc = "run" =>
        /\ tree[entry.layer].overlay
        /\ \E i \in 1 .. entry.layer : tree[i].proc /\ (CanMount \/ tree[i].overlay)

SeesVolumes(l) ==
    \A m \in Range(MainOf(template).mounts) :
        Mount(UserName(m.name), m.path) \in tree[l].volumes

\* A process of the user finds every volume of the template at the path the
\* template gives, as the comments of buildVolumeMounts and buildVolumes say:
\* "so init containers can write files that are visible inside the chroot".
VolumesVisible == \A l \in UserLayers : SeesVolumes(l)

\* It does so in the layer its container was created on.
VolumesVisibleInFirstLayer == \A l \in UserLayers : l = 1 => SeesVolumes(l)

\* In that layer a container that may mount follows the rotation of the
\* service account token, in its command and in sessions; the copy that others
\* get stays as it was when the container started.
TokenFollowed ==
    \A l \in UserLayers :
        l = 1 => (IF tree[l].secrets THEN token ELSE account.token) = token \/ ~CanMount

HostComplete == host # <<>> /\ host[Len(host)]

\* Once the helper has mounted the root filesystem with proc, for good, the
\* command runs and the pod is ready: through exits of the command, an
\* entrypoint that gives up before the mount is there, and a reboot.
CommandRuns == <>[]HostComplete => <>[](entry.pc = "run" /\ ready)
=============================================================================
