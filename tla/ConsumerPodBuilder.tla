------------------------- MODULE ConsumerPodBuilder -------------------------
(***************************************************************************)
(* The pod that runs the user's command, as ConsumerPodBuilder.Build makes *)
(* it out of the instance's pod template.                                  *)
(*                                                                         *)
(* A name is a sequence of parts, so that prefixing a user's name with     *)
(* "user-" puts a part in front of it; a path is the sequence of its       *)
(* components.  A template has containers, initContainers, volumes (names),*)
(* labels and restartPolicy; a container has a name, command, args,        *)
(* workingDir, mounts and caps, the capabilities it asks for.              *)
(***************************************************************************)
EXTENDS Naturals, Sequences, Functions

RootfsMountPath    == <<"rootfs">>
ExecWrapperBinPath == <<".sc-bin">>

PropagatedVolumeName  == <<"sc-propagated">>
ExecWrapperVolumeName == <<"sc-exec-wrapper">>
BinOverlayVolumeName  == <<"sc-bin-overlay">>
SystemVolumes ==
    <<PropagatedVolumeName, ExecWrapperVolumeName, BinOverlayVolumeName>>

UserName(name) == <<"user">> \o name
Mount(name, path) == [name |-> name, path |-> path]

\* The words names and paths consist of: the user's and those of the builder.
OwnWords == {"user", "consumer", "exec-wrapper-init", "rootfs", ".sc-bin", "bin",
             "sc-propagated", "sc-exec-wrapper", "sc-bin-overlay"}
Words == STRING \cup OwnWords

\* What Build takes from a template; labels are any function.
MountSpec == [name : Seq(Words), path : Seq(Words)]

ContainerSpec ==
    [name : Seq(Words), command : Seq(Words), args : Seq(Words), workingDir : STRING,
     mounts : Seq(MountSpec), caps : SUBSET STRING]

TemplateOK(t) ==
    /\ t.containers \in Seq(ContainerSpec) /\ t.initContainers \in Seq(ContainerSpec)
    /\ t.volumes \in Seq(Seq(Words))

\* A container that only has a name; Build gives it the rest.
FallbackContainer ==
    [name |-> <<"consumer">>, command |-> <<>>, args |-> <<>>,
     workingDir |-> "", mounts |-> <<>>, caps |-> {}]

MainOf(template) ==
    IF template.containers = <<>> THEN FallbackContainer ELSE Head(template.containers)

\* Mutant: no command is put in the place of a missing one.
buildUserCommandAsGiven(c) == c.command \o c.args

buildUserCommand(c) ==
    IF c.command = <<>> /\ c.args = <<>> THEN <<"/bin/sh">> ELSE c.command \o c.args

buildEntrypointCommand(userCommand, workingDir) ==
    <<"/sc-exec", "--entrypoint", IF workingDir = "" THEN "/" ELSE workingDir>>
        \o userCommand

SystemMounts ==
    <<Mount(PropagatedVolumeName, RootfsMountPath),
      Mount(ExecWrapperVolumeName, ExecWrapperBinPath),
      Mount(BinOverlayVolumeName, <<"bin">>)>>

\* Mutant: a user's volume is mounted at the path the user gave only.
buildVolumeMountsOnce(userMounts) ==
    SystemMounts \o [i \in DOMAIN userMounts |->
                        Mount(UserName(userMounts[i].name), userMounts[i].path)]

\* A user's volume is mounted twice: for the container and for the chroot.
buildVolumeMounts(userMounts) ==
    SystemMounts \o [i \in 1 .. 2 * Len(userMounts) |->
        LET m == userMounts[(i + 1) \div 2]
        IN  Mount(UserName(m.name), IF i % 2 = 1 THEN m.path ELSE RootfsMountPath \o m.path)]

\* Mutant: the user's volumes keep their names.
buildVolumesAsNamed(userVolumes) == SystemVolumes \o userVolumes

buildVolumes(userVolumes) ==
    SystemVolumes \o [i \in DOMAIN userVolumes |-> UserName(userVolumes[i])]

\* What the user wants dropped is not dropped.
buildSecurityContext(userCaps) == {"SYS_CHROOT"} \cup userCaps

ExecWrapperInit ==
    [name |-> <<"exec-wrapper-init">>,
     mounts |-> <<Mount(ExecWrapperVolumeName, ExecWrapperBinPath),
                  Mount(BinOverlayVolumeName, <<"sc-bin-overlay">>)>>]

buildInitContainers(userInits) ==
    <<ExecWrapperInit>> \o [i \in DOMAIN userInits |->
        LET c == userInits[i]
        IN  [name |-> UserName(c.name),
             mounts |-> [j \in DOMAIN c.mounts |->
                            Mount(UserName(c.mounts[j].name), c.mounts[j].path)]]]

\* The labels the controllers find the pod by replace the user's.
buildLabels(sci, userLabels) ==
    [k \in {"managed-by", "instance", "role"} \cup DOMAIN userLabels |->
        IF k = "managed-by" THEN "stoppablecontainer"
        ELSE IF k = "instance" THEN sci
        ELSE IF k = "role" THEN "consumer"
        ELSE userLabels[k]]

BuildWithPolicyOf(policy, sci, template) ==
    LET main == MainOf(template)
    IN  [name |-> sci,
         labels |-> buildLabels(sci, template.labels),
         initContainers |-> buildInitContainers(template.initContainers),
         main |-> [name |-> <<"consumer">>,
                   command |-> buildEntrypointCommand(buildUserCommand(main),
                                                      main.workingDir),
                   mounts |-> buildVolumeMounts(main.mounts),
                   caps |-> buildSecurityContext(main.caps)],
         \* the other containers are left as they are
         sidecars |-> IF template.containers = <<>> THEN <<>>
                      ELSE Tail(template.containers),
         volumes |-> buildVolumes(template.volumes),
         restartPolicy |-> policy]

\* Mutant: the restart policy of the template is kept.
BuildKeepingPolicy(sci, template) ==
    BuildWithPolicyOf(template.restartPolicy, sci, template)

Build(sci, template) == BuildWithPolicyOf("Always", sci, template)
=============================================================================
