--------------------------- MODULE MCConsumerPod ----------------------------
(* Small instances of ConsumerPod for TLC. *)
EXTENDS ConsumerPod, TLC

Container(name, command, mounts, caps) ==
    [name |-> name, command |-> command, args |-> <<>>, workingDir |-> "",
     mounts |-> mounts, caps |-> caps]

NoContainer ==
    [containers |-> <<>>, initContainers |-> <<>>, volumes |-> <<>>,
     labels |-> <<>>, restartPolicy |-> "Always"]

\* A volume that an init container fills for the command, a sidecar.
WithVolume ==
    [containers |-> <<Container(<<"app">>, <<"serve">>, <<Mount(<<"data">>, <<"data">>)>>, {}),
                      Container(<<"log">>, <<"log">>, <<>>, {})>>,
     initContainers |-> <<Container(<<"app">>, <<"fill">>,
                                    <<Mount(<<"data">>, <<"out">>)>>, {})>>,
     volumes |-> <<<<"data">>>>, labels |-> "role" :> "web", restartPolicy |-> "Never"]

\* A volume named like one of the builder's, and the right to mount.
WithMountRight ==
    [containers |-> <<Container(<<"consumer">>, <<"serve">>,
                                <<Mount(PropagatedVolumeName, <<"usr", "bin", "app">>)>>,
                                {"SYS_ADMIN"})>>,
     initContainers |-> <<>>, volumes |-> <<PropagatedVolumeName>>,
     labels |-> <<>>, restartPolicy |-> "OnFailure"]

ThreeTemplates == {NoContainer, WithVolume, WithMountRight}
VolumeTemplate == {WithVolume}

\* Everything once, and two sessions.
OnceBudget == "exec" :> 2 @@ [op \in ConsumerOps |-> 1]
RebootBudget == "reboot" :> 1 @@ [op \in ConsumerOps |-> 0]
=============================================================================
