--------------------------- MODULE MCRootfsMount ----------------------------
(* Small instances of RootfsMount for TLC. *)
EXTENDS RootfsMount, TLC

NoMountOps == [op \in MountOps |-> 0]

\* Every failure short of a third timeout, in one pod's life.
FailuresBudget ==
    "timeout" :> 2 @@ "torn" :> 1 @@ "kill" :> 1 @@ "crash" :> 1
      @@ "ioError" :> 1 @@ "lostWrite" :> 1 @@ "mountError" :> 1 @@ NoMountOps

\* Failures, the death of the helper, another pod in the same directory and a
\* reboot.
RecoveryBudget ==
    "timeout" :> 2 @@ "torn" :> 1 @@ "kill" :> 1 @@ "crash" :> 1
      @@ "replace" :> 1 @@ "reboot" :> 1 @@ NoMountOps

\* Two directories; rootfs containers are slow to start, a mount fails.
ScanBudget == "mountError" :> 1 @@ NoMountOps

TimeoutBudget == "timeout" :> 3 @@ NoMountOps
=============================================================================
