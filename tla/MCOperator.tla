----------------------------- MODULE MCOperator -----------------------------
(* Small instances of Operator for TLC. *)
EXTENDS Operator, TLC

\* One StoppableContainer "x" with its pods "x" and "x-provider".
OneName == {"x"}
OneNamePods == {"x", "x-provider"}
OneNameProvider == [n \in OneName |-> "x-provider"]

\* Two, one of them named like the provider pod of the other.
CollidingNames == {"x", "x-provider"}
CollidingPods == {"x", "x-provider", "x-provider-provider"}
CollidingProvider ==
    "x" :> "x-provider" @@ "x-provider" :> "x-provider-provider"

\* No definition tells one node from another.
NodeSymmetry == Permutations(Nodes)

NoOps == [op \in EnvOps |-> 0]

\* Stop and start, with an API error and a manager restart.
StopStartBudget ==
    "create" :> 1 @@ "toggle" :> 2 @@ "error" :> 1 @@ "restart" :> 1 @@ NoOps

\* Deletion of the container or of its instance, and a second container under
\* the same name.
RecreateBudget ==
    "create" :> 2 @@ "delete" :> 1 @@ "deleteInstance" :> 1 @@ NoOps

\* Pods fail and are evicted.
DisturbedBudget ==
    "create" :> 1 @@ "toggle" :> 1 @@ "drain" :> 1 @@ "fail" :> 1 @@ NoOps

\* Stop and start again while an API call fails.
ConvergeBudget ==
    "create" :> 1 @@ "toggle" :> 2 @@ "error" :> 1 @@ NoOps

\* Deletion at any time, with an unready pod and a failed API call.
TeardownBudget ==
    "create" :> 1 @@ "delete" :> 1 @@ "error" :> 1 @@ "unready" :> 1 @@ NoOps

\* Two containers, one of them stopped.
TwoBudget == "create" :> 2 @@ "toggle" :> 1 @@ NoOps
=============================================================================
