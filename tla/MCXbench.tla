------------------------------ MODULE MCXbench ------------------------------
(***************************************************************************)
(* Instances of XbenchSystem for TLC: a driver without storage and a       *)
(* backend with a volume or a local disk, in one or in two environments.   *)
(***************************************************************************)
EXTENDS XbenchSystem, TLC

CONSTANTS c1, c2, driver, backend, proxy, s1

\* Who works on what
OneSession == s1 :> c1

\* Where the members live
OneEnv == [m \in Members |-> 1]
TwoEnvs == [m \in Members |-> IF m = backend THEN 2 ELSE 1]
OnlyRegion == <<"us-west-2">>
TwoRegions == <<"us-west-2", "us-east-1">>
OneCloud == <<"aws", "aws">>
TwoClouds == <<"aws", "gcp">>

\* What they ask for
BackendEbs == [m \in Members |-> IF m = backend THEN "ebs" ELSE "none"]
OneOfEach == [m \in Members |-> CASE m = backend -> "ephemeral"
                                   [] m = proxy -> "ebs"
                                   [] OTHER -> "none"]
NoStorage == [m \in Members |-> "none"]

\* Names of clusters: none is a prefix of another
OwnName == {<<c, c>> : c \in Clusters}

AllCommands == Steps \cup {"force", "deprovision", "nuke", "start", "stop"}
WithoutNuke == AllCommands \ {"nuke"}
WithoutTests == AllCommands \ {"test", "make", "clean"}
=============================================================================
