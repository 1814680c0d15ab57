------------------------------ MODULE MCManaged ------------------------------
(* Instance of ManagedCluster for TLC: every managed cloud; SkySQL 2, which  *)
(* asks the cluster file for the driver, with both orders of environments.   *)
EXTENDS ManagedCluster

AllClouds == {<<"skysql", DbFirst>>, <<"skysql2", DriverFirst>>, <<"skysql2", DbFirst>>,
              <<"aurora", DbFirst>>, <<"rds", DbFirst>>, <<"alloydb", DriverFirst>>}
=============================================================================
