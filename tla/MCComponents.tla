---------------------------- MODULE MCComponents ----------------------------
(***************************************************************************)
(* Deployments of ComponentInstall small enough for TLC: every class of    *)
(* component, with every kind of storage and one or two environments.      *)
(***************************************************************************)
EXTENDS ComponentInstall

\* A backend, a proxy and a driver; the proxy and the driver are in environment e
Deploy(backend, proxy, driver, e, device) ==
    [kind   |-> [backend |-> backend, proxy |-> proxy, driver |-> driver],
     envs   |-> e,
     env    |-> [backend |-> 1, proxy |-> e, driver |-> e],
     device |-> device]

MCDeployments ==
    {Deploy("MariaDB", "Maxscale", "Driver", 2, "single"),
     Deploy("MariaDB", "none", "Driver", 1, "none"),
     Deploy("MySQL", "none", "none", 1, "several"),
     Deploy("Postgres", "Xgres", "none", 1, "single"),
     Deploy("Postgres", "none", "Driver", 1, "none"),
     Deploy("Xpand", "Xm", "none", 1, "single"),
     Deploy("ColumnStore", "none", "none", 1, "single"),
     Deploy("MetricsServer", "none", "none", 1, "single")}

MCCleanDeployments == {Deploy("MariaDB", "none", "Driver", 1, "single")}
=============================================================================
