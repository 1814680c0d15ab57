--------------------------- MODULE ComponentScripts ---------------------------
(***************************************************************************)
(* What the classes of backends, proxies and drivers run on their machines *)
(* to configure, install, clean, start and stop: one operator per method,  *)
(* a sequence of scripts. Commands and scripts without an effect that      *)
(* another one or a property depends on (chmod, ulimit, a look at the      *)
(* memory) are left out: their failure is that of the script that follows. *)
(***************************************************************************)
EXTENDS RemoteScripts

Facts == {"raid", "mounted",                          \* storage
          "repo", "pkg", "user", "link", "nested",    \* packages and accounts
          "conf", "conftmp", "certs",                 \* configuration
          "data", "db", "running", "member",          \* a database server
          "expbin", "exporter",                       \* its Prometheus exporter
          "tarball", "object",                        \* Xpand's distribution
          "cslink", "csnested", "cmapi",              \* ColumnStore
          "dir", "client", "env", "wlsrc", "bench",   \* a driver
          "src", "xsrc", "build", "ext", "server",            \* Xm, Xgres
          "podman", "network", "prometheus", "grafana", "dashboards"}

\* What does not survive a restart of the machine. The services of the
\* metrics server and the workload exporter are no concern of start and stop.
Volatile == {"running", "exporter", "cmapi"}

\* Storage of a backend's machine: none, one device, or several to be striped
Devices == {"none", "single", "several"}

(***************************************************************************)
(* Storage (backend/base_backend.py)                                       *)
(***************************************************************************)
mdadm_command(dev) ==
    IF dev = "several" THEN <<Run(<<Once({}, "raid")>>)>> ELSE <<>>

\* mutant of Umount: a lazy umount does not mind open files
UmountLazy == {Case({}, {}, {}, {"mounted", "data", "db"})}

\* ! mountpoint -q || umount -f: a server that has files open keeps it
\* mounted. What was mounted cannot be served any more, and mkfs is next.
Umount == {Case({}, {"mounted"}, {}, {}),
           Case({"mounted"}, {"running"}, {}, {"mounted", "data", "db"})}

\* mkfs -F refuses a mounted device and loses what was on it
mkdir_command ==
    Run(<<Umount,
          {Case({}, {"mounted"}, {}, {"data", "db"})},
          {Case({}, {"mounted"}, {"mounted"}, {})}>>)

\* SingleManagedBackend.configure, MultiManagedBackend.configure
StorageConfigure(dev) ==
    IF dev = "none" THEN <<>> ELSE mdadm_command(dev) \o <<mkdir_command>>

(***************************************************************************)
(* MariaDB (backend/mariadb) and MySQL (backend/mysql)                     *)
(***************************************************************************)
OsUser == Run(<<Once({}, "user"), Do({"link"})>>)

MariaDBCopyCerts == <<Run(<<With({"user"}, {"certs"})>>)>>

MariaDBConfigure(dev) == StorageConfigure(dev) \o <<OsUser>> \o MariaDBCopyCerts

MariaDBDownload == <<Run(<<Do({"repo"}), With({"repo"}, {"pkg"})>>)>>

MariaDBConfig == <<Run(<<Do({"conf"})>>)>>

\* rm -rf of the data directory, then mariadb-install-db or mysqld --initialize
InitData == Run(<<Remove({"data", "db"}), With({"pkg", "conf", "user"}, {"data"})>>)

SystemctlStart == Run(<<With({"pkg", "conf", "data"}, {"running"})>>)
SystemctlStop == Run(<<{Case({"pkg"}, {}, {}, {"running"})}>>)

CreateDatabaseAndUser == Run(<<With({"running"}, {"db"})>>)

\* connect, and what is executed over the connection
DbConnect == Sql(<<With({"running"}, {})>>)

\* The exporter is left in the background: its script succeeds in any case
MysqldExporter(service) ==
    <<SendFile("expbin"),
      Run(<<With({"running"}, {})>>),
      Run(<<IfThen("expbin", {"exporter"})>>),
      Register(service)>>

MariaDBInstall(download) ==
    download \o MariaDBConfig
    \o <<InitData, SystemctlStart, CreateDatabaseAndUser>>
    \o MysqldExporter("mariadb_exporter")
    \o <<DbConnect>>

\* pkill fails when there is no process to kill
MariaDBClean ==
    <<SystemctlStop,
      Run(<<Remove({"data", "db"})>>),
      Run(<<{Case({"exporter"}, {}, {}, {"exporter"})}>>)>>

MySQLDownload == <<Run(<<Do({"repo"}), With({"repo"}, {"pkg"})>>)>>

MySQLConfigure(dev) == StorageConfigure(dev) \o <<OsUser>>

MySQLInstall ==
    MySQLDownload \o MariaDBConfig
    \o <<InitData, SystemctlStart, CreateDatabaseAndUser>>
    \o MysqldExporter("mysql_exporter")
    \o <<DbConnect>>

MySQLClean == MariaDBClean

(***************************************************************************)
(* PostgreSQL (backend/postgresql)                                         *)
(***************************************************************************)
SetupPgdata ==
    <<Run(<<Remove({"data", "db", "conf"})>>), Run(<<With({"pkg"}, {})>>)>>

\* A configuration sent to /tmp and moved into the data directory
FinalizePostgresqlConf ==
    <<SendFile("conftmp"),
      Run(<<Move("conftmp", {"data"}, "conf")>>),
      Run(<<With({"conf"}, {})>>)>>

PostgresConfigure(dev) ==
    StorageConfigure(dev)
    \o <<Run(<<Do({"repo"})>>), Run(<<With({"repo"}, {"pkg"})>>)>>
    \o SetupPgdata
    \o <<Run(<<Once({"pkg"}, "data")>>), Run(<<With({"data"}, {})>>)>>
    \o FinalizePostgresqlConf

PostgresInstall ==
    <<SystemctlStart, CreateDatabaseAndUser,
      SendFile("expbin"), Run(<<IfThen("expbin", {"exporter"})>>),
      Register("postgres_exporter"), DbConnect>>

\* rm -rf of the data directory empties it, and fails where it is a mount
\* point. The package removed last is not the one that was installed.
PostgresClean ==
    <<SystemctlStop,
      Run(<<Remove({"data", "db", "conf"}), {Case({}, {"mounted"}, {}, {})}>>)>>

(***************************************************************************)
(* Xpand (backend/xpand), two nodes                                        *)
(***************************************************************************)
\* Its exporter is registered here, for each environment's metrics server
XpandConfigure(dev) ==
    StorageConfigure(dev) \o <<Register("xpand")>>

\* The installer wants the unpacked distribution and leaves a running node
\* with an empty database
XpdnodeInstall ==
    <<Lenient(<<Do({"tarball"})>>),
      Run(<<With({"tarball"}, {"object"}),
            LinkDir("link", "nested"),
            {Case({"object", "mounted"}, {}, {"pkg", "conf", "data", "running"}, {"db", "member"})}>>)>>

\* self_test wants a quorum of all nodes and clx on each of them
XpandSelfTest == Run(<<With({"running", "member"}, {})>>)

ClustrixStart == Run(<<With({"pkg", "conf", "data"}, {"running"})>>)
ClustrixStop == Run(<<Remove({"running"})>>)
XpandStatdToExporter ==
    <<Run(<<With({"running", "pkg"}, {})>>),
      Run(<<With({"pkg", "conf", "data"}, {"running"})>>)>>
XpandOptions == <<Run(<<With({"conf"}, {})>>)>>
SetZones == <<Sql(<<With({"running", "member"}, {})>>)>>
SetPasswordlessSsh ==
    <<Run(<<With({"pkg"}, {})>>), Lenient(<<With({"pkg"}, {})>>)>>

XpandInstall ==
    XpdnodeInstall
    \o On(HeadNode, <<CreateDatabaseAndUser, DbConnect>>)
    \o <<Sql(<<With({"running"}, {"member"})>>), XpandSelfTest>>
    \o XpandStatdToExporter \o XpandOptions
    \o <<ClustrixStop, ClustrixStart>>
    \o On(HeadNode, <<DbConnect>>) \o SetZones \o On(HeadNode, <<DbConnect>>)
    \o SetPasswordlessSsh

\* lsof fails when no process is left with a file open in the directory
KillProcs == Search(<<Remove({"running"})>>)

XpandClean ==
    <<ClustrixStop>> \o On({1}, <<KillProcs>>) \o On({2}, <<KillProcs>>)
    \o <<Run(<<Remove({"data", "db", "member"}),
              {Case({"mounted"}, {"running"}, {}, {"mounted"})},
              Remove({"pkg", "conf"}), Remove({"link"})>>)>>

(***************************************************************************)
(* ColumnStore (backend/columnstore), two nodes with a MariaDB server each *)
(***************************************************************************)
EachNode(scripts) == On({1}, scripts) \o On({2}, scripts)

ColumnStoreConfigure(dev) ==
    EachNode(MariaDBConfigure(dev))
    \o <<Run(<<Remove({"cslink", "csnested"})>>),
         Run(<<LinkDir("cslink", "csnested")>>),
         Run(<<With({"user", "cslink"}, {})>>)>>

\* From an artifact store, a repository or a local directory
ColumnStorePackages == <<Run(<<Do({"pkg"})>>)>>

Restart == Run(<<With({"pkg", "conf", "data"}, {"running"})>>)

ConfigureReplication ==
    <<Run(<<With({"pkg"}, {})>>), Restart>>
    \o On({1}, <<Run(<<With({"running"}, {})>>)>>)
    \o On({2}, <<Run(<<With({"running"}, {"member"})>>)>>)
    \o <<Run(<<With({"pkg"}, {})>>), Restart>>

ColumnStoreStart == EachNode(<<SystemctlStart>>) \o <<Run(<<With({"pkg"}, {"cmapi"})>>)>>

ColumnStoreInstall ==
    ColumnStorePackages
    \o EachNode(MariaDBInstall(<<>>))
    \o <<Run(<<With({"user", "cslink"}, {})>>)>>
    \o ConfigureReplication \o ColumnStoreStart
    \o On(HeadNode, <<Run(<<With({"cmapi"}, {})>>)>>)

\* The request goes to a host called mcs1, which no configuration names
ColumnStoreStop ==
    On(HeadNode, <<Run(<<Fails>>)>>)
    \o EachNode(<<SystemctlStop>>) \o <<Run(<<Remove({"cmapi"})>>)>>

ColumnStoreClean ==
    ColumnStoreStop
    \o <<Run(<<Remove({"cslink", "csnested"})>>)>>
    \o EachNode(MariaDBClean) \o <<Run(<<Remove({"pkg"})>>)>>

(***************************************************************************)
(* Proxies (proxy/maxscale, proxy/xm, proxy/xgres)                         *)
(***************************************************************************)
MaxscaleDownload == Run(<<Do({"repo"})>>)
MaxscaleConfigure == <<MaxscaleDownload>>
MaxscaleInstall == <<MaxscaleDownload, Run(<<With({"repo"}, {"pkg"})>>)>>
MaxscaleStart == Run(<<With({"pkg", "conf"}, {"running"})>>)
MaxscalePostInstall == <<Run(<<Do({"conf"})>>), MaxscaleStart>>
MaxscaleClean == <<SystemctlStop, Run(<<Remove({"repo", "pkg"})>>)>>

\* The build runs in a shell of script(1): no command that fails stops it
XmInstall ==
    <<Lenient(<<Do({"pkg"}), With({"pkg"}, {"src"}), With({"src"}, {"build"}),
                With({"build"}, {"data"})>>)>>
\* mariadbd-safe is left in the background
XmStart == Run(<<IfThen("data", {"running"})>>)
XmPostInstall == <<Run(<<With({"build"}, {"conf"})>>), XmStart>>
XmStop == Run(<<{Case({"running"}, {}, {}, {"running"})}>>)
XmClean == <<XmStop, Run(<<Remove({"build", "src", "data", "conf"})>>)>>

\* Its device is fixed; postgres and xgres are built by a chain of commands
\* whose failure is ignored
XgresConfigure ==
    <<Run(<<Once({}, "user")>>), mkdir_command, Run(<<Do({"pkg"})>>),
      SendFile("conftmp"), Run(<<Move("conftmp", {"user"}, "env")>>),
      Chain(<<Once({"user", "pkg"}, "src"), With({"mounted", "env"}, {"build"})>>),
      Chain(<<Once({"build"}, "xsrc"), With({"xsrc"}, {"ext"})>>)>>
XgresInstall ==
    <<Chain(<<Once({"build"}, "data")>>), Chain(<<With({"data"}, {})>>),
      SendFile("conftmp"), Chain(<<Move("conftmp", {"data"}, "conf")>>),
      Chain(<<With({"build", "data"}, {"running"})>>)>>
\* psql succeeds once it is connected; CREATE SERVER fails the second time
XgresPostInstall ==
    <<Run(<<With({"running"}, {"db"})>>), Run(<<With({"running"}, {})>>), DbConnect,
      Sql(<<With({"running", "ext"}, {})>>), Sql(<<Once({"running"}, "server")>>)>>
\* pg_ctl has no command shutdown, and what it says is ignored
XgresStop == Chain(<<Fails>>)
XgresClean ==
    <<XgresStop,
      Run(<<Remove({"build", "data", "conf", "db", "ext", "server"})>>),
      Run(<<Remove({"pkg"})>>)>>

(***************************************************************************)
(* Driver with its benchmark (driver/base_driver.py and benchmark)         *)
(***************************************************************************)
\* The command that would mount the storage is made and not run
DriverConfigure ==
    <<Run(<<Do({"dir"}), Do({"repo"}), With({"repo"}, {"client"})>>), Run(<<Do({"env"})>>)>>

WorkloadExporter ==
    <<Run(<<Once({"dir", "client"}, "wlsrc"), With({"wlsrc"}, {"exporter"})>>),
      Register("workload_exporter")>>

\* Sysbench, Benchbase, HammerDB and Locust are cloned into the directory
BenchmarkInstall == <<Run(<<Once({"dir", "env"}, "bench")>>)>>
BenchmarkClean == <<Run(<<Remove({"bench"})>>)>>

DriverInstall == WorkloadExporter \o BenchmarkInstall

\* pip uninstall asks before it removes a package, and nobody answers; python3
\* itself has just been removed. It succeeds when it has nothing to remove.
UninstallWorkloadExporter ==
    <<Search(<<{Case({"wlsrc"}, {}, {}, {"exporter"})}, Remove({"wlsrc"})>>),
      Deregister("workload_exporter")>>

\* umount -f finds nothing mounted
DriverClean ==
    <<Run(<<Remove({"client"})>>)>>
    \o UninstallWorkloadExporter
    \o <<Search(<<Remove({})>>), Run(<<{Case({"mounted"}, {}, {}, {"mounted"})}>>)>>
    \o BenchmarkClean

(***************************************************************************)
(* A metrics server of its own (backend/metrics_server)                    *)
(***************************************************************************)
MetricsServerConfigure(dev) ==
    <<Run(<<Do({"podman"})>>), Run(<<Once({"podman"}, "network")>>)>>
    \o StorageConfigure(dev)
    \o <<SendFile("conftmp"), Run(<<Move("conftmp", {}, "conf")>>)>>
MetricsServerInstall ==
    <<Run(<<Once({"network", "conf"}, "prometheus")>>), Run(<<Once({"network"}, "grafana")>>),
      SendFile("conftmp"), Run(<<Move("conftmp", {}, "dashboards")>>), Run(<<With({"grafana"}, {})>>)>>

(***************************************************************************)
(* The methods by class                                                    *)
(***************************************************************************)
ConfigureOf == [dev \in Devices |->
    [MariaDB |-> MariaDBConfigure(dev), MySQL |-> MySQLConfigure(dev),
     Postgres |-> PostgresConfigure(dev), Xpand |-> XpandConfigure(dev),
     ColumnStore |-> ColumnStoreConfigure(dev), MetricsServer |-> MetricsServerConfigure(dev),
     Maxscale |-> MaxscaleConfigure, Xm |-> <<>>, Xgres |-> XgresConfigure,
     Driver |-> DriverConfigure]]

InstallOf ==
    [MariaDB |-> MariaDBInstall(MariaDBDownload), MySQL |-> MySQLInstall,
     Postgres |-> PostgresInstall, Xpand |-> XpandInstall, ColumnStore |-> ColumnStoreInstall,
     MetricsServer |-> MetricsServerInstall, Maxscale |-> MaxscaleInstall,
     Xm |-> XmInstall, Xgres |-> XgresInstall, Driver |-> DriverInstall]

PostInstallOf ==
    [Maxscale |-> MaxscalePostInstall, Xm |-> XmPostInstall, Xgres |-> XgresPostInstall]

\* MetricsServerBackend has no method clean: the call raises
CleanOf ==
    [MariaDB |-> MariaDBClean, MySQL |-> MySQLClean, Postgres |-> PostgresClean,
     Xpand |-> XpandClean, ColumnStore |-> ColumnStoreClean,
     MetricsServer |-> <<Sql(<<Fails>>)>>, Maxscale |-> MaxscaleClean,
     Xm |-> XmClean, Xgres |-> XgresClean, Driver |-> DriverClean]

\* Of the backends only: proxies and drivers are not started or stopped
StartOf ==
    [MariaDB |-> <<SystemctlStart>>, MySQL |-> <<SystemctlStart>>,
     Postgres |-> <<SystemctlStart>>, Xpand |-> <<ClustrixStart>>,
     ColumnStore |-> ColumnStoreStart]
StopOf ==
    [MariaDB |-> <<SystemctlStop>>, MySQL |-> <<SystemctlStop>>,
     Postgres |-> <<SystemctlStop>>, Xpand |-> <<ClustrixStop>>,
     ColumnStore |-> ColumnStoreStop]
=============================================================================
