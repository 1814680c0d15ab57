--------------------------- MODULE ComponentProofs ---------------------------
(***************************************************************************)
(* The software of a cluster, for every set of deployments, any number of  *)
(* environments, attempts and faults: threads stay within their scripts, a *)
(* start that returns has left every server running, and a cluster that is *)
(* gone has no target left at any metrics server.                          *)
(***************************************************************************)
EXTENDS ComponentInstall, TLAPS, WellFoundedInduction, SequenceTheorems

(***************************************************************************)
(* The scripts of every class are sequences of scripts                     *)
(***************************************************************************)
\* A case of a command, a command, a script and what methods return, as sets
Cases == [has : SUBSET Facts, lacks : SUBSET Facts, adds : SUBSET Facts, dels : SUBSET Facts]
Cmds == SUBSET Cases
\* The exporters that register at a metrics server
ServiceNames == {"", "mariadb_exporter", "mysql_exporter", "postgres_exporter", "xpand",
                 "workload_exporter"}
ScriptRecords == [method : Methods, cmds : Seq(Cmds), service : ServiceNames, on : SUBSET {1, 2}]
ScriptSeqs == Seq(ScriptRecords)

\* A case over known facts is a case.
LEMMA CaseType ==
    ASSUME NEW has \in SUBSET Facts, NEW lacks \in SUBSET Facts,
           NEW adds \in SUBSET Facts, NEW dels \in SUBSET Facts
    PROVE  Case(has, lacks, adds, dels) \in Cases
BY DEF Case, Cases

\* Every form of command is a set of cases.
LEMMA CommandTypes ==
    /\ \A S \in SUBSET Facts : Do(S) \in Cmds /\ Remove(S) \in Cmds
    /\ \A N, S \in SUBSET Facts : With(N, S) \in Cmds
    /\ \A N \in SUBSET Facts, f \in Facts : Once(N, f) \in Cmds
    /\ \A N \in SUBSET Facts, f, g \in Facts : Move(f, N, g) \in Cmds
    /\ \A f, g \in Facts : LinkDir(f, g) \in Cmds
    /\ \A S \in SUBSET Facts, f \in Facts : IfThen(f, S) \in Cmds
    /\ \A h, l, a, d \in SUBSET Facts : {Case(h, l, a, d)} \in Cmds
    /\ Fails \in Cmds
<1>0. {} \in SUBSET Facts /\ \A f \in Facts : {f} \in SUBSET Facts
  OBVIOUS
<1>1. \A h, l, a, d \in SUBSET Facts : Case(h, l, a, d) \in Cases
  BY CaseType
<1>2. \A h, l, a, d \in SUBSET Facts : {Case(h, l, a, d)} \in Cmds
  BY <1>1 DEF Cmds
<1>3. \A S \in SUBSET Facts : Do(S) \in Cmds /\ Remove(S) \in Cmds
  BY <1>0, <1>2 DEF Do, Remove
<1>4. \A N, S \in SUBSET Facts : With(N, S) \in Cmds
  BY <1>0, <1>2 DEF With
<1>5. \A N \in SUBSET Facts, f \in Facts : Once(N, f) \in Cmds
  BY <1>0, <1>2 DEF Once
<1>6. \A N \in SUBSET Facts, f, g \in Facts : Move(f, N, g) \in Cmds
  <2> TAKE N \in SUBSET Facts, f, g \in Facts
  <2>1. {f} \cup N \in SUBSET Facts
    OBVIOUS
  <2> QED BY <1>0, <1>2, <2>1 DEF Move
<1>7. \A f, g \in Facts : LinkDir(f, g) \in Cmds
  <2> TAKE f, g \in Facts
  <2>1. Case({}, {f}, {f}, {}) \in Cases /\ Case({f}, {g}, {g}, {}) \in Cases
    BY <1>0, <1>1
  <2> QED BY <2>1 DEF LinkDir, Cmds
<1>8. \A S \in SUBSET Facts, f \in Facts : IfThen(f, S) \in Cmds
  <2> TAKE S \in SUBSET Facts, f \in Facts
  <2>1. Case({f}, {}, S, {}) \in Cases /\ Case({}, {f}, {}, {}) \in Cases
    BY <1>0, <1>1
  <2> QED BY <2>1 DEF IfThen, Cmds
<1>9. Fails \in Cmds
  BY DEF Fails, Cmds
<1> QED BY <1>2, <1>3, <1>4, <1>5, <1>6, <1>7, <1>8, <1>9

\* A sequence of commands sent by any method is a script.
LEMMA ScriptTypes ==
    ASSUME NEW cmds \in Seq(Cmds)
    PROVE  /\ Run(cmds) \in ScriptRecords /\ Lenient(cmds) \in ScriptRecords
           /\ Chain(cmds) \in ScriptRecords /\ Sql(cmds) \in ScriptRecords
           /\ Search(cmds) \in ScriptRecords
<1>1. \A m \in Methods : Script(m, cmds, "") \in ScriptRecords
  BY DEF ScriptRecords, Script, ServiceNames
<1> QED BY <1>1 DEF Run, Lenient, Chain, Sql, Search, Methods

\* A message to the metrics server is a script without commands to fail.
LEMMA MessageTypes ==
    /\ \A f \in Facts : SendFile(f) \in ScriptRecords
    /\ \A s \in ServiceNames : Register(s) \in ScriptRecords /\ Deregister(s) \in ScriptRecords
<1>1. ASSUME NEW f \in Facts PROVE SendFile(f) \in ScriptRecords
  <2>1. Do({f}) \in Cmds
    BY CommandTypes
  <2>2. <<Do({f})>> \in Seq(Cmds)
    BY <2>1
  <2> QED BY <2>2 DEF ScriptRecords, Script, SendFile, Methods, ServiceNames
<1>2. \A s \in ServiceNames : Register(s) \in ScriptRecords /\ Deregister(s) \in ScriptRecords
  <2>1. <<>> \in Seq(Cmds)
    OBVIOUS
  <2> QED BY <2>1 DEF ScriptRecords, Script, Register, Deregister, Methods
<1> QED BY <1>1, <1>2

\* A script sent to some of the machines differs from the script only there.
LEMMA OnType ==
    ASSUME NEW N \in SUBSET {1, 2}, NEW s \in ScriptSeqs
    PROVE  /\ On(N, s) \in ScriptSeqs
           /\ Len(On(N, s)) = Len(s)
           /\ \A i \in 1..Len(s) : On(N, s)[i] = [s[i] EXCEPT !.on = N]
<1>1. DOMAIN s = 1..Len(s) /\ Len(s) \in Nat /\ \A i \in 1..Len(s) : s[i] \in ScriptRecords
  BY DEF ScriptSeqs
<1>2. \A i \in 1..Len(s) : [s[i] EXCEPT !.on = N] \in ScriptRecords
  BY <1>1 DEF ScriptRecords
<1>3. On(N, s) = [i \in 1..Len(s) |-> [s[i] EXCEPT !.on = N]]
  BY <1>1 DEF On
<1>4. On(N, s) \in [1..Len(s) -> ScriptRecords]
  BY <1>2, <1>3
<1>5. On(N, s) \in ScriptSeqs /\ Len(On(N, s)) = Len(s)
  BY <1>1, <1>4 DEF ScriptSeqs
<1> QED BY <1>3, <1>5

\* Every way to send commands makes a script.
LEMMA RunTypes ==
    /\ \A a \in Cmds : /\ Run(<<a>>) \in ScriptRecords /\ Sql(<<a>>) \in ScriptRecords
                       /\ Lenient(<<a>>) \in ScriptRecords /\ Chain(<<a>>) \in ScriptRecords
                       /\ Search(<<a>>) \in ScriptRecords
    /\ \A a, b \in Cmds : /\ Run(<<a, b>>) \in ScriptRecords /\ Chain(<<a, b>>) \in ScriptRecords
                          /\ Search(<<a, b>>) \in ScriptRecords
    /\ \A a, b, c \in Cmds : Run(<<a, b, c>>) \in ScriptRecords
    /\ \A a, b, c, d \in Cmds : Run(<<a, b, c, d>>) \in ScriptRecords /\ Lenient(<<a, b, c, d>>) \in ScriptRecords
<1>1. \A a \in Cmds : <<a>> \in Seq(Cmds)
  OBVIOUS
<1>2. \A a, b \in Cmds : <<a, b>> \in Seq(Cmds)
  OBVIOUS
<1>3. \A a, b, c \in Cmds : <<a, b, c>> \in Seq(Cmds)
  OBVIOUS
<1>4. \A a, b, c, d \in Cmds : <<a, b, c, d>> \in Seq(Cmds)
  OBVIOUS
<1> QED BY <1>1, <1>2, <1>3, <1>4, ScriptTypes

\* Scripts written one after the other are a sequence of scripts.
LEMMA TupleTypes ==
    /\ <<>> \in ScriptSeqs
    /\ \A a \in ScriptRecords : <<a>> \in ScriptSeqs
    /\ \A a, b \in ScriptRecords : <<a, b>> \in ScriptSeqs
    /\ \A a, b, c \in ScriptRecords : <<a, b, c>> \in ScriptSeqs
    /\ \A a, b, c, d \in ScriptRecords : <<a, b, c, d>> \in ScriptSeqs
    /\ \A a, b, c, d, e \in ScriptRecords : <<a, b, c, d, e>> \in ScriptSeqs
    /\ \A a, b, c, d, e, f \in ScriptRecords : <<a, b, c, d, e, f>> \in ScriptSeqs
    /\ \A a, b, c, d, e, f, g \in ScriptRecords : <<a, b, c, d, e, f, g>> \in ScriptSeqs
    /\ \A s, t \in ScriptSeqs : s \o t \in ScriptSeqs
BY DEF ScriptSeqs

\* What a command may name.
LEMMA KnownFacts ==
    /\ {} \in SUBSET Facts
    /\ "raid" \in Facts /\ "mounted" \in Facts /\ "repo" \in Facts /\ "pkg" \in Facts
    /\ "user" \in Facts /\ "link" \in Facts /\ "nested" \in Facts /\ "conf" \in Facts
    /\ "conftmp" \in Facts /\ "certs" \in Facts /\ "data" \in Facts /\ "db" \in Facts
    /\ "running" \in Facts /\ "member" \in Facts /\ "expbin" \in Facts
    /\ "exporter" \in Facts /\ "tarball" \in Facts /\ "object" \in Facts
    /\ "cslink" \in Facts /\ "csnested" \in Facts /\ "cmapi" \in Facts
    /\ "dir" \in Facts /\ "client" \in Facts /\ "env" \in Facts /\ "wlsrc" \in Facts
    /\ "bench" \in Facts /\ "src" \in Facts /\ "xsrc" \in Facts /\ "build" \in Facts
    /\ "ext" \in Facts /\ "server" \in Facts /\ "podman" \in Facts
    /\ "network" \in Facts /\ "prometheus" \in Facts /\ "grafana" \in Facts
    /\ "dashboards" \in Facts
BY DEF Facts

\* The scripts that have a name.
LEMMA NamedScripts ==
    /\ mkdir_command \in ScriptRecords
    /\ OsUser \in ScriptRecords
    /\ InitData \in ScriptRecords
    /\ SystemctlStart \in ScriptRecords
    /\ SystemctlStop \in ScriptRecords
    /\ CreateDatabaseAndUser \in ScriptRecords
    /\ DbConnect \in ScriptRecords
    /\ XpandSelfTest \in ScriptRecords
    /\ ClustrixStart \in ScriptRecords
    /\ ClustrixStop \in ScriptRecords
    /\ KillProcs \in ScriptRecords
    /\ Restart \in ScriptRecords
    /\ MaxscaleDownload \in ScriptRecords
    /\ MaxscaleStart \in ScriptRecords
    /\ XmStart \in ScriptRecords
    /\ XmStop \in ScriptRecords
    /\ XgresStop \in ScriptRecords
<1>1. Umount \in Cmds
  <2>1. /\ Case({}, {"mounted"}, {}, {}) \in Cases
        /\ Case({"mounted"}, {"running"}, {}, {"mounted", "data", "db"}) \in Cases
    BY CaseType, KnownFacts
  <2> QED BY <2>1 DEF Umount, Cmds
<1>2. mkdir_command \in ScriptRecords
  BY <1>1, CommandTypes, RunTypes, KnownFacts DEF mkdir_command
<1>3. OsUser \in ScriptRecords /\ InitData \in ScriptRecords
  BY CommandTypes, RunTypes, KnownFacts DEF OsUser, InitData
<1>4. SystemctlStart \in ScriptRecords /\ SystemctlStop \in ScriptRecords
  BY CommandTypes, RunTypes, KnownFacts DEF SystemctlStart, SystemctlStop
<1>5. CreateDatabaseAndUser \in ScriptRecords /\ DbConnect \in ScriptRecords
  BY CommandTypes, RunTypes, KnownFacts DEF CreateDatabaseAndUser, DbConnect
<1>6. XpandSelfTest \in ScriptRecords /\ ClustrixStart \in ScriptRecords
  BY CommandTypes, RunTypes, KnownFacts DEF XpandSelfTest, ClustrixStart
<1>7. ClustrixStop \in ScriptRecords /\ KillProcs \in ScriptRecords
  BY CommandTypes, RunTypes, KnownFacts DEF ClustrixStop, KillProcs
<1>8. Restart \in ScriptRecords /\ MaxscaleDownload \in ScriptRecords
  BY CommandTypes, RunTypes, KnownFacts DEF Restart, MaxscaleDownload
<1>9. MaxscaleStart \in ScriptRecords /\ XmStart \in ScriptRecords
  BY CommandTypes, RunTypes, KnownFacts DEF MaxscaleStart, XmStart
<1>10. XmStop \in ScriptRecords /\ XgresStop \in ScriptRecords
  BY CommandTypes, RunTypes, KnownFacts DEF XmStop, XgresStop
<1> QED BY <1>2, <1>3, <1>4, <1>5, <1>6, <1>7, <1>8, <1>9, <1>10

\* Storage is configured by at most two scripts.
LEMMA StorageTypes == \A dev \in Devices : StorageConfigure(dev) \in ScriptSeqs
<1> TAKE dev \in Devices
<1>1. Run(<<Once({}, "raid")>>) \in ScriptRecords
  BY CommandTypes, RunTypes, KnownFacts
<1>2. mdadm_command(dev) \in ScriptSeqs
  BY <1>1, TupleTypes DEF mdadm_command
<1>3. <<mkdir_command>> \in ScriptSeqs
  BY NamedScripts, TupleTypes
<1> QED BY <1>2, <1>3, TupleTypes DEF StorageConfigure

\* The scripts of MariaDB and MySQL.
LEMMA MariaDBTypes ==
    /\ MariaDBCopyCerts \in ScriptSeqs
    /\ \A dev \in Devices : MariaDBConfigure(dev) \in ScriptSeqs
    /\ MariaDBDownload \in ScriptSeqs
    /\ MariaDBConfig \in ScriptSeqs
    /\ \A service \in ServiceNames : MysqldExporter(service) \in ScriptSeqs
    /\ \A download \in ScriptSeqs : MariaDBInstall(download) \in ScriptSeqs
    /\ MariaDBClean \in ScriptSeqs
    /\ MySQLDownload \in ScriptSeqs
    /\ \A dev \in Devices : MySQLConfigure(dev) \in ScriptSeqs
    /\ MySQLInstall \in ScriptSeqs
    /\ MySQLClean \in ScriptSeqs
<1>1. MariaDBCopyCerts \in ScriptSeqs
  <2>1. Run(<<With({"user"}, {"certs"})>>) \in ScriptRecords
    BY CommandTypes, RunTypes, KnownFacts
  <2> QED BY <2>1, TupleTypes DEF MariaDBCopyCerts
<1>2. \A dev \in Devices : MariaDBConfigure(dev) \in ScriptSeqs
  <2> TAKE dev \in Devices
  <2>1. <<OsUser>> \in ScriptSeqs
    BY NamedScripts, TupleTypes
  <2> QED BY <2>1, <1>1, StorageTypes, TupleTypes DEF MariaDBConfigure
<1>3. MariaDBDownload \in ScriptSeqs
  <2>1. Run(<<Do({"repo"}), With({"repo"}, {"pkg"})>>) \in ScriptRecords
    BY CommandTypes, RunTypes, KnownFacts
  <2> QED BY <2>1, TupleTypes DEF MariaDBDownload
<1>4. MariaDBConfig \in ScriptSeqs
  <2>1. Run(<<Do({"conf"})>>) \in ScriptRecords
    BY CommandTypes, RunTypes, KnownFacts
  <2> QED BY <2>1, TupleTypes DEF MariaDBConfig
<1>5. \A service \in ServiceNames : MysqldExporter(service) \in ScriptSeqs
  <2> TAKE service \in ServiceNames
  <2>1. /\ Run(<<With({"running"}, {})>>) \in ScriptRecords
        /\ Run(<<IfThen("expbin", {"exporter"})>>) \in ScriptRecords
    BY CommandTypes, RunTypes, KnownFacts
  <2>2. SendFile("expbin") \in ScriptRecords /\ Register(service) \in ScriptRecords
    BY MessageTypes, KnownFacts DEF ServiceNames
  <2> QED BY <2>1, <2>2, TupleTypes DEF MysqldExporter
<1>6. \A download \in ScriptSeqs : MariaDBInstall(download) \in ScriptSeqs
  <2> TAKE download \in ScriptSeqs
  <2>1. <<InitData, SystemctlStart, CreateDatabaseAndUser>> \in ScriptSeqs
    BY NamedScripts, TupleTypes
  <2>2. <<DbConnect>> \in ScriptSeqs
    BY NamedScripts, TupleTypes
  <2>3. MysqldExporter("mariadb_exporter") \in ScriptSeqs
    BY <1>5 DEF ServiceNames
  <2> QED BY <2>1, <2>2, <2>3, <1>4, TupleTypes DEF MariaDBInstall
<1>7. MariaDBClean \in ScriptSeqs
  <2>1. /\ Run(<<Remove({"data", "db"})>>) \in ScriptRecords
        /\ Run(<<{Case({"exporter"}, {}, {}, {"exporter"})}>>) \in ScriptRecords
    BY CommandTypes, RunTypes, KnownFacts
  <2> QED BY <2>1, NamedScripts, TupleTypes DEF MariaDBClean
<1>8. MySQLDownload \in ScriptSeqs
  <2>1. Run(<<Do({"repo"}), With({"repo"}, {"pkg"})>>) \in ScriptRecords
    BY CommandTypes, RunTypes, KnownFacts
  <2> QED BY <2>1, TupleTypes DEF MySQLDownload
<1>9. \A dev \in Devices : MySQLConfigure(dev) \in ScriptSeqs
  <2> TAKE dev \in Devices
  <2>1. <<OsUser>> \in ScriptSeqs
    BY NamedScripts, TupleTypes
  <2> QED BY <2>1, StorageTypes, TupleTypes DEF MySQLConfigure
<1>10. MySQLInstall \in ScriptSeqs
  <2>1. <<InitData, SystemctlStart, CreateDatabaseAndUser>> \in ScriptSeqs
    BY NamedScripts, TupleTypes
  <2>2. <<DbConnect>> \in ScriptSeqs
    BY NamedScripts, TupleTypes
  <2>3. MysqldExporter("mysql_exporter") \in ScriptSeqs
    BY <1>5 DEF ServiceNames
  <2> QED BY <2>1, <2>2, <2>3, <1>4, <1>8, TupleTypes DEF MySQLInstall
<1>11. MySQLClean \in ScriptSeqs
  <2> QED BY <1>7 DEF MySQLClean
<1> QED BY <1>1, <1>2, <1>3, <1>4, <1>5, <1>6, <1>7, <1>8, <1>9, <1>10, <1>11

\* The scripts of PostgreSQL.
LEMMA PostgresTypes ==
    /\ SetupPgdata \in ScriptSeqs
    /\ FinalizePostgresqlConf \in ScriptSeqs
    /\ \A dev \in Devices : PostgresConfigure(dev) \in ScriptSeqs
    /\ PostgresInstall \in ScriptSeqs
    /\ PostgresClean \in ScriptSeqs
<1>1. SetupPgdata \in ScriptSeqs
  <2>1. /\ Run(<<Remove({"data", "db", "conf"})>>) \in ScriptRecords
        /\ Run(<<With({"pkg"}, {})>>) \in ScriptRecords
    BY CommandTypes, RunTypes, KnownFacts
  <2> QED BY <2>1, TupleTypes DEF SetupPgdata
<1>2. FinalizePostgresqlConf \in ScriptSeqs
  <2>1. SendFile("conftmp") \in ScriptRecords
    BY MessageTypes, KnownFacts DEF ServiceNames
  <2>2. /\ Run(<<Move("conftmp", {"data"}, "conf")>>) \in ScriptRecords
        /\ Run(<<With({"conf"}, {})>>) \in ScriptRecords
    BY CommandTypes, RunTypes, KnownFacts
  <2> QED BY <2>1, <2>2, TupleTypes DEF FinalizePostgresqlConf
<1>3. \A dev \in Devices : PostgresConfigure(dev) \in ScriptSeqs
  <2> TAKE dev \in Devices
  <2>1. /\ Run(<<Do({"repo"})>>) \in ScriptRecords
        /\ Run(<<With({"repo"}, {"pkg"})>>) \in ScriptRecords
        /\ Run(<<Once({"pkg"}, "data")>>) \in ScriptRecords
        /\ Run(<<With({"data"}, {})>>) \in ScriptRecords
    BY CommandTypes, RunTypes, KnownFacts
  <2>2. <<Run(<<Do({"repo"})>>), Run(<<With({"repo"}, {"pkg"})>>)>> \in ScriptSeqs
    BY <2>1, TupleTypes
  <2>3. <<Run(<<Once({"pkg"}, "data")>>), Run(<<With({"data"}, {})>>)>> \in ScriptSeqs
    BY <2>1, <2>2, TupleTypes
  <2> QED BY <2>1, <2>2, <2>3, <1>1, <1>2, StorageTypes, TupleTypes DEF PostgresConfigure
<1>4. PostgresInstall \in ScriptSeqs
  <2>1. SendFile("expbin") \in ScriptRecords /\ Register("postgres_exporter") \in ScriptRecords
    BY MessageTypes, KnownFacts DEF ServiceNames
  <2>2. Run(<<IfThen("expbin", {"exporter"})>>) \in ScriptRecords
    BY CommandTypes, RunTypes, KnownFacts
  <2> QED BY <2>1, <2>2, NamedScripts, TupleTypes DEF PostgresInstall
<1>5. PostgresClean \in ScriptSeqs
  <2>1. Run(<<Remove({"data", "db", "conf"}),
           {Case({}, {"mounted"}, {}, {})}>>) \in ScriptRecords
    BY CommandTypes, RunTypes, KnownFacts
  <2> QED BY <2>1, NamedScripts, TupleTypes DEF PostgresClean
<1> QED BY <1>1, <1>2, <1>3, <1>4, <1>5

\* The scripts of Xpand.
LEMMA XpandTypes ==
    /\ \A dev \in Devices : XpandConfigure(dev) \in ScriptSeqs
    /\ XpdnodeInstall \in ScriptSeqs
    /\ XpandStatdToExporter \in ScriptSeqs
    /\ XpandOptions \in ScriptSeqs
    /\ SetZones \in ScriptSeqs
    /\ SetPasswordlessSsh \in ScriptSeqs
    /\ XpandInstall \in ScriptSeqs
    /\ XpandClean \in ScriptSeqs
<1>1. \A dev \in Devices : XpandConfigure(dev) \in ScriptSeqs
  <2> TAKE dev \in Devices
  <2>1. Register("xpand") \in ScriptRecords
    BY MessageTypes, KnownFacts DEF ServiceNames
  <2>2. <<Register("xpand")>> \in ScriptSeqs
    BY <2>1, TupleTypes
  <2> QED BY <2>1, <2>2, StorageTypes, TupleTypes DEF XpandConfigure
<1>2. XpdnodeInstall \in ScriptSeqs
  <2>1. Lenient(<<Do({"tarball"})>>) \in ScriptRecords
    BY CommandTypes, RunTypes, KnownFacts
  <2>2. With({"tarball"}, {"object"}) \in Cmds /\ LinkDir("link", "nested") \in Cmds
    BY CommandTypes, KnownFacts
  <2>3. {Case({"object", "mounted"}, {}, {"pkg", "conf", "data", "running"}, {"db", "member"})} \in Cmds
    BY CommandTypes, KnownFacts
  <2> QED BY <2>1, <2>2, <2>3, RunTypes, TupleTypes DEF XpdnodeInstall
<1>3. XpandStatdToExporter \in ScriptSeqs
  <2>1. /\ Run(<<With({"running", "pkg"}, {})>>) \in ScriptRecords
        /\ Run(<<With({"pkg", "conf", "data"}, {"running"})>>) \in ScriptRecords
    BY CommandTypes, RunTypes, KnownFacts
  <2> QED BY <2>1, TupleTypes DEF XpandStatdToExporter
<1>4. XpandOptions \in ScriptSeqs
  <2>1. Run(<<With({"conf"}, {})>>) \in ScriptRecords
    BY CommandTypes, RunTypes, KnownFacts
  <2> QED BY <2>1, TupleTypes DEF XpandOptions
<1>5. SetZones \in ScriptSeqs
  <2>1. Sql(<<With({"running", "member"}, {})>>) \in ScriptRecords
    BY CommandTypes, RunTypes, KnownFacts
  <2> QED BY <2>1, TupleTypes DEF SetZones
<1>6. SetPasswordlessSsh \in ScriptSeqs
  <2>1. /\ Run(<<With({"pkg"}, {})>>) \in ScriptRecords
        /\ Lenient(<<With({"pkg"}, {})>>) \in ScriptRecords
    BY CommandTypes, RunTypes, KnownFacts
  <2> QED BY <2>1, TupleTypes DEF SetPasswordlessSsh
<1>7. XpandInstall \in ScriptSeqs
  <2>1. \A s \in ScriptSeqs : On(HeadNode, s) \in ScriptSeqs
    BY OnType DEF HeadNode
  <2>2. <<CreateDatabaseAndUser, DbConnect>> \in ScriptSeqs
    BY NamedScripts, TupleTypes
  <2>3. <<DbConnect>> \in ScriptSeqs
    BY NamedScripts, TupleTypes
  <2>4. On(HeadNode, <<CreateDatabaseAndUser, DbConnect>>) \in ScriptSeqs /\ On(HeadNode, <<DbConnect>>) \in ScriptSeqs
    BY <2>1, <2>2, <2>3
  <2>5. Sql(<<With({"running"}, {"member"})>>) \in ScriptRecords
    BY CommandTypes, RunTypes, KnownFacts
  <2>6. <<Sql(<<With({"running"}, {"member"})>>), XpandSelfTest>> \in ScriptSeqs
    BY <2>5, NamedScripts, TupleTypes
  <2>7. <<ClustrixStop, ClustrixStart>> \in ScriptSeqs
    BY NamedScripts, TupleTypes
  <2> QED BY <2>1, <2>2, <2>3, <2>4, <2>5, <2>6, <2>7, <1>2, <1>3, <1>4, <1>5, <1>6,
     TupleTypes DEF XpandInstall
<1>8. XpandClean \in ScriptSeqs
  <2>1. <<ClustrixStop>> \in ScriptSeqs
    BY NamedScripts, TupleTypes
  <2>2. <<KillProcs>> \in ScriptSeqs
    BY NamedScripts, TupleTypes
  <2>3. On({1}, <<KillProcs>>) \in ScriptSeqs /\ On({2}, <<KillProcs>>) \in ScriptSeqs
    BY <2>2, OnType
  <2>4. Remove({"data", "db", "member"}) \in Cmds /\ Remove({"pkg", "conf"}) \in Cmds /\ Remove({"link"}) \in Cmds
    BY CommandTypes, KnownFacts
  <2>5. {Case({"mounted"}, {"running"}, {}, {"mounted"})} \in Cmds
    BY CommandTypes, KnownFacts
  <2>6. <<Run(<<Remove({"data", "db", "member"}),
           {Case({"mounted"}, {"running"}, {}, {"mounted"})}, Remove({"pkg", "conf"}),
           Remove({"link"})>>)>> \in ScriptSeqs
    BY <2>4, <2>5, RunTypes, TupleTypes
  <2> QED BY <2>1, <2>2, <2>3, <2>4, <2>5, <2>6, TupleTypes DEF XpandClean
<1> QED BY <1>1, <1>2, <1>3, <1>4, <1>5, <1>6, <1>7, <1>8

\* The scripts of ColumnStore.
LEMMA ColumnStoreTypes ==
    /\ \A s \in ScriptSeqs : EachNode(s) \in ScriptSeqs
    /\ \A dev \in Devices : ColumnStoreConfigure(dev) \in ScriptSeqs
    /\ ColumnStorePackages \in ScriptSeqs
    /\ ConfigureReplication \in ScriptSeqs
    /\ ColumnStoreStart \in ScriptSeqs
    /\ ColumnStoreInstall \in ScriptSeqs
    /\ ColumnStoreStop \in ScriptSeqs
    /\ ColumnStoreClean \in ScriptSeqs
<1>1. \A s \in ScriptSeqs : EachNode(s) \in ScriptSeqs
  <2> TAKE s \in ScriptSeqs
  <2>1. On({1}, s) \in ScriptSeqs /\ On({2}, s) \in ScriptSeqs
    BY OnType
  <2> QED BY <2>1, TupleTypes DEF EachNode
<1>2. \A dev \in Devices : ColumnStoreConfigure(dev) \in ScriptSeqs
  <2> TAKE dev \in Devices
  <2>1. EachNode(MariaDBConfigure(dev)) \in ScriptSeqs
    BY <1>1, MariaDBTypes
  <2>2. /\ Run(<<Remove({"cslink", "csnested"})>>) \in ScriptRecords
        /\ Run(<<LinkDir("cslink", "csnested")>>) \in ScriptRecords
        /\ Run(<<With({"user", "cslink"}, {})>>) \in ScriptRecords
    BY CommandTypes, RunTypes, KnownFacts
  <2>3. <<Run(<<Remove({"cslink", "csnested"})>>), Run(<<LinkDir("cslink", "csnested")>>),
           Run(<<With({"user", "cslink"}, {})>>)>> \in ScriptSeqs
    BY <2>2, TupleTypes
  <2> QED BY <2>1, <2>2, <2>3, TupleTypes DEF ColumnStoreConfigure
<1>3. ColumnStorePackages \in ScriptSeqs
  <2>1. Run(<<Do({"pkg"})>>) \in ScriptRecords
    BY CommandTypes, RunTypes, KnownFacts
  <2> QED BY <2>1, TupleTypes DEF ColumnStorePackages
<1>4. ConfigureReplication \in ScriptSeqs
  <2>1. /\ Run(<<With({"pkg"}, {})>>) \in ScriptRecords
        /\ Run(<<With({"running"}, {})>>) \in ScriptRecords
        /\ Run(<<With({"running"}, {"member"})>>) \in ScriptRecords
    BY CommandTypes, RunTypes, KnownFacts
  <2>2. <<Run(<<With({"pkg"}, {})>>), Restart>> \in ScriptSeqs
    BY <2>1, NamedScripts, TupleTypes
  <2>3. <<Run(<<With({"running"}, {})>>)>> \in ScriptSeqs
    BY <2>1, TupleTypes
  <2>4. <<Run(<<With({"running"}, {"member"})>>)>> \in ScriptSeqs
    BY <2>1, TupleTypes
  <2>5. On({1}, <<Run(<<With({"running"}, {})>>)>>) \in ScriptSeqs /\ On({2}, <<Run(<<With({"running"}, {"member"})>>)>>) \in ScriptSeqs
    BY <2>3, <2>4, OnType
  <2> QED BY <2>1, <2>2, <2>3, <2>4, <2>5, TupleTypes DEF ConfigureReplication
<1>5. ColumnStoreStart \in ScriptSeqs
  <2>1. <<SystemctlStart>> \in ScriptSeqs
    BY NamedScripts, TupleTypes
  <2>2. Run(<<With({"pkg"}, {"cmapi"})>>) \in ScriptRecords
    BY CommandTypes, RunTypes, KnownFacts
  <2>3. <<Run(<<With({"pkg"}, {"cmapi"})>>)>> \in ScriptSeqs
    BY <2>2, TupleTypes
  <2> QED BY <2>1, <2>2, <2>3, <1>1, TupleTypes DEF ColumnStoreStart
<1>6. ColumnStoreInstall \in ScriptSeqs
  <2>1. EachNode(MariaDBInstall(<<>>)) \in ScriptSeqs
    BY <1>1, MariaDBTypes, TupleTypes
  <2>2. /\ Run(<<With({"user", "cslink"}, {})>>) \in ScriptRecords
        /\ Run(<<With({"cmapi"}, {})>>) \in ScriptRecords
    BY CommandTypes, RunTypes, KnownFacts
  <2>3. <<Run(<<With({"user", "cslink"}, {})>>)>> \in ScriptSeqs
    BY <2>2, TupleTypes
  <2>4. <<Run(<<With({"cmapi"}, {})>>)>> \in ScriptSeqs
    BY <2>2, TupleTypes
  <2>5. On(HeadNode, <<Run(<<With({"cmapi"}, {})>>)>>) \in ScriptSeqs
    BY <2>4, OnType DEF HeadNode
  <2> QED BY <2>1, <2>2, <2>3, <2>4, <2>5, <1>3, <1>4, <1>5,
     TupleTypes DEF ColumnStoreInstall
<1>7. ColumnStoreStop \in ScriptSeqs
  <2>1. /\ Run(<<Fails>>) \in ScriptRecords
        /\ Run(<<Remove({"cmapi"})>>) \in ScriptRecords
    BY CommandTypes, RunTypes, KnownFacts
  <2>2. <<Run(<<Fails>>)>> \in ScriptSeqs
    BY <2>1, TupleTypes
  <2>3. <<Run(<<Remove({"cmapi"})>>)>> \in ScriptSeqs
    BY <2>1, TupleTypes
  <2>4. On(HeadNode, <<Run(<<Fails>>)>>) \in ScriptSeqs
    BY <2>2, OnType DEF HeadNode
  <2>5. <<SystemctlStop>> \in ScriptSeqs
    BY NamedScripts, TupleTypes
  <2> QED BY <2>1, <2>2, <2>3, <2>4, <2>5, <1>1, TupleTypes DEF ColumnStoreStop
<1>8. ColumnStoreClean \in ScriptSeqs
  <2>1. /\ Run(<<Remove({"cslink", "csnested"})>>) \in ScriptRecords
        /\ Run(<<Remove({"pkg"})>>) \in ScriptRecords
    BY CommandTypes, RunTypes, KnownFacts
  <2>2. <<Run(<<Remove({"cslink", "csnested"})>>)>> \in ScriptSeqs
    BY <2>1, TupleTypes
  <2>3. <<Run(<<Remove({"pkg"})>>)>> \in ScriptSeqs
    BY <2>1, TupleTypes
  <2> QED BY <2>1, <2>2, <2>3, <1>1, <1>7, MariaDBTypes, TupleTypes DEF ColumnStoreClean
<1> QED BY <1>1, <1>2, <1>3, <1>4, <1>5, <1>6, <1>7, <1>8

\* The scripts of Maxscale, Xm and Xgres.
LEMMA ProxyTypes ==
    /\ MaxscaleConfigure \in ScriptSeqs
    /\ MaxscaleInstall \in ScriptSeqs
    /\ MaxscalePostInstall \in ScriptSeqs
    /\ MaxscaleClean \in ScriptSeqs
    /\ XmInstall \in ScriptSeqs
    /\ XmPostInstall \in ScriptSeqs
    /\ XmClean \in ScriptSeqs
    /\ XgresConfigure \in ScriptSeqs
    /\ XgresInstall \in ScriptSeqs
    /\ XgresPostInstall \in ScriptSeqs
    /\ XgresClean \in ScriptSeqs
<1>1. MaxscaleConfigure \in ScriptSeqs
  <2> QED BY NamedScripts, TupleTypes DEF MaxscaleConfigure
<1>2. MaxscaleInstall \in ScriptSeqs
  <2>1. Run(<<With({"repo"}, {"pkg"})>>) \in ScriptRecords
    BY CommandTypes, RunTypes, KnownFacts
  <2> QED BY <2>1, NamedScripts, TupleTypes DEF MaxscaleInstall
<1>3. MaxscalePostInstall \in ScriptSeqs
  <2>1. Run(<<Do({"conf"})>>) \in ScriptRecords
    BY CommandTypes, RunTypes, KnownFacts
  <2> QED BY <2>1, NamedScripts, TupleTypes DEF MaxscalePostInstall
<1>4. MaxscaleClean \in ScriptSeqs
  <2>1. Run(<<Remove({"repo", "pkg"})>>) \in ScriptRecords
    BY CommandTypes, RunTypes, KnownFacts
  <2> QED BY <2>1, NamedScripts, TupleTypes DEF MaxscaleClean
<1>5. XmInstall \in ScriptSeqs
  <2>1. /\ Do({"pkg"}) \in Cmds /\ With({"pkg"}, {"src"}) \in Cmds
        /\ With({"src"}, {"build"}) \in Cmds /\ With({"build"}, {"data"}) \in Cmds
    BY CommandTypes, KnownFacts
  <2> QED BY <2>1, RunTypes, TupleTypes DEF XmInstall
<1>6. XmPostInstall \in ScriptSeqs
  <2>1. Run(<<With({"build"}, {"conf"})>>) \in ScriptRecords
    BY CommandTypes, RunTypes, KnownFacts
  <2> QED BY <2>1, NamedScripts, TupleTypes DEF XmPostInstall
<1>7. XmClean \in ScriptSeqs
  <2>1. Run(<<Remove({"build", "src", "data", "conf"})>>) \in ScriptRecords
    BY CommandTypes, RunTypes, KnownFacts
  <2> QED BY <2>1, NamedScripts, TupleTypes DEF XmClean
<1>8. XgresConfigure \in ScriptSeqs
  <2>1. SendFile("conftmp") \in ScriptRecords
    BY MessageTypes, KnownFacts DEF ServiceNames
  <2>2. /\ Run(<<Once({}, "user")>>) \in ScriptRecords
        /\ Run(<<Do({"pkg"})>>) \in ScriptRecords
        /\ Run(<<Move("conftmp", {"user"}, "env")>>) \in ScriptRecords
    BY CommandTypes, RunTypes, KnownFacts
  <2>3. /\ Once({"user", "pkg"}, "src") \in Cmds /\ With({"mounted", "env"}, {"build"}) \in Cmds
        /\ Once({"build"}, "xsrc") \in Cmds /\ With({"xsrc"}, {"ext"}) \in Cmds
    BY CommandTypes, KnownFacts
  <2>4. Chain(<<Once({"user", "pkg"}, "src"),
           With({"mounted", "env"}, {"build"})>>) \in ScriptRecords
    BY <2>3, RunTypes
  <2>5. Chain(<<Once({"build"}, "xsrc"), With({"xsrc"}, {"ext"})>>) \in ScriptRecords
    BY <2>3, RunTypes
  <2>6. <<mkdir_command>> \in ScriptSeqs
    BY NamedScripts, TupleTypes
  <2> QED BY <2>1, <2>2, <2>3, <2>4, <2>5, <2>6, NamedScripts, TupleTypes DEF XgresConfigure
<1>9. XgresInstall \in ScriptSeqs
  <2>1. SendFile("conftmp") \in ScriptRecords
    BY MessageTypes, KnownFacts DEF ServiceNames
  <2>2. /\ Chain(<<Once({"build"}, "data")>>) \in ScriptRecords
        /\ Chain(<<With({"data"}, {})>>) \in ScriptRecords
        /\ Chain(<<Move("conftmp", {"data"}, "conf")>>) \in ScriptRecords
        /\ Chain(<<With({"build", "data"}, {"running"})>>) \in ScriptRecords
    BY CommandTypes, RunTypes, KnownFacts
  <2> QED BY <2>1, <2>2, NamedScripts, TupleTypes DEF XgresInstall
<1>10. XgresPostInstall \in ScriptSeqs
  <2>1. /\ Run(<<With({"running"}, {"db"})>>) \in ScriptRecords
        /\ Run(<<With({"running"}, {})>>) \in ScriptRecords
        /\ Sql(<<With({"running", "ext"}, {})>>) \in ScriptRecords
        /\ Sql(<<Once({"running"}, "server")>>) \in ScriptRecords
    BY CommandTypes, RunTypes, KnownFacts
  <2> QED BY <2>1, NamedScripts, TupleTypes DEF XgresPostInstall
<1>11. XgresClean \in ScriptSeqs
  <2>1. /\ Run(<<Remove({"build", "data", "conf", "db", "ext", "server"})>>) \in ScriptRecords
        /\ Run(<<Remove({"pkg"})>>) \in ScriptRecords
    BY CommandTypes, RunTypes, KnownFacts
  <2> QED BY <2>1, NamedScripts, TupleTypes DEF XgresClean
<1> QED BY <1>1, <1>2, <1>3, <1>4, <1>5, <1>6, <1>7, <1>8, <1>9, <1>10, <1>11

\* The scripts of a driver and of a metrics server.
LEMMA DriverTypes ==
    /\ DriverConfigure \in ScriptSeqs
    /\ WorkloadExporter \in ScriptSeqs
    /\ BenchmarkInstall \in ScriptSeqs
    /\ BenchmarkClean \in ScriptSeqs
    /\ DriverInstall \in ScriptSeqs
    /\ UninstallWorkloadExporter \in ScriptSeqs
    /\ DriverClean \in ScriptSeqs
    /\ \A dev \in Devices : MetricsServerConfigure(dev) \in ScriptSeqs
    /\ MetricsServerInstall \in ScriptSeqs
<1>1. DriverConfigure \in ScriptSeqs
  <2>1. Do({"dir"}) \in Cmds /\ Do({"repo"}) \in Cmds /\ With({"repo"}, {"client"}) \in Cmds
    BY CommandTypes, KnownFacts
  <2>2. Run(<<Do({"env"})>>) \in ScriptRecords
    BY CommandTypes, RunTypes, KnownFacts
  <2> QED BY <2>1, <2>2, RunTypes, TupleTypes DEF DriverConfigure
<1>2. WorkloadExporter \in ScriptSeqs
  <2>1. Register("workload_exporter") \in ScriptRecords
    BY MessageTypes, KnownFacts DEF ServiceNames
  <2>2. Run(<<Once({"dir", "client"}, "wlsrc"),
           With({"wlsrc"}, {"exporter"})>>) \in ScriptRecords
    BY CommandTypes, RunTypes, KnownFacts
  <2> QED BY <2>1, <2>2, TupleTypes DEF WorkloadExporter
<1>3. BenchmarkInstall \in ScriptSeqs
  <2>1. Run(<<Once({"dir", "env"}, "bench")>>) \in ScriptRecords
    BY CommandTypes, RunTypes, KnownFacts
  <2> QED BY <2>1, TupleTypes DEF BenchmarkInstall
<1>4. BenchmarkClean \in ScriptSeqs
  <2>1. Run(<<Remove({"bench"})>>) \in ScriptRecords
    BY CommandTypes, RunTypes, KnownFacts
  <2> QED BY <2>1, TupleTypes DEF BenchmarkClean
<1>5. DriverInstall \in ScriptSeqs
  <2> QED BY <1>2, <1>3, TupleTypes DEF DriverInstall
<1>6. UninstallWorkloadExporter \in ScriptSeqs
  <2>1. Deregister("workload_exporter") \in ScriptRecords
    BY MessageTypes, KnownFacts DEF ServiceNames
  <2>2. Search(<<{Case({"wlsrc"}, {}, {}, {"exporter"})}, Remove({"wlsrc"})>>) \in ScriptRecords
    BY CommandTypes, RunTypes, KnownFacts
  <2> QED BY <2>1, <2>2, TupleTypes DEF UninstallWorkloadExporter
<1>7. DriverClean \in ScriptSeqs
  <2>1. /\ Run(<<Remove({"client"})>>) \in ScriptRecords
        /\ Search(<<Remove({})>>) \in ScriptRecords
        /\ Run(<<{Case({"mounted"}, {}, {}, {"mounted"})}>>) \in ScriptRecords
    BY CommandTypes, RunTypes, KnownFacts
  <2>2. <<Run(<<Remove({"client"})>>)>> \in ScriptSeqs
    BY <2>1, TupleTypes
  <2>3. <<Search(<<Remove({})>>),
           Run(<<{Case({"mounted"}, {}, {}, {"mounted"})}>>)>> \in ScriptSeqs
    BY <2>1, TupleTypes
  <2> QED BY <2>1, <2>2, <2>3, <1>6, <1>4, TupleTypes DEF DriverClean
<1>8. \A dev \in Devices : MetricsServerConfigure(dev) \in ScriptSeqs
  <2> TAKE dev \in Devices
  <2>1. /\ Run(<<Do({"podman"})>>) \in ScriptRecords
        /\ Run(<<Once({"podman"}, "network")>>) \in ScriptRecords
        /\ Run(<<Move("conftmp", {}, "conf")>>) \in ScriptRecords
    BY CommandTypes, RunTypes, KnownFacts
  <2>2. SendFile("conftmp") \in ScriptRecords
    BY MessageTypes, KnownFacts DEF ServiceNames
  <2>3. <<Run(<<Do({"podman"})>>), Run(<<Once({"podman"}, "network")>>)>> \in ScriptSeqs
    BY <2>1, TupleTypes
  <2>4. <<SendFile("conftmp"), Run(<<Move("conftmp", {}, "conf")>>)>> \in ScriptSeqs
    BY <2>1, <2>2, TupleTypes
  <2> QED BY <2>1, <2>2, <2>3, <2>4, StorageTypes, TupleTypes DEF MetricsServerConfigure
<1>9. MetricsServerInstall \in ScriptSeqs
  <2>1. /\ Run(<<Once({"network", "conf"}, "prometheus")>>) \in ScriptRecords
        /\ Run(<<Once({"network"}, "grafana")>>) \in ScriptRecords
        /\ Run(<<Move("conftmp", {}, "dashboards")>>) \in ScriptRecords
        /\ Run(<<With({"grafana"}, {})>>) \in ScriptRecords
    BY CommandTypes, RunTypes, KnownFacts
  <2>2. SendFile("conftmp") \in ScriptRecords
    BY MessageTypes, KnownFacts DEF ServiceNames
  <2> QED BY <2>1, <2>2, TupleTypes DEF MetricsServerInstall
<1> QED BY <1>1, <1>2, <1>3, <1>4, <1>5, <1>6, <1>7, <1>8, <1>9

\* The components that have a thread in a phase
Workers(ph) ==
    CASE ph \in {"configure", "install", "clean"} -> Members
      [] ph = "post_install" -> {"proxy"} \cap Members
      [] ph \in {"start", "stop"} -> Services
      [] OTHER -> {}

\* What is deployed has a class for each component.
LEMMA KindOfComponent ==
    ASSUME deploy \in Deployments
    PROVE  /\ Kind("backend") \in Backends
           /\ Kind("proxy") \in Proxies \cup {"none"}
           /\ Kind("driver") \in {"Driver", "none"}
           /\ deploy.device \in Devices
           /\ deploy.env \in [Components -> 1..MaxEnvs]
           /\ \A c \in Components : deploy.env[c] <= NumEnvs
           /\ deploy.envs \in 1..MaxEnvs /\ MaxEnvs \in Nat
BY InstallAssumption DEF Deployment, Kind, NumEnvs

\* What a thread is given to run is a sequence of scripts, in every phase.
LEMMA ScriptsTyped ==
    ASSUME deploy \in Deployments, NEW ph, NEW c \in Workers(ph)
    PROVE  Scripts(c, ph) \in ScriptSeqs
<1>0. /\ deploy.device \in Devices /\ c \in Members
      /\ Kind(c) \in Backends \cup Proxies \cup {"Driver"}
  BY KindOfComponent DEF Workers, Members, Services, Components
<1>1. CASE ph = "configure"
  <2>1. ConfigureOf[deploy.device][Kind(c)] \in ScriptSeqs
    BY <1>0, MariaDBTypes, PostgresTypes, XpandTypes, ColumnStoreTypes, ProxyTypes,
       DriverTypes, TupleTypes
       DEF ConfigureOf, Backends, Proxies
  <2> QED BY <1>1, <2>1 DEF Scripts
<1>2. CASE ph = "install"
  <2>1. InstallOf[Kind(c)] \in ScriptSeqs
    BY <1>0, MariaDBTypes, PostgresTypes, XpandTypes, ColumnStoreTypes, ProxyTypes, DriverTypes
       DEF InstallOf, Backends, Proxies
  <2> QED BY <1>2, <2>1 DEF Scripts
<1>3. CASE ph = "post_install"
  <2>1. Kind(c) \in Proxies
    BY <1>3, KindOfComponent DEF Workers, Members
  <2>2. PostInstallOf[Kind(c)] \in ScriptSeqs
    BY <2>1, ProxyTypes DEF PostInstallOf, Proxies
  <2> QED BY <1>3, <2>2 DEF Scripts
<1>4. CASE ph = "clean"
  <2>1. <<Sql(<<Fails>>)>> \in ScriptSeqs
    BY CommandTypes, RunTypes, TupleTypes
  <2>2. CleanOf[Kind(c)] \in ScriptSeqs
    BY <1>0, <2>1, MariaDBTypes, PostgresTypes, XpandTypes, ColumnStoreTypes, ProxyTypes,
       DriverTypes
       DEF CleanOf, Backends, Proxies
  <2> QED BY <1>4, <2>2 DEF Scripts
<1>5. CASE ph \in {"start", "stop"}
  <2>1. Kind(c) \in Backends \ {"MetricsServer"}
    BY <1>5 DEF Workers, Services
  <2>2. StartOf[Kind(c)] \in ScriptSeqs /\ StopOf[Kind(c)] \in ScriptSeqs
    <3>1. /\ <<SystemctlStart>> \in ScriptSeqs /\ <<SystemctlStop>> \in ScriptSeqs
          /\ <<ClustrixStart>> \in ScriptSeqs /\ <<ClustrixStop>> \in ScriptSeqs
      BY NamedScripts, TupleTypes
    <3> QED BY <2>1, <3>1, ColumnStoreTypes DEF StartOf, StopOf, Backends
  <2> QED BY <1>5, <2>2 DEF Scripts
<1> QED BY <1>1, <1>2, <1>3, <1>4, <1>5 DEF Workers

(***************************************************************************)
(* What a script leaves, command by command                                *)
(***************************************************************************)
\* A command leaves known facts.
LEMMA StepFacts ==
    ASSUME NEW cmd \in Cmds, NEW F \in SUBSET Facts
    PROVE  Step(cmd, F).facts \in SUBSET Facts
<1>1. CASE \E k \in cmd : Applies(k, F)
  <2> DEFINE k == CHOOSE c \in cmd : Applies(c, F)
  <2>1. k \in cmd
    BY <1>1
  <2>2. k.adds \in SUBSET Facts
    BY <2>1 DEF Cmds, Cases
  <2>3. Step(cmd, F).facts = (F \ k.dels) \cup k.adds
    BY <1>1 DEF Step
  <2> QED BY <2>2, <2>3
<1>2. CASE ~\E k \in cmd : Applies(k, F)
  BY <1>2 DEF Step
<1> QED BY <1>1, <1>2
\* The order of the natural numbers as a relation
NatLess == {ss \in Nat \X Nat : ss[1] < ss[2]}

\* The natural numbers have no infinite descent.
LEMMA NatWF == IsWellFoundedOn(NatLess, Nat)
  BY NatLessThanWellFounded DEF OpToRel, NatLess

\* Induction over the natural numbers, about a set instead of a predicate.
LEMMA NatSet ==
  ASSUME NEW S, 0 \in S, \A n \in Nat : n \in S => n + 1 \in S
  PROVE Nat \subseteq S
<1>1. SUFFICES ASSUME Nat \ S # {} PROVE FALSE
  OBVIOUS
<1> DEFINE T == Nat \ S
<1>3. \E x \in T : \A y \in T : ~ (<<y, x>> \in NatLess)
  <2>1. T \subseteq Nat /\ T # {}
    BY <1>1
  <2> HIDE DEF T
  <2> QED BY NatWF, <2>1, WFMin
<1>4. PICK x \in T : \A y \in T : ~ (<<y, x>> \in NatLess)
  BY <1>3
<1>5. x # 0 /\ x - 1 \in Nat
  OBVIOUS
<1>6. <<x - 1, x>> \in NatLess
  BY <1>5 DEF NatLess
<1>7. x - 1 \in S
  BY <1>4, <1>5, <1>6
<1> QED BY <1>5, <1>7
\* What After says of its value at i, and of a function g in its place
Turn(cmds, F, strict, g, i) ==
    IF i = 0 THEN [facts |-> F, ok |-> TRUE]
    ELSE IF strict /\ ~g[i - 1].ok THEN g[i - 1]
    ELSE Step(cmds[i], g[i - 1].facts)

\* g is a run over n commands
RunsUpTo(cmds, F, strict, n, g) == g = [i \in 0..n |-> Turn(cmds, F, strict, g, i)]

\* A run over any number of commands exists.
LEMMA RunExists ==
    ASSUME NEW cmds, NEW F, NEW strict
    PROVE  \A n \in Nat : \E g : RunsUpTo(cmds, F, strict, n, g)
<1> DEFINE P(n) == \E g : RunsUpTo(cmds, F, strict, n, g)
<1> DEFINE S == {n \in Nat : P(n)}
<1>1. P(0)
  <2> DEFINE g == [i \in 0..0 |-> [facts |-> F, ok |-> TRUE]]
  <2>1. g = [i \in 0..0 |-> Turn(cmds, F, strict, g, i)]
    BY DEF Turn
  <2> QED BY <2>1 DEF RunsUpTo
<1>2. ASSUME NEW n \in Nat, P(n) PROVE P(n + 1)
  <2>1. PICK g : RunsUpTo(cmds, F, strict, n, g)
    BY <1>2
  <2> DEFINE h == [i \in 0..(n + 1) |-> IF i <= n THEN g[i] ELSE Turn(cmds, F, strict, g, n + 1)]
  <2>2. \A i \in 0..(n + 1) : h[i] = Turn(cmds, F, strict, h, i)
    <3> SUFFICES ASSUME NEW i \in 0..(n + 1) PROVE h[i] = Turn(cmds, F, strict, h, i)
      OBVIOUS
    <3>1. i # 0 => h[i - 1] = g[i - 1]
      OBVIOUS
    <3>2. Turn(cmds, F, strict, h, i) = Turn(cmds, F, strict, g, i)
      BY <3>1 DEF Turn
    <3>3. i <= n => g[i] = Turn(cmds, F, strict, g, i)
      BY <2>1 DEF RunsUpTo
    <3>4. h[i] = IF i <= n THEN g[i] ELSE Turn(cmds, F, strict, g, i)
      OBVIOUS
    <3> HIDE DEF h
    <3> QED BY <3>2, <3>3, <3>4
  <2>3. h = [i \in 0..(n + 1) |-> Turn(cmds, F, strict, h, i)]
    <3>1. h = [i \in 0..(n + 1) |-> h[i]]
      OBVIOUS
    <3> HIDE DEF h
    <3> QED BY <2>2, <3>1
  <2> QED BY <2>3 DEF RunsUpTo
<1>3. Nat \subseteq S
  <2>1. 0 \in S
    BY <1>1
  <2>2. \A n \in Nat : n \in S => n + 1 \in S
    BY <1>2
  <2> HIDE DEF S
  <2> QED BY <2>1, <2>2, NatSet
<1> QED BY <1>3

\* After is what its equation says.
LEMMA AfterIs ==
    ASSUME NEW cmds, NEW F, NEW strict, Len(cmds) \in Nat
    PROVE  RunsUpTo(cmds, F, strict, Len(cmds), After(cmds, F, strict))
<1>1. \E g : g = [i \in 0..Len(cmds) |-> Turn(cmds, F, strict, g, i)]
  BY RunExists DEF RunsUpTo
<1>2. After(cmds, F, strict) = CHOOSE g : g = [i \in 0..Len(cmds) |-> Turn(cmds, F, strict, g, i)]
  BY DEF After, Turn
<1> QED BY <1>1, <1>2 DEF RunsUpTo

\* What every command keeps, a script keeps, cut short anywhere.
LEMMA AfterKeeps ==
    ASSUME NEW cmds, Len(cmds) \in Nat, NEW strict \in BOOLEAN, NEW G, NEW F \in G,
           \A j \in 1..Len(cmds), X \in G : Step(cmds[j], X).facts \in G
    PROVE  \A i \in 0..Len(cmds) : After(cmds, F, strict)[i].facts \in G
<1> DEFINE r == After(cmds, F, strict)
<1>1. \A i \in 0..Len(cmds) : r[i] = Turn(cmds, F, strict, r, i)
  BY AfterIs DEF RunsUpTo
<1> DEFINE S == {i \in Nat : i <= Len(cmds) => r[i].facts \in G}
<1>2. 0 \in S
  BY <1>1 DEF Turn
<1>3. ASSUME NEW n \in Nat, n \in S PROVE n + 1 \in S
  <2> SUFFICES ASSUME n + 1 <= Len(cmds) PROVE r[n + 1].facts \in G
    OBVIOUS
  <2>1. r[n].facts \in G /\ n + 1 \in 1..Len(cmds)
    BY <1>3
  <2>2. r[n + 1] = r[n] \/ r[n + 1] = Step(cmds[n + 1], r[n].facts)
    <3>1. r[n + 1] = Turn(cmds, F, strict, r, n + 1)
      BY <1>1, <2>1
    <3> HIDE DEF r
    <3> QED BY <3>1 DEF Turn
  <2> HIDE DEF r
  <2> QED BY <2>1, <2>2
<1> HIDE DEF S
<1>4. Nat \subseteq S
  BY <1>2, <1>3, NatSet
<1>5. \A i \in 0..Len(cmds) : r[i].facts \in G
  <2> HIDE DEF r
  <2> QED BY <1>4 DEF S
<1> QED BY <1>5

(***************************************************************************)
(* Types                                                                   *)
(***************************************************************************)
\* The phases of a command
PhasesOf(o) ==
    CASE o = "none" -> {"none"}
      [] o = "install" -> {"configure", "install", "post_install"}
      [] o = "clean" -> {"clean"}
      [] o = "start" -> {"env", "start"}
      [] o = "stop" -> {"env", "stop"}
      [] o \in {"deprovision", "nuke"} -> {"env"}

\* Where a command is
PlacesTyped ==
    /\ deploy \in Deployments
    /\ op \in Ops /\ phase \in PhasesOf(op)
    /\ ix \in 1..(NumEnvs + 1) /\ (phase # "env" => ix <= NumEnvs)

\* Only the components of the phase have threads, each within its scripts
ThreadsTyped ==
    /\ at \in [Components -> Nat]
    /\ \A c \in Components : at[c] # 0 => c \in Workers(phase) /\ at[c] <= Len(Scripts(c, phase))
    /\ attempt \in [Components -> 1..Attempts]
    /\ raised \subseteq Workers(phase)

\* What lasts from one command to the next
StoresTyped ==
    /\ facts \in [Components -> [{1, 2} -> SUBSET Facts]]
    /\ up \subseteq Members
    /\ state \in States
    /\ bt \in Members \cup {"none"}
    /\ server \in Envs
    /\ DOMAIN targets = Envs
    /\ missed \subseteq Envs
    /\ outcome \in {"returned", "raised"}
    /\ faults \in 0..MaxFaults

\* The types, strong enough to be inductive
TypeInv == PlacesTyped /\ ThreadsTyped /\ StoresTyped

\* A cluster has an environment.
LEMMA EnvsFacts ==
    ASSUME deploy \in Deployments
    PROVE  NumEnvs \in Nat /\ NumEnvs >= 1
BY InstallAssumption DEF Deployment, NumEnvs

\* A thread belongs to a component that is deployed.
LEMMA WorkersAreMembers ==
    ASSUME NEW ph
    PROVE  Workers(ph) \subseteq Members /\ Members \subseteq Components
BY DEF Workers, Members, Services

\* The types of the component follow.
LEMMA TypesHold == TypeInv => TypeOK
<1> SUFFICES ASSUME TypeInv PROVE TypeOK
  OBVIOUS
<1>1. op \in Ops /\ phase \in Phases
  BY DEF TypeInv, PlacesTyped, PhasesOf, Ops, Phases
<1>2. raised \subseteq Members
  BY WorkersAreMembers DEF TypeInv, ThreadsTyped
<1>3. \A c \in Components : at[c] # 0 => at[c] \in 1..Len(Scripts(c, phase))
  <2> SUFFICES ASSUME NEW c \in Components, at[c] # 0 PROVE at[c] \in 1..Len(Scripts(c, phase))
    OBVIOUS
  <2>1. c \in Workers(phase) /\ at[c] <= Len(Scripts(c, phase)) /\ at[c] \in Nat
    BY DEF TypeInv, ThreadsTyped
  <2>2. Len(Scripts(c, phase)) \in Nat
    BY <2>1, ScriptsTyped DEF TypeInv, PlacesTyped, ScriptSeqs
  <2> QED BY <2>1, <2>2
<1>4. \A c \in Components, n \in {1, 2} : facts[c][n] \subseteq Facts
  BY DEF TypeInv, StoresTyped
<1> QED BY <1>1, <1>2, <1>3, <1>4 DEF TypeInv, PlacesTyped, ThreadsTyped, StoresTyped, TypeOK

\* The types hold before the first provision.
LEMMA TypesInit == Init => TypeInv
<1> SUFFICES ASSUME Init PROVE TypeInv
  OBVIOUS
<1>1. NumEnvs \in Nat /\ NumEnvs >= 1
  BY EnvsFacts DEF Init
<1>2. PlacesTyped
  BY <1>1 DEF Init, PlacesTyped, PhasesOf, Ops
<1>3. ThreadsTyped
  BY InstallAssumption DEF Init, ThreadsTyped
<1>4. StoresTyped
  BY <1>1, InstallAssumption DEF Init, StoresTyped, NoFacts, States, Envs
<1> QED BY <1>2, <1>3, <1>4 DEF TypeInv

\* A thread that has a script to run runs one of its class.
LEMMA CurrentTyped ==
    ASSUME PlacesTyped, ThreadsTyped, NEW c \in Components, at[c] # 0
    PROVE  /\ Current(c) \in ScriptRecords /\ Len(Current(c).cmds) \in Nat
           /\ at[c] \in 1..Len(Scripts(c, phase)) /\ Len(Scripts(c, phase)) \in Nat
<1>1. c \in Workers(phase) /\ at[c] <= Len(Scripts(c, phase)) /\ at[c] \in Nat
  BY DEF ThreadsTyped
<1>2. Scripts(c, phase) \in Seq(ScriptRecords)
  BY <1>1, ScriptsTyped DEF PlacesTyped, ScriptSeqs
<1>3. Current(c) \in ScriptRecords
  BY <1>1, <1>2 DEF Current
<1> QED BY <1>1, <1>2, <1>3 DEF ScriptRecords

\* Whatever part of a script was run, the machines hold known facts.
LEMMA LeftTyped ==
    ASSUME PlacesTyped, ThreadsTyped, StoresTyped, NEW c \in Components, at[c] # 0, NEW done,
           \A n \in Machines(c) : done[n] \in 0..Len(Current(c).cmds), LeftAfter(c, done)
    PROVE  facts' \in [Components -> [{1, 2} -> SUBSET Facts]]
<1>1. facts \in [Components -> [{1, 2} -> SUBSET Facts]]
  BY DEF StoresTyped
<1>2. ASSUME NEW n \in Machines(c) PROVE n \in {1, 2} /\ Results(c)[n][done[n]].facts \in SUBSET Facts
  <2>1. n \in {1, 2}
    BY DEF Machines, NodesOf
  <2>2. Results(c)[n] = After(Current(c).cmds, facts[c][n], Strict(Current(c)))
    BY DEF Results
  <2>3. \A j \in 1..Len(Current(c).cmds), X \in SUBSET Facts : Step(Current(c).cmds[j], X).facts \in SUBSET Facts
    <3>1. Current(c).cmds \in Seq(Cmds)
      BY CurrentTyped DEF ScriptRecords
    <3>2. \A j \in 1..Len(Current(c).cmds) : Current(c).cmds[j] \in Cmds
      BY <3>1
    <3> QED BY <3>2, StepFacts
  <2>4. facts[c][n] \in SUBSET Facts /\ Strict(Current(c)) \in BOOLEAN
    BY <1>1, <2>1 DEF Strict
  <2>5. \A i \in 0..Len(Current(c).cmds) :
           After(Current(c).cmds, facts[c][n], Strict(Current(c)))[i].facts \in SUBSET Facts
    BY <2>3, <2>4, CurrentTyped, AfterKeeps
  <2> QED BY <2>1, <2>2, <2>5
<1> DEFINE left == [n \in {1, 2} |-> IF n \in Machines(c) THEN Results(c)[n][done[n]].facts ELSE facts[c][n]]
<1>3. left \in [{1, 2} -> SUBSET Facts]
  BY <1>1, <1>2
<1>4. facts' = [facts EXCEPT ![c] = left]
  BY DEF LeftAfter
<1> HIDE DEF left
<1> QED BY <1>1, <1>3, <1>4

\* What becomes of a thread after its script.
LEMMA ThreadGoesOn ==
    ASSUME PlacesTyped, ThreadsTyped, NEW c \in Components, at[c] # 0,
           UNCHANGED <<deploy, phase>>,
           Advance(c) \/ RaiseIn(c) \/ Again(c) \/ UNCHANGED threadVars
    PROVE  ThreadsTyped'
<1>1. /\ at[c] \in 1..Len(Scripts(c, phase)) /\ Len(Scripts(c, phase)) \in Nat /\ c \in Workers(phase)
  BY CurrentTyped DEF ThreadsTyped
<1>2. Workers(phase)' = Workers(phase) /\ \A d : Scripts(d, phase)' = Scripts(d, phase)
  BY DEF Workers, Members, Services, Kind, Scripts
<1>3. Attempts \in Nat \ {0}
  BY InstallAssumption
<1>4. /\ at' \in [Components -> Nat] /\ attempt' \in [Components -> 1..Attempts]
      /\ at'[c] <= Len(Scripts(c, phase)) /\ \A d \in Components \ {c} : at'[d] = at[d]
      /\ raised' \subseteq Workers(phase)
  <2>1. CASE Advance(c)
    BY <1>1, <1>3, <2>1 DEF ThreadsTyped, Advance
  <2>2. CASE RaiseIn(c)
    BY <1>1, <1>3, <2>2 DEF ThreadsTyped, RaiseIn
  <2>3. CASE Again(c) /\ ~RaiseIn(c)
    <3>1. attempt[c] \in 1..Attempts /\ attempt[c] # Attempts
      BY <2>3 DEF ThreadsTyped, Again
    <3>2. attempt' = [attempt EXCEPT ![c] = attempt[c] + 1] /\ UNCHANGED <<at, raised>>
      BY <2>3 DEF Again
    <3>3. attempt[c] + 1 \in 1..Attempts
      BY <1>3, <3>1
    <3> QED BY <1>1, <3>2, <3>3 DEF ThreadsTyped
  <2>4. CASE UNCHANGED threadVars
    BY <1>1, <2>4 DEF ThreadsTyped, threadVars
  <2> QED BY <2>1, <2>2, <2>3, <2>4
<1> QED BY <1>1, <1>2, <1>4 DEF ThreadsTyped

\* The threads of a phase are those of its components.
LEMMA StartThreadsTyped ==
    ASSUME deploy \in Deployments, deploy' = deploy, NEW ph, NEW cs,
           cs \subseteq Workers(ph), StartThreads(cs, ph)
    PROVE  ThreadsTyped' /\ phase' = ph
<1>1. Workers(ph)' = Workers(ph) /\ \A d : Scripts(d, ph)' = Scripts(d, ph)
  BY DEF Workers, Members, Services, Kind, Scripts
<1>2. ASSUME NEW c \in cs PROVE Scripts(c, ph) # <<>> => 1 <= Len(Scripts(c, ph))
  BY ScriptsTyped DEF ScriptSeqs
<1>3. Workers(phase') = Workers(ph)
  BY DEF StartThreads
<1>4. \A d : d \in Workers(phase)' <=> d \in Workers(ph)
  BY <1>1, <1>3 DEF StartThreads, Workers, Members, Services, Kind
<1>5. \A d : Scripts(d, phase)' = Scripts(d, ph)
  BY DEF StartThreads, Scripts, Kind
<1> QED BY <1>2, <1>4, <1>5, InstallAssumption DEF StartThreads, ThreadsTyped

\* Without threads there is nothing to run.
LEMMA NoThreadsTyped == NoThreads => ThreadsTyped'
BY InstallAssumption DEF NoThreads, ThreadsTyped

\* A step of the thread of c
ThreadStep(c) ==
    \/ ScriptSucceeds(c) \/ ScriptFails(c) \/ SearchFails(c) \/ NoAnswer(c)
    \/ RegisterMetricTarget(c) \/ DeregisterMetricTarget(c)
    \/ ScriptFault(c) \/ MetricsFault(c)

\* What a metrics server keeps or loses at the hands of a command.
LEMMA DeregisterTyped ==
    ASSUME DOMAIN targets = Envs, missed \subseteq Envs, faults \in 0..MaxFaults,
           NEW e \in Envs, NEW others \in SUBSET Envs, DeregisterCluster(e, others)
    PROVE  DOMAIN targets' = Envs /\ missed' \subseteq Envs /\ faults' \in 0..MaxFaults
BY InstallAssumption DEF DeregisterCluster

\* What depends on the deployment only.
LEMMA SameDeployment ==
    ASSUME deploy' = deploy
    PROVE  /\ NumEnvs' = NumEnvs /\ Envs' = Envs /\ Members' = Members /\ Services' = Services
BY DEF NumEnvs, Envs, Members, Services, Kind

\* A step of a thread keeps the types.
LEMMA ThreadStepTypes ==
    ASSUME TypeInv, NEW c \in Components, ThreadStep(c)
    PROVE  TypeInv'
<1> USE DEF TypeInv
<1>1. at[c] # 0 /\ UNCHANGED <<deploy, op, phase, ix, up, state, bt, server, missed, outcome>>
  BY DEF ThreadStep, ScriptSucceeds, ScriptFails, SearchFails, NoAnswer, RegisterMetricTarget,
         DeregisterMetricTarget, ScriptFault, MetricsFault, IsScript
<1>2. PlacesTyped'
  BY <1>1, SameDeployment DEF PlacesTyped
<1>3. ThreadsTyped'
  <2>1. Advance(c) \/ RaiseIn(c) \/ Again(c) \/ UNCHANGED threadVars
    BY DEF ThreadStep, ScriptSucceeds, ScriptFails, SearchFails, NoAnswer, RegisterMetricTarget,
           DeregisterMetricTarget, ScriptFault, MetricsFault
  <2> QED BY <1>1, <2>1, ThreadGoesOn
<1>4. facts' \in [Components -> [{1, 2} -> SUBSET Facts]]
  <2>1. CASE UNCHANGED facts
    BY <2>1 DEF StoresTyped
  <2>2. CASE LeftAfter(c, AllCommands(c))
    <3>1. \A n \in Machines(c) : AllCommands(c)[n] \in 0..Len(Current(c).cmds)
      BY <1>1, CurrentTyped DEF AllCommands
    <3> QED BY <1>1, <2>2, <3>1, LeftTyped
  <2>3. ASSUME NEW n \in Machines(c), NEW k \in 0..Len(Current(c).cmds),
               LeftAfter(c, [AllCommands(c) EXCEPT ![n] = k])
        PROVE  facts' \in [Components -> [{1, 2} -> SUBSET Facts]]
    <3>1. \A m \in Machines(c) : [AllCommands(c) EXCEPT ![n] = k][m] \in 0..Len(Current(c).cmds)
      BY <1>1, CurrentTyped DEF AllCommands
    <3> QED BY <1>1, <2>3, <3>1, LeftTyped
  <2>4. CASE SearchFails(c)
    <3>1. Len(Current(c).cmds) >= 1
      BY <2>4 DEF SearchFails
    <3>2. \A n \in Machines(c) : [m \in Machines(c) |-> Len(Current(c).cmds) - 1][n]
                                   \in 0..Len(Current(c).cmds)
      BY <1>1, <3>1, CurrentTyped
    <3> QED BY <1>1, <2>4, <3>2, LeftTyped DEF SearchFails
  <2> QED BY <2>1, <2>2, <2>3, <2>4 DEF ThreadStep, ScriptSucceeds, ScriptFails, NoAnswer,
       RegisterMetricTarget, DeregisterMetricTarget, ScriptFault, MetricsFault
<1>5. DOMAIN targets' = DOMAIN targets /\ faults' \in 0..MaxFaults
  BY InstallAssumption DEF StoresTyped, ThreadStep, ScriptSucceeds, ScriptFails, SearchFails,
     NoAnswer,
     RegisterMetricTarget, DeregisterMetricTarget, ScriptFault, MetricsFault, AddTarget
<1>6. StoresTyped'
  BY <1>1, <1>4, <1>5, SameDeployment DEF StoresTyped
<1> QED BY <1>2, <1>3, <1>6

\* A process in the background that ends takes no known fact's place.
LEMMA BackgroundTypes ==
    ASSUME TypeInv, NEW c \in Components, BackgroundEnds(c)
    PROVE  TypeInv'
<1> USE DEF TypeInv
<1>1. UNCHANGED <<deploy, op, phase, ix, at, attempt, raised, up, state, bt, server, targets,
                  missed, outcome>>
  BY DEF BackgroundEnds, threadVars
<1>2. PlacesTyped'
  BY <1>1, SameDeployment DEF PlacesTyped
<1>3. ThreadsTyped'
  BY <1>1, SameDeployment DEF ThreadsTyped, Workers, Scripts, Kind
<1>4. facts' \in [Components -> [{1, 2} -> SUBSET Facts]] /\ faults' \in 0..MaxFaults
  <2>1. PICK n \in NodesOf(c) :
           facts' = [facts EXCEPT ![c][n] = @ \ Background(c)]
    BY DEF BackgroundEnds
  <2>2. n \in {1, 2}
    BY DEF NodesOf
  <2>3. facts[c] \in [{1, 2} -> SUBSET Facts]
    BY DEF StoresTyped
  <2> DEFINE left == [facts[c] EXCEPT ![n] = @ \ Background(c)]
  <2>4. left \in [{1, 2} -> SUBSET Facts]
    BY <2>2, <2>3
  <2>5. faults' \in 0..MaxFaults
    BY InstallAssumption DEF StoresTyped, BackgroundEnds
  <2>6. facts' = [facts EXCEPT ![c] = left]
    BY <2>1
  <2> HIDE DEF left
  <2> QED BY <2>4, <2>5, <2>6 DEF StoresTyped
<1>5. StoresTyped'
  BY <1>1, <1>4, SameDeployment DEF StoresTyped
<1> QED BY <1>2, <1>3, <1>5

\* A command begins.
LEMMA BeginTypes ==
    ASSUME TypeInv, Provision \/ Install \/ Clean \/ Start \/ Stop \/ Deprovision \/ Nuke
    PROVE  TypeInv'
<1> USE DEF TypeInv
<1>0. NumEnvs \in Nat /\ NumEnvs >= 1 /\ deploy' = deploy /\ deploy \in Deployments
  BY EnvsFacts DEF PlacesTyped, Provision, Install, Clean, Start, Stop, Deprovision, Nuke
<1>1. op = "none" /\ phase = "none"
  BY DEF PlacesTyped, PhasesOf, Provision, Install, Clean, Start, Stop, Deprovision, Nuke, Begin
<1>2. CASE Provision
  <2>1. PlacesTyped' /\ ThreadsTyped'
    BY <1>0, <1>1, <1>2, SameDeployment
       DEF Provision, PlacesTyped, ThreadsTyped, threadVars, Workers, Scripts, Kind
  <2>2. StoresTyped'
    BY <1>0, <1>2, SameDeployment, InstallAssumption
       DEF Provision, StoresTyped, States, Envs, NoFacts
  <2> QED BY <2>1, <2>2
<1>3. ASSUME NEW ph \in {"configure", "clean"}, StartThreads(MembersIn(1), ph), ix' = 1,
             op' = IF ph = "clean" THEN "clean" ELSE "install", server' = 1,
             UNCHANGED <<facts, up, state, bt, targets, missed, outcome, faults>>
      PROVE  TypeInv'
  <2>1. ThreadsTyped' /\ phase' = ph
    BY <1>0, <1>3, StartThreadsTyped DEF Workers, MembersIn
  <2>2. PlacesTyped'
    BY <1>0, <1>3, <2>1, SameDeployment DEF PlacesTyped, PhasesOf, Ops
  <2>3. StoresTyped'
    BY <1>0, <1>3, SameDeployment DEF StoresTyped, Envs
  <2> QED BY <2>1, <2>2, <2>3
<1>4. CASE Start \/ Stop \/ Deprovision \/ Nuke
  <2>1. ThreadsTyped'
    <3>1. raised = {} /\ \A c \in Components : at[c] = 0
      BY <1>1 DEF ThreadsTyped, Workers
    <3> QED BY <1>4, <3>1 DEF Start, Stop, Deprovision, Nuke, ThreadsTyped, threadVars
  <2>2. PlacesTyped'
    BY <1>0, <1>4, SameDeployment DEF PlacesTyped, PhasesOf, Ops, Start, Stop, Deprovision, Nuke, Begin, Envs
  <2>3. StoresTyped'
    BY <1>0, <1>4, SameDeployment DEF StoresTyped, Start, Stop, Deprovision, Nuke
  <2> QED BY <2>1, <2>2, <2>3
<1>5. CASE Install
  BY <1>3, <1>5 DEF Install, Begin
<1>6. CASE Clean
  BY <1>3, <1>6 DEF Clean, Begin
<1> QED BY <1>2, <1>4, <1>5, <1>6

\* A command ends.
LEMMA EndTypes ==
    ASSUME TypeInv, ThreadsRaised \/ SaveReady \/ StartStopReturns \/ RemoveFile \/ Interrupt
    PROVE  TypeInv'
<1> USE DEF TypeInv
<1>0. NumEnvs \in Nat /\ NumEnvs >= 1 /\ deploy' = deploy /\ deploy \in Deployments
  BY EnvsFacts DEF PlacesTyped, ThreadsRaised, SaveReady, StartStopReturns, RemoveFile, Interrupt
<1>1. PICK how \in {"returned", "raised"} : End(how)
  BY DEF ThreadsRaised, SaveReady, StartStopReturns, RemoveFile, Interrupt
<1>2. ThreadsTyped'
  BY <1>1, NoThreadsTyped DEF End
<1>3. PlacesTyped'
  BY <1>0, <1>1, SameDeployment DEF PlacesTyped, PhasesOf, Ops, End
<1>4. StoresTyped'
  <2>1. TargetOf \in Members
    BY <1>0, KindOfComponent DEF TargetOf, HasProxy, Members, Components, Backends
  <2>2. faults' \in 0..MaxFaults /\ state' \in States /\ bt' \in Members \cup {"none"}
    BY <2>1, InstallAssumption DEF StoresTyped, States, ThreadsRaised, SaveReady,
       StartStopReturns, RemoveFile, Interrupt
  <2>3. UNCHANGED <<facts, up, server, targets, missed>>
    BY DEF ThreadsRaised, SaveReady, StartStopReturns, RemoveFile, Interrupt
  <2> QED BY <1>0, <1>1, <2>2, <2>3, SameDeployment DEF StoresTyped, End
<1> QED BY <1>2, <1>3, <1>4

\* A command goes from one phase to the next with threads of their own.
LEMMA PhaseTypes ==
    ASSUME TypeInv, ConfigureNextEnv \/ InstallComponents \/ PostInstall
    PROVE  TypeInv'
<1> USE DEF TypeInv
<1>0. NumEnvs \in Nat /\ NumEnvs >= 1 /\ deploy' = deploy /\ deploy \in Deployments /\ op = "install"
  BY EnvsFacts DEF PlacesTyped, PhasesOf, Ops, ConfigureNextEnv, InstallComponents,
     PostInstall, ThreadsReturned
<1>1. /\ ThreadsTyped' /\ phase' \in {"configure", "install", "post_install"}
  <2>1. CASE ConfigureNextEnv
    BY <1>0, <2>1, StartThreadsTyped DEF ConfigureNextEnv, Workers, MembersIn
  <2>2. CASE InstallComponents
    BY <1>0, <2>2, StartThreadsTyped DEF InstallComponents, Workers
  <2>3. CASE PostInstall
    BY <1>0, <2>3, StartThreadsTyped DEF PostInstall, Workers, HasProxy
  <2> QED BY <2>1, <2>2, <2>3
<1>2. op' = op /\ ix' \in 1..NumEnvs
  BY <1>0 DEF PlacesTyped, ConfigureNextEnv, InstallComponents, PostInstall, ThreadsReturned
<1>3. PlacesTyped'
  BY <1>0, <1>1, <1>2, SameDeployment DEF PlacesTyped, PhasesOf, Ops
<1>4. server' \in Envs
  BY <1>0 DEF PlacesTyped, StoresTyped, ConfigureNextEnv, InstallComponents, PostInstall, Envs
<1>5. StoresTyped'
  BY <1>0, <1>4, SameDeployment DEF StoresTyped, ConfigureNextEnv, InstallComponents, PostInstall
<1> QED BY <1>1, <1>3, <1>5

\* clean goes to the next environment, or ends.
LEMMA CleanTypes ==
    ASSUME TypeInv, CleanEnvDone
    PROVE  TypeInv'
<1> USE DEF TypeInv
<1>0. NumEnvs \in Nat /\ NumEnvs >= 1 /\ deploy' = deploy /\ deploy \in Deployments /\ op = "clean"
      /\ ix \in 1..NumEnvs
  BY EnvsFacts DEF PlacesTyped, PhasesOf, Ops, CleanEnvDone, ThreadsReturned
<1>1. CASE ix < NumEnvs
  <2>1. ThreadsTyped' /\ phase' = "clean"
    BY <1>0, <1>1, StartThreadsTyped DEF CleanEnvDone, Workers, MembersIn
  <2>2. PlacesTyped'
    BY <1>0, <1>1, <2>1, SameDeployment DEF PlacesTyped, PhasesOf, Ops, CleanEnvDone
  <2>3. StoresTyped'
    BY <1>0, <1>1, SameDeployment DEF StoresTyped, CleanEnvDone, Envs
  <2> QED BY <2>1, <2>2, <2>3
<1>2. CASE ~(ix < NumEnvs)
  <2>1. End("returned") /\ UNCHANGED server
    BY <1>2 DEF CleanEnvDone
  <2>2. ThreadsTyped' /\ PlacesTyped'
    BY <1>0, <2>1, SameDeployment, NoThreadsTyped DEF End, PlacesTyped, PhasesOf, Ops
  <2>3. StoresTyped'
    BY <1>0, <2>1, SameDeployment DEF StoresTyped, CleanEnvDone, End
  <2> QED BY <2>2, <2>3
<1> QED BY <1>1, <1>2

\* start, stop, deprovision and nuke go through the environments.
LEMMA EnvTypes ==
    ASSUME TypeInv, StartEnv \/ NextStartEnv \/ StopEnv \/ StopInstances \/ DeprovisionEnv \/ NukeEnv
    PROVE  TypeInv'
<1> USE DEF TypeInv
<1>0. NumEnvs \in Nat /\ NumEnvs >= 1 /\ deploy' = deploy /\ deploy \in Deployments /\ ix \in 1..(NumEnvs + 1)
  BY EnvsFacts DEF PlacesTyped, StartEnv, NextStartEnv, StopEnv, StopInstances, DeprovisionEnv, NukeEnv
<1>1. /\ op \in {"start", "stop", "deprovision", "nuke"} /\ ix <= NumEnvs
      /\ StartEnv \/ NextStartEnv => op = "start"
      /\ StopEnv \/ StopInstances => op = "stop"
      /\ DeprovisionEnv => op = "deprovision"
      /\ NukeEnv => op = "nuke" /\ phase = "env"
  BY DEF PlacesTyped, PhasesOf, Ops, StartEnv, NextStartEnv, StopEnv, StopInstances,
     DeprovisionEnv, NukeEnv, ThreadsReturned
<1>2. ASSUME phase = "env", UNCHANGED <<phase, threadVars>> PROVE ThreadsTyped'
  <2>1. raised = {} /\ \A c \in Components : at[c] = 0
    BY <1>2 DEF ThreadsTyped, Workers
  <2> QED BY <1>2, <2>1 DEF ThreadsTyped, threadVars
<1>3. ASSUME phase' = "env", ix' \in {ix + 1, NumEnvs + 1}, op' = op, ThreadsTyped' PROVE PlacesTyped' /\ ThreadsTyped'
  BY <1>0, <1>1, <1>3, SameDeployment DEF PlacesTyped, PhasesOf, Ops
<1>4. ASSUME NEW ph \in {"start", "stop"}, op = ph, op' = op, ix' = ix, StartThreads(Services, ph)
      PROVE  PlacesTyped' /\ ThreadsTyped'
  <2>1. ThreadsTyped' /\ phase' = ph
    BY <1>0, <1>4, StartThreadsTyped DEF Workers
  <2> QED BY <1>0, <1>1, <1>4, <2>1, SameDeployment DEF PlacesTyped, PhasesOf, Ops
<1>5. ASSUME NEW how, End(how) PROVE PlacesTyped' /\ ThreadsTyped'
  BY <1>0, <1>5, SameDeployment, NoThreadsTyped DEF End, PlacesTyped, PhasesOf, Ops
<1>6. PlacesTyped' /\ ThreadsTyped'
  <2>1. CASE StartEnv
    BY <1>1, <1>4, <1>5, <2>1 DEF StartEnv
  <2>2. CASE NextStartEnv
    BY <1>3, <2>2, NoThreadsTyped DEF NextStartEnv
  <2>3. CASE StopEnv
    BY <1>1, <1>2, <1>3, <1>4, <1>5, <2>3 DEF StopEnv
  <2>4. CASE StopInstances
    BY <1>3, <2>4, NoThreadsTyped DEF StopInstances
  <2>5. CASE DeprovisionEnv
    BY <1>2, <1>3, <2>5 DEF DeprovisionEnv
  <2>6. CASE NukeEnv
    BY <1>1, <1>2, <1>3, <2>6 DEF NukeEnv
  <2> QED BY <2>1, <2>2, <2>3, <2>4, <2>5, <2>6
<1>7. facts' \in [Components -> [{1, 2} -> SUBSET Facts]]
  <2>1. CASE StopInstances
    <3>1. \A c \in Components : [n \in {1, 2} |-> facts[c][n] \ Volatile] \in [{1, 2} -> SUBSET Facts]
      BY DEF StoresTyped
    <3> QED BY <2>1, <3>1 DEF StopInstances, StoresTyped
  <2>2. CASE TerminateEnv(ix)
    <3>1. \A c \in Components : NoFacts[c] \in [{1, 2} -> SUBSET Facts]
      BY DEF NoFacts
    <3> QED BY <2>2, <3>1 DEF TerminateEnv, StoresTyped
  <2> QED BY <2>1, <2>2 DEF DeprovisionEnv, NukeEnv, StartEnv, NextStartEnv, StopEnv, StoresTyped
<1>8. /\ up' \subseteq Members /\ state' \in States /\ server' \in Envs
      /\ outcome' \in {"returned", "raised"} /\ bt' = bt
  BY <1>0, <1>1 DEF StoresTyped, StartEnv, NextStartEnv, StopEnv, StopInstances, DeprovisionEnv,
     NukeEnv, TerminateEnv, Instances, MembersIn, States, Envs, End
<1>9. DOMAIN targets' = Envs /\ missed' \subseteq Envs /\ faults' \in 0..MaxFaults
  <2>1. CASE DeprovisionEnv \/ NukeEnv
    <3>1. PICK others \in SUBSET Envs : DeregisterCluster(ix, others)
      BY <2>1 DEF DeprovisionEnv, NukeEnv
    <3>2. ix \in Envs
      BY <1>0, <1>1 DEF Envs
    <3> QED BY <3>1, <3>2, DeregisterTyped DEF StoresTyped
  <2>2. CASE ~(DeprovisionEnv \/ NukeEnv)
    BY <2>2 DEF StartEnv, NextStartEnv, StopEnv, StopInstances, StoresTyped
  <2> QED BY <2>1, <2>2
<1>10. StoresTyped'
  BY <1>0, <1>7, <1>8, <1>9, SameDeployment DEF StoresTyped
<1> QED BY <1>6, <1>10

\* Every step keeps the types.
LEMMA TypesStep == TypeInv /\ [Next]_vars => TypeInv'
<1> SUFFICES ASSUME TypeInv, [Next]_vars PROVE TypeInv'
  OBVIOUS
<1>1. CASE UNCHANGED vars
  <2>1. deploy' = deploy
    BY <1>1 DEF vars
  <2> QED BY <1>1, <2>1, SameDeployment DEF vars, TypeInv, PlacesTyped, ThreadsTyped,
             StoresTyped, Workers, Scripts, Kind
<1>2. CASE \E c \in Components : ThreadStep(c)
  BY <1>2, ThreadStepTypes
<1>3. CASE \E c \in Components : BackgroundEnds(c)
  BY <1>3, BackgroundTypes
<1> QED BY <1>1, <1>2, <1>3, BeginTypes, EndTypes, PhaseTypes, CleanTypes, EnvTypes DEF Next,
           Progress, ThreadStep

\* No thread runs past the last of its scripts or more often than it may, none
\* outlives its phase, and no metrics server but those of the cluster is used,
\* for every set of deployments, any number of environments, attempts and faults.
THEOREM ComponentTyped == Spec => []TypeOK
<1> QED BY TypesHold, TypesInit, TypesStep, PTL DEF Spec

(***************************************************************************)
(* start                                                                   *)
(***************************************************************************)
\* The command that starts a server, and a script of it alone
RunServer == With({"pkg", "conf", "data"}, {"running"})
StartsServer(script) == script.cmds = <<RunServer>>

\* No command of a script takes a running server down
NeverStops(script) == \A j \in 1..Len(script.cmds) : \A k \in script.cmds[j] : "running" \notin k.dels

\* What the scripts of start have in common
StartScript(script) == script.method = "run" /\ NeverStops(script)

\* Three scripts in a row.
LEMMA ThreeInARow ==
    ASSUME NEW S, NEW s \in Seq(S), NEW t \in Seq(S), NEW x \in S, Len(s) = 1, Len(t) = 1
    PROVE  LET u == (s \o t) \o <<x>>
           IN  Len(u) = 3 /\ u[1] = s[1] /\ u[2] = t[1] /\ u[3] = x
<1> DEFINE v == s \o t
           w == <<x>>
<1>2. Len(v) = 2 /\ v \in Seq(S) /\ v[1] = s[1] /\ v[2] = t[1]
  <2>1. /\ v \in Seq(S) /\ Len(v) = Len(s) + Len(t)
        /\ \A i \in 1..Len(s) + Len(t) : v[i] = IF i <= Len(s) THEN s[i] ELSE t[i - Len(s)]
    BY ConcatProperties
  <2> HIDE DEF v
  <2> QED BY <2>1
<1>3. w \in Seq(S) /\ Len(w) = 1 /\ w[1] = x
  OBVIOUS
<1> HIDE DEF v, w
<1>4. Len(v \o w) = 3 /\ (v \o w)[1] = v[1] /\ (v \o w)[2] = v[2] /\ (v \o w)[3] = w[1]
  <2>1. /\ Len(v \o w) = Len(v) + Len(w)
        /\ \A i \in 1..Len(v) + Len(w) : (v \o w)[i] = IF i <= Len(v) THEN v[i] ELSE w[i - Len(v)]
    BY <1>2, <1>3, ConcatProperties
  <2> QED BY <1>2, <1>3, <2>1
<1> QED BY <1>2, <1>3, <1>4 DEF v, w

\* Neither of the commands of start takes a running server down.
LEMMA ServerKept ==
    /\ \A j \in 1..Len(<<RunServer>>) : \A k \in <<RunServer>>[j] : "running" \notin k.dels
    /\ \A j \in 1..Len(<<With({"pkg"}, {"cmapi"})>>) :
           \A k \in <<With({"pkg"}, {"cmapi"})>>[j] : "running" \notin k.dels
BY DEF RunServer, With, Case

\* The first two scripts of a ColumnStore start the server of one machine each.
LEMMA ColumnStoreStarts ==
    /\ Len(ColumnStoreStart) = 3
    /\ StartsServer(ColumnStoreStart[1]) /\ ColumnStoreStart[1].on = {1}
    /\ StartsServer(ColumnStoreStart[2]) /\ ColumnStoreStart[2].on = {2}
    /\ \A j \in 1..3 : StartScript(ColumnStoreStart[j])
<1> DEFINE one == On({1}, <<SystemctlStart>>)
           two == On({2}, <<SystemctlStart>>)
           cmapi == Run(<<With({"pkg"}, {"cmapi"})>>)
<1>1. <<SystemctlStart>> \in ScriptSeqs /\ Len(<<SystemctlStart>>) = 1 /\ <<SystemctlStart>>[1] = SystemctlStart
  BY NamedScripts, TupleTypes
<1>2. /\ Len(one) = 1 /\ one[1] = [SystemctlStart EXCEPT !.on = {1}] /\ one \in ScriptSeqs
      /\ Len(two) = 1 /\ two[1] = [SystemctlStart EXCEPT !.on = {2}] /\ two \in ScriptSeqs
  <2>1. ASSUME NEW N \in {{1}, {2}}
        PROVE  /\ On(N, <<SystemctlStart>>) \in ScriptSeqs /\ Len(On(N, <<SystemctlStart>>)) = 1
               /\ On(N, <<SystemctlStart>>)[1] = [SystemctlStart EXCEPT !.on = N]
    <3>1. N \in SUBSET {1, 2} /\ 1 \in 1..Len(<<SystemctlStart>>)
      BY <1>1
    <3> QED BY <1>1, <3>1, OnType
  <2> QED BY <2>1
<1>3. ColumnStoreStart = (one \o two) \o <<cmapi>>
  BY DEF ColumnStoreStart, EachNode
<1>4. /\ Len(ColumnStoreStart) = 3
      /\ ColumnStoreStart[1] = one[1] /\ ColumnStoreStart[2] = two[1] /\ ColumnStoreStart[3] = cmapi
  <2>1. cmapi \in ScriptRecords
    <3>1. With({"pkg"}, {"cmapi"}) \in Cmds
      BY CommandTypes, KnownFacts
    <3> QED BY <3>1, RunTypes
  <2>2. one \in Seq(ScriptRecords) /\ two \in Seq(ScriptRecords) /\ Len(one) = 1 /\ Len(two) = 1
    BY <1>2 DEF ScriptSeqs
  <2> HIDE DEF one, two, cmapi
  <2> QED BY <1>3, <2>1, <2>2, ThreeInARow
<1>5. ASSUME NEW N
      PROVE  /\ [SystemctlStart EXCEPT !.on = N].cmds = <<RunServer>>
             /\ [SystemctlStart EXCEPT !.on = N].method = "run"
             /\ [SystemctlStart EXCEPT !.on = N].on = N
  BY DEF SystemctlStart, Run, Script, RunServer
<1>6. ASSUME NEW script, script.cmds = <<RunServer>> \/ script.cmds = <<With({"pkg"}, {"cmapi"})>>
      PROVE  NeverStops(script)
  BY <1>6, ServerKept DEF NeverStops
<1>7. cmapi.cmds = <<With({"pkg"}, {"cmapi"})>> /\ cmapi.method = "run"
  BY DEF Run, Script
<1> HIDE DEF one, two, cmapi
<1>8. /\ ColumnStoreStart[1].cmds = <<RunServer>> /\ ColumnStoreStart[1].on = {1}
      /\ ColumnStoreStart[1].method = "run"
  BY <1>2, <1>4, <1>5
<1>9. /\ ColumnStoreStart[2].cmds = <<RunServer>> /\ ColumnStoreStart[2].on = {2}
      /\ ColumnStoreStart[2].method = "run"
  BY <1>2, <1>4, <1>5
<1>10. \A j \in 1..3 : StartScript(ColumnStoreStart[j])
  <2>1. StartScript(ColumnStoreStart[1]) /\ StartScript(ColumnStoreStart[2])
    BY <1>6, <1>8, <1>9 DEF StartScript
  <2>2. StartScript(ColumnStoreStart[3])
    BY <1>4, <1>6, <1>7 DEF StartScript
  <2>3. \A j \in 1..3 : j = 1 \/ j = 2 \/ j = 3
    OBVIOUS
  <2> QED BY <2>1, <2>2, <2>3
<1> QED BY <1>4, <1>8, <1>9, <1>10 DEF StartsServer

\* The scripts of start are repeated as a whole, stop no server, and start one on each machine.
LEMMA StartScripts ==
    ASSUME deploy \in Deployments, NEW c \in Services
    PROVE  /\ \A j \in 1..Len(Scripts(c, "start")) : StartScript(Scripts(c, "start")[j])
           /\ \A n \in NodesOf(c) : \E j \in 1..Len(Scripts(c, "start")) :
                 n \in Scripts(c, "start")[j].on /\ StartsServer(Scripts(c, "start")[j])
           /\ Scripts(c, "start") # <<>>
<1>1. Kind(c) \in {"MariaDB", "MySQL", "Postgres", "Xpand", "ColumnStore"}
  BY DEF Services, Backends
<1>2. ASSUME NEW s, s = SystemctlStart \/ s = ClustrixStart
      PROVE  StartScript(s) /\ StartsServer(s) /\ s.on = {1, 2}
  <2>1. s.cmds = <<RunServer>> /\ s.method = "run" /\ s.on = {1, 2}
    <3>1. SystemctlStart.cmds = <<RunServer>> /\ SystemctlStart.method = "run" /\ SystemctlStart.on = {1, 2}
      BY DEF SystemctlStart, Run, Script, RunServer
    <3>2. ClustrixStart.cmds = <<RunServer>> /\ ClustrixStart.method = "run" /\ ClustrixStart.on = {1, 2}
      BY DEF ClustrixStart, Run, Script, RunServer
    <3> QED BY <1>2, <3>1, <3>2
  <2> QED BY <2>1, ServerKept DEF StartScript, StartsServer, NeverStops
<1>3. CASE Kind(c) # "ColumnStore"
  <2>1. PICK s : Scripts(c, "start") = <<s>> /\ s \in {SystemctlStart, ClustrixStart}
    BY <1>1, <1>3 DEF Scripts, StartOf
  <2>2. StartScript(s) /\ StartsServer(s) /\ s.on = {1, 2}
    BY <1>2, <2>1
  <2>3. Len(<<s>>) = 1 /\ <<s>>[1] = s /\ <<s>> # <<>>
    OBVIOUS
  <2>4. NodesOf(c) \subseteq {1, 2}
    BY DEF NodesOf
  <2> HIDE DEF StartScript, StartsServer
  <2> QED BY <2>1, <2>2, <2>3, <2>4
<1>4. CASE Kind(c) = "ColumnStore"
  <2>1. Scripts(c, "start") = ColumnStoreStart
    BY <1>4 DEF Scripts, StartOf
  <2>2. NodesOf(c) = {1, 2}
    BY <1>4 DEF NodesOf
  <2>3. ColumnStoreStart # <<>>
    BY ColumnStoreStarts
  <2> QED BY <2>1, <2>2, <2>3, ColumnStoreStarts
<1> QED BY <1>3, <1>4

\* A script that never stops a server leaves it running, however far it comes.
LEMMA StaysRunning ==
    ASSUME NEW script \in ScriptRecords, NeverStops(script), NEW F, "running" \in F, NEW i \in 0..Len(script.cmds)
    PROVE  "running" \in After(script.cmds, F, Strict(script))[i].facts
<1> DEFINE G == {X \in SUBSET (F \cup Facts) : "running" \in X}
<1>1. F \in G
  OBVIOUS
<1>2. Len(script.cmds) \in Nat /\ Strict(script) \in BOOLEAN /\ script.cmds \in Seq(Cmds)
  BY DEF ScriptRecords, Strict
<1>3. ASSUME NEW j \in 1..Len(script.cmds), NEW X \in G PROVE Step(script.cmds[j], X).facts \in G
  <2> DEFINE cmd == script.cmds[j]
  <2>1. cmd \in Cmds /\ \A k \in cmd : "running" \notin k.dels
    BY <1>2 DEF NeverStops
  <2>2. \A k \in cmd : k.adds \in SUBSET Facts
    BY <2>1 DEF Cmds, Cases
  <2>3. Step(cmd, X).facts = X \/ \E k \in cmd : Step(cmd, X).facts = (X \ k.dels) \cup k.adds
    BY DEF Step
  <2> HIDE DEF cmd
  <2>4. Step(cmd, X).facts \in G
    BY <2>1, <2>2, <2>3
  <2> QED BY <2>4 DEF cmd
<1> HIDE DEF G
<1>4. After(script.cmds, F, Strict(script))[i].facts \in G
  <2>1. Len(script.cmds) \in Nat
    BY <1>2
  <2> QED BY <1>1, <1>2, <1>3, <2>1, AfterKeeps
<1> QED BY <1>4 DEF G

\* When the script that starts a server has succeeded, it runs.
LEMMA ServerStarted ==
    ASSUME NEW script, StartsServer(script), NEW F, NEW strict,
           After(script.cmds, F, strict)[Len(script.cmds)].ok
    PROVE  "running" \in After(script.cmds, F, strict)[Len(script.cmds)].facts
<1> DEFINE r == After(<<RunServer>>, F, strict)
<1>1. Len(<<RunServer>>) = 1 /\ <<RunServer>>[1] = RunServer
  OBVIOUS
<1>2. r = [i \in 0..1 |-> Turn(<<RunServer>>, F, strict, r, i)]
  <2>1. Len(<<RunServer>>) \in Nat
    BY <1>1
  <2>2. RunsUpTo(<<RunServer>>, F, strict, Len(<<RunServer>>), r)
    BY <2>1, AfterIs
  <2> HIDE DEF r
  <2> QED BY <1>1, <2>2 DEF RunsUpTo
<1>3. r[0] = [facts |-> F, ok |-> TRUE] /\ r[1] = Turn(<<RunServer>>, F, strict, r, 1)
  <2> HIDE DEF r
  <2> QED BY <1>2 DEF Turn
<1>4. r[1] = Step(RunServer, F)
  <2> HIDE DEF r
  <2> QED BY <1>1, <1>3 DEF Turn
<1>5. r[1].ok
  BY <1>1 DEF StartsServer
<1>6. Step(RunServer, F).ok => "running" \in Step(RunServer, F).facts
  BY DEF Step, RunServer, With, Case
<1> QED BY <1>1, <1>4, <1>5, <1>6 DEF StartsServer

\* The servers that the scripts before the current one start do run
StartedSoFar ==
    phase = "start" =>
        \A c \in Services \ raised : \A j \in 1..Len(Scripts(c, "start")) :
            (at[c] = 0 \/ j < at[c]) /\ StartsServer(Scripts(c, "start")[j])
            => c \in up /\ \A n \in NodesOf(c) \cap Scripts(c, "start")[j].on : "running" \in facts[c][n]

\* After the first environment every server runs, whatever environment it is in
AllServe ==
    op = "start" /\ phase = "env" /\ ix > 1 =>
        \A c \in Services : c \in up /\ \A n \in NodesOf(c) : "running" \in facts[c][n]

\* What start relies on
StartInv == TypeInv /\ StartedSoFar /\ AllServe

\* Whatever part of a script of start was run, a server that ran still does.
LEMMA LeftRunning ==
    ASSUME TypeInv, phase = "start", NEW c \in Components, at[c] # 0, NEW done,
           \A n \in Machines(c) : done[n] \in 0..Len(Current(c).cmds), LeftAfter(c, done)
    PROVE  /\ \A n \in {1, 2} : "running" \in facts[c][n] => "running" \in facts'[c][n]
           /\ \A d \in Components \ {c} : facts'[d] = facts[d]
<1> USE DEF TypeInv
<1>1. facts \in [Components -> [{1, 2} -> SUBSET Facts]]
  BY DEF StoresTyped
<1>2. Current(c) \in ScriptRecords /\ NeverStops(Current(c))
  <2>1. c \in Services
    BY DEF ThreadsTyped, Workers
  <2>2. at[c] \in 1..Len(Scripts(c, "start")) /\ Current(c) = Scripts(c, "start")[at[c]]
    BY CurrentTyped DEF Current
  <2> QED BY <2>1, <2>2, CurrentTyped, StartScripts DEF PlacesTyped, StartScript
<1>3. ASSUME NEW n \in Machines(c), "running" \in facts[c][n]
      PROVE  "running" \in Results(c)[n][done[n]].facts
  <2>1. Results(c)[n] = After(Current(c).cmds, facts[c][n], Strict(Current(c)))
    BY DEF Results
  <2> QED BY <1>2, <1>3, <2>1, StaysRunning
<1> DEFINE left == [n \in {1, 2} |-> IF n \in Machines(c) THEN Results(c)[n][done[n]].facts ELSE facts[c][n]]
<1>4. facts' = [facts EXCEPT ![c] = left]
  BY DEF LeftAfter
<1>5. \A n \in {1, 2} : "running" \in facts[c][n] => "running" \in left[n]
  BY <1>3
<1> HIDE DEF left
<1> QED BY <1>1, <1>4, <1>5

\* A thread of start goes on only when its server runs, and stops no server.
LEMMA ServedByThread ==
    ASSUME StartInv, NEW c \in Components, ThreadStep(c), phase = "start"
    PROVE  /\ \A d \in Components, n \in {1, 2} : "running" \in facts[d][n] => "running" \in facts'[d][n]
           /\ \A d \in Components \ {c} : at'[d] = at[d]
           /\ raised \subseteq raised'
           /\ \/ c \in raised' \/ at'[c] = at[c]
              \/ /\ Advance(c) /\ c \in up
                 /\ StartsServer(Current(c)) => \A n \in Machines(c) : "running" \in facts'[c][n]
<1> USE DEF StartInv, TypeInv
<1>1. at[c] # 0 /\ c \in Services
  <2>1. at[c] # 0
    BY DEF ThreadStep, ScriptSucceeds, ScriptFails, SearchFails, NoAnswer, RegisterMetricTarget,
           DeregisterMetricTarget, ScriptFault, MetricsFault, IsScript
  <2> QED BY <2>1 DEF ThreadsTyped, Workers
<1>2. Current(c).method = "run" /\ Current(c) \in ScriptRecords /\ Len(Current(c).cmds) \in Nat
  <2>2. at[c] \in 1..Len(Scripts(c, "start")) /\ Current(c) = Scripts(c, "start")[at[c]]
    BY <1>1, CurrentTyped DEF Current
  <2> QED BY <1>1, <2>2, CurrentTyped, StartScripts DEF PlacesTyped, StartScript
<1>3. \/ ScriptSucceeds(c)
      \/ /\ ScriptFails(c) \/ NoAnswer(c) \/ ScriptFault(c)
         /\ Again(c) \/ UNCHANGED threadVars
  BY <1>2 DEF ThreadStep, ScriptFails, SearchFails, NoAnswer, RegisterMetricTarget, ErrorsIgnored,
     DeregisterMetricTarget, ScriptFault, MetricsFault
<1>4. \A n \in Machines(c) : AllCommands(c)[n] = Len(Current(c).cmds)
  BY DEF AllCommands
<1>5. \/ UNCHANGED facts
      \/ \E done : LeftAfter(c, done) /\ \A n \in Machines(c) : done[n] \in 0..Len(Current(c).cmds)
  <2>1. CASE LeftAfter(c, AllCommands(c))
    BY <1>2, <1>4, <2>1
  <2>2. ASSUME NEW n \in Machines(c), NEW k \in 0..Len(Current(c).cmds),
               LeftAfter(c, [AllCommands(c) EXCEPT ![n] = k])
        PROVE  <1>5
    <3>1. \A m \in Machines(c) : [AllCommands(c) EXCEPT ![n] = k][m] \in 0..Len(Current(c).cmds)
      BY <1>2 DEF AllCommands
    <3> QED BY <2>2, <3>1
  <2> QED BY <1>3, <2>1, <2>2 DEF ScriptSucceeds, ScriptFails, NoAnswer, ScriptFault
<1>6. \A d \in Components, n \in {1, 2} : "running" \in facts[d][n] => "running" \in facts'[d][n]
  <2>1. CASE UNCHANGED facts
    BY <2>1
  <2>2. ASSUME NEW done, LeftAfter(c, done), \A n \in Machines(c) : done[n] \in 0..Len(Current(c).cmds)
        PROVE  <1>6
    BY <1>1, <2>2, LeftRunning
  <2> QED BY <1>5, <2>1, <2>2
<1>7. CASE ScriptSucceeds(c)
  <2>1. Advance(c) /\ c \in up /\ LeftAfter(c, AllCommands(c))
        /\ \A n \in Machines(c) : Results(c)[n][Len(Current(c).cmds)].ok
    BY <1>2, <1>7 DEF ScriptSucceeds, ErrorsIgnored
  <2>2. ASSUME StartsServer(Current(c)), NEW n \in Machines(c) PROVE "running" \in facts'[c][n]
    <3>1. Results(c)[n] = After(Current(c).cmds, facts[c][n], Strict(Current(c)))
      BY DEF Results
    <3>2. "running" \in Results(c)[n][Len(Current(c).cmds)].facts
      BY <2>1, <2>2, <3>1, ServerStarted
    <3>3. n \in {1, 2} /\ facts \in [Components -> [{1, 2} -> SUBSET Facts]]
      BY DEF Machines, NodesOf, StoresTyped
    <3>4. facts'[c][n] = Results(c)[n][AllCommands(c)[n]].facts
      BY <2>1, <3>3 DEF LeftAfter
    <3> QED BY <1>4, <3>2, <3>4
  <2>3. raised' = raised /\ \A d \in Components \ {c} : at'[d] = at[d]
    BY <2>1 DEF Advance, ThreadsTyped
  <2> QED BY <1>6, <2>1, <2>2, <2>3
<1>8. CASE Again(c) \/ UNCHANGED threadVars
  BY <1>6, <1>8 DEF Again, RaiseIn, threadVars, ThreadsTyped
<1> QED BY <1>3, <1>7, <1>8

\* A step of a thread keeps the servers that were started.
LEMMA ThreadServes ==
    ASSUME StartInv, NEW c \in Components, ThreadStep(c)
    PROVE  StartedSoFar' /\ AllServe'
<1>1. at[c] # 0 /\ UNCHANGED <<deploy, op, phase, ix, up>>
  BY DEF ThreadStep, ScriptSucceeds, ScriptFails, SearchFails, NoAnswer, RegisterMetricTarget,
         DeregisterMetricTarget, ScriptFault, MetricsFault, IsScript
<1>2. phase # "env"
  BY <1>1 DEF StartInv, TypeInv, ThreadsTyped, Workers
<1>3. AllServe'
  BY <1>1, <1>2 DEF AllServe
<1>4. CASE phase = "start"
  <2> SUFFICES ASSUME NEW d \in Services \ raised', NEW j \in 1..Len(Scripts(d, "start")),
                      at'[d] = 0 \/ j < at'[d], StartsServer(Scripts(d, "start")[j])
               PROVE  d \in up /\ \A n \in NodesOf(d) \cap Scripts(d, "start")[j].on : "running" \in facts'[d][n]
    <3>1. Services' = Services /\ \A d : Scripts(d, "start")' = Scripts(d, "start") /\ NodesOf(d)' = NodesOf(d)
      BY <1>1, SameDeployment DEF Scripts, Kind, NodesOf
    <3> QED BY <1>1, <1>3, <3>1 DEF StartedSoFar
  <2>1. d \in Components /\ NodesOf(d) \subseteq {1, 2}
    BY DEF Services, Members, NodesOf
  <2>2. d \notin raised
    BY <1>4, ServedByThread
  <2>3. CASE at[d] = 0 \/ j < at[d]
    <3>1. d \in up /\ \A n \in NodesOf(d) \cap Scripts(d, "start")[j].on : "running" \in facts[d][n]
      BY <1>4, <2>2, <2>3 DEF StartInv, StartedSoFar
    <3> QED BY <1>4, <2>1, <3>1, ServedByThread
  <2>4. CASE ~(at[d] = 0 \/ j < at[d])
    <3>1. d = c /\ Advance(c) /\ c \in up
          /\ (StartsServer(Current(c)) => \A n \in Machines(c) : "running" \in facts'[c][n])
      BY <1>1, <1>4, <2>1, <2>4, ServedByThread
    <3>2. at[c] \in 1..Len(Scripts(c, "start")) /\ at \in [Components -> Nat]
      BY <1>1, <1>4, CurrentTyped DEF StartInv, TypeInv, ThreadsTyped
    <3>3. j = at[c]
      BY <1>4, <2>4, <3>1, <3>2 DEF Advance
    <3>4. Current(c) = Scripts(c, "start")[j]
      BY <1>4, <3>3 DEF Current
    <3> QED BY <3>1, <3>4 DEF Machines
  <2> QED BY <2>3, <2>4
<1>5. CASE phase # "start"
  BY <1>1, <1>3, <1>5 DEF StartedSoFar
<1> QED BY <1>3, <1>4, <1>5

\* No database server is a process in the background.
LEMMA BackgroundSpares ==
    ASSUME StoresTyped, NEW c \in Components, BackgroundEnds(c), NEW d \in Services,
           NEW n \in NodesOf(d), "running" \in facts[d][n]
    PROVE  "running" \in facts'[d][n]
<1>1. PICK m \in NodesOf(c) : facts' = [facts EXCEPT ![c][m] = @ \ Background(c)]
  BY DEF BackgroundEnds
<1>2. facts \in [Components -> [{1, 2} -> SUBSET Facts]] /\ d \in Components /\ n \in {1, 2}
  BY DEF StoresTyped, Services, Members, NodesOf
<1>3. "running" \notin Background(d)
  BY DEF Background, Services, Backends
<1> DEFINE left == [facts[c] EXCEPT ![m] = @ \ Background(c)]
<1>4. c = d => "running" \in left[n]
  BY <1>2, <1>3
<1>5. facts' = [facts EXCEPT ![c] = left]
  BY <1>1
<1> HIDE DEF left
<1> QED BY <1>2, <1>4, <1>5

\* Every step keeps the servers that were started for as long as start needs them.
LEMMA StartStep == StartInv /\ [Next]_vars => StartInv'
<1> SUFFICES ASSUME StartInv, [Next]_vars PROVE StartInv'
  OBVIOUS
<1>0. TypeInv' /\ PlacesTyped /\ StoresTyped
  BY TypesStep DEF StartInv, TypeInv
<1>1. CASE UNCHANGED vars
  <2>1. deploy' = deploy
    BY <1>1 DEF vars
  <2> QED BY <1>0, <1>1, <2>1, SameDeployment
      DEF vars, StartInv, StartedSoFar, AllServe, Scripts, Kind, NodesOf
<1>2. CASE \E c \in Components : ThreadStep(c)
  BY <1>0, <1>2, ThreadServes DEF StartInv
<1>3. ASSUME phase' \notin {"start", "env"} \/ (phase' = "env" /\ op' # "start") \/ (phase' = "env" /\ ix' = 1)
      PROVE  StartInv'
  BY <1>0, <1>3 DEF StartInv, StartedSoFar, AllServe
<1>4. CASE Provision \/ Install \/ Clean \/ Start \/ Stop \/ Deprovision \/ Nuke
  <2>1. CASE Provision
    BY <1>0, <1>3, <2>1 DEF Provision, PlacesTyped, PhasesOf
  <2>2. CASE Install \/ Clean
    BY <1>3, <2>2 DEF Install, Clean, StartThreads
  <2>3. CASE Start \/ Stop \/ Deprovision \/ Nuke
    BY <1>3, <2>3 DEF Start, Stop, Deprovision, Nuke, Begin
  <2> QED BY <1>4, <2>1, <2>2, <2>3
<1>5. CASE ThreadsRaised \/ SaveReady \/ StartStopReturns \/ RemoveFile \/ Interrupt
  BY <1>3, <1>5 DEF ThreadsRaised, SaveReady, StartStopReturns, RemoveFile, Interrupt, End
<1>6. CASE ConfigureNextEnv \/ InstallComponents \/ PostInstall
  BY <1>3, <1>6 DEF ConfigureNextEnv, InstallComponents, PostInstall, StartThreads
<1>7. CASE CleanEnvDone
  BY <1>3, <1>7 DEF CleanEnvDone, StartThreads, End
<1>8. CASE StartEnv
  <2>1. CASE End("raised")
    BY <1>3, <2>1 DEF End
  <2>2. CASE StartThreads(Services, "start")
    <3>1. phase' = "start" /\ raised' = {} /\ Services' = Services
          /\ \A c : Scripts(c, "start")' = Scripts(c, "start")
      BY <1>8, <2>2, SameDeployment DEF StartEnv, StartThreads, Scripts, Kind
    <3>2. \A c \in Services : at'[c] = 1
      <4>1. ASSUME NEW c \in Services PROVE at'[c] = 1
        <5>1. c \in Components /\ Scripts(c, "start") # <<>>
          BY <1>0, StartScripts DEF PlacesTyped, Services, Members
        <5> QED BY <2>2, <5>1 DEF StartThreads
      <4> QED BY <4>1
    <3>3. ASSUME NEW c \in Services, NEW j \in 1..Len(Scripts(c, "start")) PROVE ~(j < 1)
      BY <3>3
    <3>4. StartedSoFar'
      <4> SUFFICES ASSUME NEW c \in Services' \ raised', NEW j \in 1..Len(Scripts(c, "start")')
                   PROVE  ~(at'[c] = 0 \/ j < at'[c])
        BY DEF StartedSoFar
      <4> QED BY <3>1, <3>2, <3>3
    <3>5. AllServe'
      BY <3>1 DEF AllServe
    <3> QED BY <1>0, <3>4, <3>5 DEF StartInv
  <2> QED BY <1>8, <2>1, <2>2 DEF StartEnv
<1>9. CASE NextStartEnv
  <2>1. UNCHANGED <<deploy, up, facts>> /\ phase' = "env" /\ phase = "start" /\ raised = {}
        /\ \A c \in Components : at[c] = 0
    BY <1>9 DEF NextStartEnv, ThreadsReturned, ThreadsOver
  <2>2. ASSUME NEW c \in Services PROVE c \in up /\ \A n \in NodesOf(c) : "running" \in facts[c][n]
    <3>1. \A j \in 1..Len(Scripts(c, "start")) : StartsServer(Scripts(c, "start")[j])
             => c \in up /\ \A n \in NodesOf(c) \cap Scripts(c, "start")[j].on : "running" \in facts[c][n]
      BY <2>1 DEF StartInv, StartedSoFar, Services, Members
    <3>2. \A n \in NodesOf(c) : \E j \in 1..Len(Scripts(c, "start")) :
             n \in Scripts(c, "start")[j].on /\ StartsServer(Scripts(c, "start")[j])
      BY <1>0, StartScripts DEF PlacesTyped
    <3>3. 1 \in NodesOf(c)
      BY DEF NodesOf
    <3> QED BY <3>1, <3>2, <3>3
  <2>3. Services' = Services /\ \A c : NodesOf(c)' = NodesOf(c)
    BY <2>1, SameDeployment DEF NodesOf, Kind
  <2>4. StartedSoFar' /\ AllServe'
    BY <2>1, <2>2, <2>3 DEF StartedSoFar, AllServe
  <2> QED BY <1>0, <2>4 DEF StartInv
<1>10. CASE StopEnv \/ StopInstances \/ DeprovisionEnv \/ NukeEnv
  <2>1. op \in {"stop", "deprovision", "nuke"} /\ (op = "nuke" => phase = "env")
    BY <1>0, <1>10 DEF StopEnv, StopInstances, DeprovisionEnv, NukeEnv, ThreadsReturned, PlacesTyped,
       PhasesOf, Ops
  <2>2. phase' \in {"none", "stop"} \/ (phase' = "env" /\ op' = op)
    BY <1>10, <2>1 DEF StopEnv, StopInstances, DeprovisionEnv, NukeEnv, End, StartThreads
  <2> QED BY <1>3, <2>1, <2>2
<1>11. ASSUME NEW c \in Components, BackgroundEnds(c) PROVE StartInv'
  <2>1. UNCHANGED <<deploy, op, phase, ix, at, raised, up>>
    BY <1>11 DEF BackgroundEnds, threadVars
  <2>2. ASSUME NEW d \in Services, NEW n \in NodesOf(d), "running" \in facts[d][n]
        PROVE  "running" \in facts'[d][n]
    BY <1>0, <1>11, <2>2, BackgroundSpares
  <2>3. Services' = Services
        /\ \A d : Scripts(d, "start")' = Scripts(d, "start") /\ NodesOf(d)' = NodesOf(d)
    BY <2>1, SameDeployment DEF Scripts, Kind, NodesOf
  <2>4. StartedSoFar'
    BY <2>1, <2>2, <2>3 DEF StartInv, StartedSoFar
  <2>5. AllServe'
    BY <2>1, <2>2, <2>3 DEF StartInv, AllServe
  <2> QED BY <1>0, <2>4, <2>5 DEF StartInv
<1> QED BY <1>1, <1>2, <1>4, <1>5, <1>6, <1>7, <1>8, <1>9, <1>10, <1>11 DEF Next, Progress, ThreadStep

\* Only one step lets start return.
LEMMA StartReturns ==
    ASSUME StartInv, [Next]_vars, op = "start", op' = "none", outcome' = "returned"
    PROVE  \A c \in Services : c \in up /\ \A n \in NodesOf(c) : "running" \in facts[c][n]
<1>1. StartStopReturns
  <2>1. PlacesTyped
    BY DEF StartInv, TypeInv
  <2>2. phase \in {"env", "start"}
    BY <2>1 DEF PlacesTyped, PhasesOf
  <2>3. ~UNCHANGED vars
    BY DEF vars
  <2>4. ~\E c \in Components : ThreadStep(c)
    BY DEF ThreadStep, ScriptSucceeds, ScriptFails, SearchFails, NoAnswer, RegisterMetricTarget,
           DeregisterMetricTarget, ScriptFault, MetricsFault
  <2>5. ~(Provision \/ Install \/ Clean \/ Start \/ Stop \/ Deprovision \/ Nuke)
        /\ ~\E c \in Components : BackgroundEnds(c)
    BY DEF Provision, Install, Clean, Start, Stop, Deprovision, Nuke, Begin, BackgroundEnds
  <2>6. ~(ThreadsRaised \/ SaveReady \/ RemoveFile \/ Interrupt)
    BY <2>2 DEF ThreadsRaised, SaveReady, RemoveFile, Interrupt, End, ThreadsReturned
  <2>7. ~(ConfigureNextEnv \/ InstallComponents \/ PostInstall \/ CleanEnvDone)
    BY <2>2 DEF ConfigureNextEnv, InstallComponents, PostInstall, CleanEnvDone, ThreadsReturned
  <2>8. ~(StartEnv \/ NextStartEnv \/ StopEnv \/ StopInstances \/ DeprovisionEnv \/ NukeEnv)
    BY <2>2 DEF StartEnv, NextStartEnv, StopEnv, StopInstances, DeprovisionEnv, NukeEnv,
       ThreadsReturned, End
  <2> QED BY <2>3, <2>4, <2>5, <2>6, <2>7, <2>8 DEF Next, Progress, ThreadStep
<1>2. phase = "env" /\ ix > NumEnvs /\ NumEnvs \in Nat /\ NumEnvs >= 1 /\ ix \in 1..(NumEnvs + 1)
  BY <1>1, EnvsFacts DEF StartStopReturns, StartInv, TypeInv, PlacesTyped
<1> QED BY <1>2 DEF StartInv, AllServe

\* When start returns, every machine runs and every database server on it serves,
\* although each thread repeats its scripts after a failure and the state was
\* saved before any service was started.
THEOREM ServicesRun == Spec => StartServes
<1>1. Init => StartInv
  <2>1. Init => phase = "none"
    BY DEF Init
  <2> QED BY <2>1, TypesInit DEF StartInv, StartedSoFar, AllServe
<1>2. StartInv /\ [Next]_vars => [op = "start" /\ op' = "none" /\ outcome' = "returned" =>
           \A c \in Services : c \in up /\ \A n \in NodesOf(c) : "running" \in facts[c][n]]_vars
  BY StartReturns
<1> QED BY <1>1, <1>2, StartStep, PTL DEF Spec, StartServes

(***************************************************************************)
(* Targets at the metrics servers                                          *)
(***************************************************************************)
Quiet == \A c \in Components : at[c] = 0

\* What has been cleaned, or is known not to have been
Cleaned(e) == e \in missed \/ targets[e] = {}

\* Deprovision goes to the servers in the order of the environments and nuke to
\* one of them, and no thread that could register a target runs beside them or
\* after them
CleanedInOrder ==
    /\ op = "deprovision" => phase = "env" /\ \A e \in Envs : e < ix => Cleaned(e)
    /\ op = "nuke" => phase = "env" /\ (ix > NumEnvs => \A e \in Envs : Cleaned(e))

GoneIsClean == state = "absent" => op \in {"none", "nuke"} /\ \A e \in Envs : Cleaned(e)

TargetInv ==
    /\ deploy \in Deployments
    /\ ix \in Int
    /\ DOMAIN targets = Envs
    /\ op \in {"none", "deprovision", "nuke"} => Quiet
    /\ op = "none" => phase = "none"
    /\ CleanedInOrder
    /\ GoneIsClean

\* A thread that has a script to run belongs to neither deprovision nor nuke.
LEMMA ThreadsAreBusy ==
    ASSUME TargetInv, NEW c \in Components, at[c] # 0
    PROVE  op \notin {"none", "deprovision", "nuke"} /\ state # "absent"
  BY DEF TargetInv, Quiet, GoneIsClean

\* No target exists before the first provision.
LEMMA TargetInit == Init => TargetInv
  <1> SUFFICES ASSUME Init PROVE TargetInv
    OBVIOUS
  <1>1. NumEnvs \in Nat
    BY EnvsFacts DEF Init
  <1> QED
    BY <1>1 DEF Init, TargetInv, Quiet, CleanedInOrder, GoneIsClean, Cleaned, Envs

\* A step of a thread changes targets only at a known server, and only while
\* its command runs.
LEMMA ThreadStepKeeps ==
    ASSUME TargetInv, NEW c \in Components, ThreadStep(c)
    PROVE  TargetInv'
  <1>1. at[c] # 0
    BY DEF ThreadStep, ScriptSucceeds, ScriptFails, SearchFails, NoAnswer, RegisterMetricTarget,
           DeregisterMetricTarget, ScriptFault, MetricsFault, IsScript
  <1>2. op \notin {"none", "deprovision", "nuke"} /\ state # "absent"
    BY <1>1, ThreadsAreBusy
  <1>3. UNCHANGED <<deploy, op, phase, ix, state>>
    BY DEF ThreadStep, ScriptSucceeds, ScriptFails, SearchFails, NoAnswer, RegisterMetricTarget,
           DeregisterMetricTarget, ScriptFault, MetricsFault
  <1>4. DOMAIN targets' = DOMAIN targets
    BY DEF ThreadStep, ScriptSucceeds, ScriptFails, SearchFails, NoAnswer, RegisterMetricTarget,
           DeregisterMetricTarget, ScriptFault, MetricsFault, AddTarget
  <1> QED
    BY <1>2, <1>3, <1>4 DEF TargetInv, CleanedInOrder, GoneIsClean, Envs, NumEnvs

\* Every command keeps the invariant, whatever the order they are given in.
LEMMA TargetStep == TargetInv /\ [Next]_vars => TargetInv'
  <1> SUFFICES ASSUME TargetInv, [Next]_vars PROVE TargetInv'
    OBVIOUS
  <1> USE DEF TargetInv, Quiet, CleanedInOrder, GoneIsClean, Cleaned, Envs, NumEnvs
  <1>0. NumEnvs \in Nat
    BY EnvsFacts
  <1>1. CASE Provision
    BY <1>1 DEF Provision, threadVars
  <1>2. CASE Install \/ Clean
    BY <1>2 DEF Install, Clean, Begin, StartThreads
  <1>3. CASE Start \/ Stop
    BY <1>3 DEF Start, Stop, Begin, threadVars
  <1>4. CASE Deprovision \/ Nuke
    BY <1>0, <1>4 DEF Deprovision, Nuke, Begin, threadVars
  <1>5. CASE Interrupt \/ ThreadsRaised \/ StartStopReturns
    <2>1. op' = "none" /\ phase' = "none" /\ Quiet' /\ UNCHANGED <<deploy, state, targets, missed>>
          /\ ix' = 1
      BY <1>5 DEF Interrupt, ThreadsRaised, StartStopReturns, End, NoThreads
    <2> QED BY <2>1
  <1>6. CASE ConfigureNextEnv \/ InstallComponents \/ PostInstall
    BY <1>6 DEF ConfigureNextEnv, InstallComponents, PostInstall, ThreadsReturned, StartThreads
  <1>7. CASE SaveReady
    BY <1>7 DEF SaveReady, End, NoThreads
  <1>8. CASE CleanEnvDone
    BY <1>8 DEF CleanEnvDone, ThreadsReturned, StartThreads, End, NoThreads
  <1>9. CASE StartEnv \/ StopEnv
    BY <1>9 DEF StartEnv, StopEnv, StartThreads, End, NoThreads, threadVars
  <1>10. CASE NextStartEnv \/ StopInstances
    BY <1>10 DEF NextStartEnv, StopInstances, ThreadsReturned, NoThreads
  <1>11. CASE DeprovisionEnv
    <2>1. /\ DOMAIN targets' = DOMAIN targets /\ ix \in Int
          /\ \A e \in Envs : e = ix \/ Cleaned(e) => Cleaned(e)'
      BY <1>11 DEF DeprovisionEnv, DeregisterCluster
    <2> QED BY <1>0, <1>11, <2>1 DEF DeprovisionEnv, threadVars
  <1>15. CASE NukeEnv
    <2>1. DOMAIN targets' = DOMAIN targets /\ \A e \in Envs : Cleaned(e)'
      BY <1>0, <1>15 DEF NukeEnv, DeregisterCluster
    <2> QED BY <1>0, <1>15, <2>1 DEF NukeEnv, threadVars
  <1>16. CASE \E c \in Components : BackgroundEnds(c)
    BY <1>16 DEF BackgroundEnds, threadVars
  <1>12. CASE RemoveFile
    BY <1>0, <1>12 DEF RemoveFile, End, NoThreads
  <1>13. CASE UNCHANGED vars
    BY <1>13 DEF vars
  <1>14. CASE \E c \in Components : ThreadStep(c)
    BY <1>14, ThreadStepKeeps
  <1> QED
    BY <1>1, <1>2, <1>3, <1>4, <1>5, <1>6, <1>7, <1>8, <1>9, <1>10, <1>11, <1>12, <1>13, <1>14, <1>15, <1>16
       DEF Next, Progress, ThreadStep

\* Once deprovision or nuke has removed the cluster file, a metrics server that
\* still scrapes machines of the cluster is one whose rm was passed over, or one
\* of another region than nuke's: exporters are registered at the server of
\* whichever environment the singleton stood for, and none of them is forgotten.
THEOREM TargetsAreRemoved == Spec => []TargetsRemoved
  <1>1. TargetInv => TargetsRemoved
    BY DEF TargetInv, GoneIsClean, Cleaned, TargetsRemoved
  <1> QED
    BY <1>1, TargetInit, TargetStep, PTL DEF Spec
=============================================================================
