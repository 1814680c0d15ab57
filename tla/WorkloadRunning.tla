--------------------------- MODULE WorkloadRunning ---------------------------
(***************************************************************************)
(* xb.py workload (xbench/workload_running.py): prepare, restore and run   *)
(* after run, each with a directory for its artifacts that is named after  *)
(* the minute it starts in.                                                *)
(***************************************************************************)
EXTENDS SysbenchRunner, BenchbaseRunner, HammerdbRunner

VARIABLES
    prepared,  \* the last prepare or restore returned
    stopped    \* runs that wrote their stop file

workVars == <<prepared, stopped>>
vars == <<workVars, benchVars, profiles, runnerVars, psshVars>>

TypeOK ==
    /\ RunnerTypeOK /\ BenchTypeOK /\ ProfilesTypeOK
    /\ step \in RunSteps \cup {"off"}
    /\ prepared \in BOOLEAN
    /\ stopped \subseteq 1..MaxRuns

Init ==
    /\ RunnerInit /\ BenchInit /\ ProfilesInit
    /\ prepared = FALSE
    /\ stopped = {}

(***************************************************************************)
(* prepare and restore: one process, nobody looks at the database meanwhile*)
(***************************************************************************)
\* clean_database, then the runner's prepare on the head node, which is not
\* retried, and its data_check; benchbase is built before it loads
Prepare ==
    /\ step = "off"
    /\ data' \in Tables
    /\ prepared' \in BOOLEAN
    /\ prepared' => DataCheck(data') /\ data' # "none"
    /\ IF benchmark = "benchbase"
       THEN /\ SaveConfigData
            /\ built' \in {built, built \cup {HeadNode}}
            /\ prepared' => HeadNode \in built'
       ELSE UNCHANGED benchVars
    /\ UNCHANGED <<step, loopVars, results, summary, saved, run, later, deployment, fileVars,
                   stopped, profiles, psshVars>>

\* The backend's restore, the check, and setup (of benchbase) on the head node
Restore ==
    /\ step = "off"
    /\ data' \in {data} \cup (Tables \ {"none"})
    /\ prepared' \in BOOLEAN
    /\ prepared' => DataCheck(data') /\ data' # "none"
    /\ built' \in {built, IF benchmark = "benchbase" THEN built \cup {HeadNode} ELSE built}
    /\ prepared' /\ benchmark = "benchbase" => HeadNode \in built'
    /\ UNCHANGED <<step, loopVars, results, summary, saved, run, later, deployment, fileVars,
                   config, stopped, profiles, psshVars>>

(***************************************************************************)
(* run                                                                     *)
(***************************************************************************)
\* Where the runner's run begins
FirstStep == [sysbench |-> "repeat", benchbase |-> "bb_cleanup", hammerdb |-> "hdb_repeat"]

\* mkdir does not mind a directory that exists; the start time, the tag and the
\* workload are saved
Run ==
    /\ step = "off"
    /\ run < MaxRuns
    /\ run' = run + 1
    /\ later' = FALSE
    /\ files' = IF later THEN {} ELSE files
    /\ step' = FirstStep[benchmark]
    /\ repeat' = 1 /\ ti' = 1 /\ attempt' = 1
    /\ results' = NoResults
    /\ summary' = {} /\ saved' = {}
    /\ lost' = FALSE /\ foreign' = FALSE
    /\ IF benchmark = "benchbase" THEN GatherOn(drivers) ELSE GatherOn({})
    /\ UNCHANGED <<data, deployment, workVars, benchVars, profiles, copies>>

\* The stop time is saved when the runner returns
RunEnds ==
    /\ step \in {"returned", "raised"}
    /\ stopped' = IF step = "returned" THEN stopped \cup {run} ELSE stopped
    /\ step' = "off"
    /\ UNCHANGED <<loopVars, results, summary, saved, fileVars, runVars, prepared, benchVars,
                   profiles, psshVars>>

MinutePasses ==
    /\ ~later
    /\ later' = TRUE
    /\ UNCHANGED <<step, loopVars, results, summary, saved, run, data, deployment, fileVars,
                   workVars, benchVars, profiles, psshVars>>

\* What was left running on a driver comes to its end (and HammerDB's script
\* takes its profile out of the way)
Orphan(h) ==
    /\ step \notin {"kill", "bb_cleanup"}
    /\ OrphanEnds(h)
    /\ IF profiles[h] = {}
       THEN UNCHANGED profiles
       ELSE \E r \in profiles[h] : profiles' = [profiles EXCEPT ![h] = @ \ {r}]
    /\ UNCHANGED <<workVars, benchVars, runnerVars>>

Step ==
    \/ SysbenchStep /\ UNCHANGED <<benchVars, profiles, workVars>>
    \/ BenchbaseStep /\ UNCHANGED <<profiles, workVars>>
    \/ HammerdbStep /\ UNCHANGED <<benchVars, workVars>>
    \/ RunEnds

AllRunsDone == step = "off" /\ run = MaxRuns /\ UNCHANGED vars

Next ==
    \/ Prepare \/ Restore \/ Run \/ Step \/ MinutePasses \/ AllRunsDone
    \/ \E h \in Hosts : Orphan(h)

\* A run that was started goes on: each of its commands has a timeout. (Users
\* need not start another.)
Spec == Init /\ [][Next]_vars /\ WF_vars(Step)

(***************************************************************************)
(* Properties                                                              *)
(***************************************************************************)
\* "Every workload has to take care about killing drivers before starting a new
\* run" (workload_running.py:120): while sysbench or benchbase measures a load no
\* driver is at work on another one, left behind by an attempt or a run that
\* timed out or lost its connection. sysbench kills before every attempt,
\* benchbase only once but repeats nothing; HammerDB's cleanup is never called.
OneLoadPerDriver ==
    step \in {"run", "bb_run"} => \A h \in Hosts : copies[h] <= 1

\* Each row of a repeat adds up at most one record of each driver, and exactly
\* one unless figures were lost on their way from a driver (of sysbench none
\* are), for one of the requested concurrencies, however often an attempt was
\* parsed in part.
RowsAreWhole ==
    \A row \in summary :
        /\ row.records <= NumDrivers
        /\ ~lost => row.records = NumDrivers
        /\ \E i \in 1..Len(Threads) : row.concurrency = Threads[i]

\* A run of benchbase that shares its directory with an earlier one of the same
\* minute still reads no figures of it: by the time the first load is over the
\* minute is, too. sysbench reads no files. HammerDB does take figures of an
\* earlier run for its own: it kills nothing, although every workload has to
\* (:120), and its profile has the same name whoever wrote it.
RowsAreOwn == benchmark # "hammerdb" => ~foreign

\* A run has a stop file only if all its repeats and its summary were saved, the
\* summary has a row for every repeat and concurrency (unless figures were lost
\* on their way from a driver) and, when prepare or restore had returned, the
\* data it was measured on are whole if the workload is oltp* of sysbench, and
\* within 5 percent of it if it is a tpcc of sysbench or benchbase. Of other
\* workloads, and of HammerDB's, nobody checks the data: they may be partial.
StopMeansComplete ==
    run \in stopped =>
        /\ saved = 0..Repeats
        /\ ~lost => Cardinality(summary) = Repeats * Len(Threads)
        /\ prepared /\ check = "exact" => data = "whole"
        /\ prepared /\ check = "nearly" => data \in {"nearly", "whole"}

\* A run ends, whatever fails on the drivers.
RunIsOver == step # "off" ~> step = "off"
=============================================================================
