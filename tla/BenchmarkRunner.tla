---------------------------- MODULE BenchmarkRunner ----------------------------
(***************************************************************************)
(* What the runners of sysbench, benchbase and hammerdb have in common: a  *)
(* loop over repeats and concurrencies, a command that all drivers run at  *)
(* once, and the figures added up for each concurrency.                    *)
(***************************************************************************)
EXTENDS PsshClient, Sequences

CONSTANTS
    HeadNode,     \* head_node: the first driver
    DriverSets,   \* the drivers a cluster may have
    Benchmarks,   \* the benchmarks a workload may be of
    Threads,      \* kwargs "threads", "terminals" or "num_vu": the concurrencies
    Repeats,      \* kwargs "repeats"
    Attempts,     \* attempts of the decorators of run_thread and run_on_all_nodes
    MaxRuns       \* bound: runs

VARIABLES
    benchmark,  \* the runner's class (rigid)
    drivers,    \* nodes: the hosts of the drivers (rigid)
    check,      \* how data_check of the runner checks this workload (rigid)
    step,       \* where the command is
    repeat,     \* r
    ti,         \* index of t (benchbase: i, hammerdb: v) in the list
    attempt,    \* attempt of a retried call
    results,    \* this_repeat_results: [per_driver_t -> number of records]
    summary,    \* all_results: the rows of the repeats so far
    saved,      \* what the run has written: repeats and SummaryFile
    run,        \* number of the present or the last run
    later,      \* the minute in the name of artifact_dir is over
    files,      \* figures of drivers received into artifact_dir
    lost,       \* a driver's figures of this run are missing
    foreign,    \* figures of another run were read
    data        \* what the tables of the database hold

loopVars == <<repeat, ti, attempt>>
fileVars == <<files, lost, foreign>>
deployment == <<benchmark, drivers, check>>
runVars == <<run, later, data, deployment>>
runnerVars == <<step, loopVars, results, summary, saved, fileVars, runVars>>

\* "Don't allocate 3 drivers for 8 threads!" (sysbench_runner.py:211)
ASSUME RunnerAssumption ==
    /\ IsFiniteSet(Hosts) /\ HeadNode \in Hosts
    /\ \A d \in DriverSets : HeadNode \in d /\ d \subseteq Hosts
    /\ Benchmarks \subseteq {"sysbench", "benchbase", "hammerdb"}
    /\ Threads \in Seq(Nat) /\ Repeats \in Nat \ {0} /\ Attempts \in Nat \ {0}
    /\ MaxRuns \in Nat
    /\ \A d \in DriverSets, i \in 1..Len(Threads) : Threads[i] % Cardinality(d) = 0
    /\ \A i, j \in 1..Len(Threads) : Threads[i] = Threads[j] => i = j

SysbenchSteps == {"repeat", "thread", "kill", "run", "parse"}
BenchbaseSteps == {"bb_cleanup", "bb_config", "bb_repeat", "bb_thread", "bb_run",
                   "bb_receive", "bb_check"}
HammerdbSteps == {"hdb_repeat", "hdb_thread", "hdb_run", "hdb_receive"}
RunSteps == SysbenchSteps \cup BenchbaseSteps \cup HammerdbSteps \cup {"returned", "raised"}

NumDrivers == Cardinality(drivers)

\* per_driver_t = int(t / num_drivers)
PerDriver(t) == t \div NumDrivers
Concurrencies == {PerDriver(Threads[i]) : i \in 1..Len(Threads)}
NoResults == [c \in Concurrencies |-> 0]
Records(n) == [results EXCEPT ![PerDriver(Threads[ti])] = @ + n]

\* A row of a repeat: the concurrency it reports and how many records the
\* figures were added up from
Rows == [repeat : 1..Repeats, concurrency : Nat, records : Nat]

\* A driver's figures in artifact_dir: the run that measured them, and what is
\* in the name of their file
Figures == [run : 1..MaxRuns, repeat : 1..Repeats, ti : 1..Len(Threads), host : Hosts]

\* Stands for the summary file in saved
SummaryFile == 0

\* data_check: sysbench compares the rows of oltp* exactly and those of tpcc*
\* within 5 percent, benchbase those of tpcc within 5 percent; of other workloads
\* they only warn that it has not been implemented, and hammerdb has none
Checks == [sysbench |-> {"exact", "nearly", "none"},
           benchbase |-> {"nearly", "none"},
           hammerdb |-> {"none"}]
Accepted == [exact |-> {"whole"}, nearly |-> {"nearly", "whole"}, none |-> {"none", "part"}]
DataCheck(rows) == rows \in Accepted[check]

\* The rows in the tables, against those asked for ("nearly": within 5 percent).
\* Nothing tells apart what nobody checks: "part" stands for any of it
Tables == {"none", "part"} \cup (IF check = "none" THEN {} ELSE {"nearly", "whole"})

RunnerTypeOK ==
    /\ PsshTypeOK
    /\ benchmark \in Benchmarks /\ drivers \in DriverSets /\ check \in Checks[benchmark]
    /\ repeat \in 1..Repeats
    /\ ti \in 1..(Len(Threads) + 1)
    /\ attempt \in 1..Attempts
    /\ results \in [Concurrencies -> Nat]
    /\ summary \in SUBSET Rows
    /\ saved \subseteq 0..Repeats
    /\ run \in 0..MaxRuns
    /\ files \subseteq Figures
    /\ {later, lost, foreign} \subseteq BOOLEAN
    /\ data \in Tables

RunnerInit ==
    /\ PsshInit
    /\ benchmark \in Benchmarks /\ drivers \in DriverSets /\ check \in Checks[benchmark]
    /\ step = "off"
    /\ repeat = 1 /\ ti = 1 /\ attempt = 1
    /\ results = NoResults
    /\ summary = {} /\ saved = {}
    /\ run = 0 /\ later = TRUE
    /\ files = {} /\ lost = FALSE /\ foreign = FALSE
    /\ data = "none"

\* An exception that is no BenchmarkException leaves the flag success alone: the
\* finally clause of run saves the summary of the repeats there are
Escapes ==
    /\ step' = "raised"
    /\ saved' = IF summary = {} THEN saved ELSE saved \cup {SummaryFile}

\* save_print_one_repeat groups the records by concurrency and multiplies that
\* by the number of drivers
RepeatRows ==
    {[repeat |-> repeat, concurrency |-> NumDrivers * c, records |-> results[c]] :
        c \in {d \in Concurrencies : results[d] > 0}}

\* What a driver received of the load that was just measured
FiguresOf(h) == [run |-> run, repeat |-> repeat, ti |-> ti, host |-> h]
Matching(names) == {f \in names : f.repeat = repeat /\ f.ti = ti}

\* The glob over artifact_dir finds what is there under the names of this load
Collect(names) ==
    /\ results' = Records(Cardinality(Matching(names)))
    /\ foreign' = (foreign \/ \E f \in Matching(names) : f.run # run)
    /\ lost' = (lost \/ \E h \in drivers : FiguresOf(h) \notin names)

\* The end of a repeat: its rows are saved, and after the last one the summary
RepeatDone(again) ==
    /\ ti > Len(Threads)
    /\ summary' = summary \cup RepeatRows
    /\ saved' = saved \cup {repeat} \cup (IF repeat = Repeats THEN {SummaryFile} ELSE {})
    /\ IF repeat < Repeats
       THEN step' = again /\ repeat' = repeat + 1
       ELSE step' = "returned" /\ UNCHANGED repeat
=============================================================================
