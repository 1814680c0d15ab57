---------------------------- MODULE BenchbaseRunner ----------------------------
(***************************************************************************)
(* benchbase on all drivers (benchmark/benchbase/benchbase_runner.py): what*)
(* was left running is killed once before a run; no load is repeated. The  *)
(* figures are read from files received from the drivers. (chbenchmark and *)
(* the tables of single queries follow the same path and are left out.)    *)
(***************************************************************************)
EXTENDS BenchmarkRunner

VARIABLES
    built,     \* drivers that have benchbase-{product}
    config     \* drivers that have a config file of the workload

benchVars == <<built, config>>

BenchTypeOK == built \subseteq Hosts /\ config \subseteq Hosts
BenchInit == built = {} /\ config = {}

\* save_config_data: a copy that fails is not noticed
SaveConfigData == \E got \in SUBSET drivers : config' = config \cup got

(***************************************************************************)
(* run: cleanup is run_on_all_nodes, repeated on all while one of them     *)
(* fails, and is outside of the try                                        *)
(***************************************************************************)
\* mutant of CleanupOnHost: the pattern does not match the process
CleanupOnHostMisses(h) ==
    /\ step = "bb_cleanup"
    /\ task[h] = "connecting"
    /\ task' = [task EXCEPT ![h] = "ok"]
    /\ UNCHANGED <<runnerVars, benchVars, copies>>

\* kill -9 $(pgrep -f "jar benchbase.jar") || true
CleanupOnHost(h) ==
    /\ step = "bb_cleanup"
    /\ task[h] = "connecting"
    /\ \/ /\ task' = [task EXCEPT ![h] = "ok"]
          /\ copies' = [copies EXCEPT ![h] = 0]
       \/ HostUnreachable(h)
    /\ UNCHANGED <<runnerVars, benchVars>>

CleanupDone ==
    /\ step = "bb_cleanup"
    /\ Gathered
    /\ \/ ~AnyException /\ step' = "bb_config" /\ UNCHANGED <<attempt, task>>
       \/ /\ AnyException /\ attempt < Attempts
          /\ attempt' = attempt + 1
          /\ GatherOn(drivers)
          /\ UNCHANGED step
       \/ AnyException /\ step' = "raised" /\ UNCHANGED <<attempt, task>>
    /\ UNCHANGED <<repeat, ti, results, summary, saved, fileVars, runVars, benchVars, copies>>

WriteConfig ==
    /\ step = "bb_config"
    /\ SaveConfigData
    /\ step' = "bb_repeat"
    /\ UNCHANGED <<loopVars, results, summary, saved, fileVars, runVars, built, psshVars>>

BenchbaseRepeat ==
    /\ step = "bb_repeat"
    /\ step' = "bb_thread"
    /\ ti' = 1
    /\ results' = NoResults
    /\ UNCHANGED <<repeat, attempt, summary, saved, fileVars, runVars, benchVars, psshVars>>

BenchbaseHookFails ==
    /\ \/ step = "bb_repeat"
       \/ step = "bb_thread" /\ ti <= Len(Threads)
    /\ Escapes
    /\ UNCHANGED <<loopVars, results, summary, fileVars, runVars, benchVars, psshVars>>

\* mutant of BenchbaseThread: it does not sleep between the loads
BenchbaseThreadAtOnce ==
    /\ step = "bb_thread"
    /\ ti <= Len(Threads)
    /\ step' = "bb_run"
    /\ GatherOn(drivers)
    /\ UNCHANGED <<loopVars, results, summary, saved, run, later, data, deployment, fileVars,
                   benchVars, copies>>

\* It sleeps for a minute before the load, whatever the hooks do
BenchbaseThread ==
    /\ step = "bb_thread"
    /\ ti <= Len(Threads)
    /\ step' = "bb_run"
    /\ later' = TRUE
    /\ GatherOn(drivers)
    /\ UNCHANGED <<loopVars, results, summary, saved, run, data, deployment, fileVars,
                   benchVars, copies>>

\* set -e: without a config file or benchbase-{product} the script fails
BenchbaseOnHost(h) ==
    /\ step = "bb_run"
    /\ IF h \in config \cap built THEN HostStep(h) ELSE HostUnreachable(h)
    /\ UNCHANGED <<runnerVars, benchVars>>

BenchbaseRunDone ==
    /\ step = "bb_run"
    /\ Gathered
    /\ IF AnyException THEN Escapes ELSE step' = "bb_receive" /\ UNCHANGED saved
    /\ UNCHANGED <<loopVars, results, summary, fileVars, runVars, benchVars, psshVars>>

\* A directory arrives, or a part of it, or nothing: the last makes open for
\* the driver's stdout fail
BenchbaseReceive ==
    /\ step = "bb_receive"
    /\ \E whole, part \in SUBSET drivers :
        /\ files' = files \cup {FiguresOf(h) : h \in whole}
        /\ IF drivers \subseteq whole \cup part \cup {f.host : f \in Matching(files)}
           THEN step' = "bb_check" /\ Collect(files') /\ UNCHANGED saved
           ELSE Escapes /\ UNCHANGED <<results, lost, foreign>>
    /\ UNCHANGED <<loopVars, summary, runVars, benchVars, psshVars>>

\* mutant of BenchbaseCheck: run swallows the BenchmarkException it caught
BenchbaseCheckIgnored ==
    /\ step = "bb_check"
    /\ \/ /\ step' = "bb_thread"
          /\ ti' = ti + 1
          /\ UNCHANGED <<summary, saved>>
       \/ /\ step' = "returned"
          /\ summary' = summary \cup RepeatRows
          /\ saved' = saved \cup {repeat, SummaryFile}
          /\ UNCHANGED ti
    /\ UNCHANGED <<repeat, attempt, results, fileVars, runVars, benchVars, psshVars>>

\* check_errors: below the threshold; above it, and run saves the repeat as far
\* as it came; or no transaction was completed and the division by it fails.
\* (check_stdout_errors finds no error in any output.)
BenchbaseCheck ==
    /\ step = "bb_check"
    /\ \/ /\ data # "none"
          /\ step' = "bb_thread"
          /\ ti' = ti + 1
          /\ UNCHANGED <<summary, saved>>
       \/ /\ step' = "raised"
          /\ summary' = summary \cup RepeatRows
          /\ saved' = saved \cup {repeat, SummaryFile}
          /\ UNCHANGED ti
       \/ Escapes /\ UNCHANGED <<summary, ti>>
    /\ UNCHANGED <<repeat, attempt, results, fileVars, runVars, benchVars, psshVars>>

BenchbaseSave ==
    /\ step = "bb_thread"
    /\ RepeatDone("bb_repeat")
    /\ UNCHANGED <<ti, attempt, results, fileVars, runVars, benchVars, psshVars>>

\* post_workload_run and get_logs, after the summary was saved
PostHookFails ==
    /\ step = "returned" /\ benchmark = "benchbase"
    /\ step' = "raised"
    /\ UNCHANGED <<loopVars, results, summary, saved, fileVars, runVars, benchVars, psshVars>>

BenchbaseStep ==
    \/ \E h \in drivers : CleanupOnHost(h) \/ BenchbaseOnHost(h)
    \/ CleanupDone \/ WriteConfig \/ BenchbaseRepeat \/ BenchbaseHookFails \/ BenchbaseThread
    \/ BenchbaseRunDone \/ BenchbaseReceive \/ BenchbaseCheck \/ BenchbaseSave
    \/ PostHookFails
=============================================================================
