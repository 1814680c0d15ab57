---------------------------- MODULE SysbenchRunner ----------------------------
(***************************************************************************)
(* A run of sysbench on all drivers (benchmark/sysbench/sysbench_runner.py)*)
(* for every repeat and every number of threads, sysbench runs on all      *)
(* drivers at once and their figures are added up.                         *)
(***************************************************************************)
EXTENDS BenchmarkRunner

(***************************************************************************)
(* run: the loops. The hooks of the backend raise its own exceptions, which*)
(* run does not catch; its finally clause then saves the summary.          *)
(***************************************************************************)
BeginRepeat ==
    /\ step = "repeat"
    /\ step' = "thread"
    /\ ti' = 1
    /\ results' = NoResults
    /\ UNCHANGED <<repeat, attempt, summary, saved, fileVars, runVars, psshVars>>

HookFails ==
    /\ \/ step = "repeat"
       \/ step = "thread" /\ ti <= Len(Threads)
    /\ Escapes
    /\ UNCHANGED <<loopVars, results, summary, fileVars, runVars, psshVars>>

\* It sleeps for half a minute: after the second time the minute is over
BeginThread ==
    /\ step = "thread"
    /\ ti <= Len(Threads)
    /\ step' = "kill"
    /\ attempt' = 1
    /\ later' = (later \/ repeat > 1 \/ ti > 1)
    /\ GatherOn(drivers)
    /\ UNCHANGED <<repeat, ti, results, summary, saved, run, data, deployment, fileVars, copies>>

(***************************************************************************)
(* run_thread: kill what an earlier attempt or run left, run, parse        *)
(***************************************************************************)
\* pkill -9 sysbench || true
KillOnHost(h) ==
    /\ step = "kill"
    /\ task[h] = "connecting"
    /\ \/ /\ task' = [task EXCEPT ![h] = "ok"]
          /\ copies' = [copies EXCEPT ![h] = 0]
       \/ HostUnreachable(h)
    /\ UNCHANGED runnerVars

\* PsshClientException is not one that run_thread is repeated for: the decorator
\* raises a BenchmarkException at once, and run saves no summary
KillDone ==
    /\ step = "kill"
    /\ Gathered
    /\ IF AnyException
       THEN step' = "raised" /\ UNCHANGED task
       ELSE step' = "run" /\ GatherOn(drivers)
    /\ UNCHANGED <<loopVars, results, summary, saved, fileVars, runVars, copies>>

RunOnHost(h) ==
    /\ step = "run"
    /\ HostStep(h)
    /\ UNCHANGED runnerVars

RunDone ==
    /\ step = "run"
    /\ Gathered
    /\ step' = IF AnyException THEN "raised" ELSE "parse"
    /\ UNCHANGED <<loopVars, results, summary, saved, fileVars, runVars, psshVars>>

\* Every driver's output is parsed and the thread is done
ParseSucceeds ==
    /\ step = "parse"
    /\ data # "none"
    /\ step' = "thread"
    /\ results' = Records(NumDrivers)
    /\ ti' = ti + 1
    /\ UNCHANGED <<repeat, attempt, summary, saved, fileVars, runVars, psshVars>>

\* mutant of ParseFails: records of the drivers parsed so far are kept
ParseFailsKeeping ==
    /\ step = "parse"
    /\ \E k \in 0..(NumDrivers - 1) : results' = Records(k)
    /\ \/ attempt = Attempts /\ step' = "raised" /\ UNCHANGED <<attempt, task>>
       \/ attempt < Attempts /\ step' = "kill" /\ attempt' = attempt + 1 /\ GatherOn(drivers)
    /\ UNCHANGED <<repeat, ti, summary, saved, fileVars, runVars, copies>>

\* mutant of ParseFails: the attempts are not counted
ParseFailsForever ==
    /\ step = "parse"
    /\ step' = "kill"
    /\ GatherOn(drivers)
    /\ UNCHANGED <<loopVars, results, summary, saved, fileVars, runVars, copies>>

\* mutant of ParseFails: one attempt too many
ParseFailsOffByOne ==
    /\ step = "parse"
    /\ \/ step' = "raised" /\ UNCHANGED <<attempt, task>>
       \/ attempt <= Attempts /\ step' = "kill" /\ attempt' = attempt + 1 /\ GatherOn(drivers)
    /\ UNCHANGED <<repeat, ti, results, summary, saved, fileVars, runVars, copies>>

\* FATAL, a crash or zero TPS in one of the outputs: once more from the kill,
\* unless it was the last attempt or max_delay is over
ParseFails ==
    /\ step = "parse"
    /\ \/ step' = "raised" /\ UNCHANGED <<attempt, task>>
       \/ attempt < Attempts /\ step' = "kill" /\ attempt' = attempt + 1 /\ GatherOn(drivers)
    /\ UNCHANGED <<repeat, ti, results, summary, saved, fileVars, runVars, copies>>

SaveRepeat ==
    /\ step = "thread"
    /\ RepeatDone("repeat")
    /\ UNCHANGED <<ti, attempt, results, fileVars, runVars, psshVars>>

SysbenchStep ==
    \/ BeginRepeat \/ HookFails \/ BeginThread
    \/ \E h \in drivers : KillOnHost(h) \/ RunOnHost(h)
    \/ KillDone \/ RunDone \/ ParseSucceeds \/ ParseFails \/ SaveRepeat
=============================================================================
