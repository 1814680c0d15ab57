---------------------------- MODULE HammerdbRunner ----------------------------
(***************************************************************************)
(* HammerDB on all drivers (benchmark/hammerdb/hammerdb_runner.py): nothing*)
(* is killed, repeated or caught. On a driver every HammerDB writes its    *)
(* profile to /tmp/hdbxtprofile.log, which the script of a load moves to a *)
(* directory of its run, whoever wrote it. In artifact_dir a profile has   *)
(* the same name in every run, so that one received replaces an older one. *)
(***************************************************************************)
EXTENDS BenchmarkRunner

VARIABLES
    profiles  \* earlier runs whose HammerDB is still at work on a driver

ProfilesTypeOK == profiles \in [Hosts -> SUBSET (1..MaxRuns)]
ProfilesInit == profiles = [h \in Hosts |-> {}]

HdbRepeat ==
    /\ step = "hdb_repeat"
    /\ step' = "hdb_thread"
    /\ ti' = 1
    /\ results' = NoResults
    /\ UNCHANGED <<repeat, attempt, summary, saved, fileVars, runVars, psshVars>>

HdbHookFails ==
    /\ \/ step = "hdb_repeat"
       \/ step = "hdb_thread" /\ ti <= Len(Threads)
    /\ step' = "raised"
    /\ UNCHANGED <<loopVars, results, summary, saved, fileVars, runVars, psshVars>>

HdbThread ==
    /\ step = "hdb_thread"
    /\ ti <= Len(Threads)
    /\ step' = "hdb_run"
    /\ later' = TRUE
    /\ GatherOn(drivers)
    /\ UNCHANGED <<loopVars, results, summary, saved, run, data, deployment, fileVars, copies>>

\* One that times out or loses its connection goes on, and writes its profile
HdbOnHost(h) ==
    /\ step = "hdb_run"
    /\ \/ (HostConnected(h) \/ HostUnreachable(h) \/ HostEnds(h)) /\ UNCHANGED profiles
       \/ HostAbandoned(h) /\ profiles' = [profiles EXCEPT ![h] = @ \cup {run}]
    /\ UNCHANGED runnerVars

HdbRunDone ==
    /\ step = "hdb_run"
    /\ Gathered
    /\ step' = IF AnyException THEN "raised" ELSE "hdb_receive"
    /\ UNCHANGED <<loopVars, results, summary, saved, fileVars, runVars, psshVars>>

\* What the script moved is the profile of this run or of one that is still at
\* work there: the last to write it, or to move it, wins
ProfileOf(h, r) == [FiguresOf(h) EXCEPT !.run = r]

\* Profiles that were not written or did not arrive are not missed, unless
\* there is none at all or one of them counts no calls
HdbReceive ==
    /\ step = "hdb_receive"
    /\ \E got \in SUBSET drivers : \E from \in [got -> 1..MaxRuns] :
        /\ \A h \in got : from[h] \in {run} \cup profiles[h]
        /\ files' = {f \in files : ~(f.repeat = repeat /\ f.ti = ti /\ f.host \in got)}
                    \cup {ProfileOf(h, from[h]) : h \in got}
        /\ \/ /\ Matching(files') # {} /\ data # "none"
              /\ step' = "hdb_thread"
              /\ ti' = ti + 1
              /\ Collect(files')
           \/ step' = "raised" /\ UNCHANGED <<ti, results, lost, foreign>>
    /\ UNCHANGED <<repeat, attempt, summary, saved, runVars, psshVars>>

\* The rows are those of summary_data, from which the summary is written; the csv
\* of a repeat has the last concurrency in each of its lines (:228)
HdbSave ==
    /\ step = "hdb_thread"
    /\ RepeatDone("hdb_repeat")
    /\ UNCHANGED <<ti, attempt, results, fileVars, runVars, psshVars>>

HammerdbStep ==
    \/ /\ HdbRepeat \/ HdbHookFails \/ HdbThread \/ HdbRunDone \/ HdbReceive \/ HdbSave
       /\ UNCHANGED profiles
    \/ \E h \in drivers : HdbOnHost(h)
=============================================================================
