--------------------------- MODULE WorkloadProofs ---------------------------
(***************************************************************************)
(* The runs of a workload, for every number of drivers, of concurrencies,  *)
(* of repeats, of attempts and of runs: no load disturbs another, and what *)
(* a run saves is complete and its own.                                    *)
(***************************************************************************)
EXTENDS WorkloadRunning, TLAPS, FiniteSetTheorems

(***************************************************************************)
(* Where a run is                                                          *)
(***************************************************************************)
LoopSteps == SysbenchSteps \cup BenchbaseSteps \cup HammerdbSteps

\* A load is under way or its figures are being collected
LoadSteps == {"kill", "run", "parse", "bb_run", "bb_receive", "bb_check", "hdb_run", "hdb_receive"}

\* Between the reset of the results and the end of a repeat
ThreadSteps == LoadSteps \cup {"thread", "bb_thread", "hdb_thread"}

\* The first index in Threads whose load is not measured yet
Unmeasured == IF step = "bb_check" THEN ti + 1 ELSE ti

\* The rows of the first n repeats when no figures are lost
Row(r, i) == [repeat |-> r, concurrency |-> Threads[i], records |-> NumDrivers]
FullRows(n) == {Row(ri[1], ri[2]) : ri \in (1..n) \X (1..Len(Threads))}

(***************************************************************************)
(* The inductive invariant                                                 *)
(***************************************************************************)
InRange ==
    /\ step # "off" => run >= 1
    /\ step \in LoadSteps => ti <= Len(Threads)
    /\ step \in HammerdbSteps => benchmark = "hammerdb"
    /\ step \in BenchbaseSteps => benchmark = "benchbase"

\* A process is at work where a task executes, and only drivers have any.
TasksOnDrivers ==
    /\ \A h \in Hosts : task[h] = "executing" => copies[h] >= 1
    /\ \A h \in Hosts \ drivers : copies[h] = 0 /\ task[h] = "none"

\* A driver that was reached by the kill has no process left.
KillLeavesNone ==
    step \in {"kill", "bb_cleanup"} =>
        \A h \in drivers : /\ task[h] \notin {"none", "executing"}
                           /\ task[h] = "ok" => copies[h] = 0

\* A load starts on clean drivers, and a driver that ended it is clean again.
LoadIsAlone ==
    /\ step \in {"run", "bb_run"} =>
           \A h \in drivers : /\ task[h] # "none"
                              /\ copies[h] <= 1
                              /\ task[h] \in {"connecting", "ok"} => copies[h] = 0
    /\ step \in {"bb_config", "bb_repeat", "bb_thread", "bb_receive", "bb_check"} =>
           \A h \in drivers : copies[h] = 0

\* Two figures in a directory are not under the same name, and except for
\* HammerDB's they are of the present run: those of an earlier one came so late
\* that its minute was over.
SameName(f, g) == f.repeat = g.repeat /\ f.ti = g.ti /\ f.host = g.host
OfDrivers(names) ==
    /\ \A f \in names : f.host \in drivers
    /\ \A f, g \in names : SameName(f, g) => f = g
FilesAreOwn ==
    /\ ~later => files = {}
    /\ OfDrivers(files)
    /\ benchmark # "hammerdb" => foreign = FALSE /\ \A f \in files : f.run = run
    /\ step \in {"bb_run", "bb_receive", "hdb_run", "hdb_receive"} => later = TRUE

\* The results of a repeat: one record of each driver for the concurrencies that
\* are measured, none for the others
ResultsSoFar ==
    step \in ThreadSteps =>
        \A i \in 1..Len(Threads) :
            /\ results[PerDriver(Threads[i])] <= NumDrivers
            /\ i >= Unmeasured => results[PerDriver(Threads[i])] = 0
            /\ i < Unmeasured /\ ~lost => results[PerDriver(Threads[i])] = NumDrivers

\* What was saved after the repeats so far, and when the runner returns
SavedRepeats ==
    /\ step \in LoopSteps => saved = 1..(repeat - 1)
    /\ step = "returned" => saved = 0..Repeats
SummarySoFar ==
    ~lost => /\ step \in LoopSteps => summary = FullRows(repeat - 1)
             /\ step = "returned" => summary = FullRows(Repeats)

\* A stop file stands for all of it.
StopIsLast ==
    run \in stopped => /\ saved = 0..Repeats
                       /\ ~lost => summary = FullRows(Repeats)

\* Only runs that are over have a stop file.
StoppedAreOver ==
    /\ stopped \subseteq 1..run
    /\ step # "off" => run \notin stopped

DataAreChecked == prepared => DataCheck(data)

WorkloadInv ==
    /\ TypeOK
    /\ InRange
    /\ TasksOnDrivers /\ KillLeavesNone /\ LoadIsAlone
    /\ FilesAreOwn
    /\ ResultsSoFar
    /\ RowsAreWhole
    /\ SavedRepeats /\ SummarySoFar /\ StoppedAreOver /\ StopIsLast
    /\ DataAreChecked

(***************************************************************************)
(* Facts about the drivers, the concurrencies and the rows                 *)
(***************************************************************************)
\* The drivers are a finite set that holds the head node.
LEMMA DriverFacts ==
    ASSUME drivers \in DriverSets
    PROVE  /\ IsFiniteSet(drivers) /\ drivers \subseteq Hosts
           /\ NumDrivers \in Nat /\ NumDrivers >= 1
<1>1. IsFiniteSet(Hosts) /\ drivers \subseteq Hosts /\ HeadNode \in drivers
  BY RunnerAssumption
<1>2. IsFiniteSet(drivers)
  BY <1>1, FS_Subset
<1>3. Cardinality(drivers) \in Nat
  BY <1>2, FS_CardinalityType
<1>4. Cardinality(drivers) # 0
  BY <1>1, <1>2, FS_EmptySet
<1> QED BY <1>1, <1>2, <1>3, <1>4 DEF NumDrivers

\* A multiple of n is n times its quotient.
LEMMA ExactQuotient ==
    ASSUME NEW n \in Nat, n >= 1, NEW t \in Nat, t % n = 0
    PROVE  t \div n \in Nat /\ n * (t \div n) = t
OBVIOUS

\* The concurrencies per driver are as many as the concurrencies asked for, and
\* times the number of drivers give them back.
LEMMA PerDriverFacts ==
    ASSUME drivers \in DriverSets
    PROVE  /\ \A i \in 1..Len(Threads) : /\ PerDriver(Threads[i]) \in Concurrencies
                                         /\ NumDrivers * PerDriver(Threads[i]) = Threads[i]
           /\ \A i, j \in 1..Len(Threads) :
                 PerDriver(Threads[i]) = PerDriver(Threads[j]) => i = j
           /\ \A c \in Concurrencies : c \in Nat /\ \E i \in 1..Len(Threads) : c = PerDriver(Threads[i])
<1>1. NumDrivers \in Nat /\ NumDrivers >= 1
  BY DriverFacts
<1>2. ASSUME NEW i \in 1..Len(Threads)
      PROVE  PerDriver(Threads[i]) \in Nat /\ NumDrivers * PerDriver(Threads[i]) = Threads[i]
  <2>1. Threads[i] \in Nat /\ Threads[i] % NumDrivers = 0
    BY RunnerAssumption DEF NumDrivers
  <2> QED BY <1>1, <2>1, ExactQuotient DEF PerDriver
<1>3. \A i, j \in 1..Len(Threads) : Threads[i] = Threads[j] => i = j
  BY RunnerAssumption
<1>4. \A i, j \in 1..Len(Threads) : PerDriver(Threads[i]) = PerDriver(Threads[j]) => i = j
  <2> SUFFICES ASSUME NEW i \in 1..Len(Threads), NEW j \in 1..Len(Threads),
                      PerDriver(Threads[i]) = PerDriver(Threads[j])
               PROVE  i = j
    OBVIOUS
  <2>1. Threads[i] = Threads[j]
    BY <1>2
  <2> QED BY <2>1, <1>3
<1>5. \A i \in 1..Len(Threads) : PerDriver(Threads[i]) \in Concurrencies
  BY DEF Concurrencies
<1>6. \A c \in Concurrencies : c \in Nat /\ \E i \in 1..Len(Threads) : c = PerDriver(Threads[i])
  BY <1>2 DEF Concurrencies
<1> QED BY <1>2, <1>4, <1>5, <1>6

\* The rows of a repeat: whole ones only, and when every load was measured and
\* nothing lost, one for each concurrency
LEMMA RepeatRowsFacts ==
    ASSUME drivers \in DriverSets, results \in [Concurrencies -> Nat],
           \A i \in 1..Len(Threads) :
              /\ results[PerDriver(Threads[i])] <= NumDrivers
              /\ ~lost => results[PerDriver(Threads[i])] \in {0, NumDrivers}
    PROVE  \A row \in RepeatRows :
              /\ row.repeat = repeat /\ row.records \in Nat
              /\ row.records <= NumDrivers
              /\ ~lost => row.records = NumDrivers
              /\ \E i \in 1..Len(Threads) : row.concurrency = Threads[i]
<1> SUFFICES ASSUME NEW row \in RepeatRows
             PROVE  /\ row.repeat = repeat /\ row.records \in Nat
                    /\ row.records <= NumDrivers
                    /\ ~lost => row.records = NumDrivers
                    /\ \E i \in 1..Len(Threads) : row.concurrency = Threads[i]
  OBVIOUS
<1>1. PICK c \in Concurrencies :
         /\ results[c] > 0
         /\ row = [repeat |-> repeat, concurrency |-> NumDrivers * c, records |-> results[c]]
  BY DEF RepeatRows
<1>2. PICK i \in 1..Len(Threads) : c = PerDriver(Threads[i])
  BY PerDriverFacts
<1>3. NumDrivers * c = Threads[i]
  BY <1>2, PerDriverFacts
<1>4. results[c] \in Nat /\ results[c] # 0
  BY <1>1
<1> QED BY <1>1, <1>2, <1>3, <1>4

\* All rows there are when every load is measured and nothing is lost
LEMMA RepeatRowsAll ==
    ASSUME drivers \in DriverSets, results \in [Concurrencies -> Nat],
           \A i \in 1..Len(Threads) : results[PerDriver(Threads[i])] = NumDrivers
    PROVE  RepeatRows = {Row(repeat, i) : i \in 1..Len(Threads)}
<1>1. ASSUME NEW row \in RepeatRows PROVE row \in {Row(repeat, i) : i \in 1..Len(Threads)}
  <2>1. PICK c \in Concurrencies :
           /\ results[c] > 0
           /\ row = [repeat |-> repeat, concurrency |-> NumDrivers * c, records |-> results[c]]
    BY <1>1 DEF RepeatRows
  <2>2. PICK i \in 1..Len(Threads) : c = PerDriver(Threads[i])
    BY PerDriverFacts
  <2>3. NumDrivers * c = Threads[i] /\ results[c] = NumDrivers
    BY <2>2, PerDriverFacts
  <2>4. row = Row(repeat, i)
    BY <2>1, <2>3 DEF Row
  <2> QED BY <2>4
<1>2. ASSUME NEW i \in 1..Len(Threads) PROVE Row(repeat, i) \in RepeatRows
  <2> DEFINE c == PerDriver(Threads[i])
  <2>1. c \in Concurrencies /\ NumDrivers * c = Threads[i] /\ results[c] = NumDrivers
    BY PerDriverFacts
  <2>2. results[c] > 0
    BY <2>1, DriverFacts
  <2>3. Row(repeat, i) = [repeat |-> repeat, concurrency |-> NumDrivers * c, records |-> results[c]]
    BY <2>1 DEF Row
  <2> HIDE DEF c
  <2> QED BY <2>1, <2>2, <2>3 DEF RepeatRows
<1>3. RepeatRows \subseteq {Row(repeat, i) : i \in 1..Len(Threads)}
  BY <1>1
<1>4. {Row(repeat, i) : i \in 1..Len(Threads)} \subseteq RepeatRows
  BY <1>2
<1> QED BY <1>3, <1>4, Zenon

\* The rows of n repeats are those of one less and of the last one.
LEMMA FullRowsNext ==
    ASSUME NEW n \in Nat, n >= 1
    PROVE  FullRows(n) = FullRows(n - 1) \cup {Row(n, i) : i \in 1..Len(Threads)}
<1>1. Len(Threads) \in Nat
  BY RunnerAssumption
<1>2. ASSUME NEW x \in FullRows(n)
      PROVE  x \in FullRows(n - 1) \cup {Row(n, i) : i \in 1..Len(Threads)}
  <2>1. PICK r \in 1..n, i \in 1..Len(Threads) : x = Row(r, i)
    BY DEF FullRows
  <2>2. CASE r = n
    BY <2>1, <2>2
  <2>3. CASE r # n
    <3>1. r \in 1..(n - 1)
      BY <2>3
    <3>2. <<r, i>> \in (1..(n - 1)) \X (1..Len(Threads)) /\ <<r, i>>[1] = r /\ <<r, i>>[2] = i
      BY <3>1
    <3> QED BY <2>1, <3>2 DEF FullRows
  <2> QED BY <2>2, <2>3
<1>3. ASSUME NEW x \in FullRows(n - 1) PROVE x \in FullRows(n)
  <2>1. PICK ri \in (1..(n - 1)) \X (1..Len(Threads)) : x = Row(ri[1], ri[2])
    BY <1>3 DEF FullRows
  <2>2. ri \in (1..n) \X (1..Len(Threads))
    BY <2>1
  <2> QED BY <2>1, <2>2 DEF FullRows
<1>4. ASSUME NEW i \in 1..Len(Threads) PROVE Row(n, i) \in FullRows(n)
  <2>1. <<n, i>> \in (1..n) \X (1..Len(Threads)) /\ <<n, i>>[1] = n /\ <<n, i>>[2] = i
    OBVIOUS
  <2> QED BY <2>1 DEF FullRows
<1> QED BY <1>2, <1>3, <1>4

\* No repeat, no row
LEMMA FullRowsNone == FullRows(0) = {}
<1>1. 1..0 = {}
  OBVIOUS
<1> QED BY <1>1 DEF FullRows

\* They are as many as repeats times concurrencies: no two of them are the same.
LEMMA FullRowsCount ==
    ASSUME NEW n \in Nat
    PROVE  Cardinality(FullRows(n)) = n * Len(Threads)
<1> DEFINE S == (1..n) \X (1..Len(Threads))
           f == [ri \in S |-> Row(ri[1], ri[2])]
<1>1. Len(Threads) \in Nat
  BY RunnerAssumption
<1>2. IsFiniteSet(1..n) /\ Cardinality(1..n) = n
  <2>1. 1 \in Int /\ n \in Int
    OBVIOUS
  <2>2. /\ IsFiniteSet(1..n)
        /\ Cardinality(1..n) = IF 1 > n THEN 0 ELSE n - 1 + 1
    BY <2>1, FS_Interval
  <2> QED BY <2>2
<1>3. IsFiniteSet(1..Len(Threads)) /\ Cardinality(1..Len(Threads)) = Len(Threads)
  <2>1. 1 \in Int /\ Len(Threads) \in Int
    BY <1>1
  <2>2. /\ IsFiniteSet(1..Len(Threads))
        /\ Cardinality(1..Len(Threads)) = IF 1 > Len(Threads) THEN 0 ELSE Len(Threads) - 1 + 1
    BY <2>1, FS_Interval
  <2> QED BY <1>1, <2>2
<1>4. IsFiniteSet(S) /\ Cardinality(S) = n * Len(Threads)
  <2> DEFINE A == 1..n
             B == 1..Len(Threads)
  <2>1. IsFiniteSet(A) /\ IsFiniteSet(B)
    BY <1>2, <1>3
  <2>2. Cardinality(A) = n /\ Cardinality(B) = Len(Threads)
    BY <1>2, <1>3
  <2> HIDE DEF A, B
  <2>3. IsFiniteSet(A \X B) /\ Cardinality(A \X B) = Cardinality(A) * Cardinality(B)
    BY <2>1, FS_Product, Zenon
  <2>4. IsFiniteSet(A \X B) /\ Cardinality(A \X B) = n * Len(Threads)
    BY <2>2, <2>3, Zenon
  <2> QED BY <2>4, Zenon DEF A, B
<1>5. f \in Bijection(S, FullRows(n))
  <2>1. f \in [S -> FullRows(n)]
    BY DEF FullRows
  <2>2. ASSUME NEW a \in S, NEW b \in S, f[a] = f[b] PROVE a = b
    <3>1. Row(a[1], a[2]) = Row(b[1], b[2])
      BY <2>2
    <3>2. a[1] = b[1] /\ Threads[a[2]] = Threads[b[2]]
      BY <3>1 DEF Row
    <3>3. a[2] \in 1..Len(Threads) /\ b[2] \in 1..Len(Threads)
      OBVIOUS
    <3>4. a[2] = b[2]
      BY <3>2, <3>3, RunnerAssumption
    <3> QED BY <3>2, <3>4
  <2>3. \A x \in FullRows(n) : \E a \in S : f[a] = x
    BY DEF FullRows
  <2> QED BY <2>1, <2>2, <2>3 DEF Bijection, Injection, Surjection, IsInjective
<1>6. ExistsBijection(S, FullRows(n))
  BY <1>5 DEF ExistsBijection
<1> QED BY <1>4, <1>6, FS_Bijection

\* The figures found under the names of a load are at most one of each driver
\* and, unless some are missing, one of each.
LEMMA MatchingCount ==
    ASSUME drivers \in DriverSets, NEW names \in SUBSET Figures, OfDrivers(names)
    PROVE  /\ Cardinality(Matching(names)) \in Nat
           /\ Cardinality(Matching(names)) <= NumDrivers
           /\ (\A h \in drivers : FiguresOf(h) \in names) => Cardinality(Matching(names)) = NumDrivers
<1> DEFINE fig == [h \in drivers |-> FiguresOf(h)]
           all == {FiguresOf(h) : h \in drivers}
<1>1. IsFiniteSet(drivers)
  BY DriverFacts
<1>2. fig \in Bijection(drivers, all)
  <2>1. fig \in [drivers -> all]
    OBVIOUS
  <2>2. ASSUME NEW g \in drivers, NEW h \in drivers, fig[g] = fig[h] PROVE g = h
    BY <2>2 DEF FiguresOf
  <2>3. \A x \in all : \E h \in drivers : fig[h] = x
    OBVIOUS
  <2> QED BY <2>1, <2>2, <2>3 DEF Bijection, Injection, Surjection, IsInjective
<1>3. IsFiniteSet(all) /\ Cardinality(all) = NumDrivers
  <2>1. ExistsBijection(drivers, all)
    BY <1>2 DEF ExistsBijection
  <2> QED BY <1>1, <2>1, FS_Bijection DEF NumDrivers
<1>4. \A f \in Matching(names) : f.repeat = repeat /\ f.ti = ti /\ f.host \in drivers /\ f \in names
  BY DEF Matching, OfDrivers
<1> DEFINE host == [f \in Matching(names) |-> f.host]
<1>5. IsFiniteSet(Matching(names)) /\ Cardinality(Matching(names)) <= NumDrivers
  <2>1. host \in Injection(Matching(names), drivers)
    <3>1. host \in [Matching(names) -> drivers]
      BY <1>4
    <3>2. ASSUME NEW f \in Matching(names), NEW g \in Matching(names), host[f] = host[g] PROVE f = g
      BY <1>4, <3>2 DEF OfDrivers, SameName
    <3> QED BY <3>1, <3>2 DEF Injection, IsInjective
  <2> HIDE DEF host
  <2> QED BY <1>1, <2>1, FS_Injection DEF NumDrivers
<1>6. Cardinality(Matching(names)) \in Nat
  BY <1>5, FS_CardinalityType
<1>7. ASSUME \A h \in drivers : FiguresOf(h) \in names PROVE Matching(names) = all
  <2>1. \A h \in drivers : FiguresOf(h) \in Matching(names) /\ FiguresOf(h).host = h
    BY <1>7 DEF Matching, FiguresOf
  <2>2. \A f \in Matching(names) : f = FiguresOf(f.host)
    BY <1>4, <2>1 DEF OfDrivers, SameName
  <2>3. Matching(names) \subseteq all /\ all \subseteq Matching(names)
    BY <1>4, <2>1, <2>2
  <2> QED BY <2>3, Zenon
<1> QED BY <1>3, <1>5, <1>6, <1>7

(***************************************************************************)
(* The steps, by what they have in common                                  *)
(***************************************************************************)
RepeatBegins == BeginRepeat \/ BenchbaseRepeat \/ HdbRepeat
HookRaises == HookFails \/ BenchbaseHookFails \/ HdbHookFails \/ PostHookFails
LoadBegins == BenchbaseThread \/ HdbThread
KillsOn(h) == KillOnHost(h) \/ CleanupOnHost(h)
LoadOn(h) == RunOnHost(h) \/ BenchbaseOnHost(h) \/ HdbOnHost(h)
LoadDone == RunDone \/ BenchbaseRunDone \/ HdbRunDone
RepeatSaved == SaveRepeat \/ BenchbaseSave \/ HdbSave
OnDriver == \E h \in drivers : KillsOn(h) \/ LoadOn(h)
RunnerStep ==
    \/ RepeatBegins \/ HookRaises \/ BeginThread \/ LoadBegins \/ KillDone \/ CleanupDone
    \/ WriteConfig \/ LoadDone \/ ParseSucceeds \/ ParseFails \/ BenchbaseReceive \/ HdbReceive
    \/ BenchbaseCheck \/ RepeatSaved \/ OnDriver

\* Every step is one of these.
LEMMA NextCases ==
    ASSUME [Next]_vars
    PROVE  \/ RunnerStep /\ UNCHANGED workVars
           \/ RunEnds \/ Prepare \/ Restore \/ Run \/ MinutePasses
           \/ \E h \in Hosts : Orphan(h)
           \/ UNCHANGED vars
<1>1. CASE SysbenchStep /\ UNCHANGED <<benchVars, workVars>>
  BY <1>1 DEF SysbenchStep, RunnerStep, RepeatBegins, HookRaises, KillsOn, LoadOn, LoadDone,
     RepeatSaved, OnDriver
<1>2. CASE BenchbaseStep /\ UNCHANGED workVars
  BY <1>2 DEF BenchbaseStep, RunnerStep, RepeatBegins, HookRaises, LoadBegins, KillsOn, LoadOn,
     LoadDone, RepeatSaved, OnDriver
<1>3. CASE HammerdbStep /\ UNCHANGED <<benchVars, workVars>>
  BY <1>3 DEF HammerdbStep, RunnerStep, RepeatBegins, HookRaises, LoadBegins, LoadOn, LoadDone,
     RepeatSaved, OnDriver
<1> QED BY <1>1, <1>2, <1>3 DEF Next, Step, AllRunsDone

\* The runners leave the run's number and the data alone, and no step changes
\* the deployment.
LEMMA RunnerFrame ==
    ASSUME RunnerStep
    PROVE  UNCHANGED <<run, data, benchmark, drivers, check>>
<1> USE DEF runVars, runnerVars, deployment
<1>1. CASE OnDriver
  BY <1>1 DEF OnDriver, KillsOn, LoadOn, KillOnHost, CleanupOnHost, RunOnHost, BenchbaseOnHost, HdbOnHost
<1>2. CASE RepeatBegins \/ HookRaises \/ BeginThread \/ LoadBegins
  BY <1>2 DEF RepeatBegins, HookRaises, LoadBegins, BeginRepeat, BenchbaseRepeat, HdbRepeat, HookFails,
     BenchbaseHookFails, HdbHookFails, PostHookFails, BeginThread, BenchbaseThread, HdbThread
<1>3. CASE KillDone \/ CleanupDone \/ WriteConfig \/ LoadDone \/ RepeatSaved
  BY <1>3 DEF KillDone, CleanupDone, WriteConfig, LoadDone, RepeatSaved, RunDone, BenchbaseRunDone,
     HdbRunDone, SaveRepeat, BenchbaseSave, HdbSave
<1>4. CASE ParseSucceeds \/ ParseFails \/ BenchbaseReceive \/ HdbReceive \/ BenchbaseCheck
  BY <1>4 DEF ParseSucceeds, ParseFails, BenchbaseReceive, HdbReceive, BenchbaseCheck
<1> QED BY <1>1, <1>2, <1>3, <1>4 DEF RunnerStep

\* The deployment is rigid.
LEMMA Rigid == ASSUME [Next]_vars PROVE UNCHANGED <<benchmark, drivers, check>>
<1> USE DEF runVars, runnerVars, deployment
<1>1. CASE RunnerStep
  BY <1>1, RunnerFrame
<1>2. CASE RunEnds \/ Prepare \/ Restore \/ Run \/ MinutePasses \/ UNCHANGED vars
  BY <1>2 DEF RunEnds, Prepare, Restore, Run, MinutePasses, vars
<1>3. CASE \E h \in Hosts : Orphan(h)
  BY <1>3 DEF Orphan
<1> QED BY <1>1, <1>2, <1>3, NextCases

\* A host gets on with its load: the runner's variables stay as they are.
LEMMA LoadOnEffect ==
    ASSUME NEW h, LoadOn(h)
    PROVE  HostStep(h) /\ UNCHANGED runnerVars /\ step \in {"run", "bb_run", "hdb_run"}
BY DEF LoadOn, RunOnHost, BenchbaseOnHost, HdbOnHost, HostStep

\* A host is reached by the kill, and has no process any more, or is not reached.
LEMMA KillsOnEffect ==
    ASSUME NEW h, KillsOn(h)
    PROVE  /\ UNCHANGED runnerVars /\ step \in {"kill", "bb_cleanup"} /\ task[h] = "connecting"
           /\ \/ task' = [task EXCEPT ![h] = "ok"] /\ copies' = [copies EXCEPT ![h] = 0]
              \/ /\ \E result \in {"failed", "timed_out"} : task' = [task EXCEPT ![h] = result]
                 /\ copies' = copies
BY DEF KillsOn, KillOnHost, CleanupOnHost, HostUnreachable

\* What a step of a host does to the processes there
LEMMA HostStepEffect ==
    ASSUME PsshTypeOK, NEW h \in Hosts, HostStep(h), task[h] = "executing" => copies[h] >= 1
    PROVE  /\ PsshTypeOK'
           /\ task[h] \in {"connecting", "executing"}
           /\ task'[h] \notin {"none", "connecting"}
           /\ task'[h] = "executing" => copies'[h] >= 1
           /\ \A g \in Hosts \ {h} : task'[g] = task[g] /\ copies'[g] = copies[g]
           /\ copies[h] <= 1 /\ (task[h] = "connecting" => copies[h] = 0) =>
                 /\ copies'[h] <= 1
                 /\ task'[h] = "ok" => copies'[h] = 0
<1> USE DEF PsshTypeOK, TaskStates
<1>1. CASE HostConnected(h)
  BY <1>1 DEF HostConnected
<1>2. CASE HostUnreachable(h)
  BY <1>2 DEF HostUnreachable
<1>3. CASE HostEnds(h)
  <2>1. copies[h] - 1 \in Nat
    BY <1>3 DEF HostEnds
  <2> QED BY <1>3, <2>1 DEF HostEnds
<1>4. CASE HostAbandoned(h)
  BY <1>4 DEF HostAbandoned
<1> QED BY <1>1, <1>2, <1>3, <1>4 DEF HostStep

\* A process nobody waits for is one less.
LEMMA OrphanEffect ==
    ASSUME PsshTypeOK, NEW h \in Hosts, Orphan(h), task[h] = "executing" => copies[h] >= 1
    PROVE  /\ PsshTypeOK'
           /\ task' = task /\ UNCHANGED <<workVars, benchVars, runnerVars>>
           /\ copies'[h] = copies[h] - 1
           /\ task[h] = "executing" => copies'[h] >= 1
           /\ copies[h] >= 1
           /\ \A g \in Hosts \ {h} : copies'[g] = copies[g]
<1>1. copies[h] \in Nat /\ copies[h] >= 1 /\ (task[h] = "executing" => copies[h] >= 2)
  BY DEF Orphan, OrphanEnds, PsshTypeOK
<1>2. copies' = [copies EXCEPT ![h] = @ - 1] /\ task' = task /\ UNCHANGED <<workVars, benchVars, runnerVars>>
  BY DEF Orphan, OrphanEnds
<1> QED BY <1>1, <1>2 DEF PsshTypeOK

\* A run begins with a repeat, or with the cleanup of benchbase.
LEMMA RunBegins ==
    ASSUME WorkloadInv, Run
    PROVE  /\ step' \in {"repeat", "bb_cleanup", "hdb_repeat"}
           /\ step' = "bb_cleanup" => benchmark = "benchbase"
           /\ step' = "hdb_repeat" => benchmark = "hammerdb"
BY RunnerAssumption DEF Run, FirstStep, TypeOK, RunnerTypeOK, WorkloadInv

\* A record for the present concurrency changes no other.
LEMMA RecordsEffect ==
    ASSUME drivers \in DriverSets, results \in [Concurrencies -> Nat], ti \in 1..Len(Threads),
           NEW k \in Nat, results' = Records(k)
    PROVE  /\ results' \in [Concurrencies -> Nat]
           /\ results'[PerDriver(Threads[ti])] = results[PerDriver(Threads[ti])] + k
           /\ \A i \in 1..Len(Threads) :
                 i # ti => results'[PerDriver(Threads[i])] = results[PerDriver(Threads[i])]
<1>1. \A i \in 1..Len(Threads) : PerDriver(Threads[i]) \in Concurrencies
  BY PerDriverFacts
<1>2. \A i \in 1..Len(Threads) : i # ti => PerDriver(Threads[i]) # PerDriver(Threads[ti])
  BY PerDriverFacts
<1>3. results' = [results EXCEPT ![PerDriver(Threads[ti])] = @ + k]
  BY DEF Records
<1> QED BY <1>1, <1>2, <1>3

\* Whatever arrives from the drivers of benchbase is of this run, so what is read
\* is, too: a record of each driver at most, and of each of them unless figures
\* are lost.
LEMMA ReceiveEffect ==
    ASSUME WorkloadInv, BenchbaseReceive \/ HdbReceive
    PROVE  /\ files' \subseteq Figures
           /\ OfDrivers(files')
           /\ benchmark # "hammerdb" => foreign' = FALSE /\ \A f \in files' : f.run = run
           /\ \/ step' = "raised" /\ results' = results /\ lost' = lost
              \/ /\ \/ step = "bb_receive" /\ step' = "bb_check" /\ ti' = ti
                    \/ step = "hdb_receive" /\ step' = "hdb_thread" /\ ti' = ti + 1
                 /\ lost => lost'
                 /\ \E k \in 0..NumDrivers : results' = Records(k) /\ (~lost' => k = NumDrivers)
<1>1. /\ drivers \in DriverSets /\ files \subseteq Figures /\ OfDrivers(files)
      /\ benchmark # "hammerdb" => foreign = FALSE /\ \A f \in files : f.run = run
      /\ repeat \in 1..Repeats /\ run \in 0..MaxRuns /\ MaxRuns \in Nat
      /\ step # "off" => run >= 1
      /\ step \in LoadSteps => ti <= Len(Threads)
      /\ ti \in 1..(Len(Threads) + 1) /\ Len(Threads) \in Nat
  BY RunnerAssumption DEF WorkloadInv, TypeOK, RunnerTypeOK, FilesAreOwn, InRange
<1>2. step \in {"bb_receive", "hdb_receive"}
  BY DEF BenchbaseReceive, HdbReceive
<1>3. run \in 1..MaxRuns /\ ti \in 1..Len(Threads)
  BY <1>1, <1>2 DEF LoadSteps
<1>b. step = "bb_receive" => benchmark = "benchbase"
  BY DEF WorkloadInv, InRange, BenchbaseSteps
<1>h. step = "hdb_receive" => benchmark = "hammerdb"
  BY DEF WorkloadInv, InRange, HammerdbSteps
<1>4. \A h \in drivers, r \in 1..MaxRuns :
         /\ ProfileOf(h, r) \in Figures
         /\ ProfileOf(h, r).host = h /\ ProfileOf(h, r).run = r
         /\ ProfileOf(h, r).repeat = repeat /\ ProfileOf(h, r).ti = ti
         /\ FiguresOf(h) = ProfileOf(h, run)
  BY <1>1, <1>3, DriverFacts DEF ProfileOf, FiguresOf, Figures
<1>5. /\ files' \subseteq Figures /\ OfDrivers(files')
      /\ benchmark # "hammerdb" => \A f \in files' : f.run = run
  <2>1. CASE BenchbaseReceive
    <3>1. PICK whole \in SUBSET drivers : files' = files \cup {FiguresOf(h) : h \in whole}
      BY <2>1 DEF BenchbaseReceive
    <3>2. benchmark # "hammerdb"
      BY <2>1, <1>b DEF BenchbaseReceive
    <3>3. \A f \in files' : f \in Figures /\ f.run = run /\ f.host \in drivers
      BY <1>1, <1>3, <1>4, <3>1, <3>2 DEF OfDrivers
    <3>4. ASSUME NEW f \in files', NEW g \in files', SameName(f, g) PROVE f = g
      BY <3>3, <3>4 DEF SameName, Figures
    <3> QED BY <3>3, <3>4 DEF OfDrivers
  <2>2. CASE HdbReceive
    <3>p. PICK got \in SUBSET drivers :
             \E from \in [got -> 1..MaxRuns] :
                files' = {f \in files : ~(f.repeat = repeat /\ f.ti = ti /\ f.host \in got)}
                         \cup {ProfileOf(h, from[h]) : h \in got}
      BY <2>2 DEF HdbReceive
    <3>1. PICK from \in [got -> 1..MaxRuns] :
             files' = {f \in files : ~(f.repeat = repeat /\ f.ti = ti /\ f.host \in got)}
                      \cup {ProfileOf(h, from[h]) : h \in got}
      BY <3>p
    <3>2. benchmark = "hammerdb"
      BY <2>2, <1>h DEF HdbReceive
    <3>3. \A f \in files' : f \in Figures /\ f.host \in drivers
      BY <1>1, <1>4, <3>1 DEF OfDrivers
    <3>4. ASSUME NEW f \in files', NEW g \in files', SameName(f, g) PROVE f = g
      <4>1. CASE f \in files /\ g \in files
        BY <1>1, <3>4, <4>1 DEF OfDrivers
      <4>2. ASSUME NEW x \in files' PROVE
              \/ x \in files /\ ~(x.repeat = repeat /\ x.ti = ti /\ x.host \in got)
              \/ /\ x.repeat = repeat /\ x.ti = ti /\ x.host \in got
                 /\ x = ProfileOf(x.host, from[x.host])
        BY <1>4, <3>1
      <4> QED BY <3>4, <4>1, <4>2 DEF SameName
    <3> QED BY <3>2, <3>3, <3>4 DEF OfDrivers
  <2> QED BY <2>1, <2>2
<1>6. /\ Cardinality(Matching(files')) \in Nat
      /\ Cardinality(Matching(files')) <= NumDrivers
      /\ (\A h \in drivers : FiguresOf(h) \in files') => Cardinality(Matching(files')) = NumDrivers
  BY <1>1, <1>5, MatchingCount
<1>7. ASSUME Collect(files')
      PROVE  /\ benchmark # "hammerdb" => foreign' = FALSE
             /\ lost => lost'
             /\ \E k \in 0..NumDrivers : results' = Records(k) /\ (~lost' => k = NumDrivers)
  <2>1. benchmark # "hammerdb" => foreign' = FALSE
    BY <1>1, <1>5, <1>7 DEF Collect, Matching
  <2>2. (lost => lost') /\ (~lost' => \A h \in drivers : FiguresOf(h) \in files')
    BY <1>7 DEF Collect
  <2>3. results' = Records(Cardinality(Matching(files')))
    BY <1>7 DEF Collect
  <2>4. Cardinality(Matching(files')) \in 0..NumDrivers
    BY <1>1, <1>6, DriverFacts
  <2> QED BY <1>6, <2>1, <2>2, <2>3, <2>4
<1>8. CASE BenchbaseReceive
  <2>1. ti' = ti /\ step = "bb_receive"
    BY <1>8 DEF BenchbaseReceive, loopVars
  <2>2. \/ step' = "bb_check" /\ Collect(files')
        \/ step' = "raised" /\ results' = results /\ lost' = lost /\ foreign' = foreign
    BY <1>8 DEF BenchbaseReceive, Escapes
  <2> QED BY <1>1, <1>5, <1>7, <2>1, <2>2
<1>9. CASE HdbReceive
  <2>1. step = "hdb_receive"
    BY <1>9 DEF HdbReceive
  <2>2. \/ step' = "hdb_thread" /\ ti' = ti + 1 /\ Collect(files')
        \/ step' = "raised" /\ results' = results /\ lost' = lost /\ foreign' = foreign
    BY <1>9 DEF HdbReceive
  <2> QED BY <1>1, <1>5, <1>7, <2>1, <2>2
<1> QED BY <1>8, <1>9

(***************************************************************************)
(* Every step preserves each part of the invariant                         *)
(***************************************************************************)
\* A run that was started has a number, and a load its place in the list.
LEMMA InRangeStep == WorkloadInv /\ [Next]_vars => InRange'
<1> SUFFICES ASSUME WorkloadInv, [Next]_vars PROVE InRange'
  OBVIOUS
<1> InRange /\ run \in 0..MaxRuns /\ ti \in 1..(Len(Threads) + 1)
  BY RunnerAssumption DEF WorkloadInv, TypeOK, RunnerTypeOK
<1>r. UNCHANGED <<benchmark, drivers, check>>
  BY Rigid
<1> USE <1>r DEF InRange, LoadSteps, HammerdbSteps, BenchbaseSteps, loopVars, fileVars, deployment, runVars, runnerVars,
   psshVars, workVars, benchVars
<1>1. CASE RepeatBegins
  BY <1>1 DEF RepeatBegins, BeginRepeat, BenchbaseRepeat, HdbRepeat
<1>2. CASE HookRaises
  BY <1>2 DEF HookRaises, HookFails, BenchbaseHookFails, HdbHookFails, PostHookFails, Escapes
<1>3. CASE BeginThread
  BY <1>3 DEF BeginThread, GatherOn
<1>4. CASE LoadBegins
  BY <1>4 DEF LoadBegins, BenchbaseThread, HdbThread, GatherOn
<1>5. CASE KillDone
  BY <1>5 DEF KillDone, Escapes, GatherOn, Gathered, AnyException
<1>6. CASE CleanupDone
  BY <1>6 DEF CleanupDone, GatherOn, Gathered, AnyException
<1>7. CASE WriteConfig
  BY <1>7 DEF WriteConfig
<1>8. CASE LoadDone
  BY <1>8 DEF LoadDone, RunDone, BenchbaseRunDone, HdbRunDone, Escapes, Gathered, AnyException
<1>9. CASE ParseSucceeds
  BY <1>9 DEF ParseSucceeds
<1>10. CASE ParseFails
  BY <1>10 DEF ParseFails, GatherOn
<1>11. CASE BenchbaseReceive
  BY <1>11 DEF BenchbaseReceive, Escapes
<1>12. CASE HdbReceive
  BY <1>12 DEF HdbReceive
<1>13. CASE BenchbaseCheck
  BY <1>13 DEF BenchbaseCheck, Escapes
<1>14. CASE RepeatSaved
  BY <1>14 DEF RepeatSaved, SaveRepeat, BenchbaseSave, HdbSave, RepeatDone
<1>15. ASSUME NEW h \in drivers, KillsOn(h) PROVE InRange'
  BY <1>15, KillsOnEffect
<1>16. ASSUME NEW h \in drivers, LoadOn(h) PROVE InRange'
  BY <1>16, LoadOnEffect
<1>17. CASE RunEnds
  BY <1>17 DEF RunEnds
<1>18. CASE Prepare
  BY <1>18 DEF Prepare
<1>19. CASE Restore
  BY <1>19 DEF Restore
<1>20. CASE Run
  <2>1. run' = run + 1
    BY <1>20 DEF Run
  <2>2. /\ step' \in {"repeat", "bb_cleanup", "hdb_repeat"}
        /\ step' = "bb_cleanup" => benchmark = "benchbase"
        /\ step' = "hdb_repeat" => benchmark = "hammerdb"
    BY <1>20, RunBegins
  <2> QED BY <2>1, <2>2
<1>21. CASE MinutePasses
  BY <1>21 DEF MinutePasses
<1>22. ASSUME NEW h \in Hosts, Orphan(h) PROVE InRange'
  BY <1>22 DEF Orphan, OrphanEnds
<1>23. CASE UNCHANGED vars
  BY <1>23 DEF vars
<1> QED
  BY NextCases, <1>1, <1>2, <1>3, <1>4, <1>5, <1>6, <1>7, <1>8, <1>9, <1>10, <1>11, <1>12, <1>13,
     <1>14, <1>15, <1>16, <1>17, <1>18, <1>19, <1>20, <1>21, <1>22, <1>23 DEF RunnerStep, OnDriver

\* Tasks and processes stay on the drivers.
LEMMA TasksStep == WorkloadInv /\ [Next]_vars => TasksOnDrivers'
<1> SUFFICES ASSUME WorkloadInv, [Next]_vars PROVE TasksOnDrivers'
  OBVIOUS
<1> TasksOnDrivers /\ PsshTypeOK /\ drivers \in DriverSets
  BY RunnerAssumption DEF WorkloadInv, TypeOK, RunnerTypeOK
<1>r. UNCHANGED <<benchmark, drivers, check>>
  BY Rigid
<1>d. drivers \subseteq Hosts
  BY DriverFacts
<1> USE <1>r, <1>d DEF TasksOnDrivers, PsshTypeOK, loopVars, fileVars, deployment, runVars,
   runnerVars, psshVars, workVars, benchVars
<1>1. CASE RepeatBegins
  BY <1>1 DEF RepeatBegins, BeginRepeat, BenchbaseRepeat, HdbRepeat
<1>2. CASE HookRaises
  BY <1>2 DEF HookRaises, HookFails, BenchbaseHookFails, HdbHookFails, PostHookFails, Escapes
<1>3. CASE BeginThread
  BY <1>3 DEF BeginThread, GatherOn
<1>4. CASE LoadBegins
  BY <1>4 DEF LoadBegins, BenchbaseThread, HdbThread, GatherOn
<1>5. CASE KillDone
  BY <1>5 DEF KillDone, Escapes, GatherOn, Gathered, AnyException
<1>6. CASE CleanupDone
  BY <1>6 DEF CleanupDone, GatherOn, Gathered, AnyException
<1>7. CASE WriteConfig
  BY <1>7 DEF WriteConfig
<1>8. CASE LoadDone
  BY <1>8 DEF LoadDone, RunDone, BenchbaseRunDone, HdbRunDone, Escapes, Gathered, AnyException
<1>9. CASE ParseSucceeds
  BY <1>9 DEF ParseSucceeds
<1>10. CASE ParseFails
  BY <1>10 DEF ParseFails, GatherOn
<1>11. CASE BenchbaseReceive
  BY <1>11 DEF BenchbaseReceive, Escapes
<1>12. CASE HdbReceive
  BY <1>12 DEF HdbReceive
<1>13. CASE BenchbaseCheck
  BY <1>13 DEF BenchbaseCheck, Escapes
<1>14. CASE RepeatSaved
  BY <1>14 DEF RepeatSaved, SaveRepeat, BenchbaseSave, HdbSave, RepeatDone
<1>15. ASSUME NEW h \in drivers, KillsOn(h) PROVE TasksOnDrivers'
  BY <1>15, KillsOnEffect
<1>16. ASSUME NEW h \in drivers, LoadOn(h) PROVE TasksOnDrivers'
  <2>1. HostStep(h) /\ h \in Hosts /\ (task[h] = "executing" => copies[h] >= 1)
    BY <1>16, LoadOnEffect
  <2>2. /\ task'[h] = "executing" => copies'[h] >= 1
        /\ \A g \in Hosts \ {h} : task'[g] = task[g] /\ copies'[g] = copies[g]
    BY <2>1, HostStepEffect
  <2> QED BY <2>2
<1>17. CASE RunEnds
  BY <1>17 DEF RunEnds
<1>18. CASE Prepare
  BY <1>18 DEF Prepare
<1>19. CASE Restore
  BY <1>19 DEF Restore
<1>20. CASE Run
  BY <1>20 DEF Run, FirstStep, GatherOn
<1>21. CASE MinutePasses
  BY <1>21 DEF MinutePasses
<1>22. ASSUME NEW h \in Hosts, Orphan(h) PROVE TasksOnDrivers'
  <2>1. /\ task' = task /\ copies[h] >= 1
        /\ task[h] = "executing" => copies'[h] >= 1
        /\ \A g \in Hosts \ {h} : copies'[g] = copies[g]
    BY <1>22, OrphanEffect
  <2>2. h \in drivers
    BY <2>1
  <2> QED BY <2>1, <2>2
<1>23. CASE UNCHANGED vars
  BY <1>23 DEF vars
<1> QED
  BY NextCases, <1>1, <1>2, <1>3, <1>4, <1>5, <1>6, <1>7, <1>8, <1>9, <1>10, <1>11, <1>12, <1>13,
     <1>14, <1>15, <1>16, <1>17, <1>18, <1>19, <1>20, <1>21, <1>22, <1>23 DEF RunnerStep, OnDriver

\* The kill goes over all drivers, and those it reached are clean.
LEMMA KillStep == WorkloadInv /\ [Next]_vars => KillLeavesNone'
<1> SUFFICES ASSUME WorkloadInv, [Next]_vars PROVE KillLeavesNone'
  OBVIOUS
<1> TasksOnDrivers /\ KillLeavesNone /\ PsshTypeOK /\ drivers \in DriverSets
  BY RunnerAssumption DEF WorkloadInv, TypeOK, RunnerTypeOK
<1>r. UNCHANGED <<benchmark, drivers, check>>
  BY Rigid
<1>d. drivers \subseteq Hosts
  BY DriverFacts
<1> USE <1>r, <1>d DEF KillLeavesNone, PsshTypeOK, loopVars, fileVars, deployment, runVars,
   runnerVars, psshVars, workVars, benchVars
<1>1. CASE RepeatBegins
  BY <1>1 DEF RepeatBegins, BeginRepeat, BenchbaseRepeat, HdbRepeat
<1>2. CASE HookRaises
  BY <1>2 DEF HookRaises, HookFails, BenchbaseHookFails, HdbHookFails, PostHookFails, Escapes
<1>3. CASE BeginThread
  BY <1>3 DEF BeginThread, GatherOn
<1>4. CASE LoadBegins
  BY <1>4 DEF LoadBegins, BenchbaseThread, HdbThread, GatherOn
<1>5. CASE KillDone
  BY <1>5 DEF KillDone, Escapes, GatherOn, Gathered, AnyException
<1>6. CASE CleanupDone
  BY <1>6 DEF CleanupDone, GatherOn, Gathered, AnyException
<1>7. CASE WriteConfig
  BY <1>7 DEF WriteConfig
<1>8. CASE LoadDone
  BY <1>8 DEF LoadDone, RunDone, BenchbaseRunDone, HdbRunDone, Escapes, Gathered, AnyException
<1>9. CASE ParseSucceeds
  BY <1>9 DEF ParseSucceeds
<1>10. CASE ParseFails
  BY <1>10 DEF ParseFails, GatherOn
<1>11. CASE BenchbaseReceive
  BY <1>11 DEF BenchbaseReceive, Escapes
<1>12. CASE HdbReceive
  BY <1>12 DEF HdbReceive
<1>13. CASE BenchbaseCheck
  BY <1>13 DEF BenchbaseCheck, Escapes
<1>14. CASE RepeatSaved
  BY <1>14 DEF RepeatSaved, SaveRepeat, BenchbaseSave, HdbSave, RepeatDone
<1>15. ASSUME NEW h \in drivers, KillsOn(h) PROVE KillLeavesNone'
  BY <1>15, KillsOnEffect
<1>16. ASSUME NEW h \in drivers, LoadOn(h) PROVE KillLeavesNone'
  BY <1>16, LoadOnEffect
<1>17. CASE RunEnds
  BY <1>17 DEF RunEnds
<1>18. CASE Prepare
  BY <1>18 DEF Prepare
<1>19. CASE Restore
  BY <1>19 DEF Restore
<1>20. CASE Run
  <2>1. step' = "bb_cleanup" => task' = [h \in Hosts |-> IF h \in drivers THEN "connecting" ELSE "none"]
    BY <1>20, RunnerAssumption DEF Run, FirstStep, GatherOn, TypeOK, RunnerTypeOK, WorkloadInv
  <2>2. step' # "kill"
    BY <1>20, RunBegins
  <2> QED BY <2>1, <2>2
<1>21. CASE MinutePasses
  BY <1>21 DEF MinutePasses
<1>22. ASSUME NEW h \in Hosts, Orphan(h) PROVE KillLeavesNone'
  BY <1>22 DEF Orphan
<1>23. CASE UNCHANGED vars
  BY <1>23 DEF vars
<1> QED
  BY NextCases, <1>1, <1>2, <1>3, <1>4, <1>5, <1>6, <1>7, <1>8, <1>9, <1>10, <1>11, <1>12, <1>13,
     <1>14, <1>15, <1>16, <1>17, <1>18, <1>19, <1>20, <1>21, <1>22, <1>23 DEF RunnerStep, OnDriver

\* A load starts after all drivers were cleaned, and keeps them to itself.
LEMMA LoadStep == WorkloadInv /\ [Next]_vars => LoadIsAlone'
<1> SUFFICES ASSUME WorkloadInv, [Next]_vars PROVE LoadIsAlone'
  OBVIOUS
<1> TasksOnDrivers /\ KillLeavesNone /\ LoadIsAlone /\ PsshTypeOK /\ drivers \in DriverSets
  BY RunnerAssumption DEF WorkloadInv, TypeOK, RunnerTypeOK
<1>r. UNCHANGED <<benchmark, drivers, check>>
  BY Rigid
<1>d. drivers \subseteq Hosts
  BY DriverFacts
<1> USE <1>r, <1>d DEF LoadIsAlone, PsshTypeOK, loopVars, fileVars, deployment, runVars,
   runnerVars, psshVars, workVars, benchVars
<1>1. CASE RepeatBegins
  BY <1>1 DEF RepeatBegins, BeginRepeat, BenchbaseRepeat, HdbRepeat
<1>2. CASE HookRaises
  BY <1>2 DEF HookRaises, HookFails, BenchbaseHookFails, HdbHookFails, PostHookFails, Escapes
<1>3. CASE BeginThread
  BY <1>3 DEF BeginThread, GatherOn
<1>4. CASE LoadBegins
  BY <1>4 DEF LoadBegins, BenchbaseThread, HdbThread, GatherOn
<1>5. CASE KillDone
  <2>1. step' = "run" => \A h \in drivers : task[h] = "ok"
    BY <1>5 DEF KillDone, Escapes, Gathered, AnyException, KillLeavesNone, TaskStates
  <2> QED BY <1>5, <2>1 DEF KillDone, Escapes, GatherOn, KillLeavesNone
<1>6. CASE CleanupDone
  <2>1. step' = "bb_config" => \A h \in drivers : task[h] = "ok"
    BY <1>6 DEF CleanupDone, Gathered, AnyException, KillLeavesNone, TaskStates
  <2> QED BY <1>6, <2>1 DEF CleanupDone, KillLeavesNone
<1>7. CASE WriteConfig
  BY <1>7 DEF WriteConfig
<1>8. CASE LoadDone
  <2>1. step' = "bb_receive" => \A h \in drivers : task[h] = "ok"
    BY <1>8 DEF LoadDone, RunDone, BenchbaseRunDone, HdbRunDone, Escapes, Gathered, AnyException, TaskStates
  <2> QED BY <1>8, <2>1 DEF LoadDone, RunDone, BenchbaseRunDone, HdbRunDone, Escapes
<1>9. CASE ParseSucceeds
  BY <1>9 DEF ParseSucceeds
<1>10. CASE ParseFails
  BY <1>10 DEF ParseFails, GatherOn
<1>11. CASE BenchbaseReceive
  BY <1>11 DEF BenchbaseReceive, Escapes
<1>12. CASE HdbReceive
  BY <1>12 DEF HdbReceive
<1>13. CASE BenchbaseCheck
  BY <1>13 DEF BenchbaseCheck, Escapes
<1>14. CASE RepeatSaved
  BY <1>14 DEF RepeatSaved, SaveRepeat, BenchbaseSave, HdbSave, RepeatDone
<1>15. ASSUME NEW h \in drivers, KillsOn(h) PROVE LoadIsAlone'
  BY <1>15, KillsOnEffect
<1>16. ASSUME NEW h \in drivers, LoadOn(h) PROVE LoadIsAlone'
  <2>1. /\ HostStep(h) /\ h \in Hosts /\ (task[h] = "executing" => copies[h] >= 1)
        /\ step' = step /\ step \in {"run", "bb_run", "hdb_run"}
    BY <1>16, LoadOnEffect DEF TasksOnDrivers
  <2>2. /\ task'[h] \notin {"none", "connecting"}
        /\ \A g \in Hosts \ {h} : task'[g] = task[g] /\ copies'[g] = copies[g]
        /\ copies[h] <= 1 /\ (task[h] = "connecting" => copies[h] = 0) =>
              copies'[h] <= 1 /\ (task'[h] = "ok" => copies'[h] = 0)
    BY <2>1, HostStepEffect
  <2> QED BY <2>1, <2>2
<1>17. CASE RunEnds
  BY <1>17 DEF RunEnds
<1>18. CASE Prepare
  BY <1>18 DEF Prepare
<1>19. CASE Restore
  BY <1>19 DEF Restore
<1>20. CASE Run
  <2>1. step' \in {"repeat", "bb_cleanup", "hdb_repeat"}
    BY <1>20, RunBegins
  <2> QED BY <2>1
<1>21. CASE MinutePasses
  BY <1>21 DEF MinutePasses
<1>22. ASSUME NEW h \in Hosts, Orphan(h) PROVE LoadIsAlone'
  <2>1. /\ task' = task /\ step' = step /\ copies[h] >= 1 /\ copies'[h] = copies[h] - 1
        /\ \A g \in Hosts \ {h} : copies'[g] = copies[g]
    BY <1>22, OrphanEffect DEF TasksOnDrivers
  <2>2. copies[h] \in Nat
    OBVIOUS
  <2> QED BY <2>1, <2>2
<1>23. CASE UNCHANGED vars
  BY <1>23 DEF vars
<1> QED
  BY NextCases, <1>1, <1>2, <1>3, <1>4, <1>5, <1>6, <1>7, <1>8, <1>9, <1>10, <1>11, <1>12, <1>13,
     <1>14, <1>15, <1>16, <1>17, <1>18, <1>19, <1>20, <1>21, <1>22, <1>23 DEF RunnerStep, OnDriver

\* No step brings figures of another run into the directory of one of benchbase.
LEMMA FilesStep == WorkloadInv /\ [Next]_vars => FilesAreOwn'
<1> SUFFICES ASSUME WorkloadInv, [Next]_vars PROVE FilesAreOwn'
  OBVIOUS
<1> FilesAreOwn /\ later \in BOOLEAN
  BY RunnerAssumption DEF WorkloadInv, TypeOK, RunnerTypeOK
<1>r. UNCHANGED <<benchmark, drivers, check>>
  BY Rigid
<1>o. ASSUME OfDrivers(files), files' = files PROVE OfDrivers(files)'
  BY <1>r, <1>o DEF OfDrivers, SameName
<1>e. OfDrivers({})
  BY DEF OfDrivers
<1> USE <1>r, <1>o DEF FilesAreOwn, loopVars, fileVars, deployment, runVars, runnerVars, psshVars,
   workVars, benchVars
<1>1. CASE RepeatBegins
  BY <1>1 DEF RepeatBegins, BeginRepeat, BenchbaseRepeat, HdbRepeat
<1>2. CASE HookRaises
  BY <1>2 DEF HookRaises, HookFails, BenchbaseHookFails, HdbHookFails, PostHookFails, Escapes
<1>3. CASE BeginThread
  BY <1>3 DEF BeginThread, GatherOn
<1>4. CASE LoadBegins
  BY <1>4 DEF LoadBegins, BenchbaseThread, HdbThread, GatherOn
<1>5. CASE KillDone
  BY <1>5 DEF KillDone, Escapes, GatherOn, Gathered, AnyException
<1>6. CASE CleanupDone
  BY <1>6 DEF CleanupDone, GatherOn, Gathered, AnyException
<1>7. CASE WriteConfig
  BY <1>7 DEF WriteConfig
<1>8. CASE LoadDone
  BY <1>8 DEF LoadDone, RunDone, BenchbaseRunDone, HdbRunDone, Escapes, Gathered, AnyException
<1>9. CASE ParseSucceeds
  BY <1>9 DEF ParseSucceeds
<1>10. CASE ParseFails
  BY <1>10 DEF ParseFails, GatherOn
<1>11. CASE BenchbaseReceive
  <2>1. /\ OfDrivers(files') /\ step' \in {"raised", "bb_check"}
        /\ benchmark # "hammerdb" => foreign' = FALSE /\ \A f \in files' : f.run = run
    BY <1>11, ReceiveEffect DEF BenchbaseReceive
  <2>2. later' = later /\ run' = run /\ step = "bb_receive"
    BY <1>11 DEF BenchbaseReceive
  <2>3. OfDrivers(files)'
    BY <2>1, <1>r DEF OfDrivers, SameName
  <2> QED BY <2>1, <2>2, <2>3
<1>12. CASE HdbReceive
  <2>1. /\ OfDrivers(files') /\ step' \in {"raised", "hdb_thread"}
        /\ benchmark # "hammerdb" => foreign' = FALSE /\ \A f \in files' : f.run = run
    BY <1>12, ReceiveEffect DEF HdbReceive
  <2>2. later' = later /\ run' = run /\ step = "hdb_receive"
    BY <1>12 DEF HdbReceive
  <2>3. OfDrivers(files)'
    BY <2>1, <1>r DEF OfDrivers, SameName
  <2> QED BY <2>1, <2>2, <2>3
<1>13. CASE BenchbaseCheck
  BY <1>13 DEF BenchbaseCheck, Escapes
<1>14. CASE RepeatSaved
  BY <1>14 DEF RepeatSaved, SaveRepeat, BenchbaseSave, HdbSave, RepeatDone
<1>15. ASSUME NEW h \in drivers, KillsOn(h) PROVE FilesAreOwn'
  BY <1>15, KillsOnEffect
<1>16. ASSUME NEW h \in drivers, LoadOn(h) PROVE FilesAreOwn'
  BY <1>16, LoadOnEffect
<1>17. CASE RunEnds
  BY <1>17 DEF RunEnds
<1>18. CASE Prepare
  BY <1>18 DEF Prepare
<1>19. CASE Restore
  BY <1>19 DEF Restore
<1>20. CASE Run
  <2>1. files' = {} /\ foreign' = FALSE
    BY <1>20 DEF Run
  <2>2. OfDrivers(files)'
    BY <2>1 DEF OfDrivers
  <2> QED BY <1>20, <2>1, <2>2, RunBegins
<1>21. CASE MinutePasses
  BY <1>21 DEF MinutePasses
<1>22. ASSUME NEW h \in Hosts, Orphan(h) PROVE FilesAreOwn'
  BY <1>22 DEF Orphan, OrphanEnds
<1>23. CASE UNCHANGED vars
  BY <1>23 DEF vars
<1> QED
  BY NextCases, <1>1, <1>2, <1>3, <1>4, <1>5, <1>6, <1>7, <1>8, <1>9, <1>10, <1>11, <1>12, <1>13,
     <1>14, <1>15, <1>16, <1>17, <1>18, <1>19, <1>20, <1>21, <1>22, <1>23 DEF RunnerStep, OnDriver

\* A step adds a record of each driver for the load just measured, or none.
LEMMA ResultsStep == WorkloadInv /\ [Next]_vars => ResultsSoFar'
<1> SUFFICES ASSUME WorkloadInv, [Next]_vars PROVE ResultsSoFar'
  OBVIOUS
<1> InRange /\ ResultsSoFar /\ drivers \in DriverSets /\ results \in [Concurrencies -> Nat] /\ ti
   \in 1..(Len(Threads) + 1)
  BY RunnerAssumption DEF WorkloadInv, TypeOK, RunnerTypeOK
<1>r. UNCHANGED <<benchmark, drivers, check>>
  BY Rigid
<1>n. NumDrivers' = NumDrivers
  BY <1>r DEF NumDrivers
<1>p. \A i \in 1..Len(Threads) : PerDriver(Threads[i])' = PerDriver(Threads[i])
  BY <1>n DEF PerDriver
<1>l. Len(Threads) \in Nat /\ Repeats \in Nat /\ Repeats >= 1
  BY RunnerAssumption
<1>d. NumDrivers \in Nat /\ NumDrivers >= 1
  BY DriverFacts
<1>z. \A i \in 1..Len(Threads) : NoResults[PerDriver(Threads[i])] = 0
  BY PerDriverFacts DEF NoResults
<1>t. step \in LoadSteps => ti \in 1..Len(Threads)
  BY <1>l DEF InRange
<1> USE <1>r, <1>n, <1>p, <1>l, <1>d DEF ResultsSoFar, Unmeasured, LoadSteps, ThreadSteps,
   loopVars, fileVars, deployment, runVars, runnerVars, psshVars, workVars, benchVars
<1>1. CASE RepeatBegins
  <2>1. ti' = 1 /\ results' = NoResults /\ step' # "bb_check"
    BY <1>1 DEF RepeatBegins, BeginRepeat, BenchbaseRepeat, HdbRepeat
  <2>2. ASSUME NEW i \in 1..Len(Threads) PROVE results'[PerDriver(Threads[i])'] = 0
    BY <2>1, <1>z
  <2> QED BY <2>1, <2>2
<1>2. CASE HookRaises
  BY <1>2 DEF HookRaises, HookFails, BenchbaseHookFails, HdbHookFails, PostHookFails, Escapes
<1>3. CASE BeginThread
  BY <1>3 DEF BeginThread, GatherOn
<1>4. CASE LoadBegins
  BY <1>4 DEF LoadBegins, BenchbaseThread, HdbThread, GatherOn
<1>5. CASE KillDone
  BY <1>5 DEF KillDone, Escapes, GatherOn, Gathered, AnyException
<1>6. CASE CleanupDone
  BY <1>6 DEF CleanupDone, GatherOn, Gathered, AnyException
<1>7. CASE WriteConfig
  BY <1>7 DEF WriteConfig
<1>8. CASE LoadDone
  BY <1>8 DEF LoadDone, RunDone, BenchbaseRunDone, HdbRunDone, Escapes, Gathered, AnyException
<1>9. CASE ParseSucceeds
  <2>1. ti \in 1..Len(Threads) /\ results' = Records(NumDrivers) /\ lost' = lost
        /\ ti' = ti + 1 /\ step = "parse" /\ step' = "thread"
    BY <1>9, <1>t DEF ParseSucceeds
  <2>2. /\ results'[PerDriver(Threads[ti])] = results[PerDriver(Threads[ti])] + NumDrivers
        /\ \A i \in 1..Len(Threads) :
              i # ti => results'[PerDriver(Threads[i])] = results[PerDriver(Threads[i])]
    BY <2>1, RecordsEffect
  <2>3. results[PerDriver(Threads[ti])] = 0
    BY <2>1
  <2> QED BY <2>1, <2>2, <2>3
<1>10. CASE ParseFails
  BY <1>10 DEF ParseFails, GatherOn
<1>11. CASE BenchbaseReceive
  <2>1. CASE step' = "raised"
    BY <2>1
  <2>2. CASE step' # "raised"
    <3>1. /\ step = "bb_receive" /\ step' = "bb_check" /\ ti' = ti /\ (lost => lost')
          /\ \E k \in 0..NumDrivers : results' = Records(k) /\ (~lost' => k = NumDrivers)
      BY <1>11, <2>2, ReceiveEffect DEF BenchbaseReceive
    <3>2. PICK k \in 0..NumDrivers : results' = Records(k) /\ (~lost' => k = NumDrivers)
      BY <3>1
    <3>3. /\ results'[PerDriver(Threads[ti])] = results[PerDriver(Threads[ti])] + k
          /\ \A i \in 1..Len(Threads) :
                i # ti => results'[PerDriver(Threads[i])] = results[PerDriver(Threads[i])]
      BY <3>1, <3>2, <1>t, RecordsEffect
    <3>4. ti \in 1..Len(Threads) /\ results[PerDriver(Threads[ti])] = 0
      BY <3>1, <1>t
    <3> QED BY <3>1, <3>2, <3>3, <3>4
  <2> QED BY <2>1, <2>2
<1>12. CASE HdbReceive
  <2>1. CASE step' = "raised"
    BY <2>1
  <2>2. CASE step' # "raised"
    <3>1. /\ step = "hdb_receive" /\ step' = "hdb_thread" /\ ti' = ti + 1 /\ (lost => lost')
          /\ \E k \in 0..NumDrivers : results' = Records(k) /\ (~lost' => k = NumDrivers)
      BY <1>12, <2>2, ReceiveEffect DEF HdbReceive
    <3>2. PICK k \in 0..NumDrivers : results' = Records(k) /\ (~lost' => k = NumDrivers)
      BY <3>1
    <3>3. /\ results'[PerDriver(Threads[ti])] = results[PerDriver(Threads[ti])] + k
          /\ \A i \in 1..Len(Threads) :
                i # ti => results'[PerDriver(Threads[i])] = results[PerDriver(Threads[i])]
      BY <3>1, <3>2, <1>t, RecordsEffect
    <3>4. ti \in 1..Len(Threads) /\ results[PerDriver(Threads[ti])] = 0
      BY <3>1, <1>t
    <3> QED BY <3>1, <3>2, <3>3, <3>4
  <2> QED BY <2>1, <2>2
<1>13. CASE BenchbaseCheck
  <2>1. /\ step = "bb_check" /\ results' = results /\ lost' = lost
        /\ step' = "raised" \/ (step' = "bb_thread" /\ ti' = ti + 1)
    BY <1>13 DEF BenchbaseCheck, Escapes
  <2> QED BY <2>1
<1>14. CASE RepeatSaved
  BY <1>14 DEF RepeatSaved, SaveRepeat, BenchbaseSave, HdbSave, RepeatDone
<1>15. ASSUME NEW h \in drivers, KillsOn(h) PROVE ResultsSoFar'
  BY <1>15, KillsOnEffect
<1>16. ASSUME NEW h \in drivers, LoadOn(h) PROVE ResultsSoFar'
  BY <1>16, LoadOnEffect
<1>17. CASE RunEnds
  BY <1>17 DEF RunEnds
<1>18. CASE Prepare
  BY <1>18 DEF Prepare
<1>19. CASE Restore
  BY <1>19 DEF Restore
<1>20. CASE Run
  BY <1>20, RunBegins
<1>21. CASE MinutePasses
  BY <1>21 DEF MinutePasses
<1>22. ASSUME NEW h \in Hosts, Orphan(h) PROVE ResultsSoFar'
  BY <1>22 DEF Orphan, OrphanEnds
<1>23. CASE UNCHANGED vars
  BY <1>23 DEF vars
<1> QED
  BY NextCases, <1>1, <1>2, <1>3, <1>4, <1>5, <1>6, <1>7, <1>8, <1>9, <1>10, <1>11, <1>12, <1>13,
     <1>14, <1>15, <1>16, <1>17, <1>18, <1>19, <1>20, <1>21, <1>22, <1>23 DEF RunnerStep, OnDriver

\* Only whole rows are added to the summary.
LEMMA RowsStep == WorkloadInv /\ [Next]_vars => RowsAreWhole'
<1> SUFFICES ASSUME WorkloadInv, [Next]_vars PROVE RowsAreWhole'
  OBVIOUS
<1> ResultsSoFar /\ RowsAreWhole /\ drivers \in DriverSets /\ results \in [Concurrencies -> Nat]
   /\ ti \in 1..(Len(Threads) + 1)
  BY RunnerAssumption DEF WorkloadInv, TypeOK, RunnerTypeOK
<1>r. UNCHANGED <<benchmark, drivers, check>>
  BY Rigid
<1>n. NumDrivers' = NumDrivers
  BY <1>r DEF NumDrivers
<1>l. Len(Threads) \in Nat
  BY RunnerAssumption
<1> USE <1>r, <1>n, <1>l DEF RowsAreWhole, loopVars, fileVars, deployment, runVars, runnerVars,
   psshVars, workVars, benchVars
<1>1. CASE RepeatBegins
  BY <1>1 DEF RepeatBegins, BeginRepeat, BenchbaseRepeat, HdbRepeat
<1>2. CASE HookRaises
  BY <1>2 DEF HookRaises, HookFails, BenchbaseHookFails, HdbHookFails, PostHookFails, Escapes
<1>3. CASE BeginThread
  BY <1>3 DEF BeginThread, GatherOn
<1>4. CASE LoadBegins
  BY <1>4 DEF LoadBegins, BenchbaseThread, HdbThread, GatherOn
<1>5. CASE KillDone
  BY <1>5 DEF KillDone, Escapes, GatherOn, Gathered, AnyException
<1>6. CASE CleanupDone
  BY <1>6 DEF CleanupDone, GatherOn, Gathered, AnyException
<1>7. CASE WriteConfig
  BY <1>7 DEF WriteConfig
<1>8. CASE LoadDone
  BY <1>8 DEF LoadDone, RunDone, BenchbaseRunDone, HdbRunDone, Escapes, Gathered, AnyException
<1>9. CASE ParseSucceeds
  BY <1>9 DEF ParseSucceeds
<1>10. CASE ParseFails
  BY <1>10 DEF ParseFails, GatherOn
<1>11. CASE BenchbaseReceive
  <2>1. lost => lost'
    BY <1>11, ReceiveEffect
  <2>2. summary' = summary
    BY <1>11 DEF BenchbaseReceive
  <2> QED BY <2>1, <2>2
<1>12. CASE HdbReceive
  <2>1. lost => lost'
    BY <1>12, ReceiveEffect
  <2>2. summary' = summary
    BY <1>12 DEF HdbReceive
  <2> QED BY <2>1, <2>2
<1>13. CASE BenchbaseCheck
  <2>1. \A row \in RepeatRows :
           /\ row.records <= NumDrivers
           /\ ~lost => row.records = NumDrivers
           /\ \E i \in 1..Len(Threads) : row.concurrency = Threads[i]
    <3>1. step \in ThreadSteps
      BY <1>13 DEF BenchbaseCheck, ThreadSteps, LoadSteps
    <3>2. \A i \in 1..Len(Threads) :
              /\ results[PerDriver(Threads[i])] <= NumDrivers
              /\ ~lost => results[PerDriver(Threads[i])] \in {0, NumDrivers}
      BY <3>1 DEF ResultsSoFar, Unmeasured
    <3> QED BY <3>2, RepeatRowsFacts
  <2>2. (summary' = summary \/ summary' = summary \cup RepeatRows) /\ lost' = lost
    BY <1>13 DEF BenchbaseCheck
  <2> QED BY <2>1, <2>2
<1>14. CASE RepeatSaved
  <2>1. \A row \in RepeatRows :
           /\ row.records <= NumDrivers
           /\ ~lost => row.records = NumDrivers
           /\ \E i \in 1..Len(Threads) : row.concurrency = Threads[i]
    <3>1. step \in ThreadSteps
      BY <1>14 DEF RepeatSaved, SaveRepeat, BenchbaseSave, HdbSave, ThreadSteps, LoadSteps
    <3>2. \A i \in 1..Len(Threads) :
              /\ results[PerDriver(Threads[i])] <= NumDrivers
              /\ ~lost => results[PerDriver(Threads[i])] \in {0, NumDrivers}
      BY <3>1 DEF ResultsSoFar, Unmeasured
    <3> QED BY <3>2, RepeatRowsFacts
  <2>2. summary' = summary \cup RepeatRows /\ lost' = lost
    BY <1>14 DEF RepeatSaved, SaveRepeat, BenchbaseSave, HdbSave, RepeatDone
  <2> QED BY <2>1, <2>2
<1>15. ASSUME NEW h \in drivers, KillsOn(h) PROVE RowsAreWhole'
  BY <1>15, KillsOnEffect
<1>16. ASSUME NEW h \in drivers, LoadOn(h) PROVE RowsAreWhole'
  BY <1>16, LoadOnEffect
<1>17. CASE RunEnds
  BY <1>17 DEF RunEnds
<1>18. CASE Prepare
  BY <1>18 DEF Prepare
<1>19. CASE Restore
  BY <1>19 DEF Restore
<1>20. CASE Run
  <2>1. summary' = {}
    BY <1>20 DEF Run
  <2> QED BY <2>1
<1>21. CASE MinutePasses
  BY <1>21 DEF MinutePasses
<1>22. ASSUME NEW h \in Hosts, Orphan(h) PROVE RowsAreWhole'
  BY <1>22 DEF Orphan, OrphanEnds
<1>23. CASE UNCHANGED vars
  BY <1>23 DEF vars
<1> QED
  BY NextCases, <1>1, <1>2, <1>3, <1>4, <1>5, <1>6, <1>7, <1>8, <1>9, <1>10, <1>11, <1>12, <1>13,
     <1>14, <1>15, <1>16, <1>17, <1>18, <1>19, <1>20, <1>21, <1>22, <1>23 DEF RunnerStep, OnDriver

\* A runner is at work only in a run.
LEMMA RunnerBegun == ASSUME RunnerStep PROVE step # "off"
<1>1. CASE OnDriver
  BY <1>1, KillsOnEffect, LoadOnEffect DEF OnDriver
<1>2. CASE RepeatBegins \/ HookRaises \/ BeginThread \/ LoadBegins
  BY <1>2 DEF RepeatBegins, HookRaises, LoadBegins, BeginRepeat, BenchbaseRepeat, HdbRepeat, HookFails,
     BenchbaseHookFails, HdbHookFails, PostHookFails, BeginThread, BenchbaseThread, HdbThread
<1>3. CASE KillDone \/ CleanupDone \/ WriteConfig \/ LoadDone \/ RepeatSaved
  BY <1>3 DEF KillDone, CleanupDone, WriteConfig, LoadDone, RepeatSaved, RunDone, BenchbaseRunDone,
     HdbRunDone, SaveRepeat, BenchbaseSave, HdbSave
<1>4. CASE ParseSucceeds \/ ParseFails \/ BenchbaseReceive \/ HdbReceive \/ BenchbaseCheck
  BY <1>4 DEF ParseSucceeds, ParseFails, BenchbaseReceive, HdbReceive, BenchbaseCheck
<1> QED BY <1>1, <1>2, <1>3, <1>4 DEF RunnerStep

\* The stop file of a run is written when it is over, and once.
LEMMA StoppedStep == WorkloadInv /\ [Next]_vars => StoppedAreOver'
<1> SUFFICES ASSUME WorkloadInv, [Next]_vars PROVE StoppedAreOver'
  OBVIOUS
<1> InRange /\ StoppedAreOver /\ run \in 0..MaxRuns /\ MaxRuns \in Nat
  BY RunnerAssumption DEF WorkloadInv, TypeOK, RunnerTypeOK
<1>r. UNCHANGED <<benchmark, drivers, check>>
  BY Rigid
<1> USE <1>r DEF InRange, StoppedAreOver, loopVars, fileVars, deployment, runVars, runnerVars,
   psshVars, workVars, benchVars
<1>1. CASE RunnerStep /\ UNCHANGED workVars
  BY <1>1, RunnerBegun, RunnerFrame
<1>2. CASE RunEnds
  BY <1>2 DEF RunEnds
<1>3. CASE Prepare
  BY <1>3 DEF Prepare
<1>4. CASE Restore
  BY <1>4 DEF Restore
<1>5. CASE Run
  BY <1>5 DEF Run
<1>6. CASE MinutePasses
  BY <1>6 DEF MinutePasses
<1>7. ASSUME NEW h \in Hosts, Orphan(h) PROVE StoppedAreOver'
  BY <1>7 DEF Orphan
<1>8. CASE UNCHANGED vars
  BY <1>8 DEF vars
<1> QED BY NextCases, <1>1, <1>2, <1>3, <1>4, <1>5, <1>6, <1>7, <1>8

\* It is written when the runner has returned, and nothing is changed after it.
LEMMA StopStep == WorkloadInv /\ [Next]_vars => StopIsLast'
<1> SUFFICES ASSUME WorkloadInv, [Next]_vars PROVE StopIsLast'
  OBVIOUS
<1> InRange /\ StoppedAreOver /\ SavedRepeats /\ SummarySoFar /\ StopIsLast /\ run \in 0..MaxRuns
   /\ MaxRuns \in Nat
  BY RunnerAssumption DEF WorkloadInv, TypeOK, RunnerTypeOK
<1>r. UNCHANGED <<benchmark, drivers, check>>
  BY Rigid
<1>f. FullRows(Repeats)' = FullRows(Repeats)
  BY <1>r DEF FullRows, Row, NumDrivers
<1> USE <1>r DEF StoppedAreOver, StopIsLast, loopVars, fileVars, deployment, runVars, runnerVars,
   psshVars, workVars, benchVars
<1>1. CASE RunnerStep /\ UNCHANGED workVars
  BY <1>1, RunnerBegun, RunnerFrame
<1>2. CASE RunEnds
  BY <1>2, <1>f DEF RunEnds, SavedRepeats, SummarySoFar
<1>3. CASE Prepare
  BY <1>3, <1>f DEF Prepare
<1>4. CASE Restore
  BY <1>4, <1>f DEF Restore
<1>5. CASE Run
  BY <1>5 DEF Run
<1>6. CASE MinutePasses
  BY <1>6, <1>f DEF MinutePasses
<1>7. ASSUME NEW h \in Hosts, Orphan(h) PROVE StopIsLast'
  BY <1>7, <1>f DEF Orphan
<1>8. CASE UNCHANGED vars
  BY <1>8, <1>f DEF vars
<1> QED BY NextCases, <1>1, <1>2, <1>3, <1>4, <1>5, <1>6, <1>7, <1>8

\* What prepare or restore left behind was checked.
LEMMA DataStep == WorkloadInv /\ [Next]_vars => DataAreChecked'
<1> SUFFICES ASSUME WorkloadInv, [Next]_vars PROVE DataAreChecked'
  OBVIOUS
<1> DataAreChecked /\ prepared \in BOOLEAN
  BY RunnerAssumption DEF WorkloadInv, TypeOK, RunnerTypeOK
<1>r. UNCHANGED <<benchmark, drivers, check>>
  BY Rigid
<1> USE <1>r DEF DataAreChecked, DataCheck, loopVars, fileVars, deployment, runVars, runnerVars, psshVars,
   workVars, benchVars
<1>1. CASE RunnerStep /\ UNCHANGED workVars
  BY <1>1, RunnerBegun, RunnerFrame
<1>2. CASE RunEnds
  BY <1>2 DEF RunEnds
<1>3. CASE Prepare
  BY <1>3 DEF Prepare
<1>4. CASE Restore
  BY <1>4 DEF Restore
<1>5. CASE Run
  BY <1>5 DEF Run
<1>6. CASE MinutePasses
  BY <1>6 DEF MinutePasses
<1>7. ASSUME NEW h \in Hosts, Orphan(h) PROVE DataAreChecked'
  BY <1>7 DEF Orphan
<1>8. CASE UNCHANGED vars
  BY <1>8 DEF vars
<1> QED BY NextCases, <1>1, <1>2, <1>3, <1>4, <1>5, <1>6, <1>7, <1>8

\* Each repeat is saved once it is over, and the summary after the last.
LEMMA SavedStep == WorkloadInv /\ [Next]_vars => SavedRepeats'
<1> SUFFICES ASSUME WorkloadInv, [Next]_vars PROVE SavedRepeats'
  OBVIOUS
<1> SavedRepeats /\ repeat \in 1..Repeats /\ Repeats \in Nat /\ Repeats >= 1
  BY RunnerAssumption DEF WorkloadInv, TypeOK, RunnerTypeOK
<1>r. UNCHANGED <<benchmark, drivers, check>>
  BY Rigid
<1> USE <1>r DEF SavedRepeats, LoopSteps, SysbenchSteps, BenchbaseSteps, HammerdbSteps, loopVars,
   fileVars, deployment, runVars, runnerVars, psshVars, workVars, benchVars
<1>1. CASE RepeatBegins
  BY <1>1 DEF RepeatBegins, BeginRepeat, BenchbaseRepeat, HdbRepeat
<1>2. CASE HookRaises
  <2>1. step' = "raised"
    BY <1>2 DEF HookRaises, HookFails, BenchbaseHookFails, HdbHookFails, PostHookFails, Escapes
  <2> QED BY <2>1
<1>3. CASE BeginThread
  BY <1>3 DEF BeginThread, GatherOn
<1>4. CASE LoadBegins
  BY <1>4 DEF LoadBegins, BenchbaseThread, HdbThread, GatherOn
<1>5. CASE KillDone
  BY <1>5 DEF KillDone, Escapes, GatherOn, Gathered, AnyException
<1>6. CASE CleanupDone
  BY <1>6 DEF CleanupDone, GatherOn, Gathered, AnyException
<1>7. CASE WriteConfig
  BY <1>7 DEF WriteConfig
<1>8. CASE LoadDone
  BY <1>8 DEF LoadDone, RunDone, BenchbaseRunDone, HdbRunDone, Escapes, Gathered, AnyException
<1>9. CASE ParseSucceeds
  BY <1>9 DEF ParseSucceeds
<1>10. CASE ParseFails
  BY <1>10 DEF ParseFails, GatherOn
<1>11. CASE BenchbaseReceive
  <2>1. step = "bb_receive" /\ repeat' = repeat /\ (step' = "raised" \/ (step' = "bb_check" /\ saved' = saved))
    BY <1>11 DEF BenchbaseReceive, Escapes
  <2> QED BY <2>1
<1>12. CASE HdbReceive
  BY <1>12 DEF HdbReceive
<1>13. CASE BenchbaseCheck
  BY <1>13 DEF BenchbaseCheck, Escapes
<1>14. CASE RepeatSaved
  <2>1. /\ saved = 1..(repeat - 1)
        /\ saved' = saved \cup {repeat} \cup (IF repeat = Repeats THEN {SummaryFile} ELSE {})
        /\ \/ repeat < Repeats /\ repeat' = repeat + 1 /\ step' \in LoopSteps
           \/ repeat = Repeats /\ repeat' = repeat /\ step' = "returned"
    BY <1>14 DEF RepeatSaved, SaveRepeat, BenchbaseSave, HdbSave, RepeatDone
  <2>2. saved \cup {repeat} = 1..repeat
    BY <2>1
  <2>3. CASE repeat < Repeats
    BY <2>1, <2>2, <2>3
  <2>4. CASE repeat = Repeats
    <3>1. saved' = (1..Repeats) \cup {0} /\ step' = "returned"
      BY <2>1, <2>2, <2>4 DEF SummaryFile
    <3> QED BY <3>1
  <2> QED BY <2>1, <2>3, <2>4
<1>15. ASSUME NEW h \in drivers, KillsOn(h) PROVE SavedRepeats'
  <2>1. UNCHANGED runnerVars
    BY <1>15, KillsOnEffect
  <2> QED BY <2>1
<1>16. ASSUME NEW h \in drivers, LoadOn(h) PROVE SavedRepeats'
  <2>1. UNCHANGED runnerVars
    BY <1>16, LoadOnEffect
  <2> QED BY <2>1
<1>17. CASE RunEnds
  BY <1>17 DEF RunEnds
<1>18. CASE Prepare
  BY <1>18 DEF Prepare
<1>19. CASE Restore
  BY <1>19 DEF Restore
<1>20. CASE Run
  <2>1. saved' = {} /\ repeat' = 1
    BY <1>20 DEF Run
  <2> QED BY <1>20, <2>1, RunBegins
<1>21. CASE MinutePasses
  BY <1>21 DEF MinutePasses
<1>22. ASSUME NEW h \in Hosts, Orphan(h) PROVE SavedRepeats'
  BY <1>22 DEF Orphan, OrphanEnds
<1>23. CASE UNCHANGED vars
  BY <1>23 DEF vars
<1> QED
  BY NextCases, <1>1, <1>2, <1>3, <1>4, <1>5, <1>6, <1>7, <1>8, <1>9, <1>10, <1>11, <1>12, <1>13,
     <1>14, <1>15, <1>16, <1>17, <1>18, <1>19, <1>20, <1>21, <1>22, <1>23 DEF RunnerStep, OnDriver

\* As long as nothing is lost the summary has all rows of the repeats that are over.
LEMMA SummaryStep == WorkloadInv /\ [Next]_vars => SummarySoFar'
<1> SUFFICES ASSUME WorkloadInv, [Next]_vars PROVE SummarySoFar'
  OBVIOUS
<1> InRange /\ ResultsSoFar /\ SummarySoFar /\ drivers \in DriverSets /\ results \in
   [Concurrencies -> Nat] /\ ti \in 1..(Len(Threads) + 1) /\ repeat \in 1..Repeats /\ Repeats \in
   Nat /\ Repeats >= 1 /\ Len(Threads) \in Nat
  BY RunnerAssumption DEF WorkloadInv, TypeOK, RunnerTypeOK
<1>r. UNCHANGED <<benchmark, drivers, check>>
  BY Rigid
<1>f. \A n \in Nat : FullRows(n)' = FullRows(n)
  BY <1>r DEF FullRows, Row, NumDrivers
<1> USE <1>r, <1>f DEF SummarySoFar, LoopSteps, SysbenchSteps, BenchbaseSteps, HammerdbSteps,
   loopVars, fileVars, deployment, runVars, runnerVars, psshVars, workVars, benchVars
<1>1. CASE RepeatBegins
  BY <1>1 DEF RepeatBegins, BeginRepeat, BenchbaseRepeat, HdbRepeat
<1>2. CASE HookRaises
  <2>1. step' = "raised"
    BY <1>2 DEF HookRaises, HookFails, BenchbaseHookFails, HdbHookFails, PostHookFails, Escapes
  <2> QED BY <2>1
<1>3. CASE BeginThread
  BY <1>3 DEF BeginThread, GatherOn
<1>4. CASE LoadBegins
  BY <1>4 DEF LoadBegins, BenchbaseThread, HdbThread, GatherOn
<1>5. CASE KillDone
  BY <1>5 DEF KillDone, Escapes, GatherOn, Gathered, AnyException
<1>6. CASE CleanupDone
  BY <1>6 DEF CleanupDone, GatherOn, Gathered, AnyException
<1>7. CASE WriteConfig
  BY <1>7 DEF WriteConfig
<1>8. CASE LoadDone
  BY <1>8 DEF LoadDone, RunDone, BenchbaseRunDone, HdbRunDone, Escapes, Gathered, AnyException
<1>9. CASE ParseSucceeds
  BY <1>9 DEF ParseSucceeds
<1>10. CASE ParseFails
  BY <1>10 DEF ParseFails, GatherOn
<1>11. CASE BenchbaseReceive
  <2>1. lost => lost'
    BY <1>11, ReceiveEffect
  <2>2. step' \in {"raised", "bb_check"} /\ step = "bb_receive" /\ summary' = summary /\ repeat' = repeat
    BY <1>11 DEF BenchbaseReceive, Escapes
  <2>3. FullRows(repeat - 1)' = FullRows(repeat - 1)
    BY <2>2 DEF FullRows, Row, NumDrivers
  <2> QED BY <2>1, <2>2, <2>3
<1>12. CASE HdbReceive
  <2>1. lost => lost'
    BY <1>12, ReceiveEffect
  <2>2. step' \in {"raised", "hdb_thread"} /\ step = "hdb_receive" /\ summary' = summary /\ repeat' = repeat
    BY <1>12 DEF HdbReceive, Escapes
  <2>3. FullRows(repeat - 1)' = FullRows(repeat - 1)
    BY <2>2 DEF FullRows, Row, NumDrivers
  <2> QED BY <2>1, <2>2, <2>3
<1>13. CASE BenchbaseCheck
  BY <1>13 DEF BenchbaseCheck, Escapes
<1>14. CASE RepeatSaved
  <2> SUFFICES ASSUME ~lost' PROVE SummarySoFar'
    OBVIOUS
  <2>1. /\ lost' = lost /\ summary' = summary \cup RepeatRows /\ ti > Len(Threads)
        /\ step \in {"thread", "bb_thread", "hdb_thread"}
        /\ \/ repeat < Repeats /\ repeat' = repeat + 1 /\ step' \in LoopSteps
           \/ repeat = Repeats /\ repeat' = repeat /\ step' = "returned"
    BY <1>14 DEF RepeatSaved, SaveRepeat, BenchbaseSave, HdbSave, RepeatDone
  <2>2. \A i \in 1..Len(Threads) : results[PerDriver(Threads[i])] = NumDrivers
    BY <2>1 DEF ResultsSoFar, ThreadSteps, LoadSteps, Unmeasured
  <2>3. RepeatRows = {Row(repeat, i) : i \in 1..Len(Threads)}
    BY <2>2, RepeatRowsAll
  <2>4. summary = FullRows(repeat - 1)
    BY <2>1
  <2>5. repeat \in Nat /\ repeat >= 1
    OBVIOUS
  <2>6. FullRows(repeat) = FullRows(repeat - 1) \cup {Row(repeat, i) : i \in 1..Len(Threads)}
    BY <2>5, FullRowsNext
  <2>7. summary' = FullRows(repeat)
    BY <2>1, <2>3, <2>4, <2>6
  <2>8. CASE repeat < Repeats
    <3>1. repeat' = repeat + 1 /\ step' \in LoopSteps /\ repeat' - 1 = repeat /\ step' # "returned"
      BY <2>1, <2>5, <2>8
    <3>2. FullRows(repeat - 1)' = FullRows(repeat)
      BY <3>1, <2>5 DEF FullRows, Row, NumDrivers
    <3> QED BY <2>7, <3>1, <3>2
  <2>9. CASE repeat = Repeats
    BY <2>1, <2>7, <2>9
  <2> QED BY <2>1, <2>8, <2>9
<1>15. ASSUME NEW h \in drivers, KillsOn(h) PROVE SummarySoFar'
  BY <1>15, KillsOnEffect
<1>16. ASSUME NEW h \in drivers, LoadOn(h) PROVE SummarySoFar'
  BY <1>16, LoadOnEffect
<1>17. CASE RunEnds
  BY <1>17 DEF RunEnds
<1>18. CASE Prepare
  BY <1>18 DEF Prepare
<1>19. CASE Restore
  BY <1>19 DEF Restore
<1>20. CASE Run
  <2>1. summary' = {} /\ repeat' = 1 /\ repeat' - 1 = 0
    BY <1>20 DEF Run
  <2>2. FullRows(repeat - 1)' = {}
    <3>1. FullRows(repeat - 1)' = FullRows(0)
      BY <2>1 DEF FullRows, Row, NumDrivers
    <3> QED BY <3>1, FullRowsNone
  <2> QED BY <1>20, <2>1, <2>2, RunBegins
<1>21. CASE MinutePasses
  BY <1>21 DEF MinutePasses
<1>22. ASSUME NEW h \in Hosts, Orphan(h) PROVE SummarySoFar'
  BY <1>22 DEF Orphan, OrphanEnds
<1>23. CASE UNCHANGED vars
  BY <1>23 DEF vars
<1> QED
  BY NextCases, <1>1, <1>2, <1>3, <1>4, <1>5, <1>6, <1>7, <1>8, <1>9, <1>10, <1>11, <1>12, <1>13,
     <1>14, <1>15, <1>16, <1>17, <1>18, <1>19, <1>20, <1>21, <1>22, <1>23 DEF RunnerStep, OnDriver

\* Processes are counted with natural numbers.
LEMMA PsshTypeStep == WorkloadInv /\ [Next]_vars => PsshTypeOK'
<1> SUFFICES ASSUME WorkloadInv, [Next]_vars PROVE PsshTypeOK'
  OBVIOUS
<1> PsshTypeOK /\ TasksOnDrivers /\ drivers \in DriverSets
  BY DEF WorkloadInv, TypeOK, RunnerTypeOK
<1>1. ASSUME NEW hosts, GatherOn(hosts), copies' = copies PROVE PsshTypeOK'
  BY <1>1 DEF GatherOn, PsshTypeOK, TaskStates
<1>2. ASSUME UNCHANGED psshVars PROVE PsshTypeOK'
  BY <1>2 DEF psshVars, PsshTypeOK
<1>3. CASE OnDriver
  <2>1. ASSUME NEW h \in drivers, KillsOn(h) PROVE PsshTypeOK'
    BY <2>1, KillsOnEffect DEF PsshTypeOK, TaskStates
  <2>2. ASSUME NEW h \in drivers, LoadOn(h) PROVE PsshTypeOK'
    <3>1. HostStep(h) /\ h \in Hosts /\ (task[h] = "executing" => copies[h] >= 1)
      BY <2>2, LoadOnEffect, DriverFacts DEF TasksOnDrivers
    <3> QED BY <3>1, HostStepEffect
  <2> QED BY <1>3, <2>1, <2>2 DEF OnDriver
<1>4. CASE BeginThread \/ LoadBegins
  BY <1>1, <1>4 DEF BeginThread, LoadBegins, BenchbaseThread, HdbThread
<1>5. CASE KillDone
  BY <1>1, <1>2, <1>5 DEF KillDone, psshVars
<1>6. CASE CleanupDone
  BY <1>1, <1>2, <1>6 DEF CleanupDone, psshVars
<1>7. CASE ParseFails
  BY <1>1, <1>2, <1>7 DEF ParseFails, psshVars
<1>8. CASE RepeatBegins \/ HookRaises
  BY <1>2, <1>8 DEF RepeatBegins, HookRaises, BeginRepeat, BenchbaseRepeat, HdbRepeat, HookFails,
     BenchbaseHookFails, HdbHookFails, PostHookFails
<1>9. CASE WriteConfig \/ LoadDone \/ RepeatSaved
  BY <1>2, <1>9 DEF WriteConfig, LoadDone, RepeatSaved, RunDone, BenchbaseRunDone, HdbRunDone,
     SaveRepeat, BenchbaseSave, HdbSave
<1>10. CASE ParseSucceeds \/ BenchbaseReceive \/ HdbReceive \/ BenchbaseCheck
  BY <1>2, <1>10 DEF ParseSucceeds, BenchbaseReceive, HdbReceive, BenchbaseCheck
<1>11. CASE Run
  BY <1>1, <1>11 DEF Run
<1>12. CASE RunEnds \/ Prepare \/ Restore \/ MinutePasses \/ UNCHANGED vars
  BY <1>2, <1>12 DEF RunEnds, Prepare, Restore, MinutePasses, vars
<1>13. ASSUME NEW h \in Hosts, Orphan(h) PROVE PsshTypeOK'
  BY <1>13, OrphanEffect DEF TasksOnDrivers
<1> QED BY NextCases, <1>3, <1>4, <1>5, <1>6, <1>7, <1>8, <1>9, <1>10, <1>11, <1>12, <1>13
       DEF RunnerStep

\* The counters of the loops stay in their ranges.
Counters ==
    /\ repeat \in 1..Repeats /\ ti \in 1..(Len(Threads) + 1) /\ attempt \in 1..Attempts
    /\ step \in RunSteps \cup {"off"}

\* Every step keeps them there.
LEMMA CountersStep == WorkloadInv /\ [Next]_vars => Counters'
<1> SUFFICES ASSUME WorkloadInv, [Next]_vars PROVE Counters'
  OBVIOUS
<1> Counters /\ InRange /\ Len(Threads) \in Nat /\ Repeats \in Nat /\ Repeats >= 1 /\ Attempts \in
   Nat /\ Attempts >= 1
  BY RunnerAssumption DEF WorkloadInv, TypeOK, RunnerTypeOK, Counters
<1>r. UNCHANGED <<benchmark, drivers, check>>
  BY Rigid
<1> USE <1>r DEF Counters, RunSteps, SysbenchSteps, BenchbaseSteps, HammerdbSteps, loopVars,
   fileVars, deployment, runVars, runnerVars, psshVars, workVars, benchVars
<1>1. CASE RepeatBegins
  BY <1>1 DEF RepeatBegins, BeginRepeat, BenchbaseRepeat, HdbRepeat
<1>2. CASE HookRaises
  BY <1>2 DEF HookRaises, HookFails, BenchbaseHookFails, HdbHookFails, PostHookFails, Escapes
<1>3. CASE BeginThread
  BY <1>3 DEF BeginThread, GatherOn
<1>4. CASE LoadBegins
  BY <1>4 DEF LoadBegins, BenchbaseThread, HdbThread, GatherOn
<1>5. CASE KillDone
  BY <1>5 DEF KillDone, Escapes, GatherOn, Gathered, AnyException
<1>6. CASE CleanupDone
  BY <1>6 DEF CleanupDone, GatherOn, Gathered, AnyException
<1>7. CASE WriteConfig
  BY <1>7 DEF WriteConfig
<1>8. CASE LoadDone
  BY <1>8 DEF LoadDone, RunDone, BenchbaseRunDone, HdbRunDone, Escapes, Gathered, AnyException
<1>9. CASE ParseSucceeds
  BY <1>9 DEF ParseSucceeds, InRange, LoadSteps
<1>10. CASE ParseFails
  BY <1>10 DEF ParseFails, GatherOn
<1>11. CASE BenchbaseReceive
  BY <1>11 DEF BenchbaseReceive, Escapes
<1>12. CASE HdbReceive
  BY <1>12 DEF HdbReceive, InRange, LoadSteps
<1>13. CASE BenchbaseCheck
  BY <1>13 DEF BenchbaseCheck, Escapes, InRange, LoadSteps
<1>14. CASE RepeatSaved
  BY <1>14 DEF RepeatSaved, SaveRepeat, BenchbaseSave, HdbSave, RepeatDone
<1>15. ASSUME NEW h \in drivers, KillsOn(h) PROVE Counters'
  <2>1. UNCHANGED runnerVars
    BY <1>15, KillsOnEffect
  <2> QED BY <2>1
<1>16. ASSUME NEW h \in drivers, LoadOn(h) PROVE Counters'
  <2>1. UNCHANGED runnerVars
    BY <1>16, LoadOnEffect
  <2> QED BY <2>1
<1>17. CASE RunEnds
  BY <1>17 DEF RunEnds
<1>18. CASE Prepare
  BY <1>18 DEF Prepare
<1>19. CASE Restore
  BY <1>19 DEF Restore
<1>20. CASE Run
  <2>1. repeat' = 1 /\ ti' = 1 /\ attempt' = 1
    BY <1>20 DEF Run
  <2> QED BY <1>20, <2>1, RunBegins
<1>21. CASE MinutePasses
  BY <1>21 DEF MinutePasses
<1>22. ASSUME NEW h \in Hosts, Orphan(h) PROVE Counters'
  BY <1>22 DEF Orphan, OrphanEnds
<1>23. CASE UNCHANGED vars
  BY <1>23 DEF vars
<1> QED
  BY NextCases, <1>1, <1>2, <1>3, <1>4, <1>5, <1>6, <1>7, <1>8, <1>9, <1>10, <1>11, <1>12, <1>13,
     <1>14, <1>15, <1>16, <1>17, <1>18, <1>19, <1>20, <1>21, <1>22, <1>23 DEF RunnerStep, OnDriver

\* What is stored has the shape it should have.
Stored ==
    /\ results \in [Concurrencies -> Nat]
    /\ summary \in SUBSET Rows
    /\ saved \subseteq 0..Repeats
    /\ files \subseteq Figures

\* Rows of a repeat are rows.
LEMMA RepeatRowsTyped ==
    ASSUME drivers \in DriverSets, results \in [Concurrencies -> Nat], repeat \in 1..Repeats
    PROVE  RepeatRows \in SUBSET Rows
<1> SUFFICES ASSUME NEW c \in Concurrencies
             PROVE  [repeat |-> repeat, concurrency |-> NumDrivers * c, records |-> results[c]] \in Rows
  BY DEF RepeatRows
<1>1. NumDrivers * c \in Nat
  <2>1. PICK i \in 1..Len(Threads) : c = PerDriver(Threads[i])
    BY PerDriverFacts
  <2>2. NumDrivers * c = Threads[i]
    BY <2>1, PerDriverFacts
  <2> QED BY <2>2, RunnerAssumption
<1>2. results[c] \in Nat
  OBVIOUS
<1> QED BY <1>1, <1>2 DEF Rows

\* Every step stores what has that shape.
LEMMA StoredStep == WorkloadInv /\ [Next]_vars => Stored'
<1> SUFFICES ASSUME WorkloadInv, [Next]_vars PROVE Stored'
  OBVIOUS
<1> Stored /\ InRange /\ Len(Threads) \in Nat /\ Repeats \in Nat /\ Repeats >= 1 /\ Attempts \in
   Nat /\ Attempts >= 1 /\ repeat \in 1..Repeats /\ drivers \in DriverSets /\ ti \in
   1..(Len(Threads) + 1)
  BY RunnerAssumption DEF WorkloadInv, TypeOK, RunnerTypeOK, Stored
<1>r. UNCHANGED <<benchmark, drivers, check>>
  BY Rigid
<1>c. Concurrencies' = Concurrencies
  BY <1>r DEF Concurrencies, PerDriver, NumDrivers
<1>z. NoResults \in [Concurrencies -> Nat]
  BY DEF NoResults
<1>w. RepeatRows \in SUBSET Rows
  BY RepeatRowsTyped DEF Stored
<1> USE <1>r, <1>c, <1>z DEF Stored, SummaryFile, loopVars, fileVars, deployment, runVars,
   runnerVars, psshVars, workVars, benchVars
<1>1. CASE RepeatBegins
  BY <1>1 DEF RepeatBegins, BeginRepeat, BenchbaseRepeat, HdbRepeat
<1>2. CASE HookRaises
  <2>1. /\ results' = results /\ files' = files
        /\ summary' = summary /\ saved' \in {saved, saved \cup {0}}
    BY <1>2 DEF HookRaises, HookFails, BenchbaseHookFails, HdbHookFails, PostHookFails, Escapes
  <2> QED BY <2>1, <1>w
<1>3. CASE BeginThread
  BY <1>3 DEF BeginThread, GatherOn
<1>4. CASE LoadBegins
  BY <1>4 DEF LoadBegins, BenchbaseThread, HdbThread, GatherOn
<1>5. CASE KillDone
  BY <1>5 DEF KillDone, Escapes, GatherOn, Gathered, AnyException
<1>6. CASE CleanupDone
  BY <1>6 DEF CleanupDone, GatherOn, Gathered, AnyException
<1>7. CASE WriteConfig
  BY <1>7 DEF WriteConfig
<1>8. CASE LoadDone
  <2>1. /\ results' = results /\ files' = files
        /\ summary' = summary /\ saved' \in {saved, saved \cup {0}}
    BY <1>8 DEF LoadDone, RunDone, BenchbaseRunDone, HdbRunDone, Escapes
  <2> QED BY <2>1, <1>w
<1>9. CASE ParseSucceeds
  <2>1. ti \in 1..Len(Threads) /\ results' = Records(NumDrivers)
    BY <1>9 DEF ParseSucceeds, InRange, LoadSteps
  <2>2. results' \in [Concurrencies -> Nat]
    BY <2>1, DriverFacts, RecordsEffect
  <2> QED BY <1>9, <2>2 DEF ParseSucceeds
<1>10. CASE ParseFails
  BY <1>10 DEF ParseFails, GatherOn
<1>11. CASE BenchbaseReceive
  <2>1. files' \subseteq Figures
    BY <1>11, ReceiveEffect
  <2>2. results' \in [Concurrencies -> Nat]
    <3>1. results' = results \/ \E k \in 0..NumDrivers : results' = Records(k)
      BY <1>11, ReceiveEffect
    <3>2. ti \in 1..Len(Threads)
      BY <1>11 DEF BenchbaseReceive, InRange, LoadSteps
    <3>3. \A k \in 0..NumDrivers : k \in Nat
      BY DriverFacts
    <3>4. ASSUME NEW k \in 0..NumDrivers, results' = Records(k) PROVE results' \in [Concurrencies -> Nat]
      BY <3>2, <3>3, <3>4, RecordsEffect
    <3> QED BY <3>1, <3>4
  <2>3. summary' = summary /\ saved' \in {saved, saved \cup {SummaryFile}}
    BY <1>11 DEF BenchbaseReceive, Escapes
  <2> QED BY <2>1, <2>2, <2>3 DEF SummaryFile
<1>12. CASE HdbReceive
  <2>1. files' \subseteq Figures
    BY <1>12, ReceiveEffect
  <2>2. results' \in [Concurrencies -> Nat]
    <3>1. results' = results \/ \E k \in 0..NumDrivers : results' = Records(k)
      BY <1>12, ReceiveEffect
    <3>2. ti \in 1..Len(Threads)
      BY <1>12 DEF HdbReceive, InRange, LoadSteps
    <3>3. \A k \in 0..NumDrivers : k \in Nat
      BY DriverFacts
    <3>4. ASSUME NEW k \in 0..NumDrivers, results' = Records(k) PROVE results' \in [Concurrencies -> Nat]
      BY <3>2, <3>3, <3>4, RecordsEffect
    <3> QED BY <3>1, <3>4
  <2>3. summary' = summary /\ saved' \in {saved, saved \cup {SummaryFile}}
    BY <1>12 DEF HdbReceive, Escapes
  <2> QED BY <2>1, <2>2, <2>3 DEF SummaryFile
<1>13. CASE BenchbaseCheck
  <2>1. /\ results' = results /\ files' = files
        /\ summary' \in {summary, summary \cup RepeatRows}
        /\ saved' \in {saved, saved \cup {0}, saved \cup {repeat, 0}}
    BY <1>13 DEF BenchbaseCheck, Escapes
  <2> QED BY <2>1, <1>w
<1>14. CASE RepeatSaved
  <2>1. /\ results' = results /\ files' = files
        /\ summary' = summary \cup RepeatRows
        /\ saved' \in {saved \cup {repeat}, saved \cup {repeat} \cup {0}}
    BY <1>14 DEF RepeatSaved, SaveRepeat, BenchbaseSave, HdbSave, RepeatDone
  <2> QED BY <2>1, <1>w
<1>15. ASSUME NEW h \in drivers, KillsOn(h) PROVE Stored'
  <2>1. UNCHANGED <<runnerVars>>
    BY <1>15, KillsOnEffect
  <2> QED BY <2>1
<1>16. ASSUME NEW h \in drivers, LoadOn(h) PROVE Stored'
  <2>1. UNCHANGED <<runnerVars>>
    BY <1>16, LoadOnEffect
  <2> QED BY <2>1
<1>17. CASE RunEnds
  BY <1>17 DEF RunEnds
<1>18. CASE Prepare
  BY <1>18 DEF Prepare
<1>19. CASE Restore
  BY <1>19 DEF Restore
<1>20. CASE Run
  <2>1. results' = NoResults /\ summary' = {} /\ saved' = {} /\ files' \in {{}, files}
    BY <1>20 DEF Run
  <2> QED BY <2>1
<1>21. CASE MinutePasses
  BY <1>21 DEF MinutePasses
<1>22. ASSUME NEW h \in Hosts, Orphan(h) PROVE Stored'
  BY <1>22 DEF Orphan, OrphanEnds
<1>23. CASE UNCHANGED vars
  BY <1>23 DEF vars
<1> QED
  BY NextCases, <1>1, <1>2, <1>3, <1>4, <1>5, <1>6, <1>7, <1>8, <1>9, <1>10, <1>11, <1>12, <1>13,
     <1>14, <1>15, <1>16, <1>17, <1>18, <1>19, <1>20, <1>21, <1>22, <1>23 DEF RunnerStep, OnDriver

\* The flags stay flags.
LEMMA FlagsStep ==
    ASSUME WorkloadInv, [Next]_vars
    PROVE  later' \in BOOLEAN /\ lost' \in BOOLEAN /\ foreign' \in BOOLEAN /\ prepared' \in BOOLEAN
<1> later \in BOOLEAN /\ lost \in BOOLEAN /\ foreign \in BOOLEAN /\ prepared \in BOOLEAN
  BY DEF WorkloadInv, TypeOK, RunnerTypeOK
<1> USE DEF fileVars, runVars, runnerVars, workVars, benchVars, deployment
<1>1. foreign' \in BOOLEAN
  <2>1. CASE foreign' \in {FALSE, foreign}
    BY <2>1, Zenon
  <2>2. ASSUME NEW names, Collect(names) PROVE foreign' \in BOOLEAN
    <3>1. foreign' = (foreign \/ \E f \in Matching(names) : f.run # run)
      BY <2>2 DEF Collect
    <3> QED BY <3>1, Zenon
  <2>3. CASE BenchbaseReceive
    <3>1. Collect(files') \/ foreign' = foreign
      BY <2>3 DEF BenchbaseReceive
    <3> QED BY <3>1, <2>1, <2>2
  <2>4. CASE HdbReceive
    <3>1. Collect(files') \/ foreign' = foreign
      BY <2>4 DEF HdbReceive
    <3> QED BY <3>1, <2>1, <2>2
  <2>5. CASE RunnerStep /\ ~BenchbaseReceive /\ ~HdbReceive
    <3>1. CASE OnDriver
      BY <3>1, <2>1, KillsOnEffect, LoadOnEffect DEF OnDriver
    <3>2. CASE RepeatBegins \/ HookRaises \/ BeginThread \/ LoadBegins
      BY <3>2, <2>1 DEF RepeatBegins, HookRaises, LoadBegins, BeginRepeat, BenchbaseRepeat, HdbRepeat,
         HookFails, BenchbaseHookFails, HdbHookFails, PostHookFails, BeginThread, BenchbaseThread, HdbThread
    <3>3. CASE KillDone \/ CleanupDone \/ WriteConfig \/ LoadDone \/ RepeatSaved
      BY <3>3, <2>1 DEF KillDone, CleanupDone, WriteConfig, LoadDone, RepeatSaved, RunDone,
         BenchbaseRunDone, HdbRunDone, SaveRepeat, BenchbaseSave, HdbSave
    <3>4. CASE ParseSucceeds \/ ParseFails \/ BenchbaseCheck
      BY <3>4, <2>1 DEF ParseSucceeds, ParseFails, BenchbaseCheck
    <3> QED BY <2>5, <3>1, <3>2, <3>3, <3>4 DEF RunnerStep
  <2>6. CASE RunEnds \/ Prepare \/ Restore \/ Run \/ MinutePasses \/ UNCHANGED vars
    BY <2>6, <2>1 DEF RunEnds, Prepare, Restore, Run, MinutePasses, vars
  <2>7. CASE \E h \in Hosts : Orphan(h)
    BY <2>7, <2>1 DEF Orphan
  <2> QED BY NextCases, <2>3, <2>4, <2>5, <2>6, <2>7
<1>2. prepared' \in BOOLEAN
  <2>1. CASE Prepare
    BY <2>1 DEF Prepare
  <2>2. CASE Restore
    BY <2>2 DEF Restore
  <2>3. CASE prepared' = prepared
    BY <2>3, Zenon
  <2>4. \/ Prepare \/ Restore \/ prepared' = prepared
    <3>1. CASE RunEnds \/ Run \/ MinutePasses \/ UNCHANGED vars
      BY <3>1 DEF RunEnds, Run, MinutePasses, vars
    <3>2. CASE \E h \in Hosts : Orphan(h)
      BY <3>2 DEF Orphan
    <3> QED BY NextCases, <3>1, <3>2
  <2> QED BY <2>1, <2>2, <2>3, <2>4
<1>3. later' \in BOOLEAN
  <2>1. CASE BeginThread
    <3>1. later' = (later \/ repeat > 1 \/ ti > 1)
      BY <2>1 DEF BeginThread
    <3> QED BY <3>1, Zenon
  <2>2. CASE later' \in {TRUE, FALSE, later}
    BY <2>2, Zenon
  <2>3. CASE RunnerStep /\ ~BeginThread
    <3>1. CASE OnDriver
      BY <3>1, <2>2, KillsOnEffect, LoadOnEffect DEF OnDriver
    <3>2. CASE RepeatBegins \/ HookRaises \/ LoadBegins
      BY <3>2, <2>2 DEF RepeatBegins, HookRaises, LoadBegins, BeginRepeat, BenchbaseRepeat, HdbRepeat,
         HookFails, BenchbaseHookFails, HdbHookFails, PostHookFails, BenchbaseThread, HdbThread
    <3>3. CASE KillDone \/ CleanupDone \/ WriteConfig \/ LoadDone \/ RepeatSaved
      BY <3>3, <2>2 DEF KillDone, CleanupDone, WriteConfig, LoadDone, RepeatSaved, RunDone,
         BenchbaseRunDone, HdbRunDone, SaveRepeat, BenchbaseSave, HdbSave
    <3>4. CASE ParseSucceeds \/ ParseFails \/ BenchbaseReceive \/ HdbReceive \/ BenchbaseCheck
      BY <3>4, <2>2 DEF ParseSucceeds, ParseFails, BenchbaseReceive, HdbReceive, BenchbaseCheck
    <3> QED BY <2>3, <3>1, <3>2, <3>3, <3>4 DEF RunnerStep
  <2>4. CASE RunEnds \/ Prepare \/ Restore \/ Run \/ MinutePasses \/ UNCHANGED vars
    BY <2>4, <2>2 DEF RunEnds, Prepare, Restore, Run, MinutePasses, vars
  <2>5. CASE \E h \in Hosts : Orphan(h)
    BY <2>5, <2>2 DEF Orphan
  <2> QED BY NextCases, <2>1, <2>3, <2>4, <2>5
<1>4. lost' \in BOOLEAN
  <2>1. CASE lost' \in {TRUE, FALSE, lost}
    BY <2>1, Zenon
  <2>2. ASSUME NEW names, Collect(names) PROVE lost' \in BOOLEAN
    <3>1. lost' = (lost \/ \E h \in drivers : FiguresOf(h) \notin names)
      BY <2>2 DEF Collect
    <3> QED BY <3>1, Zenon
  <2>3. CASE BenchbaseReceive
    <3>1. Collect(files') \/ lost' = lost
      BY <2>3 DEF BenchbaseReceive
    <3> QED BY <3>1, <2>1, <2>2
  <2>4. CASE HdbReceive
    <3>1. Collect(files') \/ lost' = lost
      BY <2>4 DEF HdbReceive
    <3> QED BY <3>1, <2>1, <2>2
  <2>5. CASE RunnerStep /\ ~BenchbaseReceive /\ ~HdbReceive
    <3>1. CASE OnDriver
      BY <3>1, <2>1, KillsOnEffect, LoadOnEffect DEF OnDriver
    <3>2. CASE RepeatBegins \/ HookRaises \/ BeginThread \/ LoadBegins
      BY <3>2, <2>1 DEF RepeatBegins, HookRaises, LoadBegins, BeginRepeat, BenchbaseRepeat, HdbRepeat,
         HookFails, BenchbaseHookFails, HdbHookFails, PostHookFails, BeginThread, BenchbaseThread, HdbThread
    <3>3. CASE KillDone \/ CleanupDone \/ WriteConfig \/ LoadDone \/ RepeatSaved
      BY <3>3, <2>1 DEF KillDone, CleanupDone, WriteConfig, LoadDone, RepeatSaved, RunDone,
         BenchbaseRunDone, HdbRunDone, SaveRepeat, BenchbaseSave, HdbSave
    <3>4. CASE ParseSucceeds \/ ParseFails \/ BenchbaseCheck
      BY <3>4, <2>1 DEF ParseSucceeds, ParseFails, BenchbaseCheck
    <3> QED BY <2>5, <3>1, <3>2, <3>3, <3>4 DEF RunnerStep
  <2>6. CASE RunEnds \/ Prepare \/ Restore \/ Run \/ MinutePasses \/ UNCHANGED vars
    BY <2>6, <2>1 DEF RunEnds, Prepare, Restore, Run, MinutePasses, vars
  <2>7. CASE \E h \in Hosts : Orphan(h)
    BY <2>7, <2>1 DEF Orphan
  <2> QED BY NextCases, <2>3, <2>4, <2>5, <2>6, <2>7
<1> QED BY <1>1, <1>2, <1>3, <1>4

\* benchbase is built and configured on hosts only.
LEMMA BenchTypeStep == WorkloadInv /\ [Next]_vars => BenchTypeOK'
<1> SUFFICES ASSUME WorkloadInv, [Next]_vars PROVE BenchTypeOK'
  OBVIOUS
<1>1. BenchTypeOK /\ drivers \subseteq Hosts /\ HeadNode \in Hosts
  BY RunnerAssumption DEF WorkloadInv, TypeOK, RunnerTypeOK
<1>2. CASE Prepare
  <2>1. built' \in {built, built \cup {HeadNode}}
    BY <1>2 DEF Prepare, benchVars
  <2>2. SaveConfigData \/ config' = config
    BY <1>2 DEF Prepare, benchVars
  <2> QED BY <1>1, <2>1, <2>2 DEF BenchTypeOK, SaveConfigData
<1>3. CASE Restore
  <2>1. built' \in {built, built \cup {HeadNode}} /\ config' = config
    BY <1>3 DEF Restore
  <2> QED BY <1>1, <2>1 DEF BenchTypeOK
<1>4. CASE WriteConfig
  BY <1>1, <1>4 DEF WriteConfig, SaveConfigData, BenchTypeOK
<1>5. CASE UNCHANGED benchVars
  BY <1>1, <1>5 DEF benchVars, BenchTypeOK
<1>6. Prepare \/ Restore \/ WriteConfig \/ UNCHANGED benchVars
  <2>1. CASE BenchbaseStep
    <3>1. CASE \E h \in drivers : CleanupOnHost(h) \/ BenchbaseOnHost(h)
      BY <3>1 DEF CleanupOnHost, BenchbaseOnHost
    <3> QED BY <2>1, <3>1 DEF BenchbaseStep, CleanupDone, BenchbaseRepeat, BenchbaseHookFails,
         BenchbaseThread, BenchbaseRunDone, BenchbaseReceive, BenchbaseCheck, BenchbaseSave, PostHookFails
  <2>2. CASE \E h \in Hosts : Orphan(h)
    BY <2>2 DEF Orphan
  <2> QED BY <2>1, <2>2 DEF Next, Step, RunEnds, Run, MinutePasses, AllRunsDone, vars, benchVars
<1> QED BY <1>2, <1>3, <1>4, <1>5, <1>6

\* Only runs that were started are at work on a driver.
LEMMA ProfilesStep == WorkloadInv /\ [Next]_vars => ProfilesTypeOK'
<1> SUFFICES ASSUME WorkloadInv, [Next]_vars PROVE ProfilesTypeOK'
  OBVIOUS
<1>1. /\ profiles \in [Hosts -> SUBSET (1..MaxRuns)] /\ drivers \in DriverSets
      /\ run \in 0..MaxRuns /\ MaxRuns \in Nat /\ (step # "off" => run >= 1)
  BY RunnerAssumption DEF WorkloadInv, TypeOK, RunnerTypeOK, ProfilesTypeOK, InRange
<1>2. CASE profiles' = profiles
  BY <1>1, <1>2 DEF ProfilesTypeOK
<1>3. ASSUME NEW h \in drivers, HdbOnHost(h) PROVE ProfilesTypeOK'
  <2>1. h \in Hosts /\ run \in 1..MaxRuns
    BY <1>1, <1>3, DriverFacts DEF HdbOnHost
  <2>2. profiles' \in {profiles, [profiles EXCEPT ![h] = @ \cup {run}]}
    BY <1>3 DEF HdbOnHost
  <2> QED BY <1>1, <2>1, <2>2 DEF ProfilesTypeOK
<1>4. ASSUME NEW h \in Hosts, Orphan(h) PROVE ProfilesTypeOK'
  <2>1. \/ profiles' = profiles
        \/ \E r \in profiles[h] : profiles' = [profiles EXCEPT ![h] = @ \ {r}]
    BY <1>4 DEF Orphan
  <2> QED BY <1>1, <2>1 DEF ProfilesTypeOK
<1>5. CASE HammerdbStep
  BY <1>2, <1>3, <1>5 DEF HammerdbStep
<1>6. CASE RunEnds \/ Prepare \/ Restore \/ Run \/ MinutePasses \/ AllRunsDone \/ UNCHANGED vars
  BY <1>2, <1>6 DEF RunEnds, Prepare, Restore, Run, MinutePasses, AllRunsDone, vars
<1> QED BY <1>2, <1>4, <1>5, <1>6 DEF Next, Step

\* The type invariant is preserved.
LEMMA TypeStep == WorkloadInv /\ [Next]_vars => TypeOK'
<1> SUFFICES ASSUME WorkloadInv, [Next]_vars PROVE TypeOK'
  OBVIOUS
<1> TypeOK
  BY DEF WorkloadInv
<1>1. benchmark' \in Benchmarks /\ drivers' \in DriverSets /\ check' \in Checks[benchmark']
  BY Rigid DEF TypeOK, RunnerTypeOK
<1>2. PsshTypeOK' /\ Counters' /\ Stored' /\ BenchTypeOK' /\ ProfilesTypeOK'
  BY PsshTypeStep, CountersStep, StoredStep, BenchTypeStep, ProfilesStep
<1>t. Tables' = Tables
  BY Rigid DEF Tables
<1>3. run' \in 0..MaxRuns /\ data' \in Tables' /\ stopped' \subseteq 1..MaxRuns
  <2> USE DEF runVars, runnerVars, workVars, deployment
  <2>1. run \in 0..MaxRuns /\ MaxRuns \in Nat /\ data \in Tables /\ Tables' = Tables
        /\ stopped \subseteq 1..MaxRuns /\ (step # "off" => run >= 1)
    BY <1>t, RunnerAssumption DEF TypeOK, RunnerTypeOK, WorkloadInv, InRange
  <2>2. CASE RunnerStep /\ UNCHANGED workVars
    BY <2>1, <2>2, RunnerFrame
  <2>3. CASE RunEnds
    <3>1. run' = run /\ data' = data /\ run >= 1 /\ stopped' \in {stopped, stopped \cup {run}}
      BY <2>1, <2>3 DEF RunEnds
    <3> QED BY <2>1, <3>1
  <2>4. CASE Run
    <3>1. run' = run + 1 /\ run < MaxRuns /\ data' = data /\ stopped' = stopped
      BY <2>4 DEF Run
    <3> QED BY <2>1, <3>1
  <2>7. CASE MinutePasses \/ UNCHANGED vars
    <3>1. run' = run /\ data' = data /\ stopped' = stopped
      BY <2>7 DEF MinutePasses, vars
    <3> QED BY <2>1, <3>1
  <2>5. CASE Prepare \/ Restore
    <3>1. run' = run /\ stopped' = stopped /\ data' \in Tables
      BY <2>1, <2>5 DEF Prepare, Restore
    <3> QED BY <2>1, <3>1
  <2>6. CASE \E h \in Hosts : Orphan(h)
    BY <2>1, <2>6 DEF Orphan
  <2> QED BY NextCases, <2>2, <2>3, <2>4, <2>5, <2>6, <2>7
<1>4. {later', lost', foreign'} \subseteq BOOLEAN /\ prepared' \in BOOLEAN
  <2>1. later' \in BOOLEAN /\ lost' \in BOOLEAN /\ foreign' \in BOOLEAN /\ prepared' \in BOOLEAN
    BY FlagsStep
  <2> QED BY <2>1, Zenon
<1>5. RunnerTypeOK'
  BY <1>1, <1>2, <1>3, <1>4 DEF RunnerTypeOK, Counters, Stored
<1> QED BY <1>2, <1>3, <1>4, <1>5 DEF TypeOK, Counters

(***************************************************************************)
(* The theorems                                                            *)
(***************************************************************************)
\* Before the first run the invariant holds.
LEMMA WorkloadInit == Init => WorkloadInv
<1> SUFFICES ASSUME Init PROVE WorkloadInv
  OBVIOUS
<1> USE DEF Init, RunnerInit, BenchInit, ProfilesInit, PsshInit
<1>1. /\ Len(Threads) \in Nat /\ Repeats \in Nat /\ Repeats >= 1 /\ Attempts \in Nat /\ Attempts >= 1
      /\ MaxRuns \in Nat
  BY RunnerAssumption
<1>2. {later, lost, foreign} \subseteq BOOLEAN /\ prepared \in BOOLEAN
  BY Zenon
<1>3. results \in [Concurrencies -> Nat]
  BY DEF NoResults
<1>4. TypeOK
  BY <1>1, <1>2, <1>3 DEF TypeOK, RunnerTypeOK, BenchTypeOK, ProfilesTypeOK, PsshTypeOK, TaskStates,
     Tables
<1>5. InRange /\ TasksOnDrivers /\ KillLeavesNone /\ LoadIsAlone /\ FilesAreOwn /\ ResultsSoFar
  BY DEF InRange, LoadSteps, HammerdbSteps, BenchbaseSteps, TasksOnDrivers, KillLeavesNone,
     LoadIsAlone, FilesAreOwn, OfDrivers, ResultsSoFar, ThreadSteps
<1>6. RowsAreWhole /\ SavedRepeats /\ SummarySoFar /\ StoppedAreOver /\ StopIsLast /\ DataAreChecked
  BY DEF RowsAreWhole, SavedRepeats, SummarySoFar, LoopSteps, SysbenchSteps, BenchbaseSteps,
     HammerdbSteps, StoppedAreOver, StopIsLast, DataAreChecked
<1> QED BY <1>4, <1>5, <1>6 DEF WorkloadInv

\* Every step preserves it.
LEMMA WorkloadStep == WorkloadInv /\ [Next]_vars => WorkloadInv'
BY TypeStep, InRangeStep, TasksStep, KillStep, LoadStep, FilesStep, ResultsStep, RowsStep, SavedStep,
   SummaryStep, StoppedStep, StopStep, DataStep DEF WorkloadInv

\* It holds throughout.
LEMMA WorkloadAlways == Spec => []WorkloadInv
BY WorkloadInit, WorkloadStep, PTL DEF Spec

\* Counters, files and rows stay within their types: no attempt, repeat or
\* concurrency beyond those asked for, and no negative number of processes.
THEOREM WorkloadTyped == Spec => []TypeOK
<1>1. WorkloadInv => TypeOK
  BY DEF WorkloadInv
<1> QED BY <1>1, WorkloadAlways, PTL

\* While sysbench or benchbase measures a load, no driver is at work on another.
THEOREM WorkloadOneLoad == Spec => []OneLoadPerDriver
<1>1. WorkloadInv => OneLoadPerDriver
  <2> SUFFICES ASSUME WorkloadInv, step \in {"run", "bb_run"}, NEW h \in Hosts PROVE copies[h] <= 1
    BY DEF OneLoadPerDriver
  <2> QED BY DEF WorkloadInv, LoadIsAlone, TasksOnDrivers
<1> QED BY <1>1, WorkloadAlways, PTL

\* Every row adds up one record of each driver, unless figures were lost.
THEOREM WorkloadRowsWhole == Spec => []RowsAreWhole
<1>1. WorkloadInv => RowsAreWhole
  BY DEF WorkloadInv
<1> QED BY <1>1, WorkloadAlways, PTL

\* No run of benchbase reads figures of another one that shares its directory.
THEOREM WorkloadRowsOwn == Spec => []RowsAreOwn
<1>1. WorkloadInv => RowsAreOwn
  BY DEF WorkloadInv, FilesAreOwn, RowsAreOwn
<1> QED BY <1>1, WorkloadAlways, PTL

\* A stop file means that everything was measured and saved, on data that are
\* whole where the workload has an exact check, and nearly where it is tpcc.
THEOREM WorkloadStopComplete == Spec => []StopMeansComplete
<1>1. WorkloadInv => StopMeansComplete
  <2> SUFFICES ASSUME WorkloadInv, run \in stopped
               PROVE  /\ saved = 0..Repeats
                      /\ ~lost => Cardinality(summary) = Repeats * Len(Threads)
                      /\ prepared /\ check = "exact" => data = "whole"
                      /\ prepared /\ check = "nearly" => data \in {"nearly", "whole"}
    BY DEF StopMeansComplete
  <2>1. saved = 0..Repeats /\ (~lost => summary = FullRows(Repeats))
    BY DEF WorkloadInv, StopIsLast
  <2>2. Cardinality(FullRows(Repeats)) = Repeats * Len(Threads)
    BY FullRowsCount, RunnerAssumption
  <2>3. /\ prepared /\ check = "exact" => data = "whole"
        /\ prepared /\ check = "nearly" => data \in {"nearly", "whole"}
    BY DEF WorkloadInv, DataAreChecked, DataCheck, Accepted
  <2> QED BY <2>1, <2>2, <2>3
<1> QED BY <1>1, WorkloadAlways, PTL
=============================================================================
