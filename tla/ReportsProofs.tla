--------------------------- MODULE ReportsProofs ---------------------------
(***************************************************************************)
(* Proofs about Reports, for any horizon, any number of rebuilds and any   *)
(* number of failures.                                                     *)
(***************************************************************************)
EXTENDS Reports, FiniteSetTheorems, TLAPS

-----------------------------------------------------------------------------
(* The inductive invariant *)

\* Rebuilds are numbered in order, and a request under way leaves room for one.
Numbered ==
    \E n \in 0..MaxRebuilds : /\ DOMAIN jobs = 1..n
                              /\ asked # NoTime => n < MaxRebuilds

\* Versions belong to initialize or to a job; the index report_one_running_job.
OneBuild ==
    /\ DOMAIN days \subseteq {0} \cup DOMAIN jobs
    /\ \A u, v \in DOMAIN jobs : Unfinished(u) /\ Unfinished(v) => u = v

\* A build starts no later than the published report and stays in its range.
Ranges ==
    /\ \A d \in days[state.active] : state.earliest <= d
    /\ \A v \in DOMAIN jobs :
          /\ jobs[v].total = TotalDays(jobs[v].from, jobs[v].to)
          /\ Unfinished(v) =>
                /\ jobs[v].from <= state.earliest
                /\ v \in DOMAIN days => days[v] \subseteq jobs[v].from..jobs[v].to

\* What the local variables of step say of the tables, although the HTTP thread
\* has run since they were read.
AtWork ==
    /\ worker.pc \in {"mark", "settle", "publish", "fail"} =>
          Unfinished(worker.version)
    /\ worker.pc \in {"settle", "publish"} => jobs[worker.version].status = "RUNNING"
    /\ worker.pc = "settle" =>
          worker.day \in jobs[worker.version].from..jobs[worker.version].to
    /\ worker.pc = "publish" /\ VersionExists =>
          jobs[worker.version].from..jobs[worker.version].to \subseteq days[worker.version]
    /\ worker.pc = "choose" =>
          /\ worker.now \in Times
          /\ \A v \in DOMAIN days : Unfinished(v) => days[v] = {}
    /\ worker.pc = "sweep" =>
          /\ worker.version \in DOMAIN days
          /\ worker.version # state.active
          /\ Unfinished(worker.version) => days[worker.version] = {}
    /\ worker.pc = "catchup" =>
          /\ worker.version = state.active
          /\ worker.day \in Dates
          /\ state.earliest <= worker.day

ReportsInv ==
    /\ TypeOK
    /\ Numbered
    /\ OneBuild
    /\ Ranges
    /\ PublishedComplete
    /\ ProgressExact
    /\ AtWork

-----------------------------------------------------------------------------
(* Dates *)

LEMMA DateFacts ==
    /\ \A t \in Times : ReportDate(t) \in Dates
    /\ \A t \in Times : LatestReportDate(t) \in -2..ReportDate(MaxTime)
    /\ \A t \in Times : LatestReportDate(t) < ReportDate(t)
    /\ ReportDate(MaxTime) \in Nat
    /\ Dates \subseteq Nat
BY BoundAssumption DEF Times, ReportDate, LatestReportDate, Dates

LEMMA HistoryStartFacts ==
    ASSUME TypeOK, NEW t \in Times, NEW e \in Dates
    PROVE  HistoryStart(t, e) \in Dates /\ HistoryStart(t, e) <= e
BY DateFacts DEF TypeOK, HistoryStart, Lesser, NoRows, Dates

LEMMA RangeOfDates ==
    ASSUME NEW a \in Dates, NEW b \in -2..ReportDate(MaxTime)
    PROVE  /\ a..b \subseteq Dates
           /\ IsFiniteSet(a..b)
           /\ Cardinality(a..b) = TotalDays(a, b)
<1>1. a \in Int /\ b \in Int /\ ReportDate(MaxTime) \in Nat
    BY DateFacts DEF Dates
<1>2. IsFiniteSet(a..b) /\ Cardinality(a..b) = IF a > b THEN 0 ELSE b - a + 1
    BY <1>1, FS_Interval
<1> QED
    BY <1>1, <1>2 DEF Dates, TotalDays

LEMMA DatesFinite ==
    ASSUME NEW S \in SUBSET Dates
    PROVE  IsFiniteSet(S) /\ Cardinality(S) \in Nat
<1>1. IsFiniteSet(Dates)
    BY DateFacts, FS_Interval DEF Dates
<1> QED
    BY <1>1, FS_Subset, FS_CardinalityType

-----------------------------------------------------------------------------
(* Initially *)

LEMMA InitInv == Init => ReportsInv
<1> SUFFICES ASSUME Init PROVE ReportsInv
    OBVIOUS
<1> USE DEF Init
<1>1. TypeOK
    <2>1. ReportDate(clock) \in Dates /\ oldest \in Dates \cup {NoRows}
        BY DateFacts DEF Dates
    <2>2. HistoryStart(clock, ReportDate(clock)) \in Dates
        BY <2>1, DateFacts DEF HistoryStart, Lesser, NoRows, Dates
    <2>3. worker.pc = "down" /\ worker.version = NoVersion
          /\ worker.day = NoDate /\ worker.now = NoTime
        BY DEF Down
    <2> QED
        BY <2>1, <2>2, <2>3, BoundAssumption
        DEF TypeOK, Versions, Down
<1>2. DOMAIN jobs = 1..0 /\ DOMAIN jobs = {}
    OBVIOUS
<1>3. Numbered
    BY <1>2, BoundAssumption DEF Numbered
<1>4. OneBuild /\ Ranges /\ PublishedComplete /\ ProgressExact
    BY <1>2 DEF OneBuild, Ranges, PublishedComplete, ProgressExact, Unfinished
<1>5. AtWork
    BY DEF AtWork, Down
<1> QED
    BY <1>1, <1>3, <1>4, <1>5 DEF ReportsInv

-----------------------------------------------------------------------------
(* Steps that leave the tables alone *)

\* Without a change of the tables, only the types and AtWork are at stake.
LEMMA TablesKept ==
    ASSUME ReportsInv, UNCHANGED tables, TypeOK',
           asked' # NoTime => asked' = asked \/ Cardinality(DOMAIN jobs) < MaxRebuilds,
           AtWork'
    PROVE  ReportsInv'
<1> USE DEF ReportsInv, tables
<1>1. Numbered'
    <2>1. PICK n \in 0..MaxRebuilds :
              DOMAIN jobs = 1..n /\ (asked # NoTime => n < MaxRebuilds)
        BY DEF Numbered
    <2>2. Cardinality(1..n) = n
        BY FS_Interval, BoundAssumption
    <2> QED
        BY <2>1, <2>2 DEF Numbered
<1>2. OneBuild' /\ Ranges' /\ PublishedComplete' /\ ProgressExact'
    BY DEF OneBuild, Ranges, PublishedComplete, ProgressExact, Unfinished
<1> QED
    BY <1>1, <1>2

LEMMA EnvironmentKeeps ==
    ASSUME ReportsInv, Tick \/ FirstRow \/ AskRebuild
    PROVE  ReportsInv'
<1> USE DEF ReportsInv
<1>1. UNCHANGED <<tables, worker>>
    BY DEF Tick, FirstRow, AskRebuild
<1>2. TypeOK'
    BY DateFacts, BoundAssumption, <1>1
    DEF TypeOK, Tick, FirstRow, AskRebuild, Times, tables
<1>3. AtWork'
    BY <1>1 DEF AtWork, tables, Unfinished, VersionExists
<1>4. asked' # NoTime => asked' = asked \/ Cardinality(DOMAIN jobs) < MaxRebuilds
    BY DEF Tick, FirstRow, AskRebuild
<1> QED
    BY <1>1, <1>2, <1>3, <1>4, TablesKept DEF tables

\* Where step goes without having written anything.
LEMMA WorkerMoves ==
    ASSUME ReportsInv, UNCHANGED <<clock, oldest, tables>>,
           asked' \in {asked, NoTime}, faults' \in 0..MaxFaults,
           \/ StartWorker \/ LookForJob \/ VersionGone \/ ChooseWork
           \/ worker' \in {Idle, Down}
           \/ Rebuilding /\ worker' = Go("fail", worker.version, NoDate)
    PROVE  ReportsInv'
<1> USE DEF ReportsInv
<1> DEFINE due == Missing(state.active, state.earliest, LatestReportDate(worker.now))
<1>1. CASE StartWorker \/ worker' \in {Idle, Down}
    <2>1. worker' \in {Idle, Down}
        BY <1>1 DEF StartWorker
    <2>2. TypeOK'
        BY <2>1 DEF TypeOK, tables, Idle, Down
    <2>3. AtWork'
        BY <2>1 DEF AtWork, Idle, Down
    <2> QED
        BY <2>2, <2>3, TablesKept
<1>2. CASE LookForJob /\ ActiveJobs = {}
    <2>1. worker' = [pc |-> "choose", version |-> NoVersion,
                     day |-> NoDate, now |-> clock]
        BY <1>2 DEF LookForJob, Go, Idle, Down
    <2>2. TypeOK'
        BY <2>1 DEF TypeOK, tables
    <2>3. AtWork'
        BY <1>2, <2>1 DEF AtWork, tables, ActiveJobs, Unfinished, TypeOK
    <2> QED
        BY <2>2, <2>3, TablesKept
<1>3. CASE LookForJob /\ ActiveJobs # {}
    <2>1. PICK v \in ActiveJobs :
              worker' = [pc |-> "mark", version |-> v, day |-> NoDate, now |-> NoTime]
        BY <1>3 DEF LookForJob, Go, Idle, Down
    <2>2. v \in Versions /\ Unfinished(v)
        BY DEF ActiveJobs, Unfinished, TypeOK
    <2>3. TypeOK'
        BY <2>1, <2>2 DEF TypeOK, tables
    <2>4. AtWork'
        BY <2>1, <2>2 DEF AtWork, tables, Unfinished
    <2> QED
        BY <2>3, <2>4, TablesKept
<1>4. CASE VersionGone \/ (Rebuilding /\ worker' = Go("fail", worker.version, NoDate))
    <2>1. worker' = [pc |-> "fail", version |-> worker.version,
                     day |-> NoDate, now |-> NoTime]
        BY <1>4 DEF VersionGone, Go, Idle, Down
    <2>2. Unfinished(worker.version)
        BY <1>4 DEF VersionGone, Rebuilding, At, AtWork
    <2>3. TypeOK'
        BY <2>1 DEF TypeOK, tables
    <2>4. AtWork'
        BY <2>1, <2>2 DEF AtWork, tables, Unfinished
    <2> QED
        BY <2>3, <2>4, TablesKept
<1>5. CASE ChooseWork
    <2>0. /\ worker.pc = "choose" /\ worker.now \in Times
          /\ \A v \in DOMAIN days : Unfinished(v) => days[v] = {}
        BY <1>5 DEF ChooseWork, At, AtWork
    <2>1. CASE \E v \in Obsolete : worker' = Go("sweep", v, NoDate)
        <3>1. PICK v \in Obsolete :
                  worker' = [pc |-> "sweep", version |-> v, day |-> NoDate, now |-> NoTime]
            BY <2>1 DEF Go, Idle, Down
        <3>2. v \in DOMAIN days /\ v # state.active /\ v \in Versions
            BY DEF Obsolete, TypeOK
        <3>3. TypeOK'
            BY <3>1, <3>2 DEF TypeOK, tables
        <3>4. AtWork'
            BY <3>1, <3>2, <2>0 DEF AtWork, tables, Unfinished
        <3> QED
            BY <3>3, <3>4, TablesKept
    <2>2. CASE worker' = Idle
        BY <2>2, <1>1
    <2>3. CASE \E d \in due : worker' = Go("catchup", state.active, d)
        <3>1. PICK d \in due :
                  worker' = [pc |-> "catchup", version |-> state.active,
                             day |-> d, now |-> NoTime]
            BY <2>3 DEF Go, Idle, Down
        <3>2. d \in state.earliest..LatestReportDate(worker.now)
            BY DEF Missing
        <3>3. state.earliest \in Dates /\ state.active \in Versions
            BY DEF TypeOK
        <3>4. d \in Dates /\ state.earliest <= d
            BY <3>2, <3>3, <2>0, DateFacts, RangeOfDates DEF Dates
        <3>5. TypeOK'
            BY <3>1, <3>3, <3>4 DEF TypeOK, tables
        <3>6. AtWork'
            BY <3>1, <3>4 DEF AtWork, tables
        <3> QED
            BY <3>5, <3>6, TablesKept
    <2> QED
        BY <1>5, <2>1, <2>2, <2>3 DEF ChooseWork
<1> QED
    BY <1>1, <1>2, <1>3, <1>4, <1>5

-----------------------------------------------------------------------------
(* Steps that write the tables *)

\* The version a request creates is new.
LEMMA NewVersion ==
    ASSUME ReportsInv, asked # NoTime,
           NEW v, v = Cardinality(DOMAIN jobs) + 1
    PROVE  /\ v \in Versions \ {0} /\ v \notin DOMAIN jobs /\ v \notin DOMAIN days
           /\ DOMAIN jobs = 1..(v - 1) /\ v \in 0..MaxRebuilds
<1>1. PICK n \in 0..MaxRebuilds : DOMAIN jobs = 1..n /\ n < MaxRebuilds
    BY DEF ReportsInv, Numbered
<1>2. Cardinality(1..n) = n
    BY FS_Interval, BoundAssumption
<1> QED
    BY <1>1, <1>2, BoundAssumption DEF Versions, OneBuild, ReportsInv

LEMMA RequestKeeps ==
    ASSUME ReportsInv, RequestRebuild
    PROVE  ReportsInv'
<1> USE DEF ReportsInv, RequestRebuild
<1>1. CASE ActiveJobs # {}
    <2>1. TypeOK' /\ AtWork' /\ UNCHANGED tables
        BY <1>1 DEF TypeOK, AtWork, tables, Unfinished, VersionExists
    <2> QED
        BY <2>1, TablesKept
<1>2. CASE ActiveJobs = {}
    <2> DEFINE v == Cardinality(DOMAIN jobs) + 1
               from == HistoryStart(asked, state.earliest)
               to == LatestReportDate(asked)
    <2>3. /\ v \in Versions \ {0} /\ v \notin DOMAIN jobs /\ v \notin DOMAIN days
          /\ DOMAIN jobs = 1..(v - 1) /\ v \in 0..MaxRebuilds
        BY NewVersion
    <2>4. asked \in Times /\ state.earliest \in Dates
        BY DEF TypeOK
    <2>5. /\ from \in Dates /\ from <= state.earliest
          /\ to \in -2..ReportDate(MaxTime)
        BY <2>4, HistoryStartFacts, DateFacts
    <2>6. TotalDays(from, to) \in Nat
        BY <2>5, DateFacts DEF TotalDays, Dates
    <2> HIDE DEF from, to
    <2> DEFINE row == NewJob(from, to)
    <2>7. /\ row \in Job /\ row.status = "QUEUED" /\ row.completed = 0
          /\ row.from = from /\ row.to = to /\ row.total = TotalDays(from, to)
        BY <2>5, <2>6 DEF NewJob, Job
    <2>8. /\ DOMAIN days' = DOMAIN days \cup {v} /\ days'[v] = {}
          /\ \A u \in DOMAIN days : days'[u] = days[u]
          /\ DOMAIN jobs' = DOMAIN jobs \cup {v} /\ jobs'[v] = row
          /\ \A u \in DOMAIN jobs : jobs'[u] = jobs[u]
        BY <1>2, <2>3 DEF from, to
    <2>9. state' = state /\ worker' = worker /\ asked' = NoTime
        OBVIOUS
    <2> HIDE DEF RequestRebuild, row, v
    <2>10. TypeOK'
        <3>1. UNCHANGED <<clock, oldest, state, worker, faults>> /\ asked' = NoTime
            BY DEF RequestRebuild
        <3> QED
            BY <3>1, <2>3, <2>7, <2>8 DEF TypeOK
    <2>11. Numbered'
        <3>1. DOMAIN jobs' = 1..v /\ v \in 0..MaxRebuilds
            BY <2>3, <2>8, BoundAssumption
        <3> QED
            BY <3>1, <2>9 DEF Numbered
    <2>12. \A u \in DOMAIN jobs : ~Unfinished(u)
        BY <1>2 DEF ActiveJobs, Unfinished
    <2>13. \A u : Unfinished(u)' => u = v
        BY <2>8, <2>12 DEF Unfinished
    <2>14. OneBuild'
        BY <2>8, <2>13 DEF OneBuild
    <2>15. state.active \in DOMAIN days /\ state.active # v
        BY <2>3 DEF PublishedComplete
    <2>16. Ranges'
        <3>1. \A d \in days'[state'.active] : state'.earliest <= d
            BY <2>8, <2>9, <2>15 DEF Ranges
        <3>2. ASSUME NEW u \in DOMAIN jobs'
              PROVE  /\ jobs'[u].total = TotalDays(jobs'[u].from, jobs'[u].to)
                     /\ Unfinished(u)' =>
                           /\ jobs'[u].from <= state'.earliest
                           /\ u \in DOMAIN days' =>
                                 days'[u] \subseteq jobs'[u].from..jobs'[u].to
            BY <2>5, <2>7, <2>8, <2>9, <2>13 DEF Ranges, TotalDays
        <3> QED
            BY <3>1, <3>2 DEF Ranges, TotalDays
    <2>17. PublishedComplete'
        BY <2>8, <2>9, <2>15 DEF PublishedComplete
    <2>18. ProgressExact'
        <3>1. Cardinality(days'[v]) = 0
            BY <2>8, FS_EmptySet
        <3> QED
            BY <3>1, <2>7, <2>8, <2>13 DEF ProgressExact, Unfinished
    <2>19. AtWork'
        <3>1. worker.pc \in {"mark", "settle", "publish", "fail"} => FALSE
            BY <2>12 DEF AtWork, Unfinished
        <3>2. worker.pc = "sweep" => worker.version # v
            BY <2>3 DEF AtWork
        <3> QED
            BY <3>1, <3>2, <2>8, <2>9, <2>13 DEF AtWork
    <2> QED
        BY <2>10, <2>11, <2>14, <2>16, <2>17, <2>18, <2>19
<1> QED
    BY <1>1, <1>2

\* A step of the worker that gives the build's row another status.
LEMMA StatusChangeKeeps ==
    ASSUME ReportsInv, UNCHANGED <<clock, oldest, days, state, asked, faults>>,
           NEW v, Unfinished(v),
           NEW s \in {"RUNNING", "FAILED"},
           jobs' = [jobs EXCEPT ![v].status = s],
           TypeOK', AtWork'
    PROVE  ReportsInv'
<1> USE DEF ReportsInv
<1>1. /\ v \in DOMAIN jobs /\ DOMAIN jobs' = DOMAIN jobs
      /\ \A u \in DOMAIN jobs :
            /\ jobs'[u].from = jobs[u].from /\ jobs'[u].to = jobs[u].to
            /\ jobs'[u].total = jobs[u].total
            /\ jobs'[u].completed = jobs[u].completed
      /\ \A u \in DOMAIN jobs \ {v} : jobs'[u] = jobs[u]
      /\ jobs'[v].status = s
    BY DEF Unfinished, TypeOK, Job
<1>2. \A u : Unfinished(u)' => Unfinished(u)
    BY <1>1 DEF Unfinished
<1>3. Numbered'
    BY <1>1 DEF Numbered
<1>4. OneBuild'
    BY <1>1, <1>2 DEF OneBuild
<1>5. Ranges'
    BY <1>1, <1>2 DEF Ranges, TotalDays
<1>6. state.active \in DOMAIN jobs => state.active # v
    BY DEF PublishedComplete, Unfinished
<1>7. PublishedComplete'
    BY <1>1, <1>6 DEF PublishedComplete
<1>8. ProgressExact'
    BY <1>1, <1>2 DEF ProgressExact
<1> QED
    BY <1>3, <1>4, <1>5, <1>7, <1>8

LEMMA MarkRunningKeeps ==
    ASSUME ReportsInv, MarkRunning
    PROVE  ReportsInv'
<1> USE DEF ReportsInv
<1> DEFINE v == worker.version
           missing == Missing(v, jobs[v].from, jobs[v].to)
<1>1. /\ Unfinished(v) /\ v \in DOMAIN jobs /\ jobs[v] \in Job /\ v \in Versions
      /\ jobs' = [jobs EXCEPT ![v].status = "RUNNING"]
      /\ UNCHANGED <<clock, oldest, days, state, asked, faults>>
    BY DEF MarkRunning, At, AtWork, Unfinished, TypeOK
<1>2. /\ jobs'[v].from = jobs[v].from /\ jobs'[v].to = jobs[v].to
      /\ jobs'[v].status = "RUNNING" /\ DOMAIN jobs' = DOMAIN jobs
      /\ jobs'[v] \in Job
      /\ \A u \in DOMAIN jobs \ {v} : jobs'[u] = jobs[u]
    BY <1>1 DEF Job
<1>3. CASE missing = {} /\ worker' = Go("publish", v, NoDate)
    <2>1. worker' = [pc |-> "publish", version |-> v, day |-> NoDate, now |-> NoTime]
        BY <1>3 DEF Go, Idle, Down
    <2>2. v \in DOMAIN days => jobs[v].from..jobs[v].to \subseteq days[v]
        BY <1>3 DEF Missing, Settled
    <2>3. TypeOK'
        BY <1>1, <1>2, <2>1 DEF TypeOK
    <2>4. AtWork'
        BY <1>1, <1>2, <2>1, <2>2 DEF AtWork, Unfinished, VersionExists
    <2> QED
        BY <1>1, <2>3, <2>4, StatusChangeKeeps
<1>4. CASE \E d \in missing : worker' = Go("settle", v, d)
    <2>1. PICK d \in missing :
              worker' = [pc |-> "settle", version |-> v, day |-> d, now |-> NoTime]
        BY <1>4 DEF Go, Idle, Down
    <2>2. d \in jobs[v].from..jobs[v].to
        BY DEF Missing
    <2>3. d \in Dates
        BY <1>1, <2>2, RangeOfDates DEF Job
    <2>4. TypeOK'
        BY <1>1, <1>2, <2>1, <2>3 DEF TypeOK
    <2>5. AtWork'
        BY <1>1, <1>2, <2>1, <2>2 DEF AtWork, Unfinished
    <2> QED
        BY <1>1, <2>4, <2>5, StatusChangeKeeps
<1> QED
    BY <1>3, <1>4 DEF MarkRunning

LEMMA MarkFailedKeeps ==
    ASSUME ReportsInv, MarkFailed
    PROVE  ReportsInv'
<1> USE DEF ReportsInv
<1>1. Unfinished(worker.version)
    BY DEF MarkFailed, At, AtWork
<1>2. worker' = [pc |-> "idle", version |-> NoVersion, day |-> NoDate, now |-> NoTime]
    BY DEF MarkFailed, Idle, Down
<1>3. TypeOK'
    BY <1>1, <1>2 DEF TypeOK, MarkFailed, Job, Unfinished
<1>4. AtWork'
    BY <1>2 DEF AtWork
<1> QED
    BY <1>1, <1>3, <1>4, StatusChangeKeeps DEF MarkFailed

\* settleDay for the build or for the active version: a day not settled before.
LEMMA SettleRebuildKeeps ==
    ASSUME ReportsInv, SettleRebuildDay
    PROVE  ReportsInv'
<1> USE DEF ReportsInv
<1> DEFINE v == worker.version
           d == worker.day
<1>1. /\ Unfinished(v) /\ v \in DOMAIN jobs /\ jobs[v] \in Job /\ v \in DOMAIN days
      /\ jobs[v].status = "RUNNING" /\ d \in jobs[v].from..jobs[v].to
      /\ UNCHANGED <<clock, oldest, state, asked, faults>>
      /\ worker' = [pc |-> "idle", version |-> NoVersion, day |-> NoDate, now |-> NoTime]
    BY DEF SettleRebuildDay, At, AtWork, Unfinished, TypeOK, VersionExists, Idle, Down
<1>2. CASE d \in days[v]
    <2>1. UNCHANGED <<days, jobs>> /\ worker' = Idle
        BY <1>2 DEF SettleRebuildDay, SettleDay
    <2> QED
        BY <2>1, <1>1, WorkerMoves DEF tables, TypeOK
<1>3. CASE d \notin days[v]
    <2>1. Counted(v) = {v}
        BY <1>1 DEF Counted
    <2>2. /\ DOMAIN days' = DOMAIN days /\ days'[v] = days[v] \cup {d}
          /\ \A u \in DOMAIN days \ {v} : days'[u] = days[u]
          /\ DOMAIN jobs' = DOMAIN jobs
          /\ \A u \in DOMAIN jobs \ {v} : jobs'[u] = jobs[u]
          /\ jobs'[v] = [jobs[v] EXCEPT !.completed = @ + 1]
        BY <1>1, <1>3, <2>1 DEF SettleRebuildDay, SettleDay
    <2>3. /\ jobs'[v] \in Job /\ jobs'[v].status = "RUNNING"
          /\ jobs'[v].from = jobs[v].from /\ jobs'[v].to = jobs[v].to
          /\ jobs'[v].total = jobs[v].total
          /\ jobs'[v].completed = jobs[v].completed + 1
        BY <1>1, <2>2 DEF Job
    <2>4. jobs[v].from \in Dates /\ jobs[v].to \in -2..ReportDate(MaxTime)
        BY <1>1 DEF Job
    <2>5. d \in Dates /\ days[v] \subseteq Dates
        BY <1>1, <2>4, RangeOfDates DEF TypeOK
    <2>6. Cardinality(days'[v]) = Cardinality(days[v]) + 1
        BY <2>2, <2>5, <1>3, DatesFinite, FS_AddElement
    <2>7. \A u : Unfinished(u)' <=> Unfinished(u)
        BY <1>1, <2>2, <2>3 DEF Unfinished
    <2>8. state.active # v
        BY <1>1 DEF PublishedComplete
    <2>9. TypeOK'
        BY <1>1, <2>2, <2>3, <2>5 DEF TypeOK
    <2>10. Numbered' /\ OneBuild'
        BY <1>1, <2>2, <2>7 DEF Numbered, OneBuild
    <2>11. Ranges'
        <3>1. state.active \in DOMAIN days /\ days'[state'.active] = days[state.active]
            BY <1>1, <2>2, <2>8 DEF PublishedComplete
        <3>2. \A x \in days'[state'.active] : state'.earliest <= x
            BY <1>1, <3>1 DEF Ranges
        <3>3. \A u \in DOMAIN jobs' :
                  jobs'[u].total = jobs[u].total /\ jobs'[u].from = jobs[u].from
                  /\ jobs'[u].to = jobs[u].to
            BY <2>2, <2>3
        <3>4. \A u \in DOMAIN jobs' : jobs'[u].total = TotalDays(jobs'[u].from, jobs'[u].to)
            BY <2>2, <3>3 DEF Ranges
        <3>5. ASSUME NEW u \in DOMAIN jobs', Unfinished(u)'
              PROVE  /\ jobs'[u].from <= state'.earliest
                     /\ u \in DOMAIN days' =>
                           days'[u] \subseteq jobs'[u].from..jobs'[u].to
            <4>1. u \in DOMAIN jobs /\ Unfinished(u)
                BY <2>2, <2>7, <3>5
            <4>2. jobs'[u].from <= state'.earliest
                BY <1>1, <3>3, <4>1 DEF Ranges
            <4>3. u \in DOMAIN days' => days'[u] \subseteq jobs[u].from..jobs[u].to
                BY <1>1, <2>2, <4>1 DEF Ranges
            <4> QED
                BY <3>3, <4>2, <4>3
        <3> QED
            BY <3>2, <3>4, <3>5 DEF Ranges
    <2>12. PublishedComplete'
        BY <1>1, <2>2, <2>8 DEF PublishedComplete
    <2>13. ProgressExact'
        BY <1>1, <2>2, <2>3, <2>6, <2>7 DEF ProgressExact
    <2>14. AtWork'
        BY <1>1 DEF AtWork
    <2> QED
        BY <2>9, <2>10, <2>11, <2>12, <2>13, <2>14
<1> QED
    BY <1>2, <1>3

LEMMA SettleDueKeeps ==
    ASSUME ReportsInv, SettleDueDay
    PROVE  ReportsInv'
<1> USE DEF ReportsInv
<1> DEFINE v == worker.version
           d == worker.day
<1>1. /\ v = state.active /\ v \in DOMAIN days
      /\ d \in Dates /\ state.earliest <= d
      /\ UNCHANGED <<clock, oldest, state, asked, faults>>
      /\ worker' = [pc |-> "idle", version |-> NoVersion, day |-> NoDate, now |-> NoTime]
    BY DEF SettleDueDay, At, AtWork, VersionExists, Idle, Down
<1>2. CASE d \in days[v]
    <2>1. UNCHANGED <<days, jobs>> /\ worker' = Idle
        BY <1>2 DEF SettleDueDay, SettleDay
    <2> QED
        BY <2>1, <1>1, WorkerMoves DEF tables, TypeOK
<1>3. CASE d \notin days[v]
    <2>1. Counted(v) = {} /\ ~Unfinished(v)
        BY <1>1 DEF Counted, PublishedComplete, Unfinished
    <2>2. /\ DOMAIN days' = DOMAIN days /\ days'[v] = days[v] \cup {d}
          /\ \A u \in DOMAIN days \ {v} : days'[u] = days[u]
          /\ DOMAIN jobs' = DOMAIN jobs
          /\ \A u \in DOMAIN jobs : jobs'[u] = jobs[u]
        BY <1>1, <1>3, <2>1 DEF SettleDueDay, SettleDay
    <2>3. \A u : Unfinished(u)' <=> Unfinished(u)
        BY <2>2 DEF Unfinished
    <2>4. TypeOK'
        BY <1>1, <2>2 DEF TypeOK
    <2>5. Numbered' /\ OneBuild'
        BY <1>1, <2>2, <2>3 DEF Numbered, OneBuild
    <2>6. Ranges'
        BY <1>1, <2>1, <2>2, <2>3 DEF Ranges, TotalDays
    <2>7. PublishedComplete'
        BY <1>1, <2>2 DEF PublishedComplete
    <2>8. ProgressExact'
        BY <1>1, <2>1, <2>2, <2>3 DEF ProgressExact
    <2>9. AtWork'
        BY <1>1 DEF AtWork
    <2> QED
        BY <2>4, <2>5, <2>6, <2>7, <2>8, <2>9
<1> QED
    BY <1>2, <1>3

\* The switch of versions: the build holds exactly its range, and starts no later
\* than what it replaces.
LEMMA PublishFacts ==
    ASSUME ReportsInv, Publish
    PROVE  /\ Unfinished(worker.version) /\ worker.version \in DOMAIN days
           /\ jobs[worker.version] \in Job /\ worker.version \in Versions
           /\ days[worker.version] =
                 jobs[worker.version].from..jobs[worker.version].to
           /\ jobs[worker.version].from <= state.earliest
<1>1. Unfinished(worker.version) /\ worker.version \in DOMAIN days
    BY DEF ReportsInv, Publish, At, AtWork, VersionExists
<1> QED
    BY <1>1 DEF ReportsInv, Publish, At, AtWork, VersionExists, Ranges, TypeOK, Unfinished

LEMMA PublishKeeps ==
    ASSUME ReportsInv, Publish
    PROVE  ReportsInv'
<1> USE DEF ReportsInv
<1> DEFINE v == worker.version
<1>1. /\ Unfinished(v) /\ v \in DOMAIN jobs /\ v \in DOMAIN days
      /\ jobs[v] \in Job /\ v \in Versions
      /\ days[v] = jobs[v].from..jobs[v].to
    BY PublishFacts DEF Unfinished
<1>2. /\ UNCHANGED <<clock, oldest, days, asked, faults>>
      /\ state' = [active |-> v, earliest |-> jobs[v].from]
      /\ jobs' = [jobs EXCEPT ![v].status = "SUCCEEDED"]
      /\ worker' = [pc |-> "idle", version |-> NoVersion, day |-> NoDate, now |-> NoTime]
    BY DEF Publish, Idle, Down
<1>3. /\ DOMAIN jobs' = DOMAIN jobs /\ jobs'[v] \in Job
      /\ jobs'[v].status = "SUCCEEDED"
      /\ jobs'[v].from = jobs[v].from /\ jobs'[v].to = jobs[v].to
      /\ jobs'[v].total = jobs[v].total /\ jobs'[v].completed = jobs[v].completed
      /\ \A u \in DOMAIN jobs \ {v} : jobs'[u] = jobs[u]
    BY <1>1, <1>2 DEF Job
<1>4. \A u : ~Unfinished(u)'
    BY <1>1, <1>3 DEF Unfinished, OneBuild
<1>5. jobs[v].from \in Dates /\ jobs[v].to \in -2..ReportDate(MaxTime)
    BY <1>1 DEF Job
<1>6. jobs[v].completed = jobs[v].total
    <2>1. jobs[v].completed = Cardinality(days[v])
        BY <1>1 DEF ProgressExact
    <2>2. Cardinality(days[v]) = TotalDays(jobs[v].from, jobs[v].to)
        BY <1>1, <1>5, RangeOfDates
    <2>3. jobs[v].total = TotalDays(jobs[v].from, jobs[v].to)
        BY <1>1 DEF Ranges
    <2> QED
        BY <2>1, <2>2, <2>3
<1>7. TypeOK'
    BY <1>1, <1>2, <1>3, <1>5 DEF TypeOK
<1>8. Numbered' /\ OneBuild'
    BY <1>2, <1>3, <1>4 DEF Numbered, OneBuild
<1>9. Ranges'
    <2>1. \A e \in days[v] : jobs[v].from <= e
        BY <1>1, <1>5, DateFacts DEF Dates
    <2> QED
        BY <1>1, <1>2, <1>3, <1>4, <2>1 DEF Ranges, TotalDays
<1>10. PublishedComplete'
    BY <1>1, <1>2, <1>3 DEF PublishedComplete
<1>11. ProgressExact'
    BY <1>1, <1>3, <1>4, <1>6 DEF ProgressExact
<1>12. AtWork'
    BY <1>2 DEF AtWork
<1> QED
    BY <1>7, <1>8, <1>9, <1>10, <1>11, <1>12

\* What is swept is neither published nor, unless it is still empty, being built.
LEMMA SweepKeeps ==
    ASSUME ReportsInv, Sweep
    PROVE  ReportsInv'
<1> USE DEF ReportsInv
<1> DEFINE v == worker.version
<1>1. /\ v \in DOMAIN days /\ v # state.active
      /\ Unfinished(v) => days[v] = {}
      /\ UNCHANGED <<clock, oldest, state, jobs, asked, faults>>
      /\ worker' = [pc |-> "idle", version |-> NoVersion, day |-> NoDate, now |-> NoTime]
    BY DEF Sweep, At, AtWork, Idle, Down
<1>2. /\ DOMAIN days' \subseteq DOMAIN days
      /\ DOMAIN days \ {v} \subseteq DOMAIN days'
      /\ \A u \in DOMAIN days \ {v} : days'[u] = days[u]
      /\ v \in DOMAIN days' => days'[v] \subseteq days[v] /\ days[v] # {}
    BY <1>1 DEF Sweep
<1>3. \A u : Unfinished(u)' <=> Unfinished(u)
    BY <1>1 DEF Unfinished
<1>4. TypeOK'
    BY <1>1, <1>2 DEF TypeOK
<1>5. Numbered' /\ OneBuild'
    BY <1>1, <1>2, <1>3 DEF Numbered, OneBuild
<1>6. state.active \in DOMAIN days \ {v}
    BY <1>1 DEF PublishedComplete
<1>7. Ranges'
    BY <1>1, <1>2, <1>3, <1>6 DEF Ranges, TotalDays
<1>8. PublishedComplete'
    BY <1>1, <1>2, <1>6 DEF PublishedComplete
<1>9. ProgressExact'
    BY <1>1, <1>2, <1>3 DEF ProgressExact
<1>10. AtWork'
    BY <1>1 DEF AtWork
<1> QED
    BY <1>4, <1>5, <1>7, <1>8, <1>9, <1>10

-----------------------------------------------------------------------------
(* The theorems *)

LEMMA NextKeeps == ReportsInv /\ [Next]_vars => ReportsInv'
<1> SUFFICES ASSUME ReportsInv, [Next]_vars PROVE ReportsInv'
    OBVIOUS
<1>1. CASE Tick \/ FirstRow \/ AskRebuild
    BY <1>1, EnvironmentKeeps
<1>2. CASE RequestRebuild
    BY <1>2, RequestKeeps
<1>3. CASE StartWorker \/ LookForJob \/ VersionGone \/ ChooseWork
    <2>1. UNCHANGED <<clock, oldest, tables, asked, faults>>
        BY <1>3 DEF StartWorker, LookForJob, VersionGone, ChooseWork
    <2> QED
        BY <1>3, <2>1, WorkerMoves DEF ReportsInv, TypeOK, tables
<1>4. CASE StatementFails \/ WorkerExits \/ ServerCrashes
    <2>1. /\ UNCHANGED <<clock, oldest, tables>> /\ asked' \in {asked, NoTime}
          /\ faults' \in 0..MaxFaults
          /\ \/ worker' \in {Idle, Down}
             \/ Rebuilding /\ worker' = Go("fail", worker.version, NoDate)
        BY <1>4, BoundAssumption
        DEF StatementFails, WorkerExits, ServerCrashes, ReportsInv, TypeOK
    <2> QED
        BY <2>1, WorkerMoves
<1>5. CASE MarkRunning
    BY <1>5, MarkRunningKeeps
<1>6. CASE SettleRebuildDay
    BY <1>6, SettleRebuildKeeps
<1>7. CASE SettleDueDay
    BY <1>7, SettleDueKeeps
<1>8. CASE Publish
    BY <1>8, PublishKeeps
<1>9. CASE MarkFailed
    BY <1>9, MarkFailedKeeps
<1>10. CASE Sweep
    BY <1>10, SweepKeeps
<1>11. CASE UNCHANGED vars
    BY <1>11
    DEF vars, tables, ReportsInv, TypeOK, Numbered, OneBuild, Ranges, Unfinished,
        PublishedComplete, ProgressExact, AtWork, VersionExists, TotalDays
<1> QED
    BY <1>1, <1>2, <1>3, <1>4, <1>5, <1>6, <1>7, <1>8, <1>9, <1>10, <1>11
    DEF Next, WorkerStep

\* The invariant of the statistics tables and of the worker's local variables,
\* whatever the HTTP thread, failures and crashes do between two statements.
THEOREM ReportsInvariant == Spec => []ReportsInv
BY InitInv, NextKeeps, PTL DEF Spec

\* The tables stay well formed.
THEOREM ReportsTypeCorrect == Spec => []TypeOK
<1>1. ReportsInv => TypeOK
    BY DEF ReportsInv
<1> QED
    BY <1>1, ReportsInvariant, PTL

\* What is published exists and is complete (step and settleDay).
THEOREM PublishedIsComplete == Spec => []PublishedComplete
<1>1. ReportsInv => PublishedComplete
    BY DEF ReportsInv
<1> QED
    BY <1>1, ReportsInvariant, PTL

\* The progress shown is the number of days settled (settleDay's counter).
THEOREM ProgressIsExact == Spec => []ProgressExact
<1>1. ReportsInv => ProgressExact
    BY DEF ReportsInv
<1> QED
    BY <1>1, ReportsInvariant, PTL

\* Both together: what administrators see of the reports is what the tables hold.
THEOREM ReportsAlwaysAgree == Spec => []ReportsAgree
<1>1. ReportsInv => ReportsAgree
    BY DEF ReportsInv, ReportsAgree
<1> QED
    BY <1>1, ReportsInvariant, PTL

\* No step takes a day away from the published report, except the switch to a
\* rebuild whose range ends before that day.
THEOREM CoverageIsKept == Spec => CoverageKept
<1> DEFINE Kept == \A d \in days[state.active] :
                     \/ state'.active \in DOMAIN days' /\ d \in days'[state'.active]
                     \/ state'.active # state.active /\ d > jobs[state'.active].to
<1>1. ReportsInv /\ [Next]_vars => [Kept]_vars
    <2> SUFFICES ASSUME ReportsInv, Next PROVE Kept
        OBVIOUS
    <2>0. state.active \in DOMAIN days
        BY DEF ReportsInv, PublishedComplete
    <2>1. CASE Publish
        <3> DEFINE v == worker.version
        <3>1. /\ v \in DOMAIN days /\ v \in DOMAIN jobs /\ jobs[v] \in Job
              /\ days[v] = jobs[v].from..jobs[v].to
              /\ jobs[v].from <= state.earliest
            BY <2>1, PublishFacts DEF Unfinished
        <3>2. state'.active = v /\ days' = days
            BY <2>1 DEF Publish
        <3>3. v # state.active
            BY <2>1, PublishFacts DEF ReportsInv, PublishedComplete, Unfinished
        <3>4. ASSUME NEW d \in days[state.active]
              PROVE  d \in days[v] \/ d > jobs[v].to
            <4>1. state.earliest <= d /\ d \in Dates /\ state.earliest \in Dates
                BY <2>0 DEF ReportsInv, Ranges, TypeOK
            <4>2. jobs[v].from \in Dates /\ jobs[v].to \in -2..ReportDate(MaxTime)
                BY <3>1 DEF Job
            <4> QED
                BY <3>1, <4>1, <4>2, DateFacts DEF Dates
        <3> QED
            BY <3>1, <3>2, <3>3, <3>4
    <2>2. CASE RequestRebuild
        <3>1. Cardinality(DOMAIN jobs) + 1 \notin DOMAIN days
            BY <2>2, NewVersion DEF RequestRebuild
        <3> QED
            BY <2>0, <2>2, <3>1 DEF RequestRebuild
    <2>3. CASE SettleRebuildDay \/ SettleDueDay
        <3>1. worker.version \in DOMAIN days /\ state' = state
            BY <2>3 DEF SettleRebuildDay, SettleDueDay, VersionExists
        <3>2. DOMAIN days' = DOMAIN days /\ \A u \in DOMAIN days : days[u] \subseteq days'[u]
            BY <2>3, <3>1 DEF SettleRebuildDay, SettleDueDay, SettleDay
        <3> QED
            BY <2>0, <3>1, <3>2
    <2>4. CASE Sweep
        <3>1. worker.version # state.active
            BY <2>4 DEF Sweep, At, ReportsInv, AtWork
        <3>2. state' = state /\ state.active \in DOMAIN days'
              /\ days'[state.active] = days[state.active]
            BY <2>0, <2>4, <3>1 DEF Sweep
        <3> QED
            BY <3>2
    <2>5. CASE UNCHANGED <<days, state>>
        BY <2>0, <2>5
    <2> QED
        BY <2>1, <2>2, <2>3, <2>4, <2>5
        DEF Next, WorkerStep, Tick, FirstRow, AskRebuild, StartWorker, LookForJob,
            MarkRunning, VersionGone, MarkFailed, ChooseWork, StatementFails,
            WorkerExits, ServerCrashes, tables
<1> QED
    BY <1>1, ReportsInvariant, PTL DEF Spec, CoverageKept
=============================================================================
