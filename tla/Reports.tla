------------------------------ MODULE Reports ------------------------------
(***************************************************************************)
(* The daily usage statistics: the tables report_versions, report_state,   *)
(* report_days and report_jobs (server/report-schema.ts), written by two   *)
(* threads over two connections.  The HTTP thread inserts rebuild jobs     *)
(* (ReportStore.requestRebuild); one worker thread (report-worker.ts) runs *)
(* ReportStore.step again and again: it settles the days of a rebuild, or  *)
(* sweeps obsolete versions, or catches up with the days that fell due.    *)
(*                                                                         *)
(* step is not a transaction.  Each statement of it is atomic by itself,   *)
(* so each becomes an action and the worker keeps between them what the    *)
(* code keeps in local variables.  The figures of a day are left out: no   *)
(* handler changes what lies before today, so a settled day has one value. *)
(*                                                                         *)
(* Time is counted in half days: report dates begin at even values, 06:00  *)
(* Beijing time is the odd value after it.                                 *)
(***************************************************************************)
EXTENDS Integers, FiniteSets

CONSTANTS
    MaxTime,      \* bound: the last half day the clock reaches
    MaxRebuilds,  \* bound: the rebuilds accepted in a behaviour
    MaxFaults     \* bound: failed statements, worker exits and server crashes

ASSUME BoundAssumption ==
    MaxTime \in Nat /\ MaxRebuilds \in Nat /\ MaxFaults \in Nat

VARIABLES
    clock,     \* the current half day
    oldest,    \* the date of the oldest row of the four source tables
    days,      \* report_versions and report_days: version -> settled days
    state,     \* report_state: active version and earliest date
    jobs,      \* report_jobs, each named by the version it builds
    asked,     \* the clock a rebuild request has read before its transaction
    worker,    \* where step stands, and its local variables
    faults

tables == <<days, state, jobs>>
vars == <<clock, oldest, days, state, jobs, asked, worker, faults>>

-----------------------------------------------------------------------------
(* Dates, versions, jobs *)

Times == 0..MaxTime
ReportDate(t) == t \div 2
LatestReportDate(t) == IF t % 2 = 0 THEN ReportDate(t) - 2 ELSE ReportDate(t) - 1
Dates == 0..ReportDate(MaxTime)
NoRows == ReportDate(MaxTime) + 1
NoTime == MaxTime + 1

Versions == 0..MaxRebuilds
Job == [status : {"QUEUED", "RUNNING", "SUCCEEDED", "FAILED"},
        from : Dates, to : -2..ReportDate(MaxTime),
        completed : Nat, total : Nat]

Lesser(a, b) == IF a <= b THEN a ELSE b

HistoryStartFresh(now, earliest) ==
    IF oldest = NoRows THEN ReportDate(now) ELSE oldest
\* The oldest source row, or today without one, but never after earliest_date.
HistoryStart(now, earliest) ==
    Lesser(IF oldest = NoRows THEN ReportDate(now) ELSE oldest, earliest)

TotalDays(from, to) == IF to < from THEN 0 ELSE to - from + 1

\* jobRow(true): the job that is queued or running; the index
\* report_one_running_job allows one.
ActiveJobsQueuedOnly == {v \in DOMAIN jobs : jobs[v].status = "QUEUED"}
ActiveJobs == {v \in DOMAIN jobs : jobs[v].status \in {"QUEUED", "RUNNING"}}

Settled(v) == IF v \in DOMAIN days THEN days[v] ELSE {}

\* The candidates of nextMissing, which takes the newest.
MissingNewestOnly(v, from, to) == {d \in from..to : d = to} \ Settled(v)
MissingButFirst(v, from, to) == (from + 1)..to \ Settled(v)
Missing(v, from, to) == from..to \ Settled(v)
IsNewest(d, S) == d \in S /\ \A e \in S : e <= d

\* The versions step may delete: all but the active one.
Obsolete == DOMAIN days \ {state.active}

-----------------------------------------------------------------------------
(* The worker's program counter *)

NoVersion == MaxRebuilds + 1
NoDate == -3
Down == [pc |-> "down", version |-> NoVersion, day |-> NoDate, now |-> NoTime]
Idle == [Down EXCEPT !.pc = "idle"]

At(pc) == worker.pc = pc
Go(pc, v, d) == [Idle EXCEPT !.pc = pc, !.version = v, !.day = d]
Rebuilding == At("mark") \/ At("settle") \/ At("publish")

TypeOK ==
    /\ clock \in Times
    /\ oldest \in Dates \cup {NoRows}
    /\ DOMAIN days \subseteq Versions
    /\ \A v \in DOMAIN days : days[v] \subseteq Dates
    /\ state \in [active : Versions, earliest : Dates]
    /\ DOMAIN jobs \subseteq Versions \ {0}
    /\ \A v \in DOMAIN jobs : jobs[v] \in Job
    /\ asked \in Times \cup {NoTime}
    /\ worker \in [pc : {"down", "idle", "mark", "settle", "publish", "fail",
                         "choose", "sweep", "catchup"},
                   version : Versions \cup {NoVersion},
                   day : Dates \cup {NoDate},
                   now : Times \cup {NoTime}]
    /\ faults \in 0..MaxFaults

\* initialize on the first start, before which there may be history already.
Init ==
    /\ clock \in Times
    /\ oldest \in 0..ReportDate(clock) \cup {NoRows}
    /\ days = [v \in {0} |-> {}]
    /\ state = [active |-> 0,
                earliest |-> HistoryStart(clock, ReportDate(clock))]
    /\ jobs = [v \in {} |-> <<>>]
    /\ asked = NoTime
    /\ worker = Down
    /\ faults = 0

-----------------------------------------------------------------------------
(* The environment *)

Tick ==
    /\ clock < MaxTime
    /\ clock' = clock + 1
    /\ UNCHANGED <<oldest, tables, asked, worker, faults>>

\* The first machine is created; rows added later are never older.
FirstRow ==
    /\ oldest = NoRows
    /\ oldest' = ReportDate(clock)
    /\ UNCHANGED <<clock, tables, asked, worker, faults>>

-----------------------------------------------------------------------------
(* The HTTP thread: POST /api/v1/admin/report/rebuild *)

\* The argument `now' is evaluated before the transaction gets the write lock.
AskRebuild ==
    /\ asked = NoTime
    /\ Cardinality(DOMAIN jobs) < MaxRebuilds
    /\ asked' = clock
    /\ UNCHANGED <<clock, oldest, tables, worker, faults>>

NewJob(from, to) ==
    [status |-> "QUEUED", from |-> from, to |-> to,
     completed |-> 0, total |-> TotalDays(from, to)]

RequestRebuild ==
    /\ asked # NoTime
    /\ IF ActiveJobs # {}
       THEN UNCHANGED <<days, jobs>>
       ELSE LET v == Cardinality(DOMAIN jobs) + 1
                from == HistoryStart(asked, state.earliest)
            IN /\ days' = [u \in DOMAIN days \cup {v} |->
                              IF u = v THEN {} ELSE days[u]]
               /\ jobs' = [u \in DOMAIN jobs \cup {v} |->
                              IF u = v THEN NewJob(from, LatestReportDate(asked))
                              ELSE jobs[u]]
    /\ asked' = NoTime
    /\ UNCHANGED <<clock, oldest, state, worker, faults>>

-----------------------------------------------------------------------------
(* The worker: one action per statement of step that meets other threads *)

LookForJob ==
    /\ At("idle")
    /\ worker' = IF ActiveJobs = {}
                 THEN [Go("choose", NoVersion, NoDate) EXCEPT !.now = clock]
                 ELSE Go("mark", CHOOSE v \in ActiveJobs : TRUE, NoDate)
    /\ UNCHANGED <<clock, oldest, tables, asked, faults>>

\* UPDATE ... SET status='RUNNING', then nextMissing.
MarkRunning ==
    /\ At("mark")
    /\ LET v == worker.version
           missing == Missing(v, jobs[v].from, jobs[v].to)
       IN /\ jobs' = [jobs EXCEPT ![v].status = "RUNNING"]
          /\ \/ missing = {} /\ worker' = Go("publish", v, NoDate)
             \/ \E d \in missing : /\ IsNewest(d, missing)
                                   /\ worker' = Go("settle", v, d)
    /\ UNCHANGED <<clock, oldest, days, state, asked, faults>>

\* The jobs whose progress settling a day of v advances.
CountedActive(v) == ActiveJobs
Counted(v) == {u \in DOMAIN jobs : u = v /\ jobs[u].status = "RUNNING"}

\* The write transaction of settleDay; worker.version must still exist.
SettleDay ==
    LET v == worker.version IN
    IF worker.day \in days[v]
    THEN UNCHANGED <<days, jobs>>
    ELSE /\ days' = [days EXCEPT ![v] = @ \cup {worker.day}]
         /\ jobs' = [u \in DOMAIN jobs |->
                        IF u \in Counted(v)
                        THEN [jobs[u] EXCEPT !.completed = @ + 1]
                        ELSE jobs[u]]

VersionExists == worker.version \in DOMAIN days

SettleRebuildDay ==
    /\ At("settle") /\ VersionExists
    /\ SettleDay
    /\ worker' = Idle
    /\ UNCHANGED <<clock, oldest, state, asked, faults>>

SettleDueDay ==
    /\ At("catchup") /\ VersionExists
    /\ SettleDay
    /\ worker' = Idle
    /\ UNCHANGED <<clock, oldest, state, asked, faults>>

Publish ==
    /\ At("publish") /\ VersionExists
    /\ state' = [active |-> worker.version, earliest |-> jobs[worker.version].from]
    /\ jobs' = [jobs EXCEPT ![worker.version].status = "SUCCEEDED"]
    /\ worker' = Idle
    /\ UNCHANGED <<clock, oldest, days, asked, faults>>

\* report_days and report_state reference report_versions: without the row the
\* statement fails.
VersionGone ==
    /\ At("settle") \/ At("publish")
    /\ ~VersionExists
    /\ worker' = Go("fail", worker.version, NoDate)
    /\ UNCHANGED <<clock, oldest, tables, asked, faults>>

MarkFailed ==
    /\ At("fail")
    /\ jobs' = [jobs EXCEPT ![worker.version].status = "FAILED"]
    /\ worker' = Idle
    /\ UNCHANGED <<clock, oldest, days, state, asked, faults>>

\* No job was found: an obsolete version first, then the newest day that is due.
ChooseWork ==
    /\ At("choose")
    /\ LET due == Missing(state.active, state.earliest, LatestReportDate(worker.now))
       IN \/ \E v \in Obsolete : worker' = Go("sweep", v, NoDate)
          \/ /\ Obsolete = {}
             /\ \/ due = {} /\ worker' = Idle
                \/ \E d \in due : /\ IsNewest(d, due)
                                  /\ worker' = Go("catchup", state.active, d)
    /\ UNCHANGED <<clock, oldest, tables, asked, faults>>

\* One day of the version, or the version itself when it has no day left.
Sweep ==
    /\ At("sweep")
    /\ LET v == worker.version
       IN \/ \E d \in days[v] : days' = [days EXCEPT ![v] = @ \ {d}]
          \/ /\ days[v] = {}
             /\ days' = [u \in DOMAIN days \ {v} |-> days[u]]
    /\ worker' = Idle
    /\ UNCHANGED <<clock, oldest, state, jobs, asked, faults>>

\* The scheduler's restart timer; initialize finds report_state and returns.
StartWorker ==
    /\ At("down")
    /\ worker' = Idle
    /\ UNCHANGED <<clock, oldest, tables, asked, faults>>

-----------------------------------------------------------------------------
(* Failures *)

\* A statement throws (a busy database, a full disk) and its transaction rolls
\* back.  Inside the try block the job is then marked FAILED, which may fail too.
StatementFails ==
    /\ faults < MaxFaults
    /\ faults' = faults + 1
    /\ ~At("down") /\ ~At("idle")
    /\ worker' = IF Rebuilding THEN Go("fail", worker.version, NoDate) ELSE Idle
    /\ UNCHANGED <<clock, oldest, tables, asked>>

WorkerExits ==
    /\ faults < MaxFaults
    /\ faults' = faults + 1
    /\ ~At("down")
    /\ worker' = Down
    /\ UNCHANGED <<clock, oldest, tables, asked>>

ServerCrashes ==
    /\ faults < MaxFaults
    /\ faults' = faults + 1
    /\ worker' = Down
    /\ asked' = NoTime
    /\ UNCHANGED <<clock, oldest, tables>>

-----------------------------------------------------------------------------

WorkerStep ==
    \/ StartWorker \/ LookForJob \/ MarkRunning
    \/ SettleRebuildDay \/ SettleDueDay \/ Publish
    \/ VersionGone \/ MarkFailed \/ ChooseWork \/ Sweep

Next ==
    \/ Tick \/ FirstRow
    \/ AskRebuild \/ RequestRebuild
    \/ WorkerStep
    \/ StatementFails \/ WorkerExits \/ ServerCrashes

Spec == Init /\ [][Next]_vars

\* tick re-arms its timer on every path and the scheduler restarts a worker that
\* exited, so the worker goes on; the HTTP thread finishes what it began.  Nobody
\* has to ask for a rebuild, and the clock need not advance.
Fairness == WF_vars(WorkerStep) /\ WF_vars(RequestRebuild)
FairSpec == Spec /\ Fairness

-----------------------------------------------------------------------------
(* Properties *)

Unfinished(v) == v \in DOMAIN jobs /\ jobs[v].status \in {"QUEUED", "RUNNING"}
Finished(v) == v \in DOMAIN jobs /\ jobs[v].status \in {"SUCCEEDED", "FAILED"}

\* What is published is complete: the active version exists and, when a rebuild
\* made it, holds every day of that rebuild (step publishes when no day is missing).
PublishedComplete ==
    /\ state.active \in DOMAIN days
    /\ state.active \in DOMAIN jobs =>
         /\ jobs[state.active].status = "SUCCEEDED"
         /\ jobs[state.active].from..jobs[state.active].to \subseteq days[state.active]

\* A day leaves the published report only with a rebuild that was asked for before
\* the day fell due: neither a switch of versions, nor the sweep, nor a failure
\* takes any other away.
CoverageKept ==
    [][\A d \in days[state.active] :
          \/ state'.active \in DOMAIN days' /\ d \in days'[state'.active]
          \/ state'.active # state.active /\ d > jobs[state'.active].to]_vars

\* The progress an administrator sees is the number of days settled, and a rebuild
\* that succeeded has counted all of them, whatever failed or restarted meanwhile.
ProgressExact ==
    \A v \in DOMAIN jobs :
        /\ Unfinished(v) /\ v \in DOMAIN days =>
              jobs[v].completed = Cardinality(days[v])
        /\ jobs[v].status = "SUCCEEDED" => jobs[v].completed = jobs[v].total

\* What is published and what is said of the rebuilds is true between any two statements.
ReportsAgree == PublishedComplete /\ ProgressExact

-----------------------------------------------------------------------------
(* Progress *)

\* Every day from earliest_date on that falls due is settled in the published
\* report in the end, however long the worker was down.
DueDaySettled ==
    \A d \in Dates :
        state.earliest <= d /\ d <= LatestReportDate(clock)
            ~> state.active \in DOMAIN days /\ d \in days[state.active]

\* Nothing the worker began stays half done, across worker exits and server crashes:
\* a rebuild that was accepted ends, and the versions that were replaced or failed are
\* swept once no rebuild is left.
WorkEnds ==
    /\ \A v \in Versions : Unfinished(v) ~> Finished(v)
    /\ []<>(DOMAIN days = {state.active} \/ \E v \in Versions : Unfinished(v))

\* The worker gets everything done: due days, accepted rebuilds, sweeps.
AllWorkDone == DueDaySettled /\ WorkEnds
=============================================================================
