---------------------------- MODULE PlatformJobs ----------------------------
(***************************************************************************)
(* The durable job queue: the table platform_jobs, the worker processes    *)
(* that poll it (platform-job.worker.ts), the service both sides call      *)
(* (platform-jobs.service.ts) and the callers that enqueue, retry, cancel  *)
(* or annotate a job.                                                      *)
(*                                                                         *)
(* A job entity read from the table is a SNAPSHOT: `save` writes it back   *)
(* over whatever the row has become, with no check of status or owner.     *)
(* Every read and every save is therefore a step of its own, except inside *)
(* claimNext, which holds the row lock.  TypeORM's save (load the row,     *)
(* update the columns that differ) is one step that leaves the row equal   *)
(* to the snapshot.                                                        *)
(*                                                                         *)
(* Time is counted in ticks relative to what is being timed: the age of a  *)
(* heartbeat, the time a handler has been running, the wait left before a  *)
(* scheduled run.  There is no absolute clock.                             *)
(***************************************************************************)
EXTENDS Naturals, FiniteSets

CONSTANTS
    Job,              \* the jobs, one per idempotency key
    Worker,           \* worker processes
    Slot,             \* overlapping invocations of tick() in one process
    Caller,           \* requests of other processes, each made once
    Ops,              \* what callers do: subset of CallerOps
    MaxAttempts,      \* [Job -> Nat]: JobDefinition.maxAttempts
    Rank,             \* [Job -> Nat]: priority class, then createdAt
    Polls,            \* [Worker -> SUBSET Job]: jobs of the queues it serves
    Handled,          \* jobs whose type has a registered handler
    Cancellable,      \* jobs whose type is cancellable
    ReportsProgress,  \* jobs whose handler reports progress when it starts
    ReportsLate,      \* those that report again after their long work
    Delays,           \* ticks until scheduledFor, 0 for an immediate job
    Timeout,          \* ticks of JobDefinition.timeoutMs
    Backoff,          \* ticks of computeBackoffMs
    ReclaimEvery,     \* RECLAIM_EVERY_TICKS
    MaxFaults,        \* bound on crashes, shutdowns and database errors
    DbMayFail,        \* whether a database call may throw
    PromptDb,         \* whether every database call ends within its tick
    NoJob

CallerOps == {"rearm", "retry", "cancel", "correlate"}

ASSUME JobsAssumption ==
    /\ NoJob \notin Job
    /\ Ops \subseteq CallerOps
    /\ MaxAttempts \in [Job -> Nat \ {0}]
    /\ Rank \in [Job -> Nat]
    /\ Polls \in [Worker -> SUBSET Job]
    /\ Handled \subseteq Job
    /\ Cancellable \subseteq Job
    /\ ReportsProgress \subseteq Job
    /\ ReportsLate \subseteq ReportsProgress
    /\ Delays \subseteq Nat
    /\ Timeout \in Nat \ {0}
    /\ Backoff \in Nat \ {0}
    /\ ReclaimEvery \in Nat \ {0}
    /\ MaxFaults \in Nat
    /\ DbMayFail \in BOOLEAN
    /\ PromptDb \in BOOLEAN

VARIABLES
    row,        \* the table: one row per job, "absent" before the insert
    age,        \* ticks since heartbeatAt, capped at Stale
    run,        \* the tick() invocations and the handlers they started
    worker,     \* per process: draining flag and tick counter
    call,       \* the callers' requests
    resolved,   \* history: jobs whose handler has returned a result
    faults      \* crashes, shutdowns and database errors so far

vars == <<row, age, run, worker, call, resolved, faults>>

Run == Worker \X Slot

-----------------------------------------------------------------------------
(* The rows of platform_jobs.                                              *)

Status == {"absent", "queued", "scheduled", "running", "retry_scheduled",
           "completed", "failed", "dead_lettered", "cancelled"}

Row == [status : Status, attempts : Nat, max : Nat, wait : Nat]

Absent == [status |-> "absent", attempts |-> 0, max |-> 0, wait |-> 0]

ActiveOrDone ==
    {"queued", "scheduled", "running", "retry_scheduled", "completed"}

CancellableBeforeRun == {"queued", "scheduled", "retry_scheduled"}

Max2(m, n) == IF m >= n THEN m ELSE n

\* repository.create + save of a job that has no row yet.
New(j, delay) ==
    [status |-> IF delay > 0 THEN "scheduled" ELSE "queued",
     attempts |-> 0, max |-> MaxAttempts[j], wait |-> delay]

\* The claimNext WHERE clause on one row.
Claimable(x) ==
    \/ x.status = "queued"
    \/ x.status \in {"scheduled", "retry_scheduled"} /\ x.wait = 0

Claimed(x) ==
    [status |-> "running", attempts |-> x.attempts + 1, max |-> x.max,
     wait |-> 0]

CompletedRow(x) == [x EXCEPT !.status = "completed"]

\* Mutant of FailedRow: a retry starts counting from zero again.
FailedRowForgetsAttempts(x, retryable) ==
    IF retryable /\ x.attempts < x.max
    THEN [x EXCEPT !.status = "retry_scheduled", !.wait = Backoff,
                   !.attempts = 0]
    ELSE IF retryable
         THEN [x EXCEPT !.status = "dead_lettered"]
         ELSE [x EXCEPT !.status = "failed"]

\* fail(): retry while attempts are left, dead-letter when they are used up,
\* "failed" when the error is not retryable.
FailedRow(x, retryable) ==
    IF retryable /\ x.attempts < x.max
    THEN [x EXCEPT !.status = "retry_scheduled", !.wait = Backoff]
    ELSE IF retryable
         THEN [x EXCEPT !.status = "dead_lettered"]
         ELSE [x EXCEPT !.status = "failed"]

\* enqueue of a key whose row has failed for good.
RearmedRow(x) ==
    [status |-> "queued", attempts |-> x.attempts,
     max |-> Max2(x.max, x.attempts + 1), wait |-> 0]

\* Mutant of RetriedRow: the admin retry grants no further attempt.
RetriedRowUngranted(x) ==
    [status |-> "queued", attempts |-> x.attempts, max |-> x.max, wait |-> 0]

\* The admin retry.
RetriedRow(x) ==
    [status |-> "queued", attempts |-> x.attempts,
     max |-> IF x.attempts >= x.max THEN x.attempts + 1 ELSE x.max,
     wait |-> 0]

CancelledRow(x) == [x EXCEPT !.status = "cancelled"]

\* How old a heartbeat reclaimStalled tolerates.
Grace == 2 * Timeout
Stale == Grace + 1

-----------------------------------------------------------------------------
(* A run is one invocation of tick() with the handler it may have started. *)
(* The handler outlives its tick when the timeout fires first.             *)

RunPc == {"idle", "scan", "reclaim", "claim", "mark", "handle",
          "ok", "saved", "err"}

\* The tick holds the job it claimed until it has recorded the outcome.
Holding == {"mark", "handle", "ok", "saved", "err"}

RunShape ==
    [pc      : RunPc,
     job     : Job \cup {NoJob},
     held    : Row,                   \* the entity claimNext returned
     elapsed : Nat,                   \* ticks since the handler was called
     retry   : BOOLEAN,               \* classifyError of the pending error
     hand    : {"none", "busy", "reporting"},   \* the handler itself
     pend    : Row,                   \* entity heartbeat() is about to save
     todo    : SUBSET (Job \X Row)]   \* stalled jobs reclaimStalled listed

RunState == {x \in RunShape : x.pc \in Holding => x.job \in Job}

Idle ==
    [pc |-> "idle", job |-> NoJob, held |-> Absent, elapsed |-> 0,
     retry |-> FALSE, hand |-> "none", pend |-> Absent, todo |-> {}]

\* The tick is over; a handler that is still running keeps its job.
Over(x) ==
    IF x.hand = "none" THEN Idle
    ELSE [Idle EXCEPT !.job = x.job, !.hand = x.hand, !.pend = x.pend]

CallState ==
    [pc : {"ready", "done"}, op : {"none"}, job : {NoJob}, row : {Absent}]
    \cup [pc : {"read"}, op : CallerOps, job : Job, row : Row]

Ready == [pc |-> "ready", op |-> "none", job |-> NoJob, row |-> Absent]
Done == [Ready EXCEPT !.pc = "done"]

WorkerState == [draining : BOOLEAN, ticks : Nat]

\* The invocation r goes on as x, the others as they are.
Becomes(r, x) == run' = [run EXCEPT ![r] = x]

TypeOK ==
    /\ row \in [Job -> Row]
    /\ age \in [Job -> 0..Stale]
    /\ run \in [Run -> RunState]
    /\ worker \in [Worker -> WorkerState]
    /\ call \in [Caller -> CallState]
    /\ resolved \in SUBSET Job
    /\ faults \in 0..MaxFaults

Init ==
    /\ row = [j \in Job |-> Absent]
    /\ age = [j \in Job |-> 0]
    /\ run = [r \in Run |-> Idle]
    /\ worker = [w \in Worker |-> [draining |-> FALSE, ticks |-> 0]]
    /\ call = [c \in Caller |-> Ready]
    /\ resolved = {}
    /\ faults = 0

-----------------------------------------------------------------------------
(* The worker's tick(): reclaim every so often, then claim, then execute.  *)

\* The interval fires.  Nothing waits for earlier ticks to end.  Draining is
\* looked at here and never again.
StartTick(r) ==
    LET n == (worker[r[1]].ticks + 1) % ReclaimEvery IN
    /\ run[r] = Idle
    /\ ~worker[r[1]].draining
    /\ worker' = [worker EXCEPT ![r[1]] = [@ EXCEPT !.ticks = n]]
    /\ Becomes(r, [Idle EXCEPT !.pc = IF n = 0 THEN "scan" ELSE "claim"])
    /\ UNCHANGED <<row, age, call, resolved, faults>>

\* Mutants of Stalled: jobs of any status; the comparison turned around.
StalledWhateverStatus ==
    {<<j, row[j]>> : j \in {k \in Job : row[k] # Absent /\ age[k] > Grace}}

StalledFresh ==
    {<<j, row[j]>> : j \in
        {k \in Job : row[k].status = "running" /\ age[k] <= Grace}}

\* reclaimStalled lists the running jobs whose heartbeat is too old ...
Stalled ==
    {<<j, row[j]>> : j \in
        {k \in Job : row[k].status = "running" /\ age[k] > Grace}}

Scan(r) ==
    /\ run[r].pc = "scan"
    /\ Becomes(r, [run[r] EXCEPT !.pc = "reclaim", !.todo = Stalled])
    /\ UNCHANGED <<row, age, worker, call, resolved, faults>>

\* ... and fails them one by one, each from the entity it listed.
Reclaim(r) ==
    /\ run[r].pc = "reclaim"
    /\ \E t \in run[r].todo :
         /\ row' = [row EXCEPT ![t[1]] = FailedRow(t[2], TRUE)]
         /\ Becomes(r, [run[r] EXCEPT !.todo = @ \ {t}])
    /\ UNCHANGED <<age, worker, call, resolved, faults>>

ReclaimEnds(r) ==
    /\ run[r].pc = "reclaim"
    /\ run[r].todo = {}
    /\ Becomes(r, [run[r] EXCEPT !.pc = "claim"])
    /\ UNCHANGED <<row, age, worker, call, resolved, faults>>

Due(w) == {j \in Polls[w] : Claimable(row[j])}

\* Mutants of Claim: the heartbeat of an earlier attempt stays; the row is
\* claimed and the tick is not told which one.
ClaimKeepsHeartbeat(r) ==
    /\ run[r].pc = "claim"
    /\ \E j \in Due(r[1]) :
         /\ \A k \in Due(r[1]) : Rank[j] <= Rank[k]
         /\ row' = [row EXCEPT ![j] = Claimed(@)]
         /\ Becomes(r, [run[r] EXCEPT !.pc = "mark", !.job = j,
                               !.held = Claimed(row[j])])
    /\ UNCHANGED <<age, worker, call, resolved, faults>>

\* claimNext: one transaction under FOR UPDATE SKIP LOCKED.
Claim(r) ==
    /\ run[r].pc = "claim"
    /\ \E j \in Due(r[1]) :
         /\ \A k \in Due(r[1]) : Rank[j] <= Rank[k]
         /\ row' = [row EXCEPT ![j] = Claimed(@)]
         /\ age' = [age EXCEPT ![j] = 0]
         /\ Becomes(r, [run[r] EXCEPT !.pc = "mark", !.job = j,
                               !.held = Claimed(row[j])])
    /\ UNCHANGED <<worker, call, resolved, faults>>

ClaimNothing(r) ==
    /\ run[r].pc = "claim"
    /\ Due(r[1]) = {}
    /\ Becomes(r, Over(run[r]))
    /\ UNCHANGED <<row, age, worker, call, resolved, faults>>

\* markWorkerJobClaimed, then the handler is looked up and called.
Execute(r) ==
    /\ run[r].pc = "mark"
    /\ \/ /\ run[r].job \in Handled
          /\ Becomes(r, [run[r] EXCEPT !.pc = "handle", !.hand = "busy"])
       \/ /\ run[r].job \notin Handled                    \* no_handler
          /\ Becomes(r, [run[r] EXCEPT !.pc = "err"])
    /\ UNCHANGED <<row, age, worker, call, resolved, faults>>

\* The handler returns before the timeout ...
Resolve(r) ==
    /\ run[r].pc = "handle"
    /\ run[r].hand = "busy"
    /\ Becomes(r, [run[r] EXCEPT !.pc = "ok", !.hand = "none"])
    /\ resolved' = resolved \cup {run[r].job}
    /\ UNCHANGED <<row, age, worker, call, faults>>

\* Mutant of Reject: the error is swallowed on the way to execute().
RejectSwallowed(r) ==
    /\ run[r].pc = "handle"
    /\ run[r].hand = "busy"
    /\ Becomes(r, [run[r] EXCEPT !.pc = "ok", !.hand = "none"])
    /\ UNCHANGED <<row, age, worker, call, resolved, faults>>

\* ... or throws ...
Reject(r) ==
    /\ run[r].pc = "handle"
    /\ run[r].hand = "busy"
    /\ \E retryable \in BOOLEAN :
         Becomes(r, [run[r] EXCEPT !.pc = "err", !.hand = "none",
                            !.retry = retryable])
    /\ UNCHANGED <<row, age, worker, call, resolved, faults>>

\* ... or withTimeout gives up on it, and it keeps running unobserved.  The
\* message "timed out after" matches none of the retryable patterns.
TimerFires(r) ==
    /\ run[r].pc = "handle"
    /\ run[r].elapsed = Timeout
    /\ Becomes(r, [run[r] EXCEPT !.pc = "err", !.retry = FALSE])
    /\ UNCHANGED <<row, age, worker, call, resolved, faults>>

\* A handler that lost the race ends; its result goes nowhere.
LateHandlerEnds(r) ==
    /\ run[r].pc # "handle"
    /\ run[r].hand = "busy"
    /\ Becomes(r, IF run[r].pc = "idle" THEN Idle
                  ELSE [run[r] EXCEPT !.hand = "none"])
    /\ UNCHANGED <<row, age, worker, call, resolved, faults>>

\* The first report follows the handler's first query, so it is late only
\* when that query is.
MayReport(r) ==
    /\ run[r].job \in ReportsProgress
    /\ \/ run[r].job \in ReportsLate
       \/ run[r].pc = "handle" /\ run[r].elapsed = 0
       \/ ~PromptDb

\* reportProgress(percent, step): heartbeatAt is updated, the row is read ...
ReportRead(r) ==
    /\ run[r].hand = "busy"
    /\ MayReport(r)
    /\ age' = [age EXCEPT ![run[r].job] = 0]
    /\ Becomes(r, [run[r] EXCEPT !.hand = "reporting",
                          !.pend = row[run[r].job]])
    /\ UNCHANGED <<row, worker, call, resolved, faults>>

\* ... and saved with the step in its metadata.
ReportSave(r) ==
    /\ run[r].hand = "reporting"
    /\ row' = [row EXCEPT ![run[r].job] = run[r].pend]
    /\ Becomes(r, [run[r] EXCEPT !.hand = "busy", !.pend = Absent])
    /\ UNCHANGED <<age, worker, call, resolved, faults>>

Complete(r) ==
    /\ run[r].pc = "ok"
    /\ row' = [row EXCEPT ![run[r].job] = CompletedRow(run[r].held)]
    /\ Becomes(r, [run[r] EXCEPT !.pc = "saved"])
    /\ UNCHANGED <<age, worker, call, resolved, faults>>

MarkCompleted(r) ==
    /\ run[r].pc = "saved"
    /\ Becomes(r, Over(run[r]))
    /\ UNCHANGED <<row, age, worker, call, resolved, faults>>

\* The catch of execute() and the no_handler branch.
Fail(r) ==
    /\ run[r].pc = "err"
    /\ row' = [row EXCEPT
         ![run[r].job] = FailedRow(run[r].held, run[r].retry)]
    /\ Becomes(r, Over(run[r]))
    /\ UNCHANGED <<age, worker, call, resolved, faults>>

\* A database call throws.  Around complete() the catch of execute() takes
\* over; everywhere else the catch of tick() only logs.
DbError(r) ==
    /\ DbMayFail
    /\ faults < MaxFaults
    /\ faults' = faults + 1
    /\ \/ /\ run[r].pc \in {"scan", "reclaim", "claim", "mark", "err"}
          /\ Becomes(r, Over(run[r]))
       \/ /\ run[r].pc \in {"ok", "saved"}
          /\ \E retryable \in BOOLEAN :
               Becomes(r, [run[r] EXCEPT !.pc = "err", !.retry = retryable])
    /\ UNCHANGED <<row, age, worker, call, resolved>>

-----------------------------------------------------------------------------
(* Worker processes end and are started again by the platform.             *)

Restarted(w) ==
    /\ run' = [r \in Run |-> IF r[1] = w THEN Idle ELSE run[r]]
    /\ worker' = [worker EXCEPT ![w] = [draining |-> FALSE, ticks |-> 0]]

Crash(w) ==
    /\ faults < MaxFaults
    /\ faults' = faults + 1
    /\ Restarted(w)
    /\ UNCHANGED <<row, age, call, resolved>>

\* stop(): SIGTERM clears the timers ...
Drain(w) ==
    /\ faults < MaxFaults
    /\ ~worker[w].draining
    /\ faults' = faults + 1
    /\ worker' = [worker EXCEPT ![w] = [@ EXCEPT !.draining = TRUE]]
    /\ UNCHANGED <<row, age, run, call, resolved>>

\* ... and three seconds later the process exits, whatever is in flight.
Exit(w) ==
    /\ worker[w].draining
    /\ Restarted(w)
    /\ UNCHANGED <<row, age, call, resolved, faults>>

-----------------------------------------------------------------------------
(* Other processes.                                                        *)

\* enqueue of a key that has no row; the unique index makes it one step.
EnqueueNew(j) ==
    /\ row[j] = Absent
    /\ \E d \in Delays : row' = [row EXCEPT ![j] = New(j, d)]
    /\ UNCHANGED <<age, run, worker, call, resolved, faults>>

\* What each request accepts, judged on the row it reads.
Accepts(op, j) ==
    CASE op = "rearm" -> row[j].status \notin ActiveOrDone
      [] op = "retry" -> row[j].status \in {"failed", "dead_lettered"}
      [] op = "cancel" -> row[j].status \in CancellableBeforeRun
                          /\ j \in Cancellable
      [] op = "correlate" -> TRUE

\* Enqueues of one key are serialised: every caller holds the lock of the
\* privacy request or media asset the key is made from.
KeyFree(j) ==
    \A c \in Caller : ~(call[c].pc = "read" /\ call[c].op = "rearm"
                        /\ call[c].job = j)

CallRead(c) ==
    /\ call[c].pc = "ready"
    /\ \E op \in Ops, j \in Job :
         /\ row[j] # Absent
         /\ op = "rearm" => KeyFree(j)
         /\ call' = [call EXCEPT ![c] =
              IF Accepts(op, j)
              THEN [pc |-> "read", op |-> op, job |-> j, row |-> row[j]]
              ELSE Done]
    /\ UNCHANGED <<row, age, run, worker, resolved, faults>>

Written(op, x) ==
    CASE op = "rearm" -> RearmedRow(x)
      [] op = "retry" -> RetriedRow(x)
      [] op = "cancel" -> CancelledRow(x)
      [] op = "correlate" -> x

CallSave(c) ==
    /\ call[c].pc = "read"
    /\ row' = [row EXCEPT ![call[c].job] = Written(call[c].op, call[c].row)]
    /\ call' = [call EXCEPT ![c] = Done]
    /\ UNCHANGED <<age, run, worker, resolved, faults>>

-----------------------------------------------------------------------------
(* Time.  It cannot pass a timer that is due.  Under PromptDb it passes    *)
(* only while no database call is in flight.                               *)

AtRest(r) == run[r].pc \in {"idle", "handle"} /\ run[r].hand # "reporting"

MayPass ==
    /\ \A r \in Run : run[r].pc = "handle" => run[r].elapsed < Timeout
    /\ PromptDb => /\ \A r \in Run : AtRest(r)
                   /\ \A c \in Caller : call[c].pc # "read"

\* scheduledFor and nextRetryAt are dates: they come nearer in snapshots too.
Nearer(x) == IF x.wait > 0 THEN [x EXCEPT !.wait = @ - 1] ELSE x

TimePasses ==
    /\ MayPass
    /\ age' = [j \in Job |-> IF age[j] < Stale THEN age[j] + 1 ELSE Stale]
    /\ row' = [j \in Job |-> Nearer(row[j])]
    /\ run' = [r \in Run |->
         [run[r] EXCEPT
            !.elapsed = IF run[r].pc = "handle" THEN @ + 1 ELSE @,
            !.pend = Nearer(@)]]
    /\ call' = [c \in Caller |-> IF call[c].pc = "read"
                                  THEN [call[c] EXCEPT !.row = Nearer(@)]
                                  ELSE call[c]]
    /\ UNCHANGED <<worker, resolved, faults>>

-----------------------------------------------------------------------------
TickStep(r) ==
    \/ Scan(r) \/ Reclaim(r) \/ ReclaimEnds(r)
    \/ Claim(r) \/ ClaimNothing(r) \/ Execute(r)
    \/ TimerFires(r) \/ Complete(r) \/ MarkCompleted(r) \/ Fail(r)

HandlerStep(r) ==
    \/ Resolve(r) \/ Reject(r) \/ LateHandlerEnds(r)
    \/ ReportRead(r) \/ ReportSave(r)

Next ==
    \/ \E r \in Run : StartTick(r) \/ TickStep(r) \/ HandlerStep(r)
                      \/ DbError(r)
    \/ \E w \in Worker : Crash(w) \/ Drain(w) \/ Exit(w)
    \/ \E j \in Job : EnqueueNew(j)
    \/ \E c \in Caller : CallRead(c) \/ CallSave(c)
    \/ TimePasses

Spec == Init /\ [][Next]_vars

(***************************************************************************)
(* Fairness.  Ticks are driven by setInterval and by promises that the     *)
(* event loop resumes; withTimeout bounds the wait for a handler; clocks   *)
(* advance.  Callers, database errors, crashes and shutdowns are never     *)
(* obliged to happen, and a handler is obliged to end only in the sense    *)
(* that its slot is not lost for ever.                                     *)
(***************************************************************************)
Fairness ==
    /\ SF_vars(TimePasses)
    /\ \A r \in Run : /\ WF_vars(StartTick(r))
                      /\ WF_vars(TickStep(r))
                      /\ WF_vars(ReportSave(r))
                      /\ SF_vars(LateHandlerEnds(r))
    /\ \A w \in Worker : WF_vars(Exit(w))

FairSpec == Spec /\ Fairness

-----------------------------------------------------------------------------
(* Properties.                                                             *)

\* A waiting row has an attempt left, a running row is inside its budget and
\* a dead-lettered row has used its budget up.
WithinBudget(x) ==
    /\ x.status \in CancellableBeforeRun => x.attempts < x.max
    /\ x.status = "running" => x.attempts \in 1..x.max
    /\ x.status = "dead_lettered" => x.attempts >= x.max

\* The retry budget of fail(), re-arm and admin retry fit together whatever
\* stale entity is saved over the row: no row can be claimed once too often
\* and none is dead-lettered with attempts left.
BudgetOK == \A j \in Job : WithinBudget(row[j])

\* complete() is only ever reached through the handler's result: whatever is
\* saved over the row, a job is not "completed" unless its handler returned.
NoPhantomCompletion ==
    \A j \in Job : row[j].status = "completed" => j \in resolved

\* The tick r holds a job.
Live(r) == run[r].pc \in Holding

\* claimNext, the timeout and reclaimStalled together: no two ticks, of one
\* process or of several, hold the same job (a handler that has timed out is
\* no longer held by a tick).
Exclusive ==
    \A r, s \in Run : Live(r) /\ Live(s) /\ run[r].job = run[s].job => r = s

Pending == {"queued", "scheduled", "retry_scheduled", "running"}

\* Every job the queue has accepted comes to rest, whichever worker dies or
\* shuts down on the way: claims, retries, timeouts and reclaims lead to
\* completed, failed, dead_lettered or cancelled.
JobsSettle ==
    \A j \in Job : row[j].status \in Pending ~> row[j].status \notin Pending

=============================================================================
