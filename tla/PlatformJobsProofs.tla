------------------------- MODULE PlatformJobsProofs -------------------------
(***************************************************************************)
(* Theorems about the job queue, for any number of jobs, workers,          *)
(* overlapping ticks and callers, any retry budgets and any fault bound.   *)
(***************************************************************************)
EXTENDS PlatformJobsLease, TLAPS

-----------------------------------------------------------------------------
(* What the row operators return.                                          *)

LEMMA AbsentIsRow == Absent \in Row
BY DEF Absent, Row, Status

LEMMA IdleIsRunState == Idle \in RunState
BY AbsentIsRow DEF Idle, RunState, RunShape, RunPc, Holding

LEMMA ReadyIsCallState == Ready \in CallState /\ Done \in CallState
BY AbsentIsRow DEF Ready, Done, CallState

LEMMA RowOperatorsType ==
    ASSUME NEW x \in Row, NEW b \in BOOLEAN
    PROVE  /\ Claimed(x) \in Row
           /\ CompletedRow(x) \in Row
           /\ FailedRow(x, b) \in Row
           /\ RearmedRow(x) \in Row
           /\ RetriedRow(x) \in Row
           /\ CancelledRow(x) \in Row
           /\ Nearer(x) \in Row
<1> USE JobsAssumption DEF Row, Status
<1>1. Claimed(x) \in Row
  BY DEF Claimed
<1>2. CompletedRow(x) \in Row /\ CancelledRow(x) \in Row
  BY DEF CompletedRow, CancelledRow
<1>3. FailedRow(x, b) \in Row
  BY DEF FailedRow
<1>4. RearmedRow(x) \in Row /\ RetriedRow(x) \in Row
  BY DEF RearmedRow, RetriedRow, Max2
<1>5. Nearer(x) \in Row
  <2>1. x.wait > 0 => x.wait - 1 \in Nat
    OBVIOUS
  <2>2. \A n \in Nat : [x EXCEPT !.wait = n] \in Row
    OBVIOUS
  <2> QED
    BY <2>1, <2>2 DEF Nearer
<1> QED
  BY <1>1, <1>2, <1>3, <1>4, <1>5

LEMMA NewType ==
    ASSUME NEW j \in Job, NEW d \in Delays
    PROVE  New(j, d) \in Row
BY JobsAssumption DEF New, Row, Status

LEMMA OverType ==
    ASSUME NEW x \in RunState
    PROVE  Over(x) \in RunState
BY IdleIsRunState DEF Over, RunState, RunShape, Holding, RunPc, Idle

LEMMA WrittenType ==
    ASSUME NEW x \in Row, NEW op \in CallerOps
    PROVE  Written(op, x) \in Row
BY RowOperatorsType DEF Written, CallerOps

-----------------------------------------------------------------------------
(* Type correctness.                                                       *)

LEMMA StaleNat == Grace \in Nat /\ Stale \in Nat /\ Stale = Grace + 1
BY JobsAssumption DEF Stale, Grace

LEMMA FaultCount ==
    ASSUME NEW n \in 0..MaxFaults, n < MaxFaults
    PROVE  n + 1 \in 0..MaxFaults
BY JobsAssumption

LEMMA BecomesType ==
    ASSUME TypeOK, NEW r \in Run, NEW x \in RunState, Becomes(r, x)
    PROVE  run' \in [Run -> RunState]
BY DEF TypeOK, Becomes

LEMMA RestartedType ==
    ASSUME TypeOK, NEW w \in Worker, Restarted(w)
    PROVE  /\ run' \in [Run -> RunState]
           /\ worker' \in [Worker -> WorkerState]
BY IdleIsRunState DEF TypeOK, Restarted, WorkerState

LEMMA TypeInductive == TypeOK /\ [Next]_vars => TypeOK'
<1> USE JobsAssumption
<1> SUFFICES ASSUME TypeOK, [Next]_vars PROVE TypeOK'
  OBVIOUS
<1>0. \A r \in Run : r[1] \in Worker /\ run[r] \in RunState
  BY DEF Run, TypeOK
<1>1. ASSUME NEW r \in Run, StartTick(r) PROVE TypeOK'
  <2> DEFINE n == (worker[r[1]].ticks + 1) % ReclaimEvery
  <2>1. n \in Nat
    BY <1>0 DEF TypeOK, WorkerState
  <2> HIDE DEF n
  <2>2. worker' = [worker EXCEPT ![r[1]] = [@ EXCEPT !.ticks = n]]
    BY <1>1 DEF StartTick, n
  <2>2a. [worker[r[1]] EXCEPT !.ticks = n] \in WorkerState
    BY <1>0, <2>1 DEF TypeOK, WorkerState
  <2>3. worker' \in [Worker -> WorkerState]
    BY <2>2, <2>2a DEF TypeOK
  <2>4. [Idle EXCEPT !.pc = IF n = 0 THEN "scan" ELSE "claim"] \in RunState
    BY IdleIsRunState DEF RunState, RunShape, RunPc, Holding
  <2>5. run' \in [Run -> RunState]
    BY <1>1, <2>4, BecomesType DEF StartTick, n
  <2> QED
    BY <1>1, <2>3, <2>5 DEF StartTick, TypeOK
<1>2. ASSUME NEW r \in Run, Scan(r) PROVE TypeOK'
  <2>1. Stalled \in SUBSET (Job \X Row)
    BY DEF Stalled, TypeOK
  <2>2. [run[r] EXCEPT !.pc = "reclaim", !.todo = Stalled] \in RunState
    BY ZenonT(60), <1>0, <2>1 DEF RunState, RunShape, RunPc, Holding
  <2> QED
    BY <1>2, <2>2, BecomesType DEF Scan, TypeOK
<1>3. ASSUME NEW r \in Run, Reclaim(r) PROVE TypeOK'
  <2>1. PICK t \in run[r].todo :
          /\ row' = [row EXCEPT ![t[1]] = FailedRow(t[2], TRUE)]
          /\ Becomes(r, [run[r] EXCEPT !.todo = @ \ {t}])
    BY <1>3 DEF Reclaim
  <2>2. t[1] \in Job /\ t[2] \in Row
    BY <1>0, <2>1 DEF RunState, RunShape, Holding
  <2>3. row' \in [Job -> Row]
    BY <2>1, <2>2, RowOperatorsType DEF TypeOK
  <2>4. run[r].todo \ {t} \in SUBSET (Job \X Row)
    BY <1>0 DEF RunState, RunShape, Holding
  <2>5. [run[r] EXCEPT !.todo = @ \ {t}] \in RunState
    BY <1>0, <2>4 DEF RunState, RunShape, Holding
  <2> QED
    BY <1>3, <2>1, <2>3, <2>5, BecomesType DEF Reclaim, TypeOK
<1>4. ASSUME NEW r \in Run, ReclaimEnds(r) PROVE TypeOK'
  <2>1. [run[r] EXCEPT !.pc = "claim"] \in RunState
    BY <1>0 DEF RunState, RunShape, RunPc, Holding
  <2> QED
    BY <1>4, <2>1, BecomesType DEF ReclaimEnds, TypeOK
<1>5. ASSUME NEW r \in Run, Claim(r) PROVE TypeOK'
  <2>1. PICK j \in Due(r[1]) :
          /\ row' = [row EXCEPT ![j] = Claimed(@)]
          /\ age' = [age EXCEPT ![j] = 0]
          /\ Becomes(r, [run[r] EXCEPT !.pc = "mark", !.job = j,
                                       !.held = Claimed(row[j])])
    BY <1>5 DEF Claim
  <2>2. j \in Job /\ Claimed(row[j]) \in Row
    BY <1>0, <2>1, RowOperatorsType DEF Due, TypeOK
  <2>3. [run[r] EXCEPT !.pc = "mark", !.job = j, !.held = Claimed(row[j])]
          \in RunState
    BY ZenonT(60), <1>0, <2>2 DEF RunState, RunShape, RunPc, Holding
  <2>4. age' \in [Job -> 0..Stale]
    BY <2>1, <2>2, StaleNat DEF TypeOK
  <2>5. row' \in [Job -> Row]
    BY <2>1, <2>2 DEF TypeOK
  <2> QED
    BY <1>5, <2>1, <2>3, <2>4, <2>5, BecomesType DEF Claim, TypeOK
<1>6. ASSUME NEW r \in Run, ClaimNothing(r) PROVE TypeOK'
  BY <1>6, <1>0, OverType, BecomesType DEF ClaimNothing, TypeOK
<1>7. ASSUME NEW r \in Run, Execute(r) PROVE TypeOK'
  <2>1. /\ [run[r] EXCEPT !.pc = "handle", !.hand = "busy"] \in RunState
        /\ [run[r] EXCEPT !.pc = "err"] \in RunState
    BY ZenonT(60), <1>7, <1>0 DEF Execute, RunState, RunShape, RunPc, Holding
  <2> QED
    BY <1>7, <2>1, BecomesType DEF Execute, TypeOK
<1>8. ASSUME NEW r \in Run, TimerFires(r) PROVE TypeOK'
  <2>1. [run[r] EXCEPT !.pc = "err", !.retry = FALSE] \in RunState
    BY ZenonT(60), <1>8, <1>0 DEF TimerFires, RunState, RunShape, RunPc, Holding
  <2> QED
    BY <1>8, <2>1, BecomesType DEF TimerFires, TypeOK
<1>9. ASSUME NEW r \in Run, Complete(r) PROVE TypeOK'
  <2>1. CompletedRow(run[r].held) \in Row
    BY <1>0, RowOperatorsType DEF RunState, RunShape, Holding
  <2>2. row' \in [Job -> Row]
    BY <1>9, <2>1 DEF Complete, TypeOK
  <2>3. [run[r] EXCEPT !.pc = "saved"] \in RunState
    BY <1>9, <1>0 DEF Complete, RunState, RunShape, RunPc, Holding
  <2> QED
    BY <1>9, <2>2, <2>3, BecomesType DEF Complete, TypeOK
<1>10. ASSUME NEW r \in Run, MarkCompleted(r) PROVE TypeOK'
  BY <1>10, <1>0, OverType, BecomesType DEF MarkCompleted, TypeOK
<1>11. ASSUME NEW r \in Run, Fail(r) PROVE TypeOK'
  <2>1. FailedRow(run[r].held, run[r].retry) \in Row
    BY <1>0, RowOperatorsType DEF RunState, RunShape, Holding
  <2>2. row' \in [Job -> Row]
    BY <1>11, <2>1 DEF Fail, TypeOK
  <2> QED
    BY <1>11, <1>0, <2>2, OverType, BecomesType DEF Fail, TypeOK
<1>12. ASSUME NEW r \in Run, HandlerStep(r) PROVE TypeOK'
  <2>1. CASE Resolve(r)
    <3>1. [run[r] EXCEPT !.pc = "ok", !.hand = "none"] \in RunState
      BY ZenonT(60), <2>1, <1>0 DEF Resolve, RunState, RunShape, RunPc, Holding
    <3>2. run[r].job \in Job
      BY <2>1, <1>0 DEF Resolve, RunState, Holding
    <3> QED
      BY <2>1, <3>1, <3>2, BecomesType DEF Resolve, TypeOK
  <2>2. CASE Reject(r)
    <3>1. \A b \in BOOLEAN :
            [run[r] EXCEPT !.pc = "err", !.hand = "none", !.retry = b]
              \in RunState
      <4>1. run[r] \in RunShape /\ run[r].job \in Job
        BY <2>2, <1>0 DEF Reject, RunState, Holding
      <4> QED
        BY <4>1 DEF RunState, RunShape, RunPc
    <3> QED
      BY <2>2, <3>1, BecomesType DEF Reject, TypeOK
  <2>3. CASE LateHandlerEnds(r)
    <3>1. [run[r] EXCEPT !.hand = "none"] \in RunState
      BY <1>0 DEF RunState, RunShape, Holding
    <3> QED
      BY <2>3, <3>1, IdleIsRunState, BecomesType
         DEF LateHandlerEnds, TypeOK
  <2>4. CASE ReportRead(r)
    <3>1. run[r].job \in Job
      BY <2>4 DEF ReportRead, MayReport
    <3>2. [run[r] EXCEPT !.hand = "reporting", !.pend = row[run[r].job]]
            \in RunState
      BY ZenonT(60), <1>0, <3>1 DEF RunState, RunShape, Holding, TypeOK
    <3>3. age' \in [Job -> 0..Stale]
      BY <2>4, <3>1, StaleNat DEF ReportRead, TypeOK
    <3> QED
      BY <2>4, <3>2, <3>3, BecomesType DEF ReportRead, TypeOK
  <2>5. CASE ReportSave(r)
    <3>1. [run[r] EXCEPT !.hand = "busy", !.pend = Absent] \in RunState
      BY <1>0, AbsentIsRow DEF RunState, RunShape, Holding
    <3>2. run[r].pend \in Row
      BY <1>0 DEF RunState, RunShape, Holding
    <3>3. row' \in [Job -> Row]
      BY <2>5, <3>2 DEF ReportSave, TypeOK
    <3> QED
      BY <2>5, <3>1, <3>3, BecomesType DEF ReportSave, TypeOK
  <2> QED
    BY <1>12, <2>1, <2>2, <2>3, <2>4, <2>5 DEF HandlerStep
<1>13. ASSUME NEW r \in Run, DbError(r) PROVE TypeOK'
  <2>1. run[r].pc \in {"ok", "saved"} =>
          \A b \in BOOLEAN :
            [run[r] EXCEPT !.pc = "err", !.retry = b] \in RunState
    <3> SUFFICES ASSUME run[r].pc \in {"ok", "saved"}, NEW b \in BOOLEAN
                 PROVE  [run[r] EXCEPT !.pc = "err", !.retry = b] \in RunState
      OBVIOUS
    <3>1. run[r] \in RunShape /\ run[r].job \in Job
      BY <1>0 DEF RunState, Holding
    <3> QED
      BY <3>1 DEF RunState, RunShape, RunPc
  <2>2. run' \in [Run -> RunState]
    BY <1>13, <1>0, <2>1, OverType, BecomesType DEF DbError
  <2>3. faults' \in 0..MaxFaults
    BY <1>13, FaultCount DEF DbError, TypeOK
  <2> QED
    BY <1>13, <2>2, <2>3 DEF DbError, TypeOK
<1>14. ASSUME NEW w \in Worker, Crash(w) \/ Drain(w) \/ Exit(w)
       PROVE  TypeOK'
  <2>1. CASE Crash(w)
    BY <2>1, RestartedType, FaultCount DEF Crash, TypeOK
  <2>2. CASE Drain(w)
    <3>0. worker[w] \in WorkerState
      BY DEF TypeOK
    <3>1. [worker[w] EXCEPT !.draining = TRUE] \in WorkerState
      BY <3>0 DEF WorkerState
    <3> QED
      BY <2>2, <3>1, FaultCount DEF Drain, TypeOK
  <2>3. CASE Exit(w)
    BY <2>3, RestartedType DEF Exit, TypeOK
  <2> QED
    BY <1>14, <2>1, <2>2, <2>3
<1>15. ASSUME NEW j \in Job, EnqueueNew(j) PROVE TypeOK'
  BY <1>15, NewType DEF EnqueueNew, TypeOK
<1>16. ASSUME NEW c \in Caller, CallRead(c) PROVE TypeOK'
  <2>1. PICK op \in Ops, j \in Job :
          call' = [call EXCEPT ![c] =
            IF Accepts(op, j)
            THEN [pc |-> "read", op |-> op, job |-> j, row |-> row[j]]
            ELSE Done]
    BY <1>16 DEF CallRead
  <2>2. [pc |-> "read", op |-> op, job |-> j, row |-> row[j]] \in CallState
    BY DEF CallState, TypeOK
  <2> QED
    BY <1>16, <2>1, <2>2, ReadyIsCallState DEF CallRead, TypeOK
<1>17. ASSUME NEW c \in Caller, CallSave(c) PROVE TypeOK'
  <2>1. call[c].row \in Row
    BY AbsentIsRow DEF TypeOK, CallState
  <2>2. call[c].op \in CallerOps
    BY <1>17 DEF CallSave, TypeOK, CallState
  <2>3. Written(call[c].op, call[c].row) \in Row
    BY <2>1, <2>2, WrittenType
  <2> QED
    BY <1>17, <2>3, ReadyIsCallState DEF CallSave, TypeOK
<1>18. ASSUME TimePasses PROVE TypeOK'
  <2>1. \A j \in Job : Nearer(row[j]) \in Row
    BY RowOperatorsType DEF TypeOK
  <2>2. \A r \in Run :
          [run[r] EXCEPT
            !.elapsed = IF run[r].pc = "handle" THEN @ + 1 ELSE @,
            !.pend = Nearer(@)] \in RunState
    <3> SUFFICES ASSUME NEW r \in Run
                 PROVE  [run[r] EXCEPT
                          !.elapsed = IF run[r].pc = "handle" THEN @ + 1
                                      ELSE @,
                          !.pend = Nearer(@)] \in RunState
      OBVIOUS
    <3>1. (IF run[r].pc = "handle" THEN run[r].elapsed + 1
           ELSE run[r].elapsed) \in Nat
      BY <1>0 DEF RunState, RunShape, Holding
    <3>2. Nearer(run[r].pend) \in Row
      BY <1>0, RowOperatorsType DEF RunState, RunShape, Holding
    <3>3. \A n \in Nat, y \in Row :
            [run[r] EXCEPT !.elapsed = n, !.pend = y] \in RunState
      BY <1>0 DEF RunState, RunShape, Holding
    <3> QED
      BY <3>1, <3>2, <3>3
  <2>3. ASSUME NEW c \in Caller, call[c].pc = "read"
        PROVE  [call[c] EXCEPT !.row = Nearer(@)] \in CallState
    <3>1. call[c] \in [pc : {"read"}, op : CallerOps, job : Job, row : Row]
      BY <2>3 DEF TypeOK, CallState
    <3>2. Nearer(call[c].row) \in Row
      BY <3>1, RowOperatorsType
    <3> QED
      BY <3>1, <3>2 DEF CallState
  <2>4. age' \in [Job -> 0..Stale]
    <3>1. \A n \in 0..Stale :
            (IF n < Stale THEN n + 1 ELSE Stale) \in 0..Stale
      BY StaleNat
    <3> QED
      BY <1>18, <3>1 DEF TimePasses, TypeOK
  <2> QED
    BY <1>18, <2>1, <2>2, <2>3, <2>4 DEF TimePasses, TypeOK
<1>19. CASE UNCHANGED vars
  BY <1>19 DEF vars, TypeOK
<1> QED
  BY <1>1, <1>2, <1>3, <1>4, <1>5, <1>6, <1>7, <1>8, <1>9, <1>10, <1>11,
     <1>12, <1>13, <1>14, <1>15, <1>16, <1>17, <1>18, <1>19
     DEF Next, TickStep

\* Every row, entity, run and request keeps its shape through every handler,
\* fault and clock tick.
THEOREM TypeCorrect == Spec => []TypeOK
<1>1. Init => TypeOK
  BY AbsentIsRow, IdleIsRunState, ReadyIsCallState, StaleNat, JobsAssumption
     DEF Init, TypeOK, Stale, Grace, WorkerState
<1>2. TypeOK /\ [Next]_vars => TypeOK'
  BY TypeInductive
<1> QED
  BY <1>1, <1>2, PTL DEF Spec

-----------------------------------------------------------------------------
(* The retry budget.  A save writes an entity read earlier, so BudgetOK    *)
(* must hold of every entity anybody still holds: the claimed job of each  *)
(* tick, the entity a progress report will save, the stalled jobs a        *)
(* reclaim has listed and the rows the callers have read.                  *)

GoodRow(j, x, finished) ==
    WithinBudget(x) /\ (x.status = "completed" => j \in finished)

GoodRun(x, finished) ==
    /\ GoodRow(x.job, x.held, finished)
    /\ GoodRow(x.job, x.pend, finished)
    /\ x.pc \in {"ok", "saved"} => x.job \in finished
    /\ \A t \in x.todo : GoodRow(t[1], t[2], finished)
    /\ x.hand # "reporting" => x.pend = Absent
    /\ x.pc \in {"scan", "reclaim", "claim", "mark"} => x.hand = "none"

RowsGood == \A j \in Job : GoodRow(j, row[j], resolved)
RunsGood == \A r \in Run : GoodRun(run[r], resolved)
CallsGood == \A c \in Caller : GoodRow(call[c].job, call[c].row, resolved)

SnapshotsGood == RowsGood /\ RunsGood /\ CallsGood

LEMMA AbsentGood == ASSUME NEW j, NEW S PROVE GoodRow(j, Absent, S)
BY DEF GoodRow, WithinBudget, Absent, CancellableBeforeRun

LEMMA IdleGood == ASSUME NEW S PROVE GoodRun(Idle, S)
BY AbsentGood DEF Idle, GoodRun

LEMMA OverGood ==
    ASSUME NEW x \in RunState, NEW S, GoodRun(x, S)
    PROVE  GoodRun(Over(x), S)
BY IdleGood, AbsentGood
   DEF Over, Idle, GoodRun, RunState, RunShape, Holding, RunPc

LEMMA GoodRowMonotone ==
    ASSUME NEW j, NEW x, NEW S, NEW T, S \subseteq T, GoodRow(j, x, S)
    PROVE  GoodRow(j, x, T)
BY DEF GoodRow

\* What each way of rewriting an entity does to its budget.
LEMMA RowOperatorsGood ==
    ASSUME NEW x \in Row, NEW j, NEW S, NEW b \in BOOLEAN, GoodRow(j, x, S)
    PROVE  /\ Claimable(x) => GoodRow(j, Claimed(x), S)
           /\ j \in S => GoodRow(j, CompletedRow(x), S)
           /\ GoodRow(j, FailedRow(x, b), S)
           /\ GoodRow(j, RearmedRow(x), S)
           /\ GoodRow(j, RetriedRow(x), S)
           /\ GoodRow(j, CancelledRow(x), S)
           /\ GoodRow(j, Nearer(x), S)
<1> USE DEF Row, GoodRow, WithinBudget, CancellableBeforeRun
<1>1. Claimable(x) => GoodRow(j, Claimed(x), S)
  BY DEF Claimable, Claimed
<1>2. (j \in S => GoodRow(j, CompletedRow(x), S))
      /\ GoodRow(j, CancelledRow(x), S)
  BY DEF CompletedRow, CancelledRow
<1>3. GoodRow(j, FailedRow(x, b), S)
  BY DEF FailedRow
<1>4. GoodRow(j, RearmedRow(x), S) /\ GoodRow(j, RetriedRow(x), S)
  BY DEF RearmedRow, RetriedRow, Max2
<1>5. GoodRow(j, Nearer(x), S)
  BY DEF Nearer
<1> QED
  BY <1>1, <1>2, <1>3, <1>4, <1>5

LEMMA NewGood ==
    ASSUME NEW j \in Job, NEW d \in Delays, NEW S
    PROVE  GoodRow(j, New(j, d), S)
BY JobsAssumption DEF New, GoodRow, WithinBudget, CancellableBeforeRun

LEMMA WrittenGood ==
    ASSUME NEW x \in Row, NEW op \in CallerOps, NEW j, NEW S, GoodRow(j, x, S)
    PROVE  GoodRow(j, Written(op, x), S)
BY RowOperatorsGood DEF Written, CallerOps

LEMMA BecomesGood ==
    ASSUME TypeOK, RunsGood, NEW r \in Run, NEW x, GoodRun(x, resolved),
           Becomes(r, x), resolved' = resolved
    PROVE  RunsGood'
BY DEF TypeOK, Becomes, RunsGood

LEMMA RowsGoodAfter ==
    ASSUME TypeOK, RowsGood, NEW j, NEW x, GoodRow(j, x, resolved),
           row' = [row EXCEPT ![j] = x], resolved' = resolved
    PROVE  RowsGood'
BY DEF TypeOK, RowsGood

LEMMA SnapshotsInductive ==
    TypeOK /\ SnapshotsGood /\ [Next]_vars => SnapshotsGood'
<1> SUFFICES ASSUME TypeOK, SnapshotsGood, [Next]_vars PROVE SnapshotsGood'
  OBVIOUS
<1>0. \A r \in Run : /\ r[1] \in Worker
                     /\ run[r] \in RunState
                     /\ run[r] \in RunShape
                     /\ GoodRun(run[r], resolved)
  BY DEF Run, TypeOK, SnapshotsGood, RunsGood, RunState
<1>00. RowsGood /\ RunsGood /\ CallsGood
  BY DEF SnapshotsGood
<1>1. ASSUME NEW r \in Run, StartTick(r) PROVE SnapshotsGood'
  <2>1. GoodRun([Idle EXCEPT !.pc = IF (worker[r[1]].ticks + 1) % ReclaimEvery = 0
                                    THEN "scan" ELSE "claim"], resolved)
    BY IdleGood DEF Idle, GoodRun
  <2> QED
    BY <1>1, <1>00, <2>1, BecomesGood
       DEF StartTick, SnapshotsGood, RowsGood, CallsGood
<1>2. ASSUME NEW r \in Run, Scan(r) PROVE SnapshotsGood'
  <2>1. \A t \in Stalled : GoodRow(t[1], t[2], resolved)
    BY <1>00 DEF Stalled, RowsGood
  <2>2. GoodRun([run[r] EXCEPT !.pc = "reclaim", !.todo = Stalled], resolved)
    BY <1>2, <1>0, <2>1 DEF Scan, GoodRun, RunShape
  <2> QED
    BY <1>2, <1>00, <2>2, BecomesGood
       DEF Scan, SnapshotsGood, RowsGood, CallsGood
<1>3. ASSUME NEW r \in Run, Reclaim(r) PROVE SnapshotsGood'
  <2>1. PICK t \in run[r].todo :
          /\ row' = [row EXCEPT ![t[1]] = FailedRow(t[2], TRUE)]
          /\ Becomes(r, [run[r] EXCEPT !.todo = @ \ {t}])
    BY <1>3 DEF Reclaim
  <2>2. t[2] \in Row /\ GoodRow(t[1], t[2], resolved)
    BY <1>0, <2>1 DEF RunShape, GoodRun
  <2>3. GoodRow(t[1], FailedRow(t[2], TRUE), resolved)
    BY <2>2, RowOperatorsGood
  <2>4. GoodRun([run[r] EXCEPT !.todo = @ \ {t}], resolved)
    BY <1>0 DEF GoodRun, RunShape
  <2>5. resolved' = resolved /\ call' = call
    BY <1>3 DEF Reclaim
  <2>6. RowsGood'
    BY <2>1, <2>3, <2>5, <1>00, RowsGoodAfter
  <2>7. RunsGood'
    BY <2>1, <2>4, <2>5, <1>00, BecomesGood
  <2> QED
    BY <2>5, <2>6, <2>7, <1>00 DEF SnapshotsGood, CallsGood
<1>4. ASSUME NEW r \in Run, ReclaimEnds(r) PROVE SnapshotsGood'
  <2>1. GoodRun([run[r] EXCEPT !.pc = "claim"], resolved)
    BY <1>4, <1>0 DEF ReclaimEnds, GoodRun, RunShape
  <2> QED
    BY <1>4, <1>00, <2>1, BecomesGood
       DEF ReclaimEnds, SnapshotsGood, RowsGood, CallsGood
<1>5. ASSUME NEW r \in Run, Claim(r) PROVE SnapshotsGood'
  <2>1. PICK j \in Due(r[1]) :
          /\ row' = [row EXCEPT ![j] = Claimed(@)]
          /\ Becomes(r, [run[r] EXCEPT !.pc = "mark", !.job = j,
                                       !.held = Claimed(row[j])])
    BY <1>5 DEF Claim
  <2>2. j \in Job /\ Claimable(row[j]) /\ row[j] \in Row
    BY <1>0, <2>1, JobsAssumption DEF Due, TypeOK
  <2>3. GoodRow(j, Claimed(row[j]), resolved)
    BY <2>2, <1>00, RowOperatorsGood DEF RowsGood
  <2>4. run[r].pend = Absent
    BY <1>5, <1>0 DEF Claim, GoodRun
  <2>5. GoodRun([run[r] EXCEPT !.pc = "mark", !.job = j,
                               !.held = Claimed(row[j])], resolved)
    <3>1. run[r].hand = "none" /\ \A t \in run[r].todo : GoodRow(t[1], t[2], resolved)
      BY <1>5, <1>0 DEF Claim, GoodRun
    <3> QED
      BY <1>0, <2>3, <2>4, <3>1, AbsentGood DEF GoodRun, RunShape
  <2>6. resolved' = resolved /\ call' = call
    BY <1>5 DEF Claim
  <2>7. RowsGood'
    BY <2>1, <2>3, <2>6, <1>00, RowsGoodAfter
  <2>8. RunsGood'
    BY <2>1, <2>5, <2>6, <1>00, BecomesGood
  <2> QED
    BY <2>6, <2>7, <2>8, <1>00 DEF SnapshotsGood, CallsGood
<1>6. ASSUME NEW r \in Run, ClaimNothing(r) PROVE SnapshotsGood'
  BY <1>6, <1>0, <1>00, OverGood, BecomesGood
     DEF ClaimNothing, SnapshotsGood, RowsGood, CallsGood
<1>7. ASSUME NEW r \in Run, Execute(r) PROVE SnapshotsGood'
  <2>1. /\ GoodRun([run[r] EXCEPT !.pc = "handle", !.hand = "busy"], resolved)
        /\ GoodRun([run[r] EXCEPT !.pc = "err"], resolved)
    BY <1>7, <1>0 DEF Execute, GoodRun, RunShape
  <2> QED
    BY <1>7, <1>00, <2>1, BecomesGood
       DEF Execute, SnapshotsGood, RowsGood, CallsGood
<1>8. ASSUME NEW r \in Run, TimerFires(r) PROVE SnapshotsGood'
  <2>1. GoodRun([run[r] EXCEPT !.pc = "err", !.retry = FALSE], resolved)
    BY <1>8, <1>0 DEF TimerFires, GoodRun, RunShape
  <2> QED
    BY <1>8, <1>00, <2>1, BecomesGood
       DEF TimerFires, SnapshotsGood, RowsGood, CallsGood
<1>9. ASSUME NEW r \in Run, Complete(r) PROVE SnapshotsGood'
  <2>1. /\ run[r].held \in Row
        /\ GoodRow(run[r].job, run[r].held, resolved)
        /\ run[r].job \in resolved
    BY <1>9, <1>0 DEF Complete, RunShape, GoodRun
  <2>2. GoodRow(run[r].job, CompletedRow(run[r].held), resolved)
    BY <2>1, RowOperatorsGood
  <2>3. GoodRun([run[r] EXCEPT !.pc = "saved"], resolved)
    BY <1>0, <2>1 DEF GoodRun, RunShape
  <2>4. resolved' = resolved /\ call' = call
    BY <1>9 DEF Complete
  <2>5. RowsGood'
    BY <1>9, <2>2, <2>4, <1>00, RowsGoodAfter DEF Complete
  <2>6. RunsGood'
    BY <1>9, <2>3, <2>4, <1>00, BecomesGood DEF Complete
  <2> QED
    BY <2>4, <2>5, <2>6, <1>00 DEF SnapshotsGood, CallsGood
<1>10. ASSUME NEW r \in Run, MarkCompleted(r) PROVE SnapshotsGood'
  BY <1>10, <1>0, <1>00, OverGood, BecomesGood
     DEF MarkCompleted, SnapshotsGood, RowsGood, CallsGood
<1>11. ASSUME NEW r \in Run, Fail(r) PROVE SnapshotsGood'
  <2>1. /\ run[r].held \in Row
        /\ run[r].retry \in BOOLEAN
        /\ GoodRow(run[r].job, run[r].held, resolved)
    BY <1>0 DEF RunShape, GoodRun
  <2>2. GoodRow(run[r].job, FailedRow(run[r].held, run[r].retry), resolved)
    BY <2>1, RowOperatorsGood
  <2>3. resolved' = resolved /\ call' = call
    BY <1>11 DEF Fail
  <2>4. RowsGood'
    BY <1>11, <2>2, <2>3, <1>00, RowsGoodAfter DEF Fail
  <2>5. RunsGood'
    BY <1>11, <1>0, <2>3, <1>00, OverGood, BecomesGood DEF Fail
  <2> QED
    BY <2>3, <2>4, <2>5, <1>00 DEF SnapshotsGood, CallsGood
<1>12. ASSUME NEW r \in Run, HandlerStep(r) PROVE SnapshotsGood'
  <2>1. CASE Resolve(r)
    <3>1. resolved \subseteq resolved' /\ run[r].job \in resolved'
      BY <2>1 DEF Resolve
    <3>2. RowsGood' /\ CallsGood'
      BY <2>1, <3>1, <1>00, GoodRowMonotone
         DEF Resolve, RowsGood, CallsGood
    <3>3. \A s \in Run : GoodRun(run[s], resolved')
      BY <3>1, <1>0, GoodRowMonotone DEF GoodRun
    <3>4. GoodRun([run[r] EXCEPT !.pc = "ok", !.hand = "none"], resolved')
      BY <2>1, <1>0, <3>1, <3>3 DEF Resolve, GoodRun, RunShape
    <3>5. RunsGood'
      BY <2>1, <3>3, <3>4 DEF Resolve, Becomes, RunsGood, TypeOK
    <3> QED
      BY <3>2, <3>5 DEF SnapshotsGood
  <2>2. CASE Reject(r)
    <3>1. \A b \in BOOLEAN :
            GoodRun([run[r] EXCEPT !.pc = "err", !.hand = "none", !.retry = b],
                    resolved)
      BY <2>2, <1>0 DEF Reject, GoodRun, RunShape
    <3> QED
      BY <2>2, <1>00, <3>1, BecomesGood
         DEF Reject, SnapshotsGood, RowsGood, CallsGood
  <2>3. CASE LateHandlerEnds(r)
    <3>1. GoodRun([run[r] EXCEPT !.hand = "none"], resolved)
      BY <2>3, <1>0 DEF LateHandlerEnds, GoodRun, RunShape
    <3> QED
      BY <2>3, <1>00, <3>1, IdleGood, BecomesGood
         DEF LateHandlerEnds, SnapshotsGood, RowsGood, CallsGood
  <2>4. CASE ReportRead(r)
    <3>1. run[r].job \in Job
      BY <2>4, JobsAssumption DEF ReportRead, MayReport
    <3>2. GoodRow(run[r].job, row[run[r].job], resolved)
      BY <3>1, <1>00 DEF RowsGood
    <3>3. GoodRun([run[r] EXCEPT !.hand = "reporting",
                                 !.pend = row[run[r].job]], resolved)
      BY <2>4, <1>0, <3>2 DEF ReportRead, GoodRun, RunShape
    <3> QED
      BY <2>4, <1>00, <3>3, BecomesGood
         DEF ReportRead, SnapshotsGood, RowsGood, CallsGood
  <2>5. CASE ReportSave(r)
    <3>1. GoodRow(run[r].job, run[r].pend, resolved)
      BY <1>0 DEF GoodRun
    <3>2. GoodRun([run[r] EXCEPT !.hand = "busy", !.pend = Absent], resolved)
      BY <2>5, <1>0, AbsentGood DEF ReportSave, GoodRun, RunShape
    <3>3. resolved' = resolved /\ call' = call
      BY <2>5 DEF ReportSave
    <3>4. RowsGood'
      BY <2>5, <3>1, <3>3, <1>00, RowsGoodAfter DEF ReportSave
    <3>5. RunsGood'
      BY <2>5, <3>2, <3>3, <1>00, BecomesGood DEF ReportSave
    <3> QED
      BY <3>3, <3>4, <3>5, <1>00 DEF SnapshotsGood, CallsGood
  <2> QED
    BY <1>12, <2>1, <2>2, <2>3, <2>4, <2>5 DEF HandlerStep
<1>13. ASSUME NEW r \in Run, DbError(r) PROVE SnapshotsGood'
  <2>1. run[r].pc \in {"ok", "saved"} =>
          \A b \in BOOLEAN :
            GoodRun([run[r] EXCEPT !.pc = "err", !.retry = b], resolved)
    BY <1>0 DEF GoodRun, RunShape
  <2> QED
    BY <1>13, <1>0, <1>00, <2>1, OverGood, BecomesGood
       DEF DbError, SnapshotsGood, RowsGood, CallsGood
<1>14. ASSUME NEW w \in Worker, Crash(w) \/ Drain(w) \/ Exit(w)
       PROVE  SnapshotsGood'
  <2>1. row' = row /\ call' = call /\ resolved' = resolved
    BY <1>14 DEF Crash, Drain, Exit
  <2>2. RunsGood'
    BY <1>14, <1>00, IdleGood
       DEF Crash, Drain, Exit, Restarted, RunsGood
  <2> QED
    BY <2>1, <2>2, <1>00 DEF SnapshotsGood, RowsGood, CallsGood
<1>15. ASSUME NEW j \in Job, EnqueueNew(j) PROVE SnapshotsGood'
  <2>1. PICK d \in Delays : row' = [row EXCEPT ![j] = New(j, d)]
    BY <1>15 DEF EnqueueNew
  <2>2. resolved' = resolved /\ call' = call /\ run' = run
    BY <1>15 DEF EnqueueNew
  <2>3. RowsGood'
    BY <2>1, <2>2, <1>00, NewGood, RowsGoodAfter
  <2> QED
    BY <2>2, <2>3, <1>00 DEF SnapshotsGood, RunsGood, CallsGood
<1>16. ASSUME NEW c \in Caller, CallRead(c) PROVE SnapshotsGood'
  <2>1. PICK op \in Ops, j \in Job :
          call' = [call EXCEPT ![c] =
            IF Accepts(op, j)
            THEN [pc |-> "read", op |-> op, job |-> j, row |-> row[j]]
            ELSE Done]
    BY <1>16 DEF CallRead
  <2>2. CallsGood'
    BY <1>16, <2>1, <1>00, AbsentGood
       DEF CallRead, CallsGood, RowsGood, TypeOK, Done, Ready
  <2> QED
    BY <1>16, <2>2, <1>00 DEF CallRead, SnapshotsGood, RowsGood, RunsGood
<1>17. ASSUME NEW c \in Caller, CallSave(c) PROVE SnapshotsGood'
  <2>1. /\ call[c].row \in Row
        /\ call[c].op \in CallerOps
        /\ GoodRow(call[c].job, call[c].row, resolved)
    BY <1>17, <1>00, AbsentIsRow DEF CallSave, TypeOK, CallState, CallsGood
  <2>2. GoodRow(call[c].job, Written(call[c].op, call[c].row), resolved)
    BY <2>1, WrittenGood
  <2>3. resolved' = resolved /\ run' = run
    BY <1>17 DEF CallSave
  <2>4. RowsGood'
    BY <1>17, <2>2, <2>3, <1>00, RowsGoodAfter DEF CallSave
  <2>5. CallsGood'
    BY <1>17, <2>3, <1>00, AbsentGood
       DEF CallSave, CallsGood, TypeOK, Done, Ready
  <2> QED
    BY <2>3, <2>4, <2>5, <1>00 DEF SnapshotsGood, RunsGood
<1>18. ASSUME TimePasses PROVE SnapshotsGood'
  <2>1. resolved' = resolved
    BY <1>18 DEF TimePasses
  <2>2. RowsGood'
    BY <1>18, <2>1, <1>00, RowOperatorsGood DEF TimePasses, RowsGood, TypeOK
  <2>3. CallsGood'
    <3> SUFFICES ASSUME NEW c \in Caller
                 PROVE  GoodRow(call'[c].job, call'[c].row, resolved)
      BY <2>1 DEF CallsGood
    <3>1. call[c].row \in Row /\ GoodRow(call[c].job, call[c].row, resolved)
      BY <1>00, AbsentIsRow DEF TypeOK, CallState, CallsGood
    <3>2. CASE call[c].pc = "read"
      <4>1. call'[c] = [call[c] EXCEPT !.row = Nearer(@)]
        BY <1>18, <3>2 DEF TimePasses
      <4>2. call'[c].job = call[c].job /\ call'[c].row = Nearer(call[c].row)
        BY <4>1, <3>2 DEF TypeOK, CallState
      <4> QED
        BY <3>1, <4>2, RowOperatorsGood
    <3>3. CASE call[c].pc # "read"
      BY <1>18, <3>1, <3>3 DEF TimePasses
    <3> QED
      BY <3>2, <3>3
  <2>4. RunsGood'
    <3> SUFFICES ASSUME NEW r \in Run PROVE GoodRun(run'[r], resolved)
      BY <2>1 DEF RunsGood
    <3> DEFINE x == run[r]
    <3> DEFINE y == run'[r]
    <3>1. /\ x \in RunShape
          /\ GoodRun(x, resolved)
      BY <1>0
    <3>2. y = [x EXCEPT !.elapsed = IF x.pc = "handle" THEN @ + 1 ELSE @,
                        !.pend = Nearer(@)]
      BY <1>18 DEF TimePasses
    <3> HIDE DEF x, y
    <3>3. /\ y.pc = x.pc /\ y.job = x.job /\ y.held = x.held
          /\ y.hand = x.hand /\ y.todo = x.todo /\ y.pend = Nearer(x.pend)
      BY <3>1, <3>2 DEF RunShape
    <3>4. GoodRow(x.job, Nearer(x.pend), resolved)
      BY <3>1, RowOperatorsGood DEF RunShape, GoodRun
    <3>5. Nearer(Absent) = Absent
      BY DEF Nearer, Absent
    <3>6. GoodRun(y, resolved)
      BY <3>1, <3>3, <3>4, <3>5 DEF GoodRun
    <3> QED
      BY <3>6 DEF y
  <2> QED
    BY <2>2, <2>3, <2>4 DEF SnapshotsGood
<1>19. CASE UNCHANGED vars
  BY <1>19, <1>00 DEF vars, SnapshotsGood, RowsGood, RunsGood, CallsGood
<1> QED
  BY <1>1, <1>2, <1>3, <1>4, <1>5, <1>6, <1>7, <1>8, <1>9, <1>10, <1>11,
     <1>12, <1>13, <1>14, <1>15, <1>16, <1>17, <1>18, <1>19
     DEF Next, TickStep

THEOREM SnapshotsCorrect == Spec => []SnapshotsGood
<1>1. Init => SnapshotsGood
  BY AbsentGood, IdleGood
     DEF Init, SnapshotsGood, RowsGood, RunsGood, CallsGood, Ready
<1>2. TypeOK /\ SnapshotsGood /\ [Next]_vars => SnapshotsGood'
  BY SnapshotsInductive
<1> QED
  BY <1>1, <1>2, TypeCorrect, PTL DEF Spec

\* Whatever stale entity is saved over a row, a job waiting in the queue has
\* an attempt left, a running one is inside its budget and a dead-lettered
\* one has used it up.
THEOREM BudgetCorrect == Spec => []BudgetOK
<1>1. SnapshotsGood => BudgetOK
  BY DEF SnapshotsGood, RowsGood, GoodRow, BudgetOK
<1> QED
  BY <1>1, SnapshotsCorrect, PTL

\* No row becomes "completed" unless the job's handler returned a result.
THEOREM CompletionCorrect == Spec => []NoPhantomCompletion
<1>1. SnapshotsGood => NoPhantomCompletion
  BY DEF SnapshotsGood, RowsGood, GoodRow, NoPhantomCompletion
<1> QED
  BY <1>1, SnapshotsCorrect, PTL

-----------------------------------------------------------------------------
(* Exclusive leases.  With the workers alone at the table and calls that   *)
(* do not fail, the snapshots of a tick are not stale: nobody writes the   *)
(* row of a job that a tick holds, and a job listed as stalled is free     *)
(* until it has been failed.                                               *)

WorkersAlone == Ops = {} /\ DbMayFail = FALSE /\ PromptDb = TRUE /\ ReportsLate = {}

\* The job of a tick in state x is in the table as the tick knows it, and its
\* heartbeat is no older than its handler.
HeldFits(x) ==
    x.pc \in Holding =>
        /\ x.held.status = "running" /\ x.held.wait = 0
        /\ row[x.job] = IF x.pc = "saved" THEN CompletedRow(x.held) ELSE x.held
        /\ x.elapsed <= Timeout
        /\ x.pc # "saved" => age[x.job] <= x.elapsed

\* A report is made when the handler begins, while time stands still.
HandlerFits(x) ==
    /\ x.pc \in {"scan", "reclaim", "claim", "mark"} => x.hand = "none" /\ x.elapsed = 0
    /\ x.hand = "reporting" => x.pc = "handle" /\ x.elapsed = 0 /\ x.pend = row[x.job]

Free(j) == \A s \in Run : Live(s) => run[s].job # j

\* A job that was listed as stalled is free and runs, or has been failed meanwhile.
TodoFits(x) ==
    \A t \in x.todo :
        /\ x.pc = "reclaim" /\ Free(t[1]) /\ t[2].status = "running"
        /\ row[t[1]] \in {t[2], FailedRow(t[2], TRUE)}

RunFits(x) == HeldFits(x) /\ HandlerFits(x) /\ TodoFits(x)

LeaseFits ==
    /\ \A c \in Caller : call[c].pc # "read"
    /\ Exclusive
    /\ \A r \in Run : RunFits(run[r])

\* Parts of a state that another state of a tick may share.
LEMMA MoveFits ==
    ASSUME TypeOK, LeaseFits, NEW r \in Run, NEW x, Becomes(r, x), row' = row, age' = age, call' = call,
           RunFits(x), x.pc \in Holding => Live(r) /\ x.job = run[r].job
    PROVE  LeaseFits'
<1>1. \A s \in Run : run'[s] = IF s = r THEN x ELSE run[s]
  BY DEF Becomes, TypeOK
<1>2. \A s \in Run : Live(s)' => Live(s) /\ run'[s].job = run[s].job
  BY <1>1 DEF Live
<1>3. Exclusive'
  BY <1>2 DEF LeaseFits, Exclusive
<1>4. \A j : Free(j) => Free(j)'
  BY <1>2 DEF Free
<1>5. \A y : RunFits(y) => RunFits(y)'
  BY <1>4 DEF RunFits, HeldFits, HandlerFits, TodoFits
<1>6. \A s \in Run : RunFits(run[s])'
  <2> SUFFICES ASSUME NEW s \in Run PROVE RunFits(run[s])'
    OBVIOUS
  <2>1. PICK y : y = run'[s]
    OBVIOUS
  <2>2. RunFits(y)
    BY <1>1, <2>1 DEF LeaseFits
  <2>3. RunFits(y)'
    BY <1>5, <2>2
  <2> QED
    BY <2>1, <2>3 DEF RunFits, HeldFits, HandlerFits, TodoFits
<1> QED
  BY <1>3, <1>6 DEF LeaseFits

\* A tick that holds nothing, and one that is over.
LEMMA IdleFits == RunFits(Idle)
  BY DEF Idle, RunFits, HeldFits, HandlerFits, TodoFits, Holding

LEMMA OverFits ==
    ASSUME NEW x \in RunState, HandlerFits(x), x.pc # "handle"
    PROVE  RunFits(Over(x)) /\ Over(x).pc = "idle"
<1>1. CASE x.hand = "none"
  BY <1>1, IdleFits DEF Over, Idle
<1>2. CASE x.hand # "none"
  <2>1. /\ Over(x).pc = "idle" /\ Over(x).hand = x.hand /\ Over(x).todo = {}
    BY <1>2 DEF Over, Idle
  <2>2. x.hand # "reporting"
    BY DEF HandlerFits
  <2> QED
    BY <2>1, <2>2 DEF RunFits, HeldFits, HandlerFits, TodoFits, Holding
<1> QED
  BY <1>1, <1>2

LEMMA OverStep ==
    ASSUME TypeOK, LeaseFits, NEW r \in Run, run[r].pc # "handle", Becomes(r, Over(run[r])),
           row' = row, age' = age, call' = call
    PROVE  LeaseFits'
<1>1. run[r] \in RunState /\ HandlerFits(run[r])
  BY DEF TypeOK, LeaseFits, RunFits
<1>2. RunFits(Over(run[r])) /\ Over(run[r]).pc = "idle"
  BY <1>1, OverFits
<1>3. PICK x : x = Over(run[r])
  OBVIOUS
<1>4. Becomes(r, x) /\ RunFits(x) /\ x.pc \notin Holding
  BY <1>2, <1>3 DEF Holding
<1> QED
  BY <1>4, MoveFits

\* What tick r has, by its place in the tick.
LEMMA RunIs ==
    ASSUME TypeOK, LeaseFits, NEW r \in Run
    PROVE  run[r] \in RunState /\ run[r] \in RunShape /\ HeldFits(run[r]) /\ HandlerFits(run[r]) /\ TodoFits(run[r])
  BY DEF TypeOK, LeaseFits, RunFits, RunState

LEMMA StartStep == ASSUME TypeOK, LeaseFits, NEW r \in Run, StartTick(r) PROVE LeaseFits'
<1>1. PICK pc \in {"scan", "claim"} : Becomes(r, [Idle EXCEPT !.pc = pc])
  BY DEF StartTick
<1>2. PICK x : x = [Idle EXCEPT !.pc = pc]
  OBVIOUS
<1>3. x.pc = pc /\ x.hand = "none" /\ x.elapsed = 0 /\ x.todo = {}
  BY <1>2 DEF Idle
<1>4. RunFits(x) /\ x.pc \notin Holding
  BY <1>3 DEF RunFits, HeldFits, HandlerFits, TodoFits, Holding
<1> QED
  BY <1>1, <1>2, <1>4, MoveFits DEF StartTick

\* A stalled job is held by no tick: the heartbeat of a job that is held is no
\* older than its handler, whose time is up long before.
LEMMA StalledAreFree ==
    ASSUME TypeOK, LeaseFits, NEW t \in Stalled
    PROVE  Free(t[1]) /\ t[2].status = "running" /\ row[t[1]] = t[2]
<1>1. PICK j \in Job : t = <<j, row[j]>> /\ row[j].status = "running" /\ age[j] > Grace
  BY DEF Stalled
<1>2. ASSUME NEW s \in Run, Live(s), run[s].job = j PROVE FALSE
  <2>1. HeldFits(run[s]) /\ run[s].pc \in Holding /\ run[s] \in RunShape
    BY <1>2, RunIs DEF Live
  <2>2. run[s].pc # "saved"
    <3>1. run[s].held \in Row
      BY <2>1 DEF RunShape
    <3>2. CompletedRow(run[s].held).status = "completed"
      BY <3>1 DEF CompletedRow, Row
    <3> QED
      BY <1>1, <1>2, <2>1, <3>2 DEF HeldFits
  <2>3. age[j] <= run[s].elapsed /\ run[s].elapsed <= Timeout /\ run[s].elapsed \in Nat
    BY <1>2, <2>1, <2>2 DEF HeldFits, RunShape
  <2>4. age[j] \in Nat /\ Timeout \in Nat
    BY JobsAssumption, StaleNat DEF TypeOK
  <2> QED
    BY <1>1, <2>3, <2>4 DEF Grace
<1> QED
  BY <1>1, <1>2 DEF Free

LEMMA ScanStep == ASSUME TypeOK, LeaseFits, NEW r \in Run, Scan(r) PROVE LeaseFits'
<1>1. PICK x : x = [run[r] EXCEPT !.pc = "reclaim", !.todo = Stalled]
  OBVIOUS
<1>2. x.pc = "reclaim" /\ x.todo = Stalled /\ x.hand = "none" /\ x.elapsed = 0
  BY <1>1, RunIs DEF Scan, RunShape, HandlerFits
<1>3. TodoFits(x)
  BY <1>2, StalledAreFree DEF TodoFits
<1>4. RunFits(x) /\ x.pc \notin Holding
  BY <1>2, <1>3 DEF RunFits, HeldFits, HandlerFits, Holding
<1> QED
  BY <1>1, <1>4, MoveFits DEF Scan

LEMMA ReclaimEndsStep == ASSUME TypeOK, LeaseFits, NEW r \in Run, ReclaimEnds(r) PROVE LeaseFits'
<1>1. PICK x : x = [run[r] EXCEPT !.pc = "claim"]
  OBVIOUS
<1>2. x.pc = "claim" /\ x.todo = {} /\ x.hand = "none" /\ x.elapsed = 0
  BY <1>1, RunIs DEF ReclaimEnds, RunShape, HandlerFits
<1>3. RunFits(x) /\ x.pc \notin Holding
  BY <1>2 DEF RunFits, HeldFits, HandlerFits, TodoFits, Holding
<1> QED
  BY <1>1, <1>3, MoveFits DEF ReclaimEnds

\* A tick goes on with the job it holds.
SameJob(x, r) ==
    x.todo = run[r].todo /\ x.job = run[r].job /\ x.held = run[r].held /\ x.elapsed = run[r].elapsed

LEMMA KeepFits ==
    ASSUME TypeOK, LeaseFits, NEW r \in Run, NEW x, SameJob(x, r), x.pc \in {"handle", "ok", "err"},
           x.hand \in {"none", "busy"}, run[r].pc \in {"mark", "handle"},
           Becomes(r, x), row' = row, age' = age, call' = call
    PROVE  LeaseFits'
<1>1. run[r].todo = {}
  BY RunIs DEF TodoFits
<1>2. RunFits(x)
  BY <1>1, RunIs DEF RunFits, HeldFits, HandlerFits, TodoFits, Holding, SameJob
<1> QED
  BY <1>2, MoveFits DEF Live, Holding, SameJob

LEMMA HandlerSteps ==
    ASSUME TypeOK, LeaseFits, NEW r \in Run, Execute(r) \/ Resolve(r) \/ Reject(r) \/ TimerFires(r)
    PROVE  LeaseFits'
<1>0. run[r] \in RunShape
  BY RunIs
<1>1. CASE Execute(r)
  <2>1. run[r].hand = "none" /\ run[r].pc = "mark" /\ row' = row /\ age' = age /\ call' = call
    BY <1>1, RunIs DEF HandlerFits, Execute
  <2>2. PICK x : Becomes(r, x) /\ x \in {[run[r] EXCEPT !.pc = "handle", !.hand = "busy"],
                                         [run[r] EXCEPT !.pc = "err"]}
    BY <1>1 DEF Execute
  <2>3. SameJob(x, r) /\ x.pc \in {"handle", "ok", "err"} /\ x.hand \in {"none", "busy"}
    BY <1>0, <2>1, <2>2 DEF RunShape, SameJob
  <2> QED
    BY <2>1, <2>2, <2>3, KeepFits
<1>2. CASE Resolve(r)
  <2>1. PICK x : x = [run[r] EXCEPT !.pc = "ok", !.hand = "none"]
    OBVIOUS
  <2>2. SameJob(x, r) /\ x.pc \in {"handle", "ok", "err"} /\ x.hand \in {"none", "busy"}
    BY <1>0, <2>1 DEF RunShape, SameJob
  <2> QED
    BY <1>2, <2>1, <2>2, KeepFits DEF Resolve
<1>3. CASE Reject(r)
  <2>1. PICK b \in BOOLEAN : Becomes(r, [run[r] EXCEPT !.pc = "err", !.hand = "none", !.retry = b])
    BY <1>3 DEF Reject
  <2>2. PICK x : x = [run[r] EXCEPT !.pc = "err", !.hand = "none", !.retry = b]
    OBVIOUS
  <2>3. SameJob(x, r) /\ x.pc \in {"handle", "ok", "err"} /\ x.hand \in {"none", "busy"}
    BY <1>0, <2>2 DEF RunShape, SameJob
  <2> QED
    BY <1>3, <2>1, <2>2, <2>3, KeepFits DEF Reject
<1>4. CASE TimerFires(r)
  <2>1. run[r].hand \in {"none", "busy"}
    BY <1>0, <1>4, RunIs, JobsAssumption DEF TimerFires, HandlerFits, RunShape
  <2>2. PICK x : x = [run[r] EXCEPT !.pc = "err", !.retry = FALSE]
    OBVIOUS
  <2>3. SameJob(x, r) /\ x.pc \in {"handle", "ok", "err"} /\ x.hand \in {"none", "busy"}
    BY <1>0, <2>1, <2>2 DEF RunShape, SameJob
  <2> QED
    BY <1>4, <2>2, <2>3, KeepFits DEF TimerFires
<1> QED
  BY <1>1, <1>2, <1>3, <1>4

LEMMA LateStep == ASSUME TypeOK, LeaseFits, NEW r \in Run, LateHandlerEnds(r) PROVE LeaseFits'
<1>1. CASE run[r].pc = "idle"
  <2>1. Becomes(r, Idle) /\ Idle.pc \notin Holding
    BY <1>1 DEF LateHandlerEnds, Idle, Holding
  <2> QED
    BY <2>1, IdleFits, MoveFits DEF LateHandlerEnds
<1>2. CASE run[r].pc # "idle"
  <2>1. PICK x : x = [run[r] EXCEPT !.hand = "none"]
    OBVIOUS
  <2>2. /\ x.pc = run[r].pc /\ x.hand = "none" /\ x.todo = run[r].todo /\ x.job = run[r].job
        /\ x.held = run[r].held /\ x.elapsed = run[r].elapsed
    BY <2>1, RunIs DEF RunShape
  <2>3. RunFits(x)
    BY <2>2, RunIs DEF RunFits, HeldFits, HandlerFits, TodoFits
  <2> QED
    BY <1>2, <2>1, <2>2, <2>3, MoveFits DEF LateHandlerEnds, Live
<1> QED
  BY <1>1, <1>2

\* What is saved with a report is what the row is.
LEMMA ReportChangesNothing ==
    ASSUME TypeOK, LeaseFits, NEW r \in Run, ReportSave(r)
    PROVE  row' = row
<1>1. run[r].pend = row[run[r].job] /\ run[r].job \in Job
  BY RunIs DEF ReportSave, HandlerFits, RunState, Holding
<1> QED
  BY <1>1 DEF ReportSave, TypeOK

LEMMA ReportSaveStep == ASSUME TypeOK, LeaseFits, NEW r \in Run, ReportSave(r) PROVE LeaseFits'
<1>1. PICK x : x = [run[r] EXCEPT !.hand = "busy", !.pend = Absent]
  OBVIOUS
<1>2. /\ x.pc = run[r].pc /\ x.hand = "busy" /\ x.todo = run[r].todo /\ x.job = run[r].job
      /\ x.held = run[r].held /\ x.elapsed = run[r].elapsed /\ run[r].pc = "handle"
  BY <1>1, RunIs DEF RunShape, HandlerFits, ReportSave
<1>3. RunFits(x)
  BY <1>2, RunIs DEF RunFits, HeldFits, HandlerFits, TodoFits
<1> QED
  BY <1>1, <1>2, <1>3, ReportChangesNothing, MoveFits DEF ReportSave, Live

LEMMA ReportReadStep ==
    ASSUME TypeOK, LeaseFits, WorkersAlone, NEW r \in Run, ReportRead(r)
    PROVE  LeaseFits'
<1>1. PICK x : x = [run[r] EXCEPT !.hand = "reporting", !.pend = row[run[r].job]]
  OBVIOUS
<1>2. /\ x.pc = run[r].pc /\ x.hand = "reporting" /\ x.todo = run[r].todo /\ x.job = run[r].job
      /\ x.held = run[r].held /\ x.elapsed = run[r].elapsed /\ x.pend = row[x.job]
  BY <1>1, RunIs DEF RunShape
<1>3. x.pc = "handle" /\ x.elapsed = 0 /\ run[r].job \in Job
  BY <1>2, RunIs DEF ReportRead, MayReport, WorkersAlone, RunState, Holding
<1>4. \A s \in Run : run'[s] = IF s = r THEN x ELSE run[s]
  BY <1>1 DEF ReportRead, Becomes, TypeOK
<1>5. \A j : age'[j] = IF j = run[r].job THEN 0 ELSE age[j]
  <2>1. age' = [age EXCEPT ![run[r].job] = 0] /\ DOMAIN age = Job
    BY DEF ReportRead, TypeOK
  <2> QED
    BY <1>3, <2>1
<1>6. Exclusive' /\ \A j : Free(j) => Free(j)'
  BY <1>2, <1>4 DEF LeaseFits, Exclusive, Free, Live
<1>7. \A s \in Run : RunFits(run[s])'
  <2> SUFFICES ASSUME NEW s \in Run PROVE RunFits(run[s])'
    OBVIOUS
  <2>1. PICK y : y = run'[s]
    OBVIOUS
  <2>2. HeldFits(y) /\ TodoFits(y) /\ HandlerFits(y) /\ y.elapsed \in Nat
    <3>1. CASE s = r
      <4>1. y.pc = run[r].pc /\ y.job = run[r].job /\ y.held = run[r].held /\ y.elapsed = run[r].elapsed
        BY <1>2, <1>4, <2>1, <3>1
      <4>2. HeldFits(y)
        BY <4>1, RunIs DEF HeldFits
      <4>3. HandlerFits(y) /\ y.elapsed \in Nat
        BY <1>2, <1>3, <1>4, <2>1, <3>1 DEF HandlerFits
      <4>4. TodoFits(y)
        BY <1>2, <1>4, <2>1, <3>1, RunIs DEF TodoFits
      <4> QED
        BY <4>2, <4>3, <4>4
    <3>2. CASE s # r
      BY <1>4, <2>1, <3>2, RunIs DEF RunShape
    <3> QED
      BY <3>1, <3>2
  <2>3. HeldFits(y)'
    BY <1>5, <2>2 DEF HeldFits, ReportRead
  <2>4. HandlerFits(y)' /\ TodoFits(y)'
    BY <1>6, <2>2 DEF HandlerFits, TodoFits, ReportRead
  <2> QED
    BY <2>1, <2>3, <2>4 DEF RunFits, HeldFits, HandlerFits, TodoFits
<1> QED
  BY <1>6, <1>7 DEF LeaseFits, ReportRead

\* Tick r goes on as x and writes z over the row of a job that no other tick holds.
Writes(r, x, j, z) ==
    /\ Becomes(r, x) /\ row' = [row EXCEPT ![j] = z] /\ call' = call
    /\ \A k \in Job \ {j} : age'[k] = age[k]
    /\ \A s \in Run : Live(s) /\ run[s].job = j => s = r

\* What x knows of the job fits what is written, and what is listed is failed.
WrittenFits(r, x, j, z) ==
    /\ x.pc \in Holding =>
         /\ x.job = j /\ x.held.status = "running" /\ x.held.wait = 0
         /\ z = (IF x.pc = "saved" THEN CompletedRow(x.held) ELSE x.held)
         /\ x.elapsed <= Timeout /\ (x.pc # "saved" => age'[j] <= x.elapsed)
    /\ x.hand # "reporting"
    /\ x.pc \in {"scan", "reclaim", "claim", "mark"} => x.hand = "none" /\ x.elapsed = 0
    /\ x.todo \subseteq run[r].todo /\ (x.todo # {} => x.pc = "reclaim")
    /\ \A s \in Run : \A t \in run[s].todo : t[1] = j =>
         x.pc \notin Holding /\ z \in {t[2], FailedRow(t[2], TRUE)}

LEMMA WriteFits ==
    ASSUME TypeOK, LeaseFits, NEW r \in Run, NEW x, NEW j \in Job, NEW z,
           Writes(r, x, j, z), WrittenFits(r, x, j, z)
    PROVE  LeaseFits'
<1> USE DEF Writes, WrittenFits
<1>1. \A s \in Run : run'[s] = IF s = r THEN x ELSE run[s]
  BY DEF Becomes, TypeOK
<1>2. \A k \in Job : row'[k] = IF k = j THEN z ELSE row[k]
  BY DEF TypeOK
<1>3. \A s \in Run \ {r} : Live(s)' => Live(s) /\ run'[s].job = run[s].job /\ run[s].job # j /\ run[s].job \in Job
  BY <1>1, RunIs DEF Live, RunState
<1>4. Live(r)' => run'[r].job = j
  BY <1>1 DEF Live
<1>5. Exclusive'
  BY <1>3, <1>4 DEF LeaseFits, Exclusive
<1>6. \A k : Free(k) /\ (k = j => x.pc \notin Holding) => Free(k)'
  BY <1>1, <1>3 DEF Free, Live
<1>7. \A s \in Run : \A t \in run'[s].todo :
        run'[s].pc = "reclaim" /\ Free(t[1])' /\ t[2].status = "running" /\ row'[t[1]] \in {t[2], FailedRow(t[2], TRUE)}
  <2> SUFFICES ASSUME NEW s \in Run, NEW t \in run'[s].todo
               PROVE  /\ run'[s].pc = "reclaim" /\ Free(t[1])' /\ t[2].status = "running"
                      /\ row'[t[1]] \in {t[2], FailedRow(t[2], TRUE)}
    OBVIOUS
  <2>1. t \in run[s].todo /\ TodoFits(run[s]) /\ t[1] \in Job
    BY <1>1, RunIs DEF RunShape
  <2>2. run'[s].pc = "reclaim"
    BY <1>1, <2>1 DEF TodoFits
  <2>3. Free(t[1])' /\ t[2].status = "running"
    BY <1>6, <2>1 DEF TodoFits
  <2>4. row'[t[1]] \in {t[2], FailedRow(t[2], TRUE)}
    <3>1. CASE t[1] = j
      BY <1>1, <1>2, <2>1, <3>1
    <3>2. CASE t[1] # j
      BY <1>2, <2>1, <3>2 DEF TodoFits
    <3> QED
      BY <3>1, <3>2
  <2> QED
    BY <2>2, <2>3, <2>4
<1>8. \A s \in Run : HeldFits(run[s])' /\ HandlerFits(run[s])'
  <2> SUFFICES ASSUME NEW s \in Run PROVE HeldFits(run[s])' /\ HandlerFits(run[s])'
    OBVIOUS
  <2>1. CASE s = r
    BY <1>1, <1>2, <2>1 DEF HeldFits, HandlerFits
  <2>2. CASE s # r
    <3>1. run'[s] = run[s] /\ HeldFits(run[s]) /\ HandlerFits(run[s])
      BY <1>1, <2>2, RunIs
    <3>2. run[s].pc \in Holding => run[s].job \in Job \ {j}
      BY <1>3, <2>2, <3>1 DEF Live
    <3>3. run[s].pc \in Holding => row'[run[s].job] = row[run[s].job] /\ age'[run[s].job] = age[run[s].job]
      BY <1>2, <3>2
    <3> QED
      BY <3>1, <3>3 DEF HeldFits, HandlerFits, Holding
  <2> QED
    BY <2>1, <2>2
<1>9. \A s \in Run : RunFits(run[s])'
  BY <1>7, <1>8 DEF RunFits, TodoFits
<1> QED
  BY <1>5, <1>9 DEF LeaseFits

\* The job a tick holds is on nobody's list, and in the table as the tick knows it.
LEMMA HeldIs ==
    ASSUME TypeOK, LeaseFits, NEW r \in Run, Live(r)
    PROVE  /\ run[r].job \in Job /\ run[r].held \in Row /\ run[r].todo = {}
           /\ run[r].held.status = "running" /\ run[r].held.wait = 0 /\ run[r].elapsed <= Timeout
           /\ run[r].pc # "saved" => row[run[r].job] = run[r].held
           /\ run[r].pc = "saved" => row[run[r].job] = CompletedRow(run[r].held)
           /\ \A s \in Run : Live(s) /\ run[s].job = run[r].job => s = r
           /\ \A s \in Run : \A t \in run[s].todo : t[1] # run[r].job
<1>1. run[r] \in RunState /\ run[r] \in RunShape /\ HeldFits(run[r]) /\ run[r].pc \in Holding
  BY RunIs DEF Live
<1>2. run[r].job \in Job /\ run[r].held \in Row
  BY <1>1 DEF RunState, RunShape
<1>3. run[r].todo = {}
  BY <1>1, RunIs DEF TodoFits, Holding
<1>4. \A s \in Run : \A t \in run[s].todo : t[1] # run[r].job
  BY RunIs DEF TodoFits, Free
<1> QED
  BY <1>1, <1>2, <1>3, <1>4 DEF HeldFits, LeaseFits, Exclusive

LEMMA CompleteStep == ASSUME TypeOK, LeaseFits, NEW r \in Run, Complete(r) PROVE LeaseFits'
<1>1. Live(r) /\ run[r].pc # "saved" /\ run[r] \in RunShape /\ HandlerFits(run[r])
  BY RunIs DEF Live, Complete, Holding
<1>2. PICK x : x = [run[r] EXCEPT !.pc = "saved"]
  OBVIOUS
<1>3. x.pc = "saved" /\ SameJob(x, r) /\ x.hand = run[r].hand /\ x.hand # "reporting"
  BY <1>1, <1>2 DEF SameJob, RunShape, HandlerFits, Complete
<1>4. PICK j \in Job : j = run[r].job
  BY <1>1, HeldIs
<1>5. PICK z : z = CompletedRow(run[r].held)
  OBVIOUS
<1>6. row' = [row EXCEPT ![j] = z] /\ Becomes(r, x) /\ age' = age /\ call' = call
  BY <1>2, <1>4, <1>5 DEF Complete
<1>7. \A s \in Run : \A t \in run[s].todo : t[1] # j
  BY <1>1, <1>4, HeldIs
<1>8. \A s \in Run : Live(s) /\ run[s].job = j => s = r
  BY <1>1, <1>4, HeldIs
<1>9. x.job = j /\ x.held.status = "running" /\ x.held.wait = 0 /\ z = CompletedRow(x.held) /\ x.elapsed <= Timeout
  BY <1>1, <1>3, <1>4, <1>5, HeldIs DEF SameJob
<1>10. x.todo = {}
  BY <1>1, <1>3, HeldIs DEF SameJob
<1>11. Writes(r, x, j, z)
  BY <1>6, <1>8 DEF Writes
<1>12. WrittenFits(r, x, j, z)
  BY <1>3, <1>7, <1>9, <1>10 DEF WrittenFits
<1> QED
  BY <1>11, <1>12, WriteFits

LEMMA FailStep == ASSUME TypeOK, LeaseFits, NEW r \in Run, Fail(r) PROVE LeaseFits'
<1>1. Live(r) /\ run[r] \in RunState /\ HandlerFits(run[r]) /\ run[r].pc # "handle"
  BY RunIs DEF Live, Fail, Holding
<1>2. PICK x : x = Over(run[r])
  OBVIOUS
<1>3. x.pc = "idle" /\ RunFits(x)
  BY <1>1, <1>2, OverFits
<1>4. PICK j \in Job : j = run[r].job
  BY <1>1, HeldIs
<1>5. PICK z : z = FailedRow(run[r].held, run[r].retry)
  OBVIOUS
<1>6. row' = [row EXCEPT ![j] = z] /\ Becomes(r, x) /\ age' = age /\ call' = call
  BY <1>2, <1>4, <1>5 DEF Fail
<1>7. \A s \in Run : \A t \in run[s].todo : t[1] # j
  BY <1>1, <1>4, HeldIs
<1>8. \A s \in Run : Live(s) /\ run[s].job = j => s = r
  BY <1>1, <1>4, HeldIs
<1>9. x.todo = {} /\ x.hand # "reporting" /\ x.pc \notin Holding
  BY <1>3 DEF RunFits, HandlerFits, TodoFits, Holding
<1>10. Writes(r, x, j, z)
  BY <1>6, <1>8 DEF Writes
<1>11. WrittenFits(r, x, j, z)
  BY <1>3, <1>7, <1>9 DEF WrittenFits
<1> QED
  BY <1>10, <1>11, WriteFits

LEMMA ReclaimStep == ASSUME TypeOK, LeaseFits, NEW r \in Run, Reclaim(r) PROVE LeaseFits'
<1>1. PICK u \in run[r].todo : /\ row' = [row EXCEPT ![u[1]] = FailedRow(u[2], TRUE)]
                                /\ Becomes(r, [run[r] EXCEPT !.todo = @ \ {u}])
  BY DEF Reclaim
<1>2. /\ run[r] \in RunShape /\ run[r].pc = "reclaim" /\ run[r].hand = "none" /\ run[r].elapsed = 0
      /\ u[1] \in Job /\ u[2] \in Row
  BY RunIs DEF Reclaim, HandlerFits, RunShape
<1>3. Free(u[1]) /\ u[2].status = "running" /\ row[u[1]] \in {u[2], FailedRow(u[2], TRUE)}
  BY RunIs DEF TodoFits
<1>4. PICK x : x = [run[r] EXCEPT !.todo = @ \ {u}]
  OBVIOUS
<1>5. x.pc = "reclaim" /\ x.hand = "none" /\ x.elapsed = 0 /\ x.todo = run[r].todo \ {u}
  BY <1>2, <1>4 DEF RunShape
<1>6. PICK j \in Job : j = u[1]
  BY <1>2
<1>7. PICK z : z = FailedRow(u[2], TRUE)
  OBVIOUS
<1>8. row' = [row EXCEPT ![j] = z] /\ Becomes(r, x) /\ age' = age /\ call' = call
  BY <1>1, <1>4, <1>6, <1>7 DEF Reclaim
<1>9. \A s \in Run : Live(s) => run[s].job # j
  BY <1>3, <1>6 DEF Free
<1>10. \A s \in Run : \A t \in run[s].todo : t[1] = j => z \in {t[2], FailedRow(t[2], TRUE)}
  <2> SUFFICES ASSUME NEW s \in Run, NEW t \in run[s].todo, t[1] = j PROVE z \in {t[2], FailedRow(t[2], TRUE)}
    OBVIOUS
  <2>1. t[2].status = "running" /\ row[j] \in {t[2], FailedRow(t[2], TRUE)}
    BY RunIs DEF TodoFits
  <2>2. CASE row[j] = z
    BY <2>1, <2>2
  <2>3. CASE row[j] = u[2]
    <3>1. t[2] \in Row
      BY RunIs DEF RunShape
    <3>2. FailedRow(t[2], TRUE).status # "running"
      BY <3>1 DEF FailedRow, Row
    <3> QED
      BY <1>3, <1>7, <2>1, <2>3, <3>2
  <2> QED
    BY <1>3, <1>6, <1>7, <2>2, <2>3
<1>11. x.pc \notin Holding
  BY <1>5 DEF Holding
<1>12. Writes(r, x, j, z)
  BY <1>8, <1>9 DEF Writes
<1>13. WrittenFits(r, x, j, z)
  BY <1>5, <1>10, <1>11 DEF WrittenFits
<1> QED
  BY <1>12, <1>13, WriteFits

LEMMA ClaimStep == ASSUME TypeOK, LeaseFits, NEW r \in Run, Claim(r) PROVE LeaseFits'
<1>1. PICK j \in Due(r[1]) : /\ row' = [row EXCEPT ![j] = Claimed(row[j])] /\ age' = [age EXCEPT ![j] = 0]
                              /\ Becomes(r, [run[r] EXCEPT !.pc = "mark", !.job = j, !.held = Claimed(row[j])])
  BY DEF Claim
<1>2. j \in Job /\ Claimable(row[j]) /\ row[j] \in Row
  BY JobsAssumption DEF Due, Run, TypeOK
<1>3. /\ run[r] \in RunShape /\ run[r].pc = "claim" /\ run[r].hand = "none" /\ run[r].elapsed = 0 /\ run[r].todo = {}
  BY RunIs DEF Claim, HandlerFits, TodoFits
<1>4. PICK x : x = [run[r] EXCEPT !.pc = "mark", !.job = j, !.held = Claimed(row[j])]
  OBVIOUS
<1>5. PICK z : z = Claimed(row[j])
  OBVIOUS
<1>6. x.pc = "mark" /\ x.hand = "none" /\ x.elapsed = 0 /\ x.todo = {} /\ x.job = j /\ x.held = z
  BY <1>3, <1>4, <1>5 DEF RunShape
<1>7. z.status = "running" /\ z.wait = 0
  BY <1>5 DEF Claimed
<1>8. row[j].status \notin {"running", "completed"}
  BY <1>2 DEF Claimable
<1>9. \A s \in Run : Live(s) => run[s].job # j
  <2> SUFFICES ASSUME NEW s \in Run, Live(s), run[s].job = j PROVE FALSE
    OBVIOUS
  <2>1. run[s].held \in Row /\ run[s].held.status = "running" /\ row[j] \in {run[s].held, CompletedRow(run[s].held)}
    BY HeldIs
  <2>2. CompletedRow(run[s].held).status = "completed"
    BY <2>1 DEF CompletedRow, Row
  <2> QED
    BY <1>8, <2>1, <2>2
<1>10. \A s \in Run : \A t \in run[s].todo : t[1] # j
  <2> SUFFICES ASSUME NEW s \in Run, NEW t \in run[s].todo, t[1] = j PROVE FALSE
    OBVIOUS
  <2>1. t[2] \in Row /\ t[2].status = "running" /\ row[j] \in {t[2], FailedRow(t[2], TRUE)}
    BY RunIs DEF TodoFits, RunShape
  <2>2. row[j] = FailedRow(t[2], TRUE)
    BY <1>8, <2>1
  <2>3. \/ row[j].status = "dead_lettered"
        \/ row[j].status = "retry_scheduled" /\ row[j].wait = Backoff
    BY <2>1, <2>2 DEF FailedRow, Row
  <2> QED
    BY <1>2, <2>3, JobsAssumption DEF Claimable
<1>11. row' = [row EXCEPT ![j] = z] /\ Becomes(r, x) /\ call' = call
  BY <1>1, <1>4, <1>5 DEF Claim
<1>12. age'[j] = 0 /\ \A k \in Job \ {j} : age'[k] = age[k]
  BY <1>1, <1>2 DEF TypeOK
<1>13. 0 <= Timeout
  BY JobsAssumption
<1>14. Writes(r, x, j, z)
  BY <1>9, <1>11, <1>12 DEF Writes
<1>15. WrittenFits(r, x, j, z)
  <2>1. x.hand # "reporting" /\ x.todo \subseteq run[r].todo /\ 0 <= 0
    BY <1>6
  <2>2. /\ x.job = j /\ x.held.status = "running" /\ x.held.wait = 0 /\ x.elapsed <= Timeout
        /\ age'[j] <= x.elapsed
    BY <1>6, <1>7, <1>12, <1>13, <2>1
  <2>3. z = (IF x.pc = "saved" THEN CompletedRow(x.held) ELSE x.held)
    BY <1>6
  <2> QED
    BY <1>6, <1>10, <2>1, <2>2, <2>3 DEF WrittenFits
<1> QED
  BY <1>2, <1>14, <1>15, WriteFits

LEMMA RestartStep ==
    ASSUME TypeOK, LeaseFits, NEW w \in Worker, Restarted(w), row' = row, age' = age, call' = call
    PROVE  LeaseFits'
<1>1. \A s \in Run : run'[s] = Idle \/ run'[s] = run[s]
  BY DEF Restarted
<1>2. \A s \in Run : Live(s)' => Live(s) /\ run'[s] = run[s]
  BY <1>1 DEF Live, Idle, Holding
<1>3. Exclusive' /\ \A j : Free(j) => Free(j)'
  BY <1>2 DEF LeaseFits, Exclusive, Free
<1>4. \A s \in Run : RunFits(run[s])'
  <2> SUFFICES ASSUME NEW s \in Run PROVE RunFits(run[s])'
    OBVIOUS
  <2>1. PICK y : y = run'[s]
    OBVIOUS
  <2>2. RunFits(y)
    BY <1>1, <2>1, IdleFits DEF LeaseFits
  <2> QED
    BY <1>3, <2>1, <2>2 DEF RunFits, HeldFits, HandlerFits, TodoFits
<1> QED
  BY <1>3, <1>4 DEF LeaseFits

LEMMA EnqueueStep == ASSUME TypeOK, LeaseFits, NEW j \in Job, EnqueueNew(j) PROVE LeaseFits'
<1>1. row[j] = Absent /\ run' = run /\ age' = age /\ call' = call /\ \A k \in Job \ {j} : row'[k] = row[k]
  BY DEF EnqueueNew, TypeOK
<1>2. row[j].status = "absent"
  BY <1>1 DEF Absent
<1>3. \A s \in Run : Live(s) => run[s].job \in Job \ {j}
  <2> SUFFICES ASSUME NEW s \in Run, Live(s) PROVE run[s].job \in Job /\ run[s].job # j
    OBVIOUS
  <2>1. /\ run[s].job \in Job /\ run[s].held \in Row /\ run[s].held.status = "running"
        /\ row[run[s].job] \in {run[s].held, CompletedRow(run[s].held)}
    BY HeldIs
  <2>2. CompletedRow(run[s].held).status = "completed"
    BY <2>1 DEF CompletedRow, Row
  <2> QED
    BY <1>2, <2>1, <2>2
<1>4. \A s \in Run : \A t \in run[s].todo : t[1] \in Job \ {j}
  <2> SUFFICES ASSUME NEW s \in Run, NEW t \in run[s].todo PROVE t[1] \in Job /\ t[1] # j
    OBVIOUS
  <2>1. t[1] \in Job /\ t[2] \in Row /\ t[2].status = "running" /\ row[t[1]] \in {t[2], FailedRow(t[2], TRUE)}
    BY RunIs DEF TodoFits, RunShape
  <2>2. FailedRow(t[2], TRUE).status \in {"retry_scheduled", "dead_lettered"}
    BY <2>1 DEF FailedRow, Row
  <2> QED
    BY <1>2, <2>1, <2>2
<1>5. Exclusive' /\ \A k : Free(k) <=> Free(k)'
  BY <1>1 DEF LeaseFits, Exclusive, Free, Live
<1>6. \A s \in Run : RunFits(run[s])'
  <2> SUFFICES ASSUME NEW s \in Run PROVE RunFits(run[s])'
    OBVIOUS
  <2>1. HeldFits(run[s])'
    BY <1>1, <1>3, RunIs DEF HeldFits, Live
  <2>2. HandlerFits(run[s])'
    BY <1>1, <1>3, RunIs DEF HandlerFits, Live, Holding
  <2>3. TodoFits(run[s])'
    BY <1>1, <1>4, <1>5, RunIs DEF TodoFits
  <2> QED
    BY <2>1, <2>2, <2>3 DEF RunFits
<1> QED
  BY <1>1, <1>5, <1>6 DEF LeaseFits

\* Time passes while every tick is idle or waits for its handler.
LEMMA TimeStep == ASSUME TypeOK, LeaseFits, WorkersAlone, TimePasses PROVE LeaseFits'
<1>1. \A s \in Run : /\ run[s].pc \in {"idle", "handle"} /\ run[s].hand # "reporting"
                     /\ run[s].pc = "handle" => run[s].elapsed < Timeout
  BY DEF TimePasses, MayPass, WorkersAlone, AtRest
<1>2. \A s \in Run : /\ run'[s].pc = run[s].pc /\ run'[s].job = run[s].job /\ run'[s].held = run[s].held
                     /\ run'[s].todo = run[s].todo /\ run'[s].hand = run[s].hand
                     /\ run'[s].elapsed = IF run[s].pc = "handle" THEN run[s].elapsed + 1 ELSE run[s].elapsed
  <2> SUFFICES ASSUME NEW s \in Run
               PROVE  /\ run'[s].pc = run[s].pc /\ run'[s].job = run[s].job /\ run'[s].held = run[s].held
                      /\ run'[s].todo = run[s].todo /\ run'[s].hand = run[s].hand
                      /\ run'[s].elapsed = IF run[s].pc = "handle" THEN run[s].elapsed + 1 ELSE run[s].elapsed
    OBVIOUS
  <2>1. run'[s] = [run[s] EXCEPT !.elapsed = IF run[s].pc = "handle" THEN @ + 1 ELSE @, !.pend = Nearer(@)]
    BY DEF TimePasses
  <2> QED
    BY <2>1, RunIs DEF RunShape
<1>3. \A j \in Job : row'[j] = Nearer(row[j]) /\ age'[j] = (IF age[j] < Stale THEN age[j] + 1 ELSE Stale)
  BY DEF TimePasses
<1>4. \A c \in Caller : call'[c].pc # "read"
  BY DEF TimePasses, LeaseFits
<1>5. Exclusive'
  BY <1>2 DEF LeaseFits, Exclusive, Live
<1>6. \A s \in Run : RunFits(run[s])'
  <2> SUFFICES ASSUME NEW s \in Run PROVE RunFits(run[s])'
    OBVIOUS
  <2>1. run[s].todo = {}
    BY <1>1, RunIs DEF TodoFits
  <2>2. HeldFits(run[s])'
    <3>1. CASE run[s].pc # "handle"
      BY <1>1, <1>2, <3>1 DEF HeldFits, Holding
    <3>2. CASE run[s].pc = "handle"
      <4>1. Live(s)
        BY <3>2 DEF Live, Holding
      <4>2. /\ run[s].job \in Job /\ run[s].held.status = "running" /\ run[s].held.wait = 0
            /\ row[run[s].job] = run[s].held
        BY <3>2, <4>1, HeldIs
      <4>3. row'[run[s].job] = run[s].held
        <5>1. Nearer(run[s].held) = run[s].held
          BY <4>2 DEF Nearer
        <5> QED
          BY <1>3, <4>2, <5>1
      <4>4. age[run[s].job] <= run[s].elapsed
        BY <3>2, RunIs DEF HeldFits, Holding
      <4>5. /\ age[run[s].job] \in Nat /\ run[s].elapsed \in Nat /\ age[run[s].job] <= Stale
            /\ Stale \in Nat /\ Timeout \in Nat
        BY <4>2, RunIs, StaleNat, JobsAssumption DEF TypeOK, RunShape
      <4>6. age'[run[s].job] <= run[s].elapsed + 1 /\ run[s].elapsed + 1 <= Timeout
        BY <1>1, <1>3, <3>2, <4>2, <4>4, <4>5
      <4> QED
        BY <1>2, <3>2, <4>2, <4>3, <4>6 DEF HeldFits
    <3> QED
      BY <3>1, <3>2
  <2>3. HandlerFits(run[s])' /\ TodoFits(run[s])'
    BY <1>1, <1>2, <2>1 DEF HandlerFits, TodoFits
  <2> QED
    BY <2>2, <2>3 DEF RunFits
<1> QED
  BY <1>4, <1>5, <1>6 DEF LeaseFits

LEMMA LeaseFitsUnchanged ==
    ASSUME LeaseFits, row' = row, age' = age, run' = run, call' = call
    PROVE  LeaseFits'
<1>1. Exclusive' /\ \A j : Free(j) <=> Free(j)'
  BY DEF LeaseFits, Exclusive, Free, Live
<1>2. \A s \in Run : RunFits(run[s])'
  BY <1>1 DEF LeaseFits, RunFits, HeldFits, HandlerFits, TodoFits
<1> QED
  BY <1>1, <1>2 DEF LeaseFits

LEMMA LeaseFitsInductive == WorkersAlone /\ TypeOK /\ LeaseFits /\ [Next]_vars => LeaseFits'
<1> SUFFICES ASSUME WorkersAlone, TypeOK, LeaseFits, [Next]_vars PROVE LeaseFits'
  OBVIOUS
<1>1. ASSUME NEW r \in Run, TickStep(r) PROVE LeaseFits'
  <2>1. CASE ClaimNothing(r) \/ MarkCompleted(r)
    BY <2>1, OverStep DEF ClaimNothing, MarkCompleted
  <2> QED
    BY <1>1, <2>1, ScanStep, ReclaimStep, ReclaimEndsStep, ClaimStep, HandlerSteps, CompleteStep, FailStep
       DEF TickStep
<1>2. ASSUME NEW r \in Run, HandlerStep(r) PROVE LeaseFits'
  BY <1>2, HandlerSteps, LateStep, ReportReadStep, ReportSaveStep DEF HandlerStep
<1>3. ASSUME NEW r \in Run, StartTick(r) \/ DbError(r) PROVE LeaseFits'
  BY <1>3, StartStep DEF DbError, WorkersAlone
<1>4. ASSUME NEW w \in Worker, Crash(w) \/ Drain(w) \/ Exit(w) PROVE LeaseFits'
  BY <1>4, RestartStep, LeaseFitsUnchanged DEF Crash, Drain, Exit
<1>5. ASSUME NEW c \in Caller, CallRead(c) \/ CallSave(c) PROVE LeaseFits'
  BY <1>5 DEF CallRead, CallSave, WorkersAlone, LeaseFits
<1>6. CASE UNCHANGED vars
  BY <1>6, LeaseFitsUnchanged DEF vars
<1> QED
  BY <1>1, <1>2, <1>3, <1>4, <1>5, <1>6, EnqueueStep, TimeStep DEF Next

LEMMA LeaseFitsInit == Init => LeaseFits
<1>1. Init => \A r \in Run : run[r] = Idle
  BY DEF Init
<1>2. Idle.pc \notin Holding
  BY DEF Idle, Holding
<1> QED
  BY <1>1, <1>2, IdleFits DEF Init, LeaseFits, Exclusive, Live, Ready

\* No two ticks hold one job, in one process or in several, whatever handlers
\* outlive their timeout, processes crash and stalled jobs are reclaimed from a
\* list that is no longer true; for any number of jobs, workers and ticks.
THEOREM LeasesExclude == ASSUME WorkersAlone PROVE Spec => []Exclusive
<1>1. LeaseFits => Exclusive
  BY DEF LeaseFits
<1> QED
  BY <1>1, LeaseFitsInit, LeaseFitsInductive, TypeCorrect, PTL DEF Spec

-----------------------------------------------------------------------------
(* The refinement of JobLease.                                             *)

\* Nothing happens to the leases but that holders let go.
LEMMA LetGoMaps ==
    ASSUME TypeOK', \A k \in Job : PhaseOf(row'[k].status) = PhaseOf(row[k].status) /\ row'[k].attempts = row[k].attempts,
           \A s \in Run : Live(s)' => Live(s) /\ run'[s].job = run[s].job
    PROVE  Lease!LetGo
<1>1. \A s \in Run : run'[s].job \in Job \cup {NoJob}
  BY DEF TypeOK, RunState, RunShape
<1> QED
  BY <1>1 DEF Lease!LetGo

\* A step of tick r that writes no row.
LEMMA MoveMaps ==
    ASSUME TypeOK, TypeOK', NEW r \in Run, NEW x, Becomes(r, x), row' = row,
           x.pc \in Holding => Live(r) /\ x.job = run[r].job
    PROVE  Lease!LetGo
<1>1. \A s \in Run : run'[s] = IF s = r THEN x ELSE run[s]
  BY DEF Becomes, TypeOK
<1>2. \A s \in Run : Live(s)' => Live(s) /\ run'[s].job = run[s].job
  BY <1>1 DEF Live
<1> QED
  BY <1>2, LetGoMaps

LEMMA ClaimMaps ==
    ASSUME TypeOK, LeaseFits, NEW r \in Run, Claim(r)
    PROVE  \E j \in Job : Lease!Grant(r, j)
<1>1. PICK j \in Due(r[1]) : /\ row' = [row EXCEPT ![j] = Claimed(row[j])]
                              /\ Becomes(r, [run[r] EXCEPT !.pc = "mark", !.job = j, !.held = Claimed(row[j])])
  BY DEF Claim
<1>2. j \in Job /\ Claimable(row[j]) /\ row[j] \in Row
  BY JobsAssumption DEF Due, Run, TypeOK
<1>3. PICK x : x = [run[r] EXCEPT !.pc = "mark", !.job = j, !.held = Claimed(row[j])]
  OBVIOUS
<1>4. x.pc = "mark" /\ x.job = j
  BY <1>3, RunIs DEF RunShape
<1>5. \A s \in Run : run'[s] = IF s = r THEN x ELSE run[s]
  BY <1>1, <1>3 DEF Becomes, TypeOK
<1>6. \A k \in Job : row'[k] = IF k = j THEN Claimed(row[j]) ELSE row[k]
  BY <1>1 DEF TypeOK
<1>7. Claimed(row[j]).status = "running" /\ Claimed(row[j]).attempts = row[j].attempts + 1
  BY DEF Claimed
<1>8. PhaseOf(row[j].status) = "waiting"
  BY <1>2 DEF Claimable, PhaseOf
<1>9. \A k \in Job : PhaseOf(row'[k].status) = IF k = j THEN "leased" ELSE PhaseOf(row[k].status)
  <2>1. PhaseOf("running") = "leased"
    BY DEF PhaseOf
  <2> QED
    BY <1>6, <1>7, <2>1
<1>10. \A k \in Job : row'[k].attempts = IF k = j THEN row[j].attempts + 1 ELSE row[k].attempts
  BY <1>6, <1>7
<1>11. ~Live(r) /\ Live(r)' /\ run'[r].job = j /\ \A s \in Run \ {r} : (Live(s)' <=> Live(s)) /\ run'[s] = run[s]
  BY <1>4, <1>5 DEF Live, Claim, Holding
<1>12. [k \in Job |-> PhaseOf(row'[k].status)]
         = [[k \in Job |-> PhaseOf(row[k].status)] EXCEPT ![j] = "leased"]
  BY <1>2, <1>9
<1>13. [k \in Job |-> row'[k].attempts] = [[k \in Job |-> row[k].attempts] EXCEPT ![j] = @ + 1]
  BY <1>2, <1>10
<1>14. [s \in Run |-> IF Live(s)' THEN run'[s].job ELSE NoJob]
         = [[s \in Run |-> IF Live(s) THEN run[s].job ELSE NoJob] EXCEPT ![r] = j]
  BY <1>11
<1> QED
  BY <1>2, <1>8, <1>11, <1>12, <1>13, <1>14 DEF Lease!Grant

LEMMA Phases ==
    /\ PhaseOf("running") = "leased" /\ PhaseOf("completed") = "done" /\ PhaseOf("absent") = "absent"
    /\ PhaseOf("queued") = "waiting" /\ PhaseOf("scheduled") = "waiting" /\ PhaseOf("retry_scheduled") = "waiting"
    /\ PhaseOf("failed") = "dropped" /\ PhaseOf("dead_lettered") = "dropped"
  BY DEF PhaseOf

\* What failing a row that runs makes of it.
LEMMA FailedPhase ==
    ASSUME NEW x \in Row, x.status = "running", NEW b \in BOOLEAN
    PROVE  PhaseOf(FailedRow(x, b).status) \in {"waiting", "dropped"} /\ FailedRow(x, b).attempts = x.attempts
<1>1. /\ FailedRow(x, b).status \in {"retry_scheduled", "dead_lettered", "failed"}
      /\ FailedRow(x, b).attempts = x.attempts
  BY DEF FailedRow, Row
<1> QED
  BY <1>1, Phases

LEMMA CompleteMaps ==
    ASSUME TypeOK, LeaseFits, NEW r \in Run, Complete(r)
    PROVE  Lease!Finish(r)
<1>1. Live(r) /\ run[r].pc # "saved" /\ run[r] \in RunShape
  BY RunIs DEF Live, Complete, Holding
<1>2. PICK j : j = run[r].job
  OBVIOUS
<1>3. PICK h : h = run[r].held
  OBVIOUS
<1>4. j \in Job /\ j # NoJob /\ h \in Row /\ row[j] = h
  BY <1>1, <1>2, <1>3, HeldIs, JobsAssumption
<1>5. CompletedRow(h).status = "completed" /\ CompletedRow(h).attempts = h.attempts
  BY <1>4 DEF CompletedRow, Row
<1>6. \A k \in Job : row'[k] = IF k = j THEN CompletedRow(h) ELSE row[k]
  BY <1>2, <1>3 DEF Complete, TypeOK
<1>7. [k \in Job |-> PhaseOf(row'[k].status)] = [[k \in Job |-> PhaseOf(row[k].status)] EXCEPT ![j] = "done"]
  BY <1>5, <1>6, Phases
<1>8. [k \in Job |-> row'[k].attempts] = [k \in Job |-> row[k].attempts]
  BY <1>4, <1>5, <1>6
<1>9. \A s \in Run : (Live(s)' <=> Live(s)) /\ run'[s].job = run[s].job
  <2>1. PICK x : x = [run[r] EXCEPT !.pc = "saved"]
    OBVIOUS
  <2>2. x.pc = "saved" /\ x.job = run[r].job
    BY <1>1, <2>1 DEF RunShape
  <2>3. \A s \in Run : run'[s] = IF s = r THEN x ELSE run[s]
    BY <2>1 DEF Complete, Becomes, TypeOK
  <2> QED
    BY <1>1, <2>2, <2>3 DEF Live, Holding
<1>10. [s \in Run |-> IF Live(s)' THEN run'[s].job ELSE NoJob] = [s \in Run |-> IF Live(s) THEN run[s].job ELSE NoJob]
  BY <1>9
<1>11. [s \in Run |-> IF Live(s) THEN run[s].job ELSE NoJob][r] = j
  BY <1>1, <1>2
<1> QED
  BY <1>4, <1>7, <1>8, <1>10, <1>11 DEF Lease!Finish

LEMMA FailMaps ==
    ASSUME TypeOK, LeaseFits, NEW r \in Run, Fail(r)
    PROVE  Lease!Return(r)
<1>1. Live(r) /\ run[r].pc = "err" /\ run[r] \in RunState /\ HandlerFits(run[r])
  BY RunIs DEF Live, Fail, Holding
<1>2. PICK j : j = run[r].job
  OBVIOUS
<1>3. PICK h \in Row : h = run[r].held
  BY <1>1, HeldIs
<1>4. j \in Job /\ j # NoJob /\ row[j] = h /\ h.status = "running"
  BY <1>1, <1>2, <1>3, HeldIs, JobsAssumption
<1>5. PICK b \in BOOLEAN : b = run[r].retry
  BY <1>1 DEF RunState, RunShape
<1>6. PICK z : z = FailedRow(h, b)
  OBVIOUS
<1>7. PICK next \in {"waiting", "dropped"} : next = PhaseOf(z.status) /\ z.attempts = h.attempts
  BY <1>4, <1>6, FailedPhase
<1>8. \A k \in Job : row'[k] = IF k = j THEN z ELSE row[k]
  BY <1>2, <1>3, <1>5, <1>6 DEF Fail, TypeOK
<1>9. [k \in Job |-> PhaseOf(row'[k].status)] = [[k \in Job |-> PhaseOf(row[k].status)] EXCEPT ![j] = next]
  BY <1>7, <1>8
<1>10. [k \in Job |-> row'[k].attempts] = [k \in Job |-> row[k].attempts]
  BY <1>4, <1>7, <1>8
<1>11. ~Live(r)' /\ \A s \in Run \ {r} : (Live(s)' <=> Live(s)) /\ run'[s] = run[s]
  <2>1. PICK x : x = Over(run[r])
    OBVIOUS
  <2>2. x.pc = "idle"
    BY <1>1, <2>1, OverFits
  <2>3. \A s \in Run : run'[s] = IF s = r THEN x ELSE run[s]
    BY <2>1 DEF Fail, Becomes, TypeOK
  <2> QED
    BY <2>2, <2>3 DEF Live, Holding
<1>12. [s \in Run |-> IF Live(s)' THEN run'[s].job ELSE NoJob]
         = [[s \in Run |-> IF Live(s) THEN run[s].job ELSE NoJob] EXCEPT ![r] = NoJob]
  BY <1>11
<1>13. [s \in Run |-> IF Live(s) THEN run[s].job ELSE NoJob][r] = j /\ PhaseOf(row[j].status) = "leased"
  BY <1>1, <1>2, <1>4, Phases
<1> QED
  BY <1>4, <1>9, <1>10, <1>12, <1>13 DEF Lease!Return

LEMMA ReclaimMaps ==
    ASSUME TypeOK, TypeOK', LeaseFits, NEW r \in Run, Reclaim(r)
    PROVE  Lease!LetGo \/ \E j \in Job : Lease!TakeBack(j)
<1>1. PICK u \in run[r].todo : /\ row' = [row EXCEPT ![u[1]] = FailedRow(u[2], TRUE)]
                                /\ Becomes(r, [run[r] EXCEPT !.todo = @ \ {u}])
  BY DEF Reclaim
<1>2. run[r] \in RunShape /\ run[r].pc = "reclaim" /\ u[1] \in Job /\ u[2] \in Row
  BY RunIs DEF Reclaim, RunShape
<1>3. Free(u[1]) /\ u[2].status = "running" /\ row[u[1]] \in {u[2], FailedRow(u[2], TRUE)}
  BY RunIs DEF TodoFits
<1>4. PICK x : x = [run[r] EXCEPT !.todo = @ \ {u}]
  OBVIOUS
<1>5. x.pc = "reclaim" /\ \A s \in Run : run'[s] = IF s = r THEN x ELSE run[s]
  BY <1>1, <1>2, <1>4 DEF RunShape, Becomes, TypeOK
<1>6. \A s \in Run : (Live(s)' <=> Live(s)) /\ (Live(s) => run'[s] = run[s])
  BY <1>2, <1>5 DEF Live, Holding
<1>7. PICK j \in Job : j = u[1]
  BY <1>2
<1>8. PICK b \in BOOLEAN : b = TRUE
  OBVIOUS
<1>9. PICK z : z = FailedRow(u[2], b)
  OBVIOUS
<1>10. \A k \in Job : row'[k] = IF k = j THEN z ELSE row[k]
  BY <1>1, <1>7, <1>8, <1>9 DEF TypeOK
<1>11. PICK next \in {"waiting", "dropped"} : next = PhaseOf(z.status) /\ z.attempts = u[2].attempts
  BY <1>2, <1>3, <1>9, FailedPhase
<1>12. CASE row[j] = z
  BY <1>6, <1>10, <1>12, LetGoMaps
<1>13. CASE row[j] = u[2]
  <2>1. [k \in Job |-> PhaseOf(row'[k].status)] = [[k \in Job |-> PhaseOf(row[k].status)] EXCEPT ![j] = next]
    BY <1>10, <1>11
  <2>2. [k \in Job |-> row'[k].attempts] = [k \in Job |-> row[k].attempts]
    BY <1>10, <1>11, <1>13
  <2>3. [s \in Run |-> IF Live(s)' THEN run'[s].job ELSE NoJob] = [s \in Run |-> IF Live(s) THEN run[s].job ELSE NoJob]
    BY <1>6
  <2>4. PhaseOf(row[j].status) = "leased"
    BY <1>3, <1>13, Phases
  <2>5. ~Lease!Held(j)
    BY <1>3, <1>7, JobsAssumption DEF Lease!Held, Free
  <2> QED
    BY <2>1, <2>2, <2>3, <2>4, <2>5 DEF Lease!TakeBack
<1> QED
  BY <1>3, <1>7, <1>8, <1>9, <1>12, <1>13

LEMMA EnqueueMaps ==
    ASSUME TypeOK, NEW j \in Job, EnqueueNew(j)
    PROVE  Lease!Accept(j)
<1>1. PICK d \in Delays : row' = [row EXCEPT ![j] = New(j, d)]
  BY DEF EnqueueNew
<1>2. PICK z : z = New(j, d)
  OBVIOUS
<1>3. z.status \in {"scheduled", "queued"} /\ z.attempts = 0
  BY <1>2 DEF New
<1>4. row[j].status = "absent" /\ row[j].attempts = 0 /\ run' = run
  BY DEF EnqueueNew, Absent
<1>5. \A k \in Job : row'[k] = IF k = j THEN z ELSE row[k]
  BY <1>1, <1>2 DEF TypeOK
<1>6. PhaseOf(z.status) = "waiting" /\ PhaseOf(row[j].status) = "absent"
  BY <1>3, <1>4, Phases
<1>7. [k \in Job |-> PhaseOf(row'[k].status)] = [[k \in Job |-> PhaseOf(row[k].status)] EXCEPT ![j] = "waiting"]
  BY <1>5, <1>6
<1>8. [k \in Job |-> row'[k].attempts] = [k \in Job |-> row[k].attempts]
  BY <1>3, <1>4, <1>5
<1>9. [s \in Run |-> IF Live(s)' THEN run'[s].job ELSE NoJob] = [s \in Run |-> IF Live(s) THEN run[s].job ELSE NoJob]
  BY <1>4 DEF Live
<1> QED
  BY <1>6, <1>7, <1>8, <1>9 DEF Lease!Accept

LEMMA TickMaps ==
    ASSUME TypeOK, TypeOK', LeaseFits, NEW r \in Run,
           \/ StartTick(r) \/ Scan(r) \/ ReclaimEnds(r) \/ ClaimNothing(r) \/ Execute(r) \/ TimerFires(r)
           \/ MarkCompleted(r) \/ Resolve(r) \/ Reject(r) \/ LateHandlerEnds(r) \/ ReportRead(r) \/ ReportSave(r)
    PROVE  Lease!LetGo
<1>0. run[r] \in RunShape /\ HandlerFits(run[r]) /\ run[r] \in RunState
  BY RunIs
<1>1. row' = row
  BY ReportChangesNothing DEF StartTick, Scan, ReclaimEnds, ClaimNothing, Execute, TimerFires, MarkCompleted,
                              Resolve, Reject, LateHandlerEnds, ReportRead
<1>2. CASE StartTick(r)
  <2>1. PICK pc \in {"scan", "claim"} : Becomes(r, [Idle EXCEPT !.pc = pc])
    BY <1>2 DEF StartTick
  <2>2. PICK x : x = [Idle EXCEPT !.pc = pc]
    OBVIOUS
  <2>3. x.pc \notin Holding
    BY <2>2 DEF Idle, Holding
  <2> QED
    BY <1>1, <2>1, <2>2, <2>3, MoveMaps
<1>3. CASE Scan(r)
  <2>1. PICK x : x = [run[r] EXCEPT !.pc = "reclaim", !.todo = Stalled]
    OBVIOUS
  <2>2. x.pc \notin Holding
    BY <1>0, <2>1 DEF RunShape, Holding
  <2> QED
    BY <1>1, <1>3, <2>1, <2>2, MoveMaps DEF Scan
<1>4. CASE ReclaimEnds(r)
  <2>1. PICK x : x = [run[r] EXCEPT !.pc = "claim"]
    OBVIOUS
  <2>2. x.pc \notin Holding
    BY <1>0, <2>1 DEF RunShape, Holding
  <2> QED
    BY <1>1, <1>4, <2>1, <2>2, MoveMaps DEF ReclaimEnds
<1>5. CASE ClaimNothing(r) \/ MarkCompleted(r)
  <2>1. PICK x : x = Over(run[r])
    OBVIOUS
  <2>2. x.pc = "idle" /\ Becomes(r, x)
    BY <1>0, <1>5, <2>1, OverFits DEF ClaimNothing, MarkCompleted
  <2> QED
    BY <1>1, <2>2, MoveMaps DEF Holding
<1>6. CASE Execute(r) \/ Resolve(r) \/ Reject(r) \/ TimerFires(r)
  <2>1. PICK x : Becomes(r, x) /\ x.job = run[r].job
    <3>1. CASE Execute(r)
      <4>1. PICK x : Becomes(r, x) /\ x \in {[run[r] EXCEPT !.pc = "handle", !.hand = "busy"],
                                             [run[r] EXCEPT !.pc = "err"]}
        BY <3>1 DEF Execute
      <4> QED
        BY <1>0, <4>1 DEF RunShape
    <3>2. CASE Resolve(r)
      <4>1. PICK x : x = [run[r] EXCEPT !.pc = "ok", !.hand = "none"]
        OBVIOUS
      <4>2. x.job = run[r].job /\ Becomes(r, x)
        BY <1>0, <3>2, <4>1 DEF RunShape, Resolve
      <4> QED
        BY <4>2
    <3>3. CASE Reject(r)
      <4>1. PICK b \in BOOLEAN : Becomes(r, [run[r] EXCEPT !.pc = "err", !.hand = "none", !.retry = b])
        BY <3>3 DEF Reject
      <4>2. PICK x : x = [run[r] EXCEPT !.pc = "err", !.hand = "none", !.retry = b]
        OBVIOUS
      <4>3. x.job = run[r].job
        BY <1>0, <4>2 DEF RunShape
      <4> QED
        BY <4>1, <4>2, <4>3
    <3>4. CASE TimerFires(r)
      <4>1. PICK x : x = [run[r] EXCEPT !.pc = "err", !.retry = FALSE]
        OBVIOUS
      <4>2. x.job = run[r].job /\ Becomes(r, x)
        BY <1>0, <3>4, <4>1 DEF RunShape, TimerFires
      <4> QED
        BY <4>2
    <3> QED
      BY <1>6, <3>1, <3>2, <3>3, <3>4
  <2>2. Live(r)
    BY <1>6 DEF Live, Holding, Execute, Resolve, Reject, TimerFires
  <2> QED
    BY <1>1, <2>1, <2>2, MoveMaps
<1>7. CASE LateHandlerEnds(r)
  <2>1. CASE run[r].pc = "idle"
    BY <1>1, <1>7, <2>1, MoveMaps DEF LateHandlerEnds, Idle, Holding
  <2>2. CASE run[r].pc # "idle"
    <3>1. PICK x : x = [run[r] EXCEPT !.hand = "none"]
      OBVIOUS
    <3>2. x.pc = run[r].pc /\ x.job = run[r].job /\ Becomes(r, x)
      BY <1>0, <1>7, <2>2, <3>1 DEF RunShape, LateHandlerEnds
    <3> QED
      BY <1>1, <3>2, MoveMaps DEF Live
  <2> QED
    BY <2>1, <2>2
<1>8. CASE ReportRead(r)
  <2>1. PICK x : x = [run[r] EXCEPT !.hand = "reporting", !.pend = row[run[r].job]]
    OBVIOUS
  <2>2. x.pc = run[r].pc /\ x.job = run[r].job /\ Becomes(r, x)
    BY <1>0, <1>8, <2>1 DEF RunShape, ReportRead
  <2> QED
    BY <1>1, <2>2, MoveMaps DEF Live
<1>9. CASE ReportSave(r)
  <2>1. PICK x : x = [run[r] EXCEPT !.hand = "busy", !.pend = Absent]
    OBVIOUS
  <2>2. x.pc = run[r].pc /\ x.job = run[r].job /\ Becomes(r, x)
    BY <1>0, <1>9, <2>1 DEF RunShape, ReportSave
  <2> QED
    BY <1>1, <2>2, MoveMaps DEF Live
<1> QED
  BY <1>2, <1>3, <1>4, <1>5, <1>6, <1>7, <1>8, <1>9

LEMMA TimeMaps == ASSUME TypeOK, TypeOK', TimePasses PROVE Lease!LetGo
<1>1. \A k \in Job : row'[k].status = row[k].status /\ row'[k].attempts = row[k].attempts
  <2>1. \A x \in Row : Nearer(x).status = x.status /\ Nearer(x).attempts = x.attempts
    BY DEF Nearer, Row
  <2> QED
    BY <2>1 DEF TimePasses, TypeOK
<1>2. \A s \in Run : run'[s].pc = run[s].pc /\ run'[s].job = run[s].job
  <2> SUFFICES ASSUME NEW s \in Run PROVE run'[s].pc = run[s].pc /\ run'[s].job = run[s].job
    OBVIOUS
  <2>1. run'[s] = [run[s] EXCEPT !.elapsed = IF run[s].pc = "handle" THEN @ + 1 ELSE @, !.pend = Nearer(@)]
    BY DEF TimePasses
  <2>2. run[s] \in RunShape
    BY DEF TypeOK, RunState
  <2> QED
    BY <2>1, <2>2 DEF RunShape
<1> QED
  BY <1>1, <1>2, LetGoMaps DEF Live

LEMMA RestartMaps ==
    ASSUME TypeOK', NEW w \in Worker, Restarted(w), row' = row
    PROVE  Lease!LetGo
<1>1. \A s \in Run : run'[s] = Idle \/ run'[s] = run[s]
  BY DEF Restarted
<1>2. \A s \in Run : Live(s)' => Live(s) /\ run'[s].job = run[s].job
  BY <1>1 DEF Live, Idle, Holding
<1> QED
  BY <1>2, LetGoMaps

LEMMA StepMaps ==
    WorkersAlone /\ TypeOK /\ TypeOK' /\ LeaseFits /\ [Next]_vars => Lease!LeaseNext
<1> SUFFICES ASSUME WorkersAlone, TypeOK, TypeOK', LeaseFits, [Next]_vars PROVE Lease!LeaseNext
  OBVIOUS
<1>1. Lease!LetGo => Lease!LeaseNext
  BY DEF Lease!LeaseNext
<1>2. ASSUME NEW r \in Run, TickStep(r) \/ HandlerStep(r) \/ StartTick(r) \/ DbError(r)
      PROVE  Lease!LeaseNext
  <2>1. CASE Claim(r)
    BY <2>1, ClaimMaps DEF Lease!LeaseNext
  <2>2. CASE Complete(r)
    BY <2>2, CompleteMaps DEF Lease!LeaseNext
  <2>3. CASE Fail(r)
    BY <2>3, FailMaps DEF Lease!LeaseNext
  <2>4. CASE Reclaim(r)
    BY <2>4, ReclaimMaps DEF Lease!LeaseNext
  <2>5. ~DbError(r)
    BY DEF DbError, WorkersAlone
  <2> QED
    BY <1>1, <1>2, <2>1, <2>2, <2>3, <2>4, <2>5, TickMaps DEF TickStep, HandlerStep
<1>3. ASSUME NEW w \in Worker, Crash(w) \/ Exit(w) PROVE Lease!LeaseNext
  BY <1>1, <1>3, RestartMaps DEF Crash, Exit
<1>4. ASSUME NEW j \in Job, EnqueueNew(j) PROVE Lease!LeaseNext
  BY <1>4, EnqueueMaps DEF Lease!LeaseNext
<1>5. CASE TimePasses
  BY <1>1, <1>5, TimeMaps
<1>6. ASSUME NEW c \in Caller, CallRead(c) \/ CallSave(c) PROVE FALSE
  BY <1>6 DEF CallRead, CallSave, WorkersAlone, LeaseFits
<1>7. CASE row' = row /\ run' = run
  <2>1. \A s \in Run : Live(s)' => Live(s) /\ run'[s].job = run[s].job
    BY <1>7 DEF Live
  <2> QED
    BY <1>1, <1>7, <2>1, LetGoMaps
<1>8. \A w \in Worker : Drain(w) => row' = row /\ run' = run
  BY DEF Drain
<1> QED
  BY <1>2, <1>3, <1>4, <1>5, <1>6, <1>7, <1>8 DEF Next, vars

\* While nobody but the workers writes rows and calls do not fail, the queue
\* keeps the promise of JobLease: every step of a tick, a handler, a process or
\* the clock grants a lease, ends one, takes one back, accepts a job or lets
\* holders go.
THEOREM QueueIsLease == ASSUME WorkersAlone PROVE Spec => ImplementsLease
<1>1. Init => Lease!LeaseInit
  <2> SUFFICES ASSUME Init PROVE Lease!LeaseInit
    OBVIOUS
  <2>1. \A j \in Job : PhaseOf(row[j].status) = "absent" /\ row[j].attempts = 0
    BY Phases DEF Init, Absent
  <2>2. \A r \in Run : ~Live(r)
    BY DEF Init, Live, Idle, Holding
  <2> QED
    BY <2>1, <2>2 DEF Lease!LeaseInit
<1>2. Init => LeaseFits
  BY LeaseFitsInit
<1>3. TypeOK /\ TypeOK' /\ LeaseFits /\ [Next]_vars => [Lease!LeaseNext]_(Lease!leaseVars)
  BY StepMaps
<1> QED
  BY <1>1, <1>2, <1>3, LeaseFitsInductive, TypeCorrect, PTL DEF Spec, ImplementsLease, Lease!LeaseSpec

=============================================================================
