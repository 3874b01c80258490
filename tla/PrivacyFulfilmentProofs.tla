---------------------- MODULE PrivacyFulfilmentProofs ----------------------
(***************************************************************************)
(* Proofs about PrivacyFulfilment, for any number of requests, users,      *)
(* files and handler invocations.  Each safety invariant is proved from an *)
(* inductive one of its own; all of them rest on the type invariant.       *)
(***************************************************************************)
EXTENDS PrivacyFulfilment, TLAPS

-----------------------------------------------------------------------------
(* Types.                                                                  *)

ExecType ==
    /\ exec \in [Exec -> ExecState]
    /\ \A e \in Exec : exec[e].pc # "idle" => exec[e].request \in Request

\* A step of an invocation that only moves its control point keeps the type.
LEMMA GotoType ==
    ASSUME ExecType, NEW e \in Exec, NEW pc \in ExecPc, Goto(e, pc),
           exec[e].pc # "idle"
    PROVE  ExecType'
<1>1. [exec[e] EXCEPT !.pc = pc] \in ExecState
  BY DEF ExecType, ExecState
<1>2. exec' = [exec EXCEPT ![e] = [exec[e] EXCEPT !.pc = pc]]
  BY DEF Goto, ExecType
<1>3. exec' \in [Exec -> ExecState]
  BY <1>1, <1>2 DEF ExecType
<1>4. ASSUME NEW d \in Exec, exec'[d].pc # "idle"
      PROVE  exec'[d].request \in Request
  BY <1>2, <1>4 DEF ExecType, ExecState
<1> QED
  BY <1>3, <1>4 DEF ExecType

\* Replacing one invocation's state by a well-typed one keeps the type.
LEMMA ReplaceType ==
    ASSUME ExecType, NEW e \in Exec, NEW x \in ExecState,
           x.pc # "idle" => x.request \in Request,
           exec' = [exec EXCEPT ![e] = x]
    PROVE  ExecType'
BY DEF ExecType

\* The rows that the workflow's transactions save are rows.
LEMMA SaveType ==
    ASSUME request \in [Request -> RequestRow], NEW q \in Request,
           NEW x \in RequestRow, Save(q, x)
    PROVE  request' \in [Request -> RequestRow]
BY DEF Save

LEMMA TransitionType ==
    ASSUME request \in [Request -> RequestRow], NEW q \in Request,
           NEW to \in RequestStatus, Transition(q, to)
    PROVE  request' \in [Request -> RequestRow]
<1>1. [request[q] EXCEPT !.status = to] \in RequestRow
  BY DEF RequestRow
<1> QED
  BY <1>1, SaveType DEF Transition

LEMMA OtherSavesType ==
    ASSUME request \in [Request -> RequestRow], NEW q \in Request
    PROVE  /\ CreateRequest(q) => request' \in [Request -> RequestRow]
           /\ Assign(q) => request' \in [Request -> RequestRow]
           /\ MarkFailed(q) => request' \in [Request -> RequestRow]
           /\ \A v \in {"verified", "failed"} :
                RecordFulfilment(q, v) => request' \in [Request -> RequestRow]
<1>1. [NotSubmitted EXCEPT !.status = "pending"] \in RequestRow
  BY DEF NotSubmitted, RequestRow, RequestStatus
<1>2. /\ [request[q] EXCEPT !.status = "assigned"] \in RequestRow
      /\ [request[q] EXCEPT !.status = "failed"] \in RequestRow
  BY DEF RequestRow, RequestStatus
<1>3. \A v \in {"verified", "failed"} :
        [status |-> IF v = "failed" THEN "failed" ELSE "fulfilled",
         fulfilled |-> TRUE, verification |-> v] \in RequestRow
  BY DEF RequestRow, RequestStatus
<1> QED
  BY <1>1, <1>2, <1>3, SaveType
  DEF CreateRequest, Assign, MarkFailed, RecordFulfilment

\* What the handlers' steps that write only users' data preserve.
DomainType ==
    /\ gone \in [User -> {"no", "executor", "self"}]
    /\ session \in [User -> BOOLEAN]
    /\ repits \in [User -> SUBSET Photo]
    /\ stored \in SUBSET Photo
    /\ storageUp \in BOOLEAN
    /\ legacy \in SUBSET User
    /\ leaving \in SUBSET User

Types ==
    /\ request \in [Request -> RequestRow]
    /\ job \in [Request -> JobStatus]
    /\ ExecType
    /\ DomainType

LEMMA TypeParts == (TypeOK <=> Types) /\ (TypeOK' <=> Types')
BY DEF TypeOK, Types, ExecType, DomainType

LEMMA OwnerType ==
    ASSUME ExecType, NEW e \in Exec, exec[e].pc # "idle"
    PROVE  exec[e].request \in Request /\ Owner(e) \in User
BY WorkflowAssumption DEF ExecType, Owner

\* A working invocation's next step is well typed, and so is what it writes.
LEMMA ExecutorType ==
    ASSUME TypeOK, NEW e \in Exec, Executor(e)
    PROVE  TypeOK'
<1> USE TypeParts DEF Types
<1>1. exec[e].pc # "idle"
  BY DEF Executor, Load, Prepare, DeleteFiles, DeleteRepits, DeleteUser,
         InvalidateSessions, Export, Record, StepFails, ReportFailure
<1>2. exec[e].request \in Request /\ Owner(e) \in User
  BY <1>1, OwnerType
<1>3. \A pc \in ExecPc : Goto(e, pc) => ExecType'
  BY <1>1, GotoType
<1>4. CASE Load(e)
  <2>1. ExecType'
    BY <1>3, <1>4 DEF Load, ExecPc
  <2> QED
    BY <1>4, <2>1 DEF Load, domain, DomainType
<1>5. CASE Prepare(e)
  <2> DEFINE found == [exec[e] EXCEPT !.pc = "files",
                                      !.photos = repits[Owner(e)]]
             lost == [exec[e] EXCEPT !.pc = "failing"]
  <2>1. found \in ExecState /\ found.request = exec[e].request
    <3>1. \A ps \in SUBSET Photo :
            LET x == [exec[e] EXCEPT !.pc = "files", !.photos = ps]
            IN  x \in ExecState /\ x.request = exec[e].request
      BY DEF ExecType, ExecState, ExecPc
    <3>2. repits[Owner(e)] \in SUBSET Photo
      BY <1>2 DEF DomainType
    <3> QED
      BY <3>1, <3>2
  <2>2. lost \in ExecState /\ lost.request = exec[e].request
    BY DEF ExecType, ExecState, ExecPc
  <2>3. exec' = [exec EXCEPT ![e] = IF gone[Owner(e)] = "no"
                                    THEN found ELSE lost]
    BY <1>5 DEF Prepare, ExecType
  <2> HIDE DEF found, lost
  <2>4. ExecType'
    BY <1>2, <2>1, <2>2, <2>3, ReplaceType
  <2> QED
    BY <1>5, <2>4 DEF Prepare, domain, DomainType
<1>6. CASE DeleteFiles(e)
  <2>1. ExecType'
    BY <1>3, <1>6 DEF DeleteFiles, ExecPc
  <2> QED
    BY <1>6, <2>1 DEF DeleteFiles, DomainType
<1>7. CASE DeleteRepits(e)
  <2>1. ExecType'
    BY <1>3, <1>7 DEF DeleteRepits, ExecPc
  <2> QED
    BY <1>2, <1>7, <2>1 DEF DeleteRepits, DomainType
<1>8. CASE InvalidateSessions(e)
  <2>1. ExecType'
    BY <1>3, <1>8 DEF InvalidateSessions, ExecPc
  <2> QED
    BY <1>2, <1>8, <2>1 DEF InvalidateSessions, DomainType
<1>9. CASE DeleteUser(e)
  <2>1. ExecType'
    BY <1>3, <1>9 DEF DeleteUser, ExecPc
  <2> QED
    BY <1>2, <1>9, <2>1 DEF DeleteUser, DomainType
<1>10. CASE Export(e)
  <2>1. ExecType'
    BY <1>3, <1>10 DEF Export, ExecPc
  <2> QED
    BY <1>10, <2>1 DEF Export, domain, DomainType
<1>11. CASE Record(e)
  <2>1. ExecType'
    BY <1>3, <1>11 DEF Record, ExecPc
  <2>2. request' \in [Request -> RequestRow]
    BY <1>2, <1>11, OtherSavesType DEF Record
  <2> QED
    BY <1>11, <2>1, <2>2 DEF Record, domain, DomainType
<1>12. CASE StepFails(e)
  <2>1. ExecType'
    BY <1>3, <1>12 DEF StepFails, ExecPc
  <2> QED
    BY <1>12, <2>1 DEF StepFails, domain, DomainType
<1>13. CASE ReportFailure(e)
  <2>1. ExecType'
    BY <1>3, <1>13 DEF ReportFailure, ExecPc
  <2>2. request' \in [Request -> RequestRow]
    BY <1>2, <1>13, OtherSavesType DEF ReportFailure
  <2> QED
    BY <1>13, <2>1, <2>2 DEF ReportFailure, domain, DomainType
<1> QED
  BY <1>4, <1>5, <1>6, <1>7, <1>8, <1>9, <1>10, <1>11, <1>12, <1>13
  DEF Executor

LEMMA RestingType == Resting \in ExecState
BY DEF Resting, ExecState, ExecPc

\* The queue's steps: claims ...
LEMMA ClaimType ==
    ASSUME TypeOK, NEW e \in Exec, NEW q \in Request, ClaimJob(e, q)
    PROVE  TypeOK'
<1> USE TypeParts DEF Types
<1> DEFINE x == [Resting EXCEPT !.pc = "load", !.request = q,
                                !.attached = TRUE]
<1>1. x \in ExecState /\ x.request = q
  BY DEF Resting, ExecState, ExecPc
<1>2. exec' = [exec EXCEPT ![e] = x]
  BY DEF ClaimJob
<1> HIDE DEF x
<1>3. ExecType'
  BY <1>1, <1>2, ReplaceType
<1> QED
  BY <1>3 DEF ClaimJob, domain, DomainType, JobStatus

\* ... outcomes, timeouts and deaths.
LEMMA QueueType ==
    ASSUME TypeOK, NEW e \in Exec, Conclude(e) \/ TimesOut(e) \/ Dies(e)
    PROVE  TypeOK'
<1> USE TypeParts DEF Types
<1>1. CASE Conclude(e)
  <2>1. ExecType'
    BY <1>1, RestingType, ReplaceType DEF Conclude, Resting
  <2>2. exec[e].request \in Request
    BY <1>1 DEF Conclude, ExecType
  <2>3. job' \in [Request -> JobStatus]
    BY <1>1, <2>2 DEF Conclude, JobStatus
  <2> QED
    BY <1>1, <2>1, <2>3 DEF Conclude, domain, DomainType
<1>2. CASE TimesOut(e)
  <2> DEFINE x == [exec[e] EXCEPT !.attached = FALSE]
  <2>1. x \in ExecState /\ x.request = exec[e].request /\ x.pc = exec[e].pc
    BY DEF ExecType, ExecState
  <2>2. exec' = [exec EXCEPT ![e] = x]
    BY <1>2 DEF TimesOut, ExecType
  <2> HIDE DEF x
  <2>3. ExecType'
    BY <2>1, <2>2, ReplaceType DEF ExecType
  <2>4. job' \in [Request -> JobStatus]
    BY <1>2 DEF TimesOut, JobStatus
  <2> QED
    BY <1>2, <2>3, <2>4 DEF TimesOut, domain, DomainType
<1>3. CASE Dies(e)
  <2>1. ExecType'
    BY <1>3, RestingType, ReplaceType DEF Dies, Resting
  <2> QED
    BY <1>3, <2>1 DEF Dies, domain, DomainType
<1> QED
  BY <1>1, <1>2, <1>3

\* What is done to a request and its job.
LEMMA RequestStepType ==
    ASSUME TypeOK, NEW q \in Request,
           \/ Submit(q) \/ AdminAssigns(q) \/ AdminDecides(q)
           \/ StartExecution(q) \/ AllowRetry(q) \/ Fulfil(q) \/ JobControl(q)
           \/ ReclaimJob(q)
    PROVE  TypeOK'
<1> USE TypeParts DEF Types
<1>1. CASE Submit(q) \/ AdminAssigns(q)
  BY <1>1, OtherSavesType
  DEF Submit, AdminAssigns, domain, DomainType, ExecType
<1>2. CASE AdminDecides(q) \/ AllowRetry(q)
  BY <1>2, TransitionType
  DEF AdminDecides, AllowRetry, RequestStatus, domain, DomainType, ExecType
<1>3. CASE StartExecution(q)
  <2>1. request' \in [Request -> RequestRow]
    BY <1>3, TransitionType DEF StartExecution, RequestStatus
  <2>2. job' \in [Request -> JobStatus]
    BY <1>3 DEF StartExecution, Enqueued, JobStatus
  <2> QED
    BY <1>3, <2>1, <2>2 DEF StartExecution, domain, DomainType, ExecType
<1>4. CASE Fulfil(q)
  BY <1>4, OtherSavesType DEF Fulfil, domain, DomainType, ExecType
<1>5. CASE JobControl(q) \/ ReclaimJob(q)
  BY <1>5 DEF JobControl, ReclaimJob, JobStatus, domain, DomainType, ExecType
<1> QED
  BY <1>1, <1>2, <1>3, <1>4, <1>5

\* What users do to their data, and the storage to all.
LEMMA UserStepType ==
    ASSUME TypeOK, NEW u \in User, SelfDeleteRecords(u) \/ SelfDeleteEnds(u)
    PROVE  TypeOK'
<1> USE TypeParts DEF Types
<1>1. CASE SelfDeleteRecords(u)
  BY <1>1 DEF SelfDeleteRecords, DomainType, ExecType
<1>2. CASE SelfDeleteEnds(u)
  BY <1>2 DEF SelfDeleteEnds, DomainType, ExecType
<1> QED
  BY <1>1, <1>2

LEMMA PhotoStepType ==
    ASSUME TypeOK, NEW p \in Photo, CreateRepit(p) \/ DeleteRepit(p)
    PROVE  TypeOK'
BY TypeParts, FulfilmentAssumption
DEF Types, CreateRepit, DeleteRepit, DomainType, ExecType

LEMMA StorageStepType == TypeOK /\ StorageChanges => TypeOK'
BY DEF StorageChanges, TypeOK

LEMMA TypeInit == Init => TypeOK
<1> SUFFICES ASSUME Init PROVE TypeOK
  OBVIOUS
<1>1. NotSubmitted \in RequestRow
  BY DEF NotSubmitted, RequestRow, RequestStatus
<1>2. ExecType
  BY RestingType DEF Init, ExecType, Resting
<1>3. DomainType
  BY FulfilmentAssumption DEF Init, DomainType, Owned
<1> QED
  BY <1>1, <1>2, <1>3, TypeParts DEF Types, Init, JobStatus

LEMMA TypeStep == TypeOK /\ [Next]_vars => TypeOK'
<1> SUFFICES ASSUME TypeOK, [Next]_vars PROVE TypeOK'
  OBVIOUS
<1>1. CASE Next
  BY <1>1, ExecutorType, ClaimType, QueueType, RequestStepType, UserStepType,
     PhotoStepType, StorageStepType DEF Next
<1>2. CASE UNCHANGED vars
  BY <1>2 DEF vars, domain, TypeOK
<1> QED
  BY <1>1, <1>2

\* Type correctness: every value of every variable, in particular that an
\* invocation at work is at work on a request.
THEOREM TypeCorrect == Spec => []TypeOK
BY TypeInit, TypeStep, PTL DEF Spec

-----------------------------------------------------------------------------
(* Evidence.                                                               *)

\* A row saved as fulfilled or completed must carry its evidence.
LEMMA EvidenceSaved ==
    ASSUME request \in [Request -> RequestRow], FulfilledIsVerified,
           NEW q \in Request, NEW x \in RequestRow, Save(q, x),
           x.status \in {"fulfilled", "completed"}
             => x.fulfilled /\ x.verification = "verified"
    PROVE  FulfilledIsVerified'
BY DEF Save, FulfilledIsVerified

\* Of the transitions that administrators ask for, only the one to completed
\* needs evidence, and it looks for it.
LEMMA EvidenceTransition ==
    ASSUME request \in [Request -> RequestRow], FulfilledIsVerified,
           NEW q \in Request, NEW to \in RequestStatus \ {"fulfilled"},
           Transition(q, to)
    PROVE  FulfilledIsVerified'
<1> DEFINE x == [request[q] EXCEPT !.status = to]
<1>1. /\ x \in RequestRow /\ x.status = to
      /\ x.fulfilled = request[q].fulfilled
      /\ x.verification = request[q].verification
  BY DEF RequestRow
<1>2. Save(q, x)
  BY DEF Transition
<1>3. to = "completed"
      => request[q].fulfilled /\ request[q].verification = "verified"
  BY DEF Transition
<1> HIDE DEF x
<1> QED
  BY <1>1, <1>2, <1>3, EvidenceSaved

LEMMA EvidenceOtherSaves ==
    ASSUME request \in [Request -> RequestRow], FulfilledIsVerified,
           NEW q \in Request,
           \/ CreateRequest(q) \/ Assign(q) \/ MarkFailed(q)
           \/ \E v \in {"verified", "failed"} : RecordFulfilment(q, v)
    PROVE  FulfilledIsVerified'
<1>1. CASE CreateRequest(q)
  <2> DEFINE x == [NotSubmitted EXCEPT !.status = "pending"]
  <2>1. x \in RequestRow /\ x.status = "pending"
    BY DEF NotSubmitted, RequestRow, RequestStatus
  <2>2. Save(q, x)
    BY <1>1 DEF CreateRequest
  <2> HIDE DEF x
  <2> QED
    BY <2>1, <2>2, EvidenceSaved
<1>2. CASE Assign(q)
  <2> DEFINE x == [request[q] EXCEPT !.status = "assigned"]
  <2>1. x \in RequestRow /\ x.status = "assigned"
    BY DEF RequestRow, RequestStatus
  <2>2. Save(q, x)
    BY <1>2 DEF Assign
  <2> HIDE DEF x
  <2> QED
    BY <2>1, <2>2, EvidenceSaved
<1>3. CASE MarkFailed(q)
  <2> DEFINE x == [request[q] EXCEPT !.status = "failed"]
  <2>1. x \in RequestRow /\ x.status = "failed"
    BY DEF RequestRow, RequestStatus
  <2>2. Save(q, x)
    BY <1>3 DEF MarkFailed
  <2> HIDE DEF x
  <2> QED
    BY <2>1, <2>2, EvidenceSaved
<1>4. ASSUME NEW v \in {"verified", "failed"}, RecordFulfilment(q, v)
      PROVE  FulfilledIsVerified'
  <2> DEFINE x == [status |-> IF v = "failed" THEN "failed" ELSE "fulfilled",
                   fulfilled |-> TRUE, verification |-> v]
  <2>1. /\ x \in RequestRow
        /\ x.fulfilled
        /\ x.status = "failed" \/ x.verification = "verified"
    BY DEF RequestRow, RequestStatus
  <2>2. Save(q, x)
    BY <1>4 DEF RecordFulfilment
  <2> HIDE DEF x
  <2> QED
    BY <2>1, <2>2, EvidenceSaved
<1> QED
  BY <1>1, <1>2, <1>3, <1>4

\* The steps that write no request.
LEMMA RequestFrame ==
    ASSUME Next
    PROVE  \/ UNCHANGED request
           \/ \E q \in Request : \/ Submit(q) \/ AdminAssigns(q)
                                  \/ AdminDecides(q) \/ StartExecution(q)
                                  \/ AllowRetry(q) \/ Fulfil(q)
           \/ \E e \in Exec : Record(e) \/ ReportFailure(e)
BY DEF Next, Executor, JobControl, ReclaimJob, ClaimJob, Load, Prepare,
       DeleteFiles, DeleteRepits, InvalidateSessions, DeleteUser, Export,
       StepFails, Conclude, TimesOut, Dies, SelfDeleteRecords, SelfDeleteEnds,
       CreateRepit, DeleteRepit, StorageChanges

LEMMA EvidenceStep ==
    TypeOK /\ FulfilledIsVerified /\ [Next]_vars => FulfilledIsVerified'
<1> SUFFICES ASSUME TypeOK, FulfilledIsVerified, [Next]_vars
             PROVE  FulfilledIsVerified'
  OBVIOUS
<1> USE TypeParts DEF Types
<1>1. CASE UNCHANGED request
  BY <1>1 DEF FulfilledIsVerified
<1>2. ASSUME NEW q \in Request,
             \/ Submit(q) \/ AdminAssigns(q) \/ AdminDecides(q)
             \/ StartExecution(q) \/ AllowRetry(q) \/ Fulfil(q)
      PROVE  FulfilledIsVerified'
  BY <1>2, EvidenceTransition, EvidenceOtherSaves
  DEF Submit, AdminAssigns, AdminDecides, StartExecution, AllowRetry, Fulfil,
      RequestStatus
<1>3. ASSUME NEW e \in Exec, Record(e) \/ ReportFailure(e)
      PROVE  FulfilledIsVerified'
  <2>1. exec[e].request \in Request
    BY <1>3, OwnerType DEF Record, ReportFailure
  <2> QED
    BY <1>1, <1>3, <2>1, EvidenceOtherSaves DEF Record, ReportFailure
<1> QED
  BY <1>1, <1>2, <1>3, RequestFrame DEF vars

\* "A request only reaches completed after a fulfilment record exists and its
\* verification passes", along every path through the workflow.
THEOREM VerifiedCorrect == Spec => []FulfilledIsVerified
<1>1. Init => FulfilledIsVerified
  BY DEF Init, NotSubmitted, FulfilledIsVerified
<1> QED
  BY <1>1, EvidenceStep, TypeCorrect, PTL DEF Spec

-----------------------------------------------------------------------------
(* Ticks.                                                                  *)

\* A job that a tick holds is running: what makes OneTickPerRequest inductive.
HeldIsRunning ==
    \A e \in Exec : exec[e].attached =>
        exec[e].pc # "idle" /\ job[exec[e].request] = "running"

TicksInv == HeldIsRunning /\ OneTickPerRequest

\* Steps of administrators leave a running job alone, and handlers' steps
\* leave jobs, attachments and requests alone.
TicksKept ==
    /\ \A e \in Exec :
        /\ exec'[e].attached => exec[e].attached
        /\ exec'[e].request = exec[e].request
        /\ exec[e].pc # "idle" => exec'[e].pc # "idle"
    /\ \A q \in Request : job[q] = "running" => job'[q] = "running"

LEMMA TicksFrame ==
    ASSUME TypeOK, Next
    PROVE  \/ TicksKept
           \/ \E q \in Request : ReclaimJob(q) \/ \E e \in Exec : ClaimJob(e, q)
           \/ \E e \in Exec : Conclude(e) \/ TimesOut(e) \/ Dies(e)
<1> USE TypeParts DEF Types
<1>1. ASSUME NEW e \in Exec, NEW pc \in ExecPc \ {"idle"}, Goto(e, pc),
             UNCHANGED job
      PROVE  TicksKept
  BY <1>1 DEF TicksKept, Goto, ExecType, ExecState
<1>2. ASSUME NEW e \in Exec, Executor(e)
      PROVE  TicksKept
  <2>1. CASE Prepare(e)
    BY <2>1 DEF TicksKept, Prepare, ExecType, ExecState
  <2>2. CASE ~Prepare(e)
    BY <1>1, <1>2, <2>2
    DEF Executor, Load, DeleteFiles, DeleteRepits, InvalidateSessions,
        DeleteUser, Export, Record, StepFails, ReportFailure, domain, ExecPc
  <2> QED
    BY <2>1, <2>2
<1>3. ASSUME NEW q \in Request,
             \/ Submit(q) \/ AdminAssigns(q) \/ AdminDecides(q)
             \/ StartExecution(q) \/ AllowRetry(q) \/ Fulfil(q)
             \/ JobControl(q)
      PROVE  TicksKept
  BY <1>3 DEF TicksKept, Submit, AdminAssigns, AdminDecides, StartExecution,
              AllowRetry, Fulfil, JobControl, Enqueued
<1>4. ASSUME \/ \E u \in User : SelfDeleteRecords(u) \/ SelfDeleteEnds(u)
             \/ \E p \in Photo : CreateRepit(p) \/ DeleteRepit(p)
             \/ StorageChanges
      PROVE  TicksKept
  BY <1>4 DEF TicksKept, SelfDeleteRecords, SelfDeleteEnds, CreateRepit,
              DeleteRepit, StorageChanges
<1> QED
  BY <1>2, <1>3, <1>4 DEF Next

LEMMA TicksStep == TypeOK /\ TicksInv /\ [Next]_vars => TicksInv'
<1> SUFFICES ASSUME TypeOK, TicksInv, [Next]_vars PROVE TicksInv'
  OBVIOUS
<1> USE TypeParts DEF Types, TicksInv, HeldIsRunning, OneTickPerRequest
<1>1. CASE TicksKept
  BY <1>1 DEF TicksKept, ExecType
<1>2. ASSUME NEW q \in Request, ReclaimJob(q)
      PROVE  TicksInv'
  BY <1>2 DEF ReclaimJob
<1>3. ASSUME NEW q \in Request, NEW e \in Exec, ClaimJob(e, q)
      PROVE  TicksInv'
  BY <1>3 DEF ClaimJob, Resting, ExecType
<1>4. ASSUME NEW e \in Exec, Conclude(e)
      PROVE  TicksInv'
  BY <1>4 DEF Conclude, Resting, ExecType
<1>5. ASSUME NEW e \in Exec, TimesOut(e)
      PROVE  TicksInv'
  BY <1>5 DEF TimesOut, ExecType, ExecState
<1>6. ASSUME NEW e \in Exec, Dies(e)
      PROVE  TicksInv'
  BY <1>6 DEF Dies, Resting, ExecType
<1>7. CASE UNCHANGED vars
  BY <1>7 DEF vars
<1> QED
  BY <1>1, <1>2, <1>3, <1>4, <1>5, <1>6, <1>7, TicksFrame

\* However requests are retried, cancelled and reclaimed, no two ticks hold
\* the job of one request.
THEOREM OneTickCorrect == Spec => []OneTickPerRequest
<1>1. Init => TicksInv
  BY DEF Init, Resting, TicksInv, HeldIsRunning, OneTickPerRequest
<1>2. TicksInv => OneTickPerRequest
  BY DEF TicksInv
<1> QED
  BY <1>1, <1>2, TicksStep, TypeCorrect, PTL DEF Spec

-----------------------------------------------------------------------------
(* Control.                                                                *)

\* How an invocation gets where the invariants below look at it.
ControlKept(e) ==
    /\ exec'[e].pc = "record" =>
         \/ exec[e].pc = "record" /\ exec'[e].request = exec[e].request
         \/ DeleteUser(e) \/ Export(e)
    /\ exec'[e].pc = "export" =>
         \/ exec[e].pc = "export" /\ exec'[e].request = exec[e].request
         \/ Load(e)
    /\ exec'[e].pc = "ok" =>
         \/ exec[e].pc = "ok" /\ exec'[e].request = exec[e].request
         \/ Record(e)

LEMMA ControlFrame ==
    ASSUME TypeOK, Next, NEW e \in Exec
    PROVE  ControlKept(e)
<1> USE TypeParts DEF Types
<1>1. CASE exec' = exec
  BY <1>1 DEF ControlKept
<1>2. ASSUME NEW d \in Exec, Executor(d)
      PROVE  ControlKept(e)
  <2>1. CASE d # e
    BY <1>2, <2>1
    DEF Executor, Load, Prepare, DeleteFiles, DeleteRepits, InvalidateSessions,
        DeleteUser, Export, Record, StepFails, ReportFailure, Goto, ExecType,
        ControlKept
  <2>2. CASE d = e /\ (Load(e) \/ Export(e) \/ Record(e) \/ DeleteUser(e))
    BY <2>2
    DEF Load, Export, Record, DeleteUser, Goto, ExecType, ExecState, ControlKept
  <2>3. CASE d = e /\ Prepare(e)
    BY <2>3 DEF Prepare, ExecType, ExecState, ControlKept
  <2>4. CASE d = e /\ (\/ DeleteFiles(e) \/ DeleteRepits(e) \/ StepFails(e)
                      \/ InvalidateSessions(e) \/ ReportFailure(e))
    BY <2>4
    DEF DeleteFiles, DeleteRepits, InvalidateSessions, StepFails,
        ReportFailure, Goto, ExecType, ExecState, ControlKept
  <2> QED
    BY <1>2, <2>1, <2>2, <2>3, <2>4 DEF Executor
<1>3. ASSUME NEW d \in Exec, Conclude(d) \/ Dies(d)
      PROVE  ControlKept(e)
  BY <1>3 DEF Conclude, Dies, Resting, ExecType, ControlKept
<1>4. ASSUME NEW d \in Exec, TimesOut(d)
      PROVE  ControlKept(e)
  BY <1>4 DEF TimesOut, ExecType, ExecState, ControlKept
<1>5. ASSUME NEW d \in Exec, NEW q \in Request, ClaimJob(d, q)
      PROVE  ControlKept(e)
  BY <1>5 DEF ClaimJob, Resting, ExecType, ControlKept
<1>6. CASE \/ \E q \in Request :
                \/ Submit(q) \/ AdminAssigns(q) \/ AdminDecides(q)
                \/ StartExecution(q) \/ AllowRetry(q) \/ Fulfil(q)
                \/ JobControl(q) \/ ReclaimJob(q)
           \/ \E u \in User : SelfDeleteRecords(u) \/ SelfDeleteEnds(u)
           \/ \E p \in Photo : CreateRepit(p) \/ DeleteRepit(p)
           \/ StorageChanges
  <2>1. exec' = exec
    BY <1>6
    DEF Submit, AdminAssigns, AdminDecides, StartExecution, AllowRetry, Fulfil,
        JobControl, ReclaimJob, SelfDeleteRecords, SelfDeleteEnds, CreateRepit,
        DeleteRepit, StorageChanges
  <2> QED
    BY <1>1, <2>1
<1> QED
  BY <1>2, <1>3, <1>4, <1>5, <1>6 DEF Next

\* A request becomes fulfilled by evidence recorded by hand or by an executor
\* that has reached its end; only a fulfilled one is completed.
Reported(q) == request[q].status \in {"fulfilled", "completed"}

LEMMA ReportFrame ==
    ASSUME TypeOK, Next, NEW q \in Request, Reported(q)'
    PROVE  \/ Reported(q) \/ Fulfil(q)
           \/ \E e \in Exec : Record(e) /\ exec[e].request = q
<1> USE TypeParts DEF Types
<1>1. CASE UNCHANGED request
  BY <1>1 DEF Reported
<1>2. ASSUME NEW p \in Request, NEW x \in RequestRow, Save(p, x),
             x.status \notin {"fulfilled", "completed"} \/ p # q
      PROVE  Reported(q)
  BY <1>2 DEF Save, Reported
<1>3. ASSUME NEW p \in Request, NEW to \in RequestStatus \ {"fulfilled"},
             Transition(p, to)
      PROVE  Reported(q)
  <2>1. /\ [request[p] EXCEPT !.status = to] \in RequestRow
        /\ [request[p] EXCEPT !.status = to].status = to
    BY DEF RequestRow
  <2>2. Save(p, [request[p] EXCEPT !.status = to])
    BY <1>3 DEF Transition
  <2>3. CASE to # "completed"
    BY <1>2, <2>1, <2>2, <2>3
  <2>4. CASE to = "completed"
    <3>1. request[p].status \in RequestStatus \cup {"none"}
      BY DEF RequestRow
    <3>2. request[p].status = "fulfilled"
      BY <1>3, <2>4, <3>1 DEF Transition, CanTransition, TRANSITIONS, RequestStatus
    <3> QED
      BY <1>2, <2>1, <2>2, <3>2 DEF Reported
  <2> QED
    BY <2>3, <2>4
<1>4. ASSUME NEW p \in Request, CreateRequest(p) \/ Assign(p) \/ MarkFailed(p)
      PROVE  Reported(q)
  <2>1. /\ [NotSubmitted EXCEPT !.status = "pending"] \in RequestRow
        /\ [NotSubmitted EXCEPT !.status = "pending"].status = "pending"
    BY DEF NotSubmitted, RequestRow, RequestStatus
  <2>2. \A s \in {"assigned", "failed"} :
          /\ [request[p] EXCEPT !.status = s] \in RequestRow
          /\ [request[p] EXCEPT !.status = s].status = s
    BY DEF RequestRow, RequestStatus
  <2> QED
    BY <1>2, <1>4, <2>1, <2>2 DEF CreateRequest, Assign, MarkFailed
<1>5. ASSUME NEW p \in Request,
             \/ Submit(p) \/ AdminAssigns(p) \/ AdminDecides(p)
             \/ StartExecution(p) \/ AllowRetry(p)
      PROVE  Reported(q)
  BY <1>3, <1>4, <1>5
  DEF Submit, AdminAssigns, AdminDecides, StartExecution, AllowRetry,
      RequestStatus
<1>6. ASSUME NEW p \in Request, Fulfil(p), p # q
      PROVE  Reported(q)
  BY <1>6 DEF Fulfil, RecordFulfilment, Save, Reported
<1>7. ASSUME NEW e \in Exec, Record(e), exec[e].request # q
      PROVE  Reported(q)
  BY <1>7 DEF Record, RecordFulfilment, Save, Reported
<1>8. ASSUME NEW e \in Exec, ReportFailure(e)
      PROVE  Reported(q)
  <2>1. exec[e].request \in Request
    BY <1>8, OwnerType DEF ReportFailure
  <2>2. MarkFailed(exec[e].request) \/ UNCHANGED request
    BY <1>8 DEF ReportFailure
  <2>3. CASE MarkFailed(exec[e].request)
    BY <1>4, <2>1, <2>3
  <2>4. CASE UNCHANGED request
    BY <2>4 DEF Reported
  <2> QED
    BY <2>2, <2>3, <2>4
<1> QED
  BY <1>1, <1>5, <1>6, <1>7, <1>8, RequestFrame

-----------------------------------------------------------------------------
(* Deletions.                                                              *)

\* An executor that may report a deletion has carried it out, and the export
\* executor is given no deletions.
DeletionInv ==
    /\ \A q \in Request :
         TypeOf[q] = "account_deletion" /\ Reported(q) => gone[OwnerOf[q]] # "no"
    /\ \A e \in Exec :
         exec[e].pc = "record" /\ TypeOf[exec[e].request] = "account_deletion"
         => gone[Owner(e)] # "no"
    /\ \A e \in Exec :
         exec[e].pc = "export" => TypeOf[exec[e].request] # "account_deletion"

\* Users do not come back.
LEMMA GoneFrame ==
    ASSUME TypeOK, Next, NEW u \in User, gone[u] # "no"
    PROVE  gone'[u] # "no"
<1> USE TypeParts DEF Types
<1>1. CASE UNCHANGED gone
  BY <1>1
<1>2. ASSUME NEW v \in User, SelfDeleteEnds(v)
      PROVE  gone'[u] # "no"
  BY <1>2 DEF SelfDeleteEnds, DomainType
<1>3. ASSUME NEW e \in Exec, DeleteUser(e)
      PROVE  gone'[u] # "no"
  BY <1>3 DEF DeleteUser, DomainType
<1>4. \/ UNCHANGED gone
      \/ \E v \in User : SelfDeleteEnds(v)
      \/ \E e \in Exec : DeleteUser(e)
  BY DEF Next, Executor, Submit, AdminAssigns, AdminDecides, StartExecution,
         AllowRetry, Fulfil, JobControl, ReclaimJob, ClaimJob, Load, Prepare,
         DeleteFiles, DeleteRepits, InvalidateSessions, Export, StepFails,
         Record, ReportFailure, Conclude, TimesOut, Dies, SelfDeleteRecords,
         CreateRepit, DeleteRepit, StorageChanges, domain
<1> QED
  BY <1>1, <1>2, <1>3, <1>4

LEMMA DeletionStep ==
    ASSUME "account_deletion" \notin ManualTypes
    PROVE  TypeOK /\ DeletionInv /\ [Next]_vars => DeletionInv'
<1> SUFFICES ASSUME TypeOK, DeletionInv, Next PROVE DeletionInv'
  BY DEF vars, domain, DeletionInv, Reported, Owner
<1> USE TypeParts DEF Types
<1>1. ASSUME NEW q \in Request, TypeOf[q] = "account_deletion", Reported(q)'
      PROVE  gone'[OwnerOf[q]] # "no"
  <2>1. OwnerOf[q] \in User
    BY WorkflowAssumption
  <2>2. gone[OwnerOf[q]] # "no"
    BY <1>1, ReportFrame DEF DeletionInv, Fulfil, Record, Owner
  <2> QED
    BY <2>1, <2>2, GoneFrame
<1>2. ASSUME NEW e \in Exec, exec'[e].pc = "record",
             TypeOf[exec'[e].request] = "account_deletion"
      PROVE  gone'[OwnerOf[exec'[e].request]] # "no"
  <2>1. CASE exec[e].pc = "record" /\ exec'[e].request = exec[e].request
    BY <1>2, <2>1, OwnerType, GoneFrame DEF DeletionInv, Owner
  <2>2. CASE DeleteUser(e)
    <3>1. exec'[e].request = exec[e].request
      BY <2>2 DEF DeleteUser, Goto, ExecType, ExecState
    <3>2. Owner(e) \in User
      BY <2>2, OwnerType DEF DeleteUser
    <3> QED
      BY <2>2, <3>1, <3>2 DEF DeleteUser, DomainType, Owner
  <2>3. CASE Export(e)
    <3>1. exec'[e].request = exec[e].request
      BY <2>3 DEF Export, Goto, ExecType, ExecState
    <3> QED
      BY <1>2, <2>3, <3>1 DEF Export, DeletionInv
  <2> QED
    BY <1>2, <2>1, <2>2, <2>3, ControlFrame DEF ControlKept
<1>3. ASSUME NEW e \in Exec, exec'[e].pc = "export"
      PROVE  TypeOf[exec'[e].request] # "account_deletion"
  <2>1. CASE Load(e)
    BY <1>3, <2>1 DEF Load, Goto, ExecType, ExecState
  <2> QED
    BY <1>3, <2>1, ControlFrame DEF ControlKept, DeletionInv
<1> QED
  BY <1>1, <1>2, <1>3 DEF DeletionInv, Owner

\* No account deletion is reported fulfilled while the user exists, provided
\* that nobody records one by hand: through crashes, timeouts, orphaned and
\* repeated runs of the executor.
THEOREM DeletionCorrect ==
    ASSUME "account_deletion" \notin ManualTypes
    PROVE  Spec => []FulfilledDeletionIsReal
<1>1. Init => DeletionInv
  BY DEF Init, NotSubmitted, Resting, DeletionInv, Reported
<1>2. DeletionInv => FulfilledDeletionIsReal
  BY DEF DeletionInv, FulfilledDeletionIsReal, Reported
<1> QED
  BY <1>1, <1>2, DeletionStep, TypeCorrect, PTL DEF Spec

-----------------------------------------------------------------------------
(* Storage cleanup.                                                        *)

\* An invocation that has not looked for files yet knows of none: an export
\* reports its success without having looked.
CleanupInv ==
    /\ CleanupComplete
    /\ \A e \in Exec : exec[e].pc \in {"load", "export"} => exec[e].photos = {}

\* What is left of the files an invocation found only shrinks ...
LEMMA FilesFrame ==
    ASSUME TypeOK, Next
    PROVE  \/ stored' \subseteq stored
           \/ exec' = exec /\ \E p \in Photo :
                /\ stored' = stored \cup {p}
                /\ \A e \in Exec : p \notin exec[e].photos
<1>1. ASSUME NEW p \in Photo, CreateRepit(p)
      PROVE  /\ exec' = exec
             /\ stored' = stored \cup {p}
             /\ \A e \in Exec : p \notin exec[e].photos
  BY <1>1 DEF CreateRepit
<1>2. CASE \E u \in User : SelfDeleteRecords(u)
  BY <1>2 DEF SelfDeleteRecords
<1>3. CASE \E e \in Exec : DeleteFiles(e)
  BY <1>3 DEF DeleteFiles
<1>4. \/ UNCHANGED stored
      \/ \E p \in Photo : CreateRepit(p)
      \/ \E u \in User : SelfDeleteRecords(u)
      \/ \E e \in Exec : DeleteFiles(e)
  BY DEF Next, Executor, Submit, AdminAssigns, AdminDecides, StartExecution,
         AllowRetry, Fulfil, JobControl, ReclaimJob, ClaimJob, Load, Prepare,
         DeleteRepits, InvalidateSessions, DeleteUser, Export, StepFails,
         Record, ReportFailure, Conclude, TimesOut, Dies, SelfDeleteEnds,
         DeleteRepit, StorageChanges, domain
<1> QED
  BY <1>1, <1>2, <1>3, <1>4

\* ... and an invocation comes to be past cleanup by cleaning up.
Past == {"repits", "sessions", "user", "record", "ok"}

CleanupKept(e) ==
    /\ exec'[e].pc \in Past =>
         \/ exec[e].pc \in Past \cup {"export"}
            /\ exec'[e].photos = exec[e].photos
         \/ exec'[e].photos \cap stored' = {}
    /\ exec'[e].pc \in {"load", "export"} =>
         \/ exec[e].pc \in {"load", "export"}
            /\ exec'[e].photos = exec[e].photos
         \/ exec'[e].photos = {}

LEMMA CleanupFrame ==
    ASSUME TypeOK, Next, NEW e \in Exec
    PROVE  CleanupKept(e)
<1> USE TypeParts DEF Types
<1>1. CASE exec' = exec
  BY <1>1 DEF CleanupKept, Past
<1>2. ASSUME NEW d \in Exec, Executor(d)
      PROVE  CleanupKept(e)
  <2>1. CASE d # e
    BY <1>2, <2>1
    DEF Executor, Load, Prepare, DeleteFiles, DeleteRepits, InvalidateSessions,
        DeleteUser, Export, Record, StepFails, ReportFailure, Goto, ExecType,
        CleanupKept, Past
  <2>2. CASE d = e /\ (Load(e) \/ Export(e) \/ Record(e) \/ DeleteUser(e))
    BY <2>2
    DEF Load, Export, Record, DeleteUser, Goto, ExecType, ExecState,
        CleanupKept, Past
  <2>3. CASE d = e /\ Prepare(e)
    BY <2>3 DEF Prepare, ExecType, ExecState, CleanupKept, Past
  <2>4. CASE d = e /\ DeleteFiles(e)
    BY <2>4 DEF DeleteFiles, Goto, ExecType, ExecState, CleanupKept, Past
  <2>5. CASE d = e /\ (\/ DeleteRepits(e) \/ StepFails(e)
                      \/ InvalidateSessions(e) \/ ReportFailure(e))
    BY <2>5
    DEF DeleteRepits, InvalidateSessions, StepFails, ReportFailure, Goto,
        ExecType, ExecState, CleanupKept, Past
  <2> QED
    BY <1>2, <2>1, <2>2, <2>3, <2>4, <2>5 DEF Executor
<1>3. ASSUME NEW d \in Exec, Conclude(d) \/ Dies(d)
      PROVE  CleanupKept(e)
  BY <1>3 DEF Conclude, Dies, Resting, ExecType, CleanupKept, Past
<1>4. ASSUME NEW d \in Exec, TimesOut(d)
      PROVE  CleanupKept(e)
  BY <1>4 DEF TimesOut, ExecType, ExecState, CleanupKept, Past
<1>5. ASSUME NEW d \in Exec, NEW q \in Request, ClaimJob(d, q)
      PROVE  CleanupKept(e)
  BY <1>5 DEF ClaimJob, Resting, ExecType, CleanupKept, Past
<1>6. CASE \/ \E q \in Request :
                \/ Submit(q) \/ AdminAssigns(q) \/ AdminDecides(q)
                \/ StartExecution(q) \/ AllowRetry(q) \/ Fulfil(q)
                \/ JobControl(q) \/ ReclaimJob(q)
           \/ \E u \in User : SelfDeleteRecords(u) \/ SelfDeleteEnds(u)
           \/ \E p \in Photo : CreateRepit(p) \/ DeleteRepit(p)
           \/ StorageChanges
  <2>1. exec' = exec
    BY <1>6
    DEF Submit, AdminAssigns, AdminDecides, StartExecution, AllowRetry, Fulfil,
        JobControl, ReclaimJob, SelfDeleteRecords, SelfDeleteEnds, CreateRepit,
        DeleteRepit, StorageChanges
  <2> QED
    BY <1>1, <2>1
<1> QED
  BY <1>2, <1>3, <1>4, <1>5, <1>6 DEF Next

LEMMA CleanupStep == TypeOK /\ CleanupInv /\ [Next]_vars => CleanupInv'
<1> SUFFICES ASSUME TypeOK, CleanupInv, Next PROVE CleanupInv'
  BY DEF vars, domain, CleanupInv, CleanupComplete
<1>1. ASSUME NEW e \in Exec, exec'[e].pc \in Past
      PROVE  exec'[e].photos \cap stored' = {}
  <2>1. CASE exec[e].pc \in Past \cup {"export"} /\ exec'[e].photos = exec[e].photos
    <3>1. exec[e].photos \cap stored = {}
      BY <2>1 DEF CleanupInv, CleanupComplete, Past
    <3> QED
      BY <2>1, <3>1, FilesFrame
  <2> QED
    BY <1>1, <2>1, CleanupFrame DEF CleanupKept
<1>2. ASSUME NEW e \in Exec, exec'[e].pc \in {"load", "export"}
      PROVE  exec'[e].photos = {}
  BY <1>2, CleanupFrame DEF CleanupKept, CleanupInv
<1> QED
  BY <1>1, <1>2 DEF CleanupInv, CleanupComplete, Past

\* "If ANY file fails we STOP before deleting the user", whatever else runs.
THEOREM CleanupCorrect == Spec => []CleanupComplete
<1>1. Init => CleanupInv
  BY DEF Init, Resting, CleanupInv, CleanupComplete
<1>2. CleanupInv => CleanupComplete
  BY DEF CleanupInv
<1> QED
  BY <1>1, <1>2, CleanupStep, TypeCorrect, PTL DEF Spec

-----------------------------------------------------------------------------
(* Jobs and requests.                                                      *)

\* An invocation that ends well has recorded fulfilment, and evidence once
\* recorded stays, since no row is submitted twice.
BooksInv ==
    /\ CompletedJobFulfilled
    /\ \A e \in Exec : exec[e].pc = "ok" => request[exec[e].request].fulfilled
    /\ \A q \in Request : request[q].fulfilled => request[q].status # "none"

\* A saved row keeps the evidence of the one it replaces.
LEMMA EvidenceKept ==
    ASSUME TypeOK, BooksInv, Next, NEW q \in Request
    PROVE  /\ request[q].fulfilled => request'[q].fulfilled
           /\ request'[q].fulfilled => request'[q].status # "none"
<1> USE TypeParts DEF Types
<1> DEFINE Kept(x, y) == /\ x.fulfilled => y.fulfilled
                         /\ y.fulfilled => y.status # "none"
<1>1. CASE UNCHANGED request
  BY <1>1 DEF BooksInv
<1>2. ASSUME NEW p \in Request, NEW x \in RequestRow, Save(p, x),
             Kept(request[p], x)
      PROVE  Kept(request[q], request'[q])
  <2>1. CASE p = q
    BY <1>2, <2>1 DEF Save
  <2>2. CASE p # q
    BY <1>2, <2>2 DEF Save, BooksInv
  <2> QED
    BY <2>1, <2>2
<1>3. ASSUME NEW p \in Request, NEW s \in RequestStatus,
             Save(p, [request[p] EXCEPT !.status = s])
      PROVE  Kept(request[q], request'[q])
  <2> DEFINE x == [request[p] EXCEPT !.status = s]
  <2>1. /\ x \in RequestRow /\ x.status = s
        /\ x.fulfilled = request[p].fulfilled /\ s # "none"
    BY DEF RequestRow, RequestStatus
  <2> HIDE DEF x
  <2> QED
    BY <1>2, <1>3, <2>1 DEF x
<1>4. ASSUME NEW p \in Request, CreateRequest(p)
      PROVE  Kept(request[q], request'[q])
  <2> DEFINE x == [NotSubmitted EXCEPT !.status = "pending"]
  <2>1. x \in RequestRow /\ x.status = "pending" /\ ~x.fulfilled
    BY DEF NotSubmitted, RequestRow, RequestStatus
  <2>2. ~request[p].fulfilled
    BY <1>4 DEF CreateRequest, BooksInv
  <2>3. Save(p, x)
    BY <1>4 DEF CreateRequest
  <2> HIDE DEF x
  <2> QED
    BY <1>2, <2>1, <2>2, <2>3
<1>5. ASSUME NEW p \in Request, NEW v \in {"verified", "failed"},
             RecordFulfilment(p, v)
      PROVE  Kept(request[q], request'[q])
  <2> DEFINE x == [status |-> IF v = "failed" THEN "failed" ELSE "fulfilled",
                   fulfilled |-> TRUE, verification |-> v]
  <2>1. x \in RequestRow /\ x.status # "none" /\ x.fulfilled
    BY DEF RequestRow, RequestStatus
  <2>2. Save(p, x)
    BY <1>5 DEF RecordFulfilment
  <2> HIDE DEF x
  <2> QED
    BY <1>2, <2>1, <2>2
<1>6. ASSUME NEW p \in Request,
             \/ Submit(p) \/ AdminAssigns(p) \/ AdminDecides(p)
             \/ StartExecution(p) \/ AllowRetry(p) \/ Fulfil(p)
      PROVE  Kept(request[q], request'[q])
  BY <1>3, <1>4, <1>5, <1>6
  DEF Submit, AdminAssigns, AdminDecides, StartExecution, AllowRetry, Fulfil,
      Assign, Transition, RequestStatus
<1>7. ASSUME NEW e \in Exec, Record(e) \/ ReportFailure(e)
      PROVE  Kept(request[q], request'[q])
  <2>1. exec[e].request \in Request
    BY <1>7, OwnerType DEF Record, ReportFailure
  <2> QED
    BY <1>1, <1>3, <1>5, <1>7, <2>1
    DEF Record, ReportFailure, MarkFailed, RequestStatus
<1> QED
  BY <1>1, <1>6, <1>7, RequestFrame

\* A job is completed by the tick of an invocation that ended well.
LEMMA CompletionFrame ==
    ASSUME TypeOK, Next, NEW q \in Request, job'[q] = "completed"
    PROVE  \/ job[q] = "completed"
           \/ \E e \in Exec : exec[e].pc = "ok" /\ exec[e].request = q
<1> USE TypeParts DEF Types
<1>1. CASE UNCHANGED job
  BY <1>1
<1>2. ASSUME NEW p \in Request,
             \/ StartExecution(p) \/ JobControl(p) \/ ReclaimJob(p)
             \/ \E e \in Exec : ClaimJob(e, p)
      PROVE  job[q] = "completed"
  BY <1>2 DEF StartExecution, JobControl, ReclaimJob, ClaimJob, Enqueued
<1>3. ASSUME NEW e \in Exec, Conclude(e)
      PROVE  job[q] = "completed" \/ (exec[e].pc = "ok" /\ exec[e].request = q)
  BY <1>3 DEF Conclude
<1>4. ASSUME NEW e \in Exec, TimesOut(e)
      PROVE  job[q] = "completed"
  BY <1>4 DEF TimesOut
<1>5. \/ UNCHANGED job
      \/ \E p \in Request :
           \/ StartExecution(p) \/ JobControl(p) \/ ReclaimJob(p)
           \/ \E e \in Exec : ClaimJob(e, p)
      \/ \E e \in Exec : Conclude(e) \/ TimesOut(e)
  BY DEF Next, Executor, Submit, AdminAssigns, AdminDecides, AllowRetry, Fulfil,
         Load, Prepare, DeleteFiles, DeleteRepits, InvalidateSessions,
         DeleteUser, Export, StepFails, Record, ReportFailure, Dies,
         SelfDeleteRecords, SelfDeleteEnds, CreateRepit, DeleteRepit,
         StorageChanges
<1> QED
  BY <1>1, <1>2, <1>3, <1>4, <1>5

LEMMA BooksStep == TypeOK /\ BooksInv /\ [Next]_vars => BooksInv'
<1> SUFFICES ASSUME TypeOK, BooksInv, Next PROVE BooksInv'
  BY DEF vars, BooksInv, CompletedJobFulfilled
<1> USE TypeParts DEF Types
<1>1. ASSUME NEW q \in Request, job'[q] = "completed"
      PROVE  request'[q].fulfilled
  BY <1>1, CompletionFrame, EvidenceKept DEF BooksInv, CompletedJobFulfilled
<1>2. ASSUME NEW e \in Exec, exec'[e].pc = "ok"
      PROVE  request'[exec'[e].request].fulfilled
  <2>1. CASE exec[e].pc = "ok" /\ exec'[e].request = exec[e].request
    BY <2>1, OwnerType, EvidenceKept DEF BooksInv
  <2>2. CASE Record(e)
    <3>1. exec'[e].request = exec[e].request
      BY <2>2 DEF Record, Goto, ExecType, ExecState
    <3>2. RecordFulfilment(exec[e].request, "verified")
      BY <1>2, <2>2 DEF Record, Goto, ExecType, ExecState
    <3>3. exec[e].request \in Request
      BY <2>2, OwnerType DEF Record
    <3> QED
      BY <3>1, <3>2, <3>3 DEF RecordFulfilment, Save
  <2> QED
    BY <1>2, <2>1, <2>2, ControlFrame DEF ControlKept
<1> QED
  BY <1>1, <1>2, EvidenceKept DEF BooksInv, CompletedJobFulfilled

\* A privacy job that completed has recorded fulfilment of its request.
THEOREM BooksCorrect == Spec => []CompletedJobFulfilled
<1>1. Init => BooksInv
  BY DEF Init, NotSubmitted, Resting, BooksInv, CompletedJobFulfilled
<1>2. BooksInv => CompletedJobFulfilled
  BY DEF BooksInv
<1> QED
  BY <1>1, <1>2, BooksStep, TypeCorrect, PTL DEF Spec

\* Evidence, deletion and job agree with what requests report, unless account
\* deletions are recorded by hand.
THEOREM FulfilmentCorrect ==
    ASSUME "account_deletion" \notin ManualTypes
    PROVE  Spec => []FulfilmentIsReal
<1>1. FulfilledIsVerified /\ FulfilledDeletionIsReal /\ CompletedJobFulfilled
        => FulfilmentIsReal
  BY DEF FulfilmentIsReal
<1> QED
  BY <1>1, VerifiedCorrect, DeletionCorrect, BooksCorrect, PTL

=============================================================================
