------------------------- MODULE PrivacyFulfilment -------------------------
(***************************************************************************)
(* Privacy requests from intake to fulfilment: the administrators'         *)
(* endpoints (admin-privacy.controller.ts), the durable jobs they enqueue, *)
(* the handlers and executors that do the work in a worker process         *)
(* (privacy-job.handlers.ts, privacy-execution.service.ts), the users'     *)
(* data they work on, and users who act at the same time.                  *)
(*                                                                         *)
(* The job queue is the one of PlatformJobs, reduced to what the privacy   *)
(* domain sees of it: one job per request, claimed by one tick at a time.  *)
(* Whether an attempt is left is a free choice here.  Every database and   *)
(* storage call of an executor is a step of its own and may fail.          *)
(***************************************************************************)
EXTENDS PrivacyWorkflow

CONSTANTS Exec,         \* handler invocations that may be under way at once
          Photo,        \* uploaded files
          PhotoOwner,   \* [Photo -> User]
          Url,          \* [Photo -> UrlKind], the form of the stored URL
          Cancels,      \* whether administrators cancel requests at work
          ManualTypes,  \* types administrators record fulfilment of by hand
          UserActive,   \* whether users add repits while a request is open
          SelfService,  \* whether users delete their account themselves
          NoRequest

UrlKind == {"proxy", "bucket"}

Automated == {"account_deletion", "data_export"}

ASSUME FulfilmentAssumption ==
    /\ PhotoOwner \in [Photo -> User]
    /\ Url \in [Photo -> UrlKind]
    /\ Cancels \in BOOLEAN
    /\ ManualTypes \subseteq RequestType
    /\ UserActive \in BOOLEAN
    /\ SelfService \in BOOLEAN
    /\ NoRequest \notin Request

VARIABLES
    job,        \* platform_jobs: the row keyed by the request
    exec,       \* handlers
    gone,       \* users: the row exists, or who deleted it
    session,    \* users: sessionVersion not bumped
    repits,     \* repits: photos a user's repits show
    stored,     \* object storage
    storageUp,  \* whether deletions in the object storage succeed
    legacy,     \* account_deletion_requests: users with a completed record
    leaving     \* users whose DELETE /users/me is under way

domain == <<gone, session, repits, stored, storageUp, legacy, leaving>>
vars == <<request, job, exec, domain>>

JobStatus == {"none", "queued", "running", "completed", "failed",
              "dead_lettered", "cancelled"}

ExecPc == {"idle", "load", "prepare", "files", "repits", "sessions", "user",
           "export", "record", "failing", "ok", "err", "thrown"}

\* attached: the tick that called the handler still waits for it.
ExecState == [pc : ExecPc, request : Request \cup {NoRequest},
              photos : SUBSET Photo, attached : BOOLEAN]

Resting == [pc |-> "idle", request |-> NoRequest, photos |-> {},
            attached |-> FALSE]

TypeOK ==
    /\ request \in [Request -> RequestRow]
    /\ job \in [Request -> JobStatus]
    /\ exec \in [Exec -> ExecState]
    /\ \A e \in Exec : exec[e].pc # "idle" => exec[e].request \in Request
    /\ gone \in [User -> {"no", "executor", "self"}]
    /\ session \in [User -> BOOLEAN]
    /\ repits \in [User -> SUBSET Photo]
    /\ stored \in SUBSET Photo
    /\ storageUp \in BOOLEAN
    /\ legacy \in SUBSET User
    /\ leaving \in SUBSET User

Owned(u) == {p \in Photo : PhotoOwner[p] = u}

Init ==
    /\ request = [q \in Request |-> NotSubmitted]
    /\ job = [q \in Request |-> "none"]
    /\ exec = [e \in Exec |-> Resting]
    /\ gone = [u \in User |-> "no"]
    /\ session = [u \in User |-> TRUE]
    /\ stored \in SUBSET Photo
    /\ repits = [u \in User |-> stored \cap Owned(u)]
    /\ storageUp = TRUE
    /\ legacy = {}
    /\ leaving = {}

-----------------------------------------------------------------------------
(* Users.                                                                  *)

SignedIn(u) == gone[u] = "no" /\ session[u]

Submit(q) ==
    /\ SignedIn(OwnerOf[q])
    /\ CreateRequest(q)
    /\ UNCHANGED <<job, exec, domain>>

\* A repit with a new photo: keys are never used again.
CreateRepit(p) ==
    LET u == PhotoOwner[p] IN
    /\ UserActive
    /\ SignedIn(u)
    /\ p \notin stored \cup UNION {exec[e].photos : e \in Exec}
    /\ stored' = stored \cup {p}
    /\ repits' = [repits EXCEPT ![u] = @ \cup {p}]
    /\ UNCHANGED <<request, job, exec, gone, session, storageUp, legacy,
                   leaving>>

\* deleteRepit: the row goes, the file stays.
DeleteRepit(p) ==
    LET u == PhotoOwner[p] IN
    /\ UserActive
    /\ SignedIn(u)
    /\ p \in repits[u]
    /\ repits' = [repits EXCEPT ![u] = @ \ {p}]
    /\ UNCHANGED <<request, job, exec, gone, session, stored, storageUp, legacy,
                   leaving>>

\* Self-service deletion: the files are deleted without waiting for the
\* result, the audit record is saved as completed ...
SelfDeleteRecords(u) ==
    /\ SelfService
    /\ SignedIn(u) /\ u \notin leaving
    /\ \E lost \in SUBSET repits[u] : stored' = stored \ (repits[u] \ lost)
    /\ legacy' = legacy \cup {u}
    /\ leaving' = leaving \cup {u}
    /\ UNCHANGED <<request, job, exec, gone, session, repits, storageUp>>

\* ... then the user's row is deleted, or that fails.
SelfDeleteEnds(u) ==
    /\ u \in leaving
    /\ leaving' = leaving \ {u}
    /\ \/ /\ gone' = [gone EXCEPT ![u] = IF @ = "no" THEN "self" ELSE @]
          /\ repits' = [repits EXCEPT ![u] = {}]
       \/ UNCHANGED <<gone, repits>>
    /\ UNCHANGED <<request, job, exec, session, stored, storageUp, legacy>>

-----------------------------------------------------------------------------
(* Administrators.                                                         *)

AdminAssigns(q) ==
    /\ Assign(q)
    /\ UNCHANGED <<job, exec, domain>>

\* review, approve, reject, cancel and complete.
AdminDecides(q) ==
    /\ \/ \E to \in {"in_review", "approved", "rejected", "completed"} :
            Transition(q, to)
       \/ Cancels /\ Transition(q, "cancelled")
    /\ UNCHANGED <<job, exec, domain>>

\* enqueue: a job that waits, runs or has completed is returned as it is.
Enqueued(status) ==
    IF status \in {"queued", "running", "completed"} THEN status ELSE "queued"

\* process, and retry from any status that may go to processing: transition
\* and enqueue commit together.
StartExecution(q) ==
    /\ Transition(q, "processing")
    /\ job' = IF TypeOf[q] \in Automated
              THEN [job EXCEPT ![q] = Enqueued(@)] ELSE job
    /\ UNCHANGED <<exec, domain>>

\* The first transaction of retry on a failed request.
AllowRetry(q) ==
    /\ request[q].status = "failed"
    /\ Transition(q, "retry_required")
    /\ UNCHANGED <<job, exec, domain>>

\* fulfil: evidence recorded by hand.
Fulfil(q) ==
    /\ TypeOf[q] \in ManualTypes
    /\ \E verification \in {"verified", "failed"} :
         RecordFulfilment(q, verification)
    /\ UNCHANGED <<job, exec, domain>>

\* The Jobs screen: retry a job that failed, cancel one that waits.
JobControl(q) ==
    /\ \/ /\ job[q] \in {"failed", "dead_lettered"}
          /\ job' = [job EXCEPT ![q] = "queued"]
       \/ /\ job[q] = "queued"
          /\ TypeOf[q] = "data_export"
          /\ job' = [job EXCEPT ![q] = "cancelled"]
    /\ UNCHANGED <<request, exec, domain>>

-----------------------------------------------------------------------------
(* The queue and its workers.                                              *)

Goto(e, pc) == exec' = [exec EXCEPT ![e].pc = pc]

\* A worker claims the job and calls the handler.
ClaimJob(e, q) ==
    /\ exec[e].pc = "idle"
    /\ job[q] = "queued"
    /\ job' = [job EXCEPT ![q] = "running"]
    /\ exec' = [exec EXCEPT ![e] = [Resting EXCEPT !.pc = "load",
                                    !.request = q, !.attached = TRUE]]
    /\ UNCHANGED <<request, domain>>

\* load: the handler refuses a request that is not processing.  The query or
\* the progress report may throw.
Load(e) ==
    LET q == exec[e].request IN
    /\ exec[e].pc = "load"
    /\ \/ /\ request[q].status = "processing"
          /\ Goto(e, IF TypeOf[q] = "account_deletion" THEN "prepare"
                     ELSE "export")
       \/ request[q].status # "processing" /\ Goto(e, "err")
       \/ Goto(e, "thrown")
    /\ UNCHANGED <<request, job, domain>>

\* The tick records how the handler ended.  What the executor reports is not
\* retryable; what a query threw may be.
Conclude(e) ==
    LET q == exec[e].request
        outcomes == CASE exec[e].pc = "ok" -> {"completed"}
                      [] exec[e].pc = "err" -> {"failed"}
                      [] OTHER -> {"failed", "queued", "dead_lettered"} IN
    /\ exec[e].pc \in {"ok", "err", "thrown"}
    /\ IF exec[e].attached
       THEN \E s \in outcomes : job' = [job EXCEPT ![q] = s]
       ELSE UNCHANGED job
    /\ exec' = [exec EXCEPT ![e] = Resting]
    /\ UNCHANGED <<request, domain>>

\* withTimeout: the job fails and the handler goes on.
TimesOut(e) ==
    /\ exec[e].attached
    /\ exec[e].pc \notin {"ok", "err", "thrown"}
    /\ job' = [job EXCEPT ![exec[e].request] = "failed"]
    /\ exec' = [exec EXCEPT ![e].attached = FALSE]
    /\ UNCHANGED <<request, domain>>

\* The worker process dies.
Dies(e) ==
    /\ exec[e].pc # "idle"
    /\ exec' = [exec EXCEPT ![e] = Resting]
    /\ UNCHANGED <<request, job, domain>>

\* reclaimStalled: no tick holds the job any more.
ReclaimJob(q) ==
    /\ job[q] = "running"
    /\ \A e \in Exec : exec[e].request = q => ~exec[e].attached
    /\ \E s \in {"queued", "dead_lettered"} : job' = [job EXCEPT ![q] = s]
    /\ UNCHANGED <<request, exec, domain>>

-----------------------------------------------------------------------------
(* runDeletion.                                                            *)

\* Any of the executor's database calls throws: its own fail() takes over.
StepFails(e) ==
    /\ exec[e].pc \in {"prepare", "repits", "sessions", "user", "export",
                       "record"}
    /\ Goto(e, "failing")
    /\ UNCHANGED <<request, job, domain>>

Owner(e) == OwnerOf[exec[e].request]

\* The user is read with their repits, and their push tokens are deleted.
Prepare(e) ==
    /\ exec[e].pc = "prepare"
    /\ exec' = [exec EXCEPT ![e] =
         IF gone[Owner(e)] = "no"
         THEN [@ EXCEPT !.pc = "files", !.photos = repits[Owner(e)]]
         ELSE [@ EXCEPT !.pc = "failing"]]
    /\ UNCHANGED <<request, job, domain>>

\* extractKey keeps the whole path of the URL and deleteFile refuses a key
\* with a directory: a URL that uploads issues is /api/uploads/<key>.
Deletable(p) == Url[p] = "bucket"

\* Mutant of DeleteFiles: files that could not be deleted are skipped.
DeleteFilesRegardless(e) ==
    /\ exec[e].pc = "files"
    /\ \E lost \in SUBSET exec[e].photos :
         /\ storageUp => lost = {p \in exec[e].photos : ~Deletable(p)}
         /\ stored' = stored \ (exec[e].photos \ lost)
         /\ Goto(e, "repits")
    /\ UNCHANGED <<request, job, gone, session, repits, storageUp, legacy,
                   leaving>>

\* Storage cleanup: the executor goes on only if every file was deleted.
DeleteFiles(e) ==
    /\ exec[e].pc = "files"
    /\ \E lost \in SUBSET exec[e].photos :
         /\ {p \in exec[e].photos : ~Deletable(p)} \subseteq lost
         /\ storageUp => \A p \in lost : ~Deletable(p)
         /\ stored' = stored \ (exec[e].photos \ lost)
         /\ Goto(e, IF lost = {} THEN "repits" ELSE "failing")
    /\ UNCHANGED <<request, job, gone, session, repits, storageUp, legacy,
                   leaving>>

DeleteRepits(e) ==
    /\ exec[e].pc = "repits"
    /\ repits' = [repits EXCEPT ![Owner(e)] = {}]
    /\ Goto(e, "sessions")
    /\ UNCHANGED <<request, job, gone, session, stored, storageUp, legacy,
                   leaving>>

InvalidateSessions(e) ==
    /\ exec[e].pc = "sessions"
    /\ session' = [session EXCEPT ![Owner(e)] = FALSE]
    /\ Goto(e, "user")
    /\ UNCHANGED <<request, job, gone, repits, stored, storageUp, legacy,
                   leaving>>

\* Mutant of DeleteUser: the row is left to a later clean-up.
DeleteUserLater(e) ==
    /\ exec[e].pc = "user"
    /\ Goto(e, "record")
    /\ UNCHANGED <<request, job, domain>>

\* Deleting the row takes the user's other rows with it.
DeleteUser(e) ==
    /\ exec[e].pc = "user"
    /\ gone' = [gone EXCEPT ![Owner(e)] = IF @ = "no" THEN "executor" ELSE @]
    /\ repits' = [repits EXCEPT ![Owner(e)] = {}]
    /\ Goto(e, "record")
    /\ UNCHANGED <<request, job, session, stored, storageUp, legacy, leaving>>

\* runExport: the package is assembled and its link mailed.
Export(e) ==
    /\ exec[e].pc = "export"
    /\ Goto(e, IF gone[Owner(e)] = "no" THEN "record" ELSE "failing")
    /\ UNCHANGED <<request, job, domain>>

\* The executor has done everything and records it, if it still may.
Record(e) ==
    /\ exec[e].pc = "record"
    /\ \/ /\ RecordFulfilment(exec[e].request, "verified")
          /\ Goto(e, "ok")
       \/ /\ request[exec[e].request].status # "processing"
          /\ Goto(e, "failing")
          /\ UNCHANGED request
    /\ UNCHANGED <<job, domain>>

\* Mutant of ReportFailure: the handler returns whatever the executor says.
ReportFailureAsResult(e) ==
    /\ exec[e].pc = "failing"
    /\ MarkFailed(exec[e].request)
    /\ Goto(e, "ok")
    /\ UNCHANGED <<job, domain>>

\* fail(): the request is marked failed; that transaction may fail as well.
ReportFailure(e) ==
    /\ exec[e].pc = "failing"
    /\ \/ MarkFailed(exec[e].request) /\ Goto(e, "err")
       \/ UNCHANGED request /\ Goto(e, "thrown")
    /\ UNCHANGED <<job, domain>>

StorageChanges ==
    /\ storageUp' = ~storageUp
    /\ UNCHANGED <<request, job, exec, gone, session, repits, stored, legacy,
                   leaving>>

-----------------------------------------------------------------------------
Executor(e) ==
    \/ Load(e) \/ Prepare(e) \/ DeleteFiles(e) \/ DeleteRepits(e)
    \/ InvalidateSessions(e) \/ DeleteUser(e) \/ Export(e) \/ Record(e)
    \/ StepFails(e) \/ ReportFailure(e)

Next ==
    \/ \E q \in Request :
         \/ Submit(q) \/ AdminAssigns(q) \/ AdminDecides(q)
         \/ StartExecution(q) \/ AllowRetry(q) \/ Fulfil(q)
         \/ JobControl(q) \/ ReclaimJob(q)
         \/ \E e \in Exec : ClaimJob(e, q)
    \/ \E e \in Exec : Executor(e) \/ Conclude(e) \/ TimesOut(e) \/ Dies(e)
    \/ \E u \in User : SelfDeleteRecords(u) \/ SelfDeleteEnds(u)
    \/ \E p \in Photo : CreateRepit(p) \/ DeleteRepit(p)
    \/ StorageChanges

Spec == Init /\ [][Next]_vars

-----------------------------------------------------------------------------
(* Properties.                                                             *)

\* A deletion that the request reports as fulfilled has happened, through
\* every crash, timeout, retry and duplicate run of the executor.
FulfilledDeletionIsReal ==
    \A q \in Request :
        /\ TypeOf[q] = "account_deletion"
        /\ request[q].status \in {"fulfilled", "completed"}
        => gone[OwnerOf[q]] # "no"

\* "If ANY file fails we STOP before deleting the user": an executor that is
\* past storage cleanup has lost none of the files it found, although another
\* run of it, the user and the storage act in the meantime.
CleanupComplete ==
    \A e \in Exec :
        exec[e].pc \in {"repits", "sessions", "user", "record", "ok"}
        => exec[e].photos \cap stored = {}

\* The two books agree in one direction: a job that completed has recorded
\* fulfilment of its request.
CompletedJobFulfilled ==
    \A q \in Request : job[q] = "completed" => request[q].fulfilled

\* What request, evidence, job and user table say of each other is true: nobody
\* is told of a fulfilment without verified evidence, of a deletion that has not
\* happened, or of a job that completed without either.
FulfilmentIsReal ==
    FulfilledIsVerified /\ FulfilledDeletionIsReal /\ CompletedJobFulfilled

\* No request is worked on by two ticks, whatever the endpoints and the Jobs
\* screen do to its job in the meantime.
OneTickPerRequest ==
    \A d, e \in Exec :
        /\ exec[d].attached /\ exec[e].attached
        /\ exec[d].request = exec[e].request
        => d = e

(* What the comments say and the code does not keep.                       *)

\* "a domain state change and its background work must commit as one unit".
ProcessingHasWork ==
    \A q \in Request :
        /\ request[q].status = "processing"
        /\ TypeOf[q] \in Automated
        => \/ job[q] \in {"queued", "running"}
           \/ \E e \in Exec : exec[e].request = q

\* "Distinguishes a real deletion failure from a skip so cleanup can be
\* honest": cleanup fails only when the storage does.
CleanupFailureIsReal ==
    [][\A e \in Exec :
         exec[e].pc = "files" /\ exec'[e].pc = "failing" /\ stored' = stored
         => ~storageUp \/ exec[e].photos = {}]_vars

=============================================================================
