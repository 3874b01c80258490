---------------------------- MODULE MediaProcessing ----------------------------
(* Background removal for uploaded pictures: media-processing.service.ts (the  *)
(* requests), media-job.handlers.ts (the job handler), background-removal.     *)
(* service.ts (the pipeline stage), media-asset.service.ts (the rows) and the  *)
(* check createRepit makes before it saves a Repit.                            *)
(*                                                                             *)
(* An asset has a processing status.  A request moves it to queued and, in the *)
(* same transaction, enqueues a job; the handler moves it to processing, looks *)
(* for a result it can reuse, else pays the provider, stores the picture,      *)
(* saves a derivative row and moves the asset to completed or failed.  The     *)
(* requests lock the asset; the handler reads it, checks the transition, and   *)
(* saves the row it read.                                                      *)
(*                                                                             *)
(* The job queue is PlatformJobs reduced to what this component sees of it: a  *)
(* job is claimed by one run, an administrator may cancel it while it waits,   *)
(* and a fault (a crash, a timeout, an administrator's retry) delivers it once *)
(* more.  Templates here all require isolation (the others answer the original *)
(* picture and write nothing); one provider version; owners are left out.      *)
EXTENDS Integers, FiniteSets

CONSTANTS
    Asset,       \* media_assets rows
    Content,     \* checksums of original pictures
    Object,      \* storage keys of processed pictures
    Run,         \* handler executions at the same time
    Request,     \* resolveTemplateImage and createRepit requests at the same time
    None,        \* no asset, no object, no content
    MaxRetry,    \* bound on retryCount
    MaxRegen,    \* bound on regenerations of one asset
    Budget       \* bound on uploads, repeats, vanished pictures and faults together

ASSUME MediaAssumption ==
    /\ None \notin Asset \cup Object \cup Content
    /\ MaxRetry \in Nat /\ MaxRegen \in Nat /\ Budget \in Nat

VARIABLES
    asset,      \* media_assets: status, retryCount, checksum
    row,        \* media_derivatives: the asset's row for the current version
    picture,    \* object storage: what each processed picture shows
    vanished,   \* processed pictures that are no longer in storage
    job,        \* platform_jobs of type media.background_remove, by asset and key
    run,        \* handler executions
    request,    \* requests between two awaits
    owed,       \* provider calls each asset was queued for and has not had yet
    disturbed   \* assets of which a job was delivered again, or a write was lost

vars == <<asset, row, picture, vanished, job, run, request, owed, disturbed>>

-------------------------------------------------------------------------------
(* State                                                                       *)

Transitions ==
    [uploaded       |-> {"queued"},
     queued         |-> {"processing", "cancelled"},
     processing     |-> {"completed", "failed"},
     failed         |-> {"retry_required", "cancelled"},
     retry_required |-> {"queued", "cancelled"},
     completed      |-> {"retry_required"},
     cancelled      |-> {}]

\* Statuses from which processing may be started.  Mutant: it may be started
\* while it is under way.
ReprocessableAnyTime == {"uploaded", "processing", "failed", "retry_required"}
Reprocessable == {"uploaded", "failed", "retry_required"}

Status == {"none"} \cup DOMAIN Transitions
AssetRow == [status : Status, retries : 0 .. MaxRetry, content : Content \cup {None}]

\* Idempotency keys: type:asset:retryCount, and a fresh one per regeneration.
Plain(n) == <<"plain", n>>
Regen(n) == <<"regen", n>>
Key == {Plain(n) : n \in 0 .. MaxRetry} \cup {Regen(n) : n \in 1 .. MaxRegen}
JobStatus == {"none", "queued", "active", "completed", "failed", "cancelled"}

Working == {"reuse", "content", "provider", "save", "done", "completing", "fail", "failing"}
Execution == [pc : {"idle", "load", "mark", "marking", "succeeded", "gaveUp", "threw"} \cup Working,
              asset : Asset \cup {None}, key : Key \cup {None}, holds : BOOLEAN,
              seen : AssetRow \cup {None}, object : Object \cup {None}]
IdleRun == [pc |-> "idle", asset |-> None, key |-> None, holds |-> FALSE,
            seen |-> None, object |-> None]

Errand == [pc : {"idle", "row", "exists", "update", "recover", "reread", "start",
                 "saveRow", "saveExists", "saveRepit"},
           asset : Asset \cup {None}, retryFailed : BOOLEAN, current : Status,
           recovered : BOOLEAN, object : Object \cup {None}]
IdleRequest == [pc |-> "idle", asset |-> None, retryFailed |-> FALSE,
                current |-> "none", recovered |-> FALSE, object |-> None]

Stored == {o \in Object : picture[o] # None} \ vanished
Free == {o \in Object : picture[o] = None}
Held(a, k) == \E r \in Run : run[r].pc # "idle" /\ run[r].holds
                             /\ run[r].asset = a /\ run[r].key = k

\* What has happened that the model bounds: uploads, retried and regenerated
\* assets, vanished pictures, faults.  An upload, a retry and a regeneration
\* weigh two and a fault three, so that with Budget = 6 there are two assets,
\* or one that meets a fault.
Spent ==
    2 * Cardinality({a \in Asset : asset[a].status # "none"})
    + 2 * Cardinality({a \in Asset : asset[a].retries > 0})
    + 2 * Cardinality({a \in Asset : \E n \in 1 .. MaxRegen : job[a][Regen(n)] # "none"})
    + Cardinality(vanished)
    + 3 * Cardinality(disturbed)
Within(weight) == Spent + weight <= Budget

-------------------------------------------------------------------------------
(* Queueing                                                                    *)

\* enqueue with a key that exists: a job that is active or done stays what it
\* is, one that failed or was cancelled is armed again.
Enqueued(a, k) ==
    IF job[a][k] \in {"queued", "active", "completed"} THEN job
    ELSE [job EXCEPT ![a] = [@ EXCEPT ![k] = "queued"]]

\* The transaction of enqueueProcessing when the locked asset may be queued.
Queue(a, increment) ==
    LET n == asset[a].retries + (IF increment THEN 1 ELSE 0)
    IN /\ asset[a].status \in Reprocessable
       /\ increment => n <= MaxRetry /\ Within(1)
       /\ asset' = [asset EXCEPT ![a] = [@ EXCEPT !.status = "queued", !.retries = n]]
       /\ job' = Enqueued(a, Plain(n))
       /\ owed' = [owed EXCEPT ![a] = @ + 1]

\* registerFromUpload: the original is read, checked and hashed.
Register(a, c) ==
    /\ asset[a].status = "none" /\ Within(2)
    /\ asset' = [asset EXCEPT ![a] = [status |-> "uploaded", retries |-> 0, content |-> c]]
    /\ UNCHANGED <<row, picture, vanished, job, run, request, owed, disturbed>>

\* An administrator's retry.
Retry(a) ==
    /\ Queue(a, TRUE)
    /\ UNCHANGED <<row, picture, vanished, run, request, disturbed>>

\* Mutant: a regeneration is refused only while the asset waits.
RegenerateUnderWay(a) ==
    /\ asset[a].status \notin {"none", "queued"} /\ Within(2)
    /\ asset' = [asset EXCEPT ![a] = [@ EXCEPT !.status = "queued"]]
    /\ owed' = [owed EXCEPT ![a] = @ + 1]
    /\ \E n \in 1 .. MaxRegen :
          /\ job[a][Regen(n)] = "none"
          /\ job' = Enqueued(a, Regen(n))
    /\ UNCHANGED <<row, picture, vanished, run, request, disturbed>>

\* An administrator's regeneration queues an asset in any state of rest.
Regenerate(a) ==
    /\ asset[a].status \notin {"none", "queued", "processing"} /\ Within(2)
    /\ asset' = [asset EXCEPT ![a] = [@ EXCEPT !.status = "queued"]]
    /\ owed' = [owed EXCEPT ![a] = @ + 1]
    /\ \E n \in 1 .. MaxRegen :
          /\ job[a][Regen(n)] = "none"
          /\ \A i \in 1 .. n - 1 : job[a][Regen(i)] # "none"
          /\ job' = Enqueued(a, Regen(n))
    /\ UNCHANGED <<row, picture, vanished, run, request, disturbed>>

-------------------------------------------------------------------------------
(* resolveTemplateImage                                                        *)

\* The request reads the asset, then its row, then asks the storage.
Resolve(q, a, retryFailed) ==
    /\ request[q].pc = "idle"
    /\ asset[a].status # "none"
    /\ request' = [request EXCEPT ![q] = [IdleRequest EXCEPT
          !.pc = "row", !.asset = a, !.retryFailed = retryFailed, !.current = asset[a].status]]
    /\ UNCHANGED <<asset, row, picture, vanished, job, run, owed, disturbed>>

FindRow(q) ==
    LET this == request[q]
        found == row[this.asset]
    IN /\ this.pc = "row"
       /\ request' = [request EXCEPT ![q] = [@ EXCEPT
             !.pc = IF this.current # "completed" THEN "start"
                    ELSE IF found = None THEN "update" ELSE "exists",
             !.object = IF this.current = "completed" THEN found ELSE None]]
       /\ UNCHANGED <<asset, row, picture, vanished, job, run, owed, disturbed>>

\* The picture is there: the request answers "ready" with it.
AnswerReady(q) ==
    /\ request[q].pc = "exists"
    /\ request[q].object \in Stored
    /\ request' = [request EXCEPT ![q] = IdleRequest]
    /\ UNCHANGED <<asset, row, picture, vanished, job, run, owed, disturbed>>

\* The row, or the picture behind it, is missing: under the asset's lock the row
\* that was read is deleted and a completed asset becomes retry_required.
Recover(q) ==
    LET this == request[q]
        a == this.asset
    IN /\ \/ this.pc = "exists" /\ this.object \notin Stored
          \/ this.pc = "update"
       /\ row' = IF this.pc = "exists" /\ row[a] = this.object
                 THEN [row EXCEPT ![a] = None] ELSE row
       /\ asset' = IF asset[a].status = "completed"
                   THEN [asset EXCEPT ![a] = [@ EXCEPT !.status = "retry_required"]]
                   ELSE asset
       /\ request' = [request EXCEPT ![q] = [@ EXCEPT
             !.pc = "reread", !.recovered = TRUE, !.object = None]]
       /\ UNCHANGED <<picture, vanished, job, run, owed, disturbed>>

Reread(q) ==
    /\ request[q].pc = "reread"
    /\ request' = [request EXCEPT ![q] = [@ EXCEPT
          !.pc = "start", !.current = asset[request[q].asset].status]]
    /\ UNCHANGED <<asset, row, picture, vanished, job, run, owed, disturbed>>

MayStart(this) ==
    \/ this.current = "uploaded"
    \/ this.recovered
    \/ this.retryFailed /\ this.current \in Reprocessable

\* Queue the asset when the status that was read allows it.  An asset that turns
\* out to be completed or under way is left alone.
AutoStart(q) ==
    LET this == request[q]
    IN /\ this.pc = "start"
       /\ \/ MayStart(this) /\ Queue(this.asset, this.current # "uploaded")
          \/ /\ \/ ~MayStart(this)
                \/ asset[this.asset].status \notin Reprocessable
             /\ UNCHANGED <<asset, job, owed>>
       /\ request' = [request EXCEPT ![q] = IdleRequest]
       /\ UNCHANGED <<row, picture, vanished, run, disturbed>>

\* The request's process ends, or one of its calls fails.
Abandon(q) ==
    /\ request[q].pc # "idle"
    /\ request' = [request EXCEPT ![q] = IdleRequest]
    /\ UNCHANGED <<asset, row, picture, vanished, job, run, owed, disturbed>>

-------------------------------------------------------------------------------
(* Saving a Repit: assertRequiredIsolationReady, then the row                  *)

\* The asset must be completed when it is read ...
BeginSave(q, a) ==
    /\ request[q].pc = "idle"
    /\ asset[a].status = "completed"
    /\ request' = [request EXCEPT ![q] = [IdleRequest EXCEPT
          !.pc = "saveRow", !.asset = a, !.current = "completed"]]
    /\ UNCHANGED <<asset, row, picture, vanished, job, run, owed, disturbed>>

\* ... its row must be found, and the picture the client shows must be the one
\* the row names: shown is the storage key in the client's three URLs, which is
\* all that is compared of them (storageKeyFromUri takes the path, not the host) ...
MatchRow(q, shown) ==
    /\ request[q].pc = "saveRow"
    /\ row[request[q].asset] = shown
    /\ request' = [request EXCEPT ![q] = [@ EXCEPT !.pc = "saveExists", !.object = shown]]
    /\ UNCHANGED <<asset, row, picture, vanished, job, run, owed, disturbed>>

\* ... and be in storage.
CheckPicture(q) ==
    /\ request[q].pc = "saveExists"
    /\ request[q].object \in Stored
    /\ request' = [request EXCEPT ![q] = [@ EXCEPT !.pc = "saveRepit"]]
    /\ UNCHANGED <<asset, row, picture, vanished, job, run, owed, disturbed>>

SaveRepit(q) ==
    /\ request[q].pc = "saveRepit"
    /\ request' = [request EXCEPT ![q] = IdleRequest]
    /\ UNCHANGED <<asset, row, picture, vanished, job, run, owed, disturbed>>

-------------------------------------------------------------------------------
(* The handler                                                                 *)

Claim(r, a, k) ==
    /\ run[r].pc = "idle"
    /\ job[a][k] = "queued"
    /\ job' = [job EXCEPT ![a] = [@ EXCEPT ![k] = "active"]]
    /\ run' = [run EXCEPT ![r] = [IdleRun EXCEPT
          !.pc = "load", !.asset = a, !.key = k, !.holds = TRUE]]
    /\ UNCHANGED <<asset, row, picture, vanished, request, owed, disturbed>>

RunGoes(r, pc) ==
    run' = [run EXCEPT ![r] = [@ EXCEPT !.pc = pc, !.seen = None, !.object = None]]

\* A job whose asset is not queued is stale, or a duplicate: it fails for good.
Load(r) ==
    /\ run[r].pc = "load"
    /\ RunGoes(r, IF asset[run[r].asset].status = "queued" THEN "mark" ELSE "gaveUp")
    /\ UNCHANGED <<asset, row, picture, vanished, job, request, owed, disturbed>>

\* setStatus reads the asset: there already, allowed to go there, or refused.
ReadsFor(r, to, there, allowed, refused) ==
    LET now == asset[run[r].asset]
    IN IF now.status = to THEN RunGoes(r, there)
       ELSE IF to \in Transitions[now.status]
       THEN run' = [run EXCEPT ![r] = [@ EXCEPT !.pc = allowed, !.seen = now]]
       ELSE RunGoes(r, refused)

\* setStatus saves the asset it read.
SavesAs(r, to) ==
    asset' = [asset EXCEPT ![run[r].asset] = [run[r].seen EXCEPT !.status = to]]

MarkRead(r) ==
    /\ run[r].pc = "mark"
    /\ ReadsFor(r, "processing", "reuse", "marking", "threw")
    /\ UNCHANGED <<asset, row, picture, vanished, job, request, owed, disturbed>>

MarkSave(r) ==
    /\ run[r].pc = "marking"
    /\ SavesAs(r, "processing")
    /\ RunGoes(r, "reuse")
    /\ UNCHANGED <<row, picture, vanished, job, request, owed, disturbed>>

\* 1) The asset has a row: it is used if its picture is there, removed if not.
\* (A picture that has vanished never returns, so looking and acting on what was
\* seen are one step.)
ReuseOwn(r) ==
    LET a == run[r].asset
    IN /\ run[r].pc = "reuse"
       /\ IF row[a] \in Stored
          THEN RunGoes(r, "done") /\ UNCHANGED row
          ELSE RunGoes(r, "content") /\ row' = [row EXCEPT ![a] = None]
       /\ UNCHANGED <<asset, picture, vanished, job, request, owed, disturbed>>

\* 2) A row of any asset with the same checksum: its picture is shared through a
\* row of this asset (the unique index refuses a second one), or the row goes.
\* Mutant: the checksum is not part of the lookup.
MatchesAny(a) == {b \in Asset : row[b] # None}

Matches(a) == {b \in Asset : row[b] # None /\ asset[b].content = asset[a].content}

ReuseContent(r) ==
    LET a == run[r].asset
    IN /\ run[r].pc = "content"
       /\ \/ /\ Matches(a) = {}
             /\ RunGoes(r, "provider")
             /\ UNCHANGED row
          \/ \E b \in Matches(a) :
                IF row[b] \notin Stored
                THEN RunGoes(r, "provider") /\ row' = [row EXCEPT ![b] = None]
                ELSE IF row[a] = None
                THEN RunGoes(r, "done") /\ row' = [row EXCEPT ![a] = row[b]]
                ELSE RunGoes(r, "fail") /\ UNCHANGED row
       /\ UNCHANGED <<asset, picture, vanished, job, request, owed, disturbed>>

\* 3) The provider is paid; its picture is validated and stored under a new key.
Provide(r, o) ==
    LET a == run[r].asset
    IN /\ run[r].pc = "provider"
       /\ o \in Free
       /\ picture' = [picture EXCEPT ![o] = asset[a].content]
       /\ owed' = [owed EXCEPT ![a] = @ - 1]
       /\ run' = [run EXCEPT ![r] = [@ EXCEPT !.pc = "save", !.object = o]]
       /\ UNCHANGED <<asset, row, vanished, job, request, disturbed>>

\* Mutants: the output is not validated; a failed call is tried again at once.
ProviderFailureIgnored(r) ==
    /\ run[r].pc = "provider"
    /\ owed' = [owed EXCEPT ![run[r].asset] = @ - 1]
    /\ RunGoes(r, "done")
    /\ UNCHANGED <<asset, row, picture, vanished, job, request, disturbed>>

ProviderTriedAgain(r) ==
    /\ run[r].pc = "provider"
    /\ owed' = [owed EXCEPT ![run[r].asset] = @ - 1]
    /\ RunGoes(r, "provider")
    /\ UNCHANGED <<asset, row, picture, vanished, job, request, disturbed>>

\* The provider fails, or its picture is not a transparent PNG.
ProviderFails(r) ==
    /\ run[r].pc = "provider"
    /\ owed' = [owed EXCEPT ![run[r].asset] = @ - 1]
    /\ RunGoes(r, "fail")
    /\ UNCHANGED <<asset, row, picture, vanished, job, request, disturbed>>

SaveRow(r) ==
    LET a == run[r].asset
    IN /\ run[r].pc = "save"
       /\ IF row[a] = None
          THEN RunGoes(r, "done") /\ row' = [row EXCEPT ![a] = run[r].object]
          ELSE RunGoes(r, "fail") /\ UNCHANGED row
       /\ UNCHANGED <<asset, picture, vanished, job, request, owed, disturbed>>

\* The storage or the database refuses a call inside the try block.
StepFails(r) ==
    /\ run[r].pc \in {"reuse", "content", "save", "done", "completing"}
    /\ RunGoes(r, "fail")
    /\ UNCHANGED <<asset, row, picture, vanished, job, request, owed, disturbed>>

DoneRead(r) ==
    /\ run[r].pc = "done"
    /\ ReadsFor(r, "completed", "succeeded", "completing", "fail")
    /\ UNCHANGED <<asset, row, picture, vanished, job, request, owed, disturbed>>

DoneSave(r) ==
    /\ run[r].pc = "completing"
    /\ SavesAs(r, "completed")
    /\ RunGoes(r, "succeeded")
    /\ UNCHANGED <<row, picture, vanished, job, request, owed, disturbed>>

\* Mutant: the catch block reports the failure to the queue only.
FailUnrecorded(r) ==
    /\ run[r].pc = "fail"
    /\ RunGoes(r, "gaveUp")
    /\ UNCHANGED <<asset, row, picture, vanished, job, request, owed, disturbed>>

\* The catch block records the failure; a transition that is refused is swallowed.
FailRead(r) ==
    /\ run[r].pc = "fail"
    /\ ReadsFor(r, "failed", "gaveUp", "failing", "gaveUp")
    /\ UNCHANGED <<asset, row, picture, vanished, job, request, owed, disturbed>>

FailSave(r) ==
    /\ run[r].pc = "failing"
    /\ SavesAs(r, "failed")
    /\ RunGoes(r, "gaveUp")
    /\ UNCHANGED <<row, picture, vanished, job, request, owed, disturbed>>

\* The queue books the outcome, unless the job is no longer this run's.  A job
\* that failed with an ordinary error may be tried again.
Finish(r) ==
    LET a == run[r].asset
        k == run[r].key
        outcomes == CASE run[r].pc = "succeeded" -> {"completed"}
                      [] run[r].pc = "gaveUp" -> {"failed"}
                      [] OTHER -> {"queued", "failed"}
    IN /\ run[r].pc \in {"succeeded", "gaveUp", "threw"}
       /\ IF run[r].holds
          THEN \E s \in outcomes : job' = [job EXCEPT ![a] = [@ EXCEPT ![k] = s]]
          ELSE UNCHANGED job
       /\ run' = [run EXCEPT ![r] = IdleRun]
       /\ UNCHANGED <<asset, row, picture, vanished, request, owed, disturbed>>

-------------------------------------------------------------------------------
(* The surroundings                                                            *)

\* A picture disappears from storage.
Vanish(o) ==
    /\ o \in Stored
    /\ Within(1)
    /\ vanished' = vanished \cup {o}
    /\ UNCHANGED <<asset, row, picture, job, run, request, owed, disturbed>>

\* An administrator cancels a job that waits.
CancelJob(a, k) ==
    /\ job[a][k] = "queued"
    /\ job' = [job EXCEPT ![a] = [@ EXCEPT ![k] = "cancelled"]]
    /\ UNCHANGED <<asset, row, picture, vanished, run, request, owed, disturbed>>

Disturb(a) ==
    /\ a \notin disturbed /\ Within(3)
    /\ disturbed' = disturbed \cup {a}

\* The worker process dies; its job stays active until it is found stalled.
Crash(r) ==
    /\ run[r].pc # "idle" /\ run[r].holds
    /\ Disturb(run[r].asset)
    /\ run' = [run EXCEPT ![r] = IdleRun]
    /\ UNCHANGED <<asset, row, picture, vanished, job, request, owed>>

Reclaim(a, k) ==
    /\ job[a][k] = "active" /\ ~Held(a, k)
    /\ \E s \in {"queued", "failed"} : job' = [job EXCEPT ![a] = [@ EXCEPT ![k] = s]]
    /\ UNCHANGED <<asset, row, picture, vanished, run, request, owed, disturbed>>

\* The job's time is up: the queue gives it to another run, the handler goes on.
TimeOut(r) ==
    LET a == run[r].asset
    IN /\ run[r].pc \notin {"idle", "succeeded", "gaveUp", "threw"} /\ run[r].holds
       /\ Disturb(a)
       /\ run' = [run EXCEPT ![r] = [@ EXCEPT !.holds = FALSE]]
       /\ \E s \in {"queued", "failed"} :
             job' = [job EXCEPT ![a] = [@ EXCEPT ![run[r].key] = s]]
       /\ UNCHANGED <<asset, row, picture, vanished, request, owed>>

\* An administrator retries a job of the queue that has failed.
RetryJob(a, k) ==
    /\ job[a][k] = "failed"
    /\ Disturb(a)
    /\ job' = [job EXCEPT ![a] = [@ EXCEPT ![k] = "queued"]]
    /\ UNCHANGED <<asset, row, picture, vanished, run, request, owed>>

\* The database refuses the write of the failure (setStatus(...).catch), or the
\* progress report just after the asset became processing.
WriteLost(r) ==
    /\ run[r].pc \in {"reuse", "fail", "failing"}
    /\ Disturb(run[r].asset)
    /\ RunGoes(r, IF run[r].pc = "reuse" THEN "threw" ELSE "gaveUp")
    /\ UNCHANGED <<asset, row, picture, vanished, job, request, owed>>

-------------------------------------------------------------------------------
Init ==
    /\ asset = [a \in Asset |-> [status |-> "none", retries |-> 0, content |-> None]]
    /\ row = [a \in Asset |-> None]
    /\ picture = [o \in Object |-> None]
    /\ vanished = {}
    /\ job = [a \in Asset |-> [k \in Key |-> "none"]]
    /\ run = [r \in Run |-> IdleRun]
    /\ request = [q \in Request |-> IdleRequest]
    /\ owed = [a \in Asset |-> 0]
    /\ disturbed = {}

RequestStep(q) ==
    \/ \E a \in Asset, again \in BOOLEAN : Resolve(q, a, again)
    \/ FindRow(q) \/ AnswerReady(q) \/ Recover(q) \/ Reread(q) \/ AutoStart(q)
    \/ \E a \in Asset : BeginSave(q, a)
    \/ \E o \in Object : MatchRow(q, o)
    \/ CheckPicture(q) \/ SaveRepit(q) \/ Abandon(q)

RunStep(r) ==
    \/ \E a \in Asset, k \in Key : Claim(r, a, k)
    \/ Load(r) \/ MarkRead(r) \/ MarkSave(r) \/ ReuseOwn(r) \/ ReuseContent(r)
    \/ \E o \in Object : Provide(r, o)
    \/ ProviderFails(r) \/ SaveRow(r) \/ StepFails(r)
    \/ DoneRead(r) \/ DoneSave(r) \/ FailRead(r) \/ FailSave(r) \/ Finish(r)
    \/ Crash(r) \/ TimeOut(r) \/ WriteLost(r)

AssetStep(a) ==
    \/ \E c \in Content : Register(a, c)
    \/ Retry(a) \/ Regenerate(a)
    \/ \E k \in Key : CancelJob(a, k) \/ Reclaim(a, k) \/ RetryJob(a, k)

Next ==
    \/ \E q \in Request : RequestStep(q)
    \/ \E r \in Run : RunStep(r)
    \/ \E a \in Asset : AssetStep(a)
    \/ \E o \in Object : Vanish(o)

Spec == Init /\ [][Next]_vars

-------------------------------------------------------------------------------
(* Properties                                                                  *)

TypeOK ==
    /\ asset \in [Asset -> AssetRow]
    /\ row \in [Asset -> Object \cup {None}]
    /\ picture \in [Object -> Content \cup {None}]
    /\ vanished \subseteq Object
    /\ job \in [Asset -> [Key -> JobStatus]]
    /\ run \in [Run -> Execution]
    /\ request \in [Request -> Errand]
    /\ owed \in [Asset -> Int]
    /\ disturbed \subseteq Asset

\* An asset that is completed has a derivative row, however many runs worked on
\* it and however they were interrupted, as long as no picture of its content
\* has vanished from storage.
CompletedHasResult ==
    \A a \in Asset :
        asset[a].status = "completed" =>
            \/ row[a] # None
            \/ \E o \in vanished : picture[o] = asset[a].content

\* What a row points to, and what the key names that a Repit that passed its checks
\* shows, is the processed picture of that asset's own original, although rows are shared between
\* assets, deleted by other requests and copied while they are.
ShowsItsSubject ==
    /\ \A a \in Asset : row[a] # None => picture[row[a]] = asset[a].content
    /\ \A q \in Request :
          request[q].pc \in {"saveExists", "saveRepit"} =>
              picture[request[q].object] = asset[request[q].asset].content

\* A completed asset has a result, and it shows the asset's own subject.
ResultsAreTrue == CompletedHasResult /\ ShowsItsSubject

\* As long as no job of the asset is delivered again, at most one run is past
\* the guard of the handler: requests that race, stale reads of "uploaded" and
\* regenerations never put two runs to work on one asset.
OneRunAtWork ==
    \A r, s \in Run :
        /\ r # s /\ run[r].pc \in Working \cup {"mark", "marking"}
        /\ run[s].pc \in Working \cup {"mark", "marking"}
        /\ run[r].asset = run[s].asset
        => run[r].asset \in disturbed

\* The provider is paid at most once for each time an asset is queued; a
\* repeated delivery can cost one more call.
PaidWhenAsked ==
    \A a \in Asset : owed[a] >= 0 \/ (a \in disturbed /\ owed[a] >= -1)

\* An asset is processing only while a run works on it, unless a fault struck
\* that asset.
ProcessingIsAttended ==
    \A a \in Asset :
        asset[a].status = "processing" /\ a \notin disturbed =>
            \E r \in Run : run[r].asset = a /\ run[r].pc \in Working

\* Runs, payments and the status account for each other, although the guard, the
\* provider and the two saves of a run are calls of their own: one run at work,
\* one payment for each time the asset was queued, no asset processing unattended.
RunsAreAccountedFor == OneRunAtWork /\ PaidWhenAsked /\ ProcessingIsAttended

\* The status moves along the table (a regeneration may queue any asset at
\* rest, and a failed asset passes retry_required within a transaction) and
\* retryCount never falls, although the handler saves rows it read earlier.
LegalMoves ==
    [][\A a \in Asset :
          LET was == asset[a]
              is == asset'[a]
          IN was.status # "none" /\ a \notin disturbed' =>
                /\ \/ is.status = was.status
                   \/ is.status \in Transitions[was.status]
                   \/ was.status \notin {"queued", "processing"} /\ is.status = "queued"
                /\ is.retries >= was.retries]_vars
================================================================================
