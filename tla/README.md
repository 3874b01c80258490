# Verification of repitair-api

TLA+ modules that model the core of the NestJS service `repitair-api`, the TLC
configurations that check them on small instances, and theorems that TLAPS
proves for every instance. Paths below are relative to the service's `src/`
directory; `admin/...`, `auth/...` and so on are directories of `src/modules/`.

Contents: [the system](#1-the-system), [the modules](#2-the-modules),
[what is common to all of them](#3-what-is-common), one section per group of
components ([the job queue](#4-the-job-queue), [privacy](#5-privacy-requests), [the
back office](#6-the-back-office), [media](#7-media-processing),
[sign-ins and sessions](#8-sign-ins-and-sessions), [services of concurrent requests](#9-services-of-concurrent-requests),
[what goes in and out](#10-what-goes-in-and-out)), [proofs](#11-proofs), [what the code
does not keep](#12-what-the-code-does-not-keep), [what is not
modelled](#13-what-is-not-modelled), [the plan](#14-plan).

## 1. The system

The service is one code base that runs as API processes (`main.ts`) and as
worker processes (`worker.ts`), several of each, against one Postgres database
through TypeORM, one Redis, and an object storage. Nothing is shared between
processes but those three. Two habits of the code shape every component:

- **Rows are saved whole.** An operation reads an entity, awaits other calls,
  changes some fields and calls `save`. TypeORM compares the entity with the row
  as it is then and writes every column that differs: whatever somebody else
  changed in between is put back. Only some operations lock the row or run in a
  transaction, and reads without a lock see the last committed row.
- **Work outlives its caller.** Handlers race a timeout that does not stop them,
  processes die between two awaits, and a mail or a provider call cannot be
  rolled back.

| Component | State | Operations | Talks to | Hard behaviour | Correct when |
|---|---|---|---|---|---|
| Platform jobs (`platform-jobs/`, `worker.ts`) | `platform_jobs` rows; per process: tick, slots | enqueue, re-arm, claim, report, complete, fail, retry, cancel, correlate, reclaim stalled, shut down | handlers, admin screens | overlapping ticks, stale saves, timeouts that leave the handler running, crashes | retry budget exact, one tick per job, nothing completed without result, every job settles |
| Privacy deletion (`privacy/`, `admin/privacy/`) | `privacy_requests`, `privacy_jobs`, users' rows and files | intake, verify, approve, process, retry, cancel, fulfil, execute deletion | job queue, users, repits, uploads | executor restarted half way, duplicate runs, storage failures, the user acting meanwhile | fulfilled means done, by whatever path |
| Privacy export (`privacy/`) | package and link in `privacy_jobs` | assemble, mail, download, expire, purge | mail, job queue | late saves of the whole row, concurrent downloads, crash with the package stored | package erased in the end, handed out once |
| Support (`admin/support/`, `contact/`) | cases, replies (outbox), escalations | reply, retry, assign, escalate, complete, resolve, close, reopen, contact form | mail | mail outside transactions, idempotency keys, unlocked reads | one reply at a time, outcomes truthful, resolved cases quiet |
| Media (`media/`, `admin/media/`, `repits/`) | `media_assets`, `media_derivatives`, pictures | upload, resolve, auto-start, retry, regenerate, job handler, createRepit's check | job queue, provider, storage | duplicate jobs, shared derivatives, vanished pictures, unlocked saves | completed has a result, the right picture, paid once |
| Sessions and accounts (`auth/`, `users/`, `admin/users/`) | `users.sessionVersion`, `isSuspended`, `user_restrictions`; token list in memory and Redis | sign in, social sign in, refresh, log out, upgrade, reset, suspend, reactivate, delete | Redis, providers | stateless tokens, per-process lists, Redis outages, whole-row saves | a revoked session stays revoked |
| Social identities (`auth/social-identity.service.ts`, `users/`) | identities per provider subject; address, staged address, password of an account | sign in, resolve, link, unlink, change of address, delete | users, mail | two first sign-ins, an address claimed meanwhile, deletion under a link, whole-row saves | nobody gets another person's sign-ins; a way in remains |
| Tokens of Apple and Google (`auth/apple-identity.service.ts`) | Apple's keys kept for ten minutes, one request for them shared | verify, load keys | Apple, Google | rotation of keys, a shared request that fails | admitted tokens are sound, sound tokens are not refused |
| Reset and verification codes (`users/`) | hashed codes with attempts and expiry | set, verify | mail | concurrent attempts, `undefined` fields that `save` skips | a code works once |
| Music connections (`music/music-connections.service.ts`) | OAuth states, connections, the list in the user's row, legacy tokens | connect, callback, refresh, migrate, disconnect | Spotify, Apple | refresh against disconnect, single flight per process | a state is used once, tokens fit the status |
| Settings of the music flows (`auth/auth.service.ts`, `auth.controller.ts`) | environment | authorization addresses, callbacks, diagnostics | Spotify, Apple | the same setting is checked in several places | diagnostics and flow agree |
| Music look-ups (`music/music.service.ts`) | client token, its timer, look-ups under way, cache | look up, refresh, shut down | Spotify, Apple | shared promises, deadlines that do not stop the work | one fetch, nobody waits for nothing |
| Music imports (`music/music.service.ts`) | one request | prepare a link, catalogue, library, user's token, search, recent songs | providers | many fallbacks, retries, error codes the app acts upon | a failure is told for what it is |
| Playlists and shared collections (`music/music-library.service.ts`) | `music_collections`, import counts | page, share | providers | two kinds of pages, edits between pages, local files, repeated songs | nothing skipped, shared as chosen |
| Administrators (`admin/iam/`, `admin/auth/`, `admin/guards/`) | admin users, invitations, break-glass grants, sessions, MFA tickets | invite, accept, suspend, change roles, review, grant, sign in | Redis | counting super administrators without a lock, lock-out, tickets presented twice | one super administrator remains, tickets once |
| Moderation (`admin/repits/`, `repits/`) | reports, decisions, `repits.moderationStatus` | open, claim, assign, release, decide; the owner's edit and delete | repits, support | reviewers and retries over one report, idempotency keys, the owner's stale save | report and Repit agree, one final decision, hidden stays hidden |
| Templates (`admin/templates/`, `templates/`) | the row users see, a draft, a history | create, draft, certify, publish, archive, roll back | repits read it | draft against version, two creations, archiving under a draft | the catalogue is ready and certified, editors stay in the draft |
| Spotlight (`admin/spotlight/`, `spotlight/`) | campaigns, views | create, edit, publish, schedule, pause, archive, copy, show, count | | dates that pass, edits after publication | what is shown is complete and in its time |
| Campaign notifications (`admin/notifications/`, `notifications/`) | campaigns, device tokens | create, edit, copy, cancel, schedule, send; register and drop a device | push provider | unlocked read, dispatch, save; one device, two accounts | delivery has evidence, a device has one account |
| Composition of Repits (`common/composition/`, `repits/`, `scripts/`) | composition, template, version, layers in a Repit's row | normalise, create, update, show, backfill | templates | two sets of columns, a script that saves batches | what is shown can be saved back |
| Uploads and pictures (`uploads/`, `media/`) | bytes | sniff, inspect, validate, bounds of the subject | storage, provider | several readings of the same bytes, a decoder of its own | judged by the bytes, at every stage |
| The rest | flags, audit log, dashboards, migrations, middleware | | | | see section 13 |

How they interact: privacy and media requests enqueue jobs in the transaction
that changes their own row; the worker calls the handler of the job's type; the
handler changes the domain's rows with calls of its own. Account deletion reaches
users, repits, files and sessions. `createRepit` depends on media.

## 2. The modules

| Module | Models | Runs | Proofs |
|---|---|---|---|
| `PlatformJobs` | the queue, ticks, callers | `JobsAllCallers`, `JobsExclusive`, `JobsLiveness` | `PlatformJobsProofs` |
| `JobLease` | what the queue promises, abstractly | through `PlatformJobsLease` | `JobLeaseProofs` |
| `PlatformJobsLease` | the refinement mapping | `JobsExclusive` (`ImplementsLease`) | `PlatformJobsProofs` |
| `PrivacyWorkflow` | the request table and its transactions | through `PrivacyFulfilment` | |
| `PrivacyFulfilment` (extends the former) | endpoints, jobs, handlers, executors, users, storage | `PrivacyBooks`, `PrivacyStuck` | `PrivacyFulfilmentProofs` |
| `PrivacyExport` | the package of an export | `Exchange` | `ExchangeProofs` |
| `SupportCases` | cases, replies, escalations | `BackOffice` | `BackOfficeProofs` |
| `TemplatePublishing` | a template, its draft and history | `BackOffice` | `BackOfficeProofs` |
| `RepitModeration` | reports, decisions, owners | `BackOffice` | `BackOfficeProofs` |
| `MediaProcessing` | assets, derivatives, handler, requests | `MediaPipeline` | `MediaProcessingProofs` |
| `AccountSessions` | sessions, token list, account rows | `AccountSessions`, `AccountRevocation` | `SignInProofs` |
| `AdminAccess` | administrators, invitations, tickets, sessions, grants | `Services` | `ServicesProofs` |
| `Spotlights`, `Campaigns` | what administrators show and send | `Services` | `ServicesProofs` |
| `SocialTokens` | tokens of Apple and Google | `AccountSessions` | `SignInProofs` |
| `AccountIdentities` | ways into an account | `Services`, `IdentityWildcards` | `ServicesProofs` |
| `MusicConnections`, `MusicLookups` | music accounts; look-ups of a process | `Services` | `ServicesProofs` |
| `MusicImports`, `MusicCollections` | a link becomes songs; a playlist is shown and shared | `Exchange` | `ExchangeProofs` |
| `ProviderConfig` | settings, flows and diagnostics | `Exchange` | `ExchangeProofs` |
| `RepitCompositions`, `PictureBytes` | compositions; the bytes of pictures | `Exchange` | `ExchangeProofs` |
| `Subsequences` | what a filter leaves of a list | used by `MusicCollections`, `RepitCompositions` | `ExchangeProofs` |

Each `MC...` module extends what a run needs: small functions for constants of
function type and the symmetry set. `MCBackOffice`, `MCSignIns`,
`MCServices` and `MCExchange` extend several modules that share no state: `desk` or `service` says which of them a
behaviour is about and the others stay as they were, so the run visits the sum of
their state spaces and not the product. Their properties are those of the modules.
`MCPrivacyBooks` does the same with two instances of one module. Symmetry is used in
runs without liveness properties only, over sets whose members no definition tells
apart.
Definitions marked *Mutant* in a module belong to no action: each is a plausible
bug of the definition it stands above, and the property named with it in
`PROJECT.json` fails when it takes that definition's place.

Run `tlc -config X.cfg MCM.tla` for a run and `tlapm M.tla` for a proof module.

## 3. What is common

- **A step** is what happens between two awaits, or a transaction that holds the
  lock of the row it works on. A read that is used later is a step, and the value
  read is kept in the request, run or executor (`snap`, `held`, `seen`).
- **`save`** is one step that leaves the row equal to the snapshot. TypeORM's
  own load-compare-update inside `save` is not split: it lasts one round trip and
  its outcome is the same unless two saves overlap in exactly that window.
- **Time** is relative: the age of a heartbeat, the wait before a retry, or a
  single event ("the package is over a day old").
- **Bounds** are constants: `MaxFaults`, `MaxLost`, `Budget`, `MaxRegen`,
  `MaxRequests`, `MaxOutages`, `MaxVersion`, `Input`, `Touched`, `MaxAsked`, `MaxLink`,
  `MaxCampaignCalls`, `SpotClock`, `MaxBegun`, `MaxRow`, `MaxEdits`, `MaxLength` and the sizes of the sets. A bound stands in the
  guard of the action it limits. No theorem depends on the value of one.
- `CHECK_DEADLOCK FALSE` is set where the model really ends: all exports done,
  the media budget spent, all requests of the session model made, an import told, a
  picture judged.

## 4. The job queue

`row[j]` is the row of `platform_jobs` with idempotency key `j`. A `run` is one
invocation of `tick()` in a slot of a worker; its `pc` follows the awaits of
`tick`, `reclaimStalled`, `claimNext` and `execute`; `snap` is the entity it
holds. A handler that lost the race against `withTimeout` goes on as a late
handler and may still report progress. Callers are requests of other processes:
re-arm (enqueue of a finished key), admin retry, cancel, attach a correlation.

| TLA+ | Code |
|---|---|
| `StartTick`, `Scan`, `Reclaim`, `ReclaimEnds` | `tick`, `reclaimStalled` |
| `Claim`, `ClaimNothing` | `claimNext` (row lock, SKIP LOCKED: one step) |
| `Execute` ... `Resolve`, `Reject`, `TimerFires`, `LateHandlerEnds` | `execute`, `withTimeout` |
| `ReportRead`, `ReportSave` | `heartbeat`: find, then save |
| `Complete`, `MarkCompleted`, `Fail` and the row operators | `complete`, `fail`, backoff |
| callers' read and save | `enqueue`, `retry`, `cancel`, `attachMediaCorrelation` |

Two enqueues of one key are serialised: every enqueuer holds the lock of its
domain row. Priority and age are one `Rank`.

- **`JobsAllCallers`**: one job of two attempts, two workers, one caller, one
  fault, database errors, slow database (`PromptDb = FALSE`: time passes between
  the read and the save). Checks `BudgetOK` and `NoPhantomCompletion`: these hold
  whatever stale entity is saved over a row.
- **`JobsExclusive`**: two workers with two slots, two jobs, one without handler,
  a crash; nobody else writes rows and the database answers within the tick
  (`PromptDb`). Two overlapping ticks of two processes are what the grace period of
  the reclaim has to keep apart. Checks `Exclusive` and the refinement
  `ImplementsLease`. Both are false with the other callers (section 12), so the
  condition is part of what is shown.
- **`JobsLiveness`**: `JobsSettle` under `FairSpec`, with one worker and two
  faults. Fairness: weak fairness of each step of a running tick (the event loop
  runs a promise that has settled), of timers (`setInterval`, `setTimeout`) and of
  the clock. Crashes, callers and database errors have none.

**The abstract queue.** `JobLease` knows jobs that are waiting, leased, done or
dropped, holders with at most one job each, and a count of leases: `Grant` gives a
waiting job to a holder that has none and counts it, a holder settles what it holds,
a lost lease is taken back only when nobody holds it. `PlatformJobsLease` maps the
columns of a row to the phase (`PhaseOf`), `attempts` to the count, and the job of a
live tick between its claim and its last save to what the holder holds.
`ImplementsLease` then says that every step of reclaim, claim, timeout, late handler,
completion, failure, crash and restart is a step of the abstract queue or none. What
follows from the abstract queue (one holder at a time, a lease is never uncounted,
done is done) is proved for every set of jobs and holders in `JobLeaseProofs`.

## 5. Privacy requests

`PrivacyWorkflow` has the table of transitions and the transactions of
`privacy-workflow.service.ts`, each of which locks the request and is one step.
`PrivacyFulfilment` adds the endpoints, the job of each request, handler
invocations (`exec`, with one step per database or storage call, each of which
may fail), files with the two forms of stored URL, and users who add and remove
repits or delete their account. The queue is `PlatformJobs` reduced to what this
domain sees: one job per request, claimed by one attached tick at a time; an
invocation whose timer fired is no longer attached and goes on. Whether an
attempt is left is a free choice.

- **`PrivacyBooks`** has two instances (`scope`). *Books*: a deletion and an export
  request, two invocations, no files. *Cleanup*: one request, two files, storage that
  fails and returns, a user who acts. Two invocations are enough for an orphan and its
  successor, two files for a partial failure. `FulfilmentIsReal`: nobody is told of a
  fulfilment without verified evidence, of a deletion that has not happened, or of a
  job that completed without either. `CleanupComplete`: no executor goes on past a
  file it failed to delete. `ManualTypes` leaves deletions out: an administrator may
  record one by hand, and then evidence is a matter of trust.
- **`PrivacyStuck`**: "Recovery is operator-driven via the privacy Retry action,
  which re-transitions the request and re-enqueues the job — never silent, never
  divergent" is refuted: when the handler throws outside the executor the request
  stays `processing`, and Retry returns early because it already is.

`PrivacyExport` follows one package per run of `runExport`: the row, the entity
the run holds and saves several times, the mailed link, readers between their
check and their save, expiry and the hourly purge. **`Exchange`** has two
exports, one of which (`Prompt`) may be opened before its run is over, and two
readers. `SettledSingleUse` is for packages opened after their run; for the
others the last save of `runExport` puts token and package back (section 12).
`PackageExpires`, that the purge looks at every row with a package, is proved only.
`PackageErased` is a liveness property; `FairSpec` has weak fairness of the
purge (a `setInterval` in every API process) and of the passing of a day.

## 6. The back office

### Support cases

`status`, `response` (the reply of an idempotency key), `escalation` are the
tables; `sender` is a `respond()` request at one of its five stations: look up,
claim, mail, record, book. Only claim and booking lock the case. `work` is an
escalation being completed, which locks the escalation only. `forwarding` are
cases whose contact form still sends its mail and will save the row again.
`mail` counts what the customer was sent, also mails whose answer was lost.

**`BackOffice`**, desk `support`: one case, two keys, two senders, one escalation.
Cases do not interact: every operation names one case, so one case is enough for
TLC, and the theorems cover any number of cases and escalations. Two senders and two keys give every kind of
duplicate (same key twice, fresh key, retry of a refused reply). The partial
unique index on queued replies is left out: `RepliesFollowTheCase` (one reply of a case
at a time, none once it is done) shows that the lock suffices. `OutcomeIsTrue`: what an agent is told of a reply is what became of it. `DoneIsLeftByReopen`:
a late booking or escalation does not reopen a case. That no mail leaves for a done case
(`NoMailFromResolved`) is proved only. The reply's assignee and classification are left out.

### Templates

`TemplatePublishing` is one template; templates do not interact. `live` is the row
users see, `draft` the editors' row with the version it is based on, `versions` the
filed copies. Operations lock the template and then its draft and are one step each;
creating is two (`CreateCheck`, `CreateSave`), since there is no row to lock.

| TLA+ | Code |
|---|---|
| `CreateCheck`, `CreateSave`, `CreateFails` | `createTemplate` |
| `Update`, `WrittenLevel` | `updateTemplate`, `sanitizeCertificationForWritePath` |
| `Certify`, `RollbackTo`, `Archive` | `certifyTemplate`, `rollbackTemplate`, `archiveTemplate` |
| `Publish`, `Ready` | `publishTemplate`, `getPublicationReadiness` |
| `Effective`, `DraftFor`, `stamp` | `materializeDraft`, the version written into the composition |

A content is a model value that does or does not have what publication requires.
`Input` are the forms that TLC lets editors fill in: three, which together have every
kind of content and of requested level; `MaxVersion = 3` leaves room for a creation, a
publication or archiving, and another. Two desks visit it: `templates` has all three
versions and one creation, `creations` has two that race and two versions.
`VersionsFit`: row, draft and history agree, and a number names one content.
`CertificationIsTrue`: what users find was certified by a certifier, whatever detour
the level took, and is complete and stamped with its version.

### Moderation

`RepitModeration` has Repits, reports and decisions. Assigning and deciding hold the
locks of the Repit and the report and are one step. Opening a report and deciding
begin with an unlocked look-up (`OpenLook`, `LookKeyUp`) and rely on a unique index
afterwards, which is a guard of `Open` and `Decide`. An owner's edit reads and later
saves the whole row (`EditRead`, `EditSave`); `overwritten` remembers where it set
back what a moderator had written, and the properties set those Repits aside.
`flagRepit`, `archiveRepit` and `deleteRepit` of `admin-repits.service.ts` are an
opening followed by a decision.

| TLA+ | Code |
|---|---|
| `OpenLook`, `Open`, `OpenFails` | `openReport` |
| `ClaimReport`, `AssignReport`, `ReleaseReport` | `assignReport` |
| `LookKeyUp`, `Decide`, `Recover`, `DecideFails` | `decide` |
| `EditRead`, `EditSave`, `EditRefused`, `OwnerDeletes` | `updateRepit`, `deleteRepit` |

Two Repits, two reports, two openers, two decisions and one key give a key used for two
Repits, a report opened twice, and a decision that races a claim or another
decision; owners touch one of the Repits (`Touched`). One reviewer suffices for
what is checked, because no property tells reviewers apart.

`QueueIsTrue`: Repit, report and reviewer say the same. `DecisionsStand`: one final
decision per report, and whoever is told of a decision finds it on file.
`HiddenUntilReportedAgain`: no late claim or decision over an old report shows a hidden
Repit again.

That the decision's lock can be taken is an assumption: `decide` asks for
`pessimistic_write` and for the relation `user` in one query. Postgres refuses
`FOR UPDATE` on the nullable side of an outer join, and the tests use a mock, so
only a run against a database can tell.

## 7. Media processing

`asset`, `row`, `picture`, `job` are the tables and the storage. A `run` is one
execution of the handler, a step per await (guard, mark as processing, reuse of
its own or of another asset's result, provider, store, save, complete or fail); a
`request` is `resolveTemplateImage` or `createRepit`'s check. Admin retry and
regenerate are transactions and so steps of their own, which is why one request
suffices. A derivative row is identified by its asset and object; objects never
return under the same key, so a check and the use of its result within one
transaction are one step. The job queue is reduced as in section 5; a fault
delivers a job of an asset once more (`disturbed`). `owed` counts provider calls.

**`MediaPipeline`**: two assets, two contents, two objects, two runs. One asset
exercises faults and regenerations within the budget, two exercise the sharing of
results. `Budget = 6` weighs uploads, retries and regenerations (two each), vanished
pictures (one) and faults (three): two assets and a retry or two vanished pictures, or
one asset with a fault and a vanished picture, or with a regeneration and a retry. That
is enough for the shortest way in which each mutant breaks its property.
`RunsAreAccountedFor` (one run at work on an
asset, paid when asked, processing attended) excepts the asset a fault struck, because
the code does not keep it there; `ResultsAreTrue` and `LegalMoves` do not need that.

## 8. Sign-ins and sessions

`account[u]` holds the columns of `users` that sessions depend on, `restricted`
the active rows of `user_restrictions`. `sess[s]` is a pair of tokens: the
`sessionVersion` they carry and, as history, what the sign-in they descend from
knew of the account's revocations. `local[p]` is a process's list of revoked
tokens and consumed nonces, `redis` the shared one. A request stands between two
awaits at `pc` with the row it has `seen`. Every operation that saves a row of
users is one of five kinds: it leaves the session columns alone (`SaveTouched`:
profile, avatar, codes, music), raises the version (`SaveRevoked`: reset, change of
password, of address, administrator), suspends, reactivates, or deletes. Each saves
what it read. Saves of a deleted row insert it again, as TypeORM does.

**`AccountSessions`**: one account (accounts do not interact), two processes, two
requests at a time, four in all or three and an outage of Redis, one nonce, restarts.
Four requests are a sign-in, two operations that race, and one that presents a token
afterwards; every mutant falls with three. `OwnerOps` leaves `revoke` to the
resets, which take the same steps.

- `UsableIsCurrent`: whatever was awaited while a revocation was saved, a session
  the guard accepts descends from a sign-in that knew of it. This is what signing
  the version that was read, not the current one, achieves. Excepted are accounts of
  which a save overwrote what it had not read, and `upgradeSession`, which
  reads the account again after the guard and signs the new version.
- `SpentTokensAreRefused`: a token given up by logout, refresh or upgrade is refused
  everywhere; after an outage of Redis, still by the process that answered.
- `NonceOnce`: copies of a social sign-in are accepted once, across processes.
- `SuspendedIffRestricted`: the flag and the restriction agree.
- **`AccountRevocation`**: "Invalidate every previously issued access/refresh token
  so a compromised session cannot survive a password reset" fails: `updateProfile`
  reads the row, the reset raises the version, the profile's save puts it back.

The same run (`MCSignIns`, `service = "tokens"`) visits
**`SocialTokens`**. `published` are Apple's keys, `kept` those of the process, `inflight` the
one request for them that sign-ins share. Keys are published, retired and grow old at any
time; a request is answered, fails or times out. Two sign-ins
and two keys are a rotation under a shared request. `SignInsAreJudged`: nobody comes in with
a flawed token or against the rules of the nonce, a sound token is refused for its key only
if the request made for it was answered without, and whoever waits, waits for a request
that is under way.

## 9. Services of concurrent requests

Six modules in which the hazard is the same: requests read a row or a promise, wait,
and save over each other. **`Services`** visits each of them (`service`), with two
requests at a time. Every request is cut at each await between a read and the write that
rests on it, and keeps what it has read (`saw`, `row`, ...).

**`AdminAccess`**. `adminRow` are the accounts, `invitation` the latest letter of each,
`challenge` the tickets of the second factor, `adminSession` the sessions opened with
them, `grants` the emergency grants.

| TLA+ | Code |
|---|---|
| `Arrive`, `Touch` | the guard and `validateAndTouch`, which saves the session |
| `Consider`, `Count`, `SaveRow`, `RevokeAll` | `setStatus`, `updateRoles`, the resets of the second factor, `completeAccessReview` |
| `Activate`, `Grant`, `GrantEnds` | `activateBreakGlass`, `revokeBreakGlass`, `resolveActor` |
| `Invite` ... `SaveLetter` | `invite`, `resendInvitation`, `acceptInvitationPassword`, `completeInvitationMfa` |
| `Login`, `WrongPassword`, `EnterCode`, `Consume`, `OpenSession` | `login`, `handleFailedLogin`, `verifyMfa`, `consume`, `createSession` |
| `Boot` | `ensureBootstrapAdmin` |

Two administrators are the least of whom one may be the last; three tickets let a session
be opened, revoked and opened again; three requests are the two that compete and the one
that comes after. `SuperAdminStays`: a super administrator remains while nobody is
put out uncounted (`unguarded`, section 12). `ChallengesAreSingle`: a ticket opens one
session, however often and however simultaneously it is presented.

**`Spotlights`** and **`Campaigns`**. Each operation on a spotlight locks its row and is one
step, and `clock` passes. Campaigns lock nothing: `campaignCall` reads, dispatches and
saves; `answers` remembers what the push provider said of each dispatch. A registration of
a device drops former owners and inserts its own row in two calls; `overlapped` are
devices of which two registrations did that at once. `CampaignsAreTrue`: what users are
shown is complete and in order; a campaign is delivered on evidence only; a device has one
account. Two rows of each are needed for copies; `SpotClock = 3` gives a campaign a time
before, in and after its window.

**`AccountIdentities`**. `account` are the rows of users with address, staged address and
password, `joined` the identities of each Google and Apple subject, `proven` the mailboxes
whose code was entered for an account. The steps of `resolveUser` are `FindKnown`,
`Match` (by a proven address only: `SafeToLink`), `CreateIsolated` with its reuse of a
row, `PersistLink` with the conflicts of the unique indexes, `Stamp`. Others are the change
and verification of addresses, passwords, linking, `Unlink`, deletion. Two accounts, two
addresses, a subject of each provider and three requests: a claim of a stranger's address,
the stranger's sign-in, and one that comes between. `HolderOf` is the unique index of the
column, `FindByEmail` the look-up, which compares with an unescaped `ILike`: `Likes[e]` are
the addresses that match `e` as a pattern, and the run has one address that matches the
other (as `joh_@x.com` matches `john@x.com`). `SubjectsAreTheirOwn` is the pre-hijack guard:
a subject is joined by a sign-in to the account made for it, or to one that has proven an
address that its email finds. That it is the very same address (`LinkedByItsAddress`), as
the policy in the code says, does not hold: `IdentityWildcards` checks it with the same two
addresses and finds ten steps to the contrary. It holds where every address matches itself
alone (`PlainAddressesLinkExactly`, section 11).

**`MusicConnections`**. `connection`, `oauth`, `legacy` and `platforms` are the tables of one
user, `refreshing` the map of refreshes of a process. `ConnectionsHold`: an authorization
state connects once; a rotating refresh token is spent once by a process; those that joined
a refresh are woken; a connection is connected if and only if it holds tokens. Two processes
and two requests let refreshes meet in one map or pass each other in two; `MaxRow = 2` is a
connection and one after a disconnect.

**`MusicLookups`**. `token`, `pending`, `timer` and `refresher` are the client token and who
fetches it, `loader` and `entry` the look-ups under way, `visitor` the requests, whose
deadline passes while the look-up goes on. `LookupsHold`: one fetch of a token, one loader
per key, and nobody waits for work that nobody does.

**`OnlyTheLateUndo`** is the action property of all four modules with stale saves. What was
decided or deleted is undone by a request only that had read before: an administrator who
was put out, a revoked session, the last way into an account, its deletion, an address
shown to be its owner's, a disconnected provider. And the background refresh of the client
token, once started, always has a timer or a refresh under way. It separates the stale
saves that the code has (section 12) from anything a fresh request could do.

## 10. What goes in and out

**`Exchange`** visits the export of section 5 and five modules about one thing at a time.

**`MusicImports`**: one link from its text to what is told. `link` is a link of any kind,
short or not, with or without storefront, name and query; `world` says what the provider
knows of it and to whom it shows it; `connection1` is the user's connection. The steps are
`PrepareLink`, twice as in the code, then the application's token, the user's library, the
user's token, each with `Retried` and the renewal of a token after a refusal. Failures of
the provider are a free choice at every request. `ImportsAreTold`: when no failure gets
through the retries, a list is imported if and only if the provider would show it to the
application or the user; nobody is sent to connect who is connected, or to reconnect who
gave all scopes; and a link means the same to the controller and to what it calls.

**`MusicCollections`**: `playlist` at the provider, which its owner may edit once; the
request reads it in pages of `BatchSize = 2` up to `ReadCap = 2` and shows pages of
`PageLimit = 1`, so that the borders of both kinds of pages fall between the songs of a
list of up to three, and the cap cuts the longest. One of two songs is a file of the listener's own, which has no id and is
left out, and songs repeat. `PlaylistsAreWhole`: of a list left alone, page after page shows
every song as often as it occurs; what is shared are the songs that were chosen, in order,
whatever became of the list meanwhile.

**`ProviderConfig`**: every combination of the shapes of each setting, and one flow through
it. `SettingsAreTold`: the diagnostics and the flow, which check the same settings in
different code, agree, apart from what development tolerates.

**`RepitCompositions`**: a Repit's row, an edit that reads and saves later, the script that
reads a batch and saves its rows later, the publication of templates, and a database
whose columns may not be there yet. Sanitising is `sanitizeComposition`; `Minimal` is what
the script makes up. `RepitsSaveBack`: what a read shows passes the checks of a write and
is what it was; and the script replaces no composition of the owner's, unless it read the
row before (`overwritten`).

**`PictureBytes`**: one file through the upload's reading of it, the registration's, and, if
it is an original, what the provider sends back and the decoder of PNG that looks for the
bounds of its subject. Bytes are counted modulo `ByteSize`; TLC takes every picture of up
to two by two pixels of four values, under every filter per row, so that each of the
predictor's wrap-arounds and ties occurs. Sides have two bytes, of `SizeByte` values each;
`SideRead` is what the code reads of them: the side, or for a lossy WebP (a VP8 frame) the
side with its bytes swapped and 14 bits kept. The run has `SizeByte = 8` and sides, a
largest side and a largest area that tell "long", "large" and "small" apart, swapped and
not. `PicturesAreJudged`: the type served is that of the bytes; an upload that was taken is
refused later for its size, a false declaration or a type only, and none of too large a
size is registered, where the size is read and it is no lossy WebP; the bounds are the
smallest around what is visible in the picture the standard's predictor encodes, checked
against `StandardPredictor`; and nothing breaks a request but a header cut short.
That a picture is refused if it is too large and only then, of every picture whose size is
read (`JudgedBySize`), is what the comments say and what a lossy WebP refutes.

## 11. Proofs

Every invariant and action property of a passing run is stated by a theorem of the
run's specification, for every value of the constants. Assumptions are the named
`ASSUME`s on the constants (types, and that null values are no member of what they
stand beside), and TLC evaluates them in every run. Six theorems assume more.
`PlainAddressesLinkExactly` assumes that no address matches another as a pattern; the others
assume what their run does: `DeletionCorrect` and `FulfilmentCorrect` that deletions are not recorded by hand,
`LeasesExclude` and `QueueIsLease` that workers are alone at the table (`WorkersAlone`),
`QueueIsAlwaysTrue` that `Null` is no reviewer. A strengthening was checked by TLC as an
invariant of its run before it was proved.

- **`PlatformJobsProofs`**: `TypeCorrect`, `BudgetCorrect`, `CompletionCorrect`.
  `BudgetOK` is not inductive: a stale snapshot may be saved at any time. The
  strengthening `SnapshotsGood` says that every snapshot anybody holds is a row
  that would be good, and that one that says completed has a resolved handler.
  `LeasesExclude` needs `LeaseFits`: when only workers write, what a tick holds is the
  row itself (`HeldFits`), its heartbeat is no older than its handler, which the timeout
  ends before the row counts as stalled, and a job that was listed as stalled is free or
  has been failed (`TodoFits`). From it `QueueIsLease` follows, step by step: each step of
  a tick is one of `JobLease` under the mapping of `PlatformJobsLease`, or none.
  Without `WorkersAlone` neither holds (section 12).
- **`JobLeaseProofs`**: `LeasesAreExclusive` (one holder of a job, and what is held is
  leased or just done) and `LeasesCountAlways` (the count never falls, done stays done)
  for the abstract queue, from one invariant.
- **`PrivacyFulfilmentProofs`**: `VerifiedCorrect` (fulfilled rows carry evidence:
  one lemma per transaction), `OneTickCorrect` (no two ticks
  hold one request's job: an attached tick means its job is running; proved only), `DeletionCorrect` (an executor past the user row means that the user is
  gone), `CleanupCorrect` (files are never stored again, and an executor's list is
  empty of stored files past cleanup), `BooksCorrect`. `FulfilmentCorrect` puts them
  together as the property that `PrivacyBooks` checks.
- **`BackOfficeProofs`**: the three desks. `DesksAreApart` shows that a behaviour of the
  run is one of each desk, so their theorems hold of it; `DeskTypes` is the first that
  uses it.
  - *Support*, every property of the module from one invariant, `IInv`: keys keep
    their case (`Named`), a sender that claimed a reply is the one the row waits for
    (`Held`), what was accepted is what the rows say (`Counted`), escalations under
    completion (`Working`), at most one queued reply (`Single`), done cases (`Quiet`).
  - *Templates*, every property of the module. `DraftIsCurrent`
    goes with the types, since a draft's own types need a version above 0 (`Shape`).
    `HistoryIsTrue` has two parts, proved one after the other; the second,
    `NumberNamesOne`, needs `NumbersGrow`: nothing is filed before the first creation,
    and no filed number is above the row's. The bound `MaxVersion` is not used.
    That editors stay in their draft (`EditorsStayInTheirDraft`) is proved only.
  - *Moderation*, every property of the module. The first part of
    `QueueIsTrue`, `RepitFollowsReport`, is inductive together with `OneActive`, what
    the unique index keeps; one lemma says
    when a report and its Repit may be rewritten together, and taking, releasing and
    deciding are instances of it. `HiddenUntilReportedAgain` follows, since a hidden
    Repit has no active report.
- **`MediaProcessingProofs`**: `CompletedAssetsHaveResults` and
  `PicturesShowTheirSubject`, together `ResultsAreAlwaysTrue`, from `IInv`: unused objects are empty (`Fresh`), an
  asset's content is fixed (`Hashed`), rows point to pictures of their asset's
  content (`Rows`), each station of a run or request knows of what it carries
  (`RunsOK`, `RequestsOK`), and completed assets have results (`Finished`). A
  frame lemma says what no step takes away (a picture, a content, a result), and
  one lemma per kind of update carries the rest.
  `RunsAreAlwaysAccountedFor` and `MovesAreAlwaysLegal` need `AllFit`, asset by asset:
  each job is that of its asset's current attempt or settled (`JobsFit`); outside what a
  crash, a cancel or a second job disturbed, a queued or processing asset has exactly the
  job or run it waits for (`Calm`); and what may still be paid is covered (`Covered`):
  the keys whose job or run may yet ask the provider (`Payers`), and a run that lost its
  job, number no more than the calls owed.
- **`SignInProofs`**: `SessionsAreCurrent`, `SpentTokensStayRefused`, `NoncesAreSingle`,
  `RestrictionsAgree` from `SessionInv`: outside `clobbered`, the column counts the
  revocations, each session carries the version its sign-in read, and a request on its way
  knows as much (`VersionInv`); a spent key is in the process's list before it is told, and
  in Redis before the answer unless Redis failed (`KeyInv`); a claimed nonce is in Redis and
  has one claimant (`NonceInv`). `SignInsAlwaysJudged` from `SocialInv`: a token that was
  admitted has no flaw, and one refused for its key was compared with an answer.
- **`ServicesProofs`**: the six services, one invariant each, put together in
  `ServicesInv`. `AdminInv`: a ticket opens one session and is consumed before it does
  (`TicketInv`); while a request that counted waits to save, another super administrator
  is able, unless one went without a count or two counts overlapped (`CountInv`). `CampaignInv`: a campaign's status
  and figures, and those a request is about to save, are what the provider answered
  (`EvidenceInv`); a device that is being registered belongs to nobody (`DeviceInv`).
  `IdentityInv`: every way into an account was proven by who owns it, also the one a
  request is about to add; the owner's proven addresses are among those the subject's email
  finds (`FoundUnder`). `PlainAddressesLinkExactly` draws from it, under the assumption that
  an address matches itself alone, that the addresses are equal. `MusicInv`: an authorization is used once, the map of refreshes
  and the requests that lead or await one agree (`MapInv`), and of a provider that was left
  only a request that was under way has anything in hand (`LeftInv`), the row that a
  migration saved included. `LookupInv`: the
  pending fetch is the one under way, and the map and the loaders agree.
  `OnlyLateRequestsUndo` is the action property of the run: only a request that was
  under way undoes what was decided.
- **`ExchangeProofs`**: the exports and five more subjects. Of exports, `ExpiryCorrect`
  needs that the entity a run holds has
  an expiry with its package; `UseCorrect` that a package of a run that is over,
  once served, is not in the row again. The others are put together in `ExchangeInv`.
  - *Imports* (`ImportInv`): each station of an import that met no failure knows what the
    provider, the link and the user's connection allow, and preparing a link again yields
    the same link.
  - *Settings* (`ConfigInv`): what the diagnostics call ready refuses nobody for its
    settings, at each station of a flow.
  - *Playlists* (`CollectionInv`): a reading that nobody edited under holds exactly the
    songs before its offset, in order (`ReadInOrder`, `ReadInFull`), and pages with a next
    are full (`ShownByPages`), so a playlist is shown and shared whole. The lemmas about
    `Nth` and `Picked` (`NthIs`, `PickedIs`) say what a filter leaves of a list.
  - *Compositions* (`CompositionInv`): a stored composition has layers, so that the
    normalisation leaves it alone (`LayersStay`), and what is shown is saved back.
  - *Pictures* (`PictureInv`): `PaethIsNearest` says the predictor is the standard's,
    `DecodedIsEncoded` that every picture of every size is decoded to the pixels that were
    encoded, and `BoundsAreTight` that the bounds are the smallest around what is visible;
    `TooLargeIs` that sides are judged as they are but for a lossy WebP's.

Induction over data is not available, and is not needed where a least counterexample
will do: `NthAt` and `DecodedIsEncoded` take the least place, or the first cell in reading
order, at which the claim fails and derive that it does not.

Only model-checked: the two liveness properties, `JobsSettle` and `PackageErased`. They
rest on weak fairness, and the prover does not do ENABLED. Properties that a run expects to
be violated have no theorem, of course.

## 12. What the code does not keep

Shown by a run: `PrivacyStuck`, `AccountRevocation`, `IdentityWildcards`.
Others were met while modelling. They are conditions of the properties above, or
steps the model has, and are listed for whoever changes the code. Where a module names the
broken statement as an operator that no run checks, it is given in brackets: TLC refutes it.

- **Jobs.** `attachMediaCorrelation` saves a row it read while queued: over a claim
  it lets a second worker claim the job. A cancel or a late progress report does
  the same to other columns. When marking a completed job throws, the job is
  failed and run again. Two ticks of one process overlap ("one job at a time" holds
  per tick only). A non-retryable error fails a job; its comment says dead-letter.
- **Privacy.** `markFailed` writes `failed` from any status although "Anything not
  listed is rejected". A request cancelled after the handler looked is carried out.
  Files of repits created while the deletion runs stay. A user's own deletion is
  recorded before the row is deleted. Cleanup "Distinguishes a real deletion failure from a
  skip", but the key taken from a URL of the form that uploads issue is refused by
  `deleteFile`: a user with an uploaded photo cannot be deleted, although the storage works
  (`CleanupFailureIsReal`).
- **Export.** A link opened before `runExport` saved its row for the last time works
  again: the save restores package and token, though "Export link has already
  been used" is what a second reader should get.
- **Support.** The contact form's second save sets the case to `new`, whatever agents
  did meanwhile. A lost answer of the mailer makes the reply `failed`, and the retry
  the message offers mails twice. A sender that dies leaves its reply queued, which
  blocks the case. Booking a reply moves `escalated` to `waiting_for_customer`, not in
  the table. Two completions at once may leave the case escalated with no
  escalation.
- **Media.** A job that is cancelled while it waits leaves its asset queued, and every
  request refuses a queued asset, against "there is never a queued asset without a
  job". A crash leaves an asset processing for good. A timeout and an administrator's
  retry can put two jobs on one asset. The check that guards a Repit compares the storage
  key in the client's URLs, which `storageKeyFromUri` takes from the path of any URL, and
  the row keeps the URL as the client sent it: `ResultsAreTrue` speaks of the key, which
  is what `MediaProcessing` knows of a URL, and not of the host that serves it.
- **Sessions.** Two refreshes of one token that both asked before either was stored
  are both answered. `upgradeSession` may turn a session a revocation was meant to end
  into a good one, if the revocation is saved between the guard and its own read.
  A stale save inserts a deleted account again.
- **Templates.** A certification stays with the template and not with what was
  reviewed: later edits of the draft keep it, and `certifyTemplate` names no revision of
  the draft, so what is published may differ from what the certifier saw. The comment
  that levels which gate publication are "reachable ONLY via the certify endpoint" is
  true of `approved` and `certified`; readiness also accepts `published`, which an editor
  may set. Two requests that create a template at once both succeed, and the second
  starts the first one's version again at 1, even after it was published.
- **Moderation.** An owner's edit that was under way when a reviewer archived or
  removed the Repit makes it visible again, and inserts it again if it was deleted.
  Opening a report about a Repit that was archived or removed makes it visible, too,
  until it is decided.
- **Administrators.** Two operations that each count the remaining super administrators
  can both leave themselves out, and none remains. An access review may put out the last
  one, or the reviewer's own account, without counting. Saves of rows read earlier undo a
  suspension; `validateAndTouch` saves the session it read and so revives one that was
  revoked meanwhile. An invitation is completed for an invitee who was suspended.
  Emergency access outlives the demotion of the administrator, and two activations may
  overlap.
- **Campaigns.** A campaign is sent from any status, also twice at once. A scheduled one is
  sent by nobody: nothing looks for it. An edit may set "sent" without evidence. The save of a row that was deleted inserts it again. Two registrations of a
  device at once leave it with two accounts.
- **Identities.** `findByEmail` takes the `_` and `%` of an address for wildcards and
  returns any row that matches; no caller compares the addresses. Linking a subject to the
  account of another address is shown by `IdentityWildcards`; staging a changed address is
  modelled with the same look-up, and an address may be refused to its owner for it. Sign-up,
  login and the codes for a forgotten password look accounts up in the same way: what they
  find is modelled as a free choice or, for the codes, not at all. "A user never removes the last remaining sign-in method" fails for two
  unlinks at once, each of which counts the other's identity (`AMethodRemains`). The stamp
  of a sign-in inserts an identity again that was unlinked meanwhile. Codes that are set to
  `undefined` stay valid, since `save` skips them.
- **Tokens.** "A compatibility window must be explicit and future-dated", but in production
  a cutoff in the future opens none: `nonceRequired` goes on to ask for production and
  requires the nonce (`WindowAdmitsOldClients`). The timer of the request for Apple's keys is cleared before
  its body is read: a body that stalls keeps every sign-in that waits for it waiting.
- **Music.** A refresh or callback under way brings a connection back after the user
  disconnected it (`DisconnectHolds`). "Not connected" is also told to users who are
  connected, when the token cannot be had (`ConnectMeansNotConnected`). An Apple link whose
  `i` is empty is one thing to the controller and another to what it calls.
- **Pictures.** The sides of a lossy WebP are read in the wrong order of bytes
  (`JudgedBySize`): one of 1000x1778 is read as 10243x12806 and refused as too large, and a
  side of 16128 is read as 63 and passes. The model takes the two bits of scale that such a
  side may carry as zero. The size of the other WebP files and of HEIF is not read at all.
  The bounds are said never to throw: a PNG with a header chunk of less than eight bytes
  makes them, after the picture was paid for and stored (`BoundsNeverThrow`). A
  PNG of 12 to 23 bytes makes the registration fail with a server error. The upload and the
  registration know different brands of HEIF.
- **Compositions.** An edit that changes the template or version alone leaves the former
  composition beside it, and the script may fill in a composition for another version than
  the Repit's.

## 13. What is not modelled

`PROJECT.json` lists every component with its reason. In short:

- **Codes of resets and verifications** (attempts, expiry) and how one-time codes are
  checked: what they permit is modelled, when they are accepted is a free choice.
- **Flags and settings of the platform**: one row each, read and saved; nothing else
  depends on the order.
- **Audit log, dashboards, analytics, search, listings**: append-only, or read-only.
- **Request plumbing**: middleware, rate limits, error mapping, mail transport, health.
- **Migrations, reports, load tests**: run once by an operator, except the backfill of
  compositions.
- Of modelled components: presence rows of workers; SLA clocks, priority, classification
  and notes of cases; policies and notes of moderation; canvas, frames, bindings and effects
  of compositions; signed URLs and the two storage back-ends; artwork and wording of
  answers; pushes to single users.

## 14. Plan

Done, in order: the job queue, privacy deletion and export, support, media, sessions,
templates and moderation with their proofs; then administrators, spotlights and campaigns,
identities and tokens, music, settings, compositions and pictures; the abstract queue; the
proofs of all of these, and that the queue implements the abstract one. Next:

1. An abstract specification of a privacy request (asked, verified, done) that
   `PrivacyFulfilment` implements, with the proof from `BooksInv`.
2. Theorems of the modules' own specifications behind `ServicesInv` and `ExchangeInv`, as
   `BackOfficeProofs` has them, where they say more than the run's property.
3. `AccountRecovery`: codes with attempts and expiry, whose properties are that a code
   works once and that attempts are counted although two are under way.
4. `WorkerPresence`, rate limits, and the layout functions of `common/composition` against
   a reference definition.
