# Verification of AgencyOS

This directory holds TLA+ specifications of the parts of AgencyOS (a social
media handler: NestJS API, BullMQ worker, PostgreSQL, Redis, provider adapters)
whose correctness depends on the order in which independent processes act. It
contains the models, TLC configurations that check them on small instances, and
proofs for TLAPS that hold for every value of the constants.

    tlc -workers 2 -config publishing_safety.cfg MCPublishing
    tlapm PublishingProofs.tla

`PROJECT.json` lists the components, runs, the source lines behind each
definition, the hazards, findings and theorems.

## 1. The system

| Component | State | Operations | Talks to |
|---|---|---|---|
| Publication state machines (`packages/database`: `state-machine.ts`, `ExecutionMetadataRepository`) | `PostPlatformVariant.status`, `dispatchVersion`, `executionMetadata` (phase, operation id, nextCheckAt) | `transitionVariantState`, `startOperation`, `transitionOperation` | used by API, dispatcher and processor |
| Publishing API (`publishing-application.service.ts`) | none of its own | publish, retry, delete, schedule, reschedule, unschedule, cancel, reconcile; draft and target editing | the row |
| Dispatcher (`publishing.dispatcher.ts`) | none; polls every 15 s | promote, dispatch queued/deleting/continuations, recover stale | the row, BullMQ |
| Processor (`publishing.processor.ts`) | locals of `process` | load, fence, claim, start, attempt, credentials, adapter call, result; delete | the row, attempts, account, provider |
| BullMQ | jobs by jobId, locks, stalled check, failed set | add, take, complete, fail, stall | processor |
| Provider adapters (`packages/providers`) | remote content | publish, checkStatus, finalizePublish, deletePost, with the hooks onRemotePrepared and beforeFinalMutation | processor hooks |
| Token service | connection tokens, Redis refresh lock | getExecutionCredentials, refresh, permanent failure | account row, provider |
| Media (`media.service.ts`, `media.recovery.service.ts`) | `MediaAsset` row, staging and final object | initiateUpload, completeUpload, recoverStaleProcessing | object storage |
| Billing (`billing.service.ts`, trial expiry) | Subscription, Invoice, WebhookEvent, Plan seats | founding claim, create, cancel, webhook, expire trials | Razorpay; gates publishing |
| OAuth connect | Redis state and discovery keys, accounts | start, callback, select | provider, accounts |
| Sessions, auth, e-mail verification | Redis sessions and index, users, tokens | login, rotate, revoke, signup, verify | Redis, database |
| Sync | SyncRun rows | sync job, reauthorisation | provider, account row |
| Rate limiting, encryption, storage, PDF, analytics reads, web app | little or none | | |

**How the parts interact.** The API only changes the row. The dispatcher finds
rows to work on and enqueues jobs whose id is built from `dispatchVersion`. A
worker claims the row, opens an operation in `executionMetadata`, opens an
attempt, gets credentials and calls the adapter, which calls back through hooks
that persist checkpoints; the result is then written with a compare-and-set on
`dispatchVersion`. Nothing holds a lock across a provider call.

**What is hard here.** A stalled BullMQ job is given to a second worker while
the first still runs; a process dies between any two statements; the provider
accepts a request and the answer is lost; recovery declares an execution dead
while it is only slow; two operators reconcile one publication; a row changes
between the dispatcher's read and its write; deduplicating jobIds and a failed
set that is never emptied interact with retries. `PROJECT.json` lists each with
its line.

**What makes each part correct.**

- Publishing: the final request is sent at most once; once it may be out the
  row says so; FAILED means not published unless an operator said so; PUBLISHED
  means published; DELETED means gone; queued work is taken and abandoned work
  recovered.
- Media: a READY asset has its object, uploads are not lost, PROCESSING ends.
- Drafts: what goes out is what the user sees, and nothing cancelled goes out.
- Accounts: one refresh per rotating token; a late answer undoes neither a
  reconnect nor a disconnect; every sync run a worker lived to finish is closed.
- OAuth: one consent connects once; a selection that failed can be retried, and
  its tokens stay in Redis no longer than the first fifteen minutes.
- Billing: no event applied twice, one gapless invoice number per payment, seat
  claims that count each other, a paid period that the trial scan spares, and
  fences that agree with the entitlements.
- Identity: only sessions of the present security epoch are let in, whatever
  Redis and the processes do between the database write and the clean-up.

## 2. Modules

| Module | Models |
|---|---|
| `PublicationStates` | the status graph, the phases and their allowed transitions, result categories, adapters |
| `PublishingState` | constants, variables, `TypeOK`, `Init`, BullMQ operations, the guard and the effect of `transitionOperation` |
| `PublishingApi` | lifecycle commands and `reconcile`; account disconnect and reconnect |
| `PublishingDispatcher` | the five queries of `scan`, each as a read and a write |
| `PublishingProcessor` | `process` and `processDelete`, one action per statement, transaction or provider call |
| `Publishing` | the composition, the environment (crashes, stalls, slow workers, time), fairness and the properties |
| `PublishingClaims` | what comments, tests and documents say, where the code does otherwise |
| `PublishingInvariant` | the inductive invariants `Fenced`, `Truthful` and `Deletions` |
| `PublishingTypes`, `PublishingProofs` | proofs |
| `MCPublishing` | symmetry and the limits per adapter for TLC |
| `Drafts`, `MCDrafts`, `DraftsProofs` | a post with several targets: editing, scheduling and cancelling against workers that load and publish |
| `MediaLifecycle`, `MCMedia`, `MediaProofs` | the media asset, for TLC, and its proofs |
| `AccountState` | the account, its connection, the provider's refresh tokens, the lock: variables, `TypeOK`, `Init` |
| `TokenRefresh` | `TokenService.getExecutionCredentials`, from the first read to the release of the lock |
| `AccountJobs` | the sync queue and processor; what the publishing processor does to an account; crashes |
| `Accounts`, `MCAccounts`, `AccountsProofs` | the composition with connect, disconnect, the provider and the clock |
| `OAuthFlow`, `MCOAuth`, `OAuthProofs` | the callback and the discovery selection over Redis keys |
| `Billing`, `MCBilling`, `BillingProofs` | subscriptions, founding seats, webhooks, invoices, trial scan, entitlements and the worker's fence |
| `SessionStore` | the Lua scripts of `SessionManager` |
| `AccessContract` | abstract: which sessions have access, in generations |
| `Identity`, `MCIdentity`, `IdentityProofs` | signup, verification links, login, guard, logout, password change, revocation; implements `AccessContract` |

**Publishing state.** `variant` is the row with `executionMetadata` flattened
into it: phase `"NONE"` stands for a null column. Times become booleans
(`scheduledDue`, `checkDue`, `fresh` for a heartbeat younger than five minutes)
that environment actions flip. Content, URLs, ids and payloads are left out;
`externalPostId` keeps only who supplied it. `operationId` counts
`startOperation` calls instead of drawing UUIDs. `wk[w]` holds the program
counter and the locals of `process` that later statements use:
`expectedDispatchVersion`, `currentSourcePhase`, the loaded phase and the
attempt. `remote` and `mutations` are what the provider has seen; no code reads
them, properties do. One publication is modelled, since no statement of
the modelled code reads two rows together, with any number of workers and scans.

**Atomicity.** A transaction or a single statement is one action. A query whose
result is used later (dispatcher, reconcile, `process`'s initial load) is an
action of its own and what it read is kept. The API commands are one action
because their earlier reads only decide whether to refuse, and the update
repeats the status check.

**Adapters.** Each is described by the hooks it calls, in order, and the
categories it returns: LinkedIn, Facebook and YouTube call
`beforeFinalMutation` directly; Instagram images create a container first; reels
create a container, are polled, and are finalised by `finalizePublish`;
carousels call `onRemotePrepared` without a container id. The last is refused
by `transitionOperation`, so PREPARATION_READY and `continuePreparation` are
unreachable and left out. `...GivesUp` are the categories with which an adapter
may end before its first hook, `...Unclear` those after a final request whose
effect is not known, `...Status` what `checkStatus` may answer.

**Media.** One action per storage call or statement of `completeUpload`
and of the recovery scan. An object is absent, good, of another type or of
another size: `completeUpload` compares both, recovery the size only. The
client may PUT again at any time while it has the URL.

**Drafts.** One post and its target rows. Content is a revision number per post
and per row; the history variables `sent` (what a provider received for a row)
and `raced` (rows hit by a write that checked nothing: the fence's late FAILED,
an `updateTarget` decided on an older read) are read by no action. `updateDraft`
and `deletePost` lock the rows and are one action; `addTarget`, `updateTarget`
and `removeTarget` read and write in two.

**Accounts.** `conn` is the SocialConnection row with its ciphertext (what the
compare-and-swap compares), `live` the refresh tokens the provider still
accepts; a refresh retires the one it used. The life of an access token is fresh,
near (within the five minutes), expired, or without expiry. A call of the token
service is a process: a sync (which is repeated by BullMQ) or a publication. The
lock may expire at any time while it is held (`overrun`). `accSame` and
`connSame` say for each call whether the row it read is unchanged, which is all
that `updatedAt` is compared for. A `findFirst` or `findUnique` with `include` is
two SELECTs, each an action of its own: `loadAccount` and
`getExecutionCredentials`, `failureRead` (the connection) and `failureAccount`.
`torn` records the calls for which a new connection was stored between those two. The
second look of `failureCas`, when its conditional write misses, is one read: it
writes nothing, and each mixture of the rows gives an answer that one of the two
states gives as well. `epoch` and `consent` are history: how often
the user has disconnected, and which consent the stored tokens come from.

**OAuth.** One consent: its state key, its code (which the provider takes once),
its discovery key. Keys hold their remaining time. `wasted` records that a session
was lost where the code does not put it back: the process died, the SET that
should store it failed, the choice held no offered profile, something threw
between the claim and the try (the registry, `getCapabilities`, `encrypt`), or the
SET of the restore failed.

**Billing.** A subscription row with its status, its period (unset, running,
over), the remote id and whether it is founding. An event exists from its first
delivery on (before it, it has no effect), so Razorpay delivers any event the code
handles, for any remote subscription and in any order; only authentication, and
cancellation or expiry, happen once. Each event may be delivered again, to another
handler at the same time. `processWebhook` is: receive (insert or find the event); lock the event,
look at it again and find the subscription; update it by id, with the invoice, and
commit. The transactions of two events of one subscription overlap, so a failed
payment may overwrite HALTED. `current_end` may be missing from either event that
has it. The invoice is checked and written at the commit: a second writer of the
same payment meets the unique key and rolls back, which is a failed commit. The
plan's row lock of the founding claim is `NoOne` or its holder. A scan reads the TRIAL rows and writes them one by one.

**Identity.** One user. Redis is the session keys with an epoch and a time to
live, and the index with its own; each Lua script is one atomic step. The
database write of a new epoch and the Redis clean-up are separate steps, and the
clean-up is tried three times. A link has a deadline, which is compared with the
time of the look-up: one that expires before its conditional update is still
consumed. `AccessContract` knows no Redis, no epoch numbers in sessions and no clean-up: holders, generations, and the session that changed the
password. The mapping takes as holders the sessions the guard would accept now.

## 3. Runs

| Run | Bounds | States | Checks |
|---|---|---|---|
| `publishing_safety` | 2 workers; LinkedIn: 2 requests, 1 failing call; Facebook: 2 requests, 1 pause; each other adapter: 1 request, 1 crash, 1 pause, 1 "still processing" | 2.5 M | `TypeOK`, `AtMostOnce`, `DeletedIsGone`, `Fenced`, `CheckpointBeforeMutation`, `PublishedIsReal`, `FailureIsTruthful` |
| `publishing_liveness` | 2 workers; LinkedIn: 2 requests, 1 crash, 1 failing call; Facebook: 1 request, 2 crashes, 3 failing calls | 0.16 M | `AbandonedIsRecovered`, `QueuedIsTaken` |
| `drafts` | 2 accounts, 2 workers, 1 editing call, 2 target rows, 3 edits, 3 commands | 6.3 M | `TypeOK`, `PublishesWhatIsSeen`, `CancelledIsNotSent` |
| `media` | 2 requests, 2 scans, 2 uploads, 2 failures | 0.07 M | `TypeOK`, `ReadyHasObject`, `UploadedIsKept`, `ProcessingEnds` |
| `accounts` | 1 sync, 1 publication, 3 tokens, 1 disconnect, 2 polls of a waiter, 1 fault | 7.8 M | `TypeOK`, `LockIsExclusive`, `WithdrawnStaysWiped`, `StoredTokenIsLive`, `RunsAreClosed`, `ReconnectWins` |
| `oauth` | 2 callbacks, 3 selections, 3 profiles, 4 ticks, 2 faults | 0.7 M | `TypeOK`, `ConnectedOnce`, `SessionKeepsDeadline`, `FailedSelectionCanBeRetried` |
| `billing` | 2 workspaces, 1 founding seat, 2 requests, 2 remote subscriptions, 2 events, 2 handlers, 1 scan, 1 cancellation or failure | 3.8 M | `TypeOK`, `AppliedOnce`, `InvoicesAreSequential`, `ClaimsAreSerialized`, `ScanSparesPaidPeriods` |
| `identity` | 4 requests, session 2 ticks, link 1 tick, 3 ticks, 1 fault, 1 outage | 2.2 M | `TypeOK`, `OnlyPresentGeneration`, `RacingLoginsLeaveNothing`, `IndexReachesSessions`, `LinksAndAccountsAreSingle`, `NeverResurrected`, `ImplementsAccess` |
| `claim_retry`, `claim_queued`, `claim_disconnected`, `claim_fence` | as the passing run of the module, or smaller | | one property each, violated |

`Limits[adapter][bound]` gives the bounds of `Publishing` for each adapter: an
adapter does not change in a behaviour, so one run holds them all, each with the
requests, crashes, pauses, faults and polls that its own hard cases need.

*Why the bounds are enough.* Every conflict in this code is between two
actors that hold an old read, so two workers and one scan (with one publication)
give each pair. Two requests reach publish and then delete, retry or reconcile
of the same row; one pause makes a zombie, and one crash followed by redelivery makes a second
execution. Two crashes, or three failing calls, are what it takes for a job to end
in the failed set, which is where liveness is at stake. Safety under more of each is what the proofs are for. In `accounts`
a sync and a publication give the two holders of one token; three tokens let a
refresh and a reconnect follow the first consent. In `oauth` a third selection
retries after one that failed while a second one raced it. In `billing` one seat makes two
workspaces compete for the last one, and `MaxUpsets` is one bound for the requests to
cancel and for failed calls and commits: what a cancellation races is a webhook, and
what a failure leaves behind is met by the next delivery. In `identity` four requests give a login
that races a password change, a request with the old session, and a revocation.
`MaxAttempts = 1` in `accounts` makes a thrown sync final; a rate limit or a
stalled job still repeats it. A `pass` run
allows the system to stop (`CHECK_DEADLOCK FALSE`): a finished publication with
no requests left has nothing to do.

*Fairness* (`Fairness` in `Publishing`). A worker slot takes its next step
(the Node process keeps running, or the crash is an action of its own); BullMQ's
stalled check and the clocks advance; each scan acts on what it read, and
reads each of its five queries again and again: `setInterval` runs
them every 15 seconds whatever happened to the previous scan. Reads get strong
fairness since a scan is busy with another row in between. Nothing is assumed
of users, of provider answers, or of crashes and pauses. `MediaFairness` assumes
that recovery scans run (`setInterval`, one minute) and that time passes,
and nothing of the API's requests.

The other modules state safety only: their loops end in a bounded number of
tries, and what must happen eventually (a webhook is delivered, a lock expires,
a scan runs again) is up to Razorpay, Redis and the clock.

### What the violation runs show

| Run | What happens |
|---|---|
| `claim_retry` | A retried publication still has the metadata of its failed run; `startOperation` refuses it after the claim; it stays PUBLISHING. |
| `claim_queued` | Two workers die after taking the job of a QUEUED row and before its claim. The job has stalled twice, fails, and is kept under the jobId of the row's version: the next scan's `add` does nothing, and so does every later one. The dispatcher says of a row it leaves QUEUED that the "next scan will retry". |
| `claim_disconnected` | The user disconnects while a job works; the job's authentication failure writes REAUTH_REQUIRED over DISCONNECTED. The token service takes care not to, its two callers do. |
| `claim_fence` | A subscription row created in the trial and never paid keeps status TRIAL. After the trial the entitlements say read-only; the worker's fence (and the API's validator) looks at the trial's end only when there is no row. |

`PublishingEnds` of `claim_retry` fails in two further ways that have no run of
their own: with one crash between the claim and the first attempt (recovery
starts from attempts), and with a reel whose poll job throws three times (its
jobId stays taken). `NextScanRetries` of `claim_queued` is `QueuedIsTaken` without
its exception for a jobId that a failed job keeps (`JobIdTaken`); with the exception it holds with
as many crashes and failing calls, which is what `publishing_liveness` checks.

### Deviations without a run

Behaviour of the models that a reader of the code may not expect, and that the
properties above are phrased around:

- The audit row of a committed success fails to be written: the catch around
  `handleSuccess` writes UNKNOWN over PUBLISHED.
- A reconnect that commits between the two SELECTs of `handlePermanentAuthFailure`
  leaves it with the old connection and the new account: its conditional write
  succeeds and marks the reconnected account REAUTH_REQUIRED, against
  `token.service.spec.ts:792` and `IMPLEMENTATION_STATUS.md:705`. `ReconnectWins`
  names this case (`torn`) and is false without the exception.
- A reschedule between the dispatcher's read and its update is ignored: the row
  is promoted before its new time.
- A carousel's first checkpoint carries no container id and is refused; its job
  is dropped as a duplicate that does not exist.
- A reconcile computed from an older read overwrites a COMPLETED operation.
- A 400 to the final request cannot be recorded (PUBLISH_REQUESTED has no edge
  to FAILED); the row becomes UNKNOWN by recovery only.
- After a refused delete the row is UNKNOWN with phase COMPLETED, which
  `reconcile` does not accept.
- A slow `completeUpload` writes FAILED over the READY recovery has written.
- A fence that loaded the row before another worker claimed it writes FAILED over
  PUBLISHING: the post is editable while it is being published. `updateTarget`
  and `removeTarget` write by id after an unlocked check, with the same effect.
  `PublishesWhatIsSeen` excludes the rows hit (`raced`).
- `deletePost` and `updateDraft` do not refuse DELETING.
- A founding subscription that lapsed and is charged again gets its seat back
  although it was given away: the cap holds per claim, not for ever.
- `cancelSubscription` writes the status it read before its call to Razorpay;
  a remote subscription whose transaction rolled back is cancelled by nobody;
  events of a subscription that has no row yet are marked processed. The trial
  scan may write EXPIRED over ACTIVE; the entitlements still grant the period.
- Webhooks are applied in the order of their arrival: a charge delivered after the
  cancellation activates the subscription again, and a failed payment that found the
  row before it was HALTED makes it PAST_DUE.
- A selection without a valid profile is rejected after its session was deleted.
- Two password changes in one session at once: the later clean-up keeps the session with
  its own epoch only if it is the present one, so the session may be logged out.
- Two resends at once leave two active links; each verifies at most once.
- A SyncRun whose worker died stays RUNNING.

## 4. Proofs

Every safety property that a passing run checks is also a theorem: invariants,
action properties and the refinement. The theorems are for any sets of workers,
scans, requests, calls, workspaces or accounts, any subset of the adapters and any
bounds. They assume no more than the named assumptions of the modules: bounds
are natural numbers, a null value (`NoWorker`, `NoCall`, `NoOne`) is none of
the things it stands beside, sync jobs are not publications, a time to live is not
zero, and a waiter for the refresh lock polls at least once (`MaxPolls`; the code
polls fifty times).

| Module | Inductive invariant (with `TypeOK`) | Theorems |
|---|---|---|
| `PublishingTypes` | `TypeOK` | `TypeCorrect` |
| `PublishingProofs` | `Fenced` | `AlwaysFenced`, `PublishesAtMostOnce`, `CheckpointHolds`, `PublishedHolds` |
| | `Settled` (`Truthful`, `Deletions`), relative to `Fenced` | `AlwaysSettled`, `FailuresAreTruthful`, `DeletionsAreReal` |
| `DraftsProofs` | `DraftInv` | `DraftsTypeCorrect`, `CancelledNeverSent`, `PublishedAsSeen` |
| `MediaProofs` | `SettledByFinal` | `AlwaysSettled`, `MediaTypeCorrect`, `ReadyAssetExists`, `UploadsSurvive` |
| `AccountsProofs` | `AccountInv` | `AccountTypeCorrect`, `RefreshLockExcludes`, `WithdrawnNeverStored`, `StoredTokenAccepted`, `SyncRunsClose`, `ReconnectIsKept` |
| `OAuthProofs` | `ConsentInv` | `OAuthTypeCorrect`, `ConsentInvariant`, `ConsentConnectsOnce`, `DeadlineKept`, `SelectionRetries` |
| `BillingProofs` | `SeatInv`; `EventLocked` for `AppliedOnce`; `InvoicesAreSequential` is inductive itself | `BillingTypeCorrect`, `EventsAppliedOnce`, `InvoicesSequential`, `TierNotOversold`, `ScanSparesPaid` |
| `IdentityProofs` | `IdentityInv` | `IdentityTypeCorrect`, `GuardAcceptsPresent`, `RacingLoginsUndone`, `IndexListsSessions`, `OneAccountOneUse`, `GoneStaysGone`, `AccessImplemented` |

Each proof has one lemma per action or per process, on top of "calm" or "quiet"
lemmas for the steps that leave alone what an invariant is about. The
strengthenings were checked with TLC on the bounds of section 3 before they
were proved; a proof module can be given to TLC like any other.

*At most once.* `AtMostOnce` alone is not inductive: a state
with one request sent and a worker still in front of its request would break
it. `dispatchVersion` is the fencing token. Whoever changes the phase raises
it, so a worker whose `expectedVersion` is still the row's version knows the
phase it loaded is the row's (`Knows`, `Sees`), unless an operator has closed
the operation, which is terminal. Only such a worker passes the checkpoint.
Once somebody has passed it (`Armed`) the row is in a phase from which no
checkpoint can be passed (`ArmedPhase`), so no second worker gets there
(`OneArmed`). YouTube is the exception that `ArmedPhase` names: it returns to
PROCESSING_REMOTE after its final request, but has no `finalizePublish`.
Statuses are written in several places without a version check (the fences,
`handleUnknown`, deletes); the invariant shows that no write of a status alone
can send a request or make up a PUBLISHED.

*Failures and deletions.* FAILED is reached from a phase without a final request,
so nobody is in front of one (`FailedIsOver`), or from PROCESSING_REMOTE. For
YouTube that phase comes after the request (`VideoIsSent`), and the worker that
still holds the row's version says "failed" only when the provider did
(`FailsWhenLost`). A deletion in any of its four forms (the status, a scan's read,
a job, a worker about to load) is of a post with an external id, so
`processDelete` never takes its "nothing to delete" branch; what it
records as a success has been removed at the provider (`Deletions`).

*Drafts.* A dispatch number is spent when it is claimed or cancelled
(`DispatchesSpent`), which is why an old job can do nothing. What a job loaded is
still what the row and the post say as long as its dispatch is queued
(`LoadedIsCurrent`): a claim succeeds only then. From the claim on the row has
one owner, whose loaded content no edit can change (`OwnedByOne`, `SentAsSeen`),
unless one of the unchecked writes hit it (`raced`).

*Media.* Whoever is about to write READY or to delete the
staging object has seen a final object, and nobody deletes a final object.

*Accounts.* A ciphertext is numbered by the token it was stored with. A number
given out and not yet stored is neither in the row nor in what another call has
read (`Numbered`, `Unstored`), so the compare-and-swap finds the row its call has
read, or none; where it would hit, the consent is still the present one
(`SameEpoch`). `SnapshotsHold` does the same for `updatedAt`: a call that is about to
mark the account has a connection that nobody replaced since it was read, unless
the call is torn. `RefreshLives`
follows the rotation of the refresh token through the provider's answer to the row.

*OAuth.* The right to store accounts moves: the code, the callback that exchanged
it, the discovery key, the selection that claimed it, back to the key by SET NX
(`CodeFirst`, `OneHolder`). `SessionAccounted` says that an unfinished
right is never lost but by expiry or where `wasted` says so.

*Billing.* An event is in one transaction at a time, which has seen that it is not
processed (`EventLocked`). The plan row is locked by exactly the request in the claim's
transaction (`LockHeld`), and that request has a seat left (`SeatsLeft`). This
rests on founding meaning seated (`FoundersAreSeated`), true until a founding
subscription lapses. The cap is not proved after that, and is false then (section 3).

*Identity.* What the guard accepts depends on where a session got its epoch
(`SessionOrigin`): from its login, which read it together with the password
(`ReadTogether`), or from a change of password, which made it (`ChangesMake`).
Without faults, a session with an old epoch is still to be cleaned up by somebody
(`StaleAreDoomed`). The refinement maps the holders of `AccessContract` to
the sessions the guard would accept now; most steps change no such session and
stutter or lose some; the creation of a session is `Login`, the write of a new
epoch `Begin`, before any clean-up, and the clean-up of a password change `Keep`.

*Only model-checked.* `AbandonedIsRecovered`, `QueuedIsTaken` and
`ProcessingEnds`: liveness needs the fairness of the specifications, for which
the prover has no rules. The four claims of the violation runs are
false, and what refutes them is a behaviour of a small instance.

## 5. Not modelled

- The validators' rules on counts, types and lengths: they may refuse. Billing's
  fence is modelled in `Billing`; in `Publishing` it is one of the refusals.
- More than one account, consent or user at a time: their rows and keys are
  separate, and no statement reads two of them together (billing, where the
  founding claim counts other workspaces, has two).
- Carousel preparation behind its first checkpoint, which is never passed.
- The dispatcher's `BATCH_SIZE` of 100 (one row).
- Parts of a second. Redis rounds a TTL to whole seconds: the index of sessions may
  expire up to half a second before its newest session, a kept session with less than
  that left is given a full life, and the restored discovery session is given up to a
  second more (`Math.floor`). A tick of the models is longer.
- A database statement that commits and whose answer is lost: a failing call is
  modelled as one without effect, while provider calls have both outcomes.
- Web application, formatting, PDF invoices, encryption, health checks,
  rate limiting (one atomic script), logging.

## 6. Plan

1. Lemmas that hold for the operators of `PublicationStates` (the status graph
   against the phases), where several proofs repeat a case split.
2. The safety part of recovery: what the dispatcher's stale scan may assume of a
   row it declares dead, as an action property of `Publishing`.
3. `AccessContract` itself: that its holders are of the present generation, so that
   `GuardAcceptsPresent` follows from the refinement as well.
