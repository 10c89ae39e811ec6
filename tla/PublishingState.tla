--------------------------- MODULE PublishingState ---------------------------
(***************************************************************************)
(* State shared by the parts of the publishing subsystem: one publication  *)
(* (a PostPlatformVariant row with its PublicationAttempts), the social    *)
(* account it is published through, the BullMQ queue, the worker slots     *)
(* that run jobs, the dispatcher scans, and what the provider has done.    *)
(*                                                                         *)
(* Rows of different publications never read one another, so one row is    *)
(* modelled; the processes that work on it are many.                       *)
(***************************************************************************)
EXTENDS Integers, Sequences, FiniteSets, PublicationStates

CONSTANTS
  Workers,      \* slots of the BullMQ worker (concurrency 5, several processes)
  Scanners,     \* dispatcher scans in flight (setInterval never waits for the last)
  Adapters,     \* the adapters a publication may use
  NoWorker,     \* "no slot holds the lock of this job"
  Limits        \* Limits[a][b]: how often b happens to a publication of adapter a

Bounds ==
  {"requests",  \* API requests and account changes
   "crashes",   \* worker processes that die
   "pauses",    \* times a live worker outlives its job lock or its heartbeat
   "faults",    \* database or Redis calls that throw
   "polls"}     \* status checks answered "still processing"

ASSUME ConstantsAssumption ==
  /\ Adapters \subseteq AllAdapters
  /\ NoWorker \notin Workers
  /\ Limits \in [Adapters -> [Bounds -> Nat]]

VARIABLES
  variant,    \* the PostPlatformVariant row, executionMetadata flattened
  attempts,   \* its PublicationAttempt rows, indexed by attemptNumber
  account,    \* SocialAccount.status
  jobs,       \* the BullMQ jobs that exist for it
  wk,         \* wk[w]: program counter and local variables of worker slot w
  scan,       \* scan[d]: the row a dispatcher scan has read and not yet acted on
  reconciling,\* reconcile() calls between their read and their transaction
  adapter,    \* the adapter of the account (fixed)
  remote,     \* the content at the provider: "absent", "live" or "removed"
  mutations,  \* final publish requests ever sent to the provider
  used        \* how much of each bound has been spent

vars == <<variant, attempts, account, jobs, wk, scan, reconciling, adapter,
          remote, mutations, used>>

-----------------------------------------------------------------------------
AccountStatuses == {"ACTIVE", "REAUTH_REQUIRED", "DISCONNECTED"}

VariantRows ==
  [status: Statuses, dispatchVersion: Nat, phase: Phases, operationId: Nat,
   externalPostId: {"none", "provider", "operator"},   \* who supplied the id
   reconciled: BOOLEAN,      \* reconciledBy is set
   scheduledDue: BOOLEAN,    \* scheduledAt <= now
   checkDue: BOOLEAN]        \* nextCheckAt <= now

AttemptRows ==
  [status: {"PUBLISHING", "SUCCESS", "FAILED"}, failureCategory: Results,
   fresh: BOOLEAN]           \* executionHeartbeatAt younger than 5 minutes

Jobs ==
  [kind: {"publish", "delete"}, version: Nat, operationId: Nat,
   state: {"waiting", "active", "failed"}, tries: Nat, stalls: Nat,
   owner: Workers \cup {NoWorker}]

PublishPcs == {"load", "fence", "fenceAttempt", "claim", "start", "attempt", "create",
               "guard", "creds", "authFailure", "reauth", "publish", "final", "mutate",
               "poll", "result", "audit", "unknown"}

DeletePcs == {"delLoad", "delCreds", "delCall", "delReauth", "delRecord"}

WorkerStates ==
  [pc: PublishPcs \cup DeletePcs \cup {"idle"},
   version: Nat,             \* job.data.dispatchVersion
   jobOperationId: Nat,      \* job.data.operationId, 0 when the job carries none
   isContinuation: BOOLEAN,
   operationId: Nat,         \* currentOperationId
   expectedVersion: Nat,     \* expectedDispatchVersion
   sourcePhase: Phases,      \* currentSourcePhase
   loadedPhase: Phases,      \* phase in the row as it was loaded
   attempt: Nat,             \* attempt.id
   result: Results]

Idle == [pc |-> "idle", version |-> 0, jobOperationId |-> 0, isContinuation |-> FALSE,
         operationId |-> 0, expectedVersion |-> 0, sourcePhase |-> "NONE",
         loadedPhase |-> "NONE", attempt |-> 0, result |-> "NONE"]

ScanStates ==
  [step: {"none", "promote", "queued", "deleting", "continuation", "stale"},
   version: Nat, operationId: Nat, attempt: Nat, hasMetadata: BOOLEAN]

NoScan == [step |-> "none", version |-> 0, operationId |-> 0, attempt |-> 0,
           hasMetadata |-> FALSE]

TypeOK ==
  /\ variant \in VariantRows
  /\ attempts \in Seq(AttemptRows)
  /\ account \in AccountStatuses
  /\ jobs \in SUBSET Jobs
  /\ wk \in [Workers -> WorkerStates]
  /\ scan \in [Scanners -> ScanStates]
  /\ reconciling \in Nat
  /\ adapter \in Adapters
  /\ remote \in {"absent", "live", "removed"}
  /\ mutations \in Nat
  /\ used \in [Bounds -> Nat]

Init ==
  /\ variant = [status |-> "DRAFT", dispatchVersion |-> 0, phase |-> "NONE",
                operationId |-> 0, externalPostId |-> "none",
                reconciled |-> FALSE, scheduledDue |-> FALSE, checkDue |-> FALSE]
  /\ attempts = <<>>
  /\ account = "ACTIVE"
  /\ jobs = {}
  /\ wk = [w \in Workers |-> Idle]
  /\ scan = [d \in Scanners |-> NoScan]
  /\ reconciling = 0
  /\ adapter \in Adapters
  /\ remote = "absent"
  /\ mutations = 0
  /\ used = [b \in Bounds |-> 0]

-----------------------------------------------------------------------------
(* BullMQ, as the code uses it: jobId deduplicates, a completed job is     *)
(* removed (removeOnComplete), a job that threw `attempts: 3' times, or    *)
(* stalled twice (maxStalledCount 1), stays in the failed set              *)
(* (removeOnFail: false) and its jobId stays taken.                        *)

JobAttempts == 3
MaxStalledCount == 1

NewJob(kind, version, operationId) ==
  [kind |-> kind, version |-> version, operationId |-> operationId,
   state |-> "waiting", tries |-> 0, stalls |-> 0, owner |-> NoWorker]

\* queue.add: ignored when a job with this jobId (kind and version) exists
Enqueue(job) ==
  jobs' = IF \E j \in jobs : j.kind = job.kind /\ j.version = job.version
            THEN jobs ELSE jobs \cup {job}

Thrown(j) == [j EXCEPT !.tries = @ + 1, !.owner = NoWorker,
                       !.state = IF j.tries + 1 < JobAttempts THEN "waiting" ELSE "failed"]

Stalled(j) == [j EXCEPT !.stalls = @ + 1, !.owner = NoWorker,
                        !.state = IF j.stalls < MaxStalledCount THEN "waiting" ELSE "failed"]

\* process() returns; a slot that lost the lock of its job completes nothing
Return(w) ==
  /\ wk' = [wk EXCEPT ![w] = Idle]
  /\ jobs' = {j \in jobs : j.owner # w}

\* process() throws
Throw(w) ==
  /\ wk' = [wk EXCEPT ![w] = Idle]
  /\ jobs' = {IF j.owner = w THEN Thrown(j) ELSE j : j \in jobs}

\* process() goes on: the slot moves to pc with the locals of `new'
Continue(w, new) ==
  /\ wk' = [wk EXCEPT ![w] = new]
  /\ UNCHANGED jobs

Goto(w, pc) == Continue(w, [wk[w] EXCEPT !.pc = pc])

-----------------------------------------------------------------------------
(* ExecutionMetadataRepository                                             *)

\* transitionOperation succeeds: version, operation and phase are the expected
\* ones and the phase may move to `next' (the write is a CAS on dispatchVersion)
CanTransition(w, expectedPhase, next) ==
  /\ variant.dispatchVersion = wk[w].expectedVersion
  /\ variant.phase # "NONE"
  /\ variant.operationId = wk[w].operationId
  /\ variant.phase = expectedPhase
  /\ variant.phase \notin TERMINAL_PHASES
  /\ next \in ALLOWED_TRANSITIONS[variant.phase]

\* mutant: phase and status swapped
Transitioned_MutSwapped(next, status) ==
  [variant EXCEPT !.phase = status, !.dispatchVersion = @ + 1, !.checkDue = FALSE,
                  !.status = next]

\* mutant: the version is not bumped
Transitioned_MutNoBump(next, status) ==
  [variant EXCEPT !.phase = next, !.checkDue = FALSE, !.status = status]

\* the row it writes, with the status the surrounding transaction sets
Transitioned(next, status) ==
  [variant EXCEPT !.phase = next, !.dispatchVersion = @ + 1, !.checkDue = FALSE,
                  !.status = status]

\* PublicationAttempt update inside the same transaction
Closed(i, status, category) ==
  [attempts EXCEPT ![i].status = status, ![i].failureCategory = category]

Spend(bound) ==
  /\ used[bound] < Limits[adapter][bound]
  /\ used' = [used EXCEPT ![bound] = @ + 1]
=============================================================================
