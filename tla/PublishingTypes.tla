--------------------------- MODULE PublishingTypes ---------------------------
(***************************************************************************)
(* Type correctness of Publishing for all constants: TypeOK is inductive.  *)
(* The lemmas say that the building blocks of the actions (the BullMQ      *)
(* steps, the row and attempt writes) stay within their types.             *)
(***************************************************************************)
EXTENDS PublishingInvariant, TLAPS

\* The rows ExecutionMetadataRepository writes are rows.
LEMMA TransitionedType ==
  ASSUME variant \in VariantRows, NEW next \in Phases, NEW status \in Statuses
  PROVE  Transitioned(next, status) \in VariantRows
<1>1. variant.dispatchVersion + 1 \in Nat
  BY DEF VariantRows
<1> QED BY <1>1 DEF Transitioned, VariantRows

\* Replacing one attempt by another yields attempts.
LEMMA AttemptsType ==
  ASSUME attempts \in Seq(AttemptRows), NEW f, NEW i,
         f = [k \in DOMAIN attempts |-> f[k]],
         \A k \in DOMAIN attempts : k # i => f[k] = attempts[k],
         i \in DOMAIN attempts => f[i] \in AttemptRows
  PROVE  f \in Seq(AttemptRows)
<1>1. \A k \in DOMAIN attempts : f[k] \in AttemptRows
  OBVIOUS
<1>2. DOMAIN f = DOMAIN attempts
  OBVIOUS
<1> QED BY <1>1, <1>2

\* Closing an attempt yields attempts, whatever the index.
LEMMA ClosedType ==
  ASSUME attempts \in Seq(AttemptRows), NEW i,
         NEW status \in {"PUBLISHING", "SUCCESS", "FAILED"}, NEW category \in Results
  PROVE  Closed(i, status, category) \in Seq(AttemptRows)
<1> DEFINE f == Closed(i, status, category)
<1>1. f = [k \in DOMAIN attempts |-> f[k]]
  BY DEF Closed
<1>2. \A k \in DOMAIN attempts : k # i => f[k] = attempts[k]
  BY DEF Closed
<1>3. ASSUME i \in DOMAIN attempts PROVE f[i] \in AttemptRows
  <2>1. attempts[i] \in AttemptRows
    BY <1>3
  <2>2. f[i] = [attempts[i] EXCEPT !.status = status, !.failureCategory = category]
    BY <1>3 DEF Closed
  <2> QED BY <2>1, <2>2 DEF AttemptRows
<1> HIDE DEF f
<1>4. f \in Seq(AttemptRows)
  BY <1>1, <1>2, <1>3, AttemptsType
<1> QED BY <1>4 DEF f

\* So does handleSuccess.
LEMMA StatusType ==
  ASSUME attempts \in Seq(AttemptRows), NEW i
  PROVE  [attempts EXCEPT ![i].status = "SUCCESS"] \in Seq(AttemptRows)
<1> DEFINE f == [attempts EXCEPT ![i].status = "SUCCESS"]
<1>1. f = [k \in DOMAIN attempts |-> f[k]]
  OBVIOUS
<1>2. \A k \in DOMAIN attempts : k # i => f[k] = attempts[k]
  OBVIOUS
<1>3. ASSUME i \in DOMAIN attempts PROVE f[i] \in AttemptRows
  <2>1. attempts[i] \in AttemptRows
    BY <1>3
  <2>2. f[i] = [attempts[i] EXCEPT !.status = "SUCCESS"]
    BY <1>3
  <2> QED BY <2>1, <2>2 DEF AttemptRows
<1> HIDE DEF f
<1>4. f \in Seq(AttemptRows)
  BY <1>1, <1>2, <1>3, AttemptsType
<1> QED BY <1>4 DEF f

\* So do the heartbeat writes.
LEMMA FreshType ==
  ASSUME attempts \in Seq(AttemptRows), NEW i, NEW b \in BOOLEAN
  PROVE  [attempts EXCEPT ![i].fresh = b] \in Seq(AttemptRows)
<1> DEFINE f == [attempts EXCEPT ![i].fresh = b]
<1>1. f = [k \in DOMAIN attempts |-> f[k]]
  OBVIOUS
<1>2. \A k \in DOMAIN attempts : k # i => f[k] = attempts[k]
  OBVIOUS
<1>3. ASSUME i \in DOMAIN attempts PROVE f[i] \in AttemptRows
  <2>1. attempts[i] \in AttemptRows
    BY <1>3
  <2>2. f[i] = [attempts[i] EXCEPT !.fresh = b]
    BY <1>3
  <2> QED BY <2>1, <2>2 DEF AttemptRows
<1> HIDE DEF f
<1>4. f \in Seq(AttemptRows)
  BY <1>1, <1>2, <1>3, AttemptsType
<1> QED BY <1>4 DEF f

\* queue.add
LEMMA EnqueueType ==
  ASSUME TypeOK, NEW kind \in {"publish", "delete"}, NEW version \in Nat,
         NEW operationId \in Nat, Enqueue(NewJob(kind, version, operationId))
  PROVE  jobs' \in SUBSET Jobs
BY DEF TypeOK, Enqueue, NewJob, Jobs

\* the three ways a step of process() ends
\* A completed job is removed and its slot is idle again: both stay well typed.
LEMMA ReturnType ==
  ASSUME TypeOK, NEW w \in Workers, Return(w)
  PROVE  wk' \in [Workers -> WorkerStates] /\ jobs' \in SUBSET Jobs
<1>1. Idle \in WorkerStates
  BY DEF Idle, WorkerStates, PublishPcs, DeletePcs, Phases, Results, Failures
<1> QED BY <1>1 DEF TypeOK, Return

\* A job whose processor threw is waiting or failed, and is still a job.
LEMMA ThrowType ==
  ASSUME TypeOK, NEW w \in Workers, Throw(w)
  PROVE  wk' \in [Workers -> WorkerStates] /\ jobs' \in SUBSET Jobs
<1>1. Idle \in WorkerStates
  BY DEF Idle, WorkerStates, PublishPcs, DeletePcs, Phases, Results, Failures
<1>2. ASSUME NEW j \in Jobs PROVE Thrown(j) \in Jobs
  <2>1. j.tries + 1 \in Nat
    BY DEF Jobs
  <2> QED BY <2>1 DEF Jobs, Thrown
<1> QED BY <1>1, <1>2 DEF TypeOK, Throw

\* A slot that goes on with well-typed locals keeps wk well typed.
LEMMA ContinueType ==
  ASSUME TypeOK, NEW w \in Workers, NEW new \in WorkerStates, Continue(w, new)
  PROVE  wk' \in [Workers -> WorkerStates] /\ jobs' \in SUBSET Jobs
BY DEF TypeOK, Continue

\* So does one that only moves its program counter.
LEMMA GotoType ==
  ASSUME TypeOK, NEW w \in Workers, NEW pc \in PublishPcs \cup DeletePcs, Goto(w, pc)
  PROVE  wk' \in [Workers -> WorkerStates] /\ jobs' \in SUBSET Jobs
<1>1. [wk[w] EXCEPT !.pc = pc] \in WorkerStates
  BY DEF TypeOK, WorkerStates
<1> QED BY <1>1, ContinueType DEF Goto

\* Spending a bound keeps the counters of the bounds numbers.
LEMMA SpendType ==
  ASSUME TypeOK, NEW bound \in Bounds, Spend(bound)
  PROVE  used' \in [Bounds -> Nat]
<1>1. used[bound] + 1 \in Nat
  BY DEF TypeOK
<1> QED BY <1>1 DEF TypeOK, Spend

-----------------------------------------------------------------------------
(* One lemma per process.                                                  *)

\* Every command of PublishingApplicationService keeps the types.
LEMMA ApiType == ASSUME TypeOK, ApiNext PROVE TypeOK'
<1>1. variant \in VariantRows /\ variant.dispatchVersion + 1 \in Nat
  BY DEF TypeOK, VariantRows
<1>2. ASSUME NEW expected, NEW new \in Statuses, transitionVariantState(expected, new)
      PROVE  variant' \in VariantRows
  BY <1>1, <1>2 DEF transitionVariantState, VariantRows
<1>3. ASSUME Spend("requests") PROVE used' \in [Bounds -> Nat]
  BY <1>3, SpendType DEF Bounds
<1>4. CASE RequestPublish
  <2>1. variant' \in VariantRows
    BY <1>2, <1>4 DEF RequestPublish, Statuses
  <2> QED BY <1>3, <1>4, <2>1 DEF RequestPublish, apiUnchanged, TypeOK
<1>5. CASE RequestRetry
  <2>1. variant' \in VariantRows
    BY <1>2, <1>5 DEF RequestRetry, Statuses
  <2> QED BY <1>3, <1>5, <2>1 DEF RequestRetry, apiUnchanged, TypeOK
<1>6. CASE RequestRemoteDelete
  <2>1. variant' \in VariantRows
    BY <1>2, <1>6 DEF RequestRemoteDelete, Statuses
  <2> QED BY <1>3, <1>6, <2>1 DEF RequestRemoteDelete, apiUnchanged, TypeOK
<1>7. CASE Schedule \/ Reschedule \/ Unschedule
  <2>1. variant' \in VariantRows
    BY <1>1, <1>7 DEF Schedule, Reschedule, Unschedule, VariantRows, Statuses
  <2> QED BY <1>3, <1>7, <2>1 DEF Schedule, Reschedule, Unschedule, apiUnchanged, TypeOK
<1>8. CASE CancelQueued
  <2>1. variant' \in VariantRows
    BY <1>2, <1>8 DEF CancelQueued, Statuses
  <2> QED BY <1>3, <1>8, <2>1 DEF CancelQueued, apiUnchanged, TypeOK
<1>9. CASE ReconcileRead
  BY <1>3, <1>9 DEF ReconcileRead, TypeOK
<1>10. ASSUME NEW decision \in {"CONFIRM_PUBLISHED", "CONFIRM_FAILED"},
              ReconcileCommit(decision)
       PROVE  TypeOK'
  <2>1. variant' \in VariantRows
    BY <1>1, <1>10 DEF ReconcileCommit, VariantRows, Statuses, Phases
  <2>2. attempts' \in Seq(AttemptRows)
    BY <1>10, ClosedType DEF ReconcileCommit, TypeOK, Results, Failures
  <2>3. reconciling' \in Nat
    BY <1>10 DEF ReconcileCommit, TypeOK
  <2> QED BY <1>10, <2>1, <2>2, <2>3 DEF ReconcileCommit, TypeOK
<1>11. CASE ReconcileConflict
  <2>1. reconciling' \in Nat
    BY <1>11 DEF ReconcileConflict, TypeOK
  <2> QED BY <1>11, <2>1 DEF ReconcileConflict, TypeOK
<1>12. CASE DisconnectAccount \/ ReconnectAccount
  BY <1>3, <1>12 DEF DisconnectAccount, ReconnectAccount, TypeOK, AccountStatuses
<1> QED BY <1>4, <1>5, <1>6, <1>7, <1>8, <1>9, <1>10, <1>11, <1>12 DEF ApiNext

\* Every read and write of a dispatcher scan keeps the types.
LEMMA DispatcherType == ASSUME TypeOK, DispatcherNext PROVE TypeOK'
<1> PICK d \in Scanners : ReadStep(d) \/ WriteStep(d) \/ ScanFails(d)
  BY DEF DispatcherNext
<1>1. variant \in VariantRows /\ variant.dispatchVersion + 1 \in Nat
  BY DEF TypeOK, VariantRows
<1>2. scan[d] \in ScanStates /\ NoScan \in ScanStates
  BY DEF TypeOK, ScanStates, NoScan
<1>3. ASSUME NEW row \in ScanStates, Found(d, row) PROVE TypeOK'
  BY <1>3 DEF Found, dispatcherUnchanged, TypeOK
<1>4. CASE ReadScheduled(d)
  <2>1. [NoScan EXCEPT !.step = "promote"] \in ScanStates
    BY <1>2 DEF ScanStates
  <2> QED BY <1>3, <1>4, <2>1 DEF ReadScheduled
<1>5. CASE ReadQueued(d)
  <2>1. [NoScan EXCEPT !.step = "queued", !.version = variant.dispatchVersion] \in ScanStates
    BY <1>1, <1>2 DEF ScanStates, VariantRows
  <2> QED BY <1>3, <1>5, <2>1 DEF ReadQueued
<1>6. CASE ReadDeleting(d)
  <2>1. [NoScan EXCEPT !.step = "deleting", !.version = variant.dispatchVersion] \in ScanStates
    BY <1>1, <1>2 DEF ScanStates, VariantRows
  <2> QED BY <1>3, <1>6, <2>1 DEF ReadDeleting
<1>7. CASE ReadContinuation(d)
  <2>1. [NoScan EXCEPT !.step = "continuation", !.version = variant.dispatchVersion,
                       !.operationId = variant.operationId] \in ScanStates
    BY <1>1, <1>2 DEF ScanStates, VariantRows
  <2> QED BY <1>3, <1>7, <2>1 DEF ReadContinuation
<1>8. CASE ReadStale(d)
  <2> PICK i \in DOMAIN attempts :
             Found(d, [NoScan EXCEPT !.step = "stale", !.attempt = i,
                                     !.hasMetadata = (variant.phase # "NONE")])
    BY <1>8 DEF ReadStale
  <2>1. i \in Nat
    BY DEF TypeOK
  <2>2. [NoScan EXCEPT !.step = "stale", !.attempt = i,
                       !.hasMetadata = (variant.phase # "NONE")] \in ScanStates
    BY <1>2, <2>1 DEF ScanStates
  <2> QED BY <1>3, <2>2
<1>9. ASSUME NEW step, Handled(d, step) PROVE scan' \in [Scanners -> ScanStates]
  BY <1>2, <1>9 DEF Handled, TypeOK
<1>10. CASE PromoteScheduled(d)
  <2>1. variant' \in VariantRows
    BY <1>1, <1>10 DEF PromoteScheduled, VariantRows, Statuses
  <2> QED BY <1>9, <1>10, <2>1 DEF PromoteScheduled, Handled, dispatcherUnchanged, TypeOK
<1>11. CASE DispatchQueued(d)
  <2>1. jobs' \in SUBSET Jobs
    BY <1>2, <1>11, EnqueueType DEF DispatchQueued, ScanStates
  <2> QED BY <1>9, <1>11, <2>1 DEF DispatchQueued, Handled, dispatcherUnchanged, TypeOK
<1>12. CASE DispatchDeleting(d)
  <2>1. jobs' \in SUBSET Jobs
    BY <1>2, <1>12, EnqueueType DEF DispatchDeleting, ScanStates
  <2> QED BY <1>9, <1>12, <2>1 DEF DispatchDeleting, Handled, dispatcherUnchanged, TypeOK
<1>13. CASE DispatchContinuation(d)
  <2>1. jobs' \in SUBSET Jobs
    BY <1>2, <1>13, EnqueueType DEF DispatchContinuation, ScanStates
  <2> QED BY <1>9, <1>13, <2>1 DEF DispatchContinuation, Handled, dispatcherUnchanged, TypeOK
<1>14. CASE RecoverStale(d)
  <2>1. Transitioned("AMBIGUOUS", "UNKNOWN") \in VariantRows
    BY <1>1, TransitionedType DEF Phases, Statuses
  <2>2. variant' \in VariantRows
    BY <1>1, <1>14, <2>1 DEF RecoverStale, VariantRows, Statuses
  <2>3. Closed(scan[d].attempt, "FAILED", "UNKNOWN_RESULT") \in Seq(AttemptRows)
    BY ClosedType DEF TypeOK, Results, Failures
  <2>4. attempts' \in Seq(AttemptRows)
    BY <1>14, <2>3 DEF RecoverStale, TypeOK
  <2> QED BY <1>9, <1>14, <2>2, <2>4 DEF RecoverStale, Handled, dispatcherUnchanged, TypeOK
<1>15. CASE ScanFails(d)
  <2>1. used' \in [Bounds -> Nat]
    BY <1>15, SpendType DEF ScanFails, Bounds
  <2> QED BY <1>2, <1>15, <2>1 DEF ScanFails, TypeOK
<1> QED BY <1>4, <1>5, <1>6, <1>7, <1>8, <1>10, <1>11, <1>12, <1>13, <1>14, <1>15
        DEF ReadStep, WriteStep

\* wk[w] with the locals an action assigns
LEMMA LocalsType ==
  ASSUME TypeOK, NEW w \in Workers, NEW pc \in PublishPcs \cup DeletePcs
  PROVE  /\ wk[w] \in WorkerStates
         /\ wk[w].expectedVersion + 1 \in Nat
         /\ [wk[w] EXCEPT !.pc = pc] \in WorkerStates
         /\ \A r \in Results : [wk[w] EXCEPT !.pc = pc, !.result = r] \in WorkerStates
         /\ \A i \in Nat : [wk[w] EXCEPT !.pc = pc, !.attempt = i] \in WorkerStates
<1>1. wk[w] \in WorkerStates
  BY DEF TypeOK
<1>2. wk[w].expectedVersion + 1 \in Nat
  BY <1>1 DEF WorkerStates
<1>3. \A r \in Results : [wk[w] EXCEPT !.pc = pc, !.result = r] \in WorkerStates
  BY <1>1 DEF WorkerStates
<1>4. \A i \in Nat : [wk[w] EXCEPT !.pc = pc, !.attempt = i] \in WorkerStates
  BY <1>1 DEF WorkerStates
<1>5. [wk[w] EXCEPT !.pc = pc] \in WorkerStates
  BY <1>1 DEF WorkerStates
<1> QED BY <1>1, <1>2, <1>3, <1>4, <1>5

\* Handing a job to a slot (BullMQ) keeps the types.
LEMMA TakeJobType == ASSUME TypeOK, NEW w \in Workers, TakeJob(w) PROVE TypeOK'
<1> PICK j \in jobs :
      /\ jobs' = (jobs \ {j}) \cup {[j EXCEPT !.state = "active", !.owner = w]}
      /\ wk' = [wk EXCEPT ![w] = [Idle EXCEPT
                  !.pc = IF j.kind = "publish" THEN "load" ELSE "delLoad",
                  !.version = j.version, !.jobOperationId = j.operationId]]
      /\ localStep
  BY DEF TakeJob
<1>1. j \in Jobs
  BY DEF TypeOK
<1>2. Idle \in WorkerStates
  BY DEF Idle, WorkerStates, PublishPcs, DeletePcs, Phases, Results, Failures
<1>3. jobs' \in SUBSET Jobs
  BY <1>1 DEF TypeOK, Jobs
<1>4. wk' \in [Workers -> WorkerStates]
  BY <1>1, <1>2 DEF TypeOK, Jobs, WorkerStates, PublishPcs, DeletePcs
<1> QED BY <1>3, <1>4 DEF localStep, TypeOK

\* up to the attempt
LEMMA ClaimingType ==
  ASSUME TypeOK, NEW w \in Workers,
         Load(w) \/ Fence(w) \/ FenceAttempt(w) \/ Claim(w) \/ Start(w)
  PROVE  TypeOK'
<1>1. /\ variant \in VariantRows
      /\ variant.dispatchVersion + 1 \in Nat
      /\ variant.operationId + 1 \in Nat
      /\ wk[w] \in WorkerStates
  BY DEF TypeOK, VariantRows
<1>2. CASE Load(w)
  <2>1. CASE Return(w)
    BY <1>2, <2>1, ReturnType DEF Load, localStep, TypeOK
  <2>2. CASE \E c \in FenceCategories :
               Continue(w, [wk[w] EXCEPT !.pc = "fence", !.result = c])
    <3>1. \A c \in FenceCategories : [wk[w] EXCEPT !.pc = "fence", !.result = c] \in WorkerStates
      BY LocalsType DEF FenceCategories, PublishPcs, Results, Failures
    <3> QED BY <1>2, <2>2, <3>1, ContinueType DEF Load, localStep, TypeOK
  <2>3. CASE Goto(w, "claim")
    BY <1>2, <2>3, GotoType DEF Load, localStep, TypeOK, PublishPcs
  <2>4. CASE Continue(w, [wk[w] EXCEPT !.pc = "attempt", !.isContinuation = TRUE,
                     !.operationId = variant.operationId, !.expectedVersion = wk[w].version,
                     !.sourcePhase = "PROCESSING_REMOTE", !.loadedPhase = variant.phase])
    <3>1. [wk[w] EXCEPT !.pc = "attempt", !.isContinuation = TRUE,
                     !.operationId = variant.operationId, !.expectedVersion = wk[w].version,
                     !.sourcePhase = "PROCESSING_REMOTE", !.loadedPhase = variant.phase]
            \in WorkerStates
      BY <1>1 DEF WorkerStates, VariantRows, PublishPcs, Phases
    <3> QED BY <1>2, <2>4, <3>1, ContinueType DEF Load, localStep, TypeOK
  <2> QED BY <1>2, <2>1, <2>2, <2>3, <2>4 DEF Load
<1>3. CASE Fence(w)
  <2>1. variant' \in VariantRows
    BY <1>1, <1>3 DEF Fence, VariantRows, Statuses
  <2> QED BY <1>3, <2>1, GotoType DEF Fence, rowStep, TypeOK, PublishPcs
<1>4. CASE FenceAttempt(w)
  <2>1. [status |-> "FAILED", failureCategory |-> wk[w].result, fresh |-> FALSE] \in AttemptRows
    BY <1>1 DEF AttemptRows, WorkerStates
  <2>2. attempts' \in Seq(AttemptRows)
    BY <1>4, <2>1 DEF FenceAttempt, TypeOK
  <2> QED BY <1>4, <2>2, ReturnType DEF FenceAttempt, rowStep, TypeOK
<1>5. CASE Claim(w)
  <2>1. variant' \in VariantRows
    BY <1>1, <1>5 DEF Claim, VariantRows, Statuses
  <2>2. wk' \in [Workers -> WorkerStates] /\ jobs' \in SUBSET Jobs
    BY <1>5, GotoType, ReturnType DEF Claim, PublishPcs
  <2> QED BY <1>5, <2>1, <2>2 DEF Claim, rowStep, TypeOK
<1>6. CASE Start(w)
  <2>1. variant' \in VariantRows
    BY <1>1, <1>6 DEF Start, VariantRows, Phases
  <2>2. [wk[w] EXCEPT !.pc = "attempt", !.operationId = variant.operationId + 1,
                      !.expectedVersion = variant.dispatchVersion + 1,
                      !.sourcePhase = "INITIATED", !.loadedPhase = "INITIATED"]
          \in WorkerStates
    BY <1>1 DEF WorkerStates, PublishPcs, Phases
  <2>3. wk' \in [Workers -> WorkerStates] /\ jobs' \in SUBSET Jobs
    BY <1>6, <2>2, ContinueType, ReturnType DEF Start
  <2> QED BY <1>6, <2>1, <2>3 DEF Start, rowStep, TypeOK
<1> QED BY <1>2, <1>3, <1>4, <1>5, <1>6

\* from the attempt to the adapter call
LEMMA AttemptingType ==
  ASSUME TypeOK, NEW w \in Workers,
         \/ FindAttempt(w) \/ CreateAttempt(w) \/ Guard(w)
         \/ Credentials(w) \/ AuthFailure(w) \/ Reauth(w)
  PROVE  TypeOK'
<1>1. variant \in VariantRows /\ wk[w] \in WorkerStates
  BY DEF TypeOK
<1>2. AfterAttempt(w) \in PublishPcs
  BY DEF AfterAttempt, PublishPcs
<1>3. CASE FindAttempt(w)
  <2>1. CASE Goto(w, "create") /\ UNCHANGED attempts
    BY <1>3, <2>1, GotoType DEF FindAttempt, rowStep, TypeOK, PublishPcs
  <2>2. ASSUME NEW i \in Open,
               attempts' = [attempts EXCEPT ![i].fresh = TRUE],
               Continue(w, [wk[w] EXCEPT !.pc = AfterAttempt(w), !.attempt = i])
        PROVE  TypeOK'
    <3>1. i \in Nat
      BY DEF Open, TypeOK
    <3>2. attempts' \in Seq(AttemptRows)
      BY <2>2, FreshType DEF TypeOK
    <3>3. [wk[w] EXCEPT !.pc = AfterAttempt(w), !.attempt = i] \in WorkerStates
      BY <1>2, <3>1, LocalsType
    <3> QED BY <1>3, <2>2, <3>2, <3>3, ContinueType DEF FindAttempt, rowStep, TypeOK
  <2> QED BY <1>3, <2>1, <2>2 DEF FindAttempt
<1>4. CASE CreateAttempt(w)
  <2>1. attempts' \in Seq(AttemptRows)
    BY <1>4 DEF CreateAttempt, TypeOK, AttemptRows, Results
  <2>2. Len(attempts) + 1 \in Nat
    BY DEF TypeOK
  <2>3. [wk[w] EXCEPT !.pc = AfterAttempt(w), !.attempt = Len(attempts) + 1] \in WorkerStates
    BY <1>2, <2>2, LocalsType
  <2> QED BY <1>4, <2>1, <2>3, ContinueType DEF CreateAttempt, rowStep, TypeOK
<1>5. CASE Guard(w)
  <2>1. Transitioned("AMBIGUOUS", variant.status) \in VariantRows
    BY <1>1, TransitionedType DEF Phases, VariantRows
  <2>2. variant' \in VariantRows
    BY <1>1, <1>5, <2>1 DEF Guard
  <2>3. wk' \in [Workers -> WorkerStates] /\ jobs' \in SUBSET Jobs
    BY <1>5, GotoType, ReturnType DEF Guard, PublishPcs
  <2> QED BY <1>5, <2>2, <2>3 DEF Guard, rowStep, TypeOK
<1>6. CASE Credentials(w)
  <2>1. wk' \in [Workers -> WorkerStates] /\ jobs' \in SUBSET Jobs
    BY <1>6, GotoType, ThrowType DEF Credentials, PublishPcs
  <2> QED BY <1>6, <2>1 DEF Credentials, accountStep, TypeOK, AccountStatuses
<1>7. CASE AuthFailure(w)
  <2>1. variant' \in VariantRows
    BY <1>1, <1>7 DEF AuthFailure, VariantRows, Statuses
  <2>2. attempts' \in Seq(AttemptRows)
    BY <1>7, ClosedType DEF AuthFailure, TypeOK, Results, Failures
  <2> QED BY <1>7, <2>1, <2>2, GotoType DEF AuthFailure, rowStep, TypeOK, PublishPcs
<1>8. CASE Reauth(w)
  BY <1>8, ReturnType DEF Reauth, accountStep, TypeOK, AccountStatuses
<1> QED BY <1>3, <1>4, <1>5, <1>6, <1>7, <1>8

\* the adapter call and its hooks
LEMMA AdapterType ==
  ASSUME TypeOK, NEW w \in Workers,
         \/ PublishFails(w) \/ PublishThrows(w) \/ OnRemotePrepared(w)
         \/ BeforeFinalMutation(w)
         \/ FinalMutation(w) \/ Poll(w)
  PROVE  TypeOK'
<1>1. /\ variant \in VariantRows /\ variant.status \in Statuses
      /\ wk[w] \in WorkerStates
      /\ wk[w].expectedVersion + 1 \in Nat
  BY DEF TypeOK, VariantRows, WorkerStates
<1>2. \A r \in Results : [wk[w] EXCEPT !.pc = "result", !.result = r] \in WorkerStates
  BY LocalsType DEF PublishPcs
<1>3. CASE PublishFails(w)
  <2>1. PreparationFailures \subseteq Results
    BY DEF PreparationFailures, linkedinGivesUp, linkedinRefusesInput,
           linkedinDocumentFails, linkedinVideoFails, linkedinImageFails, facebookGivesUp,
           imageGivesUp, reelGivesUp,
           youtubeGivesUp, Results, Failures
  <2>2. wk' \in [Workers -> WorkerStates] /\ jobs' \in SUBSET Jobs
    BY <1>2, <1>3, <2>1, ContinueType DEF PublishFails
  <2> QED BY <1>3, <2>2 DEF PublishFails, localStep, TypeOK
<1>4. CASE OnRemotePrepared(w)
  <2>1. Transitioned("CONTAINER_CREATED", variant.status) \in VariantRows
    BY <1>1, TransitionedType DEF Phases
  <2>2. variant' \in VariantRows
    BY <1>1, <1>4, <2>1 DEF OnRemotePrepared
  <2>3. [wk[w] EXCEPT
           !.expectedVersion = @ + 1, !.sourcePhase = "CONTAINER_CREATED",
           !.pc = IF adapter = "ig_image" THEN "final" ELSE "result",
           !.result = IF adapter = "ig_image" THEN "NONE" ELSE "PROCESSING"] \in WorkerStates
    BY <1>1 DEF WorkerStates, PublishPcs, Phases, Results
  <2>4. wk' \in [Workers -> WorkerStates] /\ jobs' \in SUBSET Jobs
    BY <1>4, <2>3, ContinueType, ReturnType DEF OnRemotePrepared
  <2> QED BY <1>4, <2>2, <2>4 DEF OnRemotePrepared, rowStep, TypeOK
<1>5. CASE BeforeFinalMutation(w)
  <2>1. Transitioned("PUBLISH_REQUESTED", variant.status) \in VariantRows
    BY <1>1, TransitionedType DEF Phases
  <2>2. variant' \in VariantRows
    BY <1>1, <1>5, <2>1 DEF BeforeFinalMutation
  <2>3. [wk[w] EXCEPT !.expectedVersion = @ + 1, !.pc = "mutate",
                      !.sourcePhase = "PUBLISH_REQUESTED"] \in WorkerStates
    BY <1>1 DEF WorkerStates, PublishPcs, Phases
  <2>4. [wk[w] EXCEPT !.pc = "result", !.result = "UNKNOWN_RESULT"] \in WorkerStates
    BY <1>2 DEF Results, Failures
  <2>5. wk' \in [Workers -> WorkerStates] /\ jobs' \in SUBSET Jobs
    BY <1>5, <2>3, <2>4, ContinueType, ReturnType DEF BeforeFinalMutation
  <2> QED BY <1>5, <2>2, <2>5 DEF BeforeFinalMutation, rowStep, TypeOK
<1>6. CASE FinalMutation(w)
  <2>1. \A a \in Answers : a.remote \in {"absent", "live", "removed"} /\ a.result \in Results
    BY DEF Answers, Accepted, Unclear, Refused, linkedinUnclear, facebookUnclear,
           instagramUnclear, youtubeUnclear, TypeOK, Results, Failures
  <2> PICK a \in Answers :
         /\ remote' = a.remote
         /\ Continue(w, [wk[w] EXCEPT !.pc = "result", !.result = a.result])
    BY <1>6 DEF FinalMutation
  <2>2. wk' \in [Workers -> WorkerStates] /\ jobs' \in SUBSET Jobs
    <3>1. [wk[w] EXCEPT !.pc = "result", !.result = a.result] \in WorkerStates
      BY <1>2, <2>1
    <3> QED BY <3>1, ContinueType
  <2>3. mutations' \in Nat
    <3>1. mutations \in Nat
      BY DEF TypeOK
    <3>2. mutations' = mutations + 1
      BY <1>6 DEF FinalMutation
    <3> QED BY <3>1, <3>2
  <2> QED BY <1>6, <2>1, <2>2, <2>3 DEF FinalMutation, TypeOK
<1>7. CASE Poll(w)
  <2>0. \/ \E r \in Results : Continue(w, [wk[w] EXCEPT !.pc = "result", !.result = r])
        \/ Goto(w, "final")
        \/ Throw(w)
    BY <1>7 DEF Poll, Results, Failures
  <2>1. wk' \in [Workers -> WorkerStates] /\ jobs' \in SUBSET Jobs
    BY <1>2, <2>0, ContinueType, GotoType, ThrowType DEF PublishPcs
  <2>2. used' \in [Bounds -> Nat]
    BY <1>7, SpendType DEF Poll, Bounds, TypeOK
  <2>3. remote' \in {"absent", "live", "removed"}
    BY <1>7 DEF Poll, TypeOK
  <2> QED BY <1>7, <2>1, <2>2, <2>3 DEF Poll, TypeOK
<1>8. CASE PublishThrows(w)
  <2>1. wk' \in [Workers -> WorkerStates] /\ jobs' \in SUBSET Jobs
    BY <1>8, GotoType, ThrowType DEF PublishThrows, PublishPcs
  <2> QED BY <1>8, <2>1 DEF PublishThrows, localStep, TypeOK
<1> QED BY <1>3, <1>4, <1>5, <1>6, <1>7, <1>8

\* recording the result
LEMMA ResultType ==
  ASSUME TypeOK, NEW w \in Workers,
         \/ ResultProcessing(w) \/ ResultSuccess(w) \/ Audit(w)
         \/ ResultUnknown(w) \/ ResultFailure(w) \/ Unknown(w)
  PROVE  TypeOK'
<1>1. /\ variant \in VariantRows /\ variant.status \in Statuses
      /\ wk[w].result \in Results
  BY DEF TypeOK, VariantRows, WorkerStates
<1>2. \A next \in Phases, status \in Statuses : Transitioned(next, status) \in VariantRows
  BY <1>1, TransitionedType
<1>3. \A c \in Results : Closed(wk[w].attempt, "FAILED", c) \in Seq(AttemptRows)
  BY ClosedType DEF TypeOK
<1>4. CASE ResultProcessing(w)
  <2>1. variant' \in VariantRows
    BY <1>1, <1>2, <1>4 DEF ResultProcessing, Phases
  <2>2. wk' \in [Workers -> WorkerStates] /\ jobs' \in SUBSET Jobs
    BY <1>4, GotoType, ReturnType DEF ResultProcessing, PublishPcs
  <2> QED BY <1>4, <2>1, <2>2 DEF ResultProcessing, rowStep, TypeOK
<1>5. CASE ResultSuccess(w)
  <2>1. Transitioned("COMPLETED", "PUBLISHED") \in VariantRows
    BY <1>2 DEF Phases, Statuses
  <2>2. [Transitioned("COMPLETED", "PUBLISHED") EXCEPT !.externalPostId = "provider"]
           \in VariantRows
    BY <2>1 DEF VariantRows
  <2>3. variant' \in VariantRows
    BY <1>1, <1>5, <2>2 DEF ResultSuccess
  <2>4. attempts' \in Seq(AttemptRows)
    BY <1>5, StatusType DEF ResultSuccess, TypeOK
  <2>5. wk' \in [Workers -> WorkerStates] /\ jobs' \in SUBSET Jobs
    BY <1>5, GotoType DEF ResultSuccess, PublishPcs
  <2> QED BY <1>5, <2>3, <2>4, <2>5 DEF ResultSuccess, rowStep, TypeOK
<1>6. CASE Audit(w)
  BY <1>6, ReturnType DEF Audit, localStep, TypeOK
<1>7. CASE ResultUnknown(w)
  <2>1. variant' \in VariantRows
    BY <1>1, <1>2, <1>7 DEF ResultUnknown, Phases, Statuses
  <2>2. attempts' \in Seq(AttemptRows)
    BY <1>3, <1>7 DEF ResultUnknown, Results, Failures, TypeOK
  <2>3. wk' \in [Workers -> WorkerStates] /\ jobs' \in SUBSET Jobs
    BY <1>7, ReturnType, ThrowType DEF ResultUnknown
  <2> QED BY <1>7, <2>1, <2>2, <2>3 DEF ResultUnknown, rowStep, TypeOK
<1>8. CASE ResultFailure(w)
  <2>1. variant' \in VariantRows
    BY <1>1, <1>2, <1>8 DEF ResultFailure, Phases, Statuses
  <2>2. attempts' \in Seq(AttemptRows)
    BY <1>1, <1>3, <1>8 DEF ResultFailure, TypeOK
  <2>3. wk' \in [Workers -> WorkerStates] /\ jobs' \in SUBSET Jobs
    BY <1>8, ReturnType, GotoType DEF ResultFailure, PublishPcs
  <2> QED BY <1>8, <2>1, <2>2, <2>3 DEF ResultFailure, rowStep, TypeOK
<1>9. CASE Unknown(w)
  <2>1. variant' \in VariantRows
    BY <1>1, <1>9 DEF Unknown, VariantRows, Statuses
  <2>2. attempts' \in Seq(AttemptRows)
    BY <1>3, <1>9 DEF Unknown, Results, Failures
  <2> QED BY <1>9, <2>1, <2>2, ReturnType DEF Unknown, rowStep, TypeOK
<1> QED BY <1>4, <1>5, <1>6, <1>7, <1>8, <1>9

\* Every step of processDelete keeps the types.
LEMMA DeleteType == ASSUME TypeOK, NEW w \in Workers, DeleteStep(w) PROVE TypeOK'
<1>1. variant \in VariantRows
  BY DEF TypeOK
<1>2. \A r \in Results : [wk[w] EXCEPT !.pc = "delRecord", !.result = r] \in WorkerStates
  BY LocalsType DEF DeletePcs
<1>3. CASE DeleteLoad(w)
  <2>1. variant' \in VariantRows
    BY <1>1, <1>3 DEF DeleteLoad, VariantRows, Statuses
  <2>2. Return(w) \/ Throw(w) \/ Goto(w, "delCreds")
    BY <1>3 DEF DeleteLoad
  <2>3. wk' \in [Workers -> WorkerStates] /\ jobs' \in SUBSET Jobs
    BY <2>2, ReturnType, ThrowType, GotoType DEF DeletePcs
  <2> QED BY <1>3, <2>1, <2>3 DEF DeleteLoad, rowStep, TypeOK
<1>4. CASE DeleteCredentials(w)
  <2>1. wk' \in [Workers -> WorkerStates] /\ jobs' \in SUBSET Jobs
    BY <1>4, ThrowType, GotoType DEF DeleteCredentials, DeletePcs
  <2> QED BY <1>4, <2>1 DEF DeleteCredentials, accountStep, TypeOK, AccountStatuses
<1>5. CASE DeleteCall(w)
  <2>1. \/ \E r \in Results : Continue(w, [wk[w] EXCEPT !.pc = "delRecord", !.result = r])
        \/ Goto(w, "delReauth")
        \/ Throw(w)
    BY <1>5 DEF DeleteCall, Results, Failures
  <2>2. wk' \in [Workers -> WorkerStates] /\ jobs' \in SUBSET Jobs
    BY <1>2, <2>1, ContinueType, GotoType, ThrowType DEF DeletePcs
  <2>3. remote' \in {"absent", "live", "removed"}
    BY <1>5 DEF DeleteCall, TypeOK
  <2> QED BY <1>5, <2>2, <2>3 DEF DeleteCall, TypeOK
<1>6. CASE DeleteReauth(w)
  <2>1. [wk[w] EXCEPT !.pc = "delRecord", !.result = "AUTH_REQUIRED"] \in WorkerStates
    BY <1>2 DEF Results, Failures
  <2>2. wk' \in [Workers -> WorkerStates] /\ jobs' \in SUBSET Jobs
    BY <1>6, <2>1, ContinueType DEF DeleteReauth
  <2> QED BY <1>6, <2>2 DEF DeleteReauth, accountStep, TypeOK, AccountStatuses
<1>7. CASE DeleteRecord(w)
  <2>1. variant' \in VariantRows
    BY <1>1, <1>7 DEF DeleteRecord, VariantRows, Statuses
  <2> QED BY <1>7, <2>1, ReturnType DEF DeleteRecord, rowStep, TypeOK
<1> QED BY <1>3, <1>4, <1>5, <1>6, <1>7 DEF DeleteStep

\* What a throwing database call makes of the slot
LEMMA DatabaseErrorCases ==
  ASSUME NEW w \in Workers, DatabaseError(w)
  PROVE  \/ Return(w) \/ Throw(w) \/ Goto(w, "unknown")
         \/ Continue(w, [wk[w] EXCEPT !.pc = "result", !.result = "UNKNOWN_RESULT"])
         \/ Continue(w, [wk[w] EXCEPT !.pc = "result", !.result = "TRANSIENT"])
BY DEF DatabaseError

\* A throwing database call keeps the types.
LEMMA DatabaseErrorType ==
  ASSUME TypeOK, NEW w \in Workers, DatabaseError(w) PROVE TypeOK'
<1>1. \A r \in Results : [wk[w] EXCEPT !.pc = "result", !.result = r] \in WorkerStates
  BY LocalsType DEF PublishPcs
<1>2. wk' \in [Workers -> WorkerStates] /\ jobs' \in SUBSET Jobs
  BY <1>1, DatabaseErrorCases, ReturnType, ThrowType, GotoType, ContinueType
  DEF PublishPcs, Results, Failures
<1>3. used' \in [Bounds -> Nat]
  BY SpendType DEF DatabaseError, Bounds
<1> QED BY <1>2, <1>3 DEF DatabaseError, TypeOK

\* Crashes, stalled jobs, heartbeats and clocks keep the types.
LEMMA EnvironmentType == ASSUME TypeOK, EnvironmentNext PROVE TypeOK'
<1>1. ASSUME NEW j \in jobs PROVE Stalled(j) \in Jobs
  <2>1. j \in Jobs /\ j.stalls + 1 \in Nat
    BY DEF TypeOK, Jobs
  <2> QED BY <2>1 DEF Stalled, Jobs
<1>2. CASE StallOrphan
  BY <1>1, <1>2 DEF StallOrphan, envUnchanged, TypeOK
<1>3. CASE StallPaused
  <2>1. used' \in [Bounds -> Nat]
    BY <1>3, SpendType DEF StallPaused, Bounds
  <2> QED BY <1>1, <1>3, <2>1 DEF StallPaused, envUnchanged, TypeOK
<1>4. ASSUME NEW i, Aged(i) PROVE attempts' \in Seq(AttemptRows)
  BY <1>4, FreshType DEF Aged, TypeOK
<1>5. CASE HeartbeatExpires
  BY <1>4, <1>5 DEF HeartbeatExpires, envUnchanged, TypeOK
<1>6. CASE HeartbeatMissed
  <2>1. used' \in [Bounds -> Nat]
    BY <1>6, SpendType DEF HeartbeatMissed, Bounds
  <2> QED BY <1>4, <1>6, <2>1 DEF HeartbeatMissed, envUnchanged, TypeOK
<1>7. ASSUME NEW w \in Workers, Heartbeat(w) PROVE TypeOK'
  <2>1. attempts' \in Seq(AttemptRows)
    BY <1>7, FreshType DEF Heartbeat, TypeOK
  <2> QED BY <1>7, <2>1 DEF Heartbeat, envUnchanged, TypeOK
<1>8. CASE ScheduleComesDue \/ CheckComesDue
  <2>1. variant' \in VariantRows
    BY <1>8 DEF ScheduleComesDue, CheckComesDue, TypeOK, VariantRows
  <2> QED BY <1>8, <2>1 DEF ScheduleComesDue, CheckComesDue, envUnchanged, TypeOK
<1>9. ASSUME NEW w \in Workers, Crash(w) PROVE TypeOK'
  <2>1. Idle \in WorkerStates
    BY DEF Idle, WorkerStates, PublishPcs, DeletePcs, Phases, Results, Failures
  <2>2. \A j \in Jobs : [j EXCEPT !.owner = NoWorker] \in Jobs
    BY DEF Jobs
  <2>3. wk' \in [Workers -> WorkerStates] /\ jobs' \in SUBSET Jobs
    BY <1>9, <2>1, <2>2 DEF Crash, TypeOK
  <2>4. used' \in [Bounds -> Nat]
    BY <1>9, SpendType DEF Crash, Bounds
  <2> QED BY <1>9, <2>3, <2>4 DEF Crash, TypeOK
<1> QED BY <1>2, <1>3, <1>5, <1>6, <1>7, <1>8, <1>9 DEF EnvironmentNext, TimePasses

-----------------------------------------------------------------------------
\* A new publication is well typed.
LEMMA InitType == Init => TypeOK
<1> SUFFICES ASSUME Init PROVE TypeOK
  OBVIOUS
<1>1. variant \in VariantRows
  BY DEF Init, VariantRows, Statuses, Phases
<1>2. wk \in [Workers -> WorkerStates]
  BY DEF Init, Idle, WorkerStates, PublishPcs, DeletePcs, Phases, Results, Failures
<1>3. scan \in [Scanners -> ScanStates]
  BY DEF Init, NoScan, ScanStates
<1> QED BY <1>1, <1>2, <1>3 DEF Init, TypeOK, AccountStatuses

\* Every step of the subsystem keeps the types.
LEMMA NextType == TypeOK /\ [Next]_vars => TypeOK'
<1> SUFFICES ASSUME TypeOK, [Next]_vars PROVE TypeOK'
  OBVIOUS
<1>1. CASE UNCHANGED vars
  BY <1>1 DEF vars, TypeOK
<1>2. CASE ApiNext
  BY <1>2, ApiType
<1>3. CASE DispatcherNext
  BY <1>3, DispatcherType
<1>4. CASE ProcessorNext
  <2> PICK w \in Workers : WorkerStep(w) \/ DatabaseError(w)
    BY <1>4 DEF ProcessorNext
  <2> QED BY TakeJobType, ClaimingType, AttemptingType, AdapterType, ResultType,
             DeleteType, DatabaseErrorType DEF WorkerStep, PublishStep
<1>5. CASE EnvironmentNext
  BY <1>5, EnvironmentType
<1> QED BY <1>1, <1>2, <1>3, <1>4, <1>5 DEF Next

\* Type correctness: every write of the API, the dispatcher, the workers and BullMQ
\* keeps the row, its attempts, the jobs and the slots within their types.
THEOREM TypeCorrect == Spec => []TypeOK
BY InitType, NextType, PTL DEF Spec
=============================================================================
