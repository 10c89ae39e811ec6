---------------------------- MODULE PublishingApi ----------------------------
(***************************************************************************)
(* The lifecycle commands of PublishingApplicationService on one           *)
(* publication.  Each is a read-only validation followed by one atomic     *)
(* status update of PublishingRepository.transitionVariantState, so each   *)
(* is one action; reconcile computes what it writes from an earlier read   *)
(* and is two.                                                             *)
(***************************************************************************)
EXTENDS PublishingState

apiUnchanged == UNCHANGED <<attempts, account, jobs, wk, scan, reconciling, adapter,
                            remote, mutations>>

\* updateMany where status in expected: entering QUEUED bumps dispatchVersion
transitionVariantState(expected, newState) ==
  /\ \A s \in expected : canTransitionPublication(s, newState)
  /\ variant.status \in expected
  /\ variant' = [variant EXCEPT
       !.status = newState,
       !.dispatchVersion = IF newState = "QUEUED" THEN @ + 1 ELSE @]

\* requestPublish: PublishabilityValidator wants an ACTIVE account
RequestPublish ==
  /\ account = "ACTIVE"
  /\ transitionVariantState({"DRAFT", "SCHEDULED"}, "QUEUED")
  /\ Spend("requests")
  /\ apiUnchanged

\* requestRetry: executionMetadata is left as the failed run left it
RequestRetry ==
  /\ account = "ACTIVE"
  /\ transitionVariantState({"FAILED"}, "QUEUED")
  /\ Spend("requests")
  /\ apiUnchanged

\* mutant: the external id is not asked for
RequestRemoteDelete_MutNoId ==
  /\ transitionVariantState({"PUBLISHED", "FAILED", "UNKNOWN"}, "DELETING")
  /\ Spend("requests")
  /\ apiUnchanged

\* requestRemoteDelete: needs an external id; dispatchVersion does not move
RequestRemoteDelete ==
  /\ variant.externalPostId # "none"
  /\ transitionVariantState({"PUBLISHED", "FAILED", "UNKNOWN"}, "DELETING")
  /\ Spend("requests")
  /\ apiUnchanged

\* schedule: scheduledAt is in the future.  Its rollback after a failed
\* validation writes what Unschedule writes.
Schedule ==
  /\ variant.status = "DRAFT"
  /\ variant' = [variant EXCEPT !.status = "SCHEDULED", !.scheduledDue = FALSE]
  /\ Spend("requests")
  /\ apiUnchanged

\* reschedule: SCHEDULED to SCHEDULED, with a new time in the future
Reschedule ==
  /\ variant.status = "SCHEDULED"
  /\ variant' = [variant EXCEPT !.scheduledDue = FALSE]
  /\ Spend("requests")
  /\ apiUnchanged

Unschedule ==
  /\ variant.status = "SCHEDULED"
  /\ variant' = [variant EXCEPT !.status = "DRAFT", !.scheduledDue = FALSE]
  /\ Spend("requests")
  /\ apiUnchanged

CancelQueued ==
  /\ transitionVariantState({"QUEUED"}, "DRAFT")
  /\ Spend("requests")
  /\ apiUnchanged

-----------------------------------------------------------------------------
\* FAILED attempts with UNKNOWN_RESULT: reconcile insists on exactly one
Eligible == {i \in DOMAIN attempts : /\ attempts[i].status = "FAILED"
                                     /\ attempts[i].failureCategory = "UNKNOWN_RESULT"}

\* reconcile, up to its transaction: status and phase are checked on this read
ReconcileRead ==
  /\ variant.status = "UNKNOWN" /\ variant.phase = "AMBIGUOUS"
  /\ reconciling' = reconciling + 1
  /\ Spend("requests")
  /\ UNCHANGED <<variant, attempts, account, jobs, wk, scan, adapter, remote, mutations>>

\* the transaction: CAS on status UNKNOWN only, the phase comes from the read
ReconcileCommit(decision) ==
  /\ reconciling > 0
  /\ variant.status = "UNKNOWN"
  /\ Cardinality(Eligible) = 1
  /\ LET i == CHOOSE x \in Eligible : TRUE IN
     IF decision = "CONFIRM_PUBLISHED"
       THEN /\ variant' = [variant EXCEPT !.status = "PUBLISHED", !.phase = "COMPLETED",
                                 !.externalPostId = "operator", !.reconciled = TRUE]
            /\ attempts' = Closed(i, "SUCCESS", "NONE")
       ELSE /\ variant' = [variant EXCEPT !.status = "FAILED", !.phase = "FAILED",
                                          !.reconciled = TRUE]
            /\ attempts' = Closed(i, "FAILED", "PERMANENT")
  /\ reconciling' = reconciling - 1
  /\ UNCHANGED <<account, jobs, wk, scan, adapter, remote, mutations, used>>

\* the transaction rolls back: 409 to the operator
ReconcileConflict ==
  /\ reconciling > 0
  /\ variant.status # "UNKNOWN" \/ Cardinality(Eligible) # 1
  /\ reconciling' = reconciling - 1
  /\ UNCHANGED <<variant, attempts, account, jobs, wk, scan, adapter, remote, mutations, used>>

-----------------------------------------------------------------------------
\* SocialAccountRepository.disconnect
DisconnectAccount ==
  /\ account' = "DISCONNECTED"
  /\ account # "DISCONNECTED"
  /\ Spend("requests")
  /\ UNCHANGED <<variant, attempts, jobs, wk, scan, reconciling, adapter, remote, mutations>>

\* OAuth callback upserts the account ACTIVE again
ReconnectAccount ==
  /\ account # "ACTIVE"
  /\ account' = "ACTIVE"
  /\ Spend("requests")
  /\ UNCHANGED <<variant, attempts, jobs, wk, scan, reconciling, adapter, remote, mutations>>

ApiNext ==
  \/ RequestPublish
  \/ RequestRetry
  \/ RequestRemoteDelete
  \/ Schedule
  \/ Reschedule
  \/ Unschedule
  \/ CancelQueued
  \/ ReconcileRead
  \/ \E decision \in {"CONFIRM_PUBLISHED", "CONFIRM_FAILED"} : ReconcileCommit(decision)
  \/ ReconcileConflict
  \/ DisconnectAccount
  \/ ReconnectAccount
=============================================================================
