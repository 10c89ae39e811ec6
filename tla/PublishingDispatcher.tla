------------------------- MODULE PublishingDispatcher -------------------------
(***************************************************************************)
(* PublishingDispatcher.scan: every 15 seconds it reads the rows that      *)
(* need something and then acts on each.  A scan holds what it read in     *)
(* scan[d]; whatever happens between the read and the write happens here   *)
(* between two actions.                                                    *)
(***************************************************************************)
EXTENDS PublishingState

dispatcherUnchanged == UNCHANGED <<account, wk, reconciling, adapter, remote, mutations, used>>

\* a query of the scan: this row matched
Found(d, row) ==
  /\ scan[d] = NoScan
  /\ scan' = [scan EXCEPT ![d] = row]
  /\ UNCHANGED <<variant, attempts, jobs>>
  /\ dispatcherUnchanged

Handled(d, step) ==
  /\ scan[d].step = step
  /\ scan' = [scan EXCEPT ![d] = NoScan]
  /\ dispatcherUnchanged

\* promoteScheduled
ReadScheduled(d) ==
  /\ variant.status = "SCHEDULED" /\ variant.scheduledDue
  /\ Found(d, [NoScan EXCEPT !.step = "promote"])

\* its update checks the status and not scheduledAt
PromoteScheduled(d) ==
  /\ Handled(d, "promote")
  /\ variant' = IF variant.status = "SCHEDULED"
                  THEN [variant EXCEPT !.status = "QUEUED", !.dispatchVersion = @ + 1]
                  ELSE variant
  /\ UNCHANGED <<attempts, jobs>>

\* dispatchQueued
ReadQueued(d) ==
  /\ variant.status = "QUEUED"
  /\ Found(d, [NoScan EXCEPT !.step = "queued", !.version = variant.dispatchVersion])

\* mutant: the version before the one just read
DispatchQueued_MutOffByOne(d) ==
  /\ Handled(d, "queued")
  /\ Enqueue(NewJob("publish", scan[d].version - 1, 0))
  /\ UNCHANGED <<variant, attempts>>

DispatchQueued(d) ==
  /\ Handled(d, "queued")
  /\ Enqueue(NewJob("publish", scan[d].version, 0))
  /\ UNCHANGED <<variant, attempts>>

\* dispatchDeleting
ReadDeleting(d) ==
  /\ variant.status = "DELETING"
  /\ Found(d, [NoScan EXCEPT !.step = "deleting", !.version = variant.dispatchVersion])

DispatchDeleting(d) ==
  /\ Handled(d, "deleting")
  /\ Enqueue(NewJob("delete", scan[d].version, 0))
  /\ UNCHANGED <<variant, attempts>>

\* dispatchContinuations: polls that are due
ReadContinuation(d) ==
  /\ variant.status = "PUBLISHING" /\ variant.phase = "PROCESSING_REMOTE" /\ variant.checkDue
  /\ Found(d, [NoScan EXCEPT !.step = "continuation", !.version = variant.dispatchVersion,
                             !.operationId = variant.operationId])

DispatchContinuation(d) ==
  /\ Handled(d, "continuation")
  /\ Enqueue(NewJob("publish", scan[d].version, scan[d].operationId))
  /\ UNCHANGED <<variant, attempts>>

\* mutant: an operation past its checkpoint is skipped too
ReadStale_MutSkip(d) ==
  \E i \in DOMAIN attempts :
    /\ attempts[i].status = "PUBLISHING" /\ ~attempts[i].fresh
    /\ variant.phase \notin {"PROCESSING_REMOTE", "PUBLISH_REQUESTED"}
    /\ Found(d, [NoScan EXCEPT !.step = "stale", !.attempt = i,
                               !.hasMetadata = (variant.phase # "NONE")])

\* recoverStalePublishing: an open attempt whose heartbeat is older than 5 minutes,
\* unless the operation waits for the provider
ReadStale(d) ==
  \E i \in DOMAIN attempts :
    /\ attempts[i].status = "PUBLISHING" /\ ~attempts[i].fresh
    /\ variant.phase # "PROCESSING_REMOTE"
    /\ Found(d, [NoScan EXCEPT !.step = "stale", !.attempt = i,
                               !.hasMetadata = (variant.phase # "NONE")])

\* its transaction: CAS on status PUBLISHING, metadata from the read
RecoverStale(d) ==
  /\ Handled(d, "stale")
  /\ IF variant.status = "PUBLISHING"
       THEN /\ variant' = IF scan[d].hasMetadata
                            THEN Transitioned("AMBIGUOUS", "UNKNOWN")
                            ELSE [variant EXCEPT !.status = "UNKNOWN"]
            /\ attempts' = IF attempts[scan[d].attempt].status = "PUBLISHING"
                             THEN Closed(scan[d].attempt, "FAILED", "UNKNOWN_RESULT")
                             ELSE attempts
       ELSE UNCHANGED <<variant, attempts>>
  /\ UNCHANGED jobs

ReadStep(d) ==
  \/ ReadScheduled(d)
  \/ ReadQueued(d)
  \/ ReadDeleting(d)
  \/ ReadContinuation(d)
  \/ ReadStale(d)

WriteStep(d) ==
  \/ PromoteScheduled(d)
  \/ DispatchQueued(d)
  \/ DispatchDeleting(d)
  \/ DispatchContinuation(d)
  \/ RecoverStale(d)

\* the enqueue or the update throws: logged, the row is left for a later scan
ScanFails(d) ==
  /\ scan[d] # NoScan
  /\ scan' = [scan EXCEPT ![d] = NoScan]
  /\ Spend("faults")
  /\ UNCHANGED <<variant, attempts, account, jobs, wk, reconciling, adapter, remote, mutations>>

DispatcherNext == \E d \in Scanners : ReadStep(d) \/ WriteStep(d) \/ ScanFails(d)
=============================================================================
