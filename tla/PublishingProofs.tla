-------------------------- MODULE PublishingProofs --------------------------
(***************************************************************************)
(* The safety of publishing for all constants: any number of workers,      *)
(* scans, crashes, retries and faults.  Fenced is inductive (relative to   *)
(* TypeOK) and implies the safety properties of Publishing.                *)
(*                                                                         *)
(* Nearly every step is quiet: it sends nothing, arms nobody, and moves    *)
(* the row in a way that leaves what the other slots know true.  QuietStep *)
(* does the work common to all of them; BeforeFinalMutation and            *)
(* FinalMutation are argued on their own.                                  *)
(*                                                                         *)
(* Settled, relative to Fenced, is what a FAILED phase and a DELETED       *)
(* status rest on; CalmStep plays the part of QuietStep there.             *)
(***************************************************************************)
EXTENDS PublishingTypes

\* how a quiet step may move the row
Advances(row, new, ad) ==
  /\ new.dispatchVersion >= row.dispatchVersion
  /\ new.phase # row.phase =>
       \/ new.phase \in TERMINAL_PHASES
       \/ /\ new.dispatchVersion > row.dispatchVersion
          /\ new.phase # "NONE"
          /\ \/ row.phase \in {"NONE", "INITIATED", "CONTAINER_CREATED"}
             \/ /\ row.phase = "PUBLISH_REQUESTED"
                /\ new.phase = "PROCESSING_REMOTE"
                /\ ad = "youtube"
  /\ new.operationId # row.operationId => row.phase = "NONE" /\ new.phase # "NONE"

\* what the slots know after a step that arms none of them
SlotsKnow ==
  \A v \in Workers : \/ wk'[v] = wk[v]
                     \/ /\ Knows(wk'[v], variant', mutations, adapter)
                        /\ wk'[v].pc # "mutate"

-----------------------------------------------------------------------------
(* What a slot knows is stable under the others' steps.                    *)

\* A step that advances the row and sends nothing leaves what a slot knows true.
LEMMA StillKnows ==
  ASSUME NEW r \in WorkerStates, NEW row \in VariantRows, NEW new \in VariantRows,
         NEW sent, NEW ad, Knows(r, row, sent, ad),
         new.dispatchVersion >= row.dispatchVersion,
         new.dispatchVersion = row.dispatchVersion =>
           new.phase \in {row.phase} \cup TERMINAL_PHASES
  PROVE  Knows(r, new, sent, ad)
<1>1. r.expectedVersion \in Nat /\ row.dispatchVersion \in Nat /\ new.dispatchVersion \in Nat
  BY DEF WorkerStates, VariantRows
<1>2. r.expectedVersion <= new.dispatchVersion
  BY <1>1 DEF Knows
<1>3. ASSUME NEW p, Sees(r, row, p) PROVE Sees(r, new, p)
  BY <1>1, <1>3 DEF Knows, Sees
<1> QED BY <1>2, <1>3 DEF Knows

\* The first final request leaves what a slot that is not about to send one knows true.
LEMMA KnowsAfterSend ==
  ASSUME NEW r \in WorkerStates, NEW row, NEW ad, Knows(r, row, 0, ad), r.pc # "mutate"
  PROVE  Knows(r, row, 1, ad)
BY DEF Knows

\* a slot that is between jobs, or past the result, relies on nothing
LEMMA KnowsNothing ==
  ASSUME NEW r, NEW row, NEW sent, NEW ad,
         r.expectedVersion <= row.dispatchVersion,
         r.pc \notin LoadedPcs \cup {"final", "mutate", "result"},
         r.pc \in FirstPcs => ~r.isContinuation
  PROVE  Knows(r, row, sent, ad)
BY DEF Knows, LoadedPcs

\* An idle slot relies on nothing.
LEMMA IdleKnows ==
  ASSUME NEW row \in VariantRows, NEW sent, NEW ad
  PROVE  Knows(Idle, row, sent, ad) /\ Idle.pc # "mutate"
BY DEF Knows, LoadedPcs, FirstPcs, Idle, VariantRows

\* A step that sends no final request and arms no slot keeps Fenced, once the row
\* advances and the parts of the invariant about the row hold after it.
LEMMA QuietStep ==
  ASSUME TypeOK, TypeOK', Fenced,
         Advances(variant, variant', adapter),
         adapter' = adapter, mutations' = mutations,
         SlotsKnow, PublishedCompleted', RemoteFollows'
  PROVE  Fenced'
<1>1. ASSUME NEW v \in Workers PROVE Knows(wk'[v], variant', mutations', adapter')
  <2>1. CASE wk'[v] = wk[v]
    <3>1. wk[v] \in WorkerStates /\ variant \in VariantRows /\ variant' \in VariantRows
      BY DEF TypeOK
    <3>2. Knows(wk[v], variant, mutations, adapter)
      BY DEF Fenced
    <3>3. /\ variant'.dispatchVersion >= variant.dispatchVersion
          /\ variant'.dispatchVersion = variant.dispatchVersion =>
               variant'.phase \in {variant.phase} \cup TERMINAL_PHASES
      BY <3>1 DEF Advances, VariantRows
    <3> QED BY <2>1, <3>1, <3>2, <3>3, StillKnows
  <2> QED BY <2>1 DEF SlotsKnow
<1>2. \A v \in Workers : wk'[v].pc = "mutate" => wk[v].pc = "mutate"
  BY DEF SlotsKnow
<1>3. Armed' => Armed
  BY <1>2 DEF Armed
<1>4. ArmedPhase'
  BY <1>3 DEF ArmedPhase, Fenced, Advances, TERMINAL_PHASES
<1>5. OneArmed'
  BY <1>2 DEF OneArmed, Fenced
<1>6. OperationHasPhase'
  BY DEF OperationHasPhase, Fenced, Advances, TERMINAL_PHASES
<1> QED BY <1>1, <1>4, <1>5, <1>6 DEF Fenced

\* a step that leaves the row, the provider and the counter alone
LEMMA LocalStep ==
  ASSUME TypeOK, TypeOK', Fenced, SlotsKnow,
         variant' = variant, remote' = remote, adapter' = adapter, mutations' = mutations
  PROVE  Fenced'
<1>1. Advances(variant, variant', adapter)
  BY DEF Advances, TypeOK, VariantRows
<1>2. PublishedCompleted' /\ RemoteFollows'
  BY DEF PublishedCompleted, RemoteFollows, Fenced
<1> QED BY <1>1, <1>2, QuietStep

\* a step that rewrites the row and leaves the provider and the counter alone
LEMMA RowStep ==
  ASSUME TypeOK, TypeOK', Fenced, SlotsKnow, Advances(variant, variant', adapter),
         remote' = remote, adapter' = adapter, mutations' = mutations,
         PublishedCompleted'
  PROVE  Fenced'
<1>1. RemoteFollows'
  BY DEF RemoteFollows, Fenced
<1> QED BY <1>1, QuietStep

\* only the user-visible half of the row changes, and not to PUBLISHED
LEMMA StatusOnly ==
  ASSUME TypeOK, Fenced, mutations' = mutations,
         variant'.phase = variant.phase,
         variant'.operationId = variant.operationId,
         variant'.externalPostId = variant.externalPostId,
         variant'.dispatchVersion \in {variant.dispatchVersion, variant.dispatchVersion + 1},
         variant'.status \in {variant.status} \cup (Statuses \ {"PUBLISHED"})
  PROVE  Advances(variant, variant', adapter) /\ PublishedCompleted'
<1>1. variant.dispatchVersion \in Nat
  BY DEF TypeOK, VariantRows
<1>2. Advances(variant, variant', adapter)
  BY <1>1 DEF Advances
<1>3. PublishedCompleted'
  BY DEF PublishedCompleted, Fenced
<1> QED BY <1>2, <1>3

\* the three ways a step of process() ends
LEMMA SlotReleased ==
  ASSUME TypeOK, TypeOK', NEW w \in Workers, Return(w) \/ Throw(w)
  PROVE  SlotsKnow
<1>1. wk' = [wk EXCEPT ![w] = Idle]
  BY DEF Return, Throw
<1>2. Knows(Idle, variant', mutations, adapter) /\ Idle.pc # "mutate"
  BY IdleKnows DEF TypeOK
<1> QED BY <1>1, <1>2 DEF SlotsKnow, TypeOK

\* One slot moves to a state it has grounds for, the others stay.
LEMMA SlotMoved ==
  ASSUME TypeOK, NEW w \in Workers, NEW new, Continue(w, new),
         Knows(new, variant', mutations, adapter), new.pc # "mutate"
  PROVE  SlotsKnow
BY DEF Continue, SlotsKnow, TypeOK

\* moving to a pc at which the slot relies on nothing
LEMMA SlotGoes ==
  ASSUME TypeOK, TypeOK', Fenced, NEW w \in Workers,
         NEW pc \in (PublishPcs \cup DeletePcs) \ (LoadedPcs \cup {"final", "mutate", "result"}),
         Goto(w, pc), Advances(variant, variant', adapter),
         pc \in FirstPcs => ~wk[w].isContinuation
  PROVE  SlotsKnow
<1> DEFINE new == [wk[w] EXCEPT !.pc = pc]
<1>1. /\ wk[w].expectedVersion \in Nat
      /\ variant.dispatchVersion \in Nat
      /\ variant'.dispatchVersion \in Nat
  BY DEF TypeOK, WorkerStates, VariantRows
<1>2. wk[w].expectedVersion <= variant'.dispatchVersion
  BY <1>1 DEF Fenced, Knows, Advances
<1>3. /\ new.pc = pc /\ new.expectedVersion = wk[w].expectedVersion
      /\ new.isContinuation = wk[w].isContinuation
  BY DEF TypeOK, WorkerStates
<1>4. Knows(new, variant', mutations, adapter) /\ new.pc # "mutate"
  <2> HIDE DEF new
  <2> QED BY <1>2, <1>3, KnowsNothing
<1> HIDE DEF new
<1>5. Continue(w, new)
  BY DEF Goto, new
<1> QED BY <1>4, <1>5, SlotMoved

\* the row a transitionOperation writes
LEMMA TransitionedFields ==
  ASSUME TypeOK, NEW next, NEW status
  PROVE  /\ Transitioned(next, status).phase = next
         /\ Transitioned(next, status).status = status
         /\ Transitioned(next, status).dispatchVersion = variant.dispatchVersion + 1
         /\ Transitioned(next, status).operationId = variant.operationId
         /\ Transitioned(next, status).externalPostId = variant.externalPostId
BY DEF Transitioned, TypeOK, VariantRows

-----------------------------------------------------------------------------
(* One lemma per process.                                                  *)

\* The API commands keep Fenced: they bump dispatchVersion or leave the phase, and
\* reconcile moves it only to a terminal one.
LEMMA ApiFenced ==
  ASSUME TypeOK, TypeOK', Fenced, ApiNext PROVE Fenced'
<1>1. /\ wk' = wk /\ remote' = remote /\ adapter' = adapter /\ mutations' = mutations
  BY DEF ApiNext, RequestPublish, RequestRetry, RequestRemoteDelete, Schedule, Reschedule,
         Unschedule, CancelQueued, ReconcileRead, ReconcileCommit, ReconcileConflict,
         DisconnectAccount, ReconnectAccount, apiUnchanged
<1>2. SlotsKnow
  BY <1>1 DEF SlotsKnow
<1>3. variant \in VariantRows
  BY DEF TypeOK
<1>4. CASE RequestPublish \/ RequestRetry \/ RequestRemoteDelete \/ CancelQueued
  <2>1. \/ transitionVariantState({"DRAFT", "SCHEDULED"}, "QUEUED")
        \/ transitionVariantState({"FAILED"}, "QUEUED")
        \/ transitionVariantState({"PUBLISHED", "FAILED", "UNKNOWN"}, "DELETING")
        \/ transitionVariantState({"QUEUED"}, "DRAFT")
    BY <1>4 DEF RequestPublish, RequestRetry, RequestRemoteDelete, CancelQueued
  <2>2. /\ variant'.phase = variant.phase
        /\ variant'.operationId = variant.operationId
        /\ variant'.externalPostId = variant.externalPostId
        /\ variant'.dispatchVersion \in {variant.dispatchVersion, variant.dispatchVersion + 1}
        /\ variant'.status \in {"QUEUED", "DELETING", "DRAFT"}
    BY <1>3, <2>1 DEF transitionVariantState, VariantRows
  <2>3. Advances(variant, variant', adapter) /\ PublishedCompleted'
    BY <1>1, <2>2, StatusOnly DEF Statuses
  <2> QED BY <1>1, <1>2, <2>3, RowStep
<1>5. CASE Schedule \/ Reschedule \/ Unschedule
  <2>1. /\ variant'.phase = variant.phase
        /\ variant'.operationId = variant.operationId
        /\ variant'.externalPostId = variant.externalPostId
        /\ variant'.dispatchVersion = variant.dispatchVersion
        /\ variant'.status \in {"SCHEDULED", "DRAFT"}
    BY <1>3, <1>5 DEF Schedule, Reschedule, Unschedule, VariantRows
  <2>2. Advances(variant, variant', adapter) /\ PublishedCompleted'
    BY <1>1, <2>1, StatusOnly DEF Statuses
  <2> QED BY <1>1, <1>2, <2>2, RowStep
<1>6. ASSUME NEW decision, ReconcileCommit(decision) PROVE Fenced'
  <2>1. /\ variant'.phase \in TERMINAL_PHASES
        /\ variant'.operationId = variant.operationId
        /\ variant'.dispatchVersion = variant.dispatchVersion
        /\ \/ /\ variant'.status = "PUBLISHED" /\ variant'.phase = "COMPLETED"
              /\ variant'.externalPostId = "operator"
           \/ variant'.status = "FAILED" /\ variant'.externalPostId = variant.externalPostId
    BY <1>3, <1>6 DEF ReconcileCommit, VariantRows, TERMINAL_PHASES
  <2>2. Advances(variant, variant', adapter)
    BY <1>3, <2>1 DEF Advances, VariantRows, TERMINAL_PHASES
  <2>3. PublishedCompleted'
    BY <1>1, <2>1 DEF PublishedCompleted, Fenced
  <2> QED BY <1>1, <1>2, <2>2, <2>3, RowStep
<1>7. CASE ReconcileRead \/ ReconcileConflict \/ DisconnectAccount \/ ReconnectAccount
  <2>1. variant' = variant
    BY <1>7 DEF ReconcileRead, ReconcileConflict, DisconnectAccount, ReconnectAccount
  <2> QED BY <1>1, <1>2, <2>1, LocalStep
<1> QED BY <1>4, <1>5, <1>6, <1>7 DEF ApiNext

\* The scans keep Fenced: recoverStalePublishing bumps dispatchVersion when it ends
\* an operation.
LEMMA DispatcherFenced ==
  ASSUME TypeOK, TypeOK', Fenced, DispatcherNext PROVE Fenced'
<1> PICK d \in Scanners : ReadStep(d) \/ WriteStep(d) \/ ScanFails(d)
  BY DEF DispatcherNext
<1>1. /\ wk' = wk /\ remote' = remote /\ adapter' = adapter /\ mutations' = mutations
  BY DEF ReadStep, ReadScheduled, ReadQueued, ReadDeleting, ReadContinuation, ReadStale,
         WriteStep, PromoteScheduled, DispatchQueued, DispatchDeleting,
         DispatchContinuation, RecoverStale, ScanFails, Found, Handled, dispatcherUnchanged
<1>2. SlotsKnow
  BY <1>1 DEF SlotsKnow
<1>3. variant \in VariantRows
  BY DEF TypeOK
<1>4. CASE PromoteScheduled(d)
  <2>1. /\ variant'.phase = variant.phase
        /\ variant'.operationId = variant.operationId
        /\ variant'.externalPostId = variant.externalPostId
        /\ variant'.dispatchVersion \in {variant.dispatchVersion, variant.dispatchVersion + 1}
        /\ variant'.status \in {variant.status, "QUEUED"}
    BY <1>3, <1>4 DEF PromoteScheduled, VariantRows
  <2>2. Advances(variant, variant', adapter) /\ PublishedCompleted'
    BY <1>1, <2>1, StatusOnly DEF Statuses
  <2> QED BY <1>1, <1>2, <2>2, RowStep
<1>5. CASE RecoverStale(d)
  <2>1. CASE variant' = Transitioned("AMBIGUOUS", "UNKNOWN")
    <3>1. /\ variant'.phase = "AMBIGUOUS" /\ variant'.status = "UNKNOWN"
          /\ variant'.operationId = variant.operationId
          /\ variant'.externalPostId = variant.externalPostId
          /\ variant'.dispatchVersion = variant.dispatchVersion + 1
      BY <2>1, TransitionedFields
    <3>2. Advances(variant, variant', adapter)
      BY <1>3, <3>1 DEF Advances, VariantRows, TERMINAL_PHASES
    <3>3. PublishedCompleted'
      BY <1>1, <3>1 DEF PublishedCompleted, Fenced
    <3> QED BY <1>1, <1>2, <3>2, <3>3, RowStep
  <2>2. CASE variant' = [variant EXCEPT !.status = "UNKNOWN"]
    <3>1. Advances(variant, variant', adapter) /\ PublishedCompleted'
      BY <1>1, <1>3, <2>2, StatusOnly DEF VariantRows, Statuses
    <3> QED BY <1>1, <1>2, <3>1, RowStep
  <2>3. CASE variant' = variant
    BY <1>1, <1>2, <2>3, LocalStep
  <2> QED BY <1>5, <2>1, <2>2, <2>3 DEF RecoverStale
<1>6. CASE ~PromoteScheduled(d) /\ ~RecoverStale(d)
  <2>1. variant' = variant
    BY <1>6 DEF ReadStep, ReadScheduled, ReadQueued, ReadDeleting, ReadContinuation,
                ReadStale, WriteStep, DispatchQueued, DispatchDeleting,
                DispatchContinuation, ScanFails, Found
  <2> QED BY <1>1, <1>2, <2>1, LocalStep
<1> QED BY <1>4, <1>5, <1>6

\* Crashes, stalled jobs, heartbeats and clocks keep Fenced: no phase moves.
LEMMA EnvironmentFenced ==
  ASSUME TypeOK, TypeOK', Fenced, EnvironmentNext PROVE Fenced'
<1>1. /\ remote' = remote /\ adapter' = adapter /\ mutations' = mutations
  BY DEF EnvironmentNext, TimePasses, StallOrphan, HeartbeatExpires, ScheduleComesDue,
         CheckComesDue, StallPaused, HeartbeatMissed, Crash, Heartbeat, envUnchanged
<1>2. CASE ScheduleComesDue \/ CheckComesDue
  <2>1. SlotsKnow
    BY <1>2 DEF ScheduleComesDue, CheckComesDue, envUnchanged, SlotsKnow
  <2>2. /\ variant'.phase = variant.phase
        /\ variant'.operationId = variant.operationId
        /\ variant'.externalPostId = variant.externalPostId
        /\ variant'.dispatchVersion = variant.dispatchVersion
        /\ variant'.status = variant.status
    BY <1>2 DEF ScheduleComesDue, CheckComesDue, TypeOK, VariantRows
  <2>3. Advances(variant, variant', adapter) /\ PublishedCompleted'
    BY <1>1, <2>2, StatusOnly
  <2> QED BY <1>1, <2>1, <2>3, RowStep
<1>3. ASSUME NEW w \in Workers, Crash(w) PROVE Fenced'
  <2>1. Knows(Idle, variant', mutations, adapter) /\ Idle.pc # "mutate"
    BY IdleKnows DEF TypeOK
  <2>2. SlotsKnow
    BY <1>3, <2>1 DEF Crash, SlotsKnow, TypeOK
  <2> QED BY <1>1, <1>3, <2>2, LocalStep DEF Crash
<1>4. CASE StallOrphan \/ HeartbeatExpires \/ StallPaused \/ HeartbeatMissed
             \/ \E w \in Workers : Heartbeat(w)
  <2>1. variant' = variant /\ wk' = wk
    BY <1>4 DEF StallOrphan, HeartbeatExpires, StallPaused, HeartbeatMissed, Heartbeat,
                envUnchanged
  <2>2. SlotsKnow
    BY <2>1 DEF SlotsKnow
  <2> QED BY <1>1, <2>1, <2>2, LocalStep
<1> QED BY <1>2, <1>3, <1>4 DEF EnvironmentNext, TimePasses

-----------------------------------------------------------------------------
(* The worker: its steps move nothing but its slot, its job, the row, its   *)
(* attempts and, at the provider, the content.                             *)

\* A slot that takes a job knows nothing of the row yet.
LEMMA TakeJobFenced ==
  ASSUME TypeOK, TypeOK', Fenced, NEW w \in Workers, TakeJob(w)
  PROVE  Fenced'
<1> PICK j \in jobs :
      /\ wk' = [wk EXCEPT ![w] = [Idle EXCEPT
                  !.pc = IF j.kind = "publish" THEN "load" ELSE "delLoad",
                  !.version = j.version, !.jobOperationId = j.operationId]]
      /\ localStep
  BY DEF TakeJob
<1>1. /\ wk'[w].pc \in {"load", "delLoad"} /\ wk'[w].expectedVersion = 0
      /\ wk'[w].isContinuation = FALSE
  BY DEF TypeOK, Idle
<1>2. wk'[w].expectedVersion <= variant'.dispatchVersion
  BY <1>1 DEF TypeOK, VariantRows
<1>3. Knows(wk'[w], variant', mutations, adapter) /\ wk'[w].pc # "mutate"
  BY ONLY <1>1, <1>2, KnowsNothing DEF LoadedPcs, FirstPcs
<1>4. SlotsKnow
  BY <1>3 DEF SlotsKnow, TypeOK
<1> QED BY <1>4, LocalStep DEF localStep

\* Load, the fences, the claim and startOperation keep Fenced: what the slot learns of
\* the phase it learns together with the version.
LEMMA ClaimingFenced ==
  ASSUME TypeOK, TypeOK', Fenced, NEW w \in Workers,
         Load(w) \/ Fence(w) \/ FenceAttempt(w) \/ Claim(w) \/ Start(w)
  PROVE  Fenced'
<1>1. remote' = remote /\ adapter' = adapter /\ mutations' = mutations
  BY DEF Load, Fence, FenceAttempt, Claim, Start, localStep, rowStep
<1>2. /\ variant \in VariantRows /\ wk[w] \in WorkerStates
      /\ variant.dispatchVersion \in Nat
      /\ wk[w].expectedVersion <= variant.dispatchVersion
  BY DEF TypeOK, VariantRows, Fenced, Knows
<1>3. CASE Load(w)
  <2>1. variant' = variant
    BY <1>3 DEF Load, localStep
  <2>2. Advances(variant, variant', adapter)
    BY <1>2, <2>1 DEF Advances
  <2>3. CASE Return(w)
    BY <1>1, <2>1, <2>3, SlotReleased, LocalStep
  <2>4. ASSUME NEW c \in FenceCategories,
               Continue(w, [wk[w] EXCEPT !.pc = "fence", !.result = c])
        PROVE  Fenced'
    <3> DEFINE new == [wk[w] EXCEPT !.pc = "fence", !.result = c]
    <3>1. new.pc = "fence" /\ new.expectedVersion = wk[w].expectedVersion
      BY <1>2 DEF WorkerStates
    <3>2. Continue(w, new)
      BY <2>4
    <3> HIDE DEF new
    <3>3. Knows(new, variant', mutations, adapter) /\ new.pc # "mutate"
      BY <1>2, <2>1, <3>1, KnowsNothing DEF LoadedPcs, FirstPcs
    <3> QED BY <1>1, <2>1, <3>2, <3>3, SlotMoved, LocalStep
  <2>5. CASE Goto(w, "claim")
    <3>1. SlotsKnow
      BY <1>3, <2>2, <2>5, SlotGoes DEF PublishPcs, LoadedPcs, FirstPcs, Load, At, Fenced, Knows
    <3> QED BY <1>1, <2>1, <3>1, LocalStep
  <2>6. CASE /\ ~StaleJob(w)
             /\ Continue(w, [wk[w] EXCEPT !.pc = "attempt", !.isContinuation = TRUE,
                     !.operationId = variant.operationId, !.expectedVersion = wk[w].version,
                     !.sourcePhase = "PROCESSING_REMOTE", !.loadedPhase = variant.phase])
    <3> DEFINE new == [wk[w] EXCEPT !.pc = "attempt", !.isContinuation = TRUE,
                     !.operationId = variant.operationId, !.expectedVersion = wk[w].version,
                     !.sourcePhase = "PROCESSING_REMOTE", !.loadedPhase = variant.phase]
    <3>1. /\ new.pc = "attempt" /\ new.isContinuation /\ new.sourcePhase = "PROCESSING_REMOTE"
          /\ new.loadedPhase = variant.phase /\ new.expectedVersion = wk[w].version
      BY <1>2 DEF WorkerStates
    <3>2. Continue(w, new)
      BY <2>6
    <3>3. wk[w].version = variant.dispatchVersion
      BY <2>6 DEF StaleJob
    <3> HIDE DEF new
    <3>4. Knows(new, variant', mutations, adapter) /\ new.pc # "mutate"
      BY <1>2, <2>1, <3>1, <3>3 DEF Knows, Sees, LoadedPcs, FirstPcs
    <3> QED BY <1>1, <2>1, <3>2, <3>4, SlotMoved, LocalStep
  <2> QED BY <1>3, <2>3, <2>4, <2>5, <2>6 DEF Load
<1>4. CASE Fence(w)
  <2>1. Advances(variant, variant', adapter) /\ PublishedCompleted'
    BY <1>1, <1>2, <1>4, StatusOnly DEF Fence, VariantRows, Statuses
  <2>2. SlotsKnow
    BY <1>4, <2>1, SlotGoes DEF Fence, PublishPcs, LoadedPcs, FirstPcs
  <2> QED BY <1>1, <2>1, <2>2, RowStep
<1>5. CASE FenceAttempt(w)
  BY <1>1, <1>5, SlotReleased, LocalStep DEF FenceAttempt
<1>6. CASE Claim(w)
  <2>1. CASE variant' = [variant EXCEPT !.status = "PUBLISHING"] /\ Goto(w, "start")
    <3>1. Advances(variant, variant', adapter) /\ PublishedCompleted'
      BY <1>1, <1>2, <2>1, StatusOnly DEF VariantRows, Statuses
    <3>2. SlotsKnow
      BY <1>6, <2>1, <3>1, SlotGoes DEF PublishPcs, LoadedPcs, FirstPcs, Claim, At, Fenced, Knows
    <3> QED BY <1>1, <3>1, <3>2, RowStep
  <2>2. CASE variant' = variant /\ Return(w)
    BY <1>1, <2>2, SlotReleased, LocalStep
  <2> QED BY <1>6, <2>1, <2>2 DEF Claim
<1>7. CASE Start(w)
  <2>1. CASE CanStart
    <3> DEFINE new == [wk[w] EXCEPT !.pc = "attempt",
                  !.operationId = variant.operationId + 1,
                  !.expectedVersion = variant.dispatchVersion + 1,
                  !.sourcePhase = "INITIATED", !.loadedPhase = "INITIATED"]
    <3>1. /\ variant'.phase = "INITIATED" /\ variant'.status = variant.status
          /\ variant'.dispatchVersion = variant.dispatchVersion + 1
          /\ variant'.externalPostId = variant.externalPostId
      BY <1>2, <1>7, <2>1 DEF Start, VariantRows
    <3>2. variant.phase = "NONE"
      BY <2>1 DEF CanStart
    <3>3. Advances(variant, variant', adapter)
      BY <1>2, <3>1, <3>2 DEF Advances
    <3>4. PublishedCompleted'
      BY <1>1, <3>1, <3>2 DEF PublishedCompleted, Fenced
    <3>5. /\ new.pc = "attempt" /\ new.loadedPhase = "INITIATED"
          /\ new.expectedVersion = variant.dispatchVersion + 1
          /\ new.isContinuation = wk[w].isContinuation
      BY <1>2 DEF WorkerStates
    <3>6. Continue(w, new)
      BY <1>7, <2>1 DEF Start
    <3>7. ~wk[w].isContinuation
      BY <1>7 DEF Start, At, Fenced, Knows, FirstPcs
    <3> HIDE DEF new
    <3>8. Knows(new, variant', mutations, adapter) /\ new.pc # "mutate"
      BY <1>2, <3>1, <3>5, <3>7 DEF Knows, Sees, LoadedPcs, FirstPcs
    <3> QED BY <1>1, <3>3, <3>4, <3>6, <3>8, SlotMoved, RowStep
  <2>2. CASE ~CanStart
    BY <1>1, <1>7, <2>2, SlotReleased, LocalStep DEF Start
  <2> QED BY <2>1, <2>2
<1> QED BY <1>3, <1>4, <1>5, <1>6, <1>7

\* Attempt, retry guard and credentials keep Fenced: only the guard writes the phase.
LEMMA AttemptingFenced ==
  ASSUME TypeOK, TypeOK', Fenced, NEW w \in Workers,
         \/ FindAttempt(w) \/ CreateAttempt(w) \/ Guard(w)
         \/ Credentials(w) \/ AuthFailure(w) \/ Reauth(w)
  PROVE  Fenced'
<1>1. remote' = remote /\ adapter' = adapter /\ mutations' = mutations
  BY DEF FindAttempt, CreateAttempt, Guard, Credentials, AuthFailure, Reauth, rowStep,
         accountStep
<1>2. /\ variant \in VariantRows /\ wk[w] \in WorkerStates
      /\ variant.dispatchVersion \in Nat
      /\ Knows(wk[w], variant, mutations, adapter)
  BY DEF TypeOK, VariantRows, Fenced
\* what the slot knew of the loaded phase it still knows at the next pc
<1>3. ASSUME NEW new,
             wk[w].pc \in {"attempt", "create", "creds"},
             new.pc \in {"create", "guard", "creds", "publish", "poll"},
             new.loadedPhase = wk[w].loadedPhase,
             new.expectedVersion = wk[w].expectedVersion,
             new.isContinuation = wk[w].isContinuation,
             new.sourcePhase = wk[w].sourcePhase,
             new.pc = "publish" => new.loadedPhase # "PROCESSING_REMOTE",
             new.pc = "poll" => new.isContinuation,
             Continue(w, new), variant' = variant
      PROVE  Fenced'
  <2>1. Knows(new, variant', mutations, adapter) /\ new.pc # "mutate"
    BY <1>2, <1>3 DEF Knows, Sees, LoadedPcs, FirstPcs
  <2> QED BY <1>1, <1>3, <2>1, SlotMoved, LocalStep
<1>4. CASE FindAttempt(w)
  <2>1. CASE Goto(w, "create")
    <3> DEFINE new == [wk[w] EXCEPT !.pc = "create"]
    <3>1. /\ new.pc = "create" /\ new.loadedPhase = wk[w].loadedPhase
          /\ new.expectedVersion = wk[w].expectedVersion
          /\ new.isContinuation = wk[w].isContinuation
          /\ new.sourcePhase = wk[w].sourcePhase
      BY <1>2 DEF WorkerStates
    <3>2. Continue(w, new) /\ wk[w].pc = "attempt" /\ variant' = variant
      BY <1>4, <2>1 DEF FindAttempt, At, Goto
    <3> HIDE DEF new
    <3> QED BY <1>3, <3>1, <3>2
  <2>2. ASSUME NEW i, Continue(w, [wk[w] EXCEPT !.pc = AfterAttempt(w), !.attempt = i])
        PROVE  Fenced'
    <3> DEFINE new == [wk[w] EXCEPT !.pc = AfterAttempt(w), !.attempt = i]
    <3>1. /\ new.pc \in {"guard", "creds"} /\ new.loadedPhase = wk[w].loadedPhase
          /\ new.expectedVersion = wk[w].expectedVersion
          /\ new.isContinuation = wk[w].isContinuation
          /\ new.sourcePhase = wk[w].sourcePhase
      BY <1>2 DEF WorkerStates, AfterAttempt
    <3>2. Continue(w, new) /\ wk[w].pc = "attempt" /\ variant' = variant
      BY <1>4, <2>2 DEF FindAttempt, At
    <3> HIDE DEF new
    <3> QED BY <1>3, <3>1, <3>2
  <2> QED BY <1>4, <2>1, <2>2 DEF FindAttempt
<1>5. CASE CreateAttempt(w)
  <2> DEFINE new == [wk[w] EXCEPT !.pc = AfterAttempt(w), !.attempt = Len(attempts) + 1]
  <2>1. /\ new.pc \in {"guard", "creds"} /\ new.loadedPhase = wk[w].loadedPhase
        /\ new.expectedVersion = wk[w].expectedVersion
        /\ new.isContinuation = wk[w].isContinuation
        /\ new.sourcePhase = wk[w].sourcePhase
    BY <1>2 DEF WorkerStates, AfterAttempt
  <2>2. Continue(w, new) /\ wk[w].pc = "create" /\ variant' = variant
    BY <1>5 DEF CreateAttempt, At
  <2> HIDE DEF new
  <2> QED BY <1>3, <2>1, <2>2
<1>6. CASE Guard(w)
  <2>1. CASE CanTransition(w, "PUBLISH_REQUESTED", "AMBIGUOUS")
    <3>1. /\ variant'.phase = "AMBIGUOUS" /\ variant'.status = variant.status
          /\ variant'.operationId = variant.operationId
          /\ variant'.externalPostId = variant.externalPostId
          /\ variant'.dispatchVersion = variant.dispatchVersion + 1
      BY <1>6, <2>1, TransitionedFields DEF Guard
    <3>2. Advances(variant, variant', adapter)
      BY <1>2, <3>1 DEF Advances, TERMINAL_PHASES
    <3>3. PublishedCompleted'
      BY <1>1, <2>1, <3>1 DEF PublishedCompleted, Fenced, CanTransition
    <3>4. SlotsKnow
      BY <1>6, <2>1, <3>2, SlotGoes DEF Guard, PublishPcs, LoadedPcs, FirstPcs
    <3> QED BY <1>1, <3>2, <3>3, <3>4, RowStep
  <2>2. CASE ~CanTransition(w, "PUBLISH_REQUESTED", "AMBIGUOUS")
    BY <1>1, <1>6, <2>2, SlotReleased, LocalStep DEF Guard
  <2> QED BY <2>1, <2>2
<1>7. CASE Credentials(w)
  <2>1. variant' = variant /\ wk[w].pc = "creds"
    BY <1>7 DEF Credentials, accountStep, At
  <2>2. CASE Goto(w, IF wk[w].isContinuation /\ wk[w].loadedPhase = "PROCESSING_REMOTE"
                       THEN "poll" ELSE "publish")
    <3> DEFINE pc == IF wk[w].isContinuation /\ wk[w].loadedPhase = "PROCESSING_REMOTE"
                       THEN "poll" ELSE "publish"
               new == [wk[w] EXCEPT !.pc = pc]
    <3>1. /\ new.pc = pc /\ new.loadedPhase = wk[w].loadedPhase
          /\ new.expectedVersion = wk[w].expectedVersion
          /\ new.isContinuation = wk[w].isContinuation
          /\ new.sourcePhase = wk[w].sourcePhase
      BY <1>2 DEF WorkerStates
    <3>2. Continue(w, new)
      BY <2>2 DEF Goto
    <3>3. ~wk[w].isContinuation => wk[w].loadedPhase = "INITIATED"
      BY <1>2, <2>1 DEF Knows, LoadedPcs
    <3> HIDE DEF new
    <3> QED BY <1>3, <2>1, <3>1, <3>2, <3>3
  <2>3. CASE Goto(w, "authFailure")
    <3>1. Advances(variant, variant', adapter)
      BY <1>2, <2>1 DEF Advances
    <3>2. SlotsKnow
      BY <2>3, <3>1, SlotGoes DEF PublishPcs, LoadedPcs, FirstPcs
    <3> QED BY <1>1, <2>1, <3>2, LocalStep
  <2>4. CASE Throw(w)
    BY <1>1, <2>1, <2>4, SlotReleased, LocalStep
  <2> QED BY <1>7, <2>2, <2>3, <2>4 DEF Credentials
<1>8. CASE AuthFailure(w)
  <2>1. Advances(variant, variant', adapter) /\ PublishedCompleted'
    BY <1>1, <1>2, <1>8, StatusOnly DEF AuthFailure, VariantRows, Statuses
  <2>2. SlotsKnow
    BY <1>8, <2>1, SlotGoes DEF AuthFailure, PublishPcs, LoadedPcs, FirstPcs
  <2> QED BY <1>1, <2>1, <2>2, RowStep
<1>9. CASE Reauth(w)
  BY <1>1, <1>9, SlotReleased, LocalStep DEF Reauth, accountStep
<1> QED BY <1>4, <1>5, <1>6, <1>7, <1>8, <1>9

\* The adapter call up to the checkpoint
LEMMA PreparingFenced ==
  ASSUME TypeOK, TypeOK', Fenced, NEW w \in Workers,
         PublishFails(w) \/ PublishThrows(w) \/ OnRemotePrepared(w) \/ Poll(w)
  PROVE  Fenced'
<1>1. adapter' = adapter /\ mutations' = mutations
  BY DEF PublishFails, PublishThrows, OnRemotePrepared, Poll, localStep, rowStep
<1>2. /\ variant \in VariantRows /\ wk[w] \in WorkerStates
      /\ variant.dispatchVersion \in Nat
      /\ Knows(wk[w], variant, mutations, adapter)
  BY DEF TypeOK, VariantRows, Fenced
<1>3. CASE PublishFails(w)
  <2> PICK c \in PreparationFailures :
        Continue(w, [wk[w] EXCEPT !.pc = "result", !.result = c])
    BY <1>3 DEF PublishFails
  <2> DEFINE new == [wk[w] EXCEPT !.pc = "result", !.result = c]
  <2>1. /\ new.pc = "result" /\ new.result = c
        /\ new.expectedVersion = wk[w].expectedVersion
    BY <1>2 DEF WorkerStates
  <2>2. c \notin {"PROCESSING", "SUCCESS"}
    BY DEF PreparationFailures, linkedinGivesUp, linkedinRefusesInput,
           linkedinDocumentFails, linkedinVideoFails, linkedinImageFails, facebookGivesUp,
           imageGivesUp, reelGivesUp,
           youtubeGivesUp
  <2>3. Continue(w, new)
    OBVIOUS
  <2>4. variant' = variant /\ remote' = remote
    BY <1>3 DEF PublishFails, localStep
  <2> HIDE DEF new
  <2>5. Knows(new, variant', mutations, adapter) /\ new.pc # "mutate"
    BY <1>2, <2>1, <2>2, <2>4 DEF Knows, LoadedPcs, FirstPcs
  <2> QED BY <1>1, <2>3, <2>4, <2>5, SlotMoved, LocalStep
<1>4. CASE OnRemotePrepared(w)
  <2>1. remote' = remote
    BY <1>4 DEF OnRemotePrepared, rowStep
  <2>2. CASE adapter # "ig_carousel" /\ CanTransition(w, variant.phase, "CONTAINER_CREATED")
    <3> DEFINE new == [wk[w] EXCEPT
                 !.expectedVersion = @ + 1, !.sourcePhase = "CONTAINER_CREATED",
                 !.pc = IF adapter = "ig_image" THEN "final" ELSE "result",
                 !.result = IF adapter = "ig_image" THEN "NONE" ELSE "PROCESSING"]
    <3>1. /\ variant'.phase = "CONTAINER_CREATED" /\ variant'.status = variant.status
          /\ variant'.operationId = variant.operationId
          /\ variant'.externalPostId = variant.externalPostId
          /\ variant'.dispatchVersion = variant.dispatchVersion + 1
      BY <1>4, <2>2, TransitionedFields DEF OnRemotePrepared
    <3>2. /\ variant.phase \in {"INITIATED", "CONTAINER_CREATED"}
          /\ wk[w].expectedVersion = variant.dispatchVersion
      BY <1>2, <2>2 DEF CanTransition, ALLOWED_TRANSITIONS, VariantRows, Phases
    <3>3. Advances(variant, variant', adapter)
      BY <1>2, <3>1, <3>2 DEF Advances
    <3>4. PublishedCompleted'
      BY <1>1, <3>1, <3>2 DEF PublishedCompleted, Fenced
    <3>5. /\ new.expectedVersion = variant.dispatchVersion + 1
          /\ new.sourcePhase = "CONTAINER_CREATED"
          /\ \/ new.pc = "final" /\ adapter = "ig_image"
             \/ new.pc = "result" /\ new.result = "PROCESSING"
      BY <1>2, <3>2 DEF WorkerStates
    <3>6. Continue(w, new)
      BY <1>4, <2>2 DEF OnRemotePrepared
    <3> HIDE DEF new
    <3>7. Knows(new, variant', mutations, adapter) /\ new.pc # "mutate"
      BY <1>2, <3>1, <3>5 DEF Knows, LoadedPcs, FirstPcs
    <3> QED BY <1>1, <2>1, <3>3, <3>4, <3>6, <3>7, SlotMoved, RowStep
  <2>3. CASE ~(adapter # "ig_carousel" /\ CanTransition(w, variant.phase, "CONTAINER_CREATED"))
    BY <1>1, <1>4, <2>1, <2>3, SlotReleased, LocalStep DEF OnRemotePrepared
  <2> QED BY <2>2, <2>3
<1>5. CASE Poll(w)
  <2>1. variant' = variant
    BY <1>5 DEF Poll
  <2>2. Advances(variant, variant', adapter)
    BY <1>2, <2>1 DEF Advances
  <2>3. PublishedCompleted'
    BY <1>1, <2>1 DEF PublishedCompleted, Fenced
  <2>4. RemoteFollows'
    BY <1>1, <1>5 DEF RemoteFollows, Fenced, Poll
  <2>5. wk[w].sourcePhase = "PROCESSING_REMOTE"
    BY <1>2, <1>5 DEF Knows, LoadedPcs, Poll, At
  <2>6. ASSUME NEW r, Continue(w, [wk[w] EXCEPT !.pc = "result", !.result = r]),
               r = "SUCCESS" => remote = "live"
        PROVE  SlotsKnow
    <3> DEFINE new == [wk[w] EXCEPT !.pc = "result", !.result = r]
    <3>1. /\ new.pc = "result" /\ new.result = r
          /\ new.sourcePhase = "PROCESSING_REMOTE"
          /\ new.expectedVersion = wk[w].expectedVersion
      BY <1>2, <2>5 DEF WorkerStates
    <3>2. r = "SUCCESS" => mutations = 1
      BY <2>6 DEF Fenced, RemoteFollows
    <3>3. Continue(w, new)
      BY <2>6
    <3> HIDE DEF new
    <3>4. Knows(new, variant', mutations, adapter) /\ new.pc # "mutate"
      BY <1>2, <2>1, <3>1, <3>2 DEF Knows, LoadedPcs, FirstPcs
    <3> QED BY <3>3, <3>4, SlotMoved
  <2>7. ASSUME Goto(w, "final"), adapter = "ig_reel" PROVE SlotsKnow
    <3> DEFINE new == [wk[w] EXCEPT !.pc = "final"]
    <3>1. new.pc = "final" /\ new.expectedVersion = wk[w].expectedVersion
      BY <1>2 DEF WorkerStates
    <3>2. Continue(w, new)
      BY <2>7 DEF Goto
    <3> HIDE DEF new
    <3>3. Knows(new, variant', mutations, adapter) /\ new.pc # "mutate"
      BY <1>2, <2>1, <2>7, <3>1 DEF Knows, LoadedPcs, FirstPcs
    <3> QED BY <3>2, <3>3, SlotMoved
  <2>8. SlotsKnow
    <3> DEFINE Ends(r) == Continue(w, [wk[w] EXCEPT !.pc = "result", !.result = r])
    <3>1. \/ remote = "live" /\ Ends("SUCCESS")
          \/ Ends("AMBIGUOUS_PUBLISHED_CONTAINER")
          \/ Goto(w, "final") /\ adapter = "ig_reel"
          \/ Ends("PERMANENT")
          \/ Ends("PROCESSING")
          \/ Throw(w)
      BY <1>5 DEF Poll, checkStatus, instagramStatus, youtubeStatus
    <3>2. ASSUME NEW r \in {"AMBIGUOUS_PUBLISHED_CONTAINER", "PERMANENT", "PROCESSING"}, Ends(r)
          PROVE  SlotsKnow
      BY <2>6, <3>2
    <3>3. ASSUME remote = "live", Ends("SUCCESS") PROVE SlotsKnow
      BY <2>6, <3>3
    <3> HIDE DEF Ends
    <3> QED BY <2>7, <3>1, <3>2, <3>3, SlotReleased
  <2> QED BY <1>1, <2>2, <2>3, <2>4, <2>8, QuietStep
<1>6. CASE PublishThrows(w)
  <2>1. variant' = variant /\ remote' = remote
    BY <1>6 DEF PublishThrows, localStep
  <2>2. Advances(variant, variant', adapter)
    BY <1>2, <2>1 DEF Advances
  <2>3. ASSUME Goto(w, "unknown") PROVE SlotsKnow
    BY <2>2, <2>3, SlotGoes DEF PublishPcs, LoadedPcs, FirstPcs
  <2>4. SlotsKnow
    BY <1>6, <2>2, <2>3, SlotReleased DEF PublishThrows
  <2> QED BY <1>1, <2>1, <2>4, LocalStep
<1> QED BY <1>3, <1>4, <1>5, <1>6

\* The checkpoint.  The slot passes it only from a phase that excludes an earlier
\* request; from then on the row is PUBLISH_REQUESTED and nobody else can follow.
LEMMA CheckpointFenced ==
  ASSUME TypeOK, TypeOK', Fenced, NEW w \in Workers, BeforeFinalMutation(w)
  PROVE  Fenced'
<1>1. remote' = remote /\ adapter' = adapter /\ mutations' = mutations
  BY DEF BeforeFinalMutation, rowStep
<1>2. /\ variant \in VariantRows /\ variant' \in VariantRows /\ wk[w] \in WorkerStates
      /\ variant.dispatchVersion \in Nat
      /\ Knows(wk[w], variant, mutations, adapter)
  BY DEF TypeOK, VariantRows, Fenced
<1>3. CASE CanTransition(w, variant.phase, "PUBLISH_REQUESTED")
  <2> DEFINE new == [wk[w] EXCEPT !.expectedVersion = @ + 1, !.pc = "mutate",
                                  !.sourcePhase = "PUBLISH_REQUESTED"]
  <2>1. /\ variant'.phase = "PUBLISH_REQUESTED" /\ variant'.status = variant.status
        /\ variant'.operationId = variant.operationId
        /\ variant'.externalPostId = variant.externalPostId
        /\ variant'.dispatchVersion = variant.dispatchVersion + 1
    BY <1>3, TransitionedFields DEF BeforeFinalMutation
  <2>2. /\ variant.phase \in {"INITIATED", "CONTAINER_CREATED", "PROCESSING_REMOTE"}
        /\ wk[w].expectedVersion = variant.dispatchVersion
    BY <1>2, <1>3 DEF CanTransition, ALLOWED_TRANSITIONS, VariantRows, Phases
  <2>3. ~Armed
    <3>1. CASE wk[w].pc = "final"
      BY <1>2, <2>2, <3>1 DEF Knows, Fenced, ArmedPhase
    <3>2. CASE wk[w].pc = "publish"
      <4>1. variant.phase \in {wk[w].loadedPhase} \cup TERMINAL_PHASES
        BY <1>2, <2>2, <3>2 DEF Knows, Sees, LoadedPcs
      <4>2. variant.phase # "PROCESSING_REMOTE"
        BY <1>2, <3>2, <4>1 DEF Knows, TERMINAL_PHASES
      <4> QED BY <2>2, <4>2 DEF Fenced, ArmedPhase
    <3> QED BY <3>1, <3>2 DEF BeforeFinalMutation, At
  <2>4. mutations = 0 /\ \A v \in Workers : wk[v].pc # "mutate"
    BY <2>3 DEF Armed, Fenced
  <2>5. new.pc = "mutate" /\ new.expectedVersion = variant.dispatchVersion + 1
    BY <1>2, <2>2 DEF WorkerStates
  <2>6. wk' = [wk EXCEPT ![w] = new]
    BY <1>3 DEF BeforeFinalMutation, Continue
  <2> HIDE DEF new
  <2>7. Knows(new, variant', mutations, adapter)
    BY <1>2, <2>1, <2>4, <2>5 DEF Knows, Sees, LoadedPcs, FirstPcs
  <2>8. ASSUME NEW v \in Workers PROVE Knows(wk'[v], variant', mutations', adapter')
    <3>1. CASE v = w
      BY <1>1, <2>6, <2>7, <3>1 DEF TypeOK
    <3>2. CASE v # w
      <4>1. wk'[v] = wk[v] /\ wk[v] \in WorkerStates
        BY <2>6, <3>2 DEF TypeOK
      <4>2. /\ variant'.dispatchVersion >= variant.dispatchVersion
            /\ variant'.dispatchVersion # variant.dispatchVersion
        BY <1>2, <2>1
      <4>3. Knows(wk[v], variant, mutations, adapter)
        BY DEF Fenced
      <4> QED BY <1>1, <1>2, <4>1, <4>2, <4>3, StillKnows
    <3> QED BY <3>1, <3>2
  <2>9. ArmedPhase'
    BY <2>1 DEF ArmedPhase
  <2>10. OneArmed'
    BY <2>4, <2>6 DEF OneArmed, TypeOK
  <2>11. PublishedCompleted' /\ RemoteFollows'
    BY <1>1, <2>1, <2>2 DEF PublishedCompleted, RemoteFollows, Fenced
  <2>12. OperationHasPhase'
    BY <2>1 DEF OperationHasPhase
  <2> QED BY <1>1, <2>8, <2>9, <2>10, <2>11, <2>12 DEF Fenced
<1>4. CASE ~CanTransition(w, variant.phase, "PUBLISH_REQUESTED")
  <2>1. variant' = variant
    BY <1>4 DEF BeforeFinalMutation
  <2>2. CASE Return(w)
    BY <1>1, <2>1, <2>2, SlotReleased, LocalStep
  <2>3. CASE Continue(w, [wk[w] EXCEPT !.pc = "result", !.result = "UNKNOWN_RESULT"])
    <3> DEFINE new == [wk[w] EXCEPT !.pc = "result", !.result = "UNKNOWN_RESULT"]
    <3>1. /\ new.pc = "result" /\ new.result = "UNKNOWN_RESULT"
          /\ new.expectedVersion = wk[w].expectedVersion
      BY <1>2 DEF WorkerStates
    <3>2. Continue(w, new)
      BY <2>3
    <3> HIDE DEF new
    <3>3. Knows(new, variant', mutations, adapter) /\ new.pc # "mutate"
      BY <1>2, <2>1, <3>1 DEF Knows, LoadedPcs, FirstPcs
    <3> QED BY <1>1, <2>1, <3>2, <3>3, SlotMoved, LocalStep
  <2> QED BY <1>4, <2>2, <2>3 DEF BeforeFinalMutation
<1> QED BY <1>3, <1>4

\* The final request: the one armed slot sends it, and it is the first.
LEMMA MutationFenced ==
  ASSUME TypeOK, TypeOK', Fenced, NEW w \in Workers, FinalMutation(w)
  PROVE  Fenced'
<1>1. variant' = variant /\ adapter' = adapter /\ wk[w].pc = "mutate"
  BY DEF FinalMutation, At
<1>2. mutations = 0 /\ mutations' = 1
  <2>1. mutations = 0
    BY <1>1 DEF Fenced, Knows
  <2>2. mutations' = mutations + 1
    BY DEF FinalMutation
  <2> QED BY <2>1, <2>2
<1>3. wk[w] \in WorkerStates /\ Knows(wk[w], variant, mutations, adapter)
  BY DEF TypeOK, Fenced
<1> PICK a \in Answers : Continue(w, [wk[w] EXCEPT !.pc = "result", !.result = a.result])
  BY DEF FinalMutation
<1> DEFINE new == [wk[w] EXCEPT !.pc = "result", !.result = a.result]
<1>4. a.result = "PROCESSING" => adapter = "youtube"
  BY DEF Answers, Accepted, Unclear, Refused, linkedinUnclear, facebookUnclear,
         instagramUnclear, youtubeUnclear
<1>5. /\ new.pc = "result" /\ new.result = a.result
      /\ new.expectedVersion = wk[w].expectedVersion
  BY <1>3 DEF WorkerStates
<1>6. wk' = [wk EXCEPT ![w] = new]
  BY DEF Continue
<1> HIDE DEF new
<1>7. Knows(new, variant, 1, adapter)
  BY <1>3, <1>4, <1>5 DEF Knows, LoadedPcs, FirstPcs
<1>8. ASSUME NEW v \in Workers, v # w
      PROVE  wk'[v] = wk[v] /\ wk[v].pc # "mutate" /\ Knows(wk[v], variant, 1, adapter)
  <2>1. wk'[v] = wk[v] /\ wk[v] \in WorkerStates
    BY <1>6, <1>8 DEF TypeOK
  <2>2. wk[v].pc # "mutate"
    BY <1>1, <1>8 DEF Fenced, OneArmed
  <2>3. Knows(wk[v], variant, 0, adapter)
    BY <1>2 DEF Fenced
  <2> QED BY <2>1, <2>2, <2>3, KnowsAfterSend
<1>9. wk'[w] = new
  BY <1>6 DEF TypeOK
<1>10. \A v \in Workers : Knows(wk'[v], variant', mutations', adapter') /\ wk'[v].pc # "mutate"
  BY <1>1, <1>2, <1>5, <1>7, <1>8, <1>9
<1>11. ArmedPhase'
  BY <1>1 DEF ArmedPhase, Armed, Fenced
<1>12. OneArmed'
  BY <1>10 DEF OneArmed
<1>13. PublishedCompleted' /\ RemoteFollows' /\ OperationHasPhase'
  BY <1>1, <1>2 DEF PublishedCompleted, RemoteFollows, OperationHasPhase, Fenced
<1> QED BY <1>2, <1>10, <1>11, <1>12, <1>13 DEF Fenced

\* Recording the result
LEMMA ResultFenced ==
  ASSUME TypeOK, TypeOK', Fenced, NEW w \in Workers,
         \/ ResultProcessing(w) \/ ResultSuccess(w) \/ Audit(w)
         \/ ResultUnknown(w) \/ ResultFailure(w) \/ Unknown(w)
  PROVE  Fenced'
<1>1. remote' = remote /\ adapter' = adapter /\ mutations' = mutations
  BY DEF ResultProcessing, ResultSuccess, Audit, ResultUnknown, ResultFailure, Unknown,
         localStep, rowStep
<1>2. /\ variant \in VariantRows /\ wk[w] \in WorkerStates
      /\ variant.dispatchVersion \in Nat
      /\ Knows(wk[w], variant, mutations, adapter)
  BY DEF TypeOK, VariantRows, Fenced
\* a terminal phase, with a status that is not PUBLISHED
<1>3. ASSUME NEW next \in TERMINAL_PHASES, NEW status \in Statuses \ {"PUBLISHED"},
             variant' = Transitioned(next, status)
      PROVE  Advances(variant, variant', adapter) /\ PublishedCompleted'
  <2>1. /\ variant'.phase = next /\ variant'.status = status
        /\ variant'.operationId = variant.operationId
        /\ variant'.externalPostId = variant.externalPostId
        /\ variant'.dispatchVersion = variant.dispatchVersion + 1
    BY <1>3, TransitionedFields
  <2>2. Advances(variant, variant', adapter)
    BY <1>2, <2>1 DEF Advances
  <2>3. PublishedCompleted'
    BY <1>1, <2>1 DEF PublishedCompleted, Fenced
  <2> QED BY <2>2, <2>3
<1>4. ASSUME variant' = variant, Return(w) \/ Throw(w) \/ Goto(w, "unknown")
      PROVE  Fenced'
  <2>1. Advances(variant, variant', adapter)
    BY <1>2, <1>4 DEF Advances
  <2>2. SlotsKnow
    BY <1>4, <2>1, SlotReleased, SlotGoes DEF PublishPcs, LoadedPcs, FirstPcs
  <2> QED BY <1>1, <1>4, <2>2, LocalStep
<1>5. CASE ResultProcessing(w)
  <2>1. CASE CanTransition(w, wk[w].sourcePhase, "PROCESSING_REMOTE")
    <3>1. /\ variant'.phase = "PROCESSING_REMOTE" /\ variant'.status = variant.status
          /\ variant'.operationId = variant.operationId
          /\ variant'.externalPostId = variant.externalPostId
          /\ variant'.dispatchVersion = variant.dispatchVersion + 1
      BY <1>5, <2>1, TransitionedFields DEF ResultProcessing
    <3>2. /\ variant.phase \in {"CONTAINER_CREATED", "PROCESSING_REMOTE", "PUBLISH_REQUESTED"}
          /\ variant.phase = wk[w].sourcePhase
      BY <1>2, <2>1 DEF CanTransition, ALLOWED_TRANSITIONS, VariantRows, Phases
    <3>3. variant.phase = "PUBLISH_REQUESTED" => adapter = "youtube"
      BY <1>2, <1>5, <3>2 DEF Knows, ResultProcessing, At
    <3>4. Advances(variant, variant', adapter)
      BY <1>2, <3>1, <3>2, <3>3 DEF Advances
    <3>5. PublishedCompleted'
      BY <1>1, <3>1, <3>2 DEF PublishedCompleted, Fenced
    <3> QED BY <1>1, <1>5, <2>1, <3>4, <3>5, SlotReleased, RowStep DEF ResultProcessing
  <2>2. CASE ~CanTransition(w, wk[w].sourcePhase, "PROCESSING_REMOTE")
    BY <1>4, <1>5, <2>2 DEF ResultProcessing
  <2> QED BY <2>1, <2>2
<1>6. CASE ResultSuccess(w)
  <2>1. CASE CanTransition(w, wk[w].sourcePhase, "COMPLETED")
    <3>1. mutations = 1
      BY <1>2, <1>6 DEF Knows, ResultSuccess, At
    <3>2. /\ variant'.phase = "COMPLETED" /\ variant'.status = "PUBLISHED"
          /\ variant'.operationId = variant.operationId
          /\ variant'.externalPostId = "provider"
          /\ variant'.dispatchVersion = variant.dispatchVersion + 1
      BY <1>2, <1>6, <2>1 DEF ResultSuccess, Transitioned, VariantRows
    <3>3. Advances(variant, variant', adapter)
      BY <1>2, <3>2 DEF Advances, TERMINAL_PHASES
    <3>4. PublishedCompleted'
      BY <1>1, <3>1, <3>2 DEF PublishedCompleted
    <3>5. SlotsKnow
      BY <1>6, <2>1, <3>3, SlotGoes DEF ResultSuccess, PublishPcs, LoadedPcs, FirstPcs
    <3> QED BY <1>1, <3>3, <3>4, <3>5, RowStep
  <2>2. CASE ~CanTransition(w, wk[w].sourcePhase, "COMPLETED")
    BY <1>4, <1>6, <2>2 DEF ResultSuccess
  <2> QED BY <2>1, <2>2
<1>7. CASE Audit(w)
  BY <1>4, <1>7 DEF Audit, localStep
<1>8. CASE ResultUnknown(w)
  <2>1. CASE variant' = Transitioned("AMBIGUOUS", "UNKNOWN") /\ Return(w)
    <3>1. Advances(variant, variant', adapter) /\ PublishedCompleted'
      BY <1>3, <2>1 DEF TERMINAL_PHASES, Statuses
    <3> QED BY <1>1, <2>1, <3>1, SlotReleased, RowStep
  <2>2. CASE variant' = variant /\ Throw(w)
    BY <1>4, <2>2
  <2> QED BY <1>8, <2>1, <2>2 DEF ResultUnknown
<1>9. CASE ResultFailure(w)
  <2>1. CASE variant' = Transitioned("FAILED", "FAILED") /\ (Return(w) \/ Goto(w, "reauth"))
    <3>1. Advances(variant, variant', adapter) /\ PublishedCompleted'
      BY <1>3, <2>1 DEF TERMINAL_PHASES, Statuses
    <3>2. SlotsKnow
      BY <2>1, <3>1, SlotReleased, SlotGoes DEF PublishPcs, LoadedPcs, FirstPcs
    <3> QED BY <1>1, <3>1, <3>2, RowStep
  <2>2. CASE variant' = variant /\ Return(w)
    BY <1>4, <2>2
  <2> QED BY <1>9, <2>1, <2>2 DEF ResultFailure
<1>10. CASE Unknown(w)
  <2>1. Advances(variant, variant', adapter) /\ PublishedCompleted'
    BY <1>1, <1>2, <1>10, StatusOnly DEF Unknown, VariantRows, Statuses
  <2> QED BY <1>1, <1>10, <2>1, SlotReleased, RowStep DEF Unknown
<1> QED BY <1>5, <1>6, <1>7, <1>8, <1>9, <1>10

\* processDelete keeps Fenced: it never writes the phase or PUBLISHED.
LEMMA DeleteFenced ==
  ASSUME TypeOK, TypeOK', Fenced, NEW w \in Workers, DeleteStep(w)
  PROVE  Fenced'
<1>1. adapter' = adapter /\ mutations' = mutations
  BY DEF DeleteStep, DeleteLoad, DeleteCredentials, DeleteCall, DeleteReauth, DeleteRecord,
         rowStep, accountStep
<1>2. /\ variant \in VariantRows /\ wk[w] \in WorkerStates
      /\ variant.dispatchVersion \in Nat
      /\ Knows(wk[w], variant, mutations, adapter)
  BY DEF TypeOK, VariantRows, Fenced
<1>3. /\ Advances(variant, variant', adapter) /\ PublishedCompleted'
  <2>1. \/ variant' = variant
        \/ variant' = [variant EXCEPT !.status = "DELETED"]
        \/ variant' = [variant EXCEPT !.status = "UNKNOWN"]
    BY DEF DeleteStep, DeleteLoad, DeleteCredentials, DeleteCall, DeleteReauth, DeleteRecord,
           rowStep, accountStep
  <2> QED BY <1>1, <1>2, <2>1, StatusOnly DEF VariantRows, Statuses
<1>4. RemoteFollows'
  <2>1. remote' = remote \/ remote = "live"
    BY DEF DeleteStep, DeleteLoad, DeleteCredentials, DeleteCall, DeleteReauth, DeleteRecord,
           rowStep, accountStep
  <2> QED BY <1>1, <2>1 DEF RemoteFollows, Fenced
<1>5. ASSUME NEW r, Continue(w, [wk[w] EXCEPT !.pc = "delRecord", !.result = r])
      PROVE  SlotsKnow
  <2> DEFINE new == [wk[w] EXCEPT !.pc = "delRecord", !.result = r]
  <2>1. new.pc = "delRecord" /\ new.expectedVersion = wk[w].expectedVersion
    BY <1>2 DEF WorkerStates
  <2>2. Continue(w, new)
    BY <1>5
  <2>3. wk[w].expectedVersion <= variant'.dispatchVersion
    <3>1. wk[w].expectedVersion \in Nat /\ variant'.dispatchVersion \in Nat
      BY DEF TypeOK, WorkerStates, VariantRows
    <3> QED BY <1>2, <1>3, <3>1 DEF Knows, Advances
  <2> HIDE DEF new
  <2>4. Knows(new, variant', mutations, adapter) /\ new.pc # "mutate"
    BY <2>1, <2>3, KnowsNothing DEF LoadedPcs, FirstPcs
  <2> QED BY <2>2, <2>4, SlotMoved
<1>6. SlotsKnow
  <2> DEFINE Ends(r) == Continue(w, [wk[w] EXCEPT !.pc = "delRecord", !.result = r])
  <2>1. \/ Return(w) \/ Throw(w)
        \/ Goto(w, "delCreds") \/ Goto(w, "delCall") \/ Goto(w, "delReauth")
        \/ Ends("SUCCESS") \/ Ends("PERMANENT") \/ Ends("AUTH_REQUIRED")
    BY DEF DeleteStep, DeleteLoad, DeleteCredentials, DeleteCall, DeleteReauth, DeleteRecord
  <2> QED BY <1>3, <1>5, <2>1, SlotReleased, SlotGoes DEF DeletePcs, LoadedPcs, FirstPcs
<1> QED BY <1>1, <1>3, <1>4, <1>6, QuietStep

\* A throwing database call keeps Fenced: no pc it leads to relies on the phase.
LEMMA DatabaseErrorFenced ==
  ASSUME TypeOK, TypeOK', Fenced, NEW w \in Workers, DatabaseError(w)
  PROVE  Fenced'
<1>1. variant' = variant /\ remote' = remote /\ adapter' = adapter /\ mutations' = mutations
  BY DEF DatabaseError
<1>2. /\ wk[w] \in WorkerStates /\ variant.dispatchVersion \in Nat
      /\ Knows(wk[w], variant, mutations, adapter)
  BY DEF TypeOK, VariantRows, Fenced
<1>3. Advances(variant, variant', adapter)
  BY <1>1, <1>2 DEF Advances
<1>4. ASSUME NEW r \in {"UNKNOWN_RESULT", "TRANSIENT"},
             Continue(w, [wk[w] EXCEPT !.pc = "result", !.result = r])
      PROVE  SlotsKnow
  <2> DEFINE new == [wk[w] EXCEPT !.pc = "result", !.result = r]
  <2>1. /\ new.pc = "result" /\ new.result = r
        /\ new.expectedVersion = wk[w].expectedVersion
    BY <1>2 DEF WorkerStates
  <2>2. Continue(w, new)
    BY <1>4
  <2> HIDE DEF new
  <2>3. Knows(new, variant', mutations, adapter) /\ new.pc # "mutate"
    BY <1>1, <1>2, <2>1 DEF Knows, LoadedPcs, FirstPcs
  <2> QED BY <2>2, <2>3, SlotMoved
<1>5. SlotsKnow
  BY <1>3, <1>4, DatabaseErrorCases, SlotReleased, SlotGoes DEF PublishPcs, LoadedPcs, FirstPcs
<1> QED BY <1>1, <1>5, LocalStep

-----------------------------------------------------------------------------
\* A new publication satisfies the invariant.
LEMMA InitFenced == Init => Fenced
<1> SUFFICES ASSUME Init PROVE Fenced
  OBVIOUS
<1>1. variant \in VariantRows
  BY InitType DEF TypeOK
<1>2. \A w \in Workers : Knows(wk[w], variant, mutations, adapter) /\ wk[w].pc # "mutate"
  BY <1>1, IdleKnows DEF Init
<1>3. ArmedPhase /\ OneArmed
  BY <1>2 DEF Init, ArmedPhase, Armed, OneArmed
<1>4. PublishedCompleted /\ RemoteFollows /\ OperationHasPhase
  BY DEF Init, PublishedCompleted, RemoteFollows, OperationHasPhase
<1> QED BY <1>2, <1>3, <1>4 DEF Init, Fenced

\* The invariant is inductive.
LEMMA NextFenced ==
  ASSUME TypeOK, TypeOK', Fenced, [Next]_vars PROVE Fenced'
<1>1. CASE UNCHANGED vars
  <2>1. SlotsKnow
    BY <1>1 DEF vars, SlotsKnow
  <2> QED BY <1>1, <2>1, LocalStep DEF vars
<1>2. CASE ApiNext
  BY <1>2, ApiFenced
<1>3. CASE DispatcherNext
  BY <1>3, DispatcherFenced
<1>4. CASE ProcessorNext
  <2> PICK w \in Workers : WorkerStep(w) \/ DatabaseError(w)
    BY <1>4 DEF ProcessorNext
  <2> QED BY TakeJobFenced, ClaimingFenced, AttemptingFenced, PreparingFenced,
             CheckpointFenced, MutationFenced, ResultFenced, DeleteFenced,
             DatabaseErrorFenced DEF WorkerStep, PublishStep
<1>5. CASE EnvironmentNext
  BY <1>5, EnvironmentFenced
<1> QED BY <1>1, <1>2, <1>3, <1>4, <1>5 DEF Next

\* The inductive invariant: dispatchVersion fences off every worker that was overtaken.
THEOREM AlwaysFenced == Spec => []Fenced
<1>1. TypeOK /\ TypeOK' /\ Fenced /\ [Next]_vars => Fenced'
  BY NextFenced
<1> QED BY <1>1, InitFenced, TypeCorrect, PTL DEF Spec

\* No publication is sent to the provider twice, whatever the number of workers, scans,
\* crashes, stalled jobs, zombies, retries and faults (process, beforeFinalMutation).
THEOREM PublishesAtMostOnce == Spec => []AtMostOnce
<1>1. Fenced => AtMostOnce
  BY DEF Fenced, AtMostOnce
<1> QED BY <1>1, AlwaysFenced, PTL

\* The PUBLISH_REQUESTED checkpoint is durable before the final request and is never
\* taken back to a phase from which publish() is called (transitionOperation).
THEOREM CheckpointHolds == Spec => []CheckpointBeforeMutation
<1>1. Fenced => CheckpointBeforeMutation
  BY DEF Fenced, ArmedPhase, Armed, CheckpointBeforeMutation
<1> QED BY <1>1, AlwaysFenced, PTL

\* PUBLISHED is shown only for a completed operation with an id, and an id of the
\* provider only after a request (handleSuccess, reconcile).
THEOREM PublishedHolds == Spec => []PublishedIsReal
<1>1. Fenced => PublishedIsReal
  BY DEF Fenced, PublishedCompleted, PublishedIsReal
<1> QED BY <1>1, AlwaysFenced, PTL

-----------------------------------------------------------------------------
(* Failures and deletions.  Settled is inductive relative to Fenced.  A    *)
(* calm step moves the row, the slots, the scans and the queue in ways     *)
(* that keep it; the final request, a failure that is recorded and a       *)
(* deletion are argued on their own.                                       *)

Settled == Truthful /\ Deletions

\* the results handleFailure records as FAILED
Refusals == {"TRANSIENT", "AUTH_REQUIRED", "PERMANENT"}

RowCalm ==
  /\ variant'.dispatchVersion >= variant.dispatchVersion
  /\ variant.externalPostId # "none" => variant'.externalPostId # "none"
  /\ variant.reconciled => variant'.reconciled
  /\ \/ variant'.phase = variant.phase
     \/ variant'.phase \in {"INITIATED", "PUBLISH_REQUESTED", "COMPLETED", "AMBIGUOUS"}
     \/ variant'.phase = "FAILED" /\ variant'.reconciled
     \/ variant'.phase = "CONTAINER_CREATED" /\ adapter # "youtube"
     \/ /\ variant'.phase = "PROCESSING_REMOTE"
        /\ variant'.dispatchVersion > variant.dispatchVersion
        /\ adapter = "youtube" => mutations = 1
  /\ \/ variant'.status = variant.status
     \/ variant'.status \notin {"DELETED", "DELETING"}
     \/ variant'.status = "DELETING" /\ variant.externalPostId # "none"
     \/ variant'.status = "DELETED" /\ remote' = "removed"

SlotCalm(v) ==
  \/ wk'[v] = wk[v]
  \/ wk'[v].pc \notin {"mutate", "result"} \cup DeletePcs
  \/ wk'[v].pc = "mutate" /\ variant'.phase = "PUBLISH_REQUESTED"
  \/ /\ wk'[v].pc = "result"
     /\ \/ wk'[v].result \notin Refusals
        \/ adapter # "youtube"
        \/ remote' # "live"
        \/ wk'[v].expectedVersion = variant'.dispatchVersion
             => variant'.phase # "PROCESSING_REMOTE"
  \/ wk'[v].pc = "delLoad" /\ \E j \in jobs : j.kind = "delete"
  \/ /\ wk'[v].pc \in DeletePcs \ {"delLoad"} /\ adapter = "linkedin"
     /\ wk'[v].pc = "delRecord" /\ wk'[v].result = "SUCCESS" => remote' = "removed"

QueueCalm ==
  /\ \A d \in Scanners : scan'[d].step = "deleting" =>
       scan[d].step = "deleting" \/ variant.status = "DELETING"
  /\ \A j \in jobs' : j.kind = "delete" =>
       \/ \E k \in jobs : k.kind = "delete"
       \/ \E d \in Scanners : scan[d].step = "deleting"

WorldCalm ==
  /\ adapter' = adapter /\ mutations' = mutations
  /\ remote' = "live" => remote = "live"
  /\ remote = "removed" => remote' = "removed"
  /\ remote' = "removed" => remote = "removed" \/ adapter = "linkedin"

\* A calm step keeps what failures and deletions rest on.
LEMMA CalmStep ==
  ASSUME TypeOK, TypeOK', Fenced, Settled, RowCalm, QueueCalm, WorldCalm,
         \A v \in Workers : SlotCalm(v)
  PROVE  Settled'
<1>0. /\ variant.dispatchVersion \in Nat /\ variant'.dispatchVersion \in Nat
      /\ \A v \in Workers : wk[v].expectedVersion \in Nat
  BY DEF TypeOK, VariantRows, WorkerStates
<1>1. FailedIsOver'
  <2> SUFFICES ASSUME variant'.phase = "FAILED", ~variant'.reconciled
               PROVE  remote' # "live" /\ \A w \in Workers : wk'[w].pc # "mutate"
    BY DEF FailedIsOver
  <2>1. variant.phase = "FAILED" /\ ~variant.reconciled
    BY DEF RowCalm
  <2>2. remote # "live" /\ \A w \in Workers : wk[w].pc # "mutate"
    BY <2>1 DEF Settled, Truthful, FailedIsOver
  <2>3. ASSUME NEW w \in Workers PROVE wk'[w].pc # "mutate"
    BY <2>2 DEF SlotCalm, DeletePcs
  <2> QED BY <2>2, <2>3 DEF WorldCalm
<1>2. VideoIsSent'
  BY DEF VideoIsSent, Settled, Truthful, RowCalm, WorldCalm
<1>3. FailsWhenLost'
  <2> SUFFICES ASSUME NEW w \in Workers, wk'[w].pc = "result", wk'[w].result \in Refusals,
                      wk'[w].expectedVersion = variant'.dispatchVersion,
                      variant'.phase = "PROCESSING_REMOTE",
                      wk'[w].sourcePhase = "PROCESSING_REMOTE", adapter' = "youtube"
               PROVE  remote' # "live"
    BY DEF FailsWhenLost, Refusals
  <2>1. CASE wk'[w] = wk[w]
    <3>1. wk[w].expectedVersion <= variant.dispatchVersion
      BY DEF Fenced, Knows
    <3>2. variant.dispatchVersion = variant'.dispatchVersion
      BY <1>0, <2>1, <3>1 DEF RowCalm
    <3>3. variant.phase = "PROCESSING_REMOTE"
      BY <1>0, <3>2 DEF RowCalm
    <3>4. remote # "live"
      BY <2>1, <3>2, <3>3 DEF Settled, Truthful, FailsWhenLost, Refusals, WorldCalm
    <3> QED BY <3>4 DEF WorldCalm
  <2>2. CASE wk'[w] # wk[w]
    BY <2>2 DEF SlotCalm, WorldCalm, DeletePcs
  <2> QED BY <2>1, <2>2
<1>4. DeletionAsked' => variant'.externalPostId # "none"
  <2>1. DeletionAsked' => DeletionAsked \/ variant.externalPostId # "none"
    BY DEF DeletionAsked, RowCalm, QueueCalm, SlotCalm, DeletePcs
  <2> QED BY <2>1 DEF Settled, Deletions, RowCalm
<1>5. remote' = "removed" => adapter' = "linkedin"
  BY DEF Settled, Deletions, WorldCalm
<1>6. ASSUME NEW w \in Workers
      PROVE  /\ wk'[w].pc \in DeletePcs \ {"delLoad"} => adapter' = "linkedin"
             /\ wk'[w].pc = "delRecord" /\ wk'[w].result = "SUCCESS" => remote' = "removed"
  BY DEF Settled, Deletions, SlotCalm, WorldCalm, DeletePcs
<1>7. variant'.status = "DELETED" => remote' = "removed"
  BY DEF Settled, Deletions, RowCalm, WorldCalm
<1> QED BY <1>1, <1>2, <1>3, <1>4, <1>5, <1>6, <1>7 DEF Settled, Truthful, Deletions

\* the row is left alone
LEMMA RowStays ==
  ASSUME TypeOK, variant' = variant PROVE RowCalm
BY DEF RowCalm, TypeOK, VariantRows

\* only the status and perhaps the version change, and not to a deletion
LEMMA StatusCalm ==
  ASSUME TypeOK, variant'.phase = variant.phase, variant'.reconciled = variant.reconciled,
         variant'.externalPostId = variant.externalPostId,
         variant'.dispatchVersion \in {variant.dispatchVersion, variant.dispatchVersion + 1},
         variant'.status \in {variant.status, "DRAFT", "SCHEDULED", "QUEUED", "PUBLISHING",
                              "FAILED", "UNKNOWN"}
  PROVE  RowCalm
<1>1. variant.dispatchVersion \in Nat
  BY DEF TypeOK, VariantRows
<1> QED BY <1>1 DEF RowCalm

\* a transitionOperation, to a phase it is calm to move to
LEMMA TransitionCalm ==
  ASSUME TypeOK, NEW next, NEW status, variant' = Transitioned(next, status),
         status \in {variant.status, "UNKNOWN", "PUBLISHED"},
         \/ next \in {"PUBLISH_REQUESTED", "COMPLETED", "AMBIGUOUS"}
         \/ next = "CONTAINER_CREATED" /\ adapter # "youtube"
         \/ next = "PROCESSING_REMOTE" /\ (adapter = "youtube" => mutations = 1)
  PROVE  RowCalm
<1>1. /\ variant'.phase = next /\ variant'.status = status
      /\ variant'.dispatchVersion = variant.dispatchVersion + 1
      /\ variant'.externalPostId = variant.externalPostId
      /\ variant'.reconciled = variant.reconciled
      /\ variant.dispatchVersion \in Nat
  BY DEF Transitioned, TypeOK, VariantRows
<1> QED BY <1>1 DEF RowCalm

\* process() ends: the slot is idle, and its job is gone or given out again
LEMMA ReleasedCalm ==
  ASSUME TypeOK, NEW w \in Workers, Return(w) \/ Throw(w), scan' = scan
  PROVE  QueueCalm /\ \A v \in Workers : SlotCalm(v)
<1>1. wk' = [wk EXCEPT ![w] = Idle] /\ wk \in [Workers -> WorkerStates]
  BY DEF Return, Throw, TypeOK
<1>2. \A v \in Workers : SlotCalm(v)
  BY <1>1 DEF SlotCalm, Idle, DeletePcs
<1>3. ASSUME NEW j \in jobs' PROVE \E k \in jobs : j.kind = k.kind
  <2>1. \A k \in jobs : Thrown(k).kind = k.kind
    BY DEF Thrown, TypeOK, Jobs
  <2> QED BY <1>3, <2>1 DEF Return, Throw
<1> QED BY <1>2, <1>3 DEF QueueCalm

\* process() goes on
LEMMA MovedCalm ==
  ASSUME TypeOK, NEW w \in Workers, NEW new, Continue(w, new), scan' = scan,
         wk'[w] = new => SlotCalm(w)
  PROVE  QueueCalm /\ \A v \in Workers : SlotCalm(v)
<1>1. wk'[w] = new /\ \A v \in Workers \ {w} : wk'[v] = wk[v]
  BY DEF Continue, TypeOK
<1>2. \A v \in Workers : SlotCalm(v)
  BY <1>1 DEF SlotCalm
<1> QED BY <1>2 DEF QueueCalm, Continue

\* ... to a pc at which neither a result nor a deletion is held
LEMMA WentCalm ==
  ASSUME TypeOK, NEW w \in Workers, NEW pc, Goto(w, pc), scan' = scan,
         pc \notin {"mutate", "result"} \cup DeletePcs
  PROVE  QueueCalm /\ \A v \in Workers : SlotCalm(v)
<1> DEFINE new == [wk[w] EXCEPT !.pc = pc]
<1>1. new.pc = pc
  BY DEF TypeOK, WorkerStates
<1>2. Continue(w, new)
  BY DEF Goto
<1> HIDE DEF new
<1>3. wk'[w] = new => SlotCalm(w)
  BY <1>1 DEF SlotCalm
<1> QED BY <1>2, <1>3, MovedCalm

-----------------------------------------------------------------------------
\* The API commands settle nothing: a deletion is asked for only with an external id, and
\* FAILED by reconcile is the operator's word.
LEMMA ApiSettled ==
  ASSUME TypeOK, TypeOK', Fenced, Settled, ApiNext PROVE Settled'
<1>1. /\ wk' = wk /\ scan' = scan /\ jobs' = jobs
      /\ remote' = remote /\ adapter' = adapter /\ mutations' = mutations
  BY DEF ApiNext, RequestPublish, RequestRetry, RequestRemoteDelete, Schedule, Reschedule,
         Unschedule, CancelQueued, ReconcileRead, ReconcileCommit, ReconcileConflict,
         DisconnectAccount, ReconnectAccount, apiUnchanged
<1>2. QueueCalm /\ WorldCalm /\ \A v \in Workers : SlotCalm(v)
  BY <1>1 DEF QueueCalm, WorldCalm, SlotCalm
<1>3. variant \in VariantRows
  BY DEF TypeOK
<1>4. CASE RequestPublish \/ RequestRetry \/ CancelQueued
  <2>1. \/ transitionVariantState({"DRAFT", "SCHEDULED"}, "QUEUED")
        \/ transitionVariantState({"FAILED"}, "QUEUED")
        \/ transitionVariantState({"QUEUED"}, "DRAFT")
    BY <1>4 DEF RequestPublish, RequestRetry, CancelQueued
  <2>2. /\ variant'.phase = variant.phase /\ variant'.reconciled = variant.reconciled
        /\ variant'.externalPostId = variant.externalPostId
        /\ variant'.dispatchVersion \in {variant.dispatchVersion, variant.dispatchVersion + 1}
        /\ variant'.status \in {"QUEUED", "DRAFT"}
    BY <1>3, <2>1 DEF transitionVariantState, VariantRows
  <2> QED BY <1>2, <2>2, StatusCalm, CalmStep
<1>5. CASE RequestRemoteDelete
  <2>1. /\ variant'.phase = variant.phase /\ variant'.reconciled = variant.reconciled
        /\ variant'.externalPostId = variant.externalPostId
        /\ variant'.dispatchVersion = variant.dispatchVersion
        /\ variant'.status = "DELETING" /\ variant.externalPostId # "none"
    BY <1>3, <1>5 DEF RequestRemoteDelete, transitionVariantState, VariantRows
  <2>2. RowCalm
    BY <1>3, <2>1 DEF RowCalm, VariantRows
  <2> QED BY <1>2, <2>2, CalmStep
<1>6. CASE Schedule \/ Reschedule \/ Unschedule
  <2>1. /\ variant'.phase = variant.phase /\ variant'.reconciled = variant.reconciled
        /\ variant'.externalPostId = variant.externalPostId
        /\ variant'.dispatchVersion = variant.dispatchVersion
        /\ variant'.status \in {"SCHEDULED", "DRAFT"}
    BY <1>3, <1>6 DEF Schedule, Reschedule, Unschedule, VariantRows
  <2> QED BY <1>2, <2>1, StatusCalm, CalmStep
<1>7. ASSUME NEW decision, ReconcileCommit(decision) PROVE Settled'
  <2>1. /\ variant'.phase \in {"COMPLETED", "FAILED"} /\ variant'.reconciled
        /\ variant'.dispatchVersion = variant.dispatchVersion
        /\ variant'.externalPostId \in {variant.externalPostId, "operator"}
        /\ variant'.status \in {"PUBLISHED", "FAILED"}
    BY <1>3, <1>7 DEF ReconcileCommit, VariantRows
  <2>2. RowCalm
    BY <1>3, <2>1 DEF RowCalm, VariantRows
  <2> QED BY <1>2, <2>2, CalmStep
<1>8. CASE ReconcileRead \/ ReconcileConflict \/ DisconnectAccount \/ ReconnectAccount
  <2>1. variant' = variant
    BY <1>8 DEF ReconcileRead, ReconcileConflict, DisconnectAccount, ReconnectAccount
  <2> QED BY <1>2, <2>1, RowStays, CalmStep
<1> QED BY <1>4, <1>5, <1>6, <1>7, <1>8 DEF ApiNext

\* The scans settle nothing: dispatchDeleting queues a deletion only for a row it has read
\* as DELETING.
LEMMA DispatcherSettled ==
  ASSUME TypeOK, TypeOK', Fenced, Settled, DispatcherNext PROVE Settled'
<1> PICK d \in Scanners : ReadStep(d) \/ WriteStep(d) \/ ScanFails(d)
  BY DEF DispatcherNext
<1>1. /\ wk' = wk /\ remote' = remote /\ adapter' = adapter /\ mutations' = mutations
  BY DEF ReadStep, ReadScheduled, ReadQueued, ReadDeleting, ReadContinuation, ReadStale,
         WriteStep, PromoteScheduled, DispatchQueued, DispatchDeleting,
         DispatchContinuation, RecoverStale, ScanFails, Found, Handled, dispatcherUnchanged
<1>2. WorldCalm /\ \A v \in Workers : SlotCalm(v)
  BY <1>1 DEF WorldCalm, SlotCalm
<1>3. /\ variant \in VariantRows /\ scan \in [Scanners -> ScanStates] /\ jobs \in SUBSET Jobs
      /\ scan[d].version \in Nat
  BY DEF TypeOK, ScanStates
<1>4. \A s \in Scanners : scan'[s].step = "deleting" =>
        scan[s].step = "deleting" \/ variant.status = "DELETING"
  <2>1. CASE ReadStep(d)
    BY <1>3, <2>1 DEF ReadStep, ReadScheduled, ReadQueued, ReadDeleting, ReadContinuation,
                      ReadStale, Found, NoScan
  <2>2. CASE WriteStep(d) \/ ScanFails(d)
    <3>1. scan' = [scan EXCEPT ![d] = NoScan]
      BY <2>2 DEF WriteStep, PromoteScheduled, DispatchQueued, DispatchDeleting,
                  DispatchContinuation, RecoverStale, ScanFails, Handled
    <3> QED BY <1>3, <3>1 DEF NoScan
  <2> QED BY <2>1, <2>2
<1>5. \A j \in jobs' : j.kind = "delete" =>
        (\E k \in jobs : k.kind = "delete") \/ (\E s \in Scanners : scan[s].step = "deleting")
  <2>1. ASSUME NEW job, Enqueue(job) PROVE jobs' \subseteq jobs \cup {job}
    BY <2>1 DEF Enqueue
  <2>2. CASE DispatchQueued(d) \/ DispatchContinuation(d)
    BY <2>1, <2>2 DEF DispatchQueued, DispatchContinuation, NewJob
  <2>3. CASE DispatchDeleting(d)
    BY <2>3 DEF DispatchDeleting, Handled
  <2>4. CASE ReadStep(d) \/ PromoteScheduled(d) \/ RecoverStale(d) \/ ScanFails(d)
    BY <2>4 DEF ReadStep, ReadScheduled, ReadQueued, ReadDeleting, ReadContinuation,
                ReadStale, Found, PromoteScheduled, RecoverStale, ScanFails
  <2> QED BY <2>2, <2>3, <2>4 DEF WriteStep
<1>6. QueueCalm
  BY <1>4, <1>5 DEF QueueCalm
<1>7. RowCalm
  <2>1. CASE PromoteScheduled(d)
    <3>1. /\ variant'.phase = variant.phase /\ variant'.reconciled = variant.reconciled
          /\ variant'.externalPostId = variant.externalPostId
          /\ variant'.dispatchVersion \in {variant.dispatchVersion, variant.dispatchVersion + 1}
          /\ variant'.status \in {variant.status, "QUEUED"}
      BY <1>3, <2>1 DEF PromoteScheduled, VariantRows
    <3> QED BY <3>1, StatusCalm
  <2>2. CASE RecoverStale(d)
    <3>1. CASE variant' = Transitioned("AMBIGUOUS", "UNKNOWN")
      BY <3>1, TransitionCalm
    <3>2. CASE variant' = [variant EXCEPT !.status = "UNKNOWN"]
      BY <1>3, <3>2, StatusCalm DEF VariantRows
    <3> QED BY <2>2, <3>1, <3>2, RowStays DEF RecoverStale
  <2>3. CASE ~PromoteScheduled(d) /\ ~RecoverStale(d)
    <3>1. variant' = variant
      BY <2>3 DEF ReadStep, ReadScheduled, ReadQueued, ReadDeleting, ReadContinuation,
                  ReadStale, WriteStep, DispatchQueued, DispatchDeleting,
                  DispatchContinuation, ScanFails, Found
    <3> QED BY <3>1, RowStays
  <2> QED BY <2>1, <2>2, <2>3
<1> QED BY <1>2, <1>6, <1>7, CalmStep

\* Crashes, stalled jobs, heartbeats and clocks settle nothing.
LEMMA EnvironmentSettled ==
  ASSUME TypeOK, TypeOK', Fenced, Settled, EnvironmentNext PROVE Settled'
<1>1. /\ remote' = remote /\ adapter' = adapter /\ mutations' = mutations /\ scan' = scan
  BY DEF EnvironmentNext, TimePasses, StallOrphan, HeartbeatExpires, ScheduleComesDue,
         CheckComesDue, StallPaused, HeartbeatMissed, Crash, Heartbeat, envUnchanged
<1>2. WorldCalm
  BY <1>1 DEF WorldCalm
<1>3. ASSUME \A j \in jobs' : \E k \in jobs : j.kind = k.kind PROVE QueueCalm
  BY <1>1, <1>3 DEF QueueCalm
<1>4. CASE ScheduleComesDue \/ CheckComesDue
  <2>1. wk' = wk /\ jobs' = jobs
    BY <1>4 DEF ScheduleComesDue, CheckComesDue, envUnchanged
  <2>2. RowCalm
    BY <1>4, StatusCalm DEF ScheduleComesDue, CheckComesDue, TypeOK, VariantRows
  <2> QED BY <1>2, <1>3, <2>1, <2>2, CalmStep DEF SlotCalm
<1>5. ASSUME NEW w \in Workers, Crash(w) PROVE Settled'
  <2>1. variant' = variant /\ wk' = [wk EXCEPT ![w] = Idle]
    BY <1>5 DEF Crash
  <2>2. \A v \in Workers : SlotCalm(v)
    BY <2>1 DEF SlotCalm, Idle, DeletePcs, TypeOK
  <2>3. \A j \in jobs' : \E k \in jobs : j.kind = k.kind
    <3>1. jobs' = {IF j.owner = w THEN [j EXCEPT !.owner = NoWorker] ELSE j : j \in jobs}
      BY <1>5 DEF Crash
    <3>2. \A j \in jobs : [j EXCEPT !.owner = NoWorker].kind = j.kind
      BY DEF TypeOK, Jobs
    <3> QED BY <3>1, <3>2
  <2> QED BY <1>2, <1>3, <2>1, <2>2, <2>3, RowStays, CalmStep
<1>6. CASE StallOrphan \/ StallPaused
  <2>1. variant' = variant /\ wk' = wk
    BY <1>6 DEF StallOrphan, StallPaused, envUnchanged
  <2>2. \A j \in jobs' : \E k \in jobs : j.kind = k.kind
    <3>1. PICK j \in jobs : jobs' = (jobs \ {j}) \cup {Stalled(j)}
      BY <1>6 DEF StallOrphan, StallPaused
    <3>2. Stalled(j).kind = j.kind
      BY DEF Stalled, TypeOK, Jobs
    <3> QED BY <3>1, <3>2
  <2> QED BY <1>2, <1>3, <2>1, <2>2, RowStays, CalmStep DEF SlotCalm
<1>7. CASE HeartbeatExpires \/ HeartbeatMissed \/ \E w \in Workers : Heartbeat(w)
  <2>1. variant' = variant /\ wk' = wk /\ jobs' = jobs
    BY <1>7 DEF HeartbeatExpires, HeartbeatMissed, Heartbeat, envUnchanged
  <2> QED BY <1>2, <1>3, <2>1, RowStays, CalmStep DEF SlotCalm
<1> QED BY <1>4, <1>5, <1>6, <1>7 DEF EnvironmentNext, TimePasses

-----------------------------------------------------------------------------
\* A slot that takes a deletion took a job of that kind.
LEMMA TakeJobSettled ==
  ASSUME TypeOK, TypeOK', Fenced, Settled, NEW w \in Workers, TakeJob(w)
  PROVE  Settled'
<1> PICK j \in jobs :
      /\ jobs' = (jobs \ {j}) \cup {[j EXCEPT !.state = "active", !.owner = w]}
      /\ wk' = [wk EXCEPT ![w] = [Idle EXCEPT
                  !.pc = IF j.kind = "publish" THEN "load" ELSE "delLoad",
                  !.version = j.version, !.jobOperationId = j.operationId]]
      /\ localStep
  BY DEF TakeJob
<1>1. [j EXCEPT !.state = "active", !.owner = w].kind = j.kind
  BY DEF TypeOK, Jobs
<1>2. j.kind \in {"publish", "delete"}
  BY DEF TypeOK, Jobs
<1>3. /\ wk'[w].pc = IF j.kind = "publish" THEN "load" ELSE "delLoad"
      /\ \A v \in Workers \ {w} : wk'[v] = wk[v]
  BY DEF TypeOK, Idle
<1>4. \A v \in Workers : SlotCalm(v)
  BY <1>2, <1>3 DEF SlotCalm, DeletePcs
<1>5. QueueCalm /\ WorldCalm
  BY <1>1 DEF QueueCalm, WorldCalm, localStep
<1> QED BY <1>4, <1>5, RowStays, CalmStep DEF localStep

\* Load, the fences, the claim and startOperation: no failure is recorded in the phase.
LEMMA ClaimingSettled ==
  ASSUME TypeOK, TypeOK', Fenced, Settled, NEW w \in Workers,
         Load(w) \/ Fence(w) \/ FenceAttempt(w) \/ Claim(w) \/ Start(w)
  PROVE  Settled'
<1>1. scan' = scan /\ WorldCalm
  BY DEF Load, Fence, FenceAttempt, Claim, Start, localStep, rowStep, WorldCalm
<1>2. variant \in VariantRows /\ wk[w] \in WorkerStates
  BY DEF TypeOK
<1>3. CASE Load(w)
  <2>1. RowCalm
    BY <1>3, RowStays DEF Load, localStep
  <2>2. ASSUME NEW c, Continue(w, [wk[w] EXCEPT !.pc = "fence", !.result = c])
        PROVE  QueueCalm /\ \A v \in Workers : SlotCalm(v)
    <3> DEFINE new == [wk[w] EXCEPT !.pc = "fence", !.result = c]
    <3>1. new.pc = "fence" /\ Continue(w, new)
      BY <1>2, <2>2 DEF WorkerStates
    <3> HIDE DEF new
    <3> QED BY <1>1, <3>1, MovedCalm DEF SlotCalm, DeletePcs
  <2>3. CASE Continue(w, [wk[w] EXCEPT !.pc = "attempt", !.isContinuation = TRUE,
                     !.operationId = variant.operationId, !.expectedVersion = wk[w].version,
                     !.sourcePhase = "PROCESSING_REMOTE", !.loadedPhase = variant.phase])
    <3> DEFINE new == [wk[w] EXCEPT !.pc = "attempt", !.isContinuation = TRUE,
                     !.operationId = variant.operationId, !.expectedVersion = wk[w].version,
                     !.sourcePhase = "PROCESSING_REMOTE", !.loadedPhase = variant.phase]
    <3>1. new.pc = "attempt" /\ Continue(w, new)
      BY <1>2, <2>3 DEF WorkerStates
    <3> HIDE DEF new
    <3>2. QueueCalm /\ \A v \in Workers : SlotCalm(v)
      BY <1>1, <3>1, MovedCalm DEF SlotCalm, DeletePcs
    <3> QED BY <1>1, <2>1, <3>2, CalmStep
  <2>4. CASE Return(w)
    BY <1>1, <2>1, <2>4, ReleasedCalm, CalmStep
  <2>5. CASE Goto(w, "claim")
    BY <1>1, <2>1, <2>5, WentCalm, CalmStep DEF DeletePcs
  <2> QED BY <1>1, <1>3, <2>1, <2>2, <2>3, <2>4, <2>5, CalmStep DEF Load
<1>4. CASE Fence(w)
  <2>1. RowCalm
    BY <1>2, <1>4, StatusCalm DEF Fence, VariantRows
  <2>2. QueueCalm /\ \A v \in Workers : SlotCalm(v)
    BY <1>1, <1>4, WentCalm DEF Fence, DeletePcs
  <2> QED BY <1>1, <2>1, <2>2, CalmStep
<1>5. CASE FenceAttempt(w)
  BY <1>1, <1>5, RowStays, ReleasedCalm, CalmStep DEF FenceAttempt
<1>6. CASE Claim(w)
  <2>1. CASE variant' = [variant EXCEPT !.status = "PUBLISHING"] /\ Goto(w, "start")
    <3>1. RowCalm
      BY <1>2, <2>1, StatusCalm DEF VariantRows
    <3> QED BY <1>1, <2>1, <3>1, WentCalm, CalmStep DEF DeletePcs
  <2>2. CASE variant' = variant /\ Return(w)
    BY <1>1, <2>2, RowStays, ReleasedCalm, CalmStep
  <2> QED BY <1>6, <2>1, <2>2 DEF Claim
<1>7. CASE Start(w)
  <2>1. CASE CanStart
    <3> DEFINE new == [wk[w] EXCEPT !.pc = "attempt",
                  !.operationId = variant.operationId + 1,
                  !.expectedVersion = variant.dispatchVersion + 1,
                  !.sourcePhase = "INITIATED", !.loadedPhase = "INITIATED"]
    <3>1. new.pc = "attempt" /\ Continue(w, new)
      BY <1>2, <1>7, <2>1 DEF Start, WorkerStates
    <3>2. /\ variant'.phase = "INITIATED" /\ variant'.status = variant.status
          /\ variant'.dispatchVersion = variant.dispatchVersion + 1
          /\ variant'.externalPostId = variant.externalPostId
          /\ variant'.reconciled = variant.reconciled /\ variant.dispatchVersion \in Nat
      BY <1>2, <1>7, <2>1 DEF Start, VariantRows
    <3>3. RowCalm
      BY <3>2 DEF RowCalm
    <3> HIDE DEF new
    <3>4. QueueCalm /\ \A v \in Workers : SlotCalm(v)
      BY <1>1, <3>1, MovedCalm DEF SlotCalm, DeletePcs
    <3> QED BY <1>1, <3>3, <3>4, CalmStep
  <2>2. CASE ~CanStart
    BY <1>1, <1>7, <2>2, RowStays, ReleasedCalm, CalmStep DEF Start
  <2> QED BY <2>1, <2>2
<1> QED BY <1>3, <1>4, <1>5, <1>6, <1>7

\* Attempt, retry guard and credentials: the guard's AMBIGUOUS is no failure.
LEMMA AttemptingSettled ==
  ASSUME TypeOK, TypeOK', Fenced, Settled, NEW w \in Workers,
         \/ FindAttempt(w) \/ CreateAttempt(w) \/ Guard(w)
         \/ Credentials(w) \/ AuthFailure(w) \/ Reauth(w)
  PROVE  Settled'
<1>1. scan' = scan /\ WorldCalm
  BY DEF FindAttempt, CreateAttempt, Guard, Credentials, AuthFailure, Reauth, rowStep,
         accountStep, WorldCalm
<1>2. variant \in VariantRows /\ wk[w] \in WorkerStates
  BY DEF TypeOK
<1>3. ASSUME NEW i, Continue(w, [wk[w] EXCEPT !.pc = AfterAttempt(w), !.attempt = i])
      PROVE  QueueCalm /\ \A v \in Workers : SlotCalm(v)
  <2> DEFINE new == [wk[w] EXCEPT !.pc = AfterAttempt(w), !.attempt = i]
  <2>1. new.pc \in {"guard", "creds"} /\ Continue(w, new)
    BY <1>2, <1>3 DEF WorkerStates, AfterAttempt
  <2> HIDE DEF new
  <2> QED BY <1>1, <2>1, MovedCalm DEF SlotCalm, DeletePcs
<1>4. CASE FindAttempt(w)
  <2>1. RowCalm
    BY <1>4, RowStays DEF FindAttempt
  <2>2. CASE Goto(w, "create")
    BY <1>1, <2>1, <2>2, WentCalm, CalmStep DEF DeletePcs
  <2> QED BY <1>1, <1>3, <1>4, <2>1, <2>2, CalmStep DEF FindAttempt
<1>5. CASE CreateAttempt(w)
  BY <1>1, <1>3, <1>5, RowStays, CalmStep DEF CreateAttempt
<1>6. CASE Guard(w)
  <2>1. CASE variant' = Transitioned("AMBIGUOUS", variant.status) /\ Goto(w, "unknown")
    BY <1>1, <2>1, TransitionCalm, WentCalm, CalmStep DEF DeletePcs
  <2>2. CASE variant' = variant /\ Return(w)
    BY <1>1, <2>2, RowStays, ReleasedCalm, CalmStep
  <2> QED BY <1>6, <2>1, <2>2 DEF Guard
<1>7. CASE Credentials(w)
  <2>1. RowCalm
    BY <1>7, RowStays DEF Credentials, accountStep
  <2>2. CASE Throw(w)
    BY <1>1, <2>1, <2>2, ReleasedCalm, CalmStep
  <2>3. ASSUME NEW pc \in {"poll", "publish", "authFailure"}, Goto(w, pc) PROVE Settled'
    BY <1>1, <2>1, <2>3, WentCalm, CalmStep DEF DeletePcs
  <2> QED BY <1>7, <2>2, <2>3 DEF Credentials
<1>8. CASE AuthFailure(w)
  <2>1. RowCalm
    BY <1>2, <1>8, StatusCalm DEF AuthFailure, VariantRows
  <2> QED BY <1>1, <1>8, <2>1, WentCalm, CalmStep DEF AuthFailure, DeletePcs
<1>9. CASE Reauth(w)
  BY <1>1, <1>9, RowStays, ReleasedCalm, CalmStep DEF Reauth, accountStep
<1> QED BY <1>4, <1>5, <1>6, <1>7, <1>8, <1>9

\* The adapter call up to the checkpoint: a failure that is reported here is not one of a
\* video that is polled, except when the poll finds it lost.
LEMMA PreparingSettled ==
  ASSUME TypeOK, TypeOK', Fenced, Settled, NEW w \in Workers,
         PublishFails(w) \/ PublishThrows(w) \/ OnRemotePrepared(w) \/ Poll(w)
  PROVE  Settled'
<1>1. scan' = scan
  BY DEF PublishFails, PublishThrows, OnRemotePrepared, Poll, localStep, rowStep
<1>2. /\ variant \in VariantRows /\ wk[w] \in WorkerStates
      /\ Knows(wk[w], variant, mutations, adapter)
  BY DEF TypeOK, Fenced
<1>3. CASE PublishFails(w)
  <2> PICK c : Continue(w, [wk[w] EXCEPT !.pc = "result", !.result = c])
    BY <1>3 DEF PublishFails
  <2> DEFINE new == [wk[w] EXCEPT !.pc = "result", !.result = c]
  <2>1. /\ new.pc = "result" /\ new.expectedVersion = wk[w].expectedVersion
        /\ Continue(w, new)
    BY <1>2 DEF WorkerStates
  <2>2. variant' = variant /\ WorldCalm
    BY <1>3 DEF PublishFails, localStep, WorldCalm
  <2>3. wk[w].expectedVersion = variant.dispatchVersion => variant.phase # "PROCESSING_REMOTE"
    BY <1>2, <1>3 DEF PublishFails, At, Knows, Sees, LoadedPcs, TERMINAL_PHASES
  <2> HIDE DEF new
  <2>4. wk'[w] = new => SlotCalm(w)
    BY <2>1, <2>2, <2>3 DEF SlotCalm
  <2> QED BY <1>1, <2>1, <2>2, <2>4, RowStays, MovedCalm, CalmStep
<1>4. CASE PublishThrows(w)
  <2>1. variant' = variant /\ WorldCalm
    BY <1>4 DEF PublishThrows, localStep, WorldCalm
  <2>2. QueueCalm /\ \A v \in Workers : SlotCalm(v)
    BY <1>1, <1>4, ReleasedCalm, WentCalm DEF PublishThrows, DeletePcs
  <2> QED BY <2>1, <2>2, RowStays, CalmStep
<1>5. CASE OnRemotePrepared(w)
  <2>1. WorldCalm /\ adapter # "youtube"
    BY <1>5 DEF OnRemotePrepared, rowStep, WorldCalm, Prepares
  <2>2. CASE adapter # "ig_carousel" /\ CanTransition(w, variant.phase, "CONTAINER_CREATED")
    <3> DEFINE new == [wk[w] EXCEPT
                 !.expectedVersion = @ + 1, !.sourcePhase = "CONTAINER_CREATED",
                 !.pc = IF adapter = "ig_image" THEN "final" ELSE "result",
                 !.result = IF adapter = "ig_image" THEN "NONE" ELSE "PROCESSING"]
    <3>1. new.pc \in {"final", "result"} /\ Continue(w, new)
      BY <1>2, <1>5, <2>2 DEF OnRemotePrepared, WorkerStates
    <3>2. RowCalm
      BY <1>5, <2>1, <2>2, TransitionCalm DEF OnRemotePrepared
    <3> HIDE DEF new
    <3>3. wk'[w] = new => SlotCalm(w)
      BY <2>1, <3>1 DEF SlotCalm, DeletePcs
    <3> QED BY <1>1, <2>1, <3>1, <3>2, <3>3, MovedCalm, CalmStep
  <2>3. CASE ~(adapter # "ig_carousel" /\ CanTransition(w, variant.phase, "CONTAINER_CREATED"))
    BY <1>1, <1>5, <2>1, <2>3, RowStays, ReleasedCalm, CalmStep DEF OnRemotePrepared
  <2> QED BY <2>2, <2>3
<1>6. CASE Poll(w)
  <2>1. RowCalm /\ adapter' = adapter /\ mutations' = mutations
    BY <1>6, RowStays DEF Poll
  <2>2. remote' = remote \/ (adapter = "youtube" /\ remote' = "absent")
    BY <1>6 DEF Poll
  <2>3. WorldCalm
    BY <2>1, <2>2 DEF WorldCalm, Settled, Deletions
  <2>4. ASSUME NEW r, Continue(w, [wk[w] EXCEPT !.pc = "result", !.result = r]),
               r \notin Refusals \/ adapter # "youtube" \/ remote' # "live"
        PROVE  Settled'
    <3> DEFINE new == [wk[w] EXCEPT !.pc = "result", !.result = r]
    <3>1. new.pc = "result" /\ new.result = r /\ Continue(w, new)
      BY <1>2, <2>4 DEF WorkerStates
    <3> HIDE DEF new
    <3>2. wk'[w] = new => SlotCalm(w)
      BY <2>4, <3>1 DEF SlotCalm
    <3> QED BY <1>1, <2>1, <2>3, <3>1, <3>2, MovedCalm, CalmStep
  <2>5. CASE Goto(w, "final")
    BY <1>1, <2>1, <2>3, <2>5, WentCalm, CalmStep DEF DeletePcs
  <2>6. CASE Throw(w)
    BY <1>1, <2>1, <2>3, <2>6, ReleasedCalm, CalmStep
  <2> DEFINE Ends(r) == Continue(w, [wk[w] EXCEPT !.pc = "result", !.result = r])
  <2>7. \/ Ends("SUCCESS") \/ Ends("AMBIGUOUS_PUBLISHED_CONTAINER") \/ Ends("PROCESSING")
        \/ Ends("PERMANENT") /\ (adapter = "youtube" => remote' = "absent")
        \/ Goto(w, "final") \/ Throw(w)
    BY <1>6 DEF Poll
  <2>8. ASSUME NEW r \in {"SUCCESS", "AMBIGUOUS_PUBLISHED_CONTAINER", "PROCESSING"}, Ends(r)
        PROVE  Settled'
    BY <2>4, <2>8 DEF Refusals
  <2>9. ASSUME Ends("PERMANENT"), adapter = "youtube" => remote' = "absent" PROVE Settled'
    BY <2>4, <2>9
  <2> HIDE DEF Ends
  <2> QED BY <2>5, <2>6, <2>7, <2>8, <2>9
<1> QED BY <1>3, <1>4, <1>5, <1>6

\* The checkpoint settles nothing; where it is refused, YouTube's result is unknown.
LEMMA CheckpointSettled ==
  ASSUME TypeOK, TypeOK', Fenced, Settled, NEW w \in Workers, BeforeFinalMutation(w)
  PROVE  Settled'
<1>1. scan' = scan /\ WorldCalm
  BY DEF BeforeFinalMutation, rowStep, WorldCalm
<1>2. wk[w] \in WorkerStates
  BY DEF TypeOK
<1>3. CASE CanTransition(w, variant.phase, "PUBLISH_REQUESTED")
  <2> DEFINE new == [wk[w] EXCEPT !.expectedVersion = @ + 1, !.pc = "mutate",
                                  !.sourcePhase = "PUBLISH_REQUESTED"]
  <2>1. new.pc = "mutate" /\ Continue(w, new)
    BY <1>2, <1>3 DEF BeforeFinalMutation, WorkerStates
  <2>2. RowCalm /\ variant'.phase = "PUBLISH_REQUESTED"
    BY <1>3, TransitionCalm, TransitionedFields DEF BeforeFinalMutation
  <2> HIDE DEF new
  <2>3. wk'[w] = new => SlotCalm(w)
    BY <2>1, <2>2 DEF SlotCalm
  <2> QED BY <1>1, <2>1, <2>2, <2>3, MovedCalm, CalmStep
<1>4. CASE ~CanTransition(w, variant.phase, "PUBLISH_REQUESTED")
  <2>1. RowCalm
    BY <1>4, RowStays DEF BeforeFinalMutation
  <2>2. CASE Return(w)
    BY <1>1, <2>1, <2>2, ReleasedCalm, CalmStep
  <2>3. CASE Continue(w, [wk[w] EXCEPT !.pc = "result", !.result = "UNKNOWN_RESULT"])
    <3> DEFINE new == [wk[w] EXCEPT !.pc = "result", !.result = "UNKNOWN_RESULT"]
    <3>1. new.pc = "result" /\ new.result = "UNKNOWN_RESULT" /\ Continue(w, new)
      BY <1>2, <2>3 DEF WorkerStates
    <3> HIDE DEF new
    <3>2. wk'[w] = new => SlotCalm(w)
      BY <3>1 DEF SlotCalm, Refusals
    <3> QED BY <1>1, <2>1, <3>1, <3>2, MovedCalm, CalmStep
  <2> QED BY <1>4, <2>2, <2>3 DEF BeforeFinalMutation
<1> QED BY <1>3, <1>4

\* The final request: nothing was removed before it, and no operation that failed is armed.
LEMMA MutationSettled ==
  ASSUME TypeOK, TypeOK', Fenced, Settled, NEW w \in Workers, FinalMutation(w)
  PROVE  Settled'
<1>1. /\ variant' = variant /\ adapter' = adapter /\ scan' = scan /\ wk[w].pc = "mutate"
      /\ jobs' = jobs
  BY DEF FinalMutation, At, Continue
<1>2. mutations = 0 /\ remote = "absent"
  BY <1>1 DEF Fenced, Knows, RemoteFollows
<1>3. remote' \in {"absent", "live"}
  BY <1>2 DEF FinalMutation, Answers, Accepted, Unclear, Refused
<1>4. /\ wk'[w].pc = "result" /\ \A v \in Workers \ {w} : wk'[v] = wk[v]
  BY DEF FinalMutation, Continue, TypeOK, WorkerStates
<1>5. ~(variant.phase = "FAILED" /\ ~variant.reconciled)
  BY <1>1 DEF Settled, Truthful, FailedIsOver
<1>6. adapter = "youtube" =>
        variant.phase # "PROCESSING_REMOTE" /\ variant.phase # "CONTAINER_CREATED"
  BY <1>2 DEF Settled, Truthful, VideoIsSent
<1>7. Truthful'
  BY <1>1, <1>5, <1>6 DEF Truthful, FailedIsOver, VideoIsSent, FailsWhenLost
<1>8. DeletionAsked' => DeletionAsked
  BY <1>1, <1>4 DEF DeletionAsked
<1>9. ASSUME NEW v \in Workers
      PROVE  /\ wk'[v].pc \in DeletePcs \ {"delLoad"} => adapter' = "linkedin"
             /\ ~(wk'[v].pc = "delRecord" /\ wk'[v].result = "SUCCESS")
  BY <1>1, <1>2, <1>4 DEF Settled, Deletions, DeletePcs
<1>10. Deletions'
  BY <1>1, <1>2, <1>3, <1>8, <1>9 DEF Settled, Deletions
<1> QED BY <1>7, <1>10 DEF Settled

\* An operation that is recorded as failed left nothing at the provider: its final request
\* was not sent, or the video it sent was found lost.
LEMMA FailureSettled ==
  ASSUME TypeOK, TypeOK', Fenced, Settled, NEW w \in Workers, ResultFailure(w),
         CanTransition(w, wk[w].sourcePhase, "FAILED")
  PROVE  Settled'
<1>1. /\ scan' = scan /\ remote' = remote /\ adapter' = adapter /\ mutations' = mutations
      /\ wk[w].pc = "result" /\ wk[w].result \in Refusals
      /\ Return(w) \/ Goto(w, "reauth")
  BY DEF ResultFailure, At, rowStep, Failures, OutcomeUnknown, Refusals
<1>2. /\ variant \in VariantRows /\ variant.dispatchVersion \in Nat
      /\ variant'.phase = "FAILED" /\ variant'.status = "FAILED"
      /\ variant'.dispatchVersion = variant.dispatchVersion + 1
      /\ variant'.externalPostId = variant.externalPostId
  BY TransitionedFields DEF ResultFailure, TypeOK, VariantRows
<1>3. /\ variant.phase \in {"INITIATED", "CONTAINER_CREATED", "PROCESSING_REMOTE"}
      /\ variant.phase = wk[w].sourcePhase
      /\ wk[w].expectedVersion = variant.dispatchVersion
  BY <1>2 DEF CanTransition, ALLOWED_TRANSITIONS, VariantRows, Phases
<1>4. remote # "live" /\ \A v \in Workers : wk[v].pc # "mutate"
  <2>1. CASE variant.phase # "PROCESSING_REMOTE" \/ adapter # "youtube"
    <3>1. ~Armed
      BY <1>3, <2>1 DEF Fenced, ArmedPhase
    <3>2. mutations = 0
      BY <3>1 DEF Armed, Fenced
    <3> QED BY <3>1, <3>2 DEF Armed, Fenced, RemoteFollows
  <2>2. CASE variant.phase = "PROCESSING_REMOTE" /\ adapter = "youtube"
    <3>1. mutations = 1
      BY <2>2 DEF Settled, Truthful, VideoIsSent
    <3>2. \A v \in Workers : wk[v].pc # "mutate"
      BY <3>1 DEF Fenced, Knows
    <3>3. remote # "live"
      BY <1>1, <1>3, <2>2 DEF Settled, Truthful, FailsWhenLost, Refusals
    <3> QED BY <3>2, <3>3
  <2> QED BY <2>1, <2>2
<1>5. QueueCalm /\ \A v \in Workers : SlotCalm(v)
  BY <1>1, ReleasedCalm, WentCalm DEF DeletePcs
<1>6. \A v \in Workers : wk'[v].pc # "mutate"
  BY <1>2, <1>4, <1>5 DEF SlotCalm, DeletePcs
<1>7. Truthful'
  BY <1>1, <1>2, <1>4, <1>6 DEF Truthful, FailedIsOver, VideoIsSent, FailsWhenLost
<1>8. DeletionAsked' => variant'.externalPostId # "none"
  <2>1. DeletionAsked' => DeletionAsked
    BY <1>2, <1>5 DEF DeletionAsked, QueueCalm, SlotCalm, DeletePcs
  <2> QED BY <1>2, <2>1 DEF Settled, Deletions
<1>9. ASSUME NEW v \in Workers
      PROVE  /\ wk'[v].pc \in DeletePcs \ {"delLoad"} => adapter' = "linkedin"
             /\ wk'[v].pc = "delRecord" /\ wk'[v].result = "SUCCESS" => remote' = "removed"
  BY <1>1, <1>5 DEF Settled, Deletions, SlotCalm, DeletePcs
<1>10. Deletions'
  BY <1>1, <1>2, <1>8, <1>9 DEF Settled, Deletions
<1> QED BY <1>7, <1>10 DEF Settled

\* Recording the result
LEMMA ResultSettled ==
  ASSUME TypeOK, TypeOK', Fenced, Settled, NEW w \in Workers,
         \/ ResultProcessing(w) \/ ResultSuccess(w) \/ Audit(w)
         \/ ResultUnknown(w) \/ ResultFailure(w) \/ Unknown(w)
  PROVE  Settled'
<1>1. scan' = scan /\ WorldCalm
  BY DEF ResultProcessing, ResultSuccess, Audit, ResultUnknown, ResultFailure, Unknown,
         localStep, rowStep, WorldCalm
<1>2. /\ variant \in VariantRows /\ wk[w] \in WorkerStates
      /\ variant.dispatchVersion \in Nat
      /\ Knows(wk[w], variant, mutations, adapter)
  BY DEF TypeOK, VariantRows, Fenced
<1>3. ASSUME RowCalm, Return(w) \/ Throw(w) \/ Goto(w, "unknown") \/ Goto(w, "audit")
      PROVE  Settled'
  <2>1. QueueCalm /\ \A v \in Workers : SlotCalm(v)
    BY <1>1, <1>3, ReleasedCalm, WentCalm DEF DeletePcs
  <2> QED BY <1>1, <1>3, <2>1, CalmStep
<1>4. CASE ResultProcessing(w)
  <2>1. CASE CanTransition(w, wk[w].sourcePhase, "PROCESSING_REMOTE")
    <3>1. /\ variant.phase \in {"CONTAINER_CREATED", "PROCESSING_REMOTE", "PUBLISH_REQUESTED"}
          /\ variant.phase = wk[w].sourcePhase
      BY <1>2, <2>1 DEF CanTransition, ALLOWED_TRANSITIONS, VariantRows, Phases
    <3>2. variant.phase = "PUBLISH_REQUESTED" => mutations = 1
      BY <1>2, <1>4, <3>1 DEF Knows, ResultProcessing, At
    <3>3. adapter = "youtube" => mutations = 1
      BY <3>1, <3>2 DEF Settled, Truthful, VideoIsSent
    <3>4. variant' = Transitioned("PROCESSING_REMOTE", variant.status) /\ Return(w)
      BY <1>4, <2>1 DEF ResultProcessing
    <3> QED BY <1>3, <3>3, <3>4, TransitionCalm
  <2>2. CASE ~CanTransition(w, wk[w].sourcePhase, "PROCESSING_REMOTE")
    BY <1>3, <1>4, <2>2, RowStays DEF ResultProcessing
  <2> QED BY <2>1, <2>2
<1>5. CASE ResultSuccess(w)
  <2>1. CASE CanTransition(w, wk[w].sourcePhase, "COMPLETED")
    <3>1. /\ variant'.phase = "COMPLETED" /\ variant'.status = "PUBLISHED"
          /\ variant'.externalPostId = "provider" /\ variant'.reconciled = variant.reconciled
          /\ variant'.dispatchVersion = variant.dispatchVersion + 1
      BY <1>2, <1>5, <2>1 DEF ResultSuccess, Transitioned, VariantRows
    <3>2. RowCalm
      BY <1>2, <3>1 DEF RowCalm
    <3> QED BY <1>3, <1>5, <2>1, <3>2 DEF ResultSuccess
  <2>2. CASE ~CanTransition(w, wk[w].sourcePhase, "COMPLETED")
    BY <1>3, <1>5, <2>2, RowStays DEF ResultSuccess
  <2> QED BY <2>1, <2>2
<1>6. CASE Audit(w)
  BY <1>3, <1>6, RowStays DEF Audit, localStep
<1>7. CASE ResultUnknown(w)
  <2>1. CASE variant' = Transitioned("AMBIGUOUS", "UNKNOWN") /\ Return(w)
    BY <1>3, <2>1, TransitionCalm
  <2>2. CASE variant' = variant /\ Throw(w)
    BY <1>3, <2>2, RowStays
  <2> QED BY <1>7, <2>1, <2>2 DEF ResultUnknown
<1>8. CASE ResultFailure(w)
  <2>1. CASE CanTransition(w, wk[w].sourcePhase, "FAILED")
    BY <1>8, <2>1, FailureSettled
  <2>2. CASE ~CanTransition(w, wk[w].sourcePhase, "FAILED")
    BY <1>3, <1>8, <2>2, RowStays DEF ResultFailure
  <2> QED BY <2>1, <2>2
<1>9. CASE Unknown(w)
  <2>1. RowCalm
    BY <1>2, <1>9, StatusCalm DEF Unknown, VariantRows
  <2> QED BY <1>3, <1>9, <2>1 DEF Unknown
<1> QED BY <1>4, <1>5, <1>6, <1>7, <1>8, <1>9

\* processDelete: without an id there is nothing to delete, which never happens, and
\* DELETED is written only when the provider has deleted.
LEMMA DeleteSettled ==
  ASSUME TypeOK, TypeOK', Fenced, Settled, NEW w \in Workers, DeleteStep(w)
  PROVE  Settled'
<1>1. scan' = scan /\ adapter' = adapter /\ mutations' = mutations
  BY DEF DeleteStep, DeleteLoad, DeleteCredentials, DeleteCall, DeleteReauth, DeleteRecord,
         rowStep, accountStep
<1>2. variant \in VariantRows /\ wk[w] \in WorkerStates
  BY DEF TypeOK
<1>3. ASSUME NEW pc \in {"delCreds", "delCall", "delReauth"}, Goto(w, pc), adapter = "linkedin"
      PROVE  QueueCalm /\ \A v \in Workers : SlotCalm(v)
  <2> DEFINE new == [wk[w] EXCEPT !.pc = pc]
  <2>1. new.pc = pc /\ Continue(w, new)
    BY <1>2, <1>3 DEF WorkerStates, Goto
  <2> HIDE DEF new
  <2>2. wk'[w] = new => SlotCalm(w)
    BY <1>3, <2>1 DEF SlotCalm, DeletePcs
  <2> QED BY <1>1, <2>1, <2>2, MovedCalm
<1>4. ASSUME NEW r, Continue(w, [wk[w] EXCEPT !.pc = "delRecord", !.result = r]),
             adapter = "linkedin", r # "SUCCESS" \/ remote' = "removed"
      PROVE  QueueCalm /\ \A v \in Workers : SlotCalm(v)
  <2> DEFINE new == [wk[w] EXCEPT !.pc = "delRecord", !.result = r]
  <2>1. new.pc = "delRecord" /\ new.result = r /\ Continue(w, new)
    BY <1>2, <1>4 DEF WorkerStates
  <2> HIDE DEF new
  <2>2. wk'[w] = new => SlotCalm(w)
    BY <1>4, <2>1 DEF SlotCalm, DeletePcs
  <2> QED BY <1>1, <2>1, <2>2, MovedCalm
<1>5. wk[w].pc \in DeletePcs \ {"delLoad"} => adapter = "linkedin"
  BY DEF Settled, Deletions
<1>6. CASE DeleteLoad(w)
  <2>1. variant.externalPostId # "none"
    BY <1>6 DEF DeleteLoad, At, Settled, Deletions, DeletionAsked
  <2>2. variant' = variant /\ WorldCalm
    BY <1>6, <2>1 DEF DeleteLoad, rowStep, WorldCalm
  <2>3. QueueCalm /\ \A v \in Workers : SlotCalm(v)
    BY <1>1, <1>3, <1>6, ReleasedCalm DEF DeleteLoad
  <2> QED BY <2>2, <2>3, RowStays, CalmStep
<1>7. CASE DeleteCredentials(w)
  <2>1. variant' = variant /\ WorldCalm /\ adapter = "linkedin"
    BY <1>5, <1>7 DEF DeleteCredentials, accountStep, WorldCalm, At, DeletePcs
  <2>2. QueueCalm /\ \A v \in Workers : SlotCalm(v)
    BY <1>1, <1>3, <1>7, <2>1, ReleasedCalm DEF DeleteCredentials
  <2> QED BY <2>1, <2>2, RowStays, CalmStep
<1>8. CASE DeleteCall(w)
  <2>1. variant' = variant /\ adapter = "linkedin"
    BY <1>5, <1>8 DEF DeleteCall, At, DeletePcs
  <2>2. remote' = remote \/ (remote = "live" /\ remote' = "removed")
    BY <1>8 DEF DeleteCall
  <2>3. WorldCalm
    BY <1>1, <2>1, <2>2 DEF WorldCalm
  <2> DEFINE Ends(r) == Continue(w, [wk[w] EXCEPT !.pc = "delRecord", !.result = r])
  <2>4. \/ Ends("SUCCESS") /\ remote' = "removed"
        \/ Ends("PERMANENT") \/ Goto(w, "delReauth") \/ Throw(w)
    BY <1>8 DEF DeleteCall
  <2>5. ASSUME Ends("SUCCESS"), remote' = "removed"
        PROVE  QueueCalm /\ \A v \in Workers : SlotCalm(v)
    BY <1>4, <2>1, <2>5
  <2>6. ASSUME Ends("PERMANENT") PROVE QueueCalm /\ \A v \in Workers : SlotCalm(v)
    <3>1. "PERMANENT" # "SUCCESS"
      OBVIOUS
    <3> QED BY ONLY <1>4, <2>1, <2>6, <3>1
  <2> HIDE DEF Ends
  <2>7. QueueCalm /\ \A v \in Workers : SlotCalm(v)
    BY <1>1, <1>3, <2>1, <2>4, <2>5, <2>6, ReleasedCalm
  <2> QED BY <2>1, <2>3, <2>7, RowStays, CalmStep
<1>9. CASE DeleteReauth(w)
  <2>1. /\ variant' = variant /\ WorldCalm /\ adapter = "linkedin"
        /\ Continue(w, [wk[w] EXCEPT !.pc = "delRecord", !.result = "AUTH_REQUIRED"])
    BY <1>5, <1>9 DEF DeleteReauth, accountStep, WorldCalm, At, DeletePcs
  <2>2. QueueCalm /\ \A v \in Workers : SlotCalm(v)
    <3>1. "AUTH_REQUIRED" # "SUCCESS"
      OBVIOUS
    <3> QED BY ONLY <1>4, <2>1, <3>1
  <2> QED BY <2>1, <2>2, RowStays, CalmStep
<1>10. CASE DeleteRecord(w)
  <2>1. /\ variant' = [variant EXCEPT
             !.status = IF wk[w].result = "SUCCESS" THEN "DELETED" ELSE "UNKNOWN"]
        /\ Return(w) /\ WorldCalm /\ remote' = remote
    BY <1>10 DEF DeleteRecord, rowStep, WorldCalm
  <2>2. wk[w].result = "SUCCESS" => remote = "removed"
    BY <1>10 DEF DeleteRecord, At, Settled, Deletions
  <2>3. /\ variant'.phase = variant.phase /\ variant'.reconciled = variant.reconciled
        /\ variant'.externalPostId = variant.externalPostId
        /\ variant'.dispatchVersion = variant.dispatchVersion /\ variant.dispatchVersion \in Nat
        /\ variant'.status = IF wk[w].result = "SUCCESS" THEN "DELETED" ELSE "UNKNOWN"
    BY <1>2, <2>1 DEF VariantRows
  <2>4. RowCalm
    BY <2>1, <2>2, <2>3 DEF RowCalm
  <2> QED BY <1>1, <2>1, <2>4, ReleasedCalm, CalmStep
<1> QED BY <1>6, <1>7, <1>8, <1>9, <1>10 DEF DeleteStep

\* A throwing database call settles nothing: for YouTube the result is unknown.
LEMMA DatabaseErrorSettled ==
  ASSUME TypeOK, TypeOK', Fenced, Settled, NEW w \in Workers, DatabaseError(w)
  PROVE  Settled'
<1>1. scan' = scan /\ RowCalm /\ WorldCalm
  BY RowStays DEF DatabaseError, WorldCalm
<1>2. wk[w] \in WorkerStates
  BY DEF TypeOK
<1>3. ASSUME NEW r, Continue(w, [wk[w] EXCEPT !.pc = "result", !.result = r]),
             r \notin Refusals \/ adapter # "youtube"
      PROVE  QueueCalm /\ \A v \in Workers : SlotCalm(v)
  <2> DEFINE new == [wk[w] EXCEPT !.pc = "result", !.result = r]
  <2>1. new.pc = "result" /\ new.result = r /\ Continue(w, new)
    BY <1>2, <1>3 DEF WorkerStates
  <2> HIDE DEF new
  <2>2. wk'[w] = new => SlotCalm(w)
    BY <1>3, <2>1 DEF SlotCalm
  <2> QED BY <1>1, <2>1, <2>2, MovedCalm
<1> DEFINE Ends(r) == Continue(w, [wk[w] EXCEPT !.pc = "result", !.result = r])
<1>4. \/ Return(w) \/ Throw(w) \/ Goto(w, "unknown") \/ Ends("UNKNOWN_RESULT")
      \/ Ends("TRANSIENT") /\ adapter # "youtube"
  BY DEF DatabaseError
<1>5. ASSUME Ends("UNKNOWN_RESULT") PROVE QueueCalm /\ \A v \in Workers : SlotCalm(v)
  BY <1>3, <1>5 DEF Refusals
<1>6. ASSUME Ends("TRANSIENT"), adapter # "youtube"
      PROVE  QueueCalm /\ \A v \in Workers : SlotCalm(v)
  BY <1>3, <1>6
<1> HIDE DEF Ends
<1>7. QueueCalm /\ \A v \in Workers : SlotCalm(v)
  BY <1>1, <1>4, <1>5, <1>6, ReleasedCalm, WentCalm DEF DeletePcs
<1> QED BY <1>1, <1>7, CalmStep

-----------------------------------------------------------------------------
\* Nothing has failed or been deleted at first.
LEMMA InitSettled == Init => Settled
BY DEF Init, Settled, Truthful, FailedIsOver, VideoIsSent, FailsWhenLost, Deletions,
       DeletionAsked, Idle, NoScan, DeletePcs

\* Every step keeps what failures and deletions rest on.
LEMMA NextSettled ==
  ASSUME TypeOK, TypeOK', Fenced, Settled, [Next]_vars PROVE Settled'
<1>1. CASE UNCHANGED vars
  <2>1. QueueCalm /\ WorldCalm /\ \A v \in Workers : SlotCalm(v)
    BY <1>1 DEF vars, QueueCalm, WorldCalm, SlotCalm
  <2> QED BY <1>1, <2>1, RowStays, CalmStep DEF vars
<1>2. CASE ApiNext
  BY <1>2, ApiSettled
<1>3. CASE DispatcherNext
  BY <1>3, DispatcherSettled
<1>4. CASE ProcessorNext
  <2> PICK w \in Workers : WorkerStep(w) \/ DatabaseError(w)
    BY <1>4 DEF ProcessorNext
  <2> QED BY TakeJobSettled, ClaimingSettled, AttemptingSettled, PreparingSettled,
             CheckpointSettled, MutationSettled, ResultSettled, DeleteSettled,
             DatabaseErrorSettled DEF WorkerStep, PublishStep
<1>5. CASE EnvironmentNext
  BY <1>5, EnvironmentSettled
<1> QED BY <1>1, <1>2, <1>3, <1>4, <1>5 DEF Next

\* What failures and deletions rest on holds always.
THEOREM AlwaysSettled == Spec => []Settled
<1>1. TypeOK /\ TypeOK' /\ Fenced /\ Settled /\ [Next]_vars => Settled'
  BY NextSettled
<1> QED BY <1>1, InitSettled, TypeCorrect, AlwaysFenced, PTL DEF Spec

\* An operation that handleFailure recorded as FAILED is not at the provider: the user who
\* retries or deletes it is not told a lie (transitionOperation, ALLOWED_TRANSITIONS).
THEOREM FailuresAreTruthful == Spec => []FailureIsTruthful
<1>1. Settled => FailureIsTruthful
  BY DEF Settled, Truthful, FailedIsOver, FailureIsTruthful
<1> QED BY <1>1, AlwaysSettled, PTL

\* A publication shown as DELETED is gone at the provider, over retried, stalled and
\* concurrent deletions (processDelete).
THEOREM DeletionsAreReal == Spec => []DeletedIsGone
<1>1. Settled => DeletedIsGone
  BY DEF Settled, Deletions, DeletedIsGone
<1> QED BY <1>1, AlwaysSettled, PTL
=============================================================================
