------------------------- MODULE PublishingProcessor -------------------------
(***************************************************************************)
(* PublishingProcessor.process and processDelete: what a worker slot does  *)
(* with a job, one action per database statement, transaction or provider  *)
(* call.  Any other process may act between two of them.                   *)
(***************************************************************************)
EXTENDS PublishingState

\* a local step: neither the row nor anything outside the slot and its job changes
localStep == UNCHANGED <<variant, attempts, account, scan, reconciling, adapter,
                         remote, mutations, used>>

\* a step that writes at most the row and its attempts
rowStep == UNCHANGED <<account, scan, reconciling, adapter, remote, mutations, used>>

accountStep == UNCHANGED <<variant, attempts, scan, reconciling, adapter, remote,
                           mutations, used>>

At(w, pc) == wk[w].pc = pc

\* BullMQ hands a waiting job to a free slot
TakeJob(w) ==
  \E j \in jobs :
    /\ At(w, "idle")
    /\ j.state = "waiting"
    /\ jobs' = (jobs \ {j}) \cup {[j EXCEPT !.state = "active", !.owner = w]}
    /\ wk' = [wk EXCEPT ![w] = [Idle EXCEPT
                !.pc = IF j.kind = "publish" THEN "load" ELSE "delLoad",
                !.version = j.version, !.jobOperationId = j.operationId]]
    /\ localStep

-----------------------------------------------------------------------------
(* Load, fences, claim                                                     *)

StaleJob(w) == \/ variant.status \notin {"QUEUED", "PUBLISHING"}
               \/ variant.dispatchVersion # wk[w].version

\* a continuation that cannot go on: no metadata, another operation, or it is over
DeadContinuation(w) ==
  \/ variant.phase = "NONE"
  \/ wk[w].jobOperationId # 0 /\ wk[w].jobOperationId # variant.operationId
  \/ variant.phase \in TERMINAL_PHASES

\* The category of the first fence that stops the job.  Whether the workspace is
\* read-only (billing) and whether the content still validates is the environment's.
FenceCategories == IF account # "ACTIVE" THEN {"AUTH_REQUIRED"}
                                         ELSE {"PERMANENT"}

Load(w) ==
  /\ At(w, "load")
  /\ localStep
  /\ \/ StaleJob(w) /\ Return(w)
     \/ /\ ~StaleJob(w)
        /\ \E c \in FenceCategories :
             Continue(w, [wk[w] EXCEPT !.pc = "fence", !.result = c])
     \/ /\ ~StaleJob(w) /\ account = "ACTIVE"
        /\ variant.status = "QUEUED"
        /\ Goto(w, "claim")
     \/ /\ ~StaleJob(w) /\ account = "ACTIVE"
        /\ variant.status = "PUBLISHING"
        /\ IF DeadContinuation(w)
             THEN Return(w)
             ELSE Continue(w, [wk[w] EXCEPT !.pc = "attempt", !.isContinuation = TRUE,
                     !.operationId = variant.operationId, !.expectedVersion = wk[w].version,
                     !.sourcePhase = "PROCESSING_REMOTE", !.loadedPhase = variant.phase])

\* the fences write FAILED whatever the row has become since it was loaded
Fence(w) ==
  /\ At(w, "fence")
  /\ variant' = [variant EXCEPT !.status = "FAILED"]
  /\ Goto(w, "fenceAttempt")
  /\ UNCHANGED attempts /\ rowStep

FenceAttempt(w) ==
  /\ At(w, "fenceAttempt")
  /\ attempts' = Append(attempts, [status |-> "FAILED", failureCategory |-> wk[w].result,
                                   fresh |-> FALSE])
  /\ Return(w)
  /\ UNCHANGED variant /\ rowStep

\* CAS on status QUEUED and dispatchVersion; the version does not move
Claim(w) ==
  /\ At(w, "claim")
  /\ IF variant.status = "QUEUED" /\ variant.dispatchVersion = wk[w].version
       THEN /\ variant' = [variant EXCEPT !.status = "PUBLISHING"]
            /\ Goto(w, "start")
       ELSE UNCHANGED variant /\ Return(w)
  /\ UNCHANGED attempts /\ rowStep

\* mutant: any operation may be replaced
CanStart_MutAlways == TRUE

\* startOperation succeeds only when there is no execution metadata at all
CanStart == variant.phase = "NONE"

Start(w) ==
  /\ At(w, "start")
  /\ IF CanStart
       THEN /\ variant' = [variant EXCEPT !.phase = "INITIATED", !.operationId = @ + 1,
                                          !.dispatchVersion = @ + 1]
            /\ Continue(w, [wk[w] EXCEPT !.pc = "attempt",
                  !.operationId = variant.operationId + 1,
                  !.expectedVersion = variant.dispatchVersion + 1,
                  !.sourcePhase = "INITIATED", !.loadedPhase = "INITIATED"])
       ELSE UNCHANGED variant /\ Return(w)
  /\ UNCHANGED attempts /\ rowStep

-----------------------------------------------------------------------------
(* Attempt, retry guard, credentials                                       *)

AfterAttempt(w) ==
  IF wk[w].isContinuation /\ wk[w].loadedPhase = "PUBLISH_REQUESTED" THEN "guard" ELSE "creds"

Open == {i \in DOMAIN attempts : attempts[i].status = "PUBLISHING"}

\* the latest open attempt is reused and its heartbeat refreshed
FindAttempt(w) ==
  /\ At(w, "attempt")
  /\ \/ /\ Open = {}
        /\ Goto(w, "create")
        /\ UNCHANGED attempts
     \/ \E i \in Open :
          /\ \A k \in Open : k <= i
          /\ attempts' = [attempts EXCEPT ![i].fresh = TRUE]
          /\ Continue(w, [wk[w] EXCEPT !.pc = AfterAttempt(w), !.attempt = i])
  /\ UNCHANGED variant /\ rowStep

\* getNextAttemptNumber and create
CreateAttempt(w) ==
  /\ At(w, "create")
  /\ attempts' = Append(attempts, [status |-> "PUBLISHING", failureCategory |-> "NONE",
                                   fresh |-> TRUE])
  /\ Continue(w, [wk[w] EXCEPT !.pc = AfterAttempt(w), !.attempt = Len(attempts) + 1])
  /\ UNCHANGED variant /\ rowStep

\* AMBIGUOUS_RETRY_PROTECTION: the final request may be out, do not repeat it
Guard(w) ==
  /\ At(w, "guard")
  /\ IF CanTransition(w, "PUBLISH_REQUESTED", "AMBIGUOUS")
       THEN variant' = Transitioned("AMBIGUOUS", variant.status) /\ Goto(w, "unknown")
       ELSE UNCHANGED variant /\ Return(w)
  /\ UNCHANGED attempts /\ rowStep

\* getExecutionCredentials: credentials, AuthRequiredError, or a transient error
Credentials(w) ==
  /\ At(w, "creds")
  /\ \/ /\ Goto(w, IF wk[w].isContinuation /\ wk[w].loadedPhase = "PROCESSING_REMOTE"
                     THEN "poll" ELSE "publish")
        /\ UNCHANGED account
     \/ /\ account' = "REAUTH_REQUIRED"
        /\ Goto(w, "authFailure")
     \/ Throw(w) /\ UNCHANGED account
  /\ accountStep

\* handleFailure without a phase transition
AuthFailure(w) ==
  /\ At(w, "authFailure")
  /\ variant' = [variant EXCEPT !.status = "FAILED"]
  /\ attempts' = Closed(wk[w].attempt, "FAILED", "AUTH_REQUIRED")
  /\ Goto(w, "reauth")
  /\ rowStep

\* what handleFailure does after its transaction when the category is AUTH_REQUIRED
Reauth(w) ==
  /\ At(w, "reauth")
  /\ account' = "REAUTH_REQUIRED"
  /\ Return(w)
  /\ accountStep

-----------------------------------------------------------------------------
(* The adapter call and its hooks                                          *)

Prepares == {"ig_image", "ig_reel", "ig_carousel"}

\* publish() of each adapter gives up before its first hook: missing input, media that
\* cannot be read, an upload or a container the provider refuses.  VALIDATION stands with
\* PERMANENT and RATE_LIMITED with TRANSIENT: handleFailure does the same for them.
linkedinRefusesInput == {"PERMANENT"}
linkedinDocumentFails == {"PERMANENT", "TRANSIENT", "AUTH_REQUIRED"}
linkedinVideoFails == {"PERMANENT", "TRANSIENT", "AUTH_REQUIRED"}
linkedinImageFails == {"PERMANENT", "TRANSIENT", "AUTH_REQUIRED"}
linkedinGivesUp ==
  linkedinRefusesInput \cup linkedinDocumentFails \cup linkedinVideoFails \cup linkedinImageFails
facebookGivesUp == {"PERMANENT", "UNKNOWN_RESULT"}
imageGivesUp == {"PERMANENT", "TRANSIENT", "AUTH_REQUIRED"}
reelGivesUp == {"PERMANENT", "TRANSIENT", "AUTH_REQUIRED"}
youtubeGivesUp == {"PERMANENT", "TRANSIENT"}

PreparationFailures ==
  CASE adapter = "linkedin" -> linkedinGivesUp
    [] adapter = "facebook" -> facebookGivesUp
    [] adapter = "youtube"  -> youtubeGivesUp
    [] adapter = "ig_reel"  -> reelGivesUp
    [] OTHER                -> imageGivesUp

PublishFails(w) ==
  /\ At(w, "publish")
  /\ \E c \in PreparationFailures : Continue(w, [wk[w] EXCEPT !.pc = "result", !.result = c])
  /\ localStep

\* LinkedIn's upload calls let a body that is not JSON throw: UNHANDLED_EXCEPTION
PublishThrows(w) ==
  /\ At(w, "publish") /\ adapter = "linkedin"
  /\ IF wk[w].sourcePhase = "PROCESSING_REMOTE" THEN Throw(w) ELSE Goto(w, "unknown")
  /\ localStep

\* onRemotePrepared after the container was created; the carousel passes no
\* containerId, which transitionOperation refuses
OnRemotePrepared(w) ==
  /\ At(w, "publish") /\ adapter \in Prepares
  /\ IF adapter # "ig_carousel" /\ CanTransition(w, variant.phase, "CONTAINER_CREATED")
       THEN /\ variant' = Transitioned("CONTAINER_CREATED", variant.status)
            /\ Continue(w, [wk[w] EXCEPT
                 !.expectedVersion = @ + 1, !.sourcePhase = "CONTAINER_CREATED",
                 !.pc = IF adapter = "ig_image" THEN "final" ELSE "result",
                 !.result = IF adapter = "ig_image" THEN "NONE" ELSE "PROCESSING"])
       ELSE UNCHANGED variant /\ Return(w)
  /\ UNCHANGED attempts /\ rowStep

\* mutant: the hook reads the row and persists nothing
BeforeFinalMutation_MutNoCheckpoint(w) ==
  /\ At(w, "final") \/ (At(w, "publish") /\ adapter \notin Prepares)
  /\ Goto(w, "mutate")
  /\ UNCHANGED <<variant, attempts>> /\ rowStep

\* beforeFinalMutation: the durable checkpoint.  YouTube's catch turns the
\* refusal into UNKNOWN_RESULT, the others let it abort the job.
BeforeFinalMutation(w) ==
  /\ At(w, "final") \/ (At(w, "publish") /\ adapter \notin Prepares)
  /\ IF CanTransition(w, variant.phase, "PUBLISH_REQUESTED")
       THEN /\ variant' = Transitioned("PUBLISH_REQUESTED", variant.status)
            /\ Continue(w, [wk[w] EXCEPT !.expectedVersion = @ + 1, !.pc = "mutate",
                                         !.sourcePhase = "PUBLISH_REQUESTED"])
       ELSE /\ UNCHANGED variant
            /\ IF adapter = "youtube"
                 THEN Continue(w, [wk[w] EXCEPT !.pc = "result", !.result = "UNKNOWN_RESULT"])
                 ELSE Return(w)
  /\ UNCHANGED attempts /\ rowStep

\* How the final request can end: what it did at the provider and what the adapter says
Accepted == [remote |-> "live", result |-> IF adapter = "youtube" THEN "PROCESSING" ELSE "SUCCESS"]

\* network error, 5xx, or a 2xx without the id: it may or may not be published
linkedinUnclear == {"UNKNOWN_RESULT"}
facebookUnclear == {"UNKNOWN_RESULT", "TRANSIENT", "PERMANENT"}
instagramUnclear == {"TRANSIENT", "PERMANENT"}
youtubeUnclear == {"UNKNOWN_RESULT"}

Unclear == [remote: {remote, "live"},
            result: CASE adapter = "linkedin" -> linkedinUnclear
                      [] adapter = "facebook" -> facebookUnclear
                      [] adapter = "youtube"  -> youtubeUnclear
                      [] OTHER                -> instagramUnclear]

Refused == [remote: {remote}, result: {"AUTH_REQUIRED", "PERMANENT"}]

Answers == {Accepted} \cup Unclear \cup Refused

\* the final request itself
FinalMutation(w) ==
  /\ At(w, "mutate")
  /\ mutations' = mutations + 1
  /\ \E a \in Answers :
       /\ remote' = a.remote
       /\ Continue(w, [wk[w] EXCEPT !.pc = "result", !.result = a.result])
  /\ UNCHANGED <<variant, attempts, account, scan, reconciling, adapter, used>>

\* What checkStatus can say of a container or a video: READY to be finalized, live,
\* lost, not yet known, or (Instagram) an error that is thrown on
instagramStatus ==
  {"READY", "FAILED", "PROCESSING", "THROWS"}
  \cup (IF remote = "live" THEN {"PUBLISHED"} ELSE {})
youtubeStatus == {"FAILED", "PROCESSING"} \cup (IF remote = "live" THEN {"PUBLISHED"} ELSE {})

\* only a reel and a video are ever PROCESSING_REMOTE; Facebook's answer is UNKNOWN
checkStatus == CASE adapter = "ig_reel" -> instagramStatus
                 [] adapter = "youtube" -> youtubeStatus
                 [] OTHER               -> {"PROCESSING"}

\* A PROCESSING_REMOTE operation is polled.  Only Instagram has finalizePublish.
Poll(w) ==
  /\ At(w, "poll")
  /\ UNCHANGED <<variant, attempts, account, scan, reconciling, adapter, mutations>>
  /\ \/ /\ "PUBLISHED" \in checkStatus
        /\ Continue(w, [wk[w] EXCEPT !.pc = "result",
             !.result = IF adapter = "youtube" THEN "SUCCESS" ELSE "AMBIGUOUS_PUBLISHED_CONTAINER"])
        /\ UNCHANGED <<remote, used>>
     \/ /\ "READY" \in checkStatus
        /\ Goto(w, "final")
        /\ UNCHANGED <<remote, used>>
     \/ /\ "FAILED" \in checkStatus
        /\ Continue(w, [wk[w] EXCEPT !.pc = "result", !.result = "PERMANENT"])
        /\ remote' = IF adapter = "youtube" THEN "absent" ELSE remote
        /\ UNCHANGED used
     \/ /\ "PROCESSING" \in checkStatus /\ Spend("polls")
        /\ Continue(w, [wk[w] EXCEPT !.pc = "result", !.result = "PROCESSING"])
        /\ UNCHANGED remote
     \/ /\ "THROWS" \in checkStatus
        /\ Throw(w)
        /\ UNCHANGED <<remote, used>>

-----------------------------------------------------------------------------
(* 8. Handle Result                                                        *)

\* PROCESSING: come back later; a refused transition ends in UNKNOWN
ResultProcessing(w) ==
  /\ At(w, "result") /\ wk[w].result = "PROCESSING"
  /\ IF CanTransition(w, wk[w].sourcePhase, "PROCESSING_REMOTE")
       THEN variant' = Transitioned("PROCESSING_REMOTE", variant.status) /\ Return(w)
       ELSE UNCHANGED variant /\ Goto(w, "unknown")
  /\ UNCHANGED attempts /\ rowStep

\* mutant: the result of the phase transition is ignored
ResultSuccess_MutUnchecked(w) ==
  /\ At(w, "result") /\ wk[w].result = "SUCCESS"
  /\ variant' = [variant EXCEPT !.status = "PUBLISHED", !.externalPostId = "provider"]
  /\ attempts' = [attempts EXCEPT ![wk[w].attempt].status = "SUCCESS"]
  /\ Goto(w, "audit")
  /\ rowStep

\* handleSuccess: one transaction, then the audit record
ResultSuccess(w) ==
  /\ At(w, "result") /\ wk[w].result = "SUCCESS"
  /\ IF CanTransition(w, wk[w].sourcePhase, "COMPLETED")
       THEN /\ variant' = [Transitioned("COMPLETED", "PUBLISHED")
                             EXCEPT !.externalPostId = "provider"]
            /\ attempts' = [attempts EXCEPT ![wk[w].attempt].status = "SUCCESS"]
            /\ Goto(w, "audit")
       ELSE UNCHANGED <<variant, attempts>> /\ Goto(w, "unknown")
  /\ rowStep

Audit(w) ==
  /\ At(w, "audit")
  /\ Return(w)
  /\ localStep

\* The failures whose outcome at the provider is not known
OutcomeUnknown(w) ==
  \/ wk[w].result \in {"UNKNOWN_RESULT", "AMBIGUOUS_PUBLISHED_CONTAINER"}
  \/ wk[w].result = "TRANSIENT" /\ wk[w].sourcePhase = "PUBLISH_REQUESTED"

\* handleUnknown with the AMBIGUOUS transition; before the checkpoint, or when the
\* transition is refused, the job throws
ResultUnknown(w) ==
  /\ At(w, "result") /\ OutcomeUnknown(w)
  /\ IF /\ \/ wk[w].sourcePhase = "PUBLISH_REQUESTED"
           \/ wk[w].result = "AMBIGUOUS_PUBLISHED_CONTAINER"
        /\ CanTransition(w, wk[w].sourcePhase, "AMBIGUOUS")
       THEN /\ variant' = Transitioned("AMBIGUOUS", "UNKNOWN")
            /\ attempts' = Closed(wk[w].attempt, "FAILED", "UNKNOWN_RESULT")
            /\ Return(w)
       ELSE UNCHANGED <<variant, attempts>> /\ Throw(w)
  /\ rowStep

\* handleFailure with the FAILED transition; refused, it is only logged
ResultFailure(w) ==
  /\ At(w, "result") /\ wk[w].result \in Failures /\ ~OutcomeUnknown(w)
  /\ IF CanTransition(w, wk[w].sourcePhase, "FAILED")
       THEN /\ variant' = Transitioned("FAILED", "FAILED")
            /\ attempts' = Closed(wk[w].attempt, "FAILED", wk[w].result)
            /\ IF wk[w].result = "AUTH_REQUIRED" THEN Goto(w, "reauth") ELSE Return(w)
       ELSE UNCHANGED <<variant, attempts>> /\ Return(w)
  /\ rowStep

\* handleUnknown without a transition: status and attempt are overwritten
Unknown(w) ==
  /\ At(w, "unknown")
  /\ variant' = [variant EXCEPT !.status = "UNKNOWN"]
  /\ attempts' = Closed(wk[w].attempt, "FAILED", "UNKNOWN_RESULT")
  /\ Return(w)
  /\ rowStep

-----------------------------------------------------------------------------
(* processDelete: only the LinkedIn provider has deletePost                *)

\* It checks neither dispatchVersion nor that the row still is DELETING
DeleteLoad(w) ==
  /\ At(w, "delLoad")
  /\ IF variant.status # "DELETED" /\ variant.externalPostId = "none"
       THEN variant' = [variant EXCEPT !.status = "DELETED"]
       ELSE UNCHANGED variant
  /\ IF variant.status = "DELETED" \/ variant.externalPostId = "none"
       THEN Return(w)
       ELSE IF adapter # "linkedin" THEN Throw(w) ELSE Goto(w, "delCreds")
  /\ UNCHANGED attempts /\ rowStep

DeleteCredentials(w) ==
  /\ At(w, "delCreds")
  /\ \/ Goto(w, "delCall") /\ UNCHANGED account
     \/ Throw(w) /\ account' \in {account, "REAUTH_REQUIRED"}
  /\ accountStep

\* 204, 404 when there is nothing to delete, 401/403, another 4xx; or 429, 5xx and
\* network errors, which throw and may have deleted
DeleteCall(w) ==
  /\ At(w, "delCall")
  /\ \/ /\ remote = "live" /\ remote' = "removed"
        /\ Continue(w, [wk[w] EXCEPT !.pc = "delRecord", !.result = "SUCCESS"])
     \/ /\ UNCHANGED remote
        /\ Continue(w, [wk[w] EXCEPT !.pc = "delRecord", !.result = "PERMANENT"])
     \/ /\ UNCHANGED remote
        /\ Goto(w, "delReauth")
     \/ /\ remote' \in {remote, IF remote = "live" THEN "removed" ELSE remote}
        /\ Throw(w)
  /\ UNCHANGED <<variant, attempts, account, scan, reconciling, adapter, mutations, used>>

DeleteReauth(w) ==
  /\ At(w, "delReauth")
  /\ account' = "REAUTH_REQUIRED"
  /\ Continue(w, [wk[w] EXCEPT !.pc = "delRecord", !.result = "AUTH_REQUIRED"])
  /\ accountStep

\* DELETED, or "mark it UNKNOWN for manual reconciliation"
DeleteRecord(w) ==
  /\ At(w, "delRecord")
  /\ variant' = [variant EXCEPT
       !.status = IF wk[w].result = "SUCCESS" THEN "DELETED" ELSE "UNKNOWN"]
  /\ Return(w)
  /\ UNCHANGED attempts /\ rowStep

-----------------------------------------------------------------------------
\* A database (or Redis) call of the slot throws and has no effect
DatabaseError(w) ==
  /\ wk[w].pc \notin {"idle", "mutate", "poll", "delCall"}
  /\ Spend("faults")
  /\ CASE \* inside handleSuccess: its caller falls back to handleUnknown
          \/ At(w, "audit")
          \/ At(w, "result") /\ wk[w].result = "SUCCESS" -> Goto(w, "unknown")
       [] \* inside handleFailure after a failed publish: logged only
          \/ At(w, "result") /\ wk[w].result \in Failures /\ ~OutcomeUnknown(w)
          \/ At(w, "reauth") /\ wk[w].result = "AUTH_REQUIRED" -> Return(w)
       [] \* inside a hook: the adapters' own catch, or the processor's for LinkedIn
          At(w, "publish") \/ At(w, "final") ->
            CASE adapter = "linkedin" /\ wk[w].sourcePhase = "PROCESSING_REMOTE" -> Throw(w)
              [] adapter = "linkedin" -> Goto(w, "unknown")
              [] adapter \in {"facebook", "youtube"} ->
                   Continue(w, [wk[w] EXCEPT !.pc = "result", !.result = "UNKNOWN_RESULT"])
              [] OTHER ->
                   Continue(w, [wk[w] EXCEPT !.pc = "result", !.result = "TRANSIENT"])
       [] OTHER -> Throw(w)
  /\ UNCHANGED <<variant, attempts, account, scan, reconciling, adapter, remote, mutations>>

PublishStep(w) ==
  \/ Load(w) \/ Fence(w) \/ FenceAttempt(w) \/ Claim(w) \/ Start(w)
  \/ FindAttempt(w) \/ CreateAttempt(w) \/ Guard(w)
  \/ Credentials(w) \/ AuthFailure(w) \/ Reauth(w)
  \/ PublishFails(w) \/ PublishThrows(w) \/ OnRemotePrepared(w) \/ BeforeFinalMutation(w)
  \/ FinalMutation(w) \/ Poll(w)
  \/ ResultProcessing(w) \/ ResultSuccess(w) \/ Audit(w) \/ ResultUnknown(w)
  \/ ResultFailure(w) \/ Unknown(w)

DeleteStep(w) ==
  \/ DeleteLoad(w) \/ DeleteCredentials(w) \/ DeleteCall(w)
  \/ DeleteReauth(w) \/ DeleteRecord(w)

WorkerStep(w) == TakeJob(w) \/ PublishStep(w) \/ DeleteStep(w)

ProcessorNext == \E w \in Workers : WorkerStep(w) \/ DatabaseError(w)
=============================================================================
