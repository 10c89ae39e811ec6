----------------------------- MODULE Publishing -----------------------------
(***************************************************************************)
(* The publishing subsystem: the API, the dispatcher, the workers and an   *)
(* environment in which time passes, workers die or are paused past their  *)
(* lock, and provider answers are lost.                                    *)
(***************************************************************************)
EXTENDS PublishingApi, PublishingDispatcher, PublishingProcessor

\* the process running slot w dies; its job stays active with nobody renewing the lock
Crash(w) ==
  /\ wk[w].pc # "idle"
  /\ Spend("crashes")
  /\ wk' = [wk EXCEPT ![w] = Idle]
  /\ jobs' = {IF j.owner = w THEN [j EXCEPT !.owner = NoWorker] ELSE j : j \in jobs}
  /\ UNCHANGED <<variant, attempts, account, scan, reconciling, adapter, remote, mutations>>

envUnchanged == UNCHANGED <<account, wk, scan, reconciling, adapter, remote, mutations>>

\* BullMQ finds an active job whose lock expired and gives it out again
StallOrphan ==
  \E j \in jobs :
    /\ j.state = "active" /\ j.owner = NoWorker
    /\ jobs' = (jobs \ {j}) \cup {Stalled(j)}
    /\ UNCHANGED <<variant, attempts, used>> /\ envUnchanged

\* ... although its slot is alive, only slow: it goes on as a zombie
StallPaused ==
  \E j \in jobs :
    /\ j.state = "active" /\ j.owner # NoWorker
    /\ Spend("pauses")
    /\ jobs' = (jobs \ {j}) \cup {Stalled(j)}
    /\ UNCHANGED <<variant, attempts>> /\ envUnchanged

Aging == {i \in DOMAIN attempts : attempts[i].status = "PUBLISHING" /\ attempts[i].fresh}

Aged(i) == attempts' = [attempts EXCEPT ![i].fresh = FALSE]

\* five minutes pass over an attempt no slot works on
HeartbeatExpires ==
  \E i \in Aging :
    /\ \A w \in Workers : wk[w].attempt # i
    /\ Aged(i)
    /\ UNCHANGED <<variant, jobs, used>> /\ envUnchanged

\* ... over an attempt whose slot is alive, only slow
HeartbeatMissed ==
  \E i \in Aging :
    /\ \E w \in Workers : wk[w].attempt = i
    /\ Spend("pauses")
    /\ Aged(i)
    /\ UNCHANGED <<variant, jobs>> /\ envUnchanged

\* setInterval in process(): renews the heartbeat during the adapter call
Heartbeat(w) ==
  /\ wk[w].pc \in {"publish", "final", "mutate", "poll"}
  /\ attempts[wk[w].attempt].status = "PUBLISHING"
  /\ ~attempts[wk[w].attempt].fresh
  /\ attempts' = [attempts EXCEPT ![wk[w].attempt].fresh = TRUE]
  /\ UNCHANGED <<variant, jobs, used>> /\ envUnchanged

\* scheduledAt comes
ScheduleComesDue ==
  /\ variant.status = "SCHEDULED" /\ ~variant.scheduledDue
  /\ variant' = [variant EXCEPT !.scheduledDue = TRUE]
  /\ UNCHANGED <<attempts, jobs, used>> /\ envUnchanged

\* nextCheckAt comes
CheckComesDue ==
  /\ variant.phase = "PROCESSING_REMOTE" /\ ~variant.checkDue
  /\ variant' = [variant EXCEPT !.checkDue = TRUE]
  /\ UNCHANGED <<attempts, jobs, used>> /\ envUnchanged

TimePasses == StallOrphan \/ HeartbeatExpires \/ ScheduleComesDue \/ CheckComesDue

EnvironmentNext ==
  \/ TimePasses
  \/ StallPaused
  \/ HeartbeatMissed
  \/ \E w \in Workers : Crash(w) \/ Heartbeat(w)

Next == ApiNext \/ DispatcherNext \/ ProcessorNext \/ EnvironmentNext

Spec == Init /\ [][Next]_vars

\* A free slot takes a waiting job, a running slot takes its next step (or its
\* process dies, which spends "crashes"), clocks advance, and every scan runs each
\* of its five queries in turn and acts on what they return.
Fairness ==
  /\ \A w \in Workers : WF_vars(WorkerStep(w))
  /\ \A d \in Scanners :
       /\ WF_vars(WriteStep(d))
       /\ SF_vars(ReadScheduled(d))
       /\ SF_vars(ReadQueued(d))
       /\ SF_vars(ReadDeleting(d))
       /\ SF_vars(ReadContinuation(d))
       /\ SF_vars(ReadStale(d))
  /\ WF_vars(StallOrphan)
  /\ WF_vars(HeartbeatExpires)
  /\ WF_vars(ScheduleComesDue)
  /\ WF_vars(CheckComesDue)

FairSpec == Spec /\ Fairness

-----------------------------------------------------------------------------
(* Safety                                                                  *)

\* The final publish request is sent to the provider at most once in the life of a
\* publication: over crashes, stalled jobs given out twice, zombies, user retries and
\* stale recovery.  beforeFinalMutation's CAS on dispatchVersion is what ensures it.
AtMostOnce == mutations <= 1

\* Once the final request is out, the persisted phase says so: it never is, or goes
\* back to, a phase from which publish() would be called again.
CheckpointBeforeMutation ==
  mutations > 0 =>
    /\ variant.phase \notin {"NONE", "INITIATED", "CONTAINER_CREATED"}
    /\ variant.phase = "PROCESSING_REMOTE" => adapter = "youtube"

\* A phase FAILED that no operator confirmed means the content is not at the provider:
\* transitionOperation lets no operation fail once its final request may be out.
FailureIsTruthful ==
  variant.phase = "FAILED" /\ ~variant.reconciled => remote # "live"

\* What users see as PUBLISHED has a completed operation and an id to link to, and an
\* id that came from the provider stands for a request that was sent.
PublishedIsReal ==
  variant.status = "PUBLISHED" =>
    /\ variant.phase = "COMPLETED"
    /\ variant.externalPostId # "none"
    /\ variant.externalPostId = "provider" => mutations = 1

\* A publication shown as DELETED is gone at the provider.
DeletedIsGone == variant.status = "DELETED" => remote = "removed"

-----------------------------------------------------------------------------
(* Liveness, under FairSpec                                                *)

\* recoverStalePublishing: an execution that left an open attempt does not stay
\* PUBLISHING for ever, unless it waits for the provider.
AbandonedIsRecovered ==
  (variant.status = "PUBLISHING" /\ variant.phase # "PROCESSING_REMOTE" /\ Open # {})
    ~> ~(variant.status = "PUBLISHING" /\ variant.phase # "PROCESSING_REMOTE" /\ Open # {})

\* BullMQ keeps a job that stalled twice or used up its tries in its failed set, where
\* its jobId makes every later add of the same dispatch version do nothing.
JobIdTaken ==
  \E j \in jobs : /\ j.kind = "publish" /\ j.state = "failed"
                  /\ j.version = variant.dispatchVersion

\* dispatchQueued: what is QUEUED is eventually picked up, over dead workers, failing
\* scans and jobs given out again, unless its own job has failed for good.
QueuedIsTaken ==
  (variant.status = "QUEUED" /\ ~JobIdTaken) ~> (variant.status # "QUEUED" \/ JobIdTaken)
=============================================================================
