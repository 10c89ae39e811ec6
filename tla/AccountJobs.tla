----------------------------- MODULE AccountJobs -----------------------------
(***************************************************************************)
(* Who uses the credentials: SyncProcessor.process with the jobs of the    *)
(* sync queue, and the publishing processor as far as it touches the       *)
(* account (what it does with the publication is module Publishing).       *)
(***************************************************************************)
EXTENDS TokenRefresh

accountAside == UNCHANGED <<live, issued, epoch, lock, overrun, conn, connSame, torn, disc, discs>>

\* the call's variables return to what they are before the next one
resetCall(c) ==
  /\ out' = [out EXCEPT ![c] = "none"] /\ was' = [was EXCEPT ![c] = "ACTIVE"]
  /\ polls' = [polls EXCEPT ![c] = 0]
  /\ UNCHANGED <<seen, got>>

callAside == UNCHANGED <<out, was, seen, got, polls>>

-----------------------------------------------------------------------------
(* The sync queue                                                          *)

\* SyncService.enqueueSyncAll, or the initial sync that follows a connect; the queue
\* may fail then, which is logged and changes nothing
enqueueSync(s) ==
  /\ job[s] = "none" /\ status = "ACTIVE"
  /\ job' = [job EXCEPT ![s] = "waiting"]
  /\ accountAside /\ callAside
  /\ UNCHANGED <<status, accSame, pc, run, tried, faults>>

\* a worker takes the job; process() opens a SyncRun.  tried is not counted past the limit
startSync(s) ==
  /\ job[s] = "waiting" /\ pc[s] = "idle"
  /\ job' = [job EXCEPT ![s] = "active"]
  /\ run' = [run EXCEPT ![s] = "RUNNING"]
  /\ tried' = [tried EXCEPT ![s] = IF @ < MaxAttempts THEN @ + 1 ELSE @]
  /\ Goto(s, "check")
  /\ accountAside /\ callAside /\ UNCHANGED <<status, accSame, faults>>

\* process() returns: the job is completed
jobReturns(s) == Goto(s, "idle") /\ job' = [job EXCEPT ![s] = "completed"]

\* process() throws: BullMQ tries again until the attempts are used up
jobThrows(s) ==
  /\ Goto(s, "idle")
  /\ job' = [job EXCEPT ![s] = IF tried[s] < MaxAttempts THEN "waiting" ELSE "failed"]

completeSyncRun(s, result) == run' = [run EXCEPT ![s] = result]

\* the account row is read: a sync of an account that is not ACTIVE is skipped
checkAccount(s) ==
  /\ pc[s] = "check"
  /\ \/ status # "ACTIVE" /\ completeSyncRun(s, "SKIPPED") /\ jobReturns(s)
     \/ status = "ACTIVE" /\ Goto(s, "load") /\ UNCHANGED <<run, job>>
  /\ accountAside /\ callAside /\ UNCHANGED <<status, accSame, tried, faults>>

credentialsForSync_MutRunLeftOpen(s) ==
  /\ pc[s] = "ret"
  /\ \/ out[s] = "auth" /\ UNCHANGED run /\ jobReturns(s)
     \/ out[s] = "error" /\ completeSyncRun(s, "FAILED") /\ jobThrows(s)
     \/ out[s] = "token" /\ Goto(s, "metrics") /\ UNCHANGED <<run, job>>
  /\ resetCall(s) /\ accountAside /\ UNCHANGED <<status, accSame, tried, faults>>

\* getExecutionCredentials has returned or thrown
credentialsForSync(s) ==
  /\ pc[s] = "ret"
  /\ \/ out[s] = "auth" /\ completeSyncRun(s, "SKIPPED") /\ jobReturns(s)
     \/ out[s] = "error" /\ completeSyncRun(s, "FAILED") /\ jobThrows(s)
     \/ out[s] = "token" /\ Goto(s, "metrics") /\ UNCHANGED <<run, job>>
  /\ resetCall(s) /\ accountAside /\ UNCHANGED <<status, accSame, tried, faults>>

\* provider.getAccountMetrics: an answer, 401, a rate limit or another error (a timeout
\* included); a provider without the capability is refused by invokeCapability
getAccountMetrics == {"metrics", "unsupported", "401", "rate limit", "error"}

\* only "error" is thrown on; after a rate limit with a delay the job is moved to the
\* delayed set and comes back
fetchMetrics(s) ==
  /\ pc[s] = "metrics"
  /\ \E answer \in getAccountMetrics :
       \/ answer = "metrics" /\ Goto(s, "upsert") /\ UNCHANGED <<run, job>>
       \/ answer = "unsupported" /\ completeSyncRun(s, "SKIPPED") /\ jobReturns(s)
       \/ answer = "401" /\ completeSyncRun(s, "FAILED") /\ Goto(s, "mark") /\ UNCHANGED job
       \/ answer = "error" /\ completeSyncRun(s, "FAILED") /\ jobThrows(s)
       \/ /\ answer = "rate limit" /\ completeSyncRun(s, "FAILED") /\ Goto(s, "idle")
          /\ job' = [job EXCEPT ![s] = "waiting"]
  /\ accountAside /\ callAside /\ UNCHANGED <<status, accSame, tried, faults>>

\* 401: the account is marked whatever it has become since it was read
syncUnauthorized(s) ==
  /\ s \in Syncs /\ pc[s] = "mark"
  /\ setStatus("REAUTH_REQUIRED")
  /\ completeSyncRun(s, "FAILED") /\ jobReturns(s)
  /\ accountAside /\ callAside /\ UNCHANGED <<tried, faults>>

\* the day's AccountMetricDaily row is written, then the run completed
upsertMetrics(s) ==
  /\ pc[s] = "upsert"
  /\ completeSyncRun(s, "COMPLETED") /\ jobReturns(s)
  /\ accountAside /\ callAside /\ UNCHANGED <<status, accSame, tried, faults>>

SyncStep(s) ==
  \/ startSync(s) \/ checkAccount(s) \/ credentialsForSync(s) \/ fetchMetrics(s)
  \/ syncUnauthorized(s) \/ upsertMetrics(s)

-----------------------------------------------------------------------------
(* The publishing processor and the account                                *)

\* the account fence: an execution goes on only for an ACTIVE account
startPublish(p) ==
  /\ pc[p] = "idle"
  /\ Goto(p, IF status = "ACTIVE" THEN "load" ELSE "over")
  /\ accountAside /\ callAside
  /\ UNCHANGED <<status, accSame, job, run, tried, faults>>

\* step 5: AuthRequiredError marks the account, and so does handleFailure after it;
\* with a token the provider's answer to publish() may be AUTH_REQUIRED
credentialsForPublish(p) ==
  /\ pc[p] = "ret"
  /\ \/ out[p] = "auth" /\ setStatus("REAUTH_REQUIRED") /\ Goto(p, "mark")
     \/ out[p] = "error" /\ Goto(p, "over") /\ UNCHANGED <<status, accSame>>
     \/ /\ out[p] = "token" /\ UNCHANGED <<status, accSame>>
        /\ Goto(p, "mark") \/ Goto(p, "over")
  /\ resetCall(p) /\ accountAside
  /\ UNCHANGED <<job, run, tried, faults>>

\* handleFailure with category AUTH_REQUIRED
handleFailure(p) ==
  /\ p \in Publishes /\ pc[p] = "mark"
  /\ setStatus("REAUTH_REQUIRED") /\ Goto(p, "over")
  /\ accountAside /\ callAside
  /\ UNCHANGED <<job, run, tried, faults>>

PublishStep(p) ==
  startPublish(p) \/ credentialsForPublish(p) \/ handleFailure(p)

-----------------------------------------------------------------------------
(* The worker dies: its lock stays until the TTL, its SyncRun stays open,  *)
(* and BullMQ hands the stalled job to another worker                      *)

crash(c) ==
  /\ pc[c] \notin {"idle", "over"} /\ Fault
  /\ Goto(c, IF c \in Syncs THEN "idle" ELSE "over")
  /\ forgetCall(c)
  /\ got' = [got EXCEPT ![c] = NoCredentials] /\ out' = [out EXCEPT ![c] = "none"]
  /\ was' = [was EXCEPT ![c] = "ACTIVE"] /\ polls' = [polls EXCEPT ![c] = 0]
  /\ job' = [s \in Syncs |-> IF s = c THEN "waiting" ELSE job[s]]
  /\ UNCHANGED <<status, conn, live, issued, epoch, lock, run, tried, disc, discs>>

=============================================================================
