------------------------------- MODULE Accounts -------------------------------
(***************************************************************************)
(* A social account with everything that acts on it: the user who connects *)
(* and disconnects it, the provider, the token service, the sync jobs and  *)
(* the publishing processor.                                               *)
(***************************************************************************)
EXTENDS AccountJobs

workersAside == UNCHANGED <<lock, overrun, tokenVars, jobVars>>

\* the user goes through the provider's consent: SocialAccountRepository.upsertWith-
\* Connection, one transaction.  A consent without a refresh token keeps the one that
\* is stored, and one without an expiry keeps the expiry.
upsertWithConnection ==
  /\ issued < MaxTokens
  /\ issued' = issued + 1
  /\ setStatus("ACTIVE")
  /\ \E withRefresh, expires \in BOOLEAN :
       /\ live' = IF withRefresh THEN live \cup {issued + 1} ELSE live
       /\ setConn([access |-> issued + 1, life |-> expiresAt(expires), epoch |-> epoch,
                   consent |-> issued + 1,
                   cipher |-> IF withRefresh THEN issued + 1 ELSE conn.cipher,
                   refresh |-> IF withRefresh THEN issued + 1 ELSE conn.refresh])
  /\ workersAside /\ UNCHANGED <<epoch, disc, discs, faults>>

\* AccountsService.disconnectAccount reads the credentials to revoke
disconnectRead ==
  /\ disc.at = "idle" /\ discs < MaxDisconnects
  /\ disc' = [at |-> IF conn.access # 0 THEN "revoke" ELSE "wipe", refresh |-> conn.refresh]
  /\ discs' = discs + 1
  /\ workersAside
  /\ UNCHANGED <<status, conn, live, issued, epoch, accSame, connSame, torn, faults>>

\* what a provider makes of a revocation: the grant ends, or the request fails
revoked(token) == {live, live \ {token}}

\* revokeToken, best effort: a failure is logged
revokeToken ==
  /\ disc.at = "revoke"
  /\ live' \in revoked(disc.refresh)
  /\ disc' = [disc EXCEPT !.at = "wipe"]
  /\ workersAside
  /\ UNCHANGED <<status, conn, issued, epoch, accSame, connSame, torn, discs, faults>>

\* SocialAccountRepository.disconnect: tokens and status in one transaction
disconnect ==
  /\ disc.at = "wipe"
  /\ setConn(Wiped) /\ setStatus("DISCONNECTED")
  /\ epoch' = epoch + 1
  /\ disc' = [at |-> "idle", refresh |-> 0]
  /\ workersAside /\ UNCHANGED <<live, issued, discs, faults>>

\* the provider stops honouring the refresh token (the user withdraws it there)
providerRevokes ==
  /\ live # {} /\ Fault
  /\ \E token \in live : live' = live \ {token}
  /\ workersAside
  /\ UNCHANGED <<status, conn, issued, epoch, accSame, connSame, torn, disc, discs>>

\* the clock passes the five minutes before expiresAt, and then expiresAt
timePasses ==
  /\ conn.life \in {"fresh", "near"}
  /\ conn' = [conn EXCEPT !.life = IF @ = "fresh" THEN "near" ELSE "expired"]
  /\ workersAside
  /\ UNCHANGED <<status, live, issued, epoch, accSame, connSame, torn, disc, discs, faults>>

UserNext == upsertWithConnection \/ disconnectRead \/ revokeToken \/ disconnect

Next ==
  \/ UserNext \/ providerRevokes \/ timePasses \/ lockExpires
  \/ \E s \in Syncs : enqueueSync(s) \/ SyncStep(s)
  \/ \E p \in Publishes : PublishStep(p)
  \/ \E c \in Calls : TokenStep(c) \/ crash(c)

Spec == Init /\ [][Next]_accountVars

-----------------------------------------------------------------------------
(* Safety                                                                  *)

\* releaseLock and the TTL: while a call is between SET NX and its release and its ten
\* seconds have not passed, the key is its own.  An overdue holder that comes back
\* frees no one else's lock.
LockIsExclusive ==
  \A c \in Calls : pc[c] \in Critical /\ c \notin overrun => lock = c

\* disconnect wipes the tokens for good: whatever refresh was under way, tokens of a
\* consent the user has withdrawn are never in the row again.
WithdrawnStaysWiped == conn.access # 0 => conn.epoch = epoch

\* The lock, the re-read under it and the compare-and-swap: as long as no process
\* dies, no answer is lost, no lock is overrun and nothing is revoked, the refresh
\* token in the row is one the provider accepts, whenever no call is about to store
\* the one that replaces it.
StoredTokenIsLive ==
  (/\ faults = 0 /\ discs = 0 /\ hasRefreshToken(conn)
   /\ \A c \in Calls : pc[c] # "store")
  => conn.refresh \in live

\* handlePermanentAuthFailure: a refusal of old credentials does not mark an account
\* that the user has reconnected since those were read, lock or no lock.  The exception
\* is a reconnect that commits between the two SELECTs of its read (torn): the call
\* has then the old connection and the new account.updatedAt.
ReconnectWins ==
  [][\A c \in Calls :
       (pc[c] = "failCas" /\ pc'[c] = "release" /\ status' # status)
         => c \in torn \/ conn.consent = seen[c].consent]_accountVars

\* SyncRun: every run that a worker lived to finish is closed
RunsAreClosed ==
  \A s \in Syncs : faults = 0 /\ pc[s] = "idle" => run[s] # "RUNNING"

-----------------------------------------------------------------------------
(* What the repository says                                                *)

\* "do not resurrect it": an account leaves DISCONNECTED only when the user connects it
DisconnectedStays ==
  [][status = "DISCONNECTED" /\ status' # status => conn'.access # 0]_accountVars
=============================================================================
