----------------------------- MODULE TokenRefresh -----------------------------
(***************************************************************************)
(* TokenService.getExecutionCredentials and what it calls: the fresh path, *)
(* the Redis lock, the refresh at the provider, the compare-and-swap that  *)
(* stores the new tokens, and the handling of a refusal.  One action per   *)
(* Redis command, provider call, or database statement or transaction that *)
(* another process may run between.                                        *)
(***************************************************************************)
EXTENDS AccountState

jobsAside == UNCHANGED <<job, run, tried, disc, discs>>
rowsAside == UNCHANGED <<status, conn, accSame, connSame, torn, epoch>>
providerAside == UNCHANGED <<live, issued>>

Goto(c, place) == pc' = [pc EXCEPT ![c] = place]

\* the call is over: it returns a token, throws AuthRequiredError, or throws
Ends(c, outcome) == Goto(c, "ret") /\ out' = [out EXCEPT ![c] = outcome]

\* the try block is left: finally releases the lock
Leaves(c, outcome) == Goto(c, "release") /\ out' = [out EXCEPT ![c] = outcome]

refreshed == conn.life = "fresh" /\ conn.access # 0

\* getExecutionCredentials reads the account row ...
loadAccount(c) ==
  /\ pc[c] = "load"
  /\ Goto(c, "loadConn") /\ was' = [was EXCEPT ![c] = status]
  /\ rowsAside /\ providerAside /\ jobsAside
  /\ UNCHANGED <<lock, overrun, out, seen, got, polls, faults>>

\* ... and then its connection (include: a second SELECT)
getExecutionCredentials(c) ==
  /\ pc[c] = "loadConn"
  /\ LET usable == \/ conn.life \in {"null", "fresh"}
                   \/ ~hasRefreshToken(conn) /\ conn.life = "near"
     IN  \/ conn.access = 0 /\ Ends(c, "auth")
         \/ conn.access # 0 /\ usable /\ Ends(c, "token")
         \/ conn.access # 0 /\ ~usable /\ Goto(c, "acquire") /\ UNCHANGED out
  /\ rowsAside /\ providerAside /\ jobsAside
  /\ UNCHANGED <<lock, overrun, was, seen, got, polls, faults>>

acquireLock_MutNotExclusive(c) ==
  /\ pc[c] = "acquire"
  /\ lock' = c /\ Goto(c, "reread") /\ UNCHANGED polls
  /\ overrun' = overrun \ {c}
  /\ rowsAside /\ providerAside /\ jobsAside
  /\ UNCHANGED <<out, was, seen, got, faults>>

\* SET lock:refresh:<account> <lockToken> PX 10000 NX
acquireLock(c) ==
  /\ pc[c] = "acquire"
  /\ \/ lock = NoCall /\ lock' = c /\ Goto(c, "reread") /\ UNCHANGED polls
     \/ /\ lock # NoCall /\ UNCHANGED lock /\ Goto(c, "poll")
        /\ polls' = [polls EXCEPT ![c] = @ + 1]
  /\ overrun' = overrun \ {c}
  /\ rowsAside /\ providerAside /\ jobsAside
  /\ UNCHANGED <<out, was, seen, got, faults>>

pollConnection_MutOneMore(c) ==
  /\ pc[c] = "poll"
  /\ \/ refreshed /\ Ends(c, "token")
     \/ ~refreshed /\ polls[c] <= MaxPolls /\ Goto(c, "acquire") /\ UNCHANGED out
     \/ ~refreshed /\ polls[c] > MaxPolls /\ Goto(c, "giveUp") /\ UNCHANGED out
  /\ rowsAside /\ providerAside /\ jobsAside
  /\ UNCHANGED <<lock, overrun, was, seen, got, polls, faults>>

\* 200 ms later: has another worker finished the refresh?
pollConnection(c) ==
  /\ pc[c] = "poll"
  /\ \/ refreshed /\ Ends(c, "token")
     \/ ~refreshed /\ polls[c] < MaxPolls /\ Goto(c, "acquire") /\ UNCHANGED out
     \/ ~refreshed /\ polls[c] >= MaxPolls /\ Goto(c, "giveUp") /\ UNCHANGED out
  /\ rowsAside /\ providerAside /\ jobsAside
  /\ UNCHANGED <<lock, overrun, was, seen, got, polls, faults>>

\* the last look before the call gives up
giveUp(c) ==
  /\ pc[c] = "giveUp"
  /\ Ends(c, IF refreshed THEN "token" ELSE "error")
  /\ rowsAside /\ providerAside /\ jobsAside
  /\ UNCHANGED <<lock, overrun, was, seen, got, polls, faults>>

\* under the lock: read the connection again, and refresh it if it can be refreshed
rereadConnection(c) ==
  /\ pc[c] = "reread"
  /\ \/ refreshed /\ Leaves(c, "token") /\ UNCHANGED <<seen, connSame>>
     \/ /\ ~refreshed /\ ~hasRefreshToken(conn) /\ stillValid
        /\ Leaves(c, "token") /\ UNCHANGED <<seen, connSame>>
     \/ /\ ~refreshed /\ ~hasRefreshToken(conn) /\ ~stillValid
        /\ Goto(c, "failRead") /\ UNCHANGED out
        /\ seen' = [seen EXCEPT ![c] = conn] /\ connSame' = connSame \cup {c}
     \/ /\ ~refreshed /\ hasRefreshToken(conn)
        /\ Goto(c, "provider") /\ UNCHANGED out
        /\ seen' = [seen EXCEPT ![c] = conn] /\ connSame' = connSame \cup {c}
  /\ providerAside /\ jobsAside
  /\ UNCHANGED <<status, conn, accSame, torn, epoch, lock, overrun, was, got, polls, faults>>

\* the provider honours the token; it may rotate it (the old one is then dead), and
\* the answer may have no expires_in.  refreshCredentials returns the token it was
\* given when the provider sends no new one.
refreshAccepted(c) ==
  /\ seen[c].refresh \in live /\ issued < MaxTokens
  /\ issued' = issued + 1
  /\ \E rotate, expires \in BOOLEAN :
       LET refresh == IF rotate THEN issued + 1 ELSE seen[c].refresh
       IN  /\ live' = IF rotate THEN (live \ {seen[c].refresh}) \cup {refresh} ELSE live
           /\ got' = [got EXCEPT ![c] = [access |-> issued + 1, refresh |-> refresh,
                                         expires |-> expires, epoch |-> seen[c].epoch]]
  /\ Goto(c, "store") /\ UNCHANGED <<out, faults>>

\* 401, or a semantic refusal that is no configuration error
refreshRefused(c) ==
  /\ seen[c].refresh \notin live
  /\ Goto(c, "failRead") /\ providerAside /\ UNCHANGED <<out, got, faults>>

\* timeout, 5xx or configuration error; the provider may have rotated the token
refreshTransient(c) ==
  /\ Leaves(c, "error") /\ UNCHANGED <<got, issued>>
  /\ \/ UNCHANGED <<live, faults>>
     \/ seen[c].refresh \in live /\ Fault /\ live' = live \ {seen[c].refresh}

\* provider.refreshCredentials and the classification of what it throws
refreshCredentials(c) ==
  /\ pc[c] = "provider"
  /\ refreshAccepted(c) \/ refreshRefused(c) \/ refreshTransient(c)
  /\ rowsAside /\ jobsAside
  /\ UNCHANGED <<lock, overrun, was, seen, polls>>

credentialsOf(c) ==
  [access |-> got[c].access, cipher |-> got[c].access, refresh |-> got[c].refresh,
   life |-> expiresAt(got[c].expires), epoch |-> got[c].epoch, consent |-> conn.consent]

\* an account that was not ACTIVE when the call read it is ACTIVE again
reactivate(c) == IF was[c] # "ACTIVE" THEN setStatus("ACTIVE") ELSE UNCHANGED <<status, accSame>>

storeCredentials_MutNoCas(c) ==
  /\ pc[c] = "store"
  /\ setConn(credentialsOf(c)) /\ reactivate(c)
  /\ Leaves(c, "token") /\ got' = [got EXCEPT ![c] = NoCredentials]
  /\ providerAside /\ jobsAside
  /\ UNCHANGED <<epoch, lock, overrun, was, seen, polls, faults>>

\* the transaction that stores the new tokens where the refresh token is still the
\* one read; when it is not, the tokens stored meanwhile are returned, unless there
\* are none: then the function goes on as if it had stored its own.
storeCredentials(c) ==
  /\ pc[c] = "store"
  /\ \/ conn.cipher = seen[c].cipher /\ setConn(credentialsOf(c)) /\ reactivate(c)
     \/ /\ conn.cipher # seen[c].cipher /\ conn.access # 0
        /\ UNCHANGED <<status, conn, accSame, connSame, torn>>
     \/ /\ conn.cipher # seen[c].cipher /\ conn.access = 0
        /\ reactivate(c) /\ UNCHANGED <<conn, connSame, torn>>
  /\ Leaves(c, "token") /\ got' = [got EXCEPT ![c] = NoCredentials]
  /\ providerAside /\ jobsAside
  /\ UNCHANGED <<epoch, lock, overrun, was, seen, polls, faults>>

failureRead_MutNoSnapshot(c) ==
  /\ pc[c] = "failRead"
  /\ Goto(c, "failAccount") /\ UNCHANGED out
  /\ rowsAside /\ providerAside /\ jobsAside
  /\ UNCHANGED <<lock, overrun, was, seen, got, polls, faults>>

\* handlePermanentAuthFailure reads the connection: when it is no longer the one that
\* failed, nothing will be written, and its token is the answer if it is valid
failureRead(c) ==
  /\ pc[c] = "failRead"
  /\ Goto(c, "failAccount")
  /\ out' = [out EXCEPT ![c] = IF c \in connSame THEN "none"
                               ELSE IF stillValid THEN "token" ELSE "auth"]
  /\ rowsAside /\ providerAside /\ jobsAside
  /\ UNCHANGED <<lock, overrun, was, seen, got, polls, faults>>

\* ... and then the account (include: a second SELECT): nothing is written over a
\* disconnected one; the updatedAt that the write will ask for is the one read here
failureAccount(c) ==
  /\ pc[c] = "failAccount"
  /\ \/ status = "DISCONNECTED" /\ Leaves(c, "auth") /\ UNCHANGED accSame
     \/ /\ status # "DISCONNECTED" /\ out[c] # "none"
        /\ Leaves(c, out[c]) /\ UNCHANGED accSame
     \/ /\ status # "DISCONNECTED" /\ out[c] = "none"
        /\ Goto(c, "failCas") /\ UNCHANGED out
        /\ accSame' = accSame \cup {c}
  /\ providerAside /\ jobsAside
  /\ UNCHANGED <<status, conn, connSame, torn, epoch, lock, overrun, was, seen, got, polls,
                 faults>>

\* handlePermanentAuthFailure, its conditional write and the re-check when it misses
failureCas(c) ==
  /\ pc[c] = "failCas"
  /\ \/ c \in accSame /\ setStatus("REAUTH_REQUIRED") /\ Leaves(c, "auth")
     \/ /\ c \notin accSame /\ UNCHANGED <<status, accSame>>
        /\ Leaves(c, IF status # "DISCONNECTED" /\ stillValid THEN "token" ELSE "auth")
  /\ providerAside /\ jobsAside
  /\ UNCHANGED <<conn, connSame, torn, epoch, lock, overrun, was, seen, got, polls, faults>>

forgetCall(c) ==
  /\ seen' = [seen EXCEPT ![c] = Wiped]
  /\ accSame' = accSame \ {c} /\ connSame' = connSame \ {c} /\ torn' = torn \ {c}
  /\ overrun' = overrun \ {c}

releaseLock_MutAnyOwner(c) ==
  /\ pc[c] = "release"
  /\ Goto(c, "ret") /\ forgetCall(c)
  /\ lock' = NoCall /\ UNCHANGED faults
  /\ providerAside /\ jobsAside
  /\ UNCHANGED <<status, conn, epoch, out, was, got, polls>>

\* the Lua script deletes the key only while it holds this call's lockToken; an error
\* of Redis is logged, and leaves the key to its TTL
releaseLock(c) ==
  /\ pc[c] = "release"
  /\ Goto(c, "ret") /\ forgetCall(c)
  /\ \/ lock' = (IF lock = c THEN NoCall ELSE lock) /\ UNCHANGED faults
     \/ Fault /\ UNCHANGED lock
  /\ providerAside /\ jobsAside
  /\ UNCHANGED <<status, conn, epoch, out, was, got, polls>>

\* ten seconds after SET the key is gone: its holder died or could not release it, or
\* (a fault: the provider's timeout is seven seconds) it is still at work
lockExpires ==
  /\ lock # NoCall
  /\ lock' = NoCall
  /\ \/ pc[lock] \notin Critical /\ UNCHANGED <<overrun, faults>>
     \/ pc[lock] \in Critical /\ overrun' = overrun \cup {lock} /\ Fault
  /\ rowsAside /\ providerAside /\ jobsAside
  /\ UNCHANGED tokenVars

TokenStep(c) ==
  \/ loadAccount(c) \/ getExecutionCredentials(c)
  \/ acquireLock(c) \/ pollConnection(c) \/ giveUp(c)
  \/ rereadConnection(c) \/ refreshCredentials(c) \/ storeCredentials(c)
  \/ failureRead(c) \/ failureAccount(c) \/ failureCas(c) \/ releaseLock(c)
=============================================================================
