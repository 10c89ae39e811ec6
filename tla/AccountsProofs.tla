---------------------------- MODULE AccountsProofs ----------------------------
(***************************************************************************)
(* The social account for any number of jobs, tokens and faults: the lock  *)
(* of the token service excludes, a withdrawn consent is never stored      *)
(* again, a stored refresh token is one the provider accepts, a reconnect  *)
(* wins over a late refusal, and sync runs are closed.                     *)
(*                                                                         *)
(* The argument is about numbers.  A ciphertext is numbered by the access  *)
(* token it was stored with, so the compare-and-swap on it finds the row a *)
(* call has read, or none: a number that was given out and not yet stored  *)
(* is neither in the row nor in what another call has read.                *)
(***************************************************************************)
EXTENDS Accounts, TLAPS

\* a step of a job outside getExecutionCredentials
JobStep(c) == (c \in Syncs /\ SyncStep(c)) \/ (c \in Publishes /\ PublishStep(c))

\* the user, the provider, the clocks and the queue
WorldStep ==
  \/ UserNext \/ providerRevokes \/ timePasses \/ lockExpires
  \/ \E s \in Syncs : enqueueSync(s)

\* the attempts at the lock of a call that has not got it
PollsCounted ==
  \A c \in Calls : /\ pc[c] \in JobPcs \cup {"load", "loadConn"} => polls[c] = 0
                   /\ pc[c] = "acquire" => polls[c] < MaxPolls

\* Numbers given out by the provider are not ahead of it, and a call refreshes with a
\* refresh token.
Numbered ==
  /\ conn.cipher <= issued /\ conn.refresh <= issued
  /\ conn.cipher # 0 => conn.access # 0
  /\ \A c \in Calls : /\ seen[c].cipher <= issued /\ seen[c].refresh <= issued
                      /\ pc[c] \in {"provider", "store"} => seen[c].cipher # 0

\* tokens that a call is about to store belong to the consent it read, and their number
\* is nowhere else
Unstored ==
  \A c \in Calls : pc[c] = "store" =>
    /\ got[c].access \in 1..issued /\ got[c].epoch = seen[c].epoch
    /\ got[c].refresh <= issued /\ got[c].access # conn.cipher
    /\ \A d \in Calls : /\ seen[d].cipher # got[c].access
                        /\ d # c /\ pc[d] = "store" => got[d].access # got[c].access

\* where the compare-and-swap of a call would hit, its consent has not been withdrawn
SameEpoch ==
  \A c \in Calls : pc[c] \in {"provider", "store"} /\ seen[c].cipher = conn.cipher
                   => seen[c].epoch = epoch

\* a row with the updatedAt that a call has read is of the consent it has read, unless
\* the connection was written between its read of the connection and of the account
SnapshotsHold ==
  \A c \in Calls :
    /\ c \in connSame => pc[c] \in Critical \ {"reread"} /\ seen[c].consent = conn.consent
    /\ pc[c] = "failAccount" /\ out[c] = "none"
         => c \in torn \/ seen[c].consent = conn.consent
    /\ c \in accSame => /\ pc[c] \in {"failCas", "release"}
                        /\ c \in torn \/ seen[c].consent = conn.consent

\* where nothing failed and nobody disconnected: the row of a call that refreshes is the
\* one it read, or has a newer token that the provider accepts
RefreshLives ==
  faults = 0 /\ discs = 0 =>
    /\ overrun = {} /\ disc.at = "idle" /\ conn.cipher # 0
    /\ \A c \in Calls : pc[c] \in {"provider", "store"} =>
         \/ conn.cipher = seen[c].cipher /\ conn.refresh = seen[c].refresh
         \/ conn.refresh \in live \ {seen[c].refresh}
    /\ \A c \in Calls : pc[c] = "store" => got[c].refresh \in live
    /\ (\A c \in Calls : pc[c] # "store") => conn.refresh \in live

\* the next-state relation by kinds of steps
LEMMA StepKinds ==
  ASSUME [Next]_accountVars
  PROVE  \/ \E c \in Calls : TokenStep(c) \/ JobStep(c) \/ crash(c)
         \/ WorldStep \/ UNCHANGED accountVars
BY DEF Next, JobStep, WorldStep, Calls

-----------------------------------------------------------------------------
(* What the kinds of steps leave alone                                     *)

\* A job outside getExecutionCredentials writes its own variables and the account row.
LEMMA JobFrame ==
  ASSUME TypeOK, NEW c \in Calls, JobStep(c)
  PROVE  /\ UNCHANGED <<live, issued, epoch, lock, overrun, conn, connSame, torn, disc, discs,
                        seen, got, faults>>
         /\ accSame' \in {accSame, {}} /\ status' \in Statuses
         /\ pc[c] \in JobPcs \cup {"ret"}
         /\ \E x \in JobPcs \cup {"load"} : pc' = [pc EXCEPT ![c] = x]
         /\ \/ pc[c] # "ret" /\ UNCHANGED <<out, was, polls>>
            \/ /\ pc[c] = "ret" /\ out' = [out EXCEPT ![c] = "none"]
               /\ was' = [was EXCEPT ![c] = "ACTIVE"] /\ polls' = [polls EXCEPT ![c] = 0]
<1>0. status \in Statuses
  BY DEF TypeOK
<1> USE <1>0 DEF JobPcs, Statuses, accountAside, callAside, resetCall, setStatus, Goto
<1>1. CASE SyncStep(c)
  <2>1. CASE startSync(c) \/ checkAccount(c) \/ upsertMetrics(c)
    BY <2>1 DEF startSync, checkAccount, upsertMetrics, jobReturns
  <2>2. CASE credentialsForSync(c)
    BY <2>2 DEF credentialsForSync, jobReturns, jobThrows
  <2>3. CASE fetchMetrics(c) \/ syncUnauthorized(c)
    BY <2>3 DEF fetchMetrics, syncUnauthorized, jobReturns, jobThrows
  <2> QED BY <1>1, <2>1, <2>2, <2>3 DEF SyncStep
<1>2. CASE PublishStep(c)
  <2>1. CASE startPublish(c) \/ handleFailure(c)
    BY <2>1 DEF startPublish, handleFailure
  <2>2. CASE credentialsForPublish(c)
    BY <2>2 DEF credentialsForPublish
  <2> QED BY <1>2, <2>1, <2>2 DEF PublishStep
<1> QED BY <1>1, <1>2 DEF JobStep

\* A call of the token service moves itself and leaves the jobs and the user alone.
LEMMA TokenFrame ==
  ASSUME NEW c \in Calls, TokenStep(c)
  PROVE  /\ UNCHANGED <<job, run, tried, disc, discs, epoch>>
         /\ pc[c] \in TokenPcs \ {"ret"}
         /\ \E x \in TokenPcs \ {"load"} : pc' = [pc EXCEPT ![c] = x]
<1> USE DEF jobsAside, rowsAside, TokenPcs, Ends, Leaves, Goto
<1>1. CASE \/ loadAccount(c) \/ getExecutionCredentials(c) \/ acquireLock(c)
           \/ pollConnection(c) \/ giveUp(c)
  BY <1>1 DEF loadAccount, getExecutionCredentials, acquireLock, pollConnection, giveUp
<1>2. CASE rereadConnection(c) \/ storeCredentials(c) \/ releaseLock(c)
  BY <1>2 DEF rereadConnection, storeCredentials, releaseLock
<1>3. CASE refreshCredentials(c)
  BY <1>3 DEF refreshCredentials, refreshAccepted, refreshRefused, refreshTransient
<1>4. CASE failureRead(c) \/ failureAccount(c) \/ failureCas(c)
  BY <1>4 DEF failureRead, failureAccount, failureCas
<1> QED BY <1>1, <1>2, <1>3, <1>4 DEF TokenStep

\* No call steps for another.
LEMMA OthersStay ==
  ASSUME TypeOK, NEW c \in Calls, TokenStep(c) \/ JobStep(c) \/ crash(c)
  PROVE  \A d \in Calls \ {c} : /\ pc'[d] = pc[d] /\ seen'[d] = seen[d] /\ got'[d] = got[d]
                                /\ polls'[d] = polls[d] /\ out'[d] = out[d]
<1>0. /\ pc \in [Calls -> TokenPcs \cup JobPcs] /\ seen \in [Calls -> Connections]
      /\ got \in [Calls -> Credentials] /\ polls \in [Calls -> 0..MaxPolls]
      /\ out \in [Calls -> {"none", "token", "auth", "error"}]
  BY DEF TypeOK
<1>1. CASE JobStep(c)
  BY <1>0, <1>1, JobFrame
<1>2. CASE crash(c)
  BY <1>0, <1>2 DEF crash, Goto, forgetCall
<1>3. CASE TokenStep(c)
  <2>1. \A d \in Calls \ {c} : pc'[d] = pc[d]
    BY <1>0, <1>3, TokenFrame
  <2>2. seen' = seen \/ \E v : seen' = [seen EXCEPT ![c] = v]
    BY <1>3 DEF TokenStep, loadAccount, getExecutionCredentials, acquireLock,
         pollConnection, giveUp, rereadConnection, refreshCredentials, storeCredentials,
         failureRead, failureAccount, failureCas, releaseLock, forgetCall
  <2>3. got' = got \/ \E v : got' = [got EXCEPT ![c] = v]
    BY <1>3 DEF TokenStep, loadAccount, getExecutionCredentials, acquireLock,
         pollConnection, giveUp, rereadConnection, refreshCredentials, refreshAccepted,
         refreshRefused, refreshTransient, storeCredentials, failureRead, failureAccount,
         failureCas, releaseLock, providerAside
  <2>4. polls' = polls \/ polls' = [polls EXCEPT ![c] = @ + 1]
    BY <1>3 DEF TokenStep, loadAccount, getExecutionCredentials, acquireLock,
         pollConnection, giveUp, rereadConnection, refreshCredentials, storeCredentials,
         failureRead, failureAccount, failureCas, releaseLock
  <2>5. out' = out \/ \E v : out' = [out EXCEPT ![c] = v]
    BY <1>3 DEF TokenStep, loadAccount, getExecutionCredentials, acquireLock,
         pollConnection, giveUp, rereadConnection, refreshCredentials, refreshAccepted,
         refreshRefused, refreshTransient, storeCredentials, failureRead, failureAccount,
         failureCas, releaseLock, Ends, Leaves
  <2> QED BY <1>0, <2>1, <2>2, <2>3, <2>4, <2>5
<1> QED BY <1>1, <1>2, <1>3

\* The world moves no call.
LEMMA WorldFrame ==
  ASSUME WorldStep \/ UNCHANGED accountVars
  PROVE  UNCHANGED <<pc, out, was, seen, got, polls, run, tried>>
BY DEF WorldStep, UserNext, upsertWithConnection, disconnectRead, revokeToken, disconnect,
     providerRevokes, timePasses, lockExpires, enqueueSync, workersAside, tokenVars,
     jobVars, callAside, jobsAside, accountVars

-----------------------------------------------------------------------------
(* Types                                                                   *)

\* The attempts at the lock are counted from zero and stop at MaxPolls.
LEMMA PollsStep ==
  ASSUME TypeOK, PollsCounted, [Next]_accountVars
  PROVE  PollsCounted' /\ polls' \in [Calls -> 0..MaxPolls]
<1>0. /\ pc \in [Calls -> TokenPcs \cup JobPcs] /\ polls \in [Calls -> 0..MaxPolls]
      /\ MaxPolls \in Nat \ {0}
  BY AccountAssumption DEF TypeOK
<1>1. ASSUME NEW c \in Calls, TokenStep(c) \/ JobStep(c) \/ crash(c)
      PROVE  PollsCounted' /\ polls' \in [Calls -> 0..MaxPolls]
  <2>0. /\ pc[c] \in JobPcs \cup {"load", "loadConn"} => polls[c] = 0
        /\ pc[c] = "acquire" => polls[c] < MaxPolls
    BY DEF PollsCounted
  <2>1. /\ polls' \in [Calls -> 0..MaxPolls]
        /\ pc'[c] \in JobPcs \cup {"load", "loadConn"} => polls'[c] = 0
        /\ pc'[c] = "acquire" => polls'[c] < MaxPolls
    <3>1. CASE JobStep(c)
      <4>1. CASE pc[c] # "ret" /\ UNCHANGED polls
        BY <1>0, <2>0, <3>1, <4>1, JobFrame DEF JobPcs
      <4>2. CASE pc[c] = "ret" /\ polls' = [polls EXCEPT ![c] = 0]
        BY <1>0, <3>1, <4>2, JobFrame
      <4> QED BY <3>1, <4>1, <4>2, JobFrame
    <3>2. CASE crash(c)
      BY <1>0, <3>2 DEF crash, Goto
    <3>3. CASE acquireLock(c)
      BY <1>0, <2>0, <3>3 DEF acquireLock, Goto, JobPcs
    <3>4. CASE pollConnection(c)
      BY <1>0, <3>4 DEF pollConnection, Goto, Ends, JobPcs
    <3>5. CASE loadAccount(c) \/ getExecutionCredentials(c)
      BY <1>0, <2>0, <3>5 DEF loadAccount, getExecutionCredentials, Goto, Ends, JobPcs
    <3>6. CASE /\ TokenStep(c)
               /\ ~acquireLock(c) /\ ~pollConnection(c)
               /\ ~loadAccount(c) /\ ~getExecutionCredentials(c)
      <4>1. polls' = polls
        BY <3>6 DEF TokenStep, giveUp, rereadConnection, refreshCredentials,
             storeCredentials, failureRead, failureAccount, failureCas, releaseLock
      <4>2. pc'[c] \in {"ret", "release", "failRead", "provider", "store", "failAccount",
                        "failCas"}
        BY <1>0, <3>6 DEF TokenStep, giveUp, rereadConnection, refreshCredentials,
             refreshAccepted, refreshRefused, refreshTransient, storeCredentials,
             failureRead, failureAccount, failureCas, releaseLock, Goto, Ends, Leaves
      <4> QED BY <1>0, <4>1, <4>2 DEF JobPcs
    <3> QED BY <1>1, <3>1, <3>2, <3>3, <3>4, <3>5, <3>6
  <2> QED BY <1>1, <2>1, OthersStay DEF PollsCounted
<1>2. CASE WorldStep \/ UNCHANGED accountVars
  BY <1>0, <1>2, WorldFrame DEF PollsCounted
<1> QED BY <1>1, <1>2, StepKinds

\* The places of calls and what they return.
LEMMA PlacesStep ==
  ASSUME TypeOK, [Next]_accountVars
  PROVE  /\ pc' \in [Calls -> TokenPcs \cup JobPcs]
         /\ out' \in [Calls -> {"none", "token", "auth", "error"}]
         /\ was' \in [Calls -> Statuses]
<1>0. /\ pc \in [Calls -> TokenPcs \cup JobPcs]
      /\ out \in [Calls -> {"none", "token", "auth", "error"}]
      /\ was \in [Calls -> Statuses] /\ status \in Statuses /\ "ACTIVE" \in Statuses
  BY DEF TypeOK, Statuses
<1>1. ASSUME NEW c \in Calls, JobStep(c)
      PROVE  /\ pc' \in [Calls -> TokenPcs \cup JobPcs]
             /\ out' \in [Calls -> {"none", "token", "auth", "error"}]
             /\ was' \in [Calls -> Statuses]
  BY <1>0, <1>1, JobFrame DEF TokenPcs
<1>2. ASSUME NEW c \in Calls, TokenStep(c)
      PROVE  /\ pc' \in [Calls -> TokenPcs \cup JobPcs]
             /\ out' \in [Calls -> {"none", "token", "auth", "error"}]
             /\ was' \in [Calls -> Statuses]
  <2>1. pc' \in [Calls -> TokenPcs \cup JobPcs]
    BY <1>0, <1>2, TokenFrame
  <2>2. \/ out' = out
        \/ \E x \in {"none", "token", "auth", "error", out[c]} : out' = [out EXCEPT ![c] = x]
    <3>1. CASE failureRead(c) \/ failureAccount(c) \/ failureCas(c)
      BY <3>1 DEF failureRead, failureAccount, failureCas, Leaves
    <3>2. CASE ~(failureRead(c) \/ failureAccount(c) \/ failureCas(c))
      BY <1>2, <3>2 DEF TokenStep, loadAccount, getExecutionCredentials, acquireLock,
           pollConnection, giveUp, rereadConnection, refreshCredentials, refreshAccepted,
           refreshRefused, refreshTransient, storeCredentials, releaseLock, Ends, Leaves
    <3> QED BY <3>1, <3>2
  <2>3. was' = was \/ was' = [was EXCEPT ![c] = status]
    BY <1>2 DEF TokenStep, loadAccount, getExecutionCredentials, acquireLock,
         pollConnection, giveUp, rereadConnection, refreshCredentials, storeCredentials,
         failureRead, failureAccount, failureCas, releaseLock
  <2> QED BY <1>0, <2>1, <2>2, <2>3
<1>3. ASSUME NEW c \in Calls, crash(c)
      PROVE  /\ pc' \in [Calls -> TokenPcs \cup JobPcs]
             /\ out' \in [Calls -> {"none", "token", "auth", "error"}]
             /\ was' \in [Calls -> Statuses]
  BY <1>0, <1>3 DEF crash, Goto, JobPcs
<1>4. CASE WorldStep \/ UNCHANGED accountVars
  BY <1>0, <1>4, WorldFrame
<1> QED BY <1>1, <1>2, <1>3, <1>4, StepKinds

\* The rows of the account and its connection, and the provider's tokens.
LEMMA RowsStep ==
  ASSUME TypeOK, [Next]_accountVars
  PROVE  /\ status' \in Statuses /\ conn' \in Connections
         /\ live' \in SUBSET Nat /\ issued' \in Nat /\ epoch' \in Nat /\ faults' \in Nat
<1>0. /\ status \in Statuses /\ conn \in Connections /\ live \in SUBSET Nat /\ issued \in Nat
      /\ epoch \in Nat /\ faults \in Nat /\ got \in [Calls -> Credentials]
      /\ seen \in [Calls -> Connections]
  BY DEF TypeOK
<1>s. {"ACTIVE", "REAUTH_REQUIRED", "DISCONNECTED"} \subseteq Statuses
  BY DEF Statuses
<1>1. ASSUME NEW c \in Calls, JobStep(c)
      PROVE  /\ status' \in Statuses /\ conn' \in Connections
             /\ live' \in SUBSET Nat /\ issued' \in Nat /\ epoch' \in Nat /\ faults' \in Nat
  BY <1>0, <1>1, JobFrame
<1>2. ASSUME NEW c \in Calls, TokenStep(c)
      PROVE  /\ status' \in Statuses /\ conn' \in Connections
             /\ live' \in SUBSET Nat /\ issued' \in Nat /\ epoch' \in Nat /\ faults' \in Nat
  <2>1. status' \in Statuses
    BY <1>0, <1>2, <1>s DEF TokenStep, loadAccount, getExecutionCredentials, acquireLock,
         pollConnection, giveUp, rereadConnection, refreshCredentials, storeCredentials,
         failureRead, failureAccount, failureCas, releaseLock, rowsAside, reactivate,
         setStatus
  <2>2. conn' \in Connections
    <3>1. conn' = conn \/ conn' = credentialsOf(c)
      BY <1>2 DEF TokenStep, loadAccount, getExecutionCredentials, acquireLock,
           pollConnection, giveUp, rereadConnection, refreshCredentials, storeCredentials,
           failureRead, failureAccount, failureCas, releaseLock, rowsAside, setConn
    <3>2. credentialsOf(c) \in Connections
      BY <1>0 DEF credentialsOf, expiresAt, Connections, Credentials, Lives
    <3> QED BY <1>0, <3>1, <3>2
  <2>3. live' \in SUBSET Nat /\ issued' \in Nat /\ faults' \in Nat
    <3>1. CASE refreshCredentials(c)
      <4>1. seen[c].refresh \in Nat
        BY <1>0 DEF Connections
      <4>2. CASE refreshAccepted(c)
        <5>1. /\ issued' = issued + 1 /\ faults' = faults
              /\ \E refresh \in {issued + 1, seen[c].refresh} :
                   live' \in {live, (live \ {seen[c].refresh}) \cup {refresh}}
          BY <4>2 DEF refreshAccepted
        <5>2. issued + 1 \in Nat
          BY <1>0
        <5> QED BY <1>0, <4>1, <5>1, <5>2
      <4>3. CASE refreshRefused(c)
        BY <1>0, <4>3 DEF refreshRefused, providerAside
      <4>4. CASE refreshTransient(c)
        <5>1. issued' = issued /\ live' \subseteq live /\ faults' \in {faults, faults + 1}
          BY <4>4 DEF refreshTransient, Fault
        <5> QED BY <1>0, <5>1
      <4> QED BY <3>1, <4>2, <4>3, <4>4 DEF refreshCredentials
    <3>2. CASE ~refreshCredentials(c)
      <4>1. UNCHANGED <<live, issued>>
        BY <1>2, <3>2 DEF TokenStep, loadAccount, getExecutionCredentials, acquireLock,
             pollConnection, giveUp, rereadConnection, storeCredentials, failureRead,
             failureAccount, failureCas, releaseLock, providerAside
      <4>2. faults' = faults \/ faults' = faults + 1
        BY <1>2, <3>2 DEF TokenStep, loadAccount, getExecutionCredentials, acquireLock,
             pollConnection, giveUp, rereadConnection, storeCredentials, failureRead,
             failureAccount, failureCas, releaseLock, Fault
      <4> QED BY <1>0, <4>1, <4>2
    <3> QED BY <3>1, <3>2
  <2> QED BY <1>0, <1>2, <2>1, <2>2, <2>3, TokenFrame
<1>3. ASSUME NEW c \in Calls, crash(c)
      PROVE  /\ status' \in Statuses /\ conn' \in Connections
             /\ live' \in SUBSET Nat /\ issued' \in Nat /\ epoch' \in Nat /\ faults' \in Nat
  BY <1>0, <1>3 DEF crash, Fault
<1>4. CASE WorldStep
  <2>1. status' \in Statuses
    BY <1>0, <1>4, <1>s DEF WorldStep, UserNext, upsertWithConnection, disconnectRead,
         revokeToken, disconnect, providerRevokes, timePasses, lockExpires, enqueueSync,
         setStatus, rowsAside
  <2>2. conn' \in Connections
    <3>1. CASE upsertWithConnection
      BY <1>0, <3>1 DEF upsertWithConnection, setConn, expiresAt, Connections, Lives
    <3>2. CASE disconnect
      BY <3>2 DEF disconnect, setConn, Wiped, Connections, Lives
    <3>3. CASE timePasses
      BY <1>0, <3>3 DEF timePasses, Connections, Lives
    <3>4. CASE conn' = conn
      BY <1>0, <3>4
    <3> QED BY <1>4, <3>1, <3>2, <3>3, <3>4 DEF WorldStep, UserNext, disconnectRead,
              revokeToken, providerRevokes, lockExpires, enqueueSync, rowsAside,
              accountAside
  <2>3. live' \in SUBSET Nat /\ issued' \in Nat
    <3>1. CASE upsertWithConnection
      <4>1. issued' = issued + 1 /\ live' \in {live, live \cup {issued + 1}}
        BY <3>1 DEF upsertWithConnection
      <4>2. issued + 1 \in Nat
        BY <1>0
      <4> QED BY <1>0, <4>1, <4>2
    <3>2. CASE ~upsertWithConnection
      <4>1. issued' = issued /\ live' \subseteq live
        BY <1>4, <3>2 DEF WorldStep, UserNext, disconnectRead, revokeToken, revoked,
             disconnect, providerRevokes, timePasses, lockExpires, enqueueSync,
             accountAside, providerAside
      <4> QED BY <1>0, <4>1
    <3> QED BY <3>1, <3>2
  <2>4. epoch' \in Nat /\ faults' \in Nat
    BY <1>0, <1>4 DEF WorldStep, UserNext, upsertWithConnection, disconnectRead,
         revokeToken, disconnect, providerRevokes, timePasses, lockExpires,
         enqueueSync, accountAside, rowsAside, Fault
  <2> QED BY <2>1, <2>2, <2>3, <2>4
<1>5. CASE UNCHANGED accountVars
  BY <1>0, <1>5 DEF accountVars
<1> QED BY <1>1, <1>2, <1>3, <1>4, <1>5, StepKinds

\* The lock, what calls have read, and the jobs.
LEMMA CallsStep ==
  ASSUME TypeOK, [Next]_accountVars
  PROVE  /\ lock' \in Calls \cup {NoCall} /\ overrun' \in SUBSET Calls
         /\ seen' \in [Calls -> Connections] /\ got' \in [Calls -> Credentials]
         /\ accSame' \in SUBSET Calls /\ connSame' \in SUBSET Calls /\ torn' \in SUBSET Calls
<1>0. /\ lock \in Calls \cup {NoCall} /\ overrun \in SUBSET Calls
      /\ seen \in [Calls -> Connections] /\ got \in [Calls -> Credentials]
      /\ accSame \in SUBSET Calls /\ connSame \in SUBSET Calls /\ torn \in SUBSET Calls
      /\ conn \in Connections /\ issued \in Nat
  BY DEF TypeOK
<1>w. Wiped \in Connections /\ NoCredentials \in Credentials
  BY DEF Wiped, Connections, Lives, NoCredentials, Credentials
<1>1. ASSUME NEW c \in Calls, JobStep(c)
      PROVE  /\ lock' \in Calls \cup {NoCall} /\ overrun' \in SUBSET Calls
             /\ seen' \in [Calls -> Connections] /\ got' \in [Calls -> Credentials]
             /\ accSame' \in SUBSET Calls /\ connSame' \in SUBSET Calls /\ torn' \in SUBSET Calls
  BY <1>0, <1>1, JobFrame
<1>2. ASSUME NEW c \in Calls, TokenStep(c)
      PROVE  /\ lock' \in Calls \cup {NoCall} /\ overrun' \in SUBSET Calls
             /\ seen' \in [Calls -> Connections] /\ got' \in [Calls -> Credentials]
             /\ accSame' \in SUBSET Calls /\ connSame' \in SUBSET Calls /\ torn' \in SUBSET Calls
  <2>1. lock' \in {lock, c, NoCall} /\ overrun' \in {overrun, overrun \ {c}}
    BY <1>2 DEF TokenStep, loadAccount, getExecutionCredentials, acquireLock,
         pollConnection, giveUp, rereadConnection, refreshCredentials, storeCredentials,
         failureRead, failureAccount, failureCas, releaseLock, forgetCall
  <2>2. seen' = seen \/ seen' = [seen EXCEPT ![c] = conn] \/ seen' = [seen EXCEPT ![c] = Wiped]
    BY <1>2 DEF TokenStep, loadAccount, getExecutionCredentials, acquireLock,
         pollConnection, giveUp, rereadConnection, refreshCredentials, storeCredentials,
         failureRead, failureAccount, failureCas, releaseLock, forgetCall
  <2>3. /\ accSame' \in {accSame, {}, accSame \cup {c}, accSame \ {c}}
        /\ connSame' \in {connSame, {}, connSame \cup {c}, connSame \ {c}}
        /\ torn' \in {torn, torn \cup {x \in Calls : pc[x] = "failAccount"}, torn \ {c}}
    BY <1>2 DEF TokenStep, loadAccount, getExecutionCredentials, acquireLock,
         pollConnection, giveUp, rereadConnection, refreshCredentials, storeCredentials,
         failureRead, failureAccount, failureCas, releaseLock, forgetCall, rowsAside,
         reactivate, setStatus, setConn
  <2>4. got' \in [Calls -> Credentials]
    <3>1. CASE refreshAccepted(c)
      <4>1. seen[c].refresh \in Nat /\ seen[c].epoch \in Nat /\ issued + 1 \in Nat
        BY <1>0 DEF Connections
      <4>2. PICK rotate, expires \in BOOLEAN :
              got' = [got EXCEPT ![c] =
                       [access |-> issued + 1,
                        refresh |-> IF rotate THEN issued + 1 ELSE seen[c].refresh,
                        expires |-> expires, epoch |-> seen[c].epoch]]
        BY <3>1, Zenon DEF refreshAccepted
      <4>3. [access |-> issued + 1, refresh |-> IF rotate THEN issued + 1 ELSE seen[c].refresh,
             expires |-> expires, epoch |-> seen[c].epoch] \in Credentials
        BY <4>1, <4>2 DEF Credentials
      <4> QED BY <1>0, <4>2, <4>3
    <3>2. CASE ~refreshAccepted(c)
      <4>1. got' = got \/ got' = [got EXCEPT ![c] = NoCredentials]
        BY <1>2, <3>2 DEF TokenStep, loadAccount, getExecutionCredentials, acquireLock,
             pollConnection, giveUp, rereadConnection, refreshCredentials, refreshRefused,
             refreshTransient, storeCredentials, failureRead, failureAccount, failureCas,
             releaseLock
      <4> QED BY <1>0, <1>w, <4>1
    <3> QED BY <3>1, <3>2
  <2> QED BY <1>0, <1>w, <2>1, <2>2, <2>3, <2>4
<1>3. ASSUME NEW c \in Calls, crash(c)
      PROVE  /\ lock' \in Calls \cup {NoCall} /\ overrun' \in SUBSET Calls
             /\ seen' \in [Calls -> Connections] /\ got' \in [Calls -> Credentials]
             /\ accSame' \in SUBSET Calls /\ connSame' \in SUBSET Calls /\ torn' \in SUBSET Calls
  BY <1>0, <1>w, <1>3 DEF crash, forgetCall
<1>4. CASE WorldStep
  <2>1. lock' \in Calls \cup {NoCall} /\ overrun' \in SUBSET Calls
    <3>1. CASE lockExpires
      BY <1>0, <3>1 DEF lockExpires
    <3>2. CASE ~lockExpires
      BY <1>0, <1>4, <3>2 DEF WorldStep, UserNext, upsertWithConnection, disconnectRead,
           revokeToken, disconnect, providerRevokes, timePasses, enqueueSync, workersAside,
           accountAside
    <3> QED BY <3>1, <3>2
  <2>2. /\ accSame' \in {accSame, {}} /\ connSame' \in {connSame, {}}
        /\ torn' \in {torn, torn \cup {x \in Calls : pc[x] = "failAccount"}}
    BY <1>4 DEF WorldStep, UserNext, upsertWithConnection, disconnectRead, revokeToken,
         disconnect, providerRevokes, timePasses, lockExpires, enqueueSync, accountAside,
         rowsAside, setStatus, setConn
  <2> QED BY <1>0, <1>4, <2>1, <2>2, WorldFrame
<1>5. CASE UNCHANGED accountVars
  BY <1>0, <1>5 DEF accountVars
<1> QED BY <1>1, <1>2, <1>3, <1>4, <1>5, StepKinds

\* The jobs of the queue, their runs and the request to disconnect.
LEMMA JobsStep ==
  ASSUME TypeOK, [Next]_accountVars
  PROVE  /\ job' \in [Syncs -> {"none", "waiting", "active", "completed", "failed"}]
         /\ run' \in [Syncs -> {"NONE", "RUNNING", "SKIPPED", "COMPLETED", "FAILED"}]
         /\ tried' \in [Syncs -> Nat]
         /\ disc' \in [at : {"idle", "revoke", "wipe"}, refresh : Nat] /\ discs' \in Nat
<1> DEFINE States == {"none", "waiting", "active", "completed", "failed"}
           Runs == {"NONE", "RUNNING", "SKIPPED", "COMPLETED", "FAILED"}
           Places == [at : {"idle", "revoke", "wipe"}, refresh : Nat]
           Good == /\ job' \in [Syncs -> States] /\ run' \in [Syncs -> Runs]
                   /\ tried' \in [Syncs -> Nat] /\ disc' \in Places /\ discs' \in Nat
<1>0. /\ job \in [Syncs -> States] /\ run \in [Syncs -> Runs] /\ tried \in [Syncs -> Nat]
      /\ disc \in Places /\ discs \in Nat /\ MaxAttempts \in Nat
      /\ conn.refresh \in Nat
  BY AccountAssumption DEF TypeOK, Connections
<1>1. ASSUME NEW s \in Syncs, SyncStep(s) PROVE Good
  <2>1. disc' = disc /\ discs' = discs
    BY <1>1 DEF SyncStep, startSync, checkAccount, credentialsForSync, fetchMetrics,
         syncUnauthorized, upsertMetrics, accountAside
  <2>2. job' = job \/ \E x \in States : job' = [job EXCEPT ![s] = x]
    BY <1>1 DEF SyncStep, startSync, checkAccount, credentialsForSync, fetchMetrics,
         syncUnauthorized, upsertMetrics, jobReturns, jobThrows
  <2>3. run' = run \/ \E x \in Runs : run' = [run EXCEPT ![s] = x]
    BY <1>1 DEF SyncStep, startSync, checkAccount, credentialsForSync, fetchMetrics,
         syncUnauthorized, upsertMetrics, completeSyncRun
  <2>4. tried' = tried \/ tried' = [tried EXCEPT ![s] = IF @ < MaxAttempts THEN @ + 1 ELSE @]
    BY <1>1 DEF SyncStep, startSync, checkAccount, credentialsForSync, fetchMetrics,
         syncUnauthorized, upsertMetrics
  <2>5. tried' \in [Syncs -> Nat]
    BY <1>0, <2>4
  <2>6. job' \in [Syncs -> States] /\ run' \in [Syncs -> Runs]
    <3> HIDE DEF States, Runs
    <3> QED BY <1>0, <2>2, <2>3
  <2> QED BY <1>0, <2>1, <2>5, <2>6
<1>2. ASSUME NEW p \in Publishes, PublishStep(p) PROVE Good
  BY <1>0, <1>2 DEF PublishStep, startPublish, credentialsForPublish, handleFailure,
       accountAside
<1>3. ASSUME NEW c \in Calls, TokenStep(c) PROVE Good
  BY <1>0, <1>3, TokenFrame
<1>4. ASSUME NEW c \in Calls, crash(c) PROVE Good
  BY <1>0, <1>4 DEF crash
<1>5. CASE WorldStep
  <2>1. job' = job \/ \E s \in Syncs : job' = [job EXCEPT ![s] = "waiting"]
    BY <1>5 DEF WorldStep, UserNext, upsertWithConnection, disconnectRead, revokeToken,
         disconnect, providerRevokes, timePasses, lockExpires, enqueueSync, workersAside,
         jobVars, jobsAside
  <2>2. disc' \in Places /\ discs' \in Nat
    BY <1>0, <1>5 DEF WorldStep, UserNext, upsertWithConnection, disconnectRead,
         revokeToken, disconnect, providerRevokes, timePasses, lockExpires, enqueueSync,
         accountAside, jobsAside
  <2> QED BY <1>0, <1>5, <2>1, <2>2, WorldFrame
<1>6. CASE UNCHANGED accountVars
  BY <1>0, <1>6 DEF accountVars
<1>7. Good
  BY <1>1, <1>2, <1>3, <1>4, <1>5, <1>6, StepKinds DEF JobStep
<1> QED BY <1>7

-----------------------------------------------------------------------------
(* The lock and the runs                                                   *)

\* The key is the holder's from SET NX to its release, unless its time has passed.
LEMMA LockStep ==
  ASSUME TypeOK, LockIsExclusive, [Next]_accountVars
  PROVE  LockIsExclusive'
<1>0. /\ pc \in [Calls -> TokenPcs \cup JobPcs] /\ NoCall \notin Calls
      /\ lock \in Calls \cup {NoCall}
  BY AccountAssumption DEF TypeOK
<1>1. ASSUME NEW c \in Calls, JobStep(c) PROVE LockIsExclusive'
  <2>1. pc'[c] \notin Critical
    BY <1>0, <1>1, JobFrame DEF JobPcs, Critical
  <2> QED BY <1>1, <2>1, JobFrame, OthersStay DEF LockIsExclusive
<1>2. ASSUME NEW c \in Calls, crash(c) PROVE LockIsExclusive'
  <2>1. pc'[c] \notin Critical /\ lock' = lock /\ overrun' = overrun \ {c}
    BY <1>0, <1>2 DEF crash, forgetCall, Goto, Critical
  <2> QED BY <1>2, <2>1, OthersStay DEF LockIsExclusive
<1>3. ASSUME NEW c \in Calls, TokenStep(c) PROVE LockIsExclusive'
  <2>0. \A d \in Calls \ {c} : pc'[d] = pc[d]
    BY <1>3, OthersStay
  <2>1. CASE acquireLock(c)
    <3>1. overrun' = overrun \ {c}
      BY <2>1 DEF acquireLock
    <3>2. CASE lock = NoCall /\ lock' = c
      BY <1>0, <2>0, <3>1, <3>2 DEF LockIsExclusive
    <3>3. CASE lock' = lock /\ Goto(c, "poll")
      <4>1. pc'[c] \notin Critical
        BY <1>0, <3>3 DEF Goto, Critical
      <4> QED BY <2>0, <3>1, <3>3, <4>1 DEF LockIsExclusive
    <3> QED BY <2>1, <3>2, <3>3 DEF acquireLock
  <2>2. CASE releaseLock(c)
    <3>1. /\ pc'[c] \notin Critical /\ overrun' = overrun \ {c}
          /\ lock' \in {lock, IF lock = c THEN NoCall ELSE lock}
      BY <1>0, <2>2 DEF releaseLock, forgetCall, Goto, Critical
    <3> QED BY <2>0, <3>1 DEF LockIsExclusive
  <2>3. CASE loadAccount(c) \/ getExecutionCredentials(c) \/ pollConnection(c) \/ giveUp(c)
    <3>1. pc'[c] \notin Critical /\ UNCHANGED <<lock, overrun>>
      BY <1>0, <2>3 DEF loadAccount, getExecutionCredentials, pollConnection, giveUp, Ends,
           Goto, Critical
    <3> QED BY <2>0, <3>1 DEF LockIsExclusive
  <2>4. CASE rereadConnection(c) \/ refreshCredentials(c) \/ storeCredentials(c)
             \/ failureRead(c) \/ failureAccount(c) \/ failureCas(c)
    <3>1. pc[c] \in Critical /\ UNCHANGED <<lock, overrun>>
      BY <2>4 DEF rereadConnection, refreshCredentials, storeCredentials, failureRead,
                  failureAccount, failureCas, Critical
    <3> QED BY <2>0, <3>1 DEF LockIsExclusive
  <2> QED BY <1>3, <2>1, <2>2, <2>3, <2>4 DEF TokenStep
<1>4. CASE lockExpires
  BY <1>0, <1>4 DEF lockExpires, tokenVars, LockIsExclusive
<1>5. CASE (WorldStep /\ ~lockExpires) \/ UNCHANGED accountVars
  <2>1. UNCHANGED <<lock, overrun>>
    BY <1>5 DEF WorldStep, UserNext, upsertWithConnection, disconnectRead, revokeToken,
         disconnect, providerRevokes, timePasses, enqueueSync, workersAside, accountAside,
         accountVars
  <2> QED BY <1>5, <2>1, WorldFrame DEF LockIsExclusive
<1> QED BY <1>1, <1>2, <1>3, <1>4, <1>5, StepKinds

\* A worker that does not die closes its run before it leaves the job.
LEMMA RunsStep ==
  ASSUME TypeOK, RunsAreClosed, [Next]_accountVars
  PROVE  RunsAreClosed'
<1>0. /\ pc \in [Calls -> TokenPcs \cup JobPcs] /\ faults \in Nat /\ Syncs \subseteq Calls
      /\ Syncs \cap Publishes = {}
      /\ run \in [Syncs -> {"NONE", "RUNNING", "SKIPPED", "COMPLETED", "FAILED"}]
  BY AccountAssumption DEF TypeOK, Calls
<1>1. ASSUME NEW s \in Syncs, SyncStep(s) PROVE RunsAreClosed'
  <2>1. \A t \in Syncs \ {s} : pc'[t] = pc[t] /\ run'[t] = run[t]
    <3>1. \A t \in Syncs \ {s} : pc'[t] = pc[t]
      BY <1>0, <1>1, OthersStay DEF JobStep
    <3>2. run' = run \/ \E x : run' = [run EXCEPT ![s] = x]
      BY <1>1 DEF SyncStep, startSync, checkAccount, credentialsForSync, fetchMetrics,
           syncUnauthorized, upsertMetrics, completeSyncRun
    <3> QED BY <1>0, <3>1, <3>2
  <2>2. faults' = faults
    BY <1>0, <1>1, JobFrame DEF JobStep
  <2>3. pc'[s] = "idle" => run'[s] # "RUNNING"
    BY <1>0, <1>1 DEF SyncStep, startSync, checkAccount, credentialsForSync, fetchMetrics,
         syncUnauthorized, upsertMetrics, completeSyncRun, jobReturns, jobThrows, Goto
  <2> QED BY <2>1, <2>2, <2>3 DEF RunsAreClosed
<1>2. ASSUME NEW p \in Publishes, PublishStep(p) PROVE RunsAreClosed'
  <2>1. p \in Calls /\ \A s \in Syncs : pc'[s] = pc[s]
    BY <1>0, <1>2, OthersStay DEF JobStep, Calls
  <2>2. UNCHANGED <<run, faults>>
    BY <1>2 DEF PublishStep, startPublish, credentialsForPublish, handleFailure
  <2> QED BY <2>1, <2>2 DEF RunsAreClosed
<1>3. ASSUME NEW c \in Calls, TokenStep(c) PROVE RunsAreClosed'
  <2>1. run' = run /\ pc'[c] # "idle"
    BY <1>0, <1>3, TokenFrame DEF TokenPcs
  <2>2. \A s \in Syncs : pc'[s] = "idle" => pc[s] = "idle"
    BY <1>0, <1>3, <2>1, OthersStay
  <2>3. faults' = 0 => faults = 0
    BY <1>0, <1>3 DEF TokenStep, loadAccount, getExecutionCredentials, acquireLock,
         pollConnection, giveUp, rereadConnection, refreshCredentials, refreshAccepted,
         refreshRefused, refreshTransient, storeCredentials, failureRead, failureAccount,
         failureCas, releaseLock, Fault
  <2> QED BY <2>1, <2>2, <2>3 DEF RunsAreClosed
<1>4. ASSUME NEW c \in Calls, crash(c) PROVE RunsAreClosed'
  BY <1>0, <1>4 DEF crash, Fault, RunsAreClosed
<1>5. CASE WorldStep \/ UNCHANGED accountVars
  <2>1. faults' = 0 => faults = 0
    BY <1>0, <1>5 DEF WorldStep, UserNext, upsertWithConnection, disconnectRead,
         revokeToken, disconnect, providerRevokes, timePasses, lockExpires, enqueueSync,
         Fault, accountVars
  <2> QED BY <1>5, <2>1, WorldFrame DEF RunsAreClosed
<1> QED BY <1>1, <1>2, <1>3, <1>4, <1>5, StepKinds DEF JobStep

-----------------------------------------------------------------------------
(* Numbers                                                                 *)

\* a step that gives out no number, stores none and reads none
Calm ==
  /\ issued' = issued /\ epoch' = epoch
  /\ conn'.access = conn.access /\ conn'.cipher = conn.cipher /\ conn'.refresh = conn.refresh
  /\ conn'.epoch = conn.epoch /\ conn'.consent = conn.consent
  /\ \A d \in Calls :
       /\ seen'[d] \in {seen[d], Wiped}
       /\ pc'[d] \in {"provider", "store"} =>
            pc[d] = pc'[d] /\ seen'[d] = seen[d] /\ got'[d] = got[d]

\* a call receives new tokens
Accepts(c) == refreshCredentials(c) /\ refreshAccepted(c)

\* a call stores them
Swaps(c) == storeCredentials(c) /\ conn.cipher = seen[c].cipher

\* Only these steps are not calm.
LEMMA NumberKinds ==
  ASSUME TypeOK, [Next]_accountVars
  PROVE  \/ Calm \/ upsertWithConnection \/ disconnect
         \/ \E c \in Calls : rereadConnection(c) \/ Accepts(c) \/ Swaps(c)
<1>0. /\ pc \in [Calls -> TokenPcs \cup JobPcs] /\ seen \in [Calls -> Connections]
      /\ got \in [Calls -> Credentials] /\ conn \in Connections
  BY DEF TypeOK
<1>1. ASSUME NEW c \in Calls, JobStep(c) PROVE Calm
  <2>1. pc'[c] \notin {"provider", "store"}
    BY <1>0, <1>1, JobFrame DEF JobPcs
  <2>2. UNCHANGED <<issued, epoch, conn, seen, got>>
    BY <1>1, JobFrame
  <2> QED BY <1>1, <2>1, <2>2, OthersStay DEF Calm
<1>2. ASSUME NEW c \in Calls, crash(c) PROVE Calm
  <2>1. /\ pc'[c] \notin {"provider", "store"} /\ seen'[c] = Wiped
        /\ UNCHANGED <<issued, epoch, conn>>
    BY <1>0, <1>2 DEF crash, Goto, forgetCall
  <2> QED BY <1>2, <2>1, OthersStay DEF Calm
<1>3. ASSUME NEW c \in Calls, TokenStep(c), ~rereadConnection(c), ~Accepts(c), ~Swaps(c)
      PROVE  Calm
  <2>1. pc'[c] \notin {"provider", "store"}
    BY <1>0, <1>3 DEF TokenStep, loadAccount, getExecutionCredentials, acquireLock,
         pollConnection, giveUp, refreshCredentials, Accepts, refreshRefused,
         refreshTransient, storeCredentials, failureRead, failureAccount, failureCas,
         releaseLock, Goto, Ends, Leaves
  <2>2. UNCHANGED <<issued, epoch, conn>>
    BY <1>3 DEF TokenStep, loadAccount, getExecutionCredentials, acquireLock,
         pollConnection, giveUp, refreshCredentials, Accepts, Swaps, refreshRefused,
         refreshTransient, storeCredentials, failureRead, failureAccount, failureCas,
         releaseLock, rowsAside, providerAside
  <2>3. seen' \in {seen, [seen EXCEPT ![c] = Wiped]}
    BY <1>3 DEF TokenStep, loadAccount, getExecutionCredentials, acquireLock,
         pollConnection, giveUp, refreshCredentials, storeCredentials, failureRead,
         failureAccount, failureCas, releaseLock, forgetCall
  <2>4. seen'[c] \in {seen[c], Wiped}
    BY <1>0, <2>3
  <2> QED BY <1>3, <2>1, <2>2, <2>4, OthersStay DEF Calm
<1>4. CASE WorldStep /\ ~upsertWithConnection /\ ~disconnect
  <2>1. issued' = issued /\ epoch' = epoch
    BY <1>4 DEF WorldStep, UserNext, disconnectRead, revokeToken, providerRevokes,
         timePasses, lockExpires, enqueueSync, rowsAside, providerAside, accountAside
  <2>2. /\ conn'.access = conn.access /\ conn'.cipher = conn.cipher
        /\ conn'.refresh = conn.refresh /\ conn'.epoch = conn.epoch
        /\ conn'.consent = conn.consent
    <3>1. CASE timePasses
      BY <1>0, <3>1 DEF timePasses, Connections
    <3>2. CASE ~timePasses
      BY <1>4, <3>2 DEF WorldStep, UserNext, disconnectRead, revokeToken, providerRevokes,
           lockExpires, enqueueSync, rowsAside, accountAside
    <3> QED BY <3>1, <3>2
  <2> QED BY <1>4, <2>1, <2>2, WorldFrame DEF Calm
<1>5. CASE UNCHANGED accountVars
  BY <1>5 DEF accountVars, Calm
<1> QED BY <1>1, <1>2, <1>3, <1>4, <1>5, StepKinds

\* The re-read under the lock: the call goes on with what the row holds, or leaves.
LEMMA Rereads ==
  ASSUME TypeOK, NEW c \in Calls, rereadConnection(c)
  PROVE  /\ UNCHANGED <<conn, issued, epoch, got, live, disc, discs, faults, overrun>>
         /\ pc[c] = "reread"
         /\ pc'[c] \in {"release", "failRead", "provider"}
         /\ seen'[c] \in {seen[c], conn}
         /\ pc'[c] = "provider" => seen'[c] = conn /\ conn.cipher # 0
         /\ \A d \in Calls \ {c} : pc'[d] = pc[d] /\ seen'[d] = seen[d]
<1>0. pc \in [Calls -> TokenPcs \cup JobPcs] /\ seen \in [Calls -> Connections]
  BY DEF TypeOK
<1> QED BY <1>0 DEF rereadConnection, Leaves, Goto, providerAside, jobsAside,
          hasRefreshToken

\* The provider's answer: a new access token, and the old refresh token or a new one.
LEMMA Answers ==
  ASSUME TypeOK, NEW c \in Calls, Accepts(c)
  PROVE  /\ UNCHANGED <<conn, epoch, seen, disc, discs, faults, overrun>> /\ issued' = issued + 1
         /\ pc[c] = "provider" /\ pc'[c] = "store" /\ seen[c].refresh \in live
         /\ got'[c].access = issued + 1 /\ got'[c].epoch = seen[c].epoch
         /\ \/ got'[c].refresh = seen[c].refresh /\ live' = live
            \/ /\ got'[c].refresh = issued + 1
               /\ live' = (live \ {seen[c].refresh}) \cup {issued + 1}
         /\ \A d \in Calls \ {c} : pc'[d] = pc[d] /\ got'[d] = got[d]
<1>0. pc \in [Calls -> TokenPcs \cup JobPcs] /\ got \in [Calls -> Credentials]
  BY DEF TypeOK
<1>1. /\ UNCHANGED <<conn, epoch, seen, disc, discs, faults, overrun>> /\ issued' = issued + 1
      /\ pc[c] = "provider" /\ pc' = [pc EXCEPT ![c] = "store"] /\ seen[c].refresh \in live
  BY DEF Accepts, refreshCredentials, refreshAccepted, rowsAside, jobsAside, Goto
<1>2. PICK rotate, expires \in BOOLEAN :
        /\ live' = IF rotate THEN (live \ {seen[c].refresh}) \cup {issued + 1} ELSE live
        /\ got' = [got EXCEPT ![c] = [access |-> issued + 1,
                                      refresh |-> IF rotate THEN issued + 1 ELSE seen[c].refresh,
                                      expires |-> expires, epoch |-> seen[c].epoch]]
  <2>1. \E rotate, expires \in BOOLEAN :
          LET refresh == IF rotate THEN issued + 1 ELSE seen[c].refresh
          IN  /\ live' = IF rotate THEN (live \ {seen[c].refresh}) \cup {refresh} ELSE live
              /\ got' = [got EXCEPT ![c] = [access |-> issued + 1, refresh |-> refresh,
                                            expires |-> expires, epoch |-> seen[c].epoch]]
    BY DEF Accepts, refreshAccepted
  <2> QED BY <2>1
<1>3. /\ got'[c].access = issued + 1 /\ got'[c].epoch = seen[c].epoch
      /\ \A d \in Calls \ {c} : got'[d] = got[d]
  BY <1>0, <1>2
<1>4. \/ got'[c].refresh = seen[c].refresh /\ live' = live
      \/ /\ got'[c].refresh = issued + 1
         /\ live' = (live \ {seen[c].refresh}) \cup {issued + 1}
  BY <1>0, <1>2
<1> QED BY <1>0, <1>1, <1>3, <1>4

\* The compare-and-swap that hits: the row holds what the call received.
LEMMA Stores ==
  ASSUME TypeOK, NEW c \in Calls, Swaps(c)
  PROVE  /\ UNCHANGED <<issued, epoch, seen, live, disc, discs, faults, overrun>>
         /\ pc[c] = "store" /\ pc'[c] = "release" /\ conn.cipher = seen[c].cipher
         /\ conn'.access = got[c].access /\ conn'.cipher = got[c].access
         /\ conn'.refresh = got[c].refresh /\ conn'.epoch = got[c].epoch
         /\ conn'.consent = conn.consent
         /\ \A d \in Calls \ {c} : pc'[d] = pc[d] /\ got'[d] = got[d]
<1>0. pc \in [Calls -> TokenPcs \cup JobPcs] /\ got \in [Calls -> Credentials]
  BY DEF TypeOK
<1>1. conn' = credentialsOf(c)
  BY DEF Swaps, storeCredentials, setConn
<1>2. /\ UNCHANGED <<issued, epoch, seen, live, disc, discs, faults, overrun>>
      /\ pc[c] = "store" /\ pc' = [pc EXCEPT ![c] = "release"]
      /\ got' = [got EXCEPT ![c] = NoCredentials] /\ conn.cipher = seen[c].cipher
  BY DEF Swaps, storeCredentials, providerAside, jobsAside, Leaves, Goto
<1> QED BY <1>0, <1>1, <1>2 DEF credentialsOf

\* A consent: a new access token, and a new refresh token or the one that is stored.
LEMMA Consents ==
  ASSUME TypeOK, upsertWithConnection
  PROVE  /\ UNCHANGED <<epoch, seen, got, pc, disc, discs, faults, overrun>>
         /\ issued' = issued + 1 /\ accSame' = {} /\ connSame' = {}
         /\ conn'.access = issued + 1 /\ conn'.epoch = epoch
         /\ \/ /\ conn'.cipher = issued + 1 /\ conn'.refresh = issued + 1
               /\ live' = live \cup {issued + 1}
            \/ conn'.cipher = conn.cipher /\ conn'.refresh = conn.refresh /\ live' = live
<1>1. /\ UNCHANGED <<epoch, seen, got, pc, disc, discs, faults, overrun>>
      /\ issued' = issued + 1 /\ accSame' = {} /\ connSame' = {}
  BY DEF upsertWithConnection, workersAside, tokenVars, setStatus, setConn
<1>2. PICK withRefresh, expires \in BOOLEAN :
        /\ live' = IF withRefresh THEN live \cup {issued + 1} ELSE live
        /\ conn' = [access |-> issued + 1, life |-> expiresAt(expires), epoch |-> epoch,
                    consent |-> issued + 1,
                    cipher |-> IF withRefresh THEN issued + 1 ELSE conn.cipher,
                    refresh |-> IF withRefresh THEN issued + 1 ELSE conn.refresh]
  BY DEF upsertWithConnection, setConn
<1> QED BY <1>1, <1>2

\* The types the argument about numbers uses, and what a disconnect leaves.
LEMMA NumberTypes ==
  ASSUME TypeOK
  PROVE  /\ issued \in Nat /\ epoch \in Nat /\ live \in SUBSET Nat
         /\ conn.access \in Nat /\ conn.cipher \in Nat /\ conn.refresh \in Nat
         /\ \A c \in Calls : /\ seen[c].cipher \in Nat /\ seen[c].refresh \in Nat
                             /\ got[c].access \in Nat
         /\ Wiped.cipher = 0 /\ Wiped.refresh = 0 /\ Wiped.access = 0
BY DEF TypeOK, Connections, Credentials, Wiped

\* No number is ahead of the provider.
LEMMA NumberedStep ==
  ASSUME TypeOK, Numbered, Unstored, [Next]_accountVars
  PROVE  Numbered'
<1>0. /\ issued \in Nat /\ conn.cipher \in Nat /\ conn.refresh \in Nat
      /\ \A c \in Calls : seen[c].cipher \in Nat /\ seen[c].refresh \in Nat
      /\ Wiped.cipher = 0 /\ Wiped.refresh = 0 /\ Wiped.access = 0
  BY NumberTypes
<1>1. CASE Calm
  BY <1>0, <1>1 DEF Calm, Numbered
<1>2. CASE upsertWithConnection
  <2>1. /\ conn'.cipher \in {issued + 1, conn.cipher} /\ conn'.refresh \in {issued + 1, conn.refresh}
        /\ conn'.access = issued + 1 /\ issued' = issued + 1 /\ UNCHANGED <<seen, pc>>
    BY <1>2, Consents
  <2> QED BY <1>0, <2>1 DEF Numbered
<1>3. CASE disconnect
  <2>1. conn' = Wiped /\ UNCHANGED <<issued, seen, pc>>
    BY <1>3 DEF disconnect, setConn, workersAside, tokenVars
  <2> QED BY <1>0, <2>1 DEF Numbered
<1>4. ASSUME NEW c \in Calls, rereadConnection(c) PROVE Numbered'
  <2>1. /\ UNCHANGED <<conn, issued>>
        /\ seen'[c] \in {seen[c], conn} /\ pc'[c] # "store"
        /\ pc'[c] = "provider" => seen'[c] = conn /\ conn.cipher # 0
        /\ \A d \in Calls \ {c} : pc'[d] = pc[d] /\ seen'[d] = seen[d]
    BY <1>4, Rereads
  <2> QED BY <2>1 DEF Numbered
<1>5. ASSUME NEW c \in Calls, Accepts(c) PROVE Numbered'
  <2>1. /\ UNCHANGED <<conn, seen>> /\ issued' = issued + 1 /\ pc[c] = "provider"
        /\ \A d \in Calls \ {c} : pc'[d] = pc[d]
    BY <1>5, Answers
  <2> QED BY <1>0, <2>1 DEF Numbered
<1>6. ASSUME NEW c \in Calls, Swaps(c) PROVE Numbered'
  <2>1. /\ UNCHANGED <<issued, seen>> /\ pc[c] = "store" /\ pc'[c] = "release"
        /\ conn'.access = got[c].access /\ conn'.cipher = got[c].access
        /\ conn'.refresh = got[c].refresh
        /\ \A d \in Calls \ {c} : pc'[d] = pc[d]
    BY <1>6, Stores
  <2>2. got[c].access \in 1..issued /\ got[c].refresh <= issued
    BY <2>1 DEF Unstored
  <2> QED BY <1>0, <2>1, <2>2 DEF Numbered
<1> QED BY <1>1, <1>2, <1>3, <1>4, <1>5, <1>6, NumberKinds

\* A number that was given out and not yet stored is nowhere else.
LEMMA UnstoredStep ==
  ASSUME TypeOK, Numbered, Unstored, [Next]_accountVars
  PROVE  Unstored'
<1>0. /\ issued \in Nat /\ conn.cipher \in Nat
      /\ \A c \in Calls : seen[c].cipher \in Nat /\ got[c].access \in Nat
      /\ Wiped.cipher = 0
  BY NumberTypes
<1>n. /\ conn.cipher <= issued /\ conn.refresh <= issued
      /\ \A c \in Calls : seen[c].cipher <= issued /\ seen[c].refresh <= issued
  BY DEF Numbered
<1>1. CASE Calm
  <2>1. SUFFICES ASSUME NEW c \in Calls, pc'[c] = "store"
                 PROVE  /\ got'[c].access \in 1..issued' /\ got'[c].epoch = seen'[c].epoch
                        /\ got'[c].refresh <= issued' /\ got'[c].access # conn'.cipher
                        /\ \A d \in Calls :
                             /\ seen'[d].cipher # got'[c].access
                             /\ d # c /\ pc'[d] = "store" => got'[d].access # got'[c].access
    BY DEF Unstored
  <2>2. /\ pc[c] = "store" /\ seen'[c] = seen[c] /\ got'[c] = got[c] /\ issued' = issued
        /\ conn'.cipher = conn.cipher
    BY <1>1, <2>1 DEF Calm
  <2>3. ASSUME NEW d \in Calls
        PROVE  /\ seen'[d].cipher # got'[c].access
               /\ d # c /\ pc'[d] = "store" => got'[d].access # got'[c].access
    <3>1. /\ seen'[d] \in {seen[d], Wiped}
          /\ pc'[d] = "store" => pc[d] = "store" /\ got'[d] = got[d]
      BY <1>1 DEF Calm
    <3> QED BY <1>0, <2>2, <3>1 DEF Unstored
  <2> QED BY <2>2, <2>3 DEF Unstored
<1>2. CASE upsertWithConnection
  <2>1. /\ conn'.cipher \in {issued + 1, conn.cipher} /\ issued' = issued + 1
        /\ UNCHANGED <<seen, pc, got>>
    BY <1>2, Consents
  <2>2. \A c \in Calls : pc[c] = "store" =>
          /\ got[c].access \in 1..issued /\ got[c].epoch = seen[c].epoch
          /\ got[c].refresh <= issued /\ got[c].refresh \in Nat /\ got[c].access # conn.cipher
    BY DEF Unstored, TypeOK, Credentials
  <2>3. \A c \in Calls : pc'[c] = "store" =>
          /\ got'[c].access \in 1..issued' /\ got'[c].epoch = seen'[c].epoch
          /\ got'[c].refresh <= issued' /\ got'[c].access # conn'.cipher
    BY <1>0, <2>1, <2>2
  <2>4. \A c \in Calls : pc'[c] = "store" =>
          \A d \in Calls : /\ seen'[d].cipher # got'[c].access
                           /\ d # c /\ pc'[d] = "store" => got'[d].access # got'[c].access
    BY <2>1 DEF Unstored
  <2> QED BY <2>3, <2>4 DEF Unstored
<1>3. CASE disconnect
  <2>1. conn'.cipher = 0 /\ UNCHANGED <<issued, seen, pc, got>>
    BY <1>0, <1>3 DEF disconnect, setConn, workersAside, tokenVars
  <2>2. \A c \in Calls : pc[c] = "store" => got[c].access # 0
    BY <1>0 DEF Unstored
  <2> QED BY <2>1, <2>2 DEF Unstored
<1>4. ASSUME NEW c \in Calls, rereadConnection(c) PROVE Unstored'
  <2>1. /\ UNCHANGED <<conn, issued, got>> /\ pc'[c] # "store" /\ seen'[c] \in {seen[c], conn}
        /\ \A d \in Calls \ {c} : pc'[d] = pc[d] /\ seen'[d] = seen[d]
    BY <1>4, Rereads
  <2>2. \A d \in Calls : pc'[d] = "store" => d # c /\ pc[d] = "store" /\ seen'[d] = seen[d]
    BY <2>1
  <2> QED BY <2>1, <2>2 DEF Unstored
<1>5. ASSUME NEW c \in Calls, Accepts(c) PROVE Unstored'
  <2>1. /\ UNCHANGED <<conn, seen>> /\ issued' = issued + 1 /\ got'[c].access = issued + 1
        /\ got'[c].epoch = seen[c].epoch /\ got'[c].refresh \in {issued + 1, seen[c].refresh}
        /\ \A d \in Calls \ {c} : pc'[d] = pc[d] /\ got'[d] = got[d]
    BY <1>5, Answers
  <2>2. \A d \in Calls \ {c} : pc'[d] = "store" =>
          /\ got'[d].access \in 1..issued /\ got'[d].epoch = seen[d].epoch
          /\ got'[d].refresh <= issued /\ got'[d].refresh \in Nat /\ got'[d].access # conn.cipher
    BY <2>1 DEF Unstored, TypeOK, Credentials
  <2>3. seen[c].refresh \in Nat /\ seen[c].refresh <= issued
    BY <1>n, NumberTypes
  <2>4. \A d \in Calls : pc'[d] = "store" =>
          /\ got'[d].access \in 1..issued' /\ got'[d].epoch = seen'[d].epoch
          /\ got'[d].refresh <= issued' /\ got'[d].access # conn'.cipher
    BY <1>0, <1>n, <2>1, <2>2, <2>3
  <2>5. ASSUME NEW d \in Calls, pc'[d] = "store", NEW e \in Calls
        PROVE  /\ seen'[e].cipher # got'[d].access
               /\ e # d /\ pc'[e] = "store" => got'[e].access # got'[d].access
    <3>1. CASE d = c
      BY <1>0, <1>n, <2>1, <2>2, <3>1
    <3>2. CASE d # c
      <4>1. seen[e].cipher # got[d].access
        BY <2>1, <2>5, <3>2 DEF Unstored
      <4>2. CASE e = c
        BY <1>0, <2>1, <2>2, <2>5, <3>2, <4>1, <4>2
      <4>3. CASE e # c
        BY <2>1, <2>5, <3>2, <4>3 DEF Unstored
      <4> QED BY <4>2, <4>3
    <3> QED BY <3>1, <3>2
  <2> QED BY <2>4, <2>5 DEF Unstored
<1>6. ASSUME NEW c \in Calls, Swaps(c) PROVE Unstored'
  <2>1. /\ UNCHANGED <<issued, seen>> /\ pc[c] = "store" /\ pc'[c] = "release"
        /\ conn'.cipher = got[c].access
        /\ \A d \in Calls \ {c} : pc'[d] = pc[d] /\ got'[d] = got[d]
    BY <1>6, Stores
  <2>2. \A d \in Calls : pc'[d] = "store" => d # c /\ pc[d] = "store" /\ got'[d] = got[d]
    BY <2>1
  <2> QED BY <2>1, <2>2 DEF Unstored
<1> QED BY <1>1, <1>2, <1>3, <1>4, <1>5, <1>6, NumberKinds

\* The compare-and-swap never hits a row of another consent, so what it stores belongs to
\* the present one.
LEMMA EpochStep ==
  ASSUME TypeOK, Numbered, Unstored, SameEpoch, WithdrawnStaysWiped, [Next]_accountVars
  PROVE  SameEpoch' /\ WithdrawnStaysWiped'
<1>0. /\ issued \in Nat /\ epoch \in Nat /\ conn.cipher \in Nat /\ conn.access \in Nat
      /\ \A c \in Calls : seen[c].cipher \in Nat
      /\ Wiped.cipher = 0 /\ Wiped.access = 0
  BY NumberTypes
<1>n. /\ conn.cipher # 0 => conn.access # 0
      /\ \A c \in Calls : /\ seen[c].cipher <= issued
                          /\ pc[c] \in {"provider", "store"} => seen[c].cipher # 0
  BY DEF Numbered
<1>1. CASE Calm
  BY <1>1 DEF Calm, SameEpoch, WithdrawnStaysWiped
<1>2. CASE upsertWithConnection
  <2>1. /\ conn'.cipher \in {issued + 1, conn.cipher} /\ conn'.epoch = epoch
        /\ UNCHANGED <<seen, pc, epoch>>
    BY <1>2, Consents
  <2>2. \A c \in Calls : seen[c].cipher # issued + 1
    BY <1>0, <1>n
  <2> QED BY <2>1, <2>2 DEF SameEpoch, WithdrawnStaysWiped
<1>3. CASE disconnect
  <2>1. conn'.cipher = 0 /\ conn'.access = 0 /\ UNCHANGED <<seen, pc>>
    BY <1>0, <1>3 DEF disconnect, setConn, workersAside, tokenVars
  <2> QED BY <1>n, <2>1 DEF SameEpoch, WithdrawnStaysWiped
<1>4. ASSUME NEW c \in Calls, rereadConnection(c) PROVE SameEpoch' /\ WithdrawnStaysWiped'
  <2>1. /\ UNCHANGED <<conn, epoch>> /\ pc'[c] # "store"
        /\ pc'[c] = "provider" => seen'[c] = conn /\ conn.cipher # 0
        /\ \A d \in Calls \ {c} : pc'[d] = pc[d] /\ seen'[d] = seen[d]
    BY <1>4, Rereads
  <2>2. pc'[c] = "provider" => seen'[c].epoch = epoch
    BY <1>n, <2>1 DEF WithdrawnStaysWiped
  <2> QED BY <2>1, <2>2 DEF SameEpoch, WithdrawnStaysWiped
<1>5. ASSUME NEW c \in Calls, Accepts(c) PROVE SameEpoch' /\ WithdrawnStaysWiped'
  <2>1. /\ UNCHANGED <<conn, seen, epoch>> /\ pc[c] = "provider"
        /\ \A d \in Calls \ {c} : pc'[d] = pc[d]
    BY <1>5, Answers
  <2> QED BY <2>1 DEF SameEpoch, WithdrawnStaysWiped
<1>6. ASSUME NEW c \in Calls, Swaps(c) PROVE SameEpoch' /\ WithdrawnStaysWiped'
  <2>1. /\ UNCHANGED <<seen, epoch>> /\ pc[c] = "store" /\ pc'[c] = "release"
        /\ conn.cipher = seen[c].cipher /\ conn'.cipher = got[c].access
        /\ conn'.epoch = got[c].epoch
        /\ \A d \in Calls \ {c} : pc'[d] = pc[d]
    BY <1>6, Stores
  <2>2. got[c].epoch = seen[c].epoch /\ \A d \in Calls : seen[d].cipher # got[c].access
    BY <2>1 DEF Unstored
  <2>3. seen[c].epoch = epoch
    BY <2>1 DEF SameEpoch
  <2> QED BY <2>1, <2>2, <2>3 DEF SameEpoch, WithdrawnStaysWiped
<1> QED BY <1>1, <1>2, <1>3, <1>4, <1>5, <1>6, NumberKinds

-----------------------------------------------------------------------------
(* Snapshots                                                               *)

\* A row whose updatedAt is still the one read has not changed consent.
LEMMA SnapshotsStep ==
  ASSUME TypeOK, SnapshotsHold, [Next]_accountVars
  PROVE  SnapshotsHold'
<1>0. /\ pc \in [Calls -> TokenPcs \cup JobPcs] /\ seen \in [Calls -> Connections]
      /\ accSame \in SUBSET Calls /\ connSame \in SUBSET Calls /\ conn \in Connections
      /\ out \in [Calls -> {"none", "token", "auth", "error"}]
  BY DEF TypeOK
<1>1. ASSUME NEW c \in Calls, JobStep(c) PROVE SnapshotsHold'
  <2>1. c \notin connSame /\ c \notin accSame
    <3>1. pc[c] \notin Critical
      BY <1>1, JobFrame DEF JobPcs, Critical
    <3> QED BY <3>1 DEF SnapshotsHold, Critical
  <2>2. UNCHANGED <<conn, seen, connSame, torn>> /\ accSame' \subseteq accSame
    BY <1>1, JobFrame
  <2>3. pc'[c] # "failAccount"
    BY <1>0, <1>1, JobFrame DEF JobPcs
  <2> QED BY <1>1, <2>1, <2>2, <2>3, OthersStay DEF SnapshotsHold
<1>2. ASSUME NEW c \in Calls, crash(c) PROVE SnapshotsHold'
  <2>1. /\ conn' = conn /\ connSame' = connSame \ {c} /\ accSame' = accSame \ {c}
        /\ torn' = torn \ {c} /\ pc'[c] # "failAccount"
    BY <1>0, <1>2 DEF crash, forgetCall, Goto
  <2> QED BY <1>2, <2>1, OthersStay DEF SnapshotsHold
<1>3. ASSUME NEW c \in Calls, TokenStep(c) PROVE SnapshotsHold'
  <2>0. \A d \in Calls \ {c} : pc'[d] = pc[d] /\ seen'[d] = seen[d] /\ out'[d] = out[d]
    BY <1>3, OthersStay
  <2>1. CASE \/ loadAccount(c) \/ getExecutionCredentials(c) \/ acquireLock(c)
             \/ pollConnection(c) \/ giveUp(c)
    <3>1. /\ pc[c] \notin Critical /\ UNCHANGED <<conn, seen, connSame, accSame, torn>>
          /\ pc'[c] # "failAccount"
      BY <1>0, <2>1 DEF loadAccount, getExecutionCredentials, acquireLock, pollConnection,
           giveUp, Critical, rowsAside, Goto, Ends
    <3>2. c \notin connSame /\ c \notin accSame
      BY <3>1 DEF SnapshotsHold, Critical
    <3> QED BY <2>0, <3>1, <3>2 DEF SnapshotsHold
  <2>2. CASE rereadConnection(c)
    <3>1. /\ c \notin connSame /\ c \notin accSame
      BY <2>2 DEF rereadConnection, SnapshotsHold, Critical
    <3>2. /\ UNCHANGED <<conn, accSame, torn>> /\ pc'[c] # "failAccount"
          /\ \/ connSame' = connSame
             \/ /\ connSame' = connSame \cup {c} /\ seen' = [seen EXCEPT ![c] = conn]
                /\ pc'[c] \in {"failRead", "provider"}
      BY <1>0, <2>2 DEF rereadConnection, Goto, Leaves
    <3> QED BY <1>0, <2>0, <3>1, <3>2 DEF SnapshotsHold, Critical
  <2>3. CASE refreshCredentials(c)
    <3>1. /\ UNCHANGED <<conn, seen, connSame, accSame, torn>> /\ pc[c] = "provider"
          /\ pc'[c] \in {"store", "failRead", "release"}
      BY <1>0, <2>3 DEF refreshCredentials, refreshAccepted, refreshRefused,
           refreshTransient, rowsAside, Goto, Leaves
    <3> QED BY <2>0, <3>1 DEF SnapshotsHold, Critical
  <2>4. CASE storeCredentials(c)
    <3>1. /\ conn'.consent = conn.consent /\ seen' = seen /\ connSame' \subseteq connSame
          /\ accSame' \subseteq accSame /\ torn \subseteq torn'
          /\ pc[c] = "store" /\ pc'[c] = "release"
      BY <1>0, <2>4 DEF storeCredentials, credentialsOf, setConn, reactivate, setStatus,
           Goto, Leaves
    <3> QED BY <2>0, <3>1 DEF SnapshotsHold, Critical
  <2>5. CASE failureRead(c)
    <3>1. /\ UNCHANGED <<conn, seen, connSame, accSame, torn>> /\ pc[c] = "failRead"
          /\ pc'[c] = "failAccount" /\ (out'[c] = "none" => c \in connSame)
      BY <1>0, <2>5 DEF failureRead, Goto, rowsAside
    <3> QED BY <2>0, <3>1 DEF SnapshotsHold, Critical
  <2>6. CASE failureAccount(c)
    <3>1. /\ UNCHANGED <<conn, seen, connSame, torn>> /\ pc[c] = "failAccount"
          /\ \/ accSame' = accSame /\ pc'[c] = "release"
             \/ /\ out[c] = "none" /\ accSame' = accSame \cup {c} /\ pc'[c] = "failCas"
      BY <1>0, <2>6 DEF failureAccount, Goto, Leaves
    <3> QED BY <2>0, <3>1 DEF SnapshotsHold, Critical
  <2>7. CASE failureCas(c)
    <3>1. /\ UNCHANGED <<conn, seen, connSame, torn>> /\ pc[c] = "failCas"
          /\ pc'[c] = "release" /\ accSame' \subseteq accSame
      BY <1>0, <2>7 DEF failureCas, setStatus, Goto, Leaves
    <3> QED BY <2>0, <3>1 DEF SnapshotsHold, Critical
  <2>8. CASE releaseLock(c)
    <3>1. /\ conn' = conn /\ connSame' = connSame \ {c} /\ accSame' = accSame \ {c}
          /\ torn' = torn \ {c} /\ pc'[c] = "ret"
      BY <1>0, <2>8 DEF releaseLock, forgetCall, Goto
    <3> QED BY <2>0, <3>1 DEF SnapshotsHold
  <2> QED BY <1>3, <2>1, <2>2, <2>3, <2>4, <2>5, <2>6, <2>7, <2>8 DEF TokenStep
<1>4. CASE upsertWithConnection \/ disconnect
  <2>1. /\ connSame' = {} /\ accSame' = {}
        /\ torn' = torn \cup {x \in Calls : pc[x] = "failAccount"}
    BY <1>4 DEF upsertWithConnection, disconnect, setStatus, setConn
  <2>2. pc' = pc
    BY <1>4, WorldFrame DEF WorldStep, UserNext
  <2> QED BY <2>1, <2>2 DEF SnapshotsHold
<1>5. CASE (WorldStep /\ ~upsertWithConnection /\ ~disconnect) \/ UNCHANGED accountVars
  <2>1. UNCHANGED <<connSame, accSame, torn>>
    BY <1>5 DEF WorldStep, UserNext, disconnectRead, revokeToken, providerRevokes,
         timePasses, lockExpires, enqueueSync, rowsAside, accountAside, accountVars
  <2>2. conn'.consent = conn.consent
    <3>1. CASE timePasses
      BY <1>0, <3>1 DEF timePasses, Connections
    <3>2. CASE ~timePasses
      BY <1>5, <3>2 DEF WorldStep, UserNext, disconnectRead, revokeToken, providerRevokes,
           lockExpires, enqueueSync, rowsAside, accountAside, accountVars
    <3> QED BY <3>1, <3>2
  <2> QED BY <1>5, <2>1, <2>2, WorldFrame DEF SnapshotsHold
<1> QED BY <1>1, <1>2, <1>3, <1>4, <1>5, StepKinds

-----------------------------------------------------------------------------
(* The refresh token in the row                                            *)

\* What a step without a fault and without a disconnect leaves as it was.
LEMMA FaultFree ==
  ASSUME TypeOK, RefreshLives, [Next]_accountVars, faults' = 0, discs' = 0
  PROVE  /\ faults = 0 /\ discs = 0 /\ disc' = disc /\ overrun' \subseteq overrun
         /\ live' = live \/ upsertWithConnection \/ \E c \in Calls : Accepts(c)
         /\ ~disconnect /\ \A c \in Calls : ~crash(c)
<1>0. faults \in Nat /\ discs \in Nat
  BY DEF TypeOK
<1>1. faults = 0 /\ discs = 0 /\ \A c \in Calls : ~crash(c)
  <2>1. \A c \in Calls : ~crash(c)
    BY <1>0 DEF crash, Fault
  <2>2. ASSUME NEW c \in Calls, JobStep(c) PROVE faults = 0 /\ discs = 0
    BY <2>2, JobFrame
  <2>3. ASSUME NEW c \in Calls, TokenStep(c) PROVE faults = 0 /\ discs = 0
    <3>1. faults' = faults \/ faults' = faults + 1
      BY <2>3 DEF TokenStep, loadAccount, getExecutionCredentials, acquireLock,
           pollConnection, giveUp, rereadConnection, refreshCredentials, refreshAccepted,
           refreshRefused, refreshTransient, storeCredentials, failureRead, failureAccount,
           failureCas, releaseLock, Fault
    <3> QED BY <1>0, <2>3, <3>1, TokenFrame
  <2>4. CASE WorldStep \/ UNCHANGED accountVars
    <3>1. faults' \in {faults, faults + 1}
      BY <2>4 DEF WorldStep, UserNext, upsertWithConnection, disconnectRead, revokeToken,
           disconnect, providerRevokes, timePasses, lockExpires, enqueueSync, Fault,
           accountVars
    <3>2. discs' \in {discs, discs + 1}
      BY <2>4 DEF WorldStep, UserNext, upsertWithConnection, disconnectRead, revokeToken,
           disconnect, providerRevokes, timePasses, lockExpires, enqueueSync, jobsAside,
           accountAside, accountVars
    <3> QED BY <1>0, <2>1, <3>1, <3>2
  <2> QED BY <2>1, <2>2, <2>3, <2>4, StepKinds
<1>2. disc.at = "idle"
  BY <1>1 DEF RefreshLives
<1>3. ~disconnect /\ ~revokeToken /\ ~disconnectRead /\ ~providerRevokes
  BY <1>0, <1>1, <1>2 DEF disconnect, revokeToken, disconnectRead, providerRevokes, Fault
<1>4. ASSUME NEW c \in Calls, JobStep(c)
      PROVE  disc' = disc /\ overrun' \subseteq overrun /\ live' = live
  BY <1>4, JobFrame
<1>5. ASSUME NEW c \in Calls, TokenStep(c)
      PROVE  disc' = disc /\ overrun' \subseteq overrun /\ (live' = live \/ Accepts(c))
  <2>1. disc' = disc
    BY <1>5, TokenFrame
  <2>2. overrun' \subseteq overrun
    BY <1>5 DEF TokenStep, loadAccount, getExecutionCredentials, acquireLock,
         pollConnection, giveUp, rereadConnection, refreshCredentials, storeCredentials,
         failureRead, failureAccount, failureCas, releaseLock, forgetCall
  <2>3. CASE refreshCredentials(c)
    <3>1. CASE refreshTransient(c)
      BY <1>0, <1>1, <2>1, <2>2, <3>1 DEF refreshTransient, Fault
    <3> QED BY <2>1, <2>2, <2>3, <3>1 DEF refreshCredentials, Accepts, refreshRefused,
                                          providerAside
  <2>4. CASE ~refreshCredentials(c)
    <3>1. live' = live
      BY <1>5, <2>4 DEF TokenStep, loadAccount, getExecutionCredentials, acquireLock,
           pollConnection, giveUp, rereadConnection, storeCredentials, failureRead,
           failureAccount, failureCas, releaseLock, providerAside
    <3> QED BY <2>1, <2>2, <3>1
  <2> QED BY <2>3, <2>4
<1>6. CASE WorldStep \/ UNCHANGED accountVars
  <2>1. disc' = disc /\ (live' = live \/ upsertWithConnection)
    BY <1>3, <1>6 DEF WorldStep, UserNext, upsertWithConnection, timePasses, lockExpires,
         enqueueSync, jobsAside, accountAside, providerAside, accountVars
  <2>2. overrun' = overrun
    BY <1>0, <1>1, <1>3, <1>6 DEF WorldStep, UserNext, upsertWithConnection, timePasses,
         lockExpires, enqueueSync, workersAside, accountAside, Fault, accountVars
  <2> QED BY <1>1, <1>3, <2>1, <2>2
<1> QED BY <1>1, <1>3, <1>4, <1>5, <1>6, StepKinds

\* A call leaves the store by its compare-and-swap or with its process.
LEMMA LeavesStore ==
  ASSUME TypeOK, [Next]_accountVars, NEW c \in Calls, pc[c] = "store", pc'[c] # "store"
  PROVE  storeCredentials(c) \/ crash(c)
<1>1. PICK d \in Calls : TokenStep(d) \/ JobStep(d) \/ crash(d)
  BY StepKinds, WorldFrame
<1>2. d = c
  BY <1>1, OthersStay
<1>3. ~JobStep(c)
  BY JobFrame DEF JobPcs
<1> QED BY <1>1, <1>2, <1>3 DEF TokenStep, loadAccount, getExecutionCredentials,
          acquireLock, pollConnection, giveUp, rereadConnection, refreshCredentials,
          failureRead, failureAccount, failureCas, releaseLock

\* Without faults and disconnects one call at a time refreshes, and the row has a token
\* that the provider accepts, but for the moment between its answer and the store.
LEMMA RefreshLivesStep ==
  ASSUME TypeOK, Numbered, Unstored, LockIsExclusive, RefreshLives, [Next]_accountVars
  PROVE  RefreshLives'
<1>1. SUFFICES ASSUME faults' = 0, discs' = 0
               PROVE  /\ overrun' = {} /\ disc'.at = "idle" /\ conn'.cipher # 0
                      /\ \A c \in Calls : pc'[c] \in {"provider", "store"} =>
                           \/ conn'.cipher = seen'[c].cipher /\ conn'.refresh = seen'[c].refresh
                           \/ conn'.refresh \in live' \ {seen'[c].refresh}
                      /\ \A c \in Calls : pc'[c] = "store" => got'[c].refresh \in live'
                      /\ (\A c \in Calls : pc'[c] # "store") => conn'.refresh \in live'
  BY DEF RefreshLives
<1>2. /\ faults = 0 /\ discs = 0 /\ disc' = disc /\ overrun' \subseteq overrun
      /\ live' = live \/ upsertWithConnection \/ \E c \in Calls : Accepts(c)
      /\ ~disconnect /\ \A c \in Calls : ~crash(c)
  BY <1>1, FaultFree
<1>3. /\ overrun = {} /\ disc.at = "idle" /\ conn.cipher # 0
      /\ \A c \in Calls : pc[c] \in {"provider", "store"} =>
           \/ conn.cipher = seen[c].cipher /\ conn.refresh = seen[c].refresh
           \/ conn.refresh \in live \ {seen[c].refresh}
      /\ \A c \in Calls : pc[c] = "store" => got[c].refresh \in live
      /\ (\A c \in Calls : pc[c] # "store") => conn.refresh \in live
  BY <1>2 DEF RefreshLives
<1>4. overrun' = {} /\ disc'.at = "idle"
  BY <1>2, <1>3
<1>5. \A c, d \in Calls :
        {pc[c], pc[d]} \subseteq {"reread", "provider", "store"} => c = d
  BY <1>3 DEF LockIsExclusive, Critical
<1>6. /\ issued \in Nat /\ conn.cipher \in Nat /\ conn.refresh \in Nat
      /\ \A c \in Calls : seen[c].cipher \in Nat /\ seen[c].refresh \in Nat
      /\ \A c \in Calls : seen[c].refresh <= issued
  BY NumberTypes DEF Numbered
<1>7. CASE upsertWithConnection
  <2>1. /\ UNCHANGED <<seen, got, pc>>
        /\ \/ /\ conn'.cipher = issued + 1 /\ conn'.refresh = issued + 1
              /\ live' = live \cup {issued + 1}
           \/ conn'.cipher = conn.cipher /\ conn'.refresh = conn.refresh /\ live' = live
    BY <1>7, Consents
  <2>2. issued + 1 # 0 /\ \A c \in Calls : seen[c].refresh # issued + 1
    BY <1>6
  <2> QED BY <1>3, <1>4, <2>1, <2>2
<1>8. ASSUME NEW c \in Calls, Accepts(c)
      PROVE  /\ conn'.cipher # 0
             /\ \A d \in Calls : pc'[d] \in {"provider", "store"} =>
                  \/ conn'.cipher = seen'[d].cipher /\ conn'.refresh = seen'[d].refresh
                  \/ conn'.refresh \in live' \ {seen'[d].refresh}
             /\ \A d \in Calls : pc'[d] = "store" => got'[d].refresh \in live'
             /\ (\A d \in Calls : pc'[d] # "store") => conn'.refresh \in live'
  <2>1. /\ UNCHANGED <<conn, seen>> /\ pc[c] = "provider" /\ pc'[c] = "store"
        /\ seen[c].refresh \in live
        /\ \/ got'[c].refresh = seen[c].refresh /\ live' = live
           \/ /\ got'[c].refresh = issued + 1
              /\ live' = (live \ {seen[c].refresh}) \cup {issued + 1}
        /\ \A d \in Calls \ {c} : pc'[d] = pc[d] /\ got'[d] = got[d]
    BY <1>8, Answers
  <2>2. \A d \in Calls : pc'[d] \in {"provider", "store"} => d = c
    BY <1>5, <2>1
  <2> QED BY <1>3, <2>1, <2>2
<1>9. CASE live' = live /\ ~upsertWithConnection /\ \A c \in Calls : ~Accepts(c)
  <2>1. ASSUME NEW c \in Calls, rereadConnection(c)
        PROVE  /\ conn'.cipher # 0
               /\ \A d \in Calls : pc'[d] \in {"provider", "store"} =>
                    \/ conn'.cipher = seen'[d].cipher /\ conn'.refresh = seen'[d].refresh
                    \/ conn'.refresh \in live' \ {seen'[d].refresh}
               /\ \A d \in Calls : pc'[d] = "store" => got'[d].refresh \in live'
               /\ (\A d \in Calls : pc'[d] # "store") => conn'.refresh \in live'
    <3>1. /\ UNCHANGED <<conn, got>> /\ pc[c] = "reread" /\ pc'[c] # "store"
          /\ pc'[c] = "provider" => seen'[c] = conn
          /\ \A d \in Calls \ {c} : pc'[d] = pc[d] /\ seen'[d] = seen[d]
      BY <2>1, Rereads
    <3> QED BY <1>3, <1>9, <3>1
  <2>2. ASSUME NEW c \in Calls, Swaps(c)
        PROVE  /\ conn'.cipher # 0
               /\ \A d \in Calls : pc'[d] \in {"provider", "store"} =>
                    \/ conn'.cipher = seen'[d].cipher /\ conn'.refresh = seen'[d].refresh
                    \/ conn'.refresh \in live' \ {seen'[d].refresh}
               /\ \A d \in Calls : pc'[d] = "store" => got'[d].refresh \in live'
               /\ (\A d \in Calls : pc'[d] # "store") => conn'.refresh \in live'
    <3>1. /\ pc[c] = "store" /\ pc'[c] = "release" /\ conn'.cipher = got[c].access
          /\ conn'.refresh = got[c].refresh /\ \A d \in Calls \ {c} : pc'[d] = pc[d]
      BY <2>2, Stores
    <3>2. got[c].access # 0
      BY <1>6, <3>1 DEF Unstored
    <3>3. \A d \in Calls : pc'[d] \notin {"provider", "store"}
      BY <1>5, <3>1
    <3> QED BY <1>3, <1>9, <3>1, <3>2, <3>3
  <2>3. CASE Calm /\ \A c \in Calls : ~Swaps(c)
    <3>1. /\ conn'.cipher = conn.cipher /\ conn'.refresh = conn.refresh
          /\ \A d \in Calls : pc'[d] \in {"provider", "store"} =>
               pc[d] = pc'[d] /\ seen'[d] = seen[d] /\ got'[d] = got[d]
      BY <2>3 DEF Calm
    <3>2. (\A c \in Calls : pc'[c] # "store") => conn'.refresh \in live'
      <4>1. ASSUME NEW c \in Calls, pc[c] = "store", pc'[c] # "store"
            PROVE  conn.refresh \in live
        <5>1. storeCredentials(c)
          BY <1>2, <4>1, LeavesStore
        <5>2. conn.cipher # seen[c].cipher
          BY <2>3, <5>1 DEF Swaps
        <5> QED BY <1>3, <4>1, <5>2
      <4> QED BY <1>3, <1>9, <3>1, <4>1
    <3> QED BY <1>3, <1>4, <1>9, <3>1, <3>2
  <2> QED BY <1>2, <1>4, <1>9, <2>1, <2>2, <2>3, NumberKinds
<1> QED BY <1>2, <1>4, <1>7, <1>8, <1>9

-----------------------------------------------------------------------------
(* The properties                                                          *)

\* what holds of the account, its tokens and its calls between steps
AccountInv ==
  /\ PollsCounted /\ LockIsExclusive /\ RunsAreClosed /\ SnapshotsHold
  /\ Numbered /\ Unstored /\ SameEpoch /\ WithdrawnStaysWiped /\ RefreshLives

\* All of it holds of an account just connected.
LEMMA AccountInit ==
  ASSUME Init
  PROVE  TypeOK /\ AccountInv
<1> USE DEF Init
<1>0. /\ \A c \in Calls : /\ pc[c] = "idle" /\ seen[c] = Wiped /\ polls[c] = 0
      /\ conn.access = 1 /\ conn.cipher = 1 /\ conn.refresh = 1 /\ conn.epoch = 0
      /\ live = {1} /\ issued = 1 /\ epoch = 0
      /\ Wiped.cipher = 0 /\ Wiped.refresh = 0
  BY DEF Wiped
<1>1. TypeOK
  <2>1. status \in Statuses /\ was \in [Calls -> Statuses]
    BY DEF Statuses
  <2>2. conn \in Connections /\ seen \in [Calls -> Connections]
    BY DEF Connections, Lives, Wiped
  <2>3. got \in [Calls -> Credentials]
    BY DEF Credentials, NoCredentials
  <2>4. pc \in [Calls -> TokenPcs \cup JobPcs]
    BY DEF JobPcs
  <2>5. polls \in [Calls -> 0..MaxPolls]
    BY AccountAssumption
  <2>6. /\ out \in [Calls -> {"none", "token", "auth", "error"}]
        /\ job \in [Syncs -> {"none", "waiting", "active", "completed", "failed"}]
        /\ run \in [Syncs -> {"NONE", "RUNNING", "SKIPPED", "COMPLETED", "FAILED"}]
        /\ tried \in [Syncs -> Nat]
    OBVIOUS
  <2>7. /\ disc \in [at : {"idle", "revoke", "wipe"}, refresh : Nat] /\ discs \in Nat
        /\ faults \in Nat /\ live \in SUBSET Nat /\ issued \in Nat /\ epoch \in Nat
        /\ lock \in Calls \cup {NoCall} /\ overrun \in SUBSET Calls
        /\ accSame \in SUBSET Calls /\ connSame \in SUBSET Calls /\ torn \in SUBSET Calls
    OBVIOUS
  <2> QED BY <2>1, <2>2, <2>3, <2>4, <2>5, <2>6, <2>7 DEF TypeOK
<1>2. PollsCounted /\ LockIsExclusive
  BY <1>0 DEF PollsCounted, LockIsExclusive, Critical
<1>3. RunsAreClosed /\ SnapshotsHold
  BY DEF RunsAreClosed, SnapshotsHold
<1>4. Numbered /\ Unstored /\ SameEpoch /\ WithdrawnStaysWiped
  BY <1>0 DEF Numbered, Unstored, SameEpoch, WithdrawnStaysWiped
<1>5. RefreshLives
  BY <1>0 DEF RefreshLives
<1> QED BY <1>1, <1>2, <1>3, <1>4, <1>5 DEF AccountInv

\* Every step keeps all of it.
LEMMA AccountStep ==
  ASSUME TypeOK, AccountInv, [Next]_accountVars
  PROVE  TypeOK' /\ AccountInv'
<1> USE DEF AccountInv
<1>1. TypeOK'
  BY PollsStep, PlacesStep, RowsStep, CallsStep, JobsStep DEF TypeOK
<1>2. PollsCounted' /\ LockIsExclusive' /\ RunsAreClosed' /\ SnapshotsHold'
  BY PollsStep, LockStep, RunsStep, SnapshotsStep
<1>3. Numbered' /\ Unstored' /\ SameEpoch' /\ WithdrawnStaysWiped' /\ RefreshLives'
  BY NumberedStep, UnstoredStep, EpochStep, RefreshLivesStep
<1> QED BY <1>1, <1>2, <1>3

\* The variables of the account keep their types, and the invariant holds, for any number
\* of jobs, tokens, crashes and disconnects.
THEOREM AccountTypeCorrect == Spec => [](TypeOK /\ AccountInv)
<1>1. Init => TypeOK /\ AccountInv
  BY AccountInit
<1>2. TypeOK /\ AccountInv /\ [Next]_accountVars => TypeOK' /\ AccountInv'
  BY AccountStep
<1> QED BY <1>1, <1>2, PTL DEF Spec

\* acquireLock and releaseLock: the key is its holder's until its time has passed.
THEOREM RefreshLockExcludes == Spec => []LockIsExclusive
<1>1. AccountInv => LockIsExclusive
  BY DEF AccountInv
<1> QED BY <1>1, AccountTypeCorrect, PTL

\* Tokens of a consent the user has withdrawn never return to the row.
THEOREM WithdrawnNeverStored == Spec => []WithdrawnStaysWiped
<1>1. AccountInv => WithdrawnStaysWiped
  BY DEF AccountInv
<1> QED BY <1>1, AccountTypeCorrect, PTL

\* Without faults and disconnects the refresh token in the row is one the provider
\* accepts, unless a call is about to replace it.
THEOREM StoredTokenAccepted == Spec => []StoredTokenIsLive
<1>1. AccountInv => StoredTokenIsLive
  BY DEF AccountInv, RefreshLives, StoredTokenIsLive
<1> QED BY <1>1, AccountTypeCorrect, PTL

\* A sync run that a worker lived to finish is closed.
THEOREM SyncRunsClose == Spec => []RunsAreClosed
<1>1. AccountInv => RunsAreClosed
  BY DEF AccountInv
<1> QED BY <1>1, AccountTypeCorrect, PTL

\* A refusal of old credentials does not mark an account reconnected since they were read,
\* unless the reconnect commits between the two SELECTs of handlePermanentAuthFailure.
THEOREM ReconnectIsKept == Spec => ReconnectWins
<1>1. TypeOK /\ AccountInv /\ [Next]_accountVars
      => [\A c \in Calls : (pc[c] = "failCas" /\ pc'[c] = "release" /\ status' # status)
                           => c \in torn \/ conn.consent = seen[c].consent]_accountVars
  <2>1. SUFFICES ASSUME TypeOK, AccountInv, [Next]_accountVars, NEW c \in Calls,
                        pc[c] = "failCas", pc'[c] = "release", status' # status
                 PROVE  c \in torn \/ conn.consent = seen[c].consent
    OBVIOUS
  <2>2. PICK d \in Calls : TokenStep(d) \/ JobStep(d) \/ crash(d)
    BY <2>1, StepKinds, WorldFrame
  <2>3. d = c
    BY <2>1, <2>2, OthersStay
  <2>4. failureCas(c)
    <3>1. ~JobStep(c)
      BY <2>1, JobFrame DEF JobPcs
    <3>2. ~crash(c)
      <4>1. pc \in [Calls -> TokenPcs \cup JobPcs]
        BY <2>1 DEF TypeOK
      <4> QED BY <2>1, <4>1 DEF crash, Goto
    <3> QED BY <2>1, <2>2, <2>3, <3>1, <3>2 DEF TokenStep, loadAccount,
              getExecutionCredentials, acquireLock, pollConnection, giveUp,
              rereadConnection, refreshCredentials, storeCredentials, failureRead,
              failureAccount, releaseLock
  <2>5. c \in accSame
    BY <2>1, <2>4 DEF failureCas
  <2> QED BY <2>1, <2>5 DEF AccountInv, SnapshotsHold
<1> QED BY <1>1, AccountTypeCorrect, PTL DEF Spec, ReconnectWins
=============================================================================
