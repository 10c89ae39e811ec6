----------------------------- MODULE AccountState -----------------------------
(***************************************************************************)
(* One social account: the SocialAccount row, its SocialConnection (the    *)
(* encrypted tokens), what the provider still honours, the Redis lock of   *)
(* the token service, and the jobs that work with the account.             *)
(***************************************************************************)
EXTENDS Naturals, FiniteSets

CONSTANTS
  Syncs,          \* BullMQ jobs of the sync queue
  Publishes,      \* executions of the publishing processor
  NoCall,         \* the lock key does not exist
  MaxPolls,       \* failed attempts at the lock before a call gives up (50)
  MaxAttempts,    \* attempts of a sync job (3)
  MaxTokens,      \* bound: access tokens the provider issues
  MaxDisconnects, \* bound: requests to disconnect
  MaxFaults       \* bound: crashes, lost answers, revocations and failed calls

Calls == Syncs \cup Publishes

ASSUME AccountAssumption ==
  /\ Syncs \cap Publishes = {}
  /\ NoCall \notin Calls
  /\ MaxPolls \in Nat \ {0} /\ MaxAttempts \in Nat /\ MaxTokens \in Nat
  /\ MaxDisconnects \in Nat /\ MaxFaults \in Nat

VARIABLES
  status,     \* SocialAccount.status
  conn,       \* SocialConnection
  live,       \* provider: the refresh tokens it still accepts
  issued,     \* provider: access tokens issued so far; they are numbered
  epoch,      \* consents the user has withdrawn so far
  lock,       \* lock:refresh:<account>, the call whose lockToken it holds
  overrun,    \* the lock's TTL has passed while its holder was still at work
  pc,         \* where each call of getExecutionCredentials, or its job, is
  out,        \* what the call returned or threw
  was,        \* status of the account row the call read first
  seen,       \* the connection the call read under the lock
  got,        \* the credentials the provider answered with
  polls,      \* failed attempts at the lock
  accSame,    \* calls for which SocialAccount.updatedAt is still what they read
  connSame,   \* calls for which SocialConnection.updatedAt is still what they read
  torn,       \* calls (history) whose failure read saw the connection before a write
              \* of it and reads the account after that write
  job,        \* state of each sync job
  run,        \* SyncRun.status of the job's last run
  tried,      \* attempts of each sync job so far
  disc,       \* where the disconnect request is, and the token it read
  discs, faults

tokenVars == <<pc, out, was, seen, got, polls>>
jobVars   == <<job, run, tried>>
discVars  == <<disc, discs>>
accountVars == <<status, conn, live, issued, epoch, lock, overrun, pc, out, was, seen,
                 got, polls, accSame, connSame, torn, job, run, tried, disc, discs,
                 faults>>

Statuses == {"ACTIVE", "REAUTH_REQUIRED", "DISCONNECTED"}

\* expiresAt against the clock: null, more than five minutes ahead, less, or past
Lives == {"null", "fresh", "near", "expired"}

\* a connection row: the access token, the ciphertext of the refresh token (numbered
\* by the access token it was stored with: encrypt() takes a new IV each time), the
\* refresh token it hides; epoch and consent (history) say after how many withdrawals
\* its tokens were granted, and which consent of the user wrote the row last
Connections == [access : Nat, cipher : Nat, refresh : Nat, life : Lives, epoch : Nat,
                consent : Nat]

Wiped == [access |-> 0, cipher |-> 0, refresh |-> 0, life |-> "null", epoch |-> 0,
          consent |-> 0]

\* OAuthCredentials: expires says whether the answer has an expires_in
Credentials == [access : Nat, refresh : Nat, expires : BOOLEAN, epoch : Nat]

NoCredentials == [access |-> 0, refresh |-> 0, expires |-> FALSE, epoch |-> 0]

TokenPcs == {"load", "loadConn", "acquire", "poll", "giveUp", "reread", "provider",
             "store", "failRead", "failAccount", "failCas", "release", "ret"}

JobPcs == {"idle", "check", "metrics", "upsert", "mark", "over"}

\* the calls between SET NX and releaseLock
Critical == {"reread", "provider", "store", "failRead", "failAccount", "failCas",
             "release"}

TypeOK ==
  /\ status \in Statuses
  /\ conn \in Connections
  /\ live \in SUBSET Nat /\ issued \in Nat /\ epoch \in Nat
  /\ lock \in Calls \cup {NoCall}
  /\ overrun \in SUBSET Calls
  /\ pc \in [Calls -> TokenPcs \cup JobPcs]
  /\ out \in [Calls -> {"none", "token", "auth", "error"}]
  /\ was \in [Calls -> Statuses]
  /\ seen \in [Calls -> Connections]
  /\ got \in [Calls -> Credentials]
  /\ polls \in [Calls -> 0..MaxPolls]
  /\ accSame \in SUBSET Calls /\ connSame \in SUBSET Calls /\ torn \in SUBSET Calls
  /\ job \in [Syncs -> {"none", "waiting", "active", "completed", "failed"}]
  /\ run \in [Syncs -> {"NONE", "RUNNING", "SKIPPED", "COMPLETED", "FAILED"}]
  /\ tried \in [Syncs -> Nat]
  /\ disc \in [at : {"idle", "revoke", "wipe"}, refresh : Nat]
  /\ discs \in Nat /\ faults \in Nat

\* an account just connected, its token due for refresh
Init ==
  /\ status = "ACTIVE"
  /\ conn = [access |-> 1, cipher |-> 1, refresh |-> 1, life |-> "near", epoch |-> 0,
             consent |-> 1]
  /\ live = {1} /\ issued = 1 /\ epoch = 0
  /\ lock = NoCall /\ overrun = {}
  /\ pc = [c \in Calls |-> "idle"]
  /\ out = [c \in Calls |-> "none"]
  /\ was = [c \in Calls |-> "ACTIVE"]
  /\ seen = [c \in Calls |-> Wiped]
  /\ got = [c \in Calls |-> NoCredentials]
  /\ polls = [c \in Calls |-> 0]
  /\ accSame = {} /\ connSame = {} /\ torn = {}
  /\ job = [s \in Syncs |-> "none"]
  /\ run = [s \in Syncs |-> "NONE"]
  /\ tried = [s \in Syncs |-> 0]
  /\ disc = [at |-> "idle", refresh |-> 0] /\ discs = 0 /\ faults = 0

\* a write of the account row: updatedAt moves
setStatus(s) == status' = s /\ accSame' = {}

\* a write of the connection row: updatedAt moves
setConn(c) ==
  /\ conn' = c /\ connSame' = {}
  /\ torn' = torn \cup {x \in Calls : pc[x] = "failAccount"}

\* Prisma leaves a column alone when its new value is undefined
expiresAt(expires) == IF expires THEN "fresh" ELSE conn.life

hasRefreshToken(c) == c.cipher # 0

\* the access token is there and its expiry, if it has one, is not past
stillValid == conn.access # 0 /\ conn.life \in {"fresh", "near"}

Fault == faults < MaxFaults /\ faults' = faults + 1
=============================================================================
