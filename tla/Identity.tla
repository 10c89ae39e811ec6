------------------------------ MODULE Identity ------------------------------
(***************************************************************************)
(* One e-mail address and the requests made for it: sign-up, verification  *)
(* and re-sending of its link, login, and the guarded requests (logout,    *)
(* change of password, revocation of every session).  AuthService,         *)
(* AuthGuard and the repositories await PostgreSQL, argon2 and Redis       *)
(* between the steps below, so requests interleave there; Redis may be     *)
(* away for a while, a read may fail and an API process may die.  A        *)
(* password is the number of changes before it.                            *)
(***************************************************************************)
EXTENDS SessionStore, Sequences, FiniteSets

CONSTANTS
  NoOne,       \* the author of an epoch that no session made
  TokenTtl,    \* life of a verification link (24 h)
  MaxTime,     \* bound: the clock
  MaxFaults,   \* bound: failed reads, lost mails and dead processes
  MaxOutages   \* bound: times Redis goes away

ASSUME IdentityAssumption ==
  /\ NoOne \notin Requests /\ TokenTtl \in Nat \ {0}
  /\ MaxTime \in Nat /\ MaxFaults \in Nat /\ MaxOutages \in Nat

VARIABLES
  user,      \* the User row: absent, unverified or verified
  password,  \* User.hashedPassword
  epoch,     \* User.securityEpoch
  makers,    \* which session made each epoch after the first
  token,     \* deadline of the link a request made, zero without one, retired or used
  mailed,    \* links that reached the mailbox
  uses,      \* times each link verified the address
  accounts,  \* User rows created
  pc,        \* where each request is
  carries,   \* the session of its cookie, or the link it brings
  seen,      \* what it has read: password and epoch
  tries,     \* attempts at the clean-up in Redis
  now, faults, outages

identityVars == <<storeVars, redisUp, user, password, epoch, makers, token, mailed, uses,
                  accounts, pc, carries, seen, tries, now, faults, outages>>

Pcs == {"idle", "loginCreates", "loginRechecks", "loginUndoes", "loggedIn",
        "guardChecks", "guardEvicts", "logout", "changeReads", "changeWrites", "changeCleans",
        "revokeWrites", "revokeCleans", "signupCommits", "mails", "resendRetires",
        "resendCreates", "consumes", "over"}

maxAttempts == 3

TypeOK ==
  /\ StoreTypeOK
  /\ user \in {"absent", "unverified", "verified"}
  /\ password \in Nat /\ epoch \in Nat
  /\ makers \in Seq(Requests \cup {NoOne})
  /\ token \in [Requests -> Nat]
  /\ mailed \in SUBSET Requests
  /\ uses \in [Requests -> Nat] /\ accounts \in Nat
  /\ pc \in [Requests -> Pcs]
  /\ carries \in [Requests -> Requests \cup {NoOne}]
  /\ seen \in [Requests -> [password: Nat, epoch: Nat]]
  /\ tries \in [Requests -> 0..maxAttempts]
  /\ now \in Nat /\ faults \in Nat /\ outages \in Nat

\* The address is free, or has an account whose owner may still be logged in
\* with a session older than securityEpoch, which the index may not list
Init ==
  /\ redisUp = TRUE
  /\ password = 0 /\ makers = << >>
  /\ uses = [r \in Requests |-> 0]
  /\ carries = [r \in Requests |-> NoOne]
  /\ tries = [r \in Requests |-> 0]
  /\ token = [r \in Requests |-> 0]
  /\ mailed = {}
  /\ sessEpoch = [r \in Requests |-> 0]
  /\ now = 0 /\ faults = 0 /\ outages = 0
  /\ \E old \in SUBSET Requests :
       /\ Cardinality(old) <= 1
       /\ pc = [r \in Requests |-> IF r \in old THEN "loggedIn" ELSE "idle"]
       /\ live = [r \in Requests |-> IF r \in old THEN SessionTtl ELSE 0]
       /\ seen = [r \in Requests |-> [password |-> 0, epoch |-> IF r \in old THEN 1 ELSE 0]]
       /\ index \in SUBSET old
       /\ indexTtl = IF index = {} THEN 0 ELSE SessionTtl
       /\ \/ user = "unverified" /\ epoch = 1 /\ accounts = 1
          \/ user = "absent" /\ epoch = 0 /\ accounts = 0 /\ old = {}

-----------------------------------------------------------------------------
Fault == faults < MaxFaults /\ faults' = faults + 1

userAside == UNCHANGED <<user, password, epoch, makers, accounts>>
linksAside == UNCHANGED <<token, mailed, uses>>
storeAside == UNCHANGED storeVars
envAside == UNCHANGED <<redisUp, now, outages>>

goto(r, next) == pc' = [pc EXCEPT ![r] = next]
\* the request, or the catch around this one, ends without Redis
withoutRedis(r) == ~redisUp /\ goto(r, "over") /\ storeAside

-----------------------------------------------------------------------------
(* Sign-up and the verification link                                       *)

\* the existence check of signup; the password is hashed after it
signup(r) ==
  /\ pc[r] = "idle"
  /\ goto(r, IF user = "absent" THEN "signupCommits" ELSE "over")
  /\ userAside /\ linksAside /\ storeAside /\ envAside
  /\ UNCHANGED <<carries, seen, tries, faults>>

\* createWithTenantTransaction: the e-mail is unique, so the loser of a race
\* gets P2002 and answers like the winner
createWithTenantTransaction(r) ==
  /\ pc[r] = "signupCommits"
  /\ \/ /\ user = "absent"
        /\ user' = "unverified" /\ epoch' = 1 /\ accounts' = accounts + 1
        /\ token' = [token EXCEPT ![r] = now + TokenTtl]
        /\ goto(r, "mails")
     \/ user # "absent" /\ goto(r, "over") /\ UNCHANGED <<user, epoch, accounts, token>>
  /\ storeAside /\ envAside
  /\ UNCHANGED <<password, makers, mailed, uses, carries, seen, tries, faults>>

\* sendVerificationEmail is best effort
sendVerificationEmail(r) ==
  /\ pc[r] = "mails"
  /\ \/ mailed' = mailed \cup {r} /\ UNCHANGED faults
     \/ Fault /\ UNCHANGED mailed
  /\ goto(r, "over")
  /\ userAside /\ storeAside /\ envAside
  /\ UNCHANGED <<token, uses, carries, seen, tries>>

\* resendVerification for an account that is not verified
resendVerification(r) ==
  /\ pc[r] = "idle"
  /\ goto(r, IF user = "unverified" THEN "resendRetires" ELSE "over")
  /\ userAside /\ linksAside /\ storeAside /\ envAside
  /\ UNCHANGED <<carries, seen, tries, faults>>

invalidateActiveUserTokens(r) ==
  /\ pc[r] = "resendRetires"
  /\ token' = [t \in Requests |-> 0]
  /\ goto(r, "resendCreates")
  /\ userAside /\ storeAside /\ envAside
  /\ UNCHANGED <<mailed, uses, carries, seen, tries, faults>>

createToken(r) ==
  /\ pc[r] = "resendCreates"
  /\ token' = [token EXCEPT ![r] = now + TokenTtl]
  /\ goto(r, "mails")
  /\ userAside /\ storeAside /\ envAside
  /\ UNCHANGED <<mailed, uses, carries, seen, tries, faults>>

\* verifyEmail with a link of the mailbox: consumeToken looks it up and takes the time
verifyEmail(r) ==
  /\ pc[r] = "idle"
  /\ \E t \in mailed :
       /\ carries' = [carries EXCEPT ![r] = t]
       /\ goto(r, IF token[t] > now THEN "consumes" ELSE "over")
  /\ userAside /\ linksAside /\ storeAside /\ envAside
  /\ UNCHANGED <<seen, tries, faults>>

\* and updates it, if nobody consumed or retired it in between; the deadline is
\* compared with the time taken at the look-up
consumeToken_MutNotConditional(r) ==
  LET t == carries[r] IN
  /\ pc[r] = "consumes" /\ goto(r, "over")
  /\ token' = [token EXCEPT ![t] = 0]
  /\ uses' = [uses EXCEPT ![t] = @ + 1] /\ user' = "verified"
  /\ storeAside /\ envAside
  /\ UNCHANGED <<password, epoch, makers, accounts, mailed, carries, seen, tries, faults>>
consumeToken(r) ==
  LET t == carries[r] IN
  /\ pc[r] = "consumes" /\ goto(r, "over")
  /\ \/ /\ token[t] > 0
        /\ token' = [token EXCEPT ![t] = 0]
        /\ uses' = [uses EXCEPT ![t] = @ + 1] /\ user' = "verified"
     \/ token[t] = 0 /\ UNCHANGED <<token, uses, user>>
  /\ storeAside /\ envAside
  /\ UNCHANGED <<password, epoch, makers, accounts, mailed, carries, seen, tries, faults>>

-----------------------------------------------------------------------------
(* Login                                                                   *)

\* findByEmail, then argon2.verify of the hash just read: it may refuse
login(r) ==
  /\ pc[r] = "idle"
  /\ \/ /\ user # "absent"
        /\ seen' = [seen EXCEPT ![r] = [password |-> password, epoch |-> epoch]]
        /\ goto(r, "loginCreates")
     \/ goto(r, "over") /\ UNCHANGED seen
  /\ userAside /\ linksAside /\ storeAside /\ envAside
  /\ UNCHANGED <<carries, tries, faults>>

loginCreates(r) ==
  /\ pc[r] = "loginCreates"
  /\ \/ redisUp /\ createSession(r, seen[r].epoch) /\ goto(r, "loginRechecks")
     \/ withoutRedis(r)
  /\ userAside /\ linksAside /\ envAside
  /\ UNCHANGED <<carries, seen, tries, faults>>

\* the row is read again: a changed hash or epoch, or a failed read, undoes the login
loginRechecks_MutNoRecheck(r) ==
  /\ pc[r] = "loginRechecks" /\ goto(r, "loggedIn")
  /\ userAside /\ linksAside /\ storeAside /\ envAside
  /\ UNCHANGED <<carries, seen, tries, faults>>
loginRechecks(r) ==
  /\ pc[r] = "loginRechecks"
  /\ \/ /\ goto(r, IF seen[r] = [password |-> password, epoch |-> epoch]
                    THEN "loggedIn" ELSE "loginUndoes")
        /\ UNCHANGED faults
     \/ Fault /\ goto(r, "loginUndoes")
  /\ userAside /\ linksAside /\ storeAside /\ envAside
  /\ UNCHANGED <<carries, seen, tries>>

loginUndoes(r) ==
  /\ pc[r] = "loginUndoes"
  /\ \/ redisUp /\ destroySession(r) /\ goto(r, "over")
     \/ withoutRedis(r)
  /\ userAside /\ linksAside /\ envAside
  /\ UNCHANGED <<carries, seen, tries, faults>>

-----------------------------------------------------------------------------
(* Guarded requests                                                        *)

\* AuthGuard validates the session of the cookie: one that is gone is refused
guardValidates(r) ==
  /\ pc[r] = "idle"
  /\ \E s \in Requests :
       /\ pc[s] = "loggedIn"
       /\ carries' = [carries EXCEPT ![r] = s]
       /\ seen' = [seen EXCEPT ![r].epoch = sessEpoch[s]]
       /\ \/ redisUp /\ validateSession(s) /\ goto(r, "guardChecks")
          \/ redisUp /\ live[s] = 0 /\ storeAside /\ goto(r, "over")
          \/ withoutRedis(r)
  /\ userAside /\ linksAside /\ envAside
  /\ UNCHANGED <<tries, faults>>

\* a session without an epoch belongs to the first one
epochMatches(e) == IF e = 0 THEN epoch = 1 ELSE e = epoch

\* then reads the user and compares the epochs; me, the remaining request,
\* only reads
guardChecks(r) ==
  /\ pc[r] = "guardChecks"
  /\ \/ /\ epochMatches(seen[r].epoch)
        /\ \E next \in {"logout", "changeReads", "revokeWrites", "over"} : goto(r, next)
     \/ ~epochMatches(seen[r].epoch) /\ goto(r, "guardEvicts")
  /\ userAside /\ linksAside /\ storeAside /\ envAside
  /\ UNCHANGED <<carries, seen, tries, faults>>

\* destroySession, for a stale session and for a logout
leave(r) ==
  /\ pc[r] \in {"guardEvicts", "logout"}
  /\ \/ redisUp /\ destroySession(carries[r]) /\ goto(r, "over")
     \/ withoutRedis(r)
  /\ userAside /\ linksAside /\ envAside
  /\ UNCHANGED <<carries, seen, tries, faults>>

\* changePassword reads the user and verifies the current password: it may
\* refuse; the new one is hashed after that
changeReads(r) ==
  /\ pc[r] = "changeReads"
  /\ \/ goto(r, "changeWrites")
     \/ goto(r, "over")
  /\ userAside /\ linksAside /\ storeAside /\ envAside
  /\ UNCHANGED <<carries, seen, tries, faults>>

updatePasswordAndIncrementEpoch_MutEpochKept(r) ==
  /\ pc[r] = "changeWrites"
  /\ password' = password + 1
  /\ UNCHANGED <<epoch, makers>>
  /\ seen' = [seen EXCEPT ![r].epoch = epoch]
  /\ goto(r, "changeCleans")
  /\ linksAside /\ storeAside /\ envAside
  /\ UNCHANGED <<user, accounts, carries, tries, faults>>
updatePasswordAndIncrementEpoch(r) ==
  /\ pc[r] = "changeWrites"
  /\ password' = password + 1
  /\ epoch' = epoch + 1 /\ makers' = Append(makers, carries[r])
  /\ seen' = [seen EXCEPT ![r].epoch = epoch']
  /\ goto(r, "changeCleans")
  /\ linksAside /\ storeAside /\ envAside
  /\ UNCHANGED <<user, accounts, carries, tries, faults>>

incrementSecurityEpoch(r) ==
  /\ pc[r] = "revokeWrites"
  /\ epoch' = epoch + 1 /\ makers' = Append(makers, NoOne)
  /\ goto(r, "revokeCleans")
  /\ linksAside /\ storeAside /\ envAside
  /\ UNCHANGED <<user, password, accounts, carries, seen, tries, faults>>

\* the clean-up is tried maxAttempts times and then left to the guard
cleanUpFails_MutOneMore(r) ==
  /\ ~redisUp /\ storeAside
  /\ tries' = [tries EXCEPT ![r] = @ + 1]
  /\ IF tries'[r] <= maxAttempts THEN UNCHANGED pc ELSE goto(r, "over")
cleanUpFails(r) ==
  /\ ~redisUp /\ storeAside
  /\ tries' = [tries EXCEPT ![r] = @ + 1]
  /\ IF tries'[r] < maxAttempts THEN UNCHANGED pc ELSE goto(r, "over")

changeCleans(r) ==
  /\ pc[r] = "changeCleans"
  /\ \/ /\ redisUp /\ destroyOtherUserSessions(carries[r], seen[r].epoch)
        /\ goto(r, "over") /\ UNCHANGED tries
     \/ cleanUpFails(r)
  /\ userAside /\ linksAside /\ envAside
  /\ UNCHANGED <<carries, seen, faults>>

revokeCleans(r) ==
  /\ pc[r] = "revokeCleans"
  /\ \/ redisUp /\ destroyAllUserSessions /\ goto(r, "over") /\ UNCHANGED tries
     \/ cleanUpFails(r)
  /\ userAside /\ linksAside /\ envAside
  /\ UNCHANGED <<carries, seen, faults>>

-----------------------------------------------------------------------------
(* The environment                                                         *)

\* the API process of a request dies
crash(r) ==
  /\ pc[r] \notin {"idle", "loggedIn", "over"}
  /\ Fault /\ goto(r, "over")
  /\ userAside /\ linksAside /\ storeAside /\ envAside
  /\ UNCHANGED <<carries, seen, tries>>

redisGoes ==
  /\ redisUp /\ outages < MaxOutages
  /\ redisUp' = FALSE /\ outages' = outages + 1
  /\ userAside /\ linksAside /\ storeAside
  /\ UNCHANGED <<pc, carries, seen, tries, faults, now>>

redisReturns ==
  /\ ~redisUp /\ redisUp' = TRUE
  /\ userAside /\ linksAside /\ storeAside
  /\ UNCHANGED <<pc, carries, seen, tries, faults, now, outages>>

tick ==
  /\ now < MaxTime /\ now' = now + 1
  /\ expireKeys
  /\ userAside /\ linksAside
  /\ UNCHANGED <<redisUp, pc, carries, seen, tries, faults, outages>>

Next ==
  \/ \E r \in Requests :
       \/ signup(r) \/ createWithTenantTransaction(r) \/ sendVerificationEmail(r)
       \/ resendVerification(r) \/ invalidateActiveUserTokens(r) \/ createToken(r)
       \/ verifyEmail(r) \/ consumeToken(r)
       \/ login(r) \/ loginCreates(r) \/ loginRechecks(r) \/ loginUndoes(r)
       \/ guardValidates(r) \/ guardChecks(r) \/ leave(r)
       \/ changeReads(r) \/ updatePasswordAndIncrementEpoch(r) \/ changeCleans(r)
       \/ incrementSecurityEpoch(r) \/ revokeCleans(r)
       \/ crash(r)
  \/ redisGoes \/ redisReturns \/ tick

Spec == Init /\ [][Next]_identityVars

-----------------------------------------------------------------------------
(* Properties                                                              *)

Accepted(s) == live[s] > 0 /\ epochMatches(sessEpoch[s])
Quiet == \A r \in Requests : pc[r] \in {"idle", "loggedIn", "over"}

\* Whatever failed on the way (Redis away during the clean-up of a password
\* change or a revocation, a process dead before it, a login that read the old
\* hash), the guard accepts a session only if its login read the present row
\* or it is the session that made the present epoch by changing the password.
OnlyPresentGeneration ==
  \A s \in Requests : Accepted(s) =>
    \/ seen[s] = [password |-> password, epoch |-> epoch]
    \/ epoch > 1 /\ makers[epoch - 1] = s

\* When nothing failed and no request is under way, a session of an older epoch
\* is left only where a change of password meant to keep it (and a later change
\* overtook it): a login that raced the change has taken its session back.
RacingLoginsLeaveNothing ==
  Quiet /\ faults = 0 /\ outages = 0 =>
    \A s \in Requests : live[s] > 0 /\ sessEpoch[s] # 0 /\ sessEpoch[s] # epoch =>
      \E i \in 1..Len(makers) : makers[i] = s

\* Every session of createSession stays in the index, and the index outlives
\* it, so the scripts that destroy a user's sessions by the index reach it.
IndexReachesSessions ==
  \A s \in Requests : live[s] > 0 /\ sessEpoch[s] # 0 => s \in index /\ live[s] <= indexTtl

\* A session that was destroyed or has expired is never there again, whatever
\* validation or kept-session update runs late: only its login creates it.
NeverResurrected ==
  [][\A s \in Requests : live[s] = 0 /\ live'[s] > 0 => pc[s] = "loginCreates"]_identityVars

\* A link verifies the address once, also when it is opened twice at a time or
\* retired while it is being consumed, and one address never has two accounts.
LinksAndAccountsAreSingle ==
  /\ accounts <= 1
  /\ \A t \in Requests : uses[t] <= 1

-----------------------------------------------------------------------------
(* The contract of access, and how the service implements it               *)

\* logins that are past createSession; guarded requests carry a session
loginsDone == {r \in Requests : /\ carries[r] = NoOne /\ seen[r].epoch > 0
                                /\ pc[r] # "loginCreates"}

\* the session whose change of password made the present epoch, until its clean-up
pendingMaker ==
  LET changes == {r \in Requests : pc[r] = "changeCleans" /\ seen[r].epoch = epoch}
  IN  IF changes = {} THEN NoOne ELSE carries[CHOOSE r \in changes : TRUE]

Access == INSTANCE AccessContract
  WITH Sessions <- Requests, Nobody <- NoOne,
       generation <- epoch,
       holders <- {s \in Requests : Accepted(s)},
       entered <- loginsDone,
       maker <- pendingMaker

\* The service implements the contract: with every interleaving of logins, changes,
\* revocations and their clean-ups in Redis, and with Redis away or processes dying
\* between the two stores, the sessions the guard accepts change only as it allows.
ImplementsAccess == Access!Spec
=============================================================================
