---------------------------- MODULE IdentityProofs ----------------------------
(***************************************************************************)
(* The identity service for any number of requests, faults, outages and    *)
(* times to live: its safety properties, and that it implements the        *)
(* contract of access.                                                     *)
(*                                                                         *)
(* What the guard accepts hangs on where a session's epoch came from: its  *)
(* login, which read it with the password, or a change of password, which  *)
(* made it.  Both are recorded in the request or in the list of makers.    *)
(***************************************************************************)
EXTENDS Identity, TLAPS

\* a guarded request, from the guard on, and the consumption of a link
CarryingPcs == {"guardChecks", "guardEvicts", "logout", "changeReads", "changeWrites",
                "changeCleans", "revokeWrites", "revokeCleans", "consumes"}

\* exactly these requests carry something; until it is over a request has attempts left
Carrying ==
  \A r \in Requests :
    /\ pc[r] \in CarryingPcs => carries[r] \in Requests
    /\ pc[r] \notin CarryingPcs \cup {"over"} => carries[r] = NoOne
    /\ pc[r] # "over" => tries[r] < maxAttempts

\* an account has one epoch more than makers; without one nobody is past its sign-up
OneAccount ==
  /\ user # "absent" => accounts = 1 /\ epoch = Len(makers) + 1
  /\ user = "absent" => /\ accounts = 0 /\ epoch = 0 /\ password = 0 /\ makers = << >>
                        /\ mailed = {}
                        /\ \A r \in Requests : /\ pc[r] \in {"idle", "signupCommits", "over"}
                                               /\ live[r] = 0

\* what a login read; the password of an epoch does not change
ReadTogether ==
  \A r \in Requests :
    /\ pc[r] = "idle" => seen[r].epoch = 0
    /\ pc[r] = "loginCreates" => seen[r].epoch > 0
    /\ carries[r] = NoOne => /\ seen[r].epoch <= epoch
                             /\ seen[r].epoch = epoch => seen[r].password = password

\* where the epoch of a session came from: it is older than the field, its login read
\* it, or the session made it
SessionOrigin ==
  \A s \in Requests : live[s] > 0 =>
    /\ carries[s] = NoOne /\ pc[s] \notin {"idle", "loginCreates"}
    /\ \/ sessEpoch[s] = 0 /\ seen[s].epoch = 1
       \/ sessEpoch[s] > 0 /\ sessEpoch[s] = seen[s].epoch
       \/ sessEpoch[s] \in 2..epoch /\ makers[sessEpoch[s] - 1] = s

\* a change of password that has still to clean up made an epoch of its own
ChangesMake ==
  /\ \A r \in Requests : pc[r] = "changeCleans" =>
       seen[r].epoch \in 2..epoch /\ makers[seen[r].epoch - 1] = carries[r]
  /\ \A r, s \in Requests :
       pc[r] = "changeCleans" /\ pc[s] = "changeCleans" /\ seen[r].epoch = seen[s].epoch => r = s

\* a link is used at most once, by the request that created it or later
LinksOnce ==
  \A t \in Requests :
    /\ pc[t] \notin {"mails", "over"} => token[t] = 0 /\ uses[t] = 0
    /\ token[t] > 0 => uses[t] = 0
    /\ uses[t] <= 1

\* a session of an older epoch that made none
Stale(s) ==
  /\ live[s] > 0 /\ sessEpoch[s] # 0 /\ sessEpoch[s] # epoch
  /\ \A i \in 1..Len(makers) : makers[i] # s

\* while nothing failed, such a session is about to be taken back by its login or
\* destroyed by a clean-up
StaleAreDoomed ==
  faults = 0 /\ outages = 0 =>
    /\ redisUp
    /\ \A s \in Requests : Stale(s) =>
         \/ pc[s] \in {"loginRechecks", "loginUndoes"}
         \/ \E r \in Requests : pc[r] \in {"changeCleans", "revokeCleans"}

-----------------------------------------------------------------------------
(* Types                                                                   *)

\* the steps that move a request and nothing in the stores
Moves(r) ==
  \/ signup(r) \/ resendVerification(r) \/ verifyEmail(r) \/ login(r) \/ loginRechecks(r)
  \/ guardChecks(r) \/ changeReads(r) \/ crash(r)

\* the steps of sign-up, links and epochs that write the database
DatabaseStep(r) ==
  \/ createWithTenantTransaction(r) \/ sendVerificationEmail(r) \/ invalidateActiveUserTokens(r)
  \/ createToken(r) \/ consumeToken(r) \/ updatePasswordAndIncrementEpoch(r)
  \/ incrementSecurityEpoch(r)

\* the steps that run a script in Redis
StoreStep(r) ==
  \/ loginCreates(r) \/ loginUndoes(r) \/ guardValidates(r) \/ leave(r) \/ changeCleans(r)
  \/ revokeCleans(r)

\* a step of a request leaves pc and, for the request alone, a pc of its list
LEMMA GotoTypes ==
  ASSUME NEW r \in Requests, NEW next \in Pcs, pc \in [Requests -> Pcs], goto(r, next)
  PROVE  /\ pc' \in [Requests -> Pcs] /\ pc'[r] = next
         /\ \A q \in Requests \ {r} : pc'[q] = pc[q]
BY DEF goto

\* A request that only moves changes its pc, what it carries and what it has seen.
LEMMA MovesTypes ==
  ASSUME TypeOK, NEW r \in Requests, Moves(r)
  PROVE  TypeOK'
<1>1. pc' \in [Requests -> Pcs]
  <2>1. \E next \in Pcs : goto(r, next)
    BY DEF Moves, signup, resendVerification, verifyEmail, login, loginRechecks, guardChecks,
           changeReads, crash, Pcs
  <2> QED BY <2>1, GotoTypes DEF TypeOK
<1>2. carries' \in [Requests -> Requests \cup {NoOne}]
  <2>1. CASE verifyEmail(r)
    BY <2>1 DEF verifyEmail, TypeOK
  <2>2. CASE carries' = carries
    BY <2>2 DEF TypeOK
  <2> QED BY <2>1, <2>2 DEF Moves, signup, resendVerification, login, loginRechecks, guardChecks,
                            changeReads, crash
<1>3. seen' \in [Requests -> [password : Nat, epoch : Nat]]
  <2>0. seen \in [Requests -> [password : Nat, epoch : Nat]] /\ password \in Nat /\ epoch \in Nat
    BY DEF TypeOK
  <2>1. CASE login(r)
    BY <2>0, <2>1 DEF login
  <2>2. CASE seen' = seen
    BY <2>2 DEF TypeOK
  <2> QED BY <2>1, <2>2 DEF Moves, signup, resendVerification, verifyEmail, loginRechecks,
                            guardChecks, changeReads, crash
<1>4. /\ UNCHANGED <<user, password, epoch, makers, accounts, token, mailed, uses, tries>>
      /\ UNCHANGED <<live, sessEpoch, index, indexTtl, redisUp, now, outages>>
      /\ faults' \in {faults, faults + 1}
  BY DEF Moves, signup, resendVerification, verifyEmail, login, loginRechecks, guardChecks,
         changeReads, crash, Fault, userAside, linksAside, storeAside, envAside, storeVars
<1>5. faults' \in Nat
  BY <1>4 DEF TypeOK
<1> QED BY <1>1, <1>2, <1>3, <1>4, <1>5 DEF TypeOK, StoreTypeOK

\* So does one that writes the database, and the columns it writes.
LEMMA DatabaseTypes ==
  ASSUME TypeOK, Carrying, NEW r \in Requests, DatabaseStep(r)
  PROVE  TypeOK'
<1>1. pc' \in [Requests -> Pcs]
  <2>1. \E next \in Pcs : goto(r, next)
    BY DEF DatabaseStep, createWithTenantTransaction, sendVerificationEmail,
           invalidateActiveUserTokens, createToken, consumeToken,
           updatePasswordAndIncrementEpoch, incrementSecurityEpoch, Pcs
  <2> QED BY <2>1, GotoTypes DEF TypeOK
<1>2. /\ UNCHANGED <<carries, tries, now, outages>>
      /\ UNCHANGED <<live, sessEpoch, index, indexTtl, redisUp>>
  BY DEF DatabaseStep, createWithTenantTransaction, sendVerificationEmail,
         invalidateActiveUserTokens, createToken, consumeToken, updatePasswordAndIncrementEpoch,
         incrementSecurityEpoch, storeAside, envAside, storeVars
<1>t. /\ token \in [Requests -> Nat] /\ uses \in [Requests -> Nat]
      /\ TokenTtl \in Nat /\ now \in Nat
  BY IdentityAssumption DEF TypeOK
<1>3. CASE createWithTenantTransaction(r)
  <2>1. token' \in [Requests -> Nat]
    BY <1>t, <1>3 DEF createWithTenantTransaction
  <2>2. epoch' \in Nat /\ accounts' \in Nat /\ user' \in {"absent", "unverified", "verified"}
    BY <1>3 DEF createWithTenantTransaction, TypeOK
  <2> QED BY <1>1, <1>2, <1>3, <2>1, <2>2 DEF createWithTenantTransaction, TypeOK, StoreTypeOK
<1>4. CASE sendVerificationEmail(r)
  <2>1. mailed' \in SUBSET Requests /\ faults' \in Nat
    BY <1>4 DEF sendVerificationEmail, Fault, TypeOK
  <2> QED BY <1>1, <1>2, <1>4, <2>1 DEF sendVerificationEmail, userAside, TypeOK, StoreTypeOK
<1>5. CASE invalidateActiveUserTokens(r)
  BY <1>1, <1>2, <1>5, IdentityAssumption
     DEF invalidateActiveUserTokens, userAside, TypeOK, StoreTypeOK
<1>6. CASE createToken(r)
  BY <1>1, <1>2, <1>6, IdentityAssumption DEF createToken, userAside, TypeOK, StoreTypeOK
<1>7. CASE consumeToken(r)
  <2>1. carries[r] \in Requests
    BY <1>7 DEF consumeToken, Carrying, CarryingPcs
  <2>2. token' \in [Requests -> Nat] /\ uses' \in [Requests -> Nat]
    BY <1>t, <1>7, <2>1 DEF consumeToken
  <2> QED BY <1>1, <1>2, <1>7, <2>2 DEF consumeToken, TypeOK, StoreTypeOK
<1>8. CASE updatePasswordAndIncrementEpoch(r)
  <2>1. makers' \in Seq(Requests \cup {NoOne})
    BY <1>8 DEF updatePasswordAndIncrementEpoch, TypeOK
  <2>2. seen' \in [Requests -> [password : Nat, epoch : Nat]]
    <3>1. seen \in [Requests -> [password : Nat, epoch : Nat]] /\ epoch + 1 \in Nat
      BY DEF TypeOK
    <3>2. seen' = [seen EXCEPT ![r].epoch = epoch + 1]
      BY <1>8 DEF updatePasswordAndIncrementEpoch
    <3> QED BY <3>1, <3>2
  <2>3. password' \in Nat /\ epoch' \in Nat
    BY <1>8 DEF updatePasswordAndIncrementEpoch, TypeOK
  <2> QED BY <1>1, <1>2, <1>8, <2>1, <2>2, <2>3
          DEF updatePasswordAndIncrementEpoch, linksAside, TypeOK, StoreTypeOK
<1>9. CASE incrementSecurityEpoch(r)
  <2>1. makers' \in Seq(Requests \cup {NoOne})
    BY <1>9 DEF incrementSecurityEpoch, TypeOK
  <2> QED BY <1>1, <1>2, <1>9, <2>1 DEF incrementSecurityEpoch, linksAside, TypeOK, StoreTypeOK
<1> QED BY <1>3, <1>4, <1>5, <1>6, <1>7, <1>8, <1>9 DEF DatabaseStep

\* The effects of the scripts on the sessions and the index, for any session and epoch.
LEMMA ScriptTypes ==
  ASSUME TypeOK, NEW s \in Requests, NEW e \in Nat,
         \/ createSession(s, e) \/ validateSession(s) \/ destroySession(s)
         \/ destroyOtherUserSessions(s, e) \/ destroyAllUserSessions \/ storeAside
  PROVE  /\ live' \in [Requests -> 0..SessionTtl] /\ sessEpoch' \in [Requests -> Nat]
         /\ index' \in SUBSET Requests /\ indexTtl' \in 0..SessionTtl
<1> USE SessionAssumption DEF TypeOK, StoreTypeOK
<1>1. CASE createSession(s, e)
  BY <1>1 DEF createSession, addToIndex
<1>2. CASE validateSession(s)
  BY <1>2 DEF validateSession, addToIndex
<1>3. CASE destroySession(s)
  BY <1>3 DEF destroySession
<1>4. CASE destroyOtherUserSessions(s, e)
  BY <1>4 DEF destroyOtherUserSessions
<1>5. CASE destroyAllUserSessions
  BY <1>5 DEF destroyAllUserSessions
<1>6. CASE storeAside
  BY <1>6 DEF storeAside, storeVars
<1> QED BY <1>1, <1>2, <1>3, <1>4, <1>5, <1>6

\* A step that runs a script keeps the types.
LEMMA StoreTypes ==
  ASSUME TypeOK, Carrying, NEW r \in Requests, StoreStep(r)
  PROVE  TypeOK'
<1>1. pc' \in [Requests -> Pcs]
  <2>1. pc' = pc \/ \E next \in Pcs : goto(r, next)
    BY DEF StoreStep, loginCreates, loginUndoes, guardValidates, leave, changeCleans,
           revokeCleans, withoutRedis, cleanUpFails, Pcs
  <2> QED BY <2>1, GotoTypes DEF TypeOK
<1>2. /\ UNCHANGED <<user, password, epoch, makers, accounts, token, mailed, uses>>
      /\ UNCHANGED <<redisUp, now, outages, faults>>
  BY DEF StoreStep, loginCreates, loginUndoes, guardValidates, leave, changeCleans,
         revokeCleans, userAside, linksAside, envAside
<1>3. /\ live' \in [Requests -> 0..SessionTtl] /\ sessEpoch' \in [Requests -> Nat]
      /\ index' \in SUBSET Requests /\ indexTtl' \in 0..SessionTtl
  <2>0. seen[r].epoch \in Nat
    BY DEF TypeOK
  <2>1. CASE loginCreates(r)
    BY <2>0, <2>1, ScriptTypes DEF loginCreates, withoutRedis
  <2>2. CASE loginUndoes(r)
    BY <2>0, <2>2, ScriptTypes DEF loginUndoes, withoutRedis
  <2>3. CASE guardValidates(r)
    BY <2>0, <2>3, ScriptTypes DEF guardValidates, withoutRedis
  <2>4. CASE leave(r)
    <3>1. carries[r] \in Requests
      BY <2>4 DEF leave, Carrying, CarryingPcs
    <3> QED BY <2>0, <2>4, <3>1, ScriptTypes DEF leave, withoutRedis
  <2>5. CASE changeCleans(r)
    <3>1. carries[r] \in Requests
      BY <2>5 DEF changeCleans, Carrying, CarryingPcs
    <3> QED BY <2>0, <2>5, <3>1, ScriptTypes DEF changeCleans, cleanUpFails
  <2>6. CASE revokeCleans(r)
    BY <2>0, <2>6, ScriptTypes DEF revokeCleans, cleanUpFails
  <2> QED BY <2>1, <2>2, <2>3, <2>4, <2>5, <2>6 DEF StoreStep
<1>4. carries' \in [Requests -> Requests \cup {NoOne}]
  <2>1. carries' = carries \/ \E s \in Requests : carries' = [carries EXCEPT ![r] = s]
    BY DEF StoreStep, loginCreates, loginUndoes, guardValidates, leave, changeCleans, revokeCleans
  <2> QED BY <2>1 DEF TypeOK
<1>5. seen' \in [Requests -> [password : Nat, epoch : Nat]]
  <2>1. seen' = seen \/ \E s \in Requests : seen' = [seen EXCEPT ![r].epoch = sessEpoch[s]]
    BY DEF StoreStep, loginCreates, loginUndoes, guardValidates, leave, changeCleans, revokeCleans
  <2> QED BY <2>1 DEF TypeOK, StoreTypeOK
<1>6. tries' \in [Requests -> 0..maxAttempts]
  <2>1. \/ tries' = tries
        \/ pc[r] \in {"changeCleans", "revokeCleans"} /\ tries' = [tries EXCEPT ![r] = @ + 1]
    BY DEF StoreStep, loginCreates, loginUndoes, guardValidates, leave, changeCleans,
           revokeCleans, cleanUpFails
  <2>2. tries \in [Requests -> 0..3]
    BY DEF TypeOK, maxAttempts
  <2>3. pc[r] \in {"changeCleans", "revokeCleans"} => tries[r] < 3
    BY DEF Carrying, maxAttempts
  <2> QED BY <2>1, <2>2, <2>3 DEF maxAttempts
<1> QED BY <1>1, <1>2, <1>3, <1>4, <1>5, <1>6 DEF TypeOK, StoreTypeOK

\* The environment keeps the types.
LEMMA EnvironmentTypes ==
  ASSUME TypeOK, redisGoes \/ redisReturns \/ tick \/ UNCHANGED identityVars
  PROVE  TypeOK'
<1> USE DEF userAside, linksAside, storeAside, storeVars
<1>1. CASE redisGoes
  <2>1. redisUp' \in BOOLEAN
    BY <1>1, Zenon DEF redisGoes
  <2> QED BY <1>1, <2>1 DEF redisGoes, TypeOK, StoreTypeOK
<1>2. CASE redisReturns
  <2>1. redisUp' \in BOOLEAN
    BY <1>2, Zenon DEF redisReturns
  <2> QED BY <1>2, <2>1 DEF redisReturns, TypeOK, StoreTypeOK
<1>3. CASE tick
  <2>1. /\ live' \in [Requests -> 0..SessionTtl] /\ sessEpoch' \in [Requests -> Nat]
        /\ index' \in SUBSET Requests /\ indexTtl' \in 0..SessionTtl
    BY <1>3, SessionAssumption DEF tick, expireKeys, TypeOK, StoreTypeOK
  <2> QED BY <1>3, <2>1 DEF tick, userAside, linksAside, TypeOK, StoreTypeOK
<1>4. CASE UNCHANGED identityVars
  BY <1>4 DEF identityVars, TypeOK, StoreTypeOK
<1> QED BY <1>1, <1>2, <1>3, <1>4

\* the next-state relation by kinds of steps
LEMMA StepKinds ==
  ASSUME [Next]_identityVars
  PROVE  \/ \E r \in Requests : Moves(r) \/ DatabaseStep(r) \/ StoreStep(r)
         \/ redisGoes \/ redisReturns \/ tick \/ UNCHANGED identityVars
BY DEF Next, Moves, DatabaseStep, StoreStep

-----------------------------------------------------------------------------
(* Requests                                                                *)

\* A step of one request leaves the other requests where they are.
LEMMA OthersStay ==
  ASSUME TypeOK, NEW r \in Requests, Moves(r) \/ DatabaseStep(r) \/ StoreStep(r)
  PROVE  \A q \in Requests \ {r} :
           /\ pc'[q] = pc[q] /\ carries'[q] = carries[q]
           /\ seen'[q] = seen[q] /\ tries'[q] = tries[q]
<1>0. /\ pc \in [Requests -> Pcs] /\ carries \in [Requests -> Requests \cup {NoOne}]
      /\ seen \in [Requests -> [password : Nat, epoch : Nat]]
      /\ tries \in [Requests -> 0..maxAttempts]
  BY DEF TypeOK
<1>1. \A q \in Requests \ {r} : pc'[q] = pc[q]
  <2>1. pc' = pc \/ \E next \in Pcs : pc' = [pc EXCEPT ![r] = next]
    BY DEF goto, Moves, signup, resendVerification, verifyEmail, login, loginRechecks,
           guardChecks, changeReads, crash, DatabaseStep, createWithTenantTransaction,
           sendVerificationEmail, invalidateActiveUserTokens, createToken, consumeToken,
           updatePasswordAndIncrementEpoch, incrementSecurityEpoch, StoreStep, loginCreates,
           loginUndoes, guardValidates, leave, changeCleans, revokeCleans, withoutRedis,
           cleanUpFails, Pcs
  <2> QED BY <1>0, <2>1
<1>2. \A q \in Requests \ {r} : carries'[q] = carries[q]
  <2>1. carries' = carries \/ \E s : carries' = [carries EXCEPT ![r] = s]
    BY DEF Moves, signup, resendVerification, verifyEmail, login, loginRechecks,
           guardChecks, changeReads, crash, DatabaseStep, createWithTenantTransaction,
           sendVerificationEmail, invalidateActiveUserTokens, createToken, consumeToken,
           updatePasswordAndIncrementEpoch, incrementSecurityEpoch, StoreStep, loginCreates,
           loginUndoes, guardValidates, leave, changeCleans, revokeCleans
  <2> QED BY <1>0, <2>1
<1>3. \A q \in Requests \ {r} : seen'[q] = seen[q]
  <2>1. seen' = seen \/ \E v : seen' = [seen EXCEPT ![r] = v] \/ seen' = [seen EXCEPT ![r].epoch = v]
    BY DEF Moves, signup, resendVerification, verifyEmail, login, loginRechecks,
           guardChecks, changeReads, crash, DatabaseStep, createWithTenantTransaction,
           sendVerificationEmail, invalidateActiveUserTokens, createToken, consumeToken,
           updatePasswordAndIncrementEpoch, incrementSecurityEpoch, StoreStep, loginCreates,
           loginUndoes, guardValidates, leave, changeCleans, revokeCleans
  <2> QED BY <1>0, <2>1
<1>4. \A q \in Requests \ {r} : tries'[q] = tries[q]
  <2>1. tries' = tries \/ tries' = [tries EXCEPT ![r] = @ + 1]
    BY DEF Moves, signup, resendVerification, verifyEmail, login, loginRechecks,
           guardChecks, changeReads, crash, DatabaseStep, createWithTenantTransaction,
           sendVerificationEmail, invalidateActiveUserTokens, createToken, consumeToken,
           updatePasswordAndIncrementEpoch, incrementSecurityEpoch, StoreStep, loginCreates,
           loginUndoes, guardValidates, leave, changeCleans, revokeCleans, cleanUpFails
  <2> QED BY <1>0, <2>1
<1> QED BY <1>1, <1>2, <1>3, <1>4

\* The environment moves no request.
LEMMA EnvironmentAside ==
  ASSUME redisGoes \/ redisReturns \/ tick \/ UNCHANGED identityVars
  PROVE  UNCHANGED <<pc, carries, seen, tries, user, password, epoch, makers, accounts, uses>>
BY DEF redisGoes, redisReturns, tick, userAside, linksAside, identityVars

\* What a request carries follows from where it is, after every step.
LEMMA CarryingStep ==
  ASSUME TypeOK, Carrying, [Next]_identityVars
  PROVE  Carrying'
<1>1. ASSUME NEW r \in Requests, Moves(r) \/ DatabaseStep(r) \/ StoreStep(r)
      PROVE  Carrying'
  <2>1. /\ pc \in [Requests -> Pcs] /\ carries \in [Requests -> Requests \cup {NoOne}]
        /\ tries \in [Requests -> 0..3] /\ NoOne \notin Requests
        /\ mailed \subseteq Requests
    BY IdentityAssumption DEF TypeOK, maxAttempts
  <2>2. /\ pc[r] \in CarryingPcs => carries[r] \in Requests
        /\ pc[r] \notin CarryingPcs \cup {"over"} => carries[r] = NoOne
        /\ pc[r] # "over" => tries[r] < 3
    BY DEF Carrying, maxAttempts
  <2>3. /\ pc'[r] \in CarryingPcs => carries'[r] \in Requests
        /\ pc'[r] \notin CarryingPcs \cup {"over"} => carries'[r] = NoOne
        /\ pc'[r] # "over" => tries'[r] < 3
    <3> USE <2>1, <2>2 DEF goto, CarryingPcs
    <3>1. CASE Moves(r)
      <4>1. CASE signup(r) \/ resendVerification(r)
        BY <4>1 DEF signup, resendVerification
      <4>2. CASE verifyEmail(r)
        BY <4>2 DEF verifyEmail
      <4>3. CASE login(r)
        BY <4>3 DEF login
      <4>4. CASE loginRechecks(r)
        BY <4>4 DEF loginRechecks
      <4>5. CASE guardChecks(r)
        BY <4>5 DEF guardChecks
      <4>6. CASE changeReads(r)
        BY <4>6 DEF changeReads
      <4>7. CASE crash(r)
        BY <4>7 DEF crash
      <4> QED BY <3>1, <4>1, <4>2, <4>3, <4>4, <4>5, <4>6, <4>7 DEF Moves
    <3>2. CASE DatabaseStep(r)
      BY <3>2 DEF DatabaseStep, createWithTenantTransaction, sendVerificationEmail,
                  invalidateActiveUserTokens, createToken, consumeToken,
                  updatePasswordAndIncrementEpoch, incrementSecurityEpoch
    <3>3. CASE StoreStep(r)
      <4>1. CASE loginCreates(r) \/ loginUndoes(r) \/ leave(r)
        BY <4>1 DEF loginCreates, loginUndoes, leave, withoutRedis
      <4>2. CASE guardValidates(r)
        BY <4>2 DEF guardValidates, withoutRedis
      <4>3. CASE changeCleans(r) \/ revokeCleans(r)
        BY <4>3 DEF changeCleans, revokeCleans, cleanUpFails, maxAttempts
      <4> QED BY <3>3, <4>1, <4>2, <4>3 DEF StoreStep
    <3> QED BY <1>1, <3>1, <3>2, <3>3
  <2> QED BY <1>1, <2>3, OthersStay DEF Carrying, maxAttempts
<1>2. CASE redisGoes \/ redisReturns \/ tick \/ UNCHANGED identityVars
  BY <1>2, EnvironmentAside DEF Carrying
<1> QED BY <1>1, <1>2, StepKinds

\* A link is used once: consumeToken looks at it again, and only its request creates it.
LEMMA LinksStep ==
  ASSUME TypeOK, Carrying, LinksOnce, [Next]_identityVars
  PROVE  LinksOnce'
<1>0. /\ token \in [Requests -> Nat] /\ uses \in [Requests -> Nat] /\ pc \in [Requests -> Pcs]
      /\ TokenTtl \in Nat \ {0} /\ now \in Nat
  BY IdentityAssumption DEF TypeOK
<1>1. ASSUME NEW r \in Requests, Moves(r) \/ StoreStep(r) PROVE LinksOnce'
  <2>1. UNCHANGED <<token, uses>>
    BY <1>1 DEF Moves, signup, resendVerification, verifyEmail, login, loginRechecks,
                guardChecks, changeReads, crash, StoreStep, loginCreates, loginUndoes,
                guardValidates, leave, changeCleans, revokeCleans, linksAside
  <2>2. pc[r] \notin {"mails", "over"} \/ pc'[r] \in {"mails", "over"}
    BY <1>0, <1>1 DEF Moves, signup, resendVerification, verifyEmail, login, loginRechecks,
                guardChecks, changeReads, crash, StoreStep, loginCreates, loginUndoes,
                guardValidates, leave, changeCleans, revokeCleans, goto
  <2>3. \A t \in Requests : pc'[t] \notin {"mails", "over"} => pc[t] \notin {"mails", "over"}
    BY <1>1, <2>2, OthersStay
  <2> QED BY <2>1, <2>3 DEF LinksOnce
<1>2. ASSUME NEW r \in Requests, DatabaseStep(r) PROVE LinksOnce'
  <2>1. \A t \in Requests \ {r} : pc'[t] = pc[t]
    BY <1>2, OthersStay
  <2> USE <1>0, <2>1 DEF LinksOnce, goto
  <2>2. CASE createWithTenantTransaction(r)
    BY <2>2 DEF createWithTenantTransaction
  <2>3. CASE sendVerificationEmail(r)
    BY <2>3 DEF sendVerificationEmail
  <2>4. CASE invalidateActiveUserTokens(r)
    BY <2>4 DEF invalidateActiveUserTokens
  <2>5. CASE createToken(r)
    BY <2>5 DEF createToken
  <2>6. CASE consumeToken(r)
    <3>1. carries[r] \in Requests
      BY <2>6 DEF consumeToken, Carrying, CarryingPcs
    <3> QED BY <2>6, <3>1 DEF consumeToken
  <2>7. CASE updatePasswordAndIncrementEpoch(r) \/ incrementSecurityEpoch(r)
    BY <2>7 DEF updatePasswordAndIncrementEpoch, incrementSecurityEpoch, linksAside
  <2> QED BY <1>2, <2>2, <2>3, <2>4, <2>5, <2>6, <2>7 DEF DatabaseStep
<1>3. CASE redisGoes \/ redisReturns \/ tick \/ UNCHANGED identityVars
  <2>1. UNCHANGED <<token, uses>>
    BY <1>3 DEF redisGoes, redisReturns, tick, linksAside, identityVars
  <2> QED BY <1>0, <1>3, <2>1, EnvironmentAside DEF LinksOnce
<1> QED BY <1>1, <1>2, <1>3, StepKinds

\* What a script does to the sessions: none appears but the one a login creates.
LEMMA ScriptLives ==
  ASSUME TypeOK, Carrying, NEW r \in Requests, StoreStep(r)
  PROVE  /\ \A s \in Requests : live[s] = 0 /\ live'[s] > 0 => s = r /\ pc[r] = "loginCreates"
         /\ \A s \in Requests : sessEpoch'[s] = sessEpoch[s] \/ s = r \/ pc[r] = "changeCleans"
<1>0. /\ live \in [Requests -> Nat] /\ sessEpoch \in [Requests -> Nat] /\ SessionTtl \in Nat
  BY SessionAssumption DEF TypeOK, StoreTypeOK
<1>1. CASE loginCreates(r)
  BY <1>0, <1>1 DEF loginCreates, createSession, withoutRedis, storeAside, storeVars
<1>2. CASE loginUndoes(r) \/ leave(r)
  BY <1>0, <1>2 DEF loginUndoes, leave, destroySession, withoutRedis, storeAside, storeVars
<1>3. CASE guardValidates(r)
  BY <1>0, <1>3 DEF guardValidates, validateSession, withoutRedis, storeAside, storeVars
<1>4. CASE changeCleans(r)
  BY <1>0, <1>4 DEF changeCleans, destroyOtherUserSessions, cleanUpFails, storeAside, storeVars
<1>5. CASE revokeCleans(r)
  BY <1>0, <1>5 DEF revokeCleans, destroyAllUserSessions, cleanUpFails, storeAside, storeVars
<1> QED BY <1>1, <1>2, <1>3, <1>4, <1>5 DEF StoreStep

\* The other steps of requests leave the sessions alone.
LEMMA SessionsAside ==
  ASSUME NEW r \in Requests, Moves(r) \/ DatabaseStep(r)
  PROVE  UNCHANGED <<live, sessEpoch, index, indexTtl>>
BY DEF Moves, signup, resendVerification, verifyEmail, login, loginRechecks, guardChecks,
       changeReads, crash, DatabaseStep, createWithTenantTransaction, sendVerificationEmail,
       invalidateActiveUserTokens, createToken, consumeToken, updatePasswordAndIncrementEpoch,
       incrementSecurityEpoch, storeAside, storeVars

\* The environment only takes time from sessions.
LEMMA EnvironmentLives ==
  ASSUME TypeOK, redisGoes \/ redisReturns \/ tick \/ UNCHANGED identityVars
  PROVE  /\ sessEpoch' = sessEpoch
         /\ \A s \in Requests : live'[s] \in Nat /\ live'[s] <= live[s]
<1>0. live \in [Requests -> Nat]
  BY DEF TypeOK, StoreTypeOK
<1>1. CASE tick
  BY <1>0, <1>1 DEF tick, expireKeys
<1>2. CASE redisGoes \/ redisReturns \/ UNCHANGED identityVars
  BY <1>0, <1>2 DEF redisGoes, redisReturns, storeAside, storeVars, identityVars
<1> QED BY <1>1, <1>2

-----------------------------------------------------------------------------
(* The account and what requests have read of it                           *)

\* Where nobody is past sign-up, a request can only ask for one.
LEMMA AbsentMoves ==
  ASSUME TypeOK, OneAccount, user = "absent", NEW r \in Requests,
         Moves(r) \/ DatabaseStep(r) \/ StoreStep(r), user' = "absent"
  PROVE  /\ pc'[r] \in {"idle", "signupCommits", "over"}
         /\ UNCHANGED <<accounts, epoch, password, makers, mailed, live>>
<1>0. /\ pc \in [Requests -> Pcs] /\ mailed = {}
      /\ \A q \in Requests : pc[q] \in {"idle", "signupCommits", "over"}
  BY DEF TypeOK, OneAccount
<1> USE <1>0 DEF goto, userAside, linksAside, storeAside, storeVars
<1>1. CASE Moves(r)
  BY <1>1 DEF Moves, signup, resendVerification, verifyEmail, login, loginRechecks,
              guardChecks, changeReads, crash
<1>2. CASE DatabaseStep(r)
  BY <1>2 DEF DatabaseStep, createWithTenantTransaction, sendVerificationEmail,
              invalidateActiveUserTokens, createToken, consumeToken,
              updatePasswordAndIncrementEpoch, incrementSecurityEpoch
<1>3. CASE StoreStep(r)
  BY <1>3 DEF StoreStep, loginCreates, loginUndoes, guardValidates, leave, changeCleans,
              revokeCleans
<1> QED BY <1>1, <1>2, <1>3

\* An account is created once, and every later epoch has its maker.
LEMMA OneAccountStep ==
  ASSUME TypeOK, OneAccount, [Next]_identityVars
  PROVE  OneAccount'
<1>0. /\ epoch \in Nat /\ accounts \in Nat /\ makers \in Seq(Requests \cup {NoOne})
      /\ carries \in [Requests -> Requests \cup {NoOne}] /\ pc \in [Requests -> Pcs]
      /\ live \in [Requests -> Nat]
  BY DEF TypeOK, StoreTypeOK
<1>1. ASSUME NEW r \in Requests, Moves(r) \/ StoreStep(r) PROVE OneAccount'
  <2>1. UNCHANGED <<user, epoch, password, makers, accounts, mailed>>
    BY <1>1 DEF Moves, signup, resendVerification, verifyEmail, login, loginRechecks,
                guardChecks, changeReads, crash, StoreStep, loginCreates, loginUndoes,
                guardValidates, leave, changeCleans, revokeCleans, userAside, linksAside
  <2>2. CASE user = "absent"
    BY <1>1, <2>1, <2>2, AbsentMoves, OthersStay DEF OneAccount
  <2> QED BY <2>1, <2>2 DEF OneAccount
<1>2. ASSUME NEW r \in Requests, DatabaseStep(r) PROVE OneAccount'
  <2>1. CASE user' = "absent"
    <3>1. user = "absent"
      BY <1>2, <2>1 DEF DatabaseStep, createWithTenantTransaction, sendVerificationEmail,
              invalidateActiveUserTokens, createToken, consumeToken,
              updatePasswordAndIncrementEpoch, incrementSecurityEpoch, userAside
    <3> QED BY <1>2, <2>1, <3>1, AbsentMoves, OthersStay DEF OneAccount
  <2>2. CASE user = "absent" /\ user' # "absent"
    <3>1. pc[r] \in {"idle", "signupCommits", "over"} /\ makers = << >> /\ accounts = 0
      BY <2>2 DEF OneAccount
    <3>2. createWithTenantTransaction(r)
      BY <1>2, <2>2, <3>1 DEF DatabaseStep, sendVerificationEmail,
              invalidateActiveUserTokens, createToken, consumeToken,
              updatePasswordAndIncrementEpoch, incrementSecurityEpoch, userAside
    <3> QED BY <2>2, <3>1, <3>2 DEF createWithTenantTransaction, OneAccount
  <2>3. CASE user # "absent" /\ user' # "absent"
    <3>1. accounts' = 1
      BY <1>2, <2>3 DEF OneAccount, DatabaseStep, createWithTenantTransaction,
              sendVerificationEmail, invalidateActiveUserTokens, createToken, consumeToken,
              updatePasswordAndIncrementEpoch, incrementSecurityEpoch, userAside
    <3>2. \/ UNCHANGED <<epoch, makers>>
          \/ epoch' = epoch + 1 /\ \E m \in Requests \cup {NoOne} : makers' = Append(makers, m)
      BY <1>0, <1>2, <2>3 DEF DatabaseStep, createWithTenantTransaction,
              sendVerificationEmail, invalidateActiveUserTokens, createToken, consumeToken,
              updatePasswordAndIncrementEpoch, incrementSecurityEpoch, userAside
    <3>3. epoch = Len(makers) + 1
      BY <2>3 DEF OneAccount
    <3> QED BY <1>0, <2>3, <3>1, <3>2, <3>3 DEF OneAccount
  <2> QED BY <2>1, <2>2, <2>3
<1>3. CASE redisGoes \/ redisReturns \/ tick \/ UNCHANGED identityVars
  <2>1. user' = user /\ mailed' = mailed
    BY <1>3 DEF redisGoes, redisReturns, tick, userAside, linksAside, identityVars
  <2>2. \A s \in Requests : live[s] = 0 => live'[s] = 0
    BY <1>0, <1>3, EnvironmentLives
  <2> QED BY <1>3, <2>1, <2>2, EnvironmentAside DEF OneAccount
<1> QED BY <1>1, <1>2, <1>3, StepKinds

\* What a step makes of its request: it goes on with what it had, reads the row to log
\* in, takes up a cookie or a link, or makes an epoch.
LEMMA RequestReads ==
  ASSUME TypeOK, NEW r \in Requests, Moves(r) \/ DatabaseStep(r) \/ StoreStep(r)
  PROVE  \/ /\ seen'[r] = seen[r] /\ carries'[r] = carries[r]
            /\ pc'[r] \notin {"idle", "loginCreates"}
            /\ pc'[r] = "changeCleans" => pc[r] = "changeCleans" /\ UNCHANGED <<epoch, makers>>
         \/ /\ pc[r] = "idle" /\ pc'[r] = "loginCreates" /\ carries'[r] = carries[r]
            /\ user # "absent" /\ seen'[r] = [password |-> password, epoch |-> epoch]
            /\ UNCHANGED <<epoch, makers, password>>
         \/ /\ pc[r] = "idle" /\ carries'[r] \in Requests
            /\ pc'[r] \notin {"idle", "loginCreates", "changeCleans"}
         \/ /\ pc[r] = "changeWrites" /\ pc'[r] = "changeCleans" /\ carries'[r] = carries[r]
            /\ epoch' = epoch + 1 /\ makers' = Append(makers, carries[r])
            /\ seen'[r].epoch = epoch + 1
<1>0. /\ pc \in [Requests -> Pcs] /\ carries \in [Requests -> Requests \cup {NoOne}]
      /\ seen \in [Requests -> [password : Nat, epoch : Nat]] /\ mailed \subseteq Requests
  BY DEF TypeOK
<1> USE <1>0 DEF goto
<1>1. CASE Moves(r)
  <2>1. CASE login(r)
    BY <2>1 DEF login, userAside
  <2>2. CASE verifyEmail(r)
    BY <2>2 DEF verifyEmail
  <2>3. CASE loginRechecks(r)
    BY <2>3 DEF loginRechecks
  <2>4. CASE guardChecks(r)
    BY <2>4 DEF guardChecks
  <2>5. CASE signup(r) \/ resendVerification(r) \/ changeReads(r) \/ crash(r)
    BY <2>5 DEF signup, resendVerification, changeReads, crash
  <2> QED BY <1>1, <2>1, <2>2, <2>3, <2>4, <2>5 DEF Moves
<1>2. CASE DatabaseStep(r)
  <2>1. CASE updatePasswordAndIncrementEpoch(r)
    BY <2>1 DEF updatePasswordAndIncrementEpoch
  <2>2. CASE createWithTenantTransaction(r) \/ sendVerificationEmail(r)
             \/ invalidateActiveUserTokens(r)
    BY <2>2 DEF createWithTenantTransaction, sendVerificationEmail, invalidateActiveUserTokens
  <2>3. CASE createToken(r) \/ consumeToken(r) \/ incrementSecurityEpoch(r)
    BY <2>3 DEF createToken, consumeToken, incrementSecurityEpoch
  <2> QED BY <1>2, <2>1, <2>2, <2>3 DEF DatabaseStep
<1>3. CASE StoreStep(r)
  <2>1. CASE guardValidates(r)
    BY <2>1 DEF guardValidates, withoutRedis
  <2>2. CASE loginCreates(r) \/ loginUndoes(r) \/ leave(r)
    BY <2>2 DEF loginCreates, loginUndoes, leave, withoutRedis
  <2>3. CASE changeCleans(r) \/ revokeCleans(r)
    BY <2>3 DEF changeCleans, revokeCleans, cleanUpFails, userAside
  <2> QED BY <1>3, <2>1, <2>2, <2>3 DEF StoreStep
<1> QED BY <1>1, <1>2, <1>3

\* How the epoch moves: with the account, or with a maker.
LEMMA EpochMoves ==
  ASSUME TypeOK, OneAccount, NEW r \in Requests, Moves(r) \/ DatabaseStep(r) \/ StoreStep(r)
  PROVE  \/ UNCHANGED <<epoch, makers, password>>
         \/ /\ user = "absent" /\ epoch = 0 /\ epoch' = 1 /\ UNCHANGED <<makers, password>>
         \/ /\ pc[r] \in {"changeWrites", "revokeWrites"} /\ user # "absent"
            /\ epoch' = epoch + 1
            /\ \E m \in Requests \cup {NoOne} : makers' = Append(makers, m)
<1>0. carries \in [Requests -> Requests \cup {NoOne}]
  BY DEF TypeOK
<1>1. CASE Moves(r) \/ StoreStep(r)
  BY <1>1 DEF Moves, signup, resendVerification, verifyEmail, login, loginRechecks,
              guardChecks, changeReads, crash, StoreStep, loginCreates, loginUndoes,
              guardValidates, leave, changeCleans, revokeCleans, userAside
<1>2. CASE DatabaseStep(r)
  <2>1. CASE updatePasswordAndIncrementEpoch(r) \/ incrementSecurityEpoch(r)
    BY <1>0, <2>1 DEF updatePasswordAndIncrementEpoch, incrementSecurityEpoch, OneAccount
  <2>2. CASE createWithTenantTransaction(r)
    BY <2>2 DEF createWithTenantTransaction, OneAccount
  <2>3. CASE sendVerificationEmail(r) \/ invalidateActiveUserTokens(r) \/ createToken(r)
             \/ consumeToken(r)
    BY <2>3 DEF sendVerificationEmail, invalidateActiveUserTokens, createToken, consumeToken,
                userAside
  <2> QED BY <1>2, <2>1, <2>2, <2>3 DEF DatabaseStep
<1> QED BY <1>1, <1>2

\* A login reads password and epoch together, and neither moves without the other.
LEMMA ReadTogetherStep ==
  ASSUME TypeOK, Carrying, OneAccount, ReadTogether, [Next]_identityVars
  PROVE  ReadTogether'
<1>0. /\ seen \in [Requests -> [password : Nat, epoch : Nat]] /\ epoch \in Nat
      /\ makers \in Seq(Requests \cup {NoOne}) /\ NoOne \notin Requests
  BY IdentityAssumption DEF TypeOK
<1>1. ASSUME NEW r \in Requests, Moves(r) \/ DatabaseStep(r) \/ StoreStep(r)
      PROVE  ReadTogether'
  <2>1. epoch' \in Nat /\ epoch <= epoch' /\ (epoch' = epoch => password' = password)
    BY <1>0, <1>1, EpochMoves
  <2>2. \A q \in Requests \ {r} : pc'[q] = pc[q] /\ carries'[q] = carries[q] /\ seen'[q] = seen[q]
    BY <1>1, OthersStay
  <2>3. user # "absent" => epoch > 0
    BY <1>0 DEF OneAccount
  <2>4. pc[r] = "changeWrites" => carries[r] # NoOne
    BY <1>0 DEF Carrying, CarryingPcs
  <2>5. /\ pc'[r] = "idle" => seen'[r].epoch = 0
        /\ pc'[r] = "loginCreates" => seen'[r].epoch > 0
        /\ carries'[r] = NoOne => /\ seen'[r].epoch <= epoch'
                                  /\ seen'[r].epoch = epoch' => seen'[r].password = password'
    <3>1. /\ carries[r] = NoOne => /\ seen[r].epoch <= epoch
                                   /\ seen[r].epoch = epoch => seen[r].password = password
          /\ seen[r].epoch \in Nat
      BY <1>0 DEF ReadTogether
    <3> QED BY <1>0, <1>1, <2>1, <2>3, <2>4, <3>1, RequestReads
  <2>6. ASSUME NEW q \in Requests \ {r}
        PROVE  /\ pc'[q] = "idle" => seen'[q].epoch = 0
               /\ pc'[q] = "loginCreates" => seen'[q].epoch > 0
               /\ carries'[q] = NoOne =>
                    /\ seen'[q].epoch <= epoch'
                    /\ seen'[q].epoch = epoch' => seen'[q].password = password'
    BY <1>0, <2>1, <2>2 DEF ReadTogether
  <2> QED BY <2>5, <2>6 DEF ReadTogether
<1>2. CASE redisGoes \/ redisReturns \/ tick \/ UNCHANGED identityVars
  BY <1>2, EnvironmentAside DEF ReadTogether
<1> QED BY <1>1, <1>2, StepKinds

\* A change of password has an epoch to itself until its clean-up.
LEMMA ChangesMakeStep ==
  ASSUME TypeOK, Carrying, OneAccount, ChangesMake, [Next]_identityVars
  PROVE  ChangesMake'
<1>0. /\ seen \in [Requests -> [password : Nat, epoch : Nat]] /\ epoch \in Nat
      /\ makers \in Seq(Requests \cup {NoOne})
      /\ carries \in [Requests -> Requests \cup {NoOne}]
  BY DEF TypeOK
<1>1. ASSUME NEW r \in Requests, Moves(r) \/ DatabaseStep(r) \/ StoreStep(r)
      PROVE  ChangesMake'
  <2>1. \A q \in Requests \ {r} : pc'[q] = pc[q] /\ carries'[q] = carries[q] /\ seen'[q] = seen[q]
    BY <1>1, OthersStay
  <2>2. user # "absent" => epoch = Len(makers) + 1
    BY DEF OneAccount
  <2>3. user = "absent" => \A q \in Requests : pc[q] \notin {"changeWrites", "changeCleans"}
    BY DEF OneAccount
  <2>4. /\ epoch' \in Nat /\ epoch <= epoch'
        /\ user # "absent" => \A i \in 1..(epoch - 1) : makers'[i] = makers[i]
    <3>1. CASE UNCHANGED <<epoch, makers>>
      BY <1>0, <3>1
    <3>2. CASE user = "absent" /\ epoch' = 1 /\ epoch = 0
      BY <3>2
    <3>3. ASSUME user # "absent", epoch' = epoch + 1, NEW m \in Requests \cup {NoOne},
                 makers' = Append(makers, m)
          PROVE  /\ epoch' \in Nat /\ epoch <= epoch'
                 /\ \A i \in 1..(epoch - 1) : makers'[i] = makers[i]
      BY <1>0, <2>2, <3>3
    <3> QED BY <1>1, <3>1, <3>2, <3>3, EpochMoves
  <2>5. \/ /\ pc'[r] = "changeCleans" => pc[r] = "changeCleans"
           /\ pc'[r] = "changeCleans" => seen'[r] = seen[r] /\ carries'[r] = carries[r]
        \/ /\ pc[r] = "changeWrites" /\ pc'[r] = "changeCleans" /\ carries'[r] = carries[r]
           /\ epoch' = epoch + 1 /\ makers' = Append(makers, carries[r])
           /\ seen'[r].epoch = epoch + 1
    BY <1>1, RequestReads
  <2>6. CASE /\ pc'[r] = "changeCleans" => pc[r] = "changeCleans"
             /\ pc'[r] = "changeCleans" => seen'[r] = seen[r] /\ carries'[r] = carries[r]
    <3>1. \A q \in Requests : pc'[q] = "changeCleans" =>
            pc[q] = "changeCleans" /\ seen'[q] = seen[q] /\ carries'[q] = carries[q]
      BY <2>1, <2>6
    <3>2. ASSUME NEW q \in Requests, pc'[q] = "changeCleans"
          PROVE  seen'[q].epoch \in 2..epoch' /\ makers'[seen'[q].epoch - 1] = carries'[q]
      <4>1. /\ user # "absent" /\ seen'[q] = seen[q] /\ carries'[q] = carries[q]
            /\ seen[q].epoch \in 2..epoch /\ makers[seen[q].epoch - 1] = carries[q]
        BY <2>3, <3>1, <3>2 DEF ChangesMake
      <4>2. seen[q].epoch - 1 \in 1..(epoch - 1)
        BY <1>0, <4>1
      <4> QED BY <1>0, <2>4, <4>1, <4>2
    <3>3. \A q, s \in Requests :
            pc'[q] = "changeCleans" /\ pc'[s] = "changeCleans" /\ seen'[q].epoch = seen'[s].epoch
            => q = s
      BY <3>1 DEF ChangesMake
    <3> QED BY <3>2, <3>3 DEF ChangesMake
  <2>7. CASE /\ pc[r] = "changeWrites" /\ pc'[r] = "changeCleans" /\ carries'[r] = carries[r]
             /\ epoch' = epoch + 1 /\ makers' = Append(makers, carries[r])
             /\ seen'[r].epoch = epoch + 1
    <3>1. user # "absent"
      BY <2>3, <2>7
    <3>2. seen'[r].epoch \in 2..epoch' /\ makers'[seen'[r].epoch - 1] = carries'[r]
      BY <1>0, <2>2, <2>7, <3>1
    <3>3. ASSUME NEW q \in Requests \ {r}, pc'[q] = "changeCleans"
          PROVE  /\ pc[q] = "changeCleans" /\ seen'[q].epoch = seen[q].epoch
                 /\ seen[q].epoch \in 2..epoch /\ makers'[seen'[q].epoch - 1] = carries'[q]
      <4>1. /\ pc[q] = "changeCleans" /\ seen'[q] = seen[q] /\ carries'[q] = carries[q]
            /\ seen[q].epoch \in 2..epoch /\ makers[seen[q].epoch - 1] = carries[q]
        BY <2>1, <3>3 DEF ChangesMake
      <4>2. seen[q].epoch - 1 \in 1..(epoch - 1)
        BY <1>0, <4>1
      <4> QED BY <2>4, <3>1, <4>1, <4>2
    <3>4. \A q \in Requests : pc'[q] = "changeCleans" =>
            seen'[q].epoch \in 2..epoch' /\ makers'[seen'[q].epoch - 1] = carries'[q]
      <4>1. \A n \in 2..epoch : n \in 2..epoch'
        BY <1>0, <2>4
      <4> QED BY <3>2, <3>3, <4>1
    <3>5. \A q, s \in Requests :
            pc'[q] = "changeCleans" /\ pc'[s] = "changeCleans" /\ seen'[q].epoch = seen'[s].epoch
            => q = s
      <4>1. \A q \in Requests \ {r} : pc'[q] = "changeCleans" => seen'[q].epoch # seen'[r].epoch
        BY <1>0, <2>7, <3>3
      <4>2. \A q, s \in Requests \ {r} :
              pc'[q] = "changeCleans" /\ pc'[s] = "changeCleans"
              /\ seen'[q].epoch = seen'[s].epoch => q = s
        BY <3>3 DEF ChangesMake
      <4> QED BY <4>1, <4>2
    <3> QED BY <3>4, <3>5 DEF ChangesMake
  <2> QED BY <2>5, <2>6, <2>7
<1>2. CASE redisGoes \/ redisReturns \/ tick \/ UNCHANGED identityVars
  BY <1>2, EnvironmentAside DEF ChangesMake
<1> QED BY <1>1, <1>2, StepKinds

-----------------------------------------------------------------------------
(* Sessions                                                                *)

\* A clean-up moves the session of its request, and no other, to the epoch it made.
LEMMA CleanUpEpochs ==
  ASSUME TypeOK, NEW r \in Requests, changeCleans(r), NEW s \in Requests,
         sessEpoch'[s] # sessEpoch[s]
  PROVE  s = carries[r] /\ sessEpoch'[s] = seen[r].epoch
<1>0. sessEpoch \in [Requests -> Nat]
  BY DEF TypeOK, StoreTypeOK
<1> QED BY <1>0 DEF changeCleans, destroyOtherUserSessions, cleanUpFails, storeAside, storeVars

\* Past makers stay where they are.
LEMMA MakersStay ==
  ASSUME TypeOK, OneAccount, user # "absent", NEW r \in Requests,
         Moves(r) \/ DatabaseStep(r) \/ StoreStep(r)
  PROVE  /\ epoch' \in Nat /\ epoch <= epoch'
         /\ \A n \in 2..epoch : n \in 2..epoch' /\ makers'[n - 1] = makers[n - 1]
<1>0. epoch \in Nat /\ makers \in Seq(Requests \cup {NoOne}) /\ epoch = Len(makers) + 1
  BY DEF TypeOK, OneAccount
<1>1. CASE UNCHANGED <<epoch, makers>>
  BY <1>0, <1>1
<1>2. ASSUME epoch' = epoch + 1, NEW m \in Requests \cup {NoOne}, makers' = Append(makers, m)
      PROVE  /\ epoch' \in Nat /\ epoch <= epoch'
             /\ \A n \in 2..epoch : n \in 2..epoch' /\ makers'[n - 1] = makers[n - 1]
  <2>1. ASSUME NEW n \in 2..epoch PROVE n \in 2..epoch' /\ makers'[n - 1] = makers[n - 1]
    <3>1. n - 1 \in 1..Len(makers)
      BY <1>0
    <3> QED BY <1>0, <1>2, <3>1
  <2> QED BY <1>0, <1>2, <2>1
<1> QED BY <1>1, <1>2, EpochMoves

\* The epoch of a session comes from its login or from the change of password it made.
LEMMA SessionOriginStep ==
  ASSUME TypeOK, Carrying, OneAccount, ReadTogether, ChangesMake, SessionOrigin,
         [Next]_identityVars
  PROVE  SessionOrigin'
<1>0. /\ seen \in [Requests -> [password : Nat, epoch : Nat]] /\ epoch \in Nat
      /\ live \in [Requests -> Nat] /\ sessEpoch \in [Requests -> Nat]
      /\ pc \in [Requests -> Pcs] /\ carries \in [Requests -> Requests \cup {NoOne}]
      /\ NoOne \notin Requests /\ SessionTtl \in Nat
  BY IdentityAssumption, SessionAssumption DEF TypeOK, StoreTypeOK
<1>1. ASSUME NEW r \in Requests, Moves(r) \/ DatabaseStep(r) \/ StoreStep(r)
      PROVE  SessionOrigin'
  <2>1. SUFFICES ASSUME NEW s \in Requests, live'[s] > 0
                 PROVE  /\ carries'[s] = NoOne /\ pc'[s] \notin {"idle", "loginCreates"}
                        /\ \/ sessEpoch'[s] = 0 /\ seen'[s].epoch = 1
                           \/ sessEpoch'[s] > 0 /\ sessEpoch'[s] = seen'[s].epoch
                           \/ /\ sessEpoch'[s] \in 2..epoch'
                              /\ makers'[sessEpoch'[s] - 1] = s
    BY DEF SessionOrigin
  <2>2. CASE live[s] = 0
    <3>1. s = r /\ loginCreates(r)
      <4>1. StoreStep(r)
        BY <1>1, <2>1, <2>2, SessionsAside
      <4>2. s = r /\ pc[r] = "loginCreates"
        BY <2>1, <2>2, <4>1, ScriptLives
      <4> QED BY <4>1, <4>2 DEF StoreStep, loginUndoes, guardValidates, leave, changeCleans,
                                revokeCleans
    <3>2. createSession(r, seen[r].epoch) /\ goto(r, "loginRechecks")
      BY <2>1, <2>2, <3>1 DEF loginCreates, withoutRedis, storeAside, storeVars
    <3>3. carries[r] = NoOne /\ seen[r].epoch > 0
      BY <3>1 DEF loginCreates, Carrying, CarryingPcs, ReadTogether
    <3> QED BY <1>0, <3>1, <3>2, <3>3 DEF loginCreates, createSession, goto
  <2>3. CASE live[s] # 0
    <3>1. /\ carries[s] = NoOne /\ pc[s] \notin {"idle", "loginCreates", "changeWrites"}
          /\ user # "absent"
      <4>1. live[s] > 0
        BY <1>0, <2>3
      <4> QED BY <1>0, <4>1 DEF SessionOrigin, Carrying, CarryingPcs, OneAccount
    <3>2. carries'[s] = NoOne /\ pc'[s] \notin {"idle", "loginCreates"} /\ seen'[s] = seen[s]
      <4>1. CASE s = r
        BY <1>1, <3>1, <4>1, RequestReads
      <4>2. CASE s # r
        BY <1>1, <3>1, <4>2, OthersStay
      <4> QED BY <4>1, <4>2
    <3>3. \/ sessEpoch[s] = 0 /\ seen[s].epoch = 1
          \/ sessEpoch[s] > 0 /\ sessEpoch[s] = seen[s].epoch
          \/ sessEpoch[s] \in 2..epoch /\ makers[sessEpoch[s] - 1] = s
      BY <1>0, <2>3 DEF SessionOrigin
    <3>4. /\ epoch' \in Nat /\ epoch <= epoch'
          /\ \A n \in 2..epoch : n \in 2..epoch' /\ makers'[n - 1] = makers[n - 1]
      BY <1>1, <3>1, MakersStay
    <3>5. CASE sessEpoch'[s] = sessEpoch[s]
      BY <3>2, <3>3, <3>4, <3>5
    <3>6. CASE sessEpoch'[s] # sessEpoch[s]
      <4>1. StoreStep(r) /\ (s = r \/ pc[r] = "changeCleans")
        BY <1>1, <3>6, SessionsAside, ScriptLives
      <4>2. changeCleans(r)
        <5>1. pc[r] # "loginCreates"
          BY <3>1, <4>1
        <5> QED BY <3>6, <4>1, <5>1 DEF StoreStep, loginCreates, loginUndoes, guardValidates,
                  leave, revokeCleans, validateSession, destroySession, destroyAllUserSessions,
                  withoutRedis, cleanUpFails, storeAside, storeVars
      <4>3. s = carries[r] /\ sessEpoch'[s] = seen[r].epoch
        BY <3>6, <4>2, CleanUpEpochs
      <4>4. seen[r].epoch \in 2..epoch /\ makers[seen[r].epoch - 1] = s
        BY <4>2, <4>3 DEF changeCleans, ChangesMake
      <4> QED BY <3>2, <3>4, <4>3, <4>4
    <3> QED BY <3>5, <3>6
  <2> QED BY <2>2, <2>3
<1>2. CASE redisGoes \/ redisReturns \/ tick \/ UNCHANGED identityVars
  <2>1. /\ sessEpoch' = sessEpoch
        /\ \A s \in Requests : live'[s] > 0 => live[s] > 0
    BY <1>0, <1>2, EnvironmentLives
  <2> QED BY <1>2, <2>1, EnvironmentAside DEF SessionOrigin
<1> QED BY <1>1, <1>2, StepKinds

\* The scripts keep every session that createSession made in the index, and the index
\* alive for as long.
LEMMA IndexStep ==
  ASSUME TypeOK, IndexReachesSessions, [Next]_identityVars
  PROVE  IndexReachesSessions'
<1>0. /\ live \in [Requests -> 0..SessionTtl] /\ sessEpoch \in [Requests -> Nat]
      /\ index \subseteq Requests /\ indexTtl \in 0..SessionTtl /\ SessionTtl \in Nat
  BY SessionAssumption DEF TypeOK, StoreTypeOK
<1>s. ASSUME UNCHANGED <<live, sessEpoch, index, indexTtl>> PROVE IndexReachesSessions'
  BY <1>s DEF IndexReachesSessions
<1>c. ASSUME NEW s \in Requests, NEW e, createSession(s, e) PROVE IndexReachesSessions'
  BY <1>0, <1>c DEF createSession, addToIndex, IndexReachesSessions
<1>v. ASSUME NEW s \in Requests, validateSession(s) PROVE IndexReachesSessions'
  BY <1>0, <1>v DEF validateSession, addToIndex, IndexReachesSessions
<1>d. ASSUME NEW s, destroySession(s) PROVE IndexReachesSessions'
  BY <1>0, <1>d DEF destroySession, IndexReachesSessions
<1>o. ASSUME NEW s, NEW e, destroyOtherUserSessions(s, e) PROVE IndexReachesSessions'
  BY <1>0, <1>o DEF destroyOtherUserSessions, IndexReachesSessions
<1>a. ASSUME destroyAllUserSessions PROVE IndexReachesSessions'
  BY <1>0, <1>a DEF destroyAllUserSessions, IndexReachesSessions
<1>1. ASSUME NEW r \in Requests, StoreStep(r) PROVE IndexReachesSessions'
  <2>1. \/ UNCHANGED <<live, sessEpoch, index, indexTtl>>
        \/ createSession(r, seen[r].epoch) \/ destroySession(r) \/ destroySession(carries[r])
        \/ \E s \in Requests : validateSession(s)
        \/ destroyOtherUserSessions(carries[r], seen[r].epoch) \/ destroyAllUserSessions
    BY <1>1 DEF StoreStep, loginCreates, loginUndoes, guardValidates, leave, changeCleans,
                revokeCleans, withoutRedis, cleanUpFails, storeAside, storeVars
  <2> QED BY <2>1, <1>s, <1>c, <1>v, <1>d, <1>o, <1>a
<1>2. ASSUME NEW r \in Requests, Moves(r) \/ DatabaseStep(r) PROVE IndexReachesSessions'
  BY <1>2, <1>s, SessionsAside
<1>3. CASE tick
  BY <1>0, <1>3 DEF tick, expireKeys, IndexReachesSessions
<1>4. CASE redisGoes \/ redisReturns \/ UNCHANGED identityVars
  BY <1>4, <1>s DEF redisGoes, redisReturns, identityVars, storeAside, storeVars
<1> QED BY <1>1, <1>2, <1>3, <1>4, StepKinds

\* While nothing fails, a session that made no epoch keeps its own.
LEMMA StaleBefore ==
  ASSUME TypeOK, Carrying, OneAccount, SessionOrigin, ChangesMake, NEW r \in Requests,
         Moves(r) \/ DatabaseStep(r) \/ StoreStep(r), UNCHANGED <<epoch, makers>>,
         NEW s \in Requests, live[s] > 0, Stale(s)'
  PROVE  Stale(s) /\ sessEpoch[s] = seen[s].epoch
<1>0. /\ sessEpoch \in [Requests -> Nat] /\ epoch \in Nat
      /\ makers \in Seq(Requests \cup {NoOne})
  BY DEF TypeOK, StoreTypeOK
<1>1. user # "absent" /\ epoch = Len(makers) + 1 /\ pc[s] # "loginCreates"
  BY DEF OneAccount, SessionOrigin
<1>2. \A n \in 2..epoch : makers[n - 1] # s
  <2>1. \A n \in 2..epoch : n - 1 \in 1..Len(makers)
    BY <1>0, <1>1
  <2> QED BY <2>1 DEF Stale
<1>3. sessEpoch'[s] = sessEpoch[s]
  <2>1. SUFFICES ASSUME sessEpoch'[s] # sessEpoch[s] PROVE FALSE
    OBVIOUS
  <2>2. StoreStep(r) /\ (s = r \/ pc[r] = "changeCleans")
    BY <2>1, SessionsAside, ScriptLives
  <2>3. pc[r] # "loginCreates"
    BY <1>1, <2>2
  <2>4. changeCleans(r)
    BY <2>1, <2>2, <2>3 DEF StoreStep, loginCreates, loginUndoes, guardValidates, leave,
         revokeCleans, validateSession, destroySession, destroyAllUserSessions, withoutRedis,
         cleanUpFails, storeAside, storeVars
  <2>5. s = carries[r]
    BY <2>1, <2>4, CleanUpEpochs
  <2> QED BY <1>2, <2>4, <2>5 DEF changeCleans, ChangesMake
<1>4. Stale(s)
  BY <1>3 DEF Stale
<1>5. sessEpoch[s] = seen[s].epoch
  BY <1>2, <1>4 DEF SessionOrigin, Stale
<1> QED BY <1>4, <1>5

\* While nothing fails, a stale session survives neither the end of its login nor a
\* clean-up.
LEMMA StaleStep ==
  ASSUME TypeOK, Carrying, OneAccount, ReadTogether, SessionOrigin, ChangesMake,
         IndexReachesSessions, StaleAreDoomed, [Next]_identityVars
  PROVE  StaleAreDoomed'
<1>0. /\ faults \in Nat /\ outages \in Nat /\ live \in [Requests -> Nat]
      /\ pc \in [Requests -> Pcs] /\ SessionTtl \in Nat
      /\ makers \in Seq(Requests \cup {NoOne})
  BY SessionAssumption DEF TypeOK, StoreTypeOK
<1>1. ASSUME NEW r \in Requests, Moves(r) \/ DatabaseStep(r) \/ StoreStep(r)
      PROVE  StaleAreDoomed'
  <2>1. SUFFICES ASSUME faults' = 0, outages' = 0
                 PROVE  /\ redisUp'
                        /\ \A s \in Requests : Stale(s)' =>
                             \/ pc'[s] \in {"loginRechecks", "loginUndoes"}
                             \/ \E q \in Requests : pc'[q] \in {"changeCleans", "revokeCleans"}
    BY DEF StaleAreDoomed
  <2>2. outages' = outages /\ redisUp' = redisUp /\ faults' = faults
    <3>1. CASE Moves(r)
      BY <1>0, <2>1, <3>1 DEF Moves, signup, resendVerification, verifyEmail, login,
           loginRechecks, guardChecks, changeReads, crash, envAside, Fault
    <3>2. CASE DatabaseStep(r)
      BY <1>0, <2>1, <3>2 DEF DatabaseStep, createWithTenantTransaction,
           sendVerificationEmail, invalidateActiveUserTokens, createToken, consumeToken,
           updatePasswordAndIncrementEpoch, incrementSecurityEpoch, envAside, Fault
    <3>3. CASE StoreStep(r)
      BY <3>3 DEF StoreStep, loginCreates, loginUndoes, guardValidates, leave, changeCleans,
           revokeCleans, envAside
    <3> QED BY <1>1, <3>1, <3>2, <3>3
  <2>3. /\ redisUp
        /\ \A s \in Requests : Stale(s) =>
             \/ pc[s] \in {"loginRechecks", "loginUndoes"}
             \/ \E q \in Requests : pc[q] \in {"changeCleans", "revokeCleans"}
    BY <2>1, <2>2 DEF StaleAreDoomed
  <2>4. ~crash(r)
    BY <1>0, <2>2 DEF crash, Fault
  <2>5. SUFFICES ASSUME NEW s \in Requests, Stale(s)'
                 PROVE  \/ pc'[s] \in {"loginRechecks", "loginUndoes"}
                        \/ \E q \in Requests : pc'[q] \in {"changeCleans", "revokeCleans"}
    BY <2>2, <2>3
  <2>6. live'[s] > 0
    BY <2>5 DEF Stale
  <2>7. CASE ~(UNCHANGED <<epoch, makers>>)
    <3>1. \/ createWithTenantTransaction(r) /\ user = "absent"
          \/ updatePasswordAndIncrementEpoch(r) \/ incrementSecurityEpoch(r)
      BY <1>1, <2>7 DEF Moves, signup, resendVerification, verifyEmail, login, loginRechecks,
           guardChecks, changeReads, crash, StoreStep, loginCreates, loginUndoes,
           guardValidates, leave, changeCleans, revokeCleans, DatabaseStep,
           createWithTenantTransaction, sendVerificationEmail, invalidateActiveUserTokens,
           createToken, consumeToken, userAside
    <3>2. CASE createWithTenantTransaction(r) /\ user = "absent"
      BY <2>6, <3>2 DEF createWithTenantTransaction, storeAside, storeVars, OneAccount
    <3>3. CASE updatePasswordAndIncrementEpoch(r) \/ incrementSecurityEpoch(r)
      BY <1>0, <3>3 DEF updatePasswordAndIncrementEpoch, incrementSecurityEpoch, goto
    <3> QED BY <3>1, <3>2, <3>3
  <2>8. CASE UNCHANGED <<epoch, makers>> /\ live[s] = 0
    <3>1. StoreStep(r)
      BY <1>1, <2>6, <2>8, SessionsAside
    <3>2. s = r /\ pc[r] = "loginCreates"
      BY <2>6, <2>8, <3>1, ScriptLives
    <3>3. loginCreates(r)
      BY <3>1, <3>2 DEF StoreStep, loginUndoes, guardValidates, leave, changeCleans, revokeCleans
    <3> QED BY <1>0, <2>3, <3>2, <3>3 DEF loginCreates, withoutRedis, goto
  <2>9. CASE UNCHANGED <<epoch, makers>> /\ live[s] # 0
    <3>1. Stale(s) /\ sessEpoch[s] = seen[s].epoch
      BY <1>0, <1>1, <2>5, <2>9, StaleBefore
    <3>2. CASE s # r /\ pc[s] \in {"loginRechecks", "loginUndoes"}
      BY <1>1, <3>2, OthersStay
    <3>3. CASE s = r /\ pc[s] = "loginRechecks"
      <4>1. loginRechecks(r)
        BY <1>1, <2>4, <3>3 DEF Moves, signup, resendVerification, verifyEmail, login,
             guardChecks, changeReads, StoreStep, loginCreates, loginUndoes, guardValidates,
             leave, changeCleans, revokeCleans, DatabaseStep, createWithTenantTransaction,
             sendVerificationEmail, invalidateActiveUserTokens, createToken, consumeToken,
             updatePasswordAndIncrementEpoch, incrementSecurityEpoch
      <4>2. seen[r] # [password |-> password, epoch |-> epoch]
        BY <3>1, <3>3 DEF Stale
      <4> QED BY <1>0, <3>3, <4>1, <4>2 DEF loginRechecks, goto
    <3>4. CASE s = r /\ pc[s] = "loginUndoes"
      <4>1. loginUndoes(r)
        BY <1>1, <2>4, <3>4 DEF Moves, signup, resendVerification, verifyEmail, login,
             loginRechecks, guardChecks, changeReads, StoreStep, loginCreates, guardValidates,
             leave, changeCleans, revokeCleans, DatabaseStep, createWithTenantTransaction,
             sendVerificationEmail, invalidateActiveUserTokens, createToken, consumeToken,
             updatePasswordAndIncrementEpoch, incrementSecurityEpoch
      <4> QED BY <1>0, <2>3, <2>6, <3>4, <4>1 DEF loginUndoes, withoutRedis, destroySession
    <3>5. ASSUME NEW q \in Requests, pc[q] \in {"changeCleans", "revokeCleans"}
          PROVE  pc'[q] \in {"changeCleans", "revokeCleans"}
      <4>1. CASE q # r
        BY <1>1, <3>5, <4>1, OthersStay
      <4>2. CASE q = r
        <5>1. changeCleans(r) \/ revokeCleans(r)
          BY <1>1, <2>4, <3>5, <4>2 DEF Moves, signup, resendVerification, verifyEmail, login,
               loginRechecks, guardChecks, changeReads, StoreStep, loginCreates, loginUndoes,
               guardValidates, leave, DatabaseStep, createWithTenantTransaction,
               sendVerificationEmail, invalidateActiveUserTokens, createToken, consumeToken,
               updatePasswordAndIncrementEpoch, incrementSecurityEpoch
        <5>2. s \in index
          BY <3>1 DEF Stale, IndexReachesSessions
        <5>3. CASE changeCleans(r)
          <6>1. s # carries[r]
            <7>1. seen[r].epoch \in 2..epoch /\ makers[seen[r].epoch - 1] = carries[r]
              BY <5>3 DEF changeCleans, ChangesMake
            <7>2. epoch = Len(makers) + 1
              BY <5>3 DEF changeCleans, OneAccount
            <7>3. seen[r].epoch - 1 \in 1..Len(makers)
              BY <1>0, <7>1, <7>2
            <7> QED BY <3>1, <7>1, <7>3 DEF Stale
          <6> QED BY <1>0, <2>3, <2>6, <5>2, <5>3, <6>1
                  DEF changeCleans, cleanUpFails, destroyOtherUserSessions
        <5>4. CASE revokeCleans(r)
          BY <1>0, <2>3, <2>6, <5>2, <5>4 DEF revokeCleans, cleanUpFails, destroyAllUserSessions
        <5> QED BY <5>1, <5>3, <5>4
      <4> QED BY <4>1, <4>2
    <3> QED BY <2>3, <3>1, <3>2, <3>3, <3>4, <3>5
  <2> QED BY <2>7, <2>8, <2>9
<1>2. CASE redisReturns \/ tick \/ UNCHANGED identityVars
  <2>1. sessEpoch' = sessEpoch /\ \A s \in Requests : live'[s] > 0 => live[s] > 0
    BY <1>0, <1>2, EnvironmentLives
  <2>2. UNCHANGED <<pc, epoch, makers>>
    BY <1>2, EnvironmentAside
  <2>3. \A s \in Requests : Stale(s)' => Stale(s)
    BY <2>1, <2>2 DEF Stale
  <2>4. faults' = faults /\ outages' = outages /\ (redisUp => redisUp')
    BY <1>2 DEF redisReturns, tick, identityVars
  <2> QED BY <2>2, <2>3, <2>4 DEF StaleAreDoomed
<1>3. CASE redisGoes
  BY <1>0, <1>3 DEF redisGoes, StaleAreDoomed
<1> QED BY <1>1, <1>2, <1>3, StepKinds

-----------------------------------------------------------------------------
(* The properties                                                          *)

\* what holds of the requests, the row, the links and the sessions between steps
IdentityInv ==
  /\ Carrying /\ OneAccount /\ ReadTogether /\ SessionOrigin /\ ChangesMake /\ LinksOnce
  /\ IndexReachesSessions /\ StaleAreDoomed

\* All of it holds where an address is free or has an account with an old session.
LEMMA IdentityInit ==
  ASSUME Init
  PROVE  TypeOK /\ IdentityInv
<1>0. /\ redisUp = TRUE /\ password = 0 /\ makers = << >>
      /\ uses = [r \in Requests |-> 0] /\ carries = [r \in Requests |-> NoOne]
      /\ tries = [r \in Requests |-> 0] /\ token = [r \in Requests |-> 0] /\ mailed = {}
      /\ sessEpoch = [r \in Requests |-> 0] /\ now = 0 /\ faults = 0 /\ outages = 0
  BY DEF Init
<1>1. PICK old \in SUBSET Requests :
        /\ pc = [r \in Requests |-> IF r \in old THEN "loggedIn" ELSE "idle"]
        /\ live = [r \in Requests |-> IF r \in old THEN SessionTtl ELSE 0]
        /\ seen = [r \in Requests |-> [password |-> 0, epoch |-> IF r \in old THEN 1 ELSE 0]]
        /\ index \in SUBSET old
        /\ indexTtl = IF index = {} THEN 0 ELSE SessionTtl
        /\ \/ user = "unverified" /\ epoch = 1 /\ accounts = 1
           \/ user = "absent" /\ epoch = 0 /\ accounts = 0 /\ old = {}
  BY DEF Init
<1>2. TypeOK
  <2>1. redisUp \in BOOLEAN
    BY <1>0
  <2>2. StoreTypeOK
    BY <1>0, <1>1, <2>1, SessionAssumption DEF StoreTypeOK
  <2>3. pc \in [Requests -> Pcs] /\ seen \in [Requests -> [password : Nat, epoch : Nat]]
    BY <1>1 DEF Pcs
  <2>4. makers \in Seq(Requests \cup {NoOne}) /\ password \in Nat
    BY <1>0
  <2>5. /\ token \in [Requests -> Nat] /\ tries \in [Requests -> 0..maxAttempts]
        /\ uses \in [Requests -> Nat] /\ carries \in [Requests -> Requests \cup {NoOne}]
    BY <1>0, IdentityAssumption DEF maxAttempts
  <2>6. user \in {"absent", "unverified", "verified"} /\ epoch \in Nat /\ accounts \in Nat
    BY <1>1
  <2>7. mailed \in SUBSET Requests /\ now \in Nat /\ faults \in Nat /\ outages \in Nat
    BY <1>0
  <2> QED BY <2>2, <2>3, <2>4, <2>5, <2>6, <2>7 DEF TypeOK
<1>r. ASSUME NEW r \in Requests
      PROVE  /\ carries[r] = NoOne /\ tries[r] = 0 /\ seen[r].password = 0
             /\ \/ pc[r] = "loggedIn" /\ seen[r].epoch = 1 /\ epoch = 1
                \/ pc[r] = "idle" /\ seen[r].epoch = 0 /\ epoch \in Nat
  <2>1. CASE r \in old
    BY <1>0, <1>1, <2>1
  <2>2. CASE r \notin old
    BY <1>0, <1>1, <2>2
  <2> QED BY <2>1, <2>2
<1>3. Carrying
  <2>1. SUFFICES ASSUME NEW r \in Requests
                 PROVE  /\ pc[r] \in CarryingPcs => carries[r] \in Requests
                        /\ pc[r] \notin CarryingPcs \cup {"over"} => carries[r] = NoOne
                        /\ pc[r] # "over" => tries[r] < maxAttempts
    BY DEF Carrying
  <2>2. carries[r] = NoOne /\ tries[r] = 0 /\ pc[r] \in {"loggedIn", "idle"}
    BY <1>r
  <2> QED BY <2>2 DEF CarryingPcs, maxAttempts
<1>4. OneAccount
  BY <1>0, <1>1 DEF OneAccount
<1>5. ReadTogether
  <2>1. SUFFICES ASSUME NEW r \in Requests
                 PROVE  /\ pc[r] = "idle" => seen[r].epoch = 0
                        /\ pc[r] = "loginCreates" => seen[r].epoch > 0
                        /\ seen[r].epoch <= epoch /\ seen[r].password = password
    BY DEF ReadTogether
  <2> QED BY <1>0, <1>r
<1>6. SessionOrigin
  BY <1>0, <1>1 DEF SessionOrigin
<1>7. ChangesMake
  BY <1>0, <1>1 DEF ChangesMake
<1>8. LinksOnce
  BY <1>0, <1>1 DEF LinksOnce
<1>9. IndexReachesSessions /\ StaleAreDoomed
  BY <1>0 DEF IndexReachesSessions, StaleAreDoomed, Stale
<1> QED BY <1>2, <1>3, <1>4, <1>5, <1>6, <1>7, <1>8, <1>9 DEF IdentityInv

\* Every step keeps all of it.
LEMMA IdentityStep ==
  ASSUME TypeOK, IdentityInv, [Next]_identityVars
  PROVE  TypeOK' /\ IdentityInv'
<1> USE DEF IdentityInv
<1>1. TypeOK'
  BY StepKinds, MovesTypes, DatabaseTypes, StoreTypes, EnvironmentTypes
<1>2. Carrying' /\ OneAccount' /\ LinksOnce'
  BY CarryingStep, OneAccountStep, LinksStep
<1>3. ReadTogether' /\ ChangesMake'
  BY ReadTogetherStep, ChangesMakeStep
<1>4. SessionOrigin' /\ IndexReachesSessions' /\ StaleAreDoomed'
  BY SessionOriginStep, IndexStep, StaleStep
<1> QED BY <1>1, <1>2, <1>3, <1>4

\* The variables keep their types and the invariant holds, whatever interleaves: requests
\* of sign-up, login, logout and change of password, Redis away, processes dying.
THEOREM IdentityTypeCorrect == Spec => [](TypeOK /\ IdentityInv)
<1>1. Init => TypeOK /\ IdentityInv
  BY IdentityInit
<1>2. TypeOK /\ IdentityInv /\ [Next]_identityVars => TypeOK' /\ IdentityInv'
  BY IdentityStep
<1> QED BY <1>1, <1>2, PTL DEF Spec

\* The guard accepts only a session whose login read the present row, or the one that
\* made the present epoch by changing the password.
THEOREM GuardAcceptsPresent == Spec => []OnlyPresentGeneration
<1>1. TypeOK /\ IdentityInv => OnlyPresentGeneration
  <2>1. SUFFICES ASSUME TypeOK, IdentityInv, NEW s \in Requests, Accepted(s)
                 PROVE  \/ seen[s] = [password |-> password, epoch |-> epoch]
                        \/ epoch > 1 /\ makers[epoch - 1] = s
    BY DEF OnlyPresentGeneration
  <2>2. seen[s] \in [password : Nat, epoch : Nat] /\ epoch \in Nat /\ sessEpoch[s] \in Nat
    BY <2>1 DEF TypeOK, StoreTypeOK
  <2>3. /\ live[s] > 0 /\ carries[s] = NoOne
        /\ IF sessEpoch[s] = 0 THEN epoch = 1 ELSE sessEpoch[s] = epoch
    BY <2>1 DEF Accepted, epochMatches, IdentityInv, SessionOrigin
  <2>4. seen[s].epoch = epoch => seen[s].password = password
    BY <2>1, <2>3 DEF IdentityInv, ReadTogether
  <2>5. seen[s].epoch = epoch \/ (epoch > 1 /\ makers[epoch - 1] = s)
    BY <2>1, <2>2, <2>3 DEF IdentityInv, SessionOrigin
  <2>6. seen[s].epoch = epoch => seen[s] = [password |-> password, epoch |-> epoch]
    BY <2>2, <2>4
  <2> QED BY <2>5, <2>6
<1> QED BY <1>1, IdentityTypeCorrect, PTL

\* Where nothing failed and nothing runs, a session of an older epoch made one itself.
THEOREM RacingLoginsUndone == Spec => []RacingLoginsLeaveNothing
<1>1. TypeOK /\ IdentityInv => RacingLoginsLeaveNothing
  <2>1. SUFFICES ASSUME TypeOK, IdentityInv, Quiet, faults = 0, outages = 0,
                        NEW s \in Requests, live[s] > 0, sessEpoch[s] # 0, sessEpoch[s] # epoch,
                        \A i \in 1..Len(makers) : makers[i] # s
                 PROVE  FALSE
    BY DEF RacingLoginsLeaveNothing
  <2>2. Stale(s)
    BY <2>1 DEF Stale
  <2> QED BY <2>1, <2>2 DEF IdentityInv, StaleAreDoomed, Quiet
<1> QED BY <1>1, IdentityTypeCorrect, PTL

\* A session of createSession is in the index while it lives.
THEOREM IndexListsSessions == Spec => []IndexReachesSessions
<1>1. IdentityInv => IndexReachesSessions
  BY DEF IdentityInv
<1> QED BY <1>1, IdentityTypeCorrect, PTL

\* One account for the address, one use for a link.
THEOREM OneAccountOneUse == Spec => []LinksAndAccountsAreSingle
<1>1. TypeOK /\ IdentityInv => LinksAndAccountsAreSingle
  BY DEF TypeOK, IdentityInv, OneAccount, LinksOnce, LinksAndAccountsAreSingle
<1> QED BY <1>1, IdentityTypeCorrect, PTL

\* A session that is gone comes back only with its own login.
THEOREM GoneStaysGone == Spec => NeverResurrected
<1>1. TypeOK /\ IdentityInv /\ [Next]_identityVars
      => [\A s \in Requests : live[s] = 0 /\ live'[s] > 0 => pc[s] = "loginCreates"]_identityVars
  <2>1. SUFFICES ASSUME TypeOK, Carrying, [Next]_identityVars,
                        NEW s \in Requests, live[s] = 0, live'[s] > 0
                 PROVE  pc[s] = "loginCreates"
    BY DEF IdentityInv
  <2>2. live \in [Requests -> Nat]
    BY <2>1 DEF TypeOK, StoreTypeOK
  <2>3. ASSUME NEW r \in Requests, Moves(r) \/ DatabaseStep(r) PROVE FALSE
    BY <2>1, <2>2, <2>3, SessionsAside
  <2>4. CASE redisGoes \/ redisReturns \/ tick \/ UNCHANGED identityVars
    BY <2>1, <2>2, <2>4, EnvironmentLives
  <2> QED BY <2>1, <2>3, <2>4, ScriptLives, StepKinds
<1> QED BY <1>1, IdentityTypeCorrect, PTL DEF Spec, NeverResurrected

-----------------------------------------------------------------------------
(* The service implements the contract of access                           *)

\* the sessions the guard accepts, which the contract calls holders
Holding == {s \in Requests : Accepted(s)}

\* A change of password that made the present epoch is the only one.
LEMMA PendingIs ==
  ASSUME ChangesMake, NEW r \in Requests, pc[r] = "changeCleans", seen[r].epoch = epoch
  PROVE  pendingMaker = carries[r]
<1>1. {q \in Requests : pc[q] = "changeCleans" /\ seen[q].epoch = epoch} = {r}
  BY DEF ChangesMake
<1> QED BY <1>1 DEF pendingMaker

\* the same of the state after a step
LEMMA PendingBecomes ==
  ASSUME ChangesMake', NEW r \in Requests, pc'[r] = "changeCleans", seen'[r].epoch = epoch'
  PROVE  pendingMaker' = carries'[r]
<1>1. {q \in Requests : pc'[q] = "changeCleans" /\ seen'[q].epoch = epoch'} = {r}
  BY DEF ChangesMake
<1> QED BY <1>1 DEF pendingMaker

\* without such a change nobody is to be kept
LEMMA PendingEnds ==
  ASSUME \A q \in Requests : ~(pc'[q] = "changeCleans" /\ seen'[q].epoch = epoch')
  PROVE  pendingMaker' = NoOne
BY DEF pendingMaker

\* While the epoch stays and no change of password reaches its clean-up, the session to be
\* kept stays or is given up.
LEMMA PendingShrinks ==
  ASSUME ChangesMake, ChangesMake', epoch' = epoch,
         \A q \in Requests : pc'[q] = "changeCleans" =>
           pc[q] = "changeCleans" /\ seen'[q] = seen[q] /\ carries'[q] = carries[q]
  PROVE  pendingMaker' \in {pendingMaker, NoOne}
<1>1. CASE \E q \in Requests : pc'[q] = "changeCleans" /\ seen'[q].epoch = epoch'
  <2>1. PICK q \in Requests : pc'[q] = "changeCleans" /\ seen'[q].epoch = epoch'
    BY <1>1
  <2>2. pendingMaker' = carries'[q]
    BY <2>1, PendingBecomes
  <2>3. pendingMaker = carries[q]
    BY <2>1, PendingIs
  <2> QED BY <2>1, <2>2, <2>3
<1>2. CASE ~\E q \in Requests : pc'[q] = "changeCleans" /\ seen'[q].epoch = epoch'
  BY <1>2, PendingEnds
<1> QED BY <1>1, <1>2

\* Only the end of createSession, with or without success, is a login of the contract.
LEMMA LoginsStay ==
  ASSUME TypeOK, Carrying, ReadTogether, NEW r \in Requests,
         Moves(r) \/ DatabaseStep(r) \/ StoreStep(r), pc[r] # "loginCreates"
  PROVE  loginsDone' = loginsDone
<1>0. /\ \A q \in Requests : seen[q].epoch \in Nat
      /\ NoOne \notin Requests
      /\ pc[r] = "idle" => seen[r].epoch = 0
      /\ pc[r] = "changeWrites" => carries[r] \in Requests
  BY IdentityAssumption DEF TypeOK, Carrying, CarryingPcs, ReadTogether
<1>1. \A q \in Requests \ {r} : pc'[q] = pc[q] /\ carries'[q] = carries[q] /\ seen'[q] = seen[q]
  BY OthersStay
<1>2. (carries'[r] = NoOne /\ seen'[r].epoch > 0 /\ pc'[r] # "loginCreates")
      <=> (carries[r] = NoOne /\ seen[r].epoch > 0 /\ pc[r] # "loginCreates")
  BY <1>0, RequestReads
<1> QED BY <1>1, <1>2 DEF loginsDone

\* The login of the contract: the session is created and accepted, or it is not, because
\* the epoch has moved, Redis is away or the process dies.
LEMMA LoginStep ==
  ASSUME TypeOK, Carrying, ReadTogether, SessionOrigin, ChangesMake, ChangesMake',
         NEW r \in Requests, loginCreates(r) \/ (crash(r) /\ pc[r] = "loginCreates")
  PROVE  Access!Login(r)
<1>0. /\ pc \in [Requests -> Pcs] /\ live \in [Requests -> Nat] /\ sessEpoch \in [Requests -> Nat]
  BY DEF TypeOK, StoreTypeOK
<1>1. /\ carries[r] = NoOne /\ seen[r].epoch > 0 /\ pc[r] = "loginCreates" /\ live[r] = 0
  <2>1. pc[r] = "loginCreates"
    BY DEF loginCreates
  <2>2. ~(live[r] > 0)
    BY <2>1 DEF SessionOrigin
  <2> QED BY <1>0, <2>1, <2>2 DEF Carrying, CarryingPcs, ReadTogether
<1>2. UNCHANGED <<carries, seen, epoch>>
  BY DEF loginCreates, crash, userAside
<1>3. /\ pc'[r] \notin {"loginCreates", "changeCleans"}
      /\ \A q \in Requests \ {r} : pc'[q] = pc[q]
  BY <1>0 DEF loginCreates, crash, withoutRedis, goto
<1>4. \A q \in Requests \ {r} : live'[q] = live[q] /\ sessEpoch'[q] = sessEpoch[q]
  BY <1>0 DEF loginCreates, crash, withoutRedis, createSession, storeAside, storeVars
<1>5. r \notin loginsDone /\ loginsDone' = loginsDone \cup {r}
  BY <1>1, <1>2, <1>3 DEF loginsDone
<1>6. Holding' \in {Holding, Holding \cup {r}}
  <2>1. \A q \in Requests \ {r} : q \in Holding' <=> q \in Holding
    BY <1>2, <1>4 DEF Holding, Accepted, epochMatches
  <2>2. Holding \subseteq Requests /\ Holding' \subseteq Requests /\ r \notin Holding
    BY <1>1 DEF Holding, Accepted
  <2> QED BY <2>1, <2>2
<1>7. pendingMaker' = pendingMaker
  <2>1. \A q \in Requests : (pc'[q] = "changeCleans" /\ seen'[q].epoch = epoch')
                           <=> (pc[q] = "changeCleans" /\ seen[q].epoch = epoch)
    BY <1>1, <1>2, <1>3
  <2>2. CASE \E q \in Requests : pc[q] = "changeCleans" /\ seen[q].epoch = epoch
    <3>1. PICK q \in Requests : pc[q] = "changeCleans" /\ seen[q].epoch = epoch
      BY <2>2
    <3> QED BY <1>2, <2>1, <3>1, PendingIs, PendingBecomes
  <2>3. CASE ~\E q \in Requests : pc[q] = "changeCleans" /\ seen[q].epoch = epoch
    <3>1. pendingMaker' = NoOne
      BY <2>1, <2>3, PendingEnds
    <3>2. pendingMaker = NoOne
      BY <2>3 DEF pendingMaker
    <3> QED BY <3>1, <3>2
  <2> QED BY <2>2, <2>3
<1> QED BY <1>2, <1>5, <1>6, <1>7 DEF Access!Login, Holding

\* A new epoch begins the generation with nobody, and with its maker to be kept if it is a
\* change of password: every session there is belongs to an earlier one.
LEMMA BeginStep ==
  ASSUME TypeOK, IdentityInv, ChangesMake', NEW r \in Requests, DatabaseStep(r), epoch' # epoch
  PROVE  \E m \in Requests \cup {NoOne} : Access!Begin(m)
<1>0. /\ pc \in [Requests -> Pcs] /\ live \in [Requests -> Nat] /\ sessEpoch \in [Requests -> Nat]
      /\ epoch \in Nat /\ carries \in [Requests -> Requests \cup {NoOne}]
      /\ seen \in [Requests -> [password : Nat, epoch : Nat]]
      /\ makers \in Seq(Requests \cup {NoOne})
  BY DEF TypeOK, StoreTypeOK
<1>1. \/ createWithTenantTransaction(r) /\ user = "absent" /\ epoch' = 1
      \/ updatePasswordAndIncrementEpoch(r) \/ incrementSecurityEpoch(r)
  BY DEF DatabaseStep, createWithTenantTransaction, sendVerificationEmail,
         invalidateActiveUserTokens, createToken, consumeToken, userAside
<1>2. pc[r] # "loginCreates" /\ loginsDone' = loginsDone
  <2>1. pc[r] # "loginCreates"
    BY <1>1 DEF createWithTenantTransaction, updatePasswordAndIncrementEpoch,
                incrementSecurityEpoch
  <2> QED BY <2>1, LoginsStay DEF IdentityInv
<1>3. UNCHANGED <<live, sessEpoch>>
  BY SessionsAside
<1>4. \A q \in Requests \ {r} : pc'[q] = pc[q] /\ carries'[q] = carries[q] /\ seen'[q] = seen[q]
  BY OthersStay
<1>5. CASE createWithTenantTransaction(r) /\ user = "absent" /\ epoch' = 1
  <2>1. /\ epoch = 0
        /\ \A q \in Requests : live[q] = 0 /\ pc[q] \in {"idle", "signupCommits", "over"}
    BY <1>5 DEF IdentityInv, OneAccount
  <2>2. Holding' = {}
    BY <1>3, <2>1 DEF Holding, Accepted
  <2>3. pendingMaker' = NoOne
    <3>1. pc'[r] # "changeCleans"
      BY <1>0, <1>5 DEF createWithTenantTransaction, goto
    <3> QED BY <1>4, <2>1, <3>1, PendingEnds
  <2>4. epoch' = epoch + 1
    BY <1>5, <2>1
  <2> QED BY <1>2, <2>2, <2>3, <2>4 DEF Access!Begin, Holding
<1>6. CASE updatePasswordAndIncrementEpoch(r) \/ incrementSecurityEpoch(r)
  <2>1. epoch' = epoch + 1 /\ epoch > 0
    <3>1. epoch' = epoch + 1 /\ pc[r] \in {"changeWrites", "revokeWrites"}
      BY <1>6 DEF updatePasswordAndIncrementEpoch, incrementSecurityEpoch
    <3>2. epoch = Len(makers) + 1
      BY <3>1 DEF IdentityInv, OneAccount
    <3> QED BY <1>0, <3>1, <3>2
  <2>2. Holding' = {}
    <3>1. SUFFICES ASSUME NEW s \in Requests, Accepted(s)' PROVE FALSE
      BY DEF Holding
    <3>2. live[s] > 0 /\ sessEpoch[s] = epoch + 1
      BY <1>0, <1>3, <2>1, <3>1 DEF Accepted, epochMatches
    <3>3. sessEpoch[s] <= epoch
      <4>1. carries[s] = NoOne /\ seen[s].epoch <= epoch
        BY <3>2 DEF IdentityInv, SessionOrigin, ReadTogether
      <4>2. \/ sessEpoch[s] = 0 \/ sessEpoch[s] = seen[s].epoch \/ sessEpoch[s] \in 2..epoch
        BY <3>2 DEF IdentityInv, SessionOrigin
      <4> QED BY <1>0, <4>1, <4>2
    <3> QED BY <1>0, <3>2, <3>3
  <2>3. CASE updatePasswordAndIncrementEpoch(r)
    <3>1. pc'[r] = "changeCleans" /\ seen'[r].epoch = epoch' /\ carries' = carries
      BY <1>0, <2>1, <2>3 DEF updatePasswordAndIncrementEpoch, goto
    <3>2. pendingMaker' = carries[r]
      BY <3>1, PendingBecomes
    <3>3. carries[r] \in Requests \cup {NoOne}
      BY <1>0
    <3> QED BY <1>2, <2>1, <2>2, <3>2, <3>3 DEF Access!Begin, Holding
  <2>4. CASE incrementSecurityEpoch(r)
    <3>1. pc'[r] # "changeCleans"
      BY <1>0, <2>4 DEF incrementSecurityEpoch, goto
    <3>2. \A q \in Requests : pc[q] = "changeCleans" => seen[q].epoch <= epoch
      <4>1. \A q \in Requests : pc[q] = "changeCleans" => seen[q].epoch \in 2..epoch
        BY DEF IdentityInv, ChangesMake
      <4> QED BY <1>0, <4>1
    <3>3. pendingMaker' = NoOne
      <4>1. \A q \in Requests : ~(pc'[q] = "changeCleans" /\ seen'[q].epoch = epoch')
        <5>1. SUFFICES ASSUME NEW q \in Requests \ {r}, pc'[q] = "changeCleans"
                       PROVE  seen'[q].epoch # epoch'
          BY <3>1
        <5>2. seen'[q] = seen[q] /\ seen[q].epoch \in Nat /\ seen[q].epoch <= epoch
          BY <1>0, <1>4, <3>2, <5>1
        <5> QED BY <1>0, <2>1, <5>2
      <4> QED BY <4>1, PendingEnds
    <3> QED BY <1>2, <2>1, <2>2, <3>3 DEF Access!Begin, Holding
  <2> QED BY <1>6, <2>3, <2>4
<1> QED BY <1>1, <1>5, <1>6

\* A clean-up of the present epoch keeps its session, which is the contract's Keep; a late
\* one moves its session to an epoch that is over, which loses it access.
LEMMA CleanUpStep ==
  ASSUME TypeOK, IdentityInv, ChangesMake', NEW r \in Requests, changeCleans(r)
  PROVE  Access!Keep \/ Access!Lose
<1>0. /\ pc \in [Requests -> Pcs] /\ live \in [Requests -> Nat] /\ sessEpoch \in [Requests -> Nat]
      /\ epoch \in Nat /\ NoOne \notin Requests
  BY IdentityAssumption DEF TypeOK, StoreTypeOK
<1>1. /\ pc[r] = "changeCleans" /\ carries[r] \in Requests /\ seen[r].epoch \in 2..epoch
      /\ UNCHANGED <<epoch, carries, seen>>
  BY DEF changeCleans, userAside, IdentityInv, ChangesMake, Carrying, CarryingPcs
<1>2. loginsDone' = loginsDone
  BY <1>1, LoginsStay DEF IdentityInv, StoreStep
<1>3. \A q \in Requests \ {r} : pc'[q] = pc[q]
  BY OthersStay DEF StoreStep
<1>4. pendingMaker' \in {pendingMaker, NoOne}
  BY <1>1, <1>3, PendingShrinks DEF IdentityInv
<1>5. \A s \in Requests : live'[s] > 0 => live[s] > 0
  <2>1. StoreStep(r)
    BY DEF StoreStep
  <2>2. \A s \in Requests : live[s] = 0 => ~(live'[s] > 0)
    BY <1>1, <2>1, ScriptLives DEF IdentityInv
  <2> QED BY <1>0, <2>2
<1>6. CASE \A s \in Requests : s \in Holding' => s \in Holding
  <2>1. Holding' \in SUBSET Holding
    BY <1>6 DEF Holding
  <2> QED BY <1>1, <1>2, <1>4, <2>1 DEF Access!Lose, Holding
<1>7. ASSUME NEW s \in Requests, s \in Holding', s \notin Holding PROVE Access!Keep
  <2>1. sessEpoch'[s] # sessEpoch[s]
    BY <1>1, <1>5, <1>7 DEF Holding, Accepted, epochMatches
  <2>2. s = carries[r] /\ sessEpoch'[s] = seen[r].epoch
    BY <2>1, CleanUpEpochs
  <2>3. seen[r].epoch = epoch
    BY <1>0, <1>1, <1>7, <2>2 DEF Holding, Accepted, epochMatches
  <2>4. pendingMaker = carries[r]
    BY <1>1, <2>3, PendingIs DEF IdentityInv
  <2>5. Holding' \in SUBSET (Holding \cup {carries[r]})
    <3>1. \A q \in Requests \ {carries[r]} : q \in Holding' => q \in Holding
      <4>1. \A q \in Requests \ {carries[r]} : sessEpoch'[q] = sessEpoch[q]
        BY CleanUpEpochs
      <4> QED BY <1>1, <1>5, <4>1 DEF Holding, Accepted, epochMatches
    <3> QED BY <3>1 DEF Holding
  <2>6. pendingMaker' = NoOne
    <3>1. pc'[r] # "changeCleans"
      BY <1>0, <2>1 DEF changeCleans, cleanUpFails, storeAside, storeVars, goto
    <3>2. \A q \in Requests : ~(pc'[q] = "changeCleans" /\ seen'[q].epoch = epoch')
      BY <1>1, <1>3, <2>3, <3>1 DEF IdentityInv, ChangesMake
    <3> QED BY <3>2, PendingEnds
  <2> QED BY <1>0, <1>1, <1>2, <2>4, <2>5, <2>6 DEF Access!Keep, Holding
<1> QED BY <1>6, <1>7

\* Every other step of a request can only take access away.
LEMMA LoseStep ==
  ASSUME TypeOK, IdentityInv, ChangesMake', NEW r \in Requests,
         Moves(r) \/ DatabaseStep(r) \/ StoreStep(r), ~changeCleans(r), epoch' = epoch,
         pc[r] # "loginCreates"
  PROVE  Access!Lose
<1>0. live \in [Requests -> Nat] /\ sessEpoch \in [Requests -> Nat]
  BY DEF TypeOK, StoreTypeOK
<1>1. loginsDone' = loginsDone
  BY LoginsStay DEF IdentityInv
<1>2. pendingMaker' \in {pendingMaker, NoOne}
  <2>1. epoch \in Nat
    BY DEF TypeOK
  <2>2. \A q \in Requests : pc'[q] = "changeCleans" =>
          pc[q] = "changeCleans" /\ seen'[q] = seen[q] /\ carries'[q] = carries[q]
    BY <2>1, RequestReads, OthersStay
  <2> QED BY <2>2, PendingShrinks DEF IdentityInv
<1>3. /\ \A s \in Requests : live'[s] > 0 => live[s] > 0
      /\ sessEpoch' = sessEpoch
  <2>1. CASE Moves(r) \/ DatabaseStep(r)
    BY <2>1, SessionsAside
  <2>2. CASE StoreStep(r)
    <3>1. sessEpoch' = sessEpoch
      BY <2>2 DEF StoreStep, loginCreates, loginUndoes, guardValidates, leave,
           revokeCleans, validateSession, destroySession, destroyAllUserSessions, withoutRedis,
           cleanUpFails, storeAside, storeVars
    <3>2. \A s \in Requests : live[s] = 0 => ~(live'[s] > 0)
      BY <2>2, ScriptLives DEF IdentityInv
    <3> QED BY <1>0, <3>1, <3>2
  <2> QED BY <2>1, <2>2
<1>4. Holding' \in SUBSET Holding
  BY <1>3 DEF Holding, Accepted, epochMatches
<1> QED BY <1>1, <1>2, <1>4 DEF Access!Lose, Holding

\* The environment ends sessions and nothing else.
LEMMA EnvironmentStep ==
  ASSUME TypeOK, IdentityInv, ChangesMake',
         redisGoes \/ redisReturns \/ tick \/ UNCHANGED identityVars
  PROVE  Access!Lose
<1>1. UNCHANGED <<pc, carries, seen, epoch>>
  BY EnvironmentAside
<1>2. sessEpoch' = sessEpoch /\ \A s \in Requests : live'[s] > 0 => live[s] > 0
  <2>1. live \in [Requests -> Nat]
    BY DEF TypeOK, StoreTypeOK
  <2> QED BY <2>1, EnvironmentLives
<1>3. Holding' \in SUBSET Holding
  BY <1>1, <1>2 DEF Holding, Accepted, epochMatches
<1>4. loginsDone' = loginsDone
  BY <1>1 DEF loginsDone
<1>5. pendingMaker' \in {pendingMaker, NoOne}
  BY <1>1, PendingShrinks DEF IdentityInv
<1> QED BY <1>1, <1>3, <1>4, <1>5 DEF Access!Lose, Holding

\* A state the service starts in is one the contract starts in.
LEMMA AccessInit ==
  ASSUME Init
  PROVE  Access!Init
<1>1. TypeOK /\ IdentityInv
  BY IdentityInit
<1>2. /\ epoch \in Nat
      /\ \A r \in Requests : seen[r].epoch \in Nat /\ sessEpoch[r] = 0
  BY <1>1 DEF Init, TypeOK
<1>3. Holding \in SUBSET loginsDone
  <2>1. SUFFICES ASSUME NEW s \in Requests, live[s] > 0 PROVE s \in loginsDone
    BY DEF Holding, Accepted
  <2>2. carries[s] = NoOne /\ pc[s] # "loginCreates" /\ seen[s].epoch > 0
    BY <1>1, <1>2, <2>1 DEF IdentityInv, SessionOrigin
  <2> QED BY <2>2 DEF loginsDone
<1>4. pendingMaker = NoOne
  <2>1. \A q \in Requests : pc[q] # "changeCleans"
    BY DEF Init
  <2> QED BY <2>1 DEF pendingMaker
<1>5. loginsDone \in SUBSET Requests
  BY DEF loginsDone
<1> QED BY <1>2, <1>3, <1>4, <1>5 DEF Access!Init, Holding

\* Every step of the service is a step of the contract.
LEMMA AccessStep ==
  ASSUME TypeOK, IdentityInv, ChangesMake', [Next]_identityVars
  PROVE  Access!Next
<1>1. ASSUME NEW r \in Requests, Moves(r) \/ DatabaseStep(r) \/ StoreStep(r)
      PROVE  Access!Next
  <2>1. CASE epoch' # epoch
    <3>1. DatabaseStep(r)
      BY <1>1, <2>1 DEF Moves, signup, resendVerification, verifyEmail, login, loginRechecks,
           guardChecks, changeReads, crash, StoreStep, loginCreates, loginUndoes,
           guardValidates, leave, changeCleans, revokeCleans, userAside
    <3>2. \E m \in Requests \cup {NoOne} : Access!Begin(m)
      BY <2>1, <3>1, BeginStep
    <3> QED BY <3>2 DEF Access!Next
  <2>2. CASE epoch' = epoch /\ pc[r] = "loginCreates"
    <3>1. loginCreates(r) \/ crash(r)
      BY <1>1, <2>2 DEF Moves, signup, resendVerification, verifyEmail, login, loginRechecks,
           guardChecks, changeReads, StoreStep, loginUndoes, guardValidates, leave,
           changeCleans, revokeCleans, DatabaseStep, createWithTenantTransaction,
           sendVerificationEmail, invalidateActiveUserTokens, createToken, consumeToken,
           updatePasswordAndIncrementEpoch, incrementSecurityEpoch
    <3>2. Access!Login(r)
      BY <2>2, <3>1, LoginStep DEF IdentityInv
    <3> QED BY <3>2 DEF Access!Next
  <2>3. CASE changeCleans(r)
    BY <2>3, CleanUpStep DEF Access!Next
  <2>4. CASE epoch' = epoch /\ pc[r] # "loginCreates" /\ ~changeCleans(r)
    BY <1>1, <2>4, LoseStep DEF Access!Next
  <2> QED BY <2>1, <2>2, <2>3, <2>4
<1>2. CASE redisGoes \/ redisReturns \/ tick \/ UNCHANGED identityVars
  BY <1>2, EnvironmentStep DEF Access!Next
<1> QED BY <1>1, <1>2, StepKinds

\* The service implements the contract of access, whatever interleaves or fails between
\* PostgreSQL and Redis.
THEOREM AccessImplemented == Spec => ImplementsAccess
<1>1. Init => Access!Init
  BY AccessInit
<1>2. TypeOK /\ IdentityInv /\ IdentityInv' /\ [Next]_identityVars
      => [Access!Next]_(Access!accessVars)
  BY AccessStep DEF IdentityInv
<1> QED BY <1>1, <1>2, IdentityTypeCorrect, PTL DEF Spec, ImplementsAccess, Access!Spec
=============================================================================
