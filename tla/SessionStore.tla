---------------------------- MODULE SessionStore ----------------------------
(***************************************************************************)
(* SessionManager: the sessions of one user in Redis and the index that    *)
(* lists them.  Each Lua script is one atomic step; each operator below is *)
(* the effect of one of them.  A key is its remaining time to live, zero   *)
(* when it is not there.  The login request that creates a session names   *)
(* it.                                                                     *)
(***************************************************************************)
EXTENDS Naturals

CONSTANTS
  Requests,    \* requests to the API
  SessionTtl   \* SESSION_TTL_SECONDS

ASSUME SessionAssumption == SessionTtl \in Nat \ {0}

VARIABLES
  live,       \* session:<id>
  sessEpoch,  \* its securityEpoch, zero in a session older than the field
  index,      \* members of user_sessions:<userId>
  indexTtl,   \* and its time to live
  redisUp     \* whether the API reaches Redis

storeVars == <<live, sessEpoch, index, indexTtl>>

StoreTypeOK ==
  /\ live \in [Requests -> 0..SessionTtl]
  /\ sessEpoch \in [Requests -> Nat]
  /\ index \in SUBSET Requests
  /\ indexTtl \in 0..SessionTtl
  /\ redisUp \in BOOLEAN

\* SADD and, when the set would expire before the session, EXPIRE
addToIndex_MutNoExpire(s) ==
  /\ index' = index \cup {s}
  /\ indexTtl' = IF index = {} THEN SessionTtl ELSE indexTtl
addToIndex(s) ==
  /\ index' = index \cup {s}
  /\ indexTtl' = SessionTtl

\* CREATE_SESSION_SCRIPT
createSession(s, epoch) ==
  /\ live' = [live EXCEPT ![s] = SessionTtl]
  /\ sessEpoch' = [sessEpoch EXCEPT ![s] = epoch]
  /\ addToIndex(s)

\* VALIDATE_SESSION_SCRIPT on a session that is there: a full time to live
\* again, and back into the index
validateSession(s) ==
  /\ live[s] > 0
  /\ live' = [live EXCEPT ![s] = SessionTtl]
  /\ addToIndex(s)
  /\ UNCHANGED sessEpoch

\* DESTROY_SESSION_SCRIPT
destroySession(s) ==
  /\ live' = [live EXCEPT ![s] = 0]
  /\ index' = IF live[s] > 0 THEN index \ {s} ELSE index
  /\ UNCHANGED <<sessEpoch, indexTtl>>

\* DESTROY_OTHER_USER_SESSIONS_SCRIPT: the kept session moves to the new epoch
\* with the time it has left, if it is still there
destroyOtherUserSessions_MutRecreates(keep, epoch) ==
  /\ live' = [s \in Requests |-> IF s = keep THEN SessionTtl
                                 ELSE IF s \in index THEN 0 ELSE live[s]]
  /\ sessEpoch' = [sessEpoch EXCEPT ![keep] = epoch]
  /\ index' = {keep} /\ indexTtl' = SessionTtl
destroyOtherUserSessions(keep, epoch) ==
  /\ live' = [s \in Requests |-> IF s \in index \ {keep} THEN 0 ELSE live[s]]
  /\ sessEpoch' = [sessEpoch EXCEPT ![keep] = IF live[keep] > 0 THEN epoch ELSE @]
  /\ index' = {keep} /\ indexTtl' = SessionTtl

\* DESTROY_ALL_USER_SESSIONS_SCRIPT
destroyAllUserSessions ==
  /\ live' = [s \in Requests |-> IF s \in index THEN 0 ELSE live[s]]
  /\ index' = {} /\ indexTtl' = 0
  /\ UNCHANGED sessEpoch

\* time passes in Redis
expireKeys ==
  /\ live' = [s \in Requests |-> IF live[s] > 0 THEN live[s] - 1 ELSE 0]
  /\ indexTtl' = IF indexTtl > 0 THEN indexTtl - 1 ELSE 0
  /\ index' = IF indexTtl' = 0 THEN {} ELSE index
  /\ UNCHANGED sessEpoch
=============================================================================
