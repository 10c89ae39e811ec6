------------------------------ MODULE OAuthFlow ------------------------------
(***************************************************************************)
(* One consent of a user at a provider: the state key generateAuthUrl      *)
(* keeps in Redis, the callbacks of the browser (which may be delivered    *)
(* twice), the discovery session kept when the consent covers several      *)
(* profiles, and the requests that choose among them.  A key is its        *)
(* remaining time to live, zero when it is not there.                      *)
(***************************************************************************)
EXTENDS Naturals, FiniteSets

CONSTANTS
  Callbacks,     \* requests to the callback URL
  Selections,    \* requests to .../discoveries/:id/select
  Profiles,      \* what getProfiles may return
  StateTtl,      \* time to live of oauth_state:<state> (300 s)
  DiscoveryTtl,  \* time to live of oauth:discovery:<id> (900 s)
  MaxTime,       \* bound: the clock
  MaxFaults      \* bound: calls that fail and processes that die

ASSUME OAuthAssumption ==
  /\ StateTtl \in Nat \ {0} /\ DiscoveryTtl \in Nat \ {0}
  /\ MaxTime \in Nat /\ MaxFaults \in Nat

VARIABLES
  now,        \* the clock
  stateKey,   \* oauth_state:<state>
  code,       \* the provider's authorization code
  cb,         \* where each callback is
  offered,    \* profiles of the discovery session, or of the one that needs no choice
  createdAt,  \* DiscoverySession.createdAt
  discovery,  \* oauth:discovery:<id>
  sel,        \* where each selection is
  choice,     \* the profiles it asks for
  saved,      \* profiles whose account and connection are stored
  saves,      \* transactions that stored accounts of this consent
  wasted,     \* a session was lost: a bad choice, an exception outside the transaction,
              \* a failure of Redis, or the process died
  faults

oauthVars == <<now, stateKey, code, cb, offered, createdAt, discovery, sel, choice, saved,
               saves, wasted, faults>>

CallbackPcs == {"idle", "delete", "exchange", "profiles", "store", "save", "over"}
SelectionPcs == {"idle", "claim", "verify", "save", "restore", "over"}

TypeOK ==
  /\ now \in Nat /\ createdAt \in Nat
  /\ stateKey \in 0..StateTtl /\ discovery \in Nat
  /\ code \in {"none", "issued", "used"}
  /\ cb \in [Callbacks -> CallbackPcs]
  /\ sel \in [Selections -> SelectionPcs]
  /\ choice \in [Selections -> SUBSET Profiles]
  /\ offered \in SUBSET Profiles /\ saved \in SUBSET Profiles
  /\ saves \in Nat /\ wasted \in BOOLEAN /\ faults \in Nat

Init ==
  /\ now = 0 /\ createdAt = 0 /\ stateKey = 0 /\ discovery = 0
  /\ code = "none"
  /\ cb = [c \in Callbacks |-> "idle"]
  /\ sel = [s \in Selections |-> "idle"]
  /\ choice = [s \in Selections |-> {}]
  /\ offered = {} /\ saved = {}
  /\ saves = 0 /\ wasted = FALSE /\ faults = 0

Fault == faults < MaxFaults /\ faults' = faults + 1

clockAside == UNCHANGED <<now, createdAt>>
selectionsAside == UNCHANGED <<sel, choice, wasted>>

-----------------------------------------------------------------------------
(* From the connect request to the callback                                *)

\* generateAuthUrl stores the state, and the user consents at the provider
generateAuthUrl ==
  /\ code = "none"
  /\ stateKey' = StateTtl /\ code' = "issued"
  /\ clockAside /\ selectionsAside
  /\ UNCHANGED <<cb, offered, discovery, saved, saves, faults>>

\* handleOAuthCallback reads the state: without it the callback is refused
callbackReads(c) ==
  /\ cb[c] = "idle" /\ code # "none"
  /\ cb' = [cb EXCEPT ![c] = IF stateKey > 0 THEN "delete" ELSE "over"]
  /\ clockAside /\ selectionsAside
  /\ UNCHANGED <<stateKey, code, offered, discovery, saved, saves, faults>>

\* then deletes it: another callback may have read it in between
callbackDeletes(c) ==
  /\ cb[c] = "delete"
  /\ stateKey' = 0 /\ cb' = [cb EXCEPT ![c] = "exchange"]
  /\ clockAside /\ selectionsAside
  /\ UNCHANGED <<code, offered, discovery, saved, saves, faults>>

\* the provider takes a code once
exchangeAuthorizationCode(c) ==
  /\ cb[c] = "exchange"
  /\ \/ /\ code = "issued" /\ code' = "used"
        /\ cb' = [cb EXCEPT ![c] = "profiles"] /\ UNCHANGED faults
     \/ /\ code = "used" /\ UNCHANGED <<code, faults>>
        /\ cb' = [cb EXCEPT ![c] = "over"]
     \/ Fault /\ UNCHANGED code /\ cb' = [cb EXCEPT ![c] = "over"]
  /\ clockAside /\ selectionsAside
  /\ UNCHANGED <<stateKey, offered, discovery, saved, saves>>

\* what the provider knows of the user: any pages, channels or members (Meta: every page
\* and its Instagram account once, over all result pages); an error counts as none
providerProfiles == SUBSET Profiles

\* getProfiles: none is an error, one is stored at once, several need a choice
getProfiles(c) ==
  /\ cb[c] = "profiles"
  /\ offered' \in providerProfiles
  /\ cb' = [cb EXCEPT ![c] = CASE offered' = {} -> "over"
                               [] Cardinality(offered') = 1 -> "save"
                               [] OTHER -> "store"]
  /\ clockAside /\ selectionsAside
  /\ UNCHANGED <<stateKey, code, discovery, saved, saves, faults>>

\* storeDiscovery: createdAt is taken just before the SET, which may fail
storeDiscovery(c) ==
  /\ cb[c] = "store"
  /\ cb' = [cb EXCEPT ![c] = "over"]
  /\ createdAt' = now
  /\ \/ discovery' = DiscoveryTtl /\ UNCHANGED <<wasted, faults>>
     \/ Fault /\ wasted' = TRUE /\ UNCHANGED discovery
  /\ UNCHANGED <<now, stateKey, code, offered, sel, choice, saved, saves>>

\* upsertWithConnection, for the only profile; its initial sync job (an error of the
\* queue is logged) is enqueueSync of module AccountJobs
callbackSaves(c) ==
  /\ cb[c] = "save"
  /\ \/ /\ saved' = saved \cup offered /\ saves' = saves + 1
        /\ cb' = [cb EXCEPT ![c] = "over"] /\ UNCHANGED faults
     \/ Fault /\ cb' = [cb EXCEPT ![c] = "over"] /\ UNCHANGED <<saved, saves>>
  /\ clockAside /\ selectionsAside
  /\ UNCHANGED <<stateKey, code, offered, discovery>>

CallbackStep(c) ==
  \/ callbackReads(c) \/ callbackDeletes(c) \/ exchangeAuthorizationCode(c)
  \/ getProfiles(c) \/ storeDiscovery(c) \/ callbackSaves(c)

-----------------------------------------------------------------------------
(* processDiscoverySelection                                               *)

callbacksAside == UNCHANGED <<stateKey, code, cb, offered>>

\* GET the session: gone or never there is refused
selectionReads(s) ==
  /\ sel[s] = "idle" /\ offered # {}
  /\ sel' = [sel EXCEPT ![s] = IF discovery > 0 THEN "claim" ELSE "over"]
  /\ choice' \in {[choice EXCEPT ![s] = p] : p \in SUBSET Profiles \ {{}}}
  /\ clockAside /\ callbacksAside
  /\ UNCHANGED <<discovery, saved, saves, wasted, faults>>

claimDiscovery_MutNotAtomic(s) ==
  /\ sel[s] = "claim"
  /\ discovery' = 0 /\ sel' = [sel EXCEPT ![s] = "verify"]
  /\ clockAside /\ callbacksAside
  /\ UNCHANGED <<choice, saved, saves, wasted, faults>>

\* claimDiscovery: the Lua script deletes the key if it still holds what was read
claimDiscovery(s) ==
  /\ sel[s] = "claim"
  /\ \/ discovery > 0 /\ discovery' = 0 /\ sel' = [sel EXCEPT ![s] = "verify"]
     \/ discovery = 0 /\ UNCHANGED discovery /\ sel' = [sel EXCEPT ![s] = "over"]
  /\ clockAside /\ callbacksAside
  /\ UNCHANGED <<choice, saved, saves, wasted, faults>>

\* the choice is looked at only now: one without an offered profile loses the session,
\* and so does an exception before the try (the registry, getCapabilities, encrypt)
verifyChoice(s) ==
  /\ sel[s] = "verify"
  /\ \/ /\ choice[s] \cap offered # {}
        /\ sel' = [sel EXCEPT ![s] = "save"] /\ UNCHANGED <<wasted, faults>>
     \/ /\ choice[s] \cap offered = {}
        /\ sel' = [sel EXCEPT ![s] = "over"] /\ wasted' = TRUE /\ UNCHANGED faults
     \/ Fault /\ sel' = [sel EXCEPT ![s] = "over"] /\ wasted' = TRUE
  /\ clockAside /\ callbacksAside
  /\ UNCHANGED <<choice, discovery, saved, saves>>

\* upsertManyWithConnection: one transaction for all chosen profiles, then their syncs
upsertManyWithConnection(s) ==
  /\ sel[s] = "save"
  /\ \/ /\ saved' = saved \cup (choice[s] \cap offered) /\ saves' = saves + 1
        /\ sel' = [sel EXCEPT ![s] = "over"] /\ UNCHANGED faults
     \/ Fault /\ sel' = [sel EXCEPT ![s] = "restore"] /\ UNCHANGED <<saved, saves>>
  /\ clockAside /\ callbacksAside
  /\ UNCHANGED <<choice, discovery, wasted>>

remainingTtl_MutNotClamped == DiscoveryTtl - (now - createdAt)

\* what is left of the session's time to live
remainingTtl == IF now - createdAt < DiscoveryTtl THEN DiscoveryTtl - (now - createdAt) ELSE 0

restoreDiscovery_MutFullTtl(s) ==
  /\ sel[s] = "restore"
  /\ discovery' = IF discovery = 0 /\ remainingTtl > 0 THEN DiscoveryTtl ELSE discovery
  /\ sel' = [sel EXCEPT ![s] = "over"]
  /\ clockAside /\ callbacksAside
  /\ UNCHANGED <<choice, saved, saves, wasted, faults>>

restoreDiscovery_MutForgets(s) ==
  /\ sel[s] = "restore"
  /\ sel' = [sel EXCEPT ![s] = "over"]
  /\ clockAside /\ callbacksAside
  /\ UNCHANGED <<choice, discovery, saved, saves, wasted, faults>>

\* the database failed: SET NX with what is left of the fifteen minutes; the SET may
\* fail as well, and then the session is lost
restoreDiscovery(s) ==
  /\ sel[s] = "restore"
  /\ sel' = [sel EXCEPT ![s] = "over"]
  /\ \/ /\ discovery' = IF discovery = 0 THEN remainingTtl ELSE discovery
        /\ UNCHANGED <<wasted, faults>>
     \/ remainingTtl > 0 /\ Fault /\ wasted' = TRUE /\ UNCHANGED discovery
  /\ clockAside /\ callbacksAside
  /\ UNCHANGED <<choice, saved, saves>>

SelectionStep(s) ==
  \/ selectionReads(s) \/ claimDiscovery(s) \/ verifyChoice(s)
  \/ upsertManyWithConnection(s) \/ restoreDiscovery(s)

-----------------------------------------------------------------------------

\* the API process dies: what its requests held in memory is gone
crash ==
  /\ Fault
  /\ cb' = [c \in Callbacks |-> IF cb[c] = "idle" THEN "idle" ELSE "over"]
  /\ sel' = [s \in Selections |-> IF sel[s] = "idle" THEN "idle" ELSE "over"]
  /\ wasted' = TRUE
  /\ clockAside
  /\ UNCHANGED <<stateKey, code, offered, choice, discovery, saved, saves>>

\* time passes, and keys with it
tick ==
  /\ now < MaxTime /\ now' = now + 1
  /\ stateKey' = IF stateKey > 0 THEN stateKey - 1 ELSE 0
  /\ discovery' = IF discovery > 0 THEN discovery - 1 ELSE 0
  /\ UNCHANGED <<createdAt, code, cb, offered, sel, choice, saved, saves, wasted, faults>>

Next ==
  \/ generateAuthUrl \/ crash \/ tick
  \/ \E c \in Callbacks : CallbackStep(c)
  \/ \E s \in Selections : SelectionStep(s)

Spec == Init /\ [][Next]_oauthVars

-----------------------------------------------------------------------------

\* One consent ends in at most one transaction that stores accounts: callbacks that
\* share a state, selections that share a session and the retry after a failure of
\* the database included.  The claim script is what ensures it for a session.
ConnectedOnce == saves <= 1

\* A session put back after a failure keeps its deadline: its tokens are in Redis for
\* fifteen minutes after the consent, however often the selection is retried.
SessionKeepsDeadline == discovery > 0 => now + discovery <= createdAt + DiscoveryTtl

\* A selection that fails in the database costs the user nothing: when no selection is
\* under way, a session that led to no account, and was not lost outside the
\* transaction, is there until its deadline.
FailedSelectionCanBeRetried ==
  (/\ Cardinality(offered) > 1 /\ \A c \in Callbacks : cb[c] # "store"
   /\ \A s \in Selections : sel[s] \in {"idle", "claim", "over"}
   /\ saves = 0 /\ ~wasted /\ now < createdAt + DiscoveryTtl)
  => discovery > 0
=============================================================================
