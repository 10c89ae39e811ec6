----------------------------- MODULE OAuthProofs -----------------------------
(***************************************************************************)
(* One consent stores accounts at most once, and its discovery session     *)
(* keeps its deadline, for any number of callbacks, selections, profiles   *)
(* and faults.                                                             *)
(*                                                                         *)
(* The right to store accounts is a token that is in one place at a time:  *)
(* the authorization code, a callback past the exchange, the key in Redis, *)
(* or a selection past the claim.                                          *)
(***************************************************************************)
EXTENDS OAuthFlow, FiniteSetTheorems, TLAPS

\* the callbacks and the selections that may still store accounts
HoldingCallbacks == {c \in Callbacks : cb[c] \in {"profiles", "store", "save"}}
HoldingSelections == {s \in Selections : sel[s] \in {"verify", "save", "restore"}}

\* the code is taken once, and by one callback
CodeFirst ==
  /\ code # "used" => HoldingCallbacks = {} /\ HoldingSelections = {}
                      /\ discovery = 0 /\ saves = 0
  /\ \A c, d \in HoldingCallbacks : c = d

\* a callback that holds the right comes before the session, and the session before
\* the selection that claims it
OneHolder ==
  /\ HoldingCallbacks # {} => HoldingSelections = {} /\ discovery = 0 /\ saves = 0
  /\ discovery > 0 => HoldingSelections = {} /\ saves = 0
  /\ \A s, t \in HoldingSelections : s = t
  /\ HoldingSelections # {} => saves = 0

\* a session that led to nothing, and that nobody wasted, is in Redis until exactly its
\* deadline or with the selection that claimed it
SessionAccounted ==
  (/\ Cardinality(offered) > 1 /\ \A c \in Callbacks : cb[c] # "store"
   /\ saves = 0 /\ ~wasted /\ now < createdAt + DiscoveryTtl)
  => \/ discovery > 0 /\ now + discovery = createdAt + DiscoveryTtl
     \/ HoldingSelections # {}

\* The inductive invariant of the connect flow.
ConsentInv == CodeFirst /\ OneHolder /\ ConnectedOnce /\ SessionKeepsDeadline /\ SessionAccounted

-----------------------------------------------------------------------------
(* Types                                                                   *)

\* A callback writes its pc, the keys and the stored profiles.
LEMMA CallbackTypes ==
  ASSUME TypeOK, NEW c \in Callbacks, CallbackStep(c)
  PROVE  TypeOK'
<1> USE OAuthAssumption DEF TypeOK, CallbackPcs, clockAside, selectionsAside
<1>1. CASE callbackReads(c)
  BY <1>1 DEF callbackReads
<1>2. CASE callbackDeletes(c)
  BY <1>2 DEF callbackDeletes
<1>3. CASE exchangeAuthorizationCode(c)
  BY <1>3 DEF exchangeAuthorizationCode, Fault
<1>4. CASE getProfiles(c)
  <2>1. offered' \in SUBSET Profiles
    BY <1>4 DEF getProfiles, providerProfiles
  <2>2. cb' \in [Callbacks -> CallbackPcs]
    BY <1>4 DEF getProfiles
  <2> QED BY <1>4, <2>1, <2>2 DEF getProfiles
<1>5. CASE storeDiscovery(c)
  <2>1. wasted' \in BOOLEAN
    BY <1>5, Zenon DEF storeDiscovery
  <2>2. /\ cb' = [cb EXCEPT ![c] = "over"] /\ createdAt' = now
        /\ discovery' \in {DiscoveryTtl, discovery} /\ faults' \in {faults, faults + 1}
        /\ UNCHANGED <<now, stateKey, code, offered, sel, choice, saved, saves>>
    BY <1>5, Zenon DEF storeDiscovery, Fault
  <2> QED BY <2>1, <2>2
<1>6. CASE callbackSaves(c)
  BY <1>6 DEF callbackSaves, Fault
<1> QED BY <1>1, <1>2, <1>3, <1>4, <1>5, <1>6 DEF CallbackStep

\* A selection writes its pc, its choice and the session key.
LEMMA SelectionTypes ==
  ASSUME TypeOK, NEW s \in Selections, SelectionStep(s)
  PROVE  TypeOK'
<1> USE OAuthAssumption DEF TypeOK, SelectionPcs, clockAside, callbacksAside
<1>1. CASE selectionReads(s)
  BY <1>1 DEF selectionReads
<1>2. CASE claimDiscovery(s)
  BY <1>2 DEF claimDiscovery
<1>3. CASE verifyChoice(s)
  <2>1. wasted' \in BOOLEAN
    BY <1>3, Zenon DEF verifyChoice
  <2>2. /\ \E x \in {"save", "over"} : sel' = [sel EXCEPT ![s] = x]
        /\ faults' \in {faults, faults + 1}
        /\ UNCHANGED <<now, createdAt, stateKey, code, cb, offered, choice, discovery, saved,
                       saves>>
    BY <1>3, Zenon DEF verifyChoice, Fault
  <2> QED BY <2>1, <2>2
<1>4. CASE upsertManyWithConnection(s)
  BY <1>4 DEF upsertManyWithConnection, Fault
<1>5. CASE restoreDiscovery(s)
  <2>1. wasted' \in BOOLEAN
    BY <1>5, Zenon DEF restoreDiscovery
  <2>2. /\ sel' = [sel EXCEPT ![s] = "over"] /\ faults' \in {faults, faults + 1}
        /\ UNCHANGED <<now, createdAt, stateKey, code, cb, offered, choice, saved, saves>>
    BY <1>5, Zenon DEF restoreDiscovery, Fault
  <2>3. discovery' = discovery \/ discovery' = remainingTtl
    BY <1>5, Zenon DEF restoreDiscovery
  <2> QED BY <2>1, <2>2, <2>3 DEF remainingTtl
<1> QED BY <1>1, <1>2, <1>3, <1>4, <1>5 DEF SelectionStep

\* Every step of the connect flow keeps the types.
LEMMA OAuthTypesStep ==
  ASSUME TypeOK, [Next]_oauthVars
  PROVE  TypeOK'
<1>1. CASE generateAuthUrl
  BY <1>1, OAuthAssumption DEF TypeOK, generateAuthUrl, clockAside, selectionsAside
<1>2. CASE crash
  BY <1>2 DEF TypeOK, crash, clockAside, Fault, CallbackPcs, SelectionPcs
<1>3. CASE tick
  BY <1>3, OAuthAssumption DEF TypeOK, tick
<1>4. CASE UNCHANGED oauthVars
  BY <1>4 DEF TypeOK, oauthVars
<1> QED BY <1>1, <1>2, <1>3, <1>4, CallbackTypes, SelectionTypes DEF Next

-----------------------------------------------------------------------------
(* The invariant                                                           *)

\* Before generateAuthUrl nobody holds anything.
LEMMA OAuthInit == Init => TypeOK /\ ConsentInv
<1> SUFFICES ASSUME Init PROVE TypeOK /\ ConsentInv
  OBVIOUS
<1>1. TypeOK
  <2>1. cb \in [Callbacks -> CallbackPcs] /\ sel \in [Selections -> SelectionPcs]
    BY DEF Init, CallbackPcs, SelectionPcs
  <2>2. choice \in [Selections -> SUBSET Profiles]
    BY DEF Init
  <2>3. wasted \in BOOLEAN
    BY Zenon DEF Init
  <2>4. stateKey \in 0..StateTtl
    BY OAuthAssumption DEF Init
  <2> QED BY <2>1, <2>2, <2>3, <2>4 DEF Init, TypeOK
<1>2. HoldingCallbacks = {} /\ HoldingSelections = {}
  BY DEF Init, HoldingCallbacks, HoldingSelections
<1>3. Cardinality(offered) = 0
  BY FS_EmptySet DEF Init
<1> QED BY <1>1, <1>2, <1>3
        DEF Init, ConsentInv, CodeFirst, OneHolder, ConnectedOnce, SessionKeepsDeadline,
            SessionAccounted

\* The steps of a callback before it holds the right, and the refused ones, move no right.
LEMMA CallbackWithoutRight ==
  ASSUME TypeOK, ConsentInv, NEW c \in Callbacks,
         callbackReads(c) \/ callbackDeletes(c)
  PROVE  ConsentInv'
<1>1. cb[c] \notin {"profiles", "store", "save"} /\ cb'[c] \notin {"profiles", "store", "save"}
  BY DEF callbackReads, callbackDeletes, TypeOK
<1>2. HoldingCallbacks' = HoldingCallbacks /\ HoldingSelections' = HoldingSelections
  BY <1>1 DEF callbackReads, callbackDeletes, TypeOK, HoldingCallbacks, HoldingSelections,
              selectionsAside
<1>3. \A d \in Callbacks : cb'[d] = "store" <=> cb[d] = "store"
  BY <1>1 DEF callbackReads, callbackDeletes, TypeOK
<1> QED BY <1>2, <1>3
        DEF callbackReads, callbackDeletes, clockAside, selectionsAside, ConsentInv, CodeFirst,
            OneHolder, ConnectedOnce, SessionKeepsDeadline, SessionAccounted

\* exchangeAuthorizationCode: the code is taken by the first callback to bring it.
LEMMA ExchangeKeeps ==
  ASSUME TypeOK, ConsentInv, NEW c \in Callbacks, exchangeAuthorizationCode(c)
  PROVE  ConsentInv'
<1> USE DEF ConsentInv, CodeFirst, OneHolder, ConnectedOnce, SessionKeepsDeadline
<1>1. /\ HoldingSelections' = HoldingSelections
      /\ UNCHANGED <<now, createdAt, discovery, saves, offered, wasted>>
  BY DEF exchangeAuthorizationCode, clockAside, selectionsAside, HoldingSelections
<1>2. \A d \in Callbacks : cb'[d] = "store" <=> cb[d] = "store"
  BY DEF exchangeAuthorizationCode, TypeOK
<1>3. SessionAccounted'
  BY <1>1, <1>2 DEF SessionAccounted
<1>4. CASE code = "issued" /\ code' = "used"
  <2>1. HoldingCallbacks' \subseteq {c}
    BY <1>4 DEF exchangeAuthorizationCode, TypeOK, HoldingCallbacks
  <2> QED BY <1>1, <1>3, <1>4, <2>1
<1>5. CASE code' = code
  <2>1. HoldingCallbacks' = HoldingCallbacks
    BY <1>5 DEF exchangeAuthorizationCode, TypeOK, HoldingCallbacks
  <2> QED BY <1>1, <1>3, <1>5, <2>1
<1> QED BY <1>4, <1>5 DEF exchangeAuthorizationCode

\* getProfiles: several profiles take the callback on to storeDiscovery.
LEMMA ProfilesKeep ==
  ASSUME TypeOK, ConsentInv, NEW c \in Callbacks, getProfiles(c)
  PROVE  ConsentInv'
<1> USE DEF ConsentInv, CodeFirst, OneHolder, ConnectedOnce, SessionKeepsDeadline
<1>1. /\ HoldingSelections' = HoldingSelections
      /\ UNCHANGED <<now, createdAt, discovery, saves, wasted, code>>
  BY DEF getProfiles, clockAside, selectionsAside, HoldingSelections
<1>2. c \in HoldingCallbacks /\ HoldingCallbacks' \subseteq HoldingCallbacks
  BY DEF getProfiles, HoldingCallbacks, TypeOK
<1>3. ASSUME Cardinality(offered') > 1 PROVE cb'[c] = "store"
  <2>1. Cardinality(offered') # 1 /\ Cardinality({}) = 0
    BY <1>3, FS_EmptySet
  <2>2. offered' # {}
    BY <1>3, <2>1
  <2> QED BY <2>1, <2>2 DEF getProfiles, TypeOK
<1>4. SessionAccounted'
  BY <1>3 DEF SessionAccounted
<1> QED BY <1>1, <1>2, <1>4

\* storeDiscovery: the right passes to the key, whose time begins now, or is lost.
LEMMA StoreKeeps ==
  ASSUME TypeOK, ConsentInv, NEW c \in Callbacks, storeDiscovery(c)
  PROVE  ConsentInv'
<1>0. discovery' = DiscoveryTtl \/ (wasted' = TRUE /\ discovery' = discovery)
  BY Zenon DEF storeDiscovery
<1> USE DEF ConsentInv, CodeFirst, OneHolder, ConnectedOnce, SessionKeepsDeadline
<1>1. /\ HoldingSelections' = HoldingSelections
      /\ UNCHANGED <<now, saves, code, offered>> /\ createdAt' = now
  BY DEF storeDiscovery, HoldingSelections
<1>2. c \in HoldingCallbacks /\ HoldingCallbacks' = HoldingCallbacks \ {c}
  BY DEF storeDiscovery, HoldingCallbacks, TypeOK
<1>3. HoldingCallbacks' = {} /\ HoldingSelections = {} /\ saves = 0 /\ discovery = 0
  BY <1>2
<1>4. DiscoveryTtl \in Nat /\ DiscoveryTtl > 0
  BY OAuthAssumption
<1>5. CASE discovery' = DiscoveryTtl
  <2>1. now + discovery' = createdAt' + DiscoveryTtl
    BY <1>1, <1>5
  <2> QED BY <1>1, <1>2, <1>3, <1>4, <1>5, <2>1 DEF SessionAccounted, TypeOK
<1>6. CASE wasted' = TRUE /\ discovery' = discovery
  BY <1>1, <1>2, <1>3, <1>6 DEF SessionAccounted, TypeOK
<1> QED BY <1>0, <1>5, <1>6

\* callbackSaves: the right is used, or lost with the request.
LEMMA CallbackSavesKeeps ==
  ASSUME TypeOK, ConsentInv, NEW c \in Callbacks, callbackSaves(c)
  PROVE  ConsentInv'
<1> USE DEF ConsentInv, CodeFirst, OneHolder, ConnectedOnce, SessionKeepsDeadline
<1>1. /\ HoldingSelections' = HoldingSelections
      /\ UNCHANGED <<now, createdAt, discovery, wasted, code, offered>>
      /\ saves' \in {saves, saves + 1}
  BY DEF callbackSaves, clockAside, selectionsAside, HoldingSelections
<1>2. c \in HoldingCallbacks /\ HoldingCallbacks' = HoldingCallbacks \ {c}
  BY DEF callbackSaves, HoldingCallbacks, TypeOK
<1>3. HoldingCallbacks' = {} /\ saves = 0 /\ HoldingSelections = {} /\ discovery = 0
  BY <1>2
<1>4. \A d \in Callbacks : cb'[d] = "store" <=> cb[d] = "store"
  BY DEF callbackSaves, TypeOK
<1>5. SessionAccounted'
  BY <1>1, <1>3, <1>4 DEF SessionAccounted
<1>6. code' = "used"
  BY <1>1, <1>2
<1> QED BY <1>1, <1>3, <1>5, <1>6

\* A selection changes the key, its pc and the stored accounts, and no callback.
LEMMA SelectionKeeps ==
  ASSUME TypeOK, ConsentInv, NEW s \in Selections, SelectionStep(s)
  PROVE  ConsentInv'
<1> USE DEF ConsentInv, CodeFirst, OneHolder, ConnectedOnce, SessionKeepsDeadline
<1>0. /\ HoldingCallbacks' = HoldingCallbacks
      /\ UNCHANGED <<now, createdAt, code, offered, cb>>
  BY DEF SelectionStep, selectionReads, claimDiscovery, verifyChoice, upsertManyWithConnection,
         restoreDiscovery, clockAside, callbacksAside, HoldingCallbacks
<1>1. CASE selectionReads(s)
  <2>1. HoldingSelections' = HoldingSelections
    BY <1>1 DEF selectionReads, HoldingSelections, TypeOK
  <2> QED BY <1>0, <1>1, <2>1 DEF selectionReads, SessionAccounted
<1>2. CASE claimDiscovery(s)
  <2>1. CASE discovery > 0
    <3>1. discovery' = 0 /\ HoldingSelections' = HoldingSelections \cup {s}
      BY <1>2, <2>1 DEF claimDiscovery, HoldingSelections, TypeOK
    <3>2. HoldingSelections' = {s} /\ saves' = 0 /\ code' = "used" /\ HoldingCallbacks = {}
      BY <1>0, <1>2, <2>1, <3>1 DEF claimDiscovery, TypeOK
    <3> QED BY <1>0, <3>1, <3>2 DEF SessionAccounted
  <2>2. CASE discovery = 0
    <3>1. HoldingSelections' = HoldingSelections /\ UNCHANGED <<discovery, saves, wasted>>
      BY <1>2, <2>2 DEF claimDiscovery, HoldingSelections, TypeOK
    <3> QED BY <1>0, <3>1 DEF SessionAccounted
  <2> QED BY <2>1, <2>2 DEF TypeOK
<1>3. CASE verifyChoice(s)
  <2>1. CASE sel'[s] = "save"
    <3>1. HoldingSelections' = HoldingSelections /\ UNCHANGED <<discovery, saves, wasted>>
      BY <1>3, <2>1 DEF verifyChoice, HoldingSelections, TypeOK
    <3> QED BY <1>0, <3>1 DEF SessionAccounted
  <2>2. CASE sel'[s] = "over"
    <3>1. HoldingSelections' \subseteq HoldingSelections /\ UNCHANGED <<discovery, saves>>
      BY <1>3, <2>2 DEF verifyChoice, HoldingSelections, TypeOK
    <3>2. wasted'
      BY <1>3, <2>2 DEF verifyChoice, TypeOK
    <3> QED BY <1>0, <3>1, <3>2 DEF SessionAccounted
  <2> QED BY <1>3, <2>1, <2>2 DEF verifyChoice, TypeOK
<1>4. CASE upsertManyWithConnection(s)
  <2>0. s \in HoldingSelections /\ UNCHANGED <<discovery, wasted>>
    BY <1>4 DEF upsertManyWithConnection, HoldingSelections
  <2>1. CASE sel'[s] = "over" /\ saves' = saves + 1
    <3>1. HoldingSelections' = HoldingSelections \ {s}
      BY <1>4, <2>1 DEF upsertManyWithConnection, HoldingSelections, TypeOK
    <3>2. HoldingSelections' = {} /\ saves' = 1 /\ discovery = 0 /\ HoldingCallbacks = {}
      BY <2>0, <2>1, <3>1 DEF TypeOK
    <3> QED BY <1>0, <2>0, <3>2 DEF SessionAccounted
  <2>2. CASE sel'[s] = "restore" /\ saves' = saves
    <3>1. HoldingSelections' = HoldingSelections
      BY <1>4, <2>2 DEF upsertManyWithConnection, HoldingSelections, TypeOK
    <3> QED BY <1>0, <2>0, <2>2, <3>1 DEF SessionAccounted
  <2> QED BY <1>4, <2>1, <2>2 DEF upsertManyWithConnection, TypeOK
<1>5. CASE restoreDiscovery(s)
  <2>1. s \in HoldingSelections /\ HoldingSelections' = HoldingSelections \ {s}
    BY <1>5 DEF restoreDiscovery, HoldingSelections, TypeOK
  <2>2. /\ HoldingSelections' = {} /\ saves = 0 /\ discovery = 0 /\ HoldingCallbacks = {}
        /\ code = "used"
    BY <2>1 DEF TypeOK
  <2>3. /\ saves' = saves
        /\ discovery' = remainingTtl \/ (wasted' = TRUE /\ discovery' = discovery)
    <3>1. \/ discovery' = IF discovery = 0 THEN remainingTtl ELSE discovery
          \/ (wasted' = TRUE /\ discovery' = discovery)
      BY <1>5, Zenon DEF restoreDiscovery
    <3> QED BY <1>5, <2>2, <3>1 DEF restoreDiscovery
  <2>4. /\ remainingTtl > 0 => now + remainingTtl = createdAt + DiscoveryTtl
        /\ now < createdAt + DiscoveryTtl => remainingTtl > 0
    BY OAuthAssumption DEF TypeOK, remainingTtl
  <2> QED BY <1>0, <2>2, <2>3, <2>4, OAuthAssumption DEF SessionAccounted, TypeOK
<1> QED BY <1>1, <1>2, <1>3, <1>4, <1>5 DEF SelectionStep

\* Every step of the connect flow keeps the invariant.
LEMMA ConsentStep ==
  ASSUME TypeOK, ConsentInv, [Next]_oauthVars
  PROVE  ConsentInv'
<1>1. CASE generateAuthUrl
  <2>1. HoldingCallbacks' = HoldingCallbacks /\ HoldingSelections' = HoldingSelections
    BY <1>1 DEF generateAuthUrl, selectionsAside, HoldingCallbacks, HoldingSelections
  <2> QED BY <1>1, <2>1
          DEF generateAuthUrl, clockAside, selectionsAside, ConsentInv, CodeFirst, OneHolder,
              ConnectedOnce, SessionKeepsDeadline, SessionAccounted
<1>2. CASE crash
  <2>1. HoldingCallbacks' = {} /\ HoldingSelections' = {}
    BY <1>2 DEF crash, HoldingCallbacks, HoldingSelections
  <2> QED BY <1>2, <2>1
          DEF crash, clockAside, ConsentInv, CodeFirst, OneHolder, ConnectedOnce,
              SessionKeepsDeadline, SessionAccounted
<1>3. CASE tick
  <2>1. HoldingCallbacks' = HoldingCallbacks /\ HoldingSelections' = HoldingSelections
    BY <1>3 DEF tick, HoldingCallbacks, HoldingSelections
  <2>2. /\ discovery' > 0 => discovery > 0
        /\ discovery' > 0 => now' + discovery' = now + discovery
        /\ discovery = 0 => discovery' = 0
    BY <1>3 DEF tick, TypeOK
  <2>3. CodeFirst' /\ OneHolder' /\ ConnectedOnce'
    BY <1>3, <2>1, <2>2 DEF tick, ConsentInv, CodeFirst, OneHolder, ConnectedOnce
  <2>4. SessionKeepsDeadline'
    BY <1>3, <2>2, OAuthAssumption DEF tick, TypeOK, ConsentInv, SessionKeepsDeadline
  <2>5. SessionAccounted'
    <3>1. now' = now + 1 /\ UNCHANGED <<createdAt, offered, cb, saves, wasted>>
      BY <1>3 DEF tick
    <3>2. now' < createdAt + DiscoveryTtl => now < createdAt + DiscoveryTtl
      BY <3>1, OAuthAssumption DEF TypeOK
    <3>3. /\ discovery > 0 /\ now + discovery = createdAt + DiscoveryTtl
          /\ now' < createdAt + DiscoveryTtl
          => discovery' > 0 /\ now' + discovery' = createdAt + DiscoveryTtl
      BY <1>3, OAuthAssumption DEF tick, TypeOK
    <3> QED BY <2>1, <3>1, <3>2, <3>3 DEF ConsentInv, SessionAccounted
  <2> QED BY <2>3, <2>4, <2>5 DEF ConsentInv
<1>4. CASE UNCHANGED oauthVars
  <2>1. HoldingCallbacks' = HoldingCallbacks /\ HoldingSelections' = HoldingSelections
    BY <1>4 DEF oauthVars, HoldingCallbacks, HoldingSelections
  <2> QED BY <1>4, <2>1
          DEF oauthVars, ConsentInv, CodeFirst, OneHolder, ConnectedOnce, SessionKeepsDeadline,
              SessionAccounted
<1> QED BY <1>1, <1>2, <1>3, <1>4, CallbackWithoutRight, ExchangeKeeps, ProfilesKeep, StoreKeeps,
           CallbackSavesKeeps, SelectionKeeps DEF Next, CallbackStep

\* The variables of the connect flow keep their types.
THEOREM OAuthTypeCorrect == Spec => []TypeOK
<1>1. TypeOK /\ [Next]_oauthVars => TypeOK'
  BY OAuthTypesStep
<1> QED BY OAuthInit, <1>1, PTL DEF Spec

\* The right to store accounts of a consent is in one place at a time: what the code,
\* the claim script and the SET NX of the restore ensure together.
THEOREM ConsentInvariant == Spec => []ConsentInv
<1>1. TypeOK /\ ConsentInv /\ [Next]_oauthVars => ConsentInv'
  BY ConsentStep
<1> QED BY OAuthInit, <1>1, OAuthTypeCorrect, PTL DEF Spec

\* handleOAuthCallback and processDiscoverySelection store the accounts of one consent
\* in at most one transaction, however often the two URLs are requested.
THEOREM ConsentConnectsOnce == Spec => []ConnectedOnce
<1>1. ConsentInv => ConnectedOnce
  BY DEF ConsentInv
<1> QED BY ConsentInvariant, <1>1, PTL

\* restoreDiscovery never extends the time the tokens of a consent are in Redis.
THEOREM DeadlineKept == Spec => []SessionKeepsDeadline
<1>1. ConsentInv => SessionKeepsDeadline
  BY DEF ConsentInv
<1> QED BY ConsentInvariant, <1>1, PTL

\* A selection that failed in the database leaves the session for another one.
THEOREM SelectionRetries == Spec => []FailedSelectionCanBeRetried
<1>1. ConsentInv => FailedSelectionCanBeRetried
  <2>1. (\A s \in Selections : sel[s] \in {"idle", "claim", "over"}) => HoldingSelections = {}
    BY DEF HoldingSelections
  <2> QED BY <2>1 DEF ConsentInv, SessionAccounted, FailedSelectionCanBeRetried
<1> QED BY ConsentInvariant, <1>1, PTL
=============================================================================
