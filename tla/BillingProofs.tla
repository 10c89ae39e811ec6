---------------------------- MODULE BillingProofs ----------------------------
(***************************************************************************)
(* Billing for any number of workspaces, requests, events, deliveries,     *)
(* scans and failures: an event takes effect once, invoices are numbered   *)
(* without a gap, concurrent claims do not oversell the founding tier, and *)
(* the trial scan takes nothing that is paid.                              *)
(***************************************************************************)
EXTENDS Billing, FiniteSetTheorems, TLAPS

\* the statuses in which a founding subscription holds its seat
Seated == {"ACTIVE", "TRIAL", "PAST_DUE"}

\* the requests inside the transaction of claimFoundingSubscription
Claiming == {"claim", "claimSave"}

\* the plan row is locked by exactly the request inside that transaction
LockHeld == \A w \in Workspaces : req[w].at \in Claiming <=> planLock = w

\* until a founding subscription lapses, founding means seated
FoundersAreSeated ==
  ~lapsed => \A w \in Workspaces : sub[w].isFounding => sub[w].status \in Seated

\* ... the tier is not oversold, and has a seat left for the request that holds the lock
SeatsLeft ==
  ~lapsed => /\ IsFiniteSet(Claimed)
             /\ Cardinality(Claimed) <= MaxSeats
             /\ planLock # NoOne => Cardinality(Claimed) < MaxSeats

\* the lock on a WebhookEvent row: an event is in one transaction at a time, which has
\* seen that it is not processed
EventLocked ==
  \A h \in Handlers : tx[h].open =>
    /\ handler[h] # 0 /\ row[handler[h]] # "processed"
    /\ \A g \in Handlers : tx[g].open /\ handler[g] = handler[h] => g = h

\* The inductive invariant of the founding tier.
SeatInv == LockHeld /\ FoundersAreSeated /\ SeatsLeft

-----------------------------------------------------------------------------
(* Types                                                                   *)

\* Each request of a workspace leaves its request record well formed.
LEMMA RequestRecords ==
  ASSUME TypeOK, NEW w \in Workspaces, RequestStep(w)
  PROVE  req' \in [Workspaces -> Requests]
<1>0. req \in [Workspaces -> Requests] /\ sub \in [Workspaces -> Subscriptions] /\ remotes \in Nat
  BY DEF TypeOK
<1>1. CASE createRemote(w)
  <2>1. NoRequest \in Requests /\ remotes + 1 \in Nat
    BY <1>0 DEF Requests, NoRequest, Statuses
  <2>2. ASSUME NEW n \in Nat PROVE [NoRequest EXCEPT !.at = "save", !.remote = n] \in Requests
    BY <2>1 DEF Requests
  <2> QED BY <1>0, <1>1, <2>1, <2>2 DEF createRemote
<1>2. CASE saveSubscription(w) \/ claimCommits(w) \/ cancelWrites(w)
  <2>1. NoRequest \in Requests
    BY DEF Requests, NoRequest, Statuses
  <2> QED BY <1>0, <1>2, <2>1 DEF saveSubscription, claimCommits, cancelWrites
<1>3. CASE claimBegins(w)
  <2>1. [NoRequest EXCEPT !.at = "lock"] \in Requests
    BY DEF Requests, NoRequest, Statuses
  <2> QED BY <1>0, <1>3, <2>1 DEF claimBegins
<1>4. CASE lockAndCount(w)
  <2>1. [req[w] EXCEPT !.at = "claim"] \in Requests /\ NoRequest \in Requests
    BY <1>0 DEF Requests, NoRequest, Statuses
  <2>2. \/ req' = [req EXCEPT ![w] = [req[w] EXCEPT !.at = "claim"]]
        \/ req' = [req EXCEPT ![w] = NoRequest]
    BY <1>4 DEF lockAndCount
  <2> QED BY <1>0, <2>1, <2>2
<1>5. CASE claimRemote(w)
  <2>1. NoRequest \in Requests /\ req[w] \in Requests /\ remotes + 1 \in Nat
    BY <1>0 DEF Requests, NoRequest, Statuses
  <2>2. ASSUME NEW n \in Nat PROVE [req[w] EXCEPT !.at = "claimSave", !.remote = n] \in Requests
    BY <2>1 DEF Requests
  <2> QED BY <1>0, <1>5, <2>1, <2>2 DEF claimRemote
<1>6. CASE cancelReads(w)
  <2>1. sub[w].status \in Statuses
    BY <1>0 DEF Subscriptions
  <2>2. [NoRequest EXCEPT !.at = "cancel", !.status = sub[w].status] \in Requests
    BY <2>1 DEF Requests, NoRequest
  <2> QED BY <1>0, <1>6, <2>2 DEF cancelReads
<1> QED BY <1>1, <1>2, <1>3, <1>4, <1>5, <1>6 DEF RequestStep

\* ... and the subscription row.
LEMMA RequestRows ==
  ASSUME TypeOK, NEW w \in Workspaces, RequestStep(w)
  PROVE  sub' \in [Workspaces -> Subscriptions]
<1>0. /\ sub \in [Workspaces -> Subscriptions] /\ req[w] \in Requests
      /\ sub[w] \in Subscriptions
  BY DEF TypeOK
<1>1. req[w].remote \in Nat /\ req[w].status \in Statuses
  BY <1>0 DEF Requests
<1>2. ASSUME NEW founding \in BOOLEAN
      PROVE  subscribed(w, founding) \in [Workspaces -> Subscriptions]
  <2>1. [sub[w] EXCEPT !.status = "TRIAL", !.remote = req[w].remote, !.isFounding = founding]
          \in Subscriptions
    BY <1>0, <1>1 DEF Subscriptions, Statuses
  <2> QED BY <1>0, <2>1 DEF subscribed
<1>3. CASE saveSubscription(w) \/ claimCommits(w)
  BY <1>0, <1>2, <1>3 DEF saveSubscription, claimCommits
<1>4. CASE cancelWrites(w)
  <2>1. PICK status \in {req[w].status, "CANCELLED"} :
          sub' = [sub EXCEPT ![w].isFounding = FALSE, ![w].status = status]
    BY <1>4 DEF cancelWrites
  <2>2. [sub[w] EXCEPT !.isFounding = FALSE, !.status = status] \in Subscriptions
    BY <1>0, <1>1 DEF Subscriptions, Statuses
  <2> QED BY <1>0, <2>1, <2>2
<1>5. CASE sub' = sub
  BY <1>0, <1>5
<1> QED BY <1>3, <1>4, <1>5
        DEF RequestStep, createRemote, claimBegins, lockAndCount, claimRemote, cancelReads

\* A request writes nothing else but the lock and counters.
LEMMA RequestTypes ==
  ASSUME TypeOK, NEW w \in Workspaces, RequestStep(w)
  PROVE  TypeOK'
<1>1. req' \in [Workspaces -> Requests] /\ sub' \in [Workspaces -> Subscriptions]
  BY RequestRecords, RequestRows
<1>2. /\ UNCHANGED <<events, row, applied, handler, tx, invoices, sequence, lapsed, scan>>
      /\ planLock' \in {planLock, w, NoOne}
      /\ asked' \in {asked, asked + 1} /\ remotes' \in {remotes, remotes + 1}
      /\ upsets' \in {upsets, upsets + 1}
  BY DEF RequestStep, createRemote, saveSubscription, claimBegins, lockAndCount, claimRemote,
         claimCommits, cancelReads, cancelWrites, request, unlock, Upset, webhooksAside, scanAside
<1>3. asked' \in Nat /\ remotes' \in Nat /\ upsets' \in Nat /\ planLock' \in Workspaces \cup {NoOne}
  BY <1>2 DEF TypeOK
<1> QED BY <1>1, <1>2, <1>3 DEF TypeOK

\* the switch over event.event yields a subscription row
LEMMA AppliedType ==
  ASSUME NEW s \in Subscriptions, NEW e \in DOMAIN events, NEW hasEnd \in BOOLEAN,
         events \in Seq(Events)
  PROVE  applyEvent(s, e, hasEnd) \in Subscriptions
<1>1. events[e].kind \in Kinds
  <2>1. events[e] \in Events
    OBVIOUS
  <2> QED BY <2>1 DEF Events
<1>2. currentPeriodEnd(s, hasEnd) \in {"unset", "running", "over"}
  BY DEF currentPeriodEnd, Subscriptions
<1> HIDE DEF currentPeriodEnd
<1> QED BY <1>1, <1>2 DEF applyEvent, Kinds, Subscriptions, Statuses

\* Razorpay and a delivery keep the types.
LEMMA WebhookTypes ==
  ASSUME TypeOK, NEW h \in Handlers, WebhookStep(h)
  PROVE  TypeOK'
<1> USE DEF TypeOK, requestsAside, scanAside
<1>1. CASE razorpayDelivers(h)
  <2>1. PICK r \in 1..remotes, kind \in Kinds :
          \E payment \in IF kind = "charged" THEN payments \cup {Len(events) + 1} ELSE {0} :
            events' = Append(events, [kind |-> kind, remote |-> r, payment |-> payment])
    BY <1>1 DEF razorpayDelivers
  <2>2. PICK payment \in IF kind = "charged" THEN payments \cup {Len(events) + 1} ELSE {0} :
            events' = Append(events, [kind |-> kind, remote |-> r, payment |-> payment])
    BY <2>1
  <2>3. payments \subseteq Nat
    <3>1. \A e \in DOMAIN events : events[e] \in Events
      OBVIOUS
    <3> QED BY <3>1 DEF payments, Events
  <2>4. payment \in Nat /\ r \in Nat
    BY <2>3
  <2>5. [kind |-> kind, remote |-> r, payment |-> payment] \in Events
    BY <2>4 DEF Events
  <2>6. events' \in Seq(Events) /\ Len(events') = Len(events) + 1
    BY <2>2, <2>5
  <2>7. Len(events') <= MaxEvents
    BY <1>1, <2>6, BillingAssumption DEF razorpayDelivers
  <2>8. Len(events) + 1 \in Ids
    BY <2>6, <2>7, BillingAssumption DEF Ids
  <2>9. row' \in [Ids -> {"none", "received", "processed"}]
    BY <1>1, <2>8 DEF razorpayDelivers, receiveEvent
  <2>10. handler' \in [Handlers -> 0..Len(events')]
    BY <1>1, <2>6 DEF razorpayDelivers, receiveEvent
  <2> QED BY <1>1, <2>6, <2>7, <2>9, <2>10 DEF razorpayDelivers, receiveEvent
<1>2. ASSUME NEW e \in DOMAIN events, receiveEvent(h, e), UNCHANGED events PROVE TypeOK'
  <2>1. e \in Ids
    BY <1>2, BillingAssumption DEF Ids
  <2> QED BY <1>2, <2>1 DEF receiveEvent
<1>3. CASE findSubscription(h)
  <2>0. tx \in [Handlers -> Transactions] /\ handler \in [Handlers -> 0..Len(events)]
    OBVIOUS
  <2>1. tx' \in [Handlers -> Transactions]
    <3>1. Targets(handler[h]) \in SUBSET Workspaces
      BY DEF Targets
    <3>2. [open |-> TRUE, targets |-> Targets(handler[h])] \in Transactions
      BY <3>1 DEF Transactions
    <3>3. \/ tx' = tx
          \/ tx' = [tx EXCEPT ![h] = [open |-> TRUE, targets |-> Targets(handler[h])]]
      BY <1>3 DEF findSubscription
    <3> HIDE DEF TypeOK
    <3> QED BY <2>0, <3>2, <3>3
  <2>2. handler' \in [Handlers -> 0..Len(events)]
    <3>1. handler' = handler \/ handler' = [handler EXCEPT ![h] = 0]
      BY <1>3 DEF findSubscription
    <3>2. Len(events) \in Nat
      OBVIOUS
    <3> HIDE DEF TypeOK
    <3> QED BY <2>0, <3>1, <3>2
  <2> QED BY <1>3, <2>1, <2>2 DEF findSubscription
<1>4. CASE processEvent(h)
  <2>0. tx' \in [Handlers -> Transactions]
    BY <1>4 DEF processEvent, Transactions, NoTransaction
  <2>1. CASE commitEvent(handler[h], tx[h].targets)
    <3> DEFINE e == handler[h]
    <3>1. e \in DOMAIN events /\ e \in Ids
      BY <1>4, BillingAssumption DEF processEvent, Ids
    <3>2. sub' \in [Workspaces -> Subscriptions]
      <4>1. PICK hasEnd \in BOOLEAN :
              sub' = [w \in Workspaces |-> IF w \in tx[h].targets
                                           THEN applyEvent(sub[w], e, hasEnd) ELSE sub[w]]
        BY <2>1 DEF commitEvent
      <4>2. \A w \in Workspaces : applyEvent(sub[w], e, hasEnd) \in Subscriptions
        BY <3>1, AppliedType
      <4> HIDE DEF e
      <4> QED BY <4>1, <4>2
    <3>3. invoices' \in SUBSET [number : Nat, payment : Nat] /\ sequence' \in Nat
      <4>0. events[e] \in Events
        BY <3>1
      <4>1. events[e].payment \in Nat
        BY <4>0 DEF Events
      <4>2. recordChargedInvoice(e, tx[h].targets)
        BY <2>1 DEF commitEvent
      <4> HIDE DEF e
      <4> QED BY <4>1, <4>2 DEF recordChargedInvoice
    <3>4. row' \in [Ids -> {"none", "received", "processed"}] /\ applied' \in [Ids -> Nat]
      BY <2>1, <3>1 DEF commitEvent
    <3>5. lapsed' \in BOOLEAN
      BY <2>1, Zenon DEF commitEvent
    <3>6. upsets' \in Nat /\ handler' \in [Handlers -> 0..Len(events)]
      BY <1>4 DEF processEvent, Upset
    <3> QED BY <1>4, <2>0, <3>2, <3>3, <3>4, <3>5, <3>6 DEF processEvent
  <2>2. CASE UNCHANGED <<sub, row, applied, invoices, sequence, lapsed>>
    BY <1>4, <2>0, <2>2 DEF processEvent, Upset
  <2> QED BY <1>4, <2>1, <2>2 DEF processEvent
<1> QED BY <1>1, <1>2, <1>3, <1>4 DEF WebhookStep, razorpayRepeats

\* Every step keeps the types.
LEMMA BillingTypesStep ==
  ASSUME TypeOK, [Next]_billingVars
  PROVE  TypeOK'
<1>1. CASE scanReads
  BY <1>1 DEF scanReads, requestsAside, webhooksAside, TypeOK
<1>2. ASSUME NEW w \in Workspaces, scanWrites(w) PROVE TypeOK'
  <2>1. sub' \in [Workspaces -> Subscriptions]
    <3>0. sub[w] \in Subscriptions
      BY DEF TypeOK
    <3>1. [sub[w] EXCEPT !.status = "EXPIRED"] \in Subscriptions
      BY <3>0 DEF Subscriptions, Statuses
    <3> QED BY <1>2, <3>1 DEF scanWrites, TypeOK
  <2>2. scan' \in [runs : Nat, todo : SUBSET Workspaces]
    BY <1>2 DEF scanWrites, TypeOK
  <2>3. lapsed' \in BOOLEAN
    BY <1>2, Zenon DEF scanWrites
  <2> QED BY <1>2, <2>1, <2>2, <2>3 DEF scanWrites, requestsAside, TypeOK
<1>3. ASSUME NEW w \in Workspaces, periodEnds(w) PROVE TypeOK'
  <2>1. [sub[w] EXCEPT !.period = "over"] \in Subscriptions
    BY DEF TypeOK, Subscriptions
  <2>2. sub' \in [Workspaces -> Subscriptions]
    BY <1>3, <2>1 DEF periodEnds, TypeOK
  <2> QED BY <1>3, <2>2 DEF periodEnds, requestsAside, webhooksAside, scanAside, TypeOK
<1>4. CASE UNCHANGED billingVars
  BY <1>4 DEF billingVars, TypeOK
<1> QED BY <1>1, <1>2, <1>3, <1>4, RequestTypes, WebhookTypes DEF Next

-----------------------------------------------------------------------------
(* Events and invoices                                                     *)

\* What a handler receives is one of the events.
LEMMA Received ==
  ASSUME TypeOK, NEW h \in Handlers, razorpayDelivers(h) \/ razorpayRepeats(h)
  PROVE  \E e \in Ids : receiveEvent(h, e)
<1>1. DOMAIN events = 1..Len(events) /\ Len(events) \in Nat /\ Len(events) <= MaxEvents
  BY DEF TypeOK
<1>2. CASE razorpayDelivers(h)
  BY <1>1, <1>2, BillingAssumption DEF razorpayDelivers, Ids
<1>3. CASE razorpayRepeats(h)
  BY <1>1, <1>3, BillingAssumption DEF razorpayRepeats, Ids
<1> QED BY <1>2, <1>3

\* The lock keeps a second transaction of the event out until the first has ended, and
\* only a commit marks an event processed.
LEMMA EventLockedStep ==
  ASSUME TypeOK, EventLocked, [Next]_billingVars
  PROVE  EventLocked'
<1>0. /\ handler \in [Handlers -> 0..Len(events)] /\ tx \in [Handlers -> Transactions]
      /\ row \in [Ids -> {"none", "received", "processed"}]
      /\ \A h \in Handlers : handler[h] # 0 => handler[h] \in Ids
  BY BillingAssumption DEF TypeOK, Ids
<1>1. ASSUME NEW h \in Handlers, NEW e \in Ids, receiveEvent(h, e) PROVE EventLocked'
  <2>2. /\ tx' = tx /\ handler' = [handler EXCEPT ![h] = e] /\ handler[h] = 0
        /\ row' = [row EXCEPT ![e] = "received"]
    BY <1>1 DEF receiveEvent
  <2>3. ~tx[h].open
    BY <2>2 DEF EventLocked
  <2>4. \A g \in Handlers : tx[g].open => handler'[g] = handler[g]
    BY <1>0, <2>2, <2>3
  <2>5. \A g \in Handlers : tx[g].open => row'[handler[g]] # "processed"
    BY <1>0, <1>1, <2>2, <2>3 DEF EventLocked
  <2> QED BY <2>2, <2>4, <2>5 DEF EventLocked
<1>2. ASSUME NEW h \in Handlers, findSubscription(h) PROVE EventLocked'
  <2>1. CASE /\ row[handler[h]] # "processed" /\ UNCHANGED handler
             /\ tx' = [tx EXCEPT ![h] = [open |-> TRUE, targets |-> Targets(handler[h])]]
    <3>1. /\ row' = row /\ handler[h] # 0
          /\ \A g \in Handlers : tx[g].open => handler[g] # handler[h]
      BY <1>2 DEF findSubscription
    <3>2. \A g \in Handlers : tx'[g].open => g = h \/ tx[g].open
      BY <1>0, <2>1
    <3> QED BY <2>1, <3>1, <3>2 DEF EventLocked
  <2>2. CASE handler' = [handler EXCEPT ![h] = 0] /\ UNCHANGED tx
    <3>1. row' = row /\ ~tx[h].open
      BY <1>2 DEF findSubscription
    <3>2. \A g \in Handlers : tx[g].open => handler'[g] = handler[g]
      BY <1>0, <2>2, <3>1
    <3> QED BY <2>2, <3>1, <3>2 DEF EventLocked
  <2> QED BY <1>2, <2>1, <2>2 DEF findSubscription
<1>3. ASSUME NEW h \in Handlers, processEvent(h) PROVE EventLocked'
  <2>1. /\ tx' = [tx EXCEPT ![h] = NoTransaction] /\ handler' = [handler EXCEPT ![h] = 0]
        /\ tx[h].open /\ handler[h] # 0
    BY <1>3 DEF processEvent
  <2>2. row' = row \/ row' = [row EXCEPT ![handler[h]] = "processed"]
    BY <1>3 DEF processEvent, commitEvent
  <2>3. ~tx'[h].open /\ \A g \in Handlers : g # h => tx'[g] = tx[g] /\ handler'[g] = handler[g]
    BY <1>0, <2>1 DEF NoTransaction
  <2>4. \A g \in Handlers : tx'[g].open => g # h /\ tx[g].open
    BY <2>3
  <2>5. \A g \in Handlers : tx'[g].open => handler[g] # handler[h]
    BY <2>1, <2>4 DEF EventLocked
  <2>6. ASSUME NEW g \in Handlers, tx'[g].open
        PROVE  handler'[g] # 0 /\ row'[handler'[g]] # "processed"
    <3>1. /\ handler'[g] = handler[g] /\ handler[g] # 0 /\ row[handler[g]] # "processed"
          /\ handler[g] # handler[h]
      BY <2>3, <2>4, <2>5, <2>6 DEF EventLocked
    <3>2. handler[g] \in Ids /\ handler[h] \in Ids
      BY <1>0, <2>1, <3>1
    <3> QED BY <1>0, <2>2, <3>1, <3>2
  <2> QED BY <2>3, <2>4, <2>6 DEF EventLocked
<1>4. CASE UNCHANGED <<row, handler, tx>>
  BY <1>4 DEF EventLocked
<1> QED BY <1>1, <1>2, <1>3, <1>4, Received
        DEF Next, RequestStep, createRemote, saveSubscription, claimBegins, lockAndCount,
            claimRemote, claimCommits, cancelReads, cancelWrites, scanWrites, periodEnds,
            WebhookStep, scanReads, webhooksAside, billingVars

\* Only the transaction of a delivery applies an event, and it marks it processed.
LEMMA AppliedOnceStep ==
  ASSUME TypeOK, EventLocked, AppliedOnce, [Next]_billingVars
  PROVE  AppliedOnce'
<1>1. ASSUME NEW h \in Handlers, NEW e \in Ids, receiveEvent(h, e) PROVE AppliedOnce'
  BY <1>1 DEF receiveEvent, AppliedOnce, TypeOK
<1>2. ASSUME NEW h \in Handlers, processEvent(h) PROVE AppliedOnce'
  <2>1. handler[h] \in Ids
    BY <1>2, BillingAssumption DEF processEvent, TypeOK, Ids
  <2>2. CASE commitEvent(handler[h], tx[h].targets)
    <3>1. row[handler[h]] # "processed"
      BY <1>2 DEF processEvent, EventLocked
    <3> QED BY <2>1, <2>2, <3>1 DEF commitEvent, AppliedOnce, TypeOK
  <2>3. CASE UNCHANGED <<row, applied>>
    BY <2>3 DEF AppliedOnce
  <2> QED BY <1>2, <2>2, <2>3 DEF processEvent
<1>3. CASE UNCHANGED <<row, applied>>
  BY <1>3 DEF AppliedOnce
<1> QED BY <1>1, <1>2, <1>3, Received
        DEF Next, RequestStep, createRemote, saveSubscription, claimBegins, lockAndCount,
            claimRemote, claimCommits, cancelReads, cancelWrites, scanWrites, periodEnds,
            WebhookStep, findSubscription, scanReads, webhooksAside, billingVars

\* recordChargedInvoice takes the next number, for a payment that has no invoice.
LEMMA SequentialStep ==
  ASSUME TypeOK, InvoicesAreSequential, [Next]_billingVars
  PROVE  InvoicesAreSequential'
<1>1. ASSUME NEW e \in DOMAIN events, NEW targets, recordChargedInvoice(e, targets)
      PROVE  InvoicesAreSequential'
  <2>1. CASE UNCHANGED <<sequence, invoices>>
    BY <2>1 DEF InvoicesAreSequential
  <2>2. CASE /\ \A i \in invoices : i.payment # events[e].payment
             /\ sequence' = sequence + 1
             /\ invoices' = invoices \cup {[number |-> sequence + 1, payment |-> events[e].payment]}
    <3> DEFINE new == [number |-> sequence + 1, payment |-> events[e].payment]
    <3>1. sequence \in Nat /\ new.number = sequence + 1 /\ new.payment = events[e].payment
      BY DEF TypeOK
    <3>2. \A i \in invoices : i.number \in 1..sequence
      BY DEF InvoicesAreSequential
    <3>3. {i.number : i \in invoices'} = {i.number : i \in invoices} \cup {sequence + 1}
      BY <2>2, <3>1
    <3>4. {i.number : i \in invoices'} = 1..sequence'
      BY <2>2, <3>1, <3>3 DEF InvoicesAreSequential
    <3>5. \A i \in invoices : i.number # new.number /\ i.payment # new.payment
      BY <2>2, <3>1, <3>2
    <3>6. \A i, j \in invoices' : i.payment = j.payment \/ i.number = j.number => i = j
      <4> SUFFICES ASSUME NEW i \in invoices', NEW j \in invoices',
                          i.payment = j.payment \/ i.number = j.number
                   PROVE  i = j
        OBVIOUS
      <4>1. (i \in invoices \/ i = new) /\ (j \in invoices \/ j = new)
        BY <2>2
      <4> HIDE DEF new
      <4> QED BY <3>5, <4>1 DEF InvoicesAreSequential
    <3> QED BY <3>4, <3>6 DEF InvoicesAreSequential
  <2> QED BY <1>1, <2>1, <2>2 DEF recordChargedInvoice
<1>2. ASSUME NEW h \in Handlers, processEvent(h) PROVE InvoicesAreSequential'
  <2>1. handler[h] \in DOMAIN events
    BY <1>2 DEF processEvent, TypeOK
  <2>2. CASE commitEvent(handler[h], tx[h].targets)
    BY <1>1, <2>1, <2>2 DEF commitEvent
  <2>3. CASE UNCHANGED <<sequence, invoices>>
    BY <2>3 DEF InvoicesAreSequential
  <2> QED BY <1>2, <2>2, <2>3 DEF processEvent
<1>3. CASE UNCHANGED <<sequence, invoices>>
  BY <1>3 DEF InvoicesAreSequential
<1> QED BY <1>2, <1>3
        DEF Next, RequestStep, createRemote, saveSubscription, claimBegins, lockAndCount,
            claimRemote, claimCommits, cancelReads, cancelWrites, scanWrites, periodEnds,
            WebhookStep, razorpayDelivers, razorpayRepeats, receiveEvent,
            findSubscription, scanReads, webhooksAside, billingVars

-----------------------------------------------------------------------------
(* The founding tier                                                       *)

\* A step that makes no workspace a founder, leaves the founders seated and takes no
\* lock keeps the tier as it is.
LEMMA NobodySeated ==
  ASSUME SeatInv, LockHeld', planLock' \in {planLock, NoOne}, lapsed => lapsed',
         \A w \in Workspaces : sub'[w].isFounding => sub[w].isFounding,
         FoundersAreSeated'
  PROVE  SeatInv'
<1>1. ASSUME ~lapsed'
      PROVE  /\ IsFiniteSet(Claimed') /\ Cardinality(Claimed') <= MaxSeats
             /\ planLock' # NoOne => Cardinality(Claimed') < MaxSeats
  <2>1. ~lapsed
    BY <1>1
  <2>2. IsFiniteSet(Claimed) /\ Cardinality(Claimed) <= MaxSeats
    BY <2>1 DEF SeatInv, SeatsLeft
  <2>3. Claimed' \in SUBSET Claimed
    BY <2>1 DEF SeatInv, FoundersAreSeated, Claimed, Seated
  <2>4. IsFiniteSet(Claimed') /\ Cardinality(Claimed') <= Cardinality(Claimed)
    BY <2>2, <2>3, FS_Subset
  <2>5. Cardinality(Claimed) \in Nat /\ Cardinality(Claimed') \in Nat
    BY <2>2, <2>4, FS_CardinalityType
  <2>6. planLock' # NoOne => Cardinality(Claimed) < MaxSeats
    BY <2>1 DEF SeatInv, SeatsLeft
  <2> QED BY <2>2, <2>4, <2>5, <2>6, BillingAssumption
<1> QED BY <1>1 DEF SeatInv, SeatsLeft

\* A step that touches no subscription and frees the lock at most.
LEMMA RowsAlone ==
  ASSUME SeatInv, LockHeld', planLock' \in {planLock, NoOne}, UNCHANGED <<sub, lapsed>>
  PROVE  SeatInv'
<1>1. FoundersAreSeated'
  BY DEF SeatInv, FoundersAreSeated
<1> QED BY <1>1, NobodySeated

\* The lock belongs to the request inside the transaction, after every step of one.
LEMMA LockStep ==
  ASSUME TypeOK, LockHeld, NEW w \in Workspaces, RequestStep(w)
  PROVE  LockHeld'
<1>0. w # NoOne /\ req \in [Workspaces -> Requests]
  BY BillingAssumption DEF TypeOK
<1>1. CASE createRemote(w) \/ claimBegins(w) \/ cancelReads(w)
  <2>1. /\ req[w].at = "idle" /\ planLock' = planLock
        /\ req'[w].at \notin Claiming
        /\ \A v \in Workspaces \ {w} : req'[v] = req[v]
    BY <1>0, <1>1 DEF createRemote, claimBegins, cancelReads, request, NoRequest, Claiming
  <2> QED BY <2>1 DEF LockHeld, Claiming
<1>2. CASE saveSubscription(w) \/ cancelWrites(w)
  <2>1. /\ req[w].at \notin Claiming /\ planLock' = planLock
        /\ req'[w].at \notin Claiming
        /\ \A v \in Workspaces \ {w} : req'[v] = req[v]
    <3>1. CASE saveSubscription(w)
      BY <1>0, <3>1 DEF saveSubscription, NoRequest, Claiming
    <3>2. CASE cancelWrites(w)
      BY <1>0, <3>2 DEF cancelWrites, NoRequest, Claiming
    <3> QED BY <1>2, <3>1, <3>2
  <2> QED BY <2>1 DEF LockHeld
<1>3. CASE lockAndCount(w)
  <2>1. /\ req[w].at \notin Claiming /\ planLock = NoOne
        /\ \/ req'[w].at \in Claiming /\ planLock' = w
           \/ req'[w].at \notin Claiming /\ planLock' = NoOne
        /\ \A v \in Workspaces \ {w} : req'[v] = req[v]
    BY <1>0, <1>3 DEF lockAndCount, NoRequest, Claiming, Requests
  <2> QED BY <1>0, <2>1, BillingAssumption DEF LockHeld
<1>4. CASE claimRemote(w) \/ claimCommits(w)
  <2>1. /\ req[w].at \in Claiming
        /\ \/ req'[w].at \in Claiming /\ planLock' = planLock
           \/ req'[w].at \notin Claiming /\ planLock' = IF planLock = w THEN NoOne ELSE planLock
        /\ \A v \in Workspaces \ {w} : req'[v] = req[v]
    <3>1. CASE claimRemote(w)
      <4>1. req[w] \in Requests /\ remotes + 1 \in Nat
        BY <1>0 DEF TypeOK
      <4>2. \A n \in Nat : [req[w] EXCEPT !.at = "claimSave", !.remote = n].at = "claimSave"
        BY <4>1 DEF Requests
      <4>3. CASE /\ req' = [req EXCEPT ![w] = [@ EXCEPT !.at = "claimSave", !.remote = remotes + 1]]
                 /\ planLock' = planLock
        <5>1. /\ req'[w] = [req[w] EXCEPT !.at = "claimSave", !.remote = remotes + 1]
              /\ \A v \in Workspaces \ {w} : req'[v] = req[v]
          BY <1>0, <4>3
        <5>2. req'[w].at = "claimSave"
          BY <4>1, <4>2, <5>1
        <5> QED BY <3>1, <4>3, <5>1, <5>2 DEF claimRemote, unlock, Claiming
      <4>4. CASE req' = [req EXCEPT ![w] = NoRequest] /\ unlock(w)
        <5>1. req'[w].at = "idle" /\ \A v \in Workspaces \ {w} : req'[v] = req[v]
          BY <1>0, <4>4 DEF NoRequest
        <5> QED BY <3>1, <4>4, <5>1 DEF claimRemote, unlock, Claiming
      <4> QED BY <3>1, <4>3, <4>4 DEF claimRemote
    <3>2. CASE claimCommits(w)
      BY <1>0, <3>2 DEF claimCommits, unlock, NoRequest, Claiming
    <3> QED BY <1>4, <3>1, <3>2
  <2> QED BY <1>0, <2>1, BillingAssumption DEF LockHeld
<1> QED BY <1>1, <1>2, <1>3, <1>4 DEF RequestStep

\* A request of a workspace: only claimCommits makes a founder, under the lock that
\* lockAndCount took with a seat left.
LEMMA RequestSeats ==
  ASSUME TypeOK, SeatInv, NEW w \in Workspaces, RequestStep(w)
  PROVE  SeatInv'
<1>0. /\ LockHeld' /\ lapsed' = lapsed
      /\ sub \in [Workspaces -> Subscriptions] /\ w # NoOne
  BY LockStep, BillingAssumption
     DEF SeatInv, TypeOK, RequestStep, createRemote, saveSubscription, claimBegins,
         lockAndCount, claimRemote, claimCommits, cancelReads, cancelWrites, webhooksAside
<1>1. CASE createRemote(w) \/ claimBegins(w) \/ cancelReads(w) \/ claimRemote(w)
  BY <1>0, <1>1, RowsAlone DEF createRemote, claimBegins, cancelReads, claimRemote, unlock
<1>2. CASE saveSubscription(w) \/ cancelWrites(w)
  <2>1. /\ planLock' = planLock
        /\ \/ sub' = sub
           \/ ~sub'[w].isFounding /\ \A v \in Workspaces \ {w} : sub'[v] = sub[v]
    BY <1>0, <1>2 DEF saveSubscription, cancelWrites, subscribed, Subscriptions
  <2>2. \A v \in Workspaces : sub'[v].isFounding => sub[v].isFounding
    BY <2>1
  <2>3. FoundersAreSeated'
    BY <1>0, <2>1 DEF SeatInv, FoundersAreSeated
  <2> QED BY <1>0, <2>1, <2>2, <2>3, NobodySeated
<1>3. CASE lockAndCount(w)
  <2>1. /\ sub' = sub
        /\ \/ Cardinality(Claimed) < MaxSeats
           \/ planLock' = NoOne
    BY <1>3 DEF lockAndCount
  <2>2. Claimed' = Claimed
    BY <2>1 DEF Claimed
  <2> QED BY <1>0, <2>1, <2>2 DEF SeatInv, SeatsLeft, FoundersAreSeated
<1>4. CASE claimCommits(w)
  <2>1. CASE sub' = sub
    BY <1>0, <1>4, <2>1, RowsAlone DEF claimCommits, unlock
  <2>2. CASE sub' = subscribed(w, TRUE)
    <3>1. planLock = w /\ planLock' = NoOne
      BY <1>4 DEF claimCommits, unlock, SeatInv, LockHeld, Claiming
    <3>2. /\ sub'[w].isFounding /\ sub'[w].status = "TRIAL"
          /\ \A v \in Workspaces \ {w} : sub'[v] = sub[v]
      BY <1>0, <2>2 DEF subscribed, Subscriptions
    <3>3. FoundersAreSeated'
      BY <1>0, <3>2 DEF SeatInv, FoundersAreSeated, Seated
    <3>4. Claimed' \in SUBSET (Claimed \cup {w})
      BY <3>2 DEF Claimed
    <3>5. ASSUME ~lapsed' PROVE IsFiniteSet(Claimed') /\ Cardinality(Claimed') <= MaxSeats
      <4>1. IsFiniteSet(Claimed) /\ Cardinality(Claimed) < MaxSeats
        BY <1>0, <3>1, <3>5 DEF SeatInv, SeatsLeft
      <4>2. /\ IsFiniteSet(Claimed \cup {w})
            /\ Cardinality(Claimed \cup {w}) \in {Cardinality(Claimed), Cardinality(Claimed) + 1}
        BY <4>1, FS_AddElement
      <4>3. IsFiniteSet(Claimed') /\ Cardinality(Claimed') <= Cardinality(Claimed \cup {w})
        BY <3>4, <4>2, FS_Subset
      <4>4. Cardinality(Claimed) \in Nat /\ Cardinality(Claimed') \in Nat
        BY <4>1, <4>3, FS_CardinalityType
      <4> QED BY <4>1, <4>2, <4>3, <4>4, BillingAssumption
    <3> QED BY <1>0, <3>1, <3>3, <3>5 DEF SeatInv, SeatsLeft
  <2> QED BY <1>4, <2>1, <2>2 DEF claimCommits
<1> QED BY <1>1, <1>2, <1>3, <1>4 DEF RequestStep

\* What an event makes of a row: no founder who was none, and a founder who leaves the
\* tier without being cancelled has lapsed.
LEMMA AppliedSeat ==
  ASSUME NEW s \in Subscriptions, NEW e \in DOMAIN events, NEW hasEnd \in BOOLEAN,
         events \in Seq(Events)
  PROVE  LET t == applyEvent(s, e, hasEnd)
         IN  /\ t.isFounding => s.isFounding
             /\ t.isFounding => t.status \in {s.status, "ACTIVE", "PAST_DUE", "HALTED", "EXPIRED"}
<1>1. events[e].kind \in Kinds
  <2>1. events[e] \in Events
    OBVIOUS
  <2> QED BY <2>1 DEF Events
<1> QED BY <1>1 DEF applyEvent, Kinds, currentPeriodEnd, Subscriptions

\* The transaction of a delivery.
LEMMA EventSeats ==
  ASSUME TypeOK, SeatInv, NEW h \in Handlers, processEvent(h)
  PROVE  SeatInv'
<1>0. LockHeld' /\ planLock' = planLock
  BY DEF SeatInv, LockHeld, processEvent, requestsAside
<1>1. CASE commitEvent(handler[h], tx[h].targets)
  <2> DEFINE e == handler[h]
  <2>1. ASSUME NEW w \in Workspaces
        PROVE  /\ sub'[w].isFounding => sub[w].isFounding
               /\ sub'[w].isFounding =>
                    sub'[w].status \in {sub[w].status, "ACTIVE", "PAST_DUE", "HALTED", "EXPIRED"}
    <3>1. PICK hasEnd \in BOOLEAN : sub'[w] \in {sub[w], applyEvent(sub[w], e, hasEnd)}
      BY <1>1 DEF commitEvent
    <3>2. sub[w] \in Subscriptions /\ events \in Seq(Events) /\ e \in DOMAIN events
      BY DEF TypeOK, processEvent
    <3> HIDE DEF e
    <3> QED BY <3>1, <3>2, AppliedSeat
  <2>2. lapsed => lapsed'
    BY <1>1 DEF commitEvent
  <2>3. ASSUME ~lapsed', NEW w \in Workspaces, sub'[w].isFounding
        PROVE  sub'[w].status \notin {"HALTED", "EXPIRED"}
    BY <1>1, <2>3 DEF commitEvent
  <2>4. FoundersAreSeated'
    BY <2>1, <2>2, <2>3 DEF SeatInv, FoundersAreSeated, Seated
  <2> QED BY <1>0, <2>1, <2>2, <2>4, NobodySeated
<1>2. CASE UNCHANGED <<sub, lapsed>>
  BY <1>0, <1>2, RowsAlone
<1> QED BY <1>1, <1>2 DEF processEvent

\* Every step keeps the tier.
LEMMA SeatStep ==
  ASSUME TypeOK, SeatInv, [Next]_billingVars
  PROVE  SeatInv'
<1>1. CASE \/ scanReads
           \/ \E h \in Handlers : razorpayDelivers(h) \/ razorpayRepeats(h) \/ findSubscription(h)
           \/ UNCHANGED billingVars
  <2>1. UNCHANGED <<sub, lapsed, req, planLock>>
    BY <1>1 DEF scanReads, razorpayDelivers, razorpayRepeats, receiveEvent, findSubscription,
                requestsAside,
                webhooksAside, billingVars
  <2> QED BY <2>1, RowsAlone DEF SeatInv, LockHeld
<1>2. ASSUME NEW w \in Workspaces, scanWrites(w) \/ periodEnds(w) PROVE SeatInv'
  <2>1. /\ UNCHANGED <<req, planLock>>
        /\ lapsed => lapsed'
        /\ \A v \in Workspaces : sub'[v].isFounding => sub[v].isFounding
        /\ \A v \in Workspaces : sub'[v].status = sub[v].status \/ (v = w /\ scanWrites(w))
    <3>1. sub \in [Workspaces -> Subscriptions] /\ sub[w] \in Subscriptions
      BY DEF TypeOK
    <3>2. CASE scanWrites(w)
      <4>1. [sub[w] EXCEPT !.status = "EXPIRED"].isFounding = sub[w].isFounding
        BY <3>1 DEF Subscriptions
      <4> QED BY <3>1, <3>2, <4>1 DEF scanWrites, requestsAside
    <3>3. CASE periodEnds(w)
      <4>1. /\ [sub[w] EXCEPT !.period = "over"].isFounding = sub[w].isFounding
            /\ [sub[w] EXCEPT !.period = "over"].status = sub[w].status
        BY <3>1 DEF Subscriptions
      <4> QED BY <3>1, <3>3, <4>1 DEF periodEnds, requestsAside, webhooksAside
    <3> QED BY <1>2, <3>2, <3>3
  <2>2. scanWrites(w) /\ ~lapsed' => ~sub[w].isFounding
    BY DEF scanWrites
  <2>3. LockHeld' /\ FoundersAreSeated'
    BY <2>1, <2>2 DEF SeatInv, LockHeld, FoundersAreSeated
  <2> QED BY <2>1, <2>3, NobodySeated
<1> QED BY <1>1, <1>2, RequestSeats, EventSeats DEF Next, WebhookStep

-----------------------------------------------------------------------------
(* Theorems                                                                *)

\* Before the first request the invariants hold.
LEMMA BillingInit ==
  Init => TypeOK /\ EventLocked /\ AppliedOnce /\ InvoicesAreSequential /\ SeatInv
<1> SUFFICES ASSUME Init
             PROVE  TypeOK /\ EventLocked /\ AppliedOnce /\ InvoicesAreSequential /\ SeatInv
  OBVIOUS
<1>1. sub \in [Workspaces -> Subscriptions] /\ req \in [Workspaces -> Requests]
  <2>1. NoSubscription \in Subscriptions /\ NoRequest \in Requests
    BY DEF NoSubscription, NoRequest, Subscriptions, Requests, Statuses
  <2> QED BY <2>1 DEF Init
<1>2. events \in Seq(Events) /\ Len(events) = 0
  BY DEF Init
<1>3. /\ row \in [Ids -> {"none", "received", "processed"}] /\ applied \in [Ids -> Nat]
      /\ handler \in [Handlers -> 0..Len(events)]
  BY <1>2 DEF Init
<1>x. tx \in [Handlers -> Transactions] /\ EventLocked
  BY DEF Init, NoTransaction, Transactions, EventLocked
<1>4. lapsed \in BOOLEAN
  BY Zenon DEF Init
<1>5. scan \in [runs : Nat, todo : SUBSET Workspaces]
  BY DEF Init
<1>6. TypeOK
  BY <1>1, <1>2, <1>3, <1>x, <1>4, <1>5, BillingAssumption DEF Init, TypeOK
<1>7. AppliedOnce /\ InvoicesAreSequential
  BY DEF Init, AppliedOnce, InvoicesAreSequential
<1>8. \A w \in Workspaces : ~sub[w].isFounding /\ req[w].at \notin Claiming /\ planLock # w
  BY BillingAssumption DEF Init, NoSubscription, NoRequest, Claiming
<1>9. Claimed = {} /\ planLock = NoOne
  BY <1>8 DEF Claimed, Init
<1>10. IsFiniteSet(Claimed) /\ Cardinality(Claimed) = 0
  BY <1>9, FS_EmptySet
<1>11. SeatInv
  BY <1>8, <1>9, <1>10, BillingAssumption DEF SeatInv, LockHeld, FoundersAreSeated, SeatsLeft
<1> QED BY <1>x, <1>6, <1>7, <1>11

\* The rows, requests, events and invoices of billing keep their types.
THEOREM BillingTypeCorrect == Spec => []TypeOK
<1>1. TypeOK /\ [Next]_billingVars => TypeOK'
  BY BillingTypesStep
<1> QED BY BillingInit, <1>1, PTL DEF Spec

\* processWebhook: the second look at the locked WebhookEvent row makes an event take
\* effect once, however many deliveries are handled at a time and whatever fails.
THEOREM EventsAppliedOnce == Spec => []AppliedOnce
<1>1. TypeOK /\ EventLocked /\ [Next]_billingVars => EventLocked'
  BY EventLockedStep
<1>2. TypeOK /\ EventLocked /\ AppliedOnce /\ [Next]_billingVars => AppliedOnce'
  BY AppliedOnceStep
<1> QED BY BillingInit, BillingTypeCorrect, <1>1, <1>2, PTL DEF Spec

\* recordChargedInvoice numbers the invoices without a gap and writes one per payment.
THEOREM InvoicesSequential == Spec => []InvoicesAreSequential
<1>1. TypeOK /\ InvoicesAreSequential /\ [Next]_billingVars => InvoicesAreSequential'
  BY SequentialStep
<1> QED BY BillingInit, BillingTypeCorrect, <1>1, PTL DEF Spec

\* claimFoundingSubscription does not oversell the tier, for any number of workspaces
\* and seats, unless a founding subscription lapsed and came back.
THEOREM TierNotOversold == Spec => []ClaimsAreSerialized
<1>1. TypeOK /\ SeatInv /\ [Next]_billingVars => SeatInv'
  BY SeatStep
<1>2. SeatInv => ClaimsAreSerialized
  BY DEF SeatInv, SeatsLeft, ClaimsAreSerialized
<1> QED BY BillingInit, BillingTypeCorrect, <1>1, <1>2, PTL DEF Spec

\* TrialExpiryProcessor writes EXPIRED over whatever a webhook has made of the row, and
\* still leaves a workspace whose period is paid its write access.
THEOREM ScanSparesPaid == Spec => ScanSparesPaidPeriods
<1>1. ASSUME TypeOK, [Next]_billingVars, NEW w \in Workspaces,
             w \in scan.todo, w \notin scan'.todo, sub[w].period = "running",
             isReadOnly(sub'[w])
      PROVE  isReadOnly(sub[w])
  <2>1. \E v \in Workspaces : scanWrites(v)
    BY <1>1 DEF Next, RequestStep, createRemote, saveSubscription, claimBegins, lockAndCount,
                claimRemote, claimCommits, cancelReads, cancelWrites, periodEnds, scanReads,
                WebhookStep, razorpayDelivers, razorpayRepeats, receiveEvent,
                findSubscription, processEvent, scanAside, billingVars
  <2>2. scanWrites(w)
    <3>1. PICK v \in Workspaces : scanWrites(v)
      BY <2>1
    <3>2. scan'.todo = scan.todo \ {v}
      BY <3>1 DEF scanWrites, TypeOK
    <3>3. w = v
      BY <1>1, <3>2
    <3> QED BY <3>1, <3>3
  <2>3. sub'[w].status = "EXPIRED" /\ sub'[w].period = "running"
    BY <1>1, <2>2 DEF scanWrites, TypeOK, Subscriptions
  <2>4. ~isReadOnly(sub'[w])
    BY <2>3 DEF isReadOnly
  <2> QED BY <1>1, <2>4
<1>2. TypeOK /\ [Next]_billingVars =>
        [\A w \in Workspaces :
           w \in scan.todo /\ w \notin scan'.todo /\ sub[w].period = "running"
             => (isReadOnly(sub'[w]) => isReadOnly(sub[w]))]_billingVars
  BY <1>1
<1> QED BY BillingTypeCorrect, <1>2, PTL DEF Spec, ScanSparesPaidPeriods
=============================================================================
