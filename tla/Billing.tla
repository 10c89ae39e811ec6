------------------------------- MODULE Billing -------------------------------
(***************************************************************************)
(* Subscriptions: the requests of BillingService (subscribe, claim a       *)
(* founding seat, cancel), Razorpay and its webhooks, processWebhook, the  *)
(* invoices it writes and the daily TrialExpiryProcessor.  Razorpay        *)
(* delivers each event at least once, in any order, and several deliveries *)
(* may be handled at a time.  Transactions are READ COMMITTED: the one of  *)
(* a webhook finds its subscription in one action and commits in another,  *)
(* holding the lock on its WebhookEvent row; the founding claim, which     *)
(* calls Razorpay inside its transaction, holds the one on the plan row.   *)
(***************************************************************************)
EXTENDS Naturals, Sequences, FiniteSets

CONSTANTS
  Workspaces,
  Handlers,    \* webhook requests in flight
  NoOne,       \* the plan row is not locked
  MaxSeats,    \* FOUNDING_PLAN_MAX_SEATS (50)
  MaxRequests, \* bound: requests for a subscription or a founding seat
  MaxRemote,   \* bound: subscriptions created at Razorpay
  MaxEvents,   \* bound: webhook events
  MaxScans,    \* bound: runs of the trial expiry job
  MaxUpsets    \* bound: requests to cancel, failed calls and commits, dead processes

ASSUME BillingAssumption ==
  /\ NoOne \notin Workspaces
  /\ MaxSeats \in Nat /\ MaxRequests \in Nat /\ MaxRemote \in Nat /\ MaxEvents \in Nat
  /\ MaxScans \in Nat /\ MaxUpsets \in Nat

VARIABLES
  sub,       \* Subscription row of each workspace
  req,       \* the request of each workspace: where it is, what it has read or created
  asked,     \* requests for a subscription so far
  planLock,  \* SELECT ... FOR UPDATE on the founding plan
  remotes,   \* subscriptions that exist at Razorpay: 1..remotes
  events,    \* what Razorpay has delivered; an event is its position
  row,       \* WebhookEvent of each event
  applied,   \* how often an event's effect was committed
  handler,   \* the event each handler works on, 0 when idle
  tx,        \* its transaction: is it open, and the subscriptions it found to update
  invoices,  \* Invoice rows
  sequence,  \* InvoiceSequence.lastSequence
  scan,      \* the trial expiry job: runs so far, subscriptions left to write
  lapsed,    \* a founding subscription was HALTED or EXPIRED at some time
  upsets

billingVars == <<sub, req, asked, planLock, remotes, events, row, applied, handler, tx,
                 invoices, sequence, scan, lapsed, upsets>>

\* NONE: the workspace has no subscription row
Statuses == {"NONE", "TRIAL", "ACTIVE", "PAST_DUE", "HALTED", "CANCELLED", "EXPIRED"}

\* period: currentPeriodEnd is not set, to come or past
Subscriptions == [status : Statuses, remote : Nat, isFounding : BOOLEAN,
                  period : {"unset", "running", "over"}]

NoSubscription == [status |-> "NONE", remote |-> 0, isFounding |-> FALSE, period |-> "unset"]

Requests == [at : {"idle", "save", "lock", "claim", "claimSave", "cancel"},
             remote : Nat, status : Statuses]

NoRequest == [at |-> "idle", remote |-> 0, status |-> "NONE"]

Kinds == {"authenticated", "charged", "halted", "cancelled", "expired", "failed"}

Endings == {"cancelled", "expired"}

\* payment: the payment of a charge, else 0
Events == [kind : Kinds, remote : Nat, payment : Nat]

Ids == 1..MaxEvents

Transactions == [open : BOOLEAN, targets : SUBSET Workspaces]

NoTransaction == [open |-> FALSE, targets |-> {}]

TypeOK ==
  /\ sub \in [Workspaces -> Subscriptions]
  /\ req \in [Workspaces -> Requests]
  /\ planLock \in Workspaces \cup {NoOne}
  /\ asked \in Nat /\ remotes \in Nat /\ sequence \in Nat /\ upsets \in Nat
  /\ events \in Seq(Events) /\ Len(events) <= MaxEvents
  /\ row \in [Ids -> {"none", "received", "processed"}]
  /\ applied \in [Ids -> Nat]
  /\ handler \in [Handlers -> 0..Len(events)]
  /\ tx \in [Handlers -> Transactions]
  /\ invoices \in SUBSET [number : Nat, payment : Nat]
  /\ lapsed \in BOOLEAN
  /\ scan \in [runs : Nat, todo : SUBSET Workspaces]

Init ==
  /\ sub = [w \in Workspaces |-> NoSubscription]
  /\ req = [w \in Workspaces |-> NoRequest]
  /\ asked = 0 /\ planLock = NoOne /\ remotes = 0 /\ events = <<>>
  /\ row = [e \in Ids |-> "none"] /\ applied = [e \in Ids |-> 0]
  /\ handler = [h \in Handlers |-> 0] /\ tx = [h \in Handlers |-> NoTransaction]
  /\ invoices = {} /\ sequence = 0
  /\ scan = [runs |-> 0, todo |-> {}]
  /\ lapsed = FALSE /\ upsets = 0

Upset == upsets < MaxUpsets /\ upsets' = upsets + 1

webhooksAside == UNCHANGED <<events, row, applied, handler, tx, invoices, sequence, lapsed>>
scanAside == UNCHANGED scan

\* claimedCount: founding subscriptions that hold a seat
Claimed == {w \in Workspaces : sub[w].isFounding
                               /\ sub[w].status \in {"ACTIVE", "TRIAL", "PAST_DUE"}}

request(w) == req[w].at = "idle" /\ asked < MaxRequests /\ asked' = asked + 1

-----------------------------------------------------------------------------
(* BillingService.createSubscription                                       *)

\* Razorpay first; when it fails nothing is claimed locally
createRemote(w) ==
  /\ request(w) /\ remotes < MaxRemote
  /\ remotes' = remotes + 1
  /\ req' = [req EXCEPT ![w] = [NoRequest EXCEPT !.at = "save", !.remote = remotes + 1]]
  /\ webhooksAside /\ scanAside /\ UNCHANGED <<sub, planLock, upsets>>

\* then the row, over whatever it held; the period stays
subscribed(w, founding) ==
  [sub EXCEPT ![w].status = "TRIAL", ![w].remote = req[w].remote, ![w].isFounding = founding]

saveSubscription(w) ==
  /\ req[w].at = "save"
  /\ \/ sub' = subscribed(w, FALSE) /\ UNCHANGED upsets
     \/ Upset /\ UNCHANGED sub
  /\ req' = [req EXCEPT ![w] = NoRequest]
  /\ webhooksAside /\ scanAside /\ UNCHANGED <<asked, planLock, remotes>>

-----------------------------------------------------------------------------
(* BillingService.claimFoundingSubscription, one transaction               *)

\* a workspace that has a founding subscription keeps it
claimBegins(w) ==
  /\ request(w)
  /\ ~(sub[w].isFounding /\ sub[w].status # "CANCELLED")
  /\ req' = [req EXCEPT ![w] = [NoRequest EXCEPT !.at = "lock"]]
  /\ webhooksAside /\ scanAside /\ UNCHANGED <<sub, planLock, remotes, upsets>>

lockAndCount_MutNoLock(w) ==
  /\ req[w].at = "lock"
  /\ req' = [req EXCEPT ![w] = IF Cardinality(Claimed) < MaxSeats
                               THEN [NoRequest EXCEPT !.at = "claim"] ELSE NoRequest]
  /\ webhooksAside /\ scanAside /\ UNCHANGED <<asked, sub, planLock, remotes, upsets>>

\* FOR UPDATE on the plan row, then the count; sold out ends the transaction
lockAndCount(w) ==
  /\ req[w].at = "lock" /\ planLock = NoOne
  /\ \/ /\ Cardinality(Claimed) < MaxSeats /\ planLock' = w
        /\ req' = [req EXCEPT ![w].at = "claim"]
     \/ /\ Cardinality(Claimed) >= MaxSeats /\ UNCHANGED planLock
        /\ req' = [req EXCEPT ![w] = NoRequest]
  /\ webhooksAside /\ scanAside /\ UNCHANGED <<asked, sub, remotes, upsets>>

unlock(w) == planLock' = IF planLock = w THEN NoOne ELSE planLock

\* Razorpay, inside the transaction: a failure rolls it back
claimRemote(w) ==
  /\ req[w].at = "claim"
  /\ \/ /\ remotes < MaxRemote /\ remotes' = remotes + 1
        /\ req' = [req EXCEPT ![w] = [@ EXCEPT !.at = "claimSave", !.remote = remotes + 1]]
        /\ UNCHANGED planLock
     \/ req' = [req EXCEPT ![w] = NoRequest] /\ unlock(w) /\ UNCHANGED remotes
  /\ webhooksAside /\ scanAside /\ UNCHANGED <<asked, sub, upsets>>

\* the row and the commit; a commit that fails leaves the remote subscription behind
claimCommits(w) ==
  /\ req[w].at = "claimSave"
  /\ \/ sub' = subscribed(w, TRUE) /\ UNCHANGED upsets
     \/ Upset /\ UNCHANGED sub
  /\ req' = [req EXCEPT ![w] = NoRequest] /\ unlock(w)
  /\ webhooksAside /\ scanAside /\ UNCHANGED <<asked, remotes>>

-----------------------------------------------------------------------------
(* BillingService.cancelSubscription                                       *)

\* the row is read, and Razorpay asked to cancel: an error is logged
cancelReads(w) ==
  /\ req[w].at = "idle" /\ sub[w].status # "NONE" /\ Upset
  /\ req' = [req EXCEPT ![w] = [NoRequest EXCEPT !.at = "cancel", !.status = sub[w].status]]
  /\ webhooksAside /\ scanAside /\ UNCHANGED <<sub, asked, planLock, remotes>>

cancelWrites_MutRemoteStatus(w) ==
  /\ req[w].at = "cancel"
  /\ \E status \in {req[w].status, "cancelled"} :
       sub' = [sub EXCEPT ![w].isFounding = FALSE, ![w].status = status]
  /\ req' = [req EXCEPT ![w] = NoRequest]
  /\ webhooksAside /\ scanAside /\ UNCHANGED <<asked, planLock, remotes, upsets>>

\* at the end of the period the status stays what was read, otherwise it is CANCELLED
cancelWrites(w) ==
  /\ req[w].at = "cancel"
  /\ \E status \in {req[w].status, "CANCELLED"} :
       sub' = [sub EXCEPT ![w].isFounding = FALSE, ![w].status = status]
  /\ req' = [req EXCEPT ![w] = NoRequest]
  /\ webhooksAside /\ scanAside /\ UNCHANGED <<asked, planLock, remotes, upsets>>

RequestStep(w) ==
  \/ createRemote(w) \/ saveSubscription(w)
  \/ claimBegins(w) \/ lockAndCount(w) \/ claimRemote(w) \/ claimCommits(w)
  \/ cancelReads(w) \/ cancelWrites(w)

-----------------------------------------------------------------------------
(* Razorpay and processWebhook                                             *)

requestsAside == UNCHANGED <<req, asked, planLock, remotes>>

payments == {events[e].payment : e \in DOMAIN events} \ {0}

KindsOf(r) == {events[e].kind : e \in {x \in DOMAIN events : events[x].remote = r}}

\* a delivery: the WebhookEvent row is the claim, and a processed one a duplicate
receiveEvent(h, e) ==
  /\ handler[h] = 0 /\ row[e] # "processed"
  /\ row' = [row EXCEPT ![e] = "received"]
  /\ handler' = [handler EXCEPT ![h] = e]
  /\ requestsAside /\ scanAside
  /\ UNCHANGED <<sub, applied, tx, invoices, sequence, lapsed, upsets>>

\* The first delivery of an event, in any order: a subscription is authenticated once,
\* and cancelled or expired once.  The same payment may be reported twice.
razorpayDelivers(h) ==
  /\ Len(events) < MaxEvents
  /\ \E r \in 1..remotes, kind \in Kinds :
       \E payment \in IF kind = "charged" THEN payments \cup {Len(events) + 1} ELSE {0} :
         /\ kind = "authenticated" => kind \notin KindsOf(r)
         /\ kind \in Endings => KindsOf(r) \cap Endings = {}
         /\ \A e \in DOMAIN events : events[e].payment = payment /\ payment # 0
                                        => events[e].remote = r
         /\ events' = Append(events, [kind |-> kind, remote |-> r, payment |-> payment])
  /\ receiveEvent(h, Len(events) + 1)

\* ... and a further one
razorpayRepeats(h) ==
  /\ \E e \in DOMAIN events : receiveEvent(h, e)
  /\ UNCHANGED events

\* findFirst on razorpaySubscriptionId, which is unique; a failed payment leaves a
\* HALTED subscription alone
Targets(e) == {w \in Workspaces : /\ sub[w].remote = events[e].remote
                                  /\ events[e].kind = "failed" => sub[w].status # "HALTED"}

findSubscription_MutNoRecheck(h) ==
  /\ handler[h] # 0 /\ ~tx[h].open
  /\ \A g \in Handlers : tx[g].open => handler[g] # handler[h]
  /\ tx' = [tx EXCEPT ![h] = [open |-> TRUE, targets |-> Targets(handler[h])]]
  /\ requestsAside /\ scanAside
  /\ UNCHANGED <<sub, events, row, applied, handler, invoices, sequence, lapsed, upsets>>

\* the transaction begins: lock the WebhookEvent row, look at it again, find the
\* subscription to update
findSubscription(h) ==
  /\ handler[h] # 0 /\ ~tx[h].open
  /\ \A g \in Handlers : tx[g].open => handler[g] # handler[h]
  /\ \/ /\ row[handler[h]] # "processed"
        /\ tx' = [tx EXCEPT ![h] = [open |-> TRUE, targets |-> Targets(handler[h])]]
        /\ UNCHANGED handler
     \/ /\ row[handler[h]] = "processed"
        /\ handler' = [handler EXCEPT ![h] = 0] /\ UNCHANGED tx
  /\ requestsAside /\ scanAside
  /\ UNCHANGED <<sub, events, row, applied, invoices, sequence, lapsed, upsets>>

\* without current_end in the event the column keeps its value
currentPeriodEnd(s, hasEnd) == IF hasEnd THEN "running" ELSE s.period

\* the switch over event.event: what its update makes of the row as it is by then
applyEvent(s, e, hasEnd) ==
  CASE events[e].kind \in {"authenticated", "charged"} ->
         [s EXCEPT !.status = "ACTIVE", !.period = currentPeriodEnd(s, hasEnd)]
    [] events[e].kind = "halted" -> [s EXCEPT !.status = "HALTED"]
    [] events[e].kind = "cancelled" -> [s EXCEPT !.status = "CANCELLED", !.isFounding = FALSE]
    [] events[e].kind = "expired" -> [s EXCEPT !.status = "EXPIRED"]
    [] events[e].kind = "failed" -> [s EXCEPT !.status = "PAST_DUE"]

recordChargedInvoice_MutNotIdempotent(e, targets) ==
  IF events[e].kind = "charged" /\ targets # {}
  THEN /\ sequence' = sequence + 1
       /\ invoices' = invoices \cup {[number |-> sequence + 1, payment |-> events[e].payment]}
  ELSE UNCHANGED <<sequence, invoices>>

\* recordChargedInvoice: once per payment, the next number of the sequence
recordChargedInvoice(e, targets) ==
  IF /\ events[e].kind = "charged" /\ targets # {}
     /\ \A i \in invoices : i.payment # events[e].payment
  THEN /\ sequence' = sequence + 1
       /\ invoices' = invoices \cup {[number |-> sequence + 1, payment |-> events[e].payment]}
  ELSE UNCHANGED <<sequence, invoices>>

commitEvent(e, targets) ==
  /\ \E hasEnd \in BOOLEAN :
       sub' = [w \in Workspaces |-> IF w \in targets THEN applyEvent(sub[w], e, hasEnd)
                                                     ELSE sub[w]]
  /\ recordChargedInvoice(e, targets)
  /\ row' = [row EXCEPT ![e] = "processed"] /\ applied' = [applied EXCEPT ![e] = @ + 1]
  /\ lapsed' = (lapsed \/ \E w \in Workspaces : sub'[w].isFounding
                                                 /\ sub'[w].status \in {"HALTED", "EXPIRED"})

\* the updates and the commit.  A commit that fails, or a process that dies, leaves
\* the event to the next delivery.
processEvent(h) ==
  /\ handler[h] # 0 /\ tx[h].open
  /\ \/ commitEvent(handler[h], tx[h].targets) /\ UNCHANGED upsets
     \/ Upset /\ UNCHANGED <<sub, row, applied, invoices, sequence, lapsed>>
  /\ handler' = [handler EXCEPT ![h] = 0] /\ tx' = [tx EXCEPT ![h] = NoTransaction]
  /\ requestsAside /\ scanAside /\ UNCHANGED events

WebhookStep(h) ==
  \/ razorpayDelivers(h) \/ razorpayRepeats(h)
  \/ findSubscription(h) \/ processEvent(h)

-----------------------------------------------------------------------------
(* TrialExpiryProcessor.expireTrials and the clock                         *)

\* The first scan here is the first one after trialEndsAt and the grace days have
\* passed; the scans before it skip every workspace.
trialOver == scan.runs > 0

\* all workspaces with their subscriptions are read at once
scanReads ==
  /\ scan.todo = {} /\ scan.runs < MaxScans
  /\ scan' = [runs |-> scan.runs + 1,
              todo |-> {w \in Workspaces : sub[w].status = "TRIAL"}]
  /\ requestsAside /\ webhooksAside /\ UNCHANGED <<sub, upsets>>

\* then each row read as TRIAL is written, by its id
scanWrites(w) ==
  /\ w \in scan.todo
  /\ sub' = [sub EXCEPT ![w].status = "EXPIRED"]
  /\ scan' = [scan EXCEPT !.todo = @ \ {w}]
  /\ lapsed' = (lapsed \/ sub[w].isFounding)
  /\ requestsAside
  /\ UNCHANGED <<events, row, applied, handler, tx, invoices, sequence, upsets>>

\* currentPeriodEnd comes
periodEnds(w) ==
  /\ sub[w].period = "running"
  /\ sub' = [sub EXCEPT ![w].period = "over"]
  /\ requestsAside /\ webhooksAside /\ scanAside /\ UNCHANGED upsets

isReadOnly_MutExpiredAtOnce(s) ==
  CASE s.status = "ACTIVE" -> FALSE
    [] s.status \in {"HALTED", "CANCELLED", "EXPIRED"} -> TRUE
    [] s.status = "PAST_DUE" -> s.period # "running"
    [] OTHER -> trialOver

\* EntitlementsService.getWorkspaceEntitlements, its isReadOnly
isReadOnly(s) ==
  CASE s.status = "ACTIVE" -> FALSE
    [] s.status = "HALTED" -> TRUE
    [] s.status \in {"PAST_DUE", "CANCELLED", "EXPIRED"} -> s.period # "running"
    [] OTHER -> trialOver

\* The fence of the publishing worker, and of the publishability check before it, which
\* read the same rows themselves; the trial of a workspace with a row is not looked at.
publishFence(s) ==
  \/ s.status = "HALTED"
  \/ s.status \in {"PAST_DUE", "CANCELLED", "EXPIRED"} /\ s.period = "over"
  \/ s.status = "NONE" /\ trialOver

Next ==
  \/ \E w \in Workspaces : RequestStep(w) \/ scanWrites(w) \/ periodEnds(w)
  \/ \E h \in Handlers : WebhookStep(h)
  \/ scanReads

Spec == Init /\ [][Next]_billingVars

-----------------------------------------------------------------------------

\* Each event takes effect once, and has taken effect when it is marked processed:
\* concurrent deliveries, failed commits and redeliveries included.  The look at
\* "processed" inside the transaction is what ensures the first half.
AppliedOnce == \A e \in Ids : applied[e] = (IF row[e] = "processed" THEN 1 ELSE 0)

\* Tax invoices: one per payment, numbered 1, 2, ... without a gap.
InvoicesAreSequential ==
  /\ {i.number : i \in invoices} = 1..sequence
  /\ \A i, j \in invoices : i.payment = j.payment \/ i.number = j.number => i = j

\* The lock on the plan row: as long as no founding subscription has been HALTED or
\* EXPIRED (which gives its seat away), concurrent claims never oversell the tier.
ClaimsAreSerialized == ~lapsed => Cardinality(Claimed) <= MaxSeats

\* The daily scan writes EXPIRED from what it read earlier.  Whatever a webhook has made
\* of the row since, it takes write access from no workspace whose period is paid.
ScanSparesPaidPeriods ==
  [][\A w \in Workspaces :
       w \in scan.todo /\ w \notin scan'.todo /\ sub[w].period = "running"
         => (isReadOnly(sub'[w]) => isReadOnly(sub[w]))]_billingVars

-----------------------------------------------------------------------------
(* What the repository says                                                *)

\* "re-checks workspace read-only status in worker prior to social network dispatch":
\* the fence before a publication stops every workspace that is read-only.
FenceStopsReadOnly == \A w \in Workspaces : isReadOnly(sub[w]) => publishFence(sub[w])
=============================================================================
