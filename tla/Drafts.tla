------------------------------- MODULE Drafts -------------------------------
(***************************************************************************)
(* Editing a post while its targets are published.  One post, its rows of  *)
(* PostPlatformVariant, the editing and lifecycle commands of              *)
(* PublishingApplicationService and what a publishing job does with the    *)
(* content.  updateDraft and deletePost lock the post and its rows;        *)
(* addTarget, updateTarget and removeTarget read first and write later.    *)
(*                                                                         *)
(* A job is no more than a hint to load the row, which is looked at again, *)
(* so the queue is left out: any worker may load a QUEUED row at any time. *)
(* Attempts, polling, recovery and deletion are in Publishing.             *)
(***************************************************************************)
EXTENDS Naturals, PublicationStates

CONSTANTS
  Accounts,
  Workers,
  Calls,        \* requests to add, update or remove a target in flight
  MaxRows,      \* bound: targets ever added
  MaxEdits,     \* bound: contents ever written
  MaxCommands   \* bound: publish, retry, schedule, unschedule and cancel requests

ASSUME DraftsAssumption == MaxRows \in Nat /\ MaxEdits \in Nat /\ MaxCommands \in Nat

VARIABLES
  post,       \* Post.content and its media, as the number of the edit; 0: no such row
  row,        \* PostPlatformVariant by id
  call,       \* what each request has read
  wk,         \* the publishing job of each worker
  edits, commands,
  sent,       \* what was sent to the provider for each row
  cancelled,  \* the dispatches the user has cancelled
  raced       \* rows that a write hit whose check had been made on an earlier state

draftVars == <<post, row, call, wk, edits, commands, sent, cancelled, raced>>

Ids == 1..MaxRows
Contents == 0..MaxEdits

\* content 0: none of its own; started: executionMetadata is set
Row(account) == [status |-> "DRAFT", account |-> account, content |-> 0, version |-> 0,
                 started |-> FALSE]

\* NEW: not added yet, GONE: deleted
NoRow(status) == [status |-> status, account |-> "none", content |-> 0, version |-> 0,
                  started |-> FALSE]

Exists(i) == row[i].status \notin {"NEW", "GONE"}

NoCall == [op |-> "idle", id |-> 0, account |-> "none"]
NoJob == [pc |-> "idle", id |-> 0, version |-> 0, post |-> 0, content |-> 0]
Nothing == [version |-> 0, post |-> 0, content |-> 0]

TypeOK ==
  /\ post \in Contents /\ edits \in Contents /\ commands \in 0..MaxCommands
  /\ row \in [Ids -> [status : Statuses \cup {"NEW", "GONE"}, account : Accounts \cup {"none"},
                      content : Contents, version : Nat, started : BOOLEAN]]
  /\ call \in [Calls -> [op : {"idle", "add", "update", "remove"}, id : Ids \cup {0},
                         account : Accounts \cup {"none"}]]
  /\ wk \in [Workers -> [pc : {"idle", "variant", "loaded", "claimed", "started", "mutate",
                               "result"},
                         id : Ids \cup {0}, version : Nat, post : Contents, content : Contents]]
  /\ sent \in [Ids -> [version : Nat, post : Contents, content : Contents]]
  /\ cancelled \in SUBSET (Ids \X Nat) /\ raced \in SUBSET Ids

Init ==
  /\ post = 0 /\ edits = 0 /\ commands = 0
  /\ row = [i \in Ids |-> NoRow("NEW")]
  /\ call = [c \in Calls |-> NoCall]
  /\ wk = [w \in Workers |-> NoJob]
  /\ sent = [i \in Ids |-> Nothing]
  /\ cancelled = {} /\ raced = {}

edit == edits < MaxEdits /\ edits' = edits + 1
command == commands < MaxCommands /\ commands' = commands + 1

\* the states in which the commands below refuse to touch a target, or its post
locked == {"QUEUED", "PUBLISHING", "PUBLISHED", "UNKNOWN", "SCHEDULED"}

-----------------------------------------------------------------------------
(* Posts: one transaction each, FOR UPDATE on the post and its rows        *)

createDraft ==
  /\ edits = 0
  /\ edit /\ post' = edits'
  /\ UNCHANGED <<row, call, wk, commands, sent, cancelled, raced>>

updateDraft ==
  /\ post # 0 /\ \A i \in Ids : row[i].status \notin locked
  /\ edit /\ post' = edits'
  /\ UNCHANGED <<row, call, wk, commands, sent, cancelled, raced>>

\* the rows go with the post (onDelete: Cascade)
deletePost ==
  /\ post # 0 /\ \A i \in Ids : row[i].status \notin locked
  /\ post' = 0
  /\ row' = [i \in Ids |-> IF Exists(i) THEN NoRow("GONE") ELSE row[i]]
  /\ UNCHANGED <<call, wk, edits, commands, sent, cancelled, raced>>

-----------------------------------------------------------------------------
(* Targets: a read, and the write later                                    *)

targetStep == UNCHANGED <<post, wk, commands, sent, cancelled>>

Targeted(account) == \E i \in Ids : Exists(i) /\ row[i].account = account

\* addTarget: PUBLICATION_TARGET_ALREADY_EXISTS
addTargetReads(c, account) ==
  /\ call[c] = NoCall /\ post # 0 /\ ~Targeted(account)
  /\ call' = [call EXCEPT ![c] = [NoCall EXCEPT !.op = "add", !.account = account]]
  /\ targetStep /\ UNCHANGED <<row, edits, raced>>

\* the insert, under the foreign key and @@unique([postId, socialAccountId])
addTargetCreates(c) ==
  /\ call[c].op = "add"
  /\ IF post = 0 \/ Targeted(call[c].account)
       THEN UNCHANGED row
       ELSE \E i \in Ids :
              /\ row[i].status = "NEW" /\ \A j \in 1..(i - 1) : row[j].status # "NEW"
              /\ row' = [row EXCEPT ![i] = Row(call[c].account)]
  /\ call' = [call EXCEPT ![c] = NoCall]
  /\ targetStep /\ UNCHANGED <<edits, raced>>

targetReads(c, op, i) ==
  /\ call[c] = NoCall /\ Exists(i) /\ row[i].status \notin locked
  /\ call' = [call EXCEPT ![c] = [NoCall EXCEPT !.op = op, !.id = i]]
  /\ targetStep /\ UNCHANGED <<row, edits, raced>>

\* updateMany by id: whatever the row has become, and nothing when it is gone
updateTargetWrites(c) ==
  /\ call[c].op = "update"
  /\ LET i == call[c].id IN
     IF Exists(i)
       THEN /\ edit
            /\ row' = [row EXCEPT ![i].content = edits']
            /\ raced' = IF row[i].status \in locked THEN raced \cup {i} ELSE raced
       ELSE UNCHANGED <<row, edits, raced>>
  /\ call' = [call EXCEPT ![c] = NoCall]
  /\ targetStep

\* deleteMany by id
removeTargetWrites(c) ==
  /\ call[c].op = "remove"
  /\ LET i == call[c].id IN
       row' = IF Exists(i) THEN [row EXCEPT ![i] = NoRow("GONE")] ELSE row
  /\ call' = [call EXCEPT ![c] = NoCall]
  /\ targetStep /\ UNCHANGED <<edits, raced>>

CallStep(c) ==
  \/ \E a \in Accounts : addTargetReads(c, a)
  \/ addTargetCreates(c)
  \/ \E op \in {"update", "remove"}, i \in Ids : targetReads(c, op, i)
  \/ updateTargetWrites(c) \/ removeTargetWrites(c)

-----------------------------------------------------------------------------
(* Lifecycle commands: a conditional update of the status                  *)

commandStep == UNCHANGED <<post, call, wk, edits, sent, raced>>

transitionVariantState_MutNoBump(i, expected, newState) ==
  /\ row[i].status \in expected
  /\ row' = [row EXCEPT ![i].status = newState]

\* entering QUEUED is a new dispatch
transitionVariantState(i, expected, newState) ==
  /\ row[i].status \in expected
  /\ row' = [row EXCEPT ![i].status = newState,
                        ![i].version = IF newState = "QUEUED" THEN @ + 1 ELSE @]

\* requestPublish and requestRetry, once validateTarget finds the row publishable
requestPublish(i) ==
  /\ command /\ commandStep /\ UNCHANGED cancelled
  /\ \/ transitionVariantState(i, {"DRAFT", "SCHEDULED"}, "QUEUED")
     \/ transitionVariantState(i, {"FAILED"}, "QUEUED")

schedule(i) ==
  /\ command /\ commandStep /\ UNCHANGED cancelled
  /\ transitionVariantState(i, {"DRAFT"}, "SCHEDULED")

\* unschedule, and the rollback of schedule when the row is not publishable
unschedule(i) ==
  /\ command /\ commandStep /\ UNCHANGED cancelled
  /\ transitionVariantState(i, {"SCHEDULED"}, "DRAFT")

\* the dispatcher's promoteScheduled
promoteScheduled(i) ==
  /\ commandStep /\ UNCHANGED <<commands, cancelled>>
  /\ transitionVariantState(i, {"SCHEDULED"}, "QUEUED")

cancelQueued_MutStatus(i) ==
  /\ command /\ commandStep
  /\ transitionVariantState(i, {"QUEUED"}, "CANCELLED")
  /\ cancelled' = cancelled \cup {<<i, row[i].version>>}

cancelQueued(i) ==
  /\ command /\ commandStep
  /\ transitionVariantState(i, {"QUEUED"}, "DRAFT")
  /\ cancelled' = cancelled \cup {<<i, row[i].version>>}

CommandStep(i) ==
  requestPublish(i) \/ schedule(i) \/ unschedule(i) \/ promoteScheduled(i) \/ cancelQueued(i)

-----------------------------------------------------------------------------
(* The publishing job                                                      *)

jobStep == UNCHANGED <<post, call, edits, commands, cancelled>>

Job(w) == row[wk[w].id]
Goto(w, pc) == wk' = [wk EXCEPT ![w].pc = pc]
Return(w) == wk' = [wk EXCEPT ![w] = NoJob]

\* 1. Authoritative load: the row first ...
loadVariant(w, i) ==
  /\ wk[w] = NoJob /\ row[i].status = "QUEUED"
  /\ wk' = [wk EXCEPT ![w] = [NoJob EXCEPT !.pc = "variant", !.id = i,
                                !.version = row[i].version, !.content = row[i].content]]
  /\ jobStep /\ UNCHANGED <<row, sent, raced>>

\* ... then the post with its media: the relations are queries of their own
loadPost(w) ==
  /\ wk[w].pc = "variant"
  /\ IF post = 0 THEN Return(w)
                 ELSE wk' = [wk EXCEPT ![w].pc = "loaded", ![w].post = post]
  /\ jobStep /\ UNCHANGED <<row, sent, raced>>

\* 2b, 2c, 3: the account, billing and validation fences write FAILED by id
refuse(w) ==
  /\ wk[w].pc = "loaded"
  /\ IF Exists(wk[w].id)
       THEN /\ row' = [row EXCEPT ![wk[w].id].status = "FAILED"]
            /\ raced' = IF Job(w).status = "QUEUED" /\ Job(w).version = wk[w].version
                          THEN raced ELSE raced \cup {wk[w].id}
       ELSE UNCHANGED <<row, raced>>
  /\ Return(w)
  /\ jobStep /\ UNCHANGED sent

claim_MutAnyStatus(w) ==
  /\ wk[w].pc = "loaded"
  /\ IF Exists(wk[w].id) /\ Job(w).version = wk[w].version
       THEN row' = [row EXCEPT ![wk[w].id].status = "PUBLISHING"] /\ Goto(w, "claimed")
       ELSE UNCHANGED row /\ Return(w)
  /\ jobStep /\ UNCHANGED <<sent, raced>>

\* 4. Atomic Worker Claim
claim(w) ==
  /\ wk[w].pc = "loaded"
  /\ IF Job(w).status = "QUEUED" /\ Job(w).version = wk[w].version
       THEN row' = [row EXCEPT ![wk[w].id].status = "PUBLISHING"] /\ Goto(w, "claimed")
       ELSE UNCHANGED row /\ Return(w)
  /\ jobStep /\ UNCHANGED <<sent, raced>>

\* startOperation: a row that has had an operation is left PUBLISHING
startOperation(w) ==
  /\ wk[w].pc = "claimed"
  /\ IF Exists(wk[w].id) /\ ~Job(w).started
       THEN /\ row' = [row EXCEPT ![wk[w].id].started = TRUE, ![wk[w].id].version = @ + 1]
            /\ wk' = [wk EXCEPT ![w].pc = "started"]
       ELSE UNCHANGED row /\ Return(w)
  /\ jobStep /\ UNCHANGED <<sent, raced>>

\* dispatchVersion as the job knows it: startOperation and every transition add one
expectedDispatchVersion(w) == wk[w].version + (IF wk[w].pc = "started" THEN 1 ELSE 2)

Current(w) == Exists(wk[w].id) /\ Job(w).version = expectedDispatchVersion(w)

\* Before the final request: a failure of the adapter needs the operation to be the job's;
\* refused credentials (FAILED) and an exception (UNKNOWN) are written by id.
failBefore(w) ==
  /\ wk[w].pc = "started"
  /\ \/ /\ row' = IF Current(w) THEN [row EXCEPT ![wk[w].id].status = "FAILED",
                                                 ![wk[w].id].version = @ + 1]
                                ELSE row
        /\ UNCHANGED raced
     \/ /\ Exists(wk[w].id)
        /\ \E status \in {"FAILED", "UNKNOWN"} : row' = [row EXCEPT ![wk[w].id].status = status]
        /\ raced' = IF Current(w) THEN raced ELSE raced \cup {wk[w].id}
  /\ Return(w)
  /\ jobStep /\ UNCHANGED sent

\* the checkpoint before the final request
beforeFinalMutation(w) ==
  /\ wk[w].pc = "started"
  /\ IF Current(w)
       THEN row' = [row EXCEPT ![wk[w].id].version = @ + 1] /\ Goto(w, "mutate")
       ELSE UNCHANGED row /\ Return(w)
  /\ jobStep /\ UNCHANGED <<sent, raced>>

\* providerInput is what was loaded
publish(w) ==
  /\ wk[w].pc = "mutate"
  /\ sent' = [sent EXCEPT ![wk[w].id] = [version |-> wk[w].version, post |-> wk[w].post,
                                         content |-> wk[w].content]]
  /\ Goto(w, "result")
  /\ jobStep /\ UNCHANGED <<row, raced>>

\* handleSuccess and handleUnknown, when the operation is the job's; a success that cannot
\* be recorded becomes UNKNOWN by id, an unknown result that cannot is left
handleResult(w) ==
  /\ wk[w].pc = "result"
  /\ \/ /\ Current(w)
        /\ \E status \in {"PUBLISHED", "UNKNOWN"} :
             row' = [row EXCEPT ![wk[w].id].status = status, ![wk[w].id].version = @ + 1]
     \/ Exists(wk[w].id) /\ row' = [row EXCEPT ![wk[w].id].status = "UNKNOWN"]
     \/ ~Current(w) /\ UNCHANGED row
  /\ Return(w)
  /\ jobStep /\ UNCHANGED <<sent, raced>>

WorkerStep(w) ==
  \/ \E i \in Ids : loadVariant(w, i)
  \/ loadPost(w) \/ refuse(w) \/ claim(w) \/ startOperation(w) \/ failBefore(w)
  \/ beforeFinalMutation(w) \/ publish(w) \/ handleResult(w)

Next ==
  \/ createDraft \/ updateDraft \/ deletePost
  \/ \E c \in Calls : CallStep(c)
  \/ \E i \in Ids : CommandStep(i)
  \/ \E w \in Workers : WorkerStep(w)

Spec == Init /\ [][Next]_draftVars

-----------------------------------------------------------------------------

Owns(w, i) == wk[w].id = i /\ wk[w].pc \in {"claimed", "started", "mutate", "result"}

\* What a job publishes is what the user sees: from the claim on, and once it is sent and
\* the row PUBLISHED or UNKNOWN, the post and the target still hold the content the job
\* loaded, although it loaded them before its claim and without a lock.  Rows hit by a
\* write that was checked on an earlier state are the exception: a fence's late FAILED,
\* and an updateTarget that was under way when the target was queued.
PublishesWhatIsSeen ==
  \A i \in Ids \ raced : Exists(i) =>
    /\ \A w \in Workers : Owns(w, i) => wk[w].post = post /\ wk[w].content = row[i].content
    /\ \/ row[i].status = "PUBLISHED"
       \/ row[i].status = "UNKNOWN" /\ sent[i] # Nothing
         => sent[i].post = post /\ sent[i].content = row[i].content

\* A dispatch the user has cancelled is never sent, however far a worker had come with it:
\* the claim looks at the status again, and a later dispatch has another version.
CancelledIsNotSent == \A i \in Ids : <<i, sent[i].version>> \notin cancelled
=============================================================================
