---------------------------- MODULE DraftsProofs ----------------------------
(***************************************************************************)
(* What TLAPS proves about Drafts, for any accounts, workers, requests and *)
(* bounds: the type invariant, that a cancelled dispatch is never sent and *)
(* that what a job publishes is what the user sees.                        *)
(*                                                                         *)
(* Neither property is inductive.  That a cancelled dispatch is not sent   *)
(* needs to know that a dispatch number is spent once it is claimed or     *)
(* cancelled (DispatchesSpent); that the content sent is the content seen  *)
(* needs to know what a job has loaded while its dispatch is still queued  *)
(* (LoadedIsCurrent) and that a claimed row has one owner, whose operation *)
(* it is (OwnedByOne).                                                     *)
(***************************************************************************)
EXTENDS Drafts, TLAPS

-----------------------------------------------------------------------------
(* The inductive invariant                                                 *)

Past(w) == wk[w].pc \in {"claimed", "started", "mutate", "result"}

\* a request that updates or removes names a row, a job that is under way has loaded one
Carrying ==
  /\ \A c \in Calls : call[c].op \in {"update", "remove"} => call[c].id \in Ids
  /\ \A w \in Workers : wk[w].pc # "idle" => wk[w].id \in Ids

\* rows are rows of the post
RowsHavePost ==
  /\ \A i \in Ids : Exists(i) => post # 0
  /\ post # 0 => edits # 0

\* nothing is known of a row that was not added yet
NewIsUntouched ==
  \A i \in Ids : row[i].status = "NEW" =>
    /\ sent[i] = Nothing
    /\ \A w \in Workers : wk[w].pc # "idle" => wk[w].id # i
    /\ \A v \in Nat : <<i, v>> \notin cancelled

\* dispatch v of row i is over or under way: it cannot be claimed again
Spent(i, v) ==
  Exists(i) => v <= row[i].version /\ (row[i].status = "QUEUED" => v < row[i].version)

\* A cancelled dispatch, one that is claimed and one that was sent are spent; the latter two
\* are not cancelled.
DispatchesSpent ==
  /\ \A i \in Ids : row[i].status = "QUEUED" => row[i].version > 0
  /\ \A i \in Ids, v \in Nat : <<i, v>> \in cancelled => v > 0 /\ Spent(i, v)
  /\ \A w \in Workers : Past(w) =>
       Spent(wk[w].id, wk[w].version) /\ <<wk[w].id, wk[w].version>> \notin cancelled
  /\ \A i \in Ids : Spent(i, sent[i].version) /\ <<i, sent[i].version>> \notin cancelled

\* What a job loaded before its claim holds as long as its dispatch is queued
LoadedIsCurrent ==
  \A w \in Workers : wk[w].pc \in {"variant", "loaded"} /\ Exists(wk[w].id) =>
    /\ wk[w].version <= Job(w).version
    /\ Job(w).status = "QUEUED" /\ Job(w).version = wk[w].version /\ wk[w].id \notin raced
         => /\ wk[w].content = Job(w).content
            /\ wk[w].pc = "loaded" => wk[w].post = post

\* A row that was claimed is PUBLISHING until its only owner lets go of it, and the owner's
\* operation is the one the row has.
OwnedByOne ==
  \A i \in Ids \ raced, w \in Workers : Exists(i) /\ Owns(w, i) =>
    /\ row[i].status = "PUBLISHING"
    /\ wk[w].post = post /\ wk[w].content = row[i].content
    /\ wk[w].pc = "claimed" => row[i].version = wk[w].version
    /\ wk[w].pc # "claimed" => Current(w) /\ row[i].started
    /\ wk[w].pc \in {"started", "mutate"} => sent[i] = Nothing
    /\ wk[w].pc = "result" => sent[i].post = post /\ sent[i].content = row[i].content
    /\ \A u \in Workers : Owns(u, i) => u = w

\* a row whose operation has not been started was not sent; one that ended was sent as seen
SentAsSeen ==
  \A i \in Ids \ raced : Exists(i) =>
    /\ ~row[i].started => sent[i] = Nothing
    /\ row[i].status = "PUBLISHED" \/ (row[i].status = "UNKNOWN" /\ sent[i] # Nothing)
         => sent[i].post = post /\ sent[i].content = row[i].content

DraftInv ==
  /\ Carrying /\ RowsHavePost /\ NewIsUntouched /\ DispatchesSpent
  /\ LoadedIsCurrent /\ OwnedByOne /\ SentAsSeen

-----------------------------------------------------------------------------
(* Types                                                                   *)

RowType == [status : Statuses \cup {"NEW", "GONE"}, account : Accounts \cup {"none"},
            content : Contents, version : Nat, started : BOOLEAN]
JobType == [pc : {"idle", "variant", "loaded", "claimed", "started", "mutate", "result"},
            id : Ids \cup {0}, version : Nat, post : Contents, content : Contents]

\* The rows and requests the code starts from have their types.
LEMMA BlankTypes ==
  /\ \A a \in Accounts \cup {"none"} : Row(a) \in RowType
  /\ NoRow("NEW") \in RowType /\ NoRow("GONE") \in RowType
  /\ NoJob \in JobType
  /\ Nothing \in [version : Nat, post : Contents, content : Contents]
  /\ NoCall \in [op : {"idle", "add", "update", "remove"}, id : Ids \cup {0},
                 account : Accounts \cup {"none"}]
BY DraftsAssumption DEF Row, NoRow, NoJob, Nothing, NoCall, RowType, JobType, Contents, Statuses

\* The next edit has a number, and the command counter stays within its bound.
LEMMA Counters ==
  ASSUME TypeOK
  PROVE  /\ edit => edits' \in Contents /\ edits' # 0
         /\ command => commands' \in 0..MaxCommands
BY DraftsAssumption DEF TypeOK, edit, command, Contents

\* A row whose status, version or mark of its operation is written is still a row.
LEMMA RowChanges ==
  ASSUME NEW r \in RowType, NEW s \in Statuses, NEW v \in Nat
  PROVE  /\ [r EXCEPT !.status = s, !.version = v] \in RowType
         /\ [r EXCEPT !.started = TRUE, !.version = v] \in RowType
         /\ r.version \in Nat /\ r.version + 1 \in Nat
<1>1. \A x \in RowType : [x EXCEPT !.version = v] \in RowType
  BY DEF RowType
<1>2. [r EXCEPT !.status = s] \in RowType /\ [r EXCEPT !.started = TRUE] \in RowType
  BY DEF RowType
<1>3. /\ [r EXCEPT !.status = s, !.version = v] = [[r EXCEPT !.status = s] EXCEPT !.version = v]
      /\ [r EXCEPT !.started = TRUE, !.version = v]
           = [[r EXCEPT !.started = TRUE] EXCEPT !.version = v]
  OBVIOUS
<1>4. r.version \in Nat /\ r.version + 1 \in Nat
  BY DEF RowType
<1> QED
  BY <1>1, <1>2, <1>3, <1>4

\* A conditional change of a row's status (transitionVariantState).
LEMMA TransitionTypes ==
  ASSUME TypeOK, NEW i \in Ids, NEW E, NEW s \in Statuses, transitionVariantState(i, E, s)
  PROVE  row' \in [Ids -> RowType]
<1>1. row \in [Ids -> RowType] /\ row[i] \in RowType
  BY DEF TypeOK, RowType
<1> DEFINE r == [row[i] EXCEPT !.status = s,
                               !.version = IF s = "QUEUED" THEN @ + 1 ELSE @]
<1>2. r \in RowType
  BY <1>1, RowChanges
<1>3. row' = [row EXCEPT ![i] = r]
  BY DEF transitionVariantState
<1> QED
  BY <1>1, <1>2, <1>3

\* The initial state satisfies the type invariant.
LEMMA TypeInit == Init => TypeOK
<1> SUFFICES ASSUME Init PROVE TypeOK
  OBVIOUS
<1>1. 0 \in Contents /\ 0 \in 0..MaxCommands
  BY DraftsAssumption DEF Contents
<1> QED
  BY <1>1, BlankTypes DEF Init, TypeOK, RowType, JobType

\* The commands on the post keep the types.
LEMMA PostTypes ==
  ASSUME TypeOK, createDraft \/ updateDraft \/ deletePost
  PROVE  TypeOK'
<1>1. CASE createDraft
  BY <1>1, Counters DEF createDraft, TypeOK
<1>2. CASE updateDraft
  BY <1>2, Counters DEF updateDraft, TypeOK
<1>3. CASE deletePost
  <2>1. 0 \in Contents
    BY DraftsAssumption DEF Contents
  <2>2. row \in [Ids -> RowType]
    BY DEF TypeOK, RowType
  <2>3. row' \in [Ids -> RowType]
    BY <1>3, <2>2, BlankTypes DEF deletePost
  <2> QED
    BY <1>3, <2>1, <2>3 DEF deletePost, TypeOK, RowType
<1> QED
  BY <1>1, <1>2, <1>3

\* The requests on targets keep the types.
LEMMA CallTypes ==
  ASSUME TypeOK, Carrying, NEW c \in Calls, CallStep(c)
  PROVE  TypeOK'
<1> DEFINE CT == [op : {"idle", "add", "update", "remove"}, id : Ids \cup {0},
                  account : Accounts \cup {"none"}]
<1>1. /\ call \in [Calls -> CT] /\ NoCall \in CT /\ row \in [Ids -> RowType]
      /\ edits \in Contents /\ raced \in SUBSET Ids
  BY BlankTypes DEF TypeOK, RowType
<1>2. ASSUME call' \in [Calls -> CT], row' \in [Ids -> RowType], edits' \in Contents,
             raced' \in SUBSET Ids, targetStep
      PROVE  TypeOK'
  BY <1>2 DEF TypeOK, targetStep, RowType
<1> HIDE DEF CT
<1>3. ASSUME NEW a \in Accounts, addTargetReads(c, a)
      PROVE  TypeOK'
  <2>1. [NoCall EXCEPT !.op = "add", !.account = a] \in CT
    BY DEF NoCall, CT
  <2>2. call' \in [Calls -> CT]
    BY <1>1, <1>3, <2>1 DEF addTargetReads
  <2> QED
    BY <1>1, <1>2, <1>3, <2>2 DEF addTargetReads
<1>4. CASE addTargetCreates(c)
  <2>1. call[c].account \in Accounts \cup {"none"}
    BY <1>1 DEF CT
  <2>2. Row(call[c].account) \in RowType
    BY <2>1, BlankTypes
  <2>3. row' \in [Ids -> RowType]
    BY <1>1, <1>4, <2>2 DEF addTargetCreates
  <2>4. call' \in [Calls -> CT]
    BY <1>1, <1>4 DEF addTargetCreates
  <2> QED
    BY <1>1, <1>2, <1>4, <2>3, <2>4 DEF addTargetCreates
<1>5. ASSUME NEW op \in {"update", "remove"}, NEW i \in Ids, targetReads(c, op, i)
      PROVE  TypeOK'
  <2>1. [NoCall EXCEPT !.op = op, !.id = i] \in CT
    BY DEF NoCall, CT
  <2>2. call' \in [Calls -> CT]
    BY <1>1, <1>5, <2>1 DEF targetReads
  <2> QED
    BY <1>1, <1>2, <1>5, <2>2 DEF targetReads
<1>6. CASE updateTargetWrites(c)
  <2>1. call[c].id \in Ids
    BY <1>6 DEF Carrying, updateTargetWrites
  <2>2. edits' \in Contents
    BY <1>1, <1>6, Counters DEF updateTargetWrites
  <2>3. row' \in [Ids -> RowType] /\ raced' \in SUBSET Ids
    <3>1. CASE Exists(call[c].id)
      <4>1. row' = [row EXCEPT ![call[c].id].content = edits'] /\ raced' \in SUBSET Ids
        BY <1>1, <1>6, <2>1, <3>1 DEF updateTargetWrites
      <4> QED
        BY <1>1, <2>1, <2>2, <4>1 DEF RowType
    <3>2. CASE ~Exists(call[c].id)
      BY <1>1, <1>6, <3>2 DEF updateTargetWrites
    <3> QED
      BY <3>1, <3>2
  <2>4. call' \in [Calls -> CT]
    BY <1>1, <1>6 DEF updateTargetWrites
  <2> QED
    BY <1>2, <1>6, <2>2, <2>3, <2>4 DEF updateTargetWrites
<1>7. CASE removeTargetWrites(c)
  <2>1. row' \in [Ids -> RowType] /\ call' \in [Calls -> CT]
    BY <1>1, <1>7, BlankTypes DEF removeTargetWrites
  <2> QED
    BY <1>1, <1>2, <1>7, <2>1 DEF removeTargetWrites
<1> QED
  BY <1>3, <1>4, <1>5, <1>6, <1>7 DEF CallStep

\* The lifecycle commands keep the types.
LEMMA CommandTypes ==
  ASSUME TypeOK, NEW i \in Ids, CommandStep(i)
  PROVE  TypeOK'
<1>1. ASSUME row' \in [Ids -> RowType], commands' \in 0..MaxCommands,
             cancelled' \in SUBSET (Ids \X Nat), commandStep
      PROVE  TypeOK'
  BY <1>1 DEF TypeOK, commandStep, RowType
<1>2. /\ commands \in 0..MaxCommands /\ cancelled \in SUBSET (Ids \X Nat)
      /\ row[i].version \in Nat
      /\ {"DRAFT", "QUEUED", "SCHEDULED"} \subseteq Statuses
  BY DEF TypeOK, Statuses
<1>3. CASE requestPublish(i)
  BY <1>1, <1>2, <1>3, Counters, TransitionTypes DEF requestPublish
<1>4. CASE schedule(i)
  BY <1>1, <1>2, <1>4, Counters, TransitionTypes DEF schedule
<1>5. CASE unschedule(i)
  BY <1>1, <1>2, <1>5, Counters, TransitionTypes DEF unschedule
<1>6. CASE promoteScheduled(i)
  BY <1>1, <1>2, <1>6, Counters, TransitionTypes DEF promoteScheduled
<1>7. CASE cancelQueued(i)
  BY <1>1, <1>2, <1>7, Counters, TransitionTypes DEF cancelQueued
<1> QED
  BY <1>3, <1>4, <1>5, <1>6, <1>7 DEF CommandStep

\* A publishing job keeps the types.
LEMMA WorkerTypes ==
  ASSUME TypeOK, Carrying, NEW w \in Workers, WorkerStep(w)
  PROVE  TypeOK'
<1> DEFINE ST == [version : Nat, post : Contents, content : Contents]
<1>1. /\ row \in [Ids -> RowType] /\ wk \in [Workers -> JobType] /\ sent \in [Ids -> ST]
      /\ raced \in SUBSET Ids /\ post \in Contents /\ NoJob \in JobType
  BY BlankTypes DEF TypeOK, RowType, JobType
<1>2. ASSUME row' \in [Ids -> RowType], wk' \in [Workers -> JobType], sent' \in [Ids -> ST],
             raced' \in SUBSET Ids, jobStep
      PROVE  TypeOK'
  BY <1>2 DEF TypeOK, jobStep, RowType, JobType
<1> HIDE DEF ST
<1>3. /\ Return(w) => wk' \in [Workers -> JobType]
      /\ \A pc \in {"claimed", "started", "mutate", "result"} :
           Goto(w, pc) => wk' \in [Workers -> JobType]
  BY <1>1 DEF Return, Goto, JobType
<1>4. wk[w].pc # "idle" => wk[w].id \in Ids
  BY DEF Carrying
<1>5. \A i \in Ids, s \in {"FAILED", "UNKNOWN", "PUBLISHED", "PUBLISHING"} :
        [row EXCEPT ![i].status = s] \in [Ids -> RowType]
  BY <1>1 DEF RowType, Statuses
<1> DEFINE moved(i, s) == [row[i] EXCEPT !.status = s, !.version = row[i].version + 1]
<1>6. \A i \in Ids, s \in {"FAILED", "UNKNOWN", "PUBLISHED", "PUBLISHING"} :
        [row EXCEPT ![i] = moved(i, s)] \in [Ids -> RowType]
  BY <1>1, RowChanges DEF Statuses
<1>7. ASSUME NEW i \in Ids, loadVariant(w, i)
      PROVE  TypeOK'
  <2>1. row[i].version \in Nat /\ row[i].content \in Contents
    BY <1>1 DEF RowType
  <2>2. [NoJob EXCEPT !.pc = "variant", !.id = i, !.version = row[i].version,
                      !.content = row[i].content] \in JobType
    BY <1>1, <2>1 DEF JobType
  <2>3. wk' \in [Workers -> JobType]
    BY <1>1, <1>7, <2>2 DEF loadVariant
  <2> QED
    BY <1>1, <1>2, <1>7, <2>3 DEF loadVariant
<1>8. CASE loadPost(w)
  <2>1. wk' \in [Workers -> JobType]
    BY <1>1, <1>3, <1>8 DEF loadPost, JobType
  <2> QED
    BY <1>1, <1>2, <1>8, <2>1 DEF loadPost
<1>9. CASE refuse(w)
  <2>1. row' \in [Ids -> RowType] /\ raced' \in SUBSET Ids
    BY <1>1, <1>4, <1>5, <1>9 DEF refuse
  <2> QED
    BY <1>1, <1>2, <1>3, <1>9, <2>1 DEF refuse
<1>10. CASE claim(w)
  <2>1. row' \in [Ids -> RowType] /\ wk' \in [Workers -> JobType]
    BY <1>1, <1>3, <1>4, <1>5, <1>10 DEF claim
  <2> QED
    BY <1>1, <1>2, <1>10, <2>1 DEF claim
<1>11. CASE startOperation(w)
  <2>1. wk' \in [Workers -> JobType]
    BY <1>1, <1>3, <1>11 DEF startOperation, JobType
  <2>2. row' \in [Ids -> RowType]
    <3> DEFINE r == [row[wk[w].id] EXCEPT !.started = TRUE, !.version = @ + 1]
    <3>1. wk[w].id \in Ids
      BY <1>4, <1>11 DEF startOperation
    <3>2. r \in RowType
      BY <1>1, <3>1, RowChanges DEF Statuses
    <3>3. row' = row \/ row' = [row EXCEPT ![wk[w].id] = r]
      BY <1>11 DEF startOperation
    <3> QED
      BY <1>1, <3>1, <3>2, <3>3
  <2> QED
    BY <1>1, <1>2, <1>11, <2>1, <2>2 DEF startOperation
<1>12. CASE failBefore(w)
  <2>1. row' \in [Ids -> RowType]
    <3>1. wk[w].id \in Ids
      BY <1>4, <1>12 DEF failBefore
    <3>2. \/ row' = row
          \/ row' = [row EXCEPT ![wk[w].id] = moved(wk[w].id, "FAILED")]
          \/ \E s \in {"FAILED", "UNKNOWN"} : row' = [row EXCEPT ![wk[w].id].status = s]
      BY <1>12 DEF failBefore
    <3>3. CASE row' = [row EXCEPT ![wk[w].id] = moved(wk[w].id, "FAILED")]
      BY <1>6, <3>1, <3>3
    <3>4. ASSUME NEW s \in {"FAILED", "UNKNOWN"}, row' = [row EXCEPT ![wk[w].id].status = s]
          PROVE  row' \in [Ids -> RowType]
      BY <1>5, <3>1, <3>4
    <3> QED
      BY <1>1, <3>2, <3>3, <3>4
  <2>2. raced' \in SUBSET Ids
    BY <1>1, <1>4, <1>12 DEF failBefore
  <2> QED
    BY <1>1, <1>2, <1>3, <1>12, <2>1, <2>2 DEF failBefore
<1>13. CASE beforeFinalMutation(w)
  <2>1. wk[w].id \in Ids
    BY <1>4, <1>13 DEF beforeFinalMutation
  <2>2. row' = row \/ row' = [row EXCEPT ![wk[w].id].version = @ + 1]
    BY <1>13 DEF beforeFinalMutation
  <2>3. row' \in [Ids -> RowType]
    BY <1>1, <2>1, <2>2 DEF RowType
  <2>4. wk' \in [Workers -> JobType]
    BY <1>3, <1>13 DEF beforeFinalMutation
  <2> QED
    BY <1>1, <1>2, <1>13, <2>3, <2>4 DEF beforeFinalMutation
<1>14. CASE publish(w)
  <2>1. [version |-> wk[w].version, post |-> wk[w].post, content |-> wk[w].content] \in ST
    BY <1>1 DEF JobType, ST
  <2>2. sent' \in [Ids -> ST] /\ wk' \in [Workers -> JobType]
    BY <1>1, <1>3, <1>14, <2>1 DEF publish
  <2> QED
    BY <1>1, <1>2, <1>14, <2>2 DEF publish
<1>15. CASE handleResult(w)
  <2>1. row' \in [Ids -> RowType]
    <3>1. wk[w].id \in Ids
      BY <1>4, <1>15 DEF handleResult
    <3>2. \/ row' = row
          \/ \E s \in {"PUBLISHED", "UNKNOWN"} :
               row' = [row EXCEPT ![wk[w].id] = moved(wk[w].id, s)]
          \/ row' = [row EXCEPT ![wk[w].id].status = "UNKNOWN"]
      BY <1>15 DEF handleResult
    <3>3. CASE row' = [row EXCEPT ![wk[w].id].status = "UNKNOWN"]
      BY <1>5, <3>1, <3>3
    <3>4. ASSUME NEW s \in {"PUBLISHED", "UNKNOWN"},
                 row' = [row EXCEPT ![wk[w].id] = moved(wk[w].id, s)]
          PROVE  row' \in [Ids -> RowType]
      BY <1>6, <3>1, <3>4
    <3> QED
      BY <1>1, <3>2, <3>3, <3>4
  <2> QED
    BY <1>1, <1>2, <1>3, <1>15, <2>1 DEF handleResult
<1> QED
  BY <1>7, <1>8, <1>9, <1>10, <1>11, <1>12, <1>13, <1>14, <1>15 DEF WorkerStep

\* Every step keeps the types.
LEMMA TypeStep ==
  ASSUME TypeOK, Carrying, [Next]_draftVars
  PROVE  TypeOK'
<1>1. CASE UNCHANGED draftVars
  BY <1>1 DEF draftVars, TypeOK
<1>2. CASE Next
  BY <1>2, PostTypes, CallTypes, CommandTypes, WorkerTypes DEF Next
<1> QED
  BY <1>1, <1>2

-----------------------------------------------------------------------------
(* What a step does to a row and to a job                                  *)

RowAdded(i) == /\ row[i].status = "NEW" /\ post # 0
               /\ row'[i].status = "DRAFT" /\ row'[i].version = 0 /\ ~row'[i].started
RowGone(i) == Exists(i) /\ row'[i].status = "GONE"
RowMoved(i) ==
  /\ Exists(i) /\ row'[i].status \notin {"NEW", "GONE"}
  /\ row'[i].version >= row[i].version
  /\ row'[i].status = "QUEUED" => row[i].status = "QUEUED" \/ row'[i].version > row[i].version

RowSteps == \A i \in Ids : row'[i] = row[i] \/ RowAdded(i) \/ RowGone(i) \/ RowMoved(i)

\* A lifecycle command moves its row, to QUEUED only as a new dispatch.
LEMMA TransitionMoves ==
  ASSUME TypeOK, NEW i \in Ids, NEW E \in SUBSET Statuses,
         NEW s \in {"DRAFT", "SCHEDULED", "QUEUED"}, transitionVariantState(i, E, s)
  PROVE  /\ \A j \in Ids \ {i} : row'[j] = row[j]
         /\ row'[i].status = s /\ row'[i].content = row[i].content
         /\ row'[i].started = row[i].started
         /\ row'[i].version = IF s = "QUEUED" THEN row[i].version + 1 ELSE row[i].version
         /\ row[i].status \in E /\ row[i].version \in Nat
         /\ RowMoved(i)
<1>1. /\ row \in [Ids -> RowType] /\ row[i].version \in Nat
      /\ row[i].status \notin {"NEW", "GONE"}
  BY DEF TypeOK, RowType, transitionVariantState, Statuses
<1>2. /\ \A j \in Ids \ {i} : row'[j] = row[j]
      /\ row'[i].status = s /\ row'[i].content = row[i].content
      /\ row'[i].started = row[i].started
      /\ row'[i].version = IF s = "QUEUED" THEN row[i].version + 1 ELSE row[i].version
      /\ row[i].status \in E
  BY <1>1 DEF transitionVariantState, RowType
<1> QED
  BY <1>1, <1>2 DEF RowMoved, Exists

\* What the lifecycle commands do: one row moves between DRAFT, SCHEDULED, QUEUED and FAILED.
Commanded(i) ==
  /\ \A j \in Ids \ {i} : row'[j] = row[j]
  /\ row[i].status \in {"DRAFT", "SCHEDULED", "QUEUED", "FAILED"}
  /\ row'[i].status \in {"DRAFT", "SCHEDULED", "QUEUED"}
  /\ row'[i].content = row[i].content /\ row'[i].started = row[i].started
  /\ row'[i].status = "QUEUED" => row'[i].version = row[i].version + 1
  /\ row'[i].status # "QUEUED" => row'[i].version = row[i].version
  /\ RowMoved(i)
  /\ UNCHANGED <<post, call, wk, edits, sent, raced>>
  /\ \/ cancelled' = cancelled
     \/ /\ row[i].status = "QUEUED" /\ row'[i].status = "DRAFT"
        /\ cancelled' = cancelled \cup {<<i, row[i].version>>}

\* Every lifecycle command is such a move.
LEMMA CommandMoves ==
  ASSUME TypeOK, NEW i \in Ids, CommandStep(i)
  PROVE  Commanded(i)
<1>1. /\ {"DRAFT", "SCHEDULED"} \in SUBSET Statuses /\ {"FAILED"} \in SUBSET Statuses
      /\ {"DRAFT"} \in SUBSET Statuses /\ {"SCHEDULED"} \in SUBSET Statuses
      /\ {"QUEUED"} \in SUBSET Statuses
  BY DEF Statuses
<1>2. CASE requestPublish(i)
  BY <1>1, <1>2, TransitionMoves DEF requestPublish, commandStep, Commanded
<1>3. CASE schedule(i)
  BY <1>1, <1>3, TransitionMoves DEF schedule, commandStep, Commanded
<1>4. CASE unschedule(i)
  BY <1>1, <1>4, TransitionMoves DEF unschedule, commandStep, Commanded
<1>5. CASE promoteScheduled(i)
  BY <1>1, <1>5, TransitionMoves DEF promoteScheduled, commandStep, Commanded
<1>6. CASE cancelQueued(i)
  BY <1>1, <1>6, TransitionMoves DEF cancelQueued, commandStep, Commanded
<1> QED
  BY <1>2, <1>3, <1>4, <1>5, <1>6 DEF CommandStep

\* What a job may do to the row it has loaded: only the status, the version and the mark of
\* its operation, and never a way back to QUEUED.
Worked(w) ==
  LET i == wk[w].id IN
  /\ wk[w].pc # "idle" /\ i \in Ids
  /\ \A j \in Ids \ {i} : row'[j] = row[j]
  /\ row'[i].content = row[i].content
  /\ row'[i].status \in {row[i].status, "FAILED", "UNKNOWN", "PUBLISHED", "PUBLISHING"}
  /\ row'[i].version \in {row[i].version, row[i].version + 1}
  /\ row[i].started => row'[i].started
  /\ RowMoved(i)

\* Every step of a job leaves the rows alone or works on its own.
LEMMA WorkerMoves ==
  ASSUME TypeOK, Carrying, NEW w \in Workers, WorkerStep(w)
  PROVE  row' = row \/ Worked(w)
<1> DEFINE k == wk[w].id
<1>1. /\ row \in [Ids -> RowType]
      /\ wk[w].pc # "idle" => k \in Ids /\ row[k].version \in Nat
  BY DEF TypeOK, RowType, Carrying
<1>2. ASSUME Exists(k), k \in Ids, wk[w].pc # "idle",
             NEW s \in {"FAILED", "UNKNOWN", "PUBLISHED", "PUBLISHING"},
             row' = [row EXCEPT ![k].status = s]
      PROVE  Worked(w)
  BY <1>1, <1>2 DEF Worked, RowMoved, Exists, RowType
<1>3. ASSUME Exists(k), k \in Ids, wk[w].pc # "idle",
             NEW s \in {"FAILED", "UNKNOWN", "PUBLISHED", "PUBLISHING"},
             row' = [row EXCEPT ![k].status = s, ![k].version = @ + 1]
      PROVE  Worked(w)
  BY <1>1, <1>3 DEF Worked, RowMoved, Exists, RowType
<1>4. ASSUME Exists(k), k \in Ids, wk[w].pc # "idle",
             row' = [row EXCEPT ![k].started = TRUE, ![k].version = @ + 1]
      PROVE  Worked(w)
  BY <1>1, <1>4 DEF Worked, RowMoved, Exists, RowType
<1>5. ASSUME Exists(k), k \in Ids, wk[w].pc # "idle",
             row' = [row EXCEPT ![k].version = @ + 1]
      PROVE  Worked(w)
  BY <1>1, <1>5 DEF Worked, RowMoved, Exists, RowType
<1>6. ASSUME NEW i \in Ids, loadVariant(w, i) PROVE row' = row
  BY <1>6 DEF loadVariant
<1>7. CASE loadPost(w)
  BY <1>7 DEF loadPost
<1>8. CASE refuse(w)
  BY <1>1, <1>2, <1>8 DEF refuse
<1>9. CASE claim(w)
  BY <1>1, <1>2, <1>9 DEF claim, Exists, Job
<1>10. CASE startOperation(w)
  BY <1>1, <1>4, <1>10 DEF startOperation
<1>11. CASE failBefore(w)
  <2>1. \/ row' = row
        \/ Current(w) /\ row' = [row EXCEPT ![k].status = "FAILED", ![k].version = @ + 1]
        \/ Exists(k) /\ row' = [row EXCEPT ![k].status = "FAILED"]
        \/ Exists(k) /\ row' = [row EXCEPT ![k].status = "UNKNOWN"]
    BY <1>11 DEF failBefore
  <2>2. k \in Ids /\ wk[w].pc # "idle"
    BY <1>1, <1>11 DEF failBefore
  <2>3. CASE Current(w) /\ row' = [row EXCEPT ![k].status = "FAILED", ![k].version = @ + 1]
    BY <1>3, <2>2, <2>3 DEF Current
  <2>4. CASE Exists(k) /\ row' = [row EXCEPT ![k].status = "FAILED"]
    BY <1>2, <2>2, <2>4
  <2>5. CASE Exists(k) /\ row' = [row EXCEPT ![k].status = "UNKNOWN"]
    BY <1>2, <2>2, <2>5
  <2> QED
    BY <2>1, <2>3, <2>4, <2>5
<1>12. CASE beforeFinalMutation(w)
  BY <1>1, <1>5, <1>12 DEF beforeFinalMutation, Current
<1>13. CASE publish(w)
  BY <1>13 DEF publish
<1>14. CASE handleResult(w)
  <2>1. \/ row' = row
        \/ \E s \in {"PUBLISHED", "UNKNOWN"} :
             Current(w) /\ row' = [row EXCEPT ![k].status = s, ![k].version = @ + 1]
        \/ Exists(k) /\ row' = [row EXCEPT ![k].status = "UNKNOWN"]
    BY <1>14 DEF handleResult
  <2>2. k \in Ids /\ wk[w].pc # "idle"
    BY <1>1, <1>14 DEF handleResult
  <2>3. ASSUME NEW s \in {"PUBLISHED", "UNKNOWN"}, Current(w),
               row' = [row EXCEPT ![k].status = s, ![k].version = @ + 1]
        PROVE  Worked(w)
    BY <1>3, <2>2, <2>3 DEF Current
  <2>4. CASE Exists(k) /\ row' = [row EXCEPT ![k].status = "UNKNOWN"]
    BY <1>2, <2>2, <2>4
  <2> QED
    BY <2>1, <2>3, <2>4
<1> QED
  BY <1>6, <1>7, <1>8, <1>9, <1>10, <1>11, <1>12, <1>13, <1>14 DEF WorkerStep

\* Every step leaves a row alone, adds it, deletes it or moves it on.
LEMMA RowsStep ==
  ASSUME TypeOK, Carrying, [Next]_draftVars
  PROVE  RowSteps
<1>0. row \in [Ids -> RowType] /\ \A i \in Ids : row[i].version \in Nat
  BY DEF TypeOK, RowType
<1>1. CASE UNCHANGED draftVars
  BY <1>1 DEF draftVars, RowSteps
<1>2. CASE createDraft \/ updateDraft
  BY <1>2 DEF createDraft, updateDraft, RowSteps
<1>3. CASE deletePost
  BY <1>3 DEF deletePost, RowSteps, RowGone, NoRow
<1>4. ASSUME NEW c \in Calls, CallStep(c) PROVE RowSteps
  <2>1. CASE \/ \E a \in Accounts : addTargetReads(c, a)
             \/ \E op \in {"update", "remove"}, i \in Ids : targetReads(c, op, i)
    BY <2>1 DEF addTargetReads, targetReads, RowSteps
  <2>2. CASE addTargetCreates(c)
    BY <1>0, <2>2 DEF addTargetCreates, RowSteps, RowAdded, Row
  <2>3. CASE updateTargetWrites(c)
    BY <1>0, <2>3 DEF updateTargetWrites, RowSteps, RowMoved, Exists, RowType
  <2>4. CASE removeTargetWrites(c)
    BY <1>0, <2>4 DEF removeTargetWrites, RowSteps, RowGone, NoRow
  <2> QED
    BY <1>4, <2>1, <2>2, <2>3, <2>4 DEF CallStep
<1>5. ASSUME NEW i \in Ids, CommandStep(i) PROVE RowSteps
  BY <1>5, CommandMoves DEF Commanded, RowSteps
<1>6. ASSUME NEW w \in Workers, WorkerStep(w) PROVE RowSteps
  BY <1>6, WorkerMoves DEF Worked, RowSteps
<1> QED
  BY <1>1, <1>2, <1>3, <1>4, <1>5, <1>6 DEF Next

\* A spent dispatch stays spent.
LEMMA SpentStays ==
  ASSUME TypeOK, TypeOK', RowSteps, NEW i \in Ids, NEW v \in Nat,
         row[i].status # "NEW", Spent(i, v)
  PROVE  Spent(i, v)' /\ row'[i].status # "NEW"
<1>1. row[i].version \in Nat /\ row'[i].version \in Nat
  BY DEF TypeOK
<1> QED
  BY <1>1 DEF RowSteps, RowAdded, RowGone, RowMoved, Spent, Exists

JobLoads(w) ==
  LET i == wk'[w].id IN
  /\ wk[w].pc = "idle" /\ wk'[w].pc = "variant" /\ i \in Ids /\ row[i].status = "QUEUED"
  /\ wk'[w].version = row[i].version /\ wk'[w].content = row[i].content /\ row' = row

JobGoes(w) ==
  /\ wk'[w].id = wk[w].id /\ wk'[w].version = wk[w].version
  /\ wk'[w].content = wk[w].content
  /\ \/ /\ wk[w].pc = "variant" /\ wk'[w].pc = "loaded" /\ wk'[w].post = post
        /\ post' = post /\ row' = row
     \/ /\ wk'[w].post = wk[w].post
        /\ \/ /\ wk[w].pc = "loaded" /\ wk'[w].pc = "claimed"
              /\ Job(w).status = "QUEUED" /\ Job(w).version = wk[w].version
              /\ Job(w)'.status = "PUBLISHING" /\ Job(w)'.version = wk[w].version
           \/ wk[w].pc = "claimed" /\ wk'[w].pc = "started"
           \/ wk[w].pc = "started" /\ wk'[w].pc = "mutate"
           \/ wk[w].pc = "mutate" /\ wk'[w].pc = "result"

JobMoves(w) == wk'[w] = wk[w] \/ wk'[w] = NoJob \/ JobLoads(w) \/ JobGoes(w)

\* A step of a worker is a step of its own job: load a QUEUED row, go on, or return.
LEMMA WorkerGoes ==
  ASSUME TypeOK, Carrying, NEW w \in Workers, WorkerStep(w)
  PROVE  JobMoves(w) /\ \A u \in Workers \ {w} : wk'[u] = wk[u]
<1>1. wk \in [Workers -> JobType]
  BY DEF TypeOK, JobType
<1>2. ASSUME Return(w) PROVE wk'[w] = NoJob /\ \A u \in Workers \ {w} : wk'[u] = wk[u]
  BY <1>1, <1>2 DEF Return
<1>3. ASSUME NEW pc, Goto(w, pc)
      PROVE  /\ wk'[w].id = wk[w].id /\ wk'[w].version = wk[w].version
             /\ wk'[w].content = wk[w].content /\ wk'[w].post = wk[w].post
             /\ wk'[w].pc = pc /\ \A u \in Workers \ {w} : wk'[u] = wk[u]
  BY <1>1, <1>3 DEF Goto, JobType
<1>4. ASSUME NEW i \in Ids, loadVariant(w, i)
      PROVE  JobLoads(w) /\ \A u \in Workers \ {w} : wk'[u] = wk[u]
  BY <1>1, <1>4 DEF loadVariant, JobLoads, NoJob
<1>5. CASE loadPost(w)
  BY <1>1, <1>2, <1>5 DEF loadPost, jobStep, JobMoves, JobGoes, JobType
<1>6. CASE refuse(w)
  BY <1>2, <1>6 DEF refuse, JobMoves
<1>7. CASE claim(w)
  <2>1. wk[w].id \in Ids /\ row \in [Ids -> RowType]
    BY <1>7 DEF claim, Carrying, TypeOK, RowType
  <2> QED
    BY <1>2, <1>3, <1>7, <2>1 DEF claim, JobMoves, JobGoes, Job, RowType
<1>8. CASE startOperation(w)
  BY <1>2, <1>3, <1>8 DEF startOperation, JobMoves, JobGoes, Goto
<1>9. CASE failBefore(w)
  BY <1>2, <1>9 DEF failBefore, JobMoves
<1>10. CASE beforeFinalMutation(w)
  BY <1>2, <1>3, <1>10 DEF beforeFinalMutation, JobMoves, JobGoes
<1>11. CASE publish(w)
  BY <1>3, <1>11 DEF publish, JobMoves, JobGoes
<1>12. CASE handleResult(w)
  BY <1>2, <1>12 DEF handleResult, JobMoves
<1> QED
  BY <1>4, <1>5, <1>6, <1>7, <1>8, <1>9, <1>10, <1>11, <1>12 DEF WorkerStep, JobMoves

\* Who may change the jobs, what was sent and what is cancelled.
LEMMA JobsStep ==
  ASSUME TypeOK, Carrying, [Next]_draftVars
  PROVE  /\ \A u \in Workers : JobMoves(u)
         /\ sent' = sent \/ \E w \in Workers : publish(w)
         /\ \/ cancelled' = cancelled
            \/ \E i \in Ids : /\ row[i].status = "QUEUED" /\ wk' = wk /\ sent' = sent
                              /\ row'[i].status = "DRAFT" /\ row'[i].version = row[i].version
                              /\ cancelled' = cancelled \cup {<<i, row[i].version>>}
<1> DEFINE Goal == /\ \A u \in Workers : JobMoves(u)
                   /\ sent' = sent \/ \E w \in Workers : publish(w)
                   /\ \/ cancelled' = cancelled
                      \/ \E i \in Ids :
                           /\ row[i].status = "QUEUED" /\ wk' = wk /\ sent' = sent
                           /\ row'[i].status = "DRAFT" /\ row'[i].version = row[i].version
                           /\ cancelled' = cancelled \cup {<<i, row[i].version>>}
<1>1. CASE UNCHANGED draftVars
  BY <1>1 DEF draftVars, JobMoves
<1>2. CASE createDraft \/ updateDraft \/ deletePost
  BY <1>2 DEF createDraft, updateDraft, deletePost, JobMoves
<1>3. ASSUME NEW c \in Calls, CallStep(c) PROVE Goal
  BY <1>3 DEF CallStep, addTargetReads, addTargetCreates, targetReads, updateTargetWrites,
              removeTargetWrites, targetStep, JobMoves
<1>4. ASSUME NEW i \in Ids, CommandStep(i) PROVE Goal
  BY <1>4, CommandMoves DEF Commanded, JobMoves
<1>5. ASSUME NEW w \in Workers, WorkerStep(w) PROVE Goal
  <2>1. \A u \in Workers : JobMoves(u)
    BY <1>5, WorkerGoes DEF JobMoves
  <2>2. (sent' = sent \/ publish(w)) /\ cancelled' = cancelled
    BY <1>5 DEF WorkerStep, loadVariant, loadPost, refuse, claim, startOperation, failBefore,
                beforeFinalMutation, publish, handleResult, jobStep
  <2> QED
    BY <2>1, <2>2
<1> QED
  BY <1>1, <1>2, <1>3, <1>4, <1>5 DEF Next

-----------------------------------------------------------------------------
(* Dispatches                                                              *)

\* Requests and jobs under way name a row.
LEMMA CarryingStep ==
  ASSUME TypeOK, Carrying, [Next]_draftVars
  PROVE  Carrying'
<1>1. \A w \in Workers : wk'[w].pc # "idle" => wk'[w].id \in Ids
  BY JobsStep DEF Carrying, JobMoves, JobLoads, JobGoes, NoJob
<1>2. \A c \in Calls : call'[c].op \in {"update", "remove"} => call'[c].id \in Ids
  <2>1. call \in [Calls -> [op : {"idle", "add", "update", "remove"}, id : Ids \cup {0},
                            account : Accounts \cup {"none"}]]
    BY DEF TypeOK
  <2>2. CASE call' = call
    BY <2>2 DEF Carrying
  <2>3. ASSUME NEW c \in Calls, NEW a \in Accounts, addTargetReads(c, a)
        PROVE  \A d \in Calls : call'[d].op \in {"update", "remove"} => call'[d].id \in Ids
    BY <2>1, <2>3 DEF addTargetReads, NoCall, Carrying
  <2>4. ASSUME NEW c \in Calls, NEW op, NEW i \in Ids, targetReads(c, op, i)
        PROVE  \A d \in Calls : call'[d].op \in {"update", "remove"} => call'[d].id \in Ids
    BY <2>1, <2>4 DEF targetReads, NoCall, Carrying
  <2>5. ASSUME NEW c \in Calls, call' = [call EXCEPT ![c] = NoCall]
        PROVE  \A d \in Calls : call'[d].op \in {"update", "remove"} => call'[d].id \in Ids
    BY <2>1, <2>5 DEF NoCall, Carrying
  <2>6. \/ call' = call
        \/ \E c \in Calls : \/ call' = [call EXCEPT ![c] = NoCall]
                            \/ \E a \in Accounts : addTargetReads(c, a)
                            \/ \E op \in {"update", "remove"}, i \in Ids : targetReads(c, op, i)
    <3>1. CASE \/ UNCHANGED draftVars \/ createDraft \/ updateDraft \/ deletePost
      BY <3>1 DEF draftVars, createDraft, updateDraft, deletePost
    <3>2. ASSUME NEW c \in Calls, CallStep(c)
          PROVE  \/ call' = [call EXCEPT ![c] = NoCall]
                 \/ \E a \in Accounts : addTargetReads(c, a)
                 \/ \E op \in {"update", "remove"}, i \in Ids : targetReads(c, op, i)
      BY <3>2 DEF CallStep, addTargetCreates, updateTargetWrites, removeTargetWrites
    <3>3. ASSUME NEW i \in Ids, CommandStep(i) PROVE call' = call
      BY <3>3, CommandMoves DEF Commanded
    <3>4. ASSUME NEW w \in Workers, WorkerStep(w) PROVE call' = call
      BY <3>4 DEF WorkerStep, loadVariant, loadPost, refuse, claim, startOperation,
                  failBefore, beforeFinalMutation, publish, handleResult, jobStep
    <3> QED
      BY <3>1, <3>2, <3>3, <3>4 DEF Next
  <2> QED
    BY <2>2, <2>3, <2>4, <2>5, <2>6
<1> QED
  BY <1>1, <1>2 DEF Carrying

\* Nothing is known of a row before it is added.
LEMMA NewStep ==
  ASSUME TypeOK, Carrying, NewIsUntouched, [Next]_draftVars
  PROVE  NewIsUntouched'
<1> SUFFICES ASSUME NEW i \in Ids, row'[i].status = "NEW"
             PROVE  /\ sent'[i] = Nothing
                    /\ \A w \in Workers : wk'[w].pc # "idle" => wk'[w].id # i
                    /\ \A v \in Nat : <<i, v>> \notin cancelled'
  BY DEF NewIsUntouched
<1>1. row[i].status = "NEW"
  BY RowsStep DEF RowSteps, RowAdded, RowGone, RowMoved
<1>2. /\ sent[i] = Nothing
      /\ \A w \in Workers : wk[w].pc # "idle" => wk[w].id # i
      /\ \A v \in Nat : <<i, v>> \notin cancelled
  BY <1>1 DEF NewIsUntouched
<1>3. \A w \in Workers : wk'[w].pc # "idle" => wk'[w].id # i
  BY <1>1, <1>2, JobsStep DEF JobMoves, JobLoads, JobGoes, NoJob
<1>4. sent'[i] = Nothing
  <2>1. ASSUME NEW w \in Workers, publish(w) PROVE sent'[i] = sent[i]
    BY <1>2, <2>1 DEF publish, TypeOK
  <2> QED
    BY <1>2, <2>1, JobsStep
<1>5. \A v \in Nat : <<i, v>> \notin cancelled'
  BY <1>1, <1>2, JobsStep
<1> QED
  BY <1>3, <1>4, <1>5

\* Dispatches that are cancelled, claimed or sent stay spent, and none is cancelled and sent.
LEMMA DispatchStep ==
  ASSUME TypeOK, TypeOK', Carrying, NewIsUntouched, DispatchesSpent, [Next]_draftVars
  PROVE  DispatchesSpent'
<1>0. /\ \A i \in Ids : row[i].version \in Nat /\ row'[i].version \in Nat
      /\ \A i \in Ids : sent[i].version \in Nat
      /\ \A w \in Workers : wk[w].version \in Nat
      /\ cancelled \in SUBSET (Ids \X Nat)
  BY DEF TypeOK
<1>1. RowSteps
  BY RowsStep
<1>2. \A i \in Ids : row'[i].status = "QUEUED" => row'[i].version > 0
  BY <1>0, <1>1 DEF RowSteps, RowAdded, RowGone, RowMoved, DispatchesSpent
<1>3. \A i \in Ids, v \in Nat : Spent(i, v) /\ row[i].status # "NEW" => Spent(i, v)'
  BY <1>1, SpentStays
<1>4. ASSUME NEW i \in Ids, NEW v \in Nat, <<i, v>> \in cancelled'
      PROVE  v > 0 /\ Spent(i, v)'
  <2>1. CASE <<i, v>> \in cancelled
    BY <1>3, <2>1 DEF NewIsUntouched, DispatchesSpent
  <2>2. CASE <<i, v>> \notin cancelled
    <3>1. /\ row[i].status = "QUEUED" /\ v = row[i].version
          /\ row'[i].status = "DRAFT" /\ row'[i].version = row[i].version
      BY <1>4, <2>2, JobsStep
    <3> QED
      BY <1>0, <3>1 DEF DispatchesSpent, Spent, Exists
  <2> QED
    BY <2>1, <2>2
<1>5. ASSUME NEW w \in Workers, Past(w)'
      PROVE  Spent(wk[w].id, wk[w].version)' /\ <<wk'[w].id, wk'[w].version>> \notin cancelled'
  <2>1. CASE Past(w) /\ wk'[w].id = wk[w].id /\ wk'[w].version = wk[w].version
    <3>1. wk[w].id \in Ids /\ row[wk[w].id].status # "NEW"
      BY <2>1 DEF Past, Carrying, NewIsUntouched
    <3>2. Spent(wk[w].id, wk[w].version) /\ <<wk[w].id, wk[w].version>> \notin cancelled
      BY <2>1 DEF DispatchesSpent
    <3>3. Spent(wk[w].id, wk[w].version)'
      BY <1>0, <1>3, <2>1, <3>1, <3>2 DEF Spent, Exists
    <3>4. \A i \in Ids : row[i].status = "QUEUED" => <<i, row[i].version>> # <<wk[w].id, wk[w].version>>
      BY <1>0, <3>1, <3>2 DEF Spent, Exists
    <3> QED
      BY <2>1, <3>2, <3>3, <3>4, JobsStep
  <2>2. CASE /\ wk[w].pc = "loaded" /\ wk'[w].pc = "claimed" /\ JobGoes(w)
    <3>1. wk[w].id \in Ids /\ wk'[w].id = wk[w].id /\ wk'[w].version = wk[w].version
      BY <2>2 DEF Carrying, JobGoes
    <3>2. /\ row[wk[w].id].status = "QUEUED" /\ row[wk[w].id].version = wk[w].version
          /\ row'[wk'[w].id].status = "PUBLISHING" /\ row'[wk'[w].id].version = wk[w].version
      BY <2>2 DEF JobGoes, Job
    <3>3. Spent(wk[w].id, wk[w].version)'
      BY <1>0, <3>1, <3>2 DEF Spent
    <3>4. <<wk[w].id, wk[w].version>> \notin cancelled
      BY <1>0, <3>1, <3>2 DEF DispatchesSpent, Spent, Exists
    <3>5. cancelled' = cancelled
      BY <2>2, JobsStep
    <3> QED
      BY <3>1, <3>3, <3>4, <3>5
  <2>3. JobMoves(w)
    BY JobsStep
  <2> QED
    BY <1>5, <2>1, <2>2, <2>3 DEF JobMoves, JobLoads, JobGoes, NoJob, Past
<1>6. ASSUME NEW i \in Ids
      PROVE  Spent(i, sent[i].version)' /\ <<i, sent'[i].version>> \notin cancelled'
  <2>1. Spent(i, sent[i].version) /\ <<i, sent[i].version>> \notin cancelled
    BY DEF DispatchesSpent
  <2>2. CASE sent'[i] = sent[i]
    <3>1. Spent(i, sent[i].version)'
      <4>1. CASE row[i].status = "NEW"
        BY <1>0, <1>2, <2>2, <4>1 DEF NewIsUntouched, Nothing, Spent
      <4>2. CASE row[i].status # "NEW"
        BY <1>0, <1>3, <2>1, <2>2, <4>2 DEF Spent, Exists
      <4> QED
        BY <4>1, <4>2
    <3>2. row[i].status = "QUEUED" => row[i].version # sent[i].version
      BY <1>0, <2>1 DEF Spent, Exists
    <3> QED
      BY <2>1, <2>2, <3>1, <3>2, JobsStep
  <2>3. ASSUME NEW w \in Workers, publish(w), wk[w].id = i
        PROVE  Spent(i, sent[i].version)' /\ <<i, sent'[i].version>> \notin cancelled'
    <3>1. sent'[i].version = wk[w].version /\ row' = row /\ cancelled' = cancelled
      BY <2>3 DEF publish, jobStep, TypeOK
    <3>2. Spent(i, wk[w].version) /\ <<i, wk[w].version>> \notin cancelled
      BY <2>3 DEF DispatchesSpent, Past, publish
    <3> QED
      BY <3>1, <3>2 DEF Spent, Exists
  <2>4. ASSUME NEW w \in Workers, publish(w), wk[w].id # i PROVE sent'[i] = sent[i]
    BY <2>4 DEF publish, TypeOK
  <2> QED
    BY <2>2, <2>3, <2>4, JobsStep
<1> QED
  BY <1>2, <1>4, <1>5, <1>6 DEF DispatchesSpent

-----------------------------------------------------------------------------
(* Contents                                                                *)

\* Only the commands on the post change it, edits are numbered from 1 and a race is not
\* forgotten.
LEMMA PostStays ==
  ASSUME TypeOK, Carrying, [Next]_draftVars
  PROVE  /\ raced \subseteq raced'
         /\ \/ createDraft \/ updateDraft \/ deletePost
            \/ post' = post /\ (edits' = edits \/ edits' # 0)
<1>1. CASE UNCHANGED draftVars
  BY <1>1 DEF draftVars
<1>2. CASE createDraft \/ updateDraft \/ deletePost
  BY <1>2 DEF createDraft, updateDraft, deletePost
<1>3. ASSUME NEW c \in Calls, CallStep(c)
      PROVE  raced \subseteq raced' /\ post' = post /\ (edits' = edits \/ edits' # 0)
  BY <1>3, Counters DEF CallStep, addTargetReads, addTargetCreates, targetReads,
              updateTargetWrites, removeTargetWrites, targetStep
<1>4. ASSUME NEW i \in Ids, CommandStep(i)
      PROVE  raced' = raced /\ post' = post /\ edits' = edits
  BY <1>4, CommandMoves DEF Commanded
<1>5. ASSUME NEW w \in Workers, WorkerStep(w)
      PROVE  raced \subseteq raced' /\ post' = post /\ edits' = edits
  BY <1>5 DEF WorkerStep, loadVariant, loadPost, refuse, claim, startOperation, failBefore,
              beforeFinalMutation, publish, handleResult, jobStep
<1> QED
  BY <1>1, <1>2, <1>3, <1>4, <1>5 DEF Next

\* A target is a target of a post that is there.
LEMMA RowsHavePostStep ==
  ASSUME TypeOK, Carrying, RowsHavePost, [Next]_draftVars
  PROVE  RowsHavePost'
<1>1. CASE createDraft \/ updateDraft
  BY <1>1, Counters DEF createDraft, updateDraft, RowsHavePost
<1>2. CASE deletePost
  BY <1>2 DEF deletePost, RowsHavePost, Exists, NoRow
<1>3. CASE post' = post /\ (edits' = edits \/ edits' # 0)
  BY <1>3, RowsStep DEF RowSteps, RowAdded, RowGone, RowMoved, RowsHavePost, Exists
<1> QED
  BY <1>1, <1>2, <1>3, PostStays

\* While a dispatch stays queued, neither the post nor the target changes, unless an
\* updateTarget that was under way writes over it.
LEMMA QueuedIsFixed ==
  ASSUME TypeOK, Carrying, RowsHavePost, [Next]_draftVars, NEW i \in Ids,
         row[i].status = "QUEUED", row'[i].status = "QUEUED", i \notin raced'
  PROVE  row'[i].content = row[i].content /\ post' = post
<1>0. row \in [Ids -> RowType] /\ Exists(i)
  BY DEF TypeOK, RowType, Exists
<1>1. CASE UNCHANGED draftVars
  BY <1>1 DEF draftVars
<1>2. CASE createDraft
  BY <1>0, <1>2 DEF createDraft, RowsHavePost
<1>3. CASE updateDraft \/ deletePost
  BY <1>3 DEF updateDraft, deletePost, locked
<1>4. ASSUME NEW c \in Calls, CallStep(c)
      PROVE  row'[i].content = row[i].content /\ post' = post
  <2>1. CASE \/ \E a \in Accounts : addTargetReads(c, a)
             \/ \E op \in {"update", "remove"}, j \in Ids : targetReads(c, op, j)
    BY <2>1 DEF addTargetReads, targetReads, targetStep
  <2>2. CASE addTargetCreates(c)
    BY <1>0, <2>2 DEF addTargetCreates, targetStep
  <2>3. CASE updateTargetWrites(c)
    BY <1>0, <2>3 DEF updateTargetWrites, targetStep, locked, RowType
  <2>4. CASE removeTargetWrites(c)
    BY <1>0, <2>4 DEF removeTargetWrites, NoRow, targetStep
  <2> QED
    BY <1>4, <2>1, <2>2, <2>3, <2>4 DEF CallStep
<1>5. ASSUME NEW j \in Ids, CommandStep(j)
      PROVE  row'[i].content = row[i].content /\ post' = post
  BY <1>5, CommandMoves DEF Commanded
<1>6. ASSUME NEW w \in Workers, WorkerStep(w)
      PROVE  row'[i].content = row[i].content /\ post' = post
  <2>1. post' = post
    BY <1>6 DEF WorkerStep, loadVariant, loadPost, refuse, claim, startOperation, failBefore,
                beforeFinalMutation, publish, handleResult, jobStep
  <2> QED
    BY <1>6, <2>1, WorkerMoves DEF Worked
<1> QED
  BY <1>1, <1>2, <1>3, <1>4, <1>5, <1>6 DEF Next

\* What a job loaded stays what its dispatch would publish.
LEMMA LoadedStep ==
  ASSUME TypeOK, TypeOK', Carrying, RowsHavePost, NewIsUntouched, LoadedIsCurrent,
         [Next]_draftVars
  PROVE  LoadedIsCurrent'
<1>0. /\ \A i \in Ids : row[i].version \in Nat /\ row'[i].version \in Nat
      /\ \A w \in Workers : wk[w].version \in Nat
  BY DEF TypeOK
<1>1. raced \subseteq raced'
  BY PostStays
<1> SUFFICES ASSUME NEW w \in Workers, wk'[w].pc \in {"variant", "loaded"}, Exists(wk[w].id)'
             PROVE  /\ wk'[w].version <= Job(w)'.version
                    /\ /\ Job(w)'.status = "QUEUED" /\ Job(w)'.version = wk'[w].version
                       /\ wk'[w].id \notin raced'
                       => /\ wk'[w].content = Job(w)'.content
                          /\ wk'[w].pc = "loaded" => wk'[w].post = post'
  BY DEF LoadedIsCurrent
<1>2. JobMoves(w)
  BY JobsStep
<1>3. CASE wk'[w] = wk[w]
  <2> DEFINE i == wk[w].id
  <2>1. i \in Ids /\ row[i].status # "NEW"
    BY <1>3 DEF Carrying, NewIsUntouched
  <2>2. row'[i] = row[i] \/ RowMoved(i)
    BY <1>3, <2>1, RowsStep DEF RowSteps, RowAdded, RowGone, Exists
  <2>3. Exists(i)
    BY <1>3, <2>2 DEF RowMoved, Exists
  <2>4. wk[w].version <= row[i].version
    BY <1>3, <2>3 DEF LoadedIsCurrent, Job
  <2>5. wk[w].version <= row'[i].version
    BY <1>0, <2>1, <2>2, <2>4 DEF RowMoved
  <2>6. ASSUME row'[i].status = "QUEUED", row'[i].version = wk[w].version, i \notin raced'
        PROVE  /\ wk[w].content = row'[i].content
               /\ wk[w].pc = "loaded" => wk[w].post = post'
    <3>1. row[i].status = "QUEUED" /\ row[i].version = wk[w].version
      BY <1>0, <2>1, <2>2, <2>4, <2>6 DEF RowMoved
    <3>2. row'[i].content = row[i].content /\ post' = post
      BY <2>1, <2>6, <3>1, QueuedIsFixed
    <3>3. wk[w].content = row[i].content /\ (wk[w].pc = "loaded" => wk[w].post = post)
      BY <1>1, <1>3, <2>3, <2>6, <3>1 DEF LoadedIsCurrent, Job
    <3> QED
      BY <3>2, <3>3
  <2> QED
    BY <1>3, <2>5, <2>6 DEF Job
<1>4. CASE JobLoads(w)
  BY <1>0, <1>4 DEF JobLoads, Job
<1>5. CASE wk[w].pc = "variant" /\ JobGoes(w)
  <2>1. /\ wk'[w].id = wk[w].id /\ wk'[w].version = wk[w].version
        /\ wk'[w].content = wk[w].content /\ wk'[w].post = post
        /\ post' = post /\ row' = row /\ wk'[w].pc = "loaded"
    BY <1>5 DEF JobGoes
  <2>2. Exists(wk[w].id)
    BY <2>1 DEF Exists
  <2> QED
    BY <1>1, <1>5, <2>1, <2>2 DEF LoadedIsCurrent, Job
<1> QED
  BY <1>2, <1>3, <1>4, <1>5 DEF JobMoves, JobGoes, NoJob

-----------------------------------------------------------------------------
(* Owners                                                                  *)

OwnerHolds(i, w) ==
  /\ row[i].status = "PUBLISHING"
  /\ wk[w].post = post /\ wk[w].content = row[i].content
  /\ wk[w].pc = "claimed" => row[i].version = wk[w].version
  /\ wk[w].pc # "claimed" => Current(w) /\ row[i].started
  /\ wk[w].pc \in {"started", "mutate"} => sent[i] = Nothing
  /\ wk[w].pc = "result" => sent[i].post = post /\ sent[i].content = row[i].content
  /\ \A u \in Workers : Owns(u, i) => u = w

SentHolds(i) ==
  /\ ~row[i].started => sent[i] = Nothing
  /\ row[i].status = "PUBLISHED" \/ (row[i].status = "UNKNOWN" /\ sent[i] # Nothing)
       => sent[i].post = post /\ sent[i].content = row[i].content

\* OwnedByOne and SentAsSeen for one row
Seen(i) ==
  i \notin raced /\ Exists(i) =>
    SentHolds(i) /\ \A w \in Workers : Owns(w, i) => OwnerHolds(i, w)

\* The two invariants are the per-row one, for every row.
LEMMA SeenEverywhere == (OwnedByOne /\ SentAsSeen) <=> \A i \in Ids : Seen(i)
BY DEF OwnedByOne, SentAsSeen, Seen, OwnerHolds, SentHolds

\* the same, for the next state
LEMMA SeenEverywhereNext == (OwnedByOne /\ SentAsSeen)' <=> \A i \in Ids : Seen(i)'
BY DEF OwnedByOne, SentAsSeen, Seen, OwnerHolds, SentHolds

\* A row that a step leaves alone, whose owners do nothing but return.
LEMMA SeenFrame ==
  ASSUME NEW i \in Ids, Seen(i), row'[i] = row[i], post' = post, sent'[i] = sent[i],
         raced \subseteq raced',
         \A w \in Workers : Owns(w, i)' => Owns(w, i) /\ wk'[w] = wk[w]
  PROVE  Seen(i)'
<1> SUFFICES ASSUME i \notin raced', Exists(i)'
             PROVE  SentHolds(i)' /\ \A w \in Workers : Owns(w, i)' => OwnerHolds(i, w)'
  BY DEF Seen
<1>1. Exists(i) /\ i \notin raced
  BY DEF Exists
<1>2. SentHolds(i)'
  BY <1>1 DEF Seen, SentHolds
<1>3. ASSUME NEW w \in Workers, Owns(w, i)'
      PROVE  OwnerHolds(i, w)'
  <2>1. Owns(w, i) /\ wk'[w] = wk[w] /\ wk[w].id = i
    BY <1>3 DEF Owns
  <2>2. OwnerHolds(i, w)
    BY <1>1, <2>1 DEF Seen
  <2>3. Current(w)' <=> Current(w)
    BY <2>1 DEF Current, Exists, Job, expectedDispatchVersion
  <2>4. \A u \in Workers : Owns(u, i)' => u = w
    BY <2>2 DEF OwnerHolds
  <2> QED
    BY <2>1, <2>2, <2>3, <2>4 DEF OwnerHolds
<1> QED
  BY <1>2, <1>3

\* A row that was not PUBLISHING has no owner; it gets none, and does not end up published.
LEMMA SeenUnowned ==
  ASSUME NEW i \in Ids, Seen(i), raced \subseteq raced', sent'[i] = sent[i],
         i \notin raced' => Exists(i) /\ row[i].status # "PUBLISHING"
                            /\ row'[i].status \notin {"PUBLISHED", "UNKNOWN"}
                            /\ row'[i].started = row[i].started,
         \A w \in Workers : Owns(w, i)' => Owns(w, i)
  PROVE  Seen(i)'
<1> SUFFICES ASSUME i \notin raced', Exists(i)'
             PROVE  SentHolds(i)' /\ \A w \in Workers : ~Owns(w, i)'
  BY DEF Seen
<1>1. \A w \in Workers : ~Owns(w, i)
  BY DEF Seen, OwnerHolds
<1>2. SentHolds(i)'
  BY DEF Seen, SentHolds
<1> QED
  BY <1>1, <1>2

\* A row that was just added.
LEMMA SeenAdded ==
  ASSUME NEW i \in Ids, NewIsUntouched, row[i].status = "NEW", sent' = sent, wk' = wk,
         row'[i].status = "DRAFT"
  PROVE  Seen(i)'
<1>1. sent'[i] = Nothing /\ \A w \in Workers : ~Owns(w, i)'
  BY DEF NewIsUntouched, Owns
<1> QED
  BY <1>1 DEF Seen, SentHolds

\* Commands on the post: it cannot change while a target is queued, published or in doubt.
LEMMA SeenPost ==
  ASSUME TypeOK, RowsHavePost, createDraft \/ updateDraft \/ deletePost, NEW i \in Ids, Seen(i)
  PROVE  Seen(i)'
<1>1. CASE createDraft
  BY <1>1 DEF createDraft, RowsHavePost, Seen, Exists
<1>2. CASE updateDraft
  <2>1. row' = row /\ sent' = sent /\ wk' = wk /\ raced' = raced
    BY <1>2 DEF updateDraft
  <2>2. row[i].status \notin locked
    BY <1>2 DEF updateDraft
  <2>3. CASE Exists(i)
    BY <2>1, <2>2, <2>3, SeenUnowned DEF locked, Owns
  <2>4. CASE ~Exists(i)
    BY <2>1, <2>4 DEF Seen, Exists
  <2> QED
    BY <2>3, <2>4
<1>3. CASE deletePost
  BY <1>3 DEF deletePost, Seen, Exists, NoRow
<1> QED
  BY <1>1, <1>2, <1>3

\* Requests on targets: a write on a row that is not the one that was checked is a race.
LEMMA SeenCall ==
  ASSUME TypeOK, NewIsUntouched, NEW c \in Calls, CallStep(c), NEW i \in Ids, Seen(i)
  PROVE  Seen(i)'
<1>0. row \in [Ids -> RowType]
  BY DEF TypeOK, RowType
<1>1. post' = post /\ sent' = sent /\ wk' = wk /\ raced \subseteq raced'
  BY DEF CallStep, addTargetReads, addTargetCreates, targetReads, updateTargetWrites,
         removeTargetWrites, targetStep
<1>2. \A w \in Workers : Owns(w, i)' <=> Owns(w, i)
  BY <1>1 DEF Owns
<1>3. CASE row'[i] = row[i]
  BY <1>1, <1>2, <1>3, SeenFrame
<1>4. CASE addTargetCreates(c)
  <2>1. row'[i] = row[i] \/ (row[i].status = "NEW" /\ row'[i].status = "DRAFT")
    BY <1>0, <1>4 DEF addTargetCreates, Row
  <2> QED
    BY <1>1, <1>3, <2>1, SeenAdded
<1>5. CASE updateTargetWrites(c)
  <2>1. \/ row'[i] = row[i]
        \/ /\ Exists(i) /\ row'[i].status = row[i].status /\ row'[i].started = row[i].started
           /\ row[i].status \in locked => i \in raced'
    BY <1>0, <1>5 DEF updateTargetWrites, RowType
  <2>2. CASE /\ Exists(i) /\ row'[i].status = row[i].status /\ row'[i].started = row[i].started
             /\ row[i].status \in locked => i \in raced'
    BY <1>1, <1>2, <2>2, SeenUnowned DEF locked
  <2> QED
    BY <1>3, <2>1, <2>2
<1>6. CASE removeTargetWrites(c)
  <2>1. row'[i] = row[i] \/ row'[i].status = "GONE"
    BY <1>0, <1>6 DEF removeTargetWrites, NoRow
  <2> QED
    BY <1>3, <2>1 DEF Seen, Exists
<1>7. CASE \/ \E a \in Accounts : addTargetReads(c, a)
           \/ \E op \in {"update", "remove"}, j \in Ids : targetReads(c, op, j)
  BY <1>3, <1>7 DEF addTargetReads, targetReads
<1> QED
  BY <1>4, <1>5, <1>6, <1>7 DEF CallStep

\* Lifecycle commands: none applies to a row a job owns.
LEMMA SeenCommand ==
  ASSUME TypeOK, NEW j \in Ids, CommandStep(j), NEW i \in Ids, Seen(i)
  PROVE  Seen(i)'
<1>1. Commanded(j)
  BY CommandMoves
<1>2. post' = post /\ sent' = sent /\ wk' = wk /\ raced' = raced
  BY <1>1 DEF Commanded
<1>3. \A w \in Workers : Owns(w, i)' <=> Owns(w, i)
  BY <1>2 DEF Owns
<1>4. CASE i # j
  BY <1>1, <1>2, <1>3, <1>4, SeenFrame DEF Commanded
<1>5. CASE i = j
  BY <1>1, <1>2, <1>3, <1>5, SeenUnowned DEF Commanded, Exists
<1> QED
  BY <1>4, <1>5

\* A job's step on a row other than its own.
LEMMA SeenElsewhere ==
  ASSUME TypeOK, Carrying, NEW w \in Workers, WorkerStep(w), NEW i \in Ids, Seen(i),
         wk[w].id # i \/ wk[w].pc = "idle"
  PROVE  Seen(i)'
<1>1. post' = post /\ raced \subseteq raced'
  BY DEF WorkerStep, loadVariant, loadPost, refuse, claim, startOperation, failBefore,
         beforeFinalMutation, publish, handleResult, jobStep
<1>2. row'[i] = row[i]
  BY WorkerMoves DEF Worked
<1>3. sent'[i] = sent[i]
  BY DEF WorkerStep, loadVariant, loadPost, refuse, claim, startOperation, failBefore,
         beforeFinalMutation, publish, handleResult, TypeOK
<1>4. \A u \in Workers : Owns(u, i)' => Owns(u, i) /\ wk'[u] = wk[u]
  <2>1. ~Owns(w, i)' \/ (wk'[w] = wk[w] /\ Owns(w, i))
    BY WorkerGoes DEF JobMoves, JobLoads, JobGoes, NoJob, Owns
  <2> QED
    BY <2>1, WorkerGoes DEF Owns
<1> QED
  BY <1>1, <1>2, <1>3, <1>4, SeenFrame

\* A job's step on its own row: the claim takes over a dispatch that is still queued, with
\* the content the job has loaded, and from there on the row is the job's.
LEMMA SeenOwn ==
  ASSUME TypeOK, Carrying, LoadedIsCurrent, NEW w \in Workers, WorkerStep(w),
         NEW i \in Ids, Seen(i), wk[w].id = i, wk[w].pc # "idle"
  PROVE  Seen(i)'
<1>0. /\ row \in [Ids -> RowType] /\ row[i].version \in Nat
      /\ wk \in [Workers -> JobType] /\ wk[w].version \in Nat
      /\ sent \in [Ids -> [version : Nat, post : Contents, content : Contents]]
  BY DEF TypeOK, RowType, JobType
<1>1. post' = post /\ raced \subseteq raced' /\ \A u \in Workers \ {w} : wk'[u] = wk[u]
  <2>1. post' = post /\ raced \subseteq raced'
    BY DEF WorkerStep, loadVariant, loadPost, refuse, claim, startOperation, failBefore,
           beforeFinalMutation, publish, handleResult, jobStep
  <2> QED
    BY <2>1, WorkerGoes
<1>2. ASSUME Return(w) PROVE \A u \in Workers : Owns(u, i)' => Owns(u, i) /\ wk'[u] = wk[u]
  BY <1>0, <1>1, <1>2 DEF Return, NoJob, Owns
<1>3. ASSUME row' = row, sent' = sent, Return(w) PROVE Seen(i)'
  BY <1>1, <1>2, <1>3, SeenFrame
<1>4. ~\E j \in Ids : loadVariant(w, j)
  <2>1. wk[w] # NoJob
    BY DEF NoJob
  <2> QED
    BY <2>1 DEF loadVariant
<1>5. CASE loadPost(w)
  <2>1. \A u \in Workers : Owns(u, i)' => Owns(u, i) /\ wk'[u] = wk[u]
    <3>1. wk'[w].pc \in {"idle", "loaded"}
      BY <1>0, <1>5 DEF loadPost, Return, NoJob, JobType
    <3> QED
      BY <1>1, <3>1 DEF Owns
  <2> QED
    BY <1>1, <1>5, <2>1, SeenFrame DEF loadPost
<1>6. CASE refuse(w)
  <2>1. CASE Exists(i)
    <3>1. /\ row' = [row EXCEPT ![i].status = "FAILED"]
          /\ row[i].status = "QUEUED" \/ i \in raced'
      BY <1>6, <2>1 DEF refuse, Job
    <3>2. row'[i].status = "FAILED" /\ row'[i].started = row[i].started
      BY <1>0, <3>1 DEF RowType
    <3> QED
      BY <1>1, <1>2, <1>6, <2>1, <3>1, <3>2, SeenUnowned DEF refuse
  <2>2. CASE ~Exists(i)
    BY <1>3, <1>6, <2>2 DEF refuse
  <2> QED
    BY <2>1, <2>2
<1>7. CASE claim(w)
  <2>1. CASE row[i].status = "QUEUED" /\ row[i].version = wk[w].version
    <3>1. row' = [row EXCEPT ![i].status = "PUBLISHING"] /\ Goto(w, "claimed") /\ sent' = sent
      BY <1>7, <2>1 DEF claim, Job
    <3>2. /\ row'[i].status = "PUBLISHING" /\ row'[i].version = row[i].version
          /\ row'[i].content = row[i].content /\ row'[i].started = row[i].started
      BY <1>0, <3>1 DEF RowType
    <3>3. /\ wk'[w].pc = "claimed" /\ wk'[w].version = wk[w].version
          /\ wk'[w].post = wk[w].post /\ wk'[w].content = wk[w].content
      BY <1>0, <3>1 DEF Goto, JobType
    <3> SUFFICES ASSUME i \notin raced'
                 PROVE  /\ SentHolds(i)'
                        /\ \A u \in Workers : Owns(u, i)' => OwnerHolds(i, u)'
      BY DEF Seen
    <3>4. Exists(i) /\ i \notin raced
      BY <1>1, <2>1 DEF Exists
    <3>5. wk[w].content = row[i].content /\ wk[w].post = post
      BY <1>7, <2>1, <3>4 DEF LoadedIsCurrent, Job, claim
    <3>6. \A u \in Workers : ~Owns(u, i)
      BY <2>1, <3>4 DEF Seen, OwnerHolds
    <3>7. \A u \in Workers : Owns(u, i)' => u = w
      BY <1>1, <3>6 DEF Owns
    <3>8. SentHolds(i)'
      BY <3>1, <3>2, <3>4 DEF Seen, SentHolds
    <3>9. OwnerHolds(i, w)'
      BY <1>1, <2>1, <3>2, <3>3, <3>5, <3>7 DEF OwnerHolds
    <3> QED
      BY <3>7, <3>8, <3>9
  <2>2. CASE ~(row[i].status = "QUEUED" /\ row[i].version = wk[w].version)
    BY <1>3, <1>7, <2>2 DEF claim, Job
  <2> QED
    BY <2>1, <2>2
<1>8. ASSUME wk[w].pc \in {"claimed", "started", "mutate", "result"},
             i \notin raced, Exists(i)
      PROVE  OwnerHolds(i, w) /\ Owns(w, i) /\ SentHolds(i)
  BY <1>8 DEF Seen, Owns
<1>9. CASE startOperation(w)
  <2>1. CASE Exists(i) /\ ~row[i].started
    <3>1. /\ row' = [row EXCEPT ![i].started = TRUE, ![i].version = @ + 1]
          /\ wk' = [wk EXCEPT ![w].pc = "started"] /\ sent' = sent /\ wk[w].pc = "claimed"
      BY <1>9, <2>1 DEF startOperation, Job
    <3>2. /\ row'[i].status = row[i].status /\ row'[i].version = row[i].version + 1
          /\ row'[i].content = row[i].content /\ row'[i].started
      BY <1>0, <3>1 DEF RowType
    <3>3. /\ wk'[w].pc = "started" /\ wk'[w].version = wk[w].version /\ wk'[w].id = i
          /\ wk'[w].post = wk[w].post /\ wk'[w].content = wk[w].content
      BY <1>0, <3>1 DEF JobType
    <3> SUFFICES ASSUME i \notin raced'
                 PROVE  /\ SentHolds(i)'
                        /\ \A u \in Workers : Owns(u, i)' => OwnerHolds(i, u)'
      BY DEF Seen
    <3>4. OwnerHolds(i, w) /\ SentHolds(i)
      BY <1>1, <1>8, <2>1, <3>1
    <3>5. \A u \in Workers : Owns(u, i)' => u = w
      BY <1>1, <3>4 DEF Owns, OwnerHolds
    <3>6. row[i].status = "PUBLISHING" /\ row[i].version = wk[w].version /\ sent'[i] = Nothing
      BY <2>1, <3>1, <3>4 DEF OwnerHolds, SentHolds
    <3>7. Current(w)'
      BY <3>2, <3>3, <3>6 DEF Current, Exists, Job, expectedDispatchVersion
    <3>8. OwnerHolds(i, w)'
      BY <1>1, <3>2, <3>3, <3>4, <3>5, <3>6, <3>7 DEF OwnerHolds
    <3>9. SentHolds(i)'
      BY <3>2, <3>6 DEF SentHolds
    <3> QED
      BY <3>5, <3>8, <3>9
  <2>2. CASE ~(Exists(i) /\ ~row[i].started)
    BY <1>3, <1>9, <2>2 DEF startOperation, Job
  <2> QED
    BY <2>1, <2>2
<1>10. ASSUME Return(w), sent' = sent, Past(w), row'[i].started = row[i].started,
              row'[i].content = row[i].content,
              i \notin raced' =>
                \/ row'[i].status = "FAILED"
                \/ row'[i].status = "UNKNOWN" /\ wk[w].pc = "started"
                \/ row'[i].status \in {"PUBLISHED", "UNKNOWN"} /\ wk[w].pc = "result",
              Exists(i)
       PROVE  Seen(i)'
  <2> SUFFICES ASSUME i \notin raced'
               PROVE  SentHolds(i)' /\ \A u \in Workers : ~Owns(u, i)'
    BY DEF Seen
  <2>1. OwnerHolds(i, w) /\ SentHolds(i)
    BY <1>1, <1>8, <1>10 DEF Past
  <2>2. \A u \in Workers : ~Owns(u, i)'
    BY <1>0, <1>1, <1>10, <2>1 DEF OwnerHolds, Owns, Return, NoJob
  <2>3. SentHolds(i)'
    BY <1>1, <1>10, <2>1 DEF OwnerHolds, SentHolds
  <2> QED
    BY <2>2, <2>3
<1>11. CASE failBefore(w)
  <2>1. Return(w) /\ sent' = sent /\ wk[w].pc = "started" /\ Past(w)
    BY <1>11 DEF failBefore, Past
  <2>2. CASE row' = row
    BY <1>3, <2>1, <2>2
  <2>3. CASE Exists(i) /\ row' = [row EXCEPT ![i].status = "FAILED", ![i].version = @ + 1]
    <3>1. row'[i].status = "FAILED" /\ row'[i].started = row[i].started
          /\ row'[i].content = row[i].content
      BY <1>0, <2>3 DEF RowType
    <3> QED
      BY <1>10, <2>1, <2>3, <3>1
  <2>4. ASSUME NEW s \in {"FAILED", "UNKNOWN"}, Exists(i), row' = [row EXCEPT ![i].status = s]
        PROVE  Seen(i)'
    <3>1. row'[i].status = s /\ row'[i].started = row[i].started
          /\ row'[i].content = row[i].content
      BY <1>0, <2>4 DEF RowType
    <3> QED
      BY <1>10, <2>1, <2>4, <3>1
  <2> QED
    BY <1>11, <2>2, <2>3, <2>4 DEF failBefore, Current
<1>12. CASE beforeFinalMutation(w)
  <2>1. CASE Current(w)
    <3>1. /\ row' = [row EXCEPT ![i].version = @ + 1] /\ Goto(w, "mutate") /\ sent' = sent
          /\ wk[w].pc = "started"
      BY <1>12, <2>1 DEF beforeFinalMutation
    <3>2. /\ row'[i].status = row[i].status /\ row'[i].version = row[i].version + 1
          /\ row'[i].content = row[i].content /\ row'[i].started = row[i].started
      BY <1>0, <3>1 DEF RowType
    <3>3. /\ wk'[w].pc = "mutate" /\ wk'[w].version = wk[w].version /\ wk'[w].id = i
          /\ wk'[w].post = wk[w].post /\ wk'[w].content = wk[w].content
      BY <1>0, <3>1 DEF Goto, JobType
    <3> SUFFICES ASSUME i \notin raced'
                 PROVE  /\ SentHolds(i)'
                        /\ \A u \in Workers : Owns(u, i)' => OwnerHolds(i, u)'
      BY DEF Seen
    <3>4. OwnerHolds(i, w) /\ SentHolds(i)
      BY <1>1, <1>8, <2>1, <3>1 DEF Current
    <3>5. \A u \in Workers : Owns(u, i)' => u = w
      BY <1>1, <3>4 DEF Owns, OwnerHolds
    <3>6. row[i].status = "PUBLISHING" /\ row[i].version = wk[w].version + 1
      BY <2>1, <3>1, <3>4 DEF OwnerHolds, Current, Job, expectedDispatchVersion
    <3>7. Current(w)'
      BY <1>0, <3>2, <3>3, <3>6 DEF Current, Exists, Job, expectedDispatchVersion
    <3>8. OwnerHolds(i, w)'
      BY <1>1, <3>1, <3>2, <3>3, <3>4, <3>5, <3>6, <3>7 DEF OwnerHolds
    <3>9. SentHolds(i)'
      BY <3>1, <3>2, <3>4, <3>6 DEF SentHolds
    <3> QED
      BY <3>5, <3>8, <3>9
  <2>2. CASE ~Current(w)
    BY <1>3, <1>12, <2>2 DEF beforeFinalMutation
  <2> QED
    BY <2>1, <2>2
<1>13. CASE publish(w)
  <2>1. /\ row' = row /\ Goto(w, "result") /\ wk[w].pc = "mutate"
        /\ sent'[i].post = wk[w].post /\ sent'[i].content = wk[w].content
    BY <1>0, <1>13 DEF publish
  <2>2. /\ wk'[w].pc = "result" /\ wk'[w].version = wk[w].version /\ wk'[w].id = i
        /\ wk'[w].post = wk[w].post /\ wk'[w].content = wk[w].content
    BY <1>0, <2>1 DEF Goto, JobType
  <2> SUFFICES ASSUME i \notin raced', Exists(i)'
               PROVE  /\ SentHolds(i)'
                      /\ \A u \in Workers : Owns(u, i)' => OwnerHolds(i, u)'
    BY DEF Seen
  <2>3. OwnerHolds(i, w) /\ SentHolds(i)
    BY <1>1, <1>8, <2>1 DEF Exists
  <2>4. \A u \in Workers : Owns(u, i)' => u = w
    BY <1>1, <2>3 DEF Owns, OwnerHolds
  <2>5. row[i].status = "PUBLISHING" /\ row[i].version = wk[w].version + 2
    BY <2>1, <2>3 DEF OwnerHolds, Current, Job, expectedDispatchVersion
  <2>6. Current(w)'
    BY <2>1, <2>2, <2>5 DEF Current, Exists, Job, expectedDispatchVersion
  <2>7. OwnerHolds(i, w)'
    BY <1>1, <2>1, <2>2, <2>3, <2>4, <2>5, <2>6 DEF OwnerHolds
  <2>8. SentHolds(i)'
    BY <2>1, <2>3, <2>5 DEF SentHolds, OwnerHolds
  <2> QED
    BY <2>4, <2>7, <2>8
<1>14. CASE handleResult(w)
  <2>1. Return(w) /\ sent' = sent /\ wk[w].pc = "result" /\ Past(w)
    BY <1>14 DEF handleResult, Past
  <2>2. CASE row' = row
    BY <1>3, <2>1, <2>2
  <2>3. ASSUME NEW s \in {"PUBLISHED", "UNKNOWN"}, Exists(i),
               row' = [row EXCEPT ![i].status = s, ![i].version = @ + 1]
        PROVE  Seen(i)'
    <3>1. row'[i].status = s /\ row'[i].started = row[i].started
          /\ row'[i].content = row[i].content
      BY <1>0, <2>3 DEF RowType
    <3> QED
      BY <1>10, <2>1, <2>3, <3>1
  <2>4. CASE Exists(i) /\ row' = [row EXCEPT ![i].status = "UNKNOWN"]
    <3>1. row'[i].status = "UNKNOWN" /\ row'[i].started = row[i].started
          /\ row'[i].content = row[i].content
      BY <1>0, <2>4 DEF RowType
    <3> QED
      BY <1>10, <2>1, <2>4, <3>1
  <2> QED
    BY <1>14, <2>2, <2>3, <2>4 DEF handleResult, Current
<1> QED
  BY <1>4, <1>5, <1>6, <1>7, <1>9, <1>11, <1>12, <1>13, <1>14 DEF WorkerStep

\* What is owned, published or in doubt stays what the user sees, row by row.
LEMMA SeenStep ==
  ASSUME TypeOK, Carrying, RowsHavePost, NewIsUntouched, LoadedIsCurrent,
         OwnedByOne, SentAsSeen, [Next]_draftVars
  PROVE  (OwnedByOne /\ SentAsSeen)'
<1> SUFFICES ASSUME NEW i \in Ids PROVE Seen(i)'
  BY SeenEverywhereNext
<1>1. Seen(i)
  BY SeenEverywhere
<1>2. CASE UNCHANGED draftVars
  <2>1. row' = row /\ post' = post /\ sent' = sent /\ raced' = raced /\ wk' = wk
    BY <1>2 DEF draftVars
  <2>2. \A w \in Workers : Owns(w, i)' => Owns(w, i) /\ wk'[w] = wk[w]
    BY <2>1 DEF Owns
  <2> QED
    BY <1>1, <2>1, <2>2, SeenFrame
<1>3. ASSUME NEW w \in Workers, WorkerStep(w) PROVE Seen(i)'
  BY <1>1, <1>3, SeenElsewhere, SeenOwn
<1> QED
  BY <1>1, <1>2, <1>3, SeenPost, SeenCall, SeenCommand DEF Next

-----------------------------------------------------------------------------
(* The theorems                                                            *)

\* The inductive invariant holds initially and is kept by every step.
LEMMA DraftInduction ==
  /\ Init => TypeOK /\ DraftInv
  /\ TypeOK /\ DraftInv /\ [Next]_draftVars => (TypeOK /\ DraftInv)'
<1>1. ASSUME Init PROVE TypeOK /\ DraftInv
  <2>1. TypeOK
    BY <1>1, TypeInit
  <2>2. Carrying /\ RowsHavePost /\ NewIsUntouched
    BY <1>1 DEF Init, Carrying, RowsHavePost, NewIsUntouched, Exists, NoCall, NoJob, NoRow
  <2>3. \A i \in Ids : ~Exists(i) /\ row[i].status # "QUEUED"
    BY <1>1 DEF Init, Exists, NoRow
  <2>4. \A w \in Workers : wk[w].pc = "idle"
    BY <1>1 DEF Init, NoJob
  <2>5. DispatchesSpent
    BY <1>1, <2>3, <2>4 DEF Init, DispatchesSpent, Spent, Past
  <2>6. LoadedIsCurrent /\ OwnedByOne /\ SentAsSeen
    BY <2>3, <2>4 DEF LoadedIsCurrent, OwnedByOne, SentAsSeen, Owns
  <2> QED
    BY <2>1, <2>2, <2>5, <2>6 DEF DraftInv
<1>2. ASSUME TypeOK, DraftInv, [Next]_draftVars PROVE (TypeOK /\ DraftInv)'
  <2>1. TypeOK'
    BY <1>2, TypeStep DEF DraftInv
  <2>2. Carrying' /\ RowsHavePost' /\ NewIsUntouched'
    BY <1>2, CarryingStep, RowsHavePostStep, NewStep DEF DraftInv
  <2>3. DispatchesSpent'
    BY <1>2, <2>1, DispatchStep DEF DraftInv
  <2>4. LoadedIsCurrent'
    BY <1>2, <2>1, LoadedStep DEF DraftInv
  <2>5. (OwnedByOne /\ SentAsSeen)'
    BY <1>2, SeenStep DEF DraftInv
  <2> QED
    BY <2>1, <2>2, <2>3, <2>4, <2>5 DEF DraftInv
<1> QED
  BY <1>1, <1>2

\* Type correctness of the editing model, with the inductive invariant: posts, targets,
\* requests and jobs hold what PublishingApplicationService and the processor may store.
THEOREM DraftsTypeCorrect == Spec => [](TypeOK /\ DraftInv)
<1>1. Init => TypeOK /\ DraftInv
  BY DraftInduction
<1>2. TypeOK /\ DraftInv /\ [Next]_draftVars => (TypeOK /\ DraftInv)'
  BY DraftInduction
<1> QED
  BY <1>1, <1>2, PTL DEF Spec

\* A dispatch the user has cancelled (cancelQueued) is never sent to the provider, for any
\* number of workers that had loaded it.
THEOREM CancelledNeverSent == Spec => []CancelledIsNotSent
<1>1. TypeOK /\ DraftInv => CancelledIsNotSent
  BY DEF DraftInv, DispatchesSpent, CancelledIsNotSent
<1> QED
  BY <1>1, DraftsTypeCorrect, PTL

\* What a job publishes is what the user sees, although it loads the row and the post before
\* its claim and without a lock.
THEOREM PublishedAsSeen == Spec => []PublishesWhatIsSeen
<1>1. TypeOK /\ DraftInv => PublishesWhatIsSeen
  BY DEF DraftInv, OwnedByOne, SentAsSeen, PublishesWhatIsSeen
<1> QED
  BY <1>1, DraftsTypeCorrect, PTL
=============================================================================
