------------------------- MODULE PublishingInvariant -------------------------
(***************************************************************************)
(* The inductive invariant behind the safety properties of Publishing.     *)
(*                                                                         *)
(* dispatchVersion is the fencing token: whoever changes the phase bumps   *)
(* it, so a worker whose expectedVersion is still the row's knows the      *)
(* phase.  Only such a worker can pass the checkpoint, and past it the     *)
(* phase never returns to one from which the checkpoint can be passed.     *)
(***************************************************************************)
EXTENDS Publishing

\* pcs at which a slot still relies on the phase it loaded
LoadedPcs == {"attempt", "create", "guard", "creds", "poll", "publish"}

\* pcs before a job is known to start or to continue an operation
FirstPcs == {"load", "claim", "start"}

\* if the row has not moved since, its phase is p (or an operator closed it)
Sees(r, row, p) ==
  r.expectedVersion = row.dispatchVersion => row.phase \in {p} \cup TERMINAL_PHASES

\* what a slot in state r knows of the row, of the final requests sent, and of its adapter
Knows(r, row, sent, ad) ==
  /\ r.expectedVersion <= row.dispatchVersion
  /\ r.pc \in LoadedPcs => /\ Sees(r, row, r.loadedPhase)
                           /\ r.isContinuation => r.sourcePhase = "PROCESSING_REMOTE"
                           /\ ~r.isContinuation => r.loadedPhase = "INITIATED"
  /\ r.pc = "publish" => r.loadedPhase # "PROCESSING_REMOTE"
  /\ r.pc = "poll" => r.isContinuation
  /\ r.pc \in FirstPcs => ~r.isContinuation
  /\ r.pc = "final" => ad \in {"ig_image", "ig_reel"}
  /\ r.pc = "mutate" => sent = 0 /\ Sees(r, row, "PUBLISH_REQUESTED")
  /\ r.pc = "result" /\ r.result = "PROCESSING" =>
       \/ r.sourcePhase \in {"CONTAINER_CREATED", "PROCESSING_REMOTE"}
       \/ ad = "youtube" /\ sent = 1
  /\ r.pc = "result" /\ r.result = "SUCCESS" => sent = 1

\* a final request is out, or the slot about to send it has passed the checkpoint
Armed == mutations > 0 \/ \E w \in Workers : wk[w].pc = "mutate"

\* where the row is once that has happened
ArmedPhase ==
  Armed => /\ variant.phase \notin {"NONE", "INITIATED", "CONTAINER_CREATED"}
           /\ variant.phase = "PROCESSING_REMOTE" => adapter = "youtube"

OneArmed ==
  \A v, w \in Workers : wk[v].pc = "mutate" /\ wk[w].pc = "mutate" => v = w

PublishedCompleted ==
  /\ variant.status = "PUBLISHED" => variant.phase = "COMPLETED" /\ variant.externalPostId # "none"
  /\ variant.externalPostId = "provider" => mutations = 1

RemoteFollows == mutations = 0 => remote = "absent"

OperationHasPhase == variant.operationId # 0 => variant.phase # "NONE"

\* The inductive invariant: TypeOK, at most one request, and what each slot knows
\* by the fencing token.
Fenced ==
  /\ mutations \in {0, 1}
  /\ \A w \in Workers : Knows(wk[w], variant, mutations, adapter)
  /\ ArmedPhase
  /\ OneArmed
  /\ PublishedCompleted
  /\ RemoteFollows
  /\ OperationHasPhase

-----------------------------------------------------------------------------
(* What a failure and a deletion rest on, relative to Fenced               *)

\* an operation that failed, not by an operator's word, left nothing at the provider
FailedIsOver ==
  variant.phase = "FAILED" /\ ~variant.reconciled =>
    remote # "live" /\ \A w \in Workers : wk[w].pc # "mutate"

\* YouTube prepares nothing: what it processes was sent
VideoIsSent ==
  adapter = "youtube" =>
    /\ variant.phase # "CONTAINER_CREATED"
    /\ variant.phase = "PROCESSING_REMOTE" => mutations = 1

\* a slot whose operation is still polled calls it failed only when the video is gone
FailsWhenLost ==
  \A w \in Workers :
    /\ wk[w].pc = "result" /\ wk[w].result \in {"TRANSIENT", "AUTH_REQUIRED", "PERMANENT"}
    /\ wk[w].expectedVersion = variant.dispatchVersion
    /\ variant.phase = "PROCESSING_REMOTE" /\ wk[w].sourcePhase = "PROCESSING_REMOTE"
    /\ adapter = "youtube"
    => remote # "live"

Truthful == FailedIsOver /\ VideoIsSent /\ FailsWhenLost

\* a deletion was asked for, is found by a scan, is queued or is taken by a slot
DeletionAsked ==
  \/ variant.status = "DELETING"
  \/ \E d \in Scanners : scan[d].step = "deleting"
  \/ \E j \in jobs : j.kind = "delete"
  \/ \E w \in Workers : wk[w].pc = "delLoad"

\* Deletions are of posts with an id, only LinkedIn deletes, and a slot that reports success
\* or a row that is DELETED means the content is gone.
Deletions ==
  /\ DeletionAsked => variant.externalPostId # "none"
  /\ remote = "removed" => adapter = "linkedin"
  /\ \A w \in Workers :
       /\ wk[w].pc \in DeletePcs \ {"delLoad"} => adapter = "linkedin"
       /\ wk[w].pc = "delRecord" /\ wk[w].result = "SUCCESS" => remote = "removed"
  /\ variant.status = "DELETED" => remote = "removed"
=============================================================================
