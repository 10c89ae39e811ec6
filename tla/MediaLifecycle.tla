---------------------------- MODULE MediaLifecycle ----------------------------
(***************************************************************************)
(* One media asset: the row MediaService.initiateUpload creates, the       *)
(* staging object the client PUTs with a presigned URL, the final object,  *)
(* the completeUpload requests of the API and the recovery scans of the    *)
(* worker (MediaRecoveryService), which take over after five minutes.      *)
(* One action per database statement or storage call.                      *)
(***************************************************************************)
EXTENDS Naturals

CONSTANTS
  Requests,    \* completeUpload calls
  Scans,       \* recovery scans in flight (setInterval, several workers)
  MaxUploads,  \* bound: PUTs of the client
  MaxFaults    \* bound: storage or database calls that throw, processes that die

ASSUME MediaAssumption == MaxUploads \in Nat /\ MaxFaults \in Nat

VARIABLES
  issue,       \* where initiateUpload is: the client acts once it is "issued"
  status,      \* MediaAsset.status, "NONE" when there is no row
  storageKey,  \* "staging" or "final"
  stale,       \* processingStartedAt is older than five minutes
  staging,     \* the object under the staging key
  final,       \* the object under the final key
  req,         \* req[c]: where completeUpload call c is
  scan,        \* scan[r]: where recovery scan r is with the asset
  uploads,     \* PUTs so far
  faults       \* calls that threw so far

mediaVars == <<issue, status, storageKey, stale, staging, final, req, scan, uploads, faults>>

\* an object is absent, as declared, of another content type, or of another size
Objects == {"none", "good", "wrongType", "wrongSize"}

\* HeadObject: the size is the declared one
sizeMatches(object) == object \in {"good", "wrongType"}

RequestPcs == {"idle", "head", "copy", "verify", "ready", "cleanup", "fail", "done"}

ScanPcs == {"idle", "headFinal", "headStaging", "copy", "verify", "ready", "cleanup", "fail"}

TypeOK ==
  /\ issue \in {"idle", "signing", "reverting", "issued", "failed"}
  /\ status \in {"NONE", "UPLOADING", "PROCESSING", "READY", "FAILED"}
  /\ storageKey \in {"staging", "final"}
  /\ stale \in BOOLEAN
  /\ staging \in Objects /\ final \in Objects
  /\ req \in [Requests -> RequestPcs]
  /\ scan \in [Scans -> ScanPcs]
  /\ uploads \in Nat /\ faults \in Nat

Init ==
  /\ issue = "idle"
  /\ status = "NONE" /\ storageKey = "staging" /\ stale = FALSE
  /\ staging = "none" /\ final = "none"
  /\ req = [c \in Requests |-> "idle"]
  /\ scan = [r \in Scans |-> "idle"]
  /\ uploads = 0 /\ faults = 0

-----------------------------------------------------------------------------
(* MediaService.initiateUpload, and the client                             *)

rest == <<storageKey, stale, staging, final, req, scan, uploads>>

CreateAsset ==
  /\ issue = "idle" /\ issue' = "signing"
  /\ status' = "UPLOADING"
  /\ UNCHANGED <<rest, faults>>

\* createUpload signs the URL, or throws
SignUrl ==
  /\ issue = "signing"
  /\ \/ issue' = "issued" /\ UNCHANGED faults
     \/ issue' = "reverting" /\ faults < MaxFaults /\ faults' = faults + 1
  /\ UNCHANGED <<rest, status>>

\* the row is deleted again, unless that fails too
RevertAsset ==
  /\ issue = "reverting" /\ issue' = "failed"
  /\ \/ status' = "NONE" /\ UNCHANGED faults
     \/ UNCHANGED status /\ faults < MaxFaults /\ faults' = faults + 1
  /\ UNCHANGED rest

initiateUpload == CreateAsset \/ SignUrl \/ RevertAsset

\* the presigned PUT, which signs neither the size nor the number of uses
Upload ==
  /\ issue = "issued"
  /\ uploads < MaxUploads
  /\ uploads' = uploads + 1
  /\ staging' \in Objects \ {"none"}
  /\ UNCHANGED <<issue, status, storageKey, stale, final, req, scan, faults>>

-----------------------------------------------------------------------------
(* MediaService.completeUpload                                             *)

reqGoes(c, from, to) == req[c] = from /\ req' = [req EXCEPT ![c] = to]

row == <<status, storageKey, stale>>

\* CAS UPLOADING -> PROCESSING; a call that comes too late answers from the row
ClaimUpload(c) ==
  /\ issue = "issued"
  /\ IF status = "UPLOADING"
       THEN /\ reqGoes(c, "idle", "head")
            /\ status' = "PROCESSING" /\ stale' = FALSE
       ELSE /\ reqGoes(c, "idle", "done")
            /\ UNCHANGED <<status, stale>>
  /\ UNCHANGED <<issue, storageKey, staging, final, scan, uploads, faults>>

\* HEAD: the object exists and has the declared size and type
HeadStaging(c) ==
  /\ reqGoes(c, "head", IF staging = "good" THEN "copy" ELSE "fail")
  /\ UNCHANGED <<issue, row, staging, final, scan, uploads, faults>>

\* COPY staging to final, whatever the client has put there since the HEAD
CopyToFinal(c) ==
  /\ reqGoes(c, "copy", IF staging = "none" THEN "fail" ELSE "verify")
  /\ final' = IF staging = "none" THEN final ELSE staging
  /\ UNCHANGED <<issue, row, staging, scan, uploads, faults>>

\* HEAD of the final object: existence only
VerifyFinal(c) ==
  /\ reqGoes(c, "verify", IF final = "none" THEN "fail" ELSE "ready")
  /\ UNCHANGED <<issue, row, staging, final, scan, uploads, faults>>

\* mutant: READY is written without the final key
MarkReady_MutKey(c) ==
  /\ reqGoes(c, "ready", "cleanup")
  /\ status' = "READY"
  /\ UNCHANGED <<issue, storageKey, stale, staging, final, scan, uploads, faults>>

\* the update is by id, whatever the status
MarkReady(c) ==
  /\ reqGoes(c, "ready", "cleanup")
  /\ status' = "READY" /\ storageKey' = "final"
  /\ UNCHANGED <<issue, stale, staging, final, scan, uploads, faults>>

\* deleteObject, fire and forget
CleanUp(c) ==
  /\ reqGoes(c, "cleanup", "done")
  /\ staging' \in {"none", staging}
  /\ UNCHANGED <<issue, row, final, scan, uploads, faults>>

\* mutant: the catch cleans up the staging object as well
MarkFailed_MutDelete(c) ==
  /\ reqGoes(c, "fail", "done")
  /\ status' = "FAILED"
  /\ staging' = "none"
  /\ UNCHANGED <<issue, storageKey, stale, final, scan, uploads, faults>>

\* mutant: the catch reverts to a status the schema does not have
MarkFailed_MutRevert(c) ==
  /\ reqGoes(c, "fail", "done")
  /\ status' = "PENDING"
  /\ UNCHANGED <<issue, storageKey, stale, staging, final, scan, uploads, faults>>

\* the catch: FAILED by id, whatever the status
MarkFailed(c) ==
  /\ reqGoes(c, "fail", "done")
  /\ status' = "FAILED"
  /\ UNCHANGED <<issue, storageKey, stale, staging, final, scan, uploads, faults>>

\* a storage or database call throws into the catch; in the catch it ends the call
RequestFault(c) ==
  /\ faults < MaxFaults /\ faults' = faults + 1
  /\ \/ /\ req[c] \in {"head", "copy", "verify", "ready"}
        /\ req' = [req EXCEPT ![c] = "fail"]
     \/ reqGoes(c, "fail", "done")
  /\ UNCHANGED <<issue, row, staging, final, scan, uploads>>

\* the API process dies
RequestDies(c) ==
  /\ faults < MaxFaults /\ faults' = faults + 1
  /\ req[c] \notin {"idle", "done"}
  /\ req' = [req EXCEPT ![c] = "done"]
  /\ UNCHANGED <<issue, row, staging, final, scan, uploads>>

completeUpload(c) ==
  \/ HeadStaging(c) \/ CopyToFinal(c) \/ VerifyFinal(c)
  \/ MarkReady(c) \/ CleanUp(c) \/ MarkFailed(c)

-----------------------------------------------------------------------------
(* MediaRecoveryService.recoverStaleProcessing                             *)

scanGoes(r, from, to) == scan[r] = from /\ scan' = [scan EXCEPT ![r] = to]

\* the query: PROCESSING for more than five minutes
ReadStaleMedia(r) ==
  /\ status = "PROCESSING" /\ stale
  /\ scanGoes(r, "idle", "headFinal")
  /\ UNCHANGED <<issue, row, staging, final, req, uploads, faults>>

\* recovery compares sizes and no types
HeadFinal(r) ==
  /\ scanGoes(r, "headFinal", CASE sizeMatches(final) -> "ready"
                                [] final = "wrongSize" -> "fail"
                                [] final = "none"      -> "headStaging")
  /\ UNCHANGED <<issue, row, staging, final, req, uploads, faults>>

RecoveryHeadStaging(r) ==
  /\ scanGoes(r, "headStaging", IF sizeMatches(staging) THEN "copy" ELSE "fail")
  /\ UNCHANGED <<issue, row, staging, final, req, uploads, faults>>

RecoveryCopy(r) ==
  /\ scanGoes(r, "copy", IF staging = "none" THEN "fail" ELSE "verify")
  /\ final' = IF staging = "none" THEN final ELSE staging
  /\ UNCHANGED <<issue, row, staging, req, uploads, faults>>

RecoveryVerify(r) ==
  /\ scanGoes(r, "verify", IF sizeMatches(final) THEN "ready" ELSE "fail")
  /\ UNCHANGED <<issue, row, staging, final, req, uploads, faults>>

\* CAS on PROCESSING (and processingStartedAt, which is written once)
RecoverReady(r) ==
  /\ scanGoes(r, "ready", IF status = "PROCESSING" THEN "cleanup" ELSE "idle")
  /\ IF status = "PROCESSING"
       THEN status' = "READY" /\ storageKey' = "final"
       ELSE UNCHANGED <<status, storageKey>>
  /\ UNCHANGED <<issue, stale, staging, final, req, uploads, faults>>

RecoveryCleanUp(r) ==
  /\ scanGoes(r, "cleanup", "idle")
  /\ staging' \in {"none", staging}
  /\ UNCHANGED <<issue, row, final, req, uploads, faults>>

\* mutant: the asset is left for somebody else
failAsset_MutSkip(r) ==
  /\ scanGoes(r, "fail", "idle")
  /\ UNCHANGED <<issue, row, staging, final, req, uploads, faults>>

\* the same CAS, to FAILED
failAsset(r) ==
  /\ scanGoes(r, "fail", "idle")
  /\ status' = IF status = "PROCESSING" THEN "FAILED" ELSE status
  /\ UNCHANGED <<issue, storageKey, stale, staging, final, req, uploads, faults>>

\* a call throws into the catch, which fails the asset; or there, or the worker dies
ScanFault(r) ==
  /\ faults < MaxFaults /\ faults' = faults + 1
  /\ \/ /\ scan[r] \notin {"idle", "cleanup", "fail"}
        /\ scan' = [scan EXCEPT ![r] = "fail"]
     \/ /\ scan[r] # "idle"
        /\ scan' = [scan EXCEPT ![r] = "idle"]
  /\ UNCHANGED <<issue, row, staging, final, req, uploads>>

recoverStaleProcessing(r) ==
  \/ ReadStaleMedia(r) \/ HeadFinal(r) \/ RecoveryHeadStaging(r) \/ RecoveryCopy(r)
  \/ RecoveryVerify(r) \/ RecoverReady(r) \/ RecoveryCleanUp(r) \/ failAsset(r)

-----------------------------------------------------------------------------
\* five minutes pass, whether or not the request is still at work
FiveMinutes ==
  /\ status = "PROCESSING" /\ ~stale
  /\ stale' = TRUE
  /\ UNCHANGED <<issue, status, storageKey, staging, final, req, scan, uploads, faults>>

Next ==
  \/ initiateUpload
  \/ Upload
  \/ FiveMinutes
  \/ \E c \in Requests :
       ClaimUpload(c) \/ completeUpload(c) \/ RequestFault(c) \/ RequestDies(c)
  \/ \E r \in Scans : recoverStaleProcessing(r) \/ ScanFault(r)

MediaSpec == Init /\ [][Next]_mediaVars

\* setInterval runs a scan every minute, and clocks advance
MediaFairness ==
  /\ WF_mediaVars(FiveMinutes)
  /\ \A r \in Scans : WF_mediaVars(recoverStaleProcessing(r))

MediaFairSpec == MediaSpec /\ MediaFairness

-----------------------------------------------------------------------------
\* An asset shown as READY, and therefore handed to the publishing adapters, points to
\* a final object that exists: two writers of READY, and a cleanup that runs beside them.
ReadyHasObject == status = "READY" => storageKey = "final" /\ final # "none"

\* What the client uploaded is never lost: the staging object goes only after a final
\* one exists, also when completion and recovery clean up after each other.
UploadedIsKept == uploads > 0 => staging # "none" \/ final # "none"

\* recoverStaleProcessing: no asset stays PROCESSING, also when the request died.
ProcessingEnds == status = "PROCESSING" ~> status # "PROCESSING"
=============================================================================
