----------------------------- MODULE MediaProofs -----------------------------
(***************************************************************************)
(* For any number of completeUpload calls, recovery scans, uploads and     *)
(* failing calls: a READY asset has its object, and no upload is lost.     *)
(***************************************************************************)
EXTENDS MediaLifecycle, TLAPS

\* Why both properties hold: whoever is about to write READY, or to delete the staging
\* object, has seen a final object, and nobody deletes a final object.
SettledByFinal ==
  /\ ReadyHasObject
  /\ UploadedIsKept
  /\ \A c \in Requests : req[c] \in {"ready", "cleanup"} => final # "none"
  /\ \A r \in Scans : scan[r] \in {"ready", "cleanup"} => final # "none"

\* Before initiateUpload the invariant holds.
LEMMA MediaInit == Init => TypeOK /\ SettledByFinal
<1> SUFFICES ASSUME Init PROVE TypeOK /\ SettledByFinal
  OBVIOUS
<1>1. req \in [Requests -> RequestPcs] /\ scan \in [Scans -> ScanPcs]
  BY DEF Init, RequestPcs, ScanPcs
<1>2. TypeOK
  BY <1>1 DEF Init, TypeOK, Objects
<1>3. SettledByFinal
  BY DEF Init, SettledByFinal, ReadyHasObject, UploadedIsKept
<1> QED BY <1>2, <1>3

\* completeUpload keeps the types: each step writes the pc and one column or object.
LEMMA RequestTypes ==
  ASSUME TypeOK, NEW c \in Requests,
         ClaimUpload(c) \/ completeUpload(c) \/ RequestFault(c) \/ RequestDies(c)
  PROVE  TypeOK'
<1>1. CASE ClaimUpload(c)
  BY <1>1 DEF TypeOK, RequestPcs, ClaimUpload, reqGoes
<1>2. CASE completeUpload(c)
  <2>1. CASE HeadStaging(c) \/ VerifyFinal(c)
    BY <2>1 DEF TypeOK, RequestPcs, HeadStaging, VerifyFinal, reqGoes, row
  <2>2. CASE CopyToFinal(c)
    BY <2>2 DEF TypeOK, RequestPcs, CopyToFinal, reqGoes, row
  <2>3. CASE MarkReady(c) \/ MarkFailed(c)
    BY <2>3 DEF TypeOK, RequestPcs, MarkReady, MarkFailed, reqGoes
  <2>4. CASE CleanUp(c)
    BY <2>4 DEF TypeOK, RequestPcs, Objects, CleanUp, reqGoes, row
  <2> QED BY <1>2, <2>1, <2>2, <2>3, <2>4 DEF completeUpload
<1>3. CASE RequestFault(c)
  BY <1>3 DEF TypeOK, RequestPcs, RequestFault, reqGoes, row
<1>4. CASE RequestDies(c)
  BY <1>4 DEF TypeOK, RequestPcs, RequestDies, row
<1> QED BY <1>1, <1>2, <1>3, <1>4

\* So does a recovery scan.
LEMMA ScanTypes ==
  ASSUME TypeOK, NEW r \in Scans, recoverStaleProcessing(r) \/ ScanFault(r)
  PROVE  TypeOK'
<1>1. CASE recoverStaleProcessing(r)
  <2>1. CASE ReadStaleMedia(r) \/ HeadFinal(r)
    BY <2>1 DEF TypeOK, Objects, ScanPcs, sizeMatches, ReadStaleMedia, HeadFinal, scanGoes, row
  <2>2. CASE RecoveryHeadStaging(r) \/ RecoveryVerify(r)
    BY <2>2 DEF TypeOK, ScanPcs, RecoveryHeadStaging, RecoveryVerify, scanGoes, row
  <2>3. CASE RecoveryCopy(r)
    BY <2>3 DEF TypeOK, ScanPcs, RecoveryCopy, scanGoes, row
  <2>4. CASE RecoverReady(r)
    BY <2>4 DEF TypeOK, ScanPcs, RecoverReady, scanGoes
  <2>5. CASE RecoveryCleanUp(r)
    BY <2>5 DEF TypeOK, ScanPcs, Objects, RecoveryCleanUp, scanGoes, row
  <2>6. CASE failAsset(r)
    BY <2>6 DEF TypeOK, ScanPcs, failAsset, scanGoes
  <2> QED BY <1>1, <2>1, <2>2, <2>3, <2>4, <2>5, <2>6 DEF recoverStaleProcessing
<1>2. CASE ScanFault(r)
  BY <1>2 DEF TypeOK, ScanPcs, ScanFault, row
<1> QED BY <1>1, <1>2

\* Every step keeps the types.
LEMMA MediaTypesStep ==
  ASSUME TypeOK, [Next]_mediaVars
  PROVE  TypeOK'
<1>0. CASE initiateUpload
  <2>1. CASE CreateAsset
    BY <2>1 DEF TypeOK, CreateAsset, rest
  <2>2. CASE SignUrl
    BY <2>2 DEF TypeOK, SignUrl, rest
  <2>3. CASE RevertAsset
    BY <2>3 DEF TypeOK, RevertAsset, rest
  <2> QED BY <1>0, <2>1, <2>2, <2>3 DEF initiateUpload
<1>1. CASE Upload
  BY <1>1 DEF TypeOK, Objects, Upload
<1>2. CASE FiveMinutes
  BY <1>2 DEF TypeOK, FiveMinutes
<1>3. CASE UNCHANGED mediaVars
  BY <1>3 DEF TypeOK, mediaVars
<1> QED BY <1>0, <1>1, <1>2, <1>3, RequestTypes, ScanTypes DEF Next

\* completeUpload: the pc reaches "ready" only over a HEAD that found the final object,
\* and the object that is copied over it is not absent.
LEMMA RequestSettles ==
  ASSUME TypeOK, SettledByFinal, NEW c \in Requests,
         ClaimUpload(c) \/ completeUpload(c) \/ RequestFault(c) \/ RequestDies(c)
  PROVE  SettledByFinal'
<1> USE DEF TypeOK, RequestPcs, SettledByFinal, ReadyHasObject, UploadedIsKept
<1>1. CASE ClaimUpload(c)
  BY <1>1 DEF ClaimUpload, reqGoes
<1>2. CASE completeUpload(c)
  <2>1. CASE HeadStaging(c) \/ VerifyFinal(c)
    BY <2>1 DEF HeadStaging, VerifyFinal, reqGoes, row
  <2>2. CASE CopyToFinal(c)
    BY <2>2 DEF CopyToFinal, reqGoes, row
  <2>3. CASE MarkReady(c) \/ MarkFailed(c)
    BY <2>3 DEF MarkReady, MarkFailed, reqGoes
  <2>4. CASE CleanUp(c)
    BY <2>4 DEF CleanUp, reqGoes, row
  <2> QED BY <1>2, <2>1, <2>2, <2>3, <2>4 DEF completeUpload
<1>3. CASE RequestFault(c)
  BY <1>3 DEF RequestFault, reqGoes, row
<1>4. CASE RequestDies(c)
  BY <1>4 DEF RequestDies, row
<1> QED BY <1>1, <1>2, <1>3, <1>4

\* A scan: Case A starts from an existing final object, Case B verifies its copy.
LEMMA ScanSettles ==
  ASSUME TypeOK, SettledByFinal, NEW r \in Scans, recoverStaleProcessing(r) \/ ScanFault(r)
  PROVE  SettledByFinal'
<1> USE DEF TypeOK, ScanPcs, SettledByFinal, ReadyHasObject, UploadedIsKept
<1>1. CASE recoverStaleProcessing(r)
  <2>1. CASE ReadStaleMedia(r)
    BY <2>1 DEF ReadStaleMedia, scanGoes, row
  <2>2. CASE HeadFinal(r)
    BY <2>2 DEF Objects, sizeMatches, HeadFinal, scanGoes, row
  <2>3. CASE RecoveryHeadStaging(r)
    BY <2>3 DEF RecoveryHeadStaging, scanGoes, row
  <2>4. CASE RecoveryVerify(r)
    BY <2>4 DEF sizeMatches, RecoveryVerify, scanGoes, row
  <2>5. CASE RecoveryCopy(r)
    BY <2>5 DEF RecoveryCopy, scanGoes, row
  <2>6. CASE RecoverReady(r)
    BY <2>6 DEF RecoverReady, scanGoes
  <2>7. CASE RecoveryCleanUp(r)
    BY <2>7 DEF RecoveryCleanUp, scanGoes, row
  <2>8. CASE failAsset(r)
    BY <2>8 DEF failAsset, scanGoes
  <2> QED BY <1>1, <2>1, <2>2, <2>3, <2>4, <2>5, <2>6, <2>7, <2>8 DEF recoverStaleProcessing
<1>2. CASE ScanFault(r)
  BY <1>2 DEF ScanFault, row
<1> QED BY <1>1, <1>2

\* Every step keeps the invariant.
LEMMA SettledStep ==
  ASSUME TypeOK, SettledByFinal, [Next]_mediaVars
  PROVE  SettledByFinal'
<1>0. CASE initiateUpload
  BY <1>0 DEF SettledByFinal, ReadyHasObject, UploadedIsKept,
              initiateUpload, CreateAsset, SignUrl, RevertAsset, rest
<1>1. CASE Upload
  BY <1>1 DEF SettledByFinal, ReadyHasObject, UploadedIsKept, Objects, Upload
<1>2. CASE FiveMinutes
  BY <1>2 DEF SettledByFinal, ReadyHasObject, UploadedIsKept, FiveMinutes
<1>3. CASE UNCHANGED mediaVars
  BY <1>3 DEF SettledByFinal, ReadyHasObject, UploadedIsKept, mediaVars
<1> QED BY <1>0, <1>1, <1>2, <1>3, RequestSettles, ScanSettles DEF Next

\* The two writers of READY and the two cleanups (completeUpload and
\* recoverStaleProcessing) keep the invariant in every interleaving.
THEOREM AlwaysSettled == MediaSpec => [](TypeOK /\ SettledByFinal)
<1>1. TypeOK /\ SettledByFinal /\ [Next]_mediaVars => (TypeOK /\ SettledByFinal)'
  BY MediaTypesStep, SettledStep
<1> QED BY MediaInit, <1>1, PTL DEF MediaSpec

\* Every column of the asset, and every call on it, keeps its type.
THEOREM MediaTypeCorrect == MediaSpec => []TypeOK
<1>1. TypeOK /\ SettledByFinal => TypeOK
  OBVIOUS
<1> QED BY AlwaysSettled, <1>1, PTL

\* An asset that completeUpload or recovery made READY has its final object.
THEOREM ReadyAssetExists == MediaSpec => []ReadyHasObject
<1>1. TypeOK /\ SettledByFinal => ReadyHasObject
  BY DEF SettledByFinal
<1> QED BY AlwaysSettled, <1>1, PTL

\* The staging cleanups of completeUpload and recovery lose no uploaded object.
THEOREM UploadsSurvive == MediaSpec => []UploadedIsKept
<1>1. TypeOK /\ SettledByFinal => UploadedIsKept
  BY DEF SettledByFinal
<1> QED BY AlwaysSettled, <1>1, PTL
=============================================================================
