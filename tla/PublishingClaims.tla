-------------------------- MODULE PublishingClaims --------------------------
(***************************************************************************)
(* What comments of the repository say of the publishing subsystem, where  *)
(* the model shows that the code does otherwise.                           *)
(***************************************************************************)
EXTENDS Publishing

\* "Recovers stuck PUBLISHING targets to UNKNOWN if older than a threshold"
\* (publishing.dispatcher.ts, above recoverStalePublishing): nothing stays
\* PUBLISHING for ever.
PublishingEnds == variant.status = "PUBLISHING" ~> variant.status # "PUBLISHING"

\* "Leave it QUEUED, next scan will retry" (publishing.dispatcher.ts, after a failed
\* add): the scans get every QUEUED publication to a worker in the end.
NextScanRetries == variant.status = "QUEUED" ~> variant.status # "QUEUED"
=============================================================================
