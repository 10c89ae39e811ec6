-------------------------- MODULE PublicationStates --------------------------
(***************************************************************************)
(* The two finite state machines every publication is governed by:         *)
(* the user-visible status (packages/database/src/publishing/              *)
(* state-machine.ts) and the phase of the remote operation (packages/      *)
(* database/src/repositories/ExecutionMetadataRepository.ts), with the     *)
(* result categories of a provider call.  Constant-level only.             *)
(***************************************************************************)

\* PostStatus of a variant (PARTIAL is an aggregate of a post, never of a variant)
Statuses == { "DRAFT", "SCHEDULED", "QUEUED", "PUBLISHING", "PUBLISHED",
              "FAILED", "UNKNOWN", "DELETING", "DELETED" }

LEGAL_TRANSITIONS ==
  [s \in Statuses |->
    CASE s = "DRAFT"      -> {"SCHEDULED", "QUEUED"}
      [] s = "SCHEDULED"  -> {"DRAFT", "QUEUED"}
      [] s = "QUEUED"     -> {"PUBLISHING", "DRAFT"}
      [] s = "PUBLISHING" -> {"PUBLISHED", "FAILED", "UNKNOWN"}
      [] s = "PUBLISHED"  -> {"DELETING"}
      [] s = "FAILED"     -> {"QUEUED", "DRAFT", "DELETING"}
      [] s = "UNKNOWN"    -> {"PUBLISHED", "FAILED", "DELETING"}
      [] s = "DELETING"   -> {"DELETED", "UNKNOWN"}
      [] OTHER            -> {}]

canTransitionPublication(from, to) == from = to \/ to \in LEGAL_TRANSITIONS[from]

-----------------------------------------------------------------------------
\* "NONE" stands for executionMetadata = NULL
Phases == { "NONE", "INITIATED", "CONTAINER_CREATED", "PROCESSING_REMOTE",
            "PUBLISH_REQUESTED", "COMPLETED", "FAILED", "AMBIGUOUS" }

TERMINAL_PHASES == {"COMPLETED", "FAILED", "AMBIGUOUS"}

\* mutant: a rejected final request may be recorded as FAILED
ALLOWED_TRANSITIONS_MutFail ==
  [p \in Phases |->
    CASE p = "INITIATED" ->
           {"CONTAINER_CREATED", "PUBLISH_REQUESTED", "COMPLETED", "FAILED"}
      [] p = "CONTAINER_CREATED" ->
           {"CONTAINER_CREATED", "PROCESSING_REMOTE", "PUBLISH_REQUESTED", "FAILED"}
      [] p = "PROCESSING_REMOTE" ->
           {"PROCESSING_REMOTE", "PUBLISH_REQUESTED", "COMPLETED", "FAILED", "AMBIGUOUS"}
      [] p = "PUBLISH_REQUESTED" ->
           {"COMPLETED", "AMBIGUOUS", "PROCESSING_REMOTE", "FAILED"}
      [] OTHER -> {}]

ALLOWED_TRANSITIONS ==
  [p \in Phases |->
    CASE p = "INITIATED" ->
           {"CONTAINER_CREATED", "PUBLISH_REQUESTED", "COMPLETED", "FAILED"}
      [] p = "CONTAINER_CREATED" ->
           {"CONTAINER_CREATED", "PROCESSING_REMOTE", "PUBLISH_REQUESTED", "FAILED"}
      [] p = "PROCESSING_REMOTE" ->
           {"PROCESSING_REMOTE", "PUBLISH_REQUESTED", "COMPLETED", "FAILED", "AMBIGUOUS"}
      [] p = "PUBLISH_REQUESTED" ->
           {"COMPLETED", "AMBIGUOUS", "PROCESSING_REMOTE"}
      [] OTHER -> {}]

-----------------------------------------------------------------------------
\* What an adapter call can end in: success, "still processing", or a failure category.
\* PERMANENT stands for PERMANENT, VALIDATION and RATE_LIMITED too: no branch of the
\* code tells these three apart.
Failures == { "UNKNOWN_RESULT", "TRANSIENT", "AUTH_REQUIRED", "PERMANENT",
              "AMBIGUOUS_PUBLISHED_CONTAINER" }

Results == Failures \cup {"NONE", "SUCCESS", "PROCESSING"}

\* The publishing adapters, Instagram split by the path publish() takes
AllAdapters == { "linkedin", "facebook", "ig_image", "ig_reel", "ig_carousel", "youtube" }
=============================================================================
