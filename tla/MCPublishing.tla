---------------------------- MODULE MCPublishing ----------------------------
EXTENDS PublishingClaims, PublishingInvariant, TLC

WorkerSymmetry == Permutations(Workers)

None == [b \in Bounds |-> 0]

\* Two requests with a failing call, two with a slow worker, and for the adapters that
\* prepare, poll or finalise a crash, a slow worker and a repeated poll.
SafetyLimits ==
  [a \in Adapters |->
     CASE a = "linkedin" -> [None EXCEPT !["requests"] = 2, !["faults"] = 1]
       [] a = "facebook" -> [None EXCEPT !["requests"] = 2, !["pauses"] = 1]
       [] OTHER -> [None EXCEPT !["requests"] = 1, !["crashes"] = 1, !["pauses"] = 1,
                                !["polls"] = 1]]

\* Two dead workers, or three failing calls, are what it takes for a job to fail for
\* good: the second adapter has both, the first has room for a retry or a deletion.
LivenessLimits ==
  [a \in Adapters |->
     IF a = "linkedin"
       THEN [None EXCEPT !["requests"] = 2, !["crashes"] = 1, !["faults"] = 1]
       ELSE [None EXCEPT !["requests"] = 1, !["crashes"] = 2, !["faults"] = 3]]

\* Two requests, and nothing goes wrong.
RetryLimits == [a \in Adapters |-> [None EXCEPT !["requests"] = 2]]

\* One request and two dead workers.
CrashLimits == [a \in Adapters |-> [None EXCEPT !["requests"] = 1, !["crashes"] = 2]]
=============================================================================
