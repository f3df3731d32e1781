--------------------------- MODULE CopilotProperties ---------------------------
(* What the limiter and the table of tasks promise to the merchants. *)
EXTENDS Copilot

\* Who waits as long as a refusal says, and what the clocks may differ on top,
\* and had no other request let through in between, is not refused again
\* (retry_after of tokenBucketScript).
WaitIsEnough == vain = {}

\* A task is pending only while its request is under way or after a failure that
\* kept the outcome from the table; whatever the provider did
\* (GenerateSellingPoints, GenerateBusinessReview).
TaskIsSettled ==
  \A t \in DOMAIN tasks :
    \/ tasks[t].status # "pending"
    \/ t \in lost
    \/ \E p \in Callers : (Doing(p, "ask") \/ Doing(p, "write")) /\ call[p].task = t

\* No merchant can read a task of another, not even when the shops of both are
\* missing from their sessions (canReadAITask).
TasksArePrivate ==
  \A u \in Users \cup Others, t \in DOMAIN tasks : \A shop \in Shops(u) :
    CanReadAITask(shop, t) => tasks[t].user = u

=============================================================================
