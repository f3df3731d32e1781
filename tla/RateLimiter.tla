------------------------------ MODULE RateLimiter ------------------------------
(***************************************************************************)
(* The token buckets of redis/ratelimit.go.                                *)
(*                                                                         *)
(* A script in Redis refills and charges a bucket in one step, but the     *)
(* time it goes by is the caller's: instances have clocks that disagree,   *)
(* and a request is on its way for a while.  One token is Cost ticks, so   *)
(* that the fractions of tokens are whole numbers here.                    *)
(***************************************************************************)
EXTENDS Integers, Sequences

CONSTANTS
  Users,          \* there is a bucket for each
  Burst,          \* tokens a full bucket has
  Cost,           \* ticks it takes to refill one
  Second,         \* the least life of a bucket, in ticks
  Spread,         \* how far a caller's clock may be from another's
  MaxTime         \* bounds the time

Full == Burst * Cost

\* A rate that is not positive is refused, and so is no burst.
RateLimitPolicyFromEnv == Burst \in Nat \ {0} /\ Cost \in Nat \ {0}

ASSUME LimiterAssumption ==
  /\ RateLimitPolicyFromEnv
  /\ Second \in Nat \ {0}
  /\ {Spread, MaxTime} \subseteq Nat
  /\ Spread <= Full

VARIABLES
  time,           \* of Redis
  bucket,         \* a user's tokens, the time they are of, when Redis forgets it
  admitted        \* the times at which a user was let through

limiter == <<time, bucket, admitted>>

\* Mutant: the key lives as long as a bucket takes to fill.
Lifetime_Short == Full

\* PEXPIRE
Lifetime == IF Second > 2 * Full THEN Second ELSE 2 * Full

Alive(u) == time < bucket[u].until

LimiterInit ==
  /\ time = 0
  /\ bucket = [u \in Users |-> [tokens |-> Full, at |-> 0, until |-> 0]]
  /\ admitted = [u \in Users |-> << >>]

\* The bucket as the script finds it at the caller's time now.  A time before
\* the last one counts as the last one.
At(u, now) == IF Alive(u) /\ now < bucket[u].at THEN bucket[u].at ELSE now

\* Mutant: a bucket overflows.
Refilled_Overflows(u, now) ==
  IF Alive(u) THEN bucket[u].tokens + (At(u, now) - bucket[u].at) ELSE Full

Refilled(u, now) ==
  LET tokens == bucket[u].tokens + (At(u, now) - bucket[u].at)
  IN  IF Alive(u) /\ tokens < Full THEN tokens ELSE Full

\* What the caller is told to wait when it is refused.
RetryAfter(u, now) == Cost - Refilled(u, now)

Store(u, now, tokens) ==
  bucket' = [bucket EXCEPT ![u] = [tokens |-> tokens, at |-> At(u, now),
                                   until |-> time + Lifetime]]

Admit(u, now) ==
  /\ Refilled(u, now) >= Cost
  /\ Store(u, now, Refilled(u, now) - Cost)
  /\ admitted' = [admitted EXCEPT ![u] = Append(@, time)]
  /\ UNCHANGED time

\* Mutant: a refusal costs a token too.
Refuse_Charges(u, now) ==
  /\ Refilled(u, now) < Cost
  /\ Store(u, now, 0)
  /\ UNCHANGED <<time, admitted>>

Refuse(u, now) ==
  /\ Refilled(u, now) < Cost
  /\ Store(u, now, Refilled(u, now))
  /\ UNCHANGED <<time, admitted>>

LimiterTick == time < MaxTime /\ time' = time + 1 /\ UNCHANGED <<bucket, admitted>>

Clocks == time .. time + Spread

LimiterNext ==
  \/ \E u \in Users, now \in Clocks : Admit(u, now) \/ Refuse(u, now)
  \/ LimiterTick

LimiterSpec == LimiterInit /\ [][LimiterNext]_limiter

-----------------------------------------------------------------------------
\* From any request let through to any later one a user gets a full bucket and
\* what refills in the time between them, give or take what the clocks differ,
\* however often Redis forgets the bucket (tokenBucketScript).
RateIsKept ==
  \A u \in Users : \A i, j \in DOMAIN admitted[u] :
    i <= j => (j - i + 1) * Cost <= Full + (admitted[u][j] - admitted[u][i]) + Spread

=============================================================================
