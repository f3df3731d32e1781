----------------------------- MODULE Copilot_proofs ----------------------------
(***************************************************************************)
(* The rate limiter and the handlers behind it, for every burst, rate,     *)
(* life of a bucket and difference of clocks that LimiterAssumption        *)
(* allows, for any merchants and requests, and for as long as one likes.   *)
(*                                                                         *)
(* RateIsKept is not inductive: what the next request finds depends on the *)
(* bucket.  Paid relates the two: every request since the one let through  *)
(* at admitted[u][i] was paid from the full bucket or from what refilled   *)
(* until the bucket's time.  When Redis has forgotten the bucket, Expires  *)
(* says that by then a whole bucket has refilled.                          *)
(*                                                                         *)
(* To the limiter a request, whatever becomes of it, is a step of its own  *)
(* or none: Copilot implements LimiterSpec, and so the rate is kept there. *)
(* A wait is enough because the time told is a promise about the bucket    *)
(* that every later refusal leaves as it is (Promised): what a refusal     *)
(* adds to the tokens it takes from the time they are of.                  *)
(***************************************************************************)
EXTENDS CopilotProperties, TLAPS

Bucket == [tokens : 0 .. Full, at : Int, until : Int]

RateTypes ==
  /\ time \in Nat
  /\ bucket \in [Users -> Bucket]
  /\ admitted \in [Users -> Seq(Int)]

Expires(b) == b.at + Lifetime <= b.until + Spread

Paid(b, times) ==
  \A i \in 1 .. Len(times) :
    (Len(times) - i + 1) * Cost + b.tokens <= Full + (b.at - times[i])

Kept(times) ==
  \A i, j \in 1 .. Len(times) :
    i <= j => (j - i + 1) * Cost <= Full + (times[j] - times[i]) + Spread

UserInv(u) ==
  /\ admitted[u] # << >> => Expires(bucket[u])
  /\ bucket[u].at <= time + Spread
  /\ Paid(bucket[u], admitted[u])
  /\ Kept(admitted[u])

RateInv == RateTypes /\ \A u \in Users : UserInv(u)

-----------------------------------------------------------------------------

\* A full bucket has a token.
LEMMA FullBucket == Full \in Nat /\ Cost <= Full
<1>1. Burst \in Nat /\ Cost \in Nat /\ Burst >= 1
  BY LimiterAssumption DEF RateLimitPolicyFromEnv
<1>2. \A b, c \in Nat : b >= 1 => b * c >= c /\ b * c \in Nat
  BY Z3
<1> QED
  BY <1>1, <1>2 DEF Full

\* A bucket outlives the time it takes to fill, whatever the clocks differ.
LEMMA LifeOfBucket == Lifetime \in Nat /\ Full + Spread <= Lifetime
BY FullBucket, LimiterAssumption DEF RateLimitPolicyFromEnv, Lifetime

\* One more is one more.
LEMMA Distributed ==
  ASSUME NEW k \in Int, NEW c \in Int
  PROVE  (k + 1) * c = k * c + c /\ k * c \in Int
OBVIOUS

\* What was owed with the old tokens is owed with the new ones.
LEMMA Carried ==
  ASSUME NEW owed \in Int, NEW old \in Int, NEW new \in Int, NEW full \in Int,
         NEW at \in Int, NEW t \in Int, NEW x \in Int,
         owed + old <= full + (at - x), new <= old + (t - at)
  PROVE  owed + new <= full + (t - x)
OBVIOUS

\* A bucket that has outlived its key is full.
LEMMA Waited ==
  ASSUME NEW full \in Int, NEW spread \in Int, NEW life \in Int, NEW at \in Int,
         NEW until \in Int, NEW t \in Int, NEW now \in Int, NEW old \in Int,
         full + spread <= life, at + life <= until + spread, until <= t, t <= now, 0 <= old
  PROVE  full <= old + (now - at)
OBVIOUS

\* What is known of a bucket that the script has found at the time now.
LEMMA Found ==
  ASSUME RateInv, NEW u \in Users, NEW now \in Clocks
  PROVE  /\ now \in Int /\ time <= now /\ now <= time + Spread
         /\ Refilled(u, now) \in 0 .. Full
         /\ At(u, now) \in Int /\ time <= At(u, now) /\ At(u, now) <= time + Spread
         /\ \A i \in 1 .. Len(admitted[u]) :
              (Len(admitted[u]) - i + 1) * Cost + Refilled(u, now)
                <= Full + (At(u, now) - admitted[u][i])
<1> DEFINE b == bucket[u]
<1> DEFINE a == admitted[u]
<1>1. /\ time \in Nat /\ Spread \in Nat /\ Cost \in Nat /\ Full \in Nat
      /\ b.tokens \in Int /\ 0 <= b.tokens /\ b.tokens <= Full
      /\ b.at \in Int /\ b.until \in Int
  BY FullBucket, LimiterAssumption DEF RateLimitPolicyFromEnv, RateInv, RateTypes, Bucket
<1>6. /\ a \in Seq(Int) /\ Len(a) \in Nat
      /\ \A i \in 1 .. Len(a) : a[i] \in Int /\ (Len(a) - i + 1) * Cost \in Int
  BY <1>1 DEF RateInv, RateTypes
<1>2. now \in Int /\ time <= now /\ now <= time + Spread
  BY <1>1 DEF Clocks
<1>3. b.at <= time + Spread /\ Paid(b, a) /\ (a # << >> => Expires(b))
  BY DEF RateInv, UserInv
<1>4. CASE Alive(u)
  <2>1. At(u, now) \in Int /\ time <= At(u, now) /\ At(u, now) <= time + Spread /\ b.at <= At(u, now)
    BY <1>1, <1>2, <1>3, <1>4 DEF At
  <2>2. Refilled(u, now) \in 0 .. Full /\ Refilled(u, now) <= b.tokens + (At(u, now) - b.at)
    <3> DEFINE filled == b.tokens + (At(u, now) - b.at)
    <3>1. Refilled(u, now) = IF filled < Full THEN filled ELSE Full
      BY <1>4 DEF Refilled
    <3>2. filled \in Nat
      BY <1>1, <2>1
    <3> HIDE DEF filled
    <3>3. Refilled(u, now) \in 0 .. Full /\ Refilled(u, now) <= filled
      BY <1>1, <3>1, <3>2
    <3> QED
      BY <3>3 DEF filled
  <2>3. ASSUME NEW i \in 1 .. Len(a)
        PROVE  (Len(a) - i + 1) * Cost + Refilled(u, now) <= Full + (At(u, now) - a[i])
    <3>1. (Len(a) - i + 1) * Cost + b.tokens <= Full + (b.at - a[i])
      BY <1>3 DEF Paid
    <3>2. (Len(a) - i + 1) * Cost \in Int /\ a[i] \in Int
      BY <1>6
    <3> DEFINE owed == (Len(a) - i + 1) * Cost
    <3> DEFINE new == Refilled(u, now)
    <3> DEFINE t == At(u, now)
    <3> DEFINE old == b.tokens
    <3> DEFINE at == b.at
    <3> DEFINE x == a[i]
    <3>3. owed + old <= Full + (at - x) /\ new <= old + (t - at)
      BY <2>2, <3>1
    <3>4. owed \in Int /\ x \in Int /\ new \in Int /\ t \in Int /\ at \in Int /\ old \in Int /\ Full \in Int
      BY <1>1, <2>1, <2>2, <3>2
    <3> HIDE DEF owed, new, t, old, at, x
    <3>5. owed + new <= Full + (t - x)
      BY <3>3, <3>4, Carried
    <3> QED
      BY <3>5 DEF owed, new, t, x
  <2> QED
    BY <1>2, <2>1, <2>2, <2>3
<1>5. CASE ~Alive(u)
  <2>1. At(u, now) = now /\ Refilled(u, now) = Full
    BY <1>5 DEF At, Refilled
  <2>2. ASSUME NEW i \in 1 .. Len(a)
        PROVE  (Len(a) - i + 1) * Cost + Refilled(u, now) <= Full + (At(u, now) - a[i])
    <3>1. (Len(a) - i + 1) * Cost + b.tokens <= Full + (b.at - a[i])
      BY <1>3 DEF Paid
    <3>2. (Len(a) - i + 1) * Cost \in Int /\ a[i] \in Int
      BY <1>6
    <3>3. a # << >>
      BY <1>6
    <3>4. b.at + Lifetime <= b.until + Spread
      BY <1>3, <3>3 DEF Expires
    <3>5. b.until <= time
      BY <1>1, <1>5 DEF Alive
    <3>6. /\ b.at \in Int /\ b.until \in Int /\ b.tokens \in Int /\ 0 <= b.tokens
          /\ time \in Int /\ now \in Int /\ Full \in Int /\ Spread \in Int /\ Lifetime \in Int
      BY <1>1, <1>2, LifeOfBucket
    <3> DEFINE owed == (Len(a) - i + 1) * Cost
    <3> DEFINE old == b.tokens
    <3> DEFINE at == b.at
    <3> DEFINE x == a[i]
    <3>7. Full <= old + (now - at)
      <4> DEFINE until == b.until
      <4>1. at + Lifetime <= until + Spread /\ until <= time /\ time <= now
        BY <1>2, <3>4, <3>5
      <4> HIDE DEF old, at, until
      <4> QED
        BY <3>6, <4>1, LifeOfBucket, Waited DEF old, at, until
    <3>8. owed \in Int /\ old \in Int /\ Full \in Int /\ at \in Int /\ now \in Int /\ x \in Int
      BY <1>1, <1>2, <3>2
    <3> HIDE DEF owed, old, at, x
    <3>9. owed + Full <= Full + (now - x)
      BY <3>1, <3>7, <3>8, Carried DEF owed, old, at, x
    <3> QED
      BY <2>1, <3>9 DEF owed, x
  <2> QED
    BY <1>1, <1>2, <2>1, <2>2
<1> QED
  BY <1>4, <1>5

\* What the script writes back fits its key's life and the clocks.
LEMMA Stored ==
  ASSUME RateInv, NEW u \in Users, NEW now \in Clocks, NEW tokens \in 0 .. Full,
         Store(u, now, tokens)
  PROVE  /\ bucket' \in [Users -> Bucket]
         /\ \A v \in Users \ {u} : bucket'[v] = bucket[v]
         /\ bucket'[u].tokens = tokens /\ bucket'[u].at = At(u, now)
         /\ Expires(bucket'[u])
<1>1. /\ time \in Nat /\ Spread \in Nat /\ bucket \in [Users -> Bucket]
      /\ At(u, now) \in Int /\ At(u, now) <= time + Spread
  BY Found, LimiterAssumption DEF RateLimitPolicyFromEnv, RateInv, RateTypes
<1>2. bucket'[u] = [tokens |-> tokens, at |-> At(u, now), until |-> time + Lifetime]
  BY <1>1 DEF Store
<1>3. [tokens |-> tokens, at |-> At(u, now), until |-> time + Lifetime] \in Bucket
  BY <1>1, LifeOfBucket DEF Bucket
<1>4. bucket' \in [Users -> Bucket] /\ \A v \in Users \ {u} : bucket'[v] = bucket[v]
  BY <1>1, <1>3 DEF Store
<1>5. Expires(bucket'[u])
  BY <1>1, <1>2, LifeOfBucket DEF Expires
<1> QED
  BY <1>2, <1>4, <1>5

LEMMA AdmitKeeps ==
  ASSUME RateInv, NEW u \in Users, NEW now \in Clocks, Admit(u, now)
  PROVE  RateInv'
<1> DEFINE a == admitted[u]
<1> DEFINE n == Len(a)
<1>1. /\ time \in Nat /\ time' = time /\ Spread \in Nat /\ Cost \in Nat /\ Full \in Nat /\ Cost <= Full
      /\ a \in Seq(Int) /\ n \in Nat /\ \A i \in 1 .. n : a[i] \in Int
  BY FullBucket, LimiterAssumption DEF RateLimitPolicyFromEnv, RateInv, RateTypes, Admit
<1>2. /\ Refilled(u, now) \in 0 .. Full /\ At(u, now) \in Int
      /\ time <= At(u, now) /\ At(u, now) <= time + Spread
      /\ \A i \in 1 .. n : (n - i + 1) * Cost + Refilled(u, now) <= Full + (At(u, now) - a[i])
  BY Found
<1>3. Refilled(u, now) >= Cost /\ Refilled(u, now) - Cost \in 0 .. Full
  BY <1>1, <1>2 DEF Admit
<1>11. /\ Refilled(u, now) \in Int /\ At(u, now) \in Int
       /\ Full \in Int /\ time + Spread \in Int /\ Cost \in Int
  <2>1. time \in Nat /\ Spread \in Nat /\ Cost \in Nat /\ Full \in Nat
    BY <1>1
  <2>2. Refilled(u, now) \in 0 .. Full /\ At(u, now) \in Int
    BY <1>2
  <2> QED
    BY <2>1, <2>2
<1>4. /\ bucket' \in [Users -> Bucket]
      /\ \A v \in Users \ {u} : bucket'[v] = bucket[v]
      /\ bucket'[u].tokens = Refilled(u, now) - Cost /\ bucket'[u].at = At(u, now)
      /\ Expires(bucket'[u])
  BY <1>3, Stored DEF Admit
<1>5. /\ admitted' \in [Users -> Seq(Int)]
      /\ \A v \in Users \ {u} : admitted'[v] = admitted[v]
      /\ admitted'[u] = Append(a, time)
  BY <1>1 DEF RateInv, RateTypes, Admit
<1>6. /\ Len(admitted'[u]) = n + 1 /\ admitted'[u][n + 1] = time
      /\ \A i \in 1 .. n : admitted'[u][i] = a[i]
  BY <1>1, <1>5
<1>7. Paid(bucket'[u], admitted'[u])
  <2>1. ASSUME NEW i \in 1 .. n + 1
        PROVE  ((n + 1) - i + 1) * Cost + (Refilled(u, now) - Cost)
                 <= Full + (At(u, now) - admitted'[u][i])
    <3>1. CASE i = n + 1
      <4>1. ((n + 1) - i + 1) * Cost = Cost
        BY <1>1, <3>1
      <4>2. admitted'[u][i] = time /\ time \in Int /\ time <= At(u, now)
        BY <1>1, <1>2, <1>6, <3>1
      <4> DEFINE owed == ((n + 1) - i + 1) * Cost
      <4>3. owed = Cost
        BY <4>1
      <4> HIDE DEF owed
      <4>4. owed + (Refilled(u, now) - Cost) <= Full + (At(u, now) - time)
        <5>1. Refilled(u, now) <= Full
          BY <1>2, <1>11
        <5> QED
          BY <1>11, <4>2, <4>3, <5>1
      <4> QED
        BY <4>2, <4>4 DEF owed
    <3>2. CASE i \in 1 .. n
      <4>1. (n - i + 1) * Cost + Refilled(u, now) <= Full + (At(u, now) - a[i])
        BY <1>2, <3>2
      <4>2. ((n + 1) - i + 1) * Cost = (n - i + 1) * Cost + Cost /\ (n - i + 1) * Cost \in Int
        <5>1. (n + 1) - i + 1 = (n - i + 1) + 1 /\ n - i + 1 \in Int /\ Cost \in Int
          BY <1>1, <3>2
        <5> QED
          BY <5>1, Distributed
      <4>3. a[i] \in Int /\ admitted'[u][i] = a[i]
        BY <1>1, <1>6, <3>2
      <4> DEFINE owed == (n - i + 1) * Cost
      <4>4. owed + Refilled(u, now) <= Full + (At(u, now) - a[i]) /\ owed \in Int
        BY <4>1, <4>2
      <4>5. ((n + 1) - i + 1) * Cost = owed + Cost
        BY <4>2
      <4> HIDE DEF n, a, owed
      <4> QED
        BY <1>11, <4>3, <4>4, <4>5
    <3> QED
      BY <1>1, <3>1, <3>2
  <2> QED
    BY <1>4, <1>6, <2>1 DEF Paid
<1>8. Kept(admitted'[u])
  <2>1. ASSUME NEW i \in 1 .. n + 1, NEW j \in 1 .. n + 1, i <= j
        PROVE  (j - i + 1) * Cost <= Full + (admitted'[u][j] - admitted'[u][i]) + Spread
    <3>1. CASE j \in 1 .. n
      <4>1. i \in 1 .. n
        BY <1>1, <2>1, <3>1
      <4>2. Kept(a)
        BY DEF RateInv, UserInv
      <4> QED
        BY <1>6, <2>1, <3>1, <4>1, <4>2 DEF Kept
    <3>2. CASE j = n + 1 /\ i \in 1 .. n
      <4>1. (n - i + 1) * Cost + Refilled(u, now) <= Full + (At(u, now) - a[i])
        BY <1>2, <3>2
      <4>2. (j - i + 1) * Cost = (n - i + 1) * Cost + Cost /\ (n - i + 1) * Cost \in Int
        <5>1. n \in Int /\ i \in Int /\ j = n + 1 /\ Cost \in Int
          BY <1>1, <3>2
        <5> HIDE DEF n
        <5>2. j - i + 1 = (n - i + 1) + 1 /\ n - i + 1 \in Int
          BY <5>1
        <5> QED
          BY <5>1, <5>2, Distributed
      <4>3. a[i] \in Int /\ admitted'[u][i] = a[i] /\ admitted'[u][j] = time
        BY <1>1, <1>6, <3>2
      <4> DEFINE owed == (n - i + 1) * Cost
      <4> DEFINE x == a[i]
      <4> DEFINE old == Refilled(u, now)
      <4> DEFINE at == At(u, now)
      <4>4. owed + old <= Full + (at - x) /\ Cost <= old + ((time + Spread) - at)
        <5>1. owed + old <= Full + (at - x)
          BY <4>1
        <5>2. Refilled(u, now) >= Cost /\ At(u, now) <= time + Spread
          BY <1>2, <1>3
        <5>3. Cost <= old + ((time + Spread) - at)
          <6> HIDE DEF old, at
          <6>1. old >= Cost /\ at <= time + Spread /\ old \in Int /\ at \in Int
            BY <1>11, <5>2 DEF old, at
          <6> QED
            BY <1>11, <6>1
        <5> QED
          BY <5>1, <5>3
      <4>5. /\ owed \in Int /\ x \in Int /\ old \in Int /\ at \in Int
            /\ Full \in Int /\ time + Spread \in Int /\ Cost \in Int
        BY <1>11, <4>2, <4>3
      <4> HIDE DEF owed, x, old, at
      <4>6. owed + Cost <= Full + ((time + Spread) - x)
        BY <4>4, <4>5, Carried
      <4>7. (j - i + 1) * Cost = owed + Cost
        BY <4>2 DEF owed
      <4>8. admitted'[u][i] = x /\ admitted'[u][j] = time /\ time \in Int /\ Spread \in Int
        BY <1>1, <4>3 DEF x
      <4> QED
        BY <4>5, <4>6, <4>7, <4>8
    <3>3. CASE j = n + 1 /\ i = n + 1
      <4>1. (j - i + 1) * Cost = Cost
        BY <1>1, <3>3
      <4> HIDE DEF n
      <4> QED
        BY <1>1, <1>6, <3>3, <4>1
    <3>4. (j \in 1 .. n \/ j = n + 1) /\ (i \in 1 .. n \/ i = n + 1)
      BY <1>1
    <3> QED
      BY <3>1, <3>2, <3>3, <3>4
  <2> QED
    BY <1>6, <2>1 DEF Kept
<1>9. UserInv(u)'
  BY <1>1, <1>2, <1>4, <1>7, <1>8 DEF UserInv
<1>10. ASSUME NEW v \in Users \ {u} PROVE UserInv(v)'
  BY <1>1, <1>4, <1>5 DEF RateInv, UserInv
<1> QED
  BY <1>1, <1>4, <1>5, <1>9, <1>10 DEF RateInv, RateTypes

LEMMA RefuseKeeps ==
  ASSUME RateInv, NEW u \in Users, NEW now \in Clocks, Refuse(u, now)
  PROVE  RateInv'
<1>1. /\ time \in Nat /\ time' = time /\ admitted' = admitted
      /\ admitted \in [Users -> Seq(Int)]
  BY DEF RateInv, RateTypes, Refuse
<1>2. /\ Refilled(u, now) \in 0 .. Full /\ At(u, now) <= time + Spread
      /\ \A i \in 1 .. Len(admitted[u]) :
           (Len(admitted[u]) - i + 1) * Cost + Refilled(u, now)
             <= Full + (At(u, now) - admitted[u][i])
  BY Found
<1>3. /\ bucket' \in [Users -> Bucket]
      /\ \A v \in Users \ {u} : bucket'[v] = bucket[v]
      /\ bucket'[u].tokens = Refilled(u, now) /\ bucket'[u].at = At(u, now)
      /\ Expires(bucket'[u])
  BY <1>2, Stored DEF Refuse
<1>4. UserInv(u)'
  BY <1>1, <1>2, <1>3 DEF RateInv, UserInv, Paid
<1>5. ASSUME NEW v \in Users \ {u} PROVE UserInv(v)'
  BY <1>1, <1>3 DEF RateInv, UserInv
<1> QED
  BY <1>1, <1>3, <1>4, <1>5 DEF RateInv, RateTypes

LEMMA TickKeeps ==
  ASSUME RateInv, LimiterTick
  PROVE  RateInv'
<1>1. time \in Nat /\ time' = time + 1 /\ bucket' = bucket /\ admitted' = admitted
  BY DEF RateInv, RateTypes, LimiterTick
<1>2. ASSUME NEW u \in Users PROVE UserInv(u)'
  <2>1. bucket[u].at \in Int /\ Spread \in Nat
    BY LimiterAssumption DEF RateLimitPolicyFromEnv, RateInv, RateTypes, Bucket
  <2> QED
    BY <1>1, <2>1 DEF RateInv, UserInv
<1> QED
  BY <1>1, <1>2 DEF RateInv, RateTypes

LEMMA RateStart == LimiterInit => RateInv
<1> SUFFICES ASSUME LimiterInit PROVE RateInv
  OBVIOUS
<1>1. RateTypes
  BY FullBucket DEF LimiterInit, RateTypes, Bucket
<1>2. ASSUME NEW u \in Users PROVE UserInv(u)
  BY FullBucket, LimiterAssumption DEF RateLimitPolicyFromEnv, LimiterInit, UserInv, Paid, Kept
<1> QED
  BY <1>1, <1>2 DEF RateInv

LEMMA RateInductive == LimiterSpec => []RateInv
<1>1. RateInv /\ [LimiterNext]_limiter => RateInv'
  <2> SUFFICES ASSUME RateInv, [LimiterNext]_limiter PROVE RateInv'
    OBVIOUS
  <2>1. ASSUME NEW u \in Users, NEW now \in Clocks, Admit(u, now) \/ Refuse(u, now)
        PROVE  RateInv'
    BY <2>1, AdmitKeeps, RefuseKeeps
  <2>2. CASE LimiterTick
    BY <2>2, TickKeeps
  <2>3. CASE UNCHANGED limiter
    BY <2>3 DEF limiter, RateInv, RateTypes, UserInv
  <2> QED
    BY <2>1, <2>2, <2>3 DEF LimiterNext
<1> QED
  BY <1>1, RateStart, PTL DEF LimiterSpec

\* The sliding window of tokenBucketScript: in any time a user gets a full bucket
\* and what refills meanwhile, and never more than the clocks differ on top.
THEOREM RateTheorem == LimiterSpec => []RateIsKept
<1>1. RateInv => RateIsKept
  <2> SUFFICES ASSUME RateInv, NEW u \in Users,
                      NEW i \in DOMAIN admitted[u], NEW j \in DOMAIN admitted[u], i <= j
               PROVE  (j - i + 1) * Cost <= Full + (admitted[u][j] - admitted[u][i]) + Spread
    BY DEF RateIsKept
  <2>1. i \in 1 .. Len(admitted[u]) /\ j \in 1 .. Len(admitted[u])
    BY DEF RateInv, RateTypes
  <2>2. Kept(admitted[u])
    BY DEF RateInv, UserInv
  <2> QED
    BY <2>1, <2>2 DEF Kept
<1> QED
  BY <1>1, RateInductive, PTL

-----------------------------------------------------------------------------
(* The handlers *)

\* A call by what it has to do next; what is written back is an outcome.
CallsOf(n) ==
  {Idle}
  \cup [step : {"create"}, user : Users, shop : Users \cup {None}]
  \cup [step : {"ask"}, task : 1 .. n]
  \cup [step : {"write"}, task : 1 .. n, status : {"completed", "failed"}]

TaskRow == [user : Users, shop : Users \cup {None}, status : {"pending", "completed", "failed"}]

\* A shop goes by its owner's name.
Owned(r) == r.shop \in Shops(r.user)

TaskInv ==
  /\ tasks \in Seq(TaskRow)
  /\ call \in [Callers -> CallsOf(Len(tasks))]
  /\ \A t \in 1 .. Len(tasks) : Owned(tasks[t])
  /\ \A p \in Callers : Doing(p, "create") => Owned(call[p])
  /\ TaskIsSettled

\* By the time a user was told, the bucket will hold a token.
Promised(u) ==
  hint[u] >= 0 => bucket[u].tokens + (hint[u] - bucket[u].at) >= Cost

WaitInv ==
  /\ hint \in [Users -> Int]
  /\ \A u \in Users : Promised(u)
  /\ vain = {}

\* A step of Copilot is a step of the limiter, or leaves it alone.
LEMMA LimiterStep == Next => [LimiterNext]_limiter
<1> SUFFICES ASSUME Next PROVE [LimiterNext]_limiter
  OBVIOUS
<1>1. ASSUME NEW p \in Callers, NEW u \in Users, NEW shop \in Shops(u),
             LetThrough(p, u, shop) \/ OpenGate(p, u, shop)
      PROVE  [LimiterNext]_limiter
  BY <1>1 DEF LetThrough, OpenGate, LimiterNext
<1>2. ASSUME NEW p \in Callers, NEW u \in Users, TurnAway(p, u) PROVE LimiterNext
  BY <1>2 DEF TurnAway, LimiterNext
<1>3. ASSUME NEW p \in Callers, CreateAITask(p) \/ AskProvider(p) \/ UpdateAITask(p) \/ Fail(p)
      PROVE  UNCHANGED limiter
  BY <1>3 DEF CreateAITask, AskProvider, UpdateAITask, Fail
<1>4. CASE Tick
  BY <1>4 DEF Tick, LimiterNext
<1> QED
  BY <1>1, <1>2, <1>3, <1>4 DEF Next

\* The requests of the merchants, seen from the bucket, are the requests of
\* LimiterSpec: the handlers behind it change nothing of the limiter.
THEOREM CopilotIsLimited == Spec => LimiterSpec
<1>1. Init => LimiterInit
  BY DEF Init
<1>2. [Next]_vars => [LimiterNext]_limiter
  BY LimiterStep DEF vars
<1> QED
  BY <1>1, <1>2, PTL DEF Spec, LimiterSpec

\* The rate is kept for the requests of the merchants, with failures of Redis,
\* of statements and of the process.
THEOREM CopilotRate == Spec => []RateIsKept
BY CopilotIsLimited, RateTheorem, PTL

-----------------------------------------------------------------------------
(* The wait *)

\* Whole seconds, rounded up.
LEMMA RoundedUp ==
  ASSUME NEW wait \in Nat
  PROVE  retryAfterSeconds(wait) \in Nat /\ wait <= retryAfterSeconds(wait)
<1>1. Second \in Nat /\ Second >= 1
  BY LimiterAssumption
<1>2. \A s, x \in Nat : s >= 1 => x \div s \in Nat /\ x < s * (x \div s) + s /\ s * (x \div s) \in Nat
  BY Z3
<1> DEFINE x == wait + Second - 1
<1>3. x \in Nat
  BY <1>1
<1>4. x \div Second \in Nat /\ x < Second * (x \div Second) + Second /\ Second * (x \div Second) \in Nat
  BY <1>1, <1>2, <1>3
<1> DEFINE y == Second * (x \div Second)
<1>5. y \in Nat /\ x < y + Second
  BY <1>4
<1>6. retryAfterSeconds(wait) = y
  BY DEF retryAfterSeconds
<1> HIDE DEF y
<1> QED
  BY <1>1, <1>5, <1>6

\* A refusal takes what it adds to the tokens from the time they are of.
LEMMA RefusalKeepsPromise ==
  ASSUME RateInv, NEW u \in Users, NEW now \in Clocks, Refuse(u, now), NEW h \in Int,
         bucket[u].tokens + (h - bucket[u].at) >= Cost
  PROVE  bucket'[u].tokens + (h - bucket'[u].at) >= Cost /\ time < h
<1>1. /\ time \in Int /\ now \in Int /\ time <= now /\ Refilled(u, now) \in Int /\ At(u, now) \in Int
      /\ Refilled(u, now) < Cost /\ Cost \in Nat /\ Cost <= Full /\ Full \in Nat
  BY Found, FullBucket, LimiterAssumption DEF RateLimitPolicyFromEnv, RateInv, RateTypes, Refuse
<1>2. /\ bucket[u].tokens \in Int /\ bucket[u].at \in Int
      /\ bucket'[u].tokens = Refilled(u, now) /\ bucket'[u].at = At(u, now)
  <2>1. Refilled(u, now) \in 0 .. Full
    BY Found
  <2> QED
    BY <2>1, Stored DEF Refuse, RateInv, RateTypes, Bucket
<1>3. Alive(u) /\ Refilled(u, now) = bucket[u].tokens + (At(u, now) - bucket[u].at)
  BY <1>1, <1>2 DEF Refilled
<1>4. now <= At(u, now)
  BY <1>1, <1>2 DEF At
<1> QED
  BY <1>1, <1>2, <1>3, <1>4

\* What the first refusal tells is a promise.
LEMMA PromiseMade ==
  ASSUME RateInv, NEW u \in Users, NEW now \in Clocks, Refuse(u, now), NEW h \in Int,
         h = time + retryAfterSeconds(RetryAfter(u, now)) + Spread
  PROVE  bucket'[u].tokens + (h - bucket'[u].at) >= Cost
<1>1. /\ time \in Int /\ Refilled(u, now) \in 0 .. Full /\ At(u, now) \in Int
      /\ At(u, now) <= time + Spread /\ Refilled(u, now) < Cost
      /\ Cost \in Nat /\ Full \in Nat /\ Spread \in Nat
  BY Found, FullBucket, LimiterAssumption DEF RateLimitPolicyFromEnv, RateInv, RateTypes, Refuse
<1>2. bucket'[u].tokens = Refilled(u, now) /\ bucket'[u].at = At(u, now)
  BY <1>1, Stored DEF Refuse
<1>3. RetryAfter(u, now) \in Nat /\ RetryAfter(u, now) = Cost - Refilled(u, now)
  BY <1>1 DEF RetryAfter
<1>4. retryAfterSeconds(RetryAfter(u, now)) \in Nat
      /\ RetryAfter(u, now) <= retryAfterSeconds(RetryAfter(u, now))
  BY <1>3, RoundedUp
<1> QED
  BY <1>1, <1>2, <1>3, <1>4

\* The buckets of the others stay as they are.
LEMMA OtherBuckets ==
  ASSUME RateInv, NEW u \in Users, NEW now \in Clocks, Admit(u, now) \/ Refuse(u, now),
         NEW v \in Users \ {u}
  PROVE  bucket'[v] = bucket[v]
BY DEF Admit, Refuse, Store, RateInv, RateTypes

LEMMA WaitStep ==
  ASSUME RateInv, WaitInv, Next
  PROVE  WaitInv'
<1>1. ASSUME NEW p \in Callers, NEW u \in Users, NEW shop \in Shops(u), LetThrough(p, u, shop)
      PROVE  WaitInv'
  <2>1. PICK now \in Clocks : Admit(u, now)
    BY <1>1 DEF LetThrough
  <2>2. hint' = [hint EXCEPT ![u] = -1] /\ vain' = vain
    BY <1>1 DEF LetThrough
  <2>3. hint' \in [Users -> Int] /\ hint'[u] = -1 /\ \A v \in Users \ {u} : hint'[v] = hint[v]
    BY <2>2 DEF WaitInv
  <2> QED
    BY <2>1, <2>2, <2>3, OtherBuckets DEF WaitInv, Promised
<1>2. ASSUME NEW p \in Callers, NEW u \in Users, TurnAway(p, u) PROVE WaitInv'
  <2>1. PICK now \in Clocks :
          /\ Refuse(u, now)
          /\ hint' = [hint EXCEPT ![u] =
                IF @ < 0 THEN time + retryAfterSeconds(RetryAfter(u, now)) + Spread ELSE @]
    BY <1>2 DEF TurnAway
  <2>2. \A v \in Users \ {u} : bucket'[v] = bucket[v] /\ hint'[v] = hint[v]
    BY <2>1, OtherBuckets DEF WaitInv
  <2>3. hint'[u] = IF hint[u] < 0 THEN time + retryAfterSeconds(RetryAfter(u, now)) + Spread
                                  ELSE hint[u]
    BY <2>1 DEF WaitInv
  <2>4. hint[u] \in Int /\ time \in Nat
    BY DEF WaitInv, RateInv, RateTypes
  <2>5. time + retryAfterSeconds(RetryAfter(u, now)) + Spread \in Int
    <3>1. Refilled(u, now) \in 0 .. Full /\ Refilled(u, now) < Cost /\ Cost \in Nat /\ Full \in Nat
      BY <2>1, Found, FullBucket, LimiterAssumption DEF RateLimitPolicyFromEnv, Refuse
    <3>2. RetryAfter(u, now) \in Nat
      BY <3>1 DEF RetryAfter
    <3> QED
      BY <2>4, <3>2, RoundedUp, LimiterAssumption
  <2>6. hint' \in [Users -> Int]
    BY <2>1, <2>5 DEF WaitInv
  <2>7. CASE hint[u] < 0
    <3>1. bucket'[u].tokens + (hint'[u] - bucket'[u].at) >= Cost
      BY <2>1, <2>3, <2>5, <2>7, PromiseMade
    <3>2. vain' = vain
      BY <1>2, <2>4, <2>7 DEF TurnAway
    <3> QED
      BY <2>2, <2>6, <3>1, <3>2 DEF WaitInv, Promised
  <2>8. CASE hint[u] >= 0
    <3>1. bucket[u].tokens + (hint[u] - bucket[u].at) >= Cost
      BY <2>8 DEF WaitInv, Promised
    <3>2. bucket'[u].tokens + (hint[u] - bucket'[u].at) >= Cost /\ time < hint[u]
      BY <2>1, <2>4, <3>1, RefusalKeepsPromise
    <3>3. hint'[u] = hint[u]
      BY <2>3, <2>4, <2>8
    <3>4. vain' = vain
      BY <1>2, <2>4, <3>2 DEF TurnAway
    <3> QED
      BY <2>2, <2>6, <3>2, <3>3, <3>4 DEF WaitInv, Promised
  <2> QED
    BY <2>4, <2>7, <2>8
<1>3. ASSUME NEW p \in Callers, NEW u \in Users, NEW shop \in Shops(u), OpenGate(p, u, shop)
      PROVE  WaitInv'
  <2>1. vain' = vain
    BY <1>3 DEF OpenGate
  <2>2. CASE UNCHANGED <<limiter, hint>>
    BY <2>1, <2>2 DEF WaitInv, Promised, limiter
  <2>3. ASSUME NEW now \in Clocks, Refuse(u, now), hint' = hint PROVE WaitInv'
    <3>1. \A v \in Users \ {u} : bucket'[v] = bucket[v]
      BY <2>3, OtherBuckets
    <3>2. hint[u] \in Int
      BY DEF WaitInv
    <3>3. Promised(u) => Promised(u)'
      BY <2>3, <3>2, RefusalKeepsPromise DEF Promised
    <3> QED
      BY <2>1, <2>3, <3>1, <3>3 DEF WaitInv, Promised
  <2>4. ASSUME NEW now \in Clocks, Admit(u, now), hint' = [hint EXCEPT ![u] = -1] PROVE WaitInv'
    <3>1. hint' \in [Users -> Int] /\ hint'[u] = -1 /\ \A v \in Users \ {u} : hint'[v] = hint[v]
      BY <2>4 DEF WaitInv
    <3> QED
      BY <2>1, <2>4, <3>1, OtherBuckets DEF WaitInv, Promised
  <2> QED
    BY <1>3, <2>2, <2>3, <2>4 DEF OpenGate
<1>4. ASSUME NEW p \in Callers, CreateAITask(p) \/ AskProvider(p) \/ UpdateAITask(p) \/ Fail(p)
      PROVE  WaitInv'
  BY <1>4 DEF CreateAITask, AskProvider, UpdateAITask, Fail, limiter, history, WaitInv, Promised
<1>5. CASE Tick
  BY <1>5 DEF Tick, LimiterTick, history, WaitInv, Promised
<1> QED
  BY <1>1, <1>2, <1>3, <1>4, <1>5 DEF Next

\* Whoever waits as long as the first refusal said, and what clocks differ, is
\* let through, however often it was refused before.
THEOREM WaitTheorem == Spec => []WaitIsEnough
<1>1. Init => WaitInv
  BY DEF Init, WaitInv, Promised
<1>2. RateInv /\ WaitInv /\ [Next]_vars => WaitInv'
  <2>1. RateInv /\ WaitInv /\ UNCHANGED vars => WaitInv'
    BY DEF vars, limiter, history, WaitInv, Promised
  <2> QED
    BY <2>1, WaitStep
<1>3. WaitInv => WaitIsEnough
  BY DEF WaitInv, WaitIsEnough
<1>4. Spec => []RateInv
  BY CopilotIsLimited, RateInductive, PTL
<1> QED
  BY <1>1, <1>2, <1>3, <1>4, PTL DEF Spec

-----------------------------------------------------------------------------
(* The tasks *)

LEMMA TaskFacts ==
  ASSUME TaskInv
  PROVE  /\ tasks \in Seq(TaskRow) /\ Len(tasks) \in Nat /\ DOMAIN tasks = 1 .. Len(tasks)
         /\ \A p \in Callers : call[p] \in CallsOf(Len(tasks))
BY DEF TaskInv

\* What a call has to do next says what its record is.
LEMMA CallShape ==
  ASSUME TaskInv, NEW p \in Callers
  PROVE  /\ Doing(p, "create") => call[p] \in [step : {"create"}, user : Users, shop : Users \cup {None}]
         /\ Doing(p, "ask") => call[p].task \in 1 .. Len(tasks)
         /\ Doing(p, "write") => /\ call[p].task \in 1 .. Len(tasks)
                                 /\ call[p].status \in {"completed", "failed"}
         /\ Doing(p, "none") \/ Doing(p, "create") \/ Doing(p, "ask") \/ Doing(p, "write")
BY TaskFacts DEF Doing, CallsOf, Idle

\* A new request is idle again, or makes a task of its own.
LEMMA BeginStep ==
  ASSUME TaskInv, NEW p \in Callers, NEW u \in Users, NEW shop \in Shops(u),
         NEW first \in First(u, shop) \cup {Idle}, Begin(p, first)
  PROVE  TaskInv'
<1>1. call' = [call EXCEPT ![p] = first] /\ tasks' = tasks /\ lost' = lost /\ Doing(p, "none")
  BY DEF Begin
<1>2. first = Idle \/ first = [step |-> "create", user |-> u, shop |-> shop]
  BY DEF First, Generate, Surface
<1>3. shop \in Users \cup {None}
  BY DEF Shops
<1>4. first \in CallsOf(Len(tasks))
  BY <1>2, <1>3 DEF CallsOf
<1>5. call' \in [Callers -> CallsOf(Len(tasks'))]
  BY <1>1, <1>4 DEF TaskInv
<1>6. call'[p] = first /\ \A q \in Callers \ {p} : call'[q] = call[q]
  BY <1>1 DEF TaskInv
<1>7. ASSUME NEW q \in Callers, Doing(q, "create")' PROVE Owned(call[q])'
  BY <1>2, <1>6, <1>7 DEF TaskInv, Doing, Owned, Idle
<1>8. TaskIsSettled'
  <2> SUFFICES ASSUME NEW t \in DOMAIN tasks, tasks[t].status = "pending", t \notin lost
               PROVE  \E q \in Callers : (Doing(q, "ask")' \/ Doing(q, "write")') /\ call'[q].task = t
    BY <1>1 DEF TaskIsSettled
  <2>1. PICK q \in Callers : (Doing(q, "ask") \/ Doing(q, "write")) /\ call[q].task = t
    BY DEF TaskInv, TaskIsSettled
  <2>2. q # p
    BY <1>1, <2>1 DEF Doing
  <2> QED
    BY <1>6, <2>1, <2>2 DEF Doing
<1> QED
  BY <1>1, <1>5, <1>7, <1>8 DEF TaskInv, Owned

LEMMA CreateStep ==
  ASSUME TaskInv, NEW p \in Callers, CreateAITask(p)
  PROVE  TaskInv'
<1> DEFINE n == Len(tasks)
<1>1. /\ Doing(p, "create") /\ tasks' = Append(tasks, Task(call[p])) /\ lost' = lost
      /\ call' = [call EXCEPT ![p] = [step |-> "ask", task |-> Len(tasks')]]
  BY DEF CreateAITask, Continue
<1>2. /\ call[p] \in [step : {"create"}, user : Users, shop : Users \cup {None}]
      /\ Owned(call[p])
  BY <1>1, CallShape DEF TaskInv
<1>3. Task(call[p]) \in TaskRow /\ Owned(Task(call[p]))
  BY <1>2 DEF Task, TaskRow, Owned
<1>4. /\ n \in Nat /\ tasks' \in Seq(TaskRow) /\ Len(tasks') = n + 1
      /\ tasks'[n + 1] = Task(call[p]) /\ \A t \in 1 .. n : tasks'[t] = tasks[t]
  BY <1>1, <1>3, TaskFacts
<1>5. call'[p] = [step |-> "ask", task |-> n + 1] /\ \A q \in Callers \ {p} : call'[q] = call[q]
  BY <1>1, <1>4 DEF TaskInv
<1>6. call' \in [Callers -> CallsOf(n + 1)]
  <2>1. 1 .. n \subseteq 1 .. n + 1 /\ n + 1 \in 1 .. n + 1
    BY <1>4
  <2>2. CallsOf(n) \subseteq CallsOf(n + 1)
    BY <2>1 DEF CallsOf
  <2>3. [step |-> "ask", task |-> n + 1] \in CallsOf(n + 1)
    BY <2>1 DEF CallsOf
  <2>4. call \in [Callers -> CallsOf(n)]
    BY DEF TaskInv
  <2>5. call \in [Callers -> CallsOf(n + 1)]
    BY <2>2, <2>4
  <2>6. Len(tasks') = n + 1
    BY <1>4
  <2> HIDE DEF n
  <2> QED
    BY <1>1, <2>3, <2>5, <2>6
<1>7. ASSUME NEW t \in 1 .. n + 1 PROVE Owned(tasks'[t])
  <2>1. t = n + 1 \/ t \in 1 .. n
    BY <1>4
  <2> QED
    BY <1>3, <1>4, <2>1 DEF TaskInv
<1>8. ASSUME NEW q \in Callers, Doing(q, "create")' PROVE Owned(call'[q])
  BY <1>5, <1>8 DEF TaskInv, Doing
<1>9. TaskIsSettled'
  <2> SUFFICES ASSUME NEW t \in 1 .. n + 1, tasks'[t].status = "pending", t \notin lost
               PROVE  \E q \in Callers : (Doing(q, "ask")' \/ Doing(q, "write")') /\ call'[q].task = t
    BY <1>1, <1>4 DEF TaskIsSettled
  <2>1. CASE t = n + 1
    BY <1>5, <2>1 DEF Doing
  <2>2. CASE t \in 1 .. n
    <3>1. PICK q \in Callers : (Doing(q, "ask") \/ Doing(q, "write")) /\ call[q].task = t
      BY <1>4, <2>2, TaskFacts DEF TaskInv, TaskIsSettled
    <3>2. q # p
      BY <1>1, <3>1 DEF Doing
    <3> QED
      BY <1>5, <3>1, <3>2 DEF Doing
  <2> QED
    BY <1>4, <2>1, <2>2
<1> QED
  BY <1>4, <1>6, <1>7, <1>8, <1>9 DEF TaskInv, Owned

\* A call that goes on with its task, or is over; the task may have its outcome.
LEMMA TaskStep ==
  ASSUME TaskInv, NEW p \in Callers, AskProvider(p) \/ UpdateAITask(p) \/ Fail(p)
  PROVE  TaskInv'
<1> DEFINE t0 == call[p].task
<1>1. PICK next \in CallsOf(Len(tasks)) : call' = [call EXCEPT ![p] = next] /\ next.step # "create"
  <2>1. CASE AskProvider(p)
    <3>1. PICK outcome \in {"completed", "failed"} :
            call' = [call EXCEPT ![p] = [step |-> "write", task |-> t0, status |-> outcome]]
      BY <2>1 DEF AskProvider, Continue
    <3>2. [step |-> "write", task |-> t0, status |-> outcome] \in CallsOf(Len(tasks))
      BY <2>1, CallShape DEF AskProvider, CallsOf
    <3> QED
      BY <3>1, <3>2
  <2>2. CASE UpdateAITask(p) \/ Fail(p)
    <3>1. call' = [call EXCEPT ![p] = Idle]
      BY <2>2 DEF UpdateAITask, Fail, Continue
    <3>2. Idle \in CallsOf(Len(tasks)) /\ Idle.step # "create"
      BY DEF CallsOf, Idle
    <3> QED
      BY <3>1, <3>2
  <2> QED
    BY <2>1, <2>2
<1>2. call'[p] = next /\ \A q \in Callers \ {p} : call'[q] = call[q]
  BY <1>1 DEF TaskInv
<1>3. /\ tasks' \in Seq(TaskRow) /\ Len(tasks') = Len(tasks)
      /\ \A t \in 1 .. Len(tasks) :
           /\ tasks'[t].user = tasks[t].user /\ tasks'[t].shop = tasks[t].shop
           /\ tasks'[t] = tasks[t] \/ tasks'[t].status # "pending"
  <2>1. CASE UpdateAITask(p)
    <3>1. /\ t0 \in 1 .. Len(tasks) /\ call[p].status \in {"completed", "failed"}
          /\ tasks' = [tasks EXCEPT ![t0].status = call[p].status]
      BY <2>1, CallShape DEF UpdateAITask
    <3>2. tasks[t0] \in TaskRow
      BY <3>1, TaskFacts
    <3>3. [tasks[t0] EXCEPT !.status = call[p].status] \in TaskRow
      BY <3>1, <3>2 DEF TaskRow
    <3> QED
      BY <3>1, <3>2, <3>3, TaskFacts DEF TaskRow
  <2>2. CASE AskProvider(p) \/ Fail(p)
    BY <2>2, TaskFacts DEF AskProvider, Fail
  <2> QED
    BY <2>1, <2>2
<1>4. call' \in [Callers -> CallsOf(Len(tasks'))]
  BY <1>1, <1>3 DEF TaskInv
<1>5. ASSUME NEW q \in Callers, Doing(q, "create")' PROVE Owned(call'[q])
  BY <1>1, <1>2, <1>5 DEF TaskInv, Doing
<1>6. TaskIsSettled'
  <2> SUFFICES ASSUME NEW t \in 1 .. Len(tasks), tasks'[t].status = "pending", t \notin lost'
               PROVE  \E q \in Callers : (Doing(q, "ask")' \/ Doing(q, "write")') /\ call'[q].task = t
    BY <1>3, TaskFacts DEF TaskIsSettled
  <2>1. tasks[t].status = "pending" /\ t \notin lost
    BY <1>3 DEF AskProvider, UpdateAITask, Fail, history
  <2>2. PICK q \in Callers : (Doing(q, "ask") \/ Doing(q, "write")) /\ call[q].task = t
    BY <2>1, TaskFacts DEF TaskInv, TaskIsSettled
  <2>3. CASE q # p
    BY <1>2, <2>2, <2>3 DEF Doing
  <2>4. CASE q = p
    <3>1. ~UpdateAITask(p)
      <4> SUFFICES ASSUME UpdateAITask(p) PROVE FALSE
        OBVIOUS
      <4>1. tasks' = [tasks EXCEPT ![t].status = call[p].status] /\ call[p].status \in {"completed", "failed"}
        BY <2>2, <2>4, CallShape DEF UpdateAITask
      <4>2. tasks[t] \in TaskRow
        BY TaskFacts
      <4> QED
        BY <4>1, <4>2, TaskFacts DEF TaskRow
    <3>2. ~Fail(p)
      BY <2>1, <2>2, <2>4 DEF Fail, Doing
    <3>3. AskProvider(p)
      BY <3>1, <3>2
    <3> QED
      BY <1>2, <2>2, <2>4, <3>3 DEF AskProvider, Continue, Doing, TaskInv
  <2> QED
    BY <2>3, <2>4
<1>7. ASSUME NEW t \in 1 .. Len(tasks') PROVE Owned(tasks'[t])
  BY <1>3 DEF TaskInv, Owned
<1> QED
  BY <1>3, <1>4, <1>5, <1>6, <1>7 DEF TaskInv, Owned

LEMMA TaskInvariance == Spec => []TaskInv
<1>1. Init => TaskInv
  BY DEF Init, TaskInv, CallsOf, TaskIsSettled, Doing, Idle
<1>2. TaskInv /\ [Next]_vars => TaskInv'
  <2> SUFFICES ASSUME TaskInv, [Next]_vars PROVE TaskInv'
    OBVIOUS
  <2>1. ASSUME NEW p \in Callers, NEW u \in Users, NEW shop \in Shops(u),
               LetThrough(p, u, shop) \/ OpenGate(p, u, shop) PROVE TaskInv'
    BY <2>1, BeginStep DEF LetThrough, OpenGate
  <2>2. ASSUME NEW p \in Callers, NEW u \in Users, TurnAway(p, u) PROVE TaskInv'
    <3>1. None \in Shops(u) /\ Begin(p, Idle)
      BY <2>2 DEF TurnAway, Shops
    <3> QED
      BY <3>1, BeginStep
  <2>3. ASSUME NEW p \in Callers, CreateAITask(p) \/ AskProvider(p) \/ UpdateAITask(p) \/ Fail(p)
        PROVE  TaskInv'
    BY <2>3, CreateStep, TaskStep
  <2>4. CASE Tick \/ UNCHANGED vars
    <3>1. UNCHANGED <<tasks, call, lost>>
      BY <2>4 DEF Tick, vars, requests, history
    <3> QED
      BY <3>1 DEF TaskInv, TaskIsSettled, Doing, Owned
  <2> QED
    BY <2>1, <2>2, <2>3, <2>4 DEF Next
<1> QED
  BY <1>1, <1>2, PTL DEF Spec

\* A task is never left pending but by a failure that kept its outcome from the
\* table, whatever the provider answers and however requests overlap.
THEOREM TaskTheorem == Spec => []TaskIsSettled
<1>1. TaskInv => TaskIsSettled
  BY DEF TaskInv
<1> QED
  BY <1>1, TaskInvariance, PTL

\* No merchant reads a task of another: a task without a shop is nobody's, and
\* one with a shop was made by its owner.
THEOREM PrivacyTheorem == Spec => []TasksArePrivate
<1>1. TaskInv => TasksArePrivate
  <2> SUFFICES ASSUME TaskInv, NEW u \in Users \cup Others, NEW t \in 1 .. Len(tasks),
                      NEW shop \in Shops(u), CanReadAITask(shop, t)
               PROVE  tasks[t].user = u
    BY TaskFacts DEF TasksArePrivate
  <2>1. tasks[t].shop = u /\ u # None
    BY CopilotAssumption DEF CanReadAITask, Shops
  <2>2. tasks[t].shop \in {tasks[t].user, None}
    BY DEF TaskInv, Owned, Shops
  <2> QED
    BY <2>1, <2>2
<1> QED
  BY <1>1, TaskInvariance, PTL

=============================================================================
