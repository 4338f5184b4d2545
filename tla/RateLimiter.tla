---------------------------- MODULE RateLimiter ----------------------------
(***************************************************************************)
(* The rate limit of the gateway (class TokenBucket of src/gateway.cpp and *)
(* Gateway::allowed_by_rate_limit): one token bucket per client, refilled  *)
(* by the time that has passed whenever it is asked for a token.           *)
(*                                                                         *)
(* Tokens are fractional in the code.  Here they are counted in units, and *)
(* a request costs Token of them, so that a tick of the clock may refill a *)
(* fraction of a request.  The rounding of the doubles is left out.  The   *)
(* clock is the steady clock, which never goes back; it is read under the  *)
(* mutex of the limiter, so a decision is one step.                        *)
(***************************************************************************)
EXTENDS Integers, Sequences, FiniteSetsExt

CONSTANTS Clients,  \* the client ids: X-Client-Id or the remote address
          Rate,     \* refill_per_second_: units per tick
          Burst,    \* capacity_: units a bucket holds
          Token     \* the units a request costs

ASSUME RateAssumption == Rate \in Nat /\ Burst \in Nat /\ Token \in Nat \ {0}

VARIABLES now,       \* the steady clock
          buckets,   \* buckets_: a function on the clients seen so far
          admitted   \* history: when each client's admitted requests came

limiterVars == <<now, buckets, admitted>>

\* TokenBucket::TokenBucket: a new client starts with a full bucket.
FreshBucket(t) == [tokens |-> Burst, lastRefill |-> t]

\* Mutant: the capacity does not limit the refill.
Refilled_NoCap(bucket, t) == bucket.tokens + (t - bucket.lastRefill) * Rate

\* What the bucket holds at time t.
Refilled(bucket, t) ==
    LET full == bucket.tokens + (t - bucket.lastRefill) * Rate
    IN  IF full < Burst THEN full ELSE Burst

\* The result of consume, and the bucket it leaves: refilled in any case.
Consumes(bucket, t) == Refilled(bucket, t) >= Token

\* Mutant: a refused request costs its client what is left in the bucket.
consume_EmptiesOnRefusal(bucket, t) ==
    [tokens |-> IF Consumes(bucket, t) THEN Refilled(bucket, t) - Token ELSE 0,
     lastRefill |-> t]

consume(bucket, t) ==
    [tokens |-> Refilled(bucket, t) - (IF Consumes(bucket, t) THEN Token ELSE 0),
     lastRefill |-> t]

\* The bucket try_emplace finds or makes.
BucketOf(c) == IF c \in DOMAIN buckets THEN buckets[c] ELSE FreshBucket(now)

allowed_by_rate_limit(c) ==
    LET bucket == BucketOf(c)
        allowed == Consumes(bucket, now)
    IN  /\ buckets' = [d \in DOMAIN buckets \cup {c} |->
                          IF d = c THEN consume(bucket, now) ELSE buckets[d]]
        /\ admitted' = IF allowed THEN [admitted EXCEPT ![c] = Append(@, now)]
                       ELSE admitted
        /\ UNCHANGED now

Tick == now' = now + 1 /\ UNCHANGED <<buckets, admitted>>

LimiterInit == /\ now = 0
               /\ buckets = [c \in {} |-> FreshBucket(0)]
               /\ admitted = [c \in Clients |-> <<>>]

LimiterNext == Tick \/ \E c \in Clients : allowed_by_rate_limit(c)

LimiterSpec == LimiterInit /\ [][LimiterNext]_limiterVars
-----------------------------------------------------------------------------
\* What the i-th and the later admitted requests of c leave of the limit of
\* the window that begins with the i-th: Burst, and Rate for every tick.
Slack(c, i) == Burst + Rate * (now - admitted[c][i])
                     - Token * (Len(admitted[c]) - i + 1)

\* The limit, without buckets: in every window of time the admitted requests
\* of a client cost no more than Burst plus Rate for every tick of it
\* (TokenBucket::consume refills before it takes and never beyond capacity_).
RateBound == \A c \in Clients : \A i, j \in DOMAIN admitted[c] :
    i <= j => Token * (j - i + 1)
                 <= Burst + Rate * (admitted[c][j] - admitted[c][i])

\* The limiter is exact: what a bucket would hold now is what the tightest
\* window leaves, so that a request is refused only when admitting it would
\* exceed the limit of some window, however often the client was refused
\* before (a refusal refills the bucket and takes nothing) and whatever the
\* other clients do.
BucketIsTightest == \A c \in Clients :
    Refilled(BucketOf(c), now)
       = Min({Burst} \cup {Slack(c, i) : i \in DOMAIN admitted[c]})
=============================================================================
