--------------------------- MODULE MCRateLimiter ---------------------------
(* RateLimiter with bounds on the clock and on the admitted requests.      *)
EXTENDS RateLimiter

CONSTANTS MaxTime, MaxAdmitted

MCTick == now < MaxTime /\ Tick

MCRequest == \E c \in Clients :
    Len(admitted[c]) < MaxAdmitted /\ allowed_by_rate_limit(c)

MCSpec == LimiterInit /\ [][MCTick \/ MCRequest]_limiterVars
=============================================================================
