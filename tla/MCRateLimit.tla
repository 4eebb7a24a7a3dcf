---------------------------- MODULE MCRateLimit ----------------------------
EXTENDS RateLimitHistory, TLC

CONSTANTS ask, watchlist, readyz, v6a, v6b, v4, w4, subnet, host, other

MCNet == v6a :> subnet @@ v6b :> subnet @@ v4 :> host @@ w4 :> other
MCLimit2 == ask :> 2
MCWindow2 == ask :> 2
MCWindow3 == ask :> 3

=============================================================================
