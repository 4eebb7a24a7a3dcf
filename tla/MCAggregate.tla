----------------------------- MODULE MCAggregate -----------------------------
EXTENDS Aggregate, TLC

CONSTANTS api, api2, scraper, keyless, k1, k2, k3, k4

offer(k, p, s) == [key |-> k, price |-> p, source |-> s]

\* Two APIs in tier 1 that both sell k1, a scraper in tier 2, a keyless fallback.
MCOrder == <<api, api2, scraper, keyless>>
MCTier == api :> 1 @@ api2 :> 1 @@ scraper :> 2 @@ keyless :> 5
MCStock == api :> {offer(k1, 3, api), offer(k2, 2, api)}
        @@ api2 :> {offer(k1, 1, api2), offer(k4, 5, api2)}
        @@ scraper :> {offer(k3, 1, scraper)}
        @@ keyless :> {offer(k2, 9, keyless)}
\* k2 and k3 are two titles of one product.
MCGroup == k1 :> 1 @@ k2 :> 2 @@ k3 :> 2 @@ k4 :> 3

\* Two sources, one per tier, for the runs with two searches at once.
TwoOrder == <<api, scraper>>
TwoTier == api :> 1 @@ scraper :> 2

=============================================================================
