-------------------------- MODULE RateLimitHistory --------------------------
(***************************************************************************)
(* RateLimit with history variables: what every client really got, beside   *)
(* what the limiter still remembers.  The limiter forgets open clients when *)
(* it cleans up, so the two differ, and the properties here are about the   *)
(* difference.                                                              *)
(***************************************************************************)
EXTENDS RateLimit

VARIABLES
    hist,     \* hist[p][v]: the times of the requests of v on p that passed; the old
              \* ones that no window holds any more are dropped
    promise,  \* promise[p][v]: when the last refusal at the limit said v may come back
    visitor   \* who sent the last request

hvars == <<clock, table, reply, hist, promise, visitor>>

\* Who really sent a request: the Worker, which shows the secret, names the
\* visitor in the header; any other caller is its own socket.  One subscriber
\* network is one visitor.
Visitor(r) == Net[IF r.secret /\ r.header # NoHeader THEN r.header ELSE r.socket]

\* The requests of v on p that passed within the window.
Recent(p, v) == {i \in DOMAIN hist[p][v] : hist[p][v][i] > clock - Window[p]}

HInit ==
    /\ Init
    /\ hist = [p \in Paths |-> [k \in Keys |-> <<>>]]
    /\ promise = [p \in Paths |-> [k \in Keys |-> 0]]
    /\ visitor = NoHeader

HTick ==
    /\ Tick
    /\ hist' = [p \in Paths |-> [k \in Keys |-> DropStale(hist[p][k], clock' - Window[p])]]
    /\ visitor' = NoHeader
    /\ UNCHANGED promise

HRequest(r) ==
    /\ Request(r)
    /\ visitor' = Visitor(r)
    /\ IF reply'.status = "pass"
       THEN hist' = [hist EXCEPT ![reply'.path][visitor'] = Append(@, clock)]
       ELSE UNCHANGED hist
    /\ IF reply'.status = "limited"
       THEN promise' = [promise EXCEPT ![reply'.path][visitor'] = clock + reply'.wait]
       ELSE UNCHANGED promise

HNext == HTick \/ \E r \in Requests : HRequest(r)

HSpec == HInit /\ [][HNext]_hvars

-----------------------------------------------------------------------------
\* A refusal is justified and kept.  A client told "slow down" for its own count
\* really had Limit requests pass within the window, and no flood of other clients
\* and no cleanup lets it pass before the time its Retry-After named.
RefusalIsKept ==
    /\ reply.status = "limited" => Cardinality(Recent(reply.path, visitor)) >= Limit[reply.path]
    /\ reply.status = "pass" => clock >= promise[reply.path][visitor]

\* What a flood of new clients can buy a client that stays below its limit.
\* Each cleanup may forget an open client, with at most Limit - 1 counted
\* requests, and cleanups of a path are ShrinkEvery apart; so a client passes at
\* most Limit times, plus Limit - 1 for each cleanup that fits in a window.
Cleanups(p) == (Window[p] + ShrinkEvery - 1) \div ShrinkEvery
FloodBound ==
    \A p \in Paths, k \in Keys :
        Cardinality(Recent(p, k)) <= Limit[p] + (Limit[p] - 1) * Cleanups(p)

\* ratelimit.py, module comment: "Cloud Run caps the service at 2 instances, so a
\* client gets at most twice the limit".  Stated of one instance, which alone may
\* not exceed the limit of both.
AtMostTwiceTheLimit ==
    \A p \in Paths, k \in Keys : Cardinality(Recent(p, k)) <= 2 * Limit[p]

=============================================================================
