-------------------------------- MODULE Shop --------------------------------
(***************************************************************************)
(* A search from the Worker to the eBay box and back: the edge cache of     *)
(* edge/src/index.ts, GET /search of serve.py, and shop_search with the     *)
(* box's own cache.  Two caches hold eBay's listings one after the other,   *)
(* and the call to eBay may outlive the search that made it.                *)
(*                                                                         *)
(* Of an answer only the box is followed: its kind, and how old its content *)
(* is.  Module Aggregate models the live half of the search; here it is its *)
(* outcome and the time it takes.  Module Rating models what the rows say.  *)
(***************************************************************************)
EXTENDS Integers

CONSTANTS
    Visits,     \* concurrent requests, each with the thread of its eBay box
    Queries,    \* normalised queries: the Worker's key and the box's key agree
    EbayTTL,    \* EBAY_CACHE_TTL_S, in ticks
    FailTTL,    \* EBAY_FAILURE_TTL_S
    EdgeTTL,    \* SEARCH_TTL_S
    Deadline,   \* SOURCE_TIMEOUT_S
    Latency     \* the longest a search runs: the tiers of aggregate, and the put

ASSUME ShopAssumption ==
    /\ FailTTL \in Nat \ {0} /\ EbayTTL \in Nat /\ FailTTL < EbayTTL
    /\ EdgeTTL \in Nat \ {0}
    /\ Deadline \in Nat \ {0} /\ Latency \in Nat /\ Deadline <= Latency
    /\ Queries # {}

VARIABLES
    enabled,    \* _ebay_enabled()
    cache,      \* _ebay_cache: query -> [at: age of `now', ttl, box]
    edge,       \* caches.default: query -> [at, box]
    visit       \* per visit: its request and the thread of its box, see Idle

vars == <<enabled, cache, edge, visit>>

OldestRows == EbayTTL + Latency + EdgeTTL
OldestBlank == FailTTL + Latency + EdgeTTL
TooOld == OldestRows + 1

Older(age, top) == IF age < top THEN age + 1 ELSE top

\* What a box shows: eBay's rows (or that it has none), or nothing because the call
\* raised ("failed"), because eBay answered with an error status ("refused"), because it
\* missed the deadline ("late"), or because the box is "off".
Blank(kind) == [kind |-> kind, age |-> 0]

\* A visit: where it is (idle, live, put), its query and whether it has an
\* Authorization header, the ticks since it reached the service; the box thread: where
\* it is (done, lookup, call), the age of the `now' it has read, and what it returned.
\* The box that goes into the response is `reply'.
Idle == [pc |-> "idle", q |-> CHOOSE k \in Queries : TRUE, auth |-> FALSE, clock |-> 0,
         task |-> "done", since |-> 0, box |-> Blank("off"), reply |-> Blank("off")]

\* Of a request that has ended only its box thread remains, until that has ended.
Rest(r) == IF r.pc # "idle" THEN r
           ELSE IF r.task = "done" THEN Idle
           ELSE [Idle EXCEPT !.q = r.q, !.task = r.task, !.since = r.since]
Becomes(v, r) == visit' = [visit EXCEPT ![v] = Rest(r)]

Held(c, key) == key \in DOMAIN c
Without(c, key) == [k \in DOMAIN c \ {key} |-> c[k]]
With(c, key, e) == [k \in DOMAIN c \cup {key} |-> IF k = key THEN e ELSE c[k]]

-----------------------------------------------------------------------------
Init ==
    /\ enabled \in BOOLEAN
    /\ cache = << >> /\ edge = << >>
    /\ visit = [v \in Visits |-> Idle]

\* api: only an anonymous search is matched against, or put into, the edge cache.
UsesEdge(signedIn) == ~signedIn

\* cache.match misses (a hit would be the whole answer, and change nothing), then
\* proxy and shop_search: the deadline is set and both tasks start.
Proxy(v, k, signedIn) ==
    /\ visit[v] = Idle
    /\ ~(UsesEdge(signedIn) /\ Held(edge, k))
    /\ Becomes(v, [Idle EXCEPT !.pc = "live", !.q = k, !.auth = signedIn, !.task = "lookup"])
    /\ UNCHANGED <<enabled, cache, edge>>

\* Mutant of Touch: a hit starts the entry's life again.
TouchRenews(k) == [cache EXCEPT ![k].at = 0]

\* What a hit does to the entry: nothing (it moves to the end of the LRU order).
Touch(k) == cache

\* ebay_box, up to the end of the first critical section.
LookUp(v) ==
    LET k == visit[v].q
        hit == Held(cache, k) /\ cache[k].at < cache[k].ttl
        done == [visit[v] EXCEPT !.task = "done"]
    IN
    /\ visit[v].task = "lookup"
    /\ \/ /\ ~enabled
          /\ Becomes(v, done)
          /\ UNCHANGED cache
       \/ /\ enabled /\ hit
          /\ cache' = Touch(k)
          /\ Becomes(v, [done EXCEPT !.box = cache[k].box])
       \/ /\ enabled /\ ~hit
          /\ Becomes(v, [visit[v] EXCEPT !.task = "call"])
          /\ UNCHANGED cache
    /\ UNCHANGED <<enabled, edge>>

TTLOf(kind) == IF kind = "failed" THEN FailTTL ELSE EbayTTL

\* EBAY.search answers or raises, before the deadline or after the search ended.  (An
\* error status is an answer: no listings, for as long as listings are kept.)  In the
\* second critical section the entry gets the time of the lookup.
CallEnds(v, kind) ==
    LET r == visit[v] IN
    /\ r.task = "call"
    /\ cache' = With(cache, r.q, [at |-> r.since, ttl |-> TTLOf(kind), box |-> Blank(kind)])
    /\ Becomes(v, [r EXCEPT !.task = "done", !.since = 0,
                            !.box = IF r.pc = "put" THEN @ ELSE Blank(kind)])
    /\ UNCHANGED <<enabled, edge>>

\* A box of another query was stored and the cache was full (_EBAY_CACHE_MAX): the
\* least recently used entry goes.  The other queries are not modelled, so it may
\* be this one at any time.
PushedOut(k) ==
    /\ Held(cache, k)
    /\ cache' = Without(cache, k)
    /\ UNCHANGED <<enabled, edge, visit>>

\* Mutant of PastDeadline: box.result() without a timeout.
PastDeadlineNever(v) == FALSE

\* box.result(timeout=max(0, deadline - now)) has given up
PastDeadline(v) == visit[v].clock >= Deadline

\* search's Cache-Control, read by shareable: signed-in is private, degraded is
\* no-store, anything else is public.
Shareable(signedIn, clean) == ~signedIn /\ clean

\* live.result(), complete ("clean") or degraded because a store timed out, throttled or
\* was benched; then box.result(); the response, and what the Worker does with it.
Collect(v) ==
    LET r == visit[v]
        b == IF r.task = "done" THEN r.box ELSE Blank("late")
    IN
    /\ r.pc = "live"
    /\ r.task = "done" \/ PastDeadline(v)
    /\ \E clean \in BOOLEAN :
        LET public == UsesEdge(r.auth) /\ Shareable(r.auth, clean) IN
        Becomes(v, [r EXCEPT !.pc = IF public THEN "put" ELSE "idle",
                             !.box = Blank("off"), !.reply = b])
    /\ UNCHANGED <<enabled, cache, edge>>

\* ctx.waitUntil(cache.put(key, stored)): after the response has been sent.
Put(v) ==
    /\ visit[v].pc = "put"
    /\ edge' = With(edge, visit[v].q, [at |-> 0, box |-> visit[v].reply])
    /\ Becomes(v, [visit[v] EXCEPT !.pc = "idle"])
    /\ UNCHANGED <<enabled, cache>>

\* The service fails or is unreachable (503), or refuses (403, 422, 429): the
\* Worker does not share it.
Refused(v) ==
    /\ visit[v].pc = "live"
    /\ Becomes(v, [visit[v] EXCEPT !.pc = "idle"])
    /\ UNCHANGED <<enabled, cache, edge>>

\* The edge may drop an entry whenever it likes.
Evict(k) ==
    /\ Held(edge, k)
    /\ edge' = Without(edge, k)
    /\ UNCHANGED <<enabled, cache, visit>>

Aged(b) == IF b.kind \in {"rows", "failed", "refused"} THEN [b EXCEPT !.age = Older(@, TooOld)] ELSE b

AgedVisit(r) ==
    [r EXCEPT !.clock = IF r.pc = "idle" THEN 0 ELSE @ + 1,
              !.since = IF r.task = "call" THEN Older(@, EbayTTL) ELSE 0,
              !.box = Aged(@), !.reply = Aged(@)]

\* Time passes; no search runs for more than Latency.
Tick ==
    /\ \A v \in Visits : visit[v].pc # "idle" => visit[v].clock < Latency
    /\ cache' = [k \in DOMAIN cache |-> IF cache[k].at < cache[k].ttl
                                         THEN [cache[k] EXCEPT !.at = @ + 1, !.box = Aged(@)]
                                         ELSE cache[k]]
    /\ edge' = [k \in {j \in DOMAIN edge : edge[j].at + 1 < EdgeTTL} |->
                  [edge[k] EXCEPT !.at = @ + 1, !.box = Aged(@)]]
    /\ visit' = [v \in Visits |-> AgedVisit(visit[v])]
    /\ UNCHANGED enabled

\* The steps of a visit that do not wait for eBay.
Step(v) == LookUp(v) \/ Collect(v) \/ Put(v)

Next ==
    \/ Tick
    \/ \E k \in Queries : Evict(k) \/ PushedOut(k)
    \/ \E v \in Visits :
        \/ Step(v) \/ Refused(v)
        \/ CallEnds(v, "rows") \/ CallEnds(v, "failed") \/ CallEnds(v, "refused")
        \/ \E k \in Queries : Proxy(v, k, TRUE) \/ Proxy(v, k, FALSE)

\* Threads run, aggregate ends (module Aggregate, SearchEnds) and time passes.
\* eBay may never answer.
Fairness == WF_vars(Tick) /\ \A v \in Visits : WF_vars(Step(v))

Spec == Init /\ [][Next]_vars /\ Fairness

-----------------------------------------------------------------------------
(* Properties                                                              *)

\* The boxes that a visitor is shown, now or by the edge.
ShownBoxes == {edge[k].box : k \in DOMAIN edge} \cup {visit[v].reply : v \in Visits}

\* eBay's terms bound the age of a listing that is shown.  The two caches and the
\* running time of a search add up, and no order of lookups, late answers and puts
\* makes them add up to more; a call that raised is forgotten after FailTTL in the same
\* way, also when it was stored late over good listings.
ShownInTime ==
    \A b \in ShownBoxes :
        /\ b.age < OldestRows - 1
        /\ b.kind = "failed" => b.age < OldestBlank - 1

\* EBAY_FAILURE_TTL_S: "an eBay outage costs one call a minute, not one per search".  A
\* box without listings because eBay did not give any, by an exception or by an error
\* status, is not shown for longer than that.
FailureForgotten ==
    \A b \in ShownBoxes : b.kind \in {"failed", "refused"} => b.age < OldestBlank - 1

\* "a slow eBay never holds the search": every search ends although eBay may never
\* answer.
SearchEnds == \A v \in Visits : visit[v].pc = "live" ~> visit[v].pc = "idle"

\* search: "neither is a degraded one (a store did not answer), so one slow call
\* never blanks a query for minutes".  A box that missed the deadline is not
\* shown to later visitors.
SlowCallNotShared == \A k \in DOMAIN edge : edge[k].box.kind # "late"

=============================================================================
