------------------------------ MODULE Aggregate ------------------------------
(***************************************************************************)
(* aggregate.aggregate with its circuit breaker.  FastAPI runs the sync     *)
(* endpoints in a thread pool, so several searches run at once and share    *)
(* _cooldown; everything else is local to a search.                         *)
(*                                                                         *)
(* Time is kept as what is left of each timer: left[s] ticks until source s *)
(* is off the bench (0: not benched), timer[i] ticks until search i stops   *)
(* waiting for its batch.                                                   *)
(***************************************************************************)
EXTENDS Integers, Sequences, FiniteSets

CONSTANTS
    Searches,    \* concurrent searches
    Order,       \* the configured sources (available() holds), in list order
    Tier,        \* Tier[s]
    Fallback,    \* the fallback_only sources
    Stock,       \* Stock[s]: the offers [key, price, source] s has for the query
    Group,       \* Group[k]: the product that dedup key k names (dedup_by_embedding)
    Cooldown,    \* COOLDOWN_SECONDS, in ticks
    Timeout,     \* SOURCE_TIMEOUT_S, in ticks
    Target,      \* TARGET_RESULTS
    MaxResults   \* limit

Sources == {Order[n] : n \in 1..Len(Order)}
Offers == UNION {Stock[s] : s \in Sources}

ASSUME AggregateAssumption ==
    /\ Order \in Seq(Sources)
    /\ Fallback \subseteq Sources
    /\ Tier \in [Sources -> Nat]
    /\ Cooldown \in Nat \ {0} /\ Timeout \in Nat \ {0}
    /\ Target \in Nat \ {0} /\ MaxResults \in Nat \ {0}
    /\ \A s \in Sources : /\ IsFiniteSet(Stock[s])
                          /\ \A o \in Stock[s] : o.source = s /\ o.price \in Nat

VARIABLES
    left,        \* _cooldown, shared by every search
    pc, queue,   \* where a search is, and the sources its loop has still to visit
    benched, batch, call, timer, throttled, timed_out, live, products, results,
    since        \* history: the sources put on the bench after the search looked at them

local  == <<pc, queue, benched, batch, call, timer, throttled, timed_out, live, products, results>>
vars == <<left, local, since>>

\* A loop over some of the sources visits them in list order.
Index(s) == CHOOSE n \in 1..Len(Order) : Order[n] = s
First(S) == CHOOSE s \in S : \A r \in S : Index(s) <= Index(r)

Keys(offers) == {o.key : o \in offers}

Tiers == {Tier[s] : s \in Sources}
Real(i) == Sources \ (benched[i] \cup Fallback)
Asked(i) == {s \in Sources : call[i][s] # "no"}
\* Mutant of Degraded: a benched source does not count.
DegradedForgetsBench(i) == timed_out[i] \cup throttled[i] # {}

Degraded(i) == timed_out[i] \cup throttled[i] \cup benched[i] # {}

-----------------------------------------------------------------------------
(* The final dedup, sort and cut.                                           *)

\* Mutant of CheapestPerKey: the first offer of a key stays.
AnyPerKey(offers) ==
    {best \in SUBSET offers : /\ Keys(best) = Keys(offers)
                             /\ \A o, b \in best : o.key = b.key => o = b}

\* best[k]: the first strictly cheaper offer wins, so one cheapest per key
CheapestPerKey(offers) ==
    {best \in SUBSET offers :
        /\ Keys(best) = Keys(offers)
        /\ \A o, b \in best : o.key = b.key => o = b
        /\ \A b \in best, o \in offers : o.key = b.key => b.price <= o.price}

\* dedup_by_embedding: each cluster keeps one cheapest item
CheapestPerGroup(offers) ==
    {items \in SUBSET offers :
        /\ {Group[k] : k \in Keys(items)} = {Group[k] : k \in Keys(offers)}
        /\ \A o, b \in items : Group[o.key] = Group[b.key] => o = b
        /\ \A b \in items, o \in offers : Group[o.key] = Group[b.key] => b.price <= o.price}

\* sorted(items, key=price)[:limit], as a set
Ranked(items) ==
    {top \in SUBSET items :
        /\ Cardinality(top) = IF Cardinality(items) < MaxResults THEN Cardinality(items) ELSE MaxResults
        /\ \A t \in top, o \in items \ top : t.price <= o.price}

Answers(offers) ==
    UNION {UNION {Ranked(items) : items \in CheapestPerGroup(best)} : best \in CheapestPerKey(offers)}

-----------------------------------------------------------------------------
Init ==
    /\ left = [s \in Sources |-> 0]
    /\ pc = [i \in Searches |-> "idle"]
    /\ queue = [i \in Searches |-> {}]
    /\ benched = [i \in Searches |-> {}]
    /\ batch = [i \in Searches |-> {}]
    /\ call = [i \in Searches |-> [s \in Sources |-> "no"]]
    /\ timer = [i \in Searches |-> 0]
    /\ throttled = [i \in Searches |-> {}]
    /\ timed_out = [i \in Searches |-> {}]
    /\ live = [i \in Searches |-> {}]
    /\ products = [i \in Searches |-> {}]
    /\ results = [i \in Searches |-> {}]
    /\ since = [i \in Searches |-> {}]

\* A new search: the locals start empty.
Start(i) ==
    /\ pc[i] \in {"idle", "done"}
    /\ pc' = [pc EXCEPT ![i] = "scan"]
    /\ queue' = [queue EXCEPT ![i] = Sources]
    /\ benched' = [benched EXCEPT ![i] = {}]
    /\ batch' = [batch EXCEPT ![i] = {}]
    /\ call' = [call EXCEPT ![i] = [s \in Sources |-> "no"]]
    /\ throttled' = [throttled EXCEPT ![i] = {}]
    /\ timed_out' = [timed_out EXCEPT ![i] = {}]
    /\ live' = [live EXCEPT ![i] = {}]
    /\ products' = [products EXCEPT ![i] = {}]
    /\ results' = [results EXCEPT ![i] = {}]
    /\ since' = [since EXCEPT ![i] = {}]
    /\ UNCHANGED <<left, timer>>

\* Mutant of Scan: the bench is not looked at.
ScanIgnoresBench(i) ==
    /\ pc[i] = "scan" /\ queue[i] # {}
    /\ queue' = [queue EXCEPT ![i] = @ \ {First(@)}]
    /\ UNCHANGED <<left, pc, benched, batch, call, timer, throttled, timed_out, live, products, results, since>>

\* benched = [s.name for s in configured if _benched(s.name)]: one locked read
\* per source, with other searches running in between
Scan(i) ==
    /\ pc[i] = "scan" /\ queue[i] # {}
    /\ benched' = [benched EXCEPT ![i] = IF left[First(queue[i])] > 0 THEN @ \cup {First(queue[i])} ELSE @]
    /\ queue' = [queue EXCEPT ![i] = @ \ {First(@)}]
    /\ UNCHANGED <<left, pc, batch, call, timer, throttled, timed_out, live, products, results, since>>

\* The tiers of real sources above every tier already asked.
TiersLeft(i) ==
    {t \in Tiers : \E s \in Real(i) : Tier[s] = t /\ \A r \in Asked(i) \ Fallback : Tier[r] < t}
Enough(i) == Cardinality(Keys(products[i])) >= Target
\* Mutant of Escalates: the target is not looked at.
EscalatesAlways(i) == TiersLeft(i) # {}

Escalates(i) == TiersLeft(i) # {} /\ ~Enough(i)
NextTier(i) ==
    LET t == CHOOSE t \in TiersLeft(i) : \A u \in TiersLeft(i) : t <= u
    IN  {s \in Real(i) : Tier[s] = t}
FallbackBatch(i) == (Sources \ benched[i]) \cap Fallback
FallsBack(i) == products[i] = {} /\ FallbackBatch(i) # {} /\ Asked(i) \cap Fallback = {}

\* run(batch): submit every source of the batch at once and wait
Run(i, next) ==
    /\ batch' = [batch EXCEPT ![i] = next]
    /\ call' = [call EXCEPT ![i] = [s \in Sources |-> IF s \in next THEN "running" ELSE call[i][s]]]
    /\ timer' = [timer EXCEPT ![i] = Timeout]
    /\ pc' = [pc EXCEPT ![i] = "wait"]
    /\ UNCHANGED <<left, queue, benched, throttled, timed_out, live, products, results, since>>

Between(i) == pc[i] \in {"scan", "collect"} /\ queue[i] = {}

Escalate(i) ==
    /\ Between(i) /\ Escalates(i)
    /\ Run(i, NextTier(i))

FallBack(i) ==
    /\ Between(i) /\ ~Escalates(i) /\ FallsBack(i)
    /\ Run(i, FallbackBatch(i))

Finish(i) ==
    /\ Between(i) /\ ~Escalates(i) /\ ~FallsBack(i)
    /\ \E top \in Answers(products[i]) : results' = [results EXCEPT ![i] = top]
    /\ pc' = [pc EXCEPT ![i] = "done"]
    /\ UNCHANGED <<left, queue, benched, batch, call, timer, throttled, timed_out, live, products, since>>

\* A source answers a call: offers, nothing, or an exception.
Answer(i, s) ==
    /\ pc[i] = "wait" /\ call[i][s] = "running"
    /\ \E a \in {"found", "empty", "error"} :
          /\ a = "found" => Stock[s] # {}
          /\ call' = [call EXCEPT ![i][s] = a]
    /\ UNCHANGED <<left, pc, queue, benched, batch, timer, throttled, timed_out, live, products, results, since>>

\* Mutant of WaitReturns: no timeout.
WaitForAll(i) ==
    /\ pc[i] = "wait"
    /\ \A s \in batch[i] : call[i][s] # "running"
    /\ queue' = [queue EXCEPT ![i] = batch[i]]
    /\ timer' = [timer EXCEPT ![i] = 0]
    /\ pc' = [pc EXCEPT ![i] = "collect"]
    /\ UNCHANGED <<left, benched, batch, call, throttled, timed_out, live, products, results, since>>

\* wait(futures, timeout=timeout_s) returns: what is still running is pending,
\* and its answer is dropped whenever it comes
WaitReturns(i) ==
    /\ pc[i] = "wait"
    /\ timer[i] = 0 \/ \A s \in batch[i] : call[i][s] # "running"
    /\ call' = [call EXCEPT ![i] = [s \in Sources |-> IF call[i][s] = "running" THEN "late" ELSE call[i][s]]]
    /\ queue' = [queue EXCEPT ![i] = batch[i]]
    /\ timer' = [timer EXCEPT ![i] = 0]
    /\ pc' = [pc EXCEPT ![i] = "collect"]
    /\ UNCHANGED <<left, benched, batch, throttled, timed_out, live, products, results, since>>

\* _bench(s): the other searches that already looked at s do not see it
Bench(s) ==
    /\ left' = [left EXCEPT ![s] = Cooldown]
    /\ since' = [j \in Searches |-> IF pc[j] = "scan" /\ s \in queue[j]
                                    THEN since[j] ELSE since[j] \cup {s}]

\* one turn of "for fut, src in futures.items()"
Collect(i) ==
    /\ pc[i] = "collect" /\ queue[i] # {}
    /\ LET s == First(queue[i]) IN
         /\ IF call[i][s] \in {"late", "error"} THEN Bench(s) ELSE UNCHANGED <<left, since>>
         /\ throttled' = [throttled EXCEPT ![i] = IF call[i][s] \in {"late", "error"} THEN @ \cup {s} ELSE @]
         /\ timed_out' = [timed_out EXCEPT ![i] = IF call[i][s] = "late" THEN @ \cup {s} ELSE @]
         /\ live' = [live EXCEPT ![i] = IF call[i][s] = "found" THEN @ \cup {s} ELSE @]
         /\ products' = [products EXCEPT ![i] = IF call[i][s] = "found" THEN @ \cup Stock[s] ELSE @]
    /\ queue' = [queue EXCEPT ![i] = @ \ {First(@)}]
    /\ UNCHANGED <<pc, benched, batch, call, timer, results>>

Tick ==
    /\ left' = [s \in Sources |-> IF left[s] > 0 THEN left[s] - 1 ELSE 0]
    /\ timer' = [i \in Searches |-> IF timer[i] > 0 THEN timer[i] - 1 ELSE 0]
    /\ UNCHANGED <<pc, queue, benched, batch, call, throttled, timed_out, live, products, results, since>>

Step(i) == Scan(i) \/ Escalate(i) \/ FallBack(i) \/ Finish(i) \/ WaitReturns(i) \/ Collect(i)

Next == Tick \/ \E i \in Searches : Start(i) \/ Step(i) \/ \E s \in Sources : Answer(i, s)

\* A search thread is scheduled and time passes; a source may never answer.
Fairness == WF_vars(Tick) /\ \A i \in Searches : WF_vars(Step(i))

Spec == Init /\ [][Next]_vars /\ Fairness

-----------------------------------------------------------------------------
(* Properties                                                              *)

\* A search that does not report itself degraded is complete: every real source
\* answered, unless the tiers below it already filled the target.  This is what
\* lets /search be cached: no failure of a store can hide in a clean answer.
Answered(i, s) == call[i][s] \in {"found", "empty"}
CleanMeansComplete ==
    \A i \in Searches : pc[i] = "done" /\ ~Degraded(i) =>
        \A s \in Sources \ Fallback :
            \/ Answered(i, s)
            \/ Cardinality(Keys(UNION {Stock[r] : r \in {r \in live[i] : Tier[r] < Tier[s]}})) >= Target

\* The cheap tiers protect the expensive ones: a source of a higher tier is
\* asked only while the answers of the lower tiers fall short of the target, and
\* the keyless fallback only when no real source produced an offer, so that its
\* offers never mix with theirs.
NoNeedlessEscalation ==
    \A i \in Searches :
        /\ \A s \in Asked(i) \ Fallback :
              Cardinality(Keys(UNION {Stock[r] : r \in {r \in live[i] \ Fallback : Tier[r] < Tier[s]}})) < Target
        /\ Asked(i) \cap Fallback # {} => live[i] \subseteq Fallback

\* One failing source never sinks a search: what the shopper gets is the cheapest
\* offer of every product any source delivered, up to the limit, whatever the
\* other sources did.
CheapestShown ==
    \A i \in Searches : pc[i] = "done" =>
        LET offered == UNION {Stock[s] : s \in {s \in Sources : call[i][s] = "found"}}
            groups  == {Group[k] : k \in Keys(offered)}
        IN  /\ \A r \in results[i] : \A o \in offered : Group[o.key] = Group[r.key] => r.price <= o.price
            /\ Cardinality(results[i]) = IF Cardinality(groups) < MaxResults
                                         THEN Cardinality(groups) ELSE MaxResults
            /\ results[i] \subseteq offered

\* Every search ends although sources may hang for ever: the per-batch timeout
\* is enough.
SearchEnds == \A i \in Searches : pc[i] = "scan" ~> pc[i] = "done"

\* The circuit breaker under concurrent searches: a source on the bench is called only
\* by a search that looked at the bench before the source was put there, so the breaker
\* stops every later search.
BreakerHolds ==
    [][\A i \in Searches, s \in Sources :
          call[i][s] = "no" /\ call'[i][s] = "running" /\ left[s] > 0 => s \in since[i]]_vars

\* The breaker holds, and "the bench is a real cooldown, not a permanent ban": searches
\* in flight can extend a cooldown, but never for ever.
BenchIsACooldown == BreakerHolds /\ \A s \in Sources : []<>(left[s] = 0)

=============================================================================
