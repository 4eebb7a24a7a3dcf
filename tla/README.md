# DealFinder: a TLA+ verification project

DealFinder (`dealfinder/`, a FastAPI service behind a Cloudflare Worker) lets
anonymous shoppers search several stores at once and lets signed-in users keep a
watchlist and saved searches. A lab page shows the machinery behind it, batch jobs
feed it, and an operator's scripts deploy it. This directory holds TLA+ models of
the parts that run concurrently, fail or expire and of the decisions that must not
be wrong, the TLC configurations that check small instances of them, and TLAPS
proofs of the properties that matter most for every instance. `PROJECT.json` maps
every definition to the lines it models.

Paths below are relative to the repository root.

## 1. Inventory

| Component | State | Operations | Interacts with |
| --- | --- | --- | --- |
| Rate limiter (`ratelimit.py`, the window in `compliance.py`, middlewares in `serve.py`) | per path a dict of deques, the time of the last cleanup | `check`, `_shrink`, `client_key`, `edge_guard` | every anonymous route; the Worker supplies the secret and the visitor's address |
| Aggregation (`aggregate.py`) | `_cooldown`, shared by all search threads; everything else local to a search | scan the bench, run a tier, collect, escalate, fall back, dedup, rank | the connectors of `live_sources.py`; `shop.py` turns its report into `degraded` |
| Account store (`userstore.py` over `db.scoped`) | pool, role and settings of each connection, advisory locks, `watchlist`, `saved_searches` | add, remove, list | reads the catalog; competes with the purge job |
| Offer catalog (`pgstore.py`, `licensing.py`) | `offers`, per tenant | `upsert`, semantic search | written after each search (`serve._remember_offers`), read by `add_watch` |
| Retention (`retention.py`) | the schedule | `purge_expired` | deletes from `offers` and `watchlist` |
| Token verification (`auth.py`, `tenancy.py`) | `_Jwks`: key set, two time stamps, a lock | `verify_token` and `key_for` by every authenticated request; the gates of the routes | the project's key endpoint |
| Shopper search, eBay box (`shop.py`), Edge Worker (`edge/src/index.ts`) | a per-query cache of boxes; the edge cache | `shop_search`, `ebay_box`, `score_offers`, `check_deal`; the Worker's `api` | the box runs beside `aggregate`; its answer is cached by the Worker |
| eBay connector (`live_sources.EbaySource`) | one OAuth token and its expiry, without a lock | `_get_token`, `search` | threads of the box |
| Embedding (`embed.py`) | the model, built by the first thread that needs it; a bounded cache of vectors | `_get_model`, `embed_texts_cached` | the warm-up thread, searches |
| Readiness (`serve.py`, `db.py`) | `_DB`, `_READY` | boot, recheck, `/readyz` | the account routes' availability |
| Migrations (`migrate.py`) | the schema and its log | `apply`, `pending`, `schema_ready` | readiness reads the log |
| Deployment scripts (`deploy/secrets.py`, `deploy/create_login_role.py`) | secret versions, the login role's password, the Worker's secret | push, edge, create, rotate | an instance reads the secret at boot |
| Agents and RAG (`rag.py`, `llm.py`, `orchestrate.py`, `agentic_rag.py`, `context.py`, `search.py`) | local to a call | retrieve, write, review, reformulate, pack | the language models |
| Ranking and verdicts (`dealscore.py`, `shop.py`, `dedup.py`, `licensing.py`) | none | pure functions | search, deal checks, agents |
| Suggestions worker (`worker.py`), ML pipelines (`flows.py`, `mlops.py`, `tracking.py`, `evals.py`) | `seen`, the CSV, the champion, the registry | one-shot or repeated jobs | the snapshot file, the notifier |
| Lab page (`static/lab/lab.js`), React pages (`frontend/`) | modes, views, flags, the open stream | click, search, sign in, answers arriving | the service's routes |
| Billing, compliance stores, safety and tool trust, infrastructure | | | see section 8 |

What is hard to test here:

- FastAPI runs synchronous routes in a thread pool, so `_cooldown`, the key
  cache, the eBay token, the embedding model, `_DB` and the connection pool are shared by threads that
  interleave anywhere.
- The account store and the migrations rely on READ COMMITTED transactions: what
  one statement read may be gone or changed by the next.
- Memory is bounded by forgetting clients, which must not forgive them.
- Sources, the key endpoint, the notifier, the purge and every call of a script
  fail, hang or answer late.
- Two caches in a row add their ages up, and a late answer may be stored over a
  good one.
- The page acts while answers are under way; they arrive in any order.
- A language model may write anything.

`PROJECT.json` lists each hazard at its line with the properties that watch it.

## 2. Modules

| Module | Models | Uses |
| --- | --- | --- |
| `RateLimit` | `Limiter.check` with both cleanups, `allow`, `client_key`, the two middlewares | |
| `RateLimitHistory` | what each visitor really got | extends `RateLimit` |
| `Aggregate` | `aggregate` in several threads, with `_cooldown` | |
| `UserStore` | account routes, catalog writes, `db.scoped`, row-level security, advisory locks | refines `Accounts` |
| `Accounts` | abstract: a store that serves one request at a time | |
| `Retention` | the purge schedule against `upsert` and `add_watch` | |
| `Jwks` | `_Jwks.key_for` in several threads | |
| `Identity` | `verify_token`, the claims, and the routes that ask for an account or a role | extends `Jwks` |
| `Shop` | a search from the Worker's cache to the eBay box's cache and back | |
| `EbayToken` | the token the threads of the box share | |
| `EmbedCache` | the embedding model and its cache, shared by threads | |
| `Secrets` | the operator's scripts, call by call | |
| `Migrate` | `apply` in several processes | refines `SchemaLevel` |
| `SchemaLevel` | abstract: the schema of the first n files, and n only rises | |
| `Deploy` | instances that read the secret and the log: boot, recheck, `/readyz` | composes `Secrets`, `Migrate` |
| `Rating` | verdicts, peers, medians, licenses, penalties, dedup: pure operators | |
| `RatingCheck` | those operators on any of the given result sets and items | extends `Rating` |
| `Agents` | retrieval, writer and reviewer, the model cascade, multi-hop retrieval, packing | extends `Rating` |
| `Jobs` | suggestions worker, snapshot flow, promotion, tracking | extends `Rating` |
| `Lab` | the lab page | |
| `RateLimitProofs`, `AggregateProofs`, `UserStoreProofs`, `RetentionProofs`, `JwksProofs`, `DeployProofs` | theorems | extend their component |
| `ShopProofs` | theorems | extends `Shop`, `EbayToken`, `EmbedCache` |
| `LabProofs` | theorems | extends `Agents`, `Jobs`, `Lab`, `RatingCheck` |
| `MC...` | values of the constants for TLC | extend their component |

`MCShop` and `MCLab` put parts that share no state under one specification: a
variable `part` says which one a behaviour follows, and the others rest.

### RateLimit

`table[p]` is one `SlidingWindowRateLimiter` with its `_last_shrink` entry; a
client's deque is `log[k]`, a key that is not tracked has the empty one. A request
is one step because neither middleware awaits before it has decided. `Request`
is `edge_guard` then `rate_limit`; `Check` is `Limiter.check`: the ceiling test
with its own cleanup (`Admitting`), `allow`, the cleanup after it (`Cleaned`) and
the reading of `events[key][0]`. `Stale` stands for the `popleft` loop. Ties in
`_shrink`'s sort are broken by the key's text, which the model leaves open.
IPv6 clients are grouped by /64: `Net` maps an address to its key.
`RateLimitHistory` adds who sent the request, judged by the secret and not by
the limiter's own rule, the times of the requests that passed, and the time a
refusal promised; of the requests that passed it keeps those a window can still
count, as `DropStale` does for a deque.

### Aggregate

A search scans the bench one locked read at a time, runs the real sources tier by
tier until `TARGET_RESULTS` distinct keys are there, falls back to the keyless
source when nothing was found, and dedups, sorts and cuts. A source answers with
offers, nothing or an exception, or does not answer before the batch's timeout;
the sources a loop has still to visit are a set, of which `First` takes the first in
the order of the list; late answers are dropped and bench the source. Timers count down, so states do
not grow with time. Semantic dedup is modelled by its result, the cheapest offer
of each product; `Rating.DedupByEmbedding` models how it gets there.

### UserStore

A request checks a connection out, sets role, user and tenant for the
transaction, runs its statements one step each, and gives everything back at
commit or rollback. Statements see rows through the scope of their connection
only, as the policies of `migrations/0001` and `0002` do. `add_watch` reads the
offer *before* it takes the user's lock, then tests, counts and inserts. Any
statement may fail. Two users may hash to one advisory lock. A catalog row is the
version of its price, bounded by `MaxVersion`; legacy rows that the license rules
forbid may be present at the start. `Accounts` is what a caller may rely on: six
writes of one row, each of which happens at once.

### Retention

A row is its age. The scheduler starts a run every `Interval`; at most `MaxFails`
runs fail in a row. `add_watch` is two steps, so a purge can commit between its
read and its insert.

### Jwks and Identity

Each read of the cache before the lock is a step of its own, and so are the two
stores of a good fetch. Time stamps are ages that saturate at the largest value
the code compares with. The endpoint may answer, fail or never answer, and may
rotate its keys at any time. `Identity` wraps it: a request without a token is
anonymous, an unreadable or rejected one gets a 401, an endpoint that cannot be
reached a 503; tenant and role are the first claim given in the order the code looks
(`FirstOf`); a route then asks for an account, a subject or a role. `jwt.decode` is a
library: it tells a genuine signature, a current token, and one made for this project.

### Shop, EbayToken, EmbedCache

A visit is a request and the thread of its eBay box. `Proxy` is the Worker's miss
and the start of both tasks of `shop_search`; `LookUp` and `CallEnds` are the two
critical sections of `ebay_box`, with the call to eBay between them, which may end
after the search or never; `Collect` is the deadline, the report of `aggregate` (any
outcome) and the `Cache-Control` header the Worker obeys; `Put` is its
`ctx.waitUntil`. Of an answer only its box is followed: its kind and the age of what is
in it, so that the ages of the two caches add up. A call to eBay ends with listings, by an
exception, which gets the short lifetime, or with an error status, which the connector
turns into no listings and the box keeps as long as listings. The LRU limit is `PushedOut`: other queries
may evict an entry at any time. Inside one such call, `EbayToken` splits `_get_token`
at every shared read and write. `EmbedCache` has the double-checked building of the
model, which may fail and be tried again, and the two critical sections of
`embed_texts_cached` with the embedding between them. Of the LRU order it keeps that
new entries go last.

### Secrets, Migrate, Deploy

A script of `Secrets` is a sequence of calls to Secret Manager, Postgres and the
Worker's API, one per step; `Stop` ends it anywhere. An open transaction of the
provision rolls back when it is left. `Migrate` follows psycopg: the log is read in
the transaction the connection opens, so `with conn.transaction()` is a savepoint
and the files of a run commit together. A second run waits for the row of the first
and then fails on its key. `Deploy` reads both: an instance takes its URL from the
latest secret version at boot; `_db_ready` needs the database up, the password of
the role and a complete log; a check that was answered earlier may write `_DB` late.

### Rating, Agents, Jobs, Lab

`Rating` compares prices as whole numbers, exactly. An offer has the product type its
title names, which may be none, and the category of the snapshot listing it is most like,
which only `check_deal` falls back to. What a trained model predicts, how alike two titles are (`Likeness`, of which the five nearest peers are taken) and
which titles match are parameters; an embedding that fails, after which no row has a
peer estimate, is not a case of its own. A filter and a sort are given by counting
places (`Nth`, `NotAfter`), not by recursion, which is what makes them provable. The loops
whose order matters, those of the union-find of `dedup_by_embedding` and of `pack_deals`,
are recursive functions of the round (`Joined`, `Parents`, `Packing`), and what they are
checked against is not a loop: two items are one product unless a set that no matching
pair leaves or enters holds just one of them, and a window is compared with every other
selection that fits. `RatingCheck` states the properties of these operators for whatever inputs it is given. `Agents` reduces an answer to the name it
leads with, the names in it and whether it warns; a name is the title of a listing or
anything else a model may write. The faithfulness guard sees the prices and model codes
written with the names (`Written`, against those of the retrieved context, `Shown`); the
reviewer's lookup of the lead sees the retrieved titles a name occurs in (`TitledBy`). A
capability phrase makes a query by the words the question lacks (`Text`), so two phrases
may make the same one, which then finds the same again; that the question is not itself
such a text already is assumed. The rankings of embeddings
and BM25 are any two orders, the second over any part of the snapshot, fused, cut,
reranked and cut again. `Jobs` reads the snapshot file at the same places as the
code does, and `Refresh` may replace it in between. `Lab` keeps, of each view, whose
answer it shows (mode, query, user); `flying` are the fetches under way.

## 3. Runs

| Run | Bounds | Shows |
| --- | --- | --- |
| `RateLimit` | one limited path, limit 2 per window of 2, `max_keys` 1 (ceiling 2), three client networks (two addresses share one), clock to 3 | `Ceiling`; `HonestWait`; `LimitedIsKept`: nothing changes the record of a client at its limit; `RefusalIsKept`: a refusal is for the client's own requests, and nobody is let in before its Retry-After; `FloodBound`: a bound on what eviction gives away |
| `Aggregate_one` | one search after another, two API sources that share a product, a scraper tier, a fallback | `CleanMeansComplete`, `NoNeedlessEscalation` (the fallback included), `CheapestShown`, and every search ends |
| `Aggregate_shared` | two searches at once, two tiers | `BenchIsACooldown`: the breaker stops every search that starts after the benching, and no source stays benched for ever |
| `UserStore` | two requests, two users on one lock, two tenants, a legal and a legacy offer, caps of 1 | `RequestsAreAtomic`: the routes refine `Accounts`; hence `Caps` and only licensed copies; users and tenants are isolated, listings show own rows |
| `UserStore_ends` | three requests, two connections | every request ends |
| `Retention` | the production numbers in hours (72, 25, 12), one failed run in a row, two `add_watch` calls | `OffersInTime`, `UnstorableStayGone`, `WatchesBounded` |
| `Jwks` | two threads, two keys, six kinds of tokens, TTL 3, refresh 2, retry 2, timeout 1 | `AdmittedIsVerified`: a request is served only as what a genuine, current token of this project says, under a key the cache held during the request; `RefreshesSpaced`; a hanging fetch holds up only its own thread |
| `Shop` | two visits of one query, box lifetimes 3 and 1, edge lifetime 2, deadline 1, searches up to 2; three threads on one token (life 7, margin 3, delay 1); two threads that embed up to three texts, cache of 2 with lifetime 1, clock to 2 | `ShownInTime`: a listing, or a call that raised, is shown for at most the sum of the lifetimes; `TokenFresh`; `EmbedSound`: one model is built and used, every text is answered, the cache keeps its limit; `SearchEnds` although eBay may never answer |
| `Deploy` | one operator, three tokens and versions, two migrators, two files, two threads | `SecretUsable`; `NoAccountsBeforeSchema`; `LevelRises`: the migrations refine `SchemaLevel`; `Recovers`: an instance finds the database again |
| `Lab` | three listings in two categories, one title part of another and one with markup, two other names, three phrases of which two make one query, three hops, two models; three snapshots, three saved searches, two failures; four modes, two queries, two fetches under way; result sets of four offers (three sources and three prices; the title of the first names a product type with a model or none; a source without an entry only in the last place), all match relations of four items | `FinalAnswerIsSafe`, `HopsMakeProgress`, `WindowHoldsBest`; `NotifiedOnce`, `GatesHold`; `StreamShowsOneSearch`, `NeverStuck`; `LicenceAskedFirst`, `TrapsSink`, `OneOfferPerProduct` |
| `Deploy_disagree` | as `Deploy` | `NeverDisagree` fails (section 6) |
| `Lab_ready` | as `Lab`, with a second inspector mode | `ReadyMarksRender` fails (section 6) |

Why the bounds are enough. In `RateLimit`, three clients over a ceiling of two
fill the table, meet the ceiling, and make both cleanups run with clients that are
idle, open and at their limit; a window of two with cleanups every tick lets a
cleanup fall between any two requests. In `Aggregate_one`, each mix of answers of
two same-tier sources, with escalation and fallback, occurs; in `_shared`, a
second search can bench a source at any step of the first. In `UserStore`, two
requests already race for a cap of one saved search; with one offer that may be
watched the watch cap cannot be passed in this run, and the theorem `BothCapped`
covers it. A third request is needed only to exhaust a pool of two connections
while one waits for the lock. In `Retention`, the longest life of a row spans three
runs, all within the reachable ages. In `Jwks`, one thread fetches while the other
is anywhere in `key_for`. In `Shop`, two visits give two calls for one query of
which the later may be stored first; the lifetimes differ by enough for an entry to
outlive a failure, a search and a stay at the edge. `EbayToken` needs three threads:
one stores a token, one its expiry, one reads both; with a margin of 2 the property
fails, so the bound is tight. In `EmbedCache`, one thread builds or embeds while the
other is anywhere, and a batch may be larger than the cache. In `Deploy`, two migrators meet on two files, of which
each can have run one or both; two threads give an old answer and a fresh one; three
versions let a push destroy the one before it, after a provision that was torn.
In `Lab`, three listings hold a deal, a trap and an overpriced one at once; the other
names are an unknown model code and an unknown product at a price that is retrieved, which
the guard tells apart; three hops exhaust a category of either one phrase or of two that
make the same query, also when the category on top changes; three saved searches repeat a query with another k; two fetches and a stream overtake
each other in four modes that cover every kind of load: words, stream, sign-in
and generic.

Deadlock is checked in every run; what ends (a session, the clock of `RateLimit`)
goes on idling or answering.

Fairness. `Aggregate`: a search thread is scheduled and time passes; no fairness
for a source's answer, since a source may hang. `UserStore`: a started request
keeps being scheduled (weak), and a waiter of an advisory lock gets it if it is
free again and again (strong), because Postgres queues the waiters. `Jwks`:
threads are scheduled and time passes; the endpoint may never answer, since the
`httpx` timeout applies to each read and not to the whole response. `Shop`: time
passes and the steps of a visit that do not wait for eBay are taken; eBay may never
answer. That `aggregate` ends is `SearchEnds` of `Aggregate`. `Deploy`: a check ends
(weak), because connections have a timeout; a recheck that is possible again and
again is begun (strong), because requests for accounts keep coming, each of which
may recheck. Nothing is assumed of operators, migrations or outages. `RateLimit`,
`Retention`, `EbayToken`, `EmbedCache` and `Lab` have safety properties only.

## 4. Proofs

All theorems hold for every value of the constants that satisfies the module's
named assumption (`ConstantsAssumption`, `AggregateAssumption`,
`UserStoreAssumption`, `RetentionAssumption`, `JwksAssumption`,
`IdentityAssumption`, `ShopAssumption`, `EbayTokenAssumption`, `EmbedAssumption`,
`MigrateAssumption`, `SecretsAssumption`, `AgentsAssumption`, `JobsAssumption`,
`LabAssumption`, `RatingAssumption`, `UntypedAssumption`), which say no more than the code's own constants do: positive limits,
windows and lifetimes, a margin below the age limit, numbers of files and bounds, finite
sets of listings and texts, place holders that are not members of the sets they stand
beside (no model is trained for no category), a listing's own price and model codes shown
with it in the context, texts that differ from the question, result sets whose offers have different ids and no negative price, items whose
matching pairs are of an item and a later one. Two hypotheses go further and are part of the statements: `EdgeSecret` (the
service runs behind the Worker, the only deployment in which the visitor's address is
known; without it all visitors of one proxy share a key, and a promise to one of them is
no promise to another) and `Ops = {op}` (one operator, as in the runbook; with two,
`SecretUsable` is false).

**RateLimitProofs.** `TypeCorrect`, `MemoryBounded` (at most `2 * max_keys`
clients), `WaitsAreHonest`, `LimitedNeverForgotten`. The invariant is `TablesOK`
with the honest wait of the last reply. `Ceiling` alone is not inductive: the wait
is honest only if each deque is sorted and not ahead of the clock, and
`LimitedIsKept` needs that order as well, because `_shrink` judges a client idle by
its *last* request while `allow` drops by the *first*. `StaleType` and
`DropStaleFacts` state what the `popleft` loop does; `ShrinkFacts` that a cleanup
only removes clients and never one at its limit; `CheckShape` reduces a request to
these.
`RefusalsAreKept` needs the history: every deque is the end of what really passed
(`MemoryOK`), and while a promised time has not come the client is still at its limit and
its oldest counted request leaves no sooner (`PromiseOK`).
`FloodIsBounded` is a potential argument. `Forgotten` are the requests in the window that
no deque counts any more; `Flooded` bounds them, for *every* start of a window, by
`Limit - 1` for each cleanup that fits between that start and the last cleanup. The bound
for the current window alone is not inductive, because the window moves while the
cleanups stay where they were. A cleanup that forgets a client with `Limit - 1` requests
is `ShrinkEvery` after the one before it, which pays for them.

**AggregateProofs.** `CleanIsComplete`, `TiersAreProtected`, `CheapestIsShown` and, of
`BenchIsACooldown`, the safety half: `BreakerStopsLaterSearches`. The lists of a search
hold what the calls it has collected returned, no more and no less (`BooksOK`); tiers were
asked from the bottom, each because the ones below it were not enough (`OrderOK`); a
source it may still call was off the bench when the search looked, or was benched since
(`BenchOK`), whatever the other searches do.

**UserStoreProofs.** `TypeCorrect`, `ScopesNeverLeak`, `BothCapped`,
`CopiesLicensed`, `TenantsIsolated`, `OwnRowsListed`. The caps rest on three
strengthenings: a request past the lock still holds it (`LockHeld`), so the room it
counted is still there when it inserts (`RoomKept`; deletes take no lock but only make
room), and what it counted are exactly its own rows (`ScopeMatches`). Two users on one
advisory lock are covered. `RoutesAreAtomic`: the routes implement `Accounts`. A request
acts at its one write: by `RoomKept` the item it adds is in the list by then, or has room
in that very state, by `SeesOwn` a `DELETE` without a user reaches one row of the asker or
none, and what is copied is a version that a row had (`SnapsRead`). All other statements,
the failures, the pool and the locks map to a stutter.

**RetentionProofs.** A row survives a successful run only up to the cut-off, so
its age is at most the cut-off plus the time since that run; a copy may be
inserted just after the run that deleted its offer, and gets one such period more.
From this: `OffersExpire` (if the margin exceeds `(MaxFails + 1)` intervals, no
catalog row reaches the limit), `WatchesExpire` (twice that margin is needed for
the watchlist), `CopiesBounded` (the bound without any condition on the margin) and
`RowsStayGone` (what an `add_watch` has read is always storable, so no insert
brings an unstorable row back).

**JwksProofs.** `TypeCorrect`, `FailsClosed`, `FetchesSpaced` and
`OnlyVerifiedAreAdmitted`. The lock is held by the one thread between acquire and
release, and what a thread has looked up, or could look up now, was in the cache during
its call (`SeenIsKept`). A request that is admitted with an identity thus went through a
key the cache held during that request, and the rest of the token was verified.

**ShopProofs.** `ListingsShownInTime` from `ShopInv`, which gives the
age of a listing wherever it is: in a box (`CacheOK`), in a visit (`VisitsOK`: the
lifetime of the box and the time of the search so far) and at the edge (`SharedOK`: the
same and its time there). `NoExpiredToken` from `TokenInv`: the token and its expiry are
stored in two writes without a lock, so a reader may pair one thread's token with
another's expiry; `HalfStored` bounds the age of the token between the two writes,
`PairFits` the sum that any pair can reach, and `AllowedFits` what a thread that passed
the test can still be holding. `3 * Delay <= Margin` is exactly what this needs.
`EmbeddingsAreSound` from `EmbedInv`: there is one builder at a time, and none once the
model is there (`OneBuilder`).

**DeployProofs.** `RunsImplementLevel` (`Migrate` implements `SchemaLevel`, for any
number of files and migrators), `DeployImplementsLevel` (so does the whole system)
and `SchemaBeforeAccounts`. `MigrateInv` says that the log holds no file or all
(`AllOrNothing`), that exactly its files are in effect, once (`InEffect`), and, of
each open run, that what it read is still in the log, what it ran is not yet there
(`RunsFollowLog`) and no other open run has it (`RunsApart`). The last two are needed
because a run commits on what it read when it began: `CommitsAllOrNothing` derives
that a committing run has either run everything over an empty log or nothing, which
is the one step from level 0 to level `Files`. `ReadyIsKnown` adds that every answer
in `_DB`, or still on its way to it, was given by a complete log, which never shrinks
(`StaysReady`).
`SecretStaysUsable`: the latest version is enabled and fits the Worker and, unless a
provision was torn, the role, at every call of a script and wherever it stops
(`StoreFits`), because what the script in progress holds fits what is stored (`JobFits`).

**LabProofs.** The page: `OneSearchIsStreamed` and `PageNeverStuck`. The stream that is
not null belongs to the mode and the query on the page and is the only one open
(`StreamOK`); a mode that is not ready is owed its flag by a load under way or by the
stream (`ReadyOK`). The jobs: `ToldOnce` (a deal a run counts as told was sent, at most
once more than runs failed, and anything else only by runs that failed, `CountOK`) and
`GatesAlwaysHold` (rows past the gate passed it, the champion passed on its own golden
set, the winner is the best selectable run). The agents: `AnswersAreSafe` and
`LoopMakesProgress`. `SortedIsPermutation` shows that the sort by a score permutes its
argument (the numbers of places not after each are distinct, so by counting each number
is taken), hence that retrieval lists no listing twice; `DeterministicIsSafe` that the
answer a reviewer falls back to writes only what was retrieved, warns, and leads with the
best deal. In the loop every query is the question, the plain one, or that of a phrase used up
(`QueriesOK`); `NextOK` says of the query to come what `HopsMakeProgress` says of the ones
made, and that no phrase is used up unless its query was made or comes next. The ratings, for result sets of any length and
likeness: `LicenceAlwaysAsked` and `TrapsAlwaysSink`. Filtering what was filtered is
filtering once (`PickPick`), so the licences asked one after the other leave the rows that
have them all, in whatever order they are asked (`LicensedRows`); the median and the peers
of a rated row are therefore those of the licensed rows alone (`UnlicensedFeedNothing`),
and so is its verdict. For a title that names its type both rate by the same
model, and a deal in the list is none that is implausibly cheap for it; without one the two
may differ, which is why the theorem excludes that case. A deal is worth more than nothing and a trap less, and the sort
never places the lower score first (`HigherFirst`).

`OneOfferKept` and `WindowAlwaysBest` are about loops over any number of items. The
library's induction theorems cannot be used here, because they take an operator as a
parameter; but a least counterexample among the rounds can be chosen, and that gives both
that the recursive function exists (`LoopIsDefined`) and induction over its rounds
(`Rounds`). For the union-find, `Forest` keeps, beside the parents, the root of each item
and its depth, which is below the size of its cluster; hence `find` ends at the root within
as many steps as there are items (`RootIs`), path halving changes no root and can be left
out (`HalvingKeepsRoots`), and hanging one root below another keeps a forest
(`UnionForest`). `Joins` says that the clusters are what the pairs seen so far join: each
pair lies in one cluster, and each set those pairs respect is a union of clusters. It holds
after every round of both loops (`JoinedClusters`, `ParentsCluster`), so at the end two
items share a cluster exactly if nothing separates them, and the cheapest of a finite
cluster, the first of equals, is unique (`KeepsCheapest`). For the window, `Taken` are the
places of the items that were packed. A selection that differs from it differs first at
some place; up to there the sums agree (`SumsAgree`), and sums never fall (`SumsGrow`), so
if the other selection takes that item, so had `pack_deals`, for it fitted. The item of
rank `a` ends `(a - 1) \div 2` places from the nearer edge (`EdgeOfRank`), which does not
fall with the rank.

Only model-checked:

- the liveness properties (`SearchEnds` of `Aggregate` and `Shop`, the second half of
  `BenchIsACooldown`, `RequestEnds`, `OthersAnswer`, `Recovers`): fairness and `ENABLED`
  are beyond the prover. Every invariant and every action property that the runs check is
  proved.

## 5. Abstractions worth knowing

- Every timer is in ticks of one unit; only the order of the thresholds matters.
- A write and the commit that follows it at once are one step.
- An `upsert` writes one offer, and a search stores the newest version only; row
  locks of multi-row upserts are not modelled.
- In `Retention` no time passes inside a transaction (seconds against hours).
- `Net`, `Group`, `Hash`, `Stock`, `Storable` stand for address parsing, semantic
  dedup, `hashtext`, what stores sell, and the license table.
- `EbayToken` assumes that a thread takes at most a third of the margin (20 of 60
  seconds) from eBay's answer to its search. The code's timeout is 30 seconds per
  read, so this is an assumption about the network and not enforced.
- `Deploy` has one operator, as the runbook has. Two pushes at once do break
  `SecretUsable`: each destroys every version but its own.
- `CheapestShown` is about the products that are in the answer and does not say that the
  cut to the limit keeps the cheapest rows. `LicenceAskedFirst` starts where
  `score_offers` does; in `aggregate`, before it, a cheaper duplicate without a licence may
  already have displaced a licensed row.
- `ShownInTime` gives the short bound to calls that raised only; an error status of eBay
  has the long one (section 6).
- Every checkout binds the scope of its request, in the code as in `UserStore`. A reset
  missing at the end of a request would thus not show in `ListsOwnRows` or `Isolation`,
  which are about statements that run under another request's scope.
- `Check a deal` falls back to the category of the most similar snapshot listing
  (`shop.py:345`), `score_offers` does not (`shop.py:174`). A row whose title names no
  product type is rated by its peers and may be shown as a deal that `Check a deal` calls
  too good to be true; the second half of `TrapsSink` is about the other titles.
- The reviewer compares names with titles and not with meanings: `FinalAnswerIsSafe`
  speaks of prices, model codes and the leads the reviewer recognises, and section 6 of
  what else it lets through. The text of `agentic_answer` is not reviewed, and not followed.
- A late watchlist answer that arrives after sign-out is rendered by the page as it
  would be before; no property of `Lab` speaks about whose rows remain on screen.

## 6. Where the code and its documentation disagree

Two have runs and findings of their own. The other configurations named here are kept
for reproduction: `tlc -config X_y.cfg MCX` finds the violation. `Lab_review.cfg` names
three properties, of which one is to be left in at a time.

- **Secret and role never disagree** (`deploy/create_login_role.py:100-101`; run
  `Deploy_disagree`). `push` adds the new version before it lists and destroys the
  others; when a later call fails, Postgres rolls back and the secret does not.
- **The ready flag marks a finished render** (`static/lab/lab.js:96`; run
  `Lab_ready`). The inspector modes share one view. A late answer of the mode that was
  left overwrites it under the ready flag of the mode that is shown (line 386); returning
  to a loaded mode, which returns at once (line 380), marks it ready over another mode's
  figures as well.
- **One slow call never blanks a query for minutes** (`serve.py:213`; `Shop_slow.cfg`).
  `degraded` looks at the stores only; an answer whose eBay box missed the deadline is
  public and stays at the edge.
- **An eBay outage costs one call a minute** (`shop.py:34`; `Shop_refused.cfg`). An error
  status is an empty list for the connector (`live_sources.py:252`), which the box keeps for
  15 minutes; only an exception is kept for one.
- **Every product cited is in the retrieved set** (`orchestrate.py:90`, `rag.py:223`;
  `Lab_review.cfg`, `ApprovedNamesRetrieved`). The guard checks prices and model codes; the
  check of known brands its docstring names (`rag.py:229-231`) is not in the code.
- **The lead is a genuine deal** (`orchestrate.py:91-92`; `Lab_review.cfg`,
  `ApprovedLeadIsADeal`). The lead is looked up as a part of the retrieved titles, and the
  first hit is judged: a listing whose title is part of a deal's title passes for that
  deal. The snapshot has titles that are part of others.
- **The gate stops bad data before the model** (`flows.py:181-182`; `Lab_relabel.cfg`).
  The rows that are labelled are read from the file again after the gate; what is
  persisted is what passed (`GatesHold`).
- **The extractive answer is recognised by the reviewer** (`orchestrate.py:64-69`;
  `Lab_review.cfg`, `DealIsApproved`). Markup is stripped from the answer and not from the
  titles; a deal whose title has a `*` or a `_` in it is not found, and the answer that
  leads with it goes out as not approved. The snapshot has such a title, which ends in `1280*800`.
- **At most twice the limit** (`ratelimit.py:6-7`; `RateLimit_twice.cfg`). A cleanup
  forgets clients below their limit. While a flood keeps the table over `max_keys`,
  one instance alone passes more than twice the limit of such a client. `FloodBound`
  is the bound that holds.
- **Re-watching refreshes the price** (`userstore.py:46`; `UserStore_stale.cfg`). The
  price is read before the lock; the later of two `add_watch` calls may write the
  older price.
- **Watchlist rows go by the same rule** (`retention.py:10`;
  `Retention_straddle.cfg`). A copy inserted right after a purge misses that run; if
  the next run fails too, it passes 72 hours. `WatchesBounded` is the bound that
  holds.
- **Unknown kid, just refreshed** (`auth.py:99`; `Jwks_refused.cfg`). The key is
  looked up before, and the need to fetch judged after, another thread's refresh: a
  valid token gets a 401.
- **The answer is generated from the last hop's query** (`agentic_rag.py:149`;
  `Lab_lasthop.cfg`). After the last hop without enough evidence the query is
  reformulated once more, and the answer is generated from that one.
- **Each file in its own transaction** (`migrate.py:3-4`; `Deploy_onebyone.cfg`). The
  log is read first, which opens a transaction around all of them: a run that fails at
  its second file keeps nothing. `LevelRises` holds either way.

Seen while modelling: a cleanup that meets only clients at their limit leaves more
than `max_keys` of them (`ratelimit.py:44` says it stays under); a search that read
the bench earlier still calls a source that was benched since (`RUNBOOK.md:122` says
it is not retried while benched); threads that queued for the key fetch fetch again
after it failed (`auth.py:46-47` says callers get 503 without another network call).

## 7. Composition

`Deploy` composes scripts, migrations and instances over shared state. `Shop` takes
from `Aggregate` that a search ends and that a report is clean only when it is
complete. `UserStore` and `Retention` look at the same tables, one at interleavings
of statements and one at ages; what `CopiesLicensed` assumes of the legacy rows
`UnstorableStayGone` bounds in time. `Agents` and `Jobs` use the verdicts of `Rating`.

## 8. Not modelled

- The signature arithmetic of `jwt.decode` (a library), the parsing of the stores' answers,
  embedding, training and drift arithmetic (floating point), inference backends.
- `billing.py`: dictionaries behind a demonstration route, sequential and not
  persisted. The audit log, the deletion demonstration, the guardrails and the tool
  approval of `compliance.py`, `safety.py` and `tool_trust.py` are of the same kind.
- `agent.py`, `tools.py`, `mcp_server.py`: dispatch to operators that `Agents` and
  `Rating` model.
- The React pages: one request and its answer. The Worker's own limiters: the
  platform's. Infrastructure declarations.

## 9. What is left

1. Abstract specifications: a quota for `RateLimit`, an atomic key cache for `Jwks`.
2. Multi-row upserts with row locks, and stale writes of the catalog.
