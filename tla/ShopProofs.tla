----------------------------- MODULE ShopProofs -----------------------------
(***************************************************************************)
(* For any number of visitors, queries and threads: no listing outlives the *)
(* two caches and the search, no expired token is sent to eBay, and the     *)
(* embedding model and its cache keep their promises.                       *)
(***************************************************************************)
EXTENDS Shop, EbayToken, EmbedCache, FiniteSetTheorems, TLAPS

(* The token of the eBay source                                            *)

\* Every variable keeps its type; a thread at work has taken at most Delay.
TokenTypeOK ==
    /\ token \in 0..NoToken
    /\ expires \in 0..Lifetime
    /\ caller \in [Callers -> [pc : {"rest", "post", "store", "expiry", "return", "send"},
                               age : 0..NoToken, took : 0..Delay]]

\* The oldest a token is while _expires still allows it: its own answer took up to
\* Delay, and another thread's expiry was stored up to Delay after it.
OldestUsable == Life - Margin + 2 * Delay

\* A token that travels is as old as its thread has been at work.
TravelAge == \A c \in Callers : caller[c].pc = "store" => caller[c].age = caller[c].took

\* Between the two stores of a thread, the token is its own or a newer one.
HalfStored == \A c \in Callers : caller[c].pc = "expiry" => token <= Delay + caller[c].took

\* The age of the token and what _expires leaves add up to no more than that,
\* whichever threads wrote the two.
PairFits == expires > 0 => token + expires <= OldestUsable

\* A thread that was allowed to use the token has aged with it since.
AllowedFits == \A c \in Callers :
    /\ caller[c].pc = "return" => token <= OldestUsable - 1 + caller[c].took
    /\ caller[c].pc = "send" => caller[c].age <= OldestUsable - 1 + caller[c].took

TokenInv == TokenTypeOK /\ TravelAge /\ HalfStored /\ PairFits /\ AllowedFits

\* At the start there is no token.
LEMMA TokenInitInv == TokenInit => TokenInv
  BY EbayTokenAssumption DEF TokenInit, TokenInv, TokenTypeOK, TravelAge, HalfStored, PairFits,
     AllowedFits, Resting, NoToken, Lifetime

\* Time ages tokens, what is left of _expires and the threads at work alike.
LEMMA TokenTickInv ==
    ASSUME TokenInv, TokenTick
    PROVE  TokenInv'
<1> USE EbayTokenAssumption DEF NoToken
<1>a. TokenTypeOK /\ TravelAge /\ HalfStored /\ PairFits /\ AllowedFits
  BY DEF TokenInv
<1>b. token \in 0..NoToken /\ expires \in 0..Lifetime /\ Lifetime \in Nat
  BY <1>a DEF TokenTypeOK, Lifetime
<1>c. token' = Ages(token) /\ expires' = IF expires > 0 THEN expires - 1 ELSE 0
  BY DEF TokenTick
<1>d. token' \in 0..NoToken /\ token' <= token + 1
  BY <1>b, <1>c DEF Ages
<1>e. expires' \in 0..Lifetime /\ (expires' > 0 => expires' = expires - 1 /\ expires > 0)
  BY <1>b, <1>c
<1>f. ASSUME NEW c \in Callers
      PROVE  /\ caller[c].pc \in {"rest", "post", "store", "expiry", "return", "send"}
             /\ caller[c].age \in 0..NoToken /\ caller[c].took \in 0..Delay
             /\ caller[c] \in [pc : {"rest", "post", "store", "expiry", "return", "send"},
                                age : 0..NoToken, took : 0..Delay]
  BY <1>a DEF TokenTypeOK
<1>g. ASSUME NEW c \in Callers, caller[c].pc \in {"rest", "post"}
      PROVE  caller'[c] = caller[c]
  BY <1>g DEF TokenTick
<1>h. ASSUME NEW c \in Callers, caller[c].pc \notin {"rest", "post"}
      PROVE  /\ caller[c].took < Delay
             /\ caller'[c] = [caller[c] EXCEPT !.age = Ages(caller[c].age),
                                               !.took = caller[c].took + 1]
  BY <1>h DEF TokenTick
<1>i. ASSUME NEW c \in Callers, caller[c].pc \notin {"rest", "post"}
      PROVE  /\ caller'[c].pc = caller[c].pc
             /\ caller'[c].took = caller[c].took + 1
             /\ caller'[c].age \in 0..NoToken /\ caller'[c].age <= caller[c].age + 1
             /\ caller[c].age < Life => caller'[c].age = caller[c].age + 1
  <2>1. /\ caller'[c].pc = caller[c].pc /\ caller'[c].took = caller[c].took + 1
        /\ caller'[c].age = Ages(caller[c].age)
    BY <1>f, <1>h, <1>i
  <2>2. \A n \in 0..NoToken : Ages(n) \in 0..NoToken /\ Ages(n) <= n + 1 /\ (n < Life => Ages(n) = n + 1)
    BY DEF Ages
  <2> QED
    BY <1>f, <2>1, <2>2
<1>j. ASSUME NEW c \in Callers
      PROVE  caller'[c].pc = caller[c].pc
  <2>1. CASE caller[c].pc \in {"rest", "post"}
    BY <2>1, <1>g
  <2>2. CASE caller[c].pc \notin {"rest", "post"}
    BY <2>2, <1>i
  <2> QED
    BY <2>1, <2>2
<1>4. TokenTypeOK'
  <2>1. ASSUME NEW c \in Callers
        PROVE  caller'[c] \in [pc : {"rest", "post", "store", "expiry", "return", "send"},
                               age : 0..NoToken, took : 0..Delay]
    <3>1. CASE caller[c].pc \in {"rest", "post"}
      BY <3>1, <1>f, <1>g
    <3>2. CASE caller[c].pc \notin {"rest", "post"}
      <4>1. Ages(caller[c].age) \in 0..NoToken /\ caller[c].took + 1 \in 0..Delay
        <5>1. \A n \in 0..NoToken : Ages(n) \in 0..NoToken
          BY DEF Ages
        <5>2. caller[c].took < Delay
          BY <3>2, <1>h
        <5> QED
          BY <1>f, <5>1, <5>2
      <4> QED
        BY <3>2, <4>1, <1>f, <1>h
    <3> QED
      BY <3>1, <3>2
  <2>2. caller' = [c \in Callers |-> caller'[c]]
    BY DEF TokenTick
  <2> QED
    BY <1>d, <1>e, <2>1, <2>2 DEF TokenTypeOK
<1>5. TravelAge'
  BY <1>a, <1>f, <1>i, <1>j DEF TravelAge
<1>6. HalfStored'
  <2> SUFFICES ASSUME NEW c \in Callers, caller[c].pc = "expiry"
               PROVE  token' <= Delay + caller'[c].took
    BY <1>j DEF HalfStored
  <2>1. token <= Delay + caller[c].took
    BY <1>a DEF HalfStored
  <2>2. token + 1 <= Delay + caller'[c].took
    BY <2>1, <1>b, <1>f, <1>i
  <2> QED
    BY <2>2, <1>b, <1>d, <1>f, <1>i
<1>7. PairFits'
  <2>1. \A x, y \in Nat : x <= token + 1 /\ y = expires - 1 /\ token + expires <= OldestUsable
                          => x + y <= OldestUsable
    BY <1>b DEF OldestUsable
  <2>2. OldestUsable' = OldestUsable
    BY DEF OldestUsable
  <2> QED
    BY <1>a, <1>d, <1>e, <2>1, <2>2 DEF PairFits
<1>8. AllowedFits'
  <2>1. ASSUME NEW c \in Callers, caller[c].pc = "return"
        PROVE  token' <= OldestUsable - 1 + caller'[c].took
    <3>1. token <= OldestUsable - 1 + caller[c].took
      BY <2>1, <1>a DEF AllowedFits
    <3>2. token + 1 <= OldestUsable - 1 + caller'[c].took
      BY <2>1, <3>1, <1>b, <1>f, <1>i DEF OldestUsable
    <3> QED
      BY <2>1, <3>2, <1>b, <1>d, <1>f, <1>i DEF OldestUsable
  <2>2. ASSUME NEW c \in Callers, caller[c].pc = "send"
        PROVE  caller'[c].age <= OldestUsable - 1 + caller'[c].took
    <3>1. caller[c].age <= OldestUsable - 1 + caller[c].took
      BY <2>2, <1>a DEF AllowedFits
    <3> QED
      BY <2>2, <3>1, <1>f, <1>i DEF OldestUsable
  <2>3. OldestUsable' = OldestUsable
    BY DEF OldestUsable
  <2> QED
    BY <1>j, <2>1, <2>2, <2>3 DEF AllowedFits
<1> QED
  BY <1>4, <1>5, <1>6, <1>7, <1>8 DEF TokenInv

\* Threads test, fetch, store and use the token in any order.
LEMMA CallerInv ==
    ASSUME TokenInv, NEW c \in Callers,
           \/ TestToken(c) \/ Issue(c) \/ IssueFails(c)
           \/ StoreAccess(c) \/ StoreExpiry(c) \/ ReturnToken(c) \/ Send(c)
    PROVE  TokenInv'
<1> USE EbayTokenAssumption DEF TokenInv, NoToken, To, TokenTypeOK, OldestUsable, Lifetime
<1>1. CASE TestToken(c)
  BY <1>1 DEF TestToken, TravelAge, HalfStored, PairFits, AllowedFits
<1>2. CASE Issue(c)
  BY <1>2 DEF Issue, TravelAge, HalfStored, PairFits, AllowedFits
<1>3. CASE IssueFails(c)
  BY <1>3 DEF IssueFails, Resting, TravelAge, HalfStored, PairFits, AllowedFits
<1>4. CASE StoreAccess(c)
  <2>1. caller[c].pc = "store" /\ token' = caller[c].took /\ caller[c].took \in 0..Delay
    BY <1>4 DEF StoreAccess, TravelAge
  <2>2. caller' = [caller EXCEPT ![c].pc = "expiry"] /\ expires' = expires
    BY <1>4 DEF StoreAccess
  <2>3. TokenTypeOK' /\ TravelAge'
    BY <2>1, <2>2 DEF TravelAge
  <2>4. HalfStored'
    BY <2>1, <2>2 DEF HalfStored
  <2>5. PairFits'
    <3>1. caller[c].took + expires <= OldestUsable
      BY <2>1
    <3> QED
      BY <2>1, <2>2, <3>1 DEF PairFits
  <2>6. AllowedFits'
    BY <2>1, <2>2 DEF AllowedFits
  <2> QED
    BY <2>3, <2>4, <2>5, <2>6
<1>5. CASE StoreExpiry(c)
  BY <1>5 DEF StoreExpiry, TravelAge, HalfStored, PairFits, AllowedFits
<1>6. CASE ReturnToken(c)
  BY <1>6 DEF ReturnToken, TravelAge, HalfStored, PairFits, AllowedFits
<1>7. CASE Send(c)
  BY <1>7 DEF Send, Resting, TravelAge, HalfStored, PairFits, AllowedFits
<1> QED
  BY <1>1, <1>2, <1>3, <1>4, <1>5, <1>6, <1>7

\* No search is sent with a token that eBay has expired, although the token and its
\* expiry are stored and read one after the other without a lock: three delays fit
\* into the margin.
THEOREM NoExpiredToken == TokenSpec => []TokenFresh
<1>1. TokenInit => TokenInv
  BY TokenInitInv
<1>2. TokenInv /\ [TokenNext]_tokenVars => TokenInv'
  <2>1. TokenInv /\ UNCHANGED tokenVars => TokenInv'
    BY DEF tokenVars, TokenInv, TokenTypeOK, TravelAge, HalfStored, PairFits, AllowedFits
  <2> QED
    BY <2>1, TokenTickInv, CallerInv DEF TokenNext
<1>3. TokenInv => TokenFresh
  BY EbayTokenAssumption DEF TokenInv, TokenTypeOK, AllowedFits, OldestUsable, TokenFresh
<1> QED
  BY <1>1, <1>2, <1>3, PTL DEF TokenSpec

-----------------------------------------------------------------------------
(* The embedding model and its cache                                       *)

\* Every variable keeps its type.
EmbedTypeOK ==
    /\ model \in BOOLEAN
    /\ modelLock \in Embedders \cup {NoThread}
    /\ built \in Nat
    /\ job \in [Embedders -> [pc : Ended \cup {"find", "model", "lock", "retest", "construct", "run"},
                              texts : SUBSET UNION Batches, now : Nat,
                              found : SUBSET UNION Batches]]
    /\ clock \in Nat

\* The lock is held by the thread between its acquire and its release, and only
\* there is the model built; so it is built at most once, and not yet while a
\* thread is about to.
OneBuilder ==
    /\ \A t \in Embedders : job[t].pc \in {"retest", "construct"} <=> modelLock = t
    /\ \A t \in Embedders : job[t].pc = "construct" => ~model
    /\ built = IF model THEN 1 ELSE 0

\* What EmbedSound says of the threads, and of the cache.
JobsSound == \A t \in Embedders : /\ job[t].pc = "run" => model
                                  /\ job[t].pc = "answered" => job[t].texts \subseteq job[t].found
CacheBounded == Cardinality(DOMAIN vectors) <= EmbedMax

EmbedInv == EmbedTypeOK /\ OneBuilder /\ JobsSound /\ CacheBounded

\* At the start there is no model and nothing is cached.
LEMMA EmbedInitInv == EmbedInit => EmbedInv
<1> SUFFICES ASSUME EmbedInit PROVE EmbedInv
  OBVIOUS
<1>1. EmbedTypeOK /\ OneBuilder /\ JobsSound
  BY EmbedAssumption DEF EmbedInit, NoJob, Ended, EmbedTypeOK, OneBuilder, JobsSound
<1>2. DOMAIN vectors = {}
  BY DEF EmbedInit
<1>3. CacheBounded
  BY <1>2, FS_EmptySet, EmbedAssumption DEF CacheBounded
<1> QED
  BY <1>1, <1>3 DEF EmbedInv

\* The steps that leave the cache alone.
LEMMA ModelSteps ==
    ASSUME EmbedInv, NEW t \in Embedders, UNCHANGED vectors,
           \/ Warm(t) \/ Find(t) \/ TestModel(t) \/ LockModel(t) \/ Retest(t)
           \/ Construct(t) \/ ConstructFails(t) \/ EmbedFails(t)
           \/ \E texts \in Batches : Embed(t, texts)
    PROVE  EmbedInv'
<1> USE EmbedAssumption DEF EmbedInv, EmbedTypeOK, Goes, NoJob, Ended, OneBuilder, JobsSound
<1>0. CacheBounded'
  BY DEF CacheBounded
<1>1. CASE Warm(t)
  BY <1>0, <1>1 DEF Warm
<1>2. CASE Find(t)
  <2>1. PICK hits \in SUBSET (job[t].texts), to \in {"answered", "model"} :
            /\ job[t].pc = "find"
            /\ job' = [job EXCEPT ![t].found = hits, ![t].pc = to]
            /\ to = "answered" => job[t].texts \subseteq hits
            /\ UNCHANGED <<model, modelLock, built, clock>>
    <3> DEFINE found == {x \in job[t].texts \cap DOMAIN vectors : job[t].now - vectors[x] < EmbedTTL}
               next == IF job[t].texts \subseteq found THEN "answered" ELSE "model"
    <3>1. found \in SUBSET (job[t].texts) /\ next \in {"answered", "model"}
      OBVIOUS
    <3>2. /\ job[t].pc = "find"
          /\ job' = [job EXCEPT ![t].found = found, ![t].pc = next]
          /\ next = "answered" => job[t].texts \subseteq found
          /\ UNCHANGED <<model, modelLock, built, clock>>
      BY <1>2 DEF Find
    <3> HIDE DEF found, next
    <3> QED
      BY <3>1, <3>2
  <2>2. EmbedTypeOK'
    BY <2>1
  <2>3. OneBuilder' /\ JobsSound'
    BY <2>1
  <2> QED
    BY <1>0, <2>2, <2>3
<1>3. CASE TestModel(t)
  BY <1>0, <1>3 DEF TestModel
<1>4. CASE LockModel(t)
  BY <1>0, <1>4 DEF LockModel
<1>5. CASE Retest(t)
  BY <1>0, <1>5 DEF Retest, Constructs
<1>6. CASE Construct(t)
  BY <1>0, <1>6 DEF Construct
<1>7. CASE ConstructFails(t)
  BY <1>0, <1>7 DEF ConstructFails
<1>8. CASE EmbedFails(t)
  BY <1>0, <1>8 DEF EmbedFails
<1>9. ASSUME NEW texts \in Batches, Embed(t, texts) PROVE EmbedInv'
  BY <1>0, <1>9 DEF Embed
<1> QED
  BY <1>1, <1>2, <1>3, <1>4, <1>5, <1>6, <1>7, <1>8, <1>9

\* The second critical section answers with what it found and what it embedded, and
\* leaves no more than the limit in the cache.
LEMMA StoreStep ==
    ASSUME EmbedInv, NEW t \in Embedders, Store(t)
    PROVE  EmbedInv'
<1> USE EmbedAssumption DEF EmbedInv, Goes, Ended
<1>1. CASE Missing(t) = {}
  <2>1. job' = [job EXCEPT ![t].pc = "warm"] /\ UNCHANGED <<model, modelLock, built, clock, vectors>>
    BY <1>1 DEF Store
  <2>2. CacheBounded'
    BY <2>1 DEF CacheBounded
  <2> QED
    BY <2>1, <2>2 DEF Store, EmbedTypeOK, OneBuilder, JobsSound
<1>2. CASE Missing(t) # {}
  <2>1. PICK keep : /\ Stays(DOMAIN vectors, Missing(t), keep)
                    /\ vectors' = [x \in keep |-> IF x \in Missing(t) THEN job[t].now ELSE vectors[x]]
    BY <1>2 DEF Store
  <2>2. DOMAIN vectors' = keep
    BY <2>1
  <2>3. CacheBounded'
    BY <2>1, <2>2 DEF Stays, CacheBounded
  <2>4. /\ job' = [job EXCEPT ![t].pc = "answered", ![t].found = job[t].found \cup Missing(t)]
        /\ UNCHANGED <<model, modelLock, built, clock>>
    BY <1>2 DEF Store
  <2>5. EmbedTypeOK' /\ OneBuilder' /\ JobsSound'
    BY <2>4 DEF Store, Missing, EmbedTypeOK, OneBuilder, JobsSound
  <2> QED
    BY <2>3, <2>5
<1> QED
  BY <1>1, <1>2

\* The embedding model is built once, nobody runs without it, and the cache stays
\* within its limit while every call is answered in full: for any number of threads
\* and texts, whatever the constructor and the embedding do.
THEOREM EmbeddingsAreSound == EmbedSpec => []EmbedSound
<1>1. EmbedInit => EmbedInv
  BY EmbedInitInv
<1>2. EmbedInv /\ [EmbedNext]_embedVars => EmbedInv'
  <2> SUFFICES ASSUME EmbedInv, [EmbedNext]_embedVars PROVE EmbedInv'
    OBVIOUS
  <2>1. CASE EmbedTick
    BY <2>1 DEF EmbedTick, EmbedInv, EmbedTypeOK, OneBuilder, JobsSound, CacheBounded
  <2>2. ASSUME NEW t \in Embedders,
               \/ Warm(t) \/ Find(t) \/ TestModel(t) \/ LockModel(t) \/ Retest(t)
               \/ Construct(t) \/ ConstructFails(t) \/ EmbedFails(t)
               \/ \E texts \in Batches : Embed(t, texts)
        PROVE  EmbedInv'
    <3>1. UNCHANGED vectors
      BY <2>2 DEF Warm, Find, TestModel, LockModel, Retest, Construct, ConstructFails, EmbedFails, Embed
    <3> QED
      BY <2>2, <3>1, ModelSteps
  <2>3. ASSUME NEW t \in Embedders, Store(t) PROVE EmbedInv'
    BY <2>3, StoreStep
  <2>4. CASE UNCHANGED embedVars
    BY <2>4 DEF embedVars, EmbedInv, EmbedTypeOK, OneBuilder, JobsSound, CacheBounded
  <2> QED
    BY <2>1, <2>2, <2>3, <2>4 DEF EmbedNext
<1>3. EmbedInv => EmbedSound
  BY DEF EmbedInv, OneBuilder, JobsSound, CacheBounded, EmbedSound
<1> QED
  BY <1>1, <1>2, <1>3, PTL DEF EmbedSpec

-----------------------------------------------------------------------------
(* The two caches of a search                                              *)

Boxes == [kind : {"rows", "failed", "refused", "late", "off"}, age : Nat]
VisitSet == [pc : {"idle", "live", "put"}, q : Queries, auth : BOOLEAN, clock : Nat,
             task : {"done", "lookup", "call"}, since : Nat, box : Boxes, reply : Boxes]

\* A box is at most `extra' older than the box's cache would have let it become.
Within(b, extra) == b.age <= TTLOf(b.kind) - 1 + extra

\* A running search: what it holds has aged with it since it came from the cache.
Running(r) ==
    /\ r \in VisitSet
    /\ r.clock <= Latency
    /\ Within(r.box, r.clock) /\ Within(r.reply, r.clock)
VisitOK(r) == Running(r) /\ (r.pc = "idle" => r.box = Blank("off") /\ r.reply = Blank("off"))

\* An entry of the box's cache is at least as old as its content, and lives as long
\* as that kind of content may.
EntryOK(e) ==
    /\ e \in [at : Nat, ttl : Nat, box : Boxes]
    /\ e.box.age <= e.at /\ e.ttl = TTLOf(e.box.kind)

\* An entry of the edge was put by a search of at most Latency.
EdgeOK(e) ==
    /\ e \in [at : Nat, box : Boxes]
    /\ e.at < EdgeTTL
    /\ Within(e.box, Latency + e.at)

VisitsOK == visit \in [Visits -> VisitSet] /\ \A v \in Visits : VisitOK(visit[v])
CacheOK == \A k \in DOMAIN cache : EntryOK(cache[k])
SharedOK == \A k \in DOMAIN edge : EdgeOK(edge[k])
ShopInv == VisitsOK /\ CacheOK /\ SharedOK

\* Every kind of box lives for at least a tick.
LEMMA TTLs == \A kind : TTLOf(kind) \in Nat \ {0} /\ TTLOf(kind) <= EbayTTL
  BY ShopAssumption DEF TTLOf

\* An empty box is not too old.
LEMMA BlankWithin ==
    ASSUME NEW kind \in {"rows", "failed", "refused", "late", "off"}, NEW n \in Nat
    PROVE  Blank(kind) \in Boxes /\ Within(Blank(kind), n)
  BY TTLs DEF Blank, Boxes, Within

\* A tick makes a box one tick older at most.
LEMMA AgedBox ==
    ASSUME NEW b \in Boxes
    PROVE  /\ Aged(b) \in Boxes /\ Aged(b).kind = b.kind /\ Aged(b).age <= b.age + 1
           /\ b = Blank("off") => Aged(b) = b
  BY ShopAssumption DEF Boxes, Aged, Older, TooOld, OldestRows, Blank

LEMMA AgedWithin ==
    ASSUME NEW b \in Boxes, NEW n \in Nat, Within(b, n)
    PROVE  Within(Aged(b), n + 1)
<1>1. Aged(b).kind = b.kind /\ Aged(b).age <= b.age + 1 /\ Aged(b).age \in Nat /\ b.age \in Nat
  BY AgedBox DEF Boxes
<1>2. TTLOf(b.kind) \in Nat
  BY TTLs
<1> QED
  BY <1>1, <1>2 DEF Within

\* A visit that is not running holds nothing.
LEMMA IdleOK == VisitOK(Idle)
<1>1. (CHOOSE k \in Queries : TRUE) \in Queries
  BY ShopAssumption
<1>2. Idle \in VisitSet
  BY <1>1, BlankWithin DEF Idle, VisitSet
<1> QED
  BY <1>2, BlankWithin, ShopAssumption DEF VisitOK, Running, Idle

\* What remains of a visit when its request has ended.
LEMMA RestOK ==
    ASSUME NEW r, Running(r)
    PROVE  VisitOK(Rest(r))
<1>1. CASE r.pc # "idle"
  BY <1>1 DEF Rest, VisitOK
<1>2. CASE r.pc = "idle" /\ r.task = "done"
  BY <1>2, IdleOK DEF Rest
<1>3. CASE r.pc = "idle" /\ r.task # "done"
  <2> DEFINE s == [Idle EXCEPT !.q = r.q, !.task = r.task, !.since = r.since]
  <2>1. Rest(r) = s
    BY <1>3 DEF Rest
  <2>2. Idle \in VisitSet /\ r \in VisitSet
    BY IdleOK DEF VisitOK, Running
  <2>3. /\ s \in VisitSet /\ s.pc = "idle" /\ s.clock = 0
        /\ s.box = Blank("off") /\ s.reply = Blank("off")
    <3>1. Idle.pc = "idle" /\ Idle.clock = 0 /\ Idle.box = Blank("off") /\ Idle.reply = Blank("off")
      BY DEF Idle
    <3> QED
      BY <2>2, <3>1 DEF VisitSet
  <2> HIDE DEF s
  <2> QED
    BY <2>1, <2>3, BlankWithin, ShopAssumption DEF VisitOK, Running
<1> QED
  BY <1>1, <1>2, <1>3

LEMMA BecomesOK ==
    ASSUME VisitsOK, NEW v \in Visits, NEW r, Running(r), Becomes(v, r)
    PROVE  VisitsOK'
<1>1. VisitOK(Rest(r))
  BY RestOK
<1>2. Rest(r) \in VisitSet
  BY <1>1 DEF VisitOK, Running
<1>3. visit' = [visit EXCEPT ![v] = Rest(r)]
  BY DEF Becomes
<1>4. visit' \in [Visits -> VisitSet]
  BY <1>2, <1>3 DEF VisitsOK
<1>5. \A u \in Visits : VisitOK(visit'[u])
  BY <1>1, <1>3 DEF VisitsOK
<1> QED
  BY <1>4, <1>5 DEF VisitsOK

\* At the start both caches are empty.
LEMMA ShopInitInv == Init => ShopInv
<1> SUFFICES ASSUME Init PROVE ShopInv
  OBVIOUS
<1>1. VisitsOK
  <2>1. Idle \in VisitSet
    BY IdleOK DEF VisitOK, Running
  <2> QED
    BY <2>1, IdleOK DEF Init, VisitsOK
<1>2. DOMAIN cache = {} /\ DOMAIN edge = {}
  BY DEF Init
<1> QED
  BY <1>1, <1>2 DEF ShopInv, CacheOK, SharedOK

\* A search begins.
LEMMA ProxyOK ==
    ASSUME ShopInv, NEW v \in Visits, NEW k \in Queries, NEW signedIn \in BOOLEAN,
           Proxy(v, k, signedIn)
    PROVE  ShopInv'
<1> DEFINE r == [Idle EXCEPT !.pc = "live", !.q = k, !.auth = signedIn, !.task = "lookup"]
<1>1. Idle \in VisitSet /\ Idle.clock = 0 /\ Idle.box = Blank("off") /\ Idle.reply = Blank("off")
  BY IdleOK DEF VisitOK, Running, Idle
<1>2. /\ r \in VisitSet /\ r.pc = "live" /\ r.clock = 0
      /\ r.box = Blank("off") /\ r.reply = Blank("off")
  BY <1>1 DEF VisitSet
<1>3. Becomes(v, r) /\ UNCHANGED <<cache, edge>>
  BY DEF Proxy
<1> HIDE DEF r
<1>4. Running(r)
  BY <1>2, BlankWithin, ShopAssumption DEF Running
<1> QED
  BY <1>3, <1>4, BecomesOK DEF ShopInv, CacheOK, SharedOK

\* A hit yields a box that its entry still covers.
LEMMA LookUpOK ==
    ASSUME ShopInv, NEW v \in Visits, LookUp(v)
    PROVE  ShopInv'
<1> DEFINE r == visit[v]
           k == r.q
           done == [r EXCEPT !.task = "done"]
<1>1. VisitOK(r) /\ r \in VisitSet
  BY DEF ShopInv, VisitsOK
<1>2. /\ done \in VisitSet /\ done.pc = r.pc /\ done.clock = r.clock
      /\ done.box = r.box /\ done.reply = r.reply
  BY <1>1 DEF VisitSet
<1>3. Running(done)
  BY <1>1, <1>2 DEF VisitOK, Running
<1>4. edge' = edge
  BY DEF LookUp
<1>5. CASE ~enabled
  <2>1. Becomes(v, done) /\ cache' = cache
    BY <1>5 DEF LookUp
  <2> QED
    BY <1>3, <1>4, <2>1, BecomesOK DEF ShopInv, CacheOK, SharedOK
<1>6. CASE enabled /\ Held(cache, k) /\ cache[k].at < cache[k].ttl
  <2>1. Becomes(v, [done EXCEPT !.box = cache[k].box]) /\ cache' = cache
    BY <1>6 DEF LookUp, Touch
  <2>2. EntryOK(cache[k])
    BY <1>6 DEF ShopInv, CacheOK, Held
  <2>3. cache[k].box \in Boxes /\ Within(cache[k].box, r.clock)
    <3>1. /\ cache[k].at \in Nat /\ cache[k].ttl \in Nat /\ cache[k].box \in Boxes
          /\ cache[k].box.age <= cache[k].at /\ cache[k].ttl = TTLOf(cache[k].box.kind)
      BY <2>2 DEF EntryOK
    <3>2. cache[k].box.age \in Nat /\ r.clock \in Nat
      BY <3>1, <1>1 DEF Boxes, VisitSet
    <3> QED
      BY <1>6, <3>1, <3>2 DEF Within
  <2> DEFINE s == [done EXCEPT !.box = cache[k].box]
  <2>4. /\ s \in VisitSet /\ s.pc = r.pc /\ s.clock = r.clock
        /\ s.box = cache[k].box /\ s.reply = r.reply
    BY <1>2, <2>3 DEF VisitSet
  <2> HIDE DEF s
  <2>5. Running(s)
    BY <1>1, <2>3, <2>4 DEF VisitOK, Running
  <2>6. Becomes(v, s)
    BY <2>1 DEF s
  <2> QED
    BY <1>4, <2>1, <2>5, <2>6, BecomesOK DEF ShopInv, CacheOK, SharedOK
<1>7. CASE enabled /\ ~(Held(cache, k) /\ cache[k].at < cache[k].ttl)
  <2> DEFINE s == [r EXCEPT !.task = "call"]
  <2>1. Becomes(v, s) /\ cache' = cache
    BY <1>7 DEF LookUp
  <2>2. /\ s \in VisitSet /\ s.pc = r.pc /\ s.clock = r.clock
        /\ s.box = r.box /\ s.reply = r.reply
    BY <1>1 DEF VisitSet
  <2> HIDE DEF s
  <2>3. Running(s)
    BY <1>1, <2>2 DEF VisitOK, Running
  <2> QED
    BY <1>4, <2>1, <2>3, BecomesOK DEF ShopInv, CacheOK, SharedOK
<1> QED
  BY <1>5, <1>6, <1>7 DEF LookUp

\* eBay answers or fails, in time or late: the new entry is as old as the lookup.
LEMMA CallEndsOK ==
    ASSUME ShopInv, NEW v \in Visits, NEW kind \in {"rows", "failed", "refused"}, CallEnds(v, kind)
    PROVE  ShopInv'
<1> DEFINE r == visit[v]
           e == [at |-> r.since, ttl |-> TTLOf(kind), box |-> Blank(kind)]
           b == IF r.pc = "put" THEN r.box ELSE Blank(kind)
           s == [r EXCEPT !.task = "done", !.since = 0, !.box = b]
<1>1. VisitOK(r) /\ r \in VisitSet
  BY DEF ShopInv, VisitsOK
<1>2. cache' = With(cache, r.q, e) /\ Becomes(v, s) /\ edge' = edge
  BY DEF CallEnds
<1>3. EntryOK(e)
  <2>1. r.since \in Nat
    BY <1>1 DEF VisitSet
  <2>2. Blank(kind) \in Boxes /\ Blank(kind).age = 0 /\ Blank(kind).kind = kind
    BY BlankWithin DEF Blank, Boxes
  <2> QED
    BY <2>1, <2>2, TTLs DEF EntryOK
<1>4. CacheOK'
  <2> HIDE DEF e
  <2>1. \A k \in DOMAIN cache' : cache'[k] = e \/ (k \in DOMAIN cache /\ cache'[k] = cache[k])
    BY <1>2 DEF With
  <2> QED
    BY <1>3, <2>1 DEF ShopInv, CacheOK
<1>5. b \in Boxes /\ Within(b, r.clock)
  BY <1>1, BlankWithin DEF VisitOK, Running, VisitSet
<1> HIDE DEF b
<1>6. /\ s \in VisitSet /\ s.pc = r.pc /\ s.clock = r.clock
      /\ s.box = b /\ s.reply = r.reply
  BY <1>1, <1>5 DEF VisitSet
<1> HIDE DEF s
<1>7. Running(s)
  BY <1>1, <1>5, <1>6 DEF VisitOK, Running
<1> QED
  BY <1>2, <1>4, <1>7, BecomesOK DEF ShopInv, SharedOK

\* The answer is the box, or an empty one.
LEMMA CollectOK ==
    ASSUME ShopInv, NEW v \in Visits, Collect(v)
    PROVE  ShopInv'
<1> DEFINE r == visit[v]
           b == IF r.task = "done" THEN r.box ELSE Blank("late")
<1>1. VisitOK(r) /\ r \in VisitSet
  BY DEF ShopInv, VisitsOK
<1>2. PICK clean \in BOOLEAN :
        Becomes(v, [r EXCEPT !.pc = IF UsesEdge(r.auth) /\ Shareable(r.auth, clean)
                                    THEN "put" ELSE "idle",
                             !.box = Blank("off"), !.reply = b])
  BY Zenon DEF Collect
<1> DEFINE pc == IF UsesEdge(r.auth) /\ Shareable(r.auth, clean) THEN "put" ELSE "idle"
           s == [r EXCEPT !.pc = pc, !.box = Blank("off"), !.reply = b]
<1>3. b \in Boxes /\ Within(b, r.clock)
  BY <1>1, BlankWithin DEF VisitOK, Running, VisitSet
<1>4. Blank("off") \in Boxes /\ Within(Blank("off"), r.clock)
  BY <1>1, BlankWithin DEF VisitSet
<1>5. pc \in {"put", "idle"}
  OBVIOUS
<1> HIDE DEF b, pc
<1>6. /\ s \in VisitSet /\ s.pc = pc /\ s.clock = r.clock
      /\ s.box = Blank("off") /\ s.reply = b
  BY <1>1, <1>3, <1>4, <1>5 DEF VisitSet
<1>7. Becomes(v, s)
  BY <1>2, Zenon DEF pc
<1> HIDE DEF s
<1>8. Running(s)
  BY <1>1, <1>3, <1>4, <1>5, <1>6 DEF VisitOK, Running
<1>9. cache' = cache /\ edge' = edge
  BY DEF Collect
<1> QED
  BY <1>7, <1>8, <1>9, BecomesOK DEF ShopInv, CacheOK, SharedOK

\* The end of a request, with or without an answer.
LEMMA EndOK ==
    ASSUME VisitsOK, NEW v \in Visits, Becomes(v, [visit[v] EXCEPT !.pc = "idle"])
    PROVE  VisitsOK'
<1> DEFINE r == visit[v]
           s == [r EXCEPT !.pc = "idle"]
<1>1. VisitOK(r) /\ r \in VisitSet
  BY DEF VisitsOK
<1>2. /\ s \in VisitSet /\ s.pc = "idle" /\ s.clock = r.clock
      /\ s.box = r.box /\ s.reply = r.reply
  BY <1>1 DEF VisitSet
<1>3. Becomes(v, s)
  OBVIOUS
<1> HIDE DEF s
<1>4. Running(s)
  BY <1>1, <1>2 DEF VisitOK, Running
<1> QED
  BY <1>3, <1>4, BecomesOK

\* What is put on the edge is as old as its search allowed.
LEMMA PutOK ==
    ASSUME ShopInv, NEW v \in Visits, Put(v)
    PROVE  ShopInv'
<1> DEFINE r == visit[v]
           e == [at |-> 0, box |-> r.reply]
<1>1. VisitOK(r) /\ r \in VisitSet /\ r.pc = "put"
  BY DEF ShopInv, VisitsOK, Put
<1>2. edge' = With(edge, r.q, e) /\ cache' = cache
  BY DEF Put
<1>3. VisitsOK'
  BY EndOK DEF ShopInv, Put
<1>4. EdgeOK(e)
  <2>1. e \in [at : Nat, box : Boxes] /\ e.at = 0 /\ e.box = r.reply
    BY <1>1 DEF VisitSet
  <2>2. Within(r.reply, Latency + 0)
    <3>1. /\ r.clock \in Nat /\ r.clock <= Latency /\ Within(r.reply, r.clock)
          /\ r.reply \in Boxes
      BY <1>1 DEF VisitOK, Running, VisitSet
    <3>2. r.reply.age \in Nat /\ TTLOf(r.reply.kind) \in Nat
      BY <3>1, TTLs DEF Boxes
    <3> QED
      BY <3>1, <3>2, ShopAssumption DEF Within
  <2> HIDE DEF e
  <2> QED
    BY <2>1, <2>2, ShopAssumption DEF EdgeOK
<1>5. SharedOK'
  <2> HIDE DEF e
  <2>1. \A k \in DOMAIN edge' : edge'[k] = e \/ (k \in DOMAIN edge /\ edge'[k] = edge[k])
    BY <1>2 DEF With
  <2> QED
    BY <1>4, <2>1 DEF ShopInv, SharedOK
<1> QED
  BY <1>2, <1>3, <1>5 DEF ShopInv, CacheOK

\* An entry of either cache goes early.
LEMMA DropOK ==
    ASSUME ShopInv, NEW k \in Queries, Evict(k) \/ PushedOut(k)
    PROVE  ShopInv'
<1>1. CASE Evict(k)
  <2>1. edge' = Without(edge, k) /\ UNCHANGED <<cache, visit>>
    BY <1>1 DEF Evict
  <2>2. \A j \in DOMAIN edge' : j \in DOMAIN edge /\ edge'[j] = edge[j]
    BY <2>1 DEF Without
  <2> QED
    BY <2>1, <2>2 DEF ShopInv, VisitsOK, CacheOK, SharedOK
<1>2. CASE PushedOut(k)
  <2>1. cache' = Without(cache, k) /\ UNCHANGED <<edge, visit>>
    BY <1>2 DEF PushedOut
  <2>2. \A j \in DOMAIN cache' : j \in DOMAIN cache /\ cache'[j] = cache[j]
    BY <2>1 DEF Without
  <2> QED
    BY <2>1, <2>2 DEF ShopInv, VisitsOK, CacheOK, SharedOK
<1> QED
  BY <1>1, <1>2

\* A tick: a visit's clock moves with what it holds, an entry's age with its content,
\* and what the edge has held for EdgeTTL is gone.
LEMMA TickVisit ==
    ASSUME NEW r, VisitOK(r), r.pc # "idle" => r.clock < Latency
    PROVE  AgedVisit(r) \in VisitSet /\ VisitOK(AgedVisit(r))
<1> DEFINE later == IF r.pc = "idle" THEN 0 ELSE r.clock + 1
           since == IF r.task = "call" THEN Older(r.since, EbayTTL) ELSE 0
           s == [r EXCEPT !.clock = later, !.since = since,
                          !.box = Aged(r.box), !.reply = Aged(r.reply)]
<1>1. r \in VisitSet
  BY DEF VisitOK, Running
<1>2. AgedVisit(r) = s
  BY <1>1 DEF AgedVisit, VisitSet
<1>3. Aged(r.box) \in Boxes /\ Aged(r.reply) \in Boxes
  BY <1>1, AgedBox DEF VisitSet
<1>4. later \in Nat /\ later <= Latency
  BY <1>1, ShopAssumption DEF VisitSet
<1>5. since \in Nat
  BY <1>1, ShopAssumption DEF VisitSet, Older
<1>6. r.pc # "idle" => later = r.clock + 1
  OBVIOUS
<1>7. r.pc = "idle" => Aged(r.box) = Blank("off") /\ Aged(r.reply) = Blank("off")
  BY <1>1, AgedBox DEF VisitOK, VisitSet
<1>8. Within(Aged(r.box), later) /\ Within(Aged(r.reply), later)
  <2>1. CASE r.pc = "idle"
    BY <2>1, <1>4, <1>7, BlankWithin
  <2>2. CASE r.pc # "idle"
    <3>1. r.clock \in Nat /\ r.box \in Boxes /\ r.reply \in Boxes
      BY <1>1 DEF VisitSet
    <3>2. Within(r.box, r.clock) /\ Within(r.reply, r.clock)
      BY DEF VisitOK, Running
    <3>3. Within(Aged(r.box), r.clock + 1) /\ Within(Aged(r.reply), r.clock + 1)
      BY <3>1, <3>2, AgedWithin
    <3> QED
      BY <2>2, <3>3
  <2> QED
    BY <2>1, <2>2
<1> HIDE DEF later, since
<1>9. /\ s \in VisitSet /\ s.pc = r.pc /\ s.clock = later
      /\ s.box = Aged(r.box) /\ s.reply = Aged(r.reply)
  BY <1>1, <1>3, <1>4, <1>5 DEF VisitSet
<1> HIDE DEF s
<1>10. VisitOK(s)
  BY <1>4, <1>7, <1>8, <1>9 DEF VisitOK, Running
<1> QED
  BY <1>2, <1>9, <1>10

LEMMA TickEntry ==
    ASSUME NEW e, EntryOK(e), e.at < e.ttl
    PROVE  EntryOK([e EXCEPT !.at = e.at + 1, !.box = Aged(e.box)])
<1> DEFINE s == [e EXCEPT !.at = e.at + 1, !.box = Aged(e.box)]
<1>1. e \in [at : Nat, ttl : Nat, box : Boxes] /\ e.box.age <= e.at /\ e.ttl = TTLOf(e.box.kind)
  BY DEF EntryOK
<1>2. /\ Aged(e.box) \in Boxes /\ Aged(e.box).kind = e.box.kind
      /\ Aged(e.box).age <= e.box.age + 1
  BY <1>1, AgedBox
<1>3. /\ s \in [at : Nat, ttl : Nat, box : Boxes]
      /\ s.at = e.at + 1 /\ s.ttl = e.ttl /\ s.box = Aged(e.box)
  <2>1. e.at + 1 \in Nat
    BY <1>1
  <2> QED
    BY <1>1, <1>2, <2>1
<1>4. e.at \in Nat /\ e.box.age \in Nat /\ Aged(e.box).age \in Nat
  BY <1>1, <1>2 DEF Boxes
<1> HIDE DEF s
<1>5. EntryOK(s)
  BY <1>1, <1>2, <1>3, <1>4 DEF EntryOK
<1> QED
  BY <1>5 DEF s

LEMMA TickEdge ==
    ASSUME NEW e, EdgeOK(e), e.at + 1 < EdgeTTL
    PROVE  EdgeOK([e EXCEPT !.at = e.at + 1, !.box = Aged(e.box)])
<1> DEFINE s == [e EXCEPT !.at = e.at + 1, !.box = Aged(e.box)]
<1>1. e \in [at : Nat, box : Boxes] /\ Within(e.box, Latency + e.at)
  BY DEF EdgeOK
<1>2. Aged(e.box) \in Boxes /\ e.at + 1 \in Nat
  BY <1>1, AgedBox
<1>3. s \in [at : Nat, box : Boxes] /\ s.at = e.at + 1 /\ s.box = Aged(e.box)
  BY <1>1, <1>2
<1>4. Within(Aged(e.box), (Latency + e.at) + 1)
  BY <1>1, AgedWithin, ShopAssumption
<1>5. (Latency + e.at) + 1 = Latency + (e.at + 1)
  BY <1>1, ShopAssumption
<1> HIDE DEF s
<1>6. EdgeOK(s)
  BY <1>1, <1>3, <1>4, <1>5 DEF EdgeOK
<1> QED
  BY <1>6 DEF s

LEMMA TickOK ==
    ASSUME ShopInv, Tick
    PROVE  ShopInv'
<1>1. VisitsOK'
  <2>1. visit' = [v \in Visits |-> AgedVisit(visit[v])]
    BY DEF Tick
  <2>2. \A v \in Visits : AgedVisit(visit[v]) \in VisitSet /\ VisitOK(AgedVisit(visit[v]))
    BY TickVisit DEF ShopInv, VisitsOK, Tick
  <2> QED
    BY <2>1, <2>2 DEF VisitsOK
<1>2. CacheOK'
  <2> SUFFICES ASSUME NEW k \in DOMAIN cache' PROVE EntryOK(cache'[k])
    BY DEF CacheOK
  <2>1. k \in DOMAIN cache /\ EntryOK(cache[k])
    BY DEF Tick, ShopInv, CacheOK
  <2>2. cache'[k] = IF cache[k].at < cache[k].ttl
                    THEN [cache[k] EXCEPT !.at = cache[k].at + 1, !.box = Aged(cache[k].box)]
                    ELSE cache[k]
    BY <2>1 DEF Tick
  <2> QED
    BY <2>1, <2>2, TickEntry
<1>3. SharedOK'
  <2> SUFFICES ASSUME NEW k \in DOMAIN edge' PROVE EdgeOK(edge'[k])
    BY DEF SharedOK
  <2>1. k \in DOMAIN edge /\ EdgeOK(edge[k]) /\ edge[k].at + 1 < EdgeTTL
    BY DEF Tick, ShopInv, SharedOK
  <2>2. edge'[k] = [edge[k] EXCEPT !.at = edge[k].at + 1, !.box = Aged(edge[k].box)]
    BY <2>1 DEF Tick
  <2> QED
    BY <2>1, <2>2, TickEdge
<1> QED
  BY <1>1, <1>2, <1>3 DEF ShopInv

LEMMA ShopStep == ShopInv /\ [Next]_vars => ShopInv'
<1> SUFFICES ASSUME ShopInv, [Next]_vars PROVE ShopInv'
  OBVIOUS
<1>1. CASE Tick
  BY <1>1, TickOK
<1>2. ASSUME NEW k \in Queries, Evict(k) \/ PushedOut(k) PROVE ShopInv'
  BY <1>2, DropOK
<1>3. ASSUME NEW v \in Visits, Step(v) PROVE ShopInv'
  BY <1>3, LookUpOK, CollectOK, PutOK DEF Step
<1>4. ASSUME NEW v \in Visits, Refused(v) PROVE ShopInv'
  BY <1>4, EndOK DEF Refused, ShopInv, CacheOK, SharedOK
<1>5. ASSUME NEW v \in Visits, CallEnds(v, "rows") \/ CallEnds(v, "failed") \/ CallEnds(v, "refused")
      PROVE  ShopInv'
  BY <1>5, CallEndsOK
<1>6. ASSUME NEW v \in Visits, NEW k \in Queries, Proxy(v, k, TRUE) \/ Proxy(v, k, FALSE)
      PROVE  ShopInv'
  BY <1>6, ProxyOK
<1>7. CASE UNCHANGED vars
  BY <1>7 DEF vars, ShopInv, VisitsOK, CacheOK, SharedOK
<1> QED
  BY <1>1, <1>2, <1>3, <1>4, <1>5, <1>6, <1>7 DEF Next

\* eBay's listings are never shown older than the two caches and one search may make
\* them: ebay_box with its late answers, box.result's deadline and the edge's put,
\* for any number of visits and queries and any lifetimes.
THEOREM ListingsShownInTime == Spec => []ShownInTime
<1>1. ShopInv => ShownInTime
  <2> SUFFICES ASSUME ShopInv,
                      NEW b \in ShownBoxes
               PROVE  /\ b.age < OldestRows - 1
                      /\ b.kind = "failed" => b.age < OldestBlank - 1
    BY DEF ShownInTime
  <2>1. PICK n \in Nat : b \in Boxes /\ Within(b, n) /\ n <= Latency + EdgeTTL - 1
    <3>1. ASSUME NEW k \in DOMAIN edge, b = edge[k].box
          PROVE  \E n \in Nat : b \in Boxes /\ Within(b, n) /\ n <= Latency + EdgeTTL - 1
      <4>1. /\ b \in Boxes /\ edge[k].at \in Nat /\ edge[k].at < EdgeTTL
            /\ Within(b, Latency + edge[k].at)
        BY <3>1 DEF ShopInv, SharedOK, EdgeOK
      <4>2. Latency + edge[k].at \in Nat /\ Latency + edge[k].at <= Latency + EdgeTTL - 1
        BY <4>1, ShopAssumption
      <4> QED
        BY <4>1, <4>2
    <3>2. ASSUME NEW v \in Visits, b = visit[v].reply
          PROVE  \E n \in Nat : b \in Boxes /\ Within(b, n) /\ n <= Latency + EdgeTTL - 1
      <4>1. b \in Boxes /\ Within(b, visit[v].clock) /\ visit[v].clock \in Nat
            /\ visit[v].clock <= Latency
        BY <3>2 DEF ShopInv, VisitsOK, VisitOK, Running, VisitSet
      <4>2. visit[v].clock <= Latency + EdgeTTL - 1
        BY <4>1, ShopAssumption
      <4> QED
        BY <4>1, <4>2
    <3> QED
      BY <3>1, <3>2 DEF ShownBoxes
  <2>2. b.age \in Nat /\ TTLOf(b.kind) \in Nat /\ TTLOf(b.kind) <= EbayTTL
        /\ (b.kind = "failed" => TTLOf(b.kind) = FailTTL)
    BY <2>1, TTLs DEF Boxes, TTLOf
  <2> QED
    BY <2>1, <2>2, ShopAssumption DEF Within, OldestRows, OldestBlank
<1> QED
  BY <1>1, ShopInitInv, ShopStep, PTL DEF Spec

=============================================================================
