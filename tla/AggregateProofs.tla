-------------------------- MODULE AggregateProofs --------------------------
(***************************************************************************)
(* The tiered search, for any number of concurrent searches, sources, tiers *)
(* and offers.  What a search has put into its lists is what the calls it   *)
(* has collected returned (BooksOK), the tiers were asked from the bottom   *)
(* (OrderOK), and a source it may still call was off the bench when it      *)
(* looked (BenchOK).                                                        *)
(***************************************************************************)
EXTENDS Aggregate, FiniteSetTheorems, FunctionTheorems, WellFoundedInduction, TLAPS

\* A non-empty set of numbers has a least one.
LEMMA Least ==
    ASSUME NEW T \in SUBSET Nat, T # {}
    PROVE  \E x \in T : \A y \in T : x <= y
<1> DEFINE R == OpToRel(<, Nat)
<1>1. IsWellFoundedOn(R, Nat)
  BY NatLessThanWellFounded, Zenon
<1>2. PICK x \in T : \A y \in T : ~(<<y, x>> \in R)
  <2> HIDE DEF R
  <2> QED BY <1>1, WFMin
<1>3. \A y \in T : ~(y < x)
  BY <1>2 DEF OpToRel
<1> QED BY <1>3

\* The loops: the first of a non-empty set of sources is one of them.
LEMMA FirstIsIn ==
    ASSUME NEW S \in SUBSET Sources, S # {}
    PROVE  First(S) \in S
<1>1. \A s \in Sources : Index(s) \in 1..Len(Order)
  BY DEF Sources, Index
<1>2. Len(Order) \in Nat
  BY AggregateAssumption
<1>3. {Index(s) : s \in S} \in SUBSET Nat /\ {Index(s) : s \in S} # {}
  BY <1>1, <1>2
<1>4. PICK n \in {Index(s) : s \in S} : \A m \in {Index(s) : s \in S} : n <= m
  BY <1>3, Least
<1>5. \E s \in S : \A r \in S : Index(s) <= Index(r)
  BY <1>4
<1> QED BY <1>5 DEF First

-----------------------------------------------------------------------------
(* The answer                                                              *)

LEMMA SourcesFinite == IsFiniteSet(Sources)
<1>1. Len(Order) \in Nat
  BY AggregateAssumption
<1>2. IsFiniteSet(1..Len(Order))
  BY <1>1, FS_Interval
<1> DEFINE f == [n \in 1..Len(Order) |-> Order[n]]
<1>3. f \in Surjection(1..Len(Order), Sources)
  BY DEF Surjection, Sources
<1> QED BY <1>2, <1>3, FS_Surjection

LEMMA StockFinite ==
    ASSUME NEW S \in SUBSET Sources
    PROVE  IsFiniteSet(UNION {Stock[s] : s \in S})
<1> DEFINE f == [s \in S |-> Stock[s]]
           T == {Stock[s] : s \in S}
<1>1. IsFiniteSet(S)
  BY SourcesFinite, FS_Subset
<1>2. f \in Surjection(S, T)
  BY DEF Surjection
<1>3. IsFiniteSet(T)
  BY <1>1, <1>2, FS_Surjection
<1>4. \A t \in T : IsFiniteSet(t)
  BY AggregateAssumption
<1> HIDE DEF T
<1>5. IsFiniteSet(UNION T)
  BY <1>3, <1>4, FS_UNION
<1> QED BY <1>5 DEF T

LEMMA KeysFinite ==
    ASSUME NEW offers, IsFiniteSet(offers)
    PROVE  IsFiniteSet(Keys(offers)) /\ Cardinality(Keys(offers)) \in Nat
<1> DEFINE f == [o \in offers |-> o.key]
<1>1. f \in Surjection(offers, Keys(offers))
  BY DEF Surjection, Keys
<1> QED BY <1>1, FS_Surjection, FS_CardinalityType

\* Fewer offers have no more keys.
LEMMA KeysMonotone ==
    ASSUME NEW offers, IsFiniteSet(offers), NEW some \in SUBSET offers
    PROVE  Cardinality(Keys(some)) <= Cardinality(Keys(offers))
<1>1. Keys(some) \in SUBSET Keys(offers)
  BY DEF Keys
<1> QED BY <1>1, KeysFinite, FS_Subset

\* The dedup by key, then by product, then the cut: one offer of each product up to the
\* limit, and none that another offer of its product undercuts.
LEMMA AnswerIsCheapest ==
    ASSUME NEW offers, IsFiniteSet(offers), \A o \in offers : o.price \in Nat,
           NEW top \in Answers(offers)
    PROVE  LET groups == {Group[k] : k \in Keys(offers)} IN
           /\ top \subseteq offers
           /\ \A r \in top, o \in offers : Group[o.key] = Group[r.key] => r.price <= o.price
           /\ Cardinality(top) = IF Cardinality(groups) < MaxResults
                                 THEN Cardinality(groups) ELSE MaxResults
<1> DEFINE groups == {Group[k] : k \in Keys(offers)}
<1>0. PICK best \in CheapestPerKey(offers) :
        \E items \in CheapestPerGroup(best) : top \in Ranked(items)
  BY DEF Answers
<1>1. PICK items \in CheapestPerGroup(best) : top \in Ranked(items)
  BY <1>0
<1>2. best \subseteq offers /\ items \subseteq best /\ top \subseteq items
  BY <1>0, <1>1 DEF CheapestPerKey, CheapestPerGroup, Ranked
<1>3. \A r \in top, o \in offers : Group[o.key] = Group[r.key] => r.price <= o.price
  <2> SUFFICES ASSUME NEW r \in top, NEW o \in offers, Group[o.key] = Group[r.key]
               PROVE  r.price <= o.price
    OBVIOUS
  <2>1. PICK b \in best : b.key = o.key
    BY <1>0, <1>1 DEF CheapestPerKey, Keys
  <2>2. b.price <= o.price
    BY <1>0, <1>1, <2>1 DEF CheapestPerKey
  <2>3. r.price <= b.price
    BY <1>0, <1>1, <1>2, <2>1 DEF CheapestPerGroup
  <2>4. r.price \in Nat /\ b.price \in Nat /\ o.price \in Nat
    BY <1>2
  <2> QED BY <2>2, <2>3, <2>4
<1>4. {Group[k] : k \in Keys(items)} = groups
  BY <1>0, <1>1 DEF CheapestPerGroup, CheapestPerKey
<1>5. Cardinality(items) = Cardinality(groups)
  <2> DEFINE f == [o \in items |-> Group[o.key]]
  <2>1. \A o \in items : o.key \in Keys(items)
    BY DEF Keys
  <2>2. f \in [items -> groups]
    BY <1>4, <2>1
  <2>3. \A g \in groups : \E o \in items : f[o] = g
    BY <1>4 DEF Keys
  <2>4. \A o, b \in items : f[o] = f[b] => o = b
    BY <1>0, <1>1 DEF CheapestPerGroup
  <2> HIDE DEF f, groups
  <2>5. f \in Injection(items, groups) /\ f \in Surjection(items, groups)
    BY <2>2, <2>3, <2>4 DEF Injection, Surjection, IsInjective
  <2>6. IsFiniteSet(items)
    BY <1>2, FS_Subset
  <2> QED BY <2>5, <2>6, FS_Surjection
<1>6. Cardinality(top) = IF Cardinality(items) < MaxResults THEN Cardinality(items) ELSE MaxResults
  BY <1>0, <1>1 DEF Ranked
<1> QED BY <1>2, <1>3, <1>5, <1>6

-----------------------------------------------------------------------------
(* The inductive invariant                                                 *)

AggregateTyped ==
    /\ left \in [Sources -> Nat]
    /\ pc \in [Searches -> {"idle", "scan", "wait", "collect", "done"}]
    /\ queue \in [Searches -> SUBSET Sources] /\ benched \in [Searches -> SUBSET Sources]
    /\ batch \in [Searches -> SUBSET Sources] /\ since \in [Searches -> SUBSET Sources]
    /\ call \in [Searches -> [Sources -> {"no", "running", "late", "found", "empty", "error"}]]
    /\ DOMAIN timer = Searches /\ DOMAIN timed_out = Searches /\ DOMAIN results = Searches
    /\ throttled \in [Searches -> SUBSET Sources] /\ live \in [Searches -> SUBSET Sources]
    /\ DOMAIN products = Searches

\* The calls whose outcome the search has still to look at.
Pending(i) == IF pc[i] = "wait" THEN batch[i] ELSE IF pc[i] = "collect" THEN queue[i] ELSE {}

\* live, throttled and products hold what the collected calls returned.
BooksOK(i) ==
    /\ live[i] = {s \in Sources : call[i][s] = "found"} \ Pending(i)
    /\ throttled[i] = {s \in Sources : call[i][s] \in {"late", "error"}} \ Pending(i)
    /\ products[i] = UNION {Stock[s] : s \in live[i]}
    /\ \A s \in Sources : /\ call[i][s] = "found" => Stock[s] # {}
                          /\ call[i][s] = "running" => pc[i] = "wait" /\ s \in batch[i]
                          /\ pc[i] \in {"idle", "scan"} => call[i][s] = "no"
    /\ pc[i] \in {"wait", "collect"} => batch[i] \subseteq Asked(i)
    /\ pc[i] = "collect" => queue[i] \subseteq batch[i]

\* What the real sources below the tier of s have delivered.
Below(i, s) == UNION {Stock[r] : r \in {r \in live[i] \ Fallback : Tier[r] < Tier[s]}}

\* Tiers are asked from the bottom, the fallback after all of them.
OrderOK(i) ==
    /\ \A s \in Asked(i) \ Fallback :
        /\ \A r \in Real(i) : call[i][r] = "no" => Tier[s] < Tier[r]
        /\ pc[i] \in {"wait", "collect"} => \A b \in batch[i] \ Fallback : Tier[s] <= Tier[b]
        /\ Cardinality(Keys(Below(i, s))) < Target
    /\ Asked(i) \cap Fallback # {} =>
        /\ \A r \in Real(i) : call[i][r] # "no"
        /\ live[i] \subseteq Fallback
        /\ pc[i] \in {"wait", "collect"} => batch[i] \subseteq Fallback
    /\ pc[i] = "done" =>
        /\ (\A r \in Real(i) : call[i][r] # "no") \/ Enough(i)
        /\ results[i] \in Answers(products[i])

\* A source the search may still call was off the bench when it looked.
BenchOK(i) ==
    pc[i] \in {"scan", "wait", "collect"} =>
        \A s \in Sources \ benched[i] :
            left[s] > 0 /\ ~(pc[i] = "scan" /\ s \in queue[i]) => s \in since[i]

AggregateInv ==
    AggregateTyped /\ \A i \in Searches : BooksOK(i) /\ OrderOK(i) /\ BenchOK(i)

LEMMA AggregateInitInv == Init => AggregateInv
<1> SUFFICES ASSUME Init PROVE AggregateInv
  OBVIOUS
<1>1. AggregateTyped
  BY DEF Init, AggregateTyped
<1>2. ASSUME NEW i \in Searches PROVE BooksOK(i) /\ OrderOK(i) /\ BenchOK(i)
  <2>1. /\ pc[i] = "idle" /\ live[i] = {} /\ throttled[i] = {} /\ products[i] = {}
        /\ \A s \in Sources : call[i][s] = "no"
    BY DEF Init
  <2>2. Asked(i) = {}
    BY <2>1 DEF Asked
  <2>3. BooksOK(i)
    BY <2>1 DEF BooksOK, Pending
  <2> QED BY <2>1, <2>2, <2>3 DEF OrderOK, BenchOK
<1> QED BY <1>1, <1>2 DEF AggregateInv

\* The search j takes no part in a step.
Same(j) ==
    /\ pc'[j] = pc[j] /\ queue'[j] = queue[j] /\ benched'[j] = benched[j]
    /\ batch'[j] = batch[j] /\ call'[j] = call[j] /\ throttled'[j] = throttled[j]
    /\ live'[j] = live[j] /\ products'[j] = products[j] /\ results'[j] = results[j]

LEMMA SameKeeps ==
    ASSUME NEW j \in Searches, BooksOK(j), OrderOK(j), Same(j)
    PROVE  BooksOK(j)' /\ OrderOK(j)'
<1>1. BooksOK(j)'
  BY DEF BooksOK, Same, Pending, Asked
<1>2. OrderOK(j)'
  BY DEF OrderOK, Same, Asked, Real, Below, Enough
<1> QED BY <1>1, <1>2

LEMMA SameBench ==
    ASSUME NEW j \in Searches, BenchOK(j), Same(j), UNCHANGED left, since'[j] = since[j]
    PROVE  BenchOK(j)'
BY DEF BenchOK, Same

LEMMA StartKeeps ==
    ASSUME AggregateInv, NEW i \in Searches, Start(i)
    PROVE  AggregateInv'
<1>1. AggregateTyped'
  BY DEF AggregateInv, AggregateTyped, Start
<1>2. /\ pc'[i] = "scan" /\ queue'[i] = Sources /\ live'[i] = {} /\ throttled'[i] = {}
      /\ products'[i] = {} /\ \A s \in Sources : call'[i][s] = "no"
  BY DEF AggregateInv, AggregateTyped, Start
<1>3. BooksOK(i)' /\ OrderOK(i)' /\ BenchOK(i)'
  <2>1. Asked(i)' = {}
    BY <1>2 DEF Asked
  <2>2. BooksOK(i)'
    BY <1>2 DEF BooksOK, Pending
  <2> QED BY <1>2, <2>1, <2>2 DEF OrderOK, BenchOK
<1>4. ASSUME NEW j \in Searches \ {i} PROVE BooksOK(j)' /\ OrderOK(j)' /\ BenchOK(j)'
  <2>1. Same(j) /\ since'[j] = since[j] /\ UNCHANGED left
    BY DEF AggregateInv, AggregateTyped, Start, Same
  <2> QED BY <2>1, SameKeeps, SameBench DEF AggregateInv
<1> QED BY <1>1, <1>3, <1>4 DEF AggregateInv

LEMMA ScanKeeps ==
    ASSUME AggregateInv, NEW i \in Searches, Scan(i)
    PROVE  AggregateInv'
<1> DEFINE s == First(queue[i])
<1>1. s \in queue[i] /\ s \in Sources /\ pc[i] = "scan"
  BY FirstIsIn DEF AggregateInv, AggregateTyped, Scan
<1>2. /\ queue'[i] = queue[i] \ {s}
      /\ benched'[i] = IF left[s] > 0 THEN benched[i] \cup {s} ELSE benched[i]
      /\ UNCHANGED <<left, pc, batch, call, timer, throttled, timed_out, live, products, results, since>>
  BY DEF AggregateInv, AggregateTyped, Scan
<1> HIDE DEF s
<1>3. AggregateTyped'
  BY <1>1, <1>2 DEF AggregateInv, AggregateTyped, Scan, s
<1>4. BooksOK(i)'
  BY <1>1, <1>2 DEF AggregateInv, BooksOK, Pending, Asked
<1>5. Asked(i)' = {}
  BY <1>1, <1>2 DEF AggregateInv, BooksOK, Asked
<1>6. OrderOK(i)'
  BY <1>1, <1>2, <1>5 DEF OrderOK
<1>7. BenchOK(i)'
  BY <1>1, <1>2 DEF AggregateInv, BenchOK
<1>8. ASSUME NEW j \in Searches \ {i} PROVE BooksOK(j)' /\ OrderOK(j)' /\ BenchOK(j)'
  <2>1. Same(j) /\ since'[j] = since[j] /\ UNCHANGED left
    BY DEF AggregateInv, AggregateTyped, Scan, Same
  <2> QED BY <2>1, SameKeeps, SameBench DEF AggregateInv
<1> QED BY <1>3, <1>4, <1>6, <1>7, <1>8 DEF AggregateInv

\* run(batch) of sources that were not asked before: all but the order of the tiers.
LEMMA RunKeeps ==
    ASSUME AggregateInv, NEW i \in Searches, Between(i), NEW next \in SUBSET Sources,
           next \cap benched[i] = {}, \A s \in next : call[i][s] = "no", Run(i, next)
    PROVE  /\ AggregateTyped' /\ BooksOK(i)' /\ BenchOK(i)' /\ (OrderOK(i)' => AggregateInv')
           /\ Asked(i)' = Asked(i) \cup next /\ Real(i)' = Real(i) /\ live'[i] = live[i]
           /\ pc'[i] = "wait" /\ batch'[i] = next
           /\ \A s \in Sources : call'[i][s] = "no" <=> call[i][s] = "no" /\ s \notin next
<1>1. AggregateTyped'
  BY DEF AggregateInv, AggregateTyped, Run
<1>2. /\ pc'[i] = "wait" /\ batch'[i] = next
      /\ call'[i] = [s \in Sources |-> IF s \in next THEN "running" ELSE call[i][s]]
      /\ UNCHANGED <<left, queue, benched, throttled, timed_out, live, products, results, since>>
  BY DEF AggregateInv, AggregateTyped, Run
<1>3. pc[i] \in {"scan", "collect"} /\ queue[i] = {}
  BY DEF Between
<1>4. Pending(i) = {}
  BY <1>3 DEF Pending
<1>5. Asked(i)' = Asked(i) \cup next /\ Real(i)' = Real(i)
  BY <1>2 DEF Asked, Real
<1>6. BooksOK(i)'
  <2>1. Pending(i)' = next
    BY <1>2 DEF Pending
  <2>2. live'[i] = {s \in Sources : call'[i][s] = "found"} \ next
    BY <1>2, <1>4 DEF AggregateInv, BooksOK
  <2>3. throttled'[i] = {s \in Sources : call'[i][s] \in {"late", "error"}} \ next
    BY <1>2, <1>4 DEF AggregateInv, BooksOK
  <2>4. \A s \in Sources : /\ call'[i][s] = "found" => Stock[s] # {}
                           /\ call'[i][s] = "running" => s \in next
    BY <1>2, <1>3 DEF AggregateInv, BooksOK
  <2>5. products'[i] = UNION {Stock[s] : s \in live'[i]}
    BY <1>2 DEF AggregateInv, BooksOK
  <2> QED BY <1>2, <1>5, <2>1, <2>2, <2>3, <2>4, <2>5 DEF BooksOK
<1>7. BenchOK(i)'
  BY <1>2, <1>3 DEF AggregateInv, BenchOK
<1>8. ASSUME NEW j \in Searches \ {i} PROVE BooksOK(j)' /\ OrderOK(j)' /\ BenchOK(j)'
  <2>1. Same(j) /\ since'[j] = since[j] /\ UNCHANGED left
    BY DEF AggregateInv, AggregateTyped, Run, Same
  <2> QED BY <2>1, SameKeeps, SameBench DEF AggregateInv
<1>9. OrderOK(i)' => AggregateInv'
  BY <1>1, <1>6, <1>7, <1>8 DEF AggregateInv
<1>10. \A s \in Sources : call'[i][s] = "no" <=> call[i][s] = "no" /\ s \notin next
  BY <1>2
<1> QED BY <1>1, <1>2, <1>5, <1>6, <1>7, <1>9, <1>10

\* The offers of a search are finitely many.
LEMMA ProductsFinite ==
    ASSUME AggregateInv, NEW i \in Searches
    PROVE  IsFiniteSet(products[i])
<1>1. products[i] = UNION {Stock[s] : s \in live[i]}
  BY DEF AggregateInv, BooksOK
<1>2. live[i] \in SUBSET Sources
  BY DEF AggregateInv, AggregateTyped
<1> QED BY <1>1, <1>2, StockFinite

\* The next tier is the lowest one with a source that was not asked.
LEMMA NextTierIs ==
    ASSUME AggregateInv, NEW i \in Searches, TiersLeft(i) # {}
    PROVE  /\ NextTier(i) \subseteq Real(i)
           /\ \A s \in NextTier(i), r \in Asked(i) \ Fallback : Tier[r] < Tier[s]
           /\ \A s \in NextTier(i), r \in NextTier(i) : Tier[s] = Tier[r]
           /\ \A s \in NextTier(i), r \in Real(i) \ NextTier(i) :
                 (\A q \in Asked(i) \ Fallback : Tier[q] < Tier[r]) => Tier[s] < Tier[r]
<1>1. \A s \in Sources : Tier[s] \in Nat
  BY AggregateAssumption
<1>2. Tiers \in SUBSET Nat /\ TiersLeft(i) \in SUBSET Nat
  BY <1>1 DEF Tiers, TiersLeft
<1>3. \E t \in TiersLeft(i) : \A u \in TiersLeft(i) : t <= u
  BY <1>2, Least
<1> DEFINE low == CHOOSE t \in TiersLeft(i) : \A u \in TiersLeft(i) : t <= u
<1>4. low \in TiersLeft(i) /\ \A u \in TiersLeft(i) : low <= u
  BY <1>3
<1>5. NextTier(i) = {s \in Real(i) : Tier[s] = low}
  BY DEF NextTier
<1> HIDE DEF low
<1>6. Real(i) \subseteq Sources
  BY DEF Real
<1>7. \A r \in Asked(i) \ Fallback : Tier[r] < low
  BY <1>4 DEF TiersLeft
<1>8. ASSUME NEW r \in Real(i), Tier[r] # low, \A q \in Asked(i) \ Fallback : Tier[q] < Tier[r]
      PROVE  low < Tier[r]
  <2>1. Tier[r] \in TiersLeft(i)
    BY <1>6, <1>8 DEF TiersLeft, Tiers
  <2> QED BY <1>1, <1>2, <1>4, <1>6, <1>8, <2>1
<1> QED BY <1>5, <1>7, <1>8

LEMMA EscalateKeeps ==
    ASSUME AggregateInv, NEW i \in Searches, Escalate(i)
    PROVE  AggregateInv'
<1> DEFINE next == NextTier(i)
<1>1. TiersLeft(i) # {} /\ ~Enough(i) /\ Between(i) /\ Run(i, next)
  BY DEF Escalate, Escalates
<1>2. /\ next \subseteq Real(i)
      /\ \A s \in next, r \in Asked(i) \ Fallback : Tier[r] < Tier[s]
      /\ \A s \in next, r \in next : Tier[s] = Tier[r]
      /\ \A s \in next, r \in Real(i) \ next :
            (\A q \in Asked(i) \ Fallback : Tier[q] < Tier[r]) => Tier[s] < Tier[r]
  BY <1>1, NextTierIs
<1> HIDE DEF next
<1>3. Real(i) \subseteq Sources /\ Real(i) \cap benched[i] = {} /\ Real(i) \cap Fallback = {}
  BY DEF Real
<1>4. \A s \in Sources : Tier[s] \in Nat
  BY AggregateAssumption
<1>5. \A s \in next : call[i][s] = "no"
  BY <1>2, <1>3, <1>4 DEF Asked
<1>6. OrderOK(i)
  BY DEF AggregateInv
<1>7. Asked(i) \cap Fallback = {}
  <2>1. PICK s \in Real(i) : \A r \in Asked(i) \ Fallback : Tier[r] < Tier[s]
    BY <1>1 DEF TiersLeft
  <2>2. s \notin Asked(i)
    BY <1>3, <1>4, <2>1
  <2> QED BY <1>3, <1>6, <2>2 DEF OrderOK, Asked
<1>8. /\ OrderOK(i)' => AggregateInv'
      /\ Asked(i)' = Asked(i) \cup next /\ Real(i)' = Real(i) /\ live'[i] = live[i]
      /\ pc'[i] = "wait" /\ batch'[i] = next
      /\ \A s \in Sources : call'[i][s] = "no" <=> call[i][s] = "no" /\ s \notin next
  BY <1>1, <1>2, <1>3, <1>5, RunKeeps
<1>9. \A s : Below(i, s)' = Below(i, s)
  BY <1>8 DEF Below
<1>10. ASSUME NEW s \in next PROVE Cardinality(Keys(Below(i, s))) < Target
  <2>1. IsFiniteSet(products[i])
    BY ProductsFinite
  <2>2. Below(i, s) \subseteq products[i]
    BY DEF Below, AggregateInv, BooksOK
  <2>3. IsFiniteSet(Below(i, s))
    BY <2>1, <2>2, FS_Subset
  <2>4. Cardinality(Keys(Below(i, s))) <= Cardinality(Keys(products[i]))
    BY <2>1, <2>2, KeysMonotone
  <2>5. Cardinality(Keys(Below(i, s))) \in Nat /\ Cardinality(Keys(products[i])) \in Nat
    BY <2>1, <2>3, KeysFinite
  <2> QED BY <1>1, <2>4, <2>5, AggregateAssumption DEF Enough
<1>11. ASSUME NEW s \in Asked(i)' \ Fallback
       PROVE  /\ \A r \in Real(i)' : call'[i][r] = "no" => Tier[s] < Tier[r]
              /\ \A b \in batch'[i] \ Fallback : Tier[s] <= Tier[b]
              /\ Cardinality(Keys(Below(i, s)')) < Target
  <2>1. CASE s \in Asked(i)
    <3>1. \A r \in Real(i)' : call'[i][r] = "no" => Tier[s] < Tier[r]
      BY <1>3, <1>6, <1>8, <1>11, <2>1 DEF OrderOK
    <3>2. \A b \in batch'[i] \ Fallback : Tier[s] <= Tier[b]
      <4>1. s \in Sources
        BY <2>1 DEF Asked
      <4> QED BY <1>2, <1>3, <1>4, <1>8, <1>11, <2>1, <4>1
    <3> QED BY <1>6, <1>9, <1>11, <2>1, <3>1, <3>2 DEF OrderOK
  <2>2. CASE s \in next
    <3>1. \A r \in Real(i)' : call'[i][r] = "no" => Tier[s] < Tier[r]
      BY <1>2, <1>3, <1>6, <1>8, <2>2 DEF OrderOK
    <3>2. \A b \in batch'[i] \ Fallback : Tier[s] <= Tier[b]
      BY <1>2, <1>3, <1>4, <1>8, <2>2
    <3> QED BY <1>9, <1>10, <2>2, <3>1, <3>2
  <2> QED BY <1>8, <1>11, <2>1, <2>2
<1>12. Asked(i)' \cap Fallback = {}
  BY <1>2, <1>3, <1>7, <1>8
<1>13. OrderOK(i)'
  BY <1>8, <1>11, <1>12 DEF OrderOK
<1> QED BY <1>8, <1>13

LEMMA FallBackKeeps ==
    ASSUME AggregateInv, NEW i \in Searches, FallBack(i)
    PROVE  AggregateInv'
<1> DEFINE next == FallbackBatch(i)
<1>1. /\ Between(i) /\ Run(i, next) /\ products[i] = {} /\ Asked(i) \cap Fallback = {}
      /\ ~Escalates(i)
  BY DEF FallBack, FallsBack
<1>2. next \subseteq Sources /\ next \cap benched[i] = {} /\ next \subseteq Fallback
  BY DEF FallbackBatch
<1> HIDE DEF next
<1>3. \A s \in next : call[i][s] = "no"
  BY <1>1, <1>2 DEF Asked
<1>4. OrderOK(i) /\ BooksOK(i)
  BY DEF AggregateInv
<1>5. live[i] = {}
  <2>1. \A s \in live[i] : Stock[s] # {}
    BY <1>4 DEF BooksOK
  <2> QED BY <1>1, <1>4, <2>1 DEF BooksOK
<1>6. /\ OrderOK(i)' => AggregateInv'
      /\ Asked(i)' = Asked(i) \cup next /\ Real(i)' = Real(i) /\ live'[i] = live[i]
      /\ pc'[i] = "wait" /\ batch'[i] = next
      /\ \A s \in Sources : call'[i][s] = "no" <=> call[i][s] = "no" /\ s \notin next
  BY <1>1, <1>2, <1>3, RunKeeps
<1>7. \A r \in Real(i) : call[i][r] # "no"
  <2>1. ~Enough(i)
    <3>1. Keys(products[i]) = {}
      BY <1>1 DEF Keys
    <3> QED BY <3>1, FS_EmptySet, AggregateAssumption DEF Enough
  <2>2. TiersLeft(i) = {}
    BY <1>1, <2>1 DEF Escalates
  <2>3. ASSUME NEW r \in Real(i), call[i][r] = "no" PROVE FALSE
    <3>1. r \in Sources
      BY DEF Real
    <3>2. \A q \in Asked(i) \ Fallback : Tier[q] < Tier[r]
      BY <1>4, <2>3 DEF OrderOK
    <3>3. Tier[r] \in TiersLeft(i)
      BY <3>1, <3>2 DEF TiersLeft, Tiers
    <3> QED BY <2>2, <3>3
  <2> QED BY <2>3
<1>8. \A s : Below(i, s)' = Below(i, s)
  BY <1>6 DEF Below
<1>9. Real(i) \subseteq Sources
  BY DEF Real
<1>10. OrderOK(i)'
  <2>1. \A s \in Asked(i)' \ Fallback :
            /\ \A r \in Real(i)' : call'[i][r] = "no" => Tier[s] < Tier[r]
            /\ \A b \in batch'[i] \ Fallback : Tier[s] <= Tier[b]
            /\ Cardinality(Keys(Below(i, s)')) < Target
    BY <1>2, <1>4, <1>6, <1>7, <1>8, <1>9 DEF OrderOK
  <2> QED BY <1>2, <1>5, <1>6, <1>7, <1>9, <2>1 DEF OrderOK
<1> QED BY <1>6, <1>10

LEMMA FinishKeeps ==
    ASSUME AggregateInv, NEW i \in Searches, Finish(i)
    PROVE  AggregateInv'
<1>1. /\ pc'[i] = "done" /\ results'[i] \in Answers(products[i])
      /\ UNCHANGED <<left, queue, benched, batch, call, timer, throttled, timed_out, live, products, since>>
  BY DEF AggregateInv, AggregateTyped, Finish
<1>2. AggregateTyped'
  BY DEF AggregateInv, AggregateTyped, Finish
<1>3. BooksOK(i) /\ OrderOK(i) /\ pc[i] \in {"scan", "collect"} /\ queue[i] = {}
  BY DEF AggregateInv, Finish, Between
<1>4. BooksOK(i)'
  BY <1>1, <1>3 DEF BooksOK, Pending, Asked
<1>5. (\A r \in Real(i) : call[i][r] # "no") \/ Enough(i)
  <2> SUFFICES ASSUME ~Enough(i), NEW r \in Real(i), call[i][r] = "no" PROVE FALSE
    OBVIOUS
  <2>1. TiersLeft(i) = {}
    BY DEF Finish, Escalates
  <2>2. r \in Sources
    BY DEF Real
  <2>3. \A q \in Asked(i) \ Fallback : Tier[q] < Tier[r]
    BY <1>3 DEF OrderOK
  <2>4. Tier[r] \in TiersLeft(i)
    BY <2>2, <2>3 DEF TiersLeft, Tiers
  <2> QED BY <2>1, <2>4
<1>6. OrderOK(i)'
  <2>1. /\ Asked(i)' = Asked(i) /\ Real(i)' = Real(i) /\ Enough(i)' = Enough(i)
        /\ \A s : Below(i, s)' = Below(i, s)
    BY <1>1 DEF Asked, Real, Enough, Below
  <2> QED BY <1>1, <1>3, <1>5, <2>1 DEF OrderOK
<1>7. BenchOK(i)'
  BY <1>1 DEF BenchOK
<1>8. ASSUME NEW j \in Searches \ {i} PROVE BooksOK(j)' /\ OrderOK(j)' /\ BenchOK(j)'
  <2>1. Same(j) /\ since'[j] = since[j] /\ UNCHANGED left
    BY DEF AggregateInv, AggregateTyped, Finish, Same
  <2> QED BY <2>1, SameKeeps, SameBench DEF AggregateInv
<1> QED BY <1>2, <1>4, <1>6, <1>7, <1>8 DEF AggregateInv

\* A step that changes the state of calls that were running, of the batch, and the
\* place of the search, but asks nobody.
LEMMA CallsKeep ==
    ASSUME AggregateInv, NEW i \in Searches, pc[i] = "wait", pc'[i] \in {"wait", "collect"},
           \A s \in Sources : call'[i][s] # call[i][s] =>
               call[i][s] = "running" /\ call'[i][s] # "no",
           \A s \in Sources : call'[i][s] = "running" => pc'[i] = "wait",
           \A s \in Sources : call'[i][s] = "found" => Stock[s] # {},
           pc'[i] = "collect" => queue'[i] = batch[i],
           UNCHANGED <<left, benched, batch, throttled, live, products, results, since>>
    PROVE  BooksOK(i)' /\ OrderOK(i)' /\ BenchOK(i)'
<1>1. BooksOK(i) /\ OrderOK(i) /\ BenchOK(i)
  BY DEF AggregateInv
<1>2. Pending(i) = batch[i] /\ Pending(i)' = batch[i]
  BY DEF Pending
<1>3. /\ Asked(i)' = Asked(i) /\ Real(i)' = Real(i) /\ Enough(i)' = Enough(i)
      /\ \A s : Below(i, s)' = Below(i, s)
  BY DEF Asked, Real, Enough, Below
<1>4. \A s \in Sources : call[i][s] = "running" => s \in batch[i]
  BY <1>1 DEF BooksOK
<1>5. BooksOK(i)'
  <2>1. live'[i] = {s \in Sources : call'[i][s] = "found"} \ Pending(i)'
    BY <1>1, <1>2, <1>4 DEF BooksOK
  <2>2. throttled'[i] = {s \in Sources : call'[i][s] \in {"late", "error"}} \ Pending(i)'
    BY <1>1, <1>2, <1>4 DEF BooksOK
  <2>3. products'[i] = UNION {Stock[s] : s \in live'[i]}
    BY <1>1 DEF BooksOK
  <2>4. \A s \in Sources : call'[i][s] = "running" => pc'[i] = "wait" /\ s \in batch'[i]
    BY <1>4
  <2>5. batch'[i] \subseteq Asked(i)'
    BY <1>1, <1>3 DEF BooksOK
  <2> QED BY <2>1, <2>2, <2>3, <2>4, <2>5 DEF BooksOK
<1>6. OrderOK(i)'
  <2>1. \A r \in Real(i) : call'[i][r] = "no" => call[i][r] = "no"
    BY DEF Real
  <2>2. \A r \in Real(i) : call[i][r] # "no" => call'[i][r] # "no"
    BY DEF Real
  <2> QED BY <1>1, <1>3, <2>1, <2>2 DEF OrderOK
<1>7. BenchOK(i)'
  BY <1>1 DEF BenchOK
<1> QED BY <1>5, <1>6, <1>7

LEMMA AnswerKeeps ==
    ASSUME AggregateInv, NEW i \in Searches, NEW s \in Sources, Answer(i, s)
    PROVE  AggregateInv'
<1>1. PICK a \in {"found", "empty", "error"} :
        /\ a = "found" => Stock[s] # {}
        /\ call' = [call EXCEPT ![i][s] = a]
  BY DEF Answer
<1>2. /\ pc[i] = "wait" /\ call[i][s] = "running"
      /\ UNCHANGED <<left, pc, queue, benched, batch, timer, throttled, timed_out, live, products, results, since>>
  BY DEF Answer
<1>3. AggregateTyped'
  BY <1>1, <1>2 DEF AggregateInv, AggregateTyped
<1>4. \A r \in Sources : call'[i][r] = IF r = s THEN a ELSE call[i][r]
  BY <1>1 DEF AggregateInv, AggregateTyped
<1>5. \A r \in Sources : call[i][r] = "found" => Stock[r] # {}
  BY DEF AggregateInv, BooksOK
<1>6. BooksOK(i)' /\ OrderOK(i)' /\ BenchOK(i)'
  <2>1. /\ \A r \in Sources : call'[i][r] # call[i][r] => call[i][r] = "running" /\ call'[i][r] # "no"
        /\ \A r \in Sources : call'[i][r] = "found" => Stock[r] # {}
    BY <1>1, <1>2, <1>4, <1>5
  <2>2. pc'[i] = "wait"
    BY <1>2
  <2> QED BY <1>2, <2>1, <2>2, CallsKeep
<1>7. ASSUME NEW j \in Searches \ {i} PROVE BooksOK(j)' /\ OrderOK(j)' /\ BenchOK(j)'
  <2>1. Same(j) /\ since'[j] = since[j] /\ UNCHANGED left
    BY <1>1, <1>2 DEF AggregateInv, AggregateTyped, Same
  <2> QED BY <2>1, SameKeeps, SameBench DEF AggregateInv
<1> QED BY <1>3, <1>6, <1>7 DEF AggregateInv

LEMMA WaitReturnsKeeps ==
    ASSUME AggregateInv, NEW i \in Searches, WaitReturns(i)
    PROVE  AggregateInv'
<1>1. /\ pc[i] = "wait" /\ pc'[i] = "collect" /\ queue'[i] = batch[i]
      /\ call'[i] = [s \in Sources |-> IF call[i][s] = "running" THEN "late" ELSE call[i][s]]
      /\ UNCHANGED <<left, benched, batch, throttled, timed_out, live, products, results, since>>
  BY DEF AggregateInv, AggregateTyped, WaitReturns
<1>2. AggregateTyped'
  BY DEF AggregateInv, AggregateTyped, WaitReturns
<1>3. BooksOK(i)' /\ OrderOK(i)' /\ BenchOK(i)'
  <2>1. /\ \A s \in Sources : call'[i][s] # call[i][s] => call[i][s] = "running" /\ call'[i][s] # "no"
        /\ \A s \in Sources : call'[i][s] # "running"
        /\ \A s \in Sources : call'[i][s] = "found" => call[i][s] = "found"
    BY <1>1
  <2>2. \A s \in Sources : call'[i][s] = "found" => Stock[s] # {}
    BY <2>1 DEF AggregateInv, BooksOK
  <2> QED BY <1>1, <2>1, <2>2, CallsKeep
<1>4. ASSUME NEW j \in Searches \ {i} PROVE BooksOK(j)' /\ OrderOK(j)' /\ BenchOK(j)'
  <2>1. Same(j) /\ since'[j] = since[j] /\ UNCHANGED left
    BY DEF AggregateInv, AggregateTyped, WaitReturns, Same
  <2> QED BY <2>1, SameKeeps, SameBench DEF AggregateInv
<1> QED BY <1>2, <1>3, <1>4 DEF AggregateInv

\* One turn of the collecting loop.  A benched source goes into `since' of every search
\* that will not look at it any more; an offer that is added comes from the batch, and so
\* from no tier below a source that was asked.
LEMMA CollectKeeps ==
    ASSUME AggregateInv, NEW i \in Searches, Collect(i)
    PROVE  AggregateInv'
<1> DEFINE s == First(queue[i])
           c == call[i][s]
<1>1. s \in queue[i] /\ s \in Sources /\ pc[i] = "collect"
  BY FirstIsIn DEF AggregateInv, AggregateTyped, Collect
<1>2. /\ queue'[i] = queue[i] \ {s}
      /\ throttled'[i] = IF c \in {"late", "error"} THEN throttled[i] \cup {s} ELSE throttled[i]
      /\ live'[i] = IF c = "found" THEN live[i] \cup {s} ELSE live[i]
      /\ products'[i] = IF c = "found" THEN products[i] \cup Stock[s] ELSE products[i]
      /\ UNCHANGED <<pc, benched, batch, call, timer, results>>
  BY DEF AggregateInv, AggregateTyped, Collect
<1>3. IF c \in {"late", "error"} THEN Bench(s) ELSE UNCHANGED <<left, since>>
  BY DEF Collect
<1>4. AggregateTyped'
  <2>1. left' \in [Sources -> Nat] /\ since' \in [Searches -> SUBSET Sources]
    <3>1. left \in [Sources -> Nat] /\ since \in [Searches -> SUBSET Sources] /\ Cooldown \in Nat
      BY AggregateAssumption DEF AggregateInv, AggregateTyped
    <3> HIDE DEF s
    <3>2. CASE Bench(s)
      BY <1>1, <3>1, <3>2 DEF Bench
    <3> QED BY <1>3, <3>1, <3>2
  <2>2. queue' \in [Searches -> SUBSET Sources]
    BY DEF AggregateInv, AggregateTyped, Collect
  <2>3. PICK more \in SUBSET Sources, found \in SUBSET Sources :
            /\ throttled' = [throttled EXCEPT ![i] = more]
            /\ live' = [live EXCEPT ![i] = found]
    <3> DEFINE more == IF c \in {"late", "error"} THEN throttled[i] \cup {s} ELSE throttled[i]
               found == IF c = "found" THEN live[i] \cup {s} ELSE live[i]
    <3>1. more \in SUBSET Sources /\ found \in SUBSET Sources
      BY <1>1 DEF AggregateInv, AggregateTyped
    <3>2. throttled' = [throttled EXCEPT ![i] = more] /\ live' = [live EXCEPT ![i] = found]
      BY DEF Collect
    <3> HIDE DEF more, found
    <3> QED BY <3>1, <3>2
  <2>4. throttled' \in [Searches -> SUBSET Sources] /\ live' \in [Searches -> SUBSET Sources]
    BY <2>3 DEF AggregateInv, AggregateTyped
  <2>5. DOMAIN timed_out' = Searches /\ DOMAIN products' = Searches
    BY DEF AggregateInv, AggregateTyped, Collect
  <2> QED BY <1>1, <1>2, <2>1, <2>2, <2>4, <2>5 DEF AggregateInv, AggregateTyped
<1> HIDE DEF s
<1>5. BooksOK(i) /\ OrderOK(i)
  BY DEF AggregateInv
<1>6. s \in batch[i] /\ s \in Asked(i)
  BY <1>1, <1>5 DEF BooksOK
<1>7. BooksOK(i)'
  <2>1. Pending(i) = queue[i] /\ Pending(i)' = queue[i] \ {s}
    BY <1>1, <1>2 DEF Pending
  <2>2. live'[i] = {r \in Sources : call'[i][r] = "found"} \ Pending(i)'
    BY <1>1, <1>2, <1>5, <2>1 DEF BooksOK
  <2>3. throttled'[i] = {r \in Sources : call'[i][r] \in {"late", "error"}} \ Pending(i)'
    BY <1>1, <1>2, <1>5, <2>1 DEF BooksOK
  <2>4. products'[i] = UNION {Stock[r] : r \in live'[i]}
    BY <1>2, <1>5 DEF BooksOK
  <2>5. Asked(i)' = Asked(i)
    BY <1>2 DEF Asked
  <2> QED BY <1>1, <1>2, <1>5, <2>2, <2>3, <2>4, <2>5 DEF BooksOK
<1>8. OrderOK(i)'
  <2>1. Asked(i)' = Asked(i) /\ Real(i)' = Real(i)
    BY <1>2 DEF Asked, Real
  <2>2. ASSUME NEW r \in Asked(i) \ Fallback PROVE Below(i, r)' = Below(i, r)
    <3>1. s \notin Fallback => ~(Tier[s] < Tier[r])
      <4>1. s \notin Fallback => Tier[r] <= Tier[s]
        BY <1>1, <1>5, <1>6, <2>2 DEF OrderOK
      <4>2. r \in Sources /\ Tier[s] \in Nat /\ Tier[r] \in Nat
        BY <1>1, AggregateAssumption DEF Asked
      <4> QED BY <4>1, <4>2
    <3>2. {q \in live'[i] \ Fallback : Tier[q] < Tier[r]} = {q \in live[i] \ Fallback : Tier[q] < Tier[r]}
      BY <1>2, <3>1
    <3> QED BY <3>2 DEF Below
  <2>3. Asked(i) \cap Fallback # {} => live'[i] \subseteq Fallback
    BY <1>1, <1>2, <1>5, <1>6 DEF OrderOK
  <2> QED BY <1>1, <1>2, <1>5, <2>1, <2>2, <2>3 DEF OrderOK
<1>9. ASSUME NEW j \in Searches PROVE BenchOK(j)'
  <2>1. pc'[j] = pc[j] /\ benched'[j] = benched[j] /\ (pc[j] = "scan" => queue'[j] = queue[j])
    BY <1>1 DEF AggregateInv, AggregateTyped, Collect
  <2>2. CASE c \in {"late", "error"}
    <3>1. /\ \A r \in Sources \ {s} : left'[r] = left[r]
          /\ since'[j] = IF pc[j] = "scan" /\ s \in queue[j] THEN since[j] ELSE since[j] \cup {s}
      BY <1>3, <2>2 DEF Bench, AggregateInv, AggregateTyped
    <3> QED BY <2>1, <3>1 DEF AggregateInv, BenchOK
  <2>3. CASE c \notin {"late", "error"}
    BY <1>3, <2>1, <2>3 DEF AggregateInv, BenchOK
  <2> QED BY <2>2, <2>3
<1>10. ASSUME NEW j \in Searches \ {i} PROVE BooksOK(j)' /\ OrderOK(j)'
  <2>1. Same(j)
    BY DEF AggregateInv, AggregateTyped, Collect, Same
  <2> QED BY <2>1, SameKeeps DEF AggregateInv
<1> QED BY <1>4, <1>7, <1>8, <1>9, <1>10 DEF AggregateInv

LEMMA TickKeeps ==
    ASSUME AggregateInv, Tick
    PROVE  AggregateInv'
<1>1. \A s \in Sources : left'[s] \in Nat /\ (left'[s] > 0 => left[s] > 0)
  BY DEF AggregateInv, AggregateTyped, Tick
<1>2. AggregateTyped'
  BY <1>1 DEF AggregateInv, AggregateTyped, Tick
<1>3. ASSUME NEW j \in Searches PROVE BooksOK(j)' /\ OrderOK(j)' /\ BenchOK(j)'
  <2>1. Same(j) /\ since'[j] = since[j]
    BY DEF Tick, Same
  <2>2. BenchOK(j)'
    BY <1>1, <2>1 DEF AggregateInv, BenchOK, Same
  <2> QED BY <2>1, <2>2, SameKeeps DEF AggregateInv
<1> QED BY <1>2, <1>3 DEF AggregateInv

LEMMA AggregateStep == AggregateInv /\ [Next]_vars => AggregateInv'
<1> SUFFICES ASSUME AggregateInv, [Next]_vars PROVE AggregateInv'
  OBVIOUS
<1>1. CASE Tick
  BY <1>1, TickKeeps
<1>2. ASSUME NEW i \in Searches, Start(i) \/ Step(i) PROVE AggregateInv'
  BY <1>2, StartKeeps, ScanKeeps, EscalateKeeps, FallBackKeeps, FinishKeeps, WaitReturnsKeeps,
     CollectKeeps DEF Step
<1>3. ASSUME NEW i \in Searches, NEW s \in Sources, Answer(i, s) PROVE AggregateInv'
  BY <1>3, AnswerKeeps
<1>4. CASE UNCHANGED vars
  <2>1. AggregateTyped'
    BY <1>4 DEF vars, local, AggregateInv, AggregateTyped
  <2>2. ASSUME NEW j \in Searches PROVE BooksOK(j)' /\ OrderOK(j)' /\ BenchOK(j)'
    <3>1. Same(j) /\ since'[j] = since[j] /\ UNCHANGED left
      BY <1>4 DEF vars, local, Same
    <3> QED BY <3>1, SameKeeps, SameBench DEF AggregateInv
  <2> QED BY <2>1, <2>2 DEF AggregateInv
<1> QED BY <1>1, <1>2, <1>3, <1>4 DEF Next

-----------------------------------------------------------------------------
(* Theorems                                                                *)

\* aggregate in any number of threads over one _cooldown: the inductive invariant behind
\* the results below.
THEOREM AggregateInvariance == Spec => []AggregateInv
<1> QED BY AggregateInitInv, AggregateStep, PTL DEF Spec

\* No failure of a store hides in an answer that does not report itself degraded, so that
\* /search may let the edge share it: aggregate's throttled, timed_out and benched lists.
THEOREM CleanIsComplete == Spec => []CleanMeansComplete
<1>1. AggregateInv => CleanMeansComplete
  <2> SUFFICES ASSUME AggregateInv, NEW i \in Searches, pc[i] = "done", ~Degraded(i),
                      NEW s \in Sources \ Fallback, ~Answered(i, s)
               PROVE  Cardinality(Keys(UNION {Stock[r] : r \in {r \in live[i] : Tier[r] < Tier[s]}})) >= Target
    BY DEF CleanMeansComplete
  <2>1. BooksOK(i) /\ OrderOK(i) /\ Pending(i) = {}
    BY DEF AggregateInv, Pending
  <2>2. benched[i] = {} /\ throttled[i] = {} /\ s \in Real(i)
    BY DEF Degraded, Real
  <2>3. call[i][s] = "no"
    <3>1. call[i][s] \in {"no", "running", "late", "found", "empty", "error"}
      BY DEF AggregateInv, AggregateTyped
    <3>2. call[i][s] \notin {"late", "error"}
      BY <2>1, <2>2 DEF BooksOK
    <3>3. call[i][s] # "running"
      BY <2>1 DEF BooksOK
    <3> QED BY <3>1, <3>2, <3>3 DEF Answered
  <2>4. Enough(i)
    BY <2>1, <2>2, <2>3 DEF OrderOK
  <2>5. \A r \in live[i] : r \in Asked(i)
    BY <2>1 DEF BooksOK, Asked
  <2>6. Asked(i) \cap Fallback = {}
    BY <2>1, <2>2, <2>3 DEF OrderOK
  <2>7. {r \in live[i] : Tier[r] < Tier[s]} = live[i]
    BY <2>1, <2>2, <2>3, <2>5, <2>6 DEF OrderOK
  <2> QED BY <2>1, <2>4, <2>7 DEF Enough, BooksOK
<1> QED BY <1>1, AggregateInvariance, PTL

\* The expensive tiers are asked only while the cheaper ones fall short of the target, and
\* the keyless fallback only when no real source produced an offer.
THEOREM TiersAreProtected == Spec => []NoNeedlessEscalation
<1>1. AggregateInv => NoNeedlessEscalation
  BY DEF AggregateInv, OrderOK, Below, NoNeedlessEscalation
<1> QED BY <1>1, AggregateInvariance, PTL

\* One failing source never sinks a search: the cheapest offer of every product that any
\* source delivered is in the answer, up to the limit, whatever the others did.
THEOREM CheapestIsShown == Spec => []CheapestShown
<1>1. AggregateInv => CheapestShown
  <2> SUFFICES ASSUME AggregateInv, NEW i \in Searches, pc[i] = "done"
               PROVE  LET offered == UNION {Stock[s] : s \in {s \in Sources : call[i][s] = "found"}}
                          groups  == {Group[k] : k \in Keys(offered)}
                      IN  /\ \A r \in results[i] : \A o \in offered :
                                Group[o.key] = Group[r.key] => r.price <= o.price
                          /\ Cardinality(results[i]) = IF Cardinality(groups) < MaxResults
                                                       THEN Cardinality(groups) ELSE MaxResults
                          /\ results[i] \subseteq offered
    BY DEF CheapestShown
  <2>1. BooksOK(i) /\ OrderOK(i) /\ Pending(i) = {}
    BY DEF AggregateInv, Pending
  <2>2. live[i] = {s \in Sources : call[i][s] = "found"}
    BY <2>1 DEF BooksOK
  <2>3. products[i] = UNION {Stock[s] : s \in {s \in Sources : call[i][s] = "found"}}
    BY <2>1, <2>2 DEF BooksOK
  <2>4. IsFiniteSet(products[i])
    BY ProductsFinite
  <2>5. \A o \in products[i] : o.price \in Nat
    BY <2>3, AggregateAssumption
  <2>6. results[i] \in Answers(products[i])
    BY <2>1 DEF OrderOK
  <2>7. /\ results[i] \subseteq products[i]
        /\ \A r \in results[i], o \in products[i] : Group[o.key] = Group[r.key] => r.price <= o.price
        /\ LET groups == {Group[k] : k \in Keys(products[i])} IN
           Cardinality(results[i]) = IF Cardinality(groups) < MaxResults
                                     THEN Cardinality(groups) ELSE MaxResults
    BY <2>4, <2>5, <2>6, AnswerIsCheapest
  <2> QED BY <2>3, <2>7
<1> QED BY <1>1, AggregateInvariance, PTL

\* The circuit breaker stops every search that looks at the bench after the source was
\* put there: _bench and _benched under concurrent searches.
THEOREM BreakerStopsLaterSearches == Spec => BreakerHolds
<1>1. AggregateInv /\ [Next]_vars =>
        [\A i \in Searches, s \in Sources :
            call[i][s] = "no" /\ call'[i][s] = "running" /\ left[s] > 0 => s \in since[i]]_vars
  <2> SUFFICES ASSUME AggregateInv, Next, NEW i \in Searches, NEW s \in Sources,
                      call[i][s] = "no", call'[i][s] = "running", left[s] > 0
               PROVE  s \in since[i]
    BY DEF vars
  <2>1. PICK j \in Searches : Escalate(j) \/ FallBack(j)
    <3>1. UNCHANGED call => FALSE
      OBVIOUS
    <3>2. ASSUME NEW j \in Searches, Start(j) \/ WaitReturns(j) PROVE FALSE
      <4>1. CASE Start(j)
        BY <4>1 DEF Start, AggregateInv, AggregateTyped
      <4>2. CASE WaitReturns(j)
        <5>1. call'[i][s] = call[i][s] \/ call'[i][s] = "late"
          BY <4>2 DEF WaitReturns, AggregateInv, AggregateTyped
        <5> QED BY <5>1
      <4> QED BY <3>2, <4>1, <4>2
    <3>3. ASSUME NEW j \in Searches, NEW r \in Sources, Answer(j, r) PROVE FALSE
      BY <3>3 DEF Answer, AggregateInv, AggregateTyped
    <3>4. ASSUME NEW j \in Searches, Scan(j) \/ Finish(j) \/ Collect(j) PROVE UNCHANGED call
      BY <3>4 DEF Scan, Finish, Collect
    <3>5. Tick => UNCHANGED call
      BY DEF Tick
    <3> QED BY <3>1, <3>2, <3>3, <3>4, <3>5 DEF Next, Step
  <2>2. PICK next \in SUBSET Sources : Run(j, next) /\ Between(j) /\ next \cap benched[j] = {}
    <3>1. NextTier(j) \in SUBSET Sources /\ NextTier(j) \cap benched[j] = {}
      BY DEF NextTier, Real
    <3>2. FallbackBatch(j) \in SUBSET Sources /\ FallbackBatch(j) \cap benched[j] = {}
      BY DEF FallbackBatch
    <3> QED BY <2>1, <3>1, <3>2 DEF Escalate, FallBack
  <2>3. i = j /\ s \in next
    BY <2>2 DEF Run, AggregateInv, AggregateTyped
  <2> QED BY <2>2, <2>3 DEF AggregateInv, BenchOK, Between
<1> QED BY <1>1, AggregateInvariance, PTL DEF Spec, BreakerHolds

=============================================================================
