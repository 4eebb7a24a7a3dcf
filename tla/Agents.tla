------------------------------- MODULE Agents -------------------------------
(***************************************************************************)
(* The question answering of the lab: retrieval (search.py, rag.py), the    *)
(* answer with or without a language model (rag.py, llm.py), writer and     *)
(* reviewer (orchestrate.py, GET /review), the retrieve-judge-reformulate   *)
(* loop (agentic_rag.py), and the packing of a context window (context.py). *)
(*                                                                         *)
(* A language model may write anything.  An answer is reduced to the name   *)
(* it leads with, the names in it and whether it warns; a name stands for a *)
(* listing, or for whatever else a model may write: an invented product, a   *)
(* part of a title, a listing at another price.  What the reviewer sees of   *)
(* a name are the prices and model codes written with it, and the titles    *)
(* it occurs in.  The embedding model and BM25 are the two rankings of a     *)
(* query, chosen freely.  Titles are distinct, as in the snapshot.          *)
(***************************************************************************)
EXTENDS Rating

CONSTANTS
    Listings,   \* ids of the snapshot
    Category,   \* listing -> category
    Lexicon,    \* category -> its capability phrases, best first
    Text,       \* phrase -> the query it makes: with the words the question lacks
    Others,     \* names that are not the title of a listing
    Written,    \* name -> the prices and model codes that an answer writes with it
    Shown,      \* listing -> those in its title and context line
    TitledBy,   \* name -> the listings with it in their title, once its markup is stripped
    Tiers,      \* length of llm.models()
    MaxHops,    \* max_hops of agentic_answer
    TopK,       \* k
    Tokens,     \* listing -> tokens of its context line
    Budgets,    \* token budgets of a window
    Signals     \* the signals a listing may have: [m, rf] in hundredths

\* The question is taken not to be one of the texts that are made from it already.
Asked == "asked"    \* the query as the user wrote it
Plain == "plain"    \* the query without its vague words, plus "deal"

\* The capability phrases whose words the question does not have already.
Phrases == UNION {ToSet(Lexicon[cat]) : cat \in DOMAIN Lexicon}

Names == Listings \cup Others
None == "none"

ASSUME AgentsAssumption ==
    /\ None \notin Names /\ TitledBy \in [Names -> SUBSET Listings]
    /\ \A l \in Listings : Written[l] \subseteq Shown[l]
    /\ Tiers \in Nat \ {0} /\ MaxHops \in Nat \ {0}
    /\ TopK \in Nat /\ Tokens \in [Listings -> Nat] /\ Budgets \subseteq Nat
    /\ IsFiniteSet(Listings) /\ Signals \subseteq [m : Int, rf : Int]
    /\ "other" \in DOMAIN Lexicon /\ Category \in [Listings -> DOMAIN Lexicon]
    /\ \A cat \in DOMAIN Lexicon : DOMAIN Lexicon[cat] = 1..Len(Lexicon[cat])
    /\ \A p \in Phrases : Text[p] \notin {Asked, Plain}

VARIABLES
    signals,    \* listing -> [m, rf]: the two signals in hundredths
    kind,       \* which of the two loops this session is: review, agentic
    pc,
    query,      \* the query that is searched: Asked, that of a phrase, or Plain
    items,      \* what the query retrieves, best first
    tier,       \* the model llm.chat tries next
    draft,      \* the answer under review, or the final one
    outcome,    \* [approved, revised] of the session
    hops,       \* agentic: the hops made, as [query, items, sufficient]
    tried       \* agentic: phrases used up

vars == <<signals, kind, pc, query, items, tier, draft, outcome, hops, tried>>

-----------------------------------------------------------------------------
(* Retrieval                                                               *)

\* cosine_rank orders the whole snapshot, BM25 what shares a word with the query.
Rankings ==
    LET Orders(n) == {p \in [1..n -> Listings] : IsInjective(p)}
    IN [semantic : Orders(Cardinality(Listings)),
        keyword : UNION {Orders(n) : n \in 0..Cardinality(Listings)}]

\* dealscore.verdict from the signals
VerdictFor(l) ==
    Badge(signals[l].m >= DealMedian, signals[l].rf >= SuspiciousResidual, signals[l].m < 0)

\* _two_signal_deal_scores: a trap is demoted by 1
DealScore(l) ==
    IF signals[l].m >= DealMedian /\ signals[l].rf > SuspiciousResidual
    THEN signals[l].m - 100 ELSE signals[l].m

IndexIn(s, x) == CHOOSE i \in DOMAIN s : s[i] = x

\* rrf_fuse with k = 60: the sum of 1/(60 + rank) over the lists, scaled
Reciprocal(s, l) == IF l \in ToSet(s) THEN 1000000 \div (60 + IndexIn(s, l)) ELSE 0
Fuse(r) ==
    SortedBy(r.semantic, [i \in DOMAIN r.semantic |->
        Reciprocal(r.semantic, r.semantic[i]) + Reciprocal(r.keyword, r.semantic[i])])

\* value_rerank with alpha = 0.5, in hundredths and doubled
Rerank(s) ==
    LET last == IF Len(s) > 1 THEN Len(s) - 1 ELSE 1
        rel(i) == 100 - (100 * (i - 1)) \div last
        gain(l) == IF DealScore(l) > 0 THEN DealScore(l) ELSE 0
    IN SortedBy(s, [i \in DOMAIN s |-> rel(i) + gain(s[i])])

\* search_catalog and retrieve: the best 3k of the fusion, reranked, and of these the
\* top k, best first
Retrieve(r) == Cut(Rerank(Cut(Fuse(r), 3 * TopK)), TopK)

Found == ToSet(items)
\* The places with a verdict, and the listing at the first of some places.
With(v) == {i \in DOMAIN items : VerdictFor(items[i]) = v}
Best(places) == items[CHOOSE i \in places : \A j \in places : i <= j]

-----------------------------------------------------------------------------
(* Answers                                                                 *)

\* What a model may write; what it leads with is one of the names in it.
Answers == {a \in [lead : Names \cup {None}, names : SUBSET Names, warns : BOOLEAN] :
                a.lead \in a.names \cup {None}}

\* _deterministic_answer
Deterministic ==
    LET hero == IF With("deal") # {} THEN Best(With("deal")) ELSE Best(DOMAIN items)
        runners == {i \in DOMAIN items : items[i] # hero} \ With("suspicious")
        traps == With("suspicious")
        first(places) == IF places = {} THEN {} ELSE {Best(places)}
    IN IF Found = {} THEN [lead |-> None, names |-> {}, warns |-> FALSE]
       ELSE [lead |-> hero, names |-> {hero} \cup first(runners) \cup first(traps),
             warns |-> traps # {}]

\* is_grounded: every dollar price in the answer is in the context, and every model
\* code (letters and digits) in a retrieved title.  Names and brands are not looked at.
AllOf(marks, names) == UNION {marks[x] : x \in names}
IsGrounded(a) == Found # {} /\ AllOf(Written, a.names) \subseteq AllOf(Shown, Found)

\* lead_item: the first retrieved listing whose title contains the lead.
Matches(x) == {i \in DOMAIN items : items[i] \in TitledBy[x]}
LeadIsADeal(a) ==
    a.lead # None /\ Matches(a.lead) # {} /\ VerdictFor(Best(Matches(a.lead))) = "deal"
TrapWarned(a) == With("suspicious") = {} \/ a.warns

\* review: the reviewer retrieves again, over the same snapshot
Approves(a) == IsGrounded(a) /\ LeadIsADeal(a) /\ TrapWarned(a)

-----------------------------------------------------------------------------
(* The context window                                                      *)

\* Mutant of HasRoom: an off-by-one at the edge of the budget.
HasRoomStrict(used, cost, budget) == used + cost < budget

HasRoom(used, cost, budget) == used + cost <= budget

\* pack_deals, after each item: in rank order, whatever still fits
Packing(budget) ==
    LET after[i \in 0..Len(items)] ==
            IF i = 0 THEN [used |-> 0, included |-> << >>]
            ELSE LET last == after[i - 1] IN
                 IF HasRoom(last.used, Tokens[items[i]], budget)
                 THEN [used |-> last.used + Tokens[items[i]],
                       included |-> Append(last.included, items[i])]
                 ELSE last
    IN after
PackDeals(budget) == Packing(budget)[Len(items)].included

\* lost_in_the_middle: odd places first, then the even ones backwards
LostInTheMiddle(s) ==
    LET half == (Len(s) + 1) \div 2
    IN [i \in DOMAIN s |-> IF i <= half THEN s[2 * i - 1] ELSE s[2 * (Len(s) - i + 1)]]

\* The tokens of the items that are in S.
TokensOf(S) ==
    LET sum[i \in 0..Len(items)] ==
            IF i = 0 THEN 0 ELSE sum[i - 1] + (IF items[i] \in S THEN Tokens[items[i]] ELSE 0)
    IN sum[Len(items)]
Fits(S, budget) == TokensOf(S) <= budget

-----------------------------------------------------------------------------
Init ==
    /\ signals \in [Listings -> Signals]
    /\ kind \in {"review", "agentic"}
    /\ pc = IF kind = "review" THEN "write" ELSE "retrieve"
    /\ query = Asked
    /\ items \in {Retrieve(r) : r \in Rankings}
    /\ tier = 1
    /\ draft = [lead |-> None, names |-> {}, warns |-> FALSE]
    /\ outcome = [approved |-> FALSE, revised |-> FALSE]
    /\ hops = << >> /\ tried = {}

\* answer: no key, so the extractive path
WriteOffline ==
    /\ pc = "write" /\ kind = "review" /\ tier = 1
    /\ draft' = Deterministic
    /\ pc' = "review"
    /\ UNCHANGED <<signals, kind, query, items, tier, outcome, hops, tried>>

\* llm.chat: the model answers with some text (None becomes the empty text)
WriteLLM ==
    /\ pc = "write" /\ kind = "review"
    /\ draft' \in Answers
    /\ pc' = "review"
    /\ UNCHANGED <<signals, kind, query, items, tier, outcome, hops, tried>>

\* llm.chat: throttled, unavailable or unreachable, so the next model
NextModel ==
    /\ pc = "write" /\ kind = "review" /\ tier < Tiers
    /\ tier' = tier + 1
    /\ UNCHANGED <<signals, kind, pc, query, items, draft, outcome, hops, tried>>

\* llm.chat raises (the last model failed, or another status); answer degrades
ModelsFail ==
    /\ pc = "write" /\ kind = "review"
    /\ draft' = Deterministic
    /\ pc' = "review"
    /\ UNCHANGED <<signals, kind, query, items, tier, outcome, hops, tried>>

\* Mutant of Revision: the writer is asked again.
RevisionAsksAgain(a) == a

\* "fall back to the LLM-free deterministic answer"
Revision(a) == Deterministic

\* review, and the revision with its own review when the draft is rejected.
\* orchestrate and GET /review do the same.
Review ==
    LET fixed == Revision(draft) IN
    /\ pc = "review"
    /\ \/ /\ Approves(draft)
          /\ outcome' = [approved |-> TRUE, revised |-> FALSE]
          /\ UNCHANGED draft
       \/ /\ ~Approves(draft)
          /\ outcome' = [approved |-> Approves(fixed), revised |-> TRUE]
          /\ draft' = fixed
    /\ pc' = "done"
    /\ UNCHANGED <<signals, kind, query, items, tier, hops, tried>>

\* The end of agentic_answer: the writer as above, for `query' and what it finds.  Its
\* text is not reviewed, and is not followed here.
Answered ==
    /\ pc = "write" /\ kind = "agentic"
    /\ pc' = "done"
    /\ UNCHANGED <<signals, kind, query, items, tier, draft, outcome, hops, tried>>

-----------------------------------------------------------------------------
(* agentic_answer                                                          *)

\* sufficiency: led by a deal, at least two deals, more deals than traps
Sufficient ==
    /\ 1 \in With("deal")
    /\ Cardinality(With("deal")) >= 2
    /\ Cardinality(With("suspicious")) < Cardinality(With("deal"))

\* Mutant of Untried: what was tried is forgotten.
UntriedForgets(cat) == DOMAIN Lexicon[cat]

\* reformulate: the phrases of a category that are left, as places
Untried(cat) == {i \in DOMAIN Lexicon[cat] : Lexicon[cat][i] \notin tried}

TopCategory(s) == IF s = << >> THEN "other" ELSE Category[s[1]]

\* What a query finds, after the given hops: the same as before when it was searched.
ResultsOf(q, made) ==
    LET before == {i \in DOMAIN made : made[i].query = q}
    IN IF before = {} THEN {Retrieve(r) : r \in Rankings} ELSE {made[i].items : i \in before}

\* One round of the loop: retrieve, judge, and reformulate if the evidence is weak.
\* The loop ends after the reformulation of its last round.
Hop ==
    LET cat == TopCategory(items)
        left == Untried(cat)
        phrase == Lexicon[cat][CHOOSE i \in left : \A j \in left : i <= j]
    IN
    /\ pc = "retrieve"
    /\ hops' = Append(hops, [query |-> query, items |-> items, sufficient |-> Sufficient])
    /\ \/ /\ Sufficient
          /\ pc' = "write"
          /\ UNCHANGED <<query, items, tried>>
       \/ /\ ~Sufficient
          /\ query' = IF left = {} THEN Plain ELSE Text[phrase]
          /\ tried' = tried \cup (IF left = {} THEN {} ELSE {phrase})
          /\ items' \in ResultsOf(query', hops')
          /\ pc' = IF Len(hops') < MaxHops THEN "retrieve" ELSE "write"
    /\ UNCHANGED <<signals, kind, tier, draft, outcome>>

Done == pc = "done" /\ UNCHANGED vars

Next == \/ WriteOffline \/ WriteLLM \/ NextModel \/ ModelsFail \/ Review \/ Answered
        \/ Hop \/ Done

\* A session is one call on one thread.
Spec == Init /\ [][Next]_vars

-----------------------------------------------------------------------------
(* Properties                                                              *)

\* The reviewer takes the name for the listing it is the title of.
Recognised(x) == x # None /\ Matches(x) # {} /\ Best(Matches(x)) = x

\* Writer and reviewer: whatever the model wrote and whichever models failed, the
\* answer that leaves orchestrate writes no price and no model code that was not
\* retrieved, and warns when a trap was retrieved.  A lead the reviewer recognises is a
\* deal; an answer goes out rejected only when there was no deal to lead with, or when
\* it leads with the best one under a title the reviewer does not recognise; and a
\* revised answer names retrieved listings only.
FinalAnswerIsSafe ==
    pc = "done" /\ kind = "review" =>
        /\ AllOf(Written, draft.names) \subseteq AllOf(Shown, Found)
        /\ TrapWarned(draft)
        /\ outcome.revised => draft.names \subseteq Found
        /\ outcome.approved /\ Recognised(draft.lead) => VerdictFor(draft.lead) = "deal"
        /\ ~outcome.approved /\ With("deal") # {} =>
              draft.lead = Best(With("deal")) /\ ~Recognised(draft.lead)

\* review: "grounded - every product/price cited is in the retrieved set".
ApprovedNamesRetrieved ==
    pc = "done" /\ kind = "review" /\ outcome.approved => draft.names \subseteq Found

\* review: "the lead pick is a genuine DEAL, not a SUSPICIOUS trap or an OVERPRICED
\* item sold as the best value".
ApprovedLeadIsADeal ==
    pc = "done" /\ kind = "review" /\ outcome.approved =>
        draft.lead \in Found /\ VerdictFor(draft.lead) = "deal"

\* _lead_title: "robust to both answer shapes the writers produce".  The extractive
\* answer, which leads with a deal when there is one, passes its review.
DealIsApproved ==
    pc = "done" /\ kind = "review" /\ With("deal") # {} => outcome.approved

\* The retrieval loop of agentic_answer makes progress.  It searches one text twice only
\* as the plain query or when two phrases lack the same words; it falls back to the plain
\* query only when the hops before have searched every phrase of the category of the
\* listing on top, however that category changed from hop to hop; and sufficient evidence
\* is never searched away: it ends the loop, and the answer is written from it.
HopsMakeProgress ==
    /\ \A i, j \in DOMAIN hops : i < j /\ hops[i].query = hops[j].query =>
          \/ hops[i].query = Plain
          \/ \E p, q \in Phrases : p # q /\ Text[p] = hops[i].query /\ Text[q] = hops[i].query
    /\ \A j \in DOMAIN hops : hops[j].query = Plain =>
          /\ j > 1
          /\ \A p \in ToSet(Lexicon[TopCategory(hops[j - 1].items)]) :
                \E h \in 1..(j - 1) : hops[h].query = Text[p]
    /\ \A i \in DOMAIN hops : hops[i].sufficient =>
          /\ i = Len(hops) /\ pc # "retrieve"
          /\ query = hops[i].query /\ items = hops[i].items

\* A packed window against its definition: of all the sets of retrieved listings
\* that fit the budget it holds the one that is best by rank, and the better of two
\* survivors is never further from an edge of the window.
WindowHoldsBest ==
    pc = "write" => \A budget \in Budgets :
        LET packed == PackDeals(budget)
            window == LostInTheMiddle(packed)
            edge(l) == LET i == IndexIn(window, l) IN
                       IF i - 1 < Len(window) - i THEN i - 1 ELSE Len(window) - i
        IN /\ ToSet(packed) \subseteq Found /\ Fits(ToSet(packed), budget)
           /\ \A S \in SUBSET Found : S # ToSet(packed) /\ Fits(S, budget) =>
                \E i \in DOMAIN items :
                    /\ items[i] \in ToSet(packed) \ S
                    /\ \A j \in 1..(i - 1) : items[j] \in S <=> items[j] \in ToSet(packed)
           /\ \A i, j \in DOMAIN items :
                i < j /\ {items[i], items[j]} \subseteq ToSet(packed) => edge(items[i]) <= edge(items[j])

\* agentic_answer: it "generates the answer from the last hop's query".
AnswerFromLastHop ==
    pc = "done" /\ kind = "agentic" => query = Last(hops).query

=============================================================================
