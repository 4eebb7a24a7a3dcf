------------------------------- MODULE Rating -------------------------------
(***************************************************************************)
(* How offers are rated: the two signals of dealscore.py, the licences of   *)
(* licensing.py, and score_offers and check_deal of shop.py.  Pure          *)
(* operators, checked over every small result set.                          *)
(*                                                                         *)
(* Prices are whole numbers and fractions are compared exactly.  An offer   *)
(* is a record [id, src, cat, like, price]: the product type its title      *)
(* names, and the category of the snapshot listing its title is most like.  *)
(* What the trained models predict is a parameter.                         *)
(***************************************************************************)
EXTENDS Integers, Sequences, FiniteSets, SequencesExt

CONSTANTS
    ModelFair,    \* category -> the fair price its model predicts
    Likeness,     \* how similar the titles of two offers are, by their ids
    Untyped       \* the cat of a title that names no product type: guess_category's None

\* No model is trained for no category.
ASSUME UntypedAssumption == Untyped \notin DOMAIN ModelFair

\* POLICIES: a store whose terms are all met, one whose terms allow nothing, and
\* the display-only store the tests add.  A source without an entry has no rights.
Policies ==
    [BestBuy |-> {"verdicts", "embed", "store", "comingle", "attribution"},
     eBay |-> {},
     Unrated |-> {"comingle", "store"}]

May(right, src) == src \in DOMAIN Policies /\ right \in Policies[src]

-----------------------------------------------------------------------------
(* dealscore.py: fractions below a reference, here in hundredths.           *)

SuspiciousResidual == 70
DealMedian == 15

\* median_signal and residual_fraction >= pct, for pct > 0: a reference of zero
\* gives the signal 0.  References are doubled, so that medians are whole.
AtLeast(pct, price, ref2) == ref2 > 0 /\ 100 * (ref2 - 2 * price) >= pct * ref2

Above(price, ref2) == ref2 > 0 /\ 2 * price > ref2

\* verdict and render_badge: the guard is checked first.
Badge(cheap, implausible, above) ==
    IF cheap /\ implausible THEN "suspicious"
    ELSE IF cheap THEN "deal" ELSE IF above THEN "overpriced" ELSE "fair"

-----------------------------------------------------------------------------
(* shop.py                                                                 *)

\* The members of s at some places, in order.  (SubSeq, of the whole sequence, has TLC
\* evaluate it once.)
UpTo(places, i) == {j \in places : j <= i}
Nth(places, n) == CHOOSE i \in places : Cardinality(UpTo(places, i)) = n
Pick(s, places) ==
    LET n == Cardinality(places) IN SubSeq([m \in 1..n |-> s[Nth(places, m)]], 1, n)

\* Sorted by descending score, the score of each place being given; equal scores keep
\* their order.
NotAfter(score, i) == {j \in DOMAIN score : score[j] > score[i] \/ (score[j] = score[i] /\ j <= i)}
PlaceOf(score, n) == CHOOSE i \in DOMAIN score : Cardinality(NotAfter(score, i)) = n
SortedBy(s, score) == [n \in DOMAIN s |-> s[PlaceOf(score, n)]]

\* s[:k]
Cut(s, k) == SubSeq(s, 1, IF Len(s) < k THEN Len(s) ELSE k)

\* Twice the median; 0 when there is nothing to take it of.
Median2(s) ==
    LET up == SortedBy(s, [i \in DOMAIN s |-> -s[i]])
    IN IF s = << >> THEN 0 ELSE up[(Len(s) + 1) \div 2] + up[Len(s) \div 2 + 1]

Prices(offers) == [i \in DOMAIN offers |-> offers[i].price]
Licensed(right, offers) == Pick(offers, {i \in DOMAIN offers : May(right, offers[i].src)})

\* The rows that feed the peer estimate: rated and embeddable.
Peers(rows) == Licensed("embed", Licensed("verdicts", rows))

\* peer_fair_prices: twice the median of the five most similar of the other peers, 0 for
\* none.  (An embedding that fails gives no row an estimate, as if there were no peers.)
Neighbours == 5
PeerFair2(rows, o) ==
    LET peers == Peers(rows)
        others == Pick(peers, {i \in DOMAIN peers : peers[i].id # o.id})
        nearest == SortedBy(others, [i \in DOMAIN others |-> Likeness[o.id][others[i].id]])
    IN IF Len(peers) >= 3 /\ Len(others) < Len(peers)
       THEN Median2(Prices(Cut(nearest, Neighbours))) ELSE 0

\* The best available estimate: the model of the category, else the peers.
Fair2(rows, o) ==
    IF o.cat \in DOMAIN ModelFair THEN 2 * ModelFair[o.cat] ELSE PeerFair2(rows, o)

\* The verdict of one row, "none" for null.
VerdictOf(rows, o, med2) ==
    LET fair2 == Fair2(rows, o) IN
    IF ~May("verdicts", o.src) \/ fair2 = 0 THEN "none"
    ELSE Badge(AtLeast(DealMedian, o.price, med2),
               AtLeast(SuspiciousResidual, o.price, fair2), Above(o.price, med2))

\* Mutant of Penalty: only the price counts.
PenaltyNone(v) == 0

\* _value, times 2 * med2: the fraction under the median, less a penalty.
Penalty(v) == IF v = "suspicious" THEN 2 ELSE IF v = "overpriced" THEN 1 ELSE 0
Value(o, med2) ==
    (IF May("verdicts", o.src) THEN 2 * (med2 - 2 * o.price) ELSE 0) - Penalty(o.verdict) * med2

\* score_offers.  In check mode no row is rated and the order is kept.
ScoreOffers(offers, med2, mode) ==
    LET rows == Licensed("comingle", offers)
        rated == [i \in DOMAIN rows |->
                    [id |-> rows[i].id, src |-> rows[i].src, price |-> rows[i].price,
                     verdict |-> IF mode = "check" THEN "none" ELSE VerdictOf(rows, rows[i], med2)]]
    IN IF mode = "check" THEN rated
       ELSE SortedBy(rated, [i \in DOMAIN rated |-> Value(rated[i], med2)])

\* Mutant of MarketMedian2: the median of everything the sources returned.
MarketMedian2All(offers) == Median2(Prices(offers))

\* shop_search, ranked and the stream: the median over the rows that may be rated.
MarketMedian2(offers) == Median2(Prices(Licensed("verdicts", offers)))

\* The rows of shop_search and of /ranked, and the attribution they carry.
ShopResults(offers, k, mode) ==
    Cut(ScoreOffers(offers, MarketMedian2(offers), mode), k)

\* check_deal: the residual alone, with the thresholds of the two signals.  A title that
\* names no product type takes the category of the snapshot listing that it is most like,
\* a fallback that score_offers does not have.
CheckDeal(cat, like, price) ==
    LET type == IF cat = Untyped THEN like ELSE cat IN
    IF type \notin DOMAIN ModelFair THEN "none"
    ELSE LET fair2 == 2 * ModelFair[type] IN
         IF AtLeast(SuspiciousResidual, price, fair2) THEN "suspicious"
         ELSE IF AtLeast(DealMedian, price, fair2) THEN "deal"
         ELSE IF fair2 > 0 /\ 100 * (2 * price - fair2) >= DealMedian * fair2 THEN "overpriced"
         ELSE "fair"

-----------------------------------------------------------------------------
(* dedup.py: items 1..n with their prices; `same' holds the pairs that      *)
(* same_product accepts (equal brand, agreeing model numbers, similar).     *)

\* find.  Path halving shortens the paths and keeps the roots (HalvingKeepsRoots of
\* LabProofs), so the tree is searched as it is.
Root(parent, x) ==
    LET up[n \in 0..Len(parent)] == IF n = 0 THEN x ELSE parent[up[n - 1]] IN up[Len(parent)]

\* Mutant of Union: the item itself is hung below the other, not its root.
UnionItem(parent, i, j) == [parent EXCEPT ![i] = Root(parent, j)]

Union(parent, i, j) == [parent EXCEPT ![Root(parent, i)] = Root(parent, j)]

\* The inner loop of item i: it is united with each later item that matches it.
Joined(parent, i, same) ==
    LET after[j \in i..Len(parent)] ==
            IF j = i THEN parent
            ELSE IF <<i, j>> \in same THEN Union(after[j - 1], i, j) ELSE after[j - 1]
    IN after[Len(parent)]

\* The parents after both loops.
Parents(n, same) ==
    LET after[i \in 0..n] ==
            IF i = 0 THEN [x \in 1..n |-> x] ELSE Joined(after[i - 1], i, same)
    IN after[n]

\* dedup_by_embedding: the cheapest item of each cluster, the first of equals
DedupByEmbedding(prices, same) ==
    LET n == Len(prices)
        parent == Parents(n, same)
        cluster(i) == {j \in 1..n : Root(parent, j) = Root(parent, i)}
    IN {i \in 1..n : \A j \in cluster(i) : \/ prices[i] < prices[j]
                                           \/ prices[i] = prices[j] /\ i <= j}

-----------------------------------------------------------------------------
(* Properties, of every result set `offers'                                 *)

VerdictIn(rows, id) == LET i == CHOOSE j \in DOMAIN rows : rows[j].id = id IN rows[i].verdict

\* "Every signal asks the license first": a row that may not be rated gets no
\* verdict, a row that may not be mixed is not shown, and neither moves the verdict
\* of any other row.
UnlicensedMovesNothing(offers) ==
    LET all == ShopResults(offers, Len(offers), "live")
        own == Licensed("verdicts", offers)
        alone == ShopResults(own, Len(own), "live")
    IN /\ \A i \in DOMAIN all : May("comingle", all[i].src) /\ (all[i].verdict # "none" => May("verdicts", all[i].src))
       /\ \A i \in DOMAIN own : May("comingle", own[i].src)
                                  => VerdictIn(all, own[i].id) = VerdictIn(alone, own[i].id)

\* "too-good-to-be-true sinks below genuine deals", however the list is cut; and a listing
\* shown as a deal, whose title names its product type, is not one that Check a deal calls
\* too good to be true.  (Without a type in the title the two may disagree: the row is
\* rated by its peers, and Check a deal by the model of a similar listing's category.)
TrapsSinkBelowDeals(offers) ==
    LET rows == ShopResults(offers, Len(offers), "live") IN
    /\ \A i, j \in DOMAIN rows : rows[i].verdict = "suspicious" /\ rows[j].verdict = "deal" => j < i
    /\ \A i \in DOMAIN offers : LET o == offers[i] IN
         o.cat # Untyped /\ (\E j \in DOMAIN rows : rows[j].id = o.id /\ rows[j].verdict = "deal")
            => CheckDeal(o.cat, o.like, o.price) # "suspicious"

\* Dedup against its definition: two items are one product when a chain of matching
\* pairs joins them, so that no set of items that the pairs respect holds one of them
\* only; each product keeps one item, and no item of it is cheaper.
DedupKeepsCheapest(prices, same) ==
    LET n == Len(prices)
        respected(C) == \A p \in same : p[1] \in C <=> p[2] \in C
        product(i) == {j \in 1..n : \A C \in SUBSET (1..n) : respected(C) => (i \in C <=> j \in C)}
        kept == DedupByEmbedding(prices, same)
    IN \A i \in 1..n : \E k \in kept : /\ kept \cap product(i) = {k}
                                       /\ \A j \in product(i) : prices[k] <= prices[j]

=============================================================================
