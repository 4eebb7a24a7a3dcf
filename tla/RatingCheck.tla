---------------------------- MODULE RatingCheck ----------------------------
(***************************************************************************)
(* The operators of Rating on any of the given inputs: result sets that     *)
(* shop.py scores, and items that dedup.py groups.                          *)
(***************************************************************************)
EXTENDS Rating

CONSTANTS
    Lists,      \* result sets: sequences of offers
    Items       \* [prices, same]: items and the pairs of them that match

\* The offers of a result set have different ids, and no price is negative.
IsResultSet(offers) ==
    /\ offers \in Seq({offers[i] : i \in DOMAIN offers})
    /\ \A i, j \in DOMAIN offers : offers[i].id = offers[j].id => i = j
    /\ \A i \in DOMAIN offers : offers[i].price \in Nat

\* Items have prices, and only pairs of an item and a later one are asked about.
IsItemList(x) ==
    /\ x.prices \in Seq(Nat)
    /\ x.same \subseteq {p \in (DOMAIN x.prices) \X (DOMAIN x.prices) : p[1] < p[2]}

ASSUME RatingAssumption ==
    /\ \A offers \in Lists : IsResultSet(offers)
    /\ \A x \in Items : IsItemList(x)

VARIABLE input      \* the input of the operators

RatingInit ==
    \/ \E offers \in Lists : input = [what |-> "offers", offers |-> offers]
    \/ \E x \in Items : input = [what |-> "items", prices |-> x.prices, same |-> x.same]

RatingSpec == RatingInit /\ [][UNCHANGED input]_input

-----------------------------------------------------------------------------
(* Properties                                                              *)

\* "Every signal asks the license first" (shop.py), for every result set; see
\* Rating.UnlicensedMovesNothing.
LicenceAskedFirst == input.what = "offers" => UnlicensedMovesNothing(input.offers)

\* "too-good-to-be-true sinks below genuine deals" (shop._value), for every result
\* set; see Rating.TrapsSinkBelowDeals.
TrapsSink == input.what = "offers" => TrapsSinkBelowDeals(input.offers)

\* dedup_by_embedding keeps the cheapest offer of every product, for every relation
\* of matching pairs; see Rating.DedupKeepsCheapest.
OneOfferPerProduct == input.what = "items" => DedupKeepsCheapest(input.prices, input.same)

=============================================================================
