------------------------------- MODULE MCLab -------------------------------
(***************************************************************************)
(* The lab: the page, a session of the agents behind its ask and review     *)
(* modes, and a job behind its suggestions, pipeline, mlops and tracking    *)
(* modes.  The server keeps nothing between two requests of the page and    *)
(* the jobs share only the snapshot file, so a behaviour follows one of the *)
(* three.                                                                   *)
(***************************************************************************)
EXTENDS Agents, Jobs, Lab, RatingCheck

VARIABLE part    \* what this behaviour follows: page, session, job, or operators

-----------------------------------------------------------------------------
(* Sessions                                                                *)

CONSTANTS a, b, c

\* Two categories with their phrases, two of which lack the same words; the third is
\* that of the empty result.
CategoryOf == (a :> "audio") @@ (b :> "audio") @@ (c :> "displays")
PhrasesOf == [audio |-> <<"p1">>, displays |-> <<"p2", "p3">>, other |-> << >>]
Texts == [p1 |-> "t1", p2 |-> "t2", p3 |-> "t2"]

\* Listings with a price and a model code; the title of b is part of that of a, and c has
\* markup in its title.  A model may also write an unknown model code, or an unknown
\* product at the price of b.
MarksOf == (a :> {"$1", "a1"}) @@ (b :> {"$2", "b2"}) @@ (c :> {"$3"})
WrittenWith == MarksOf @@ ("coded" :> {"z9"}) @@ ("plain" :> {"$2"})
TitlesWith == (a :> {a}) @@ (b :> {a, b}) @@ (c :> {}) @@ ("coded" :> {}) @@ ("plain" :> {})

Costs == (a :> 2) @@ (b :> 1) @@ (c :> 2)
Models == [audio |-> 10]
Alike == [i \in 1..4 |-> [j \in 1..4 |-> i + j]]

\* A deal, a trap, an overpriced one and a fair one.
Classes == {[m |-> 40, rf |-> 0], [m |-> 40, rf |-> 80], [m |-> -10, rf |-> 0], [m |-> 5, rf |-> 0]}

-----------------------------------------------------------------------------
(* Operators: result sets of up to four offers, and items with the pairs    *)
(* that match                                                               *)

Offer(i, src, cat, like, price) == [id |-> i, src |-> src, cat |-> cat, like |-> like, price |-> price]
\* The title of the first offer names an audio product, or only a model of one.  eBay has
\* an entry without rights; a source without an entry comes last at most.
Sources == {"BestBuy", "Unrated", "eBay"}
OfferLists ==
    {[i \in 1..4 |-> IF i = 1 THEN Offer(i, s[i], cat, "audio", p[i]) ELSE Offer(i, s[i], "toys", "toys", p[i])] :
        s \in {t \in [1..4 -> Sources \cup {"nobody"}] : \A i \in 1..3 : t[i] \in Sources},
        p \in [1..4 -> {2, 8, 12}], cat \in {"audio", Untyped}}
Pairs == {<<i, j>> \in (1..4) \X (1..4) : i < j}
Duplicates == {[prices |-> p, same |-> s] : p \in [1..4 -> 1..2], s \in SUBSET Pairs}

-----------------------------------------------------------------------------
(* Jobs                                                                    *)

item(m, rf, label) == [m |-> m, rf |-> rf, label |-> label]
hit(id, deal) == [id |-> id, deal |-> deal]

\* A clean snapshot, one with a trap in the golden set and a row of unknown category,
\* and one whose rows lack columns.
MCSnapshots == {
    [rows |-> <<"good", "cheap">>, golden |-> <<item(40, 0, "deal"), item(20, 0, "deal")>>,
     found |-> [q |-> <<hit("a", TRUE), hit("b", FALSE)>>, r |-> <<hit("a", TRUE), hit("c", TRUE)>>]],
    [rows |-> <<"good", "odd">>, golden |-> <<item(90, 80, "suspicious"), item(40, 0, "deal"), item(20, 0, "deal")>>,
     found |-> [q |-> <<hit("b", TRUE), hit("a", TRUE)>>, r |-> <<hit("c", TRUE), hit("b", FALSE)>>]],
    [rows |-> <<"untitled", "short">>, golden |-> << >>,
     found |-> [q |-> <<hit("c", FALSE)>>, r |-> <<hit("b", FALSE), hit("a", FALSE)>>]]}

\* One query saved twice with different k, and another.
MCSaved == <<[user |-> "u", query |-> "q", k |-> 1], [user |-> "u", query |-> "q", k |-> 2],
             [user |-> "u", query |-> "r", k |-> 2]>>

-----------------------------------------------------------------------------
(* Each part, at rest while another one is followed                         *)

SessionRests ==
    /\ signals = [l \in Listings |-> [m |-> 5, rf |-> 0]]
    /\ kind = "review" /\ pc = "done" /\ query = Asked
    /\ items = << >>
    /\ tier = 1 /\ draft = Deterministic /\ outcome = [approved |-> FALSE, revised |-> TRUE]
    /\ hops = << >> /\ tried = {}

JobRests == JobsInit /\ job = "worker" /\ file = CHOOSE f \in Snapshots : TRUE
PageRests == LabInit /\ live = FALSE /\ words = CHOOSE w \in Words : TRUE

NoInput == [what |-> "none"]

MCInit ==
    \/ part = "page" /\ LabInit /\ SessionRests /\ JobRests /\ input = NoInput
    \/ part = "session" /\ Init /\ JobRests /\ PageRests /\ input = NoInput
    \/ part = "job" /\ JobsInit /\ SessionRests /\ PageRests /\ input = NoInput
    \/ part = "operators" /\ SessionRests /\ JobRests /\ PageRests /\ RatingInit

MCNext ==
    /\ \/ part = "page" /\ LabNext /\ UNCHANGED <<vars, jobVars>>
       \/ part = "session" /\ Next /\ UNCHANGED <<jobVars, labVars>>
       \/ part = "job" /\ JobsNext /\ UNCHANGED <<vars, labVars>>
       \/ part = "operators" /\ UNCHANGED <<vars, jobVars, labVars>>
    /\ UNCHANGED <<part, input>>

MCSpec == MCInit /\ [][MCNext]_<<vars, jobVars, labVars, part, input>>

=============================================================================
