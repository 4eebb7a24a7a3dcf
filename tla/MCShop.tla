------------------------------- MODULE MCShop -------------------------------
(***************************************************************************)
(* The searches with their two caches, or the threads that share the token  *)
(* of the eBay source, or those that share the embedding model.  A thread   *)
(* of module EbayToken is the inside of one CallEnds of module Shop, and    *)
(* one of EmbedCache is inside the live half of a search; both end with any *)
(* outcome at any time there, so a behaviour follows one of the three.      *)
(***************************************************************************)
EXTENDS Shop, EbayToken, EmbedCache

VARIABLE part    \* what this behaviour follows: search, token or embed

\* Up to more texts than the cache holds
MCBatches == {{"a"}, {"b", "c"}, {"a", "b", "c"}}

SearchRests == Init /\ ~enabled

MCInit ==
    /\ TokenInit /\ EmbedInit
    /\ \/ part = "search" /\ Init
       \/ part \in {"token", "embed"} /\ SearchRests

MCNext ==
    /\ \/ part = "search" /\ Next /\ UNCHANGED <<tokenVars, embedVars>>
       \/ part = "token" /\ TokenNext /\ UNCHANGED <<vars, embedVars>>
       \/ part = "embed" /\ EmbedNext /\ UNCHANGED <<vars, tokenVars>>
    /\ UNCHANGED part

\* The fairness of the searches, where they are followed.
MCFairness ==
    part = "search" => Fairness

MCSpec == MCInit /\ [][MCNext]_<<vars, tokenVars, embedVars, part>> /\ MCFairness

=============================================================================
