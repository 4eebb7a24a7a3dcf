------------------------------ MODULE Accounts ------------------------------
(***************************************************************************)
(* What the account store promises, without requests, connections, scopes   *)
(* or locks: each write happens at once, touches one row of one owner, and  *)
(* leaves every watchlist and saved-search list within its limit.  Whether  *)
(* there is room is decided in the state that is written to.                *)
(***************************************************************************)
EXTENDS Integers, FiniteSets

CONSTANTS Users, Tenants, Offers, Storable, WatchLimit, SavedLimit, MaxVersion

VARIABLES catalog, watch, saved

rows == <<catalog, watch, saved>>
Versions == 1..MaxVersion

HasWatch(u, o) == watch[u][o] # 0
WatchRoom(u) == Cardinality({o \in Offers : HasWatch(u, o)}) < WatchLimit

\* The catalog may hold rows from before the license rules; nobody has a row yet.
Init ==
    /\ catalog \in [Tenants -> {row \in [Offers -> {0, 1}] : \A o \in Storable : row[o] = 0}]
    /\ watch = [u \in Users |-> [o \in Offers |-> 0]]
    /\ saved = [u \in Users |-> 0]

\* add_watch: a new item takes room, an item that is watched is refreshed.
Watch(u, o, v) ==
    /\ HasWatch(u, o) \/ WatchRoom(u)
    /\ watch' = [watch EXCEPT ![u][o] = v]
    /\ UNCHANGED <<catalog, saved>>

\* remove_watch, and the purge of a watch
Unwatch(u, o) ==
    /\ HasWatch(u, o)
    /\ watch' = [watch EXCEPT ![u][o] = 0]
    /\ UNCHANGED <<catalog, saved>>

\* add_saved_search and remove_saved_search
Save(u) ==
    /\ saved[u] < SavedLimit
    /\ saved' = [saved EXCEPT ![u] = @ + 1]
    /\ UNCHANGED <<catalog, watch>>

Unsave(u) ==
    /\ saved[u] > 0
    /\ saved' = [saved EXCEPT ![u] = @ - 1]
    /\ UNCHANGED <<catalog, watch>>

\* upsert of one offer, and the purge of a catalog row
Store(t, o, v) ==
    /\ catalog' = [catalog EXCEPT ![t][o] = v]
    /\ UNCHANGED <<watch, saved>>

Expire(t, o) ==
    /\ catalog[t][o] # 0
    /\ catalog' = [catalog EXCEPT ![t][o] = 0]
    /\ UNCHANGED <<watch, saved>>

Next ==
    \/ \E u \in Users, o \in Storable, v \in Versions : Watch(u, o, v)
    \/ \E u \in Users, o \in Offers : Unwatch(u, o)
    \/ \E u \in Users : Save(u) \/ Unsave(u)
    \/ \E t \in Tenants, o \in Storable, v \in Versions : Store(t, o, v)
    \/ \E t \in Tenants, o \in Offers : Expire(t, o)

Spec == Init /\ [][Next]_rows

=============================================================================
