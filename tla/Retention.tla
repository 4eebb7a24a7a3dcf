------------------------------ MODULE Retention ------------------------------
(***************************************************************************)
(* How old a store's data can get: retention.purge_expired, run on a        *)
(* schedule, against the two ways rows are written, pgstore.upsert and      *)
(* userstore.add_watch.  add_watch reads an offer and inserts its copy in   *)
(* one READ COMMITTED transaction, so a purge can commit in between; both   *)
(* deletes of a purge become visible at its commit and are one step.        *)
(*                                                                         *)
(* A row is its age in ticks.  Time does not pass inside a transaction,     *)
(* which lasts seconds where a tick stands for an hour or more.             *)
(***************************************************************************)
EXTENDS Integers

CONSTANTS
    Offers,
    Storable,    \* the offers whose source has a policy that allows storage
    Threads,     \* requests that run add_watch
    MaxAge,      \* max_age_s of the store's license, in ticks
    Margin,      \* RETENTION_MARGIN_S
    Interval,    \* time between two scheduled runs
    MaxFails,    \* bound: runs that fail in a row
    Idle         \* a thread without a transaction

ASSUME RetentionAssumption ==
    /\ Storable \subseteq Offers
    /\ MaxAge \in Nat /\ Margin \in Nat /\ Margin <= MaxAge
    /\ Interval \in Nat \ {0} /\ MaxFails \in Nat
    /\ Idle \notin [offer : Offers, age : Nat]

VARIABLES
    offers,      \* offers[o]: the age of fetched_at, NoRow without a row
    watchlist,   \* watchlist[o]: the age of last_checked_at in some user's copy of o
    txn,         \* txn[w]: what add_watch of thread w has read
    phase,       \* ticks since the last scheduled run
    fails,       \* runs that failed since the last one that did not
    purged       \* history: a run has succeeded

vars == <<offers, watchlist, txn, phase, fails, purged>>

NoRow == -1

\* Mutant of Cutoff: no margin.
CutoffNoMargin == MaxAge

\* max_age_s - margin_s
Cutoff == MaxAge - Margin

Init ==
    /\ offers \in {f \in [Offers -> {NoRow, 0}] : \A o \in Storable : f[o] = NoRow}
    /\ watchlist \in {f \in [Offers -> {NoRow, 0}] : \A o \in Storable : f[o] = NoRow}
    /\ txn = [w \in Threads |-> Idle]
    /\ phase = 0
    /\ fails = 0
    /\ purged = FALSE

Older(rows) == [o \in Offers |-> IF rows[o] = NoRow THEN NoRow ELSE rows[o] + 1]

\* The next run is never late: the scheduler starts it every Interval.
Tick ==
    /\ phase < Interval
    /\ \A w \in Threads : txn[w] = Idle
    /\ offers' = Older(offers) /\ watchlist' = Older(watchlist)
    /\ phase' = phase + 1
    /\ UNCHANGED <<txn, fails, purged>>

\* Mutant of Upsert: no license test.
UpsertAny(o) ==
    /\ offers' = [offers EXCEPT ![o] = 0]
    /\ UNCHANGED <<watchlist, txn, phase, fails, purged>>

\* pgstore.upsert: fetched_at is when the source answered; unstorable rows are skipped
Upsert(o) ==
    /\ o \in Storable
    /\ offers' = [offers EXCEPT ![o] = 0]
    /\ UNCHANGED <<watchlist, txn, phase, fails, purged>>

\* add_watch: SELECT ... fetched_at FROM offers, and the license test
ReadOffer(w, o) ==
    /\ txn[w] = Idle
    /\ offers[o] # NoRow /\ o \in Storable
    /\ txn' = [txn EXCEPT ![w] = [offer |-> o, age |-> offers[o]]]
    /\ UNCHANGED <<offers, watchlist, phase, fails, purged>>

\* add_watch: the INSERT, with the fetched_at it has read, and the commit
InsertWatch(w) ==
    /\ txn[w] # Idle
    /\ watchlist' = [watchlist EXCEPT ![txn[w].offer] = txn[w].age]
    /\ txn' = [txn EXCEPT ![w] = Idle]
    /\ UNCHANGED <<offers, phase, fails, purged>>

\* remove_watch
RemoveWatch(o) ==
    /\ watchlist[o] # NoRow
    /\ watchlist' = [watchlist EXCEPT ![o] = NoRow]
    /\ UNCHANGED <<offers, txn, phase, fails, purged>>

\* _PURGE: no storable source, or stamp < now - Cutoff
Expired(rows, o) == o \notin Storable \/ rows[o] > Cutoff
Purged(rows) == [o \in Offers |-> IF Expired(rows, o) THEN NoRow ELSE rows[o]]

\* Mutant of PurgeExpired: the watchlist is forgotten.
PurgeOffersOnly ==
    /\ phase = Interval
    /\ offers' = Purged(offers)
    /\ phase' = 0 /\ fails' = 0 /\ purged' = TRUE
    /\ UNCHANGED <<txn, watchlist>>

PurgeExpired ==
    /\ phase = Interval
    /\ offers' = Purged(offers) /\ watchlist' = Purged(watchlist)
    /\ phase' = 0 /\ fails' = 0 /\ purged' = TRUE
    /\ UNCHANGED txn

\* main exits 1: the transaction was rolled back
PurgeFails ==
    /\ phase = Interval /\ fails < MaxFails
    /\ phase' = 0 /\ fails' = fails + 1
    /\ UNCHANGED <<offers, watchlist, txn, purged>>

Next ==
    \/ Tick \/ PurgeExpired \/ PurgeFails
    \/ \E o \in Offers : Upsert(o) \/ RemoveWatch(o) \/ \E w \in Threads : ReadOffer(w, o)
    \/ \E w \in Threads : InsertWatch(w)

Spec == Init /\ [][Next]_vars

-----------------------------------------------------------------------------
(* Properties                                                              *)

Ages == Nat \cup {NoRow}

\* Every variable keeps its type.
TypeOK ==
    /\ offers \in [Offers -> Ages]
    /\ watchlist \in [Offers -> Ages]
    /\ txn \in [Threads -> {Idle} \cup [offer : Offers, age : Nat]]
    /\ phase \in 0..Interval
    /\ fails \in 0..MaxFails
    /\ purged \in BOOLEAN

\* "a Best Buy row is gone before 72 hours even when one run fails": no offer of
\* the catalog reaches the license's age limit.
OffersInTime == \A o \in Storable : offers[o] < MaxAge

\* "Watchlist rows go by the same rule": no copy in a watchlist reaches the age
\* limit, although add_watch may insert what a purge has just deleted.
WatchesInTime == \A o \in Storable : watchlist[o] < MaxAge

\* What an add_watch under way costs: a copy it inserts right after a purge has
\* deleted the offer misses that run, so a copy may outlive an offer by the time
\* to one more successful run, and by no more.
WatchesBounded == \A o \in Storable : watchlist[o] <= Cutoff + 2 * ((MaxFails + 1) * Interval)

\* "unstorable rows at once": after the first successful run no row that may not
\* be stored is ever there again, neither written by a search nor copied by an
\* add_watch that was under way.
UnstorableStayGone ==
    purged => \A o \in Offers \ Storable : offers[o] = NoRow /\ watchlist[o] = NoRow

=============================================================================
