------------------------------ MODULE UserStore ------------------------------
(***************************************************************************)
(* The account routes: userstore.add_watch and its companions, the catalog  *)
(* writes of pgstore.upsert, and db.scoped under all of them.  A request    *)
(* takes a pooled connection, opens one READ COMMITTED transaction, scopes  *)
(* it to its user and tenant, and gives both back at commit or rollback.    *)
(* Row-level security filters every statement by the scope of the           *)
(* connection, never by an argument, so the model does the same.            *)
(*                                                                         *)
(* A write and the commit right after it are one step: until the commit no  *)
(* other transaction sees the row, and afterwards every one does.           *)
(***************************************************************************)
EXTENDS Integers, FiniteSets

CONSTANTS
    Requests,      \* request threads
    Conns,         \* the connections of the pool
    Users, Tenants, Offers,
    Storable,      \* the offers whose store's license allows storage (may_store)
    Public,        \* DEFAULT_TENANT
    Hash,          \* Hash[u] is the advisory lock of user u, hashtext(user_id)
    Nobody,        \* no user, no tenant, no request, no connection
    WatchLimit,    \* WATCH_LIMIT
    SavedLimit,    \* SAVED_SEARCH_LIMIT
    MaxVersion     \* bound: catalog writes of one offer

ASSUME UserStoreAssumption ==
    /\ Nobody \notin Requests \cup Conns \cup Users \cup Tenants
    /\ Storable \subseteq Offers /\ Public \in Tenants
    /\ IsFiniteSet(Offers) /\ Offers # {} /\ DOMAIN Hash = Users
    /\ WatchLimit \in Nat \ {0} /\ SavedLimit \in Nat \ {0} /\ MaxVersion \in Nat \ {0}

VARIABLES
    pc, req,    \* per request: its next statement, and what it was asked to do
    snap,       \* per request: the version of the offer it has fetched or selected
    held,       \* per request: its connection
    conn,       \* per connection: the transaction-local role and settings
    lock,       \* per advisory lock: the request that holds it
    catalog,    \* dealfinder.offers: catalog[t][o] is the version stored, 0 for no row
    watch,      \* dealfinder.watchlist: watch[u][o] is the version copied, 0 for no row
    saved,      \* dealfinder.saved_searches: how many rows user u has
    shown       \* per request: <<asker, owner>> for each owner of rows its last listing returned

vars == <<pc, req, snap, held, conn, lock, catalog, watch, saved, shown>>
tables == <<catalog, watch, saved>>
Locks == {Hash[u] : u \in Users}

UserOps == {"add_watch", "remove_watch", "list_watch", "add_saved", "remove_saved"}
Ops == UserOps \cup {"upsert"}
Asks == [op : Ops, user : Users \cup {Nobody}, tenant : Tenants, offer : Offers]
NoAsk == CHOOSE a \in Asks : a.op = "upsert"   \* of a thread that has no request
InTransaction == {"read", "lock", "check", "count", "write"}

\* A connection outside a transaction runs as the login role and has no settings.
Unscoped == [role |-> "login", tenant |-> Nobody, user |-> Nobody]

Free == {c \in Conns : \A r \in Requests : held[r] # c}

\* Mutant of Sees: no owner policy.
SeesAll(r, u) == TRUE

\* The rows of user u that a statement on r's connection sees (watchlist_owner
\* and saved_search_owner): only the login role passes by the policies.
Sees(r, u) == conn[held[r]].role # "app" \/ conn[held[r]].user = u
SeesTenant(r, t) == conn[held[r]].role # "app" \/ conn[held[r]].tenant = t

Watched(u) == {o \in Offers : watch[u][o] # 0}

-----------------------------------------------------------------------------
\* "only a row stored before the license rules": an unstorable offer may be in
\* the catalog from the start, and only so.
LegacyRows == {rows \in [Offers -> {0, 1}] : \A o \in Storable : rows[o] = 0}

Init ==
    /\ pc = [r \in Requests |-> "idle"]
    /\ req = [r \in Requests |-> NoAsk]
    /\ snap = [r \in Requests |-> 0]
    /\ held = [r \in Requests |-> Nobody]
    /\ conn = [c \in Conns |-> Unscoped]
    /\ lock = [h \in Locks |-> Nobody]
    /\ catalog \in [Tenants -> LegacyRows]
    /\ watch = [u \in Users |-> [o \in Offers |-> 0]]
    /\ saved = [u \in Users |-> 0]
    /\ shown = [r \in Requests |-> {}]

\* A route is called.  The account routes have a user (require_account).  A
\* search, which runs for a tenant only, comes with an offer it has just fetched,
\* so its version is at least as new as any that is stored or under way.
Newest(v, o) ==
    /\ \A t \in Tenants : catalog[t][o] <= v
    /\ \A u \in Users : watch[u][o] <= v
    /\ \A q \in Requests : snap[q] <= v

Call(r) ==
    /\ pc[r] = "idle"
    /\ \E a \in Asks, v \in 0..MaxVersion :
         /\ a.op \in UserOps <=> a.user # Nobody
         /\ IF a.op = "upsert" THEN v > 0 /\ Newest(v, a.offer) ELSE v = 0
         /\ req' = [req EXCEPT ![r] = a]
         /\ snap' = [snap EXCEPT ![r] = v]
    /\ pc' = [pc EXCEPT ![r] = "checkout"]
    /\ shown' = [shown EXCEPT ![r] = {}]
    /\ UNCHANGED <<held, conn, lock, tables>>

\* Mutant of Scope: the role is not dropped.
ScopeAsLogin(a) == [role |-> "login", user |-> a.user, tenant |-> a.tenant]

\* db.scoped: SET LOCAL ROLE and the two set_config calls.  Only add_watch and
\* upsert name a tenant; the other calls take the default.
Scope(a) ==
    [role |-> "app", user |-> a.user,
     tenant |-> IF a.op \in {"add_watch", "upsert"} THEN a.tenant ELSE Public]

FirstStatement(op) ==
    CASE op = "add_watch" -> "read" [] op = "add_saved" -> "lock" [] OTHER -> "write"

Checkout(r) ==
    /\ pc[r] = "checkout"
    /\ \E c \in Free : /\ held' = [held EXCEPT ![r] = c]
                       /\ conn' = [conn EXCEPT ![c] = Scope(req[r])]
    /\ pc' = [pc EXCEPT ![r] = FirstStatement(req[r].op)]
    /\ UNCHANGED <<req, snap, lock, tables, shown>>

\* The pool gives up after _CHECKOUT_TIMEOUT_S.
CheckoutTimeout(r) ==
    /\ pc[r] = "checkout" /\ Free = {}
    /\ pc' = [pc EXCEPT ![r] = "idle"]
    /\ snap' = [snap EXCEPT ![r] = 0]
    /\ req' = [req EXCEPT ![r] = NoAsk]
    /\ UNCHANGED <<held, conn, lock, tables, shown>>

\* Mutant of End: a lock of the session, not of the transaction.
EndKeepsLock(r) ==
    /\ pc' = [pc EXCEPT ![r] = "idle"]
    /\ held' = [held EXCEPT ![r] = Nobody]
    /\ conn' = [conn EXCEPT ![held[r]] = Unscoped]
    /\ snap' = [snap EXCEPT ![r] = 0]
    /\ req' = [req EXCEPT ![r] = NoAsk]
    /\ UNCHANGED lock

\* The transaction ends, by commit or rollback: the settings, the advisory lock
\* and the connection go with it.
End(r) ==
    /\ pc' = [pc EXCEPT ![r] = "idle"]
    /\ held' = [held EXCEPT ![r] = Nobody]
    /\ conn' = [conn EXCEPT ![held[r]] = Unscoped]
    /\ lock' = [h \in Locks |-> IF lock[h] = r THEN Nobody ELSE lock[h]]
    /\ snap' = [snap EXCEPT ![r] = 0]
    /\ req' = [req EXCEPT ![r] = NoAsk]

Rollback(r) == End(r) /\ UNCHANGED <<tables, shown>>

\* A statement fails, or the thread dies: nothing was written.
Fail(r) == pc[r] \in InTransaction /\ Rollback(r)

\* Mutant of Watchable: no license test.
WatchableAny(r, t) == SeesTenant(r, t) /\ catalog[t][req[r].offer] # 0

\* add_watch: SELECT ... FROM offers, before the lock, and the license test.
\* No row, or one that may not be stored: LookupError.
Watchable(r, t) ==
    SeesTenant(r, t) /\ catalog[t][req[r].offer] # 0 /\ req[r].offer \in Storable

ReadOffer(r) ==
    /\ pc[r] = "read"
    /\ \E t \in Tenants :
         /\ Watchable(r, t)
         /\ snap' = [snap EXCEPT ![r] = catalog[t][req[r].offer]]
    /\ pc' = [pc EXCEPT ![r] = "lock"]
    /\ UNCHANGED <<req, held, conn, lock, tables, shown>>

OfferMissing(r) ==
    /\ pc[r] = "read"
    /\ ~\E t \in Tenants : Watchable(r, t)
    /\ Rollback(r)

AfterLock(op) == IF op = "add_watch" THEN "check" ELSE "count"

\* Mutant of LockUser: nothing is locked.
LockNobody(r) ==
    /\ pc[r] = "lock"
    /\ pc' = [pc EXCEPT ![r] = AfterLock(req[r].op)]
    /\ UNCHANGED <<req, snap, held, conn, lock, tables, shown>>

\* _lock_user
LockUser(r) ==
    /\ pc[r] = "lock" /\ lock[Hash[req[r].user]] = Nobody
    /\ lock' = [lock EXCEPT ![Hash[req[r].user]] = r]
    /\ pc' = [pc EXCEPT ![r] = AfterLock(req[r].op)]
    /\ UNCHANGED <<req, snap, held, conn, tables, shown>>

\* add_watch: SELECT 1 FROM watchlist WHERE offer_id = %s
AlreadyWatched(r) == \E u \in Users : Sees(r, u) /\ watch[u][req[r].offer] # 0

CheckWatched(r) ==
    /\ pc[r] = "check"
    /\ pc' = [pc EXCEPT ![r] = IF AlreadyWatched(r) THEN "write" ELSE "count"]
    /\ UNCHANGED <<req, snap, held, conn, lock, tables, shown>>

\* SELECT count(*) over the rows the connection sees.  The saved searches of a
\* user are counted, not named; those past the limit do not change the test.
WatchCount(r) == Cardinality({x \in Users \X Offers : Sees(r, x[1]) /\ watch[x[1]][x[2]] # 0})
SavedCount(r) == Cardinality({x \in Users \X (1..SavedLimit) : Sees(r, x[1]) /\ x[2] <= saved[x[1]]})

HasRoom(r) ==
    \/ req[r].op = "add_watch" /\ WatchCount(r) < WatchLimit
    \/ req[r].op = "add_saved" /\ SavedCount(r) < SavedLimit

CountRows(r) ==
    /\ pc[r] = "count" /\ HasRoom(r)
    /\ pc' = [pc EXCEPT ![r] = "write"]
    /\ UNCHANGED <<req, snap, held, conn, lock, tables, shown>>

\* LimitExceeded
AtLimit(r) == pc[r] = "count" /\ ~HasRoom(r) /\ Rollback(r)

\* INSERT ... ON CONFLICT (user_id, offer_id) DO UPDATE, and the commit.  The
\* policies check a written row as they filter a read one.
InsertWatch(r) ==
    /\ pc[r] = "write" /\ req[r].op = "add_watch"
    /\ Sees(r, req[r].user)
    /\ watch' = [watch EXCEPT ![req[r].user][req[r].offer] = snap[r]]
    /\ End(r)
    /\ UNCHANGED <<catalog, saved, shown>>

InsertSaved(r) ==
    /\ pc[r] = "write" /\ req[r].op = "add_saved"
    /\ Sees(r, req[r].user)
    /\ saved' = [saved EXCEPT ![req[r].user] = @ + 1]
    /\ End(r)
    /\ UNCHANGED <<catalog, watch, shown>>

\* remove_watch: DELETE ... WHERE offer_id = %s, without the lock
RemoveWatch(r) ==
    /\ pc[r] = "write" /\ req[r].op = "remove_watch"
    /\ watch' = [u \in Users |-> IF Sees(r, u) THEN [watch[u] EXCEPT ![req[r].offer] = 0] ELSE watch[u]]
    /\ End(r)
    /\ UNCHANGED <<catalog, saved, shown>>

\* remove_saved_search: DELETE ... WHERE id = %s, of a row the connection sees
RemoveSaved(r) ==
    /\ pc[r] = "write" /\ req[r].op = "remove_saved"
    /\ \/ \E u \in Users : /\ Sees(r, u) /\ saved[u] > 0
                           /\ saved' = [saved EXCEPT ![u] = @ - 1]
       \/ UNCHANGED saved
    /\ End(r)
    /\ UNCHANGED <<catalog, watch, shown>>

\* list_watch and list_saved_searches
List(r) ==
    /\ pc[r] = "write" /\ req[r].op = "list_watch"
    /\ shown' = [shown EXCEPT ![r] = {req[r].user} \X {u \in Users : Sees(r, u) /\ (Watched(u) # {} \/ saved[u] > 0)}]
    /\ End(r)
    /\ UNCHANGED tables

\* pgstore.upsert of one offer; a row whose store forbids storage is skipped
Upsert(r) ==
    /\ pc[r] = "write" /\ req[r].op = "upsert"
    /\ \/ /\ req[r].offer \in Storable /\ SeesTenant(r, req[r].tenant)
          /\ catalog' = [catalog EXCEPT ![req[r].tenant][req[r].offer] = snap[r]]
       \/ req[r].offer \notin Storable /\ UNCHANGED catalog
    /\ End(r)
    /\ UNCHANGED <<watch, saved, shown>>

\* The purge job, in a transaction of its own as the job role, drops any row.
Purge ==
    /\ \/ \E t \in Tenants, o \in Offers :
            catalog[t][o] # 0 /\ catalog' = [catalog EXCEPT ![t][o] = 0] /\ UNCHANGED watch
       \/ \E u \in Users, o \in Offers :
            watch[u][o] # 0 /\ watch' = [watch EXCEPT ![u][o] = 0] /\ UNCHANGED catalog
    /\ UNCHANGED <<pc, req, snap, held, conn, lock, saved, shown>>

Statement(r) ==
    \/ Checkout(r) \/ CheckoutTimeout(r) \/ ReadOffer(r) \/ OfferMissing(r)
    \/ CheckWatched(r) \/ CountRows(r) \/ AtLimit(r) \/ InsertWatch(r) \/ InsertSaved(r)
    \/ RemoveWatch(r) \/ RemoveSaved(r) \/ List(r) \/ Upsert(r)

Next == Purge \/ \E r \in Requests : Call(r) \/ LockUser(r) \/ Fail(r) \/ Statement(r)

\* A started request keeps being scheduled, and Postgres queues waiters of a lock
\* in order, so none is passed over for ever.
Fairness == \A r \in Requests : WF_vars(Statement(r)) /\ SF_vars(LockUser(r))

Spec == Init /\ [][Next]_vars /\ Fairness

-----------------------------------------------------------------------------
(* Properties                                                              *)

\* Every variable keeps its type.
TypeOK ==
    /\ pc \in [Requests -> {"idle", "checkout"} \cup InTransaction]
    /\ req \in [Requests -> Asks]
    /\ snap \in [Requests -> 0..MaxVersion]
    /\ held \in [Requests -> Conns \cup {Nobody}]
    /\ conn \in [Conns -> [role : {"login", "app"}, tenant : Tenants \cup {Nobody},
                           user : Users \cup {Nobody}]]
    /\ lock \in [Locks -> Requests \cup {Nobody}]
    /\ catalog \in [Tenants -> [Offers -> 0..MaxVersion]]
    /\ watch \in [Users -> [Offers -> 0..MaxVersion]]
    /\ saved \in [Users -> Nat]
    /\ shown \in [Requests -> SUBSET ((Users \cup {Nobody}) \X Users)]

\* _lock_user: "a count-then-insert cap can't be raced past".  Whatever requests
\* of a user run at once, and although deletes take no lock, no user ever holds
\* more than WATCH_LIMIT watches.
WatchCap == \A u \in Users : Cardinality(Watched(u)) <= WatchLimit

\* The saved searches are capped the same way, under the same lock.
SavedCap == \A u \in Users : saved[u] <= SavedLimit

\* Both caps: a user's requests of either kind, in any order and any number at
\* once, leave both tables within their limits.
Caps == WatchCap /\ SavedCap

\* db.py: "A pooled connection handed to the next request carries no previous
\* user's role or id".  A connection in use has exactly the scope of the request
\* that holds it, no two requests hold one, and a free one has no scope.
ScopeMatches ==
    /\ \A r \in Requests : pc[r] \in InTransaction <=> held[r] # Nobody
    /\ \A r \in Requests : held[r] # Nobody => conn[held[r]] = Scope(req[r])
    /\ \A r, q \in Requests : held[r] # Nobody /\ held[r] = held[q] => r = q
    /\ \A c \in Free : conn[c] = Unscoped

\* Row-level security: a request changes no row of another user and no catalog
\* row of another tenant (the purge job, which no request runs, may).
Isolation ==
    [][pc' # pc =>
         /\ \A u \in Users : (watch'[u] # watch[u] \/ saved'[u] # saved[u]) =>
               \E r \in Requests : pc'[r] # pc[r] /\ req[r].user = u
         /\ \A t \in Tenants : catalog'[t] # catalog[t] =>
               \E r \in Requests : pc'[r] # pc[r] /\ req[r].tenant = t]_vars

\* userstore: "a user only ever sees their own rows".
ListsOwnRows == \A r \in Requests : \A x \in shown[r] : x[1] = x[2]

\* Waiting for a connection, and for a lock while holding a connection, never
\* blocks the pool for good: every request ends.
RequestEnds == \A r \in Requests : pc[r] = "checkout" ~> pc[r] = "idle"

\* The license test of add_watch: no interleaving lets a user hold a copy of an
\* offer that may not be stored, although legacy rows of it are in the catalog.
OnlyLicensedCopies == \A u \in Users : Watched(u) \subseteq Storable

\* The store behaves as if each request ran alone, at the moment it writes: the
\* locks, the pooled connections and the row filter leave no trace, a cap that was
\* counted before is met in the state that is written to, and a request writes one
\* row at most.
Account == INSTANCE Accounts
RequestsAreAtomic == Account!Spec

\* add_watch: "Re-watching an item updates its target and refreshes its price".
\* A watch that has the catalog's price keeps it when the item is watched again.
RewatchRefreshes ==
    [][\A u \in Users, o \in Offers :
          /\ watch[u][o] # 0 /\ watch'[u][o] # 0
          /\ \A t \in Tenants : catalog[t][o] = watch[u][o]
          => watch'[u][o] = watch[u][o]]_vars

=============================================================================
