--------------------------- MODULE UserStoreProofs ---------------------------
(***************************************************************************)
(* Proofs about UserStore, for any number of request threads, connections,  *)
(* users, tenants and offers, and any limits.  The caps are not inductive:  *)
(* what makes them so is that a request past the lock still holds it        *)
(* (LockHeld), hence that the room it counted is still there (RoomKept),    *)
(* and that its connection sees its own rows only (ScopeMatches).  With it,  *)
(* the routes implement Accounts: each request acts at once, at its write.  *)
(***************************************************************************)
EXTENDS UserStore, TLAPS, FiniteSetTheorems

AddOps == {"add_watch", "add_saved"}

\* What a request can be asked at each statement.
RequestShape ==
    \A r \in Requests :
        /\ pc[r] # "idle" => (req[r].op \in UserOps <=> req[r].user # Nobody)
        /\ pc[r] \in {"read", "check"} => req[r].op = "add_watch"
        /\ pc[r] \in {"lock", "count"} => req[r].op \in AddOps
        /\ pc[r] \in {"lock", "check", "count", "write"} /\ req[r].op = "add_watch"
              => req[r].offer \in Storable

Locked(r) == pc[r] \in {"check", "count"} \/ (pc[r] = "write" /\ req[r].op \in AddOps)

LockHeld == \A r \in Requests : Locked(r) => lock[Hash[req[r].user]] = r

RoomKept ==
    \A r \in Requests : pc[r] = "write" =>
        /\ req[r].op = "add_watch" =>
              Cardinality(Watched(req[r].user) \cup {req[r].offer}) <= WatchLimit
        /\ req[r].op = "add_saved" => saved[req[r].user] < SavedLimit

IInv ==
    /\ TypeOK /\ ScopeMatches /\ RequestShape /\ LockHeld
    /\ RoomKept /\ WatchCap /\ SavedCap /\ OnlyLicensedCopies

-----------------------------------------------------------------------------
(* Types                                                                   *)

\* Writing one cell of a row keeps the row's type.
LEMMA RowType ==
    ASSUME NEW B, NEW C, NEW f \in [B -> C], NEW b, NEW c \in C
    PROVE  [f EXCEPT ![b] = c] \in [B -> C]
OBVIOUS

\* Writing one cell of a table keeps the table's type.
LEMMA CellType ==
    ASSUME NEW A, NEW B, NEW C, NEW f \in [A -> [B -> C]], NEW a, NEW b, NEW c \in C
    PROVE  [f EXCEPT ![a][b] = c] \in [A -> [B -> C]]
<1>1. \A x \in A : [f[x] EXCEPT ![b] = c] \in [B -> C]
  OBVIOUS
<1> QED
  BY <1>1

\* An idle thread's placeholder is one of the requests.
LEMMA NoAskType == NoAsk \in Asks
<1>1. \E a \in Asks : a.op = "upsert"
  <2>1. PICK o \in Offers : TRUE
    BY UserStoreAssumption
  <2>2. [op |-> "upsert", user |-> Nobody, tenant |-> Public, offer |-> o] \in Asks
    BY UserStoreAssumption DEF Asks, Ops
  <2> QED
    BY <2>2
<1> QED
  BY <1>1 DEF NoAsk

\* What the end of a transaction does to everything but the tables.
LEMMA EndTypes ==
    ASSUME TypeOK, NEW r \in Requests, End(r)
    PROVE  /\ pc' \in [Requests -> {"idle", "checkout"} \cup InTransaction]
           /\ req' \in [Requests -> Asks]
           /\ snap' \in [Requests -> 0..MaxVersion]
           /\ held' \in [Requests -> Conns \cup {Nobody}]
           /\ conn' \in [Conns -> [role : {"login", "app"}, tenant : Tenants \cup {Nobody},
                                   user : Users \cup {Nobody}]]
           /\ lock' \in [Locks -> Requests \cup {Nobody}]
<1> USE UserStoreAssumption
<1>1. pc' \in [Requests -> {"idle", "checkout"} \cup InTransaction]
  BY DEF TypeOK, End
<1>2. req' \in [Requests -> Asks]
  BY NoAskType DEF TypeOK, End
<1>3. snap' \in [Requests -> 0..MaxVersion]
  BY DEF TypeOK, End
<1>4. held' \in [Requests -> Conns \cup {Nobody}]
  BY DEF TypeOK, End
<1>5. conn' \in [Conns -> [role : {"login", "app"}, tenant : Tenants \cup {Nobody},
                           user : Users \cup {Nobody}]]
  BY DEF TypeOK, End, Unscoped
<1>6. lock' \in [Locks -> Requests \cup {Nobody}]
  BY DEF TypeOK, End
<1> QED
  BY <1>1, <1>2, <1>3, <1>4, <1>5, <1>6

\* The scope of a request is a scope a connection can have.
LEMMA ScopeType ==
    ASSUME NEW a \in Asks
    PROVE  Scope(a) \in [role : {"login", "app"}, tenant : Tenants \cup {Nobody},
                         user : Users \cup {Nobody}]
BY UserStoreAssumption DEF Asks, Scope

\* The user of a request of an account route is a user.
LEMMA UserType ==
    ASSUME TypeOK, RequestShape, NEW r \in Requests, pc[r] # "idle", req[r].op \in UserOps
    PROVE  /\ req[r].user \in Users
           /\ req[r].offer \in Offers
           /\ Hash[req[r].user] \in Locks
BY DEF TypeOK, RequestShape, Asks, Locks

\* Every step keeps the types.
LEMMA TypeStep ==
    ASSUME TypeOK, RequestShape, [Next]_vars
    PROVE  TypeOK'
<1> USE UserStoreAssumption
<1>0. CASE UNCHANGED vars
  BY <1>0 DEF vars, TypeOK
<1>1. CASE Purge
  <2>0. 0 \in 0..MaxVersion
    OBVIOUS
  <2>1. catalog' \in [Tenants -> [Offers -> 0..MaxVersion]]
    <3>1. \A t, o : [catalog EXCEPT ![t][o] = 0] \in [Tenants -> [Offers -> 0..MaxVersion]]
      BY <2>0, CellType DEF TypeOK
    <3>2. catalog' = catalog \/ \E t, o : catalog' = [catalog EXCEPT ![t][o] = 0]
      BY <1>1, Zenon DEF Purge
    <3>3. CASE catalog' = catalog
      BY <3>3 DEF TypeOK
    <3>4. CASE \E t, o : catalog' = [catalog EXCEPT ![t][o] = 0]
      <4>1. PICK t, o : catalog' = [catalog EXCEPT ![t][o] = 0]
        BY <3>4
      <4> QED
        BY <3>1, <4>1
    <3> QED
      BY <3>2, <3>3, <3>4
  <2>2. watch' \in [Users -> [Offers -> 0..MaxVersion]]
    <3>1. \A u, o : [watch EXCEPT ![u][o] = 0] \in [Users -> [Offers -> 0..MaxVersion]]
      BY <2>0, CellType DEF TypeOK
    <3>2. watch' = watch \/ \E u, o : watch' = [watch EXCEPT ![u][o] = 0]
      BY <1>1, Zenon DEF Purge
    <3>3. CASE watch' = watch
      BY <3>3 DEF TypeOK
    <3>4. CASE \E u, o : watch' = [watch EXCEPT ![u][o] = 0]
      <4>1. PICK u, o : watch' = [watch EXCEPT ![u][o] = 0]
        BY <3>4
      <4> QED
        BY <3>1, <4>1
    <3> QED
      BY <3>2, <3>3, <3>4
  <2> QED
    BY <1>1, <2>1, <2>2 DEF Purge, TypeOK
<1>2. ASSUME NEW r \in Requests, Call(r)
      PROVE  TypeOK'
  <2>1. PICK a \in Asks, v \in 0..MaxVersion :
            req' = [req EXCEPT ![r] = a] /\ snap' = [snap EXCEPT ![r] = v]
    BY <1>2 DEF Call
  <2>2. req' \in [Requests -> Asks] /\ snap' \in [Requests -> 0..MaxVersion]
    BY <2>1 DEF TypeOK
  <2>3. pc' \in [Requests -> {"idle", "checkout"} \cup InTransaction]
        /\ shown' \in [Requests -> SUBSET ((Users \cup {Nobody}) \X Users)]
    BY <1>2 DEF Call, TypeOK
  <2> QED
    BY <1>2, <2>2, <2>3 DEF Call, TypeOK, tables
<1>3. ASSUME NEW r \in Requests, Checkout(r)
      PROVE  TypeOK'
  <2>1. PICK c \in Conns : held' = [held EXCEPT ![r] = c] /\ conn' = [conn EXCEPT ![c] = Scope(req[r])]
    BY <1>3 DEF Checkout, Free
  <2>2. req[r] \in Asks
    BY DEF TypeOK
  <2>3. conn' \in [Conns -> [role : {"login", "app"}, tenant : Tenants \cup {Nobody},
                             user : Users \cup {Nobody}]]
    BY <2>1, <2>2, ScopeType DEF TypeOK
  <2>4. held' \in [Requests -> Conns \cup {Nobody}]
    BY <2>1 DEF TypeOK
  <2>5. pc' \in [Requests -> {"idle", "checkout"} \cup InTransaction]
    BY <1>3 DEF Checkout, TypeOK, FirstStatement, InTransaction
  <2> QED
    BY <1>3, <2>3, <2>4, <2>5 DEF Checkout, TypeOK, tables
<1>4. ASSUME NEW r \in Requests, CheckoutTimeout(r)
      PROVE  TypeOK'
  <2>1. req' \in [Requests -> Asks]
    BY <1>4, NoAskType DEF CheckoutTimeout, TypeOK
  <2> QED
    BY <1>4, <2>1 DEF CheckoutTimeout, TypeOK, tables
<1>5. ASSUME NEW r \in Requests, ReadOffer(r)
      PROVE  TypeOK'
  <2>1. PICK t \in Tenants : snap' = [snap EXCEPT ![r] = catalog[t][req[r].offer]]
    BY <1>5 DEF ReadOffer
  <2>2. catalog[t][req[r].offer] \in 0..MaxVersion
    BY DEF TypeOK, Asks
  <2>3. snap' \in [Requests -> 0..MaxVersion]
    BY <2>1, <2>2 DEF TypeOK
  <2> QED
    BY <1>5, <2>3 DEF ReadOffer, TypeOK, tables, InTransaction
<1>6. ASSUME NEW r \in Requests, LockUser(r)
      PROVE  TypeOK'
  BY <1>6 DEF LockUser, AfterLock, TypeOK, tables, InTransaction
<1>7. ASSUME NEW r \in Requests, CheckWatched(r) \/ CountRows(r)
      PROVE  TypeOK'
  <2>1. pc' \in [Requests -> {"idle", "checkout"} \cup InTransaction]
    <3>1. PICK x \in {"write", "count"} : pc' = [pc EXCEPT ![r] = x]
      BY <1>7 DEF CheckWatched, CountRows
    <3> QED
      BY <3>1 DEF TypeOK, InTransaction
  <2> QED
    BY <1>7, <2>1 DEF CheckWatched, CountRows, TypeOK, tables
<1>8. ASSUME NEW r \in Requests, OfferMissing(r) \/ AtLimit(r) \/ Fail(r)
      PROVE  TypeOK'
  <2>1. End(r) /\ UNCHANGED <<tables, shown>>
    BY <1>8 DEF OfferMissing, AtLimit, Fail, Rollback
  <2> QED
    BY <2>1, EndTypes DEF TypeOK, tables
<1>9. ASSUME NEW r \in Requests, InsertWatch(r)
      PROVE  TypeOK'
  <2>1. watch' \in [Users -> [Offers -> 0..MaxVersion]]
    <3>1. \A u, o : [watch EXCEPT ![u][o] = snap[r]] \in [Users -> [Offers -> 0..MaxVersion]]
      BY CellType DEF TypeOK
    <3> QED
      BY <1>9, <3>1, Zenon DEF InsertWatch
  <2>2. End(r) /\ UNCHANGED <<catalog, saved, shown>>
    BY <1>9 DEF InsertWatch
  <2> QED
    BY <2>1, <2>2, EndTypes DEF TypeOK
<1>10. ASSUME NEW r \in Requests, InsertSaved(r)
       PROVE  TypeOK'
  <2>1. saved' \in [Users -> Nat]
    <3>1. saved[req[r].user] + 1 \in Nat
      BY <1>10, UserType DEF InsertSaved, TypeOK, UserOps
    <3> QED
      BY <1>10, <3>1 DEF InsertSaved, TypeOK
  <2>2. End(r) /\ UNCHANGED <<catalog, watch, shown>>
    BY <1>10 DEF InsertSaved
  <2> QED
    BY <2>1, <2>2, EndTypes DEF TypeOK
<1>11. ASSUME NEW r \in Requests, RemoveWatch(r)
       PROVE  TypeOK'
  <2>1. watch' \in [Users -> [Offers -> 0..MaxVersion]]
    <3>1. \A u \in Users : [watch[u] EXCEPT ![req[r].offer] = 0] \in [Offers -> 0..MaxVersion]
      <4>1. 0 \in 0..MaxVersion
        OBVIOUS
      <4> QED
        BY <4>1, RowType DEF TypeOK
    <3>2. \A u \in Users : watch[u] \in [Offers -> 0..MaxVersion]
      BY DEF TypeOK
    <3> QED
      BY <1>11, <3>1, <3>2 DEF RemoveWatch
  <2>2. End(r) /\ UNCHANGED <<catalog, saved, shown>>
    BY <1>11 DEF RemoveWatch
  <2> QED
    BY <2>1, <2>2, EndTypes DEF TypeOK
<1>12. ASSUME NEW r \in Requests, RemoveSaved(r)
       PROVE  TypeOK'
  <2>1. saved' \in [Users -> Nat]
    BY <1>12 DEF RemoveSaved, TypeOK
  <2>2. End(r) /\ UNCHANGED <<catalog, watch, shown>>
    BY <1>12 DEF RemoveSaved
  <2> QED
    BY <2>1, <2>2, EndTypes DEF TypeOK
<1>13. ASSUME NEW r \in Requests, List(r)
       PROVE  TypeOK'
  <2>1. End(r) /\ UNCHANGED tables
    BY <1>13 DEF List
  <2>2. req[r].user \in Users \cup {Nobody}
    BY DEF TypeOK, Asks
  <2>3. shown' \in [Requests -> SUBSET ((Users \cup {Nobody}) \X Users)]
    BY <1>13, <2>2 DEF List, TypeOK
  <2> QED
    BY <2>1, <2>3, EndTypes DEF TypeOK, tables
<1>14. ASSUME NEW r \in Requests, Upsert(r)
       PROVE  TypeOK'
  <2>1. catalog' \in [Tenants -> [Offers -> 0..MaxVersion]]
    <3>1. \A t, o : [catalog EXCEPT ![t][o] = snap[r]] \in [Tenants -> [Offers -> 0..MaxVersion]]
      BY CellType DEF TypeOK
    <3>2. catalog' = catalog \/ \E t, o : catalog' = [catalog EXCEPT ![t][o] = snap[r]]
      BY <1>14, Zenon DEF Upsert
    <3>3. CASE catalog' = catalog
      BY <3>3 DEF TypeOK
    <3>4. CASE \E t, o : catalog' = [catalog EXCEPT ![t][o] = snap[r]]
      <4>1. PICK t, o : catalog' = [catalog EXCEPT ![t][o] = snap[r]]
        BY <3>4
      <4> QED
        BY <3>1, <4>1
    <3> QED
      BY <3>2, <3>3, <3>4
  <2>2. End(r) /\ UNCHANGED <<watch, saved, shown>>
    BY <1>14 DEF Upsert
  <2> QED
    BY <2>1, <2>2, EndTypes DEF TypeOK
<1> QED
  BY <1>0, <1>1, <1>2, <1>3, <1>4, <1>5, <1>6, <1>7, <1>8, <1>9, <1>10, <1>11, <1>12, <1>13, <1>14
     DEF Next, Statement

-----------------------------------------------------------------------------
(* Scopes, shapes and locks                                                 *)

\* A statement that neither starts nor ends a transaction.
Moves(r) ==
    /\ pc[r] \in InTransaction
    /\ \E x \in InTransaction : pc' = [pc EXCEPT ![r] = x]
    /\ UNCHANGED <<req, held, conn>>

\* The kinds of step, as far as the pool is concerned.
LEMMA StepKinds ==
    ASSUME TypeOK, [Next]_vars
    PROVE  \/ UNCHANGED <<pc, req, held, conn, lock>>
           \/ \E r \in Requests : Call(r) \/ Checkout(r) \/ CheckoutTimeout(r) \/ Moves(r)
                                 \/ (pc[r] \in InTransaction /\ End(r))
<1>0. CASE UNCHANGED vars
  BY <1>0 DEF vars
<1>1. CASE Purge
  BY <1>1 DEF Purge
<1>2. ASSUME NEW r \in Requests, ReadOffer(r) \/ LockUser(r) \/ CheckWatched(r) \/ CountRows(r)
      PROVE  Moves(r)
  <2>1. CASE ReadOffer(r)
    BY <2>1 DEF ReadOffer, Moves, InTransaction
  <2>2. CASE LockUser(r)
    BY <2>2 DEF LockUser, AfterLock, Moves, InTransaction
  <2>3. CASE CheckWatched(r)
    BY <2>3 DEF CheckWatched, Moves, InTransaction
  <2>4. CASE CountRows(r)
    BY <2>4 DEF CountRows, Moves, InTransaction
  <2> QED
    BY <1>2, <2>1, <2>2, <2>3, <2>4
<1>3. ASSUME NEW r \in Requests,
             OfferMissing(r) \/ AtLimit(r) \/ Fail(r) \/ InsertWatch(r) \/ InsertSaved(r)
               \/ RemoveWatch(r) \/ RemoveSaved(r) \/ List(r) \/ Upsert(r)
      PROVE  pc[r] \in InTransaction /\ End(r)
  BY <1>3 DEF OfferMissing, AtLimit, Fail, Rollback, InsertWatch, InsertSaved, RemoveWatch,
              RemoveSaved, List, Upsert, InTransaction
<1> QED
  BY <1>0, <1>1, <1>2, <1>3 DEF Next, Statement

\* Every step keeps the scopes of the pooled connections right.
LEMMA ScopeStep ==
    ASSUME TypeOK, TypeOK', ScopeMatches, [Next]_vars
    PROVE  ScopeMatches'
<1> USE UserStoreAssumption
<1>0. CASE UNCHANGED <<pc, req, held, conn, lock>>
  BY <1>0 DEF ScopeMatches, Free
<1>1. ASSUME NEW r \in Requests, Call(r) \/ CheckoutTimeout(r)
      PROVE  ScopeMatches'
  <2>1. UNCHANGED <<held, conn>> /\ pc[r] \notin InTransaction
    BY <1>1 DEF Call, CheckoutTimeout, InTransaction
  <2>2. \A q \in Requests : q # r => pc'[q] = pc[q] /\ req'[q] = req[q]
    BY <1>1 DEF Call, CheckoutTimeout, TypeOK
  <2>3. pc'[r] \notin InTransaction
    BY <1>1 DEF Call, CheckoutTimeout, TypeOK, InTransaction
  <2>4. held[r] = Nobody
    BY <2>1 DEF ScopeMatches
  <2> QED
    BY <2>1, <2>2, <2>3, <2>4 DEF ScopeMatches, Free
<1>2. ASSUME NEW r \in Requests, Checkout(r)
      PROVE  ScopeMatches'
  <2>1. PICK c \in Free : held' = [held EXCEPT ![r] = c] /\ conn' = [conn EXCEPT ![c] = Scope(req[r])]
    BY <1>2 DEF Checkout
  <2>2. c \in Conns /\ c # Nobody /\ \A q \in Requests : held[q] # c
    BY <2>1 DEF Free
  <2>3. req' = req /\ pc'[r] \in InTransaction /\ \A q \in Requests : q # r => pc'[q] = pc[q]
    BY <1>2 DEF Checkout, TypeOK, FirstStatement, InTransaction
  <2>4. \A q \in Requests : held'[q] = IF q = r THEN c ELSE held[q]
    BY <2>1 DEF TypeOK
  <2>5. \A d \in Conns : conn'[d] = IF d = c THEN Scope(req[r]) ELSE conn[d]
    BY <2>1 DEF TypeOK
  <2>6. \A q \in Requests : held[q] \in Conns \cup {Nobody}
    BY DEF TypeOK
  <2>7. \A q \in Requests : pc'[q] \in InTransaction <=> held'[q] # Nobody
    BY <2>2, <2>3, <2>4 DEF ScopeMatches
  <2>8. \A q \in Requests : held'[q] # Nobody => conn'[held'[q]] = Scope(req'[q])
    BY <2>2, <2>3, <2>4, <2>5, <2>6 DEF ScopeMatches
  <2>9. \A q, x \in Requests : held'[q] # Nobody /\ held'[q] = held'[x] => q = x
    BY <2>2, <2>4 DEF ScopeMatches
  <2>10. \A d \in Conns : (\A q \in Requests : held'[q] # d) => conn'[d] = Unscoped
    <3>1. held[r] = Nobody
      BY <1>2 DEF Checkout, ScopeMatches, InTransaction
    <3> QED
      BY <2>4, <2>5, <3>1 DEF ScopeMatches, Free
  <2> QED
    BY <2>7, <2>8, <2>9, <2>10 DEF ScopeMatches, Free
<1>3. ASSUME NEW r \in Requests, Moves(r)
      PROVE  ScopeMatches'
  <2>1. UNCHANGED <<req, held, conn>> /\ pc[r] \in InTransaction /\ pc'[r] \in InTransaction
    BY <1>3 DEF Moves, TypeOK
  <2>2. \A q \in Requests : q # r => pc'[q] = pc[q]
    BY <1>3 DEF Moves, TypeOK
  <2> QED
    BY <2>1, <2>2 DEF ScopeMatches, Free
<1>4. ASSUME NEW r \in Requests, pc[r] \in InTransaction, End(r)
      PROVE  ScopeMatches'
  <2>1. held[r] \in Conns /\ held[r] # Nobody
    BY <1>4 DEF ScopeMatches, TypeOK
  <2>2. \A q \in Requests : q # r => pc'[q] = pc[q] /\ held'[q] = held[q] /\ req'[q] = req[q]
    BY <1>4 DEF End, TypeOK
  <2>3. pc'[r] \notin InTransaction /\ held'[r] = Nobody
    BY <1>4 DEF End, TypeOK, InTransaction
  <2>4. \A d \in Conns : conn'[d] = IF d = held[r] THEN Unscoped ELSE conn[d]
    BY <1>4, <2>1 DEF End, TypeOK
  <2>5. \A q \in Requests : q # r /\ held[q] # Nobody => held[q] # held[r] /\ held[q] \in Conns
    BY DEF ScopeMatches, TypeOK
  <2>6. \A q \in Requests : pc'[q] \in InTransaction <=> held'[q] # Nobody
    BY <2>2, <2>3 DEF ScopeMatches
  <2>7. \A q \in Requests : held'[q] # Nobody => conn'[held'[q]] = Scope(req'[q])
    BY <2>2, <2>3, <2>4, <2>5 DEF ScopeMatches
  <2>8. \A q, x \in Requests : held'[q] # Nobody /\ held'[q] = held'[x] => q = x
    BY <2>2, <2>3 DEF ScopeMatches
  <2>9. \A d \in Conns : (\A q \in Requests : held'[q] # d) => conn'[d] = Unscoped
    BY <2>1, <2>2, <2>3, <2>4 DEF ScopeMatches, Free
  <2> QED
    BY <2>6, <2>7, <2>8, <2>9 DEF ScopeMatches, Free
<1> QED
  BY <1>0, <1>1, <1>2, <1>3, <1>4, StepKinds

\* Every step keeps what a request can be asked at each statement.
LEMMA ShapeStep ==
    ASSUME TypeOK, TypeOK', RequestShape, [Next]_vars
    PROVE  RequestShape'
<1> USE UserStoreAssumption
<1>0. CASE UNCHANGED <<pc, req, held, conn, lock>>
  BY <1>0 DEF RequestShape
<1>1. ASSUME NEW r \in Requests, Call(r)
      PROVE  RequestShape'
  <2>1. PICK a \in Asks : (a.op \in UserOps <=> a.user # Nobody) /\ req' = [req EXCEPT ![r] = a]
    BY <1>1 DEF Call
  <2>2. pc'[r] = "checkout" /\ req'[r] = a
    BY <1>1, <2>1 DEF Call, TypeOK
  <2>3. \A q \in Requests : q # r => pc'[q] = pc[q] /\ req'[q] = req[q]
    BY <1>1, <2>1 DEF Call, TypeOK
  <2> QED
    BY <2>1, <2>2, <2>3 DEF RequestShape
<1>2. ASSUME NEW r \in Requests, Checkout(r)
      PROVE  RequestShape'
  BY <1>2 DEF Checkout, FirstStatement, RequestShape, TypeOK, AddOps
<1>3. ASSUME NEW r \in Requests, CheckoutTimeout(r) \/ End(r)
      PROVE  RequestShape'
  <2>1. pc'[r] = "idle"
    BY <1>3 DEF CheckoutTimeout, End, TypeOK
  <2>2. \A q \in Requests : q # r => pc'[q] = pc[q] /\ req'[q] = req[q]
    BY <1>3 DEF CheckoutTimeout, End, TypeOK
  <2> QED
    BY <2>1, <2>2 DEF RequestShape
<1>4. ASSUME NEW r \in Requests, ReadOffer(r) \/ LockUser(r) \/ CheckWatched(r) \/ CountRows(r)
      PROVE  RequestShape'
  <2>1. req' = req /\ \A q \in Requests : q # r => pc'[q] = pc[q]
    BY <1>4 DEF ReadOffer, LockUser, CheckWatched, CountRows, TypeOK
  <2>2. pc[r] = "read" => pc'[r] = "lock" /\ req[r].offer \in Storable
    BY <1>4 DEF ReadOffer, LockUser, CheckWatched, CountRows, Watchable, TypeOK
  <2>3. pc[r] = "lock" => pc'[r] = IF req[r].op = "add_watch" THEN "check" ELSE "count"
    BY <1>4 DEF ReadOffer, LockUser, CheckWatched, CountRows, AfterLock, TypeOK
  <2>4. pc[r] = "check" => pc'[r] \in {"write", "count"}
    BY <1>4 DEF ReadOffer, LockUser, CheckWatched, CountRows, TypeOK
  <2>5. pc[r] = "count" => pc'[r] = "write"
    BY <1>4 DEF ReadOffer, LockUser, CheckWatched, CountRows, TypeOK
  <2>6. pc[r] \in {"read", "lock", "check", "count"}
    BY <1>4 DEF ReadOffer, LockUser, CheckWatched, CountRows
  <2> QED
    BY <2>1, <2>2, <2>3, <2>4, <2>5, <2>6 DEF RequestShape, AddOps
<1>5. ASSUME NEW r \in Requests,
             OfferMissing(r) \/ AtLimit(r) \/ Fail(r) \/ InsertWatch(r) \/ InsertSaved(r)
               \/ RemoveWatch(r) \/ RemoveSaved(r) \/ List(r) \/ Upsert(r)
      PROVE  End(r)
  BY <1>5 DEF OfferMissing, AtLimit, Fail, Rollback, InsertWatch, InsertSaved, RemoveWatch,
              RemoveSaved, List, Upsert
<1>6. CASE UNCHANGED vars \/ Purge
  <2>1. UNCHANGED <<pc, req, held, conn, lock>>
    BY <1>6 DEF vars, Purge
  <2> QED
    BY <1>0, <2>1
<1> QED
  BY <1>1, <1>2, <1>3, <1>4, <1>5, <1>6 DEF Next, Statement

\* A request past the advisory lock keeps it until its transaction ends.
LEMMA LockStep ==
    ASSUME TypeOK, TypeOK', RequestShape, LockHeld, [Next]_vars
    PROVE  LockHeld'
<1> USE UserStoreAssumption
<1>1. ASSUME UNCHANGED <<pc, req, lock>>
      PROVE  LockHeld'
  BY <1>1 DEF LockHeld, Locked
<1>2. ASSUME NEW r \in Requests, Call(r) \/ CheckoutTimeout(r)
      PROVE  LockHeld'
  <2>1. lock' = lock /\ pc'[r] \in {"idle", "checkout"}
    BY <1>2 DEF Call, CheckoutTimeout, TypeOK
  <2>2. \A q \in Requests : q # r => pc'[q] = pc[q] /\ req'[q] = req[q]
    BY <1>2 DEF Call, CheckoutTimeout, TypeOK
  <2> QED
    BY <2>1, <2>2 DEF LockHeld, Locked
<1>3. ASSUME NEW r \in Requests, Checkout(r)
      PROVE  LockHeld'
  BY <1>3 DEF Checkout, FirstStatement, LockHeld, Locked, TypeOK, AddOps
<1>4. ASSUME NEW r \in Requests, ReadOffer(r)
      PROVE  LockHeld'
  BY <1>4 DEF ReadOffer, LockHeld, Locked, TypeOK
<1>5. ASSUME NEW r \in Requests, LockUser(r)
      PROVE  LockHeld'
  <2>1. pc[r] = "lock" /\ lock[Hash[req[r].user]] = Nobody /\ req' = req
    BY <1>5 DEF LockUser
  <2>2. req[r].user \in Users /\ Hash[req[r].user] \in Locks
    BY <2>1, UserType DEF RequestShape, AddOps, UserOps
  <2>3. lock' = [lock EXCEPT ![Hash[req[r].user]] = r]
    BY <1>5 DEF LockUser
  <2>4. lock'[Hash[req[r].user]] = r
    BY <2>2, <2>3 DEF TypeOK
  <2>5. ASSUME NEW q \in Requests, q # r, Locked(q)'
        PROVE  lock'[Hash[req'[q].user]] = q
    <3>1. pc'[q] = pc[q]
      BY <1>5, <2>5 DEF LockUser, TypeOK
    <3>2. Locked(q)
      BY <2>1, <2>5, <3>1 DEF Locked
    <3>3. lock[Hash[req[q].user]] = q
      BY <3>2 DEF LockHeld
    <3>4. Hash[req[q].user] # Hash[req[r].user]
      BY <2>1, <3>3
    <3> QED
      BY <2>1, <2>3, <3>3, <3>4 DEF TypeOK
  <2> QED
    BY <2>1, <2>4, <2>5 DEF LockHeld
<1>6. ASSUME NEW r \in Requests, CheckWatched(r) \/ CountRows(r)
      PROVE  LockHeld'
  <2>1. UNCHANGED <<req, lock>> /\ \A q \in Requests : q # r => pc'[q] = pc[q]
    BY <1>6 DEF CheckWatched, CountRows, TypeOK
  <2>2. pc[r] \in {"check", "count"}
    BY <1>6 DEF CheckWatched, CountRows
  <2> QED
    BY <2>1, <2>2 DEF LockHeld, Locked
<1>7. ASSUME NEW r \in Requests, End(r)
      PROVE  LockHeld'
  <2>1. pc'[r] = "idle"
    BY <1>7 DEF End, TypeOK
  <2>2. \A q \in Requests : q # r => pc'[q] = pc[q] /\ req'[q] = req[q]
    BY <1>7 DEF End, TypeOK
  <2>3. ASSUME NEW q \in Requests, Locked(q)'
        PROVE  lock'[Hash[req'[q].user]] = q
    <3>1. q # r /\ Locked(q) /\ pc[q] # "idle"
      BY <2>1, <2>2, <2>3 DEF Locked
    <3>2. lock[Hash[req[q].user]] = q /\ Hash[req[q].user] \in Locks
      BY <3>1, UserType DEF LockHeld, Locked, RequestShape, AddOps, UserOps
    <3> QED
      BY <1>7, <2>2, <3>1, <3>2 DEF End
  <2> QED
    BY <2>3 DEF LockHeld
<1>8. ASSUME NEW r \in Requests,
             OfferMissing(r) \/ AtLimit(r) \/ Fail(r) \/ InsertWatch(r) \/ InsertSaved(r)
               \/ RemoveWatch(r) \/ RemoveSaved(r) \/ List(r) \/ Upsert(r)
      PROVE  End(r)
  BY <1>8 DEF OfferMissing, AtLimit, Fail, Rollback, InsertWatch, InsertSaved, RemoveWatch,
              RemoveSaved, List, Upsert
<1>9. CASE UNCHANGED vars \/ Purge
  <2>1. UNCHANGED <<pc, req, lock>>
    BY <1>9 DEF vars, Purge
  <2> QED
    BY <1>1, <2>1
<1> QED
  BY <1>2, <1>3, <1>4, <1>5, <1>6, <1>7, <1>8, <1>9 DEF Next, Statement

-----------------------------------------------------------------------------
(* The caps                                                                *)

\* Row-level security on a rightly scoped connection shows a request its own
\* user's rows, and only those.
LEMMA SeesOwn ==
    ASSUME TypeOK, ScopeMatches, NEW r \in Requests, pc[r] \in InTransaction, NEW u \in Users
    PROVE  Sees(r, u) <=> req[r].user = u
<1>1. conn[held[r]] = Scope(req[r])
  BY DEF ScopeMatches
<1> QED
  BY <1>1 DEF Sees, Scope

\* A user's watches are finitely many.
LEMMA WatchedFinite ==
    ASSUME NEW u
    PROVE  IsFiniteSet(Watched(u)) /\ Cardinality(Watched(u)) \in Nat
<1>1. Watched(u) \in SUBSET Offers
  BY DEF Watched
<1>2. IsFiniteSet(Watched(u))
  BY <1>1, FS_Subset, UserStoreAssumption
<1> QED
  BY <1>2, FS_CardinalityType

\* A set of rows that all belong to one user is counted by their second column.
LEMMA CountOwn ==
    ASSUME NEW u, NEW S, IsFiniteSet(S)
    PROVE  Cardinality({u} \X S) = Cardinality(S)
<1>1. IsFiniteSet({u}) /\ Cardinality({u}) = 1
  BY FS_Singleton
<1>2. Cardinality({u} \X S) = 1 * Cardinality(S)
  BY <1>1, FS_Product
<1>3. Cardinality(S) \in Nat
  BY FS_CardinalityType
<1> QED
  BY <1>2, <1>3

\* The count(*) of add_watch is the number of the user's watches.
LEMMA WatchCountOwn ==
    ASSUME TypeOK, ScopeMatches, NEW r \in Requests, pc[r] \in InTransaction, req[r].user \in Users
    PROVE  WatchCount(r) = Cardinality(Watched(req[r].user))
<1> DEFINE u == req[r].user
<1>1. {x \in Users \X Offers : Sees(r, x[1]) /\ watch[x[1]][x[2]] # 0} = {u} \X Watched(u)
  <2>1. \A v \in Users : Sees(r, v) <=> v = u
    BY SeesOwn
  <2> QED
    BY <2>1 DEF Watched
<1> QED
  BY <1>1, CountOwn, WatchedFinite DEF WatchCount

\* The count(*) of add_saved_search is the number of the user's saved searches.
LEMMA SavedCountOwn ==
    ASSUME TypeOK, ScopeMatches, SavedCap,
           NEW r \in Requests, pc[r] \in InTransaction, req[r].user \in Users
    PROVE  SavedCount(r) = saved[req[r].user]
<1> DEFINE u == req[r].user
<1>1. saved[u] \in Nat /\ saved[u] <= SavedLimit /\ SavedLimit \in Nat
  BY UserStoreAssumption DEF TypeOK, SavedCap
<1>2. {x \in Users \X (1..SavedLimit) : Sees(r, x[1]) /\ x[2] <= saved[x[1]]} = {u} \X (1..saved[u])
  <2>1. \A v \in Users : Sees(r, v) <=> v = u
    BY SeesOwn
  <2> QED
    BY <1>1, <2>1
<1>3. \A n \in Nat : IsFiniteSet(1..n) /\ Cardinality(1..n) = n
  <2>1. \A n \in Nat : IsFiniteSet(1..n) /\ Cardinality(1..n) = IF 1 > n THEN 0 ELSE n - 1 + 1
    BY FS_Interval
  <2> QED
    BY <2>1
<1>4. Cardinality({u} \X (1..saved[u])) = saved[u]
  BY <1>1, <1>3, CountOwn
<1> QED
  BY <1>2, <1>4 DEF SavedCount

\* A user's watches only shrink, except in that user's own add_watch.
LEMMA WatchEffect ==
    ASSUME TypeOK, [Next]_vars, NEW u \in Users
    PROVE  \/ Watched(u)' \subseteq Watched(u)
           \/ \E r \in Requests : /\ InsertWatch(r) /\ req[r].user = u
                                  /\ Watched(u)' \subseteq Watched(u) \cup {req[r].offer}
<1>1. CASE watch' = watch
  BY <1>1 DEF Watched
<1>2. CASE Purge
  <2>1. watch' = watch \/ \E v \in Users, o \in Offers : watch' = [watch EXCEPT ![v][o] = 0]
    BY <1>2 DEF Purge
  <2>2. ASSUME NEW v \in Users, NEW o \in Offers, watch' = [watch EXCEPT ![v][o] = 0]
        PROVE  Watched(u)' \subseteq Watched(u)
    BY <2>2 DEF Watched, TypeOK
  <2> QED
    BY <1>1, <2>1, <2>2
<1>3. ASSUME NEW r \in Requests, RemoveWatch(r)
      PROVE  Watched(u)' \subseteq Watched(u)
  <2>1. watch'[u] = IF Sees(r, u) THEN [watch[u] EXCEPT ![req[r].offer] = 0] ELSE watch[u]
    BY <1>3 DEF RemoveWatch
  <2>2. watch[u] \in [Offers -> 0..MaxVersion]
    BY DEF TypeOK
  <2>3. \A o \in Offers : watch'[u][o] = watch[u][o] \/ watch'[u][o] = 0
    BY <2>1, <2>2
  <2> QED
    BY <2>3 DEF Watched
<1>4. ASSUME NEW r \in Requests, InsertWatch(r)
      PROVE  \/ Watched(u)' \subseteq Watched(u)
             \/ req[r].user = u /\ Watched(u)' \subseteq Watched(u) \cup {req[r].offer}
  <2>1. watch' = [watch EXCEPT ![req[r].user][req[r].offer] = snap[r]]
    BY <1>4 DEF InsertWatch
  <2>2. watch \in [Users -> [Offers -> 0..MaxVersion]]
    BY DEF TypeOK
  <2> QED
    BY <2>1, <2>2 DEF Watched
<1>5. ASSUME NEW r \in Requests,
             Call(r) \/ LockUser(r) \/ Fail(r) \/ Checkout(r) \/ CheckoutTimeout(r) \/ ReadOffer(r)
             \/ OfferMissing(r) \/ CheckWatched(r) \/ CountRows(r) \/ AtLimit(r) \/ InsertSaved(r)
             \/ RemoveSaved(r) \/ List(r) \/ Upsert(r)
      PROVE  watch' = watch
  BY <1>5 DEF Call, LockUser, Fail, Checkout, CheckoutTimeout, ReadOffer, OfferMissing, CheckWatched,
              CountRows, AtLimit, Rollback, InsertSaved, RemoveSaved, List, Upsert, tables
<1>6. CASE UNCHANGED vars
  BY <1>1, <1>6 DEF vars
<1> QED
  BY <1>1, <1>2, <1>3, <1>4, <1>5, <1>6 DEF Next, Statement

\* A user's saved searches only shrink, except in that user's own insert.
LEMMA SavedEffect ==
    ASSUME TypeOK, [Next]_vars, NEW u \in Users
    PROVE  \/ saved'[u] <= saved[u]
           \/ \E r \in Requests : InsertSaved(r) /\ req[r].user = u /\ saved'[u] = saved[u] + 1
<1>0. saved[u] \in Nat
  BY DEF TypeOK
<1>1. CASE saved' = saved
  BY <1>0, <1>1
<1>2. ASSUME NEW r \in Requests, RemoveSaved(r)
      PROVE  saved'[u] <= saved[u]
  <2>1. saved' = saved \/ \E v \in Users : saved' = [saved EXCEPT ![v] = @ - 1]
    BY <1>2 DEF RemoveSaved
  <2>2. ASSUME NEW v \in Users, saved' = [saved EXCEPT ![v] = @ - 1]
        PROVE  saved'[u] <= saved[u]
    <3>1. saved'[u] = IF u = v THEN saved[u] - 1 ELSE saved[u]
      BY <2>2 DEF TypeOK
    <3> QED
      BY <1>0, <3>1
  <2> QED
    BY <1>0, <2>1, <2>2
<1>3. ASSUME NEW r \in Requests, InsertSaved(r)
      PROVE  saved'[u] <= saved[u] \/ (req[r].user = u /\ saved'[u] = saved[u] + 1)
  <2>1. saved' = [saved EXCEPT ![req[r].user] = @ + 1]
    BY <1>3 DEF InsertSaved
  <2> QED
    BY <1>0, <2>1 DEF TypeOK
<1>4. ASSUME NEW r \in Requests,
             Call(r) \/ LockUser(r) \/ Fail(r) \/ Checkout(r) \/ CheckoutTimeout(r) \/ ReadOffer(r)
             \/ OfferMissing(r) \/ CheckWatched(r) \/ CountRows(r) \/ AtLimit(r) \/ InsertWatch(r)
             \/ RemoveWatch(r) \/ List(r) \/ Upsert(r)
      PROVE  saved' = saved
  BY <1>4 DEF Call, LockUser, Fail, Checkout, CheckoutTimeout, ReadOffer, OfferMissing, CheckWatched,
              CountRows, AtLimit, Rollback, InsertWatch, RemoveWatch, List, Upsert, tables
<1>5. CASE UNCHANGED vars \/ Purge
  BY <1>1, <1>5 DEF vars, Purge
<1> QED
  BY <1>1, <1>2, <1>3, <1>4, <1>5 DEF Next, Statement

\* How a request comes to the insert of add_watch or add_saved_search.
LEMMA Arrival ==
    ASSUME TypeOK, [Next]_vars, NEW r \in Requests, pc'[r] = "write", req'[r].op \in AddOps
    PROVE  /\ req'[r] = req[r]
           /\ \/ pc[r] = "write" /\ ~InsertWatch(r) /\ ~InsertSaved(r)
              \/ CheckWatched(r) /\ AlreadyWatched(r)
              \/ CountRows(r)
<1>0. ~InsertWatch(r) /\ ~InsertSaved(r)
  BY DEF InsertWatch, InsertSaved, End, TypeOK
<1>1. CASE UNCHANGED <<pc, req>>
  BY <1>0, <1>1
<1>2. ASSUME NEW q \in Requests, q # r, pc'[r] = pc[r], req'[r] = req[r]
      PROVE  pc[r] = "write" /\ req'[r] = req[r]
  BY <1>2
<1>3. ASSUME NEW q \in Requests,
             Call(q) \/ CheckoutTimeout(q) \/ LockUser(q) \/ ReadOffer(q) \/ End(q)
      PROVE  q # r /\ pc'[r] = pc[r] /\ req'[r] = req[r]
  BY <1>3 DEF Call, CheckoutTimeout, LockUser, AfterLock, ReadOffer, End, TypeOK
<1>4. ASSUME NEW q \in Requests, Checkout(q)
      PROVE  q # r /\ pc'[r] = pc[r] /\ req'[r] = req[r]
  BY <1>4 DEF Checkout, FirstStatement, TypeOK, AddOps
<1>5. ASSUME NEW q \in Requests, CheckWatched(q) \/ CountRows(q)
      PROVE  /\ req'[r] = req[r]
             /\ q # r => pc'[r] = pc[r]
             /\ q = r => CountRows(r) \/ (CheckWatched(r) /\ AlreadyWatched(r))
  BY <1>5 DEF CheckWatched, CountRows, TypeOK
<1>6. ASSUME NEW q \in Requests,
             OfferMissing(q) \/ AtLimit(q) \/ Fail(q) \/ InsertWatch(q) \/ InsertSaved(q)
               \/ RemoveWatch(q) \/ RemoveSaved(q) \/ List(q) \/ Upsert(q)
      PROVE  End(q)
  BY <1>6 DEF OfferMissing, AtLimit, Fail, Rollback, InsertWatch, InsertSaved, RemoveWatch,
              RemoveSaved, List, Upsert
<1>7. CASE UNCHANGED vars \/ Purge
  BY <1>1, <1>7 DEF vars, Purge
<1> QED
  BY <1>0, <1>3, <1>4, <1>5, <1>6, <1>7 DEF Next, Statement

\* The room a request has counted is still there when it inserts: only it holds
\* the user's lock, and everybody else only removes.
LEMMA RoomStep ==
    ASSUME IInv, [Next]_vars
    PROVE  RoomKept'
<1> USE UserStoreAssumption DEF IInv
<1> SUFFICES ASSUME NEW r \in Requests, pc'[r] = "write",
                    NEW u, u = req'[r].user, NEW o, o = req'[r].offer
             PROVE  /\ req'[r].op = "add_watch" => Cardinality(Watched(u)' \cup {o}) <= WatchLimit
                    /\ req'[r].op = "add_saved" => saved'[u] < SavedLimit
  BY DEF RoomKept, Watched
<1>1. CASE req'[r].op = "add_watch"
  <2>1. req'[r] = req[r] /\ u = req[r].user /\ o = req[r].offer /\ pc[r] # "idle" /\ Locked(r)
    BY <1>1, Arrival DEF AddOps, Locked, CheckWatched, CountRows
  <2>2. u \in Users /\ o \in Offers
    BY <1>1, <2>1, UserType DEF UserOps
  <2>3. IsFiniteSet(Watched(u)) /\ Cardinality(Watched(u)) \in Nat
    BY WatchedFinite
  <2>4. IsFiniteSet(Watched(u) \cup {o})
        /\ Cardinality(Watched(u) \cup {o}) = IF o \in Watched(u) THEN Cardinality(Watched(u))
                                              ELSE Cardinality(Watched(u)) + 1
    BY <2>3, FS_AddElement
  <2>5. CASE CheckWatched(r) /\ AlreadyWatched(r)
    <3>1. o \in Watched(u)
      <4>1. PICK v \in Users : Sees(r, v) /\ watch[v][o] # 0
        BY <2>1, <2>5 DEF AlreadyWatched
      <4>2. v = u
        BY <2>1, <2>5, <4>1, SeesOwn DEF CheckWatched, InTransaction
      <4> QED
        BY <2>2, <4>1, <4>2 DEF Watched
    <3>2. Watched(u)' = Watched(u)
      BY <2>5 DEF CheckWatched, tables, Watched
    <3> QED
      BY <1>1, <2>1, <2>2, <2>4, <3>1, <3>2 DEF WatchCap
  <2>6. CASE CountRows(r)
    <3>1. WatchCount(r) = Cardinality(Watched(u))
      BY <2>1, <2>2, <2>6, WatchCountOwn DEF CountRows, InTransaction
    <3>2. WatchCount(r) < WatchLimit
      BY <1>1, <2>1, <2>6 DEF CountRows, HasRoom
    <3>3. Watched(u)' = Watched(u)
      BY <2>6 DEF CountRows, tables, Watched
    <3> QED
      BY <1>1, <2>1, <2>3, <2>4, <3>1, <3>2, <3>3
  <2>7. CASE pc[r] = "write" /\ ~InsertWatch(r)
    <3>1. Watched(u)' \subseteq Watched(u)
      <4>1. ASSUME NEW q \in Requests, InsertWatch(q), req[q].user = u
            PROVE  FALSE
        <5>1. Locked(q)
          BY <4>1 DEF InsertWatch, Locked, AddOps
        <5>2. lock[Hash[u]] = q /\ lock[Hash[u]] = r
          BY <2>1, <4>1, <5>1 DEF LockHeld
        <5> QED
          BY <2>7, <4>1, <5>2
      <4> QED
        BY <2>2, <4>1, WatchEffect
    <3>2. Watched(u)' \cup {o} \in SUBSET (Watched(u) \cup {o})
      BY <3>1
    <3>3. Cardinality(Watched(u)' \cup {o}) <= Cardinality(Watched(u) \cup {o})
          /\ IsFiniteSet(Watched(u)' \cup {o})
      BY <2>4, <3>2, FS_Subset
    <3>4. Cardinality(Watched(u) \cup {o}) <= WatchLimit
      BY <1>1, <2>1, <2>7 DEF RoomKept
    <3>5. Cardinality(Watched(u)' \cup {o}) \in Nat
      BY <3>3, FS_CardinalityType
    <3> QED
      BY <1>1, <2>1, <2>3, <2>4, <3>3, <3>4, <3>5
  <2> QED
    BY <1>1, <2>5, <2>6, <2>7, Arrival DEF AddOps
<1>2. CASE req'[r].op = "add_saved"
  <2>1. req'[r] = req[r] /\ u = req[r].user /\ pc[r] # "idle" /\ Locked(r)
    BY <1>2, Arrival DEF AddOps, Locked, CheckWatched, CountRows
  <2>2. u \in Users /\ saved[u] \in Nat
    BY <1>2, <2>1, UserType DEF UserOps, TypeOK
  <2>3. CASE CheckWatched(r)
    BY <1>2, <2>1, <2>3 DEF CheckWatched, RequestShape
  <2>4. CASE CountRows(r)
    <3>1. SavedCount(r) = saved[u]
      BY <2>1, <2>2, <2>4, SavedCountOwn DEF CountRows, InTransaction
    <3>2. SavedCount(r) < SavedLimit /\ saved' = saved
      BY <1>2, <2>1, <2>4 DEF CountRows, HasRoom, tables
    <3> QED
      BY <1>2, <2>1, <3>1, <3>2
  <2>5. CASE pc[r] = "write" /\ ~InsertSaved(r)
    <3>1. saved'[u] <= saved[u]
      <4>1. ASSUME NEW q \in Requests, InsertSaved(q), req[q].user = u
            PROVE  FALSE
        <5>1. Locked(q)
          BY <4>1 DEF InsertSaved, Locked, AddOps
        <5>2. lock[Hash[u]] = q /\ lock[Hash[u]] = r
          BY <2>1, <4>1, <5>1 DEF LockHeld
        <5> QED
          BY <2>5, <4>1, <5>2
      <4> QED
        BY <2>2, <4>1, SavedEffect
    <3>2. saved[u] < SavedLimit
      BY <1>2, <2>1, <2>5 DEF RoomKept
    <3>3. saved'[u] \in Nat
      BY <2>2, TypeStep DEF TypeOK
    <3> QED
      BY <1>2, <2>1, <2>2, <3>1, <3>2, <3>3
  <2> QED
    BY <1>2, <2>3, <2>4, <2>5, Arrival DEF AddOps
<1> QED
  BY <1>1, <1>2

\* No step takes a user past a cap or copies an offer that may not be stored.
LEMMA CapStep ==
    ASSUME IInv, [Next]_vars
    PROVE  WatchCap' /\ SavedCap' /\ OnlyLicensedCopies'
<1> USE UserStoreAssumption DEF IInv
<1>1. ASSUME NEW u \in Users
      PROVE  Cardinality(Watched(u)') <= WatchLimit /\ Watched(u)' \subseteq Storable
  <2>1. IsFiniteSet(Watched(u)) /\ Cardinality(Watched(u)) \in Nat
    BY WatchedFinite
  <2>2. Watched(u) \subseteq Storable /\ Cardinality(Watched(u)) <= WatchLimit
    BY DEF OnlyLicensedCopies, WatchCap
  <2>3. CASE Watched(u)' \subseteq Watched(u)
    <3>1. Watched(u)' \in SUBSET Watched(u)
      BY <2>3
    <3>2. IsFiniteSet(Watched(u)') /\ Cardinality(Watched(u)') <= Cardinality(Watched(u))
      BY <2>1, <3>1, FS_Subset
    <3>3. Cardinality(Watched(u)') \in Nat
      BY <3>2, FS_CardinalityType
    <3> QED
      BY <2>1, <2>2, <2>3, <3>2, <3>3
  <2>4. ASSUME NEW r \in Requests, InsertWatch(r), req[r].user = u,
               Watched(u)' \subseteq Watched(u) \cup {req[r].offer}
        PROVE  Cardinality(Watched(u)') <= WatchLimit /\ Watched(u)' \subseteq Storable
    <3>1. pc[r] = "write" /\ req[r].op = "add_watch"
      BY <2>4 DEF InsertWatch
    <3>2. PICK o : o = req[r].offer
      OBVIOUS
    <3>3. Cardinality(Watched(u) \cup {o}) <= WatchLimit
      BY <2>4, <3>1, <3>2 DEF RoomKept
    <3>4. IsFiniteSet(Watched(u) \cup {o})
      BY <2>1, FS_AddElement
    <3>5. Watched(u)' \in SUBSET (Watched(u) \cup {o})
      BY <2>4, <3>2
    <3>6. IsFiniteSet(Watched(u)') /\ Cardinality(Watched(u)') <= Cardinality(Watched(u) \cup {o})
      BY <3>4, <3>5, FS_Subset
    <3>7. Cardinality(Watched(u)') \in Nat /\ Cardinality(Watched(u) \cup {o}) \in Nat
      BY <3>4, <3>6, FS_CardinalityType
    <3>8. o \in Storable
      BY <3>1, <3>2 DEF RequestShape
    <3> QED
      BY <2>2, <3>3, <3>5, <3>6, <3>7, <3>8
  <2> QED
    BY <2>3, <2>4, WatchEffect
<1>2. ASSUME NEW u \in Users
      PROVE  saved'[u] <= SavedLimit
  <2>1. saved[u] \in Nat /\ saved[u] <= SavedLimit /\ SavedLimit \in Nat
    BY DEF TypeOK, SavedCap
  <2>2. saved'[u] \in Nat
    BY TypeStep DEF TypeOK
  <2>3. ASSUME NEW r \in Requests, InsertSaved(r), req[r].user = u, saved'[u] = saved[u] + 1
        PROVE  saved'[u] <= SavedLimit
    <3>1. saved[u] < SavedLimit
      BY <2>3 DEF InsertSaved, RoomKept
    <3> QED
      BY <2>1, <2>3, <3>1
  <2> QED
    BY <2>1, <2>2, <2>3, SavedEffect
<1> QED
  BY <1>1, <1>2 DEF WatchCap, SavedCap, OnlyLicensedCopies

\* A database with no user rows, and at most legacy rows in the catalog, is a
\* good start.
LEMMA InitIInv ==
    ASSUME Init
    PROVE  IInv
<1> USE UserStoreAssumption DEF Init
<1>1. TypeOK
  <2>1. catalog \in [Tenants -> [Offers -> 0..MaxVersion]]
    <3>1. LegacyRows \subseteq [Offers -> {0, 1}] /\ {0, 1} \subseteq 0..MaxVersion
      BY DEF LegacyRows
    <3>2. [Offers -> {0, 1}] \subseteq [Offers -> 0..MaxVersion]
      BY <3>1
    <3> QED
      BY <3>1, <3>2
  <2> QED
    BY <2>1, NoAskType DEF TypeOK, Unscoped
<1>2. ScopeMatches
  <2>1. \A r \in Requests : held[r] = Nobody /\ pc[r] \notin InTransaction
    BY DEF InTransaction
  <2>2. \A c \in Conns : conn[c] = Unscoped
    OBVIOUS
  <2> QED
    BY <2>1, <2>2, Zenon DEF ScopeMatches, Free
<1>3. \A u \in Users : Watched(u) = {}
  <2>1. \A u \in Users, o \in Offers : watch[u][o] = 0
    OBVIOUS
  <2> QED
    BY <2>1 DEF Watched
<1>4. RequestShape /\ LockHeld /\ RoomKept
  BY DEF RequestShape, LockHeld, Locked, RoomKept
<1>5. WatchCap
  <2>1. \A u \in Users : Cardinality(Watched(u)) = 0
    BY <1>3, FS_EmptySet, Zenon
  <2> QED
    BY <2>1 DEF WatchCap
<1>6. SavedCap /\ OnlyLicensedCopies
  BY <1>3 DEF SavedCap, OnlyLicensedCopies
<1> QED
  BY <1>1, <1>2, <1>4, <1>5, <1>6 DEF IInv

-----------------------------------------------------------------------------
(* Isolation                                                               *)

\* Only a request of the user changes the user's rows, and only a request of the
\* tenant the tenant's catalog.
LEMMA IsolationStep ==
    ASSUME IInv, Next, pc' # pc
    PROVE  /\ \A u \in Users : (watch'[u] # watch[u] \/ saved'[u] # saved[u]) =>
                  \E r \in Requests : pc'[r] # pc[r] /\ req[r].user = u
           /\ \A t \in Tenants : catalog'[t] # catalog[t] =>
                  \E r \in Requests : pc'[r] # pc[r] /\ req[r].tenant = t
<1> USE UserStoreAssumption DEF IInv
<1> DEFINE Goal == /\ \A u \in Users : (watch'[u] # watch[u] \/ saved'[u] # saved[u]) =>
                         \E r \in Requests : pc'[r] # pc[r] /\ req[r].user = u
                   /\ \A t \in Tenants : catalog'[t] # catalog[t] =>
                         \E r \in Requests : pc'[r] # pc[r] /\ req[r].tenant = t
<1>1. ASSUME NEW r \in Requests, pc[r] = "write", End(r)
      PROVE  pc'[r] # pc[r]
  BY <1>1 DEF End, TypeOK
<1>2. ASSUME NEW r \in Requests, pc[r] = "write", NEW u \in Users
      PROVE  Sees(r, u) <=> req[r].user = u
  BY <1>2, SeesOwn DEF InTransaction
<1>3. CASE UNCHANGED tables
  BY <1>3 DEF tables
<1>4. ASSUME NEW r \in Requests, InsertWatch(r)
      PROVE  Goal
  <2>1. pc'[r] # pc[r] /\ UNCHANGED <<catalog, saved>>
    BY <1>1, <1>4 DEF InsertWatch
  <2>2. \A u \in Users : watch'[u] # watch[u] => req[r].user = u
    BY <1>4 DEF InsertWatch, TypeOK
  <2> QED
    BY <2>1, <2>2
<1>5. ASSUME NEW r \in Requests, InsertSaved(r)
      PROVE  Goal
  <2>1. pc'[r] # pc[r] /\ UNCHANGED <<catalog, watch>>
    BY <1>1, <1>5 DEF InsertSaved
  <2>2. \A u \in Users : saved'[u] # saved[u] => req[r].user = u
    BY <1>5 DEF InsertSaved, TypeOK
  <2> QED
    BY <2>1, <2>2
<1>6. ASSUME NEW r \in Requests, RemoveWatch(r)
      PROVE  Goal
  <2>1. pc'[r] # pc[r] /\ UNCHANGED <<catalog, saved>>
    BY <1>1, <1>6 DEF RemoveWatch
  <2>2. \A u \in Users : watch'[u] # watch[u] => Sees(r, u)
    BY <1>6 DEF RemoveWatch
  <2> QED
    BY <1>2, <1>6, <2>1, <2>2 DEF RemoveWatch
<1>7. ASSUME NEW r \in Requests, RemoveSaved(r)
      PROVE  Goal
  <2>1. pc'[r] # pc[r] /\ UNCHANGED <<catalog, watch>>
    BY <1>1, <1>7 DEF RemoveSaved
  <2>2. \A u \in Users : saved'[u] # saved[u] => Sees(r, u)
    BY <1>7 DEF RemoveSaved, TypeOK
  <2> QED
    BY <1>2, <1>7, <2>1, <2>2 DEF RemoveSaved
<1>8. ASSUME NEW r \in Requests, Upsert(r)
      PROVE  Goal
  <2>1. pc'[r] # pc[r] /\ UNCHANGED <<watch, saved>>
    BY <1>1, <1>8 DEF Upsert
  <2>2. \A t \in Tenants : catalog'[t] # catalog[t] => req[r].tenant = t
    BY <1>8 DEF Upsert, TypeOK
  <2> QED
    BY <2>1, <2>2
<1>9. ASSUME NEW r \in Requests,
             Call(r) \/ LockUser(r) \/ Fail(r) \/ Checkout(r) \/ CheckoutTimeout(r) \/ ReadOffer(r)
             \/ OfferMissing(r) \/ CheckWatched(r) \/ CountRows(r) \/ AtLimit(r) \/ List(r)
      PROVE  UNCHANGED tables
  BY <1>9 DEF Call, LockUser, Fail, Checkout, CheckoutTimeout, ReadOffer, OfferMissing, CheckWatched,
              CountRows, AtLimit, Rollback, List, tables
<1>10. ~Purge
  BY DEF Purge
<1> QED
  BY <1>3, <1>4, <1>5, <1>6, <1>7, <1>8, <1>9, <1>10 DEF Next, Statement

-----------------------------------------------------------------------------
(* Theorems                                                                *)

\* The inductive invariant behind every result below: the account routes keep
\* it through any interleaving of requests, failures and purges.
THEOREM Invariance == Spec => []IInv
<1>1. Init => IInv
  BY InitIInv
<1>2. IInv /\ [Next]_vars => IInv'
  <2> SUFFICES ASSUME IInv, [Next]_vars
               PROVE  IInv'
    OBVIOUS
  <2>1. TypeOK'
    BY TypeStep DEF IInv
  <2>2. ScopeMatches' /\ RequestShape' /\ LockHeld'
    BY <2>1, ScopeStep, ShapeStep, LockStep DEF IInv
  <2>3. RoomKept' /\ WatchCap' /\ SavedCap' /\ OnlyLicensedCopies'
    BY RoomStep, CapStep
  <2> QED
    BY <2>1, <2>2, <2>3 DEF IInv
<1> QED
  BY <1>1, <1>2, PTL DEF Spec

\* Every variable of the account routes keeps its type.
THEOREM TypeCorrect == Spec => []TypeOK
<1>1. IInv => TypeOK
  BY DEF IInv
<1> QED
  BY <1>1, Invariance, PTL

\* db.scoped: a pooled connection always has exactly the scope of the request
\* that holds it, and none when it is free.
THEOREM ScopesNeverLeak == Spec => []ScopeMatches
<1>1. IInv => ScopeMatches
  BY DEF IInv
<1> QED
  BY <1>1, Invariance, PTL

\* _lock_user: however many requests of a user race, the watchlist never passes
\* WATCH_LIMIT and the saved searches never pass SAVED_SEARCH_LIMIT.
THEOREM BothCapped == Spec => []Caps
<1>1. IInv => Caps
  BY DEF IInv, Caps
<1> QED
  BY <1>1, Invariance, PTL

\* add_watch never copies an offer whose store forbids storage.
THEOREM CopiesLicensed == Spec => []OnlyLicensedCopies
<1>1. IInv => OnlyLicensedCopies
  BY DEF IInv
<1> QED
  BY <1>1, Invariance, PTL

\* Row-level security on scoped connections: no request ever changes a row of
\* another user, or a catalog row of another tenant.
THEOREM TenantsIsolated == Spec => Isolation
<1> DEFINE Goal == /\ \A u \in Users : (watch'[u] # watch[u] \/ saved'[u] # saved[u]) =>
                         \E r \in Requests : pc'[r] # pc[r] /\ req[r].user = u
                   /\ \A t \in Tenants : catalog'[t] # catalog[t] =>
                         \E r \in Requests : pc'[r] # pc[r] /\ req[r].tenant = t
<1>1. IInv /\ [Next]_vars => [pc' # pc => Goal]_vars
  BY IsolationStep
<1> QED
  BY <1>1, Invariance, PTL DEF Spec, Isolation

\* A listing takes the rows its connection sees, and those are the asker's.
LEMMA ListStep ==
    ASSUME IInv, ListsOwnRows, [Next]_vars
    PROVE  ListsOwnRows'
<1>1. shown \in [Requests -> SUBSET ((Users \cup {Nobody}) \X Users)]
  BY DEF IInv, TypeOK
<1>2. CASE UNCHANGED shown
  BY <1>2 DEF ListsOwnRows
<1>3. ASSUME NEW r \in Requests, Call(r) PROVE ListsOwnRows'
  <2>1. shown' = [shown EXCEPT ![r] = {}]
    BY <1>3 DEF Call
  <2> QED
    BY <1>1, <2>1 DEF ListsOwnRows
<1>4. ASSUME NEW r \in Requests, List(r) PROVE ListsOwnRows'
  <2> DEFINE owners == {u \in Users : Sees(r, u) /\ (Watched(u) # {} \/ saved[u] > 0)}
  <2>1. shown' = [shown EXCEPT ![r] = {req[r].user} \X owners]
    BY <1>4 DEF List
  <2>2. \A u \in Users : Sees(r, u) <=> req[r].user = u
    BY <1>4, SeesOwn DEF List, IInv, InTransaction
  <2>3. \A x \in {req[r].user} \X owners : x[1] = x[2]
    BY <2>2
  <2> HIDE DEF owners
  <2> QED
    BY <1>1, <2>1, <2>3 DEF ListsOwnRows
<1>5. ASSUME NEW r \in Requests,
             LockUser(r) \/ Fail(r) \/ Checkout(r) \/ CheckoutTimeout(r) \/ ReadOffer(r)
             \/ OfferMissing(r) \/ CheckWatched(r) \/ CountRows(r) \/ AtLimit(r) \/ InsertWatch(r)
             \/ InsertSaved(r) \/ RemoveWatch(r) \/ RemoveSaved(r) \/ Upsert(r)
      PROVE  UNCHANGED shown
  BY <1>5 DEF LockUser, Fail, Checkout, CheckoutTimeout, ReadOffer, OfferMissing, CheckWatched,
              CountRows, AtLimit, Rollback, InsertWatch, InsertSaved, RemoveWatch, RemoveSaved, Upsert
<1>6. Purge \/ UNCHANGED vars => UNCHANGED shown
  BY DEF Purge, vars
<1> QED
  BY <1>2, <1>3, <1>4, <1>5, <1>6 DEF Next, Statement

\* userstore: "a user only ever sees their own rows".  list_watch and
\* list_saved_searches name no user; the scope of the connection is enough.
THEOREM OwnRowsListed == Spec => []ListsOwnRows
<1>1. Init => ListsOwnRows
  BY DEF Init, ListsOwnRows
<1>2. IInv /\ ListsOwnRows /\ [Next]_vars => ListsOwnRows'
  BY ListStep
<1> QED
  BY <1>1, <1>2, Invariance, PTL DEF Spec

-----------------------------------------------------------------------------
(* The account store acts at once                                           *)

\* What a request is about to store is the version of a row that it read, or of
\* the offer that it fetched.
SnapsRead ==
    \A r \in Requests :
        /\ pc[r] \in {"lock", "check", "count", "write"} /\ req[r].op = "add_watch" => snap[r] # 0
        /\ pc[r] # "idle" /\ req[r].op = "upsert" => snap[r] # 0

\* Every step keeps what the requests have read.
LEMMA SnapStep ==
    ASSUME IInv, SnapsRead, [Next]_vars
    PROVE  SnapsRead'
<1> USE UserStoreAssumption DEF IInv
<1>1. CASE UNCHANGED <<pc, req, snap>>
  BY <1>1 DEF SnapsRead
<1>2. ASSUME NEW r \in Requests, Call(r) PROVE SnapsRead'
  <2>1. PICK a \in Asks, v \in 0..MaxVersion :
            /\ IF a.op = "upsert" THEN v > 0 /\ Newest(v, a.offer) ELSE v = 0
            /\ req' = [req EXCEPT ![r] = a]
            /\ snap' = [snap EXCEPT ![r] = v]
    BY <1>2, Zenon DEF Call
  <2>2. /\ pc'[r] = "checkout" /\ req'[r] = a /\ snap'[r] = v
        /\ \A q \in Requests : q # r => pc'[q] = pc[q] /\ req'[q] = req[q] /\ snap'[q] = snap[q]
    BY <1>2, <2>1 DEF Call, TypeOK
  <2>3. a.op = "upsert" => v # 0
    BY <2>1
  <2> QED
    BY <2>2, <2>3 DEF SnapsRead
<1>3. ASSUME NEW r \in Requests, Checkout(r) PROVE SnapsRead'
  BY <1>3 DEF Checkout, FirstStatement, SnapsRead, TypeOK
<1>4. ASSUME NEW r \in Requests, CheckoutTimeout(r) \/ End(r) PROVE SnapsRead'
  <2>1. pc'[r] = "idle"
    BY <1>4 DEF CheckoutTimeout, End, TypeOK
  <2>2. \A q \in Requests : q # r => pc'[q] = pc[q] /\ req'[q] = req[q] /\ snap'[q] = snap[q]
    BY <1>4 DEF CheckoutTimeout, End, TypeOK
  <2> QED
    BY <2>1, <2>2 DEF SnapsRead
<1>5. ASSUME NEW r \in Requests, ReadOffer(r) PROVE SnapsRead'
  <2>1. PICK t \in Tenants : /\ Watchable(r, t)
                             /\ snap' = [snap EXCEPT ![r] = catalog[t][req[r].offer]]
    BY <1>5 DEF ReadOffer
  <2>2. snap'[r] # 0
    BY <2>1 DEF Watchable, TypeOK
  <2>3. req' = req /\ \A q \in Requests : q # r => pc'[q] = pc[q] /\ snap'[q] = snap[q]
    BY <1>5, <2>1 DEF ReadOffer, TypeOK
  <2> QED
    BY <2>2, <2>3 DEF SnapsRead
<1>6. ASSUME NEW r \in Requests, LockUser(r) \/ CheckWatched(r) \/ CountRows(r) PROVE SnapsRead'
  <2>1. UNCHANGED <<req, snap>> /\ \A q \in Requests : q # r => pc'[q] = pc[q]
    BY <1>6 DEF LockUser, CheckWatched, CountRows, TypeOK
  <2>2. pc[r] \in {"lock", "check", "count"}
    BY <1>6 DEF LockUser, CheckWatched, CountRows
  <2> QED
    BY <2>1, <2>2 DEF SnapsRead
<1>7. ASSUME NEW r \in Requests,
             OfferMissing(r) \/ AtLimit(r) \/ Fail(r) \/ InsertWatch(r) \/ InsertSaved(r)
               \/ RemoveWatch(r) \/ RemoveSaved(r) \/ List(r) \/ Upsert(r)
      PROVE  End(r)
  BY <1>7 DEF OfferMissing, AtLimit, Fail, Rollback, InsertWatch, InsertSaved, RemoveWatch,
              RemoveSaved, List, Upsert
<1>8. CASE UNCHANGED vars \/ Purge
  BY <1>1, <1>8 DEF vars, Purge
<1> QED
  BY <1>2, <1>3, <1>4, <1>5, <1>6, <1>7, <1>8 DEF Next, Statement

\* A watch is an item of the watchlist.
LEMMA HasWatchIs == \A u \in Users, o \in Offers : Account!HasWatch(u, o) <=> o \in Watched(u)
  BY DEF Account!HasWatch, Watched

\* The insert of add_watch finds the item in the list, or room for it, although it
\* looked before.
LEMMA InsertIsWatch ==
    ASSUME IInv, SnapsRead, NEW r \in Requests, InsertWatch(r)
    PROVE  Account!Next
<1> USE UserStoreAssumption DEF IInv
<1> DEFINE u == req[r].user
           o == req[r].offer
           v == snap[r]
<1>1. pc[r] = "write" /\ req[r].op = "add_watch"
  BY DEF InsertWatch
<1>2. u \in Users /\ o \in Offers /\ o \in Storable
  BY <1>1, UserType DEF UserOps, RequestShape
<1>3. v \in Account!Versions
  <2>1. v \in 0..MaxVersion /\ v # 0
    BY <1>1 DEF TypeOK, SnapsRead
  <2> QED
    BY <2>1 DEF Account!Versions
<1>4. watch' = [watch EXCEPT ![u][o] = v] /\ UNCHANGED <<catalog, saved>>
  BY DEF InsertWatch
<1>5. Account!HasWatch(u, o) \/ Account!WatchRoom(u)
  <2>1. CASE o \in Watched(u)
    BY <1>2, <2>1, HasWatchIs
  <2>2. CASE o \notin Watched(u)
    <3>1. IsFiniteSet(Watched(u)) /\ Cardinality(Watched(u)) \in Nat
      BY WatchedFinite, <1>2
    <3>2. Cardinality(Watched(u) \cup {o}) = Cardinality(Watched(u)) + 1
      BY <2>2, <3>1, FS_AddElement
    <3>3. Cardinality(Watched(u) \cup {o}) <= WatchLimit
      BY <1>1 DEF RoomKept
    <3>4. {x \in Offers : Account!HasWatch(u, x)} = Watched(u)
      BY DEF Account!HasWatch, Watched
    \* Accounts counts with a Cardinality of its own, which has the same definition.
    <3>5. Account!WatchRoom(u) <=> Cardinality(Watched(u)) < WatchLimit
      BY <3>4, Zenon DEF Account!WatchRoom, Account!Cardinality, Cardinality
    <3> QED
      BY <3>1, <3>2, <3>3, <3>5
  <2> QED
    BY <2>1, <2>2
<1> HIDE DEF u, o, v
<1>6. Account!Watch(u, o, v)
  BY <1>4, <1>5 DEF Account!Watch
<1> QED
  BY <1>2, <1>3, <1>6 DEF Account!Next

\* A DELETE of the watchlist removes one row of the asker, or none.
LEMMA RemoveIsUnwatch ==
    ASSUME IInv, NEW r \in Requests, RemoveWatch(r)
    PROVE  Account!Next \/ UNCHANGED Account!rows
<1> USE UserStoreAssumption DEF IInv
<1> DEFINE u == req[r].user
           o == req[r].offer
<1>1. pc[r] = "write" /\ req[r].op = "remove_watch" /\ UNCHANGED <<catalog, saved>>
  BY DEF RemoveWatch
<1>2. u \in Users /\ o \in Offers
  BY <1>1, UserType DEF UserOps
<1>3. \A x \in Users : Sees(r, x) <=> x = u
  BY <1>1, <1>2, SeesOwn DEF InTransaction
<1>4. watch \in [Users -> [Offers -> 0..MaxVersion]]
  BY DEF TypeOK
<1>5. watch' = [watch EXCEPT ![u][o] = 0]
  <2>1. watch' = [x \in Users |-> IF Sees(r, x) THEN [watch[x] EXCEPT ![o] = 0] ELSE watch[x]]
    BY DEF RemoveWatch
  <2> HIDE DEF u, o
  <2>2. watch' = [x \in Users |-> IF x = u THEN [watch[x] EXCEPT ![o] = 0] ELSE watch[x]]
    BY <1>3, <2>1
  <2> QED
    BY <1>2, <1>4, <2>2
<1> HIDE DEF u, o
<1>6. CASE watch[u][o] = 0
  <2>1. [watch EXCEPT ![u][o] = 0] = watch
    BY <1>2, <1>4, <1>6
  <2> QED
    BY <1>1, <1>5, <2>1 DEF Account!rows
<1>7. CASE watch[u][o] # 0
  <2>1. Account!Unwatch(u, o)
    BY <1>1, <1>5, <1>7 DEF Account!Unwatch, Account!HasWatch
  <2> QED
    BY <1>2, <2>1 DEF Account!Next
<1> QED
  BY <1>6, <1>7

\* Every step of the account routes is one write of the abstract store or none.
LEMMA StepIsAtomic ==
    ASSUME IInv, SnapsRead, [Next]_vars
    PROVE  Account!Next \/ UNCHANGED Account!rows
<1> USE UserStoreAssumption DEF IInv
<1>1. CASE UNCHANGED tables
  BY <1>1 DEF tables, Account!rows
<1>2. ASSUME NEW r \in Requests, InsertWatch(r) PROVE Account!Next
  BY <1>2, InsertIsWatch
<1>3. ASSUME NEW r \in Requests, RemoveWatch(r) PROVE Account!Next \/ UNCHANGED Account!rows
  BY <1>3, RemoveIsUnwatch
<1>4. ASSUME NEW r \in Requests, InsertSaved(r) PROVE Account!Next
  <2>1. pc[r] = "write" /\ req[r].op = "add_saved"
    BY <1>4 DEF InsertSaved
  <2>2. req[r].user \in Users
    BY <2>1, UserType DEF UserOps
  <2>3. Account!Save(req[r].user)
    BY <1>4, <2>1 DEF InsertSaved, RoomKept, Account!Save
  <2> QED
    BY <2>2, <2>3 DEF Account!Next
<1>5. ASSUME NEW r \in Requests, RemoveSaved(r) PROVE Account!Next \/ UNCHANGED Account!rows
  <2>1. UNCHANGED <<catalog, watch>>
    BY <1>5 DEF RemoveSaved
  <2>2. CASE UNCHANGED saved
    BY <2>1, <2>2 DEF Account!rows
  <2>3. ASSUME NEW u \in Users, saved[u] > 0, saved' = [saved EXCEPT ![u] = @ - 1]
        PROVE  Account!Next
    BY <2>1, <2>3 DEF Account!Unsave, Account!Next
  <2> QED
    BY <1>5, <2>2, <2>3 DEF RemoveSaved
<1>6. ASSUME NEW r \in Requests, Upsert(r) PROVE Account!Next \/ UNCHANGED Account!rows
  <2>1. pc[r] = "write" /\ req[r].op = "upsert" /\ UNCHANGED <<watch, saved>>
    BY <1>6 DEF Upsert
  <2>2. snap[r] \in Account!Versions /\ req[r].tenant \in Tenants
    <3>1. snap[r] \in 0..MaxVersion /\ snap[r] # 0 /\ req[r] \in Asks
      BY <2>1 DEF TypeOK, SnapsRead
    <3> QED
      BY <3>1 DEF Account!Versions, Asks
  <2>3. CASE UNCHANGED catalog
    BY <2>1, <2>3 DEF Account!rows
  <2>4. CASE /\ req[r].offer \in Storable
             /\ catalog' = [catalog EXCEPT ![req[r].tenant][req[r].offer] = snap[r]]
    <3>1. Account!Store(req[r].tenant, req[r].offer, snap[r])
      BY <2>1, <2>4 DEF Account!Store
    <3> QED
      BY <2>2, <2>4, <3>1 DEF Account!Next
  <2> QED
    BY <1>6, <2>3, <2>4 DEF Upsert
<1>7. CASE Purge
  <2>1. CASE \E t \in Tenants, o \in Offers :
                catalog[t][o] # 0 /\ catalog' = [catalog EXCEPT ![t][o] = 0] /\ UNCHANGED watch
    <3>1. PICK t \in Tenants, o \in Offers :
              catalog[t][o] # 0 /\ catalog' = [catalog EXCEPT ![t][o] = 0] /\ UNCHANGED watch
      BY <2>1
    <3>2. Account!Expire(t, o)
      BY <1>7, <3>1 DEF Purge, Account!Expire
    <3> QED
      BY <3>2 DEF Account!Next
  <2>2. CASE \E u \in Users, o \in Offers :
                watch[u][o] # 0 /\ watch' = [watch EXCEPT ![u][o] = 0] /\ UNCHANGED catalog
    <3>1. PICK u \in Users, o \in Offers :
              watch[u][o] # 0 /\ watch' = [watch EXCEPT ![u][o] = 0] /\ UNCHANGED catalog
      BY <2>2
    <3>2. Account!Unwatch(u, o)
      BY <1>7, <3>1 DEF Purge, Account!Unwatch, Account!HasWatch
    <3> QED
      BY <3>2 DEF Account!Next
  <2> QED
    BY <1>7, <2>1, <2>2 DEF Purge
<1>8. ASSUME NEW r \in Requests,
             Call(r) \/ LockUser(r) \/ Fail(r) \/ Checkout(r) \/ CheckoutTimeout(r) \/ ReadOffer(r)
             \/ OfferMissing(r) \/ CheckWatched(r) \/ CountRows(r) \/ AtLimit(r) \/ List(r)
      PROVE  UNCHANGED tables
  BY <1>8 DEF Call, LockUser, Fail, Checkout, CheckoutTimeout, ReadOffer, OfferMissing, CheckWatched,
              CountRows, AtLimit, Rollback, List, tables
<1>9. CASE UNCHANGED vars
  BY <1>1, <1>9 DEF vars, tables
<1> QED
  BY <1>1, <1>2, <1>3, <1>4, <1>5, <1>6, <1>7, <1>8, <1>9 DEF Next, Statement

\* The account routes over pooled connections, row filters and advisory locks
\* implement a store that serves one request at a time: a limit is met, and a row is
\* the asker's, in the very state that is written to.
THEOREM RoutesAreAtomic == Spec => RequestsAreAtomic
<1>1. Init => Account!Init
  BY DEF Init, LegacyRows, Account!Init
<1>2. Init => SnapsRead
  BY UserStoreAssumption DEF Init, SnapsRead
<1>3. IInv /\ SnapsRead /\ [Next]_vars => SnapsRead'
  BY SnapStep
<1>4. IInv /\ SnapsRead /\ [Next]_vars => [Account!Next]_(Account!rows)
  BY StepIsAtomic
<1> QED
  BY <1>1, <1>2, <1>3, <1>4, Invariance, PTL DEF Spec, RequestsAreAtomic, Account!Spec

=============================================================================
