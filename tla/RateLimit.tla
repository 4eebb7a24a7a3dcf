----------------------------- MODULE RateLimit -----------------------------
(***************************************************************************)
(* The per-instance rate limiter of the anonymous routes: ratelimit.Limiter *)
(* over compliance.SlidingWindowRateLimiter, called by the two HTTP         *)
(* middlewares of serve.py (edge_guard, then rate_limit).  Both middlewares *)
(* are coroutines without an await before the decision, so one request is   *)
(* decided in one step.                                                     *)
(***************************************************************************)
EXTENDS Integers, Sequences, FiniteSets

CONSTANTS
    Paths,        \* the limited paths, the keys of LIMITS
    OpenPaths,    \* paths that are not in LIMITS
    Exempt,       \* _EDGE_EXEMPT, the health paths the edge guard lets through
    Addrs,        \* visitor and peer addresses
    Headers,      \* the addresses a CF-Connecting-IP header may name
    Sockets,      \* the addresses connections come from
    NoHeader,     \* no CF-Connecting-IP header on the request
    Keys,         \* client keys: an IPv4 address or an IPv6 /64
    Net,          \* Net[a] is the key of address a
    Limit,        \* Limit[p] requests ...
    Window,       \* ... per Window[p] clock ticks
    MaxKeys,      \* max_keys
    ShrinkEvery,  \* SHRINK_EVERY_S in clock ticks
    EdgeSecret,   \* EDGE_SHARED_SECRET is set
    Enabled,      \* ratelimit.enabled()
    MaxTime       \* bound: the clock stops here

ASSUME ConstantsAssumption ==
    /\ Paths \cap OpenPaths = {} /\ Exempt \subseteq OpenPaths
    /\ NoHeader \notin Addrs /\ Headers \subseteq Addrs /\ Sockets \subseteq Addrs
    /\ Net \in [Addrs -> Keys]
    /\ Limit \in [Paths -> Nat \ {0}]
    /\ Window \in [Paths -> Nat \ {0}]
    /\ MaxKeys \in Nat \ {0}
    /\ ShrinkEvery \in Nat \ {0}
    /\ EdgeSecret \in BOOLEAN /\ Enabled \in BOOLEAN
    /\ MaxTime \in Nat

VARIABLES
    clock,    \* time.monotonic()
    table,    \* table[p]: the window of path p, with its _last_shrink entry
    reply     \* what the last request got

vars == <<clock, table, reply>>

(***************************************************************************)
(* A path's table.  `tracked' is the key set of _events and log[k] the      *)
(* deque of key k, <<>> for a key that is not tracked.  `shrunk' is the     *)
(* _last_shrink entry; -ShrinkEvery stands for the missing one (-inf).      *)
(***************************************************************************)
Tables == [tracked : SUBSET Keys, log : [Keys -> Seq(Nat)], shrunk : Int]

EmptyTable ==
    [tracked |-> {}, log |-> [k \in Keys |-> <<>>], shrunk |-> -ShrinkEvery]

Last(s) == s[Len(s)]

\* Mutant of Stale: the loop stops at an event exactly one window old.
StaleKeepsEdge(s, cutoff) ==
    CHOOSE n \in 0..Len(s) : /\ \A i \in 1..n : s[i] < cutoff
                             /\ n < Len(s) => s[n + 1] >= cutoff

\* The popleft loop of allow: how many leading events are out of the window.
Stale(s, cutoff) ==
    CHOOSE n \in 0..Len(s) : /\ \A i \in 1..n : s[i] <= cutoff
                             /\ n < Len(s) => s[n + 1] > cutoff

DropStale(s, cutoff) ==
    [i \in 1..(Len(s) - Stale(s, cutoff)) |-> s[i + Stale(s, cutoff)]]

\* del _events[k] for every k of gone
Forget(t, gone) ==
    [t EXCEPT !.tracked = @ \ gone,
              !.log = [k \in Keys |-> IF k \in gone THEN <<>> ELSE t.log[k]]]

Idle(p, t, now) ==
    {k \in t.tracked : t.log[k] = <<>> \/ Last(t.log[k]) <= now - Window[p]}

\* Mutant of OpenKeys: any client may be evicted.
OpenKeysAll(p, t) == t.tracked

OpenKeys(p, t) == {k \in t.tracked : Len(t.log[k]) < Limit[p]}

\* int(self.max_keys * 0.9)
ShrinkTarget == (9 * MaxKeys) \div 10

\* The first `excess' of the open keys sorted by (last seen, key).  Key order
\* breaks ties by the text of the key, which is left open here.
LeastRecent(p, t, excess) ==
    {gone \in SUBSET OpenKeys(p, t) :
        /\ Cardinality(gone) = IF excess < Cardinality(OpenKeys(p, t))
                               THEN excess ELSE Cardinality(OpenKeys(p, t))
        /\ \A g \in gone, k \in OpenKeys(p, t) \ gone : Last(t.log[g]) <= Last(t.log[k])}

\* _shrink: the tables one cleanup may leave
Shrink(p, t, now) ==
    LET kept   == Forget(t, Idle(p, t, now))
        excess == Cardinality(kept.tracked) - ShrinkTarget
    IN  IF excess <= 0 THEN {kept}
        ELSE {Forget(kept, gone) : gone \in LeastRecent(p, kept, excess)}

\* Mutant of MaybeShrink: cleanups are not spaced.
MaybeShrinkAlways(p, t, now) == Shrink(p, [t EXCEPT !.shrunk = now], now)

\* _maybe_shrink
MaybeShrink(p, t, now) ==
    IF now - t.shrunk >= ShrinkEvery
    THEN Shrink(p, [t EXCEPT !.shrunk = now], now)
    ELSE {t}

\* SlidingWindowRateLimiter.allow: its answer, and the table it leaves
Allowed(p, t, k, now) == Len(DropStale(t.log[k], now - Window[p])) < Limit[p]

Allow(p, t, k, now) ==
    LET fresh == DropStale(t.log[k], now - Window[p])
    IN  [t EXCEPT !.tracked = @ \cup {k},
                  !.log[k]  = IF Len(fresh) < Limit[p] THEN Append(fresh, now) ELSE fresh]

\* Mutant of Full: off by one.
FullLate(t) == Cardinality(t.tracked) > 2 * MaxKeys

Full(t) == Cardinality(t.tracked) >= 2 * MaxKeys

\* The tables the ceiling test of check may leave: cleaned only for a newcomer
\* that meets a full table.
Admitting(p, t, k, now) ==
    IF k \notin t.tracked /\ Full(t) THEN MaybeShrink(p, t, now) ELSE {t}

\* The tables the cleanup after allow may leave.
Cleaned(p, t, now) ==
    IF Cardinality(t.tracked) > MaxKeys THEN MaybeShrink(p, t, now) ELSE {t}

NoReply == [status |-> "none"]
Passed(p, k)       == [status |-> "pass", path |-> p, key |-> k]
TooMany(p, k, w)   == [status |-> "limited", path |-> p, key |-> k, wait |-> w]
TableFull(p, k)    == [status |-> "full", path |-> p, key |-> k, wait |-> Window[p]]
Forbidden          == [status |-> "forbidden"]
Unlimited          == [status |-> "unlimited"]

\* Mutant of Check: the wait is computed from the newest request.
CheckLastEvent(p, k) ==
    \E t1 \in Admitting(p, table[p], k, clock) :
        \/ /\ k \notin table[p].tracked /\ Full(table[p]) /\ Full(t1)
           /\ table' = [table EXCEPT ![p] = t1]
           /\ reply' = TableFull(p, k)
        \/ /\ ~(k \notin table[p].tracked /\ Full(table[p]) /\ Full(t1))
           /\ \E t2 \in Cleaned(p, Allow(p, t1, k, clock), clock) :
                /\ table' = [table EXCEPT ![p] = t2]
                /\ reply' = IF Allowed(p, t1, k, clock) THEN Passed(p, k)
                            ELSE TooMany(p, k, Last(t2.log[k]) + Window[p] - clock)

\* Limiter.check for a limited path
Check(p, k) ==
    \E t1 \in Admitting(p, table[p], k, clock) :
        \/ /\ k \notin table[p].tracked /\ Full(table[p]) /\ Full(t1)
           /\ table' = [table EXCEPT ![p] = t1]
           /\ reply' = TableFull(p, k)
        \/ /\ ~(k \notin table[p].tracked /\ Full(table[p]) /\ Full(t1))
           /\ \E t2 \in Cleaned(p, Allow(p, t1, k, clock), clock) :
                /\ table' = [table EXCEPT ![p] = t2]
                /\ reply' = IF Allowed(p, t1, k, clock) THEN Passed(p, k)
                            ELSE TooMany(p, k, t2.log[k][1] + Window[p] - clock)

(***************************************************************************)
(* A request: the path it names, the CF-Connecting-IP header it carries,    *)
(* the socket it comes from, and whether it shows the edge secret.          *)
(***************************************************************************)
Requests == [path : Paths \cup OpenPaths, header : Headers \cup {NoHeader},
             socket : Sockets, secret : BOOLEAN]

\* client_key
ClientKey(r) ==
    Net[IF EdgeSecret /\ r.header # NoHeader THEN r.header ELSE r.socket]

\* edge_guard answers 403
Guarded(r) == EdgeSecret /\ r.path \notin Exempt /\ ~r.secret

\* edge_guard, then rate_limit, for one request
Request(r) ==
    \/ /\ Guarded(r)
       /\ reply' = Forbidden
       /\ UNCHANGED <<clock, table>>
    \/ /\ ~Guarded(r)
       /\ ~Enabled \/ r.path \notin Paths
       /\ reply' = Unlimited
       /\ UNCHANGED <<clock, table>>
    \/ /\ ~Guarded(r)
       /\ Enabled /\ r.path \in Paths
       /\ Check(r.path, ClientKey(r))
       /\ UNCHANGED clock

Tick ==
    /\ clock < MaxTime
    /\ clock' = clock + 1
    /\ reply' = NoReply
    /\ UNCHANGED table

Init ==
    /\ clock = 0
    /\ table = [p \in Paths |-> EmptyTable]
    /\ reply = NoReply

Next == Tick \/ \E r \in Requests : Request(r)

Spec == Init /\ [][Next]_vars

-----------------------------------------------------------------------------
(***************************************************************************)
(* Properties                                                              *)
(***************************************************************************)

\* The clock, the tables and the reply keep their types.
TypeOK ==
    /\ clock \in 0..MaxTime
    /\ table \in [Paths -> Tables]
    /\ reply \in {NoReply, Forbidden, Unlimited}
                 \cup [status : {"pass"}, path : Paths, key : Keys]
                 \cup [status : {"limited", "full"}, path : Paths, key : Keys, wait : Int]

\* Limiter: "never passes 2 * max_keys".  A path's table never tracks more
\* clients than twice max_keys, whatever the traffic and however the cleanups
\* are spaced.
Ceiling == \A p \in Paths : Cardinality(table[p].tracked) <= 2 * MaxKeys

\* The oldest counted request of k is inside the window at time t and the count
\* is at the limit.
LimitedAt(p, k, t) ==
    /\ Len(table[p].log[k]) >= Limit[p]
    /\ table[p].log[k][1] > t - Window[p]

\* _shrink: "A client at its limit is never evicted".  No step, of this client
\* or of any other, changes the record of a client that is at its limit while
\* its window lasts.
LimitedIsKept ==
    [][\A p \in Paths, k \in Keys :
          LimitedAt(p, k, clock') => /\ table'[p].log[k] = table[p].log[k]
                                     /\ k \in table'[p].tracked]_vars

\* check: a refusal names a wait that is positive and at most one window, even
\* when the cleanup ran between the refusal and the read of events[key][0].
HonestWait ==
    reply.status \in {"limited", "full"} => reply.wait \in 1..Window[reply.path]

=============================================================================
