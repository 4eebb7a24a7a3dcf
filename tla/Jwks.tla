-------------------------------- MODULE Jwks --------------------------------
(***************************************************************************)
(* The signing-key cache of auth.py: _Jwks.key_for, called by the threads   *)
(* of all requests that carry a token.  Only the fetch is under the lock;   *)
(* every read of the cache before it is not, so each read is a step.        *)
(*                                                                         *)
(* The two time stamps are kept as ages that stop at the largest value the  *)
(* code tells apart; the missing stamp (-inf) is that value.  The key       *)
(* endpoint and its key set are outside the program.                        *)
(***************************************************************************)
EXTENDS Integers, FiniteSets

CONSTANTS
    Threads, Kids, Nobody,
    TTL,          \* _JWKS_TTL_S, in ticks
    MinRefresh,   \* _JWKS_MIN_REFRESH_S
    Retry,        \* _JWKS_RETRY_S
    Timeout       \* _JWKS_TIMEOUT_S, the longest wait for the lock

ASSUME JwksAssumption ==
    /\ Nobody \notin Threads
    /\ TTL \in Nat /\ MinRefresh \in 1..TTL /\ Retry \in Nat \ {0} /\ Timeout \in Nat \ {0}

VARIABLES
    published,    \* the key set the endpoint serves
    keys,         \* self.keys, {} for None (an empty set does not parse)
    fetched,      \* age of self.fetched_at
    failed,       \* age of self.failed_at
    lock,         \* self.lock
    pc, kid,      \* per thread: its next step, and the kid of its token
    key,          \* per thread: the local `key' is not None
    body,         \* per thread: the key set in the response it has received
    wait,         \* per thread: ticks until lock.acquire gives up
    seen          \* history: the kid was in self.keys at some time since the call

cache == <<keys, fetched, failed>>
locals == <<kid, key, body, wait>>
vars == <<published, cache, lock, pc, locals, seen>>

Fetching == {"fetch", "store_keys", "store_time"}
Outcomes == {"accepted", "unknown", "unavailable"}   \* key returned, 401, 503

Lookup(t) == kid[t] \in keys

\* _needs_fetch.  It reads the time before the keys, and _fetch stores the keys
\* before the time, so what it reads is a pair that some state holds.
NeedsFetch(t) == fetched >= TTL \/ (~Lookup(t) /\ fetched >= MinRefresh)

\* "return key" if there is one, else the other outcome
KeyOr(t, other) == IF key[t] THEN "accepted" ELSE other

GoTo(t, where) == pc' = [pc EXCEPT ![t] = where]

-----------------------------------------------------------------------------
Init ==
    /\ published \in (SUBSET Kids) \ {{}}
    /\ keys = {} /\ fetched = TTL /\ failed = Retry
    /\ lock = Nobody
    /\ pc = [t \in Threads |-> "accepted"]
    /\ kid \in [Threads -> {CHOOSE k \in Kids : TRUE}]
    /\ key = [t \in Threads |-> FALSE]
    /\ body = [t \in Threads |-> {}]
    /\ wait = [t \in Threads |-> 0]
    /\ seen = [t \in Threads |-> TRUE]

\* verify_token of a token with any kid
Call(t) ==
    /\ pc[t] \in Outcomes
    /\ \E k \in Kids : /\ kid' = [kid EXCEPT ![t] = k]
                       /\ seen' = [seen EXCEPT ![t] = k \in keys]
    /\ GoTo(t, "lookup")
    /\ key' = [key EXCEPT ![t] = FALSE]
    /\ UNCHANGED <<published, cache, lock, body, wait>>

\* key = self._lookup(kid)
LookUp(t) ==
    /\ pc[t] = "lookup"
    /\ key' = [key EXCEPT ![t] = Lookup(t)]
    /\ GoTo(t, "decide")
    /\ UNCHANGED <<published, cache, lock, kid, body, wait, seen>>

\* if not self._needs_fetch(kid)
Decide(t) ==
    /\ pc[t] = "decide"
    /\ GoTo(t, IF NeedsFetch(t) THEN "recent" ELSE KeyOr(t, "unknown"))
    /\ UNCHANGED <<published, cache, lock, locals, seen>>

\* if time.monotonic() - self.failed_at < _JWKS_RETRY_S
CheckRecent(t) ==
    /\ pc[t] = "recent"
    /\ GoTo(t, IF failed < Retry THEN KeyOr(t, "unavailable") ELSE "acquire")
    /\ wait' = [wait EXCEPT ![t] = IF failed < Retry THEN 0 ELSE Timeout]
    /\ UNCHANGED <<published, cache, lock, kid, key, body, seen>>

\* self.lock.acquire(timeout=_JWKS_TIMEOUT_S)
Acquire(t) ==
    /\ pc[t] = "acquire" /\ lock = Nobody
    /\ lock' = t
    /\ wait' = [wait EXCEPT ![t] = 0]
    /\ GoTo(t, "recheck")
    /\ UNCHANGED <<published, cache, kid, key, body, seen>>

\* Mutant of GiveUp: lock.acquire() without a timeout.
GiveUpNever(t) == FALSE

GiveUp(t) ==
    /\ pc[t] = "acquire" /\ lock # Nobody /\ wait[t] = 0
    /\ GoTo(t, KeyOr(t, "unavailable"))
    /\ UNCHANGED <<published, cache, lock, locals, seen>>

\* Mutant of AfterRecheck: no second look.
AfterRecheckFetch(t) == "fetch"

\* "another thread may have fetched while we waited"
AfterRecheck(t) == IF NeedsFetch(t) THEN "fetch" ELSE "release"

Recheck(t) ==
    /\ pc[t] = "recheck"
    /\ GoTo(t, AfterRecheck(t))
    /\ UNCHANGED <<published, cache, lock, locals, seen>>

\* _fetch: the response arrives
FetchAnswers(t) ==
    /\ pc[t] = "fetch"
    /\ body' = [body EXCEPT ![t] = published]
    /\ GoTo(t, "store_keys")
    /\ UNCHANGED <<published, cache, lock, kid, key, wait, seen>>

\* Mutant of FetchFails: an outage lets the request pass.
FetchFailsOpen(t) ==
    /\ pc[t] = "fetch"
    /\ failed' = 0
    /\ lock' = Nobody
    /\ GoTo(t, "accepted")
    /\ UNCHANGED <<published, keys, fetched, locals, seen>>

\* _fetch raises: failed_at is set; finally releases the lock on the way out
FetchFails(t) ==
    /\ pc[t] = "fetch"
    /\ failed' = 0
    /\ lock' = Nobody
    /\ GoTo(t, KeyOr(t, "unavailable"))
    /\ UNCHANGED <<published, keys, fetched, locals, seen>>

\* self.keys, self.fetched_at = keys, time.monotonic(): two stores
StoreKeys(t) ==
    /\ pc[t] = "store_keys"
    /\ keys' = body[t]
    /\ seen' = [u \in Threads |-> seen[u] \/ kid[u] \in body[t]]
    /\ body' = [body EXCEPT ![t] = {}]
    /\ GoTo(t, "store_time")
    /\ UNCHANGED <<published, fetched, failed, lock, kid, key, wait>>

StoreTime(t) ==
    /\ pc[t] = "store_time"
    /\ fetched' = 0
    /\ GoTo(t, "release")
    /\ UNCHANGED <<published, keys, failed, lock, locals, seen>>

Release(t) ==
    /\ pc[t] = "release"
    /\ lock' = Nobody
    /\ GoTo(t, "final")
    /\ UNCHANGED <<published, cache, locals, seen>>

\* key = self._lookup(kid), after the fetch
FinalLookUp(t) ==
    /\ pc[t] = "final"
    /\ key' = [key EXCEPT ![t] = Lookup(t)]
    /\ GoTo(t, IF Lookup(t) THEN "accepted" ELSE "unknown")
    /\ UNCHANGED <<published, cache, lock, kid, body, wait, seen>>

\* The project rotates its signing keys.
Rotate ==
    /\ \E ks \in (SUBSET Kids) \ {{}} : ks # published /\ published' = ks
    /\ UNCHANGED <<cache, lock, pc, locals, seen>>

Older(age, top) == IF age < top THEN age + 1 ELSE top

Tick ==
    /\ fetched' = Older(fetched, TTL)
    /\ failed' = Older(failed, Retry)
    /\ wait' = [t \in Threads |-> IF wait[t] > 0 THEN wait[t] - 1 ELSE 0]
    /\ UNCHANGED <<published, keys, lock, pc, kid, key, body, seen>>

\* The steps of a thread that do not wait for the endpoint.
Step(t) ==
    \/ LookUp(t) \/ Decide(t) \/ CheckRecent(t) \/ Acquire(t) \/ GiveUp(t) \/ Recheck(t)
    \/ StoreKeys(t) \/ StoreTime(t) \/ Release(t) \/ FinalLookUp(t)

Next ==
    \/ Tick \/ Rotate
    \/ \E t \in Threads : Call(t) \/ Step(t) \/ FetchAnswers(t) \/ FetchFails(t)

\* Threads are scheduled and time passes.  The endpoint may never answer: the
\* timeout of httpx is per read, so a slow body can hold a fetch open for ever.
Fairness == WF_vars(Tick) /\ \A t \in Threads : WF_vars(Step(t))

Spec == Init /\ [][Next]_vars /\ Fairness

-----------------------------------------------------------------------------
(* Properties                                                              *)

\* Every variable keeps its type.
TypeOK ==
    /\ published \in SUBSET Kids /\ keys \in SUBSET Kids
    /\ fetched \in 0..TTL /\ failed \in 0..Retry
    /\ lock \in Threads \cup {Nobody}
    /\ pc \in [Threads -> Outcomes \cup Fetching \cup
                          {"lookup", "decide", "recent", "acquire", "recheck", "release", "final"}]
    /\ kid \in [Threads -> Kids]
    /\ key \in [Threads -> BOOLEAN] /\ seen \in [Threads -> BOOLEAN]
    /\ body \in [Threads -> SUBSET Kids]
    /\ wait \in [Threads -> 0..Timeout]

\* Fail closed: whatever refreshes, failures and rotations run beside it, a
\* request accepts a key only if the cache held that key at some time during the
\* request; in particular a key that a refresh has dropped is not accepted by any
\* later request, not even as the "last good" one.
AcceptedWasTrusted == \A t \in Threads : pc[t] = "accepted" => seen[t]

\* "an unknown kid refetches at most once per _JWKS_MIN_REFRESH_S": no fetch
\* starts within MinRefresh of the last good one, although several threads may
\* have decided to fetch before it.
RefreshesSpaced ==
    [][\A t \in Threads : pc[t] # "fetch" /\ pc'[t] = "fetch" => fetched >= MinRefresh]_vars

\* A fetch that hangs blocks nobody else: every request ends, unless it is itself
\* the one that waits for the endpoint.
OthersAnswer ==
    \A t \in Threads : pc[t] = "lookup" ~> pc[t] \in Outcomes \cup {"fetch"}

\* key_for, at the 401 of the first test: "unknown kid, just refreshed".  A kid
\* the fresh key set holds is not refused as unknown.
RefusedIsUnknown ==
    [][\A t \in Threads : pc[t] # "unknown" /\ pc'[t] = "unknown" => kid[t] \notin keys]_vars

=============================================================================
