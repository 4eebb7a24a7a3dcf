------------------------------ MODULE EbayToken ------------------------------
(***************************************************************************)
(* Inside a call of the eBay box: EbaySource of dealfinder/live_sources.py  *)
(* keeps one OAuth token for all threads, without a lock.  _token and       *)
(* _expires are two attributes, written one after the other, and the token  *)
(* is read again when it is returned, so a thread may use the token of one  *)
(* answer with the expiry of another.                                       *)
(*                                                                         *)
(* Times are ages: that of a token counts from when eBay issued it, while   *)
(* _expires counts from when its answer was stored.  What eBay answers to   *)
(* the search itself is the outcome of CallEnds in module Shop.             *)
(***************************************************************************)
EXTENDS Integers

CONSTANTS
    Callers,    \* threads that run EbaySource.search
    Life,       \* expires_in
    Margin,     \* the 60 seconds by which a token is given up early
    Delay       \* bound: ticks from a token's issue, or its test, to its use

\* The margin is 60 seconds: a thread is assumed to take 20 at most from the answer of
\* eBay to the search.  httpx only enforces 30 seconds per read.
ASSUME EbayTokenAssumption == Delay \in Nat /\ Margin \in Nat /\ Life \in Nat /\ 3 * Delay <= Margin /\ Margin < Life

VARIABLES
    token,      \* age of _token, NoToken before the first
    expires,    \* ticks until _expires, 0 when it has passed
    caller      \* thread -> [pc, age of the token in hand, ticks it took so far]

tokenVars == <<token, expires, caller>>

NoToken == Life + 1
Resting == [pc |-> "rest", age |-> NoToken, took |-> 0]

TokenInit ==
    /\ token = NoToken /\ expires = 0
    /\ caller = [c \in Callers |-> Resting]

To(c, pc) == caller' = [caller EXCEPT ![c].pc = pc]

\* available, and the first line of _get_token: is there a token that has not expired?
TestToken(c) ==
    /\ caller[c].pc = "rest"
    /\ To(c, IF token # NoToken /\ expires > 0 THEN "return" ELSE "post")
    /\ UNCHANGED <<token, expires>>

\* httpx.post: eBay issues a token, whose answer travels
Issue(c) ==
    /\ caller[c].pc = "post"
    /\ caller' = [caller EXCEPT ![c] = [pc |-> "store", age |-> 0, took |-> 0]]
    /\ UNCHANGED <<token, expires>>

\* raise_for_status, or no answer: the box shows a failure
IssueFails(c) ==
    /\ caller[c].pc = "post"
    /\ caller' = [caller EXCEPT ![c] = Resting]
    /\ UNCHANGED <<token, expires>>

\* self._token = j["access_token"]
StoreAccess(c) ==
    /\ caller[c].pc = "store"
    /\ token' = caller[c].age
    /\ To(c, "expiry")
    /\ UNCHANGED expires

\* Mutant of Lifetime: the token is used to its last second.
LifetimeWhole == Life

\* j.get("expires_in", 7200) - 60
Lifetime == Life - Margin

\* self._expires = time.monotonic() + ...
StoreExpiry(c) ==
    /\ caller[c].pc = "expiry"
    /\ expires' = Lifetime
    /\ To(c, "return")
    /\ UNCHANGED token

\* return self._token: whichever it is by now
ReturnToken(c) ==
    /\ caller[c].pc = "return"
    /\ caller' = [caller EXCEPT ![c].pc = "send", ![c].age = token]
    /\ UNCHANGED <<token, expires>>

\* the search is sent with the token
Send(c) ==
    /\ caller[c].pc = "send"
    /\ caller' = [caller EXCEPT ![c] = Resting]
    /\ UNCHANGED <<token, expires>>

Ages(age) == IF age < Life THEN age + 1 ELSE age

\* A thread at work is not held up for more than Delay.
TokenTick ==
    /\ \A c \in Callers : caller[c].pc \in {"rest", "post"} \/ caller[c].took < Delay
    /\ token' = Ages(token)
    /\ expires' = IF expires > 0 THEN expires - 1 ELSE 0
    /\ caller' = [c \in Callers |->
          IF caller[c].pc \in {"rest", "post"} THEN caller[c]
          ELSE [caller[c] EXCEPT !.age = Ages(@), !.took = @ + 1]]

TokenNext ==
    \/ TokenTick
    \/ \E c \in Callers :
          \/ TestToken(c) \/ Issue(c) \/ IssueFails(c)
          \/ StoreAccess(c) \/ StoreExpiry(c) \/ ReturnToken(c) \/ Send(c)

TokenSpec == TokenInit /\ [][TokenNext]_tokenVars

-----------------------------------------------------------------------------
\* _get_token: no search is sent with a token that eBay has expired, whichever
\* thread's token and whichever thread's expiry the reader met.
TokenFresh == \A c \in Callers : caller[c].pc = "send" => caller[c].age < Life

=============================================================================
