----------------------------- MODULE JwksProofs -----------------------------
(***************************************************************************)
(* The key cache fails closed for any number of threads and keys, whatever  *)
(* the endpoint does, its good refreshes are spaced, and a request is       *)
(* served only as what a verified token says.                               *)
(***************************************************************************)
EXTENDS Identity, TLAPS

\* The lock is held exactly by the thread that is between its acquire and its
\* release, so at most one thread fetches.
Holding == Fetching \cup {"recheck", "release"}
OneHolder == \A t \in Threads : pc[t] \in Holding <=> lock = t

\* What a thread has looked up, and what the cache holds now, was in the cache
\* during its call.
SeenIsKept == \A t \in Threads : key[t] \/ Lookup(t) => seen[t]

IInv == TypeOK /\ OneHolder /\ SeenIsKept /\ AcceptedWasTrusted

\* At the start nobody holds the lock and nothing is cached.
LEMMA InitIInv == Init => IInv
<1> SUFFICES ASSUME Init PROVE IInv
  OBVIOUS
<1>1. TypeOK
  <2>1. kid \in [Threads -> Kids]
    BY DEF Init
  <2> QED
    BY <2>1, JwksAssumption DEF Init, TypeOK, Outcomes
<1>2. OneHolder
  BY JwksAssumption DEF Init, OneHolder, Holding, Fetching
<1>3. SeenIsKept
  BY DEF Init, SeenIsKept, Lookup
<1>4. AcceptedWasTrusted
  BY DEF Init, AcceptedWasTrusted
<1> QED
  BY <1>1, <1>2, <1>3, <1>4 DEF IInv

\* A lookup finds the key or does not.
LEMMA LookupIsBoolean == \A t \in Threads : Lookup(t) \in BOOLEAN
  BY DEF Lookup

\* A step of thread t outside the store of a key set: nobody else moves, the cache
\* keeps its keys, and t ends as accepted only with a key that was seen.
LEMMA ThreadStep ==
    ASSUME IInv, NEW t \in Threads,
           Step(t) \/ FetchAnswers(t) \/ FetchFails(t) \/ Call(t)
    PROVE  IInv'
<1> USE DEF IInv, GoTo, cache, locals
<1>1. CASE Call(t)
  <2>1. TypeOK'
    BY <1>1, JwksAssumption DEF Call, TypeOK, Outcomes, Fetching
  <2>2. OneHolder'
    BY <1>1, JwksAssumption DEF Call, TypeOK, OneHolder, Holding, Fetching, Outcomes
  <2>3. SeenIsKept'
    BY <1>1 DEF Call, TypeOK, SeenIsKept, Lookup
  <2>4. AcceptedWasTrusted'
    BY <1>1 DEF Call, TypeOK, SeenIsKept, Lookup, AcceptedWasTrusted
  <2> QED
    BY <2>1, <2>2, <2>3, <2>4
<1>2. CASE LookUp(t)
  <2>1. TypeOK'
    <3>1. PICK b \in BOOLEAN : key' = [key EXCEPT ![t] = b]
      BY <1>2, LookupIsBoolean, Zenon DEF LookUp
    <3>2. key \in [Threads -> BOOLEAN]
      BY DEF TypeOK
    <3>3. key' \in [Threads -> BOOLEAN]
      BY <3>1, <3>2
    <3> QED
      BY <1>2, <3>3 DEF LookUp, TypeOK, Outcomes
  <2>2. OneHolder'
    BY <1>2, JwksAssumption DEF LookUp, TypeOK, OneHolder, Holding, Fetching, Outcomes
  <2>3. SeenIsKept'
    BY <1>2 DEF LookUp, TypeOK, SeenIsKept, Lookup
  <2>4. AcceptedWasTrusted'
    BY <1>2 DEF LookUp, TypeOK, SeenIsKept, Lookup, AcceptedWasTrusted
  <2> QED
    BY <2>1, <2>2, <2>3, <2>4
<1>3. CASE Decide(t)
  <2>1. TypeOK'
    BY <1>3, JwksAssumption DEF Decide, KeyOr, TypeOK, Outcomes, Fetching
  <2>2. OneHolder'
    BY <1>3, JwksAssumption DEF Decide, KeyOr, TypeOK, OneHolder, Holding, Fetching, Outcomes
  <2>3. SeenIsKept'
    BY <1>3 DEF Decide, TypeOK, SeenIsKept, Lookup
  <2>4. AcceptedWasTrusted'
    BY <1>3 DEF Decide, KeyOr, TypeOK, SeenIsKept, Lookup, AcceptedWasTrusted
  <2> QED
    BY <2>1, <2>2, <2>3, <2>4
<1>4. CASE CheckRecent(t)
  <2>1. TypeOK'
    BY <1>4, JwksAssumption DEF CheckRecent, KeyOr, TypeOK, Outcomes, Fetching
  <2>2. OneHolder'
    BY <1>4, JwksAssumption DEF CheckRecent, KeyOr, TypeOK, OneHolder, Holding, Fetching, Outcomes
  <2>3. SeenIsKept'
    BY <1>4 DEF CheckRecent, TypeOK, SeenIsKept, Lookup
  <2>4. AcceptedWasTrusted'
    BY <1>4 DEF CheckRecent, KeyOr, TypeOK, SeenIsKept, Lookup, AcceptedWasTrusted
  <2> QED
    BY <2>1, <2>2, <2>3, <2>4
<1>5. CASE Acquire(t)
  <2>1. TypeOK'
    BY <1>5, JwksAssumption DEF Acquire, TypeOK, Outcomes, Fetching
  <2>2. OneHolder'
    BY <1>5, JwksAssumption DEF Acquire, TypeOK, OneHolder, Holding, Fetching, Outcomes
  <2>3. SeenIsKept'
    BY <1>5 DEF Acquire, TypeOK, SeenIsKept, Lookup
  <2>4. AcceptedWasTrusted'
    BY <1>5 DEF Acquire, TypeOK, SeenIsKept, Lookup, AcceptedWasTrusted
  <2> QED
    BY <2>1, <2>2, <2>3, <2>4
<1>6. CASE GiveUp(t)
  <2>1. TypeOK'
    BY <1>6, JwksAssumption DEF GiveUp, KeyOr, TypeOK, Outcomes, Fetching
  <2>2. OneHolder'
    BY <1>6, JwksAssumption DEF GiveUp, KeyOr, TypeOK, OneHolder, Holding, Fetching, Outcomes
  <2>3. SeenIsKept'
    BY <1>6 DEF GiveUp, TypeOK, SeenIsKept, Lookup
  <2>4. AcceptedWasTrusted'
    BY <1>6 DEF GiveUp, KeyOr, TypeOK, SeenIsKept, Lookup, AcceptedWasTrusted
  <2> QED
    BY <2>1, <2>2, <2>3, <2>4
<1>7. CASE Recheck(t)
  <2>1. TypeOK'
    BY <1>7, JwksAssumption DEF Recheck, AfterRecheck, TypeOK, Outcomes, Fetching
  <2>2. OneHolder'
    BY <1>7, JwksAssumption DEF Recheck, AfterRecheck, TypeOK, OneHolder, Holding, Fetching, Outcomes
  <2>3. SeenIsKept'
    BY <1>7 DEF Recheck, TypeOK, SeenIsKept, Lookup
  <2>4. AcceptedWasTrusted'
    BY <1>7 DEF Recheck, AfterRecheck, TypeOK, SeenIsKept, Lookup, AcceptedWasTrusted
  <2> QED
    BY <2>1, <2>2, <2>3, <2>4
<1>8. CASE FetchAnswers(t)
  <2>1. TypeOK'
    BY <1>8, JwksAssumption DEF FetchAnswers, TypeOK, Outcomes, Fetching
  <2>2. OneHolder'
    BY <1>8, JwksAssumption DEF FetchAnswers, TypeOK, OneHolder, Holding, Fetching, Outcomes
  <2>3. SeenIsKept'
    BY <1>8 DEF FetchAnswers, TypeOK, SeenIsKept, Lookup
  <2>4. AcceptedWasTrusted'
    BY <1>8 DEF FetchAnswers, TypeOK, SeenIsKept, Lookup, AcceptedWasTrusted
  <2> QED
    BY <2>1, <2>2, <2>3, <2>4
<1>9. CASE FetchFails(t)
  <2>1. TypeOK'
    BY <1>9, JwksAssumption DEF FetchFails, KeyOr, TypeOK, Outcomes, Fetching
  <2>2. OneHolder'
    BY <1>9, JwksAssumption DEF FetchFails, KeyOr, TypeOK, OneHolder, Holding, Fetching, Outcomes
  <2>3. SeenIsKept'
    BY <1>9 DEF FetchFails, TypeOK, SeenIsKept, Lookup
  <2>4. AcceptedWasTrusted'
    BY <1>9 DEF FetchFails, KeyOr, TypeOK, SeenIsKept, Lookup, AcceptedWasTrusted
  <2> QED
    BY <2>1, <2>2, <2>3, <2>4
<1>10. CASE StoreKeys(t)
  <2>1. TypeOK'
    BY <1>10, JwksAssumption DEF StoreKeys, TypeOK, Outcomes, Fetching
  <2>2. OneHolder'
    BY <1>10, JwksAssumption DEF StoreKeys, TypeOK, OneHolder, Holding, Fetching, Outcomes
  <2>3. SeenIsKept'
    BY <1>10 DEF StoreKeys, TypeOK, SeenIsKept, Lookup
  <2>4. AcceptedWasTrusted'
    BY <1>10 DEF StoreKeys, TypeOK, SeenIsKept, Lookup, AcceptedWasTrusted
  <2> QED
    BY <2>1, <2>2, <2>3, <2>4
<1>11. CASE StoreTime(t)
  <2>1. TypeOK'
    BY <1>11, JwksAssumption DEF StoreTime, TypeOK, Outcomes, Fetching
  <2>2. OneHolder'
    BY <1>11, JwksAssumption DEF StoreTime, TypeOK, OneHolder, Holding, Fetching, Outcomes
  <2>3. SeenIsKept'
    BY <1>11 DEF StoreTime, TypeOK, SeenIsKept, Lookup
  <2>4. AcceptedWasTrusted'
    BY <1>11 DEF StoreTime, TypeOK, SeenIsKept, Lookup, AcceptedWasTrusted
  <2> QED
    BY <2>1, <2>2, <2>3, <2>4
<1>12. CASE Release(t)
  <2>1. TypeOK'
    BY <1>12, JwksAssumption DEF Release, TypeOK, Outcomes, Fetching
  <2>2. OneHolder'
    BY <1>12, JwksAssumption DEF Release, TypeOK, OneHolder, Holding, Fetching, Outcomes
  <2>3. SeenIsKept'
    BY <1>12 DEF Release, TypeOK, SeenIsKept, Lookup
  <2>4. AcceptedWasTrusted'
    BY <1>12 DEF Release, TypeOK, SeenIsKept, Lookup, AcceptedWasTrusted
  <2> QED
    BY <2>1, <2>2, <2>3, <2>4
<1>13. CASE FinalLookUp(t)
  <2>1. TypeOK'
    <3>1. PICK b \in BOOLEAN : key' = [key EXCEPT ![t] = b]
      BY <1>13, LookupIsBoolean, Zenon DEF FinalLookUp
    <3>2. key \in [Threads -> BOOLEAN]
      BY DEF TypeOK
    <3>3. key' \in [Threads -> BOOLEAN]
      BY <3>1, <3>2
    <3> QED
      BY <1>13, <3>3 DEF FinalLookUp, TypeOK, Outcomes
  <2>2. OneHolder'
    BY <1>13, JwksAssumption DEF FinalLookUp, TypeOK, OneHolder, Holding, Fetching, Outcomes
  <2>3. SeenIsKept'
    BY <1>13 DEF FinalLookUp, TypeOK, SeenIsKept, Lookup
  <2>4. AcceptedWasTrusted'
    BY <1>13 DEF FinalLookUp, TypeOK, SeenIsKept, Lookup, AcceptedWasTrusted
  <2> QED
    BY <2>1, <2>2, <2>3, <2>4
<1> QED
  BY <1>1, <1>2, <1>3, <1>4, <1>5, <1>6, <1>7, <1>8, <1>9, <1>10, <1>11, <1>12, <1>13 DEF Step

\* Neither time nor a rotation at the endpoint touches what threads have seen.
LEMMA OutsideStep ==
    ASSUME IInv, Tick \/ Rotate \/ UNCHANGED vars
    PROVE  IInv'
<1> USE DEF IInv
<1>1. CASE Tick
  BY <1>1, JwksAssumption DEF Tick, Older, TypeOK, OneHolder, Holding, Fetching, SeenIsKept, Lookup, AcceptedWasTrusted
<1>2. CASE Rotate
  BY <1>2 DEF Rotate, cache, locals, TypeOK, OneHolder, Holding, Fetching, SeenIsKept, Lookup, AcceptedWasTrusted
<1>3. CASE UNCHANGED vars
  BY <1>3 DEF vars, cache, locals, TypeOK, OneHolder, Holding, Fetching, SeenIsKept, Lookup, AcceptedWasTrusted
<1> QED
  BY <1>1, <1>2, <1>3

\* Every step keeps the invariant.
LEMMA NextIInv == IInv /\ [Next]_vars => IInv'
  BY ThreadStep, OutsideStep DEF Next

\* The four parts of the invariant hold in every behaviour.
THEOREM Invariance == Spec => []IInv
<1>1. Init => IInv
  BY InitIInv
<1>2. IInv /\ [Next]_vars => IInv'
  BY NextIInv
<1> QED
  BY <1>1, <1>2, PTL DEF Spec

\* Every variable keeps its type.
THEOREM TypeCorrect == Spec => []TypeOK
<1>1. IInv => TypeOK
  BY DEF IInv
<1> QED
  BY <1>1, Invariance, PTL

\* key_for fails closed: no outage, rotation or race makes a request accept a key
\* that the cache did not hold while the request ran.
THEOREM FailsClosed == Spec => []AcceptedWasTrusted
<1>1. IInv => AcceptedWasTrusted
  BY DEF IInv
<1> QED
  BY <1>1, Invariance, PTL

\* A thread reaches the fetch only from the test under the lock, which asks again
\* how old the keys are.
LEMMA FetchIsDue ==
    ASSUME TypeOK, [Next]_vars, NEW t \in Threads, pc[t] # "fetch", pc'[t] = "fetch"
    PROVE  fetched >= MinRefresh
<1> USE DEF GoTo
<1>1. pc' # pc
  OBVIOUS
<1>2. Next
  BY <1>1 DEF vars
<1>3. ~Tick /\ ~Rotate
  BY <1>1 DEF Tick, Rotate
<1>4. PICK u \in Threads : Call(u) \/ Step(u) \/ FetchAnswers(u) \/ FetchFails(u)
  BY <1>2, <1>3 DEF Next
<1>5. CASE Recheck(u)
  <2>1. u = t /\ AfterRecheck(t) = "fetch"
    BY <1>5 DEF Recheck, TypeOK
  <2>2. NeedsFetch(t)
    BY <2>1 DEF AfterRecheck
  <2> QED
    BY <2>2, JwksAssumption DEF NeedsFetch, TypeOK
<1>6. CASE ~Recheck(u)
  BY <1>4, <1>6 DEF Call, Step, FetchAnswers, FetchFails, LookUp, Decide, CheckRecent, Acquire,
     GiveUp, StoreKeys, StoreTime, Release, FinalLookUp, KeyOr, TypeOK
<1> QED
  BY <1>5, <1>6

-----------------------------------------------------------------------------
(* The requests around key_for                                             *)

\* Every step of a request is a step of the key cache or leaves it alone.
LEMMA IdStepIsCacheStep == [IdNext]_idVars => [Next]_vars
  BY DEF IdNext, idVars, Work, Verify, Serve, ServeAtOnce, Next

\* `a or b or ...' yields one of the claims, or the default.
LEMMA FirstOfIsAClaim ==
    ASSUME NEW claims, NEW default, DOMAIN claims = 1..4
    PROVE  FirstOf(claims, default) = default
           \/ \E i \in DOMAIN claims : FirstOf(claims, default) = claims[i]
<1> DEFINE given == {i \in DOMAIN claims : claims[i] # Absent}
<1>1. CASE given = {}
  BY <1>1 DEF FirstOf
<1>2. CASE given # {}
  <2>1. given \subseteq 1..4
    OBVIOUS
  <2>2. \E i \in given : \A j \in given : i <= j
    <3>1. PICK x : x \in given
      BY <1>2
    <3>2. x \in {1, 2, 3, 4}
      BY <2>1, <3>1
    <3>3. 1 \in given \/ 2 \in given \/ 3 \in given \/ 4 \in given
      BY <3>1, <3>2
    <3> HIDE DEF given
    <3> QED
      BY <2>1, <3>3
  <2>3. (CHOOSE i \in given : \A j \in given : i <= j) \in given
    BY <2>2, Zenon
  <2> QED
    BY <1>2, <2>3 DEF FirstOf
<1> QED
  BY <1>1, <1>2

IdInv == IInv /\ AdmittedIsVerified

\* Who is refused is not admitted.
LEMMA RefusalIsSafe ==
    ASSUME NEW status, status # 200, reply' = Refused(status)
    PROVE  AdmittedIsVerified'
  BY DEF Refused, AdmittedIsVerified

\* A request is answered as the token it carries, once key_for has accepted.
LEMMA ServeKeeps ==
    ASSUME IInv, NEW t \in Threads, Serve(t)
    PROVE  AdmittedIsVerified'
<1>1. PICK token \in Tokens, route \in Routes :
        reply' = Answer(IF Verified(token, pc[t]) = 200 THEN Admission(route, Principal(token))
                        ELSE Verified(token, pc[t]), token, route, Principal(token), seen[t])
  BY Zenon DEF Serve
<1> DEFINE who == Principal(token)
           status == IF Verified(token, pc[t]) = 200 THEN Admission(route, who)
                     ELSE Verified(token, pc[t])
<1>2. CASE status # 200
  BY <1>1, <1>2, RefusalIsSafe DEF Answer
<1>3. CASE status = 200
  <2>1. Verified(token, pc[t]) = 200 /\ Admission(route, who) = 200
    BY <1>3
  <2>2. pc[t] = "accepted" /\ Decoded(token)
    BY <2>1 DEF Verified, Serve, Outcomes
  <2>3. seen[t]
    BY <2>2 DEF IInv, AcceptedWasTrusted
  <2>4. reply' = [status |-> 200, token |-> token, route |-> route, who |-> who, held |-> seen[t]]
    BY <1>1, <1>3 DEF Answer
  <2>5. /\ who.user = token.sub /\ who.tenant = Tenant(token)
    BY DEF Principal
  <2>6. who.tenant = Public \/ \E i \in DOMAIN token.tenants : who.tenant = token.tenants[i]
    BY <2>5, FirstOfIsAClaim, IdentityAssumption DEF Tenant
  <2>7. /\ route # "search" => who.user # Absent
        /\ route = "pro" => who.role = "pro"
    BY <2>1 DEF Admission
  <2>8. token # NoToken
    BY IdentityAssumption
  <2>9. token.genuine /\ token.current /\ token.ours
    BY <2>2 DEF Decoded
  <2> HIDE DEF who, status
  <2> QED
    BY <2>3, <2>4, <2>5, <2>6, <2>7, <2>8, <2>9 DEF AdmittedIsVerified
<1> QED
  BY <1>2, <1>3

\* A request without a token is anonymous.
LEMMA AtOnceKeeps ==
    ASSUME ServeAtOnce
    PROVE  AdmittedIsVerified'
<1>1. CASE \E route \in Routes :
            reply' = Answer(WithoutToken(route), NoToken, route, Anonymous, FALSE)
  <2>1. PICK route \in Routes :
          reply' = Answer(WithoutToken(route), NoToken, route, Anonymous, FALSE)
    BY <1>1
  <2>2. CASE WithoutToken(route) = 200
    <3>1. route = "search"
      BY <2>2 DEF WithoutToken, Admission, Anonymous, Routes
    <3> QED
      BY <2>1, <2>2, <3>1 DEF Answer, AdmittedIsVerified
  <2>3. CASE WithoutToken(route) # 200
    BY <2>1, <2>3, RefusalIsSafe DEF Answer
  <2> QED
    BY <2>2, <2>3
<1>2. CASE reply' = Refused(IF configured THEN 401 ELSE 503)
  BY <1>2, RefusalIsSafe
<1> QED
  BY <1>1, <1>2 DEF ServeAtOnce

\* Both invariants hold around every request.
LEMMA IdNextInv == IdInv /\ [IdNext]_idVars => IdInv'
<1> SUFFICES ASSUME IdInv, [IdNext]_idVars PROVE IdInv'
  OBVIOUS
<1>1. IInv'
  BY IdStepIsCacheStep, NextIInv DEF IdInv
<1>2. AdmittedIsVerified'
  <2>1. ASSUME NEW t \in Threads, Serve(t) PROVE AdmittedIsVerified'
    BY <2>1, ServeKeeps DEF IdInv
  <2>2. CASE ServeAtOnce
    BY <2>2, AtOnceKeeps
  <2>3. ASSUME reply' = NoReply PROVE AdmittedIsVerified'
    BY <2>3, RefusalIsSafe DEF NoReply
  <2>4. CASE UNCHANGED idVars
    BY <2>4 DEF idVars, IdInv, AdmittedIsVerified
  <2> QED
    BY <2>1, <2>2, <2>3, <2>4 DEF IdNext, Work, Verify
<1> QED
  BY <1>1, <1>2 DEF IdInv

\* Identity comes only from a verified token, whatever outage or rotation the
\* request runs into: for any number of threads, keys and tokens.
THEOREM OnlyVerifiedAreAdmitted == IdSpec => []AdmittedIsVerified
<1>1. IdInit => IdInv
  BY InitIInv DEF IdInit, IdInv, NoReply, Refused, AdmittedIsVerified
<1>2. IdInv /\ [IdNext]_idVars => IdInv'
  BY IdNextInv
<1>3. IdInv => AdmittedIsVerified
  BY DEF IdInv
<1> QED
  BY <1>1, <1>2, <1>3, PTL DEF IdSpec

\* No fetch starts within MinRefresh of the last good one, however many threads
\* have decided to fetch before it.
THEOREM FetchesSpaced == IdSpec => RefreshesSpaced
<1>1. IdInit => IInv
  BY InitIInv DEF IdInit
<1>2. IInv /\ [IdNext]_idVars => IInv'
  BY IdStepIsCacheStep, NextIInv
<1>3. IInv /\ [IdNext]_idVars =>
        [\A t \in Threads : pc[t] # "fetch" /\ pc'[t] = "fetch" => fetched >= MinRefresh]_vars
  BY IdStepIsCacheStep, FetchIsDue DEF IInv
<1> QED
  BY <1>1, <1>2, <1>3, PTL DEF IdSpec, RefreshesSpaced

=============================================================================
