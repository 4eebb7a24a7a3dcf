--------------------------- MODULE RateLimitProofs ---------------------------
(***************************************************************************)
(* Proofs about RateLimit and RateLimitHistory, for any number of paths,    *)
(* clients, limits and windows and any max_keys.                            *)
(*                                                                         *)
(* TablesOK: a path's table is finite, never above the ceiling, and every   *)
(* deque is sorted and not ahead of the clock.  Sortedness is what lets     *)
(* _shrink judge a client idle by its last request while allow judges by    *)
(* the first.  MemoryOK and PromiseOK relate the deques to what really      *)
(* passed and to what was promised, FloodOK to what cleanups have forgotten.*)
(***************************************************************************)
EXTENDS RateLimitHistory, TLAPS, FiniteSetTheorems, WellFoundedInduction

Sorted(s) == \A i, j \in 1..Len(s) : i <= j => s[i] <= s[j]

\* A table as a request meets it and leaves it at time now.
TableOK(t, now) ==
    /\ t \in Tables
    /\ IsFiniteSet(t.tracked)
    /\ \A k \in Keys : /\ Sorted(t.log[k])
                       /\ \A i \in 1..Len(t.log[k]) : t.log[k][i] <= now
                       /\ k \notin t.tracked => t.log[k] = <<>>

TablesOK ==
    /\ clock \in 0..MaxTime
    /\ table \in [Paths -> Tables]
    /\ \A p \in Paths : TableOK(table[p], clock) /\ Cardinality(table[p].tracked) <= 2 * MaxKeys

-----------------------------------------------------------------------------
(* The popleft loop.                                                        *)

\* A non-empty set of natural numbers has a least element.
LEMMA LeastNat ==
    ASSUME NEW T, T \subseteq Nat, T # {}
    PROVE  \E x \in T : \A y \in T : x <= y
<1>1. \E x \in T : \A y \in T : ~(<<y, x>> \in OpToRel(<, Nat))
  BY NatLessThanWellFounded, WFMin
<1>2. PICK x \in T : \A y \in T : ~(<<y, x>> \in OpToRel(<, Nat))
  BY <1>1
<1>3. \A y \in T : ~(y < x)
  BY <1>2 DEF OpToRel
<1> QED
  BY <1>3

\* The number of popped events exists and is what the loop computes.
LEMMA StaleType ==
    ASSUME NEW s \in Seq(Nat), NEW cutoff \in Int
    PROVE  /\ Stale(s, cutoff) \in 0..Len(s)
           /\ \A i \in 1..Stale(s, cutoff) : s[i] <= cutoff
           /\ Stale(s, cutoff) < Len(s) => s[Stale(s, cutoff) + 1] > cutoff
<1> DEFINE Fresh == {i \in 1..Len(s) : s[i] > cutoff}
           Good(n) == /\ \A i \in 1..n : s[i] <= cutoff
                      /\ n < Len(s) => s[n + 1] > cutoff
<1>1. \E n \in 0..Len(s) : Good(n)
  <2>1. CASE Fresh = {}
    <3>1. Good(Len(s))
      BY <2>1
    <3> QED
      BY <3>1
  <2>2. CASE Fresh # {}
    <3>1. Fresh \subseteq Nat
      OBVIOUS
    <3>2. PICK x \in Fresh : \A y \in Fresh : x <= y
      BY <2>2, <3>1, LeastNat
    <3>3. x - 1 \in 0..Len(s) /\ Good(x - 1)
      BY <3>2
    <3> QED
      BY <3>3
  <2> QED
    BY <2>1, <2>2
<1>2. Stale(s, cutoff) = CHOOSE n \in 0..Len(s) : Good(n)
  BY DEF Stale
<1> HIDE DEF Good
<1>3. Stale(s, cutoff) \in 0..Len(s) /\ Good(Stale(s, cutoff))
  BY <1>1, <1>2
<1> QED
  BY <1>3 DEF Good

\* What is left of a sorted deque is a sorted deque of events inside the window.
LEMMA DropStaleFacts ==
    ASSUME NEW s \in Seq(Nat), NEW cutoff \in Int, Sorted(s)
    PROVE  /\ DropStale(s, cutoff) \in Seq(Nat)
           /\ Sorted(DropStale(s, cutoff))
           /\ \A i \in 1..Len(DropStale(s, cutoff)) :
                 /\ DropStale(s, cutoff)[i] > cutoff
                 /\ \E j \in 1..Len(s) : DropStale(s, cutoff)[i] = s[j]
<1> DEFINE n == Stale(s, cutoff)
           d == DropStale(s, cutoff)
<1>1. /\ n \in 0..Len(s)
      /\ n < Len(s) => s[n + 1] > cutoff
  BY StaleType
<1>2. d = [i \in 1..(Len(s) - n) |-> s[i + n]]
  BY DEF DropStale
<1> HIDE DEF n, d
<1>3. d \in Seq(Nat) /\ Len(d) = Len(s) - n
  BY <1>1, <1>2
<1>4. \A i \in 1..Len(d) : d[i] = s[i + n] /\ i + n \in 1..Len(s)
  BY <1>1, <1>2, <1>3
<1>5. Sorted(d)
  <2> SUFFICES ASSUME NEW i \in 1..Len(d), NEW j \in 1..Len(d), i <= j
               PROVE  d[i] <= d[j]
    BY DEF Sorted
  <2>1. i + n \in 1..Len(s) /\ j + n \in 1..Len(s) /\ i + n <= j + n
    BY <1>1, <1>3
  <2>2. s[i + n] <= s[j + n]
    BY <2>1 DEF Sorted
  <2> QED
    BY <1>4, <2>2
<1>6. \A i \in 1..Len(d) : d[i] > cutoff
  <2> SUFFICES ASSUME NEW i \in 1..Len(d) PROVE d[i] > cutoff
    OBVIOUS
  <2>1. n < Len(s) /\ n + 1 \in 1..Len(s) /\ i + n \in 1..Len(s) /\ n + 1 <= i + n
    BY <1>1, <1>3
  <2>2. s[n + 1] <= s[i + n]
    BY <2>1 DEF Sorted
  <2>3. s[n + 1] \in Nat /\ s[i + n] \in Nat
    BY <2>1
  <2>4. d[i] = s[i + n] /\ s[n + 1] > cutoff
    BY <1>1, <1>4, <2>1
  <2> QED
    BY <2>2, <2>3, <2>4
<1> QED
  BY <1>3, <1>4, <1>5, <1>6 DEF d

\* A deque whose oldest event is inside the window loses nothing.
LEMMA DropStaleKeeps ==
    ASSUME NEW s \in Seq(Nat), NEW cutoff \in Int, Len(s) >= 1, s[1] > cutoff
    PROVE  DropStale(s, cutoff) = s
<1>1. Stale(s, cutoff) = 0
  <2>1. /\ Stale(s, cutoff) \in 0..Len(s)
        /\ \A i \in 1..Stale(s, cutoff) : s[i] <= cutoff
    BY StaleType
  <2>2. s[1] \in Nat
    OBVIOUS
  <2> QED
    BY <2>1, <2>2
<1>2. DropStale(s, cutoff) = [i \in 1..Len(s) |-> s[i]]
  BY <1>1 DEF DropStale
<1> QED
  BY <1>2

-----------------------------------------------------------------------------
(* The cleanup.                                                             *)

\* What _shrink at time now may make of the clients of table t: they are kept with
\* their whole record, or dropped, and only idle or open ones are dropped.
DropsFrom(p, t, now, u) ==
    /\ u \in Tables
    /\ u.tracked \subseteq t.tracked
    /\ \A k \in Keys :
         \/ (k \in u.tracked <=> k \in t.tracked) /\ u.log[k] = t.log[k]
         \/ /\ k \in t.tracked \ u.tracked
            /\ u.log[k] = <<>>
            /\ k \in Idle(p, t, now) \/ Len(t.log[k]) < Limit[p]

\* What a cleanup may leave: the table as it was, or what _shrink makes of it when the
\* last cleanup is ShrinkEvery ago.
CleanedFrom(p, t, now, u) ==
    /\ DropsFrom(p, t, now, u)
    /\ u = t \/ (u.shrunk = now /\ now - t.shrunk >= ShrinkEvery)

\* Deleting keys removes them and leaves every other record alone.
LEMMA ForgetFacts ==
    ASSUME NEW t \in Tables, NEW gone \in SUBSET Keys
    PROVE  /\ Forget(t, gone) \in Tables
           /\ Forget(t, gone).tracked = t.tracked \ gone
           /\ \A k \in Keys : Forget(t, gone).log[k] = IF k \in gone THEN <<>> ELSE t.log[k]
           /\ Forget(t, gone).shrunk = t.shrunk
<1>1. <<>> \in Seq(Nat)
  OBVIOUS
<1> QED
  BY <1>1 DEF Forget, Tables

\* Every table _shrink may leave is a cleanup of the one it met.
LEMMA ShrinkFacts ==
    ASSUME NEW p \in Paths, NEW t \in Tables, NEW now \in Nat, NEW u \in Shrink(p, t, now)
    PROVE  DropsFrom(p, t, now, u) /\ u.shrunk = t.shrunk
<1> DEFINE kept == Forget(t, Idle(p, t, now))
<1>1. Idle(p, t, now) \in SUBSET Keys /\ Idle(p, t, now) \subseteq t.tracked
  BY DEF Idle, Tables
<1>2. /\ kept \in Tables
      /\ kept.tracked = t.tracked \ Idle(p, t, now)
      /\ \A k \in Keys : kept.log[k] = IF k \in Idle(p, t, now) THEN <<>> ELSE t.log[k]
      /\ kept.shrunk = t.shrunk
  BY <1>1, ForgetFacts
<1>3. \/ u = kept
      \/ \E gone \in SUBSET OpenKeys(p, kept) : u = Forget(kept, gone)
  BY DEF Shrink, LeastRecent
<1> HIDE DEF kept
<1>4. CASE u = kept
  BY <1>1, <1>2, <1>4 DEF DropsFrom
<1>5. CASE \E gone \in SUBSET OpenKeys(p, kept) : u = Forget(kept, gone)
  <2>1. PICK gone \in SUBSET OpenKeys(p, kept) : u = Forget(kept, gone)
    BY <1>5
  <2>2. gone \in SUBSET Keys /\ gone \subseteq kept.tracked
    BY <1>2 DEF OpenKeys, Tables
  <2>3. /\ u \in Tables
        /\ u.tracked = kept.tracked \ gone
        /\ \A k \in Keys : u.log[k] = IF k \in gone THEN <<>> ELSE kept.log[k]
        /\ u.shrunk = kept.shrunk
    BY <1>2, <2>1, <2>2, ForgetFacts
  <2>4. \A k \in gone : Len(t.log[k]) < Limit[p]
    BY <1>2, <2>2 DEF OpenKeys
  <2> QED
    BY <1>1, <1>2, <2>2, <2>3, <2>4 DEF DropsFrom
<1> QED
  BY <1>3, <1>4, <1>5

\* The same with the once-per-interval guard around it.
LEMMA MaybeShrinkFacts ==
    ASSUME NEW p \in Paths, NEW t \in Tables, NEW now \in Nat, NEW u \in MaybeShrink(p, t, now)
    PROVE  CleanedFrom(p, t, now, u)
<1> DEFINE s == [t EXCEPT !.shrunk = now]
<1>1. s \in Tables /\ s.tracked = t.tracked /\ s.log = t.log /\ s.shrunk = now
  <2>1. /\ t = [tracked |-> t.tracked, log |-> t.log, shrunk |-> t.shrunk]
        /\ t.tracked \in SUBSET Keys /\ t.log \in [Keys -> Seq(Nat)]
    BY DEF Tables
  <2>2. s = [tracked |-> t.tracked, log |-> t.log, shrunk |-> now]
    BY <2>1
  <2>3. now \in Int
    OBVIOUS
  <2> QED
    BY <2>1, <2>2, <2>3 DEF Tables
<1>2. CASE now - t.shrunk >= ShrinkEvery
  <2>1. u \in Shrink(p, s, now)
    BY <1>2 DEF MaybeShrink
  <2> HIDE DEF s
  <2>2. DropsFrom(p, s, now, u) /\ u.shrunk = now
    BY <1>1, <2>1, ShrinkFacts
  <2>3. Idle(p, s, now) = Idle(p, t, now)
    BY <1>1 DEF Idle
  <2> QED
    BY <1>1, <1>2, <2>2, <2>3 DEF CleanedFrom, DropsFrom
<1>3. CASE ~(now - t.shrunk >= ShrinkEvery)
  BY <1>3 DEF MaybeShrink, CleanedFrom, DropsFrom
<1> QED
  BY <1>2, <1>3

\* A cleanup keeps a table well-formed and no larger.
LEMMA CleanupKeepsOK ==
    ASSUME NEW p \in Paths, NEW now \in Nat, NEW t, NEW u,
           TableOK(t, now), CleanedFrom(p, t, now, u)
    PROVE  TableOK(u, now) /\ Cardinality(u.tracked) <= Cardinality(t.tracked)
<1>1. u \in Tables /\ u.tracked \in SUBSET t.tracked /\ IsFiniteSet(t.tracked)
  BY DEF TableOK, CleanedFrom, DropsFrom
<1>2. IsFiniteSet(u.tracked) /\ Cardinality(u.tracked) <= Cardinality(t.tracked)
  BY <1>1, FS_Subset
<1>3. ASSUME NEW k \in Keys
      PROVE  /\ Sorted(u.log[k])
             /\ \A i \in 1..Len(u.log[k]) : u.log[k][i] <= now
             /\ k \notin u.tracked => u.log[k] = <<>>
  BY DEF TableOK, CleanedFrom, DropsFrom, Sorted
<1> QED
  BY <1>1, <1>2, <1>3 DEF TableOK

\* A cleanup leaves a client at its limit, inside its window, untouched.
LEMMA CleanupKeepsLimited ==
    ASSUME NEW p \in Paths, NEW now \in Nat, NEW t, NEW u, NEW k \in Keys,
           TableOK(t, now), CleanedFrom(p, t, now, u),
           Len(t.log[k]) >= Limit[p], t.log[k][1] > now - Window[p]
    PROVE  u.log[k] = t.log[k] /\ k \in u.tracked
<1>1. t.log[k] \in Seq(Nat) /\ Limit[p] \in Nat \ {0} /\ Window[p] \in Nat
  BY ConstantsAssumption DEF TableOK, Tables
<1>2. Len(t.log[k]) \in Nat /\ Len(t.log[k]) >= 1 /\ t.log[k] # <<>> /\ k \in t.tracked
  BY <1>1 DEF TableOK
<1>3. t.log[k][1] <= Last(t.log[k]) /\ t.log[k][1] \in Nat /\ Last(t.log[k]) \in Nat
  <2>1. Sorted(t.log[k])
    BY DEF TableOK
  <2>2. 1 \in 1..Len(t.log[k]) /\ Len(t.log[k]) \in 1..Len(t.log[k])
    BY <1>2
  <2>3. t.log[k][1] <= t.log[k][Len(t.log[k])]
    BY <1>2, <2>1, <2>2 DEF Sorted
  <2>4. t.log[k][1] \in Nat /\ t.log[k][Len(t.log[k])] \in Nat
    BY <1>1, <2>2
  <2> QED
    BY <2>3, <2>4 DEF Last
<1>4. k \notin Idle(p, t, now)
  BY <1>1, <1>2, <1>3 DEF Idle
<1> QED
  BY <1>1, <1>2, <1>4 DEF CleanedFrom, DropsFrom

-----------------------------------------------------------------------------
(* allow and check.                                                         *)

\* The deque allow leaves.
Recorded(p, t, k, now) ==
    LET fresh == DropStale(t.log[k], now - Window[p])
    IN  IF Len(fresh) < Limit[p] THEN Append(fresh, now) ELSE fresh

\* allow counts the request of one client and touches no other.
LEMMA AllowFacts ==
    ASSUME NEW p \in Paths, NEW now \in Nat, NEW k \in Keys, NEW t, TableOK(t, now)
    PROVE  /\ TableOK(Allow(p, t, k, now), now)
           /\ Allow(p, t, k, now).tracked = t.tracked \cup {k}
           /\ Allow(p, t, k, now).shrunk = t.shrunk
           /\ \A j \in Keys \ {k} : Allow(p, t, k, now).log[j] = t.log[j]
           /\ Allow(p, t, k, now).log[k] = Recorded(p, t, k, now)
           /\ DropStale(t.log[k], now - Window[p]) \in Seq(Nat)
           /\ \A i \in 1..Len(DropStale(t.log[k], now - Window[p])) :
                 /\ DropStale(t.log[k], now - Window[p])[i] > now - Window[p]
                 /\ DropStale(t.log[k], now - Window[p])[i] <= now
<1> DEFINE u == Allow(p, t, k, now)
           fresh == DropStale(t.log[k], now - Window[p])
           new == IF Len(fresh) < Limit[p] THEN Append(fresh, now) ELSE fresh
<1>1. /\ t.log[k] \in Seq(Nat) /\ Sorted(t.log[k]) /\ now - Window[p] \in Int
      /\ \A i \in 1..Len(t.log[k]) : t.log[k][i] <= now
  BY ConstantsAssumption DEF TableOK, Tables
<1>2. /\ fresh \in Seq(Nat) /\ Sorted(fresh)
      /\ \A i \in 1..Len(fresh) : /\ fresh[i] > now - Window[p]
                                  /\ \E j \in 1..Len(t.log[k]) : fresh[i] = t.log[k][j]
  BY <1>1, DropStaleFacts
<1>3. \A i \in 1..Len(fresh) : fresh[i] <= now
  BY <1>1, <1>2
<1>4. u = [t EXCEPT !.tracked = t.tracked \cup {k}, !.log[k] = new]
  BY DEF Allow
<1> HIDE DEF fresh, u
<1>5. /\ new \in Seq(Nat) /\ Sorted(new)
      /\ \A i \in 1..Len(new) : new[i] <= now
  <2>1. CASE Len(fresh) < Limit[p]
    <3>1. new = Append(fresh, now) /\ Len(new) = Len(fresh) + 1 /\ new \in Seq(Nat)
      BY <1>2, <2>1
    <3>2. \A i \in 1..Len(new) : new[i] = IF i = Len(fresh) + 1 THEN now ELSE fresh[i]
      BY <1>2, <3>1
    <3>3. \A i \in 1..Len(new) : new[i] <= now
      BY <1>2, <1>3, <3>1, <3>2
    <3>4. Sorted(new)
      <4> SUFFICES ASSUME NEW i \in 1..Len(new), NEW j \in 1..Len(new), i <= j
                   PROVE  new[i] <= new[j]
        BY DEF Sorted
      <4>1. CASE j = Len(fresh) + 1
        BY <3>2, <3>3, <4>1
      <4>2. CASE j # Len(fresh) + 1
        <5>1. i \in 1..Len(fresh) /\ j \in 1..Len(fresh)
          BY <1>2, <3>1, <4>2
        <5>2. fresh[i] <= fresh[j]
          BY <1>2, <5>1 DEF Sorted
        <5> QED
          BY <3>2, <5>1, <5>2
      <4> QED
        BY <4>1, <4>2
    <3> QED
      BY <3>1, <3>3, <3>4
  <2>2. CASE ~(Len(fresh) < Limit[p])
    BY <1>2, <1>3, <2>2
  <2> QED
    BY <2>1, <2>2
<1> HIDE DEF new
<1>6. /\ u \in Tables /\ u.tracked = t.tracked \cup {k} /\ u.shrunk = t.shrunk
      /\ u.log[k] = new /\ \A j \in Keys \ {k} : u.log[j] = t.log[j]
  <2>1. /\ t.tracked \in SUBSET Keys /\ t.log \in [Keys -> Seq(Nat)] /\ t.shrunk \in Int
        /\ t = [tracked |-> t.tracked, log |-> t.log, shrunk |-> t.shrunk]
    BY DEF TableOK, Tables
  <2>2. u = [tracked |-> t.tracked \cup {k}, log |-> [t.log EXCEPT ![k] = new], shrunk |-> t.shrunk]
    BY <1>4, <2>1
  <2> QED
    BY <1>5, <2>1, <2>2 DEF Tables
<1>7. IsFiniteSet(u.tracked)
  BY <1>6, FS_AddElement DEF TableOK
<1>8. TableOK(u, now)
  BY <1>5, <1>6, <1>7 DEF TableOK
<1> QED
  BY <1>2, <1>3, <1>6, <1>8 DEF u, fresh, new, Recorded

\* The two ways a check ends: refused at the ceiling, or counted and cleaned.
RefusedFull(p, k, t1) ==
    /\ table' = [table EXCEPT ![p] = t1]
    /\ reply' = TableFull(p, k)

Counted(p, k, t1, t2) ==
    /\ k \in t1.tracked \/ Cardinality(t1.tracked) < 2 * MaxKeys
    /\ CleanedFrom(p, Allow(p, t1, k, clock), clock, t2)
    /\ table' = [table EXCEPT ![p] = t2]
    /\ reply' = IF Allowed(p, t1, k, clock) THEN Passed(p, k)
                ELSE TooMany(p, k, t2.log[k][1] + Window[p] - clock)

\* Every check of a limited path ends in one of these two ways.
LEMMA CheckShape ==
    ASSUME TablesOK, NEW p \in Paths, NEW k \in Keys, Check(p, k)
    PROVE  \E t1 : /\ CleanedFrom(p, table[p], clock, t1)
                   /\ RefusedFull(p, k, t1) \/ \E t2 : Counted(p, k, t1, t2)
<1> DEFINE t == table[p]
<1>1. clock \in Nat /\ t \in Tables /\ TableOK(t, clock) /\ Cardinality(t.tracked) \in Nat
  BY FS_CardinalityType, ConstantsAssumption DEF TablesOK, TableOK
<1>2. \A u \in Tables : CleanedFrom(p, u, clock, u)
  BY DEF CleanedFrom, DropsFrom
<1>3. PICK t1 \in Admitting(p, t, k, clock) :
        \/ /\ k \notin t.tracked /\ Full(t) /\ Full(t1)
           /\ RefusedFull(p, k, t1)
        \/ /\ ~(k \notin t.tracked /\ Full(t) /\ Full(t1))
           /\ \E t2 \in Cleaned(p, Allow(p, t1, k, clock), clock) :
                /\ table' = [table EXCEPT ![p] = t2]
                /\ reply' = IF Allowed(p, t1, k, clock) THEN Passed(p, k)
                            ELSE TooMany(p, k, t2.log[k][1] + Window[p] - clock)
  BY DEF Check, RefusedFull
<1>4. CleanedFrom(p, t, clock, t1)
  <2>1. CASE k \notin t.tracked /\ Full(t)
    BY <1>1, <1>3, <2>1, MaybeShrinkFacts DEF Admitting
  <2>2. CASE ~(k \notin t.tracked /\ Full(t))
    BY <1>1, <1>2, <1>3, <2>2 DEF Admitting
  <2> QED
    BY <2>1, <2>2
<1>5. TableOK(t1, clock) /\ Cardinality(t1.tracked) \in Nat
  BY <1>1, <1>4, CleanupKeepsOK, FS_CardinalityType DEF TableOK
<1>6. CASE RefusedFull(p, k, t1)
  BY <1>4, <1>6
<1>7. CASE /\ ~(k \notin t.tracked /\ Full(t) /\ Full(t1))
           /\ \E t2 \in Cleaned(p, Allow(p, t1, k, clock), clock) :
                /\ table' = [table EXCEPT ![p] = t2]
                /\ reply' = IF Allowed(p, t1, k, clock) THEN Passed(p, k)
                            ELSE TooMany(p, k, t2.log[k][1] + Window[p] - clock)
  <2>1. PICK t2 \in Cleaned(p, Allow(p, t1, k, clock), clock) :
                /\ table' = [table EXCEPT ![p] = t2]
                /\ reply' = IF Allowed(p, t1, k, clock) THEN Passed(p, k)
                            ELSE TooMany(p, k, t2.log[k][1] + Window[p] - clock)
    BY <1>7
  <2>2. k \in t1.tracked \/ Cardinality(t1.tracked) < 2 * MaxKeys
    <3>1. CASE k \notin t.tracked /\ Full(t)
      BY <1>5, <1>7, <3>1, ConstantsAssumption DEF Full
    <3>2. CASE ~(k \notin t.tracked /\ Full(t))
      BY <1>1, <1>3, <3>2, ConstantsAssumption DEF Admitting, Full
    <3> QED
      BY <3>1, <3>2
  <2>3. Allow(p, t1, k, clock) \in Tables
    BY <1>1, <1>5, AllowFacts DEF TableOK
  <2>4. CleanedFrom(p, Allow(p, t1, k, clock), clock, t2)
    <3>1. CASE Cardinality(Allow(p, t1, k, clock).tracked) > MaxKeys
      BY <1>1, <2>1, <2>3, <3>1, MaybeShrinkFacts DEF Cleaned
    <3>2. CASE ~(Cardinality(Allow(p, t1, k, clock).tracked) > MaxKeys)
      BY <1>2, <2>1, <2>3, <3>2 DEF Cleaned
    <3> QED
      BY <3>1, <3>2
  <2> QED
    BY <1>4, <2>1, <2>2, <2>4 DEF Counted
<1> QED
  BY <1>3, <1>6, <1>7

-----------------------------------------------------------------------------
(* Invariants.                                                              *)

\* The tables and the clock satisfy TablesOK, and the reply is a reply whose wait,
\* if it refuses, is positive and at most one window.
Replies ==
    {NoReply, Forbidden, Unlimited}
    \cup [status : {"pass"}, path : Paths, key : Keys]
    \cup [status : {"limited", "full"}, path : Paths, key : Keys, wait : Int]

IInv == TablesOK /\ reply \in Replies /\ HonestWait

\* A check keeps the invariant: the newcomer is counted only below the ceiling,
\* and a refused client survives the cleanup that follows its refusal.
LEMMA CheckKeepsIInv ==
    ASSUME IInv, NEW p \in Paths, NEW k \in Keys, Check(p, k), clock' = clock
    PROVE  IInv'
<1>1. PICK t1 : /\ CleanedFrom(p, table[p], clock, t1)
                /\ RefusedFull(p, k, t1) \/ \E t2 : Counted(p, k, t1, t2)
  BY CheckShape DEF IInv
<1>2. /\ clock \in Nat /\ TableOK(table[p], clock) /\ MaxKeys \in Nat
      /\ Window[p] \in Nat \ {0} /\ Limit[p] \in Nat \ {0}
  BY ConstantsAssumption DEF IInv, TablesOK
<1>3. /\ TableOK(t1, clock) /\ Cardinality(t1.tracked) \in Nat
      /\ Cardinality(t1.tracked) <= 2 * MaxKeys
  <2>1. TableOK(t1, clock) /\ Cardinality(t1.tracked) <= Cardinality(table[p].tracked)
    BY <1>1, <1>2, CleanupKeepsOK
  <2>2. Cardinality(t1.tracked) \in Nat /\ Cardinality(table[p].tracked) \in Nat
    BY <1>2, <2>1, FS_CardinalityType DEF TableOK
  <2> QED
    BY <1>2, <2>1, <2>2 DEF IInv, TablesOK
<1>4. ASSUME NEW u, TableOK(u, clock), Cardinality(u.tracked) <= 2 * MaxKeys,
             table' = [table EXCEPT ![p] = u]
      PROVE  TablesOK'
  <2>1. u \in Tables
    BY <1>4 DEF TableOK
  <2>2. table' \in [Paths -> Tables]
    BY <1>4, <2>1 DEF IInv, TablesOK
  <2>3. \A q \in Paths : table'[q] = IF q = p THEN u ELSE table[q]
    BY <1>4 DEF IInv, TablesOK
  <2> QED
    BY <1>4, <2>2, <2>3 DEF IInv, TablesOK
<1>5. CASE RefusedFull(p, k, t1)
  <2>1. TablesOK'
    BY <1>3, <1>4, <1>5 DEF RefusedFull
  <2>2. /\ reply' = [status |-> "full", path |-> p, key |-> k, wait |-> Window[p]]
        /\ Window[p] \in Int
    BY <1>2, <1>5 DEF RefusedFull, TableFull
  <2>3. reply' \in Replies
    BY <2>2 DEF Replies
  <2>4. HonestWait'
    BY <1>2, <2>2 DEF HonestWait
  <2> QED
    BY <2>1, <2>3, <2>4 DEF IInv, Replies, NoReply, Forbidden, Unlimited
<1>6. ASSUME NEW t2, Counted(p, k, t1, t2) PROVE IInv'
  <2> DEFINE a == Allow(p, t1, k, clock)
             fresh == DropStale(t1.log[k], clock - Window[p])
  <2>1. /\ TableOK(a, clock)
        /\ a.tracked = t1.tracked \cup {k}
        /\ fresh \in Seq(Nat)
        /\ a.log[k] = Recorded(p, t1, k, clock)
        /\ \A i \in 1..Len(fresh) : fresh[i] > clock - Window[p] /\ fresh[i] <= clock
    <3>1. clock \in Nat /\ TableOK(t1, clock)
      BY <1>2, <1>3
    <3>2. TableOK(a, clock) /\ a.tracked = t1.tracked \cup {k}
      BY <3>1, AllowFacts
    <3>3. fresh \in Seq(Nat) /\ a.log[k] = Recorded(p, t1, k, clock)
      BY <3>1, AllowFacts
    <3>4. \A i \in 1..Len(fresh) : fresh[i] > clock - Window[p] /\ fresh[i] <= clock
      BY <3>1, AllowFacts
    <3> QED
      BY <3>2, <3>3, <3>4
  <2>2. /\ Allowed(p, t1, k, clock) <=> Len(fresh) < Limit[p]
        /\ Recorded(p, t1, k, clock) = IF Len(fresh) < Limit[p] THEN Append(fresh, clock) ELSE fresh
    BY DEF Allowed, Recorded
  <2> HIDE DEF a, fresh
  <2>3. CleanedFrom(p, a, clock, t2)
    BY <1>6 DEF Counted, a
  <2>4. Cardinality(a.tracked) \in Nat /\ Cardinality(a.tracked) <= 2 * MaxKeys
    <3>1. IsFiniteSet(t1.tracked)
      BY <1>3 DEF TableOK
    <3>2. Cardinality(a.tracked) = IF k \in t1.tracked THEN Cardinality(t1.tracked)
                                   ELSE Cardinality(t1.tracked) + 1
      BY <2>1, <3>1, FS_AddElement
    <3> QED
      BY <1>2, <1>3, <1>6, <3>2 DEF Counted
  <2>5. TableOK(t2, clock) /\ Cardinality(t2.tracked) <= 2 * MaxKeys
    <3>1. TableOK(t2, clock) /\ Cardinality(t2.tracked) <= Cardinality(a.tracked)
      BY <1>2, <2>1, <2>3, CleanupKeepsOK
    <3>2. Cardinality(t2.tracked) \in Nat
      BY <3>1, FS_CardinalityType DEF TableOK
    <3> QED
      BY <1>2, <2>4, <3>1, <3>2
  <2>6. TablesOK'
    BY <1>4, <1>6, <2>5 DEF Counted
  <2>7. CASE Allowed(p, t1, k, clock)
    <3>1. reply' = [status |-> "pass", path |-> p, key |-> k]
      BY <1>6, <2>7 DEF Counted, Passed
    <3> QED
      BY <2>6, <3>1 DEF IInv, HonestWait, Replies, NoReply, Forbidden, Unlimited
  <2>8. CASE ~Allowed(p, t1, k, clock)
    <3> DEFINE w == t2.log[k][1] + Window[p] - clock
    <3>1. reply' = [status |-> "limited", path |-> p, key |-> k, wait |-> w]
      BY <1>6, <2>8 DEF Counted, TooMany
    <3>2. a.log[k] = fresh /\ Len(fresh) >= Limit[p] /\ Len(fresh) \in Nat
      BY <1>2, <2>1, <2>2, <2>8
    <3>3. /\ fresh[1] > clock - Window[p] /\ fresh[1] <= clock /\ fresh[1] \in Nat
      BY <1>2, <2>1, <3>2
    <3>4. t2.log[k] = fresh
      <4>1. Len(a.log[k]) >= Limit[p] /\ a.log[k][1] > clock - Window[p]
        BY <3>2, <3>3
      <4>2. clock \in Nat /\ TableOK(a, clock)
        BY <1>2, <2>1
      <4>3. t2.log[k] = a.log[k]
        BY <2>3, <4>1, <4>2, CleanupKeepsLimited
      <4> QED
        BY <3>2, <4>3
    <3>5. w \in 1..Window[p] /\ w \in Int
      BY <1>2, <3>3, <3>4
    <3> HIDE DEF w
    <3>6. reply' \in Replies
      BY <3>1, <3>5 DEF Replies
    <3>7. HonestWait'
      BY <3>1, <3>5 DEF HonestWait
    <3> QED
      BY <2>6, <3>6, <3>7 DEF IInv, Replies, NoReply, Forbidden, Unlimited
  <2> QED
    BY <2>7, <2>8
<1> QED
  BY <1>1, <1>5, <1>6

\* A step of the clock keeps the invariant.
LEMMA TickKeepsIInv ==
    ASSUME IInv, Tick
    PROVE  IInv'
<1>1. clock \in Nat /\ clock' \in 0..MaxTime /\ clock' = clock + 1 /\ table' = table
  BY ConstantsAssumption DEF IInv, TablesOK, Tick
<1>2. ASSUME NEW p \in Paths PROVE TableOK(table[p], clock')
  <2>1. TableOK(table[p], clock)
    BY DEF IInv, TablesOK
  <2>2. \A k \in Keys : table[p].log[k] \in Seq(Nat)
    BY <2>1 DEF TableOK, Tables
  <2>3. \A k \in Keys : \A i \in 1..Len(table[p].log[k]) : table[p].log[k][i] <= clock + 1
    BY <1>1, <2>1, <2>2 DEF TableOK
  <2> QED
    BY <1>1, <2>1, <2>3 DEF TableOK
<1>3. TablesOK'
  BY <1>1, <1>2 DEF IInv, TablesOK, TableOK
<1>4. reply' = NoReply
  BY DEF Tick
<1> QED
  BY <1>3, <1>4 DEF IInv, Replies, NoReply, HonestWait, Forbidden, Unlimited

\* The client key of any request is a key.
LEMMA ClientKeyType ==
    ASSUME NEW r \in Requests
    PROVE  ClientKey(r) \in Keys
BY ConstantsAssumption DEF Requests, ClientKey

\* The limiter before its first request.
LEMMA InitIInv == Init => IInv
<1> SUFFICES ASSUME Init PROVE IInv
  OBVIOUS
<1>1. clock \in 0..MaxTime /\ clock = 0
  BY ConstantsAssumption DEF Init
<1>2. EmptyTable \in Tables /\ EmptyTable.tracked = {} /\ \A k \in Keys : EmptyTable.log[k] = <<>>
  BY ConstantsAssumption DEF EmptyTable, Tables
<1>3. TableOK(EmptyTable, clock) /\ Cardinality(EmptyTable.tracked) = 0
  BY <1>2, FS_EmptySet DEF TableOK, Sorted
<1>4. TablesOK
  <2>1. table \in [Paths -> Tables] /\ \A p \in Paths : table[p] = EmptyTable
    BY <1>2 DEF Init
  <2>2. 0 <= 2 * MaxKeys
    BY ConstantsAssumption
  <2> QED
    BY <1>1, <1>3, <2>1, <2>2 DEF TablesOK
<1> QED
  BY <1>4 DEF Init, IInv, Replies, HonestWait, NoReply

\* Every step keeps the invariant.
LEMMA NextKeepsIInv == IInv /\ [Next]_vars => IInv'
<1> SUFFICES ASSUME IInv, [Next]_vars PROVE IInv'
  OBVIOUS
<1>1. CASE Tick
  BY <1>1, TickKeepsIInv
<1>2. ASSUME NEW r \in Requests, Request(r) PROVE IInv'
  <2>1. CASE reply' \in {Forbidden, Unlimited} /\ UNCHANGED <<clock, table>>
    BY <2>1 DEF IInv, TablesOK, Replies, HonestWait, Forbidden, Unlimited, NoReply
  <2>2. CASE r.path \in Paths /\ Check(r.path, ClientKey(r)) /\ clock' = clock
    BY <2>2, ClientKeyType, CheckKeepsIInv
  <2> QED
    BY <1>2, <2>1, <2>2 DEF Request
<1>3. CASE UNCHANGED vars
  BY <1>3 DEF vars, IInv, TablesOK, Replies, HonestWait, TableOK
<1> QED
  BY <1>1, <1>2, <1>3 DEF Next

\* The invariant behind every theorem below.
THEOREM Invariance == Spec => []IInv
  BY InitIInv, NextKeepsIInv, PTL DEF Spec

\* Type correctness of the limiter (RateLimit!TypeOK) in every reachable state.
THEOREM TypeCorrect == Spec => []TypeOK
<1>1. IInv => TypeOK
  BY DEF IInv, TablesOK, TypeOK, Replies
<1> QED
  BY <1>1, Invariance, PTL

\* Limiter's memory bound (RateLimit!Ceiling): no traffic makes a path track more
\* than 2 * max_keys clients.
THEOREM MemoryBounded == Spec => []Ceiling
<1>1. IInv => Ceiling
  BY DEF IInv, TablesOK, Ceiling
<1> QED
  BY <1>1, Invariance, PTL

\* Every refusal of check names a wait in 1..window (RateLimit!HonestWait).
THEOREM WaitsAreHonest == Spec => []HonestWait
<1>1. IInv => HonestWait
  BY DEF IInv
<1> QED
  BY <1>1, Invariance, PTL

\* While its window lasts, no step changes the record of a client at its limit.
LEMMA LimitedStep ==
    ASSUME IInv, [Next]_vars, NEW p0 \in Paths, NEW k0 \in Keys, LimitedAt(p0, k0, clock')
    PROVE  table'[p0].log[k0] = table[p0].log[k0] /\ k0 \in table'[p0].tracked
<1> DEFINE Kept(p, k) == LimitedAt(p, k, clock') => /\ table'[p].log[k] = table[p].log[k]
                                                    /\ k \in table'[p].tracked
<1>1. ASSUME IInv, NEW p \in Paths, NEW k \in Keys, LimitedAt(p, k, clock')
      PROVE  k \in table[p].tracked
  <2>1. table[p].log[k] \in Seq(Nat) /\ Limit[p] \in Nat \ {0}
    BY <1>1, ConstantsAssumption DEF IInv, TablesOK, TableOK, Tables
  <2>2. table[p].log[k] # <<>>
    BY <1>1, <2>1 DEF LimitedAt
  <2> QED
    BY <1>1, <2>2 DEF IInv, TablesOK, TableOK
<1>2. ASSUME IInv, UNCHANGED table, NEW p \in Paths, NEW k \in Keys PROVE Kept(p, k)
  BY <1>1, <1>2
<1>3. ASSUME IInv, NEW q \in Paths, NEW c \in Keys, Check(q, c), clock' = clock,
             NEW p \in Paths, NEW k \in Keys, LimitedAt(p, k, clock')
      PROVE  table'[p].log[k] = table[p].log[k] /\ k \in table'[p].tracked
  <2>1. PICK t1 : /\ CleanedFrom(q, table[q], clock, t1)
                  /\ RefusedFull(q, c, t1) \/ \E t2 : Counted(q, c, t1, t2)
    BY <1>3, CheckShape DEF IInv
  <2>2. CASE p # q
    <3>1. table'[p] = table[p]
      BY <1>3, <2>1, <2>2 DEF RefusedFull, Counted, IInv, TablesOK
    <3> QED
      BY <1>1, <1>3, <3>1
  <2>3. CASE p = q
    <3>1. /\ clock \in Nat /\ TableOK(table[p], clock) /\ table \in [Paths -> Tables]
          /\ Limit[p] \in Nat \ {0} /\ Window[p] \in Nat
      BY <1>3, ConstantsAssumption DEF IInv, TablesOK
    <3>2. Len(table[p].log[k]) >= Limit[p] /\ table[p].log[k][1] > clock - Window[p]
      BY <1>3 DEF LimitedAt
    <3>3. t1.log[k] = table[p].log[k] /\ k \in t1.tracked
      <4>1. CleanedFrom(p, table[p], clock, t1) /\ clock \in Nat /\ TableOK(table[p], clock)
        BY <2>1, <2>3, <3>1
      <4> QED
        BY <3>2, <4>1, CleanupKeepsLimited
    <3>4. TableOK(t1, clock)
      BY <2>1, <2>3, <3>1, CleanupKeepsOK
    <3>5. CASE RefusedFull(q, c, t1)
      <4>1. table'[p] = t1
        BY <2>3, <3>1, <3>5 DEF RefusedFull
      <4> QED
        BY <3>3, <4>1
    <3>6. ASSUME NEW t2, Counted(q, c, t1, t2)
          PROVE  table'[p].log[k] = table[p].log[k] /\ k \in table'[p].tracked
      <4> DEFINE a == Allow(p, t1, c, clock)
      <4>1. /\ TableOK(a, clock) /\ a.tracked = t1.tracked \cup {c}
            /\ \A j \in Keys \ {c} : a.log[j] = t1.log[j]
            /\ a.log[c] = Recorded(p, t1, c, clock)
        BY <3>1, <3>4, AllowFacts
      <4>2. a.log[k] = table[p].log[k]
        <5>1. CASE k # c
          BY <3>3, <4>1, <5>1
        <5>2. CASE k = c
          <6>1. /\ t1.log[k] \in Seq(Nat) /\ Len(t1.log[k]) >= 1 /\ clock - Window[p] \in Int
                /\ t1.log[k][1] > clock - Window[p]
            <7>1. t1.log[k] \in Seq(Nat)
              BY <1>3, <3>4 DEF TableOK, Tables
            <7>2. Len(t1.log[k]) \in Nat /\ Limit[p] >= 1 /\ Limit[p] \in Nat
              BY <3>1, <7>1
            <7> QED
              BY <3>1, <3>2, <3>3, <7>1, <7>2
          <6>2. DropStale(t1.log[k], clock - Window[p]) = t1.log[k]
            BY <6>1, DropStaleKeeps
          <6>3. ~(Len(t1.log[k]) < Limit[p])
            BY <3>1, <3>2, <3>3, <6>1
          <6> QED
            BY <3>3, <4>1, <5>2, <6>2, <6>3 DEF Recorded
        <5> QED
          BY <5>1, <5>2
      <4>3. CleanedFrom(p, a, clock, t2) /\ table' = [table EXCEPT ![p] = t2]
        BY <2>3, <3>6 DEF Counted
      <4> HIDE DEF a
      <4>4. Len(a.log[k]) >= Limit[p] /\ a.log[k][1] > clock - Window[p]
        BY <3>2, <4>2
      <4>5. t2.log[k] = a.log[k] /\ k \in t2.tracked
        BY <3>1, <4>1, <4>3, <4>4, CleanupKeepsLimited
      <4>6. table'[p] = t2
        BY <3>1, <4>3
      <4> QED
        BY <4>2, <4>5, <4>6
    <3> QED
      BY <2>1, <3>5, <3>6
  <2> QED
    BY <2>2, <2>3
<1>4. ASSUME IInv, [Next]_vars, NEW p \in Paths, NEW k \in Keys PROVE Kept(p, k)
  <2>1. CASE Tick \/ UNCHANGED vars
    BY <1>2, <1>4, <2>1 DEF Tick, vars
  <2>2. ASSUME NEW r \in Requests, Request(r) PROVE Kept(p, k)
    <3>1. CASE UNCHANGED table
      BY <1>2, <1>4, <3>1
    <3>2. CASE r.path \in Paths /\ Check(r.path, ClientKey(r)) /\ clock' = clock
      BY <1>3, <1>4, <3>2, ClientKeyType
    <3> QED
      BY <2>2, <3>1, <3>2 DEF Request
  <2> QED
    BY <1>4, <2>1, <2>2 DEF Next
<1> QED
  BY <1>4

\* _shrink's promise (RateLimit!LimitedIsKept): while its window lasts, the record
\* of a client at its limit is not changed by any step of any client.
THEOREM LimitedNeverForgotten == Spec => LimitedIsKept
<1>1. IInv /\ [Next]_vars =>
        [\A p \in Paths, k \in Keys :
            LimitedAt(p, k, clock') => /\ table'[p].log[k] = table[p].log[k]
                                       /\ k \in table'[p].tracked]_vars
  BY LimitedStep
<1> QED
  BY <1>1, Invariance, PTL DEF Spec, LimitedIsKept

-----------------------------------------------------------------------------
(* The limiter's memory against what really passed.                         *)

\* The part of deque d that is inside the window is the end of history h: the limiter
\* may have forgotten requests, but invents none and keeps their times.
Remembered(d, h, cutoff) ==
    \A i \in 1..Len(d) : d[i] > cutoff =>
        Len(h) - Len(d) + i >= 1 /\ h[Len(h) - Len(d) + i] = d[i]

\* The popleft loop forgets no request that is inside the window.
LEMMA RememberedDrop ==
    ASSUME NEW d \in Seq(Nat), NEW h \in Seq(Nat), NEW cutoff \in Int, Remembered(d, h, cutoff)
    PROVE  Remembered(DropStale(d, cutoff), h, cutoff)
<1> DEFINE n == Stale(d, cutoff)
           e == DropStale(d, cutoff)
<1>1. n \in 0..Len(d)
  BY StaleType
<1>2. e = [i \in 1..(Len(d) - n) |-> d[i + n]]
  BY DEF DropStale
<1> HIDE DEF n, e
<1>3. Len(e) = Len(d) - n /\ \A i \in 1..Len(e) : e[i] = d[i + n] /\ i + n \in 1..Len(d)
  BY <1>1, <1>2
<1>4. ASSUME NEW i \in 1..Len(e), e[i] > cutoff
      PROVE  Len(h) - Len(e) + i >= 1 /\ h[Len(h) - Len(e) + i] = e[i]
  <2>1. i + n \in 1..Len(d) /\ e[i] = d[i + n]
    BY <1>3
  <2>2. Len(h) - Len(d) + (i + n) >= 1 /\ h[Len(h) - Len(d) + (i + n)] = d[i + n]
    BY <1>4, <2>1 DEF Remembered
  <2>3. Len(h) - Len(d) + (i + n) = Len(h) - Len(e) + i
    BY <1>1, <1>3
  <2> QED
    BY <2>1, <2>2, <2>3
<1> QED
  BY <1>4 DEF Remembered, e

\* A request that passes enters both.
LEMMA RememberedAppend ==
    ASSUME NEW d \in Seq(Nat), NEW h \in Seq(Nat), NEW cutoff \in Int, NEW now \in Nat,
           Remembered(d, h, cutoff)
    PROVE  Remembered(Append(d, now), Append(h, now), cutoff)
<1> DEFINE e == Append(d, now)
           g == Append(h, now)
<1>1. /\ Len(e) = Len(d) + 1 /\ Len(g) = Len(h) + 1 /\ Len(d) \in Nat /\ Len(h) \in Nat
      /\ \A i \in 1..Len(d) : e[i] = d[i]
      /\ \A i \in 1..Len(h) : g[i] = h[i]
      /\ e[Len(d) + 1] = now /\ g[Len(h) + 1] = now
  OBVIOUS
<1> HIDE DEF e, g
<1>2. ASSUME NEW i \in 1..Len(e), e[i] > cutoff
      PROVE  Len(g) - Len(e) + i >= 1 /\ g[Len(g) - Len(e) + i] = e[i]
  <2>1. Len(g) - Len(e) + i = Len(h) - Len(d) + i
    BY <1>1
  <2>2. CASE i = Len(d) + 1
    <3>1. Len(h) - Len(d) + i = Len(h) + 1
      BY <1>1, <2>2
    <3> QED
      BY <1>1, <2>1, <2>2, <3>1
  <2>3. CASE i \in 1..Len(d)
    <3>1. Len(h) - Len(d) + i >= 1 /\ h[Len(h) - Len(d) + i] = d[i]
      BY <1>1, <1>2, <2>3 DEF Remembered
    <3>2. Len(h) - Len(d) + i \in 1..Len(h)
      BY <1>1, <2>3, <3>1
    <3> QED
      BY <1>1, <2>1, <2>3, <3>1, <3>2
  <2> QED
    BY <1>1, <2>2, <2>3
<1> QED
  BY <1>2 DEF Remembered, e, g

\* Time passes: what leaves the history is out of the window.
LEMMA RememberedLater ==
    ASSUME NEW d \in Seq(Nat), NEW h \in Seq(Nat), NEW before \in Int, NEW cutoff \in Int,
           before <= cutoff, Remembered(d, h, before)
    PROVE  Remembered(d, DropStale(h, cutoff), cutoff)
<1> DEFINE n == Stale(h, cutoff)
           g == DropStale(h, cutoff)
<1>1. n \in 0..Len(h) /\ \A i \in 1..n : h[i] <= cutoff
  BY StaleType
<1>2. g = [i \in 1..(Len(h) - n) |-> h[i + n]]
  BY DEF DropStale
<1> HIDE DEF n, g
<1>3. Len(g) = Len(h) - n /\ Len(h) \in Nat /\ Len(d) \in Nat
  BY <1>1, <1>2
<1>4. ASSUME NEW i \in 1..Len(d), d[i] > cutoff
      PROVE  Len(g) - Len(d) + i >= 1 /\ g[Len(g) - Len(d) + i] = d[i]
  <2> DEFINE m == Len(h) - Len(d) + i
  <2>1. d[i] \in Nat
    OBVIOUS
  <2>2. d[i] > before
    BY <1>4, <2>1
  <2>3. m >= 1 /\ h[m] = d[i]
    BY <2>2 DEF Remembered
  <2>4. m \in 1..Len(h)
    BY <1>3, <2>3
  <2>5. ASSUME m \in 1..n PROVE FALSE
    <3>1. h[m] <= cutoff
      BY <1>1, <2>5
    <3> QED
      BY <1>4, <2>1, <2>3, <3>1
  <2>6. m - n \in 1..(Len(h) - n) /\ Len(g) - Len(d) + i = m - n
    BY <1>1, <1>3, <2>4, <2>5
  <2> HIDE DEF m
  <2>7. g[m - n] = h[(m - n) + n] /\ (m - n) + n = m
    BY <1>1, <1>2, <2>4, <2>6
  <2> QED
    BY <2>3, <2>6, <2>7
<1> QED
  BY <1>4 DEF Remembered, g

\* A deque of requests that are all inside the window is no longer than what passed.
LEMMA RememberedCounts ==
    ASSUME NEW d \in Seq(Nat), NEW h \in Seq(Nat), NEW cutoff \in Int, Remembered(d, h, cutoff),
           \A i \in 1..Len(d) : d[i] > cutoff
    PROVE  Cardinality({i \in DOMAIN h : h[i] > cutoff}) >= Len(d)
<1> DEFINE R == {i \in DOMAIN h : h[i] > cutoff}
           first == Len(h) - Len(d) + 1
           last == Len(h)
<1>1. Len(d) \in Nat /\ Len(h) \in Nat /\ DOMAIN h = 1..Len(h) /\ first \in Int /\ last \in Int
  OBVIOUS
<1>2. IsFiniteSet(R) /\ Cardinality(R) \in Nat
  <2>1. R \subseteq 1..Len(h) /\ IsFiniteSet(1..Len(h))
    BY <1>1, FS_Interval
  <2> QED
    BY <2>1, FS_Subset, FS_CardinalityType
<1>3. CASE Len(d) = 0
  BY <1>1, <1>2, <1>3
<1>4. CASE Len(d) > 0
  <2>1. first..last \subseteq R
    <3> SUFFICES ASSUME NEW j \in first..last PROVE j \in R
      OBVIOUS
    <3>1. j - (Len(h) - Len(d)) \in 1..Len(d) /\ Len(h) - Len(d) + (j - (Len(h) - Len(d))) = j
      BY <1>1
    <3>2. j >= 1 /\ h[j] = d[j - (Len(h) - Len(d))] /\ d[j - (Len(h) - Len(d))] > cutoff
      BY <3>1 DEF Remembered
    <3> QED
      BY <1>1, <3>2
  <2>2. IsFiniteSet(first..last) /\ Cardinality(first..last) = Len(d)
    <3>1. IsFiniteSet(first..last)
          /\ Cardinality(first..last) = IF first > last THEN 0 ELSE last - first + 1
      BY <1>1, FS_Interval
    <3> QED
      BY <1>1, <1>4, <3>1
  <2>3. Cardinality(first..last) <= Cardinality(R)
    BY <1>2, <2>1, FS_Subset
  <2> QED
    BY <1>1, <1>2, <2>2, <2>3
<1> QED
  BY <1>1, <1>3, <1>4

HistTyped ==
    /\ hist \in [Paths -> [Keys -> Seq(Nat)]]
    /\ promise \in [Paths -> [Keys -> Int]]

\* Every deque agrees with the history of its client.
MemoryOK ==
    \A p \in Paths, k \in Keys : Remembered(table[p].log[k], hist[p][k], clock - Window[p])

\* While a promised time has not come, the client is still at its limit, and its oldest
\* counted request leaves the window no sooner.
PromiseOK ==
    \A p \in Paths, k \in Keys : promise[p][k] > clock =>
        LimitedAt(p, k, clock) /\ promise[p][k] <= table[p].log[k][1] + Window[p]

HInv == IInv /\ HistTyped /\ MemoryOK /\ PromiseOK /\ RefusalIsKept

\* What a cleanup leaves of a deque: all of it, or nothing.
LEMMA CleanupRemembers ==
    ASSUME NEW p, NEW now, NEW t, NEW u, CleanedFrom(p, t, now, u), NEW k \in Keys,
           NEW h, NEW cutoff, Remembered(t.log[k], h, cutoff)
    PROVE  Remembered(u.log[k], h, cutoff)
<1>1. u.log[k] = t.log[k] \/ u.log[k] = <<>>
  BY DEF CleanedFrom, DropsFrom
<1>2. Remembered(<<>>, h, cutoff)
  BY DEF Remembered
<1> QED
  BY <1>1, <1>2

\* A promise outlives every step that is not a new refusal of the same client.
LEMMA PromiseLasts ==
    ASSUME HInv, [Next]_vars, clock' \in {clock, clock + 1}, NEW p \in Paths, NEW k \in Keys,
           promise[p][k] > clock'
    PROVE  /\ LimitedAt(p, k, clock')
           /\ Len(table'[p].log[k]) >= Limit[p]
           /\ table'[p].log[k][1] > clock' - Window[p]
           /\ promise[p][k] <= table'[p].log[k][1] + Window[p]
<1>1. /\ clock \in Nat /\ promise[p][k] \in Int /\ Window[p] \in Nat
      /\ table[p].log[k] \in Seq(Nat) /\ Limit[p] \in Nat \ {0}
  BY ConstantsAssumption DEF HInv, IInv, TablesOK, TableOK, Tables, HistTyped
<1>2. LimitedAt(p, k, clock) /\ promise[p][k] <= table[p].log[k][1] + Window[p]
  BY <1>1 DEF HInv, PromiseOK
<1>3. Len(table[p].log[k]) >= Limit[p] /\ table[p].log[k][1] \in Nat
  <2>1. Len(table[p].log[k]) >= Limit[p]
    BY <1>2 DEF LimitedAt
  <2>2. 1 \in 1..Len(table[p].log[k])
    BY <1>1, <2>1
  <2> DEFINE d == table[p].log[k]
  <2>3. d \in Seq(Nat) /\ 1 \in 1..Len(d)
    BY <1>1, <2>2
  <2>4. d[1] \in Nat
    <3> HIDE DEF d
    <3> QED  BY <2>3
  <2> QED
    BY <2>1, <2>4
<1>4. table[p].log[k][1] > clock' - Window[p]
  BY <1>1, <1>2, <1>3
<1>5. LimitedAt(p, k, clock')
  BY <1>3, <1>4 DEF LimitedAt
<1>6. table'[p].log[k] = table[p].log[k]
  BY <1>5, LimitedStep DEF HInv
<1> QED
  BY <1>2, <1>3, <1>4, <1>5, <1>6 DEF LimitedAt

\* The clock: histories lose what no window holds any more.
LEMMA HTickInv == ASSUME HInv, HTick PROVE HInv'
<1>1. Tick /\ promise' = promise /\ clock' = clock + 1 /\ table' = table /\ reply' = NoReply
  BY DEF HTick, Tick
<1>2. IInv'
  BY <1>1, NextKeepsIInv DEF HInv, Next
<1>3. ASSUME NEW p \in Paths, NEW k \in Keys
      PROVE  /\ hist'[p][k] = DropStale(hist[p][k], clock' - Window[p])
             /\ DropStale(hist[p][k], clock' - Window[p]) \in Seq(Nat)
             /\ Remembered(table'[p].log[k], hist'[p][k], clock' - Window[p])
  <2>1. /\ clock \in Nat /\ Window[p] \in Nat /\ hist[p][k] \in Seq(Nat)
        /\ table[p].log[k] \in Seq(Nat)
    BY ConstantsAssumption DEF HInv, IInv, TablesOK, TableOK, Tables, HistTyped
  <2>2. Remembered(table[p].log[k], hist[p][k], clock - Window[p])
    BY DEF HInv, MemoryOK
  <2>3. /\ clock - Window[p] \in Int /\ clock' - Window[p] \in Int
        /\ clock - Window[p] <= clock' - Window[p]
    BY <1>1, <2>1
  <2>4. hist'[p][k] = DropStale(hist[p][k], clock' - Window[p])
    BY DEF HTick
  <2>5. DropStale(hist[p][k], clock' - Window[p]) \in Seq(Nat)
    <3> DEFINE n == Stale(hist[p][k], clock' - Window[p])
    <3>1. n \in 0..Len(hist[p][k])
      BY <2>1, <2>3, StaleType
    <3> HIDE DEF n
    <3>2. [i \in 1..(Len(hist[p][k]) - n) |-> hist[p][k][i + n]] \in Seq(Nat)
      <4> DEFINE h == hist[p][k]
      <4>1. h \in Seq(Nat) /\ n \in 0..Len(h)
        BY <2>1, <3>1
      <4> HIDE DEF h
      <4>2. Len(h) - n \in Nat /\ \A i \in 1..(Len(h) - n) : h[i + n] \in Nat
        BY <4>1
      <4>3. [i \in 1..(Len(h) - n) |-> h[i + n]] \in Seq(Nat)
        BY <4>2
      <4> QED
        BY <4>3, Zenon DEF h
    <3> QED
      BY <3>2 DEF DropStale, n
  <2>6. Remembered(table[p].log[k], DropStale(hist[p][k], clock' - Window[p]), clock' - Window[p])
    BY <2>1, <2>2, <2>3, RememberedLater
  <2> QED
    BY <1>1, <2>4, <2>5, <2>6
<1>4. HistTyped'
  BY <1>1, <1>3 DEF HTick, HInv, HistTyped
<1>5. MemoryOK'
  BY <1>3 DEF MemoryOK
<1>6. PromiseOK'
  <2> SUFFICES ASSUME NEW p \in Paths, NEW k \in Keys, promise[p][k] > clock'
               PROVE  /\ Len(table'[p].log[k]) >= Limit[p]
                      /\ table'[p].log[k][1] > clock' - Window[p]
                      /\ promise[p][k] <= table'[p].log[k][1] + Window[p]
    BY <1>1 DEF PromiseOK, LimitedAt
  <2>1. [Next]_vars /\ clock' \in {clock, clock + 1}
    BY <1>1 DEF Next
  <2> QED
    BY <2>1, PromiseLasts
<1>7. RefusalIsKept'
  BY <1>1 DEF RefusalIsKept, NoReply
<1> QED
  BY <1>2, <1>4, <1>5, <1>6, <1>7 DEF HInv

\* What a check does to the memory: it passes a client below its limit and records the
\* time, or refuses one whose deque, all inside the window, is at the limit.
LEMMA CountedFacts ==
    ASSUME HInv, NEW p \in Paths, NEW k \in Keys, NEW t1, NEW t2,
           CleanedFrom(p, table[p], clock, t1), Counted(p, k, t1, t2)
    PROVE  LET c == clock - Window[p]
               fresh == DropStale(t1.log[k], c) IN
           /\ \A j \in Keys \ {k} : Remembered(t2.log[j], hist[p][j], c)
           /\ Remembered(fresh, hist[p][k], c) /\ fresh \in Seq(Nat)
           /\ \A i \in 1..Len(fresh) : fresh[i] > c
           /\ \/ /\ Len(fresh) < Limit[p] /\ reply' = Passed(p, k)
                 /\ Remembered(t2.log[k], Append(hist[p][k], clock), c)
              \/ /\ Len(fresh) >= Limit[p]
                 /\ reply' = TooMany(p, k, fresh[1] + Window[p] - clock)
                 /\ t2.log[k] = fresh
<1> DEFINE c == clock - Window[p]
           fresh == DropStale(t1.log[k], c)
           a == Allow(p, t1, k, clock)
<1>1. /\ clock \in Nat /\ Window[p] \in Nat /\ Limit[p] \in Nat \ {0} /\ TableOK(table[p], clock)
      /\ c \in Int /\ \A j \in Keys : hist[p][j] \in Seq(Nat)
  BY ConstantsAssumption DEF HInv, IInv, TablesOK, HistTyped
<1>2. TableOK(t1, clock)
  BY <1>1, CleanupKeepsOK
<1>3. \A j \in Keys : t1.log[j] \in Seq(Nat) /\ Remembered(t1.log[j], hist[p][j], c)
  <2> SUFFICES ASSUME NEW j \in Keys
               PROVE  t1.log[j] \in Seq(Nat) /\ Remembered(t1.log[j], hist[p][j], c)
    OBVIOUS
  <2>1. Remembered(table[p].log[j], hist[p][j], c)
    BY DEF HInv, MemoryOK
  <2> HIDE DEF c
  <2>2. Remembered(t1.log[j], hist[p][j], c)
    BY <2>1, CleanupRemembers
  <2> QED
    BY <1>2, <2>2 DEF TableOK, Tables
<1>4. TableOK(a, clock) /\ \A j \in Keys \ {k} : a.log[j] = t1.log[j]
  BY <1>1, <1>2, AllowFacts
<1>5. /\ a.log[k] = Recorded(p, t1, k, clock) /\ fresh \in Seq(Nat)
      /\ \A i \in 1..Len(fresh) : fresh[i] > c
  <2>1. clock \in Nat /\ TableOK(t1, clock)
    BY <1>1, <1>2
  <2>2. a.log[k] = Recorded(p, t1, k, clock)
    BY <2>1, AllowFacts
  <2>3. DropStale(t1.log[k], clock - Window[p]) \in Seq(Nat)
    BY <2>1, AllowFacts
  <2>4. \A i \in 1..Len(fresh) : fresh[i] > c
    BY <2>1, AllowFacts
  <2> QED
    BY <2>2, <2>3, <2>4
<1>6. /\ Allowed(p, t1, k, clock) <=> Len(fresh) < Limit[p]
      /\ Recorded(p, t1, k, clock) = IF Len(fresh) < Limit[p] THEN Append(fresh, clock) ELSE fresh
  BY DEF Allowed, Recorded
<1>7. CleanedFrom(p, a, clock, t2)
  BY DEF Counted
<1>8. /\ reply' = IF Allowed(p, t1, k, clock) THEN Passed(p, k)
                  ELSE TooMany(p, k, t2.log[k][1] + Window[p] - clock)
  BY DEF Counted
<1>9. Remembered(fresh, hist[p][k], c)
  BY <1>1, <1>3, RememberedDrop
<1> HIDE DEF a, fresh, c
<1>10. \A j \in Keys \ {k} : Remembered(t2.log[j], hist[p][j], c)
  <2> SUFFICES ASSUME NEW j \in Keys \ {k} PROVE Remembered(t2.log[j], hist[p][j], c)
    OBVIOUS
  <2>1. Remembered(a.log[j], hist[p][j], c)
    BY <1>3, <1>4
  <2> QED
    BY <1>7, <2>1, CleanupRemembers
<1>11. CASE Len(fresh) < Limit[p]
  <2>1. Remembered(a.log[k], Append(hist[p][k], clock), c)
    BY <1>1, <1>5, <1>6, <1>9, <1>11, RememberedAppend
  <2>2. Remembered(t2.log[k], Append(hist[p][k], clock), c)
    BY <1>7, <2>1, CleanupRemembers
  <2>3. reply' = Passed(p, k)
    BY <1>6, <1>8, <1>11
  <2> QED
    BY <1>5, <1>9, <1>10, <1>11, <2>2, <2>3 DEF fresh, c
<1>12. CASE ~(Len(fresh) < Limit[p])
  <2>1. Len(fresh) \in Nat /\ Len(fresh) >= Limit[p] /\ a.log[k] = fresh /\ fresh[1] > c
    BY <1>1, <1>5, <1>6, <1>12
  <2>2. Len(a.log[k]) >= Limit[p] /\ a.log[k][1] > clock - Window[p]
    BY <2>1 DEF c
  <2>3. t2.log[k] = fresh
    <3>1. clock \in Nat /\ TableOK(a, clock)
      BY <1>1, <1>4
    <3>2. t2.log[k] = a.log[k]
      BY <1>7, <2>2, <3>1, CleanupKeepsLimited
    <3> QED
      BY <2>1, <3>2
  <2>4. reply' = TooMany(p, k, fresh[1] + Window[p] - clock)
    BY <1>6, <1>8, <1>12, <2>3
  <2> QED
    BY <1>5, <1>9, <1>10, <2>1, <2>3, <2>4 DEF fresh, c
<1> QED
  BY <1>11, <1>12

\* Behind the Worker, the client that the limiter counts is the visitor.
LEMMA KeyIsVisitor ==
    ASSUME EdgeSecret, NEW r \in Requests, r.path \in Paths, ~Guarded(r)
    PROVE  Visitor(r) = ClientKey(r)
<1>1. r.secret
  BY ConstantsAssumption DEF Guarded
<1> QED
  BY <1>1 DEF Visitor, ClientKey

\* A client that was promised to be limited until later does not pass now.
LEMMA PromisedIsRefused ==
    ASSUME HInv, [Next]_vars, clock' = clock, NEW p \in Paths, NEW k \in Keys, NEW t1,
           CleanedFrom(p, table[p], clock, t1),
           Len(DropStale(t1.log[k], clock - Window[p])) < Limit[p]
    PROVE  ~(promise[p][k] > clock)
<1> SUFFICES ASSUME promise[p][k] > clock PROVE FALSE
  OBVIOUS
<1>1. /\ clock \in Nat /\ Window[p] \in Nat /\ Limit[p] \in Nat \ {0} /\ TableOK(table[p], clock)
      /\ clock - Window[p] \in Int /\ table[p].log[k] \in Seq(Nat)
  BY ConstantsAssumption DEF HInv, IInv, TablesOK, TableOK, Tables
<1>2. LimitedAt(p, k, clock)
  BY DEF HInv, PromiseOK
<1>4. Len(table[p].log[k]) >= Limit[p] /\ table[p].log[k][1] > clock - Window[p]
      /\ Len(table[p].log[k]) \in Nat
  BY <1>1, <1>2 DEF LimitedAt
<1>3. t1.log[k] = table[p].log[k]
  <2> DEFINE t == table[p]
             now == clock
  <2>1. /\ now \in Nat /\ TableOK(t, now) /\ CleanedFrom(p, t, now, t1)
        /\ Len(t.log[k]) >= Limit[p] /\ t.log[k][1] > now - Window[p]
    BY <1>1, <1>4
  <2> HIDE DEF t, now
  <2>2. t1.log[k] = t.log[k]
    BY <2>1, CleanupKeepsLimited
  <2> QED
    BY <2>2 DEF t
<1>5. DropStale(t1.log[k], clock - Window[p]) = table[p].log[k]
  <2>1. Len(table[p].log[k]) >= 1
    BY <1>1, <1>4
  <2> QED
    BY <1>1, <1>3, <1>4, <2>1, DropStaleKeeps
<1> QED
  BY <1>1, <1>4, <1>5

\* A request: whoever it is from, and whatever cleanup it sets off.
LEMMA HRequestInv ==
    ASSUME EdgeSecret, HInv, NEW r \in Requests, HRequest(r)
    PROVE  HInv'
<1>1. Request(r) /\ visitor' = Visitor(r) /\ [Next]_vars /\ IInv'
  BY NextKeepsIInv DEF HRequest, HInv, Next
<1>2. HistTyped /\ MemoryOK /\ PromiseOK /\ table \in [Paths -> Tables]
  BY DEF HInv, IInv, TablesOK
<1>3. CASE reply' \in {Forbidden, Unlimited} /\ UNCHANGED <<clock, table>>
  <2>1. reply'.status \notin {"pass", "limited"}
    BY <1>3 DEF Forbidden, Unlimited
  <2>2. hist' = hist /\ promise' = promise
    BY <2>1 DEF HRequest
  <2>3. HistTyped' /\ MemoryOK' /\ PromiseOK'
    BY <1>2, <1>3, <2>2 DEF HistTyped, MemoryOK, PromiseOK, LimitedAt
  <2>4. RefusalIsKept'
    BY <2>1 DEF RefusalIsKept
  <2> QED
    BY <1>1, <2>3, <2>4 DEF HInv
<1>4. CASE ~Guarded(r) /\ r.path \in Paths /\ Check(r.path, ClientKey(r)) /\ clock' = clock
  <2> DEFINE p == r.path
             k == ClientKey(r)
             c == clock - Window[p]
  <2>1. p \in Paths /\ k \in Keys /\ visitor' = k
    BY <1>1, <1>4, ClientKeyType, KeyIsVisitor
  <2> HIDE DEF p, k
  <2>t. /\ clock \in Nat /\ Window[p] \in Nat /\ Limit[p] \in Nat \ {0}
        /\ \A j \in Keys : hist[p][j] \in Seq(Nat)
        /\ \A q \in Paths, j \in Keys : promise[q][j] \in Int
    BY <1>2, <2>1, ConstantsAssumption DEF HInv, IInv, TablesOK, HistTyped
  <2>2. PICK t1 : /\ CleanedFrom(p, table[p], clock, t1)
                  /\ RefusedFull(p, k, t1) \/ \E t2 : Counted(p, k, t1, t2)
    BY <1>4, <2>1, CheckShape DEF HInv, IInv, p, k
  <2>3. ASSUME NEW q \in Paths, NEW j \in Keys, promise[q][j] > clock'
        PROVE  /\ Len(table'[q].log[j]) >= Limit[q] /\ table'[q].log[j][1] > clock' - Window[q]
               /\ promise[q][j] <= table'[q].log[j][1] + Window[q]
    BY <1>1, <1>4, <2>3, PromiseLasts
  <2>4. ASSUME promise' = promise PROVE PromiseOK'
    BY <2>3, <2>4 DEF PromiseOK, LimitedAt
  <2>5. ASSUME NEW t, table' = [table EXCEPT ![p] = t],
               NEW h, hist' = [hist EXCEPT ![p][k] = h],
               \A j \in Keys \ {k} : Remembered(t.log[j], hist[p][j], c),
               Remembered(t.log[k], h, c)
        PROVE  MemoryOK'
    <3> SUFFICES ASSUME NEW q \in Paths, NEW j \in Keys
                 PROVE  Remembered(table'[q].log[j], hist'[q][j], clock' - Window[q])
      BY DEF MemoryOK
    <3>1. CASE q # p
      <4>1. table'[q] = table[q] /\ hist'[q][j] = hist[q][j]
        BY <1>2, <2>5, <3>1 DEF HistTyped
      <4> QED
        BY <1>2, <1>4, <4>1 DEF MemoryOK
    <3>2. CASE q = p
      <4>1. table'[q] = t /\ hist'[q][j] = IF j = k THEN h ELSE hist[q][j]
        BY <1>2, <2>1, <2>5, <3>2 DEF HistTyped
      <4> QED
        BY <1>4, <2>5, <3>2, <4>1 DEF c
    <3> QED
      BY <3>1, <3>2
  <2>6. hist = [hist EXCEPT ![p][k] = hist[p][k]]
    BY <1>2, <2>1 DEF HistTyped
  <2>7. CASE RefusedFull(p, k, t1)
    <3>1. reply'.status = "full" /\ table' = [table EXCEPT ![p] = t1]
      BY <2>7 DEF RefusedFull, TableFull
    <3>2. hist' = hist /\ promise' = promise
      BY <3>1 DEF HRequest
    <3>3. \A j \in Keys : Remembered(t1.log[j], hist[p][j], c)
      <4> SUFFICES ASSUME NEW j \in Keys PROVE Remembered(t1.log[j], hist[p][j], c)
        OBVIOUS
      <4>1. Remembered(table[p].log[j], hist[p][j], c)
        BY <1>2, <2>1 DEF MemoryOK
      <4>2. CleanedFrom(p, table[p], clock, t1)
        BY <2>2
      <4> HIDE DEF c
      <4> QED
        BY <4>1, <4>2, CleanupRemembers
    <3>4. MemoryOK'
      BY <2>1, <2>5, <2>6, <3>1, <3>2, <3>3
    <3>5. HistTyped' /\ RefusalIsKept'
      BY <1>2, <3>1, <3>2 DEF HistTyped, RefusalIsKept
    <3> QED
      BY <1>1, <2>4, <3>2, <3>4, <3>5 DEF HInv
  <2>8. ASSUME NEW t2, Counted(p, k, t1, t2) PROVE HInv'
    <3> DEFINE fresh == DropStale(t1.log[k], c)
    <3>1. /\ \A j \in Keys \ {k} : Remembered(t2.log[j], hist[p][j], c)
          /\ Remembered(fresh, hist[p][k], c) /\ fresh \in Seq(Nat)
          /\ \A i \in 1..Len(fresh) : fresh[i] > c
          /\ \/ /\ Len(fresh) < Limit[p] /\ reply' = Passed(p, k)
                /\ Remembered(t2.log[k], Append(hist[p][k], clock), c)
             \/ /\ Len(fresh) >= Limit[p]
                /\ reply' = TooMany(p, k, fresh[1] + Window[p] - clock)
                /\ t2.log[k] = fresh
      BY <2>1, <2>2, <2>8, CountedFacts
    <3>2. table' = [table EXCEPT ![p] = t2] /\ table'[p] = t2
      BY <1>2, <2>1, <2>8 DEF Counted
    <3>3. CASE /\ Len(fresh) < Limit[p] /\ reply' = Passed(p, k)
               /\ Remembered(t2.log[k], Append(hist[p][k], clock), c)
      <4>1. reply'.status = "pass" /\ reply'.path = p
        BY <3>3 DEF Passed
      <4>2. hist' = [hist EXCEPT ![p][k] = Append(hist[p][k], clock)] /\ promise' = promise
        BY <2>1, <4>1 DEF HRequest
      <4>3. MemoryOK'
        BY <2>5, <3>1, <3>2, <3>3, <4>2
      <4>4. HistTyped'
        <5>1. Append(hist[p][k], clock) \in Seq(Nat)
          BY <2>1, <2>t
        <5> QED
          BY <1>2, <2>1, <4>2, <5>1 DEF HistTyped
      <4>5. ~(promise[p][k] > clock)
        BY <1>1, <1>4, <2>1, <2>2, <3>3, PromisedIsRefused DEF c, fresh
      <4>6. RefusalIsKept'
        BY <1>4, <2>1, <2>t, <4>1, <4>2, <4>5 DEF RefusalIsKept
      <4> QED
        BY <1>1, <2>4, <4>2, <4>3, <4>4, <4>6 DEF HInv
    <3>4. CASE /\ Len(fresh) >= Limit[p]
               /\ reply' = TooMany(p, k, fresh[1] + Window[p] - clock)
               /\ t2.log[k] = fresh
      <4>1. reply'.status = "limited" /\ reply'.path = p /\ reply'.wait = fresh[1] + Window[p] - clock
        BY <3>4 DEF TooMany
      <4>f. Len(fresh) \in Nat /\ fresh[1] \in Nat /\ fresh[1] > c
        BY <2>t, <3>1, <3>4
      <4> HIDE DEF fresh
      <4>2. hist' = hist /\ promise' = [promise EXCEPT ![p][k] = fresh[1] + Window[p]]
        <5>1. clock + (fresh[1] + Window[p] - clock) = fresh[1] + Window[p]
          BY <2>t, <4>f
        <5> QED
          BY <2>1, <4>1, <5>1 DEF HRequest
      <4>3. MemoryOK'
        BY <2>5, <2>6, <3>1, <3>2, <3>4, <4>2
      <4>4. HistTyped'
        <5>1. fresh[1] + Window[p] \in Int
          BY <2>t, <4>f
        <5> QED
          BY <1>2, <4>2, <5>1 DEF HistTyped
      <4>5. PromiseOK'
        <5> SUFFICES ASSUME NEW q \in Paths, NEW j \in Keys, promise'[q][j] > clock'
                     PROVE  /\ Len(table'[q].log[j]) >= Limit[q]
                            /\ table'[q].log[j][1] > clock' - Window[q]
                            /\ promise'[q][j] <= table'[q].log[j][1] + Window[q]
          BY DEF PromiseOK, LimitedAt
        <5>1. CASE q = p /\ j = k
          <6>1. promise'[q][j] = fresh[1] + Window[p] /\ table'[q].log[j] = fresh
            BY <1>2, <2>1, <3>2, <3>4, <4>2, <5>1 DEF HistTyped
          <6> QED
            BY <1>4, <2>t, <3>4, <4>f, <5>1, <6>1 DEF c
        <5>2. CASE q # p \/ j # k
          <6>1. promise'[q][j] = promise[q][j]
            BY <1>2, <4>2, <5>2 DEF HistTyped
          <6> QED
            BY <2>3, <6>1
        <5> QED
          BY <5>1, <5>2
      <4>6. RefusalIsKept'
        <5>1. Cardinality({i \in DOMAIN hist[p][k] : hist[p][k][i] > c}) >= Len(fresh)
          <6>1. /\ c \in Int /\ hist[p][k] \in Seq(Nat) /\ fresh \in Seq(Nat)
                /\ Remembered(fresh, hist[p][k], c)
                /\ \A i \in 1..Len(fresh) : fresh[i] > c
            BY <2>1, <2>t, <3>1
          <6> HIDE DEF c
          <6> QED
            BY <6>1, RememberedCounts
        <5>3. Cardinality({i \in DOMAIN hist'[p][k] : hist'[p][k][i] > clock' - Window[p]}) >= Limit[p]
          <6>1. {i \in DOMAIN hist'[p][k] : hist'[p][k][i] > clock' - Window[p]}
                  = {i \in DOMAIN hist[p][k] : hist[p][k][i] > c}
            BY <1>4, <4>2 DEF c
          <6>2. IsFiniteSet({i \in DOMAIN hist[p][k] : hist[p][k][i] > c})
            <7>1. DOMAIN hist[p][k] = 1..Len(hist[p][k]) /\ Len(hist[p][k]) \in Nat
              BY <2>1, <2>t
            <7>2. IsFiniteSet(1..Len(hist[p][k]))
              BY <7>1, FS_Interval
            <7> QED
              BY <7>1, <7>2, FS_Subset
          <6>3. Cardinality({i \in DOMAIN hist[p][k] : hist[p][k][i] > c}) \in Nat
            BY <6>2, FS_CardinalityType
          <6> DEFINE n == Cardinality({i \in DOMAIN hist[p][k] : hist[p][k][i] > c})
          <6>4. n \in Nat /\ n >= Len(fresh) /\ Len(fresh) >= Limit[p]
            BY <3>4, <5>1, <6>3
          <6> HIDE DEF n
          <6>5. n >= Limit[p]
            BY <2>t, <4>f, <6>4
          <6> QED
            BY <6>1, <6>5 DEF n
        <5> QED
          BY <2>1, <4>1, <5>3 DEF RefusalIsKept, Recent
      <4> QED
        BY <1>1, <4>3, <4>4, <4>5, <4>6 DEF HInv
    <3> QED
      BY <3>1, <3>3, <3>4
  <2> QED
    BY <2>2, <2>7, <2>8
<1> QED
  BY <1>1, <1>3, <1>4 DEF Request

\* Behind the Worker, memory and history stay in step.
LEMMA HistoryInvariance ==
    ASSUME EdgeSecret
    PROVE  HSpec => []HInv
<1>1. HInit => HInv
  <2> SUFFICES ASSUME HInit PROVE HInv
    OBVIOUS
  <2>1. IInv
    BY InitIInv DEF HInit
  <2>2. HistTyped
    BY DEF HInit, HistTyped
  <2>3. \A p \in Paths, k \in Keys : table[p].log[k] = <<>>
    BY DEF HInit, Init, EmptyTable
  <2>4. MemoryOK
    BY <2>3 DEF MemoryOK, Remembered
  <2>5. PromiseOK
    BY DEF HInit, Init, PromiseOK
  <2>6. RefusalIsKept
    BY DEF HInit, Init, RefusalIsKept, NoReply
  <2> QED
    BY <2>1, <2>2, <2>4, <2>5, <2>6 DEF HInv
<1>2. HInv /\ [HNext]_hvars => HInv'
  <2> SUFFICES ASSUME HInv, [HNext]_hvars PROVE HInv'
    OBVIOUS
  <2>1. CASE HTick
    BY <2>1, HTickInv
  <2>2. CASE \E r \in Requests : HRequest(r)
    BY <2>2, HRequestInv
  <2>3. CASE UNCHANGED hvars
    <3>1. UNCHANGED <<clock, table, reply, hist, promise, visitor>>
      BY <2>3 DEF hvars
    <3>2. IInv'
      BY <3>1, NextKeepsIInv DEF HInv, vars
    <3>3. HistTyped' /\ MemoryOK' /\ PromiseOK'
      BY <3>1 DEF HInv, HistTyped, MemoryOK, PromiseOK, LimitedAt
    <3>4. RefusalIsKept'
      BY <3>1 DEF HInv, RefusalIsKept, Recent
    <3> QED
      BY <3>2, <3>3, <3>4 DEF HInv
  <2> QED
    BY <2>1, <2>2, <2>3 DEF HNext
<1> QED
  BY <1>1, <1>2, PTL DEF HSpec

\* Behind the Worker, a refusal is justified and kept (RateLimitHistory!RefusalIsKept):
\* whoever is told to slow down had Limit requests pass within the window, and passes no
\* sooner than Retry-After said, whatever flood and cleanups come between.
THEOREM RefusalsAreKept ==
    ASSUME EdgeSecret
    PROVE  HSpec => []RefusalIsKept
<1>1. HInv => RefusalIsKept
  BY DEF HInv
<1> QED
  BY <1>1, HistoryInvariance, PTL

-----------------------------------------------------------------------------
(* What a flood can buy.                                                    *)

\* Request i of history h is still counted: deque d has it, at the same distance from
\* its end.
Counts(d, h, i, since) == \E j \in 1..Len(d) : j = Len(d) - Len(h) + i /\ d[j] > since

\* The requests after `since' that the limiter has forgotten.
Forgotten(d, h, since) == {i \in 1..Len(h) : h[i] > since /\ ~Counts(d, h, i, since)}

LEMMA ForgottenFinite ==
    ASSUME NEW d, NEW h \in Seq(Nat), NEW since
    PROVE  IsFiniteSet(Forgotten(d, h, since)) /\ Cardinality(Forgotten(d, h, since)) \in Nat
<1>1. IsFiniteSet(1..Len(h)) /\ Forgotten(d, h, since) \in SUBSET (1..Len(h))
  BY FS_Interval DEF Forgotten
<1>2. IsFiniteSet(Forgotten(d, h, since))
  BY <1>1, FS_Subset
<1> QED
  BY <1>2, FS_CardinalityType

\* The popleft loop drops nothing that any later window counts.
LEMMA ForgottenDrop ==
    ASSUME NEW d \in Seq(Nat), NEW h \in Seq(Nat), NEW cutoff \in Int, NEW since \in Int,
           cutoff <= since
    PROVE  Forgotten(DropStale(d, cutoff), h, since) \subseteq Forgotten(d, h, since)
<1> DEFINE n == Stale(d, cutoff)
           e == DropStale(d, cutoff)
<1>1. n \in 0..Len(d) /\ \A i \in 1..n : d[i] <= cutoff
  BY StaleType
<1>2. e = [i \in 1..(Len(d) - n) |-> d[i + n]]
  BY DEF DropStale
<1> HIDE DEF n, e
<1>3. Len(e) = Len(d) - n /\ \A i \in 1..Len(e) : e[i] = d[i + n] /\ i + n \in 1..Len(d)
  BY <1>1, <1>2
<1>4. ASSUME NEW i \in 1..Len(h), Counts(d, h, i, since) PROVE Counts(e, h, i, since)
  <2>1. PICK j \in 1..Len(d) : j = Len(d) - Len(h) + i /\ d[j] > since
    BY <1>4 DEF Counts
  <2>2. d[j] \in Nat /\ ~(j \in 1..n)
    <3>1. d[j] \in Nat
      BY <2>1
    <3>2. ASSUME j \in 1..n PROVE FALSE
      <4>1. d[j] <= cutoff
        BY <1>1, <3>2
      <4> QED
        BY <2>1, <3>1, <4>1
    <3> QED
      BY <3>1, <3>2
  <2>3. j - n \in 1..Len(e) /\ j - n = Len(e) - Len(h) + i
    BY <1>1, <1>3, <2>1, <2>2
  <2>4. e[j - n] = d[(j - n) + n]
    BY <1>3, <2>3
  <2>5. (j - n) + n = j
    BY <1>1
  <2> QED
    BY <2>1, <2>3, <2>4, <2>5 DEF Counts
<1> QED
  BY <1>4 DEF Forgotten, e

\* A request that passes is counted, and hides no other.
LEMMA ForgottenAppend ==
    ASSUME NEW d \in Seq(Nat), NEW h \in Seq(Nat), NEW now \in Nat, NEW since \in Int
    PROVE  Forgotten(Append(d, now), Append(h, now), since) \subseteq Forgotten(d, h, since)
<1> DEFINE e == Append(d, now)
           g == Append(h, now)
<1>1. /\ Len(e) = Len(d) + 1 /\ Len(g) = Len(h) + 1 /\ Len(d) \in Nat /\ Len(h) \in Nat
      /\ \A i \in 1..Len(d) : e[i] = d[i]
      /\ \A i \in 1..Len(h) : g[i] = h[i]
      /\ e[Len(d) + 1] = now /\ g[Len(h) + 1] = now
  OBVIOUS
<1> HIDE DEF e, g
<1>2. ASSUME NEW i \in Forgotten(e, g, since) PROVE i \in Forgotten(d, h, since)
  <2>1. i \in 1..Len(g) /\ g[i] > since /\ ~Counts(e, g, i, since)
    BY <1>2 DEF Forgotten
  <2>2. i # Len(h) + 1
    <3> SUFFICES ASSUME i = Len(h) + 1 PROVE FALSE
      OBVIOUS
    <3>1. Len(d) + 1 \in 1..Len(e) /\ Len(d) + 1 = Len(e) - Len(g) + i /\ e[Len(d) + 1] > since
      BY <1>1, <2>1
    <3> QED
      BY <2>1, <3>1 DEF Counts
  <2>3. i \in 1..Len(h) /\ h[i] > since
    BY <1>1, <2>1, <2>2
  <2>4. ~Counts(d, h, i, since)
    <3> SUFFICES ASSUME Counts(d, h, i, since) PROVE FALSE
      OBVIOUS
    <3>1. PICK j \in 1..Len(d) : j = Len(d) - Len(h) + i /\ d[j] > since
      BY DEF Counts
    <3>2. j \in 1..Len(e) /\ j = Len(e) - Len(g) + i
      BY <1>1, <2>3, <3>1
    <3>3. e[j] > since
      BY <1>1, <3>1
    <3> QED
      BY <2>1, <3>2, <3>3 DEF Counts
  <2> QED
    BY <2>3, <2>4 DEF Forgotten
<1> QED
  BY <1>2 DEF e, g

\* Dropping the oldest of the history moves the others, and forgets no more of them.
LEMMA ForgottenLater ==
    ASSUME NEW d \in Seq(Nat), NEW h \in Seq(Nat), NEW cutoff \in Int, NEW since \in Int
    PROVE  Cardinality(Forgotten(d, DropStale(h, cutoff), since)) <= Cardinality(Forgotten(d, h, since))
<1> DEFINE n == Stale(h, cutoff)
           g == DropStale(h, cutoff)
           S == Forgotten(d, g, since)
           T == Forgotten(d, h, since)
           f == [i \in S |-> i + n]
<1>1. n \in 0..Len(h)
  BY StaleType
<1>2. g = [i \in 1..(Len(h) - n) |-> h[i + n]]
  BY DEF DropStale
<1> HIDE DEF n, g
<1>3. /\ Len(g) = Len(h) - n /\ Len(h) \in Nat /\ Len(d) \in Nat
      /\ \A i \in 1..Len(g) : g[i] = h[i + n] /\ i + n \in 1..Len(h)
  BY <1>1, <1>2
<1>4. ASSUME NEW i \in S PROVE i \in Int /\ i + n \in T
  <2>1. i \in 1..Len(g) /\ g[i] > since /\ ~Counts(d, g, i, since)
    BY <1>4 DEF Forgotten
  <2>2. i + n \in 1..Len(h) /\ h[i + n] > since
    BY <1>3, <2>1
  <2>3. Len(d) - Len(h) + (i + n) = Len(d) - Len(g) + i
    BY <1>1, <1>3, <2>1
  <2>4. ~Counts(d, h, i + n, since)
    BY <2>1, <2>3 DEF Counts
  <2> QED
    BY <2>1, <2>2, <2>4 DEF Forgotten
<1>5. IsFiniteSet(T)
  BY ForgottenFinite
<1> HIDE DEF S, T
<1>6. f \in [S -> T] /\ \A i, j \in S : f[i] = f[j] => i = j
  <2>1. \A i, j \in S : i + n = j + n => i = j
    BY <1>1, <1>4
  <2> QED
    BY <1>4, <2>1
<1>7. f \in Injection(S, T)
  BY <1>6 DEF Injection, IsInjective
<1> HIDE DEF f
<1>8. Cardinality(S) <= Cardinality(T)
  BY <1>5, <1>7, FS_Injection
<1> QED
  BY <1>8 DEF S, T, g

\* Forgetting a client forgets what its deque counted, and no more.
LEMMA ForgottenAll ==
    ASSUME NEW d \in Seq(Nat), NEW h \in Seq(Nat), NEW since \in Int
    PROVE  Cardinality(Forgotten(<<>>, h, since)) <= Cardinality(Forgotten(d, h, since)) + Len(d)
<1> DEFINE F == Forgotten(d, h, since)
           first == Len(h) - Len(d) + 1
           last == Len(h)
<1>1. Len(d) \in Nat /\ Len(h) \in Nat /\ first \in Int /\ last \in Int
  OBVIOUS
<1>2. Forgotten(<<>>, h, since) \subseteq F \cup (first..last)
  <2> SUFFICES ASSUME NEW i \in 1..Len(h), h[i] > since, Counts(d, h, i, since)
               PROVE  i \in first..last
    BY DEF Forgotten
  <2>1. PICK j \in 1..Len(d) : j = Len(d) - Len(h) + i
    BY DEF Counts
  <2> QED
    BY <1>1, <2>1
<1>3. IsFiniteSet(F) /\ Cardinality(F) \in Nat
  BY ForgottenFinite
<1> DEFINE I == first..last
<1>4. IsFiniteSet(I) /\ Cardinality(I) = Len(d)
  <2>1. Cardinality(I) = IF first > last THEN 0 ELSE last - first + 1
    BY <1>1, FS_Interval
  <2>2. IsFiniteSet(I)
    BY <1>1, FS_Interval
  <2> QED
    BY <1>1, <2>1, <2>2
<1> HIDE DEF F, I
<1>5. IsFiniteSet(F \cup I) /\ Cardinality(F \cup I) <= Cardinality(F) + Cardinality(I)
  <2>1. /\ IsFiniteSet(F \cup I)
        /\ Cardinality(F \cup I) = Cardinality(F) + Cardinality(I) - Cardinality(F \cap I)
    BY <1>3, <1>4, FS_Union
  <2>2. IsFiniteSet(F \cap I)
    BY <1>3, FS_Intersection
  <2>3. Cardinality(F \cap I) \in Nat /\ Cardinality(F \cup I) \in Nat /\ Cardinality(I) \in Nat
    BY <1>4, <2>1, <2>2, FS_CardinalityType
  <2> QED
    BY <1>3, <2>1, <2>3
<1>6. Cardinality(Forgotten(<<>>, h, since)) <= Cardinality(F \cup I)
  BY <1>2, <1>5, FS_Subset DEF I
<1>7. Cardinality(Forgotten(<<>>, h, since)) \in Nat /\ Cardinality(F \cup I) \in Nat
  BY <1>5, ForgottenFinite, FS_CardinalityType
<1> QED
  BY <1>1, <1>3, <1>4, <1>5, <1>6, <1>7 DEF F

\* A client with deque d and history h, on a path last cleaned at `shrunk'.  Every
\* multiple m of ShrinkEvery that reaches back from that cleanup to `since' stands for m
\* cleanups, each of which forgot Limit - 1 requests at most.
Flooded(p, d, h, shrunk, now) ==
    /\ Len(d) <= Limit[p] /\ shrunk <= now
    /\ \A i \in 1..Len(h) : h[i] <= now
    /\ \A since \in Int, m \in Nat :
          since >= now - Window[p] /\ shrunk - since <= m * ShrinkEvery
            => Cardinality(Forgotten(d, h, since)) <= (Limit[p] - 1) * m

\* A cleanup forgets a client only if it is idle, which costs nothing, or open, and the
\* cleanup before it was ShrinkEvery earlier.
LEMMA FloodCleanup ==
    ASSUME NEW p \in Paths, NEW now \in Nat, NEW t, NEW u, NEW k \in Keys, NEW h \in Seq(Nat),
           TableOK(t, now), CleanedFrom(p, t, now, u), Flooded(p, t.log[k], h, t.shrunk, now)
    PROVE  Flooded(p, u.log[k], h, u.shrunk, now)
<1> DEFINE d == t.log[k]
           e == u.log[k]
           last == t.shrunk
<1>1. CASE u = t
  BY <1>1
<1>2. CASE u # t
  <2>1. u.shrunk = now /\ now - last >= ShrinkEvery
    BY <1>2 DEF CleanedFrom
  <2>2. /\ d \in Seq(Nat) /\ Sorted(d) /\ last \in Int /\ Limit[p] \in Nat \ {0}
        /\ Window[p] \in Nat \ {0} /\ ShrinkEvery \in Nat \ {0} /\ Len(d) \in Nat
    BY ConstantsAssumption DEF TableOK, Tables
  <2>3. \/ e = d
        \/ e = <<>> /\ (d = <<>> \/ Last(d) <= now - Window[p])
        \/ e = <<>> /\ Len(d) < Limit[p]
    BY DEF CleanedFrom, DropsFrom, Idle
  <2>4. /\ Len(d) <= Limit[p] /\ \A i \in 1..Len(h) : h[i] <= now
        /\ \A since \in Int, m \in Nat :
              since >= now - Window[p] /\ last - since <= m * ShrinkEvery
                => Cardinality(Forgotten(d, h, since)) <= (Limit[p] - 1) * m
    BY DEF Flooded
  <2> HIDE DEF d, e, last
  <2>5. Len(e) <= Limit[p]
    BY <2>2, <2>3, <2>4
  <2>6. ASSUME NEW since \in Int, NEW m \in Nat, since >= now - Window[p],
               now - since <= m * ShrinkEvery
        PROVE  Cardinality(Forgotten(e, h, since)) <= (Limit[p] - 1) * m
    <3>1. (Limit[p] - 1) * m \in Nat /\ Limit[p] - 1 \in Nat
      <4> DEFINE most == Limit[p] - 1
      <4>1. most \in Nat
        BY <2>2
      <4> HIDE DEF most
      <4>2. most * m \in Nat
        BY <4>1
      <4> QED
        BY <4>1, <4>2, Zenon DEF most
    <3>2. CASE since >= now
      <4>1. Forgotten(e, h, since) = {}
        BY <2>4, <3>2 DEF Forgotten
      <4> QED
        BY <3>1, <4>1, FS_EmptySet
    <3>3. CASE since < now
      <4>1. m - 1 \in Nat
        <5>1. m = 0 => m * ShrinkEvery = 0
          BY <2>2
        <5> QED
          BY <2>6, <3>3, <5>1
      <4>2. (m - 1) * ShrinkEvery = m * ShrinkEvery - ShrinkEvery
        BY <2>2, <4>1
      <4>3. last - since <= (m - 1) * ShrinkEvery
        <5>1. m * ShrinkEvery \in Nat
          BY <2>2
        <5> QED
          BY <2>1, <2>2, <2>6, <4>2, <5>1
      <4>4. Cardinality(Forgotten(d, h, since)) <= (Limit[p] - 1) * (m - 1)
        BY <2>4, <2>6, <4>1, <4>3
      <4>5. /\ (Limit[p] - 1) * (m - 1) = (Limit[p] - 1) * m - (Limit[p] - 1)
            /\ (Limit[p] - 1) * (m - 1) \in Nat
        BY <3>1, <4>1
      <4>6. Cardinality(Forgotten(d, h, since)) \in Nat /\ Cardinality(Forgotten(e, h, since)) \in Nat
        BY <2>2, ForgottenFinite
      <4>7. CASE e = d
        BY <3>1, <4>4, <4>5, <4>6, <4>7
      <4>8. CASE e = <<>> /\ (d = <<>> \/ Last(d) <= now - Window[p])
        <5>1. \A j \in 1..Len(d) : ~(d[j] > since)
          <6> SUFFICES ASSUME NEW j \in 1..Len(d) PROVE d[j] <= since
            BY <2>2
          <6>1. Len(d) \in 1..Len(d) /\ j <= Len(d) /\ d # <<>>
            BY <2>2
          <6>2. d[j] <= d[Len(d)] /\ d[j] \in Nat /\ d[Len(d)] \in Nat
            BY <2>2, <6>1 DEF Sorted
          <6> QED
            BY <2>2, <2>6, <4>8, <6>1, <6>2 DEF Last
        <5>2. Forgotten(e, h, since) \subseteq Forgotten(d, h, since)
          BY <5>1 DEF Forgotten, Counts
        <5>3. Cardinality(Forgotten(e, h, since)) <= Cardinality(Forgotten(d, h, since))
          BY <2>2, <5>2, ForgottenFinite, FS_Subset
        <5> QED
          BY <3>1, <4>4, <4>5, <4>6, <5>3
      <4>9. CASE e = <<>> /\ Len(d) < Limit[p]
        <5>1. Cardinality(Forgotten(e, h, since)) <= Cardinality(Forgotten(d, h, since)) + Len(d)
          BY <2>2, <4>9, ForgottenAll
        <5> DEFINE x == (Limit[p] - 1) * m
                   y == (Limit[p] - 1) * (m - 1)
                   old == Cardinality(Forgotten(d, h, since))
                   new == Cardinality(Forgotten(e, h, since))
        <5>2. /\ x \in Nat /\ y \in Nat /\ old \in Nat /\ new \in Nat /\ y = x - (Limit[p] - 1)
              /\ old <= y /\ new <= old + Len(d)
          BY <3>1, <4>4, <4>5, <4>6, <5>1
        <5> HIDE DEF x, y, old, new
        <5>3. new <= x
          BY <2>2, <4>9, <5>2
        <5> QED
          BY <5>3 DEF new, x
      <4> QED
        BY <2>3, <4>7, <4>8, <4>9
    <3> QED
      BY <2>6, <3>2, <3>3
  <2> QED
    BY <2>1, <2>4, <2>5, <2>6 DEF Flooded, e
<1> QED
  BY <1>1, <1>2

\* allow drops what is out of the window.
LEMMA FloodDrop ==
    ASSUME NEW p \in Paths, NEW d \in Seq(Nat), NEW h \in Seq(Nat), NEW shrunk \in Int,
           NEW now \in Nat, Flooded(p, d, h, shrunk, now), Len(DropStale(d, now - Window[p])) <= Limit[p]
    PROVE  Flooded(p, DropStale(d, now - Window[p]), h, shrunk, now)
<1> DEFINE cutoff == now - Window[p]
           e == DropStale(d, cutoff)
<1>1. cutoff \in Int
  BY ConstantsAssumption
<1>2. ASSUME NEW since \in Int, NEW m \in Nat, since >= cutoff, shrunk - since <= m * ShrinkEvery
      PROVE  Cardinality(Forgotten(e, h, since)) <= (Limit[p] - 1) * m
  <2>1. cutoff <= since
    BY <1>1, <1>2
  <2>2. Cardinality(Forgotten(d, h, since)) <= (Limit[p] - 1) * m
    BY <1>2 DEF Flooded
  <2> HIDE DEF cutoff
  <2>3. Forgotten(e, h, since) \subseteq Forgotten(d, h, since)
    BY <1>1, <2>1, ForgottenDrop
  <2> HIDE DEF e
  <2>4. Cardinality(Forgotten(e, h, since)) <= Cardinality(Forgotten(d, h, since))
    BY <2>3, ForgottenFinite, FS_Subset
  <2>5. /\ Cardinality(Forgotten(e, h, since)) \in Nat /\ Cardinality(Forgotten(d, h, since)) \in Nat
        /\ (Limit[p] - 1) * m \in Int
    BY ForgottenFinite, ConstantsAssumption
  <2> QED
    BY <2>2, <2>4, <2>5
<1>3. Len(e) <= Limit[p]
  OBVIOUS
<1> HIDE DEF e
<1>4. Flooded(p, e, h, shrunk, now)
  BY <1>2, <1>3 DEF Flooded
<1> QED
  BY <1>4 DEF e

\* allow lets a request pass below the limit.
LEMMA FloodPass ==
    ASSUME NEW p \in Paths, NEW d \in Seq(Nat), NEW h \in Seq(Nat), NEW shrunk \in Int,
           NEW now \in Nat, Flooded(p, d, h, shrunk, now), Len(d) < Limit[p]
    PROVE  Flooded(p, Append(d, now), Append(h, now), shrunk, now)
<1> DEFINE e == Append(d, now)
           g == Append(h, now)
<1>1. /\ Len(e) = Len(d) + 1 /\ Len(g) = Len(h) + 1 /\ Len(d) \in Nat /\ Len(h) \in Nat
      /\ g \in Seq(Nat) /\ \A i \in 1..Len(h) : g[i] = h[i]
      /\ g[Len(h) + 1] = now
  OBVIOUS
<1>2. \A since \in Int : Forgotten(e, g, since) \subseteq Forgotten(d, h, since)
  BY ForgottenAppend
<1> HIDE DEF e, g
<1>3. Len(e) <= Limit[p] /\ \A i \in 1..Len(g) : g[i] <= now
  <2>1. Len(e) <= Limit[p]
    BY <1>1, ConstantsAssumption
  <2>2. \A i \in 1..Len(h) : h[i] <= now
    BY DEF Flooded
  <2>3. ASSUME NEW i \in 1..Len(g) PROVE g[i] <= now
    <3>1. CASE i = Len(h) + 1
      BY <1>1, <3>1
    <3>2. CASE i # Len(h) + 1
      <4>1. i \in 1..Len(h)
        BY <1>1, <3>2
      <4> QED
        BY <1>1, <2>2, <4>1
    <3> QED
      BY <3>1, <3>2
  <2> QED
    BY <2>1, <2>3
<1>4. ASSUME NEW since \in Int, NEW m \in Nat, since >= now - Window[p],
             shrunk - since <= m * ShrinkEvery
      PROVE  Cardinality(Forgotten(e, g, since)) <= (Limit[p] - 1) * m
  <2>1. Cardinality(Forgotten(d, h, since)) <= (Limit[p] - 1) * m
    BY <1>4 DEF Flooded
  <2>2. Cardinality(Forgotten(e, g, since)) <= Cardinality(Forgotten(d, h, since))
    BY <1>2, ForgottenFinite, FS_Subset
  <2>3. /\ Cardinality(Forgotten(e, g, since)) \in Nat /\ Cardinality(Forgotten(d, h, since)) \in Nat
        /\ (Limit[p] - 1) * m \in Int
    BY <1>1, ForgottenFinite, ConstantsAssumption
  <2> QED
    BY <2>1, <2>2, <2>3
<1>5. Flooded(p, e, g, shrunk, now)
  BY <1>3, <1>4 DEF Flooded
<1> QED
  BY <1>5 DEF e, g

\* Time passes, and the history loses what no window holds any more.
LEMMA FloodLater ==
    ASSUME NEW p \in Paths, NEW d \in Seq(Nat), NEW h \in Seq(Nat), NEW shrunk \in Int,
           NEW now \in Nat, Flooded(p, d, h, shrunk, now), NEW later \in Nat, later = now + 1
    PROVE  Flooded(p, d, DropStale(h, later - Window[p]), shrunk, later)
<1> DEFINE cutoff == later - Window[p]
           g == DropStale(h, cutoff)
           n == Stale(h, cutoff)
<1>1. cutoff \in Int /\ Window[p] \in Nat
  BY ConstantsAssumption
<1> HIDE DEF cutoff
<1>2. n \in 0..Len(h)
  BY <1>1, StaleType
<1>3. g = [i \in 1..(Len(h) - n) |-> h[i + n]]
  BY DEF DropStale
<1>4. \A since \in Int : Cardinality(Forgotten(d, g, since)) <= Cardinality(Forgotten(d, h, since))
  BY <1>1, ForgottenLater
<1> HIDE DEF g, n
<1>5. g \in Seq(Nat) /\ \A i \in 1..Len(g) : g[i] = h[i + n] /\ i + n \in 1..Len(h)
  <2>1. Len(h) - n \in Nat /\ \A i \in 1..(Len(h) - n) : i + n \in 1..Len(h)
    BY <1>2
  <2>2. \A i \in 1..(Len(h) - n) : h[i + n] \in Nat
    BY <2>1
  <2>3. g \in Seq(Nat) /\ Len(g) = Len(h) - n
    BY <1>3, <2>1, <2>2
  <2> QED
    BY <1>3, <2>1, <2>3
<1>6. \A i \in 1..Len(g) : g[i] <= later
  <2> SUFFICES ASSUME NEW i \in 1..Len(g) PROVE g[i] <= later
    OBVIOUS
  <2>1. h[i + n] <= now /\ h[i + n] \in Nat
    BY <1>5 DEF Flooded
  <2> QED
    BY <1>5, <2>1
<1>7. ASSUME NEW since \in Int, NEW m \in Nat, since >= later - Window[p],
             shrunk - since <= m * ShrinkEvery
      PROVE  Cardinality(Forgotten(d, g, since)) <= (Limit[p] - 1) * m
  <2>1. since >= now - Window[p]
    BY <1>1, <1>7
  <2>2. Cardinality(Forgotten(d, h, since)) <= (Limit[p] - 1) * m
    BY <1>7, <2>1 DEF Flooded
  <2>3. /\ Cardinality(Forgotten(d, g, since)) \in Nat /\ Cardinality(Forgotten(d, h, since)) \in Nat
        /\ (Limit[p] - 1) * m \in Int
    BY <1>5, ForgottenFinite, ConstantsAssumption
  <2> QED
    BY <1>4, <2>2, <2>3
<1>8. Len(d) <= Limit[p] /\ shrunk <= later
  <2>1. Len(d) <= Limit[p] /\ shrunk <= now
    BY DEF Flooded
  <2> QED
    BY <2>1
<1>9. Flooded(p, d, g, shrunk, later)
  BY <1>6, <1>7, <1>8 DEF Flooded
<1> QED
  BY <1>9 DEF g, cutoff

\* As many cleanups fit in a window as FloodBound says.
LEMMA CleanupsReach ==
    ASSUME NEW p \in Paths
    PROVE  Cleanups(p) \in Nat /\ Window[p] <= Cleanups(p) * ShrinkEvery
<1>1. Window[p] \in Nat \ {0} /\ ShrinkEvery \in Nat \ {0}
  BY ConstantsAssumption
<1> DEFINE x == Window[p] + ShrinkEvery - 1
           q == x \div ShrinkEvery
<1>2. x \in Nat
  BY <1>1
<1> HIDE DEF x
<1>3. q \in Nat /\ x = ShrinkEvery * q + (x % ShrinkEvery) /\ x % ShrinkEvery \in 0..(ShrinkEvery - 1)
  BY <1>1, <1>2
<1> HIDE DEF q
<1>4. q * ShrinkEvery = ShrinkEvery * q /\ q * ShrinkEvery \in Nat
  BY <1>1, <1>3
<1>5. Window[p] <= q * ShrinkEvery
  BY <1>1, <1>3, <1>4 DEF x
<1> QED
  BY <1>3, <1>5 DEF Cleanups, q, x

\* What passed is what is counted and what was forgotten.
LEMMA FloodedBound ==
    ASSUME NEW p \in Paths, NEW d \in Seq(Nat), NEW h \in Seq(Nat), NEW shrunk \in Int,
           NEW now \in Nat, Flooded(p, d, h, shrunk, now)
    PROVE  Cardinality({i \in DOMAIN h : h[i] > now - Window[p]})
             <= Limit[p] + (Limit[p] - 1) * Cleanups(p)
<1> DEFINE c == now - Window[p]
           R == {i \in DOMAIN h : h[i] > c}
           F == Forgotten(d, h, c)
           b == (Limit[p] - 1) * Cleanups(p)
<1>1. /\ c \in Int /\ Window[p] \in Nat /\ Limit[p] \in Nat \ {0} /\ Cleanups(p) \in Nat
      /\ ShrinkEvery \in Nat /\ Len(d) \in Nat
  BY ConstantsAssumption, CleanupsReach
<1>2. shrunk - c <= Cleanups(p) * ShrinkEvery /\ c >= now - Window[p]
  <2>1. shrunk <= now
    BY DEF Flooded
  <2>2. Cleanups(p) * ShrinkEvery \in Nat /\ Window[p] <= Cleanups(p) * ShrinkEvery
    BY <1>1, CleanupsReach
  <2> QED
    BY <1>1, <2>1, <2>2
<1>3. Cardinality(F) <= b /\ Len(d) <= Limit[p]
  BY <1>1, <1>2 DEF Flooded
<1>4. R = Forgotten(<<>>, h, c)
  BY DEF Forgotten, Counts
<1> HIDE DEF c
<1>5. Cardinality(R) <= Cardinality(F) + Len(d)
  BY <1>1, <1>4, ForgottenAll
<1>6. Cardinality(R) \in Nat /\ Cardinality(F) \in Nat /\ b \in Nat
  <2>1. Cardinality(R) \in Nat /\ Cardinality(F) \in Nat
    BY <1>4, ForgottenFinite
  <2>2. Limit[p] - 1 \in Nat
    BY <1>1
  <2> QED
    BY <1>1, <2>1, <2>2
<1> HIDE DEF R, F, b
<1>7. Cardinality(R) <= Limit[p] + b
  BY <1>1, <1>3, <1>5, <1>6
<1> QED
  BY <1>7 DEF R, b, c

\* Every client of every path is within its share of the cleanups.
FloodOK ==
    \A p \in Paths, k \in Keys :
        Flooded(p, table[p].log[k], hist[p][k], table[p].shrunk, clock)

FInv == HInv /\ FloodOK

\* A tick.
LEMMA FTickInv == ASSUME FInv, HTick PROVE FloodOK'
<1> SUFFICES ASSUME NEW p \in Paths, NEW k \in Keys
             PROVE  Flooded(p, table'[p].log[k], hist'[p][k], table'[p].shrunk, clock')
  BY DEF FloodOK
<1> DEFINE d == table[p].log[k]
           h == hist[p][k]
           last == table[p].shrunk
<1>1. clock' = clock + 1 /\ table' = table
  BY DEF HTick, Tick
<1>2. hist'[p][k] = DropStale(h, clock' - Window[p])
  BY DEF HTick
<1>3. clock \in Nat /\ d \in Seq(Nat) /\ h \in Seq(Nat) /\ last \in Int
  BY ConstantsAssumption DEF FInv, HInv, IInv, TablesOK, HistTyped, Tables
<1>4. Flooded(p, d, h, last, clock)
  BY DEF FInv, FloodOK
<1> HIDE DEF d, h, last
<1>5. clock' \in Nat
  BY <1>1, <1>3
<1>6. Flooded(p, d, DropStale(h, clock' - Window[p]), last, clock')
  BY <1>1, <1>3, <1>4, <1>5, FloodLater
<1>7. table'[p].log[k] = d /\ table'[p].shrunk = last
  BY <1>1 DEF d, last
<1> QED
  BY <1>2, <1>6, <1>7

\* allow, for the client whose request it is and for every other.
LEMMA FloodAllow ==
    ASSUME NEW p \in Paths, NEW k \in Keys, NEW now \in Nat, NEW t, TableOK(t, now),
           NEW j \in Keys, NEW h \in Seq(Nat), Flooded(p, t.log[j], h, t.shrunk, now)
    PROVE  LET a == Allow(p, t, k, now) IN
           Flooded(p, a.log[j], IF j = k /\ Allowed(p, t, k, now) THEN Append(h, now) ELSE h,
                   a.shrunk, now)
<1> DEFINE a == Allow(p, t, k, now)
           d == t.log[j]
           last == t.shrunk
           fresh == DropStale(d, now - Window[p])
<1>1. /\ a.shrunk = last /\ \A i \in Keys \ {k} : a.log[i] = t.log[i]
      /\ a.log[k] = Recorded(p, t, k, now)
  BY AllowFacts
<1>2. d \in Seq(Nat) /\ last \in Int /\ Limit[p] \in Nat \ {0} /\ Len(d) <= Limit[p]
  BY ConstantsAssumption DEF TableOK, Tables, Flooded
<1> HIDE DEF a
<1>3. CASE j # k
  BY <1>1, <1>3 DEF a
<1>4. CASE j = k
  <2>1. fresh \in Seq(Nat) /\ Len(fresh) <= Len(d)
    <3> DEFINE n == Stale(d, now - Window[p])
    <3>1. now - Window[p] \in Int
      BY ConstantsAssumption
    <3>2. n \in 0..Len(d)
      BY <1>2, <3>1, StaleType
    <3>3. fresh = [i \in 1..(Len(d) - n) |-> d[i + n]]
      BY DEF DropStale
    <3> HIDE DEF n, fresh, d
    <3>4. Len(d) - n \in Nat /\ \A i \in 1..(Len(d) - n) : i + n \in 1..Len(d)
      BY <1>2, <3>2
    <3>5. \A i \in 1..(Len(d) - n) : d[i + n] \in Nat
      BY <1>2, <3>4
    <3> QED
      BY <1>2, <3>2, <3>3, <3>4, <3>5
  <2>2. Len(fresh) <= Limit[p]
    BY <1>2, <2>1
  <2>3. Flooded(p, fresh, h, last, now)
    BY <1>2, <2>2, FloodDrop
  <2>4. /\ Allowed(p, t, k, now) <=> Len(fresh) < Limit[p]
        /\ a.log[k] = IF Len(fresh) < Limit[p] THEN Append(fresh, now) ELSE fresh
    BY <1>1, <1>4 DEF Allowed, Recorded
  <2> HIDE DEF fresh, last
  <2>5. CASE Len(fresh) < Limit[p]
    <3>1. Flooded(p, Append(fresh, now), Append(h, now), last, now)
      BY <1>2, <2>1, <2>3, <2>5, FloodPass
    <3> QED
      BY <1>1, <1>4, <2>4, <2>5, <3>1 DEF a
  <2>6. CASE ~(Len(fresh) < Limit[p])
    BY <1>1, <1>4, <2>3, <2>4, <2>6 DEF a
  <2> QED
    BY <2>5, <2>6
<1> QED
  BY <1>3, <1>4

\* A request.
LEMMA FRequestInv ==
    ASSUME EdgeSecret, FInv, NEW r \in Requests, HRequest(r)
    PROVE  FloodOK'
<1>1. Request(r) /\ visitor' = Visitor(r) /\ HInv
  BY DEF HRequest, FInv
<1>2. HistTyped /\ FloodOK /\ table \in [Paths -> Tables] /\ clock \in Nat
  BY <1>1, ConstantsAssumption DEF FInv, HInv, IInv, TablesOK
<1>3. CASE reply' \in {Forbidden, Unlimited} /\ UNCHANGED <<clock, table>>
  <2>1. reply'.status \notin {"pass", "limited"}
    BY <1>3 DEF Forbidden, Unlimited
  <2>2. hist' = hist
    BY <2>1 DEF HRequest
  <2> QED
    BY <1>2, <1>3, <2>2 DEF FloodOK
<1>4. CASE ~Guarded(r) /\ r.path \in Paths /\ Check(r.path, ClientKey(r)) /\ clock' = clock
  <2> DEFINE p == r.path
             k == ClientKey(r)
  <2>1. p \in Paths /\ k \in Keys /\ visitor' = k
    BY <1>1, <1>4, ClientKeyType, KeyIsVisitor
  <2> HIDE DEF p, k
  <2>2. PICK t1 : /\ CleanedFrom(p, table[p], clock, t1)
                  /\ RefusedFull(p, k, t1) \/ \E t2 : Counted(p, k, t1, t2)
    BY <1>1, <1>4, <2>1, CheckShape DEF HInv, IInv, p, k
  <2>3. TableOK(table[p], clock) /\ TableOK(t1, clock)
    <3>1. TableOK(table[p], clock)
      BY <1>1, <2>1 DEF HInv, IInv, TablesOK
    <3> QED
      BY <1>2, <2>1, <2>2, <3>1, CleanupKeepsOK
  <2>4. ASSUME NEW j \in Keys
        PROVE  hist[p][j] \in Seq(Nat) /\ Flooded(p, t1.log[j], hist[p][j], t1.shrunk, clock)
    <3>1. hist[p][j] \in Seq(Nat)
      BY <1>2, <2>1 DEF HistTyped
    <3>2. Flooded(p, table[p].log[j], hist[p][j], table[p].shrunk, clock)
      BY <1>2, <2>1 DEF FloodOK
    <3> DEFINE t == table[p]
               h == hist[p][j]
    <3>3. /\ h \in Seq(Nat) /\ TableOK(t, clock) /\ CleanedFrom(p, t, clock, t1)
          /\ Flooded(p, t.log[j], h, t.shrunk, clock)
      BY <2>2, <2>3, <3>1, <3>2
    <3> HIDE DEF t, h
    <3>4. Flooded(p, t1.log[j], h, t1.shrunk, clock)
      BY <1>2, <2>1, <3>3, FloodCleanup
    <3> QED
      BY <3>1, <3>4 DEF h
  <2>5. ASSUME NEW t, table' = [table EXCEPT ![p] = t],
               \A q \in Paths \ {p} : hist'[q] = hist[q],
               \A j \in Keys : Flooded(p, t.log[j], hist'[p][j], t.shrunk, clock)
        PROVE  FloodOK'
    <3> SUFFICES ASSUME NEW q \in Paths, NEW j \in Keys
                 PROVE  Flooded(q, table'[q].log[j], hist'[q][j], table'[q].shrunk, clock)
      BY <1>4 DEF FloodOK
    <3>1. CASE q # p
      <4>1. table'[q] = table[q] /\ hist'[q] = hist[q]
        BY <1>2, <2>5, <3>1
      <4> QED
        BY <1>2, <4>1 DEF FloodOK
    <3>2. CASE q = p
      <4>1. table'[p] = t
        BY <1>2, <2>1, <2>5
      <4> QED
        BY <2>5, <3>2, <4>1
    <3> QED
      BY <3>1, <3>2
  <2>6. CASE RefusedFull(p, k, t1)
    <3>1. reply'.status = "full" /\ table' = [table EXCEPT ![p] = t1]
      BY <2>6 DEF RefusedFull, TableFull
    <3>2. hist' = hist
      BY <3>1 DEF HRequest
    <3> QED
      BY <2>4, <2>5, <3>1, <3>2
  <2>7. ASSUME NEW t2, Counted(p, k, t1, t2) PROVE FloodOK'
    <3> DEFINE a == Allow(p, t1, k, clock)
               passes == Allowed(p, t1, k, clock)
    <3>1. /\ CleanedFrom(p, a, clock, t2) /\ table' = [table EXCEPT ![p] = t2]
          /\ reply' = IF passes THEN Passed(p, k)
                      ELSE TooMany(p, k, t2.log[k][1] + Window[p] - clock)
      BY <2>7 DEF Counted
    <3>2. TableOK(a, clock)
      BY <1>2, <2>1, <2>3, AllowFacts
    <3>3. \A j \in Keys : Flooded(p, a.log[j], IF j = k /\ passes THEN Append(hist[p][j], clock)
                                                ELSE hist[p][j], a.shrunk, clock)
      BY <1>2, <2>1, <2>3, <2>4, FloodAllow
    <3> HIDE DEF a, passes
    <3>4. /\ \A q \in Paths \ {p} : hist'[q] = hist[q]
          /\ \A j \in Keys : hist'[p][j] = IF j = k /\ passes THEN Append(hist[p][j], clock)
                                           ELSE hist[p][j]
      <4>1. CASE passes
        <5>1. reply'.status = "pass" /\ reply'.path = p
          BY <3>1, <4>1 DEF Passed
        <5>2. hist' = [hist EXCEPT ![p][k] = Append(hist[p][k], clock)]
          BY <2>1, <5>1 DEF HRequest
        <5> QED
          BY <1>2, <2>1, <4>1, <5>2 DEF HistTyped
      <4>2. CASE ~passes
        <5>1. reply'.status = "limited"
          BY <3>1, <4>2 DEF TooMany
        <5>2. hist' = hist
          BY <5>1 DEF HRequest
        <5> QED
          BY <4>2, <5>2
      <4> QED
        BY <4>1, <4>2
    <3>5. ASSUME NEW j \in Keys PROVE Flooded(p, t2.log[j], hist'[p][j], t2.shrunk, clock)
      <4> DEFINE h == hist'[p][j]
      <4>1. h \in Seq(Nat)
        <5>1. hist[p][j] \in Seq(Nat)
          BY <2>4
        <5>2. Append(hist[p][j], clock) \in Seq(Nat)
          BY <1>2, <5>1
        <5> QED
          BY <3>4, <5>1, <5>2
      <4>2. Flooded(p, a.log[j], h, a.shrunk, clock)
        BY <3>3, <3>4
      <4> HIDE DEF h
      <4>3. Flooded(p, t2.log[j], h, t2.shrunk, clock)
        BY <1>2, <2>1, <3>1, <3>2, <4>1, <4>2, FloodCleanup
      <4> QED
        BY <4>3 DEF h
    <3> QED
      BY <2>5, <3>1, <3>4, <3>5
  <2> QED
    BY <2>2, <2>6, <2>7
<1> QED
  BY <1>1, <1>3, <1>4 DEF Request

\* Behind the Worker, what a flood buys a client is bounded (RateLimitHistory!FloodBound):
\* however many clients come and however the cleanups fall, one client passes at most
\* Limit times in a window, and Limit - 1 times more for each cleanup that fits in it.
THEOREM FloodIsBounded ==
    ASSUME EdgeSecret
    PROVE  HSpec => []FloodBound
<1>1. HInit => FloodOK
  <2> SUFFICES ASSUME HInit, NEW p \in Paths, NEW k \in Keys
               PROVE  Flooded(p, table[p].log[k], hist[p][k], table[p].shrunk, clock)
    BY DEF FloodOK
  <2>1. /\ table[p].log[k] = <<>> /\ hist[p][k] = <<>> /\ table[p].shrunk = -ShrinkEvery
        /\ clock = 0 /\ ShrinkEvery \in Nat /\ Limit[p] \in Nat \ {0}
    BY ConstantsAssumption DEF HInit, Init, EmptyTable
  <2>2. \A since : Forgotten(<<>>, <<>>, since) = {}
    BY DEF Forgotten
  <2>3. Limit[p] - 1 \in Nat
    BY <2>1
  <2>4. \A m \in Nat : 0 <= (Limit[p] - 1) * m
    BY <2>3
  <2>5. \A since : Cardinality(Forgotten(<<>>, <<>>, since)) = 0
    BY <2>2, FS_EmptySet
  <2>6. -ShrinkEvery <= 0 /\ Len(<<>>) <= Limit[p] /\ \A i \in 1..Len(<<>>) : <<>>[i] <= 0
    BY <2>1
  <2> DEFINE last == -ShrinkEvery
  <2> HIDE DEF last
  <2>7. Flooded(p, <<>>, <<>>, last, 0)
    BY <2>4, <2>5, <2>6 DEF Flooded, last
  <2> QED
    BY <2>1, <2>7 DEF last
<1>2. FInv /\ [HNext]_hvars => FloodOK'
  <2> SUFFICES ASSUME FInv, [HNext]_hvars PROVE FloodOK'
    OBVIOUS
  <2>1. CASE HTick
    BY <2>1, FTickInv
  <2>2. CASE \E r \in Requests : HRequest(r)
    BY <2>2, FRequestInv
  <2>3. CASE UNCHANGED hvars
    BY <2>3 DEF hvars, FInv, FloodOK
  <2> QED
    BY <2>1, <2>2, <2>3 DEF HNext
<1>3. FInv => FloodBound
  <2> SUFFICES ASSUME FInv, NEW p \in Paths, NEW k \in Keys
               PROVE  Cardinality(Recent(p, k)) <= Limit[p] + (Limit[p] - 1) * Cleanups(p)
    BY DEF FloodBound
  <2> DEFINE d == table[p].log[k]
             h == hist[p][k]
             last == table[p].shrunk
  <2>1. clock \in Nat /\ d \in Seq(Nat) /\ h \in Seq(Nat) /\ last \in Int
    BY ConstantsAssumption DEF FInv, HInv, IInv, TablesOK, HistTyped, Tables
  <2>2. Flooded(p, d, h, last, clock)
    BY DEF FInv, FloodOK
  <2> HIDE DEF d, h, last
  <2>3. Cardinality({i \in DOMAIN h : h[i] > clock - Window[p]})
          <= Limit[p] + (Limit[p] - 1) * Cleanups(p)
    BY <2>1, <2>2, FloodedBound
  <2> QED
    BY <2>3 DEF Recent, h
<1>4. HSpec => []HInv
  BY HistoryInvariance
<1> QED
  BY <1>1, <1>2, <1>3, <1>4, PTL DEF HSpec, FInv

==============================================================================
