--------------------------- MODULE RetentionProofs ---------------------------
(***************************************************************************)
(* Proofs about Retention, for any age limit, margin, interval and number   *)
(* of runs that fail in a row.  A row survives a run only up to the         *)
(* cut-off, so its age is at most the cut-off plus the time since the last  *)
(* run that succeeded (Since).  A copy may be inserted after the run that   *)
(* deleted its offer, so a copy has one such period on top.                 *)
(***************************************************************************)
EXTENDS Retention, TLAPS

\* Time since the last run that succeeded, and the longest it can get.
Since == fails * Interval + phase
Longest == (MaxFails + 1) * Interval

IInv ==
    /\ TypeOK
    /\ \A o \in Storable : offers[o] <= Cutoff + Since
    /\ \A o \in Storable : watchlist[o] <= Cutoff + Longest + Since
    /\ \A w \in Threads : txn[w] # Idle => /\ txn[w].offer \in Storable
                                           /\ txn[w].age <= Cutoff + Longest

\* A period between two good runs is no longer than Longest.
LEMMA Period ==
    ASSUME NEW f \in 0..MaxFails, NEW p \in 0..Interval
    PROVE  /\ Longest \in Nat /\ f * Interval + p \in Nat
           /\ f * Interval + p <= Longest
<1>1. f * Interval \in Nat /\ MaxFails * Interval \in Nat
  BY RetentionAssumption
<1>2. f * Interval <= MaxFails * Interval
  BY RetentionAssumption
<1>3. (MaxFails + 1) * Interval = MaxFails * Interval + Interval
  BY RetentionAssumption
<1>4. p <= Interval /\ p \in Nat /\ Interval \in Nat
  BY RetentionAssumption
<1> QED
  BY <1>1, <1>2, <1>3, <1>4 DEF Longest

\* The numbers of a state are numbers.
LEMMA Bounds ==
    ASSUME TypeOK
    PROVE  /\ Cutoff \in Nat /\ Longest \in Nat /\ Since \in Nat
           /\ Since <= Longest
<1>1. Cutoff \in Nat
  BY RetentionAssumption DEF Cutoff
<1> QED
  BY <1>1, Period DEF TypeOK, Since

\* Every step keeps the types.
LEMMA TypeStep ==
    ASSUME TypeOK, [Next]_vars
    PROVE  TypeOK'
<1> USE RetentionAssumption
<1>0. CASE UNCHANGED vars
  BY <1>0 DEF vars, TypeOK
<1>1. CASE Tick
  <2>1. \A rows \in [Offers -> Ages] : Older(rows) \in [Offers -> Ages]
    BY DEF Older, Ages, NoRow
  <2> QED
    BY <1>1, <2>1 DEF Tick, TypeOK
<1>2. CASE PurgeExpired
  <2>1. \A rows \in [Offers -> Ages] : Purged(rows) \in [Offers -> Ages]
    BY DEF Purged, Ages, NoRow
  <2> QED
    BY <1>2, <2>1 DEF PurgeExpired, TypeOK
<1>3. CASE PurgeFails
  BY <1>3 DEF PurgeFails, TypeOK
<1>4. ASSUME NEW o \in Offers, Upsert(o) \/ RemoveWatch(o)
      PROVE  TypeOK'
  BY <1>4 DEF Upsert, RemoveWatch, TypeOK, Ages, NoRow
<1>5. ASSUME NEW o \in Offers, NEW w \in Threads, ReadOffer(w, o)
      PROVE  TypeOK'
  <2>1. [offer |-> o, age |-> offers[o]] \in [offer : Offers, age : Nat]
    BY <1>5 DEF ReadOffer, TypeOK, Ages, NoRow
  <2> QED
    BY <1>5, <2>1 DEF ReadOffer, TypeOK
<1>6. ASSUME NEW w \in Threads, InsertWatch(w)
      PROVE  TypeOK'
  <2>1. txn[w] \in [offer : Offers, age : Nat]
    BY <1>6 DEF InsertWatch, TypeOK
  <2>2. txn[w].age \in Ages
    BY <2>1 DEF Ages
  <2> QED
    BY <1>6, <2>2 DEF InsertWatch, TypeOK
<1> QED
  BY <1>0, <1>1, <1>2, <1>3, <1>4, <1>5, <1>6 DEF Next

\* Every step keeps the ages within the bounds.
LEMMA AgeStep ==
    ASSUME IInv, [Next]_vars
    PROVE  IInv'
<1> USE RetentionAssumption
<1>0. TypeOK /\ TypeOK'
  BY TypeStep DEF IInv
<1>1. /\ Cutoff \in Nat /\ Longest \in Nat /\ Since \in Nat /\ Since <= Longest
      /\ Since' \in Nat
  <2>1. Since' \in Nat
    BY <1>0, Period DEF TypeOK, Since
  <2> QED
    BY <1>0, <2>1, Bounds
<1>2. \A o \in Storable : /\ offers[o] \in Int /\ offers[o] <= Cutoff + Since
                          /\ watchlist[o] \in Int /\ watchlist[o] <= Cutoff + Longest + Since
  BY <1>0 DEF IInv, TypeOK, Ages, NoRow
<1>3. CASE UNCHANGED vars
  BY <1>3 DEF vars, IInv, TypeOK, Since
<1>4. CASE Tick
  <2>1. Since' = Since + 1
    BY <1>0, <1>4 DEF Tick, Since, TypeOK
  <2>2. \A o \in Storable : offers'[o] <= offers[o] + 1 /\ watchlist'[o] <= watchlist[o] + 1
    BY <1>2, <1>4 DEF Tick, Older, NoRow
  <2>3. \A o \in Storable : offers'[o] \in Int /\ watchlist'[o] \in Int
    BY <1>0 DEF TypeOK, Ages, NoRow
  <2>4. \A o \in Storable : offers'[o] <= Cutoff + Since'
    BY <1>1, <1>2, <2>1, <2>2, <2>3
  <2>5. \A o \in Storable : watchlist'[o] <= Cutoff + Longest + Since'
    BY <1>1, <1>2, <2>1, <2>2, <2>3
  <2> QED
    BY <1>0, <1>4, <2>4, <2>5 DEF Tick, IInv
<1>5. CASE PurgeExpired
  <2>1. Since' = 0
    BY <1>5 DEF PurgeExpired, Since
  <2>2. \A o \in Storable : offers'[o] <= Cutoff /\ watchlist'[o] <= Cutoff
    BY <1>1, <1>2, <1>5 DEF PurgeExpired, Purged, Expired, NoRow
  <2>3. \A o \in Storable : offers'[o] \in Int /\ watchlist'[o] \in Int
    BY <1>0 DEF TypeOK, Ages, NoRow
  <2> QED
    BY <1>0, <1>1, <1>5, <2>1, <2>2, <2>3 DEF PurgeExpired, IInv
<1>6. CASE PurgeFails
  <2>1. Since' = Since
    BY <1>0, <1>6 DEF PurgeFails, Since, TypeOK
  <2> QED
    BY <1>0, <1>6, <2>1 DEF PurgeFails, IInv
<1>7. ASSUME NEW x \in Offers, Upsert(x) \/ RemoveWatch(x)
      PROVE  IInv'
  <2>1. Since' = Since /\ txn' = txn
    BY <1>7 DEF Upsert, RemoveWatch, Since
  <2>2. \A o \in Storable : offers'[o] <= Cutoff + Since
    BY <1>0, <1>1, <1>2, <1>7 DEF Upsert, RemoveWatch, TypeOK
  <2>3. \A o \in Storable : watchlist'[o] <= Cutoff + Longest + Since
    BY <1>0, <1>1, <1>2, <1>7 DEF Upsert, RemoveWatch, TypeOK, NoRow
  <2> QED
    BY <1>0, <2>1, <2>2, <2>3 DEF IInv
<1>8. ASSUME NEW o \in Offers, NEW w \in Threads, ReadOffer(w, o)
      PROVE  IInv'
  <2>1. UNCHANGED <<offers, watchlist, phase, fails>> /\ Since' = Since
    BY <1>8 DEF ReadOffer, Since
  <2>2. o \in Storable /\ offers[o] <= Cutoff + Longest
    BY <1>1, <1>2, <1>8 DEF ReadOffer
  <2>3. \A q \in Threads : txn'[q] = IF q = w THEN [offer |-> o, age |-> offers[o]] ELSE txn[q]
    BY <1>0, <1>8 DEF ReadOffer, TypeOK
  <2>4. \A q \in Threads : txn'[q] # Idle => /\ txn'[q].offer \in Storable
                                            /\ txn'[q].age <= Cutoff + Longest
    BY <2>2, <2>3 DEF IInv
  <2> QED
    BY <1>0, <2>1, <2>4 DEF IInv
<1>9. ASSUME NEW w \in Threads, InsertWatch(w)
      PROVE  IInv'
  <2>1. UNCHANGED <<offers, phase, fails>> /\ Since' = Since
    BY <1>9 DEF InsertWatch, Since
  <2>2. txn[w] # Idle /\ txn[w].age \in Nat /\ txn[w].age <= Cutoff + Longest
    BY <1>0, <1>9 DEF InsertWatch, TypeOK, IInv
  <2>3. \A o \in Storable : watchlist'[o] = watchlist[o] \/ watchlist'[o] = txn[w].age
    BY <1>0, <1>9 DEF InsertWatch, TypeOK
  <2>4. \A o \in Storable : watchlist'[o] <= Cutoff + Longest + Since
    BY <1>1, <1>2, <2>2, <2>3
  <2>5. \A q \in Threads : txn'[q] = IF q = w THEN Idle ELSE txn[q]
    BY <1>0, <1>9 DEF InsertWatch, TypeOK
  <2> QED
    BY <1>0, <2>1, <2>4, <2>5 DEF IInv
<1> QED
  BY <1>3, <1>4, <1>5, <1>6, <1>7, <1>8, <1>9 DEF Next

\* No row yet, or unstorable ones only, is within the bounds.
LEMMA InitIInv ==
    ASSUME Init
    PROVE  IInv
<1> USE RetentionAssumption
<1>1. TypeOK
  <2>1. \A f \in [Offers -> {NoRow, 0}] : f \in [Offers -> Ages]
    BY DEF Ages
  <2>2. offers \in [Offers -> Ages] /\ watchlist \in [Offers -> Ages]
    BY <2>1 DEF Init
  <2>3. txn = [w \in Threads |-> Idle] /\ phase = 0 /\ fails = 0 /\ purged = FALSE
    BY Zenon DEF Init
  <2>4. txn \in [Threads -> {Idle} \cup [offer : Offers, age : Nat]]
    BY <2>3
  <2>5. phase \in 0..Interval /\ fails \in 0..MaxFails
    BY <2>3
  <2>6. purged \in BOOLEAN
    BY <2>3
  <2> QED
    BY <2>2, <2>4, <2>5, <2>6 DEF TypeOK
<1>2. Cutoff \in Nat /\ Longest \in Nat /\ Since \in Nat
  BY <1>1, Bounds
<1>3. \A o \in Storable : offers[o] = -1 /\ watchlist[o] = -1
  <2>1. \A o \in Storable : offers[o] = NoRow /\ watchlist[o] = NoRow
    BY DEF Init
  <2> QED
    BY <2>1 DEF NoRow
<1>4. \A w \in Threads : txn[w] = Idle
  BY DEF Init
<1>5. \A o \in Storable : /\ offers[o] <= Cutoff + Since
                          /\ watchlist[o] <= Cutoff + Longest + Since
  BY <1>2, <1>3
<1> QED
  BY <1>1, <1>4, <1>5 DEF IInv

\* The ages of offers and copies keep their bounds in every behaviour.
THEOREM AgesBounded == Spec => []IInv
<1>1. Init => IInv
  BY InitIInv
<1>2. IInv /\ [Next]_vars => IInv'
  BY AgeStep
<1> QED
  BY <1>1, <1>2, PTL DEF Spec

\* A margin longer than MaxFails + 1 intervals keeps every offer of the catalog
\* below the license's age limit, whatever runs fail, MaxFails in a row at most.
\* RETENTION_MARGIN_S, 25 hours for runs 12 hours apart, covers one failure.
THEOREM OffersExpire ==
    ASSUME Margin > (MaxFails + 1) * Interval
    PROVE  Spec => []OffersInTime
<1>1. IInv => OffersInTime
  <2> SUFFICES ASSUME IInv, NEW o \in Storable
               PROVE  offers[o] < MaxAge
    BY DEF OffersInTime
  <2>1. Cutoff \in Nat /\ Longest \in Nat /\ Since \in Nat /\ Since <= Longest
    BY Bounds DEF IInv
  <2>2. offers[o] \in Int /\ offers[o] <= Cutoff + Since
    BY RetentionAssumption DEF IInv, TypeOK, Ages, NoRow
  <2>3. Margin > Longest /\ Cutoff = MaxAge - Margin
    BY DEF Longest, Cutoff
  <2> QED
    BY <2>1, <2>2, <2>3, RetentionAssumption
<1> QED
  BY <1>1, AgesBounded, PTL

\* The copies of add_watch need twice that margin: RETENTION_MARGIN_S keeps them
\* below the age limit when no run fails.
THEOREM WatchesExpire ==
    ASSUME Margin > 2 * ((MaxFails + 1) * Interval)
    PROVE  Spec => []WatchesInTime
<1>1. IInv => WatchesInTime
  <2> SUFFICES ASSUME IInv, NEW o \in Storable
               PROVE  watchlist[o] < MaxAge
    BY DEF WatchesInTime
  <2>1. Cutoff \in Nat /\ Longest \in Nat /\ Since \in Nat /\ Since <= Longest
    BY Bounds DEF IInv
  <2>2. watchlist[o] \in Int /\ watchlist[o] <= Cutoff + Longest + Since
    BY RetentionAssumption DEF IInv, TypeOK, Ages, NoRow
  <2>3. Margin > 2 * Longest /\ Cutoff = MaxAge - Margin
    BY DEF Longest, Cutoff
  <2> QED
    BY <2>1, <2>2, <2>3, RetentionAssumption
<1> QED
  BY <1>1, AgesBounded, PTL

\* Whatever the margin, the copies of add_watch outlive the cut-off by at most the
\* time of two successful runs.
THEOREM CopiesBounded == Spec => []WatchesBounded
<1>1. IInv => WatchesBounded
  <2> SUFFICES ASSUME IInv, NEW o \in Storable
               PROVE  watchlist[o] <= Cutoff + 2 * ((MaxFails + 1) * Interval)
    BY DEF WatchesBounded
  <2>1. Cutoff \in Nat /\ Longest \in Nat /\ Since \in Nat /\ Since <= Longest
    BY Bounds DEF IInv
  <2>2. watchlist[o] \in Int /\ watchlist[o] <= Cutoff + Longest + Since
    BY RetentionAssumption DEF IInv, TypeOK, Ages, NoRow
  <2>3. watchlist[o] <= Cutoff + 2 * Longest
    BY <2>1, <2>2
  <2> QED
    BY <2>3 DEF Longest
<1> QED
  BY <1>1, AgesBounded, PTL

-----------------------------------------------------------------------------
(* Rows that may not be stored.                                            *)

\* What add_watch has read is storable; with that, UnstorableStayGone is inductive.
ReadsAreStorable ==
    /\ TypeOK
    /\ \A w \in Threads : txn[w] # Idle => txn[w].offer \in Storable
    /\ UnstorableStayGone

\* Every step keeps it: a search writes storable offers only, add_watch copies a
\* storable offer even when a purge ran in between, and a purge drops the others.
LEMMA GoneStep == ReadsAreStorable /\ IInv /\ IInv' /\ [Next]_vars => ReadsAreStorable'
<1> SUFFICES ASSUME ReadsAreStorable, IInv, IInv', [Next]_vars PROVE ReadsAreStorable'
  OBVIOUS
<1>1. TypeOK /\ TypeOK'
  BY DEF IInv
<1>2. CASE Tick
  <2>1. \A o \in Offers : /\ offers[o] = NoRow => offers'[o] = NoRow
                          /\ watchlist[o] = NoRow => watchlist'[o] = NoRow
    BY <1>2 DEF Tick, Older
  <2> QED
    BY <1>1, <1>2, <2>1 DEF ReadsAreStorable, UnstorableStayGone, Tick
<1>3. CASE PurgeExpired
  <2>1. \A o \in Offers \ Storable : offers'[o] = NoRow /\ watchlist'[o] = NoRow
    BY <1>3 DEF PurgeExpired, Purged, Expired
  <2> QED
    BY <1>1, <1>3, <2>1 DEF ReadsAreStorable, UnstorableStayGone, PurgeExpired
<1>4. CASE PurgeFails
  BY <1>1, <1>4 DEF ReadsAreStorable, UnstorableStayGone, PurgeFails
<1>5. ASSUME NEW o \in Offers, Upsert(o) PROVE ReadsAreStorable'
  BY <1>1, <1>5 DEF ReadsAreStorable, UnstorableStayGone, Upsert, TypeOK
<1>6. ASSUME NEW o \in Offers, RemoveWatch(o) PROVE ReadsAreStorable'
  BY <1>1, <1>6 DEF ReadsAreStorable, UnstorableStayGone, RemoveWatch, TypeOK
<1>7. ASSUME NEW o \in Offers, NEW w \in Threads, ReadOffer(w, o) PROVE ReadsAreStorable'
  <2>1. \A v \in Threads : txn'[v] # Idle => txn'[v].offer \in Storable
    BY <1>1, <1>7 DEF ReadsAreStorable, ReadOffer, TypeOK
  <2> QED
    BY <1>1, <1>7, <2>1 DEF ReadsAreStorable, UnstorableStayGone, ReadOffer
<1>8. ASSUME NEW w \in Threads, InsertWatch(w) PROVE ReadsAreStorable'
  <2>1. \A v \in Threads : txn'[v] # Idle => txn'[v].offer \in Storable
    BY <1>1, <1>8 DEF ReadsAreStorable, InsertWatch, TypeOK
  <2>2. \A o \in Offers \ Storable : watchlist'[o] = watchlist[o]
    BY <1>1, <1>8 DEF ReadsAreStorable, InsertWatch, TypeOK
  <2> QED
    BY <1>1, <1>8, <2>1, <2>2 DEF ReadsAreStorable, UnstorableStayGone, InsertWatch
<1>9. CASE UNCHANGED vars
  BY <1>1, <1>9 DEF ReadsAreStorable, UnstorableStayGone, vars
<1> QED
  BY <1>2, <1>3, <1>4, <1>5, <1>6, <1>7, <1>8, <1>9 DEF Next

\* After the first successful run no row that may not be stored is ever there
\* again, for any number of offers, threads and failures.
THEOREM RowsStayGone == Spec => []UnstorableStayGone
<1>1. Init => ReadsAreStorable
  <2> SUFFICES ASSUME Init PROVE ReadsAreStorable
    OBVIOUS
  <2>1. TypeOK
    BY InitIInv DEF IInv
  <2> QED
    BY <2>1 DEF Init, ReadsAreStorable, UnstorableStayGone
<1>2. ReadsAreStorable /\ IInv /\ IInv' /\ [Next]_vars => ReadsAreStorable'
  BY GoneStep
<1>3. ReadsAreStorable => UnstorableStayGone
  BY DEF ReadsAreStorable
<1> QED
  BY <1>1, <1>2, <1>3, AgesBounded, PTL DEF Spec

=============================================================================
