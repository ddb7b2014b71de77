-------------------------- MODULE FilterCacheProofs --------------------------
(***************************************************************************)
(* The array of cache records never holds a key twice, and what makes room *)
(* is the record used longest ago, for every depth of the cache.  What     *)
(* makes uniqueness inductive is that a record in use has a key, so that   *)
(* the key whose result is due, which is in no record, takes a place of    *)
(* its own; what gives the order is that a record's time is the time its   *)
(* key was last used.  That the array is a memo rests on uniqueness too:   *)
(* the records in use are as many as the keys that have a result.          *)
(***************************************************************************)
EXTENDS FilterCache, FiniteSetTheorems, FunctionTheorems, TLAPS

IInv ==
    /\ TypeOK
    /\ UniqueRecords
    /\ \A i \in InUse : recs[i].key # NULL

LEMMA InitEstablishes == Init => IInv
  <1> SUFFICES ASSUME Init PROVE IInv
    OBVIOUS
  <1>1. InUse = {}
    BY DEF Init, InUse, Empty
  <1>2. TypeOK
    BY FilterCacheAssumption DEF Init, TypeOK, Record, Empty
  <1>3. \A i \in Slots : recs[i].last_used <= now
    BY FilterCacheAssumption DEF Init, Empty
  <1> QED
    BY <1>1, <1>2, <1>3 DEF IInv, UniqueRecords

LEMMA LaterIs ==
    ASSUME TypeOK, NEW t \in Later
    PROVE  t \in Nat /\ now <= t
  BY DEF TypeOK, Later

\* One record gets a time.
LEMMA CheckHitKeeps ==
    ASSUME IInv, NEW t \in Later, NEW k \in Keys, NEW i \in Slots,
           CheckHit(k, i, t)
    PROVE  IInv'
  <1> USE DEF IInv
  <1>1. t \in Nat /\ now <= t
    BY LaterIs
  <1>2. /\ recs' = [recs EXCEPT ![i].last_used = t]
        /\ now' = t /\ missed' = missed /\ used' = [used EXCEPT ![k] = t]
        /\ stats' = [stats EXCEPT !.check_calls = @ + 1, !.matches = @ + 1]
        /\ i \in InUse
    BY DEF CheckHit, IsFirst, Found
  <1>3. recs \in [Slots -> Record]
    BY DEF TypeOK
  <1>4. /\ recs' \in [Slots -> Record]
        /\ \A j \in Slots : recs'[j].key = recs[j].key
        /\ \A j \in Slots : recs'[j].last_used = IF j = i THEN t
                                                 ELSE recs[j].last_used
    <2> DEFINE rec == [recs[i] EXCEPT !.last_used = t]
    <2>1. recs[i] \in Record
      BY <1>3
    <2>2. rec \in Record /\ rec.key = recs[i].key /\ rec.last_used = t
      BY <1>1, <2>1 DEF Record
    <2>3. recs' = [recs EXCEPT ![i] = rec]
      BY <1>2
    <2> HIDE DEF rec
    <2> QED
      BY <1>3, <2>2, <2>3
  <1>5. InUse' \subseteq InUse
    BY <1>2, <1>4 DEF InUse
  <1>6. TypeOK'
    <2> DEFINE Stats == [clear_calls : Nat, check_calls : Nat,
                         add_calls : Nat, matches : Nat, removals : Nat]
    <2>1. stats \in Stats /\ now' \in Nat /\ missed' \in Keys \cup {NULL}
          /\ used' \in [Keys -> Nat]
      BY <1>1, <1>2 DEF TypeOK
    <2>2. [stats EXCEPT !.check_calls = @ + 1, !.matches = @ + 1] \in Stats
      <3>1. stats.check_calls + 1 \in Nat /\ stats.matches + 1 \in Nat
        BY <2>1
      <3> QED
        BY <2>1, <3>1
    <2> QED
      BY <1>2, <1>4, <2>1, <2>2 DEF TypeOK
  <1>7. \A j \in Slots : recs'[j].last_used <= t
    BY <1>1, <1>3, <1>4 DEF TypeOK, UniqueRecords, Record
  <1>8. InUse \subseteq Slots
    BY DEF InUse
  <1> QED
    BY <1>2, <1>4, <1>5, <1>6, <1>7, <1>8 DEF UniqueRecords

LEMMA CheckMissKeeps ==
    ASSUME IInv, NEW t \in Later, NEW k \in Keys, CheckMiss(k, t)
    PROVE  IInv'
  <1> USE DEF IInv
  <1>1. t \in Nat /\ now <= t
    BY LaterIs
  <1>2. /\ recs' = recs /\ now' = t /\ missed' = k /\ used' = used
        /\ stats' = [stats EXCEPT !.check_calls = @ + 1]
        /\ Found(k) = {}
    BY DEF CheckMiss
  <1>3. TypeOK'
    BY <1>1, <1>2 DEF TypeOK
  <1>4. InUse' = InUse
    BY <1>2 DEF InUse
  <1>5. \A j \in InUse : recs[j].key # k
    BY <1>2 DEF Found
  <1>6. \A j \in Slots : recs[j].last_used <= t
    BY <1>1 DEF TypeOK, UniqueRecords, Record
  <1> QED
    BY <1>2, <1>3, <1>4, <1>5, <1>6 DEF UniqueRecords

\* The key whose result is due goes into some record.
LEMMA StoredKeeps ==
    ASSUME IInv, NEW t \in Later, NEW i \in Slots, NEW r \in Results,
           missed # NULL, Stored(i, missed, r, t), now' = t, missed' = NULL,
           used' = [used EXCEPT ![missed] = t],
           stats' = [stats EXCEPT !.add_calls = @ + 1]
    PROVE  IInv'
  <1> USE DEF IInv
  <1>1. t \in Nat /\ now <= t
    BY LaterIs
  <1>2. recs \in [Slots -> Record] /\ missed \in Keys
    BY DEF TypeOK
  <1>3. DEFINE rec == [key |-> missed, result |-> r, last_used |-> t]
  <1>4. rec \in Record /\ rec.key = missed /\ rec.last_used = t
    BY <1>1, <1>2 DEF Record
  <1> HIDE DEF rec
  <1>5. recs' = [recs EXCEPT ![i] = rec]
    BY DEF Stored, rec
  <1>6. /\ recs' \in [Slots -> Record]
        /\ recs'[i] = rec
        /\ \A j \in Slots \ {i} : recs'[j] = recs[j]
    BY <1>2, <1>4, <1>5
  <1>7. TypeOK'
    <2>1. used' \in [Keys -> Nat]
      BY <1>1, <1>2 DEF TypeOK
    <2> QED
      BY <1>1, <1>6, <2>1 DEF TypeOK
  <1>8. /\ InUse \subseteq Slots
        /\ \A j \in InUse' : j = i \/ (j \in InUse /\ j # i /\ recs'[j] = recs[j])
    BY <1>6 DEF InUse
  <1>9. \A j \in InUse' : recs'[j].key # NULL
    BY <1>4, <1>6, <1>8
  <1>10. \A j, l \in InUse' : recs'[j].key = recs'[l].key => j = l
    BY <1>4, <1>6, <1>8 DEF UniqueRecords
  <1>11. \A j \in Slots : recs'[j].last_used <= t
    BY <1>1, <1>2, <1>4, <1>6 DEF TypeOK, UniqueRecords, Record
  <1> QED
    BY <1>7, <1>9, <1>10, <1>11 DEF UniqueRecords

LEMMA ClearCacheKeeps ==
    ASSUME IInv, ClearCache
    PROVE  IInv'
  <1> USE DEF IInv
  <1>1. /\ recs' = [i \in Slots |-> Empty] /\ UNCHANGED <<now, missed, used>>
        /\ stats' = [stats EXCEPT !.clear_calls = @ + 1]
    BY DEF ClearCache
  <1>2. Empty \in Record /\ Empty.last_used = 0
    BY DEF Record, Empty
  <1>3. InUse' = {}
    BY <1>1, <1>2 DEF InUse
  <1>4. recs' \in [Slots -> Record]
    BY <1>1, <1>2
  <1>5. TypeOK'
    BY <1>1, <1>4 DEF TypeOK
  <1>6. \A j \in Slots : recs'[j].last_used <= now'
    BY <1>1, <1>2 DEF TypeOK
  <1> QED
    BY <1>3, <1>5, <1>6 DEF UniqueRecords

LEMMA NextKeeps == IInv /\ [Next]_cacheVars => IInv'
  <1> SUFFICES ASSUME IInv, [Next]_cacheVars PROVE IInv'
    OBVIOUS
  <1>1. CASE UNCHANGED cacheVars
    BY <1>1 DEF cacheVars, IInv, TypeOK, UniqueRecords, InUse
  <1>2. CASE ClearCache
    BY <1>2, ClearCacheKeeps
  <1>3. ASSUME NEW t \in Later, NEW k \in Keys, NEW i \in Slots,
               CheckHit(k, i, t)
        PROVE  IInv'
    BY <1>3, CheckHitKeeps
  <1>4. ASSUME NEW t \in Later, NEW k \in Keys, CheckMiss(k, t)
        PROVE  IInv'
    BY <1>4, CheckMissKeeps
  <1>5. ASSUME NEW t \in Later, NEW i \in Slots, NEW r \in Results,
               AddFree(i, r, t) \/ AddEvict(i, r, t)
        PROVE  IInv'
    <2>1. /\ missed # NULL /\ Stored(i, missed, r, t) /\ now' = t
          /\ missed' = NULL /\ stats' = [stats EXCEPT !.add_calls = @ + 1]
      BY <1>5 DEF AddFree, AddEvict
    <2>2. used' = [used EXCEPT ![missed] = t]
      BY <1>5 DEF AddFree, AddEvict
    <2> QED
      BY <2>1, <2>2, StoredKeeps
  <1> QED
    BY <1>1, <1>2, <1>3, <1>4, <1>5 DEF Next

\* No key is in two records, and the key whose result is due is in none, in
\* every state of the cache (src/cache.c, step_cache_check and step_cache_add
\* as step_pm_process calls them).
THEOREM RecordsUnique == Spec => [](TypeOK /\ UniqueRecords)
  <1>1. Init => IInv
    BY InitEstablishes
  <1>2. IInv /\ [Next]_cacheVars => IInv'
    BY NextKeeps
  <1>3. IInv => TypeOK /\ UniqueRecords
    BY DEF IInv
  <1> QED
    BY <1>1, <1>2, <1>3, PTL DEF Spec

-----------------------------------------------------------------------------
(* The record that makes room.                                             *)

\* The time of a record in use is when its key was last used.
TimesAgree == \A i \in InUse : recs[i].last_used = used[recs[i].key]

LEMMA TimesAgreeKeeps ==
    ASSUME IInv, IInv', TimesAgree, [Next]_cacheVars
    PROVE  TimesAgree'
  <1>1. CASE UNCHANGED cacheVars
    BY <1>1 DEF cacheVars, TimesAgree, InUse
  <1>2. CASE ClearCache
    <2>1. InUse' = {}
      BY <1>2 DEF ClearCache, InUse, Empty
    <2> QED
      BY <2>1 DEF TimesAgree
  <1>3. ASSUME NEW t \in Later, NEW k \in Keys, NEW i \in Slots,
               CheckHit(k, i, t)
        PROVE  TimesAgree'
    <2>1. /\ recs' = [recs EXCEPT ![i].last_used = t]
          /\ used' = [used EXCEPT ![k] = t]
          /\ i \in InUse /\ recs[i].key = k
      BY <1>3 DEF CheckHit, IsFirst, Found
    <2>2. recs \in [Slots -> Record] /\ used \in [Keys -> Nat]
      BY DEF IInv, TypeOK
    <2>3. /\ \A j \in Slots \ {i} : recs'[j] = recs[j]
          /\ recs'[i].key = k /\ recs'[i].last_used = t
      <3>1. recs[i] \in Record
        BY <2>2
      <3> QED
        BY <2>1, <2>2, <3>1 DEF Record
    <2>4. ASSUME NEW j \in InUse', j # i
          PROVE  recs'[j].last_used = used'[recs'[j].key]
      <3>1. j \in InUse /\ recs'[j] = recs[j]
        BY <2>3, <2>4 DEF InUse
      <3>2. recs[j].key # k /\ recs[j].key # NULL
        BY <2>1, <2>4, <3>1 DEF IInv, UniqueRecords
      <3>3. recs[j].key \in Keys
        BY <2>2, <3>1, <3>2 DEF Record, InUse
      <3> QED
        BY <2>1, <2>2, <3>1, <3>2, <3>3 DEF TimesAgree
    <2>5. used'[k] = t
      BY <2>1, <2>2
    <2> QED
      BY <2>3, <2>4, <2>5 DEF TimesAgree
  <1>4. ASSUME NEW t \in Later, NEW k \in Keys, CheckMiss(k, t)
        PROVE  TimesAgree'
    BY <1>4 DEF CheckMiss, TimesAgree, InUse
  <1>5. ASSUME NEW t \in Later, NEW i \in Slots, NEW r \in Results,
               AddFree(i, r, t) \/ AddEvict(i, r, t)
        PROVE  TimesAgree'
    <2>1. /\ recs' = [recs EXCEPT ![i] = [key |-> missed, result |-> r,
                                          last_used |-> t]]
          /\ used' = [used EXCEPT ![missed] = t] /\ missed # NULL
      BY <1>5 DEF AddFree, AddEvict, Stored
    <2>2. recs \in [Slots -> Record] /\ used \in [Keys -> Nat]
          /\ missed \in Keys
      BY <2>1 DEF IInv, TypeOK
    <2>3. /\ \A j \in Slots \ {i} : recs'[j] = recs[j]
          /\ recs'[i].key = missed /\ recs'[i].last_used = t
      BY <2>1, <2>2
    <2>4. ASSUME NEW j \in InUse', j # i
          PROVE  recs'[j].last_used = used'[recs'[j].key]
      <3>1. j \in InUse /\ recs'[j] = recs[j]
        BY <2>3, <2>4 DEF InUse
      <3>2. recs[j].key # missed /\ recs[j].key # NULL
        BY <3>1 DEF IInv, UniqueRecords
      <3>3. recs[j].key \in Keys
        BY <2>2, <3>1, <3>2 DEF Record, InUse
      <3> QED
        BY <2>1, <2>2, <3>1, <3>2, <3>3 DEF TimesAgree
    <2>5. used'[missed] = t
      BY <2>1, <2>2
    <2> QED
      BY <2>3, <2>4, <2>5 DEF TimesAgree
  <1> QED
    BY <1>1, <1>2, <1>3, <1>4, <1>5 DEF Next

\* What a step replaces was used longest ago.
LEMMA ReplacedIsOldest ==
    ASSUME IInv, TimesAgree, [Next]_cacheVars, NEW i \in InUse,
           recs'[i].key # recs[i].key, recs'[i].key # NULL
    PROVE  \A j \in InUse : used[recs[i].key] <= used[recs[j].key]
  <1> USE DEF IInv
  <1>1. recs \in [Slots -> Record] /\ i \in Slots
    BY DEF TypeOK, InUse
  <1>2. ~(UNCHANGED cacheVars)
    BY DEF cacheVars
  <1>3. ~ClearCache
    BY <1>1 DEF ClearCache, Empty
  <1>4. ASSUME NEW t \in Later, NEW k \in Keys, NEW l \in Slots,
               CheckHit(k, l, t)
        PROVE  FALSE
    <2>1. recs' = [recs EXCEPT ![l].last_used = t]
      BY <1>4 DEF CheckHit
    <2>2. recs[i] \in Record
      BY <1>1
    <2> QED
      BY <1>1, <2>1, <2>2 DEF Record
  <1>5. ASSUME NEW t \in Later, NEW k \in Keys, CheckMiss(k, t)
        PROVE  FALSE
    BY <1>5 DEF CheckMiss
  <1>6. ASSUME NEW t \in Later, NEW l \in Slots, NEW r \in Results,
               Stored(l, missed, r, t)
        PROVE  l = i
    BY <1>1, <1>6 DEF Stored
  <1>7. ASSUME NEW t \in Later, NEW l \in Slots, NEW r \in Results,
               AddFree(l, r, t)
        PROVE  FALSE
    BY <1>6, <1>7 DEF AddFree, IsFirst
  <1>8. ASSUME NEW t \in Later, NEW l \in Slots, NEW r \in Results,
               AddEvict(l, r, t)
        PROVE  \A j \in InUse : recs[i].last_used <= recs[j].last_used
    BY <1>6, <1>8 DEF AddEvict, IsFirst, Oldest
  <1>9. \A j \in InUse : recs[i].last_used <= recs[j].last_used
    BY <1>2, <1>3, <1>4, <1>5, <1>7, <1>8 DEF Next
  <1> QED
    BY <1>9 DEF TimesAgree

\* A result that was added is in a record, unless it was added at time zero.
LEMMA AddedIsFound ==
    ASSUME IInv, [Next]_cacheVars, missed # NULL, missed' = NULL, now' > 0
    PROVE  \E i \in Slots : recs'[i].key = missed /\ recs'[i].last_used # 0
  <1>1. ~(UNCHANGED cacheVars) /\ ~ClearCache
    BY DEF cacheVars, ClearCache
  <1>2. \A t \in Later, k \in Keys, i \in Slots : ~CheckHit(k, i, t)
    BY DEF CheckHit
  <1>3. \A t \in Later, k \in Keys : ~CheckMiss(k, t)
    BY DEF CheckMiss
  <1>4. PICK t \in Later, i \in Slots, r \in Results :
            Stored(i, missed, r, t) /\ now' = t
    BY <1>1, <1>2, <1>3 DEF Next, AddFree, AddEvict
  <1>5. recs'[i].key = missed /\ recs'[i].last_used = t
    BY <1>4 DEF Stored, IInv, TypeOK
  <1>6. t \in Nat /\ t # 0
    BY <1>4, LaterIs DEF IInv
  <1> QED
    BY <1>5, <1>6

\* It is always a record used longest ago that makes room for another, and a
\* result that was added after the first millisecond is found (src/cache.c,
\* step_cache_add).
THEOREM OldestMakesRoom == Spec => LeastRecentlyUsed /\ FoundAfterAdd
  <1>1. Init => IInv /\ TimesAgree
    BY InitEstablishes DEF Init, TimesAgree, InUse, Empty
  <1>2. IInv /\ TimesAgree /\ [Next]_cacheVars => IInv' /\ TimesAgree'
    BY NextKeeps, TimesAgreeKeeps
  <1>3. IInv /\ TimesAgree /\ [Next]_cacheVars =>
            [\A i \in InUse :
                recs'[i].key # recs[i].key /\ recs'[i].key # NULL =>
                    \A j \in InUse :
                        used[recs[i].key] <= used[recs[j].key]]_cacheVars
    BY ReplacedIsOldest
  <1>4. IInv /\ TimesAgree /\ [Next]_cacheVars =>
            [missed # NULL /\ missed' = NULL /\ now' > 0 =>
                \E i \in Slots : recs'[i].key = missed
                                 /\ recs'[i].last_used # 0]_cacheVars
    BY AddedIsFound
  <1> QED
    BY <1>1, <1>2, <1>3, <1>4, PTL
       DEF Spec, LeastRecentlyUsed, FoundAfterAdd

\* For every depth of the cache: a check finds what was just added, except in
\* the first millisecond after boot (src/cache.c: step_cache_add).
THEOREM NewestIsFound == Spec => FoundAfterAdd
  BY OldestMakesRoom, PTL

-----------------------------------------------------------------------------
(* The memo the records stand for.                                         *)

\* A record in use holds a result.
HaveResults == \A i \in InUse : recs[i].result \in Results

LEMMA HaveResultsKeeps ==
    ASSUME IInv, HaveResults, [Next]_cacheVars
    PROVE  HaveResults'
  <1>1. recs \in [Slots -> Record]
    BY DEF IInv, TypeOK
  <1>2. CASE recs' = recs
    BY <1>2 DEF HaveResults, InUse
  <1>3. CASE ClearCache
    BY <1>3 DEF ClearCache, HaveResults, InUse, Empty
  <1>4. ASSUME NEW t \in Later, NEW k \in Keys, NEW i \in Slots,
               CheckHit(k, i, t)
        PROVE  HaveResults'
    <2>1. recs' = [recs EXCEPT ![i].last_used = t] /\ i \in InUse
      BY <1>4 DEF CheckHit, IsFirst, Found
    <2>2. \A j \in Slots : recs'[j].result = recs[j].result
      <3>1. recs[i] \in Record
        BY <1>1
      <3> QED
        BY <1>1, <2>1, <3>1 DEF Record
    <2>3. InUse' \subseteq InUse /\ InUse \subseteq Slots
      BY <1>1, <2>1 DEF InUse
    <2> QED
      BY <2>2, <2>3 DEF HaveResults
  <1>5. ASSUME NEW t \in Later, NEW i \in Slots, NEW r \in Results,
               Stored(i, missed, r, t)
        PROVE  HaveResults'
    BY <1>1, <1>5 DEF Stored, HaveResults, InUse
  <1> QED
    BY <1>2, <1>3, <1>4, <1>5
       DEF Next, CheckMiss, AddFree, AddEvict, cacheVars

MemoInv == IInv /\ HaveResults

\* The memo itself, as FilterCache states it.
memoOf == [k \in Keys |->
              IF Found(k) = {} THEN NULL
              ELSE recs[CHOOSE i \in Slots : i \in Found(k)].result]

\* It has the result of every record in use under that record's key, and no
\* other.
MemoIs ==
    /\ memoOf \in [Keys -> Results \cup {NULL}]
    /\ \A i \in InUse : /\ i \in Slots /\ recs[i].key \in Keys
                        /\ memoOf[recs[i].key] = recs[i].result
                        /\ memoOf[recs[i].key] # NULL
    /\ \A k \in Keys : memoOf[k] # NULL => \E i \in InUse : recs[i].key = k
    /\ \A i, j \in InUse : recs[i].key = recs[j].key => i = j
    /\ missed # NULL => missed \in Keys /\ memoOf[missed] = NULL

LEMMA MemoReads == MemoInv => MemoIs
  <1> SUFFICES ASSUME MemoInv PROVE MemoIs
    OBVIOUS
  <1> USE FilterCacheAssumption
  <1>1. /\ InUse \subseteq Slots /\ recs \in [Slots -> Record]
        /\ missed \in Keys \cup {NULL}
    BY DEF MemoInv, IInv, TypeOK, InUse
  <1>2. \A i \in InUse : recs[i].key \in Keys /\ recs[i].result \in Results
    BY <1>1 DEF MemoInv, IInv, HaveResults, Record
  <1>3. \A i, j \in InUse : recs[i].key = recs[j].key => i = j
    BY DEF MemoInv, IInv, UniqueRecords
  <1>4. ASSUME NEW i \in InUse
        PROVE  memoOf[recs[i].key] = recs[i].result
    <2>1. Found(recs[i].key) = {i}
      BY <1>3, <1>4 DEF Found
    <2>2. (CHOOSE j \in Slots : j \in Found(recs[i].key)) = i
      BY <1>1, <2>1
    <2> QED
      BY <1>2, <2>1, <2>2 DEF memoOf
  <1>5. ASSUME NEW k \in Keys, Found(k) = {}
        PROVE  memoOf[k] = NULL
    BY <1>5 DEF memoOf
  <1>6. \A k \in Keys : Found(k) # {} => \E i \in InUse : recs[i].key = k
    BY DEF Found
  <1>7. memoOf \in [Keys -> Results \cup {NULL}]
    <2>1. ASSUME NEW k \in Keys
          PROVE  memoOf[k] \in Results \cup {NULL}
      BY <1>2, <1>4, <1>5, <1>6
    <2>2. memoOf = [k \in Keys |-> memoOf[k]]
      BY DEF memoOf
    <2> QED
      BY <2>1, <2>2
  <1>8. missed # NULL => missed \in Keys /\ memoOf[missed] = NULL
    <2>1. ASSUME missed # NULL
          PROVE  missed \in Keys /\ Found(missed) = {}
      BY <1>1, <2>1 DEF MemoInv, IInv, UniqueRecords, Found
    <2> QED
      BY <1>5, <2>1
  <1> QED
    BY <1>1, <1>2, <1>3, <1>4, <1>5, <1>6, <1>7, <1>8 DEF MemoIs

\* There are as many keys with a result as records in use: DEPTH when every
\* record is, and fewer otherwise.
LEMMA KnownCount ==
    ASSUME MemoIs
    PROVE  /\ InUse = Slots => Memo!Cardinality(Memo!Known) = DEPTH
           /\ InUse # Slots => Memo!Cardinality(Memo!Known) < DEPTH
  <1>1. PICK U, S, D : U = InUse /\ S = Slots /\ D = Memo!Known
    OBVIOUS
  <1>2. PICK f : f = [i \in U |-> recs[i].key]
    OBVIOUS
  <1>3. \A k : (k \in D) <=> k \in Keys /\ memoOf[k] # NULL
    BY <1>1, Zenon DEF Memo!Known, memoOf
  <1>4. f \in Bijection(U, D)
    <2>1. f \in [U -> D] /\ \A i, j \in U : f[i] = f[j] => i = j
      BY <1>1, <1>2, <1>3 DEF MemoIs
    <2>2. \A k \in D : \E i \in U : f[i] = k
      BY <1>1, <1>2, <1>3 DEF MemoIs
    <2> QED
      BY <2>1, <2>2, Fun_IsBij
  <1>5. IsFiniteSet(S) /\ Cardinality(S) = DEPTH
    BY <1>1, FS_Interval, FilterCacheAssumption DEF Slots
  <1>6. U \in SUBSET S
    BY <1>1 DEF InUse
  <1>7. /\ IsFiniteSet(U) /\ Cardinality(U) <= DEPTH
        /\ Cardinality(U) = DEPTH => U = S
    BY <1>5, <1>6, FS_Subset
  <1>8. Cardinality(D) = Cardinality(U)
    <2>1. ExistsBijection(U, D)
      BY <1>4 DEF ExistsBijection
    <2> QED
      BY <1>7, <2>1, FS_Bijection
  <1>9. Cardinality(U) \in Nat /\ DEPTH \in Nat
    BY <1>7, FS_CardinalityType, FilterCacheAssumption
  <1>10. Memo!Cardinality(D) = Cardinality(D)
    BY Zenon DEF Memo!Cardinality, Cardinality
  <1> QED
    BY <1>1, <1>5, <1>7, <1>8, <1>9, <1>10

\* The memo changes with the records in use only.
LEMMA SameMemo ==
    ASSUME MemoIs, MemoIs', InUse' = InUse,
           \A i \in InUse : recs'[i].key = recs[i].key
                            /\ recs'[i].result = recs[i].result
    PROVE  memoOf' = memoOf
  <1>1. \A k \in Keys : memoOf'[k] = memoOf[k]
    BY DEF MemoIs
  <1>2. memoOf' \in [Keys -> Results \cup {NULL}]
        /\ memoOf \in [Keys -> Results \cup {NULL}]
    BY DEF MemoIs
  <1> QED
    BY <1>1, <1>2

LEMMA HitLeavesMemo ==
    ASSUME MemoInv, MemoIs, MemoIs', NEW t \in Later, NEW k \in Keys,
           NEW i \in Slots, CheckHit(k, i, t)
    PROVE  memoOf' = memoOf
  <1>1. /\ recs' = [recs EXCEPT ![i].last_used = t]
        /\ i \in InUse
    BY DEF CheckHit, IsFirst, Found
  <1>2. recs \in [Slots -> Record] /\ recs[i] \in Record /\ t \in Nat
        /\ now <= t /\ recs[i].last_used <= now /\ now \in Nat
    BY LaterIs DEF MemoInv, IInv, TypeOK, UniqueRecords
  <1>3. t # 0
    <2>1. recs[i].last_used \in Nat /\ recs[i].last_used # 0
      BY <1>1, <1>2 DEF Record, InUse
    <2> QED
      BY <1>2, <2>1
  <1>4. /\ \A j \in Slots \ {i} : recs'[j] = recs[j]
        /\ recs'[i].key = recs[i].key /\ recs'[i].result = recs[i].result
        /\ recs'[i].last_used = t
    BY <1>1, <1>2 DEF Record
  <1>5. InUse' = InUse
    BY <1>1, <1>3, <1>4 DEF InUse
  <1> QED
    BY <1>1, <1>4, <1>5, SameMemo DEF InUse

\* What a record that is filled in after the first millisecond does to the memo.
LEMMA StoredChangesMemo ==
    ASSUME MemoInv, MemoIs, MemoIs', NEW t \in Nat \ {0}, NEW i \in Slots,
           NEW r \in Results, Stored(i, missed, r, t), missed # NULL
    PROVE  memoOf' = [k \in Keys |->
                         IF k = missed THEN r
                         ELSE IF i \in InUse /\ k = recs[i].key THEN NULL
                         ELSE memoOf[k]]
  <1>1. recs \in [Slots -> Record] /\ missed \in Keys
    BY DEF MemoInv, IInv, TypeOK, MemoIs
  <1>2. /\ \A j \in Slots \ {i} : recs'[j] = recs[j]
        /\ recs'[i].key = missed /\ recs'[i].result = r
        /\ recs'[i].last_used = t
    BY <1>1 DEF Stored
  <1>3. InUse' = InUse \cup {i} /\ InUse \subseteq Slots
    BY <1>2 DEF InUse
  <1>4. memoOf'[missed] = r
    BY <1>2, <1>3 DEF MemoIs
  <1>5. \A j \in InUse : recs[j].key # missed
    BY DEF MemoInv, IInv, UniqueRecords
  <1>6. ASSUME NEW k \in Keys, k # missed, i \in InUse, k = recs[i].key
        PROVE  memoOf'[k] = NULL
    <2>1. \A j \in InUse' : recs'[j].key # k
      BY <1>2, <1>3, <1>6 DEF MemoIs
    <2> QED
      BY <2>1 DEF MemoIs
  <1>7. ASSUME NEW k \in Keys, k # missed, ~(i \in InUse /\ k = recs[i].key)
        PROVE  memoOf'[k] = memoOf[k]
    <2>1. CASE \E j \in InUse : recs[j].key = k
      <3>1. PICK j \in InUse : recs[j].key = k
        BY <2>1
      <3>2. j # i /\ j \in InUse' /\ recs'[j] = recs[j]
        BY <1>2, <1>3, <1>7, <3>1
      <3> QED
        BY <3>1, <3>2 DEF MemoIs
    <2>2. CASE ~ \E j \in InUse : recs[j].key = k
      <3>1. \A j \in InUse' : recs'[j].key # k
        BY <1>2, <1>3, <1>7, <2>2
      <3> QED
        BY <2>2, <3>1 DEF MemoIs
    <2> QED
      BY <2>1, <2>2
  <1>8. memoOf' \in [Keys -> Results \cup {NULL}]
    BY DEF MemoIs
  <1> QED
    BY <1>4, <1>6, <1>7, <1>8

LEMMA AddFreeRemembers ==
    ASSUME MemoInv, MemoIs, MemoIs', NEW t \in Later, NEW i \in Slots,
           NEW r \in Results, AddFree(i, r, t)
    PROVE  memoOf' = memoOf \/ Memo!Next
  <1>1. /\ missed # NULL /\ missed \in Keys /\ memoOf[missed] = NULL
        /\ i \notin InUse /\ Stored(i, missed, r, t)
    BY DEF AddFree, IsFirst, MemoIs
  <1>2. t \in Nat /\ now <= t
    BY LaterIs DEF MemoInv, IInv
  <1>3. CASE t = 0
    <2>1. InUse = {}
      BY <1>2, <1>3 DEF MemoInv, IInv, TypeOK, UniqueRecords, InUse, Record
    <2>2. \A j \in Slots : recs'[j].last_used = 0
      BY <1>1, <1>3, <2>1 DEF Stored, MemoInv, IInv, TypeOK, InUse
    <2>3. InUse' = {}
      BY <2>2 DEF InUse
    <2> QED
      BY <2>1, <2>3, SameMemo
  <1>4. CASE t # 0
    <2>1. memoOf' = [memoOf EXCEPT ![missed] = r]
      <3>1. memoOf' = [k \in Keys |-> IF k = missed THEN r ELSE memoOf[k]]
        BY <1>1, <1>2, <1>4, StoredChangesMemo
      <3> QED
        BY <1>1, <3>1 DEF MemoIs
    <2>2. Memo!Cardinality(Memo!Known) < DEPTH
      BY <1>1, KnownCount
    <2>3. PICK k \in Keys : k = missed
      BY <1>1
    <2>4. Memo!Remember(k, r)
      BY <1>1, <2>1, <2>2, <2>3, Zenon DEF Memo!Remember, memoOf
    <2> QED
      BY <2>4 DEF Memo!Next
  <1> QED
    BY <1>3, <1>4

LEMMA AddEvictReplaces ==
    ASSUME MemoInv, MemoIs, MemoIs', NEW t \in Later, NEW i \in Slots,
           NEW r \in Results, AddEvict(i, r, t)
    PROVE  Memo!Next
  <1>1. /\ missed # NULL /\ missed \in Keys /\ memoOf[missed] = NULL
        /\ InUse = Slots /\ i \in InUse /\ Stored(i, missed, r, t)
    BY DEF AddEvict, IsFirst, Oldest, MemoIs
  <1>2. t \in Nat /\ t # 0
    <2>1. t \in Nat /\ now <= t
      BY LaterIs DEF MemoInv, IInv
    <2>2. /\ recs[i].last_used \in Nat /\ recs[i].last_used # 0
          /\ recs[i].last_used <= now /\ now \in Nat
      BY <1>1 DEF MemoInv, IInv, TypeOK, UniqueRecords, Record, InUse
    <2> QED
      BY <2>1, <2>2
  <1>3. PICK k \in Keys, lost \in Keys : k = missed /\ lost = recs[i].key
    BY <1>1 DEF MemoIs
  <1>4. k # lost /\ memoOf[lost] # NULL
    BY <1>1, <1>3 DEF MemoIs
  <1>5. memoOf' = [memoOf EXCEPT ![k] = r, ![lost] = NULL]
    <2>1. memoOf' = [x \in Keys |-> IF x = k THEN r
                                    ELSE IF x = lost THEN NULL
                                    ELSE memoOf[x]]
      BY <1>1, <1>2, <1>3, StoredChangesMemo
    <2>2. memoOf \in [Keys -> Results \cup {NULL}]
      BY DEF MemoIs
    <2> QED
      BY <1>3, <1>4, <2>1, <2>2
  <1>6. Memo!Cardinality(Memo!Known) = DEPTH
    BY <1>1, KnownCount
  <1>7. lost \in Memo!Known
    BY <1>4, Zenon DEF Memo!Known, memoOf
  <1>8. Memo!Replace(k, lost, r)
    BY <1>1, <1>3, <1>5, <1>6, <1>7, Zenon DEF Memo!Replace, memoOf
  <1> QED
    BY <1>8 DEF Memo!Next

LEMMA MemoStep ==
    ASSUME MemoInv, MemoIs, MemoIs', [Next]_cacheVars
    PROVE  memoOf' = memoOf \/ Memo!Next
  <1>1. CASE recs' = recs
    <2>1. InUse' = InUse
      BY <1>1 DEF InUse
    <2> QED
      BY <1>1, <2>1, SameMemo
  <1>2. CASE ClearCache
    <2>1. InUse' = {}
      BY <1>2 DEF ClearCache, InUse, Empty
    <2>2. memoOf' = [k \in Keys |-> NULL]
      BY <2>1 DEF MemoIs
    <2>3. Memo!Forget
      BY <2>2 DEF Memo!Forget, memoOf
    <2> QED
      BY <2>3 DEF Memo!Next
  <1> QED
    BY <1>1, <1>2, HitLeavesMemo, AddFreeRemembers, AddEvictReplaces
       DEF Next, CheckMiss, cacheVars

\* The array of records is a memo of the results put into it: it forgets one
\* only to make room when all its records are in use, and never answers with
\* another (src/cache.c, step_cache_check and step_cache_add).
THEOREM CacheIsMemo == Spec => MemoImplemented
  <1>1. Init => MemoInv
    BY InitEstablishes DEF Init, MemoInv, HaveResults, InUse, Empty
  <1>2. MemoInv /\ [Next]_cacheVars => MemoInv'
    BY NextKeeps, HaveResultsKeeps DEF MemoInv
  <1>3. MemoInv => MemoIs
    BY MemoReads
  <1>4. Init => Memo!Init
    <2> SUFFICES ASSUME Init PROVE Memo!Init
      OBVIOUS
    <2>1. InUse = {}
      BY DEF Init, InUse, Empty
    <2>2. \A k \in Keys : Found(k) = {}
      BY <2>1 DEF Found
    <2> QED
      BY <2>2 DEF Memo!Init
  <1>5. MemoInv /\ MemoIs /\ MemoIs' /\ [Next]_cacheVars
            => [Memo!Next]_memoOf
    BY MemoStep
  <1>6. MemoImplemented <=> Memo!Init /\ [][Memo!Next]_memoOf
    BY DEF MemoImplemented, Memo!Spec, memoOf
  <1> QED
    BY <1>1, <1>2, <1>3, <1>4, <1>5, <1>6, PTL DEF Spec
=============================================================================
