----------------------------- MODULE FilterCache -----------------------------
(***************************************************************************)
(* The least recently used cache of filter results of src/cache.c: a fixed *)
(* array of records, of which one is in use when its last_used time is not *)
(* zero.  The calls are made the way step_pm_process and step_pm_clear     *)
(* make them, under the registry mutex: a result is added after a check    *)
(* that did not find it, with no other call in between.                    *)
(***************************************************************************)
EXTENDS Integers, FiniteSets

CONSTANTS
    DEPTH,          \* CONFIG_STEP_FILTER_CACHE_DEPTH
    Keys,           \* pairs of filter bits and handle
    Results,        \* results of an evaluation
    StartTime,      \* k_uptime_get() when the cache is first used
    MaxTime,        \* bound: the last time a call is made
    MaxCalls,       \* bound: the checks made
    MaxClears,      \* bound: how often the cache is cleared
    NULL

ASSUME FilterCacheAssumption ==
    /\ DEPTH \in Nat \ {0}
    /\ StartTime \in Nat
    /\ MaxTime \in Nat
    /\ MaxCalls \in Nat
    /\ MaxClears \in Nat
    /\ NULL \notin Keys \cup Results

VARIABLES
    recs,       \* step_cache_recs
    stats,      \* step_cache_stats_inst
    now,        \* the time of the last call, in milliseconds
    missed,     \* the key whose check failed and whose result is due, or NULL
    used        \* history: when each key was last asked for or added

cacheVars == <<recs, stats, now, missed, used>>

Slots == 0 .. DEPTH - 1
Empty == [key |-> NULL, result |-> NULL, last_used |-> 0]
Record == [key : Keys \cup {NULL}, result : Results \cup {NULL},
           last_used : Nat]

-----------------------------------------------------------------------------
(* Helpers.                                                                *)

InUse == {i \in Slots : recs[i].last_used # 0}

\* Mutant: the search starts at the second record.
FoundSkipsFirst(k) == {i \in InUse \ {0} : recs[i].key = k}

\* The slots in which step_cache_check finds a key; it takes the first.
Found(k) == {i \in InUse : recs[i].key = k}

IsFirst(i, S) == i \in S /\ \A j \in S : i <= j

\* The least recently used record: the first with the smallest time.
Oldest == {i \in InUse : \A j \in InUse :
                recs[i].last_used <= recs[j].last_used}

\* The times the next call can be made at: in the same millisecond or later.
Later == {now, now + 1}

\* Mutant: the time is not set.
StoredUntimed(i, k, r, t) ==
    recs' = [recs EXCEPT ![i] = [key |-> k, result |-> r, last_used |-> 0]]

\* A record is filled in.
Stored(i, k, r, t) ==
    recs' = [recs EXCEPT ![i] = [key |-> k, result |-> r, last_used |-> t]]

-----------------------------------------------------------------------------
Init ==
    /\ recs = [i \in Slots |-> Empty]
    /\ stats = [clear_calls |-> 0, check_calls |-> 0, add_calls |-> 0,
                matches |-> 0, removals |-> 0]
    /\ now = StartTime
    /\ missed = NULL
    /\ used = [k \in Keys |-> 0]

\* Mutant: a record that is found keeps its time.
CheckHitKeepsTime(k, i, t) ==
    /\ missed = NULL
    /\ stats.check_calls < MaxCalls
    /\ IsFirst(i, Found(k))
    /\ stats' = [stats EXCEPT !.check_calls = @ + 1, !.matches = @ + 1]
    /\ now' = t
    /\ used' = [used EXCEPT ![k] = t]
    /\ UNCHANGED <<recs, missed>>

\* step_cache_check with the key in the cache: its time is updated.
CheckHit(k, i, t) ==
    /\ missed = NULL
    /\ stats.check_calls < MaxCalls
    /\ IsFirst(i, Found(k))
    /\ recs' = [recs EXCEPT ![i].last_used = t]
    /\ stats' = [stats EXCEPT !.check_calls = @ + 1, !.matches = @ + 1]
    /\ now' = t
    /\ used' = [used EXCEPT ![k] = t]
    /\ UNCHANGED missed

\* step_cache_check without it: the caller evaluates the filters.
CheckMiss(k, t) ==
    /\ missed = NULL
    /\ stats.check_calls < MaxCalls
    /\ Found(k) = {}
    /\ stats' = [stats EXCEPT !.check_calls = @ + 1]
    /\ now' = t
    /\ missed' = k
    /\ UNCHANGED <<recs, used>>

\* step_cache_add into the first slot that is not in use.
AddFree(i, r, t) ==
    /\ missed # NULL
    /\ IsFirst(i, Slots \ InUse)
    /\ Stored(i, missed, r, t)
    /\ stats' = [stats EXCEPT !.add_calls = @ + 1]
    /\ now' = t
    /\ missed' = NULL
    /\ used' = [used EXCEPT ![missed] = t]

\* Mutant: a record is replaced although there is room.
AddEvictEarly(i, r, t) ==
    /\ missed # NULL
    /\ IsFirst(i, Oldest)
    /\ Stored(i, missed, r, t)
    /\ stats' = [stats EXCEPT !.add_calls = @ + 1]
    /\ now' = t
    /\ missed' = NULL
    /\ used' = [used EXCEPT ![missed] = t]

\* step_cache_add with every slot in use: in place of the oldest record.
AddEvict(i, r, t) ==
    /\ missed # NULL
    /\ InUse = Slots
    /\ IsFirst(i, Oldest)
    /\ Stored(i, missed, r, t)
    /\ stats' = [stats EXCEPT !.add_calls = @ + 1]
    /\ now' = t
    /\ missed' = NULL
    /\ used' = [used EXCEPT ![missed] = t]

\* step_cache_clear.
ClearCache ==
    /\ missed = NULL
    /\ stats.clear_calls < MaxClears
    /\ recs' = [i \in Slots |-> Empty]
    /\ stats' = [stats EXCEPT !.clear_calls = @ + 1]
    /\ UNCHANGED <<now, missed, used>>

Next ==
    \/ ClearCache
    \/ \E t \in Later :
          /\ t <= MaxTime
          /\ \/ \E k \in Keys, i \in Slots : CheckHit(k, i, t)
             \/ \E k \in Keys : CheckMiss(k, t)
             \/ \E i \in Slots, r \in Results :
                   AddFree(i, r, t) \/ AddEvict(i, r, t)

Spec == Init /\ [][Next]_cacheVars

-----------------------------------------------------------------------------
(* Properties.                                                             *)

TypeOK ==
    /\ recs \in [Slots -> Record]
    /\ stats \in [clear_calls : Nat, check_calls : Nat, add_calls : Nat,
                  matches : Nat, removals : Nat]
    /\ now \in Nat
    /\ missed \in Keys \cup {NULL}
    /\ used \in [Keys -> Nat]

\* No key is in two records in use, so which of them a check finds first does
\* not matter and an update never leaves an older result behind; the key whose
\* result is due is in none.  No record is from the future.
UniqueRecords ==
    /\ \A i, j \in InUse : recs[i].key = recs[j].key => i = j
    /\ \A i \in InUse : recs[i].key # missed
    /\ \A i \in Slots : recs[i].last_used <= now

\* The array of records implements a memo that forgets a key only to make room
\* when it is full.
Memo == INSTANCE LossyMemo WITH
            memo <- [k \in Keys |->
                        IF Found(k) = {} THEN NULL
                        ELSE recs[CHOOSE i \in Slots : i \in Found(k)].result]

MemoImplemented == Memo!Spec

\* cache.h: it is the least recently used record that makes room for a new one.
\* Two records used in the same millisecond are equally recent.
LeastRecentlyUsed ==
    [][\A i \in InUse :
          recs'[i].key # recs[i].key /\ recs'[i].key # NULL =>
              \A j \in InUse : used[recs[i].key] <= used[recs[j].key]]_cacheVars

\* cache.h: once step_cache_add has returned, a check finds the record, except
\* for one that is added in the first millisecond after boot, whose time reads
\* as an empty slot.
FoundAfterAdd ==
    [][missed # NULL /\ missed' = NULL /\ now' > 0 =>
          \E i \in Slots : recs'[i].key = missed /\ recs'[i].last_used # 0
      ]_cacheVars
=============================================================================
