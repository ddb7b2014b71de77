----------------------------- MODULE SamplePool -----------------------------
(***************************************************************************)
(* The sample pool of src/sample_pool.c: measurements allocated from and   *)
(* freed to a shared heap by several threads, the mutex step_sp_alloc_mtx  *)
(* that protects the byte count, and the statistics.                       *)
(*                                                                         *)
(* A call of step_sp_alloc or step_sp_free is several steps, since the     *)
(* call counters are incremented before the mutex is taken: each           *)
(* increment is a load and a store.  Any thread may free a block: producers *)
(* allocate, and the processing thread frees what they have queued.        *)
(*                                                                         *)
(* The payload of a block does not lie just behind its struct, as the code *)
(* has it in a comment: `mes + sizeof(struct step_measurement)` counts in  *)
(* structs.  What is written there reaches the headers of other blocks, and *)
(* step_sp_free counts by the length it finds in one.  The model follows   *)
(* it into the lengths of live blocks, and not into the heap's own records *)
(* or the memory behind the heap.                                          *)
(***************************************************************************)
EXTENDS Integers, FiniteSets

CONSTANTS
    Threads,    \* the threads that call the pool
    MES_SIZE,   \* sizeof(struct step_measurement)
    POOL_SIZE,  \* the bytes the heap can hand out
    Sizes,      \* the payload sizes the application asks for
    Lengths,    \* the lengths the application's writes leave in a header
    MaxCalls,   \* bound: the allocations each thread asks for
    NULL

\* The two lengths of a live block.
Block == [size : Nat, len : Nat]

\* struct step_sp_stats.  Its fields have 32 bits in the code, which the
\* bounded number of calls never fills.
Stats == [bytes_alloc : Int, bytes_alloc_total : Nat, bytes_freed_total : Nat,
          pool_alloc_calls : Nat, pool_free_calls : Nat]

ASSUME SamplePoolAssumption ==
    /\ MES_SIZE \in Nat \ {0}
    /\ POOL_SIZE \in Nat
    /\ Sizes \subseteq Nat
    /\ Lengths \subseteq Nat
    /\ MaxCalls \in Nat
    /\ NULL \notin Threads \cup Block

VARIABLES
    mtx,    \* step_sp_alloc_mtx: its owner, or NULL, and its lock count
    heap,   \* step_elem_pool: the size asked for each block and its header.len
    stats,  \* step_sp_stats_inst
    pc,     \* where each thread is in its call
    arg,    \* the argument of the call: a size for alloc, a block for free
    seen,   \* the call counter a thread has loaded and not yet stored, or 0
    calls,  \* history: the calls of step_sp_alloc each thread has begun
    shorter, \* history: TRUE once a header has been given a shorter length
    struck   \* history: TRUE once a payload has overwritten another's header

pool == <<mtx, heap, stats, pc, arg, seen, calls, shorter, struck>>

-----------------------------------------------------------------------------
(* Helpers.                                                                *)

\* The addresses at which a block can start: the heap aligns them.
Addrs == {a \in 0 .. POOL_SIZE - 1 : a % 8 = 0}

\* The bytes a measurement with len bytes of payload is counted as.
Counted(len) == len + MES_SIZE + (8 - ((len + MES_SIZE) % 8))

\* The bytes the heap takes for it: whole units of 8 bytes.
HeapBytes(sz) == ((sz + MES_SIZE + 7) \div 8) * 8

\* Blocks are identified by their addresses; heap maps an address that starts
\* no live block to NULL.
Live == {a \in Addrs : heap[a] # NULL}

\* External, k_heap_alloc with K_NO_WAIT: a gap of the size asked for.
HeapFits(a, sz) ==
    /\ a + HeapBytes(sz) <= POOL_SIZE
    /\ \A b \in Live : \/ b + HeapBytes(heap[b].size) <= a
                       \/ a + HeapBytes(sz) <= b

\* The live blocks whose struct is reached by sz bytes of payload of the block
\* at a, which begin sizeof structs behind it.
Struck(a, sz) ==
    LET payload == a + MES_SIZE * MES_SIZE
    IN  {b \in Live : sz > 0 /\ payload < b + MES_SIZE /\ b < payload + sz}

\* The heap when the headers of some live blocks hold the length l.
WithLength(addrs, l) ==
    [b \in Addrs |-> IF b \in addrs THEN [heap[b] EXCEPT !.len = l] ELSE heap[b]]

\* External, k_mutex_lock and k_mutex_unlock: the owner may lock again.
CanLock(t) == mtx.owner \in {NULL, t}
Locked(t) == [owner |-> t, count |-> mtx.count + 1]
Unlocked == IF mtx.count = 1 THEN [owner |-> NULL, count |-> 0]
            ELSE [mtx EXCEPT !.count = @ - 1]

\* Thread t goes from one place in its call to another.
Go(t, from, to) == pc[t] = from /\ pc' = [pc EXCEPT ![t] = to]

\* Blocks a thread is handing out or has been asked to free.
InCall == {"alloc_return", "free_count", "free_lock", "free_stat", "free_heap"}
Busy == {arg[t] : t \in {u \in Threads : pc[u] \in InCall}}

-----------------------------------------------------------------------------
Init ==
    /\ mtx = [owner |-> NULL, count |-> 0]
    /\ heap = [a \in Addrs |-> NULL]
    /\ stats = [bytes_alloc |-> 0, bytes_alloc_total |-> 0,
                bytes_freed_total |-> 0,
                pool_alloc_calls |-> 0, pool_free_calls |-> 0]
    /\ pc = [t \in Threads |-> "idle"]
    /\ arg = [t \in Threads |-> 0]
    /\ seen = [t \in Threads |-> 0]
    /\ calls = [t \in Threads |-> 0]
    /\ shorter = FALSE
    /\ struck = FALSE

\* step_sp_alloc is called and loads pool_alloc_calls.
AllocCall(t, sz) ==
    /\ Go(t, "idle", "alloc_count")
    /\ calls[t] < MaxCalls
    /\ calls' = [calls EXCEPT ![t] = @ + 1]
    /\ arg' = [arg EXCEPT ![t] = sz]
    /\ seen' = [seen EXCEPT ![t] = stats.pool_alloc_calls]
    /\ UNCHANGED <<mtx, heap, stats, shorter, struck>>

AllocCount(t) ==
    /\ Go(t, "alloc_count", "alloc_lock")
    /\ stats' = [stats EXCEPT !.pool_alloc_calls = seen[t] + 1]
    /\ seen' = [seen EXCEPT ![t] = 0]
    /\ UNCHANGED <<mtx, heap, arg, calls, shorter, struck>>

AllocLock(t) ==
    /\ Go(t, "alloc_lock", "alloc_heap")
    /\ CanLock(t)
    /\ mtx' = Locked(t)
    /\ UNCHANGED <<heap, stats, arg, seen, calls, shorter, struck>>

\* The heap has no room: the call returns NULL, and returns with the mutex.
AllocFails(t) ==
    /\ Go(t, "alloc_heap", "idle")
    /\ \A a \in Addrs : ~HeapFits(a, arg[t])
    /\ UNCHANGED <<mtx, heap, stats, arg, seen, calls, shorter, struck>>

\* The heap hands out a block.  Its header is written before the mutex is
\* released, so the length is there as soon as anyone can read it, and the
\* payload is zeroed: with it the lengths of some of the blocks it strikes,
\* as their structs are hit at the length or beside it.
AllocHeap(t) ==
    /\ Go(t, "alloc_heap", "alloc_return")
    /\ \E a \in Addrs :
          /\ HeapFits(a, arg[t])
          /\ arg' = [arg EXCEPT ![t] = a]
          /\ \E zeroed \in SUBSET Struck(a, arg[t]) :
                /\ heap' = [WithLength(zeroed, 0) EXCEPT
                               ![a] = [size |-> arg[t], len |-> arg[t]]]
                /\ struck' = (struck \/ zeroed # {})
    /\ UNCHANGED <<mtx, stats, seen, calls, shorter>>

\* The bytes are counted and the mutex released.
AllocReturn(t) ==
    LET bytes == Counted(heap[arg[t]].size)
    IN  /\ Go(t, "alloc_return", "idle")
        /\ stats' = [stats EXCEPT !.bytes_alloc = @ + bytes,
                                  !.bytes_alloc_total = @ + bytes]
        /\ mtx' = Unlocked
        /\ UNCHANGED <<heap, arg, seen, calls, shorter, struck>>

\* step_sp_free is called and loads pool_free_calls.
FreeCall(t, a) ==
    /\ Go(t, "idle", "free_count")
    /\ a \in Live \ Busy
    /\ arg' = [arg EXCEPT ![t] = a]
    /\ seen' = [seen EXCEPT ![t] = stats.pool_free_calls]
    /\ UNCHANGED <<mtx, heap, stats, calls, shorter, struck>>

FreeCount(t) ==
    /\ Go(t, "free_count", "free_lock")
    /\ stats' = [stats EXCEPT !.pool_free_calls = seen[t] + 1]
    /\ seen' = [seen EXCEPT ![t] = 0]
    /\ UNCHANGED <<mtx, heap, arg, calls, shorter, struck>>

\* Mutant: the mutex is not taken.
FreeLockMissing(t) ==
    /\ Go(t, "free_lock", "free_stat")
    /\ UNCHANGED <<mtx, heap, stats, arg, seen, calls, shorter, struck>>

FreeLock(t) ==
    /\ Go(t, "free_lock", "free_stat")
    /\ CanLock(t)
    /\ mtx' = Locked(t)
    /\ UNCHANGED <<heap, stats, arg, seen, calls, shorter, struck>>

\* Mutants: the bytes are uncounted as the heap rounds them; the block goes back
\* to the heap before its length is read.
FreeStatRounded(t) ==
    LET bytes == HeapBytes(heap[arg[t]].len)
    IN  /\ Go(t, "free_stat", "free_heap")
        /\ stats' = [stats EXCEPT !.bytes_alloc = @ - bytes,
                                  !.bytes_freed_total = @ + bytes]
        /\ UNCHANGED <<mtx, heap, arg, seen, calls, shorter, struck>>

FreeStatAfterFree(t) ==
    /\ Go(t, "free_stat", "free_heap")
    /\ heap' = [heap EXCEPT ![arg[t]] = NULL]
    /\ UNCHANGED <<mtx, stats, arg, seen, calls, shorter, struck>>

\* The bytes are uncounted, by the length the header holds now.
FreeStat(t) ==
    LET bytes == Counted(heap[arg[t]].len)
    IN  /\ Go(t, "free_stat", "free_heap")
        /\ stats' = [stats EXCEPT !.bytes_alloc = @ - bytes,
                                  !.bytes_freed_total = @ + bytes]
        /\ UNCHANGED <<mtx, heap, arg, seen, calls, shorter, struck>>

\* Mutant: the mutex stays locked, as it does when an allocation fails.
FreeReturnLocked(t) ==
    /\ Go(t, "free_heap", "idle")
    /\ heap' = [heap EXCEPT ![arg[t]] = NULL]
    /\ UNCHANGED <<mtx, stats, arg, seen, calls, shorter, struck>>

\* The block goes back to the heap and the mutex is released.
FreeReturn(t) ==
    /\ Go(t, "free_heap", "idle")
    /\ heap' = [heap EXCEPT ![arg[t]] = NULL]
    /\ mtx' = Unlocked
    /\ UNCHANGED <<stats, arg, seen, calls, shorter, struck>>

\* External, the application: it fills in the header of a block it was given,
\* and may find it has fewer bytes of payload than it asked for.  Bound: once.
WriteHeader(a, l) ==
    /\ ~shorter
    /\ a \in Live \ Busy
    /\ l < heap[a].size
    /\ heap' = WithLength({a}, l)
    /\ shorter' = TRUE
    /\ UNCHANGED <<mtx, stats, pc, arg, seen, calls, struck>>

\* External, the application: it writes the payload of a block it was given,
\* and any length into another block's header.  Bound: until one was struck.
WritePayload(a, l) ==
    /\ ~struck
    /\ a \in Live \ Busy
    /\ \E b \in Struck(a, heap[a].size) : heap' = WithLength({b}, l)
    /\ struck' = TRUE
    /\ UNCHANGED <<mtx, stats, pc, arg, seen, calls, shorter>>

Lock(t) == AllocLock(t) \/ FreeLock(t)

\* The steps of a call that wait for nobody.
Proceed(t) ==
    \/ AllocCount(t) \/ AllocFails(t) \/ AllocHeap(t) \/ AllocReturn(t)
    \/ FreeCount(t) \/ FreeStat(t) \/ FreeReturn(t)

Next ==
    \/ \E t \in Threads : Lock(t) \/ Proceed(t)
    \/ \E t \in Threads, sz \in Sizes : AllocCall(t, sz)
    \/ \E t \in Threads, a \in Addrs : FreeCall(t, a)
    \/ \E a \in Addrs, l \in Lengths : WriteHeader(a, l) \/ WritePayload(a, l)

\* Threads are scheduled, and a mutex that is released goes to a waiter.
Fairness == \A t \in Threads : WF_pool(Proceed(t)) /\ SF_pool(Lock(t))

Spec == Init /\ [][Next]_pool /\ Fairness

-----------------------------------------------------------------------------
(* Properties.                                                             *)

Places == InCall \cup {"idle", "alloc_count", "alloc_lock", "alloc_heap"}

TypeOK ==
    /\ mtx \in [owner : Threads \cup {NULL}, count : Nat]
    /\ mtx.owner = NULL <=> mtx.count = 0
    /\ heap \in [Addrs -> Block \cup {NULL}]
    /\ stats \in Stats
    /\ pc \in [Threads -> Places]
    /\ arg \in [Threads -> Nat]
    /\ seen \in [Threads -> Nat]
    /\ calls \in [Threads -> Nat]
    /\ shorter \in BOOLEAN
    /\ struck \in BOOLEAN

\* A thread between taking and releasing the mutex owns it, so two threads
\* are never there together: not even after a failed call, which returns with
\* the mutex and lets its own thread take it again.
Inside == {"alloc_heap", "alloc_return", "free_stat", "free_heap"}

CriticalSection == \A t \in Threads : pc[t] \in Inside => mtx.owner = t

\* A block in use by a call is live, and only one call uses it: no block is
\* freed twice or handed out while it is being freed.
BlocksOwned ==
    /\ Busy \subseteq Live
    /\ \A t, u \in Threads :
          t # u /\ pc[t] \in InCall /\ pc[u] \in InCall => arg[t] # arg[u]

\* The bytes counted for the blocks at some addresses of a heap.
CountedBytes(h, addrs) == UNION {{a} \X (1 .. Counted(h[a].size)) : a \in addrs}

\* The blocks that are counted: those live, but for one just handed out and one
\* just uncounted.
Accounted ==
    Live \ {arg[t] : t \in {u \in Threads : pc[u] \in {"alloc_return", "free_heap"}}}

\* Until a payload has struck the header of another block, step_sp_bytes_alloc
\* is at every instant the bytes of the blocks that are counted, and an
\* application that shortens a header itself makes it too high, never too low.
\* A payload the code has put behind the struct of another block can leave any
\* length there: then only the difference of the two totals is kept.
BytesAccounted ==
    LET held == Cardinality(CountedBytes(heap, Accounted))
    IN  /\ stats.bytes_alloc = stats.bytes_alloc_total - stats.bytes_freed_total
        /\ ~struck => stats.bytes_alloc >= held
        /\ ~struck /\ ~shorter => stats.bytes_alloc = held

\* A call of step_sp_free returns: whoever holds the mutex gives it back.
FreeCompletes == \A t \in Threads : pc[t] = "free_lock" ~> pc[t] = "idle"

\* So it does for as long as no allocation has found the heap full.
HeapHasRoom ==
    \A t \in Threads :
        pc[t] = "alloc_heap" => \E a \in Addrs : HeapFits(a, arg[t])

FreeCompletesWithRoom == []HeapHasRoom => FreeCompletes
=============================================================================
