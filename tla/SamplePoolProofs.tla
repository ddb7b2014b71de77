-------------------------- MODULE SamplePoolProofs --------------------------
(***************************************************************************)
(* What holds of the sample pool for every number of threads, every heap   *)
(* size and every header an application writes: its mutex is exclusive     *)
(* although a failed allocation returns with it, and no two calls ever use *)
(* the same block.  The three properties are inductive together: releasing *)
(* the mutex is only well defined because a thread inside owns it, and a   *)
(* block is only handed out once because the blocks in use are live.  On   *)
(* them rests the byte count of the statistics: until the payload of one   *)
(* block has struck the header of another, it is never too low, and exact  *)
(* until an application shortens a header itself.                          *)
(***************************************************************************)
EXTENDS SamplePool, FiniteSetTheorems, TLAPS

IInv == TypeOK /\ CriticalSection /\ BlocksOwned

\* The heap takes at least one byte for a block and counts a whole number.
LEMMA BytesPositive ==
    ASSUME NEW sz \in Nat
    PROVE  HeapBytes(sz) \in Nat \ {0} /\ Counted(sz) \in Nat
  <1>1. PICK n \in Nat \ {0} : sz + MES_SIZE = n
    BY SamplePoolAssumption
  <1>2. (n + 7) \div 8 \in Nat \ {0}
    OBVIOUS
  <1>3. n % 8 \in 0 .. 7
    OBVIOUS
  <1>4. HeapBytes(sz) = ((n + 7) \div 8) * 8
    BY <1>1 DEF HeapBytes
  <1>5. Counted(sz) = n + (8 - (n % 8))
    BY <1>1, SamplePoolAssumption DEF Counted
  <1> QED
    BY <1>2, <1>3, <1>4, <1>5

\* Counting and uncounting n bytes.
LEMMA StatsMove ==
    ASSUME stats \in Stats, NEW n \in Nat
    PROVE  /\ [stats EXCEPT !.bytes_alloc = @ + n,
                             !.bytes_alloc_total = @ + n] \in Stats
           /\ [stats EXCEPT !.bytes_alloc = @ - n,
                             !.bytes_freed_total = @ + n] \in Stats
  <1> DEFINE up == stats.bytes_alloc + n
             down == stats.bytes_alloc - n
             total == stats.bytes_alloc_total + n
             freed == stats.bytes_freed_total + n
  <1>1. up \in Int /\ down \in Int /\ total \in Nat /\ freed \in Nat
    BY DEF Stats
  <1> HIDE DEF up, down, total, freed
  <1>2. /\ [stats EXCEPT !.bytes_alloc = up,
                         !.bytes_alloc_total = total] \in Stats
        /\ [stats EXCEPT !.bytes_alloc = down,
                         !.bytes_freed_total = freed] \in Stats
    BY <1>1 DEF Stats
  <1> QED
    BY <1>2 DEF up, down, total, freed

\* A gap the heap hands out is not a live block.
LEMMA GapIsFree ==
    ASSUME TypeOK, NEW sz \in Nat, NEW a \in Addrs, HeapFits(a, sz)
    PROVE  a \notin Live
  <1>1. SUFFICES ASSUME a \in Live PROVE FALSE
    OBVIOUS
  <1>2. heap[a].size \in Nat /\ a \in Nat
    <2>1. heap[a] \in Block
      BY <1>1 DEF TypeOK, Live
    <2>2. a \in Nat
      BY SamplePoolAssumption DEF Addrs
    <2> QED
      BY <2>1, <2>2 DEF Block
  <1>3. HeapBytes(heap[a].size) \in Nat \ {0} /\ HeapBytes(sz) \in Nat \ {0}
    BY <1>2, BytesPositive
  <1>4. \/ a + HeapBytes(heap[a].size) <= a
        \/ a + HeapBytes(sz) <= a
    BY <1>1 DEF HeapFits
  <1> QED
    BY <1>2, <1>3, <1>4

\* A length written into the headers of live blocks leaves every block where it
\* is, with its size.
LEMMA LengthsWritten ==
    ASSUME TypeOK, NEW S \in SUBSET Live, NEW l \in Nat
    PROVE  /\ WithLength(S, l) \in [Addrs -> Block \cup {NULL}]
           /\ \A b \in Addrs : WithLength(S, l)[b] = NULL <=> heap[b] = NULL
           /\ \A b \in Live : WithLength(S, l)[b].size = heap[b].size
           /\ \A b \in Live : WithLength(S, l)[b].len \in {heap[b].len, l}
           /\ \A b \in Addrs \ S : WithLength(S, l)[b] = heap[b]
  <1>1. \A b \in S : b \in Addrs /\ heap[b] \in Block
    BY DEF TypeOK, Live
  <1>2. \A b \in S : /\ [heap[b] EXCEPT !.len = l] \in Block
                     /\ [heap[b] EXCEPT !.len = l] # NULL
                     /\ [heap[b] EXCEPT !.len = l].size = heap[b].size
                     /\ [heap[b] EXCEPT !.len = l].len = l
    BY <1>1, SamplePoolAssumption DEF Block
  <1>3. \A b \in Addrs : WithLength(S, l)[b] =
                           IF b \in S THEN [heap[b] EXCEPT !.len = l] ELSE heap[b]
    BY DEF WithLength
  <1>4. \A b \in Addrs : WithLength(S, l)[b] \in Block \cup {NULL}
    BY <1>2, <1>3 DEF TypeOK
  <1>5. WithLength(S, l) \in [Addrs -> Block \cup {NULL}]
    BY <1>4 DEF WithLength
  <1>6. \A b \in Addrs : WithLength(S, l)[b] = NULL <=> heap[b] = NULL
    BY <1>2, <1>3 DEF Live
  <1>7. \A b \in Live : /\ WithLength(S, l)[b].size = heap[b].size
                        /\ WithLength(S, l)[b].len \in {heap[b].len, l}
    BY <1>2, <1>3 DEF Live
  <1> QED  BY <1>3, <1>5, <1>6, <1>7

\* What the step that hands out a block leaves of the others.
LEMMA HandedOut ==
    ASSUME TypeOK, NEW t \in Threads, AllocHeap(t)
    PROVE  \E a \in Addrs :
               /\ a \notin Live
               /\ arg' = [arg EXCEPT ![t] = a]
               /\ heap' \in [Addrs -> Block \cup {NULL}]
               /\ heap'[a] = [size |-> arg[t], len |-> arg[t]]
               /\ Live' = Live \cup {a}
               /\ \A b \in Live : heap'[b].size = heap[b].size
               /\ struck' \in BOOLEAN
               /\ ~struck' => ~struck /\ \A b \in Live : heap'[b] = heap[b]
  <1>1. PICK a \in Addrs :
            /\ HeapFits(a, arg[t])
            /\ arg' = [arg EXCEPT ![t] = a]
            /\ \E zeroed \in SUBSET Struck(a, arg[t]) :
                  /\ heap' = [WithLength(zeroed, 0) EXCEPT
                                 ![a] = [size |-> arg[t], len |-> arg[t]]]
                  /\ struck' = (struck \/ zeroed # {})
    BY DEF AllocHeap
  <1>2. PICK zeroed \in SUBSET Struck(a, arg[t]) :
            /\ heap' = [WithLength(zeroed, 0) EXCEPT
                           ![a] = [size |-> arg[t], len |-> arg[t]]]
            /\ struck' = (struck \/ zeroed # {})
    BY <1>1
  <1>3. zeroed \in SUBSET Live
    BY <1>2 DEF Struck
  <1>4. arg[t] \in Nat
    BY DEF TypeOK
  <1>5. a \notin Live
    BY <1>1, <1>4, GapIsFree
  <1> DEFINE h == WithLength(zeroed, 0)
             new == [size |-> arg[t], len |-> arg[t]]
  <1>6. new \in Block /\ new # NULL
    BY <1>4, SamplePoolAssumption DEF Block
  <1>7. /\ h \in [Addrs -> Block \cup {NULL}]
        /\ \A b \in Addrs : h[b] = NULL <=> heap[b] = NULL
        /\ \A b \in Live : h[b].size = heap[b].size
        /\ \A b \in Addrs \ zeroed : h[b] = heap[b]
    BY <1>3, LengthsWritten
  <1> HIDE DEF h, new
  <1>8. heap' = [h EXCEPT ![a] = new]
    BY <1>2 DEF h, new
  <1>9. /\ heap' \in [Addrs -> Block \cup {NULL}]
        /\ heap'[a] = new
        /\ \A b \in Addrs : b # a => heap'[b] = h[b]
    BY <1>6, <1>7, <1>8
  <1>10. Live' = Live \cup {a}
    BY <1>6, <1>7, <1>9 DEF Live
  <1>11. \A b \in Live : b \in Addrs /\ b # a
    BY <1>5 DEF Live
  <1>12. \A b \in Live : heap'[b].size = heap[b].size
    BY <1>7, <1>9, <1>11
  <1>13. ~struck' => ~struck /\ \A b \in Live : heap'[b] = heap[b]
    BY <1>2, <1>7, <1>9, <1>11
  <1>14. struck' \in BOOLEAN
    BY <1>2
  <1> QED
    BY <1>1, <1>5, <1>9, <1>10, <1>12, <1>13, <1>14 DEF new

\* The block a call uses is live, so its lengths are numbers.
LEMMA BlockOfCall ==
    ASSUME TypeOK, BlocksOwned, NEW t \in Threads, pc[t] \in InCall
    PROVE  /\ arg[t] \in Addrs
           /\ heap[arg[t]] \in Block
  BY DEF TypeOK, BlocksOwned, Busy, Live

\* Taking the mutex.
LEMMA LockedKeeps ==
    ASSUME TypeOK, NEW t \in Threads, CanLock(t)
    PROVE  /\ Locked(t) \in [owner : Threads \cup {NULL}, count : Nat]
           /\ Locked(t).owner = t /\ Locked(t).count # 0
  BY DEF TypeOK, CanLock, Locked

\* Releasing the mutex, by a thread that owns it.
LEMMA UnlockedKeeps ==
    ASSUME TypeOK, NEW t \in Threads, mtx.owner = t
    PROVE  /\ Unlocked \in [owner : Threads \cup {NULL}, count : Nat]
           /\ Unlocked.owner = NULL <=> Unlocked.count = 0
  <1>1. mtx.count \in Nat /\ mtx.count # 0 /\ mtx.owner \in Threads
    BY SamplePoolAssumption DEF TypeOK
  <1>2. CASE mtx.count = 1
    BY <1>1, <1>2 DEF Unlocked
  <1>3. CASE mtx.count # 1
    <2>1. Unlocked = [mtx EXCEPT !.count = @ - 1]
      BY <1>3 DEF Unlocked
    <2>2. mtx = [owner |-> mtx.owner, count |-> mtx.count]
      BY DEF TypeOK
    <2>3. Unlocked = [owner |-> mtx.owner, count |-> mtx.count - 1]
      BY <2>1, <2>2
    <2>4. mtx.count - 1 \in Nat /\ mtx.count - 1 # 0
      BY <1>1, <1>3
    <2> QED
      BY <2>3, <2>4, <1>1, SamplePoolAssumption
  <1> QED
    BY <1>2, <1>3

LEMMA InitEstablishes == Init => IInv
  <1> SUFFICES ASSUME Init PROVE IInv
    OBVIOUS
  <1>1. TypeOK
    <2>1. mtx \in [owner : Threads \cup {NULL}, count : Nat]
          /\ (mtx.owner = NULL <=> mtx.count = 0)
      BY DEF Init
    <2>2. heap \in [Addrs -> Block \cup {NULL}] /\ stats \in Stats
      BY DEF Init, Stats
    <2>3. pc \in [Threads -> Places]
      BY DEF Init, Places
    <2>4. arg \in [Threads -> Nat] /\ seen \in [Threads -> Nat]
      BY DEF Init
    <2>5. calls \in [Threads -> Nat]
      BY DEF Init
    <2>6. shorter \in BOOLEAN /\ struck \in BOOLEAN
      BY Zenon DEF Init
    <2> QED
      BY <2>1, <2>2, <2>3, <2>4, <2>5, <2>6, Zenon DEF TypeOK
  <1>2. CriticalSection /\ BlocksOwned
    BY DEF Init, CriticalSection, BlocksOwned, Busy, InCall, Inside
  <1> QED
    BY <1>1, <1>2 DEF IInv

\* Where a thread that takes a step goes, and that the others stay.
LEMMA GoMoves ==
    ASSUME TypeOK, NEW t \in Threads, NEW from, NEW to \in Places,
           Go(t, from, to)
    PROVE  /\ pc' \in [Threads -> Places]
           /\ pc[t] = from
           /\ pc'[t] = to
           /\ \A u \in Threads : u # t => pc'[u] = pc[u]
  BY DEF TypeOK, Go

\* Steps that leave the heap and the arguments of calls alone and do not
\* bring a thread into a call.
LEMMA BlocksKept ==
    ASSUME BlocksOwned, UNCHANGED arg,
           \A a \in Live : heap'[a] # NULL,
           \A t \in Threads : pc'[t] \in InCall => pc[t] \in InCall
    PROVE  BlocksOwned'
  BY DEF BlocksOwned, Busy, Live

LEMMA ProceedKeeps ==
    ASSUME IInv, NEW t \in Threads, Proceed(t)
    PROVE  IInv'
  <1> USE DEF IInv
  <1>1. CASE AllocCount(t)
    <2>1. /\ pc' \in [Threads -> Places] /\ pc[t] = "alloc_count"
          /\ pc'[t] = "alloc_lock"
          /\ \A u \in Threads : u # t => pc'[u] = pc[u]
      BY <1>1, GoMoves DEF AllocCount, Places
    <2>2. TypeOK'
      <3>1. stats' \in Stats
        BY <1>1 DEF AllocCount, TypeOK, Stats
      <3>2. seen' \in [Threads -> Nat]
        BY <1>1 DEF AllocCount, TypeOK
      <3> QED
        BY <1>1, <2>1, <3>1, <3>2 DEF AllocCount, TypeOK
    <2>3. CriticalSection'
      BY <1>1, <2>1 DEF AllocCount, CriticalSection, Inside
    <2>4. BlocksOwned'
      BY <1>1, <2>1, BlocksKept DEF AllocCount, Live, InCall
    <2> QED
      BY <2>2, <2>3, <2>4
  <1>2. CASE AllocFails(t)
    <2>1. /\ pc' \in [Threads -> Places] /\ pc[t] = "alloc_heap"
          /\ pc'[t] = "idle"
          /\ \A u \in Threads : u # t => pc'[u] = pc[u]
      BY <1>2, GoMoves DEF AllocFails, Places
    <2>2. TypeOK'
      BY <1>2, <2>1 DEF AllocFails, TypeOK
    <2>3. CriticalSection'
      BY <1>2, <2>1 DEF AllocFails, CriticalSection, Inside
    <2>4. BlocksOwned'
      BY <1>2, <2>1, BlocksKept DEF AllocFails, Live, InCall
    <2> QED
      BY <2>2, <2>3, <2>4
  <1>3. CASE AllocHeap(t)
    <2>1. /\ pc' \in [Threads -> Places] /\ pc[t] = "alloc_heap"
          /\ pc'[t] = "alloc_return"
          /\ \A u \in Threads : u # t => pc'[u] = pc[u]
      BY <1>3, GoMoves DEF AllocHeap, Places, InCall
    <2>2. PICK a \in Addrs :
              /\ a \notin Live
              /\ arg' = [arg EXCEPT ![t] = a]
              /\ heap' \in [Addrs -> Block \cup {NULL}]
              /\ Live' = Live \cup {a}
              /\ struck' \in BOOLEAN
      BY <1>3, HandedOut
    <2>3. a \in Nat
      BY DEF Addrs
    <2>5. TypeOK'
      BY <1>3, <2>1, <2>2, <2>3 DEF AllocHeap, TypeOK
    <2>6. CriticalSection'
      BY <1>3, <2>1 DEF AllocHeap, CriticalSection, Inside
    <2>7. /\ arg'[t] = a
          /\ \A u \in Threads : u # t => arg'[u] = arg[u]
      BY <2>2 DEF TypeOK
    <2>10. \A u \in Threads : u # t /\ pc'[u] \in InCall => arg'[u] \in Live
      BY <2>1, <2>7 DEF BlocksOwned, Busy
    <2>11. Busy' \subseteq Live'
      BY <2>2, <2>7, <2>10 DEF Busy
    <2>12. ASSUME NEW u \in Threads, NEW v \in Threads, u # v,
                  pc'[u] \in InCall, pc'[v] \in InCall
           PROVE  arg'[u] # arg'[v]
      BY <2>1, <2>2, <2>7, <2>10, <2>12 DEF BlocksOwned
    <2> QED
      BY <2>5, <2>6, <2>11, <2>12 DEF BlocksOwned
  <1>4. CASE AllocReturn(t)
    <2>1. /\ pc' \in [Threads -> Places] /\ pc[t] = "alloc_return"
          /\ pc'[t] = "idle"
          /\ \A u \in Threads : u # t => pc'[u] = pc[u]
      BY <1>4, GoMoves DEF AllocReturn, Places
    <2>2. heap[arg[t]] \in Block
      BY <2>1, BlockOfCall DEF InCall
    <2>3. Counted(heap[arg[t]].size) \in Nat
      BY <2>2, BytesPositive DEF Block
    <2>4. mtx.owner = t
      BY <2>1 DEF CriticalSection, Inside
    <2>5. TypeOK'
      <3>1. /\ mtx' \in [owner : Threads \cup {NULL}, count : Nat]
            /\ mtx'.owner = NULL <=> mtx'.count = 0
        BY <1>4, <2>4, UnlockedKeeps DEF AllocReturn
      <3>2. stats' \in Stats
        <4>1. PICK n \in Nat :
                  stats' = [stats EXCEPT !.bytes_alloc = @ + n,
                                         !.bytes_alloc_total = @ + n]
          BY <1>4, <2>3, Zenon DEF AllocReturn
        <4> QED
          BY <4>1, StatsMove DEF TypeOK
      <3> QED
        BY <1>4, <2>1, <3>1, <3>2 DEF AllocReturn, TypeOK
    <2>6. CriticalSection'
      BY <1>4, <2>1, <2>4 DEF CriticalSection, Inside
    <2>7. BlocksOwned'
      BY <1>4, <2>1, BlocksKept DEF AllocReturn, Live, InCall
    <2> QED
      BY <2>5, <2>6, <2>7
  <1>5. CASE FreeCount(t)
    <2>1. /\ pc' \in [Threads -> Places] /\ pc[t] = "free_count"
          /\ pc'[t] = "free_lock"
          /\ \A u \in Threads : u # t => pc'[u] = pc[u]
      BY <1>5, GoMoves DEF FreeCount, Places, InCall
    <2>2. TypeOK'
      <3>1. stats' \in Stats
        BY <1>5 DEF FreeCount, TypeOK, Stats
      <3>2. seen' \in [Threads -> Nat]
        BY <1>5 DEF FreeCount, TypeOK
      <3> QED
        BY <1>5, <2>1, <3>1, <3>2 DEF FreeCount, TypeOK
    <2>3. CriticalSection'
      BY <1>5, <2>1 DEF FreeCount, CriticalSection, Inside
    <2>4. BlocksOwned'
      BY <1>5, <2>1, BlocksKept DEF FreeCount, Live, InCall
    <2> QED
      BY <2>2, <2>3, <2>4
  <1>6. CASE FreeStat(t)
    <2>1. /\ pc' \in [Threads -> Places] /\ pc[t] = "free_stat"
          /\ pc'[t] = "free_heap"
          /\ \A u \in Threads : u # t => pc'[u] = pc[u]
      BY <1>6, GoMoves DEF FreeStat, Places, InCall
    <2>2. heap[arg[t]] \in Block
      BY <2>1, BlockOfCall DEF InCall
    <2>3. Counted(heap[arg[t]].len) \in Nat
      BY <2>2, BytesPositive DEF Block
    <2>4. TypeOK'
      <3>1. stats' \in Stats
        <4>1. PICK n \in Nat :
                  stats' = [stats EXCEPT !.bytes_alloc = @ - n,
                                         !.bytes_freed_total = @ + n]
          BY <1>6, <2>3, Zenon DEF FreeStat
        <4> QED
          BY <4>1, StatsMove DEF TypeOK
      <3> QED
        BY <1>6, <2>1, <3>1 DEF FreeStat, TypeOK
    <2>5. CriticalSection'
      BY <1>6, <2>1 DEF FreeStat, CriticalSection, Inside
    <2>6. BlocksOwned'
      BY <1>6, <2>1, BlocksKept DEF FreeStat, Live, InCall
    <2> QED
      BY <2>4, <2>5, <2>6
  <1>7. CASE FreeReturn(t)
    <2>1. /\ pc' \in [Threads -> Places] /\ pc[t] = "free_heap"
          /\ pc'[t] = "idle"
          /\ \A u \in Threads : u # t => pc'[u] = pc[u]
      BY <1>7, GoMoves DEF FreeReturn, Places
    <2>2. mtx.owner = t
      BY <2>1 DEF CriticalSection, Inside
    <2>3. TypeOK'
      BY <1>7, <2>1, <2>2, UnlockedKeeps DEF FreeReturn, TypeOK
    <2>4. CriticalSection'
      BY <1>7, <2>1, <2>2 DEF CriticalSection, Inside
    <2>5. /\ arg' = arg
          /\ \A a \in Addrs : a # arg[t] => heap'[a] = heap[a]
      BY <1>7 DEF FreeReturn, TypeOK
    <2>6. \A u \in Threads : pc'[u] \in InCall =>
              u # t /\ pc[u] \in InCall
      BY <2>1 DEF InCall
    <2>7. \A u \in Threads : pc'[u] \in InCall =>
              arg[u] \in Live /\ arg[u] # arg[t]
      BY <2>1, <2>6 DEF BlocksOwned, Busy, InCall
    <2>8. BlocksOwned'
      BY <2>5, <2>6, <2>7 DEF BlocksOwned, Busy, Live
    <2> QED
      BY <2>3, <2>4, <2>8
  <1> QED
    BY <1>1, <1>2, <1>3, <1>4, <1>5, <1>6, <1>7 DEF Proceed

LEMMA LockKeeps ==
    ASSUME IInv, NEW t \in Threads, Lock(t)
    PROVE  IInv'
  <1> USE DEF IInv
  <1>1. /\ pc' \in [Threads -> Places]
        /\ \/ pc[t] = "alloc_lock" /\ pc'[t] = "alloc_heap"
           \/ pc[t] = "free_lock" /\ pc'[t] = "free_stat"
        /\ \A u \in Threads : u # t => pc'[u] = pc[u]
    <2>1. CASE AllocLock(t)
      BY <2>1, GoMoves DEF AllocLock, Places
    <2>2. CASE FreeLock(t)
      BY <2>2, GoMoves DEF FreeLock, Places, InCall
    <2> QED
      BY <2>1, <2>2 DEF Lock
  <1>2. CanLock(t) /\ mtx' = Locked(t)
    BY DEF Lock, AllocLock, FreeLock
  <1>3. UNCHANGED <<heap, stats, arg, seen, calls, shorter, struck>>
    BY DEF Lock, AllocLock, FreeLock
  <1>4. TypeOK'
    BY <1>1, <1>2, <1>3, LockedKeeps, SamplePoolAssumption DEF TypeOK
  <1>5. CriticalSection'
    <2>1. ASSUME NEW u \in Threads, u # t, pc[u] \in Inside PROVE FALSE
      BY <1>2, <2>1, SamplePoolAssumption DEF CriticalSection, CanLock
    <2>2. mtx'.owner = t
      BY <1>2, LockedKeeps
    <2> QED
      BY <1>1, <2>1, <2>2 DEF CriticalSection
  <1>6. BlocksOwned'
    BY <1>1, <1>3, BlocksKept DEF Live, InCall
  <1> QED
    BY <1>4, <1>5, <1>6

LEMMA AllocCallKeeps ==
    ASSUME IInv, NEW t \in Threads, NEW sz \in Sizes, AllocCall(t, sz)
    PROVE  IInv'
  <1> USE DEF IInv
  <1>1. /\ pc' \in [Threads -> Places] /\ pc[t] = "idle"
        /\ pc'[t] = "alloc_count"
        /\ \A u \in Threads : u # t => pc'[u] = pc[u]
    BY GoMoves DEF AllocCall, Places
  <1>2. TypeOK'
    <2>1. calls' \in [Threads -> Nat]
      BY DEF AllocCall, TypeOK
    <2>2. arg' \in [Threads -> Nat] /\ seen' \in [Threads -> Nat]
      BY <1>1, SamplePoolAssumption DEF AllocCall, TypeOK, Stats
    <2> QED
      BY <1>1, <2>1, <2>2 DEF AllocCall, TypeOK
  <1>3. CriticalSection'
    BY <1>1 DEF AllocCall, CriticalSection, Inside
  <1>4. /\ heap' = heap
        /\ \A u \in Threads : pc'[u] \in InCall =>
              pc[u] \in InCall /\ arg'[u] = arg[u]
    BY <1>1 DEF AllocCall, InCall, TypeOK
  <1>5. BlocksOwned'
    BY <1>4 DEF BlocksOwned, Busy, Live
  <1> QED
    BY <1>2, <1>3, <1>5

LEMMA FreeCallKeeps ==
    ASSUME IInv, NEW t \in Threads, NEW a \in Addrs, FreeCall(t, a)
    PROVE  IInv'
  <1> USE DEF IInv
  <1>1. /\ pc' \in [Threads -> Places] /\ pc[t] = "idle"
        /\ pc'[t] = "free_count"
        /\ \A u \in Threads : u # t => pc'[u] = pc[u]
    BY GoMoves DEF FreeCall, Places, InCall
  <1>2. a \in Nat
    BY DEF Addrs
  <1>3. TypeOK'
    <2>1. calls' \in [Threads -> Nat]
      BY DEF FreeCall, TypeOK
    <2>2. arg' \in [Threads -> Nat] /\ seen' \in [Threads -> Nat]
      BY <1>1, <1>2 DEF FreeCall, TypeOK, Stats
    <2> QED
      BY <1>1, <2>1, <2>2 DEF FreeCall, TypeOK
  <1>4. CriticalSection'
    BY <1>1 DEF FreeCall, CriticalSection, Inside
  <1>5. /\ heap' = heap
        /\ arg'[t] = a
        /\ a \in Live /\ a \notin Busy
        /\ \A u \in Threads : u # t => arg'[u] = arg[u]
    BY DEF FreeCall, TypeOK
  <1>6. \A u \in Threads : u # t /\ pc'[u] \in InCall =>
            arg'[u] \in Live /\ arg'[u] # a
    BY <1>1, <1>5 DEF BlocksOwned, Busy
  <1>7. Busy' \subseteq Live'
    BY <1>5, <1>6 DEF Busy, Live
  <1>8. ASSUME NEW u \in Threads, NEW v \in Threads, u # v,
               pc'[u] \in InCall, pc'[v] \in InCall
        PROVE  arg'[u] # arg'[v]
    BY <1>1, <1>5, <1>6, <1>8 DEF BlocksOwned
  <1> QED
    BY <1>3, <1>4, <1>7, <1>8 DEF BlocksOwned

\* What the application's writes leave of the blocks.
LEMMA LengthWritten ==
    ASSUME TypeOK, NEW a \in Addrs, NEW l \in Lengths,
           WriteHeader(a, l) \/ WritePayload(a, l)
    PROVE  /\ heap' \in [Addrs -> Block \cup {NULL}]
           /\ Live' = Live
           /\ \A b \in Live : heap'[b].size = heap[b].size
           /\ UNCHANGED <<mtx, stats, pc, arg, seen, calls>>
           /\ shorter' \in BOOLEAN /\ struck' \in BOOLEAN
           /\ \/ shorter' = TRUE /\ struck' = struck
                 /\ \A b \in Live : heap'[b].len <= heap[b].len \/ heap'[b].len <= heap[b].size
              \/ struck' = TRUE
  <1>1. l \in Nat
    BY SamplePoolAssumption
  <1>2. CASE WriteHeader(a, l)
    <2>1. {a} \in SUBSET Live /\ heap' = WithLength({a}, l)
      BY <1>2 DEF WriteHeader
    <2>2. /\ heap' \in [Addrs -> Block \cup {NULL}]
          /\ \A b \in Addrs : heap'[b] = NULL <=> heap[b] = NULL
          /\ \A b \in Live : heap'[b].size = heap[b].size
          /\ \A b \in Live : heap'[b].len \in {heap[b].len, l}
          /\ \A b \in Addrs \ {a} : heap'[b] = heap[b]
      BY <1>1, <2>1, LengthsWritten
    <2>3. Live' = Live
      BY <2>2 DEF Live
    <2>4. \A b \in Live : heap[b].len \in Nat /\ heap[b].size \in Nat /\ b \in Addrs
      BY DEF Live, TypeOK, Block
    <2>5. \A b \in Live : heap'[b].len <= heap[b].len \/ heap'[b].len <= heap[b].size
      <3>1. l < heap[a].size
        BY <1>2 DEF WriteHeader
      <3> QED  BY <1>1, <2>2, <2>4, <3>1
    <2>6. shorter' = TRUE /\ struck' = struck
      BY <1>2 DEF WriteHeader
    <2> QED  BY <1>2, <2>2, <2>3, <2>5, <2>6 DEF WriteHeader, TypeOK
  <1>3. CASE WritePayload(a, l)
    <2>1. PICK b \in Struck(a, heap[a].size) : heap' = WithLength({b}, l)
      BY <1>3 DEF WritePayload
    <2>2. {b} \in SUBSET Live
      BY <2>1 DEF Struck
    <2>3. /\ heap' \in [Addrs -> Block \cup {NULL}]
          /\ \A c \in Addrs : heap'[c] = NULL <=> heap[c] = NULL
          /\ \A c \in Live : heap'[c].size = heap[c].size
      BY <1>1, <2>1, <2>2, LengthsWritten
    <2>4. Live' = Live
      BY <2>3 DEF Live
    <2>5. struck' = TRUE
      BY <1>3 DEF WritePayload
    <2> QED  BY <1>3, <2>3, <2>4, <2>5 DEF WritePayload, TypeOK
  <1> QED  BY <1>2, <1>3

LEMMA WritesKeep ==
    ASSUME IInv, NEW a \in Addrs, NEW l \in Lengths,
           WriteHeader(a, l) \/ WritePayload(a, l)
    PROVE  IInv'
  <1> USE DEF IInv
  <1>1. /\ heap' \in [Addrs -> Block \cup {NULL}]
        /\ Live' = Live
        /\ UNCHANGED <<mtx, stats, pc, arg, seen, calls>>
        /\ shorter' \in BOOLEAN /\ struck' \in BOOLEAN
    BY LengthWritten
  <1>2. TypeOK'
    BY <1>1 DEF TypeOK
  <1>3. CriticalSection'
    BY <1>1 DEF CriticalSection
  <1>4. BlocksOwned'
    BY <1>1 DEF BlocksOwned, Busy
  <1> QED
    BY <1>2, <1>3, <1>4

LEMMA NextKeeps ==
    ASSUME IInv, [Next]_pool
    PROVE  IInv'
  <1>1. CASE UNCHANGED pool
    BY <1>1 DEF pool, IInv, TypeOK, CriticalSection, BlocksOwned, Busy, Live
  <1>2. ASSUME NEW t \in Threads, Lock(t) \/ Proceed(t) PROVE IInv'
    BY <1>2, LockKeeps, ProceedKeeps
  <1>3. ASSUME NEW t \in Threads, NEW sz \in Sizes, AllocCall(t, sz)
        PROVE  IInv'
    BY <1>3, AllocCallKeeps
  <1>4. ASSUME NEW t \in Threads, NEW a \in Addrs, FreeCall(t, a) PROVE IInv'
    BY <1>4, FreeCallKeeps
  <1>5. ASSUME NEW a \in Addrs, NEW l \in Lengths,
               WriteHeader(a, l) \/ WritePayload(a, l)
        PROVE  IInv'
    BY <1>5, WritesKeep
  <1> QED
    BY <1>1, <1>2, <1>3, <1>4, <1>5 DEF Next

\* Whatever threads call the pool, and whatever fails: types, the exclusive
\* mutex, and blocks that only one call uses.
THEOREM PoolSafe == Spec => [](TypeOK /\ CriticalSection /\ BlocksOwned)
  <1>1. Init => IInv
    BY InitEstablishes
  <1>2. IInv /\ [Next]_pool => IInv'
    BY NextKeeps
  <1>3. IInv => TypeOK /\ CriticalSection /\ BlocksOwned
    BY DEF IInv
  <1> QED
    BY <1>1, <1>2, <1>3, PTL DEF Spec

\* However many threads call the pool: none is inside a call without the mutex,
\* not even after an allocation that failed and returned with it
\* (src/sample_pool.c: step_sp_alloc, step_sp_free).
THEOREM CallsExclude == Spec => []CriticalSection
  BY PoolSafe, PTL

-----------------------------------------------------------------------------
(* The byte count.                                                         *)

LEMMA CountedGrows ==
    ASSUME NEW l \in Nat, NEW n \in Nat, l <= n
    PROVE  Counted(l) <= Counted(n)
  <1> DEFINE x == l + MES_SIZE
             y == n + MES_SIZE
  <1>1. x \in Nat /\ y \in Nat /\ x <= y
    BY SamplePoolAssumption
  <1>2. Counted(l) = x + (8 - (x % 8)) /\ Counted(n) = y + (8 - (y % 8))
    BY DEF Counted
  <1> HIDE DEF x, y
  <1>3. x + (8 - (x % 8)) = 8 * (x \div 8) + 8 /\ y + (8 - (y % 8)) = 8 * (y \div 8) + 8
    BY <1>1
  <1>4. x \div 8 <= y \div 8
    BY <1>1
  <1> QED  BY <1>1, <1>2, <1>3, <1>4

\* One block more, and one less.
LEMMA BytesAdd ==
    ASSUME NEW h, NEW A, NEW a, a \notin A, h[a].size \in Nat,
           IsFiniteSet(CountedBytes(h, A))
    PROVE  /\ IsFiniteSet(CountedBytes(h, A \cup {a}))
           /\ Cardinality(CountedBytes(h, A \cup {a}))
                  = Cardinality(CountedBytes(h, A)) + Counted(h[a].size)
  <1> DEFINE n == Counted(h[a].size)
             B == {a} \X (1 .. n)
             C == CountedBytes(h, A)
  <1>1. n \in Nat
    BY BytesPositive
  <1>2. IsFiniteSet(1 .. n) /\ Cardinality(1 .. n) = n
    BY <1>1, FS_Interval
  <1>3. IsFiniteSet(B) /\ Cardinality(B) = n
    <2>1. IsFiniteSet({a}) /\ Cardinality({a}) = 1
      BY FS_Singleton
    <2>2. IsFiniteSet(B) /\ Cardinality(B) = 1 * n
      BY <1>2, <2>1, FS_Product
    <2> QED  BY <1>1, <2>2
  <1>4. CountedBytes(h, A \cup {a}) = C \cup B
    BY DEF CountedBytes
  <1>5. C \cap B = {}
    BY DEF CountedBytes
  <1> HIDE DEF B, C, n
  <1>6. /\ IsFiniteSet(C \cup B)
        /\ Cardinality(C \cup B) = Cardinality(C) + Cardinality(B) - 0
    BY <1>3, <1>5, FS_Union, FS_EmptySet DEF C
  <1>7. Cardinality(C) \in Nat
    BY FS_CardinalityType DEF C
  <1>8. Cardinality(C \cup B) = Cardinality(C) + n
    BY <1>1, <1>3, <1>6, <1>7
  <1> QED  BY <1>4, <1>6, <1>8 DEF C, n

LEMMA BytesRemove ==
    ASSUME NEW h, NEW A, NEW a \in A, h[a].size \in Nat,
           IsFiniteSet(CountedBytes(h, A))
    PROVE  /\ IsFiniteSet(CountedBytes(h, A \ {a}))
           /\ Cardinality(CountedBytes(h, A))
                  = Cardinality(CountedBytes(h, A \ {a})) + Counted(h[a].size)
  <1> DEFINE R == A \ {a}
  <1>1. CountedBytes(h, R) \in SUBSET CountedBytes(h, A)
    BY DEF CountedBytes
  <1>2. IsFiniteSet(CountedBytes(h, R))
    BY <1>1, FS_Subset
  <1>3. R \cup {a} = A /\ a \notin R
    OBVIOUS
  <1> QED  BY <1>2, <1>3, BytesAdd

\* What the count rests on: no header holds a longer length than its block was
\* asked with, until a payload has struck one.
Account ==
    /\ IsFiniteSet(CountedBytes(heap, Accounted))
    /\ ~struck => \A a \in Live : heap[a].len <= heap[a].size
    /\ ~struck /\ ~shorter => \A a \in Live : heap[a].len = heap[a].size

AccountInv == Account /\ BytesAccounted

\* Steps that move no block from one state to another.
LEMMA AccountKept ==
    ASSUME AccountInv, UNCHANGED <<heap, shorter, struck>>, Accounted' = Accounted,
           UNCHANGED <<stats.bytes_alloc, stats.bytes_alloc_total,
                       stats.bytes_freed_total>>
    PROVE  AccountInv'
  BY DEF AccountInv, Account, BytesAccounted, Live

LEMMA InitAccounts == Init => AccountInv
  <1> SUFFICES ASSUME Init PROVE AccountInv
    OBVIOUS
  <1>1. Live = {}
    BY DEF Init, Live
  <1>2. CountedBytes(heap, Accounted) = {}
    BY <1>1 DEF CountedBytes, Accounted
  <1>3. IsFiniteSet({}) /\ Cardinality({}) = 0
    BY FS_EmptySet
  <1> QED  BY <1>1, <1>2, <1>3 DEF Init, AccountInv, Account, BytesAccounted

LEMMA ProceedAccounts ==
    ASSUME IInv, AccountInv, NEW t \in Threads, Proceed(t)
    PROVE  AccountInv'
  <1> USE DEF IInv
  <1> DEFINE Between == {"alloc_return", "free_heap"}
  <1>1. CASE AllocCount(t)
    <2>1. /\ pc[t] \notin Between /\ pc'[t] \notin Between
          /\ \A u \in Threads : u # t => pc'[u] = pc[u]
          /\ UNCHANGED <<heap, arg, shorter, struck>>
      BY <1>1 DEF AllocCount, Go, TypeOK
    <2>2. Accounted' = Accounted
      BY <2>1 DEF Accounted, Live
    <2>3. UNCHANGED <<stats.bytes_alloc, stats.bytes_alloc_total,
                      stats.bytes_freed_total>>
      BY <1>1 DEF AllocCount, TypeOK, Stats
    <2> QED  BY <2>1, <2>2, <2>3, AccountKept
  <1>2. CASE AllocFails(t)
    <2>1. /\ pc[t] \notin Between /\ pc'[t] \notin Between
          /\ \A u \in Threads : u # t => pc'[u] = pc[u]
          /\ UNCHANGED <<heap, arg, shorter, struck, stats>>
      BY <1>2 DEF AllocFails, Go, TypeOK
    <2>2. Accounted' = Accounted
      BY <2>1 DEF Accounted, Live
    <2> QED  BY <2>1, <2>2, AccountKept
  <1>3. CASE AllocHeap(t)
    <2>1. PICK a \in Addrs :
              /\ a \notin Live
              /\ arg' = [arg EXCEPT ![t] = a]
              /\ heap'[a] = [size |-> arg[t], len |-> arg[t]]
              /\ Live' = Live \cup {a}
              /\ \A b \in Live : heap'[b].size = heap[b].size
              /\ ~struck' => ~struck /\ \A b \in Live : heap'[b] = heap[b]
      BY <1>3, HandedOut
    <2>2. arg[t] \in Nat
      BY DEF TypeOK
    <2>3. /\ arg'[t] = a
          /\ \A u \in Threads : u # t => arg'[u] = arg[u]
      BY <2>1 DEF TypeOK
    <2>4. heap'[a].len = heap'[a].size /\ heap'[a].size \in Nat
      BY <2>1, <2>2
    <2>5. /\ pc[t] \notin Between /\ pc'[t] = "alloc_return"
          /\ \A u \in Threads : u # t => pc'[u] = pc[u]
          /\ UNCHANGED <<shorter, stats>>
      BY <1>3 DEF AllocHeap, Go, TypeOK
    <2>6. Accounted' = Accounted
      BY <2>1, <2>3, <2>5 DEF Accounted
    <2>7. CountedBytes(heap', Accounted) = CountedBytes(heap, Accounted)
      <3>1. \A b \in Accounted : heap'[b].size = heap[b].size
        BY <2>1 DEF Accounted
      <3> QED  BY <3>1 DEF CountedBytes
    <2>8. Account'
      <3>1. ~struck' => \A b \in Live' : heap'[b].len <= heap'[b].size
        BY <2>1, <2>4 DEF AccountInv, Account
      <3>2. ~struck' /\ ~shorter' => \A b \in Live' : heap'[b].len = heap'[b].size
        BY <2>1, <2>4, <2>5 DEF AccountInv, Account
      <3> QED  BY <2>6, <2>7, <3>1, <3>2 DEF AccountInv, Account
    <2>9. BytesAccounted'
      BY <2>1, <2>5, <2>6, <2>7 DEF AccountInv, BytesAccounted
    <2> QED  BY <2>8, <2>9 DEF AccountInv
  <1>4. CASE AllocReturn(t)
    <2> DEFINE a == arg[t]
               n == Counted(heap[a].size)
    <2>1. /\ pc[t] = "alloc_return" /\ pc'[t] = "idle"
          /\ \A u \in Threads : u # t => pc'[u] = pc[u]
          /\ UNCHANGED <<heap, arg, shorter, struck>>
      BY <1>4 DEF AllocReturn, Go, TypeOK
    <2>2. heap[a] \in Block /\ a \in Live
      BY <2>1, BlockOfCall DEF BlocksOwned, Busy, InCall
    <2>3. n \in Nat /\ heap[a].size \in Nat
      BY <2>2, BytesPositive DEF Block
    <2>4. \A u \in Threads : u # t /\ pc[u] \in Between => arg[u] # a
      BY <2>1 DEF BlocksOwned, InCall
    <2>5. a \notin Accounted /\ Accounted' = Accounted \cup {a}
      BY <2>1, <2>2, <2>4 DEF Accounted, Live
    <2>6. /\ stats'.bytes_alloc = stats.bytes_alloc + n
          /\ stats'.bytes_alloc_total = stats.bytes_alloc_total + n
          /\ stats'.bytes_freed_total = stats.bytes_freed_total
      BY <1>4 DEF AllocReturn, TypeOK, Stats
    <2> HIDE DEF a
    <2>7. /\ IsFiniteSet(CountedBytes(heap, Accounted'))
          /\ Cardinality(CountedBytes(heap, Accounted'))
                 = Cardinality(CountedBytes(heap, Accounted)) + n
      BY <2>3, <2>5, BytesAdd DEF AccountInv, Account
    <2>8. Cardinality(CountedBytes(heap, Accounted)) \in Nat
      BY FS_CardinalityType DEF AccountInv, Account
    <2>9. stats.bytes_alloc \in Int /\ stats.bytes_alloc_total \in Nat
            /\ stats.bytes_freed_total \in Nat
      BY DEF TypeOK, Stats
    <2>10. Account'
      BY <2>1, <2>7 DEF AccountInv, Account, Live
    <2> HIDE DEF n
    <2>11. BytesAccounted'
      BY <2>1, <2>3, <2>6, <2>7, <2>8, <2>9 DEF AccountInv, BytesAccounted
    <2> QED  BY <2>10, <2>11 DEF AccountInv
  <1>5. CASE FreeCount(t)
    <2>1. /\ pc[t] \notin Between /\ pc'[t] \notin Between
          /\ \A u \in Threads : u # t => pc'[u] = pc[u]
          /\ UNCHANGED <<heap, arg, shorter, struck>>
      BY <1>5 DEF FreeCount, Go, TypeOK
    <2>2. Accounted' = Accounted
      BY <2>1 DEF Accounted, Live
    <2>3. UNCHANGED <<stats.bytes_alloc, stats.bytes_alloc_total,
                      stats.bytes_freed_total>>
      BY <1>5 DEF FreeCount, TypeOK, Stats
    <2> QED  BY <2>1, <2>2, <2>3, AccountKept
  <1>6. CASE FreeStat(t)
    <2> DEFINE a == arg[t]
               l == Counted(heap[a].len)
               n == Counted(heap[a].size)
    <2>1. /\ pc[t] = "free_stat" /\ pc'[t] = "free_heap"
          /\ \A u \in Threads : u # t => pc'[u] = pc[u]
          /\ UNCHANGED <<heap, arg, shorter, struck>>
      BY <1>6 DEF FreeStat, Go, TypeOK
    <2>2. heap[a] \in Block /\ a \in Live
      BY <2>1, BlockOfCall DEF BlocksOwned, Busy, InCall
    <2>3. heap[a].size \in Nat /\ heap[a].len \in Nat
            /\ (~struck => heap[a].len <= heap[a].size)
            /\ (~struck /\ ~shorter => heap[a].len = heap[a].size)
      BY <2>2 DEF Block, AccountInv, Account
    <2>4. n \in Nat /\ l \in Nat /\ (~struck => l <= n) /\ (~struck /\ ~shorter => l = n)
      BY <2>3, BytesPositive, CountedGrows
    <2>5. \A u \in Threads : u # t /\ pc[u] \in Between => arg[u] # a
      BY <2>1 DEF BlocksOwned, InCall
    <2>6. a \in Accounted /\ Accounted' = Accounted \ {a}
      BY <2>1, <2>2, <2>5 DEF Accounted, Live
    <2>7. /\ stats'.bytes_alloc = stats.bytes_alloc - l
          /\ stats'.bytes_alloc_total = stats.bytes_alloc_total
          /\ stats'.bytes_freed_total = stats.bytes_freed_total + l
      BY <1>6 DEF FreeStat, TypeOK, Stats
    <2> HIDE DEF a
    <2>8. /\ IsFiniteSet(CountedBytes(heap, Accounted'))
          /\ Cardinality(CountedBytes(heap, Accounted))
                 = Cardinality(CountedBytes(heap, Accounted')) + n
      BY <2>3, <2>6, BytesRemove DEF AccountInv, Account
    <2>9. Cardinality(CountedBytes(heap, Accounted')) \in Nat
      BY <2>8, FS_CardinalityType
    <2>10. stats.bytes_alloc \in Int /\ stats.bytes_alloc_total \in Nat
            /\ stats.bytes_freed_total \in Nat
      BY DEF TypeOK, Stats
    <2>11. Account'
      BY <2>1, <2>8 DEF AccountInv, Account, Live
    <2> HIDE DEF n, l
    <2>12. BytesAccounted'
      BY <2>1, <2>4, <2>7, <2>8, <2>9, <2>10 DEF AccountInv, BytesAccounted
    <2> QED  BY <2>11, <2>12 DEF AccountInv
  <1>7. CASE FreeReturn(t)
    <2>1. /\ pc[t] = "free_heap" /\ pc'[t] = "idle"
          /\ \A u \in Threads : u # t => pc'[u] = pc[u]
          /\ UNCHANGED <<arg, shorter, struck, stats>>
      BY <1>7 DEF FreeReturn, Go, TypeOK
    <2>2. arg[t] \in Live
      BY <2>1 DEF BlocksOwned, Busy, InCall
    <2>3. heap'[arg[t]] = NULL /\ \A b \in Addrs : b # arg[t] => heap'[b] = heap[b]
      BY <1>7, <2>2 DEF FreeReturn, TypeOK, Live
    <2>4. Live' = Live \ {arg[t]}
      BY <2>3 DEF Live
    <2>5. Accounted' = Accounted
      BY <2>1, <2>2, <2>4 DEF Accounted
    <2>6. CountedBytes(heap', Accounted) = CountedBytes(heap, Accounted)
      <3>1. \A b \in Accounted : heap'[b] = heap[b]
        BY <2>1, <2>3 DEF Accounted, Live
      <3> QED  BY <3>1 DEF CountedBytes
    <2>7. \A b \in Live' : b \in Live /\ heap'[b] = heap[b]
      BY <2>3, <2>4 DEF Live
    <2>8. Account'
      BY <2>1, <2>5, <2>6, <2>7 DEF AccountInv, Account
    <2>9. BytesAccounted'
      BY <2>1, <2>5, <2>6 DEF AccountInv, BytesAccounted
    <2> QED  BY <2>8, <2>9 DEF AccountInv
  <1> QED  BY <1>1, <1>2, <1>3, <1>4, <1>5, <1>6, <1>7 DEF Proceed

LEMMA OthersAccount ==
    ASSUME IInv, AccountInv, [Next]_pool,
           ~ \E t \in Threads : Proceed(t)
    PROVE  AccountInv'
  <1> USE DEF IInv
  <1>1. CASE UNCHANGED pool
    BY <1>1, AccountKept DEF pool, Accounted, Live
  <1>2. ASSUME NEW t \in Threads, Lock(t) PROVE AccountInv'
    <2>1. /\ pc[t] \notin {"alloc_return", "free_heap"}
          /\ pc'[t] \notin {"alloc_return", "free_heap"}
          /\ \A u \in Threads : u # t => pc'[u] = pc[u]
          /\ UNCHANGED <<heap, arg, shorter, struck, stats>>
      BY <1>2 DEF Lock, AllocLock, FreeLock, Go, TypeOK
    <2>2. Accounted' = Accounted
      BY <2>1 DEF Accounted, Live
    <2> QED  BY <2>1, <2>2, AccountKept
  <1>3. ASSUME NEW t \in Threads,
               \/ \E sz \in Sizes : AllocCall(t, sz)
               \/ \E a \in Addrs : FreeCall(t, a)
        PROVE  AccountInv'
    <2>1. /\ pc[t] \notin {"alloc_return", "free_heap"}
          /\ pc'[t] \notin {"alloc_return", "free_heap"}
          /\ \A u \in Threads : u # t => pc'[u] = pc[u] /\ arg'[u] = arg[u]
          /\ UNCHANGED <<heap, shorter, struck, stats>>
      BY <1>3 DEF AllocCall, FreeCall, Go, TypeOK
    <2>2. Accounted' = Accounted
      BY <2>1 DEF Accounted, Live
    <2> QED  BY <2>1, <2>2, AccountKept
  <1>4. ASSUME NEW a \in Addrs, NEW l \in Lengths,
               WriteHeader(a, l) \/ WritePayload(a, l)
        PROVE  AccountInv'
    <2>1. /\ Live' = Live
          /\ \A b \in Live : heap'[b].size = heap[b].size
          /\ UNCHANGED <<stats, pc, arg>>
          /\ \/ shorter' = TRUE /\ struck' = struck
                /\ \A b \in Live : heap'[b].len <= heap[b].len \/ heap'[b].len <= heap[b].size
             \/ struck' = TRUE
      BY <1>4, LengthWritten
    <2>2. Accounted' = Accounted
      BY <2>1 DEF Accounted
    <2>3. CountedBytes(heap', Accounted) = CountedBytes(heap, Accounted)
      BY <2>1 DEF CountedBytes, Accounted
    <2>4. \A b \in Live : /\ heap[b].len \in Nat /\ heap[b].size \in Nat
                          /\ heap'[b].len \in Nat /\ b \in Addrs
      <3>1. heap' \in [Addrs -> Block \cup {NULL}]
        BY <1>4, LengthWritten
      <3> QED  BY <2>1, <3>1 DEF Live, TypeOK, Block
    <2>5. ~struck' => \A b \in Live' : heap'[b].len <= heap'[b].size
      BY <2>1, <2>4 DEF AccountInv, Account
    <2>6. Account'
      BY <2>1, <2>2, <2>3, <2>5 DEF AccountInv, Account
    <2>7. BytesAccounted'
      BY <2>1, <2>2, <2>3 DEF AccountInv, BytesAccounted
    <2> QED  BY <2>6, <2>7 DEF AccountInv
  <1> QED  BY <1>1, <1>2, <1>3, <1>4 DEF Next

\* For every number of threads, heap, payload sizes and struct size: the byte
\* count is at every instant the difference of the totals; until a payload has
\* struck the header of another block it is never below the bytes of the blocks
\* that are counted, and those bytes exactly unless an application has written
\* a shorter length into a header (step_sp_alloc, step_sp_free).
THEOREM BytesAreCounted == Spec => []BytesAccounted
  <1>1. Init => IInv /\ AccountInv
    BY InitEstablishes, InitAccounts
  <1>2. IInv /\ [Next]_pool => IInv'
    BY NextKeeps
  <1>3. IInv /\ AccountInv /\ [Next]_pool => AccountInv'
    BY ProceedAccounts, OthersAccount
  <1>4. AccountInv => BytesAccounted
    BY DEF AccountInv
  <1> QED
    BY <1>1, <1>2, <1>3, <1>4, PTL DEF Spec
=============================================================================
