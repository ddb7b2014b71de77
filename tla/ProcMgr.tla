------------------------------ MODULE ProcMgr -------------------------------
(***************************************************************************)
(* The processor node manager of src/proc_mgr.c at work: threads allocate  *)
(* measurements and put them in the work queue, and the thread of the work *)
(* queue takes each one through the registered nodes (step_pm_process)     *)
(* while the registry goes on changing under it.                           *)
(*                                                                         *)
(* Processing holds step_pm_reg_access while it walks the list and         *)
(* evaluates a node, but releases it while a matching node's handlers and  *)
(* subscribers run.  It keeps two pointers across that window: pnode, the  *)
(* record it is at (cur), and tmp, the record after it.  A record is       *)
(* identified by its place in step_pm_nodes, so a pointer stays a handle   *)
(* even if the record is zeroed or filled in again meanwhile.              *)
(***************************************************************************)
EXTENDS Registry, FiniteSets

CONSTANTS
    Meas,           \* the measurements the sample pool has room for
    Bits,           \* the filter bits measurements have
    Payloads,       \* what a matched handler can tell apart in a payload
    Accepts,        \* <<node, bits>>: the node's filters match these bits
    Vetoes,         \* <<node, payload>>: its matched handler says no
    Handlers,       \* node -> which of the three handlers it has
    HandlersFail,   \* TRUE: handlers may return an error
    CACHE_DEPTH,    \* CONFIG_STEP_FILTER_CACHE_DEPTH
    MaxAllocs       \* bound: how many measurements are asked for

\* What processing sees of a measurement.
Header == [bits : Bits, payload : Payloads]

ASSUME ProcMgrAssumption ==
    /\ Accepts \subseteq Nodes \X Bits
    /\ Vetoes \subseteq Nodes \X Payloads
    /\ Handlers \in [Nodes -> SUBSET {"start", "exec", "stop"}]
    /\ HandlersFail \in BOOLEAN
    /\ CACHE_DEPTH \in Nat \ {0}
    /\ MaxAllocs \in Nat
    /\ NULL \notin Meas \cup BOOLEAN
    /\ NULL \notin Header

VARIABLES
    mes,        \* measurement -> NULL when its block is free, else its header
    held,       \* thread -> the measurement it is filling in, or NULL
    sp_owner,   \* who holds step_sp_alloc_mtx between calls, or NULL
    allocs,     \* history: how many measurements have been asked for
    queue,      \* step_pm_work_q: the measurements submitted, oldest first
    cache,      \* step_cache_recs: <<bits, handle>> -> result, or NULL
    w           \* the work queue's thread in step_pm_process

flow == <<mes, held, sp_owner, allocs, queue>>
vars == <<registry, flow, cache, w>>

Threads == Clients \cup {Worker}
NONE == -1          \* a null record pointer
Keys == Bits \X Handles
Stages == {"start", "exec", "stop"}

Idle == [pc |-> "idle",
         m |-> NULL,        \* mes
         cur |-> NONE,      \* pnode
         tmp |-> NONE,      \* the record after it, read before it is visited
         node |-> NULL,     \* the chain being run: n, with inst and stage
         inst |-> 0,        \* node_idx
         stage |-> "start",
         sub |-> 0,         \* subs and subs_tmp: chunks, or 0
         subtmp |-> 0,
         match |-> FALSE,
         epoch |-> 0,       \* history: the epoch in which processing started
         due |-> {},        \* history: the handles registered then
         skipped |-> {},    \* history: those found disabled
         ran |-> <<>>,      \* history: those whose chain was started
         subs |-> <<>>,     \* history: the subscribers of cur at its end
         called |-> <<>>]   \* history: those called

-----------------------------------------------------------------------------
(* Helpers.                                                                *)

\* pnode->snode.next, as long as the record is in the list; a zeroed record
\* links to nothing.
Following(h) ==
    LET at == {i \in 1 .. Len(slist) - 1 : slist[i] = h}
    IN  IF at = {} THEN NONE ELSE slist[(CHOOSE i \in at : TRUE) + 1]

\* The result of the filter chain and of the matched handler after it.
Outcome(n, x) == <<n, x.bits>> \in Accepts /\ <<n, x.payload>> \notin Vetoes

\* The cache after step_cache_add: the result is there, and when the cache was
\* full the record of another key has gone.
Remembered(c, key, r) ==
    LET used == {k \in Keys : c[k] # NULL}
        room == Cardinality(used \ {key}) < CACHE_DEPTH
    IN  IF room THEN {[c EXCEPT ![key] = r]}
        ELSE {[c EXCEPT ![key] = r, ![k] = NULL] : k \in used \ {key}}

\* subs->snode.next.  Mutant: the traversal stops after one subscriber.
NextSubNone(c) == 0

NextSub(c) == IF c = 0 THEN 0 ELSE cb_pool[c].next

\* Mutants of the next definition: the record after tmp is not read anew; tmp
\* is stepped over.
AdvanceStale(x) == [x EXCEPT !.cur = x.tmp,
                             !.pc = IF x.tmp = NONE THEN "finish" ELSE "visit"]
AdvanceSkips(x) ==
    LET h == Following(x.tmp)
    IN  [x EXCEPT !.cur = h, !.tmp = Following(h),
                  !.pc = IF h = NONE THEN "finish" ELSE "visit"]

\* The end of a visit: on to the record that was next when it began.
Advance(x) == [x EXCEPT !.cur = x.tmp, !.tmp = Following(x.tmp),
                        !.pc = IF x.tmp = NONE THEN "finish" ELSE "visit"]

\* The end of a handler call, or of one that is not there: the next stage, the
\* next instance, or the end of the chain.
AfterStage(x) ==
    CASE x.stage = "start" -> [x EXCEPT !.stage = "exec"]
      [] x.stage = "exec"  -> [x EXCEPT !.stage = "stop"]
      [] x.stage = "stop"  ->
            [x EXCEPT !.stage = "start", !.inst = @ + 1,
                      !.pc = IF x.inst + 1 = ChainLen[x.node]
                             THEN "chain_end" ELSE "chain"]

\* The thread of the work queue is inside a callback of the application.
InCallback == w.pc \in {"chain", "subs"}

-----------------------------------------------------------------------------
ManagerInit ==
    /\ Init
    /\ mes = [m \in Meas |-> NULL]
    /\ held = [t \in Threads |-> NULL]
    /\ sp_owner = NULL
    /\ allocs = 0
    /\ queue = <<>>
    /\ cache = [k \in Keys |-> NULL]
    /\ w = Idle

(* Producers: the application's threads, and callbacks that produce        *)
(* measurements of their own.                                              *)

Alloc(t, b, p) ==
    /\ held[t] = NULL
    /\ t = Worker => InCallback
    /\ allocs < MaxAllocs
    /\ sp_owner \in {NULL, t}
    /\ \E m \in Meas :
          /\ mes[m] = NULL
          /\ mes' = [mes EXCEPT ![m] = [bits |-> b, payload |-> p]]
          /\ held' = [held EXCEPT ![t] = m]
    /\ allocs' = allocs + 1
    /\ UNCHANGED <<registry, sp_owner, queue, cache, w>>

\* step_sp_alloc with the heap full: NULL is returned with the mutex held.
AllocFails(t) ==
    /\ held[t] = NULL
    /\ t = Worker => InCallback
    /\ allocs < MaxAllocs
    /\ sp_owner \in {NULL, t}
    /\ \A m \in Meas : mes[m] # NULL
    /\ sp_owner' = t
    /\ allocs' = allocs + 1
    /\ UNCHANGED <<registry, mes, held, queue, cache, w>>

\* Mutants of step_pm_put: the NULL check is missing; the newest goes first.
PutUnchecked(t) ==
    /\ t = Worker => InCallback
    /\ queue' = Append(queue, held[t])
    /\ held' = [held EXCEPT ![t] = NULL]
    /\ UNCHANGED <<registry, mes, sp_owner, allocs, cache, w>>

PutFirst(t) ==
    /\ held[t] # NULL
    /\ t = Worker => InCallback
    /\ queue' = <<held[t]>> \o queue
    /\ held' = [held EXCEPT ![t] = NULL]
    /\ UNCHANGED <<registry, mes, sp_owner, allocs, cache, w>>

\* step_pm_put.
Put(t) ==
    /\ held[t] # NULL
    /\ t = Worker => InCallback
    /\ queue' = Append(queue, held[t])
    /\ held' = [held EXCEPT ![t] = NULL]
    /\ UNCHANGED <<registry, mes, sp_owner, allocs, cache, w>>

(* step_pm_process, on the thread of the work queue.                       *)

TakeWork ==
    /\ w.pc = "idle"
    /\ queue # <<>>
    /\ w' = [w EXCEPT !.pc = "lock", !.m = Head(queue)]
    /\ queue' = Tail(queue)
    /\ UNCHANGED <<registry, mes, held, sp_owner, allocs, cache>>

StartList ==
    /\ w.pc = "lock"
    /\ reg_mutex = NULL
    /\ reg_mutex' = Worker
    /\ LET first == IF slist = <<>> THEN NONE ELSE Head(slist)
       IN  w' = Advance([w EXCEPT !.tmp = first, !.epoch = epoch,
                                  !.due = 0 .. handle_counter - 1])
    /\ UNCHANGED <<handle_counter, nodes, slist, cb_pool, reg, toggling, epoch,
                   flow, cache>>

\* The record is disabled.
PassOver ==
    /\ w.pc = "visit"
    /\ ~nodes[w.cur].enabled
    /\ w' = Advance([w EXCEPT !.skipped = @ \cup {w.cur}])
    /\ UNCHANGED <<registry, flow, cache>>

\* Mutant of the end of an evaluation: the mutex is kept.
EvaluatedLocked(n, match) ==
    /\ w' = [w EXCEPT !.node = n, !.inst = 0, !.stage = "start",
                      !.match = match,
                      !.pc = IF match THEN "chain" ELSE "relock",
                      !.ran = IF match THEN Append(@, w.cur) ELSE @]
    /\ UNCHANGED <<registry, flow>>

\* The end of an evaluation: the mutex is released, and the chain is run if
\* it matched.
Evaluated(n, match) ==
    /\ reg_mutex' = NULL
    /\ w' = [w EXCEPT !.node = n, !.inst = 0, !.stage = "start",
                      !.match = match,
                      !.pc = IF match THEN "chain" ELSE "relock",
                      !.ran = IF match THEN Append(@, w.cur) ELSE @]
    /\ UNCHANGED <<handle_counter, nodes, slist, cb_pool, reg, toggling, epoch,
                   flow>>

\* The cache knows the result.
EvaluateCached ==
    LET rec == nodes[w.cur]
        key == <<mes[w.m].bits, rec.handle>>
    IN  /\ w.pc = "visit"
        /\ rec.enabled
        /\ cache[key] # NULL
        /\ rec.node # NULL \/ ~cache[key]
        /\ Evaluated(rec.node, cache[key])
        /\ UNCHANGED cache

\* Mutant of the next definition: the cache takes a note as if it were never
\* full.
EvaluateNoRoom ==
    LET rec == nodes[w.cur]
        key == <<mes[w.m].bits, rec.handle>>
        match == Outcome(rec.node, mes[w.m])
    IN  /\ w.pc = "visit"
        /\ rec.enabled
        /\ cache[key] = NULL
        /\ rec.node # NULL
        /\ cache' = [cache EXCEPT ![key] = match]
        /\ Evaluated(rec.node, match)

\* The filters and the matched handler decide, and the cache takes a note.
Evaluate ==
    LET rec == nodes[w.cur]
        key == <<mes[w.m].bits, rec.handle>>
        match == Outcome(rec.node, mes[w.m])
    IN  /\ w.pc = "visit"
        /\ rec.enabled
        /\ cache[key] = NULL
        /\ rec.node # NULL
        /\ cache' \in Remembered(cache, key, match)
        /\ Evaluated(rec.node, match)

\* An enabled record without a node: n->callbacks is read through NULL.
EvaluateNull ==
    LET rec == nodes[w.cur]
        key == <<mes[w.m].bits, rec.handle>>
    IN  /\ w.pc = "visit"
        /\ rec.enabled
        /\ rec.node = NULL
        /\ cache[key] # FALSE
        /\ w' = [w EXCEPT !.pc = "fault"]
        /\ UNCHANGED <<registry, flow, cache>>

\* A handler is called and returns r.  The error handler is called for an
\* error whether there is one or not.
CallHandler(r) ==
    /\ w.pc = "chain"
    /\ w.stage \in Handlers[w.node]
    /\ r # OK => HandlersFail
    /\ w' = IF r # OK /\ w.node \notin ErrorHandlers
            THEN [w EXCEPT !.pc = "fault"]
            ELSE AfterStage(w)
    /\ UNCHANGED <<registry, flow, cache>>

SkipHandler ==
    /\ w.pc = "chain"
    /\ w.stage \notin Handlers[w.node]
    /\ w' = AfterStage(w)
    /\ UNCHANGED <<registry, flow, cache>>

\* The chain has run: to its first subscriber.
StartSubscribers ==
    LET subs == nodes[w.cur].subs
        first == IF subs = <<>> THEN 0 ELSE Head(subs)
    IN  /\ w.pc = "chain_end"
        /\ w' = [w EXCEPT !.pc = IF first = 0 THEN "relock" ELSE "subs",
                          !.sub = first, !.subtmp = NextSub(first),
                          !.subs = subs, !.called = <<>>]
        /\ UNCHANGED <<registry, flow, cache>>

CallSubscriber ==
    /\ w.pc = "subs"
    /\ w' = [w EXCEPT !.called = Append(@, w.sub),
                      !.sub = w.subtmp, !.subtmp = NextSub(w.subtmp),
                      !.pc = IF w.subtmp = 0 THEN "relock" ELSE "subs"]
    /\ UNCHANGED <<registry, flow, cache>>

Relock ==
    /\ w.pc = "relock"
    /\ reg_mutex = NULL
    /\ reg_mutex' = Worker
    /\ w' = Advance(w)
    /\ UNCHANGED <<handle_counter, nodes, slist, cb_pool, reg, toggling, epoch,
                   flow, cache>>

\* Mutants of the end of processing: the measurement is not given back; the
\* mutex is not released.
FinishLeaks ==
    /\ w.pc = "finish"
    /\ reg_mutex' = NULL
    /\ w' = Idle
    /\ UNCHANGED <<handle_counter, nodes, slist, cb_pool, reg, toggling, epoch,
                   flow, cache>>

FinishLocked ==
    /\ w.pc = "finish"
    /\ sp_owner \in {NULL, Worker}
    /\ mes' = [mes EXCEPT ![w.m] = NULL]
    /\ w' = Idle
    /\ UNCHANGED <<registry, held, sp_owner, allocs, queue, cache>>

\* The measurement goes back to the pool, then the mutex is released.
Finish ==
    /\ w.pc = "finish"
    /\ sp_owner \in {NULL, Worker}
    /\ mes' = [mes EXCEPT ![w.m] = NULL]
    /\ reg_mutex' = NULL
    /\ w' = Idle
    /\ UNCHANGED <<handle_counter, nodes, slist, cb_pool, reg, toggling, epoch,
                   held, sp_owner, allocs, queue, cache>>

(* The registry calls of Registry; clear also empties the cache.           *)

\* Mutant: clear leaves the cache alone.
ClearKeepsCache == Clear /\ UNCHANGED <<flow, cache, w>>

ClearAll ==
    /\ Clear
    /\ cache' = [k \in Keys |-> NULL]
    /\ UNCHANGED <<flow, w>>

RegistryCall ==
    /\ \/ \E c \in Clients, n \in Nodes, pri \in Priorities :
             Register(c, n, pri)
       \/ RegisterStep
       \/ \E t \in Togglers, h \in Slots, on \in BOOLEAN :
             CheckHandle(t, h, on)
       \/ \E t \in Togglers : SetEnabled(t)
       \/ \E h \in Slots, cb \in Callbacks : Subscribe(h, cb)
    /\ UNCHANGED <<flow, cache, w>>

ProcessStep ==
    \/ TakeWork \/ StartList \/ PassOver
    \/ EvaluateCached \/ Evaluate \/ EvaluateNull
    \/ \E r \in {OK, EFAIL} : CallHandler(r)
    \/ SkipHandler
    \/ StartSubscribers \/ CallSubscriber
    \/ Relock \/ Finish

ManagerNext ==
    \/ \E t \in Threads, b \in Bits, p \in Payloads : Alloc(t, b, p)
    \/ \E t \in Threads : AllocFails(t) \/ Put(t)
    \/ ProcessStep
    \/ ClearAll
    \/ RegistryCall

\* The thread of the work queue runs, and what it calls returns; so do init
\* handlers.  The mutex it waits for is only held across steps by a
\* registration, of which there are NODE_LIMIT between two clears.
ManagerFairness ==
    /\ WF_vars(ProcessStep)
    /\ WF_vars(RegisterStep /\ UNCHANGED <<flow, cache, w>>)

ManagerSpec == ManagerInit /\ [][ManagerNext]_vars /\ ManagerFairness

-----------------------------------------------------------------------------
(* Properties.                                                             *)

Places == {"idle", "lock", "visit", "chain", "chain_end", "subs", "relock",
           "finish", "fault"}

ManagerTypeOK ==
    /\ TypeOK
    /\ mes \in [Meas -> Header \cup {NULL}]
    /\ held \in [Threads -> Meas \cup {NULL}]
    /\ sp_owner \in Threads \cup {NULL}
    /\ allocs \in 0 .. MaxAllocs
    /\ queue \in Seq(Meas)
    /\ cache \in [Keys -> BOOLEAN \cup {NULL}]
    /\ DOMAIN w = DOMAIN Idle
    /\ w.pc \in Places
    /\ w.m \in Meas \cup {NULL}
    /\ {w.cur, w.tmp} \subseteq Handles \cup {NONE}
    /\ w.node \in Nodes \cup {NULL}
    /\ w.inst \in Nat /\ w.stage \in Stages
    /\ {w.sub, w.subtmp} \subseteq 0 .. Len(cb_pool)
    /\ w.match \in BOOLEAN

\* Processing holds the registry mutex exactly while it walks the list: no
\* handler or subscriber runs with it, and no registration, clear or
\* subscription happens in the middle of an evaluation.
ProcessingLocked ==
    /\ w.pc \in {"visit", "finish"} => reg_mutex = Worker
    /\ reg_mutex = Worker => w.pc \in {"visit", "finish", "fault"}
    /\ reg # NULL => reg_mutex = reg.client

\* Every measurement is in one place: with the thread that allocated it, once
\* in the queue, or in processing, and its block is free exactly when it is in
\* none.  So no callback sees a measurement that has been freed, and none is
\* lost or processed twice.
InPlace(m) ==
    {<<"held", t>> : t \in {u \in Threads : held[u] = m}}
        \cup {<<"queue", i>> : i \in {j \in 1 .. Len(queue) : queue[j] = m}}
        \cup {<<"worker", 0>> : i \in {j \in {0} : w.m = m}}

MeasurementsOwned ==
    \A m \in Meas :
        Cardinality(InPlace(m)) = IF mes[m] = NULL THEN 0 ELSE 1

\* While no clear intervenes, nodes run in the order of the registry, each at
\* most once, whatever is registered during processing.
RunOrder ==
    w.epoch = epoch =>
        \A i, j \in 1 .. Len(w.ran) : i < j => Precedes(w.ran[i], w.ran[j])

\* While no clear intervenes, a measurement is only given back after every node
\* that was registered when processing began has been offered it: the nodes it
\* matches have run, and no other has.
EveryMatchRuns ==
    w.epoch = epoch =>
        /\ \A i \in 1 .. Len(w.ran) :
              Outcome(nodes[w.ran[i]].node, mes[w.m])
        /\ w.pc = "finish" =>
              \A h \in w.due \ w.skipped :
                  Outcome(nodes[h].node, mes[w.m]) =>
                      \E i \in 1 .. Len(w.ran) : w.ran[i] = h

\* While no clear intervenes, the subscribers of a node that has run are called
\* once each in the order they subscribed; one that subscribes meanwhile may or
\* may not be called.
SubscribersCalled ==
    w.epoch = epoch /\ w.pc \in {"subs", "relock"} /\ w.match =>
        /\ IsPrefix(w.called, nodes[w.cur].subs)
        /\ w.pc = "relock" => IsPrefix(w.subs, w.called)

\* What the cache knows of a handle is what evaluation would find now, of the
\* node that is now registered under it.
CacheSound ==
    \A b \in Bits, h \in Handles : cache[<<b, h>>] # NULL =>
        /\ h < handle_counter
        /\ cache[<<b, h>>] = (<<nodes[h].node, b>> \in Accepts)

\* A callback that is not there has been called.
Faulted == w.pc = "fault" \/ (reg # NULL /\ reg.fault)

\* Nothing is given back any more: after a fault, or because an allocation of
\* another thread has failed and kept the pool's mutex.
Stopped == Faulted \/ sp_owner \notin {NULL, Worker}

\* Every measurement that is put is processed and given back, unless the
\* manager stops: an allocation that fails in a thread of the application ends
\* processing for good, one that fails in a callback of the manager does not.
Processed ==
    \A m \in Meas : (\E i \in 1 .. Len(queue) : queue[i] = m) ~>
                       mes[m] = NULL \/ Stopped

\* The manager implements MeasurementFlow: in order, one at a time, each given
\* back once, for as long as it has not stopped.
Flow == INSTANCE MeasurementFlow WITH
            owned <- {m \in Meas : \E t \in Threads : held[t] = m},
            pending <- queue,
            busy <- w.m,
            stopped <- Stopped

FlowImplemented == Flow!Spec

\* All the manager relies on in its cache is that it is a memo: it asks for a
\* result before it adds one, adds one for a key that has none, and bears with
\* the loss of another when there is no room.
Memo == INSTANCE LossyMemo WITH
            Results <- BOOLEAN, DEPTH <- CACHE_DEPTH, memo <- cache

CacheUsedAsMemo == Memo!Spec

\* While every node that can fail has an error handler, no callback is called
\* through a null pointer: no record without a node is found enabled, not even
\* when the registry is cleared under the processing of a measurement, as long
\* as no store has enabled a record that is not registered.  The code lets one:
\* enable checks its handle and stores the flag without the mutex, and a clear
\* may come between them.
NoFault == ~stray => ~Faulted
=============================================================================
