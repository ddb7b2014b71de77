------------------------------ MODULE Registry ------------------------------
(***************************************************************************)
(* The processor node registry of src/proc_mgr.c: the static table of node *)
(* records, the linked list that holds them in evaluation order, the heap  *)
(* of subscriber callbacks, and the API calls that change them.            *)
(*                                                                         *)
(* Every call but enable and disable runs under the mutex                  *)
(* step_pm_reg_access and takes it for the whole call, so a call is one    *)
(* action; registration alone is several, because it calls the chain's     *)
(* init handlers with the mutex held.  Enable and disable take no mutex:   *)
(* their check of the handle and their store are two actions.  A call that *)
(* returns an error changes nothing: it is a stuttering step and has no    *)
(* action.                                                                 *)
(***************************************************************************)
EXTENDS Integers, Sequences, SequencesExt

CONSTANTS
    NODE_LIMIT,     \* CONFIG_STEP_PROC_MGR_NODE_LIMIT
    CALLBACKS_NUM,  \* CONFIG_STEP_PROC_MGR_CALLBACKS_NUM
    Clients,        \* the threads that register nodes
    Togglers,       \* the threads that enable and disable nodes
    Worker,         \* the thread that processes measurements
    Nodes,          \* the node chains an application defines
    ChainLen,       \* the number of instances in each chain
    InitHandlers,   \* the instances of each chain that have an init handler
    ErrorHandlers,  \* the chains whose instances have an error handler
    Priorities,     \* the priorities registrations use
    Callbacks,      \* the subscriber callbacks
    AnyHandle,      \* TRUE: clients also pass handles that are not registered
    MaxClears,      \* bound: how often the registry is cleared
    MaxToggles,     \* bound: how often enable and disable are called
    NULL

ASSUME RegistryAssumption ==
    /\ NODE_LIMIT \in Nat \ {0}
    /\ CALLBACKS_NUM \in Nat
    /\ ChainLen \in [Nodes -> Nat \ {0}]
    /\ InitHandlers \in [Nodes -> SUBSET Nat]
    /\ ErrorHandlers \subseteq Nodes
    /\ Priorities \subseteq Nat
    /\ AnyHandle \in BOOLEAN
    /\ MaxClears \in Nat /\ MaxToggles \in Nat
    /\ Worker \notin Clients
    /\ NULL \notin Nodes \cup Clients \cup {Worker}
    /\ NULL \notin [handle : 0 .. NODE_LIMIT, on : BOOLEAN]

VARIABLES
    handle_counter, \* step_pm_handle_counter
    nodes,          \* step_pm_nodes: handle -> node record, and the memory
                    \* behind the table seen as one more record
    slist,          \* pm_node_slist: the registered handles, first to last
    cb_pool,        \* the chunks taken from step_callbacks_pool, oldest first
    reg_mutex,      \* who holds step_pm_reg_access, NULL when it is free
    reg,            \* the registration whose init handlers are running, or NULL
    toggle,         \* thread -> the enable or disable that has checked its
                    \* handle and not stored yet, or NULL
    toggles,        \* history: how many of those calls there have been
    stray,          \* history: TRUE once a store has enabled a record of the
                    \* table that is not registered
    epoch           \* history: the number of clears so far

toggling == <<toggle, toggles, stray>>
registry == <<handle_counter, nodes, slist, cb_pool, reg_mutex, reg, toggling,
              epoch>>

Handles == 0 .. NODE_LIMIT - 1
Slots == 0 .. NODE_LIMIT        \* the table and the memory behind it
Chunks == 1 .. CALLBACKS_NUM
OK == 0
EFAIL == -1         \* whatever negative code an init handler returns

NodeRecord == [node : Nodes \cup {NULL}, priority : Nat, handle : Handles,
               enabled : BOOLEAN, subs : Seq(Chunks)]

Chunk == [cb : Callbacks, next : 0 .. CALLBACKS_NUM]

Toggle == [handle : Slots, on : BOOLEAN]

Registration == [client : Clients, handle : Handles, inst : Nat,
                 rc : {OK, EFAIL}, fault : BOOLEAN]

-----------------------------------------------------------------------------
(* Helpers.                                                                *)

\* Mutant: the enabled flag survives the memset.
ZeroedEnabled == [node |-> NULL, priority |-> 0, handle |-> 0, enabled |-> TRUE,
                  subs |-> <<>>]

\* A record after memset(&step_pm_nodes[i], 0, ...).
Zeroed == [node |-> NULL, priority |-> 0, handle |-> 0, enabled |-> FALSE,
           subs |-> <<>>]

\* A record as registration leaves it: memset, then every field filled in.
NewRecord(h, n, pri) == [node |-> n, priority |-> pri, handle |-> h,
                         enabled |-> TRUE, subs |-> <<>>]

\* Mutant: the scan stops at an equal priority.
InsertionPointEqual(k, pri) ==
    /\ \A i \in 1 .. k : ~(pri >= nodes[slist[i]].priority)
    /\ k < Len(slist) => pri >= nodes[slist[k + 1]].priority

\* The first k records of the list stay ahead of a record of priority pri: the
\* scan goes on while pri is not larger, and stops at the first smaller one.
InsertionPoint(k, pri) ==
    /\ \A i \in 1 .. k : ~(pri > nodes[slist[i]].priority)
    /\ k < Len(slist) => pri > nodes[slist[k + 1]].priority

\* The check disable, enable and subscribe make of the handle they are given.
HandleAccepted(h) == ~(h > handle_counter)

\* The handles callers pass: those of registered nodes, or any value up to the
\* size of the table.
HandlePassed(h) == AnyHandle \/ h < handle_counter

\* Mutant: the old tail is not linked to the new chunk.
LinkedNot(subs, c) == cb_pool

\* The chunks with chunk c appended to list subs: the old tail links to it.
Linked(subs, c) ==
    IF subs = <<>> THEN cb_pool ELSE [cb_pool EXCEPT ![Last(subs)].next = c]

-----------------------------------------------------------------------------
Init ==
    /\ handle_counter = 0
    /\ nodes = [h \in Slots |-> Zeroed]
    /\ slist = <<>>
    /\ cb_pool = <<>>
    /\ reg_mutex = NULL
    /\ reg = NULL
    /\ toggle = [t \in Togglers |-> NULL]
    /\ toggles = 0
    /\ stray = FALSE
    /\ epoch = 0

\* step_pm_register up to its init handlers: take the mutex, take the next
\* handle, fill its record and insert it into the list.
Register(c, n, pri) ==
    /\ reg_mutex = NULL
    /\ handle_counter # NODE_LIMIT
    /\ handle_counter' = handle_counter + 1
    /\ nodes' = [nodes EXCEPT ![handle_counter] =
                                  NewRecord(handle_counter, n, pri)]
    /\ \E k \in 0 .. Len(slist) :
          /\ InsertionPoint(k, pri)
          /\ slist' = InsertAt(slist, k + 1, handle_counter)
    /\ reg_mutex' = c
    /\ reg' = [client |-> c, handle |-> handle_counter, inst |-> 0, rc |-> OK,
               fault |-> FALSE]
    /\ UNCHANGED <<cb_pool, toggling, epoch>>

\* A registration is at its init handlers, and no call has gone wrong.
Initializing == reg # NULL /\ ~reg.fault

\* The init handler of the current instance returns r; its code replaces the
\* code of the instance before it.  For an error the error handler is called,
\* whether there is one or not.
CallInitHandler(r) ==
    /\ Initializing
    /\ reg.inst < ChainLen[nodes[reg.handle].node]
    /\ reg.inst \in InitHandlers[nodes[reg.handle].node]
    /\ reg' = IF r # OK /\ nodes[reg.handle].node \notin ErrorHandlers
              THEN [reg EXCEPT !.fault = TRUE]
              ELSE [reg EXCEPT !.inst = @ + 1, !.rc = r]
    /\ UNCHANGED <<handle_counter, nodes, slist, cb_pool, reg_mutex, toggling,
                   epoch>>

\* The current instance has no init handler.
SkipInitHandler ==
    /\ Initializing
    /\ reg.inst < ChainLen[nodes[reg.handle].node]
    /\ reg.inst \notin InitHandlers[nodes[reg.handle].node]
    /\ reg' = [reg EXCEPT !.inst = @ + 1]
    /\ UNCHANGED <<handle_counter, nodes, slist, cb_pool, reg_mutex, toggling,
                   epoch>>

\* step_pm_register releases the mutex and returns reg.rc.
RegisterReturn ==
    /\ Initializing
    /\ reg.inst = ChainLen[nodes[reg.handle].node]
    /\ reg' = NULL
    /\ reg_mutex' = NULL
    /\ UNCHANGED <<handle_counter, nodes, slist, cb_pool, toggling, epoch>>

\* The table after the memsets of step_pm_clear; what is behind it stays.
ZeroedTable == [h \in Slots |-> IF h \in Handles THEN Zeroed ELSE nodes[h]]

\* Mutant: the linked list is not reset.
ClearKeepsList ==
    /\ epoch < MaxClears
    /\ reg_mutex = NULL
    /\ handle_counter' = 0
    /\ nodes' = ZeroedTable
    /\ epoch' = epoch + 1
    /\ UNCHANGED <<slist, cb_pool, reg_mutex, reg, toggling>>

\* step_pm_clear: every record is zeroed and the list emptied.  The chunks of
\* the subscriber lists stay allocated: no call of the API frees one.
Clear ==
    /\ epoch < MaxClears
    /\ reg_mutex = NULL
    /\ handle_counter' = 0
    /\ nodes' = ZeroedTable
    /\ slist' = <<>>
    /\ epoch' = epoch + 1
    /\ UNCHANGED <<cb_pool, reg_mutex, reg, toggling>>

\* step_pm_enable_node and step_pm_disable_node, which take no mutex: the check
\* of the handle, and later the store of the flag.
CheckHandle(t, h, on) ==
    /\ toggle[t] = NULL
    /\ toggles < MaxToggles
    /\ HandlePassed(h) /\ HandleAccepted(h)
    /\ toggle' = [toggle EXCEPT ![t] = [handle |-> h, on |-> on]]
    /\ toggles' = toggles + 1
    /\ UNCHANGED <<handle_counter, nodes, slist, cb_pool, reg_mutex, reg, stray,
                   epoch>>

SetEnabled(t) ==
    LET h == toggle[t].handle
        on == toggle[t].on
    IN  /\ toggle[t] # NULL
        /\ nodes' = [nodes EXCEPT ![h].enabled = on]
        /\ toggle' = [toggle EXCEPT ![t] = NULL]
        /\ stray' = (stray \/ (on /\ h \in Handles /\ h >= handle_counter))
        /\ UNCHANGED <<handle_counter, slist, cb_pool, reg_mutex, reg, toggles,
                       epoch>>

\* Mutant: the new chunk replaces the list.
SubscribeReplaces(h, cb) ==
    /\ reg_mutex = NULL
    /\ HandlePassed(h) /\ HandleAccepted(h)
    /\ Len(cb_pool) < CALLBACKS_NUM
    /\ cb_pool' = Append(cb_pool, [cb |-> cb, next |-> 0])
    /\ nodes' = [nodes EXCEPT ![h].subs = <<Len(cb_pool) + 1>>]
    /\ UNCHANGED <<handle_counter, slist, reg_mutex, reg, toggling, epoch>>

\* step_pm_subscribe_to_node: take a chunk and append it to the record's list.
\* With the table full, the first handle past it is let through too.
Subscribe(h, cb) ==
    LET c == Len(cb_pool) + 1
    IN  /\ reg_mutex = NULL
        /\ HandlePassed(h) /\ HandleAccepted(h)
        /\ Len(cb_pool) < CALLBACKS_NUM
        /\ cb_pool' = Append(Linked(nodes[h].subs, c), [cb |-> cb, next |-> 0])
        /\ nodes' = [nodes EXCEPT ![h].subs = Append(@, c)]
        /\ UNCHANGED <<handle_counter, slist, reg_mutex, reg, toggling,
                       epoch>>

\* The init handlers and the return of a registration: its thread runs them.
RegisterStep ==
    \/ \E r \in {OK, EFAIL} : CallInitHandler(r)
    \/ SkipInitHandler
    \/ RegisterReturn

Next ==
    \/ \E c \in Clients, n \in Nodes, pri \in Priorities : Register(c, n, pri)
    \/ RegisterStep
    \/ Clear
    \/ \E t \in Togglers, h \in Slots, on \in BOOLEAN : CheckHandle(t, h, on)
    \/ \E t \in Togglers : SetEnabled(t)
    \/ \E h \in Slots, cb \in Callbacks : Subscribe(h, cb)

\* Init handlers return, and a thread that has called register goes on.
Fairness == WF_registry(RegisterStep)

Spec == Init /\ [][Next]_registry /\ Fairness

-----------------------------------------------------------------------------
(* Properties.                                                             *)

TypeOK ==
    /\ handle_counter \in 0 .. NODE_LIMIT
    /\ nodes \in [Slots -> NodeRecord]
    /\ slist \in Seq(Handles)
    /\ cb_pool \in Seq(Chunk)
    /\ Len(cb_pool) <= CALLBACKS_NUM
    /\ reg_mutex \in Clients \cup {Worker, NULL}
    /\ reg \in Registration \cup {NULL}
    /\ toggle \in [Togglers -> Toggle \cup {NULL}]
    /\ toggles \in 0 .. MaxToggles
    /\ stray \in BOOLEAN
    /\ epoch \in Nat

\* The list that processing follows holds every registered handle exactly
\* once and nothing else, and each has a node and its own handle in its record.
\* A record linked twice would be a cycle that processing never leaves; one
\* that is missing is a node that never sees a measurement.
ListSound ==
    /\ Len(slist) = handle_counter
    /\ \A i \in 1 .. Len(slist) : slist[i] < handle_counter
    /\ \A i, j \in 1 .. Len(slist) : slist[i] = slist[j] => i = j
    /\ \A h \in 0 .. handle_counter - 1 : \E i \in 1 .. Len(slist) : slist[i] = h
    /\ \A h \in 0 .. handle_counter - 1 :
          nodes[h].node # NULL /\ nodes[h].handle = h

\* Evaluation order: a record stands before another exactly when its priority
\* is larger or, at equal priority, it was registered earlier (proc_mgr.h,
\* step_pm_register).
Precedes(g, h) ==
    \/ nodes[g].priority > nodes[h].priority
    \/ nodes[g].priority = nodes[h].priority /\ g < h

PriorityOrder ==
    \A i, j \in 1 .. Len(slist) : i < j => Precedes(slist[i], slist[j])

\* Subscriber lists: a chunk belongs to one record at most, the chunks of a
\* record are in the order they were subscribed, and following their next
\* links from the first one visits exactly them.  So it is even of the list
\* that subscriptions build behind a full table, whose chunks no record of the
\* table ever shares.
SubsLinked(h) ==
    LET subs == nodes[h].subs
    IN  \A i \in 1 .. Len(subs) :
           /\ subs[i] <= Len(cb_pool)
           /\ \A j \in i + 1 .. Len(subs) : subs[i] < subs[j]
           /\ i < Len(subs) => cb_pool[subs[i]].next = subs[i + 1]
           /\ i = Len(subs) => cb_pool[subs[i]].next = 0

SubsDisjoint(g, h) ==
    \A i \in 1 .. Len(nodes[g].subs), j \in 1 .. Len(nodes[h].subs) :
        nodes[g].subs[i] # nodes[h].subs[j]

SubsSound ==
    /\ \A h \in Slots : SubsLinked(h)
    /\ \A g, h \in Slots : g # h => SubsDisjoint(g, h)

\* Until the next clear a registration is stable: whatever else is registered,
\* enabled, disabled or subscribed, the node keeps its record, its priority and
\* its subscribers, and no two nodes ever swap their order.
RegistrationKept ==
    epoch' = epoch =>
        /\ \A h \in 0 .. handle_counter - 1 :
              /\ nodes'[h].node = nodes[h].node
              /\ nodes'[h].priority = nodes[h].priority
              /\ \A i \in 1 .. Len(nodes[h].subs) :
                    nodes'[h].subs[i] = nodes[h].subs[i]
        /\ \A i, j \in 1 .. Len(slist) : i < j =>
              \E k, l \in 1 .. Len(slist') :
                  k < l /\ slist'[k] = slist[i] /\ slist'[l] = slist[j]

RegistrationStable == [][RegistrationKept]_registry

\* A registration that is running its init handlers holds the mutex, and its
\* node is registered.
MutexSound ==
    reg # NULL => reg_mutex = reg.client /\ reg.handle < handle_counter
=============================================================================
