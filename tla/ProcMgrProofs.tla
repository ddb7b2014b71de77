---------------------------- MODULE ProcMgrProofs ----------------------------
(***************************************************************************)
(* The registry and the manager at work, for every number of threads,      *)
(* nodes, measurements and bits.  The registry on its own: the list holds  *)
(* each registered node once and in order, subscriber lists are intact,    *)
(* and registrations last.  The manager: the registry stays sound while    *)
(* measurements are processed, every variable keeps its type,              *)
(* processing holds its mutex exactly while it walks the list, every       *)
(* measurement is in one place, and what happens to measurements is what   *)
(* MeasurementFlow allows.  Nodes run in the order of the registry, each   *)
(* that matches and none that does not, and their subscribers after them;  *)
(* no null pointer is called, the cache knows what the filters decide, and *)
(* the manager asks no more of it than LossyMemo promises.                 *)
(***************************************************************************)
EXTENDS ProcMgr, SequenceTheorems, FiniteSetTheorems, TLAPS

-----------------------------------------------------------------------------
(* The registry on its own: lists, priorities, subscribers.                *)

\* Inserting e behind the first k elements of s moves the others up by one.
InsertsBehind(S, s, k, e) ==
    /\ InsertAt(s, k + 1, e) \in Seq(S)
    /\ Len(InsertAt(s, k + 1, e)) = Len(s) + 1
    /\ \A i \in 1 .. Len(s) + 1 :
          InsertAt(s, k + 1, e)[i] = IF i <= k THEN s[i]
                                     ELSE IF i = k + 1 THEN e
                                     ELSE s[i - 1]

LEMMA InsertAtElements ==
    ASSUME NEW S, NEW s \in Seq(S), NEW k \in 0 .. Len(s), NEW e \in S
    PROVE  InsertsBehind(S, s, k, e)
<1> DEFINE front == SubSeq(s, 1, k)
           back == SubSeq(s, k + 1, Len(s))
           left == front \o <<e>>
           t == left \o back
<1>1. Len(s) \in Nat /\ k \in Nat /\ k <= Len(s)
  BY LenProperties
<1>2. /\ front \in Seq(S) /\ Len(front) = k
      /\ \A i \in 1 .. k : front[i] = s[i]
  <2>1. \A i \in 1 .. k : s[i] \in S
    BY <1>1, ElementOfSeq
  <2> QED  BY <1>1, <2>1, SubSeqProperties
<1>3. /\ back \in Seq(S) /\ Len(back) = Len(s) - k
      /\ \A i \in 1 .. Len(s) - k : back[i] = s[k + i]
  <2>1. \A i \in k + 1 .. Len(s) : s[i] \in S
    BY <1>1, ElementOfSeq
  <2> QED  BY <1>1, <2>1, SubSeqProperties
<1>4. InsertAt(s, k + 1, e) = t
  <2>1. (k + 1) - 1 = k
    BY <1>1
  <2>2. InsertAt(s, k + 1, e) =
          SubSeq(s, 1, (k + 1) - 1) \o <<e>> \o SubSeq(s, k + 1, Len(s))
    BY Zenon DEF InsertAt
  <2> QED  BY <2>1, <2>2, Zenon
<1> HIDE DEF front, back
<1>5. /\ left \in Seq(S) /\ Len(left) = k + 1
      /\ \A i \in 1 .. k + 1 : left[i] = IF i <= k THEN front[i] ELSE e
  <2>1. <<e>> \in Seq(S) /\ Len(<<e>>) = 1 /\ <<e>>[1] = e
    OBVIOUS
  <2> DEFINE one == <<e>>
  <2> HIDE DEF one
  <2>2. /\ front \o one \in Seq(S) /\ Len(front \o one) = k + 1
        /\ \A i \in 1 .. k + 1 : (front \o one)[i] =
               IF i <= k THEN front[i] ELSE one[i - k]
    <3>1. one \in Seq(S) /\ Len(one) = 1
      BY <2>1 DEF one
    <3>2. /\ front \o one \in Seq(S) /\ Len(front \o one) = Len(front) + Len(one)
          /\ \A i \in 1 .. Len(front) + Len(one) : (front \o one)[i] =
                 IF i <= Len(front) THEN front[i] ELSE one[i - Len(front)]
      BY <1>2, <3>1, ConcatProperties, Zenon
    <3> QED  BY <1>2, <3>1, <3>2, Zenon
  <2>3. \A i \in 1 .. k + 1 : ~(i <= k) => i - k = 1
    BY <1>1
  <2>4. one[1] = e
    BY <2>1 DEF one
  <2>5. \A i \in 1 .. k + 1 : (front \o one)[i] = IF i <= k THEN front[i] ELSE e
    BY <2>2, <2>3, <2>4, Zenon
  <2> QED  BY <2>2, <2>5, Zenon DEF one
<1> HIDE DEF left
<1>6. /\ t \in Seq(S) /\ Len(t) = Len(s) + 1
      /\ \A i \in 1 .. Len(s) + 1 :
            t[i] = IF i <= k + 1 THEN left[i] ELSE back[i - (k + 1)]
  <2>1. /\ t \in Seq(S) /\ Len(t) = Len(left) + Len(back)
        /\ \A i \in 1 .. Len(left) + Len(back) :
              t[i] = IF i <= Len(left) THEN left[i] ELSE back[i - Len(left)]
    BY <1>3, <1>5, ConcatProperties, Zenon
  <2>2. Len(left) + Len(back) = Len(s) + 1
    BY <1>1, <1>3, <1>5
  <2> QED  BY <1>5, <2>1, <2>2, Zenon
<1> HIDE DEF t
<1>7. ASSUME NEW i \in 1 .. Len(s) + 1
      PROVE  t[i] = IF i <= k THEN s[i] ELSE IF i = k + 1 THEN e ELSE s[i - 1]
  <2>1. CASE i <= k
    BY <1>1, <1>2, <1>5, <1>6, <2>1
  <2>2. CASE i = k + 1
    BY <1>1, <1>5, <1>6, <2>2
  <2>3. CASE i > k + 1
    <3>1. i - (k + 1) \in 1 .. Len(s) - k /\ k + (i - (k + 1)) = i - 1
      BY <1>1, <2>3
    <3>2. back[i - (k + 1)] = s[i - 1]
      BY <1>3, <3>1
    <3> QED  BY <1>1, <1>6, <2>3, <3>2
  <2> QED  BY <1>1, <2>1, <2>2, <2>3
<1> QED  BY <1>4, <1>6, <1>7 DEF InsertsBehind

-----------------------------------------------------------------------------
(* What an insertion does to a list s of the handles below n that becomes   *)
(* list t, handle n going behind the first k: what InsertAtElements gives.  *)

Inserted(s, t, n, k) ==
    \A i \in 1 .. n + 1 : t[i] = IF i <= k THEN s[i]
                                 ELSE IF i = k + 1 THEN n ELSE s[i - 1]

\* s holds each handle below n once.
Lists(s, n) ==
    /\ \A i \in 1 .. n : s[i] \in Nat /\ s[i] < n
    /\ \A i, j \in 1 .. n : s[i] = s[j] => i = j
    /\ \A h \in 0 .. n - 1 : \E i \in 1 .. n : s[i] = h

\* s is in evaluation order when handle h has priority p[h].
Ordered(s, n, p) ==
    \A i, j \in 1 .. n : i < j =>
        \/ p[s[i]] > p[s[j]]
        \/ p[s[i]] = p[s[j]] /\ s[i] < s[j]

\* The list stays free of duplicates and gains handle n.
LEMMA InsertionKeepsPermutation ==
    ASSUME NEW n \in Nat, NEW k \in 0 .. n, NEW s, NEW t,
           Lists(s, n), Inserted(s, t, n, k)
    PROVE  Lists(t, n + 1)
<1> USE DEF Inserted, Lists
<1>1. \A i \in 1 .. k : i \in 1 .. n /\ i \in 1 .. n + 1 /\ t[i] = s[i]
  OBVIOUS
<1>2. k + 1 \in 1 .. n + 1 /\ t[k + 1] = n
  OBVIOUS
<1>3. \A i \in k + 1 .. n : i \in 1 .. n /\ i + 1 \in 1 .. n + 1 /\ t[i + 1] = s[i]
  OBVIOUS
<1>4. \A i \in k + 2 .. n + 1 : i - 1 \in 1 .. n /\ t[i] = s[i - 1]
  OBVIOUS
<1>5. \A i \in 1 .. n + 1 : t[i] \in Nat /\ t[i] < n + 1
  <2> TAKE i \in 1 .. n + 1
  <2>1. CASE i <= k
    BY <1>1, <2>1
  <2>2. CASE i = k + 1
    BY <1>2, <2>2
  <2>3. CASE i > k + 1
    BY <1>4, <2>3
  <2> QED  BY <2>1, <2>2, <2>3
<1>6. ASSUME NEW i \in 1 .. n + 1, NEW j \in 1 .. n + 1, t[i] = t[j]
      PROVE  i = j
  <2>1. CASE i <= k
    <3>1. CASE j <= k
      BY <1>1, <1>6, <2>1, <3>1
    <3>2. CASE j = k + 1
      BY <1>1, <1>2, <1>6, <2>1, <3>2
    <3>3. CASE j > k + 1
      BY <1>1, <1>4, <1>6, <2>1, <3>3
    <3> QED  BY <3>1, <3>2, <3>3
  <2>2. CASE i = k + 1
    <3>1. CASE j <= k
      BY <1>1, <1>2, <1>6, <2>2, <3>1
    <3>2. CASE j > k + 1
      BY <1>2, <1>4, <1>6, <2>2, <3>2
    <3> QED  BY <2>2, <3>1, <3>2
  <2>3. CASE i > k + 1
    <3>1. CASE j <= k
      BY <1>1, <1>4, <1>6, <2>3, <3>1
    <3>2. CASE j = k + 1
      BY <1>2, <1>4, <1>6, <2>3, <3>2
    <3>3. CASE j > k + 1
      BY <1>4, <1>6, <2>3, <3>3
    <3> QED  BY <3>1, <3>2, <3>3
  <2> QED  BY <2>1, <2>2, <2>3
<1>7. ASSUME NEW h \in 0 .. (n + 1) - 1
      PROVE  \E i \in 1 .. n + 1 : t[i] = h
  <2>1. CASE h = n
    BY <1>2, <2>1
  <2>2. CASE h # n
    <3>1. PICK i \in 1 .. n : s[i] = h
      BY <2>2
    <3>2. CASE i <= k
      BY <1>1, <3>1, <3>2
    <3>3. CASE i > k
      BY <1>3, <3>1, <3>3
    <3> QED  BY <3>2, <3>3
  <2> QED  BY <2>1, <2>2
<1> QED  BY <1>5, <1>6, <1>7

\* If s is in evaluation order and k is the insertion point registration looks
\* for, t is in evaluation order too.
LEMMA InsertionKeepsOrder ==
    ASSUME NEW n \in Nat, NEW k \in 0 .. n, NEW s, NEW t, NEW p,
           \A h \in 0 .. n : p[h] \in Nat,
           Lists(s, n), Inserted(s, t, n, k), Ordered(s, n, p),
           \A i \in 1 .. k : ~(p[n] > p[s[i]]),
           k < n => p[n] > p[s[k + 1]]
    PROVE  Ordered(t, n + 1, p)
<1> USE DEF Inserted, Ordered
<1>0. p[n] \in Nat /\ \A i \in 1 .. n : s[i] \in Nat /\ s[i] < n /\ p[s[i]] \in Nat
  BY DEF Lists
<1>1. \A i \in 1 .. k : i \in 1 .. n /\ t[i] = s[i] /\ ~(p[n] > p[s[i]])
  BY <1>0
<1>2. t[k + 1] = n
  OBVIOUS
<1>3. \A i \in k + 2 .. n + 1 : i - 1 \in k + 1 .. n /\ i - 1 \in 1 .. n /\ t[i] = s[i - 1]
  OBVIOUS
<1>4. ASSUME NEW j \in k + 1 .. n
      PROVE  p[n] > p[s[j]]
  <2>1. k + 1 \in 1 .. n /\ j \in 1 .. n /\ p[n] > p[s[k + 1]]
    OBVIOUS
  <2>2. CASE j = k + 1
    BY <2>1, <2>2
  <2>3. CASE j > k + 1
    <3>1. \/ p[s[k + 1]] > p[s[j]]
          \/ p[s[k + 1]] = p[s[j]]
      BY <1>0, <2>1, <2>3
    <3> QED  BY <1>0, <2>1, <3>1
  <2> QED  BY <2>2, <2>3
<1>5. SUFFICES ASSUME NEW i \in 1 .. n + 1, NEW j \in 1 .. n + 1, i < j
               PROVE  \/ p[t[i]] > p[t[j]]
                      \/ p[t[i]] = p[t[j]] /\ t[i] < t[j]
  OBVIOUS
<1>6. CASE j <= k
  <2>1. i \in 1 .. k /\ j \in 1 .. k
    BY <1>5, <1>6
  <2> QED  BY <1>0, <1>1, <1>5, <2>1
<1>7. CASE j = k + 1
  <2>1. i \in 1 .. k
    BY <1>5, <1>7
  <2> QED  BY <1>0, <1>1, <1>2, <1>7, <2>1
<1>8. CASE j > k + 1
  <2>1. j \in k + 2 .. n + 1
    BY <1>8
  <2>2. CASE i <= k
    <3>1. i \in 1 .. k
      BY <2>2
    <3> QED  BY <1>0, <1>1, <1>3, <1>4, <2>1, <3>1
  <2>3. CASE i = k + 1
    BY <1>0, <1>2, <1>3, <1>4, <2>1, <2>3
  <2>4. CASE i > k + 1
    <3>1. i \in k + 2 .. n + 1 /\ i - 1 < j - 1
      BY <1>5, <2>4
    <3> QED  BY <1>0, <1>3, <2>1, <3>1
  <2> QED  BY <2>2, <2>3, <2>4
<1> QED  BY <1>6, <1>7, <1>8

-----------------------------------------------------------------------------
(* The inductive invariant.  MutexSound is what keeps a clear from removing *)
(* the record of a registration that is still running its init handlers.    *)
IInv == TypeOK /\ ListSound /\ PriorityOrder /\ SubsSound /\ MutexSound

\* What is said of every slot holds of every record of the table.
LEMMA HandlesAreSlots == Handles \subseteq Slots
BY RegistryAssumption DEF Handles, Slots

LEMMA InitEstablishes == Init => IInv
<1> SUFFICES ASSUME Init PROVE IInv
  OBVIOUS
<1> USE RegistryAssumption
<1>1. TypeOK
  <2>1. Zeroed \in NodeRecord
    <3>1. <<>> \in Seq(Chunks)
      BY EmptySeq
    <3>2. 0 \in Handles
      BY DEF Handles
    <3> QED  BY <3>1, <3>2 DEF Zeroed, NodeRecord
  <2>2. nodes \in [Slots -> NodeRecord]
    BY <2>1 DEF Init
  <2>3. slist \in Seq(Handles) /\ cb_pool \in Seq(Chunk) /\ Len(cb_pool) = 0
    BY EmptySeq DEF Init
  <2>4. handle_counter \in 0 .. NODE_LIMIT /\ Len(cb_pool) <= CALLBACKS_NUM
    BY <2>3 DEF Init
  <2>5. /\ reg_mutex \in Clients \cup {Worker, NULL}
        /\ reg \in Registration \cup {NULL}
        /\ epoch \in Nat
    BY DEF Init
  <2>6. toggle \in [Togglers -> Toggle \cup {NULL}]
    BY DEF Init
  <2>7. toggles = 0 /\ 0 \in 0 .. MaxToggles
    BY DEF Init
  <2>8. stray \in BOOLEAN
    BY DEF Init
  <2> QED  BY <2>2, <2>3, <2>4, <2>5, <2>6, <2>7, <2>8 DEF TypeOK
<1>2. ListSound /\ PriorityOrder
  BY DEF Init, ListSound, PriorityOrder
<1>3. SubsSound
  <2>1. \A h \in Slots : nodes[h].subs = <<>>
    BY DEF Init, Zeroed
  <2> QED  BY <2>1 DEF SubsSound, SubsLinked, SubsDisjoint
<1>4. MutexSound
  BY DEF Init, MutexSound
<1> QED  BY <1>1, <1>2, <1>3, <1>4 DEF IInv

\* Emptying subscriber lists without touching the chunks keeps them sound.
LEMMA DroppedSubsKeep ==
    ASSUME SubsSound, cb_pool' = cb_pool,
           \A h \in Slots :
               nodes'[h].subs = nodes[h].subs \/ nodes'[h].subs = <<>>
    PROVE  SubsSound'
<1>1. ASSUME NEW h \in Slots
      PROVE  SubsLinked(h)'
  <2>1. CASE nodes'[h].subs = nodes[h].subs
    BY <2>1 DEF SubsSound, SubsLinked
  <2>2. CASE nodes'[h].subs = <<>>
    BY <2>2 DEF SubsLinked
  <2> QED  BY <2>1, <2>2
<1>2. ASSUME NEW g \in Slots, NEW h \in Slots, g # h
      PROVE  SubsDisjoint(g, h)'
  <2>1. CASE nodes'[g].subs = <<>> \/ nodes'[h].subs = <<>>
    BY <2>1 DEF SubsDisjoint
  <2>2. CASE nodes'[g].subs = nodes[g].subs /\ nodes'[h].subs = nodes[h].subs
    BY <1>2, <2>2 DEF SubsSound, SubsDisjoint
  <2> QED  BY <2>1, <2>2
<1> QED  BY <1>1, <1>2 DEF SubsSound

\* What registration does to the list, in the terms of the lemmas above.
LEMMA RegisterInserts ==
    ASSUME IInv, NEW c \in Clients, NEW n \in Nodes, NEW pri \in Priorities,
           Register(c, n, pri)
    PROVE  /\ Len(slist) = handle_counter /\ Lists(slist, handle_counter)
           /\ \E k \in 0 .. handle_counter :
                 /\ InsertionPoint(k, pri)
                 /\ slist' \in Seq(Handles)
                 /\ Len(slist') = handle_counter + 1
                 /\ Inserted(slist, slist', handle_counter, k)
<1> USE RegistryAssumption
<1> DEFINE h0 == handle_counter
<1>1. h0 \in Handles /\ h0 \in Nat
  BY DEF IInv, TypeOK, Register, Handles
<1>2. slist \in Seq(Handles) /\ Len(slist) \in Nat /\ Len(slist) = h0
  BY LenProperties DEF IInv, TypeOK, ListSound
<1>3. Lists(slist, h0)
  <2>1. \A i \in 1 .. h0 : slist[i] \in Nat /\ slist[i] < h0
    <3>1. \A i \in 1 .. h0 : slist[i] \in Handles /\ slist[i] < h0
      BY <1>2, ElementOfSeq DEF IInv, ListSound
    <3> QED  BY <3>1 DEF Handles
  <2>2. /\ \A i, j \in 1 .. h0 : slist[i] = slist[j] => i = j
        /\ \A h \in 0 .. h0 - 1 : \E i \in 1 .. h0 : slist[i] = h
    BY <1>2 DEF IInv, ListSound
  <2> QED  BY <2>1, <2>2 DEF Lists
<1>4. PICK k \in 0 .. Len(slist) :
          /\ InsertionPoint(k, pri)
          /\ slist' = InsertAt(slist, k + 1, h0)
  BY DEF Register
<1>5. /\ InsertAt(slist, k + 1, h0) \in Seq(Handles)
      /\ Len(InsertAt(slist, k + 1, h0)) = Len(slist) + 1
      /\ \A i \in 1 .. Len(slist) + 1 :
            InsertAt(slist, k + 1, h0)[i] =
                IF i <= k THEN slist[i]
                ELSE IF i = k + 1 THEN h0 ELSE slist[i - 1]
  <2>1. slist \in Seq(Handles) /\ h0 \in Handles /\ k \in 0 .. Len(slist)
    BY <1>1, <1>2
  <2> HIDE DEF h0
  <2>2. InsertsBehind(Handles, slist, k, h0)
    BY <2>1, InsertAtElements, Zenon
  <2> QED  BY <2>2 DEF InsertsBehind
<1>6. Len(slist) + 1 = h0 + 1 /\ k \in 0 .. h0
  BY <1>2, <1>4
<1>7. slist' \in Seq(Handles) /\ Len(slist') = h0 + 1
  BY <1>4, <1>5, <1>6, Zenon
<1>8. Inserted(slist, slist', h0, k)
  BY <1>4, <1>5, <1>6, Zenon DEF Inserted
<1> QED  BY <1>2, <1>3, <1>4, <1>6, <1>7, <1>8

\* Registration keeps the invariant: the new record goes behind every record
\* of its priority or a larger one and in front of the first smaller one.
LEMMA RegisterKeeps ==
    ASSUME IInv, NEW c \in Clients, NEW n \in Nodes, NEW pri \in Priorities,
           Register(c, n, pri)
    PROVE  IInv'
<1> USE RegistryAssumption
<1> DEFINE h0 == handle_counter
<1>1. /\ h0 \in Handles /\ h0 \in Nat /\ pri \in Nat
      /\ handle_counter' = h0 + 1
  BY DEF IInv, TypeOK, Register, Handles
<1>2. /\ nodes' = [nodes EXCEPT ![h0] = NewRecord(h0, n, pri)]
      /\ nodes \in [Slots -> NodeRecord]
  BY DEF IInv, TypeOK, Register
<1>3. NewRecord(h0, n, pri) =
        [node |-> n, priority |-> pri, handle |-> h0, enabled |-> TRUE,
         subs |-> <<>>]
  BY DEF NewRecord
<1>4. NewRecord(h0, n, pri) \in NodeRecord
  BY <1>1, <1>3, EmptySeq DEF NodeRecord
<1>5. Len(slist) = h0 /\ Lists(slist, h0)
  BY RegisterInserts
<1>6. slist \in Seq(Handles)
  BY DEF IInv, TypeOK
<1>7. \A h \in Slots : h # h0 => nodes'[h] = nodes[h]
  BY <1>2
<1>8. nodes'[h0] = NewRecord(h0, n, pri)
  BY <1>1, <1>2, HandlesAreSlots
<1>9. PICK k \in 0 .. h0 :
          /\ InsertionPoint(k, pri)
          /\ slist' \in Seq(Handles)
          /\ Len(slist') = h0 + 1
          /\ Inserted(slist, slist', h0, k)
  BY RegisterInserts
<1>10. k \in Nat /\ k <= h0
  BY <1>1
<1>11. Lists(slist', h0 + 1)
  BY <1>1, <1>5, <1>9, InsertionKeepsPermutation, Zenon
<1>12. TypeOK'
  <2>1. handle_counter' \in 0 .. NODE_LIMIT
    BY <1>1 DEF Handles
  <2>2. nodes' \in [Slots -> NodeRecord]
    BY <1>2, <1>4
  <2>3. reg' \in Registration
    BY <1>1, <1>3 DEF Register, Registration
  <2> QED  BY <1>9, <2>1, <2>2, <2>3 DEF IInv, TypeOK, Register, toggling
<1>13. ListSound'
  <2>4. \A h \in 0 .. handle_counter' - 1 :
            nodes'[h].node # NULL /\ nodes'[h].handle = h
    <3>1. \A h \in 0 .. h0 - 1 :
              h \in Handles /\ nodes[h].node # NULL /\ nodes[h].handle = h
      BY <1>1 DEF IInv, ListSound, Handles
    <3>2. nodes'[h0].node # NULL /\ nodes'[h0].handle = h0
      BY <1>3, <1>8
    <3> QED  BY <1>1, <1>7, <3>1, <3>2, HandlesAreSlots
  <2> QED  BY <1>1, <1>9, <1>11, <2>4 DEF ListSound, Lists
<1>14. PriorityOrder'
  <2>1. \A i \in 1 .. h0 :
            /\ slist[i] \in Handles /\ slist[i] < h0
            /\ nodes'[slist[i]].priority = nodes[slist[i]].priority
            /\ nodes[slist[i]].priority \in Nat
    <3>1. \A h \in Handles : nodes[h].priority \in Nat
      BY <1>2, HandlesAreSlots DEF NodeRecord
    <3>2. \A i \in 1 .. h0 : slist[i] \in Handles /\ slist[i] # h0 /\ slist[i] < h0
      BY <1>1, <1>5, <1>6, ElementOfSeq DEF Lists
    <3> QED  BY <1>7, <3>1, <3>2, HandlesAreSlots
  <2>2. nodes'[h0].priority = pri
    BY <1>3, <1>8
  <2>3. \A i, j \in 1 .. h0 : i < j =>
            \/ nodes[slist[i]].priority > nodes[slist[j]].priority
            \/ /\ nodes[slist[i]].priority = nodes[slist[j]].priority
               /\ slist[i] < slist[j]
    BY <1>5 DEF IInv, PriorityOrder, Precedes
  <2>4. /\ \A i \in 1 .. k : ~(pri > nodes[slist[i]].priority)
        /\ k < h0 => pri > nodes[slist[k + 1]].priority
    BY <1>5, <1>9 DEF InsertionPoint
  <2> DEFINE p == [h \in Handles |-> nodes'[h].priority]
  <2>5. /\ \A h \in 0 .. h0 : p[h] = nodes'[h].priority /\ p[h] \in Nat
        /\ p[h0] = pri
        /\ \A i \in 1 .. h0 : p[slist[i]] = nodes[slist[i]].priority
    <3>1. \A h \in 0 .. h0 : h \in Handles
      BY <1>1 DEF Handles
    <3>2. \A h \in Handles : nodes'[h].priority \in Nat
      BY <1>12, HandlesAreSlots DEF TypeOK, NodeRecord
    <3> QED  BY <1>1, <2>1, <2>2, <3>1, <3>2
  <2> HIDE DEF p
  <2>6. Ordered(slist, h0, p)
    BY <2>3, <2>5 DEF Ordered
  <2>7. /\ \A i \in 1 .. k : ~(p[h0] > p[slist[i]])
        /\ k < h0 => p[h0] > p[slist[k + 1]]
    BY <1>1, <1>10, <2>4, <2>5
  <2>8. Ordered(slist', h0 + 1, p)
    BY <1>1, <1>5, <1>9, <2>5, <2>6, <2>7, InsertionKeepsOrder, Zenon
  <2>9. \A i \in 1 .. h0 + 1 : p[slist'[i]] = nodes'[slist'[i]].priority
    <3>1. \A i \in 1 .. h0 + 1 : slist'[i] \in 0 .. h0
      BY <1>1, <1>11 DEF Lists
    <3> QED  BY <2>5, <3>1
  <2> QED  BY <1>9, <2>8, <2>9, Zenon DEF PriorityOrder, Precedes, Ordered
<1>15. SubsSound'
  <2>1. nodes'[h0].subs = <<>> /\ cb_pool' = cb_pool
    BY <1>3, <1>8 DEF Register
  <2>2. \A h \in Slots : nodes'[h].subs = nodes[h].subs \/ nodes'[h].subs = <<>>
    BY <1>7, <2>1
  <2> QED  BY <2>1, <2>2, DroppedSubsKeep DEF IInv
<1>16. MutexSound'
  BY <1>1 DEF Register, MutexSound
<1> QED  BY <1>12, <1>13, <1>14, <1>15, <1>16 DEF IInv

\* A step that leaves the list and what it is ordered by alone keeps the
\* properties of the list.
LEMMA SameListKeeps ==
    ASSUME ListSound, PriorityOrder, slist \in Seq(Handles), slist' = slist,
           handle_counter' = handle_counter, handle_counter \in 0 .. NODE_LIMIT,
           \A h \in Slots : /\ nodes'[h].node = nodes[h].node
                              /\ nodes'[h].priority = nodes[h].priority
                              /\ nodes'[h].handle = nodes[h].handle
    PROVE  ListSound' /\ PriorityOrder'
<1> USE RegistryAssumption
<1>1. \A h \in 0 .. handle_counter - 1 : h \in Slots
  BY DEF Slots
<1>2. \A i \in 1 .. Len(slist) : slist[i] \in Slots
  BY ElementOfSeq DEF Handles, Slots
<1>3. ListSound'
  BY <1>1 DEF ListSound
<1>4. PriorityOrder'
  BY <1>2 DEF PriorityOrder, Precedes
<1> QED  BY <1>3, <1>4

LEMMA RegisterStepKeeps ==
    ASSUME IInv, RegisterStep
    PROVE  IInv'
<1> USE RegistryAssumption
<1>1. UNCHANGED <<handle_counter, nodes, slist, cb_pool, toggling, epoch>>
  BY DEF RegisterStep, CallInitHandler, SkipInitHandler, RegisterReturn
<1>2. reg \in Registration
  BY DEF RegisterStep, CallInitHandler, SkipInitHandler, RegisterReturn,
         Initializing, IInv, TypeOK
<1>3. ListSound' /\ PriorityOrder' /\ SubsSound'
  BY <1>1 DEF IInv, ListSound, PriorityOrder, Precedes, SubsSound, SubsLinked,
              SubsDisjoint
<1>4. \/ /\ reg' \in Registration
         /\ reg'.client = reg.client /\ reg'.handle = reg.handle
         /\ reg_mutex' = reg_mutex
      \/ reg' = NULL /\ reg_mutex' = NULL
  <2>1. CASE RegisterReturn
    BY <2>1 DEF RegisterReturn
  <2>2. CASE SkipInitHandler
    BY <1>2, <2>2 DEF SkipInitHandler, Registration
  <2>3. ASSUME NEW r \in {OK, EFAIL}, CallInitHandler(r)
        PROVE  /\ reg' \in Registration
               /\ reg'.client = reg.client /\ reg'.handle = reg.handle
               /\ reg_mutex' = reg_mutex
    <3>1. /\ \/ reg' = [reg EXCEPT !.inst = @ + 1, !.rc = r]
             \/ reg' = [reg EXCEPT !.fault = TRUE]
          /\ reg_mutex' = reg_mutex
      BY <2>3 DEF CallInitHandler
    <3>2. reg.inst + 1 \in Nat /\ r \in {OK, EFAIL}
      BY <1>2 DEF Registration
    <3>3. CASE reg' = [reg EXCEPT !.inst = @ + 1, !.rc = r]
      BY <1>2, <3>1, <3>2, <3>3 DEF Registration
    <3>4. CASE reg' = [reg EXCEPT !.fault = TRUE]
      BY <1>2, <3>1, <3>4 DEF Registration
    <3> QED  BY <3>1, <3>3, <3>4
  <2> QED  BY <2>1, <2>2, <2>3 DEF RegisterStep
<1>5. TypeOK'
  BY <1>1, <1>4 DEF IInv, TypeOK, toggling
<1>6. MutexSound'
  <2>1. reg # NULL
    BY DEF RegisterStep, CallInitHandler, SkipInitHandler, RegisterReturn,
           Initializing
  <2> QED  BY <1>1, <1>4, <2>1 DEF IInv, MutexSound
<1> QED  BY <1>3, <1>5, <1>6 DEF IInv

LEMMA ClearKeeps ==
    ASSUME IInv, Clear
    PROVE  IInv'
<1> USE RegistryAssumption
<1>1. /\ handle_counter' = 0 /\ slist' = <<>>
      /\ nodes' = [h \in Slots |-> IF h \in Handles THEN Zeroed ELSE nodes[h]]
      /\ epoch' = epoch + 1
      /\ UNCHANGED <<cb_pool, reg_mutex, reg, toggling>>
      /\ reg_mutex = NULL
  BY DEF Clear, ZeroedTable
<1>2. Zeroed \in NodeRecord /\ Zeroed.subs = <<>>
  <2>1. <<>> \in Seq(Chunks) /\ 0 \in Handles
    BY EmptySeq DEF Handles
  <2> QED  BY <2>1 DEF Zeroed, NodeRecord
<1>3. TypeOK'
  <2>1. nodes' \in [Slots -> NodeRecord] /\ slist' \in Seq(Handles)
    BY <1>1, <1>2, EmptySeq DEF IInv, TypeOK
  <2> QED  BY <1>1, <2>1 DEF IInv, TypeOK, toggling
<1>4. ListSound' /\ PriorityOrder'
  BY <1>1 DEF ListSound, PriorityOrder
<1>5. SubsSound'
  <2>1. \A h \in Slots : nodes'[h].subs = nodes[h].subs \/ nodes'[h].subs = <<>>
    BY <1>1, <1>2
  <2> QED  BY <1>1, <2>1, DroppedSubsKeep DEF IInv
<1>6. MutexSound'
  <2>1. reg = NULL
    BY <1>1 DEF IInv, TypeOK, MutexSound, Registration
  <2> QED  BY <1>1, <2>1 DEF MutexSound
<1> QED  BY <1>3, <1>4, <1>5, <1>6 DEF IInv

LEMMA CheckHandleKeeps ==
    ASSUME IInv, NEW t \in Togglers, NEW h \in Slots, NEW on \in BOOLEAN,
           CheckHandle(t, h, on)
    PROVE  IInv'
<1> USE RegistryAssumption
<1>1. UNCHANGED <<handle_counter, nodes, slist, cb_pool, reg_mutex, reg, stray,
                  epoch>>
  BY DEF CheckHandle
<1>2. toggle' \in [Togglers -> Toggle \cup {NULL}] /\ toggles' \in 0 .. MaxToggles
  <2>1. [handle |-> h, on |-> on] \in Toggle
    BY DEF Toggle
  <2> QED  BY <2>1 DEF CheckHandle, IInv, TypeOK
<1> QED  BY <1>1, <1>2 DEF IInv, TypeOK, ListSound, PriorityOrder, Precedes,
              SubsSound, SubsLinked, SubsDisjoint, MutexSound

\* The store of an enable or a disable: one flag of one slot.
LEMMA SetEnabledStores ==
    ASSUME IInv, NEW t \in Togglers, SetEnabled(t)
    PROVE  /\ toggle[t] \in Toggle
           /\ nodes' = [nodes EXCEPT ![toggle[t].handle].enabled = toggle[t].on]
           /\ nodes' \in [Slots -> NodeRecord]
           /\ \A g \in Slots : /\ nodes'[g].node = nodes[g].node
                                /\ nodes'[g].priority = nodes[g].priority
                                /\ nodes'[g].handle = nodes[g].handle
                                /\ nodes'[g].subs = nodes[g].subs
<1> DEFINE h == toggle[t].handle
           on == toggle[t].on
<1>1. toggle[t] \in Toggle /\ h \in Slots /\ on \in BOOLEAN
  BY DEF SetEnabled, IInv, TypeOK, Toggle
<1>2. nodes \in [Slots -> NodeRecord]
  BY DEF IInv, TypeOK
<1>3. nodes' = [nodes EXCEPT ![h].enabled = on]
  BY DEF SetEnabled
<1> HIDE DEF h, on
<1>4. nodes' \in [Slots -> NodeRecord]
  <2>1. nodes[h] \in NodeRecord
    BY <1>1, <1>2
  <2>2. [nodes[h] EXCEPT !.enabled = on] \in NodeRecord
    BY <1>1, <2>1, Zenon DEF NodeRecord
  <2> QED  BY <1>2, <1>3, <2>2, Zenon
<1>5. \A g \in Slots : /\ nodes'[g].node = nodes[g].node
                       /\ nodes'[g].priority = nodes[g].priority
                       /\ nodes'[g].handle = nodes[g].handle
                       /\ nodes'[g].subs = nodes[g].subs
  BY <1>2, <1>3 DEF NodeRecord
<1> QED  BY <1>1, <1>3, <1>4, <1>5 DEF h, on

LEMMA SetEnabledKeeps ==
    ASSUME IInv, NEW t \in Togglers, SetEnabled(t)
    PROVE  IInv'
<1> USE RegistryAssumption
<1>1. UNCHANGED <<handle_counter, slist, cb_pool, reg_mutex, reg, toggles, epoch>>
  BY DEF SetEnabled
<1>2. /\ nodes' \in [Slots -> NodeRecord]
      /\ \A g \in Slots : /\ nodes'[g].node = nodes[g].node
                           /\ nodes'[g].priority = nodes[g].priority
                           /\ nodes'[g].handle = nodes[g].handle
                           /\ nodes'[g].subs = nodes[g].subs
  BY SetEnabledStores
<1>3. toggle' \in [Togglers -> Toggle \cup {NULL}] /\ stray' \in BOOLEAN
  BY DEF SetEnabled, IInv, TypeOK
<1>4. TypeOK'
  BY <1>1, <1>2, <1>3 DEF IInv, TypeOK
<1>5. ListSound' /\ PriorityOrder'
  BY <1>1, <1>2, SameListKeeps DEF IInv, TypeOK
<1>6. SubsSound'
  BY <1>1, <1>2, DroppedSubsKeep DEF IInv
<1>7. MutexSound'
  BY <1>1 DEF IInv, MutexSound
<1> QED  BY <1>4, <1>5, <1>6, <1>7 DEF IInv

\* A subscription keeps the invariant: the new chunk is the youngest of all,
\* and only the old tail of its own list is linked anew.
\* The chunks of a record's list have been taken from the heap.
LEMMA SubsTaken ==
    ASSUME IInv, NEW g \in Slots
    PROVE  /\ nodes[g].subs \in Seq(Chunks)
           /\ Len(nodes[g].subs) \in Nat
           /\ SubsLinked(g)
           /\ \A i \in 1 .. Len(nodes[g].subs) :
                 /\ nodes[g].subs[i] \in 1 .. Len(cb_pool)
                 /\ nodes[g].subs[i] \in Nat
<1>1. /\ nodes[g].subs \in Seq(Chunks)
      /\ Len(nodes[g].subs) \in Nat
      /\ SubsLinked(g)
      /\ Len(cb_pool) \in Nat
  BY LenProperties DEF IInv, TypeOK, NodeRecord, SubsSound
<1>2. ASSUME NEW i \in 1 .. Len(nodes[g].subs)
      PROVE  nodes[g].subs[i] \in Chunks /\ nodes[g].subs[i] <= Len(cb_pool)
  BY <1>1, ElementOfSeq DEF SubsLinked
<1> QED  BY <1>1, <1>2, RegistryAssumption DEF Chunks

\* A subscription takes the next chunk and links the tail of the list to it.
LEMMA SubscribeAppendsChunk ==
    ASSUME IInv, NEW h \in Slots, NEW cb \in Callbacks, Subscribe(h, cb)
    PROVE  /\ cb_pool' \in Seq(Chunk) /\ Len(cb_pool') = Len(cb_pool) + 1
           /\ \A d \in 1 .. Len(cb_pool) :
                 cb_pool'[d].next =
                     IF nodes[h].subs # <<>> /\ d = nodes[h].subs[Len(nodes[h].subs)]
                     THEN Len(cb_pool) + 1 ELSE cb_pool[d].next
           /\ cb_pool'[Len(cb_pool) + 1].next = 0
<1> USE RegistryAssumption
<1> DEFINE c == Len(cb_pool) + 1
           subs == nodes[h].subs
           linked == Linked(subs, c)
           chunk == [cb |-> cb, next |-> 0]
<1>1. cb_pool' = Append(linked, chunk) /\ Len(cb_pool) < CALLBACKS_NUM
  BY DEF Subscribe
<1>2. /\ nodes \in [Slots -> NodeRecord]
      /\ cb_pool \in Seq(Chunk) /\ Len(cb_pool) \in Nat
      /\ c \in Chunks /\ chunk \in Chunk
  BY <1>1, LenProperties DEF IInv, TypeOK, Chunks, Chunk
<1>3. subs \in Seq(Chunks) /\ Len(subs) \in Nat
  BY <1>2, LenProperties DEF NodeRecord
<1>4. \A g \in Slots : /\ nodes[g].subs \in Seq(Chunks)
                         /\ Len(nodes[g].subs) \in Nat
                         /\ SubsLinked(g)
                         /\ \A i \in 1 .. Len(nodes[g].subs) :
                               /\ nodes[g].subs[i] \in 1 .. Len(cb_pool)
                               /\ nodes[g].subs[i] \in Nat
  BY SubsTaken
<1>5. /\ linked \in Seq(Chunk) /\ Len(linked) = Len(cb_pool)
      /\ \A d \in 1 .. Len(cb_pool) :
            linked[d].next = IF subs # <<>> /\ d = subs[Len(subs)]
                             THEN c ELSE cb_pool[d].next
  <2>1. CASE subs = <<>>
    BY <1>2, <2>1 DEF Linked
  <2>2. CASE subs # <<>>
    <3> DEFINE l == subs[Len(subs)]
    <3>1. Len(subs) # 0
      BY <1>3, <2>2, EmptySeq
    <3>2. l \in 1 .. Len(cb_pool)
      BY <1>3, <1>4, <3>1
    <3>3. linked = [cb_pool EXCEPT ![l].next = c]
      BY <2>2 DEF Linked, Last
    <3>4. cb_pool[l] \in Chunk
      BY <1>2, <3>2, ElementOfSeq
    <3> HIDE DEF l
    <3>5. [cb_pool[l] EXCEPT !.next = c] \in Chunk
      <4>1. c \in 0 .. CALLBACKS_NUM
        BY <1>2 DEF Chunks
      <4> HIDE DEF c
      <4> QED  BY <3>4, <4>1, Zenon DEF Chunk
    <3>6. linked \in Seq(Chunk) /\ Len(linked) = Len(cb_pool)
      <4>1. linked = [cb_pool EXCEPT ![l] = [cb_pool[l] EXCEPT !.next = c]]
        BY <3>3
      <4> HIDE DEF linked
      <4> QED  BY <1>2, <3>2, <3>5, <4>1, ExceptSeq
    <3>7. \A d \in 1 .. Len(cb_pool) :
              linked[d].next = IF d = l THEN c ELSE cb_pool[d].next
      <4>1. \A d \in 1 .. Len(cb_pool) : cb_pool[d] \in Chunk
        BY <1>2, ElementOfSeq
      <4> QED  BY <1>2, <3>2, <3>3, <4>1 DEF Chunk
    <3> QED  BY <2>2, <3>6, <3>7 DEF l
  <2> QED  BY <2>1, <2>2
<1> HIDE DEF linked, chunk, c
<1>6. /\ cb_pool' \in Seq(Chunk) /\ Len(cb_pool') = c
      /\ \A d \in 1 .. Len(cb_pool) : cb_pool'[d] = linked[d]
      /\ cb_pool'[c].next = 0 /\ c = Len(cb_pool) + 1
  <2>1. chunk.next = 0 /\ c = Len(cb_pool) + 1
    BY DEF chunk, c
  <2> QED  BY <1>1, <1>2, <1>5, <2>1, AppendProperties
<1> QED  BY <1>5, <1>6 DEF c

LEMMA SubscribeKeeps ==
    ASSUME IInv, NEW h \in Slots, NEW cb \in Callbacks, Subscribe(h, cb)
    PROVE  IInv'
<1> USE RegistryAssumption
<1> DEFINE c == Len(cb_pool) + 1
           subs == nodes[h].subs
<1>1. /\ nodes' = [nodes EXCEPT ![h].subs = Append(subs, c)]
      /\ UNCHANGED <<handle_counter, slist, reg_mutex, reg, toggling, epoch>>
      /\ Len(cb_pool) < CALLBACKS_NUM
  BY DEF Subscribe
<1>2. /\ nodes \in [Slots -> NodeRecord]
      /\ cb_pool \in Seq(Chunk) /\ Len(cb_pool) \in Nat
      /\ c \in Chunks
  BY <1>1, LenProperties DEF IInv, TypeOK, Chunks, Chunk
<1>3. subs \in Seq(Chunks) /\ Len(subs) \in Nat
  BY <1>2, LenProperties DEF NodeRecord
<1>4. \A g \in Slots : /\ nodes[g].subs \in Seq(Chunks)
                         /\ Len(nodes[g].subs) \in Nat
                         /\ SubsLinked(g)
                         /\ \A i \in 1 .. Len(nodes[g].subs) :
                               /\ nodes[g].subs[i] \in 1 .. Len(cb_pool)
                               /\ nodes[g].subs[i] \in Nat
  BY SubsTaken
<1>5. /\ cb_pool' \in Seq(Chunk) /\ Len(cb_pool') = c
      /\ \A d \in 1 .. Len(cb_pool) :
            cb_pool'[d].next = IF subs # <<>> /\ d = subs[Len(subs)]
                               THEN c ELSE cb_pool[d].next
      /\ cb_pool'[c].next = 0
  BY SubscribeAppendsChunk
<1> HIDE DEF c
<1>6. /\ cb_pool' \in Seq(Chunk) /\ Len(cb_pool') = c
      /\ cb_pool'[c].next = 0 /\ c = Len(cb_pool) + 1
  BY <1>5 DEF c
<1>7. /\ Append(subs, c) \in Seq(Chunks) /\ Len(Append(subs, c)) = Len(subs) + 1
      /\ \A i \in 1 .. Len(subs) : Append(subs, c)[i] = subs[i]
      /\ Append(subs, c)[Len(subs) + 1] = c
  BY <1>2, <1>3, AppendProperties
<1>8. /\ nodes'[h].subs = Append(subs, c)
      /\ \A g \in Slots : g # h => nodes'[g].subs = nodes[g].subs
      /\ \A g \in Slots : /\ nodes'[g].node = nodes[g].node
                            /\ nodes'[g].priority = nodes[g].priority
                            /\ nodes'[g].handle = nodes[g].handle
  BY <1>1, <1>2 DEF NodeRecord
<1>9. TypeOK'
  <2>1. nodes' \in [Slots -> NodeRecord]
    <3> DEFINE new == Append(subs, c)
    <3>1. /\ nodes' = [nodes EXCEPT ![h] = [nodes[h] EXCEPT !.subs = new]]
          /\ new \in Seq(Chunks)
      BY <1>1, <1>7
    <3> HIDE DEF new
    <3>2. [nodes[h] EXCEPT !.subs = new] \in NodeRecord
      <4>1. nodes[h] \in NodeRecord
        BY <1>2
      <4> QED  BY <3>1, <4>1, Zenon DEF NodeRecord
    <3> QED  BY <1>2, <3>1, <3>2
  <2>2. Len(cb_pool') <= CALLBACKS_NUM
    BY <1>1, <1>2, <1>6
  <2> QED  BY <1>1, <1>6, <2>1, <2>2 DEF IInv, TypeOK, toggling
<1>10. ListSound' /\ PriorityOrder'
  BY <1>1, <1>8, SameListKeeps DEF IInv, TypeOK
<1>11. SubsSound'
  <2>1. \A d \in 1 .. Len(cb_pool) :
            cb_pool'[d].next = IF subs # <<>> /\ d = subs[Len(subs)]
                               THEN c ELSE cb_pool[d].next
    BY <1>5
  <2>2. subs # <<>> => Len(subs) \in 1 .. Len(subs)
    BY <1>3, EmptySeq
  <2>3. ASSUME NEW g \in Slots, g # h
        PROVE  SubsLinked(g)'
    <3> DEFINE gs == nodes[g].subs
    <3>1. ASSUME NEW i \in 1 .. Len(gs)
          PROVE  cb_pool'[gs[i]].next = cb_pool[gs[i]].next
      <4>1. gs[i] \in 1 .. Len(cb_pool)
        BY <1>4, <3>1
      <4>2. subs # <<>> => gs[i] # subs[Len(subs)]
        BY <2>2, <2>3, <3>1 DEF IInv, SubsSound, SubsDisjoint
      <4> QED  BY <2>1, <4>1, <4>2
    <3>2. nodes'[g].subs = gs /\ SubsLinked(g)
      BY <1>4, <1>8, <2>3
    <3>3. Len(cb_pool) <= Len(cb_pool')
      BY <1>2, <1>6
    <3>4. \A i \in 1 .. Len(gs) : gs[i] \in Nat /\ gs[i] <= Len(cb_pool')
      BY <1>2, <1>4, <1>6
    <3> QED  BY <3>1, <3>2, <3>4 DEF SubsLinked
  <2>4. SubsLinked(h)'
    <3> DEFINE n == Len(subs)
               new == Append(subs, c)
    <3>1. /\ n \in Nat /\ Len(new) = n + 1 /\ new[n + 1] = c
          /\ \A i \in 1 .. n : /\ new[i] = subs[i] /\ new[i] < c
                               /\ new[i] \in 1 .. Len(cb_pool)
      BY <1>2, <1>3, <1>4, <1>6, <1>7
    <3>2. \A i \in 1 .. n : /\ \A j \in i + 1 .. n : subs[i] < subs[j]
                            /\ i < n => cb_pool[subs[i]].next = subs[i + 1]
      BY <1>4 DEF SubsLinked
    <3>3. ASSUME NEW i \in 1 .. n + 1
          PROVE  /\ new[i] <= Len(cb_pool')
                 /\ \A j \in i + 1 .. n + 1 : new[i] < new[j]
      <4>1. CASE i = n + 1
        BY <1>2, <1>6, <3>1, <4>1
      <4>2. CASE i # n + 1
        <5> HIDE DEF n, new
        <5>1. i \in 1 .. n /\ new[i] < c
          <6>1. i \in 1 .. n
            BY <3>1, <4>2
          <6> QED  BY <3>1, <6>1, Zenon
        <5>2. ASSUME NEW j \in i + 1 .. n + 1
              PROVE  new[i] < new[j]
          <6>1. CASE j = n + 1
            BY <3>1, <5>1, <6>1
          <6>2. CASE j # n + 1
            <7>1. j \in i + 1 .. n /\ j \in 1 .. n
              BY <3>1, <5>1, <5>2, <6>2
            <7> QED  BY <3>1, <3>2, <5>1, <7>1
          <6> QED  BY <6>1, <6>2
        <5>3. new[i] \in 1 .. Len(cb_pool) /\ Len(cb_pool') = Len(cb_pool) + 1
          BY <1>6, <3>1, <5>1, Zenon
        <5>4. new[i] <= Len(cb_pool')
          BY <1>2, <5>3
        <5> QED  BY <5>2, <5>4
      <4> QED  BY <4>1, <4>2
    <3>4. ASSUME NEW i \in 1 .. n
          PROVE  cb_pool'[new[i]].next = new[i + 1]
      <4>1. new[i] = subs[i] /\ subs[i] \in 1 .. Len(cb_pool)
        BY <3>1
      <4>2. CASE i = n
        <5>1. subs # <<>>
          BY <3>1, EmptySeq
        <5> QED  BY <2>1, <3>1, <4>1, <4>2, <5>1
      <4>3. CASE i # n
        <5>1. n \in i + 1 .. n /\ i < n /\ i + 1 \in 1 .. n
          BY <3>1, <4>3
        <5>2. subs[i] < subs[n] /\ subs[n] \in 1 .. Len(cb_pool)
          BY <3>1, <3>2, <5>1
        <5>3. subs[i] # subs[n]
          BY <1>2, <4>1, <5>2
        <5>4. cb_pool'[subs[i]].next = cb_pool[subs[i]].next
          BY <2>1, <4>1, <5>3
        <5>5. cb_pool[subs[i]].next = subs[i + 1] /\ new[i + 1] = subs[i + 1]
          BY <3>1, <3>2, <5>1
        <5> QED  BY <4>1, <5>4, <5>5
      <4> QED  BY <4>2, <4>3
    <3>5. cb_pool'[new[n + 1]].next = 0
      BY <1>6, <3>1
    <3>6. nodes'[h].subs = new
      BY <1>8
    <3> HIDE DEF n, new
    <3>7. \A i \in 1 .. n + 1 : i < n + 1 => i \in 1 .. n
      BY <3>1
    <3> QED  BY <3>1, <3>3, <3>4, <3>5, <3>6, <3>7 DEF SubsLinked
  <2>5. ASSUME NEW f \in Slots, NEW g \in Slots, f # g
        PROVE  SubsDisjoint(f, g)'
    <3>1. SubsDisjoint(f, g)
      BY <2>5 DEF IInv, SubsSound
    <3>2. \A i \in 1 .. Len(subs) + 1 :
              Append(subs, c)[i] = IF i <= Len(subs) THEN subs[i] ELSE c
      BY <1>3, <1>7
    <3>3. \A e \in Slots : \A i \in 1 .. Len(nodes[e].subs) : nodes[e].subs[i] # c
      BY <1>2, <1>4, <1>6
    <3>4. CASE f # h /\ g # h
      BY <1>8, <3>1, <3>4 DEF SubsDisjoint
    <3>5. ASSUME NEW e \in Slots, e # h,
                 NEW i \in 1 .. Len(subs) + 1, NEW j \in 1 .. Len(nodes[e].subs)
          PROVE  Append(subs, c)[i] # nodes[e].subs[j]
      <4>1. SubsDisjoint(h, e)
        BY <3>5 DEF IInv, SubsSound
      <4>2. CASE i <= Len(subs)
        <5>1. i \in 1 .. Len(subs) /\ Append(subs, c)[i] = subs[i]
          BY <1>3, <3>2, <4>2
        <5> QED  BY <4>1, <5>1 DEF SubsDisjoint
      <4>3. CASE ~(i <= Len(subs))
        BY <3>2, <3>3, <3>5, <4>3
      <4> QED  BY <4>2, <4>3
    <3>6. \A e \in Slots : e # h => nodes'[e].subs = nodes[e].subs
      BY <1>8
    <3>7. nodes'[h].subs = Append(subs, c) /\ Len(Append(subs, c)) = Len(subs) + 1
      BY <1>7, <1>8
    <3> HIDE DEF subs
    <3>8. CASE f = h
      <4>1. g # h
        BY <2>5, <3>8
      <4>2. \A i \in 1 .. Len(subs) + 1, j \in 1 .. Len(nodes[g].subs) :
                Append(subs, c)[i] # nodes[g].subs[j]
        BY <3>5, <4>1
      <4>3. nodes'[g].subs = nodes[g].subs
        BY <3>6, <4>1
      <4> QED  BY <3>7, <3>8, <4>2, <4>3 DEF SubsDisjoint
    <3>9. CASE g = h
      <4>1. f # h
        BY <2>5, <3>9
      <4>2. \A i \in 1 .. Len(nodes[f].subs), j \in 1 .. Len(subs) + 1 :
                nodes[f].subs[i] # Append(subs, c)[j]
        BY <3>5, <4>1
      <4>3. nodes'[f].subs = nodes[f].subs
        BY <3>6, <4>1
      <4> QED  BY <3>7, <3>9, <4>2, <4>3 DEF SubsDisjoint
    <3> QED  BY <3>4, <3>8, <3>9
  <2> QED  BY <2>3, <2>4, <2>5 DEF SubsSound
<1>12. MutexSound'
  BY <1>1 DEF IInv, MutexSound
<1> QED  BY <1>9, <1>10, <1>11, <1>12 DEF IInv

LEMMA NextKeeps == IInv /\ [Next]_registry => IInv'
<1> SUFFICES ASSUME IInv, [Next]_registry
             PROVE  IInv'
  OBVIOUS
<1>1. ASSUME NEW c \in Clients, NEW n \in Nodes, NEW pri \in Priorities,
             Register(c, n, pri)
      PROVE  IInv'
  BY <1>1, RegisterKeeps
<1>2. CASE RegisterStep
  BY <1>2, RegisterStepKeeps
<1>3. CASE Clear
  BY <1>3, ClearKeeps
<1>4. ASSUME NEW t \in Togglers, SetEnabled(t)
      PROVE  IInv'
  BY <1>4, SetEnabledKeeps
<1>5. ASSUME NEW h \in Slots, NEW cb \in Callbacks, Subscribe(h, cb)
      PROVE  IInv'
  BY <1>5, SubscribeKeeps
<1>6. ASSUME NEW t \in Togglers, NEW h \in Slots, NEW on \in BOOLEAN,
             CheckHandle(t, h, on)
      PROVE  IInv'
  BY <1>6, CheckHandleKeeps
<1>7. CASE UNCHANGED registry
  BY <1>7 DEF registry, toggling, IInv, TypeOK, ListSound, PriorityOrder, Precedes,
              SubsSound, SubsLinked, SubsDisjoint, MutexSound
<1> QED  BY <1>1, <1>2, <1>3, <1>4, <1>5, <1>6, <1>7 DEF Next

\* In every behaviour the types are right and the list that processing follows
\* holds each registered handle once, in evaluation order, and the subscriber
\* lists are intact, whatever the limits, the clients and the handles they pass.
THEOREM RegistrySafe ==
    Spec => [](TypeOK /\ ListSound /\ PriorityOrder /\ SubsSound)
<1>1. IInv => TypeOK /\ ListSound /\ PriorityOrder /\ SubsSound
  BY DEF IInv
<1> QED  BY <1>1, InitEstablishes, NextKeeps, PTL DEF Spec

\* However many nodes are registered and whatever their priorities: nodes of a
\* higher priority come first, and those of the same in the order they were
\* registered (proc_mgr.c: step_pm_register; proc_mgr.h).
THEOREM RegistryOrdered == Spec => []PriorityOrder
BY RegistrySafe, PTL

\* However many subscriptions there are, to whatever handles: following the
\* links of a record's list visits its subscribers in the order they came, and
\* no chunk is in two lists, chunks that a clear has dropped included
\* (proc_mgr.c: step_pm_subscribe_to_node, step_pm_clear).
THEOREM SubscribersLinked == Spec => []SubsSound
BY RegistrySafe, PTL

\* A step that leaves the list and the records of registered nodes alone, except
\* that subscribers are added to one, keeps every registration.
LEMMA SameListStable ==
    ASSUME slist' = slist,
           \A h \in 0 .. handle_counter - 1 :
               /\ nodes'[h].node = nodes[h].node
               /\ nodes'[h].priority = nodes[h].priority
               /\ \A i \in 1 .. Len(nodes[h].subs) :
                     nodes'[h].subs[i] = nodes[h].subs[i]
    PROVE  RegistrationKept
BY DEF RegistrationKept

LEMMA NextStable ==
    ASSUME IInv, [Next]_registry
    PROVE  RegistrationKept
<1> USE RegistryAssumption
<1>0. /\ \A h \in 0 .. handle_counter - 1 : h \in Slots
      /\ nodes \in [Slots -> NodeRecord]
  BY DEF IInv, TypeOK, Slots
<1>1. ASSUME NEW c \in Clients, NEW n \in Nodes, NEW pri \in Priorities,
             Register(c, n, pri)
      PROVE  RegistrationKept
  <2>1. \A h \in 0 .. handle_counter - 1 : nodes'[h] = nodes[h]
    <3>1. nodes' = [nodes EXCEPT ![handle_counter] =
                                     NewRecord(handle_counter, n, pri)]
      BY <1>1 DEF Register
    <3>2. \A h \in 0 .. handle_counter - 1 : h # handle_counter
      BY DEF IInv, TypeOK
    <3> QED  BY <1>0, <3>1, <3>2
  <2>2. PICK k \in 0 .. handle_counter :
            /\ Len(slist') = handle_counter + 1
            /\ Inserted(slist, slist', handle_counter, k)
    BY <1>1, RegisterInserts
  <2>3. Len(slist) = handle_counter /\ handle_counter \in Nat
    BY DEF IInv, TypeOK, ListSound
  <2>4. ASSUME NEW i \in 1 .. Len(slist), NEW j \in 1 .. Len(slist), i < j
        PROVE  \E a, b \in 1 .. Len(slist') :
                   a < b /\ slist'[a] = slist[i] /\ slist'[b] = slist[j]
    <3> DEFINE Pos(l) == IF l <= k THEN l ELSE l + 1
    <3>1. \A l \in 1 .. Len(slist) :
              Pos(l) \in 1 .. Len(slist') /\ slist'[Pos(l)] = slist[l]
      <4>1. ASSUME NEW l \in 1 .. Len(slist)
            PROVE  Pos(l) \in 1 .. Len(slist') /\ slist'[Pos(l)] = slist[l]
        <5>1. CASE l <= k
          BY <2>2, <2>3, <5>1 DEF Inserted
        <5>2. CASE ~(l <= k)
          BY <2>2, <2>3, <5>2 DEF Inserted
        <5> QED  BY <5>1, <5>2
      <4> QED  BY <4>1
    <3>2. Pos(i) < Pos(j)
      BY <2>3, <2>4
    <3> QED  BY <3>1, <3>2
  <2> QED  BY <2>1, <2>4 DEF RegistrationKept
<1>2. CASE RegisterStep
  BY <1>2, SameListStable
     DEF RegisterStep, CallInitHandler, SkipInitHandler, RegisterReturn
<1>3. CASE Clear
  <2>1. epoch' # epoch
    BY <1>3 DEF Clear, IInv, TypeOK
  <2> QED  BY <2>1 DEF RegistrationKept
<1>4. ASSUME NEW t \in Togglers, SetEnabled(t)
      PROVE  RegistrationKept
  <2>1. slist' = slist
    BY <1>4 DEF SetEnabled
  <2>2. \A g \in Slots : /\ nodes'[g].node = nodes[g].node
                         /\ nodes'[g].priority = nodes[g].priority
                         /\ nodes'[g].subs = nodes[g].subs
    BY <1>4, SetEnabledStores
  <2> QED  BY <1>0, <2>1, <2>2, SameListStable
<1>5. ASSUME NEW h \in Slots, NEW cb \in Callbacks, Subscribe(h, cb)
      PROVE  RegistrationKept
  <2> DEFINE c == Len(cb_pool) + 1
             more == Append(nodes[h].subs, c)
  <2>1. nodes' = [nodes EXCEPT ![h].subs = more] /\ slist' = slist
    BY <1>5 DEF Subscribe
  <2>2. \A i \in 1 .. Len(nodes[h].subs) : more[i] = nodes[h].subs[i]
    <3>1. c \in Chunks /\ nodes[h].subs \in Seq(Chunks)
      BY <1>0, <1>5, LenProperties DEF Subscribe, IInv, TypeOK, NodeRecord, Chunks
    <3> HIDE DEF c
    <3> QED  BY <3>1, AppendProperties
  <2> HIDE DEF more
  <2>3. \A g \in Slots :
            /\ nodes'[g].node = nodes[g].node
            /\ nodes'[g].priority = nodes[g].priority
            /\ \/ nodes'[g].subs = nodes[g].subs
               \/ g = h /\ nodes'[g].subs = more
    BY <1>0, <2>1 DEF NodeRecord
  <2>4. \A g \in Slots : \A i \in 1 .. Len(nodes[g].subs) :
            nodes'[g].subs[i] = nodes[g].subs[i]
    BY <2>2, <2>3
  <2> QED  BY <1>0, <2>1, <2>3, <2>4, SameListStable
<1>6. ASSUME NEW t \in Togglers, NEW h \in Slots, NEW on \in BOOLEAN,
             CheckHandle(t, h, on)
      PROVE  RegistrationKept
  BY <1>6, SameListStable DEF CheckHandle
<1>7. CASE UNCHANGED registry
  BY <1>7, SameListStable DEF registry
<1> QED  BY <1>1, <1>2, <1>3, <1>4, <1>5, <1>6, <1>7 DEF Next

\* Between two clears no call reorders, replaces or forgets a registration or a
\* subscription.
THEOREM RegistrationsStay == Spec => RegistrationStable
<1>1. IInv /\ [Next]_registry => [RegistrationKept]_registry
  BY NextStable
<1> QED  BY <1>1, InitEstablishes, NextKeeps, PTL DEF Spec, RegistrationStable

-----------------------------------------------------------------------------
(* The state of the work queue's thread.                                   *)

Fields == {"pc", "m", "cur", "tmp", "node", "inst", "stage", "sub", "subtmp",
           "match", "epoch", "due", "skipped", "ran", "subs", "called"}

Shaped(x) == x = [f \in Fields |-> x[f]]

Walking == {"visit", "finish"}

LEMMA IdleShaped == Shaped(Idle) /\ Idle.pc = "idle" /\ Idle.m = NULL
BY DEF Shaped, Idle, Fields

\* Every step of processing but the first and the last keeps the measurement.
LEMMA AdvanceKeeps ==
    ASSUME NEW x, Shaped(x)
    PROVE  /\ Shaped(Advance(x))
           /\ Advance(x).m = x.m
           /\ Advance(x).pc \in Walking
BY DEF Shaped, Fields, Advance, Walking

LEMMA AfterStageKeeps ==
    ASSUME NEW x, Shaped(x), x.stage \in Stages
    PROVE  /\ Shaped(AfterStage(x))
           /\ AfterStage(x).m = x.m
           /\ AfterStage(x).stage \in Stages
           /\ AfterStage(x).pc \in {x.pc, "chain", "chain_end"}
<1>1. CASE x.stage = "start"
  BY <1>1 DEF Shaped, Fields, AfterStage, Stages
<1>2. CASE x.stage = "exec"
  BY <1>2 DEF Shaped, Fields, AfterStage, Stages
<1>3. CASE x.stage = "stop"
  BY <1>3 DEF Shaped, Fields, AfterStage, Stages
<1> QED  BY <1>1, <1>2, <1>3 DEF Stages

WorkerShape == Shaped(w) /\ w.stage \in Stages

\* A step of processing between its first and its last.
Middle ==
    \/ StartList \/ PassOver \/ EvaluateCached \/ Evaluate \/ EvaluateNull
    \/ \E r \in {OK, EFAIL} : CallHandler(r)
    \/ SkipHandler \/ StartSubscribers \/ CallSubscriber \/ Relock

RegistryButMutex == <<handle_counter, nodes, slist, cb_pool, reg, toggling, epoch>>

\* What such a step does to the mutex: it takes it on its way to the list,
\* keeps it there, and releases it or does without it elsewhere.
MutexMoves ==
    \/ reg_mutex = NULL /\ reg_mutex' = Worker /\ w'.pc \in Walking
    \/ w.pc = "visit" /\ reg_mutex' = reg_mutex
          /\ w'.pc \in Walking \cup {"fault"}
    \/ w.pc = "visit" /\ reg_mutex' = NULL /\ w'.pc \notin Walking
    \/ w.pc \notin Walking \cup {"fault"} /\ reg_mutex' = reg_mutex
          /\ w'.pc \notin Walking

MiddleEffect ==
    /\ WorkerShape'
    /\ w'.m = w.m
    /\ w.pc # "idle" /\ w'.pc # "idle"
    /\ MutexMoves
    /\ UNCHANGED <<RegistryButMutex, flow>>

LEMMA EvaluatedEffect ==
    ASSUME WorkerShape, w.pc = "visit", NEW n, NEW match,
           Evaluated(n, match)
    PROVE  MiddleEffect
<1>1. /\ reg_mutex' = NULL
      /\ UNCHANGED <<handle_counter, nodes, slist, cb_pool, reg, toggling, epoch, flow>>
  BY DEF Evaluated
<1>2. Shaped(w') /\ w'.stage = "start" /\ w'.m = w.m
  BY DEF Evaluated, WorkerShape, Shaped, Fields
<1>3. w'.pc \in {"chain", "relock"}
  BY DEF Evaluated, WorkerShape, Shaped, Fields
<1> QED  BY <1>1, <1>2, <1>3
         DEF MiddleEffect, WorkerShape, MutexMoves, RegistryButMutex, Walking, Stages

LEMMA MiddleSteps ==
    ASSUME WorkerShape, Middle
    PROVE  MiddleEffect
<1> USE DEF MiddleEffect, WorkerShape, MutexMoves, RegistryButMutex, registry
<1>1. CASE StartList
  <2> DEFINE x == [w EXCEPT !.tmp = IF slist = <<>> THEN NONE ELSE Head(slist),
                            !.epoch = epoch, !.due = 0 .. handle_counter - 1]
  <2>1. Shaped(x) /\ x.m = w.m /\ x.stage = w.stage
    BY DEF Shaped, Fields
  <2>2. w' = Advance(x)
    BY <1>1 DEF StartList
  <2> HIDE DEF x
  <2>3. Shaped(w') /\ w'.m = w.m /\ w'.pc \in Walking
    BY <2>1, <2>2, AdvanceKeeps
  <2>4. w'.stage = w.stage
    BY <2>1, <2>2 DEF Advance, Shaped, Fields
  <2> QED  BY <1>1, <2>3, <2>4 DEF StartList, Walking
<1>2. CASE PassOver
  <2> DEFINE x == [w EXCEPT !.skipped = @ \cup {w.cur}]
  <2>1. Shaped(x) /\ x.m = w.m /\ x.stage = w.stage
    BY DEF Shaped, Fields
  <2>2. w' = Advance(x)
    BY <1>2 DEF PassOver
  <2> HIDE DEF x
  <2>3. Shaped(w') /\ w'.m = w.m /\ w'.pc \in Walking
    BY <2>1, <2>2, AdvanceKeeps
  <2>4. w'.stage = w.stage
    BY <2>1, <2>2 DEF Advance, Shaped, Fields
  <2> QED  BY <1>2, <2>3, <2>4 DEF PassOver, Walking
<1>3. CASE EvaluateCached
  <2> DEFINE key == <<mes[w.m].bits, nodes[w.cur].handle>>
  <2>1. w.pc = "visit" /\ Evaluated(nodes[w.cur].node, cache[key])
    BY <1>3 DEF EvaluateCached
  <2> HIDE DEF key
  <2> QED  BY <2>1, EvaluatedEffect
<1>4. CASE Evaluate
  <2> DEFINE n == nodes[w.cur].node
             match == Outcome(nodes[w.cur].node, mes[w.m])
  <2>1. w.pc = "visit" /\ Evaluated(n, match)
    BY <1>4 DEF Evaluate
  <2> HIDE DEF n, match
  <2> QED  BY <2>1, EvaluatedEffect
<1>5. CASE EvaluateNull
  <2>1. w' = [w EXCEPT !.pc = "fault"] /\ w.pc = "visit" /\ UNCHANGED <<registry, flow>>
    BY <1>5 DEF EvaluateNull
  <2>2. Shaped(w') /\ w'.m = w.m /\ w'.stage = w.stage /\ w'.pc = "fault"
    BY <2>1 DEF Shaped, Fields
  <2> QED  BY <2>1, <2>2 DEF Walking
<1>6. ASSUME NEW r \in {OK, EFAIL}, CallHandler(r)
      PROVE  MiddleEffect
  <2>1. /\ w.pc = "chain" /\ UNCHANGED <<registry, flow>>
        /\ w' = [w EXCEPT !.pc = "fault"] \/ w' = AfterStage(w)
    BY <1>6 DEF CallHandler
  <2>2. CASE w' = [w EXCEPT !.pc = "fault"]
    <3>1. Shaped(w') /\ w'.m = w.m /\ w'.stage = w.stage /\ w'.pc = "fault"
      BY <2>2 DEF Shaped, Fields
    <3> QED  BY <2>1, <3>1 DEF Walking
  <2>3. CASE w' = AfterStage(w)
    BY <2>1, <2>3, AfterStageKeeps DEF Walking
  <2> QED  BY <2>1, <2>2, <2>3
<1>7. CASE SkipHandler
  BY <1>7, AfterStageKeeps DEF SkipHandler, Walking
<1>8. CASE StartSubscribers
  <2>1. /\ w.pc = "chain_end" /\ UNCHANGED <<registry, flow>>
        /\ Shaped(w') /\ w'.m = w.m /\ w'.stage = w.stage
        /\ w'.pc \in {"relock", "subs"}
    BY <1>8 DEF StartSubscribers, Shaped, Fields
  <2> QED  BY <2>1 DEF Walking
<1>9. CASE CallSubscriber
  <2>1. /\ w.pc = "subs" /\ UNCHANGED <<registry, flow>>
        /\ Shaped(w') /\ w'.m = w.m /\ w'.stage = w.stage
        /\ w'.pc \in {"relock", "subs"}
    BY <1>9 DEF CallSubscriber, Shaped, Fields
  <2> QED  BY <2>1 DEF Walking
<1>10. CASE Relock
  <2>1. /\ w.pc = "relock" /\ reg_mutex = NULL /\ reg_mutex' = Worker
        /\ w' = Advance(w) /\ UNCHANGED <<RegistryButMutex, flow>>
    BY <1>10 DEF Relock
  <2>2. w'.stage = w.stage
    BY <2>1 DEF Advance, Shaped, Fields
  <2> QED  BY <2>1, <2>2, AdvanceKeeps DEF Walking
<1> QED  BY <1>1, <1>2, <1>3, <1>4, <1>5, <1>6, <1>7, <1>8, <1>9, <1>10 DEF Middle

LEMMA FirstAndLastSteps ==
    ASSUME WorkerShape
    PROVE  /\ TakeWork => /\ WorkerShape' /\ w.pc = "idle"
                          /\ w'.pc = "lock" /\ w'.m = Head(queue)
           /\ Finish => /\ WorkerShape' /\ w.pc = "finish"
                        /\ w'.pc = "idle" /\ w'.m = NULL
<1>1. ASSUME TakeWork
      PROVE  /\ WorkerShape' /\ w.pc = "idle"
             /\ w'.pc = "lock" /\ w'.m = Head(queue)
  BY <1>1 DEF TakeWork, WorkerShape, Shaped, Fields
<1>2. ASSUME Finish
      PROVE  /\ WorkerShape' /\ w.pc = "finish"
             /\ w'.pc = "idle" /\ w'.m = NULL
  <2>1. w' = Idle /\ w.pc = "finish"
    BY <1>2 DEF Finish
  <2>2. Idle.stage \in Stages
    BY DEF Idle, Stages
  <2> QED  BY <2>1, <2>2, IdleShaped DEF WorkerShape, Shaped
<1> QED  BY <1>1, <1>2

-----------------------------------------------------------------------------
(* The registry and its mutex.                                             *)

\* A call of the registry is a step of Registry.
LEMMA RegistryCallIsStep ==
    ClearAll \/ RegistryCall => Next /\ UNCHANGED <<flow, w>>
BY DEF ClearAll, RegistryCall, Next

\* Registry calls never touch a mutex that processing holds, nor do they leave
\* it to processing.
LEMMA CallsLeaveWorkersMutex ==
    ASSUME IInv, Next
    PROVE  reg_mutex' = reg_mutex \/ (reg_mutex # Worker /\ reg_mutex' # Worker)
<1> USE RegistryAssumption
<1>1. ASSUME NEW c \in Clients, NEW n \in Nodes, NEW pri \in Priorities,
             Register(c, n, pri)
      PROVE  reg_mutex # Worker /\ reg_mutex' # Worker
  BY <1>1 DEF Register
<1>2. CASE RegisterStep
  <2>1. reg # NULL /\ reg.client \in Clients /\ reg_mutex = reg.client
    <3>1. reg # NULL
      BY <1>2 DEF RegisterStep, CallInitHandler, SkipInitHandler, RegisterReturn,
                  Initializing
    <3>2. reg \in Registration
      BY <3>1 DEF IInv, TypeOK
    <3> QED  BY <3>1, <3>2 DEF IInv, MutexSound, Registration
  <2>2. reg_mutex' = reg_mutex \/ reg_mutex' = NULL
    BY <1>2 DEF RegisterStep, CallInitHandler, SkipInitHandler, RegisterReturn
  <2> QED  BY <2>1, <2>2
<1>3. CASE Clear
  BY <1>3 DEF Clear
<1>4. ASSUME NEW t \in Togglers, SetEnabled(t)
      PROVE  reg_mutex' = reg_mutex
  BY <1>4 DEF SetEnabled
<1>5. ASSUME NEW h \in Slots, NEW cb \in Callbacks, Subscribe(h, cb)
      PROVE  reg_mutex' = reg_mutex
  BY <1>5 DEF Subscribe
<1>6. ASSUME NEW t \in Togglers, NEW h \in Slots, NEW on \in BOOLEAN,
             CheckHandle(t, h, on)
      PROVE  reg_mutex' = reg_mutex
  BY <1>6 DEF CheckHandle
<1> QED  BY <1>1, <1>2, <1>3, <1>4, <1>5, <1>6 DEF Next

\* Taking the mutex when it is free, and releasing it, keeps the registry sound.
LEMMA MutexMoveKeeps ==
    ASSUME IInv, UNCHANGED RegistryButMutex,
           \/ reg_mutex' = reg_mutex
           \/ reg_mutex \in {NULL, Worker} /\ reg_mutex' \in {NULL, Worker}
    PROVE  IInv'
<1>1. UNCHANGED <<handle_counter, nodes, slist, cb_pool, reg, toggling, epoch>>
  BY DEF RegistryButMutex
<1>2. reg # NULL => reg_mutex = reg.client /\ reg.client \in Clients
  BY DEF IInv, TypeOK, MutexSound, Registration
<1>3. MutexSound'
  <2>1. reg # NULL => reg_mutex \notin {NULL, Worker}
    BY <1>2, RegistryAssumption
  <2> QED  BY <1>1, <2>1 DEF IInv, MutexSound
<1>4. TypeOK'
  BY <1>1 DEF IInv, TypeOK, toggling
<1>5. ListSound' /\ PriorityOrder'
  BY <1>1 DEF IInv, ListSound, PriorityOrder, Precedes
<1>6. SubsSound'
  BY <1>1 DEF IInv, SubsSound, SubsLinked, SubsDisjoint
<1> QED  BY <1>3, <1>4, <1>5, <1>6 DEF IInv

-----------------------------------------------------------------------------
(* The mutex discipline of processing.                                     *)

LockInv == IInv /\ WorkerShape /\ ProcessingLocked

LEMMA LockInit == ManagerInit => LockInv
<1> SUFFICES ASSUME ManagerInit PROVE LockInv
  OBVIOUS
<1>1. IInv
  BY InitEstablishes DEF ManagerInit
<1>2. w = Idle /\ reg_mutex = NULL /\ reg = NULL
  BY DEF ManagerInit, Init
<1>3. WorkerShape /\ w.pc = "idle"
  <2>1. Idle.stage \in Stages
    BY DEF Idle, Stages
  <2> QED  BY <1>2, <2>1, IdleShaped DEF WorkerShape
<1> QED  BY <1>1, <1>2, <1>3, RegistryAssumption DEF LockInv, ProcessingLocked

LEMMA LockNext == LockInv /\ [ManagerNext]_vars => LockInv'
<1> SUFFICES ASSUME LockInv, [ManagerNext]_vars PROVE LockInv'
  OBVIOUS
<1> USE RegistryAssumption
<1>0. IInv /\ WorkerShape /\ ProcessingLocked
  BY DEF LockInv
<1>1. ASSUME UNCHANGED <<registry, w>> PROVE LockInv'
  <2>1. UNCHANGED RegistryButMutex /\ reg_mutex' = reg_mutex
    BY <1>1 DEF registry, RegistryButMutex
  <2>2. IInv'
    BY <1>0, <2>1, MutexMoveKeeps
  <2> QED  BY <1>0, <1>1, <2>1, <2>2
           DEF LockInv, WorkerShape, Shaped, ProcessingLocked, RegistryButMutex
<1>2. CASE Middle
  <2>1. MiddleEffect
    BY <1>0, <1>2, MiddleSteps
  <2>2. w.pc \in Walking => reg_mutex = Worker
    BY <1>0 DEF ProcessingLocked, Walking
  <2>3. reg_mutex = Worker => w.pc \in Walking \cup {"fault"}
    BY <1>0 DEF ProcessingLocked, Walking
  <2>4. IInv'
    BY <1>0, <2>1, <2>2, MutexMoveKeeps DEF MiddleEffect, MutexMoves, Walking
  <2>5. ProcessingLocked'
    <3>1. w'.pc \in Walking => reg_mutex' = Worker
      BY <2>1, <2>2 DEF MiddleEffect, MutexMoves, Walking
    <3>2. reg_mutex' = Worker => w'.pc \in Walking \cup {"fault"}
      BY <2>1, <2>3 DEF MiddleEffect, MutexMoves, Walking
    <3>3. (reg # NULL => reg_mutex = reg.client)'
      BY <2>4 DEF IInv, MutexSound
    <3> QED  BY <3>1, <3>2, <3>3 DEF ProcessingLocked, Walking
  <2> QED  BY <2>1, <2>4, <2>5 DEF LockInv, MiddleEffect
<1>3. CASE TakeWork
  <2>1. WorkerShape' /\ w.pc = "idle" /\ w'.pc = "lock" /\ UNCHANGED registry
    BY <1>0, <1>3, FirstAndLastSteps DEF TakeWork
  <2>2. IInv'
    BY <1>0, <2>1, MutexMoveKeeps DEF registry, RegistryButMutex
  <2> QED  BY <1>0, <2>1, <2>2 DEF LockInv, ProcessingLocked, registry
<1>4. CASE Finish
  <2>1. WorkerShape' /\ w.pc = "finish" /\ w'.pc = "idle"
    BY <1>0, <1>4, FirstAndLastSteps
  <2>2. reg_mutex' = NULL /\ UNCHANGED RegistryButMutex
    BY <1>4 DEF Finish, RegistryButMutex
  <2>3. reg_mutex = Worker
    BY <1>0, <2>1 DEF ProcessingLocked
  <2>4. IInv'
    BY <1>0, <2>2, <2>3, MutexMoveKeeps
  <2>5. (reg # NULL => reg_mutex = reg.client)'
    BY <2>4 DEF IInv, MutexSound
  <2> QED  BY <2>1, <2>2, <2>4, <2>5 DEF LockInv, ProcessingLocked
<1>5. CASE ClearAll \/ RegistryCall
  <2>1. Next /\ UNCHANGED w
    BY <1>5, RegistryCallIsStep
  <2>2. IInv'
    BY <1>0, <2>1, NextKeeps
  <2>3. reg_mutex' = reg_mutex \/ (reg_mutex # Worker /\ reg_mutex' # Worker)
    BY <1>0, <2>1, CallsLeaveWorkersMutex
  <2>4. (reg # NULL => reg_mutex = reg.client)'
    BY <2>2 DEF IInv, MutexSound
  <2> QED  BY <1>0, <2>1, <2>2, <2>3, <2>4
           DEF LockInv, WorkerShape, Shaped, ProcessingLocked
<1>6. ASSUME NEW t \in Threads, NEW b \in Bits, NEW p \in Payloads, Alloc(t, b, p)
      PROVE  LockInv'
  BY <1>1, <1>6 DEF Alloc
<1>7. ASSUME NEW t \in Threads, AllocFails(t) \/ Put(t)
      PROVE  LockInv'
  BY <1>1, <1>7 DEF AllocFails, Put
<1>8. CASE UNCHANGED vars
  BY <1>1, <1>8 DEF vars
<1> QED  BY <1>2, <1>3, <1>4, <1>5, <1>6, <1>7, <1>8
         DEF ManagerNext, ProcessStep, Middle

\* The registry stays sound while measurements are processed, and processing
\* holds the mutex exactly while it walks the list: handlers and subscribers
\* run without it, and nothing is registered, cleared or subscribed to in the
\* middle of an evaluation.
THEOREM ManagerLocks ==
    ManagerSpec => [](ProcessingLocked /\ TypeOK /\ ListSound /\ PriorityOrder
                        /\ SubsSound)
<1>1. LockInv => ProcessingLocked /\ TypeOK /\ ListSound /\ PriorityOrder /\ SubsSound
  BY DEF LockInv, IInv
<1> QED  BY <1>1, LockInit, LockNext, PTL DEF ManagerSpec

-----------------------------------------------------------------------------
(* Every measurement is in one place.                                      *)

OwnTypes ==
    /\ mes \in [Meas -> Header \cup {NULL}]
    /\ held \in [Threads -> Meas \cup {NULL}]
    /\ queue \in Seq(Meas)
    /\ w.m \in Meas \cup {NULL}
    /\ w.pc = "idle" <=> w.m = NULL

Queued(m) == \E i \in 1 .. Len(queue) : queue[i] = m
Held(m) == \E t \in Threads : held[t] = m

\* No two threads hold the same measurement, none is in the queue twice, and
\* none is in two of the three places.
Apart ==
    /\ \A t, u \in Threads : held[t] = held[u] /\ held[t] # NULL => t = u
    /\ \A i, j \in 1 .. Len(queue) : queue[i] = queue[j] => i = j
    /\ \A m \in Meas : ~(Held(m) /\ Queued(m))
    /\ \A m \in Meas : w.m = m => ~Held(m) /\ ~Queued(m)

\* The blocks in use are those of the measurements that are somewhere.
InUse == \A m \in Meas : mes[m] # NULL <=> Held(m) \/ Queued(m) \/ w.m = m

OwnInv == WorkerShape /\ OwnTypes /\ Apart /\ InUse

LEMMA OwnInit == ManagerInit => OwnInv
<1> SUFFICES ASSUME ManagerInit PROVE OwnInv
  OBVIOUS
<1>1. /\ mes = [m \in Meas |-> NULL] /\ held = [t \in Threads |-> NULL]
      /\ queue = <<>> /\ w = Idle
  BY DEF ManagerInit
<1>2. WorkerShape /\ w.pc = "idle" /\ w.m = NULL
  <2>1. Idle.stage \in Stages
    BY DEF Idle, Stages
  <2> QED  BY <1>1, <2>1, IdleShaped DEF WorkerShape
<1>3. \A m \in Meas : m # NULL /\ ~Held(m) /\ ~Queued(m)
  BY <1>1, ProcMgrAssumption DEF Held, Queued
<1> QED  BY <1>1, <1>2, <1>3 DEF OwnInv, OwnTypes, Apart, InUse

\* A step that moves no measurement.
LEMMA OwnSame ==
    ASSUME OwnInv, WorkerShape', UNCHANGED <<mes, held, queue>>, w'.m = w.m,
           w'.pc = "idle" <=> w.pc = "idle"
    PROVE  OwnInv'
<1>1. \A m : (Held(m)' <=> Held(m)) /\ (Queued(m)' <=> Queued(m))
  BY DEF Held, Queued
<1> QED  BY <1>1 DEF OwnInv, OwnTypes, Apart, InUse

LEMMA AllocKeepsOwned ==
    ASSUME OwnInv, NEW t \in Threads, NEW b \in Bits, NEW p \in Payloads,
           Alloc(t, b, p)
    PROVE  OwnInv'
<1> USE ProcMgrAssumption
<1>1. PICK m \in Meas :
          /\ mes[m] = NULL
          /\ mes' = [mes EXCEPT ![m] = [bits |-> b, payload |-> p]]
          /\ held' = [held EXCEPT ![t] = m]
  BY DEF Alloc
<1>2. held[t] = NULL /\ UNCHANGED <<queue, w>>
  BY DEF Alloc
<1>3. ~Held(m) /\ ~Queued(m) /\ w.m # m
  BY <1>1 DEF OwnInv, InUse
<1>4. \A k : (Queued(k)' <=> Queued(k))
  BY <1>2 DEF Queued
<1>5. \A k \in Meas : (Held(k)' <=> Held(k) \/ k = m)
  BY <1>1, <1>2 DEF Held, OwnInv, OwnTypes
<1>6. OwnTypes'
  <2>1. [bits |-> b, payload |-> p] \in Header
    BY DEF Header
  <2> QED  BY <1>1, <1>2, <2>1 DEF OwnInv, OwnTypes
<1>7. Apart'
  <2>1. \A u, v \in Threads : held'[u] = held'[v] /\ held'[u] # NULL => u = v
    BY <1>1, <1>2, <1>3 DEF OwnInv, OwnTypes, Apart, Held
  <2> QED  BY <1>2, <1>3, <1>4, <1>5, <2>1 DEF OwnInv, Apart
<1>8. InUse'
  <2>1. [bits |-> b, payload |-> p] # NULL
    BY DEF Header
  <2> QED  BY <1>1, <1>2, <1>4, <1>5, <2>1 DEF OwnInv, OwnTypes, InUse
<1>9. WorkerShape'
  BY <1>2 DEF OwnInv, WorkerShape, Shaped
<1> QED  BY <1>6, <1>7, <1>8, <1>9 DEF OwnInv

LEMMA PutKeepsOwned ==
    ASSUME OwnInv, NEW t \in Threads, Put(t)
    PROVE  OwnInv'
<1> USE ProcMgrAssumption
<1> DEFINE m == held[t]
<1>1. /\ m # NULL /\ queue' = Append(queue, m)
      /\ held' = [held EXCEPT ![t] = NULL] /\ UNCHANGED <<mes, w>>
  BY DEF Put
<1>2. m \in Meas /\ Held(m) /\ ~Queued(m) /\ w.m # m
  BY <1>1 DEF OwnInv, OwnTypes, Held, Apart
<1>3. /\ Len(queue) \in Nat /\ Len(queue') = Len(queue) + 1
      /\ \A i \in 1 .. Len(queue) + 1 :
            queue'[i] = IF i <= Len(queue) THEN queue[i] ELSE m
  BY <1>1, <1>2 DEF OwnInv, OwnTypes
<1> HIDE DEF m
<1>4. \A k : (Queued(k)' <=> Queued(k) \/ k = m)
  BY <1>3 DEF Queued
<1>5. \A k \in Meas : (Held(k)' <=> Held(k) /\ k # m)
  BY <1>1 DEF Held, OwnInv, OwnTypes, Apart, m
<1>6. OwnTypes'
  BY <1>1, <1>2 DEF OwnInv, OwnTypes
<1>7. Apart'
  <2>1. \A u, v \in Threads : held'[u] = held'[v] /\ held'[u] # NULL => u = v
    BY <1>1 DEF OwnInv, OwnTypes, Apart
  <2>2. \A i, j \in 1 .. Len(queue) + 1 : queue'[i] = queue'[j] => i = j
    <3>1. \A i \in 1 .. Len(queue) : queue[i] # m
      BY <1>2 DEF Queued
    <3> QED  BY <1>3, <3>1 DEF OwnInv, Apart
  <2> QED  BY <1>1, <1>2, <1>3, <1>4, <1>5, <2>1, <2>2 DEF OwnInv, Apart
<1>8. InUse'
  BY <1>1, <1>2, <1>4, <1>5 DEF OwnInv, InUse
<1>9. WorkerShape'
  BY <1>1 DEF OwnInv, WorkerShape, Shaped
<1> QED  BY <1>6, <1>7, <1>8, <1>9 DEF OwnInv

LEMMA TakeWorkKeepsOwned ==
    ASSUME OwnInv, TakeWork
    PROVE  OwnInv'
<1> USE ProcMgrAssumption
<1> DEFINE m == Head(queue)
<1>1. /\ queue # <<>> /\ queue' = Tail(queue) /\ UNCHANGED <<mes, held>>
      /\ WorkerShape' /\ w.m = NULL /\ w'.pc = "lock" /\ w'.m = m
  BY FirstAndLastSteps DEF OwnInv, OwnTypes, TakeWork
<1>2. /\ Len(queue) \in Nat \ {0} /\ Len(queue') = Len(queue) - 1
      /\ m \in Meas /\ m = queue[1]
      /\ \A i \in 1 .. Len(queue) - 1 : queue'[i] = queue[i + 1]
      /\ queue' \in Seq(Meas)
  BY <1>1 DEF OwnInv, OwnTypes
<1> HIDE DEF m
<1>3. \A k : (Queued(k)' <=> Queued(k) /\ k # m)
  <2>1. ASSUME NEW k, Queued(k)' PROVE Queued(k) /\ k # m
    <3>1. PICK i \in 1 .. Len(queue) - 1 : queue[i + 1] = k
      BY <1>2, <2>1 DEF Queued
    <3>2. i + 1 \in 1 .. Len(queue) /\ 1 \in 1 .. Len(queue) /\ i + 1 # 1
      BY <1>2
    <3> QED  BY <1>2, <3>1, <3>2 DEF Queued, OwnInv, Apart
  <2>2. ASSUME NEW k, Queued(k), k # m PROVE Queued(k)'
    <3>1. PICK i \in 1 .. Len(queue) : queue[i] = k
      BY <2>2 DEF Queued
    <3>2. i # 1
      BY <1>2, <2>2, <3>1
    <3>3. i - 1 \in 1 .. Len(queue') /\ queue'[i - 1] = queue[(i - 1) + 1]
      BY <1>2, <3>2
    <3>4. (i - 1) + 1 = i
      OBVIOUS
    <3> QED  BY <3>1, <3>3, <3>4 DEF Queued
  <2> QED  BY <2>1, <2>2
<1>4. \A k : (Held(k)' <=> Held(k))
  BY <1>1 DEF Held
<1>5. Queued(m)
  BY <1>2 DEF Queued
<1>6. OwnTypes'
  BY <1>1, <1>2 DEF OwnInv, OwnTypes
<1>7. Apart'
  <2>1. \A i, j \in 1 .. Len(queue) - 1 : queue'[i] = queue'[j] => i = j
    <3>1. \A i \in 1 .. Len(queue) - 1 : i + 1 \in 1 .. Len(queue)
      BY <1>2
    <3>2. \A i, j \in 1 .. Len(queue) - 1 : queue[i + 1] = queue[j + 1] => i + 1 = j + 1
      BY <3>1 DEF OwnInv, Apart
    <3> QED  BY <1>2, <3>2
  <2> QED  BY <1>1, <1>2, <1>3, <1>4, <1>5, <2>1 DEF OwnInv, Apart
<1>8. InUse'
  BY <1>1, <1>2, <1>3, <1>4, <1>5 DEF OwnInv, InUse
<1> QED  BY <1>1, <1>6, <1>7, <1>8 DEF OwnInv

LEMMA FinishKeepsOwned ==
    ASSUME OwnInv, Finish
    PROVE  OwnInv'
<1> USE ProcMgrAssumption
<1>1. /\ mes' = [mes EXCEPT ![w.m] = NULL] /\ UNCHANGED <<held, queue>>
      /\ WorkerShape' /\ w.pc = "finish" /\ w'.pc = "idle" /\ w'.m = NULL
  BY FirstAndLastSteps DEF OwnInv, Finish
<1>2. w.m \in Meas /\ ~Held(w.m) /\ ~Queued(w.m)
  BY <1>1 DEF OwnInv, OwnTypes, Apart
<1>3. \A k : (Held(k)' <=> Held(k)) /\ (Queued(k)' <=> Queued(k))
  BY <1>1 DEF Held, Queued
<1>4. OwnTypes'
  BY <1>1, <1>2 DEF OwnInv, OwnTypes
<1>5. Apart'
  BY <1>1, <1>3 DEF OwnInv, Apart
<1>6. InUse'
  BY <1>1, <1>2, <1>3 DEF OwnInv, OwnTypes, InUse
<1> QED  BY <1>1, <1>4, <1>5, <1>6 DEF OwnInv

LEMMA OwnNext == OwnInv /\ [ManagerNext]_vars => OwnInv'
<1> SUFFICES ASSUME OwnInv, [ManagerNext]_vars PROVE OwnInv'
  OBVIOUS
<1>1. ASSUME UNCHANGED <<mes, held, queue, w>> PROVE OwnInv'
  BY <1>1, OwnSame DEF OwnInv, WorkerShape, Shaped
<1>2. CASE Middle
  <2>1. MiddleEffect
    BY <1>2, MiddleSteps DEF OwnInv
  <2> QED  BY <2>1, OwnSame DEF MiddleEffect, flow
<1>3. CASE TakeWork
  BY <1>3, TakeWorkKeepsOwned
<1>4. CASE Finish
  BY <1>4, FinishKeepsOwned
<1>5. CASE ClearAll \/ RegistryCall
  BY <1>1, <1>5, RegistryCallIsStep DEF flow
<1>6. ASSUME NEW t \in Threads, NEW b \in Bits, NEW p \in Payloads, Alloc(t, b, p)
      PROVE  OwnInv'
  BY <1>6, AllocKeepsOwned
<1>7. ASSUME NEW t \in Threads, AllocFails(t)
      PROVE  OwnInv'
  BY <1>1, <1>7 DEF AllocFails
<1>8. ASSUME NEW t \in Threads, Put(t)
      PROVE  OwnInv'
  BY <1>8, PutKeepsOwned
<1>9. CASE UNCHANGED vars
  BY <1>1, <1>9 DEF vars, flow
<1> QED  BY <1>2, <1>3, <1>4, <1>5, <1>6, <1>7, <1>8, <1>9
         DEF ManagerNext, ProcessStep, Middle

\* A measurement whose block is in use is in exactly one place, and any other
\* in none.
LEMMA OwnedOnce == OwnInv => MeasurementsOwned
<1> SUFFICES ASSUME OwnInv, NEW m \in Meas
             PROVE  Cardinality(InPlace(m)) = IF mes[m] = NULL THEN 0 ELSE 1
  BY DEF MeasurementsOwned
<1> DEFINE holders == {<<"held", t>> : t \in {u \in Threads : held[u] = m}}
           places == {<<"queue", i>> :
                         i \in {j \in 1 .. Len(queue) : queue[j] = m}}
           working == {<<"worker", 0>> : i \in {j \in {0} : w.m = m}}
<1>1. InPlace(m) = holders \cup places \cup working
  BY DEF InPlace
<1>2. ~Held(m) => holders = {}
  BY DEF Held
<1>3. ~Queued(m) => places = {}
  BY DEF Queued
<1>4. w.m # m => working = {}
  OBVIOUS
<1>5. ASSUME Held(m) PROVE \E x : holders = {x}
  <2>1. PICK t \in Threads : held[t] = m
    BY <1>5 DEF Held
  <2>2. \A u \in Threads : held[u] = m => u = t
    BY <2>1, ProcMgrAssumption DEF OwnInv, Apart
  <2>3. {u \in Threads : held[u] = m} = {t}
    BY <2>1, <2>2
  <2>4. holders = {<<"held", t>>}
    BY <2>3
  <2> QED  BY <2>4
<1>6. ASSUME Queued(m) PROVE \E x : places = {x}
  <2>1. PICK i \in 1 .. Len(queue) : queue[i] = m
    BY <1>6 DEF Queued
  <2>2. \A j \in 1 .. Len(queue) : queue[j] = m => j = i
    BY <2>1 DEF OwnInv, Apart
  <2>3. {j \in 1 .. Len(queue) : queue[j] = m} = {i}
    BY <2>1, <2>2
  <2>4. places = {<<"queue", i>>}
    BY <2>3
  <2> QED  BY <2>4
<1>7. ASSUME w.m = m PROVE \E x : working = {x}
  <2>1. working = {<<"worker", 0>>}
    BY <1>7
  <2> QED  BY <2>1
<1> HIDE DEF holders, places, working
<1>8. CASE mes[m] = NULL
  <2>1. InPlace(m) = {}
    BY <1>1, <1>2, <1>3, <1>4, <1>8 DEF OwnInv, InUse
  <2> QED  BY <1>8, <2>1, FS_EmptySet
<1>9. CASE mes[m] # NULL
  <2>1. Held(m) \/ Queued(m) \/ w.m = m
    BY <1>9 DEF OwnInv, InUse
  <2>2. \E x : InPlace(m) = {x}
    <3>1. CASE Held(m)
      BY <1>1, <1>3, <1>4, <1>5, <3>1 DEF OwnInv, Apart
    <3>2. CASE Queued(m)
      BY <1>1, <1>2, <1>4, <1>6, <3>2 DEF OwnInv, Apart
    <3>3. CASE w.m = m
      BY <1>1, <1>2, <1>3, <1>7, <3>3 DEF OwnInv, Apart
    <3> QED  BY <2>1, <3>1, <3>2, <3>3
  <2> QED  BY <1>9, <2>2, FS_Singleton
<1> QED  BY <1>8, <1>9

\* No measurement is lost, processed twice, or seen by a callback after it has
\* been given back.
THEOREM ManagerOwns == ManagerSpec => []MeasurementsOwned
BY OwnInit, OwnNext, OwnedOnce, PTL DEF ManagerSpec

-----------------------------------------------------------------------------
(* The manager implements MeasurementFlow.                                 *)

LEMMA FlowInit == ManagerInit => Flow!Init /\ ~Stopped
BY ProcMgrAssumption, IdleShaped DEF ManagerInit, Init, Flow!Init, Stopped, Faulted

LEMMA FlowAllocates ==
    ASSUME OwnInv, NEW t \in Threads, NEW b \in Bits, NEW p \in Payloads,
           Alloc(t, b, p)
    PROVE  \E m \in Meas : Flow!Allocate(m)
<1> USE ProcMgrAssumption
<1>1. PICK m \in Meas : mes[m] = NULL /\ held' = [held EXCEPT ![t] = m]
  BY DEF Alloc
<1>2. held[t] = NULL /\ UNCHANGED <<queue, w>>
  BY DEF Alloc
<1>3. ~Held(m) /\ ~Queued(m) /\ w.m # m
  BY <1>1 DEF OwnInv, InUse
<1>4. \A k \in Meas : (\E u \in Threads : held'[u] = k)
                         <=> (\E u \in Threads : held[u] = k) \/ k = m
  BY <1>1, <1>2 DEF OwnInv, OwnTypes
<1>5. Flow!Allocate(m)
  BY <1>2, <1>3, <1>4 DEF Flow!Allocate, Flow!Waiting, Held, Queued
<1> QED  BY <1>5

LEMMA FlowSubmits ==
    ASSUME OwnInv, NEW t \in Threads, Put(t)
    PROVE  \E m \in Meas : Flow!Submit(m)
<1> USE ProcMgrAssumption
<1>1. PICK m \in Meas : m = held[t]
  BY DEF Put, OwnInv, OwnTypes
<1>2. /\ m # NULL /\ queue' = Append(queue, m)
      /\ held' = [held EXCEPT ![t] = NULL] /\ UNCHANGED <<mes, w>>
  BY <1>1 DEF Put
<1>3. \A k \in Meas : (\E u \in Threads : held'[u] = k)
                         <=> (\E u \in Threads : held[u] = k) /\ k # m
  BY <1>1, <1>2 DEF OwnInv, OwnTypes, Apart
<1>4. Flow!Submit(m)
  BY <1>1, <1>2, <1>3 DEF Flow!Submit
<1> QED  BY <1>4

\* A registration whose init handler was not there never goes on.
LEMMA FaultedStays ==
    ASSUME IInv, Next, reg # NULL /\ reg.fault
    PROVE  reg' # NULL /\ reg'.fault
<1>1. reg_mutex # NULL
  BY RegistryAssumption DEF IInv, TypeOK, MutexSound, Registration
<1>2. reg' = reg
  BY <1>1 DEF Next, Register, RegisterStep, CallInitHandler, SkipInitHandler,
              RegisterReturn, Initializing, Clear, CheckHandle, SetEnabled,
              Subscribe
<1> QED  BY <1>2

\* What has stopped the manager stays.
LEMMA StoppedStays ==
    ASSUME LockInv, [ManagerNext]_vars, Stopped
    PROVE  Stopped'
<1>0. WorkerShape /\ IInv
  BY DEF LockInv
<1>1. CASE ClearAll \/ RegistryCall
  <2>1. Next /\ UNCHANGED <<flow, w>>
    BY <1>1, RegistryCallIsStep
  <2> QED  BY <1>0, <2>1, FaultedStays DEF Stopped, Faulted, flow
<1>2. CASE Middle
  <2>1. UNCHANGED <<reg, sp_owner>>
    BY <1>0, <1>2, MiddleSteps DEF MiddleEffect, RegistryButMutex, flow
  <2>2. w.pc # "fault"
    BY <1>2 DEF Middle, StartList, PassOver, EvaluateCached, Evaluate,
                EvaluateNull, CallHandler, SkipHandler, StartSubscribers,
                CallSubscriber, Relock
  <2> QED  BY <2>1, <2>2 DEF Stopped, Faulted
<1>3. CASE TakeWork \/ Finish
  BY <1>3 DEF TakeWork, Finish, registry, Stopped, Faulted
<1>4. ASSUME NEW t \in Threads, NEW b \in Bits, NEW p \in Payloads, Alloc(t, b, p)
      PROVE  Stopped'
  BY <1>4 DEF Alloc, registry, Stopped, Faulted
<1>5. ASSUME NEW t \in Threads, AllocFails(t) \/ Put(t)
      PROVE  Stopped'
  BY <1>5 DEF AllocFails, Put, registry, Stopped, Faulted
<1>6. CASE UNCHANGED vars
  BY <1>6 DEF vars, registry, flow, Stopped, Faulted
<1> QED  BY <1>1, <1>2, <1>3, <1>4, <1>5, <1>6
         DEF ManagerNext, ProcessStep, Middle

LEMMA FlowStep ==
    LockInv /\ OwnInv /\ [ManagerNext]_vars => [Flow!Next]_(Flow!flowVars)
<1> SUFFICES ASSUME LockInv, OwnInv, [ManagerNext]_vars
             PROVE  [Flow!Next]_(Flow!flowVars)
  OBVIOUS
<1>0. Stopped => Stopped'
  BY StoppedStays
<1>1. ASSUME UNCHANGED <<held, queue>>, w'.m = w.m
      PROVE  [Flow!Next]_(Flow!flowVars)
  <2>1. CASE Stopped' = Stopped
    BY <1>1, <2>1 DEF Flow!flowVars
  <2>2. CASE ~Stopped /\ Stopped'
    BY <1>1, <2>2 DEF Flow!Next, Flow!Stop
  <2> QED  BY <1>0, <2>1, <2>2 DEF Stopped
<1>2. CASE Middle
  <2>1. MiddleEffect
    BY <1>2, MiddleSteps DEF OwnInv
  <2> QED  BY <1>1, <2>1 DEF MiddleEffect, flow
<1>3. CASE TakeWork
  <2>1. Flow!Begin
    BY <1>3, FirstAndLastSteps DEF OwnInv, OwnTypes, TakeWork, Flow!Begin
  <2>2. UNCHANGED Stopped
    BY <1>3, FirstAndLastSteps DEF OwnInv, TakeWork, registry, Stopped, Faulted
  <2> QED  BY <2>1, <2>2 DEF Flow!Next
<1>4. CASE Finish
  <2>1. Flow!End
    BY <1>4, FirstAndLastSteps DEF OwnInv, OwnTypes, Finish, Flow!End
  <2>2. UNCHANGED Stopped
    BY <1>4, FirstAndLastSteps DEF OwnInv, Finish, Stopped, Faulted
  <2> QED  BY <2>1, <2>2 DEF Flow!Next
<1>5. CASE ClearAll \/ RegistryCall
  BY <1>1, <1>5, RegistryCallIsStep DEF flow
<1>6. ASSUME NEW t \in Threads, NEW b \in Bits, NEW p \in Payloads, Alloc(t, b, p)
      PROVE  Flow!Next
  <2>1. UNCHANGED Stopped
    BY <1>6 DEF Alloc, registry, Stopped, Faulted
  <2> QED  BY <1>6, <2>1, FlowAllocates DEF Flow!Next
<1>7. ASSUME NEW t \in Threads, AllocFails(t)
      PROVE  [Flow!Next]_(Flow!flowVars)
  BY <1>1, <1>7 DEF AllocFails
<1>8. ASSUME NEW t \in Threads, Put(t)
      PROVE  Flow!Next
  <2>1. UNCHANGED Stopped
    BY <1>8 DEF Put, registry, Stopped, Faulted
  <2> QED  BY <1>8, <2>1, FlowSubmits DEF Flow!Next
<1>9. CASE UNCHANGED vars
  BY <1>1, <1>9 DEF vars, flow
<1> QED  BY <1>2, <1>3, <1>4, <1>5, <1>6, <1>7, <1>8, <1>9
         DEF ManagerNext, ProcessStep, Middle

\* Whatever is registered, and however handlers and allocations fail: what
\* happens to measurements is a behaviour of MeasurementFlow, but for its
\* fairness.
THEOREM ManagerImplementsFlow ==
    ManagerSpec => Flow!Init /\ ~Stopped /\ [][Flow!Next]_(Flow!flowVars)
BY FlowInit, FlowStep, LockInit, LockNext, OwnInit, OwnNext, PTL DEF ManagerSpec

-----------------------------------------------------------------------------
(* The order of the walk.                                                  *)

\* Places where processing is at a record.
Visiting == {"visit", "chain", "chain_end", "subs", "relock"}

WalkTyped ==
    /\ w.cur \in Handles \cup {NONE} /\ w.tmp \in Handles \cup {NONE}
    /\ w.pc \in Visiting => w.cur \in Handles
    /\ w.epoch \in Nat /\ w.epoch <= epoch
    /\ w.ran \in Seq(Handles)
    /\ w.pc \in {"idle", "lock"} => w.ran = <<>>

\* What has run stands before the record processing is at, or is this record,
\* and that one stands before the record that was next when it was reached.
Ranked ==
    /\ \A i \in 1 .. Len(w.ran) : w.ran[i] < handle_counter
    /\ \A i, j \in 1 .. Len(w.ran) : i < j => Precedes(w.ran[i], w.ran[j])
    /\ w.pc \in Visiting =>
          /\ w.cur < handle_counter
          /\ \A i \in 1 .. Len(w.ran) :
                Precedes(w.ran[i], w.cur) \/ (w.pc # "visit" /\ w.ran[i] = w.cur)
          /\ w.tmp # NONE => w.tmp < handle_counter /\ Precedes(w.cur, w.tmp)

WalkInv == LockInv /\ WalkTyped /\ (w.epoch = epoch => Ranked)

LEMMA PrecedesTransitive ==
    ASSUME IInv, NEW f \in Handles, NEW g \in Handles, NEW h \in Handles,
           Precedes(f, g), Precedes(g, h)
    PROVE  Precedes(f, h)
<1>1. \A x \in Handles : nodes[x].priority \in Nat /\ x \in Nat
  <2>1. nodes \in [Slots -> NodeRecord] /\ \A x \in Handles : x \in Nat
    BY DEF IInv, TypeOK, Handles
  <2> QED  BY <2>1, HandlesAreSlots DEF NodeRecord
<1> QED  BY <1>1 DEF Precedes

\* The record behind one in the list comes after it.
LEMMA FollowingIs ==
    ASSUME IInv, NEW h
    PROVE  /\ Following(h) \in Handles \cup {NONE}
           /\ Following(h) # NONE =>
                 Following(h) < handle_counter /\ Precedes(h, Following(h))
<1> DEFINE at == {i \in 1 .. Len(slist) - 1 : slist[i] = h}
<1>1. slist \in Seq(Handles) /\ Len(slist) \in Nat
  BY DEF IInv, TypeOK
<1>2. CASE at = {}
  BY <1>2, Zenon DEF Following
<1>3. CASE at # {}
  <2> DEFINE k == CHOOSE i \in at : TRUE
  <2>1. k \in at
    BY <1>3
  <2>2. Following(h) = slist[k + 1]
    BY <1>3, Zenon DEF Following
  <2> HIDE DEF k
  <2>3. k \in 1 .. Len(slist) /\ k + 1 \in 1 .. Len(slist) /\ k < k + 1
        /\ slist[k] = h
    BY <1>1, <2>1
  <2>4. slist[k + 1] \in Handles
    BY <1>1, <2>3
  <2>5. slist[k + 1] < handle_counter
    BY <2>3 DEF IInv, ListSound
  <2>6. Precedes(slist[k], slist[k + 1])
    BY <2>3 DEF IInv, PriorityOrder
  <2> QED  BY <2>2, <2>3, <2>4, <2>5, <2>6, Zenon
<1> QED  BY <1>2, <1>3

\* A step that stays at the record, or ends in a fault.
WalkStays ==
    /\ w.pc \in Visiting /\ w'.pc \in (Visiting \ {"visit"}) \cup {"fault"}
    /\ w'.cur = w.cur /\ w'.tmp = w.tmp
    /\ w'.ran = w.ran /\ w'.epoch = w.epoch

\* The chain of the record is about to run.
WalkRuns ==
    /\ w.pc = "visit" /\ w'.pc = "chain"
    /\ w'.cur = w.cur /\ w'.tmp = w.tmp
    /\ w'.ran = Append(w.ran, w.cur) /\ w'.epoch = w.epoch

\* The step to the record that was next.
WalkAdvances ==
    /\ w.pc \in Visiting
    /\ w'.pc = IF w.tmp = NONE THEN "finish" ELSE "visit"
    /\ w'.cur = w.tmp /\ w'.tmp = Following(w.tmp)
    /\ w'.ran = w.ran /\ w'.epoch = w.epoch

\* The step to the first record.
WalkStarts ==
    LET first == IF slist = <<>> THEN NONE ELSE Head(slist)
    IN  /\ w.pc = "lock"
        /\ w'.pc = IF first = NONE THEN "finish" ELSE "visit"
        /\ w'.cur = first /\ w'.tmp = Following(first)
        /\ w'.ran = w.ran /\ w'.epoch = epoch

LEMMA WalkEvaluated ==
    ASSUME WorkerShape, w.pc = "visit", NEW n, NEW match, Evaluated(n, match)
    PROVE  WalkStays \/ WalkRuns
<1>1. CASE match
  BY <1>1 DEF Evaluated, WorkerShape, Shaped, Fields, WalkRuns
<1>2. CASE ~match
  BY <1>2 DEF Evaluated, WorkerShape, Shaped, Fields, WalkStays, Visiting
<1> QED  BY <1>1, <1>2

LEMMA WalkSteps ==
    ASSUME WorkerShape, Middle
    PROVE  WalkStays \/ WalkRuns \/ WalkAdvances \/ WalkStarts
<1> USE DEF WorkerShape
<1>1. CASE StartList
  BY <1>1 DEF StartList, Advance, Shaped, Fields, WalkStarts
<1>2. CASE PassOver
  BY <1>2 DEF PassOver, Advance, Shaped, Fields, WalkAdvances, Visiting
<1>3. CASE EvaluateCached
  <2> DEFINE key == <<mes[w.m].bits, nodes[w.cur].handle>>
  <2>1. w.pc = "visit" /\ Evaluated(nodes[w.cur].node, cache[key])
    BY <1>3 DEF EvaluateCached
  <2> HIDE DEF key
  <2> QED  BY <2>1, WalkEvaluated
<1>4. CASE Evaluate
  <2> DEFINE match == Outcome(nodes[w.cur].node, mes[w.m])
  <2>1. w.pc = "visit" /\ Evaluated(nodes[w.cur].node, match)
    BY <1>4 DEF Evaluate
  <2> HIDE DEF match
  <2> QED  BY <2>1, WalkEvaluated
<1>5. CASE EvaluateNull
  BY <1>5 DEF EvaluateNull, Shaped, Fields, WalkStays, Visiting
<1>6. ASSUME w.pc = "chain", w' = AfterStage(w)
      PROVE  WalkStays
  <2> USE DEF AfterStage, Shaped, Fields, WalkStays, Visiting
  <2>1. CASE w.stage = "start"
    BY <1>6, <2>1
  <2>2. CASE w.stage = "exec"
    BY <1>6, <2>2
  <2>3. CASE w.stage = "stop"
    BY <1>6, <2>3
  <2> QED  BY <2>1, <2>2, <2>3 DEF Stages
<1>7. ASSUME NEW r \in {OK, EFAIL}, CallHandler(r)
      PROVE  WalkStays
  <2>1. CASE w' = [w EXCEPT !.pc = "fault"]
    BY <1>7, <2>1 DEF CallHandler, Shaped, Fields, WalkStays, Visiting
  <2> QED  BY <1>6, <1>7, <2>1 DEF CallHandler
<1>8. CASE SkipHandler
  BY <1>6, <1>8 DEF SkipHandler
<1>9. CASE StartSubscribers
  BY <1>9 DEF StartSubscribers, Shaped, Fields, WalkStays, Visiting
<1>10. CASE CallSubscriber
  BY <1>10 DEF CallSubscriber, Shaped, Fields, WalkStays, Visiting
<1>11. CASE Relock
  BY <1>11 DEF Relock, Advance, Shaped, Fields, WalkAdvances, Visiting
<1> QED  BY <1>1, <1>2, <1>3, <1>4, <1>5, <1>7, <1>8, <1>9, <1>10, <1>11
         DEF Middle

LEMMA WalkInit == ManagerInit => WalkInv
<1> SUFFICES ASSUME ManagerInit PROVE WalkInv
  OBVIOUS
<1>1. w = Idle /\ epoch = 0
  BY DEF ManagerInit, Init
<1>2. /\ w.pc = "idle" /\ w.cur = NONE /\ w.tmp = NONE
      /\ w.epoch = 0 /\ w.ran = <<>>
  BY <1>1 DEF Idle
<1> QED  BY <1>1, <1>2, LockInit DEF WalkInv, WalkTyped, Ranked, Visiting

\* A step that changes neither the registry nor where processing is.
LEMMA WalkSame ==
    ASSUME WalkInv, LockInv', UNCHANGED RegistryButMutex,
           w'.cur = w.cur, w'.tmp = w.tmp, w'.ran = w.ran, w'.epoch = w.epoch,
           \/ w'.pc = w.pc
           \/ w.pc \in {"idle", "lock"} /\ w'.pc \in {"idle", "lock"}
           \/ w.pc \in Visiting
              /\ w'.pc \in (Visiting \ {"visit"}) \cup {"fault"}
    PROVE  WalkInv'
<1>1. UNCHANGED <<handle_counter, nodes, slist, epoch>>
  BY DEF RegistryButMutex
<1>2. WalkTyped'
  BY <1>1 DEF WalkInv, WalkTyped, Visiting
<1>3. \A g, h : Precedes(g, h)' <=> Precedes(g, h)
  BY <1>1 DEF Precedes
<1>4. ASSUME w.epoch = epoch, Ranked PROVE Ranked'
  BY <1>1, <1>3, <1>4 DEF Ranked, Visiting
<1> QED  BY <1>1, <1>2, <1>4 DEF WalkInv

LEMMA WalkRunsKeeps ==
    ASSUME WalkInv, LockInv', UNCHANGED RegistryButMutex, WalkRuns
    PROVE  WalkInv'
<1>1. UNCHANGED <<handle_counter, nodes, slist, epoch>>
  BY DEF RegistryButMutex
<1>2. /\ w.pc = "visit" /\ w'.pc = "chain" /\ w'.cur = w.cur /\ w'.tmp = w.tmp
      /\ w'.ran = Append(w.ran, w.cur) /\ w'.epoch = w.epoch
  BY DEF WalkRuns
<1>3. w.ran \in Seq(Handles) /\ w.cur \in Handles
  BY <1>2 DEF WalkInv, WalkTyped, Visiting
<1>4. /\ w'.ran \in Seq(Handles) /\ Len(w.ran) \in Nat
      /\ Len(w'.ran) = Len(w.ran) + 1
      /\ w'.ran[Len(w.ran) + 1] = w.cur
      /\ \A i \in 1 .. Len(w.ran) : w'.ran[i] = w.ran[i]
  BY <1>2, <1>3, AppendProperties
<1>5. WalkTyped'
  BY <1>1, <1>2, <1>4 DEF WalkInv, WalkTyped, Visiting
<1>6. \A g, h : Precedes(g, h)' <=> Precedes(g, h)
  BY <1>1 DEF Precedes
<1>7. ASSUME w.epoch = epoch, Ranked PROVE Ranked'
  <2>1. /\ w.cur < handle_counter
        /\ \A i \in 1 .. Len(w.ran) : Precedes(w.ran[i], w.cur)
        /\ w.tmp # NONE => w.tmp < handle_counter /\ Precedes(w.cur, w.tmp)
        /\ \A i \in 1 .. Len(w.ran) : w.ran[i] < handle_counter
        /\ \A i, j \in 1 .. Len(w.ran) : i < j => Precedes(w.ran[i], w.ran[j])
    BY <1>2, <1>7 DEF Ranked, Visiting
  <2>2. \A i \in 1 .. Len(w'.ran) :
            i \in 1 .. Len(w.ran) \/ i = Len(w.ran) + 1
    BY <1>4
  <2>3. \A i \in 1 .. Len(w'.ran) : w'.ran[i] < handle_counter
    BY <1>4, <2>1, <2>2
  <2>4. \A i, j \in 1 .. Len(w'.ran) : i < j => Precedes(w'.ran[i], w'.ran[j])
    <3> SUFFICES ASSUME NEW i \in 1 .. Len(w'.ran), NEW j \in 1 .. Len(w'.ran),
                        i < j
                 PROVE  Precedes(w'.ran[i], w'.ran[j])
      OBVIOUS
    <3>1. i \in 1 .. Len(w.ran)
      BY <1>4
    <3>2. CASE j \in 1 .. Len(w.ran)
      BY <1>4, <2>1, <3>1, <3>2
    <3>3. CASE j = Len(w.ran) + 1
      BY <1>4, <2>1, <3>1, <3>3
    <3> QED  BY <2>2, <3>2, <3>3
  <2>5. \A i \in 1 .. Len(w'.ran) :
            Precedes(w'.ran[i], w.cur) \/ w'.ran[i] = w.cur
    BY <1>4, <2>1, <2>2
  <2> QED  BY <1>1, <1>2, <1>6, <2>1, <2>3, <2>4, <2>5 DEF Ranked
<1> QED  BY <1>1, <1>2, <1>5, <1>7 DEF WalkInv

\* The record that was next comes after all that has run, and what the list has
\* behind it now comes after it.
LEMMA WalkAdvancesKeeps ==
    ASSUME WalkInv, LockInv', UNCHANGED RegistryButMutex, WalkAdvances
    PROVE  WalkInv'
<1>1. UNCHANGED <<handle_counter, nodes, slist, epoch>>
  BY DEF RegistryButMutex
<1>2. /\ w.pc \in Visiting
      /\ w'.pc = IF w.tmp = NONE THEN "finish" ELSE "visit"
      /\ w'.cur = w.tmp /\ w'.tmp = Following(w.tmp)
      /\ w'.ran = w.ran /\ w'.epoch = w.epoch
  BY DEF WalkAdvances
<1>3. IInv
  BY DEF WalkInv, LockInv
<1>4. /\ w'.tmp \in Handles \cup {NONE}
      /\ w'.tmp # NONE => w'.tmp < handle_counter /\ Precedes(w'.cur, w'.tmp)
  BY <1>2, <1>3, FollowingIs
<1>5. WalkTyped'
  BY <1>1, <1>2, <1>4 DEF WalkInv, WalkTyped, Visiting
<1>6. \A g, h : Precedes(g, h)' <=> Precedes(g, h)
  BY <1>1 DEF Precedes
<1>7. ASSUME w.epoch = epoch, Ranked PROVE Ranked'
  <2>1. /\ \A i \in 1 .. Len(w.ran) : w.ran[i] < handle_counter
        /\ \A i, j \in 1 .. Len(w.ran) : i < j => Precedes(w.ran[i], w.ran[j])
    BY <1>7 DEF Ranked
  <2>2. ASSUME w.tmp # NONE
        PROVE  /\ w.tmp < handle_counter
               /\ \A i \in 1 .. Len(w.ran) : Precedes(w.ran[i], w.tmp)
    <3>1. w.tmp < handle_counter /\ Precedes(w.cur, w.tmp)
      BY <1>2, <1>7, <2>2 DEF Ranked
    <3>2. w.cur \in Handles /\ w.tmp \in Handles /\ w.ran \in Seq(Handles)
      BY <1>2, <2>2 DEF WalkInv, WalkTyped
    <3>3. ASSUME NEW i \in 1 .. Len(w.ran) PROVE Precedes(w.ran[i], w.tmp)
      <4>1. w.ran[i] \in Handles
        BY <3>2
      <4>2. Precedes(w.ran[i], w.cur) \/ w.ran[i] = w.cur
        BY <1>2, <1>7 DEF Ranked
      <4> QED  BY <1>3, <3>1, <3>2, <4>1, <4>2, PrecedesTransitive
    <3> QED  BY <3>1, <3>3
  <2> QED  BY <1>1, <1>2, <1>4, <1>6, <2>1, <2>2 DEF Ranked, Visiting
<1> QED  BY <1>1, <1>2, <1>5, <1>7 DEF WalkInv

LEMMA WalkStartsKeeps ==
    ASSUME WalkInv, LockInv', UNCHANGED RegistryButMutex, WalkStarts
    PROVE  WalkInv'
<1> DEFINE first == IF slist = <<>> THEN NONE ELSE Head(slist)
<1>1. UNCHANGED <<handle_counter, nodes, slist, epoch>>
  BY DEF RegistryButMutex
<1>2. /\ w.pc = "lock"
      /\ w'.pc = IF first = NONE THEN "finish" ELSE "visit"
      /\ w'.cur = first /\ w'.tmp = Following(first)
      /\ w'.ran = w.ran /\ w'.epoch = epoch
  BY DEF WalkStarts
<1>3. IInv /\ epoch \in Nat
  BY DEF WalkInv, LockInv, IInv, TypeOK
<1>4. /\ first \in Handles \cup {NONE}
      /\ first # NONE => first < handle_counter
  <2>1. slist \in Seq(Handles)
    BY <1>3 DEF IInv, TypeOK
  <2>2. CASE slist = <<>>
    BY <2>2
  <2>3. CASE slist # <<>>
    <3>1. 1 \in 1 .. Len(slist) /\ first = slist[1] /\ slist[1] \in Handles
      BY <2>1, <2>3
    <3> QED  BY <1>3, <3>1 DEF IInv, ListSound
  <2> QED  BY <2>2, <2>3
<1> HIDE DEF first
<1>5. /\ w'.tmp \in Handles \cup {NONE}
      /\ w'.tmp # NONE => w'.tmp < handle_counter /\ Precedes(first, w'.tmp)
  BY <1>2, <1>3, FollowingIs
<1>6. w.ran = <<>> /\ Len(w.ran) = 0
  BY <1>2 DEF WalkInv, WalkTyped
<1>7. WalkTyped'
  BY <1>1, <1>2, <1>3, <1>4, <1>5, <1>6 DEF WalkInv, WalkTyped, Visiting
<1>8. \A g, h : Precedes(g, h)' <=> Precedes(g, h)
  BY <1>1 DEF Precedes
<1>9. Ranked'
  BY <1>1, <1>2, <1>4, <1>5, <1>6, <1>8 DEF Ranked, Visiting
<1> QED  BY <1>7, <1>9 DEF WalkInv

\* Without a clear the registry only grows, and no record changes its priority.
LEMMA RegistryGrows ==
    ASSUME IInv, Next
    PROVE  /\ epoch' \in {epoch, epoch + 1}
           /\ epoch' = epoch =>
                 /\ handle_counter <= handle_counter'
                 /\ \A h \in 0 .. handle_counter - 1 :
                       nodes'[h].priority = nodes[h].priority
<1>1. RegistrationKept
  BY NextStable
<1>2. handle_counter \in Nat
  BY RegistryAssumption DEF IInv, TypeOK
<1>3. \/ epoch' = epoch + 1
      \/ epoch' = epoch /\ handle_counter' \in {handle_counter, handle_counter + 1}
  BY DEF Next, Register, RegisterStep, CallInitHandler, SkipInitHandler,
         RegisterReturn, Clear, CheckHandle, SetEnabled,
         Subscribe
<1>4. epoch \in Nat
  BY DEF IInv, TypeOK
<1> QED  BY <1>1, <1>2, <1>3, <1>4 DEF RegistrationKept

LEMMA WalkUnderCalls ==
    ASSUME WalkInv, LockInv', Next, UNCHANGED w
    PROVE  WalkInv'
<1>1. IInv /\ IInv'
  BY DEF WalkInv, LockInv
<1>2. epoch \in Nat /\ w.epoch \in Nat /\ w.epoch <= epoch
  BY <1>1 DEF IInv, TypeOK, WalkInv, WalkTyped
<1>3. epoch' \in {epoch, epoch + 1}
  BY <1>1, RegistryGrows
<1>4. WalkTyped'
  BY <1>2, <1>3 DEF WalkInv, WalkTyped
<1>5. ASSUME w.epoch = epoch' PROVE Ranked'
  <2>1. epoch' = epoch /\ w.epoch = epoch
    BY <1>2, <1>3, <1>5
  <2>2. Ranked
    BY <2>1 DEF WalkInv
  <2>3. /\ handle_counter <= handle_counter'
        /\ \A h \in 0 .. handle_counter - 1 :
              nodes'[h].priority = nodes[h].priority
    BY <1>1, <2>1, RegistryGrows
  <2>4. handle_counter \in Nat /\ handle_counter' \in Nat
    BY <1>1, RegistryAssumption DEF IInv, TypeOK
  <2>5. \A h \in Handles : h < handle_counter =>
            h < handle_counter' /\ nodes'[h].priority = nodes[h].priority
    BY <2>3, <2>4 DEF Handles
  <2>6. \A g, h \in Handles :
            g < handle_counter /\ h < handle_counter /\ Precedes(g, h)
                => Precedes(g, h)'
    BY <2>5 DEF Precedes
  <2>7. \A i \in 1 .. Len(w.ran) : w.ran[i] \in Handles
    BY DEF WalkInv, WalkTyped
  <2>8. w.pc \in Visiting => w.cur \in Handles
    BY DEF WalkInv, WalkTyped
  <2>9. w.tmp # NONE => w.tmp \in Handles
    BY DEF WalkInv, WalkTyped
  <2>10. /\ \A i \in 1 .. Len(w.ran) : w.ran[i] < handle_counter'
         /\ \A i, j \in 1 .. Len(w.ran) :
               i < j => Precedes(w.ran[i], w.ran[j])'
    BY <2>2, <2>5, <2>6, <2>7 DEF Ranked
  <2>11. ASSUME w.pc \in Visiting
         PROVE  /\ w.cur < handle_counter'
                /\ \A i \in 1 .. Len(w.ran) :
                      \/ Precedes(w.ran[i], w.cur)'
                      \/ w.pc # "visit" /\ w.ran[i] = w.cur
                /\ w.tmp # NONE => /\ w.tmp < handle_counter'
                                   /\ Precedes(w.cur, w.tmp)'
    BY <2>2, <2>5, <2>6, <2>7, <2>8, <2>9, <2>11 DEF Ranked
  <2> QED  BY <2>10, <2>11 DEF Ranked
<1> QED  BY <1>4, <1>5 DEF WalkInv

LEMMA WalkNext == WalkInv /\ [ManagerNext]_vars => WalkInv'
<1> SUFFICES ASSUME WalkInv, [ManagerNext]_vars PROVE WalkInv'
  OBVIOUS
<1>0. LockInv /\ LockInv' /\ WorkerShape
  BY LockNext DEF WalkInv, LockInv
<1>1. ASSUME UNCHANGED <<registry, w>> PROVE WalkInv'
  BY <1>0, <1>1, WalkSame DEF registry, RegistryButMutex
<1>2. CASE Middle
  <2>1. UNCHANGED RegistryButMutex
    BY <1>0, <1>2, MiddleSteps DEF MiddleEffect
  <2>2. WalkStays => WalkInv'
    BY <1>0, <2>1, WalkSame DEF WalkStays
  <2> QED  BY <1>0, <1>2, <2>1, <2>2, WalkSteps, WalkRunsKeeps,
              WalkAdvancesKeeps, WalkStartsKeeps
<1>3. CASE TakeWork
  <2>1. /\ w.pc = "idle" /\ w'.pc = "lock" /\ UNCHANGED registry
        /\ w'.cur = w.cur /\ w'.tmp = w.tmp /\ w'.ran = w.ran
        /\ w'.epoch = w.epoch
    BY <1>0, <1>3 DEF TakeWork, WorkerShape, Shaped, Fields
  <2> QED  BY <1>0, <2>1, WalkSame DEF registry, RegistryButMutex
<1>4. CASE Finish
  <2>1. w' = Idle /\ UNCHANGED <<handle_counter, nodes, slist, epoch>>
    BY <1>4 DEF Finish
  <2>2. /\ w'.pc = "idle" /\ w'.cur = NONE /\ w'.tmp = NONE
        /\ w'.epoch = 0 /\ w'.ran = <<>>
    BY <2>1 DEF Idle
  <2>3. epoch \in Nat
    BY DEF WalkInv, LockInv, IInv, TypeOK
  <2>4. WalkTyped'
    BY <2>1, <2>2, <2>3 DEF WalkTyped, Visiting
  <2>5. Ranked'
    BY <2>2 DEF Ranked, Visiting
  <2> QED  BY <1>0, <2>4, <2>5 DEF WalkInv
<1>5. CASE ClearAll \/ RegistryCall
  BY <1>0, <1>5, RegistryCallIsStep, WalkUnderCalls
<1>6. ASSUME NEW t \in Threads, NEW b \in Bits, NEW p \in Payloads, Alloc(t, b, p)
      PROVE  WalkInv'
  BY <1>1, <1>6 DEF Alloc
<1>7. ASSUME NEW t \in Threads, AllocFails(t) \/ Put(t)
      PROVE  WalkInv'
  BY <1>1, <1>7 DEF AllocFails, Put
<1>8. CASE UNCHANGED vars
  BY <1>1, <1>8 DEF vars
<1> QED  BY <1>2, <1>3, <1>4, <1>5, <1>6, <1>7, <1>8
         DEF ManagerNext, ProcessStep, Middle

\* For any number of records, priorities and threads: whatever is registered,
\* enabled, disabled or subscribed while a measurement is processed, also by
\* the handlers themselves, nodes run in the order of the registry and none runs
\* twice, until a clear intervenes (proc_mgr.c: step_pm_process).
THEOREM ManagerRunsInOrder == ManagerSpec => []RunOrder
<1>1. WalkInv => RunOrder
  BY DEF WalkInv, Ranked, RunOrder
<1> QED  BY <1>1, WalkInit, WalkNext, PTL DEF ManagerSpec

-----------------------------------------------------------------------------
(* No call through a null pointer.                                         *)

\* Every chain has an error handler, and no store has enabled a record that was
\* not registered.
Cautious == ErrorHandlers = Nodes /\ ~stray

\* An enabled record is a registered one, also after a clear, and a chain that
\* runs is there.
Calm ==
    /\ \A h \in Handles : nodes[h].enabled => h < handle_counter
    /\ reg # NULL => ~reg.fault
    /\ w.pc = "chain" => w.node \in Nodes
    /\ w.pc # "fault"

CalmInv == WalkInv /\ (Cautious => Calm)

\* A record that is enabled has a node.
LEMMA EnabledHasNode ==
    ASSUME IInv, NEW h \in Handles, h < handle_counter
    PROVE  nodes[h].node \in Nodes /\ nodes[h].node # NULL
<1>1. nodes[h] \in NodeRecord
  BY HandlesAreSlots DEF IInv, TypeOK
<1>2. h \in 0 .. handle_counter - 1
  BY RegistryAssumption DEF IInv, TypeOK, Handles
<1> QED  BY <1>1, <1>2 DEF IInv, ListSound, NodeRecord

LEMMA CalmInit == ManagerInit => CalmInv
<1> SUFFICES ASSUME ManagerInit PROVE CalmInv
  OBVIOUS
<1>1. w.pc = "idle" /\ reg = NULL
  BY DEF ManagerInit, Init, Idle
<1>2. \A h \in Handles : nodes[h].enabled = FALSE
  BY HandlesAreSlots DEF ManagerInit, Init, Zeroed
<1>3. Calm
  BY <1>1, <1>2 DEF Calm
<1> QED  BY <1>3, WalkInit DEF CalmInv

\* A call leaves its traces.
LEMMA StrayStays == Next \/ UNCHANGED toggling => (stray => stray')
BY DEF Next, Register, RegisterStep, CallInitHandler, SkipInitHandler,
       RegisterReturn, Clear, CheckHandle, SetEnabled, Subscribe, toggling

LEMMA CalmUnderCalls ==
    ASSUME CalmInv, Cautious, Cautious', Next, UNCHANGED w
    PROVE  Calm'
<1>0. /\ IInv /\ Calm
      /\ nodes \in [Slots -> NodeRecord] /\ handle_counter \in 0 .. NODE_LIMIT
      /\ NODE_LIMIT \in Nat \ {0} /\ Handles \subseteq Slots
  BY RegistryAssumption DEF CalmInv, WalkInv, LockInv, IInv, TypeOK, Handles, Slots
<1>1. ASSUME handle_counter' = handle_counter,
             \A h \in Handles : nodes'[h].enabled =>
                 nodes[h].enabled \/ h < handle_counter,
             reg' # NULL => ~reg'.fault
      PROVE  Calm'
  BY <1>0, <1>1 DEF Calm
<1>2. ASSUME NEW c \in Clients, NEW n \in Nodes, NEW pri \in Priorities,
             Register(c, n, pri)
      PROVE  Calm'
  <2>1. /\ handle_counter # NODE_LIMIT /\ handle_counter' = handle_counter + 1
        /\ nodes' = [nodes EXCEPT ![handle_counter] =
                                      NewRecord(handle_counter, n, pri)]
        /\ reg' = [client |-> c, handle |-> handle_counter, inst |-> 0,
                   rc |-> OK, fault |-> FALSE]
    BY <1>2 DEF Register
  <2>2. reg'.fault = FALSE
    BY <2>1
  <2>3. \A h \in Handles : h # handle_counter => nodes'[h] = nodes[h]
    BY <1>0, <2>1
  <2>4. \A h \in Handles : nodes'[h].enabled => h < handle_counter'
    BY <1>0, <2>1, <2>3 DEF Calm, Handles
  <2> QED  BY <1>0, <2>2, <2>4 DEF Calm
<1>3. ASSUME NEW r \in {OK, EFAIL}, CallInitHandler(r)
      PROVE  Calm'
  <2>1. reg # NULL /\ ~reg.fault /\ UNCHANGED <<handle_counter, nodes>>
    BY <1>3 DEF CallInitHandler, Initializing
  <2>2. reg \in Registration /\ reg.handle < handle_counter
    BY <1>0, <2>1 DEF IInv, TypeOK, MutexSound
  <2>3. nodes[reg.handle].node \in Nodes
    BY <1>0, <2>2, EnabledHasNode DEF Registration
  <2>4. reg' = [reg EXCEPT !.inst = @ + 1, !.rc = r]
    BY <1>3, <2>3 DEF CallInitHandler, Cautious
  <2>5. reg'.fault = reg.fault
    BY <2>2, <2>4 DEF Registration
  <2> QED  BY <1>1, <2>1, <2>5
<1>4. CASE SkipInitHandler
  <2>1. /\ reg # NULL /\ ~reg.fault /\ UNCHANGED <<handle_counter, nodes>>
        /\ reg' = [reg EXCEPT !.inst = @ + 1]
    BY <1>4 DEF SkipInitHandler, Initializing
  <2>2. reg \in Registration
    BY <1>0, <2>1 DEF IInv, TypeOK
  <2>3. reg'.fault = reg.fault
    BY <2>1, <2>2 DEF Registration
  <2> QED  BY <1>1, <2>1, <2>3
<1>5. CASE RegisterReturn
  BY <1>1, <1>5 DEF RegisterReturn
<1>6. CASE Clear
  <2>1. \A h \in Handles : nodes'[h].enabled = FALSE
    BY <1>0, <1>6 DEF Clear, ZeroedTable, Zeroed
  <2> QED  BY <1>0, <1>6, <2>1 DEF Clear, Calm
<1>7. ASSUME NEW t \in Togglers, SetEnabled(t)
      PROVE  Calm'
  <2> DEFINE h == toggle[t].handle
             on == toggle[t].on
  <2>1. /\ nodes' = [nodes EXCEPT ![h].enabled = on]
        /\ UNCHANGED <<handle_counter, reg>>
        /\ ~(on /\ h \in Handles /\ h >= handle_counter)
    BY <1>7 DEF SetEnabled, Cautious
  <2> HIDE DEF h, on
  <2>2. \A g \in Handles : g # h => nodes'[g] = nodes[g]
    BY <1>0, <2>1
  <2>3. h \in Handles => nodes'[h].enabled = on /\ h \in Int
    BY <1>0, <2>1 DEF NodeRecord, Handles
  <2>4. \A g \in Handles : nodes'[g].enabled =>
            nodes[g].enabled \/ g < handle_counter
    BY <1>0, <2>1, <2>2, <2>3
  <2> QED  BY <1>0, <1>1, <2>1, <2>4 DEF Calm
<1>8. ASSUME NEW h \in Slots, NEW cb \in Callbacks, Subscribe(h, cb)
      PROVE  Calm'
  <2>1. /\ nodes' = [nodes EXCEPT ![h].subs = Append(@, Len(cb_pool) + 1)]
        /\ UNCHANGED <<handle_counter, reg>>
    BY <1>8 DEF Subscribe
  <2>2. \A g \in Handles : nodes'[g].enabled = nodes[g].enabled
    BY <1>0, <2>1 DEF NodeRecord
  <2> QED  BY <1>0, <1>1, <2>1, <2>2 DEF Calm
<1>9. ASSUME NEW t \in Togglers, NEW h \in Slots, NEW on \in BOOLEAN,
             CheckHandle(t, h, on)
      PROVE  Calm'
  BY <1>0, <1>1, <1>9 DEF CheckHandle, Calm
<1> QED  BY <1>2, <1>3, <1>4, <1>5, <1>6, <1>7, <1>8, <1>9
         DEF Next, RegisterStep

LEMMA CalmWhileProcessing ==
    ASSUME CalmInv, Cautious, Middle
    PROVE  Calm'
<1>0. /\ IInv /\ Calm /\ WorkerShape /\ WalkTyped
      /\ UNCHANGED RegistryButMutex
  BY MiddleSteps DEF CalmInv, WalkInv, LockInv, MiddleEffect
<1>1. UNCHANGED <<handle_counter, nodes, reg>>
  BY <1>0 DEF RegistryButMutex
<1>2. ASSUME w'.pc # "fault", w'.pc = "chain" => w'.node \in Nodes
      PROVE  Calm'
  BY <1>0, <1>1, <1>2 DEF Calm
<1>3. ASSUME w.pc = "visit", nodes[w.cur].enabled
      PROVE  nodes[w.cur].node \in Nodes /\ nodes[w.cur].node # NULL
  <2>1. w.cur \in Handles /\ w.cur < handle_counter
    BY <1>0, <1>3 DEF WalkTyped, Visiting, Calm
  <2> QED  BY <1>0, <2>1, EnabledHasNode
<1>4. ASSUME w.pc = "chain" PROVE w.node \in Nodes
  BY <1>0, <1>4 DEF Calm
<1>5. ASSUME NEW match, Evaluated(nodes[w.cur].node, match), w.pc = "visit",
             nodes[w.cur].enabled
      PROVE  Calm'
  <2>1. w'.pc \in {"chain", "relock"} /\ w'.node = nodes[w.cur].node
    BY <1>0, <1>5 DEF Evaluated, WorkerShape, Shaped, Fields
  <2> QED  BY <1>2, <1>3, <1>5, <2>1
<1>6. CASE StartList \/ PassOver \/ Relock
  <2>1. w'.pc \in {"visit", "finish"}
    BY <1>0, <1>6 DEF StartList, PassOver, Relock, Advance, WorkerShape, Shaped,
                      Fields
  <2> QED  BY <1>2, <2>1
<1>7. CASE EvaluateCached
  <2> DEFINE key == <<mes[w.m].bits, nodes[w.cur].handle>>
  <2>1. /\ Evaluated(nodes[w.cur].node, cache[key])
        /\ w.pc = "visit" /\ nodes[w.cur].enabled
    BY <1>7 DEF EvaluateCached
  <2> HIDE DEF key
  <2> QED  BY <1>5, <2>1
<1>8. CASE Evaluate
  <2> DEFINE match == Outcome(nodes[w.cur].node, mes[w.m])
  <2>1. /\ Evaluated(nodes[w.cur].node, match)
        /\ w.pc = "visit" /\ nodes[w.cur].enabled
    BY <1>8 DEF Evaluate
  <2> HIDE DEF match
  <2> QED  BY <1>5, <2>1
<1>9. CASE EvaluateNull
  BY <1>3, <1>9 DEF EvaluateNull
<1>10. ASSUME w.pc = "chain", w' = AfterStage(w)
       PROVE  Calm'
  <2>1. w'.node = w.node /\ w'.pc \in {"chain", "chain_end"}
    <3> USE DEF AfterStage, WorkerShape, Shaped, Fields
    <3>1. CASE w.stage = "start"
      BY <1>0, <1>10, <3>1
    <3>2. CASE w.stage = "exec"
      BY <1>0, <1>10, <3>2
    <3>3. CASE w.stage = "stop"
      BY <1>0, <1>10, <3>3
    <3> QED  BY <1>0, <3>1, <3>2, <3>3 DEF Stages
  <2> QED  BY <1>2, <1>4, <1>10, <2>1
<1>11. ASSUME NEW r \in {OK, EFAIL}, CallHandler(r)
       PROVE  Calm'
  BY <1>4, <1>10, <1>11 DEF CallHandler, Cautious
<1>12. CASE SkipHandler
  BY <1>10, <1>12 DEF SkipHandler
<1>13. CASE StartSubscribers
  <2>1. w'.pc \in {"relock", "subs"}
    BY <1>0, <1>13 DEF StartSubscribers, WorkerShape, Shaped, Fields
  <2> QED  BY <1>2, <2>1
<1>14. CASE CallSubscriber
  <2>1. w'.pc \in {"relock", "subs"}
    BY <1>0, <1>14 DEF CallSubscriber, WorkerShape, Shaped, Fields
  <2> QED  BY <1>2, <2>1
<1> QED  BY <1>6, <1>7, <1>8, <1>9, <1>11, <1>12, <1>13, <1>14 DEF Middle

LEMMA CalmNext == CalmInv /\ [ManagerNext]_vars => CalmInv'
<1> SUFFICES ASSUME CalmInv, [ManagerNext]_vars PROVE CalmInv'
  OBVIOUS
<1>1. WalkInv'
  BY WalkNext DEF CalmInv
<1> SUFFICES ASSUME Cautious' PROVE Calm'
  BY <1>1 DEF CalmInv
<1>0. Cautious
  <2>1. Next \/ UNCHANGED toggling
    <3>1. CASE ClearAll \/ RegistryCall
      BY <3>1, RegistryCallIsStep
    <3>2. CASE Middle
      BY <3>2, MiddleSteps DEF CalmInv, WalkInv, LockInv, MiddleEffect,
                               RegistryButMutex
    <3>3. CASE TakeWork \/ Finish \/ UNCHANGED vars
      BY <3>3 DEF TakeWork, Finish, vars, registry
    <3>4. ASSUME NEW t \in Threads, NEW b \in Bits, NEW p \in Payloads,
                 Alloc(t, b, p) \/ AllocFails(t) \/ Put(t)
          PROVE  UNCHANGED toggling
      BY <3>4 DEF Alloc, AllocFails, Put, registry
    <3>5. ASSUME NEW t \in Threads, AllocFails(t) \/ Put(t)
          PROVE  UNCHANGED toggling
      BY <3>5 DEF AllocFails, Put, registry
    <3> QED  BY <3>1, <3>2, <3>3, <3>4, <3>5 DEF ManagerNext, ProcessStep, Middle
  <2> QED  BY <2>1, StrayStays DEF Cautious
<1>2. Calm /\ WorkerShape
  BY <1>0 DEF CalmInv, WalkInv, LockInv
<1>3. ASSUME UNCHANGED <<registry, w>> PROVE Calm'
  BY <1>2, <1>3 DEF Calm, registry
<1>4. CASE TakeWork
  <2>1. w'.pc = "lock" /\ UNCHANGED registry
    BY <1>2, <1>4, FirstAndLastSteps DEF TakeWork
  <2> QED  BY <1>2, <2>1 DEF Calm, registry
<1>5. CASE Finish
  <2>1. w'.pc = "idle" /\ UNCHANGED <<handle_counter, nodes, reg>>
    BY <1>2, <1>5, FirstAndLastSteps DEF Finish
  <2> QED  BY <1>2, <2>1 DEF Calm
<1>6. CASE ClearAll \/ RegistryCall
  BY <1>0, <1>6, RegistryCallIsStep, CalmUnderCalls
<1>7. ASSUME NEW t \in Threads, NEW b \in Bits, NEW p \in Payloads, Alloc(t, b, p)
      PROVE  Calm'
  BY <1>3, <1>7 DEF Alloc
<1>8. ASSUME NEW t \in Threads, AllocFails(t) \/ Put(t)
      PROVE  Calm'
  BY <1>3, <1>8 DEF AllocFails, Put
<1>9. CASE UNCHANGED vars
  BY <1>3, <1>9 DEF vars
<1> QED  BY <1>0, <1>4, <1>5, <1>6, <1>7, <1>8, <1>9, CalmWhileProcessing
         DEF ManagerNext, ProcessStep, Middle

\* For any number of records, threads and clears, and whatever handles are
\* passed: when every chain has an error handler, processing never finds an
\* enabled record without a node, not even when the registry is cleared in the
\* middle of it, and calls nothing through a null pointer, unless a store has
\* enabled a record that was not registered (proc_mgr.c: step_pm_process,
\* step_pm_register, step_pm_enable_node).
THEOREM ManagerNeverFaults ==
    ManagerSpec => [](ErrorHandlers = Nodes => NoFault)
<1>1. CalmInv => (ErrorHandlers = Nodes => NoFault)
  BY DEF CalmInv, Cautious, Calm, NoFault, Faulted
<1> QED  BY <1>1, CalmInit, CalmNext, PTL DEF ManagerSpec

-----------------------------------------------------------------------------
(* What the cache knows.                                                   *)

CacheTyped == cache \in [Keys -> BOOLEAN \cup {NULL}]

\* A record that is not registered has no node.
NodesPlaced == \A h \in Handles : nodes[h].node # NULL => h < handle_counter

CacheInv ==
    /\ WalkInv /\ OwnInv
    /\ CacheTyped /\ NodesPlaced
    /\ Vetoes = {} => CacheSound

\* What is remembered is what was, less what was forgotten, and the result.
LEMMA RememberedIs ==
    ASSUME CacheTyped, NEW key \in Keys, NEW r \in BOOLEAN,
           NEW c \in Remembered(cache, key, r)
    PROVE  /\ c \in [Keys -> BOOLEAN \cup {NULL}]
           /\ c[key] = r
           /\ \A k \in Keys : k # key => c[k] \in {cache[k], NULL}
<1> DEFINE used == {k \in Keys : cache[k] # NULL}
<1>1. \/ c = [cache EXCEPT ![key] = r]
      \/ \E k \in used \ {key} : c = [cache EXCEPT ![key] = r, ![k] = NULL]
  BY Zenon DEF Remembered
<1>2. CASE c = [cache EXCEPT ![key] = r]
  BY <1>2 DEF CacheTyped
<1>3. ASSUME NEW j \in used \ {key}, c = [cache EXCEPT ![key] = r, ![j] = NULL]
      PROVE  /\ c \in [Keys -> BOOLEAN \cup {NULL}]
             /\ c[key] = r
             /\ \A k \in Keys : k # key => c[k] \in {cache[k], NULL}
  BY <1>3 DEF CacheTyped
<1> QED  BY <1>1, <1>2, <1>3

LEMMA CacheInit == ManagerInit => CacheInv
<1> SUFFICES ASSUME ManagerInit PROVE CacheInv
  OBVIOUS
<1>1. cache = [k \in Keys |-> NULL] /\ nodes = [h \in Slots |-> Zeroed]
  BY DEF ManagerInit, Init
<1>2. CacheTyped
  BY <1>1 DEF CacheTyped
<1>3. NodesPlaced
  BY <1>1, HandlesAreSlots DEF NodesPlaced, Zeroed
<1>4. CacheSound
  BY <1>1 DEF CacheSound, Keys
<1> QED  BY <1>2, <1>3, <1>4, WalkInit, OwnInit DEF CacheInv

\* Neither the cache nor a registered node changes.
LEMMA CacheSame ==
    ASSUME CacheInv, UNCHANGED <<cache, handle_counter, nodes>>
    PROVE  CacheTyped' /\ NodesPlaced' /\ (Vetoes = {} => CacheSound')
BY DEF CacheInv, CacheTyped, NodesPlaced, CacheSound

LEMMA CacheUnderCalls ==
    ASSUME CacheInv, RegistryCall
    PROVE  CacheTyped' /\ NodesPlaced' /\ (Vetoes = {} => CacheSound')
<1>1. Next /\ cache' = cache
  BY RegistryCallIsStep DEF RegistryCall
<1>2. IInv /\ IInv'
  BY <1>1, NextKeeps DEF CacheInv, WalkInv, LockInv
<1>3. RegistrationKept
  BY <1>1, <1>2, NextStable
<1>4. epoch' = epoch
  BY DEF RegistryCall, Register, RegisterStep, CallInitHandler, SkipInitHandler,
         RegisterReturn, CheckHandle, SetEnabled,
         Subscribe
<1>5. /\ handle_counter <= handle_counter'
      /\ handle_counter \in Nat /\ handle_counter' \in Nat
  BY <1>1, <1>2, <1>4, RegistryGrows, RegistryAssumption DEF IInv, TypeOK
<1>6. \A h \in Handles : h < handle_counter =>
          h < handle_counter' /\ nodes'[h].node = nodes[h].node
  BY <1>3, <1>4, <1>5 DEF RegistrationKept, Handles
<1>7. CacheTyped'
  BY <1>1 DEF CacheInv, CacheTyped
<1>8. Vetoes = {} => CacheSound'
  BY <1>1, <1>6 DEF CacheInv, CacheSound
<1>9. NodesPlaced'
  <2>0. /\ nodes \in [Slots -> NodeRecord]
        /\ \A h \in Handles : h \in Nat /\ h \in Slots
    BY <1>2, RegistryAssumption DEF IInv, TypeOK, Handles, Slots
  <2>1. ASSUME \A h \in Handles : nodes'[h].node = nodes[h].node
        PROVE  NodesPlaced'
    BY <1>6, <2>1 DEF CacheInv, NodesPlaced
  <2>2. ASSUME NEW c \in Clients, NEW n \in Nodes, NEW pri \in Priorities,
               Register(c, n, pri)
        PROVE  NodesPlaced'
    <3>1. /\ handle_counter' = handle_counter + 1
          /\ nodes' = [nodes EXCEPT ![handle_counter] =
                                        NewRecord(handle_counter, n, pri)]
      BY <2>2 DEF Register
    <3>2. \A h \in Handles : h # handle_counter => nodes'[h] = nodes[h]
      BY <2>0, <3>1
    <3> QED  BY <1>5, <1>6, <2>0, <3>1, <3>2 DEF CacheInv, NodesPlaced
  <2>3. ASSUME NEW t \in Togglers, SetEnabled(t)
        PROVE  NodesPlaced'
    BY <1>2, <2>0, <2>1, <2>3, SetEnabledStores
  <2>4. ASSUME NEW h \in Slots, NEW cb \in Callbacks, Subscribe(h, cb)
        PROVE  NodesPlaced'
    <3>1. nodes' = [nodes EXCEPT ![h].subs = Append(@, Len(cb_pool) + 1)]
      BY <2>4 DEF Subscribe
    <3>2. \A g \in Handles : nodes'[g].node = nodes[g].node
      BY <2>0, <3>1 DEF NodeRecord
    <3> QED  BY <2>1, <3>2
  <2>5. CASE RegisterStep \/ UNCHANGED nodes
    BY <2>1, <2>5 DEF RegisterStep, CallInitHandler, SkipInitHandler,
                      RegisterReturn
  <2> QED  BY <2>2, <2>3, <2>4, <2>5 DEF RegistryCall, CheckHandle
<1> QED  BY <1>7, <1>8, <1>9

\* The result of an evaluation is noted under the handle of the record.
LEMMA EvaluateNotes ==
    ASSUME CacheInv, Evaluate
    PROVE  CacheTyped' /\ NodesPlaced' /\ (Vetoes = {} => CacheSound')
<1> DEFINE n == nodes[w.cur].node
           x == mes[w.m]
           key == <<x.bits, nodes[w.cur].handle>>
           match == Outcome(n, x)
<1>1. /\ w.pc = "visit" /\ n # NULL
      /\ cache' \in Remembered(cache, key, match)
  BY DEF Evaluate
<1>2. UNCHANGED <<handle_counter, nodes>>
  BY DEF Evaluate, Evaluated
<1>3. w.cur \in Handles /\ w.cur < handle_counter
  BY <1>1 DEF CacheInv, WalkInv, WalkTyped, Visiting, NodesPlaced
<1>4. nodes[w.cur].handle = w.cur
  <2>1. w.cur \in 0 .. handle_counter - 1
    BY <1>3, RegistryAssumption
       DEF CacheInv, WalkInv, LockInv, IInv, TypeOK, Handles
  <2> QED  BY <2>1 DEF CacheInv, WalkInv, LockInv, IInv, ListSound
<1>5. x \in Header /\ x.bits \in Bits
  <2>1. w.m \in Meas
    BY <1>1 DEF CacheInv, OwnInv, OwnTypes
  <2>2. x # NULL /\ x \in Header \cup {NULL}
    BY <2>1 DEF CacheInv, OwnInv, OwnTypes, InUse
  <2> QED  BY <2>2 DEF Header
<1>6. key = <<x.bits, w.cur>> /\ key \in Keys
  BY <1>3, <1>4, <1>5 DEF Keys
<1>7. match \in BOOLEAN
  BY DEF Outcome
<1>8. ASSUME Vetoes = {} PROVE match = (<<n, x.bits>> \in Accepts)
  <2>1. <<n, x.payload>> \notin Vetoes
    BY <1>8
  <2>2. CASE <<n, x.bits>> \in Accepts
    <3>1. match = TRUE /\ (<<n, x.bits>> \in Accepts) = TRUE
      BY <2>1, <2>2 DEF Outcome
    <3> QED  BY <3>1
  <2>3. CASE <<n, x.bits>> \notin Accepts
    <3>1. match = FALSE /\ (<<n, x.bits>> \in Accepts) = FALSE
      BY <2>3 DEF Outcome
    <3> QED  BY <3>1
  <2> QED  BY <2>2, <2>3
<1>9. PICK r \in BOOLEAN : r = match
  BY <1>7, Zenon
<1>10. /\ cache' \in [Keys -> BOOLEAN \cup {NULL}] /\ cache'[key] = r
       /\ \A k \in Keys : k # key => cache'[k] \in {cache[k], NULL}
  <2>1. cache' \in Remembered(cache, key, r)
    BY <1>1, <1>9, Zenon
  <2> HIDE DEF key, match
  <2> QED  BY <1>6, <2>1, RememberedIs DEF CacheInv
<1>11. cache'[key] = match
  BY <1>9, <1>10, Zenon
<1>12. CacheTyped' /\ NodesPlaced'
  BY <1>2, <1>10 DEF CacheInv, CacheTyped, NodesPlaced
<1>13. ASSUME Vetoes = {} PROVE CacheSound'
  <2> SUFFICES ASSUME NEW b \in Bits, NEW h \in Handles, cache'[<<b, h>>] # NULL
               PROVE  /\ h < handle_counter
                      /\ cache'[<<b, h>>] = (<<nodes[h].node, b>> \in Accepts)
    BY <1>2, Zenon DEF CacheSound
  <2>1. CASE <<b, h>> = key
    <3>1. b = x.bits /\ h = w.cur
      BY <1>6, <2>1
    <3>2. cache'[<<b, h>>] = (<<nodes[h].node, b>> \in Accepts)
      BY <1>8, <1>11, <1>13, <2>1, <3>1, Zenon
    <3> QED  BY <1>3, <3>1, <3>2
  <2>2. CASE <<b, h>> # key
    <3>1. <<b, h>> \in Keys
      BY DEF Keys
    <3>2. cache'[<<b, h>>] = cache[<<b, h>>]
      BY <1>10, <2>2, <3>1
    <3> QED  BY <1>13, <3>2, Zenon DEF CacheInv, CacheSound
  <2> QED  BY <2>1, <2>2
<1> QED  BY <1>12, <1>13

LEMMA CacheNext == CacheInv /\ [ManagerNext]_vars => CacheInv'
<1> SUFFICES ASSUME CacheInv, [ManagerNext]_vars PROVE CacheInv'
  OBVIOUS
<1>1. WalkInv' /\ OwnInv'
  BY WalkNext, OwnNext DEF CacheInv
<1> SUFFICES CacheTyped' /\ NodesPlaced' /\ (Vetoes = {} => CacheSound')
  BY <1>1 DEF CacheInv
<1>2. CASE Middle /\ ~Evaluate
  <2>1. UNCHANGED <<handle_counter, nodes>>
    BY <1>2, MiddleSteps DEF CacheInv, OwnInv, MiddleEffect, RegistryButMutex
  <2>2. cache' = cache
    BY <1>2 DEF Middle, StartList, PassOver, EvaluateCached, EvaluateNull,
                CallHandler, SkipHandler, StartSubscribers, CallSubscriber,
                Relock
  <2> QED  BY <2>1, <2>2, CacheSame
<1>3. CASE TakeWork \/ Finish
  BY <1>3, CacheSame DEF TakeWork, Finish, registry
<1>4. CASE ClearAll
  <2>1. cache' = [k \in Keys |-> NULL] /\ nodes' = ZeroedTable
    BY <1>4 DEF ClearAll, Clear
  <2>2. \A h \in Handles : nodes'[h] = Zeroed
    BY <2>1, HandlesAreSlots DEF ZeroedTable
  <2> QED  BY <2>1, <2>2 DEF CacheTyped, NodesPlaced, CacheSound, Zeroed, Keys
<1>5. ASSUME NEW t \in Threads, NEW b \in Bits, NEW p \in Payloads, Alloc(t, b, p)
      PROVE  CacheTyped' /\ NodesPlaced' /\ (Vetoes = {} => CacheSound')
  BY <1>5, CacheSame DEF Alloc, registry
<1>6. ASSUME NEW t \in Threads, AllocFails(t) \/ Put(t)
      PROVE  CacheTyped' /\ NodesPlaced' /\ (Vetoes = {} => CacheSound')
  BY <1>6, CacheSame DEF AllocFails, Put, registry
<1>7. CASE UNCHANGED vars
  BY <1>7, CacheSame DEF vars, registry
<1> QED  BY <1>2, <1>3, <1>4, <1>5, <1>6, <1>7, EvaluateNotes, CacheUnderCalls
         DEF ManagerNext, ProcessStep, Middle

\* For any number of records, threads and clears and every size of the cache: as
\* long as no matched handler turns a measurement down, what the cache knows of a
\* handle is what the filters of the node now registered under it decide, and
\* nothing is known of handles that are not registered (proc_mgr.c:
\* step_pm_evaluate, step_pm_clear; cache.c).
THEOREM ManagerCacheSound == ManagerSpec => [](Vetoes = {} => CacheSound)
<1>1. CacheInv => (Vetoes = {} => CacheSound)
  BY DEF CacheInv
<1> QED  BY <1>1, CacheInit, CacheNext, PTL DEF ManagerSpec

-----------------------------------------------------------------------------
(* The subscribers of a node that has run.                                 *)

\* s begins t.
Begins(s, t) ==
    /\ s \in Seq(Chunks) /\ t \in Seq(Chunks)
    /\ Len(s) <= Len(t)
    /\ \A i \in 1 .. Len(s) : s[i] = t[i]

LEMMA BeginsIsPrefix ==
    ASSUME NEW s, NEW t, Begins(s, t)
    PROVE  IsPrefix(s, t)
<1>1. /\ s \in Seq(Chunks) /\ t \in Seq(Chunks)
      /\ Len(s) \in Nat /\ Len(t) \in Nat /\ Len(s) <= Len(t)
      /\ \A i \in 1 .. Len(s) : s[i] = t[i] /\ s[i] \in Chunks
  BY DEF Begins
<1> DEFINE front == SubSeq(s, 1, Len(s))
           begin == SubSeq(t, 1, Len(s))
<1>2. /\ front \in Seq(Chunks) /\ Len(front) = Len(s)
      /\ \A i \in 1 .. Len(s) : front[i] = s[i]
  <2>1. \A i \in 1 .. Len(s) : s[i] \in Chunks
    BY <1>1
  <2> QED  BY <1>1, <2>1, SubSeqProperties
<1>3. /\ begin \in Seq(Chunks) /\ Len(begin) = Len(s)
      /\ \A i \in 1 .. Len(s) : begin[i] = t[i]
  <2>1. \A i \in 1 .. Len(s) : t[i] \in Chunks
    BY <1>1
  <2> QED  BY <1>1, <2>1, SubSeqProperties
<1> HIDE DEF front, begin
<1>4. front = begin
  BY <1>1, <1>2, <1>3, SeqEqual
<1> QED  BY <1>1, <1>4 DEF IsPrefix, front, begin

\* Subscribers are called in their order, each once; the one to be called and
\* the one after it, if it was there, are where the list has them; and the end is
\* not reached before those that were there at the start have been called.
Calling ==
    LET subs == nodes[w.cur].subs
        n == Len(w.called)
    IN  /\ Begins(w.called, subs) /\ Begins(w.subs, subs)
        /\ w.pc = "relock" => Len(w.subs) <= n
        /\ w.pc = "subs" =>
              /\ n + 1 <= Len(subs) /\ w.sub = subs[n + 1]
              /\ w.subtmp = 0 => Len(w.subs) <= n + 1
              /\ w.subtmp # 0 => n + 2 <= Len(subs) /\ w.subtmp = subs[n + 2]

CalledInv ==
    /\ CacheInv
    /\ w.match \in BOOLEAN
    /\ w.epoch = epoch /\ w.pc \in {"subs", "relock"} /\ w.match => Calling

LEMMA SubsAre ==
    ASSUME IInv, NEW h \in Handles
    PROVE  /\ nodes[h].subs \in Seq(Chunks) /\ Len(nodes[h].subs) \in Nat
           /\ \A i \in 1 .. Len(nodes[h].subs) :
                 nodes[h].subs[i] \in Chunks /\ nodes[h].subs[i] # 0
<1>1. nodes[h].subs \in Seq(Chunks)
  BY HandlesAreSlots DEF IInv, TypeOK, NodeRecord
<1> QED  BY <1>1, RegistryAssumption DEF Chunks

\* Following the next links leads through the list.
LEMMA NextSubIs ==
    ASSUME IInv, NEW h \in Handles, NEW i \in 1 .. Len(nodes[h].subs)
    PROVE  NextSub(nodes[h].subs[i]) =
               IF i = Len(nodes[h].subs) THEN 0 ELSE nodes[h].subs[i + 1]
<1>1. /\ Len(nodes[h].subs) \in Nat
      /\ nodes[h].subs[i] # 0
  BY SubsAre
<1>2. NextSub(nodes[h].subs[i]) = cb_pool[nodes[h].subs[i]].next
  BY <1>1 DEF NextSub
<1>3. SubsLinked(h)
  BY HandlesAreSlots DEF IInv, SubsSound
<1> QED  BY <1>1, <1>2, <1>3 DEF SubsLinked

LEMMA CalledInit == ManagerInit => CalledInv
<1> SUFFICES ASSUME ManagerInit PROVE CalledInv
  OBVIOUS
<1>1. w.match = FALSE
  BY DEF ManagerInit, Idle
<1> QED  BY <1>1, CacheInit DEF CalledInv

\* Until a clear a list of subscribers only grows at its end.
LEMMA SubsGrow ==
    ASSUME IInv, Next, epoch' = epoch, NEW h \in Handles, h < handle_counter
    PROVE  Begins(nodes[h].subs, nodes'[h].subs)
<1>1. IInv'
  BY NextKeeps
<1>2. /\ nodes[h].subs \in Seq(Chunks) /\ nodes'[h].subs \in Seq(Chunks)
      /\ nodes \in [Slots -> NodeRecord] /\ epoch \in Nat
      /\ handle_counter \in Nat /\ h \in Slots
  <2>1. h \in Slots /\ nodes[h] \in NodeRecord /\ nodes'[h] \in NodeRecord
    BY <1>1, HandlesAreSlots DEF IInv, TypeOK
  <2> QED  BY <2>1, RegistryAssumption DEF IInv, TypeOK, NodeRecord
<1>3. \A i \in 1 .. Len(nodes[h].subs) : nodes'[h].subs[i] = nodes[h].subs[i]
  <2>1. h \in 0 .. handle_counter - 1
    BY <1>2 DEF Handles
  <2> QED  BY <2>1, NextStable DEF RegistrationKept
<1>4. ASSUME nodes'[h].subs = nodes[h].subs
      PROVE  Len(nodes[h].subs) <= Len(nodes'[h].subs)
  BY <1>2, <1>4
<1>5. ASSUME NEW c \in Clients, NEW n \in Nodes, NEW pri \in Priorities,
             Register(c, n, pri)
      PROVE  nodes'[h].subs = nodes[h].subs
  BY <1>2, <1>5 DEF Register
<1>6. ASSUME NEW t \in Togglers, SetEnabled(t)
      PROVE  nodes'[h].subs = nodes[h].subs
  BY <1>2, <1>6, SetEnabledStores
<1>7. ASSUME NEW g \in Slots, NEW cb \in Callbacks, Subscribe(g, cb)
      PROVE  Len(nodes[h].subs) <= Len(nodes'[h].subs)
  <2>1. nodes' = [nodes EXCEPT ![g].subs = Append(@, Len(cb_pool) + 1)]
    BY <1>7 DEF Subscribe
  <2>2. CASE g = h
    <3>1. nodes'[h].subs = Append(nodes[h].subs, Len(cb_pool) + 1)
      BY <1>2, <2>1, <2>2 DEF NodeRecord
    <3> QED  BY <1>2, <3>1
  <2>3. CASE g # h
    BY <1>2, <1>4, <2>1, <2>3
  <2> QED  BY <2>2, <2>3
<1>8. ASSUME Clear PROVE FALSE
  BY <1>2, <1>8 DEF Clear
<1>9. ASSUME RegisterStep \/ (\E t \in Togglers, g \in Slots, on \in BOOLEAN :
                                  CheckHandle(t, g, on))
      PROVE  Len(nodes[h].subs) <= Len(nodes'[h].subs)
  <2>1. nodes' = nodes
    BY <1>9 DEF RegisterStep, CallInitHandler, SkipInitHandler,
                RegisterReturn, CheckHandle
  <2> QED  BY <1>4, <2>1
<1>10. Len(nodes[h].subs) <= Len(nodes'[h].subs)
  BY <1>4, <1>5, <1>6, <1>7, <1>8, <1>9 DEF Next
<1> QED  BY <1>2, <1>3, <1>10 DEF Begins

LEMMA CalledUnderCalls ==
    ASSUME CalledInv, CacheInv', Next, UNCHANGED w
    PROVE  CalledInv'
<1>1. IInv /\ WalkInv
  BY DEF CalledInv, CacheInv, WalkInv, LockInv
<1>2. epoch \in Nat /\ w.epoch \in Nat /\ w.epoch <= epoch
  BY <1>1 DEF IInv, TypeOK, WalkInv, WalkTyped
<1>3. ASSUME w.epoch = epoch', w.pc \in {"subs", "relock"}, w.match
      PROVE  Calling'
  <2>1. epoch' = epoch /\ w.epoch = epoch
    BY <1>1, <1>2, <1>3, RegistryGrows
  <2>2. Calling
    BY <1>3, <2>1 DEF CalledInv
  <2>3. w.cur \in Handles /\ w.cur < handle_counter
    BY <1>1, <1>3, <2>1 DEF WalkInv, WalkTyped, Ranked, Visiting
  <2> DEFINE s == nodes[w.cur].subs
             t == nodes'[w.cur].subs
  <2>4. Begins(s, t)
    BY <1>1, <2>1, <2>3, SubsGrow
  <2>5. w' = w
    OBVIOUS
  <2> HIDE DEF s, t
  <2>6. /\ Begins(w.called, s) /\ Begins(w.subs, s)
        /\ w.pc = "relock" => Len(w.subs) <= Len(w.called)
        /\ w.pc = "subs" =>
              /\ Len(w.called) + 1 <= Len(s) /\ w.sub = s[Len(w.called) + 1]
              /\ w.subtmp = 0 => Len(w.subs) <= Len(w.called) + 1
              /\ w.subtmp # 0 => /\ Len(w.called) + 2 <= Len(s)
                                 /\ w.subtmp = s[Len(w.called) + 2]
    BY <2>2 DEF Calling, s
  <2>7. Begins(w.called, t) /\ Begins(w.subs, t)
    BY <2>4, <2>6 DEF Begins
  <2>8. Len(w.called) \in Nat /\ Len(s) \in Nat /\ Len(t) \in Nat
    BY <2>4, <2>6 DEF Begins
  <2>9. w.pc = "subs" =>
              /\ Len(w.called) + 1 <= Len(t) /\ w.sub = t[Len(w.called) + 1]
              /\ w.subtmp = 0 => Len(w.subs) <= Len(w.called) + 1
              /\ w.subtmp # 0 => /\ Len(w.called) + 2 <= Len(t)
                                 /\ w.subtmp = t[Len(w.called) + 2]
    BY <2>4, <2>6, <2>8 DEF Begins
  <2> QED  BY <2>5, <2>6, <2>7, <2>9 DEF Calling, t
<1> QED  BY <1>3 DEF CalledInv

\* The first subscriber, or none.
LEMMA StartSubscribersKeeps ==
    ASSUME CalledInv, CacheInv', StartSubscribers
    PROVE  CalledInv'
<1> DEFINE subs == nodes[w.cur].subs
           first == IF subs = <<>> THEN 0 ELSE Head(subs)
<1>0. IInv /\ WalkTyped /\ WorkerShape
  BY DEF CalledInv, CacheInv, WalkInv, LockInv
<1>1. /\ w.pc = "chain_end" /\ UNCHANGED registry
      /\ w' = [w EXCEPT !.pc = IF first = 0 THEN "relock" ELSE "subs",
                        !.sub = first, !.subtmp = NextSub(first),
                        !.subs = subs, !.called = <<>>]
  BY DEF StartSubscribers
<1>2. w.cur \in Handles
  BY <1>0, <1>1 DEF WalkTyped, Visiting
<1>3. /\ subs \in Seq(Chunks) /\ Len(subs) \in Nat
      /\ \A i \in 1 .. Len(subs) : subs[i] \in Chunks /\ subs[i] # 0
  BY <1>0, <1>2, SubsAre
<1>4. UNCHANGED <<nodes, epoch, cb_pool>>
  BY <1>1 DEF registry
<1>5. \A i \in 1 .. Len(subs) :
          NextSub(subs[i]) = IF i = Len(subs) THEN 0 ELSE subs[i + 1]
  BY <1>0, <1>2, NextSubIs
<1> HIDE DEF subs
<1>6. /\ w'.cur = w.cur /\ w'.match = w.match
      /\ w'.pc = IF first = 0 THEN "relock" ELSE "subs"
      /\ w'.sub = first /\ w'.subtmp = NextSub(first)
      /\ w'.subs = subs /\ w'.called = <<>>
  BY <1>0, <1>1 DEF WorkerShape, Shaped, Fields
<1>7. Begins(<<>>, subs) /\ Begins(subs, subs)
  BY <1>3 DEF Begins
<1>8. Calling'
  <2>1. nodes'[w'.cur].subs = subs
    BY <1>4, <1>6 DEF subs
  <2>2. CASE subs = <<>>
    <3>1. first = 0 /\ w'.pc = "relock" /\ Len(w'.subs) <= Len(w'.called)
      BY <1>6, <2>2
    <3> QED  BY <1>6, <1>7, <2>1, <3>1 DEF Calling
  <2>3. CASE subs # <<>>
    <3>1. 1 \in 1 .. Len(subs) /\ first = subs[1] /\ first # 0
      BY <1>3, <2>3
    <3> HIDE DEF first
    <3>2. NextSub(first) = IF 1 = Len(subs) THEN 0 ELSE subs[2]
      <4>1. NextSub(subs[1]) = IF 1 = Len(subs) THEN 0 ELSE subs[1 + 1]
        BY <1>5, <3>1
      <4>2. NextSub(first) = NextSub(subs[1])
        BY <3>1
      <4>3. 1 + 1 = 2
        OBVIOUS
      <4> QED  BY <4>1, <4>2, <4>3
    <3>3. 1 # Len(subs) => 2 \in 1 .. Len(subs) /\ subs[2] # 0
      <4> DEFINE len == Len(subs)
      <4>0. len \in Nat /\ 1 \in 1 .. len
        BY <1>3, <3>1
      <4> HIDE DEF len
      <4>1. 1 # len => 2 \in 1 .. len
        BY <4>0
      <4> QED  BY <1>3, <4>1 DEF len
    <3>4. /\ w'.pc = "subs" /\ Len(w'.called) = 0
          /\ w'.sub = subs[1]
          /\ w'.subtmp = 0 => Len(subs) <= 1
          /\ w'.subtmp # 0 => 2 <= Len(subs) /\ w'.subtmp = subs[2]
      BY <1>3, <1>6, <3>1, <3>2, <3>3
    <3> QED  BY <1>3, <1>6, <1>7, <2>1, <3>1, <3>4 DEF Calling
  <2> QED  BY <2>2, <2>3
<1> QED  BY <1>6, <1>8 DEF CalledInv

\* One is called, and the one after it is next, if it was there.
LEMMA CallSubscriberKeeps ==
    ASSUME CalledInv, CacheInv', CallSubscriber
    PROVE  CalledInv'
<1> DEFINE subs == nodes[w.cur].subs
           n == Len(w.called)
<1>0. IInv /\ WalkTyped /\ WorkerShape
  BY DEF CalledInv, CacheInv, WalkInv, LockInv
<1>1. /\ w.pc = "subs" /\ UNCHANGED registry
      /\ w' = [w EXCEPT !.called = Append(@, w.sub),
                        !.sub = w.subtmp, !.subtmp = NextSub(w.subtmp),
                        !.pc = IF w.subtmp = 0 THEN "relock" ELSE "subs"]
  BY DEF CallSubscriber
<1>2. w.cur \in Handles
  BY <1>0, <1>1 DEF WalkTyped, Visiting
<1>3. /\ subs \in Seq(Chunks) /\ Len(subs) \in Nat
      /\ \A i \in 1 .. Len(subs) : subs[i] \in Chunks /\ subs[i] # 0
  BY <1>0, <1>2, SubsAre
<1>4. UNCHANGED <<nodes, epoch, cb_pool>>
  BY <1>1 DEF registry
<1>5. \A i \in 1 .. Len(subs) :
          NextSub(subs[i]) = IF i = Len(subs) THEN 0 ELSE subs[i + 1]
  BY <1>0, <1>2, NextSubIs
<1>6. /\ w'.cur = w.cur /\ w'.match = w.match /\ w'.epoch = w.epoch
      /\ w'.pc = IF w.subtmp = 0 THEN "relock" ELSE "subs"
      /\ w'.sub = w.subtmp /\ w'.subtmp = NextSub(w.subtmp)
      /\ w'.subs = w.subs /\ w'.called = Append(w.called, w.sub)
  BY <1>0, <1>1 DEF WorkerShape, Shaped, Fields
<1>7. ASSUME w.epoch = epoch, w.match PROVE Calling'
  <2>1. /\ Begins(w.called, subs) /\ Begins(w.subs, subs)
        /\ n + 1 <= Len(subs) /\ w.sub = subs[n + 1]
        /\ w.subtmp = 0 => Len(w.subs) <= n + 1
        /\ w.subtmp # 0 => n + 2 <= Len(subs) /\ w.subtmp = subs[n + 2]
    BY <1>1, <1>7 DEF CalledInv, Calling
  <2>2. nodes'[w'.cur].subs = subs
    BY <1>4, <1>6
  <2> HIDE DEF subs
  <2>3. w.called \in Seq(Chunks) /\ n \in Nat
    BY <2>1 DEF Begins
  <2>4. n + 1 \in 1 .. Len(subs) /\ w.sub \in Chunks
    BY <1>3, <2>1, <2>3
  <2>5. /\ w'.called \in Seq(Chunks) /\ Len(w'.called) = n + 1
        /\ w'.called[n + 1] = w.sub
        /\ \A i \in 1 .. n : w'.called[i] = w.called[i]
    BY <1>6, <2>3, <2>4, AppendProperties
  <2>6. Begins(w'.called, subs)
    <3>1. \A i \in 1 .. n + 1 : i \in 1 .. n \/ i = n + 1
      BY <2>3
    <3> QED  BY <1>3, <2>1, <2>5, <3>1 DEF Begins
  <2>7. CASE w.subtmp = 0
    BY <1>6, <2>1, <2>2, <2>5, <2>6, <2>7 DEF Calling
  <2>8. CASE w.subtmp # 0
    <3>1. n + 2 \in 1 .. Len(subs) /\ w.subtmp = subs[n + 2]
      BY <1>3, <2>1, <2>3, <2>8
    <3>2. NextSub(w.subtmp) = IF n + 2 = Len(subs) THEN 0 ELSE subs[(n + 2) + 1]
      BY <1>5, <3>1
    <3>3. n + 2 # Len(subs) =>
              (n + 2) + 1 \in 1 .. Len(subs) /\ subs[(n + 2) + 1] # 0
      BY <1>3, <2>3, <3>1
    <3>4. (n + 2) + 1 = (n + 1) + 2 /\ (n + 1) + 1 = n + 2
      BY <2>3
    <3>5. Len(w.subs) \in Nat /\ Len(w.subs) <= Len(subs)
      BY <2>1 DEF Begins
    <3>6. /\ w'.pc = "subs"
          /\ (n + 1) + 1 <= Len(subs) /\ w'.sub = subs[(n + 1) + 1]
          /\ w'.subtmp = 0 => Len(w.subs) <= (n + 1) + 1
          /\ w'.subtmp # 0 => /\ (n + 1) + 2 <= Len(subs)
                              /\ w'.subtmp = subs[(n + 1) + 2]
      BY <1>3, <1>6, <2>3, <2>8, <3>1, <3>2, <3>3, <3>4, <3>5
    <3> QED  BY <1>6, <2>1, <2>2, <2>5, <2>6, <3>6 DEF Calling
  <2> QED  BY <2>7, <2>8
<1> QED  BY <1>4, <1>6, <1>7 DEF CalledInv

\* The chain runs exactly when there was a match.
LEMMA CalledEvaluated ==
    ASSUME CalledInv, CacheInv', NEW n, NEW match \in BOOLEAN,
           Evaluated(n, match)
    PROVE  CalledInv'
<1>0. WorkerShape
  BY DEF CalledInv, CacheInv, WalkInv, LockInv
<1>1. CASE match = TRUE
  <2>1. w'.match = TRUE /\ w'.pc = "chain"
    BY <1>0, <1>1 DEF Evaluated, WorkerShape, Shaped, Fields
  <2> QED  BY <2>1 DEF CalledInv
<1>2. CASE match = FALSE
  <2>1. w'.match = FALSE
    BY <1>0, <1>2 DEF Evaluated, WorkerShape, Shaped, Fields
  <2> QED  BY <2>1 DEF CalledInv
<1> QED  BY <1>1, <1>2

\* What an evaluation finds in the cache is a result.
LEMMA CachedIsBoolean ==
    ASSUME CacheInv, w.pc = "visit"
    PROVE  /\ w.cur \in Handles /\ w.m \in Meas
           /\ mes[w.m] \in Header /\ mes[w.m].bits \in Bits
           /\ <<mes[w.m].bits, nodes[w.cur].handle>> \in Keys
           /\ cache[<<mes[w.m].bits, nodes[w.cur].handle>>] \in BOOLEAN \cup {NULL}
<1>1. w.cur \in Handles /\ nodes[w.cur].handle \in Handles
  BY HandlesAreSlots
     DEF CacheInv, WalkInv, WalkTyped, Visiting, LockInv, IInv, TypeOK, NodeRecord
<1>2. w.m \in Meas
  BY DEF CacheInv, OwnInv, OwnTypes
<1>3. mes[w.m] \in Header
  <2>1. mes[w.m] # NULL /\ mes[w.m] \in Header \cup {NULL}
    BY <1>2 DEF CacheInv, OwnInv, OwnTypes, InUse
  <2> QED  BY <2>1
<1>4. mes[w.m].bits \in Bits
  BY <1>3 DEF Header
<1>5. <<mes[w.m].bits, nodes[w.cur].handle>> \in Keys
  BY <1>1, <1>4 DEF Keys
<1> QED  BY <1>1, <1>2, <1>3, <1>4, <1>5 DEF CacheInv, CacheTyped

LEMMA CalledNext == CalledInv /\ [ManagerNext]_vars => CalledInv'
<1> SUFFICES ASSUME CalledInv, [ManagerNext]_vars PROVE CalledInv'
  OBVIOUS
<1>0. CacheInv /\ CacheInv' /\ WorkerShape
  BY CacheNext DEF CalledInv, CacheInv, WalkInv, LockInv
<1>1. ASSUME UNCHANGED <<registry, w>> PROVE CalledInv'
  <2>1. UNCHANGED <<nodes, epoch, w>>
    BY <1>1 DEF registry
  <2> QED  BY <1>0, <2>1 DEF CalledInv, Calling
<1>2. ASSUME w'.match = w.match, w'.pc \notin {"subs", "relock"}
      PROVE  CalledInv'
  BY <1>0, <1>2 DEF CalledInv
<1>3. CASE StartList \/ PassOver \/ Relock
  BY <1>0, <1>2, <1>3 DEF StartList, PassOver, Relock, Advance, WorkerShape,
                          Shaped, Fields
<1>4. CASE EvaluateCached
  <2> DEFINE key == <<mes[w.m].bits, nodes[w.cur].handle>>
  <2>1. /\ Evaluated(nodes[w.cur].node, cache[key])
        /\ w.pc = "visit" /\ cache[key] # NULL
    BY <1>4 DEF EvaluateCached
  <2>2. cache[key] \in BOOLEAN
    BY <1>0, <2>1, CachedIsBoolean
  <2> HIDE DEF key
  <2> QED  BY <1>0, <2>1, <2>2, CalledEvaluated
<1>5. CASE Evaluate
  <2> DEFINE match == Outcome(nodes[w.cur].node, mes[w.m])
  <2>1. Evaluated(nodes[w.cur].node, match)
    BY <1>5 DEF Evaluate
  <2>2. match \in BOOLEAN
    BY DEF Outcome
  <2> HIDE DEF match
  <2> QED  BY <1>0, <2>1, <2>2, CalledEvaluated
<1>6. ASSUME w' = [w EXCEPT !.pc = "fault"] PROVE CalledInv'
  BY <1>0, <1>2, <1>6 DEF WorkerShape, Shaped, Fields
<1>7. ASSUME w.pc = "chain", w' = AfterStage(w) PROVE CalledInv'
  <2>1. w'.match = w.match /\ w'.pc \in {"chain", "chain_end"}
    <3> USE DEF AfterStage, WorkerShape, Shaped, Fields
    <3>1. CASE w.stage = "start"
      BY <1>0, <1>7, <3>1
    <3>2. CASE w.stage = "exec"
      BY <1>0, <1>7, <3>2
    <3>3. CASE w.stage = "stop"
      BY <1>0, <1>7, <3>3
    <3> QED  BY <1>0, <3>1, <3>2, <3>3 DEF Stages
  <2> QED  BY <1>2, <2>1
<1>8. ASSUME NEW r \in {OK, EFAIL}, CallHandler(r) PROVE CalledInv'
  BY <1>6, <1>7, <1>8 DEF CallHandler
<1>9. CASE EvaluateNull \/ SkipHandler
  BY <1>6, <1>7, <1>9 DEF EvaluateNull, SkipHandler
<1>10. CASE TakeWork
  BY <1>0, <1>2, <1>10 DEF TakeWork, WorkerShape, Shaped, Fields
<1>11. CASE Finish
  <2>1. w'.match = FALSE
    BY <1>11 DEF Finish, Idle
  <2> QED  BY <1>0, <2>1 DEF CalledInv
<1>12. CASE ClearAll \/ RegistryCall
  BY <1>0, <1>12, RegistryCallIsStep, CalledUnderCalls
<1>13. ASSUME NEW t \in Threads, NEW b \in Bits, NEW p \in Payloads, Alloc(t, b, p)
       PROVE  CalledInv'
  BY <1>1, <1>13 DEF Alloc
<1>14. ASSUME NEW t \in Threads, AllocFails(t) \/ Put(t)
       PROVE  CalledInv'
  BY <1>1, <1>14 DEF AllocFails, Put
<1>15. CASE UNCHANGED vars
  BY <1>1, <1>15 DEF vars
<1> QED  BY <1>0, <1>3, <1>4, <1>5, <1>8, <1>9, <1>10, <1>11, <1>12, <1>13, <1>14,
            <1>15, StartSubscribersKeeps, CallSubscriberKeeps
         DEF ManagerNext, ProcessStep

\* For any number of records, chunks and threads: until a clear intervenes the
\* subscribers of a node that has run are called in the order they subscribed,
\* each once, and all that were there when its chain ended, also when others
\* subscribe meanwhile, from a callback or elsewhere (proc_mgr.c:
\* step_pm_process, step_pm_subscribe_to_node).
THEOREM ManagerCallsSubscribers == ManagerSpec => []SubscribersCalled
<1>1. ASSUME CalledInv PROVE SubscribersCalled
  <2> SUFFICES ASSUME w.epoch = epoch, w.pc \in {"subs", "relock"}, w.match
               PROVE  /\ IsPrefix(w.called, nodes[w.cur].subs)
                      /\ w.pc = "relock" => IsPrefix(w.subs, w.called)
    BY DEF SubscribersCalled
  <2>1. /\ Begins(w.called, nodes[w.cur].subs)
        /\ Begins(w.subs, nodes[w.cur].subs)
        /\ w.pc = "relock" => Len(w.subs) <= Len(w.called)
    BY <1>1 DEF CalledInv, Calling
  <2>2. w.pc = "relock" => Begins(w.subs, w.called)
    BY <2>1 DEF Begins
  <2> QED  BY <2>1, <2>2, BeginsIsPrefix
<1> QED  BY <1>1, CalledInit, CalledNext, PTL DEF ManagerSpec

-----------------------------------------------------------------------------
(* The manager and its cache.                                              *)

MemoRoom == IsFiniteSet(Memo!Known) /\ Cardinality(Memo!Known) <= CACHE_DEPTH

LEMMA MemoInit == ManagerInit => Memo!Init /\ MemoRoom
<1> SUFFICES ASSUME ManagerInit PROVE Memo!Init /\ MemoRoom
  OBVIOUS
<1>1. cache = [k \in Keys |-> NULL]
  BY DEF ManagerInit
<1>2. Memo!Known = {}
  BY <1>1 DEF Memo!Known
<1> QED  BY <1>1, <1>2, FS_EmptySet, ProcMgrAssumption DEF Memo!Init, MemoRoom

\* A result is only added for a key that has none, so there is room for it or
\* another is forgotten.
LEMMA MemoEvaluates ==
    ASSUME CacheInv, MemoRoom, Evaluate
    PROVE  Memo!Next /\ MemoRoom'
<1> DEFINE key == <<mes[w.m].bits, nodes[w.cur].handle>>
           match == Outcome(nodes[w.cur].node, mes[w.m])
           Known == Memo!Known
           n == Cardinality(Known)
<1>1. /\ w.pc = "visit" /\ cache[key] = NULL
      /\ cache' \in Remembered(cache, key, match)
  BY DEF Evaluate
<1>2. key \in Keys /\ cache \in [Keys -> BOOLEAN \cup {NULL}]
  BY <1>1, CachedIsBoolean DEF CacheInv, CacheTyped
<1>3. match \in BOOLEAN
  BY DEF Outcome
<1>4. /\ Known = {k \in Keys : cache[k] # NULL} /\ key \notin Known
      /\ IsFiniteSet(Known) /\ n \in Nat /\ n <= CACHE_DEPTH
  BY <1>1, FS_CardinalityType DEF MemoRoom, Memo!Known
<1>10. Memo!Cardinality(Known) = n
  BY Zenon DEF Memo!Cardinality, Cardinality
<1>5. Known \ {key} = Known
  BY <1>4
<1>6. PICK r \in BOOLEAN : r = match
  BY <1>3, Zenon
<1> HIDE DEF key, match
<1>7. r # NULL /\ CACHE_DEPTH \in Nat
  BY ProcMgrAssumption
<1>8. CASE n < CACHE_DEPTH
  <2>1. cache' = [cache EXCEPT ![key] = r]
    BY <1>1, <1>4, <1>5, <1>6, <1>8, Zenon DEF Remembered
  <2>2. Memo!Remember(key, r)
    BY <1>1, <1>8, <1>10, <2>1 DEF Memo!Remember
  <2>3. Known' = Known \cup {key}
    BY <1>2, <1>4, <1>7, <2>1 DEF Memo!Known
  <2>4. IsFiniteSet(Known') /\ Cardinality(Known') = n + 1
    BY <1>4, <2>3, FS_AddElement
  <2>5. MemoRoom'
    BY <1>4, <1>7, <1>8, <2>4 DEF MemoRoom
  <2> QED  BY <1>2, <2>2, <2>5 DEF Memo!Next
<1>9. CASE ~(n < CACHE_DEPTH)
  <2>1. PICK lost \in Known : cache' = [cache EXCEPT ![key] = r, ![lost] = NULL]
    BY <1>1, <1>4, <1>5, <1>6, <1>9, Zenon DEF Remembered
  <2>2. n = CACHE_DEPTH /\ lost \in Keys /\ lost # key
    BY <1>4, <1>7, <1>9
  <2>3. Memo!Replace(key, lost, r)
    BY <1>1, <1>10, <2>1, <2>2 DEF Memo!Replace
  <2>4. Known' = (Known \ {lost}) \cup {key}
    BY <1>2, <1>4, <1>7, <2>1, <2>2 DEF Memo!Known
  <2>5. IsFiniteSet(Known \ {lost}) /\ Cardinality(Known \ {lost}) = n - 1
    BY <1>4, FS_RemoveElement
  <2>6. IsFiniteSet(Known') /\ Cardinality(Known') = n
    <3>1. key \notin Known \ {lost}
      BY <1>4
    <3>2. Cardinality((Known \ {lost}) \cup {key}) = (n - 1) + 1
      BY <2>5, <3>1, FS_AddElement
    <3> QED  BY <1>4, <2>4, <2>5, <3>2, FS_AddElement
  <2>7. MemoRoom'
    BY <1>4, <2>6 DEF MemoRoom
  <2> QED  BY <1>2, <2>2, <2>3, <2>7 DEF Memo!Next
<1> QED  BY <1>8, <1>9

LEMMA MemoNext ==
    CacheInv /\ MemoRoom /\ [ManagerNext]_vars => [Memo!Next]_cache /\ MemoRoom'
<1> SUFFICES ASSUME CacheInv, MemoRoom, [ManagerNext]_vars
             PROVE  [Memo!Next]_cache /\ MemoRoom'
  OBVIOUS
<1>1. ASSUME UNCHANGED cache PROVE MemoRoom'
  BY <1>1 DEF MemoRoom, Memo!Known
<1>2. CASE ClearAll
  <2>1. cache' = [k \in Keys |-> NULL]
    BY <1>2 DEF ClearAll
  <2>2. Memo!Known' = {}
    BY <2>1 DEF Memo!Known
  <2>3. MemoRoom'
    BY <2>2, FS_EmptySet, ProcMgrAssumption DEF MemoRoom
  <2> QED  BY <2>1, <2>3 DEF Memo!Next, Memo!Forget
<1>3. CASE Evaluate
  BY <1>3, MemoEvaluates
<1>4. ASSUME ~ClearAll, ~Evaluate PROVE UNCHANGED cache
  <2>1. CASE ProcessStep
    BY <1>4, <2>1 DEF ProcessStep, TakeWork, StartList, PassOver, EvaluateCached,
                      EvaluateNull, CallHandler, SkipHandler, StartSubscribers,
                      CallSubscriber, Relock, Finish
  <2>2. CASE RegistryCall
    BY <2>2 DEF RegistryCall
  <2>3. ASSUME NEW t \in Threads, NEW b \in Bits, NEW p \in Payloads, Alloc(t, b, p)
        PROVE  UNCHANGED cache
    BY <2>3 DEF Alloc
  <2>4. ASSUME NEW t \in Threads, AllocFails(t) \/ Put(t)
        PROVE  UNCHANGED cache
    BY <2>4 DEF AllocFails, Put
  <2> QED  BY <1>4, <2>1, <2>2, <2>3, <2>4 DEF ManagerNext, vars
<1> QED  BY <1>1, <1>2, <1>3, <1>4

\* For every size of the cache and any number of threads: what the manager does
\* with its cache is what LossyMemo lets its user do, and FilterCache, the array
\* of records of cache.c, implements LossyMemo (FilterCacheProofs, CacheIsMemo).
\* So the manager's model stands for the manager with the real cache
\* (proc_mgr.c: step_pm_evaluate, step_pm_clear).
THEOREM ManagerUsesMemo == ManagerSpec => CacheUsedAsMemo
BY MemoInit, MemoNext, CacheInit, CacheNext, PTL
   DEF ManagerSpec, CacheUsedAsMemo, Memo!Spec

-----------------------------------------------------------------------------
(* Every variable has its type.                                            *)

\* A chunk links to a chunk that has been taken from the heap, or to none.
LinksInside ==
    \A d \in 1 .. Len(cb_pool) : cb_pool[d].next \in 0 .. Len(cb_pool)

\* What the invariants so far do not say of the types; n chunks of the heap are
\* taken.
WorkerTyped(x, n) ==
    /\ x.pc \in Places
    /\ x.node \in Nodes \cup {NULL}
    /\ x.inst \in Nat
    /\ x.sub \in 0 .. n /\ x.subtmp \in 0 .. n

RestTyped ==
    /\ sp_owner \in Threads \cup {NULL}
    /\ allocs \in 0 .. MaxAllocs
    /\ WorkerTyped(w, Len(cb_pool))

TypedInv == CalledInv /\ LinksInside /\ RestTyped

LEMMA TypedInit == ManagerInit => TypedInv
<1> SUFFICES ASSUME ManagerInit PROVE TypedInv
  OBVIOUS
<1>1. sp_owner = NULL /\ allocs = 0 /\ w = Idle /\ cb_pool = <<>>
  BY DEF ManagerInit, Init
<1>2. WorkerTyped(Idle, 0)
  BY DEF WorkerTyped, Idle, Places
<1>3. LinksInside
  BY <1>1 DEF LinksInside
<1>4. RestTyped
  BY <1>1, <1>2, ProcMgrAssumption DEF RestTyped
<1> QED  BY <1>3, <1>4, CalledInit DEF TypedInv

\* No call takes a chunk back, and a chunk is only linked to a younger one.
LEMMA LinksStayInside ==
    ASSUME IInv, LinksInside, Next
    PROVE  LinksInside' /\ Len(cb_pool) \in Nat /\ Len(cb_pool') \in Nat
           /\ Len(cb_pool) <= Len(cb_pool')
<1>1. Len(cb_pool) \in Nat
  BY DEF IInv, TypeOK
<1>2. ASSUME cb_pool' = cb_pool
      PROVE  LinksInside' /\ Len(cb_pool') = Len(cb_pool)
  BY <1>2 DEF LinksInside
<1>3. ASSUME NEW h \in Slots, NEW cb \in Callbacks, Subscribe(h, cb)
      PROVE  LinksInside' /\ Len(cb_pool') = Len(cb_pool) + 1
  <2>1. /\ Len(cb_pool') = Len(cb_pool) + 1
        /\ \A d \in 1 .. Len(cb_pool) :
              cb_pool'[d].next \in {Len(cb_pool) + 1, cb_pool[d].next}
        /\ cb_pool'[Len(cb_pool) + 1].next = 0
    BY <1>3, SubscribeAppendsChunk
  <2>2. ASSUME NEW d \in 1 .. Len(cb_pool')
        PROVE  cb_pool'[d].next \in 0 .. Len(cb_pool')
    <3>1. CASE d = Len(cb_pool) + 1
      BY <1>1, <2>1, <3>1
    <3>2. CASE d # Len(cb_pool) + 1
      <4>1. d \in 1 .. Len(cb_pool)
        BY <1>1, <2>1, <3>2
      <4>2. cb_pool[d].next \in 0 .. Len(cb_pool)
        BY <4>1 DEF LinksInside
      <4> QED  BY <1>1, <2>1, <4>1, <4>2
    <3> QED  BY <3>1, <3>2
  <2> QED  BY <2>1, <2>2 DEF LinksInside
<1>4. ASSUME ~(\E h \in Slots, cb \in Callbacks : Subscribe(h, cb))
      PROVE  cb_pool' = cb_pool
  <2> USE DEF RegisterStep, CallInitHandler, SkipInitHandler, RegisterReturn
  <2>1. ASSUME NEW c \in Clients, NEW n \in Nodes, NEW pri \in Priorities,
               Register(c, n, pri)
        PROVE  cb_pool' = cb_pool
    BY <2>1 DEF Register
  <2>2. ASSUME NEW t \in Togglers,
               SetEnabled(t) \/ (\E h \in Slots, on \in BOOLEAN :
                                    CheckHandle(t, h, on))
        PROVE  cb_pool' = cb_pool
    BY <2>2 DEF CheckHandle, SetEnabled
  <2>3. CASE RegisterStep \/ Clear
    BY <2>3 DEF Clear
  <2> QED  BY <1>4, <2>1, <2>2, <2>3 DEF Next
<1> QED  BY <1>1, <1>2, <1>3, <1>4

\* The next link of a chunk.
LEMMA NextSubInside ==
    ASSUME LinksInside, Len(cb_pool) \in Nat, NEW c \in 0 .. Len(cb_pool)
    PROVE  NextSub(c) \in 0 .. Len(cb_pool)
<1>1. CASE c = 0
  BY <1>1 DEF NextSub
<1>2. CASE c # 0
  BY <1>2 DEF NextSub, LinksInside
<1> QED  BY <1>1, <1>2

\* A step of processing keeps the types of what the worker holds.
LEMMA MiddleTyped ==
    ASSUME TypedInv, Middle
    PROVE  WorkerTyped(w', Len(cb_pool))
<1> DEFINE len == Len(cb_pool)
<1>0. /\ WorkerShape /\ WalkTyped /\ IInv /\ CacheInv /\ LinksInside
      /\ len \in Nat
  BY DEF TypedInv, CalledInv, CacheInv, WalkInv, LockInv, IInv, TypeOK
<1>1. WorkerTyped(w, len)
  BY DEF TypedInv, RestTyped
<1> SUFFICES WorkerTyped(w', len)
  OBVIOUS
<1> HIDE DEF len
<1> USE DEF WorkerShape, Places
<1>2. CASE StartList \/ PassOver \/ Relock
  <2> DEFINE Moved == /\ w'.pc \in {"visit", "finish"}
                      /\ w'.node = w.node /\ w'.inst = w.inst
                      /\ w'.sub = w.sub /\ w'.subtmp = w.subtmp
  <2> USE DEF Advance, Shaped, Fields
  <2>1. ASSUME StartList PROVE Moved
    BY <1>0, <2>1 DEF StartList
  <2>2. ASSUME PassOver PROVE Moved
    BY <1>0, <2>2 DEF PassOver
  <2>3. ASSUME Relock PROVE Moved
    BY <1>0, <2>3 DEF Relock
  <2>4. Moved
    BY <1>2, <2>1, <2>2, <2>3
  <2> QED  BY <1>1, <2>4 DEF WorkerTyped
<1>3. ASSUME NEW match, w.pc = "visit", Evaluated(nodes[w.cur].node, match)
      PROVE  WorkerTyped(w', len)
  <2>1. w.cur \in Handles
    BY <1>0, <1>3 DEF WalkTyped, Visiting
  <2>2. nodes[w.cur].node \in Nodes \cup {NULL}
    BY <1>0, <2>1, HandlesAreSlots DEF IInv, TypeOK, NodeRecord
  <2>3. /\ w'.node = nodes[w.cur].node /\ w'.inst = 0
        /\ w'.pc \in {"chain", "relock"}
        /\ w'.sub = w.sub /\ w'.subtmp = w.subtmp
    BY <1>0, <1>3 DEF Evaluated, Shaped, Fields
  <2> QED  BY <1>1, <2>2, <2>3 DEF WorkerTyped
<1>4. CASE EvaluateCached
  <2> DEFINE key == <<mes[w.m].bits, nodes[w.cur].handle>>
  <2>1. w.pc = "visit" /\ Evaluated(nodes[w.cur].node, cache[key])
    BY <1>4 DEF EvaluateCached
  <2> HIDE DEF key
  <2> QED  BY <1>3, <2>1
<1>5. CASE Evaluate
  <2> DEFINE match == Outcome(nodes[w.cur].node, mes[w.m])
  <2>1. w.pc = "visit" /\ Evaluated(nodes[w.cur].node, match)
    BY <1>5 DEF Evaluate
  <2> HIDE DEF match
  <2> QED  BY <1>3, <2>1
<1>6. ASSUME w' = [w EXCEPT !.pc = "fault"] PROVE WorkerTyped(w', len)
  <2>1. /\ w'.pc = "fault" /\ w'.node = w.node /\ w'.inst = w.inst
        /\ w'.sub = w.sub /\ w'.subtmp = w.subtmp
    BY <1>0, <1>6 DEF Shaped, Fields
  <2> QED  BY <1>1, <2>1 DEF WorkerTyped
<1>7. ASSUME w' = AfterStage(w) PROVE WorkerTyped(w', len)
  <2>1. /\ w'.pc \in {w.pc, "chain", "chain_end"}
        /\ w'.node = w.node /\ w'.inst \in {w.inst, w.inst + 1}
        /\ w'.sub = w.sub /\ w'.subtmp = w.subtmp
    <3> USE DEF AfterStage, Shaped, Fields
    <3>1. CASE w.stage = "start"
      BY <1>0, <1>7, <3>1
    <3>2. CASE w.stage = "exec"
      BY <1>0, <1>7, <3>2
    <3>3. CASE w.stage = "stop"
      BY <1>0, <1>7, <3>3
    <3> QED  BY <1>0, <3>1, <3>2, <3>3 DEF Stages
  <2>2. w'.inst \in Nat
    BY <1>1, <2>1 DEF WorkerTyped
  <2> QED  BY <1>1, <2>1, <2>2 DEF WorkerTyped
<1>8. ASSUME NEW r \in {OK, EFAIL}, CallHandler(r) PROVE WorkerTyped(w', len)
  BY <1>6, <1>7, <1>8 DEF CallHandler
<1>9. CASE EvaluateNull \/ SkipHandler
  BY <1>6, <1>7, <1>9 DEF EvaluateNull, SkipHandler
<1>10. CASE StartSubscribers
  <2> DEFINE subs == nodes[w.cur].subs
             first == IF subs = <<>> THEN 0 ELSE Head(subs)
  <2>1. /\ w.pc = "chain_end"
        /\ w' = [w EXCEPT !.pc = IF first = 0 THEN "relock" ELSE "subs",
                          !.sub = first, !.subtmp = NextSub(first),
                          !.subs = subs, !.called = <<>>]
    BY <1>10 DEF StartSubscribers
  <2>2. w.cur \in Handles
    BY <1>0, <2>1 DEF WalkTyped, Visiting
  <2>3. /\ subs \in Seq(Chunks) /\ SubsLinked(w.cur)
        /\ \A i \in 1 .. Len(subs) : subs[i] \in Chunks
    BY <1>0, <2>2, SubsAre, HandlesAreSlots DEF IInv, SubsSound
  <2>4. first \in 0 .. len
    <3>1. CASE subs = <<>>
      BY <1>0, <3>1
    <3>2. CASE subs # <<>>
      <4>1. 1 \in 1 .. Len(subs) /\ first = subs[1]
        BY <2>3, <3>2
      <4>2. subs[1] \in Chunks /\ subs[1] <= len
        BY <2>3, <4>1 DEF SubsLinked, len
      <4> QED  BY <1>0, <4>1, <4>2, RegistryAssumption DEF Chunks
    <3> QED  BY <3>1, <3>2
  <2> HIDE DEF subs, first
  <2>5. NextSub(first) \in 0 .. len
    BY <1>0, <2>4, NextSubInside DEF len
  <2>6. /\ w'.pc \in {"relock", "subs"} /\ w'.node = w.node /\ w'.inst = w.inst
        /\ w'.sub = first /\ w'.subtmp = NextSub(first)
    BY <1>0, <2>1 DEF Shaped, Fields
  <2> QED  BY <1>1, <2>4, <2>5, <2>6 DEF WorkerTyped
<1>11. CASE CallSubscriber
  <2>1. NextSub(w.subtmp) \in 0 .. len
    BY <1>0, <1>1, NextSubInside DEF len, WorkerTyped
  <2>2. /\ w'.pc \in {"relock", "subs"} /\ w'.node = w.node /\ w'.inst = w.inst
        /\ w'.sub = w.subtmp /\ w'.subtmp = NextSub(w.subtmp)
    BY <1>0, <1>11 DEF CallSubscriber, Shaped, Fields
  <2> QED  BY <1>1, <2>1, <2>2 DEF WorkerTyped
<1> QED  BY <1>2, <1>4, <1>5, <1>8, <1>9, <1>10, <1>11 DEF Middle

LEMMA TypedNext == TypedInv /\ [ManagerNext]_vars => TypedInv'
<1> SUFFICES ASSUME TypedInv, [ManagerNext]_vars PROVE TypedInv'
  OBVIOUS
<1>0. /\ CalledInv /\ CalledInv' /\ LinksInside /\ RestTyped
      /\ WorkerShape /\ IInv /\ Len(cb_pool) \in Nat
  <2>1. CalledInv /\ CalledInv' /\ LinksInside /\ RestTyped
    BY CalledNext DEF TypedInv
  <2>2. WorkerShape /\ IInv
    BY <2>1 DEF CalledInv, CacheInv, WalkInv, LockInv
  <2>3. Len(cb_pool) \in Nat
    BY <2>2, LenProperties DEF IInv, TypeOK
  <2> QED  BY <2>1, <2>2, <2>3
<1>1. ASSUME UNCHANGED cb_pool, WorkerTyped(w', Len(cb_pool)),
             (sp_owner \in Threads \cup {NULL})', (allocs \in 0 .. MaxAllocs)'
      PROVE  TypedInv'
  <2>1. LinksInside'
    BY <1>0, <1>1 DEF LinksInside
  <2>2. RestTyped'
    BY <1>1 DEF RestTyped
  <2> QED  BY <1>0, <2>1, <2>2 DEF TypedInv
<1>2. WorkerTyped(w, Len(cb_pool))
  BY <1>0 DEF RestTyped
<1>3. sp_owner \in Threads \cup {NULL} /\ allocs \in 0 .. MaxAllocs
  BY <1>0 DEF RestTyped
<1>4. CASE Middle
  <2>1. UNCHANGED <<cb_pool, sp_owner, allocs>>
    BY <1>0, <1>4, MiddleSteps DEF MiddleEffect, RegistryButMutex, flow
  <2> QED  BY <1>1, <1>3, <1>4, <2>1, MiddleTyped
<1>5. CASE TakeWork
  <2>1. WorkerTyped(w', Len(cb_pool))
    BY <1>0, <1>2, <1>5 DEF TakeWork, WorkerTyped, WorkerShape, Shaped, Fields, Places
  <2>2. UNCHANGED <<cb_pool, sp_owner, allocs>>
    BY <1>5 DEF TakeWork, registry
  <2> QED  BY <1>1, <1>3, <2>1, <2>2
<1>6. CASE Finish
  <2>1. WorkerTyped(w', Len(cb_pool))
    BY <1>0, <1>6 DEF Finish, WorkerTyped, Idle, Places
  <2>2. UNCHANGED <<cb_pool, sp_owner, allocs>>
    BY <1>6 DEF Finish
  <2> QED  BY <1>1, <1>3, <2>1, <2>2
<1>7. CASE ClearAll \/ RegistryCall
  <2>1. Next /\ UNCHANGED <<flow, w>>
    BY <1>7, RegistryCallIsStep
  <2>2. /\ LinksInside' /\ Len(cb_pool') \in Nat
        /\ Len(cb_pool) <= Len(cb_pool')
    BY <1>0, <2>1, LinksStayInside
  <2>3. UNCHANGED <<sp_owner, allocs, w>>
    BY <2>1 DEF flow
  <2>4. RestTyped'
    BY <1>0, <2>2, <2>3 DEF RestTyped, WorkerTyped
  <2> QED  BY <1>0, <2>2, <2>4 DEF TypedInv
<1>8. ASSUME NEW t \in Threads, NEW b \in Bits, NEW p \in Payloads,
             Alloc(t, b, p)
      PROVE  TypedInv'
  <2>1. UNCHANGED <<cb_pool, w, sp_owner>>
    BY <1>8 DEF Alloc, registry
  <2>2. allocs < MaxAllocs /\ allocs' = allocs + 1
    BY <1>8 DEF Alloc
  <2>3. allocs' \in 0 .. MaxAllocs
    BY <1>3, <2>2, ProcMgrAssumption
  <2> QED  BY <1>1, <1>2, <1>3, <2>1, <2>3
<1>9. ASSUME NEW t \in Threads, Put(t)
      PROVE  TypedInv'
  <2>1. UNCHANGED <<cb_pool, w, sp_owner, allocs>>
    BY <1>9 DEF Put, registry
  <2> QED  BY <1>1, <1>2, <1>3, <2>1
<1>10. ASSUME NEW t \in Threads, AllocFails(t)
       PROVE  TypedInv'
  <2>1. UNCHANGED <<cb_pool, w>> /\ sp_owner' = t
    BY <1>10 DEF AllocFails, registry
  <2>2. allocs < MaxAllocs /\ allocs' = allocs + 1
    BY <1>10 DEF AllocFails
  <2>3. allocs' \in 0 .. MaxAllocs
    BY <1>3, <2>2, ProcMgrAssumption
  <2> QED  BY <1>1, <1>2, <2>1, <2>3
<1>11. CASE UNCHANGED vars
  <2>1. UNCHANGED <<cb_pool, w, sp_owner, allocs>>
    BY <1>11 DEF vars, registry, flow
  <2> QED  BY <1>1, <1>2, <1>3, <2>1
<1> QED  BY <1>4, <1>5, <1>6, <1>7, <1>8, <1>9, <1>10, <1>11
         DEF ManagerNext, ProcessStep, Middle

\* For any table, heap, cache and set of threads every variable of the manager
\* keeps its type.  In particular the pointers processing keeps while it runs
\* callbacks without the mutex never leave the table of records and the chunks
\* that have been taken from the heap, whatever is registered, cleared or
\* subscribed meanwhile (proc_mgr.c: step_pm_process).
THEOREM ManagerTyped == ManagerSpec => []ManagerTypeOK
<1>1. ASSUME TypedInv PROVE ManagerTypeOK
  <2>1. /\ CalledInv /\ RestTyped /\ CacheTyped /\ OwnTypes /\ WalkTyped
        /\ WorkerShape /\ TypeOK
    BY <1>1 DEF TypedInv, CalledInv, CacheInv, OwnInv, WalkInv, LockInv, IInv
  <2>2. DOMAIN w = DOMAIN Idle
    <3>1. DOMAIN w = Fields
      BY <2>1 DEF WorkerShape, Shaped
    <3>2. DOMAIN Idle = Fields
      BY DEF Idle, Fields
    <3> QED  BY <3>1, <3>2
  <2>3. w.match \in BOOLEAN /\ w.stage \in Stages
    BY <2>1 DEF CalledInv, WorkerShape
  <2> QED  BY <2>1, <2>2, <2>3
           DEF ManagerTypeOK, RestTyped, WorkerTyped, CacheTyped, OwnTypes, WalkTyped
<1> QED  BY <1>1, TypedInit, TypedNext, PTL DEF ManagerSpec

-----------------------------------------------------------------------------
(* Every node is offered the measurement.                                  *)

\* Of two registered records one stands before the other, and not both ways.
LEMMA PrecedesOrders ==
    ASSUME IInv, NEW g \in Handles, NEW h \in Handles
    PROVE  /\ ~Precedes(g, g)
           /\ ~(Precedes(g, h) /\ Precedes(h, g))
<1>1. \A x \in Handles : nodes[x].priority \in Nat /\ x \in Nat
  <2>1. nodes \in [Slots -> NodeRecord] /\ \A x \in Handles : x \in Nat
    BY DEF IInv, TypeOK, Handles
  <2> QED  BY <2>1, HandlesAreSlots DEF NodeRecord
<1> QED  BY <1>1 DEF Precedes

\* No record stands between one in the list and the next.
LEMMA NoneBetween ==
    ASSUME IInv, NEW g \in Handles, NEW h \in Handles,
           g < handle_counter, h < handle_counter, Precedes(h, g)
    PROVE  Following(h) # NONE /\ (g = Following(h) \/ Precedes(Following(h), g))
<1> DEFINE at == {i \in 1 .. Len(slist) - 1 : slist[i] = h}
<1>1. /\ slist \in Seq(Handles) /\ Len(slist) \in Nat
      /\ \A i \in 1 .. Len(slist) : slist[i] \in Handles
      /\ handle_counter \in Nat
  BY RegistryAssumption DEF IInv, TypeOK
<1>2. \A i, j \in 1 .. Len(slist) : i < j => Precedes(slist[i], slist[j])
  BY DEF IInv, PriorityOrder
<1>3. g \in 0 .. handle_counter - 1 /\ h \in 0 .. handle_counter - 1
  BY <1>1 DEF Handles
<1>4. PICK i \in 1 .. Len(slist) : slist[i] = h
  BY <1>3 DEF IInv, ListSound
<1>5. PICK j \in 1 .. Len(slist) : slist[j] = g
  BY <1>3 DEF IInv, ListSound
<1>6. ASSUME NEW k \in 1 .. Len(slist), slist[k] = h
      PROVE  k < j
  <2>1. k # j
    BY <1>5, <1>6, PrecedesOrders
  <2>2. ~(j < k)
    BY <1>2, <1>5, <1>6, PrecedesOrders
  <2> QED  BY <1>1, <2>1, <2>2
<1>7. at # {}
  <2>1. i \in at
    BY <1>1, <1>4, <1>6
  <2> QED  BY <2>1
<1> DEFINE k == CHOOSE x \in at : TRUE
<1>8. k \in at
  BY <1>7
<1>9. Following(h) = slist[k + 1]
  BY <1>7, Zenon DEF Following
<1>10. k \in 1 .. Len(slist) - 1 /\ slist[k] = h
  BY <1>8
<1> HIDE DEF k, at
<1>11. k \in 1 .. Len(slist) /\ k + 1 \in 1 .. Len(slist)
  BY <1>1, <1>10
<1>12. k < j
  BY <1>6, <1>10, <1>11
<1>13. slist[k + 1] # NONE
  <2>1. slist[k + 1] \in Handles
    BY <1>1, <1>11
  <2> QED  BY <2>1, RegistryAssumption DEF Handles, NONE
<1>14. CASE j = k + 1
  BY <1>5, <1>9, <1>13, <1>14
<1>15. CASE k + 1 < j
  <2>1. Precedes(slist[k + 1], slist[j])
    BY <1>2, <1>11, <1>15
  <2> QED  BY <1>5, <1>9, <1>13, <2>1
<1>16. j = k + 1 \/ k + 1 < j
  BY <1>10, <1>12, <1>1
<1> QED  BY <1>14, <1>15, <1>16

\* No record stands before the first.
LEMMA NoneBefore ==
    ASSUME IInv, NEW g \in Handles, g < handle_counter
    PROVE  slist # <<>> /\ (g = Head(slist) \/ Precedes(Head(slist), g))
<1>1. /\ slist \in Seq(Handles) /\ Len(slist) \in Nat
      /\ handle_counter \in Nat
  BY RegistryAssumption DEF IInv, TypeOK
<1>2. g \in 0 .. handle_counter - 1
  BY <1>1 DEF Handles
<1>3. PICK j \in 1 .. Len(slist) : slist[j] = g
  BY <1>2 DEF IInv, ListSound
<1>4. slist # <<>> /\ Head(slist) = slist[1] /\ 1 \in 1 .. Len(slist)
  BY <1>1, <1>3
<1>5. 1 < j => Precedes(slist[1], slist[j])
  BY <1>4 DEF IInv, PriorityOrder
<1> QED  BY <1>3, <1>4, <1>5

\* A record the measurement matches has run.
Settled(h) ==
    Outcome(nodes[h].node, mes[w.m]) => \E i \in 1 .. Len(w.ran) : w.ran[i] = h

\* Only matching records have run.  Of those that were registered when the walk
\* began, the ones that are neither settled nor were found disabled are still
\* ahead, and the walk's next record is the first of those ahead.
Offered ==
    /\ \A i \in 1 .. Len(w.ran) : Outcome(nodes[w.ran[i]].node, mes[w.m])
    /\ \A h \in w.due : h \in Handles /\ h < handle_counter
    /\ w.pc \in Visiting =>
          /\ \A h \in w.due :
                Precedes(w.cur, h) =>
                    w.tmp # NONE /\ (h = w.tmp \/ Precedes(w.tmp, h))
          /\ \A h \in w.due \ w.skipped :
                \/ Settled(h)
                \/ w.pc = "visit" /\ h = w.cur
                \/ Precedes(w.cur, h)
    /\ w.pc = "finish" => \A h \in w.due \ w.skipped : Settled(h)

OfferedInv == CacheInv /\ (Vetoes = {} /\ w.epoch = epoch => Offered)

LEMMA OfferedInit == ManagerInit => OfferedInv
<1> SUFFICES ASSUME ManagerInit PROVE OfferedInv
  OBVIOUS
<1>1. w.pc = "idle" /\ w.due = {} /\ w.ran = <<>>
  BY DEF ManagerInit, Idle
<1> QED  BY <1>1, CacheInit DEF OfferedInv, Offered, Visiting

\* Places where no record is being offered anything.
LEMMA OfferedOutside ==
    ASSUME w'.ran = <<>>, w'.pc \notin Visiting \cup {"finish"},
           \A h \in w'.due : h \in Handles /\ h < handle_counter'
    PROVE  Offered'
BY DEF Offered

\* The step to the record that was next, when nothing is left at this one.
LEMMA OfferedAdvances ==
    ASSUME OfferedInv, CacheInv', UNCHANGED <<nodes, handle_counter, mes>>,
           Vetoes = {}, w.epoch = epoch,
           w.pc \in Visiting, w'.m = w.m, w'.ran = w.ran, w'.due = w.due,
           w'.cur = w.tmp, w'.tmp = Following(w.tmp),
           w'.pc = IF w.tmp = NONE THEN "finish" ELSE "visit",
           \A h \in w'.due \ w'.skipped : Settled(h) \/ Precedes(w.cur, h)
    PROVE  Offered'
<1>1. Offered /\ IInv
  BY DEF OfferedInv, CacheInv, WalkInv, LockInv
<1>2. \A g, h : Precedes(g, h)' <=> Precedes(g, h)
  BY DEF Precedes
<1>3. \A h : Settled(h)' <=> Settled(h)
  BY DEF Settled, Outcome
<1>4. \A h \in w.due :
          Precedes(w.cur, h) => w.tmp # NONE /\ (h = w.tmp \/ Precedes(w.tmp, h))
  BY <1>1 DEF Offered
<1>5. /\ \A i \in 1 .. Len(w'.ran) : Outcome(nodes'[w'.ran[i]].node, mes'[w'.m])
      /\ \A h \in w'.due : h \in Handles /\ h < handle_counter'
  BY <1>1 DEF Offered, Outcome
<1>6. w.tmp = NONE => \A h \in w'.due \ w'.skipped : Settled(h)'
  BY <1>3, <1>4
<1>7. ASSUME w.tmp # NONE
      PROVE  /\ \A h \in w'.due :
                   Precedes(w.cur, h)' =>
                       /\ w'.tmp # NONE
                       /\ h = w'.tmp \/ Precedes(w.tmp, h)'
             /\ \A h \in w'.due \ w'.skipped :
                   Settled(h)' \/ h = w'.cur \/ Precedes(w.cur, h)'
  <2>1. w.tmp \in Handles /\ w.tmp < handle_counter
    BY <1>7 DEF OfferedInv, CacheInv, WalkInv, WalkTyped, Ranked
  <2>2. ASSUME NEW h \in w.due, Precedes(w.tmp, h)
        PROVE  /\ Following(w.tmp) # NONE
               /\ h = Following(w.tmp) \/ Precedes(Following(w.tmp), h)
    <3>1. h \in Handles /\ h < handle_counter
      BY <1>1 DEF Offered
    <3> QED  BY <1>1, <2>1, <2>2, <3>1, NoneBetween
  <2>3. \A h \in w'.due \ w'.skipped :
            Settled(h)' \/ h = w'.cur \/ Precedes(w.cur, h)'
    <3> SUFFICES ASSUME NEW h \in w'.due \ w'.skipped
                 PROVE  Settled(h)' \/ h = w'.cur \/ Precedes(w.cur, h)'
      OBVIOUS
    <3>1. h \in w.due
      OBVIOUS
    <3>2. Settled(h) \/ h = w.tmp \/ Precedes(w.tmp, h)
      BY <1>4, <3>1
    <3>3. Precedes(w.tmp, h) => Precedes(w.cur, h)'
      BY <1>2
    <3> QED  BY <1>3, <3>2, <3>3
  <2> QED  BY <1>2, <2>2, <2>3
<1> QED  BY <1>5, <1>6, <1>7 DEF Offered, Visiting

\* All that is registered is at the first record or ahead of it.
LEMMA OfferedStarts ==
    ASSUME OfferedInv, CacheInv', StartList
    PROVE  OfferedInv'
<1> DEFINE first == IF slist = <<>> THEN NONE ELSE Head(slist)
<1>0. IInv /\ WorkerShape /\ WalkTyped
  BY DEF OfferedInv, CacheInv, WalkInv, LockInv
<1>1. UNCHANGED <<nodes, handle_counter, slist>> /\ w.pc = "lock"
  BY DEF StartList
<1>2. /\ w'.pc = IF first = NONE THEN "finish" ELSE "visit"
      /\ w'.cur = first /\ w'.tmp = Following(first)
      /\ w'.ran = w.ran /\ w'.due = 0 .. handle_counter - 1
  BY <1>0 DEF StartList, Advance, WorkerShape, Shaped, Fields
<1>3. w'.ran = <<>>
  BY <1>0, <1>1, <1>2 DEF WalkTyped
<1>4. handle_counter \in Nat /\ handle_counter <= NODE_LIMIT
  BY <1>0 DEF IInv, TypeOK
<1>5. \A h \in w'.due : h \in Handles /\ h < handle_counter
  BY <1>2, <1>4, RegistryAssumption DEF Handles
<1>6. \A g, h : Precedes(g, h)' <=> Precedes(g, h)
  BY <1>1 DEF Precedes
<1>7. \A h \in w'.due : first # NONE /\ (h = first \/ Precedes(first, h))
  <2> SUFFICES ASSUME NEW h \in w'.due
               PROVE  first # NONE /\ (h = first \/ Precedes(first, h))
    OBVIOUS
  <2>1. slist # <<>> /\ (h = Head(slist) \/ Precedes(Head(slist), h))
    BY <1>0, <1>5, NoneBefore
  <2>2. Head(slist) # NONE
    <3>1. Head(slist) \in Handles
      BY <1>0, <2>1 DEF IInv, TypeOK
    <3> QED  BY <3>1, RegistryAssumption DEF Handles, NONE
  <2> QED  BY <2>1, <2>2
<1>8. ASSUME NEW h \in w'.due, first # NONE, Precedes(first, h)
      PROVE  /\ Following(first) # NONE
             /\ h = Following(first) \/ Precedes(Following(first), h)
  <2>1. first \in Handles /\ first < handle_counter
    <3>1. slist # <<>> /\ first = Head(slist) /\ slist \in Seq(Handles)
      BY <1>0, <1>8 DEF IInv, TypeOK
    <3>2. 1 \in 1 .. Len(slist) /\ first = slist[1] /\ slist[1] \in Handles
      BY <3>1
    <3> QED  BY <1>0, <3>2 DEF IInv, ListSound
  <2> HIDE DEF first
  <2> QED  BY <1>0, <1>5, <1>8, <2>1, NoneBetween
<1> HIDE DEF first
<1>9. Offered'
  BY <1>1, <1>2, <1>3, <1>5, <1>6, <1>7, <1>8 DEF Offered, Visiting
<1> QED  BY <1>9 DEF OfferedInv

\* A disabled record is noted and passed.
LEMMA OfferedPasses ==
    ASSUME OfferedInv, CacheInv', PassOver
    PROVE  OfferedInv'
<1>0. WorkerShape /\ w.pc = "visit"
  BY DEF OfferedInv, CacheInv, WalkInv, LockInv, PassOver
<1>1. /\ w'.m = w.m /\ w'.ran = w.ran /\ w'.due = w.due
      /\ w'.cur = w.tmp /\ w'.tmp = Following(w.tmp)
      /\ w'.pc = IF w.tmp = NONE THEN "finish" ELSE "visit"
      /\ w'.skipped = w.skipped \cup {w.cur} /\ w'.epoch = w.epoch
  BY <1>0 DEF PassOver, Advance, WorkerShape, Shaped, Fields
<1>2. UNCHANGED <<nodes, handle_counter, mes, epoch>>
  BY DEF PassOver, registry, flow
<1>3. ASSUME Vetoes = {}, w.epoch = epoch PROVE Offered'
  <2>1. \A h \in w'.due \ w'.skipped : Settled(h) \/ Precedes(w.cur, h)
    BY <1>0, <1>1, <1>3 DEF OfferedInv, Offered, Visiting
  <2> QED  BY <1>0, <1>1, <1>2, <1>3, <2>1, OfferedAdvances DEF Visiting
<1> QED  BY <1>1, <1>2, <1>3 DEF OfferedInv

\* The record is done with: on to the next.
LEMMA OfferedRelocks ==
    ASSUME OfferedInv, CacheInv', Relock
    PROVE  OfferedInv'
<1>0. WorkerShape /\ w.pc = "relock"
  BY DEF OfferedInv, CacheInv, WalkInv, LockInv, Relock
<1>1. /\ w'.m = w.m /\ w'.ran = w.ran /\ w'.due = w.due
      /\ w'.cur = w.tmp /\ w'.tmp = Following(w.tmp)
      /\ w'.pc = IF w.tmp = NONE THEN "finish" ELSE "visit"
      /\ w'.skipped = w.skipped /\ w'.epoch = w.epoch
  BY <1>0 DEF Relock, Advance, WorkerShape, Shaped, Fields
<1>2. UNCHANGED <<nodes, handle_counter, mes, epoch>>
  BY DEF Relock, flow
<1>3. ASSUME Vetoes = {}, w.epoch = epoch PROVE Offered'
  <2>1. \A h \in w'.due \ w'.skipped : Settled(h) \/ Precedes(w.cur, h)
    BY <1>0, <1>1, <1>3 DEF OfferedInv, Offered, Visiting
  <2> QED  BY <1>0, <1>1, <1>2, <1>3, <2>1, OfferedAdvances DEF Visiting
<1> QED  BY <1>1, <1>2, <1>3 DEF OfferedInv

\* The record runs when it matches, and either way it is settled.
LEMMA OfferedEvaluated ==
    ASSUME OfferedInv, CacheInv', w.pc = "visit", NEW n, NEW match \in BOOLEAN,
           Evaluated(n, match),
           Vetoes = {} /\ w.epoch = epoch =>
               match = Outcome(nodes[w.cur].node, mes[w.m])
    PROVE  OfferedInv'
<1>0. WorkerShape /\ w.ran \in Seq(Handles) /\ w.cur \in Handles
  BY DEF OfferedInv, CacheInv, WalkInv, LockInv, WalkTyped, Visiting
<1>1. UNCHANGED <<nodes, handle_counter, mes, epoch>>
  BY DEF Evaluated, flow
<1>2. /\ w'.m = w.m /\ w'.due = w.due /\ w'.skipped = w.skipped
      /\ w'.cur = w.cur /\ w'.tmp = w.tmp /\ w'.epoch = w.epoch
      /\ match => w'.pc = "chain" /\ w'.ran = Append(w.ran, w.cur)
      /\ ~match => w'.pc = "relock" /\ w'.ran = w.ran
  BY <1>0 DEF Evaluated, WorkerShape, Shaped, Fields
<1>3. \A g, h : Precedes(g, h)' <=> Precedes(g, h)
  BY <1>1 DEF Precedes
<1>4. ASSUME Vetoes = {}, w.epoch = epoch PROVE Offered'
  <2>1. Offered /\ match = Outcome(nodes[w.cur].node, mes[w.m])
    BY <1>4 DEF OfferedInv
  <2>2. /\ \A i \in 1 .. Len(w'.ran) :
              (\E j \in 1 .. Len(w.ran) : w'.ran[i] = w.ran[j])
                  \/ (match /\ w'.ran[i] = w.cur)
        /\ \A j \in 1 .. Len(w.ran) :
              \E i \in 1 .. Len(w'.ran) : w'.ran[i] = w.ran[j]
        /\ match => \E i \in 1 .. Len(w'.ran) : w'.ran[i] = w.cur
    <3>1. CASE ~match
      BY <1>2, <3>1
    <3>2. CASE match
      <4>1. /\ Len(w.ran) \in Nat /\ Len(w'.ran) = Len(w.ran) + 1
            /\ w'.ran[Len(w.ran) + 1] = w.cur
            /\ \A i \in 1 .. Len(w.ran) : w'.ran[i] = w.ran[i]
        BY <1>0, <1>2, <3>2, AppendProperties
      <4>2. /\ \A i \in 1 .. Len(w'.ran) :
                  i \in 1 .. Len(w.ran) \/ i = Len(w.ran) + 1
            /\ \A j \in 1 .. Len(w.ran) : j \in 1 .. Len(w'.ran)
            /\ Len(w.ran) + 1 \in 1 .. Len(w'.ran)
        BY <4>1
      <4> QED  BY <3>2, <4>1, <4>2
    <3> QED  BY <3>1, <3>2
  <2>3. \A i \in 1 .. Len(w'.ran) : Outcome(nodes[w'.ran[i]].node, mes[w.m])
    BY <2>1, <2>2 DEF Offered
  <2>4. \A h : Settled(h) => Settled(h)'
    BY <1>1, <1>2, <2>2 DEF Settled, Outcome
  <2>5. Settled(w.cur)'
    BY <1>1, <1>2, <2>1, <2>2 DEF Settled, Outcome
  <2>6. \A h \in w'.due \ w'.skipped : Settled(h)' \/ Precedes(w.cur, h)
    <3>1. \A h \in w'.due \ w'.skipped :
              Settled(h) \/ h = w.cur \/ Precedes(w.cur, h)
      BY <1>2, <2>1 DEF Offered, Visiting
    <3>2. \A h : h = w.cur => Settled(h)'
      BY <1>2, <2>5 DEF Settled
    <3> QED  BY <2>4, <3>1, <3>2
  <2>7. w'.pc \in {"chain", "relock"}
    BY <1>2
  <2> QED  BY <1>1, <1>2, <1>3, <2>1, <2>3, <2>6, <2>7
           DEF Offered, Visiting, Outcome
<1> QED  BY <1>1, <1>2, <1>4 DEF OfferedInv

\* Nothing the walk depends on changes.
LEMMA OfferedStays ==
    ASSUME OfferedInv, CacheInv',
           UNCHANGED <<nodes, handle_counter, epoch>>, mes'[w.m] = mes[w.m],
           w'.m = w.m, w'.due = w.due, w'.skipped = w.skipped,
           w'.cur = w.cur, w'.tmp = w.tmp, w'.ran = w.ran, w'.epoch = w.epoch,
           \/ w'.pc = w.pc
           \/ w.pc \in Visiting \ {"visit"} /\ w'.pc \in Visiting \ {"visit"}
           \/ w'.pc = "fault"
    PROVE  OfferedInv'
<1>1. \A g, h : Precedes(g, h)' <=> Precedes(g, h)
  BY DEF Precedes
<1>2. \A h : Settled(h)' <=> Settled(h)
  BY DEF Settled, Outcome
<1>3. ASSUME Offered PROVE Offered'
  BY <1>1, <1>2, <1>3 DEF Offered, Visiting, Outcome
<1> QED  BY <1>3 DEF OfferedInv

\* Calls of the registry add records behind those that were there, or clear it.
LEMMA OfferedUnderCalls ==
    ASSUME OfferedInv, CacheInv', Next, UNCHANGED <<w, mes>>
    PROVE  OfferedInv'
<1>1. IInv /\ IInv' /\ WalkTyped
  BY DEF OfferedInv, CacheInv, WalkInv, LockInv
<1>2. epoch \in Nat /\ w.epoch \in Nat /\ w.epoch <= epoch
  BY <1>1 DEF IInv, TypeOK, WalkTyped
<1>3. epoch' \in {epoch, epoch + 1}
  BY <1>1, RegistryGrows
<1>4. ASSUME Vetoes = {}, w.epoch = epoch' PROVE Offered'
  <2>1. epoch' = epoch /\ w.epoch = epoch
    BY <1>2, <1>3, <1>4
  <2>2. Offered /\ Ranked
    BY <1>4, <2>1 DEF OfferedInv, CacheInv, WalkInv
  <2>3. /\ handle_counter <= handle_counter'
        /\ \A h \in 0 .. handle_counter - 1 :
              /\ nodes'[h].priority = nodes[h].priority
              /\ nodes'[h].node = nodes[h].node
    BY <1>1, <2>1, RegistryGrows, NextStable DEF RegistrationKept
  <2>4. handle_counter \in Nat /\ handle_counter' \in Nat
    BY <1>1, RegistryAssumption DEF IInv, TypeOK
  <2>5. \A h \in Handles : h < handle_counter =>
            /\ h < handle_counter'
            /\ nodes'[h].priority = nodes[h].priority
            /\ nodes'[h].node = nodes[h].node
    BY <2>3, <2>4 DEF Handles
  <2>6. \A g, h \in Handles :
            g < handle_counter /\ h < handle_counter
                => (Precedes(g, h)' <=> Precedes(g, h))
    BY <2>5 DEF Precedes
  <2>7. \A h \in Handles : h < handle_counter => (Settled(h)' <=> Settled(h))
    BY <2>5 DEF Settled, Outcome
  <2>8. /\ \A i \in 1 .. Len(w.ran) :
              w.ran[i] \in Handles /\ w.ran[i] < handle_counter
        /\ w.pc \in Visiting => w.cur \in Handles /\ w.cur < handle_counter
        /\ w.pc \in Visiting /\ w.tmp # NONE =>
              w.tmp \in Handles /\ w.tmp < handle_counter
        /\ \A h \in w.due : h \in Handles /\ h < handle_counter
    BY <1>1, <2>2 DEF WalkTyped, Ranked, Offered
  <2>9. \A i \in 1 .. Len(w.ran) : Outcome(nodes'[w.ran[i]].node, mes[w.m])
    BY <2>2, <2>5, <2>8 DEF Offered, Outcome
  <2>10. \A h \in w.due : h \in Handles /\ h < handle_counter'
    BY <2>5, <2>8
  <2>11. w.pc = "finish" => \A h \in w.due \ w.skipped : Settled(h)'
    BY <2>2, <2>7, <2>8 DEF Offered
  <2>12. ASSUME w.pc \in Visiting, NEW h \in w.due
         PROVE  /\ Precedes(w.cur, h)' =>
                       w.tmp # NONE /\ (h = w.tmp \/ Precedes(w.tmp, h)')
                /\ h \notin w.skipped =>
                       \/ Settled(h)'
                       \/ w.pc = "visit" /\ h = w.cur
                       \/ Precedes(w.cur, h)'
    <3>1. h \in Handles /\ h < handle_counter
      BY <2>8
    <3>2. Precedes(w.cur, h)' <=> Precedes(w.cur, h)
      BY <2>6, <2>8, <2>12, <3>1
    <3>3. w.tmp # NONE => (Precedes(w.tmp, h)' <=> Precedes(w.tmp, h))
      BY <2>6, <2>8, <2>12, <3>1
    <3>4. Settled(h)' <=> Settled(h)
      BY <2>7, <3>1
    <3> QED  BY <2>2, <2>12, <3>2, <3>3, <3>4 DEF Offered
  <2> QED  BY <2>9, <2>10, <2>11, <2>12 DEF Offered, Outcome
<1> QED  BY <1>4 DEF OfferedInv

\* What the cache knows of a record is what its filters decide.
LEMMA OfferedCached ==
    ASSUME OfferedInv, CacheInv', EvaluateCached
    PROVE  OfferedInv'
<1> DEFINE n == nodes[w.cur].node
           x == mes[w.m]
           key == <<x.bits, nodes[w.cur].handle>>
<1>1. w.pc = "visit" /\ cache[key] # NULL /\ Evaluated(n, cache[key])
  BY DEF EvaluateCached
<1>2. /\ CacheInv /\ w.cur \in Handles /\ x.bits \in Bits
      /\ cache[key] \in BOOLEAN /\ nodes[w.cur].handle \in Handles
  <2>1. nodes[w.cur].handle \in Handles
    BY <1>1, CachedIsBoolean, HandlesAreSlots
       DEF OfferedInv, CacheInv, WalkInv, LockInv, IInv, TypeOK, NodeRecord
  <2> QED  BY <1>1, <2>1, CachedIsBoolean DEF OfferedInv
<1>3. ASSUME Vetoes = {}, w.epoch = epoch PROVE cache[key] = Outcome(n, x)
  <2>1. /\ nodes[w.cur].handle < handle_counter
        /\ cache[key] = (<<nodes[nodes[w.cur].handle].node, x.bits>> \in Accepts)
    BY <1>1, <1>2, <1>3 DEF CacheInv, CacheSound
  <2>2. nodes[w.cur].handle = w.cur
    <3>1. w.cur < handle_counter
      BY <1>1, <1>2, <1>3 DEF CacheInv, WalkInv, Ranked, Visiting
    <3>2. w.cur \in 0 .. handle_counter - 1
      BY <1>2, <3>1, RegistryAssumption
         DEF CacheInv, WalkInv, LockInv, IInv, TypeOK, Handles
    <3> QED  BY <1>2, <3>2 DEF CacheInv, WalkInv, LockInv, IInv, ListSound
  <2>3. cache[key] = (<<n, x.bits>> \in Accepts)
    BY <2>1, <2>2
  <2>4. CASE <<n, x.bits>> \in Accepts
    <3>1. cache[key] = TRUE /\ Outcome(n, x) = TRUE
      BY <1>3, <2>3, <2>4 DEF Outcome
    <3> QED  BY <3>1
  <2>5. CASE <<n, x.bits>> \notin Accepts
    <3>1. (<<n, x.bits>> \in Accepts) = FALSE
      BY <2>5
    <3>2. cache[key] = FALSE
      BY <2>3, <3>1
    <3>3. Outcome(n, x) = FALSE
      BY <2>5 DEF Outcome
    <3> QED  BY <3>2, <3>3
  <2> QED  BY <2>4, <2>5
<1> QED  BY <1>1, <1>2, <1>3, OfferedEvaluated

LEMMA OfferedNext == OfferedInv /\ [ManagerNext]_vars => OfferedInv'
<1> SUFFICES ASSUME OfferedInv, [ManagerNext]_vars PROVE OfferedInv'
  OBVIOUS
<1>0. CacheInv /\ CacheInv' /\ WorkerShape /\ WalkTyped /\ OwnTypes
  BY CacheNext DEF OfferedInv, CacheInv, WalkInv, LockInv, OwnInv
<1>1. ASSUME UNCHANGED <<registry, w>>,
             w.m \in Meas => mes'[w.m] = mes[w.m]
      PROVE  OfferedInv'
  <2>1. UNCHANGED <<nodes, handle_counter, epoch>>
    BY <1>1 DEF registry
  <2>2. CASE w.m \in Meas
    BY <1>0, <1>1, <2>1, <2>2, OfferedStays
  <2>3. CASE w.m = NULL
    <3>1. w.pc = "idle" /\ w.ran = <<>>
      BY <1>0, <2>3 DEF OwnTypes, WalkTyped
    <3>2. Vetoes = {} /\ w.epoch = epoch => Offered'
      BY <1>1, <2>1, <3>1, OfferedOutside DEF OfferedInv, Offered, Visiting
    <3> QED  BY <1>0, <1>1, <2>1, <3>2 DEF OfferedInv
  <2> QED  BY <1>0, <2>2, <2>3 DEF OwnTypes
<1>2. ASSUME UNCHANGED <<nodes, handle_counter, epoch, mes>>,
             w'.m = w.m, w'.due = w.due, w'.skipped = w.skipped,
             w'.cur = w.cur, w'.tmp = w.tmp, w'.ran = w.ran, w'.epoch = w.epoch,
             \/ w.pc \in Visiting \ {"visit"} /\ w'.pc \in Visiting \ {"visit"}
             \/ w'.pc = "fault"
      PROVE  OfferedInv'
  BY <1>0, <1>2, OfferedStays
<1>3. CASE Evaluate
  <2> DEFINE match == Outcome(nodes[w.cur].node, mes[w.m])
  <2>1. w.pc = "visit" /\ Evaluated(nodes[w.cur].node, match)
    BY <1>3 DEF Evaluate
  <2>2. match \in BOOLEAN
    BY DEF Outcome
  <2>3. match = Outcome(nodes[w.cur].node, mes[w.m])
    OBVIOUS
  <2> HIDE DEF match
  <2> QED  BY <1>0, <2>1, <2>2, <2>3, OfferedEvaluated
<1>4. ASSUME w' = [w EXCEPT !.pc = "fault"],
             UNCHANGED <<nodes, handle_counter, epoch, mes>>
      PROVE  OfferedInv'
  BY <1>0, <1>2, <1>4 DEF WorkerShape, Shaped, Fields
<1>5. ASSUME w.pc = "chain", w' = AfterStage(w),
             UNCHANGED <<nodes, handle_counter, epoch, mes>>
      PROVE  OfferedInv'
  <2>1. /\ w'.m = w.m /\ w'.due = w.due /\ w'.skipped = w.skipped
        /\ w'.cur = w.cur /\ w'.tmp = w.tmp /\ w'.ran = w.ran
        /\ w'.epoch = w.epoch /\ w'.pc \in {"chain", "chain_end"}
    <3> USE DEF AfterStage, WorkerShape, Shaped, Fields
    <3>1. CASE w.stage = "start"
      BY <1>0, <1>5, <3>1
    <3>2. CASE w.stage = "exec"
      BY <1>0, <1>5, <3>2
    <3>3. CASE w.stage = "stop"
      BY <1>0, <1>5, <3>3
    <3> QED  BY <1>0, <3>1, <3>2, <3>3 DEF Stages
  <2> QED  BY <1>2, <1>5, <2>1 DEF Visiting
<1>6. ASSUME NEW r \in {OK, EFAIL}, CallHandler(r) PROVE OfferedInv'
  <2>1. w.pc = "chain" /\ UNCHANGED <<nodes, handle_counter, epoch, mes>>
    BY <1>6 DEF CallHandler, registry, flow
  <2> QED  BY <1>4, <1>5, <1>6, <2>1 DEF CallHandler
<1>7. CASE EvaluateNull \/ SkipHandler
  <2>1. UNCHANGED <<nodes, handle_counter, epoch, mes>>
    BY <1>7 DEF EvaluateNull, SkipHandler, registry, flow
  <2> QED  BY <1>4, <1>5, <1>7, <2>1 DEF EvaluateNull, SkipHandler
<1>8. CASE StartSubscribers \/ CallSubscriber
  <2>1. UNCHANGED <<nodes, handle_counter, epoch, mes>>
    BY <1>8 DEF StartSubscribers, CallSubscriber, registry, flow
  <2>2. /\ w'.m = w.m /\ w'.due = w.due /\ w'.skipped = w.skipped
        /\ w'.cur = w.cur /\ w'.tmp = w.tmp /\ w'.ran = w.ran
        /\ w'.epoch = w.epoch /\ w'.pc \in {"subs", "relock"}
        /\ w.pc \in {"chain_end", "subs"}
    <3> USE DEF WorkerShape, Shaped, Fields
    <3>1. CASE StartSubscribers
      <4> DEFINE subs == nodes[w.cur].subs
                 first == IF subs = <<>> THEN 0 ELSE Head(subs)
      <4>1. /\ w.pc = "chain_end"
            /\ w' = [w EXCEPT !.pc = IF first = 0 THEN "relock" ELSE "subs",
                              !.sub = first, !.subtmp = NextSub(first),
                              !.subs = subs, !.called = <<>>]
        BY <3>1 DEF StartSubscribers
      <4> HIDE DEF first, subs
      <4> QED  BY <1>0, <4>1
    <3>2. CASE CallSubscriber
      BY <1>0, <3>2 DEF CallSubscriber
    <3> QED  BY <1>8, <3>1, <3>2
  <2> QED  BY <1>2, <2>1, <2>2 DEF Visiting
<1>9. CASE TakeWork
  <2>1. /\ w'.ran = w.ran /\ w'.due = w.due /\ w'.epoch = w.epoch
        /\ w.pc = "idle" /\ w'.pc = "lock"
        /\ UNCHANGED <<nodes, handle_counter, epoch>>
    BY <1>0, <1>9 DEF TakeWork, WorkerShape, Shaped, Fields, registry
  <2>2. w'.ran = <<>>
    BY <1>0, <2>1 DEF WalkTyped
  <2>3. Vetoes = {} /\ w.epoch = epoch => Offered'
    BY <2>1, <2>2, OfferedOutside DEF OfferedInv, Offered, Visiting
  <2> QED  BY <1>0, <2>1, <2>3 DEF OfferedInv
<1>10. CASE Finish
  <2>1. w'.pc = "idle" /\ w'.ran = <<>> /\ w'.due = {}
    BY <1>10 DEF Finish, Idle
  <2> QED  BY <1>0, <2>1, OfferedOutside DEF OfferedInv, Visiting
<1>11. CASE ClearAll \/ RegistryCall
  <2>1. Next /\ UNCHANGED <<w, mes>>
    BY <1>11, RegistryCallIsStep DEF flow
  <2> QED  BY <1>0, <2>1, OfferedUnderCalls
<1>12. ASSUME NEW t \in Threads, NEW b \in Bits, NEW p \in Payloads, Alloc(t, b, p)
       PROVE  OfferedInv'
  <2>1. PICK m \in Meas : /\ mes[m] = NULL
                          /\ mes' = [mes EXCEPT ![m] = [bits |-> b, payload |-> p]]
    BY <1>12 DEF Alloc
  <2>2. w.m \in Meas => w.m # m
    BY <2>1 DEF OfferedInv, CacheInv, OwnInv, InUse
  <2>3. w.m \in Meas => mes'[w.m] = mes[w.m]
    BY <1>0, <2>1, <2>2 DEF OwnTypes
  <2>4. UNCHANGED <<registry, w>>
    BY <1>12 DEF Alloc
  <2> QED  BY <1>1, <2>3, <2>4
<1>13. ASSUME NEW t \in Threads, AllocFails(t) \/ Put(t)
       PROVE  OfferedInv'
  BY <1>1, <1>13 DEF AllocFails, Put
<1>14. CASE UNCHANGED vars
  BY <1>1, <1>14 DEF vars, flow
<1> QED  BY <1>0, <1>3, <1>6, <1>7, <1>8, <1>9, <1>10, <1>11, <1>12, <1>13, <1>14,
            OfferedCached, OfferedStarts, OfferedPasses, OfferedRelocks
         DEF ManagerNext, ProcessStep

\* For any number of records, threads and clears: as long as no matched handler
\* turns a measurement down and until a clear intervenes, a measurement is given
\* back only after each node that was registered when its processing began, and
\* that was not found disabled, has run if it matches; and no node runs that does
\* not match, whatever is registered, enabled or disabled meanwhile and
\* whatever the cache answers (proc_mgr.c: step_pm_process, step_pm_evaluate).
THEOREM ManagerMissesNone == ManagerSpec => [](Vetoes = {} => EveryMatchRuns)
<1>1. OfferedInv => (Vetoes = {} => EveryMatchRuns)
  BY DEF OfferedInv, Offered, Settled, EveryMatchRuns
<1> QED  BY <1>1, OfferedInit, OfferedNext, PTL DEF ManagerSpec

=============================================================================
