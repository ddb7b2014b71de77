------------------------- MODULE FilterEngineProofs -------------------------
(***************************************************************************)
(* What a filter chain means, for chains of every length, every word of    *)
(* filter bits and every measurement: what a chain of one operand stands   *)
(* for, that errors never match, and that bits which all filters ignore do *)
(* not count.  The loop invariant says of the filters evaluated so far     *)
(* what the property says of all.                                          *)
(***************************************************************************)
EXTENDS FilterEngine, FiniteSetTheorems, TLAPS

\* The first k filters of a chain have these operands.
OpsSoFar(c, k, first, rest) ==
    /\ c[1].op = first
    /\ \A j \in 2 .. k : c[j].op = rest

\* Those of the first k filters that the word has the bits for, and whether
\* there is an odd number of them.
HitsIn(c, word, k) == {j \in 1 .. k : Equal(c[j], word)}
Odd(c, word, k) == Cardinality(HitsIn(c, word, k)) % 2 = 1

\* What the result p of the first k filters of a chain says of them.
Means(p, c, word, k) ==
    /\ OpsSoFar(c, k, "IS", "AND") =>
          (p <=> \A j \in 1 .. k : Equal(c[j], word))
    /\ OpsSoFar(c, k, "IS", "OR") =>
          (p <=> \E j \in 1 .. k : Equal(c[j], word))
    /\ OpsSoFar(c, k, "NOT", "AND_NOT") =>
          (p <=> \A j \in 1 .. k : ~Equal(c[j], word))
    /\ OpsSoFar(c, k, "IS", "XOR") => (p <=> Odd(c, word, k))

Looping == NotEmpty /\ fc.chain # NULL /\ fc.chain[1].op \in {"IS", "NOT"}

LoopInv ==
    /\ pc = "enter" => i = 0 /\ rc = 0
    /\ pc = "check" => i = 0 /\ rc = 0 /\ match = FALSE
    /\ pc = "loop" => Looping /\ rc = 0 /\ match = FALSE
    /\ pc = "loop" /\ i > 0 => Means(prev, fc.chain, mes.bits, i)
    /\ pc = "done" /\ NotEmpty /\ rc = 0 =>
          Looping /\ Means(match, fc.chain, mes.bits, fc.count)
    /\ pc = "done" /\ rc # 0 => match = FALSE
    /\ pc = "done" /\ NotEmpty /\ fc.chain # NULL /\ rc # 0 =>
          fc.chain[1].op \notin {"IS", "NOT"}

IInv == TypeOK /\ LoopInv

LEMMA InitEstablishes == Init => IInv
  <1> SUFFICES ASSUME Init PROVE IInv
    OBVIOUS
  <1>1. fc \in {NULL} \cup [chain : {NULL} \cup Seq(Filter), count : Nat]
    <2>1. CASE fc = NULL
      BY <2>1
    <2>2. CASE \E n \in 0 .. MaxLen : fc = [chain |-> NULL, count |-> n]
      BY <2>2, FilterEngineAssumption
    <2>3. CASE \E c \in Chains : fc = [chain |-> c, count |-> Len(c)]
      <3>1. PICK c \in Chains : fc = [chain |-> c, count |-> Len(c)]
        BY <2>3
      <3>2. PICK n \in 0 .. MaxLen : c \in [1 .. n -> Filters]
        BY <3>1 DEF Chains
      <3>3. c \in Seq(Filter) /\ Len(c) \in Nat
        BY <3>2, FilterEngineAssumption
      <3> QED
        BY <3>1, <3>3
    <2> QED
      BY <2>1, <2>2, <2>3 DEF Init
  <1>2. fc # NULL => i \in 0 .. fc.count
                     /\ (fc.chain # NULL => Len(fc.chain) = fc.count)
    BY <1>1 DEF Init
  <1>3. TypeOK
    BY <1>1, <1>2 DEF Init, TypeOK
  <1>4. LoopInv
    BY DEF Init, LoopInv
  <1> QED
    BY <1>3, <1>4 DEF IInv

\* Operands applied to truth values.
LEMMA ApplyIs ==
    ASSUME NEW p \in BOOLEAN, NEW e \in BOOLEAN
    PROVE  /\ \A op \in Ops : Apply(op, p, e) \in BOOLEAN
           /\ Apply("IS", p, e) <=> e
           /\ Apply("NOT", p, e) <=> ~e
           /\ Apply("AND", p, e) <=> (p /\ e)
           /\ Apply("AND_NOT", p, e) <=> (p /\ ~e)
           /\ Apply("OR", p, e) <=> (p \/ e)
           /\ Apply("XOR", p, e) <=> ~(p <=> e)
  BY DEF Apply, Ops

LEMMA EqualType == \A f, word : Equal(f, word) \in BOOLEAN
  BY DEF Equal

\* Counting the hits one filter after the other.
LEMMA OddSteps ==
    ASSUME NEW c, NEW word
    PROVE  /\ Odd(c, word, 1) <=> Equal(c[1], word)
           /\ \A k \in Nat : Odd(c, word, k + 1) <=>
                                ~(Odd(c, word, k) <=> Equal(c[k + 1], word))
  <1>1. \A k \in Nat : /\ IsFiniteSet(HitsIn(c, word, k))
                       /\ Cardinality(HitsIn(c, word, k)) \in Nat
    <2>1. ASSUME NEW k \in Nat PROVE IsFiniteSet(HitsIn(c, word, k))
      <3>1. IsFiniteSet(1 .. k)
        BY FS_Interval
      <3>2. HitsIn(c, word, k) \in SUBSET (1 .. k)
        BY DEF HitsIn
      <3> QED
        BY <3>1, <3>2, FS_Subset
    <2> QED
      BY <2>1, FS_CardinalityType
  <1>2. ASSUME NEW k \in Nat
        PROVE  Cardinality(HitsIn(c, word, k + 1)) =
                   IF Equal(c[k + 1], word)
                   THEN Cardinality(HitsIn(c, word, k)) + 1
                   ELSE Cardinality(HitsIn(c, word, k))
    <2>1. CASE Equal(c[k + 1], word)
      <3>1. HitsIn(c, word, k + 1) = HitsIn(c, word, k) \cup {k + 1}
        BY <2>1 DEF HitsIn
      <3>2. k + 1 \notin HitsIn(c, word, k)
        BY DEF HitsIn
      <3> QED
        BY <1>1, <2>1, <3>1, <3>2, FS_AddElement
    <2>2. CASE ~Equal(c[k + 1], word)
      <3>1. HitsIn(c, word, k + 1) = HitsIn(c, word, k)
        BY <2>2 DEF HitsIn
      <3> QED
        BY <2>2, <3>1
    <2> QED
      BY <2>1, <2>2
  <1>3. ASSUME NEW k \in Nat
        PROVE  Odd(c, word, k + 1) <=>
                   ~(Odd(c, word, k) <=> Equal(c[k + 1], word))
    <2> DEFINE m == Cardinality(HitsIn(c, word, k))
               n == Cardinality(HitsIn(c, word, k + 1))
    <2>1. m \in Nat
      BY <1>1
    <2>2. n = IF Equal(c[k + 1], word) THEN m + 1 ELSE m
      BY <1>2
    <2> HIDE DEF m, n
    <2>3. (m + 1) % 2 = 1 <=> m % 2 # 1
      BY <2>1
    <2>4. n % 2 = 1 <=> ~(m % 2 = 1 <=> Equal(c[k + 1], word))
      <3>1. CASE Equal(c[k + 1], word)
        BY <2>2, <2>3, <3>1
      <3>2. CASE ~Equal(c[k + 1], word)
        BY <2>2, <3>2
      <3> QED
        BY <3>1, <3>2
    <2> QED
      BY <2>4, Zenon DEF Odd, m, n
  <1>4. ~Odd(c, word, 0)
    <2>1. HitsIn(c, word, 0) = {}
      BY DEF HitsIn
    <2> QED
      BY <2>1, FS_EmptySet DEF Odd
  <1>5. Odd(c, word, 0 + 1) <=> ~(Odd(c, word, 0) <=> Equal(c[0 + 1], word))
    BY <1>3
  <1>6. 0 + 1 = 1
    OBVIOUS
  <1>7. Odd(c, word, 1) <=> Equal(c[1], word)
    BY <1>4, <1>5, <1>6
  <1> QED
    BY <1>3, <1>7

\* The result of the first filter, whatever was there before it.
LEMMA FirstFilter ==
    ASSUME NEW c, NEW word, NEW p \in BOOLEAN
    PROVE  Means(Apply(c[1].op, p, Equal(c[1], word)), c, word, 1)
  <1> DEFINE e == Equal(c[1], word)
             q == Apply(c[1].op, p, e)
  <1>1. \A j \in 1 .. 1 : j = 1
    OBVIOUS
  <1>2. 1 \in 1 .. 1
    OBVIOUS
  <1>3. e \in BOOLEAN
    BY EqualType
  <1>4. c[1].op = "IS" => (q <=> e)
    BY <1>3, ApplyIs
  <1>5. c[1].op = "NOT" => (q <=> ~e)
    BY <1>3, ApplyIs
  <1>6. /\ e <=> \A j \in 1 .. 1 : Equal(c[j], word)
        /\ e <=> \E j \in 1 .. 1 : Equal(c[j], word)
        /\ ~e <=> \A j \in 1 .. 1 : ~Equal(c[j], word)
    BY <1>1, <1>2, Zenon
  <1>8. e <=> Odd(c, word, 1)
    BY OddSteps, Zenon
  <1> HIDE DEF e, q
  <1>7. Means(q, c, word, 1)
    BY <1>4, <1>5, <1>6, <1>8, Zenon DEF Means, OpsSoFar
  <1> QED
    BY <1>7 DEF e, q

\* The result of one more filter.
LEMMA NextFilter ==
    ASSUME NEW c, NEW word, NEW k \in Nat \ {0}, NEW p \in BOOLEAN,
           Means(p, c, word, k)
    PROVE  Means(Apply(c[k + 1].op, p, Equal(c[k + 1], word)), c, word, k + 1)
  <1> DEFINE e == Equal(c[k + 1], word)
             q == Apply(c[k + 1].op, p, e)
             T(j) == Equal(c[j], word)
  <1>1. e \in BOOLEAN
    BY EqualType
  <1>2. /\ c[k + 1].op = "AND" => (q <=> p /\ e)
        /\ c[k + 1].op = "OR" => (q <=> p \/ e)
        /\ c[k + 1].op = "AND_NOT" => (q <=> p /\ ~e)
        /\ c[k + 1].op = "XOR" => (q <=> ~(p <=> e))
    BY <1>1, ApplyIs
  <1>3. 1 .. k + 1 = (1 .. k) \cup {k + 1} /\ 2 .. k + 1 = (2 .. k) \cup {k + 1}
    OBVIOUS
  <1>4. ASSUME NEW first, NEW rest, OpsSoFar(c, k + 1, first, rest)
        PROVE  OpsSoFar(c, k, first, rest) /\ c[k + 1].op = rest
    BY <1>3, <1>4 DEF OpsSoFar
  <1>5. /\ (\A j \in 1 .. k + 1 : T(j)) <=> (\A j \in 1 .. k : T(j)) /\ e
        /\ (\E j \in 1 .. k + 1 : T(j)) <=> (\E j \in 1 .. k : T(j)) \/ e
        /\ (\A j \in 1 .. k + 1 : ~T(j)) <=> (\A j \in 1 .. k : ~T(j)) /\ ~e
    <2> HIDE DEF T
    <2>1. e <=> T(k + 1)
      BY DEF T
    <2> HIDE DEF e
    <2> QED
      BY <1>3, <2>1, Zenon
  <1>6. /\ OpsSoFar(c, k, "IS", "AND") => (p <=> \A j \in 1 .. k : T(j))
        /\ OpsSoFar(c, k, "IS", "OR") => (p <=> \E j \in 1 .. k : T(j))
        /\ OpsSoFar(c, k, "NOT", "AND_NOT") => (p <=> \A j \in 1 .. k : ~T(j))
        /\ OpsSoFar(c, k, "IS", "XOR") => (p <=> Odd(c, word, k))
    BY DEF Means
  <1>8. Odd(c, word, k + 1) <=> ~(Odd(c, word, k) <=> e)
    BY OddSteps, Zenon
  <1> HIDE DEF e, q, T
  <1>7. /\ OpsSoFar(c, k + 1, "IS", "AND") =>
              (q <=> \A j \in 1 .. k + 1 : T(j))
        /\ OpsSoFar(c, k + 1, "IS", "OR") =>
              (q <=> \E j \in 1 .. k + 1 : T(j))
        /\ OpsSoFar(c, k + 1, "NOT", "AND_NOT") =>
              (q <=> \A j \in 1 .. k + 1 : ~T(j))
        /\ OpsSoFar(c, k + 1, "IS", "XOR") => (q <=> Odd(c, word, k + 1))
    BY <1>2, <1>4, <1>5, <1>6, <1>8, Zenon
  <1> QED
    BY <1>7 DEF Means, e, q, T

LEMMA EvaluateFilterKeeps ==
    ASSUME IInv, EvaluateFilter
    PROVE  IInv'
  <1> USE DEF IInv
  <1>1. /\ Looping /\ rc = 0 /\ match = FALSE
        /\ i > 0 => Means(prev, fc.chain, mes.bits, i)
    BY DEF EvaluateFilter, LoopInv
  <1>2. /\ UNCHANGED <<fc, mes, match, rc, pc>>
        /\ i' = i + 1 /\ i < fc.count /\ pc = "loop"
        /\ prev' = Apply(fc.chain[i + 1].op, prev, Equal(fc.chain[i + 1], mes.bits))
    BY DEF EvaluateFilter
  <1>3. /\ i \in 0 .. fc.count /\ fc # NULL /\ fc.count \in Nat
        /\ fc.chain \in Seq(Filter) /\ Len(fc.chain) = fc.count
    BY <1>1 DEF Looping, NotEmpty, TypeOK
  <1>4. fc.chain[i + 1].op \in Ops
    <2>1. i + 1 \in 1 .. Len(fc.chain)
      BY <1>2, <1>3
    <2>2. fc.chain[i + 1] \in Filter
      BY <1>3, <2>1
    <2> QED
      BY <2>2 DEF Filter
  <1>5. prev \in BOOLEAN /\ Equal(fc.chain[i + 1], mes.bits) \in BOOLEAN
    BY EqualType DEF TypeOK
  <1>6. prev' \in BOOLEAN
    BY <1>2, <1>4, <1>5, ApplyIs
  <1>7. TypeOK'
    <2>1. {prev, match}' \subseteq BOOLEAN
      BY <1>1, <1>2, <1>6
    <2>2. i' \in 0 .. fc.count
      BY <1>2, <1>3
    <2> QED
      BY <1>2, <1>3, <2>1, <2>2 DEF TypeOK
  <1>8. Means(prev', fc.chain, mes.bits, i + 1)
    <2>1. CASE i = 0
      BY <1>2, <1>5, <2>1, FirstFilter
    <2>2. CASE i # 0
      <3>1. i \in Nat \ {0} /\ i > 0
        BY <1>3, <2>2
      <3>2. Means(prev, fc.chain, mes.bits, i)
        BY <1>1, <3>1
      <3> QED
        BY <1>2, <1>5, <3>1, <3>2, NextFilter, Zenon
    <2> QED
      BY <2>1, <2>2
  <1>9. LoopInv'
    BY <1>1, <1>2, <1>8 DEF LoopInv, Looping, NotEmpty
  <1> QED
    BY <1>7, <1>9

LEMMA OthersKeep ==
    ASSUME IInv,
           \/ Enter \/ NoMeasurement \/ AcceptAll \/ ReadNull \/ BadStart
           \/ StartLoop \/ EndLoop \/ UNCHANGED engine
    PROVE  IInv'
  <1> USE DEF IInv
  <1>1. CASE NoMeasurement
    BY <1>1 DEF NoMeasurement, TypeOK, LoopInv, NotEmpty
  <1>2. CASE AcceptAll
    <2>1. /\ pc = "check" /\ pc' = "done" /\ match' = TRUE
          /\ UNCHANGED <<fc, mes, i, prev, rc>>
      BY <1>2 DEF AcceptAll
    <2>2. rc = 0 /\ (fc # NULL => fc.count = 0)
      BY <1>2 DEF AcceptAll, LoopInv
    <2>3. TypeOK'
      BY <2>1 DEF TypeOK
    <2>4. ~NotEmpty'
      BY <2>1, <2>2 DEF NotEmpty
    <2>5. pc' \notin {"enter", "check", "loop"} /\ rc' = 0
      BY <2>1, <2>2
    <2>6. LoopInv'
      BY <2>4, <2>5 DEF LoopInv
    <2> QED
      BY <2>3, <2>6
  <1>3. CASE ReadNull
    BY <1>3 DEF ReadNull, TypeOK, LoopInv
  <1>4. CASE BadStart
    BY <1>4 DEF BadStart, TypeOK, LoopInv
  <1>5. CASE StartLoop
    BY <1>5 DEF StartLoop, TypeOK, LoopInv, Looping, NotEmpty
  <1>6. CASE EndLoop
    <2>1. Looping /\ rc = 0 /\ fc.count > 0
      BY <1>6 DEF EndLoop, LoopInv, Looping, NotEmpty
    <2>2. /\ UNCHANGED <<fc, mes, i, prev, rc>> /\ match' = prev
          /\ i = fc.count /\ pc' = "done" /\ pc = "loop"
      BY <1>6 DEF EndLoop
    <2>3. Means(prev, fc.chain, mes.bits, fc.count)
      BY <2>1, <2>2 DEF LoopInv
    <2>4. TypeOK'
      BY <2>2 DEF TypeOK
    <2>5. LoopInv'
      BY <2>1, <2>2, <2>3 DEF LoopInv, Looping, NotEmpty
    <2> QED
      BY <2>4, <2>5
  <1>7. CASE UNCHANGED engine
    BY <1>7 DEF engine, TypeOK, LoopInv, Looping, NotEmpty
  <1>8. CASE Enter
    BY <1>8 DEF Enter, TypeOK, LoopInv
  <1> QED
    BY <1>1, <1>2, <1>3, <1>4, <1>5, <1>6, <1>7, <1>8

\* The loop invariant gives the properties.
LEMMA InvImplies ==
    ASSUME IInv
    PROVE  TypeOK /\ Quantified /\ ErrorsDoNotMatch
  <1> USE DEF IInv
  <1>1. ASSUME NEW first, NEW rest, OpsAre(first, rest)
        PROVE  /\ OpsSoFar(fc.chain, fc.count, first, rest)
               /\ Means(match, fc.chain, mes.bits, fc.count)
    BY <1>1 DEF OpsAre, OpsSoFar, LoopInv, NotEmpty
  <1>2. \A j : j \in Hits <=> j \in 1 .. fc.count /\ Equal(fc.chain[j], mes.bits)
    BY DEF Hits
  <1>3. AllOf
    <2>1. Hits = 1 .. fc.count <=>
              \A j \in 1 .. fc.count : Equal(fc.chain[j], mes.bits)
      BY <1>2
    <2> QED
      BY <1>1, <2>1 DEF AllOf, Means
  <1>4. AnyOf
    <2>1. Hits # {} <=> \E j \in 1 .. fc.count : Equal(fc.chain[j], mes.bits)
      BY <1>2
    <2> QED
      BY <1>1, <2>1 DEF AnyOf, Means
  <1>5. NoneOf
    <2>1. Hits = {} <=> \A j \in 1 .. fc.count : ~Equal(fc.chain[j], mes.bits)
      BY <1>2
    <2> QED
      BY <1>1, <2>1 DEF NoneOf, Means
  <1>7. Parity
    <2>1. Hits = HitsIn(fc.chain, mes.bits, fc.count)
      BY DEF Hits, HitsIn
    <2> QED
      BY <1>1, <2>1 DEF Parity, Means, Odd
  <1>6. ErrorsDoNotMatch
    BY DEF ErrorsDoNotMatch, LoopInv, Looping
  <1> QED
    BY <1>3, <1>4, <1>5, <1>6, <1>7 DEF Quantified

-----------------------------------------------------------------------------
(* The bits that do not matter.                                            *)

\* p is the result of the first k filters.
ResultOf(k, p) ==
    \E r \in [0 .. fc.count -> BOOLEAN] :
        /\ r[0] = FALSE
        /\ \A n \in 1 .. k :
               r[n] = Apply(fc.chain[n].op, r[n - 1], Equal(fc.chain[n], mes.bits))
        /\ p = r[k]

RunInv ==
    /\ pc \in {"enter", "check"} => i = 0
    /\ pc = "check" => prev = FALSE
    /\ pc = "loop" => NotEmpty /\ fc.chain # NULL /\ ResultOf(i, prev)
    /\ pc = "done" /\ rc = 0 /\ NotEmpty =>
           fc.chain # NULL /\ ResultOf(fc.count, match)

LEMMA RunKept == TypeOK /\ TypeOK' /\ LoopInv /\ RunInv /\ [Next]_engine => RunInv'
  <1> SUFFICES ASSUME TypeOK, TypeOK', LoopInv, RunInv, [Next]_engine PROVE RunInv'
    OBVIOUS
  <1>1. CASE Enter \/ NoMeasurement \/ AcceptAll \/ ReadNull \/ BadStart
    BY <1>1 DEF Enter, NoMeasurement, AcceptAll, ReadNull, BadStart, RunInv, NotEmpty
  <1>2. CASE StartLoop
    <2>1. /\ i = 0 /\ prev = FALSE /\ pc' = "loop" /\ NotEmpty /\ fc.chain # NULL
          /\ UNCHANGED <<fc, mes, i, prev>>
      BY <1>2 DEF StartLoop, RunInv
    <2>2. ResultOf(0, FALSE)
      <3>1. fc.count \in Nat
        BY <2>1 DEF TypeOK, NotEmpty
      <3> DEFINE r == [n \in 0 .. fc.count |-> FALSE]
      <3>2. r \in [0 .. fc.count -> BOOLEAN] /\ r[0] = FALSE
        BY <3>1
      <3>3. 1 .. 0 = {}
        OBVIOUS
      <3> QED  BY <3>2, <3>3 DEF ResultOf
    <2> QED  BY <2>1, <2>2 DEF RunInv, NotEmpty, ResultOf
  <1>3. CASE EvaluateFilter
    <2>1. /\ UNCHANGED <<fc, mes, pc>> /\ pc = "loop" /\ i' = i + 1 /\ i < fc.count
          /\ prev' = Apply(fc.chain[i + 1].op, prev, Equal(fc.chain[i + 1], mes.bits))
      BY <1>3 DEF EvaluateFilter
    <2>2. NotEmpty /\ fc.chain # NULL /\ ResultOf(i, prev)
      BY <2>1 DEF RunInv
    <2>3. fc.count \in Nat /\ i \in 0 .. fc.count /\ prev' \in BOOLEAN
      BY <2>2 DEF TypeOK, NotEmpty
    <2>4. PICK r \in [0 .. fc.count -> BOOLEAN] :
              /\ r[0] = FALSE
              /\ \A n \in 1 .. i :
                     r[n] = Apply(fc.chain[n].op, r[n - 1], Equal(fc.chain[n], mes.bits))
              /\ prev = r[i]
      BY <2>2 DEF ResultOf
    <2> DEFINE q == [r EXCEPT ![i + 1] = prev']
    <2>5. /\ q \in [0 .. fc.count -> BOOLEAN]
          /\ q[i + 1] = prev'
          /\ \A n \in 0 .. i : q[n] = r[n]
      BY <2>1, <2>3
    <2> HIDE DEF q
    <2>6. q[0] = FALSE
      BY <2>3, <2>4, <2>5
    <2>7. ASSUME NEW n \in 1 .. i + 1
          PROVE  q[n] = Apply(fc.chain[n].op, q[n - 1], Equal(fc.chain[n], mes.bits))
      <3>1. CASE n = i + 1
        <4>1. n - 1 = i /\ q[n - 1] = prev
          BY <2>3, <2>4, <2>5, <3>1
        <4> QED  BY <2>1, <2>5, <3>1, <4>1
      <3>2. CASE n \in 1 .. i
        <4>1. n \in 0 .. i /\ n - 1 \in 0 .. i
          BY <2>3, <3>2
        <4> QED  BY <2>4, <2>5, <3>2, <4>1
      <3> QED  BY <2>3, <3>1, <3>2
    <2>8. ResultOf(i + 1, prev')
      BY <2>5, <2>6, <2>7 DEF ResultOf
    <2> QED  BY <2>1, <2>2, <2>8 DEF RunInv, NotEmpty, ResultOf
  <1>4. CASE EndLoop
    BY <1>4 DEF EndLoop, RunInv, NotEmpty, ResultOf
  <1>5. CASE UNCHANGED engine
    BY <1>5 DEF engine, RunInv, NotEmpty, ResultOf
  <1> QED  BY <1>1, <1>2, <1>3, <1>4, <1>5 DEF Next

LEMMA RunGivesIgnored == TypeOK /\ RunInv => IgnoredBits
  <1> DEFINE common == {b \in Bits : \A j \in 1 .. fc.count : b \in fc.chain[j].ignore}
  <1> SUFFICES ASSUME TypeOK, RunInv,
                      pc = "done", rc = 0, mes # NULL, fc # NULL, fc.count > 0,
                      NEW other \in SUBSET Bits,
                      other \ common = mes.bits \ common
               PROVE  \E r \in Results(other) : match = r[fc.count]
    BY DEF IgnoredBits
  <1>1. ResultOf(fc.count, match)
    BY DEF RunInv, NotEmpty
  <1>2. mes.bits \in SUBSET Bits
    BY DEF TypeOK, Measurement
  <1>3. ASSUME NEW n \in 1 .. fc.count
        PROVE  Equal(fc.chain[n], other) = Equal(fc.chain[n], mes.bits)
    <2>1. \A b \in common : b \in fc.chain[n].ignore
      OBVIOUS
    <2>2. other \ fc.chain[n].ignore = mes.bits \ fc.chain[n].ignore
      <3> HIDE DEF common
      <3> QED  BY <2>1
    <2> QED  BY <2>2 DEF Equal
  <1>4. PICK r \in [0 .. fc.count -> BOOLEAN] :
            /\ r[0] = FALSE
            /\ \A n \in 1 .. fc.count :
                   r[n] = Apply(fc.chain[n].op, r[n - 1], Equal(fc.chain[n], mes.bits))
            /\ match = r[fc.count]
    BY <1>1 DEF ResultOf
  <1>5. r \in Results(other)
    BY <1>3, <1>4 DEF Results
  <1> QED  BY <1>4, <1>5

\* A chain of one operand is a quantifier or a parity, and an error is never a
\* match.
THEOREM FilterMeaning ==
    Spec => [](TypeOK /\ Quantified /\ ErrorsDoNotMatch)
  <1>1. Init => IInv
    BY InitEstablishes
  <1>2. IInv /\ [Next]_engine => IInv'
    BY EvaluateFilterKeeps, OthersKeep DEF Next
  <1>3. IInv => TypeOK /\ Quantified /\ ErrorsDoNotMatch
    BY InvImplies
  <1> QED
    BY <1>1, <1>2, <1>3, PTL DEF Spec

\* For chains of every length: an error is never a match, whatever the caller
\* has left in match, and a chain is an error exactly when its first operand
\* needs a previous result (src/filter.c: step_filt_evaluate).
THEOREM ErrorsNeverMatch == Spec => []ErrorsDoNotMatch
  BY FilterMeaning, PTL

\* For chains of every length and every word of filter bits: bits that all
\* filters of a chain ignore make no difference to its result
\* (step_filt_evaluate_filter takes the mask off both sides).
THEOREM IgnoredBitsDoNotCount == Spec => []IgnoredBits
  <1>1. Init => IInv /\ RunInv
    BY InitEstablishes DEF Init, RunInv
  <1>2. IInv /\ [Next]_engine => IInv'
    BY EvaluateFilterKeeps, OthersKeep DEF Next
  <1>3. IInv /\ IInv' /\ RunInv /\ [Next]_engine => RunInv'
    BY RunKept DEF IInv
  <1>4. IInv /\ RunInv => IgnoredBits
    BY RunGivesIgnored DEF IInv
  <1> QED
    BY <1>1, <1>2, <1>3, <1>4, PTL DEF Spec
=============================================================================
