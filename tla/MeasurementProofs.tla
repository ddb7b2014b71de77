------------------------- MODULE MeasurementProofs --------------------------
(***************************************************************************)
(* The sizes of src/measurement.c are enough for every header there is.    *)
(***************************************************************************)
EXTENDS Measurement, TLAPS

\* What step_mes_sz_ctype returns is the width of the type, and 0 exactly for
\* the types without a fixed width.
LEMMA CtypeWidth ==
    ASSUME NEW c \in Ctypes
    PROVE  /\ CtypeSize(c) = Width(c)
           /\ CtypeSize(c) \in Nat
           /\ CtypeSize(c) = 0 <=> c[1] \in {"UNDEFINED", "USER"}
<1>1. CASE c \in {"S", "U"} \X {8, 16, 32, 64, 128}
    BY <1>1, SMTT(60) DEF CtypeSize, Width
<1>2. CASE c \in {"FLOAT"} \X {32, 64, 128}
    BY <1>2, SMTT(60) DEF CtypeSize, Width
<1>3. CASE c \in {"COMPLEX", "RANG_UNIT_INTERVAL", "RANG_PERCENT"}
                    \X {32, 64}
    BY <1>3, SMTT(60) DEF CtypeSize, Width
<1>4. CASE c \in {<<"BOOL", 8>>, <<"UNDEFINED", 0>>, <<"USER", 0>>}
    BY <1>4, SMTT(60) DEF CtypeSize, Width
<1> QED BY <1>1, <1>2, <1>3, <1>4 DEF Ctypes

\* The rounded product with 1.67 lies between what BASE45 writes and the next
\* whole number after the exact product.
LEMMA WorstCase ==
    ASSUME NEW n \in Nat, n > 1
    PROVE  /\ CeilWorst(n) \in Nat
           /\ CeilWorst(n) >= 3 * (n \div 2) + 2 * (n % 2)
           /\ 100 * (CeilWorst(n) - 1) < 167 * n
<1> DEFINE whole == (167 * n) \div 100
           hundredths == (167 * n) % 100
<1>1. /\ whole \in Nat /\ hundredths \in 0 .. 99
      /\ 167 * n = 100 * whole + hundredths
    OBVIOUS
<1>2. /\ n \div 2 \in Nat /\ n % 2 \in 0 .. 1
      /\ n = 2 * (n \div 2) + (n % 2)
    OBVIOUS
<1>3. CeilWorst(n) = IF hundredths <= Lost(whole) THEN whole ELSE whole + 1
    BY DEF CeilWorst
<1> HIDE DEF whole, hundredths
<1>4. Lost(whole) \in {0, 1, 3, 6}
    BY <1>1 DEF Lost
<1>5. \/ CeilWorst(n) = whole /\ hundredths <= 6
      \/ CeilWorst(n) = whole + 1 /\ hundredths > 0
    BY <1>1, <1>3, <1>4
<1>6. PICK h \in Nat, r \in 0 .. 1 : h = n \div 2 /\ r = n % 2 /\ n = 2 * h + r
    BY <1>2
<1> QED BY <1>1, <1>5, <1>6

\* An encoded payload fits into the size computed for it, which is exact but
\* for BASE45.
LEMMA EncodedFits ==
    ASSUME NEW e \in Encodings, NEW n \in Nat, n > 0
    PROVE  /\ Encoded(e, n) \in Nat
           /\ Encoded(e, n) >= Characters(e, n)
           /\ e # BASE45 => Encoded(e, n) = Characters(e, n)
           /\ e = BASE45 /\ n > 1 => 100 * (Encoded(e, n) - 1) < 167 * n
           /\ e = BASE45 /\ n = 1 => Encoded(e, n) = Characters(e, n)
<1>1. CASE e = BASE64
    <2>1. /\ n \div 3 \in Nat /\ n % 3 \in 0 .. 2
          /\ n = 3 * (n \div 3) + (n % 3)
        OBVIOUS
    <2>2. (n + 2) \div 3 = n \div 3 + (IF n % 3 = 0 THEN 0 ELSE 1)
        BY <2>1
    <2> QED BY <1>1, <2>1, <2>2
            DEF Encoded, Characters, CeilThird, BASE64, BASE45
<1>2. CASE e = BASE45 /\ n = 1
    BY <1>2 DEF Encoded, Characters, BASE64, BASE45
<1>3. CASE e = BASE45 /\ n > 1
    BY <1>3, WorstCase DEF Encoded, Characters, BASE64, BASE45
<1>4. CASE e \notin {BASE64, BASE45}
    BY <1>4 DEF Encoded, Characters, BASE64, BASE45
<1> QED BY <1>1, <1>2, <1>3, <1>4

\* The number of samples is positive.
LEMMA CountPositive ==
    ASSUME NEW s \in 0 .. 14
    PROVE  SampleCount(s) \in Nat /\ SampleCount(s) > 0
<1>1. s \in {0, 1, 2, 3, 4} \/ s \in {5, 6, 7, 8, 9}
        \/ s \in {10, 11, 12, 13, 14}
    OBVIOUS
<1>2. CASE s \in {0, 1, 2, 3, 4}
    BY <1>2 DEF SampleCount
<1>3. CASE s \in {5, 6, 7, 8, 9}
    BY <1>3 DEF SampleCount
<1>4. CASE s \in {10, 11, 12, 13, 14}
    BY <1>4 DEF SampleCount
<1> QED BY <1>1, <1>2, <1>3, <1>4

\* The computed size before encoding is that of the documented layout.
LEMMA RawIsLayout ==
    ASSUME NEW h \in Header, Fixed(h)
    PROVE  /\ RawSize(h) = LayoutSize(h)
           /\ RawSize(h) \in Nat /\ RawSize(h) > 0
<1> DEFINE s == CtypeSize(h.ctype)
           cnt == SampleCount(h.samples)
           v == 1 + h.vec_sz
           ts == TimestampSize(h.timestamp)
<1>1. s = Width(h.ctype) /\ s \in Nat /\ s > 0
    <2>1. h.ctype \in Ctypes /\ h.ctype[1] \notin {"UNDEFINED", "USER"}
        BY DEF Header, Fixed
    <2> QED BY <2>1, CtypeWidth
<1>2. v \in 1 .. 4 /\ ts \in Nat
    BY DEF Header, TimestampSize
<1>3. cnt \in Nat /\ cnt > 0
    <2>1. h.samples \in 0 .. 14
        BY DEF Header, Fixed, ARBITRARY
    <2> QED BY <2>1, CountPositive
<1>4. LayoutSize(h) = v * cnt * s + ts
    BY <1>1 DEF LayoutSize, TimestampSize
<1>5. RawSize(h) = s * cnt * v + ts
    BY DEF RawSize
<1> HIDE DEF s, cnt, v, ts
<1>6. s * cnt * v = v * cnt * s
    BY <1>1, <1>2, <1>3
<1>7. s * cnt \in Nat /\ s * cnt > 0
    BY <1>1, <1>3
<1>8. s * cnt * v \in Nat /\ s * cnt * v > 0
    BY <1>2, <1>7
<1> QED BY <1>2, <1>4, <1>5, <1>6, <1>8

\* The bytes of a payload are a number.
LEMMA PayloadNat ==
    ASSUME NEW h \in Header, Fixed(h)
    PROVE  PayloadBytes(h) \in Nat /\ LayoutSize(h) \in Nat
<1>1. LayoutSize(h) \in Nat
    BY RawIsLayout
<1>2. \A n \in Nat : n \div 3 \in Nat /\ n \div 2 \in Nat /\ n % 2 \in Nat
    OBVIOUS
<1> QED BY <1>1, <1>2 DEF PayloadBytes, Characters

-----------------------------------------------------------------------------
\* What step_mes_sz_payload returns for a header.
LEMMA PayloadFits ==
    ASSUME NEW h \in Header
    PROVE  /\ SizePayload(h) \in Nat \cup {-1}
           /\ ~Fixed(h) => SizePayload(h) = -1
           /\ Fixed(h) =>
                 /\ SizePayload(h) >= PayloadBytes(h)
                 /\ h.encoding # BASE45 => SizePayload(h) = PayloadBytes(h)
                 /\ \/ SizePayload(h) = PayloadBytes(h)
                    \/ h.encoding = BASE45
                           /\ 100 * (SizePayload(h) - 1) < 167 * LayoutSize(h)
<1>1. CASE ~Fixed(h)
    <2>1. h.samples = ARBITRARY \/ h.ctype[1] \in {"UNDEFINED", "USER"}
        BY <1>1 DEF Fixed, Header, ARBITRARY
    <2>2. h.samples = ARBITRARY \/ CtypeSize(h.ctype) = 0
        BY <2>1, CtypeWidth DEF Header
    <2> QED BY <1>1, <2>2 DEF SizePayload
<1>2. CASE Fixed(h)
    <2>1. h.samples # ARBITRARY /\ CtypeSize(h.ctype) # 0
        BY <1>2, CtypeWidth DEF Fixed, Header, ARBITRARY
    <2>2. SizePayload(h) = Encoded(h.encoding, RawSize(h))
        BY <2>1 DEF SizePayload
    <2>3. /\ RawSize(h) = LayoutSize(h)
          /\ RawSize(h) \in Nat /\ RawSize(h) > 0
        BY <1>2, RawIsLayout
    <2>4. h.encoding \in Encodings
        BY DEF Header
    <2>5. PayloadBytes(h) = Characters(h.encoding, RawSize(h))
        BY <2>3 DEF PayloadBytes
    <2> DEFINE n == RawSize(h)
               e == h.encoding
    <2>6. /\ Encoded(e, n) \in Nat
          /\ Encoded(e, n) >= Characters(e, n)
          /\ e # BASE45 => Encoded(e, n) = Characters(e, n)
          /\ e = BASE45 /\ n > 1 => 100 * (Encoded(e, n) - 1) < 167 * n
          /\ e = BASE45 /\ n = 1 => Encoded(e, n) = Characters(e, n)
        BY <2>3, <2>4, EncodedFits
    <2>7. n > 1 \/ n = 1
        BY <2>3
    <2> QED BY <1>2, <2>2, <2>3, <2>5, <2>6, <2>7
<1> QED BY <1>1, <1>2

\* TypeOK ties nothing together; the results belong to the header at hand.
IInv ==
    /\ TypeOK
    /\ size # NULL => mes # NULL
    /\ SizeSuffices
    /\ AcceptedHasRoom

\* step_mes_sz_payload and step_mes_validate, for every header that fits its
\* bit fields and every payload length: the size is enough for the payload the
\* header describes, and only measurements with room for it are accepted.
THEOREM SizesSound == Spec => [](SizeSuffices /\ AcceptedHasRoom)
<1>1. Init => IInv
    <2> SUFFICES ASSUME Init PROVE IInv
        OBVIOUS
    <2>1. mes \in {NULL} \cup Header
        BY MeasurementAssumption DEF Init
    <2>2. size = NULL /\ rc = NULL
        BY DEF Init
    <2>3. rc # 0 /\ rc # ENOSPC /\ rc # EINVAL
        BY <2>2, MeasurementAssumption DEF ENOSPC, EINVAL
    <2> QED BY <2>1, <2>2, <2>3 DEF IInv, TypeOK, SizeSuffices, AcceptedHasRoom
<1>2. IInv /\ [Next]_vars => IInv'
    <2> SUFFICES ASSUME IInv, [Next]_vars PROVE IInv'
        OBVIOUS
    <2>1. CASE SzPayload
        <3>1. /\ mes \in Header /\ mes' = mes /\ rc' = rc
              /\ size' = SizePayload(mes)
            BY <2>1 DEF SzPayload, IInv, TypeOK
        <3>2. TypeOK' /\ AcceptedHasRoom'
            BY <3>1, PayloadFits DEF IInv, TypeOK, AcceptedHasRoom
        <3>3. SizeSuffices' /\ mes' # NULL
            BY <3>1, PayloadFits, MeasurementAssumption DEF SizeSuffices
        <3> QED BY <3>2, <3>3 DEF IInv
    <2>2. CASE Validate
        <3>1. mes' = mes /\ size' = size
            BY <2>2 DEF Validate
        <3>2. CASE mes = NULL
            BY <2>2, <3>1, <3>2, MeasurementAssumption
               DEF Validate, IInv, TypeOK, SizeSuffices, AcceptedHasRoom,
                   EINVAL, ENOSPC
        <3>3. CASE mes # NULL
            <4> DEFINE sz == SizePayload(mes)
            <4>1. mes \in Header /\ mes.len \in Nat
                BY <3>3 DEF IInv, TypeOK, Header
            <4>2. rc' = IF sz > mes.len THEN ENOSPC ELSE 0
                BY <2>2, <3>3 DEF Validate
            <4>3. /\ sz \in Nat \cup {-1}
                  /\ ~Fixed(mes) => sz = -1
                  /\ Fixed(mes) =>
                        /\ sz >= PayloadBytes(mes)
                        /\ \/ sz = PayloadBytes(mes)
                           \/ mes.encoding = BASE45
                                 /\ 100 * (sz - 1) < 167 * LayoutSize(mes)
                BY <4>1, PayloadFits
            <4>4. Fixed(mes) => PayloadBytes(mes) \in Nat
                               /\ LayoutSize(mes) \in Nat
                BY <4>1, PayloadNat
            <4> HIDE DEF sz
            <4>5. AcceptedHasRoom'
                BY <3>1, <4>1, <4>2, <4>3, <4>4
                   DEF AcceptedHasRoom, EINVAL, ENOSPC
            <4>6. TypeOK' /\ SizeSuffices'
                BY <3>1, <4>2 DEF IInv, TypeOK, SizeSuffices
            <4> QED BY <3>1, <4>5, <4>6 DEF IInv
        <3> QED BY <3>2, <3>3
    <2>3. CASE UNCHANGED vars
        BY <2>3 DEF vars, IInv, TypeOK, SizeSuffices, AcceptedHasRoom
    <2> QED BY <2>1, <2>2, <2>3 DEF Next
<1>3. IInv => SizeSuffices /\ AcceptedHasRoom
    BY DEF IInv
<1> QED BY <1>1, <1>2, <1>3, PTL DEF Spec

\* For every header and every length: what is accepted has room for the payload
\* its header describes, and what is refused is missing or could not hold it in
\* the worst case of its encoding (src/measurement.c: step_mes_validate).
THEOREM AcceptedFits == Spec => []AcceptedHasRoom
BY SizesSound, PTL
=============================================================================
