---------------------------- MODULE Measurement -----------------------------
(***************************************************************************)
(* The header of a measurement and what src/measurement.c computes from    *)
(* it: how many bytes the payload needs, and whether the length the        *)
(* application has put into the header is enough.  The sizes go through    *)
(* the float arithmetic of the C code, rounding included.                  *)
(***************************************************************************)
EXTENDS Integers

CONSTANTS
    Headers,    \* the headers that applications fill in
    NULL

\* enum step_mes_unit_ctype, as kind and width in bits.
Ctypes ==
    ({"S", "U"} \X {8, 16, 32, 64, 128})
        \cup ({"FLOAT"} \X {32, 64, 128})
        \cup ({"COMPLEX", "RANG_UNIT_INTERVAL", "RANG_PERCENT"} \X {32, 64})
        \cup {<<"BOOL", 8>>, <<"UNDEFINED", 0>>, <<"USER", 0>>}

\* enum step_mes_encoding and enum step_mes_timestamp, with their reserved
\* values: fields of 4 and 3 bits.
Encodings == 0 .. 15
BASE64 == 1
BASE45 == 2
Timestamps == 0 .. 7

UINT16_MAX == 65535

\* struct step_mes_header, the part that determines the size.
Header == [samples : 0 .. 15, vec_sz : 0 .. 3, ctype : Ctypes,
           timestamp : Timestamps, encoding : Encodings, len : 0 .. UINT16_MAX]

ASSUME MeasurementAssumption ==
    /\ Headers \subseteq Header
    /\ NULL \notin Header \cup Int

VARIABLES
    mes,    \* the header of the measurement that is passed, or NULL
    size,   \* the result of step_mes_sz_payload, or NULL
    rc      \* the result of step_mes_validate, or NULL

vars == <<mes, size, rc>>

-----------------------------------------------------------------------------
(* step_mes_sz_payload.                                                    *)

ARBITRARY == 15

\* step_mes_sz_ctype: 0 when the size is not fixed.
CtypeSize(c) ==
    CASE c \in {<<"S", 8>>, <<"U", 8>>, <<"BOOL", 8>>} -> 1
      [] c \in {<<"S", 16>>, <<"U", 16>>} -> 2
      [] c \in {"FLOAT", "S", "U", "RANG_UNIT_INTERVAL", "RANG_PERCENT"}
                   \X {32} -> 4
      [] c \in ({"FLOAT", "S", "U", "RANG_UNIT_INTERVAL", "RANG_PERCENT"}
                   \X {64}) \cup {<<"COMPLEX", 32>>} -> 8
      [] c \in ({"FLOAT", "S", "U"} \X {128}) \cup {<<"COMPLEX", 64>>} -> 16
      [] OTHER -> 0

\* step_mes_sz_timestamp.
TimestampSize(ts) ==
    CASE ts \in {1, 3} -> 4 [] ts \in {2, 4, 5} -> 8 [] OTHER -> 0

\* step_mes_sz_ceil((float)n / 3.0F): exact, as a payload has less than 2^21
\* bytes and a third is not lost in the 24 bits of a quotient below 2^22.
CeilThird(n) == (n + 2) \div 3

\* The hundredths that (float)n * 1.67 loses when it is rounded to the 24 bits
\* of a float, by its whole part.
Lost(whole) ==
    CASE whole < 262144 -> 0
      [] whole >= 262144 /\ whole < 524288 -> 1
      [] whole >= 524288 /\ whole < 1048576 -> 3
      [] OTHER -> 6

\* step_mes_sz_ceil((float)n * 1.67).
CeilWorst(n) ==
    LET whole == (167 * n) \div 100
    IN  IF (167 * n) % 100 <= Lost(whole) THEN whole ELSE whole + 1

\* Mutant of the next definition: the pairs of bytes are rounded down.
EncodedFloor(e, n) ==
    CASE e = BASE64 -> 4 * CeilThird(n)
      [] e = BASE45 -> (3 * n) \div 2
      [] OTHER -> n

\* The size after encoding.
Encoded(e, n) ==
    CASE e = BASE64 -> 4 * CeilThird(n)
      [] e = BASE45 -> IF n = 1 THEN 2 ELSE CeilWorst(n)
      [] OTHER -> n

\* step_mes_sz_pow2: 2^s, for a count that is not arbitrary.
SampleCount(s) ==
    <<1, 2, 4, 8, 16, 32, 64, 128, 256, 512, 1024, 2048, 4096, 8192, 16384>>
        [s + 1]

\* The size before encoding: samples of vectors, behind the timestamp.
RawSize(h) ==
    CtypeSize(h.ctype) * SampleCount(h.samples) * (1 + h.vec_sz)
        + TimestampSize(h.timestamp)

\* step_mes_sz_payload: -1 when the size cannot be determined.
SizePayload(h) ==
    IF h.samples = ARBITRARY \/ CtypeSize(h.ctype) = 0
    THEN -1
    ELSE Encoded(h.encoding, RawSize(h))

-----------------------------------------------------------------------------
(* The calls.                                                              *)

EINVAL == -22
ENOSPC == -28

\* A measurement that an application has filled in, or none.
Init ==
    /\ mes \in {NULL} \cup Headers
    /\ size = NULL
    /\ rc = NULL

SzPayload ==
    /\ mes # NULL
    /\ size = NULL
    /\ size' = SizePayload(mes)
    /\ UNCHANGED <<mes, rc>>

\* Mutant of step_mes_validate: the comparison is with the size less one.
ValidateOffByOne ==
    /\ rc = NULL
    /\ rc' = IF mes = NULL THEN EINVAL
             ELSE IF SizePayload(mes) > mes.len + 1 THEN ENOSPC
             ELSE 0
    /\ UNCHANGED <<mes, size>>

\* step_mes_validate.
Validate ==
    /\ rc = NULL
    /\ rc' = IF mes = NULL THEN EINVAL
             ELSE IF SizePayload(mes) > mes.len THEN ENOSPC
             ELSE 0
    /\ UNCHANGED <<mes, size>>

Next == SzPayload \/ Validate

Spec == Init /\ [][Next]_vars

-----------------------------------------------------------------------------
(* Properties.  The reference is the layout that measurement.h documents   *)
(* for a payload and the two encodings' own definitions.                   *)

Fixed(h) == h.samples < ARBITRARY /\ h.ctype[1] \notin {"UNDEFINED", "USER"}

\* The bytes of one component: a complex number has two parts.
Width(c) == (IF c[1] = "COMPLEX" THEN 2 ELSE 1) * (c[2] \div 8)

LayoutSize(h) ==
    (1 + h.vec_sz) * SampleCount(h.samples) * Width(h.ctype)
        + (CASE h.timestamp \in {1, 3} -> 4 [] h.timestamp \in {2, 4, 5} -> 8
             [] OTHER -> 0)

\* BASE64 writes 4 characters for every 3 bytes begun (rfc4648), BASE45 3 for
\* every 2 bytes and 2 for a last one (draft-faltstrom-base45).
Characters(e, n) ==
    IF e = BASE64 THEN 4 * (n \div 3 + (IF n % 3 = 0 THEN 0 ELSE 1))
    ELSE IF e = BASE45 THEN 3 * (n \div 2) + 2 * (n % 2)
    ELSE n

PayloadBytes(h) == Characters(h.encoding, LayoutSize(h))

TypeOK ==
    /\ mes \in {NULL} \cup Header
    /\ size \in {NULL, -1} \cup Nat
    /\ rc \in {NULL, 0, EINVAL, ENOSPC}

\* step_mes_sz_payload: the size it gives, through all its float arithmetic, is
\* enough for the payload that the header describes, not more than that for
\* raw data and for BASE64, and -1 exactly when the header does not determine
\* one.
SizeSuffices ==
    size # NULL =>
        IF ~Fixed(mes) THEN size = -1
        ELSE /\ size >= PayloadBytes(mes)
             /\ mes.encoding # BASE45 => size = PayloadBytes(mes)

\* step_mes_validate: a measurement that is accepted has room for the payload
\* its header describes, and one that is refused either is missing or could
\* not hold it in the encoding's worst case of 1.67 characters a byte.
AcceptedHasRoom ==
    /\ rc = 0 /\ Fixed(mes) => mes.len >= PayloadBytes(mes)
    /\ rc = ENOSPC =>
          /\ Fixed(mes)
          /\ \/ mes.len < PayloadBytes(mes)
             \/ mes.encoding = BASE45 /\ 100 * mes.len < 167 * LayoutSize(mes)
    /\ rc = EINVAL => mes = NULL
=============================================================================
