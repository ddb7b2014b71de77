--------------------------- MODULE MCMeasurement ----------------------------
(* An instance of Measurement for TLC: every type and vector size, the      *)
(* smallest and the largest sample counts, the timestamps of each size and  *)
(* an unknown one, each encoding and an unknown one, and lengths around the *)
(* sizes of small payloads.                                                *)
EXTENDS Measurement

MCHeaders ==
    [samples : {0, 1, 3, 13, 14, 15}, vec_sz : 0 .. 3, ctype : Ctypes,
     timestamp : {0, 3, 5, 6}, encoding : {0, BASE64, BASE45, 3},
     len : {0, 1, 2, 3, 4, 12, 20, 28, 43, 44, UINT16_MAX}]
=============================================================================
