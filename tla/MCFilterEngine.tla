--------------------------- MODULE MCFilterEngine ---------------------------
(* An instance of FilterEngine for TLC: every operand with a few masks over *)
(* two bits, among them one that ignores a bit it also asks for.            *)
EXTENDS FilterEngine, TLC

CONSTANTS b1, b2

MCBits == {b1, b2}
MCMasks == {<<{b1}, {}>>, <<{b1}, {b2}>>, <<{b1, b2}, {b2}>>}
MCFilters == {[op |-> o, match |-> m[1], ignore |-> m[2]] :
                 o \in Ops, m \in MCMasks}
=============================================================================
