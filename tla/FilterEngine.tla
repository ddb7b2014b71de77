---------------------------- MODULE FilterEngine ----------------------------
(***************************************************************************)
(* The filter engine of src/filter.c: step_filt_evaluate decides whether a *)
(* measurement matches a filter chain, in a loop that feeds the result of  *)
(* each filter into the next.  Filter words are sets of bits.              *)
(***************************************************************************)
EXTENDS Integers, FiniteSets, Sequences

CONSTANTS
    Bits,       \* the bits of a filter word
    Filters,    \* the filters an application uses
    MaxLen,     \* bound: the length of a filter chain
    NULL

\* enum step_filter_op; OTHER is a value that is none of them.
Ops == {"IS", "NOT", "AND", "AND_NOT", "OR", "OR_NOT", "XOR", "OTHER"}

\* struct step_filter.
Filter == [op : Ops, match : SUBSET Bits, ignore : SUBSET Bits]

\* The part of struct step_measurement that filters look at.
Measurement == [bits : SUBSET Bits]

ASSUME FilterEngineAssumption ==
    /\ Filters \subseteq Filter
    /\ MaxLen \in Nat
    /\ NULL \notin Measurement

VARIABLES
    fc,     \* the filter chain: its chain, and the count it is said to have
    mes,    \* the measurement, or NULL
    i,      \* how many filters have been evaluated
    prev,   \* prev_eval
    match,  \* *match
    rc,     \* the result code
    pc

engine == <<fc, mes, i, prev, match, rc, pc>>

-----------------------------------------------------------------------------
(* step_filt_evaluate_filter.                                              *)

\* Mutant: the mask is only taken off the filter.
EqualHalfMasked(f, word) == word = f.match \ f.ignore

\* The measurement has the bits the filter asks for, but for those it ignores.
Equal(f, word) == word \ f.ignore = f.match \ f.ignore

\* The operand, applied to the result so far and that of the filter.
Apply(op, before, curr) ==
    CASE op = "IS"      -> curr
      [] op = "NOT"     -> ~curr
      [] op = "AND"     -> before /\ curr
      [] op = "AND_NOT" -> before /\ ~curr
      [] op = "OR"      -> before \/ curr
      [] op = "OR_NOT"  -> before \/ ~curr
      [] op = "XOR"     -> before # curr
      [] op = "OTHER"   -> FALSE

-----------------------------------------------------------------------------
(* step_filt_evaluate.                                                     *)

Chains == UNION {[1 .. n -> Filters] : n \in 0 .. MaxLen}

Init ==
    /\ \/ \E c \in Chains : fc = [chain |-> c, count |-> Len(c)]
       \/ \E n \in 0 .. MaxLen : fc = [chain |-> NULL, count |-> n]
       \/ fc = NULL
    /\ mes \in {NULL} \cup Measurement
    /\ i = 0
    /\ prev = FALSE
    /\ match \in BOOLEAN
    /\ rc = 0
    /\ pc = "enter"

\* Mutant: what the caller left in *match stays there.
EnterKeepsMatch ==
    /\ pc = "enter"
    /\ prev' = FALSE
    /\ pc' = "check"
    /\ UNCHANGED <<fc, mes, i, match, rc>>

\* *match holds what the node before this one left there, and is reset.
Enter ==
    /\ pc = "enter"
    /\ match' = FALSE
    /\ prev' = FALSE
    /\ pc' = "check"
    /\ UNCHANGED <<fc, mes, i, rc>>

\* No measurement.
NoMeasurement ==
    /\ pc = "check"
    /\ mes = NULL
    /\ rc' = -1
    /\ pc' = "done"
    /\ UNCHANGED <<fc, mes, i, prev, match>>

\* No chain, or an empty one, accepts every measurement.
AcceptAll ==
    /\ pc = "check"
    /\ mes # NULL
    /\ fc # NULL => fc.count = 0
    /\ match' = TRUE
    /\ pc' = "done"
    /\ UNCHANGED <<fc, mes, i, prev, rc>>

NotEmpty == mes # NULL /\ fc # NULL /\ fc.count > 0

\* fc->chain[0] is read through a null pointer.
ReadNull ==
    /\ pc = "check"
    /\ NotEmpty
    /\ fc.chain = NULL
    /\ pc' = "fault"
    /\ UNCHANGED <<fc, mes, i, prev, match, rc>>

\* The first operand has to be IS or NOT.
BadStart ==
    /\ pc = "check"
    /\ NotEmpty
    /\ fc.chain # NULL
    /\ fc.chain[1].op \notin {"IS", "NOT"}
    /\ rc' = -1
    /\ pc' = "done"
    /\ UNCHANGED <<fc, mes, i, prev, match>>

\* The chain can be evaluated.
StartLoop ==
    /\ pc = "check"
    /\ NotEmpty
    /\ fc.chain # NULL
    /\ fc.chain[1].op \in {"IS", "NOT"}
    /\ pc' = "loop"
    /\ UNCHANGED <<fc, mes, i, prev, match, rc>>

\* Mutant: the result so far is not carried on.
EvaluateFilterAfresh ==
    LET f == fc.chain[i + 1]
    IN  /\ pc = "loop"
        /\ i < fc.count
        /\ i' = i + 1
        /\ prev' = Apply(f.op, TRUE, Equal(f, mes.bits))
        /\ UNCHANGED <<fc, mes, match, rc, pc>>

\* One filter, against the result of those before it.
EvaluateFilter ==
    LET f == fc.chain[i + 1]
    IN  /\ pc = "loop"
        /\ i < fc.count
        /\ i' = i + 1
        /\ prev' = Apply(f.op, prev, Equal(f, mes.bits))
        /\ UNCHANGED <<fc, mes, match, rc, pc>>

\* The result of the last filter is the result of the chain.
EndLoop ==
    /\ pc = "loop"
    /\ i = fc.count
    /\ match' = prev
    /\ pc' = "done"
    /\ UNCHANGED <<fc, mes, i, prev, rc>>

Next ==
    \/ Enter \/ NoMeasurement \/ AcceptAll \/ ReadNull \/ BadStart
    \/ StartLoop \/ EvaluateFilter \/ EndLoop

Spec == Init /\ [][Next]_engine

-----------------------------------------------------------------------------
(* Properties.                                                             *)

TypeOK ==
    /\ fc \in {NULL} \cup [chain : {NULL} \cup Seq(Filter), count : Nat]
    /\ mes \in {NULL} \cup Measurement
    /\ fc # NULL =>
          i \in 0 .. fc.count /\ (fc.chain # NULL => Len(fc.chain) = fc.count)
    /\ {prev, match} \subseteq BOOLEAN
    /\ rc \in {0, -1}
    /\ pc \in {"enter", "check", "loop", "done", "fault"}

\* The filters of the chain that the measurement has the bits for.
Hits == {j \in 1 .. fc.count : Equal(fc.chain[j], mes.bits)}

OpsAre(first, rest) ==
    /\ pc = "done" /\ rc = 0
    /\ mes # NULL /\ fc # NULL /\ fc.count > 0
    /\ fc.chain[1].op = first
    /\ \A j \in 2 .. fc.count : fc.chain[j].op = rest

\* A chain of IS and ANDs matches when every filter does, one of IS and ORs
\* when one does, one of NOT and AND_NOTs when none does, and one of IS and
\* XORs when an odd number does.
AllOf == OpsAre("IS", "AND") => (match <=> Hits = 1 .. fc.count)
AnyOf == OpsAre("IS", "OR") => (match <=> Hits # {})
NoneOf == OpsAre("NOT", "AND_NOT") => (match <=> Hits = {})
Parity == OpsAre("IS", "XOR") => (match <=> Cardinality(Hits) % 2 = 1)

Quantified == AllOf /\ AnyOf /\ NoneOf /\ Parity

\* The results of evaluating a word: FALSE before the first filter, and after
\* each what its operand makes of the one before.
Results(word) ==
    {r \in [0 .. fc.count -> BOOLEAN] :
        /\ r[0] = FALSE
        /\ \A n \in 1 .. fc.count :
               r[n] = Apply(fc.chain[n].op, r[n - 1], Equal(fc.chain[n], word))}

\* A bit that every filter of a chain ignores makes no difference: whatever
\* the measurement has there, the result is the same.
IgnoredBits ==
    LET common == {b \in Bits : \A j \in 1 .. fc.count :
                                    b \in fc.chain[j].ignore}
    IN  pc = "done" /\ rc = 0 /\ mes # NULL /\ fc # NULL /\ fc.count > 0 =>
            \A other \in SUBSET Bits :
                other \ common = mes.bits \ common =>
                    \E r \in Results(other) : match = r[fc.count]

\* step_pm_process looks at match alone, never at the result code: an error
\* does not count as a match, whatever the node before has left in match.  A
\* chain is an error exactly when it starts with an operand that needs a
\* previous result.
ErrorsDoNotMatch ==
    pc = "done" =>
        /\ rc # 0 => ~match
        /\ NotEmpty /\ fc.chain # NULL =>
              (rc = 0 <=> fc.chain[1].op \in {"IS", "NOT"})
=============================================================================
