----------------------------- MODULE MCProcMgr ------------------------------
(* Instances of ProcMgr for TLC: a node of one instance that accepts every *)
(* measurement, and a chain of two that accepts those with bits b1.  The    *)
(* matched handler of the first turns down measurements with payload p2.   *)
EXTENDS ProcMgr, TLC

CONSTANTS n1, n2, b1, b2, p1, p2, m1, m2

MCNodes == {n1, n2}
MCChainLen == n1 :> 1 @@ n2 :> 2
MCOneInstance == n1 :> 1 @@ n2 :> 1
MCInitHandlers == n1 :> {} @@ n2 :> {0}
MCAccepts == {<<n1, b1>>, <<n1, b2>>, <<n2, b1>>} \cap (Nodes \X Bits)
MCVetoes == {<<n1, p2>>} \cap (Nodes \X Payloads)
MCHandlers == n1 :> {"exec"} @@ n2 :> {"start", "exec", "stop"}
=============================================================================
