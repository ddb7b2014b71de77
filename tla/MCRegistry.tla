----------------------------- MODULE MCRegistry -----------------------------
(* Instances of Registry for TLC.                                          *)
EXTENDS Registry, TLC

CONSTANTS n1, n2

MCNodes == {n1, n2}
MCChainLen == n1 :> 1 @@ n2 :> 2
MCInitHandlers == n1 :> {} @@ n2 :> {0, 1}

MCPriorities == 1 .. 2
=============================================================================
