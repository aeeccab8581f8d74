------------------------- MODULE MC_PartsService ---------------------------
(* Three FetchPart requests for part p1, two of table t1 and one of t2,  *)
(* against caps of two sends and one per table, while a client lists the parts of partition a, b or all,  *)
(* or those of filter f, and looks p1 up.                                  *)
EXTENDS PartsService, TLC

CONSTANTS r1, r2, r3, t1, t2, p1, a, b, f, g

MCRequests == {r1, r2, r3}
MCTables == {t1, t2}
MCTableOf == (r1 :> t1) @@ (r2 :> t1) @@ (r3 :> t2)
MCPartOf == [r \in MCRequests |-> p1]
MCParts == {p1}
MCPartitions == {a, b}
MCPartitionOf == p1 :> a
MCFilterMatch == (f :> {p1}) @@ (g :> {})
=============================================================================
