------------------------- MODULE MC_SendAdmission --------------------------
(* Three concurrent FetchPart requests, two for table t1 and one for t2,  *)
(* against caps small enough that the third request meets a full server. *)
EXTENDS SendAdmission, TLC

CONSTANTS r1, r2, r3, t1, t2

MCRequests == {r1, r2, r3}
MCTables == {t1, t2}
MCTableOf == (r1 :> t1) @@ (r2 :> t1) @@ (r3 :> t2)
=============================================================================
