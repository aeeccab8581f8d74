--------------------------- MODULE MC_PartFetchS3 ---------------------------
(* Small instances of PartFetchS3 for TLC: a part with two metadata files, *)
(* n1 and n2; in a part with a projection, n2 is the <proj>.proj entry of  *)
(* the checksums.                                                          *)
EXTENDS PartFetchS3, TLC

CONSTANTS n1, n2

MCNames == {n1, n2}
MCOrder == << n1, n2 >>
MCSrc == n1 :> 0 @@ n2 :> 1

(* The part has no projection, or one. *)
MCAnyPart == {{}, {n2}}
(* The part has a projection. *)
MCProjPart == {{n2}}
(* The part has no projection. *)
MCPlainPart == {{}}
=============================================================================
