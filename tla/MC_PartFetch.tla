---------------------------- MODULE MC_PartFetch ----------------------------
(* Model values and small instances of PartFetch for TLC: a part of two   *)
(* files, with or without one projection whose only file shares its name, *)
(* and not its content, with a file of the base part.  Both names are     *)
(* implicit map keys, stored in a map file when the part is compact.       *)
EXTENDS PartFetch, TLC

CONSTANTS p1, n1, n2

MCFilesOf == (Base :> {n1, n2}) @@ (p1 :> {n1})
MCSrc == (Base :> (n1 :> 0 @@ n2 :> 1)) @@ (p1 :> (n1 :> 1 @@ n2 :> 0))
MCNameOrder == << n1, n2 >>

(* In a compact part the two keys of the base part share a map file in    *)
(* the reverse of name order, after a key a clear-map-key command removed *)
(* from the checksums (offset 1); the projection's key is at offset 0.    *)
MCSrcOffset == (Base :> (n1 :> 2 @@ n2 :> 0)) @@ (p1 :> (n1 :> 0 @@ n2 :> 0))

(* The part has no projection, or the projection p1. *)
MCAnyProjections == {<< >>, << p1 >>}
(* The part has the projection p1. *)
MCOneProjection == {<< p1 >>}
=============================================================================
