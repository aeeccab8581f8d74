---------------------------- MODULE PartTransfer ----------------------------
(***************************************************************************)
(* What a part fetch promises its caller: the receiver either ends up     *)
(* with an exact copy of the sender's part, delivered in one step, or      *)
(* with nothing; a delivered part is never changed afterwards, and the     *)
(* sender's part does not change while it is fetched.                      *)
(***************************************************************************)
CONSTANT
    NoPart    \* the receiver has no part yet

VARIABLES
    source,   \* the sender's part: path -> content
    fetched   \* what the receiver holds

Init == fetched = NoPart

Deliver ==
    /\ fetched = NoPart
    /\ fetched' = source
    /\ UNCHANGED source

Spec == Init /\ [][Deliver]_<<source, fetched>>

=============================================================================
