--------------------------- MODULE SendAdmission ---------------------------
(***************************************************************************)
(* Admission control of the part-exchange server: the part of              *)
(* Service::processQueryPart (DataPartsExchange.cpp) that decides whether  *)
(* a FetchPart request may start streaming, counts it in the global        *)
(* counter total_sends and the per-table counter current_table_sends while *)
(* it streams, and releases both counters on every exit path (SCOPE_EXIT). *)
(*                                                                         *)
(* Every request is served by its own HTTP handler thread, so the steps of *)
(* different requests interleave.  The counters are atomics, but the cap   *)
(* check and the increments are separate steps.                            *)
(***************************************************************************)
EXTENDS Naturals, FiniteSets

CONSTANTS
    Requests,               \* concurrent FetchPart requests (model values)
    Tables,                 \* tables (MergeTreeData objects) served
    TableOf,                \* TableOf[r]: the table request r asks a part of
    MaxParallelSends,       \* replicated_max_parallel_sends, 0 = no cap
    MaxParallelSendsForTable \* replicated_max_parallel_sends_for_table, 0 = no cap

ASSUME TableOf \in [Requests -> Tables]
ASSUME MaxParallelSends \in Nat /\ MaxParallelSendsForTable \in Nat

VARIABLES
    pc,                   \* pc[r]: where the handler of request r is
    total_sends,          \* static std::atomic_uint total_sends
    current_table_sends,  \* data.current_table_sends of each table
    broken                \* requests whose part was passed to reportBrokenPart

vars == <<pc, total_sends, current_table_sends, broken>>

(* Handler locations.  "inc_total" is the point after the cookies were    *)
(* added and before ++total_sends; "exit_table"/"exit_total" are the two  *)
(* SCOPE_EXIT decrements, run in reverse order of declaration.            *)
Locations == {"start", "check", "inc_total", "inc_table", "sending",
              "exit_table", "exit_total", "done", "rejected", "invalid"}

(* How the send of the part ends: normally, with ABORTED or              *)
(* CANNOT_WRITE_TO_OSTREAM, with a NetException, or with any other       *)
(* exception (NO_SUCH_DATA_PART from findPart, a checksum or size error). *)
Outcomes == {"ok", "aborted", "network", "error"}

-----------------------------------------------------------------------------
(* MergeTreePartInfo::fromPartName: a malformed part name from a          *)
(* malicious replica throws before any counter is touched.               *)
ValidatePartName(r) ==
    /\ pc[r] = "start"
    /\ \E wellFormed \in BOOLEAN :
         pc' = [pc EXCEPT ![r] = IF wellFormed THEN "check" ELSE "invalid"]
    /\ UNCHANGED <<total_sends, current_table_sends, broken>>

(* The cap of a counter is reached (a cap of 0 means no cap).             *)
CapReached(cap, count) == cap /= 0 /\ count >= cap

(* Slip: the SCOPE_EXIT decrements registered before the cap check, so a  *)
(* rejected request also releases counters it never took.                *)
CheckAdmissionReleasesOnReject(r) ==
    /\ pc[r] = "check"
    /\ pc' = [pc EXCEPT ![r] =
                IF \/ CapReached(MaxParallelSends, total_sends)
                   \/ CapReached(MaxParallelSendsForTable,
                                 current_table_sends[TableOf[r]])
                THEN "exit_table" ELSE "inc_total"]
    /\ UNCHANGED <<total_sends, current_table_sends, broken>>

(* The admission check: answer 429 with Retry-After, or go on to set the  *)
(* server_protocol_version cookie.  Nothing is incremented here.          *)
CheckAdmission(r) ==
    /\ pc[r] = "check"
    /\ pc' = [pc EXCEPT ![r] =
                IF \/ CapReached(MaxParallelSends, total_sends)
                   \/ CapReached(MaxParallelSendsForTable,
                                 current_table_sends[TableOf[r]])
                THEN "rejected" ELSE "inc_total"]
    /\ UNCHANGED <<total_sends, current_table_sends, broken>>

IncTotalSends(r) ==
    /\ pc[r] = "inc_total"
    /\ total_sends' = total_sends + 1
    /\ pc' = [pc EXCEPT ![r] = "inc_table"]
    /\ UNCHANGED <<current_table_sends, broken>>

IncTableSends(r) ==
    /\ pc[r] = "inc_table"
    /\ current_table_sends' =
           [current_table_sends EXCEPT ![TableOf[r]] = @ + 1]
    /\ pc' = [pc EXCEPT ![r] = "sending"]
    /\ UNCHANGED <<total_sends, broken>>

(* Slip: the decrements are done on the normal path only, so a send that *)
(* throws skips them.                                                      *)
SendPartNoExitOnError(r) ==
    /\ pc[r] = "sending"
    /\ \E outcome \in Outcomes :
         /\ broken' = IF outcome = "error" THEN broken \cup {r} ELSE broken
         /\ pc' = [pc EXCEPT ![r] = IF outcome = "ok" THEN "exit_table"
                                                    ELSE "done"]
    /\ UNCHANGED <<total_sends, current_table_sends>>

(* findPart and the streaming of the part, with the catch clauses: an     *)
(* exception other than a NetException, ABORTED or CANNOT_WRITE_TO_OSTREAM *)
(* reports the part broken before it is rethrown.                         *)
SendPart(r) ==
    /\ pc[r] = "sending"
    /\ \E outcome \in Outcomes :
         broken' = IF outcome = "error" THEN broken \cup {r} ELSE broken
    /\ pc' = [pc EXCEPT ![r] = "exit_table"]
    /\ UNCHANGED <<total_sends, current_table_sends>>

(* Slip: the per-table counter is never released. *)
DecTableSendsLeak(r) ==
    /\ pc[r] = "exit_table"
    /\ pc' = [pc EXCEPT ![r] = "exit_total"]
    /\ UNCHANGED <<total_sends, current_table_sends, broken>>

(* SCOPE_EXIT({--data.current_table_sends;}) runs first on unwind.        *)
DecTableSends(r) ==
    /\ pc[r] = "exit_table"
    /\ current_table_sends' =
           [current_table_sends EXCEPT ![TableOf[r]] = @ - 1]
    /\ pc' = [pc EXCEPT ![r] = "exit_total"]
    /\ UNCHANGED <<total_sends, broken>>

(* SCOPE_EXIT({--total_sends;}) runs last.                                *)
DecTotalSends(r) ==
    /\ pc[r] = "exit_total"
    /\ total_sends' = total_sends - 1
    /\ pc' = [pc EXCEPT ![r] = "done"]
    /\ UNCHANGED <<current_table_sends, broken>>

Init ==
    /\ pc = [r \in Requests |-> "start"]
    /\ total_sends = 0
    /\ current_table_sends = [t \in Tables |-> 0]
    /\ broken = {}

(* One step of the handler thread of request r. *)
Step(r) ==
        \/ ValidatePartName(r)
        \/ CheckAdmission(r)
        \/ IncTotalSends(r)
        \/ IncTableSends(r)
        \/ SendPart(r)
        \/ DecTableSends(r)
        \/ DecTotalSends(r)

Next == \E r \in Requests : Step(r)

Spec == Init /\ [][Next]_vars

-----------------------------------------------------------------------------
TypeOK ==
    /\ pc \in [Requests -> Locations]
    /\ total_sends \in Nat
    /\ current_table_sends \in [Tables -> Nat]
    /\ broken \subseteq Requests

(* Requests that passed the admission check and have not yet released    *)
(* their send slot (the last SCOPE_EXIT has not run).                    *)
Inside == {r \in Requests :
             pc[r] \in {"inc_total", "inc_table", "sending",
                        "exit_table", "exit_total"}}

InsideFor(t) == {r \in Inside : TableOf[r] = t}

(* The caps hold: at no time do more requests stream parts than          *)
(* replicated_max_parallel_sends (globally) or                           *)
(* replicated_max_parallel_sends_for_table (per table) allow; the spec   *)
(* promises a 429 "on breach".                                           *)
SendsWithinCaps ==
    /\ MaxParallelSends /= 0 =>
         Cardinality({r \in Requests : pc[r] = "sending"}) <= MaxParallelSends
    /\ \A t \in Tables : MaxParallelSendsForTable /= 0 =>
         Cardinality({r \in Requests : pc[r] = "sending" /\ TableOf[r] = t})
             <= MaxParallelSendsForTable

(* Every 429 is justified: when the handler answers Too Many Requests,   *)
(* at least as many other requests as the cap allows are really inside   *)
(* the send path.  A counter that leaks on some exit path makes the      *)
(* server refuse sends forever although nobody is sending.               *)
RejectionJustified ==
    [][\A r \in Requests :
         (pc[r] = "check" /\ pc'[r] = "rejected") =>
            \/ MaxParallelSends /= 0
               /\ Cardinality(Inside) >= MaxParallelSends
            \/ MaxParallelSendsForTable /= 0
               /\ Cardinality(InsideFor(TableOf[r])) >= MaxParallelSendsForTable
      ]_vars

=============================================================================
