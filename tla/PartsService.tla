---------------------------- MODULE PartsService ----------------------------
(***************************************************************************)
(* The part-exchange server as a whole (Service in DataPartsExchange.cpp): *)
(* the FetchPart handlers of SendAdmission and the list and existence      *)
(* queries of PartQueries run against one table whose parts change state.  *)
(* They meet in processQueryPart: an admitted handler looks its part up   *)
(* with findPart, and when the part is not there the NO_SUCH_DATA_PART it *)
(* throws is caught like any other error: the requested name is reported *)
(* broken and the SCOPE_EXIT decrements release the send slot.            *)
(***************************************************************************)
EXTENDS Naturals, FiniteSets

CONSTANTS
    Requests, Tables, TableOf, MaxParallelSends, MaxParallelSendsForTable,
    PartOf,         \* PartOf[r]: the part request r asks for
    Parts, Partitions, PartitionOf, DropRangeParts, Filters, BadFilters,
    FilterMatch, All, NoFilter

ASSUME PartOf \in [Requests -> Parts]

VARIABLES
    pc, total_sends, current_table_sends, broken,
    state, dropped, creq, resp, listed, reported, deleting

SA == INSTANCE SendAdmission
Q == INSTANCE PartQueries

admissionVars == <<pc, total_sends, current_table_sends, broken>>
queryVars == <<state, dropped, creq, resp, listed, reported, deleting>>
serviceVars == <<admissionVars, queryVars>>

(* The try block of processQueryPart for an admitted request r: findPart, *)
(* then the streaming; report_broken_part names the part on an error,     *)
(* and a part findPart cannot find is always such an error.               *)
ServePart(r) ==
    /\ SA!SendPart(r)
    /\ ~Q!FindPart(PartOf[r]) => r \in broken'
    /\ reported' = IF r \in broken' \ broken
                   THEN reported \cup {PartOf[r]} ELSE reported
    /\ UNCHANGED <<state, dropped, creq, resp, listed, deleting>>

(* One step of the handler thread of FetchPart request r. *)
Handler(r) ==
    \/ /\ \/ SA!ValidatePartName(r)
          \/ SA!CheckAdmission(r)
          \/ SA!IncTotalSends(r)
          \/ SA!IncTableSends(r)
          \/ SA!DecTableSends(r)
          \/ SA!DecTotalSends(r)
       /\ UNCHANGED queryVars
    \/ ServePart(r)

Init == SA!Init /\ Q!Init

Next ==
    \/ \E r \in Requests : Handler(r)
    \/ Q!Next /\ UNCHANGED admissionVars

Spec == Init /\ [][Next]_serviceVars

-----------------------------------------------------------------------------
TypeOK == SA!TypeOK /\ Q!TypeOK

(* Every 429 of processQueryPart is justified by the requests inside the  *)
(* send path, also when a send ends because findPart found no part.       *)
RejectionJustified == SA!RejectionJustified

(* A part fetchPartList returned is found by a later checkExist or         *)
(* FetchPart unless its deletion began since the list was answered.       *)
ListedPartStaysFetchable == Q!ListedPartStaysFetchable

=============================================================================
