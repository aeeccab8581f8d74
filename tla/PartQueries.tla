---------------------------- MODULE PartQueries -----------------------------
(***************************************************************************)
(* The part-exchange server's answers about its parts, and the client     *)
(* that asks them (DataPartsExchange.cpp):                                 *)
(*   - Service::processQuery dispatches on qtype;                         *)
(*   - processQueryPartList answers FetchList with the names of the local  *)
(*     parts of a partition, of all partitions, or matching a filter;     *)
(*   - processQueryExist answers checkExist with 'Y' or 'N';              *)
(*   - findPart looks the part of a FetchPart up; when it throws           *)
(*     NO_SUCH_DATA_PART the catch clause of processQueryPart calls       *)
(*     report_broken_part with no part found, which reports the name;     *)
(*   - Fetcher::fetchPartList sends FetchList and reads the count and the *)
(*     names back.                                                         *)
(* The admission and the streaming of a FetchPart are SendAdmission and   *)
(* PartFetch; here a FetchPart is its lookup only.                        *)
(*                                                                         *)
(* The parts change state while the client works: MergeTreeData adds a    *)
(* part as PreCommitted, commits or rolls it back, a merge makes it       *)
(* Outdated, the cleanup makes it Deleting and removes it.  That code is   *)
(* not in the repository; its transitions are the environment.            *)
(***************************************************************************)
EXTENDS Naturals, FiniteSets

CONSTANTS
    Parts,          \* part names (model values)
    Partitions,     \* partition ids
    PartitionOf,    \* PartitionOf[n]: the partition of part n
    DropRangeParts, \* parts for which info.isFakeDropRangePart() holds
    Filters,        \* filter expressions a client may send
    BadFilters,     \* those parseQuery throws SYNTAX_ERROR on
    FilterMatch,    \* FilterMatch[f]: the parts predicate f selects
    All,            \* the partition id "all"
    NoFilter        \* the empty filter

ASSUME PartitionOf \in [Parts -> Partitions]
ASSUME DropRangeParts \subseteq Parts /\ BadFilters \subseteq Filters
ASSUME FilterMatch \in [Filters -> SUBSET Parts]
ASSUME All \notin Partitions /\ NoFilter \notin Filters

VARIABLES
    state,    \* state[n]: the MergeTreeDataPartState of part n, or "Absent"
    dropped,  \* the table was dropped: storage.lock() returns null
    creq,     \* the request the client has sent and not had answered
    resp,     \* the server's answer, not yet read by the client
    listed,   \* the names the last fetchPartList returned
    reported, \* names passed to data.reportBrokenPart
    deleting  \* history: parts whose deletion began since the last list

queryVars == <<state, dropped, creq, resp, listed,
               reported, deleting>>

States == {"Absent", "PreCommitted", "Committed", "Outdated", "Deleting"}

Ids == Partitions \cup {All}

Lookups == {"checkExist", "FetchPart"}

None == [qtype |-> "none"]

-----------------------------------------------------------------------------
(* The environment: MergeTreeData moves a part along its lifecycle.       *)
Trans(n, from, to) ==
    /\ state[n] = from
    /\ state' = [state EXCEPT ![n] = to]

AddPart(n) ==
    /\ Trans(n, "Absent", "PreCommitted")
    /\ UNCHANGED <<dropped, creq, resp, listed, reported,
                   deleting>>

CommitPart(n) ==
    /\ Trans(n, "PreCommitted", "Committed")
    /\ UNCHANGED <<dropped, creq, resp, listed, reported,
                   deleting>>

RollbackPart(n) ==
    /\ Trans(n, "PreCommitted", "Absent")
    /\ UNCHANGED <<dropped, creq, resp, listed, reported,
                   deleting>>

OutdatePart(n) ==
    /\ Trans(n, "Committed", "Outdated")
    /\ UNCHANGED <<dropped, creq, resp, listed, reported,
                   deleting>>

BeginDeletePart(n) ==
    /\ Trans(n, "Outdated", "Deleting")
    /\ deleting' = deleting \cup {n}
    /\ UNCHANGED <<dropped, creq, resp, listed, reported>>

RemovePart(n) ==
    /\ Trans(n, "Deleting", "Absent")
    /\ UNCHANGED <<dropped, creq, resp, listed, reported,
                   deleting>>

DropTable ==
    /\ ~dropped
    /\ dropped' = TRUE
    /\ UNCHANGED <<state, creq, resp, listed, reported,
                   deleting>>

-----------------------------------------------------------------------------
(* data.getPartIfExists(name, {PreCommitted, Committed, Outdated}), used  *)
(* by findPart and processQueryExist.                                      *)
Visible == {"PreCommitted", "Committed", "Outdated"}

(* Slip: only Committed parts are looked up, so a part a merge has just   *)
(* made Outdated is answered NO_SUCH_DATA_PART.                            *)
FindPartCommittedOnly(n) == state[n] = "Committed"

FindPart(n) == state[n] \in Visible

(* The parts of the answer to FetchList: getPartsByPredicate for a        *)
(* filter; otherwise the Committed parts of getDataPartsVector() ("all")  *)
(* or of getDataPartsVectorInPartition, with the drop-range placeholders  *)
(* erased.                                                                 *)
Committed == {n \in Parts : state[n] = "Committed"}

PartsOfList(id, filter) ==
    IF filter /= NoFilter
    THEN Committed \cap FilterMatch[filter]
    ELSE {n \in Committed : id \in {All, PartitionOf[n]}} \ DropRangeParts

-----------------------------------------------------------------------------
(* Fetcher::fetchPartList: a POST with qtype FetchList, id and filter.     *)
SendList(id, filter) ==
    /\ creq = None /\ resp = None
    /\ creq' = [qtype |-> "FetchList", id |-> id, filter |-> filter]
    /\ UNCHANGED <<state, dropped, resp, listed, reported,
                   deleting>>

(* A checkExist or FetchPart request for part n, sent by the client that  *)
(* may have had n in a list answer.                                        *)
SendLookup(n, q) ==
    /\ creq = None /\ resp = None
    /\ creq' = [qtype |-> q, part |-> n, listed |-> n \in listed]
    /\ UNCHANGED <<state, dropped, resp, listed, reported, deleting>>

(* processQueryPartList: UNKNOWN_TABLE when the table is gone, a syntax   *)
(* error for a filter that does not parse, else the count and the names.  *)
(* The history resets: deletions are counted from a list answer on.      *)
ProcessQueryPartList ==
    /\ creq.qtype = "FetchList"
    /\ resp' = IF dropped \/ creq.filter \in BadFilters
               THEN [qtype |-> "FetchList", ok |-> FALSE]
               ELSE [qtype |-> "FetchList", ok |-> TRUE,
                     names |-> PartsOfList(creq.id, creq.filter)]
    /\ deleting' = IF resp'.ok THEN {} ELSE deleting
    /\ creq' = None
    /\ UNCHANGED <<state, dropped, listed, reported>>

(* The answer to a lookup, with the history of the part since the list.  *)
Answer(req, found) ==
    [qtype |-> req.qtype, part |-> req.part, listed |-> req.listed,
     found |-> found, deleted |-> req.part \in deleting]

(* processQueryExist: one byte, 'Y' when getPartIfExists finds the part.  *)
ProcessQueryExist ==
    /\ creq.qtype = "checkExist"
    /\ resp' = Answer(creq, FindPart(creq.part))
    /\ creq' = None
    /\ UNCHANGED <<state, dropped, listed, reported,
                   deleting>>

(* The lookup of processQueryPart: findPart throws NO_SUCH_DATA_PART, the *)
(* catch (const Exception &) clause calls report_broken_part, and with no *)
(* part found that reports the requested name.                            *)
ProcessQueryPartLookup ==
    /\ creq.qtype = "FetchPart"
    /\ resp' = Answer(creq, FindPart(creq.part))
    /\ reported' = IF FindPart(creq.part) THEN reported
                   ELSE reported \cup {creq.part}
    /\ creq' = None
    /\ UNCHANGED <<state, dropped, listed, deleting>>

(* Service::processQuery: the handler chosen by qtype.                     *)
ProcessQuery ==
    \/ ProcessQueryPartList
    \/ ProcessQueryExist
    \/ ProcessQueryPartLookup

(* fetchPartList reads num_parts and then the names; an error status       *)
(* throws and leaves the caller's list as it was.                          *)
ReadList ==
    /\ resp.qtype = "FetchList"
    /\ listed' = IF resp.ok THEN resp.names ELSE listed
    /\ resp' = None
    /\ UNCHANGED <<state, dropped, creq, reported,
                   deleting>>

ReadLookup ==
    /\ resp.qtype \in Lookups
    /\ resp' = None
    /\ UNCHANGED <<state, dropped, creq, listed, reported, deleting>>

Init ==
    /\ state = [n \in Parts |-> "Absent"]
    /\ dropped = FALSE
    /\ creq = None /\ resp = None
    /\ listed = {}
    /\ reported = {} /\ deleting = {}

Environment ==
    \/ \E n \in Parts :
         \/ AddPart(n) \/ CommitPart(n) \/ RollbackPart(n)
         \/ OutdatePart(n) \/ BeginDeletePart(n) \/ RemovePart(n)
    \/ DropTable

Client ==
    \/ \E id \in Ids, filter \in Filters \cup {NoFilter} : SendList(id, filter)
    \/ \E n \in Parts, q \in Lookups : SendLookup(n, q)
    \/ ReadList
    \/ ReadLookup

Next == Environment \/ Client \/ ProcessQuery

Spec == Init /\ [][Next]_queryVars

-----------------------------------------------------------------------------
Request == [qtype : {"FetchList"}, id : Ids, filter : Filters \cup {NoFilter}]
           \cup [qtype : Lookups, part : Parts, listed : BOOLEAN]

Reply == [qtype : Lookups, part : Parts, listed : BOOLEAN,
          found : BOOLEAN, deleted : BOOLEAN]

TypeOK ==
    /\ state \in [Parts -> States]
    /\ dropped \in BOOLEAN
    /\ creq \in Request \cup {None}
    /\ resp \in Reply \cup {None}
               \cup [qtype : {"FetchList"}, ok : {FALSE}]
               \cup [qtype : {"FetchList"}, ok : {TRUE}, names : SUBSET Parts]
    /\ listed \subseteq Parts
    /\ reported \subseteq Parts
    /\ deleting \subseteq Parts

(* A part that fetchPartList returned is still found by a later checkExist *)
(* or FetchPart of the same part unless the server has begun to delete it *)
(* since it answered the list: a merge that makes it Outdated in between   *)
(* does not make it vanish (the comment of findPart), and a list never     *)
(* names a part that can vanish without being deleted (a PreCommitted part *)
(* rolled back).  The client acts on a list it read several steps ago.     *)
ListedPartStaysFetchable ==
    resp.qtype \in Lookups /\ resp.listed /\ ~resp.deleted => resp.found

=============================================================================
