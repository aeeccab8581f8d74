----------------------------- MODULE PartFetch -----------------------------
(***************************************************************************)
(* The replicated part exchange of DataPartsExchange.cpp: one replica      *)
(* (Fetcher::fetchPart and downloadPartToDisk) fetches one part, a base    *)
(* part with its projection parts, from another replica                    *)
(* (Service::processQueryPart and sendPartFromDisk) over one HTTP stream,  *)
(* optionally incrementally: files whose checksum equals that of the       *)
(* receiver's older version of the part are hard-linked, not sent.         *)
(*                                                                         *)
(* Sender and receiver run concurrently; the stream is a FIFO of frames.   *)
(* The environment may cancel the fetch (the Fetcher's ActionBlocker),     *)
(* break the stream (the Service's blocker, a network error), flip bytes   *)
(* of a file in transit, or, for a malicious sender, put a path escaping   *)
(* the download directory into a frame.  A failed fetch is retried by the  *)
(* caller; the receiver's disk persists across attempts.                   *)
(*                                                                         *)
(* Data is abstracted to one content value per file, which is also its     *)
(* hash (a 128-bit hash collision is not modelled).  Only the current      *)
(* protocol version (7, the one this Fetcher asks for) is modelled.        *)
(*                                                                         *)
(* A part may store its map columns compactly (part->versions->           *)
(* enable_compact_map_data): the implicit-key streams of a map share one   *)
(* map file, each at the file_offset its checksum records.  The sender    *)
(* sends them sorted by offset, reading each from its offset; the         *)
(* receiver appends them to its own map file and records the offsets it   *)
(* wrote them at.  A map file is a sequence of stream contents, so an     *)
(* offset counts streams, not bytes.                                      *)
(*                                                                         *)
(* A part of type InMemory is sent as blocks (sendPartFromMemory) and     *)
(* built in memory by the receiver (downloadPartToMemory), in the same    *)
(* stream and under the same faults.                                      *)
(***************************************************************************)
EXTENDS Naturals, Sequences, FiniteSets

LOCAL SE == INSTANCE SequencesExt

CONSTANTS
    Base,         \* the base part, as a download unit
    ProjSeqs,     \* the projection lists, in the order of getProjectionParts(),
                  \* the sender's part may have
    Names,        \* file names
    NameOrder,    \* all names in the order of the checksums map (by name)
    FilesOf,      \* FilesOf[u]: names of the checksummed files of unit u
    Values,       \* file contents (= their hashes)
    Src,          \* Src[u][n]: content of file n of unit u on the sender
    Escape,       \* a name such as "../../x" that leaves the download dir
    TamperKinds,  \* frame kinds a malicious sender may put Escape into
    FaultKinds,   \* faults of the stream that may happen: cancel, break, corrupt
    MaxFaults,    \* bound on injected faults over the whole run
    MaxAttempts,  \* bound on fetch attempts by the caller
    HasOldVersion, \* possible answers of data.getOldVersionPartIfExists
    Implicit,     \* names of implicit map-key streams (isMapImplicitKey)
    MapFile,      \* the map file they are stored in when the part is compact
    SrcOffset,    \* SrcOffset[u][n]: file_offset in the sender's checksums
    CompactChoices, \* possible values of the part's enable_compact_map_data
    PartTypes,    \* possible types of the sender's part: "Wide", "InMemory"
    Nothing       \* no content: a missing file, or no fetched part

AllProjections == UNION {{s[i] : i \in 1..Len(s)} : s \in ProjSeqs}
AllUnits == AllProjections \cup {Base}

ASSUME Nothing \notin Values
ASSUME Base \notin AllProjections /\ Escape \notin Names \cup AllUnits
ASSUME FilesOf \in [AllUnits -> SUBSET Names \ {{}}]
ASSUME NameOrder \in Seq(Names) /\ Len(NameOrder) = Cardinality(Names)
ASSUME HasOldVersion \subseteq BOOLEAN /\ HasOldVersion /= {}
ASSUME Src \in [AllUnits -> [Names -> Values]]
ASSUME TamperKinds \subseteq {"proj", "skip", "file"}
ASSUME FaultKinds \subseteq {"cancel", "break", "corrupt"}
ASSUME Implicit \subseteq Names /\ MapFile \notin Names \cup {Escape}
ASSUME SrcOffset \in [AllUnits -> [Names -> Nat]]
ASSUME CompactChoices \subseteq BOOLEAN /\ CompactChoices /= {}
ASSUME PartTypes \subseteq {"Wide", "InMemory"} /\ PartTypes /= {}

(* The block of an in-memory unit, abstracted to its files' contents. *)
Blocks == UNION {[FilesOf[u] -> Values] : u \in AllUnits}

(* Frames of the FetchPart response body. *)
Frame ==
         [k : {"header"}, type : {"Wide", "InMemory"}]
    \cup [k : {"proj"}, u : AllProjections \cup {Escape}]
    \cup [k : {"list"}, files : Nat, skips : Nat, compact : BOOLEAN]
    \cup [k : {"skip"}, name : Names \cup {Escape}, h : Values]
    \cup [k : {"file"}, name : Names \cup {Escape}, data : Values, h : Values]
    \cup [k : {"mem"}, u : AllUnits, sums : Blocks, block : Blocks]

(* A file on the receiver's disk: its content, and whether it is a hard   *)
(* link to a file of the receiver's older version of the part.  A map     *)
(* file holds the sequence of the streams appended to it.                 *)
Absent == [c |-> Nothing, link |-> FALSE]
Entry == [c : Values, link : BOOLEAN] \cup {Absent}
MapEntry == [c : Seq(Values), link : {FALSE}] \cup {Absent}
Dirs == AllUnits \cup {Escape}
Stored == Names \cup {MapFile}

VARIABLES
    (* sender *)
    srv,          \* "idle", "header", "proj", "plan", "send", "done", "failed"
    srvUnit,      \* index of the unit being sent
    srvPlan,      \* skip and file frames of that unit still to be written
    bodyRead,     \* the request body (old checksums) has been consumed
    reportedBroken, \* the sender called data.reportBrokenPart
    (* stream *)
    wire,         \* frames written and not yet read
    (* receiver *)
    cli,          \* "start", "header", "proj_name", "list", "skip", "file",
                  \* "finalize", "ok", "failed"
    cliUnit,      \* index of the unit being received
    cliDir,       \* directory the current unit is written to
    toSkip, toRecv, \* skip and file frames of that unit still to be read
    incremental,  \* old_version_part is set (and the sender agreed)
    oldPart,      \* content of the receiver's older version of the base part
    sums,         \* running manifest: set of <<dir, name, hash>>
    offsets,      \* offsets[<<dir, name>>]: file_offset of the manifest entry
    memPart,      \* memPart[u]: block of unit u of a part fetched to memory
    cliCompact,   \* the compact-map flag read for the current unit
    failure,      \* why the last attempt failed
    (* receiver's disk *)
    tmpDir,       \* tmp-fetch_<part>/ exists
    projDirs,     \* <proj>.proj/ subdirectories that exist
    files,        \* files[<<dir, name>>]: file in the download directory
    outside,      \* something was created outside tmp-fetch_<part>/
    (* environment *)
    projSeq,      \* the projections of the sender's part
    compact,      \* the sender's part stores its maps compactly
    partType,     \* the type of the sender's part
    cancelled,    \* the Fetcher's blocker is cancelled
    faults,       \* faults injected so far
    faulted,      \* a fault hit the current attempt
    attempt       \* number of the current attempt

senderVars == <<srv, srvUnit, srvPlan, bodyRead, reportedBroken>>
receiverVars == <<cli, cliUnit, cliDir, toSkip, toRecv, incremental, oldPart,
                  sums, offsets, memPart, cliCompact, failure>>
diskVars == <<tmpDir, projDirs, files, outside>>
envVars == <<projSeq, compact, partType, cancelled, faults, faulted, attempt>>
vars == <<senderVars, wire, receiverVars, diskVars, envVars>>

Projections == {projSeq[i] : i \in 1..Len(projSeq)}
Units == Projections \cup {Base}
NP == Len(projSeq)
NU == NP + 1
(* The unit the i-th file list of the stream belongs to. *)
UnitAt(i) == IF i <= NP THEN projSeq[i] ELSE Base

-----------------------------------------------------------------------------
(* The names of a set, in checksum-map order. *)
Ordered(S) == SelectSeq(NameOrder, LAMBDA n : n \in S)

(* Slip: the implicit-key streams are sent in checksum-map order, not     *)
(* sorted by file_offset.                                                 *)
SendOrdersByName(u, S) == {Ordered(S)}

(* The sent files as checksums_vector orders them: in checksum-map order, *)
(* or, for a compact part, sorted by file_offset with an unstable sort, so *)
(* files of equal offset come in any order.                               *)
SendOrders(u, S) ==
    IF compact
    THEN {s \in SE!SetToSeqs(S) :
            SE!IsSorted(s, LAMBDA a, b : SrcOffset[u][a] <= SrcOffset[u][b])}
    ELSE {Ordered(S)}

(* An implicit-key stream of a compact part is never skip-copied. *)
Skippable(n) == ~(compact /\ n \in Implicit)

(* Slip: the old version's file is reused when it has the name, whatever *)
(* its checksum.                                                           *)
SameInOldByName(old, u, n) == n \in DOMAIN old

(* checksums.isEqual(old_checksums, file_name): the old version has a    *)
(* file of that name with the same size and hash.                          *)
SameInOld(old, u, n) == n \in DOMAIN old /\ old[n] = Src[u][n]

(* What the receiver's disk looks like after disk->removeRecursive(d):   *)
(* removing tmp-fetch_<part>/ removes the projection directories in it.  *)
RemoveDownloadDir(d) ==
    /\ files' = [p \in DOMAIN files |->
                   IF d = Base \/ p[1] = d THEN Absent ELSE files[p]]
    /\ tmpDir' = (tmpDir /\ d /= Base)
    /\ projDirs' = IF d = Base THEN {} ELSE projDirs \ {d}

(* Slip: a tmp-fetch_<part>/ left by a failed fetch is reused as it is. *)
ReuseDownloadDir ==
    /\ tmpDir' = TRUE
    /\ UNCHANGED <<files, projDirs>>

(* downloadPartToDisk: a tmp-fetch_<part>/ that already exists, probably  *)
(* the result of a failed fetch, is removed; then it is created empty.     *)
RecreateDownloadDir ==
    /\ files' = [p \in DOMAIN files |-> Absent]
    /\ projDirs' = {}
    /\ tmpDir' = TRUE

Active == {"header", "proj", "plan", "send", "mem"}
Reading == {"header", "proj_name", "list", "skip", "file", "mem"}

-----------------------------------------------------------------------------
(***************************************************************************)
(* Sender: Service::processQueryPart and Service::sendPartFromDisk.        *)
(***************************************************************************)

(* processQueryPart: cookies, then size, TTL infos, part type, UUID and   *)
(* the number of projections (protocol 7, no S3 metadata asked for).      *)
ProcessQueryPart ==
    /\ srv = "header"
    /\ wire' = Append(wire, [k |-> "header", type |-> partType])
    /\ srvUnit' = 1
    /\ srv' = CASE partType = "InMemory" -> "mem"
              [] NP >= 1 -> "proj"
              [] OTHER -> "plan"
    /\ UNCHANGED <<srvPlan, bodyRead, reportedBroken, receiverVars, diskVars,
                   envVars>>

(* The loop over the projection parts writes the projection name before  *)
(* the recursive sendPartFromDisk of that projection.                     *)
SendProjectionName ==
    /\ srv = "proj"
    /\ wire' = Append(wire, [k |-> "proj", u |-> projSeq[srvUnit]])
    /\ srv' = "plan"
    /\ UNCHANGED <<srvUnit, srvPlan, bodyRead, reportedBroken, receiverVars,
                   diskVars, envVars>>

(* Start of sendPartFromDisk for one unit: with fetch_part_incrementally  *)
(* it reads the old checksums from the request body; then it splits the   *)
(* files into skip-copy entries (equal in the old version) and sent files *)
(* and writes the file count, the compact-map flag and the skip count.    *)
(* An implicit key is read from the map file at its offset, which yields  *)
(* the stream's content.                                                  *)
SendPartFromDisk ==
    /\ srv = "plan"
    /\ ~(incremental /\ bodyRead)
    /\ LET u == UnitAt(srvUnit)
           skip == {n \in FilesOf[u] :
                      incremental /\ Skippable(n) /\ SameInOld(oldPart, u, n)}
           send == FilesOf[u] \ skip
       IN  /\ wire' = Append(wire, [k |-> "list", files |-> Cardinality(send),
                                    skips |-> Cardinality(skip),
                                    compact |-> compact])
           /\ \E order \in SendOrders(u, send) :
                srvPlan' =
                  [i \in 1..Len(Ordered(skip)) |->
                     [k |-> "skip", name |-> Ordered(skip)[i],
                      h |-> Src[u][Ordered(skip)[i]]]]
                  \o [i \in 1..Len(order) |->
                     [k |-> "file", name |-> order[i],
                      data |-> Src[u][order[i]], h |-> Src[u][order[i]]]]
    /\ bodyRead' = (bodyRead \/ incremental)
    /\ srv' = "send"
    /\ UNCHANGED <<srvUnit, reportedBroken, receiverVars, diskVars, envVars>>

(* old_checksums.read(body) when an earlier sendPartFromDisk of the same  *)
(* request (the one of a projection) has already consumed the body, which *)
(* the receiver wrote once: the read fails (an EOF parse exception, or    *)
(* false and FORMAT_VERSION_TOO_OLD), and the catch clause of             *)
(* processQueryPart reports the part broken and rethrows.                 *)
OldChecksumsUnreadable ==
    /\ srv = "plan"
    /\ incremental /\ bodyRead
    /\ srv' = "failed"
    /\ reportedBroken' = TRUE
    /\ UNCHANGED <<srvUnit, srvPlan, bodyRead, wire, receiverVars, diskVars,
                   envVars>>

(* The block of unit u of the sender's in-memory part. *)
BlockOf(u) == [n \in FilesOf[u] |-> Src[u][n]]

(* sendPartFromMemory: for each projection its name, its checksums and   *)
(* its block, then the base part's checksums and block.  The sender's    *)
(* blocker is not checked.                                                *)
SendPartFromMemory ==
    /\ srv = "mem"
    /\ LET u == UnitAt(srvUnit) IN
         wire' = Append(wire, [k |-> "mem", u |-> u, sums |-> BlockOf(u),
                               block |-> BlockOf(u)])
    /\ srvUnit' = IF srvUnit < NU THEN srvUnit + 1 ELSE srvUnit
    /\ srv' = IF srvUnit < NU THEN "mem" ELSE "done"
    /\ UNCHANGED <<srvPlan, bodyRead, reportedBroken, receiverVars, diskVars,
                   envVars>>

(* Slip: after the last file of the last unit the unit index still moves *)
(* on, past the base part.                                                 *)
SendEntryPastLast ==
    /\ srv = "send"
    /\ wire' = Append(wire, Head(srvPlan))
    /\ srvPlan' = Tail(srvPlan)
    /\ IF Tail(srvPlan) /= << >>
       THEN UNCHANGED <<srv, srvUnit>>
       ELSE /\ srvUnit' = srvUnit + 1
            /\ srv' = IF srvUnit + 1 <= NP THEN "proj"
                      ELSE IF srvUnit < NU THEN "plan" ELSE "done"
    /\ UNCHANGED <<bodyRead, reportedBroken, receiverVars, diskVars, envVars>>

(* One skip-copy entry (name, size, hash) or one file (name, size, bytes, *)
(* hash).  After the last one of a unit, the next projection, the base    *)
(* part, or the end: part->getChecksums()->checkEqual(data_checksums)     *)
(* holds for an intact part on the sender's disk.                          *)
SendEntry ==
    /\ srv = "send"
    /\ wire' = Append(wire, Head(srvPlan))
    /\ srvPlan' = Tail(srvPlan)
    /\ IF Tail(srvPlan) /= << >>
       THEN UNCHANGED <<srv, srvUnit>>
       ELSE IF srvUnit < NU
            THEN /\ srvUnit' = srvUnit + 1
                 /\ srv' = IF srvUnit + 1 <= NP THEN "proj" ELSE "plan"
            ELSE /\ srv' = "done"
                 /\ UNCHANGED srvUnit
    /\ UNCHANGED <<bodyRead, reportedBroken, receiverVars, diskVars, envVars>>

-----------------------------------------------------------------------------
(***************************************************************************)
(* Receiver: Fetcher::fetchPart, downloadPartToDisk and                    *)
(* downloadBaseOrProjectionPartToDisk.                                     *)
(***************************************************************************)

(* Slip: the projection loop runs once too often. *)
StageAfterOffByOne(s, r) ==
    CASE s > 0 -> "skip"
      [] r > 0 -> "file"
      [] cliUnit <= NP -> "proj_name"
      [] cliUnit = NP + 1 -> "list"
      [] OTHER -> "finalize"

(* The stage after one more frame of the current unit was read, with s    *)
(* skip entries and r files of it left: the loops of                       *)
(* downloadBaseOrProjectionPartToDisk, then the projection loop of        *)
(* downloadPartToDisk, then the base part, then the end of the stream.    *)
StageAfter(s, r) ==
    CASE s > 0 -> "skip"
      [] r > 0 -> "file"
      [] cliUnit < NP -> "proj_name"
      [] cliUnit = NP -> "list"
      [] OTHER -> "finalize"

AdvanceTo(s, r) ==
    /\ toSkip' = s
    /\ toRecv' = r
    /\ cli' = StageAfter(s, r)
    /\ cliUnit' = IF s = 0 /\ r = 0 /\ cliUnit < NU THEN cliUnit + 1 ELSE cliUnit
    /\ cliDir' = IF s = 0 /\ r = 0 /\ cliUnit = NP THEN Base ELSE cliDir

Fail(why) == cli' = "failed" /\ failure' = why

(* fetchPart: the blocker check, the lookup of an older version of the    *)
(* part (only when fetching incrementally; a merge may have removed it    *)
(* since the last attempt) and the POST whose body is the old version's   *)
(* serialized checksums.                                                  *)
FetchPart ==
    /\ cli = "start"
    /\ ~cancelled
    /\ \E hasOld \in HasOldVersion : incremental' = hasOld
    /\ cli' = "header"
    /\ srv' = "header"
    /\ UNCHANGED <<srvUnit, srvPlan, bodyRead, reportedBroken, wire, cliUnit,
                   cliDir, toSkip, toRecv, oldPart, sums, offsets, memPart,
                   cliCompact, failure, diskVars, envVars>>

FetchCancelledAtStart ==
    /\ cli = "start"
    /\ cancelled
    /\ Fail("aborted")
    /\ UNCHANGED <<senderVars, wire, cliUnit, cliDir, toSkip, toRecv,
                   incremental, oldPart, sums, offsets, memPart, cliCompact,
                   diskVars, envVars>>

(* The header fields, the reservation, then downloadPartToDisk: a         *)
(* tmp-fetch_<part>/ left by a failed fetch is removed, and the directory *)
(* is created.                                                            *)
ReadHeader ==
    /\ cli = "header"
    /\ wire /= << >> /\ Head(wire).k = "header" /\ Head(wire).type = "Wide"
    /\ wire' = Tail(wire)
    /\ RecreateDownloadDir
    /\ cliUnit' = 1
    /\ cliDir' = Base
    /\ cli' = IF NP >= 1 THEN "proj_name" ELSE "list"
    /\ UNCHANGED <<senderVars, toSkip, toRecv, incremental, oldPart, sums,
                   offsets, memPart, cliCompact, failure, outside, envVars>>

(* The header of an InMemory part: downloadPartToMemory builds a new part *)
(* in memory and touches no directory.                                    *)
ReadHeaderInMemory ==
    /\ cli = "header"
    /\ wire /= << >> /\ Head(wire).k = "header" /\ Head(wire).type = "InMemory"
    /\ wire' = Tail(wire)
    /\ cliUnit' = 1
    /\ memPart' = [u \in AllUnits |-> Nothing]
    /\ cli' = "mem"
    /\ UNCHANGED <<senderVars, cliDir, toSkip, toRecv, incremental, oldPart,
                   sums, offsets, cliCompact, failure, diskVars, envVars>>

(* downloadPartToMemory, one unit: a projection's name, or the base part, *)
(* then checksums.read and the block.  The block is written back through  *)
(* MergedBlockOutputStream and the checksums of the result compared with  *)
(* the ones read (checkEqual).  The blocker is never checked, and after   *)
(* the base part the part is returned without assertEOF.                  *)
MemoryUnitFrame ==
    /\ cli = "mem"
    /\ wire /= << >> /\ Head(wire).k = "mem"
    /\ wire' = Tail(wire)

ReadMemoryUnit ==
    /\ MemoryUnitFrame
    /\ LET f == Head(wire) IN
         /\ f.block = f.sums
         /\ memPart' = [memPart EXCEPT ![IF cliUnit <= NP THEN f.u ELSE Base] =
                                          f.block]
    /\ cliUnit' = IF cliUnit < NU THEN cliUnit + 1 ELSE cliUnit
    /\ cli' = IF cliUnit < NU THEN "mem" ELSE "ok"
    /\ UNCHANGED <<senderVars, cliDir, toSkip, toRecv, incremental, oldPart,
                   sums, offsets, cliCompact, failure, diskVars, envVars>>

(* checkEqual throws CHECKSUM_DOESNT_MATCH. *)
ReadMemoryUnitMismatch ==
    /\ MemoryUnitFrame
    /\ Head(wire).block /= Head(wire).sums
    /\ Fail("checksum")
    /\ UNCHANGED <<senderVars, cliUnit, cliDir, toSkip, toRecv, incremental,
                   oldPart, sums, offsets, memPart, cliCompact, diskVars,
                   envVars>>

(* The projection name, and createDirectories(<path><name>.proj/): the    *)
(* name is not checked, so an escaping name creates a directory outside.  *)
ReadProjectionName ==
    /\ cli = "proj_name"
    /\ wire /= << >> /\ Head(wire).k = "proj"
    /\ LET d == Head(wire).u IN
         /\ projDirs' = IF d = Escape THEN projDirs ELSE projDirs \cup {d}
         /\ outside' = (outside \/ d = Escape)
         /\ cliDir' = d
    /\ wire' = Tail(wire)
    /\ cli' = "list"
    /\ UNCHANGED <<senderVars, cliUnit, toSkip, toRecv, incremental, oldPart,
                   sums, offsets, memPart, cliCompact, failure, tmpDir, files,
                   envVars>>

(* The file count, the compact-map flag and, with an old version, the     *)
(* skip count.                                                            *)
ReadFileList ==
    /\ cli = "list"
    /\ wire /= << >> /\ Head(wire).k = "list"
    /\ wire' = Tail(wire)
    /\ AdvanceTo(IF incremental THEN Head(wire).skips ELSE 0, Head(wire).files)
    /\ cliCompact' = Head(wire).compact
    /\ UNCHANGED <<senderVars, incremental, oldPart, sums, offsets, memPart,
                   failure, diskVars, envVars>>

(* createHardLink(old_version_part path + name, <dir>/name) succeeds:    *)
(* the name is not checked against the download directory, the old       *)
(* version (of the base part, also for a projection) has the file, and    *)
(* the destination is absent or already that link.  When it does not,     *)
(* createHardLink throws; SkipEntriesLinkable states that it never does.  *)
HardLinkOk(n) ==
    \/ n = Escape
    \/ /\ n \in FilesOf[Base]
       /\ \/ files[<<cliDir, n>>] = Absent
          \/ files[<<cliDir, n>>].link

Linked(n) ==
    IF n = Escape THEN files
    ELSE [files EXCEPT ![<<cliDir, n>>] = [c |-> oldPart[n], link |-> TRUE]]

(* Slip: a skip-copy entry is linked but not added to the manifest. *)
ReadSkipEntryUnrecorded ==
    /\ cli = "skip"
    /\ wire /= << >> /\ Head(wire).k = "skip"
    /\ LET n == Head(wire).name IN
         /\ HardLinkOk(n)
         /\ ~cancelled
         /\ files' = Linked(n)
         /\ outside' = (outside \/ n = Escape \/ cliDir = Escape)
    /\ wire' = Tail(wire)
    /\ AdvanceTo(toSkip - 1, toRecv)
    /\ UNCHANGED <<senderVars, incremental, oldPart, sums, offsets, memPart,
                   cliCompact, failure, tmpDir, projDirs, envVars>>

(* One skip-copy entry: hard-link the file from the old version, then the *)
(* blocker check, then record (name, size, hash) in the running manifest. *)
ReadSkipEntry ==
    /\ cli = "skip"
    /\ wire /= << >> /\ Head(wire).k = "skip"
    /\ LET n == Head(wire).name IN
         /\ HardLinkOk(n)
         /\ ~cancelled
         /\ files' = Linked(n)
         /\ outside' = (outside \/ n = Escape \/ cliDir = Escape)
         /\ sums' = sums \cup {<<cliDir, n, Head(wire).h>>}
    /\ wire' = Tail(wire)
    /\ AdvanceTo(toSkip - 1, toRecv)
    /\ UNCHANGED <<senderVars, incremental, oldPart, offsets, memPart,
                   cliCompact, failure, tmpDir, projDirs, envVars>>

(* The blocker is cancelled: the directory of the unit being downloaded,  *)
(* the projection's own directory for a projection, is removed.           *)
ReadSkipEntryCancelled ==
    /\ cli = "skip"
    /\ wire /= << >> /\ Head(wire).k = "skip"
    /\ LET n == Head(wire).name IN
         /\ HardLinkOk(n)
         /\ cancelled
         /\ RemoveDownloadDir(cliDir)
         /\ outside' = (outside \/ n = Escape \/ cliDir = Escape)
    /\ wire' = Tail(wire)
    /\ Fail("aborted")
    /\ UNCHANGED <<senderVars, cliUnit, cliDir, toSkip, toRecv, incremental,
                   oldPart, sums, offsets, memPart, cliCompact, envVars>>

(* need_append: an implicit key of a compact unit goes to the map file.  *)
Appended(n) == cliCompact /\ n \in Implicit
Target(n) == IF Appended(n) THEN <<cliDir, MapFile>> ELSE <<cliDir, n>>

(* file_offset: the size of the map file when it exists, else 0. *)
OffsetOf(n) ==
    IF Appended(n) /\ files[Target(n)] /= Absent
    THEN Len(files[Target(n)].c) ELSE 0

(* disk->writeFile in WriteMode::Append or WriteMode::Rewrite, and the    *)
(* copy of the stream's bytes.                                            *)
WriteStream(f) ==
    files' = [files EXCEPT ![Target(f.name)] =
                [c |-> IF Appended(f.name)
                       THEN (IF @ = Absent THEN << >> ELSE @.c) \o << f.data >>
                       ELSE f.data,
                 link |-> FALSE]]

(* checksums.addFile(stream_name, file_offset, ...) *)
RecordStream(f) ==
    /\ sums' = sums \cup {<<cliDir, f.name, f.h>>}
    /\ offsets' = [offsets EXCEPT ![<<cliDir, f.name>>] = OffsetOf(f.name)]

(* One file: the INSECURE_PATH check of the name against the directory of *)
(* the unit, the offset, the copy through a hashing buffer (appended to   *)
(* the map file or rewriting the stream's own file), the blocker check,   *)
(* then the hash comparison.                                              *)
ReadFile ==
    /\ cli = "file"
    /\ wire /= << >> /\ Head(wire).k = "file"
    /\ LET f == Head(wire) IN
         /\ f.name /= Escape
         /\ WriteStream(f)
         /\ outside' = (outside \/ cliDir = Escape)
         /\ ~cancelled
         /\ f.data = f.h
         /\ RecordStream(f)
    /\ wire' = Tail(wire)
    /\ AdvanceTo(toSkip, toRecv - 1)
    /\ UNCHANGED <<senderVars, incremental, oldPart, memPart, cliCompact,
                   failure, tmpDir, projDirs, envVars>>

ReadFileInsecurePath ==
    /\ cli = "file"
    /\ wire /= << >> /\ Head(wire).k = "file"
    /\ Head(wire).name = Escape
    /\ wire' = Tail(wire)
    /\ Fail("insecure_path")
    /\ UNCHANGED <<senderVars, cliUnit, cliDir, toSkip, toRecv, incremental,
                   oldPart, sums, offsets, memPart, cliCompact, diskVars,
                   envVars>>

ReadFileCancelled ==
    /\ cli = "file"
    /\ wire /= << >> /\ Head(wire).k = "file"
    /\ Head(wire).name /= Escape
    /\ cancelled
    /\ RemoveDownloadDir(cliDir)
    /\ outside' = (outside \/ cliDir = Escape)
    /\ wire' = Tail(wire)
    /\ Fail("aborted")
    /\ UNCHANGED <<senderVars, cliUnit, cliDir, toSkip, toRecv, incremental,
                   oldPart, sums, offsets, memPart, cliCompact, envVars>>

(* CHECKSUM_DOESNT_MATCH: thrown with the written file left in place.     *)
ReadFileChecksumMismatch ==
    /\ cli = "file"
    /\ wire /= << >> /\ Head(wire).k = "file"
    /\ LET f == Head(wire) IN
         /\ f.name /= Escape
         /\ ~cancelled
         /\ f.data /= f.h
         /\ WriteStream(f)
         /\ outside' = (outside \/ cliDir = Escape)
    /\ wire' = Tail(wire)
    /\ Fail("checksum")
    /\ UNCHANGED <<senderVars, cliUnit, cliDir, toSkip, toRecv, incremental,
                   oldPart, sums, offsets, memPart, cliCompact, tmpDir,
                   projDirs, envVars>>

(* A read finds the stream ended: the exception propagates, nothing is    *)
(* removed.                                                               *)
ReadAfterEOF ==
    /\ cli \in Reading
    /\ wire = << >>
    /\ srv \in {"done", "failed"}
    /\ Fail("truncated")
    /\ UNCHANGED <<senderVars, wire, cliUnit, cliDir, toSkip, toRecv,
                   incremental, oldPart, sums, offsets, memPart, cliCompact,
                   diskVars, envVars>>

(* The manifest the downloaded part's checksums.txt describes: every      *)
(* checksummed file of every unit, with the sender's hash.                *)
Manifest == UNION {{<<u, n, Src[u][n]>> : n \in FilesOf[u]} : u \in Units}

(* assertEOF, createPart, loadColumnsChecksumsIndexes and checkEqual of   *)
(* the loaded checksums against the running manifest (ManifestComplete    *)
(* states that the comparison never fails for an honest sender).          *)
FinalizePart ==
    /\ cli = "finalize"
    /\ wire = << >> /\ srv \in {"done", "failed"}
    /\ sums = Manifest
    /\ cli' = "ok"
    /\ UNCHANGED <<senderVars, wire, cliUnit, cliDir, toSkip, toRecv,
                   incremental, oldPart, sums, offsets, memPart, cliCompact,
                   failure, diskVars, envVars>>

-----------------------------------------------------------------------------
(***************************************************************************)
(* Environment.                                                            *)
(***************************************************************************)

Fault ==
    /\ faults < MaxFaults
    /\ faults' = faults + 1
    /\ faulted' = TRUE

(* ActionBlocker::cancel() on the Fetcher, e.g. at table shutdown. *)
CancelFetch ==
    /\ "cancel" \in FaultKinds
    /\ cli \notin {"ok", "failed"}
    /\ ~cancelled
    /\ cancelled' = TRUE
    /\ Fault
    /\ UNCHANGED <<senderVars, wire, receiverVars, diskVars, projSeq, compact,
                   partType, attempt>>

(* The sender stops writing: its blocker is cancelled (ABORTED) or the    *)
(* connection breaks (NetException); neither reports the part broken.    *)
BreakStream ==
    /\ "break" \in FaultKinds
    /\ srv \in Active
    /\ srv' = "failed"
    /\ Fault
    /\ UNCHANGED <<srvUnit, srvPlan, bodyRead, reportedBroken, wire,
                   receiverVars, diskVars, projSeq, compact, partType,
                   cancelled, attempt>>

(* Bytes of a file or of a block in flight are damaged. *)
CorruptInTransit ==
    /\ "corrupt" \in FaultKinds
    /\ \E i \in 1..Len(wire), v \in Values :
         \/ /\ wire[i].k = "file"
            /\ v /= wire[i].data
            /\ wire' = [wire EXCEPT ![i].data = v]
         \/ \E n \in Names :
              /\ wire[i].k = "mem"
              /\ n \in DOMAIN wire[i].block
              /\ v /= wire[i].block[n]
              /\ wire' = [wire EXCEPT ![i].block[n] = v]
    /\ Fault
    /\ UNCHANGED <<senderVars, receiverVars, diskVars, projSeq, compact,
                   partType, cancelled, attempt>>

(* A malicious sender puts an escaping path into a frame. *)
Tamper ==
    /\ \E i \in 1..Len(wire) :
         /\ wire[i].k \in TamperKinds
         /\ wire' = IF wire[i].k = "proj"
                    THEN [wire EXCEPT ![i].u = Escape]
                    ELSE [wire EXCEPT ![i].name = Escape]
    /\ Fault
    /\ UNCHANGED <<senderVars, receiverVars, diskVars, projSeq, compact,
                   partType, cancelled, attempt>>

(* The caller (the replication queue) fetches the part again after a     *)
(* failure; the disk, with whatever the failed attempt left, stays.      *)
Retry ==
    /\ cli = "failed"
    /\ attempt < MaxAttempts
    /\ attempt' = attempt + 1
    /\ cli' = "start"
    /\ srv' = "idle"
    /\ wire' = << >>
    /\ srvPlan' = << >>
    /\ bodyRead' = FALSE
    /\ sums' = {}
    /\ offsets' = [p \in Dirs \X Names |-> 0]
    /\ cancelled' = FALSE
    /\ faulted' = FALSE
    /\ UNCHANGED <<srvUnit, reportedBroken, cliUnit, cliDir, toSkip, toRecv,
                   memPart, cliCompact, incremental, oldPart, failure,
                   diskVars, projSeq, compact, partType, faults>>

-----------------------------------------------------------------------------
Init ==
    /\ srv = "idle"
    /\ srvUnit = 1
    /\ srvPlan = << >>
    /\ bodyRead = FALSE
    /\ reportedBroken = FALSE
    /\ wire = << >>
    /\ cli = "start"
    /\ cliUnit = 1
    /\ cliDir = Base
    /\ toSkip = 0
    /\ toRecv = 0
    /\ incremental = FALSE
    /\ oldPart \in [FilesOf[Base] -> Values]
    /\ sums = {}
    /\ offsets = [p \in Dirs \X Names |-> 0]
    /\ memPart = [u \in AllUnits |-> Nothing]
    /\ cliCompact = FALSE
    /\ failure = "none"
    /\ tmpDir = FALSE
    /\ projDirs = {}
    /\ files = [p \in Dirs \X Stored |-> Absent]
    /\ outside = FALSE
    /\ projSeq \in ProjSeqs
    /\ compact \in CompactChoices
    /\ partType \in PartTypes
    /\ cancelled = FALSE
    /\ faults = 0
    /\ faulted = FALSE
    /\ attempt = 1

Sender ==
    \/ ProcessQueryPart
    \/ SendProjectionName
    \/ SendPartFromDisk
    \/ OldChecksumsUnreadable
    \/ SendEntry
    \/ SendPartFromMemory

Receiver ==
    \/ FetchPart
    \/ FetchCancelledAtStart
    \/ ReadHeader
    \/ ReadHeaderInMemory
    \/ ReadMemoryUnit
    \/ ReadMemoryUnitMismatch
    \/ ReadProjectionName
    \/ ReadFileList
    \/ ReadSkipEntry
    \/ ReadSkipEntryCancelled
    \/ ReadFile
    \/ ReadFileInsecurePath
    \/ ReadFileCancelled
    \/ ReadFileChecksumMismatch
    \/ ReadAfterEOF
    \/ FinalizePart

Environment ==
    \/ CancelFetch
    \/ BreakStream
    \/ CorruptInTransit
    \/ Tamper
    \/ Retry

Next == Sender \/ Receiver \/ Environment

Spec == Init /\ [][Next]_vars

-----------------------------------------------------------------------------
TypeOK ==
    /\ srv \in {"idle", "failed", "done"} \cup Active
    /\ srvUnit \in 1..NU
    /\ srvPlan \in Seq(Frame)
    /\ bodyRead \in BOOLEAN /\ reportedBroken \in BOOLEAN
    /\ wire \in Seq(Frame)
    /\ cli \in {"start", "finalize", "ok", "failed"} \cup Reading
    /\ cliUnit \in 1..NU /\ cliDir \in Dirs
    /\ toSkip \in Nat /\ toRecv \in Nat
    /\ incremental \in BOOLEAN
    /\ oldPart \in [FilesOf[Base] -> Values]
    /\ sums \subseteq Dirs \X (Names \cup {Escape}) \X Values
    /\ tmpDir \in BOOLEAN /\ projDirs \subseteq Projections
    /\ offsets \in [Dirs \X Names -> Nat] /\ cliCompact \in BOOLEAN
    /\ memPart \in [AllUnits -> Blocks \cup {Nothing}]
    /\ DOMAIN files = Dirs \X Stored
    /\ \A p \in Dirs \X Stored :
         files[p] \in IF p[2] = MapFile THEN MapEntry ELSE Entry
    /\ outside \in BOOLEAN
    /\ failure \in {"none", "aborted", "insecure_path", "checksum", "truncated"}
    /\ projSeq \in ProjSeqs /\ compact \in BOOLEAN /\ partType \in PartTypes
    /\ cancelled \in BOOLEAN /\ faulted \in BOOLEAN
    /\ faults \in 0..MaxFaults /\ attempt \in 1..MaxAttempts

(* Path safety: whatever names a sender puts into the stream, the         *)
(* receiver creates no directory, link or file outside tmp-fetch_<part>/   *)
(* (the INSECURE_PATH check of downloadBaseOrProjectionPartToDisk).        *)
PathSafety == ~outside

(* The frame at the head of the stream is always of the kind the receiver *)
(* reads next, and nothing is left when it asserts EOF: the counts the     *)
(* sender writes (projections, files, skip entries, the latter only with  *)
(* fetch_part_incrementally) agree with the loops of the receiver.        *)
ExpectedKind ==
    [s \in Reading |-> CASE s = "proj_name" -> "proj"
                         [] OTHER -> s]

FramingAgrees ==
    /\ (cli \in Reading /\ wire /= << >>) => Head(wire).k = ExpectedKind[cli]
    /\ cli = "finalize" => wire = << >>

(* Every skip-copy entry the receiver reads can be hard-linked: the       *)
(* sender only skips files the receiver's old version has with the same   *)
(* checksum, and no file left by an earlier failed attempt is in the way. *)
SkipEntriesLinkable ==
    (cli = "skip" /\ wire /= << >> /\ Head(wire).k = "skip")
        => HardLinkOk(Head(wire).name)

(* When the receiver reaches the end of the stream, its running manifest  *)
(* of skip-copied and received files is exactly the part's checksums, so   *)
(* the final checkEqual passes: no file is missing or counted twice.      *)
ManifestComplete == cli = "finalize" => sums = Manifest

(* The sender reports a part broken only when the part is: here the      *)
(* sender's part is always intact, so the catch clause of                 *)
(* processQueryPart must never call reportBrokenPart, also not when the    *)
(* receiver fetches a part with projections incrementally.                *)
HealthyPartNeverReportedBroken == ~reportedBroken

(* A failed fetch leaves no tmp-fetch_<part>/ directory: after a cancel   *)
(* (ABORTED), also when it hit the download of a projection, and after a   *)
(* checksum mismatch, a truncated stream or an INSECURE_PATH name.         *)
FailedFetchLeavesNoDownloadDir == cli = "failed" => ~tmpDir

(* The files of the part as the receiver has them.  An implicit key of a  *)
(* compact part is read from the map file at the offset of this download, *)
(* which the final checksums.txt records.                                  *)
PartPaths == UNION {{<<u, n>> : n \in FilesOf[u]} : u \in Units}
Content(p) ==
    IF partType = "InMemory" THEN memPart[p[1]][p[2]]
    ELSE IF compact /\ p[2] \in Implicit
    THEN LET m == files[<<p[1], MapFile>>] IN
         IF m /= Absent /\ offsets[p] < Len(m.c) THEN m.c[offsets[p] + 1]
         ELSE Nothing
    ELSE files[p].c
Downloaded == [p \in PartPaths |-> Content(p)]
SourcePart == [p \in PartPaths |-> Src[p[1]][p[2]]]

(* Refinement: a fetch implements PartTransfer.  The receiver holds a part *)
(* exactly when fetchPart returned it, and then its files (hard-linked or  *)
(* received) are those of the sender's part, for the base part and every  *)
(* projection.                                                            *)
PT == INSTANCE PartTransfer
        WITH source <- SourcePart, NoPart <- Nothing,
             fetched <- IF cli = "ok" THEN Downloaded ELSE Nothing

ImplementsPartTransfer == PT!Spec

(* The implicit-key streams of a compact part reach the receiver's map    *)
(* file in ascending order of the sender's file_offset (spec 5): when the *)
(* download is complete, a key with a smaller offset at the sender was     *)
(* appended before, so at a smaller offset, than one with a larger.  The  *)
(* sender's sort, the wire, the receiver's appends and the removal of a   *)
(* map file left by a failed attempt all take part.                       *)
MapFileInOffsetOrder ==
    cli = "finalize" /\ cliCompact =>
        \A u \in Units : \A k1, k2 \in Implicit \cap FilesOf[u] :
            SrcOffset[u][k1] < SrcOffset[u][k2] =>
                offsets[<<u, k1>>] < offsets[<<u, k2>>]

(* The chunks of the body: a skip-copy entry, a file, the block of an     *)
(* in-memory unit.                                                         *)
Chunks == {"skip", "file", "mem"}

(* The Fetcher's blocker is polled between chunks (spec 5): once it is    *)
(* cancelled, the receiver accepts no further chunk of the body and fails *)
(* with ABORTED instead, for a part on disk and for an in-memory part.     *)
NoChunkAfterCancel ==
    [][cancelled /\ cli \in Reading /\ wire /= << >>
       /\ Head(wire).k \in Chunks /\ wire' = Tail(wire)
           => cli' = "failed"]_vars

=============================================================================
