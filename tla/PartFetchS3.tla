---------------------------- MODULE PartFetchS3 ----------------------------
(***************************************************************************)
(* The zero-copy fetch of DataPartsExchange.cpp: when both replicas keep   *)
(* the part on the same S3 storage and allow_remote_fs_zero_copy_replication*)
(* is set, the sender (processQueryPart, sendPartS3Metadata) streams only  *)
(* the small local metadata files of the part, and the receiver            *)
(* (the S3 branch of Fetcher::fetchPart, downloadPartToS3) writes them     *)
(* into tmp-fetch_<part>/ on its S3 disk.  On S3_ERROR the receiver falls  *)
(* back, once, to an ordinary fetch, the one PartFetch models; here that   *)
(* fetch is represented by what it promises, PartTransfer.                 *)
(*                                                                         *)
(* As in PartFetch, the stream is a FIFO of frames, a file's content is    *)
(* also its hash, the environment injects bounded faults and the caller    *)
(* retries a failed fetch with the disk as the failed attempt left it.     *)
(***************************************************************************)
EXTENDS Naturals, Sequences, FiniteSets

CONSTANTS
    Names,        \* entries of the part's checksums, with files without checksums
    NameOrder,    \* Names in the order of the checksums map
    DirEntryChoices, \* the sets of entries that may be directories on disk
                  \* (<proj>.proj of a part with projections)
    Src,          \* Src[n]: content of metadata file n on the sender
    Values,       \* file contents (= their hashes)
    MaxFaults,    \* bound on injected faults over the whole run
    MaxAttempts,  \* bound on fetch attempts by the caller
    Nothing       \* no content: a missing file, or no fetched part

ASSUME NameOrder \in Seq(Names) /\ Len(NameOrder) = Cardinality(Names)
ASSUME DirEntryChoices \subseteq SUBSET Names /\ Src \in [Names -> Values]
ASSUME Nothing \notin Values

(* Frames: the header (cookies, size, TTL infos, part type, UUID), the     *)
(* part id with the file count, and one metadata file (name, size, bytes,  *)
(* hash).                                                                 *)
Frame ==
         [k : {"header"}]
    \cup [k : {"meta"}, files : Nat]
    \cup [k : {"file"}, name : Names, data : Values, h : Values]

VARIABLES
    dirEntries,   \* entries of the sender's part that are directories
    srv,          \* sender: "idle", "header", "meta", "send", "done", "failed"
    srvPlan,      \* checksum entries still to be sent
    reportedBroken, \* the sender called data.reportBrokenPart
    wire,         \* frames written and not yet read
    cli,          \* receiver: "start", "header", "meta", "file", "finalize",
                  \* "fallback", "ok", "ok_fallback", "failed"
    toRecv,       \* metadata files still to be read
    failure,      \* why the last attempt failed
    s3Dir,        \* tmp-fetch_<part>/ exists on the receiver's S3 disk
    s3Files,      \* s3Files[n]: metadata file n in that directory
    cancelled,    \* the Fetcher's blocker is cancelled
    faults,       \* faults injected so far
    faulted,      \* a fault hit the current attempt
    attempt       \* number of the current attempt

senderVars == <<dirEntries, srv, srvPlan, reportedBroken>>
receiverVars == <<cli, toRecv, failure>>
diskVars == <<s3Dir, s3Files>>
envVars == <<cancelled, faults, faulted, attempt>>
vars == <<senderVars, wire, receiverVars, diskVars, envVars>>

Reading == {"header", "meta", "file"}

Fail(why) == cli' = "failed" /\ failure' = why

(* disk->removeSharedRecursive(part_download_path). *)
RemoveS3Dir ==
    /\ s3Dir' = FALSE
    /\ s3Files' = [n \in Names |-> Nothing]

-----------------------------------------------------------------------------
(***************************************************************************)
(* Sender.                                                                 *)
(***************************************************************************)

(* processQueryPart with send_s3_metadata=1 on an S3 disk: the header      *)
(* fields, then sendPartS3Metadata.                                        *)
ProcessQueryPartS3 ==
    /\ srv = "header"
    /\ wire' = Append(wire, [k |-> "header"])
    /\ srv' = "meta"
    /\ UNCHANGED <<dirEntries, srvPlan, reportedBroken, receiverVars, diskVars,
                   envVars>>

(* sendPartS3Metadata: every entry of the checksums (no projection entry  *)
(* is removed), lockSharedData, the part id and the file count.            *)
SendPartS3Metadata ==
    /\ srv = "meta"
    /\ wire' = Append(wire, [k |-> "meta", files |-> Len(NameOrder)])
    /\ srvPlan' = NameOrder
    /\ srv' = "send"
    /\ UNCHANGED <<dirEntries, reportedBroken, receiverVars, diskVars, envVars>>

(* One metadata file: its name, size, bytes and hash. *)
SendMetadataFile ==
    /\ srv = "send"
    /\ Head(srvPlan) \notin dirEntries
    /\ LET n == Head(srvPlan) IN
         wire' = Append(wire, [k |-> "file", name |-> n, data |-> Src[n],
                               h |-> Src[n]])
    /\ srvPlan' = Tail(srvPlan)
    /\ srv' = IF Tail(srvPlan) = << >> THEN "done" ELSE "send"
    /\ UNCHANGED <<dirEntries, reportedBroken, receiverVars, diskVars, envVars>>

(* An entry that is not a regular file: CORRUPTED_DATA, which the catch   *)
(* clause of processQueryPart answers with reportBrokenPart.               *)
MetadataNotAFile ==
    /\ srv = "send"
    /\ Head(srvPlan) \in dirEntries
    /\ srv' = "failed"
    /\ reportedBroken' = TRUE
    /\ UNCHANGED <<dirEntries, srvPlan, wire, receiverVars, diskVars, envVars>>

-----------------------------------------------------------------------------
(***************************************************************************)
(* Receiver.                                                               *)
(***************************************************************************)

(* fetchPart: the blocker check and the POST with send_s3_metadata=1. *)
FetchPartS3 ==
    /\ cli = "start"
    /\ ~cancelled
    /\ cli' = "header"
    /\ srv' = "header"
    /\ UNCHANGED <<dirEntries, srvPlan, reportedBroken, wire, toRecv, failure,
                   diskVars, envVars>>

FetchCancelledAtStart ==
    /\ cli = "start"
    /\ cancelled
    /\ Fail("aborted")
    /\ UNCHANGED <<senderVars, wire, toRecv, diskVars, envVars>>

(* The send_s3_metadata cookie: size and TTL infos, the reservation, part *)
(* type and UUID.                                                          *)
ReadHeaderS3 ==
    /\ cli = "header"
    /\ wire /= << >> /\ Head(wire).k = "header"
    /\ wire' = Tail(wire)
    /\ cli' = "meta"
    /\ UNCHANGED <<senderVars, toRecv, failure, diskVars, envVars>>

(* Slip: the part id is counted as one more file. *)
DownloadPartToS3CountsPartId ==
    /\ cli = "meta"
    /\ wire /= << >> /\ Head(wire).k = "meta"
    /\ ~s3Dir
    /\ s3Dir' = TRUE
    /\ toRecv' = Head(wire).files + 1
    /\ cli' = "file"
    /\ wire' = Tail(wire)
    /\ UNCHANGED <<senderVars, failure, s3Files, envVars>>

(* Slip: one file fewer than announced is read. *)
DownloadPartToS3MissesOne ==
    /\ cli = "meta"
    /\ wire /= << >> /\ Head(wire).k = "meta"
    /\ ~s3Dir
    /\ s3Dir' = TRUE
    /\ toRecv' = Head(wire).files - 1
    /\ cli' = IF Head(wire).files - 1 > 0 THEN "file" ELSE "finalize"
    /\ wire' = Tail(wire)
    /\ UNCHANGED <<senderVars, failure, s3Files, envVars>>

(* downloadPartToS3: the part id, and the directory, which must not exist; *)
(* then the file count.                                                    *)
DownloadPartToS3 ==
    /\ cli = "meta"
    /\ wire /= << >> /\ Head(wire).k = "meta"
    /\ ~s3Dir
    /\ s3Dir' = TRUE
    /\ toRecv' = Head(wire).files
    /\ cli' = IF Head(wire).files > 0 THEN "file" ELSE "finalize"
    /\ wire' = Tail(wire)
    /\ UNCHANGED <<senderVars, failure, s3Files, envVars>>

DirectoryAlreadyExists ==
    /\ cli = "meta"
    /\ wire /= << >> /\ Head(wire).k = "meta"
    /\ s3Dir
    /\ wire' = Tail(wire)
    /\ Fail("dir_exists")
    /\ UNCHANGED <<senderVars, toRecv, diskVars, envVars>>

(* Slip: the received hash is read but not compared. *)
ReadMetadataFileUnverified ==
    /\ cli = "file"
    /\ wire /= << >> /\ Head(wire).k = "file"
    /\ LET f == Head(wire) IN
         /\ s3Files' = [s3Files EXCEPT ![f.name] = f.data]
         /\ ~cancelled
    /\ wire' = Tail(wire)
    /\ toRecv' = toRecv - 1
    /\ cli' = IF toRecv > 1 THEN "file" ELSE "finalize"
    /\ UNCHANGED <<senderVars, failure, s3Dir, envVars>>

(* One metadata file, written to part_download_path / file_name with no   *)
(* check of the name; then the blocker check and the hash comparison.     *)
ReadMetadataFile ==
    /\ cli = "file"
    /\ wire /= << >> /\ Head(wire).k = "file"
    /\ LET f == Head(wire) IN
         /\ s3Files' = [s3Files EXCEPT ![f.name] = f.data]
         /\ ~cancelled
         /\ f.data = f.h
    /\ wire' = Tail(wire)
    /\ toRecv' = toRecv - 1
    /\ cli' = IF toRecv > 1 THEN "file" ELSE "finalize"
    /\ UNCHANGED <<senderVars, failure, s3Dir, envVars>>

ReadMetadataFileCancelled ==
    /\ cli = "file"
    /\ wire /= << >> /\ Head(wire).k = "file"
    /\ cancelled
    /\ RemoveS3Dir
    /\ wire' = Tail(wire)
    /\ Fail("aborted")
    /\ UNCHANGED <<senderVars, toRecv, envVars>>

(* CHECKSUM_DOESNT_MATCH: thrown with the directory left in place. *)
ReadMetadataFileMismatch ==
    /\ cli = "file"
    /\ wire /= << >> /\ Head(wire).k = "file"
    /\ ~cancelled
    /\ LET f == Head(wire) IN
         /\ f.data /= f.h
         /\ s3Files' = [s3Files EXCEPT ![f.name] = f.data]
    /\ wire' = Tail(wire)
    /\ Fail("checksum")
    /\ UNCHANGED <<senderVars, toRecv, s3Dir, envVars>>

(* A read finds the stream ended. *)
ReadAfterEOF ==
    /\ cli \in Reading
    /\ wire = << >>
    /\ srv \in {"done", "failed"}
    /\ Fail("truncated")
    /\ UNCHANGED <<senderVars, wire, toRecv, diskVars, envVars>>

(* assertEOF, createPart, loadColumnsChecksumsIndexes, lockSharedData. *)
FinalizeS3 ==
    /\ cli = "finalize"
    /\ wire = << >> /\ srv \in {"done", "failed"}
    /\ cli' = "ok"
    /\ UNCHANGED <<senderVars, wire, toRecv, failure, diskVars, envVars>>

(* An S3 operation of downloadPartToS3 (checkUniqueId, exists,            *)
(* createDirectories, loadColumnsChecksumsIndexes) throws S3_ERROR: the   *)
(* fetch is retried once without S3 copy.                                 *)
S3Error ==
    /\ cli \in {"meta", "finalize"}
    /\ faults < MaxFaults
    /\ faults' = faults + 1
    /\ faulted' = TRUE
    /\ cli' = "fallback"
    /\ UNCHANGED <<senderVars, wire, toRecv, failure, diskVars, cancelled,
                   attempt>>

(* The ordinary fetch of the fallback, as PartTransfer: it returns the    *)
(* sender's part, or throws.                                              *)
FallbackFetch ==
    /\ cli = "fallback"
    /\ \/ cli' = "ok_fallback" /\ UNCHANGED failure
       \/ Fail("fallback")
    /\ UNCHANGED <<senderVars, wire, toRecv, diskVars, envVars>>

-----------------------------------------------------------------------------
(***************************************************************************)
(* Environment.                                                            *)
(***************************************************************************)

Fault ==
    /\ faults < MaxFaults
    /\ faults' = faults + 1
    /\ faulted' = TRUE

CancelFetch ==
    /\ cli \in {"start"} \cup Reading
    /\ ~cancelled
    /\ cancelled' = TRUE
    /\ Fault
    /\ UNCHANGED <<senderVars, wire, receiverVars, diskVars, attempt>>

BreakStream ==
    /\ srv \in {"header", "meta", "send"}
    /\ srv' = "failed"
    /\ Fault
    /\ UNCHANGED <<dirEntries, srvPlan, reportedBroken, wire, receiverVars,
                   diskVars, cancelled, attempt>>

CorruptInTransit ==
    /\ \E i \in 1..Len(wire), v \in Values :
         /\ wire[i].k = "file"
         /\ v /= wire[i].data
         /\ wire' = [wire EXCEPT ![i].data = v]
    /\ Fault
    /\ UNCHANGED <<senderVars, receiverVars, diskVars, cancelled, attempt>>

(* The caller fetches the part again, with S3 copy again. *)
Retry ==
    /\ cli = "failed"
    /\ attempt < MaxAttempts
    /\ attempt' = attempt + 1
    /\ cli' = "start"
    /\ srv' = "idle"
    /\ UNCHANGED dirEntries
    /\ wire' = << >>
    /\ srvPlan' = << >>
    /\ cancelled' = FALSE
    /\ faulted' = FALSE
    /\ UNCHANGED <<reportedBroken, toRecv, failure, diskVars, faults>>

-----------------------------------------------------------------------------
Init ==
    /\ dirEntries \in DirEntryChoices
    /\ srv = "idle"
    /\ srvPlan = << >>
    /\ reportedBroken = FALSE
    /\ wire = << >>
    /\ cli = "start"
    /\ toRecv = 0
    /\ failure = "none"
    /\ s3Dir = FALSE
    /\ s3Files = [n \in Names |-> Nothing]
    /\ cancelled = FALSE
    /\ faults = 0
    /\ faulted = FALSE
    /\ attempt = 1

Sender ==
    \/ ProcessQueryPartS3
    \/ SendPartS3Metadata
    \/ SendMetadataFile
    \/ MetadataNotAFile

Receiver ==
    \/ FetchPartS3
    \/ FetchCancelledAtStart
    \/ ReadHeaderS3
    \/ DownloadPartToS3
    \/ DirectoryAlreadyExists
    \/ ReadMetadataFile
    \/ ReadMetadataFileCancelled
    \/ ReadMetadataFileMismatch
    \/ ReadAfterEOF
    \/ FinalizeS3
    \/ FallbackFetch

Environment ==
    \/ CancelFetch
    \/ BreakStream
    \/ CorruptInTransit
    \/ S3Error
    \/ Retry

Next == Sender \/ Receiver \/ Environment

Spec == Init /\ [][Next]_vars

-----------------------------------------------------------------------------
TypeOK ==
    /\ dirEntries \in DirEntryChoices
    /\ srv \in {"idle", "header", "meta", "send", "done", "failed"}
    /\ srvPlan \in Seq(Names)
    /\ reportedBroken \in BOOLEAN
    /\ wire \in Seq(Frame)
    /\ cli \in {"start", "finalize", "fallback", "ok", "ok_fallback", "failed"}
                \cup Reading
    /\ toRecv \in 0..Len(NameOrder)
    /\ failure \in {"none", "aborted", "dir_exists", "checksum", "truncated",
                    "fallback"}
    /\ s3Dir \in BOOLEAN
    /\ s3Files \in [Names -> Values \cup {Nothing}]
    /\ cancelled \in BOOLEAN /\ faulted \in BOOLEAN
    /\ faults \in 0..MaxFaults /\ attempt \in 1..MaxAttempts

(* The frame at the head of the stream is the one the receiver reads      *)
(* next, and the stream is empty at assertEOF: the file count written by   *)
(* sendPartS3Metadata matches the loop of downloadPartToS3.               *)
ExpectedKind == [s \in Reading |-> s]

FramingAgrees ==
    /\ (cli \in Reading /\ wire /= << >>) => Head(wire).k = ExpectedKind[cli]
    /\ cli = "finalize" => wire = << >>

(* Refinement: a zero-copy fetch, with its fallback, implements            *)
(* PartTransfer.  A part returned by downloadPartToS3 has exactly the      *)
(* sender's metadata files; one returned by the fallback is the sender's   *)
(* part by PartTransfer.                                                  *)
PT == INSTANCE PartTransfer
        WITH source <- Src, NoPart <- Nothing,
             fetched <- CASE cli = "ok" -> s3Files
                          [] cli = "ok_fallback" -> Src
                          [] OTHER -> Nothing

ImplementsPartTransfer == PT!Spec

(* A fetch fails only when a fault hit that attempt: a retry of a failed  *)
(* zero-copy fetch, with nothing going wrong, succeeds.                   *)
NoFailureWithoutFault == cli = "failed" => faulted

(* The sender reports a part broken only when it is: sendPartS3Metadata   *)
(* of an intact part never ends in reportBrokenPart.                      *)
HealthyPartNeverReportedBroken == ~reportedBroken

=============================================================================
