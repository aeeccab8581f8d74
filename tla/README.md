# TLA+ models of ByConity's part exchange and eager aggregation

These modules model two parts of the repository.

- The replicated data-part exchange of
  `src/src/Storages/MergeTree/DataPartsExchange.cpp`. The server side is
  `Service`, which answers a peer's fetch by streaming a part. The client
  side is `Fetcher`, which downloads a part into `tmp-fetch_<part>/`.
- The optimizer rule of
  `src/src/Optimizer/Rule/Rewrite/EagerAggregation.cpp`, which pushes a
  partial aggregate below a join.

The two do not interact. Every action is translated from the code. PROJECT.json's `map`
names the lines each definition stands for.

## Inventory

| Part | State | Operations | Hard behaviour |
|---|---|---|---|
| Send admission (`processQueryPart`, 153-282) | `total_sends` (static atomic), `data.current_table_sends` | validate the part name, check the caps (429), set the cookies, `++`/SCOPE_EXIT `--` on both counters, stream, report the part broken on non-network errors | concurrent HTTP handler threads; the check and the increment are separate steps; every exit path must release |
| Part send (`sendPartFromDisk`, 375-550) | the request body (old checksums), the output stream | projection loop with a recursive send, read of the old checksums, skip-copy split, counts, skip entries, files, blocker checks, final `checkEqual` | the body is shared by the recursive calls; the framing must match the receiver; cancel mid-stream |
| Part fetch to disk (`fetchPart` 613-839, `downloadPartToDisk` 1075-1159, `downloadBaseOrProjectionPartToDisk` 963-1073) | `tmp-fetch_<part>/`, `<proj>.proj/` subdirectories, files and hard links, the running manifest | blocker check, old-version lookup, POST, header, stale directory removal, projection loop, skip entries as hard links, files through a hashing buffer, INSECURE_PATH check, cancel cleanup, hash check, `assertEOF`, `checkEqual` | faults in the stream, cancel at any point, retries over what a failed attempt left, names chosen by a malicious peer |
| S3 zero-copy (`sendPartS3Metadata` 552-599, `downloadPartToS3` 1161-1253, fallback 764-775) | S3 part directory | metadata-only transfer, DIRECTORY_ALREADY_EXISTS, fallback to a normal fetch on S3_ERROR | a directory left by a failed attempt blocks later S3 fetches |
| In-memory parts (`sendPartFromMemory` 347-373, `downloadPartToMemory` 889-961) | none on disk | serialize a block and its projections; deserialize | framing of projections |
| List and existence queries (`processQuery` 130-151, `processQueryPartList` 284-329, `processQueryExist` 331-344, `findPart` 600-612, `fetchPartList` 841-886) | the table's parts and their states (owned by `MergeTreeData`) | dispatch on `qtype`; list the Committed parts of a partition, of all, or of a filter; answer 'Y'/'N'; look a FetchPart's part up and report it broken when missing | the parts change state between a client's list and its next request |
| Eager aggregation (`EagerAggregation.cpp`) | a query plan | classify aggregates, decompose them, find the bottom join, insert local aggregates, cost gate | the renaming of arguments and outputs must keep every consumer reading the column it read before; lower-casing of names before a camel-case lookup; division by a zero row count |
| Adaptive merge controller (`MergeSelectorAdaptiveController.h`) | (declarations only) | inline getters and two predicates | nothing to check without the implementation |

## Modules

- **`SendAdmission`** models the admission part of `processQueryPart` for a
  set of concurrent requests.
  - `pc[r]` is the handler's position: validation, check, the two
    increments, sending, then the two SCOPE_EXIT decrements in reverse
    order.
  - Each increment and decrement is its own step, because they are
    separate atomic operations.
  - `SendPart` chooses the outcome of the send. An "error" outcome puts
    the request into `broken`, which is the `report_broken_part` catch
    clause.
  - `MC_SendAdmission` has three requests: r1 and r2 on table t1, and r3
    on t2. Only the violation run `admission_caps` uses it; the passing
    run checks the admission inside `PartsService`.
  - The caps are 2 globally and 1 per table, so one table's cap and the
    global cap can both be met.

- **`PartQueries`** models the server's answers about its parts and the
  client that asks them.
  - `state[n]` is the `MergeTreeDataPartState` of part n, or "Absent".
    `AddPart`, `CommitPart`, `RollbackPart`, `OutdatePart`,
    `BeginDeletePart` and `RemovePart` are the lifecycle `MergeTreeData`
    drives (insert, commit or rollback, a merge covering the part, the
    cleanup). That code is not in the repository, so these actions are
    the environment. `DropTable` makes `storage.lock()` fail.
  - `ProcessQuery` is the dispatch of `Service::processQuery`.
    `ProcessQueryPartList` answers UNKNOWN_TABLE after a drop, a syntax
    error for a filter that does not parse, and otherwise the names of
    `PartsOfList`: the Committed parts matching the filter, or the
    Committed parts of the partition (or of all partitions) without the
    drop-range placeholders. `ProcessQueryExist` answers whether
    `getPartIfExists` finds the part in PreCommitted, Committed or
    Outdated (`FindPart`). `ProcessQueryPartLookup` is the `findPart`
    of a FetchPart: when it throws NO_SUCH_DATA_PART, the catch clause
    reports the requested name in `reported`.
  - The client sends one request at a time (`creq`), and the answer waits
    in `resp`. `SendList` and `ReadList` are `fetchPartList`; an error
    status leaves the caller's `listed` as it was. `SendLookup` asks
    checkExist or FetchPart for a part, noting whether the part was in
    `listed`.
  - `deleting` is a history variable: the parts whose deletion began
    since the last list answer. Each lookup answer carries it, so that a
    property can relate the answer to the list.

- **`PartsService`** composes `SendAdmission` and `PartQueries` over one
  table, as the server runs them: the FetchPart handlers and the
  list/exist queries interleave with the part lifecycle. `ServePart` is
  `SendPart` with the `findPart` of `PartQueries`: a handler whose part
  is missing must take the error outcome, and the name goes into
  `reported` whenever a send reports its part broken.

- **`PartFetch`** models one part being fetched from a sender into the
  receiver's disk. The part is a base part plus the projections in
  `projSeq`, which `Init` chooses from `ProjSeqs`. One run therefore covers
  the part with and without projections.
  - The sender's variables (`srv`, `srvPlan`, `bodyRead`,
    `reportedBroken`) follow `processQueryPart` and `sendPartFromDisk`.
  - The stream is `wire`, a FIFO of frames. Each frame stands for the
    fields the code writes together: the header, a projection name, a
    file-list header (file count, compact-map flag, skip count), a
    skip-copy entry, or a file.
  - The receiver's variables (`cli`, `cliUnit`, `cliDir`, `toSkip`,
    `toRecv`, `sums`) follow the loops of `downloadPartToDisk` and
    `downloadBaseOrProjectionPartToDisk`.
  - The disk is `tmpDir`, `projDirs`, `files` and `outside`. `outside`
    records anything created outside `tmp-fetch_<part>/`.
  - The environment can do five things (`FaultKinds` and `TamperKinds`
    choose which of them a run allows):
    - cancel the fetcher's blocker;
    - break the stream (the sender's blocker or a network error);
    - corrupt a file in flight;
    - for a malicious sender, replace a name with an escaping path
      (`Escape`);
    - retry a failed fetch, keeping the disk.

  - Compact-map parts. `Init` chooses `compact`, the part's
    `enable_compact_map_data`, from `CompactChoices`. In a compact part
    the implicit map keys (`Implicit`) share one map file at the sender's
    offsets `SrcOffset`:
    - the sender never skip-copies them (`Skippable`);
    - it sends the files in any order sorted by offset (`SendOrders`,
      an unstable `std::sort`);
    - the receiver reads the flag from the file-list frame
      (`cliCompact`). It appends each implicit key to its own map file
      (`WriteStream`) and records the map file's size before the write
      as the key's offset (`OffsetOf`, `offsets`).
    A map file is a sequence of stream contents, so offsets count
    streams. The part as read after the download takes an implicit key
    from the map file at the recorded offset (`Content`). This stands
    for the checksums.txt that `adjustDiffImplicitKeyOffset` rewrites.
    What the model shows:
    - Rewriting instead of appending breaks `ImplementsPartTransfer`,
      and so does an offset of 0.
    - Sending in name order instead of offset order does not break it.
      The receiver's offsets come from its own map file, not from the
      sender's.
    - A map file left in a reused download directory would not break
      it either. `downloadPartToDisk` removes such a directory anyway.

  - In-memory parts. `Init` chooses `partType` from `PartTypes`, and the
    header frame carries it:
    - for an InMemory part the sender writes one frame per projection
      and one for the base part (`SendPartFromMemory`). Each frame holds
      the unit's checksums and its block, and a block is abstracted to
      its files' contents;
    - the receiver builds the part in `memPart` without touching the
      disk (`ReadHeaderInMemory`, `ReadMemoryUnit`);
    - checkEqual of the rebuilt block against the checksums read is the
      only check. A block damaged in flight fails it
      (`ReadMemoryUnitMismatch`);
    - neither side polls its blocker, and the part is returned after the
      base block without `assertEOF`. `fetch_memory_cancel` shows the
      consequence.

  Every fault counts against `MaxFaults`. A file's content stands for
  its hash. `incremental` is one flag for both sides, because the server
  echoes the client's `fetch_part_incrementally` in the cookie. The old
  version's content is fixed; whether `getOldVersionPartIfExists` finds
  it is chosen anew on each attempt.

- **`PartFetchS3`** models the zero-copy fetch between replicas that share
  S3 storage. It covers the `send_s3_metadata` branch of
  `processQueryPart`, `sendPartS3Metadata`, the S3 branch of `fetchPart`,
  and `downloadPartToS3`.
  - The sender streams the part's local metadata files. An entry of the
    checksums that is a directory (`DirEntries`, i.e. `<proj>.proj`)
    makes it throw CORRUPTED_DATA and report the part broken. `Init`
    chooses the part's directory entries (`dirEntries`) from
    `DirEntryChoices`.
  - The receiver refuses an existing `tmp-fetch_<part>/` with
    DIRECTORY_ALREADY_EXISTS. It writes files without a path check,
    removes the directory on cancel and keeps it on the other failures.
  - An S3_ERROR of a disk operation (`S3Error`) leads to the single
    fallback, an ordinary fetch. That fetch is represented by its
    abstract promise from `PartTransfer` (`FallbackFetch`: the part, or
    a failure). `PartFetch` is checked to implement that promise.
  - `MC_PartFetchS3` has a part with two metadata files, and a part
    whose checksums also list a projection directory.
  - A hostile sender is not modelled here: its names reach the disk
    unchecked (1213), the defect `fetch_escape` shows on the disk path.

- **`PartTransfer`** is the abstract promise of a fetch. The receiver
  either has nothing, or in one step gets an exact copy of the sender's
  part. The sender's part is the variable `source`, which no step
  changes, so that the refining module can map it to its own choice.
  - `PartFetch` implements it under the mapping "`fetched` is the
    downloaded files when `cli = "ok"`, else nothing".
  - This is checked as the property `ImplementsPartTransfer`.

- **`MC_PartFetch`** has a base part of two files (n1, n2), with or
  without one projection p1 (`MCAnyProjections`). The projection's file
  n1 has a different content from the base part's n1. The violation runs
  take the part with the projection only (`MCOneProjection`).
  - Both names are implicit map keys. In a compact part the base part
    has them at offsets 2 (n1) and 0 (n2): the reverse of name order,
    with offset 1 freed by a clear-map-key command. The receiver's
    offsets (1 and 0) therefore differ from the sender's.
  - `fetch_part` takes both layouts; the violation runs take the
    non-compact layout only.

  Contents are {0, 1}, and the old version takes every assignment
  of contents. So a skip decision, and linking the wrong file, are both
  possible.

- **`EagerAggregation`** models one application of
  `EagerAggregation::transformImpl`. The plan may have a Projection
  between the top aggregate and the first join.
  - A plan node is a record: a scan, an inner equi-join (`lk[i] = rk[i]`),
    an aggregate with a key set and a sequence of aggregate
    descriptions, or a projection. A projection maps each output name to
    an expression (`ident`, `plus` or `multiIf`, with identifiers and
    literals as operands), and keeps the `name_to_type` its step was
    built with (`types`). A function name is a sequence of tokens, so
    `getStateName` appends `"State"`. `getClassOfAggFunc` lower-cases
    every token (`LowerToken`) before it looks the name up in the
    camel-case set, as the code does.
  - The state is the input plan, the session settings (`everyJoin` for
    `agg_push_down_every_join`, the join-id block and white lists, the
    threshold), the phase `pc`, the targets of `determineBottomJoin`,
    the targets still to visit, and `output` (`new_global_agg_node`).
  - The actions are the phases of `transformImpl`:
    - `MatchPattern`: the pattern and the first join;
    - `Decompose`: `decomposeAggJoin` (`AggJoin`) and, under a
      Projection, `decomposeProjection` (`ProjDec`). The projection is
      decomposed in one of two ways:
      - the deep parse (`DeepParse`): `agg(multiIf(c, x, ...))` gets a
        local `agg(x)` named `inter#x`;
      - the whole push (`FullPush`): every non-identity assignment reads
        one side.
    - `Search`: `determineBottomJoin`, the recursive `FindBottomJoin`.
      It starts from the left or right deep-parsed aggregates, or from
      all aggregates (`Start`). A Projection pushed whole needs a side
      that produces every symbol it reads (pattern 1).
    - `PushDown` / `SkipTarget`: `canAggPushDown` and
      `doInsertAggregation`. A Projection pushed whole is dropped from
      the top and rebuilt under the local aggregate
      (`PushedProjection`). Otherwise it stays on top with its names,
      expressions and types mapped (`MappedProjection`);
    - a Projection between two joins is passed through once by
      `FindBottomJoin` when each of its non-identity assignments reads one
      symbol (`ProjExprToOrigin`, `proj_expr_to_origin_column`). Keys
      computed by it are replaced by their source column (`ToOrigin`), and
      the target is marked `through`. `UpdateUntilBottomJoin` then pushes
      the local aggregate through every Projection below a join
      (`ThroughProjection`, `push_through_final_projection`): the
      assignment of an aggregated column `x` becomes `inter#x`. A
      Projection below a join that is not over a join is the code's
      LOGICAL_ERROR (`ProjectionNotOverJoin`);
    - `Finish`.
  - `PushDown` goes to `"error"` when `AggregateFunctionFactory::get` of a
    `-Merge` function would throw, i.e. when its argument is not a state
    of the same function (`FactoryThrows`).
  - The statistics of the child are chosen from `StatsChoices`: unknown,
    or a row count with an NDV and a null count per column.
    `canAggPushDown` is modelled with its arithmetic:
    - `Cndvs`: the NDVs of the known keys, each plus one when the column
      has nulls, sorted in descending order;
    - `RowCount`: the product, kept as a rational `<<num, den>>`. A key is
      skipped when the child has over 1000000 rows, the product would
      exceed the rows, and the key's NDV is under a thousandth of the
      first. Otherwise it is multiplied in, damped by the correlation
      coefficient when coefficient times NDV is at least 1;
    - `ReducesEnough`: rows / predicted > threshold, and false for a
      predicted count of 0.
  - For the properties, `Eval` executes a plan over bags of rows.
    `AggValue` gives sum, count, max, min, uniqExact and the -State and
    -Merge forms of count and uniqExact. These are ClickHouse semantics,
    not code of this repository, and are marked `spec_modelled`.
    `TypeOf` gives each column's type: plain, or the state of a function.

- **`MC_EagerAggregation`** has three scans, `t1(a, x)`, `t2(b, y)` and
  `t3(c, z)`, and the joins `t1 JOIN t2 ON a = b` (10) and
  `(t1 JOIN t2) JOIN t3 ON b = c` (11).
  - `MCPlans` pushes left, right and two levels down. It includes keys on
    both sides, count and uniqExact (the -State/-Merge split), a plan
    that nothing can be pushed into, `anyLast` (refused by the
    classifier), a plan without a join, and a join whose child is
    already an aggregate.
  - Its aggregates each read their own argument, which is neither a
    group-by key nor a join key. The three cases outside that are the
    defects below.
  - `MCProjectionPlans` puts a Projection under the top aggregate.
    It covers:
    - `sum(multiIf(y, x, 0))` and `max(multiIf(a, x, 0))`, which are
      deep-parsed into the left side;
    - `sum(multiIf(a, y, 0))`, deep-parsed into the right side;
    - `sum(x + 1)` and `uniqExact(x + 1)`, pushed whole one and two
      joins down;
    - an identity projection;
    - `multiIf(y, a, 0)`, which reads both sides and is refused;
    - `(t1 JOIN t2)` under a Projection (22) that passes `x` and computes
      `a2` from `a` (as `a + 1`, or as a rename), joined with `t3` on
      `a2 = c` (13). Both plans are pushed through the Projection
      into `t1`.

    The pass run checks `MCAllPlans`, the union of the two sets. The
    multiIf condition is `operand = 1`.
  - A table is any bag of at most two rows over {1, 2}, so a group can
    hold two values or one value twice.
  - `MCStatsChoices` gives the gate unknown statistics, a row count
    without key statistics, small statistics and big statistics.

## Runs

| Run | Expect | What it shows |
|---|---|---|
| `parts_service` | pass | Every 429 is given while the requests inside the send path really fill a cap, also when sends end because the part was gone (`RejectionJustified`). A part that a list answer named is found by a later checkExist or FetchPart unless its deletion began after the list was answered (`ListedPartStaysFetchable`): a merge that makes it Outdated in between does not hide it, and a list never names a part that could vanish without being deleted. |
| `admission_caps` | violation | `SendsWithinCaps` fails. Two handlers for t1 both pass the check before either increments, and both stream. |
| `fetch_part` | pass | With and without a projection, a Wide or an InMemory part, incremental or not, one fault and one retry. The framing agrees (`FramingAgrees`). Skip entries can always be hard-linked, because the stale directory is removed first (`SkipEntriesLinkable`). The manifest built from skip entries and files is the part's checksums (`ManifestComplete`). A returned part equals the sender's (`ImplementsPartTransfer`), also for an in-memory part and for a compact part whose implicit keys are appended to the receiver's map file in offset order and read back at the offsets the receiver recorded. For a compact part, the implicit-key streams reach the receiver's map file in ascending order of the sender's `file_offset`, as spec 5 requires (`MapFileInOffsetOrder`). The sender's sort (476), the receiver's appends and the removal of a map file left by a failed attempt all take part. |
| `fetch_broken_report` | violation | An incremental fetch of a part with a projection, with no fault: the base part's `old_checksums.read(body)` (421) finds the body already consumed by the projection's call. The sender reports the healthy part broken, and the fetch fails. |
| `fetch_cleanup` | violation | With cancels as the only fault, a cancel during the projection's download removes only `<proj>.proj/`. `tmp-fetch_<part>/` remains, against the spec's "cancellation cleanliness". With broken streams or corruption allowed, the same property also fails through CHECKSUM_DOESNT_MATCH or truncation, which the spec says clean up and the code does not. |
| `fetch_memory_cancel` | violation | An InMemory part whose fetch is cancelled after the header: the receiver still reads the block on the wire and goes on to return the part (`NoChunkAfterCancel`). `downloadPartToMemory` (889) takes no blocker and `sendPartFromMemory` (347) checks none. Spec 5 says the blocker is polled between chunks and a cancelled fetch fails with ABORTED. The same property holds for a Wide part: `downloadBaseOrProjectionPartToDisk` checks the blocker in its loop over skip entries (998) and during and after the copy of every file (1047, 1049). |
| `fetch_escape` | violation | A projection name `../x` creates a directory outside the download directory (1123). A skip-copy name escapes the same way through the hard link (994-996). |
| `s3_fetch` | pass | For a part with or without a projection directory, a zero-copy fetch with one fault and one retry satisfies `TypeOK` and `FramingAgrees`. It returns only the sender's files, directly or through the fallback (`ImplementsPartTransfer`). |
| `s3_stale_dir` | violation | A zero-copy fetch that failed half-way leaves its directory. The fault-free retry fails with DIRECTORY_ALREADY_EXISTS, and since that is not S3_ERROR, there is no fallback. |
| `s3_broken_report` | violation | `sendPartS3Metadata` of an intact part with a projection sends `<proj>.proj` as a metadata file, throws CORRUPTED_DATA, and reports the part broken. |
| `eager_rewrite` | pass | On nineteen plans, ten of them with a Projection, and four settings, the rule never throws and returns a plan whose every step reads names its child produces, with the right types (`RewriteWellFormed`). A rewritten plan returns the same rows as the input on every database of the model (`SemanticEquivalence`). |
| `eager_shared_argument` | violation | `sum(x) AS s, max(x) AS m GROUP BY a` over `t1 JOIN t2 ON a = b`: only `s` is renamed to `inter#x` (566-572), so the top `max` reads the local sum. For a group with x = 1 and x = 2 it returns 3 instead of 2. |

For every property of a passing run, PROJECT.json lists a mutant. A
mutant is a plausible slip in the mapped code that makes TLC find the
property violated. Examples: the decrement leaked, the stale-directory
removal dropped, the hash comparison dropped, the projection loop off by
one.

### Bounds

- **SendAdmission and PartsService.** Three requests on two tables, with
  caps of 2 and 1, give every interleaving of two requests on one table
  against a third request on another table.
  - In `PartsService` all three ask for the one part p1, of partition a,
    and the client may list partition a, partition b, all, or filter f
    (which selects p1), or send filter g, which does not parse. One part
    suffices for `ListedPartStaysFetchable`, which is about one part
    across a list and a later lookup. The lifecycle may cycle
    (a removed name can be added again), so the state space is finite
    without a bound. The run has 1.9 million states and takes about a
    minute. A second part (a drop-range placeholder), even with only two
    requests, took nearly four minutes.
- **PartFetch and PartFetchS3.** `MaxFaults = 1` and `MaxAttempts = 2` cover three cases:
  - every kind of fault at every frame of the first attempt;
  - the second attempt running over what the first left on disk;
  - a fault-free second attempt.

  Two files, one projection, and contents {0, 1} make every combination
  of "skipped" and "sent", and of "equal" and "different", possible.
  Two implicit keys are the fewest that make an append follow another.
  With different contents, a key read at the other key's offset shows.
  Offsets 2 and 0 make the sender's offsets, its order and the
  receiver's offsets all differ. Every run finishes in seconds.

- **EagerAggregation.** A plan has at most two joins, and there are four
  setting combinations. Together they cover every step of the search:
  - left and right sides, two levels;
  - `agg_push_down_every_join`;
  - the blocklist and the whitelist;
  - the skipped aggregating child.

  The statistics are unknown, known without a key, small (four rows,
  one key with nulls), or big (2000000 rows). The big ones exercise the
  skip rule through `agg_push_down_every_join` on the two-join plan.
  Tables of up to two rows are enough for every defect below. It takes
  two rows in one group to tell a sum from a max or a count, and one
  joined row to tell a sum from a join key. The two plans with a Projection
  between the joins compute the join key `a2` in it, as `a + 1` and as a
  rename, grouped by `c` and by `a2`. In both, the local aggregate
  groups by the source column `a` (`ToOrigin`). The run takes a few seconds.

### Fairness

- **SendAdmission and PartsService** state no liveness. A counter that
  leaks on an exit path is caught as a safety violation instead: the
  next 429 is not justified (`RejectionJustified`). Deadlock is checked
  in `parts_service`: the part lifecycle can always move.
- **PartFetch and PartFetchS3** state no liveness, and `Spec` has no
  fairness. Every read of the receiver either consumes a frame or
  throws, so no receiver state waits forever on a well-formed stream,
  and a liveness property would only restate that. `CHECK_DEADLOCK FALSE`
  is set because a fetch really ends, in "ok" or in a failure with no
  retry left.
  - The conditions that would otherwise make the receiver throw or hang
    are stated as invariants instead: a hard link that fails, and a
    final `checkEqual` that fails.
- **EagerAggregation** is sequential and terminates, and no liveness is
  stated for it. `CHECK_DEADLOCK FALSE` is set because `done`, `refused`
  and `error` are where `transformImpl` returns.

### Defects of EagerAggregation beyond the violation run

With the plan set of `eager_shared_argument` changed, TLC finds the
following. Each is listed as a hazard in PROJECT.json.

- **An aggregate whose argument is a group-by key.**
  `sum(a) GROUP BY a` breaks `SemanticEquivalence`. The aggregate is left
  out of the pushed set (1037-1043) and kept at the top, where it now
  sums one row per local group. `count(a)` becomes `countMerge` over a
  plain column, and the factory throws (`RewriteWellFormed`).
- **An aggregate whose argument is a join key.** `sum(a) GROUP BY y`
  with `ON a = b` breaks `SemanticEquivalence`. `a` is renamed to
  `inter#a`, and the join step is mapped with the renaming (822), so the
  join compares the local sum with `b`.
- **`count(x)` together with `sum(x)`.** The top `countMerge` reads the
  local sum, and the factory throws (`RewriteWellFormed`).
- **A deep-parsed multiIf with a non-zero else branch.**
  `sum(multiIf(y, x, 1))` breaks `SemanticEquivalence`. The else value
  is added once per local group instead of once per row (199).
- **A deep parse next to an aggregate of the other side.**
  `sum(multiIf(y, x, 0)) AS s, sum(y) AS t` breaks
  `SemanticEquivalence`. Only s1 is pushed (1007), and `sum(y)` then
  adds over one joined row per local group.
- **A deep parse next to another composed aggregate.**
  `sum(multiIf(y, x, 0)), sum(x + 1)` breaks `SemanticEquivalence`. The
  whole projection is mapped (687, with a TODO saying so), so `x + 1`
  reads the local sum.
- **`count` under a mapped projection.** `count(x)` under an identity
  projection, or `count(multiIf(y, x, 0))`, makes the factory throw
  (`RewriteWellFormed`). The mapped projection keeps the type of `x`
  for `inter#x` (691), so `countMerge` is built on a plain column.
- **A Projection over a scan next to a Projection between joins.**
  `Join(Projection(t1 JOIN t2), Projection(t3))` reaches the
  "projection must be followed by join" LOGICAL_ERROR (643)
  (`RewriteWellFormed`). The local aggregate is pushed through every
  Projection below a join, including the one over `t3`.
- **A key computed from the aggregated column between joins.**
  `sum(x) GROUP BY k` with `k := x + 1` in the Projection between the
  joins breaks `RewriteWellFormed`. Only the assignment of `x` is
  rewritten to `inter#x` (660), so `k` still reads `x`, which the local
  aggregate no longer outputs.
- **The classifier.** It lower-cases the name and then looks it up in a
  set spelled in camel case (60-84). So `anyLast`, `sumWithOverflow`,
  `groupBitAnd` and the other camel-case names are classed UNKNOWN, and
  the whole rewrite is refused. Spec 4.1 lists them as basic. This is a
  missed optimisation, not a wrong result. The model reproduces it (the
  `anyLast` plan is refused), but no run checks it.

## Not modelled (yet)

- **`adjustDiffImplicitKeyOffset` and `loadColumnsChecksumsIndexes`.**
  They are not in the repository. The model takes the rewritten
  checksums.txt to hold the offsets recorded during the download.
- **Files without checksums, and `.cdata`/`.cmrk` files** that are not
  sent. They depend on `loadColumnsChecksumsIndexes`, which is not in the
  repository.
- **Protocol versions below 7.** This Fetcher always asks for 7.
- **The part lifecycle and `getPartsByPredicate`** of `MergeTreeData`.
  They are not in the repository. The lifecycle is the environment of
  `PartQueries` (Deleting is never rolled back to Outdated), and a filter
  is taken to select among the Committed parts.
- **`reportBrokenPart`.** Not in the repository. A FetchPart of a part
  the server no longer has reports the requested name
  (`ProcessQueryPartLookup`, `ServePart`). The model reaches this, but no
  property says whether that is harmful, because that depends on
  `reportBrokenPart`.
- **The client of checkExist** is not in the repository. `SendLookup`
  stands for any caller.
- **In-memory parts: a projection not stored in memory** (a
  LOGICAL_ERROR that an in-memory part cannot reach). The partition and
  min-max index rebuilt from the block are not modelled either.
- **`lockSharedData`** (the zero-copy lock in the coordination service).
- **Join filters in EagerAggregation.** The modelled joins are
  equi-joins without a filter, so the filter symbols that
  `find_bottom_join` adds to the required names are not modelled.
- **The adaptive merge controller.** The header declares `init`,
  `needOptimizeWriteAmplification`, `getWriteAmplification` and
  `getMaxPartsAndRows`, and the implementation file is not in the
  repository. What is left inline are two predicates over an
  estimator's counters (`isRealTimePartition`, `haveEnoughInfo`) and
  getters. The class holds no state between calls that a step could
  change, so there is no behaviour for TLC to check.

## Further work

1. **Composition.** Check the S3 fallback against `PartFetch` itself,
   rather than against its abstraction.
2. **Hostile sender on the S3 path.** Metadata names reach the disk
   unchecked (1213).
3. **EagerAggregation**: join filters, and a violation run for one of
   the defects above if a run slot frees up.
4. **The cost gate of EagerAggregation** (`canAggPushDown`) is modelled
   and reached by `eager_rewrite`, but no property states what it should
   decide. Spec 4.4 skips a correlated key when the partial product
   "already exceeds" the row count. Read literally, that skip never
   changes the prediction once it is clamped to the row count, so the
   spec gives no reference to check the code's test (896) against.
