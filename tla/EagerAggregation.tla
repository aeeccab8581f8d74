-------------------------- MODULE EagerAggregation --------------------------
(***************************************************************************)
(* The EagerAggregation rewrite rule (Optimizer/Rule/Rewrite/               *)
(* EagerAggregation.cpp): a top Aggregating step over a tree of Join steps  *)
(* gets a local Aggregating step below one join, so rows are reduced before *)
(* they are joined.  One application of transformImpl is a sequence of      *)
(* phases: match the pattern, decompose the aggregates over the two sides,  *)
(* search the bottom join (determineBottomJoin), then, for every target,    *)
(* ask the cost gate (canAggPushDown) and insert the local aggregate        *)
(* (doInsertAggregation).  A Projection may stand between the top         *)
(* aggregate and the first join (decomposeProjection and its two ways of    *)
(* pushing); a Projection between two joins is not modelled.                *)
(*                                                                          *)
(* A plan node is a record: a scan [kind, id, cols], a join [kind, id, l, r,*)
(* lk, rk] (inner equi-join, lk[i] = rk[i]), an aggregate [kind, id,        *)
(* child, keys, aggs] or a projection [kind, id, child, assign, types]; an  *)
(* aggregate description is [fn, args, col] where fn is the function name  *)
(* as a sequence of name tokens, so that getStateName("count") is          *)
(* <<"count", "State">>.  A projection maps each output name to an         *)
(* expression [fn, args, lits]: identifiers args followed by literals lits *)
(* as the operands of fn, one of "ident", "plus" and "multiIf"; types is   *)
(* the ProjectionStep's name_to_type, fixed when the step is built.        *)
(***************************************************************************)
EXTENDS Integers, Sequences, FiniteSets, SequencesExt, FiniteSetsExt, Functions, TLC

CONSTANTS
    Plans,        \* the input plans: a top Aggregating node over joins and scans
    Settings,     \* records [everyJoin, blocklist, whitelist, threshold,
                  \*          coefNum, coefDen, onlyWithFunctions]
    Contents,     \* Contents[id]: the bags of rows a scan with that id may return
    StatsChoices, \* what the cardinality estimator may return for a bottom child
    LocalAggId    \* the id nextNodeId() gives the inserted local aggregate

VARIABLES
    input,        \* the plan the rule is applied to
    settings,     \* the session settings the rule reads
    pc,           \* the phase of transformImpl
    targets,      \* the LocalGroupByTargetMap determineBottomJoin returned
    pending,      \* the targets the loop over target_map has still to visit
    output        \* new_global_agg_node

vars == <<input, settings, pc, targets, pending, output>>

-----------------------------------------------------------------------------
(* Function classes and names.                                             *)

SimpleAggregateFunctions ==
    {"any", "anyLast", "min", "max", "sum", "sumWithOverflow", "groupBitAnd",
     "groupBitOr", "groupBitXor", "sumMap", "minMap", "maxMap",
     "groupArrayArray", "groupArrayLastArray", "groupUniqArrayArray",
     "sumMappedArrays", "minMappedArrays", "maxMappedArrays"}

\* Poco::toLower on the name tokens this model uses.
LowerToken ==
    [t \in {"any", "min", "max", "sum", "count", "State", "Merge", "uniqExact",
            "anyLast", "sumWithOverflow", "groupBitAnd"} |->
        CASE t = "State" -> "state"
          [] t = "Merge" -> "merge"
          [] t = "uniqExact" -> "uniqexact"
          [] t = "anyLast" -> "anylast"
          [] t = "sumWithOverflow" -> "sumwithoverflow"
          [] t = "groupBitAnd" -> "groupbitand"
          [] OTHER -> t]

ToLower(name) == [i \in DOMAIN name |-> LowerToken[name[i]]]

\* mutant: count classed with the functions whose partial results merge as-is
getClassOfAggFuncCountBasic(name) ==
    LET n == ToLower(name) IN
    CASE n \in {<<f>> : f \in SimpleAggregateFunctions \cup {"count"}} -> "BASIC"
      [] n \in {<<"uniqexact">>}                                      -> "NEED_MERGE"
      [] OTHER                                                        -> "UNKNOWN"

\* The lower-cased name is looked up in the set as it is spelled there.
getClassOfAggFunc(name) ==
    LET n == ToLower(name) IN
    CASE n \in {<<f>> : f \in SimpleAggregateFunctions} -> "BASIC"
      [] n \in {<<"uniqexact">>, <<"count">>}            -> "NEED_MERGE"
      [] OTHER                                           -> "UNKNOWN"

getStateName(fn) == Append(fn, "State")

getMergeName(fn) == Append(fn, "Merge")

\* symbol_allocator->newSymbol("inter#" + name), for plans without such names
Inter(c) == "inter#" \o c

-----------------------------------------------------------------------------
(* Plan structure.                                                         *)

Child(n, i) == IF n.kind \in {"agg", "proj"} THEN n.child ELSE IF i = 0 THEN n.l ELSE n.r

RECURSIVE Columns(_)
\* the names of the header of a node's output stream
Columns(n) ==
    CASE n.kind = "scan" -> n.cols
      [] n.kind = "join" -> Columns(n.l) \cup Columns(n.r)
      [] n.kind = "proj" -> DOMAIN n.assign
      [] OTHER           -> n.keys \cup {a.col : a \in Range(n.aggs)}

RECURSIVE NodeIds(_)
NodeIds(n) ==
    CASE n.kind = "scan" -> {}
      [] n.kind = "join" -> {n.id} \cup NodeIds(n.l) \cup NodeIds(n.r)
      [] OTHER           -> NodeIds(n.child)

Ident(c) == [fn |-> "ident", args |-> <<c>>, lits |-> <<>>]

\* Utils::isIdentity: the expression is the identifier of its own name
IsIdentity(name, e) == e = Ident(name)

\* SymbolsExtractor::extract
Symbols(e) == Range(e.args)

\* the number of children of the function's expression list
Arity(e) == Len(e.args) + Len(e.lits)

RECURSIVE AllNames(_)
\* every name some node of the plan outputs
AllNames(n) ==
    Columns(n) \cup (CASE n.kind = "join" -> AllNames(n.l) \cup AllNames(n.r)
                      [] n.kind = "scan" -> {}
                      [] OTHER           -> AllNames(n.child))

Args(s) == UNION {Range(a.args) : a \in Range(s)}

\* NameToNameMap::emplace: an existing entry is kept
Emplace(m, k, v) == m @@ (k :> v)

-----------------------------------------------------------------------------------------------------------------------------------------------------
(* The pattern of transformImpl: an optional Projection, then a Join.      *)

ParentOfFirstJoin == IF input.child.kind = "proj" THEN input.child ELSE input

FirstJoin == ParentOfFirstJoin.child

HasProjection == input.child.kind = "proj"

Left  == Columns(FirstJoin.l)
Right == Columns(FirstJoin.r)

-----------------------------------------------------------------------------
(* decomposeAggJoin: s1 and s2 take the aggregates with one argument, not a *)
(* group-by key, from one side; the others not wholly on one side are      *)
(* composed (their argument comes from the Projection).                    *)

DecomposeAggJoin(aggs, keys, left, right) ==
    LET On(a, side) == Range(a.args) \subseteq side
        Pushable(a, side) == On(a, side) /\ Len(a.args) = 1 /\ a.args[1] \notin keys
    IN  [ok       |-> /\ \A i \in DOMAIN aggs : getClassOfAggFunc(aggs[i].fn) # "UNKNOWN"
                      /\ keys \subseteq left \cup right,
         composed |-> SelectSeq(aggs, LAMBDA a : ~On(a, left) /\ ~On(a, right)),
         s1       |-> SelectSeq(aggs, LAMBDA a : Pushable(a, left)),
         s2       |-> SelectSeq(aggs, LAMBDA a : ~On(a, left) /\ Pushable(a, right)),
         g1       |-> keys \cap left,
         g2       |-> (keys \cap right) \ left]

AggJoin == DecomposeAggJoin(input.aggs, input.keys, Left, Right)

\* decomposeProjection, first loop: a composed aggregate over
\* multiIf(cond, x, ...) gets a local aggregate of x, named inter#x
DeepParse(assign, keys, acc, a) ==
    LET e == assign[a.args[1]]
        x == e.args[2]
        d == [a EXCEPT !.args = <<x>>, !.col = Inter(x)]
    IN  IF /\ Len(a.args) = 1 /\ a.args[1] \in DOMAIN assign
           /\ e.fn = "multiIf" /\ Arity(e) > 2 /\ Len(e.args) >= 2
           /\ x \notin DOMAIN acc.mapL \cup DOMAIN acc.mapR \cup keys
        THEN [acc EXCEPT !.deep = TRUE,
                         !.s1   = IF x \in Left THEN Append(@, d) ELSE @,
                         !.mapL = IF x \in Left THEN Emplace(@, x, Inter(x)) ELSE @,
                         !.s2   = IF x \in Right THEN Append(@, d) ELSE @,
                         !.mapR = IF x \in Right THEN Emplace(@, x, Inter(x)) ELSE @]
        ELSE acc

\* the non-identity assignments of the Projection
NonIdentity(assign) == {nm \in DOMAIN assign : ~IsIdentity(nm, assign[nm])}

\* decomposeProjection, second loop: the Projection can be pushed whole when
\* every non-identity assignment reads one side only (left_cnt or right_cnt
\* equals total_cnt); its aggregates feed no later step, for the else
\* branch of transformImpl re-reads the top aggregate
FullPush(assign) ==
    LET ni == NonIdentity(assign) IN
    \/ \A nm \in ni : Symbols(assign[nm]) \subseteq Left
    \/ \A nm \in ni : Symbols(assign[nm]) \subseteq Right
                      /\ ~(Symbols(assign[nm]) \subseteq Left)

DecomposeProjection(p, composed, keys) ==
    LET acc == FoldLeft(LAMBDA m, a : DeepParse(p.assign, keys, m, a),
                        [deep |-> FALSE, mapL |-> [c \in {} |-> c], mapR |-> [c \in {} |-> c],
                         s1 |-> AggJoin.s1, s2 |-> AggJoin.s2],
                        composed)
        full == ~acc.deep /\ FullPush(p.assign)
        ni == NonIdentity(p.assign)
    IN  \* the verdict, projection_require_symbols and projection_gene_symbols
        [ok      |-> acc.deep \/ full,
         require |-> IF full THEN UNION {Symbols(p.assign[nm]) : nm \in ni} ELSE {},
         gene    |-> IF full THEN ni ELSE {}] @@ acc

ProjDec == DecomposeProjection(input.child, AggJoin.composed, input.keys)

\* projection_require_symbols, projection_gene_symbols
ProjRequire == IF HasProjection THEN ProjDec.require ELSE {}
Gene        == IF HasProjection THEN ProjDec.gene ELSE {}

\* updateAggS0AndG0: the aggregates must each read one argument of the side
\* or of the names the pushed Projection generates
UpdateAggS0AndG0(side, gene, s0, g0) ==
    [valid |-> \A a \in Range(s0) : /\ getClassOfAggFunc(a.fn) # "UNKNOWN"
                                    /\ Len(a.args) = 1
                                    /\ a.args[1] \in side \cup gene,
     aggs  |-> s0,
     keys  |-> g0 \cap (side \cup gene)]

\* transformImpl: the names every local aggregate must keep, with the
\* symbols of the Projection when it is not pushed whole
ProjectionSymbols ==
    IF HasProjection /\ ProjRequire = {}
    THEN UNION {Symbols(input.child.assign[nm]) : nm \in DOMAIN input.child.assign}
    ELSE {}

InitRequire == input.keys \cup Args(input.aggs) \cup ProjectionSymbols

\* the aggregates and keys determineBottomJoin starts from, and the names the
\* deep parse already maps (global_argument_name_to_local_from_projection)
EmptyMap == [c \in {} |-> c]

Start ==
    CASE HasProjection /\ ProjDec.mapL # EmptyMap ->
            [aggs |-> ProjDec.s1, keys |-> AggJoin.g1, fromProj |-> ProjDec.mapL]
      [] HasProjection /\ ProjDec.mapR # EmptyMap ->
            [aggs |-> ProjDec.s2, keys |-> AggJoin.g2, fromProj |-> ProjDec.mapR]
      [] OTHER ->
            \* the else branch: the aggregates with no argument among the keys
            [aggs |-> SelectSeq(input.aggs, LAMBDA a : Range(a.args) \cap input.keys = {}),
             keys |-> input.keys, fromProj |-> EmptyMap]

\* proj_expr_to_origin_column of a Projection between two joins: every
\* non-identity assignment with its only symbol, or empty when one of them
\* reads more than one symbol
ProjExprToOrigin(p) ==
    LET ni == NonIdentity(p.assign) IN
    IF \A nm \in ni : Cardinality(Symbols(p.assign[nm])) = 1
    THEN [nm \in ni |-> CHOOSE c \in Symbols(p.assign[nm]) : TRUE]
    ELSE EmptyMap

\* group by expr(xx) above -> group by xx in the local aggregate
ToOrigin(require, exprMap) ==
    FoldLeft(LAMBDA r, e : IF e \in r THEN (r \ {e}) \cup {exprMap[e]} ELSE r,
             require, SetToSeq(DOMAIN exprMap))

\* mutant: the names collected from the joins on the way down are dropped
LocalGroupByTargetInitOnly(require, join, index, s0, g0, exprMap) ==
    LET needs == {a.col : a \in Range(s0)} \cup Args(s0)
        c1    == {c \in Columns(Child(join, index)) \cup Gene :
                    c \in ToOrigin(InitRequire, exprMap) /\ c \notin needs}
    IN  [join |-> join.id, index |-> index, aggs |-> s0, keys |-> g0 \cup c1,
         through |-> exprMap # EmptyMap]

\* the collection of a target when find_bottom_join stops: c1 is the child's
\* header, with the generated names of a pushed Projection
LocalGroupByTarget(require, join, index, s0, g0, exprMap) ==
    LET req   == ToOrigin(require \cup InitRequire, exprMap)
        needs == {a.col : a \in Range(s0)} \cup Args(s0)
        c1    == {c \in Columns(Child(join, index)) \cup Gene :
                    /\ c \in req
                    /\ s0 # <<>> => c \notin DOMAIN Start.fromProj
                    /\ c \notin needs}
    IN  [join |-> join.id, index |-> index, aggs |-> s0, keys |-> g0 \cup c1,
         through |-> exprMap # EmptyMap]

\* the sides of a join find_bottom_join may descend into: with a Projection
\* pushed whole (pattern1) a side producing every symbol it reads, otherwise
\* (pattern2) a side that is not already an aggregate
PatternAllows(next, i) ==
    IF ProjRequire # {} THEN ProjRequire \subseteq Columns(Child(next, i))
                        ELSE Child(next, i).kind # "agg"

RECURSIVE FindBottomJoin(_, _, _, _, _, _, _)
\* find_bottom_join: descend joins, left side first, the right side only
\* when the left one yields no target; with a Projection pushed whole
\* (pattern1) a side must produce every symbol the Projection reads,
\* otherwise (pattern2) a side that is already an aggregate is skipped.  A
\* Projection between two joins whose assignments each read one symbol is
\* passed through once (exprMap, proj_expr_to_origin_column).
FindBottomJoin(require, join, index, s0, g0, visited, exprMap) ==
    LET child == Child(join, index)
        Descend(next, req, gene, seen, em, Allowed(_)) ==
            LET Side(i) ==
                    LET side == Columns(Child(next, i))
                        up   == UpdateAggS0AndG0(side, gene, s0, g0)
                    IN  IF up.valid /\ Allowed(i)
                        THEN FindBottomJoin(req, next, i, up.aggs, up.keys, seen, em)
                        ELSE {}
            IN  IF Side(0) # {} THEN Side(0) ELSE Side(1)
    IN
    IF /\ child.kind = "proj" /\ child.child.kind = "join" /\ exprMap = EmptyMap
       /\ ProjExprToOrigin(child) # EmptyMap
    THEN LET next == child.child IN
         Descend(next, require \cup Range(next.lk) \cup Range(next.rk), Gene, visited,
                 ProjExprToOrigin(child), LAMBDA i : TRUE)
    ELSE IF child.kind # "join" \/ visited
    THEN {LocalGroupByTarget(require, join, index, s0, g0, exprMap)}
    ELSE Descend(child, require \cup Range(child.lk) \cup Range(child.rk),
                 IF ProjRequire # {} THEN Gene ELSE {}, visited \/ settings.everyJoin, exprMap,
                 LAMBDA i : PatternAllows(child, i))

\* mutant: has_visit_first_join starts set
DetermineBottomJoinVisited ==
    FindBottomJoin({}, ParentOfFirstJoin, 0, Start.aggs, Start.keys, TRUE, EmptyMap)

DetermineBottomJoin ==
    FindBottomJoin({}, ParentOfFirstJoin, 0, Start.aggs, Start.keys, FALSE, EmptyMap)

-----------------------------------------------------------------------------
(* canAggPushDown.  What CardinalityEstimator::estimate returns for the     *)
(* bottom child is an input, one of StatsChoices: [known |-> FALSE] when it *)
(* returns nothing, else [known |-> TRUE, rows, stats] where stats maps the *)
(* symbols with known statistics to [ndv, nulls].  The double row_count is  *)
(* the fraction <<num, den>>; the settings' coefficient is the fraction     *)
(* coefNum / coefDen and the threshold an integer.                          *)

\* the keys whose statistics are known; all_unknown when there are none
KnownKeys(t, st) == t.keys \cap DOMAIN st.stats

\* ndv plus one when the key has nulls
Cndv(st, k) == st.stats[k].ndv + (IF st.rows = 0 \/ st.stats[k].nulls = 0 THEN 0 ELSE 1)

\* cndvs, sorted in descending order
Cndvs(t, st) ==
    LET ks == SetToSeq({k \in KnownKeys(t, st) : st.stats[k].ndv > 0}) IN
    SortSeq([i \in DOMAIN ks |-> Cndv(st, ks[i])], LAMBDA x, y : x > y)

RECURSIVE RowCount(_, _, _, _)
\* the loop over cndvs, from index i with row_count rc
RowCount(st, cs, i, rc) ==
    IF i > Len(cs) THEN rc
    ELSE LET c == cs[i] IN
         IF i = 1 THEN RowCount(st, cs, 2, <<rc[1] * c, rc[2]>>)
         ELSE IF st.rows > 1000000 /\ rc[1] * c > st.rows * rc[2] /\ c * 1000 < cs[1]
         THEN RowCount(st, cs, i + 1, rc)
         ELSE IF settings.coefNum * c >= settings.coefDen
         THEN RowCount(st, cs, i + 1, <<rc[1] * settings.coefNum * c, rc[2] * settings.coefDen>>)
         ELSE RowCount(st, cs, i + 1, rc)

\* row_count = min(row_count, rows)
PredictedRowCount(t, st) ==
    LET rc == RowCount(st, Cndvs(t, st), 1, <<1, 1>>) IN
    IF rc[1] > st.rows * rc[2] THEN <<st.rows, 1>> ELSE rc

\* rows / row_count > threshold; 0 / 0 is NaN, which compares false
ReducesEnough(rows, rc, threshold) == rc[1] # 0 /\ rows * rc[2] > threshold * rc[1]

CanAggPushDown(t, st) ==
    CASE t.join \in settings.blocklist -> FALSE
      [] settings.whitelist # {}       -> <<t.join, t.index>> \in settings.whitelist
      [] ~st.known                     -> settings.threshold = 0
      [] KnownKeys(t, st) = {}         -> FALSE
      [] settings.onlyWithFunctions /\ t.aggs = <<>> -> FALSE
      [] OTHER -> ReducesEnough(st.rows, PredictedRowCount(t, st), settings.threshold)

-----------------------------------------------------------------------------
(* Column types: <<>> for a plain value, <<f>> for a state of function f.  *)

Plain == <<>>

\* the type a function yields, and the type it accepts
ResultType(fn) == IF Last(fn) = "State" THEN Front(fn) ELSE Plain
ArgType(fn)    == IF Last(fn) = "Merge" THEN Front(fn) ELSE Plain

AggOf(n, c) == CHOOSE a \in Range(n.aggs) : a.col = c

RECURSIVE TypeOf(_)
TypeOf(n) ==
    CASE n.kind = "scan" -> [c \in n.cols |-> Plain]
      [] n.kind = "join" -> TypeOf(n.l) @@ TypeOf(n.r)
      [] n.kind = "proj" -> n.types
      [] OTHER -> [c \in Columns(n) |->
                      IF c \in n.keys THEN TypeOf(n.child)[c] ELSE ResultType(AggOf(n, c).fn)]

\* the type of an expression over a child with types ty: an identity keeps
\* the type, the functions of the model compute plain values
ExprType(e, ty) == IF e.fn = "ident" THEN ty[e.args[1]] ELSE Plain

-----------------------------------------------------------------------------
(* doInsertAggregation.                                                     *)

MapArgument(m, a, arg, g1) ==
    IF arg \in DOMAIN m \/ arg \in g1 THEN m
    ELSE Emplace(Emplace(m, arg, Inter(arg)), a.col, Inter(arg))

\* global_argument_name_to_local
GlobalArgumentNameToLocal(s1, g1) ==
    FoldLeft(LAMBDA m, a : FoldLeft(LAMBDA mm, arg : MapArgument(mm, a, arg, g1), m, a.args),
             [c \in {} |-> c], s1)

MapName(m, c) == IF c \in DOMAIN m THEN m[c] ELSE c

MapNames(m, s) == [i \in DOMAIN s |-> MapName(m, s[i])]

\* the new global aggregate description
GlobalAgg(a, m) ==
    [a EXCEPT !.args = MapNames(m, a.args),
              !.fn   = IF getClassOfAggFunc(a.fn) = "NEED_MERGE" THEN getMergeName(a.fn) ELSE @]

\* createLocalAggregate over the bottom child, with new_s1
LocalAgg(below, t, m) ==
    [kind |-> "agg", id |-> LocalAggId, child |-> below, keys |-> t.keys,
     aggs |-> [i \in DOMAIN t.aggs |->
                 [t.aggs[i] EXCEPT
                    !.col = MapName(m, @),
                    !.fn  = IF getClassOfAggFunc(@) = "NEED_MERGE" THEN getStateName(@) ELSE @]]]

\* the projection under the top aggregate, its names and expressions mapped
MapExpr(m, e) == [e EXCEPT !.args = MapNames(m, @)]

MapKeys(m, f) ==
    [k \in {MapName(m, x) : x \in DOMAIN f} |->
        LET x == CHOOSE y \in DOMAIN f : MapName(m, y) = k IN f[x]]

MappedProjection(p, child, m) ==
    [p EXCEPT !.child  = child,
              !.assign = MapKeys(m, [nm \in DOMAIN @ |-> MapExpr(m, @[nm])]),
              !.types  = MapKeys(m, @)]

\* the projection pushed below the local aggregate: identities of names the
\* child lacks are dropped, identities of every child name added
PushedProjection(p, below) ==
    LET kept == {nm \in DOMAIN p.assign : ~IsIdentity(nm, p.assign[nm]) \/ nm \in Columns(below)}
    IN  [p EXCEPT !.child  = below,
                  !.assign = [nm \in kept |-> p.assign[nm]] @@ [c \in Columns(below) |-> Ident(c)],
                  !.types  = [nm \in kept |-> p.types[nm]] @@ TypeOf(below)]

\* a projection between joins the local aggregate was pushed through:
\* xx becomes the identity inter#xx when the child now produces inter#xx
ThroughProjection(p, child, m) ==
    LET swapped == {k \in DOMAIN m : k \in DOMAIN p.assign /\ m[k] \in Columns(child)}
        kept    == DOMAIN p.assign \ swapped
    IN  [p EXCEPT !.child  = child,
                  !.assign = [nm \in kept |-> p.assign[nm]]
                                @@ [v \in {m[k] : k \in swapped} |-> Ident(v)],
                  !.types  = [nm \in kept |-> p.types[nm]]
                                @@ [v \in {m[k] : k \in swapped} |-> TypeOf(child)[v]]]

\* the join step rebuilt over the new children, its keys renamed by the
\* symbol mapper
RebuiltJoin(n, l, r, m) ==
    [n EXCEPT !.l = l, !.r = r, !.lk = MapNames(m, @), !.rk = MapNames(m, @)]

RECURSIVE UpdateUntilBottomJoin(_, _, _, _, _, _, _)
\* update_plan_node_until_bottom_join; top is "not has_visit_global_agg",
\* below is has_visit_join, push is push_projection and proj the projection
\* node met on the way
UpdateUntilBottomJoin(n, t, m, top, below, push, proj) ==
    CASE n.kind = "agg" /\ top ->
            LET child == UpdateUntilBottomJoin(n.child, t, m, FALSE, below, push, proj) IN
            [n EXCEPT !.child = child,
                      !.aggs  = [i \in DOMAIN n.aggs |-> GlobalAgg(n.aggs[i], m)]]
      [] n.kind = "proj" /\ ~(below /\ ~t.through) ->
            LET child == UpdateUntilBottomJoin(n.child, t, m, FALSE, below, push, n) IN
            CASE t.through -> ThroughProjection(n, child, m)
              [] push      -> child
              [] OTHER     -> MappedProjection(n, child, m)
      [] n.kind = "join" ->
            LET Below(c) == IF push THEN PushedProjection(proj, c) ELSE c
                New(i) == IF n.id # t.join
                          THEN UpdateUntilBottomJoin(Child(n, i), t, m, FALSE, TRUE, push, proj)
                          ELSE IF i = t.index THEN LocalAgg(Below(Child(n, i)), t, m)
                          ELSE Child(n, i)
            IN  RebuiltJoin(n, New(0), New(1), m)
      [] OTHER -> n

RECURSIVE VisitedProjections(_, _, _, _)
\* the projections update_plan_node_until_bottom_join walks into
VisitedProjections(n, t, top, below) ==
    CASE n.kind = "agg" /\ top -> VisitedProjections(n.child, t, FALSE, below)
      [] n.kind = "proj" /\ ~(below /\ ~t.through) ->
            {n} \cup VisitedProjections(n.child, t, FALSE, below)
      [] n.kind = "join" /\ n.id # t.join ->
            VisitedProjections(n.l, t, FALSE, TRUE) \cup VisitedProjections(n.r, t, FALSE, TRUE)
      [] OTHER -> {}

\* "projection must be followed by join!" (LOGICAL_ERROR)
ProjectionNotOverJoin(plan, t) ==
    \E p \in VisitedProjections(plan, t, TRUE, FALSE) : p.child.kind # "join"

DoInsertAggregation(plan, t) ==
    UpdateUntilBottomJoin(plan, t, GlobalArgumentNameToLocal(t.aggs, t.keys), TRUE, FALSE,
                          ProjRequire # {}, plan)

\* AggregateFunctionFactory::get of a -Merge function throws when the
\* argument is missing or is not a state of the same function
FactoryThrows(plan) ==
    \E a \in Range(plan.aggs) :
        /\ Last(a.fn) = "Merge"
        /\ \/ a.args[1] \notin Columns(plan.child)
           \/ TypeOf(plan.child)[a.args[1]] # ArgType(a.fn)

-----------------------------------------------------------------------------
(* Execution semantics of the steps, for the equivalence property.  A       *)
(* result is a bag: a function from rows (records over the header) to their *)
(* multiplicity.                                                            *)

Mult(B, S) == MapThenSumSet(LAMBDA r : B[r], S)

\* the result of an aggregate function over the bag V of its argument
\* values; a state of count is its count, a state of uniqExact its value set
AggValue(fn, V) ==
    LET f == fn[1]
        comb == IF Len(fn) = 2 THEN fn[2] ELSE "none"
        Sum(W) == MapThenSumSet(LAMBDA v : v * W[v], DOMAIN W)
    IN  CASE comb = "State" /\ f = "count"     -> Mult(V, DOMAIN V)
          [] comb = "State" /\ f = "uniqExact" -> DOMAIN V
          [] comb = "Merge" /\ f = "count"     -> Sum(V)
          [] comb = "Merge" /\ f = "uniqExact" -> Cardinality(UNION DOMAIN V)
          [] f = "sum"       -> Sum(V)
          [] f = "count"     -> Mult(V, DOMAIN V)
          [] f = "uniqExact" -> Cardinality(DOMAIN V)
          [] f = "max"       -> IF DOMAIN V = {} THEN 0 ELSE Max(DOMAIN V)
          [] f = "min"       -> IF DOMAIN V = {} THEN 0 ELSE Min(DOMAIN V)

Project(r, S) == [c \in S |-> r[c]]

\* an aggregate with no keys returns one row, also for an empty input
AggBag(B, keys, aggs) ==
    LET groups == IF keys = {} THEN {Project(<<>>, {})} ELSE {Project(r, keys) : r \in DOMAIN B}
        Members(g) == {r \in DOMAIN B : Project(r, keys) = g}
        Arg(r, a) == IF a.args = <<>> THEN 0 ELSE r[a.args[1]]
        Values(g, a) == [v \in {Arg(r, a) : r \in Members(g)} |->
                            Mult(B, {r \in Members(g) : Arg(r, a) = v})]
        Row(g) == g @@ [c \in {a.col : a \in Range(aggs)} |->
                           LET a == CHOOSE x \in Range(aggs) : x.col = c IN AggValue(a.fn, Values(g, a))]
    IN  [row \in {Row(g) : g \in groups} |-> 1]

JoinBag(L, R, lk, rk) ==
    LET pairs == {p \in (DOMAIN L) \X (DOMAIN R) : \A i \in DOMAIN lk : p[1][lk[i]] = p[2][rk[i]]}
    IN  [row \in {p[1] @@ p[2] : p \in pairs} |->
            LET p == CHOOSE q \in pairs : q[1] @@ q[2] = row IN L[p[1]] * R[p[2]]]

\* an expression on a row; the condition of multiIf is "operand = 1"
EvalExpr(e, r) ==
    LET ops == [i \in DOMAIN e.args |-> r[e.args[i]]] \o e.lits IN
    CASE e.fn = "ident"   -> ops[1]
      [] e.fn = "plus"    -> ops[1] + ops[2]
      [] e.fn = "multiIf" -> IF ops[1] = 1 THEN ops[2] ELSE ops[3]

ProjBag(B, assign) ==
    LET P(r) == [nm \in DOMAIN assign |-> EvalExpr(assign[nm], r)] IN
    [row \in {P(r) : r \in DOMAIN B} |-> Mult(B, {r \in DOMAIN B : P(r) = row})]

RECURSIVE Eval(_, _)
Eval(n, db) ==
    CASE n.kind = "scan" -> db[n.id]
      [] n.kind = "join" -> JoinBag(Eval(n.l, db), Eval(n.r, db), n.lk, n.rk)
      [] n.kind = "proj" -> ProjBag(Eval(n.child, db), n.assign)
      [] OTHER           -> AggBag(Eval(n.child, db), n.keys, n.aggs)

RECURSIVE ScanIds(_)
ScanIds(n) ==
    CASE n.kind = "scan" -> {n.id}
      [] n.kind = "join" -> ScanIds(n.l) \cup ScanIds(n.r)
      [] OTHER           -> ScanIds(n.child)

RECURSIVE Databases(_)
\* every choice of contents for the scans with the given ids
Databases(ids) ==
    IF ids = {} THEN {[i \in {} |-> i]}
    ELSE LET i == CHOOSE j \in ids : TRUE IN
         {db @@ (i :> b) : db \in Databases(ids \ {i}), b \in Contents[i]}

RECURSIVE WellFormed(_)
\* every name a step reads is produced by its child, with the type the
\* reader expects, and no step outputs a name twice
WellFormed(n) ==
    CASE n.kind = "scan" -> TRUE
      [] n.kind = "join" ->
            /\ Range(n.lk) \subseteq Columns(n.l) /\ Range(n.rk) \subseteq Columns(n.r)
            /\ Columns(n.l) \cap Columns(n.r) = {}
            /\ WellFormed(n.l) /\ WellFormed(n.r)
      [] n.kind = "proj" ->
            /\ \A nm \in DOMAIN n.assign :
                  /\ Symbols(n.assign[nm]) \subseteq Columns(n.child)
                  /\ n.assign[nm].fn # "ident" =>
                        \A x \in Symbols(n.assign[nm]) : TypeOf(n.child)[x] = Plain
                  /\ n.types[nm] = ExprType(n.assign[nm], TypeOf(n.child))
            /\ WellFormed(n.child)
      [] OTHER ->
            /\ n.keys \cup Args(n.aggs) \subseteq Columns(n.child)
            /\ \A i \in DOMAIN n.aggs :
                  /\ n.aggs[i].col \notin n.keys
                  /\ \A j \in DOMAIN n.aggs : i # j => n.aggs[i].col # n.aggs[j].col
                  /\ \A x \in Range(n.aggs[i].args) : TypeOf(n.child)[x] = ArgType(n.aggs[i].fn)
            /\ WellFormed(n.child)

-----------------------------------------------------------------------------
(* transformImpl.                                                           *)

Init ==
    /\ input \in Plans
    /\ settings \in Settings
    /\ pc = "match"
    /\ targets = {}
    /\ pending = {}
    /\ output = input

\* the pattern (keys not empty) and the search for the first join, below
\* an optional Projection
MatchPattern ==
    /\ pc = "match"
    /\ pc' = IF input.keys # {} /\ FirstJoin.kind = "join" THEN "decompose" ELSE "refused"
    /\ UNCHANGED <<input, settings, targets, pending, output>>

Decompose ==
    /\ pc = "decompose"
    /\ pc' = IF AggJoin.ok /\ (HasProjection => ProjDec.ok)
             THEN "search" ELSE "refused"
    /\ UNCHANGED <<input, settings, targets, pending, output>>

Search ==
    /\ pc = "search"
    /\ targets' = DetermineBottomJoin
    /\ pending' = targets'
    /\ pc' = "gate"
    /\ UNCHANGED <<input, settings, output>>

\* an approved target: doInsertAggregation, which throws when the factory does
PushDown(t) ==
    /\ pc = "gate"
    /\ t \in pending
    /\ \E st \in StatsChoices : CanAggPushDown(t, st)
    /\ LET new == DoInsertAggregation(output, t) IN
       IF ProjectionNotOverJoin(output, t) \/ FactoryThrows(new)
       THEN pc' = "error" /\ UNCHANGED output
       ELSE output' = new /\ UNCHANGED pc
    /\ pending' = pending \ {t}
    /\ UNCHANGED <<input, settings, targets>>

SkipTarget(t) ==
    /\ pc = "gate"
    /\ t \in pending
    /\ \E st \in StatsChoices : ~CanAggPushDown(t, st)
    /\ pending' = pending \ {t}
    /\ UNCHANGED <<input, settings, pc, targets, output>>

Finish ==
    /\ pc = "gate"
    /\ pending = {}
    /\ pc' = "done"
    /\ UNCHANGED <<input, settings, targets, pending, output>>

Next ==
    \/ MatchPattern
    \/ Decompose
    \/ Search
    \/ \E t \in pending : PushDown(t) \/ SkipTarget(t)
    \/ Finish

Spec == Init /\ [][Next]_vars

-----------------------------------------------------------------------------
(* Properties.                                                              *)

Phases == {"match", "decompose", "search", "gate", "done", "refused", "error"}

Target == [join : NodeIds(input), index : {0, 1},
           aggs : Seq([fn : Seq(STRING), args : Seq(AllNames(input) \cup Gene),
                       col : STRING]),
           keys : SUBSET (AllNames(input) \cup Gene), through : BOOLEAN]

\* determineBottomJoin hands the loop targets that name a join of the input
TypeOK ==
    /\ input \in Plans
    /\ settings \in Settings
    /\ pc \in Phases
    /\ targets \subseteq Target
    /\ pending \subseteq targets

\* The rule never throws, and the plan doInsertAggregation returns reads
\* every name from a child that produces it with the right type: the local
\* aggregate keeps the join keys above it and the -Merge functions of the
\* top aggregate read the -State columns of the local one.
RewriteWellFormed ==
    /\ pc # "error"
    /\ pc = "done" => WellFormed(output)

\* A plan the rule rewrote returns the same rows as the input plan, on every
\* database of the model.
SemanticEquivalence ==
    pc = "done" /\ output # input /\ WellFormed(output) =>
        \A db \in Databases(ScanIds(input)) : Eval(output, db) = Eval(input, db)

=============================================================================
