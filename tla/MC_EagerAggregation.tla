------------------------- MODULE MC_EagerAggregation -------------------------
(***************************************************************************)
(* Instances of the EagerAggregation rule for TLC: three scans, t1(a, x),   *)
(* t2(b, y) and t3(c, z), joined as t1 JOIN t2 ON a = b (join 10) and       *)
(* (t1 JOIN t2) JOIN t3 ON b = c (join 11), under a top aggregate (node 20).*)
(* Every scan returns any bag of at most two rows over the values {1, 2},   *)
(* so a group can hold two distinct values or one value twice.              *)
(***************************************************************************)
EXTENDS EagerAggregation

Scan(id, cols) == [kind |-> "scan", id |-> id, cols |-> cols]
Join(id, l, r, lk, rk) == [kind |-> "join", id |-> id, l |-> l, r |-> r, lk |-> lk, rk |-> rk]
Agg(id, child, keys, aggs) == [kind |-> "agg", id |-> id, child |-> child, keys |-> keys, aggs |-> aggs]
F(f, arg, col) == [fn |-> <<f>>, args |-> <<arg>>, col |-> col]

T1 == Scan(1, {"a", "x"})
T2 == Scan(2, {"b", "y"})
T3 == Scan(3, {"c", "z"})
J12  == Join(10, T1, T2, <<"a">>, <<"b">>)
J123 == Join(11, J12, T3, <<"b">>, <<"c">>)
\* a join whose left child is already an aggregate
JAgg == Join(12, Agg(30, T1, {"a"}, <<F("max", "x", "mx")>>), T2, <<"a">>, <<"b">>)

Top(keys, aggs, child) == Agg(20, child, keys, aggs)

\* a projection node with the types its step is built with
ProjN(id, child, assign) ==
    [kind |-> "proj", id |-> id, child |-> child, assign |-> assign,
     types |-> [nm \in DOMAIN assign |-> ExprType(assign[nm], TypeOf(child))]]
Proj(child, assign) == ProjN(21, child, assign)
Rename(c) == [fn |-> "ident", args |-> <<c>>, lits |-> <<>>]
MultiIf(c, x, k) == [fn |-> "multiIf", args |-> <<c, x>>, lits |-> <<k>>]
Plus(x, k) == [fn |-> "plus", args |-> <<x>>, lits |-> <<k>>]

\* (t1 JOIN t2) under a projection (22) that passes x and computes a2 from
\* a, joined with t3 ON a2 = c (join 13)
JP(a2) == Join(13, ProjN(22, J12, "x" :> Ident("x") @@ "a2" :> a2), T3, <<"a2">>, <<"c">>)

\* plans with a Projection under the top aggregate: sum(multiIf(y, x, 0))
\* and the like (the deep parse, left and right), x + 1 pushed whole, one
\* and two joins down, an identity projection, and one that is refused
MCProjectionPlans ==
    { Top({"a"}, <<F("sum", "e", "s")>>, Proj(J12, "a" :> Ident("a") @@ "e" :> MultiIf("y", "x", 0))),
      Top({"y"}, <<F("max", "e", "m")>>, Proj(J12, "y" :> Ident("y") @@ "e" :> MultiIf("a", "x", 0))),
      Top({"a"}, <<F("sum", "e", "s")>>, Proj(J12, "a" :> Ident("a") @@ "e" :> MultiIf("a", "y", 0))),
      Top({"a"}, <<F("sum", "e", "s")>>, Proj(J12, "a" :> Ident("a") @@ "e" :> Plus("x", 1))),
      Top({"a"}, <<F("uniqExact", "e", "u")>>, Proj(J12, "a" :> Ident("a") @@ "e" :> Plus("x", 1))),
      Top({"a"}, <<F("sum", "e", "s")>>, Proj(J123, "a" :> Ident("a") @@ "e" :> Plus("x", 1))),
      Top({"a"}, <<F("sum", "x", "s")>>, Proj(J12, "a" :> Ident("a") @@ "x" :> Ident("x"))),
      Top({"a"}, <<F("sum", "e", "s")>>, Proj(J12, "a" :> Ident("a") @@ "e" :> MultiIf("y", "a", 0))),
      Top({"c"}, <<F("sum", "x", "s")>>, JP(Plus("a", 1))),
      Top({"a2"}, <<F("sum", "x", "s")>>, JP(Rename("a"))) }

\* plans whose aggregates each read an argument of their own that is neither
\* a group-by key nor a join key
MCPlans ==
    { Top({"a"}, <<F("sum", "x", "s")>>, J12),
      Top({"y"}, <<F("count", "x", "n")>>, J12),
      Top({"a", "y"}, <<F("max", "x", "m")>>, J12),
      Top({"a"}, <<F("sum", "x", "s"), F("sum", "y", "t")>>, J12),
      Top({"a"}, <<F("sum", "x", "s")>>, J123),
      Top({"c"}, <<F("uniqExact", "z", "u")>>, J123),
      Top({"a"}, <<F("anyLast", "x", "l")>>, J12),
      Top({"a"}, <<F("sum", "x", "s")>>, T1),
      Top({"b"}, <<F("sum", "mx", "t")>>, JAgg) }

MCAllPlans == MCPlans \cup MCProjectionPlans

\* two aggregates over the same argument
MCSharedArgumentPlans ==
    { Top({"a"}, <<F("sum", "x", "s"), F("max", "x", "m")>>, J12) }

\* the settings with a correlation coefficient of 1/2
Setting(every, block, white, threshold) ==
    [everyJoin |-> every, blocklist |-> block, whitelist |-> white, threshold |-> threshold,
     coefNum |-> 1, coefDen |-> 2, onlyWithFunctions |-> FALSE]

MCSettings ==
    { Setting(FALSE, {}, {}, 0), Setting(TRUE, {}, {}, 1),
      Setting(FALSE, {10}, {}, 0), Setting(FALSE, {}, {<<11, 1>>}, 0) }

\* what the estimator may return: nothing, statistics on no key, small
\* statistics with nulls on b, and two million rows with a leading NDV of
\* 100000 and a second key of NDV 50
NoStats == [known |-> FALSE]
Stats(rows, stats) == [known |-> TRUE, rows |-> rows, stats |-> stats]
SmallStats == Stats(4, ("a" :> [ndv |-> 2, nulls |-> 0]) @@ ("b" :> [ndv |-> 1, nulls |-> 1])
                          @@ ("c" :> [ndv |-> 2, nulls |-> 0]))
BigStats == Stats(2000000, ("a" :> [ndv |-> 100000, nulls |-> 0]) @@ ("b" :> [ndv |-> 50, nulls |-> 0]))

MCStatsChoices == {NoStats, Stats(4, <<>>), SmallStats, BigStats}

Bags(cols) ==
    LET Rows == [cols -> {1, 2}] IN
    {[r \in S |-> 1] : S \in {S \in SUBSET Rows : Cardinality(S) <= 2}}
        \cup {[r \in {row} |-> 2] : row \in Rows}

MCContents == 1 :> Bags({"a", "x"}) @@ 2 :> Bags({"b", "y"}) @@ 3 :> Bags({"c", "z"})
=============================================================================
