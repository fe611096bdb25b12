--------------------------- MODULE MCPrismRewrite ---------------------------
(***************************************************************************)
(* Constants for model-checking the rewrite pass and its meaning: one      *)
(* table of three rows with a key k and a value v.                         *)
(***************************************************************************)
EXTENDS PrismRewriteMeaning

Column(name) == [op |-> "column", name |-> <<name>>, value |-> 0]
Plus(name, n) == [op |-> "plus", name |-> <<name>>, value |-> n]
Above(name, n) == [op |-> "above", name |-> <<name>>, value |-> n]
True == [op |-> "true", name |-> <<>>, value |-> 0]

OrdersColumns == [t \in {"orders"} |-> <<<<"k">>, <<"v">>>>]
OrdersRows == [t \in {"orders"} |-> <<<<1, 2>>, <<2, 1>>, <<1, 1>>>>]

DefaultPayload ==
    [table |-> "", predicate |-> True, limit |-> 0, groups |-> <<>>, sorts |-> <<>>,
     measures |-> <<>>, generators |-> <<>>, windows |-> <<>>, assignments |-> <<>>,
     relation |-> "", join |-> "inner"]

Table(t) == [DefaultPayload EXCEPT !.table = t]
Where(e) == [DefaultPayload EXCEPT !.predicate = e]
First(n) == [DefaultPayload EXCEPT !.limit = n]
By(e) == [DefaultPayload EXCEPT !.groups = <<e>>]
Sorted(e) == [DefaultPayload EXCEPT !.sorts = <<e>>]
Assigned(name, e) == [DefaultPayload EXCEPT !.assignments = <<[name |-> <<name>>, expr |-> e]>>]
Measure(name, fn, e) ==
    [DefaultPayload EXCEPT !.measures = <<[name |-> <<name>>, fn |-> fn, arg |-> e]>>]
Over(name, e, spec) ==
    [DefaultPayload EXCEPT !.windows =
        <<[name |-> <<name>>, fn |-> "sum", arg |-> e, spec |-> <<spec>>]>>]
Exploded(name, e, f) ==
    [DefaultPayload EXCEPT !.generators = <<[columns |-> <<<<name>>>>, elements |-> <<e, f>>]>>]
Joined(relation, kind, e) ==
    [DefaultPayload EXCEPT !.relation = relation, !.join = kind, !.predicate = e]

\* Every operation with a rewrite rule, and the two projections, with the
\* payloads whose order or repetition matters.
RulesPayload ==
    [k \in Kind |->
        CASE k = "ReadNamedTable" -> {Table("orders")}
          [] k = "Filter"         -> {Where(True), Where(Above("v", 1))}
          [] k = "Limit"          -> {First(1), First(2)}
          [] k = "Project"        -> {Assigned("v", Plus("v", 1)), Assigned("d", Column("v"))}
          [] k = "SelectProject"  -> {DefaultPayload, Assigned("v", Column("k"))}
          [] k = "OrderBy"        -> {Sorted(Column("k")), Sorted(Column("v"))}
          [] k = "GroupBy"        -> {By(Column("k")), DefaultPayload}
          [] k = "Aggregate"      -> {Measure("v", "sum", Column("v"))}
          [] k = "Window"         -> {Over("w", Column("v"), Column("k")),
                                      Over("u", Column("w"), Column("k")),
                                      Over("t", Column("v"), Column("v"))}
          [] OTHER                -> {}]

\* Shapes that share nodes: joins of cursors with a common history, and the
\* operations no rule applies to.
SharedPayload ==
    [k \in Kind |->
        CASE k = "ReadNamedTable" -> {Table("orders")}
          [] k = "Filter"         -> {Where(True)}
          [] k = "Limit"          -> {First(1), First(2)}
          [] k = "Generate"       -> {Exploded("g", Column("v"), Column("k"))}
          [] k = "Join"           -> {Joined("r", "left", Above("v", 1))}
          [] OTHER                -> {}]

\* A grouping filtered on true before it is aggregated.
FilteredGrouping ==
    [k \in Kind |->
        CASE k = "ReadNamedTable" -> {Table("orders")}
          [] k = "Filter"         -> {Where(True)}
          [] k = "GroupBy"        -> {By(Column("k"))}
          [] k = "Aggregate"      -> {Measure("n", "count", Column("k"))}
          [] OTHER                -> {}]

\* A window over the column of another window with the same boundary.
DependentWindows ==
    [k \in Kind |->
        CASE k = "ReadNamedTable" -> {Table("orders")}
          [] k = "Window"         -> {Over("w", Column("v"), Column("k")),
                                      Over("u", Column("w"), Column("k"))}
          [] OTHER                -> {}]

AcceptedPayload(kind, payload) ==
    /\ kind = "ReadNamedTable" => payload.table # ""
    /\ kind = "Limit" => payload.limit >= 0
    /\ kind = "Window" => payload.windows # <<>>
    /\ kind = "Generate" => Len(payload.generators) = 1

\* The payloads here carry no typed wrappers.
AsIs(payload) == payload
=============================================================================
