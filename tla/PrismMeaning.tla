---------------------------- MODULE PrismMeaning ----------------------------
(***************************************************************************)
(* What a Prism node list computes: the columns Prism plans for each node  *)
(* (src/src/prism/output_columns.incn) and the relation that lowering      *)
(* makes of it (src/src/prism/lower.incn over substrait/relations.incn and *)
(* substrait/expr_lowering.incn), evaluated over small tables.             *)
(*                                                                         *)
(* Lowering resolves a column name to the first planned column of that     *)
(* name, then refers to it by position.  A relation is [ok, width, rows]:  *)
(* whether lowering succeeds, how many columns the rows have, and the row  *)
(* sequences an engine may return.  An ordering leaves ties in any order,  *)
(* grouping returns its groups in any order, and every other relation      *)
(* keeps the order of its input.                                           *)
(*                                                                         *)
(* A column name is a sequence of strings, so that qualifying it by a      *)
(* relation name prepends one.                                             *)
(***************************************************************************)
EXTENDS Integers, Sequences, SequencesExt, FiniteSets, Lists

CONSTANTS
    TableColumns, \* table name -> the columns registered for it
    TableRows     \* table name -> its rows

-----------------------------------------------------------------------------
(* Scalar expressions: a column, a literal, a column plus a literal, and    *)
(* the comparison of a column with a literal.                               *)

\* The first position of a name, 0 if it is absent.
Position(cols, name) == SelectInSeq(cols, LAMBDA c : c = name)

\* An expression over numbers, and lists of them.
Numeric(e) == e.op \in {"true", "literal", "column", "plus", "above"} /\ e.value \in Int

AllNumeric(es) == IsSequence(es) /\ \A k \in DOMAIN es : Numeric(es[k])

MeasuresNumeric(ms) ==
    IsSequence(ms) /\ \A k \in DOMAIN ms : ms[k].fn = "count" \/ Numeric(ms[k].arg)

Resolves(e, cols) == e.op \in {"true", "literal"} \/ Position(cols, e.name) # 0

Value(e, cols, row) ==
    CASE e.op = "true"    -> 1
      [] e.op = "literal" -> e.value
      [] e.op = "column"  -> row[Position(cols, e.name)]
      [] e.op = "plus"    -> row[Position(cols, e.name)] + e.value
      [] e.op = "above"   -> IF row[Position(cols, e.name)] > e.value THEN 1 ELSE 0

Values(es, cols, row) == [k \in 1..Len(es) |-> Value(es[k], cols, row)]

AllResolve(es, cols) == \A k \in 1..Len(es) : Resolves(es[k], cols)

\* Put v at position k, or at the end when k is 0.
AddOrReplace(s, k, v) == IF k = 0 THEN Append(s, v) ELSE [s EXCEPT ![k] = v]

-----------------------------------------------------------------------------
(* Planned columns.                                                        *)

Qualified(relation, cols) ==
    IF relation = "" THEN cols ELSE [k \in 1..Len(cols) |-> <<relation>> \o cols[k]]

\* Ordered add-or-replace of the assigned names.
ProjectColumns(cols, assignments) ==
    FoldLeft(LAMBDA names, a : AddOrReplace(names, Position(names, a.name), a.name),
             cols, assignments)

NamesOf(items) == [k \in 1..Len(items) |-> items[k].name]

\* A grouping column keeps its name; another grouping expression is group_k.
GroupColumns(groups) ==
    [k \in 1..Len(groups) |->
        IF groups[k].op = "column" THEN groups[k].name ELSE <<"group", k>>]

\* The grouping columns in front of an aggregate's measures.
PrefixColumns(ns) ==
    LET prefix[i \in 1..Len(ns)] ==
            LET groups == ns[i].payload.groups IN
            IF groups # <<>> THEN GroupColumns(groups)
            ELSE IF ns[i].kind = "Aggregate" THEN prefix[ns[i].inputs[1]]
            ELSE <<>>
    IN  prefix

\* One node, with the grouping prefixes of the list and the columns of its inputs.
PlannedNode(ns, prefix, cols, i) ==
    LET n == ns[i]
        input == cols[n.inputs[1]]
    IN  CASE n.kind = "ReadNamedTable" -> TableColumns[n.payload.table]
          [] n.kind \in {"Filter", "OrderBy", "Limit"} -> input
          [] n.kind = "Project"       -> ProjectColumns(input, n.payload.assignments)
          [] n.kind = "SelectProject" -> NamesOf(n.payload.assignments)
          [] n.kind = "Generate"      -> input \o n.payload.generators[1].columns
          [] n.kind = "Window"        -> input \o NamesOf(n.payload.windows)
          [] n.kind = "Join"          ->
                input \o Qualified(n.payload.relation, cols[n.inputs[2]])
          [] n.kind = "GroupBy"       -> GroupColumns(n.payload.groups)
          [] n.kind = "Aggregate"     -> prefix[i] \o NamesOf(n.payload.measures)

PlannedColumns(ns) ==
    LET prefix == PrefixColumns(ns)
        cols[i \in 1..Len(ns)] == PlannedNode(ns, prefix, cols, i)
    IN  cols

-----------------------------------------------------------------------------
(* Relations.                                                              *)

Failed == [ok |-> FALSE, width |-> 0, rows |-> {}]

\* A relation whose rows have not the planned columns is of no use to a
\* consumer: its field references point at other columns or none.
Usable(rel, cols) == rel.ok /\ rel.width = Len(cols)

\* The rows of s that satisfy a predicate, in their order.
Satisfying(predicate, cols, s) ==
    FoldLeft(LAMBDA kept, row :
                IF Value(predicate, cols, row) # 0 THEN Append(kept, row) ELSE kept,
             <<>>, s)

FilterRel(rel, cols, predicate) ==
    IF Usable(rel, cols) /\ Resolves(predicate, cols)
    THEN [rel EXCEPT !.rows = {Satisfying(predicate, cols, s) : s \in rel.rows}]
    ELSE Failed

\* The names, values and assigned values after one assignment to a row.
Bind(b, a) ==
    LET k == Position(b.cols, a.name)
        v == Value(a.expr, b.cols, b.row)
    IN  [cols |-> AddOrReplace(b.cols, k, a.name),
         row |-> AddOrReplace(b.row, k, v),
         out |-> Append(b.out, v)]

Bound(cols, row, assignments) ==
    FoldLeft(Bind, [cols |-> cols, row |-> row, out |-> <<>>], assignments)

\* Each assignment sees the names that the earlier ones have bound.
AssignmentsResolve(cols, assignments) ==
    \A k \in 1..Len(assignments) :
        Resolves(assignments[k].expr, ProjectColumns(cols, SubSeq(assignments, 1, k - 1)))

EachRow(rel, width, F(_)) ==
    [ok |-> TRUE, width |-> width,
     rows |-> {[k \in 1..Len(s) |-> F(s[k])] : s \in rel.rows}]

ProjectRel(rel, cols, assignments) ==
    IF Usable(rel, cols) /\ AssignmentsResolve(cols, assignments)
    THEN EachRow(rel, Len(ProjectColumns(cols, assignments)),
                 LAMBDA row : Bound(cols, row, assignments).row)
    ELSE Failed

SelectProjectRel(rel, cols, assignments) ==
    IF Usable(rel, cols) /\ AssignmentsResolve(cols, assignments)
    THEN EachRow(rel, Len(assignments), LAMBDA row : Bound(cols, row, assignments).out)
    ELSE Failed

\* A measure over the rows of one group, a window function over a partition:
\* part holds their positions in s.
Measured(m, cols, s, part) ==
    IF m.fn = "count" THEN Cardinality(part)
    ELSE SumFunction([k \in part |-> Value(m.arg, cols, s[k])])

MeasuresResolve(ms, cols) ==
    \A k \in 1..Len(ms) : ms[k].fn = "count" \/ Resolves(ms[k].arg, cols)

\* The positions of the rows of s with these values.
SameValues(es, cols, s, key) == {k \in 1..Len(s) : Values(es, cols, s[k]) = key}

\* No grouping expression: one group, the whole input, even an empty one.
AggregateRel(rel, cols, groups, measures) ==
    LET Keys(s) == IF groups = <<>> THEN {<<>>}
                   ELSE {Values(groups, cols, s[k]) : k \in 1..Len(s)}
        Out(key, s) ==
            key \o [m \in 1..Len(measures) |->
                        Measured(measures[m], cols, s, SameValues(groups, cols, s, key))]
    IN  IF Usable(rel, cols) /\ AllResolve(groups, cols) /\ MeasuresResolve(measures, cols)
        THEN [ok |-> TRUE, width |-> Len(groups) + Len(measures),
              rows |-> UNION {{[k \in 1..Len(keys) |-> Out(keys[k], s)] :
                                  keys \in SetToSeqs(Keys(s))} : s \in rel.rows}]
        ELSE Failed

\* Every projection resolves against the input columns; all share one boundary.
WindowRel(rel, cols, windows) ==
    LET spec == windows[1].spec IN
    IF /\ Usable(rel, cols)
       /\ \A k \in 1..Len(windows) : windows[k].spec = spec
       /\ AllResolve(spec, cols)
       /\ MeasuresResolve(windows, cols)
    THEN [ok |-> TRUE, width |-> rel.width + Len(windows),
          rows |-> {[k \in 1..Len(s) |->
                        LET part == SameValues(spec, cols, s, Values(spec, cols, s[k]))
                        IN  s[k] \o [w \in 1..Len(windows) |->
                                        Measured(windows[w], cols, s, part)]] :
                    s \in rel.rows}]
    ELSE Failed

Precedes(a, b) ==
    a = b \/ \E k \in 1..Len(a) : a[k] < b[k] /\ \A j \in 1..(k - 1) : a[j] = b[j]

\* The rows of s in every order.
Rearranged(s) ==
    {[k \in 1..Len(s) |-> s[p[k]]] : p \in Bijection(1..Len(s), 1..Len(s))}

InOrder(sorts, cols, t) ==
    \A k \in 1..Len(t) : \A j \in 1..k :
        Precedes(Values(sorts, cols, t[j]), Values(sorts, cols, t[k]))

SortRel(rel, cols, sorts) ==
    IF Usable(rel, cols) /\ sorts # <<>> /\ AllResolve(sorts, cols)
    THEN [rel EXCEPT !.rows =
            {t \in UNION {Rearranged(s) : s \in rel.rows} : InOrder(sorts, cols, t)}]
    ELSE Failed

FetchRel(rel, count) ==
    [rel EXCEPT !.rows =
        {SubSeq(s, 1, IF count < Len(s) THEN count ELSE Len(s)) : s \in rel.rows}]

\* Explode a literal array: one output row per element.  A generated name that
\* is already a column, or is generated twice, is refused.
GeneratorRel(rel, cols, g) ==
    LET all == cols \o g.columns IN
    IF /\ Usable(rel, cols)
       /\ \A j \in (Len(cols) + 1)..Len(all) : \A k \in 1..(j - 1) : all[k] # all[j]
       /\ AllResolve(g.elements, cols)
    THEN [ok |-> TRUE, width |-> Len(all),
          rows |-> {FlattenSeq([k \in 1..Len(s) |->
                        [e \in 1..Len(g.elements) |->
                            Append(s[k], Value(g.elements[e], cols, s[k]))]]) : s \in rel.rows}]
    ELSE Failed

\* The value of an unmatched right column, unlike any value of the tables.
Null == -1

JoinRel(left, leftCols, right, rightCols, predicate, joinKind) ==
    LET cols == leftCols \o rightCols
        Pairs(l, t) == Satisfying(predicate, cols, [k \in 1..Len(t) |-> l \o t[k]])
        Matched(l, t) ==
            IF joinKind = "left" /\ Pairs(l, t) = <<>>
            THEN <<l \o [k \in 1..Len(rightCols) |-> Null]>>
            ELSE Pairs(l, t)
    IN  IF Usable(left, leftCols) /\ Usable(right, rightCols) /\ Resolves(predicate, cols)
        THEN [ok |-> TRUE, width |-> Len(cols),
              rows |-> UNION {{FlattenSeq([k \in 1..Len(s) |-> Matched(s[k], t)]) :
                                  s \in left.rows} : t \in right.rows}]
        ELSE Failed

\* _try_lower_node, with the planned columns of the list and the relations of
\* the inputs.
LoweredNode(ns, planned, rel, i) ==
    LET n == ns[i]
        x == n.inputs[1]
        p == n.payload
    IN  CASE n.kind = "ReadNamedTable" ->
                [ok |-> TRUE, width |-> Len(TableColumns[p.table]),
                 rows |-> {TableRows[p.table]}]
          [] n.kind = "Filter"        -> FilterRel(rel[x], planned[x], p.predicate)
          [] n.kind = "Project"       -> ProjectRel(rel[x], planned[x], p.assignments)
          [] n.kind = "SelectProject" -> SelectProjectRel(rel[x], planned[x], p.assignments)
          [] n.kind = "GroupBy"       -> AggregateRel(rel[x], planned[x], p.groups, <<>>)
          [] n.kind = "Aggregate"     ->
                IF p.groups = <<>> /\ ns[x].kind = "GroupBy"
                THEN AggregateRel(rel[ns[x].inputs[1]], planned[ns[x].inputs[1]],
                                  ns[x].payload.groups, p.measures)
                ELSE AggregateRel(rel[x], planned[x], p.groups, p.measures)
          [] n.kind = "Generate"      -> GeneratorRel(rel[x], planned[x], p.generators[1])
          [] n.kind = "Window"        -> WindowRel(rel[x], planned[x], p.windows)
          [] n.kind = "OrderBy"       -> SortRel(rel[x], planned[x], p.sorts)
          [] n.kind = "Limit"         -> FetchRel(rel[x], p.limit)
          [] n.kind = "Join"          ->
                LET y == n.inputs[2] IN
                JoinRel(rel[x], planned[x], rel[y], Qualified(p.relation, planned[y]),
                        p.predicate, p.join)

Lowered(ns) ==
    LET planned == PlannedColumns(ns)
        rel[i \in 1..Len(ns)] == LoweredNode(ns, planned, rel, i)
    IN  rel

\* The relation a tip lowers to.
Meaning(ns, tip) == Lowered(ns)[tip]
=============================================================================
