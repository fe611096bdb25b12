------------------------ MODULE PrismRewriteMeaning -------------------------
(***************************************************************************)
(* What the rewrite pass promises: the derived view lowers to the relation *)
(* that the authored nodes, lowered as they stand, describe.               *)
(***************************************************************************)
EXTENDS PrismRewrite, PrismMeaning

\* What planning reads of the payload of a node is a list, and only group_by
\* hands grouping expressions to append_node.
Plannable(kind, p) ==
    /\ kind # "GroupBy" => p.groups = <<>>
    /\ kind = "GroupBy" => IsSequence(p.groups)
    /\ kind = "Aggregate" => IsSequence(p.measures)
    /\ kind \in {"Project", "SelectProject"} => IsSequence(p.assignments)
    /\ kind = "Generate" /\ Accepted(kind, p) => IsSequence(p.generators[1].columns)
    /\ kind = "ReadNamedTable" /\ Accepted(kind, p) => IsSequence(TableColumns[p.table])

\* What lowering reads of a payload are expressions over numbers; a generator
\* explodes into one column.
Computable(kind, p) ==
    /\ kind = "ReadNamedTable" /\ Accepted(kind, p) =>
          TableRows[p.table] \in Seq([1..Len(TableColumns[p.table]) -> Int])
    /\ kind \in {"Project", "SelectProject"} =>
          \A k \in DOMAIN p.assignments : Numeric(p.assignments[k].expr)
    /\ AllNumeric(p.groups)
    /\ kind = "Aggregate" => MeasuresNumeric(p.measures)
    /\ kind = "Generate" /\ Accepted(kind, p) =>
          AllNumeric(p.generators[1].elements) /\ Len(p.generators[1].columns) = 1
    /\ kind = "Window" =>
          /\ MeasuresNumeric(p.windows)
          /\ \A k \in DOMAIN p.windows : AllNumeric(p.windows[k].spec)
    /\ kind = "OrderBy" => AllNumeric(p.sorts)
    /\ kind = "Limit" /\ Accepted(kind, p) => p.limit \in Nat

ASSUME MeaningAssumption ==
    /\ \A k \in Kind : \A p \in Payload[k] : Plannable(k, p) /\ Computable(k, p)
    /\ {"assignments", "groups", "limit", "measures", "sorts"} \subseteq DOMAIN NoPayload
    /\ NoPayload.groups = <<>>
    /\ TrueLiteral.op = "true"

\* The first node at or below i that is not a filter on true.
Kept(ns) ==
    LET kept[i \in 1..Len(ns)] ==
            IF Erased(ns, i)
            THEN kept[ns[i].inputs[1]]
            ELSE i
    IN  kept

\* Not a grouping or an aggregate, once filters on true are erased.
Ungrouped(x) == AuthoredNodes[Kept(AuthoredNodes)[x]].kind \notin {"GroupBy", "Aggregate"}

\* Aggregates sit on their grouping or on ungrouped relations: none aggregates
\* an aggregate, no filter on true separates one from its grouping, and a
\* grouping by nothing, which fusing drops, has no other grouping below it.
GroupingPlain ==
    \A i \in AuthoredReachable :
        AuthoredNodes[i].kind = "Aggregate" =>
            LET x == AuthoredNodes[i].inputs[1]
                grouping == AuthoredNodes[x]
            IN  \/ Ungrouped(x)
                \/ /\ grouping.kind = "GroupBy"
                   /\ grouping.payload.groups # <<>> \/ Ungrouped(grouping.inputs[1])

\* The columns of a window and of the windows it directly follows.
WindowNames(ns) ==
    LET names[i \in 1..Len(ns)] ==
            IF ns[i].kind # "Window" THEN {}
            ELSE {ns[i].payload.windows[k].name : k \in 1..Len(ns[i].payload.windows)}
                 \cup names[Kept(ns)[ns[i].inputs[1]]]
    IN  names

\* No window function reads the column of a window it directly follows.
WindowsIndependent ==
    \A i \in AuthoredReachable :
        AuthoredNodes[i].kind = "Window" =>
            LET n == AuthoredNodes[i] IN
            \A k \in 1..Len(n.payload.windows) :
                n.payload.windows[k].arg.name
                    \notin WindowNames(AuthoredNodes)[Kept(AuthoredNodes)[n.inputs[1]]]

\* Whatever the view may return, the authored nodes may return too.
Preserved ==
    LET authored == Meaning(AuthoredNodes, request.tip)
        derived == Meaning(view.nodes, view.root)
    IN  authored.ok => derived.ok /\ derived.width = authored.width
                                  /\ derived.rows \subseteq authored.rows

\* Where the rules are meant to apply, erasing, collapsing, fusing, sharing a
\* collapsed parent with other consumers and renumbering keep the meaning.
LoweringAgrees ==
    phase = "derived" /\ GroupingPlain /\ WindowsIndependent => Preserved

\* The columns planned from the authored nodes, which inspection reports, are
\* those planned from the view, which lowering resolves names against, and the
\* relation the view lowers to has as many.
ColumnsAgree ==
    phase = "derived" /\ GroupingPlain =>
        LET planned == PlannedColumns(view.nodes)[view.root]
            derived == Meaning(view.nodes, view.root)
        IN  /\ planned = PlannedColumns(AuthoredNodes)[request.tip]
            /\ derived.ok => derived.width = Len(planned)

\* The documented claim of one rule: a filter on true is a "no-op" that "can be
\* erased" (rewrite.incn:160), here where no aggregate collapses onto another.
FilterTrueErasable ==
    /\ phase = "derived"
    /\ \A i \in AuthoredReachable :
          AuthoredNodes[i].kind = "Aggregate" =>
              AuthoredNodes[Kept(AuthoredNodes)[AuthoredNodes[i].inputs[1]]].kind # "Aggregate"
    => Preserved

\* The documented claim: every rewrite preserves the meaning of what was
\* authored (src/docs/contributing/architecture.md:45, rewrite.incn:39).
RewritePreservesMeaning == phase = "derived" => Preserved
=============================================================================
