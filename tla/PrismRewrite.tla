---------------------------- MODULE PrismRewrite ----------------------------
(***************************************************************************)
(* The canonical rewrite pass (src/src/prism/rewrite.incn) over the stores *)
(* of PrismStore.                                                          *)
(*                                                                         *)
(* Lowering a cursor first derives a view: a fresh node list built from    *)
(* the authored nodes its tip reaches.  One loop visits them inputs first  *)
(* and either erases a node, collapses it onto its parent in the new list, *)
(* or copies it.  A second loop keeps what the new root still reaches and  *)
(* renumbers it.  Both loops are modelled one iteration per step.          *)
(*                                                                         *)
(* The pass runs on the caller's thread and changes no store, so the       *)
(* cursor API and the pass exclude each other.  As in PrismStore, ids      *)
(* count from 1 and 0 stands for the code's -1.                            *)
(***************************************************************************)
EXTENDS PrismStore

CONSTANTS
    NoPayload,   \* the payload whose fields all have their default
    TrueLiteral, \* the predicate literal true
    NoRequest    \* no view is being derived

\* NoRequest is told from a cursor, and window columns are a list.
ASSUME RewriteAssumption ==
    /\ NoRequest \notin Cursor
    /\ "windows" \in DOMAIN NoPayload
    /\ \A k \in Kind : \A p \in Payload[k] :
          p.windows \in Seq({p.windows[i] : i \in DOMAIN p.windows})

VARIABLES
    phase,     \* "resting", "rewriting", "compacting" or "derived"
    request,   \* the cursor whose view is derived, or NoRequest
    unvisited, \* the ids the current loop has yet to visit
    newId,     \* the current loop's id table, 0 where unmapped
    draft,     \* rewritten_nodes: the list the first loop builds
    origins,   \* rewritten_origin_ids: the authored id behind each draft node
    rules,     \* applied_rule_names
    view       \* the compacted view: nodes, their origins and the root

rewriteVars == <<phase, request, unvisited, newId, draft, origins, rules, view>>
allVars == <<vars, rewriteVars>>

EmptyView == [nodes |-> <<>>, origins |-> <<>>, root |-> 0]

AuthoredNodes == nodes[request.store]
AuthoredReachable == Reachable(AuthoredNodes, request.tip)

-----------------------------------------------------------------------------
(* The first loop: one authored node per step.                             *)

\* derive_rewritten_view up to its loop.
BeginDerive(c) ==
    /\ phase = "resting"
    /\ phase' = "rewriting"
    /\ request' = c
    /\ unvisited' = Reachable(nodes[c.store], c.tip)
    /\ newId' = [i \in 1..Len(nodes[c.store]) |-> 0]
    /\ UNCHANGED <<draft, origins, rules, view>>

\* Both loops visit their ids in list order.
IsTurnOf(x, loop) ==
    /\ phase = loop
    /\ x \in unvisited
    /\ \A y \in unvisited : x <= y

Visit(x) ==
    /\ unvisited' = unvisited \ {x}
    /\ UNCHANGED <<phase, request>>

RemappedInputs(x) == Remap(AuthoredNodes[x].inputs, newId)

\* The rewritten node that the unary authored node x reads from.
Parent(x) == draft[RemappedInputs(x)[1]]

\* x and its rewritten parent have these kinds.
Adjacent(x, kind, parentKind) ==
    /\ AuthoredNodes[x].kind = kind
    /\ Parent(x).kind = parentKind

Erased(ns, x) == ns[x].kind = "Filter" /\ ns[x].payload.predicate = TrueLiteral

CanEliminateFilterTrue(x) == Erased(AuthoredNodes, x)

\* _window_projection_groups_share_boundary
ShareBoundary(left, right) ==
    /\ left # <<>> /\ right # <<>>
    /\ \A k \in 1..Len(left) : left[k].spec = left[1].spec
    /\ \A k \in 1..Len(right) : right[k].spec = left[1].spec

CanCollapseWindow(x) ==
    /\ Adjacent(x, "Window", "Window")
    /\ ShareBoundary(Parent(x).payload.windows, AuthoredNodes[x].payload.windows)

\* Record a rewritten node standing for the authored node x.
Emit(x, kind, inputs, payload) ==
    /\ draft' = Append(draft, [id |-> Len(draft) + 1, kind |-> kind,
                               inputs |-> inputs, payload |-> payload])
    /\ origins' = Append(origins, x)
    /\ newId' = [newId EXCEPT ![x] = Len(draft) + 1]

\* Faulty variant: the merged node takes its parent's place, so that the
\* parent's other consumers read it too.
CollapseInPlace(x, rule, payload) ==
    /\ Visit(x)
    /\ draft' = [draft EXCEPT ![RemappedInputs(x)[1]].payload = payload]
    /\ newId' = [newId EXCEPT ![x] = RemappedInputs(x)[1]]
    /\ rules' = Append(rules, rule)
    /\ UNCHANGED <<origins, view>>

\* Faulty variant: the merged node still reads its parent.
CollapseOntoParent(x, rule, payload) ==
    /\ Visit(x)
    /\ Emit(x, AuthoredNodes[x].kind, RemappedInputs(x), payload)
    /\ rules' = Append(rules, rule)
    /\ UNCHANGED view

\* Faulty variant: the rule is not recorded.
CollapseUnrecorded(x, rule, payload) ==
    /\ Visit(x)
    /\ Emit(x, AuthoredNodes[x].kind, <<Parent(x).inputs[1]>>, payload)
    /\ UNCHANGED <<rules, view>>

\* Replace x and its parent by one node that reads what the parent reads.
Collapse(x, rule, payload) ==
    /\ Visit(x)
    /\ Emit(x, AuthoredNodes[x].kind, <<Parent(x).inputs[1]>>, payload)
    /\ rules' = Append(rules, rule)
    /\ UNCHANGED view

\* Faulty variant: the input is not remapped.
EliminateFilterTrueUnmapped(x) ==
    /\ Visit(x)
    /\ CanEliminateFilterTrue(x)
    /\ newId' = [newId EXCEPT ![x] = AuthoredNodes[x].inputs[1]]
    /\ rules' = Append(rules, "eliminate_filter_true")
    /\ UNCHANGED <<draft, origins, view>>

EliminateFilterTrue(x) ==
    /\ Visit(x)
    /\ CanEliminateFilterTrue(x)
    /\ newId' = [newId EXCEPT ![x] = RemappedInputs(x)[1]]
    /\ rules' = Append(rules, "eliminate_filter_true")
    /\ UNCHANGED <<draft, origins, view>>

\* Faulty variant: the later limit replaces the earlier one.
CollapseLimitToLast(x) ==
    /\ Adjacent(x, "Limit", "Limit")
    /\ Collapse(x, "collapse_adjacent_limit",
                [NoPayload EXCEPT !.limit = AuthoredNodes[x].payload.limit])

CollapseLimit(x) ==
    /\ Adjacent(x, "Limit", "Limit")
    /\ LET earlier == Parent(x).payload.limit
           later == AuthoredNodes[x].payload.limit
       IN  Collapse(x, "collapse_adjacent_limit",
                    [NoPayload EXCEPT !.limit = IF earlier < later THEN earlier ELSE later])

\* Faulty variant: the later assignments come first.
CollapseProjectReversed(x) ==
    /\ Adjacent(x, "Project", "Project")
    /\ Collapse(x, "collapse_adjacent_project",
                [NoPayload EXCEPT !.assignments =
                    AuthoredNodes[x].payload.assignments \o Parent(x).payload.assignments])

CollapseProject(x) ==
    /\ Adjacent(x, "Project", "Project")
    /\ Collapse(x, "collapse_adjacent_project",
                [NoPayload EXCEPT !.assignments =
                    Parent(x).payload.assignments \o AuthoredNodes[x].payload.assignments])

\* The parent's grouping stays; the measures are appended to the parent's.
CollapseAggregate(x) ==
    /\ Adjacent(x, "Aggregate", "Aggregate")
    /\ Collapse(x, "collapse_adjacent_aggregate",
                [NoPayload EXCEPT !.groups = Parent(x).payload.groups,
                                  !.measures = Parent(x).payload.measures
                                               \o AuthoredNodes[x].payload.measures])

FuseGroupBy(x) ==
    /\ Adjacent(x, "Aggregate", "GroupBy")
    /\ Collapse(x, "fuse_group_by_aggregate",
                [NoPayload EXCEPT !.groups = Parent(x).payload.groups,
                                  !.measures = AuthoredNodes[x].payload.measures])

\* The later ordering replaces the earlier one.
CollapseOrderBy(x) ==
    /\ Adjacent(x, "OrderBy", "OrderBy")
    /\ Collapse(x, "collapse_adjacent_order_by",
                [NoPayload EXCEPT !.sorts = AuthoredNodes[x].payload.sorts])

CollapseWindow(x) ==
    /\ CanCollapseWindow(x)
    /\ Collapse(x, "collapse_adjacent_window",
                [NoPayload EXCEPT !.windows =
                    Parent(x).payload.windows \o AuthoredNodes[x].payload.windows])

\* The default path: x is kept, with its inputs remapped.
CopyNode(x) ==
    /\ Visit(x)
    /\ ~CanEliminateFilterTrue(x)
    /\ \A kind \in {"Limit", "Project", "Aggregate", "OrderBy"} : ~Adjacent(x, kind, kind)
    /\ ~Adjacent(x, "Aggregate", "GroupBy")
    /\ ~CanCollapseWindow(x)
    /\ Emit(x, AuthoredNodes[x].kind, RemappedInputs(x), AuthoredNodes[x].payload)
    /\ UNCHANGED <<rules, view>>

-----------------------------------------------------------------------------
(* The second loop: keep what the root reaches, with dense ids.            *)

\* Faulty variant: every rewritten node is kept.
BeginCompactionOfAll ==
    /\ phase = "rewriting"
    /\ unvisited = {}
    /\ phase' = "compacting"
    /\ view' = [view EXCEPT !.root = newId[request.tip]]
    /\ unvisited' = 1..Len(draft)
    /\ newId' = [i \in 1..Len(draft) |-> 0]
    /\ UNCHANGED <<request, draft, origins, rules>>

BeginCompaction ==
    /\ phase = "rewriting"
    /\ unvisited = {}
    /\ phase' = "compacting"
    /\ view' = [view EXCEPT !.root = newId[request.tip]]
    /\ unvisited' = Reachable(draft, newId[request.tip])
    /\ newId' = [i \in 1..Len(draft) |-> 0]
    /\ UNCHANGED <<request, draft, origins, rules>>

\* Faulty variant: the origin is looked up by the new id.
CompactNodeOriginShifted(x) ==
    /\ IsTurnOf(x, "compacting")
    /\ Visit(x)
    /\ LET id == Len(view.nodes) + 1 IN
         /\ view' = [view EXCEPT
                !.nodes = Append(@, [draft[x] EXCEPT !.id = id,
                                                     !.inputs = Remap(draft[x].inputs, newId)]),
                !.origins = Append(@, origins[id])]
         /\ newId' = [newId EXCEPT ![x] = id]
    /\ UNCHANGED <<draft, origins, rules>>

CompactNode(x) ==
    /\ IsTurnOf(x, "compacting")
    /\ Visit(x)
    /\ LET id == Len(view.nodes) + 1 IN
         /\ view' = [view EXCEPT
                !.nodes = Append(@, [draft[x] EXCEPT !.id = id,
                                                     !.inputs = Remap(draft[x].inputs, newId)]),
                !.origins = Append(@, origins[x])]
         /\ newId' = [newId EXCEPT ![x] = id]
    /\ UNCHANGED <<draft, origins, rules>>

FinishCompaction ==
    /\ phase = "compacting"
    /\ unvisited = {}
    /\ phase' = "derived"
    /\ view' = [view EXCEPT !.root = newId[view.root]]
    /\ UNCHANGED <<request, unvisited, newId, draft, origins, rules>>

\* The caller takes the view; every local of the pass is gone.
ReturnView ==
    /\ phase = "derived"
    /\ phase' = "resting"
    /\ request' = NoRequest
    /\ newId' = <<>> /\ draft' = <<>> /\ origins' = <<>> /\ rules' = <<>>
    /\ view' = EmptyView
    /\ UNCHANGED unvisited

-----------------------------------------------------------------------------

RewriteInit ==
    /\ Init
    /\ phase = "resting"
    /\ request = NoRequest
    /\ unvisited = {}
    /\ newId = <<>> /\ draft = <<>> /\ origins = <<>> /\ rules = <<>>
    /\ view = EmptyView

RewriteNode(x) ==
    /\ IsTurnOf(x, "rewriting")
    /\ \/ EliminateFilterTrue(x)
       \/ CollapseLimit(x)
       \/ CollapseProject(x)
       \/ CollapseAggregate(x)
       \/ FuseGroupBy(x)
       \/ CollapseOrderBy(x)
       \/ CollapseWindow(x)
       \/ CopyNode(x)

PassStep ==
    \/ \E x \in unvisited : RewriteNode(x) \/ CompactNode(x)
    \/ BeginCompaction
    \/ FinishCompaction
    \/ ReturnView

RewriteNext ==
    \/ phase = "resting" /\ Next /\ UNCHANGED rewriteVars
    \/ Idle /\ (\E c \in cursors : BeginDerive(c)) /\ UNCHANGED vars
    \/ PassStep /\ UNCHANGED vars

RewriteSpec == RewriteInit /\ [][RewriteNext]_allVars

-----------------------------------------------------------------------------
(* Properties.                                                             *)

\* The locals of the pass keep their shapes.
RewriteTypeOK ==
    /\ phase \in {"resting", "rewriting", "compacting", "derived"}
    /\ request \in Cursor \cup {NoRequest}
    /\ request = NoRequest <=> phase = "resting"
    /\ unvisited \in SUBSET Nat
    /\ newId \in Seq(Nat)
    /\ \A ns \in {draft, view.nodes} : \A k \in 1..Len(ns) :
          ns[k].kind \in Kind /\ ns[k].inputs \in Seq(Nat)
    /\ origins \in Seq(Nat) /\ view.origins \in Seq(Nat)
    /\ view.root \in Nat

\* A node list that lowering can walk: ids are positions, inputs come first.
WellFormed(ns) ==
    \A i \in 1..Len(ns) : ns[i].id = i /\ Inputs(ns[i]) \subseteq 1..(i - 1)

\* While the first loop runs, exactly the visited ids are mapped, to nodes that
\* exist, and every draft node stands for a visited one, in visiting order.
DraftSound ==
    phase = "rewriting" =>
        LET live == AuthoredReachable IN
        /\ WellFormed(draft)
        /\ \A x \in 1..Len(newId) :
              IF x \in live \ unvisited THEN newId[x] \in 1..Len(draft) ELSE newId[x] = 0
        /\ Len(origins) = Len(draft)
        /\ \A k \in 1..Len(origins) :
              /\ origins[k] \in live \ unvisited
              /\ \A j \in 1..(k - 1) : origins[j] < origins[k]

\* The derived view is what lowering, inspection and lineage index by position:
\* well formed, nothing the root does not reach, and one authored origin per
\* node, all distinct, in authored order, reachable from the authored tip.
ViewSound ==
    phase = "derived" =>
        /\ WellFormed(view.nodes)
        /\ Reachable(view.nodes, view.root) = 1..Len(view.nodes)
        /\ Len(view.origins) = Len(view.nodes)
        /\ \A k \in 1..Len(view.origins) :
              /\ view.origins[k] \in AuthoredReachable
              /\ \A j \in 1..(k - 1) : view.origins[j] < view.origins[k]

\* Every view node has the kind of its origin, and its root stands for the tip,
\* or for what the tip's erased filters stood on.
OriginsExplain ==
    phase = "derived" =>
        /\ \A k \in 1..Len(view.nodes) :
              view.nodes[k].kind = AuthoredNodes[view.origins[k]].kind
        /\ \A x \in AuthoredReachable :
              x > view.origins[view.root] => CanEliminateFilterTrue(x)

\* The view is canonical: no filter on true, and no limit, projection, ordering
\* or window of one boundary directly over another, however they were chained.
ViewCanonical ==
    phase = "derived" =>
        \A i \in 1..Len(view.nodes) :
            LET n == view.nodes[i] IN
            /\ ~(n.kind = "Filter" /\ n.payload.predicate = TrueLiteral)
            /\ n.kind \in {"Limit", "Project", "OrderBy"} =>
                  view.nodes[n.inputs[1]].kind # n.kind
            /\ n.kind = "Window" /\ view.nodes[n.inputs[1]].kind = "Window" =>
                  ~ShareBoundary(view.nodes[n.inputs[1]].payload.windows, n.payload.windows)

\* rewrite_explain adds up: the nodes the view lost were lost to a recorded
\* rule, and a rule that loses none left its parent to another consumer.
ExplainAccounts ==
    phase = "derived" =>
        /\ Cardinality(AuthoredReachable) - Len(view.nodes) <= Len(rules)
        /\ rules = <<>> => Len(view.nodes) = Cardinality(AuthoredReachable)
=============================================================================
