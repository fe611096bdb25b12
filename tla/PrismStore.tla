----------------------------- MODULE PrismStore -----------------------------
(***************************************************************************)
(* Prism's authored stores (src/src/prism/store.incn) and the cursors that *)
(* grow them (src/src/prism/mod.incn).                                     *)
(*                                                                         *)
(* A store is an append-only list of logical nodes.  A cursor is a pair    *)
(* (store, tip).  Every authoring method appends one node whose input is   *)
(* the cursor's tip and returns a new cursor; the old one stays usable, so *)
(* a store is a DAG with many tips.  Joining cursors of two stores first   *)
(* copies ("adopts") the part of the right store that its tip reaches.     *)
(*                                                                         *)
(* The module-level lists prism_stored_nodes and prism_store_node_counts   *)
(* hold the entries of every store, tagged; nodes[s] and nextId[s] are     *)
(* what store_nodes(s) and _latest_store_next_node_id(s) read from them.   *)
(* Ids count from 1 here and from 0 in the code; 0 stands for its -1.      *)
(*                                                                         *)
(* The planner runs on one thread.  The adoption loop is nevertheless      *)
(* modelled one iteration per step, with every other operation disabled    *)
(* while it runs, so that its loop invariant can be stated and proved.     *)
(***************************************************************************)
EXTENDS Naturals, Sequences, FiniteSets

CONSTANTS
    MaxStores,      \* bound: stores the program may allocate
    MaxCursors,     \* bound: cursors the program may derive
    Payload,        \* kind -> the payloads the program passes for that kind
    NoAssignments,  \* the empty projection list
    Accepted(_, _), \* Accepted(kind, payload): no shape error for the payload
    Plain(_),       \* a payload with its typed-expression wrappers removed
    NoJoin          \* no cross-store join is in progress

UnaryKind == {"Filter", "Project", "SelectProject", "GroupBy", "Aggregate",
              "Generate", "Window", "OrderBy", "Limit"}

Kind == UnaryKind \cup {"ReadNamedTable", "Join"}

ASSUME BoundAssumption == MaxStores \in Nat /\ MaxCursors \in Nat

ASSUME PayloadAssumption == DOMAIN Payload = Kind

-----------------------------------------------------------------------------
(* Nodes, cursors and pending joins.                                       *)

StoreId == 1..MaxStores

Node == [id : Nat, kind : Kind, inputs : Seq(Nat),
         payload : UNION {Payload[k] : k \in Kind}]

Cursor == [store : StoreId, tip : Nat]

JoinRequest == [left : Cursor, right : Cursor, payload : Payload["Join"]]

VARIABLES
    allocated,  \* how many stores exist
    nodes,      \* nodes[s]: the nodes of store s, in id order
    nextId,     \* nextId[s]: the id the next append to s will use
    cursors,    \* every cursor the program has been given
    join,       \* the cross-store join in progress, or NoJoin
    todo,       \* its source ids that the adoption loop has yet to visit
    idMap,      \* its source id -> target id table, 0 where unmapped
    adopted     \* its target ids appended so far, in order

storeVars == <<allocated, nodes, nextId, cursors>>
adoptVars == <<join, todo, idMap, adopted>>
vars == <<storeVars, adoptVars>>

\* The ids a node reads from.
Inputs(n) == {n.inputs[k] : k \in 1..Len(n.inputs)}

\* A set of ids closed under "is an input of", in a store's node list.
InputClosed(ns, C) == \A j \in C : Inputs(ns[j]) \subseteq C

\* The ids the breadth-first walk from a tip visits: the least closed set.
Reachable(ns, tip) ==
    {i \in 1..Len(ns) :
        \A C \in SUBSET (1..Len(ns)) : tip \in C /\ InputClosed(ns, C) => i \in C}

-----------------------------------------------------------------------------
(* append_node: validate the shape, take the next id, record the node.     *)

ValidShape(kind, inputs, payload) ==
    /\ kind = "ReadNamedTable" => Len(inputs) = 0
    /\ kind = "Join" => Len(inputs) = 2
    /\ kind \in UnaryKind => Len(inputs) = 1
    /\ Accepted(kind, payload)

\* Faulty variant: a join is stored but its counter event is not.
AppendNodeUncounted(s, kind, inputs, payload) ==
    /\ ValidShape(kind, inputs, payload)
    /\ nodes' = [nodes EXCEPT ![s] = Append(@,
                   [id |-> nextId[s], kind |-> kind, inputs |-> inputs, payload |-> payload])]
    /\ nextId' = IF kind = "Join" THEN nextId ELSE [nextId EXCEPT ![s] = @ + 1]

AppendNode(s, kind, inputs, payload) ==
    /\ ValidShape(kind, inputs, payload)
    /\ nodes' = [nodes EXCEPT ![s] = Append(@,
                   [id |-> nextId[s], kind |-> kind, inputs |-> inputs, payload |-> payload])]
    /\ nextId' = [nextId EXCEPT ![s] = @ + 1]

Idle == join = NoJoin

\* The bound on a run's length: every authoring call returns one new cursor.
WithinBound == Cardinality(cursors) < MaxCursors

\* Faulty variant: an operation over a filter rewrites it in place.
DeriveInPlace(c, kind, payload) ==
    /\ Idle
    /\ WithinBound
    /\ IF nodes[c.store][c.tip].kind = "Filter"
       THEN /\ nodes' = [nodes EXCEPT ![c.store][c.tip].kind = kind,
                                      ![c.store][c.tip].payload = payload]
            /\ UNCHANGED <<nextId, cursors>>
       ELSE /\ AppendNode(c.store, kind, <<c.tip>>, payload)
            /\ cursors' = cursors \cup {[store |-> c.store, tip |-> nextId[c.store]]}
    /\ UNCHANGED <<allocated, adoptVars>>

\* A cursor method: append one node over the cursor's tip, return its cursor.
Derive(c, kind, payload) ==
    /\ Idle
    /\ WithinBound
    /\ AppendNode(c.store, kind, <<c.tip>>, payload)
    /\ cursors' = cursors \cup {[store |-> c.store, tip |-> nextId[c.store]]}
    /\ UNCHANGED <<allocated, adoptVars>>

-----------------------------------------------------------------------------
(* The cursor API.                                                         *)

Allocate ==
    /\ Idle
    /\ allocated < MaxStores
    /\ allocated' = allocated + 1

\* prism_cursor_named_table: a new store rooted at one read.
NamedTable(t) ==
    /\ Allocate
    /\ WithinBound
    /\ AppendNode(allocated + 1, "ReadNamedTable", <<>>, t)
    /\ cursors' = cursors \cup {[store |-> allocated + 1, tip |-> nextId[allocated + 1]]}
    /\ UNCHANGED adoptVars

\* The same call with a name append_node refuses: the store it had already
\* allocated stays behind, empty, and no cursor is returned.
NamedTableRefused(t) ==
    /\ Allocate
    /\ ~ValidShape("ReadNamedTable", <<>>, t)
    /\ UNCHANGED <<nodes, nextId, cursors, adoptVars>>

Filter(c, p) == Derive(c, "Filter", p)
WithColumn(c, p) == Derive(c, "Project", p)

\* An empty select is a Project that keeps every column.
Select(c, p) == Derive(c, IF p = NoAssignments THEN "Project" ELSE "SelectProject", p)
GroupBy(c, p) == Derive(c, "GroupBy", p)
Agg(c, p) == Derive(c, "Aggregate", p)
OrderBy(c, p) == Derive(c, "OrderBy", p)
Limit(c, p) == Derive(c, "Limit", p)
Generate(c, p) == Derive(c, "Generate", p)
WithWindowColumn(c, p) == Derive(c, "Window", p)

\* _join_with_kind when both cursors live in one store: a single append.
JoinSameStore(l, r, p) ==
    /\ Idle
    /\ l.store = r.store
    /\ WithinBound
    /\ AppendNode(l.store, "Join", <<l.tip, r.tip>>, p)
    /\ cursors' = cursors \cup {[store |-> l.store, tip |-> nextId[l.store]]}
    /\ UNCHANGED <<allocated, adoptVars>>

-----------------------------------------------------------------------------
(* Cross-store join: adopt the right subgraph, then append the join.       *)

\* adopt_cursor_subgraph up to its loop: an empty map and the ids to visit.
BeginAdoption(l, r, p) ==
    /\ Idle
    /\ WithinBound
    /\ l.store # r.store
    /\ todo' = Reachable(nodes[r.store], r.tip)
    /\ join' = [left |-> l, right |-> r, payload |-> p]
    /\ idMap' = [i \in 1..Len(nodes[r.store]) |-> 0]
    /\ adopted' = <<>>
    /\ UNCHANGED storeVars

Target == join.left.store
Source == nodes[join.right.store]

\* remap_input_ids: a node's inputs through the id table.
Remap(inputs, map) == [k \in 1..Len(inputs) |-> map[inputs[k]]]

\* _nodes_structurally_equal: same kind and inputs, payloads equal once the
\* typed wrappers of their expressions are removed.
SameStructure(candidate, n, remapped) ==
    /\ candidate.kind = n.kind
    /\ Plain(candidate.payload) = Plain(n.payload)
    /\ candidate.inputs = remapped

\* Faulty variant: a typed wrapper makes two equal nodes look different.
MatchesTyped(n, remapped) ==
    {k \in 1..Len(adopted) :
        LET candidate == nodes[Target][adopted[k]] IN
        candidate.kind = n.kind /\ candidate.payload = n.payload /\ candidate.inputs = remapped}

\* The nodes this pass has adopted that n could reuse.
Matches(n, remapped) ==
    {k \in 1..Len(adopted) : SameStructure(nodes[Target][adopted[k]], n, remapped)}

\* The loop visits the reachable ids in store order.
IsNextSourceId(x) == x \in todo /\ \A y \in todo : x <= y

\* An iteration that finds a match reuses the first one.
AdoptReuse(x) ==
    /\ ~Idle
    /\ IsNextSourceId(x)
    /\ \E k \in Matches(Source[x], Remap(Source[x].inputs, idMap)) :
         /\ \A j \in Matches(Source[x], Remap(Source[x].inputs, idMap)) : k <= j
         /\ idMap' = [idMap EXCEPT ![x] = adopted[k]]
    /\ todo' = todo \ {x}
    /\ UNCHANGED <<storeVars, join, adopted>>

\* Faulty variant: the table records the position in the pass, not the id.
AdoptCopyMisnumbered(x) ==
    /\ ~Idle
    /\ IsNextSourceId(x)
    /\ LET remapped == Remap(Source[x].inputs, idMap) IN
         /\ Matches(Source[x], remapped) = {}
         /\ AppendNode(Target, Source[x].kind, remapped, Source[x].payload)
    /\ idMap' = [idMap EXCEPT ![x] = Len(adopted) + 1]
    /\ adopted' = Append(adopted, nextId[Target])
    /\ todo' = todo \ {x}
    /\ UNCHANGED <<allocated, cursors, join>>

\* An iteration that finds none copies the node into the target store.
AdoptCopy(x) ==
    /\ ~Idle
    /\ IsNextSourceId(x)
    /\ LET remapped == Remap(Source[x].inputs, idMap) IN
         /\ Matches(Source[x], remapped) = {}
         /\ AppendNode(Target, Source[x].kind, remapped, Source[x].payload)
    /\ idMap' = [idMap EXCEPT ![x] = nextId[Target]]
    /\ adopted' = Append(adopted, nextId[Target])
    /\ todo' = todo \ {x}
    /\ UNCHANGED <<allocated, cursors, join>>

\* Faulty variant: the two sides of the join are swapped.
FinishJoinSwapped ==
    /\ ~Idle
    /\ todo = {}
    /\ AppendNode(Target, "Join", <<idMap[join.right.tip], join.left.tip>>, join.payload)
    /\ cursors' = cursors \cup {[store |-> Target, tip |-> nextId[Target]]}
    /\ join' = NoJoin
    /\ idMap' = <<>>
    /\ adopted' = <<>>
    /\ UNCHANGED <<allocated, todo>>

\* After the loop: append the join over the left tip and the adopted tip.
FinishJoin ==
    /\ ~Idle
    /\ todo = {}
    /\ AppendNode(Target, "Join", <<join.left.tip, idMap[join.right.tip]>>, join.payload)
    /\ cursors' = cursors \cup {[store |-> Target, tip |-> nextId[Target]]}
    /\ join' = NoJoin
    /\ idMap' = <<>>
    /\ adopted' = <<>>
    /\ UNCHANGED <<allocated, todo>>

-----------------------------------------------------------------------------

Init ==
    /\ allocated = 0
    /\ nodes = [s \in StoreId |-> <<>>]
    /\ nextId = [s \in StoreId |-> 1]
    /\ cursors = {}
    /\ join = NoJoin
    /\ todo = {}
    /\ idMap = <<>>
    /\ adopted = <<>>

DeriveStep(c) ==
    \/ \E p \in Payload["Filter"] : Filter(c, p)
    \/ \E p \in Payload["Project"] : WithColumn(c, p)
    \/ \E p \in Payload["SelectProject"] : Select(c, p)
    \/ \E p \in Payload["GroupBy"] : GroupBy(c, p)
    \/ \E p \in Payload["Aggregate"] : Agg(c, p)
    \/ \E p \in Payload["OrderBy"] : OrderBy(c, p)
    \/ \E p \in Payload["Limit"] : Limit(c, p)
    \/ \E p \in Payload["Generate"] : Generate(c, p)
    \/ \E p \in Payload["Window"] : WithWindowColumn(c, p)

JoinStep(l, r) ==
    \E p \in Payload["Join"] : JoinSameStore(l, r, p) \/ BeginAdoption(l, r, p)

AdoptStep ==
    \/ \E x \in todo : AdoptReuse(x) \/ AdoptCopy(x)
    \/ FinishJoin

Next ==
    \/ \E t \in Payload["ReadNamedTable"] : NamedTable(t) \/ NamedTableRefused(t)
    \/ \E c \in cursors : DeriveStep(c)
    \/ \E l, r \in cursors : JoinStep(l, r)
    \/ AdoptStep

Spec == Init /\ [][Next]_vars

-----------------------------------------------------------------------------
(* Properties.                                                             *)

\* Every variable keeps the shape the code gives it (store.incn:17-39,
\* types.incn): per-store node lists, cursors, and the adoption loop's locals.
TypeOK ==
    /\ allocated \in 0..MaxStores
    /\ nodes \in [StoreId -> Seq(Node)]
    /\ nextId \in [StoreId -> Nat]
    /\ cursors \in SUBSET Cursor
    /\ join \in JoinRequest \cup {NoJoin}
    /\ todo \in SUBSET Nat
    /\ idMap \in Seq(Nat)
    /\ adopted \in Seq(Nat)

\* A node's id is its position in its store's list and the counter is the next
\* free position: node_at and every rewrite index the list by node id.
DenseIds ==
    \A s \in StoreId :
        /\ nextId[s] = Len(nodes[s]) + 1
        /\ \A i \in 1..Len(nodes[s]) : nodes[s][i].id = i

\* A node reads only from earlier nodes of its own store, so one pass in store
\* order meets inputs before consumers (adoption, rewrite, lowering rely on it).
InputsPrecede ==
    \A s \in StoreId : \A i \in 1..Len(nodes[s]) :
        Inputs(nodes[s][i]) \subseteq 1..(i - 1)

\* Every cursor ever returned still names a node of its own store.
CursorsResolve == \A c \in cursors : c.tip \in 1..Len(nodes[c.store])

\* A store the program has not been given holds nothing.
UnallocatedEmpty == \A s \in StoreId : s > allocated => nodes[s] = <<>>

\* What every reader of a store relies on, under any interleaving of branching,
\* joining and adopting: dense ids, backward inputs, resolvable cursors.
StoreSound == DenseIds /\ InputsPrecede /\ CursorsResolve /\ UnallocatedEmpty

\* The loop of adopt_cursor_subgraph: each visited source node has a copy in
\* the target with its structure and the copies of its inputs; no other source
\* node is mapped.
AdoptionFaithful ==
    ~Idle =>
        LET live == Reachable(Source, join.right.tip) IN
        \A x \in 1..Len(Source) :
            IF x \in live \ todo
            THEN /\ idMap[x] \in 1..Len(nodes[Target])
                 /\ SameStructure(nodes[Target][idMap[x]], Source[x],
                                  Remap(Source[x].inputs, idMap))
            ELSE idMap[x] = 0

\* Adoption dedups "within the current adoption pass" (store.incn:139-140): it
\* maps only to nodes the pass itself appended, and keeps no two equal ones.
AdoptionDedupsLocally ==
    ~Idle =>
        /\ \A x \in 1..Len(idMap) :
              idMap[x] # 0 => \E k \in 1..Len(adopted) : adopted[k] = idMap[x]
        /\ \A k, m \in 1..Len(adopted) :
              k # m => ~SameStructure(nodes[Target][adopted[k]], nodes[Target][adopted[m]],
                                      nodes[Target][adopted[m]].inputs)

\* While a join is pending: its cursors are real and live in two stores, the
\* table covers the source store, and the loop has done exactly the reachable
\* ids below the next one (what makes the two properties above inductive).
AdoptionInProgress ==
    ~Idle =>
        /\ join \in JoinRequest
        /\ join.left \in cursors /\ join.right \in cursors
        /\ Target # join.right.store
        /\ Len(idMap) = Len(Source)
        /\ todo \subseteq Reachable(Source, join.right.tip)
        /\ \A x \in todo : \A y \in Reachable(Source, join.right.tip) \ todo : y < x
        /\ \A k \in 1..Len(adopted) : adopted[k] \in 1..Len(nodes[Target])

\* The inductive invariant.
IInv ==
    /\ TypeOK
    /\ StoreSound
    /\ AdoptionInProgress
    /\ AdoptionFaithful
    /\ AdoptionDedupsLocally

\* The query a node stands for: its own kind and payload over its inputs' queries.
Query(ns, tip, P(_)) ==
    LET query[i \in 1..tip] ==
            [kind |-> ns[i].kind, payload |-> P(ns[i].payload),
             inputs |-> [k \in 1..Len(ns[i].inputs) |-> query[ns[i].inputs[k]]]]
    IN  query[tip]

AsAuthored(p) == p

\* No later call, on any cursor or store, changes the query a cursor stands for.
LineageStable ==
    [][\A c \in cursors :
          Query(nodes[c.store], c.tip, AsAuthored) = Query(nodes'[c.store], c.tip, AsAuthored)]_vars

\* A finished cross-store join reads, in order, the query of the left cursor and
\* that of the right cursor, up to typed wrappers (mod.incn:76-116).
JoinMeansBothSides ==
    [][~Idle /\ join' = NoJoin =>
          LET ns == nodes'[Target]
              made == ns[Len(ns)]
          IN  /\ made.kind = "Join"
              /\ Query(ns, made.inputs[1], Plain) = Query(nodes[Target], join.left.tip, Plain)
              /\ Query(ns, made.inputs[2], Plain) = Query(Source, join.right.tip, Plain)]_vars
=============================================================================
