# Verification of IncQL

TLA+ models of IncQL, a typed relational query language whose library is
written in Incan (`src/src/*.incn`). The models are translated from the source;
line numbers below and in `PROJECT.json` refer to it. Every module is
model-checked with TLC on small instances, and the theorems of the
`...Proofs` modules and of `Recursion` are proved with TLAPS for every value of the constants.

## The system

A program writes a query as calls on a *carrier* (`LazyFrame`, `DataFrame`,
`DataStream`) or as a query block that desugars to such calls. The calls build a
logical plan in **Prism**; Prism derives a canonical view of it and lowers the
view to a **Substrait** plan; a **Session** binds the plan to registered sources
and hands it to a **backend** (DataFusion). Around this path stand the evidence
components: inspection, plan diff, quality and verification evidence, bundles.
The documentation site (`src/docs/javascripts`) has two interactive pages with
state of their own: the architecture tour and the RFC reader.

| Component | State | Operations | Interacts with | Hard behaviour |
|---|---|---|---|---|
| Prism stores and cursors (`prism/store`, `prism/mod`, `prism/types`) | process-wide append-only lists of nodes and counter events, tagged by store; immutable cursors (store, tip) | read a table, nine unary methods, joins in one store and across stores | carriers call it; the rewrite reads it | cursors branch and are used in any order; a cross-store join copies a subgraph while renumbering and deduplicating it |
| Prism rewrite (`prism/rewrite`) | the locals of one pass: id tables, new nodes, origins, rule names | derive the view of a tip, explain it | reads the stores; feeds lowering, inspection, lineage | eight rules applied in one walk, on nodes earlier rules have changed, some with other consumers |
| Output columns and lowering (`prism/output_columns`, `prism/lower`, `substrait/relations`, `substrait/expr_lowering`) | none | plan columns of a node, lower a node | reads the schema registry; makes the Substrait plan | two recursions over authored and rewritten nodes that must agree; names resolved by first match |
| Session catalogue (`session/types`, `session/active`, `schema_registry`) | registrations per session; process-wide activation history and schema registry | register, read, table, activate, execute, collect, write | carriers through the active session; backend | two catalogues changed by separate steps; snapshots; sessions sharing one registry; failures that must be observed |
| DataFusion backend (`session/datafusion_backend`) | the context's tables for one execution; again the schema registry | execute, collect, write; bridge generators and windows | Substrait plans; DataFusion (external) | nested bridged relations found by path before and after replacement |
| CSV inference (`session/csv_schema`) | none | infer names, kinds, nullability | Session | merging kinds row by row |
| Dataset carriers (`dataset/`) | a `DataFrame`'s materialised payload | transforms, collect, schema | Prism, active session | a transform must invalidate what was materialised |
| Inspection, lineage, plan diff (`inspect`, `evidence`, `plan_diff`) | none | inspect a plan, compare two | rewritten views | origins must explain rewritten nodes |
| Quality (`quality`, `session/types`) | none | observe an assertion | Session | several probes of a source that may change between them |
| Verification evidence (`verification`) | an append-only list of observations | record, project the current state | bundles | supersession and revocation under any arrival order |
| Governance, bundles, exchange, profiles, ingress | none | assemble and map records | evidence components | completeness of sections |
| Function registry and catalogue (`function_registry`, `functions/`) | process-wide entries and pending specs | declare, alias, look up | builders, lowering | declaration order |
| Query-block desugaring (`vocab_companion/`) | none | rewrite clauses to calls | the compiler | clause order |
| Architecture tour (`crystalline.js`) | one closure per set-up: current layer, whether the tour is wanted, what holds it, a timeout | click, key, hover, focus, toggle; page, tab, motion and viewport events; the timeout | the browser; instant navigation, which swaps pages without a reload | a closure that outlives its page; five conditions changed by as many listeners; timeouts racing the reader |
| RFC reader (`prismplane.js`) | filters and selection, the address, the history entries, the pane on display | filters, selection, Back, reload, history moves, resizes | the browser's history and timers | an address written 150 ms late, a Back carried out later, two panes on a narrow viewport |
| Page shell (`prismplane.js`) | flags mirrored into attributes | navigation, drawer, tabs, accordion | the theme | none worth a model |

What makes each component correct:

- *Stores*: node ids are list positions, inputs precede their consumers, every
  cursor resolves, and no call changes the query an earlier cursor stands for. A
  cross-store join reads the two queries it was given, and copies nothing twice.
- *Rewrite*: the view is well formed, minimal and canonical; every view node has
  an authored origin of its kind; the view returns nothing that the authored
  nodes could not return.
- *Columns and lowering*: the columns planned from either side are the same, and
  the relation has as many columns as were planned.
- *Session*: the process-wide registry describes a table as the session that bound
  its name last planned it; lazy collects see the bindings of the last activation;
  reported columns are those of the rows unless another session has bound the name
  since.
- *Backend*: every bridged relation is replaced by a read of what it computed, an
  execution answers the plan it was given, and planning fails on the shapes the
  bridge does not support and on no other.
- *Carriers*: a frame never shows rows of another plan.
- *Verification*: the projection depends on the set of current observations, not
  on arrival order; superseded or revoked evidence never counts; a scope with
  failed evidence passes only once that is superseded.
- *Quality*: a verdict is right for the rows that were read, at each collect.
- *Architecture tour*: nothing but the tour of the displayed page moves its
  layer, only while it may, and the page says so; a choice of the reader ends it.
- *RFC reader*: state, address and pane agree after any sequence of events.

## Modules

| Module | Extends | Models |
|---|---|---|
| `PrismStore` | | the stores and the cursor API |
| `Recursion` | TLAPS | no code: what the proofs need to know of recursive functions and folds |
| `Lists` | | no code: what counts as a list |
| `MCPrismStore` | `PrismStore` | payload alphabets for TLC |
| `PrismRewrite` | `PrismStore` | the rewrite pass over the stores |
| `PrismRewriteProofs` | `PrismRewrite`, TLAPS | the inductive invariants and theorems of the stores and of the pass; instantiates `Recursion` |
| `PrismMeaning` | | planned columns, and the relation a node list lowers to |
| `PrismRewriteMeaning` | `PrismRewrite`, `PrismMeaning` | what the pass must preserve |
| `PrismRelationProofs` | `PrismRewriteMeaning`, TLAPS | what the operators of `PrismMeaning` return, and what a list of nodes plans and lowers to; instantiates `Recursion` |
| `PrismMeaningProofs` | `PrismRewriteProofs`, `PrismRelationProofs` | that the pass preserves the planned columns and the meaning |
| `MCPrismRewrite` | `PrismRewriteMeaning` | a small table and payload alphabets |
| `Session` | | sessions, the schema registry, the activation history, quality assertions |
| `SessionProofs`, `MCSession` | `Session` | its theorems (`Recursion` instantiated); files and assertions for TLC |
| `BackendBridge` | | one execution after another in the DataFusion backend |
| `MCBackendBridge` | `BackendBridge` | its plans for TLC |
| `VerificationProjection` | | a stream of observations and its projection |
| `VerificationProjectionProofs`, `MCVerificationProjection` | `VerificationProjection` | its theorems (`Recursion` instantiated); seven observations for TLC |
| `Carousel` | | what the architecture tour promises |
| `ArchitectureTour` | instantiates `Carousel` | the tour, its closures and timeouts |
| `ArchitectureTourProofs`, `MCArchitectureTour` | `ArchitectureTour` | its theorems, the refinement included; three layers for TLC |
| `RfcReader` | | the reader's state, address, history and panes |
| `RfcReaderProofs`, `MCRfcReader` | `RfcReader` | its theorems; three records for TLC |

Each modelling module also defines *faulty variants* of some operators, marked
"Faulty variant" where they stand. They are not part of any specification; each
is a plausible mistake that the properties must catch, and `PROJECT.json`
("mutants") pairs every checked property with one.

### PrismStore

`nodes[s]` is what `store_nodes(s)` filters out of the process-wide list, and
`nextId[s]` what `_latest_store_next_node_id(s)` finds when it scans the counter
events backwards; `cursors` holds every cursor the program has been given. Ids
count from 1, and 0 stands for the code's sentinel -1. A node's thirteen payload
fields are one `payload`, taken from the constant `Payload[kind]`, with
`Accepted` for the payload half of `_validate_node_shape` and `Plain` for what
structural equality sees once typed-expression wrappers are stripped.

One action per API call. `NamedTableRefused` is the call that raises after it has
already allocated a store; every other refused call changes nothing and is the
disabled action. A cross-store join is `BeginAdoption`, one `AdoptReuse` or
`AdoptCopy` per iteration, and `FinishJoin`; since the planner is single-threaded
every other call is disabled meanwhile (`Idle`). The loop is split so that its
invariant can be stated, checked and proved, not because anything interleaves.

`Reachable` is the least set closed under inputs rather than the breadth-first
queue of the code, and it is enumerated in id order, as the code returns it.

### PrismRewrite

The variables of the pass are its locals: `unvisited` (the rest of the for-loop's
list), `newId` (the id table), `draft` (`rewritten_nodes`), `origins`, `rules`,
and `view` (the compacted result). `BeginDerive` starts a pass on any cursor.
Each iteration of the first loop is one of `EliminateFilterTrue`,
`CollapseLimit`, `CollapseProject`, `CollapseAggregate`, `FuseGroupBy`,
`CollapseOrderBy`, `CollapseWindow` and `CopyNode`; each iteration of the second
is `CompactNode`; `ReturnView` hands the view to the caller. The stores do not
change during a pass, and the API is disabled while one runs.

### PrismMeaning and PrismRewriteMeaning

`PlannedColumns` is `authored_output_schema` and `rewritten_output_schema`, which
are the same recursion over two node lists; kinds and nullability are left out.
`Lowered` follows `_try_lower_node` node by node: how names resolve (the first
planned column of that name, then by position), when lowering fails, and what the
Substrait relation it emits computes on small tables. What an engine does with
Substrait is external: grouping returns groups in any order, a sort leaves ties
in any order, everything else keeps its input's order, so a relation carries the
*set* of row sequences an engine may return. A relation whose width differs from
its planned columns counts as failed for its consumers, since their field
references then mean nothing.

A filter is a fold over the rows, a sort keeps those rearrangements of its input
that are in order (`Rearranged`, `InOrder`), and a measure sums over the positions
of its group (`SameValues`), so that each can be reasoned about for any rows.

`WindowNames(ns)[i]` are the columns of the windows that end at node `i`, filters on
true between them skipped (`Kept`); `WindowsIndependent` says that no window
function reads one of those below it.

Left out: `null` semantics except the unmatched side of a left join, floats,
strings, casts, measure filters and ordering, window frames (the frame is the
whole partition), generators other than an explode of literal elements that
keeps the input columns, and typed expressions.

`Preserved` says: if the authored nodes lower, the view lowers, to the same width,
and every row sequence it may return is one the authored nodes may return.

### Session

`registrations[s]` is a session's `_registrations`; `schemas` the process-wide
list of `schema_registry.incn`, as a function, since it holds one entry per name;
`states` and `flags` are the two append-only lists of `active.incn`. A lazy frame
holds a name and no session, so it is a name here. `register` and the three read
methods are one action with the source kind as a parameter; all check everything
before they change anything, so a refused call is the disabled action (the text
checks, the name and the inference of CSV columns are `RegistrationFails`). A
collect resolves column names through `schemas` and reads rows through the
bindings, which is where two sessions can meet.

A quality assertion is `Observe`, then one `ProbeSucceeds` or `ProbeFails` per
collect; files may change between them, API calls may not (`Idle`). A file is
what assertions can tell of it: columns, group sizes, number of nulls; a missing
one is `Gone`. Every collect may fail, since the backend is external.
`planned` in a registration, `binder` (the session that bound a name last),
`activated`, `collected`, `observation.seen` and `observation.attempts` are recorded
for the properties only.

`SchemaIsOfLastBinder` says who wins when two sessions share a name: the later
binding overwrites the registry, so from then on a collect of the earlier session
reports the other's columns. `ResolvedColumnsAgree` promises the right columns to the last binder
only. `VerdictIsExact` speaks of the first and the last rows that were read, which
may differ: the nulls of the last are held against the number of the first, and
each threshold of a group count against the rows read for it.

Left out: execution and write with their observation records, which change
nothing here; metrics, diagnostics, identifiers; several assertions in one call,
which are as many calls.

### BackendBridge

A relation is a tree; `filter` stands for every operator that keeps its input's
columns, `project` for those that add one, `join` for those with two inputs. The
functions under way are a stack of `scopes`, one for the plan and one for the
generator being computed: `RootScope` is `_dataframe_from_window_root_plan` and
`_dataframe_from_non_window_plan`, `GeneratorScope` the projection that
`_dataframe_from_generator_extension` hands to
`_dataframe_from_plan_with_window_materialization`. A scope holds its tree as
rewritten so far and the relations it still has to compute. `tables` are the
temporary tables of the execution's context, each with the authored relation it
computes; `registry` is the process-wide list of columns by table name, which
outlives the execution. A path is a sequence of words, since the rendered names
determine it. Calls block (`backend_dispatch.incn:26`), so executions follow one
another.

The engine is external, and three things are assumed of it. Its stock consumer
plans neither generators nor windows (a comment at
`datafusion_backend.incn:267` says so of generators, and the windows are bridged
for the same reason). It needs every table to be registered. Anything may
fail at any moment (`EngineFails`), a frame may be empty, and a name that is
taken is replaced or refused: the code handles both results.

Left out: sources that fail to register, sinks, previews, the rejection of
sketches and variants before planning (an `EngineFails` here), and the
translation of window expressions.

Refused plans are limits and not errors: a generator below a generator, and a window
with another operator between it and the window above it, never run; and two
windows in different scopes may want one table name, which ends the execution if
the engine refuses it. `UnsupportedShapesFail` says that nothing else is refused.

`ReadsDescribedUnlessEmptied` leaves out executions with an empty frame, and has to:
`_register_materialized_dataframe` registers a frame without batches as a view and
returns before it mirrors the schema (`datafusion_backend.incn:1028-1031`), although
the comment at `:1061` says that the schema is mirrored before the temporary plan is
lowered. The read that replaces the relation then declares no columns, or those an
earlier execution left under the same path. What the engine makes of such a read
is external.

### VerificationProjection

`Arrive` appends an observation, `Ask` projects one scope. Assertion and scope are
one field, the four context fields are one, and diagnostics and evidence
references are left out; they are concatenated in arrival order. The projection
itself is a fold over the arrivals in the order the code walks them. Sequence numbers
and coverage are integers, as in the code; the pass that picks the context starts
at number -1, so an observation with a lower number gives none.

`OrderDoesNotShow` compares the fold with what the *set* of current observations
says: what is selected, the lifecycle and the outcome always, the counts while no
observation arrived twice, the context while no two have one number. The unit of
the coverage is left out because it does depend on the order: it is that of the last
current arrival. `FailureIsNotWaivedAway` is about a consumer who holds an older
projection, `projection[c]`, and asks again.

### ArchitectureTour and Carousel

`tours[i]` holds the variables of the closure that the i-th call of
`initializeCrystalArchitecture` left behind, `live` is the one whose listeners
are still registered, `timers` the closures with a pending `setTimeout`, and `dom`
what the displayed page shows. One action per listener, `TimerFires`, and the
page's set-up: `LeavePath` on a page without the path, `EnterPath` on one with it.
Motion changes and intersection records reach their listeners after they happen
(`MediaFlips`, `MediaReported`; `PathCrossesView`, `RecordsDelivered`, which like
the code reads the first of the queued records). The generation test of line 238
is left out: a cleared timeout never calls back, so it never decides.
`IntersectionObserver` is assumed to exist, the inspector to be on the page.
`Reinitialize` is disabled while the pointer is in a region, because the site
emits the document again before pointer events reach the page. `PopState` may find
any layer in the address.

`Carousel` is the promise without timers and page swaps. The refinement maps
`layer` to what the page shows, `wanted` to the live closure's request, `playing`
to its pending timeout, and `visit` to the pages and set-ups so far.

### RfcReader

`state` is the reader's variable of that name, `view` is `data-mobile-view`,
`history` the page's entries with address parameters and the `ppRfcDetail` mark,
`timer` the 150 ms timeout of the search field, `backs` the `history.back()` calls
not yet carried out, `media` the width of the viewport and whether its change was
reported. One action per listener; `ReadUrl` is `readUrl` and is used when the page
opens, reloads or moves in the history. The guards `IndexShown` and `DetailShown`
are the stylesheet's: what is not displayed cannot be clicked. The model ends
where the browser leaves the page. The two popovers, focus, scrolling and
rendering are left out.

## Runs

| Run | Bounds | Shows |
|---|---|---|
| `store_api` | 2 stores, 3 cursors, all methods | `StoreSound`, `LineageStable` under every interleaving of calls on all cursors |
| `store_adoption` | 2 stores, 6 cursors, two equal-but-for-a-wrapper filters, joins | `AdoptionFaithful`, `AdoptionDedupsLocally` at every iteration; `JoinMeansBothSides` |
| `rewrite_rules` | 1 store, 4 cursors, the kinds with a rule and the projections, a grouping by nothing included | `DraftSound`, `ViewCanonical`, `LoweringAgrees`, `ColumnsAgree` |
| `rewrite_shared` | 1 store, 4 cursors, filters on true, limits, generators, left joins | `ViewSound`, `OriginsExplain`, `ExplainAccounts`, `LoweringAgrees` |
| `filtered_grouping` | 4 cursors | violation of `FilterTrueErasable` |
| `dependent_windows` | 3 cursors | violation of `RewritePreservesMeaning` |
| `session` | 2 sessions (symmetric), 2 names, 1 address, 2 bindings, 2 activation entries, 3 file contents, 6 assertions | `TypeOK`, `SchemaIsOfLastBinder`, `ActiveIsLastActivation`, `ResolvedColumnsAgree`, `VerdictIsExact` |
| `group_attempts` | 1 session, 1 name | violation of `AttemptsAccounted` |
| `backend_bridge` | every chain of up to 3 of 5 operators, 4 deeper ones, joins of sources and chains of 1, alone and below a generator or a window, joins with both on both sides; 2 executions | `AnswerIsThePlan`, `UnsupportedShapesFail`, `ReadsDescribedUnlessEmptied` |
| `verification_projection` | 7 observations in 2 scopes, 5 arrivals | `OrderDoesNotShow`, `NewestCounts`, `SupersededStaysOut`, `FailureIsNotWaivedAway` |
| `architecture_tour` | 3 layers, 2 regions, 2 pages, 2 closures, 2 queued records | `TypeOK`, `NoZombieTimer`, `ArmedIffRunnable`, `StatusTruthful`, the refinement `KeepsPromise`, and `TourKeepsMoving` |
| `rfc_reader` | 3 records, 1 query, 5 links, 2 history entries, 2 pending Backs | `TypeOK`, `SelectionVisible`, `UrlRestores`, `PaneMatchesSelection`, `MarkedEntriesArePushed`, `BackKeepsPlace` |

Why the bounds are enough. A store operation involves at most two stores. Six
cursors give adoption source subgraphs with a join above filters, with duplicates
of duplicates (the second level only merges after the first has), and targets
that already hold equal nodes. The rewrite rules look at a node and its parent;
three operations over a read give every pair of rules in a row, and
every rule applied to the result of another rule. Sharing needs a node with two
consumers, one of which collapses onto it: a read, a limit, a second limit and a
join. The three-row table has a repeated key and a repeated value, so grouping,
ties and limits tell rows apart.

Two bindings are either two names of one session or one name of both, which is
all the ways in which the registry can be shared; two activation entries give an
activation after a clear and a clear after an activation. The three file contents
differ in columns, repeat a group size or not, and include an empty table, so each
kind of assertion passes, fails and errs. Supersession chains of three (a failure,
its waiver, a rerun), a stale claim, a revocation, equal numbers and a negative one all
fit in five arrivals, with room for a repetition. Three layers tell next from previous and from
first; a stale closure needs two set-ups. Three records are split differently by
every filter, and two history entries are an entry pushed and the one before it.
The proofs hold for any number of all of these.

The bridge tells plans apart by what lies between two bridged relations: nothing,
one operator, or another bridged relation. Chains of three over a source have
every such triple, the deeper ones have a window on either side of a generator,
and the joins put two bridged relations into one scope, or two generators with
windows below them into one plan. Two executions are enough for one to find what
another left in the registry; the two generators add different columns.

Programs may stop issuing calls, and readers may stop clicking, whenever they
like, so deadlock is not checked where a bound can end the run; the tour and the
sessions never run out of steps.

Fairness is assumed of the tour only. Its `FairSpec` assumes weak fairness of
`TimerFires`: a pending timeout that is not cleared runs out. Nothing is assumed of
the reader, of the observer or of page swaps; `TourKeepsMoving` is about runs in which
nothing holds the tour any more and no intersection record is waiting. The planner's
loops are bounded `for` loops over lists fixed before they start, so that they end needs no property.

## What the violations show

The rewrite. `LoweringAgrees` holds where aggregates sit on a grouping or an ungrouped
relation (`GroupingPlain`) and no window reads the column of a window it
directly follows (`WindowsIndependent`). Two violation runs, `filtered_grouping` and
`dependent_windows`, show why such conditions are needed; each contradicts a
sentence of the repository that calls the rewrites semantics-preserving
(`src/docs/contributing/architecture.md:45`, `src/src/prism/rewrite.incn:39` and
`:160`):

- `group_by(k).filter(true).agg(m)`: only an aggregate directly on its grouping
  is grouped when lowered, so as authored it is a global aggregate; erasing the
  filter turns it into a grouped one.
- `with_window_column("w", f(v)).with_window_column("u", g(w))` over one
  boundary lowers as two relations, and no longer once merged, because all
  projections of a window relation resolve against its input.

`GroupingPlain` also leaves out `agg` over `agg`, which the pass merges into one
aggregate that computes both measures over the input of the first
(`rewrite.incn:256`). `src/tests/test_prism.incn` asserts the merge, so it may be meant as
"add measures"; authored lowering, which aggregates twice, then disagrees with it.
The last thing it leaves out is an aggregate over a grouping by nothing that has
another grouping or aggregate below it, `group_by(k).group_by().agg(m)`. Fusing keeps
the grouping expressions of the grouping node, and there are none, so the fused
aggregate looks like an ungrouped one over the lower grouping and takes the columns of that as
its prefix: its planned columns change, and so does its meaning. The attempt to
prove `ColumnsAgreeAlways` found this case; `rewrite_rules` has the empty grouping since.

Quality observations. `docs/language/reference/quality.md:86` describes
`execution_observation_ids` as the "Execution attempts used to produce the
observation". Every kind of assertion hands its earlier attempts to the collect
that may fail, except `group_row_count`: when its second collect fails
(`session/types.incn:992`), the observation refers to that attempt alone.
`group_attempts` finds it.

## Proofs

### Stores

`PrismRewriteProofs` proves, for any number of stores and cursors and any payloads,
with `BoundAssumption` (the bounds are naturals) and `PayloadAssumption` (payloads
are given for each kind) the only assumptions:

| Theorem | Statement |
|---|---|
| `Inductive` | `Spec => []IInv` |
| `TypeCorrect` | `Spec => []TypeOK` |
| `StoresStaySound` | `Spec => []StoreSound` |
| `AdoptionIsFaithful` | `Spec => []AdoptionFaithful` |
| `AdoptionDedups` | `Spec => []AdoptionDedupsLocally` |
| `LineageStays` | `Spec => LineageStable` |
| `JoinsMeanBothSides` | `Spec => JoinMeansBothSides` |

`AdoptionFaithful` is not inductive: that a node's remapped inputs are mapped at
all depends on the loop having visited them, hence on visiting in id order
(`AdoptionInProgress`), on inputs having smaller ids and on the reachable set
being closed under inputs (`InputsPrecede`, lemma `ReachableClosed`). `IInv` is the
conjunction of these parts. The proof has one lemma per action (`DeriveSound`,
`NamedTableSound`, ..., `AdoptCopySound`, `FinishJoinSound`), above lemmas on what an
append preserves (`AppendSound`, `AppendCursorSound`) and on what one iteration
preserves (`NextInputsMapped`, `MappingKeepsFaithful`, `VisitKeepsProgress`).

The last two theorems are about `Query`, the tree a cursor stands for, which is a
recursive function on node ids. The library's induction theorems take an
operator as a parameter and cannot be instantiated, so `Recursion` declares the step of a
recursion as its constant, `Step`, and proves that a recursion which looks only
backwards has a solution (`SolutionExists`) that satisfies its equation; a proof
module instantiates `Recursion` with the step of its own definition. Claims about
every node are then proved at the least node where they would fail
(`LeastNumber`). Appending leaves the equation of every earlier node alone, so it
leaves `Query` alone: that is `LineageStable`. For `JoinMeansBothSides`, every copied node
stands for the query of its source node up to wrappers, by `AdoptionFaithful` at the
least source id where it would not.

### Rewrite

The same module, for any stores, cursors and payloads; besides the store's
assumptions, `RewriteAssumption` says that `NoRequest` is no cursor and that the
`windows` of a payload are a sequence:

| Theorem | Statement |
|---|---|
| `RewriteTypeCorrect` | `RewriteSpec => []RewriteTypeOK` |
| `DraftStaysSound` | `RewriteSpec => []DraftSound` |
| `DerivedViewSound` | `RewriteSpec => []ViewSound` |
| `OriginsExplainView` | `RewriteSpec => []OriginsExplain` |
| `DerivedViewCanonical` | `RewriteSpec => []ViewCanonical` |
| `ExplainAddsUp` | `RewriteSpec => []ExplainAccounts` |

The inductive invariant `RewriteInv` is the store's `IInv`, the number of inputs
each kind has (`StoreArity`, which is the check of `append_node`), and one
invariant per phase of the pass (`Rewriting`, `Compacting`, `ViewOK`), because what
the id table means depends on the loop that fills it. `ViewCanonical` is proved of
the draft first, node by node: a limit, projection, ordering or window that
collapses takes over its parent's input, and the parent was already canonical over
it, so the new node cannot be collapsed further. For windows that is `BoundaryOfStart`: a run of windows has one
boundary relation, whatever node of the run one starts from. That the
compacted view is closed under inputs, that every node of it was reached from the
tip (`AllReached`) and that each has an authored origin (`TipExplained`) are arguments
about least closed sets, since reachability is defined as one.

`ExplainAddsUp` counts. An erased node costs a rule; a collapse costs one too, and
at most one draft node, the parent, which nothing may read any more. `Ledger`
keeps the set of these parents during the first loop, with what each visited node
reads relative to its authored inputs (`StandsFor`). When the loop ends, every draft
node is reached from the root or is such a parent (`ReachedOrParent`), so the rules
pay for all that is lost (`LedgerCloses`), and the second loop keeps exactly what is
reached.

`PrismMeaningProofs`, for any tables too:

| Theorem | Statement |
|---|---|
| `ColumnsAgreeAlways` | `RewriteSpec => []ColumnsAgree` |
| `LoweringAgreesAlways` | `RewriteSpec => []LoweringAgrees` |

`MeaningAssumption` says what planning and lowering read of a payload: lists where
lists are read (`Plannable`), grouping expressions handed to `append_node` by
`group_by` only, expressions over numbers, tables of rows of numbers, limits that
are naturals, and generators that explode into one column (`Computable`).

The inductive invariant of the columns, `ColumnsInv`, says of the first loop that
the draft is `Tidy` (lists are lists) and
`Follows` the authored nodes: each visited node is mapped to a draft node with
the same planned columns, of the kind that is left once filters on true are
erased; a grouping is mapped to one with its expressions, over what its input is mapped to. Such a
claim survives later iterations because the draft only grows. Collapsing a projection or
a run of windows concatenates what two nodes plan; fusing moves the grouping into the
aggregate, whose prefix is then its own, and that is where `GroupingPlain` is needed.
The second loop renumbers: the compacted nodes mirror the draft nodes they copy
(`Mirrors`), so they plan the same columns. The second half of `ColumnsAgree` is
independent of the pass: whatever list lowers, lowers to a relation of the planned
width (`LoweredIsWide`).

For the meaning, `Refines(r, s)` compares two relations as `Preserved` does: if `s` is
well formed, so is `r`, it has the same width, and every row sequence of `r` is one of
`s`. The inductive invariant `LoweringInv` adds to `ColumnsInv`, as long as
`GroupingPlain` and `WindowsIndependent` hold (`RulesApply`), that every visited node
`Means` what it stands for: the draft node it is mapped to lowers to a relation that
refines what the authored node itself lowers to. One iteration keeps this because

- every operator is monotone: from an input that refines another it makes an output
  that refines the other's (`FilterRefines`, `AggregateRefines`, `SortRefines`,
  `JoinRefines` and so on), which settles a node that is copied (`CopiedMeaning`).
  The rows have to be rows of numbers of the right width for that, as those of
  every lowered node are (`LoweredTyped`);
- two operations of one kind come to one, for each rule that collapses them
  (`CollapsedMeaning`):

  | Theorem of `PrismRelationProofs` | Rule | Because |
  |---|---|---|
  | `FetchMerged` | `collapse_adjacent_limit` | the first rows of the first rows are the first rows, up to the lower limit |
  | `ProjectMerged` | `collapse_adjacent_project` | assignments are bound in order, each over those before it |
  | `SortMerged` | `collapse_adjacent_order_by` | an ordering may return ties in any order, so it undoes the one below it |
  | `WindowMerged` | `collapse_adjacent_window` | the windows share their partitions, and the second reads no column of the first |

- an aggregate computes with the expressions of the grouping below it, whether or
  not the grouping has been fused into it (`FusedMeaning`), and a filter on true
  returns its input (`FilterTrueRefined`).

The parent that a node collapses onto may itself stand for several collapsed
authored nodes, with erased filters between them; `CollapseChains` says how the two
sides lower. The nodes that the second loop copies mirror those of the draft and
lower to the same relations (`MirroredLowering`).

`Kept`, the grouping prefix, `PlannedColumns`, `Lowered`, `WindowNames` and the joining
of lists are recursive functions over positions; one instance of `Recursion`
(`ByPosition`, with a step per function) serves them all, and the folds have an
instance each.

### Architecture tour

`ArchitectureTourProofs`, for any layers, regions and bounds (`LayerAssumption`,
`RegionAssumption`, `BoundAssumption`):

| Theorem | Statement |
|---|---|
| `TourInductive` | `Spec => []TourInv` |
| `TourTypeCorrect` | `Spec => []TypeOK` |
| `DisposeIsComplete` | `Spec => []NoZombieTimer` |
| `ArmedExactlyWhenRunnable` | `Spec => []ArmedIffRunnable` |
| `PageTellsTheTruth` | `Spec => []StatusTruthful` |
| `TourKeepsPromise` | `Spec => KeepsPromise` |

`ArmedIffRunnable` speaks of reported motion changes only and is not inductive:
before the report an armed tour may already be one that should stop. `TourInv`
therefore splits it: unless a change to reduced motion is pending, the tour is
armed exactly when it can run (`ArmedCanRun`); if armed it is wanted in any case (`ArmedIsWanted`), and under reduced
motion a wanted tour was opted into once the change is handled
(`ReducedMeansOptIn`); `PageIsPainted` relates the page to the closure. Each
listener ends in `Put` with a closure of the right type (`PutPreserves`), so there
is one short lemma per listener. The refinement has one lemma per kind of abstract
step (`ControlStep`, `PickStep`, `PreviewRefines`, `AdvanceRefines`, `SetUpRefines`)
and sorts the listeners under them; `NoZombieTimer` is what makes `TimerFires` an
`Advance` of the page on display.

### RFC reader

`RfcReaderProofs`, for any catalogue, queries, links and bounds:

| Theorem | Statement |
|---|---|
| `ReaderInductive` | `Spec => []ReaderInv` |
| `ReaderTypeCorrect` | `Spec => []TypeOK` |
| `SelectionStaysVisible` | `Spec => []SelectionVisible` |
| `AddressRestores` | `Spec => []UrlRestores` |
| `PaneFollowsSelection` | `Spec => []PaneMatchesSelection` |
| `MarksAreSound` | `Spec => []MarkedEntriesArePushed` |
| `EntriesStaySound` | `Spec => []EntriesSound` |
| `GoingBackKeepsPlace` | `Spec => BackKeepsPlace` |

The properties are inductive together. The argument for the address is
`RoundTrip`: reading what was written, and filtering again, gives the same state up
to an unchosen selection; it needs that filtering settles (`ApplySettles`), hence
that a non-empty list has a first record under each of the three orders
(`FirstExists`, by least and greatest elements of sets of naturals), and that a
status excludes a scope, which is why that is part of `TypeOK`.

`BackKeepsPlace` is about steps into older entries, so it needs what those entries
hold: `EntriesSound` says of every entry, not only of the current one, that
the record it names is listed by its own filters.

### Session

`SessionProofs`, for any sessions, names, addresses, contents and bounds:

| Theorem | Statement |
|---|---|
| `CatalogWellFormed` | `Spec => []CatalogOK` |
| `RegistryFollowsLastBinder` | `Spec => []SchemaIsOfLastBinder` |
| `ActivationIsASnapshot` | `Spec => []ActiveIsLastActivation` |
| `SessionTypeCorrect` | `Spec => []TypeOK` |
| `ResolvedColumnsAreRead` | `Spec => []ResolvedColumnsAgree` |
| `VerdictsAreExact` | `Spec => []VerdictIsExact` |

`CatalogOK` is the part of the type invariant about the catalogue and the
activation history, whose two lists stay of one length. A registration appends
(`RegisterAppends`), so an activation's prefix of it never changes (`SubSeqAppend`),
and every other action leaves the catalogue alone (`ElsewhereSteps`). The registry
follows the last binder because a registration changes registry, bindings and
`binder` for the same name, and a session binds a name once, so the binding the
registry describes is the only one of that session (`BinderStep`, `LastBinding`). With it,
the columns a collect of the last binder resolves are those planned for its rows
(`ResolvedImplies`). An assertion in progress has succeeded in all its collects so far
(`PendingWellFormed`), and each count it keeps is that of the content it was read from
(`CountsAreRead`); the counts are folds over the groups of a file, and `CountsDecide`
relates the verdict the code computes from them to the groups themselves, whether or
not the file was the same at each collect.

### Verification

`VerificationProjectionProofs`, for any observations (`EventAssumption` gives the
types of their fields, numbers being any integers):

| Theorem | Statement |
|---|---|
| `ArrivalsTyped` | `Spec => []ArrivalsOK` |
| `SupersessionIsPermanent` | `Spec => SupersededStaysOut` |
| `NewestEvidenceCounts` | `Spec => []NewestCounts` |
| `PassesAreEarned` | `Spec => FailureIsNotWaivedAway` |
| `ProjectionsIgnoreOrder` | `Spec => []OrderDoesNotShow` |

Supersession is permanent because arrivals only grow (`SupersededGrows`). A passing
projection means that all current observations passed (`PassedAll`); what an older
projection selected was current then and arrivals only grow, so if it did not pass
and is not current now, it is superseded. The inductive invariant, `HeldInv`, says of
the projection held of each scope that what it selects has arrived, is unrevoked, and
passed if the projection does.

`ProjectionsIgnoreOrder` is about `Current`, the fold that the code's loop over the
arrivals is: `Recursion` (`FoldSteps`) gives the fold over one more arrival from the
fold over those before it, and from that what it holds is characterised by the *set* of
arrivals alone (`CurrentIsCurrentSet`). Lifecycle and outcome follow from that set
(`StateAgrees`); the counts need that each observation stands at one place
(`CountsAgree`, under `NoRepeats`), the context that one is newest (`ContextAgrees`, under
`NoTies`). Nothing is claimed of the unit.

### Only model-checked

- Liveness (`TourKeepsMoving`), which is out of the prover's reach.
- All of `BackendBridge` (`AnswerIsThePlan`, `UnsupportedShapesFail`,
  `ReadsDescribedUnlessEmptied`), whose operators recurse over trees and are RECURSIVE.

## Hazards no property covers

`PROJECT.json` lists the hazards with the properties that would catch them, and
says of the uncovered ones why. Besides these:

- Structural equality strips typed wrappers that planned column kinds read
  (`prism/store.incn:494`, `prism/output_columns.incn:171`).
- `with_window_column` appends a column of a name that is taken, though
  `docs/language/reference/dataset_methods.md:42` says it appends or replaces.
- Two execution attempts in one clock tick share an identifier
  (`session/types.incn:632`).
- All sources of a session are opened for any plan, so one broken source fails
  every collect (`session/datafusion_backend.incn:1728`).
- An arrow key or a new choice does not cancel a pending address write of the RFC
  reader, which then clears the mark of the entry (`prismplane.js:1191`); a second
  press of Back before the first is carried out asks for two moves (`:880`).

## Plan

Done: 1. `PrismStore` with its proofs. 2. `PrismRewrite`, `PrismMeaning`,
`PrismRewriteMeaning`, with the proofs of the pass. 3. `Session` with its proofs. 4. `VerificationProjection`
with its proofs. 5. `ArchitectureTour` over `Carousel`, and `RfcReader`, with their
proofs. 6. `BackendBridge`. 7. `Recursion`, and with it the theorems about what recursive
functions and folds compute: lineage, joins, planned columns, verdicts, projections.
8. `PrismRelationProofs`, and with it the proof that rewriting keeps the meaning.

What could come next, in order of importance: `BackendBridge` with its trees as
functions on paths, so that it can be proved about; `PrismStoreLog`, the tagged
process-wide lists themselves, shown to implement `PrismStore`; the write path of
the session; and pure algorithms against reference definitions
(CSV inference, plan diff, lineage, query-block desugaring).

## Not modelled

See the components of `PROJECT.json` for each part and the reason. The function
catalogue, the builders and the engine wrappers keep no state and take no
decisions; DataFusion and Substrait themselves are external. Typed-expression
validation and column kinds are left out of the models of lowering, so nothing
is claimed about them. The write path, plan
inspection and diff, governance and bundles build records from records. The page
shell of the documentation site mirrors flags into attributes; the demo under
`examples/` is not part of the program.
