---------------------------- MODULE BackendBridge ----------------------------
(***************************************************************************)
(* How the DataFusion backend executes plans that hold generators and      *)
(* windows (src/session/datafusion_backend.incn, with the column names of  *)
(* src/substrait/inspect.incn and the registry of                          *)
(* src/schema_registry.incn).                                              *)
(*                                                                         *)
(* The engine's stock consumer plans neither.  The backend therefore       *)
(* computes each of them apart, registers the frame as a temporary table   *)
(* named by its path in the plan, and puts a read of that table in its     *)
(* place.  Tables live as long as one execution; what lowering knows of    *)
(* their columns goes to a process-wide registry and stays there.          *)
(*                                                                         *)
(* A relation is a tree.  Filter stands for every operator that keeps its  *)
(* input's columns, project for those that add one, join for those with    *)
(* two inputs.  The contents of a frame are the authored relation it       *)
(* computes.  The engine is external: it may fail at any moment, a frame   *)
(* may be empty, and a table name that is taken may be refused.            *)
(***************************************************************************)
EXTENDS Naturals, Sequences, SequencesExt, FiniteSets, TLC

CONSTANTS
    Plans,         \* the relations that sessions execute
    SourceColumns, \* the columns registered for each source, by table name
    MaxExecutions  \* bound: executions in one process

\* A table name is a sequence: one word for a source, a kind followed by a path
\* for a temporary table.
Rel(op, name, columns, inputs) ==
    [op |-> op, name |-> name, columns |-> columns, inputs |-> inputs]

IsTemporary(rel) == rel.op = "read" /\ Len(rel.name) > 1

ASSUME SourceAssumption == \A name \in DOMAIN SourceColumns : Len(name) = 1

VARIABLES
    plan,       \* the plan in execution
    scopes,     \* the functions under way, outermost first
    tables,     \* the temporary tables of this execution
    registry,   \* the process-wide registry of columns
    outcome,    \* how the execution stands
    answer,     \* the relation that was computed, at the end
    emptied,    \* recorded for the properties: a frame came out empty
    executions  \* bound: executions so far

vars == <<plan, scopes, tables, registry, outcome, answer, emptied, executions>>

NoRel == Rel("none", <<>>, <<>>, <<>>)

Init ==
    /\ plan = NoRel /\ answer = NoRel
    /\ scopes = <<>>
    /\ tables = <<>>
    /\ registry = SourceColumns
    /\ outcome = "none"
    /\ emptied = FALSE
    /\ executions = 0

-----------------------------------------------------------------------------
(* Relations                                                               *)

ColumnsNamed(known, name) == IF name \in DOMAIN known THEN known[name] ELSE <<>>

\* The output columns of a relation, with the columns of tables looked up in known.
RECURSIVE ColumnsOf(_, _)
ColumnsOf(rel, known) ==
    LET inputs == FlattenSeq([i \in DOMAIN rel.inputs |-> ColumnsOf(rel.inputs[i], known)])
    IN CASE rel.op = "read" -> ColumnsNamed(known, rel.name)
         [] rel.op \in {"project", "window", "generate"} -> inputs \o rel.name
         [] OTHER -> inputs

\* Both passes over a plan name a child by the operator above it and its side;
\* each pass spells the names out for itself.

CollectedPath(path, rel, i) ==
    Append(path, IF rel.op = "join" THEN <<"join_left", "join_right">>[i] ELSE rel.op)

\* Faulty variant: the replacing pass takes one side of a join for the other.
ReplacedPathSwapped(path, rel, i) ==
    Append(path, IF rel.op = "join" THEN <<"join_right", "join_left">>[i] ELSE rel.op)

ReplacedPath(path, rel, i) ==
    Append(path, IF rel.op = "join" THEN <<"join_left", "join_right">>[i] ELSE rel.op)

Materialized(op, path) == <<op>> \o path

\* The topmost relations of one kind, each with its path.
RECURSIVE CollectBelow(_, _, _)
CollectBelow(op, rel, path) ==
    IF rel.op = op THEN <<[path |-> path, rel |-> rel]>>
    ELSE FlattenSeq([i \in DOMAIN rel.inputs |->
                        CollectBelow(op, rel.inputs[i], CollectedPath(path, rel, i))])

RECURSIVE ReplaceBelow(_, _, _)
ReplaceBelow(op, rel, path) ==
    IF rel.op = op
    THEN Rel("read", Materialized(op, path),
             ColumnsNamed(registry, Materialized(op, path)), <<>>)
    ELSE [rel EXCEPT !.inputs = [i \in DOMAIN rel.inputs |->
              ReplaceBelow(op, rel.inputs[i], ReplacedPath(path, rel, i))]]

Collect(op, rel) == CollectBelow(op, rel, <<"root">>)
Replace(op, rel) == ReplaceBelow(op, rel, <<"root">>)

\* The input of a chain of windows: they are replayed on its frame one by one.
RECURSIVE BelowWindows(_)
BelowWindows(rel) == IF rel.op = "window" THEN BelowWindows(rel.inputs[1]) ELSE rel

\* The stock consumer plans a relation without generators and windows, whose
\* temporary tables are registered.
RECURSIVE Plannable(_)
Plannable(rel) ==
    /\ rel.op \notin {"generate", "window"}
    /\ IsTemporary(rel) => rel.name \in DOMAIN tables
    /\ \A i \in DOMAIN rel.inputs : Plannable(rel.inputs[i])

\* What the engine computes: the contents of temporary tables stand in for reads.
RECURSIVE Computed(_)
Computed(rel) ==
    IF IsTemporary(rel) THEN tables[rel.name].rel
    ELSE [rel EXCEPT !.inputs = [i \in DOMAIN rel.inputs |-> Computed(rel.inputs[i])]]

-----------------------------------------------------------------------------
(* Scopes: one for the plan, and one for the generator under computation   *)

RootScope(rel) ==
    [generator |-> NoRel, path |-> <<>>, tree |-> rel, phase |-> "generators",
     todo |-> Collect("generate", rel)]

\* Faulty variant: the windows below a generator are left to the stock consumer.
GeneratorScopeWithoutWindows(generator, path) ==
    [generator |-> generator, path |-> path, phase |-> "windows", todo |-> <<>>,
     tree |-> Rel("project", <<"argument">>, <<>>, generator.inputs)]

\* A generator's arguments are projected above its input, and only the windows
\* below the projection are bridged.
GeneratorScope(generator, path) ==
    LET tree == Rel("project", <<"argument">>, <<>>, generator.inputs)
    IN [generator |-> generator, path |-> path, tree |-> tree, phase |-> "windows",
        todo |-> Collect("window", tree)]

scope == Last(scopes)

InPhase(phase) == outcome = "running" /\ scope.phase = phase

End(result, rel) ==
    /\ outcome' = result
    /\ answer' = rel
    /\ scopes' = <<>>
    /\ tables' = <<>>
    /\ UNCHANGED <<plan, emptied, executions>>

Refuse == End("unplannable", NoRel) /\ UNCHANGED registry

\* Faulty variant: columns registered before are not replaced.
RegisterSchemaOnce(name, columns, empty) ==
    registry' = IF empty \/ name \in DOMAIN registry THEN registry
                ELSE (name :> columns) @@ registry

\* A frame without batches becomes a view, and its columns are not registered.
RegisterSchema(name, columns, empty) ==
    registry' = IF empty THEN registry ELSE (name :> columns) @@ registry

\* The columns are registered before the engine builds the table, which may fail, and
\* takes it, which it may refuse when the name is taken.
RegisterFrame(name, rel, columns, remaining) ==
    \E empty \in BOOLEAN :
        /\ RegisterSchema(name, columns, empty)
        /\ \/ /\ tables' = (name :> [rel |-> rel, columns |-> columns]) @@ tables
              /\ scopes' = remaining
              /\ emptied' = (emptied \/ empty)
              /\ UNCHANGED <<plan, outcome, answer, executions>>
           \/ /\ name \in DOMAIN tables
              /\ End("name taken", NoRel)
           \/ End("failed", NoRel)

WithoutFirst(s) == [s EXCEPT !.todo = Tail(s.todo)]

-----------------------------------------------------------------------------
(* The functions of the backend                                            *)

\* datafusion_*_async and _dataframe_from_plan, in a fresh context.
Execute(p) ==
    /\ outcome # "running"
    /\ executions < MaxExecutions
    /\ plan' = p
    /\ scopes' = IF p.op = "generate" THEN <<GeneratorScope(p, <<>>)>> ELSE <<RootScope(p)>>
    /\ tables' = <<>>
    /\ outcome' = "running"
    /\ answer' = NoRel
    /\ emptied' = FALSE
    /\ executions' = executions + 1
    /\ UNCHANGED registry

EnterGenerator ==
    /\ InPhase("generators") /\ scope.todo # <<>>
    /\ LET next == Head(scope.todo)
       IN scopes' = Append(scopes, GeneratorScope(next.rel, next.path))
    /\ UNCHANGED <<plan, tables, registry, outcome, answer, emptied, executions>>

\* All generators are registered: their reads replace them, and windows come next,
\* but for a plan whose root is a window.
GeneratorsDone ==
    /\ InPhase("generators") /\ scope.todo = <<>>
    /\ LET tree == Replace("generate", scope.tree)
           phase == IF tree.op = "window" THEN "window root" ELSE "windows"
       IN scopes' = <<[scope EXCEPT !.tree = tree, !.phase = phase,
                                    !.todo = Collect("window", tree)]>>
    /\ UNCHANGED <<plan, tables, registry, outcome, answer, emptied, executions>>

BridgeWindow ==
    /\ InPhase("windows") /\ scope.todo # <<>>
    /\ LET window == Head(scope.todo)
       IN IF Plannable(BelowWindows(window.rel))
          THEN RegisterFrame(Materialized("window", window.path), Computed(window.rel),
                             ColumnsOf(window.rel, registry),
                             ReplaceAt(scopes, Len(scopes), WithoutFirst(scope)))
          ELSE Refuse

WindowsDone ==
    /\ InPhase("windows") /\ scope.todo = <<>>
    /\ scopes' = ReplaceAt(scopes, Len(scopes),
                     [scope EXCEPT !.tree = Replace("window", scope.tree),
                                   !.phase = "run"])
    /\ UNCHANGED <<plan, tables, registry, outcome, answer, emptied, executions>>

\* The frame of a generator: the rows of the projected input, unnested.  Its columns
\* are those of the generator as authored.
Generated(generator, tree) == [generator EXCEPT !.inputs = Computed(tree).inputs]

RunTree ==
    /\ InPhase("run")
    /\ LET generator == scope.generator
           outer == scopes[1]
       IN IF ~Plannable(scope.tree)
          THEN Refuse
          ELSE IF generator = NoRel
          THEN End("answered", Computed(scope.tree)) /\ UNCHANGED registry
          ELSE IF Len(scopes) = 1
          THEN End("answered", Generated(generator, scope.tree)) /\ UNCHANGED registry
          ELSE RegisterFrame(Materialized("generate", scope.path),
                             Generated(generator, scope.tree),
                             ColumnsOf(generator, registry),
                             <<WithoutFirst(outer)>>)

RunWindowRoot ==
    /\ InPhase("window root")
    /\ IF Plannable(BelowWindows(scope.tree))
       THEN End("answered", Computed(scope.tree)) /\ UNCHANGED registry
       ELSE Refuse

\* Any call of the engine may fail.
EngineFails ==
    /\ outcome = "running"
    /\ End("failed", NoRel)
    /\ UNCHANGED registry

Next ==
    \/ \E p \in Plans : Execute(p)
    \/ EnterGenerator
    \/ GeneratorsDone
    \/ BridgeWindow
    \/ WindowsDone
    \/ RunTree
    \/ RunWindowRoot
    \/ EngineFails

Spec == Init /\ [][Next]_vars

-----------------------------------------------------------------------------
(* Which plans can be executed, in terms of the positions of a plan        *)

RECURSIVE Positions(_)
Positions(rel) ==
    {<<>>} \cup UNION {{<<i>> \o p : p \in Positions(rel.inputs[i])} : i \in DOMAIN rel.inputs}

At(rel, position) == FoldLeft(LAMBDA r, i : r.inputs[i], rel, position)

Above(p, q) == Len(p) < Len(q) /\ IsPrefix(p, q)

Bridged(rel, p) == At(rel, p).op \in {"generate", "window"}

\* The nearest generator or window above q is at p.
NearestAbove(rel, p, q) ==
    /\ Above(p, q) /\ Bridged(rel, p)
    /\ \A b \in Positions(rel) : Bridged(rel, b) /\ Above(b, q) => ~Above(p, b)

\* No generator lies below another one; and a window directly governed by another
\* window is its immediate input.
Executable(rel) ==
    /\ \A p, q \in Positions(rel) :
           At(rel, p).op = "generate" /\ At(rel, q).op = "generate" => ~Above(p, q)
    /\ \A p, q \in Positions(rel) :
           /\ At(rel, p).op = "window" /\ At(rel, q).op = "window"
           /\ NearestAbove(rel, p, q)
           => Len(q) = Len(p) + 1

\* The generators above a position.
GeneratorsAbove(rel, q) ==
    {p \in Positions(rel) : At(rel, p).op = "generate" /\ Above(p, q)}

RECURSIVE TemporaryReads(_)
TemporaryReads(rel) ==
    (IF IsTemporary(rel) THEN {rel} ELSE {})
    \cup UNION {TemporaryReads(rel.inputs[i]) : i \in DOMAIN rel.inputs}

-----------------------------------------------------------------------------
(* Properties                                                              *)

\* Whatever was computed apart, replaced and read back, an execution that answers
\* has computed the plan it was asked for.
AnswerIsThePlan == outcome = "answered" => answer = plan

\* An execution is refused for a reason in its plan and for no other.  No supported
\* plan reaches the stock consumer with a generator, a window or the name of a table
\* that is not there, and no unsupported plan is answered.  Paths tell the tables of
\* one scope apart, so a name is taken only when two windows are bridged in different
\* scopes, below different generators or one below a generator and one not.
UnsupportedShapesFail ==
    /\ outcome = "unplannable" => ~Executable(plan)
    /\ outcome = "answered" => Executable(plan)
    /\ outcome = "name taken" =>
           \E p, q \in Positions(plan) :
               /\ At(plan, p).op = "window" /\ At(plan, q).op = "window"
               /\ GeneratorsAbove(plan, p) # GeneratorsAbove(plan, q)

\* A read put in the place of a relation declares the columns of the frame
\* registered for it, and the frame has the columns the plan gives the relation;
\* earlier executions left other columns under the same names.  Executions with an
\* empty frame are left out: its columns are not registered, so the read declares
\* none, or those an earlier execution left.
ReadsDescribedUnlessEmptied ==
    emptied \/
    /\ \A i \in DOMAIN scopes : \A read \in TemporaryReads(scopes[i].tree) :
           /\ read.name \in DOMAIN tables
           /\ read.columns = tables[read.name].columns
    /\ \A name \in DOMAIN tables :
           tables[name].columns = ColumnsOf(tables[name].rel, SourceColumns)
=============================================================================
