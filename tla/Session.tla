------------------------------- MODULE Session -------------------------------
(***************************************************************************)
(* Sessions: named sources, the active session and quality observations    *)
(* (src/session/types.incn, src/session/active.incn,                       *)
(* src/schema_registry.incn).                                              *)
(*                                                                         *)
(* A session binds names to sources.  Two things live beside the sessions, *)
(* one of each per process: the registry of planned schemas, which every   *)
(* lowering reads by name alone, and the history of activations, which     *)
(* keeps snapshots.  A lazy frame names its source and belongs to no       *)
(* session, so a frame is its source's name here.                          *)
(*                                                                         *)
(* Calls run to completion one at a time, but files belong to the world:   *)
(* they may change at any moment, also between the collects that one       *)
(* quality assertion takes.  A file is what can be told from it: its       *)
(* columns, the sizes of the groups its rows fall into, and the number of  *)
(* its null values.  The backend is external: it may always fail.          *)
(***************************************************************************)
EXTENDS Naturals, Sequences, SequencesExt, FiniteSets

CONSTANTS
    Sessions,
    Names,        \* logical names, besides the empty one
    Uris,         \* source and sink addresses, besides the empty one
    Contents,     \* what a file may hold: [columns, groups, nulls]
    NoColumns,    \* the empty column list
    Assertions,   \* quality assertions: [kind, min, max, rate]
    MaxBindings,  \* bound: sources bound by all sessions together
    MaxActivations \* bound: entries of the activation history

\* A CSV source has its columns inferred when it is registered; Parquet and Arrow
\* sources, "other", have none.
Kinds == {"csv", "other"}

Columns == {c.columns : c \in Contents}

\* A file that is missing, or cannot be read.
Gone == [columns |-> NoColumns, groups |-> <<>>, nulls |-> 0]

ASSUME ContentAssumption ==
    /\ NoColumns \notin Columns
    /\ \A c \in Contents : c.groups \in Seq(Nat \ {0}) /\ c.nulls \in Nat

ASSUME NameAssumption == "" \notin Names /\ "" \notin Uris

\* An absent threshold is {}, a present one a set of one number.  A rate is in
\* percent.
ASSUME AssertionAssumption ==
    \A a \in Assertions :
        /\ a.kind \in {"row_count", "null_rate", "unique", "group_row_count", "cross"}
        /\ a.min \subseteq Nat /\ a.max \subseteq Nat /\ a.rate \in Nat
        /\ a.kind = "group_row_count" => a.min # {}

ASSUME BoundAssumption == MaxBindings \in Nat /\ MaxActivations \in Nat

\* planned is the column list inferred at registration.  The code does not keep
\* it with the binding; it is recorded for the properties.
Registration == [name : Names, kind : Kinds, uri : Uris,
                 planned : Columns \cup {NoColumns}]

VARIABLES
    files,          \* what each address holds
    registrations,  \* the sources bound by each session, oldest first
    schemas,        \* the process-wide registry of planned schemas
    binder,         \* recorded for the properties: the session that bound each name last
    states, flags,  \* the activation history: snapshots and markers
    activated,      \* recorded for the properties: the activation in force
    call,           \* the quality assertion under evaluation, if any
    collected,      \* what this step returned, if it was a collect
    observation     \* what this step returned, if it ended an assertion

catalog == <<registrations, schemas, binder>>
active == <<states, flags, activated>>
vars == <<files, catalog, active, call, collected, observation>>

NothingCollected == [name |-> "", resolved |-> NoColumns, read |-> NoColumns]

NoObservation == [assertions |-> {}, status |-> "none", refs |-> <<>>,
                  attempts |-> <<>>, seen |-> <<>>]

Init ==
    /\ files \in [Uris -> Contents \cup {Gone}]
    /\ registrations = [s \in Sessions |-> <<>>]
    /\ schemas = [n \in Names |-> NoColumns]
    /\ binder = [n \in Names |-> {}]
    /\ states = <<>> /\ flags = <<>> /\ activated = <<>>
    /\ collected = NothingCollected
    /\ call = <<>>
    /\ observation = NoObservation

Idle == call = <<>>

ReturnsNothing == collected' = NothingCollected /\ observation' = NoObservation

-----------------------------------------------------------------------------
(* Registration.                                                           *)

NamesOf(bindings) == {bindings[i].name : i \in DOMAIN bindings}
UriOf(bindings, n) ==
    bindings[CHOOSE i \in DOMAIN bindings : bindings[i].name = n].uri

RegistrationFails(s, n, kind, u) ==
    \/ n = "" \/ u = ""
    \/ n \in NamesOf(registrations[s])
    \/ kind = "csv" /\ files[u] = Gone

PlannedColumns(kind, u) == IF kind = "csv" THEN files[u].columns ELSE NoColumns

Bindings == {b \in Sessions \X (1..MaxBindings) : b[2] <= Len(registrations[b[1]])}

Bind(s, n, kind, u) ==
    /\ Cardinality(Bindings) < MaxBindings
    /\ registrations' = [registrations EXCEPT ![s] =
           Append(@, [name |-> n, kind |-> kind, uri |-> u,
                      planned |-> PlannedColumns(kind, u)])]
    /\ binder' = [binder EXCEPT ![n] = {s}]

\* Faulty variant: the schema is registered before the name is checked.
RegisterSchemaFirst(s, n, kind, u) ==
    /\ Idle
    /\ n # "" /\ u # ""
    /\ schemas' = [schemas EXCEPT ![n] = PlannedColumns(kind, u)]
    /\ IF RegistrationFails(s, n, kind, u)
       THEN UNCHANGED <<registrations, binder>>
       ELSE Bind(s, n, kind, u)
    /\ ReturnsNothing
    /\ UNCHANGED <<files, active, call>>

\* Faulty variant: nothing is checked beyond the two texts.
RegisterUnchecked(s, n, kind, u) ==
    /\ Idle
    /\ n # "" /\ u # ""
    /\ Bind(s, n, kind, u)
    /\ schemas' = [schemas EXCEPT ![n] = PlannedColumns(kind, u)]
    /\ ReturnsNothing
    /\ UNCHANGED <<files, active, call>>

\* Faulty variant: an entry that is in the registry is kept, not overwritten.
RegisterKeepsFirst(s, n, kind, u) ==
    /\ Idle
    /\ ~RegistrationFails(s, n, kind, u)
    /\ Bind(s, n, kind, u)
    /\ schemas' = [schemas EXCEPT ![n] = IF @ = NoColumns THEN PlannedColumns(kind, u) ELSE @]
    /\ ReturnsNothing
    /\ UNCHANGED <<files, active, call>>

\* register and the read methods: a failure changes nothing; otherwise the
\* session appends the binding and the registry's entry is overwritten,
\* whichever session it was for.
Register(s, n, kind, u) ==
    /\ Idle
    /\ ~RegistrationFails(s, n, kind, u)
    /\ Bind(s, n, kind, u)
    /\ schemas' = [schemas EXCEPT ![n] = PlannedColumns(kind, u)]
    /\ ReturnsNothing
    /\ UNCHANGED <<files, active, call>>

-----------------------------------------------------------------------------
(* The active session.                                                     *)

\* get_active_session: the latest snapshot, if the latest marker is true.
ActiveBindings ==
    IF flags # <<>> /\ Last(flags) THEN <<Last(states)>> ELSE <<>>

Activate(s) ==
    /\ Idle
    /\ Len(flags) < MaxActivations
    /\ states' = Append(states, registrations[s])
    /\ flags' = Append(flags, TRUE)
    /\ activated' = <<[session |-> s, count |-> Len(registrations[s])]>>
    /\ ReturnsNothing
    /\ UNCHANGED <<files, catalog, call>>

\* Faulty variant: clearing records a snapshot and no marker.
ClearForgetsMarker ==
    /\ Idle
    /\ Len(flags) < MaxActivations
    /\ states' = Append(states, <<>>)
    /\ activated' = <<>>
    /\ ReturnsNothing
    /\ UNCHANGED <<files, catalog, flags, call>>

ClearActive ==
    /\ Idle
    /\ Len(flags) < MaxActivations
    /\ states' = Append(states, <<>>)
    /\ flags' = Append(flags, FALSE)
    /\ activated' = <<>>
    /\ ReturnsNothing
    /\ UNCHANGED <<files, catalog, call>>

-----------------------------------------------------------------------------
(* Collecting.                                                             *)

\* The binding is there and its file can be read.
CanRead(bindings, n) ==
    n \in NamesOf(bindings) /\ files[UriOf(bindings, n)] # Gone

\* A collect that succeeds: the plan's column names come from the registry, the
\* rows from the file the session binds.  One that fails changes nothing, and
\* neither do validate_plan and execute.
CollectFrom(bindings, n) ==
    /\ Idle
    /\ CanRead(bindings, n)
    /\ collected' = [name |-> n, resolved |-> schemas[n],
                     read |-> files[UriOf(bindings, n)].columns]
    /\ observation' = NoObservation
    /\ UNCHANGED <<files, catalog, active, call>>

Collect(s, n) == CollectFrom(registrations[s], n)

LazyCollect(n) == \E bindings \in Range(ActiveBindings) : CollectFrom(bindings, n)

\* A file is replaced or removed by somebody else, or written by a session: a
\* write reads no more of this state than a collect does.
FileChanges(u) ==
    /\ \E c \in Contents \cup {Gone} : files' = [files EXCEPT ![u] = c]
    /\ ReturnsNothing
    /\ UNCHANGED <<catalog, active, call>>

-----------------------------------------------------------------------------
(* Quality assertions.                                                     *)

\* The relations an assertion collects, in order; of each it only takes the
\* number of rows.
Probes(a) ==
    CASE a.kind = "row_count" -> <<"all">>
      [] a.kind = "null_rate" -> <<"all", "nulls">>
      [] a.kind = "unique" -> <<"repeated">>
      [] a.kind = "group_row_count" ->
            <<"small">> \o (IF a.max # {} THEN <<"large">> ELSE <<>>)
      [] a.kind = "cross" -> <<"all", "all">>

RowsIn(c) == FoldLeft(+, 0, c.groups)

GroupsWith(c, P(_)) == Cardinality({g \in DOMAIN c.groups : P(c.groups[g])})

RowCount(a, probe, c) ==
    CASE probe = "all" -> RowsIn(c)
      [] probe = "nulls" -> c.nulls
      [] probe = "repeated" -> GroupsWith(c, LAMBDA n : n > 1)
      [] probe = "small" -> GroupsWith(c, LAMBDA n : \E m \in a.min : n < m)
      [] probe = "large" -> GroupsWith(c, LAMBDA n : \E m \in a.max : n > m)

WithinThresholds(n, a) == (\A m \in a.min : n >= m) /\ (\A m \in a.max : n <= m)

\* The rate of an empty relation is zero.
RateWithin(nulls, total, a) == total = 0 \/ 100 * nulls <= a.rate * total

\* Faulty variant: only the last threshold decides.
PassesByLastProbe(a, counts) ==
    CASE a.kind = "row_count" -> WithinThresholds(counts[1], a)
      [] a.kind = "null_rate" -> RateWithin(counts[2], counts[1], a)
      [] a.kind = "cross" -> counts[1] = counts[2]
      [] a.kind \in {"unique", "group_row_count"} -> Last(counts) = 0

Passes(a, counts) ==
    CASE a.kind = "row_count" -> WithinThresholds(counts[1], a)
      [] a.kind = "null_rate" -> RateWithin(counts[2], counts[1], a)
      [] a.kind = "cross" -> counts[1] = counts[2]
      [] a.kind \in {"unique", "group_row_count"} -> \A i \in DOMAIN counts : counts[i] = 0

\* observe_quality takes one relation, observe_quality_pair two; an assertion
\* for the other entry point is unsupported.
Supported(a, frames) == a.kind = "cross" <=> Len(frames) = 2

Observe(s, a, frames) ==
    /\ Idle
    /\ IF Supported(a, frames)
       THEN /\ call' = <<[session |-> s, assertion |-> a, frames |-> frames,
                         counts |-> <<>>, seen |-> <<>>]>>
            /\ observation' = NoObservation
       ELSE /\ observation' = [assertions |-> {a}, status |-> "unsupported",
                               refs |-> <<>>, attempts |-> <<>>, seen |-> <<>>]
            /\ UNCHANGED call
    /\ collected' = NothingCollected
    /\ UNCHANGED <<files, catalog, active>>

\* The frame the next probe reads: a pair takes the left one, then the right.
NextFrame(c) == IF Len(c.frames) = 2 THEN c.frames[Len(c.counts) + 1] ELSE c.frames[1]

Upto(n) == [i \in 1..n |-> i]

\* The next collect succeeds; after the last one comes the verdict.
ProbeSucceeds ==
    \E c \in Range(call) :
        LET a == c.assertion
            bindings == registrations[c.session]
            content == files[UriOf(bindings, NextFrame(c))]
            counts == Append(c.counts, RowCount(a, Probes(a)[Len(c.counts) + 1], content))
            seen == Append(c.seen, content)
        IN /\ CanRead(bindings, NextFrame(c))
           /\ IF Len(counts) = Len(Probes(a))
              THEN /\ call' = <<>>
                   /\ observation' =
                        [assertions |-> {a},
                         status |-> IF Passes(a, counts) THEN "passed" ELSE "failed",
                         refs |-> Upto(Len(counts)),
                         attempts |-> [i \in DOMAIN counts |-> TRUE],
                         seen |-> seen]
              ELSE /\ call' = <<[c EXCEPT !.counts = counts, !.seen = seen]>>
                   /\ observation' = NoObservation
           /\ collected' = NothingCollected
           /\ UNCHANGED <<files, catalog, active>>

\* The next collect fails, for want of the binding, the file or the backend.
\* The observation refers to the attempts made so far, except that the second
\* threshold of a group count only knows of its own.
ProbeFails ==
    \E c \in Range(call) :
        LET made == Len(c.counts) + 1
        IN /\ call' = <<>>
           /\ observation' =
                [assertions |-> {c.assertion}, status |-> "errored",
                 refs |-> IF c.assertion.kind = "group_row_count"
                          THEN <<made>> ELSE Upto(made),
                 attempts |-> [i \in 1..made |-> i < made],
                 seen |-> c.seen]
           /\ collected' = NothingCollected
        /\ UNCHANGED <<files, catalog, active>>

-----------------------------------------------------------------------------
Next ==
    \/ \E s \in Sessions, n \in Names \cup {""}, kind \in Kinds, u \in Uris \cup {""} :
          Register(s, n, kind, u)
    \/ \E s \in Sessions : Activate(s)
    \/ ClearActive
    \/ \E s \in Sessions, n \in Names : Collect(s, n)
    \/ \E n \in Names : LazyCollect(n)
    \/ \E u \in Uris : FileChanges(u)
    \/ \E s \in Sessions, a \in Assertions, n \in Names : Observe(s, a, <<n>>)
    \/ \E s \in Sessions, a \in Assertions, l, r \in Names : Observe(s, a, <<l, r>>)
    \/ ProbeSucceeds
    \/ ProbeFails

Spec == Init /\ [][Next]_vars

-----------------------------------------------------------------------------
(* Properties.                                                             *)

CallOK(c) ==
    /\ c.session \in Sessions /\ c.assertion \in Assertions
    /\ Supported(c.assertion, c.frames) /\ Range(c.frames) \subseteq Names
    /\ Len(c.counts) = Len(c.seen) /\ Len(c.counts) < Len(Probes(c.assertion))

\* Every variable has its type; a session binds a name at most once; and the two
\* halves of the activation history, which are appended to separately and read
\* separately, stay of one length.
TypeOK ==
    /\ files \in [Uris -> Contents \cup {Gone}]
    /\ registrations \in [Sessions -> Seq(Registration)]
    /\ \A s \in Sessions :
          \A i, j \in DOMAIN registrations[s] :
              registrations[s][i].name = registrations[s][j].name => i = j
    /\ schemas \in [Names -> Columns \cup {NoColumns}]
    /\ states \in Seq(Seq(Registration)) /\ flags \in Seq(BOOLEAN)
    /\ Len(states) = Len(flags)
    /\ Len(call) <= 1
    /\ \A c \in Range(call) : CallOK(c)

Binds(s, n) == n \in NamesOf(registrations[s])

\* Sessions that share a name overwrite each other's schema in the process-wide
\* registry: it describes a table as the session that bound the name last planned
\* it, whatever the others planned.  A name nobody bound has no schema: a
\* registration that is turned down leaves no trace.
SchemaIsOfLastBinder ==
    \A n \in Names :
        /\ binder[n] = {} => schemas[n] = NoColumns /\ \A s \in Sessions : ~Binds(s, n)
        /\ \A s \in binder[n] :
              \E r \in Range(registrations[s]) : r.name = n /\ r.planned = schemas[n]

\* lazy.collect() resolves through the session that was activated last, if the
\* activation was not cleared since, and sees exactly the bindings that session
\* had then: what the session binds later does not reach it.
ActiveIsLastActivation ==
    /\ Len(ActiveBindings) = Len(activated)
    /\ \A a \in Range(activated) :
          ActiveBindings[1] = SubSeq(registrations[a.session], 1, a.count)

\* The column names a collect reports come from the registry, not from the rows.
\* They are the columns of the rows as long as the name was bound to a CSV file
\* that kept its columns, and no other session bound the name since: earlier
\* bindings of other sessions do no harm.
ResolvedColumnsAgree ==
    \A s \in Sessions : \A r \in Range(registrations[s]) :
        (/\ collected.name = r.name
         /\ s \in binder[r.name]
         /\ r.kind = "csv"
         /\ collected.read = r.planned) => collected.resolved = collected.read

\* What an assertion means for the first and the last rows read for it, which are
\* the same as long as the file is: each side of a pair, and each threshold of a
\* group count, is about the rows that were read for it, and the nulls of the last
\* rows are held against the number of the first.
Holds(a, first, last) ==
    CASE a.kind = "row_count" -> WithinThresholds(RowsIn(first), a)
      [] a.kind = "null_rate" -> RateWithin(last.nulls, RowsIn(first), a)
      [] a.kind = "unique" -> \A n \in Range(first.groups) : n = 1
      [] a.kind = "group_row_count" ->
            /\ \A n \in Range(first.groups), m \in a.min : n >= m
            /\ \A n \in Range(last.groups), m \in a.max : n <= m
      [] a.kind = "cross" -> RowsIn(first) = RowsIn(last)

\* A verdict is right for what was read, also when the file changed between the
\* collects: the check passed exactly if the assertion holds for it.
VerdictIsExact ==
    \A a \in observation.assertions :
        observation.status \in {"passed", "failed"} =>
            (observation.status = "passed"
             <=> Holds(a, observation.seen[1], Last(observation.seen)))

\* docs/language/reference/quality.md:86: execution_observation_ids are the
\* "Execution attempts used to produce the observation", all of them.
AttemptsAccounted == observation.refs = Upto(Len(observation.attempts))
=============================================================================
