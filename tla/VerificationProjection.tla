----------------------- MODULE VerificationProjection -----------------------
(***************************************************************************)
(* Verification evidence: observations arrive over time, are never         *)
(* changed, and the state of an assertion is projected from those that     *)
(* arrived (src/verification.incn, project_verification_state).            *)
(*                                                                         *)
(* Runs number the observations they emit, and an observation may name     *)
(* others it supersedes.  Nothing orders the arrivals by number, so the    *)
(* projection has to find the order again; it walks the list of arrivals   *)
(* once.  Assertion and scope are one field here, the four optional        *)
(* context fields, which are treated alike, are one, and the lists of      *)
(* diagnostics and references are left out.                                *)
(***************************************************************************)
EXTENDS Integers, Sequences, SequencesExt, FiniteSets

CONSTANTS
    Events,      \* the observations runs may emit
    Scopes,
    MaxArrivals  \* bound: arrivals

Lifecycles == {"pending", "running", "blocked", "complete", "superseded"}
Outcomes == {"passed", "failed", "mixed", "errored", "skipped", "unsupported", "unknown"}
Assurances == {"proven", "verified", "attested", "sampled", "waived", "unknown"}

\* context is {} or holds one value.  Nothing keeps a run from numbering its
\* observations below zero, or from covering a negative count.
ASSUME EventAssumption ==
    \A e \in Events :
        /\ e.scope \in Scopes /\ e.sequence \in Int
        /\ e.lifecycle \in Lifecycles /\ e.outcome \in Outcomes
        /\ e.assurance \in Assurances
        /\ e.finality \in {"provisional", "final", "revoked"}
        /\ e.covered \in Int /\ e.total \in Int
        /\ Cardinality(e.context) \in {0, 1}

\* An identifier belongs to one observation.
ASSUME IdentityAssumption == \A d, e \in Events : d.id = e.id => d = e

ASSUME BoundAssumption == MaxArrivals \in Nat

VARIABLES
    arrivals,   \* the observations that arrived, in that order
    projection  \* the last projection of each scope, as a consumer holds it

vars == <<arrivals, projection>>

-----------------------------------------------------------------------------
(* The projection.                                                         *)

\* Faulty variant: what was itself superseded supersedes no more.
SupersededByStanding(e, s) ==
    \E i \in DOMAIN s :
        /\ s[i].sequence >= e.sequence /\ e.id \in s[i].supersedes
        /\ \A j \in DOMAIN s :
              s[i].id \in s[j].supersedes => s[j].sequence < s[i].sequence

\* Faulty variant: an older observation supersedes a newer one.
SupersededByAny(e, s) == \E i \in DOMAIN s : e.id \in s[i].supersedes

Superseded(e, s) ==
    \E i \in DOMAIN s : s[i].sequence >= e.sequence /\ e.id \in s[i].supersedes

\* e is current evidence for scope c.
Counts(e, s, c) == e.scope = c /\ e.finality # "revoked" /\ ~Superseded(e, s)

\* One pass over the arrivals, in their order.
Current(s, c) ==
    FoldLeft(LAMBDA list, e : IF Counts(e, s, c) THEN Append(list, e) ELSE list, <<>>, s)

Has(list, P(_)) == \E i \in DOMAIN list : P(list[i])
All(list, P(_)) == list # <<>> /\ \A i \in DOMAIN list : P(list[i])

Lifecycle(list) ==
    IF list = <<>> THEN "pending"
    ELSE IF Has(list, LAMBDA e : e.lifecycle = "blocked") THEN "blocked"
    ELSE IF Has(list, LAMBDA e : e.lifecycle = "running") THEN "running"
    ELSE IF All(list, LAMBDA e : e.lifecycle = "pending") THEN "pending"
    ELSE IF All(list, LAMBDA e : e.lifecycle = "superseded") THEN "superseded"
    ELSE "complete"

Agreed == {"passed", "failed", "skipped", "unsupported", "unknown"}

\* Faulty variant: waived evidence is left out of the outcome.
OutcomeWithoutWaived(list) ==
    LET counted == SelectSeq(list, LAMBDA e : e.assurance # "waived") IN
    IF counted = <<>> THEN "unknown"
    ELSE IF Has(counted, LAMBDA e : e.outcome = "errored") THEN "errored"
    ELSE IF \E o \in Agreed : All(counted, LAMBDA e : e.outcome = o)
         THEN CHOOSE o \in Agreed : All(counted, LAMBDA e : e.outcome = o)
    ELSE "mixed"

Outcome(list) ==
    IF list = <<>> THEN "unknown"
    ELSE IF Has(list, LAMBDA e : e.outcome = "errored") THEN "errored"
    ELSE IF \E o \in Agreed : All(list, LAMBDA e : e.outcome = o)
         THEN CHOOSE o \in Agreed : All(list, LAMBDA e : e.outcome = o)
    ELSE "mixed"

\* Faulty variant: the last to arrive decides, not the newest.
TakeAnyContext(acc, e) ==
    IF e.context # {} THEN [sequence |-> e.sequence, value |-> e.context] ELSE acc

\* One pass over the list: the value of the observation with the greatest number
\* that has one, the later in the list among equals.  The pass starts from -1, so
\* that lower numbers give no context.
TakeContext(acc, e) ==
    IF e.sequence >= acc.sequence /\ e.context # {}
    THEN [sequence |-> e.sequence, value |-> e.context] ELSE acc

Context(list) == FoldLeft(TakeContext, [sequence |-> -1, value |-> {}], list).value

Project(s, c) ==
    LET list == Current(s, c) IN
    [selected |-> [i \in DOMAIN list |-> list[i].id],
     lifecycle |-> Lifecycle(list),
     outcome |-> Outcome(list),
     assurance |-> [a \in Assurances |->
                      Cardinality({i \in DOMAIN list : list[i].assurance = a})],
     covered |-> FoldLeft(LAMBDA n, e : n + e.covered, 0, list),
     total |-> FoldLeft(LAMBDA n, e : n + e.total, 0, list),
     unit |-> IF list = <<>> THEN "scope" ELSE Last(list).unit,
     context |-> Context(list)]

-----------------------------------------------------------------------------
Init ==
    /\ arrivals = <<>>
    /\ projection = [c \in Scopes |-> Project(<<>>, c)]

\* An observation arrives, in any order, and possibly again.
Arrive(e) ==
    /\ Len(arrivals) < MaxArrivals
    /\ arrivals' = Append(arrivals, e)
    /\ UNCHANGED projection

\* A consumer asks for the state of a scope.
Ask(c) ==
    /\ projection' = [projection EXCEPT ![c] = Project(arrivals, c)]
    /\ UNCHANGED arrivals

Next == (\E e \in Events : Arrive(e)) \/ (\E c \in Scopes : Ask(c))

Spec == Init /\ [][Next]_vars

-----------------------------------------------------------------------------
(* Properties.                                                             *)

CurrentSet(c) == {e \in Range(arrivals) : Counts(e, arrivals, c)}

SumOf(S, F(_)) == FoldSet(LAMBDA e, n : n + F(e), 0, S)

NoRepeats == \A i, j \in DOMAIN arrivals : arrivals[i] = arrivals[j] => i = j

NoTies == \A d, e \in Range(arrivals) : d.sequence = e.sequence => d = e

GivesContext(e) == e.context # {} /\ e.sequence >= -1

LifecycleOf(S) ==
    LET reported == {e.lifecycle : e \in S} IN
    CASE "blocked" \in reported -> "blocked"
      [] "running" \in reported /\ "blocked" \notin reported -> "running"
      [] reported = {"superseded"} -> "superseded"
      [] reported \subseteq {"pending"} -> "pending"
      [] OTHER -> "complete"

\* What the projection p says of the set S of current observations, each of which
\* is selected: the lifecycle; no outcome but "errored" once one errored, else
\* the outcome they all have, "mixed" if they differ.
SaysStateOf(p, S) ==
    LET reported == {e.outcome : e \in S} IN
    /\ Range(p.selected) = {e.id : e \in S}
    /\ p.lifecycle = LifecycleOf(S)
    /\ S = {} => p.outcome = "unknown"
    /\ "errored" \in reported => p.outcome = "errored"
    /\ "errored" \notin reported =>
         \A o \in reported : p.outcome = IF reported = {o} THEN o ELSE "mixed"

\* How p counts them: each once.
CountsEach(p, S) ==
    /\ \A a \in Assurances : p.assurance[a] = Cardinality({e \in S : e.assurance = a})
    /\ p.covered = SumOf(S, LAMBDA e : e.covered)
    /\ p.total = SumOf(S, LAMBDA e : e.total)

\* Where p takes its context from: the newest that gives one.
TakesNewestContext(p, S) ==
    LET giving == {e \in S : GivesContext(e)} IN
    /\ giving = {} => p.context = {}
    /\ \A e \in giving : (\A d \in giving : d.sequence <= e.sequence) => p.context = e.context

\* Arrivals out of order do not show: what is selected, the lifecycle and the
\* outcome are functions of the set of current observations, also when some
\* arrive more than once; so are the counts as long as none does, and the context
\* as long as no two arrivals have one number.  The unit of the coverage is no
\* such function: it is that of the last current arrival.
OrderDoesNotShow ==
    \A c \in Scopes :
        LET p == Project(arrivals, c)
            S == CurrentSet(c)
        IN /\ SaysStateOf(p, S)
           /\ NoRepeats => CountsEach(p, S)
           /\ NoTies => TakesNewestContext(p, S)

\* Evidence that was superseded or revoked never comes back, not even when what
\* superseded it is itself revoked or superseded later.
SupersededStaysOut ==
    [][\A c \in Scopes : \A e \in Range(arrivals) :
          Counts(e, arrivals', c) => Counts(e, arrivals, c)]_vars

\* The newest observation of a scope counts, unless it was revoked: older ones
\* that arrive late cannot displace it, whatever they claim to supersede.
NewestCounts ==
    \A c \in Scopes : \A e \in Range(arrivals) :
        (/\ e.scope = c /\ e.finality # "revoked" /\ e.id \notin e.supersedes
         /\ \A d \in Range(arrivals) : d.sequence < e.sequence \/ d = e)
        => Counts(e, arrivals, c)

\* Failures are not waived away: when a consumer who holds one projection of a
\* scope is told that the scope passes, then whatever was current before and did
\* not pass has been superseded in the meantime.  A waiver does not do, nor does
\* passing evidence beside the failed.
FailureIsNotWaivedAway ==
    [][\A c \in Scopes : \A e \in Range(arrivals) :
          (/\ e.id \in Range(projection[c].selected) /\ e.outcome # "passed"
           /\ projection'[c].outcome = "passed")
          => Superseded(e, arrivals)]_vars
=============================================================================
