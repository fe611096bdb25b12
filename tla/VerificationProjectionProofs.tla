-------------------- MODULE VerificationProjectionProofs --------------------
(***************************************************************************)
(* Proofs about VerificationProjection, for any set of observations and    *)
(* any order of arrival: what has been superseded or revoked stays out,    *)
(* the newest observation of a scope counts, a scope passes only after its *)
(* failures were superseded, and what a projection says, but for the unit, *)
(* is a function of the set of current arrivals, with the conditions that  *)
(* OrderDoesNotShow names for the counts and the context.                  *)
(*                                                                         *)
(* NewestCounts and OrderDoesNotShow follow from ArrivalsOK alone: they    *)
(* say what the projection of any list of observations is.  The projection *)
(* is made of passes over a list; what a pass holds after n elements is    *)
(* found by Recursion's FoldSteps, and an invariant of the pass is shown   *)
(* at the least n that could break it.  FailureIsNotWaivedAway is about    *)
(* the projection a consumer holds, which may be older than the arrivals:  *)
(* HeldOK says what is still true of it.                                   *)
(***************************************************************************)
EXTENDS VerificationProjection, FiniteSetTheorems, TLAPS

ArrivalsOK == arrivals \in Seq(Events)

\* The arrivals are observations.
THEOREM ArrivalsTyped == Spec => []ArrivalsOK
<1>1. Init => ArrivalsOK
  BY DEF Init, ArrivalsOK
<1>2. ArrivalsOK /\ [Next]_vars => ArrivalsOK'
  <2> SUFFICES ASSUME ArrivalsOK, [Next]_vars PROVE ArrivalsOK'
    OBVIOUS
  <2>1. ASSUME NEW e \in Events, Arrive(e) PROVE ArrivalsOK'
    BY <2>1 DEF Arrive, ArrivalsOK
  <2>2. ASSUME NEW c \in Scopes, Ask(c) PROVE ArrivalsOK'
    BY <2>2 DEF Ask, ArrivalsOK
  <2>3. CASE UNCHANGED vars
    BY <2>3 DEF vars, ArrivalsOK
  <2> QED
    BY <2>1, <2>2, <2>3 DEF Next
<1> QED
  BY <1>1, <1>2, PTL DEF Spec

\* Supersession is monotone: a longer list of arrivals supersedes more.
LEMMA SupersededGrows ==
    ASSUME NEW s \in Seq(Events), NEW e \in Events, NEW d, Superseded(d, s)
    PROVE  Superseded(d, Append(s, e))
<1>1. PICK i \in DOMAIN s : s[i].sequence >= d.sequence /\ d.id \in s[i].supersedes
  BY DEF Superseded
<1>2. i \in DOMAIN Append(s, e) /\ Append(s, e)[i] = s[i]
  OBVIOUS
<1> QED
  BY <1>1, <1>2 DEF Superseded

\* SupersededStaysOut holds of every behaviour: evidence that a projection has
\* dropped never returns to one.
THEOREM SupersessionIsPermanent == Spec => SupersededStaysOut
<1>1. ArrivalsOK /\ [Next]_vars =>
        [\A c \in Scopes : \A e \in Range(arrivals) :
            Counts(e, arrivals', c) => Counts(e, arrivals, c)]_vars
  <2> SUFFICES ASSUME ArrivalsOK, Next,
                      NEW c \in Scopes, NEW d \in Range(arrivals),
                      Counts(d, arrivals', c)
               PROVE  Counts(d, arrivals, c)
    OBVIOUS
  <2>1. ASSUME NEW e \in Events, Arrive(e) PROVE Counts(d, arrivals, c)
    <3>1. Superseded(d, arrivals) => Superseded(d, arrivals')
      BY <2>1, SupersededGrows DEF Arrive, ArrivalsOK
    <3> QED
      BY <3>1 DEF Counts
  <2>2. ASSUME NEW b \in Scopes, Ask(b) PROVE Counts(d, arrivals, c)
    BY <2>2 DEF Ask
  <2> QED
    BY <2>1, <2>2 DEF Next
<1> QED
  BY <1>1, ArrivalsTyped, PTL DEF Spec, SupersededStaysOut

\* NewestCounts is an invariant: no older observation displaces the newest.
THEOREM NewestEvidenceCounts == Spec => []NewestCounts
<1>1. ArrivalsOK => NewestCounts
  <2> SUFFICES ASSUME ArrivalsOK, NEW c \in Scopes, NEW e \in Range(arrivals),
                      e.scope = c, e.finality # "revoked", e.id \notin e.supersedes,
                      \A d \in Range(arrivals) : d.sequence < e.sequence \/ d = e,
                      Superseded(e, arrivals)
               PROVE  FALSE
    BY DEF NewestCounts, Counts
  <2>1. PICK i \in DOMAIN arrivals :
          arrivals[i].sequence >= e.sequence /\ e.id \in arrivals[i].supersedes
    BY DEF Superseded
  <2>2. arrivals[i] \in Range(arrivals) /\ e \in Events /\ arrivals[i] \in Events
    BY DEF ArrivalsOK, Range
  <2>3. arrivals[i].sequence \in Int /\ e.sequence \in Int
    BY <2>2, EventAssumption
  <2>4. arrivals[i] # e
    BY <2>1
  <2> QED
    BY <2>1, <2>2, <2>3, <2>4
<1> QED
  BY <1>1, ArrivalsTyped, PTL

-----------------------------------------------------------------------------
(* The list that a projection is made of.                                  *)

\* The steps of the passes over a list, in Recursion's terms.
CurrentStep(s, c, list, e) == IF Counts(e, s, c) THEN Append(list, e) ELSE list
CoveredStep(c, d, n, e) == n + e.covered
TotalStep(c, d, n, e) == n + e.total
ContextStep(c, d, acc, e) == TakeContext(acc, e)

Selecting == INSTANCE Recursion WITH Step <- CurrentStep
Covering == INSTANCE Recursion WITH Step <- CoveredStep
Totalling == INSTANCE Recursion WITH Step <- TotalStep
Finding == INSTANCE Recursion WITH Step <- ContextStep

\* t is the current ones among the first n arrivals; its elements stand at pos.
Selects(t, s, c, n, pos) ==
    /\ t \in Seq(Events)
    /\ pos \in [1..Len(t) -> 1..n]
    /\ \A k \in 1..Len(t) : t[k] = s[pos[k]] /\ Counts(s[pos[k]], s, c)
    /\ \A k, l \in 1..Len(t) : pos[k] = pos[l] => k = l
    /\ \A i \in 1..n : Counts(s[i], s, c) => \E k \in 1..Len(t) : pos[k] = i

\* One more arrival is looked at.
LEMMA SelectsNext ==
    ASSUME NEW s \in Seq(Events), NEW c, NEW n \in 1..Len(s), NEW t, NEW pos,
           Selects(t, s, c, n - 1, pos)
    PROVE  \E p : Selects(CurrentStep(s, c, t, s[n]), s, c, n, p)
<1>1. /\ t \in Seq(Events) /\ Len(t) \in Nat /\ n \in Nat /\ s[n] \in Events
      /\ pos \in [1..Len(t) -> 1..(n - 1)]
      /\ \A k \in 1..Len(t) : t[k] = s[pos[k]] /\ Counts(s[pos[k]], s, c)
      /\ \A k, l \in 1..Len(t) : pos[k] = pos[l] => k = l
      /\ \A i \in 1..(n - 1) : Counts(s[i], s, c) => \E k \in 1..Len(t) : pos[k] = i
    BY DEF Selects
<1>2. \A i \in 1..n : i \in 1..(n - 1) \/ i = n
    BY <1>1
<1>3. \A i \in 1..(n - 1) : i \in 1..n /\ i # n
    BY <1>1
<1>4. CASE Counts(s[n], s, c)
  <2> DEFINE u == Append(t, s[n])
             p == [k \in 1..(Len(t) + 1) |-> IF k = Len(t) + 1 THEN n ELSE pos[k]]
  <2>1. /\ u \in Seq(Events) /\ Len(u) = Len(t) + 1 /\ u[Len(t) + 1] = s[n]
        /\ \A k \in 1..Len(t) : u[k] = t[k]
    BY <1>1
  <2>2. \A k \in 1..(Len(t) + 1) : k \in 1..Len(t) \/ k = Len(t) + 1
    BY <1>1
  <2>3. \A k \in 1..Len(t) : k \in 1..(Len(t) + 1) /\ k # Len(t) + 1
    BY <1>1
  <2>4. Len(t) + 1 \in 1..(Len(t) + 1) /\ n \in 1..n
    BY <1>1
  <2>5. /\ p[Len(t) + 1] = n
        /\ \A k \in 1..Len(t) : p[k] = pos[k] /\ pos[k] \in 1..(n - 1)
        /\ p \in [1..(Len(t) + 1) -> 1..n]
    BY <1>1, <1>3, <2>2, <2>3, <2>4
  <2> HIDE DEF p, u
  <2>6. \A k \in 1..Len(u) : u[k] = s[p[k]] /\ Counts(s[p[k]], s, c)
    BY <1>1, <1>4, <2>1, <2>2, <2>5
  <2>7. \A k, l \in 1..Len(u) : p[k] = p[l] => k = l
    BY <1>1, <1>3, <2>1, <2>2, <2>5
  <2>8. \A i \in 1..n : Counts(s[i], s, c) => \E k \in 1..Len(u) : p[k] = i
    BY <1>1, <1>2, <2>1, <2>3, <2>4, <2>5
  <2>9. Selects(u, s, c, n, p)
    BY <2>1, <2>5, <2>6, <2>7, <2>8 DEF Selects
  <2> QED
    BY <1>4, <2>9 DEF CurrentStep, u
<1>5. CASE ~Counts(s[n], s, c)
  <2>1. pos \in [1..Len(t) -> 1..n]
    BY <1>1, <1>3
  <2>2. Selects(t, s, c, n, pos)
    BY <1>1, <1>2, <1>5, <2>1 DEF Selects
  <2> QED
    BY <1>5, <2>2 DEF CurrentStep
<1> QED
    BY <1>4, <1>5

\* The current list has each current arrival, once for each time it arrived.
LEMMA CurrentSelects ==
    ASSUME NEW s \in Seq(Events), NEW c
    PROVE  \E pos : Selects(Current(s, c), s, c, Len(s), pos)
<1>1. PICK f : /\ f[0] = <<>>
               /\ \A n \in 1..Len(s) : f[n] = CurrentStep(s, c, f[n - 1], s[n])
               /\ f[Len(s)] = Selecting!Fold(s, c, <<>>, s)
    BY Selecting!FoldSteps
<1>2. Current(s, c) = f[Len(s)]
  <2>1. Current(s, c) = Selecting!Fold(s, c, <<>>, s)
    BY Zenon DEF Current, CurrentStep, FoldLeft, MapThenFoldSet, Max, Selecting!Max,
       Selecting!Fold, Selecting!MapThenFoldSet
  <2> QED
    BY <1>1, <2>1
<1> DEFINE Bad == {n \in 0..Len(s) : ~\E pos : Selects(f[n], s, c, n, pos)}
<1>3. Bad = {}
  <2> SUFFICES ASSUME Bad # {} PROVE FALSE
    OBVIOUS
  <2>1. PICK n \in Bad : \A x \in Bad : n <= x
    <3>1. Bad \in SUBSET Nat
      OBVIOUS
    <3> HIDE DEF Bad
    <3> QED
      BY <3>1, Selecting!LeastNumber
  <2>2. n # 0
    <3>1. Selects(<<>>, s, c, 0, [k \in 1..0 |-> 0])
      BY DEF Selects
    <3> QED
      BY <1>1, <2>1, <3>1
  <2>3. n \in 1..Len(s) /\ n - 1 \in 0..Len(s) /\ ~(n <= n - 1)
    BY <2>1, <2>2
  <2>4. PICK pos : Selects(f[n - 1], s, c, n - 1, pos)
    BY <2>1, <2>3
  <2>5. \E p : Selects(f[n], s, c, n, p)
    BY <1>1, <2>3, <2>4, SelectsNext
  <2> QED
    BY <2>1, <2>5
<1>4. Len(s) \in 0..Len(s)
    OBVIOUS
<1> QED
    BY <1>2, <1>3, <1>4

\* As a set, it is the set of current arrivals.
LEMMA CurrentIsCurrentSet ==
    ASSUME ArrivalsOK, NEW c
    PROVE  /\ Current(arrivals, c) \in Seq(Events)
           /\ Range(Current(arrivals, c)) = CurrentSet(c)
           /\ NoRepeats =>
                \A k, l \in 1..Len(Current(arrivals, c)) :
                    Current(arrivals, c)[k] = Current(arrivals, c)[l] => k = l
<1> DEFINE s == arrivals
           list == Current(arrivals, c)
<1>1. s \in Seq(Events) /\ DOMAIN s = 1..Len(s)
    BY DEF ArrivalsOK
<1>2. PICK pos : Selects(list, s, c, Len(s), pos)
    BY <1>1, CurrentSelects
<1> HIDE DEF s, list
<1>3. /\ list \in Seq(Events) /\ DOMAIN list = 1..Len(list)
      /\ \A k \in 1..Len(list) : pos[k] \in 1..Len(s)
      /\ \A k \in 1..Len(list) : list[k] = s[pos[k]] /\ Counts(s[pos[k]], s, c)
      /\ \A k, l \in 1..Len(list) : pos[k] = pos[l] => k = l
      /\ \A i \in 1..Len(s) : Counts(s[i], s, c) => \E k \in 1..Len(list) : pos[k] = i
    BY <1>2 DEF Selects
<1>4. Range(list) = {e \in Range(s) : Counts(e, s, c)}
  <2>1. ASSUME NEW k \in 1..Len(list)
        PROVE  list[k] \in {e \in Range(s) : Counts(e, s, c)}
    BY <1>1, <1>3 DEF Range
  <2>2. ASSUME NEW e \in Range(s), Counts(e, s, c)
        PROVE  \E k \in 1..Len(list) : list[k] = e
    <3>1. PICK i \in 1..Len(s) : s[i] = e
      BY <1>1 DEF Range
    <3> QED
      BY <1>3, <2>2, <3>1
  <2>3. Range(list) = {list[k] : k \in 1..Len(list)}
    BY <1>3 DEF Range
  <2> QED
    BY <2>1, <2>2, <2>3
<1>5. ASSUME \A i, j \in DOMAIN s : s[i] = s[j] => i = j,
             NEW k \in 1..Len(list), NEW l \in 1..Len(list), list[k] = list[l]
      PROVE  k = l
    BY <1>1, <1>3, <1>5
<1>6. Current(arrivals, c) \in Seq(Events)
    BY <1>3 DEF list
<1>7. Range(Current(arrivals, c)) = CurrentSet(c)
    BY <1>4, Zenon DEF s, list, CurrentSet
<1>8. ASSUME NoRepeats, NEW k \in 1..Len(list), NEW l \in 1..Len(list), list[k] = list[l]
      PROVE  k = l
  <2>1. \A i, j \in DOMAIN s : s[i] = s[j] => i = j
    BY <1>8 DEF NoRepeats, s
  <2> QED
    BY <1>5, <1>8, <2>1
<1> QED
    BY <1>6, <1>7, <1>8, Zenon DEF list

-----------------------------------------------------------------------------
(* The state of a scope.                                                   *)

\* The lifecycles of a list, and those of its elements as a set.
LEMMA LifecycleAgrees ==
    ASSUME NEW list \in Seq(Events)
    PROVE  Lifecycle(list) = LifecycleOf(Range(list))
<1> DEFINE reported == {e.lifecycle : e \in Range(list)}
           At(l) == Has(list, LAMBDA e : e.lifecycle = l)
           Only(l) == All(list, LAMBDA e : e.lifecycle = l)
<1>1. /\ DOMAIN list = 1..Len(list) /\ Len(list) \in Nat
      /\ list = <<>> <=> DOMAIN list = {}
    OBVIOUS
<1>2. reported = {list[i].lifecycle : i \in DOMAIN list}
    BY DEF Range
<1>3. \A l : At(l) <=> l \in reported
    BY <1>2 DEF Has
<1>4. \A l : Only(l) <=> reported = {l}
    BY <1>1, <1>2 DEF All
<1>5. list = <<>> <=> reported = {}
    BY <1>1, <1>2
<1>6. Lifecycle(list) =
        IF list = <<>> THEN "pending"
        ELSE IF At("blocked") THEN "blocked"
        ELSE IF At("running") THEN "running"
        ELSE IF Only("pending") THEN "pending"
        ELSE IF Only("superseded") THEN "superseded"
        ELSE "complete"
    BY Zenon DEF Lifecycle
<1> HIDE DEF At, Only, reported
<1>7. LifecycleOf(Range(list)) =
        CASE "blocked" \in reported -> "blocked"
          [] "running" \in reported /\ "blocked" \notin reported -> "running"
          [] reported = {"superseded"} -> "superseded"
          [] reported \subseteq {"pending"} -> "pending"
          [] OTHER -> "complete"
    BY DEF LifecycleOf, reported
<1> QED
    BY <1>3, <1>4, <1>5, <1>6, <1>7

\* The outcome of a list, from the outcomes its elements have as a set.
LEMMA OutcomeAgrees ==
    ASSUME NEW list \in Seq(Events), NEW reported,
           reported = {e.outcome : e \in Range(list)}
    PROVE  /\ reported = {} => Outcome(list) = "unknown"
           /\ "errored" \in reported => Outcome(list) = "errored"
           /\ "errored" \notin reported =>
                \A o \in reported : Outcome(list) = IF reported = {o} THEN o ELSE "mixed"
<1> DEFINE Errs == Has(list, LAMBDA e : e.outcome = "errored")
           Agree(o) == All(list, LAMBDA e : e.outcome = o)
<1>1. /\ DOMAIN list = 1..Len(list) /\ Len(list) \in Nat
      /\ list = <<>> <=> DOMAIN list = {}
      /\ \A i \in DOMAIN list : list[i] \in Events
    OBVIOUS
<1>2. reported = {list[i].outcome : i \in DOMAIN list}
    BY DEF Range
<1>3. Errs <=> "errored" \in reported
    BY <1>2 DEF Has
<1>4. \A o : Agree(o) <=> reported = {o}
    BY <1>1, <1>2 DEF All
<1>5. list = <<>> <=> reported = {}
    BY <1>1, <1>2
<1>6. Outcome(list) =
        IF list = <<>> THEN "unknown"
        ELSE IF Errs THEN "errored"
        ELSE IF \E o \in Agreed : Agree(o) THEN CHOOSE o \in Agreed : Agree(o)
        ELSE "mixed"
    BY Zenon DEF Outcome
<1>7. \A o \in reported : o \in Agreed \cup {"errored", "mixed"}
    BY <1>1, <1>2, EventAssumption DEF Agreed, Outcomes
<1> HIDE DEF Errs, Agree
<1>8. ASSUME "errored" \notin reported, NEW o \in reported
      PROVE  Outcome(list) = IF reported = {o} THEN o ELSE "mixed"
  <2>1. Outcome(list) =
          IF \E q \in Agreed : Agree(q) THEN CHOOSE q \in Agreed : Agree(q) ELSE "mixed"
    BY <1>3, <1>5, <1>6, <1>8
  <2>2. CASE \E q \in Agreed : Agree(q)
    <3>1. Agree(CHOOSE q \in Agreed : Agree(q))
      BY <2>2
    <3>2. reported = {CHOOSE q \in Agreed : Agree(q)}
      BY <1>4, <3>1
    <3> QED
      BY <1>8, <2>1, <2>2, <3>2
  <2>3. CASE ~\E q \in Agreed : Agree(q)
    <3>1. reported = {o} => o = "mixed"
      BY <1>4, <1>7, <1>8, <2>3
    <3> QED
      BY <2>1, <2>3, <3>1
  <2> QED
    BY <2>2, <2>3
<1> QED
    BY <1>3, <1>5, <1>6, <1>8

\* So a projection says of the state what the set of current arrivals says.
LEMMA StateAgrees ==
    ASSUME ArrivalsOK, NEW c \in Scopes
    PROVE  SaysStateOf(Project(arrivals, c), CurrentSet(c))
<1> DEFINE list == Current(arrivals, c)
           p == Project(arrivals, c)
           S == CurrentSet(c)
           reported == {e.outcome : e \in S}
<1>1. list \in Seq(Events) /\ Range(list) = S
    BY CurrentIsCurrentSet
<1>2. /\ p.selected = [i \in DOMAIN list |-> list[i].id]
      /\ p.lifecycle = Lifecycle(list)
      /\ p.outcome = Outcome(list)
    BY DEF Project
<1> HIDE DEF list, p, S
<1>3. Range(p.selected) = {e.id : e \in S}
    BY <1>1, <1>2 DEF Range
<1>4. p.lifecycle = LifecycleOf(S)
    BY <1>1, <1>2, LifecycleAgrees
<1>5. S = {} => reported = {}
    OBVIOUS
<1>6. /\ reported = {} => p.outcome = "unknown"
      /\ "errored" \in reported => p.outcome = "errored"
      /\ "errored" \notin reported =>
           \A o \in reported : p.outcome = IF reported = {o} THEN o ELSE "mixed"
    BY <1>1, <1>2, OutcomeAgrees
<1> HIDE DEF reported
<1> QED
    BY <1>3, <1>4, <1>5, <1>6, Zenon DEF SaysStateOf, p, S, reported

\* In particular a scope passes only if all its current evidence did.
LEMMA PassedAll ==
    ASSUME ArrivalsOK, NEW c \in Scopes, Project(arrivals, c).outcome = "passed",
           NEW e \in CurrentSet(c)
    PROVE  e.outcome = "passed"
<1> DEFINE reported == {d.outcome : d \in CurrentSet(c)}
<1>1. e.outcome \in reported
    OBVIOUS
<1>2. /\ "errored" \in reported => Project(arrivals, c).outcome = "errored"
      /\ "errored" \notin reported =>
           Project(arrivals, c).outcome = IF reported = {e.outcome} THEN e.outcome ELSE "mixed"
    BY <1>1, StateAgrees DEF SaysStateOf
<1> HIDE DEF reported
<1> QED
    BY <1>2

\* What a consumer holds of a scope selects arrivals of it that were not revoked,
\* and that passed if the scope did.
HeldOK ==
    \A c \in Scopes : \A x \in Range(projection[c].selected) :
        \E e \in Range(arrivals) :
            /\ e.id = x /\ e.scope = c /\ e.finality # "revoked"
            /\ projection[c].outcome = "passed" => e.outcome = "passed"

LEMMA AskedHeld ==
    ASSUME ArrivalsOK, NEW c \in Scopes, NEW x \in Range(Project(arrivals, c).selected)
    PROVE  \E e \in Range(arrivals) :
              /\ e.id = x /\ e.scope = c /\ e.finality # "revoked"
              /\ Project(arrivals, c).outcome = "passed" => e.outcome = "passed"
<1>1. PICK e \in CurrentSet(c) : e.id = x
    BY StateAgrees DEF SaysStateOf
<1>2. e \in Range(arrivals) /\ e.scope = c /\ e.finality # "revoked"
    BY DEF CurrentSet, Counts
<1>3. Project(arrivals, c).outcome = "passed" => e.outcome = "passed"
    BY PassedAll
<1> QED
    BY <1>1, <1>2, <1>3

\* Arrivals only ever grow.
LEMMA ArrivalsGrow == ArrivalsOK /\ [Next]_vars => Range(arrivals) \subseteq Range(arrivals')
<1> SUFFICES ASSUME ArrivalsOK, [Next]_vars, NEW d \in Range(arrivals)
             PROVE  d \in Range(arrivals')
    OBVIOUS
<1>1. PICK i \in DOMAIN arrivals : arrivals[i] = d
    BY DEF Range
<1>2. ASSUME NEW e \in Events, Arrive(e) PROVE d \in Range(arrivals')
  <2>1. i \in DOMAIN arrivals' /\ arrivals'[i] = d
    BY <1>1, <1>2 DEF Arrive, ArrivalsOK
  <2> QED
    BY <2>1 DEF Range
<1>3. ASSUME NEW b \in Scopes, Ask(b) PROVE d \in Range(arrivals')
    BY <1>3 DEF Ask
<1>4. CASE UNCHANGED vars
    BY <1>4 DEF vars
<1> QED
    BY <1>2, <1>3, <1>4 DEF Next

\* A step leaves what is held of a scope alone or projects it anew.
LEMMA HeldOrAsked ==
    ASSUME [Next]_vars, NEW c \in Scopes, DOMAIN projection = Scopes
    PROVE  \/ projection'[c] = projection[c]
           \/ projection'[c] = Project(arrivals, c) /\ arrivals' = arrivals
<1>1. ASSUME NEW e \in Events, Arrive(e) PROVE projection'[c] = projection[c]
    BY <1>1 DEF Arrive
<1>2. ASSUME NEW b \in Scopes, Ask(b)
      PROVE  \/ projection'[c] = projection[c]
             \/ projection'[c] = Project(arrivals, c) /\ arrivals' = arrivals
    BY <1>2 DEF Ask
<1>3. CASE UNCHANGED vars
    BY <1>3 DEF vars
<1> QED
    BY <1>1, <1>2, <1>3 DEF Next

HeldInv == ArrivalsOK /\ DOMAIN projection = Scopes /\ HeldOK

LEMMA HeldStep == HeldInv /\ ArrivalsOK' /\ [Next]_vars => HeldInv'
<1> SUFFICES ASSUME HeldInv, ArrivalsOK', [Next]_vars PROVE HeldInv'
    OBVIOUS
<1>1. DOMAIN projection' = Scopes
  <2>1. ASSUME NEW e \in Events, Arrive(e) PROVE DOMAIN projection' = Scopes
    BY <2>1 DEF Arrive, HeldInv
  <2>2. ASSUME NEW b \in Scopes, Ask(b) PROVE DOMAIN projection' = Scopes
    BY <2>2 DEF Ask, HeldInv
  <2>3. CASE UNCHANGED vars
    BY <2>3 DEF vars, HeldInv
  <2> QED
    BY <2>1, <2>2, <2>3 DEF Next
<1>2. ASSUME NEW c \in Scopes, NEW x \in Range(projection'[c].selected)
      PROVE  \E e \in Range(arrivals') :
                /\ e.id = x /\ e.scope = c /\ e.finality # "revoked"
                /\ projection'[c].outcome = "passed" => e.outcome = "passed"
  <2>1. CASE projection'[c] = projection[c]
    <3>1. \E e \in Range(arrivals) :
             /\ e.id = x /\ e.scope = c /\ e.finality # "revoked"
             /\ projection[c].outcome = "passed" => e.outcome = "passed"
      BY <1>2, <2>1 DEF HeldInv, HeldOK
    <3>2. Range(arrivals) \subseteq Range(arrivals')
      BY ArrivalsGrow DEF HeldInv
    <3> QED
      BY <2>1, <3>1, <3>2
  <2>2. CASE projection'[c] = Project(arrivals, c) /\ arrivals' = arrivals
    BY <1>2, <2>2, AskedHeld DEF HeldInv
  <2> QED
    BY <2>1, <2>2, HeldOrAsked DEF HeldInv
<1> QED
    BY <1>1, <1>2 DEF HeldInv, HeldOK

\* FailureIsNotWaivedAway holds of every behaviour: a scope that had failed
\* evidence passes only once that evidence has been superseded.
THEOREM PassesAreEarned == Spec => FailureIsNotWaivedAway
<1>1. Init => HeldInv
  <2> SUFFICES ASSUME Init PROVE HeldInv
    OBVIOUS
  <2>1. ArrivalsOK /\ arrivals = <<>> /\ projection = [c \in Scopes |-> Project(<<>>, c)]
    BY DEF Init, ArrivalsOK
  <2>2. \A c \in Scopes : projection[c] = Project(arrivals, c)
    BY <2>1
  <2> QED
    BY <2>1, <2>2, AskedHeld DEF HeldInv, HeldOK
<1>2. Spec => []HeldInv
    BY <1>1, HeldStep, ArrivalsTyped, PTL DEF Spec
<1>3. HeldInv /\ [Next]_vars =>
        [\A c \in Scopes : \A e \in Range(arrivals) :
           (/\ e.id \in Range(projection[c].selected) /\ e.outcome # "passed"
            /\ projection'[c].outcome = "passed")
           => Superseded(e, arrivals)]_vars
  <2> SUFFICES ASSUME HeldInv, Next, NEW c \in Scopes, NEW e \in Range(arrivals),
                      e.id \in Range(projection[c].selected), e.outcome # "passed",
                      projection'[c].outcome = "passed", ~Superseded(e, arrivals)
               PROVE  FALSE
    OBVIOUS
  <2>1. PICK d \in Range(arrivals) :
          /\ d.id = e.id /\ d.scope = c /\ d.finality # "revoked"
          /\ projection[c].outcome = "passed" => d.outcome = "passed"
    BY DEF HeldInv, HeldOK
  <2>2. d = e
    <3>1. d \in Events /\ e \in Events
      BY DEF HeldInv, ArrivalsOK, Range
    <3> QED
      BY <2>1, <3>1, IdentityAssumption
  <2>3. projection'[c] = Project(arrivals, c)
    BY <2>1, <2>2, HeldOrAsked DEF HeldInv
  <2>4. e \in CurrentSet(c)
    BY <2>1, <2>2 DEF CurrentSet, Counts
  <2> QED
    BY <2>3, <2>4, PassedAll DEF HeldInv
<1> QED
    BY <1>2, <1>3, PTL DEF Spec, FailureIsNotWaivedAway

-----------------------------------------------------------------------------
(* What a projection says, as a function of the set of current arrivals.    *)

Places(list, C) == {i \in DOMAIN list : list[i] \in C}
Distinct(list) == \A k, l \in 1..Len(list) : list[k] = list[l] => k = l

\* A list without repetitions stands for a finite set, and as many of its places
\* as of the set's elements have a property.
LEMMA PlacesCount ==
    ASSUME NEW S, NEW list \in Seq(S), NEW C \in SUBSET S, Distinct(list)
    PROVE  /\ IsFiniteSet(Range(list))
           /\ Cardinality(Places(list, C)) = Cardinality(Range(list) \cap C)
<1> DEFINE places == Places(list, C)
           found == Range(list) \cap C
           g == [i \in places |-> list[i]]
           h == [i \in 1..Len(list) |-> list[i]]
<1>1. Len(list) \in Nat /\ DOMAIN list = 1..Len(list)
    OBVIOUS
<1>2. Range(list) = {list[k] : k \in 1..Len(list)}
    BY <1>1 DEF Range
<1>3. IsFiniteSet(1..Len(list))
    BY <1>1, FS_Interval
<1>4. IsFiniteSet(Range(list))
  <2>1. h \in Surjection(1..Len(list), Range(list))
    BY <1>2 DEF Surjection
  <2> QED
    BY <1>3, <2>1, FS_Surjection
<1>5. IsFiniteSet(places)
    BY <1>1, <1>3, FS_Subset DEF Places
<1>6. ExistsBijection(places, found)
  <2>1. g \in [places -> found]
    BY <1>1, <1>2 DEF Places
  <2>2. \A e \in found : \E i \in places : g[i] = e
    BY <1>1, <1>2 DEF Places
  <2>3. \A i, j \in places : g[i] = g[j] => i = j
    BY <1>1 DEF Places, Distinct
  <2> HIDE DEF places, found, g
  <2>4. g \in Bijection(places, found)
    BY <2>1, <2>2, <2>3 DEF Bijection, Injection, Surjection, IsInjective
  <2> QED
    BY <2>4 DEF ExistsBijection
<1>7. Cardinality(found) = Cardinality(places)
  <2> HIDE DEF places, found
  <2> QED
    BY <1>5, <1>6, FS_Bijection
<1> QED
    BY <1>4, <1>7

\* Sums of the values w gives to the elements, of a list's first and of a set's.
SumsList(f, list, w) ==
    f[0] = 0 /\ \A n \in 1..Len(list) : f[n] = f[n - 1] + w[list[n]]

SumsSet(it, S, w) ==
    it[{}] = 0 /\ \A T \in SUBSET S : \A x \in T : it[T] = it[T \ {x}] + w[x]

\* A sum over such a list is the sum over the set.
LEMMA SumsAgree ==
    ASSUME NEW S, NEW list \in Seq(S), NEW w, NEW f, NEW it, Distinct(list),
           SumsList(f, list, w), SumsSet(it, Range(list), w)
    PROVE  f[Len(list)] = it[Range(list)]
<1> DEFINE U(k) == {list[j] : j \in 1..k}
           Bad == {n \in 0..Len(list) : f[n] # it[U(n)]}
<1>1. Len(list) \in Nat /\ DOMAIN list = 1..Len(list)
    OBVIOUS
<1>2. Range(list) = U(Len(list))
    BY <1>1 DEF Range
<1>3. /\ f[0] = 0 /\ it[{}] = 0
      /\ \A n \in 1..Len(list) : f[n] = f[n - 1] + w[list[n]]
      /\ \A T \in SUBSET Range(list) : \A x \in T : it[T] = it[T \ {x}] + w[x]
    BY DEF SumsList, SumsSet
<1>4. Bad = {}
  <2> SUFFICES ASSUME Bad # {} PROVE FALSE
    OBVIOUS
  <2>1. PICK n \in Bad : \A x \in Bad : n <= x
    <3>1. Bad \in SUBSET Nat
      OBVIOUS
    <3> HIDE DEF Bad
    <3> QED
      BY <3>1, Selecting!LeastNumber
  <2>2. n # 0
    <3>1. U(0) = {}
      OBVIOUS
    <3> QED
      BY <1>3, <2>1, <3>1
  <2>3. n \in 1..Len(list) /\ n - 1 \in 0..Len(list) /\ ~(n <= n - 1)
    BY <2>1, <2>2
  <2>4. f[n - 1] = it[U(n - 1)]
    BY <2>1, <2>3
  <2>5. \A j \in 1..n : j \in 1..(n - 1) \/ j = n
    BY <2>3
  <2>6. \A j \in 1..(n - 1) : j \in 1..n /\ j # n /\ j \in 1..Len(list)
    BY <1>1, <2>3
  <2>7. U(n - 1) = U(n) \ {list[n]}
    BY <1>1, <2>3, <2>5, <2>6 DEF Distinct
  <2>8. list[n] \in U(n) /\ U(n) \in SUBSET Range(list)
    <3>1. n \in 1..n /\ \A j \in 1..n : j \in 1..Len(list)
      BY <1>1, <2>3
    <3> QED
      BY <1>1, <1>2, <3>1
  <2>9. it[U(n)] = it[U(n) \ {list[n]}] + w[list[n]]
    <3> HIDE DEF U
    <3> QED
      BY <1>3, <2>8
  <2>10. f[n] = f[n - 1] + w[list[n]]
    BY <1>3, <2>3
  <2> HIDE DEF U
  <2> QED
    BY <2>1, <2>4, <2>7, <2>9, <2>10
<1>5. f[Len(list)] = it[U(Len(list))]
  <2>1. Len(list) \in 0..Len(list)
    BY <1>1
  <2> HIDE DEF U
  <2> QED
    BY <1>4, <2>1
<1> HIDE DEF U, Bad
<1> QED
    BY <1>2, <1>5

\* So the coverage of the list is that of the set.
LEMMA CoverageAgrees ==
    ASSUME NEW list \in Seq(Events), Distinct(list)
    PROVE  /\ FoldLeft(LAMBDA n, e : n + e.covered, 0, list)
                = SumOf(Range(list), LAMBDA e : e.covered)
           /\ FoldLeft(LAMBDA n, e : n + e.total, 0, list)
                = SumOf(Range(list), LAMBDA e : e.total)
<1> DEFINE S == Range(list)
           covered == [e \in S |-> e.covered]
           total == [e \in S |-> e.total]
<1>1. /\ S \in SUBSET Events /\ list \in Seq(S)
      /\ \A n \in 1..Len(list) : list[n] \in S
    BY DEF Range
<1>2. IsFiniteSet(S)
    BY PlacesCount, {} \in SUBSET Events
<1>3. \A e \in S : e.covered \in Int /\ e.total \in Int
    BY <1>1, EventAssumption
<1> HIDE DEF S
<1>4. FoldLeft(LAMBDA n, e : n + e.covered, 0, list) = SumOf(S, LAMBDA e : e.covered)
  <2>1. PICK f : /\ f[0] = 0
                 /\ \A n \in 1..Len(list) : f[n] = CoveredStep(0, 0, f[n - 1], list[n])
                 /\ f[Len(list)] = Covering!Fold(0, 0, 0, list)
    BY <1>1, Covering!FoldSteps
  <2>2. PICK it : Covering!TakesAny(0, 0, 0, S, it) /\ it[S] = Covering!SetFold(0, 0, 0, S)
    <3>1. Covering!Commutes(0, 0, Int, S)
      BY <1>3 DEF Covering!Commutes, CoveredStep
    <3>2. Covering!IsFiniteSet(S)
      BY <1>2, Zenon DEF IsFiniteSet, Covering!IsFiniteSet
    <3> QED
      BY <3>1, <3>2, 0 \in Int, Covering!SetFoldSteps
  <2>3. f[Len(list)] = it[S]
    <3>1. SumsList(f, list, covered)
      BY <1>1, <2>1 DEF SumsList, CoveredStep
    <3>2. SumsSet(it, Range(list), covered)
      BY <2>2 DEF Covering!TakesAny, SumsSet, CoveredStep, S
    <3> HIDE DEF covered
    <3> QED
      BY <3>1, <3>2, SumsAgree DEF S
  <2>4. FoldLeft(LAMBDA n, e : n + e.covered, 0, list) = Covering!Fold(0, 0, 0, list)
    BY Zenon DEF CoveredStep, FoldLeft, MapThenFoldSet, Max, Covering!Max,
       Covering!Fold, Covering!MapThenFoldSet
  <2>5. SumOf(S, LAMBDA e : e.covered) = Covering!SetFold(0, 0, 0, S)
    BY Zenon DEF CoveredStep, SumOf, FoldSet, MapThenFoldSet,
       Covering!SetFold, Covering!FoldSet, Covering!MapThenFoldSet
  <2> QED
    BY <2>1, <2>2, <2>3, <2>4, <2>5
<1>5. FoldLeft(LAMBDA n, e : n + e.total, 0, list) = SumOf(S, LAMBDA e : e.total)
  <2>1. PICK f : /\ f[0] = 0
                 /\ \A n \in 1..Len(list) : f[n] = TotalStep(0, 0, f[n - 1], list[n])
                 /\ f[Len(list)] = Totalling!Fold(0, 0, 0, list)
    BY <1>1, Totalling!FoldSteps
  <2>2. PICK it : Totalling!TakesAny(0, 0, 0, S, it) /\ it[S] = Totalling!SetFold(0, 0, 0, S)
    <3>1. Totalling!Commutes(0, 0, Int, S)
      BY <1>3 DEF Totalling!Commutes, TotalStep
    <3>2. Totalling!IsFiniteSet(S)
      BY <1>2, Zenon DEF IsFiniteSet, Totalling!IsFiniteSet
    <3> QED
      BY <3>1, <3>2, 0 \in Int, Totalling!SetFoldSteps
  <2>3. f[Len(list)] = it[S]
    <3>1. SumsList(f, list, total)
      BY <1>1, <2>1 DEF SumsList, TotalStep
    <3>2. SumsSet(it, Range(list), total)
      BY <2>2 DEF Totalling!TakesAny, SumsSet, TotalStep, S
    <3> HIDE DEF total
    <3> QED
      BY <3>1, <3>2, SumsAgree DEF S
  <2>4. FoldLeft(LAMBDA n, e : n + e.total, 0, list) = Totalling!Fold(0, 0, 0, list)
    BY Zenon DEF TotalStep, FoldLeft, MapThenFoldSet, Max, Totalling!Max,
       Totalling!Fold, Totalling!MapThenFoldSet
  <2>5. SumOf(S, LAMBDA e : e.total) = Totalling!SetFold(0, 0, 0, S)
    BY Zenon DEF TotalStep, SumOf, FoldSet, MapThenFoldSet,
       Totalling!SetFold, Totalling!FoldSet, Totalling!MapThenFoldSet
  <2> QED
    BY <2>1, <2>2, <2>3, <2>4, <2>5
<1> QED
    BY <1>4, <1>5 DEF S

\* After its first n observations the pass holds nothing, if none of them gives a
\* context, or what the newest of those that give one gave it.
Newest(acc, list, n) ==
    \/ /\ acc.sequence = -1 /\ acc.value = {}
       /\ \A j \in 1..n : ~GivesContext(list[j])
    \/ \E k \in 1..n :
          /\ GivesContext(list[k])
          /\ acc.sequence = list[k].sequence /\ acc.value = list[k].context
          /\ \A j \in 1..n : GivesContext(list[j]) => list[j].sequence <= list[k].sequence

LEMMA NewestNext ==
    ASSUME NEW list \in Seq(Events), NEW n \in 1..Len(list), NEW acc,
           Newest(acc, list, n - 1)
    PROVE  Newest(TakeContext(acc, list[n]), list, n)
<1>1. \A j \in 1..n : list[j] \in Events /\ list[j].sequence \in Int
    BY EventAssumption
<1>2. \A j \in 1..n : j \in 1..(n - 1) \/ j = n
    OBVIOUS
<1>3. n \in 1..n /\ \A j \in 1..(n - 1) : j \in 1..n
    OBVIOUS
<1> DEFINE b == TakeContext(acc, list[n])
<1>4. CASE acc.sequence = -1 /\ acc.value = {} /\ \A j \in 1..(n - 1) : ~GivesContext(list[j])
  <2>1. CASE ~GivesContext(list[n])
    <3>1. b = acc
      BY <1>1, <1>3, <1>4, <2>1 DEF TakeContext, GivesContext
    <3>2. \A j \in 1..n : ~GivesContext(list[j])
      BY <1>2, <1>4, <2>1
    <3> HIDE DEF b
    <3> QED
      BY <1>4, <3>1, <3>2 DEF Newest, b
  <2>2. CASE GivesContext(list[n])
    <3>1. b.sequence = list[n].sequence /\ b.value = list[n].context
      BY <1>1, <1>3, <1>4, <2>2 DEF TakeContext, GivesContext
    <3>2. \A j \in 1..n : GivesContext(list[j]) => list[j].sequence <= list[n].sequence
      BY <1>1, <1>2, <1>4
    <3> HIDE DEF b
    <3> QED
      BY <1>3, <2>2, <3>1, <3>2 DEF Newest, b
  <2> QED
    BY <2>1, <2>2
<1>5. ASSUME NEW k \in 1..(n - 1),
             GivesContext(list[k]),
             acc.sequence = list[k].sequence, acc.value = list[k].context,
             \A j \in 1..(n - 1) : GivesContext(list[j]) => list[j].sequence <= list[k].sequence
      PROVE  Newest(b, list, n)
  <2>0. list[k].sequence \in Int /\ list[k].sequence >= -1 /\ list[n].sequence \in Int
    BY <1>1, <1>3, <1>5 DEF GivesContext
  <2>1. CASE list[n].context # {} /\ list[n].sequence >= acc.sequence
    <3>1. b.sequence = list[n].sequence /\ b.value = list[n].context
      BY <2>1 DEF TakeContext
    <3>2. \A j \in 1..n : GivesContext(list[j]) => list[j].sequence <= list[n].sequence
      BY <1>1, <1>2, <1>3, <1>5, <2>1
    <3>3. GivesContext(list[n])
      BY <1>5, <2>0, <2>1 DEF GivesContext
    <3> HIDE DEF b
    <3> QED
      BY <1>3, <3>1, <3>2, <3>3 DEF Newest
  <2>2. CASE ~(list[n].context # {} /\ list[n].sequence >= acc.sequence)
    <3>1. b = acc
      BY <2>2 DEF TakeContext
    <3>2. \A j \in 1..n : GivesContext(list[j]) => list[j].sequence <= list[k].sequence
      <4>1. GivesContext(list[n]) => list[n].sequence <= list[k].sequence
        BY <1>5, <2>0, <2>2 DEF GivesContext
      <4> QED
        BY <1>2, <1>5, <4>1
    <3> HIDE DEF b
    <3> QED
      BY <1>3, <1>5, <3>1, <3>2 DEF Newest
  <2> QED
    BY <2>1, <2>2
<1> HIDE DEF b
<1>6. Newest(b, list, n)
    BY <1>4, <1>5 DEF Newest, b
<1> QED
    BY <1>6 DEF b

\* The context is that of the newest observation that has one.
LEMMA ContextIsNewest ==
    ASSUME NEW list \in Seq(Events)
    PROVE  \E acc : Newest(acc, list, Len(list)) /\ Context(list) = acc.value
<1> DEFINE base == [sequence |-> -1, value |-> {}]
<1>1. PICK f : /\ f[0] = base
               /\ \A n \in 1..Len(list) : f[n] = ContextStep(0, 0, f[n - 1], list[n])
               /\ f[Len(list)] = Finding!Fold(0, 0, base, list)
    BY Finding!FoldSteps
<1>2. Context(list) = f[Len(list)].value
  <2>1. FoldLeft(TakeContext, base, list) = Finding!Fold(0, 0, base, list)
    BY Zenon DEF ContextStep, FoldLeft, MapThenFoldSet, Max, Finding!Max,
       Finding!Fold, Finding!MapThenFoldSet
  <2> QED
    BY <1>1, <2>1 DEF Context
<1> DEFINE Bad == {n \in 0..Len(list) : ~Newest(f[n], list, n)}
<1>3. Bad = {}
  <2> SUFFICES ASSUME Bad # {} PROVE FALSE
    OBVIOUS
  <2>1. PICK n \in Bad : \A x \in Bad : n <= x
    <3>1. Bad \in SUBSET Nat
      OBVIOUS
    <3> HIDE DEF Bad
    <3> QED
      BY <3>1, Selecting!LeastNumber
  <2>2. n # 0
    BY <1>1, <2>1 DEF Newest
  <2>3. n \in 1..Len(list) /\ n - 1 \in 0..Len(list) /\ ~(n <= n - 1)
    BY <2>1, <2>2
  <2>4. Newest(f[n - 1], list, n - 1)
    BY <2>1, <2>3
  <2>5. Newest(f[n], list, n)
    BY <1>1, <2>3, <2>4, NewestNext DEF ContextStep
  <2> QED
    BY <2>1, <2>5
<1>4. Len(list) \in 0..Len(list)
    OBVIOUS
<1> QED
    BY <1>2, <1>3, <1>4

\* A projection counts each current observation once, if none arrived twice.
LEMMA CountsAgree ==
    ASSUME ArrivalsOK, NoRepeats, NEW c \in Scopes
    PROVE  CountsEach(Project(arrivals, c), CurrentSet(c))
<1> DEFINE list == Current(arrivals, c)
           p == Project(arrivals, c)
           S == CurrentSet(c)
<1>1. list \in Seq(Events) /\ Range(list) = S /\ Distinct(list)
    BY CurrentIsCurrentSet DEF Distinct
<1>2. /\ p.assurance = [a \in Assurances |->
                          Cardinality({i \in DOMAIN list : list[i].assurance = a})]
      /\ p.covered = FoldLeft(LAMBDA n, e : n + e.covered, 0, list)
      /\ p.total = FoldLeft(LAMBDA n, e : n + e.total, 0, list)
    BY DEF Project
<1> HIDE DEF list, p, S
<1>3. /\ S = {list[k] : k \in 1..Len(list)} /\ DOMAIN list = 1..Len(list)
      /\ \A k \in 1..Len(list) : list[k] \in Events
    BY <1>1 DEF Range
<1>4. ASSUME NEW a \in Assurances
      PROVE  p.assurance[a] = Cardinality({e \in S : e.assurance = a})
  <2> DEFINE C == {e \in Events : e.assurance = a}
  <2>1. {i \in DOMAIN list : list[i].assurance = a} = Places(list, C)
    BY <1>3 DEF Places
  <2>2. {e \in S : e.assurance = a} = Range(list) \cap C
    BY <1>1, <1>3
  <2>3. Cardinality(Places(list, C)) = Cardinality(Range(list) \cap C)
    <3>1. C \in SUBSET Events
      OBVIOUS
    <3> HIDE DEF C
    <3> QED
      BY <1>1, <3>1, PlacesCount
  <2> HIDE DEF C
  <2> QED
    BY <1>2, <2>1, <2>2, <2>3
<1>5. p.covered = SumOf(S, LAMBDA e : e.covered) /\ p.total = SumOf(S, LAMBDA e : e.total)
    BY <1>1, <1>2, CoverageAgrees
<1> QED
    BY <1>4, <1>5 DEF CountsEach, p, S

\* Its context is the newest one's, if no two have one number.
LEMMA ContextAgrees ==
    ASSUME ArrivalsOK, NoTies, NEW c \in Scopes
    PROVE  TakesNewestContext(Project(arrivals, c), CurrentSet(c))
<1> DEFINE list == Current(arrivals, c)
           p == Project(arrivals, c)
           S == CurrentSet(c)
           giving == {e \in S : GivesContext(e)}
<1>1. list \in Seq(Events) /\ Range(list) = S /\ S \subseteq Range(arrivals)
    BY CurrentIsCurrentSet DEF CurrentSet
<1>2. p.context = Context(list)
    BY DEF Project
<1> HIDE DEF list, p, S
<1>3. /\ S = {list[k] : k \in 1..Len(list)}
      /\ \A k \in 1..Len(list) : list[k] \in Events
    BY <1>1 DEF Range
<1>4. PICK acc : Newest(acc, list, Len(list)) /\ p.context = acc.value
  <2>1. \E acc : Newest(acc, list, Len(list)) /\ Context(list) = acc.value
    BY <1>1, ContextIsNewest, Zenon
  <2> QED
    BY <1>2, <2>1, Zenon
<1>5. giving = {} => p.context = {}
    BY <1>3, <1>4 DEF Newest
<1>6. ASSUME NEW e \in giving, \A d \in giving : d.sequence <= e.sequence
      PROVE  p.context = e.context
  <2>1. PICK m \in 1..Len(list) : list[m] = e /\ GivesContext(e)
    BY <1>3
  <2>2. PICK k \in 1..Len(list) :
          /\ GivesContext(list[k]) /\ acc.value = list[k].context
          /\ \A j \in 1..Len(list) :
               GivesContext(list[j]) => list[j].sequence <= list[k].sequence
    BY <1>4, <2>1 DEF Newest
  <2>3. list[k] \in giving
    BY <1>3, <2>2
  <2>4. e.sequence <= list[k].sequence /\ list[k].sequence <= e.sequence
    BY <1>6, <2>1, <2>2, <2>3
  <2>5. e.sequence \in Int /\ list[k].sequence \in Int
    BY <1>3, <2>1, EventAssumption
  <2>6. e.sequence = list[k].sequence
    BY <2>4, <2>5
  <2>7. e = list[k]
    BY <1>1, <2>3, <2>6 DEF NoTies
  <2> QED
    BY <1>4, <2>2, <2>7
<1> QED
    BY <1>5, <1>6, Zenon DEF TakesNewestContext, p, S

\* What a projection says does not depend on the order in which the evidence
\* arrived: of any arrivals, what is selected, the lifecycle and the outcome;
\* without repetitions the counts, and without equal numbers the context.
THEOREM ProjectionsIgnoreOrder == Spec => []OrderDoesNotShow
<1>1. ArrivalsOK => OrderDoesNotShow
    BY StateAgrees, CountsAgree, ContextAgrees DEF OrderDoesNotShow
<1> QED
    BY <1>1, ArrivalsTyped, PTL
=============================================================================
